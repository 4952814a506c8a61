------------------------------ MODULE LogRequests ------------------------------
(***************************************************************************)
(* Requests for logs in the agent (machineservice GetMachineLogs and       *)
(* GetContainerLogs, apiserver): a handler looks for the machine's         *)
(* controller.  If there is one it calls the runtime, which sends the      *)
(* stored lines and, to a follower, the live ones; otherwise the agent     *)
(* reads the machine's log file by itself.  Between handler and reader is  *)
(* a goroutine with two channels without buffer, or the runtime's stream   *)
(* and one such channel.                                                   *)
(*                                                                         *)
(*   - The call returns with the first line or the end of the stream, or   *)
(*     fails after ResponseHeaderTimeout (5 s).  The stream's end carries  *)
(*     the runtime's error, which nobody reads.                            *)
(*   - Only the goroutine that reads the file closes the handler's         *)
(*     channel: the handler of a stream waits until its client hangs up.   *)
(*   - Neither goroutine looks at the context while it sends on a channel. *)
(*                                                                         *)
(* A reader of the runtime stands for its handler with the goroutine of    *)
(* its ReadLogs; LogPipeline has them in detail, and the full channel of a *)
(* live one.  A stream holds one line (wire).  ReaderOver, AttachAtStart   *)
(* and NeverLeaves are wrong forms of the definitions that follow them.    *)
(***************************************************************************)
EXTENDS Naturals, Sequences

CONSTANTS
    Requests,      \* requests for the logs of one machine
    Containers,    \* its containers
    Console,       \* the source of lines that are no container's
    MaxLines       \* bound: lines of the log file

ASSUME LogRequestsAssumption ==
    /\ Console \notin Containers
    /\ MaxLines \in Nat

VARIABLES
    machine,    \* whether it has a controller, and a runtime
    file,       \* the log file: the source of each line
    request,    \* handlers of the API server, with their clients
    agent,      \* the goroutines of the machine service
    reader      \* what reads the file, in the runtime or in the agent

vars == <<machine, file, request, agent, reader>>

Source == Containers \cup {Console}
NoRequest == [pc |-> "none", asked |-> Console, follow |-> FALSE, path |-> "none",
              line |-> 0, got |-> <<>>, gone |-> FALSE]

Init ==
    /\ machine = [controller |-> TRUE, runtime |-> FALSE]
    /\ file = <<>>
    /\ request = [r \in Requests |-> NoRequest]
    /\ agent = [r \in Requests |-> [pc |-> "none", line |-> 0]]
    /\ reader = [r \in Requests |-> [pc |-> "none", pos |-> 0, wire |-> 0]]

Reading(r) == reader[r].pc \in {"stored", "attach", "live"}
FromRuntime(r) == request[r].path = "runtime"
(* A request's context ends with its handler, or when its client hangs up. *)
ContextDone(r) == request[r].gone \/ request[r].pc \in {"ended", "failed"}

-------------------------------------------------------------------------------
(* The machine.                                                            *)

RuntimeStarts ==
    /\ machine.controller /\ ~machine.runtime
    /\ machine' = [machine EXCEPT !.runtime = TRUE]
    /\ UNCHANGED <<file, request, agent, reader>>

WriteLog ==
    /\ machine.runtime /\ Len(file) < MaxLines
    /\ \E source \in Source : file' = Append(file, source)
    /\ UNCHANGED <<machine, request, agent, reader>>

(* Its streams break; what was under way may be lost.                      *)
RuntimeEnds ==
    /\ machine.runtime
    /\ machine' = [machine EXCEPT !.runtime = FALSE]
    /\ \E lost \in SUBSET {r \in Requests : FromRuntime(r) /\ reader[r].wire # 0} :
         reader' = [r \in Requests |->
           IF r \in lost THEN [reader[r] EXCEPT !.pc = "cut", !.wire = 0]
           ELSE IF FromRuntime(r) /\ Reading(r) THEN [reader[r] EXCEPT !.pc = "cut"]
           ELSE reader[r]]
    /\ UNCHANGED <<file, request, agent>>

(* handleMachineTerminated takes the controller out; the runtime may still *)
(* be exiting.                                                             *)
Retire ==
    /\ machine.controller
    /\ machine' = [machine EXCEPT !.controller = FALSE]
    /\ UNCHANGED <<file, request, agent, reader>>

-------------------------------------------------------------------------------
(* The handler in the API server.                                          *)

Ask(r) ==
    /\ request[r].pc = "none"
    /\ \E source \in Source, follow \in BOOLEAN :
         request' = [request EXCEPT ![r].pc = "lookup", ![r].asked = source,
                                    ![r].follow = follow]
    /\ UNCHANGED <<machine, file, agent, reader>>

HangUp(r) ==
    /\ request[r].pc # "none" /\ ~ContextDone(r)
    /\ request' = [request EXCEPT ![r].gone = TRUE]
    /\ UNCHANGED <<machine, file, agent, reader>>

LookUp(r) ==
    /\ request[r].pc = "lookup"
    /\ request' = IF machine.controller
                  THEN [request EXCEPT ![r].pc = "call", ![r].path = "runtime"]
                  ELSE [request EXCEPT ![r].pc = "open", ![r].path = "file"]
    /\ UNCHANGED <<machine, file, agent, reader>>

(* The agent's ReadLogs fails when there is no file.                       *)
OpenFile(r) ==
    /\ request[r].pc = "open"
    /\ IF file = <<>>
       THEN /\ request' = [request EXCEPT ![r].pc = "failed"]
            /\ UNCHANGED <<agent, reader>>
       ELSE /\ request' = [request EXCEPT ![r].pc = "select"]
            /\ agent' = [agent EXCEPT ![r].pc = "receiving"]
            /\ reader' = [reader EXCEPT ![r].pc = "stored"]
    /\ UNCHANGED <<machine, file>>

(* The runtime's ReadLogs too: then the stream is over at once.            *)
CallRuntime(r) ==
    /\ request[r].pc = "call" /\ reader[r].pc = "none" /\ machine.runtime
    /\ reader' = [reader EXCEPT ![r].pc = IF file = <<>> THEN "over" ELSE "stored"]
    /\ UNCHANGED <<machine, file, request, agent>>

CallReturns(r) ==
    /\ request[r].pc = "call"
    /\ reader[r].wire # 0 \/ reader[r].pc = "over"
    /\ request' = [request EXCEPT ![r].pc = "select"]
    /\ agent' = [agent EXCEPT ![r].pc = "receiving"]
    /\ UNCHANGED <<machine, file, reader>>

(* Nobody listens, the stream breaks, the context ends or no line comes.   *)
CallFails(r) ==
    /\ request[r].pc = "call" /\ reader[r].wire = 0
    /\ request[r].gone \/ ~machine.runtime \/ reader[r].pc # "none"
    /\ request' = [request EXCEPT ![r].pc = "failed"]
    /\ UNCHANGED <<machine, file, agent, reader>>

HandleLine(r) ==
    /\ request[r].pc = "select" /\ agent[r].pc = "holding"
    /\ request' = [request EXCEPT ![r].pc = "sending", ![r].line = agent[r].line]
    /\ agent' = [agent EXCEPT ![r] = [pc |-> "receiving", line |-> 0]]
    /\ UNCHANGED <<machine, file, reader>>

(* The client reads until it hangs up; later a Send may fail or not.       *)
SendLine(r) ==
    /\ request[r].pc = "sending"
    /\ LET sent == [request[r] EXCEPT !.pc = "select", !.line = 0]
       IN request' = [request EXCEPT ![r] =
            IF request[r].gone THEN sent ELSE [sent EXCEPT !.got = Append(@, request[r].line)]]
    /\ UNCHANGED <<machine, file, agent, reader>>

SendFails(r) ==
    /\ request[r].pc = "sending" /\ request[r].gone
    /\ request' = [request EXCEPT ![r].pc = "failed", ![r].line = 0]
    /\ UNCHANGED <<machine, file, agent, reader>>

HandlerReturns(r) ==
    /\ request[r].pc = "select"
    /\ \/ /\ request[r].gone
          /\ request' = [request EXCEPT ![r].pc = "failed"]
       \/ /\ request[r].path = "file" /\ agent[r].pc = "done"    \* closed
          /\ request' = [request EXCEPT ![r].pc = "ended"]
    /\ UNCHANGED <<machine, file, agent, reader>>

-------------------------------------------------------------------------------
(* The goroutine in between.                                               *)

(* The runtime sends the lines of the source that was asked for; from the  *)
(* file come the lines of that kind, whichever container wrote them.       *)
Wanted(r, line) ==
    \/ file[line] = request[r].asked
    \/ /\ request[r].path = "file"
       /\ {file[line], request[r].asked} \subseteq Containers

ReceiveLine(r) ==
    /\ agent[r].pc = "receiving" /\ reader[r].wire # 0
    /\ reader' = [reader EXCEPT ![r].wire = 0]
    /\ agent' = IF Wanted(r, reader[r].wire)
                THEN [agent EXCEPT ![r] = [pc |-> "holding", line |-> reader[r].wire]]
                ELSE agent
    /\ UNCHANGED <<machine, file, request>>

ReaderOver(r) == reader[r].pc \in {"over", "cut"}
NothingComes(r) == reader[r].pc \in {"over", "cut"} /\ reader[r].wire = 0

AgentReturns(r) ==
    /\ agent[r].pc = "receiving"
    /\ NothingComes(r) \/ ContextDone(r)
    /\ agent' = [agent EXCEPT ![r].pc = "done"]
    /\ UNCHANGED <<machine, file, request, reader>>

-------------------------------------------------------------------------------
(* The reader.                                                             *)

ReadLine(r) ==
    /\ reader[r].pc \in {"stored", "live"} /\ reader[r].wire = 0
    /\ reader[r].pos < Len(file)
    /\ LET line == reader[r].pos + 1
       IN reader' = [reader EXCEPT ![r].pos = line,
            ![r].wire = IF FromRuntime(r) /\ ~Wanted(r, line) THEN 0 ELSE line]
    /\ UNCHANGED <<machine, file, request, agent>>

(* A file is not followed.                                                 *)
Follows(r) == FromRuntime(r) /\ request[r].follow

StoredLinesEnd(r) ==
    /\ reader[r].pc = "stored" /\ reader[r].pos = Len(file)
    /\ FromRuntime(r) \/ reader[r].wire = 0
    /\ reader' = [reader EXCEPT ![r].pc = IF Follows(r) THEN "attach" ELSE "over"]
    /\ UNCHANGED <<machine, file, request, agent>>

(* The last line may still be on its way to the handlers.                  *)
AttachAtStart(r) == 0..Len(file)
FirstLive(r) == {Len(file), Len(file) - 1}

Attach(r) ==
    /\ reader[r].pc = "attach"
    /\ \E pos \in FirstLive(r) :
         reader' = [reader EXCEPT ![r].pc = "live", ![r].pos = pos]
    /\ UNCHANGED <<machine, file, request, agent>>

NeverLeaves(r) == ContextDone(r) /\ request[r].path = "file" /\ reader[r].wire = 0
MayLeave(r) == ContextDone(r) /\ (FromRuntime(r) \/ reader[r].wire = 0)

ReaderReturns(r) ==
    /\ Reading(r) /\ MayLeave(r)
    /\ reader' = [reader EXCEPT ![r].pc = "cut"]
    /\ UNCHANGED <<machine, file, request, agent>>

-------------------------------------------------------------------------------
Handler(r) ==
    \/ LookUp(r) \/ OpenFile(r) \/ CallRuntime(r) \/ CallReturns(r) \/ CallFails(r)
    \/ HandleLine(r) \/ SendLine(r) \/ SendFails(r) \/ HandlerReturns(r)
Agent(r) == ReceiveLine(r) \/ AgentReturns(r)
Reader(r) == ReadLine(r) \/ StoredLinesEnd(r) \/ Attach(r) \/ ReaderReturns(r)

Next ==
    \/ RuntimeStarts \/ WriteLog \/ RuntimeEnds \/ Retire
    \/ \E r \in Requests : Ask(r) \/ HangUp(r) \/ Handler(r) \/ Agent(r) \/ Reader(r)

Spec == Init /\ [][Next]_vars

(* The goroutines run on, the time limit of a call passes, and a client    *)
(* reads as long as it has not hung up.  Nobody has to hang up or write,   *)
(* and the machine may stay as it is.                                      *)
FairSpec ==
    /\ Spec
    /\ \A r \in Requests : WF_vars(Handler(r)) /\ WF_vars(Agent(r)) /\ WF_vars(Reader(r))

-------------------------------------------------------------------------------
(* Properties.                                                             *)

(* Every variable keeps to its type.                                       *)
TypeOK ==
    /\ machine \in [controller : BOOLEAN, runtime : BOOLEAN]
    /\ file \in Seq(Source)
    /\ request \in [Requests ->
         [pc : {"none", "lookup", "open", "call", "select", "sending", "ended", "failed"},
          asked : Source, follow : BOOLEAN, path : {"none", "runtime", "file"},
          line : 0..Len(file), got : Seq(1..Len(file)), gone : BOOLEAN]]
    /\ agent \in [Requests -> [pc : {"none", "receiving", "holding", "done"},
                               line : 0..Len(file)]]
    /\ reader \in [Requests ->
         [pc : {"none", "stored", "attach", "live", "over", "cut"},
          pos : 0..Len(file), wire : 0..Len(file)]]

AgentFeed == INSTANCE LogFeed
    WITH Readers <- Requests, log <- Len(file),
         got <- [r \in Requests |-> request[r].got]

(* Through runtime and agent a client still gets what a reader of a log is *)
(* promised: the lines in order, one of them twice at most.                *)
AgentFeedSpec == AgentFeed!Spec

(* All that is left of this request is its handler, which waits for a      *)
(* channel that nobody closes.                                             *)
Hanging(r) ==
    /\ FromRuntime(r) /\ request[r].pc = "select"
    /\ agent[r].pc = "done" /\ ~request[r].gone
Answered(r) == request[r].pc = "ended" \/ (Hanging(r) /\ reader[r].pc = "over")

Sources(r) == IF request[r].path = "file" /\ request[r].asked \in Containers
              THEN Containers ELSE {request[r].asked}

(* When the log of a machine without controller has come to its end, or a  *)
(* stream that does not follow has, the client has been sent, each once,   *)
(* every line of the source it asked for and no other, up to the last that *)
(* was read.  From the file those are the lines of all containers for one. *)
AnsweredInFull ==
    \A r \in Requests : Answered(r) /\ ~request[r].gone =>
      LET got == request[r].got
      IN /\ \A i \in 1..(Len(got) - 1) : got[i] < got[i + 1]
         /\ {got[i] : i \in DOMAIN got} =
              {line \in 1..reader[r].pos : file[line] \in Sources(r)}

(* A request that does not follow comes to an end: it is answered, or it   *)
(* fails, or it has got all it will get and hangs until its client leaves. *)
(* When a client leaves, its request's handler returns and its reader in   *)
(* the runtime stops.  The agent's goroutines do too, unless one of them   *)
(* was sending on a channel: it stays for ever, with its file open.        *)
RequestsEnd ==
    \A r \in Requests :
      /\ request[r].pc = "lookup" /\ ~request[r].follow
           ~> request[r].pc \in {"ended", "failed"} \/ Hanging(r)
      /\ request[r].gone
           ~> /\ request[r].pc \in {"ended", "failed"}
              /\ ~Reading(r) \/ (request[r].path = "file" /\ reader[r].wire # 0)
              /\ agent[r].pc \in {"none", "done", "holding"}
================================================================================
