-------------------------------- MODULE LogFeed --------------------------------
(***************************************************************************)
(* What every reader of a log promises in this system, in the guest        *)
(* (init/internal/logservice Read) and in the runtime (GetLogs and         *)
(* GetContainerLogs): the lines come in their order.  A reader may miss    *)
(* lines written while it turns from the stored ones to the live ones, and *)
(* may get one line twice, the one that was being written then; nothing    *)
(* else comes twice, and no line comes before it was written.              *)
(***************************************************************************)
EXTENDS Naturals, Sequences

CONSTANT Readers

VARIABLES
    log,   \* the number of lines written
    got    \* the lines each reader got, in the order it got them

InOrder(lines) ==
    \A i, j \in DOMAIN lines : i < j => lines[i] <= lines[j]
OneTwiceAtMost(lines) ==
    \A i, j \in DOMAIN lines :
      i > 1 /\ j > 1 /\ lines[i] = lines[i - 1] /\ lines[j] = lines[j - 1] => i = j

Init == log = 0 /\ got = [r \in Readers |-> <<>>]

WriteLine == log' = log + 1 /\ got' = got

Deliver(r, line) ==
    /\ line \in 1..log
    /\ LET lines == Append(got[r], line)
       IN /\ InOrder(lines) /\ OneTwiceAtMost(lines)
          /\ got' = [got EXCEPT ![r] = lines]
    /\ log' = log

(* A reader that comes back starts again.                                  *)
StartAgain(r) ==
    /\ got' = [got EXCEPT ![r] = <<>>]
    /\ log' = log

Next ==
    \/ WriteLine
    \/ \E r \in Readers : StartAgain(r) \/ \E line \in 1..log : Deliver(r, line)

Spec == Init /\ [][Next]_<<log, got>>
================================================================================
