------------------------------ MODULE ImageVolumes ------------------------------
(***************************************************************************)
(* One image and the machines that use it (nodeagent/internal/             *)
(* imageprovider, volumeprovider, and their calls in machineservice).      *)
(*                                                                         *)
(*   - Every machine works on a copy in memory of the image's row and of   *)
(*     the row of the image's volume, made when it is created or loaded,   *)
(*     and never read again.  A machine that is created has a copy of its  *)
(*     own; those that are loaded share one (Preload).                     *)
(*   - Pull creates the image's logical volume, makes a file system on it, *)
(*     mounts, extracts, unmounts, and saves PulledAt: each a step.  The   *)
(*     machine's own volume is then a snapshot of the image's.             *)
(*   - No lock is held.  The kernel refuses a volume whose name exists and *)
(*     a file system on a mounted device; the database a second image row  *)
(*     with the same digest.                                               *)
(*   - Create writes machine, image and volume in one transaction; a row   *)
(*     that is there already is overwritten (FullSaveAssociations).        *)
(*   - Mounts and volumes outlive the agent; the copies do not.            *)
(*                                                                         *)
(* A timestamp is a Boolean, and Path is set exactly when AllocatedAt is,  *)
(* before any use.  Each machine has one container, so one volume.  `seen' *)
(* is history, read by no action.  NameIgnored, RefusedAgain,              *)
(* ColumnForgotten and FailureIgnored are wrong forms of the definitions   *)
(* below them, used to show that properties can fail.                      *)
(***************************************************************************)
EXTENDS Integers, FiniteSets

CONSTANTS
    Machines,      \* machines that are created with the image
    None,          \* no row, no copy
    MaxFailures,   \* bound: commands, saves and requests that fail
    MaxRestarts    \* bound: crashes of the agent

ImageRow == [id : Machines, allocated : BOOLEAN, pulled : BOOLEAN]

ASSUME ImageAssumption ==
    /\ None \notin ImageRow
    /\ {MaxFailures, MaxRestarts} \subseteq Nat

VARIABLES
    row,      \* the image's row and its volume's: whose Create made it, stamps
    lv,       \* the image's logical volume: its data, and who mounted it
    machine,  \* each machine: copies in memory, where its controller is
    disk,     \* each machine's own logical volume: what is on it
    used,     \* how much of each bound is used up
    seen      \* history: which of the events below have happened

vars == <<row, lv, machine, disk, used, seen>>

History ==
    {"midPull",   \* copied between the two saves of a pull, beside another copy
     "shared",    \* machines were loaded with one copy of an image not yet pulled
     "undone",    \* Create took a timestamp of the row back
     "unsaved",   \* a save of the image's volume failed
     "cutShort"}  \* the agent died between lvcreate and that save

NewImage(x) == [id |-> x, allocated |-> FALSE, pulled |-> FALSE]
NoMachine == [status |-> "none", pc |-> "idle", image |-> None, source |-> TRUE,
              allocated |-> FALSE, saved |-> FALSE]
NoVolume == [data |-> "absent", mounts |-> {}]

CanFail == used.failures < MaxFailures
Fail == used' = [used EXCEPT !.failures = @ + 1]
Note(event, cond) == IF cond THEN {event} ELSE {}
At(x, pc) == machine[x].pc = pc
Goto(x, pc) == machine' = [machine EXCEPT ![x].pc = pc]
Owned(x) == machine[x].status = "owned"

(* The controllers that work on x's copy: the loaded ones have no source.  *)
Sharers(x) == {x} \cup {y \in Machines : /\ Owned(y) /\ ~machine[y].source
                                        /\ ~machine[x].source}

(* A stamp is set in memory, where all of them see it.                     *)
SetCopy(x, image, pc) ==
    machine' = [y \in Machines |->
      IF y = x THEN [machine[x] EXCEPT !.image = image, !.pc = pc]
      ELSE IF y \in Sharers(x) THEN [machine[y] EXCEPT !.image = image]
      ELSE machine[y]]

Init ==
    /\ row = None
    /\ lv = NoVolume
    /\ machine = [x \in Machines |-> NoMachine]
    /\ disk = [x \in Machines |-> "absent"]
    /\ used = [failures |-> 0, restarts |-> 0]
    /\ seen = {}

-------------------------------------------------------------------------------
(* MachineService.Create: FetchDetails, then the transaction.              *)

BetweenSaves == row # None /\ row.allocated /\ ~row.pulled
HasCopy(x) == machine[x].status \in {"fetched", "owned"}

FetchDetails(x) ==
    /\ machine[x].status = "none"
    /\ machine' = [machine EXCEPT ![x].status = "fetched",
                     ![x].image = IF row = None THEN NewImage(x) ELSE row]
    /\ seen' = seen \cup Note("midPull", BetweenSaves /\ \E y \in Machines : HasCopy(y))
    /\ UNCHANGED <<row, lv, disk, used>>

Takes(stamp, new) == row # None /\ row[stamp] /\ ~new[stamp]

(* Another Create has taken the digest, which is unique, for its own row.  *)
Conflicts(x) == row # None /\ row.id # machine[x].image.id

Create(x) ==
    /\ machine[x].status = "fetched"
    /\ ~Conflicts(x)
    /\ row' = machine[x].image
    /\ machine' = [machine EXCEPT ![x].status = "owned"]
    /\ seen' = seen \cup Note("undone", \E stamp \in {"allocated", "pulled"} :
                                          Takes(stamp, machine[x].image))
    /\ UNCHANGED <<lv, disk, used>>

CreateFails(x) ==
    /\ machine[x].status = "fetched"
    /\ IF Conflicts(x) THEN used' = used ELSE CanFail /\ Fail
    /\ machine' = [machine EXCEPT ![x].status = "rejected", ![x].image = None]
    /\ UNCHANGED <<row, lv, disk, seen>>

-------------------------------------------------------------------------------
(* ImageProvider.Pull.                                                     *)

(* The image is looked up in its registry before anything else is done.    *)
Pull(x) ==
    /\ Owned(x) /\ At(x, "idle")
    /\ Goto(x, IF machine[x].image.pulled THEN "volume" ELSE "lvcreate")
    /\ UNCHANGED <<row, lv, disk, used, seen>>

(* ErrVolumeAlreadyAllocated is not an error here.                         *)
RefusedAgain == "idle"
AlreadyAllocated == "mkfs"

(* Allocate, for the image's volume: its name must not exist.              *)
NameIgnored == TRUE
NameFree == lv.data = "absent"

AllocateImage(x) ==
    /\ At(x, "lvcreate")
    /\ \/ /\ machine[x].image.allocated
          /\ Goto(x, AlreadyAllocated)
          /\ UNCHANGED <<lv, used>>
       \/ /\ ~machine[x].image.allocated /\ NameFree
          /\ lv' = [lv EXCEPT !.data = "blank"]
          /\ Goto(x, "saveAllocated")
          /\ used' = used
       \/ /\ IF machine[x].image.allocated \/ NameFree
             THEN CanFail /\ Fail ELSE used' = used
          /\ Goto(x, "idle")
          /\ lv' = lv
    /\ UNCHANGED <<row, disk, seen>>

(* The stamp is set in memory before the row is saved; a failed save ends  *)
(* the pull, and the next one goes by the stamp.                           *)
ColumnForgotten(saves) == row
RowAfterSave(saves) == [row EXCEPT !.allocated = @ \/ saves]

SaveAllocated(x) ==
    /\ At(x, "saveAllocated")
    /\ \E saves \in BOOLEAN :
         /\ IF saves THEN used' = used ELSE CanFail /\ Fail
         /\ SetCopy(x, [machine[x].image EXCEPT !.allocated = TRUE],
                    IF saves THEN "mkfs" ELSE "idle")
         /\ row' = RowAfterSave(saves)
         /\ seen' = seen \cup Note("unsaved", ~saves)
    /\ UNCHANGED <<lv, disk>>

(* mkfs refuses a device that is mounted, and nothing else.                *)
MakeFileSystem(x) ==
    /\ At(x, "mkfs")
    /\ \/ /\ lv.mounts = {}
          /\ lv' = [lv EXCEPT !.data = "empty"]
          /\ Goto(x, "mount")
          /\ used' = used
       \/ /\ IF lv.mounts # {} THEN used' = used ELSE CanFail /\ Fail
          /\ Goto(x, "idle")
          /\ lv' = lv
    /\ UNCHANGED <<row, disk, seen>>

Extracting == {x \in Machines : At(x, "extract")}

(* Mounting begins the extraction: until it ends the image is not whole.   *)
Mount(x) ==
    /\ At(x, "mount")
    /\ \/ /\ lv' = [data |-> IF Extracting = {} THEN "empty" ELSE lv.data,
                    mounts |-> lv.mounts \cup {x}]
          /\ Goto(x, "extract")
          /\ used' = used
       \/ /\ CanFail /\ Fail
          /\ Goto(x, "idle")
          /\ lv' = lv
    /\ UNCHANGED <<row, disk, seen>>

(* A pull that fails while the volume is mounted removes its temporary     *)
(* directory, the content of the volume with it; the mount stays.          *)
FailureIgnored == "unmount"
AfterFailure == "idle"

Wipe(x) ==
    /\ CanFail /\ Fail
    /\ lv' = [lv EXCEPT !.data = "broken"]
    /\ Goto(x, AfterFailure)

Extract(x) ==
    /\ At(x, "extract")
    /\ \/ /\ lv' = [lv EXCEPT !.data = IF @ = "broken" THEN @ ELSE "image"]
          /\ Goto(x, "unmount")
          /\ used' = used
       \/ Wipe(x)
    /\ UNCHANGED <<row, disk, seen>>

Unmount(x) ==
    /\ At(x, "unmount")
    /\ \/ /\ lv' = [lv EXCEPT !.mounts = @ \ {x}]
          /\ Goto(x, "savePulled")
          /\ used' = used
       \/ Wipe(x)
    /\ UNCHANGED <<row, disk, seen>>

SavePulled(x) ==
    /\ At(x, "savePulled")
    /\ \E saves \in BOOLEAN :
         /\ IF saves THEN used' = used ELSE CanFail /\ Fail
         /\ SetCopy(x, [machine[x].image EXCEPT !.pulled = TRUE],
                    IF saves THEN "volume" ELSE "idle")
         /\ row' = [row EXCEPT !.pulled = @ \/ saves]
    /\ UNCHANGED <<lv, disk, seen>>

-------------------------------------------------------------------------------
(* VolumeProvider.Allocate and Release, for the machine's own volume.      *)

Whole == lv.data = "image" /\ Extracting = {}

(* Without its source, which loadMachines does not load, the volume is a   *)
(* new one instead of a snapshot.  A source without a path is an error.    *)
Pathless(x) == machine[x].source /\ ~machine[x].image.allocated

AllocateVolume(x) ==
    /\ At(x, "volume")
    /\ \/ /\ machine[x].allocated
          /\ Goto(x, "ready")
          /\ UNCHANGED <<disk, used>>
       \/ /\ ~machine[x].allocated /\ ~Pathless(x) /\ disk[x] = "absent"
          /\ disk' = [disk EXCEPT ![x] = IF ~machine[x].source THEN "blank"
                                         ELSE IF Whole THEN "image" ELSE "torn"]
          /\ Goto(x, "saveVolume")
          /\ used' = used
       \/ /\ ~machine[x].allocated
          /\ IF disk[x] # "absent" \/ Pathless(x)
             THEN used' = used ELSE CanFail /\ Fail
          /\ Goto(x, "idle")
          /\ disk' = disk
    /\ UNCHANGED <<row, lv, seen>>

SaveVolume(x) ==
    /\ At(x, "saveVolume")
    /\ \E saves \in BOOLEAN :
         /\ IF saves THEN used' = used ELSE CanFail /\ Fail
         /\ machine' = [machine EXCEPT ![x].allocated = TRUE, ![x].saved = saves,
                                       ![x].pc = IF saves THEN "ready" ELSE "idle"]
    /\ UNCHANGED <<row, lv, disk, seen>>

(* The image's volume stays.  A failed release is retried.                 *)
Release(x) ==
    /\ Owned(x) /\ (At(x, "idle") \/ At(x, "ready"))
    /\ disk' = [disk EXCEPT ![x] = "absent"]
    /\ machine' = [machine EXCEPT ![x].status = "terminated", ![x].pc = "idle"]
    /\ UNCHANGED <<row, lv, used, seen>>

-------------------------------------------------------------------------------
(* The agent dies; loadMachines reads all machines with their volumes and  *)
(* one object for their image, but not the volumes' sources.               *)
ImageLoaded == row
LoadedTogether == \E x, y \in Machines : x # y /\ Owned(x) /\ Owned(y)

Restart ==
    /\ used.restarts < MaxRestarts
    /\ used' = [used EXCEPT !.restarts = @ + 1]
    /\ machine' = [x \in Machines |->
         IF Owned(x)
         THEN [machine[x] EXCEPT !.pc = "idle", !.image = ImageLoaded, !.source = FALSE,
                                 !.allocated = machine[x].saved]
         ELSE IF machine[x].status = "fetched" THEN NoMachine ELSE machine[x]]
    /\ lv' = [lv EXCEPT !.data = IF Extracting = {} THEN @ ELSE "broken"]
    /\ seen' = seen
         \cup Note("shared", row # None /\ ~row.pulled /\ LoadedTogether)
         \cup Note("cutShort", \E x \in Machines : At(x, "saveAllocated"))
    /\ UNCHANGED <<row, disk>>

-------------------------------------------------------------------------------
Controller(x) ==
    \/ Pull(x) \/ AllocateImage(x) \/ SaveAllocated(x) \/ MakeFileSystem(x)
    \/ Mount(x) \/ Extract(x) \/ Unmount(x) \/ SavePulled(x)
    \/ AllocateVolume(x) \/ SaveVolume(x)

Next ==
    \/ \E x \in Machines :
         FetchDetails(x) \/ Create(x) \/ CreateFails(x) \/ Controller(x) \/ Release(x)
    \/ Restart

Spec == Init /\ [][Next]_vars

(* A controller goes on, and tries again whatever failed.                  *)
FairSpec == Spec /\ \A x \in Machines : WF_vars(Controller(x))

-------------------------------------------------------------------------------
(* Properties.                                                             *)

Machine ==
    [status : {"none", "fetched", "rejected", "owned", "terminated"},
     pc : {"idle", "lvcreate", "saveAllocated", "mkfs", "mount", "extract",
           "unmount", "savePulled", "volume", "saveVolume", "ready"},
     image : ImageRow \cup {None}, source : BOOLEAN,
     allocated : BOOLEAN, saved : BOOLEAN]

(* Every variable keeps to its type: a machine has its image from          *)
(* FetchDetails (create.go:24) or Preload (service.go:85) on.              *)
TypeOK ==
    /\ row \in ImageRow \cup {None}
    /\ lv \in [data : {"absent", "blank", "empty", "image", "broken"},
               mounts : SUBSET Machines]
    /\ machine \in [Machines -> Machine]
    /\ disk \in [Machines -> {"absent", "blank", "torn", "image"}]
    /\ used \in [failures : Nat, restarts : Nat]
    /\ seen \subseteq History
    /\ \A x \in Machines : HasCopy(x) => machine[x].image # None

Never(events) == seen \cap events = {}
Pulling(x) == machine[x].pc \in {"saveAllocated", "mkfs", "mount", "extract",
                                 "unmount", "savePulled"}

(* Nothing but the name of the volume keeps two pulls apart (allocate.go:47): *)
(* it does unless another copy is made between the saves, or the agent is  *)
(* started again before the image is pulled and gives two machines one copy, *)
(* in which each finds the other's stamp and goes on (pull.go:46).         *)
OnePullAtATime ==
    Never({"midPull", "shared"}) =>
      \A x, y \in Machines : Pulling(x) /\ Pulling(y) => x = y

(* No machine runs from a snapshot of half an image, unless a copy of the  *)
(* row was made between the saves, or is shared: then a machine may make a *)
(* file system on the volume again while another one, that was created and *)
(* so has a source, takes its snapshot (pull.go:55).                       *)
SnapshotsAreWhole ==
    Never({"midPull", "shared"}) => \A x \in Machines : disk[x] # "torn"

(* A row that says pulled tells the truth about the volume (pull.go:72),   *)
(* whatever failed, was repeated or crashed.                               *)
PulledMeansWhole ==
    Never({"midPull", "shared"}) /\ row # None /\ row.pulled => Whole

(* A volume that exists is known to the row, or will be: otherwise no later *)
(* machine can pull the image.  Only a save that failed, a crash before it, *)
(* or a Create that writes an older copy (create.go:68) loses it.          *)
RowKnowsVolume ==
    Never({"undone", "unsaved", "cutShort"}) /\ lv.data # "absent" =>
      \/ row.allocated
      \/ \E x \in Machines : At(x, "saveAllocated")

(* A machine that has a source gets a snapshot of it, as the comment in    *)
(* allocate.go:28 has it, and never an empty volume.                       *)
SnapshotOfSource == \A x \in Machines : disk[x] # "blank"

(* What keeps a machine from its volume for good, until the agent restarts *)
(* or longer: the image's volume exists and its copy does not know, a pull *)
(* left its mount behind, the machine's own volume exists and its copy does *)
(* not know, or the image is pulled by the row and has no path.            *)
Stuck(x) ==
    \/ /\ ~machine[x].image.allocated
       /\ \A y \in Sharers(x) : ~At(y, "saveAllocated")
       /\ IF machine[x].image.pulled THEN machine[x].source ELSE lv.data # "absent"
    \/ /\ ~machine[x].image.pulled
       /\ \E y \in lv.mounts : machine[y].pc \notin {"extract", "unmount"}
    \/ ~machine[x].allocated /\ disk[x] # "absent" /\ ~At(x, "saveVolume")

(* Every machine gets its volume sooner or later (reconciliation.go:192),  *)
(* or is stuck.                                                            *)
GetsItsVolume ==
    \A x \in Machines : Owned(x) ~> At(x, "ready") \/ ~Owned(x) \/ Stuck(x)
================================================================================
