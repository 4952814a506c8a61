--------------------------- MODULE ImageVolumesProofs ---------------------------
(***************************************************************************)
(* Proofs about ImageVolumes, for any number of machines: its type         *)
(* invariant, that one machine pulls at a time, that what is recorded as   *)
(* pulled is whole, that no machine gets half an image, and that the row   *)
(* knows the volume.                                                       *)
(***************************************************************************)
EXTENDS ImageVolumes, TLAPS

(* Every step of the module is one of these.                               *)
LEMMA StepCases ==
    ASSUME [Next]_vars
    PROVE  \/ \E x \in Machines :
                \/ FetchDetails(x) \/ Create(x) \/ CreateFails(x)
                \/ Pull(x) \/ AllocateImage(x) \/ SaveAllocated(x)
                \/ MakeFileSystem(x) \/ Mount(x) \/ Extract(x) \/ Unmount(x)
                \/ SavePulled(x) \/ AllocateVolume(x) \/ SaveVolume(x)
                \/ Release(x)
           \/ Restart
           \/ UNCHANGED vars
  BY DEF Next, Controller

(* The updates the steps make in one machine keep to its type.             *)
Status == {"none", "fetched", "rejected", "owned", "terminated"}
Pc == {"idle", "lvcreate", "saveAllocated", "mkfs", "mount", "extract",
       "unmount", "savePulled", "volume", "saveVolume", "ready"}

LEMMA MachineType ==
    ASSUME NEW m \in Machine
    PROVE
      /\ \A p \in Pc :
           [m EXCEPT !.pc = p] \in Machine
      /\ \A i \in ImageRow \cup {None} :
           [m EXCEPT !.image = i] \in Machine
      /\ \A s \in Status :
           [m EXCEPT !.status = s] \in Machine
      /\ \A s \in Status, i \in ImageRow \cup {None} :
           [m EXCEPT !.status = s, !.image = i] \in Machine
      /\ \A s \in Status, p \in Pc :
           [m EXCEPT !.status = s, !.pc = p] \in Machine
      /\ \A i \in ImageRow \cup {None}, p \in Pc :
           [m EXCEPT !.image = i, !.pc = p] \in Machine
      /\ \A v \in BOOLEAN, p \in Pc :
           [m EXCEPT !.allocated = TRUE, !.saved = v, !.pc = p] \in Machine
      /\ \A i \in ImageRow \cup {None}, v \in BOOLEAN :
           [m EXCEPT !.pc = "idle", !.image = i, !.source = FALSE, !.allocated = v] \in Machine
  <1> USE DEF Machine, Status, Pc
  <1>1. \A p \in Pc :
         [m EXCEPT !.pc = p] \in Machine
    OBVIOUS
  <1>8. \A i \in ImageRow \cup {None} :
         [m EXCEPT !.image = i] \in Machine
    OBVIOUS
  <1>2. \A s \in Status :
         [m EXCEPT !.status = s] \in Machine
    OBVIOUS
  <1>3. \A s \in Status, i \in ImageRow \cup {None} :
         [m EXCEPT !.status = s, !.image = i] \in Machine
    OBVIOUS
  <1>4. \A s \in Status, p \in Pc :
         [m EXCEPT !.status = s, !.pc = p] \in Machine
    OBVIOUS
  <1>5. \A i \in ImageRow \cup {None}, p \in Pc :
         [m EXCEPT !.image = i, !.pc = p] \in Machine
    OBVIOUS
  <1>6. \A v \in BOOLEAN, p \in Pc :
         [m EXCEPT !.allocated = TRUE, !.saved = v, !.pc = p] \in Machine
    <2>1. TRUE \in BOOLEAN
      OBVIOUS
    <2> QED BY <2>1, Zenon
  <1>7. \A i \in ImageRow \cup {None}, v \in BOOLEAN :
         [m EXCEPT !.pc = "idle", !.image = i, !.source = FALSE, !.allocated = v] \in Machine
    OBVIOUS
  <1> QED BY <1>1, <1>2, <1>3, <1>4, <1>5, <1>6, <1>7, <1>8, Zenon

(* So do the stamps of a copy and of the row.                              *)
LEMMA StampType ==
    ASSUME NEW r \in ImageRow, NEW v \in BOOLEAN
    PROVE  [r EXCEPT !.allocated = v] \in ImageRow /\ [r EXCEPT !.pulled = v] \in ImageRow
  <1>1. [r EXCEPT !.allocated = v] \in ImageRow
    BY DEF ImageRow
  <1>2. [r EXCEPT !.pulled = v] \in ImageRow
    BY DEF ImageRow
  <1> QED BY <1>1, <1>2

(* Each step but the crash, and a stamp in a copy that is shared, changes  *)
(* one machine only: its status, the image it works on and where it is, as *)
(* the step's definition says.                                             *)
Changes(x, s, i, p) ==
    /\ machine' \in [Machines -> Machine]
    /\ machine'[x].status = s /\ machine'[x].image = i /\ machine'[x].pc = p
    /\ machine'[x].source = machine[x].source
    /\ \A y \in Machines \ {x} : machine'[y] = machine[y]

LEMMA UpdateOne ==
    ASSUME machine \in [Machines -> Machine], NEW x \in Machines, NEW m \in Machine,
           machine' = [machine EXCEPT ![x] = m], m.source = machine[x].source
    PROVE  Changes(x, m.status, m.image, m.pc)
  BY DEF Changes

(* A stamp: machine x moves on, and the others that work on its copy find  *)
(* it in theirs.                                                           *)
Stamps(x, i, p) ==
    /\ machine' \in [Machines -> Machine]
    /\ machine'[x].status = machine[x].status /\ machine'[x].image = i
    /\ machine'[x].pc = p /\ machine'[x].source = machine[x].source
    /\ \A y \in Machines \ {x} :
         /\ machine'[y].status = machine[y].status /\ machine'[y].pc = machine[y].pc
         /\ machine'[y].source = machine[y].source
         /\ machine'[y].image \in {machine[y].image, i}
         /\ y \notin Sharers(x) => machine'[y] = machine[y]

LEMMA SetCopyStamps ==
    ASSUME machine \in [Machines -> Machine], NEW x \in Machines, NEW i \in ImageRow,
           NEW p \in Pc, SetCopy(x, i, p)
    PROVE  Stamps(x, i, p)
  <1> DEFINE m == [machine[x] EXCEPT !.image = i, !.pc = p]
             n(y) == [machine[y] EXCEPT !.image = i]
  <1>1. /\ m \in Machine /\ m.status = machine[x].status /\ m.image = i /\ m.pc = p
        /\ m.source = machine[x].source
    <2>1. machine[x] \in Machine
      OBVIOUS
    <2>2. m \in Machine
      BY <2>1, MachineType, Zenon
    <2> QED BY <2>1, <2>2 DEF Machine
  <1>2. ASSUME NEW y \in Machines
        PROVE  /\ n(y) \in Machine /\ n(y).status = machine[y].status /\ n(y).image = i
               /\ n(y).pc = machine[y].pc /\ n(y).source = machine[y].source
    <2>1. machine[y] \in Machine
      OBVIOUS
    <2>2. n(y) \in Machine
      BY <2>1, MachineType, Zenon
    <2> QED BY <2>1, <2>2 DEF Machine
  <1>3. machine' = [y \in Machines |-> IF y = x THEN m
                                       ELSE IF y \in Sharers(x) THEN n(y) ELSE machine[y]]
    BY DEF SetCopy
  <1> HIDE DEF m, n
  <1>4. machine' \in [Machines -> Machine]
    BY <1>1, <1>2, <1>3
  <1>5. machine'[x] = m
    BY <1>3
  <1>6. \A y \in Machines \ {x} :
          machine'[y] = n(y) \/ machine'[y] = machine[y]
    BY <1>3
  <1>7. \A y \in Machines \ {x} : y \notin Sharers(x) => machine'[y] = machine[y]
    BY <1>3
  <1>8. \A y \in Machines \ {x} :
         /\ machine'[y].status = machine[y].status /\ machine'[y].pc = machine[y].pc
         /\ machine'[y].source = machine[y].source
         /\ machine'[y].image \in {machine[y].image, i}
    BY <1>2, <1>6
  <1> QED BY <1>1, <1>4, <1>5, <1>7, <1>8, Zenon DEF Stamps

LEMMA UpdatesOfOne ==
    ASSUME machine \in [Machines -> Machine], NEW x \in Machines
    PROVE
      /\ \A p \in Pc :
           machine' = [machine EXCEPT ![x].pc = p]
             => Changes(x, machine[x].status, machine[x].image, p)
      /\ \A s \in Status :
           machine' = [machine EXCEPT ![x].status = s]
             => Changes(x, s, machine[x].image, machine[x].pc)
      /\ \A s \in Status, i \in ImageRow \cup {None} :
           machine' = [machine EXCEPT ![x].status = s, ![x].image = i]
             => Changes(x, s, i, machine[x].pc)
      /\ \A s \in Status, p \in Pc :
           machine' = [machine EXCEPT ![x].status = s, ![x].pc = p]
             => Changes(x, s, machine[x].image, p)
      /\ \A i \in ImageRow \cup {None}, p \in Pc :
           machine' = [machine EXCEPT ![x].image = i, ![x].pc = p]
             => Changes(x, machine[x].status, i, p)
      /\ \A v \in BOOLEAN, p \in Pc :
           machine' = [machine EXCEPT ![x].allocated = TRUE, ![x].saved = v, ![x].pc = p]
             => Changes(x, machine[x].status, machine[x].image, p)
  <1>0. machine[x] \in Machine
    OBVIOUS
  <1>1. ASSUME NEW p \in Pc,
               machine' = [machine EXCEPT ![x].pc = p]
        PROVE  Changes(x, machine[x].status, machine[x].image, p)
    <2> DEFINE m == [machine[x] EXCEPT !.pc = p]
    <2>1. m \in Machine
      BY <1>0, <1>1, MachineType
    <2>2. m.status = machine[x].status /\ m.image = machine[x].image /\ m.pc = p
          /\ m.source = machine[x].source
      BY <1>0 DEF Machine
    <2>3. machine' = [machine EXCEPT ![x] = m]
      BY <1>1
    <2> HIDE DEF m
    <2> QED BY <2>1, <2>2, <2>3, UpdateOne, Zenon
  <1>2. ASSUME NEW s \in Status,
               machine' = [machine EXCEPT ![x].status = s]
        PROVE  Changes(x, s, machine[x].image, machine[x].pc)
    <2> DEFINE m == [machine[x] EXCEPT !.status = s]
    <2>1. m \in Machine
      BY <1>0, <1>2, MachineType
    <2>2. m.status = s /\ m.image = machine[x].image /\ m.pc = machine[x].pc
          /\ m.source = machine[x].source
      BY <1>0 DEF Machine
    <2>3. machine' = [machine EXCEPT ![x] = m]
      BY <1>2
    <2> HIDE DEF m
    <2> QED BY <2>1, <2>2, <2>3, UpdateOne, Zenon
  <1>3. ASSUME NEW s \in Status, NEW i \in ImageRow \cup {None},
               machine' = [machine EXCEPT ![x].status = s, ![x].image = i]
        PROVE  Changes(x, s, i, machine[x].pc)
    <2> DEFINE m == [machine[x] EXCEPT !.status = s, !.image = i]
    <2>1. m \in Machine
      BY <1>0, <1>3, MachineType
    <2>2. m.status = s /\ m.image = i /\ m.pc = machine[x].pc
          /\ m.source = machine[x].source
      BY <1>0 DEF Machine
    <2>3. machine' = [machine EXCEPT ![x] = m]
      BY <1>3
    <2> HIDE DEF m
    <2> QED BY <2>1, <2>2, <2>3, UpdateOne, Zenon
  <1>4. ASSUME NEW s \in Status, NEW p \in Pc,
               machine' = [machine EXCEPT ![x].status = s, ![x].pc = p]
        PROVE  Changes(x, s, machine[x].image, p)
    <2> DEFINE m == [machine[x] EXCEPT !.status = s, !.pc = p]
    <2>1. m \in Machine
      BY <1>0, <1>4, MachineType
    <2>2. m.status = s /\ m.image = machine[x].image /\ m.pc = p
          /\ m.source = machine[x].source
      BY <1>0 DEF Machine
    <2>3. machine' = [machine EXCEPT ![x] = m]
      BY <1>4
    <2> HIDE DEF m
    <2> QED BY <2>1, <2>2, <2>3, UpdateOne, Zenon
  <1>5. ASSUME NEW i \in ImageRow \cup {None}, NEW p \in Pc,
               machine' = [machine EXCEPT ![x].image = i, ![x].pc = p]
        PROVE  Changes(x, machine[x].status, i, p)
    <2> DEFINE m == [machine[x] EXCEPT !.image = i, !.pc = p]
    <2>1. m \in Machine
      BY <1>0, <1>5, MachineType
    <2>2. m.status = machine[x].status /\ m.image = i /\ m.pc = p
          /\ m.source = machine[x].source
      BY <1>0 DEF Machine
    <2>3. machine' = [machine EXCEPT ![x] = m]
      BY <1>5
    <2> HIDE DEF m
    <2> QED BY <2>1, <2>2, <2>3, UpdateOne, Zenon
  <1>6. ASSUME NEW v \in BOOLEAN, NEW p \in Pc,
               machine' = [machine EXCEPT ![x].allocated = TRUE, ![x].saved = v, ![x].pc = p]
        PROVE  Changes(x, machine[x].status, machine[x].image, p)
    <2> DEFINE m == [machine[x] EXCEPT !.allocated = TRUE, !.saved = v, !.pc = p]
    <2>1. m \in Machine
      BY <1>0, <1>6, MachineType
    <2>2. m.status = machine[x].status /\ m.image = machine[x].image /\ m.pc = p
          /\ m.source = machine[x].source
      BY <1>0 DEF Machine
    <2>3. machine' = [machine EXCEPT ![x] = m]
      BY <1>6
    <2> HIDE DEF m
    <2> QED BY <2>1, <2>2, <2>3, UpdateOne, Zenon
  <1> QED BY <1>1, <1>2, <1>3, <1>4, <1>5, <1>6, Zenon

(* A step that only moves the controller.                                  *)
LEMMA Moves ==
    ASSUME machine \in [Machines -> Machine], NEW x \in Machines, NEW p \in Pc, Goto(x, p)
    PROVE  Changes(x, machine[x].status, machine[x].image, p)
  BY UpdatesOfOne, Zenon DEF Goto

LEMMA PullMoves ==
    ASSUME machine \in [Machines -> Machine], NEW x \in Machines, Pull(x),
           machine[x].image \in ImageRow
    PROVE  \/ /\ ~machine[x].image.pulled
              /\ Changes(x, machine[x].status, machine[x].image, "lvcreate")
           \/ /\ machine[x].image.pulled
              /\ Changes(x, machine[x].status, machine[x].image, "volume")
  <1>1. {"lvcreate", "volume"} \subseteq Pc
    BY DEF Pc
  <1>2. \/ ~machine[x].image.pulled /\ Goto(x, "lvcreate")
        \/ machine[x].image.pulled /\ Goto(x, "volume")
    BY Zenon DEF Pull
  <1> QED BY <1>1, <1>2, Moves, Zenon

LEMMA AllocateImageMoves ==
    ASSUME machine \in [Machines -> Machine], NEW x \in Machines, AllocateImage(x)
    PROVE  \/ /\ lv.data = "absent" /\ lv' = [lv EXCEPT !.data = "blank"]
              /\ Changes(x, machine[x].status, machine[x].image, "saveAllocated")
           \/ /\ lv' = lv /\ machine[x].image.allocated
              /\ Changes(x, machine[x].status, machine[x].image, "mkfs")
           \/ /\ lv' = lv
              /\ Changes(x, machine[x].status, machine[x].image, "idle")
  <1>1. {"saveAllocated", "mkfs", "idle"} \subseteq Pc
    BY DEF Pc
  <1> QED BY <1>1, Moves, Zenon DEF AllocateImage, NameFree, AlreadyAllocated

LEMMA SaveAllocatedMoves ==
    ASSUME machine \in [Machines -> Machine], NEW x \in Machines, SaveAllocated(x),
           machine[x].image \in ImageRow, row \in ImageRow
    PROVE  \E r \in ImageRow, p \in {"mkfs", "idle"} :
             /\ r.id = machine[x].image.id
             /\ r.allocated /\ r.pulled = machine[x].image.pulled
             /\ Stamps(x, r, p)
             /\ row' \in ImageRow /\ row'.pulled = row.pulled
             /\ row.allocated => row'.allocated
             /\ row' # row => row'.allocated
             /\ p = "mkfs" => row'.allocated
             /\ p = "idle" => "unsaved" \in seen'
             /\ seen' \subseteq seen \cup {"unsaved"} /\ seen \subseteq seen'
  <1> DEFINE r == [machine[x].image EXCEPT !.allocated = TRUE]
  <1>1. r \in ImageRow /\ r.id = machine[x].image.id
        /\ r.allocated = TRUE /\ r.pulled = machine[x].image.pulled
    BY DEF ImageRow
  <1>2. PICK saves \in BOOLEAN :
          /\ SetCopy(x, r, IF saves THEN "mkfs" ELSE "idle")
          /\ row' = [row EXCEPT !.allocated = @ \/ saves]
          /\ seen' = seen \cup Note("unsaved", ~saves)
    BY Zenon DEF SaveAllocated, RowAfterSave
  <1>4. {"mkfs", "idle"} \subseteq Pc
    BY DEF Pc
  <1> HIDE DEF r
  <1>5. CASE saves
    <2>1. row' = [row EXCEPT !.allocated = TRUE]
      BY <1>2, <1>5
    <2>2. row' \in ImageRow /\ row'.pulled = row.pulled /\ row'.allocated = TRUE
      BY <2>1 DEF ImageRow
    <2>3. Stamps(x, r, "mkfs")
      <3>1. SetCopy(x, r, "mkfs")
        BY <1>2, <1>5, Zenon
      <3> QED BY <1>1, <1>4, <3>1, SetCopyStamps, Zenon
    <2>4. seen' = seen
      BY <1>2, <1>5 DEF Note
    <2> QED BY <1>1, <2>2, <2>3, <2>4, Zenon
  <1>6. CASE ~saves
    <2>1. row' = row
      BY <1>2, <1>6 DEF ImageRow
    <2>3. Stamps(x, r, "idle")
      <3>1. SetCopy(x, r, "idle")
        BY <1>2, <1>6, Zenon
      <3> QED BY <1>1, <1>4, <3>1, SetCopyStamps, Zenon
    <2>4. seen' = seen \cup {"unsaved"}
      BY <1>2, <1>6 DEF Note
    <2>5. "unsaved" \in seen' /\ seen \subseteq seen' /\ seen' \subseteq seen \cup {"unsaved"}
      BY <2>4
    <2>6. r.allocated
      BY <1>1
    <2> QED BY <1>1, <2>1, <2>3, <2>5, <2>6, Zenon
  <1> QED BY <1>5, <1>6

LEMMA MakeFileSystemMoves ==
    ASSUME machine \in [Machines -> Machine], NEW x \in Machines, MakeFileSystem(x)
    PROVE  \/ /\ lv' = [lv EXCEPT !.data = "empty"]
              /\ Changes(x, machine[x].status, machine[x].image, "mount")
           \/ /\ lv' = lv
              /\ Changes(x, machine[x].status, machine[x].image, "idle")
  <1>1. {"mount", "idle"} \subseteq Pc
    BY DEF Pc
  <1> QED BY <1>1, Moves, Zenon DEF MakeFileSystem

LEMMA MountMoves ==
    ASSUME machine \in [Machines -> Machine], NEW x \in Machines, Mount(x)
    PROVE  \/ /\ lv' = [data |-> IF Extracting = {} THEN "empty" ELSE lv.data,
                        mounts |-> lv.mounts \cup {x}]
              /\ Changes(x, machine[x].status, machine[x].image, "extract")
           \/ /\ lv' = lv
              /\ Changes(x, machine[x].status, machine[x].image, "idle")
  <1>1. {"extract", "idle"} \subseteq Pc
    BY DEF Pc
  <1> QED BY <1>1, Moves, Zenon DEF Mount

LEMMA ExtractMoves ==
    ASSUME machine \in [Machines -> Machine], NEW x \in Machines, Extract(x)
    PROVE  \/ /\ lv' = [lv EXCEPT !.data = IF @ = "broken" THEN @ ELSE "image"]
              /\ Changes(x, machine[x].status, machine[x].image, "unmount")
           \/ /\ lv' = [lv EXCEPT !.data = "broken"]
              /\ Changes(x, machine[x].status, machine[x].image, "idle")
  <1>1. {"unmount", "idle"} \subseteq Pc
    BY DEF Pc
  <1> QED BY <1>1, Moves, Zenon DEF Extract, Wipe, AfterFailure

LEMMA UnmountMoves ==
    ASSUME machine \in [Machines -> Machine], NEW x \in Machines, Unmount(x)
    PROVE  \/ /\ lv' = [lv EXCEPT !.mounts = @ \ {x}]
              /\ Changes(x, machine[x].status, machine[x].image, "savePulled")
           \/ /\ lv' = [lv EXCEPT !.data = "broken"]
              /\ Changes(x, machine[x].status, machine[x].image, "idle")
  <1>1. {"savePulled", "idle"} \subseteq Pc
    BY DEF Pc
  <1> QED BY <1>1, Moves, Zenon DEF Unmount, Wipe, AfterFailure

LEMMA SavePulledMoves ==
    ASSUME machine \in [Machines -> Machine], NEW x \in Machines, SavePulled(x),
           machine[x].image \in ImageRow, row \in ImageRow
    PROVE  \E r \in ImageRow, p \in {"volume", "idle"} :
             /\ r.pulled /\ r.allocated = machine[x].image.allocated
             /\ Stamps(x, r, p)
             /\ row' \in ImageRow /\ row'.allocated = row.allocated
  <1> DEFINE r == [machine[x].image EXCEPT !.pulled = TRUE]
  <1>1. r \in ImageRow /\ r.pulled = TRUE /\ r.allocated = machine[x].image.allocated
    BY DEF ImageRow
  <1>2. PICK saves \in BOOLEAN :
          /\ SetCopy(x, r, IF saves THEN "volume" ELSE "idle")
          /\ row' = [row EXCEPT !.pulled = @ \/ saves]
    BY Zenon DEF SavePulled
  <1>4. {"volume", "idle"} \subseteq Pc
    BY DEF Pc
  <1> HIDE DEF r
  <1>5. CASE saves
    <2>1. row' = [row EXCEPT !.pulled = TRUE]
      BY <1>2, <1>5
    <2>2. row' \in ImageRow /\ row'.allocated = row.allocated
      BY <2>1 DEF ImageRow
    <2>3. Stamps(x, r, "volume")
      <3>1. SetCopy(x, r, "volume")
        BY <1>2, <1>5, Zenon
      <3> QED BY <1>1, <1>4, <3>1, SetCopyStamps, Zenon
    <2> QED BY <1>1, <2>2, <2>3, Zenon
  <1>6. CASE ~saves
    <2>1. row' = row
      BY <1>2, <1>6 DEF ImageRow
    <2>2. Stamps(x, r, "idle")
      <3>1. SetCopy(x, r, "idle")
        BY <1>2, <1>6, Zenon
      <3> QED BY <1>1, <1>4, <3>1, SetCopyStamps, Zenon
    <2> QED BY <1>1, <2>1, <2>2, Zenon
  <1> QED BY <1>5, <1>6

LEMMA AllocateVolumeMoves ==
    ASSUME machine \in [Machines -> Machine], NEW x \in Machines, AllocateVolume(x),
           disk \in [Machines -> {"absent", "blank", "torn", "image"}]
    PROVE  /\ \E p \in {"ready", "saveVolume", "idle"} :
                Changes(x, machine[x].status, machine[x].image, p)
           /\ disk' \in [Machines -> {"absent", "blank", "torn", "image"}]
           /\ \A y \in Machines : disk'[y] = "torn" => disk[y] = "torn" \/ ~Whole
  <1>1. {"ready", "saveVolume", "idle"} \subseteq Pc
    BY DEF Pc
  <1>2. \E p \in {"ready", "saveVolume", "idle"} :
          Changes(x, machine[x].status, machine[x].image, p)
    BY <1>1, Moves, Zenon DEF AllocateVolume
  <1>3. \/ disk' = disk
        \/ \E d \in {"blank", "image", "torn"} :
             disk' = [disk EXCEPT ![x] = d] /\ (d = "torn" => ~Whole)
    BY DEF AllocateVolume
  <1> QED BY <1>2, <1>3

LEMMA SaveVolumeMoves ==
    ASSUME machine \in [Machines -> Machine], NEW x \in Machines, SaveVolume(x)
    PROVE  \E p \in {"ready", "idle"} : Changes(x, machine[x].status, machine[x].image, p)
  <1>1. {"ready", "idle"} \subseteq Pc
    BY DEF Pc
  <1>2. PICK saves \in BOOLEAN :
          machine' = [machine EXCEPT ![x].allocated = TRUE, ![x].saved = saves,
                                     ![x].pc = IF saves THEN "ready" ELSE "idle"]
    BY Zenon DEF SaveVolume
  <1> QED BY <1>1, <1>2, UpdatesOfOne, Zenon

(* The crash: what each machine is loaded with.                            *)
LEMMA RestartLoads ==
    ASSUME machine \in [Machines -> Machine], Restart,
           row \in ImageRow \cup {None}
    PROVE  /\ machine' \in [Machines -> Machine]
           /\ \A x \in Machines :
                /\ Owned(x) => /\ machine'[x].status = "owned"
                               /\ machine'[x].image = row
                               /\ machine'[x].pc = "idle"
                /\ machine[x].status = "fetched" => machine'[x] = NoMachine
                /\ machine[x].status \notin {"owned", "fetched"} => machine'[x] = machine[x]
  <1>1. NoMachine \in Machine
    BY DEF NoMachine, Machine
  <1>2. ASSUME NEW x \in Machines PROVE machine[x] \in Machine
    OBVIOUS
  <1> DEFINE m(x) == [machine[x] EXCEPT !.pc = "idle", !.image = row, !.source = FALSE,
                                        !.allocated = machine[x].saved]
  <1>3. ASSUME NEW x \in Machines
        PROVE  /\ m(x) \in Machine
               /\ m(x).status = machine[x].status /\ m(x).image = row /\ m(x).pc = "idle"
    <2>1. machine[x].saved \in BOOLEAN
      BY <1>2 DEF Machine
    <2>2. m(x) \in Machine
      BY <1>2, <2>1, MachineType, Zenon
    <2>3. m(x).status = machine[x].status /\ m(x).image = row /\ m(x).pc = "idle"
      BY <1>2 DEF Machine
    <2> QED BY <2>2, <2>3, Zenon
  <1>4. machine' = [x \in Machines |->
                      IF Owned(x) THEN m(x)
                      ELSE IF machine[x].status = "fetched" THEN NoMachine ELSE machine[x]]
    BY Zenon DEF Restart, ImageLoaded
  <1> HIDE DEF m
  <1> QED BY <1>1, <1>2, <1>3, <1>4 DEF Owned

-------------------------------------------------------------------------------
(* The type invariant.                                                     *)

(* With the types: a controller that is at work belongs to a machine with  *)
(* a row, and no volume is made before there is a row.                     *)
MachinesOK ==
    /\ machine \in [Machines -> Machine]
    /\ \A x \in Machines :
         /\ HasCopy(x) => machine[x].image # None
         /\ Owned(x) => row # None
         /\ machine[x].pc # "idle" => Owned(x)
         /\ ~machine[x].source => machine[x].status \in {"owned", "terminated"}

OtherTypes ==
    /\ row \in ImageRow \cup {None}
    /\ lv \in [data : {"absent", "blank", "empty", "image", "broken"},
               mounts : SUBSET Machines]
    /\ disk \in [Machines -> {"absent", "blank", "torn", "image"}]
    /\ used \in [failures : Nat, restarts : Nat]
    /\ seen \subseteq History
    /\ row = None => lv.data = "absent"

Basic == MachinesOK /\ OtherTypes

LEMMA BasicType == ASSUME Basic PROVE TypeOK
  BY DEF Basic, TypeOK, MachinesOK, OtherTypes

LEMMA InitialBasic ==
    ASSUME Init PROVE Basic
  <1>1. NoMachine \in Machine
    BY DEF NoMachine, Machine
  <1>2. MachinesOK
    BY <1>1 DEF Init, MachinesOK, HasCopy, Owned, NoMachine
  <1>3. OtherTypes
    BY DEF Init, OtherTypes, NoVolume
  <1> QED BY <1>2, <1>3 DEF Basic

LEMMA HistoryType ==
    ASSUME NEW c, NEW e \in History PROVE Note(e, c) \subseteq History
  BY DEF Note

LEMMA FailType ==
    ASSUME used \in [failures : Nat, restarts : Nat], used' = used \/ Fail
    PROVE  used' \in [failures : Nat, restarts : Nat]
  BY DEF Fail

(* A machine that owns its row and keeps it stays as Basic wants it.       *)
LEMMA KeepsMachines ==
    ASSUME MachinesOK, NEW x \in Machines, NEW i \in ImageRow, NEW p,
           Owned(x), Changes(x, machine[x].status, i, p), row' # None
    PROVE  MachinesOK'
  <1> USE ImageAssumption
  <1> QED BY DEF MachinesOK, Changes, HasCopy, Owned

LEMMA StampKeepsMachines ==
    ASSUME MachinesOK, NEW x \in Machines, NEW i \in ImageRow, NEW p,
           Owned(x), Stamps(x, i, p), row' # None
    PROVE  MachinesOK'
  <1> USE ImageAssumption
  <1>1. machine' \in [Machines -> Machine]
    BY DEF Stamps
  <1>2. \A y \in Machines :
          /\ machine'[y].status = machine[y].status
          /\ machine'[y].source = machine[y].source
          /\ machine'[y].pc = machine[y].pc \/ y = x
          /\ machine'[y].image = machine[y].image \/ machine'[y].image # None
    BY DEF Stamps
  <1> QED BY <1>1, <1>2 DEF MachinesOK, HasCopy, Owned

LEMMA StepBasic ==
    ASSUME Basic, [Next]_vars
    PROVE  Basic'
  <1>0. MachinesOK /\ OtherTypes /\ machine \in [Machines -> Machine]
    BY DEF Basic, MachinesOK
  <1>h. {"midPull", "shared", "undone", "unsaved", "cutShort"} \subseteq History
    BY DEF History
  <1>i. \A x \in Machines : HasCopy(x) => machine[x].image \in ImageRow
    BY <1>0 DEF MachinesOK, Machine
  <1>r. \A x \in Machines : Owned(x) => row \in ImageRow /\ HasCopy(x)
    BY <1>0 DEF MachinesOK, OtherTypes, Owned, HasCopy
  <1>1. ASSUME NEW x \in Machines, FetchDetails(x) PROVE Basic'
    <2>1. PICK r \in ImageRow : machine' = [machine EXCEPT ![x].status = "fetched",
                                                           ![x].image = r]
      <3>1. NewImage(x) \in ImageRow
        BY DEF NewImage, ImageRow
      <3>2. (IF row = None THEN NewImage(x) ELSE row) \in ImageRow
        BY <1>0, <3>1 DEF OtherTypes
      <3> QED BY <1>1, <3>2, Zenon DEF FetchDetails
    <2>2. Changes(x, "fetched", r, machine[x].pc)
      BY <1>0, <2>1, UpdatesOfOne, Zenon DEF Status
    <2>3. MachinesOK'
      BY <1>0, <1>1, <2>2, ImageAssumption
      DEF MachinesOK, FetchDetails, Changes, HasCopy, Owned
    <2>4. OtherTypes'
      BY <1>0, <1>1, <1>h, HistoryType DEF OtherTypes, FetchDetails
    <2> QED BY <2>3, <2>4 DEF Basic
  <1>2. ASSUME NEW x \in Machines, Create(x) PROVE Basic'
    <2>1. machine[x].image \in ImageRow /\ HasCopy(x)
      BY <1>2, <1>i DEF Create, HasCopy
    <2>2. Changes(x, "owned", machine[x].image, machine[x].pc)
      BY <1>0, <1>2, UpdatesOfOne, Zenon DEF Create, Status
    <2>3. row' \in ImageRow /\ row' # None
      BY <1>2, <2>1, ImageAssumption DEF Create
    <2>4. MachinesOK'
      BY <1>0, <1>2, <2>1, <2>2, <2>3 DEF MachinesOK, Create, Changes, HasCopy, Owned
    <2>5. OtherTypes'
      BY <1>0, <1>2, <1>h, <2>3, HistoryType DEF OtherTypes, Create
    <2> QED BY <2>4, <2>5 DEF Basic
  <1>3. ASSUME NEW x \in Machines, CreateFails(x) PROVE Basic'
    <2>1. Changes(x, "rejected", None, machine[x].pc)
      BY <1>0, <1>3, UpdatesOfOne, Zenon DEF CreateFails, Status
    <2>2. MachinesOK'
      BY <1>0, <1>3, <2>1 DEF MachinesOK, CreateFails, Changes, HasCopy, Owned
    <2>3. OtherTypes'
      BY <1>0, <1>3, FailType DEF OtherTypes, CreateFails
    <2> QED BY <2>2, <2>3 DEF Basic
  <1>4. ASSUME NEW x \in Machines, Pull(x) PROVE Basic'
    <2>1. Owned(x) /\ machine[x].image \in ImageRow
      BY <1>4, <1>i, <1>r DEF Pull
    <2>2. \E q : Changes(x, machine[x].status, machine[x].image, q)
      BY <1>0, <1>4, <2>1, PullMoves, Zenon
    <2>3. MachinesOK'
      BY <1>0, <1>4, <1>r, <2>1, <2>2, KeepsMachines, ImageAssumption DEF Pull
    <2>4. OtherTypes'
      BY <1>0, <1>4 DEF OtherTypes, Pull
    <2> QED BY <2>3, <2>4 DEF Basic
  <1>w. \A x \in Machines : machine[x].pc # "idle" =>
          Owned(x) /\ row \in ImageRow /\ machine[x].image \in ImageRow
    BY <1>0, <1>i, <1>r DEF MachinesOK
  <1>k. ASSUME NEW x \in Machines, machine[x].pc # "idle", row' = row,
               \E q : Changes(x, machine[x].status, machine[x].image, q)
        PROVE  MachinesOK'
    BY <1>0, <1>w, <1>k, KeepsMachines, ImageAssumption
  <1>5. ASSUME NEW x \in Machines, AllocateImage(x) PROVE Basic'
    <2>1. MachinesOK'
      BY <1>0, <1>5, <1>k, AllocateImageMoves DEF AllocateImage, At
    <2>2. OtherTypes'
      BY <1>0, <1>5, <1>w, FailType, ImageAssumption DEF OtherTypes, AllocateImage, At, NameFree
    <2> QED BY <2>1, <2>2 DEF Basic
  <1>6. ASSUME NEW x \in Machines, SaveAllocated(x) PROVE Basic'
    <2>1. machine[x].pc = "saveAllocated" /\ lv' = lv /\ disk' = disk
      BY <1>6 DEF SaveAllocated, At
    <2>2. Owned(x) /\ row \in ImageRow /\ machine[x].image \in ImageRow
      BY <2>1, <1>w
    <2>3. PICK r \in ImageRow, q \in {"mkfs", "idle"} :
            /\ Stamps(x, r, q) /\ row' \in ImageRow
            /\ seen' \subseteq seen \cup {"unsaved"}
      BY <1>0, <1>6, <2>2, SaveAllocatedMoves, Zenon
    <2>4. MachinesOK'
      BY <1>0, <2>2, <2>3, StampKeepsMachines, ImageAssumption
    <2>5. used' \in [failures : Nat, restarts : Nat]
      BY <1>0, <1>6, FailType DEF OtherTypes, SaveAllocated
    <2>6. OtherTypes'
      BY <1>0, <1>h, <2>1, <2>3, <2>5, ImageAssumption DEF OtherTypes
    <2> QED BY <2>4, <2>6 DEF Basic
  <1>7. ASSUME NEW x \in Machines, MakeFileSystem(x) PROVE Basic'
    <2>1. MachinesOK'
      BY <1>0, <1>7, <1>k, MakeFileSystemMoves DEF MakeFileSystem, At
    <2>2. OtherTypes'
      BY <1>0, <1>7, <1>w, FailType, ImageAssumption DEF OtherTypes, MakeFileSystem, At
    <2> QED BY <2>1, <2>2 DEF Basic
  <1>8. ASSUME NEW x \in Machines, Mount(x) PROVE Basic'
    <2>1. MachinesOK'
      BY <1>0, <1>8, <1>k, MountMoves DEF Mount, At
    <2>2. OtherTypes'
      BY <1>0, <1>8, <1>w, FailType, ImageAssumption DEF OtherTypes, Mount, At
    <2> QED BY <2>1, <2>2 DEF Basic
  <1>9. ASSUME NEW x \in Machines, Extract(x) PROVE Basic'
    <2>1. MachinesOK'
      BY <1>0, <1>9, <1>k, ExtractMoves DEF Extract, At
    <2>2. OtherTypes'
      BY <1>0, <1>9, <1>w, FailType, ImageAssumption DEF OtherTypes, Extract, Wipe, At
    <2> QED BY <2>1, <2>2 DEF Basic
  <1>10. ASSUME NEW x \in Machines, Unmount(x) PROVE Basic'
    <2>1. MachinesOK'
      BY <1>0, <1>10, <1>k, UnmountMoves DEF Unmount, At
    <2>2. OtherTypes'
      BY <1>0, <1>10, <1>w, FailType, ImageAssumption DEF OtherTypes, Unmount, Wipe, At
    <2> QED BY <2>1, <2>2 DEF Basic
  <1>11. ASSUME NEW x \in Machines, SavePulled(x) PROVE Basic'
    <2>1. machine[x].pc = "savePulled" /\ lv' = lv /\ disk' = disk /\ seen' = seen
      BY <1>11 DEF SavePulled, At
    <2>2. Owned(x) /\ row \in ImageRow /\ machine[x].image \in ImageRow
      BY <2>1, <1>w
    <2>3. PICK r \in ImageRow, q \in {"volume", "idle"} :
            Stamps(x, r, q) /\ row' \in ImageRow
      BY <1>0, <1>11, <2>2, SavePulledMoves, Zenon
    <2>4. MachinesOK'
      BY <1>0, <2>2, <2>3, StampKeepsMachines, ImageAssumption
    <2>5. used' \in [failures : Nat, restarts : Nat]
      BY <1>0, <1>11, FailType DEF OtherTypes, SavePulled
    <2>6. OtherTypes'
      BY <1>0, <2>1, <2>3, <2>5, ImageAssumption DEF OtherTypes
    <2> QED BY <2>4, <2>6 DEF Basic
  <1>12. ASSUME NEW x \in Machines, AllocateVolume(x) PROVE Basic'
    <2>1. disk' \in [Machines -> {"absent", "blank", "torn", "image"}]
      BY <1>0, <1>12, AllocateVolumeMoves, Zenon DEF OtherTypes
    <2>2. \E q : Changes(x, machine[x].status, machine[x].image, q)
      BY <1>0, <1>12, AllocateVolumeMoves, Zenon DEF OtherTypes
    <2>3. MachinesOK'
      BY <1>12, <1>k, <2>2 DEF AllocateVolume, At
    <2>4. used' = used \/ Fail
      BY <1>12 DEF AllocateVolume
    <2>5. OtherTypes'
      BY <1>0, <1>12, <2>1, <2>4, FailType DEF OtherTypes, AllocateVolume
    <2> QED BY <2>3, <2>5 DEF Basic
  <1>13. ASSUME NEW x \in Machines, SaveVolume(x) PROVE Basic'
    <2>1. MachinesOK'
      BY <1>0, <1>13, <1>k, SaveVolumeMoves DEF SaveVolume, At
    <2>2. OtherTypes'
      BY <1>0, <1>13, FailType DEF OtherTypes, SaveVolume
    <2> QED BY <2>1, <2>2 DEF Basic
  <1>14. ASSUME NEW x \in Machines, Release(x) PROVE Basic'
    <2>1. Changes(x, "terminated", machine[x].image, "idle")
      BY <1>0, <1>14, UpdatesOfOne, Zenon DEF Release, Status, Pc
    <2>2. MachinesOK'
      BY <1>0, <1>14, <2>1 DEF MachinesOK, Release, Changes, HasCopy, Owned
    <2>3. OtherTypes'
      BY <1>0, <1>14 DEF OtherTypes, Release
    <2> QED BY <2>2, <2>3 DEF Basic
  <1>15. ASSUME Restart PROVE Basic'
    <2>1. MachinesOK'
      BY <1>0, <1>15, RestartLoads
      DEF MachinesOK, OtherTypes, Restart, HasCopy, Owned, NoMachine
    <2>2. \A x \in Machines : At(x, "extract") => row # None
      BY <1>w, ImageAssumption DEF At
    <2>3. lv' \in [data : {"absent", "blank", "empty", "image", "broken"},
                   mounts : SUBSET Machines]
          /\ (row = None => lv'.data = "absent")
      BY <1>0, <1>15, <2>2 DEF OtherTypes, Restart, Extracting
    <2>4. seen' \subseteq History
      BY <1>0, <1>15, <1>h, HistoryType DEF OtherTypes, Restart
    <2>5. used' \in [failures : Nat, restarts : Nat]
      <3>1. used' = [used EXCEPT !.restarts = @ + 1]
        BY <1>15 DEF Restart
      <3>2. used \in [failures : Nat, restarts : Nat]
        BY <1>0 DEF OtherTypes
      <3> QED BY <3>1, <3>2
    <2>6. OtherTypes'
      BY <1>0, <1>15, <2>3, <2>4, <2>5 DEF OtherTypes, Restart
    <2> QED BY <2>1, <2>6 DEF Basic
  <1>16. ASSUME UNCHANGED vars PROVE Basic'
    <2>1. MachinesOK'
      BY <1>0, <1>16 DEF MachinesOK, vars, HasCopy, Owned
    <2>2. OtherTypes'
      BY <1>0, <1>16 DEF OtherTypes, vars
    <2> QED BY <2>1, <2>2 DEF Basic
  <1> QED BY <1>1, <1>2, <1>3, <1>4, <1>5, <1>6, <1>7, <1>8, <1>9, <1>10, <1>11,
             <1>12, <1>13, <1>14, <1>15, <1>16, StepCases, Zenon

(* Every variable keeps to its type (TypeOK), for any number of machines:  *)
(* nobody works on an image, or saves into a row, that is not there.       *)
THEOREM ImagesTypeCorrect == Spec => []TypeOK
  <1>1. Init => Basic
    BY InitialBasic
  <1>2. Basic /\ [Next]_vars => Basic'
    BY StepBasic
  <1>3. Basic => TypeOK
    BY BasicType
  <1> QED BY <1>1, <1>2, <1>3, PTL DEF Spec

-------------------------------------------------------------------------------
(* One pull at a time.                                                     *)

(* Half(x): x's copy says that the volume is made, and not that it is      *)
(* pulled.  Busy(x): x pulls, or is to go on with a pull.  Done(x): its    *)
(* copy says pulled.  Loaded(x): its copy is the one that is shared.       *)
Half(x) == HasCopy(x) /\ machine[x].image.allocated /\ ~machine[x].image.pulled
Busy(x) == At(x, "saveAllocated") \/ Half(x)
Done(x) == HasCopy(x) /\ machine[x].image.pulled
Loaded(x) == Owned(x) /\ ~machine[x].source
RowAllocated == row # None /\ row.allocated
RowPulled == row # None /\ row.pulled

(* Before the volume is made nobody is past that point; one machine at     *)
(* most is busy, and none once the row or a copy says pulled; what a busy  *)
(* machine may rely on is in the volume; a copy that several machines work *)
(* on says pulled.                                                         *)
NothingYet == lv.data = "absent" =>
    /\ ~RowAllocated /\ ~RowPulled
    /\ \A x \in Machines : ~Busy(x) /\ ~Done(x)
OnlyOne == \A x, y \in Machines : Busy(x) /\ Busy(y) => x = y
Places == \A x \in Machines :
    /\ Pulling(x) => Busy(x)
    /\ At(x, "extract") => lv.data = "empty"
    /\ machine[x].pc \in {"unmount", "savePulled"} => lv.data = "image"
    /\ At(x, "volume") => Done(x)
    /\ machine[x].pc \in {"lvcreate", "saveAllocated"} => ~Done(x)
AfterPull == RowPulled \/ (\E x \in Machines : Done(x)) =>
    lv.data = "image" /\ \A y \in Machines : ~Busy(y)
NoneTorn == \A x \in Machines : disk[x] # "torn"
Apart == \A x, y \in Machines : x # y /\ Loaded(x) /\ Loaded(y) => Done(x)

OneBusy == NothingYet /\ OnlyOne /\ Places /\ AfterPull /\ NoneTorn /\ Apart

(* A copy made between the saves spoils it, or one that is shared and not  *)
(* pulled, and only that.                                                  *)
PullInv == Never({"midPull", "shared"}) => OneBusy

LEMMA InitialPull ==
    ASSUME Init PROVE OneBusy
  <1>1. \A x \in Machines : ~HasCopy(x) /\ machine[x].pc = "idle"
    BY DEF Init, HasCopy, NoMachine
  <1>2. ~RowAllocated /\ ~RowPulled /\ NoneTorn /\ Apart
    BY DEF Init, RowAllocated, RowPulled, NoneTorn, Apart, Loaded, Owned, NoMachine
  <1> QED
    BY <1>1, <1>2 DEF OneBusy, NothingYet, OnlyOne, Places, AfterPull, Busy, Half, Done,
                      Pulling, At

(* Where machine x is after a step, and that the others are where they were. *)
LEMMA AfterChange ==
    ASSUME NEW x \in Machines, NEW s, NEW i, NEW p, Changes(x, s, i, p)
    PROVE  /\ \A y \in Machines \ {x} :
                /\ Busy(y)' <=> Busy(y)
                /\ Done(y)' <=> Done(y)
                /\ machine'[y].pc = machine[y].pc
           /\ Half(x)' <=> s \in {"fetched", "owned"} /\ i.allocated /\ ~i.pulled
           /\ Done(x)' <=> s \in {"fetched", "owned"} /\ i.pulled
           /\ Busy(x)' <=> p = "saveAllocated" \/ Half(x)'
           /\ machine'[x].pc = p
  <1>1. \A y \in Machines \ {x} : machine'[y] = machine[y]
    BY DEF Changes
  <1>2. \A y \in Machines \ {x} :
          /\ Busy(y)' <=> Busy(y)
          /\ Done(y)' <=> Done(y)
          /\ machine'[y].pc = machine[y].pc
    BY <1>1, Zenon DEF Busy, Half, Done, HasCopy, At
  <1>3. /\ Half(x)' <=> s \in {"fetched", "owned"} /\ i.allocated /\ ~i.pulled
        /\ Done(x)' <=> s \in {"fetched", "owned"} /\ i.pulled
    BY Zenon DEF Changes, Half, Done, HasCopy
  <1>4. /\ Busy(x)' <=> p = "saveAllocated" \/ Half(x)'
        /\ machine'[x].pc = p
    BY Zenon DEF Changes, Busy, At
  <1> QED BY <1>2, <1>3, <1>4

(* A step that only moves x's controller keeps what its copy says.         *)
LEMMA AfterMove ==
    ASSUME NEW x \in Machines, NEW p, Changes(x, machine[x].status, machine[x].image, p)
    PROVE  /\ Half(x)' <=> Half(x)
           /\ Done(x)' <=> Done(x)
           /\ Busy(x)' <=> p = "saveAllocated" \/ Half(x)
  <1>1. /\ Half(x)' <=> Half(x)
        /\ Done(x)' <=> Done(x)
    BY Zenon DEF Changes, Half, Done, HasCopy
  <1>2. Busy(x)' <=> p = "saveAllocated" \/ Half(x)'
    BY Zenon DEF Changes, Busy, At
  <1> QED BY <1>1, <1>2

(* Only the crash loads a machine.                                         *)
LEMMA LoadedAfter ==
    ASSUME NEW x \in Machines, NEW s, NEW i, NEW p, Changes(x, s, i, p)
    PROVE  /\ \A y \in Machines \ {x} : Loaded(y)' <=> Loaded(y)
           /\ Loaded(x)' <=> s = "owned" /\ ~machine[x].source
  <1>1. \A y \in Machines \ {x} : Loaded(y)' <=> Loaded(y)
    BY Zenon DEF Changes, Loaded, Owned
  <1>2. Loaded(x)' <=> s = "owned" /\ ~machine[x].source
    BY Zenon DEF Changes, Loaded, Owned
  <1> QED BY <1>1, <1>2

(* If a step loads no machine and takes no copy's stamp, shared copies     *)
(* stay pulled.                                                            *)
LEMMA KeepsApart ==
    ASSUME Apart, \A y \in Machines : Loaded(y)' => Loaded(y) /\ (Done(y) => Done(y)')
    PROVE  Apart'
  BY DEF Apart

(* While x is busy, nothing says pulled and no other machine pulls.        *)
LEMMA BusyAlone ==
    ASSUME OneBusy, NEW x \in Machines, Busy(x)
    PROVE  /\ ~RowPulled /\ \A y \in Machines : ~Done(y)
           /\ \A y \in Machines \ {x} : ~Busy(y) /\ ~Pulling(y)
           /\ lv.data # "absent"
  BY DEF OneBusy, NothingYet, OnlyOne, Places, AfterPull

(* Nor does another one work on its copy: its stamps are in its own only.  *)
LEMMA StampsAlone ==
    ASSUME OneBusy, NEW x \in Machines, Busy(x), Owned(x), NEW i, NEW p, Stamps(x, i, p)
    PROVE  Changes(x, machine[x].status, i, p)
  <1>1. \A y \in Machines \ {x} : ~(Loaded(x) /\ Loaded(y))
    BY BusyAlone DEF OneBusy, Apart
  <1>2. \A y \in Machines \ {x} : y \notin Sharers(x)
    BY <1>1 DEF Sharers, Loaded
  <1> QED BY <1>2, Zenon DEF Stamps, Changes

(* A step of the busy machine x, which stays busy or has done.             *)
LEMMA BusyStep ==
    ASSUME OneBusy, NEW x \in Machines, Busy(x), NEW i, NEW p,
           Changes(x, machine[x].status, i, p),
           disk' = disk, lv'.data # "absent", ~Done(x)', ~RowPulled',
           p \notin {"volume", "saveAllocated"},
           p \in {"mkfs", "mount", "extract", "unmount", "savePulled"} => Busy(x)',
           p = "extract" => lv'.data = "empty",
           p \in {"unmount", "savePulled"} => lv'.data = "image"
    PROVE  OneBusy'
  <1>1. /\ ~RowPulled /\ \A y \in Machines : ~Done(y)
        /\ \A y \in Machines \ {x} : ~Busy(y) /\ ~Pulling(y)
    BY BusyAlone
  <1>2. /\ \A y \in Machines \ {x} : ~Busy(y)' /\ ~Done(y)' /\ machine'[y].pc = machine[y].pc
        /\ machine'[x].pc = p
    BY <1>1, AfterChange
  <1>3. NothingYet' /\ OnlyOne' /\ AfterPull' /\ NoneTorn'
    BY <1>2 DEF OneBusy, NothingYet, OnlyOne, AfterPull, NoneTorn
  <1>4. Places'
    BY <1>1, <1>2 DEF OneBusy, Places, Pulling, At
  <1>5. Apart'
    <2>1. \A y \in Machines : Loaded(y)' <=> Loaded(y)
      BY LoadedAfter, Zenon DEF Loaded, Owned
    <2> QED BY <1>1, <2>1, KeepsApart DEF OneBusy
  <1> QED BY <1>3, <1>4, <1>5 DEF OneBusy

(* A step that moves the controller of x, which is not busy, within what   *)
(* it may do then.                                                         *)
LEMMA IdleStep ==
    ASSUME OneBusy, NEW x \in Machines, NEW p,
           Changes(x, machine[x].status, machine[x].image, p), row' = row, lv' = lv,
           NoneTorn',
           p \notin {"saveAllocated", "extract", "unmount", "savePulled"},
           p \in {"mkfs", "mount"} => Busy(x)',
           p = "volume" => Done(x), p = "lvcreate" => ~Done(x),
           ~At(x, "saveAllocated")
    PROVE  OneBusy'
  <1>1. /\ \A y \in Machines : (Busy(y)' <=> Busy(y)) /\ (Done(y)' <=> Done(y))
        /\ \A y \in Machines \ {x} : machine'[y].pc = machine[y].pc
        /\ machine'[x].pc = p
    <2>1. p # "saveAllocated"
      OBVIOUS
    <2>2. (Busy(x)' <=> Busy(x)) /\ (Done(x)' <=> Done(x))
      BY <2>1, AfterMove, Zenon DEF Busy
    <2>3. /\ \A y \in Machines \ {x} :
               /\ (Busy(y)' <=> Busy(y)) /\ (Done(y)' <=> Done(y))
               /\ machine'[y].pc = machine[y].pc
          /\ machine'[x].pc = p
      BY AfterChange, Zenon
    <2> QED BY <2>2, <2>3
  <1>2. (RowAllocated' <=> RowAllocated) /\ (RowPulled' <=> RowPulled)
    BY DEF RowAllocated, RowPulled
  <1>3. NothingYet' /\ OnlyOne' /\ AfterPull'
    BY <1>1, <1>2 DEF OneBusy, NothingYet, OnlyOne, AfterPull
  <1>4. Places'
    BY <1>1 DEF OneBusy, Places, Pulling, At
  <1>5. Apart'
    <2>1. \A y \in Machines : Loaded(y)' <=> Loaded(y)
      BY LoadedAfter, Zenon DEF Loaded, Owned
    <2> QED BY <1>1, <2>1, KeepsApart DEF OneBusy
  <1> QED BY <1>3, <1>4, <1>5 DEF OneBusy

LEMMA StepPull ==
    ASSUME Basic, OneBusy, [Next]_vars, Never({"midPull", "shared"})'
    PROVE  OneBusy'
  <1>0. MachinesOK /\ OtherTypes /\ machine \in [Machines -> Machine]
    BY DEF Basic, MachinesOK
  <1>w. \A x \in Machines : machine[x].pc # "idle" =>
          HasCopy(x) /\ Owned(x) /\ row \in ImageRow /\ machine[x].image \in ImageRow
    BY <1>0, ImageAssumption DEF MachinesOK, OtherTypes, Machine, HasCopy, Owned
  <1>n. /\ \A x \in Machines : Pulling(x) => Busy(x)
        /\ NoneTorn
    BY DEF OneBusy, Places
  <1>4. ASSUME NEW x \in Machines, Pull(x) PROVE OneBusy'
    <2>1. row' = row /\ lv' = lv /\ disk' = disk /\ Owned(x) /\ HasCopy(x)
          /\ ~At(x, "saveAllocated")
      BY <1>4 DEF Pull, Owned, HasCopy, At
    <2>2. machine[x].image \in ImageRow
      BY <1>0, <2>1 DEF MachinesOK, Machine
    <2>3. NoneTorn'
      BY <1>n, <2>1 DEF NoneTorn
    <2>4. CASE ~Done(x) /\ Changes(x, machine[x].status, machine[x].image, "lvcreate")
      BY <2>1, <2>3, <2>4, IdleStep
    <2>5. CASE Done(x) /\ Changes(x, machine[x].status, machine[x].image, "volume")
      BY <2>1, <2>3, <2>5, IdleStep
    <2> QED BY <1>0, <1>4, <2>1, <2>2, <2>4, <2>5, PullMoves, Zenon DEF Done
  <1>5. ASSUME NEW x \in Machines, AllocateImage(x) PROVE OneBusy'
    <2>1. row' = row /\ disk' = disk /\ At(x, "lvcreate") /\ ~At(x, "saveAllocated")
      BY <1>5 DEF AllocateImage, At
    <2>2. NoneTorn'
      BY <1>n, <2>1 DEF NoneTorn
    <2>3. CASE lv' = lv /\ Changes(x, machine[x].status, machine[x].image, "idle")
      BY <2>1, <2>2, <2>3, IdleStep
    <2>4. CASE /\ lv.data = "absent" /\ lv' = [lv EXCEPT !.data = "blank"]
               /\ Changes(x, machine[x].status, machine[x].image, "saveAllocated")
      <3>1. ~RowPulled /\ \A y \in Machines : ~Busy(y) /\ ~Done(y) /\ ~Pulling(y)
        BY <1>n, <2>4 DEF OneBusy, NothingYet
      <3>2. lv'.data = "blank"
        BY <1>0, <2>4 DEF OtherTypes
      <3>3. /\ \A y \in Machines \ {x} : /\ ~Busy(y)' /\ ~Done(y)'
                                         /\ machine'[y].pc = machine[y].pc
            /\ ~Done(x)' /\ Busy(x)' /\ machine'[x].pc = "saveAllocated"
        BY <2>4, <3>1, AfterChange, AfterMove, Zenon
      <3>4. ~RowPulled'
        BY <2>1, <3>1 DEF RowPulled
      <3>5. NothingYet' /\ OnlyOne' /\ AfterPull'
        BY <3>2, <3>3, <3>4 DEF NothingYet, OnlyOne, AfterPull
      <3>6. Places'
        BY <3>1, <3>3, <2>1 DEF OneBusy, Places, Pulling, At
      <3>7. Apart'
        <4>1. \A y \in Machines : Loaded(y)' <=> Loaded(y)
          BY <2>4, LoadedAfter, Zenon DEF Loaded, Owned
        <4> QED BY <3>1, <4>1, KeepsApart DEF OneBusy
      <3> QED BY <2>2, <3>5, <3>6, <3>7 DEF OneBusy
    <2>5. CASE /\ lv' = lv /\ machine[x].image.allocated
               /\ Changes(x, machine[x].status, machine[x].image, "mkfs")
      <3>1. HasCopy(x) /\ ~Done(x)
        BY <1>w, <2>1 DEF OneBusy, Places, At
      <3>2. Half(x)
        BY <2>5, <3>1, Zenon DEF Half, Done
      <3>3. Busy(x)'
        BY <2>5, <3>2, AfterMove
      <3> QED BY <2>1, <2>2, <2>5, <3>3, IdleStep
    <2> QED BY <1>0, <1>5, <2>3, <2>4, <2>5, AllocateImageMoves, Zenon
  <1>6. ASSUME NEW x \in Machines, SaveAllocated(x) PROVE OneBusy'
    <2>1. lv' = lv /\ disk' = disk /\ At(x, "saveAllocated") /\ Busy(x)
      BY <1>6 DEF SaveAllocated, Busy
    <2>2. HasCopy(x) /\ Owned(x) /\ row \in ImageRow /\ machine[x].image \in ImageRow
      BY <1>w, <2>1 DEF At
    <2>3. PICK r \in ImageRow, q \in {"mkfs", "idle"} :
            /\ r.allocated /\ r.pulled = machine[x].image.pulled
            /\ Changes(x, machine[x].status, r, q)
            /\ row' \in ImageRow /\ row'.pulled = row.pulled
      BY <1>0, <1>6, <2>1, <2>2, SaveAllocatedMoves, StampsAlone, Zenon
    <2>4. ~RowPulled /\ ~Done(x) /\ lv.data # "absent"
      BY <2>1, BusyAlone
    <2>5. ~r.pulled
      BY <2>2, <2>3, <2>4, Zenon DEF Done
    <2>6. ~Done(x)' /\ Busy(x)'
      <3>1. machine[x].status \in {"fetched", "owned"}
        BY <2>2 DEF HasCopy
      <3> QED BY <2>3, <2>5, <3>1, AfterChange, Zenon
    <2>7. ~RowPulled'
      <3>1. row # None
        BY <2>2, ImageAssumption
      <3> QED BY <2>3, <2>4, <3>1, Zenon DEF RowPulled
    <2>8. q \notin {"volume", "saveAllocated", "extract", "unmount", "savePulled"}
      BY <2>3
    <2> QED BY <2>1, <2>3, <2>4, <2>6, <2>7, <2>8, BusyStep
  <1>b. ASSUME NEW x \in Machines, Pulling(x), ~At(x, "saveAllocated"), NEW q,
               Changes(x, machine[x].status, machine[x].image, q), row' = row, disk' = disk,
               lv'.data # "absent", q \notin {"volume", "saveAllocated"},
               q = "extract" => lv'.data = "empty",
               q \in {"unmount", "savePulled"} => lv'.data = "image"
        PROVE  OneBusy'
    <2>1. Busy(x) /\ Half(x)
      BY <1>b, <1>n DEF Busy
    <2>2. ~RowPulled /\ ~Done(x)
      BY <2>1, BusyAlone
    <2>3. Half(x)' /\ ~Done(x)'
      BY <1>b, <2>1, <2>2, AfterMove, Zenon
    <2>4. Busy(x)' /\ ~RowPulled'
      BY <1>b, <2>2, <2>3 DEF Busy, RowPulled
    <2> QED BY <1>b, <2>1, <2>3, <2>4, BusyStep
  <1>p. \A x \in Machines :
          machine[x].pc \in {"mkfs", "mount", "extract", "unmount", "savePulled"} =>
            /\ Pulling(x) /\ ~At(x, "saveAllocated") /\ lv.data # "absent"
            /\ \A y \in Machines \ {x} : ~At(y, "extract")
    BY <1>n, BusyAlone DEF Pulling, At
  <1>7. ASSUME NEW x \in Machines, MakeFileSystem(x) PROVE OneBusy'
    <2>1. row' = row /\ disk' = disk /\ machine[x].pc = "mkfs"
      BY <1>7 DEF MakeFileSystem, At
    <2>2. lv'.data # "absent"
      BY <1>0, <1>7, <1>p, <2>1 DEF OtherTypes, MakeFileSystem
    <2>3. \E q \in {"mount", "idle"} : Changes(x, machine[x].status, machine[x].image, q)
      BY <1>0, <1>7, MakeFileSystemMoves
    <2> QED BY <1>b, <1>p, <2>1, <2>2, <2>3
  <1>8. ASSUME NEW x \in Machines, Mount(x) PROVE OneBusy'
    <2>1. row' = row /\ disk' = disk /\ machine[x].pc = "mount"
      BY <1>8 DEF Mount, At
    <2>2. Extracting = {}
      BY <1>p, <2>1 DEF Extracting, At
    <2>3. \E q \in {"extract", "idle"} :
            /\ Changes(x, machine[x].status, machine[x].image, q)
            /\ lv'.data # "absent" /\ (q = "extract" => lv'.data = "empty")
      BY <1>0, <1>8, <1>p, <2>1, <2>2, MountMoves
    <2> QED BY <1>b, <1>p, <2>1, <2>3
  <1>9. ASSUME NEW x \in Machines, Extract(x) PROVE OneBusy'
    <2>1. row' = row /\ disk' = disk /\ machine[x].pc = "extract"
      BY <1>9 DEF Extract, At
    <2>2. lv.data = "empty"
      BY <2>1 DEF OneBusy, Places, At
    <2>3. \E q \in {"unmount", "idle"} :
            /\ Changes(x, machine[x].status, machine[x].image, q)
            /\ lv'.data # "absent" /\ (q = "unmount" => lv'.data = "image")
      BY <1>0, <1>9, <2>2, ExtractMoves DEF OtherTypes
    <2> QED BY <1>b, <1>p, <2>1, <2>3
  <1>10. ASSUME NEW x \in Machines, Unmount(x) PROVE OneBusy'
    <2>1. row' = row /\ disk' = disk /\ machine[x].pc = "unmount"
      BY <1>10 DEF Unmount, At
    <2>2. lv.data = "image"
      BY <2>1 DEF OneBusy, Places
    <2>3. \E q \in {"savePulled", "idle"} :
            /\ Changes(x, machine[x].status, machine[x].image, q)
            /\ lv'.data # "absent" /\ (q = "savePulled" => lv'.data = "image")
      BY <1>0, <1>10, <2>2, UnmountMoves DEF OtherTypes
    <2> QED BY <1>b, <1>p, <2>1, <2>3
  <1>11. ASSUME NEW x \in Machines, SavePulled(x) PROVE OneBusy'
    <2>1. lv' = lv /\ disk' = disk /\ machine[x].pc = "savePulled" /\ HasCopy(x)
      BY <1>11, <1>w DEF SavePulled, At
    <2>2. Busy(x) /\ lv.data = "image"
      BY <1>n, <2>1 DEF OneBusy, Places, Pulling
    <2>3. PICK r \in ImageRow, q \in {"volume", "idle"} :
            r.pulled /\ Changes(x, machine[x].status, r, q)
      <3>1. Owned(x) /\ row \in ImageRow /\ machine[x].image \in ImageRow
        BY <1>w, <2>1
      <3> QED BY <1>0, <1>11, <2>2, <3>1, SavePulledMoves, StampsAlone, Zenon
    <2>4. Done(x)' /\ ~Half(x)'
      <3>1. machine[x].status \in {"fetched", "owned"}
        BY <2>1 DEF HasCopy
      <3> QED BY <2>3, <3>1, AfterChange, Zenon
    <2>5. \A y \in Machines \ {x} : ~Busy(y) /\ ~Done(y) /\ ~Pulling(y)
      BY <2>2, BusyAlone
    <2>6. /\ \A y \in Machines \ {x} : ~Busy(y)' /\ ~Done(y)' /\ machine'[y].pc = machine[y].pc
          /\ machine'[x].pc = q
      BY <2>3, <2>5, AfterChange
    <2>7. ~Busy(x)'
      BY <2>3, <2>4, <2>6 DEF Busy, At
    <2>8. NothingYet' /\ OnlyOne' /\ AfterPull'
      BY <2>1, <2>2, <2>6, <2>7 DEF NothingYet, OnlyOne, AfterPull
    <2>9. Places'
      BY <2>1, <2>3, <2>4, <2>5, <2>6 DEF OneBusy, Places, Pulling, At
    <2>10. NoneTorn'
      BY <1>n, <2>1 DEF NoneTorn
    <2>11. Apart'
      <3>1. \A y \in Machines : Loaded(y)' <=> Loaded(y)
        BY <2>3, LoadedAfter, Zenon DEF Loaded, Owned
      <3> QED BY <2>4, <2>5, <3>1, KeepsApart DEF OneBusy
    <2> QED BY <2>8, <2>9, <2>10, <2>11 DEF OneBusy
  <1>12. ASSUME NEW x \in Machines, AllocateVolume(x) PROVE OneBusy'
    <2>1. row' = row /\ lv' = lv /\ machine[x].pc = "volume"
      BY <1>12 DEF AllocateVolume, At
    <2>2. Whole
      <3>1. lv.data = "image" /\ \A y \in Machines : ~Busy(y)
        BY <2>1 DEF OneBusy, Places, AfterPull, At
      <3> QED BY <1>n, <3>1 DEF Whole, Extracting, Pulling, At
    <2>3. NoneTorn'
      BY <1>0, <1>12, <1>n, <2>2, AllocateVolumeMoves DEF NoneTorn, OtherTypes
    <2>4. PICK q \in {"ready", "saveVolume", "idle"} :
            Changes(x, machine[x].status, machine[x].image, q)
      BY <1>0, <1>12, AllocateVolumeMoves DEF OtherTypes
    <2> QED BY <2>1, <2>3, <2>4, IdleStep DEF At
  <1>13. ASSUME NEW x \in Machines, SaveVolume(x) PROVE OneBusy'
    <2>1. row' = row /\ lv' = lv /\ disk' = disk /\ machine[x].pc = "saveVolume"
      BY <1>13 DEF SaveVolume, At
    <2>2. PICK q \in {"ready", "idle"} : Changes(x, machine[x].status, machine[x].image, q)
      BY <1>0, <1>13, SaveVolumeMoves
    <2>3. NoneTorn'
      BY <1>n, <2>1 DEF NoneTorn
    <2> QED BY <2>1, <2>2, <2>3, IdleStep DEF At
  <1>l. ASSUME NEW x \in Machines, NEW s, NEW i, Changes(x, s, i, "idle"),
               s \notin {"fetched", "owned"}, row' = row, lv' = lv, NoneTorn'
        PROVE  OneBusy'
    <2>1. ~Busy(x)' /\ ~Done(x)'
      <3>1. ~Half(x)' /\ ~Done(x)'
        BY <1>l, AfterChange, Zenon
      <3> QED BY <1>l, <3>1, AfterChange DEF Busy, At
    <2>2. /\ \A y \in Machines \ {x} :
               /\ (Busy(y)' <=> Busy(y)) /\ (Done(y)' <=> Done(y))
               /\ machine'[y].pc = machine[y].pc
          /\ machine'[x].pc = "idle"
      BY <1>l, AfterChange, Zenon
    <2>3. (RowAllocated' <=> RowAllocated) /\ (RowPulled' <=> RowPulled)
      BY <1>l DEF RowAllocated, RowPulled
    <2>4. NothingYet' /\ OnlyOne' /\ AfterPull'
      BY <1>l, <2>1, <2>2, <2>3 DEF OneBusy, NothingYet, OnlyOne, AfterPull
    <2>5. Places'
      BY <1>l, <2>1, <2>2 DEF OneBusy, Places, Pulling, At
    <2>6. Apart'
      <3>1. ~Loaded(x)' /\ \A y \in Machines \ {x} : Loaded(y)' <=> Loaded(y)
        BY <1>l, LoadedAfter, Zenon
      <3> QED BY <2>2, <3>1, KeepsApart DEF OneBusy
    <2> QED BY <1>l, <2>4, <2>5, <2>6 DEF OneBusy
  <1>14. ASSUME NEW x \in Machines, Release(x) PROVE OneBusy'
    <2>1. Changes(x, "terminated", machine[x].image, "idle")
      BY <1>0, <1>14, UpdatesOfOne, Zenon DEF Release, Status, Pc
    <2>2. row' = row /\ lv' = lv /\ disk' = [disk EXCEPT ![x] = "absent"]
      BY <1>14 DEF Release
    <2>3. NoneTorn'
      BY <1>0, <1>n, <2>2 DEF NoneTorn, OtherTypes
    <2> QED BY <2>1, <2>2, <2>3, <1>l
  <1>3. ASSUME NEW x \in Machines, CreateFails(x) PROVE OneBusy'
    <2>1. machine[x].pc = "idle" /\ row' = row /\ lv' = lv /\ disk' = disk
      BY <1>0, <1>3 DEF MachinesOK, CreateFails, Owned
    <2>2. Changes(x, "rejected", None, "idle")
      BY <1>0, <1>3, <2>1, UpdatesOfOne, Zenon DEF CreateFails, Status
    <2>3. NoneTorn'
      BY <1>n, <2>1 DEF NoneTorn
    <2> QED BY <2>1, <2>2, <2>3, <1>l
  <1>2. ASSUME NEW x \in Machines, Create(x) PROVE OneBusy'
    <2>1. /\ lv' = lv /\ disk' = disk /\ row' = machine[x].image
          /\ machine[x].status = "fetched" /\ HasCopy(x) /\ machine[x].pc = "idle"
      BY <1>0, <1>2 DEF MachinesOK, Create, HasCopy, Owned
    <2>2. machine[x].image \in ImageRow /\ row' # None
      BY <1>0, <2>1, ImageAssumption DEF MachinesOK, Machine
    <2>3. Changes(x, "owned", machine[x].image, "idle")
      BY <1>0, <1>2, <2>1, UpdatesOfOne, Zenon DEF Create, Status
    <2>4. (Half(x)' <=> Half(x)) /\ (Done(x)' <=> Done(x))
      <3>1. HasCopy(x)' /\ machine'[x].image = machine[x].image
        BY <2>3 DEF Changes, HasCopy
      <3> QED BY <2>1, <3>1, Zenon DEF Half, Done
    <2>5. (Busy(x) <=> Half(x)) /\ (Busy(x)' <=> Half(x)')
      BY <2>1, <2>3, AfterChange DEF Busy, At
    <2>6. /\ \A y \in Machines : (Busy(y)' <=> Busy(y)) /\ (Done(y)' <=> Done(y))
          /\ \A y \in Machines : machine'[y].pc = machine[y].pc
      BY <2>1, <2>3, <2>4, <2>5, AfterChange
    <2>7. RowPulled' <=> Done(x)
      BY <2>1, <2>2, Zenon DEF RowPulled, Done
    <2>8. RowAllocated' => Half(x) \/ Done(x)
      BY <2>1, Zenon DEF RowAllocated, Half, Done
    <2>9. NothingYet' /\ OnlyOne' /\ AfterPull'
      BY <2>1, <2>5, <2>6, <2>7, <2>8 DEF OneBusy, NothingYet, OnlyOne, AfterPull
    <2>10. Places'
      BY <2>1, <2>6 DEF OneBusy, Places, Pulling, At
    <2>11. NoneTorn'
      BY <1>n, <2>1 DEF NoneTorn
    <2>12. Apart'
      <3>1. machine[x].source
        BY <1>0, <2>1 DEF MachinesOK
      <3>2. ~Loaded(x)' /\ \A y \in Machines \ {x} : Loaded(y)' <=> Loaded(y)
        BY <2>3, <3>1, LoadedAfter, Zenon
      <3> QED BY <2>6, <3>2, KeepsApart DEF OneBusy
    <2> QED BY <2>9, <2>10, <2>11, <2>12 DEF OneBusy
  <1>1. ASSUME NEW x \in Machines, FetchDetails(x) PROVE OneBusy'
    <2>1. /\ lv' = lv /\ disk' = disk /\ row' = row /\ machine[x].pc = "idle"
          /\ ~HasCopy(x)
      BY <1>0, <1>1 DEF MachinesOK, FetchDetails, Owned, HasCopy
    <2>2. ~Busy(x) /\ ~Done(x)
      BY <2>1 DEF Busy, Half, Done, At
    <2> DEFINE r == IF row = None THEN NewImage(x) ELSE row
    <2>3. r \in ImageRow /\ (row = None => ~r.allocated /\ ~r.pulled)
      <3>1. NewImage(x) \in ImageRow /\ ~NewImage(x).allocated /\ ~NewImage(x).pulled
        BY DEF NewImage, ImageRow
      <3> QED BY <1>0, <3>1, Zenon DEF OtherTypes
    <2>4. (r.pulled <=> RowPulled) /\ (r.allocated <=> RowAllocated)
      BY <2>3, Zenon DEF RowPulled, RowAllocated
    <2>5. Changes(x, "fetched", r, "idle")
      BY <1>0, <1>1, <2>1, <2>3, UpdatesOfOne, Zenon DEF FetchDetails, Status
    <2>6. (Half(x)' <=> RowAllocated /\ ~RowPulled) /\ (Done(x)' <=> RowPulled)
      <3>1. "fetched" \in {"fetched", "owned"}
        OBVIOUS
      <3> HIDE DEF r
      <3> QED BY <2>4, <2>5, <3>1, AfterChange, Zenon
    <2>7. (Busy(x)' <=> Half(x)') /\ machine'[x].pc = "idle"
      BY <2>5, AfterChange DEF Busy, At
    <2>8. /\ \A y \in Machines \ {x} :
               /\ (Busy(y)' <=> Busy(y)) /\ (Done(y)' <=> Done(y))
               /\ machine'[y].pc = machine[y].pc
      BY <2>5, AfterChange, Zenon
    <2>9. (RowAllocated' <=> RowAllocated) /\ (RowPulled' <=> RowPulled)
      BY <2>1 DEF RowAllocated, RowPulled
    <2>10. RowAllocated /\ ~RowPulled => \A y \in Machines : ~Busy(y) /\ ~Done(y)
      <3>1. ASSUME RowAllocated, ~RowPulled PROVE \A y \in Machines : ~HasCopy(y)
        <4>1. BetweenSaves
          BY <3>1, Zenon DEF RowAllocated, RowPulled, BetweenSaves
        <4>2. "midPull" \notin seen'
          BY DEF Never
        <4> QED BY <1>1, <4>1, <4>2 DEF FetchDetails, Note
      <3>2. \A y \in Machines : Busy(y) \/ Done(y) => HasCopy(y)
        BY <1>w DEF Busy, Half, Done, At
      <3> QED BY <3>1, <3>2
    <2> HIDE DEF r
    <2>11. NothingYet' /\ AfterPull'
      BY <2>1, <2>6, <2>7, <2>8, <2>9, <2>10 DEF OneBusy, NothingYet, AfterPull
    <2>12. OnlyOne'
      BY <2>6, <2>7, <2>8, <2>10 DEF OneBusy, OnlyOne
    <2>13. Places'
      BY <2>1, <2>7, <2>8 DEF OneBusy, Places, Pulling, At
    <2>14. NoneTorn'
      BY <1>n, <2>1 DEF NoneTorn
    <2>15. Apart'
      <3>1. ~Loaded(x)' /\ \A y \in Machines \ {x} : Loaded(y)' <=> Loaded(y)
        BY <2>5, LoadedAfter
      <3> QED BY <2>8, <3>1, KeepsApart DEF OneBusy
    <2> QED BY <2>11, <2>12, <2>13, <2>14, <2>15 DEF OneBusy
  <1>15. ASSUME Restart PROVE OneBusy'
    <2>1. disk' = disk /\ row' = row
      BY <1>15 DEF Restart
    <2>2. /\ machine' \in [Machines -> Machine]
          /\ \A x \in Machines :
               /\ Owned(x) => /\ machine'[x].status = "owned"
                              /\ machine'[x].image = row
                              /\ machine'[x].pc = "idle"
               /\ machine[x].status = "fetched" => machine'[x] = NoMachine
               /\ machine[x].status \notin {"owned", "fetched"} => machine'[x] = machine[x]
      BY <1>0, <1>15, RestartLoads DEF OtherTypes
    <2>3. \A x \in Machines : machine'[x].pc = "idle"
      BY <1>0, <2>2 DEF MachinesOK, Owned, NoMachine
    <2>4. \A x \in Machines : HasCopy(x)' <=> Owned(x)
      BY <2>2 DEF HasCopy, Owned, NoMachine
    <2>5. \A x \in Machines : Owned(x) => row # None
      BY <1>0 DEF MachinesOK
    <2>6. \A x \in Machines :
            /\ Half(x)' <=> Owned(x) /\ RowAllocated /\ ~RowPulled
            /\ Done(x)' <=> Owned(x) /\ RowPulled
      <3> TAKE x \in Machines
      <3>1. CASE Owned(x)
        <4>1. machine'[x].image = row /\ row # None
          BY <2>2, <2>5, <3>1
        <4> QED BY <2>4, <3>1, <4>1, Zenon DEF Half, Done, RowAllocated, RowPulled
      <3>2. CASE ~Owned(x)
        BY <2>4, <3>2, Zenon DEF Half, Done
      <3> QED BY <3>1, <3>2
    <2>7. \A x \in Machines : Busy(x)' <=> Half(x)'
      BY <2>3 DEF Busy, At
    <2>8. ~RowPulled => \A x, y \in Machines : Owned(x) /\ Owned(y) => x = y
      <3>1. "shared" \notin seen'
        BY DEF Never
      <3>2. ~(row # None /\ ~row.pulled /\ LoadedTogether)
        BY <1>15, <3>1 DEF Restart, Note
      <3> QED BY <2>5, <3>2, Zenon DEF RowPulled, LoadedTogether
    <2>9. (RowAllocated' <=> RowAllocated) /\ (RowPulled' <=> RowPulled)
      BY <2>1 DEF RowAllocated, RowPulled
    <2>10. (lv'.data = lv.data) \/ (lv'.data = "broken" /\ Extracting # {})
      BY <1>0, <1>15 DEF Restart, OtherTypes
    <2>11. RowPulled => lv.data = "image" /\ Extracting = {}
      BY <1>n DEF OneBusy, AfterPull, Extracting, Pulling, At
    <2>12. NothingYet' /\ AfterPull'
      BY <2>6, <2>7, <2>9, <2>10, <2>11 DEF OneBusy, NothingYet, AfterPull
    <2>13. OnlyOne'
      BY <2>6, <2>7, <2>8 DEF OnlyOne
    <2>14. Places'
      BY <2>3 DEF Places, Pulling, At
    <2>15. NoneTorn'
      BY <1>n, <2>1 DEF NoneTorn
    <2>16. Apart'
      <3>1. \A x \in Machines : Loaded(x)' => Owned(x)
        BY <2>4 DEF Loaded, HasCopy, Owned
      <3> QED BY <2>6, <2>8, <3>1 DEF Apart
    <2> QED BY <2>12, <2>13, <2>14, <2>15, <2>16 DEF OneBusy
  <1>16. ASSUME UNCHANGED vars PROVE OneBusy'
    <2>1. (RowAllocated' <=> RowAllocated) /\ (RowPulled' <=> RowPulled)
      BY <1>16 DEF vars, RowAllocated, RowPulled
    <2>2. \A x \in Machines : (Busy(x)' <=> Busy(x)) /\ (Done(x)' <=> Done(x))
      BY <1>16, Zenon DEF vars, Busy, Half, Done, HasCopy, At
    <2>3. \A x \in Machines : Loaded(x)' <=> Loaded(x)
      BY <1>16, Zenon DEF vars, Loaded, Owned
    <2>4. Apart'
      BY <2>2, <2>3, KeepsApart DEF OneBusy
    <2> QED
      BY <1>16, <2>1, <2>2, <2>4
      DEF vars, OneBusy, NothingYet, OnlyOne, Places, AfterPull, NoneTorn, Pulling, At
  <1> QED BY <1>1, <1>2, <1>3, <1>4, <1>5, <1>6, <1>7, <1>8, <1>9, <1>10, <1>11,
             <1>12, <1>13, <1>14, <1>15, <1>16, StepCases, Zenon

(* History only grows.                                                     *)
LEMMA SeenGrows ==
    ASSUME [Next]_vars PROVE seen \subseteq seen'
  <1> USE DEF vars
  <1>1. ASSUME NEW x \in Machines,
               \/ FetchDetails(x) \/ Create(x) \/ CreateFails(x)
               \/ Pull(x) \/ AllocateImage(x) \/ SaveAllocated(x)
        PROVE  seen \subseteq seen'
    BY <1>1 DEF FetchDetails, Create, CreateFails, Pull, AllocateImage, SaveAllocated
  <1>2. ASSUME NEW x \in Machines,
               \/ MakeFileSystem(x) \/ Mount(x) \/ Extract(x) \/ Unmount(x)
               \/ SavePulled(x) \/ AllocateVolume(x) \/ SaveVolume(x) \/ Release(x)
        PROVE  seen \subseteq seen'
    BY <1>2 DEF MakeFileSystem, Mount, Extract, Unmount, SavePulled, AllocateVolume,
                SaveVolume, Release
  <1>3. ASSUME Restart PROVE seen \subseteq seen'
    BY <1>3 DEF Restart
  <1> QED BY <1>1, <1>2, <1>3, StepCases

LEMMA PullInductive == Spec => [](Basic /\ PullInv)
  <1>1. Init => Basic /\ PullInv
    BY InitialBasic, InitialPull DEF PullInv
  <1>2. Basic /\ PullInv /\ [Next]_vars => (Basic /\ PullInv)'
    <2>1. ASSUME [Next]_vars, Never({"midPull", "shared"})' PROVE Never({"midPull", "shared"})
      BY <2>1, SeenGrows DEF Never
    <2> QED BY <2>1, StepBasic, StepPull DEF PullInv
  <1> QED BY <1>1, <1>2, PTL DEF Spec

(* Unless a second copy was made between the saves of a pull, or machines  *)
(* were loaded with one copy of an image that is not pulled                *)
(* (service.go:85, pull.go:46), two machines never pull the image at the   *)
(* same time, though nothing but the name of the volume keeps them apart   *)
(* (allocate.go:47).                                                       *)
THEOREM OnePullCorrect == Spec => []OnePullAtATime
  <1>1. Basic /\ PullInv => OnePullAtATime
    BY DEF PullInv, OneBusy, OnlyOne, Places, OnePullAtATime
  <1> QED BY <1>1, PullInductive, PTL

(* Under the same conditions no machine's volume is a snapshot of half an   *)
(* image (pull.go:55, allocate.go:28).                                     *)
THEOREM SnapshotsCorrect == Spec => []SnapshotsAreWhole
  <1>1. Basic /\ PullInv => SnapshotsAreWhole
    BY DEF PullInv, OneBusy, NoneTorn, SnapshotsAreWhole
  <1> QED BY <1>1, PullInductive, PTL

(* And a row that says pulled says so of a whole image (pull.go:72).       *)
THEOREM PulledCorrect == Spec => []PulledMeansWhole
  <1>1. ASSUME Basic, PullInv PROVE PulledMeansWhole
    <2>1. ASSUME Never({"midPull", "shared"}), RowPulled PROVE Whole
      <3>1. lv.data = "image" /\ \A y \in Machines : ~Pulling(y)
        BY <1>1, <2>1 DEF PullInv, OneBusy, Places, AfterPull
      <3> QED BY <3>1 DEF Whole, Extracting, Pulling, At
    <2> QED BY <2>1, Zenon DEF PulledMeansWhole, RowPulled
  <1> QED BY <1>1, PullInductive, PTL

-------------------------------------------------------------------------------
(* What the row knows.                                                     *)

(* Whether or not copies were made between saves: before the volume is     *)
(* made no stamp is set anywhere, and no controller is past lvcreate.      *)
Free(x) ==
    /\ ~Busy(x) /\ ~Done(x)
    /\ machine[x].pc \notin {"saveAllocated", "mkfs", "mount", "extract", "unmount",
                             "savePulled", "volume"}
Blank == lv.data = "absent" =>
    ~RowAllocated /\ ~RowPulled /\ \A x \in Machines : Free(x)

(* The volume is never removed.                                            *)
LEMMA VolumeStays ==
    ASSUME OtherTypes, [Next]_vars, lv'.data = "absent"
    PROVE  lv.data = "absent"
  <1> USE DEF OtherTypes
  <1>1. ASSUME NEW x \in Machines, AllocateImage(x) PROVE lv.data = "absent"
    BY <1>1 DEF AllocateImage, NameFree
  <1>2. ASSUME NEW x \in Machines, MakeFileSystem(x) PROVE lv.data = "absent"
    BY <1>2 DEF MakeFileSystem
  <1>3. ASSUME NEW x \in Machines, Mount(x) PROVE lv.data = "absent"
    BY <1>3 DEF Mount
  <1>4. ASSUME NEW x \in Machines, Extract(x) PROVE lv.data = "absent"
    BY <1>4 DEF Extract, Wipe
  <1>5. ASSUME NEW x \in Machines, Unmount(x) PROVE lv.data = "absent"
    BY <1>5 DEF Unmount, Wipe
  <1>6. ASSUME Restart PROVE lv.data = "absent"
    BY <1>6 DEF Restart
  <1>7. ASSUME NEW x \in Machines,
               \/ FetchDetails(x) \/ Create(x) \/ CreateFails(x) \/ Pull(x)
               \/ SaveAllocated(x) \/ SavePulled(x) \/ AllocateVolume(x)
               \/ SaveVolume(x) \/ Release(x)
        PROVE  lv.data = "absent"
    BY <1>7 DEF FetchDetails, Create, CreateFails, Pull, SaveAllocated, SavePulled,
                AllocateVolume, SaveVolume, Release
  <1> QED BY <1>1, <1>2, <1>3, <1>4, <1>5, <1>6, <1>7, StepCases DEF vars

LEMMA StepBlank ==
    ASSUME Basic, Blank, [Next]_vars
    PROVE  Blank'
  <1> SUFFICES ASSUME lv'.data = "absent"
               PROVE  ~RowAllocated' /\ ~RowPulled' /\ \A x \in Machines : Free(x)'
    BY DEF Blank
  <1>0. MachinesOK /\ OtherTypes /\ machine \in [Machines -> Machine]
    BY DEF Basic, MachinesOK
  <1>b. ~RowAllocated /\ ~RowPulled /\ \A x \in Machines : Free(x)
    BY <1>0, VolumeStays DEF Blank
  <1>r. ASSUME row' = row PROVE ~RowAllocated' /\ ~RowPulled'
    BY <1>b, <1>r DEF RowAllocated, RowPulled
  <1>c. ASSUME NEW x \in Machines, NEW s, NEW i, NEW q, Changes(x, s, i, q),
               s \in {"fetched", "owned"} => ~i.allocated /\ ~i.pulled,
               q \notin {"saveAllocated", "mkfs", "mount", "extract", "unmount",
                         "savePulled", "volume"}
        PROVE  \A y \in Machines : Free(y)'
    <2>1. ~Half(x)' /\ ~Done(x)'
      BY <1>c, AfterChange, Zenon
    <2>2. Free(x)'
      BY <1>c, <2>1, AfterChange DEF Free
    <2>3. \A y \in Machines \ {x} : Free(y)'
      BY <1>b, <1>c, AfterChange DEF Free
    <2> QED BY <2>2, <2>3
  <1>i. \A x \in Machines : HasCopy(x) =>
          machine[x].image \in ImageRow /\ ~machine[x].image.allocated /\ ~machine[x].image.pulled
    <2>1. \A x \in Machines : HasCopy(x) => machine[x].image \in ImageRow
      BY <1>0 DEF MachinesOK, Machine
    <2>2. \A x \in Machines : ~Half(x) /\ ~Done(x)
      BY <1>b DEF Free, Busy
    <2> QED BY <2>1, <2>2, Zenon DEF Half, Done
  <1>m. ASSUME NEW x \in Machines, NEW q, Changes(x, machine[x].status, machine[x].image, q),
               q \notin {"saveAllocated", "mkfs", "mount", "extract", "unmount",
                         "savePulled", "volume"}
        PROVE  \A y \in Machines : Free(y)'
    <2>1. machine[x].status \in {"fetched", "owned"} =>
            ~machine[x].image.allocated /\ ~machine[x].image.pulled
      BY <1>i, Zenon DEF HasCopy
    <2> QED BY <1>c, <1>m, <2>1
  <1>1. ASSUME NEW x \in Machines, FetchDetails(x) PROVE Blank'
    <2> DEFINE r == IF row = None THEN NewImage(x) ELSE row
    <2>1. r \in ImageRow /\ ~r.allocated /\ ~r.pulled
      <3>1. NewImage(x) \in ImageRow /\ ~NewImage(x).allocated /\ ~NewImage(x).pulled
        BY DEF NewImage, ImageRow
      <3> QED BY <1>0, <1>b, <3>1, Zenon DEF OtherTypes, RowAllocated, RowPulled
    <2>2. Changes(x, "fetched", r, machine[x].pc) /\ machine[x].pc = "idle"
      <3>1. machine[x].pc = "idle"
        BY <1>0, <1>1 DEF MachinesOK, FetchDetails, Owned
      <3>2. Changes(x, "fetched", r, machine[x].pc)
        BY <1>0, <1>1, <2>1, UpdatesOfOne, Zenon DEF FetchDetails, Status
      <3> QED BY <3>1, <3>2
    <2> HIDE DEF r
    <2>3. row' = row
      BY <1>1 DEF FetchDetails
    <2> QED BY <1>c, <1>r, <2>1, <2>2, <2>3 DEF Blank
  <1>2. ASSUME NEW x \in Machines, Create(x) PROVE Blank'
    <2>1. /\ row' = machine[x].image /\ HasCopy(x)
          /\ machine[x].pc = "idle"
      BY <1>0, <1>2 DEF MachinesOK, Create, Owned, HasCopy
    <2>2. Changes(x, "owned", machine[x].image, "idle")
      BY <1>0, <1>2, <2>1, UpdatesOfOne, Zenon DEF Create, Status
    <2>3. ~machine[x].image.allocated /\ ~machine[x].image.pulled
      BY <1>i, <2>1, Zenon
    <2>4. ~RowAllocated' /\ ~RowPulled'
      BY <2>1, <2>3, Zenon DEF RowAllocated, RowPulled
    <2> QED BY <1>c, <2>2, <2>3, <2>4 DEF Blank
  <1>3. ASSUME NEW x \in Machines, CreateFails(x) PROVE Blank'
    <2>1. machine[x].pc = "idle" /\ row' = row
      BY <1>0, <1>3 DEF MachinesOK, CreateFails, Owned
    <2>2. Changes(x, "rejected", None, "idle")
      BY <1>0, <1>3, <2>1, UpdatesOfOne, Zenon DEF CreateFails, Status
    <2> QED BY <1>c, <1>r, <2>1, <2>2 DEF Blank
  <1>4. ASSUME NEW x \in Machines, Pull(x) PROVE Blank'
    <2>1. row' = row /\ HasCopy(x)
      BY <1>4 DEF Pull, Owned, HasCopy
    <2>2. machine[x].image \in ImageRow /\ ~machine[x].image.pulled
      BY <1>i, <2>1, Zenon
    <2>3. Changes(x, machine[x].status, machine[x].image, "lvcreate")
      BY <1>0, <1>4, <2>2, PullMoves, Zenon
    <2> QED BY <1>m, <1>r, <2>1, <2>3 DEF Blank
  <1>5. ASSUME NEW x \in Machines, AllocateImage(x) PROVE Blank'
    <2>1. row' = row /\ HasCopy(x)
      BY <1>0, <1>5 DEF MachinesOK, AllocateImage, At, Owned, HasCopy
    <2>2. lv' # [lv EXCEPT !.data = "blank"] /\ ~machine[x].image.allocated
      BY <1>0, <1>i, <2>1 DEF OtherTypes
    <2>3. Changes(x, machine[x].status, machine[x].image, "idle")
      BY <1>0, <1>5, <2>2, AllocateImageMoves, Zenon
    <2> QED BY <1>m, <1>r, <2>1, <2>3 DEF Blank
  <1>6. ASSUME NEW x \in Machines,
               \/ SaveAllocated(x) \/ MakeFileSystem(x) \/ Mount(x) \/ Extract(x)
               \/ Unmount(x) \/ SavePulled(x) \/ AllocateVolume(x)
        PROVE  Blank'
    <2>1. machine[x].pc \in {"saveAllocated", "mkfs", "mount", "extract", "unmount",
                             "savePulled", "volume"}
      BY <1>6 DEF SaveAllocated, MakeFileSystem, Mount, Extract, Unmount, SavePulled,
                  AllocateVolume, At
    <2> QED BY <1>b, <2>1 DEF Free
  <1>7. ASSUME NEW x \in Machines, SaveVolume(x) PROVE Blank'
    <2>1. row' = row
      BY <1>7 DEF SaveVolume
    <2>2. PICK q \in {"ready", "idle"} : Changes(x, machine[x].status, machine[x].image, q)
      BY <1>0, <1>7, SaveVolumeMoves
    <2> QED BY <1>m, <1>r, <2>1, <2>2 DEF Blank
  <1>8. ASSUME NEW x \in Machines, Release(x) PROVE Blank'
    <2>1. row' = row
      BY <1>8 DEF Release
    <2>2. Changes(x, "terminated", machine[x].image, "idle")
      BY <1>0, <1>8, UpdatesOfOne, Zenon DEF Release, Status, Pc
    <2> QED BY <1>c, <1>r, <2>1, <2>2 DEF Blank
  <1>9. ASSUME Restart PROVE Blank'
    <2>1. row' = row
      BY <1>9 DEF Restart
    <2>2. \A x \in Machines :
            /\ HasCopy(x)' => Owned(x) /\ machine'[x].image = row /\ row # None
            /\ machine'[x].pc = "idle"
      BY <1>0, <1>9, RestartLoads
      DEF MachinesOK, OtherTypes, Owned, HasCopy, NoMachine
    <2>3. \A x \in Machines : ~Half(x)' /\ ~Done(x)'
      BY <1>b, <2>2, Zenon DEF Half, Done, RowAllocated, RowPulled
    <2>4. \A x \in Machines : Free(x)'
      BY <2>2, <2>3 DEF Free, Busy, At
    <2> QED BY <1>r, <2>1, <2>4 DEF Blank
  <1>10. ASSUME UNCHANGED vars PROVE Blank'
    <2>1. \A x \in Machines : machine'[x].pc = machine[x].pc /\ (Busy(x)' <=> Busy(x))
                              /\ (Done(x)' <=> Done(x))
      BY <1>10, Zenon DEF vars, Busy, Half, Done, HasCopy, At
    <2> QED BY <1>b, <1>r, <1>10, <2>1 DEF vars, Blank, Free
  <1>11. Blank'
    BY <1>1, <1>2, <1>3, <1>4, <1>5, <1>6, <1>7, <1>8, <1>9, <1>10, StepCases, Zenon
  <1> QED BY <1>11 DEF Blank

Known == RowAllocated \/ \E x \in Machines : At(x, "saveAllocated")
KnowsInv == Never({"undone", "unsaved", "cutShort"}) /\ lv.data # "absent" => Known

LEMMA StepKnows ==
    ASSUME Basic, Blank, KnowsInv, [Next]_vars
    PROVE  KnowsInv'
  <1> SUFFICES ASSUME Never({"undone", "unsaved", "cutShort"})', lv'.data # "absent"
               PROVE  Known'
    BY DEF KnowsInv
  <1>0. MachinesOK /\ OtherTypes /\ machine \in [Machines -> Machine]
    BY DEF Basic, MachinesOK
  <1>w. \A x \in Machines : machine[x].pc # "idle" =>
          Owned(x) /\ row \in ImageRow /\ machine[x].image \in ImageRow /\ row # None
    BY <1>0, ImageAssumption DEF MachinesOK, OtherTypes, Machine, HasCopy, Owned
  <1>n. /\ Never({"undone", "unsaved", "cutShort"})
        /\ "undone" \notin seen' /\ "unsaved" \notin seen' /\ "cutShort" \notin seen'
    BY SeenGrows DEF Never
  <1>k. lv.data # "absent" => Known
    BY <1>n DEF KnowsInv
  <1>a. ASSUME NEW x \in Machines, NEW s, NEW i, NEW q, Changes(x, s, i, q),
               lv.data # "absent", ~At(x, "saveAllocated"), RowAllocated => RowAllocated'
        PROVE  Known'
    BY <1>a, <1>k DEF Known, Changes, At
  <1>s. ASSUME row' = row PROVE RowAllocated => RowAllocated'
    BY <1>s DEF RowAllocated
  <1>1. ASSUME NEW x \in Machines, FetchDetails(x) PROVE Known'
    <2>1. row' = row /\ lv' = lv /\ machine[x].pc = "idle"
      BY <1>0, <1>1 DEF MachinesOK, FetchDetails, Owned
    <2>2. \A y \in Machines : At(y, "saveAllocated") => At(y, "saveAllocated")'
      BY <1>0, <1>1, <2>1 DEF FetchDetails, At
    <2> QED BY <1>k, <1>s, <2>1, <2>2 DEF Known
  <1>2. ASSUME NEW x \in Machines, Create(x) PROVE Known'
    <2>1. /\ lv' = lv /\ row' = machine[x].image /\ machine[x].status = "fetched"
          /\ machine[x].pc = "idle"
      BY <1>0, <1>2 DEF MachinesOK, Create, Owned
    <2>2. row # None /\ machine[x].image # None
      BY <1>0, <2>1 DEF OtherTypes, MachinesOK, HasCopy
    <2>3. ~Takes("allocated", machine[x].image)
      BY <1>2, <1>n DEF Create, Note
    <2>4. row["allocated"] = row.allocated
          /\ machine[x].image["allocated"] = machine[x].image.allocated
      OBVIOUS
    <2>5. RowAllocated => RowAllocated'
      BY <2>1, <2>2, <2>3, <2>4, Zenon DEF RowAllocated, Takes
    <2>6. \A y \in Machines : At(y, "saveAllocated") => At(y, "saveAllocated")'
      BY <1>0, <1>2, <2>1 DEF Create, At
    <2> QED BY <1>k, <2>1, <2>5, <2>6 DEF Known
  <1>3. ASSUME NEW x \in Machines, CreateFails(x) PROVE Known'
    <2>1. row' = row /\ lv' = lv /\ machine[x].pc = "idle"
      BY <1>0, <1>3 DEF MachinesOK, CreateFails, Owned
    <2>2. \A y \in Machines : At(y, "saveAllocated") => At(y, "saveAllocated")'
      BY <1>0, <1>3, <2>1 DEF CreateFails, At
    <2> QED BY <1>k, <1>s, <2>1, <2>2 DEF Known
  <1>4. ASSUME NEW x \in Machines, Pull(x) PROVE Known'
    <2>1. row' = row /\ lv' = lv /\ machine[x].pc = "idle"
      BY <1>4 DEF Pull, At
    <2>2. machine[x].image \in ImageRow
      BY <1>0, <1>4 DEF MachinesOK, Machine, Pull, Owned, HasCopy
    <2>3. \E q : Changes(x, machine[x].status, machine[x].image, q)
      BY <1>0, <1>4, <2>2, PullMoves, Zenon
    <2> QED BY <1>a, <1>s, <2>1, <2>3 DEF At
  <1>5. ASSUME NEW x \in Machines, AllocateImage(x) PROVE Known'
    <2>1. row' = row /\ At(x, "lvcreate")
      BY <1>5 DEF AllocateImage
    <2>2. CASE Changes(x, machine[x].status, machine[x].image, "saveAllocated")
      BY <2>2 DEF Known, Changes, At
    <2>3. CASE lv' = lv /\ \E q : Changes(x, machine[x].status, machine[x].image, q)
      BY <1>a, <1>s, <2>1, <2>3 DEF At
    <2> QED BY <1>0, <1>5, <2>2, <2>3, AllocateImageMoves, Zenon
  <1>6. ASSUME NEW x \in Machines, SaveAllocated(x) PROVE Known'
    <2>1. row \in ImageRow /\ machine[x].image \in ImageRow
      BY <1>6, <1>w DEF SaveAllocated, At
    <2>2. PICK q \in {"mkfs", "idle"} :
            /\ row' \in ImageRow
            /\ q = "mkfs" => row'.allocated
            /\ q = "idle" => "unsaved" \in seen'
      BY <1>0, <1>6, <2>1, SaveAllocatedMoves, Zenon
    <2>3. q = "mkfs" /\ row' # None
      BY <1>n, <2>2, ImageAssumption
    <2> QED BY <2>2, <2>3, Zenon DEF Known, RowAllocated
  <1>7. ASSUME NEW x \in Machines,
               \/ MakeFileSystem(x) \/ Mount(x) \/ Extract(x) \/ Unmount(x)
               \/ SavePulled(x) \/ AllocateVolume(x)
        PROVE  Known'
    <2>1. machine[x].pc \in {"mkfs", "mount", "extract", "unmount", "savePulled", "volume"}
      BY <1>7 DEF MakeFileSystem, Mount, Extract, Unmount, SavePulled, AllocateVolume, At
    <2>2. lv.data # "absent" /\ ~At(x, "saveAllocated")
      BY <2>1 DEF Blank, Free, At
    <2>3. row \in ImageRow /\ machine[x].image \in ImageRow /\ row # None
      BY <1>w, <2>1
    <2>4. CASE SavePulled(x)
      <3>1. PICK r \in ImageRow, q \in {"volume", "idle"} :
              /\ Stamps(x, r, q)
              /\ row' \in ImageRow /\ row'.allocated = row.allocated
        BY <1>0, <2>3, <2>4, SavePulledMoves, Zenon
      <3>2. row' # None
        BY <3>1, ImageAssumption
      <3>3. RowAllocated => RowAllocated'
        BY <3>1, <3>2, Zenon DEF RowAllocated
      <3>4. \A y \in Machines : At(y, "saveAllocated") => At(y, "saveAllocated")'
        BY <2>2, <3>1 DEF Stamps, At
      <3> QED BY <1>k, <2>2, <3>3, <3>4 DEF Known
    <2>5. CASE MakeFileSystem(x) \/ Mount(x) \/ Extract(x) \/ Unmount(x) \/ AllocateVolume(x)
      <3>1. row' = row
        BY <2>5 DEF MakeFileSystem, Mount, Extract, Unmount, AllocateVolume
      <3>2. \E q : Changes(x, machine[x].status, machine[x].image, q)
        BY <1>0, <2>5, MakeFileSystemMoves, MountMoves, ExtractMoves, UnmountMoves,
           AllocateVolumeMoves, Zenon DEF OtherTypes
      <3> QED BY <1>a, <1>s, <2>2, <3>1, <3>2
    <2> QED BY <1>7, <2>4, <2>5
  <1>8. ASSUME NEW x \in Machines, SaveVolume(x) PROVE Known'
    <2>1. row' = row /\ lv' = lv /\ ~At(x, "saveAllocated")
      BY <1>8 DEF SaveVolume, At
    <2>2. \E q : Changes(x, machine[x].status, machine[x].image, q)
      BY <1>0, <1>8, SaveVolumeMoves
    <2> QED BY <1>a, <1>s, <2>1, <2>2
  <1>9. ASSUME NEW x \in Machines, Release(x) PROVE Known'
    <2>1. row' = row /\ lv' = lv /\ ~At(x, "saveAllocated")
      BY <1>9 DEF Release, At
    <2>2. Changes(x, "terminated", machine[x].image, "idle")
      BY <1>0, <1>9, UpdatesOfOne, Zenon DEF Release, Status, Pc
    <2> QED BY <1>a, <1>s, <2>1, <2>2
  <1>10. ASSUME Restart PROVE Known'
    <2>1. \A x \in Machines : ~At(x, "saveAllocated")
      BY <1>10, <1>n DEF Restart, Note
    <2>2. lv.data # "absent"
      <3>1. ASSUME lv.data = "absent" PROVE FALSE
        <4>1. Extracting = {}
          BY <3>1 DEF Blank, Free, Extracting, At
        <4>2. lv' = [lv EXCEPT !.data = @]
          BY <1>10, <4>1 DEF Restart
        <4> QED BY <1>0, <3>1, <4>2 DEF OtherTypes
      <3> QED BY <3>1
    <2>3. row' = row
      BY <1>10 DEF Restart
    <2> QED BY <1>k, <1>s, <2>1, <2>2, <2>3 DEF Known
  <1>11. ASSUME UNCHANGED vars PROVE Known'
    BY <1>k, <1>s, <1>11 DEF vars, Known, At
  <1> QED BY <1>1, <1>2, <1>3, <1>4, <1>5, <1>6, <1>7, <1>8, <1>9, <1>10, <1>11,
             StepCases, Zenon

(* The row loses the volume only if a save failed, the agent died before   *)
(* it, or Create wrote an older copy over the row (create.go:68).          *)
THEOREM RowKnowsCorrect == Spec => []RowKnowsVolume
  <1>1. Init => Basic /\ Blank /\ KnowsInv
    <2>1. Init => lv.data = "absent" /\ OneBusy
      BY InitialPull DEF Init, NoVolume
    <2>2. ASSUME Init PROVE Blank
      <3>1. \A x \in Machines : machine[x].pc = "idle"
        BY <2>2 DEF Init, NoMachine
      <3> QED BY <2>1, <2>2, <3>1 DEF Blank, Free, OneBusy, NothingYet
    <2> QED BY <2>1, <2>2, InitialBasic DEF KnowsInv
  <1>2. Basic /\ Blank /\ KnowsInv /\ [Next]_vars => (Basic /\ Blank /\ KnowsInv)'
    BY StepBasic, StepBlank, StepKnows
  <1>3. Basic /\ KnowsInv => RowKnowsVolume
    <2>1. ASSUME Basic, KnowsInv, Never({"undone", "unsaved", "cutShort"}),
                 lv.data # "absent"
          PROVE  row.allocated \/ \E x \in Machines : At(x, "saveAllocated")
      BY <2>1, Zenon DEF KnowsInv, Known, RowAllocated
    <2> QED BY <2>1, Zenon DEF RowKnowsVolume
  <1> QED BY <1>1, <1>2, <1>3, PTL DEF Spec
================================================================================
