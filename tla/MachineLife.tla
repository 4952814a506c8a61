------------------------------ MODULE MachineLife ------------------------------
(***************************************************************************)
(* What a machine's controller promises about the machine it controls: how *)
(* its runtime, its tap link and its volumes come and go over its life.    *)
(*                                                                         *)
(*   - A machine is kept until it is to be terminated and nothing works on *)
(*     it for another end any more; then it is leaving, and nothing is set *)
(*     up or started again.                                                *)
(*   - A runtime is started only with link and volumes in place, and only  *)
(*     when none runs, or a probe overlooked the one that does.            *)
(*   - Link and volumes are given up, in this order, only by a machine     *)
(*     that is leaving and whose runtime has ended or was overlooked.      *)
(*   - It has left, for everybody to see, only when all that is given up.  *)
(*     An earlier announcement may still overtake that.                    *)
(*                                                                         *)
(* All this as long as the controller is not astray.                       *)
(***************************************************************************)

VARIABLES
    phase,        \* kept, leaving, or left
    runtime,      \* absent, booting, up, or dying
    link,         \* is there a tap link?
    volume,       \* are there volumes?
    overlooked,   \* has a probe overlooked a runtime?
    astray        \* has the controller acted on outdated or revoked orders?

life == <<phase, runtime, link, volume, overlooked, astray>>

Init ==
    /\ phase \in {"kept", "leaving"}
    /\ runtime = "absent"
    /\ link = FALSE /\ volume = FALSE
    /\ overlooked = FALSE /\ astray = FALSE

Ended == runtime \in {"absent", "dying"} \/ overlooked

(* A link that is there is made anew: it may be lost, volumes are not.     *)
SetUp ==
    /\ phase = "kept"
    /\ link' \in BOOLEAN /\ volume' \in {volume, TRUE}
    /\ UNCHANGED <<phase, runtime, overlooked>>

Start ==
    /\ phase = "kept" /\ link /\ volume
    /\ runtime = "absent" \/ overlooked
    /\ runtime' = IF runtime = "up" THEN "up" ELSE "booting"
    /\ UNCHANGED <<phase, link, volume, overlooked>>

RuntimeMoves ==
    /\ <<runtime, runtime'>> \in
         {<<"booting", "up">>, <<"up", "dying">>, <<"dying", "absent">>,
          <<"booting", "absent">>, <<"up", "absent">>}
    /\ UNCHANGED <<phase, link, volume, overlooked>>

Overlook ==
    /\ overlooked' = TRUE
    /\ UNCHANGED <<phase, runtime, link, volume>>

Leave ==
    /\ phase = "kept" /\ phase' = "leaving"
    /\ UNCHANGED <<runtime, link, volume, overlooked>>

GiveUpLink ==
    /\ phase = "leaving" /\ Ended
    /\ link' = FALSE
    /\ UNCHANGED <<phase, runtime, volume, overlooked>>

GiveUpVolumes ==
    /\ phase = "leaving" /\ Ended /\ ~link
    /\ volume' = FALSE
    /\ UNCHANGED <<phase, runtime, link, overlooked>>

HasLeft ==
    /\ phase = "leaving" /\ Ended /\ ~link /\ ~volume
    /\ phase' = "left"
    /\ UNCHANGED <<runtime, link, volume, overlooked>>

Overtaken ==
    /\ phase = "left" /\ phase' = "leaving"
    /\ UNCHANGED <<runtime, link, volume, overlooked>>

Next ==
    \/ astray'
    \/ /\ astray' = astray
       /\ \/ SetUp \/ Start \/ RuntimeMoves \/ Overlook
          \/ Leave \/ GiveUpLink \/ GiveUpVolumes \/ HasLeft \/ Overtaken

Spec == Init /\ [][Next]_life
================================================================================
