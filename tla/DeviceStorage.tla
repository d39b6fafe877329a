----------------------------- MODULE DeviceStorage ----------------------------
(***************************************************************************)
(* What device persistence promises: for every device and group of columns *)
(* the stored version is one the device had, it never goes back, and it is *)
(* never ahead of the device.                                              *)
(***************************************************************************)
EXTENDS Naturals

CONSTANTS Devices, Groups

VARIABLES current,  \* newest version of every group of every device
          stored    \* the version in the table

Init ==
    /\ stored = [d \in Devices |-> [g \in Groups |-> 0]]
    /\ current \in [Devices -> [Groups -> {0, 1}]]

(* A message or the passing of time changes devices. *)
Change ==
    /\ \A d \in Devices, g \in Groups : current'[d][g] >= current[d][g]
    /\ UNCHANGED stored

(* A write of one device stores newer versions of some groups. *)
Store(d) ==
    /\ \A g \in Groups : stored[d][g] <= stored'[d][g] /\ stored'[d][g] <= current[d][g]
    /\ \A e \in Devices \ {d} : stored'[e] = stored[e]
    /\ UNCHANGED current

Next == Change \/ \E d \in Devices : Store(d)

Spec == Init /\ [][Next]_<<current, stored>>
===============================================================================
