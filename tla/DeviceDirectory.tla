---------------------------- MODULE DeviceDirectory -----------------------------
(***************************************************************************)
(* What the device registry promises the rest of the gateway: a device is  *)
(* there or not, it appears with status UNKNOWN, and from then on until it *)
(* disappears its status is the one reported last.  Where the devices come *)
(* from, and how a reload works, does not show.                            *)
(*                                                                         *)
(* DeviceRegistry implements this (DirectoryRefined there).                *)
(***************************************************************************)
CONSTANT Devices

VARIABLE status        \* "ABSENT", or the runtime status of a device

TypeOK == status \in [Devices -> {"ABSENT", "UNKNOWN", "ONLINE", "OFFLINE"}]

Init == status = [d \in Devices |-> "ABSENT"]

\* A reload replaces the whole set at once and touches no device that stays.
Reload ==
    \E listed \in SUBSET Devices :
        status' = [d \in Devices |-> IF d \notin listed THEN "ABSENT"
                                     ELSE IF status[d] = "ABSENT" THEN "UNKNOWN" ELSE status[d]]

Report(d, s) ==
    /\ status[d] # "ABSENT"
    /\ status' = [status EXCEPT ![d] = s]

Next == Reload \/ \E d \in Devices : Report(d, "ONLINE") \/ Report(d, "OFFLINE")

Spec == Init /\ [][Next]_status
=================================================================================
