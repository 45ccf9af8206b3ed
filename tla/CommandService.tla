----------------------------- MODULE CommandService -----------------------------
(***************************************************************************)
(* What the gateway promises about one cloud-to-device command, whatever   *)
(* the number of workers, the queue size and the retry policy:             *)
(*                                                                         *)
(*   - a command is taken up at most once and its fate never changes again *)
(*     once it is settled;                                                 *)
(*   - a command that was dropped or rejected never reached a device;      *)
(*   - telemetry is produced only for a command its device has executed.   *)
(*                                                                         *)
(* RoutingEngine implements this contract (CommandServiceRefined there).   *)
(***************************************************************************)
CONSTANT Commands       \* deliveries of C2D messages

VARIABLES fate,         \* where each command stands
          reached       \* the commands whose device executed their payload

vars == <<fate, reached>>

Settled == {"dropped", "rejected", "failed", "delivered", "undelivered"}
Fates == {"new", "waiting", "working"} \cup Settled

TypeOK == /\ fate \in [Commands -> Fates]
          /\ reached \subseteq Commands

Init == /\ fate = [c \in Commands |-> "new"]
        /\ reached = {}

\* DispatchCommand decides at once: queued, handed to a worker, or dropped.
Offer(c) ==
    /\ fate[c] = "new"
    /\ \E f \in {"waiting", "working", "dropped"} : fate' = [fate EXCEPT ![c] = f]
    /\ UNCHANGED reached

TakeUp(c) ==
    /\ fate[c] = "waiting"
    /\ fate' = [fate EXCEPT ![c] = "working"]
    /\ UNCHANGED reached

Reach(c) ==
    /\ fate[c] = "working"
    /\ reached' = reached \cup {c}
    /\ UNCHANGED fate

\* No telemetry without execution, no rejection after it.
Settle(c) ==
    /\ fate[c] = "working"
    /\ \E f \in Settled \ {"dropped"} :
          /\ f \in {"delivered", "undelivered"} => c \in reached
          /\ f = "rejected" => c \notin reached
          /\ fate' = [fate EXCEPT ![c] = f]
    /\ UNCHANGED reached

Next == \E c \in Commands : Offer(c) \/ TakeUp(c) \/ Reach(c) \/ Settle(c)

Spec == Init /\ [][Next]_vars
=================================================================================
