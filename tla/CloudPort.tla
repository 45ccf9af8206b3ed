-------------------------------- MODULE CloudPort --------------------------------
(***************************************************************************)
(* What the gateway relies on in a CloudClient                             *)
(* (internal/core/ports/ports.go): each publish gets one verdict; on an    *)
(* undisturbed connection success means that the hub has the payload, and  *)
(* success and error are final, while it may still be sent after a         *)
(* timeout; an interruption makes the publishes it meets unsure, whatever  *)
(* verdict they get; a C2D message is done with at the hub only after its  *)
(* command was dispatched; and after Disconnect nothing moves.             *)
(***************************************************************************)
EXTENDS Naturals

CONSTANTS Publishes, Messages, Malformed

VARIABLES verdict,      \* what each publish returned, "pending" until then
          copies,       \* how often the hub received its payload
          unsure,       \* publishes an interruption of the connection has met
          settled,      \* messages the hub is done with
          dispatched,   \* how often each was dispatched
          up,           \* IsConnected
          closed        \* Disconnect has closed the client

vars == <<verdict, copies, unsure, settled, dispatched, up, closed>>

Init ==
    /\ verdict = [p \in Publishes |-> "pending"]
    /\ copies = [p \in Publishes |-> 0]
    /\ unsure = {}
    /\ settled = {}
    /\ dispatched = [m \in Messages |-> 0]
    /\ up = FALSE
    /\ closed = FALSE

\* Success and error leave nothing to be sent, unless they were given to an unsure publish.
Open(p) == verdict[p] \in {"pending", "timeout"}

Receive(p) ==
    /\ ~closed /\ (Open(p) \/ p \in unsure)
    /\ copies' = [copies EXCEPT ![p] = @ + 1]
    /\ UNCHANGED <<verdict, unsure, settled, dispatched, up, closed>>

Return(p, v) ==
    /\ verdict[p] = "pending"
    /\ v = "ok" => copies[p] > 0 \/ p \in unsure
    /\ verdict' = [verdict EXCEPT ![p] = v]
    /\ UNCHANGED <<copies, unsure, settled, dispatched, up, closed>>

Interrupt ==
    /\ ~closed
    /\ \E met \in SUBSET {p \in Publishes : Open(p)} : unsure' = unsure \cup met
    /\ UNCHANGED <<verdict, copies, settled, dispatched, up, closed>>

Dispatch(m) ==
    /\ ~closed /\ m \notin settled \cup Malformed
    /\ dispatched' = [dispatched EXCEPT ![m] = @ + 1]
    /\ UNCHANGED <<verdict, copies, unsure, settled, up, closed>>

Settle(m) ==
    /\ ~closed /\ m \notin settled
    /\ m \in Malformed \/ dispatched[m] > 0
    /\ settled' = settled \cup {m}
    /\ UNCHANGED <<verdict, copies, unsure, dispatched, up, closed>>

\* The connection, as IsConnected reports it, comes and goes until Disconnect.
Change ==
    /\ ~closed
    /\ up' = ~up
    /\ UNCHANGED <<verdict, copies, unsure, settled, dispatched, closed>>

Close ==
    /\ ~closed
    /\ closed' = TRUE
    /\ up' = FALSE
    /\ UNCHANGED <<verdict, copies, unsure, settled, dispatched>>

Next ==
    \/ \E p \in Publishes : Receive(p) \/ \E v \in {"ok", "error", "timeout"} : Return(p, v)
    \/ \E m \in Messages : Dispatch(m) \/ Settle(m)
    \/ Interrupt \/ Change \/ Close

Spec == Init /\ [][Next]_vars
=================================================================================
