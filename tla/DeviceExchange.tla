----------------------------- MODULE DeviceExchange -----------------------------
(***************************************************************************)
(* What one call of SendCommand means to the routing engine: the payload   *)
(* is written at most once, the device executes a written payload at most  *)
(* once, whether or not the caller still waits, an answer is the answer of *)
(* a device that executed, and a call that ends in an error the engine     *)
(* does not retry has written nothing.                                     *)
(*                                                                         *)
(* PJLinkSession implements this (ExchangeRefined there).                  *)
(***************************************************************************)
VARIABLES written, executed, result

vars == <<written, executed, result>>

Init == written = FALSE /\ executed = FALSE /\ result = "none"

Write ==
    /\ result = "none" /\ ~written
    /\ written' = TRUE
    /\ UNCHANGED <<executed, result>>

Execute ==
    /\ written /\ ~executed
    /\ executed' = TRUE
    /\ UNCHANGED <<written, result>>

Answer ==
    /\ result = "none" /\ executed
    /\ result' = "answered"
    /\ UNCHANGED <<written, executed>>

Fail ==
    /\ result = "none"
    /\ result' \in {"timeout", "network"}
    /\ UNCHANGED <<written, executed>>

Refuse ==
    /\ result = "none" /\ ~written
    /\ result' = "unclassified"
    /\ UNCHANGED <<written, executed>>

Next == Write \/ Execute \/ Answer \/ Fail \/ Refuse

Spec == Init /\ [][Next]_vars
=================================================================================
