----------------------------- MODULE TelemetryStore ------------------------------
(***************************************************************************)
(* What the telemetry buffer promises its callers: telemetry is added      *)
(* once; a fetch is atomic, it returns everything held at one moment and   *)
(* removes only what it returns; nothing else removes telemetry but expiry *)
(* and a fetch that was reading when the database failed: that one may     *)
(* return a part and remove more.                                          *)
(*                                                                         *)
(* TelemetryBuffer implements this with SQLite transactions                *)
(* (TelemetryStoreRefined there).  A fetch need not remove all it returns: *)
(* the same telemetry can be served again.                                 *)
(***************************************************************************)
EXTENDS Naturals

CONSTANTS Items,          \* calls of AddData
          Fetches         \* calls of Fetch

VARIABLES added,          \* telemetry accepted so far
          held,           \* telemetry a fetch would return
          served,         \* how often a fetch returned it
          expired,        \* telemetry that expiry removed
          failing         \* fetches the database failed while they read

vars == <<added, held, served, expired, failing>>

TypeOK == /\ added \subseteq Items
          /\ held \subseteq added
          /\ served \in [Items -> Nat]
          /\ expired \subseteq added
          /\ failing \subseteq Fetches

Init == /\ added = {}
        /\ held = {}
        /\ served = [i \in Items |-> 0]
        /\ expired = {}
        /\ failing = {}

Add(i) ==
    /\ i \notin added
    /\ added' = added \cup {i}
    /\ held' = held \cup {i}
    /\ UNCHANGED <<served, expired, failing>>

Return(items) ==
    served' = [i \in Items |-> IF i \in items THEN served[i] + 1 ELSE served[i]]

\* At least the newest telemetry is removed.
Fetch ==
    /\ \E kept \in SUBSET held : kept # held /\ held' = kept
    /\ Return(held)
    /\ UNCHANGED <<added, expired, failing>>

Expire ==
    /\ held' \in SUBSET held
    /\ expired' = expired \cup (held \ held')
    /\ UNCHANGED <<added, served, failing>>

Fault(f) ==
    /\ failing' = failing \cup {f}
    /\ UNCHANGED <<added, held, served, expired>>

\* What such a fetch returns, if anything, is a part of what is held.
PartFetch(f) ==
    /\ f \in failing
    /\ failing' = failing \ {f}
    /\ held' \in SUBSET held
    /\ \E part \in SUBSET held : Return(part)
    /\ UNCHANGED <<added, expired>>

\* It may also just fail.
GiveUp ==
    /\ failing' \in SUBSET failing
    /\ UNCHANGED <<added, held, served, expired>>

Next ==
    \/ Fetch \/ Expire \/ GiveUp
    \/ \E i \in Items : Add(i)
    \/ \E f \in Fetches : Fault(f) \/ PartFetch(f)

Spec == Init /\ [][Next]_vars
==================================================================================
