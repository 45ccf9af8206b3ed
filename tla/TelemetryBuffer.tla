---------------------------- MODULE TelemetryBuffer ------------------------------
(***************************************************************************)
(* The SQLite telemetry buffer (internal/buffer/sqlite_buffer.go), fetched *)
(* over HTTP (handleFetch in internal/observability/observability.go) and  *)
(* closed by main.                                                         *)
(*                                                                         *)
(* Every goroutine has its own connection to a database in WAL mode: a     *)
(* transaction reads the snapshot of its first query, one connection at a  *)
(* time may write, and a transaction whose snapshot another commit has     *)
(* made stale may not write at all (SQLITE_BUSY_SNAPSHOT, no waiting).     *)
(* A row is named by the AddData call that inserted it.                    *)
(*                                                                         *)
(* A definition marked "Mistake" is no part of the specification: it is a  *)
(* plausible wrong version of the definition after it, which the           *)
(* properties must tell from the right one.                                *)
(***************************************************************************)
EXTENDS Integers

CONSTANTS Items,         \* calls of AddData
          Fetches,       \* GET requests to the fetch endpoint
          Retention,     \* RETENTION_WINDOW_MINUTES
          MaxTime,       \* bound of the clock
          MaxRestarts,   \* bound of the crashes and restarts
          Nobody

ASSUME BufferAssumption ==
    /\ Retention \in Nat /\ MaxTime \in Nat /\ MaxRestarts \in Nat
    /\ Nobody \notin Fetches

VARIABLES clock,
          add,       \* progress of each AddData call
          stamp,     \* the timestamp column, time.Now() of the call
          rowId,     \* the id column, 0 before the insert
          lastId,    \* AUTOINCREMENT's counter
          table,     \* the committed rows
          fetch,     \* progress of each Fetch
          read,      \* how the iteration of a Fetch's query ended
          seen,      \* the rows it returned
          stale,     \* Fetches whose snapshot is no longer the newest
          writer,    \* the Fetch that holds the write lock
          cleaning,  \* the cleanup has computed its cutoff and runs its statement
          cutoff,    \* that cutoff, 0 between the runs
          open,      \* the process has the database open
          restarts,
          served,    \* history: how often each row was in a committed Fetch
          pruned,    \* history: the rows the cleanup removed
          lost       \* history: the rows a Fetch removed whose read was cut short

insertion == <<add, stamp, rowId, lastId>>
reading == <<read, seen>>
fetching == <<fetch, reading, writer>>
cleanup == <<cleaning, cutoff>>
process == <<open, restarts>>
history == <<served, pruned, lost>>
vars == <<clock, insertion, table, fetching, stale, cleanup, process, history>>

InTransaction == {"queried", "deleted"}

TypeOK ==
    /\ clock \in 0..MaxTime
    /\ add \in [Items -> {"new", "stamped", "stored", "failed"}]
    /\ stamp \in [Items -> 0..MaxTime]
    /\ rowId \in [Items -> Nat]
    /\ lastId \in Nat
    /\ table \subseteq Items
    /\ fetch \in [Fetches -> InTransaction \cup {"new", "responding", "done", "lost", "failed"}]
    /\ read \in [Fetches -> {"none", "whole", "short", "aborted"}]
    /\ seen \in [Fetches -> SUBSET Items]
    /\ stale \subseteq Fetches
    /\ writer \in Fetches \cup {Nobody}
    /\ cleaning \in BOOLEAN
    /\ cutoff \in (0 - Retention)..MaxTime
    /\ open \in BOOLEAN
    /\ restarts \in 0..MaxRestarts
    /\ served \in [Items -> Nat]
    /\ pruned \subseteq Items
    /\ lost \subseteq Items

Init ==
    /\ clock = 0
    /\ add = [i \in Items |-> "new"]
    /\ stamp = [i \in Items |-> 0]
    /\ rowId = [i \in Items |-> 0]
    /\ lastId = 0
    /\ table = {}
    /\ fetch = [f \in Fetches |-> "new"]
    /\ read = [f \in Fetches |-> "none"]
    /\ seen = [f \in Fetches |-> {}]
    /\ stale = {}
    /\ writer = Nobody
    /\ cleaning = FALSE
    /\ cutoff = 0
    /\ open = TRUE
    /\ restarts = 0
    /\ served = [i \in Items |-> 0]
    /\ pruned = {}
    /\ lost = {}

----------------------------------------------------------------------------------
(* AddData: the timestamp is taken before Exec runs, the id when it inserts.       *)

Stamp(i) ==
    /\ add[i] = "new"
    /\ add' = [add EXCEPT ![i] = "stamped"]
    /\ stamp' = [stamp EXCEPT ![i] = clock]
    /\ UNCHANGED <<clock, rowId, lastId, table, fetching, stale, cleanup, process, history>>

Insert(i) ==
    /\ add[i] = "stamped" /\ open /\ writer = Nobody
    /\ add' = [add EXCEPT ![i] = "stored"]
    /\ lastId' = lastId + 1
    /\ rowId' = [rowId EXCEPT ![i] = lastId + 1]
    /\ table' = table \cup {i}
    /\ stale' = Fetches
    /\ UNCHANGED <<clock, stamp, fetching, cleanup, process, history>>

\* The database is closed, or locked until busy_timeout ran out.
AddFails(i) ==
    /\ add[i] = "stamped"
    /\ ~open \/ writer # Nobody
    /\ add' = [add EXCEPT ![i] = "failed"]
    /\ UNCHANGED <<clock, stamp, rowId, lastId, table, fetching, stale, cleanup, process, history>>

----------------------------------------------------------------------------------
(* Fetch, and the response handleFetch makes of it.                                *)

\* ORDER BY timestamp, read through the index: equal timestamps come in the order of ids.
Before(i, j) == \/ stamp[i] < stamp[j]
                \/ stamp[i] = stamp[j] /\ rowId[i] < rowId[j]

\* The first rows of the table: what an iteration has read when an error of SQLite ends it.
Beginnings ==
    {rows \in SUBSET table : rows # {} /\ \A i \in rows, j \in table \ rows : Before(i, j)}

\* BEGIN is deferred: the query takes the snapshot.  rows.Err() is not asked, so rows.Next
\* that fails after the first row looks like the end of the table: "short" if the
\* transaction survives the error, "aborted" if SQLite rolls it back (SQLITE_IOERR).
Query(f) ==
    /\ fetch[f] = "new" /\ open
    /\ fetch' = [fetch EXCEPT ![f] = "queried"]
    /\ \/ /\ read' = [read EXCEPT ![f] = "whole"]
          /\ seen' = [seen EXCEPT ![f] = table]
       \/ \E cut \in {"short", "aborted"}, rows \in Beginnings :
             /\ rows # table \/ cut = "aborted"
             /\ read' = [read EXCEPT ![f] = cut]
             /\ seen' = [seen EXCEPT ![f] = rows]
    /\ stale' = stale \ {f}
    /\ UNCHANGED <<clock, insertion, table, writer, cleanup, process, history>>

\* Begin, or the query up to its first row, or a Scan fails: closed, or an error.
Refuse(f) ==
    /\ fetch[f] = "new"
    /\ fetch' = [fetch EXCEPT ![f] = "failed"]
    /\ UNCHANGED <<clock, insertion, table, reading, writer, stale, cleanup, process, history>>

\* The transaction is over, and with it what its query returned.
End(f, outcome) ==
    /\ fetch' = [fetch EXCEPT ![f] = outcome]
    /\ read' = [read EXCEPT ![f] = "none"]
    /\ seen' = [seen EXCEPT ![f] = {}]

\* Mistake: as if a read transaction could always be upgraded.
DeleteRegardless(f) ==
    /\ fetch[f] = "queried" /\ seen[f] # {} /\ read[f] # "aborted" /\ writer = Nobody
    /\ fetch' = [fetch EXCEPT ![f] = "deleted"]
    /\ writer' = f
    /\ UNCHANGED <<clock, insertion, table, reading, stale, cleanup, process, history>>

Delete(f) ==
    /\ fetch[f] = "queried" /\ seen[f] # {} /\ read[f] # "aborted"
    /\ f \notin stale /\ writer = Nobody
    /\ fetch' = [fetch EXCEPT ![f] = "deleted"]
    /\ writer' = f
    /\ UNCHANGED <<clock, insertion, table, reading, stale, cleanup, process, history>>

\* Mistake: waits for the stale snapshot to become fresh again.
ConflictOnLockOnly(f) ==
    /\ fetch[f] = "queried" /\ seen[f] # {} /\ writer # Nobody
    /\ End(f, "failed")
    /\ UNCHANGED <<clock, insertion, table, writer, stale, cleanup, process, history>>

\* SQLITE_BUSY or SQLITE_BUSY_SNAPSHOT, or the error of the query again; the deferred
\* Rollback ends the transaction.
Conflict(f) ==
    /\ fetch[f] = "queried" /\ seen[f] # {}
    /\ f \in stale \/ writer # Nobody \/ read[f] = "aborted"
    /\ End(f, "failed")
    /\ UNCHANGED <<clock, insertion, table, writer, stale, cleanup, process, history>>

\* The row read last.
IsLast(i, rows) ==
    \A j \in rows : \/ stamp[j] < stamp[i]
                    \/ stamp[j] = stamp[i] /\ rowId[j] <= rowId[i]

\* The statement deletes by id alone, up to maxId, the id of the last row: a row that was
\* read and has a greater id stays, a row that was not read and has a smaller one goes.
Deleted(f) == {i \in table : \E last \in seen[f] :
                                 IsLast(last, seen[f]) /\ rowId[i] <= rowId[last]}

Serve(f) ==
    served' = [i \in Items |-> IF i \in seen[f] THEN served[i] + 1 ELSE served[i]]

Commit(f) ==
    /\ fetch[f] = "deleted"
    /\ table' = table \ Deleted(f)
    /\ Serve(f)
    /\ lost' = IF read[f] = "short" THEN lost \cup (Deleted(f) \ seen[f]) ELSE lost
    /\ End(f, "responding")
    /\ writer' = Nobody
    /\ stale' = Fetches
    /\ UNCHANGED <<clock, insertion, cleanup, process, pruned>>

\* Nothing to delete: the transaction only read.
CommitEmpty(f) ==
    /\ fetch[f] = "queried" /\ seen[f] = {}
    /\ End(f, "responding")
    /\ UNCHANGED <<clock, insertion, table, writer, stale, cleanup, process, history>>

\* Mistake: s.db.Exec for tx.Exec, so the rows are deleted before the commit fails.
DeletedOutside(f) ==
    /\ fetch[f] = "deleted"
    /\ table' = table \ Deleted(f)
    /\ End(f, "failed")
    /\ writer' = Nobody
    /\ UNCHANGED <<clock, insertion, stale, cleanup, process, history>>

\* Mistake: no deferred Rollback.
NoRollback(f) ==
    /\ fetch[f] = "deleted"
    /\ End(f, "failed")
    /\ UNCHANGED <<clock, insertion, table, writer, stale, cleanup, process, history>>

CommitFails(f) ==
    /\ fetch[f] = "deleted"
    /\ End(f, "failed")
    /\ writer' = Nobody
    /\ UNCHANGED <<clock, insertion, table, stale, cleanup, process, history>>

\* SQLite has rolled the transaction back, so the DELETE is a transaction of its own: it
\* takes effect, and the commit that follows fails ("no transaction is active").
Erase(f) ==
    /\ fetch[f] = "queried" /\ read[f] = "aborted" /\ writer = Nobody
    /\ table' = table \ Deleted(f)
    /\ lost' = lost \cup Deleted(f)
    /\ stale' = IF Deleted(f) = {} THEN stale ELSE Fetches
    /\ End(f, "failed")
    /\ UNCHANGED <<clock, insertion, writer, cleanup, process, served, pruned>>

\* Encode reaches the client, or it does not: the rows are gone all the same.
Respond(f) ==
    /\ fetch[f] = "responding"
    /\ \E end \in {"done", "lost"} : fetch' = [fetch EXCEPT ![f] = end]
    /\ UNCHANGED <<clock, insertion, table, reading, writer, stale, cleanup, process, history>>

----------------------------------------------------------------------------------
(* StartCleanup: the cutoff is computed at the tick, the DELETE may run later.     *)

\* Mistake: Add(retention) for Add(-retention).
TickAhead ==
    /\ ~cleaning
    /\ cleaning' = TRUE
    /\ cutoff' = clock + Retention
    /\ UNCHANGED <<clock, insertion, table, fetching, stale, process, history>>

CleanupTick ==
    /\ ~cleaning
    /\ cleaning' = TRUE
    /\ cutoff' = clock - Retention
    /\ UNCHANGED <<clock, insertion, table, fetching, stale, process, history>>

\* Mistake: <= for < in the statement.
ExpiredInclusive == {i \in table : stamp[i] <= cutoff}

Expired == {i \in table : stamp[i] < cutoff}

Prune ==
    /\ cleaning /\ open /\ writer = Nobody
    /\ table' = table \ Expired
    /\ pruned' = pruned \cup Expired
    /\ stale' = IF Expired = {} THEN stale ELSE Fetches
    /\ cleaning' = FALSE
    /\ cutoff' = 0
    /\ UNCHANGED <<clock, insertion, fetching, process, served, lost>>

\* Logged, and tried again a minute later; the loop also outlives Close.
PruneFails ==
    /\ cleaning
    /\ ~open \/ writer # Nobody
    /\ cleaning' = FALSE
    /\ cutoff' = 0
    /\ UNCHANGED <<clock, insertion, table, fetching, stale, process, history>>

----------------------------------------------------------------------------------
Tick ==
    /\ clock < MaxTime
    /\ clock' = clock + 1
    /\ UNCHANGED <<insertion, table, fetching, stale, cleanup, process, history>>

\* db.Close lets the transactions that have begun finish.
Close ==
    /\ open
    /\ open' = FALSE
    /\ UNCHANGED <<clock, insertion, table, fetching, stale, cleanup, restarts, history>>

\* The process dies and starts again on the same file: SQLite rolls back what was not
\* committed, calls and requests in progress end unanswered.
Restart ==
    /\ restarts < MaxRestarts
    /\ restarts' = restarts + 1
    /\ open' = TRUE
    /\ add' = [i \in Items |-> IF add[i] = "stamped" THEN "failed" ELSE add[i]]
    /\ fetch' = [f \in Fetches |-> CASE fetch[f] \in InTransaction -> "failed"
                                     [] fetch[f] = "responding" -> "lost"
                                     [] OTHER -> fetch[f]]
    /\ read' = [f \in Fetches |-> IF fetch[f] \in InTransaction THEN "none" ELSE read[f]]
    /\ seen' = [f \in Fetches |-> IF fetch[f] \in InTransaction THEN {} ELSE seen[f]]
    /\ writer' = Nobody
    /\ cleaning' = FALSE
    /\ cutoff' = 0
    /\ UNCHANGED <<clock, stamp, rowId, lastId, table, stale, history>>

AddStep(i) == Stamp(i) \/ Insert(i) \/ AddFails(i)
FetchStep(f) ==
    \/ Query(f) \/ Refuse(f) \/ Delete(f) \/ Conflict(f)
    \/ Commit(f) \/ CommitEmpty(f) \/ CommitFails(f) \/ Erase(f) \/ Respond(f)
Cleanup == CleanupTick \/ Prune \/ PruneFails

Next ==
    \/ \E i \in Items : AddStep(i)
    \/ \E f \in Fetches : FetchStep(f)
    \/ Cleanup \/ Tick \/ Close \/ Restart

Spec == Init /\ [][Next]_vars

\* SQLite answers every statement, a response ends, and the ticker of the cleanup keeps
\* firing; nothing makes data or requests come or the clock pass.
FairSpec ==
    /\ Spec
    /\ WF_vars(Cleanup)
    /\ \A f \in Fetches : WF_vars(fetch[f] # "new" /\ FetchStep(f))

----------------------------------------------------------------------------------
(* Properties.                                                                     *)

\* Stored telemetry is in the table until a committed Fetch has returned it or the
\* cleanup removed it, through conflicts, failed commits and crashes (lines 84-120);
\* nothing but a read that SQLite cut short loses it.
AccountedFor ==
    \A i \in Items :
        add[i] = "stored" <=> i \in table \/ served[i] > 0 \/ i \in pruned \/ i \in lost

\* Row i was inserted after a row with a later timestamp: the two AddData calls crossed.
Overtaken(i) ==
    \E j \in Items : /\ add[j] = "stored" /\ add[i] = "stored"
                     /\ rowId[j] < rowId[i] /\ stamp[i] < stamp[j]

\* Concurrent and repeated fetches return a row once, unless its insertion was
\* overtaken: then maxId (lines 112-113) spares it.
ServedOnceUnlessOvertaken == \A i \in Items : served[i] > 1 => Overtaken(i)

(* The inductive invariant behind the two: what the lock and the snapshots say about *)
(* a transaction, and what the ids say about a row that was served and is still held. *)

\* The writer is the transaction that has deleted; a snapshot that is not stale is
\* the committed table, of which a query cut short has read the beginning.
TransactionInv(f) ==
    /\ fetch[f] = "deleted" =>
           writer = f /\ f \notin stale /\ seen[f] # {} /\ read[f] \in {"whole", "short"}
    /\ fetch[f] \in InTransaction <=> read[f] # "none"
    /\ read[f] = "aborted" => seen[f] # {}
    /\ read[f] \in {"whole", "short"} /\ f \notin stale =>
           /\ seen[f] \subseteq table
           /\ \A i \in seen[f], j \in table \ seen[f] : Before(i, j)
           /\ read[f] = "whole" => seen[f] = table

RowInv(i) ==
    /\ add[i] = "stored" => rowId[i] \in 1..lastId
    /\ served[i] > 0 /\ i \in table => Overtaken(i)

CutoffInv == cleaning => cutoff + Retention <= clock

BufferInv ==
    /\ TypeOK
    /\ AccountedFor
    /\ ServedOnceUnlessOvertaken
    /\ \A f \in Fetches : TransactionInv(f)
    /\ \A i \in Items : RowInv(i)
    /\ CutoffInv

\* What a read that was cut short can cost: everything up to maxId if the transaction was
\* rolled back under it, and otherwise the rows with smaller ids and later timestamps than
\* the last row read: the two AddData calls had crossed.
TakenAlong(f, i) ==
    /\ i \in Deleted(f)
    /\ \/ read[f] = "aborted"
       \/ /\ read[f] = "short"
          /\ \E last \in seen[f] : IsLast(last, seen[f]) /\ stamp[last] < stamp[i]

\* A row leaves the table when a Fetch returns it, or the cleanup finds it older than the
\* retention window, or a Fetch whose read was cut short takes it along (lines 97-113,
\* 138-139).
RemovedForAReason ==
    [][\A i \in table \ table' :
           \/ served'[i] > served[i]
           \/ stamp[i] + Retention < clock
           \/ \E f \in Fetches : fetch'[f] # fetch[f] /\ TakenAlong(f, i)]_vars

\* A transaction that spans a query, a delete and a commit is as good as an atomic
\* fetch (lines 84-118), unless its own read was cut short.
Store == INSTANCE TelemetryStore
             WITH added <- {i \in Items : add[i] = "stored"},
                  held <- table,
                  expired <- pruned,
                  failing <- {f \in Fetches : read[f] \in {"short", "aborted"}}

TelemetryStoreRefined == Store!Spec

\* An expired row does not stay: locks and failures only delay the cleanup (129-150).
ExpiredRowsGo ==
    \A i \in Items :
        i \in table /\ stamp[i] + Retention < clock ~> i \notin table \/ ~open

\* Every request is answered or broken off: no lock is waited for without end.
FetchEnds ==
    \A f \in Fetches : fetch[f] = "queried" ~> fetch[f] \in {"done", "lost", "failed"}

----------------------------------------------------------------------------------
\* sqlite_buffer.go 114: the statement that fails there is to "delete fetched rows".
FetchedRowsAreDeleted == \A i \in Items : served[i] <= 1
==================================================================================
