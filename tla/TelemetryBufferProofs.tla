------------------------- MODULE TelemetryBufferProofs --------------------------
(***************************************************************************)
(* Theorems about TelemetryBuffer for any number of insertions, fetches    *)
(* and restarts and any retention window.  The argument is the invariant   *)
(* BufferInv of TelemetryBuffer; each of its parts is preserved by every   *)
(* step (one lemma per part), and the properties follow from it.           *)
(***************************************************************************)
EXTENDS TelemetryBuffer, WellFoundedInduction, TLAPS

USE BufferAssumption

---------------------------------------------------------------------------------
(* The last row of a query exists, so a committed fetch deletes something.        *)

\* A bounded set of numbers has a greatest element: the last timestamp of a query, and
\* the greatest id at that timestamp.
LEMMA Greatest ==
  ASSUME NEW S, S \subseteq Nat, S # {}, NEW bound \in Nat, \A n \in S : n <= bound
  PROVE  \E m \in S : \A n \in S : n <= m
<1> DEFINE Gaps == {bound - n : n \in S}
<1>1. Gaps \subseteq Nat /\ Gaps # {}
  <2>1. \A n \in S : bound - n \in Nat
    OBVIOUS
  <2> QED
    BY <2>1
<1>2. PICK g \in Gaps : \A h \in Gaps : ~(<<h, g>> \in OpToRel(<, Nat))
  BY <1>1, WFMin, NatLessThanWellFounded
<1>3. \A h \in Gaps : g <= h
  <2>1. ASSUME NEW h \in Gaps PROVE ~(h < g)
    BY <1>1, <1>2 DEF OpToRel
  <2> QED
    BY <1>1, <2>1, g \in Nat, \A h \in Nat : ~(h < g) => g <= h
<1>4. PICK m \in S : g = bound - m
  OBVIOUS
<1>5. ASSUME NEW n \in S PROVE n <= m
  <2>1. bound - m <= bound - n
    BY <1>3, <1>4
  <2>2. n \in Nat /\ m \in Nat
    BY S \subseteq Nat
  <2>3. bound \in Nat
    OBVIOUS
  <2> QED
    BY ONLY <2>1, <2>2, <2>3
<1> QED
  BY <1>5

\* ids[len(ids)-1] (line 112) is the id of a row of the query.
LEMMA LastExists ==
  ASSUME TypeOK, NEW rows, rows \subseteq Items, rows # {},
         \A i \in rows : rowId[i] <= lastId
  PROVE  \E last \in rows : IsLast(last, rows)
<1>1. PICK s \in {stamp[i] : i \in rows} : \A t \in {stamp[i] : i \in rows} : t <= s
  <2>1. /\ {stamp[i] : i \in rows} \subseteq Nat
        /\ \A t \in {stamp[i] : i \in rows} : t <= MaxTime
        /\ {stamp[i] : i \in rows} # {}
    BY DEF TypeOK
  <2> QED
    BY <2>1, Greatest
<1> DEFINE latest == {i \in rows : stamp[i] = s}
<1>2. PICK r \in {rowId[i] : i \in latest} : \A q \in {rowId[i] : i \in latest} : q <= r
  <2>1. /\ {rowId[i] : i \in latest} \subseteq Nat
        /\ \A q \in {rowId[i] : i \in latest} : q <= lastId
        /\ {rowId[i] : i \in latest} # {}
    BY DEF TypeOK
  <2> QED
    BY <2>1, Greatest DEF TypeOK
<1>3. PICK last \in latest : r = rowId[last]
  OBVIOUS
<1>4. ASSUME NEW j \in rows
      PROVE  stamp[j] < stamp[last] \/ (stamp[j] = stamp[last] /\ rowId[j] <= rowId[last])
  <2>1. stamp[j] <= s /\ stamp[last] = s /\ stamp[j] \in Nat /\ s \in Nat
    BY <1>1, <1>3 DEF TypeOK
  <2>2. stamp[j] = s => rowId[j] <= rowId[last]
    BY <1>2, <1>3
  <2> QED
    BY <2>1, <2>2
<1> QED
  BY <1>3, <1>4 DEF IsLast

---------------------------------------------------------------------------------
(* One lemma per part of BufferInv.                                               *)

\* Every variable keeps its type through the calls, failures and crashes of the buffer.
LEMMA TypeStep ==
  ASSUME BufferInv, [Next]_vars
  PROVE  TypeOK'
<1> USE DEF BufferInv, TypeOK, InTransaction
<1>1. ASSUME NEW i \in Items, AddStep(i) PROVE TypeOK'
  BY <1>1 DEF AddStep, Stamp, Insert, AddFails, fetching, reading, cleanup, process, history
<1>2. ASSUME NEW f \in Fetches, Query(f) PROVE TypeOK'
  <2>1. /\ read' \in [Fetches -> {"none", "whole", "short", "aborted"}]
        /\ seen' \in [Fetches -> SUBSET Items]
    BY <1>2 DEF Query, Beginnings
  <2> QED
    BY <1>2, <2>1 DEF Query, insertion, cleanup, process, history
<1>3. ASSUME NEW f \in Fetches, Refuse(f) \/ Delete(f) \/ Conflict(f) PROVE TypeOK'
  BY <1>3 DEF Refuse, Delete, Conflict, End, insertion, reading, cleanup, process, history
<1>4. ASSUME NEW f \in Fetches, Commit(f) PROVE TypeOK'
  BY <1>4 DEF Commit, End, Serve, Deleted, insertion, cleanup, process
<1>5. ASSUME NEW f \in Fetches, CommitEmpty(f) \/ CommitFails(f) \/ Erase(f) \/ Respond(f)
      PROVE  TypeOK'
  BY <1>5 DEF CommitEmpty, CommitFails, Erase, End, Deleted, Respond, insertion, reading,
              cleanup, process, history
<1>6. ASSUME Cleanup PROVE TypeOK'
  <2>1. cleaning' \in BOOLEAN /\ cutoff' \in (0 - Retention)..MaxTime
    <3>1. clock \in 0..MaxTime /\ cleaning \in BOOLEAN
      OBVIOUS
    <3>2. 0 \in (0 - Retention)..MaxTime /\ clock - Retention \in (0 - Retention)..MaxTime
      BY ONLY <3>1, BufferAssumption
    <3>3. cleaning' \in BOOLEAN /\ cutoff' \in {0, clock - Retention}
      BY <1>6 DEF Cleanup, CleanupTick, Prune, PruneFails
    <3> QED
      BY ONLY <3>2, <3>3
  <2> QED
    BY <1>6, <2>1 DEF Cleanup, CleanupTick, Prune, PruneFails, Expired, insertion, fetching,
                      reading, process, history
<1>7. ASSUME Tick \/ Close PROVE TypeOK'
  <2>1. clock' \in 0..MaxTime
    <3>1. clock \in 0..MaxTime
      OBVIOUS
    <3>2. clock' = clock \/ (clock < MaxTime /\ clock' = clock + 1)
      BY <1>7 DEF Tick, Close
    <3> QED
      BY ONLY <3>1, <3>2, BufferAssumption
  <2> QED
    BY <1>7, <2>1 DEF Tick, Close, insertion, fetching, reading, cleanup, process, history
<1>8. ASSUME Restart PROVE TypeOK'
  <2>1. /\ add' \in [Items -> {"new", "stamped", "stored", "failed"}]
        /\ restarts' \in 0..MaxRestarts
    BY <1>8 DEF Restart
  <2>2. fetch' \in [Fetches -> InTransaction \cup {"new", "responding", "done", "lost", "failed"}]
    BY <1>8 DEF Restart
  <2>3. /\ read' \in [Fetches -> {"none", "whole", "short", "aborted"}]
        /\ seen' \in [Fetches -> SUBSET Items]
    BY <1>8 DEF Restart
  <2>4. cutoff' \in (0 - Retention)..MaxTime
    BY <1>8, BufferAssumption DEF Restart
  <2> QED
    BY <1>8, <2>1, <2>2, <2>3, <2>4 DEF Restart, history
<1>9. CASE UNCHANGED vars
  BY <1>9 DEF vars, insertion, fetching, reading, cleanup, process, history
<1> QED
  BY <1>1, <1>2, <1>3, <1>4, <1>5, <1>6, <1>7, <1>8, <1>9 DEF Next, FetchStep

\* What a commit can rely on: its query has returned the table or the beginning of it.
LEMMA CommitFacts ==
  ASSUME BufferInv, NEW f \in Fetches, Commit(f)
  PROVE  /\ seen[f] \subseteq table
         /\ seen[f] # {}
         /\ read[f] \in {"whole", "short"}
         /\ read[f] = "whole" => seen[f] = table
         /\ \A i \in seen[f], j \in table \ seen[f] : Before(i, j)
         /\ \A i \in seen[f] : served'[i] = served[i] + 1
         /\ \A i \in Items \ seen[f] : served'[i] = served[i]
<1>1. /\ fetch[f] = "deleted"
      /\ served' = [i \in Items |-> IF i \in seen[f] THEN served[i] + 1 ELSE served[i]]
      /\ seen[f] \subseteq Items
  BY DEF BufferInv, TypeOK, Commit, Serve
<1>2. TransactionInv(f)
  BY DEF BufferInv
<1> QED
  BY <1>1, <1>2 DEF TransactionInv

\* No row is lost: it leaves the table by a commit that serves it, by the cleanup, or by
\* the statement of a fetch whose read was cut short.
LEMMA AccountedStep ==
  ASSUME BufferInv, [Next]_vars
  PROVE  AccountedFor'
<1> USE DEF BufferInv, TypeOK, AccountedFor
<1>1. ASSUME NEW i \in Items, AddStep(i) PROVE AccountedFor'
  BY <1>1 DEF AddStep, Stamp, Insert, AddFails, history
<1>2. ASSUME NEW f \in Fetches, Commit(f) PROVE AccountedFor'
  <2>1. /\ UNCHANGED <<add, pruned>>
        /\ table' = table \ Deleted(f)
        /\ lost' = IF read[f] = "short" THEN lost \cup (Deleted(f) \ seen[f]) ELSE lost
        /\ Deleted(f) \subseteq table
    BY <1>2 DEF Commit, insertion, Deleted
  <2>2. /\ \A i \in seen[f] : served'[i] > 0
        /\ \A i \in Items \ seen[f] : served'[i] = served[i]
        /\ seen[f] \subseteq table
    <3>1. \A i \in Items : served[i] + 1 > 0
      OBVIOUS
    <3> QED
      BY <1>2, <3>1, CommitFacts
  <2>3. read[f] = "short" \/ Deleted(f) \subseteq seen[f]
    BY <1>2, <2>1, CommitFacts
  <2>4. \A i \in Items : (add'[i] = "stored") <=> (add[i] = "stored")
    BY <2>1
  <2> QED
    BY <2>1, <2>2, <2>3, <2>4
<1>3. ASSUME NEW f \in Fetches, Erase(f) PROVE AccountedFor'
  <2>1. /\ UNCHANGED <<add, served, pruned>>
        /\ table' = table \ Deleted(f)
        /\ lost' = lost \cup Deleted(f)
        /\ Deleted(f) \subseteq table
    BY <1>3 DEF Erase, insertion, Deleted
  <2> QED
    BY <2>1
<1>4. ASSUME UNCHANGED <<add, table, served, pruned, lost>> PROVE AccountedFor'
  BY <1>4
<1>5. ASSUME NEW f \in Fetches,
             \/ Query(f) \/ Refuse(f) \/ Delete(f) \/ Conflict(f)
             \/ CommitEmpty(f) \/ CommitFails(f) \/ Respond(f)
      PROVE  UNCHANGED <<add, table, served, pruned, lost>>
  BY <1>5 DEF Query, Refuse, Delete, Conflict, CommitEmpty, CommitFails, Respond,
              insertion, history
<1>6. ASSUME Cleanup PROVE AccountedFor'
  BY <1>6 DEF Cleanup, CleanupTick, Prune, PruneFails, Expired, insertion, history
<1>7. ASSUME Tick \/ Close \/ Restart PROVE AccountedFor'
  BY <1>7 DEF Tick, Close, Restart, insertion, history
<1>8. CASE UNCHANGED vars
  BY <1>8 DEF vars, insertion, history
<1> QED
  BY <1>1, <1>2, <1>3, <1>4, <1>5, <1>6, <1>7, <1>8 DEF Next, FetchStep

\* The order of the rows in the table does not change: time stamps and ids stay.
LEMMA OrderStable ==
  ASSUME BufferInv, [Next]_vars, NEW i \in table
  PROVE  stamp'[i] = stamp[i] /\ rowId'[i] = rowId[i]
<1> USE DEF BufferInv, TypeOK, AccountedFor
<1>1. add[i] = "stored"
  OBVIOUS
<1>2. ASSUME NEW k \in Items, AddStep(k) PROVE stamp'[i] = stamp[i] /\ rowId'[i] = rowId[i]
  BY <1>1, <1>2 DEF AddStep, Stamp, Insert, AddFails
<1>3. ASSUME Restart \/ UNCHANGED insertion
      PROVE  stamp'[i] = stamp[i] /\ rowId'[i] = rowId[i]
  BY <1>3 DEF Restart, insertion
<1>4. (\E f \in Fetches : FetchStep(f)) \/ Cleanup \/ Tick \/ Close \/ UNCHANGED vars
         => UNCHANGED insertion
  BY DEF FetchStep, Query, Refuse, Delete, Conflict, Commit, CommitEmpty, CommitFails, Erase,
         Respond, Cleanup, CleanupTick, Prune, PruneFails, Tick, Close, vars
<1> QED
  BY <1>2, <1>3, <1>4 DEF Next

\* SQLite's lock and snapshot rules keep a transaction that writes up to date.
LEMMA TransactionStep ==
  ASSUME BufferInv, [Next]_vars
  PROVE  \A f \in Fetches : TransactionInv(f)'
<1> USE DEF InTransaction
<1>0. TypeOK /\ \A g \in Fetches : TransactionInv(g)
  BY DEF BufferInv
<1>1. ASSUME NEW g \in Fetches, UNCHANGED <<fetch[g], read[g], seen[g], table>>,
             (g \in stale) => (g \in stale'),
             fetch[g] = "deleted" => writer' = g /\ g \notin stale'
      PROVE  TransactionInv(g)'
  <2>1. TransactionInv(g)
    BY <1>0
  <2>2. \A i \in seen[g], j \in table \ seen[g] :
           seen[g] \subseteq table /\ Before(i, j) => Before(i, j)'
    <3>1. \A i \in table : stamp'[i] = stamp[i] /\ rowId'[i] = rowId[i]
      BY OrderStable
    <3> QED
      BY <3>1 DEF Before
  <2> QED
    BY <1>1, <2>1, <2>2 DEF TransactionInv
<1>2. ASSUME NEW g \in Fetches, UNCHANGED <<fetch[g], read[g], seen[g]>>,
             stale' = Fetches, fetch[g] # "deleted"
      PROVE  TransactionInv(g)'
  BY <1>0, <1>2 DEF TransactionInv
<1>3. ASSUME NEW g \in Fetches, fetch'[g] \notin InTransaction, read'[g] = "none"
      PROVE  TransactionInv(g)'
  BY <1>3 DEF TransactionInv
<1>4. \A g \in Fetches : fetch[g] = "deleted" => writer = g /\ g \notin stale
  BY <1>0 DEF TransactionInv
<1>5. ASSUME NEW i \in Items, AddStep(i) PROVE \A g \in Fetches : TransactionInv(g)'
  <2>1. CASE Insert(i)
    <3>1. \A g \in Fetches : fetch[g] # "deleted"
      BY <1>4, <2>1, BufferAssumption DEF Insert
    <3> QED
      BY <1>2, <2>1, <3>1 DEF Insert, fetching, reading
  <2>2. CASE Stamp(i) \/ AddFails(i)
    BY <1>1, <1>4, <2>2 DEF Stamp, AddFails, fetching, reading
  <2> QED
    BY <1>5, <2>1, <2>2 DEF AddStep
<1>6. ASSUME NEW f \in Fetches, Query(f) PROVE \A g \in Fetches : TransactionInv(g)'
  <2>1. TransactionInv(f)'
    <3>1. /\ fetch'[f] = "queried" /\ UNCHANGED <<table, stamp, rowId>>
          /\ \/ read'[f] = "whole" /\ seen'[f] = table
             \/ read'[f] \in {"short", "aborted"} /\ seen'[f] \in Beginnings
      BY <1>0, <1>6 DEF Query, TypeOK, insertion
    <3> QED
      BY <3>1 DEF TransactionInv, Beginnings, Before
  <2>2. ASSUME NEW g \in Fetches, g # f PROVE TransactionInv(g)'
    <3>1. /\ UNCHANGED <<fetch[g], read[g], seen[g], table, writer>>
          /\ (g \in stale) <=> (g \in stale')
      BY <1>0, <1>6, <2>2 DEF Query, TypeOK
    <3> QED
      BY <1>1, <1>4, <3>1
  <2> QED
    BY <2>1, <2>2
<1>7. ASSUME NEW f \in Fetches, Refuse(f) \/ Delete(f) \/ Respond(f)
      PROVE  \A g \in Fetches : TransactionInv(g)'
  <2>1. TransactionInv(f)'
    <3>1. CASE Refuse(f) \/ Respond(f)
      BY <1>0, <1>3, <3>1 DEF Refuse, Respond, TypeOK, TransactionInv, reading
    <3>2. CASE Delete(f)
      <4>1. /\ fetch[f] = "queried" /\ fetch'[f] = "deleted" /\ writer' = f
            /\ seen[f] # {} /\ read[f] # "aborted" /\ f \notin stale
            /\ UNCHANGED <<read, seen, table, stale, stamp, rowId>>
        BY <1>0, <3>2 DEF Delete, TypeOK, reading, insertion
      <4>2. read[f] \in {"none", "whole", "short", "aborted"}
        BY <1>0 DEF TypeOK
      <4> QED
        BY <1>0, <4>1, <4>2 DEF TransactionInv, Before
    <3> QED
      BY <1>7, <3>1, <3>2
  <2>2. ASSUME NEW g \in Fetches, g # f PROVE TransactionInv(g)'
    <3>1. UNCHANGED <<fetch[g], read[g], seen[g], table, stale>>
      BY <1>0, <1>7, <2>2 DEF Refuse, Delete, Respond, TypeOK, reading
    <3>2. fetch[g] = "deleted" => writer' = g
      BY <1>4, <1>7, BufferAssumption DEF Refuse, Delete, Respond
    <3> QED
      BY <1>1, <1>4, <3>1, <3>2
  <2> QED
    BY <2>1, <2>2
<1>8. ASSUME NEW f \in Fetches,
             \/ Conflict(f) \/ Commit(f) \/ CommitEmpty(f) \/ CommitFails(f) \/ Erase(f)
      PROVE  \A g \in Fetches : TransactionInv(g)'
  <2>1. /\ fetch'[f] \in {"failed", "responding"} /\ read'[f] = "none"
        /\ \A g \in Fetches : g # f => UNCHANGED <<fetch[g], read[g], seen[g]>>
    BY <1>0, <1>8 DEF Conflict, Commit, CommitEmpty, CommitFails, Erase, End, TypeOK
  <2>2. ASSUME NEW g \in Fetches, g # f PROVE TransactionInv(g)'
    <3>1. CASE Conflict(f) \/ CommitEmpty(f)
      BY <1>1, <1>4, <2>1, <2>2, <3>1 DEF Conflict, CommitEmpty
    <3>2. CASE CommitFails(f)
      <4>1. fetch[g] # "deleted" /\ UNCHANGED <<table, stale>>
        BY <1>4, <2>2, <3>2 DEF CommitFails
      <4> QED
        BY <1>1, <2>1, <2>2, <4>1
    <3>3. CASE Commit(f)
      <4>1. fetch[g] # "deleted" /\ stale' = Fetches
        BY <1>4, <2>2, <3>3 DEF Commit
      <4> QED
        BY <1>2, <2>1, <2>2, <4>1
    <3>4. CASE Erase(f)
      <4>1. fetch[g] # "deleted"
        BY <1>4, <3>4, BufferAssumption DEF Erase
      <4>2. stale' = Fetches \/ UNCHANGED <<table, stale>>
        BY <3>4 DEF Erase
      <4> QED
        BY <1>1, <1>2, <2>1, <2>2, <4>1, <4>2
    <3> QED
      BY <1>8, <3>1, <3>2, <3>3, <3>4
  <2> QED
    BY <1>3, <2>1, <2>2
<1>9. ASSUME Cleanup PROVE \A g \in Fetches : TransactionInv(g)'
  <2>1. UNCHANGED <<fetch, read, seen, writer>>
    BY <1>9 DEF Cleanup, CleanupTick, Prune, PruneFails, fetching, reading
  <2>2. \/ UNCHANGED <<table, stale>>
        \/ stale' = Fetches /\ \A g \in Fetches : fetch[g] # "deleted"
    <3>1. CASE Prune
      BY <1>4, <3>1, BufferAssumption DEF Prune
    <3> QED
      BY <1>9, <3>1 DEF Cleanup, CleanupTick, PruneFails
  <2> QED
    BY <1>1, <1>2, <1>4, <2>1, <2>2
<1>10. ASSUME Restart PROVE \A g \in Fetches : TransactionInv(g)'
  <2>1. ASSUME NEW g \in Fetches PROVE fetch'[g] \notin InTransaction /\ read'[g] = "none"
    BY <1>0, <1>10, <2>1 DEF Restart, TransactionInv
  <2> QED
    BY <1>3, <2>1
<1>11. ASSUME Tick \/ Close \/ UNCHANGED vars PROVE \A g \in Fetches : TransactionInv(g)'
  BY <1>1, <1>4, <1>11 DEF Tick, Close, vars, fetching, reading
<1> QED
  BY <1>5, <1>6, <1>7, <1>8, <1>9, <1>10, <1>11 DEF Next, FetchStep

\* Once two insertions have crossed they have crossed for good.
LEMMA OvertakenStable ==
  ASSUME BufferInv, [Next]_vars, NEW i \in Items, Overtaken(i)
  PROVE  Overtaken(i)'
<1> SUFFICES ASSUME NEW j \in Items, add[j] = "stored"
             PROVE  add'[j] = "stored" /\ rowId'[j] = rowId[j] /\ stamp'[j] = stamp[j]
  BY DEF Overtaken
<1> USE DEF BufferInv, TypeOK
<1>1. ASSUME NEW k \in Items, AddStep(k)
      PROVE  add'[j] = "stored" /\ rowId'[j] = rowId[j] /\ stamp'[j] = stamp[j]
  BY <1>1 DEF AddStep, Stamp, Insert, AddFails
<1>2. ASSUME Restart
      PROVE  add'[j] = "stored" /\ rowId'[j] = rowId[j] /\ stamp'[j] = stamp[j]
  BY <1>2 DEF Restart
<1>3. ASSUME UNCHANGED insertion
      PROVE  add'[j] = "stored" /\ rowId'[j] = rowId[j] /\ stamp'[j] = stamp[j]
  BY <1>3 DEF insertion
<1>4. (\E f \in Fetches : FetchStep(f)) \/ Cleanup \/ Tick \/ Close \/ UNCHANGED vars
         => UNCHANGED insertion
  BY DEF FetchStep, Query, Refuse, Delete, Conflict, Commit, CommitEmpty, CommitFails, Erase,
         Respond, Cleanup, CleanupTick, Prune, PruneFails, Tick, Close, vars
<1> QED
  BY <1>1, <1>2, <1>3, <1>4 DEF Next

\* A row that a committed fetch returned and did not delete was overtaken: its id is
\* greater than that of the last row, so its timestamp is smaller (lines 111-113).
LEMMA SparedIsOvertaken ==
  ASSUME BufferInv, NEW f \in Fetches, Commit(f), NEW i \in seen[f], i \in table'
  PROVE  Overtaken(i)
<1> USE DEF BufferInv, TypeOK
<1>1. i \in table /\ i \notin Deleted(f) /\ seen[f] \subseteq table /\ seen[f] \subseteq Items
  BY CommitFacts DEF Commit
<1>2. \A j \in table : add[j] = "stored" /\ rowId[j] <= lastId /\ rowId[j] \in Nat /\ stamp[j] \in Nat
  BY DEF AccountedFor, RowInv
<1>3. PICK last \in seen[f] : IsLast(last, seen[f])
  BY <1>1, <1>2, LastExists
<1>4. ~(rowId[i] <= rowId[last])
  BY <1>1, <1>3 DEF Deleted
<1>5. rowId[last] < rowId[i] /\ stamp[i] < stamp[last]
  BY <1>1, <1>2, <1>3, <1>4 DEF IsLast
<1> QED
  BY <1>1, <1>2, <1>5 DEF Overtaken

\* Ids are given once and grow; only crossed insertions survive the fetch that serves
\* them.
LEMMA RowStep ==
  ASSUME BufferInv, [Next]_vars, NEW i \in Items
  PROVE  RowInv(i)' /\ (served'[i] > 1 => Overtaken(i)')
<1> USE DEF BufferInv, TypeOK, RowInv, ServedOnceUnlessOvertaken
<1>0. Overtaken(i) => Overtaken(i)'
  BY OvertakenStable
<1>1. ASSUME NEW k \in Items, AddStep(k)
      PROVE  RowInv(i)' /\ (served'[i] > 1 => Overtaken(i)')
  <2>1. UNCHANGED served /\ (add'[i] = "stored" => rowId'[i] \in 1..lastId')
    BY <1>1 DEF AddStep, Stamp, Insert, AddFails, history
  <2>2. served[i] > 0 /\ i \in table' => i \in table
    BY <1>1 DEF AddStep, Stamp, Insert, AddFails, AccountedFor
  <2> QED
    BY <1>0, <2>1, <2>2
<1>2. ASSUME NEW f \in Fetches, Commit(f)
      PROVE  RowInv(i)' /\ (served'[i] > 1 => Overtaken(i)')
  <2>1. UNCHANGED insertion /\ table' \subseteq table
    BY <1>2 DEF Commit
  <2>2. i \in seen[f] /\ i \in table' => Overtaken(i)
    BY <1>2, SparedIsOvertaken
  <2>3. served'[i] > 1 => Overtaken(i)
    BY <1>2, CommitFacts
  <2>4. i \notin seen[f] => served'[i] = served[i]
    BY <1>2, CommitFacts
  <2> QED
    BY <1>0, <2>1, <2>2, <2>3, <2>4 DEF insertion
<1>3. ASSUME Restart
      PROVE  RowInv(i)' /\ (served'[i] > 1 => Overtaken(i)')
  BY <1>0, <1>3 DEF Restart, history
<1>4. ASSUME UNCHANGED insertion, UNCHANGED served, table' \subseteq table
      PROVE  RowInv(i)' /\ (served'[i] > 1 => Overtaken(i)')
  BY <1>0, <1>4 DEF insertion
<1>5. Cleanup \/ Tick \/ Close \/ UNCHANGED vars
         => UNCHANGED insertion /\ UNCHANGED served /\ table' \subseteq table
  BY DEF Cleanup, CleanupTick, Prune, PruneFails, Tick, Close, vars, history
<1>6. ASSUME NEW f \in Fetches,
             \/ Query(f) \/ Refuse(f) \/ Delete(f) \/ Conflict(f)
             \/ CommitEmpty(f) \/ CommitFails(f) \/ Erase(f) \/ Respond(f)
      PROVE  UNCHANGED insertion /\ UNCHANGED served /\ table' \subseteq table
  BY <1>6 DEF Query, Refuse, Delete, Conflict, CommitEmpty, CommitFails, Erase, Respond, history
<1> QED
  BY <1>1, <1>2, <1>3, <1>4, <1>5, <1>6 DEF Next, FetchStep

\* The cutoff lies a whole retention window back when the DELETE runs (lines 138-139).
LEMMA CutoffStep ==
  ASSUME BufferInv, [Next]_vars
  PROVE  CutoffInv'
<1> USE DEF BufferInv, TypeOK, CutoffInv
<1>1. ASSUME UNCHANGED cleanup, clock' \in {clock, clock + 1} PROVE CutoffInv'
  BY <1>1, BufferAssumption DEF cleanup
<1>2. ASSUME Cleanup \/ Restart PROVE CutoffInv'
  BY <1>2, BufferAssumption DEF Cleanup, CleanupTick, Prune, PruneFails, Restart
<1>3. (\E i \in Items : AddStep(i)) \/ Tick \/ Close \/ UNCHANGED vars
         => UNCHANGED cleanup /\ clock' \in {clock, clock + 1}
  BY DEF AddStep, Stamp, Insert, AddFails, Tick, Close, vars
<1>4. (\E f \in Fetches : FetchStep(f)) => UNCHANGED cleanup /\ clock' \in {clock, clock + 1}
  BY DEF FetchStep, Query, Refuse, Delete, Conflict, Commit, CommitEmpty, CommitFails, Erase,
         Respond
<1> QED
  BY <1>1, <1>2, <1>3, <1>4 DEF Next

\* The buffer starts in the invariant.
LEMMA BufferInvInit == Init => BufferInv
<1> SUFFICES ASSUME Init PROVE BufferInv
  OBVIOUS
<1>1. TypeOK
  <2>1. 0 \in (0 - Retention)..MaxTime /\ 0 \in 0..MaxTime /\ 0 \in 0..MaxRestarts
    BY ONLY BufferAssumption
  <2> QED
    BY <2>1 DEF Init, TypeOK
<1>2. AccountedFor /\ ServedOnceUnlessOvertaken /\ CutoffInv
  BY DEF Init, AccountedFor, ServedOnceUnlessOvertaken, CutoffInv
<1>3. (\A f \in Fetches : TransactionInv(f)) /\ (\A i \in Items : RowInv(i))
  BY DEF Init, TransactionInv, RowInv, InTransaction
<1> QED
  BY <1>1, <1>2, <1>3 DEF BufferInv

\* Every step of AddData, Fetch, the cleanup, Close or a restart keeps the invariant.
LEMMA BufferInvStep == BufferInv /\ [Next]_vars => BufferInv'
<1> SUFFICES ASSUME BufferInv, [Next]_vars PROVE BufferInv'
  OBVIOUS
<1>1. ServedOnceUnlessOvertaken' /\ \A i \in Items : RowInv(i)'
  BY RowStep DEF ServedOnceUnlessOvertaken
<1> QED
  BY <1>1, TypeStep, AccountedStep, TransactionStep, CutoffStep DEF BufferInv

---------------------------------------------------------------------------------
(* Theorems.                                                                      *)

\* The invariant holds of every execution of the buffer.
THEOREM BufferInvariance == Spec => []BufferInv
  BY BufferInvInit, BufferInvStep, PTL DEF Spec

\* Every variable of the buffer keeps its type.
THEOREM BufferTypeCorrect == Spec => []TypeOK
<1>1. BufferInv => TypeOK
  BY DEF BufferInv
<1> QED
  BY <1>1, BufferInvariance, PTL

\* Telemetry AddData has stored is held, was served, has expired, or was lost to a read that
\* SQLite cut short (lines 60-147).
THEOREM NothingIsLost == Spec => []AccountedFor
<1>1. BufferInv => AccountedFor
  BY DEF BufferInv
<1> QED
  BY <1>1, BufferInvariance, PTL

\* A row is served twice only if its insertion was overtaken (lines 111-113).
THEOREM ServedOnce == Spec => []ServedOnceUnlessOvertaken
<1>1. BufferInv => ServedOnceUnlessOvertaken
  BY DEF BufferInv
<1> QED
  BY <1>1, BufferInvariance, PTL

\* A row leaves the table served or expired, or with a fetch whose read was cut short, in
\* every step of Fetch and the cleanup.
THEOREM NothingIsRemovedEarly == Spec => RemovedForAReason
<1> DEFINE Reason(i) == \/ served'[i] > served[i]
                        \/ stamp[i] + Retention < clock
                        \/ \E f \in Fetches : fetch'[f] # fetch[f] /\ TakenAlong(f, i)
           Step == \A i \in table \ table' : Reason(i)
<1>1. ASSUME BufferInv, [Next]_vars PROVE [Step]_vars
  <2>1. ASSUME NEW f \in Fetches, Commit(f), NEW i \in table \ table' PROVE Reason(i)
    <3>1. i \in Deleted(f) /\ fetch'[f] # fetch[f]
      BY <1>1, <2>1 DEF Commit, End, BufferInv, TypeOK
    <3>2. CASE i \in seen[f]
      BY <1>1, <2>1, <3>2, CommitFacts DEF BufferInv, TypeOK
    <3>3. CASE i \notin seen[f]
      <4>1. read[f] = "short"
        BY <1>1, <2>1, <3>3, CommitFacts
      <4>2. PICK last \in seen[f] : IsLast(last, seen[f]) /\ rowId[i] <= rowId[last]
        BY <3>1 DEF Deleted
      <4>3. Before(last, i) /\ i \in Items /\ last \in Items
        BY <1>1, <2>1, <3>3, CommitFacts DEF BufferInv, TypeOK
      <4>4. rowId[i] \in Nat /\ rowId[last] \in Nat
        BY <1>1, <4>3 DEF BufferInv, TypeOK
      <4>5. stamp[last] < stamp[i]
        BY <4>2, <4>3, <4>4 DEF Before
      <4> QED
        BY <3>1, <4>1, <4>2, <4>5 DEF TakenAlong
    <3> QED
      BY <3>2, <3>3
  <2>2. ASSUME NEW f \in Fetches, Erase(f), NEW i \in table \ table' PROVE Reason(i)
    BY <1>1, <2>2 DEF Erase, End, TakenAlong, BufferInv, TypeOK
  <2>3. ASSUME Prune PROVE Step
    <3>1. ASSUME NEW i \in table \ table' PROVE stamp[i] + Retention < clock
      <4>1. stamp[i] < cutoff /\ cutoff + Retention <= clock /\ i \in Items
        BY <1>1, <2>3, <3>1 DEF Prune, Expired, BufferInv, TypeOK, CutoffInv
      <4>2. stamp[i] \in Int /\ cutoff \in Int /\ clock \in Int /\ Retention \in Int
        BY <1>1, <4>1, BufferAssumption DEF BufferInv, TypeOK
      <4> QED
        BY ONLY <4>1, <4>2
    <3> QED
      BY <3>1
  <2>4. ASSUME table \subseteq table' PROVE Step
    BY <2>4
  <2>5. (\E i \in Items : AddStep(i)) \/ CleanupTick \/ PruneFails \/ Tick \/ Close \/ Restart
           => table \subseteq table'
    BY DEF AddStep, Stamp, Insert, AddFails, CleanupTick, PruneFails, Tick, Close, Restart
  <2>6. ASSUME NEW f \in Fetches,
               \/ Query(f) \/ Refuse(f) \/ Delete(f) \/ Conflict(f)
               \/ CommitEmpty(f) \/ CommitFails(f) \/ Respond(f)
        PROVE  table \subseteq table'
    BY <2>6 DEF Query, Refuse, Delete, Conflict, CommitEmpty, CommitFails, Respond
  <2>7. (\E f \in Fetches : Commit(f) \/ Erase(f)) => Step
    BY <2>1, <2>2
  <2> HIDE DEF Step
  <2> QED
    BY <1>1, <2>3, <2>4, <2>5, <2>6, <2>7 DEF Next, FetchStep, Cleanup
<1> HIDE DEF Step
<1>2. Spec => [][Step]_vars
  BY <1>1, BufferInvariance, PTL DEF Spec
<1> QED
  BY <1>2 DEF Step, RemovedForAReason

---------------------------------------------------------------------------------
(* The transactions implement the atomic fetch of TelemetryStore.                 *)

\* The empty buffer is the empty store.
LEMMA StoreInit == Init => Store!Init
  BY DEF Init, Store!Init

\* Insert is the store's Add, Commit its Fetch, Prune its Expire; a query that is cut short
\* is a Fault, after which Commit and Erase are its PartFetch; nothing else shows.
LEMMA StoreStep ==
  ASSUME BufferInv, BufferInv', [Next]_vars
  PROVE  [Store!Next]_(Store!vars)
<1> DEFINE added == {i \in Items : add[i] = "stored"}
           failing == {f \in Fetches : read[f] \in {"short", "aborted"}}
<1> USE DEF BufferInv, TypeOK
<1>1. ASSUME added' = added, UNCHANGED <<table, served, pruned>>, failing' \subseteq failing
      PROVE  Store!GiveUp
  BY <1>1 DEF Store!GiveUp
<1>2. ASSUME NEW i \in Items, AddStep(i) PROVE [Store!Next]_(Store!vars)
  <2>1. failing' = failing /\ UNCHANGED <<served, pruned>>
    BY <1>2 DEF AddStep, Stamp, Insert, AddFails, fetching, reading, history
  <2>2. CASE Stamp(i) \/ AddFails(i)
    <3>1. added' = added /\ UNCHANGED table
      BY <2>2 DEF Stamp, AddFails
    <3> QED
      BY <1>1, <2>1, <3>1 DEF Store!Next
  <2>3. CASE Insert(i)
    <3>1. i \notin added /\ added' = added \cup {i} /\ table' = table \cup {i}
      BY <2>3 DEF Insert
    <3> QED
      BY <2>1, <3>1 DEF Store!Next, Store!Add
  <2> QED
    BY <1>2, <2>2, <2>3 DEF AddStep
<1>3. ASSUME NEW f \in Fetches, Query(f) PROVE Store!Next
  <2>1. added' = added /\ UNCHANGED <<table, served, pruned>>
    BY <1>3 DEF Query, insertion, history
  <2>2. read[f] = "none"
    BY <1>3 DEF Query, TransactionInv, InTransaction
  <2>3. failing' = failing \/ failing' = failing \cup {f}
    BY <1>3, <2>2 DEF Query
  <2> QED
    BY <1>1, <2>1, <2>3 DEF Store!Next, Store!Fault
<1>4. ASSUME NEW f \in Fetches, Commit(f) PROVE Store!Next
  <2>1. added' = added /\ table' \subseteq table /\ UNCHANGED pruned
    BY <1>4 DEF Commit, insertion
  <2>2. served' = [i \in Items |-> IF i \in seen[f] THEN served[i] + 1 ELSE served[i]]
    BY <1>4 DEF Commit, Serve
  <2>3. failing' = failing \ {f}
    BY <1>4 DEF Commit, End
  <2>4. CASE read[f] = "whole"
    <3>1. seen[f] = table /\ failing' = failing
      BY <1>4, <2>3, <2>4, CommitFacts
    <3>2. table' # table
      <4>1. PICK last \in seen[f] : IsLast(last, seen[f])
        <5>1. seen[f] \subseteq Items /\ seen[f] # {} /\ \A i \in seen[f] : rowId[i] <= lastId
          BY <1>4, CommitFacts DEF AccountedFor, RowInv
        <5> QED
          BY <5>1, LastExists
      <4>2. last \in Deleted(f) /\ last \in table
        BY <1>4, <4>1, CommitFacts DEF Deleted
      <4> QED
        BY <1>4, <4>2 DEF Commit
    <3> QED
      BY <2>1, <2>2, <3>1, <3>2 DEF Store!Next, Store!Fetch, Store!Return
  <2>5. CASE read[f] = "short"
    <3>1. f \in failing /\ seen[f] \in SUBSET table
      BY <1>4, <2>5, CommitFacts
    <3>2. \E part \in SUBSET table : Store!Return(part)
      BY <2>2, <3>1 DEF Store!Return
    <3> QED
      BY <2>1, <2>3, <3>1, <3>2 DEF Store!Next, Store!PartFetch
  <2> QED
    BY <1>4, <2>4, <2>5, CommitFacts
<1>5. ASSUME NEW f \in Fetches, Erase(f) PROVE Store!Next
  <2>1. /\ added' = added /\ table' \subseteq table /\ UNCHANGED <<pruned, served>>
        /\ f \in failing /\ failing' = failing \ {f}
    BY <1>5 DEF Erase, End, insertion
  <2>2. Store!Return({})
    BY <2>1 DEF Store!Return
  <2> QED
    BY <2>1, <2>2 DEF Store!Next, Store!PartFetch
<1>6. ASSUME NEW f \in Fetches,
             \/ Refuse(f) \/ Delete(f) \/ Conflict(f)
             \/ CommitEmpty(f) \/ CommitFails(f) \/ Respond(f)
      PROVE  Store!Next
  <2>1. added' = added /\ UNCHANGED <<table, served, pruned>>
    BY <1>6 DEF Refuse, Delete, Conflict, CommitEmpty, CommitFails, Respond, insertion, history
  <2>2. failing' \subseteq failing
    BY <1>6 DEF Refuse, Delete, Conflict, CommitEmpty, CommitFails, End, Respond, reading
  <2> QED
    BY <1>1, <2>1, <2>2 DEF Store!Next
<1>7. ASSUME Prune PROVE Store!Next
  <2>1. /\ added' = added /\ failing' = failing /\ UNCHANGED served
        /\ table' \subseteq table /\ pruned' = pruned \cup (table \ table')
    BY <1>7 DEF Prune, Expired, insertion, fetching, reading
  <2> QED
    BY <2>1 DEF Store!Next, Store!Expire
<1>8. ASSUME Restart PROVE Store!Next
  <2>1. added' = added /\ UNCHANGED <<table, served, pruned>>
    BY <1>8 DEF Restart, history
  <2>2. failing' \subseteq failing
    BY <1>8 DEF Restart
  <2> QED
    BY <1>1, <2>1, <2>2 DEF Store!Next
<1>9. ASSUME CleanupTick \/ PruneFails \/ Tick \/ Close \/ UNCHANGED vars
      PROVE  Store!GiveUp
  <2>1. added' = added /\ UNCHANGED <<table, served, pruned>> /\ failing' = failing
    BY <1>9 DEF CleanupTick, PruneFails, Tick, Close, vars, insertion, fetching, reading, history
  <2> QED
    BY <1>1, <2>1
<1> QED
  BY <1>2, <1>3, <1>4, <1>5, <1>6, <1>7, <1>8, <1>9 DEF Next, FetchStep, Cleanup, Store!Next

\* The SQLite buffer implements the telemetry store.
THEOREM BufferImplementsStore == Spec => TelemetryStoreRefined
  BY StoreInit, StoreStep, BufferInvariance, PTL DEF Spec, TelemetryStoreRefined, Store!Spec
=================================================================================
