-------------------------- MODULE RoutingEngineProofs ---------------------------
(***************************************************************************)
(* Theorems about RoutingEngine for any number of workers and commands,    *)
(* any queue size and any retry limit.  The argument is the invariant IInv *)
(* of RoutingEngine; each of its parts is preserved by every step (one     *)
(* lemma per part), and the properties follow from it.                     *)
(***************************************************************************)
EXTENDS RoutingEngine, FiniteSetTheorems, SequenceTheorems, TLAPS

USE ConstantsAssumption

---------------------------------------------------------------------------------
\* Every variable keeps its type in every step; what a worker holds is a command
\* whenever a step uses it.
LEMMA TypeInit == Init => TypeOK
  BY DEF Init, TypeOK, Phases, Steps, Chain, Reporting, Outcomes

\* A worker that processes a command (engine.go 110) has one.
LEMMA BusyHolds ==
  ASSUME TypeOK, NEW w \in Workers, WorkerInv(w), Busy(w)
  PROVE  held[w] \in Commands
  BY DEF TypeOK, WorkerInv

\* Leaving processCommand, by whatever return, keeps the types of the worker.
LEMMA FinishTypes ==
  ASSUME TypeOK, NEW w \in Workers, NEW how \in Outcomes, Finish(w, how)
  PROVE  /\ pc' \in [Workers -> Steps]
         /\ held' \in [Workers -> Commands \cup {NoCommand}]
         /\ outcome' \in [Commands -> Outcomes]
  BY DEF TypeOK, Finish, Goto, Steps, Outcomes

\* A copy at the hub is counted for a command.
LEMMA ArrivesTypes ==
  ASSUME TypeOK, NEW w \in Workers, held[w] \in Commands, Arrives(w)
  PROVE  received' \in [Commands -> Nat]
  BY DEF TypeOK, Arrives

\* Dispatch, the worker loop, reloads and shutdown keep every type.
LEMMA TypeStep ==
  ASSUME TypeOK, \A w \in Workers : WorkerInv(w), [Next]_vars
  PROVE  TypeOK'
<1>0. ASSUME NEW w \in Workers, Busy(w) PROVE held[w] \in Commands
  BY <1>0, BusyHolds
<1> USE DEF TypeOK, Phases, Steps, Chain, Reporting, Outcomes
<1>1. ASSUME NEW c \in Commands, Accept(c) PROVE TypeOK'
  BY <1>1, AppendProperties DEF Accept, work, loop, effects, metrics, telemetry
<1>2. ASSUME NEW c \in Commands, NEW w \in Workers, HandOff(c, w) PROVE TypeOK'
  BY <1>2 DEF HandOff, loop, effects, metrics, telemetry
<1>3. ASSUME NEW c \in Commands, Drop(c) PROVE TypeOK'
  BY <1>3 DEF Drop, work, loop, telemetry
<1>4. ASSUME NEW c \in Commands, SendOnClosed(c) PROVE TypeOK'
  BY <1>4 DEF SendOnClosed, work, loop, effects, metrics, telemetry
<1>5. ASSUME NEW w \in Workers, Receive(w) PROVE TypeOK'
  <2>1. /\ Head(queue) \in Commands
        /\ Tail(queue) \in Seq(Commands)
        /\ Len(Tail(queue)) <= QueueSize
    BY <1>5, HeadTailProperties, LenProperties DEF Receive
  <2> QED
    BY <1>5, <2>1 DEF Receive, Goto, loop, effects, metrics, telemetry
<1>6. ASSUME NEW w \in Workers, Exit(w) PROVE TypeOK'
  BY <1>6 DEF Exit, Goto, intake, loop, effects, metrics, telemetry
<1>7. ASSUME NEW w \in Workers, Reject(w) PROVE TypeOK'
  BY <1>7 DEF Reject, Finish, Goto, intake, loop, effects, metrics, telemetry
<1>8. ASSUME NEW w \in Workers, LookUp(w) PROVE TypeOK'
  BY <1>8 DEF LookUp, Goto, intake, effects, metrics, telemetry
<1>9. ASSUME NEW w \in Workers, Dial(w) PROVE TypeOK'
  BY <1>9 DEF Dial, Goto, intake, effects, metrics, telemetry
<1>10. ASSUME NEW w \in Workers, DeviceRuns(w) PROVE TypeOK'
  <2>1. held[w] \in Commands
    BY <1>0, <1>10 DEF DeviceRuns, Busy
  <2>2. runs' = [runs EXCEPT ![held[w]][payload[w]] = @ + 1]
    BY <1>10 DEF DeviceRuns
  <2>3. /\ payload[w] \in {1, 2}
        /\ runs \in [Commands -> [{1, 2} -> Nat]]
    OBVIOUS
  <2>4. runs' \in [Commands -> [{1, 2} -> Nat]]
    <3> HIDE DEF TypeOK
    <3> QED
      BY ONLY <2>1, <2>2, <2>3
  <2> QED
    BY <1>10, <2>4 DEF DeviceRuns, intake, metrics, telemetry
<1>11. ASSUME NEW w \in Workers, SendSucceeds(w) PROVE TypeOK'
  <2>1. payload' \in [Workers -> {1, 2}]
    <3>1. CASE payload[w] < Payloads(held[w])
      <4>1. payload[w] \in {1, 2} /\ Payloads(held[w]) \in {1, 2}
        BY DEF Payloads
      <4>2. payload[w] + 1 \in {1, 2}
        BY ONLY <3>1, <4>1
      <4> QED
        BY <1>11, <3>1, <4>2 DEF SendSucceeds
    <3>2. CASE ~(payload[w] < Payloads(held[w]))
      BY <1>11, <3>2 DEF SendSucceeds
    <3> QED
      BY <3>1, <3>2
  <2>2. attempt' \in [Workers -> Nat \ {0}]
    <3>1. attempt' = [attempt EXCEPT ![w] = 1] \/ attempt' = attempt
      BY <1>11 DEF SendSucceeds
    <3> QED
      BY <3>1
  <2> QED
    <3>1. pc' \in [Workers -> Steps]
      BY <1>11 DEF SendSucceeds, Goto
    <3> QED
      BY <1>11, <2>1, <2>2, <3>1 DEF SendSucceeds, intake, effects, metrics, telemetry
<1>12. ASSUME NEW w \in Workers, SendFails(w) PROVE TypeOK'
  BY <1>12 DEF SendFails, AttemptFailed, Goto, intake, loop, effects, metrics, telemetry
<1>13. ASSUME NEW w \in Workers, SendRefused(w) PROVE TypeOK'
  BY <1>13 DEF SendRefused, Goto, intake, loop, effects, metrics, telemetry
<1>14. ASSUME NEW w \in Workers, BackoffElapses(w) PROVE TypeOK'
  BY <1>14 DEF BackoffElapses, Goto, intake, effects, metrics, telemetry
<1>15. ASSUME NEW w \in Workers, BackoffCancelled(w) PROVE TypeOK'
  BY <1>15 DEF BackoffCancelled, Goto, intake, loop, effects, metrics, telemetry
<1>16. ASSUME NEW w \in Workers, MarkStatus(w) PROVE TypeOK'
  BY <1>16 DEF MarkStatus, Update, Goto, intake, loop, metrics, telemetry
<1>17. ASSUME NEW w \in Workers, RecordSuccess(w) PROVE TypeOK'
  BY <1>17 DEF RecordSuccess, Goto, intake, loop, telemetry
<1>18. ASSUME NEW w \in Workers, RecordError(w) PROVE TypeOK'
  <2>1. latency' \in [{"SUCCESS", "ERROR"} -> Nat]
    BY <1>18 DEF RecordError
  <2> QED
    BY <1>18, <2>1, FinishTypes DEF RecordError, intake, loop, telemetry
<1>19. ASSUME NEW w \in Workers, Store(w) PROVE TypeOK'
  <2>1. stored' \in SUBSET Commands
    <3>1. held[w] \in Commands
      BY <1>0, <1>19 DEF Store, Busy
    <3>2. stored' = stored \/ stored' = stored \cup {held[w]}
      BY <1>19 DEF Store
    <3> QED
      BY <3>1, <3>2
  <2> QED
    BY <1>19, <2>1 DEF Store, Goto, intake, metrics
<1>20. ASSUME NEW w \in Workers, PublishSucceeds(w) PROVE TypeOK'
  BY <1>0, <1>20, FinishTypes, ArrivesTypes DEF PublishSucceeds, Busy, intake, loop, metrics
<1>21. ASSUME NEW w \in Workers, PublishFails(w) PROVE TypeOK'
  <2>1. received' \in [Commands -> Nat]
    BY <1>0, <1>21, ArrivesTypes DEF PublishFails, Busy
  <2>2. /\ pc' \in [Workers -> Steps]
        /\ held' \in [Workers -> Commands \cup {NoCommand}]
        /\ outcome' \in [Commands -> Outcomes]
    BY <1>21, FinishTypes DEF PublishFails, Goto
  <2> QED
    BY <1>21, <2>1, <2>2 DEF PublishFails, intake, loop, metrics
<1>22. ASSUME NEW w \in Workers, RepublishElapses(w) PROVE TypeOK'
  BY <1>22 DEF RepublishElapses, Goto, intake, effects, metrics, telemetry
<1>23. ASSUME NEW w \in Workers, GiveUpPublishing(w) PROVE TypeOK'
  BY <1>23 DEF GiveUpPublishing, Finish, Goto, intake, loop, effects, metrics, telemetry
<1>24. ASSUME NEW listed \in SUBSET Devices, Reload(listed) PROVE TypeOK'
  BY <1>24 DEF Reload, intake, work, loop, metrics, telemetry
<1>25. CASE Cancel \/ MainStep
  BY <1>25 DEF Cancel, MainStep, CloseQueue, WorkersDone, Disconnect, Advance,
               work, loop, effects, metrics, telemetry
<1>26. CASE UNCHANGED vars
  BY <1>26 DEF vars, intake, work, loop, effects, metrics, telemetry
<1> QED
  BY <1>1, <1>2, <1>3, <1>4, <1>5, <1>6, <1>7, <1>8, <1>9, <1>10, <1>11, <1>12, <1>13,
     <1>14, <1>15, <1>16, <1>17, <1>18, <1>19, <1>20, <1>21, <1>22, <1>23, <1>24, <1>25,
     <1>26 DEF Next, Environment, WorkerStep

---------------------------------------------------------------------------------
(* OnePlace: a command moves from the queue to one worker and from there to its end. *)

\* What appending and removing the head do to the set of queued commands.
LEMMA QueuedAppend ==
  ASSUME NEW c \in Commands, queue \in Seq(Commands), queue' = Append(queue, c)
  PROVE  \A d : Queued(d)' <=> Queued(d) \/ d = c
<1>1. /\ DOMAIN queue = 1..Len(queue) /\ Len(queue) \in Nat
      /\ DOMAIN queue' = 1..(Len(queue) + 1)
      /\ \A i \in 1..Len(queue) : queue'[i] = queue[i]
      /\ queue'[Len(queue) + 1] = c
  BY AppendProperties, LenProperties
<1>2. \A i : i \in DOMAIN queue' <=> i \in DOMAIN queue \/ i = Len(queue) + 1
  BY <1>1
<1>3. \A i \in DOMAIN queue : queue'[i] = queue[i]
  BY <1>1
<1> QED
  BY <1>1, <1>2, <1>3 DEF Queued

\* Receiving takes the head of the channel and no other command.
LEMMA QueuedTail ==
  ASSUME queue \in Seq(Commands), queue # <<>>, queue' = Tail(queue),
         \A i, j \in DOMAIN queue : queue[i] = queue[j] => i = j
  PROVE  /\ \A d : Queued(d)' <=> Queued(d) /\ d # Head(queue)
         /\ \A i, j \in DOMAIN queue' : queue'[i] = queue'[j] => i = j
         /\ Queued(Head(queue))
<1>1. /\ DOMAIN queue = 1..Len(queue) /\ Len(queue) \in Nat /\ Len(queue) > 0
      /\ Head(queue) = queue[1]
      /\ DOMAIN Tail(queue) = 1..(Len(queue) - 1)
      /\ \A i \in 1..(Len(queue) - 1) : Tail(queue)[i] = queue[i + 1]
  BY HeadTailProperties, LenProperties, EmptySeq
<1>2. \A d : Queued(d) /\ d # Head(queue) => Queued(d)'
  <2> SUFFICES ASSUME NEW d, NEW i \in 1..Len(queue), queue[i] = d, d # queue[1]
               PROVE  Queued(d)'
    BY <1>1 DEF Queued
  <2>1. i - 1 \in 1..(Len(queue) - 1) /\ Tail(queue)[i - 1] = queue[i]
    BY <1>1
  <2> QED
    BY <1>1, <2>1 DEF Queued
<1>3. \A d : Queued(d)' => Queued(d) /\ d # Head(queue)
  <2> SUFFICES ASSUME NEW d, NEW j \in 1..(Len(queue) - 1), Tail(queue)[j] = d
               PROVE  Queued(d) /\ d # queue[1]
    BY <1>1 DEF Queued
  <2>1. j + 1 \in 1..Len(queue) /\ queue[j + 1] = d /\ 1 \in 1..Len(queue) /\ j + 1 # 1
    BY <1>1
  <2> QED
    BY <1>1, <2>1 DEF Queued
<1>4. ASSUME NEW i \in DOMAIN queue', NEW j \in DOMAIN queue', queue'[i] = queue'[j]
      PROVE  i = j
  <2>1. /\ i \in 1..(Len(queue) - 1) /\ j \in 1..(Len(queue) - 1)
        /\ queue[i + 1] = queue[j + 1]
    BY <1>1, <1>4
  <2>2. i + 1 \in 1..Len(queue) /\ j + 1 \in 1..Len(queue)
    BY <1>1, <2>1
  <2> QED
    BY <1>1, <2>1, <2>2
<1>5. Queued(Head(queue))
  <2>1. 1 \in 1..Len(queue)
    BY <1>1
  <2> QED
    BY <1>1, <2>1 DEF Queued
<1> QED
  BY <1>2, <1>3, <1>4, <1>5

\* A worker that finishes settles the command it held and lets go of it.
LEMMA PlaceFinish ==
  ASSUME TypeOK, OnePlace, NEW w \in Workers, held[w] \in Commands,
         NEW how \in Outcomes \ {"none"}, Finish(w, how), UNCHANGED <<queue, arrived>>
  PROVE  OnePlace'
<1>1. \A d \in Commands : /\ Queued(d)' <=> Queued(d)
                          /\ Working(d)' <=> Working(d) /\ d # held[w]
                          /\ outcome'[d] # "none" <=> outcome[d] # "none" \/ d = held[w]
  BY DEF TypeOK, OnePlace, Finish, Queued, Working
<1>2. \A v, u \in Workers : held'[v] # NoCommand /\ held'[v] = held'[u] => v = u
  BY DEF TypeOK, OnePlace, Finish
<1>3. Working(held[w])
  BY DEF Working
<1>4. \A i, j \in DOMAIN queue' : queue'[i] = queue'[j] => i = j
  BY DEF OnePlace
<1>5. ASSUME NEW d \in Commands
      PROVE  /\ d \in arrived' <=> Queued(d)' \/ Working(d)' \/ outcome'[d] # "none"
             /\ ~(Queued(d)' /\ Working(d)')
             /\ outcome'[d] # "none" => ~Queued(d)' /\ ~Working(d)'
  BY <1>1, <1>3 DEF OnePlace
<1> QED
  BY <1>2, <1>4, <1>5 DEF OnePlace

\* A step that moves no command leaves every command in its place.
LEMMA PlaceFrame ==
  ASSUME OnePlace, UNCHANGED <<queue, arrived, held, outcome>>
  PROVE  OnePlace'
  BY DEF OnePlace, Queued, Working

\* Dispatch, receive and finish move a command from one place to the next.
LEMMA PlaceStep ==
  ASSUME TypeOK, OnePlace, \A w \in Workers : WorkerInv(w), [Next]_vars
  PROVE  OnePlace'
<1>0. ASSUME NEW w \in Workers, Busy(w) PROVE held[w] \in Commands
  BY <1>0, BusyHolds
<1>1. ASSUME NEW c \in Commands, Accept(c) PROVE OnePlace'
  <2>1. \A d : Queued(d)' <=> Queued(d) \/ d = c
    BY <1>1, QueuedAppend DEF Accept, TypeOK
  <2>2. ~Queued(c) /\ ~Working(c) /\ outcome[c] = "none"
    BY <1>1 DEF Accept, OnePlace
  <2>3. \A i, j \in DOMAIN queue' : queue'[i] = queue'[j] => i = j
    <3>1. /\ queue' = Append(queue, c) /\ DOMAIN queue' = 1..(Len(queue) + 1)
          /\ DOMAIN queue = 1..Len(queue) /\ Len(queue) \in Nat
          /\ \A i \in 1..Len(queue) : queue'[i] = queue[i]
          /\ queue'[Len(queue) + 1] = c
      BY <1>1, AppendProperties, LenProperties DEF Accept, TypeOK
    <3>2. \A i \in 1..Len(queue) : queue[i] # c
      BY <2>2, <3>1 DEF Queued
    <3>3. \A i, j \in 1..Len(queue) : queue[i] = queue[j] => i = j
      BY <3>1 DEF OnePlace
    <3> QED
      BY <3>1, <3>2, <3>3
  <2>4. \A d : Working(d)' <=> Working(d)
    BY <1>1 DEF Accept, work, Working
  <2> QED
    BY <1>1, <2>1, <2>2, <2>3, <2>4 DEF Accept, work, OnePlace
<1>2. ASSUME NEW c \in Commands, NEW w \in Workers, HandOff(c, w) PROVE OnePlace'
  <2>1. held[w] = NoCommand
    BY <1>2 DEF HandOff, WorkerInv, Busy
  <2>2. \A d \in Commands : /\ Working(d)' <=> Working(d) \/ d = c
                            /\ Queued(d)' <=> Queued(d)
    BY <1>2, <2>1 DEF HandOff, TypeOK, Working, Queued
  <2>3. ~Queued(c) /\ ~Working(c) /\ outcome[c] = "none"
    BY <1>2 DEF HandOff, OnePlace
  <2>4. \A v, u \in Workers : held'[v] # NoCommand /\ held'[v] = held'[u] => v = u
    BY <1>2, <2>3 DEF HandOff, TypeOK, OnePlace, Working
  <2> QED
    BY <1>2, <2>2, <2>3, <2>4 DEF HandOff, OnePlace
<1>3. ASSUME NEW c \in Commands, Drop(c) PROVE OnePlace'
  <2>1. ~Queued(c) /\ ~Working(c) /\ outcome[c] = "none"
    BY <1>3 DEF Drop, OnePlace
  <2>2. \A d \in Commands : /\ Working(d)' <=> Working(d)
                            /\ Queued(d)' <=> Queued(d)
                            /\ outcome'[d] # "none" <=> outcome[d] # "none" \/ d = c
    BY <1>3 DEF Drop, TypeOK, work, Working, Queued
  <2> QED
    BY <1>3, <2>1, <2>2 DEF Drop, work, OnePlace
<1>4. ASSUME NEW w \in Workers, Receive(w) PROVE OnePlace'
  <2> DEFINE c == Head(queue)
  <2>1. held[w] = NoCommand
    BY <1>4 DEF Receive, WorkerInv, Busy
  <2>2. /\ \A d : Queued(d)' <=> Queued(d) /\ d # c
        /\ \A i, j \in DOMAIN queue' : queue'[i] = queue'[j] => i = j
        /\ Queued(c)
    BY <1>4, QueuedTail DEF Receive, TypeOK, OnePlace
  <2>3. c \in Commands
    BY <1>4, HeadTailProperties DEF Receive, TypeOK
  <2>4. ~Working(c) /\ outcome[c] = "none"
    BY <2>2, <2>3 DEF OnePlace
  <2>5. \A d \in Commands : Working(d)' <=> Working(d) \/ d = c
    BY <1>4, <2>1, <2>3 DEF Receive, TypeOK, Working
  <2>6. \A v, u \in Workers : held'[v] # NoCommand /\ held'[v] = held'[u] => v = u
    BY <1>4, <2>4 DEF Receive, TypeOK, OnePlace, Working
  <2> HIDE DEF c
  <2> QED
    BY <1>4, <2>2, <2>3, <2>4, <2>5, <2>6 DEF Receive, OnePlace
<1>5. ASSUME NEW w \in Workers,
             \/ Reject(w) \/ RecordError(w) \/ PublishSucceeds(w) \/ GiveUpPublishing(w)
             \/ PublishFails(w) /\ Finish(w, "undelivered")
      PROVE  OnePlace'
  <2>1. held[w] \in Commands
    BY <1>0, <1>5 DEF Reject, RecordError, PublishSucceeds, GiveUpPublishing, PublishFails, Busy
  <2>2. PICK how \in Outcomes \ {"none"} : Finish(w, how)
    BY <1>5 DEF Reject, RecordError, PublishSucceeds, GiveUpPublishing, Outcomes
  <2>3. UNCHANGED <<queue, arrived>>
    BY <1>5 DEF Reject, RecordError, PublishSucceeds, GiveUpPublishing, PublishFails, intake
  <2> QED
    BY <2>1, <2>2, <2>3, PlaceFinish
<1>6. ASSUME NEW w \in Workers, PublishFails(w), ~Finish(w, "undelivered") PROVE OnePlace'
  BY <1>6, PlaceFrame DEF PublishFails, intake
<1>7. ASSUME NEW w \in Workers,
             \/ Exit(w) \/ LookUp(w) \/ Dial(w) \/ DeviceRuns(w) \/ SendSucceeds(w)
             \/ SendFails(w) \/ SendRefused(w) \/ BackoffElapses(w) \/ BackoffCancelled(w)
             \/ MarkStatus(w) \/ RecordSuccess(w) \/ Store(w) \/ RepublishElapses(w)
      PROVE  OnePlace'
  BY <1>7, PlaceFrame DEF Exit, LookUp, Dial, DeviceRuns, SendSucceeds, SendFails, SendRefused,
     BackoffElapses, BackoffCancelled, MarkStatus, RecordSuccess, Store, RepublishElapses, intake
<1>8. CASE \/ \E c \in Commands : SendOnClosed(c)
           \/ \E listed \in SUBSET Devices : Reload(listed)
           \/ Cancel \/ MainStep \/ UNCHANGED vars
  BY <1>8, PlaceFrame DEF SendOnClosed, Reload, Cancel, MainStep, CloseQueue, WorkersDone,
     Disconnect, Advance, intake, work, vars
<1> QED
  BY <1>1, <1>2, <1>3, <1>4, <1>5, <1>6, <1>7, <1>8 DEF Next, Environment, WorkerStep

---------------------------------------------------------------------------------
(* WorkerInv: how far a worker has come bounds what its device has executed.       *)

\* A step that leaves a worker's locals and the executions of its command alone.
LEMMA WorkerFrame ==
  ASSUME NEW w \in Workers, WorkerInv(w),
         pc'[w] = pc[w], held'[w] = held[w], payload'[w] = payload[w],
         attempt'[w] = attempt[w], ran'[w] = ran[w],
         held[w] # NoCommand => runs'[held[w]] = runs[held[w]]
  PROVE  WorkerInv(w)'
  BY DEF WorkerInv, Busy, Untried, Answered, Chain, Reporting

\* No two workers run the device on behalf of the same command.
LEMMA OtherWorkers ==
  ASSUME TypeOK, OnePlace, \A v \in Workers : WorkerInv(v), NEW w \in Workers,
         \/ Receive(w) \/ Exit(w) \/ Reject(w) \/ LookUp(w)
         \/ Dial(w) \/ DeviceRuns(w) \/ SendSucceeds(w) \/ SendFails(w) \/ SendRefused(w)
         \/ BackoffElapses(w) \/ BackoffCancelled(w)
         \/ MarkStatus(w) \/ RecordSuccess(w) \/ RecordError(w)
         \/ Store(w) \/ PublishSucceeds(w) \/ PublishFails(w)
         \/ RepublishElapses(w) \/ GiveUpPublishing(w),
         NEW v \in Workers, v # w
  PROVE  WorkerInv(v)'
<1>1. /\ pc'[v] = pc[v] /\ held'[v] = held[v] /\ payload'[v] = payload[v]
      /\ attempt'[v] = attempt[v] /\ ran'[v] = ran[v]
  BY DEF TypeOK, Receive, Exit, Reject, LookUp, Dial, DeviceRuns, SendSucceeds, SendFails,
     SendRefused, BackoffElapses, BackoffCancelled, MarkStatus, RecordSuccess, RecordError,
     Store, PublishSucceeds, PublishFails, RepublishElapses, GiveUpPublishing,
     AttemptFailed, Finish, Goto, loop
<1>2. ASSUME held[v] # NoCommand PROVE runs'[held[v]] = runs[held[v]]
  <2>1. CASE DeviceRuns(w)
    BY <1>2, <2>1 DEF DeviceRuns, TypeOK, OnePlace
  <2>2. CASE ~DeviceRuns(w)
    BY <2>2 DEF Receive, Exit, Reject, LookUp, Dial, SendSucceeds, SendFails,
       SendRefused, BackoffElapses, BackoffCancelled, MarkStatus, RecordSuccess, RecordError,
       Store, PublishSucceeds, PublishFails, RepublishElapses, GiveUpPublishing, effects
  <2> QED
    BY <2>1, <2>2
<1> QED
  BY <1>1, <1>2, WorkerFrame

\* The worker that moves.
LEMMA ActingWorker ==
  ASSUME TypeOK, OnePlace, \A v \in Workers : WorkerInv(v), \A c \in Commands : CommandInv(c),
         NEW w \in Workers,
         WorkerStep(w) \/ DeviceRuns(w) \/ \E c \in Commands : HandOff(c, w)
  PROVE  WorkerInv(w)'
<1> DEFINE h == held[w]
           p == payload[w]
<1>0. /\ WorkerInv(w)
      /\ Busy(w) => h \in Commands
      /\ p \in {1, 2} /\ Payloads(h) \in {1, 2}
      /\ attempt[w] \in Nat \ {0}
      /\ MaxAttempts \in Nat
      /\ h \in Commands => \A k \in {1, 2} : runs[h][k] \in Nat
  BY BusyHolds DEF TypeOK, Payloads
<1>1. ASSUME NEW c \in Commands, HandOff(c, w) PROVE WorkerInv(w)'
  <2>1. held'[w] = c /\ pc'[w] = "lookup" /\ runs' = runs /\ c # NoCommand
    BY <1>1 DEF HandOff, TypeOK, effects
  <2>2. \A k \in {1, 2} : runs[c][k] = 0
    BY <1>1 DEF HandOff, CommandInv
  <2> QED
    BY <2>1, <2>2 DEF WorkerInv, Busy, Untried, Chain, Reporting
<1>2. CASE Receive(w)
  <2> DEFINE c == Head(queue)
  <2>1. c \in Commands /\ Queued(c)
    BY <1>2, QueuedTail, HeadTailProperties DEF Receive, TypeOK, OnePlace
  <2>2. held'[w] = c /\ pc'[w] = "lookup" /\ runs' = runs /\ c # NoCommand
    BY <1>2, <2>1 DEF Receive, Goto, TypeOK, effects
  <2>3. \A k \in {1, 2} : runs[c][k] = 0
    BY <2>1 DEF CommandInv
  <2> HIDE DEF c
  <2> QED
    BY <2>2, <2>3 DEF WorkerInv, Busy, Untried, Chain, Reporting
<1>3. CASE Exit(w)
  <2>1. held'[w] = held[w] /\ pc[w] = "idle" /\ pc'[w] = "exited"
    BY <1>3 DEF Exit, Goto, TypeOK
  <2> QED
    BY <1>0, <2>1 DEF WorkerInv, Busy, Untried, Chain, Reporting
<1>4. CASE \/ Reject(w) \/ RecordError(w) \/ PublishSucceeds(w) \/ GiveUpPublishing(w)
           \/ PublishFails(w) /\ Finish(w, "undelivered")
  <2>1. held'[w] = NoCommand /\ pc'[w] = "idle"
    BY <1>4 DEF Reject, RecordError, PublishSucceeds, GiveUpPublishing, Finish, Goto, TypeOK
  <2> QED
    BY <2>1 DEF WorkerInv, Busy, Untried, Chain, Reporting
<1>5. CASE LookUp(w)
  <2>1. /\ held' = held /\ runs' = runs /\ payload'[w] = 1 /\ attempt'[w] = 1
        /\ pc'[w] = IF MaxAttempts = 0 THEN "online" ELSE "dial"
        /\ h \in Commands /\ \A k \in {1, 2} : runs[h][k] = 0
    BY <1>0, <1>5 DEF LookUp, Goto, TypeOK, effects, WorkerInv, Busy
  <2>2. CASE MaxAttempts = 0
    BY <2>1, <2>2 DEF WorkerInv, Busy, Untried, Chain, Reporting
  <2>3. CASE MaxAttempts > 0
    BY <1>0, <2>1, <2>3 DEF WorkerInv, Busy, Untried, Chain, Reporting, Payloads
  <2> QED
    BY <1>0, <2>2, <2>3
<1>6. CASE Dial(w)
  <2>1. /\ held' = held /\ runs' = runs /\ payload' = payload /\ attempt' = attempt
        /\ pc[w] = "dial" /\ pc'[w] = "await" /\ ran'[w] = FALSE
    BY <1>6 DEF Dial, Goto, TypeOK, effects
  <2> QED
    BY <1>0, <2>1 DEF WorkerInv, Busy, Untried, Chain, Reporting
<1>7. CASE DeviceRuns(w)
  <2>1. /\ pc[w] = "await" /\ pc' = pc /\ ~ran[w] /\ ran'[w] = TRUE
        /\ held' = held /\ payload' = payload /\ attempt' = attempt
        /\ h \in Commands
        /\ runs' = [runs EXCEPT ![h][p] = @ + 1]
    BY <1>0, <1>7 DEF DeviceRuns, TypeOK, Busy
  <2>2. /\ runs'[h][p] = runs[h][p] + 1
        /\ \A k \in {1, 2} \ {p} : runs'[h][k] = runs[h][k]
    BY <1>0, <2>1 DEF TypeOK
  <2>3. /\ p <= Payloads(h) /\ attempt[w] <= MaxAttempts
        /\ p = 1 => runs[h][2] = 0
        /\ p = 2 => runs[h][1] > 0
        /\ runs[h][p] < attempt[w]
        /\ h # NoCommand
    BY <1>0, <2>1 DEF WorkerInv, Busy, Untried, Chain
  <2> QED
    BY <1>0, <2>1, <2>2, <2>3 DEF WorkerInv, Busy, Untried, Chain, Reporting
<1>8. CASE SendSucceeds(w)
  <2>1. /\ pc[w] = "await" /\ ran[w] /\ held' = held /\ runs' = runs
        /\ h \in Commands /\ h # NoCommand /\ runs[h][p] > 0
        /\ p = 1 => runs[h][2] = 0
        /\ p = 2 => runs[h][1] > 0
        /\ p <= Payloads(h) /\ attempt[w] <= MaxAttempts
    BY <1>0, <1>8 DEF SendSucceeds, WorkerInv, Busy, Chain, effects
  <2>2. CASE p < Payloads(h)
    <3>1. p = 1 /\ Payloads(h) = 2
      BY <1>0, <2>2
    <3>2. pc'[w] = "dial" /\ payload'[w] = 2 /\ attempt'[w] = 1
      BY <1>8, <2>2, <3>1 DEF SendSucceeds, Goto, TypeOK
    <3> QED
      BY <1>0, <2>1, <3>1, <3>2 DEF WorkerInv, Busy, Untried, Chain, Reporting, Payloads
  <2>3. CASE ~(p < Payloads(h))
    <3>1. pc'[w] = "online"
      BY <1>8, <2>3 DEF SendSucceeds, Goto, TypeOK
    <3>2. \A k \in 1..Payloads(h) : runs[h][k] > 0
      BY <1>0, <2>1, <2>3
    <3> QED
      BY <2>1, <3>1, <3>2 DEF WorkerInv, Busy, Untried, Chain, Reporting, Answered, Payloads
  <2> QED
    BY <2>2, <2>3
<1>9. CASE \/ SendFails(w) \/ SendRefused(w) \/ BackoffCancelled(w)
  <2>1. /\ pc[w] \in Chain /\ held' = held /\ runs' = runs
        /\ payload' = payload /\ attempt' = attempt
        /\ \/ pc'[w] = "offline"
           \/ pc'[w] = "backoff" /\ attempt[w] < MaxAttempts
    <3>1. CASE SendFails(w)
      BY <3>1 DEF SendFails, AttemptFailed, Goto, TypeOK, Chain, effects, loop
    <3>2. CASE SendRefused(w) \/ BackoffCancelled(w)
      BY <3>2 DEF SendRefused, BackoffCancelled, Goto, TypeOK, Chain, effects, loop
    <3> QED
      BY <1>9, <3>1, <3>2
  <2> QED
    BY <1>0, <2>1 DEF WorkerInv, Busy, Untried, Chain, Reporting, Payloads
<1>10. CASE BackoffElapses(w)
  <2>1. /\ pc[w] = "backoff" /\ pc'[w] = "dial" /\ held' = held /\ runs' = runs
        /\ payload' = payload /\ attempt'[w] = attempt[w] + 1
        /\ h \in Commands
    BY <1>0, <1>10 DEF BackoffElapses, Goto, TypeOK, effects, Busy
  <2> QED
    BY <1>0, <2>1 DEF WorkerInv, Busy, Untried, Chain, Reporting, Payloads
<1>11. CASE \/ MarkStatus(w) \/ RecordSuccess(w) \/ Store(w) \/ RepublishElapses(w)
            \/ PublishFails(w) /\ ~Finish(w, "undelivered")
  <2>1. /\ held' = held /\ runs' = runs
        /\ \/ /\ pc[w] \in {"online", "success"} \cup Reporting
              /\ pc'[w] \in {"success"} \cup Reporting
           \/ pc[w] = "offline" /\ pc'[w] = "error"
    <3>1. CASE MarkStatus(w)
      BY <3>1 DEF MarkStatus, Goto, TypeOK
    <3>2. CASE RecordSuccess(w) \/ Store(w) \/ RepublishElapses(w)
      BY <3>2 DEF RecordSuccess, Store, RepublishElapses, Goto, TypeOK, Reporting, effects
    <3>3. CASE PublishFails(w) /\ ~Finish(w, "undelivered")
      BY <3>3 DEF PublishFails, Goto, TypeOK, Reporting
    <3> QED
      BY <1>11, <3>1, <3>2, <3>3
  <2> QED
    BY <1>0, <2>1 DEF WorkerInv, Busy, Untried, Chain, Reporting, Answered, Payloads
<1> QED
  BY <1>1, <1>2, <1>3, <1>4, <1>5, <1>6, <1>7, <1>8, <1>9, <1>10, <1>11 DEF WorkerStep

\* Each step of the retry loop and of the chain keeps the worker's account of the
\* device's executions.
LEMMA WorkerInvStep ==
  ASSUME TypeOK, OnePlace, \A v \in Workers : WorkerInv(v), \A c \in Commands : CommandInv(c),
         [Next]_vars
  PROVE  \A v \in Workers : WorkerInv(v)'
<1>1. ASSUME NEW w \in Workers, WorkerStep(w) \/ DeviceRuns(w)
      PROVE  \A v \in Workers : WorkerInv(v)'
  BY <1>1, ActingWorker, OtherWorkers DEF WorkerStep
<1>2. ASSUME NEW c \in Commands, NEW w \in Workers, HandOff(c, w)
      PROVE  \A v \in Workers : WorkerInv(v)'
  <2>1. ASSUME NEW v \in Workers, v # w PROVE WorkerInv(v)'
    BY <1>2, <2>1, WorkerFrame DEF HandOff, TypeOK, loop, effects
  <2> QED
    BY <1>2, <2>1, ActingWorker
<1>3. CASE \/ \E c \in Commands : Accept(c) \/ Drop(c) \/ SendOnClosed(c)
           \/ \E listed \in SUBSET Devices : Reload(listed)
           \/ Cancel \/ MainStep \/ UNCHANGED vars
  <2>1. UNCHANGED <<pc, held, payload, attempt, ran, runs>>
    BY <1>3 DEF Accept, Drop, SendOnClosed, Reload, Cancel, MainStep, CloseQueue, WorkersDone,
       Disconnect, Advance, work, loop, effects, vars
  <2> QED
    BY <2>1, WorkerFrame
<1> QED
  BY <1>1, <1>2, <1>3 DEF Next, Environment

---------------------------------------------------------------------------------
(* CommandInv: what the history of a command says about its executions.            *)

\* Executions are never undone, and every step but DeviceRuns leaves them alone.
LEMMA RunsStep ==
  ASSUME TypeOK, \A v \in Workers : WorkerInv(v), [Next]_vars
  PROVE  \/ runs' = runs
         \/ \E w \in Workers :
               /\ DeviceRuns(w) /\ held[w] \in Commands
               /\ \A c \in Commands \ {held[w]} : runs'[c] = runs[c]
               /\ \A c \in Commands, k \in {1, 2} : runs'[c][k] >= runs[c][k]
<1>1. ASSUME NEW w \in Workers, DeviceRuns(w)
      PROVE  /\ held[w] \in Commands
             /\ \A c \in Commands \ {held[w]} : runs'[c] = runs[c]
             /\ \A c \in Commands, k \in {1, 2} : runs'[c][k] >= runs[c][k]
  <2>1. held[w] \in Commands
    BY <1>1, BusyHolds DEF DeviceRuns, Busy
  <2>2. /\ runs' = [runs EXCEPT ![held[w]][payload[w]] = @ + 1]
        /\ payload[w] \in {1, 2}
        /\ runs \in [Commands -> [{1, 2} -> Nat]]
    BY <1>1 DEF DeviceRuns, TypeOK
  <2> QED
    BY ONLY <2>1, <2>2
<1>2. CASE \A w \in Workers : ~DeviceRuns(w)
  BY <1>2 DEF Next, Environment, MainStep, WorkerStep, Accept, HandOff, Drop, SendOnClosed,
     Receive, Exit, Reject, LookUp, Dial, SendSucceeds, SendFails, SendRefused, BackoffElapses,
     BackoffCancelled, MarkStatus, RecordSuccess, RecordError, Store, PublishSucceeds,
     PublishFails, RepublishElapses, GiveUpPublishing, Reload, Cancel, CloseQueue, WorkersDone,
     Disconnect, Advance, effects, vars
<1> QED
  BY <1>1, <1>2

\* An answered chain stays answered: executions are only added.
LEMMA AnsweredStep ==
  ASSUME TypeOK, \A v \in Workers : WorkerInv(v), [Next]_vars,
         NEW c \in Commands, Answered(c)
  PROVE  Answered(c)'
<1>1. \A k \in 1..Payloads(c) : k \in {1, 2}
  BY DEF Payloads
<1>2. \A k \in {1, 2} : runs[c][k] \in Nat
  BY DEF TypeOK
<1>3. CASE runs' = runs
  BY <1>3 DEF Answered, Payloads
<1>4. CASE runs' # runs
  <2>1. \A k \in {1, 2} : runs'[c][k] >= runs[c][k]
    BY <1>4, RunsStep
  <2>2. \A k \in {1, 2} : runs[c][k] > 0 => runs'[c][k] > 0
    <3> SUFFICES ASSUME NEW k \in {1, 2}, runs[c][k] > 0 PROVE runs'[c][k] > 0
      OBVIOUS
    <3>1. TypeOK'
      BY TypeStep
    <3>2. runs'[c][k] \in Nat
      BY <3>1 DEF TypeOK
    <3> QED
      BY <1>2, <2>1, <3>2
  <2> QED
    BY <1>1, <2>2 DEF Answered, Payloads
<1> QED
  BY <1>3, <1>4

\* A step that does not queue, end or report a command, seen from that command.
LEMMA CommandFrame ==
  ASSUME TypeOK, OnePlace, \A v \in Workers : WorkerInv(v), [Next]_vars,
         NEW c \in Commands, CommandInv(c),
         c \notin arrived' => c \notin arrived,
         Queued(c)' => Queued(c),
         outcome'[c] = outcome[c],
         c \in stored' => c \in stored,
         received'[c] > 0 => received[c] > 0
  PROVE  CommandInv(c)'
<1>1. ASSUME \/ c \notin arrived
             \/ Queued(c)
             \/ outcome[c] \in {"dropped", "rejected"}
      PROVE  runs'[c] = runs[c]
  <2>1. ~Working(c)
    BY <1>1 DEF OnePlace
  <2> QED
    BY <2>1, RunsStep DEF Working
<1>2. Answered(c) => Answered(c)'
  BY AnsweredStep
<1> QED
  BY <1>1, <1>2 DEF CommandInv

\* The end of processCommand, for the command that ends.
LEMMA CommandFinish ==
  ASSUME TypeOK, OnePlace, OnePlace', \A v \in Workers : WorkerInv(v), [Next]_vars,
         NEW w \in Workers, Finish(w, "delivered") \/ Finish(w, "undelivered"),
         pc[w] \in Reporting, NEW c \in Commands, c = held[w]
  PROVE  CommandInv(c)'
<1>1. MaxAttempts = 0 \/ Answered(c)
  BY DEF WorkerInv
<1>2. MaxAttempts = 0 \/ Answered(c)'
  BY <1>1, AnsweredStep
<1>3. outcome'[c] \in {"delivered", "undelivered"}
  BY DEF Finish, TypeOK
<1>4. c \in arrived' /\ ~Queued(c)'
  BY <1>3 DEF OnePlace
<1> QED
  BY <1>2, <1>3, <1>4 DEF CommandInv

\* Only a command that a worker took to its device has executions; only an answered
\* chain leaves telemetry.
LEMMA CommandStep ==
  ASSUME TypeOK, OnePlace, OnePlace', \A v \in Workers : WorkerInv(v),
         \A c \in Commands : CommandInv(c), [Next]_vars
  PROVE  \A c \in Commands : CommandInv(c)'
<1> SUFFICES ASSUME NEW c \in Commands PROVE CommandInv(c)'
  OBVIOUS
<1>0. ASSUME NEW w \in Workers, Busy(w) PROVE held[w] \in Commands
  BY <1>0, BusyHolds
<1>1. ASSUME NEW d \in Commands, Accept(d) PROVE CommandInv(c)'
  <2>1. \A e : Queued(e)' <=> Queued(e) \/ e = d
    BY <1>1, QueuedAppend DEF Accept, TypeOK
  <2>2. CASE c = d
    <3>1. /\ c \notin arrived /\ outcome'[c] = "none" /\ runs' = runs
          /\ stored' = stored /\ received' = received
      BY <1>1, <2>2 DEF Accept, OnePlace, effects, telemetry
    <3> QED
      BY <3>1 DEF CommandInv, Answered, Payloads
  <2>3. CASE c # d
    BY <1>1, <2>1, <2>3, CommandFrame DEF Accept, effects, telemetry
  <2> QED
    BY <2>2, <2>3
<1>2. ASSUME NEW d \in Commands, Drop(d) PROVE CommandInv(c)'
  <2>1. CASE c = d
    <3>1. /\ c \notin arrived /\ outcome'[c] = "dropped" /\ runs' = runs
          /\ stored' = stored /\ received' = received
      BY <1>2, <2>1 DEF Drop, TypeOK, telemetry
    <3> QED
      BY <3>1 DEF CommandInv, Answered, Payloads
  <2>2. CASE c # d
    <3>1. outcome'[c] = outcome[c] /\ (Queued(c)' => Queued(c))
      BY <1>2, <2>2 DEF Drop, TypeOK, Queued
    <3> QED
      BY <1>2, <2>2, <3>1, CommandFrame DEF Drop, telemetry
  <2> QED
    BY <2>1, <2>2
<1>3. ASSUME NEW w \in Workers, Receive(w) PROVE CommandInv(c)'
  <2>1. Queued(c)' => Queued(c)
    BY <1>3, QueuedTail DEF Receive, TypeOK, OnePlace
  <2> QED
    BY <1>3, <2>1, CommandFrame DEF Receive, effects, telemetry
<1>4. ASSUME NEW w \in Workers, Reject(w) \/ RecordError(w)
      PROVE  CommandInv(c)'
  <2>1. /\ held[w] \in Commands /\ UNCHANGED <<queue, arrived, runs, stored, received>>
        /\ \A e \in Commands \ {held[w]} : outcome'[e] = outcome[e]
        /\ \/ outcome'[held[w]] = "failed"
           \/ outcome'[held[w]] = "rejected" /\ pc[w] = "lookup"
    BY <1>0, <1>4 DEF Reject, RecordError, Finish, Busy, TypeOK, intake, effects, telemetry
  <2>2. CASE c = held[w]
    <3>1. c \in arrived /\ ~Queued(c) /\ outcome[c] = "none"
      BY <2>1, <2>2 DEF OnePlace, Working
    <3> QED
      BY <2>1, <2>2, <3>1 DEF CommandInv, WorkerInv, Queued, Answered, Payloads
  <2>3. CASE c # held[w]
    BY <2>1, <2>3, CommandFrame DEF Queued
  <2> QED
    BY <2>2, <2>3
<1>5. ASSUME NEW w \in Workers,
             \/ PublishSucceeds(w) \/ GiveUpPublishing(w)
             \/ PublishFails(w) /\ Finish(w, "undelivered")
      PROVE  CommandInv(c)'
  <2>1. /\ pc[w] \in Reporting /\ held[w] \in Commands
        /\ Finish(w, "delivered") \/ Finish(w, "undelivered")
    BY <1>0, <1>5 DEF PublishSucceeds, GiveUpPublishing, PublishFails, Busy, Reporting
  <2>2. /\ UNCHANGED <<queue, arrived, stored>>
        /\ UNCHANGED received \/ Arrives(w)
    BY <1>5 DEF PublishSucceeds, GiveUpPublishing, PublishFails, intake, effects, telemetry
  <2>3. CASE c = held[w]
    BY <2>1, <2>3, CommandFinish
  <2>4. CASE c # held[w]
    <3>1. outcome'[c] = outcome[c] /\ received'[c] = received[c]
      BY <2>1, <2>2, <2>4 DEF Finish, Arrives, TypeOK
    <3> QED
      BY <2>2, <2>4, <3>1, CommandFrame DEF Queued
  <2> QED
    BY <2>3, <2>4
<1>6. ASSUME NEW w \in Workers,
             Store(w) \/ (PublishFails(w) /\ ~Finish(w, "undelivered"))
      PROVE  CommandInv(c)'
  <2>1. /\ pc[w] \in Reporting /\ held[w] \in Commands
        /\ UNCHANGED <<queue, arrived, outcome>>
        /\ \A e \in Commands \ {held[w]} : /\ e \in stored' => e \in stored
                                           /\ received'[e] = received[e]
    BY <1>0, <1>6 DEF Store, PublishFails, Arrives, Busy, Reporting, TypeOK, intake
  <2>2. CASE c = held[w]
    <3>1. MaxAttempts = 0 \/ Answered(c)'
      BY <2>1, <2>2, AnsweredStep DEF WorkerInv
    <3>2. c \in arrived' /\ ~Queued(c)' /\ outcome'[c] = "none"
      BY <2>1, <2>2 DEF OnePlace, Working, Queued
    <3> QED
      BY <3>1, <3>2 DEF CommandInv
  <2>3. CASE c # held[w]
    BY <2>1, <2>3, CommandFrame DEF Queued
  <2> QED
    BY <2>2, <2>3
<1>7. ASSUME NEW w \in Workers,
             \/ \E d \in Commands : HandOff(d, w)
             \/ Exit(w) \/ LookUp(w) \/ Dial(w) \/ DeviceRuns(w) \/ SendSucceeds(w)
             \/ SendFails(w) \/ SendRefused(w) \/ BackoffElapses(w) \/ BackoffCancelled(w)
             \/ MarkStatus(w) \/ RecordSuccess(w) \/ RepublishElapses(w)
      PROVE  CommandInv(c)'
  <2>1. /\ UNCHANGED <<queue, outcome, stored, received>>
        /\ c \notin arrived' => c \notin arrived
    BY <1>7 DEF HandOff, Exit, LookUp, Dial, DeviceRuns, SendSucceeds, SendFails, SendRefused,
       BackoffElapses, BackoffCancelled, MarkStatus, RecordSuccess, RepublishElapses,
       intake, effects, telemetry
  <2> QED
    BY <2>1, CommandFrame DEF Queued
<1>8. CASE \/ \E d \in Commands : SendOnClosed(d)
           \/ \E listed \in SUBSET Devices : Reload(listed)
           \/ Cancel \/ MainStep \/ UNCHANGED vars
  <2>1. UNCHANGED <<queue, arrived, outcome, stored, received>>
    BY <1>8 DEF SendOnClosed, Reload, Cancel, MainStep, CloseQueue, WorkersDone, Disconnect,
       Advance, intake, effects, telemetry, vars
  <2> QED
    BY <2>1, CommandFrame DEF Queued
<1>9. ASSUME NEW w \in Workers, WorkerStep(w) PROVE CommandInv(c)'
  <2>1. CASE PublishFails(w)
    BY <1>5, <1>6, <2>1
  <2>2. CASE Receive(w) \/ Reject(w) \/ RecordError(w)
    BY <1>3, <1>4, <2>2
  <2>3. CASE PublishSucceeds(w) \/ GiveUpPublishing(w)
    BY <1>5, <2>3
  <2>4. CASE \/ Exit(w) \/ LookUp(w) \/ Dial(w) \/ SendSucceeds(w)
             \/ SendFails(w) \/ SendRefused(w) \/ BackoffElapses(w) \/ BackoffCancelled(w)
             \/ MarkStatus(w) \/ RecordSuccess(w) \/ RepublishElapses(w)
    BY <1>7, <2>4
  <2>5. CASE Store(w)
    BY <1>6, <2>5
  <2> QED
    BY <1>9, <2>1, <2>2, <2>3, <2>4, <2>5 DEF WorkerStep
<1> QED
  BY <1>1, <1>2, <1>7, <1>8, <1>9 DEF Next, Environment

---------------------------------------------------------------------------------
\* The remaining parts of IInv.
LEMMA RetryStep ==
  ASSUME TypeOK, OnePlace, RetryBound, \A v \in Workers : WorkerInv(v), [Next]_vars
  PROVE  RetryBound'
<1>1. CASE runs' = runs
  BY <1>1 DEF RetryBound
<1>2. ASSUME NEW w \in Workers, DeviceRuns(w), held[w] \in Commands,
             \A c \in Commands \ {held[w]} : runs'[c] = runs[c]
      PROVE  RetryBound'
  <2>1. runs[held[w]][payload[w]] < attempt[w] /\ attempt[w] <= MaxAttempts
    BY <1>2 DEF DeviceRuns, WorkerInv, Untried, Chain
  <2>2. /\ runs' = [runs EXCEPT ![held[w]][payload[w]] = @ + 1]
        /\ payload[w] \in {1, 2} /\ attempt[w] \in Nat /\ MaxAttempts \in Nat
        /\ runs \in [Commands -> [{1, 2} -> Nat]]
    BY <1>2 DEF DeviceRuns, TypeOK
  <2> QED
    BY <1>2, <2>1, <2>2 DEF RetryBound
<1> QED
  BY <1>1, <1>2, RunsStep

\* wg.Wait (engine.go 292) returns when every worker has exited, and none starts again.
LEMMA StopStep ==
  ASSUME TypeOK, StopInv, [Next]_vars
  PROVE  StopInv'
<1>1. CASE phase' = phase
  <2>1. ASSUME phase # "running", NEW w \in Workers, pc[w] = "exited"
        PROVE  pc'[w] = "exited"
    <3>1. ASSUME NEW v \in Workers, WorkerStep(v) PROVE pc'[w] = "exited"
      BY <2>1, <3>1 DEF TypeOK, WorkerStep, Receive, Exit, Reject, LookUp, Dial, SendSucceeds,
         SendFails, SendRefused, BackoffElapses, BackoffCancelled, MarkStatus, RecordSuccess,
         RecordError, Store, PublishSucceeds, PublishFails, RepublishElapses, GiveUpPublishing,
         AttemptFailed, Finish, Goto, Chain
    <3>2. CASE \A v \in Workers : ~WorkerStep(v)
      BY <2>1, <3>2 DEF Next, Environment, MainStep, Accept, HandOff, Drop, SendOnClosed,
         DeviceRuns, Reload, Cancel, CloseQueue, WorkersDone, Disconnect, Advance, work, vars
    <3> QED
      BY <3>1, <3>2
  <2> QED
    BY <1>1, <2>1 DEF StopInv, Phases
<1>2. CASE phase' # phase
  <2>1. \/ \E c \in Commands : SendOnClosed(c)
        \/ Cancel \/ CloseQueue \/ WorkersDone \/ Disconnect
    BY <1>2 DEF Next, Environment, MainStep, WorkerStep, Accept, HandOff, Drop,
       Receive, Exit, Reject, LookUp, Dial, DeviceRuns, SendSucceeds, SendFails,
       SendRefused, BackoffElapses, BackoffCancelled, MarkStatus, RecordSuccess, RecordError,
       Store, PublishSucceeds, PublishFails, RepublishElapses, GiveUpPublishing,
       Reload, intake, vars
  <2> QED
    BY <2>1 DEF SendOnClosed, Cancel, CloseQueue, WorkersDone, Disconnect, Advance, work, StopInv
<1> QED
  BY <1>1, <1>2

---------------------------------------------------------------------------------
\* A started engine satisfies the invariant.
LEMMA IInvInit == Init => IInv
<1> SUFFICES ASSUME Init PROVE IInv
  OBVIOUS
<1>1. TypeOK
  BY TypeInit
<1>2. /\ queue = <<>> /\ DOMAIN queue = {} /\ arrived = {} /\ stored = {}
      /\ phase = "running"
      /\ \A w \in Workers : pc[w] = "idle" /\ held[w] = NoCommand
      /\ \A c \in Commands : outcome[c] = "none" /\ received[c] = 0 /\ runs[c] = [k \in {1, 2} |-> 0]
  BY DEF Init
<1>3. OnePlace
  BY <1>2 DEF OnePlace, Queued, Working
<1>4. RetryBound
  BY <1>2 DEF RetryBound
<1>5. \A w \in Workers : WorkerInv(w)
  BY <1>2 DEF WorkerInv, Busy, Untried, Chain, Reporting
<1>6. \A c \in Commands : CommandInv(c)
  BY <1>2 DEF CommandInv, Queued
<1> QED
  BY <1>1, <1>2, <1>3, <1>4, <1>5, <1>6 DEF IInv, StopInv

\* Every step of the engine, its devices, the registry and main keeps the invariant.
LEMMA IInvStep == IInv /\ [Next]_vars => IInv'
<1> SUFFICES ASSUME IInv, [Next]_vars PROVE IInv'
  OBVIOUS
<1>1. /\ TypeOK /\ OnePlace /\ RetryBound /\ StopInv
      /\ \A w \in Workers : WorkerInv(w)
      /\ \A c \in Commands : CommandInv(c)
  BY DEF IInv
<1>2. TypeOK'
  BY <1>1, TypeStep
<1>3. OnePlace'
  BY <1>1, PlaceStep
<1>4. RetryBound'
  BY <1>1, RetryStep
<1>5. \A w \in Workers : WorkerInv(w)'
  BY <1>1, WorkerInvStep
<1>6. \A c \in Commands : CommandInv(c)'
  BY <1>1, <1>3, CommandStep
<1>7. StopInv'
  BY <1>1, StopStep
<1> QED
  BY <1>2, <1>3, <1>4, <1>5, <1>6, <1>7 DEF IInv

\* The invariant holds of every execution of the engine (engine.go 79-294).
THEOREM Invariance == Spec => []IInv
<1>1. Init => IInv
  BY IInvInit
<1>2. IInv /\ [Next]_vars => IInv'
  BY IInvStep
<1> QED
  BY <1>1, <1>2, PTL DEF Spec

\* Every variable keeps its type (all of engine.go's state).
THEOREM TypeCorrect == Spec => []TypeOK
<1>1. IInv => TypeOK
  BY DEF IInv
<1> QED
  BY <1>1, Invariance, PTL

\* No interleaving of DispatchCommand, the workers and Stop loses or duplicates a
\* command, for any pool and queue size (engine.go 87-113).
THEOREM CommandsHaveOnePlace == Spec => []OnePlace
<1>1. IInv => OnePlace
  BY DEF IInv
<1> QED
  BY <1>1, Invariance, PTL

\* No payload is executed more often than RETRY_MAX_ATTEMPTS, whatever answers are
\* lost and whenever the engine is cancelled (engine.go 234-265).
THEOREM RetriesAreBounded == Spec => []RetryBound
<1>1. IInv => RetryBound
  BY DEF IInv
<1> QED
  BY <1>1, Invariance, PTL

\* If at least one attempt is configured, stored or published telemetry stands for
\* answers to every payload of the chain (engine.go 139-181, 192-226).
THEOREM TelemetryIsGenuine ==
  ASSUME MaxAttempts > 0
  PROVE  Spec => []NoPhantomTelemetry
<1>1. IInv => NoPhantomTelemetry
  BY DEF IInv, CommandInv, Answered, NoPhantomTelemetry
<1> QED
  BY <1>1, Invariance, PTL

\* After Stop returned no goroutine of the pool acts any more (engine.go 290-294).
THEOREM StopIsFinal == Spec => QuietAfterStop
<1>1. IInv /\ [Next]_vars =>
        [(phase \in {"stopped", "disconnected"}) =>
            UNCHANGED <<work, runs, latency, telemetry, outcome>>]_vars
  <2> SUFFICES ASSUME IInv, [Next]_vars, phase \in {"stopped", "disconnected"}
               PROVE  UNCHANGED <<work, runs, latency, telemetry, outcome>>
    OBVIOUS
  <2>1. \A w \in Workers : pc[w] = "exited"
    BY DEF IInv, StopInv
  <2>2. \A w \in Workers : ~WorkerStep(w) /\ ~DeviceRuns(w)
    BY <2>1 DEF WorkerStep, Receive, Exit, Reject, LookUp, Dial, DeviceRuns, SendSucceeds,
       SendFails, SendRefused, BackoffElapses, BackoffCancelled, MarkStatus, RecordSuccess,
       RecordError, Store, PublishSucceeds, PublishFails, RepublishElapses, GiveUpPublishing
  <2>3. \A c \in Commands : ~Accept(c) /\ ~Drop(c) /\ \A w \in Workers : ~HandOff(c, w)
    BY DEF Accept, Drop, HandOff, ChannelOpen
  <2>4. \/ \E c \in Commands : SendOnClosed(c)
        \/ \E listed \in SUBSET Devices : Reload(listed)
        \/ Cancel \/ MainStep \/ UNCHANGED vars
    BY <2>2, <2>3 DEF Next, Environment
  <2> QED
    BY <2>4 DEF MainStep, SendOnClosed, Reload, Cancel, CloseQueue, WorkersDone, Disconnect,
       Advance, effects, metrics, vars
<1> QED
  BY <1>1, Invariance, PTL DEF Spec, QuietAfterStop

---------------------------------------------------------------------------------
(* LatencyCountsOutcomes: the histogram against the history of commands.  Only      *)
(* finitely many commands are settled and finitely many workers report at any time, *)
(* so the counts need no bound on the deliveries or the pool.                       *)

Ended(S) == {c \in Commands : outcome[c] \in S}
Failed == Ended({"failed"})
Published == Ended({"delivered", "undelivered"})
Reporters == {w \in Workers : pc[w] \in Reporting}

CountInv ==
    /\ IsFiniteSet(Failed) /\ IsFiniteSet(Published) /\ IsFiniteSet(Reporters)
    /\ latency["ERROR"] = Cardinality(Failed)
    /\ latency["SUCCESS"] = Cardinality(Published) + Cardinality(Reporters)

\* Before the first command nothing is settled, reported or observed.
LEMMA CountInit == Init => CountInv
<1> SUFFICES ASSUME Init PROVE CountInv
  OBVIOUS
<1>1. Failed = {} /\ Published = {} /\ Reporters = {}
  BY DEF Init, Failed, Published, Ended, Reporters, Reporting
<1>2. latency["ERROR"] = 0 /\ latency["SUCCESS"] = 0
  BY DEF Init
<1> QED
  BY <1>1, <1>2, FS_EmptySet DEF CountInv

\* A step that neither observes a latency nor ends, begins or leaves a report keeps
\* every count.
LEMMA CountFrame ==
  ASSUME CountInv, Failed' = Failed, Published' = Published, Reporters' = Reporters,
         UNCHANGED latency
  PROVE  CountInv'
  BY DEF CountInv

\* A worker between two calls of which neither or both are in the reporting phase.
LEMMA ReportersFrame ==
  ASSUME TypeOK, NEW w \in Workers, NEW step \in Steps, Goto(w, step),
         pc[w] \in Reporting <=> step \in Reporting
  PROVE  Reporters' = Reporters
  BY DEF TypeOK, Goto, Reporters

\* processCommand returns: the sets of settled commands and of reporting workers.
LEMMA CountFinish ==
  ASSUME TypeOK, NEW w \in Workers, held[w] \in Commands, outcome[held[w]] = "none",
         NEW how \in Outcomes, Finish(w, how)
  PROVE  /\ Failed' = IF how = "failed" THEN Failed \cup {held[w]} ELSE Failed
         /\ Published' = IF how \in {"delivered", "undelivered"}
                         THEN Published \cup {held[w]} ELSE Published
         /\ Reporters' = Reporters \ {w}
         /\ held[w] \notin Failed /\ held[w] \notin Published
<1>1. \A c \in Commands : outcome'[c] = IF c = held[w] THEN how ELSE outcome[c]
  BY DEF TypeOK, Finish
<1>2. \A v \in Workers : pc'[v] = IF v = w THEN "idle" ELSE pc[v]
  BY DEF TypeOK, Finish, Goto
<1> QED
  BY <1>1, <1>2 DEF Failed, Published, Ended, Reporters, Reporting

\* Each observation of the histogram goes with one settled command or one report.
LEMMA CountStep ==
  ASSUME IInv, CountInv, [Next]_vars
  PROVE  CountInv'
<1>0. /\ TypeOK
      /\ latency \in [{"SUCCESS", "ERROR"} -> Nat]
      /\ \A w \in Workers : Busy(w) => held[w] \in Commands /\ outcome[held[w]] = "none"
  <2>1. TypeOK /\ OnePlace /\ \A w \in Workers : WorkerInv(w)
    BY DEF IInv
  <2>2. \A w \in Workers : Busy(w) => held[w] \in Commands
    BY <2>1, BusyHolds
  <2>3. \A w \in Workers : held[w] \in Commands => outcome[held[w]] = "none"
    BY <2>1 DEF OnePlace, Working
  <2> QED
    BY <2>1, <2>2, <2>3 DEF TypeOK
<1>1. ASSUME NEW w \in Workers, RecordSuccess(w) PROVE CountInv'
  <2>1. Reporters' = Reporters \cup {w} /\ w \notin Reporters
    BY <1>0, <1>1 DEF RecordSuccess, TypeOK, Goto, Reporters, Reporting
  <2>2. Failed' = Failed /\ Published' = Published
    BY <1>1 DEF RecordSuccess, Failed, Published, Ended
  <2>3. latency'["SUCCESS"] = latency["SUCCESS"] + 1 /\ latency'["ERROR"] = latency["ERROR"]
    BY <1>0, <1>1 DEF RecordSuccess
  <2>4. IsFiniteSet(Reporters') /\ Cardinality(Reporters') = Cardinality(Reporters) + 1
    BY <2>1, FS_AddElement DEF CountInv
  <2>5. Cardinality(Published) \in Nat /\ Cardinality(Reporters) \in Nat
    BY FS_CardinalityType DEF CountInv
  <2> QED
    BY <2>2, <2>3, <2>4, <2>5 DEF CountInv
<1>2. ASSUME NEW w \in Workers, RecordError(w) PROVE CountInv'
  <2>1. held[w] \in Commands /\ outcome[held[w]] = "none" /\ w \notin Reporters
    BY <1>0, <1>2 DEF RecordError, Busy, Reporters, Reporting
  <2>2. /\ Failed' = Failed \cup {held[w]} /\ held[w] \notin Failed
        /\ Published' = Published /\ Reporters' = Reporters \ {w}
    BY <1>0, <1>2, <2>1, CountFinish DEF RecordError, Outcomes
  <2>3. latency'["SUCCESS"] = latency["SUCCESS"] /\ latency'["ERROR"] = latency["ERROR"] + 1
    BY <1>0, <1>2 DEF RecordError
  <2>4. IsFiniteSet(Failed') /\ Cardinality(Failed') = Cardinality(Failed) + 1
    BY <2>2, FS_AddElement DEF CountInv
  <2>5. Reporters' = Reporters
    BY <2>1, <2>2
  <2> QED
    BY <2>2, <2>3, <2>4, <2>5 DEF CountInv
<1>3. ASSUME NEW w \in Workers,
             \/ PublishSucceeds(w) \/ GiveUpPublishing(w)
             \/ PublishFails(w) /\ Finish(w, "undelivered")
      PROVE  CountInv'
  <2>1. held[w] \in Commands /\ outcome[held[w]] = "none" /\ w \in Reporters
    BY <1>0, <1>3 DEF PublishSucceeds, GiveUpPublishing, PublishFails, Busy, Reporters, Reporting
  <2>2. UNCHANGED latency /\ (Finish(w, "delivered") \/ Finish(w, "undelivered"))
    BY <1>3 DEF PublishSucceeds, GiveUpPublishing, PublishFails, effects, metrics
  <2>3. /\ Failed' = Failed
        /\ Published' = Published \cup {held[w]} /\ held[w] \notin Published
        /\ Reporters' = Reporters \ {w}
    BY <1>0, <2>1, <2>2, CountFinish DEF Outcomes
  <2>4. /\ IsFiniteSet(Published') /\ Cardinality(Published') = Cardinality(Published) + 1
        /\ IsFiniteSet(Reporters') /\ Cardinality(Reporters') = Cardinality(Reporters) - 1
    BY <2>1, <2>3, FS_AddElement, FS_RemoveElement DEF CountInv
  <2>5. Cardinality(Published) \in Nat /\ Cardinality(Reporters) \in Nat
    BY FS_CardinalityType DEF CountInv
  <2>6. Cardinality(Published') + Cardinality(Reporters')
          = Cardinality(Published) + Cardinality(Reporters)
    BY <2>4, <2>5
  <2> QED
    BY <2>2, <2>3, <2>4, <2>6 DEF CountInv
<1>4. ASSUME NEW w \in Workers, Reject(w) PROVE CountInv'
  <2>1. held[w] \in Commands /\ outcome[held[w]] = "none" /\ w \notin Reporters
    BY <1>0, <1>4 DEF Reject, Busy, Reporters, Reporting
  <2>2. Failed' = Failed /\ Published' = Published /\ Reporters' = Reporters \ {w}
    BY <1>0, <1>4, <2>1, CountFinish DEF Reject, Outcomes
  <2>3. Reporters' = Reporters
    BY <2>1, <2>2
  <2> QED
    BY <1>4, <2>2, <2>3, CountFrame DEF Reject, effects, metrics
<1>5. ASSUME NEW w \in Workers,
             \/ Receive(w) \/ Exit(w) \/ LookUp(w) \/ Dial(w) \/ SendSucceeds(w)
             \/ SendFails(w) \/ SendRefused(w) \/ BackoffElapses(w) \/ BackoffCancelled(w)
             \/ MarkStatus(w) \/ Store(w) \/ RepublishElapses(w)
             \/ PublishFails(w) /\ ~Finish(w, "undelivered")
      PROVE  CountInv'
  <2>1. UNCHANGED <<outcome, latency>>
    BY <1>5 DEF Receive, Exit, LookUp, Dial, SendSucceeds, SendFails, SendRefused,
       BackoffElapses, BackoffCancelled, MarkStatus, Store, RepublishElapses, PublishFails,
       effects, metrics
  <2>2. \E step \in Steps : Goto(w, step) /\ (pc[w] \in Reporting <=> step \in Reporting)
    <3>1. CASE Receive(w) \/ Exit(w) \/ LookUp(w) \/ Dial(w)
      BY <3>1 DEF Steps, Chain, Reporting, Receive, Exit, LookUp, Dial
    <3>2. CASE SendSucceeds(w) \/ SendFails(w) \/ SendRefused(w)
      BY <3>2 DEF Steps, Chain, Reporting, SendSucceeds, SendFails, SendRefused, AttemptFailed
    <3>3. CASE BackoffElapses(w) \/ BackoffCancelled(w) \/ MarkStatus(w)
      BY <3>3 DEF Steps, Chain, Reporting, BackoffElapses, BackoffCancelled, MarkStatus
    <3>4. CASE Store(w) \/ RepublishElapses(w) \/ (PublishFails(w) /\ ~Finish(w, "undelivered"))
      BY <3>4 DEF Steps, Chain, Reporting, Store, RepublishElapses, PublishFails
    <3> QED
      BY <1>5, <3>1, <3>2, <3>3, <3>4
  <2>3. Reporters' = Reporters
    BY <1>0, <2>2, ReportersFrame
  <2> QED
    BY <2>1, <2>3, CountFrame DEF Failed, Published, Ended
<1>6. ASSUME NEW c \in Commands, NEW w \in Workers, HandOff(c, w) PROVE CountInv'
  <2>1. Goto(w, "lookup") /\ pc[w] = "idle" /\ UNCHANGED <<outcome, latency>>
    BY <1>6 DEF HandOff, Goto, effects, metrics
  <2>2. Reporters' = Reporters
    BY <1>0, <2>1, ReportersFrame DEF Steps, Reporting
  <2> QED
    BY <2>1, <2>2, CountFrame DEF Failed, Published, Ended
<1>7. ASSUME NEW c \in Commands, Drop(c) PROVE CountInv'
  <2>1. outcome[c] = "none"
    BY <1>7 DEF Drop, IInv, OnePlace
  <2>2. Failed' = Failed /\ Published' = Published
    BY <1>0, <1>7, <2>1 DEF Drop, TypeOK, Failed, Published, Ended
  <2>3. UNCHANGED <<pc, latency>>
    BY <1>7 DEF Drop, work
  <2> QED
    BY <2>2, <2>3, CountFrame DEF Reporters
<1>8. CASE \/ \E c \in Commands : Accept(c) \/ SendOnClosed(c)
           \/ \E w \in Workers : DeviceRuns(w)
           \/ \E listed \in SUBSET Devices : Reload(listed)
           \/ Cancel \/ MainStep \/ UNCHANGED vars
  <2>1. UNCHANGED <<pc, outcome, latency>>
    BY <1>8 DEF Accept, SendOnClosed, DeviceRuns, Reload, Cancel, MainStep, CloseQueue,
       WorkersDone, Disconnect, Advance, work, effects, metrics, vars
  <2> QED
    BY <2>1, CountFrame DEF Failed, Published, Ended, Reporters
<1>9. ASSUME NEW w \in Workers, WorkerStep(w) PROVE CountInv'
  BY <1>1, <1>2, <1>3, <1>4, <1>5, <1>9 DEF WorkerStep
<1> QED
  BY <1>6, <1>7, <1>8, <1>9 DEF Next, Environment

\* For any pool, any number of deliveries and any retry limit, every command that got
\* past the lookups is in the latency histogram exactly once (engine.go 141-166).
THEOREM LatencyIsExact == Spec => []LatencyCountsOutcomes
<1>1. Init => CountInv
  BY CountInit
<1>2. IInv /\ CountInv /\ [Next]_vars => CountInv'
  BY CountStep
<1>3. CountInv => LatencyCountsOutcomes
  BY DEF CountInv, Failed, Published, Ended, Reporters, LatencyCountsOutcomes
<1> QED
  BY <1>1, <1>2, <1>3, Invariance, PTL DEF Spec

---------------------------------------------------------------------------------
(* The engine implements CommandService: every step changes the fate of at most     *)
(* one command, in a way the contract allows.                                       *)

FateMap == [c \in Commands |-> Fate(c)]
Reached == {c \in Commands : runs[c][1] > 0}

\* The fates are determined by the queue, the workers' commands and the outcomes.
LEMMA FateFrame ==
  ASSUME UNCHANGED <<queue, held, outcome>>
  PROVE  FateMap' = FateMap
  BY DEF FateMap, Fate, Queued, Working

\* A step that settles or moves one command changes the fate of that command alone.
LEMMA FateChange ==
  ASSUME NEW c \in Commands, NEW f, Fate(c)' = f,
         \A d \in Commands \ {c} : Fate(d)' = Fate(d)
  PROVE  FateMap' = [FateMap EXCEPT ![c] = f]
  BY DEF FateMap

\* A step that moves no command changes no fate.
LEMMA FateSame ==
  ASSUME NEW d \in Commands, outcome'[d] = outcome[d],
         Working(d)' <=> Working(d), Queued(d)' <=> Queued(d)
  PROVE  Fate(d)' = Fate(d)
  BY DEF Fate

\* The started engine is the service that has seen no command.
LEMMA ServiceInit == Init => Service!Init
<1> SUFFICES ASSUME Init PROVE Service!Init
  OBVIOUS
<1>1. \A c \in Commands : Fate(c) = "new" /\ runs[c][1] = 0
  BY DEF Init, Fate, Working, Queued
<1> QED
  BY <1>1 DEF Service!Init

\* DispatchCommand's outcomes are the contract's Offer.
LEMMA ServiceOffer ==
  ASSUME IInv, NEW c \in Commands, c \notin arrived, NEW f \in {"waiting", "working", "dropped"},
         Fate(c)' = f, \A d \in Commands \ {c} : Fate(d)' = Fate(d), runs' = runs
  PROVE  Service!Next
<1>1. Fate(c) = "new"
  BY DEF IInv, OnePlace, Fate
<1>2. FateMap' = [FateMap EXCEPT ![c] = f]
  BY FateChange
<1> QED
  BY <1>1, <1>2 DEF FateMap, Service!Offer, Service!Next

\* A return of processCommand is the contract's Settle.
LEMMA ServiceSettle ==
  ASSUME IInv, MaxAttempts > 0, NEW w \in Workers, held[w] \in Commands,
         NEW how \in {"rejected", "failed", "delivered", "undelivered"}, Finish(w, how),
         how \in {"delivered", "undelivered"} => pc[w] \in Reporting,
         how = "rejected" => pc[w] = "lookup",
         UNCHANGED <<queue, arrived, runs>>
  PROVE  Service!Next
<1> DEFINE c == held[w]
<1>0. TypeOK /\ OnePlace /\ WorkerInv(w) /\ c \in Commands
  BY DEF IInv
<1>1. Working(c) /\ outcome[c] = "none"
  BY <1>0 DEF OnePlace, Working
<1>2. Fate(c) = "working"
  BY <1>1 DEF Fate
<1>3. \A d \in Commands : /\ Queued(d)' <=> Queued(d)
                          /\ outcome'[d] = IF d = c THEN how ELSE outcome[d]
                          /\ d # c => (Working(d)' <=> Working(d))
  BY <1>0 DEF TypeOK, OnePlace, Finish, Queued, Working
<1>4. \A d \in Commands : Fate(d)' = IF d = c THEN how ELSE Fate(d)
  BY <1>3 DEF Fate
<1>5. FateMap' = [FateMap EXCEPT ![c] = how]
  BY <1>4 DEF FateMap
<1>6. how \in {"delivered", "undelivered"} => runs[c][1] > 0
  BY <1>0 DEF WorkerInv, Answered, Payloads
<1>7. how = "rejected" => ~(runs[c][1] > 0)
  BY <1>0 DEF WorkerInv
<1> HIDE DEF c
<1>8. Service!Settle(c)
  BY <1>0, <1>2, <1>5, <1>6, <1>7 DEF FateMap, Service!Settle, Service!Settled
<1> QED
  BY <1>0, <1>8 DEF Service!Next

\* A step without effect on fates and executions is invisible to the contract.
LEMMA ServiceStutter ==
  ASSUME UNCHANGED <<queue, held, outcome, runs>>
  PROVE  UNCHANGED Service!vars
  BY FateFrame DEF FateMap, Service!vars

\* Every step of the engine is a step of the contract or none.
LEMMA ServiceStep ==
  ASSUME IInv, MaxAttempts > 0, [Next]_vars
  PROVE  [Service!Next]_(Service!vars)
<1>0. /\ TypeOK /\ OnePlace
      /\ \A w \in Workers : WorkerInv(w)
      /\ \A w \in Workers : Busy(w) => held[w] \in Commands
  BY BusyHolds DEF IInv
<1>1. ASSUME NEW c \in Commands, Accept(c) PROVE Service!Next
  <2>1. \A d : Queued(d)' <=> Queued(d) \/ d = c
    BY <1>0, <1>1, QueuedAppend DEF Accept, TypeOK
  <2>2. UNCHANGED <<held, outcome, runs>> /\ \A d : Working(d)' <=> Working(d)
    BY <1>1 DEF Accept, work, effects, Working
  <2>3. c \notin arrived /\ outcome[c] = "none" /\ ~Working(c)
    BY <1>0, <1>1 DEF Accept, OnePlace
  <2>4. Fate(c)' = "waiting" /\ \A d \in Commands \ {c} : Fate(d)' = Fate(d)
    BY <2>1, <2>2, <2>3 DEF Fate
  <2> QED
    BY <2>2, <2>3, <2>4, ServiceOffer
<1>2. ASSUME NEW c \in Commands, NEW w \in Workers, HandOff(c, w) PROVE Service!Next
  <2>1. UNCHANGED <<queue, outcome, runs>> /\ held[w] = NoCommand
    BY <1>0, <1>2 DEF HandOff, effects, WorkerInv, Busy
  <2>2. \A d \in Commands : /\ Working(d)' <=> Working(d) \/ d = c
                            /\ Queued(d)' <=> Queued(d)
    BY <1>0, <1>2, <2>1 DEF HandOff, TypeOK, Working, Queued
  <2>3. c \notin arrived /\ outcome[c] = "none"
    BY <1>0, <1>2 DEF HandOff, OnePlace
  <2>4. Fate(c)' = "working" /\ \A d \in Commands \ {c} : Fate(d)' = Fate(d)
    BY <2>1, <2>2, <2>3 DEF Fate
  <2> QED
    BY <2>1, <2>3, <2>4, ServiceOffer
<1>3. ASSUME NEW c \in Commands, Drop(c) PROVE Service!Next
  <2>1. /\ UNCHANGED <<queue, held, runs>> /\ c \notin arrived
        /\ outcome' = [outcome EXCEPT ![c] = "dropped"]
    BY <1>3 DEF Drop, work
  <2>2. \A d \in Commands : (Working(d)' <=> Working(d)) /\ (Queued(d)' <=> Queued(d))
    BY <2>1 DEF Working, Queued
  <2>3. Fate(c)' = "dropped" /\ \A d \in Commands \ {c} : Fate(d)' = Fate(d)
    BY <1>0, <2>1, <2>2 DEF Fate, TypeOK
  <2> QED
    BY <2>1, <2>3, ServiceOffer
<1>4. ASSUME NEW w \in Workers, Receive(w) PROVE Service!Next
  <2> DEFINE c == Head(queue)
  <2>1. /\ \A d : Queued(d)' <=> Queued(d) /\ d # c
        /\ Queued(c) /\ c \in Commands
    BY <1>0, <1>4, QueuedTail, HeadTailProperties DEF Receive, TypeOK, OnePlace
  <2>2. UNCHANGED <<outcome, runs>> /\ held[w] = NoCommand
    BY <1>0, <1>4 DEF Receive, effects, WorkerInv, Busy
  <2>3. \A d \in Commands : Working(d)' <=> Working(d) \/ d = c
    BY <1>0, <1>4, <2>1, <2>2 DEF Receive, TypeOK, Working
  <2>4. outcome[c] = "none" /\ ~Working(c)
    BY <1>0, <2>1 DEF OnePlace
  <2> HIDE DEF c
  <2>5. \A d \in Commands : Fate(d)' = IF d = c THEN "working" ELSE Fate(d)
    BY <2>1, <2>2, <2>3, <2>4 DEF Fate
  <2>6. FateMap' = [FateMap EXCEPT ![c] = "working"] /\ Fate(c) = "waiting"
    BY <2>1, <2>4, <2>5 DEF FateMap, Fate
  <2>7. Service!TakeUp(c)
    BY <2>1, <2>2, <2>6 DEF FateMap, Service!TakeUp
  <2> QED
    BY <2>1, <2>7 DEF Service!Next
<1>5. ASSUME NEW w \in Workers, DeviceRuns(w) PROVE Service!Next
  <2>0. PICK c \in Commands : c = held[w]
    BY <1>0, <1>5 DEF DeviceRuns, Busy
  <2>1. /\ outcome[c] = "none" /\ Working(c)
        /\ UNCHANGED <<queue, held, outcome>>
        /\ runs' = [runs EXCEPT ![c][payload[w]] = @ + 1]
    BY <1>0, <1>5, <2>0 DEF DeviceRuns, OnePlace, Working, intake
  <2>2. /\ payload[w] \in {1, 2}
        /\ payload[w] = 2 => runs[c][1] > 0
        /\ runs \in [Commands -> [{1, 2} -> Nat]]
    BY <1>0, <1>5, <2>0 DEF DeviceRuns, WorkerInv, TypeOK, Chain
  <2>3. Reached' = Reached \cup {c}
    <3>1. \A d \in Commands : runs'[d][1] > 0 <=> runs[d][1] > 0 \/ d = c
      BY ONLY <2>1, <2>2
    <3> QED
      BY <2>1, <3>1 DEF Reached
  <2>4. FateMap' = FateMap /\ Fate(c) = "working"
    BY <2>1, FateFrame DEF Fate
  <2>5. Service!Reach(c)
    BY <2>1, <2>3, <2>4 DEF FateMap, Reached, Service!Reach
  <2> QED
    BY <2>5 DEF Service!Next
<1>6. ASSUME NEW w \in Workers,
             \/ Reject(w) \/ RecordError(w) \/ PublishSucceeds(w) \/ GiveUpPublishing(w)
             \/ PublishFails(w) /\ Finish(w, "undelivered")
      PROVE  Service!Next
  <2>1. held[w] \in Commands /\ UNCHANGED <<queue, arrived, runs>>
    BY <1>0, <1>6 DEF Reject, RecordError, PublishSucceeds, GiveUpPublishing, PublishFails, Busy,
       intake, effects
  <2>2. CASE Reject(w)
    BY <2>1, <2>2, ServiceSettle DEF Reject
  <2>3. CASE RecordError(w)
    BY <2>1, <2>3, ServiceSettle DEF RecordError
  <2>4. CASE \/ PublishSucceeds(w) \/ GiveUpPublishing(w)
             \/ PublishFails(w) /\ Finish(w, "undelivered")
    <3>1. pc[w] \in Reporting /\ (Finish(w, "delivered") \/ Finish(w, "undelivered"))
      BY <2>4 DEF PublishSucceeds, GiveUpPublishing, PublishFails, Reporting
    <3> QED
      BY <2>1, <3>1, ServiceSettle
  <2> QED
    BY <1>6, <2>2, <2>3, <2>4
<1>7. ASSUME NEW w \in Workers,
             \/ Exit(w) \/ LookUp(w) \/ Dial(w) \/ SendSucceeds(w)
             \/ SendFails(w) \/ SendRefused(w) \/ BackoffElapses(w) \/ BackoffCancelled(w)
             \/ MarkStatus(w) \/ RecordSuccess(w) \/ Store(w) \/ RepublishElapses(w)
             \/ PublishFails(w) /\ ~Finish(w, "undelivered")
      PROVE  UNCHANGED Service!vars
  <2>1. UNCHANGED <<queue, held, outcome, runs>>
    BY <1>7 DEF Exit, LookUp, Dial, SendSucceeds, SendFails, SendRefused, BackoffElapses,
       BackoffCancelled, MarkStatus, RecordSuccess, Store, RepublishElapses, PublishFails,
       intake, effects
  <2> QED
    BY <2>1, ServiceStutter
<1>8. CASE \/ \E c \in Commands : SendOnClosed(c)
           \/ \E listed \in SUBSET Devices : Reload(listed)
           \/ Cancel \/ MainStep \/ UNCHANGED vars
  <2>1. UNCHANGED <<queue, held, outcome, runs>>
    BY <1>8 DEF SendOnClosed, Reload, Cancel, MainStep, CloseQueue, WorkersDone, Disconnect,
       Advance, intake, work, effects, vars
  <2> QED
    BY <2>1, ServiceStutter
<1>9. ASSUME NEW w \in Workers, WorkerStep(w) PROVE Service!Next \/ UNCHANGED Service!vars
  <2>1. CASE PublishFails(w)
    BY <1>6, <1>7, <2>1
  <2>2. CASE Receive(w) \/ Reject(w) \/ RecordError(w) \/ PublishSucceeds(w) \/ GiveUpPublishing(w)
    BY <1>4, <1>6, <2>2
  <2>3. CASE \/ Exit(w) \/ LookUp(w) \/ Dial(w) \/ SendSucceeds(w)
             \/ SendFails(w) \/ SendRefused(w) \/ BackoffElapses(w) \/ BackoffCancelled(w)
             \/ MarkStatus(w) \/ RecordSuccess(w) \/ Store(w) \/ RepublishElapses(w)
    BY <1>7, <2>3
  <2> QED
    BY <1>9, <2>1, <2>2, <2>3 DEF WorkerStep
<1> QED
  BY <1>1, <1>2, <1>3, <1>5, <1>8, <1>9 DEF Next, Environment

\* With at least one attempt configured, the engine keeps the contract of CommandService
\* whatever the pool size, queue size, retry limit and shutdown point (engine.go 87-294).
THEOREM EngineImplementsService ==
  ASSUME MaxAttempts > 0
  PROVE  Spec => CommandServiceRefined
<1>1. Init => Service!Init
  BY ServiceInit
<1>2. IInv /\ [Next]_vars => [Service!Next]_(Service!vars)
  BY ServiceStep
<1> QED
  BY <1>1, <1>2, Invariance, PTL DEF Spec, CommandServiceRefined, Service!Spec

\* A worker never brings back a device the poller has removed while the worker was busy
\* with it (static_json_registry.go 152-159).
THEOREM RemovedStaysRemoved == Spec => NoResurrection
<1>1. IInv /\ [Next]_vars =>
        [\A d \in Devices : registry[d] = "ABSENT" => registry'[d] \in {"ABSENT", "UNKNOWN"}]_vars
  <2> SUFFICES ASSUME IInv, [Next]_vars, NEW d \in Devices, registry[d] = "ABSENT"
               PROVE  registry'[d] \in {"ABSENT", "UNKNOWN"}
    OBVIOUS
  <2>0. registry \in [Devices -> {"ABSENT", "UNKNOWN", "ONLINE", "OFFLINE"}]
    BY DEF IInv, TypeOK
  <2>1. ASSUME NEW w \in Workers, MarkStatus(w) PROVE registry'[d] = "ABSENT"
    <3>1. \/ registry' = registry
          \/ /\ registry[Dev(w)] # "ABSENT"
             /\ \E s \in {"ONLINE", "OFFLINE"} : registry' = [registry EXCEPT ![Dev(w)] = s]
      BY <2>1 DEF MarkStatus, Update
    <3> QED
      BY <2>0, <3>1
  <2>2. ASSUME NEW listed \in SUBSET Devices, Reload(listed)
        PROVE  registry'[d] \in {"ABSENT", "UNKNOWN"}
    BY <2>2 DEF Reload
  <2>3. CASE /\ \A w \in Workers : ~MarkStatus(w)
             /\ \A listed \in SUBSET Devices : ~Reload(listed)
    BY <2>3 DEF Next, Environment, MainStep, WorkerStep, Accept, HandOff, Drop, SendOnClosed,
       Receive, Exit, Reject, LookUp, Dial, DeviceRuns, SendSucceeds, SendFails, SendRefused,
       BackoffElapses, BackoffCancelled, RecordSuccess, RecordError, Store, PublishSucceeds,
       PublishFails, RepublishElapses, GiveUpPublishing, Cancel, CloseQueue, WorkersDone,
       Disconnect, Advance, effects, vars
  <2> QED
    BY <2>1, <2>2, <2>3
<1> QED
  BY <1>1, Invariance, PTL DEF Spec, NoResurrection

---------------------------------------------------------------------------------
(* How long a command keeps a worker busy.  QueuedIsSettled and ShutdownCompletes    *)
(* are liveness and stay with TLC; what they rest on is proved here for every retry  *)
(* policy: each step a busy worker takes brings it nearer to its select, and nothing *)
(* else in the system sets it back.                                                  *)

Tries == IF MaxAttempts = 0 THEN 1 ELSE MaxAttempts

\* The steps an ended chain has left: registry, histogram, buffer, and publish attempts
\* with a wait after each.
AfterChain == 2 * Tries + 2

\* The steps the attempts still to come may take: a dial, an answer and a wait for each.
AttemptsLeft(w) ==
    3 * (MaxAttempts - attempt[w]) + IF payload[w] = 1 THEN 3 * MaxAttempts ELSE 0

\* The most steps a worker can still take before it is back in its select.
StepsLeft(w) ==
    CASE pc[w] \in {"idle", "exited"} -> 0
      [] pc[w] = "lookup" -> 6 * MaxAttempts + AfterChain + 1
      [] pc[w] = "dial" -> AttemptsLeft(w) + AfterChain + 3
      [] pc[w] = "await" -> AttemptsLeft(w) + AfterChain + 2
      [] pc[w] = "backoff" -> AttemptsLeft(w) + AfterChain + 1
      [] pc[w] \in {"online", "offline"} -> AfterChain
      [] pc[w] \in {"success", "error"} -> 2 * Tries + 1
      [] pc[w] = "store" -> 2 * Tries
      [] pc[w] = "publish" -> 2 * (Tries - attempt[w]) + 1
      [] pc[w] = "republish" -> 2 * (Tries - attempt[w])

\* The publish loop never counts past its attempts.
PublishInv(w) ==
    /\ pc[w] = "publish" => attempt[w] <= Tries
    /\ pc[w] = "republish" => attempt[w] < MaxAttempts

WorkInv == \A w \in Workers : PublishInv(w)

WorkIsBounded == \A w \in Workers : StepsLeft(w) \in 0..(6 * MaxAttempts + 2 * Tries + 3)

WorkProgresses ==
    [][\A w \in Workers : Busy(w) =>
          IF WorkerStep(w) THEN StepsLeft(w)' < StepsLeft(w) ELSE StepsLeft(w)' = StepsLeft(w)]_vars

\* A worker that processes a command comes nearer to its end with every call it makes
\* (engine.go 141-188, 234-265; publish loop of the cloud client).
LEMMA OwnStep ==
  ASSUME TypeOK, NEW w \in Workers, WorkerInv(w), PublishInv(w), Busy(w), WorkerStep(w)
  PROVE  PublishInv(w)' /\ StepsLeft(w)' < StepsLeft(w)
<1> DEFINE M == MaxAttempts
           a == attempt[w]
           p == payload[w]
<1>0. /\ M \in Nat /\ Tries \in Nat /\ Tries >= 1 /\ (M # 0 => Tries = M)
      /\ a \in Nat \ {0} /\ p \in {1, 2} /\ held[w] \in Commands
      /\ pc[w] \in Chain => a <= M
      /\ pc[w] = "backoff" => a < M
      /\ pc[w] = "publish" => a <= Tries
      /\ pc[w] = "republish" => a < M
  BY ConstantsAssumption, BusyHolds DEF TypeOK, Tries, WorkerInv, PublishInv
<1> DEFINE Before == StepsLeft(w)
<1>1. CASE \/ Reject(w) \/ RecordError(w) \/ PublishSucceeds(w) \/ GiveUpPublishing(w)
           \/ PublishFails(w) /\ Finish(w, "undelivered")
  <2>1. pc'[w] = "idle"
    BY <1>1 DEF Reject, RecordError, PublishSucceeds, GiveUpPublishing, Finish, Goto, TypeOK
  <2>2. pc[w] \in {"lookup", "error", "publish", "republish"}
    BY <1>1 DEF Reject, RecordError, PublishSucceeds, GiveUpPublishing, PublishFails
  <2>3. StepsLeft(w) > 0
    <3>1. CASE pc[w] = "lookup" \/ pc[w] = "error"
      BY <1>0, <3>1 DEF StepsLeft, AfterChain
    <3>2. CASE pc[w] = "publish"
      BY <1>0, <3>2 DEF StepsLeft
    <3>3. CASE pc[w] = "republish"
      <4>1. a < Tries
        BY <1>0, <3>3
      <4> QED
        BY <1>0, <3>3, <4>1 DEF StepsLeft
    <3> QED
      BY <2>2, <3>1, <3>2, <3>3
  <2> QED
    BY <2>1, <2>3 DEF StepsLeft, PublishInv
<1>2. CASE LookUp(w)
  <2>1. /\ pc[w] = "lookup" /\ payload'[w] = 1 /\ attempt'[w] = 1
        /\ pc'[w] = IF M = 0 THEN "online" ELSE "dial"
    BY <1>2 DEF LookUp, Goto, TypeOK
  <2>2. CASE M = 0
    BY <1>0, <2>1, <2>2 DEF StepsLeft, AfterChain, PublishInv
  <2>3. CASE M # 0
    BY <1>0, <2>1, <2>3 DEF StepsLeft, AfterChain, AttemptsLeft, PublishInv
  <2> QED
    BY <2>2, <2>3
<1>3. CASE Dial(w)
  <2>1. /\ pc[w] = "dial" /\ pc'[w] = "await"
        /\ payload'[w] = p /\ attempt'[w] = a
    BY <1>3 DEF Dial, Goto, TypeOK
  <2> QED
    BY <1>0, <2>1 DEF StepsLeft, AfterChain, AttemptsLeft, PublishInv, Chain
<1>4. CASE SendSucceeds(w)
  <2>1. pc[w] = "await" /\ a <= M
    BY <1>0, <1>4 DEF SendSucceeds, Chain
  <2>2. CASE p < Payloads(held[w])
    <3>1. p = 1
      BY <1>0, <2>2 DEF Payloads
    <3>2. pc'[w] = "dial" /\ payload'[w] = 2 /\ attempt'[w] = 1
      BY <1>4, <2>2, <3>1 DEF SendSucceeds, Goto, TypeOK
    <3> QED
      BY <1>0, <2>1, <3>1, <3>2 DEF StepsLeft, AfterChain, AttemptsLeft, PublishInv
  <2>3. CASE ~(p < Payloads(held[w]))
    <3>1. pc'[w] = "online"
      BY <1>4, <2>3 DEF SendSucceeds, Goto, TypeOK
    <3> QED
      BY <1>0, <2>1, <3>1 DEF StepsLeft, AfterChain, AttemptsLeft, PublishInv
  <2> QED
    BY <2>2, <2>3
<1>5. CASE SendFails(w) \/ SendRefused(w) \/ BackoffCancelled(w)
  <2>1. /\ pc[w] \in Chain /\ a <= M
        /\ payload'[w] = p /\ attempt'[w] = a
        /\ \/ pc'[w] = "offline"
           \/ pc'[w] = "backoff" /\ pc[w] \in {"dial", "await"}
    <3>1. CASE SendFails(w)
      BY <1>0, <3>1 DEF SendFails, AttemptFailed, Goto, TypeOK, Chain, loop
    <3>2. CASE SendRefused(w) \/ BackoffCancelled(w)
      BY <1>0, <3>2 DEF SendRefused, BackoffCancelled, Goto, TypeOK, Chain, loop
    <3> QED
      BY <1>5, <3>1, <3>2
  <2>2. CASE pc'[w] = "offline"
    BY <1>0, <2>1, <2>2 DEF StepsLeft, AfterChain, AttemptsLeft, PublishInv, Chain
  <2>3. CASE pc'[w] = "backoff" /\ pc[w] \in {"dial", "await"}
    BY <1>0, <2>1, <2>3 DEF StepsLeft, AfterChain, AttemptsLeft, PublishInv
  <2> QED
    BY <2>1, <2>2, <2>3
<1>6. CASE BackoffElapses(w)
  <2>1. /\ pc[w] = "backoff" /\ pc'[w] = "dial"
        /\ payload'[w] = p /\ attempt'[w] = a + 1
    BY <1>0, <1>6 DEF BackoffElapses, Goto, TypeOK
  <2> QED
    BY <1>0, <2>1 DEF StepsLeft, AfterChain, AttemptsLeft, PublishInv
<1>7. CASE MarkStatus(w) \/ RecordSuccess(w)
  <2>1. \/ pc[w] \in {"online", "offline"} /\ pc'[w] \in {"success", "error"}
        \/ pc[w] = "success" /\ pc'[w] = "store"
    BY <1>7 DEF MarkStatus, RecordSuccess, Goto, TypeOK
  <2> QED
    BY <1>0, <2>1 DEF StepsLeft, AfterChain, PublishInv
<1>8. CASE Store(w)
  <2>1. pc[w] = "store" /\ pc'[w] = "publish" /\ attempt'[w] = 1
    BY <1>8 DEF Store, Goto, TypeOK
  <2> QED
    BY <1>0, <2>1 DEF StepsLeft, PublishInv
<1>9. CASE PublishFails(w) /\ ~Finish(w, "undelivered")
  <2>1. pc[w] = "publish" /\ pc'[w] = "republish" /\ attempt'[w] = a /\ a < M
    BY <1>9 DEF PublishFails, Goto, TypeOK, loop
  <2> QED
    BY <1>0, <2>1 DEF StepsLeft, PublishInv
<1>10. CASE RepublishElapses(w)
  <2>1. pc[w] = "republish" /\ pc'[w] = "publish" /\ attempt'[w] = a + 1
    BY <1>0, <1>10 DEF RepublishElapses, Goto, TypeOK
  <2> QED
    BY <1>0, <2>1 DEF StepsLeft, PublishInv
<1>11. ~Receive(w) /\ ~Exit(w)
  BY DEF Receive, Exit, Busy
<1> QED
  BY <1>1, <1>2, <1>3, <1>4, <1>5, <1>6, <1>7, <1>8, <1>9, <1>10, <1>11 DEF WorkerStep

\* No other worker, nor the dispatcher, the poller, a device or the shutdown moves it.
LEMMA NotItsStep ==
  ASSUME TypeOK, NEW w \in Workers, [Next]_vars, ~WorkerStep(w), Busy(w)
  PROVE  pc'[w] = pc[w] /\ payload'[w] = payload[w] /\ attempt'[w] = attempt[w]
<1>1. ASSUME NEW v \in Workers, v # w, WorkerStep(v)
      PROVE  pc'[w] = pc[w] /\ payload'[w] = payload[w] /\ attempt'[w] = attempt[w]
  BY <1>1 DEF TypeOK, WorkerStep, Receive, Exit, Reject, LookUp, Dial, SendSucceeds, SendFails,
     SendRefused, BackoffElapses, BackoffCancelled, MarkStatus, RecordSuccess, RecordError,
     Store, PublishSucceeds, PublishFails, RepublishElapses, GiveUpPublishing,
     AttemptFailed, Finish, Goto, loop
<1>2. ASSUME NEW c \in Commands, NEW v \in Workers, HandOff(c, v)
      PROVE  pc'[w] = pc[w] /\ payload'[w] = payload[w] /\ attempt'[w] = attempt[w]
  BY <1>2 DEF TypeOK, HandOff, Busy, loop
<1>3. CASE \/ \E c \in Commands : Accept(c) \/ Drop(c) \/ SendOnClosed(c)
           \/ \E v \in Workers : DeviceRuns(v)
           \/ \E listed \in SUBSET Devices : Reload(listed)
           \/ Cancel \/ MainStep \/ UNCHANGED vars
  BY <1>3 DEF Accept, Drop, SendOnClosed, DeviceRuns, Reload, Cancel, MainStep, CloseQueue,
     WorkersDone, Disconnect, Advance, work, loop, vars
<1> QED
  BY <1>1, <1>2, <1>3 DEF Next, Environment

\* A worker at its select takes up a command or exits.
LEMMA IdleStep ==
  ASSUME TypeOK, NEW w \in Workers, [Next]_vars, ~Busy(w)
  PROVE  pc'[w] \in {"idle", "exited", "lookup"}
<1>1. ASSUME NEW v \in Workers, WorkerStep(v) PROVE pc'[w] \in {"idle", "exited", "lookup"}
  <2>1. CASE v = w
    <3>1. Receive(w) \/ Exit(w)
      BY <1>1, <2>1 DEF Busy, WorkerStep, Reject, LookUp, Dial, SendSucceeds, SendFails,
         SendRefused, BackoffElapses, BackoffCancelled, MarkStatus, RecordSuccess, RecordError,
         Store, PublishSucceeds, PublishFails, RepublishElapses, GiveUpPublishing
    <3> QED
      BY <3>1 DEF TypeOK, Receive, Exit, Goto
  <2>2. CASE v # w
    <3>1. pc'[w] = pc[w]
      BY <1>1, <2>2 DEF TypeOK, WorkerStep, Receive, Exit, Reject, LookUp, Dial, SendSucceeds,
         SendFails, SendRefused, BackoffElapses, BackoffCancelled, MarkStatus, RecordSuccess,
         RecordError, Store, PublishSucceeds, PublishFails, RepublishElapses, GiveUpPublishing,
         AttemptFailed, Finish, Goto
    <3> QED
      BY <3>1 DEF Busy
  <2> QED
    BY <2>1, <2>2
<1>2. ASSUME NEW c \in Commands, NEW v \in Workers, HandOff(c, v)
      PROVE  pc'[w] \in {"idle", "exited", "lookup"}
  BY <1>2 DEF TypeOK, HandOff, Busy
<1>3. CASE \/ \E c \in Commands : Accept(c) \/ Drop(c) \/ SendOnClosed(c)
           \/ \E v \in Workers : DeviceRuns(v)
           \/ \E listed \in SUBSET Devices : Reload(listed)
           \/ Cancel \/ MainStep \/ UNCHANGED vars
  BY <1>3 DEF Busy, Accept, Drop, SendOnClosed, DeviceRuns, Reload, Cancel, MainStep, CloseQueue,
     WorkersDone, Disconnect, Advance, work, vars
<1> QED
  BY <1>1, <1>2, <1>3 DEF Next, Environment

\* The publish loop's counter stays within the attempts.
LEMMA WorkInvStep ==
  ASSUME IInv, WorkInv, [Next]_vars
  PROVE  WorkInv'
<1> SUFFICES ASSUME NEW w \in Workers PROVE PublishInv(w)'
  BY DEF WorkInv
<1>1. TypeOK /\ WorkerInv(w) /\ PublishInv(w)
  BY DEF IInv, WorkInv
<1>2. CASE Busy(w) /\ WorkerStep(w)
  BY <1>1, <1>2, OwnStep
<1>3. CASE Busy(w) /\ ~WorkerStep(w)
  BY <1>1, <1>3, NotItsStep DEF PublishInv
<1>4. CASE ~Busy(w)
  BY <1>1, <1>4, IdleStep DEF PublishInv
<1> QED
  BY <1>2, <1>3, <1>4

\* It does in every reachable state.
LEMMA WorkInvariance == Spec => [](IInv /\ WorkInv)
<1>1. Init => WorkInv
  BY DEF Init, WorkInv, PublishInv
<1>2. IInv /\ WorkInv /\ [Next]_vars => WorkInv'
  BY WorkInvStep
<1> QED
  BY <1>1, <1>2, Invariance, PTL DEF Spec

\* A worker is back in its select after a number of steps that the retry policy alone
\* bounds, whatever the device, the cloud and the buffer do (engine.go 117-265).
THEOREM WorkIsFinite == Spec => []WorkIsBounded
<1>1. IInv /\ WorkInv => WorkIsBounded
  <2> SUFFICES ASSUME IInv, WorkInv, NEW w \in Workers
               PROVE  StepsLeft(w) \in 0..(6 * MaxAttempts + 2 * Tries + 3)
    BY DEF WorkIsBounded
  <2>1. /\ MaxAttempts \in Nat /\ Tries \in Nat /\ Tries >= 1
        /\ attempt[w] \in Nat \ {0} /\ payload[w] \in {1, 2} /\ pc[w] \in Steps
        /\ pc[w] \in Chain => attempt[w] <= MaxAttempts
        /\ pc[w] = "publish" => attempt[w] <= Tries
        /\ pc[w] = "republish" => attempt[w] < MaxAttempts /\ MaxAttempts = Tries
    BY ConstantsAssumption DEF IInv, TypeOK, WorkInv, PublishInv, WorkerInv, Tries
  <2>2. CASE pc[w] \in Chain
    <3>1. /\ AttemptsLeft(w) \in Nat
          /\ AttemptsLeft(w) <= 6 * MaxAttempts - 3
      BY <2>1, <2>2 DEF AttemptsLeft
    <3>2. /\ StepsLeft(w) \in Nat
          /\ StepsLeft(w) <= AttemptsLeft(w) + AfterChain + 3
      BY <2>1, <2>2, <3>1 DEF StepsLeft, AfterChain, Chain
    <3> QED
      BY <2>1, <3>1, <3>2 DEF AfterChain
  <2>3. CASE pc[w] \in {"publish", "republish"}
    <3>1. Tries - attempt[w] \in 0..(Tries - 1)
      BY <2>1, <2>3
    <3>2. StepsLeft(w) \in {2 * (Tries - attempt[w]) + 1, 2 * (Tries - attempt[w])}
      BY <2>3 DEF StepsLeft
    <3> QED
      BY <2>1, <3>1, <3>2
  <2>4. CASE pc[w] \in {"idle", "exited"}
    <3>1. StepsLeft(w) = 0
      BY <2>4 DEF StepsLeft
    <3> QED
      BY <2>1, <3>1
  <2>5. CASE pc[w] = "lookup"
    BY <2>1, <2>5 DEF StepsLeft, AfterChain
  <2>6. CASE pc[w] \in {"online", "offline", "success", "error", "store"}
    <3>1. StepsLeft(w) \in {2 * Tries + 2, 2 * Tries + 1, 2 * Tries}
      BY <2>6 DEF StepsLeft, AfterChain
    <3> QED
      BY <2>1, <3>1
  <2> QED
    BY <2>1, <2>2, <2>3, <2>4, <2>5, <2>6 DEF Steps, Chain, Reporting
<1> QED
  BY <1>1, WorkInvariance, PTL

\* Every step a busy worker takes is one less, and no step of anything else in the gateway
\* or around it gives it more to do.
THEOREM WorkAdvances == Spec => WorkProgresses
<1>1. IInv /\ WorkInv /\ [Next]_vars =>
        [\A w \in Workers : Busy(w) =>
            IF WorkerStep(w) THEN StepsLeft(w)' < StepsLeft(w)
            ELSE StepsLeft(w)' = StepsLeft(w)]_vars
  <2> SUFFICES ASSUME IInv, WorkInv, [Next]_vars, NEW w \in Workers, Busy(w)
               PROVE  IF WorkerStep(w) THEN StepsLeft(w)' < StepsLeft(w)
                      ELSE StepsLeft(w)' = StepsLeft(w)
    OBVIOUS
  <2>1. TypeOK /\ WorkerInv(w) /\ PublishInv(w)
    BY DEF IInv, WorkInv
  <2>2. CASE WorkerStep(w)
    BY <2>1, <2>2, OwnStep
  <2>3. CASE ~WorkerStep(w)
    BY <2>1, <2>3, NotItsStep DEF StepsLeft, AttemptsLeft
  <2> QED
    BY <2>2, <2>3
<1> QED
  BY <1>1, WorkInvariance, PTL DEF Spec, WorkProgresses
=================================================================================
