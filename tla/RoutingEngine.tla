----------------------------- MODULE RoutingEngine ------------------------------
(***************************************************************************)
(* The routing engine (internal/core/router/engine.go): a bounded command  *)
(* channel fed by the MQTT callback, a pool of workers that carry each     *)
(* command to its device with retries and report the answer, and the       *)
(* shutdown main drives (cmd/gateway/main.go).                             *)
(*                                                                         *)
(* A worker's locals live in functions over Workers; pc names the call it  *)
(* makes next.  Calls into other components are single steps with every    *)
(* result that component can return.                                       *)
(*                                                                         *)
(* A definition marked "Mistake" is no part of the specification: it is a  *)
(* plausible wrong version of the definition after it, which the           *)
(* properties must tell from the right one.                                *)
(***************************************************************************)
EXTENDS Naturals, Sequences, FiniteSets

CONSTANTS Workers,       \* the goroutines Start launches
          Commands,      \* deliveries of C2D messages (a redelivery is another element)
          Devices,       \* device ids the registry source may list
          DeviceOf,      \* the device id a command names
          NameOf,        \* its CommandType
          ProtocolOf,    \* the protocol a device is configured with
          QueueSize,     \* COMMAND_QUEUE_SIZE
          MaxAttempts,   \* RETRY_MAX_ATTEMPTS
          NoCommand

ASSUME ConstantsAssumption ==
    /\ NoCommand \notin Commands
    /\ DeviceOf \in [Commands -> Devices]
    /\ NameOf \in [Commands -> {"TURN_ON", "TURN_OFF", "GET_STATUS", "REBOOT"}]
    /\ ProtocolOf \in [Devices -> {"PJLink", "ONVIF", "ISAPI", "ShureAPI"}]
    /\ QueueSize \in Nat
    /\ MaxAttempts \in Nat

VARIABLES phase,     \* how far main's shutdown has come; "panicked" if the process died
          queue,     \* cmdChan
          arrived,   \* commands DispatchCommand has been called with
          pc,        \* next call of each worker
          held,      \* the command a worker processes
          payload,   \* 1: the primary command, 2: the follow-up
          attempt,   \* the retry loop's counter
          ran,       \* the payload of the current attempt is on its way to execution
          registry,  \* runtime status per device, "ABSENT" if not in the map
          runs,      \* how often payload k of command c was given to the device
          dropped,   \* gateway_commands_dropped_total
          latency,   \* samples in gateway_command_latency_seconds, by status
          stored,    \* commands whose telemetry AddData wrote
          received,  \* copies of a command's telemetry the IoT Hub got
          outcome    \* history: how each command ended

intake == <<phase, queue, arrived>>
loop == <<payload, attempt, ran>>
work == <<pc, held, loop>>
telemetry == <<stored, received>>
metrics == <<dropped, latency>>
effects == <<registry, runs, metrics, telemetry>>
vars == <<intake, work, effects, outcome>>

Phases == {"running", "cancelled", "closed", "stopped", "disconnected", "panicked"}
Chain == {"dial", "await", "backoff"}
Reporting == {"store", "publish", "republish"}
Steps == {"idle", "exited", "lookup", "online", "offline", "success", "error"}
         \cup Chain \cup Reporting
Outcomes == {"none", "dropped", "rejected", "failed", "delivered", "undelivered"}

Busy(w) == pc[w] \notin {"idle", "exited"}
Dev(w) == DeviceOf[held[w]]

\* Only the PJLink adapter is registered; it translates three commands and
\* follows GET_STATUS (POWR) with a LAMP query.
Supported(d) == ProtocolOf[d] = "PJLink"
Translatable(c) == NameOf[c] \in {"TURN_ON", "TURN_OFF", "GET_STATUS"}
Payloads(c) == IF NameOf[c] = "GET_STATUS" THEN 2 ELSE 1

TypeOK ==
    /\ phase \in Phases
    /\ queue \in Seq(Commands)
    /\ Len(queue) <= QueueSize
    /\ arrived \subseteq Commands
    /\ pc \in [Workers -> Steps]
    /\ held \in [Workers -> Commands \cup {NoCommand}]
    /\ payload \in [Workers -> {1, 2}]
    /\ attempt \in [Workers -> Nat \ {0}]
    /\ ran \in [Workers -> BOOLEAN]
    /\ registry \in [Devices -> {"ABSENT", "UNKNOWN", "ONLINE", "OFFLINE"}]
    /\ runs \in [Commands -> [{1, 2} -> Nat]]
    /\ dropped \in Nat
    /\ latency \in [{"SUCCESS", "ERROR"} -> Nat]
    /\ stored \subseteq Commands
    /\ received \in [Commands -> Nat]
    /\ outcome \in [Commands -> Outcomes]

Init ==
    /\ phase = "running"
    /\ queue = <<>>
    /\ arrived = {}
    /\ pc = [w \in Workers |-> "idle"]
    /\ held = [w \in Workers |-> NoCommand]
    /\ payload = [w \in Workers |-> 1]
    /\ attempt = [w \in Workers |-> 1]
    /\ ran = [w \in Workers |-> FALSE]
    /\ registry \in [Devices -> {"ABSENT", "UNKNOWN"}]
    /\ runs = [c \in Commands |-> [k \in {1, 2} |-> 0]]
    /\ dropped = 0
    /\ latency = [s \in {"SUCCESS", "ERROR"} |-> 0]
    /\ stored = {}
    /\ received = [c \in Commands |-> 0]
    /\ outcome = [c \in Commands |-> "none"]

---------------------------------------------------------------------------------
(* DispatchCommand, called from the MQTT client's message goroutine until  *)
(* main disconnects it: a non-blocking send on cmdChan.                    *)

ChannelOpen == phase \in {"running", "cancelled"}

Accept(c) ==
    /\ c \notin arrived /\ ChannelOpen /\ Len(queue) < QueueSize
    /\ arrived' = arrived \cup {c}
    /\ queue' = Append(queue, c)
    /\ UNCHANGED <<phase, work, effects, outcome>>

\* A worker parked in its select takes the value directly.
HandOff(c, w) ==
    /\ c \notin arrived /\ phase = "running" /\ queue = <<>> /\ pc[w] = "idle"
    /\ arrived' = arrived \cup {c}
    /\ pc' = [pc EXCEPT ![w] = "lookup"]
    /\ held' = [held EXCEPT ![w] = c]
    /\ UNCHANGED <<phase, queue, loop, effects, outcome>>

\* Mistake: room is made by throwing the oldest command away, uncounted.
EvictOldest(c) ==
    /\ c \notin arrived /\ ChannelOpen /\ QueueSize > 0 /\ Len(queue) = QueueSize
    /\ arrived' = arrived \cup {c}
    /\ queue' = Append(Tail(queue), c)
    /\ UNCHANGED <<phase, work, effects, outcome>>

Drop(c) ==
    /\ c \notin arrived /\ ChannelOpen /\ Len(queue) = QueueSize
    /\ arrived' = arrived \cup {c}
    /\ dropped' = dropped + 1
    /\ outcome' = [outcome EXCEPT ![c] = "dropped"]
    /\ UNCHANGED <<phase, queue, work, registry, runs, latency, telemetry>>

\* Stop has closed the channel but the MQTT client still delivers.
SendOnClosed(c) ==
    /\ c \notin arrived /\ phase \in {"closed", "stopped"}
    /\ phase' = "panicked"
    /\ UNCHANGED <<queue, arrived, work, effects, outcome>>

---------------------------------------------------------------------------------
(* worker and processCommand up to the first dial.                         *)

Goto(w, step) == pc' = [pc EXCEPT ![w] = step]

\* processCommand returns and the worker is back in its select.
Finish(w, how) ==
    /\ Goto(w, "idle")
    /\ held' = [held EXCEPT ![w] = NoCommand]
    /\ outcome' = [outcome EXCEPT ![held[w]] = how]

Receive(w) ==
    /\ pc[w] = "idle" /\ queue # <<>>
    /\ queue' = Tail(queue)
    /\ held' = [held EXCEPT ![w] = Head(queue)]
    /\ Goto(w, "lookup")
    /\ UNCHANGED <<phase, arrived, loop, effects, outcome>>

Exit(w) ==
    /\ pc[w] = "idle" /\ phase # "running"
    /\ Goto(w, "exited")
    /\ UNCHANGED <<intake, held, loop, effects, outcome>>

\* Mistake: lookup failures are observed as errors.
RejectObserved(w) ==
    /\ pc[w] = "lookup"
    /\ registry[Dev(w)] = "ABSENT" \/ ~Supported(Dev(w)) \/ ~Translatable(held[w])
    /\ latency' = [latency EXCEPT !["ERROR"] = @ + 1]
    /\ Finish(w, "rejected")
    /\ UNCHANGED <<intake, loop, registry, runs, dropped, telemetry>>

\* GetDevice, GetAdapter and TranslateCommand; an error ends the command silently.
Reject(w) ==
    /\ pc[w] = "lookup"
    /\ \/ registry[Dev(w)] = "ABSENT"
       \/ ~Supported(Dev(w))
       \/ ~Translatable(held[w])
    /\ Finish(w, "rejected")
    /\ UNCHANGED <<intake, loop, effects>>

\* Mistake: the loop counts from 0.
LookUpFromZero(w) ==
    /\ pc[w] = "lookup"
    /\ registry[Dev(w)] # "ABSENT" /\ Supported(Dev(w)) /\ Translatable(held[w])
    /\ Goto(w, IF MaxAttempts = 0 THEN "online" ELSE "dial")
    /\ payload' = [payload EXCEPT ![w] = 1]
    /\ attempt' = [attempt EXCEPT ![w] = 0]
    /\ UNCHANGED <<intake, held, ran, effects, outcome>>

\* With MaxAttempts = 0 executeWithRetry falls through its loop and returns no error.
LookUp(w) ==
    /\ pc[w] = "lookup"
    /\ registry[Dev(w)] # "ABSENT" /\ Supported(Dev(w)) /\ Translatable(held[w])
    /\ Goto(w, IF MaxAttempts = 0 THEN "online" ELSE "dial")
    /\ payload' = [payload EXCEPT ![w] = 1]
    /\ attempt' = [attempt EXCEPT ![w] = 1]
    /\ UNCHANGED <<intake, held, ran, effects, outcome>>

---------------------------------------------------------------------------------
(* executeCommandChain and executeWithRetry over TCPCommunicator.          *)

\* Mistake: <= for <.
RetryOnceMore(w) ==
    Goto(w, IF attempt[w] <= MaxAttempts THEN "backoff" ELSE "offline")

AttemptFailed(w) ==
    Goto(w, IF attempt[w] < MaxAttempts THEN "backoff" ELSE "offline")

\* A dial under a cancelled context fails at once, as a retryable timeout.
Dial(w) ==
    /\ pc[w] = "dial" /\ phase = "running"
    /\ Goto(w, "await")
    /\ ran' = [ran EXCEPT ![w] = FALSE]
    /\ UNCHANGED <<intake, held, payload, attempt, effects, outcome>>

\* The payload is written, and the device will execute it: before it answers, or after
\* the gateway has given up.  A payload that is written and never executed is one that
\* SendFails comes before.
DeviceRuns(w) ==
    /\ pc[w] = "await" /\ ~ran[w]
    /\ ran' = [ran EXCEPT ![w] = TRUE]
    /\ runs' = [runs EXCEPT ![held[w]][payload[w]] = @ + 1]
    /\ UNCHANGED <<intake, pc, held, payload, attempt, registry, metrics, telemetry, outcome>>

SendSucceeds(w) ==
    /\ pc[w] = "await" /\ ran[w]
    /\ IF payload[w] < Payloads(held[w])
       THEN /\ Goto(w, "dial")
            /\ payload' = [payload EXCEPT ![w] = @ + 1]
            /\ attempt' = [attempt EXCEPT ![w] = 1]
       ELSE /\ Goto(w, "online")
            /\ UNCHANGED <<payload, attempt>>
    /\ UNCHANGED <<intake, held, ran, effects, outcome>>

\* ErrTimeout or ErrNetwork, before or after the device acted.
SendFails(w) ==
    /\ pc[w] \in {"dial", "await"}
    /\ AttemptFailed(w)
    /\ UNCHANGED <<intake, held, loop, effects, outcome>>

\* An unclassified error (SetDeadline, before anything is written) is not retried.
SendRefused(w) ==
    /\ pc[w] = "await" /\ ~ran[w]
    /\ Goto(w, "offline")
    /\ UNCHANGED <<intake, held, loop, effects, outcome>>

\* Mistake: the attempt is not counted.
RetryForever(w) ==
    /\ pc[w] = "backoff"
    /\ Goto(w, "dial")
    /\ UNCHANGED <<intake, held, loop, effects, outcome>>

BackoffElapses(w) ==
    /\ pc[w] = "backoff"
    /\ Goto(w, "dial")
    /\ attempt' = [attempt EXCEPT ![w] = @ + 1]
    /\ UNCHANGED <<intake, held, payload, ran, effects, outcome>>

BackoffCancelled(w) ==
    /\ pc[w] = "backoff" /\ phase # "running"
    /\ Goto(w, "offline")
    /\ UNCHANGED <<intake, held, loop, effects, outcome>>

---------------------------------------------------------------------------------
(* The end of processCommand: registry, metrics, buffer, cloud.            *)

\* Mistake: the copy is stored back whether or not the device is still there.
Upsert(d, s) == registry' = [registry EXCEPT ![d] = s]

\* Update changes a device that is still in the map and ignores any other.
Update(d, s) ==
    registry' = IF registry[d] = "ABSENT" THEN registry ELSE [registry EXCEPT ![d] = s]

MarkStatus(w) ==
    /\ \/ pc[w] = "online" /\ Update(Dev(w), "ONLINE") /\ Goto(w, "success")
       \/ pc[w] = "offline" /\ Update(Dev(w), "OFFLINE") /\ Goto(w, "error")
    /\ UNCHANGED <<intake, held, loop, runs, metrics, telemetry, outcome>>

RecordSuccess(w) ==
    /\ pc[w] = "success"
    /\ latency' = [latency EXCEPT !["SUCCESS"] = @ + 1]
    /\ Goto(w, "store")
    /\ UNCHANGED <<intake, held, loop, registry, runs, dropped, telemetry, outcome>>

\* Mistake: no return after a failed chain.
ErrorIgnored(w) ==
    /\ pc[w] = "error"
    /\ latency' = [latency EXCEPT !["ERROR"] = @ + 1]
    /\ Goto(w, "store")
    /\ UNCHANGED <<intake, held, loop, registry, runs, dropped, telemetry, outcome>>

RecordError(w) ==
    /\ pc[w] = "error"
    /\ latency' = [latency EXCEPT !["ERROR"] = @ + 1]
    /\ Finish(w, "failed")
    /\ UNCHANGED <<intake, loop, registry, runs, dropped, telemetry>>

\* AddData; its failure is logged and the telemetry is published all the same.
Store(w) ==
    /\ pc[w] = "store"
    /\ stored' \in {stored, stored \cup {held[w]}}
    /\ attempt' = [attempt EXCEPT ![w] = 1]
    /\ Goto(w, "publish")
    /\ UNCHANGED <<intake, held, payload, ran, registry, runs, metrics, received, outcome>>

Arrives(w) == received' = [received EXCEPT ![held[w]] = @ + 1]

\* Success can come before the hub has the message, if ever (SuccessIsReceived in CloudLink).
PublishSucceeds(w) ==
    /\ pc[w] = "publish" /\ attempt[w] <= MaxAttempts
    /\ Arrives(w) \/ UNCHANGED received
    /\ Finish(w, "delivered")
    /\ UNCHANGED <<intake, loop, registry, runs, metrics, stored>>

\* Not connected, or no PUBACK within 5 s: then the hub may have the message.
PublishFails(w) ==
    /\ pc[w] = "publish" /\ attempt[w] <= MaxAttempts
    /\ Arrives(w) \/ UNCHANGED received
    /\ IF attempt[w] < MaxAttempts
       THEN Goto(w, "republish") /\ UNCHANGED <<held, outcome>>
       ELSE Finish(w, "undelivered")
    /\ UNCHANGED <<intake, loop, registry, runs, metrics, stored>>

RepublishElapses(w) ==
    /\ pc[w] = "republish"
    /\ Goto(w, "publish")
    /\ attempt' = [attempt EXCEPT ![w] = @ + 1]
    /\ UNCHANGED <<intake, held, payload, ran, effects, outcome>>

\* Cancelled while waiting, or no attempt to make at all.
GiveUpPublishing(w) ==
    /\ \/ pc[w] = "republish" /\ phase # "running"
       \/ pc[w] = "publish" /\ attempt[w] > MaxAttempts
    /\ Finish(w, "undelivered")
    /\ UNCHANGED <<intake, loop, effects>>

---------------------------------------------------------------------------------
(* The registry poller's reload: a device that stays keeps its status, a   *)
(* new one is UNKNOWN.                                                     *)
Reload(listed) ==
    /\ registry' = [d \in Devices |->
           IF d \notin listed THEN "ABSENT"
           ELSE IF registry[d] = "ABSENT" THEN "UNKNOWN" ELSE registry[d]]
    /\ UNCHANGED <<intake, work, runs, metrics, telemetry, outcome>>

(* main after the signal: cancelEngine, Stop (close, then wg.Wait), Disconnect. *)
Advance(from, to) ==
    /\ phase = from
    /\ phase' = to
    /\ UNCHANGED <<queue, arrived, work, effects, outcome>>

Cancel == Advance("running", "cancelled")
CloseQueue == Advance("cancelled", "closed")
StopWithoutWait == Advance("closed", "stopped")     \* Mistake: no wg.Wait.
WorkersDone == (\A w \in Workers : pc[w] = "exited") /\ Advance("closed", "stopped")
Disconnect == Advance("stopped", "disconnected")

---------------------------------------------------------------------------------
WorkerStep(w) ==
    \/ Receive(w) \/ Exit(w) \/ Reject(w) \/ LookUp(w)
    \/ Dial(w) \/ SendSucceeds(w) \/ SendFails(w) \/ SendRefused(w)
    \/ BackoffElapses(w) \/ BackoffCancelled(w)
    \/ MarkStatus(w) \/ RecordSuccess(w) \/ RecordError(w)
    \/ Store(w) \/ PublishSucceeds(w) \/ PublishFails(w)
    \/ RepublishElapses(w) \/ GiveUpPublishing(w)

MainStep == CloseQueue \/ WorkersDone \/ Disconnect

Environment ==
    \/ \E c \in Commands :
          Accept(c) \/ Drop(c) \/ SendOnClosed(c) \/ \E w \in Workers : HandOff(c, w)
    \/ \E w \in Workers : DeviceRuns(w)
    \/ \E listed \in SUBSET Devices : Reload(listed)
    \/ Cancel

\* A panic in any goroutine ends the process.
Next == phase # "panicked" /\ (Environment \/ MainStep \/ \E w \in Workers : WorkerStep(w))

Spec == Init /\ [][Next]_vars

\* The Go scheduler runs every goroutine that can run; socket deadlines, the
\* publish timeout and the backoff timers end every wait of a worker.  Nothing
\* makes commands arrive, a device act, the registry change or the signal come.
FairSpec ==
    /\ Spec
    /\ \A w \in Workers : WF_vars(phase # "panicked" /\ WorkerStep(w))
    /\ WF_vars(phase # "panicked" /\ MainStep)

---------------------------------------------------------------------------------
(* Properties.                                                             *)

Queued(c) == \E i \in DOMAIN queue : queue[i] = c
Working(c) == \E w \in Workers : held[w] = c

\* Concurrent dispatch, hand-off and receive neither lose nor duplicate a command
\* (engine.go 87-113): an arrived command is queued once, or processed by one
\* worker, or settled, and never two of these.
OnePlace ==
    /\ \A i, j \in DOMAIN queue : queue[i] = queue[j] => i = j
    /\ \A v, w \in Workers : held[v] # NoCommand /\ held[v] = held[w] => v = w
    /\ \A c \in Commands :
          /\ c \in arrived <=> Queued(c) \/ Working(c) \/ outcome[c] # "none"
          /\ ~(Queued(c) /\ Working(c))
          /\ outcome[c] # "none" => ~Queued(c) /\ ~Working(c)

\* The retry loop (engine.go 234-265) restarts for the follow-up of a chain, and a
\* lost answer makes the device run a payload again: still no payload is executed
\* more often than the policy allows.
RetryBound == \A c \in Commands, k \in {1, 2} : runs[c][k] <= MaxAttempts

\* Telemetry the buffer holds or the hub received (engine.go 164-181) stands for
\* answers of the device to every payload of the command's chain.
NoPhantomTelemetry ==
    \A c \in Commands : c \in stored \/ received[c] > 0 =>
        \A k \in 1..Payloads(c) : runs[c][k] > 0

\* Every command that got past the lookups is in the latency histogram exactly once,
\* under the status it ended with (engine.go 141-166).
LatencyCountsOutcomes ==
    LET Ended(S) == Cardinality({c \in Commands : outcome[c] \in S})
    IN  /\ latency["ERROR"] = Ended({"failed"})
        /\ latency["SUCCESS"] = Ended({"delivered", "undelivered"})
                                 + Cardinality({w \in Workers : pc[w] \in Reporting})

(* The inductive invariant behind the four invariants above: what the state of a *)
(* worker and the history of a command say about the device's executions.        *)

Answered(c) == \A k \in 1..Payloads(c) : runs[c][k] > 0

\* The device has not yet executed the payload in the current attempt.
Untried(w) == pc[w] = "dial" \/ (pc[w] = "await" /\ ~ran[w])

\* A worker holds a command exactly while it is busy.  In the chain the current
\* attempt accounts for at most one more execution of the current payload; earlier
\* payloads were executed and later ones were not.
WorkerInv(w) ==
    /\ Busy(w) <=> held[w] # NoCommand
    /\ pc[w] = "lookup" => \A k \in {1, 2} : runs[held[w]][k] = 0
    /\ pc[w] \in Chain =>
          /\ payload[w] <= Payloads(held[w])
          /\ attempt[w] <= MaxAttempts
          /\ payload[w] = 1 => runs[held[w]][2] = 0
          /\ payload[w] = 2 => runs[held[w]][1] > 0
          /\ runs[held[w]][payload[w]] <= attempt[w]
    /\ Untried(w) => runs[held[w]][payload[w]] < attempt[w]
    /\ pc[w] = "backoff" => attempt[w] < MaxAttempts
    /\ pc[w] = "await" /\ ran[w] => runs[held[w]][payload[w]] > 0
    /\ pc[w] \in {"online", "success"} \cup Reporting => MaxAttempts = 0 \/ Answered(held[w])

CommandInv(c) ==
    /\ c \notin arrived \/ Queued(c) \/ outcome[c] \in {"dropped", "rejected"} =>
          \A k \in {1, 2} : runs[c][k] = 0
    /\ c \in stored \/ received[c] > 0 \/ outcome[c] \in {"delivered", "undelivered"} =>
          MaxAttempts = 0 \/ Answered(c)

StopInv == phase \in {"stopped", "disconnected"} => \A w \in Workers : pc[w] = "exited"

IInv ==
    /\ TypeOK
    /\ OnePlace
    /\ RetryBound
    /\ \A w \in Workers : WorkerInv(w)
    /\ \A c \in Commands : CommandInv(c)
    /\ StopInv

\* Once Stop has returned (engine.go 290-294) no worker touches a device, the buffer
\* main is about to close, or the cloud client main is about to disconnect.
QuietAfterStop ==
    [][(phase \in {"stopped", "disconnected"}) =>
          UNCHANGED <<work, runs, latency, telemetry, outcome>>]_vars

\* A worker that finishes with a device the poller has removed meanwhile does not
\* bring it back (registry 152-159): a device reappears by a reload only, as UNKNOWN.
NoResurrection ==
    [][\A d \in Devices : registry[d] = "ABSENT" => registry'[d] \in {"ABSENT", "UNKNOWN"}]_vars

\* A queued command is settled unless shutdown begins (engine.go 96-113).
QueuedIsSettled ==
    \A c \in Commands : Queued(c) ~> outcome[c] # "none" \/ phase # "running"

\* After the signal main gets through Stop and Disconnect (main.go 204-212): no
\* worker, timer or full queue can hold it up, a panic aside.
ShutdownCompletes == phase = "cancelled" ~> phase \in {"disconnected", "panicked"}

\* The contract of the service, under the mapping of queue, workers and history to
\* one fate per command.
Fate(c) == IF outcome[c] # "none" THEN outcome[c]
           ELSE IF Working(c) THEN "working"
           ELSE IF Queued(c) THEN "waiting" ELSE "new"

Service == INSTANCE CommandService
           WITH fate <- [c \in Commands |-> Fate(c)],
                reached <- {c \in Commands : runs[c][1] > 0}

CommandServiceRefined == Service!Spec

---------------------------------------------------------------------------------
(* What the repository says of the engine and the code does not do.        *)

\* main.go 195, 214: "Graceful Shutdown", "Edge Gateway shut down cleanly".
DispatchSurvivesShutdown == phase # "panicked"
=================================================================================
