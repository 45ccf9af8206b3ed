-------------------------- MODULE TelemetryPassThrough --------------------------
(***************************************************************************)
(* The registry together with the goroutines of main                       *)
(* (cmd/gateway/main.go) that copy the telemetry the registry source lists *)
(* for a device into the buffer: a ticker lists the devices and pushes     *)
(* their telemetry into a bounded channel, a second goroutine takes it     *)
(* from there and calls AddData, and the shutdown cancels both and closes  *)
(* the buffer without waiting for them.                                    *)
(*                                                                         *)
(* Telemetry is named by its device and the version of the source.         *)
(***************************************************************************)
EXTENDS DeviceRegistry, Sequences

CONSTANTS ChannelSize,   \* capacity of telemetryChan
          Silent         \* devices whose entries carry no telemetry

ASSUME PassThroughAssumption ==
    /\ ChannelSize \in Nat \ {0}
    /\ Silent \subseteq Devices

VARIABLES phase,         \* main: running, engine context cancelled, buffer closed
          ticker,        \* the listing goroutine: between ticks, pushing, stopped
          batch,         \* telemetry it has still to push, 0 for none
          telemetryChan,
          writer,        \* the buffering goroutine
          holding,       \* the telemetry it took from the channel
          stored         \* history: the newest telemetry of each device in the buffer

pushing == <<ticker, batch>>
writing == <<writer, holding>>
passThrough == <<phase, pushing, telemetryChan, writing, stored>>
vars == <<registryVars, passThrough>>

Telemetry == [dev : Devices, version : Versions]
Nothing == [dev |-> None, version |-> 0]

PassThroughTypeOK ==
    /\ TypeOK
    /\ phase \in {"running", "cancelled", "closed"}
    /\ ticker \in {"waiting", "pushing", "stopped"}
    /\ batch \in [Devices -> Versions]
    /\ telemetryChan \in Seq(Telemetry)
    /\ Len(telemetryChan) <= ChannelSize
    /\ writer \in {"waiting", "storing", "stopped"}
    /\ holding \in Telemetry \cup {Nothing}
    /\ stored \in [Devices -> Versions]

PassThroughInit ==
    /\ Init
    /\ phase = "running"
    /\ ticker = "waiting"
    /\ batch = [d \in Devices |-> 0]
    /\ telemetryChan = <<>>
    /\ writer = "waiting"
    /\ holding = Nothing
    /\ stored = [d \in Devices |-> 0]

---------------------------------------------------------------------------------
(* The ticker.                                                             *)

\* ListDevices: copies of the entries the map holds now.
Tick ==
    /\ loaded /\ ticker = "waiting"
    /\ ticker' = "pushing"
    /\ batch' = [d \in Devices |-> IF d \in Silent THEN 0 ELSE config[d]]
    /\ UNCHANGED <<registryVars, phase, telemetryChan, writing, stored>>

\* The devices come in the order of a map iteration.
Push(d) ==
    /\ ticker = "pushing" /\ batch[d] # 0
    /\ Len(telemetryChan) < ChannelSize
    /\ telemetryChan' = Append(telemetryChan, [dev |-> d, version |-> batch[d]])
    /\ batch' = [batch EXCEPT ![d] = 0]
    /\ UNCHANGED <<registryVars, phase, ticker, writing, stored>>

\* The default branch: taken only if the channel is full and the context is alive.
PushDropped(d) ==
    /\ ticker = "pushing" /\ batch[d] # 0
    /\ phase = "running" /\ Len(telemetryChan) = ChannelSize
    /\ batch' = [batch EXCEPT ![d] = 0]
    /\ UNCHANGED <<registryVars, phase, ticker, telemetryChan, writing, stored>>

PushDone ==
    /\ ticker = "pushing" /\ \A d \in Devices : batch[d] = 0
    /\ ticker' = "waiting"
    /\ UNCHANGED <<registryVars, phase, batch, telemetryChan, writing, stored>>

\* Between ticks, or instead of a send.
TickerStops ==
    /\ phase # "running"
    /\ ticker = "waiting" \/ (ticker = "pushing" /\ \E d \in Devices : batch[d] # 0)
    /\ ticker' = "stopped"
    /\ UNCHANGED <<registryVars, phase, batch, telemetryChan, writing, stored>>

---------------------------------------------------------------------------------
(* The buffering goroutine.                                                *)

Take ==
    /\ writer = "waiting" /\ telemetryChan # <<>>
    /\ writer' = "storing"
    /\ holding' = Head(telemetryChan)
    /\ telemetryChan' = Tail(telemetryChan)
    /\ UNCHANGED <<registryVars, phase, pushing, stored>>

AddData ==
    /\ writer = "storing" /\ phase # "closed"
    /\ stored' = [stored EXCEPT ![holding.dev] = holding.version]
    /\ writer' = "waiting"
    /\ holding' = Nothing
    /\ UNCHANGED <<registryVars, phase, pushing, telemetryChan>>

\* Mistake: a failed AddData ends the goroutine.
WriterGivesUp ==
    /\ writer = "storing"
    /\ writer' = "stopped"
    /\ holding' = Nothing
    /\ UNCHANGED <<registryVars, phase, pushing, telemetryChan, stored>>

\* Mistake: telemetry that could not be stored is queued again.
RequeueFailed ==
    /\ writer = "storing" /\ Len(telemetryChan) < ChannelSize
    /\ telemetryChan' = Append(telemetryChan, holding)
    /\ writer' = "waiting"
    /\ holding' = Nothing
    /\ UNCHANGED <<registryVars, phase, pushing, stored>>

\* Logged; the telemetry is lost.  So it is without a buffer.
AddDataFails ==
    /\ writer = "storing"
    /\ writer' = "waiting"
    /\ holding' = Nothing
    /\ UNCHANGED <<registryVars, phase, pushing, telemetryChan, stored>>

WriterStops ==
    /\ writer = "waiting" /\ phase # "running"
    /\ writer' = "stopped"
    /\ UNCHANGED <<registryVars, phase, pushing, telemetryChan, holding, stored>>

---------------------------------------------------------------------------------
(* main.                                                                   *)

Cancel ==
    /\ loaded /\ phase = "running"
    /\ phase' = "cancelled"
    /\ UNCHANGED <<registryVars, pushing, telemetryChan, writing, stored>>

CloseBuffer ==
    /\ phase = "cancelled"
    /\ phase' = "closed"
    /\ UNCHANGED <<registryVars, pushing, telemetryChan, writing, stored>>

---------------------------------------------------------------------------------
TickerStep == Tick \/ PushDone \/ TickerStops \/ \E d \in Devices : Push(d) \/ PushDropped(d)
WriterStep == Take \/ AddData \/ AddDataFails \/ WriterStops

Next ==
    \/ RegistryNext /\ UNCHANGED passThrough
    \/ TickerStep \/ WriterStep \/ Cancel \/ CloseBuffer

PassThroughSpec == PassThroughInit /\ [][Next]_vars

\* Goroutines that can run do, and tickers fire; of requests to the source repeated for
\* ever some are answered well.  Nothing says when the timeout of main expires.
FairSpec ==
    /\ PassThroughSpec
    /\ WF_vars(LoadStep /\ UNCHANGED passThrough)
    /\ WF_vars(Fetch /\ UNCHANGED passThrough)
    /\ WF_vars(TickerStep)
    /\ WF_vars(WriterStep)

---------------------------------------------------------------------------------
(* Properties.                                                             *)

\* The buffer gets the telemetry of a device in the order of the source, through reloads,
\* drops and failures (lines 134-187).
TelemetryInOrder == [][\A d \in Devices : stored'[d] >= stored[d]]_vars

\* The strengthening that carries it.  All telemetry on its way was listed by the answer
\* merged last or an older one ...
NewerThan(v) ==
    \/ \E d \in Devices : batch[d] > v \/ stored[d] > v
    \/ \E i \in 1..Len(telemetryChan) : telemetryChan[i].version > v
    \/ holding.version > v

Answers(merged, answered) ==
    \A d \in Devices : config[d] \in {0, merged} /\ response[d] \in {0, answered}

NothingNewer ==
    \E merged, answered \in 0..version :
        merged <= answered /\ Answers(merged, answered) /\ ~NewerThan(merged)

\* ... the batch is empty between ticks ...
BatchInv == ticker = "waiting" => \A d \in Devices : batch[d] = 0

\* ... and what comes later is at least as new: the buffer, the goroutine's hand, the
\* channel from its head to its end, the batch.
OrderInv ==
    /\ holding # Nothing => stored[holding.dev] <= holding.version
    /\ \A i \in 1..Len(telemetryChan) :
          /\ stored[telemetryChan[i].dev] <= telemetryChan[i].version
          /\ holding.dev = telemetryChan[i].dev => holding.version <= telemetryChan[i].version
          /\ \A j \in i..Len(telemetryChan) : telemetryChan[i].dev = telemetryChan[j].dev =>
                telemetryChan[i].version <= telemetryChan[j].version
    /\ \A d \in Devices : batch[d] # 0 =>
          /\ stored[d] <= batch[d]
          /\ holding.dev = d => holding.version <= batch[d]
          /\ \A i \in 1..Len(telemetryChan) :
                telemetryChan[i].dev = d => telemetryChan[i].version <= batch[d]

PassThroughInv == PassThroughTypeOK /\ ReloadInv /\ NothingNewer /\ BatchInv /\ OrderInv

\* Until the context of main expires the map follows a source that stays as it is, through
\* failed polls and whatever the workers report (registry 44-56).
SourceIsFollowed ==
    \A v \in 1..MaxVersion :
        version = v ~> \/ \A d \in Devices \ Invalid : config[d] = listing[d]
                       \/ version # v \/ expired \/ poller = "exited" \/ ~Dynamic

\* Telemetry in the channel reaches the buffering goroutine, whatever AddData said of the
\* telemetry before it, unless shutdown begins (lines 134-147).
QueuedIsTaken ==
    \A t \in [dev : Devices, version : 1..MaxVersion] :
        (\E i \in 1..Len(telemetryChan) : telemetryChan[i] = t)
            ~> holding = t \/ phase # "running"

---------------------------------------------------------------------------------
(* What the repository says of the registry and the code does not do.      *)

\* main.go 63: the ten seconds are an "Initialization timeout"; after it the poller goes
\* on following the source.
InitTimeoutEndsNoPolling ==
    \A v \in 1..MaxVersion :
        version = v /\ loaded ~> \/ \A d \in Devices \ Invalid : config[d] = listing[d]
                                 \/ version # v
=================================================================================
