----------------------- MODULE TelemetryPassThroughProofs -----------------------
(***************************************************************************)
(* Theorems about TelemetryPassThrough, for any devices, any channel       *)
(* capacity and any number of source versions: with the goroutines of main *)
(* around it the registry is still the registry of DeviceRegistry, and the *)
(* telemetry of a device reaches the buffer in the order of the source.    *)
(*                                                                         *)
(* The argument follows an item from the map to the buffer.  Everything on *)
(* the way is no newer than the answer merged last (NothingNewer), so what *)
(* a tick lists next may follow it; and on the way itself what comes later *)
(* is at least as new (OrderInv).                                          *)
(***************************************************************************)
EXTENDS TelemetryPassThrough, DeviceRegistryProofs, SequenceTheorems

---------------------------------------------------------------------------------
(* The registry inside the process.                                        *)

\* The goroutines of main only read the map (main.go 134-187).
LEMMA RegistryUntouched == [Next]_vars => [RegistryNext]_registryVars
  BY DEF Next, TickerStep, WriterStep, Tick, Push, PushDropped, PushDone, TickerStops, Take,
     AddData, AddDataFails, WriterStops, Cancel, CloseBuffer, vars

\* Every behaviour of the process is one of the registry.
THEOREM PassThroughIsRegistry == PassThroughSpec => Spec
<1>1. PassThroughInit => Init
  BY DEF PassThroughInit
<1> QED
  BY <1>1, RegistryUntouched, PTL DEF PassThroughSpec, Spec

\* Hence what the registry promises its callers holds in the process (registry 85-169).
THEOREM PassThroughKeepsRegistry ==
  PassThroughSpec => []RegistryInv /\ ConfigNeverGoesBack /\ DirectoryRefined
  BY PassThroughIsRegistry, RegistryInvariance, ConfigurationIsNewest,
     RegistryImplementsDirectory, PTL

---------------------------------------------------------------------------------
(* Types.                                                                  *)

LEMMA PassThroughTypeInit == PassThroughInit => PassThroughTypeOK
<1> SUFFICES ASSUME PassThroughInit PROVE PassThroughTypeOK
  OBVIOUS
<1>1. TypeOK /\ 0 \in Versions
  BY InitInv, RegistryAssumption DEF PassThroughInit, RegistryInv, Versions
<1>2. telemetryChan \in Seq(Telemetry) /\ Len(telemetryChan) <= ChannelSize
  BY EmptySeq, PassThroughAssumption DEF PassThroughInit
<1> QED
  BY <1>1, <1>2 DEF PassThroughInit, PassThroughTypeOK

\* What a send and a receive do to the channel (main.go 134-141, 175-183).
LEMMA ChannelTypes ==
  ASSUME PassThroughTypeOK
  PROVE  /\ Len(telemetryChan) \in Nat
         /\ \A i \in 1..Len(telemetryChan) : telemetryChan[i] \in Telemetry
         /\ telemetryChan # <<>> =>
              /\ Head(telemetryChan) = telemetryChan[1]
              /\ Head(telemetryChan) \in Telemetry
              /\ Tail(telemetryChan) \in Seq(Telemetry)
              /\ Len(telemetryChan) > 0
              /\ Len(Tail(telemetryChan)) = Len(telemetryChan) - 1
              /\ \A i \in 1..(Len(telemetryChan) - 1) :
                    Tail(telemetryChan)[i] = telemetryChan[i + 1]
  BY HeadTailProperties, LenProperties, EmptySeq, ElementOfSeq DEF PassThroughTypeOK

\* The ticker sends a record of a device and a version it has listed (main.go 175-183).
LEMMA PushTypes ==
  ASSUME PassThroughTypeOK, NEW d \in Devices, Push(d)
  PROVE  /\ telemetryChan' \in Seq(Telemetry)
         /\ Len(telemetryChan') = Len(telemetryChan) + 1
         /\ \A i \in 1..Len(telemetryChan) : telemetryChan'[i] = telemetryChan[i]
         /\ telemetryChan'[Len(telemetryChan) + 1] = [dev |-> d, version |-> batch[d]]
<1>1. [dev |-> d, version |-> batch[d]] \in Telemetry
  BY DEF PassThroughTypeOK, Telemetry
<1> QED
  BY <1>1, AppendProperties DEF Push, PassThroughTypeOK

\* Every step of the process keeps every type, and the channel within its capacity.
LEMMA PassThroughTypeStep ==
  ASSUME PassThroughTypeOK, ReloadInv, [Next]_vars
  PROVE  PassThroughTypeOK'
<1>0. TypeOK'
  BY RegistryUntouched, RegistryStep DEF PassThroughTypeOK, RegistryInv
<1>1. CASE (RegistryNext /\ UNCHANGED passThrough) \/ UNCHANGED vars
  BY <1>0, <1>1 DEF PassThroughTypeOK, passThrough, pushing, writing, vars
<1>2. CASE Tick
  <2>1. batch' \in [Devices -> Versions]
    BY <1>2, RegistryAssumption DEF Tick, PassThroughTypeOK, TypeOK, Versions
  <2> QED
    BY <1>0, <1>2, <2>1 DEF Tick, PassThroughTypeOK, writing
<1>3. ASSUME NEW d \in Devices, Push(d) \/ PushDropped(d) PROVE PassThroughTypeOK'
  <2>1. batch' \in [Devices -> Versions]
    <3>1. batch' = [batch EXCEPT ![d] = 0] /\ 0 \in Versions
      BY <1>3, RegistryAssumption DEF Push, PushDropped, Versions
    <3> QED
      BY <3>1 DEF PassThroughTypeOK
  <2>2. telemetryChan' \in Seq(Telemetry) /\ Len(telemetryChan') <= ChannelSize
    <3>1. CASE Push(d)
      <4>1. Len(telemetryChan) < ChannelSize /\ Len(telemetryChan) \in Nat
        BY <3>1, ChannelTypes DEF Push
      <4>2. telemetryChan' \in Seq(Telemetry) /\ Len(telemetryChan') = Len(telemetryChan) + 1
        BY <3>1, PushTypes
      <4> QED
        BY <4>1, <4>2, PassThroughAssumption
    <3>2. CASE PushDropped(d)
      BY <3>2 DEF PushDropped, PassThroughTypeOK
    <3> QED
      BY <1>3, <3>1, <3>2
  <2> QED
    BY <1>0, <1>3, <2>1, <2>2 DEF Push, PushDropped, PassThroughTypeOK, writing
<1>4. CASE PushDone \/ TickerStops
  BY <1>0, <1>4 DEF PushDone, TickerStops, PassThroughTypeOK, writing
<1>5. CASE Take
  <2>1. /\ Head(telemetryChan) \in Telemetry
        /\ Tail(telemetryChan) \in Seq(Telemetry)
        /\ Len(Tail(telemetryChan)) <= ChannelSize
    BY <1>5, ChannelTypes, PassThroughAssumption DEF Take, PassThroughTypeOK
  <2> QED
    BY <1>0, <1>5, <2>1 DEF Take, PassThroughTypeOK, pushing
<1>6. CASE AddData
  <2>1. stored' \in [Devices -> Versions]
    <3>1. CASE holding \in Telemetry
      BY <1>6, <3>1 DEF AddData, PassThroughTypeOK, Telemetry
    <3>2. CASE holding = Nothing
      BY <1>6, <3>2, RegistryAssumption DEF AddData, PassThroughTypeOK, Nothing
    <3> QED
      BY <3>1, <3>2 DEF PassThroughTypeOK
  <2> QED
    BY <1>0, <1>6, <2>1 DEF AddData, PassThroughTypeOK, pushing
<1>7. CASE AddDataFails \/ WriterStops \/ Cancel \/ CloseBuffer
  BY <1>0, <1>7 DEF AddDataFails, WriterStops, Cancel, CloseBuffer, PassThroughTypeOK,
                    pushing, writing
<1> QED
  BY <1>1, <1>2, <1>3, <1>4, <1>5, <1>6, <1>7 DEF Next, TickerStep, WriterStep

---------------------------------------------------------------------------------
(* The order of the telemetry on its way.                                  *)

LEMMA InitOrdered == PassThroughInit => NothingNewer /\ BatchInv /\ OrderInv
<1> SUFFICES ASSUME PassThroughInit PROVE NothingNewer /\ BatchInv /\ OrderInv
  OBVIOUS
<1>1. Len(telemetryChan) = 0 /\ 1..Len(telemetryChan) = {}
  BY EmptySeq DEF PassThroughInit
<1>2. /\ \A d \in Devices : config[d] = 0 /\ response[d] = 0 /\ batch[d] = 0 /\ stored[d] = 0
      /\ holding.version = 0 /\ version = 1
  BY DEF PassThroughInit, Init, Nothing
<1>3. 0 \in 0..version /\ Answers(0, 0) /\ ~NewerThan(0)
  BY <1>1, <1>2 DEF Answers, NewerThan
<1>4. NothingNewer
  BY <1>3 DEF NothingNewer
<1>5. BatchInv /\ OrderInv
  BY <1>1, <1>2 DEF PassThroughInit, BatchInv, OrderInv
<1> QED
  BY <1>4, <1>5

\* Versions are numbers.
LEMMA VersionTypes ==
  ASSUME PassThroughTypeOK
  PROVE  /\ version \in Nat
         /\ \A d \in Devices : config[d] \in Nat /\ batch[d] \in Nat /\ stored[d] \in Nat
         /\ \A i \in 1..Len(telemetryChan) : telemetryChan[i].version \in Nat
         /\ holding.version \in Nat
<1>1. \A t \in Telemetry \cup {Nothing} : t.version \in Nat
  BY DEF Telemetry, Nothing, Versions
<1>2. \A i \in 1..Len(telemetryChan) : telemetryChan[i] \in Telemetry
  BY ChannelTypes
<1> QED
  BY <1>1, <1>2 DEF PassThroughTypeOK, TypeOK, Versions

\* A request reads the present listing, a merge takes over what was read; neither is
\* older than what is on its way already (registry 85-107).
LEMMA NewerRegistryStep ==
  ASSUME PassThroughTypeOK, ReloadInv, NothingNewer, RegistryNext, UNCHANGED passThrough
  PROVE  NothingNewer'
<1>1. PICK m \in 0..version, a \in 0..version :
        m <= a /\ Answers(m, a) /\ ~NewerThan(m)
  BY DEF NothingNewer
<1>2. version \in Nat /\ m \in Nat /\ a \in Nat /\ m <= version
  BY <1>1, VersionTypes
<1>3. \A v : NewerThan(v)' <=> NewerThan(v)
  BY DEF NewerThan, passThrough, pushing, writing
<1>4. CASE Merge
  <2>1. version' = version /\ Answers(a, a)'
    BY <1>1, <1>4 DEF Merge, source, Answers
  <2>2. ~NewerThan(a)
    BY <1>1, <1>2, VersionTypes DEF NewerThan
  <2> QED
    BY <1>1, <1>2, <1>3, <2>1, <2>2 DEF NothingNewer
<1>5. CASE Fetch
  <2>1. version' = version /\ Answers(m, version)'
    BY <1>1, <1>5 DEF Fetch, source, devices, ReloadInv, Answers
  <2> QED
    BY <1>1, <1>2, <1>3, <2>1 DEF NothingNewer
<1>6. CASE SourceChanges
  <2>1. m \in 0..version' /\ a \in 0..version'
    BY <1>1, <1>2, <1>6 DEF SourceChanges
  <2>2. Answers(m, a)'
    BY <1>1, <1>6 DEF SourceChanges, devices, polling, Answers
  <2> QED
    BY <1>1, <1>3, <2>1, <2>2 DEF NothingNewer
<1>7. CASE \/ ContextExpires \/ LoadFails \/ StopPolling
           \/ \E w \in Callers : CallerStep(w)
  <2>1. UNCHANGED <<version, config, response>>
    BY <1>7 DEF ContextExpires, LoadFails, StopPolling, CallerStep, GetDevice, Update,
       source, devices, polling
  <2>2. Answers(m, a)'
    BY <1>1, <2>1 DEF Answers
  <2> QED
    BY <1>1, <1>3, <2>1, <2>2 DEF NothingNewer
<1> QED
  BY <1>4, <1>5, <1>6, <1>7 DEF RegistryNext, LoadStep

\* What moves towards the buffer was in the map before (main.go 134-187).
LEMMA NewerGoroutineStep ==
  ASSUME PassThroughTypeOK, NothingNewer, TickerStep \/ WriterStep
  PROVE  NothingNewer'
<1>1. PICK m \in 0..version, a \in 0..version :
        m <= a /\ Answers(m, a) /\ ~NewerThan(m)
  BY DEF NothingNewer
<1>2. UNCHANGED registryVars
  BY DEF TickerStep, WriterStep, Tick, Push, PushDropped, PushDone, TickerStops, Take,
     AddData, AddDataFails, WriterStops
<1>3. version' = version /\ Answers(m, a)'
  BY <1>1, <1>2 DEF registryVars, source, devices, polling, Answers
<1>4. m \in Nat
  BY <1>1, VersionTypes
<1>5. /\ \A d \in Devices : config[d] \in 0..m /\ batch[d] \in 0..m /\ stored[d] \in 0..m
      /\ \A i \in 1..Len(telemetryChan) : telemetryChan[i].version \in 0..m
      /\ holding.version \in 0..m
  BY <1>1, <1>4, VersionTypes DEF NewerThan, Answers
<1> SUFFICES /\ \A d \in Devices : batch'[d] \in 0..m /\ stored'[d] \in 0..m
             /\ \A i \in 1..Len(telemetryChan') : telemetryChan'[i].version \in 0..m
             /\ holding'.version \in 0..m
  <2>1. \A x \in 0..m : ~(x > m)
    BY <1>4
  <2> QED
    BY <1>1, <1>3, <2>1 DEF NothingNewer, NewerThan
<1>6. CASE Tick
  <2>1. \A d \in Devices : batch'[d] \in {0, config[d]}
    BY <1>6 DEF Tick
  <2> QED
    BY <1>4, <1>5, <1>6, <2>1 DEF Tick, writing
<1>7. ASSUME NEW d \in Devices, Push(d) \/ PushDropped(d)
      PROVE  /\ \A e \in Devices : batch'[e] \in 0..m /\ stored'[e] \in 0..m
             /\ \A i \in 1..Len(telemetryChan') : telemetryChan'[i].version \in 0..m
             /\ holding'.version \in 0..m
  <2>1. \A e \in Devices : batch'[e] \in {0, batch[e]}
    BY <1>7 DEF Push, PushDropped, PassThroughTypeOK
  <2>2. \A i \in 1..Len(telemetryChan') : telemetryChan'[i].version \in 0..m
    <3>1. CASE Push(d)
      <4>1. \A i \in 1..(Len(telemetryChan) + 1) :
               i \in 1..Len(telemetryChan) \/ i = Len(telemetryChan) + 1
        BY ChannelTypes
      <4>2. \A i \in 1..Len(telemetryChan) : telemetryChan'[i].version \in 0..m
        BY <1>5, <3>1, PushTypes
      <4>3. telemetryChan'[Len(telemetryChan) + 1].version \in 0..m
        <5>1. telemetryChan'[Len(telemetryChan) + 1] = [dev |-> d, version |-> batch[d]]
          BY <3>1, PushTypes
        <5>2. batch[d] \in 0..m
          BY <1>5
        <5> QED
          BY <5>1, <5>2
      <4> QED
        BY <3>1, <4>1, <4>2, <4>3, PushTypes
    <3>2. CASE PushDropped(d)
      BY <1>5, <3>2 DEF PushDropped
    <3> QED
      BY <1>7, <3>1, <3>2
  <2> QED
    BY <1>4, <1>5, <1>7, <2>1, <2>2 DEF Push, PushDropped, writing
<1>8. CASE Take
  <2>1. /\ holding'.version = telemetryChan[1].version /\ 1 \in 1..Len(telemetryChan)
        /\ \A i \in 1..Len(telemetryChan') :
              telemetryChan'[i] = telemetryChan[i + 1] /\ i + 1 \in 1..Len(telemetryChan)
    BY <1>8, ChannelTypes DEF Take
  <2> QED
    BY <1>5, <1>8, <2>1 DEF Take, pushing
<1>9. CASE AddData
  <2>1. \A d \in Devices : stored'[d] \in {stored[d], holding.version}
    BY <1>9 DEF AddData, PassThroughTypeOK
  <2> QED
    BY <1>4, <1>5, <1>9, <2>1 DEF AddData, pushing, Nothing
<1>10. CASE AddDataFails
  BY <1>4, <1>5, <1>10 DEF AddDataFails, pushing, Nothing
<1>11. CASE PushDone \/ TickerStops \/ WriterStops
  BY <1>5, <1>11 DEF PushDone, TickerStops, WriterStops, pushing, writing
<1> QED
  BY <1>6, <1>7, <1>8, <1>9, <1>10, <1>11 DEF TickerStep, WriterStep

\* The batch has been pushed when the ticker waits for the next tick.
LEMMA BatchStep ==
  ASSUME PassThroughTypeOK, BatchInv, [Next]_vars
  PROVE  BatchInv'
<1>1. CASE TickerStep
  BY <1>1 DEF TickerStep, Tick, Push, PushDropped, PushDone, TickerStops, BatchInv
<1>2. CASE ~TickerStep
  <2>1. UNCHANGED pushing
    BY <1>2 DEF Next, WriterStep, Take, AddData, AddDataFails, WriterStops, Cancel,
       CloseBuffer, passThrough, vars
  <2> QED
    BY <2>1 DEF BatchInv, pushing
<1> QED
  BY <1>1, <1>2

\* What the registry does, and what main does, moves no telemetry.
LEMMA OrderFrame ==
  ASSUME OrderInv, UNCHANGED <<batch, telemetryChan, holding, stored>>
  PROVE  OrderInv'
  BY DEF OrderInv

\* A tick lists what the map holds now: nothing that is on its way is newer.
LEMMA OrderTick ==
  ASSUME PassThroughTypeOK, NothingNewer, OrderInv, Tick
  PROVE  OrderInv'
<1>1. PICK m \in 0..version, a \in 0..version :
        m <= a /\ Answers(m, a) /\ ~NewerThan(m)
  BY DEF NothingNewer
<1>2. m \in Nat
  BY <1>1, VersionTypes
<1>3. /\ \A d \in Devices : stored[d] <= m
      /\ \A i \in 1..Len(telemetryChan) : telemetryChan[i].version <= m
      /\ holding.version <= m
  BY <1>1, <1>2, VersionTypes DEF NewerThan
<1>4. \A d \in Devices : batch'[d] # 0 => batch'[d] = m
  BY <1>1 DEF Tick, Answers
<1>5. UNCHANGED <<telemetryChan, holding, stored>>
  BY DEF Tick, writing
<1> QED
  BY <1>3, <1>4, <1>5 DEF OrderInv

\* The item sent is of the batch: what is on its way for its device is no newer.
LEMMA OrderPush ==
  ASSUME PassThroughTypeOK, OrderInv, NEW d \in Devices, Push(d)
  PROVE  OrderInv'
<1> DEFINE n == Len(telemetryChan)
           item == [dev |-> d, version |-> batch[d]]
<1>1. /\ n \in Nat /\ Len(telemetryChan') = n + 1
      /\ \A i \in 1..n : telemetryChan'[i] = telemetryChan[i]
      /\ telemetryChan'[n + 1] = item
  BY PushTypes, ChannelTypes
<1>2. /\ batch[d] # 0 /\ UNCHANGED <<holding, stored>>
      /\ batch'[d] = 0 /\ \A e \in Devices \ {d} : batch'[e] = batch[e]
  BY DEF Push, PassThroughTypeOK, writing
<1>3. \A i \in 1..(n + 1) : i \in 1..n \/ i = n + 1
  BY <1>1
<1>4. item.dev = d /\ item.version = batch[d] /\ batch[d] <= batch[d]
  BY VersionTypes
<1> HIDE DEF n, item
<1>5. \A i \in 1..n :
        /\ stored[telemetryChan[i].dev] <= telemetryChan[i].version
        /\ holding.dev = telemetryChan[i].dev => holding.version <= telemetryChan[i].version
        /\ telemetryChan[i].dev = d => telemetryChan[i].version <= batch[d]
        /\ \A j \in i..n : telemetryChan[i].dev = telemetryChan[j].dev =>
              telemetryChan[i].version <= telemetryChan[j].version
  BY <1>2 DEF OrderInv, n
<1>6. ASSUME NEW i \in 1..(n + 1)
      PROVE  /\ stored'[telemetryChan'[i].dev] <= telemetryChan'[i].version
             /\ holding'.dev = telemetryChan'[i].dev
                  => holding'.version <= telemetryChan'[i].version
  <2>1. CASE i \in 1..n
    BY <1>1, <1>2, <1>5, <2>1
  <2>2. CASE i = n + 1
    BY <1>1, <1>2, <1>4, <2>2 DEF OrderInv
  <2> QED
    BY <1>3, <2>1, <2>2
<1>7. ASSUME NEW i \in 1..(n + 1), NEW j \in i..(n + 1),
             telemetryChan'[i].dev = telemetryChan'[j].dev
      PROVE  telemetryChan'[i].version <= telemetryChan'[j].version
  <2>1. CASE j \in 1..n
    <3>1. i \in 1..n /\ j \in i..n
      BY <1>1, <2>1
    <3> QED
      BY <1>1, <1>5, <1>7, <2>1, <3>1
  <2>2. CASE i \in 1..n /\ j = n + 1
    BY <1>1, <1>4, <1>5, <1>7, <2>2
  <2>3. CASE i = n + 1 /\ j = n + 1
    BY <1>1, <1>4, <2>3
  <2> QED
    BY <1>1, <1>3, <2>1, <2>2, <2>3
<1>8. ASSUME NEW e \in Devices, batch'[e] # 0
      PROVE  /\ stored'[e] <= batch'[e]
             /\ holding'.dev = e => holding'.version <= batch'[e]
             /\ \A i \in 1..(n + 1) :
                  telemetryChan'[i].dev = e => telemetryChan'[i].version <= batch'[e]
  <2>1. e # d /\ batch'[e] = batch[e]
    BY <1>2, <1>8
  <2> QED
    BY <1>1, <1>2, <1>3, <1>4, <1>8, <2>1 DEF OrderInv, n
<1> QED
  BY <1>1, <1>2, <1>6, <1>7, <1>8 DEF OrderInv

\* The head of the channel is the oldest of what is left of its device.
LEMMA OrderTake ==
  ASSUME PassThroughTypeOK, OrderInv, Take
  PROVE  OrderInv'
<1>1. /\ Len(telemetryChan) \in Nat /\ 1 \in 1..Len(telemetryChan)
      /\ holding' = telemetryChan[1]
      /\ Len(telemetryChan') = Len(telemetryChan) - 1
      /\ \A i \in 1..(Len(telemetryChan) - 1) : telemetryChan'[i] = telemetryChan[i + 1]
      /\ UNCHANGED <<batch, stored>>
  BY ChannelTypes DEF Take, pushing
<1>2. stored'[holding'.dev] <= holding'.version
  BY <1>1 DEF OrderInv
<1>3. ASSUME NEW i \in 1..(Len(telemetryChan) - 1)
      PROVE  /\ telemetryChan'[i] = telemetryChan[i + 1]
             /\ i + 1 \in 1..Len(telemetryChan)
             /\ \A j \in i..(Len(telemetryChan) - 1) :
                  /\ telemetryChan'[j] = telemetryChan[j + 1]
                  /\ j + 1 \in (i + 1)..Len(telemetryChan)
  BY <1>1
<1>4. ASSUME NEW i \in 1..Len(telemetryChan')
      PROVE  /\ stored'[telemetryChan'[i].dev] <= telemetryChan'[i].version
             /\ holding'.dev = telemetryChan'[i].dev
                  => holding'.version <= telemetryChan'[i].version
             /\ \A j \in i..Len(telemetryChan') : telemetryChan'[i].dev = telemetryChan'[j].dev =>
                  telemetryChan'[i].version <= telemetryChan'[j].version
  <2>1. i + 1 \in 1..Len(telemetryChan) /\ telemetryChan'[i] = telemetryChan[i + 1]
    BY <1>1, <1>3
  <2>2. stored'[telemetryChan'[i].dev] <= telemetryChan'[i].version
    BY <1>1, <2>1 DEF OrderInv
  <2>3. holding'.dev = telemetryChan'[i].dev => holding'.version <= telemetryChan'[i].version
    BY <1>1, <2>1 DEF OrderInv
  <2>4. ASSUME NEW j \in i..Len(telemetryChan'), telemetryChan'[i].dev = telemetryChan'[j].dev
        PROVE  telemetryChan'[i].version <= telemetryChan'[j].version
    <3>1. telemetryChan'[j] = telemetryChan[j + 1] /\ j + 1 \in (i + 1)..Len(telemetryChan)
      BY <1>1, <1>3
    <3> QED
      BY <2>1, <2>4, <3>1 DEF OrderInv
  <2> QED
    BY <2>2, <2>3, <2>4
<1>5. ASSUME NEW d \in Devices, batch'[d] # 0
      PROVE  /\ stored'[d] <= batch'[d]
             /\ holding'.dev = d => holding'.version <= batch'[d]
             /\ \A i \in 1..Len(telemetryChan') :
                  telemetryChan'[i].dev = d => telemetryChan'[i].version <= batch'[d]
  BY <1>1, <1>3, <1>5 DEF OrderInv
<1> QED
  BY <1>2, <1>4, <1>5 DEF OrderInv

\* AddData stores what the goroutine holds, the oldest of its device.
LEMMA OrderStore ==
  ASSUME PassThroughTypeOK, OrderInv, AddData
  PROVE  /\ OrderInv'
         /\ \A d \in Devices : stored'[d] >= stored[d]
<1>1. UNCHANGED <<batch, telemetryChan>> /\ holding' = Nothing
  BY DEF AddData, pushing
<1>2. CASE holding = Nothing
  <2>1. stored' = stored
    BY <1>2, RegistryAssumption DEF AddData, PassThroughTypeOK, Nothing
  <2> QED
    BY <1>1, <1>2, <2>1, VersionTypes DEF OrderInv
<1>3. CASE holding \in Telemetry
  <2>1. holding.dev \in Devices /\ holding # Nothing
    BY <1>3, RegistryAssumption DEF Telemetry, Nothing
  <2>2. \A d \in Devices : stored'[d] = IF d = holding.dev THEN holding.version ELSE stored[d]
    BY <2>1 DEF AddData, PassThroughTypeOK
  <2>3. \A i \in 1..Len(telemetryChan) : telemetryChan[i].dev \in Devices
    BY ChannelTypes DEF Telemetry
  <2>4. stored[holding.dev] <= holding.version
    BY <2>1 DEF OrderInv
  <2>5. \A d \in Devices : holding'.dev # d
    BY <1>1, RegistryAssumption DEF Nothing
  <2>6. OrderInv'
    BY <1>1, <2>1, <2>2, <2>3, <2>5 DEF OrderInv
  <2> QED
    BY <2>1, <2>2, <2>4, <2>6, VersionTypes
<1> QED
  BY <1>2, <1>3 DEF PassThroughTypeOK

\* A failed AddData and a dropped item leave a gap, and no step turns the order round.
LEMMA OrderStep ==
  ASSUME PassThroughTypeOK, NothingNewer, OrderInv, [Next]_vars
  PROVE  /\ OrderInv'
         /\ \A d \in Devices : stored'[d] >= stored[d]
<1>1. ASSUME stored' = stored PROVE \A d \in Devices : stored'[d] >= stored[d]
  BY <1>1, VersionTypes
<1>2. CASE Tick
  BY <1>1, <1>2, OrderTick DEF Tick
<1>3. ASSUME NEW d \in Devices, Push(d)
      PROVE  OrderInv' /\ stored' = stored
  BY <1>3, OrderPush DEF Push
<1>4. ASSUME NEW d \in Devices, PushDropped(d)
      PROVE  OrderInv' /\ stored' = stored
  <2>1. /\ UNCHANGED <<telemetryChan, holding, stored>>
        /\ \A e \in Devices : batch'[e] \in {0, batch[e]}
    BY <1>4 DEF PushDropped, PassThroughTypeOK, writing
  <2> QED
    BY <2>1 DEF OrderInv
<1>5. CASE Take
  BY <1>1, <1>5, OrderTake DEF Take
<1>6. CASE AddData
  BY <1>6, OrderStore
<1>7. CASE AddDataFails
  <2>1. /\ UNCHANGED <<batch, telemetryChan, stored>>
        /\ holding' = Nothing
    BY <1>7 DEF AddDataFails, pushing
  <2>2. \A d \in Devices : holding'.dev # d
    BY <2>1, RegistryAssumption DEF Nothing
  <2>3. \A i \in 1..Len(telemetryChan) : telemetryChan[i].dev \in Devices
    BY ChannelTypes DEF Telemetry
  <2> QED
    BY <1>1, <2>1, <2>2, <2>3 DEF OrderInv
<1>8. CASE \/ RegistryNext /\ UNCHANGED passThrough
           \/ PushDone \/ TickerStops \/ WriterStops \/ Cancel \/ CloseBuffer
           \/ UNCHANGED vars
  <2>1. UNCHANGED <<batch, telemetryChan, holding, stored>>
    BY <1>8 DEF PushDone, TickerStops, WriterStops, Cancel, CloseBuffer, vars, passThrough,
       pushing, writing
  <2> QED
    BY <1>1, <2>1, OrderFrame
<1> QED
  BY <1>1, <1>2, <1>3, <1>4, <1>5, <1>6, <1>7, <1>8 DEF Next, TickerStep, WriterStep

---------------------------------------------------------------------------------
\* The invariant holds of every execution of the process (main.go 127-209).
THEOREM PassThroughInvariance == PassThroughSpec => []PassThroughInv
<1>1. PassThroughInit => PassThroughInv
  BY PassThroughTypeInit, InitOrdered, InitInv DEF PassThroughInit, PassThroughInv, RegistryInv
<1>2. PassThroughInv /\ [Next]_vars => PassThroughInv'
  <2> SUFFICES ASSUME PassThroughInv, [Next]_vars PROVE PassThroughInv'
    OBVIOUS
  <2>1. PassThroughTypeOK' /\ BatchInv' /\ OrderInv'
    BY PassThroughTypeStep, BatchStep, OrderStep DEF PassThroughInv
  <2>2. ReloadInv'
    BY RegistryUntouched, RegistryStep DEF PassThroughInv, PassThroughTypeOK, RegistryInv
  <2>3. NothingNewer'
    <3>1. CASE RegistryNext /\ UNCHANGED passThrough
      BY <3>1, NewerRegistryStep DEF PassThroughInv
    <3>2. CASE TickerStep \/ WriterStep
      BY <3>2, NewerGoroutineStep DEF PassThroughInv
    <3>3. CASE Cancel \/ CloseBuffer \/ UNCHANGED vars
      BY <3>3 DEF Cancel, CloseBuffer, vars, registryVars, source, polling, devices,
         passThrough, pushing, writing, PassThroughInv, NothingNewer, Answers, NewerThan
    <3> QED
      BY <3>1, <3>2, <3>3 DEF Next
  <2> QED
    BY <2>1, <2>2, <2>3 DEF PassThroughInv
<1> QED
  BY <1>1, <1>2, PTL DEF PassThroughSpec

\* Every variable keeps its type, and the channel its capacity, whenever the shutdown
\* cancels the goroutines or closes the buffer under them (main.go 127-209).
THEOREM PassThroughTypeCorrect == PassThroughSpec => []PassThroughTypeOK
<1>1. PassThroughInv => PassThroughTypeOK
  BY DEF PassThroughInv
<1> QED
  BY <1>1, PassThroughInvariance, PTL

\* Through reloads that are answered late, devices that go and come back, drops and failed
\* writes, the buffer never gets older telemetry of a device after newer (main.go 134-187).
THEOREM TelemetryStaysInOrder == PassThroughSpec => TelemetryInOrder
<1>1. PassThroughInv /\ [Next]_vars => [\A d \in Devices : stored'[d] >= stored[d]]_vars
  BY OrderStep DEF PassThroughInv
<1> QED
  BY <1>1, PassThroughInvariance, PTL DEF PassThroughSpec, TelemetryInOrder
=================================================================================
