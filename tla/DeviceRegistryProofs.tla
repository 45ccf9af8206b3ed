-------------------------- MODULE DeviceRegistryProofs --------------------------
(***************************************************************************)
(* Proofs about DeviceRegistry, for any devices, workers and versions:     *)
(* RegistryInv is inductive, and from it a configuration never goes back   *)
(* and the registry implements DeviceDirectory.                            *)
(***************************************************************************)
EXTENDS DeviceRegistry, TLAPS

\* The empty registry of NewStaticJSONRegistry.
LEMMA InitInv == Init => RegistryInv
<1> SUFFICES ASSUME Init PROVE RegistryInv
  OBVIOUS
<1>1. TypeOK
  <2>1. 0 \in Versions /\ 1 \in Versions
    BY RegistryAssumption DEF Versions
  <2>2. listing \in [Devices -> Versions]
    BY DEF Init, Lists
  <2>3. version \in 1..MaxVersion
    BY RegistryAssumption DEF Init
  <2>4. config \in [Devices -> Versions] /\ response \in [Devices -> Versions]
    BY <2>1 DEF Init
  <2>5. status \in [Devices -> {"ABSENT", "UNKNOWN", "ONLINE", "OFFLINE"}]
    BY DEF Init
  <2>6. copy \in [Callers -> [dev : Devices, config : Versions] \cup {NoCopy}]
    BY DEF Init
  <2> QED
    BY <2>2, <2>3, <2>4, <2>5, <2>6 DEF Init, TypeOK
<1>2. ReloadInv
  <2>1. \A d \in Devices : config[d] = 0 <=> status[d] = "ABSENT"
    BY DEF Init
  <2>2. \A d \in Devices : listing[d] \in {0, version}
    BY DEF Init, Lists
  <2>3. /\ 0 \in 0..version
        /\ \A d \in Devices : response[d] \in {0, 0}
        /\ \A d \in Devices : config[d] <= 0
    BY DEF Init
  <2> QED
    BY <2>1, <2>2, <2>3 DEF ReloadInv
<1> QED
  BY <1>1, <1>2 DEF RegistryInv

\* A merge replaces the map by the answer: a device that is kept moves to the version of
\* the answer, which is no older than any the map holds.
LEMMA MergeStep ==
  ASSUME RegistryInv, Merge
  PROVE  /\ RegistryInv'
         /\ \A d \in Devices : config'[d] # 0 => config'[d] >= config[d]
         /\ Directory!Reload
<1>1. PICK v \in 0..version : /\ \A d \in Devices : response[d] \in {0, v}
                             /\ \A d \in Devices : config[d] <= v
  BY DEF RegistryInv, ReloadInv
<1>2. \A d \in Devices : /\ config'[d] = IF d \in Invalid THEN 0 ELSE response[d]
                         /\ config'[d] \in {0, v}
  BY <1>1 DEF Merge
<1>3. \A d \in Devices :
        status'[d] = IF config'[d] = 0 THEN "ABSENT"
                     ELSE IF config[d] = 0 THEN "UNKNOWN" ELSE status[d]
  BY DEF Merge
<1>4. v \in Nat /\ \A d \in Devices : config[d] \in Nat
  BY <1>1 DEF RegistryInv, TypeOK, Versions
<1>5. TypeOK'
  <2>1. config' \in [Devices -> Versions]
    BY RegistryAssumption DEF Merge, RegistryInv, TypeOK, Versions
  <2>2. status' \in [Devices -> {"ABSENT", "UNKNOWN", "ONLINE", "OFFLINE"}]
    BY DEF Merge, RegistryInv, TypeOK
  <2> QED
    BY <2>1, <2>2 DEF Merge, RegistryInv, TypeOK, source
<1>6. ReloadInv'
  <2>1. \A d \in Devices : config'[d] = 0 <=> status'[d] = "ABSENT"
    BY <1>3 DEF RegistryInv, ReloadInv
  <2>2. \A d \in Devices : listing'[d] \in {0, version'}
    BY DEF Merge, RegistryInv, ReloadInv, source
  <2>3. /\ v \in 0..version'
        /\ \A d \in Devices : response'[d] \in {0, v}
        /\ \A d \in Devices : config'[d] <= v
    BY <1>1, <1>2, <1>4 DEF Merge, source
  <2> QED
    BY <2>1, <2>2, <2>3 DEF ReloadInv
<1>7. \A d \in Devices : config'[d] # 0 => config'[d] >= config[d]
  BY <1>1, <1>2, <1>4
<1>8. Directory!Reload
  <2> DEFINE listed == {d \in Devices : config'[d] # 0}
  <2>1. status' = [d \in Devices |-> IF d \notin listed THEN "ABSENT"
                                     ELSE IF status[d] = "ABSENT" THEN "UNKNOWN"
                                     ELSE status[d]]
    <3>1. \A d \in Devices : config[d] = 0 <=> status[d] = "ABSENT"
      BY DEF RegistryInv, ReloadInv
    <3> QED
      BY <3>1 DEF Merge
  <2>2. listed \in SUBSET Devices
    OBVIOUS
  <2> QED
    BY <2>1, <2>2 DEF Directory!Reload
<1> QED
  BY <1>5, <1>6, <1>7, <1>8 DEF RegistryInv

\* A report touches the status of a device that is there, and no configuration.
LEMMA UpdateStep ==
  ASSUME RegistryInv, NEW w \in Callers, NEW s \in {"ONLINE", "OFFLINE"}, Update(w, s)
  PROVE  RegistryInv' /\ config' = config /\ [Directory!Next]_status
<1> DEFINE d == copy[w].dev
<1>1. config' = config
  BY DEF Update
<1>2. d \in Devices
  BY DEF Update, RegistryInv, TypeOK
<1>3. CASE config[d] = 0
  <2>1. status' = status
    BY <1>3 DEF Update
  <2>2. copy' \in [Callers -> [dev : Devices, config : Versions] \cup {NoCopy}]
    BY DEF Update, RegistryInv, TypeOK, NoCopy, Versions
  <2> QED
    BY <2>1, <2>2, <1>1 DEF Update, RegistryInv, TypeOK, ReloadInv, source, polling
<1>4. CASE config[d] # 0
  <2>1. status' = [status EXCEPT ![d] = s]
    BY <1>4 DEF Update
  <2>2. copy' \in [Callers -> [dev : Devices, config : Versions] \cup {NoCopy}]
    BY DEF Update, RegistryInv, TypeOK, NoCopy, Versions
  <2>3. status[d] # "ABSENT"
    BY <1>2, <1>4 DEF RegistryInv, ReloadInv
  <2>4. Directory!Report(d, s)
    BY <2>1, <2>3 DEF Directory!Report
  <2>5. TypeOK'
    BY <2>1, <2>2, <1>1, <1>2 DEF Update, RegistryInv, TypeOK, source, polling
  <2>6. \A e \in Devices : config'[e] = 0 <=> status'[e] = "ABSENT"
    BY <2>1, <2>3, <1>1, <1>2, <1>4 DEF RegistryInv, TypeOK, ReloadInv
  <2>7. ReloadInv'
    BY <2>6, <1>1 DEF Update, RegistryInv, ReloadInv, source, polling
  <2>8. Directory!Next
    BY <2>4, <1>2 DEF Directory!Next
  <2> QED
    BY <2>5, <2>7, <2>8, <1>1 DEF RegistryInv
<1> QED
  BY <1>3, <1>4

\* A request takes what the source lists now; a new listing names a newer version.
LEMMA FetchStep == ASSUME RegistryInv, Fetch PROVE RegistryInv' /\ UNCHANGED devices
<1>1. TypeOK' /\ UNCHANGED devices
  BY DEF Fetch, RegistryInv, TypeOK, source, devices
<1>2. /\ version \in 0..version
      /\ \A d \in Devices : response'[d] \in {0, version}
      /\ \A d \in Devices : config'[d] <= version
  <2>1. PICK v \in 0..version : \A d \in Devices : config[d] <= v
    BY DEF RegistryInv, ReloadInv
  <2>2. version \in Nat /\ \A d \in Devices : config[d] \in Nat
    BY DEF RegistryInv, TypeOK, Versions
  <2> QED
    BY <2>1, <2>2 DEF Fetch, RegistryInv, ReloadInv, devices
<1>3. ReloadInv'
  BY <1>2 DEF Fetch, RegistryInv, ReloadInv, source, devices
<1> QED
  BY <1>1, <1>3 DEF RegistryInv

LEMMA SourceStep ==
  ASSUME RegistryInv, SourceChanges PROVE RegistryInv' /\ UNCHANGED devices
<1>1. version \in Nat /\ version' = version + 1 /\ version' \in 1..MaxVersion
  BY RegistryAssumption DEF SourceChanges, RegistryInv, TypeOK
<1>2. TypeOK' /\ UNCHANGED devices
  BY <1>1 DEF SourceChanges, RegistryInv, TypeOK, Lists, polling, devices
<1>3. \A d \in Devices : listing'[d] \in {0, version'}
  BY <1>1 DEF SourceChanges, Lists
<1>4. PICK v \in 0..version : /\ \A d \in Devices : response[d] \in {0, v}
                             /\ \A d \in Devices : config[d] <= v
  BY DEF RegistryInv, ReloadInv
<1>5. v \in 0..version'
  BY <1>1, <1>4
<1>6. ReloadInv'
  BY <1>3, <1>4, <1>5 DEF SourceChanges, RegistryInv, ReloadInv, polling, devices
<1> QED
  BY <1>2, <1>6 DEF RegistryInv

\* The other steps move the poller, the clock or a copy.
LEMMA QuietStep ==
  ASSUME RegistryInv,
         \/ ContextExpires \/ LoadFails \/ StopPolling
         \/ \E w \in Callers, d \in Devices : GetDevice(w, d)
         \/ UNCHANGED registryVars
  PROVE  RegistryInv' /\ UNCHANGED devices
<1>1. UNCHANGED <<version, listing, response, devices>>
  BY DEF ContextExpires, LoadFails, StopPolling, GetDevice, registryVars, source, polling,
         devices
<1>2. ReloadInv'
  BY <1>1 DEF RegistryInv, ReloadInv, devices
<1>3. copy' \in [Callers -> [dev : Devices, config : Versions] \cup {NoCopy}]
  BY DEF ContextExpires, LoadFails, StopPolling, GetDevice, registryVars, RegistryInv, TypeOK
<1>4. /\ poller' \in {"waiting", "fetched", "stopped", "exited"}
      /\ loaded' \in BOOLEAN /\ expired' \in BOOLEAN
  BY DEF ContextExpires, LoadFails, StopPolling, GetDevice, registryVars, polling,
         RegistryInv, TypeOK
<1>5. TypeOK'
  BY <1>1, <1>3, <1>4 DEF RegistryInv, TypeOK, devices
<1> QED
  BY <1>1, <1>2, <1>5 DEF RegistryInv

\* Every step of the registry, its worker calls included: what holds of one holds of all.
LEMMA RegistryStep ==
  ASSUME RegistryInv, [RegistryNext]_registryVars
  PROVE  /\ RegistryInv'
         /\ [\A d \in Devices : config'[d] # 0 => config'[d] >= config[d]]_registryVars
         /\ [Directory!Next]_status
<1>0. \A d \in Devices : config[d] \in Nat
  BY DEF RegistryInv, TypeOK, Versions
<1>1. ASSUME RegistryInv', UNCHANGED devices
      PROVE  /\ \A d \in Devices : config'[d] >= config[d]
             /\ status' = status
  BY <1>0, <1>1 DEF devices
<1>2. CASE Merge
  BY <1>2, MergeStep DEF Directory!Next
<1>3. ASSUME NEW w \in Callers, NEW s \in {"ONLINE", "OFFLINE"}, Update(w, s)
      PROVE  RegistryInv' /\ [Directory!Next]_status
             /\ \A d \in Devices : config'[d] >= config[d]
  BY <1>0, <1>3, UpdateStep
<1>4. CASE Fetch
  BY <1>1, <1>4, FetchStep
<1>5. CASE SourceChanges
  BY <1>1, <1>5, SourceStep
<1>6. CASE \/ ContextExpires \/ LoadFails \/ StopPolling
           \/ \E w \in Callers, d \in Devices : GetDevice(w, d)
           \/ UNCHANGED registryVars
  BY <1>1, <1>6, QuietStep
<1> QED
  BY <1>2, <1>3, <1>4, <1>5, <1>6 DEF RegistryNext, LoadStep, CallerStep

\* RegistryInv holds in every reachable state of the registry, whatever its devices.
THEOREM RegistryInvariance == Spec => []RegistryInv
<1>1. RegistryInv /\ [RegistryNext]_registryVars => RegistryInv'
  BY RegistryStep
<1> QED
  BY <1>1, InitInv, PTL DEF Spec

\* A device never goes back to a configuration it has left (lines 96-104, 152-164).
THEOREM ConfigurationIsNewest == Spec => ConfigNeverGoesBack
<1>1. RegistryInv /\ [RegistryNext]_registryVars
        => [\A d \in Devices : config'[d] # 0 => config'[d] >= config[d]]_registryVars
  BY RegistryStep
<1> QED
  BY <1>1, RegistryInvariance, PTL DEF Spec, ConfigNeverGoesBack

\* The registry implements DeviceDirectory: a reload, whenever the answer was read, and a
\* report, whenever the copy was taken, are atomic steps on the current map (lines 85-169).
THEOREM RegistryImplementsDirectory == Spec => DirectoryRefined
<1>1. Init => Directory!Init
  BY DEF Init, Directory!Init
<1>2. RegistryInv /\ [RegistryNext]_registryVars => [Directory!Next]_status
  BY RegistryStep
<1> QED
  BY <1>1, <1>2, RegistryInvariance, PTL DEF Spec, DirectoryRefined, Directory!Spec
=================================================================================
