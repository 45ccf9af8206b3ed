----------------------------- MODULE DeviceRegistry -----------------------------
(***************************************************************************)
(* The device registry                                                     *)
(* (internal/adapters/registry/static_json_registry.go): the map of        *)
(* devices, the first load and the poller that refreshes it from the       *)
(* configured source, and the workers that look a device up and report its *)
(* status later.                                                           *)
(*                                                                         *)
(* A device is its configuration, named by the version of the source that  *)
(* listed it, and its status.  The mutex makes every access to the map one *)
(* step; a reload asks the source before it takes the mutex.               *)
(*                                                                         *)
(* A definition marked "Mistake" is no part of the specification: it is a  *)
(* plausible wrong version of the definition after it, which the           *)
(* properties must tell from the right one.                                *)
(***************************************************************************)
EXTENDS Naturals

CONSTANTS Devices,       \* device ids
          Invalid,       \* ids whose entry validateDevice rejects
          Callers,       \* router workers that look devices up
          Dynamic,       \* the registry path is an HTTP URL
          MaxVersion,    \* bound of the versions of the source
          None

ASSUME RegistryAssumption ==
    /\ Invalid \subseteq Devices
    /\ Dynamic \in BOOLEAN
    /\ MaxVersion \in Nat \ {0}
    /\ None \notin Devices

Versions == 0..MaxVersion      \* 0: not there

VARIABLES listing,       \* the source: the version each device is listed in
          version,       \* its current version
          poller,        \* where Load and poll are
          loaded,        \* the first load is done
          response,      \* the decoded answer of the source
          expired,       \* the context main gave to Load is done
          config,        \* the map: configuration of each device
          status,        \* the map: its status
          copy           \* the copy GetDevice gave to each caller

source == <<listing, version>>
polling == <<poller, loaded, response, expired>>
devices == <<config, status>>
registryVars == <<source, polling, devices, copy>>

NoCopy == [dev |-> None, config |-> 0]

TypeOK ==
    /\ listing \in [Devices -> Versions]
    /\ version \in 1..MaxVersion
    /\ poller \in {"waiting", "fetched", "stopped", "exited"}
    /\ loaded \in BOOLEAN
    /\ response \in [Devices -> Versions]
    /\ expired \in BOOLEAN
    /\ config \in [Devices -> Versions]
    /\ status \in [Devices -> {"ABSENT", "UNKNOWN", "ONLINE", "OFFLINE"}]
    /\ copy \in [Callers -> [dev : Devices, config : Versions] \cup {NoCopy}]

Lists(v) == {l \in [Devices -> Versions] : \A d \in Devices : l[d] \in {0, v}}

Init ==
    /\ version = 1
    /\ listing \in Lists(1)
    /\ poller = "waiting"
    /\ loaded = FALSE
    /\ response = [d \in Devices |-> 0]
    /\ expired = FALSE
    /\ config = [d \in Devices |-> 0]
    /\ status = [d \in Devices |-> "ABSENT"]
    /\ copy = [w \in Callers |-> NoCopy]

---------------------------------------------------------------------------------
(* The source and the clock.                                               *)

SourceChanges ==
    /\ version < MaxVersion
    /\ version' = version + 1
    /\ listing' \in Lists(version + 1)
    /\ UNCHANGED <<polling, devices, copy>>

\* main's initialization timeout, ten seconds.
ContextExpires ==
    /\ ~expired
    /\ expired' = TRUE
    /\ UNCHANGED <<source, poller, loaded, response, devices, copy>>

---------------------------------------------------------------------------------
(* Load and poll.                                                          *)

\* The first load, or one at a tick: the context is not passed to http.Get.
Fetch ==
    /\ poller = "waiting"
    /\ poller' = "fetched"
    /\ response' = listing
    /\ UNCHANGED <<source, loaded, expired, devices, copy>>

\* Mistake: a failed poll ends the poller.
StopOnFailure ==
    /\ poller = "waiting"
    /\ poller' = IF loaded THEN "stopped" ELSE "exited"
    /\ UNCHANGED <<source, loaded, response, expired, devices, copy>>

\* No answer, a bad status, or JSON that does not decode: main exits, or the poller
\* waits for the next tick.
LoadFails ==
    /\ poller = "waiting"
    /\ poller' = IF loaded THEN "waiting" ELSE "exited"
    /\ UNCHANGED <<source, loaded, response, expired, devices, copy>>

\* Mistake: the runtime state is not carried over.
MergeFresh ==
    /\ poller = "fetched"
    /\ config' = [d \in Devices |-> IF d \in Invalid THEN 0 ELSE response[d]]
    /\ status' = [d \in Devices |-> IF config'[d] = 0 THEN "ABSENT" ELSE "UNKNOWN"]
    /\ poller' = "waiting"
    /\ loaded' = TRUE
    /\ UNCHANGED <<source, response, expired, copy>>

\* Mistake: the else branch is missing, a new device gets no status.
MergeUnmarked ==
    /\ poller = "fetched"
    /\ config' = [d \in Devices |-> IF d \in Invalid THEN 0 ELSE response[d]]
    /\ status' = [d \in Devices |-> IF config'[d] = 0 THEN "ABSENT"
                                    ELSE IF config[d] = 0 THEN "" ELSE status[d]]
    /\ poller' = IF loaded \/ Dynamic THEN "waiting" ELSE "stopped"
    /\ loaded' = TRUE
    /\ UNCHANGED <<source, response, expired, copy>>

\* A device that stays keeps the status it has now, not when the source was asked.
Merge ==
    /\ poller = "fetched"
    /\ config' = [d \in Devices |-> IF d \in Invalid THEN 0 ELSE response[d]]
    /\ status' = [d \in Devices |-> IF config'[d] = 0 THEN "ABSENT"
                                    ELSE IF config[d] = 0 THEN "UNKNOWN" ELSE status[d]]
    /\ poller' = IF loaded \/ Dynamic THEN "waiting" ELSE "stopped"
    /\ loaded' = TRUE
    /\ UNCHANGED <<source, response, expired, copy>>

\* The select of poll, between ticks.
StopPolling ==
    /\ poller = "waiting" /\ loaded /\ expired
    /\ poller' = "stopped"
    /\ UNCHANGED <<source, loaded, response, expired, devices, copy>>

---------------------------------------------------------------------------------
(* GetDevice and Update.                                                   *)

GetDevice(w, d) ==
    /\ loaded /\ copy[w] = NoCopy
    /\ config[d] # 0
    /\ copy' = [copy EXCEPT ![w] = [dev |-> d, config |-> config[d]]]
    /\ UNCHANGED <<source, polling, devices>>

\* Mistake: the whole copy is stored.
UpdateAll(w, s) ==
    /\ copy[w] # NoCopy
    /\ IF config[copy[w].dev] = 0
       THEN UNCHANGED devices
       ELSE /\ status' = [status EXCEPT ![copy[w].dev] = s]
            /\ config' = [config EXCEPT ![copy[w].dev] = copy[w].config]
    /\ copy' = [copy EXCEPT ![w] = NoCopy]
    /\ UNCHANGED <<source, polling>>

\* A device that has disappeared is ignored; the configuration is not written back.
Update(w, s) ==
    /\ copy[w] # NoCopy
    /\ status' = IF config[copy[w].dev] = 0 THEN status
                 ELSE [status EXCEPT ![copy[w].dev] = s]
    /\ copy' = [copy EXCEPT ![w] = NoCopy]
    /\ UNCHANGED <<source, polling, config>>

---------------------------------------------------------------------------------
LoadStep == Fetch \/ LoadFails \/ Merge \/ StopPolling
CallerStep(w) ==
    \/ \E d \in Devices : GetDevice(w, d)
    \/ Update(w, "ONLINE") \/ Update(w, "OFFLINE")

RegistryNext ==
    \/ SourceChanges \/ ContextExpires \/ LoadStep
    \/ \E w \in Callers : CallerStep(w)

Spec == Init /\ [][RegistryNext]_registryVars

---------------------------------------------------------------------------------
(* Properties.                                                             *)

\* A reload and the workers' late updates never take a device back to a configuration it
\* has left (lines 96-104, 152-164).
ConfigNeverGoesBack ==
    [][\A d \in Devices : config'[d] # 0 => config'[d] >= config[d]]_registryVars

\* The strengthening that carries both: a device is in the map with a status or not at all,
\* an answer lists one version of the source, and none is older than the map.
ReloadInv ==
    /\ \A d \in Devices : config[d] = 0 <=> status[d] = "ABSENT"
    /\ \A d \in Devices : listing[d] \in {0, version}
    /\ \E v \in 0..version : /\ \A d \in Devices : response[d] \in {0, v}
                            /\ \A d \in Devices : config[d] <= v

RegistryInv == TypeOK /\ ReloadInv

\* Reloads, lookups and updates in any order are a directory whose status is the one
\* reported last (lines 85-107, 152-169).
Directory == INSTANCE DeviceDirectory

DirectoryRefined == Directory!Spec
=================================================================================
