----------------------------- MODULE MetricsPublisher ----------------------------
(***************************************************************************)
(* The goroutine that copies the gateway's own metrics to the IoT Hub      *)
(* (internal/observability/publisher.go) and raises alerts                 *)
(* (internal/core/rules/engine.go): it waits for the cloud client, and at  *)
(* every tick scrapes the /metrics endpoint and, for each configured       *)
(* metric and each of its series, evaluates the rules and publishes the    *)
(* value.  Workers and the MQTT callback count meanwhile, the link comes   *)
(* and goes, and main cancels the goroutine and does not wait for it.      *)
(*                                                                         *)
(* The cloud client is the port of CloudPort, the registry of collectors a *)
(* counter per series.  A metric name is its base and its suffix.          *)
(*                                                                         *)
(* A definition marked "Mistake" is no part of the specification: it is a  *)
(* plausible wrong version of the definition after it, which the           *)
(* properties must tell from the right one.                                *)
(***************************************************************************)
EXTENDS Naturals, Sequences, FiniteSetsExt

CONSTANTS Metrics,      \* PROMETHEUS_METRICS: the configured names, in order
          Series,       \* the time series of the collectors
          Labelled,     \* those that exist only once something was observed
          Exposed,      \* the series of each family, in the order of the exposition
          TypeOf,       \* the type of each family
          Threshold,    \* of each metric name that has a rule; all rules say ">"
          MaxCount      \* bound of the counters

Names == [base : STRING, suffix : {"", "_bucket", "_count", "_sum", "_total"}]
Types == {"COUNTER", "GAUGE", "UNTYPED", "HISTOGRAM", "SUMMARY"}

ASSUME PublisherAssumption ==
    /\ Metrics \in Seq(Names)
    /\ Labelled \subseteq Series
    /\ IsFiniteSet(DOMAIN Exposed)
    /\ \A f \in DOMAIN Exposed : f \in Names /\ Exposed[f] \in Seq(Series)
    /\ \A f \in DOMAIN Exposed : TypeOf[f] \in Types
    /\ \A n \in DOMAIN Threshold : n \in Names /\ Threshold[n] \in Nat
    /\ MaxCount \in Nat

VARIABLES counts,       \* the collectors
          up,           \* CloudClient.IsConnected
          main,         \* running, publisher's context cancelled, client disconnected
          tick,         \* the ticker's channel, of capacity 1, holds a tick
          at,           \* where the goroutine is
          sample,       \* the counts of the last scrape
          next,         \* the position of the next metric of the cycle
          todo,         \* the positions of the series still to do of the current metric
          told,         \* history: what became of the alerts of each series
          shown,        \* history: series of which a value in breach was sent
          late          \* history: publishes made after the cancellation

cycle == <<sample, next, todo>>
history == <<told, shown, late>>
vars == <<counts, up, main, tick, at, cycle, history>>

---------------------------------------------------------------------------------
(* What a configured name stands for in a scrape.                          *)

Exists(s, c) == s \notin Labelled \/ c[s] > 0

\* A family without series is not exposed.
Scraped(f, c) == f \in DOMAIN Exposed /\ \E i \in DOMAIN Exposed[f] : Exists(Exposed[f][i], c)

\* A histogram or a summary called by its own name stands for its count.
DirectField(type) == IF type \in {"HISTOGRAM", "SUMMARY"} THEN "count" ELSE "value"

DerivedField(type, suffix) ==
    CASE suffix \in {"_count", "_sum"} /\ type \in {"HISTOGRAM", "SUMMARY"} -> suffix
      [] suffix = "_total" /\ type = "COUNTER" -> "value"
      [] OTHER -> "none"

\* The family itself if it is there, the family it is derived from otherwise.
Family(name, c) == IF Scraped(name, c) THEN name ELSE [name EXCEPT !.suffix = ""]

Field(name, c) ==
    IF Scraped(name, c) THEN DirectField(TypeOf[name])
    ELSE IF name.suffix # "" /\ Scraped(Family(name, c), c)
         THEN DerivedField(TypeOf[Family(name, c)], name.suffix)
    ELSE "none"

SeriesAt(name, c, i) == Exposed[Family(name, c)][i]

\* The positions of the series published for a name, in the family; none if the name is
\* not found or has no value.
Published(name, c) ==
    IF Field(name, c) = "none" THEN {}
    ELSE {i \in DOMAIN Exposed[Family(name, c)] : Exists(SeriesAt(name, c, i), c)}

Alert == {<<n, s>> : n \in DOMAIN Threshold, s \in Series}

\* Mistake: a value at the threshold breaches it.
AtThreshold(name, s, c) == name \in DOMAIN Threshold /\ c[s] >= Threshold[name]

Breached(name, s, c) == name \in DOMAIN Threshold /\ c[s] > Threshold[name]

MaxSeries == Max({0} \cup {Len(Exposed[f]) : f \in DOMAIN Exposed})

PublisherTypeOK ==
    /\ counts \in [Series -> 0..MaxCount]
    /\ up \in BOOLEAN
    /\ main \in {"running", "cancelled", "disconnected"}
    /\ tick \in BOOLEAN
    /\ at \in {"await", "cycle", "scrape", "metric", "series", "alert", "publish", "select", "done"}
    /\ sample \in [Series -> 0..MaxCount]
    /\ next \in 1..(Len(Metrics) + 1)
    /\ todo \in SUBSET Nat
    /\ told \in [Alert -> {"none", "missed", "alerted"}]
    /\ shown \subseteq Alert
    /\ late \in Nat

Init ==
    /\ counts = [s \in Series |-> 0]
    /\ up = FALSE
    /\ main = "running"
    /\ tick = FALSE
    /\ at = "await"
    /\ sample = [s \in Series |-> 0]
    /\ next = 1
    /\ todo = {}
    /\ told = [a \in Alert |-> "none"]
    /\ shown = {}
    /\ late = 0

---------------------------------------------------------------------------------
(* The environment: the collectors, the link, the ticker, main.            *)

\* RecordCommandDropped, RecordCommandLatency.
Record(s) ==
    /\ counts[s] < MaxCount
    /\ counts' = [counts EXCEPT ![s] = @ + 1]
    /\ UNCHANGED <<up, main, tick, at, cycle, history>>

LinkChanges ==
    /\ main # "disconnected"
    /\ up' = ~up
    /\ UNCHANGED <<counts, main, tick, at, cycle, history>>

\* A tick that finds another one unread is dropped.
TickFires ==
    /\ ~tick
    /\ tick' = TRUE
    /\ UNCHANGED <<counts, up, main, at, cycle, history>>

Cancel ==
    /\ main = "running"
    /\ main' = "cancelled"
    /\ UNCHANGED <<counts, up, tick, at, cycle, history>>

Disconnect ==
    /\ main = "cancelled"
    /\ main' = "disconnected"
    /\ up' = FALSE
    /\ UNCHANGED <<counts, tick, at, cycle, history>>

---------------------------------------------------------------------------------
(* Start and waitForCloud.                                                 *)

Cancelled == main # "running"

Goto(place) == at' = place

CloudSeen ==
    /\ at = "await" /\ up
    /\ Goto("cycle")
    /\ UNCHANGED <<counts, up, main, tick, cycle, history>>

\* Mistake: waitForCloud does not look at the context.
AwaitRegardless ==
    /\ FALSE
    /\ UNCHANGED vars

AwaitCancelled ==
    /\ at = "await" /\ Cancelled
    /\ Goto("cycle")
    /\ UNCHANGED <<counts, up, main, tick, cycle, history>>

\* Go's select takes either case when both are ready.
TickTaken ==
    /\ at = "select" /\ tick
    /\ tick' = FALSE
    /\ Goto("cycle")
    /\ UNCHANGED <<counts, up, main, cycle, history>>

ContextDone ==
    /\ at = "select" /\ Cancelled
    /\ Goto("done")
    /\ UNCHANGED <<counts, up, main, tick, cycle, history>>

---------------------------------------------------------------------------------
(* publishMetrics.                                                         *)

BeginCycle ==
    /\ at = "cycle"
    /\ Goto(IF Cancelled THEN "select" ELSE "scrape")
    /\ UNCHANGED <<counts, up, main, tick, cycle, history>>

\* Refused, too slow, cancelled, not 200, or not parsed.
ScrapeFails ==
    /\ at = "scrape"
    /\ Goto("select")
    /\ UNCHANGED <<counts, up, main, tick, cycle, history>>

\* The series are read one by one while they are being counted; no two of them are
\* compared, so one moment does for all.  Then the connection is looked at.
ScrapeSucceeds ==
    /\ at = "scrape" /\ ~Cancelled
    /\ Goto(IF up THEN "metric" ELSE "select")
    /\ sample' = counts
    /\ next' = 1
    /\ todo' = {}
    /\ UNCHANGED <<counts, up, main, tick, history>>

\* Mistake: the context is looked at before the first metric only.
NextMetricRegardless ==
    /\ at = "metric"
    /\ IF next > Len(Metrics) \/ (Cancelled /\ next = 1)
       THEN Goto("select") /\ UNCHANGED <<next, todo>>
       ELSE /\ todo' = Published(Metrics[next], sample)
            /\ next' = next + 1
            /\ Goto("series")
    /\ UNCHANGED <<counts, up, main, tick, sample, history>>


NextMetric ==
    /\ at = "metric"
    /\ IF next > Len(Metrics) \/ Cancelled
       THEN Goto("select") /\ UNCHANGED <<next, todo>>
       ELSE /\ todo' = Published(Metrics[next], sample)
            /\ next' = next + 1
            /\ Goto("series")
    /\ UNCHANGED <<counts, up, main, tick, sample, history>>

---------------------------------------------------------------------------------
(* publishFamily and publishDerivedField: the rules, then the value.       *)

Current == <<Metrics[next - 1], SeriesAt(Metrics[next - 1], sample, Min(todo))>>
InBreach == Breached(Current[1], Current[2], sample)

\* An alert that was sent once is never counted as missed again.
Tell(how) ==
    told' = IF told[Current] = "alerted" THEN told ELSE [told EXCEPT ![Current] = how]

Show == shown' = IF InBreach THEN shown \cup {Current} ELSE shown

CountLate == late' = IF Cancelled THEN late + 1 ELSE late

\* Mistake: the position moves on twice.
SkipMetric ==
    /\ at = "series" /\ todo = {}
    /\ Goto("metric")
    /\ next' = next + 1
    /\ UNCHANGED <<counts, up, main, tick, sample, todo, history>>

SeriesDone ==
    /\ at = "series" /\ todo = {}
    /\ Goto("metric")
    /\ UNCHANGED <<counts, up, main, tick, cycle, history>>

\* Mistake: an alert is raised when the series crosses its threshold, and not again.
EvaluateOnce ==
    /\ at = "series" /\ todo # {}
    /\ Goto(IF InBreach /\ up /\ told[Current] = "none" THEN "alert" ELSE "publish")
    /\ IF InBreach /\ ~up THEN Tell("missed") ELSE UNCHANGED told
    /\ UNCHANGED <<counts, up, main, tick, cycle, shown, late>>

\* Evaluate and triggerAlert up to Publish: without a connection the alert is skipped.
Evaluate ==
    /\ at = "series" /\ todo # {}
    /\ Goto(IF InBreach /\ up THEN "alert" ELSE "publish")
    /\ IF InBreach /\ ~up THEN Tell("missed") ELSE UNCHANGED told
    /\ UNCHANGED <<counts, up, main, tick, cycle, shown, late>>

AlertSucceeds ==
    /\ at = "alert" /\ up
    /\ Goto("publish")
    /\ Tell("alerted")
    /\ CountLate
    /\ UNCHANGED <<counts, up, main, tick, cycle, shown>>

\* Logged only.  After a timeout paho may have sent the alert.
AlertFails ==
    /\ at = "alert"
    /\ Goto("publish")
    /\ Tell("missed") \/ Tell("alerted")
    /\ CountLate
    /\ UNCHANGED <<counts, up, main, tick, cycle, shown>>

PublishSucceeds ==
    /\ at = "publish" /\ up
    /\ Goto("series")
    /\ Show
    /\ todo' = todo \ {Min(todo)}
    /\ CountLate
    /\ UNCHANGED <<counts, up, main, tick, sample, next, told>>

\* The error ends the metric: its other series are neither evaluated nor published.
PublishFails ==
    /\ at = "publish"
    /\ Goto("metric")
    /\ Show \/ UNCHANGED shown
    /\ todo' = {}
    /\ CountLate
    /\ UNCHANGED <<counts, up, main, tick, sample, next, told>>

---------------------------------------------------------------------------------
Failure == ScrapeFails \/ AlertFails \/ PublishFails
Progress ==
    \/ CloudSeen \/ AwaitCancelled \/ TickTaken \/ ContextDone
    \/ BeginCycle \/ ScrapeSucceeds \/ NextMetric
    \/ SeriesDone \/ Evaluate \/ AlertSucceeds \/ PublishSucceeds

Environment ==
    \/ \E s \in Series : Record(s)
    \/ LinkChanges \/ TickFires \/ Cancel \/ Disconnect

Next == Environment \/ Progress \/ Failure

Spec == Init /\ [][Next]_vars

\* The ticker ticks, the goroutine runs (every publish has a timeout of five seconds and a
\* scrape one of ten), and select, which chooses at random, takes a context that stays
\* done some time.  Nothing makes the link come up or stay, or a call succeed.
FairSpec ==
    /\ Spec
    /\ WF_vars(TickFires)
    /\ WF_vars(Progress \/ Failure)
    /\ SF_vars(ContextDone)

---------------------------------------------------------------------------------
(* Properties.                                                             *)

\* An alert that was sent is of a series that is over its threshold, although the values were
\* scraped before; and no value over a threshold is sent without an alert, or an alert that
\* the link lost, having come first (publisher 294-301, rules 53-101).
AlertsMatchMetrics ==
    /\ \A a \in Alert : told[a] # "none" => counts[a[2]] > Threshold[a[1]]
    /\ \A a \in shown : told[a] # "none"


\* main does not wait for the publisher (main 203): after the cancellation it publishes
\* for the metric it is at and no more, each series and its alert.
LateTraffic == late <= 2 * MaxSeries

(* The inductive invariant behind the three.                               *)

\* Inside a metric the goroutine is at one of its series.
InMetric == at \in {"series", "alert", "publish"}

CursorInv ==
    InMetric =>
        /\ next \in 2..(Len(Metrics) + 1)
        /\ todo \subseteq Published(Metrics[next - 1], sample)
        /\ at # "series" => todo # {}

\* A series has not lost a count since the scrape; an alert is of a breach, and before the
\* value is published its alert has been dealt with.
AlertInv ==
    /\ \A s \in Series : sample[s] <= counts[s]
    /\ at = "alert" => InBreach
    /\ at = "publish" /\ InBreach => told[Current] # "none"

\* What was published since the cancellation and what is still to do share the bound; a
\* series whose alert is done has one publish left.
LateInv ==
    /\ ~Cancelled => late = 0
    /\ LateTraffic
    /\ InMetric => late + 2 * Cardinality(todo)
                     <= IF at = "publish" THEN 2 * MaxSeries + 1 ELSE 2 * MaxSeries

PublisherInv == PublisherTypeOK /\ CursorInv /\ AlertInv /\ AlertsMatchMetrics /\ LateInv

\* The publisher ends after the cancellation, also if the link never comes up, and however
\* often select prefers the ticker (lines 106-115, 132-141).
PublisherEnds == main = "cancelled" ~> at = "done"
=================================================================================
