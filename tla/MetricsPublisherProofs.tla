------------------------- MODULE MetricsPublisherProofs --------------------------
(***************************************************************************)
(* Theorems about MetricsPublisher, for any collectors, any families of    *)
(* any length, any configured names and any rules: the goroutine keeps its *)
(* types, alerts match the metrics they are of, and the traffic after the  *)
(* cancellation is bounded by the longest family.                          *)
(*                                                                         *)
(* The argument follows the position of the goroutine.  Inside a metric    *)
(* the series it is at exists and is one of a family (CursorInv); between  *)
(* an evaluation and the publish after it the alert has been dealt with    *)
(* (AlertInv); and what has been published since the cancellation and what *)
(* is still to do together do not exceed the bound (LateInv).              *)
(***************************************************************************)
EXTENDS MetricsPublisher, FiniteSetTheorems, WellFoundedInduction, TLAPS

---------------------------------------------------------------------------------
(* The least and the greatest element of a set of numbers.                 *)

\* The loop over the series of a family (publisher.go 280, 319) has a next one to do.
LEMMA MinExists ==
  ASSUME NEW S, S \subseteq Nat, S # {}
  PROVE  Min(S) \in S /\ \A y \in S : Min(S) <= y
<1>1. PICK x \in S : \A y \in S : ~(<<y, x>> \in OpToRel(<, Nat))
  BY NatLessThanWellFounded, WFMin
<1>2. \A y \in S : ~(y < x)
  BY <1>1 DEF OpToRel
<1>3. \A y \in S : x <= y
  BY <1>2
<1> QED
  BY <1>3 DEF Min

\* A finite set of numbers has a greatest one; by the least size of a set without.
LEMMA MaxExists ==
  ASSUME NEW S, S \subseteq Nat, IsFiniteSet(S), S # {}
  PROVE  Max(S) \in S /\ \A y \in S : Max(S) >= y
<1> DEFINE HasMax(T) == \E x \in T : \A y \in T : x >= y
           Without == {n \in Nat : \E T \in SUBSET Nat :
                          IsFiniteSet(T) /\ T # {} /\ Cardinality(T) = n /\ ~HasMax(T)}
<1>1. ASSUME Without # {} PROVE FALSE
  <2>1. PICK n \in Without : \A m \in Without : n <= m
    BY <1>1, MinExists
  <2>2. PICK T \in SUBSET Nat :
          IsFiniteSet(T) /\ T # {} /\ Cardinality(T) = n /\ ~HasMax(T)
    BY <2>1
  <2>3. PICK e \in T : TRUE
    BY <2>2
  <2> DEFINE R == T \ {e}
  <2>4. IsFiniteSet(R) /\ Cardinality(R) = n - 1 /\ R \in SUBSET Nat
    BY <2>2, <2>3, FS_RemoveElement
  <2>5. n - 1 \in Nat
    BY <2>4, FS_CardinalityType
  <2>6. HasMax(R) \/ R = {}
    BY <2>1, <2>4, <2>5
  <2>7. CASE R = {}
    BY <2>2, <2>3, <2>7
  <2>8. CASE HasMax(R)
    <3>1. PICK x \in R : \A y \in R : x >= y
      BY <2>8
    <3>2. x \in T /\ x \in Nat /\ e \in Nat
      BY <2>2, <2>3, <3>1
    <3>3. \A y \in T : y = e \/ y \in R
      OBVIOUS
    <3> QED
      BY <2>2, <2>3, <3>1, <3>2, <3>3
  <2> QED
    BY <2>6, <2>7, <2>8
<1>2. Cardinality(S) \in Nat
  BY FS_CardinalityType
<1>3. HasMax(S)
  BY <1>1, <1>2
<1> QED
  BY <1>3 DEF Max

---------------------------------------------------------------------------------
(* The families of a scrape.                                               *)

\* No family is longer than MaxSeries.
LEMMA MaxSeriesBounds ==
  /\ MaxSeries \in Nat
  /\ \A f \in DOMAIN Exposed : Len(Exposed[f]) \in Nat /\ Len(Exposed[f]) <= MaxSeries
<1> DEFINE Lengths == {Len(Exposed[f]) : f \in DOMAIN Exposed}
           S == {0} \cup Lengths
<1>1. \A f \in DOMAIN Exposed : Len(Exposed[f]) \in Nat
  BY PublisherAssumption
<1>2. IsFiniteSet(Lengths)
  <2> DEFINE length == [f \in DOMAIN Exposed |-> Len(Exposed[f])]
  <2>1. length \in Surjection(DOMAIN Exposed, Lengths)
    BY DEF Surjection
  <2> QED
    BY <2>1, PublisherAssumption, FS_Surjection
<1>3. IsFiniteSet(S) /\ S \subseteq Nat /\ S # {}
  <2>1. IsFiniteSet(Lengths \cup {0})
    BY <1>2, FS_AddElement
  <2>2. S = Lengths \cup {0}
    OBVIOUS
  <2>3. Lengths \subseteq Nat
    BY <1>1
  <2> HIDE DEF Lengths
  <2>4. S \subseteq Nat /\ S # {}
    BY <2>3
  <2> QED
    BY <2>1, <2>2, <2>4
<1>4. Max(S) \in Nat /\ \A y \in S : Max(S) >= y
  BY <1>3, MaxExists
<1> QED
  BY <1>1, <1>4 DEF MaxSeries

\* The series published for a name are some of those of one family (publisher.go 238-284).
LEMMA PublishedPositions ==
  ASSUME NEW name, NEW c
  PROVE  /\ Published(name, c) \subseteq Nat
         /\ IsFiniteSet(Published(name, c))
         /\ Cardinality(Published(name, c)) <= MaxSeries
         /\ \A i \in Published(name, c) : SeriesAt(name, c, i) \in Series
<1>1. CASE Field(name, c) = "none"
  <2>1. Published(name, c) = {}
    BY <1>1 DEF Published
  <2> QED
    BY <2>1, FS_EmptySet, MaxSeriesBounds
<1>2. CASE Field(name, c) # "none"
  <2> DEFINE f == Family(name, c)
  <2>1. f \in DOMAIN Exposed
    BY <1>2 DEF Field, Family, Scraped
  <2>2. /\ Exposed[f] \in Seq(Series)
        /\ Published(name, c) \subseteq DOMAIN Exposed[f]
    BY <1>2, <2>1, PublisherAssumption DEF Published
  <2> HIDE DEF f
  <2>3. DOMAIN Exposed[f] = 1..Len(Exposed[f]) /\ Len(Exposed[f]) \in Nat
    BY <2>2
  <2>4. IsFiniteSet(1..Len(Exposed[f])) /\ Cardinality(1..Len(Exposed[f])) = Len(Exposed[f])
    BY <2>3, FS_Interval
  <2>5. /\ IsFiniteSet(Published(name, c))
        /\ Cardinality(Published(name, c)) \in Nat
        /\ Cardinality(Published(name, c)) <= Len(Exposed[f])
    BY <2>2, <2>3, <2>4, FS_Subset, FS_CardinalityType
  <2>6. \A i \in Published(name, c) : SeriesAt(name, c, i) \in Series
    BY <2>2, <2>3 DEF SeriesAt, f
  <2> QED
    BY <2>1, <2>2, <2>3, <2>5, <2>6, MaxSeriesBounds
<1> QED
  BY <1>1, <1>2

---------------------------------------------------------------------------------
(* Types, and the place of the goroutine inside a metric.                  *)

\* Nothing is counted, published or told before Start.
LEMMA InitPublisher == Init => PublisherInv
<1> SUFFICES ASSUME Init PROVE PublisherInv
  OBVIOUS
<1>1. PublisherTypeOK
  <2>1. 0 \in 0..MaxCount /\ 1 \in 1..(Len(Metrics) + 1)
    BY PublisherAssumption
  <2> QED
    BY <2>1 DEF Init, PublisherTypeOK
<1>2. CursorInv /\ AlertsMatchMetrics
  BY DEF Init, CursorInv, InMetric, AlertsMatchMetrics
<1>3. AlertInv
  BY DEF Init, AlertInv
<1>4. LateInv
  BY MaxSeriesBounds DEF Init, LateInv, LateTraffic, InMetric, Cancelled
<1> QED
  BY <1>1, <1>2, <1>3, <1>4 DEF PublisherInv

\* The series the goroutine is at exists, and its alert has a place in the history.
LEMMA CurrentSeries ==
  ASSUME CursorInv, InMetric, todo # {}
  PROVE  /\ Min(todo) \in todo
         /\ Current[2] \in Series
         /\ InBreach => /\ Current \in Alert
                        /\ Current[1] \in DOMAIN Threshold
                        /\ sample[Current[2]] > Threshold[Current[1]]
         /\ IsFiniteSet(todo) /\ Cardinality(todo) \in Nat \ {0}
<1> DEFINE name == Metrics[next - 1]
<1>1. todo \subseteq Published(name, sample)
  BY DEF CursorInv
<1> HIDE DEF name
<1>2. todo \subseteq Nat /\ IsFiniteSet(todo)
  BY <1>1, PublishedPositions, FS_Subset
<1>3. Min(todo) \in todo
  BY <1>2, MinExists
<1>4. SeriesAt(name, sample, Min(todo)) \in Series
  BY <1>1, <1>3, PublishedPositions
<1>5. Current = <<name, SeriesAt(name, sample, Min(todo))>>
  BY DEF Current, name
<1>6. InBreach => Current \in Alert
  BY <1>4, <1>5 DEF InBreach, Breached, Alert
<1>7. InBreach => /\ Current[1] \in DOMAIN Threshold
                  /\ sample[Current[2]] > Threshold[Current[1]]
  BY DEF InBreach, Breached
<1>8. Cardinality(todo) \in Nat \ {0}
  BY <1>2, FS_CardinalityType, FS_EmptySet
<1> QED
  BY <1>2, <1>3, <1>4, <1>5, <1>6, <1>7, <1>8

\* As long as the cycle stands, so does the series the goroutine is at.
LEMMA CurrentFrame ==
  ASSUME UNCHANGED cycle
  PROVE  Current' = Current /\ InBreach' = InBreach
<1>1. sample' = sample /\ next' = next /\ todo' = todo
  BY DEF cycle
<1>2. Current' = Current
  BY <1>1 DEF Current
<1> QED
  BY <1>1, <1>2 DEF InBreach

LEMMA TellTypes ==
  ASSUME PublisherTypeOK, NEW how \in {"missed", "alerted"}, Tell(how)
  PROVE  told' \in [Alert -> {"none", "missed", "alerted"}]
  BY DEF PublisherTypeOK, Tell

\* Every step of the goroutine and of its environment keeps every type.
LEMMA PublisherTypeStep ==
  ASSUME PublisherTypeOK, CursorInv, [Next]_vars
  PROVE  PublisherTypeOK'
<1>1. ASSUME NEW s \in Series, Record(s) PROVE PublisherTypeOK'
  <2>1. counts' \in [Series -> 0..MaxCount]
    <3>1. counts[s] + 1 \in 0..MaxCount
      BY <1>1, PublisherAssumption DEF Record, PublisherTypeOK
    <3> QED
      BY <1>1, <3>1 DEF Record, PublisherTypeOK
  <2> QED
    BY <1>1, <2>1 DEF Record, PublisherTypeOK, cycle, history
<1>2. CASE LinkChanges \/ TickFires \/ Cancel \/ Disconnect
  BY <1>2 DEF LinkChanges, TickFires, Cancel, Disconnect, PublisherTypeOK, cycle, history
<1>3. CASE \/ CloudSeen \/ AwaitCancelled \/ TickTaken \/ ContextDone \/ BeginCycle
           \/ ScrapeFails \/ SeriesDone
  BY <1>3 DEF CloudSeen, AwaitCancelled, TickTaken, ContextDone, BeginCycle, ScrapeFails,
     SeriesDone, Goto, PublisherTypeOK, cycle, history
<1>4. CASE ScrapeSucceeds
  BY <1>4, PublisherAssumption DEF ScrapeSucceeds, Goto, PublisherTypeOK, history
<1>5. CASE NextMetric
  <2>1. next' \in 1..(Len(Metrics) + 1) /\ todo' \in SUBSET Nat
    <3>1. CASE next > Len(Metrics) \/ Cancelled
      BY <1>5, <3>1 DEF NextMetric, PublisherTypeOK
    <3>2. CASE ~(next > Len(Metrics) \/ Cancelled)
      <4>1. next + 1 \in 1..(Len(Metrics) + 1)
        BY <3>2, PublisherAssumption DEF PublisherTypeOK
      <4> QED
        BY <1>5, <3>2, <4>1, PublishedPositions DEF NextMetric
    <3> QED
      BY <3>1, <3>2
  <2> QED
    BY <1>5, <2>1 DEF NextMetric, Goto, PublisherTypeOK, history
<1>6. CASE Evaluate
  <2>1. told' \in [Alert -> {"none", "missed", "alerted"}]
    BY <1>6, TellTypes DEF Evaluate, PublisherTypeOK
  <2> QED
    BY <1>6, <2>1 DEF Evaluate, Goto, PublisherTypeOK, cycle
<1>7. CASE AlertSucceeds \/ AlertFails
  <2>1. told' \in [Alert -> {"none", "missed", "alerted"}]
    BY <1>7, TellTypes DEF AlertSucceeds, AlertFails
  <2>2. late' \in Nat
    BY <1>7 DEF AlertSucceeds, AlertFails, CountLate, PublisherTypeOK
  <2>3. at' = "publish" /\ UNCHANGED <<counts, up, main, tick, cycle, shown>>
    BY <1>7 DEF AlertSucceeds, AlertFails, Goto
  <2> QED
    BY <2>1, <2>2, <2>3 DEF PublisherTypeOK, cycle
<1>8. CASE PublishSucceeds \/ PublishFails
  <2>1. shown' \subseteq Alert
    <3>1. InBreach => Current \in Alert
      BY <1>8, CurrentSeries DEF PublishSucceeds, PublishFails, CursorInv, InMetric
    <3> QED
      BY <1>8, <3>1 DEF PublishSucceeds, PublishFails, Show, PublisherTypeOK
  <2>2. todo' \in SUBSET Nat
    BY <1>8 DEF PublishSucceeds, PublishFails, PublisherTypeOK
  <2> QED
    BY <1>8, <2>1, <2>2 DEF PublishSucceeds, PublishFails, CountLate, Goto, PublisherTypeOK
<1>9. CASE UNCHANGED vars
  BY <1>9 DEF vars, PublisherTypeOK, cycle, history
<1> QED
  BY <1>1, <1>2, <1>3, <1>4, <1>5, <1>6, <1>7, <1>8, <1>9
     DEF Next, Environment, Progress, Failure

\* A metric is begun with all its series to do, and left with its last one or by an error.
LEMMA CursorStep ==
  ASSUME PublisherTypeOK, CursorInv, [Next]_vars
  PROVE  CursorInv'
<1>1. CASE Environment \/ UNCHANGED vars
  <2>1. UNCHANGED <<at, sample, next, todo>>
    BY <1>1 DEF Environment, Record, LinkChanges, TickFires, Cancel, Disconnect, vars, cycle
  <2> QED
    BY <2>1 DEF CursorInv, InMetric
<1>2. CASE \/ CloudSeen \/ AwaitCancelled \/ TickTaken \/ ContextDone \/ BeginCycle
           \/ ScrapeFails \/ ScrapeSucceeds \/ SeriesDone \/ PublishFails
  BY <1>2 DEF CloudSeen, AwaitCancelled, TickTaken, ContextDone, BeginCycle, ScrapeFails,
     ScrapeSucceeds, SeriesDone, PublishFails, Goto, CursorInv, InMetric
<1>3. CASE NextMetric
  <2>1. CASE next > Len(Metrics) \/ Cancelled
    BY <1>3, <2>1 DEF NextMetric, Goto, CursorInv, InMetric
  <2>2. CASE ~(next > Len(Metrics) \/ Cancelled)
    <3>1. /\ at' = "series" /\ sample' = sample
          /\ next' = next + 1 /\ next' - 1 = next /\ next' \in 2..(Len(Metrics) + 1)
          /\ todo' = Published(Metrics[next], sample)
      BY <1>3, <2>2, PublisherAssumption DEF NextMetric, Goto, PublisherTypeOK
    <3> QED
      BY <3>1 DEF CursorInv
  <2> QED
    BY <2>1, <2>2
<1>4. CASE Evaluate \/ AlertSucceeds \/ AlertFails
  <2>1. /\ UNCHANGED <<sample, next, todo>> /\ todo # {} /\ InMetric
    BY <1>4 DEF Evaluate, AlertSucceeds, AlertFails, cycle, CursorInv, InMetric
  <2> QED
    BY <2>1 DEF CursorInv
<1>5. CASE PublishSucceeds
  <2>1. /\ UNCHANGED <<sample, next>> /\ at' = "series"
        /\ todo' \subseteq todo /\ InMetric
    BY <1>5 DEF PublishSucceeds, Goto, InMetric
  <2> QED
    BY <2>1 DEF CursorInv
<1> QED
  BY <1>1, <1>2, <1>3, <1>4, <1>5 DEF Next, Progress, Failure

---------------------------------------------------------------------------------
(* Alerts and metrics.                                                     *)

\* A rule that was over its threshold at the scrape still is: the collectors only count.
LEMMA BreachStands ==
  ASSUME PublisherTypeOK, CursorInv, AlertInv, InMetric, todo # {}, InBreach
  PROVE  /\ Current \in Alert
         /\ counts[Current[2]] > Threshold[Current[1]]
<1>1. /\ Current \in Alert /\ Current[2] \in Series
      /\ Current[1] \in DOMAIN Threshold
      /\ sample[Current[2]] > Threshold[Current[1]]
  BY CurrentSeries
<1>2. sample[Current[2]] <= counts[Current[2]]
  BY <1>1 DEF AlertInv
<1>3. /\ sample[Current[2]] \in Nat /\ counts[Current[2]] \in Nat
      /\ Threshold[Current[1]] \in Nat
  BY <1>1, PublisherAssumption DEF PublisherTypeOK
<1> QED
  BY <1>1, <1>2, <1>3

\* What becomes of an alert is recorded for the current series and no other, and an alert
\* that was told stays told (rules 78-104).
LEMMA TellCurrent ==
  ASSUME PublisherTypeOK, NEW how \in {"missed", "alerted"}, Tell(how), Current \in Alert
  PROVE  /\ told'[Current] # "none"
         /\ \A a \in Alert : a # Current => told'[a] = told[a]
         /\ \A a \in Alert : told[a] # "none" => told'[a] # "none"
  BY DEF PublisherTypeOK, Tell

\* Telling of a breach keeps the promise about alerts and values.
LEMMA TellMatches ==
  ASSUME PublisherTypeOK, CursorInv, AlertInv, AlertsMatchMetrics, InMetric, todo # {},
         InBreach, NEW how \in {"missed", "alerted"}, Tell(how), UNCHANGED <<counts, shown>>
  PROVE  AlertsMatchMetrics' /\ told'[Current] # "none"
<1>1. Current \in Alert /\ counts[Current[2]] > Threshold[Current[1]]
  BY BreachStands
<1>2. /\ told'[Current] # "none"
      /\ \A a \in Alert : a # Current => told'[a] = told[a]
      /\ \A a \in Alert : told[a] # "none" => told'[a] # "none"
  BY <1>1, TellCurrent
<1>3. shown \subseteq Alert
  BY DEF PublisherTypeOK
<1> QED
  BY <1>1, <1>2, <1>3 DEF AlertsMatchMetrics

\* Evaluation, alert and publish in any weather: the alert of a breach comes first.
LEMMA AlertStep ==
  ASSUME PublisherTypeOK, CursorInv, AlertInv, AlertsMatchMetrics, [Next]_vars
  PROVE  AlertInv' /\ AlertsMatchMetrics'
<1>0. /\ \A s \in Series : sample[s] \in Nat /\ counts[s] \in Nat
      /\ \A a \in Alert : Threshold[a[1]] \in Nat /\ a[2] \in Series
  BY PublisherAssumption DEF PublisherTypeOK, Alert
<1>1. ASSUME NEW s \in Series, Record(s) PROVE AlertInv' /\ AlertsMatchMetrics'
  <2>1. /\ UNCHANGED <<at, cycle, told, shown>>
        /\ \A t \in Series : counts'[t] \in Nat /\ counts[t] <= counts'[t]
    BY <1>0, <1>1 DEF Record, PublisherTypeOK, history
  <2>2. Current' = Current /\ InBreach' = InBreach /\ sample' = sample
    BY <2>1, CurrentFrame DEF cycle
  <2>3. \A t \in Series : sample'[t] <= counts'[t]
    BY <1>0, <2>1, <2>2 DEF AlertInv
  <2>4. AlertInv'
    BY <2>1, <2>2, <2>3 DEF AlertInv
  <2>5. AlertsMatchMetrics'
    BY <1>0, <2>1 DEF AlertsMatchMetrics
  <2> QED
    BY <2>4, <2>5
<1>2. ASSUME UNCHANGED <<counts, cycle, told, shown>>,
             at' = at \/ at' \notin {"alert", "publish"}
      PROVE  AlertInv' /\ AlertsMatchMetrics'
  <2>1. Current' = Current /\ InBreach' = InBreach /\ sample' = sample
    BY <1>2, CurrentFrame DEF cycle
  <2> QED
    BY <1>2, <2>1 DEF AlertInv, AlertsMatchMetrics
<1>3. CASE \/ LinkChanges \/ TickFires \/ Cancel \/ Disconnect
           \/ CloudSeen \/ AwaitCancelled \/ TickTaken \/ ContextDone \/ BeginCycle
           \/ ScrapeFails \/ SeriesDone \/ UNCHANGED vars
  <2>1. /\ UNCHANGED <<counts, cycle, told, shown>>
        /\ at' = at \/ at' \notin {"alert", "publish"}
    BY <1>3 DEF LinkChanges, TickFires, Cancel, Disconnect, CloudSeen, AwaitCancelled,
       TickTaken, ContextDone, BeginCycle, ScrapeFails, SeriesDone, Goto, history, vars
  <2> QED
    BY <1>2, <2>1
<1>4. CASE ScrapeSucceeds \/ NextMetric
  <2>1. /\ UNCHANGED <<counts, told, shown>> /\ at' \notin {"alert", "publish"}
        /\ sample' = sample \/ sample' = counts
    BY <1>4 DEF ScrapeSucceeds, NextMetric, Goto, history
  <2>2. \A s \in Series : sample'[s] <= counts'[s]
    BY <1>0, <2>1 DEF AlertInv
  <2> QED
    BY <2>1, <2>2 DEF AlertInv, AlertsMatchMetrics
<1>5. CASE Evaluate
  <2>1. /\ UNCHANGED <<counts, cycle, shown>> /\ InMetric /\ todo # {}
        /\ at' = "alert" => InBreach
        /\ at' \in {"alert", "publish"}
    BY <1>5 DEF Evaluate, Goto, InMetric
  <2>2. Current' = Current /\ InBreach' = InBreach /\ sample' = sample
    BY <2>1, CurrentFrame DEF cycle
  <2>3. CASE InBreach /\ ~up
    <3>1. AlertsMatchMetrics' /\ told'[Current] # "none"
      BY <1>5, <2>1, <2>3, TellMatches DEF Evaluate
    <3> QED
      BY <2>1, <2>2, <3>1 DEF AlertInv
  <2>4. CASE ~(InBreach /\ ~up)
    <3>1. told' = told /\ (at' = "publish" => ~InBreach)
      BY <1>5, <2>4 DEF Evaluate, Goto
    <3> QED
      BY <2>1, <2>2, <3>1 DEF AlertInv, AlertsMatchMetrics
  <2> QED
    BY <2>3, <2>4
<1>6. CASE AlertSucceeds \/ AlertFails
  <2>1. /\ UNCHANGED <<counts, cycle, shown>> /\ at = "alert" /\ at' = "publish"
        /\ Tell("missed") \/ Tell("alerted")
    BY <1>6 DEF AlertSucceeds, AlertFails, Goto
  <2>2. InMetric /\ todo # {} /\ InBreach
    BY <2>1 DEF InMetric, CursorInv, AlertInv
  <2>3. Current' = Current /\ sample' = sample
    BY <2>1, CurrentFrame DEF cycle
  <2>4. AlertsMatchMetrics' /\ told'[Current] # "none"
    BY <2>1, <2>2, TellMatches
  <2> QED
    BY <2>1, <2>3, <2>4 DEF AlertInv
<1>7. CASE PublishSucceeds \/ PublishFails
  <2>1. /\ UNCHANGED <<counts, sample, told>> /\ at = "publish"
        /\ at' \notin {"alert", "publish"}
        /\ shown' = shown \/ Show
    BY <1>7 DEF PublishSucceeds, PublishFails, Goto
  <2>2. \A a \in shown' : a \in shown \/ (InBreach /\ a = Current)
    BY <2>1 DEF Show
  <2>3. \A a \in shown' : told'[a] # "none"
    BY <2>1, <2>2 DEF AlertInv, AlertsMatchMetrics
  <2> QED
    BY <2>1, <2>3 DEF AlertInv, AlertsMatchMetrics
<1> QED
  BY <1>1, <1>3, <1>4, <1>5, <1>6, <1>7 DEF Next, Environment, Progress, Failure

---------------------------------------------------------------------------------
(* The traffic after the cancellation.                                     *)

\* What is published after the cancellation is of the metric the goroutine is at.
LEMMA LateStep ==
  ASSUME PublisherTypeOK, CursorInv, LateInv, [Next]_vars
  PROVE  LateInv'
<1>0. late \in Nat /\ MaxSeries \in Nat
  BY MaxSeriesBounds DEF PublisherTypeOK
<1>1. ASSUME UNCHANGED <<late, main>>, at' \notin {"series", "alert", "publish"}
      PROVE  LateInv'
  BY <1>1 DEF LateInv, LateTraffic, InMetric, Cancelled
<1>2. ASSUME UNCHANGED <<late, at, todo>>, main' # "running" \/ main' = main
      PROVE  LateInv'
  BY <1>2 DEF LateInv, LateTraffic, InMetric, Cancelled
<1>3. CASE \/ \E s \in Series : Record(s)
           \/ LinkChanges \/ TickFires \/ Cancel \/ Disconnect \/ UNCHANGED vars
  <2>1. UNCHANGED <<late, at, todo>> /\ (main' # "running" \/ main' = main)
    BY <1>3 DEF Record, LinkChanges, TickFires, Cancel, Disconnect, cycle, history, vars
  <2> QED
    BY <1>2, <2>1
<1>4. CASE \/ CloudSeen \/ AwaitCancelled \/ TickTaken \/ ContextDone \/ BeginCycle
           \/ ScrapeFails \/ ScrapeSucceeds \/ SeriesDone
           \/ NextMetric /\ at' = "select"
  <2>1. UNCHANGED <<late, main>> /\ at' \notin {"series", "alert", "publish"}
    BY <1>4 DEF CloudSeen, AwaitCancelled, TickTaken, ContextDone, BeginCycle, ScrapeFails,
       ScrapeSucceeds, SeriesDone, NextMetric, Goto, history
  <2> QED
    BY <1>1, <2>1
<1>5. CASE NextMetric /\ at' # "select"
  <2>1. /\ ~Cancelled /\ UNCHANGED <<late, main>> /\ at' = "series"
        /\ todo' = Published(Metrics[next], sample)
    BY <1>5 DEF NextMetric, Goto, history
  <2>2. late = 0
    BY <2>1 DEF LateInv
  <2>3. Cardinality(todo') \in Nat /\ Cardinality(todo') <= MaxSeries
    BY <2>1, PublishedPositions, FS_CardinalityType
  <2>4. late' + 2 * Cardinality(todo') <= 2 * MaxSeries
    BY <1>0, <2>1, <2>2, <2>3
  <2> QED
    BY <2>1, <2>2, <2>4 DEF LateInv, LateTraffic, InMetric, Cancelled
<1>6. CASE Evaluate
  <2>1. /\ UNCHANGED <<late, main, todo>> /\ at = "series"
        /\ at' \in {"alert", "publish"} /\ todo # {} /\ InMetric
    BY <1>6 DEF Evaluate, Goto, cycle, history, InMetric
  <2>2. Cardinality(todo) \in Nat
    BY <2>1, CurrentSeries
  <2>3. late + 2 * Cardinality(todo) <= 2 * MaxSeries
    BY <2>1 DEF LateInv
  <2>4. late' + 2 * Cardinality(todo') <= 2 * MaxSeries + 1
    BY <1>0, <2>1, <2>2, <2>3
  <2> QED
    BY <2>1, <2>3, <2>4 DEF LateInv, LateTraffic, InMetric, Cancelled
<1>7. CASE AlertSucceeds \/ AlertFails
  <2>1. /\ UNCHANGED <<main, todo>> /\ at = "alert" /\ at' = "publish" /\ CountLate
    BY <1>7 DEF AlertSucceeds, AlertFails, Goto, cycle
  <2>2. todo # {} /\ InMetric
    BY <2>1 DEF CursorInv, InMetric
  <2>3. Cardinality(todo) \in Nat \ {0}
    BY <2>2, CurrentSeries
  <2>4. late + 2 * Cardinality(todo) <= 2 * MaxSeries
    BY <2>1, <2>2 DEF LateInv
  <2>5. late' \in Nat /\ late' <= late + 1 /\ (~Cancelled => late' = 0)
    BY <1>0, <2>1 DEF CountLate, LateInv
  <2>6. /\ late' <= 2 * MaxSeries
        /\ late' + 2 * Cardinality(todo') <= 2 * MaxSeries + 1
    BY <1>0, <2>1, <2>3, <2>4, <2>5
  <2> QED
    BY <2>1, <2>5, <2>6 DEF LateInv, LateTraffic, InMetric, Cancelled
<1>8. CASE PublishSucceeds \/ PublishFails
  <2>1. /\ main' = main /\ at = "publish" /\ CountLate
        /\ \/ at' = "series" /\ todo' = todo \ {Min(todo)}
           \/ at' = "metric"
    BY <1>8 DEF PublishSucceeds, PublishFails, Goto
  <2>2. todo # {} /\ InMetric
    BY <2>1 DEF CursorInv, InMetric
  <2>3. /\ Cardinality(todo) \in Nat \ {0}
        /\ Cardinality(todo \ {Min(todo)}) = Cardinality(todo) - 1
    BY <2>2, CurrentSeries, FS_RemoveElement
  <2>4. late + 2 * Cardinality(todo) <= 2 * MaxSeries + 1
    BY <2>1, <2>2 DEF LateInv
  <2>5. late' \in Nat /\ late' <= late + 1 /\ (~Cancelled => late' = 0)
    BY <1>0, <2>1 DEF CountLate, LateInv
  <2>6. /\ late' <= 2 * MaxSeries
        /\ late' + 2 * (Cardinality(todo) - 1) <= 2 * MaxSeries
    BY <1>0, <2>3, <2>4, <2>5
  <2>7. at' = "series" => late' + 2 * Cardinality(todo') <= 2 * MaxSeries
    BY <2>1, <2>3, <2>6
  <2> QED
    BY <2>1, <2>5, <2>6, <2>7 DEF LateInv, LateTraffic, InMetric, Cancelled
<1> QED
  BY <1>3, <1>4, <1>5, <1>6, <1>7, <1>8 DEF Next, Environment, Progress, Failure

---------------------------------------------------------------------------------
\* The invariant holds of every execution of the publisher (publisher.go 93-199).
THEOREM PublisherInvariance == Spec => []PublisherInv
<1>1. PublisherInv /\ [Next]_vars => PublisherInv'
  BY PublisherTypeStep, CursorStep, AlertStep, LateStep DEF PublisherInv
<1> QED
  BY <1>1, InitPublisher, PTL DEF Spec

\* Every variable keeps its type, at whatever call the link fails or main cancels.
THEOREM PublisherTypeCorrect == Spec => []PublisherTypeOK
<1>1. PublisherInv => PublisherTypeOK
  BY DEF PublisherInv
<1> QED
  BY <1>1, PublisherInvariance, PTL

\* For any rules and families an alert is of a real breach, and no value in breach
\* is sent before its alert, or an alert the link lost (publisher 294-301, rules 53-101).
THEOREM AlertsAreOfBreaches == Spec => []AlertsMatchMetrics
<1>1. PublisherInv => AlertsMatchMetrics
  BY DEF PublisherInv
<1> QED
  BY <1>1, PublisherInvariance, PTL

\* After main has cancelled the publisher and gone on, at most the series of one metric and
\* their alerts are still published (main.go 203, publisher.go 178-198).
THEOREM LateTrafficIsBounded == Spec => []LateTraffic
<1>1. PublisherInv => LateTraffic
  BY DEF PublisherInv, LateInv
<1> QED
  BY <1>1, PublisherInvariance, PTL
=================================================================================
