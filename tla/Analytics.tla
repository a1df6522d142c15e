------------------------------ MODULE Analytics ------------------------------
(***************************************************************************)
(* pkg/analytics/tracker.go: counters, rates and events that every request  *)
(* of the exchange updates from its own goroutine.  Counters are atomic     *)
(* words without a lock: each Load, Add and Store is a step of its own, but *)
(* the Add of the revenue, which commutes with every other step and goes    *)
(* with the Store before it.  What is done under a mutex is one step.       *)
(*                                                                          *)
(* A call k runs the operation op[k] once, sooner or later.  Prices are in  *)
(* tenths of the integers BigInt keeps.  Nothing adds publishers to         *)
(* PublisherMetrics in this repository: Known are those the embedding       *)
(* program put there.  Rates are in whole percents.  DSPMetrics, clicks and *)
(* the fields nothing writes are left out, as are the getters, which only   *)
(* read.                                                                    *)
(***************************************************************************)
EXTENDS Integers, FiniteSets, FiniteSetsExt, Functions

CONSTANTS
    Calls,          \* concurrent calls of the tracker
    Publishers, Known, Miners, NoMiner,
    Latencies,      \* latencies of responses, in microseconds
    Prices,         \* prices of impressions and winning bids
    Operations,     \* what the calls may run
    StreamCapacity, \* capacity of EventStream (10000)
    MaxMinute       \* bound on the time series

ASSUME AnalyticsAssumption ==
    /\ IsFiniteSet(Calls) /\ Known \subseteq Publishers /\ NoMiner \notin Miners
    /\ Latencies \subseteq Nat /\ Prices \subseteq Nat
    /\ StreamCapacity \in Nat /\ MaxMinute \in Nat

Operation ==
    [kind : {"request"}, hasPublisher : BOOLEAN]
      \cup [kind : {"response"}, filled : BOOLEAN, price : Prices, latency : Latencies]
      \cup [kind : {"impression"}, publisher : Publishers, miner : Miners \cup {NoMiner},
            price : Prices]
      \cup [kind : {"pod"}, completed : BOOLEAN]

ASSUME OperationsAssumption == Operations \subseteq Operation

VARIABLES
    at, op, reg,        \* where each call is, what it runs, what it has loaded
    totalRequests, totalImpressions, totalRevenue, fillRate,
    averageLatency, p95Latency, p99Latency,
    totalPods, podCompletionRate,
    stream,             \* the number of events in EventStream
    buckets,            \* Requests of the time buckets
    pubStats,           \* PublisherMetrics of the known publishers
    minerStats,         \* MinerMetrics; a miner that is not there has served nothing
    events,             \* InMemoryStorage.events, with the call that stored each
    minute              \* the clock, in units of BucketSize

counters == <<totalRequests, totalImpressions, totalRevenue, fillRate>>
latencies == <<averageLatency, p95Latency, p99Latency>>
pods == <<totalPods, podCompletionRate>>
ledgers == <<pubStats, minerStats, events>>
trackerVars == <<at, op, reg, counters, latencies, pods, ledgers, stream, buckets, minute>>

\* The first step of each operation.
Entry(o) ==
    CASE o.kind = "request" -> "add"
      [] o.kind = "response" -> IF o.filled THEN "fill" ELSE "latency"
      [] o.kind = "impression" -> "publisher"
      [] o.kind = "pod" -> "pod"

TrackerInit ==
    /\ op \in [Calls -> Operations]
    /\ at = [k \in Calls |-> Entry(op[k])]
    /\ reg = [k \in Calls |-> [i \in 1..2 |-> 0]]
    /\ totalRequests = 0 /\ totalImpressions = 0 /\ totalRevenue = 0 /\ fillRate = 0
    /\ averageLatency = 0 /\ p95Latency = 0 /\ p99Latency = 0
    /\ totalPods = 0 /\ podCompletionRate = 0
    /\ stream = 0
    /\ buckets = [m \in 0..MaxMinute |-> 0]
    /\ pubStats = [p \in Known |-> [impressions |-> 0, revenue |-> 0]]
    /\ minerStats = [m \in Miners |-> [served |-> 0, earnings |-> 0]]
    /\ events = {}
    /\ minute = 0

Advance(k, from, to) ==
    /\ at[k] = from
    /\ at' = [at EXCEPT ![k] = to]
    /\ UNCHANGED op

Load(k, i, word) == reg' = [reg EXCEPT ![k][i] = word]

-----------------------------------------------------------------------------
(* TrackRequest *)

\* The request is counted first; extractPublisherID then panics on a site or
\* an app without a publisher, and the call is over (net/http recovers it).
AddRequest(k) ==
    /\ Advance(k, "add", IF op[k].hasPublisher THEN "send" ELSE "panicked")
    /\ totalRequests' = totalRequests + 1
    /\ UNCHANGED <<reg, totalImpressions, totalRevenue, fillRate, latencies, pods, ledgers,
                   stream, buckets, minute>>

\* Mutant of SendEvent: the send has no default case.
SendEventBlocking(k) ==
    /\ stream < StreamCapacity
    /\ Advance(k, "send", "bucket")
    /\ stream' = stream + 1
    /\ UNCHANGED <<reg, counters, latencies, pods, ledgers, buckets, minute>>

\* The event joins the stream, which nothing drains, or is dropped.
SendEvent(k) ==
    /\ Advance(k, "send", "bucket")
    /\ stream' = IF stream < StreamCapacity THEN stream + 1 ELSE stream
    /\ UNCHANGED <<reg, counters, latencies, pods, ledgers, buckets, minute>>

updateTimeSeries(k) ==
    /\ Advance(k, "bucket", "done")
    /\ buckets' = [buckets EXCEPT ![minute] = @ + 1]
    /\ UNCHANGED <<reg, counters, latencies, pods, ledgers, stream, minute>>

-----------------------------------------------------------------------------
(* TrackResponse *)

AddImpression(k) ==
    /\ Advance(k, "fill", "fill-requests")
    /\ totalImpressions' = totalImpressions + 1
    /\ UNCHANGED <<reg, totalRequests, totalRevenue, fillRate, latencies, pods, ledgers,
                   stream, buckets, minute>>

LoadRequests(k) ==
    /\ Advance(k, "fill-requests", "fill-impressions")
    /\ Load(k, 1, totalRequests)
    /\ UNCHANGED <<counters, latencies, pods, ledgers, stream, buckets, minute>>

LoadImpressions(k) ==
    /\ Advance(k, "fill-impressions", "fill-store")
    /\ Load(k, 2, totalImpressions)
    /\ UNCHANGED <<counters, latencies, pods, ledgers, stream, buckets, minute>>

StoreFillRate(k) ==
    /\ Advance(k, "fill-store", "latency")
    /\ fillRate' = IF reg[k][1] > 0 THEN (reg[k][2] * 10000) \div reg[k][1] ELSE fillRate
    /\ totalRevenue' = totalRevenue + op[k].price
    /\ UNCHANGED <<reg, totalRequests, totalImpressions, latencies, pods, ledgers,
                   stream, buckets, minute>>

\* updateLatencyMetrics: the average from a loaded average and a loaded count;
\* then each percentile, compared and stored.
LoadAverage(k) ==
    /\ Advance(k, "latency", "latency-count")
    /\ Load(k, 1, averageLatency)
    /\ UNCHANGED <<counters, latencies, pods, ledgers, stream, buckets, minute>>

LoadCount(k) ==
    /\ Advance(k, "latency-count", "latency-store")
    /\ Load(k, 2, totalRequests)
    /\ UNCHANGED <<counters, latencies, pods, ledgers, stream, buckets, minute>>

\* Mutant of weighted: the old average counts for all the requests.
weightedWhole(old, count, new) == (old * count + new) \div count

weighted(old, count, new) == (old * (count - 1) + new) \div count

StoreAverage(k) ==
    /\ Advance(k, "latency-store", "p95")
    /\ averageLatency' = IF reg[k][2] > 0
                           THEN weighted(reg[k][1], reg[k][2], op[k].latency)
                           ELSE averageLatency
    /\ UNCHANGED <<reg, counters, p95Latency, p99Latency, pods, ledgers, stream, buckets, minute>>

CompareP95(k) ==
    /\ Advance(k, "p95", IF op[k].latency > p95Latency THEN "p95-store" ELSE "p99")
    /\ UNCHANGED <<reg, counters, latencies, pods, ledgers, stream, buckets, minute>>

StoreP95(k) ==
    /\ Advance(k, "p95-store", "p99")
    /\ p95Latency' = op[k].latency
    /\ UNCHANGED <<reg, counters, averageLatency, p99Latency, pods, ledgers, stream, buckets, minute>>

CompareP99(k) ==
    /\ Advance(k, "p99", IF op[k].latency > p99Latency THEN "p99-store" ELSE "done")
    /\ UNCHANGED <<reg, counters, latencies, pods, ledgers, stream, buckets, minute>>

StoreP99(k) ==
    /\ Advance(k, "p99-store", "done")
    /\ p99Latency' = op[k].latency
    /\ UNCHANGED <<reg, counters, averageLatency, p95Latency, pods, ledgers, stream, buckets, minute>>

-----------------------------------------------------------------------------
(* TrackImpression *)

\* Under mu; only a publisher that is there is counted.
UpdatePublisher(k) ==
    LET p == op[k].publisher IN
    /\ Advance(k, "publisher", IF op[k].miner = NoMiner THEN "store" ELSE "miner")
    /\ pubStats' = IF p \in Known
                     THEN [pubStats EXCEPT ![p].impressions = @ + 1,
                                           ![p].revenue = @ + op[k].price \div 10]
                     ELSE pubStats
    /\ UNCHANGED <<reg, counters, latencies, pods, minerStats, events, stream, buckets, minute>>

\* Mutant of updateMinerMetrics: a miner that is new is entered, not counted.
updateMinerMetricsFirst(k) ==
    LET m == op[k].miner IN
    /\ Advance(k, "miner", "store")
    /\ minerStats' = [minerStats EXCEPT ![m].served = @ + 1,
                        ![m].earnings = IF minerStats[m].served = 0 THEN 0
                                        ELSE @ + op[k].price \div 100]
    /\ UNCHANGED <<reg, counters, latencies, pods, pubStats, events, stream, buckets, minute>>

\* updateMinerMetrics: under mu again; a tenth of the price, rounded down.
updateMinerMetrics(k) ==
    LET m == op[k].miner IN
    /\ Advance(k, "miner", "store")
    /\ minerStats' = [minerStats EXCEPT ![m].served = @ + 1,
                                        ![m].earnings = @ + op[k].price \div 100]
    /\ UNCHANGED <<reg, counters, latencies, pods, pubStats, events, stream, buckets, minute>>

\* InMemoryStorage.Store, under its own lock.
Store(k) ==
    /\ Advance(k, "store", "done")
    /\ events' = events \cup {k}
    /\ UNCHANGED <<reg, counters, latencies, pods, pubStats, minerStats, stream, buckets, minute>>

-----------------------------------------------------------------------------
(* TrackPodMetrics *)

\* The size of the last pod, stored as AveragePodSize, is left out.
AddPod(k) ==
    /\ Advance(k, "pod", IF op[k].completed THEN "pod-rate" ELSE "done")
    /\ totalPods' = totalPods + 1
    /\ UNCHANGED <<reg, counters, latencies, podCompletionRate, ledgers, stream, buckets, minute>>

LoadPodRate(k) ==
    /\ Advance(k, "pod-rate", "pod-count")
    /\ Load(k, 1, podCompletionRate)
    /\ UNCHANGED <<counters, latencies, pods, ledgers, stream, buckets, minute>>

LoadPodCount(k) ==
    /\ Advance(k, "pod-count", "pod-store")
    /\ Load(k, 2, totalPods)
    /\ UNCHANGED <<counters, latencies, pods, ledgers, stream, buckets, minute>>

StorePodRate(k) ==
    /\ Advance(k, "pod-store", "done")
    /\ podCompletionRate' = weighted(reg[k][1], reg[k][2], 100)
    /\ UNCHANGED <<reg, counters, latencies, totalPods, ledgers, stream, buckets, minute>>

NextMinute ==
    /\ minute < MaxMinute
    /\ minute' = minute + 1
    /\ UNCHANGED <<at, op, reg, counters, latencies, pods, ledgers, stream, buckets>>

Step(k) ==
    \/ AddRequest(k) \/ SendEvent(k) \/ updateTimeSeries(k)
    \/ AddImpression(k) \/ LoadRequests(k) \/ LoadImpressions(k) \/ StoreFillRate(k)
    \/ LoadAverage(k) \/ LoadCount(k) \/ StoreAverage(k)
    \/ CompareP95(k) \/ StoreP95(k) \/ CompareP99(k) \/ StoreP99(k)
    \/ UpdatePublisher(k) \/ updateMinerMetrics(k) \/ Store(k)
    \/ AddPod(k) \/ LoadPodRate(k) \/ LoadPodCount(k) \/ StorePodRate(k)

TrackerNext ==
    \/ \E k \in Calls : Step(k)
    \/ NextMinute

\* A goroutine that can run is scheduled in the end.
TrackerSpec == TrackerInit /\ [][TrackerNext]_trackerVars /\ \A k \in Calls : WF_trackerVars(Step(k))

-----------------------------------------------------------------------------
(* Properties *)

Done(kind) == {k \in Calls : op[k].kind = kind /\ at[k] = "done"}

\* What a list of calls is worth, each price divided and rounded down.
Shares(S, part) == SumFunctionOnSet([k \in S |-> op[k].price \div part], S)

\* The latencies of the responses that are being tracked or were, and the zero
\* the words start with.
Observed ==
    {0} \cup {op[k].latency : k \in {j \in Calls : op[j].kind = "response" /\ at[j] # Entry(op[j])}}

AtRest == \A k \in Calls : at[k] \in {Entry(op[k]), "done", "panicked"}

\* However the loads and stores of concurrent calls mix, lost updates
\* included, an average and a percentile never leave the range of what was
\* measured, and a completion rate is a percentage.
RatesWithinObserved ==
    /\ averageLatency <= Max(Observed)
    /\ {p95Latency, p99Latency} \subseteq Observed
    /\ podCompletionRate <= 100

\* When no call is under way the counters that are kept in separate critical
\* sections tell one story: the requests are those of the time buckets and
\* those whose call panicked after it had counted, and publishers and miners
\* have what the stored events say.
LedgersAgreeAtRest ==
    AtRest =>
      /\ totalRequests = SumFunctionOnSet(buckets, DOMAIN buckets)
                           + Cardinality({k \in Calls : at[k] = "panicked"})
      /\ totalPods = Cardinality(Done("pod"))
      /\ events = Done("impression")
      /\ \A p \in Known : LET mine == {k \in events : op[k].publisher = p} IN
           /\ pubStats[p].impressions = Cardinality(mine)
           /\ pubStats[p].revenue = Shares(mine, 10)
      /\ \A m \in Miners : LET mine == {k \in events : op[k].miner = m} IN
           /\ minerStats[m].served = Cardinality(mine)
           /\ minerStats[m].earnings = Shares(mine, 100)

\* No call waits for another one or for a reader of EventStream: it returns,
\* or panics.
CallsReturn == \A k \in Calls : <>(at[k] \in {"done", "panicked"})
=============================================================================
