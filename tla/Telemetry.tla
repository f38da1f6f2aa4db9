------------------------------- MODULE Telemetry -------------------------------
(***************************************************************************)
(* telemetry/: one run of the benchmark, its log and the payload a         *)
(* dashboard derives from it.  The pipeline appends a record of each model *)
(* call as it ends, while the routing results wait in memory for the end   *)
(* of the run, so the log tells what happened in another order.            *)
(*                                                                         *)
(* Tokens stand for the input and the output tokens of a call, which every *)
(* sum, scale and rate below treats alike.  Records are well formed: the   *)
(* errors raised for malformed ones are left out.                          *)
(***************************************************************************)
EXTENDS Integers, FiniteSets, FiniteSetsExt, SequencesExt

CONSTANTS
  Sessions, CandidateNpcs, EventTriggers,
  TurnTriggers,  \* the other triggers of a call
  Tiers,
  Rate,          \* [model |-> the price of a token]
  StrongModel,   \* the model of the projection
  Outcomes,      \* [tokens, latency]: what calls are seen to take
  MaxSequence, MaxRoutings, MaxCalls  \* bounds of the model

Models   == DOMAIN Rate
Triggers == EventTriggers \cup TurnTriggers

ASSUME TelemetryAssumption ==
  /\ IsFiniteSet(CandidateNpcs) /\ IsFiniteSet(Models)
  /\ StrongModel \in Models /\ \A m \in Models : Rate[m] \in Nat
  /\ Outcomes \subseteq [tokens : Nat, latency : Nat]
  /\ MaxSequence \in Nat /\ MaxRoutings \in Nat /\ MaxCalls \in Nat
  /\ EventTriggers \cap TurnTriggers = {}

VARIABLES
  log,      \* the telemetry file
  results,  \* CapturingRouterAdapter.results
  facts,    \* history: the records in the order of what they tell
  flushed   \* whether the run has flushed the results

runVars == <<log, results, facts, flushed>>

Metadata == [type |-> "benchmark_run"]

\* routing_result_as_record and ModelCallFact.as_record.
RoutingRecord(session, sequence, tiers) ==
  [type |-> "routing_result", session |-> session, sequence |-> sequence, tiers |-> tiers]

CallRecord(session, sequence, trigger, model, outcome) ==
  [type |-> "model_call", session |-> session, source |-> sequence, trigger |-> trigger,
   model |-> model, tokens |-> outcome.tokens, latency |-> outcome.latency]

Having(type, records) == {i \in DOMAIN records : records[i].type = type}
Routings(records)     == Having("routing_result", records)
Calls(records)        == Having("model_call", records)

\* The last sequence routed in a session, 0 before the first.
LastRouted(session) ==
  Max({0} \cup {facts[i].sequence : i \in {j \in Routings(facts) : facts[j].session = session}})

RunInit ==
  /\ log = <<Metadata>> /\ facts = <<Metadata>>
  /\ results = << >> /\ flushed = FALSE

\* A snapshot is routed, or a change of conversation at the same sequence.
Route(session, sequence, tiers) ==
  /\ ~flushed /\ Len(results) < MaxRoutings
  /\ sequence \in {LastRouted(session), LastRouted(session) + 1} \cap 1..MaxSequence
  /\ LET result == RoutingRecord(session, sequence, tiers)
     IN  results' = Append(results, result) /\ facts' = Append(facts, result)
  /\ UNCHANGED <<log, flushed>>

\* A call ends, for a trigger that was planned on an outcome of the Router.
RecordModelCall(session, sequence, trigger, model, outcome) ==
  /\ ~flushed /\ Cardinality(Calls(log)) < MaxCalls
  /\ sequence \in 1..LastRouted(session)
  /\ LET call == CallRecord(session, sequence, trigger, model, outcome)
     IN  log' = Append(log, call) /\ facts' = Append(facts, call)
  /\ UNCHANGED <<results, flushed>>

\* The pipeline has drained and stopped.
Flush ==
  /\ ~flushed
  /\ log' = log \o results
  /\ flushed' = TRUE
  /\ UNCHANGED <<results, facts>>

RunNext ==
  \/ \E s \in Sessions, q \in 1..MaxSequence :
       \/ \E npcs \in (SUBSET CandidateNpcs) \ {{}} :
            \E tiers \in [npcs -> Tiers] : Route(s, q, tiers)
       \/ \E t \in Triggers, m \in Models, o \in Outcomes : RecordModelCall(s, q, t, m, o)
  \/ Flush

RunSpec == RunInit /\ [][RunNext]_runVars

-----------------------------------------------------------------------------
(* metrics.py *)

\* The latencies of a log in rising order, as many times as they occur: the k-th is
\* the least that k calls stay within.
Sorted(records) ==
  LET Within(l) == {i \in Calls(records) : records[i].latency <= l}
  IN  [k \in 1..Cardinality(Calls(records)) |->
         Min({l \in {records[i].latency : i \in Calls(records)} : Cardinality(Within(l)) >= k})]

\* nearest_rank_percentile(latencies, 0.95): the ceiling of 0.95 * n, from 1.
Rank(n) == Max({1, (n * 95 + 99) \div 100})

NearestRank(latencies) == latencies[Rank(Len(latencies))]

\* statistics.median, doubled to stay an integer.
MedianTwice(latencies) ==
  LET n == Len(latencies) IN latencies[(n + 1) \div 2] + latencies[n \div 2 + 1]

Distribution(records) ==
  LET latencies == Sorted(records)
  IN  IF latencies = << >> THEN << >>
      ELSE <<[medianTwice |-> MedianTwice(latencies), p95 |-> NearestRank(latencies)]>>

\* The routing of a session that ends up in latest_by_scope: a larger sequence
\* wins, and of two equal ones the later record.
Latest(records, session) ==
  LET own == {i \in Routings(records) : records[i].session = session}
  IN  CHOOSE i \in own : \A j \in own \ {i} :
        \/ records[i].sequence > records[j].sequence
        \/ records[i].sequence = records[j].sequence /\ i > j

Routed(records) == {records[i].session : i \in Routings(records)}

CurrentAssignments(records) ==
  [s \in Routed(records) |-> records[Latest(records, s)].tiers]

\* compute_metrics.
Metrics(records) ==
  [calls       |-> Cardinality(Calls(records)),
   tokens      |-> MapThenSumSet(LAMBDA i : records[i].tokens, Calls(records)),
   latency     |-> Distribution(records),
   routings    |-> Cardinality(Routings(records)),
   assignments |-> CurrentAssignments(records)]

-----------------------------------------------------------------------------
(* projected_all_strong_usage: the calls a run without routing would make. *)

\* Mutant of CandidateCounts: only the results logged before the session's calls.
CountsSoFar(records, session, sequence) ==
  {Cardinality(DOMAIN records[i].tiers) : i \in {j \in Routings(records) :
     /\ records[j].session = session /\ records[j].sequence = sequence
     /\ \A k \in Calls(records) : records[k].session = session => j < k}}

\* The candidates of the results that share the scope of a call.
CandidateCounts(records, session, sequence) ==
  {Cardinality(DOMAIN records[i].tiers) : i \in {j \in Routings(records) :
     records[j].session = session /\ records[j].sequence = sequence}}

\* Calls are grouped by their trigger at its source sequence.
Key(call)     == <<call.session, call.trigger, call.source>>
Keys(records) == {Key(records[i]) : i \in Calls(records)}

Grouped(records, key) == {i \in Calls(records) : Key(records[i]) = key}

\* Mutant of BaselineCalls: the candidates also where more calls were made.
BaselineByCandidates(observed, candidates, trigger) ==
  IF trigger \in EventTriggers THEN Max(candidates \cup {1}) ELSE observed

\* An event calls every candidate, a turn nobody but its own target.
BaselineCalls(observed, candidates, trigger) ==
  IF trigger \in EventTriggers THEN Max(candidates \cup {observed}) ELSE observed

\* The observed average, rounded up.
ScaleTokens(observed, calls, baseline) ==
  IF calls = 0 THEN 0 ELSE (observed * baseline + calls - 1) \div calls

ProjectedTokens(records, key) ==
  LET calls    == Grouped(records, key)
      observed == Cardinality(calls)
  IN  ScaleTokens(MapThenSumSet(LAMBDA i : records[i].tokens, calls), observed,
        BaselineCalls(observed, CandidateCounts(records, key[1], key[3]), key[2]))

ProjectedUsage(records) == MapThenSumSet(LAMBDA k : ProjectedTokens(records, k), Keys(records))

(* calculate_costs, under one table of prices. *)

ModelCost(records, model) ==
  Rate[model] * MapThenSumSet(LAMBDA i : records[i].tokens,
                      {i \in Calls(records) : records[i].model = model})

ActualRouted(records)      == MapThenSumSet(LAMBDA m : ModelCost(records, m), Models)
ProjectedBaseline(records) == Rate[StrongModel] * ProjectedUsage(records)

-----------------------------------------------------------------------------
(* dashboard_payload *)

\* Mutant of LatestRouting: of equal sequences the earlier record.
LatestOfSequence(records) ==
  CHOOSE i \in Routings(records) : \A j \in Routings(records) \ {i} :
    \/ records[i].sequence > records[j].sequence
    \/ records[i].sequence = records[j].sequence /\ i < j

\* _latest_routing_record: of equal sequences the later record.
LatestRouting(records) ==
  CHOOSE i \in Routings(records) : \A j \in Routings(records) \ {i} :
    \/ records[i].sequence > records[j].sequence
    \/ records[i].sequence = records[j].sequence /\ i > j

\* The routing in view, as a sequence of at most one record.
CurrentRouting(records) ==
  IF Routings(records) = {} THEN << >> ELSE <<records[LatestRouting(records)]>>

\* _cost_payload: what routing saved.
Savings(records) == ProjectedBaseline(records) - ActualRouted(records)

\* The model calls of the log, in its order.
ModelCalls(records) ==
  FoldLeft(LAMBDA calls, r : IF r.type = "model_call" THEN Append(calls, r) ELSE calls,
           << >>, records)

DashboardPayload(records) ==
  [routing   |-> CurrentRouting(records),
   calls     |-> ModelCalls(records),
   metrics   |-> Metrics(records),
   actual    |-> ActualRouted(records),
   projected |-> ProjectedBaseline(records)]

-----------------------------------------------------------------------------

\* The log read while the run goes on, or left by one that died, and the log of
\* a whole run: routing never seems to cost more than calling every candidate
\* on the strong model, even where a trigger called more often than there were
\* candidates, or its average is no integer.
SavingsNotNegative == Savings(log) >= 0

\* Appending every routing result after every call changes nothing a dashboard
\* shows: no figure depends on which of a call and a routing was logged first.
FlushOrderFree == flushed => DashboardPayload(log) = DashboardPayload(facts)

\* The two panels agree on who has which tier: the routing in view is the
\* metrics' current one of its session, though each picks its own latest.
PanelsAgree ==
  LET current == CurrentRouting(log)
  IN  current # << >> =>
        Metrics(log).assignments[current[1].session] = current[1].tiers
=============================================================================
