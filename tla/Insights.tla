------------------------------- MODULE Insights -------------------------------
(***************************************************************************)
(* Insights (insights.rs): the rollups of a snapshot of events, in the      *)
(* order of the snapshot; tool spans are reconstructed in ToolSpans.        *)
(* Costs are integers here and rates pairs of numbers.                      *)
(***************************************************************************)
EXTENDS EventQuery, ToolSpans, SequencesExt

\* The values of a field of the events with a kind out of kinds that have it.
Values(events, kinds, field) ==
  LET having == Select(events, {i \in DOMAIN events :
                                  events[i].kind \in kinds /\ field \in DOMAIN events[i].data})
  IN  [i \in DOMAIN having |-> having[i].data[field]]

Total(numbers) == SumFunction(numbers)

\* How often each value comes.
Tally(values) ==
  [v \in Range(values) |-> Cardinality({i \in DOMAIN values : values[i] = v})]

-----------------------------------------------------------------------------
(* LatencySummary *)

\* Mutant of Rank: rounded down.
RankRoundsDown(p, n) == (p * n) \div 100

\* The nearest rank of the percentile p in n samples, rounded up.
Rank(p, n) == (p * n + 99) \div 100

\* The place of that rank, kept within the samples.
RankIndex(p, n) == LET i == Monus(Rank(p, n), 1) IN IF i < n - 1 THEN i ELSE n - 1

\* percentile
Percentile(sorted, p) ==
  IF Len(sorted) = 0 THEN None ELSE sorted[RankIndex(p, Len(sorted)) + 1]

Quantiles == {50, 90, 95, 99}

\* sort_unstable: a sample goes to the place of its number among all of them,
\* by value (and, as equal ones cannot be told apart, by position).
Sorted(samples) ==
  LET UpTo(i) == {j \in DOMAIN samples : \/ samples[j] < samples[i]
                                         \/ samples[j] = samples[i] /\ j <= i}
  IN  [n \in DOMAIN samples |->
         samples[CHOOSE i \in DOMAIN samples : Cardinality(UpTo(i)) = n]]

\* from_samples
LatencySummary(samples) ==
  LET sorted == Sorted(samples)
      n      == Len(samples)
  IN  [count |-> n,
       min   |-> IF n = 0 THEN None ELSE sorted[1],
       max   |-> IF n = 0 THEN None ELSE sorted[n],
       mean  |-> IF n = 0 THEN None ELSE Total(samples) \div n,
       at    |-> [p \in Quantiles |-> Percentile(sorted, p)]]

\* duration_ms_of: the kinds whose duration is read.
TimedKind == {"prompt.completed", "response.turn_completed"} \cup CompletedKind

\* latency and time_to_first_token
Latency(events, kind) ==
  LatencySummary(Values(events, TimedKind \cap {kind}, "duration_ms"))

TimeToFirstToken(events) ==
  LatencySummary(Values(events, {"prompt.completed"}, "time_to_first_token_ms"))

-----------------------------------------------------------------------------
(* Prompts, errors and costs *)

TokenField == {"tokens_in", "tokens_out", "cached_tokens_in", "reasoning_tokens"}

\* prompt_stats
PromptStats(events) ==
  LET Of(field) == Values(events, {"prompt.completed"}, field) IN
  [started   |-> Count(events, {"prompt.started"}),
   completed |-> Count(events, {"prompt.completed"}),
   failed    |-> Count(events, {"prompt.failed"}),
   tokens    |-> [field \in TokenField |-> Total(Of(field))],
   cost      |-> Total(Of("cost_usd")),
   reasons   |-> Tally(Of("finish_reason"))]

\* errors_by_class
ErrorsByClass(events) == Tally(Values(events, FailureKind, "error_class"))

\* cost_by_conversation: those with no reported cost are omitted.
CostByConversation(events) ==
  LET Priced(c) == Values(Select(events, {i \in DOMAIN events : events[i].conversation = c}),
                          {"prompt.completed"}, "cost_usd")
  IN  [c \in {c \in Conversations(events) : Priced(c) # <<>>} |-> Total(Priced(c))]

-----------------------------------------------------------------------------
(* Durations of spans *)

\* millis_at_tick: the first event of the conversation with that tick.
MillisAtTick(events, conversation, tick) ==
  LET at == {i \in DOMAIN events :
               events[i].conversation = conversation /\ events[i].tick = tick}
  IN  IF at = {} THEN None ELSE events[Min(at)].at

\* Mutant of SpanDuration: a clock that was set back counts as no time.
SpanDurationClamped(events, span) ==
  IF Len(span.ends) = 1 THEN None
  ELSE IF "duration_ms" \in DOMAIN span.ends[2].data THEN span.ends[2].data.duration_ms
  ELSE Monus(span.ends[2].at, span.ends[1].at)

\* close_span: the duration the terminal event is stamped with, or what the wall
\* clock says has passed, if it has not been set back.
SpanDuration(events, span) ==
  LET start == MillisAtTick(events, span.ends[1].conversation, span.ends[1].tick)
      end   == MillisAtTick(events, span.ends[1].conversation, span.ends[2].tick)
  IN  IF Len(span.ends) = 1 THEN None
      ELSE IF span.ends[2].kind \in CompletedKind /\ "duration_ms" \in DOMAIN span.ends[2].data
        THEN span.ends[2].data.duration_ms
      ELSE IF start = None \/ end = None THEN None
      ELSE IF end < start THEN None
      ELSE end - start
=============================================================================
