------------------------------- MODULE Telemetry -------------------------------
(***************************************************************************)
(* From the producers to the rollups: producers on their own threads emit   *)
(* the events of their jobs through the event stream (EventStream) and the  *)
(* metrics (metrics_ext.rs), and readers take snapshots of what is          *)
(* captured, filter them (EventQuery) and derive insights (Insights).       *)
(*                                                                          *)
(* A job is a finished Responses payload, handed to emit_hosted_tools, or   *)
(* the events of an agent: both are done by one producer, in order.         *)
(* CapturingLayer::clear leaves a suffix of what was captured; instead of   *)
(* an action the properties speak of every suffix.                          *)
(***************************************************************************)
EXTENDS Insights, HostedTools

CONSTANTS
  Producer,
  JobSets,  \* sets of jobs to choose from
  Walls     \* wall clocks to choose from: the milliseconds at each tick, as far as
            \* the clock is given

VARIABLES
  tick, built, buffer, cleared,  \* the event stream
  wall,     \* the wall clock
  todo,     \* jobs that no producer has taken up
  script,   \* per producer: what it has to emit yet
  counting, \* per producer: the event captured last, until its metrics are emitted
  metrics,  \* counters and histograms: how often each has got each value
  shared    \* history: hosted calls of two producers had a key in common

streamVars == <<tick, built, buffer, cleared>>
vars == <<streamVars, wall, todo, script, counting, metrics, shared>>

Jobs == UNION JobSets

\* Hooks and hosts emit what they observe, with texts redacted and cut.
AgentEvents(job) ==
  [i \in DOMAIN job.events |->
     LET e == job.events[i] IN
     IF "whole" \in DOMAIN e.data
       THEN [e EXCEPT !.data = Extend([payload |-> Scrubbed(e.data.whole)], @)]
       ELSE e]

Script(job) ==
  IF "payload" \in DOMAIN job
    THEN HostedEvents(job.conversation, job.response, job.payload)
    ELSE AgentEvents(job)

\* An event before it is stamped.
Unstamped == UNION {Range(Script(job)) : job \in Jobs}

Stream == INSTANCE EventStream WITH Body <- [event : Unstamped, at : Nat]

ASSUME ProducerAssumption == IsFiniteSet(Producer)
ASSUME WallsAssumption == \A w \in Walls : \A n \in DOMAIN w : w[n] \in Nat
ASSUME NoneAssumption  == None \notin Nat /\ None \notin Stream!Event

IsSequence(s) == s \in Seq(Range(s))

\* Events as the types of event.rs let an agent make them: no payload before it is
\* scrubbed, counts are numbers, a class of errors has a name, a duration only where the
\* kind has the field, and no hosted calls, which are made of payloads.  Floats are
\* finite: JSON has no NaN, so a report of NaN would be metered and then not decode.
AgentJob(job) ==
  /\ IsSequence(job.events)
  /\ \A e \in Range(job.events) :
       /\ e = [kind |-> e.kind, conversation |-> e.conversation, call |-> e.call,
               data |-> e.data]
       /\ e.kind \in EventKind \ HostedKind
       /\ "payload" \notin DOMAIN e.data
       /\ \A f \in TokenField \cap DOMAIN e.data : e.data[f] \in Nat
       /\ \A f \in {"cost_usd", "value"} \cap DOMAIN e.data : e.data[f] \in Int
       /\ "error_class" \in DOMAIN e.data => e.data.error_class # None
       /\ "duration_ms" \in DOMAIN e.data =>
            e.kind \in TimedKind \cup SearchKind /\ e.data.duration_ms \in Nat

\* The output of a payload is a list of items, if there is one.
PayloadJob(job) == job.payload.output = None \/ IsSequence(job.payload.output)

ASSUME JobsAssumption ==
  \A job \in Jobs : IF "payload" \in DOMAIN job THEN PayloadJob(job) ELSE AgentJob(job)

\* A provider's ids tell calls apart: an agent reports a call of its own under no id that
\* an item of another type has, or gets for want of one.
ASSUME IdsAssumption ==
  \A agent, job \in Jobs :
    "payload" \notin DOMAIN agent /\ "payload" \in DOMAIN job /\ job.payload.output # None =>
      \A e \in Range(agent.events) : \A i \in DOMAIN job.payload.output :
        LET item == job.payload.output[i] IN
        item.type # None /\ item.type # <<"function", "_call">> =>
          ~(/\ e.kind \in ToolKind
            /\ e.conversation = job.conversation
            /\ e.call = HostedCallId(item, i))

\* A policy makes a text of a text: a sequence of characters of a byte or more.
IsText(text) == IsSequence(text) /\ \A i \in DOMAIN text : text[i].width \in Nat \ {0}

ASSUME RedactAssumption ==
  \A e \in Unstamped : "whole" \in DOMAIN e.data => IsText(Redact(e.data.whole))

\* An event as a consumer decodes it: with finite floats nothing is lost on the way.
Decoded(e) == Extend(e.body.event, [tick |-> e.tick, at |-> e.body.at])

Captured == [i \in DOMAIN buffer |-> Decoded(buffer[i])]

\* What a snapshot may hold: what clear() has left.
Snapshots == {SubSeq(Captured, n, Len(buffer)) : n \in 1..(Len(buffer) + 1)}

Init ==
  /\ Stream!Init
  /\ wall \in Walls
  /\ todo \in JobSets
  /\ script = [p \in Producer |-> <<>>]
  /\ counting = [p \in Producer |-> None]
  /\ metrics = [m \in {} |-> 0]
  /\ shared = FALSE

Idle(p) == script[p] = <<>> /\ built[p] = None /\ counting[p] = None

Keys(events) == {<<events[i].conversation, events[i].call>> : i \in DOMAIN events}

\* The keys of what p has to emit yet or is about to.
KeysOf(p) ==
  Keys(script[p]) \cup (IF built[p] = None THEN {} ELSE Keys(<<built[p].body.event>>))

Start(p) ==
  \E job \in todo :
    /\ Idle(p)
    /\ todo' = todo \ {job}
    /\ script' = [script EXCEPT ![p] = Script(job)]
    /\ shared' = (shared \/ \E q \in Producer \ {p} : KeysOf(q) \cap Keys(Script(job)) # {})
    /\ UNCHANGED <<streamVars, wall, counting, metrics>>

\* Mutant of Build: the time since the process started.
BuildElapsed(p) ==
  /\ script[p] # <<>>
  /\ counting[p] = None
  /\ tick \in DOMAIN wall
  /\ Stream!Build(p, [event |-> Head(script[p]), at |-> wall[tick] - wall[0]])
  /\ script' = [script EXCEPT ![p] = Tail(@)]
  /\ UNCHANGED <<wall, todo, counting, metrics, shared>>

\* build_event: the wall clock is read and the tick is claimed.
Build(p) ==
  /\ script[p] # <<>>
  /\ counting[p] = None
  /\ tick \in DOMAIN wall
  /\ Stream!Build(p, [event |-> Head(script[p]), at |-> wall[tick]])
  /\ script' = [script EXCEPT ![p] = Tail(@)]
  /\ UNCHANGED <<wall, todo, counting, metrics, shared>>

\* try_emit: the layers get the event.
Capture(p) ==
  /\ Stream!Capture(p)
  /\ counting' = [counting EXCEPT ![p] = built[p]]
  /\ UNCHANGED <<wall, todo, script, metrics, shared>>

-----------------------------------------------------------------------------
(* emit_metrics *)

\* The labels of an event; those that are empty are left out.
Labels(e) ==
  LET present == {f \in {"model", "tool_name", "error_class"} : ScalarField(e, f) # None}
  IN  Extend([f \in present |-> ScalarField(e, f)], [kind |-> e.kind])

\* rig_tap.tokens.*, by the field that is counted.
TokenCounters(e) == IF e.kind = "prompt.completed" THEN TokenField \cap DOMAIN e.data ELSE {}

Histograms(e) ==
  CASE e.kind = "prompt.completed" -> {"duration_ms", "time_to_first_token_ms"}
    [] e.kind \in CompletedKind \cup SearchKind \cup {"response.turn_completed"} ->
         {"duration_ms"}
    [] e.kind \in {"context.sampled", "context.persisted"} -> {"message_count", "byte_size"}
    [] OTHER -> {}

\* What the metrics of an event add: a counter's entry is its amount, and a
\* histogram has an entry for each of its values.
Recorded(e) ==
  LET counters == {<<f, Labels(e)>> : f \in TokenCounters(e)}
      values   == {<<f, Labels(e), e.data[f]>> : f \in Histograms(e) \cap DOMAIN e.data}
      count    == <<"events", Labels(e)>>
  IN  [m \in counters \cup values \cup {count} |-> IF m \in counters THEN e.data[m[1]] ELSE 1]

\* Mutant of EmitMetrics: a counter is set and not incremented.
EmitMetricsSets(p) ==
  /\ counting[p] # None
  /\ metrics' = Extend(Recorded(Decoded(counting[p])), metrics)
  /\ counting' = [counting EXCEPT ![p] = None]
  /\ UNCHANGED <<streamVars, wall, todo, script, shared>>

EmitMetrics(p) ==
  /\ counting[p] # None
  /\ metrics' = metrics (+) Recorded(Decoded(counting[p]))
  /\ counting' = [counting EXCEPT ![p] = None]
  /\ UNCHANGED <<streamVars, wall, todo, script, shared>>

Next == \E p \in Producer : Start(p) \/ Build(p) \/ Capture(p) \/ EmitMetrics(p)

Spec == Init /\ [][Next]_vars

-----------------------------------------------------------------------------
(* Properties *)

TypeOK ==
  /\ Stream!TypeOK
  /\ \A i \in DOMAIN Captured : Captured[i].kind \in EventKind
  /\ wall \in Walls
  /\ todo \subseteq Jobs
  /\ script \in [Producer -> Seq(Unstamped)]
  /\ counting \in [Producer -> Stream!Event \cup {None}]
  /\ \A m \in DOMAIN metrics : metrics[m] \in Nat
  /\ shared \in BOOLEAN

\* "paired tool.hosted_invoked + tool.hosted_completed event[s] ... correlated by
\* call_id, which falls back to a deterministic synthetic value" (responses_extract.rs,
\* module doc): when the producers are done every hosted span is whole, both ends from
\* one response, although synthetic ids come again in every response, unless two
\* producers were at work on the same id of a conversation.
HostedSpansAreWhole ==
  ~shared /\ (\A p \in Producer : Idle(p)) =>
    \A span \in Range(Spans(Captured)) : span.ends[1].kind \in HostedKind =>
      /\ Outcome(span) = "tool.hosted_completed"
      /\ ScalarField(span.ends[1], "response_id") = ScalarField(span.ends[2], "response_id")
      /\ ScalarField(span.ends[1], "tool_name") = ScalarField(span.ends[2], "tool_name")

\* "skip so we don't double-emit" (responses_extract.rs:150): a call the agent runs and
\* reports under the provider's id is not also reported as a hosted one when the
\* payload that asks for it is walked.  (TelemetryHook reports under rig's internal id.)
NoCallReportedTwice ==
  \A i, j \in DOMAIN Captured :
    LET d == Captured[i]  e == Captured[j] IN
    d.kind \in HostedKind /\ e.kind \in ToolKind /\ Key(d) = Key(e)
      => e.kind \in HostedKind

\* The hosted calls of a conversation, as its consumer sees them: whole, and apart from
\* the calls the agent runs.
HostedCallsAreSound == HostedSpansAreWhole /\ NoCallReportedTwice

\* Events that are on their way or captured.
Emitted == {Decoded(e) : e \in Range(buffer) \cup ({built[p] : p \in Producer} \ {None})}

\* The text of an event is the longest prefix of the redacted text that fits into the
\* limit without splitting a character, and is marked truncated if that is not all.  A
\* secret is redacted whole: truncation never hides a part of it from the policy.
PayloadsAreLongestPrefixes ==
  \A e \in Emitted : "payload" \in DOMAIN e.data =>
    LET all  == Redact(e.data.whole)
        kept == e.data.payload.text
    IN  /\ IsPrefix(kept, all)
        /\ \A n \in 0..Len(all) :
             n <= Len(kept) <=> Bytes(all, n) <= PayloadTruncateBytes
        /\ e.data.payload.truncated <=> kept # all

\* What insights say of a conversation they say as well of the snapshot that a filter
\* by conversation_id leaves: ids that come again in other conversations do not matter.
ConversationsAreIndependent ==
  \A s \in Snapshots : \A c \in Conversations(s) :
    LET own  == Filter(s, [conversation_id |-> c])
        all  == Spans(s)
        mine == Select(all, {n \in DOMAIN all : all[n].ends[1].conversation = c})
    IN  /\ mine = Spans(own)
        /\ \A span \in Range(mine) : SpanDuration(s, span) = SpanDuration(own, span)
        /\ IF c \in DOMAIN CostByConversation(s)
             THEN CostByConversation(s)[c] = PromptStats(own).cost
             ELSE PromptStats(own).cost = 0

\* A filter by conversation and call id finds exactly the events of that call, and a
\* window from the first to the last tick of its span keeps both ends of it.
FiltersFindCalls ==
  \A s \in Snapshots : \A span \in Range(Spans(s)) :
    LET call  == [conversation_id |-> span.ends[1].conversation,
                  call_id |-> ToolCallId(span.ends[1])]
        ticks == [min_tick |-> span.ends[1].tick, max_tick |-> Last(span.ends).tick]
    IN  /\ Filter(s, call) =
             Select(s, {i \in DOMAIN s : /\ s[i].conversation = call.conversation_id
                                         /\ ToolCallId(s[i]) = call.call_id})
        /\ ~shared => Range(span.ends) \subseteq Range(Filter(s, Extend(call, ticks)))

\* A consumer that reads a snapshot in pages, by ticks, by kinds, by conversations, or
\* the latest and then the rest, reads every event once.
PagesCoverSnapshot ==
  \A s \in Snapshots :
    LET Size(filter) == Len(Filter(s, filter)) IN
    /\ \A n \in 1..tick :
         Size([max_tick |-> n - 1]) + Size([min_tick |-> n]) = Len(s)
    /\ \A k \in DOMAIN CountByKind(s) : Size([kind |-> k]) = CountByKind(s)[k]
    /\ SumFunction(CountByKind(s)) = Len(s)
    /\ SumFunction([c \in Conversations(s) |-> Size([conversation_id |-> c])]) = Len(s)
    /\ \A n \in 0..Len(s) : SubSeq(s, 1, Len(s) - n) \o Latest(s, n) = s

\* Readers miss nothing that they ask for and are given nothing else.
QueriesAreExact == FiltersFindCalls /\ PagesCoverSnapshot

\* The definition of the nearest rank: the smallest sample with p percent of the
\* samples at or below it.
NearestRank(samples, p) ==
  Min({v \in Range(samples) :
         100 * Cardinality({i \in DOMAIN samples : samples[i] <= v}) >= p * Len(samples)})

\* "Percentiles use the nearest-rank method" (insights.rs:26) for completed prompts,
\* calls and turns, the kinds whose durations latency reads (insights.rs:524), and the
\* mean lies between the extremes.  For the other kinds that have durations, those of
\* embeddings, retrievals and rerankings, the summary is always empty, although latency
\* is said to be over "every event whose wire `kind` matches" (insights.rs:397).
LatencyIsNearestRank ==
  \A s \in Snapshots : \A k \in TimedKind \cup SearchKind :
    LET samples == Values(s, {k}, "duration_ms")
        summary == Latency(s, k)
    IN  IF k \in TimedKind
          THEN samples # <<>> =>
                 /\ \A p \in Quantiles : summary.at[p] = NearestRank(samples, p)
                 /\ summary.min <= summary.mean /\ summary.mean <= summary.max
          ELSE summary.count = 0

\* The duration of a span is the one its terminal event is stamped with, or else what
\* the wall clock says has passed between its ends, and unknown if the clock was set
\* back between them: "skew-safe" (insights.rs:192).
DurationsAreOwn ==
  \A s \in Snapshots : \A span \in Range(Spans(s)) :
    LET first    == span.ends[1]
        last     == Last(span.ends)
        stamped  == "duration_ms" \in DOMAIN last.data
        duration == SpanDuration(s, span)
    IN  IF Outcome(span) = "pending" THEN duration = None
        ELSE IF stamped THEN duration = last.data.duration_ms
        ELSE IF last.at < first.at THEN duration = None
        ELSE first.at + duration = last.at

\* The keys of the metrics, and of those that producers are about to emit.
MetricKey ==
  DOMAIN metrics \cup UNION {DOMAIN Recorded(Decoded(e)) : e \in Range(counting) \ {None}}

Amount(bag, keys) == SumFunctionOnSet(bag, keys \cap DOMAIN bag)

\* What the metrics with some keys amount to, and those that producers are about to emit.
Accounted(keys) ==
  Amount(metrics, keys)
    + SumFunction([p \in Producer |-> IF counting[p] = None THEN 0
                                      ELSE Amount(Recorded(Decoded(counting[p])), keys)])

\* The metrics of the process and the rollups of everything captured, which are
\* computed apart, agree but for the events whose metrics are still to be emitted, and
\* but for the durations of embeddings, retrievals and rerankings: those are in the
\* histograms (metrics_ext.rs) and in no latency summary (insights.rs:524).
MetricsMatchInsights ==
  LET Of(f)          == {m \in MetricKey : m[1] = f}
      Counted(kinds) == Accounted({m \in Of("events") : m[2].kind \in kinds})
      errors  == ErrorsByClass(Captured)
      prompts == PromptStats(Captured)
      tools   == ToolStats(Captured)
  IN  /\ \A f \in TokenField : Accounted(Of(f)) = prompts.tokens[f]
      /\ \A k \in DOMAIN CountByKind(Captured) : Counted({k}) = CountByKind(Captured)[k]
      /\ prompts.completed + prompts.failed =
           Counted({"prompt.completed", "prompt.failed"})
      /\ tools.invoked = Counted(InvokeKind)
      /\ tools.completed + tools.failed + tools.skipped + tools.terminated =
           Counted(TerminalKind)
      /\ \A c \in DOMAIN errors :
           Accounted({m \in Of("events") : "error_class" \in DOMAIN m[2] /\ m[2].error_class = c})
             = errors[c]
      /\ \A k \in TimedKind \cup SearchKind :
           LET recorded == Accounted({m \in Of("duration_ms") : m[2].kind = k}) IN
           /\ recorded = Len(Values(Captured, {k}, "duration_ms"))
           /\ Latency(Captured, k).count = IF k \in TimedKind THEN recorded ELSE 0
      /\ Accounted(Of("time_to_first_token_ms")) = TimeToFirstToken(Captured).count
=============================================================================
