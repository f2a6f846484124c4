# Verification of rig-tap

rig-tap is a Rust crate that turns what happens inside an agent (prompts, tool
calls, provider sessions, memory accesses, kernel steps) into one schema of
events, emitted through `tracing`.  Its value lies in the *shape* of the
emitted stream: a consumer pairs starts with ends, counts tool calls, measures
durations and groups by identifiers, and has nothing else to go by.  The
modules in this directory model the parts of the crate that decide that shape,
check them with TLC on small instances, and prove the main results with TLAPS
for every instance.

All line numbers are those of the sources under `src/`.

## Inventory

| component | source | state | operations | hard behaviour |
|---|---|---|---|---|
| Responses session observer | `src/src/responses_session.rs:108-449` | session and turn flags, the `turn_*` fields | `observe_send`, `observe_send_error`, `observe_event`, `observe_close` | called in any order; lazy finalization; fields written between turns |
| Responses session decorator | `src/src/responses_session.rs:462-604` | inner session, observer | `send`, `send_with_options`, `next_event`, `close`, `into_inner` | awaits that fail or are dropped; frames of an earlier response; broken connections |
| Dispatch hook, tool calls | `src/src/dispatch.rs:66-207, 350-424` | id counter, one in-flight slot | `before_invocation`, `after_invocation_with_outcome`, `on_invocation_error` | shared by threads through `Arc`; dropped dispatches; hooks that skip before it |
| Dispatch hook, kernel lifecycle | `src/src/dispatch.rs:136-154, 210-338` | started flag, iteration counter, cached kernel id | `before_step`, `before_skill`, `after_skill`, `on_step_error`, `Drop` | concurrent first steps; start and shutdown naming different kernels; the last reference going away |
| Emission | `src/src/emit.rs` | process-wide tick | `build_event_with`, `try_emit` | tick claimed before the event is dispatched; clock read before the tick |
| Capturing layer, extraction | `src/src/subscriber.rs`, `src/src/extract.rs` | shared buffer | `on_event`, `snapshot`, `clear` | concurrent writers; clear while events are on their way |
| Telemetry hook | `src/src/hook.rs` | configuration only | the five `PromptHook` methods, `observe_prompt_error`, `observe_tool_error` | pairing across calls under sampling |
| Chained hook | `src/src/chained.rs` | two hooks, optional conversation id | all `PromptHook` methods | decisions of two hooks joined; synthetic terminal events |
| Sampling | `src/src/sampling.rs` | rates | `should_sample` | one end of a pair kept without the other; rates 0, 1 and beyond |
| Observed memory | `src/src/observed_memory.rs` | inner memory | `load`, `append`, `clear` | counted and emitted around an await: other tasks act in between, the future fails or is dropped |
| Insights | `src/src/insights.rs` | none | spans, durations, percentiles, statistics over a snapshot | ids that come again, ends missing or out of order, a clock set back |
| Event query | `src/src/query.rs` | a snapshot | filters, `latest`, `count_by_kind`, `conversations` | inclusive bounds; filters by call id see what the schema surfaces |
| Hosted tool extraction | `src/src/responses_extract.rs` | none | `extract_hosted_tools`, `emit_hosted_tools` | partial items; synthetic ids; calls the agent reports as well |
| Event schema | `src/src/event.rs` | none | discriminants, scalar fields, `truncate_utf8` | two extractions of the call id; truncation at a character boundary |
| Redaction | `src/src/redaction.rs` | user-supplied | text to text | its order with truncation |
| Metrics | `src/src/metrics_ext.rs` | none | one event to counters and histograms | emitted after capture; computed apart from the rollups |
| Errors, crate root | `src/src/error.rs`, `src/src/lib.rs` | none | none | none |

How they interact: the hooks, the memory decorator and the session observer all
call `emit_kind` / `emit_kind_with`, which builds the envelope (clock, then
tick) and dispatches it through `tracing` to whatever layers are installed; the
capturing layer is one of them and feeds `query` and `insights`.  The decorator
owns its observer and its inner session and calls one around the other.
`ChainedHook` calls two hooks in order and adds events of its own.

## Modules

### SessionEnvelope

The abstract promise of a session stream: a phase (`fresh`, `idle`, `turn`),
whether the session end is out, and how many turns were started and completed.
It says nothing of payloads or calls.  A step may complete a turn and open the
next one, because one call of the observer may emit several events.

### ResponsesSession

`ResponsesSessionObserver`.  One action per method (three for `observe_event`,
one per event that does anything: `Item` events are ignored by the code).  The
methods take `&mut self`, so a call is atomic; the type puts no order on them,
so the model makes any call at any time.

| module | code |
|---|---|
| `sessionStarted`, `sessionEnded`, `inTurn` | the flags of the same name |
| `turn` | the `turn_*` fields; `clock` is `turn_started_at.is_some()`; the two token counts are one opaque `usage` |
| `log` | the events emitted, in order, without the constant envelope fields |
| `heard` | history: the facts reported since the last send |
| `Finalized`, `FinalizeEvents` | `finalize_turn` with its early return |
| `StartEvents` | `start_session_if_needed` |
| `HostedEvents` | the loop over `emit_hosted_invoked_completed` |
| `ResponseStatusString` | `response_status_string` |
| `AbsorbDone` | the field updates of the `Done` branch |

Definitions whose comment says *Mutant* are faulty variants of the definition
that follows them; no specification uses them.  Substituted for it, each must
break the property it is listed with in `PROJECT.json`.

### ObservedSession

`ObservedResponsesSession`, composed with the observer
(`Observer == INSTANCE ResponsesSession`).  Every async method is a *Begin*
action, which runs the code before its await, and one action per way the await
may end: a result, an error, or the caller dropping the future, in which case
the code after the await never runs.  `pc` is the pending method; Rust's
`&mut self` allows only one.

External, and modelled from how the code uses them: the inner rig-core session
(`chain` is its `previous_response_id`), the connection, and the server, which
answers request *n* with a chunk that opens response *n*, a terminal chunk and
`Done`, or an error in place of any of the first two; it goes on with the last
request only.  Whether the inner session
discards, on a send, the frames nobody has read is not visible in this
repository, so both are allowed; `mixed` remembers when a response may be read
in another turn.  Two callers are
chosen between at the start: `"any"` calls, drops and consumes whatever the types
allow, and `"readme"` follows the calling pattern of the README.

### DispatchObserve

`DispatchObserveHook` as a tool dispatch hook.  The hook's methods do not await,
but they touch the counter (`counter`), the slot (`inFlight`) and the event
stream (`log`) one after the other, so each touch is a step, and other threads
may act between two steps.  `held` and `timed` are what `call_id_for_after` and
`call_id_for_error` return: an id, and whether it came with a start time.

External: the kernel's dispatch loop, one gate (another hook, before or after
the observer, which passes, skips or terminates), the tools, and callers that
drop a dispatch while it awaits.  Dispatches may always overlap and be dropped; the history
variable `overlapped` and the operator `OneByOne` say when they have not, which is
the use the source is written for (`dispatch.rs:45`).

### EventStream

The way of one event, shared by everything that emits.  `Build` is
`build_event_with`, which claims the tick; `Capture` is the dispatch of the event
down to `CapturingLayer::on_event`; between the two the event is in its
producer's hands (`built`) and other threads act.  `Clear` is
`CapturingLayer::clear`; `cleared` keeps what it removed, so that `wire`
(`cleared \o buffer`) is everything that ever arrived.  `by` and `seen` are
history fields of an event: its producer, and how much had arrived when its tick
was claimed.  `Spec` is the abstract specification of the stream: producers
emit what they like.  A module that models producers instantiates it and builds
its actions from `Build` and `Capture`.

The lock is held for one push, copy or clear and never across a call, so each is
one step.  Decoding is total, because the floats of events are taken to be finite: a
NaN is encoded as JSON `null`, which the one mandatory float, the `value` of an
`eval.report`, does not decode from, so that such a report would be metered
(`emit.rs:118`) and not captured.  `Telemetry` assumes it away (`JobsAssumption`).

### KernelLifecycle

`DispatchObserveHook` as an agent lifecycle hook, shared by threads through an
`Arc`, over `EventStream`.  As in `DispatchObserve`, each touch of shared state is a
step.

| module | code |
|---|---|
| `kernelStarted`, `loopCounter`, `kernelId` | `kernel_started`, `loop_counter`, `kernel_id_cache` |
| `CacheKernelId`, `SwapStarted`, `ResetLoopCounter`, `EmitKernelStart`, `NextIteration`, `EmitLoopIteration` | `before_step`, in this order |
| `SkillDeclined`, `SkillApplies`, `AfterSkill`, `OnStepError` | `before_skill` (both ways), `after_skill`, `on_step_error` |
| `Release`, `DropUnstarted`, `DropStarted` | the end of an `Arc`; `Drop` |
| `claimed` | the iteration claimed before its event is built |
| `raced` | history: a step began while another was between its first line and the kernel start |

External: the agent's `step()`, which calls the hook in its order, and callers that
drop a step.  A step looks at one skill at most, because `before_skill` and
`after_skill` read no state.

### ToolSpans

`Insights::tool_spans` and `tool_stats`, as operators over a snapshot; a span is its
key and the events at its ends, from which its fields are read.  `Spans` takes up
one event after the other as the loop does (`TakeUp`, a function on the prefixes of
the snapshot), and `ReferenceSpans` says the same by positions: one span per
invocation, in order, with the last terminal event of its key before the next
invocation with that key.  No actions: `AgentHooks` supplies the snapshots, so TLC
compares the two on every stream that an agent can produce, and on every suffix of
one, which is what `clear` may leave; that they agree on any events is proved.

### AgentHooks

`TelemetryHook` behind its sampling policy, inside
`Chained(Chained(gate 1, telemetry), gate 2)`, under the agent loop of rig.

| module | code |
|---|---|
| `policy`, `bucket`, `ShouldSample`, `RateFor`, `ClampUnit` | `RatePolicy` within `AdaptiveErrorPolicy`; a bucket per correlator stands for its hash, a rate is a number of buckets |
| `configured`, `resolved`, `ResolvedConversation` | the configured conversation id, and the resolver's answer |
| `observed`, `Announce` | `ChainedHook::observe_with` and its synthetic events |
| `Combined`, `answers` | `combine_tool_actions`, over what the gates answered |
| `GateBefore`, `GateAfter` | the two parts of `on_tool_call`, split where it awaits |
| `OnCompletionCall`, `OnCompletionResponse`, `ObservePromptError`, `OnToolResult`, `ObserveToolError` | the methods of the telemetry hook |

External: the gates, the tools, the provider, and the loop: one prompt with one
round of tool calls polled concurrently in one task, so that steps end at awaits;
a terminated call ends the round and drops the others; an erring tool is
reported by the host and its error handed on as a result; the caller may drop
the prompt.  The round stands for any: nothing in the hooks is carried from one
to the next.

### ObservedMemory

`ObservedMemory` shared by tasks.  As in `ObservedSession`, each method is a *Begin*
action, the code before its await; the effect of the inner operation (`InnerLoad`,
`InnerAppend`, `InnerClear`, external), at once and at any time while the method
awaits; and the code after the await.  `Breaks` is the end without a report: the
inner operation returns an error through `?`, or the caller drops the future,
before or after it took effect.  Messages are counted; their sizes in bytes, which
are computed beside the counts, are left out.  `began`, `clears`, `removed` and
`silent` are history, and so are the fields `began` and `ended` of an event.

### EventSchema, EventQuery, HostedTools, Insights

Pure parts, as operators that `Telemetry` evaluates on everything its producers
emit.

| module | code |
|---|---|
| `EventSchema` | `event.rs`: the families of kinds, `Surfaced` and `ScalarField` (`scalar_fields`), `ToolCallId`, `Truncate` (`truncate_utf8`, with the loop that goes back from the limit) |
| `EventQuery` | `query.rs`: a filter is a function from the predicates configured to what they expect; `Matches`, `Filter`, `Latest`, `CountByKind`, `Conversations` |
| `HostedTools` | `responses_extract.rs`: `IsHosted`, `HostedCallId`, `CompactJsonSubset`, `HostedCalls`, `HostedEvents`; `Scrubbed` is redaction followed by truncation |
| `Insights` | `insights.rs`: `LatencySummary` with `Percentile`, `PromptStats`, `ErrorsByClass`, `CostByConversation`, `SpanDuration` |

A text is a sequence of characters with widths in bytes; a policy is any operator on
texts.  JSON encoding is reduced to which fields are picked.  Costs are integers.
The code computes the rank of a percentile as `(p / 100.0 * n).ceil()` in `f64`;
`Rank` rounds up exactly.  Evaluated for p = 50, 90, 95, 99 and every n below two
million, the two agree.  What a loop of the code computes step by step is a
recursive function on the prefixes (`Bytes`, `TruncateEnd`, `HostedCalls`, `Spans`).

### Telemetry

From the producers to the consumers, over `EventStream`.  A job is a finished
payload or the events of an agent, and producers take up jobs in any order.

| module | code |
|---|---|
| `Start` | external: the host hands over a payload, or an agent runs |
| `Build`, `Capture`, `EmitMetrics` | `build_event_with` with `now_millis`; `try_emit` down to the layers; the call of `emit_metrics` that follows |
| `AgentEvents` | the redaction and truncation in `on_tool_call` and `on_tool_result` |
| `Labels`, `TokenCounters`, `Histograms`, `Recorded` | `emit_metrics`; `metrics` says how much each counter has and how often each histogram got each value |
| `Captured`, `Snapshots` | `snapshot`, and all that `clear` may leave of it |
| `wall` | the wall clock: the milliseconds at each tick; nothing is built when the clock given ends (`tick \in DOMAIN wall`, a bound no run reaches) |

`clear` is no action here: it leaves a suffix of what was captured, and the
properties of consumers speak of every suffix.

## Runs

| run | what it asks | bounds |
|---|---|---|
| `session` | every order of calls on the observer: envelope, flags, refinement of `SessionEnvelope`, and what a completed turn reports | two response ids (symmetric), one usage, an opening and a terminal chunk kind, two wire statuses, a terminal status in a `Done` if any, at most two hosted calls per `Done`; no send, chunk or `Done` once 5 events are out (errors and closes, which emit only for what is open, go on), so a stream has up to three turns, a lazy finalization, a close inside or outside a turn, a send after it, and a second close that completes that turn |
| `session_running_status` | finding: a turn completed by the next send reports `in_progress` | same |
| `observed` | the decorator: any caller with any failure and any dropped future, and, for liveness, the caller of the README | two sends of any caller, three of the other; the log bound is out of reach |
| `observed_error` | finding: an error of `next_event` is not observed | the same |
| `dispatch` | the hook used by one dispatch at a time or by several at once, dispatches dropped | two dispatches of up to two invocations, gate before or after |
| `dispatch_cancelled` | finding: a dropped dispatch leaves its id in the slot | the same |
| `kernel` | the shared lifecycle hook, its emissions and their capture | two threads, two kernel ids (symmetric), two steps in all (by one thread or by both), the buffer cleared while at most two events have arrived |
| `kernel_first_iteration` | finding: the first iteration after the start need not be 0 | the same |
| `agent` | sampling, chaining and the reconstruction of tool calls | one round of two calls, two conversations (symmetric), two buckets per correlator, three policies: one rate for all with an allowlist, completions sampled below invocations with rates out of range, and the other way round |
| `agent_pending` | finding: the pending count is wrong beside an orphan terminal event | the same, one conversation |
| `memory` | what the memory events say of the memory, however tasks interleave, fail and are dropped | three tasks, two conversations (both symmetric), four operations in all, batches of up to two messages |
| `telemetry` | extraction, redaction, truncation, filters, rollups, durations and metrics, on every snapshot | two producers (symmetric), thirteen sets of two or three jobs, a clock that goes on and one that is set back, texts of up to five characters, one of them two bytes wide, cut at three bytes |

What the last two runs say, in short.  `memory`: every message the inner memory got is in
exactly one `context.persisted` event, is about to be, or belongs to an append that
was not reported; a `context.sampled` event misses nothing reported before its load
began; samples only shrink after a clear.  `telemetry`: hosted pairs are whole
although synthetic ids come again in every response; a function call is not
extracted as a hosted one (rig's agents report it under an id of their own); no half of a secret is left by truncation, and a payload is the longest prefix
that fits; rollups of one conversation do not depend on the others; filters find
exactly the events of a call; pages cover a snapshot; percentiles of the durations that
are read are nearest ranks by their definition on sets; durations are those of a span's
own ends, or unknown if the clock was set back; metrics and rollups agree but for events
between the two and for the durations of embeddings, retrievals and rerankings.

Two values of a payload are enough because the observer only stores and copies
payloads: a mix-up needs two.  Two turns are enough for a mix-up between turns,
and the third covers a turn between two others.  Two dispatches with two
invocations each are enough for an id to be taken by the wrong call, the wrong
dispatch or a later dispatch.  Two steps are enough for two threads to race on the
start and for one to step again; a tick or iteration claimed twice needs two
claimants.  Two calls are enough for a terminal event to close the wrong span,
and two buckets for a pair to be split.  Four memory operations are enough for a
load, an append, a clear and a later load, and three tasks for two of them to be
between the steps of a third.  The jobs of `telemetry` are chosen so that synthetic
ids meet in one conversation and in two, also with a provider's id that looks like one,
provider ids in two, every rollup gets two
events, and each branch of the extractor an item; two threads are enough for their
events to be interleaved.  The clear is bounded because every
property speaks of `wire`: a later clear moves the boundary in it and nothing
else; the proofs have no bound on producers, events or clears.  The lifecycle properties hold beyond these bounds
because they are proved (below).

Deadlock is not checked in these runs: a session may be closed for good, a
decorator consumed, and dispatches, prompts and threads come to an end; in `session` the bound on
the log stops the model.

Properties that answer one question together are conjunctions of named parts:
`SessionBrackets` of `OneSessionStart` and `EndedOnceBetweenTurns`, `CallsArePairable`
of `CallIdsUnique` and `TerminalAfterInvoked`, `TicksAreSound` of the two invariants of
`EventStream`, `StartsInOrder` of `StartComesFirst` and `IterationsNumbered`,
`RollupsMatchReference` of `SpansMatchReference` and `PendingIsCounted`,
`HostedCallsAreSound` of `HostedSpansAreWhole` and `NoCallReportedTwice`,
`QueriesAreExact` of `FiltersFindCalls` and `PagesCoverSnapshot`.

### Fairness

Only the caller of the README in `observed` has it (`ReadmeStep`); the other caller has none.  Weak fairness of the caller: its loop takes its
next call when the last has returned.  Of the returns: the runtime polls a
pending future, and the inner session answers when it has a frame or its
connection is down.  Of the server: it goes on with a response it has begun.
Nothing makes the connection fail, and nothing keeps it up.  `close` always
returns, with either result.

## Proofs

Every invariant and action property of the passing runs that is not named under
*Model-checked only* is a theorem.  What follows says for each module which
invariant the argument rests on and why it is needed.

`ResponsesSession_proofs`, for every set of ids, usages, statuses and reasons and
every bound.  `TypeOK`, `SessionBrackets`, `TurnsAlternate`,
`CompletionMatchesStart` and `FlagsAgree` look at pairs of positions of the log, and
one call appends up to `2 * hosted + 3` events, so they are not inductive in a usable
way.  The invariant proved instead, `StreamInv`, has two parts: `WellFormed`, in which
each position is legal given only the events *before* it, so that appending cannot
disturb it, and `Flags`, which says in which condition the whole log is (session
announced or not, ended or not, turn open with which ancestor, every turn closed).
One lemma per kind of event says when it may be appended and what condition it
leaves; the step proof chains them in the order in which the code emits.  On top of
it:

- `EnvelopeImplemented`: the observer implements `SessionEnvelope`.  The refinement
  mapping counts positions, so lemmas say what an appended event does to a count, and
  each call is taken event by event.
- `TurnsReportOwnFacts`: `FactsInv` (the facts of the open turn were heard since its
  send) for what a completion says, and `HostedInv` (the hosted counter is the number
  of hosted calls since the turn opened) for its count.

`ObservedSession_proofs`, for every number of requests and any failures and drops.
`Implementation`: every step of the decorator is one call of the observer, or none, so
what is proved of an observer called in any order holds inside it (`StreamIsSound`
and `Typing`).  Then what relates the observer to the calls around it:
`ClosedMeansEnded` and `SendErrorReported` (with `LifeInv`: a send that is awaited has
its turn open), `OneTurnPerSend` (the number of turns started is the number of
sends), and `TurnOwnsItsResponse`, whose invariant `OwnInv` says that unless frames may
have been mixed every completion so far names the response of its own request, the
open turn knows no other, and every frame on its way belongs to the last send.

`DispatchObserve_proofs`, for every set of dispatches, with any interleaving and any
drops: `TypeOK` and `CallsArePairable`.  The strengthening, `OwnInv`, says who owns a
call id: a method that has it in hand (and then whether it is unseen or announced and
pending), the slot (announced and pending), or nobody; owners are distinct, and every
id is below the counter.  It also proves `TerminalsAreOwn`, which speaks of the streams
in which dispatches have run one at a time to their end (`OneByOne`), from
`OneByOne => SequentialInv`: one dispatch is active, and the slot is filled exactly
while that dispatch waits for the fate of the invocation it announced.  `OneByOne` is
never regained once lost (`StaysOneByOne`), so a step that ends in it began in it.
`OverMeansResolved` follows from `AccountInv`: which invocations of a dispatch are in
the stream, and which of them are resolved, is read off how far the dispatch has come,
and no invocation has two events of a sort.

`EventStream_proofs`, for every set of producers and bodies: `TicksAccountedFor` and
`TicksRespectCausality`.  The first is inductive with the types.  The second needs
`Ordered` (an event was built before it was captured, and of two events of a producer
the later one has seen the earlier), and `Ordered` needs `InHand` (an event in its
producer's hands has a higher tick than everything it has seen, and nothing of its
producer was captured since it was built).  Two lemmas say what the actions do to
`wire`: a capture appends one event, and everything else, `Clear` included, leaves it
as it is.

`KernelLifecycle_proofs` proves that the hook implements `EventStream`
(`Implementation`): each step is a `Build`, a `Capture`, a `Clear` or a stutter of
the stream, given that iterations are numbers when they are emitted
(`ClaimedBeforeEmitted`, the only strengthening of `TypeOK`).  The stream's two
theorems then carry over to the hook (`TicksStaySound`), which is why
`EventStream` is a module of its own: any producer that implements it has them.

It also proves `LifecycleIsBracketed` (`Bracketing`), from two invariants.
`StartInv`: once the flag is set the start is in exactly one place, claimed by the
thread that won the swap, in that thread's hand, or in the wire, and before that
nowhere.  `ShutdownInv`: a thread that runs `Drop` finds every other reference gone
and nothing in any hand; a shutdown, in hand or in the wire, means that all
references are gone, that no tick was claimed since, and that the kernel had
started; and if all are gone and the kernel had started, there is one.  Most actions
are instances of three lemmas: a quiet move within a step, a move that builds an
event other than the start, and (for the shutdown) any move of a thread that
still holds its reference.

`StartsInOrder` is about runs without a race (`~raced`).  Its invariant, `OrderInv`,
says where a thread is that has an event in hand (`HandInv`), that until the start is
captured one thread is within its first step, all others stand by, and the cached id
is the one of that thread's agent (`PhaseInv`), and that every iteration claimed so
far is held by one thread or captured once (`NumberInv`).

`AgentHooks_proofs`, for any number of calls, any policies and buckets.  `TellInv`
says of each call, by where it is, which events of it have shipped, given which the
policy lets through; `PairsStayCoherent`, `StoppedCallsAreReported` and
`AnomaliesAreKept` are read off it and the types.  `SpansAreReference` is a lemma
about any sequence of events, whatever produced it: after each prefix the pass of
`tool_spans` has the reference spans of the prefix, and its index the last invocation
of each key.  (The induction is by a least prefix for which this fails, because the
library's induction theorems cannot be used.)  `PendingIsUnresolved` adds that the
difference of counts is the number of unresolved invocations if no terminal event is
an orphan and none is a second one, by a bijection of resolved invocations and terminal
events.  `RollupsMatchReference` and `SpansAreClosed` follow, the second with the
invariant `OrderInv`: the invocation of a call is in the log before anything else of it.

`ObservedMemory_proofs`, for every set of conversations and finite set of tasks.
`SamplesNeverShrink` speaks of pairs of events; its strengthening says that between
two clears the memory bounds from above what was loaded and reported
(`LoadedBelowMemory`, `StreamBelowMemory`), so that a load which began after a report
returns at least as much (`LaterLoadsAbove`), and that nothing began later than now
(`MarksAreOld`).  `MessagesAccountedFor` and `SamplesCoverReports` are sums over the
events and over the tasks.  The first is inductive, given lemmas on what a sum does
when an element joins or leaves.  The second needs `FreshIsKept` (what was persisted
since the last clear, reported or about to be, is in the memory) and `FreshIsLoaded`
(what had been reported when a load began was loaded).

`Telemetry_proofs`, for any producers, jobs, clocks, policies and limits.
`TruncateIsLongestPrefix`: for any text and limit, `Truncate` leaves the longest prefix
that fits and marks it rightly; the loop that goes back from the limit stops at the
last boundary, and more characters have more bytes.  `PayloadsAreLongestPrefixes`
follows from what every script holds (`ScriptType`: the texts in the events of any
payload and any agent were scrubbed whole).  `DurationsAreOwn` needs that a tick is the
tick of one event, because `tool_spans` looks the wall clock up by ticks: `Telemetry`
is shown to implement `EventStream`, `TicksAccountedFor` carries over, and the ends of
a span are events of the snapshot (`SpansAreSpans`).  `PercentileIsNearestRank` says of
`Percentile`, for any number of sorted samples, that its index is in range, that the
clamping never changes it, and that it is the nearest rank: at least p percent of the
positions are at or before it, less than p percent before it.

What its readers see of whole snapshots is proved too.  The lemmas underneath are about
the operators: `Selection` (what `Select` picks is the list of its places in ascending
order), `Partition` and the `Sum...` lemmas (finite sums, by removing an element), and
`SortedRanks` (a sorted sample lists its values by rank).
- `LatencyIsNearestRank` follows from `SortedRanks` and `PercentileIsNearestRank`; that
  the mean lies between the extremes is `SumBounds`.
- `QueriesAreExact`: that pages cover a snapshot is `Partition` by ticks, kinds and
  conversations; that a window of ticks keeps both ends of a call needs `CallsInv`: while
  no two producers were at work on one key (`KeysApart`), an event that is built has a
  higher tick than what is captured under its key (`BuiltAfterCaptured`), so that the
  ticks of a call ascend (`CapturedInOrder`).
- `ConversationsAreIndependent`: the pass of `tool_spans` over a snapshot is followed side
  by side with the pass over the events of one conversation.  After each prefix the spans
  of the second are the share of that conversation in those of the first (`ShareOfOthers`,
  `ShareOfOwn`); with ticks that are unique the durations agree as well.
- `HostedCallsAreSound`: `HostedInv` says that, as long as no two producers shared a key,
  what each has to emit next continues the log: a hosted call in the log is whole (its
  completion is the next event of the call and has the same response and tool), or a
  producer is about to emit that completion, and after it only whole calls.  When all are
  idle the log is tidy (`IsTidy`), and the pass over a tidy log closes every hosted span
  with its own completion (`TidySpans`).  That agents' events stay out of it is
  `ApartFromAgents`.
- `MetricsMatchInsights` speaks of many sums at once.  Its invariant, `MetricsInv`, says
  for *every* set of keys that the metrics with them and those about to be emitted amount
  to the sum over the captured events; the property picks the sets.  One event has at most
  one metric in each of them (`MetricsByName`), so each sum is a count or a total of a
  field (`AccountedOnes`, `AccountedAtPlaces`).

The assumptions are those the modules state, and TLC evaluates them in the runs.
`None` is none of the values it stands beside; the chunk kinds are those of the
provider, and the statuses of a `Done` (`DoneStatus`) are any of the statuses there are; bounds are numbers; the rates of a policy are numbers
(`PoliciesAssumption`); tasks are finitely many (`TaskAssumption`); each request has a
response of its own (`ResponsesDistinct`); clocks show numbers.  `Telemetry` has more,
about what it is given.  Producers are finitely many (`ProducerAssumption`), as threads
are.  The events of an agent have the fields that `event.rs` gives them
(`JobsAssumption`): they are no hosted calls, only the kinds with a `duration_ms` have
one, and it is a number, their floats are finite, and the class of an error has a name (`ErrorClass::as_str` is
never empty).  A redacted text is a text (`RedactAssumption`).  A provider's ids tell
calls apart: no agent reports a call of its own under the id of a hosted item
(`IdsAssumption`); without it a hosted call and an agent's call with one key would be
one call to `tool_spans`.

Model-checked only: `TurnEventuallyCompletes`, because liveness under fairness is out of
the prover's reach.  All other properties of the passing runs are stated by theorems.

## Findings

1. **A completed turn may report a running status** (`session_running_status`).
   `event.rs:595` documents `status` as terminal, and the doc of `observe_send`
   (`responses_session.rs:199`) says that it finalizes a turn still open with
   `completed`.  `observe_event` records the status of every chunk, and the next
   send finalizes the turn with the last one (`:205`).  TLC's trace is that path:
   a send, a `response.created` chunk with `in_progress`, a second send, whose
   first event is a `response.turn_completed` with `in_progress`.  The statuses of
   `Done` payloads (`DoneStatus`) are terminal in the run.  An error event and a
   close finalize in the same way; an error event does not replace a recorded
   status by `error` (`get_or_insert_with`, `:293`).
2. **`next_event` errors are not observed** (`observed_error`).  The doc of the
   decorator (`responses_session.rs:477`) says the observer is always notified;
   `next_event` returns early (`:585`).  The turn completes later, on `close`,
   if the caller calls it (`TurnEventuallyCompletes` in `observed`).
3. **A dropped dispatch poisons the next one** (`dispatch_cancelled`).  Its call
   id stays in the slot, and a later call skipped by an earlier hook is resolved
   under it instead of a synthetic one (`dispatch.rs:15-17`).
4. **The first iteration after the start need not be 0**
   (`kernel_first_iteration`).  `before_step` swaps the flag, resets the counter
   and emits the start in separate steps (`dispatch.rs:219-230`); the loser of
   the swap does not wait for them.  The comment at `:220` promises the
   contrary.  `StartsInOrder` says what holds when no step begins during the first one's start.
5. **The pending count is wrong beside an orphan** (`agent_pending`).
   `insights.rs:268` defines `pending` by matching; `:287` subtracts counts, so a
   terminal event whose invocation was sampled out or cleared cancels another
   call's.  `RollupsMatchReference` states the condition under which the two agree,
   and that `tool_spans` is right without it.

Two more disagreements with the docs are stated inside passing runs, as what the code
does, and have no run of their own:

- `Insights::latency` is documented for every event whose kind matches
  (`insights.rs:397`), but `duration_ms_of` (`:524`) leaves out `embedding.completed`,
  `retrieval.queried` and `rerank.completed`, whose durations `emit_metrics` does
  record.  `LatencyIsNearestRank` says that their summary is empty, and
  `MetricsMatchInsights` that their histograms count them (`telemetry`, whose jobs
  have a `rerank.completed`).
- The repository's README says that `tool.skipped` is dropped by default under
  sampling (`README.md:376`), while the chain and the dispatch hook emit it unsampled.
  `StoppedCallsAreReported` says that a skip is in the stream under every policy
  (`agent`).

Also seen, and not counted as disagreements: a send after `close` announces turns
after `session_ended`; two dispatches that share the hook concurrently mix their ids, which
`dispatch.rs:45` excludes by assumption; a hook shared by several agents announces the
shutdown of the first one only, its other kernels never end; a call
that was reported failed and then completed with the error as its result is a
completed span, because the last word wins; two producers that report two responses
of one conversation at once may mix up the pairs of hosted calls without ids,
because their synthetic ids are equal (the condition `shared` of
`HostedSpansAreWhole`, a part of `HostedCallsAreSound`).

## Not modelled, and the plan

Every component with behaviour of its own has a module now.  Next, in this order:

1. `DispatchObserve` over `EventStream`, so that its ticks come with the stream's
   theorems.
2. Several rounds and prompts at once in `AgentHooks`, if a property needs them.

Out of scope: serialisation and field layout (`event.rs`), which are derived; the
approximate sizes in bytes of memory events; success rates, quotients of two counts;
the payloads of prompts and the classification of errors (`hook.rs`), which no other
part reads; `inner_mut` of the decorator, which bypasses the observer by design; the
errors and the crate root, which have no behaviour.
