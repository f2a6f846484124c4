------------------------------ MODULE AgentHooks ------------------------------
(***************************************************************************)
(* The hooks of a rig agent: TelemetryHook (hook.rs) with its sampling      *)
(* policy (sampling.rs), and ChainedHook (chained.rs), which joins it with  *)
(* gating hooks and reports the calls they stop.  What they emit is         *)
(* captured and read by Insights (ToolSpans).                               *)
(*                                                                          *)
(* The chain is Chained(Chained(gate 1, telemetry), gate 2), the outer one  *)
(* with observe_with or without it.  The agent loop is external: one prompt *)
(* with one round of tool calls, which it polls concurrently in one task,   *)
(* so what happens between two awaits is one step.  The gates and the tools *)
(* await.                                                                   *)
(*                                                                          *)
(* A rate is a number of buckets out of Buckets: the code's bucket is a     *)
(* hash scaled to [0, 1), compared with a rate in [0, 1].                   *)
(***************************************************************************)
EXTENDS Integers, Sequences, FiniteSets, ToolSpans

CONSTANTS
  Call,          \* internal ids of the tool calls of the round
  Conversation,  \* conversation ids
  Buckets,       \* how many buckets a correlator may hash to
  Policies,      \* sampling policies to choose from
  None           \* Option::None

ASSUME BucketsAssumption == Buckets \in Nat \ {0}
ASSUME NoneAssumption    == None \notin Conversation

VARIABLES
  policy,      \* the sampling policy of the hook
  bucket,      \* what each correlator hashes to
  configured,  \* TelemetryHookConfig.conversation_id
  resolved,    \* what the conversation id resolver returns during the prompt
  observed,    \* ChainedHook.observe_conversation_id
  phase,       \* where the prompt is
  pc,          \* where each tool call is
  answers,     \* what the gates have answered about each call
  log          \* every event emitted, in order

config == <<policy, bucket, configured, resolved, observed>>
vars   == <<config, phase, pc, answers, log>>

\* What the capturing layer may hold: what clear() has left of the log.
Snapshots == {SubSeq(log, n + 1, Len(log)) : n \in 0..Len(log)}

Kind == {"prompt.started", "prompt.completed", "prompt.failed"}
          \cup InvokeKind \cup TerminalKind

\* RatePolicy: a rate per kind for some kinds and a default; with adaptive,
\* AdaptiveErrorPolicy around it and its extra_keep.
PolicyType(p) ==
  /\ DOMAIN p.rates \subseteq Kind
  /\ \A k \in DOMAIN p.rates : p.rates[k] \in Int
  /\ p.default \in Int
  /\ p.adaptive \in BOOLEAN
  /\ p.keep \subseteq Kind

ASSUME PoliciesAssumption == \A p \in Policies : PolicyType(p)

ClampUnit(rate) == IF rate < 0 THEN 0 ELSE IF rate > Buckets THEN Buckets ELSE rate

RateFor(kind) ==
  ClampUnit(IF kind \in DOMAIN policy.rates THEN policy.rates[kind] ELSE policy.default)

\* Mutant of AlwaysKeep: every failure but prompt.failed.
AlwaysKeepTools == {"tool.failed", "tool.terminated"}

\* ALWAYS_KEEP_KINDS, of the kinds that occur here.
AlwaysKeep == {"prompt.failed", "tool.failed", "tool.terminated"}

\* Mutant of ShouldSample: the kind is hashed with the correlator.
ShouldSampleSalted(kind, correlator) ==
  \/ policy.adaptive /\ kind \in AlwaysKeep \cup policy.keep
  \/ IF kind \in {"tool.completed", "prompt.completed"}
       THEN Buckets - 1 - bucket[correlator] < RateFor(kind)
       ELSE bucket[correlator] < RateFor(kind)

\* should_sample.  A rate of 1 keeps every bucket and a rate of 0 none.
ShouldSample(kind, correlator) ==
  \/ policy.adaptive /\ kind \in AlwaysKeep \cup policy.keep
  \/ bucket[correlator] < RateFor(kind)

\* resolved_conversation_id
ResolvedConversation == IF resolved = None THEN configured ELSE resolved

Emit(kind, conversation, call) ==
  log' = Append(log, [kind |-> kind, conversation |-> conversation, call |-> call])

\* An emission of TelemetryHook, gated by its policy.
Sample(kind, correlator, call) ==
  IF ShouldSample(kind, correlator)
    THEN Emit(kind, ResolvedConversation, call)
    ELSE UNCHANGED log

SamplePrompt(kind)     == Sample(kind, ResolvedConversation, None)
SampleTool(kind, call) == Sample(kind, call, call)

Init ==
  /\ policy \in Policies
  /\ bucket \in [Call \cup Conversation -> 0..(Buckets - 1)]
  /\ configured \in Conversation
  /\ resolved \in Conversation \cup {None}
  /\ observed \in Conversation \cup {None}
  /\ phase = "call"
  /\ pc = [c \in Call |-> "new"]
  /\ answers = [c \in Call |-> {}]
  /\ log = <<>>

-----------------------------------------------------------------------------
(* The prompt: on_completion_call, on_completion_response and               *)
(* observe_prompt_error.  The gates' answers are joined by combine_actions: *)
(* one that terminates is enough.                                           *)

Prompt(from, to) ==
  /\ phase = from
  /\ phase' = to
  /\ UNCHANGED <<config, pc, answers>>

OnCompletionCall == Prompt("call", "call_gate") /\ SamplePrompt("prompt.started")

ProviderAnswers == Prompt("provider", "response") /\ UNCHANGED log

OnCompletionResponse ==
  Prompt("response", "response_gate") /\ SamplePrompt("prompt.completed")

\* The gates of on_completion_call and on_completion_response let the prompt go on
\* or terminate it; the provider may fail.
GatesPass ==
  (Prompt("call_gate", "provider") \/ Prompt("response_gate", "tools")) /\ UNCHANGED log

PromptBreaks ==
  /\ \E from \in {"call_gate", "provider", "response_gate"} : Prompt(from, "failing")
  /\ UNCHANGED log

\* The host reports the error of a prompt.
ObservePromptError == Prompt("failing", "failed") /\ SamplePrompt("prompt.failed")

-----------------------------------------------------------------------------
(* Tool calls: on_tool_call, observe_tool_error, on_tool_result             *)

Go(c, from, to) ==
  /\ phase = "tools"
  /\ pc[c] = from
  /\ pc' = [pc EXCEPT ![c] = to]
  /\ UNCHANGED <<config, phase>>

Decision == {"continue", "skip", "terminate"}

\* Mutant of Combined: a skip beats a termination.
CombinedSkips(as) ==
  IF "skip" \in as THEN "skip" ELSE IF "terminate" \in as THEN "terminate" ELSE "continue"

\* combine_tool_actions: of the hooks' answers, the strongest.
Combined(as) ==
  IF "terminate" \in as THEN "terminate" ELSE IF "skip" \in as THEN "skip" ELSE "continue"

\* The first gate answers; whatever it says, the chain goes on to the telemetry
\* hook, which never stops a call.
GateBefore(c) ==
  \E d \in Decision :
    /\ Go(c, "new", "gate")
    /\ answers' = [answers EXCEPT ![c] = {d}]
    /\ SampleTool("tool.invoked", c)

\* Mutants of Announce: without the test; with the conversation of the hook's
\* configuration.
AnnounceAlways(c, kind) == Emit(kind, observed, c)

AnnounceConfigured(c, kind) ==
  IF observed # None THEN Emit(kind, configured, c) ELSE UNCHANGED log

\* observe_with: the chain reports under a conversation of its own, unsampled.
Announce(c, kind) ==
  IF observed # None THEN Emit(kind, observed, c) ELSE UNCHANGED log

\* The second gate answers, and the outer chain reports a call that is stopped.
GateAfter(c) ==
  \E d \in Decision :
    LET action == Combined(answers[c] \cup {d}) IN
    /\ answers' = [answers EXCEPT ![c] = @ \cup {d}]
    /\ \/ action = "continue" /\ Go(c, "gate", "tool") /\ UNCHANGED log
       \/ action = "skip" /\ Go(c, "gate", "done") /\ Announce(c, "tool.skipped")
       \/ action = "terminate" /\ Go(c, "gate", "stopped") /\ Announce(c, "tool.terminated")

\* The tool returns.
OnToolResult(c) ==
  Go(c, "tool", "result_gate") /\ SampleTool("tool.completed", c) /\ UNCHANGED answers

\* The tool fails and the host reports it; the agent loop goes on with the error
\* as the tool's result.
ObserveToolError(c) ==
  Go(c, "tool", "erred") /\ SampleTool("tool.failed", c) /\ UNCHANGED answers

OnErrorResult(c) ==
  Go(c, "erred", "result_gate") /\ SampleTool("tool.completed", c) /\ UNCHANGED answers

\* The gates of on_tool_result let the call end or terminate the prompt.
ResultPasses(c) == Go(c, "result_gate", "done") /\ UNCHANGED <<answers, log>>
ResultStops(c)  == Go(c, "result_gate", "stopped") /\ UNCHANGED <<answers, log>>

Ended == {"done", "stopped", "dropped"}

\* A call that is stopped ends the round: the others are dropped where they await.
Drop == pc' = [c \in Call |-> IF pc[c] \in Ended THEN pc[c] ELSE "dropped"]

RoundFails ==
  /\ phase = "tools"
  /\ \E c \in Call : pc[c] = "stopped"
  /\ phase' = "failing"
  /\ Drop
  /\ UNCHANGED <<config, answers, log>>

RoundEnds ==
  /\ \A c \in Call : pc[c] = "done"
  /\ Prompt("tools", "finished")
  /\ UNCHANGED log

\* The caller drops the prompt while it awaits.
Cancel ==
  /\ phase \in {"call_gate", "provider", "response_gate", "tools"}
  /\ phase' = "cancelled"
  /\ Drop
  /\ UNCHANGED <<config, answers, log>>

PromptStep ==
  \/ OnCompletionCall \/ ProviderAnswers \/ OnCompletionResponse \/ GatesPass
  \/ PromptBreaks \/ ObservePromptError \/ RoundFails \/ RoundEnds \/ Cancel

ToolStep(c) ==
  \/ GateBefore(c) \/ GateAfter(c) \/ OnToolResult(c) \/ ObserveToolError(c)
  \/ OnErrorResult(c) \/ ResultPasses(c) \/ ResultStops(c)

Next == PromptStep \/ \E c \in Call : ToolStep(c)

Spec == Init /\ [][Next]_vars

-----------------------------------------------------------------------------
(* Properties *)

TypeOK ==
  /\ policy \in Policies
  /\ bucket \in [Call \cup Conversation -> 0..(Buckets - 1)]
  /\ configured \in Conversation
  /\ resolved \in Conversation \cup {None}
  /\ observed \in Conversation \cup {None}
  /\ phase \in {"call", "call_gate", "provider", "response", "response_gate", "tools",
                "failing", "failed", "finished", "cancelled"}
  /\ pc \in [Call -> {"new", "gate", "tool", "erred", "result_gate"} \cup Ended]
  /\ answers \in [Call -> SUBSET Decision]
  /\ log \in Seq([kind : Kind, conversation : Conversation, call : Call \cup {None}])

\* How many of the buckets the policy keeps.
Share(kind) == IF policy.adaptive /\ kind \in AlwaysKeep \cup policy.keep
                 THEN Buckets ELSE RateFor(kind)

Shipped(kind, call) == \E i \in DOMAIN log : log[i].kind = kind /\ log[i].call = call

\* "a tool.invoked and its matching tool.completed either both ship or are both
\* dropped" (README.md:345), for equal rates; with different rates the kind with
\* the lower one never ships alone.  The same of the prompt's pair.
PairsStayCoherent ==
  /\ Share("tool.completed") <= Share("tool.invoked") =>
       \A c \in Call : Shipped("tool.completed", c) => Shipped("tool.invoked", c)
  /\ Share("tool.invoked") <= Share("tool.completed") =>
       \A c \in Call :
         Shipped("tool.invoked", c) /\ pc[c] \in {"done", "stopped"}
           => \/ Shipped("tool.completed", c)
              \/ answers[c] # {"continue"}
  /\ Share("prompt.completed") <= Share("prompt.started") =>
       (Shipped("prompt.completed", None) => Shipped("prompt.started", None))

\* "Both hooks are always invoked" and "Terminate > Skip > Continue" (chained.rs:12):
\* what the stream says of a call that was stopped is what the strongest of the
\* gates decided, its tool never ran, and the telemetry hook has seen it whichever
\* gate stopped it.
StoppedCallsAreReported ==
  observed # None =>
    \A c \in Call :
      LET over       == pc[c] \in {"done", "stopped"}
          terminated == over /\ "terminate" \in answers[c]
          skipped    == over /\ "skip" \in answers[c] /\ ~terminated
      IN  /\ Shipped("tool.skipped", c) <=> skipped
          /\ Shipped("tool.terminated", c) <=> terminated
          /\ skipped \/ terminated =>
               /\ ~Shipped("tool.completed", c) /\ ~Shipped("tool.failed", c)
               /\ ShouldSample("tool.invoked", c) => Shipped("tool.invoked", c)

\* "This closes the tool.invoked / tool.completed correlation gap when chaining a
\* telemetry hook with a gating hook", given "the same conversation ID configured on
\* the chain's telemetry hook" (chained.rs:31, 55): no call that is over has a
\* pending span, if completions are sampled no lower than invocations.  With a resolver
\* the id that counts is the resolved one, under which the telemetry hook emits.
SpansAreClosed ==
  observed = ResolvedConversation /\ Share("tool.invoked") <= Share("tool.completed") =>
    LET spans == Spans(log) IN
    \A n \in DOMAIN spans :
      pc[spans[n].key[2]] \in {"done", "stopped"} => Outcome(spans[n]) # "pending"

\* AdaptiveErrorPolicy "guarantees that genuine failure and recovery anomalies always
\* bypass the drop rate" (README.md:355).
AnomaliesAreKept ==
  policy.adaptive =>
    /\ phase = "failed" => Shipped("prompt.failed", None)
    /\ \A c \in Call : pc[c] = "erred" => Shipped("tool.failed", c)

\* tool_spans finds, in every snapshot the agent and clear() can leave, one span per
\* invocation, in order, each with the last word on it.
SpansMatchReference ==
  \A snapshot \in Snapshots : Spans(snapshot) = ReferenceSpans(snapshot)

\* tool_stats().pending counts the invocations without a terminal event, in a
\* snapshot where every terminal event has its invocation and none has two.
PendingIsCounted ==
  \A snapshot \in Snapshots :
    (/\ Orphans(snapshot) = {}
     /\ \A i \in DOMAIN snapshot : Cardinality(TerminalsOf(snapshot, i)) <= 1)
    => PendingCount(snapshot) = Cardinality(Unresolved(snapshot))

\* A consumer of any snapshot gets the spans and the pending count that the events
\* in it define.
RollupsMatchReference == SpansMatchReference /\ PendingIsCounted

\* "pending is the count of invocations with no matching terminal event in the
\* snapshot" (insights.rs:268), in every snapshot.
PendingIsCountedAlways ==
  \A snapshot \in Snapshots : PendingCount(snapshot) = Cardinality(Unresolved(snapshot))
=============================================================================
