--------------------------- MODULE AgentHooks_proofs ---------------------------
(***************************************************************************)
(* What the hooks of an agent tell of its prompt and tool calls, for any    *)
(* number of calls, any sampling policy and any buckets: their types, that  *)
(* sampling keeps pairs together and lets no anomaly go, and that the       *)
(* stream tells what the gates decided of a call.                           *)
(***************************************************************************)
EXTENDS AgentHooks, FiniteSetTheorems, FunctionTheorems, WellFoundedInduction, TLAPS

(***************************************************************************)
(* Types                                                                   *)
(***************************************************************************)

Entry == [kind : Kind, conversation : Conversation, call : Call \cup {None}]

Waiting == {"new", "gate", "tool", "erred", "result_gate"}

\* The kinds TelemetryHook and ChainedHook emit for the calls, and for the prompt.
ToolKind   == {"tool.invoked", "tool.completed", "tool.failed", "tool.skipped",
               "tool.terminated"}
PromptKind == {"prompt.started", "prompt.completed", "prompt.failed"}

LEMMA Kinds == ToolKind \subseteq Kind /\ PromptKind \subseteq Kind
  BY DEF ToolKind, PromptKind, Kind, InvokeKind, TerminalKind, CompletedKind

LEMMA ResolvedType == TypeOK => ResolvedConversation \in Conversation
  BY DEF TypeOK, ResolvedConversation

\* An event is appended, or none.
Extended(kinds) ==
  \/ log' = log
  \/ \E kind \in kinds, v \in Conversation, c \in Call \cup {None} : Emit(kind, v, c)

LEMMA LogType ==
  ASSUME log \in Seq(Entry), Extended(Kind)
  PROVE  log' \in Seq(Entry)
  <1>1. ASSUME NEW kind \in Kind, NEW v \in Conversation, NEW c \in Call \cup {None},
               Emit(kind, v, c)
        PROVE  log' \in Seq(Entry)
    <2>1. [kind |-> kind, conversation |-> v, call |-> c] \in Entry
      BY DEF Entry
    <2> QED
      BY <1>1, <2>1 DEF Emit
  <1> QED
    BY <1>1 DEF Extended

LEMMA Sampled ==
  ASSUME TypeOK, NEW kind \in Kind, NEW x, NEW c \in Call \cup {None}, Sample(kind, x, c)
  PROVE  Extended(Kind)
  BY ResolvedType DEF Sample, Extended

LEMMA Announced ==
  ASSUME TypeOK, NEW kind \in Kind, NEW c \in Call, Announce(c, kind)
  PROVE  Extended(Kind)
  BY DEF Announce, Extended, TypeOK

\* What a step of the prompt leaves alone.
LEMMA PromptTypes ==
  ASSUME TypeOK, NEW from,
         NEW to \in {"call_gate", "provider", "response", "response_gate", "tools",
                     "failing", "failed", "finished"},
         Prompt(from, to), Extended(Kind)
  PROVE  TypeOK'
  <1>1. log' \in Seq(Entry)
    BY LogType DEF TypeOK, Entry
  <1> QED
    BY <1>1 DEF Prompt, config, TypeOK, Entry

LEMMA ToolTypes ==
  ASSUME TypeOK, NEW c \in Call, NEW from, NEW to \in Waiting \cup Ended,
         Go(c, from, to), answers' \in [Call -> SUBSET Decision], Extended(Kind)
  PROVE  TypeOK'
  <1>1. log' \in Seq(Entry)
    BY LogType DEF TypeOK, Entry
  <1> QED
    BY <1>1 DEF Go, config, TypeOK, Entry, Waiting

LEMMA DropTypes ==
  ASSUME TypeOK, NEW to \in {"failing", "cancelled"}, phase' = to, Drop,
         UNCHANGED <<config, answers, log>>
  PROVE  TypeOK'
  BY DEF Drop, config, TypeOK, Ended

\* Where the second gate sends a call, and what the chain reports.
LEMMA GateAfterCases ==
  ASSUME NEW c \in Call, GateAfter(c)
  PROVE  \E d \in Decision :
           /\ answers' = [answers EXCEPT ![c] = @ \cup {d}]
           /\ \/ /\ Combined(answers[c] \cup {d}) = "continue"
                 /\ Go(c, "gate", "tool") /\ log' = log
              \/ /\ Combined(answers[c] \cup {d}) = "skip"
                 /\ Go(c, "gate", "done") /\ Announce(c, "tool.skipped")
              \/ /\ Combined(answers[c] \cup {d}) = "terminate"
                 /\ Go(c, "gate", "stopped") /\ Announce(c, "tool.terminated")
  BY DEF GateAfter

LEMMA InitTypes == Init => TypeOK
  <1> SUFFICES ASSUME Init PROVE TypeOK
    OBVIOUS
  <1>1. log = <<>> /\ pc = [c \in Call |-> "new"] /\ answers = [c \in Call |-> {}]
    BY DEF Init
  <1>2. <<>> \in Seq(Entry)
    OBVIOUS
  <1> QED
    BY <1>1, <1>2 DEF Init, TypeOK, Entry

LEMMA StepTypes ==
  ASSUME TypeOK, [Next]_vars
  PROVE  TypeOK'
  <1>1. CASE UNCHANGED vars
    BY <1>1 DEF vars, config, TypeOK
  <1>2. CASE PromptStep
    <2>1. ASSUME NEW from,
                 NEW to \in {"call_gate", "provider", "response", "response_gate",
                             "tools", "failing", "failed", "finished"},
                 Prompt(from, to),
                 log' = log \/ \E kind \in PromptKind : SamplePrompt(kind)
          PROVE  TypeOK'
      <3>1. Extended(Kind)
        BY <2>1, Kinds, Sampled DEF SamplePrompt, Extended
      <3> QED
        BY <2>1, <3>1, PromptTypes
    <2>2. CASE OnCompletionCall
      BY <2>1, <2>2 DEF OnCompletionCall, PromptKind
    <2>3. CASE ProviderAnswers
      BY <2>1, <2>3 DEF ProviderAnswers
    <2>4. CASE OnCompletionResponse
      BY <2>1, <2>4 DEF OnCompletionResponse, PromptKind
    <2>5. CASE GatesPass
      BY <2>1, <2>5 DEF GatesPass
    <2>6. CASE PromptBreaks
      BY <2>1, <2>6 DEF PromptBreaks
    <2>7. CASE ObservePromptError
      BY <2>1, <2>7 DEF ObservePromptError, PromptKind
    <2>8. CASE RoundFails \/ Cancel
      BY <2>8, DropTypes DEF RoundFails, Cancel
    <2>9. CASE RoundEnds
      BY <2>1, <2>9 DEF RoundEnds
    <2> QED
      BY <1>2, <2>2, <2>3, <2>4, <2>5, <2>6, <2>7, <2>8, <2>9 DEF PromptStep
  <1>3. ASSUME NEW c \in Call, ToolStep(c) PROVE TypeOK'
    <2>1. ASSUME NEW from, NEW to \in Waiting \cup Ended, Go(c, from, to),
                 answers' \in [Call -> SUBSET Decision],
                 \/ log' = log
                 \/ \E kind \in ToolKind : SampleTool(kind, c) \/ Announce(c, kind)
          PROVE  TypeOK'
      <3>1. Extended(Kind)
        BY <2>1, Kinds, Sampled, Announced DEF SampleTool, Extended
      <3> QED
        BY <2>1, <3>1, ToolTypes
    <2>2. CASE GateBefore(c)
      <3>1. PICK d \in Decision : /\ Go(c, "new", "gate")
                                  /\ answers' = [answers EXCEPT ![c] = {d}]
                                  /\ SampleTool("tool.invoked", c)
        BY <2>2 DEF GateBefore
      <3> QED
        BY <2>1, <3>1 DEF TypeOK, Waiting, ToolKind
    <2>3. CASE GateAfter(c)
      <3>1. answers' \in [Call -> SUBSET Decision]
        <4>1. PICK d \in Decision : answers' = [answers EXCEPT ![c] = @ \cup {d}]
          BY <2>3, GateAfterCases
        <4> QED
          BY <4>1 DEF TypeOK
      <3>2. PICK to \in {"tool", "done", "stopped"} :
              /\ Go(c, "gate", to)
              /\ log' = log \/ Announce(c, "tool.skipped") \/ Announce(c, "tool.terminated")
        BY <2>3, GateAfterCases
      <3> QED
        BY <2>1, <3>1, <3>2 DEF Waiting, Ended, ToolKind
    <2>4. CASE OnToolResult(c)
      BY <2>1, <2>4 DEF OnToolResult, TypeOK, Waiting, ToolKind
    <2>5. CASE ObserveToolError(c)
      BY <2>1, <2>5 DEF ObserveToolError, TypeOK, Waiting, ToolKind
    <2>6. CASE OnErrorResult(c)
      BY <2>1, <2>6 DEF OnErrorResult, TypeOK, Waiting, ToolKind
    <2>7. CASE ResultPasses(c) \/ ResultStops(c)
      BY <2>1, <2>7 DEF ResultPasses, ResultStops, TypeOK, Ended
    <2> QED
      BY <1>3, <2>2, <2>3, <2>4, <2>5, <2>6, <2>7 DEF ToolStep
  <1> QED
    BY <1>1, <1>2, <1>3 DEF Next

\* Every field keeps its type under every step.
THEOREM Typing == Spec => []TypeOK
  BY InitTypes, StepTypes, PTL DEF Spec

(***************************************************************************)
(* What the stream tells                                                   *)
(***************************************************************************)

\* What an appended event makes Shipped.
LEMMA EmitShips ==
  ASSUME TypeOK, NEW kind, NEW v, NEW c, Emit(kind, v, c)
  PROVE  \A k, x : Shipped(k, x)' <=> Shipped(k, x) \/ (k = kind /\ x = c)
  <1> DEFINE e == [kind |-> kind, conversation |-> v, call |-> c]
  <1>1. log' = Append(log, e) /\ e.kind = kind /\ e.call = c
    BY DEF Emit
  <1> HIDE DEF e
  <1>2. /\ Len(log) \in Nat
        /\ DOMAIN log = 1..Len(log)
        /\ DOMAIN log' = 1..(Len(log) + 1)
        /\ \A i \in 1..Len(log) : log'[i] = log[i]
        /\ log'[Len(log) + 1] = e
    BY <1>1 DEF TypeOK
  <1> QED
    BY <1>1, <1>2 DEF Shipped

LEMMA SilentShips ==
  ASSUME log' = log
  PROVE  \A k, x : Shipped(k, x)' <=> Shipped(k, x)
  BY DEF Shipped

LEMMA SampleShips ==
  ASSUME TypeOK, NEW kind, NEW x, NEW c, Sample(kind, x, c)
  PROVE  \A k, y : Shipped(k, y)' <=>
           Shipped(k, y) \/ (k = kind /\ y = c /\ ShouldSample(kind, x))
  BY EmitShips, SilentShips DEF Sample

LEMMA AnnounceShips ==
  ASSUME TypeOK, NEW kind, NEW c, Announce(c, kind)
  PROVE  \A k, y : Shipped(k, y)' <=>
           Shipped(k, y) \/ (k = kind /\ y = c /\ observed # None)
  BY EmitShips, SilentShips DEF Announce

\* The configuration of a run does not change, nor what it samples.
LEMMA ConfigStays ==
  ASSUME UNCHANGED config
  PROVE  /\ ResolvedConversation' = ResolvedConversation
         /\ \A k, x : ShouldSample(k, x)' <=> ShouldSample(k, x)
         /\ policy' = policy /\ observed' = observed
  BY DEF config, ResolvedConversation, ShouldSample, RateFor

Over(c) == pc[c] \in {"done", "stopped"}

\* What the gates have answered, by where the call is.
Answered(c) ==
  /\ pc[c] = "new" => answers[c] = {}
  /\ pc[c] = "gate" => \E d \in Decision : answers[c] = {d}
  /\ pc[c] \in {"tool", "erred", "result_gate"} => answers[c] = {"continue"}
  /\ Over(c) => answers[c] # {}

\* What the stream tells of a call, by where it is and what the gates answered.
CallInv(c) ==
  /\ Answered(c)
  /\ Shipped("tool.invoked", c) <=> answers[c] # {} /\ ShouldSample("tool.invoked", c)
  /\ Shipped("tool.completed", c) =>
       /\ answers[c] = {"continue"}
       /\ pc[c] \in {"result_gate", "done", "stopped", "dropped"}
       /\ ShouldSample("tool.completed", c)
  /\ pc[c] \in {"result_gate", "done", "stopped"} /\ answers[c] = {"continue"}
       /\ ShouldSample("tool.completed", c) => Shipped("tool.completed", c)
  /\ Shipped("tool.failed", c) =>
       /\ answers[c] = {"continue"}
       /\ pc[c] \in {"erred", "result_gate", "done", "stopped", "dropped"}
  /\ pc[c] = "erred" /\ ShouldSample("tool.failed", c) => Shipped("tool.failed", c)
  /\ observed # None =>
       /\ Shipped("tool.skipped", c) <=>
            Over(c) /\ "skip" \in answers[c] /\ "terminate" \notin answers[c]
       /\ Shipped("tool.terminated", c) <=> Over(c) /\ "terminate" \in answers[c]

\* What the stream tells of the prompt.
PromptInv ==
  /\ Shipped("prompt.started", None) <=>
       phase # "call" /\ ShouldSample("prompt.started", ResolvedConversation)
  /\ Shipped("prompt.completed", None) =>
       phase # "call" /\ ShouldSample("prompt.completed", ResolvedConversation)
  /\ phase = "failed" /\ ShouldSample("prompt.failed", ResolvedConversation) =>
       Shipped("prompt.failed", None)

TellInv == (\A c \in Call : CallInv(c)) /\ PromptInv

\* A step that tells nothing of a call, and does not touch it, keeps what is told of it.
LEMMA CallStays ==
  ASSUME NEW c \in Call, CallInv(c), UNCHANGED config,
         pc'[c] = pc[c] \/ (pc[c] \notin Ended /\ pc'[c] = "dropped"),
         answers'[c] = answers[c],
         \A k \in ToolKind : Shipped(k, c)' <=> Shipped(k, c)
  PROVE  CallInv(c)'
  <1>1. \A k, x : ShouldSample(k, x)' <=> ShouldSample(k, x)
    BY ConfigStays
  <1>2. /\ Shipped("tool.invoked", c)' <=> Shipped("tool.invoked", c)
        /\ Shipped("tool.completed", c)' <=> Shipped("tool.completed", c)
        /\ Shipped("tool.failed", c)' <=> Shipped("tool.failed", c)
        /\ Shipped("tool.skipped", c)' <=> Shipped("tool.skipped", c)
        /\ Shipped("tool.terminated", c)' <=> Shipped("tool.terminated", c)
    BY DEF ToolKind
  <1>3. observed' = observed
    BY DEF config
  <1> QED
    BY <1>1, <1>2, <1>3 DEF CallInv, Answered, Over, Ended

LEMMA PromptStays ==
  ASSUME PromptInv, UNCHANGED config,
         phase' = phase \/ (phase # "call" /\ phase' \notin {"call", "failed"}),
         \A k \in PromptKind : Shipped(k, None)' <=> Shipped(k, None)
  PROVE  PromptInv'
  <1>1. /\ ResolvedConversation' = ResolvedConversation
        /\ \A k, x : ShouldSample(k, x)' <=> ShouldSample(k, x)
    BY ConfigStays
  <1>2. /\ Shipped("prompt.started", None)' <=> Shipped("prompt.started", None)
        /\ Shipped("prompt.completed", None)' <=> Shipped("prompt.completed", None)
        /\ Shipped("prompt.failed", None)' <=> Shipped("prompt.failed", None)
    BY DEF PromptKind
  <1> QED
    BY <1>1, <1>2 DEF PromptInv

LEMMA InitTells == Init => TellInv
  <1> SUFFICES ASSUME Init PROVE TellInv
    OBVIOUS
  <1>1. log = <<>> /\ phase = "call" /\ \A c \in Call : pc[c] = "new" /\ answers[c] = {}
    BY DEF Init
  <1>2. \A k, x : ~Shipped(k, x)
    BY <1>1 DEF Shipped
  <1>3. \A c \in Call : CallInv(c)
    BY <1>1, <1>2 DEF CallInv, Answered, Over
  <1>4. PromptInv
    BY <1>1, <1>2 DEF PromptInv
  <1> QED
    BY <1>3, <1>4 DEF TellInv

LEMMA PromptTells ==
  ASSUME TypeOK, TellInv, PromptStep
  PROVE  TellInv'
  <1>1. UNCHANGED <<config, answers>>
    BY DEF PromptStep, OnCompletionCall, ProviderAnswers, OnCompletionResponse,
           GatesPass, PromptBreaks, ObservePromptError, RoundFails, RoundEnds, Cancel,
           Prompt
  <1>2. \A c \in Call : pc'[c] = pc[c] \/ (pc[c] \notin Ended /\ pc'[c] = "dropped")
    BY DEF PromptStep, OnCompletionCall, ProviderAnswers, OnCompletionResponse,
           GatesPass, PromptBreaks, ObservePromptError, RoundFails, RoundEnds, Cancel,
           Prompt, Drop
  <1>3. \A k \in ToolKind : \A x : Shipped(k, x)' <=> Shipped(k, x)
    <2>1. ASSUME NEW kind \in PromptKind, SamplePrompt(kind)
          PROVE  \A k \in ToolKind : \A x : Shipped(k, x)' <=> Shipped(k, x)
      <3>1. \A k \in ToolKind : k # kind
        BY DEF ToolKind, PromptKind
      <3>2. \A k, x : Shipped(k, x)' <=> Shipped(k, x) \/ (k = kind /\ x = None
                          /\ ShouldSample(kind, ResolvedConversation))
        BY <2>1, SampleShips DEF SamplePrompt
      <3> QED
        BY <3>1, <3>2
    <2>2. log' = log \/ \E kind \in PromptKind : SamplePrompt(kind)
      BY DEF PromptStep, OnCompletionCall, ProviderAnswers, OnCompletionResponse,
             GatesPass, PromptBreaks, ObservePromptError, RoundFails, RoundEnds, Cancel,
             PromptKind
    <2> QED
      BY <2>1, <2>2, SilentShips
  <1>4. \A c \in Call : CallInv(c)'
    BY <1>1, <1>2, <1>3, CallStays DEF TellInv
  <1>5. PromptInv'
    <2>1. /\ ResolvedConversation' = ResolvedConversation
          /\ \A k, x : ShouldSample(k, x)' <=> ShouldSample(k, x)
      BY <1>1, ConfigStays
    <2>2. ASSUME log' = log, phase # "call", phase' \notin {"call", "failed"}
          PROVE  PromptInv'
      BY <1>1, <2>2, SilentShips, PromptStays DEF TellInv
    <2>3. ASSUME NEW kind \in PromptKind, SamplePrompt(kind)
          PROVE  \A k : Shipped(k, None)' <=> Shipped(k, None) \/
                   (k = kind /\ ShouldSample(kind, ResolvedConversation))
      BY <2>3, SampleShips DEF SamplePrompt
    <2>4. CASE OnCompletionCall
      <3>1. /\ phase = "call" /\ phase' = "call_gate"
            /\ \A k : Shipped(k, None)' <=> Shipped(k, None) \/
                 (k = "prompt.started"
                    /\ ShouldSample("prompt.started", ResolvedConversation))
        BY <2>3, <2>4 DEF OnCompletionCall, Prompt, PromptKind
      <3> QED
        BY <2>1, <3>1 DEF TellInv, PromptInv
    <2>5. CASE OnCompletionResponse
      <3>1. /\ phase = "response" /\ phase' = "response_gate"
            /\ \A k : Shipped(k, None)' <=> Shipped(k, None) \/
                 (k = "prompt.completed"
                    /\ ShouldSample("prompt.completed", ResolvedConversation))
        BY <2>3, <2>5 DEF OnCompletionResponse, Prompt, PromptKind
      <3> QED
        BY <2>1, <3>1 DEF TellInv, PromptInv
    <2>6. CASE ObservePromptError
      <3>1. /\ phase = "failing" /\ phase' = "failed"
            /\ \A k : Shipped(k, None)' <=> Shipped(k, None) \/
                 (k = "prompt.failed"
                    /\ ShouldSample("prompt.failed", ResolvedConversation))
        BY <2>3, <2>6 DEF ObservePromptError, Prompt, PromptKind
      <3> QED
        BY <2>1, <3>1 DEF TellInv, PromptInv
    <2>7. CASE ProviderAnswers \/ GatesPass \/ PromptBreaks \/ RoundEnds
      BY <2>2, <2>7 DEF ProviderAnswers, GatesPass, PromptBreaks, RoundEnds, Prompt
    <2>8. CASE RoundFails \/ Cancel
      BY <2>2, <2>8 DEF RoundFails, Cancel
    <2> QED
      BY <2>4, <2>5, <2>6, <2>7, <2>8 DEF PromptStep
  <1> QED
    BY <1>4, <1>5 DEF TellInv

\* A step of one call tells nothing of the others, nor of the prompt.
LEMMA Elsewhere ==
  ASSUME TellInv, NEW c \in Call, UNCHANGED <<config, phase>>, CallInv(c)',
         \A b \in Call \ {c} : pc'[b] = pc[b] /\ answers'[b] = answers[b],
         \A k, x : k \in PromptKind \/ x # c => (Shipped(k, x)' <=> Shipped(k, x))
  PROVE  TellInv'
  <1>1. PromptInv'
    BY PromptStays DEF TellInv
  <1>2. ASSUME NEW b \in Call, b # c PROVE CallInv(b)'
    <2>1. \A k \in ToolKind : Shipped(k, b)' <=> Shipped(k, b)
      BY <1>2
    <2> QED
      BY <1>2, <2>1, CallStays DEF TellInv
  <1> QED
    BY <1>1, <1>2 DEF TellInv

\* What the telemetry hook may ship about a call.
LEMMA ToolShips ==
  ASSUME TypeOK, NEW c \in Call, NEW kind \in ToolKind, SampleTool(kind, c)
  PROVE  /\ \A k : Shipped(k, c)' <=>
              Shipped(k, c) \/ (k = kind /\ ShouldSample(kind, c))
         /\ \A k, x : k \in PromptKind \/ x # c => (Shipped(k, x)' <=> Shipped(k, x))
  <1>1. \A k, x : Shipped(k, x)' <=>
          Shipped(k, x) \/ (k = kind /\ x = c /\ ShouldSample(kind, c))
    BY SampleShips DEF SampleTool
  <1>2. kind \notin PromptKind
    BY DEF ToolKind, PromptKind
  <1> QED
    BY <1>1, <1>2

LEMMA ChainShips ==
  ASSUME TypeOK, NEW c \in Call, NEW kind \in ToolKind, Announce(c, kind)
  PROVE  /\ \A k : Shipped(k, c)' <=> Shipped(k, c) \/ (k = kind /\ observed # None)
         /\ \A k, x : k \in PromptKind \/ x # c => (Shipped(k, x)' <=> Shipped(k, x))
  <1>1. \A k, x : Shipped(k, x)' <=>
          Shipped(k, x) \/ (k = kind /\ x = c /\ observed # None)
    BY AnnounceShips
  <1>2. kind \notin PromptKind
    BY DEF ToolKind, PromptKind
  <1> QED
    BY <1>1, <1>2

\* The second gate's answer, joined with the first one's.
LEMMA Joined ==
  ASSUME NEW a \in Decision, NEW d \in Decision
  PROVE  LET as == {a} \cup {d} IN
         /\ Combined(as) = "terminate" <=> "terminate" \in as
         /\ Combined(as) = "skip" <=> "skip" \in as /\ "terminate" \notin as
         /\ Combined(as) = "continue" <=> as = {"continue"}
  BY DEF Combined, Decision

LEMMA CallTells ==
  ASSUME TypeOK, TellInv, NEW c \in Call, ToolStep(c)
  PROVE  TellInv'
  <1>1. /\ pc \in [Call -> Waiting \cup Ended] /\ answers \in [Call -> SUBSET Decision]
        /\ CallInv(c) /\ Answered(c)
    BY DEF TypeOK, Waiting, TellInv, CallInv
  <1>2. ASSUME NEW from, NEW to, Go(c, from, to)
        PROVE  /\ pc[c] = from /\ pc'[c] = to
               /\ \A b \in Call \ {c} : pc'[b] = pc[b]
               /\ UNCHANGED <<config, phase>>
               /\ \A k, x : ShouldSample(k, x)' <=> ShouldSample(k, x)
               /\ observed' = observed
    BY <1>1, <1>2, ConfigStays DEF Go
  <1>3. CASE GateBefore(c)
    <2>1. PICK d \in Decision : /\ Go(c, "new", "gate")
                                /\ answers' = [answers EXCEPT ![c] = {d}]
                                /\ SampleTool("tool.invoked", c)
      BY <1>3 DEF GateBefore
    <2>2. answers'[c] = {d} /\ \A b \in Call \ {c} : answers'[b] = answers[b]
      BY <1>1, <2>1
    <2>3. /\ pc[c] = "new" /\ pc'[c] = "gate"
          /\ \A b \in Call \ {c} : pc'[b] = pc[b]
          /\ UNCHANGED <<config, phase>>
          /\ \A k, x : ShouldSample(k, x)' <=> ShouldSample(k, x)
          /\ observed' = observed
      BY <1>2, <2>1
    <2>4. /\ \A k : Shipped(k, c)' <=>
               Shipped(k, c) \/ (k = "tool.invoked" /\ ShouldSample("tool.invoked", c))
          /\ \A k, x : k \in PromptKind \/ x # c => (Shipped(k, x)' <=> Shipped(k, x))
      BY <2>1, ToolShips DEF ToolKind
    <2>5. CallInv(c)'
      BY <1>1, <2>2, <2>3, <2>4 DEF CallInv, Answered, Over
    <2> QED
      BY <2>2, <2>3, <2>4, <2>5, Elsewhere
  <1>4. CASE GateAfter(c)
    <2>1. PICK d \in Decision :
            /\ answers' = [answers EXCEPT ![c] = @ \cup {d}]
            /\ \/ /\ Combined(answers[c] \cup {d}) = "continue"
                  /\ Go(c, "gate", "tool") /\ log' = log
               \/ /\ Combined(answers[c] \cup {d}) = "skip"
                  /\ Go(c, "gate", "done") /\ Announce(c, "tool.skipped")
               \/ /\ Combined(answers[c] \cup {d}) = "terminate"
                  /\ Go(c, "gate", "stopped") /\ Announce(c, "tool.terminated")
      BY <1>4, GateAfterCases
    <2>2. PICK to : Go(c, "gate", to)
      BY <2>1
    <2>3. /\ pc[c] = "gate" /\ pc'[c] = to
          /\ \A b \in Call \ {c} : pc'[b] = pc[b]
          /\ UNCHANGED <<config, phase>>
          /\ \A k, x : ShouldSample(k, x)' <=> ShouldSample(k, x)
          /\ observed' = observed
      BY <1>2, <2>2
    <2>4. PICK a \in Decision : answers[c] = {a}
      BY <1>1, <2>3 DEF Answered
    <2>5. /\ answers'[c] = {a} \cup {d}
          /\ \A b \in Call \ {c} : answers'[b] = answers[b]
      BY <1>1, <2>1, <2>4
    <2>6. CASE Combined({a} \cup {d}) = "continue" /\ Go(c, "gate", "tool") /\ log' = log
      <3>1. answers'[c] = {"continue"} /\ pc'[c] = "tool"
        BY <1>2, <2>5, <2>6, Joined
      <3>2. \A k, x : Shipped(k, x)' <=> Shipped(k, x)
        BY <2>6, SilentShips
      <3>3. CallInv(c)'
        BY <1>1, <2>3, <2>4, <3>1, <3>2 DEF CallInv, Answered, Over
      <3> QED
        BY <2>3, <2>5, <3>2, <3>3, Elsewhere
    <2>7. CASE /\ Combined({a} \cup {d}) = "skip"
               /\ Go(c, "gate", "done") /\ Announce(c, "tool.skipped")
      <3>1. /\ "skip" \in answers'[c] /\ "terminate" \notin answers'[c]
            /\ pc'[c] = "done"
        BY <1>2, <2>5, <2>7, Joined
      <3>2. /\ \A k : Shipped(k, c)' <=>
                 Shipped(k, c) \/ (k = "tool.skipped" /\ observed # None)
            /\ \A k, x : k \in PromptKind \/ x # c => (Shipped(k, x)' <=> Shipped(k, x))
        BY <2>7, ChainShips DEF ToolKind
      <3>3. answers'[c] # {} /\ answers'[c] # {"continue"} /\ answers[c] # {}
        BY <2>4, <3>1
      <3>4. CallInv(c)'
        BY <1>1, <2>3, <3>1, <3>2, <3>3 DEF CallInv, Answered, Over
      <3> QED
        BY <2>3, <2>5, <3>2, <3>4, Elsewhere
    <2>8. CASE /\ Combined({a} \cup {d}) = "terminate"
               /\ Go(c, "gate", "stopped") /\ Announce(c, "tool.terminated")
      <3>1. "terminate" \in answers'[c] /\ pc'[c] = "stopped"
        BY <1>2, <2>5, <2>8, Joined
      <3>2. /\ \A k : Shipped(k, c)' <=>
                 Shipped(k, c) \/ (k = "tool.terminated" /\ observed # None)
            /\ \A k, x : k \in PromptKind \/ x # c => (Shipped(k, x)' <=> Shipped(k, x))
        BY <2>8, ChainShips DEF ToolKind
      <3>3. answers'[c] # {} /\ answers'[c] # {"continue"} /\ answers[c] # {}
        BY <2>4, <3>1
      <3>4. CallInv(c)'
        BY <1>1, <2>3, <3>1, <3>2, <3>3 DEF CallInv, Answered, Over
      <3> QED
        BY <2>3, <2>5, <3>2, <3>4, Elsewhere
    <2> QED
      BY <2>1, <2>4, <2>6, <2>7, <2>8
  <1>5. ASSUME NEW from \in {"tool", "erred"}, NEW to \in {"erred", "result_gate"},
               Go(c, from, to), answers' = answers,
               NEW kind \in {"tool.failed", "tool.completed"}, SampleTool(kind, c),
               to = "erred" => from = "tool" /\ kind = "tool.failed",
               to = "result_gate" => kind = "tool.completed"
        PROVE  TellInv'
    <2>1. /\ pc[c] = from /\ pc'[c] = to
          /\ \A b \in Call \ {c} : pc'[b] = pc[b]
          /\ UNCHANGED <<config, phase>>
          /\ \A k, x : ShouldSample(k, x)' <=> ShouldSample(k, x)
          /\ observed' = observed
      BY <1>2, <1>5
    <2>2. /\ \A k : Shipped(k, c)' <=> Shipped(k, c) \/ (k = kind /\ ShouldSample(kind, c))
          /\ \A k, x : k \in PromptKind \/ x # c => (Shipped(k, x)' <=> Shipped(k, x))
      BY <1>5, ToolShips DEF ToolKind
    <2>3. answers[c] = {"continue"}
      BY <1>1, <2>1 DEF Answered
    <2>4. CallInv(c)'
      BY <1>1, <1>5, <2>1, <2>2, <2>3 DEF CallInv, Answered, Over
    <2> QED
      BY <1>5, <2>1, <2>2, <2>4, Elsewhere
  <1>6. CASE OnToolResult(c)
    BY <1>5, <1>6 DEF OnToolResult
  <1>7. CASE ObserveToolError(c)
    BY <1>5, <1>7 DEF ObserveToolError
  <1>8. CASE OnErrorResult(c)
    BY <1>5, <1>8 DEF OnErrorResult
  <1>9. CASE ResultPasses(c) \/ ResultStops(c)
    <2>1. PICK to \in {"done", "stopped"} : Go(c, "result_gate", to)
      BY <1>9 DEF ResultPasses, ResultStops
    <2>2. answers' = answers /\ \A k, x : Shipped(k, x)' <=> Shipped(k, x)
      BY <1>9, SilentShips DEF ResultPasses, ResultStops
    <2>3. /\ pc[c] = "result_gate" /\ pc'[c] = to
          /\ \A b \in Call \ {c} : pc'[b] = pc[b]
          /\ UNCHANGED <<config, phase>>
          /\ \A k, x : ShouldSample(k, x)' <=> ShouldSample(k, x)
          /\ observed' = observed
      BY <1>2, <2>1
    <2>4. answers[c] = {"continue"}
      BY <1>1, <2>3 DEF Answered
    <2>5. CallInv(c)'
      BY <1>1, <2>2, <2>3, <2>4 DEF CallInv, Answered, Over
    <2> QED
      BY <2>2, <2>3, <2>5, Elsewhere
  <1> QED
    BY <1>3, <1>4, <1>6, <1>7, <1>8, <1>9 DEF ToolStep

LEMMA TellInvariant == Spec => []TellInv
  <1>1. TypeOK /\ TellInv /\ [Next]_vars => TellInv'
    <2> SUFFICES ASSUME TypeOK, TellInv, UNCHANGED vars PROVE TellInv'
      BY PromptTells, CallTells DEF Next
    <2>1. UNCHANGED <<config, phase, pc, answers, log>>
      BY DEF vars
    <2>2. \A k, x : Shipped(k, x)' <=> Shipped(k, x)
      BY <2>1, SilentShips
    <2>3. \A c \in Call : CallInv(c)'
      BY <2>1, <2>2, CallStays DEF TellInv
    <2>4. PromptInv'
      <3>1. /\ ResolvedConversation' = ResolvedConversation
            /\ \A k, x : ShouldSample(k, x)' <=> ShouldSample(k, x)
        BY <2>1, ConfigStays
      <3> QED
        BY <2>1, <2>2, <3>1 DEF TellInv, PromptInv
    <2> QED
      BY <2>3, <2>4 DEF TellInv
  <1> QED
    BY <1>1, InitTells, Typing, PTL DEF Spec

(***************************************************************************)
(* What follows                                                            *)
(***************************************************************************)

\* A kind with a greater share keeps whatever one with a smaller share keeps.
LEMMA SharesCompare ==
  ASSUME TypeOK, NEW k \in Kind, NEW m \in Kind, Share(k) <= Share(m),
         NEW x \in Call \cup Conversation, ShouldSample(k, x)
  PROVE  ShouldSample(m, x)
  <1>1. Buckets \in Nat
    BY BucketsAssumption
  <1>2. bucket[x] \in 0..(Buckets - 1)
    BY DEF TypeOK
  <1>3. \A j \in Kind : RateFor(j) \in Int
    <2>1. PolicyType(policy)
      BY PoliciesAssumption DEF TypeOK
    <2> QED
      BY <1>1, <2>1 DEF RateFor, ClampUnit, PolicyType
  <1>4. bucket[x] < Share(k)
    BY <1>1, <1>2 DEF ShouldSample, Share
  <1>5. bucket[x] < Share(m)
    BY <1>1, <1>2, <1>3, <1>4 DEF Share
  <1> QED
    BY <1>5 DEF ShouldSample, Share

\* A pair of events ships together or not at all, for equal rates; otherwise the
\* kind with the lower rate never ships alone.
THEOREM PairsCohere == Spec => []PairsStayCoherent
  <1>1. TypeOK /\ TellInv => PairsStayCoherent
    <2> SUFFICES ASSUME TypeOK, TellInv PROVE PairsStayCoherent
      OBVIOUS
    <2>1. /\ "tool.completed" \in Kind /\ "tool.invoked" \in Kind
          /\ "prompt.completed" \in Kind /\ "prompt.started" \in Kind
      BY Kinds DEF ToolKind, PromptKind
    <2>2. ASSUME Share("tool.completed") <= Share("tool.invoked"), NEW c \in Call,
                 Shipped("tool.completed", c)
          PROVE  Shipped("tool.invoked", c)
      <3>1. answers[c] # {} /\ ShouldSample("tool.completed", c)
        BY <2>2 DEF TellInv, CallInv
      <3>2. ShouldSample("tool.invoked", c)
        BY <2>1, <2>2, <3>1, SharesCompare
      <3> QED
        BY <3>1, <3>2 DEF TellInv, CallInv
    <2>3. ASSUME Share("tool.invoked") <= Share("tool.completed"), NEW c \in Call,
                 Shipped("tool.invoked", c), pc[c] \in {"done", "stopped"},
                 answers[c] = {"continue"}
          PROVE  Shipped("tool.completed", c)
      <3>1. ShouldSample("tool.invoked", c)
        BY <2>3 DEF TellInv, CallInv
      <3>2. ShouldSample("tool.completed", c)
        BY <2>1, <2>3, <3>1, SharesCompare
      <3> QED
        BY <2>3, <3>2 DEF TellInv, CallInv
    <2>4. ASSUME Share("prompt.completed") <= Share("prompt.started"),
                 Shipped("prompt.completed", None)
          PROVE  Shipped("prompt.started", None)
      <3>1. phase # "call" /\ ShouldSample("prompt.completed", ResolvedConversation)
        BY <2>4 DEF TellInv, PromptInv
      <3>2. ShouldSample("prompt.started", ResolvedConversation)
        BY <2>1, <2>4, <3>1, ResolvedType, SharesCompare
      <3> QED
        BY <3>1, <3>2 DEF TellInv, PromptInv
    <2> QED
      BY <2>2, <2>3, <2>4 DEF PairsStayCoherent
  <1> QED
    BY <1>1, Typing, TellInvariant, PTL

\* The stream says of a stopped call what the strongest of the gates decided, its
\* tool did not run, and the telemetry hook has seen the call.
THEOREM StopsAreReported == Spec => []StoppedCallsAreReported
  <1>1. TellInv => StoppedCallsAreReported
    <2> SUFFICES ASSUME TellInv, observed # None, NEW c \in Call
                 PROVE  LET over       == pc[c] \in {"done", "stopped"}
                            terminated == over /\ "terminate" \in answers[c]
                            skipped    == over /\ "skip" \in answers[c] /\ ~terminated
                        IN  /\ Shipped("tool.skipped", c) <=> skipped
                            /\ Shipped("tool.terminated", c) <=> terminated
                            /\ skipped \/ terminated =>
                                 /\ ~Shipped("tool.completed", c)
                                 /\ ~Shipped("tool.failed", c)
                                 /\ ShouldSample("tool.invoked", c) =>
                                      Shipped("tool.invoked", c)
      BY DEF StoppedCallsAreReported
    <2>1. CallInv(c)
      BY DEF TellInv
    <2> QED
      BY <2>1 DEF CallInv, Over
  <1> QED
    BY <1>1, TellInvariant, PTL

\* The adaptive policy ships every failure, whatever the rates.
THEOREM AnomaliesShip == Spec => []AnomaliesAreKept
  <1>1. TellInv => AnomaliesAreKept
    BY DEF TellInv, CallInv, PromptInv, AnomaliesAreKept, ShouldSample, AlwaysKeep
  <1> QED
    BY <1>1, TellInvariant, PTL

(***************************************************************************)
(* Tool spans: what the one pass of Spans finds, for any events             *)
(***************************************************************************)

\* Any set of numbers has a least one.
LEMMA Least ==
  ASSUME NEW T, T \subseteq Nat, T # {}
  PROVE  \E x \in T : \A y \in T : x <= y
  <1> DEFINE R == OpToRel(<, Nat)
  <1>1. IsWellFoundedOn(R, Nat)
    BY NatLessThanWellFounded
  <1>2. \A x, y \in Nat : x < y => <<x, y>> \in R
    BY DEF OpToRel
  <1> HIDE DEF R
  <1>3. PICK x \in T : \A y \in T : ~(<<y, x>> \in R)
    BY <1>1, WFMin
  <1>4. ASSUME NEW y \in T PROVE x <= y
    <2>1. x \in Nat /\ y \in Nat
      OBVIOUS
    <2>2. ~(y < x)
      BY <1>2, <1>3, <2>1
    <2> QED
      BY <2>1, <2>2
  <1> QED
    BY <1>4

\* What the pass has after each event.
IsPass(f, E, m) ==
  f = [n \in 0..m |-> IF n = 0 THEN NoSpans ELSE TakeUp(f[n - 1], E[n])]

Pass(E) == CHOOSE f : IsPass(f, E, Len(E))

LEMMA PassExists ==
  ASSUME NEW E, NEW m \in Nat
  PROVE  \E f : IsPass(f, E, m)
  <1> DEFINE T == {n \in Nat : ~ \E f : IsPass(f, E, n)}
  <1>1. SUFFICES ASSUME T # {} PROVE FALSE
    OBVIOUS
  <1>2. PICK n \in T : \A k \in T : n <= k
    <2>1. T \subseteq Nat
      OBVIOUS
    <2> HIDE DEF T
    <2> QED
      BY <1>1, <2>1, Least
  <1>3. n \in Nat /\ ~ \E f : IsPass(f, E, n)
    OBVIOUS
  <1>4. CASE n = 0
    <2> DEFINE f == [k \in 0..0 |-> NoSpans]
    <2>1. IsPass(f, E, 0)
      BY DEF IsPass
    <2> QED
      BY <1>3, <1>4, <2>1
  <1>5. CASE n # 0
    <2>1. n - 1 \in Nat /\ n - 1 \notin T
      <3> HIDE DEF T
      <3> QED
        BY <1>2, <1>3, <1>5
    <2>2. PICK f : IsPass(f, E, n - 1)
      BY <2>1
    <2> DEFINE g == [k \in 0..n |-> IF k = n THEN TakeUp(f[n - 1], E[n]) ELSE f[k]]
               h == [k \in 0..n |-> IF k = 0 THEN NoSpans ELSE TakeUp(g[k - 1], E[k])]
    <2>3. ASSUME NEW k \in 0..n PROVE g[k] = h[k]
      <3>1. CASE k = n
        BY <1>3, <1>5, <3>1
      <3>2. CASE k # n
        <4>1. k \in 0..(n - 1) /\ g[k] = f[k]
          BY <1>3, <3>2
        <4>2. f[k] = IF k = 0 THEN NoSpans ELSE TakeUp(f[k - 1], E[k])
          BY <2>2, <4>1 DEF IsPass
        <4>3. k # 0 => g[k - 1] = f[k - 1]
          BY <1>3, <3>2
        <4> QED
          BY <4>1, <4>2, <4>3
      <3> QED
        BY <3>1, <3>2
    <2>4. g = h
      <3>1. DOMAIN g = 0..n /\ DOMAIN h = 0..n
        OBVIOUS
      <3>2. g = [k \in DOMAIN g |-> g[k]] /\ h = [k \in DOMAIN h |-> h[k]]
        OBVIOUS
      <3> HIDE DEF g, h
      <3> QED
        BY <2>3, <3>1, <3>2
    <2>5. IsPass(g, E, n)
      BY <2>4 DEF IsPass
    <2> QED
      BY <1>3, <2>5
  <1> QED
    BY <1>4, <1>5

LEMMA PassSteps ==
  ASSUME NEW E, Len(E) \in Nat
  PROVE  /\ Pass(E)[0] = NoSpans
         /\ \A n \in 1..Len(E) : Pass(E)[n] = TakeUp(Pass(E)[n - 1], E[n])
         /\ Spans(E) = Pass(E)[Len(E)].spans
  <1>1. IsPass(Pass(E), E, Len(E))
    BY PassExists DEF Pass
  <1>2. Spans(E) = Pass(E)[Len(E)].spans
    BY DEF Spans, Pass, IsPass
  <1> HIDE DEF Pass
  <1>3. Pass(E)[0] = NoSpans
    BY <1>1 DEF IsPass
  <1>4. ASSUME NEW n \in 1..Len(E)
        PROVE  Pass(E)[n] = TakeUp(Pass(E)[n - 1], E[n])
    <2>1. n \in 0..Len(E) /\ n # 0
      OBVIOUS
    <2> QED
      BY <1>1, <2>1 DEF IsPass
  <1> QED
    BY <1>2, <1>3, <1>4

\* Invocations up to a position, and what counts as the end of one so far.
UpTo(E, n) == {i \in Invocations(E) : i <= n}

LEMMA Numbers ==
  ASSUME NEW E, Len(E) \in Nat, DOMAIN E = 1..Len(E)
  PROVE  /\ IsFiniteSet(Invocations(E))
         /\ \A n \in 0..Len(E) : /\ IsFiniteSet(UpTo(E, n)) /\ Cardinality(UpTo(E, n)) \in Nat
                                 /\ Cardinality(UpTo(E, n)) = Number(E, n)
         /\ UpTo(E, 0) = {} /\ Number(E, 0) = 0
         /\ UpTo(E, Len(E)) = Invocations(E)
         /\ \A n \in 1..Len(E) :
              IF n \in Invocations(E)
                THEN UpTo(E, n) = UpTo(E, n - 1) \cup {n} /\ Number(E, n) = Number(E, n - 1) + 1
                ELSE UpTo(E, n) = UpTo(E, n - 1) /\ Number(E, n) = Number(E, n - 1)
  <1>1. Invocations(E) \subseteq 1..Len(E)
    BY DEF Invocations
  <1>2. IsFiniteSet(Invocations(E))
    <2>1. IsFiniteSet(1..Len(E))
      BY FS_Interval
    <2> QED
      BY <1>1, <2>1, FS_Subset
  <1>3. \A n \in 0..Len(E) : /\ IsFiniteSet(UpTo(E, n)) /\ Cardinality(UpTo(E, n)) \in Nat
                             /\ Cardinality(UpTo(E, n)) = Number(E, n)
    BY <1>2, FS_Subset, FS_CardinalityType DEF UpTo, Number
  <1>4. UpTo(E, 0) = {} /\ UpTo(E, Len(E)) = Invocations(E)
    BY <1>1 DEF UpTo
  <1>5. Number(E, 0) = 0
    BY <1>3, <1>4, FS_EmptySet
  <1>6. ASSUME NEW n \in 1..Len(E)
        PROVE  IF n \in Invocations(E)
                 THEN UpTo(E, n) = UpTo(E, n - 1) \cup {n} /\ Number(E, n) = Number(E, n - 1) + 1
                 ELSE UpTo(E, n) = UpTo(E, n - 1) /\ Number(E, n) = Number(E, n - 1)
    <2>1. n - 1 \in 0..Len(E) /\ n \in 0..Len(E)
      OBVIOUS
    <2>2. UpTo(E, n) = IF n \in Invocations(E) THEN UpTo(E, n - 1) \cup {n} ELSE UpTo(E, n - 1)
      BY <1>1 DEF UpTo
    <2>3. n \notin UpTo(E, n - 1)
      BY <1>1 DEF UpTo
    <2>4. Cardinality(UpTo(E, n - 1) \cup {n}) = Cardinality(UpTo(E, n - 1)) + 1
      BY <1>3, <2>1, <2>3, FS_AddElement
    <2> QED
      BY <1>3, <2>1, <2>2, <2>4
  <1> QED
    BY <1>2, <1>3, <1>4, <1>5, <1>6

\* A later invocation has a higher number.
LEMMA Ascending ==
  ASSUME NEW E, Len(E) \in Nat, DOMAIN E = 1..Len(E),
         NEW i \in Invocations(E), NEW j \in Invocations(E), i < j
  PROVE  Number(E, i) < Number(E, j)
  <1>1. i \in 1..Len(E) /\ j \in 1..Len(E) /\ i \in 0..Len(E) /\ j \in 0..Len(E)
        /\ j - 1 \in 0..Len(E)
    BY DEF Invocations
  <1>2. Number(E, j) = Number(E, j - 1) + 1 /\ Number(E, j - 1) \in Nat /\ Number(E, i) \in Nat
    BY <1>1, Numbers
  <1>3. UpTo(E, i) \in SUBSET UpTo(E, j - 1)
    <2>1. ASSUME NEW k \in UpTo(E, i) PROVE k \in UpTo(E, j - 1)
      <3>1. k \in Invocations(E) /\ k <= i /\ k \in 1..Len(E)
        BY DEF UpTo, Invocations
      <3>2. k <= j - 1
        BY <1>1, <3>1
      <3> QED
        BY <3>1, <3>2 DEF UpTo
    <2> QED
      BY <2>1
  <1>4. Number(E, i) <= Number(E, j - 1)
    BY <1>1, <1>3, Numbers, FS_Subset
  <1> QED
    BY <1>2, <1>4

\* The terminal events of an invocation among the first n events, and its ends by then.
TermsUpTo(E, i, n) == {j \in TerminalsOf(E, i) : j <= n}

EndsUpTo(E, i, n) ==
  IF TermsUpTo(E, i, n) = {} THEN <<E[i]>>
  ELSE <<E[i], E[CHOOSE j \in TermsUpTo(E, i, n) : \A k \in TermsUpTo(E, i, n) : k <= j]>>

\* An event that is no terminal event of an invocation changes nothing of its ends, and
\* one that is becomes its end.
LEMMA EndsMove ==
  ASSUME NEW E, Len(E) \in Nat, DOMAIN E = 1..Len(E),
         NEW n \in 1..Len(E), NEW i \in Invocations(E)
  PROVE  /\ n \notin TerminalsOf(E, i) => EndsUpTo(E, i, n) = EndsUpTo(E, i, n - 1)
         /\ n \in TerminalsOf(E, i) => EndsUpTo(E, i, n) = <<E[i], E[n]>>
         /\ EndsUpTo(E, i, n - 1)[1] = E[i]
         /\ n <= i => EndsUpTo(E, i, n) = <<E[i]>>
  <1>1. i \in Nat /\ TerminalsOf(E, i) \subseteq Nat /\ \A j \in TerminalsOf(E, i) : i < j
    <2>1. i \in Nat
      BY DEF Invocations
    <2> QED
      BY <2>1 DEF TerminalsOf
  <1>2. ASSUME n \notin TerminalsOf(E, i) PROVE EndsUpTo(E, i, n) = EndsUpTo(E, i, n - 1)
    <2>1. TermsUpTo(E, i, n) = TermsUpTo(E, i, n - 1)
      BY <1>1, <1>2 DEF TermsUpTo
    <2> QED
      BY <2>1 DEF EndsUpTo
  <1>3. ASSUME n \in TerminalsOf(E, i) PROVE EndsUpTo(E, i, n) = <<E[i], E[n]>>
    <2> DEFINE js   == TermsUpTo(E, i, n)
               last == CHOOSE j \in js : \A k \in js : k <= j
    <2>1. n \in js /\ \A k \in js : k \in Nat /\ k <= n
      BY <1>1, <1>3 DEF TermsUpTo
    <2>2. EndsUpTo(E, i, n) = <<E[i], E[last]>>
      BY <2>1 DEF EndsUpTo
    <2> HIDE DEF js
    <2>3. last \in js /\ \A k \in js : k <= last
      BY <2>1
    <2> HIDE DEF last
    <2>4. last = n
      BY <2>1, <2>3
    <2> QED
      BY <2>2, <2>4
  <1>4. EndsUpTo(E, i, n - 1)[1] = E[i]
    BY DEF EndsUpTo
  <1>5. ASSUME n <= i PROVE EndsUpTo(E, i, n) = <<E[i]>>
    <2>1. TermsUpTo(E, i, n) = {}
      BY <1>1, <1>5 DEF TermsUpTo
    <2> QED
      BY <2>1 DEF EndsUpTo
  <1> QED
    BY <1>2, <1>3, <1>4, <1>5

\* The spans after n events: one per invocation so far, under its number.
SpansAre(E, spans, n) ==
  /\ DOMAIN spans = 1..Number(E, n)
  /\ \A i \in UpTo(E, n) :
       /\ Number(E, i) \in DOMAIN spans
       /\ spans[Number(E, i)] = [key |-> Key(E[i]), ends |-> EndsUpTo(E, i, n)]
  /\ \A m \in DOMAIN spans : \E i \in UpTo(E, n) : m = Number(E, i)

\* The index leads to the last span of each key.
IndexIs(E, index, n) ==
  /\ \A i \in UpTo(E, n) : Key(E[i]) \in DOMAIN index
  /\ \A k \in DOMAIN index : \E i \in UpTo(E, n) :
       /\ Key(E[i]) = k /\ index[k] = Number(E, i)
       /\ \A j \in UpTo(E, n) : Key(E[j]) = k => j <= i

SpanSet(T) == [key : {Key(e) : e \in T}, ends : Seq(T)]

AccIs(T, E, acc, n) ==
  /\ acc = [spans |-> acc.spans, index |-> acc.index]
  /\ acc.spans \in Seq(SpanSet(T))
  /\ SpansAre(E, acc.spans, n)
  /\ IndexIs(E, acc.index, n)

LEMMA OpenStep ==
  ASSUME NEW T, NEW E \in Seq(T), NEW n \in 1..Len(E), NEW acc, AccIs(T, E, acc, n - 1),
         E[n].kind \in InvokeKind
  PROVE  AccIs(T, E, OpenSpan(acc, E[n]), n)
  <1> DEFINE e     == E[n]
             span  == [key |-> Key(e), ends |-> <<e>>]
             new   == OpenSpan(acc, e)
             spans == acc.spans
             index == acc.index
  <1>1. Len(E) \in Nat /\ DOMAIN E = 1..Len(E) /\ e \in T
    OBVIOUS
  <1>2. n \in Invocations(E)
    BY <1>1 DEF Invocations
  <1>3. /\ UpTo(E, n) = UpTo(E, n - 1) \cup {n}
        /\ Number(E, n) = Number(E, n - 1) + 1 /\ Number(E, n - 1) \in Nat
    <2>1. n - 1 \in 0..Len(E)
      BY <1>1
    <2> QED
      BY <1>1, <1>2, <2>1, Numbers
  <1>4. /\ spans \in Seq(SpanSet(T)) /\ DOMAIN spans = 1..Number(E, n - 1)
        /\ Len(spans) = Number(E, n - 1)
    BY <1>3 DEF AccIs, SpansAre
  <1>5. span \in SpanSet(T)
    BY <1>1 DEF SpanSet
  <1>6. /\ new.spans = Append(spans, span)
        /\ new.index = [k \in DOMAIN index \cup {Key(e)} |->
                          IF k = Key(e) THEN Len(spans) + 1 ELSE index[k]]
        /\ new = [spans |-> new.spans, index |-> new.index]
    BY DEF OpenSpan
  <1>7. \A i \in UpTo(E, n - 1) : i \in Invocations(E) /\ i < n /\ i \in Nat
    BY <1>1 DEF UpTo, Invocations
  <1>8. \A i \in Invocations(E) : n \notin TerminalsOf(E, i)
    BY DEF TerminalsOf, InvokeKind, TerminalKind, CompletedKind
  <1> HIDE DEF span, new, spans, index, e
  <1>9. /\ new.spans \in Seq(SpanSet(T)) /\ DOMAIN new.spans = 1..Number(E, n)
        /\ new.spans[Number(E, n)] = span
        /\ \A m \in DOMAIN spans : m \in DOMAIN new.spans /\ new.spans[m] = spans[m]
    BY <1>3, <1>4, <1>5, <1>6
  <1>10. SpansAre(E, new.spans, n)
    <2>1. ASSUME NEW i \in UpTo(E, n)
          PROVE  /\ Number(E, i) \in DOMAIN new.spans
                 /\ new.spans[Number(E, i)] = [key |-> Key(E[i]), ends |-> EndsUpTo(E, i, n)]
      <3>1. CASE i = n
        <4>1. EndsUpTo(E, n, n) = <<E[n]>>
          BY <1>1, <1>2, EndsMove
        <4>2. Number(E, n) \in DOMAIN new.spans
          BY <1>3, <1>9
        <4> QED
          BY <1>9, <3>1, <4>1, <4>2 DEF span, e
      <3>2. CASE i # n
        <4>1. i \in UpTo(E, n - 1)
          BY <1>3, <3>2
        <4>2. /\ Number(E, i) \in DOMAIN spans
              /\ spans[Number(E, i)] = [key |-> Key(E[i]), ends |-> EndsUpTo(E, i, n - 1)]
          BY <4>1 DEF AccIs, SpansAre, spans
        <4>3. EndsUpTo(E, i, n) = EndsUpTo(E, i, n - 1)
          BY <1>1, <1>7, <1>8, <4>1, EndsMove
        <4> QED
          BY <1>9, <4>2, <4>3
      <3> QED
        BY <3>1, <3>2
    <2>2. ASSUME NEW m \in DOMAIN new.spans
          PROVE  \E i \in UpTo(E, n) : m = Number(E, i)
      <3>1. CASE m = Number(E, n)
        BY <1>3, <3>1
      <3>2. CASE m # Number(E, n)
        <4>1. m \in DOMAIN spans
          BY <1>3, <1>4, <1>9, <3>2
        <4>2. PICK i \in UpTo(E, n - 1) : m = Number(E, i)
          BY <4>1 DEF AccIs, SpansAre, spans
        <4> QED
          BY <1>3, <4>2
      <3> QED
        BY <3>1, <3>2
    <2> QED
      BY <1>9, <2>1, <2>2 DEF SpansAre
  <1>11. IndexIs(E, new.index, n)
    <2>1. ASSUME NEW i \in UpTo(E, n) PROVE Key(E[i]) \in DOMAIN new.index
      <3>1. i = n => Key(E[i]) = Key(e)
        BY DEF e
      <3>2. i # n => Key(E[i]) \in DOMAIN index
        BY <1>3 DEF AccIs, IndexIs, index
      <3> QED
        BY <1>6, <3>1, <3>2
    <2>2. ASSUME NEW k \in DOMAIN new.index
          PROVE  \E i \in UpTo(E, n) :
                   /\ Key(E[i]) = k /\ new.index[k] = Number(E, i)
                   /\ \A j \in UpTo(E, n) : Key(E[j]) = k => j <= i
      <3>1. CASE k = Key(e)
        <4>1. new.index[k] = Number(E, n)
          BY <1>3, <1>4, <1>6, <3>1
        <4>2. \A j \in UpTo(E, n) : j <= n
          BY DEF UpTo
        <4> QED
          BY <1>3, <3>1, <4>1, <4>2 DEF e
      <3>2. CASE k # Key(e)
        <4>1. k \in DOMAIN index /\ new.index[k] = index[k]
          BY <1>6, <3>2
        <4>2. PICK i \in UpTo(E, n - 1) :
                /\ Key(E[i]) = k /\ index[k] = Number(E, i)
                /\ \A j \in UpTo(E, n - 1) : Key(E[j]) = k => j <= i
          BY <4>1 DEF AccIs, IndexIs, index
        <4>3. \A j \in UpTo(E, n) : Key(E[j]) = k => j \in UpTo(E, n - 1)
          BY <1>3, <3>2 DEF e
        <4> QED
          BY <1>3, <4>1, <4>2, <4>3
      <3> QED
        BY <3>1, <3>2
    <2> QED
      BY <2>1, <2>2 DEF IndexIs
  <1> QED
    BY <1>6, <1>9, <1>10, <1>11 DEF AccIs, new, e

\* Nothing is opened or closed: the event is of no invocation seen so far.
LEMMA PassOver ==
  ASSUME NEW T, NEW E \in Seq(T), NEW n \in 1..Len(E), NEW acc, AccIs(T, E, acc, n - 1),
         ~(E[n].kind \in InvokeKind),
         \A i \in UpTo(E, n - 1) : n \notin TerminalsOf(E, i)
  PROVE  AccIs(T, E, acc, n)
  <1>1. Len(E) \in Nat /\ DOMAIN E = 1..Len(E)
    OBVIOUS
  <1>2. UpTo(E, n) = UpTo(E, n - 1) /\ Number(E, n) = Number(E, n - 1)
    <2>1. n \notin Invocations(E)
      BY DEF Invocations
    <2> QED
      BY <1>1, <2>1, Numbers
  <1>3. \A i \in UpTo(E, n) : EndsUpTo(E, i, n) = EndsUpTo(E, i, n - 1)
    <2>1. \A i \in UpTo(E, n) : i \in Invocations(E)
      BY DEF UpTo
    <2> QED
      BY <1>1, <1>2, <2>1, EndsMove
  <1>4. SpansAre(E, acc.spans, n)
    <2>1. SpansAre(E, acc.spans, n - 1)
      BY DEF AccIs
    <2> QED
      BY <1>2, <1>3, <2>1 DEF SpansAre
  <1>5. IndexIs(E, acc.index, n)
    BY <1>2 DEF AccIs, IndexIs
  <1> QED
    BY <1>4, <1>5 DEF AccIs

\* A terminal event closes the span the index leads to: that of the last invocation of
\* its key, the only one it is a terminal event of.
LEMMA CloseStep ==
  ASSUME NEW T, NEW E \in Seq(T), NEW n \in 1..Len(E), NEW acc, AccIs(T, E, acc, n - 1),
         E[n].kind \in TerminalKind
  PROVE  AccIs(T, E, CloseSpan(acc, E[n]), n)
  <1> DEFINE e     == E[n]
             spans == acc.spans
             index == acc.index
  <1>1. Len(E) \in Nat /\ DOMAIN E = 1..Len(E) /\ e \in T
    OBVIOUS
  <1>2. ~(e.kind \in InvokeKind)
    BY DEF TerminalKind, InvokeKind, CompletedKind
  <1>3. \A i \in UpTo(E, n - 1) : i \in Invocations(E) /\ i < n /\ i \in 1..Len(E)
    BY <1>1 DEF UpTo, Invocations
  <1>4. CASE Key(e) \notin DOMAIN index
    <2>1. \A i \in UpTo(E, n - 1) : n \notin TerminalsOf(E, i)
      BY <1>4 DEF AccIs, IndexIs, TerminalsOf
    <2>2. CloseSpan(acc, e) = acc
      BY <1>4 DEF CloseSpan
    <2> QED
      BY <1>2, <2>1, <2>2, PassOver
  <1>5. CASE Key(e) \in DOMAIN index
    <2>1. PICK o \in UpTo(E, n - 1) :
            /\ Key(E[o]) = Key(e) /\ index[Key(e)] = Number(E, o)
            /\ \A j \in UpTo(E, n - 1) : Key(E[j]) = Key(e) => j <= o
      BY <1>5 DEF AccIs, IndexIs
    <2>2. n \in TerminalsOf(E, o)
      <3>1. ASSUME NEW k \in (o + 1)..(n - 1), E[k].kind \in InvokeKind, Key(E[k]) = Key(E[o])
            PROVE  FALSE
        <4>1. k \in UpTo(E, n - 1)
          BY <1>1, <1>3, <2>1, <3>1 DEF UpTo, Invocations
        <4>2. k <= o
          BY <2>1, <3>1, <4>1
        <4> QED
          BY <1>3, <2>1, <4>2
      <3>2. n \in (o + 1)..Len(E)
        BY <1>1, <1>3, <2>1
      <3> QED
        BY <2>1, <3>1, <3>2 DEF TerminalsOf
    <2>3. ASSUME NEW i \in UpTo(E, n - 1), i # o
          PROVE  n \notin TerminalsOf(E, i) /\ Number(E, i) # Number(E, o)
      <3>1. SUFFICES ASSUME n \in TerminalsOf(E, i) PROVE FALSE
        <4>1. i < o \/ o < i
          BY <1>3, <2>1, <2>3
        <4>2. Number(E, i) \in Nat /\ Number(E, o) \in Nat
          <5>1. i \in 0..Len(E) /\ o \in 0..Len(E)
            BY <1>3, <2>1, <2>3
          <5> QED
            BY <1>1, <5>1, Numbers
        <4>3. Number(E, i) # Number(E, o)
          BY <1>1, <1>3, <2>1, <2>3, <4>1, <4>2, Ascending
        <4> QED
          BY <4>3
      <3>2. Key(E[i]) = Key(e)
        BY <3>1 DEF TerminalsOf
      <3>3. i < o
        BY <1>3, <2>1, <2>3, <3>2
      <3>4. o \in (i + 1)..(n - 1)
        BY <1>1, <1>3, <2>1, <2>3, <3>3
      <3>5. E[o].kind \in InvokeKind
        BY <1>3, <2>1 DEF Invocations
      <3> QED
        BY <2>1, <3>1, <3>2, <3>4, <3>5 DEF TerminalsOf
    <2>4. UpTo(E, n) = UpTo(E, n - 1) /\ Number(E, n) = Number(E, n - 1)
      <3>1. n \notin Invocations(E)
        BY <1>2 DEF Invocations
      <3> QED
        BY <1>1, <3>1, Numbers
    <2> DEFINE p    == Number(E, o)
               span == [key |-> Key(E[o]), ends |-> <<E[o], e>>]
               new  == CloseSpan(acc, e)
    <2>5. /\ p \in DOMAIN spans
          /\ spans[p] = [key |-> Key(E[o]), ends |-> EndsUpTo(E, o, n - 1)]
      BY <2>1 DEF AccIs, SpansAre
    <2>6. EndsUpTo(E, o, n - 1)[1] = E[o] /\ EndsUpTo(E, o, n) = <<E[o], e>>
      BY <1>1, <1>3, <2>1, <2>2, EndsMove
    <2>7. /\ new = [acc EXCEPT !.spans[p].ends = <<@[1], e>>]
          /\ acc = [spans |-> spans, index |-> index]
      BY <1>5, <2>1 DEF CloseSpan, AccIs
    <2>8. /\ new.spans = [spans EXCEPT ![p] = [spans[p] EXCEPT !.ends = <<spans[p].ends[1], e>>]]
          /\ new.index = index /\ new = [spans |-> new.spans, index |-> new.index]
      <3> HIDE DEF spans, index, new, p, e
      <3> QED
        BY <2>7
    <2>9. [spans[p] EXCEPT !.ends = <<spans[p].ends[1], e>>] = span
      BY <2>5, <2>6
    <2>10. new.spans = [spans EXCEPT ![p] = span]
      BY <2>8, <2>9
    <2>11. span \in SpanSet(T)
      <3>1. E[o] \in T
        BY <1>3, <2>1
      <3> QED
        BY <1>1, <3>1 DEF SpanSet
    <2>12. spans \in Seq(SpanSet(T))
      BY DEF AccIs
    <2> HIDE DEF span, new, spans, index, p
    <2>13. /\ new.spans \in Seq(SpanSet(T)) /\ DOMAIN new.spans = DOMAIN spans
           /\ new.spans[p] = span
           /\ \A m \in DOMAIN spans : m # p => new.spans[m] = spans[m]
      BY <2>5, <2>10, <2>11, <2>12
    <2>14. SpansAre(E, new.spans, n)
      <3>1. ASSUME NEW i \in UpTo(E, n)
            PROVE  /\ Number(E, i) \in DOMAIN new.spans
                   /\ new.spans[Number(E, i)] = [key |-> Key(E[i]), ends |-> EndsUpTo(E, i, n)]
        <4>1. CASE i = o
          BY <2>5, <2>6, <2>13, <4>1 DEF p, span
        <4>2. CASE i # o
          <5>1. i \in UpTo(E, n - 1) /\ i \in Invocations(E)
            BY <1>3, <2>4
          <5>2. /\ Number(E, i) \in DOMAIN spans
                /\ spans[Number(E, i)] = [key |-> Key(E[i]), ends |-> EndsUpTo(E, i, n - 1)]
            BY <5>1 DEF AccIs, SpansAre, spans
          <5>3. EndsUpTo(E, i, n) = EndsUpTo(E, i, n - 1) /\ Number(E, i) # p
            BY <1>1, <2>3, <4>2, <5>1, EndsMove DEF p
          <5> QED
            BY <2>13, <5>2, <5>3
        <4> QED
          BY <4>1, <4>2
      <3>2. \A m \in DOMAIN new.spans : \E i \in UpTo(E, n) : m = Number(E, i)
        BY <2>4, <2>13 DEF AccIs, SpansAre, spans
      <3>3. DOMAIN new.spans = 1..Number(E, n)
        BY <2>4, <2>13 DEF AccIs, SpansAre, spans
      <3> QED
        BY <3>1, <3>2, <3>3 DEF SpansAre
    <2>15. IndexIs(E, new.index, n)
      BY <2>4, <2>8 DEF AccIs, IndexIs, index
    <2> QED
      BY <2>8, <2>13, <2>14, <2>15 DEF AccIs, new
  <1> QED
    BY <1>4, <1>5

LEMMA TakeUpStep ==
  ASSUME NEW T, NEW E \in Seq(T), NEW n \in 1..Len(E), NEW acc, AccIs(T, E, acc, n - 1)
  PROVE  AccIs(T, E, TakeUp(acc, E[n]), n)
  <1>1. CASE E[n].kind \in InvokeKind
    BY <1>1, OpenStep DEF TakeUp
  <1>2. CASE E[n].kind \notin InvokeKind /\ E[n].kind \in TerminalKind
    BY <1>2, CloseStep DEF TakeUp
  <1>3. CASE E[n].kind \notin InvokeKind /\ E[n].kind \notin TerminalKind
    <2>1. \A i \in UpTo(E, n - 1) : n \notin TerminalsOf(E, i)
      BY <1>3 DEF TerminalsOf
    <2>2. TakeUp(acc, E[n]) = acc
      BY <1>3 DEF TakeUp
    <2> QED
      BY <1>3, <2>1, <2>2, PassOver
  <1> QED
    BY <1>1, <1>2, <1>3

LEMMA PassIs ==
  ASSUME NEW T, NEW E \in Seq(T)
  PROVE  AccIs(T, E, Pass(E)[Len(E)], Len(E))
  <1> DEFINE B == {n \in 0..Len(E) : ~AccIs(T, E, Pass(E)[n], n)}
  <1>1. Len(E) \in Nat /\ DOMAIN E = 1..Len(E)
    OBVIOUS
  <1>2. AccIs(T, E, Pass(E)[0], 0)
    <2>1. Pass(E)[0] = NoSpans
      BY <1>1, PassSteps
    <2>2. UpTo(E, 0) = {} /\ Number(E, 0) = 0
      BY <1>1, Numbers
    <2>3. /\ NoSpans.spans = <<>> /\ DOMAIN NoSpans.index = {}
          /\ NoSpans = [spans |-> NoSpans.spans, index |-> NoSpans.index]
      BY DEF NoSpans
    <2>4. SpansAre(E, <<>>, 0)
      BY <2>2 DEF SpansAre
    <2>5. IndexIs(E, NoSpans.index, 0)
      BY <2>2, <2>3 DEF IndexIs
    <2> QED
      BY <2>1, <2>3, <2>4, <2>5 DEF AccIs
  <1>3. B = {}
    <2>1. SUFFICES ASSUME B # {} PROVE FALSE
      OBVIOUS
    <2>2. PICK n \in B : \A k \in B : n <= k
      <3>1. B \subseteq Nat
        BY <1>1
      <3> HIDE DEF B
      <3> QED
        BY <2>1, <3>1, Least
    <2>3. n \in 0..Len(E) /\ ~AccIs(T, E, Pass(E)[n], n)
      OBVIOUS
    <2>4. n # 0
      BY <1>2, <2>3
    <2>5. n \in 1..Len(E) /\ n - 1 \in 0..Len(E)
      BY <1>1, <2>3, <2>4
    <2>6. n - 1 \notin B
      <3> HIDE DEF B
      <3> QED
        BY <1>1, <2>2, <2>5
    <2>7. AccIs(T, E, Pass(E)[n - 1], n - 1)
      BY <2>5, <2>6
    <2>8. Pass(E)[n] = TakeUp(Pass(E)[n - 1], E[n])
      BY <1>1, <2>5, PassSteps
    <2> QED
      BY <2>3, <2>5, <2>7, <2>8, TakeUpStep
  <1> QED
    BY <1>1, <1>3

\* tool_spans and its reference definition agree on every sequence of events.
LEMMA SpansAreReference ==
  ASSUME NEW T, NEW E \in Seq(T)
  PROVE  Spans(E) = ReferenceSpans(E)
  <1> DEFINE spans == Spans(E)
             ref   == ReferenceSpans(E)
             N     == Cardinality(Invocations(E))
  <1>1. Len(E) \in Nat /\ DOMAIN E = 1..Len(E)
    OBVIOUS
  <1>2. SpansAre(E, spans, Len(E)) /\ spans \in Seq(SpanSet(T))
    BY <1>1, PassIs, PassSteps DEF AccIs
  <1>3. UpTo(E, Len(E)) = Invocations(E) /\ Number(E, Len(E)) = N
    <2>1. Len(E) \in 0..Len(E)
      BY <1>1
    <2> QED
      BY <1>1, <2>1, Numbers
  <1>4. DOMAIN spans = 1..N /\ DOMAIN ref = 1..N
    BY <1>2, <1>3 DEF SpansAre, ReferenceSpans
  <1>5. ASSUME NEW m \in 1..N PROVE spans[m] = ref[m]
    <2> DEFINE i == CHOOSE i \in Invocations(E) : Number(E, i) = m
    <2>1. \E j \in Invocations(E) : m = Number(E, j)
      BY <1>2, <1>3, <1>4 DEF SpansAre
    <2>2. i \in Invocations(E) /\ Number(E, i) = m
      BY <2>1
    <2>3. TermsUpTo(E, i, Len(E)) = TerminalsOf(E, i)
      <3>1. \A j \in TerminalsOf(E, i) : j <= Len(E)
        <4>1. i \in Nat
          BY <2>2 DEF Invocations
        <4> HIDE DEF i
        <4> QED
          BY <1>1, <4>1 DEF TerminalsOf
      <3> HIDE DEF i
      <3> QED
        BY <3>1 DEF TermsUpTo
    <2>4. ref[m] = [key |-> Key(E[i]), ends |-> EndsUpTo(E, i, Len(E))]
      <3>1. EndsOf(E, i) = EndsUpTo(E, i, Len(E))
        <4> HIDE DEF i
        <4> QED
          BY <2>3 DEF EndsOf, EndsUpTo
      <3>2. ref[m] = [key |-> Key(E[i]), ends |-> EndsOf(E, i)]
        BY DEF ReferenceSpans
      <3> QED
        BY <3>1, <3>2
    <2> HIDE DEF i
    <2>5. spans[m] = [key |-> Key(E[i]), ends |-> EndsUpTo(E, i, Len(E))]
      BY <1>2, <1>3, <2>2 DEF SpansAre
    <2> QED
      BY <2>4, <2>5
  <1>6. spans = [m \in DOMAIN spans |-> spans[m]]
    <2> HIDE DEF spans
    <2> QED
      BY <1>2
  <1>7. ref = [m \in DOMAIN ref |-> ref[m]]
    BY DEF ReferenceSpans
  <1> HIDE DEF spans, ref, N
  <1>8. spans = ref
    BY <1>4, <1>5, <1>6, <1>7
  <1> QED
    BY <1>8 DEF spans, ref

\* A non-empty set of numbers up to n has a greatest one.
LEMMA Greatest ==
  ASSUME NEW n \in Nat, NEW S, S # {}, \A x \in S : x \in Nat /\ x <= n
  PROVE  \E x \in S : \A y \in S : y <= x
  <1> DEFINE Back == {n - x : x \in S}
  <1>1. Back # {} /\ Back \subseteq Nat
    OBVIOUS
  <1>2. PICK d \in Back : \A y \in Back : d <= y
    <2> HIDE DEF Back
    <2> QED
      BY <1>1, Least
  <1>3. PICK x \in S : d = n - x
    OBVIOUS
  <1>4. ASSUME NEW y \in S PROVE y <= x
    <2>1. n - y \in Back
      OBVIOUS
    <2>2. n - x <= n - y
      <3> HIDE DEF Back
      <3> QED
        BY <1>2, <1>3, <2>1
    <2> QED
      BY <2>2
  <1> QED
    BY <1>4

\* An invocation with terminal events ends in one of them.
LEMMA LastWord ==
  ASSUME NEW n \in Nat, NEW E, NEW i, TerminalsOf(E, i) # {},
         \A j \in TerminalsOf(E, i) : j \in Nat /\ j <= n
  PROVE  \E t \in TerminalsOf(E, i) : EndsOf(E, i) = <<E[i], E[t]>>
  <1> DEFINE js == TerminalsOf(E, i)
             t  == CHOOSE j \in js : \A k \in js : k <= j
  <1>1. EndsOf(E, i) = <<E[i], E[t]>>
    BY DEF EndsOf
  <1> HIDE DEF js
  <1>2. \E j \in js : \A k \in js : k <= j
    BY Greatest DEF js
  <1>3. t \in js
    BY <1>2
  <1> QED
    BY <1>1, <1>3 DEF js

\* A terminal event ends one invocation at most, and every one has its invocation in
\* the snapshot unless it is an orphan.
LEMMA OneInvocation ==
  ASSUME NEW E, Len(E) \in Nat, DOMAIN E = 1..Len(E),
         NEW i \in Invocations(E), NEW o \in Invocations(E), NEW j,
         j \in TerminalsOf(E, i), j \in TerminalsOf(E, o)
  PROVE  i = o
  <1>1. ASSUME NEW a \in Invocations(E), NEW b \in Invocations(E), a < b,
               j \in TerminalsOf(E, a), j \in TerminalsOf(E, b)
        PROVE  FALSE
    <2>1. a \in Nat /\ b \in Nat
      BY DEF Invocations
    <2>2. j \in (b + 1)..Len(E) /\ Key(E[j]) = Key(E[b]) /\ Key(E[j]) = Key(E[a])
      BY <1>1 DEF TerminalsOf
    <2>3. b \in (a + 1)..(j - 1)
      BY <1>1, <2>1, <2>2
    <2>4. E[b].kind \in InvokeKind
      BY DEF Invocations
    <2> QED
      BY <1>1, <2>2, <2>3, <2>4 DEF TerminalsOf
  <1>2. i \in Nat /\ o \in Nat
    BY DEF Invocations
  <1> QED
    BY <1>1, <1>2

LEMMA SomeInvocation ==
  ASSUME NEW E, Len(E) \in Nat, DOMAIN E = 1..Len(E), Orphans(E) = {},
         NEW j \in DOMAIN E, E[j].kind \in TerminalKind
  PROVE  \E i \in Invocations(E) : j \in TerminalsOf(E, i)
  <1> DEFINE Before == {i \in 1..(j - 1) : E[i].kind \in InvokeKind /\ Key(E[i]) = Key(E[j])}
  <1>1. Before # {}
    BY DEF Orphans
  <1>2. j \in Nat /\ \A x \in Before : x \in Nat /\ x <= j
    OBVIOUS
  <1>3. PICK i \in Before : \A k \in Before : k <= i
    <2> HIDE DEF Before
    <2> QED
      BY <1>1, <1>2, Greatest
  <1>4. i \in Invocations(E) /\ j \in (i + 1)..Len(E)
    BY DEF Invocations
  <1>5. ASSUME NEW k \in (i + 1)..(j - 1), E[k].kind \in InvokeKind, Key(E[k]) = Key(E[i])
        PROVE  FALSE
    <2>1. k \in Before
      BY <1>4, <1>5
    <2> HIDE DEF Before
    <2>2. k <= i /\ i \in Nat
      BY <1>3, <1>4, <2>1 DEF Invocations
    <2> QED
      BY <1>5, <2>2
  <1> QED
    BY <1>4, <1>5 DEF TerminalsOf

LEMMA PendingIsUnresolved ==
  ASSUME NEW T, NEW E \in Seq(T), Orphans(E) = {},
         \A i \in DOMAIN E : Cardinality(TerminalsOf(E, i)) <= 1
  PROVE  PendingCount(E) = Cardinality(Unresolved(E))
  <1> DEFINE I == Invocations(E)
             U == Unresolved(E)
             R == I \ U
             J == {j \in DOMAIN E : E[j].kind \in TerminalKind}
             f == [i \in R |-> CHOOSE j \in TerminalsOf(E, i) : TRUE]
  <1>1. Len(E) \in Nat /\ DOMAIN E = 1..Len(E)
    OBVIOUS
  <1>2. IsFiniteSet(I) /\ IsFiniteSet(U) /\ U \subseteq I
    <2>1. U \subseteq I
      BY DEF Unresolved
    <2> QED
      BY <1>1, <2>1, Numbers, FS_Subset
  <1>3. \A i \in I : i \in 1..Len(E) /\ TerminalsOf(E, i) \subseteq J
    BY <1>1 DEF TerminalsOf, Invocations
  <1>4. \A i \in I : \A j, k \in TerminalsOf(E, i) : j = k
    <2>1. ASSUME NEW i \in I, NEW j \in TerminalsOf(E, i), NEW k \in TerminalsOf(E, i)
          PROVE  j = k
      <3>1. IsFiniteSet(1..Len(E)) /\ J \subseteq 1..Len(E)
        BY <1>1, FS_Interval
      <3>2. IsFiniteSet(TerminalsOf(E, i))
        <4> HIDE DEF J
        <4> QED
          BY <1>3, <3>1, FS_Subset
      <3>3. Cardinality(TerminalsOf(E, i)) \in Nat /\ Cardinality(TerminalsOf(E, i)) <= 1
        BY <1>1, <1>3, <3>2, FS_CardinalityType
      <3>4. Cardinality(TerminalsOf(E, i)) # 0
        BY <3>2, FS_EmptySet
      <3>5. Cardinality(TerminalsOf(E, i)) = 1
        BY <3>3, <3>4
      <3>6. PICK x : TerminalsOf(E, i) = {x}
        BY <3>2, <3>5, FS_Singleton
      <3> QED
        BY <3>6
    <2> QED
      BY <2>1
  <1>5. \A i \in R : f[i] \in TerminalsOf(E, i) /\ i \in I
    <2>1. \A i \in R : TerminalsOf(E, i) # {}
      BY DEF Unresolved
    <2> QED
      BY <2>1
  <1>6. f \in [R -> J]
    BY <1>3, <1>5
  <1>7. \A a, b \in R : f[a] = f[b] => a = b
    <2> HIDE DEF f
    <2> QED
      BY <1>1, <1>5, OneInvocation
  <1>8. \A j \in J : \E i \in R : f[i] = j
    <2>1. ASSUME NEW j \in J PROVE \E i \in R : f[i] = j
      <3>1. PICK i \in I : j \in TerminalsOf(E, i)
        BY <1>1, SomeInvocation
      <3>2. i \in R
        BY <3>1 DEF Unresolved
      <3> HIDE DEF f, R
      <3> QED
        BY <1>4, <1>5, <3>1, <3>2
    <2> QED
      BY <2>1
  <1>9. ExistsBijection(R, J)
    <2>1. f \in Bijection(R, J)
      <3> HIDE DEF f, R, J
      <3> QED
        BY <1>6, <1>7, <1>8, Fun_IsBij
    <2> QED
      BY <2>1 DEF ExistsBijection
  <1>10. IsFiniteSet(R) /\ Cardinality(R) = Cardinality(I) - Cardinality(U)
    <2>1. I \cap U = U
      BY <1>2
    <2> QED
      BY <1>2, <2>1, FS_Difference
  <1>11. Cardinality(J) = Cardinality(R)
    <2> HIDE DEF R, J
    <2> QED
      BY <1>9, <1>10, FS_Bijection
  <1>12. PendingCount(E) = Monus(Cardinality(I), Cardinality(J))
    BY DEF PendingCount, Count, Invocations
  <1>13. Cardinality(I) \in Nat /\ Cardinality(U) \in Nat
    BY <1>2, FS_CardinalityType
  <1> HIDE DEF I, U, R, J
  <1>14. Cardinality(R) \in Nat
    BY <1>10, FS_CardinalityType
  <1>15. PendingCount(E) = Cardinality(U)
    BY <1>10, <1>11, <1>12, <1>13, <1>14 DEF Monus
  <1> QED
    BY <1>15 DEF U

(***************************************************************************)
(* Spans of what the hooks emit                                            *)
(***************************************************************************)

\* The spans and the pending count of any snapshot of the log are those of the
\* reference definitions.
THEOREM RollupsMatch == Spec => []RollupsMatchReference
  <1>1. TypeOK => RollupsMatchReference
    <2> SUFFICES ASSUME TypeOK, NEW snapshot \in Snapshots
                 PROVE  /\ Spans(snapshot) = ReferenceSpans(snapshot)
                        /\ (/\ Orphans(snapshot) = {}
                            /\ \A i \in DOMAIN snapshot :
                                 Cardinality(TerminalsOf(snapshot, i)) <= 1)
                           => PendingCount(snapshot) = Cardinality(Unresolved(snapshot))
      BY DEF RollupsMatchReference, SpansMatchReference, PendingIsCounted
    <2>1. log \in Seq(Entry)
      BY DEF TypeOK, Entry
    <2>2. PICK n \in 0..Len(log) : snapshot = SubSeq(log, n + 1, Len(log))
      BY DEF Snapshots
    <2>3. snapshot \in Seq(Entry)
      BY <2>1, <2>2
    <2> QED
      BY <2>3, SpansAreReference, PendingIsUnresolved
  <1> QED
    BY <1>1, Typing, PTL

\* The chain's own reports, under the conversation it was given.
ChainKind == {"tool.skipped", "tool.terminated"}

\* An event of a tool call carries the call, and the conversation of whoever emits it.
EntryIs(e) ==
  /\ e.kind \in PromptKind \cup ToolKind
  /\ e.kind \in ToolKind => e.call \in Call
  /\ e.kind \in ToolKind \ ChainKind => e.conversation = ResolvedConversation
  /\ e.kind \in ChainKind => observed # None /\ e.conversation = observed

\* A call's invocation is the first event of it, so there is one at most.
InvokedFirst ==
  \A i, j \in DOMAIN log :
    log[i].kind = "tool.invoked" /\ log[j].kind \in ToolKind /\ log[j].call = log[i].call
      => i <= j

OrderInv == (\A i \in DOMAIN log : EntryIs(log[i])) /\ InvokedFirst

\* One event is appended, the invocation of a call only before any other event of it.
Appended ==
  \E kind \in PromptKind \cup ToolKind : \E v, c :
    /\ Emit(kind, v, c)
    /\ EntryIs([kind |-> kind, conversation |-> v, call |-> c])
    /\ kind = "tool.invoked" => \A k \in ToolKind : ~Shipped(k, c)

LEMMA OrderStep ==
  ASSUME TypeOK, OrderInv, UNCHANGED config, log' = log \/ Appended
  PROVE  OrderInv'
  <1>1. ResolvedConversation' = ResolvedConversation /\ observed' = observed
    BY ConfigStays
  <1>2. CASE log' = log
    BY <1>1, <1>2 DEF OrderInv, InvokedFirst, EntryIs
  <1>3. CASE Appended
    <2>1. PICK kind, v, c :
            /\ kind \in PromptKind \cup ToolKind
            /\ Emit(kind, v, c)
            /\ EntryIs([kind |-> kind, conversation |-> v, call |-> c])
            /\ kind = "tool.invoked" => \A k \in ToolKind : ~Shipped(k, c)
      BY <1>3 DEF Appended
    <2> DEFINE e == [kind |-> kind, conversation |-> v, call |-> c]
    <2>2. EntryIs(e) /\ e.kind = kind /\ e.call = c /\ log' = Append(log, e)
      BY <2>1 DEF Emit
    <2> HIDE DEF e
    <2>3. /\ Len(log) \in Nat /\ DOMAIN log = 1..Len(log)
          /\ DOMAIN log' = 1..(Len(log) + 1)
          /\ \A i \in DOMAIN log : log'[i] = log[i]
          /\ log'[Len(log) + 1] = e
      BY <2>2 DEF TypeOK
    <2>4. ASSUME NEW i \in DOMAIN log' PROVE EntryIs(log[i])'
      <3>1. EntryIs(log'[i])
        <4>1. CASE i \in DOMAIN log
          BY <2>3, <4>1 DEF OrderInv
        <4>2. CASE i = Len(log) + 1
          BY <2>2, <2>3, <4>2
        <4> QED
          BY <2>3, <4>1, <4>2
      <3> QED
        BY <1>1, <3>1 DEF EntryIs
    <2>5. ASSUME NEW i \in DOMAIN log', NEW j \in DOMAIN log',
                 log'[i].kind = "tool.invoked", log'[j].kind \in ToolKind,
                 log'[j].call = log'[i].call
          PROVE  i <= j
      <3>1. CASE i \in DOMAIN log /\ j \in DOMAIN log
        BY <2>3, <2>5, <3>1 DEF OrderInv, InvokedFirst
      <3>2. CASE j = Len(log) + 1
        BY <2>3, <3>2
      <3>3. CASE i = Len(log) + 1 /\ j \in DOMAIN log
        <4>1. kind = "tool.invoked" /\ log[j].kind \in ToolKind /\ log[j].call = c
          BY <2>2, <2>3, <2>5, <3>3
        <4>2. Shipped(log[j].kind, c)
          BY <3>3, <4>1 DEF Shipped
        <4> QED
          BY <2>1, <4>1, <4>2
      <3> QED
        BY <2>3, <2>5, <3>1, <3>2, <3>3
    <2> QED
      BY <2>4, <2>5 DEF OrderInv, InvokedFirst
  <1> QED
    BY <1>2, <1>3

LEMMA OrderPrompt ==
  ASSUME NEW kind \in PromptKind, SamplePrompt(kind)
  PROVE  log' = log \/ Appended
  <1>1. kind \notin ToolKind /\ kind \notin ChainKind /\ kind # "tool.invoked"
    BY DEF PromptKind, ToolKind, ChainKind
  <1>2. \A v, c : EntryIs([kind |-> kind, conversation |-> v, call |-> c])
    BY <1>1 DEF EntryIs
  <1> QED
    BY <1>1, <1>2 DEF SamplePrompt, Sample, Appended

LEMMA OrderTool ==
  ASSUME NEW c \in Call, NEW kind \in ToolKind \ ChainKind, SampleTool(kind, c),
         kind = "tool.invoked" => \A k \in ToolKind : ~Shipped(k, c)
  PROVE  log' = log \/ Appended
  <1>1. EntryIs([kind |-> kind, conversation |-> ResolvedConversation, call |-> c])
    BY DEF EntryIs
  <1> QED
    BY <1>1 DEF SampleTool, Sample, Appended

LEMMA OrderChain ==
  ASSUME NEW c \in Call, NEW kind \in ChainKind, Announce(c, kind)
  PROVE  log' = log \/ Appended
  <1>1. kind \in ToolKind /\ kind # "tool.invoked"
    BY DEF ChainKind, ToolKind
  <1>2. observed # None =>
          EntryIs([kind |-> kind, conversation |-> observed, call |-> c])
    BY <1>1 DEF EntryIs
  <1> QED
    BY <1>1, <1>2 DEF Announce, Appended

\* Nothing has been told of a call that has not reached its first gate.
LEMMA NewIsUntold ==
  ASSUME TellInv, OrderInv, NEW c \in Call, pc[c] = "new"
  PROVE  \A k \in ToolKind : ~Shipped(k, c)
  <1>1. CallInv(c) /\ answers[c] = {} /\ ~Over(c)
    BY DEF TellInv, CallInv, Answered, Over
  <1>2. \A k \in ChainKind : Shipped(k, c) => observed # None
    BY DEF OrderInv, EntryIs, Shipped
  <1>3. ~Shipped("tool.invoked", c) /\ ~Shipped("tool.completed", c) /\ ~Shipped("tool.failed", c)
    BY <1>1 DEF CallInv
  <1>4. ~Shipped("tool.skipped", c) /\ ~Shipped("tool.terminated", c)
    BY <1>1, <1>2 DEF CallInv, ChainKind
  <1> QED
    BY <1>3, <1>4 DEF ToolKind

LEMMA OrderInvariant == Spec => []OrderInv
  <1>1. Init => OrderInv
    BY DEF Init, OrderInv, InvokedFirst
  <1>2. TypeOK /\ TellInv /\ OrderInv /\ [Next]_vars => OrderInv'
    <2> SUFFICES ASSUME TypeOK, TellInv, OrderInv, [Next]_vars PROVE OrderInv'
      OBVIOUS
    <2>1. CASE UNCHANGED vars
      BY <2>1, OrderStep DEF vars
    <2>2. CASE PromptStep
      <3>1. UNCHANGED config
        BY <2>2 DEF PromptStep, OnCompletionCall, ProviderAnswers, OnCompletionResponse,
               GatesPass, PromptBreaks, ObservePromptError, RoundFails, RoundEnds, Cancel,
               Prompt
      <3>2. log' = log \/ \E kind \in PromptKind : SamplePrompt(kind)
        BY <2>2 DEF PromptStep, OnCompletionCall, ProviderAnswers, OnCompletionResponse,
               GatesPass, PromptBreaks, ObservePromptError, RoundFails, RoundEnds, Cancel,
               PromptKind
      <3> QED
        BY <3>1, <3>2, OrderPrompt, OrderStep
    <2>3. ASSUME NEW c \in Call, ToolStep(c) PROVE OrderInv'
      <3>1. CASE GateBefore(c)
        <4>1. SampleTool("tool.invoked", c) /\ pc[c] = "new" /\ UNCHANGED config
          BY <3>1 DEF GateBefore, Go
        <4> QED
          BY <4>1, NewIsUntold, OrderTool, OrderStep DEF ToolKind, ChainKind
      <3>2. CASE GateAfter(c)
        <4>1. /\ UNCHANGED config
              /\ log' = log \/ Announce(c, "tool.skipped") \/ Announce(c, "tool.terminated")
          BY <3>2, GateAfterCases DEF Go
        <4> QED
          BY <4>1, OrderChain, OrderStep DEF ChainKind
      <3>3. CASE OnToolResult(c) \/ ObserveToolError(c) \/ OnErrorResult(c)
        <4>1. /\ UNCHANGED config
              /\ SampleTool("tool.completed", c) \/ SampleTool("tool.failed", c)
          BY <3>3 DEF OnToolResult, ObserveToolError, OnErrorResult, Go
        <4> QED
          BY <4>1, OrderTool, OrderStep DEF ToolKind, ChainKind
      <3>4. CASE ResultPasses(c) \/ ResultStops(c)
        <4>1. UNCHANGED config /\ log' = log
          BY <3>4 DEF ResultPasses, ResultStops, Go
        <4> QED
          BY <4>1, OrderStep
      <3> QED
        BY <2>3, <3>1, <3>2, <3>3, <3>4 DEF ToolStep
    <2> QED
      BY <2>1, <2>2, <2>3 DEF Next
  <1> QED
    BY <1>1, <1>2, Typing, TellInvariant, PTL DEF Spec

\* No call that is over has a pending span, when the chain reports under the hook's
\* conversation and completions are sampled no lower than invocations.
THEOREM SpansClose == Spec => []SpansAreClosed
  <1>1. TypeOK /\ TellInv /\ OrderInv => SpansAreClosed
    <2> SUFFICES ASSUME TypeOK, TellInv, OrderInv, observed = ResolvedConversation,
                        Share("tool.invoked") <= Share("tool.completed"),
                        NEW n \in DOMAIN Spans(log),
                        Over(Spans(log)[n].key[2])
                 PROVE  Outcome(Spans(log)[n]) # "pending"
      BY DEF SpansAreClosed, Over
    <2> DEFINE i == CHOOSE i \in Invocations(log) : Number(log, i) = n
               c == log[i].call
    <2>1. log \in Seq(Entry) /\ Len(log) \in Nat /\ DOMAIN log = 1..Len(log)
      BY DEF TypeOK, Entry
    <2>2. Spans(log) = ReferenceSpans(log)
      BY <2>1, SpansAreReference
    <2>3. i \in Invocations(log)
      <3>1. SpansAre(log, Spans(log), Len(log))
        BY <2>1, PassIs, PassSteps DEF AccIs
      <3>2. \E j \in UpTo(log, Len(log)) : n = Number(log, j)
        BY <3>1 DEF SpansAre
      <3> QED
        BY <3>2 DEF UpTo
    <2>4. Spans(log)[n] = [key |-> Key(log[i]), ends |-> EndsOf(log, i)]
      BY <2>2 DEF ReferenceSpans
    <2> HIDE DEF i
    <2>5. Spans(log)[n].key[2] = c /\ Spans(log)[n].ends = EndsOf(log, i)
      BY <2>4 DEF Key
    <2>6. /\ i \in 1..Len(log) /\ log[i].kind = "tool.invoked" /\ c \in Call
          /\ log[i].conversation = ResolvedConversation
      BY <2>1, <2>3 DEF Invocations, InvokeKind, OrderInv, EntryIs, ToolKind, PromptKind,
         ChainKind
    <2>7. CallInv(c) /\ Over(c) /\ observed # None
      BY <2>5, <2>6, ResolvedType, NoneAssumption DEF TellInv
    <2>8. ShouldSample("tool.completed", c)
      <3>1. Shipped("tool.invoked", c)
        BY <2>1, <2>6 DEF Shipped
      <3>2. ShouldSample("tool.invoked", c)
        BY <2>7, <3>1 DEF CallInv
      <3> QED
        BY <2>6, <3>2, Kinds, SharesCompare DEF ToolKind
    <2>9. \E k \in TerminalKind \cap ToolKind : Shipped(k, c)
      <3>1. answers[c] # {} /\ answers[c] \subseteq Decision
        BY <2>6, <2>7 DEF CallInv, Answered, TypeOK
      <3>2. CASE answers[c] = {"continue"}
        <4>1. Shipped("tool.completed", c)
          BY <2>7, <2>8, <3>2 DEF CallInv, Over
        <4> QED
          BY <4>1 DEF TerminalKind, CompletedKind, ToolKind
      <3>3. CASE answers[c] # {"continue"}
        <4>1. "skip" \in answers[c] \/ "terminate" \in answers[c]
          BY <3>1, <3>3 DEF Decision
        <4>2. Shipped("tool.skipped", c) \/ Shipped("tool.terminated", c)
          BY <2>7, <4>1 DEF CallInv
        <4> QED
          BY <4>2 DEF TerminalKind, ToolKind
      <3> QED
        BY <3>2, <3>3
    <2>10. PICK j \in DOMAIN log : log[j].kind \in TerminalKind \cap ToolKind /\ log[j].call = c
      BY <2>9 DEF Shipped
    <2>11. j \in TerminalsOf(log, i)
      <3>1. i < j
        <4>1. i <= j
          BY <2>1, <2>6, <2>10 DEF OrderInv, InvokedFirst
        <4>2. i # j
          BY <2>6, <2>10 DEF TerminalKind, CompletedKind
        <4> QED
          BY <2>1, <2>6, <4>1, <4>2
      <3>2. log[j].conversation = ResolvedConversation
        BY <2>10 DEF OrderInv, EntryIs
      <3>3. ASSUME NEW k \in (i + 1)..(j - 1), log[k].kind \in InvokeKind,
                   Key(log[k]) = Key(log[i])
            PROVE  FALSE
        <4>1. k \in DOMAIN log
          BY <2>1, <2>6, <3>1
        <4>2. log[k].kind = "tool.invoked" /\ log[k].call = c
          BY <3>3, <4>1 DEF InvokeKind, OrderInv, EntryIs, ToolKind, PromptKind, Key
        <4>3. k <= i
          BY <2>1, <2>6, <4>1, <4>2 DEF OrderInv, InvokedFirst, ToolKind
        <4> QED
          BY <2>6, <4>3
      <3> QED
        BY <2>1, <2>6, <2>10, <3>1, <3>2, <3>3 DEF TerminalsOf, Key
    <2>12. PICK t \in TerminalsOf(log, i) : EndsOf(log, i) = <<log[i], log[t]>>
      <3>1. \A m \in TerminalsOf(log, i) : m \in Nat /\ m <= Len(log)
        BY <2>1, <2>6 DEF TerminalsOf
      <3> QED
        BY <2>1, <2>11, <3>1, LastWord
    <2>13. log[t].kind \in TerminalKind
      BY DEF TerminalsOf
    <2> QED
      BY <2>5, <2>12, <2>13 DEF Outcome, TerminalKind, CompletedKind
  <1> QED
    BY <1>1, Typing, TellInvariant, OrderInvariant, PTL

=============================================================================
