---------------------------- MODULE DispatchObserve ----------------------------
(***************************************************************************)
(* DispatchObserveHook (dispatch.rs) as a rig_compose::ToolDispatchHook:   *)
(* the shared state that pairs tool.invoked with its terminal event by     *)
(* call_id, under the dispatch loop of the kernel that drives it.          *)
(*                                                                         *)
(* One hook is shared by a set of dispatches, each a call of the kernel's  *)
(* dispatch_tool_invocations_with_hooks over a list of invocations.  The   *)
(* hook's methods never await, but they touch the counter, the in-flight   *)
(* slot and the event stream one after the other: each touch is a step     *)
(* here, and dispatches on other threads may act in between.               *)
(*                                                                         *)
(* The kernel is external.  For each invocation it calls the hooks in      *)
(* order; besides the observer there is one gate, before or after it,      *)
(* that may let the call pass, skip it or terminate the dispatch.          *)
(***************************************************************************)
EXTENDS Integers, Sequences

CONSTANTS
  Dispatch,  \* calls of the kernel's dispatch function that share the hook
  MaxCalls,  \* bound: invocations per dispatch
  None       \* Option::None

ASSUME CallsAssumption == MaxCalls \in Nat
ASSUME NoneAssumption  == None \notin Nat

VARIABLES
  counter,    \* AtomicU64: the next call id
  inFlight,   \* Mutex<Option<(call_id, Instant)>>
  log,        \* every event emitted so far, in order
  pc,         \* where each dispatch is
  gateFirst,  \* the gate comes before the observer in the hooks of d
  nth,        \* the invocation d is working on
  held,       \* the call id a method of the hook has in hand
  timed,      \* ... and whether it came with a start time
  outcome,    \* what the kernel reports about the invocation
  overlapped  \* history: two dispatches have been at work at once

vars == <<counter, inFlight, log, pc, gateFirst, nth, held, timed, outcome, overlapped>>

hookVars   == <<counter, inFlight, log>>
localVars  == <<held, timed>>
kernelVars == <<gateFirst, nth, outcome, overlapped>>

TerminalKind == {"completed", "skipped", "terminated"}

Over == {"finished", "failed", "dropped"}

Active(d) == pc[d] \notin {"new"} \cup Over

Init ==
  /\ counter = 0
  /\ inFlight = None
  /\ log = <<>>
  /\ pc = [d \in Dispatch |-> "new"]
  /\ gateFirst \in [Dispatch -> BOOLEAN]
  /\ nth = [d \in Dispatch |-> 0]
  /\ held = [d \in Dispatch |-> 0]
  /\ timed = [d \in Dispatch |-> FALSE]
  /\ outcome = [d \in Dispatch |-> "completed"]
  /\ overlapped = FALSE

Go(d, from, to) == pc[d] = from /\ pc' = [pc EXCEPT ![d] = to]

Emit(d, kind) ==
  log' = Append(log, [kind |-> kind, call |-> held[d], of |-> <<d, nth[d]>>,
                      timed |-> timed[d]])

\* Mutant of NextCallId: the position of the invocation serves as its id.
NextCallIdIsPosition(d) ==
  /\ held' = [held EXCEPT ![d] = nth[d]]
  /\ timed' = [timed EXCEPT ![d] = FALSE]
  /\ counter' = counter + 1

\* next_call_id
NextCallId(d) ==
  /\ held' = [held EXCEPT ![d] = counter]
  /\ timed' = [timed EXCEPT ![d] = FALSE]
  /\ counter' = counter + 1

-----------------------------------------------------------------------------
(* before_invocation: next_call_id, emit_invoked, set_in_flight *)

BeforeInvocation(d) ==
  /\ Go(d, "before", "invoked")
  /\ NextCallId(d)
  /\ UNCHANGED <<inFlight, log, kernelVars>>

EmitInvoked(d) ==
  /\ Go(d, "invoked", "remember")
  /\ Emit(d, "invoked")
  /\ UNCHANGED <<counter, inFlight, localVars, kernelVars>>

SetInFlight(d) ==
  /\ Go(d, "remember", IF gateFirst[d] THEN "tool" ELSE "gate")
  /\ inFlight' = held[d]
  /\ UNCHANGED <<counter, log, localVars, kernelVars>>

-----------------------------------------------------------------------------
(* after_invocation_with_outcome and on_invocation_error: both resolve the *)
(* call id the same way (call_id_for_after, call_id_for_error) and emit    *)
(* the terminal event.                                                     *)

\* Mutants of TakeInFlight: the slot is read and not emptied, or not checked.
TakeInFlightKeeps(d) ==
  /\ inFlight # None
  /\ Go(d, "resolve", "terminal")
  /\ held' = [held EXCEPT ![d] = inFlight]
  /\ timed' = [timed EXCEPT ![d] = TRUE]
  /\ UNCHANGED <<hookVars, kernelVars>>

TakeInFlightUnchecked(d) ==
  /\ Go(d, "resolve", "terminal")
  /\ held' = [held EXCEPT ![d] = inFlight]
  /\ timed' = [timed EXCEPT ![d] = TRUE]
  /\ inFlight' = None
  /\ UNCHANGED <<counter, log, kernelVars>>

\* take_in_flight returned an id, with its start time.
TakeInFlight(d) ==
  /\ inFlight # None
  /\ Go(d, "resolve", "terminal")
  /\ held' = [held EXCEPT ![d] = inFlight]
  /\ timed' = [timed EXCEPT ![d] = TRUE]
  /\ inFlight' = None
  /\ UNCHANGED <<counter, log, kernelVars>>

\* Mutant of NothingInFlight: a call that was never announced is not resolved.
NothingInFlightIgnored(d) ==
  /\ inFlight = None
  /\ Go(d, "resolve", IF outcome[d] = "terminated" THEN "failed" ELSE "ready")
  /\ UNCHANGED <<hookVars, localVars, kernelVars>>

\* The slot was empty: a new id, announced by a synthetic tool.invoked.
NothingInFlight(d) ==
  /\ inFlight = None
  /\ Go(d, "resolve", "synthetic")
  /\ UNCHANGED <<hookVars, localVars, kernelVars>>

SyntheticCallId(d) ==
  /\ Go(d, "synthetic", "announce")
  /\ NextCallId(d)
  /\ UNCHANGED <<inFlight, log, kernelVars>>

EmitSynthetic(d) ==
  /\ Go(d, "announce", "terminal")
  /\ Emit(d, "invoked")
  /\ UNCHANGED <<counter, inFlight, localVars, kernelVars>>

\* A terminated invocation fails the dispatch; otherwise the loop goes on.
EmitTerminal(d) ==
  /\ Go(d, "terminal", IF outcome[d] = "terminated" THEN "failed" ELSE "ready")
  /\ Emit(d, outcome[d])
  /\ UNCHANGED <<counter, inFlight, localVars, kernelVars>>

-----------------------------------------------------------------------------
(* The kernel's dispatch loop, its gate and its tools *)

Start(d) ==
  /\ Go(d, "new", "ready")
  /\ overlapped' = (overlapped \/ \E e \in Dispatch : Active(e))
  /\ UNCHANGED <<hookVars, localVars, gateFirst, nth, outcome>>

NextInvocation(d) ==
  /\ nth[d] < MaxCalls
  /\ Go(d, "ready", IF gateFirst[d] THEN "gate" ELSE "before")
  /\ nth' = [nth EXCEPT ![d] = @ + 1]
  /\ UNCHANGED <<hookVars, localVars, gateFirst, outcome, overlapped>>

Finish(d) ==
  /\ Go(d, "ready", "finished")
  /\ UNCHANGED <<hookVars, localVars, kernelVars>>

GatePasses(d) ==
  /\ Go(d, "gate", IF gateFirst[d] THEN "before" ELSE "tool")
  /\ UNCHANGED <<hookVars, localVars, kernelVars>>

Report(d, what) ==
  /\ outcome' = [outcome EXCEPT ![d] = what]
  /\ UNCHANGED <<hookVars, localVars, gateFirst, nth, overlapped>>

GateSkips(d)      == Go(d, "gate", "resolve") /\ Report(d, "skipped")
GateTerminates(d) == Go(d, "gate", "resolve") /\ Report(d, "terminated")
ToolReturns(d)    == Go(d, "tool", "resolve") /\ Report(d, "completed")
ToolFails(d)      == Go(d, "tool", "resolve") /\ Report(d, "terminated")

\* The caller drops the future while the kernel awaits the gate or the tool.
Cancel(d) ==
  /\ Go(d, "gate", "dropped") \/ Go(d, "tool", "dropped")
  /\ UNCHANGED <<hookVars, localVars, kernelVars>>

Hook(d) ==
  \/ BeforeInvocation(d) \/ EmitInvoked(d) \/ SetInFlight(d)
  \/ TakeInFlight(d) \/ NothingInFlight(d) \/ SyntheticCallId(d)
  \/ EmitSynthetic(d) \/ EmitTerminal(d)

Kernel(d) ==
  \/ Start(d) \/ NextInvocation(d) \/ Finish(d)
  \/ GatePasses(d) \/ GateSkips(d) \/ GateTerminates(d)
  \/ ToolReturns(d) \/ ToolFails(d)

Next == \E d \in Dispatch : Hook(d) \/ Kernel(d) \/ Cancel(d)

Spec == Init /\ [][Next]_vars

-----------------------------------------------------------------------------
(* Properties *)

Where == {"new", "ready", "before", "invoked", "remember", "gate", "tool",
          "resolve", "synthetic", "announce", "terminal"} \cup Over

TypeOK ==
  /\ counter \in Nat
  /\ inFlight \in Nat \cup {None}
  /\ log \in Seq([kind : {"invoked"} \cup TerminalKind, call : Nat,
                  of : Dispatch \X Nat, timed : BOOLEAN])
  /\ pc \in [Dispatch -> Where]
  /\ gateFirst \in [Dispatch -> BOOLEAN]
  /\ nth \in [Dispatch -> Nat]
  /\ held \in [Dispatch -> Nat]
  /\ timed \in [Dispatch -> BOOLEAN]
  /\ outcome \in [Dispatch -> TerminalKind]
  /\ overlapped \in BOOLEAN

Invoked(i)  == log[i].kind = "invoked"
Terminal(i) == log[i].kind \in TerminalKind

\* A call id is announced once and resolved at most once, however many
\* dispatches share the hook and however many of them are dropped.
CallIdsUnique ==
  \A i, j \in DOMAIN log :
    log[i].call = log[j].call /\ (Invoked(i) <=> Invoked(j)) => i = j

\* No terminal event without its tool.invoked earlier in the stream, synthetic
\* if need be: emit_invoked runs before set_in_flight publishes the id.
TerminalAfterInvoked ==
  \A j \in DOMAIN log : Terminal(j) =>
    \E i \in 1..(j - 1) : Invoked(i) /\ log[i].call = log[j].call

\* Call ids make the stream pairable whatever the dispatches do: unique, and
\* announced before they are resolved.
CallsArePairable == CallIdsUnique /\ TerminalAfterInvoked

\* What the hook is written for: one dispatch at a time, run to its end.
OneByOne == ~overlapped /\ \A d \in Dispatch : pc[d] # "dropped"

OwnPairs ==
  \A i, j \in DOMAIN log :
    Invoked(i) /\ Terminal(j) /\ log[i].call = log[j].call
      => log[i].of = log[j].of

CompletionsTimed == \A j \in DOMAIN log : log[j].kind = "completed" => log[j].timed

\* "tool.completed paired by call_id", "tool.terminated paired by call_id for
\* the invocation that just failed" (module doc), and "the dispatch hook owns
\* both ends so duration_ms must be populated" (tests/dispatch_observe.rs): with
\* one dispatch at a time, the invoked event with the call id of a terminal
\* event is about the same invocation, and a completed call is timed.
TerminalsAreOwn == OneByOne => OwnPairs /\ CompletionsTimed

\* "If this observer did not see before_invocation because an earlier hook
\* skipped, it first emits a synthetic tool.invoked so the call_id remains
\* pairable" (module doc): also after a dispatch that was dropped.
PairsSurviveDrops == ~overlapped => OwnPairs

\* When a dispatch is over, every invocation it reached has one tool.invoked
\* and one terminal event, whichever hook decided its fate, with one dispatch
\* at a time.
OverMeansResolved ==
  OneByOne =>
    \A d \in Dispatch : pc[d] \in {"finished", "failed"} =>
      \A n \in 1..nth[d] :
        /\ \E i \in DOMAIN log : Invoked(i) /\ log[i].of = <<d, n>>
        /\ \E j \in DOMAIN log : Terminal(j) /\ log[j].of = <<d, n>>
        /\ \A i, j \in DOMAIN log :
             log[i].of = <<d, n>> /\ log[j].of = <<d, n>>
               /\ (Invoked(i) <=> Invoked(j)) => i = j
=============================================================================
