---------------------------- MODULE ObservedMemory ----------------------------
(***************************************************************************)
(* ObservedMemory (observed_memory.rs): a ConversationMemory that reports   *)
(* what it loads and appends.  Every method awaits the inner memory and     *)
(* emits its event, if any, after the await, so tasks that share the        *)
(* memory are reported in another order than they acted, and an operation   *)
(* whose future is dropped, or fails, after it acted is not reported.       *)
(*                                                                          *)
(* The inner memory is external: each operation takes effect at once at     *)
(* some time between its call and its return.  Messages are counted; their  *)
(* sizes in bytes are left out.                                             *)
(***************************************************************************)
EXTENDS Integers, Sequences, FiniteSetsExt

CONSTANTS
  Task,          \* tasks that share the memory
  Conversation,
  MaxBatch,      \* bound: messages of an append
  MaxCalls       \* bound: operations of all tasks together

ASSUME BoundsAssumption == MaxBatch \in Nat /\ MaxCalls \in Nat
ASSUME TaskAssumption == IsFiniteSet(Task)

VARIABLES
  memory,   \* per conversation: the messages the inner memory holds
  pc,       \* where each task is
  on,       \* the conversation its operation is about
  count,    \* message_count
  calls,    \* how many operations have begun
  log,      \* every event emitted so far, in the order of their ticks
  began,    \* history: what there was when a task's operation began
  clears,   \* history: how often a conversation has been cleared
  removed,  \* history: messages cleared
  silent    \* history: messages appended by operations that were not reported

vars == <<memory, pc, on, count, calls, log, began, clears, removed, silent>>

taskVars    == <<on, calls, began>>
historyVars == <<clears, removed, silent>>

Init ==
  /\ memory = [c \in Conversation |-> 0]
  /\ pc = [t \in Task |-> "idle"]
  /\ on \in [Task -> Conversation]
  /\ count = [t \in Task |-> 0]
  /\ calls = 0
  /\ log = <<>>
  /\ began = [t \in Task |-> [events |-> 0, clears |-> 0]]
  /\ clears = [c \in Conversation |-> 0]
  /\ removed = [c \in Conversation |-> 0]
  /\ silent = [c \in Conversation |-> 0]

Go(t, from, to) == pc[t] = from /\ pc' = [pc EXCEPT ![t] = to]

\* A task calls a method about the conversation c.
Begin(t, c, to) ==
  /\ calls < MaxCalls
  /\ Go(t, "idle", to)
  /\ calls' = calls + 1
  /\ on' = [on EXCEPT ![t] = c]
  /\ began' = [began EXCEPT ![t] = [events |-> Len(log), clears |-> clears[c]]]
  /\ UNCHANGED <<memory, historyVars>>

\* An event about the operation of t; began and ended are history fields.
Emit(t, kind) ==
  log' = Append(log, [kind |-> kind, conversation |-> on[t], count |-> count[t],
                      began |-> began[t], ended |-> clears[on[t]]])

-----------------------------------------------------------------------------
(* load: the messages are counted when the inner load has returned them *)

BeginLoad(t) ==
  \E c \in Conversation : Begin(t, c, "load") /\ UNCHANGED <<count, log>>

InnerLoad(t) ==
  /\ Go(t, "load", "loaded")
  /\ count' = [count EXCEPT ![t] = memory[on[t]]]
  /\ UNCHANGED <<memory, log, taskVars, historyVars>>

\* Mutant of LoadReturns: what the memory has gained since the load is reported.
LoadReturnsGain(t) ==
  /\ Go(t, "loaded", "idle")
  /\ log' = Append(log, [kind |-> "sampled", conversation |-> on[t],
                         count |-> memory[on[t]] - count[t], began |-> began[t],
                         ended |-> clears[on[t]]])
  /\ UNCHANGED <<memory, count, taskVars, historyVars>>

LoadReturns(t) ==
  /\ Go(t, "loaded", "idle")
  /\ Emit(t, "sampled")
  /\ UNCHANGED <<memory, count, taskVars, historyVars>>

-----------------------------------------------------------------------------
(* append: the messages are counted before they are handed over *)

BeginAppend(t) ==
  \E c \in Conversation, n \in 0..MaxBatch :
    /\ Begin(t, c, "append")
    /\ count' = [count EXCEPT ![t] = n]
    /\ UNCHANGED log

InnerAppend(t) ==
  /\ Go(t, "append", "appended")
  /\ memory' = [memory EXCEPT ![on[t]] = @ + count[t]]
  /\ UNCHANGED <<count, log, taskVars, historyVars>>

\* Mutant of AppendReturns: the size of the memory is reported.
AppendReturnsTotal(t) ==
  /\ Go(t, "appended", "idle")
  /\ log' = Append(log, [kind |-> "persisted", conversation |-> on[t],
                         count |-> memory[on[t]], began |-> began[t],
                         ended |-> clears[on[t]]])
  /\ UNCHANGED <<memory, count, taskVars, historyVars>>

\* Mutant of AppendReturns: reported with the kind of event that a load has.
AppendReturnsSampled(t) ==
  /\ Go(t, "appended", "idle")
  /\ Emit(t, "sampled")
  /\ UNCHANGED <<memory, count, taskVars, historyVars>>

AppendReturns(t) ==
  /\ Go(t, "appended", "idle")
  /\ Emit(t, "persisted")
  /\ UNCHANGED <<memory, count, taskVars, historyVars>>

-----------------------------------------------------------------------------
(* clear passes through *)

BeginClear(t) ==
  \E c \in Conversation : Begin(t, c, "clear") /\ UNCHANGED <<count, log>>

InnerClear(t) ==
  /\ Go(t, "clear", "cleared")
  /\ memory' = [memory EXCEPT ![on[t]] = 0]
  /\ removed' = [removed EXCEPT ![on[t]] = @ + memory[on[t]]]
  /\ clears' = [clears EXCEPT ![on[t]] = @ + 1]
  /\ UNCHANGED <<count, log, taskVars, silent>>

ClearReturns(t) ==
  Go(t, "cleared", "idle") /\ UNCHANGED <<memory, count, log, taskVars, historyVars>>

-----------------------------------------------------------------------------
(* Operations that end without a report *)

Pending == {"load", "append", "clear"}
Done    == {"loaded", "appended", "cleared"}

\* Mutant of Breaks: an operation that fails is reported as well.
BreaksReported(t) ==
  /\ \E at \in Pending \cup Done : Go(t, at, "idle")
  /\ IF pc[t] \in {"append", "appended"} THEN Emit(t, "persisted") ELSE UNCHANGED log
  /\ UNCHANGED <<memory, count, taskVars, historyVars>>

\* The inner memory fails and `?` returns its error, or the caller drops the
\* future; the inner operation may have taken effect or not.
Breaks(t) ==
  /\ \E at \in Pending \cup Done : Go(t, at, "idle")
  /\ silent' = IF pc[t] = "appended" THEN [silent EXCEPT ![on[t]] = @ + count[t]]
               ELSE silent
  /\ UNCHANGED <<memory, count, log, taskVars, clears, removed>>

Next ==
  \E t \in Task :
    \/ BeginLoad(t) \/ InnerLoad(t) \/ LoadReturns(t)
    \/ BeginAppend(t) \/ InnerAppend(t) \/ AppendReturns(t)
    \/ BeginClear(t) \/ InnerClear(t) \/ ClearReturns(t)
    \/ Breaks(t)

Spec == Init /\ [][Next]_vars

-----------------------------------------------------------------------------
(* Properties *)

Marks == [events : Nat, clears : Nat]

Event == [kind : {"sampled", "persisted"}, conversation : Conversation,
          count : Nat, began : Marks, ended : Nat]

TypeOK ==
  /\ memory \in [Conversation -> Nat]
  /\ pc \in [Task -> {"idle"} \cup Pending \cup Done]
  /\ on \in [Task -> Conversation]
  /\ count \in [Task -> Nat]
  /\ calls \in Nat
  /\ log \in Seq(Event)
  /\ began \in [Task -> Marks]
  /\ clears \in [Conversation -> Nat]
  /\ removed \in [Conversation -> Nat]
  /\ silent \in [Conversation -> Nat]

\* The messages that the events with a place in `places` say were persisted.
Persisted(places) == SumFunctionOnSet([i \in DOMAIN log |-> log[i].count], places)

Persists(c) == {i \in DOMAIN log : log[i].kind = "persisted" /\ log[i].conversation = c}

\* What the stream says was persisted is what the memory got: all the messages
\* of a conversation, those cleared since included, are in exactly one
\* context.persisted event, about to be in one, or of an append that failed or was
\* dropped after it took effect.
MessagesAccountedFor ==
  \A c \in Conversation :
    LET reporting == {t \in Task : pc[t] = "appended" /\ on[t] = c} IN
    memory[c] + removed[c] =
      Persisted(Persists(c)) + SumFunctionOnSet(count, reporting) + silent[c]

\* A context.sampled event never misses messages whose context.persisted event was
\* there when the load began, unless the conversation was cleared since they were
\* appended.
SamplesCoverReports ==
  \A i \in DOMAIN log : log[i].kind = "sampled" =>
    LET seen == {j \in Persists(log[i].conversation) :
                   /\ j <= log[i].began.events
                   /\ log[j].began.clears = log[i].ended}
    IN  Persisted(seen) <= log[i].count

\* "the active-context-size curve" (module doc): of two samples of a conversation,
\* the second loaded after the first was reported, the second is not smaller unless
\* the conversation was cleared meanwhile, however appends and other loads interleave.
SamplesNeverShrink ==
  \A i, j \in DOMAIN log :
    /\ log[i].kind = "sampled" /\ log[j].kind = "sampled"
    /\ log[i].conversation = log[j].conversation
    /\ i <= log[j].began.events
    /\ log[i].began.clears = log[j].ended
    => log[i].count <= log[j].count
=============================================================================
