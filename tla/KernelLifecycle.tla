--------------------------- MODULE KernelLifecycle ----------------------------
(***************************************************************************)
(* DispatchObserveHook (dispatch.rs) as a rig_compose::AgentLifecycleHook:  *)
(* kernel start, loop iterations, skills, recoveries, and the shutdown that *)
(* Drop emits.  The hook sits in an Arc, shared by agents that are stepped  *)
(* on several threads.  Its methods do not await, but they touch the cached *)
(* kernel id, the started flag, the iteration counter, the tick and the     *)
(* capturing layer one after the other; each touch is a step here.          *)
(*                                                                          *)
(* The agent is external: step() calls before_step, then the skills, then   *)
(* after_step or on_step_error.  A step looks at one skill at most.         *)
(***************************************************************************)
EXTENDS Integers, Sequences

CONSTANTS
  Thread,     \* threads, each with a reference to the hook
  Kernel,     \* kernel ids: the ids of the agents
  MaxSteps,   \* bound: steps begun by all threads together
  MaxCleared, \* bound: events cleared
  None        \* Option::None

ASSUME BoundsAssumption == MaxSteps \in Nat /\ MaxCleared \in Nat

VARIABLES
  tick, built, buffer, cleared,             \* the event stream
  kernelStarted, loopCounter, kernelId,     \* the hook: kernel_id_cache
  pc,      \* where each thread is
  agent,   \* the agent it steps
  claimed, \* the iteration it has claimed and not emitted yet
  steps,   \* how many steps have begun
  raced    \* history: a step began while another one was starting the kernel

streamVars == <<tick, built, buffer, cleared>>
hookVars   == <<kernelStarted, loopCounter, kernelId>>
threadVars == <<agent, claimed, steps, raced>>
vars       == <<streamVars, hookVars, pc, threadVars>>

KernelEvent ==
  [kind : {"kernel_start", "loop_iteration", "skill_resolved", "recovery",
           "kernel_shutdown"},
   kernel : Kernel, n : Nat]

Stream == INSTANCE EventStream WITH Producer <- Thread, Body <- KernelEvent

ASSUME NoneAssumption ==
  None \notin Kernel /\ None \notin Nat /\ None \notin Stream!Event

wire == Stream!wire

Init ==
  /\ Stream!Init
  /\ kernelStarted = FALSE
  /\ loopCounter = 0
  /\ kernelId = None
  /\ pc = [t \in Thread |-> "idle"]
  /\ agent \in [Thread -> Kernel]
  /\ claimed = [t \in Thread |-> None]
  /\ steps = 0
  /\ raced = FALSE

\* A thread goes on only when the event it has built is dispatched.
Go(t, from, to) ==
  /\ pc[t] = from
  /\ built[t] = None
  /\ pc' = [pc EXCEPT ![t] = to]

Emit(t, kind, kernel, n) ==
  Stream!Build(t, [kind |-> kind, kernel |-> kernel, n |-> n])

\* Mutant of Dispatch: the layer gives the event up when it finds the lock taken.
DispatchOrGiveUp(t) ==
  /\ built[t] # None
  /\ built' = [built EXCEPT ![t] = None]
  /\ buffer' = IF \E u \in Thread \ {t} : built[u] # None
                 THEN buffer ELSE Append(buffer, built[t])
  /\ UNCHANGED <<tick, cleared, hookVars, pc, threadVars>>

Dispatch(t) == Stream!Capture(t) /\ UNCHANGED <<hookVars, pc, threadVars>>

-----------------------------------------------------------------------------
(* before_step *)

\* Where a thread is from before_step's first line to the kernel_start event.
Starting(t) ==
  \/ pc[t] \in {"cache", "swap"} /\ ~kernelStarted
  \/ pc[t] \in {"reset", "start"}
  \/ pc[t] = "iterate" /\ built[t] # None

BeginStep(t) ==
  /\ steps < MaxSteps
  /\ Go(t, "idle", "cache")
  /\ steps' = steps + 1
  /\ raced' = (raced \/ \E u \in Thread : Starting(u))
  /\ UNCHANGED <<streamVars, hookVars, agent, claimed>>

\* Mutant of CacheKernelId: a later agent overwrites the id.
CacheKernelIdOverwrites(t) ==
  /\ Go(t, "cache", "swap")
  /\ kernelId' = agent[t]
  /\ UNCHANGED <<streamVars, kernelStarted, loopCounter, threadVars>>

CacheKernelId(t) ==
  /\ Go(t, "cache", "swap")
  /\ kernelId' = IF kernelId = None THEN agent[t] ELSE kernelId
  /\ UNCHANGED <<streamVars, kernelStarted, loopCounter, threadVars>>

\* kernel_started.swap: one thread sees false.
SwapStarted(t) ==
  /\ Go(t, "swap", IF kernelStarted THEN "iterate" ELSE "reset")
  /\ kernelStarted' = TRUE
  /\ UNCHANGED <<streamVars, loopCounter, kernelId, threadVars>>

ResetLoopCounter(t) ==
  /\ Go(t, "reset", "start")
  /\ loopCounter' = 0
  /\ UNCHANGED <<streamVars, kernelStarted, kernelId, threadVars>>

EmitKernelStart(t) ==
  /\ Go(t, "start", "iterate")
  /\ Emit(t, "kernel_start", agent[t], 0)
  /\ UNCHANGED <<hookVars, threadVars>>

\* Mutant of NextIteration: the value is dropped.
NextIterationForgets(t) ==
  /\ Go(t, "iterate", "iteration")
  /\ loopCounter' = loopCounter + 1
  /\ UNCHANGED <<streamVars, kernelStarted, kernelId, threadVars>>

\* next_iteration, evaluated before the event is built.
NextIteration(t) ==
  /\ Go(t, "iterate", "iteration")
  /\ claimed' = [claimed EXCEPT ![t] = loopCounter]
  /\ loopCounter' = loopCounter + 1
  /\ UNCHANGED <<streamVars, kernelStarted, kernelId, agent, steps, raced>>

EmitLoopIteration(t) ==
  /\ Go(t, "iteration", "skills")
  /\ Emit(t, "loop_iteration", agent[t], claimed[t])
  /\ claimed' = [claimed EXCEPT ![t] = None]
  /\ UNCHANGED <<hookVars, agent, steps, raced>>

-----------------------------------------------------------------------------
(* before_skill, after_skill, after_step, on_step_error *)

EmitSkillResolved(t) ==
  /\ Emit(t, "skill_resolved", agent[t], 0)
  /\ UNCHANGED <<hookVars, threadVars>>

\* before_skill of a skill that does not apply
SkillDeclined(t) == Go(t, "skills", "idle") /\ EmitSkillResolved(t)

\* before_skill of a skill that applies emits nothing; after_skill does.
SkillApplies(t) ==
  /\ Go(t, "skills", "skill")
  /\ UNCHANGED <<streamVars, hookVars, threadVars>>

\* ... and after_step, which emits nothing
AfterSkill(t) == Go(t, "skill", "idle") /\ EmitSkillResolved(t)

OnStepError(t) ==
  /\ Go(t, "skill", "idle")
  /\ Emit(t, "recovery", agent[t], 0)
  /\ UNCHANGED <<hookVars, threadVars>>

\* The caller drops the step while it awaits the skill.
AbandonStep(t) ==
  /\ Go(t, "skill", "idle")
  /\ UNCHANGED <<streamVars, hookVars, threadVars>>

-----------------------------------------------------------------------------
(* Arc and Drop *)

\* Mutant of Release: every reference that goes away ends the kernel.
ReleaseEach(t) ==
  /\ Go(t, "idle", "drop")
  /\ UNCHANGED <<streamVars, hookVars, threadVars>>

\* A thread gives up its reference; the last one runs Drop.
Release(t) ==
  /\ Go(t, "idle",
        IF \A u \in Thread \ {t} : pc[u] = "released" THEN "drop" ELSE "released")
  /\ UNCHANGED <<streamVars, hookVars, threadVars>>

\* The hook may never have been bound to an agent.
DropUnstarted(t) ==
  /\ ~kernelStarted
  /\ Go(t, "drop", "released")
  /\ UNCHANGED <<streamVars, hookVars, threadVars>>

DropStarted(t) ==
  /\ kernelStarted
  /\ kernelId # None
  /\ Go(t, "drop", "released")
  /\ Emit(t, "kernel_shutdown", kernelId, 0)
  /\ kernelId' = None
  /\ UNCHANGED <<kernelStarted, loopCounter, threadVars>>

\* The host clears the capturing layer, while events are on their way to it.
ClearEvents ==
  /\ Len(wire) <= MaxCleared
  /\ Stream!Clear
  /\ UNCHANGED <<hookVars, pc, threadVars>>

BeforeStep(t) ==
  \/ CacheKernelId(t) \/ SwapStarted(t) \/ ResetLoopCounter(t)
  \/ EmitKernelStart(t) \/ NextIteration(t) \/ EmitLoopIteration(t)

Skills(t) ==
  \/ SkillDeclined(t) \/ SkillApplies(t) \/ AfterSkill(t)
  \/ OnStepError(t) \/ AbandonStep(t)

Drop(t) == Release(t) \/ DropUnstarted(t) \/ DropStarted(t)

Next ==
  \/ ClearEvents
  \/ \E t \in Thread :
       BeginStep(t) \/ BeforeStep(t) \/ Skills(t) \/ Drop(t) \/ Dispatch(t)

Spec == Init /\ [][Next]_vars

-----------------------------------------------------------------------------
(* Properties *)

TypeOK ==
  /\ Stream!TypeOK
  /\ kernelStarted \in BOOLEAN
  /\ loopCounter \in Nat
  /\ kernelId \in Kernel \cup {None}
  /\ pc \in [Thread -> {"idle", "cache", "swap", "reset", "start", "iterate",
                        "iteration", "skills", "skill", "drop", "released"}]
  /\ agent \in [Thread -> Kernel]
  /\ claimed \in [Thread -> Nat \cup {None}]
  /\ steps \in Nat
  /\ raced \in BOOLEAN

Is(i, kind) == wire[i].body.kind = kind

\* The kernel uses the stream as it is meant to be used.
ImplementsStream == Stream!Spec

\* Over any interleaving of the hook's emissions and of clear(), ticks are
\* claimed once and none is lost, and an event emitted after another one was
\* captured has the higher tick (see EventStream).
TicksAreSound == Stream!TicksAccountedFor /\ Stream!TicksRespectCausality

\* However many threads take their first step at once, the kernel starts once;
\* it shuts down once, after every other event and with the highest tick, and
\* once the last reference is gone it has shut down if and only if it started.
LifecycleIsBracketed ==
  /\ \A i, j \in DOMAIN wire :
       \A kind \in {"kernel_start", "kernel_shutdown"} :
         Is(i, kind) /\ Is(j, kind) => i = j
  /\ \A i \in DOMAIN wire : Is(i, "kernel_shutdown") =>
       /\ i = Len(wire)
       /\ wire[i].tick = tick - 1
       /\ \A t \in Thread : pc[t] = "released" /\ built[t] = None
  /\ (\A t \in Thread : pc[t] = "released" /\ built[t] = None) =>
       ((\E i \in DOMAIN wire : Is(i, "kernel_start"))
          <=> (\E i \in DOMAIN wire : Is(i, "kernel_shutdown")))

\* Unless a step began while another one was starting the kernel, the start
\* precedes everything else and the shutdown names the kernel that started: the
\* id cached by the first before_step is the one of the thread that wins the swap.
StartComesFirst ==
  ~raced => \A i \in DOMAIN wire :
    /\ Is(i, "kernel_start") <=> i = 1
    /\ Is(i, "kernel_shutdown") => wire[i].body.kernel = wire[1].body.kernel

\* On the same condition the iterations are numbered from 0 without a gap or a
\* repetition, and in order on each thread: the reset happens before the first
\* claim, and later steps may overlap as they like.
IterationsNumbered ==
  ~raced =>
    /\ \A n \in 0..(loopCounter - 1) :
         \/ \E i \in DOMAIN wire : Is(i, "loop_iteration") /\ wire[i].body.n = n
         \/ \E t \in Thread :
              \/ claimed[t] = n
              \/ pc[t] = "skills" /\ built[t] # None /\ built[t].body.n = n
    /\ \A i, j \in DOMAIN wire :
         Is(i, "loop_iteration") /\ Is(j, "loop_iteration") =>
           /\ wire[i].body.n < loopCounter
           /\ wire[i].body.n = wire[j].body.n => i = j
           /\ i < j /\ wire[i].by = wire[j].by => wire[i].body.n < wire[j].body.n

\* Where no start is raced, a kernel's events are in order from the first one on:
\* a start, then iterations without a gap.
StartsInOrder == StartComesFirst /\ IterationsNumbered

\* "the first compose.loop_iteration after start is always iteration = 0"
\* (dispatch.rs:220): no other iteration is captured between the two.
FirstIterationIsZero ==
  \A i, j \in DOMAIN wire :
    (/\ i < j
     /\ Is(i, "kernel_start")
     /\ Is(j, "loop_iteration")
     /\ \A k \in (i + 1)..(j - 1) : ~Is(k, "loop_iteration"))
    => wire[j].body.n = 0
=============================================================================
