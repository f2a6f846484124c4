------------------------ MODULE KernelLifecycle_proofs ------------------------
(***************************************************************************)
(* The kernel lifecycle uses the event stream as EventStream specifies, so  *)
(* what EventStream_proofs shows of the stream holds of the kernel's events *)
(* for every set of threads and agents; and the kernel starts and shuts     *)
(* down at most once, whatever the threads do.                              *)
(***************************************************************************)
EXTENDS KernelLifecycle, TLAPS

Proofs == INSTANCE EventStream_proofs WITH Producer <- Thread, Body <- KernelEvent

\* The two instances of EventStream say the same.
LEMMA SameStream == Proofs!Spec <=> Stream!Spec
  BY DEF Proofs!Spec, Proofs!Init, Proofs!Next, Proofs!Clear, Proofs!Capture,
         Proofs!BuildSome, Proofs!Build, Proofs!wire, Proofs!streamVars,
         Stream!Spec, Stream!Init, Stream!Next, Stream!Clear, Stream!Capture,
         Stream!BuildSome, Stream!Build, Stream!wire, Stream!streamVars

(***************************************************************************)
(* Types, and with them what a thread emits                                *)
(***************************************************************************)

\* A thread emits the iteration it has claimed.
ClaimedBeforeEmitted ==
  \A t \in Thread : pc[t] = "iteration" => claimed[t] \in Nat

HookTypes ==
  /\ kernelStarted \in BOOLEAN
  /\ loopCounter \in Nat
  /\ kernelId \in Kernel \cup {None}
  /\ pc \in [Thread -> {"idle", "cache", "swap", "reset", "start", "iterate",
                        "iteration", "skills", "skill", "drop", "released"}]
  /\ agent \in [Thread -> Kernel]
  /\ claimed \in [Thread -> Nat \cup {None}]
  /\ steps \in Nat
  /\ raced \in BOOLEAN

HookInv == HookTypes /\ ClaimedBeforeEmitted

\* What one step does to the stream: an event of t is built or captured, the
\* captured events are cleared, or nothing happens to it.
StreamStep ==
  \/ UNCHANGED streamVars
  \/ Stream!Clear
  \/ \E t \in Thread :
       \/ Stream!Capture(t)
       \/ \E body \in KernelEvent : Stream!Build(t, body)

LEMMA InitHook == Init => HookInv
  <1> SUFFICES ASSUME Init PROVE HookInv
    OBVIOUS
  <1>1. pc = [t \in Thread |-> "idle"] /\ claimed = [t \in Thread |-> None]
    BY DEF Init
  <1>2. ClaimedBeforeEmitted
    BY <1>1 DEF ClaimedBeforeEmitted
  <1>3. HookTypes
    BY <1>1 DEF Init, HookTypes
  <1> QED
    BY <1>2, <1>3 DEF HookInv

LEMMA BodyIsEvent ==
  ASSUME NEW t, NEW kernel \in Kernel, NEW n \in Nat,
         NEW kind \in {"kernel_start", "loop_iteration", "skill_resolved",
                      "recovery", "kernel_shutdown"},
         Emit(t, kind, kernel, n)
  PROVE  \E body \in KernelEvent : Stream!Build(t, body)
  <1> DEFINE body == [kind |-> kind, kernel |-> kernel, n |-> n]
  <1>1. body \in KernelEvent
    BY DEF KernelEvent
  <1>2. Stream!Build(t, body)
    BY DEF Emit
  <1> QED
    BY <1>1, <1>2

LEMMA StepHook ==
  ASSUME HookInv, [Next]_vars
  PROVE  HookInv' /\ StreamStep
  <1> USE DEF HookInv, HookTypes, ClaimedBeforeEmitted, Go
  <1>1. CASE UNCHANGED vars
    BY <1>1 DEF vars, hookVars, threadVars, StreamStep
  <1>2. ASSUME NEW t \in Thread, BeginStep(t) PROVE HookInv' /\ StreamStep
    BY <1>2 DEF BeginStep, hookVars, StreamStep
  <1>3. ASSUME NEW t \in Thread, BeforeStep(t) PROVE HookInv' /\ StreamStep
    <2>1. CASE CacheKernelId(t)
      BY <2>1 DEF CacheKernelId, threadVars, StreamStep
    <2>2. CASE SwapStarted(t)
      BY <2>2 DEF SwapStarted, threadVars, StreamStep
    <2>3. CASE ResetLoopCounter(t)
      BY <2>3 DEF ResetLoopCounter, threadVars, StreamStep
    <2>4. CASE EmitKernelStart(t)
      <3>1. StreamStep
        BY <2>4, BodyIsEvent DEF EmitKernelStart, StreamStep
      <3> QED
        BY <2>4, <3>1 DEF EmitKernelStart, hookVars, threadVars
    <2>5. CASE NextIteration(t)
      BY <2>5 DEF NextIteration, StreamStep
    <2>6. CASE EmitLoopIteration(t)
      <3>1. StreamStep
        BY <2>6, BodyIsEvent DEF EmitLoopIteration, StreamStep
      <3> QED
        BY <2>6, <3>1 DEF EmitLoopIteration, hookVars
    <2> QED
      BY <1>3, <2>1, <2>2, <2>3, <2>4, <2>5, <2>6 DEF BeforeStep
  <1>4. ASSUME NEW t \in Thread, Skills(t) PROVE HookInv' /\ StreamStep
    <2>1. CASE SkillDeclined(t) \/ AfterSkill(t)
      <3>1. StreamStep
        BY <2>1, BodyIsEvent
        DEF SkillDeclined, AfterSkill, EmitSkillResolved, StreamStep
      <3> QED
        BY <2>1, <3>1
        DEF SkillDeclined, AfterSkill, EmitSkillResolved, hookVars, threadVars
    <2>2. CASE SkillApplies(t) \/ AbandonStep(t)
      BY <2>2 DEF SkillApplies, AbandonStep, hookVars, threadVars, StreamStep
    <2>3. CASE OnStepError(t)
      <3>1. StreamStep
        BY <2>3, BodyIsEvent DEF OnStepError, StreamStep
      <3> QED
        BY <2>3, <3>1 DEF OnStepError, hookVars, threadVars
    <2> QED
      BY <1>4, <2>1, <2>2, <2>3 DEF Skills
  <1>5. ASSUME NEW t \in Thread, Drop(t) PROVE HookInv' /\ StreamStep
    <2>1. CASE Release(t) \/ DropUnstarted(t)
      BY <2>1 DEF Release, DropUnstarted, hookVars, threadVars, StreamStep
    <2>2. CASE DropStarted(t)
      <3>1. StreamStep
        BY <2>2, BodyIsEvent DEF DropStarted, StreamStep
      <3> QED
        BY <2>2, <3>1 DEF DropStarted, threadVars
    <2> QED
      BY <1>5, <2>1, <2>2 DEF Drop
  <1>6. ASSUME NEW t \in Thread, Dispatch(t) PROVE HookInv' /\ StreamStep
    BY <1>6 DEF Dispatch, hookVars, threadVars, StreamStep
  <1>7. CASE ClearEvents
    BY <1>7 DEF ClearEvents, hookVars, threadVars, StreamStep
  <1> QED
    BY <1>1, <1>2, <1>3, <1>4, <1>5, <1>6, <1>7 DEF Next

(***************************************************************************)
(* Implementation of the stream, and what follows                          *)
(***************************************************************************)

\* An event that is built is in the producer's hands.
LEMMA BuiltIsSome ==
  ASSUME Stream!TypeOK, NEW t \in Thread, NEW body \in KernelEvent,
         Stream!Build(t, body)
  PROVE  Stream!BuildSome(t)
  <1> DEFINE e == [body |-> body, by |-> t, tick |-> tick, seen |-> Len(Stream!wire)]
  <1>1. Stream!wire \in Seq(Stream!Event) /\ tick \in Nat
    BY DEF Stream!TypeOK, Stream!wire
  <1>2. e \in Stream!Event
    BY <1>1 DEF Stream!Event
  <1>3. built'[t] = e
    BY DEF Stream!Build, Stream!TypeOK
  <1> QED
    BY <1>2, <1>3, NoneAssumption DEF Stream!BuildSome

LEMMA StepStream ==
  ASSUME Stream!TypeOK, StreamStep
  PROVE  [Stream!Next]_(Stream!streamVars) /\ Stream!TypeOK'
  <1>1. CASE UNCHANGED streamVars
    BY <1>1 DEF streamVars, Stream!streamVars, Stream!TypeOK
  <1>2. ASSUME NEW t \in Thread, Stream!Capture(t)
        PROVE  Stream!Next /\ Stream!TypeOK'
    <2>1. Stream!TypeOK'
      BY <1>2 DEF Stream!Capture, Stream!TypeOK
    <2> QED
      BY <1>2, <2>1 DEF Stream!Next
  <1>3. ASSUME NEW t \in Thread, NEW body \in KernelEvent, Stream!Build(t, body)
        PROVE  Stream!Next /\ Stream!TypeOK'
    <2>1. Stream!Next
      BY <1>3, BuiltIsSome DEF Stream!Next
    <2>2. Stream!wire \in Seq(Stream!Event) /\ tick \in Nat
      BY DEF Stream!TypeOK, Stream!wire
    <2>3. [body |-> body, by |-> t, tick |-> tick, seen |-> Len(Stream!wire)]
            \in Stream!Event
      BY <2>2 DEF Stream!Event
    <2>4. Stream!TypeOK'
      BY <1>3, <2>3 DEF Stream!Build, Stream!TypeOK
    <2> QED
      BY <2>1, <2>4
  <1>4. CASE Stream!Clear
    <2>1. Stream!TypeOK'
      BY <1>4 DEF Stream!Clear, Stream!TypeOK, Stream!wire
    <2> QED
      BY <1>4, <2>1 DEF Stream!Next
  <1> QED
    BY <1>1, <1>2, <1>3, <1>4 DEF StreamStep

KernelInv == HookInv /\ Stream!TypeOK

LEMMA Invariant == Spec => []KernelInv
  <1>1. Init => KernelInv
    <2>1. Init => Stream!TypeOK
      BY DEF Init, Stream!Init, Stream!TypeOK
    <2> QED
      BY <2>1, InitHook DEF KernelInv
  <1>2. KernelInv /\ [Next]_vars => KernelInv'
    BY StepHook, StepStream DEF KernelInv
  <1> QED
    BY <1>1, <1>2, PTL DEF Spec

\* Every field keeps its type under every step.
THEOREM Typing == Spec => []TypeOK
  <1>1. KernelInv => TypeOK
    BY DEF KernelInv, HookInv, HookTypes, TypeOK
  <1> QED
    BY <1>1, Invariant, PTL

\* The hook's emissions are steps of the event stream.
THEOREM Implementation == Spec => ImplementsStream
  <1>1. Init => Stream!Init
    BY DEF Init
  <1>2. KernelInv /\ [Next]_vars => [Stream!Next]_(Stream!streamVars)
    BY StepHook, StepStream DEF KernelInv
  <1> QED
    BY <1>1, <1>2, Invariant, PTL DEF Spec, ImplementsStream, Stream!Spec

\* None of the hook's events is lost or shares its tick with another, and their
\* ticks respect causality.
THEOREM TicksStaySound == Spec => []TicksAreSound
  <1>1. None \notin Proofs!Event
    BY NoneAssumption DEF Stream!Event, Proofs!Event
  <1>2. Proofs!Spec => []Proofs!TicksAccountedFor
    BY <1>1, Proofs!Accounting
  <1>3. Proofs!Spec => []Proofs!TicksRespectCausality
    BY <1>1, Proofs!Causality
  <1>4. Proofs!TicksAccountedFor => Stream!TicksAccountedFor
    BY DEF Stream!TicksAccountedFor, Proofs!TicksAccountedFor, Stream!wire, Proofs!wire
  <1>5. Proofs!TicksRespectCausality => Stream!TicksRespectCausality
    BY DEF Stream!TicksRespectCausality, Proofs!TicksRespectCausality,
           Stream!wire, Proofs!wire
  <1>6. Stream!TicksAccountedFor /\ Stream!TicksRespectCausality => TicksAreSound
    BY DEF TicksAreSound
  <1> QED
    BY <1>2, <1>3, <1>4, <1>5, <1>6, Implementation, SameStream, PTL
    DEF ImplementsStream

(***************************************************************************)
(* Start and shutdown                                                      *)
(***************************************************************************)

InWire(kind) == \E i \in DOMAIN wire : wire[i].body.kind = kind

OnceInWire(kind) ==
  \A i, j \in DOMAIN wire :
    wire[i].body.kind = kind /\ wire[j].body.kind = kind => i = j

InHand(t, kind) == built[t] # None /\ built[t].body.kind = kind

\* t has won the swap and not built the start yet.
Claims(t) == pc[t] \in {"reset", "start"}

Owns(t) == Claims(t) \/ InHand(t, "kernel_start")

\* The start is claimed by one thread, then in its hand, then in the wire.
StartInv ==
  /\ \A t \in Thread :
       /\ Owns(t) => kernelStarted /\ ~InWire("kernel_start")
       /\ ~(Claims(t) /\ InHand(t, "kernel_start"))
  /\ \A t, u \in Thread : Owns(t) /\ Owns(u) => t = u
  /\ InWire("kernel_start") => kernelStarted
  /\ OnceInWire("kernel_start")
  /\ kernelStarted => InWire("kernel_start") \/ \E t \in Thread : Owns(t)

AllReleased == \A t \in Thread : pc[t] = "released"

Quiet == \A t \in Thread : built[t] = None

\* The shutdown comes when every reference is gone and every event captured.
ShutdownInv ==
  /\ \A t \in Thread : pc[t] = "drop" =>
       /\ \A u \in Thread \ {t} : pc[u] = "released"
       /\ Quiet
       /\ ~InWire("kernel_shutdown")
  /\ \A t \in Thread : pc[t] = "released" /\ built[t] # None =>
       InHand(t, "kernel_shutdown")
  /\ \A t \in Thread : InHand(t, "kernel_shutdown") =>
       /\ AllReleased
       /\ \A u \in Thread \ {t} : built[u] = None
       /\ built[t].tick = tick - 1
       /\ ~InWire("kernel_shutdown")
       /\ kernelStarted
  /\ \A i \in DOMAIN wire : wire[i].body.kind = "kernel_shutdown" =>
       /\ i = Len(wire)
       /\ wire[i].tick = tick - 1
       /\ AllReleased
       /\ Quiet
       /\ kernelStarted
  /\ kernelStarted /\ AllReleased =>
       \/ InWire("kernel_shutdown")
       \/ \E t \in Thread : InHand(t, "kernel_shutdown")

LifeInv == KernelInv /\ StartInv /\ ShutdownInv

\* What the three kinds of step do to the events in hand and in the wire.
LEMMA BuildEffect ==
  ASSUME KernelInv, NEW t \in Thread, NEW kernel \in Kernel, NEW n \in Nat,
         NEW kind \in {"kernel_start", "loop_iteration", "skill_resolved",
                      "recovery", "kernel_shutdown"},
         Emit(t, kind, kernel, n)
  PROVE  /\ wire' = wire /\ tick' = tick + 1
         /\ \A u \in Thread \ {t} : built'[u] = built[u]
         /\ built'[t] # None /\ built'[t].body.kind = kind /\ built'[t].tick = tick
  <1> DEFINE body == [kind |-> kind, kernel |-> kernel, n |-> n]
             e == [body |-> body, by |-> t, tick |-> tick, seen |-> Len(Stream!wire)]
  <1>1. body \in KernelEvent
    BY DEF KernelEvent
  <1>2. Stream!wire \in Seq(Stream!Event) /\ tick \in Nat
    BY DEF KernelInv, Stream!TypeOK, Stream!wire
  <1>3. e \in Stream!Event
    BY <1>1, <1>2 DEF Stream!Event
  <1>4. built' = [built EXCEPT ![t] = e] /\ tick' = tick + 1
        /\ UNCHANGED <<buffer, cleared>>
    BY DEF Emit, Stream!Build
  <1>5. built'[t] = e /\ \A u \in Thread \ {t} : built'[u] = built[u]
    BY <1>4 DEF KernelInv, Stream!TypeOK
  <1>6. wire' = wire
    BY <1>4 DEF wire, Stream!wire
  <1>7. e # None
    BY <1>3, NoneAssumption
  <1> QED
    BY <1>4, <1>5, <1>6, <1>7

LEMMA CaptureEffect ==
  ASSUME KernelInv, NEW t \in Thread, Stream!Capture(t)
  PROVE  /\ wire \in Seq(Stream!Event) /\ wire' = Append(wire, built[t])
         /\ built[t] \in Stream!Event /\ built[t] # None /\ tick' = tick
         /\ built'[t] = None
         /\ \A u \in Thread \ {t} : built'[u] = built[u]
  <1>1. cleared \in Seq(Stream!Event) /\ buffer \in Seq(Stream!Event)
        /\ built[t] \in Stream!Event
    BY DEF KernelInv, Stream!TypeOK, Stream!Capture
  <1>2. cleared' = cleared /\ buffer' = Append(buffer, built[t])
    BY DEF Stream!Capture
  <1>3. cleared \o Append(buffer, built[t]) = Append(cleared \o buffer, built[t])
    BY <1>1
  <1>4. wire \in Seq(Stream!Event) /\ wire' = Append(wire, built[t])
    BY <1>1, <1>2, <1>3 DEF wire, Stream!wire
  <1> QED
    BY <1>1, <1>4 DEF Stream!Capture, KernelInv, Stream!TypeOK

LEMMA QuietEffect ==
  ASSUME KernelInv, UNCHANGED streamVars \/ Stream!Clear
  PROVE  wire' = wire /\ tick' = tick /\ built' = built
  <1>1. cleared \in Seq(Stream!Event) /\ buffer \in Seq(Stream!Event)
    BY DEF KernelInv, Stream!TypeOK
  <1>2. CASE UNCHANGED streamVars
    BY <1>2 DEF wire, Stream!wire, streamVars
  <1>3. CASE Stream!Clear
    <2>1. cleared' = cleared \o buffer /\ buffer' = <<>>
      BY <1>3 DEF Stream!Clear, Stream!wire
    <2>2. (cleared \o buffer) \o <<>> = cleared \o buffer
      BY <1>1
    <2> QED
      BY <1>3, <2>1, <2>2 DEF wire, Stream!wire, Stream!Clear
  <1> QED
    BY <1>2, <1>3

LEMMA InitLife == Init => StartInv /\ ShutdownInv
  <1> SUFFICES ASSUME Init PROVE StartInv /\ ShutdownInv
    OBVIOUS
  <1>1. wire = <<>> /\ \A t \in Thread : built[t] = None /\ pc[t] = "idle"
    BY DEF Init, Stream!Init, wire, Stream!wire
  <1>2. ~kernelStarted
    BY DEF Init
  <1> QED
    BY <1>1, <1>2
    DEF StartInv, ShutdownInv, InWire, OnceInWire, InHand, Claims, Owns

\* While nobody begins or ends to own the start, its invariant stays.
LEMMA StartFrame ==
  ASSUME StartInv, kernelStarted' = kernelStarted,
         InWire("kernel_start")' <=> InWire("kernel_start"),
         OnceInWire("kernel_start")',
         \A u \in Thread : /\ Owns(u)' <=> Owns(u)
                          /\ ~(Claims(u) /\ InHand(u, "kernel_start"))'
  PROVE  StartInv'
  BY DEF StartInv

\* Where a reference is held, no shutdown has been built.
LEMMA NoShutdownYet ==
  ASSUME ShutdownInv, NEW t \in Thread, pc[t] # "released"
  PROVE  /\ ~InWire("kernel_shutdown")
         /\ \A u \in Thread : ~InHand(u, "kernel_shutdown")
         /\ \A u \in Thread : pc[u] = "released" => built[u] = None
         /\ pc[t] # "drop" => \A u \in Thread : pc[u] # "drop"
  <1>1. ~AllReleased
    BY DEF AllReleased
  <1>2. ~InWire("kernel_shutdown")
    BY <1>1 DEF ShutdownInv, InWire
  <1>3. \A u \in Thread : ~InHand(u, "kernel_shutdown")
    BY <1>1 DEF ShutdownInv
  <1>4. \A u \in Thread : pc[u] = "released" => built[u] = None
    BY <1>3 DEF ShutdownInv
  <1>5. pc[t] # "drop" => \A u \in Thread : pc[u] # "drop"
    BY DEF ShutdownInv
  <1> QED
    BY <1>2, <1>3, <1>4, <1>5

\* A thread that moves on within its step, with or without building an event.
LEMMA ShutdownMove ==
  ASSUME LifeInv, NEW t \in Thread, NEW from, NEW to,
         Go(t, from, to),
         from \notin {"drop", "released"}, to \notin {"drop", "released"},
         wire' = wire,
         \A u \in Thread \ {t} : built'[u] = built[u],
         built'[t] # None => built'[t].body.kind # "kernel_shutdown"
  PROVE  ShutdownInv'
  <1>1. pc \in [Thread -> {"idle", "cache", "swap", "reset", "start", "iterate",
                          "iteration", "skills", "skill", "drop", "released"}]
    BY DEF LifeInv, KernelInv, HookInv, HookTypes
  <1>2. pc[t] = from /\ pc'[t] = to /\ \A u \in Thread \ {t} : pc'[u] = pc[u]
    BY <1>1 DEF Go
  <1>3. /\ ~InWire("kernel_shutdown")
        /\ \A u \in Thread : ~InHand(u, "kernel_shutdown")
        /\ \A u \in Thread : pc[u] = "released" => built[u] = None
        /\ \A u \in Thread : pc[u] # "drop"
    BY <1>2, NoShutdownYet DEF LifeInv
  <1>4. ~InWire("kernel_shutdown")'
    BY <1>3 DEF InWire
  <1>5. \A u \in Thread : ~InHand(u, "kernel_shutdown")'
    BY <1>3 DEF InHand
  <1>6. \A u \in Thread : /\ pc'[u] # "drop"
                          /\ pc'[u] = "released" => built'[u] = None
    BY <1>2, <1>3
  <1>7. ~AllReleased'
    BY <1>2 DEF AllReleased
  <1> QED
    BY <1>4, <1>5, <1>6, <1>7 DEF ShutdownInv, InWire

\* A quiet step within a step of the agent, other than the winning of the swap.
LEMMA QuietMove ==
  ASSUME LifeInv, NEW t \in Thread, NEW from, NEW to,
         Go(t, from, to), UNCHANGED streamVars, kernelStarted' = kernelStarted,
         from \in {"reset", "start"} <=> to \in {"reset", "start"}
  PROVE  StartInv'
  <1>1. wire' = wire /\ built' = built
    BY QuietEffect DEF LifeInv
  <1>2. pc[t] = from /\ pc'[t] = to /\ \A u \in Thread \ {t} : pc'[u] = pc[u]
    BY DEF Go, LifeInv, KernelInv, HookInv, HookTypes
  <1>3. \A u \in Thread : /\ Claims(u)' <=> Claims(u)
                          /\ InHand(u, "kernel_start")' <=> InHand(u, "kernel_start")
    BY <1>1, <1>2 DEF Claims, InHand
  <1>4. InWire("kernel_start")' <=> InWire("kernel_start")
    BY <1>1 DEF InWire
  <1>5. OnceInWire("kernel_start")'
    BY <1>1 DEF OnceInWire, LifeInv, StartInv
  <1>6. \A u \in Thread : /\ Owns(u)' <=> Owns(u)
                          /\ ~(Claims(u) /\ InHand(u, "kernel_start"))'
    BY <1>3 DEF Owns, LifeInv, StartInv
  <1> QED
    BY <1>4, <1>5, <1>6, StartFrame DEF LifeInv

\* A step that builds an event other than the start.
LEMMA BuildMove ==
  ASSUME LifeInv, NEW t \in Thread, NEW from, NEW to,
         NEW kernel \in Kernel, NEW n \in Nat,
         NEW kind \in {"loop_iteration", "skill_resolved", "recovery",
                      "kernel_shutdown"},
         Go(t, from, to), Emit(t, kind, kernel, n), kernelStarted' = kernelStarted,
         from \notin {"reset", "start"}, to \notin {"reset", "start"}
  PROVE  StartInv'
  <1>1. /\ wire' = wire
        /\ \A u \in Thread \ {t} : built'[u] = built[u]
        /\ built'[t].body.kind = kind
    BY BuildEffect DEF LifeInv
  <1>2. /\ pc[t] = from /\ pc'[t] = to /\ built[t] = None
        /\ \A u \in Thread \ {t} : pc'[u] = pc[u]
    BY DEF Go, LifeInv, KernelInv, HookInv, HookTypes
  <1>3. \A u \in Thread : /\ Claims(u)' <=> Claims(u)
                          /\ InHand(u, "kernel_start")' <=> InHand(u, "kernel_start")
    BY <1>1, <1>2 DEF Claims, InHand
  <1>4. InWire("kernel_start")' <=> InWire("kernel_start")
    BY <1>1 DEF InWire
  <1>5. OnceInWire("kernel_start")'
    BY <1>1 DEF OnceInWire, LifeInv, StartInv
  <1>6. \A u \in Thread : /\ Owns(u)' <=> Owns(u)
                          /\ ~(Claims(u) /\ InHand(u, "kernel_start"))'
    BY <1>3 DEF Owns, LifeInv, StartInv
  <1> QED
    BY <1>4, <1>5, <1>6, StartFrame DEF LifeInv

\* What a capture does to what the invariants look at.
LEMMA CaptureLooks ==
  ASSUME KernelInv, NEW t \in Thread, Stream!Capture(t), NEW kind
  PROVE  /\ InWire(kind)' <=> InWire(kind) \/ InHand(t, kind)
         /\ OnceInWire(kind) /\ ~(InWire(kind) /\ InHand(t, kind)) => OnceInWire(kind)'
         /\ ~InHand(t, kind)'
         /\ \A u \in Thread \ {t} : InHand(u, kind)' <=> InHand(u, kind)
  <1>1. /\ wire \in Seq(Stream!Event) /\ wire' = Append(wire, built[t])
        /\ built[t] \in Stream!Event /\ built[t] # None
        /\ built'[t] = None
        /\ \A u \in Thread \ {t} : built'[u] = built[u]
    BY CaptureEffect
  <1>2. /\ Len(wire) \in Nat
        /\ DOMAIN wire = 1..Len(wire)
        /\ DOMAIN wire' = 1..(Len(wire) + 1)
        /\ \A i \in DOMAIN wire : wire'[i] = wire[i]
        /\ wire'[Len(wire) + 1] = built[t]
    BY <1>1
  <1>3. InWire(kind)' <=> InWire(kind) \/ InHand(t, kind)
    BY <1>1, <1>2 DEF InWire, InHand
  <1>4. ASSUME OnceInWire(kind), ~(InWire(kind) /\ InHand(t, kind))
        PROVE  OnceInWire(kind)'
    BY <1>1, <1>2, <1>4 DEF OnceInWire, InWire, InHand
  <1>5. /\ ~InHand(t, kind)'
        /\ \A u \in Thread \ {t} : InHand(u, kind)' <=> InHand(u, kind)
    BY <1>1 DEF InHand
  <1> QED
    BY <1>3, <1>4, <1>5

LEMMA DispatchStart ==
  ASSUME LifeInv, NEW t \in Thread, Dispatch(t)
  PROVE  StartInv'
  <1>1. /\ InWire("kernel_start")' <=> InWire("kernel_start") \/ InHand(t, "kernel_start")
        /\ OnceInWire("kernel_start") /\ ~(InWire("kernel_start") /\ InHand(t, "kernel_start"))
             => OnceInWire("kernel_start")'
        /\ ~InHand(t, "kernel_start")'
        /\ \A u \in Thread \ {t} :
             InHand(u, "kernel_start")' <=> InHand(u, "kernel_start")
    BY CaptureLooks DEF Dispatch, LifeInv
  <1>2. /\ kernelStarted' = kernelStarted
        /\ \A u \in Thread : Claims(u)' <=> Claims(u)
    BY DEF Dispatch, hookVars, Claims
  <1>3. OnceInWire("kernel_start")'
    BY <1>1 DEF LifeInv, StartInv, Owns
  <1>4. CASE InHand(t, "kernel_start")
    <2>1. /\ Owns(t) /\ kernelStarted /\ ~Claims(t)
          /\ \A u \in Thread \ {t} : ~Owns(u)
      BY <1>4 DEF LifeInv, StartInv, Owns
    <2>2. \A u \in Thread : ~Owns(u)'
      BY <1>1, <1>2, <2>1 DEF Owns
    <2>3. \A u \in Thread : ~(Claims(u) /\ InHand(u, "kernel_start"))'
      BY <2>2 DEF Owns
    <2> QED
      BY <1>1, <1>2, <1>3, <1>4, <2>1, <2>2, <2>3 DEF StartInv
  <1>5. CASE ~InHand(t, "kernel_start")
    <2>1. \A u \in Thread : InHand(u, "kernel_start")' <=> InHand(u, "kernel_start")
      BY <1>1, <1>5
    <2>2. \A u \in Thread : /\ Owns(u)' <=> Owns(u)
                            /\ ~(Claims(u) /\ InHand(u, "kernel_start"))'
      BY <1>2, <2>1 DEF Owns, LifeInv, StartInv
    <2> QED
      BY <1>1, <1>2, <1>3, <1>5, <2>2, StartFrame DEF LifeInv
  <1> QED
    BY <1>4, <1>5

LEMMA DispatchShutdown ==
  ASSUME LifeInv, NEW t \in Thread, Dispatch(t)
  PROVE  ShutdownInv'
  <1>1. /\ wire \in Seq(Stream!Event) /\ wire' = Append(wire, built[t])
        /\ built[t] \in Stream!Event /\ built[t] # None /\ tick' = tick
        /\ built'[t] = None
        /\ \A u \in Thread \ {t} : built'[u] = built[u]
    BY CaptureEffect DEF Dispatch, LifeInv
  <1>2. /\ Len(wire) \in Nat
        /\ DOMAIN wire = 1..Len(wire)
        /\ Len(wire') = Len(wire) + 1
        /\ DOMAIN wire' = 1..(Len(wire) + 1)
        /\ \A i \in DOMAIN wire : wire'[i] = wire[i]
        /\ wire'[Len(wire) + 1] = built[t]
    BY <1>1
  <1>3. kernelStarted' = kernelStarted /\ pc' = pc /\ (AllReleased' <=> AllReleased)
    BY DEF Dispatch, hookVars, AllReleased
  <1>4. \A u \in Thread : pc[u] # "drop"
    BY <1>1 DEF LifeInv, ShutdownInv, Quiet
  <1>5. CASE InHand(t, "kernel_shutdown")
    <2>1. /\ AllReleased
          /\ \A u \in Thread \ {t} : built[u] = None
          /\ built[t].tick = tick - 1
          /\ ~InWire("kernel_shutdown")
          /\ kernelStarted
      BY <1>5 DEF LifeInv, ShutdownInv
    <2>2. \A u \in Thread : built'[u] = None
      BY <1>1, <2>1
    <2>3. \A i \in DOMAIN wire' : wire'[i].body.kind = "kernel_shutdown" =>
            i = Len(wire') /\ wire'[i].tick = tick' - 1
      BY <1>1, <1>2, <2>1 DEF InWire
    <2>4. InWire("kernel_shutdown")'
      BY <1>2, <1>5 DEF InWire, InHand
    <2>5. \A u \in Thread : ~InHand(u, "kernel_shutdown")'
      BY <2>2 DEF InHand
    <2> QED
      BY <1>3, <1>4, <2>1, <2>2, <2>3, <2>4, <2>5 DEF ShutdownInv, Quiet
  <1>6. CASE ~InHand(t, "kernel_shutdown")
    <2>1. pc[t] # "released" /\ ~AllReleased
      BY <1>1, <1>6 DEF LifeInv, ShutdownInv, AllReleased
    <2>2. /\ ~InWire("kernel_shutdown")
          /\ \A u \in Thread : ~InHand(u, "kernel_shutdown")
          /\ \A u \in Thread : pc[u] = "released" => built[u] = None
      BY <2>1, NoShutdownYet DEF LifeInv
    <2>3. ~InWire("kernel_shutdown")'
      BY <1>1, <1>2, <1>6, <2>2 DEF InWire, InHand
    <2>4. \A u \in Thread : ~InHand(u, "kernel_shutdown")'
      BY <1>1, <2>2 DEF InHand
    <2>5. \A u \in Thread : pc'[u] = "released" => built'[u] = None
      BY <1>1, <1>3, <2>2
    <2> QED
      BY <1>3, <1>4, <2>1, <2>3, <2>4, <2>5 DEF ShutdownInv, InWire
  <1> QED
    BY <1>5, <1>6

\* A step that touches none of what the invariants look at.
LEMMA NothingMoves ==
  ASSUME LifeInv, UNCHANGED vars \/ ClearEvents
  PROVE  StartInv' /\ ShutdownInv'
  <1>1. wire' = wire /\ tick' = tick /\ built' = built
    BY QuietEffect DEF LifeInv, ClearEvents, vars
  <1>2. kernelStarted' = kernelStarted /\ pc' = pc
    BY DEF ClearEvents, vars, hookVars
  <1>3. StartInv'
    BY <1>1, <1>2 DEF LifeInv, StartInv, InWire, OnceInWire, InHand, Claims, Owns
  <1>4. ShutdownInv'
    BY <1>1, <1>2 DEF LifeInv, ShutdownInv, InWire, InHand, AllReleased, Quiet
  <1> QED
    BY <1>3, <1>4

LEMMA StepBeforeStep ==
  ASSUME LifeInv, NEW t \in Thread, BeforeStep(t)
  PROVE  StartInv' /\ ShutdownInv'
  <1>1. CASE CacheKernelId(t)
    <2>1. Go(t, "cache", "swap") /\ UNCHANGED streamVars /\ kernelStarted' = kernelStarted
      BY <1>1 DEF CacheKernelId
    <2>2. wire' = wire /\ built' = built /\ built[t] = None
      BY <2>1, QuietEffect DEF LifeInv, Go
    <2> QED
      BY <2>1, <2>2, QuietMove, ShutdownMove
  <1>2. CASE SwapStarted(t)
    <2>1. wire' = wire /\ built' = built /\ built[t] = None
      BY <1>2, QuietEffect DEF SwapStarted, LifeInv, Go
    <2>2. ShutdownInv'
      BY <1>2, <2>1, ShutdownMove DEF SwapStarted
    <2>3. CASE kernelStarted
      BY <1>2, <2>2, <2>3, QuietMove DEF SwapStarted
    <2>4. CASE ~kernelStarted
      <3>1. /\ \A u \in Thread : ~Owns(u)
            /\ ~InWire("kernel_start")
            /\ OnceInWire("kernel_start")
        BY <2>4 DEF LifeInv, StartInv
      <3>2. /\ kernelStarted'
            /\ pc'[t] = "reset"
            /\ \A u \in Thread \ {t} : pc'[u] = pc[u]
        BY <1>2, <2>4 DEF SwapStarted, Go, LifeInv, KernelInv, HookInv, HookTypes
      <3>3. /\ Claims(t)' /\ ~InHand(t, "kernel_start")'
            /\ \A u \in Thread \ {t} : ~Owns(u)'
        BY <2>1, <3>1, <3>2 DEF Claims, InHand, Owns
      <3>4. ~InWire("kernel_start")' /\ OnceInWire("kernel_start")'
        BY <2>1, <3>1 DEF InWire, OnceInWire
      <3>5. StartInv'
        BY <3>2, <3>3, <3>4 DEF StartInv, Owns
      <3> QED
        BY <2>2, <3>5
    <2> QED
      BY <2>3, <2>4
  <1>3. CASE ResetLoopCounter(t)
    <2>1. Go(t, "reset", "start") /\ UNCHANGED streamVars /\ kernelStarted' = kernelStarted
      BY <1>3 DEF ResetLoopCounter
    <2>2. wire' = wire /\ built' = built /\ built[t] = None
      BY <2>1, QuietEffect DEF LifeInv, Go
    <2> QED
      BY <2>1, <2>2, QuietMove, ShutdownMove
  <1>4. CASE EmitKernelStart(t)
    <2>1. /\ Go(t, "start", "iterate")
          /\ Emit(t, "kernel_start", agent[t], 0)
          /\ kernelStarted' = kernelStarted
          /\ agent[t] \in Kernel
      BY <1>4 DEF EmitKernelStart, hookVars, LifeInv, KernelInv, HookInv, HookTypes
    <2>2. /\ wire' = wire
          /\ \A u \in Thread \ {t} : built'[u] = built[u]
          /\ built'[t] # None /\ built'[t].body.kind = "kernel_start"
      BY <2>1, BuildEffect DEF LifeInv
    <2>3. ShutdownInv'
      BY <2>1, <2>2, ShutdownMove
    <2>4. /\ pc[t] = "start" /\ pc'[t] = "iterate" /\ built[t] = None
          /\ \A u \in Thread \ {t} : pc'[u] = pc[u]
      BY <2>1 DEF Go, LifeInv, KernelInv, HookInv, HookTypes
    <2>5. /\ Claims(t) /\ ~Claims(t)' /\ InHand(t, "kernel_start")'
          /\ \A u \in Thread \ {t} :
               /\ Claims(u)' <=> Claims(u)
               /\ InHand(u, "kernel_start")' <=> InHand(u, "kernel_start")
      BY <2>2, <2>4 DEF Claims, InHand
    <2>6. \A u \in Thread : /\ Owns(u)' <=> Owns(u)
                            /\ ~(Claims(u) /\ InHand(u, "kernel_start"))'
      BY <2>5 DEF Owns, LifeInv, StartInv
    <2>7. /\ InWire("kernel_start")' <=> InWire("kernel_start")
          /\ OnceInWire("kernel_start")'
      BY <2>2 DEF InWire, OnceInWire, LifeInv, StartInv
    <2> QED
      BY <2>1, <2>3, <2>6, <2>7, StartFrame DEF LifeInv
  <1>5. CASE NextIteration(t)
    <2>1. Go(t, "iterate", "iteration") /\ UNCHANGED streamVars
          /\ kernelStarted' = kernelStarted
      BY <1>5 DEF NextIteration
    <2>2. wire' = wire /\ built' = built /\ built[t] = None
      BY <2>1, QuietEffect DEF LifeInv, Go
    <2> QED
      BY <2>1, <2>2, QuietMove, ShutdownMove
  <1>6. CASE EmitLoopIteration(t)
    <2>1. /\ Go(t, "iteration", "skills")
          /\ Emit(t, "loop_iteration", agent[t], claimed[t])
          /\ kernelStarted' = kernelStarted
          /\ agent[t] \in Kernel /\ claimed[t] \in Nat
      BY <1>6 DEF EmitLoopIteration, hookVars, LifeInv, KernelInv, HookInv, HookTypes,
                  ClaimedBeforeEmitted, Go
    <2>2. /\ wire' = wire
          /\ \A u \in Thread \ {t} : built'[u] = built[u]
          /\ built'[t].body.kind = "loop_iteration"
      BY <2>1, BuildEffect DEF LifeInv
    <2>3. ShutdownInv'
      BY <2>1, <2>2, ShutdownMove
    <2>4. StartInv'
      BY <2>1, BuildMove
    <2> QED
      BY <2>3, <2>4
  <1> QED
    BY <1>1, <1>2, <1>3, <1>4, <1>5, <1>6 DEF BeforeStep

LEMMA StepSkills ==
  ASSUME LifeInv, NEW t \in Thread, Skills(t)
  PROVE  StartInv' /\ ShutdownInv'
  <1>1. ASSUME NEW from \in {"skills", "skill"}, NEW kind \in {"skill_resolved", "recovery"},
               Go(t, from, "idle"), Emit(t, kind, agent[t], 0), UNCHANGED hookVars
        PROVE  StartInv' /\ ShutdownInv'
    <2>1. agent[t] \in Kernel /\ kernelStarted' = kernelStarted
      BY <1>1 DEF hookVars, LifeInv, KernelInv, HookInv, HookTypes
    <2>2. /\ wire' = wire
          /\ \A u \in Thread \ {t} : built'[u] = built[u]
          /\ built'[t].body.kind = kind
      BY <1>1, <2>1, BuildEffect DEF LifeInv
    <2>3. ShutdownInv'
      BY <1>1, <2>2, ShutdownMove
    <2>4. StartInv'
      BY <1>1, <2>1, BuildMove
    <2> QED
      BY <2>3, <2>4
  <1>2. CASE SkillDeclined(t)
    BY <1>1, <1>2 DEF SkillDeclined, EmitSkillResolved
  <1>3. CASE AfterSkill(t)
    BY <1>1, <1>3 DEF AfterSkill, EmitSkillResolved
  <1>4. CASE OnStepError(t)
    BY <1>1, <1>4 DEF OnStepError
  <1>5. ASSUME NEW from \in {"skills", "skill"}, NEW to \in {"skill", "idle"},
               Go(t, from, to), UNCHANGED <<streamVars, hookVars>>
        PROVE  StartInv' /\ ShutdownInv'
    <2>1. wire' = wire /\ built' = built /\ built[t] = None
      BY <1>5, QuietEffect DEF LifeInv, Go
    <2>2. kernelStarted' = kernelStarted
      BY <1>5 DEF hookVars
    <2>3. ShutdownInv'
      BY <1>5, <2>1, ShutdownMove
    <2>4. StartInv'
      BY <1>5, <2>2, QuietMove
    <2> QED
      BY <2>3, <2>4
  <1>6. CASE SkillApplies(t)
    BY <1>5, <1>6 DEF SkillApplies
  <1>7. CASE AbandonStep(t)
    BY <1>5, <1>7 DEF AbandonStep
  <1> QED
    BY <1>2, <1>3, <1>4, <1>6, <1>7 DEF Skills

LEMMA StepDrop ==
  ASSUME LifeInv, NEW t \in Thread, Drop(t)
  PROVE  StartInv' /\ ShutdownInv'
  <1>1. CASE Release(t)
    <2> DEFINE to == IF \A u \in Thread \ {t} : pc[u] = "released"
                       THEN "drop" ELSE "released"
    <2>1. /\ pc[t] = "idle" /\ built[t] = None /\ pc'[t] = to
          /\ \A u \in Thread \ {t} : pc'[u] = pc[u]
      BY <1>1 DEF Release, Go, LifeInv, KernelInv, HookInv, HookTypes
    <2>2. wire' = wire /\ built' = built /\ kernelStarted' = kernelStarted
      BY <1>1, QuietEffect DEF Release, LifeInv, hookVars
    <2>3. StartInv'
      BY <1>1, <2>2, QuietMove DEF Release
    <2>4. /\ ~InWire("kernel_shutdown")
          /\ \A u \in Thread : ~InHand(u, "kernel_shutdown")
          /\ \A u \in Thread : pc[u] = "released" => built[u] = None
          /\ \A u \in Thread : pc[u] # "drop"
      BY <2>1, NoShutdownYet DEF LifeInv
    <2>5. ~InWire("kernel_shutdown")' /\ \A u \in Thread : ~InHand(u, "kernel_shutdown")'
      BY <2>2, <2>4 DEF InWire, InHand
    <2>6. \A u \in Thread : pc'[u] = "released" => built'[u] = None
      BY <2>1, <2>2, <2>4
    <2>7. ~AllReleased'
      BY <2>1 DEF AllReleased
    <2>8. \A u \in Thread : pc'[u] = "drop" =>
            (\A v \in Thread \ {u} : pc'[v] = "released") /\ Quiet'
      BY <2>1, <2>2, <2>4 DEF Quiet
    <2> QED
      BY <2>3, <2>5, <2>6, <2>7, <2>8 DEF ShutdownInv, InWire
  <1>2. CASE DropUnstarted(t)
    <2>1. /\ pc[t] = "drop" /\ pc'[t] = "released"
          /\ \A u \in Thread \ {t} : pc'[u] = pc[u]
      BY <1>2 DEF DropUnstarted, Go, LifeInv, KernelInv, HookInv, HookTypes
    <2>2. wire' = wire /\ built' = built /\ ~kernelStarted'
          /\ kernelStarted' = kernelStarted
      BY <1>2, QuietEffect DEF DropUnstarted, LifeInv, hookVars
    <2>3. StartInv'
      BY <1>2, <2>2, QuietMove DEF DropUnstarted
    <2>4. /\ \A u \in Thread \ {t} : pc[u] = "released"
          /\ Quiet /\ ~InWire("kernel_shutdown")
      BY <2>1 DEF LifeInv, ShutdownInv
    <2>5. /\ \A u \in Thread : pc'[u] = "released" /\ built'[u] = None
          /\ ~InWire("kernel_shutdown")'
      BY <2>1, <2>2, <2>4 DEF Quiet, InWire
    <2> QED
      BY <2>2, <2>3, <2>5 DEF ShutdownInv, InWire, InHand
  <1>3. CASE DropStarted(t)
    <2>1. /\ pc[t] = "drop" /\ pc'[t] = "released"
          /\ \A u \in Thread \ {t} : pc'[u] = pc[u]
      BY <1>3 DEF DropStarted, Go, LifeInv, KernelInv, HookInv, HookTypes
    <2>2. /\ kernelStarted /\ kernelStarted' /\ kernelStarted' = kernelStarted
          /\ kernelId \in Kernel
      BY <1>3 DEF DropStarted, LifeInv, KernelInv, HookInv, HookTypes
    <2>3. /\ wire' = wire /\ tick' = tick + 1
          /\ \A u \in Thread \ {t} : built'[u] = built[u]
          /\ built'[t] # None /\ built'[t].body.kind = "kernel_shutdown"
          /\ built'[t].tick = tick
      BY <1>3, <2>2, BuildEffect DEF DropStarted, LifeInv
    <2>4. StartInv'
      BY <1>3, <2>2, BuildMove DEF DropStarted
    <2>5. /\ \A u \in Thread \ {t} : pc[u] = "released"
          /\ Quiet /\ ~InWire("kernel_shutdown")
      BY <2>1 DEF LifeInv, ShutdownInv
    <2>6. /\ AllReleased'
          /\ \A u \in Thread \ {t} : built'[u] = None
          /\ ~InWire("kernel_shutdown")'
      BY <2>1, <2>3, <2>5 DEF AllReleased, Quiet, InWire
    <2>7. InHand(t, "kernel_shutdown")' /\ built'[t].tick = tick' - 1
      <3>1. tick \in Nat
        BY DEF LifeInv, KernelInv, Stream!TypeOK
      <3> QED
        BY <2>3, <3>1 DEF InHand
    <2>8. \A u \in Thread : built'[u] # None => u = t
      BY <2>6
    <2>9. \A u \in Thread : pc'[u] # "drop"
      BY <2>6 DEF AllReleased
    <2>10. \A u \in Thread : InHand(u, "kernel_shutdown")' => u = t
      BY <2>8 DEF InHand
    <2>11. ShutdownInv'
      BY <2>2, <2>6, <2>7, <2>8, <2>9, <2>10 DEF ShutdownInv, InWire
    <2> QED
      BY <2>4, <2>11
  <1> QED
    BY <1>1, <1>2, <1>3 DEF Drop

LEMMA LifeInvariant == Spec => []LifeInv
  <1>1. Init /\ KernelInv => LifeInv
    BY InitLife DEF LifeInv
  <1>2. LifeInv /\ KernelInv' /\ [Next]_vars => LifeInv'
    <2> SUFFICES ASSUME LifeInv, [Next]_vars PROVE StartInv' /\ ShutdownInv'
      BY DEF LifeInv
    <2>1. CASE UNCHANGED vars \/ ClearEvents
      BY <2>1, NothingMoves
    <2>2. ASSUME NEW t \in Thread, BeginStep(t) PROVE StartInv' /\ ShutdownInv'
      <3>1. Go(t, "idle", "cache") /\ UNCHANGED streamVars /\ kernelStarted' = kernelStarted
        BY <2>2 DEF BeginStep, hookVars
      <3>2. wire' = wire /\ built' = built /\ built[t] = None
        BY <3>1, QuietEffect DEF LifeInv, Go
      <3> QED
        BY <3>1, <3>2, QuietMove, ShutdownMove
    <2>3. ASSUME NEW t \in Thread, Dispatch(t) PROVE StartInv' /\ ShutdownInv'
      BY <2>3, DispatchStart, DispatchShutdown
    <2> QED
      BY <2>1, <2>2, <2>3, StepBeforeStep, StepSkills, StepDrop DEF Next
  <1> QED
    BY <1>1, <1>2, Invariant, PTL DEF Spec

\* The kernel starts at most once and shuts down at most once, last of all and
\* if and only if it started, for any number of threads.
THEOREM Bracketing == Spec => []LifecycleIsBracketed
  <1>1. LifeInv => LifecycleIsBracketed
    <2> SUFFICES ASSUME LifeInv PROVE LifecycleIsBracketed
      OBVIOUS
    <2>1. OnceInWire("kernel_start") /\ OnceInWire("kernel_shutdown")
      BY DEF LifeInv, StartInv, ShutdownInv, OnceInWire
    <2>2. \A i \in DOMAIN wire : wire[i].body.kind = "kernel_shutdown" =>
            i = Len(wire) /\ wire[i].tick = tick - 1 /\ AllReleased /\ Quiet
      BY DEF LifeInv, ShutdownInv
    <2>3. ASSUME AllReleased, Quiet
          PROVE  InWire("kernel_start") <=> InWire("kernel_shutdown")
      <3>1. \A t \in Thread : ~Owns(t) /\ ~InHand(t, "kernel_shutdown")
        BY <2>3 DEF AllReleased, Quiet, Owns, Claims, InHand
      <3>2. InWire("kernel_start") <=> kernelStarted
        BY <3>1 DEF LifeInv, StartInv
      <3>3. kernelStarted => InWire("kernel_shutdown")
        BY <2>3, <3>1 DEF LifeInv, ShutdownInv
      <3>4. InWire("kernel_shutdown") => kernelStarted
        BY DEF LifeInv, ShutdownInv, InWire
      <3> QED
        BY <3>2, <3>3, <3>4
    <2> QED
      BY <2>1, <2>2, <2>3
      DEF LifecycleIsBracketed, Is, OnceInWire, InWire, AllReleased, Quiet
  <1> QED
    BY <1>1, LifeInvariant, PTL

(***************************************************************************)
(* The order of a kernel's events                                          *)
(***************************************************************************)

\* Where a thread is that has built an event: an iteration, the start, or another.
HandInv ==
  \A t \in Thread : built[t] # None =>
    /\ built[t].by = t /\ pc[t] # "iteration"
    /\ built[t].body.kind = "loop_iteration" => pc[t] = "skills"
    /\ built[t].body.kind = "kernel_start" =>
         pc[t] = "iterate" /\ built[t].body.kernel = agent[t]

Active(t) == pc[t] \notin {"idle", "drop", "released"} \/ built[t] # None

Cached(t) == pc[t] \in {"swap", "reset", "start", "iterate"}

\* Until the start is captured, one thread is within its first step, all others
\* stand by, and the cached id is the one of that thread's agent.
BeforeStart ==
  /\ wire = <<>>
  /\ loopCounter = 0
  /\ \A t \in Thread : Active(t) => Starting(t)
  /\ \A t, u \in Thread : Active(t) /\ Active(u) => t = u
  /\ \A t \in Thread : built[t] # None => InHand(t, "kernel_start")
  /\ \A t \in Thread : Cached(t) => kernelId = agent[t]
  /\ kernelId # None => \E t \in Thread : Cached(t)

\* From then on the cached id is the one of the start, until the shutdown takes it.
AfterStart ==
  /\ wire[1].body.kind = "kernel_start"
  /\ kernelId # None => kernelId = wire[1].body.kernel
  /\ kernelId = None => AllReleased
  /\ \A t \in Thread : InHand(t, "kernel_shutdown") =>
       built[t].body.kernel = wire[1].body.kernel
  /\ \A i \in DOMAIN wire : wire[i].body.kind = "kernel_shutdown" =>
       wire[i].body.kernel = wire[1].body.kernel

PhaseInv == IF InWire("kernel_start") THEN AfterStart ELSE BeforeStart

\* The iteration t has claimed, or built, and not dispatched.
Held(t) ==
  IF pc[t] = "iteration" THEN claimed[t]
  ELSE IF InHand(t, "loop_iteration") THEN built[t].body.n ELSE None

Iteration(i) == wire[i].body.kind = "loop_iteration"

\* Every number below the counter is held by one thread or captured once, and a
\* thread holds none below one of its captured ones.
NumberInv ==
  /\ \A t \in Thread : Held(t) # None => Held(t) \in Nat /\ Held(t) < loopCounter
  /\ \A t, u \in Thread : Held(t) # None /\ Held(t) = Held(u) => t = u
  /\ \A i \in DOMAIN wire : Iteration(i) => wire[i].body.n < loopCounter
  /\ \A i, j \in DOMAIN wire : Iteration(i) /\ Iteration(j) =>
       /\ wire[i].body.n = wire[j].body.n => i = j
       /\ i < j /\ wire[i].by = wire[j].by => wire[i].body.n < wire[j].body.n
  /\ \A i \in DOMAIN wire, t \in Thread : Iteration(i) /\ Held(t) # None =>
       /\ wire[i].body.n # Held(t)
       /\ wire[i].by = t => wire[i].body.n < Held(t)
  /\ \A n \in 0..(loopCounter - 1) :
       \/ \E i \in DOMAIN wire : Iteration(i) /\ wire[i].body.n = n
       \/ \E t \in Thread : Held(t) = n

OrderInv == HandInv /\ (~raced => PhaseInv /\ NumberInv)

LEMMA InitOrder == Init => OrderInv
  <1> SUFFICES ASSUME Init PROVE OrderInv
    OBVIOUS
  <1>1. /\ wire = <<>> /\ loopCounter = 0 /\ kernelId = None
        /\ \A t \in Thread : built[t] = None /\ pc[t] = "idle"
    BY DEF Init, Stream!Init, wire, Stream!wire
  <1>2. \A t \in Thread : Held(t) = None /\ ~Active(t) /\ ~Cached(t)
    BY <1>1 DEF Held, InHand, Active, Cached
  <1>3. PhaseInv
    BY <1>1, <1>2 DEF PhaseInv, BeforeStart, InWire
  <1>4. NumberInv
    BY <1>1, <1>2 DEF NumberInv
  <1> QED
    BY <1>1, <1>3, <1>4 DEF OrderInv, HandInv

(* What the steps do to the numbers *)

LEMMA EventNumber ==
  ASSUME NEW e \in Stream!Event
  PROVE  e.body.n \in Nat /\ e.body.n # None
  <1>1. e.body \in KernelEvent
    BY DEF Stream!Event
  <1>2. e.body.n \in Nat
    BY <1>1 DEF KernelEvent
  <1> QED
    BY <1>2, NoneAssumption

LEMMA NumbersStay ==
  ASSUME NumberInv, wire' = wire, loopCounter' = loopCounter,
         \A u \in Thread : Held(u)' = Held(u)
  PROVE  NumberInv'
  BY DEF NumberInv, Iteration

LEMMA NumberClaimed ==
  ASSUME NumberInv, wire' = wire, loopCounter \in Nat, loopCounter' = loopCounter + 1,
         wire \in Seq(Stream!Event),
         NEW t \in Thread, Held(t) = None, Held(t)' = loopCounter,
         \A u \in Thread \ {t} : Held(u)' = Held(u)
  PROVE  NumberInv'
  <1> DEFINE H(u) == IF u = t THEN loopCounter ELSE Held(u)
  <1>1. \A u \in Thread : Held(u)' = H(u)
    OBVIOUS
  <1>2. \A i \in DOMAIN wire : Iteration(i) => wire[i].body.n \in Nat
    BY EventNumber
  <1>3. \A u \in Thread : H(u) # None => H(u) \in Nat /\ H(u) < loopCounter + 1
    BY DEF NumberInv
  <1>4. \A u, v \in Thread : H(u) # None /\ H(u) = H(v) => u = v
    BY DEF NumberInv
  <1>5. \A i \in DOMAIN wire, u \in Thread : Iteration(i) /\ H(u) # None =>
          /\ wire[i].body.n # H(u)
          /\ wire[i].by = u => wire[i].body.n < H(u)
    BY <1>2 DEF NumberInv
  <1>6. \A n \in 0..loopCounter :
          \/ \E i \in DOMAIN wire : Iteration(i) /\ wire[i].body.n = n
          \/ \E u \in Thread : H(u) = n
    <2> SUFFICES ASSUME NEW n \in 0..loopCounter, \A u \in Thread : H(u) # n
                 PROVE  \E i \in DOMAIN wire : Iteration(i) /\ wire[i].body.n = n
      OBVIOUS
    <2>1. n # loopCounter /\ n # None
      BY NoneAssumption
    <2>2. n \in 0..(loopCounter - 1)
      BY <2>1
    <2>3. \A u \in Thread : Held(u) # n
      BY <2>1
    <2> QED
      BY <2>2, <2>3 DEF NumberInv
  <1> HIDE DEF H
  <1>7. \A i \in DOMAIN wire : Iteration(i) => wire[i].body.n < loopCounter + 1
    BY <1>2 DEF NumberInv
  <1>8. /\ \A i \in DOMAIN wire : Iteration(i)' <=> Iteration(i)
        /\ (loopCounter + 1) - 1 = loopCounter
    BY DEF Iteration
  <1>9. \A i, j \in DOMAIN wire : Iteration(i) /\ Iteration(j) =>
       /\ wire[i].body.n = wire[j].body.n => i = j
       /\ i < j /\ wire[i].by = wire[j].by => wire[i].body.n < wire[j].body.n
    BY DEF NumberInv
  <1> QED
    BY <1>1, <1>3, <1>4, <1>5, <1>6, <1>7, <1>8, <1>9 DEF NumberInv

LEMMA NumberCaptured ==
  ASSUME NumberInv, loopCounter' = loopCounter, wire \in Seq(Stream!Event),
         NEW t \in Thread, NEW e \in Stream!Event, wire' = Append(wire, e), e.by = t,
         Held(t) = IF e.body.kind = "loop_iteration" THEN e.body.n ELSE None,
         Held(t)' = None,
         \A u \in Thread \ {t} : Held(u)' = Held(u)
  PROVE  NumberInv'
  <1>1. /\ Len(wire) \in Nat
        /\ DOMAIN wire = 1..Len(wire)
        /\ DOMAIN wire' = 1..(Len(wire) + 1)
        /\ \A i \in DOMAIN wire : wire'[i] = wire[i]
        /\ wire'[Len(wire) + 1] = e
    OBVIOUS
  <1>2. /\ \A i \in DOMAIN wire : wire[i].body.n \in Nat
        /\ e.body.n \in Nat /\ e.body.n # None
    BY EventNumber
  <1>3. \A u \in Thread : Held(u)' # None => u # t /\ Held(u)' = Held(u)
    OBVIOUS
  <1>4. \A i \in DOMAIN wire : Iteration(i)' <=> Iteration(i)
    BY <1>1 DEF Iteration
  <1>5. e.body.kind = "loop_iteration" => Held(t) = e.body.n /\ e.body.n < loopCounter
    BY <1>2 DEF NumberInv
  <1>6. \A u \in Thread : Held(u)' # None => Held(u)' \in Nat /\ Held(u)' < loopCounter'
    BY <1>3 DEF NumberInv
  <1>7. \A u, v \in Thread : Held(u)' # None /\ Held(u)' = Held(v)' => u = v
    BY <1>3 DEF NumberInv
  <1>8. \A i \in DOMAIN wire' : Iteration(i)' => wire'[i].body.n < loopCounter'
    BY <1>1, <1>4, <1>5 DEF NumberInv, Iteration
  <1>9. \A i, j \in DOMAIN wire' : Iteration(i)' /\ Iteration(j)' =>
       /\ wire'[i].body.n = wire'[j].body.n => i = j
       /\ i < j /\ wire'[i].by = wire'[j].by => wire'[i].body.n < wire'[j].body.n
    <2> SUFFICES ASSUME NEW i \in DOMAIN wire', NEW j \in DOMAIN wire',
                        Iteration(i)', Iteration(j)'
                 PROVE  /\ wire'[i].body.n = wire'[j].body.n => i = j
                        /\ i < j /\ wire'[i].by = wire'[j].by
                             => wire'[i].body.n < wire'[j].body.n
      OBVIOUS
    <2>1. CASE i \in DOMAIN wire /\ j \in DOMAIN wire
      BY <1>1, <1>4, <2>1 DEF NumberInv
    <2>2. CASE i \in DOMAIN wire /\ j = Len(wire) + 1
      <3>1. /\ Held(t) = e.body.n /\ Iteration(i) /\ wire'[i] = wire[i] /\ wire'[j] = e
        BY <1>1, <1>4, <1>5, <2>2 DEF Iteration
      <3> QED
        BY <1>2, <2>2, <3>1 DEF NumberInv
    <2>3. CASE i = Len(wire) + 1 /\ j \in DOMAIN wire
      <3>1. /\ Held(t) = e.body.n /\ Iteration(j) /\ wire'[i] = e /\ wire'[j] = wire[j]
            /\ ~(i < j)
        BY <1>1, <1>4, <1>5, <2>3 DEF Iteration
      <3> QED
        BY <1>2, <2>3, <3>1 DEF NumberInv
    <2>4. CASE i = Len(wire) + 1 /\ j = Len(wire) + 1
      BY <1>1, <2>4
    <2> QED
      BY <1>1, <2>1, <2>2, <2>3, <2>4
  <1>10. \A i \in DOMAIN wire', u \in Thread : Iteration(i)' /\ Held(u)' # None =>
       /\ wire'[i].body.n # Held(u)'
       /\ wire'[i].by = u => wire'[i].body.n < Held(u)'
    <2> SUFFICES ASSUME NEW i \in DOMAIN wire', NEW u \in Thread,
                        Iteration(i)', Held(u)' # None
                 PROVE  /\ wire'[i].body.n # Held(u)'
                        /\ wire'[i].by = u => wire'[i].body.n < Held(u)'
      OBVIOUS
    <2>1. u # t /\ Held(u)' = Held(u)
      BY <1>3
    <2>2. CASE i \in DOMAIN wire
      BY <1>1, <1>4, <2>1, <2>2 DEF NumberInv
    <2>3. CASE i = Len(wire) + 1
      <3>1. wire'[i] = e /\ Held(t) = e.body.n
        BY <1>1, <1>5, <2>3 DEF Iteration
      <3> QED
        BY <1>2, <2>1, <3>1 DEF NumberInv
    <2> QED
      BY <1>1, <2>2, <2>3
  <1>11. \A n \in 0..(loopCounter' - 1) :
       \/ \E i \in DOMAIN wire' : Iteration(i)' /\ wire'[i].body.n = n
       \/ \E u \in Thread : Held(u)' = n
    <2> SUFFICES ASSUME NEW n \in 0..(loopCounter' - 1),
                        \A u \in Thread : Held(u)' # n
                 PROVE  \E i \in DOMAIN wire' : Iteration(i)' /\ wire'[i].body.n = n
      OBVIOUS
    <2>1. n # None /\ n \in 0..(loopCounter - 1)
      BY NoneAssumption
    <2>2. CASE Held(t) = n
      <3>1. e.body.kind = "loop_iteration" /\ e.body.n = n
        BY <2>1, <2>2
      <3> QED
        BY <1>1, <3>1 DEF Iteration
    <2>3. CASE Held(t) # n
      <3>1. \A u \in Thread : Held(u) # n
        BY <2>3
      <3>2. PICK i \in DOMAIN wire : Iteration(i) /\ wire[i].body.n = n
        BY <2>1, <3>1 DEF NumberInv
      <3> QED
        BY <1>1, <1>4, <3>2
    <2> QED
      BY <2>2, <2>3
  <1> QED
    BY <1>6, <1>7, <1>8, <1>9, <1>10, <1>11 DEF NumberInv

(* What the steps do to the rest *)

\* A thread moves on and builds nothing, and holds no iteration.
LEMMA QuietOrder ==
  ASSUME LifeInv, OrderInv, NEW t \in Thread, NEW from, NEW to,
         Go(t, from, to), UNCHANGED <<streamVars, agent, claimed>>,
         from # "iteration", to # "iteration"
  PROVE  /\ wire' = wire /\ built' = built /\ built[t] = None
         /\ pc[t] = from /\ pc'[t] = to /\ \A u \in Thread \ {t} : pc'[u] = pc[u]
         /\ InWire("kernel_start")' <=> InWire("kernel_start")
         /\ HandInv'
         /\ \A u \in Thread : Held(u)' = Held(u)
  <1>1. wire' = wire /\ built' = built
    BY QuietEffect DEF LifeInv
  <1>2. /\ pc[t] = from /\ pc'[t] = to /\ built[t] = None
        /\ \A u \in Thread \ {t} : pc'[u] = pc[u]
    BY DEF Go, LifeInv, KernelInv, HookInv, HookTypes
  <1>3. HandInv'
    BY <1>1, <1>2 DEF OrderInv, HandInv
  <1>4. \A u \in Thread : Held(u)' = Held(u)
    BY <1>1, <1>2 DEF Held, InHand
  <1> QED
    BY <1>1, <1>2, <1>3, <1>4 DEF InWire

\* A thread moves on and builds an event.
LEMMA BuildOrder ==
  ASSUME LifeInv, OrderInv, NEW t \in Thread, NEW from, NEW to,
         NEW kernel \in Kernel, NEW n \in Nat,
         NEW kind \in {"kernel_start", "loop_iteration", "skill_resolved",
                      "recovery", "kernel_shutdown"},
         Go(t, from, to), Emit(t, kind, kernel, n), agent' = agent, to # "iteration",
         kind = "loop_iteration" => to = "skills",
         kind = "kernel_start" => to = "iterate" /\ kernel = agent[t]
  PROVE  /\ wire' = wire /\ built[t] = None /\ built'[t] # None
         /\ built'[t].body.kind = kind /\ built'[t].body.kernel = kernel
         /\ built'[t].body.n = n
         /\ \A u \in Thread \ {t} : built'[u] = built[u]
         /\ pc[t] = from /\ pc'[t] = to /\ \A u \in Thread \ {t} : pc'[u] = pc[u]
         /\ InWire("kernel_start")' <=> InWire("kernel_start")
         /\ HandInv'
  <1>1. /\ wire' = wire /\ built'[t] # None
        /\ \A u \in Thread \ {t} : built'[u] = built[u]
    BY BuildEffect DEF LifeInv
  <1>2. /\ pc[t] = from /\ pc'[t] = to /\ built[t] = None
        /\ \A u \in Thread \ {t} : pc'[u] = pc[u]
    BY DEF Go, LifeInv, KernelInv, HookInv, HookTypes
  <1>3. /\ built'[t].by = t /\ built'[t].body.kind = kind
        /\ built'[t].body.kernel = kernel /\ built'[t].body.n = n
    <2>1. built'[t].by = t /\ built'[t].body = [kind |-> kind, kernel |-> kernel, n |-> n]
      BY DEF Emit, Stream!Build, LifeInv, KernelInv, Stream!TypeOK
    <2> QED
      BY <2>1
  <1>4. HandInv'
    <2> SUFFICES ASSUME NEW u \in Thread, built'[u] # None
                 PROVE  /\ built'[u].by = u /\ pc'[u] # "iteration"
                        /\ built'[u].body.kind = "loop_iteration" => pc'[u] = "skills"
                        /\ built'[u].body.kind = "kernel_start" =>
                             pc'[u] = "iterate" /\ built'[u].body.kernel = agent'[u]
      BY DEF HandInv
    <2>1. CASE u = t
      BY <1>2, <1>3, <2>1
    <2>2. CASE u # t
      BY <1>1, <1>2, <2>2 DEF OrderInv, HandInv
    <2> QED
      BY <2>1, <2>2
  <1> QED
    BY <1>1, <1>2, <1>3, <1>4 DEF InWire

\* An event that is neither of a claimed iteration nor of the start.
LEMMA OtherOrder ==
  ASSUME LifeInv, OrderInv, NEW t \in Thread, NEW from, NEW to,
         NEW kernel \in Kernel,
         NEW kind \in {"kernel_start", "skill_resolved", "recovery", "kernel_shutdown"},
         Go(t, from, to), Emit(t, kind, kernel, 0), agent' = agent, claimed' = claimed,
         kind = "kernel_start" => to = "iterate" /\ kernel = agent[t],
         from # "iteration", to # "iteration"
  PROVE  \A u \in Thread : Held(u)' = Held(u)
  <1>1. /\ built[t] = None /\ built'[t].body.kind = kind
        /\ \A u \in Thread \ {t} : built'[u] = built[u]
        /\ pc[t] = from /\ pc'[t] = to /\ \A u \in Thread \ {t} : pc'[u] = pc[u]
    BY BuildOrder
  <1>2. Held(t) = None /\ Held(t)' = None
    BY <1>1 DEF Held, InHand
  <1>3. ASSUME NEW u \in Thread \ {t} PROVE Held(u)' = Held(u)
    BY <1>1 DEF Held, InHand
  <1> QED
    BY <1>2, <1>3

\* Once the start is captured, a move of a thread that does not drop the hook
\* leaves the cached id.
LEMMA AfterMove ==
  ASSUME LifeInv, AfterStart, NEW t \in Thread, pc[t] # "released",
         wire' = wire, kernelId' = kernelId,
         \A u \in Thread : InHand(u, "kernel_shutdown")' =>
           InHand(u, "kernel_shutdown") /\ built'[u] = built[u]
  PROVE  AfterStart'
  <1>1. kernelId # None
    BY DEF AfterStart, AllReleased
  <1> QED
    BY <1>1 DEF AfterStart

LEMMA NotStarted ==
  ASSUME LifeInv, HandInv, ~InWire("kernel_start"), \A u \in Thread : ~Starting(u)
  PROVE  ~kernelStarted
  <1>1. ASSUME NEW u \in Thread PROVE ~Owns(u)
    BY DEF HandInv, Starting, Owns, Claims, InHand
  <1> QED
    BY <1>1 DEF LifeInv, StartInv

\* A thread past the start goes on only when the start is captured.
LEMMA PastStart ==
  ASSUME OrderInv, ~raced, NEW t \in Thread, built[t] = None,
         pc[t] \in {"iterate", "iteration", "skills", "skill"}
  PROVE  InWire("kernel_start")
  <1> SUFFICES ASSUME BeforeStart PROVE FALSE
    BY DEF OrderInv, PhaseInv
  <1>1. Starting(t)
    BY DEF BeforeStart, Active
  <1> QED
    BY <1>1 DEF Starting

LEMMA OrderBegin ==
  ASSUME LifeInv, OrderInv, NEW t \in Thread, BeginStep(t)
  PROVE  OrderInv'
  <1>1. /\ Go(t, "idle", "cache")
        /\ raced' = (raced \/ \E u \in Thread : Starting(u))
        /\ UNCHANGED <<streamVars, kernelStarted, loopCounter, kernelId, agent, claimed>>
    BY DEF BeginStep, hookVars
  <1>2. /\ wire' = wire /\ built' = built /\ built[t] = None
        /\ pc[t] = "idle" /\ pc'[t] = "cache" /\ \A u \in Thread \ {t} : pc'[u] = pc[u]
        /\ InWire("kernel_start")' <=> InWire("kernel_start")
        /\ HandInv'
        /\ \A u \in Thread : Held(u)' = Held(u)
    BY <1>1, QuietOrder
  <1> SUFFICES ASSUME ~raced' PROVE PhaseInv' /\ NumberInv'
    BY <1>2 DEF OrderInv
  <1>3. ~raced /\ \A u \in Thread : ~Starting(u)
    BY <1>1
  <1>4. NumberInv'
    BY <1>1, <1>2, <1>3, NumbersStay DEF OrderInv
  <1>5. CASE InWire("kernel_start")
    <2>1. AfterStart
      BY <1>3, <1>5 DEF OrderInv, PhaseInv
    <2>2. AfterStart'
      BY <1>1, <1>2, <2>1, AfterMove DEF InHand
    <2> QED
      BY <1>2, <1>4, <1>5, <2>2 DEF PhaseInv
  <1>6. CASE ~InWire("kernel_start")
    <2>1. BeforeStart
      BY <1>3, <1>6 DEF OrderInv, PhaseInv
    <2>2. \A u \in Thread : ~Active(u)
      BY <1>3, <2>1 DEF BeforeStart
    <2>3. kernelId = None
      BY <2>1, <2>2 DEF BeforeStart, Active, Cached
    <2>4. ~kernelStarted
      BY <1>3, <1>6, NotStarted DEF OrderInv
    <2>5. \A u \in Thread : Active(u)' => u = t
      BY <1>2, <2>2 DEF Active
    <2>6. Starting(t)'
      BY <1>1, <1>2, <2>4 DEF Starting
    <2>7. \A u \in Thread : ~Cached(u)'
      BY <1>2, <2>2 DEF Active, Cached
    <2>8. \A u \in Thread : built'[u] = None
      BY <1>2, <2>2 DEF Active
    <2>9. BeforeStart'
      BY <1>1, <1>2, <2>1, <2>3, <2>5, <2>6, <2>7, <2>8 DEF BeforeStart
    <2> QED
      BY <1>2, <1>4, <1>6, <2>9 DEF PhaseInv
  <1> QED
    BY <1>5, <1>6

\* Until the start is captured, only the thread that starts the kernel moves.
LEMMA AloneMoves ==
  ASSUME BeforeStart, NEW t \in Thread, Active(t),
         wire' = wire, loopCounter' = 0,
         \A u \in Thread \ {t} : pc'[u] = pc[u] /\ built'[u] = built[u],
         Starting(t)', Cached(t)', kernelId' = agent'[t],
         built'[t] # None => InHand(t, "kernel_start")'
  PROVE  BeforeStart'
  <1>1. \A u \in Thread \ {t} : ~Active(u)'
    BY DEF BeforeStart, Active
  <1>2. \A u \in Thread \ {t} : ~Cached(u)' /\ built'[u] = None
    BY <1>1 DEF Active, Cached
  <1>3. /\ wire' = <<>>
        /\ \A u \in Thread : Active(u)' => Starting(u)'
        /\ \A u, v \in Thread : Active(u)' /\ Active(v)' => u = v
        /\ \A u \in Thread : built'[u] # None => InHand(u, "kernel_start")'
        /\ \A u \in Thread : Cached(u)' => kernelId' = agent'[u]
        /\ \E u \in Thread : Cached(u)'
    BY <1>1, <1>2 DEF BeforeStart
  <1> QED
    BY <1>3 DEF BeforeStart

\* A quiet move of before_step up to the start.
LEMMA OrderFirstSteps ==
  ASSUME LifeInv, OrderInv, NEW t \in Thread,
         CacheKernelId(t) \/ SwapStarted(t) \/ ResetLoopCounter(t)
  PROVE  OrderInv'
  <1> DEFINE from == pc[t]
             to   == pc'[t]
  <1>1. /\ Go(t, from, to) /\ UNCHANGED <<streamVars, agent, claimed, raced>>
        /\ from \in {"cache", "swap", "reset"}
        /\ to \in {"swap", "reset", "start", "iterate"}
    BY DEF CacheKernelId, SwapStarted, ResetLoopCounter, threadVars, Go,
           LifeInv, KernelInv, HookInv, HookTypes
  <1>2. /\ wire' = wire /\ built' = built /\ built[t] = None
        /\ \A u \in Thread \ {t} : pc'[u] = pc[u]
        /\ InWire("kernel_start")' <=> InWire("kernel_start")
        /\ HandInv'
        /\ \A u \in Thread : Held(u)' = Held(u)
    <2> HIDE DEF from, to
    <2> QED
      BY <1>1, QuietOrder
  <1> SUFFICES ASSUME ~raced PROVE PhaseInv' /\ NumberInv'
    BY <1>1, <1>2 DEF OrderInv
  <1>3. CASE InWire("kernel_start")
    <2>1. AfterStart
      BY <1>3 DEF OrderInv, PhaseInv
    <2>2. ~ResetLoopCounter(t)
      BY <1>3 DEF ResetLoopCounter, Go, LifeInv, StartInv, Owns, Claims
    <2>3. loopCounter' = loopCounter
      BY <2>2 DEF CacheKernelId, SwapStarted
    <2>4. kernelId # None
      BY <1>1, <2>1 DEF AfterStart, AllReleased
    <2>5. kernelId' = kernelId
      BY <2>2, <2>4 DEF CacheKernelId, SwapStarted
    <2>6. AfterStart'
      BY <1>1, <1>2, <2>1, <2>5, AfterMove DEF InHand
    <2>7. NumberInv'
      BY <1>2, <2>3, NumbersStay DEF OrderInv
    <2> QED
      BY <1>2, <1>3, <2>6, <2>7 DEF PhaseInv
  <1>4. CASE ~InWire("kernel_start")
    <2>1. BeforeStart
      BY <1>4 DEF OrderInv, PhaseInv
    <2>2. Active(t) /\ Starting(t) /\ \A u \in Thread : Cached(u) => u = t
      BY <1>1, <2>1 DEF BeforeStart, Active, Cached
    <2>3. loopCounter' = 0
      BY <2>1 DEF BeforeStart, CacheKernelId, SwapStarted, ResetLoopCounter
    <2>4. Cached(t)' /\ Starting(t)' /\ kernelId' = agent'[t]
      <3>1. CASE CacheKernelId(t)
        <4>1. pc[t] = "cache" /\ to = "swap" /\ ~kernelStarted
          BY <1>2, <2>2, <3>1 DEF CacheKernelId, Go, Starting, LifeInv, KernelInv, HookInv, HookTypes
        <4>2. kernelId = None
          BY <2>1, <2>2, <4>1 DEF BeforeStart, Cached
        <4>3. kernelId' = agent[t] /\ kernelStarted' = kernelStarted /\ agent' = agent
          BY <3>1, <4>2 DEF CacheKernelId, threadVars
        <4> QED
          BY <4>1, <4>3 DEF Cached, Starting
      <3>2. CASE SwapStarted(t)
        <4>1. pc[t] = "swap" /\ ~kernelStarted
          BY <1>2, <2>2, <3>2 DEF SwapStarted, Go, Starting
        <4>2. to = "reset"
          BY <3>2, <4>1 DEF SwapStarted, Go, LifeInv, KernelInv, HookInv, HookTypes
        <4>3. kernelId' = kernelId /\ agent' = agent
          BY <3>2 DEF SwapStarted, threadVars
        <4> QED
          BY <2>1, <4>1, <4>2, <4>3 DEF Cached, Starting, BeforeStart
      <3>3. CASE ResetLoopCounter(t)
        <4>1. pc[t] = "reset" /\ to = "start"
          BY <3>3 DEF ResetLoopCounter, Go, LifeInv, KernelInv, HookInv, HookTypes
        <4>2. kernelId' = kernelId /\ agent' = agent
          BY <3>3 DEF ResetLoopCounter, threadVars
        <4> QED
          BY <2>1, <4>1, <4>2 DEF Cached, Starting, BeforeStart
      <3> QED
        BY <3>1, <3>2, <3>3
    <2>5. BeforeStart'
      BY <1>2, <2>1, <2>2, <2>3, <2>4, AloneMoves
    <2>6. NumberInv'
      BY <1>2, <2>1, <2>3, NumbersStay DEF OrderInv, BeforeStart
    <2> QED
      BY <1>2, <1>4, <2>5, <2>6 DEF PhaseInv
  <1> QED
    BY <1>3, <1>4

LEMMA OrderKernelStart ==
  ASSUME LifeInv, OrderInv, NEW t \in Thread, EmitKernelStart(t)
  PROVE  OrderInv'
  <1>1. /\ Go(t, "start", "iterate") /\ Emit(t, "kernel_start", agent[t], 0)
        /\ UNCHANGED <<kernelStarted, loopCounter, kernelId, agent, claimed, raced>>
        /\ agent[t] \in Kernel
    BY DEF EmitKernelStart, hookVars, threadVars, LifeInv, KernelInv, HookInv, HookTypes
  <1>2. /\ wire' = wire /\ built[t] = None /\ built'[t] # None
        /\ built'[t].body.kind = "kernel_start"
        /\ \A u \in Thread \ {t} : built'[u] = built[u]
        /\ pc[t] = "start" /\ pc'[t] = "iterate" /\ \A u \in Thread \ {t} : pc'[u] = pc[u]
        /\ InWire("kernel_start")' <=> InWire("kernel_start")
        /\ HandInv'
    BY <1>1, BuildOrder
  <1>3. \A u \in Thread : Held(u)' = Held(u)
    BY <1>1, OtherOrder
  <1> SUFFICES ASSUME ~raced PROVE PhaseInv' /\ NumberInv'
    BY <1>1, <1>2 DEF OrderInv
  <1>4. ~InWire("kernel_start")
    BY <1>2 DEF LifeInv, StartInv, Owns, Claims
  <1>5. BeforeStart
    BY <1>4 DEF OrderInv, PhaseInv
  <1>6. Active(t) /\ Cached(t) /\ kernelId = agent[t]
    BY <1>2, <1>5 DEF Active, Cached, BeforeStart
  <1>7. Starting(t)' /\ Cached(t)' /\ InHand(t, "kernel_start")'
    BY <1>2 DEF Starting, Cached, InHand
  <1>8. loopCounter' = 0 /\ kernelId' = agent'[t]
    BY <1>1, <1>5, <1>6 DEF BeforeStart
  <1>9. BeforeStart'
    BY <1>2, <1>5, <1>6, <1>7, <1>8, AloneMoves
  <1>10. NumberInv'
    BY <1>1, <1>2, <1>3, NumbersStay DEF OrderInv
  <1> QED
    BY <1>2, <1>4, <1>9, <1>10 DEF PhaseInv

LEMMA OrderNextIteration ==
  ASSUME LifeInv, OrderInv, NEW t \in Thread, NextIteration(t)
  PROVE  OrderInv'
  <1>1. /\ Go(t, "iterate", "iteration") /\ UNCHANGED streamVars
        /\ claimed' = [claimed EXCEPT ![t] = loopCounter]
        /\ loopCounter' = loopCounter + 1
        /\ UNCHANGED <<kernelStarted, kernelId, agent, raced>>
        /\ loopCounter \in Nat /\ claimed \in [Thread -> Nat \cup {None}]
    BY DEF NextIteration, LifeInv, KernelInv, HookInv, HookTypes
  <1>2. wire' = wire /\ built' = built
    BY <1>1, QuietEffect DEF LifeInv
  <1>3. /\ pc[t] = "iterate" /\ pc'[t] = "iteration" /\ built[t] = None
        /\ \A u \in Thread \ {t} : pc'[u] = pc[u] /\ claimed'[u] = claimed[u]
        /\ claimed'[t] = loopCounter
    BY <1>1 DEF Go, LifeInv, KernelInv, HookInv, HookTypes
  <1>4. HandInv'
    BY <1>1, <1>2, <1>3 DEF OrderInv, HandInv
  <1> SUFFICES ASSUME ~raced PROVE PhaseInv' /\ NumberInv'
    BY <1>1, <1>4 DEF OrderInv
  <1>5. InWire("kernel_start")
    BY <1>3, PastStart
  <1>6. AfterStart
    BY <1>5 DEF OrderInv, PhaseInv
  <1>7. AfterStart'
    BY <1>1, <1>2, <1>3, <1>6, AfterMove DEF InHand
  <1>8. InWire("kernel_start")'
    BY <1>2, <1>5 DEF InWire
  <1>9. Held(t) = None /\ Held(t)' = loopCounter
    BY <1>2, <1>3 DEF Held, InHand
  <1>10. \A u \in Thread \ {t} : Held(u)' = Held(u)
    BY <1>2, <1>3 DEF Held, InHand
  <1>11. wire \in Seq(Stream!Event)
    BY DEF LifeInv, KernelInv, Stream!TypeOK, wire, Stream!wire
  <1>12. NumberInv'
    BY <1>1, <1>2, <1>9, <1>10, <1>11, NumberClaimed DEF OrderInv
  <1> QED
    BY <1>7, <1>8, <1>12 DEF PhaseInv

LEMMA OrderLoopIteration ==
  ASSUME LifeInv, OrderInv, NEW t \in Thread, EmitLoopIteration(t)
  PROVE  OrderInv'
  <1>1. /\ Go(t, "iteration", "skills")
        /\ Emit(t, "loop_iteration", agent[t], claimed[t])
        /\ claimed' = [claimed EXCEPT ![t] = None]
        /\ UNCHANGED <<kernelStarted, loopCounter, kernelId, agent, raced>>
        /\ agent[t] \in Kernel /\ claimed[t] \in Nat
        /\ claimed \in [Thread -> Nat \cup {None}]
    BY DEF EmitLoopIteration, hookVars, LifeInv, KernelInv, HookInv, HookTypes,
           ClaimedBeforeEmitted, Go
  <1>2. /\ wire' = wire /\ built[t] = None /\ built'[t] # None
        /\ built'[t].body.kind = "loop_iteration" /\ built'[t].body.n = claimed[t]
        /\ \A u \in Thread \ {t} : built'[u] = built[u]
        /\ pc[t] = "iteration" /\ pc'[t] = "skills"
        /\ \A u \in Thread \ {t} : pc'[u] = pc[u]
        /\ InWire("kernel_start")' <=> InWire("kernel_start")
        /\ HandInv'
    BY <1>1, BuildOrder
  <1> SUFFICES ASSUME ~raced PROVE PhaseInv' /\ NumberInv'
    BY <1>1, <1>2 DEF OrderInv
  <1>3. InWire("kernel_start")
    BY <1>2, PastStart
  <1>4. AfterStart
    BY <1>3 DEF OrderInv, PhaseInv
  <1>5. AfterStart'
    BY <1>1, <1>2, <1>4, AfterMove DEF InHand
  <1>6. Held(t) = claimed[t] /\ Held(t)' = claimed[t]
    BY <1>2 DEF Held, InHand
  <1>7. ASSUME NEW u \in Thread \ {t} PROVE Held(u)' = Held(u)
    <2>1. pc'[u] = pc[u] /\ built'[u] = built[u] /\ claimed'[u] = claimed[u]
      BY <1>1, <1>2
    <2> QED
      BY <2>1 DEF Held, InHand
  <1>8. NumberInv'
    BY <1>1, <1>2, <1>6, <1>7, NumbersStay DEF OrderInv
  <1> QED
    BY <1>2, <1>3, <1>5, <1>8 DEF PhaseInv

\* The steps of a thread past the start that leave the counter and the id alone.
LEMMA OrderSkills ==
  ASSUME LifeInv, OrderInv, NEW t \in Thread, Skills(t)
  PROVE  OrderInv'
  <1> DEFINE from == pc[t]
             to   == pc'[t]
  <1>1. /\ Go(t, from, to)
        /\ UNCHANGED <<kernelStarted, loopCounter, kernelId, agent, claimed, raced>>
        /\ from \in {"skills", "skill"} /\ to \in {"skill", "idle"}
        /\ agent[t] \in Kernel
    BY DEF Skills, SkillDeclined, SkillApplies, AfterSkill, OnStepError, AbandonStep,
           EmitSkillResolved, hookVars, threadVars, Go,
           LifeInv, KernelInv, HookInv, HookTypes
  <1>2. \/ UNCHANGED streamVars
        \/ \E kind \in {"skill_resolved", "recovery"} : Emit(t, kind, agent[t], 0)
    BY DEF Skills, SkillDeclined, SkillApplies, AfterSkill, OnStepError, AbandonStep,
           EmitSkillResolved
  <1> DEFINE effect ==
         /\ wire' = wire /\ built[t] = None
         /\ \A u \in Thread \ {t} : built'[u] = built[u]
         /\ ~InHand(t, "kernel_shutdown")'
         /\ pc[t] = from /\ \A u \in Thread \ {t} : pc'[u] = pc[u]
         /\ InWire("kernel_start")' <=> InWire("kernel_start")
         /\ HandInv'
         /\ \A u \in Thread : Held(u)' = Held(u)
  <1>3. effect
    <2> HIDE DEF from, to
    <2>1. CASE UNCHANGED streamVars
      BY <1>1, <2>1, QuietOrder DEF InHand
    <2>2. ASSUME NEW kind \in {"skill_resolved", "recovery"}, Emit(t, kind, agent[t], 0)
          PROVE  effect
      <3>1. /\ wire' = wire /\ built[t] = None /\ built'[t] # None
            /\ built'[t].body.kind = kind
            /\ \A u \in Thread \ {t} : built'[u] = built[u]
            /\ pc[t] = from /\ pc'[t] = to /\ \A u \in Thread \ {t} : pc'[u] = pc[u]
            /\ InWire("kernel_start")' <=> InWire("kernel_start")
            /\ HandInv'
        BY <1>1, <2>2, BuildOrder
      <3>2. \A u \in Thread : Held(u)' = Held(u)
        BY <1>1, <2>2, OtherOrder
      <3> QED
        BY <3>1, <3>2 DEF InHand
    <2> QED
      BY <1>2, <2>1, <2>2
  <1> SUFFICES ASSUME ~raced PROVE PhaseInv' /\ NumberInv'
    BY <1>1, <1>3 DEF OrderInv
  <1>4. InWire("kernel_start")
    BY <1>1, <1>3, PastStart
  <1>5. AfterStart
    BY <1>4 DEF OrderInv, PhaseInv
  <1>6. AfterStart'
    BY <1>1, <1>3, <1>5, AfterMove DEF InHand
  <1>7. NumberInv'
    BY <1>1, <1>3, NumbersStay DEF OrderInv
  <1> QED
    BY <1>3, <1>4, <1>6, <1>7 DEF PhaseInv

\* A thread gives its reference up and emits nothing.
LEMMA OrderRelease ==
  ASSUME LifeInv, OrderInv, NEW t \in Thread, Release(t) \/ DropUnstarted(t)
  PROVE  OrderInv'
  <1> DEFINE from == pc[t]
             to   == pc'[t]
  <1>1. /\ Go(t, from, to) /\ UNCHANGED <<streamVars, agent, claimed, raced>>
        /\ UNCHANGED <<kernelStarted, loopCounter, kernelId>>
        /\ from \in {"idle", "drop"} /\ to \in {"drop", "released"}
    BY DEF Release, DropUnstarted, threadVars, hookVars, Go,
           LifeInv, KernelInv, HookInv, HookTypes
  <1>2. /\ wire' = wire /\ built' = built /\ built[t] = None
        /\ \A u \in Thread \ {t} : pc'[u] = pc[u]
        /\ InWire("kernel_start")' <=> InWire("kernel_start")
        /\ HandInv'
        /\ \A u \in Thread : Held(u)' = Held(u)
    <2> HIDE DEF from, to
    <2> QED
      BY <1>1, QuietOrder
  <1> SUFFICES ASSUME ~raced PROVE PhaseInv' /\ NumberInv'
    BY <1>1, <1>2 DEF OrderInv
  <1>3. NumberInv'
    BY <1>1, <1>2, NumbersStay DEF OrderInv
  <1>4. CASE InWire("kernel_start")
    <2>1. AfterStart
      BY <1>4 DEF OrderInv, PhaseInv
    <2>2. AfterStart'
      BY <1>1, <1>2, <2>1, AfterMove DEF InHand
    <2> QED
      BY <1>2, <1>3, <1>4, <2>2 DEF PhaseInv
  <1>5. CASE ~InWire("kernel_start")
    <2>1. BeforeStart
      BY <1>5 DEF OrderInv, PhaseInv
    <2>2. /\ \A u \in Thread : Active(u)' <=> Active(u)
          /\ \A u \in Thread : Cached(u)' <=> Cached(u)
          /\ \A u \in Thread : Starting(u)' <=> Starting(u)
      BY <1>1, <1>2 DEF Active, Cached, Starting
    <2>3. BeforeStart'
      BY <1>1, <1>2, <2>1, <2>2 DEF BeforeStart, InHand
    <2> QED
      BY <1>2, <1>3, <1>5, <2>3 DEF PhaseInv
  <1> QED
    BY <1>4, <1>5

LEMMA OrderShutdown ==
  ASSUME LifeInv, OrderInv, NEW t \in Thread, DropStarted(t)
  PROVE  OrderInv'
  <1>1. /\ Go(t, "drop", "released") /\ kernelStarted
        /\ Emit(t, "kernel_shutdown", kernelId, 0)
        /\ kernelId \in Kernel /\ kernelId # None /\ kernelId' = None
        /\ UNCHANGED <<kernelStarted, loopCounter, agent, claimed, raced>>
    BY DEF DropStarted, threadVars, LifeInv, KernelInv, HookInv, HookTypes
  <1>2. /\ wire' = wire /\ built[t] = None
        /\ built'[t].body.kernel = kernelId
        /\ \A u \in Thread \ {t} : built'[u] = built[u]
        /\ pc[t] = "drop" /\ pc'[t] = "released" /\ \A u \in Thread \ {t} : pc'[u] = pc[u]
        /\ InWire("kernel_start")' <=> InWire("kernel_start")
        /\ HandInv'
    BY <1>1, BuildOrder
  <1>3. \A u \in Thread : Held(u)' = Held(u)
    BY <1>1, OtherOrder
  <1> SUFFICES ASSUME ~raced PROVE PhaseInv' /\ NumberInv'
    BY <1>1, <1>2 DEF OrderInv
  <1>4. NumberInv'
    BY <1>1, <1>2, <1>3, NumbersStay DEF OrderInv
  <1>5. (\A u \in Thread \ {t} : pc[u] = "released") /\ Quiet
    BY <1>2 DEF LifeInv, ShutdownInv
  <1>6. InWire("kernel_start")
    <2>1. \A u \in Thread : ~Owns(u)
      BY <1>2, <1>5 DEF Owns, Claims, InHand, Quiet
    <2> QED
      BY <1>1, <2>1 DEF LifeInv, StartInv
  <1>7. AfterStart /\ kernelId = wire[1].body.kernel
    BY <1>1, <1>6 DEF OrderInv, PhaseInv, AfterStart
  <1>8. AllReleased'
    BY <1>2, <1>5 DEF AllReleased
  <1>9. \A u \in Thread : built'[u] # None => u = t
    BY <1>2, <1>5 DEF Quiet
  <1>10. AfterStart'
    BY <1>1, <1>2, <1>7, <1>8, <1>9 DEF AfterStart, InHand
  <1> QED
    BY <1>2, <1>4, <1>6, <1>10 DEF PhaseInv

LEMMA OrderDispatch ==
  ASSUME LifeInv, OrderInv, NEW t \in Thread, Dispatch(t)
  PROVE  OrderInv'
  <1>1. UNCHANGED <<kernelStarted, loopCounter, kernelId, pc, agent, claimed, raced>>
    BY DEF Dispatch, hookVars, threadVars
  <1>2. /\ wire \in Seq(Stream!Event) /\ wire' = Append(wire, built[t])
        /\ built[t] \in Stream!Event /\ built[t] # None
        /\ built'[t] = None
        /\ \A u \in Thread \ {t} : built'[u] = built[u]
    BY CaptureEffect DEF Dispatch, LifeInv
  <1>3. /\ Len(wire) \in Nat
        /\ DOMAIN wire = 1..Len(wire)
        /\ DOMAIN wire' = 1..(Len(wire) + 1)
        /\ \A i \in DOMAIN wire : wire'[i] = wire[i]
        /\ wire'[Len(wire) + 1] = built[t]
    BY <1>2
  <1>4. HandInv'
    BY <1>1, <1>2 DEF OrderInv, HandInv
  <1> SUFFICES ASSUME ~raced PROVE PhaseInv' /\ NumberInv'
    BY <1>1, <1>4 DEF OrderInv
  <1>5. NumberInv'
    <2>1. /\ built[t].by = t /\ pc[t] # "iteration"
          /\ built[t].body.kind = "loop_iteration" => pc[t] = "skills"
      BY <1>2 DEF OrderInv, HandInv
    <2>2. /\ Held(t) = IF built[t].body.kind = "loop_iteration"
                         THEN built[t].body.n ELSE None
          /\ Held(t)' = None
      BY <1>1, <1>2, <2>1 DEF Held, InHand
    <2>3. \A u \in Thread \ {t} : Held(u)' = Held(u)
      BY <1>1, <1>2 DEF Held, InHand
    <2> QED
      BY <1>1, <1>2, <2>1, <2>2, <2>3, NumberCaptured DEF OrderInv
  <1>6. CASE InWire("kernel_start")
    <2>1. AfterStart
      BY <1>6 DEF OrderInv, PhaseInv
    <2>2. InWire("kernel_start")' /\ 1 \in DOMAIN wire /\ wire'[1] = wire[1]
      BY <1>3, <1>6 DEF InWire
    <2>3. AllReleased' <=> AllReleased
      BY <1>1 DEF AllReleased
    <2>4. \A u \in Thread : InHand(u, "kernel_shutdown")' =>
            InHand(u, "kernel_shutdown") /\ built'[u] = built[u]
      BY <1>2 DEF InHand
    <2>5. ASSUME NEW i \in DOMAIN wire', wire'[i].body.kind = "kernel_shutdown"
          PROVE  wire'[i].body.kernel = wire[1].body.kernel
      <3>1. CASE i \in DOMAIN wire
        BY <1>3, <2>1, <2>5, <3>1 DEF AfterStart
      <3>2. CASE i = Len(wire) + 1
        BY <1>2, <1>3, <2>1, <2>5, <3>2 DEF AfterStart, InHand
      <3> QED
        BY <1>3, <3>1, <3>2
    <2>6. AfterStart'
      BY <1>1, <2>1, <2>2, <2>3, <2>4, <2>5 DEF AfterStart
    <2> QED
      BY <1>5, <2>2, <2>6 DEF PhaseInv
  <1>7. CASE ~InWire("kernel_start")
    <2>1. BeforeStart
      BY <1>7 DEF OrderInv, PhaseInv
    <2>2. InHand(t, "kernel_start") /\ Active(t)
      BY <1>2, <2>1 DEF BeforeStart, Active
    <2>3. pc[t] = "iterate" /\ built[t].body.kernel = agent[t]
      BY <2>2 DEF OrderInv, HandInv, InHand
    <2>4. kernelId = built[t].body.kernel /\ kernelId # None
      <3>1. agent[t] # None
        BY NoneAssumption DEF LifeInv, KernelInv, HookInv, HookTypes
      <3> QED
        BY <2>1, <2>3, <3>1 DEF BeforeStart, Cached
    <2>5. wire' = <<built[t]>>
      BY <1>2, <2>1 DEF BeforeStart
    <2>6. wire'[1].body.kind = "kernel_start" /\ DOMAIN wire' = {1}
      BY <2>2, <2>5 DEF InHand
    <2>7. \A u \in Thread : built'[u] = None
      BY <1>2, <2>1, <2>2 DEF BeforeStart, Active
    <2>8. AfterStart'
      BY <1>1, <2>4, <2>5, <2>6, <2>7 DEF AfterStart, InHand
    <2>9. InWire("kernel_start")'
      BY <2>6 DEF InWire
    <2> QED
      BY <1>5, <2>8, <2>9 DEF PhaseInv
  <1> QED
    BY <1>6, <1>7

LEMMA OrderStays ==
  ASSUME LifeInv, OrderInv, UNCHANGED vars \/ ClearEvents
  PROVE  OrderInv'
  <1>1. wire' = wire /\ built' = built
    BY QuietEffect DEF LifeInv, ClearEvents, vars
  <1>2. UNCHANGED <<kernelStarted, loopCounter, kernelId, pc, agent, claimed, raced>>
    BY DEF ClearEvents, vars, hookVars, threadVars
  <1>3. HandInv'
    BY <1>1, <1>2 DEF OrderInv, HandInv
  <1>4. \A u \in Thread : /\ Held(u)' = Held(u)
                          /\ Active(u)' <=> Active(u)
                          /\ Cached(u)' <=> Cached(u)
                          /\ Starting(u)' <=> Starting(u)
    BY <1>1, <1>2 DEF Held, InHand, Active, Cached, Starting
  <1> SUFFICES ASSUME ~raced PROVE PhaseInv' /\ NumberInv'
    BY <1>2, <1>3 DEF OrderInv
  <1>5. NumberInv'
    BY <1>1, <1>2, <1>4, NumbersStay DEF OrderInv
  <1>6. AfterStart => AfterStart'
    BY <1>1, <1>2 DEF AfterStart, InHand, AllReleased
  <1>7. BeforeStart => BeforeStart'
    BY <1>1, <1>2, <1>4 DEF BeforeStart, InHand
  <1>8. InWire("kernel_start")' <=> InWire("kernel_start")
    BY <1>1 DEF InWire
  <1> QED
    BY <1>5, <1>6, <1>7, <1>8 DEF OrderInv, PhaseInv

LEMMA OrderInvariant == Spec => []OrderInv
  <1>1. LifeInv /\ OrderInv /\ [Next]_vars => OrderInv'
    BY OrderBegin, OrderFirstSteps, OrderKernelStart, OrderNextIteration,
       OrderLoopIteration, OrderSkills, OrderRelease, OrderShutdown, OrderDispatch,
       OrderStays
    DEF Next, BeforeStep, Drop
  <1> QED
    BY <1>1, InitOrder, LifeInvariant, PTL DEF Spec

\* Unless a step began while another one was starting the kernel, the start comes
\* before everything else, the shutdown names the kernel that started, and the
\* iterations are numbered from 0 without a gap or a repetition.
THEOREM StartsAreInOrder == Spec => []StartsInOrder
  <1>1. LifeInv /\ OrderInv => StartComesFirst
    <2> SUFFICES ASSUME LifeInv, OrderInv, ~raced, NEW i \in DOMAIN wire
                 PROVE  /\ Is(i, "kernel_start") <=> i = 1
                        /\ Is(i, "kernel_shutdown") =>
                             wire[i].body.kernel = wire[1].body.kernel
      BY DEF StartComesFirst
    <2>1. wire \in Seq(Stream!Event)
      BY DEF LifeInv, KernelInv, Stream!TypeOK, wire, Stream!wire
    <2>2. wire # <<>> /\ 1 \in DOMAIN wire
      BY <2>1
    <2>3. AfterStart
      BY <2>2 DEF OrderInv, PhaseInv, BeforeStart
    <2> QED
      BY <2>2, <2>3 DEF Is, AfterStart, LifeInv, StartInv, OnceInWire
  <1>2. OrderInv => IterationsNumbered
    <2> SUFFICES ASSUME OrderInv, ~raced PROVE IterationsNumbered
      BY DEF IterationsNumbered
    <2>1. ASSUME NEW t \in Thread, NEW n \in 0..(loopCounter - 1), Held(t) = n
          PROVE  claimed[t] = n \/ (pc[t] = "skills" /\ built[t] # None /\ built[t].body.n = n)
      <3>1. n # None
        BY NoneAssumption
      <3> QED
        BY <2>1, <3>1 DEF Held, InHand, OrderInv, HandInv
    <2>2. NumberInv
      BY DEF OrderInv
    <2>3. \A n \in 0..(loopCounter - 1) :
            \/ \E i \in DOMAIN wire : Is(i, "loop_iteration") /\ wire[i].body.n = n
            \/ \E t \in Thread :
                 \/ claimed[t] = n
                 \/ pc[t] = "skills" /\ built[t] # None /\ built[t].body.n = n
      BY <2>1, <2>2 DEF NumberInv, Iteration, Is
    <2> QED
      BY <2>2, <2>3 DEF IterationsNumbered, NumberInv, Iteration, Is
  <1> QED
    BY <1>1, <1>2, LifeInvariant, OrderInvariant, PTL DEF StartsInOrder
=============================================================================
