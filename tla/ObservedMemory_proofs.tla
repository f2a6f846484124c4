------------------------- MODULE ObservedMemory_proofs -------------------------
(***************************************************************************)
(* ObservedMemory is well-typed, its samples of a conversation never shrink *)
(* without a clear, they miss nothing that was reported before, and every   *)
(* message is accounted for, for any number of tasks, conversations and     *)
(* calls.                                                                   *)
(*                                                                          *)
(* SamplesNeverShrink is not inductive.  Within the time between two clears *)
(* the memory of a conversation only grows, so that what is in the stream   *)
(* bounds the memory from below (StreamBelowMemory), hence whatever a task  *)
(* that begins later loads (LaterLoadsAbove), hence what it reports.        *)
(*                                                                          *)
(* The other two are about sums.  What sums do when an element joins or     *)
(* leaves is proved first; then, action by action, which of the sums of     *)
(* MessagesAccountedFor a message moves between, and that what was appended *)
(* since the last clear is still in the memory (FreshIsKept), hence in what *)
(* is loaded (FreshIsLoaded), hence in what is sampled.                     *)
(***************************************************************************)
EXTENDS ObservedMemory, FiniteSetTheorems, WellFoundedInduction, TLAPS

Sample(i) == log[i].kind = "sampled"

\* Nothing began after more clears, or with more events, than there are.
MarksAreOld ==
  /\ \A t \in Task : /\ began[t].clears <= clears[on[t]]
                     /\ began[t].events <= Len(log)
  /\ \A i \in DOMAIN log : /\ log[i].began.clears <= clears[log[i].conversation]
                          /\ log[i].began.events <= Len(log)

\* What was loaded since the last clear is still there.
LoadedBelowMemory ==
  \A t \in Task :
    pc[t] = "loaded" /\ began[t].clears = clears[on[t]] => count[t] <= memory[on[t]]

\* ... also when it has been reported.
StreamBelowMemory ==
  \A i \in DOMAIN log :
    Sample(i) /\ log[i].began.clears = clears[log[i].conversation]
      => log[i].count <= memory[log[i].conversation]

\* A load that began after a report returned at least as much.
LaterLoadsAbove ==
  \A t \in Task : \A i \in DOMAIN log :
    /\ pc[t] = "loaded"
    /\ Sample(i) /\ log[i].conversation = on[t] /\ i <= began[t].events
    /\ log[i].began.clears = clears[on[t]]
    => log[i].count <= count[t]

\* The inductive invariant.
IInv ==
  /\ TypeOK
  /\ MarksAreOld
  /\ LoadedBelowMemory
  /\ StreamBelowMemory
  /\ LaterLoadsAbove
  /\ SamplesNeverShrink

-----------------------------------------------------------------------------
(* Types *)

LEMMA TypeInit == Init => TypeOK
  BY BoundsAssumption DEF Init, TypeOK, Marks, Event

\* What every operation does when it begins, and every report.
LEMMA BeginType ==
  ASSUME TypeOK, NEW t \in Task, NEW c \in Conversation,
         NEW to \in Pending, Begin(t, c, to)
  PROVE  /\ pc' \in [Task -> {"idle"} \cup Pending \cup Done]
         /\ calls' \in Nat
         /\ on' \in [Task -> Conversation]
         /\ began' \in [Task -> Marks]
         /\ UNCHANGED <<memory, clears, removed, silent>>
<1>1. Len(log) \in Nat /\ clears[c] \in Nat
  BY DEF TypeOK
<1>2. [events |-> Len(log), clears |-> clears[c]] \in Marks
  BY <1>1 DEF Marks
<1> QED
  BY <1>2 DEF TypeOK, Begin, Go, historyVars

LEMMA EmitType ==
  ASSUME TypeOK, NEW t \in Task, NEW kind \in {"sampled", "persisted"}, Emit(t, kind)
  PROVE  log' \in Seq(Event)
<1>1. [kind |-> kind, conversation |-> on[t], count |-> count[t],
       began |-> began[t], ended |-> clears[on[t]]] \in Event
  BY DEF TypeOK, Event
<1> QED
  BY <1>1 DEF TypeOK, Emit

LEMMA TypeStep == TypeOK /\ [Next]_vars => TypeOK'
<1> SUFFICES ASSUME TypeOK, [Next]_vars PROVE TypeOK'
  OBVIOUS
<1> USE DEF taskVars, historyVars
<1>1. ASSUME NEW t \in Task, BeginLoad(t) PROVE TypeOK'
  BY <1>1, BeginType DEF BeginLoad, TypeOK, Pending
<1>2. ASSUME NEW t \in Task, InnerLoad(t) PROVE TypeOK'
  BY <1>2 DEF InnerLoad, Go, TypeOK, Done
<1>3. ASSUME NEW t \in Task, LoadReturns(t) PROVE TypeOK'
  BY <1>3, EmitType DEF LoadReturns, Go, TypeOK
<1>4. ASSUME NEW t \in Task, BeginAppend(t) PROVE TypeOK'
  <2> PICK c \in Conversation, n \in 0..MaxBatch :
        Begin(t, c, "append") /\ count' = [count EXCEPT ![t] = n] /\ UNCHANGED log
    BY <1>4 DEF BeginAppend
  <2>1. /\ pc' \in [Task -> {"idle"} \cup Pending \cup Done]
        /\ calls' \in Nat /\ on' \in [Task -> Conversation] /\ began' \in [Task -> Marks]
        /\ UNCHANGED <<memory, clears, removed, silent>>
    BY BeginType DEF Pending
  <2>2. count' \in [Task -> Nat]
    BY BoundsAssumption DEF TypeOK
  <2> QED
    BY <2>1, <2>2 DEF TypeOK
<1>5. ASSUME NEW t \in Task, InnerAppend(t) PROVE TypeOK'
  BY <1>5 DEF InnerAppend, Go, TypeOK, Done
<1>6. ASSUME NEW t \in Task, AppendReturns(t) PROVE TypeOK'
  BY <1>6, EmitType DEF AppendReturns, Go, TypeOK
<1>7. ASSUME NEW t \in Task, BeginClear(t) PROVE TypeOK'
  BY <1>7, BeginType DEF BeginClear, TypeOK, Pending
<1>8. ASSUME NEW t \in Task, InnerClear(t) PROVE TypeOK'
  BY <1>8 DEF InnerClear, Go, TypeOK, Done
<1>9. ASSUME NEW t \in Task, ClearReturns(t) PROVE TypeOK'
  BY <1>9 DEF ClearReturns, Go, TypeOK
<1>10. ASSUME NEW t \in Task, Breaks(t) PROVE TypeOK'
  BY <1>10 DEF Breaks, Go, TypeOK
<1>11. CASE UNCHANGED vars
  BY <1>11 DEF vars, TypeOK
<1> QED
  BY <1>1, <1>2, <1>3, <1>4, <1>5, <1>6, <1>7, <1>8, <1>9, <1>10, <1>11 DEF Next

\* Every reachable state of the decorator and its tasks is well-typed.
THEOREM Typing == Spec => []TypeOK
  BY TypeInit, TypeStep, PTL DEF Spec

-----------------------------------------------------------------------------
(* Samples never shrink *)

LEMMA EntryType ==
  ASSUME TypeOK, NEW i \in DOMAIN log
  PROVE  /\ log[i].conversation \in Conversation /\ log[i].count \in Nat
         /\ log[i].began.events \in Nat /\ log[i].began.clears \in Nat
<1>1. log[i] \in Event
  BY DEF TypeOK
<1>2. log[i].began \in Marks
  BY <1>1 DEF Event
<1> QED
  BY <1>1, <1>2 DEF Event, Marks

LEMMA InvInit == Init => IInv
<1> SUFFICES ASSUME Init PROVE IInv
  OBVIOUS
<1>1. TypeOK
  BY TypeInit
<1>2. log = <<>> /\ DOMAIN log = {}
  BY DEF Init
<1> QED
  BY <1>1, <1>2 DEF Init, IInv, TypeOK, MarksAreOld, LoadedBelowMemory,
     StreamBelowMemory, LaterLoadsAbove, SamplesNeverShrink

\* A new operation has loaded nothing yet, and marks what there is.
LEMMA BeginStep ==
  ASSUME IInv, TypeOK', NEW t \in Task, NEW c \in Conversation, NEW to \in Pending,
         Begin(t, c, to), UNCHANGED log,
         \A u \in Task \ {t} : count'[u] = count[u]
  PROVE  IInv'
<1>1. /\ pc'[t] # "loaded"
      /\ on'[t] = c /\ began'[t] = [events |-> Len(log), clears |-> clears[c]]
      /\ \A u \in Task \ {t} : /\ pc'[u] = pc[u] /\ on'[u] = on[u]
                               /\ began'[u] = began[u] /\ count'[u] = count[u]
      /\ UNCHANGED <<memory, clears, log>>
  BY DEF IInv, TypeOK, Begin, Go, Pending, historyVars
<1>2. MarksAreOld'
  <2>1. clears[c] \in Nat /\ Len(log) \in Nat
    BY DEF IInv, TypeOK
  <2>2. ASSUME NEW u \in Task
        PROVE  began'[u].clears <= clears'[on'[u]] /\ began'[u].events <= Len(log')
    BY <1>1, <2>1 DEF IInv, MarksAreOld
  <2> QED
    BY <1>1, <2>2 DEF IInv, MarksAreOld
<1>3. LoadedBelowMemory'
  BY <1>1 DEF IInv, LoadedBelowMemory
<1>4. StreamBelowMemory'
  BY <1>1 DEF IInv, StreamBelowMemory, Sample
<1>5. LaterLoadsAbove'
  BY <1>1 DEF IInv, LaterLoadsAbove, Sample
<1>6. SamplesNeverShrink'
  BY <1>1 DEF IInv, SamplesNeverShrink
<1> QED
  BY <1>2, <1>3, <1>4, <1>5, <1>6 DEF IInv

\* The operation of t has gone on or is over, and reported nothing; the memory has
\* not shrunk.
LEMMA QuietStep ==
  ASSUME IInv, TypeOK', NEW t \in Task,
         pc'[t] # "loaded", \A u \in Task \ {t} : pc'[u] = pc[u],
         \A c \in Conversation : memory[c] <= memory'[c],
         UNCHANGED <<on, began, count, log, clears>>
  PROVE  IInv'
<1>1. MarksAreOld' /\ SamplesNeverShrink'
  BY DEF IInv, MarksAreOld, SamplesNeverShrink
<1>2. LoadedBelowMemory'
  <2> SUFFICES ASSUME NEW u \in Task, pc'[u] = "loaded", began[u].clears = clears[on[u]]
               PROVE  count[u] <= memory'[on[u]]
    BY DEF LoadedBelowMemory
  <2>1. /\ on[u] \in Conversation /\ count[u] \in Nat
        /\ memory[on[u]] \in Nat /\ memory'[on[u]] \in Nat
    BY DEF IInv, TypeOK
  <2>2. count[u] <= memory[on[u]]
    BY DEF IInv, LoadedBelowMemory
  <2> QED
    BY <2>1, <2>2
<1>3. StreamBelowMemory'
  <2> SUFFICES ASSUME NEW i \in DOMAIN log, Sample(i),
                      log[i].began.clears = clears[log[i].conversation]
               PROVE  log[i].count <= memory'[log[i].conversation]
    BY DEF StreamBelowMemory, Sample
  <2>1. /\ log[i].conversation \in Conversation /\ log[i].count \in Nat
        /\ memory[log[i].conversation] \in Nat /\ memory'[log[i].conversation] \in Nat
    BY EntryType DEF IInv, TypeOK
  <2>2. log[i].count <= memory[log[i].conversation]
    BY DEF IInv, StreamBelowMemory
  <2> QED
    BY <2>1, <2>2
<1>4. LaterLoadsAbove'
  BY DEF IInv, LaterLoadsAbove, Sample
<1> QED
  BY <1>1, <1>2, <1>3, <1>4 DEF IInv

\* A load that has returned is reported.
LEMMA SampleStep ==
  ASSUME IInv, TypeOK', NEW t \in Task, LoadReturns(t)
  PROVE  IInv'
<1> DEFINE n == Len(log) + 1
           e == [kind |-> "sampled", conversation |-> on[t], count |-> count[t],
                 began |-> began[t], ended |-> clears[on[t]]]
<1>1. /\ pc[t] = "loaded" /\ pc' = [pc EXCEPT ![t] = "idle"] /\ log' = Append(log, e)
      /\ UNCHANGED <<memory, on, began, count, clears>>
  BY DEF LoadReturns, Go, Emit, taskVars, historyVars
<1>2. /\ DOMAIN log' = DOMAIN log \cup {n} /\ log'[n] = e
      /\ Len(log') = n /\ DOMAIN log = 1..Len(log) /\ Len(log) \in Nat
      /\ \A i \in DOMAIN log : log'[i] = log[i]
  BY <1>1 DEF IInv, TypeOK
<1> HIDE DEF n
<1>3. /\ \A u \in Task \ {t} : pc'[u] = pc[u]
      /\ pc'[t] # "loaded"
      /\ \A u \in Task : began[u].events \in Nat /\ began[u].clears \in Nat
      /\ n = Len(log) + 1
  BY <1>1 DEF IInv, TypeOK, n, Marks
<1>4. MarksAreOld'
  <2>1. \A k \in DOMAIN log : log[k].began.events \in Nat
    BY EntryType DEF IInv
  <2> QED
    BY <1>1, <1>2, <1>3, <2>1 DEF IInv, MarksAreOld
<1>5. LoadedBelowMemory'
  BY <1>1, <1>3 DEF IInv, LoadedBelowMemory
<1>6. StreamBelowMemory'
  BY <1>1, <1>2 DEF IInv, StreamBelowMemory, LoadedBelowMemory, Sample
<1>7. LaterLoadsAbove'
  BY <1>1, <1>2, <1>3 DEF IInv, LaterLoadsAbove, MarksAreOld, Sample
<1>8. SamplesNeverShrink'
  <2> SUFFICES ASSUME NEW i \in DOMAIN log', NEW j \in DOMAIN log',
                      log'[i].kind = "sampled", log'[j].kind = "sampled",
                      log'[i].conversation = log'[j].conversation,
                      i <= log'[j].began.events,
                      log'[i].began.clears = log'[j].ended
               PROVE  log'[i].count <= log'[j].count
    BY DEF SamplesNeverShrink
  <2>1. \A k \in DOMAIN log : log[k].began.events <= Len(log) /\ log[k].began.events \in Nat
    BY EntryType DEF IInv, MarksAreOld
  <2>2. i \in DOMAIN log
    BY <1>1, <1>2, <1>3, <2>1 DEF IInv, MarksAreOld
  <2>3. CASE j \in DOMAIN log
    BY <1>2, <2>2, <2>3 DEF IInv, SamplesNeverShrink
  <2>4. CASE j = n
    BY <1>1, <1>2, <2>2, <2>4 DEF IInv, LaterLoadsAbove, Sample
  <2> QED
    BY <1>2, <2>3, <2>4
<1> QED
  BY <1>4, <1>5, <1>6, <1>7, <1>8 DEF IInv

\* An append is reported.
LEMMA PersistStep ==
  ASSUME IInv, TypeOK', NEW t \in Task, AppendReturns(t)
  PROVE  IInv'
<1> DEFINE n == Len(log) + 1
           e == [kind |-> "persisted", conversation |-> on[t], count |-> count[t],
                 began |-> began[t], ended |-> clears[on[t]]]
<1>1. /\ pc[t] = "appended" /\ pc' = [pc EXCEPT ![t] = "idle"] /\ log' = Append(log, e)
      /\ UNCHANGED <<memory, on, began, count, clears>>
  BY DEF AppendReturns, Go, Emit, taskVars, historyVars
<1>2. /\ DOMAIN log' = DOMAIN log \cup {n} /\ log'[n] = e
      /\ Len(log') = n /\ Len(log) \in Nat /\ e.kind = "persisted"
      /\ \A i \in DOMAIN log : log'[i] = log[i]
  BY <1>1 DEF IInv, TypeOK
<1> HIDE DEF n
<1>3. /\ \A u \in Task \ {t} : pc'[u] = pc[u]
      /\ pc'[t] # "loaded"
      /\ \A u \in Task : began[u].events \in Nat
      /\ \A k \in DOMAIN log : log[k].began.events \in Nat
      /\ n = Len(log) + 1
  BY <1>1, EntryType DEF IInv, TypeOK, n, Marks
<1>4. MarksAreOld'
  BY <1>1, <1>2, <1>3 DEF IInv, MarksAreOld
<1>5. LoadedBelowMemory'
  BY <1>1, <1>3 DEF IInv, LoadedBelowMemory
<1>6. StreamBelowMemory'
  BY <1>1, <1>2 DEF IInv, StreamBelowMemory, Sample
<1>7. LaterLoadsAbove'
  BY <1>1, <1>2, <1>3 DEF IInv, LaterLoadsAbove, Sample
<1>8. SamplesNeverShrink'
  BY <1>2 DEF IInv, SamplesNeverShrink
<1> QED
  BY <1>4, <1>5, <1>6, <1>7, <1>8 DEF IInv

\* What is loaded is all that the reports so far bound from below.
LEMMA LoadStep ==
  ASSUME IInv, TypeOK', NEW t \in Task, InnerLoad(t)
  PROVE  IInv'
<1>1. /\ pc' = [pc EXCEPT ![t] = "loaded"]
      /\ count'[t] = memory[on[t]] /\ memory[on[t]] \in Nat
      /\ \A u \in Task \ {t} : pc'[u] = pc[u] /\ count'[u] = count[u]
      /\ UNCHANGED <<memory, on, began, log, clears>>
  BY DEF IInv, TypeOK, InnerLoad, Go, taskVars, historyVars
<1>2. MarksAreOld' /\ SamplesNeverShrink'
  BY <1>1 DEF IInv, MarksAreOld, SamplesNeverShrink
<1>3. LoadedBelowMemory'
  BY <1>1 DEF IInv, LoadedBelowMemory
<1>4. StreamBelowMemory'
  BY <1>1 DEF IInv, StreamBelowMemory, Sample
<1>5. LaterLoadsAbove'
  BY <1>1 DEF IInv, LaterLoadsAbove, StreamBelowMemory, Sample
<1> QED
  BY <1>2, <1>3, <1>4, <1>5 DEF IInv

\* A clear begins a new count for the loads and reports of its conversation.
LEMMA ClearStep ==
  ASSUME IInv, TypeOK', NEW t \in Task, InnerClear(t)
  PROVE  IInv'
<1> DEFINE c == on[t]
<1>1. /\ pc'[t] # "loaded" /\ \A u \in Task \ {t} : pc'[u] = pc[u]
      /\ c \in Conversation /\ clears[c] \in Nat /\ clears'[c] = clears[c] + 1
      /\ \A d \in Conversation \ {c} : clears'[d] = clears[d] /\ memory'[d] = memory[d]
      /\ UNCHANGED <<on, began, count, log>>
  BY DEF IInv, TypeOK, InnerClear, Go, taskVars
<1> HIDE DEF c
<1>2. /\ \A u \in Task : on[u] \in Conversation /\ began[u].clears \in Nat
      /\ \A i \in DOMAIN log : /\ log[i].conversation \in Conversation
                              /\ log[i].began.clears \in Nat
  BY EntryType DEF IInv, TypeOK, Marks
<1>3. MarksAreOld'
  BY <1>1, <1>2 DEF IInv, MarksAreOld
<1>4. LoadedBelowMemory'
  BY <1>1, <1>2 DEF IInv, LoadedBelowMemory, MarksAreOld
<1>5. StreamBelowMemory'
  BY <1>1, <1>2 DEF IInv, StreamBelowMemory, MarksAreOld, Sample
<1>6. LaterLoadsAbove'
  BY <1>1, <1>2 DEF IInv, LaterLoadsAbove, MarksAreOld, Sample
<1>7. SamplesNeverShrink'
  BY <1>1 DEF IInv, SamplesNeverShrink
<1> QED
  BY <1>3, <1>4, <1>5, <1>6, <1>7 DEF IInv

LEMMA InvStep == IInv /\ [Next]_vars => IInv'
<1> SUFFICES ASSUME IInv, [Next]_vars PROVE IInv'
  OBVIOUS
<1>0. TypeOK'
  BY TypeStep DEF IInv
<1>1. ASSUME NEW t \in Task, BeginLoad(t) PROVE IInv'
  <2> PICK c \in Conversation : Begin(t, c, "load") /\ UNCHANGED <<count, log>>
    BY <1>1 DEF BeginLoad
  <2> QED
    BY <1>0, BeginStep DEF Pending
<1>2. ASSUME NEW t \in Task, InnerLoad(t) PROVE IInv'
  BY <1>0, <1>2, LoadStep
<1>3. ASSUME NEW t \in Task, LoadReturns(t) PROVE IInv'
  BY <1>0, <1>3, SampleStep
<1>4. ASSUME NEW t \in Task, BeginAppend(t) PROVE IInv'
  <2> PICK c \in Conversation, n \in 0..MaxBatch :
        Begin(t, c, "append") /\ count' = [count EXCEPT ![t] = n] /\ UNCHANGED log
    BY <1>4 DEF BeginAppend
  <2>1. \A u \in Task \ {t} : count'[u] = count[u]
    BY DEF IInv, TypeOK
  <2> QED
    BY <1>0, <2>1, BeginStep DEF Pending
<1>5. ASSUME NEW t \in Task, InnerAppend(t) PROVE IInv'
  <2>1. /\ pc'[t] # "loaded" /\ \A u \in Task \ {t} : pc'[u] = pc[u]
        /\ \A c \in Conversation : memory[c] <= memory'[c]
        /\ UNCHANGED <<on, began, count, log, clears>>
    BY <1>5 DEF IInv, TypeOK, InnerAppend, Go, taskVars, historyVars
  <2> QED
    BY <1>0, <2>1, QuietStep
<1>6. ASSUME NEW t \in Task, AppendReturns(t) PROVE IInv'
  BY <1>0, <1>6, PersistStep
<1>7. ASSUME NEW t \in Task, BeginClear(t) PROVE IInv'
  <2> PICK c \in Conversation : Begin(t, c, "clear") /\ UNCHANGED <<count, log>>
    BY <1>7 DEF BeginClear
  <2> QED
    BY <1>0, BeginStep DEF Pending
<1>8. ASSUME NEW t \in Task, InnerClear(t) PROVE IInv'
  BY <1>0, <1>8, ClearStep
<1>9. ASSUME NEW t \in Task, ClearReturns(t) PROVE IInv'
  <2>1. /\ pc'[t] # "loaded" /\ \A u \in Task \ {t} : pc'[u] = pc[u]
        /\ \A c \in Conversation : memory[c] <= memory'[c]
        /\ UNCHANGED <<on, began, count, log, clears>>
    BY <1>9 DEF IInv, TypeOK, ClearReturns, Go, taskVars, historyVars
  <2> QED
    BY <1>0, <2>1, QuietStep
<1>10. ASSUME NEW t \in Task, Breaks(t) PROVE IInv'
  <2>1. /\ pc'[t] # "loaded" /\ \A u \in Task \ {t} : pc'[u] = pc[u]
        /\ \A c \in Conversation : memory[c] <= memory'[c]
        /\ UNCHANGED <<on, began, count, log, clears>>
    BY <1>10 DEF IInv, TypeOK, Breaks, Go, taskVars
  <2> QED
    BY <1>0, <2>1, QuietStep
<1>11. CASE UNCHANGED vars
  BY <1>0, <1>11 DEF vars, IInv, MarksAreOld, LoadedBelowMemory, StreamBelowMemory,
     LaterLoadsAbove, SamplesNeverShrink, Sample
<1> QED
  BY <1>1, <1>2, <1>3, <1>4, <1>5, <1>6, <1>7, <1>8, <1>9, <1>10, <1>11 DEF Next

\* "the active-context-size curve" (observed_memory.rs, module doc), for any number of
\* tasks and calls: of two samples of a conversation, the second loaded after the first
\* was reported, the second is not smaller unless the conversation was cleared.
THEOREM SamplesGrow == Spec => []SamplesNeverShrink
<1>1. Spec => []IInv
  BY InvInit, InvStep, PTL DEF Spec
<1>2. IInv => SamplesNeverShrink
  BY DEF IInv
<1> QED
  BY <1>1, <1>2, PTL

-----------------------------------------------------------------------------
(* Sums: what SumFunctionOnSet is of a set, however its elements are taken up *)

\* Of some subsets of a finite set one has no other below it.
LEMMA Minimal ==
  ASSUME NEW S, IsFiniteSet(S), NEW F, F \subseteq SUBSET S, F # {}
  PROVE  \E R \in F : \A Q \in F : Q \subseteq R => Q = R
<1> DEFINE D == FiniteSubsetsOf(S)
           O == StrictSubsetOrdering(S)
<1>1. IsWellFoundedOn(O, D)
  BY FS_StrictSubsetOrderingWellFounded
<1>2. F \subseteq D
  BY FS_Subset DEF FiniteSubsetsOf
<1>3. \A Q, R \in F : Q \subseteq R /\ Q # R => <<Q, R>> \in O
  BY DEF StrictSubsetOrdering
<1> HIDE DEF D, O
<1>4. PICK R \in F : \A Q \in F : ~(<<Q, R>> \in O)
  BY <1>1, <1>2, WFMin
<1> QED
  BY <1>3, <1>4

\* The order in which a sum takes up the elements of a set.
Taken(S) == CHOOSE x \in S : TRUE

\* g sums up f over the subsets of S.
IsSum(g, f, S) ==
  g = [s \in SUBSET S |-> IF s = {} THEN 0 ELSE f[Taken(s)] + g[s \ {Taken(s)}]]

LEMMA SumDef ==
  ASSUME NEW f, NEW S
  PROVE  SumFunctionOnSet(f, S) = (CHOOSE g : IsSum(g, f, S))[S]
  BY DEF SumFunctionOnSet, FoldFunctionOnSet, MapThenFoldSet, IsSum, Taken

LEMMA SumUnique ==
  ASSUME NEW f, NEW S, IsFiniteSet(S), NEW R \in SUBSET S,
         NEW g, NEW h, IsSum(g, f, S), IsSum(h, f, R)
  PROVE  g[R] = h[R]
<1> DEFINE F == {s \in SUBSET R : g[s] # h[s]}
<1>1. SUFFICES ASSUME F # {} PROVE FALSE
  OBVIOUS
<1>2. IsFiniteSet(R) /\ F \subseteq SUBSET R
  BY FS_Subset
<1>3. PICK s \in F : \A q \in F : q \subseteq s => q = s
  <2> HIDE DEF F
  <2> QED
    BY <1>1, <1>2, Minimal
<1>4. s \in SUBSET R /\ s \in SUBSET S
  OBVIOUS
<1>5. s = {} => g[s] = 0 /\ h[s] = 0
  BY <1>4 DEF IsSum
<1>6. ASSUME s # {} PROVE g[s] = h[s]
  <2> DEFINE q == s \ {Taken(s)}
  <2>1. Taken(s) \in s
    BY <1>6 DEF Taken
  <2>2. q \in SUBSET R /\ q \subseteq s /\ q # s
    BY <2>1
  <2>3. g[q] = h[q]
    BY <1>3, <2>2
  <2>4. g[s] = f[Taken(s)] + g[q] /\ h[s] = f[Taken(s)] + h[q]
    BY <1>4, <1>6 DEF IsSum
  <2> QED
    BY <2>3, <2>4
<1> QED
  BY <1>5, <1>6

LEMMA SumExists ==
  ASSUME NEW f, NEW S, IsFiniteSet(S)
  PROVE  \E g : IsSum(g, f, S)
<1> DEFINE Total(s) == SumFunctionOnSet(f, s)
           F == {s \in SUBSET S : ~ \E g : IsSum(g, f, s)}
<1>1. SUFFICES ASSUME F # {} PROVE FALSE
  OBVIOUS
<1>2. PICK R \in F : \A q \in F : q \subseteq R => q = R
  <2>1. F \subseteq SUBSET S
    OBVIOUS
  <2> HIDE DEF F
  <2> QED
    BY <1>1, <2>1, Minimal
<1> DEFINE h == [s \in SUBSET R |-> IF s = {} THEN 0 ELSE f[Taken(s)] + Total(s \ {Taken(s)})]
<1>3. ASSUME NEW q \in SUBSET R, q # R
      PROVE  h[q] = Total(q)
  <2>1. q \in SUBSET S /\ \E g : IsSum(g, f, q)
    <3>1. q \in SUBSET S
      OBVIOUS
    <3>2. q \notin F
      <4> HIDE DEF F, h
      <4> QED
        BY <1>2, <1>3
    <3> QED
      BY <3>1, <3>2
  <2> DEFINE g == CHOOSE g : IsSum(g, f, q)
  <2>2. IsSum(g, f, q) /\ Total(q) = g[q]
    BY <2>1, SumDef
  <2> HIDE DEF g, Total
  <2>3. q = {} => h[q] = 0 /\ g[q] = 0
    BY <2>2 DEF IsSum
  <2>4. ASSUME q # {} PROVE h[q] = g[q]
    <3> DEFINE r == q \ {Taken(q)}
    <3>1. Taken(q) \in q
      BY <2>4 DEF Taken
    <3>2. r \in SUBSET R /\ r # R /\ r \in SUBSET q /\ r \in SUBSET S
      BY <3>1
    <3>3. \E k : IsSum(k, f, r)
      BY <1>2, <3>2
    <3> DEFINE k == CHOOSE k : IsSum(k, f, r)
    <3>4. IsSum(k, f, r) /\ Total(r) = k[r]
      BY <3>3, SumDef DEF Total
    <3> HIDE DEF k
    <3>5. IsFiniteSet(q)
      BY <2>1, FS_Subset
    <3>6. g[r] = Total(r)
      BY <2>2, <3>2, <3>4, <3>5, SumUnique
    <3>7. g[q] = f[Taken(q)] + g[r]
      BY <2>2, <2>4 DEF IsSum
    <3>8. h[q] = f[Taken(q)] + Total(r)
      BY <2>4
    <3> QED
      BY <3>6, <3>7, <3>8
  <2> QED
    BY <2>2, <2>3, <2>4
<1>4. ASSUME NEW s \in SUBSET R, s # {}
      PROVE  Total(s \ {Taken(s)}) = h[s \ {Taken(s)}]
  <2>1. Taken(s) \in s
    BY <1>4 DEF Taken
  <2>2. s \ {Taken(s)} \in SUBSET R /\ s \ {Taken(s)} # R
    BY <2>1
  <2> HIDE DEF h, Total
  <2> QED
    BY <1>3, <2>2
<1>5. h = [s \in SUBSET R |-> IF s = {} THEN 0 ELSE f[Taken(s)] + h[s \ {Taken(s)}]]
  <2> DEFINE e == [s \in SUBSET R |-> IF s = {} THEN 0 ELSE f[Taken(s)] + h[s \ {Taken(s)}]]
  <2>1. ASSUME NEW s \in SUBSET R PROVE h[s] = e[s]
    <3>1. CASE s = {}
      BY <3>1
    <3>2. CASE s # {}
      <4>1. h[s] = f[Taken(s)] + Total(s \ {Taken(s)})
        BY <3>2
      <4>2. e[s] = f[Taken(s)] + h[s \ {Taken(s)}]
        BY <3>2
      <4> HIDE DEF h, e, Total
      <4> QED
        BY <1>4, <3>2, <4>1, <4>2
    <3> QED
      BY <3>1, <3>2
  <2>2. DOMAIN h = SUBSET R /\ DOMAIN e = SUBSET R
    OBVIOUS
  <2>3. h = [s \in DOMAIN h |-> h[s]] /\ e = [s \in DOMAIN e |-> e[s]]
    OBVIOUS
  <2> HIDE DEF h, e
  <2>4. h = e
    BY <2>1, <2>2, <2>3
  <2> QED
    BY <2>4 DEF e
<1>6. IsSum(h, f, R)
  BY <1>5 DEF IsSum
<1> QED
  BY <1>2, <1>6

\* A sum over no elements, and one more than that over the rest.
LEMMA SumUnfolds ==
  ASSUME NEW f, NEW S, IsFiniteSet(S)
  PROVE  /\ SumFunctionOnSet(f, {}) = 0
         /\ S # {} => SumFunctionOnSet(f, S) =
                        f[Taken(S)] + SumFunctionOnSet(f, S \ {Taken(S)})
<1> DEFINE G(s) == CHOOSE g : IsSum(g, f, s)
<1>1. ASSUME NEW s, IsFiniteSet(s)
      PROVE  IsSum(G(s), f, s) /\ SumFunctionOnSet(f, s) = G(s)[s]
  BY <1>1, SumExists, SumDef
<1> HIDE DEF G
<1>2. SumFunctionOnSet(f, {}) = 0
  BY <1>1, FS_EmptySet DEF IsSum
<1>3. ASSUME S # {}
      PROVE  SumFunctionOnSet(f, S) = f[Taken(S)] + SumFunctionOnSet(f, S \ {Taken(S)})
  <2> DEFINE R == S \ {Taken(S)}
  <2>1. IsFiniteSet(R) /\ R \in SUBSET S
    BY FS_Subset
  <2>2. IsSum(G(S), f, S) /\ IsSum(G(R), f, R)
    BY <1>1, <2>1
  <2>3. G(S)[R] = G(R)[R]
    BY <2>1, <2>2, SumUnique
  <2>4. G(S)[S] = f[Taken(S)] + G(S)[R]
    BY <1>3, <2>2 DEF IsSum
  <2> QED
    BY <1>1, <2>1, <2>3, <2>4
<1> QED
  BY <1>2, <1>3

\* Sums of numbers are numbers, and depend on the numbers alone.
LEMMA SumType ==
  ASSUME NEW f, NEW S, IsFiniteSet(S), \A x \in S : f[x] \in Nat
  PROVE  SumFunctionOnSet(f, S) \in Nat
<1> DEFINE Total(s) == SumFunctionOnSet(f, s)
           F == {s \in SUBSET S : Total(s) \notin Nat}
<1>1. SUFFICES ASSUME F # {} PROVE FALSE
  OBVIOUS
<1>2. PICK R \in F : \A q \in F : q \subseteq R => q = R
  <2>1. F \subseteq SUBSET S
    OBVIOUS
  <2> HIDE DEF F
  <2> QED
    BY <1>1, <2>1, Minimal
<1>3. IsFiniteSet(R) /\ R \in SUBSET S
  BY FS_Subset
<1>4. R # {} /\ Total(R) = f[Taken(R)] + Total(R \ {Taken(R)})
  <2>1. Total({}) = 0 /\ (R # {} => Total(R) = f[Taken(R)] + Total(R \ {Taken(R)}))
    BY <1>3, SumUnfolds
  <2>2. Total(R) \notin Nat /\ 0 \in Nat
    OBVIOUS
  <2> HIDE DEF Total, F
  <2>3. R # {}
    BY <2>1, <2>2
  <2> QED
    BY <2>1, <2>3
<1>5. Taken(R) \in R
  BY <1>4 DEF Taken
<1>6. R \ {Taken(R)} \in SUBSET S /\ R \ {Taken(R)} \notin F
  BY <1>2, <1>3, <1>5
<1> HIDE DEF Total
<1> QED
  BY <1>3, <1>4, <1>5, <1>6

LEMMA SumAgrees ==
  ASSUME NEW f, NEW g, NEW S, IsFiniteSet(S), \A x \in S : f[x] = g[x]
  PROVE  SumFunctionOnSet(f, S) = SumFunctionOnSet(g, S)
<1> DEFINE A(s) == SumFunctionOnSet(f, s)
           B(s) == SumFunctionOnSet(g, s)
           F == {s \in SUBSET S : A(s) # B(s)}
<1>1. SUFFICES ASSUME F # {} PROVE FALSE
  OBVIOUS
<1>2. PICK R \in F : \A q \in F : q \subseteq R => q = R
  <2>1. F \subseteq SUBSET S
    OBVIOUS
  <2> HIDE DEF F
  <2> QED
    BY <1>1, <2>1, Minimal
<1>3. IsFiniteSet(R) /\ R \in SUBSET S
  BY FS_Subset
<1>4. /\ R # {}
      /\ A(R) = f[Taken(R)] + A(R \ {Taken(R)})
      /\ B(R) = g[Taken(R)] + B(R \ {Taken(R)})
  BY <1>3, SumUnfolds
<1>5. Taken(R) \in R
  BY <1>4 DEF Taken
<1>6. R \ {Taken(R)} \in SUBSET S /\ R \ {Taken(R)} \notin F
  BY <1>2, <1>3, <1>5
<1> HIDE DEF A, B
<1> QED
  BY <1>3, <1>4, <1>5, <1>6

\* Whichever element is taken first.
LEMMA SumRemoves ==
  ASSUME NEW f, NEW S, IsFiniteSet(S), \A x \in S : f[x] \in Nat
  PROVE  \A x \in S : SumFunctionOnSet(f, S) = f[x] + SumFunctionOnSet(f, S \ {x})
<1> DEFINE Total(s) == SumFunctionOnSet(f, s)
           Holds(s) == \A x \in s : Total(s) = f[x] + Total(s \ {x})
           F == {s \in SUBSET S : ~Holds(s)}
<1>1. SUFFICES ASSUME F # {} PROVE FALSE
  OBVIOUS
<1>2. PICK R \in F : \A q \in F : q \subseteq R => q = R
  <2>1. F \subseteq SUBSET S
    OBVIOUS
  <2> HIDE DEF F
  <2> QED
    BY <1>1, <2>1, Minimal
<1>3. R \in SUBSET S /\ ~Holds(R)
  OBVIOUS
<1>4. ASSUME NEW q \in SUBSET R, q # R PROVE Holds(q)
  <2>1. q \in SUBSET S
    BY <1>3
  <2>2. q \notin F
    <3> HIDE DEF F, Holds
    <3> QED
      BY <1>2, <1>4
  <2> QED
    BY <2>1, <2>2
<1> DEFINE y == Taken(R)
<1>5. \A q \in SUBSET S : IsFiniteSet(q) /\ Total(q) \in Nat
  BY FS_Subset, SumType
<1>6. PICK x \in R : Total(R) # f[x] + Total(R \ {x})
  BY <1>3
<1>7. y \in R /\ Total(R) = f[y] + Total(R \ {y})
  BY <1>3, <1>5, SumUnfolds DEF Taken
<1> HIDE DEF Total, F, y
<1>8. x # y
  BY <1>6, <1>7
<1>9. Total(R \ {y}) = f[x] + Total((R \ {y}) \ {x})
  BY <1>4, <1>7, <1>8
<1>10. Total(R \ {x}) = f[y] + Total((R \ {x}) \ {y})
  BY <1>4, <1>7, <1>8
<1>11. (R \ {y}) \ {x} = (R \ {x}) \ {y} /\ (R \ {x}) \ {y} \in SUBSET S
  BY <1>3
<1>12. f[x] \in Nat /\ f[y] \in Nat /\ Total((R \ {x}) \ {y}) \in Nat
  BY <1>3, <1>5, <1>7, <1>11
<1> QED
  BY <1>6, <1>7, <1>9, <1>10, <1>11, <1>12

\* A set has no smaller a sum than a part of it.
LEMMA SumGrows ==
  ASSUME NEW f, NEW S, IsFiniteSet(S), \A x \in S : f[x] \in Nat, NEW R \in SUBSET S
  PROVE  SumFunctionOnSet(f, R) <= SumFunctionOnSet(f, S)
<1> DEFINE Total(s) == SumFunctionOnSet(f, s)
           F == {s \in SUBSET S : R \subseteq s /\ ~(Total(R) <= Total(s))}
<1>1. SUFFICES ASSUME F # {} PROVE FALSE
  OBVIOUS
<1>2. PICK s \in F : \A q \in F : q \subseteq s => q = s
  <2>1. F \subseteq SUBSET S
    OBVIOUS
  <2> HIDE DEF F
  <2> QED
    BY <1>1, <2>1, Minimal
<1>3. /\ s \in SUBSET S /\ R \subseteq s /\ ~(Total(R) <= Total(s))
      /\ \A q \in SUBSET S : IsFiniteSet(q) /\ Total(q) \in Nat
  BY FS_Subset, SumType
<1>4. PICK x \in s : x \notin R
  <2>1. Total(R) \in Nat
    BY <1>3
  <2> HIDE DEF Total
  <2> QED
    BY <1>3, <2>1
<1>5. Total(s) = f[x] + Total(s \ {x})
  BY <1>3, SumRemoves
<1> HIDE DEF Total
<1>6. s \ {x} \in SUBSET S /\ R \subseteq s \ {x} /\ s \ {x} # s
  BY <1>3, <1>4
<1>7. s \ {x} \notin F
  <2> HIDE DEF F
  <2> QED
    BY <1>2, <1>6
<1>8. Total(R) <= Total(s \ {x})
  BY <1>6, <1>7
<1>9. f[x] \in Nat /\ Total(s \ {x}) \in Nat /\ Total(R) \in Nat /\ Total(s) \in Nat
  BY <1>3, <1>4, <1>6
<1> QED
  BY <1>3, <1>5, <1>8, <1>9

-----------------------------------------------------------------------------
(* What was persisted, and what is about to be reported *)

Counts == [i \in DOMAIN log |-> log[i].count]

Reporting(c) == {t \in Task : pc[t] = "appended" /\ on[t] = c}

\* Appends that began since the conversation was last cleared.
FreshPlaces(c) == {i \in Persists(c) : log[i].began.clears = clears[c]}
FreshTasks(c)  == {t \in Reporting(c) : began[t].clears = clears[c]}

\* What they appended is in the memory still, ...
FreshIsKept ==
  \A c \in Conversation :
    Persisted(FreshPlaces(c)) + SumFunctionOnSet(count, FreshTasks(c)) <= memory[c]

\* ... and what they had reported when a load began was loaded.
FreshIsLoaded ==
  \A t \in Task : pc[t] = "loaded" =>
    Persisted({i \in FreshPlaces(on[t]) : i <= began[t].events}) <= count[t]

LEMMA PlaceTypes ==
  ASSUME TypeOK, NEW P \in SUBSET DOMAIN log
  PROVE  /\ IsFiniteSet(P) /\ Persisted(P) \in Nat
         /\ \A i \in P : Counts[i] \in Nat
<1>1. IsFiniteSet(DOMAIN log)
  BY FS_Interval DEF TypeOK
<1>2. IsFiniteSet(P)
  BY <1>1, FS_Subset
<1>3. \A i \in P : Counts[i] \in Nat
  BY EntryType DEF Counts
<1> QED
  BY <1>2, <1>3, SumType DEF Persisted, Counts

LEMMA TaskTypes ==
  ASSUME TypeOK, NEW T \in SUBSET Task
  PROVE  /\ IsFiniteSet(T) /\ SumFunctionOnSet(count, T) \in Nat
         /\ \A t \in T : count[t] \in Nat
<1>1. IsFiniteSet(T)
  BY TaskAssumption, FS_Subset
<1>2. \A t \in T : count[t] \in Nat
  BY DEF TypeOK
<1> QED
  BY <1>1, <1>2, SumType

\* An event more leaves the sums over the others alone, and adds its own count.
LEMMA Reports ==
  ASSUME TypeOK, TypeOK', NEW e, log' = Append(log, e), NEW P \in SUBSET DOMAIN log
  PROVE  /\ SumFunctionOnSet(Counts', P) = Persisted(P)
         /\ SumFunctionOnSet(Counts', P \cup {Len(log) + 1}) = Persisted(P) + e.count
<1> DEFINE n == Len(log) + 1
           Q == P \cup {n}
<1>1. /\ DOMAIN log' = DOMAIN log \cup {n} /\ n \notin DOMAIN log
      /\ log'[n] = e /\ \A i \in DOMAIN log : log'[i] = log[i]
  BY DEF TypeOK
<1>2. /\ \A i \in P : Counts'[i] = Counts[i]
      /\ Counts'[n] = e.count
  BY <1>1 DEF Counts
<1>3. SumFunctionOnSet(Counts', P) = SumFunctionOnSet(Counts, P)
  BY <1>2, PlaceTypes, SumAgrees
<1>4. Q \in SUBSET DOMAIN log'
  BY <1>1
<1>5. IsFiniteSet(Q) /\ \A i \in Q : Counts'[i] \in Nat
  <2>1. \A i \in DOMAIN log' : log'[i].count \in Nat
    <3>1. log' \in Seq(Event)
      BY DEF TypeOK
    <3>2. \A i \in DOMAIN log' : log'[i] \in Event
      BY <3>1
    <3> QED
      BY <3>2 DEF Event
  <2>2. IsFiniteSet(Q)
    BY PlaceTypes, FS_AddElement
  <2> QED
    BY <1>4, <2>1, <2>2 DEF Counts
<1>6. n \in Q /\ Q \ {n} = P
  BY <1>1
<1> HIDE DEF Q, n
<1>7. SumFunctionOnSet(Counts', Q) = Counts'[n] + SumFunctionOnSet(Counts', P)
  BY <1>5, <1>6, SumRemoves
<1>8. Counts'[n] \in Nat /\ Persisted(P) \in Nat
  BY <1>5, <1>6, PlaceTypes
<1>9. Persisted(P) = SumFunctionOnSet(Counts, P)
  BY DEF Persisted, Counts
<1>10. SumFunctionOnSet(Counts', Q) = Persisted(P) + e.count
  BY <1>2, <1>3, <1>7, <1>8, <1>9
<1> QED
  BY <1>3, <1>9, <1>10 DEF Q, n

\* A task more, or less, that is about to report.
LEMMA Joins ==
  ASSUME TypeOK, NEW T \in SUBSET Task, NEW t \in Task
  PROVE  /\ t \notin T =>
              SumFunctionOnSet(count, T \cup {t}) = SumFunctionOnSet(count, T) + count[t]
         /\ t \in T =>
              SumFunctionOnSet(count, T) = SumFunctionOnSet(count, T \ {t}) + count[t]
<1> DEFINE Q == T \cup {t}
           R == T \ {t}
<1>1. Q \in SUBSET Task /\ R \in SUBSET Task
  OBVIOUS
<1>2. count[t] \in Nat /\ SumFunctionOnSet(count, T) \in Nat
      /\ SumFunctionOnSet(count, R) \in Nat
  BY <1>1, TaskTypes DEF TypeOK
<1>3. ASSUME t \notin T
      PROVE  SumFunctionOnSet(count, Q) = SumFunctionOnSet(count, T) + count[t]
  <2>1. Q \ {t} = T /\ t \in Q
    BY <1>3
  <2>2. IsFiniteSet(Q) /\ \A u \in Q : count[u] \in Nat
    BY <1>1, TaskTypes
  <2> HIDE DEF Q
  <2>3. SumFunctionOnSet(count, Q) = count[t] + SumFunctionOnSet(count, T)
    BY <2>1, <2>2, SumRemoves
  <2> QED
    BY <1>2, <2>3
<1>4. ASSUME t \in T
      PROVE  SumFunctionOnSet(count, T) = SumFunctionOnSet(count, R) + count[t]
  <2>1. SumFunctionOnSet(count, T) = count[t] + SumFunctionOnSet(count, R)
    BY <1>4, TaskTypes, SumRemoves
  <2> QED
    BY <1>2, <2>1
<1> QED
  BY <1>3, <1>4

\* Counts of other tasks do not matter.
LEMMA Others ==
  ASSUME TypeOK, NEW T \in SUBSET Task, \A u \in T : count'[u] = count[u]
  PROVE  SumFunctionOnSet(count', T) = SumFunctionOnSet(count, T)
  BY TaskTypes, SumAgrees

\* What the messages of a conversation are accounted for by.
SumInv == MessagesAccountedFor /\ FreshIsKept /\ FreshIsLoaded /\ SamplesCoverReports

LEMMA InitSums == Init => SumInv
<1> SUFFICES ASSUME Init PROVE SumInv
  OBVIOUS
<1>1. /\ DOMAIN log = {} /\ \A t \in Task : pc[t] = "idle"
      /\ \A c \in Conversation : memory[c] = 0 /\ removed[c] = 0 /\ silent[c] = 0
  BY DEF Init
<1>2. \A f : SumFunctionOnSet(f, {}) = 0
  BY SumUnfolds, FS_EmptySet
<1>3. \A c \in Conversation : /\ Persists(c) = {} /\ FreshPlaces(c) = {}
                              /\ Reporting(c) = {} /\ FreshTasks(c) = {}
  BY <1>1 DEF Persists, FreshPlaces, Reporting, FreshTasks
<1>4. Persisted({}) = 0 /\ SumFunctionOnSet(count, {}) = 0
  BY <1>2 DEF Persisted
<1> HIDE DEF Init
<1>5. ASSUME NEW c \in Conversation
      PROVE  /\ memory[c] + removed[c] =
                  Persisted(Persists(c)) + SumFunctionOnSet(count, Reporting(c)) + silent[c]
             /\ Persisted(FreshPlaces(c)) + SumFunctionOnSet(count, FreshTasks(c)) <= memory[c]
  <2>1. /\ Persisted(Persists(c)) = 0 /\ SumFunctionOnSet(count, Reporting(c)) = 0
        /\ Persisted(FreshPlaces(c)) = 0 /\ SumFunctionOnSet(count, FreshTasks(c)) = 0
    BY <1>3, <1>4
  <2> QED
    BY <1>1, <2>1
<1>6. MessagesAccountedFor /\ FreshIsKept
  BY <1>5 DEF MessagesAccountedFor, FreshIsKept, Reporting
<1>7. FreshIsLoaded /\ SamplesCoverReports
  BY <1>1 DEF FreshIsLoaded, SamplesCoverReports
<1> QED
  BY <1>6, <1>7 DEF SumInv

\* The places that the invariants speak of are places.
LEMMA Places ==
  ASSUME TypeOK
  PROVE  \A c \in Conversation : /\ Persists(c) \in SUBSET DOMAIN log
                                 /\ FreshPlaces(c) \in SUBSET Persists(c)
                                 /\ FreshPlaces(c) \in SUBSET DOMAIN log
                                 /\ Reporting(c) \in SUBSET Task
                                 /\ FreshTasks(c) \in SUBSET Reporting(c)
                                 /\ FreshTasks(c) \in SUBSET Task
  BY DEF Persists, FreshPlaces, Reporting, FreshTasks

\* No event, no clear and nobody about to report: what is left is how the memory grows.
LEMMA NoReport ==
  ASSUME TypeOK, SumInv, UNCHANGED <<log, clears>>,
         \A c \in Conversation : Reporting(c)' = Reporting(c) /\ FreshTasks(c)' = FreshTasks(c),
         \A c \in Conversation : \A t \in Reporting(c) : count'[t] = count[t],
         UNCHANGED <<memory, removed, silent>>
  PROVE  MessagesAccountedFor' /\ FreshIsKept' /\ SamplesCoverReports'
<1>1. \A c \in Conversation : /\ Persists(c)' = Persists(c)
                              /\ FreshPlaces(c)' = FreshPlaces(c)
  BY DEF Persists, FreshPlaces
<1>2. \A P : Persisted(P)' = Persisted(P)
  BY DEF Persisted
<1>3. \A c \in Conversation :
        /\ SumFunctionOnSet(count', Reporting(c)) = SumFunctionOnSet(count, Reporting(c))
        /\ SumFunctionOnSet(count', FreshTasks(c)) = SumFunctionOnSet(count, FreshTasks(c))
  BY Places, Others
<1>4. MessagesAccountedFor'
  BY <1>1, <1>2, <1>3 DEF SumInv, MessagesAccountedFor, Reporting
<1>5. FreshIsKept'
  BY <1>1, <1>2, <1>3 DEF SumInv, FreshIsKept
<1>6. SamplesCoverReports'
  BY <1>1, <1>2 DEF SumInv, SamplesCoverReports, Persists
<1> QED
  BY <1>4, <1>5, <1>6

LEMMA BeginSums ==
  ASSUME IInv, SumInv, NEW t \in Task, NEW c \in Conversation, NEW to \in Pending,
         Begin(t, c, to), UNCHANGED log,
         \A u \in Task \ {t} : count'[u] = count[u]
  PROVE  SumInv'
<1>1. /\ pc[t] = "idle" /\ pc'[t] \in Pending
      /\ \A u \in Task \ {t} : /\ pc'[u] = pc[u] /\ on'[u] = on[u]
                               /\ began'[u] = began[u] /\ count'[u] = count[u]
      /\ UNCHANGED <<memory, clears, log, removed, silent>>
  BY DEF IInv, TypeOK, Begin, Go, Pending, historyVars
<1>2. \A d \in Conversation : /\ Reporting(d)' = Reporting(d) /\ t \notin Reporting(d)
                              /\ FreshTasks(d)' = FreshTasks(d)
  BY <1>1 DEF Reporting, FreshTasks, Pending
<1>3. \A d \in Conversation : \A u \in Reporting(d) : count'[u] = count[u]
  BY <1>1, <1>2 DEF Reporting
<1>4. MessagesAccountedFor' /\ FreshIsKept' /\ SamplesCoverReports'
  BY <1>1, <1>2, <1>3, NoReport DEF IInv
<1>5. FreshIsLoaded'
  BY <1>1 DEF SumInv, FreshIsLoaded, FreshPlaces, Persists, Persisted, Pending
<1> QED
  BY <1>4, <1>5 DEF SumInv

LEMMA LoadSums ==
  ASSUME IInv, SumInv, NEW t \in Task, InnerLoad(t)
  PROVE  SumInv'
<1>1. /\ pc[t] = "load" /\ pc'[t] = "loaded" /\ count'[t] = memory[on[t]]
      /\ \A u \in Task \ {t} : pc'[u] = pc[u] /\ count'[u] = count[u]
      /\ UNCHANGED <<memory, clears, log, removed, silent, on, began>>
  BY DEF IInv, TypeOK, InnerLoad, Go, taskVars, historyVars
<1>2. \A d \in Conversation : /\ Reporting(d)' = Reporting(d) /\ t \notin Reporting(d)
                              /\ FreshTasks(d)' = FreshTasks(d)
  BY <1>1 DEF Reporting, FreshTasks
<1>3. \A d \in Conversation : \A u \in Reporting(d) : count'[u] = count[u]
  BY <1>1, <1>2 DEF Reporting
<1>4. MessagesAccountedFor' /\ FreshIsKept' /\ SamplesCoverReports'
  BY <1>1, <1>2, <1>3, NoReport DEF IInv
<1>5. Persisted({i \in FreshPlaces(on[t]) : i <= began[t].events}) <= memory[on[t]]
  <2> DEFINE c == on[t]
             S == FreshPlaces(c)
             R == {i \in S : i <= began[t].events}
  <2>1. c \in Conversation /\ memory[c] \in Nat
    BY DEF IInv, TypeOK
  <2>2. S \in SUBSET DOMAIN log /\ R \in SUBSET S /\ R \in SUBSET DOMAIN log
    BY <2>1, Places DEF IInv
  <2>3. FreshTasks(c) \in SUBSET Task
    BY <2>1, Places DEF IInv
  <2> HIDE DEF c, S, R
  <2>4. Persisted(R) \in Nat /\ Persisted(S) \in Nat
        /\ SumFunctionOnSet(count, FreshTasks(c)) \in Nat
    BY <2>2, <2>3, PlaceTypes, TaskTypes DEF IInv
  <2>5. Persisted(R) <= Persisted(S)
    BY <2>2, PlaceTypes, SumGrows DEF IInv, Persisted, Counts
  <2>6. Persisted(S) + SumFunctionOnSet(count, FreshTasks(c)) <= memory[c]
    BY <2>1 DEF SumInv, FreshIsKept, S
  <2>7. Persisted(R) <= memory[c]
    BY <2>1, <2>4, <2>5, <2>6
  <2> QED
    BY <2>7 DEF R, S, c
<1>6. FreshIsLoaded'
  <2>1. \A u \in Task :
          Persisted({i \in FreshPlaces(on[u]) : i <= began[u].events})'
            = Persisted({i \in FreshPlaces(on[u]) : i <= began[u].events})
    BY <1>1 DEF FreshPlaces, Persists, Persisted
  <2>2. \A u \in Task \ {t} : pc[u] = "loaded" =>
          Persisted({i \in FreshPlaces(on[u]) : i <= began[u].events}) <= count[u]
    BY DEF SumInv, FreshIsLoaded
  <2> QED
    BY <1>1, <1>5, <2>1, <2>2 DEF FreshIsLoaded
<1> QED
  BY <1>4, <1>6 DEF SumInv

\* An event that is appended leaves what the others say as it was.
LEMMA ReportStays ==
  ASSUME IInv, TypeOK', SumInv, UNCHANGED clears,
         NEW e \in Event, log' = Append(log, e), e.began.events <= Len(log),
         e.kind = "sampled" =>
           Persisted({j \in Persists(e.conversation) :
                        j <= e.began.events /\ log[j].began.clears = e.ended}) <= e.count
  PROVE  /\ SamplesCoverReports'
         /\ \A c \in Conversation :
              IF e.kind = "persisted" /\ e.conversation = c
                THEN /\ Persists(c)' = Persists(c) \cup {Len(log) + 1}
                     /\ Persisted(Persists(c))' = Persisted(Persists(c)) + e.count
                ELSE /\ Persists(c)' = Persists(c)
                     /\ Persisted(Persists(c))' = Persisted(Persists(c))
         /\ \A c \in Conversation :
              IF e.kind = "persisted" /\ e.conversation = c /\ e.began.clears = clears[c]
                THEN Persisted(FreshPlaces(c))' = Persisted(FreshPlaces(c)) + e.count
                ELSE Persisted(FreshPlaces(c))' = Persisted(FreshPlaces(c))
         /\ \A c \in Conversation : \A n \in 0..Len(log) :
              Persisted({i \in FreshPlaces(c) : i <= n})'
                = Persisted({i \in FreshPlaces(c) : i <= n})
<1> DEFINE n == Len(log) + 1
<1>1. /\ DOMAIN log' = DOMAIN log \cup {n} /\ n \notin DOMAIN log
      /\ log'[n] = e /\ \A i \in DOMAIN log : log'[i] = log[i]
      /\ DOMAIN log = 1..Len(log) /\ Len(log) \in Nat
  BY DEF IInv, TypeOK
<1>2. \A P \in SUBSET DOMAIN log :
        /\ Persisted(P)' = Persisted(P)
        /\ SumFunctionOnSet(Counts', P) = Persisted(P)
        /\ SumFunctionOnSet(Counts', P \cup {n}) = Persisted(P) + e.count
  BY Reports DEF IInv, Persisted, Counts
<1>3. \A S : Persisted(S)' = SumFunctionOnSet(Counts', S)
  BY DEF Persisted, Counts
<1> HIDE DEF n
<1>4. \A c \in Conversation :
        /\ Persists(c) \in SUBSET DOMAIN log /\ FreshPlaces(c) \in SUBSET DOMAIN log
        /\ Persists(c)' = IF e.kind = "persisted" /\ e.conversation = c
                            THEN Persists(c) \cup {n} ELSE Persists(c)
        /\ FreshPlaces(c)' = IF e.kind = "persisted" /\ e.conversation = c
                                  /\ e.began.clears = clears[c]
                               THEN FreshPlaces(c) \cup {n} ELSE FreshPlaces(c)
  BY <1>1 DEF Persists, FreshPlaces
<1>5. ASSUME NEW c \in Conversation
      PROVE  /\ IF e.kind = "persisted" /\ e.conversation = c
                  THEN Persisted(Persists(c))' = Persisted(Persists(c)) + e.count
                  ELSE Persisted(Persists(c))' = Persisted(Persists(c))
             /\ IF e.kind = "persisted" /\ e.conversation = c /\ e.began.clears = clears[c]
                  THEN Persisted(FreshPlaces(c))' = Persisted(FreshPlaces(c)) + e.count
                  ELSE Persisted(FreshPlaces(c))' = Persisted(FreshPlaces(c))
  <2>1. /\ Persisted(Persists(c))' = SumFunctionOnSet(Counts', Persists(c)')
        /\ Persisted(FreshPlaces(c))' = SumFunctionOnSet(Counts', FreshPlaces(c)')
    BY DEF Persisted, Counts
  <2> QED
    BY <1>2, <1>4, <2>1
<1>6. ASSUME NEW c \in Conversation, NEW m \in 0..Len(log)
      PROVE  Persisted({i \in FreshPlaces(c) : i <= m})'
               = Persisted({i \in FreshPlaces(c) : i <= m})
  <2> DEFINE P == {i \in FreshPlaces(c) : i <= m}
  <2>1. P \in SUBSET DOMAIN log /\ P' = P
    BY <1>1, <1>4 DEF n
  <2>2. Persisted(P)' = SumFunctionOnSet(Counts', P')
    BY DEF Persisted, Counts
  <2> HIDE DEF P
  <2> QED
    BY <1>2, <2>1, <2>2 DEF P
<1>7. SamplesCoverReports'
  <2> SUFFICES ASSUME NEW i \in DOMAIN log', log'[i].kind = "sampled"
               PROVE  Persisted({j \in Persists(log[i].conversation) :
                                   /\ j <= log[i].began.events
                                   /\ log[j].began.clears = log[i].ended})' <= log'[i].count
    BY DEF SamplesCoverReports
  <2> DEFINE r == log'[i]
             P == {j \in Persists(r.conversation) :
                     j <= r.began.events /\ log[j].began.clears = r.ended}
  <2>1. /\ r.conversation \in Conversation
        /\ r.began.events \in Nat /\ r.began.events <= Len(log)
    <3>1. CASE i = n
      BY <1>1, <3>1 DEF Event, Marks
    <3>2. CASE i \in DOMAIN log
      BY <1>1, <3>2, EntryType DEF IInv, MarksAreOld
    <3> QED
      BY <1>1, <3>1, <3>2
  <2>2. P \in SUBSET DOMAIN log
    BY <1>4, <2>1
  <2>3. {j \in Persists(log[i].conversation) :
           /\ j <= log[i].began.events
           /\ log[j].began.clears = log[i].ended}' = P
    BY <1>1, <1>4, <2>1 DEF n
  <2>4. Persisted({j \in Persists(log[i].conversation) :
                     /\ j <= log[i].began.events
                     /\ log[j].began.clears = log[i].ended})' = SumFunctionOnSet(Counts', P)
    BY <2>3 DEF Persisted, Counts
  <2>5. Persisted(P) <= r.count
    <3>1. CASE i = n
      BY <1>1, <3>1
    <3>2. CASE i \in DOMAIN log
      BY <1>1, <3>2 DEF SumInv, SamplesCoverReports
    <3> QED
      BY <1>1, <3>1, <3>2
  <2> HIDE DEF P
  <2> QED
    BY <1>2, <2>2, <2>4, <2>5
<1> QED
  BY <1>4, <1>5, <1>6, <1>7 DEF n

LEMMA SampleSums ==
  ASSUME IInv, TypeOK', SumInv, NEW t \in Task, LoadReturns(t)
  PROVE  SumInv'
<1> DEFINE e == [kind |-> "sampled", conversation |-> on[t], count |-> count[t],
                 began |-> began[t], ended |-> clears[on[t]]]
<1>1. /\ pc[t] = "loaded" /\ pc'[t] = "idle" /\ log' = Append(log, e)
      /\ \A u \in Task \ {t} : pc'[u] = pc[u]
      /\ UNCHANGED <<memory, on, began, count, clears, removed, silent>>
  BY DEF IInv, TypeOK, LoadReturns, Go, Emit, taskVars, historyVars
<1>2. e \in Event /\ e.began.events <= Len(log) /\ on[t] \in Conversation
  BY DEF IInv, TypeOK, MarksAreOld, Event
<1>3. Persisted({j \in Persists(e.conversation) :
                   j <= e.began.events /\ log[j].began.clears = e.ended}) <= e.count
  <2>1. {j \in Persists(on[t]) : j <= began[t].events /\ log[j].began.clears = clears[on[t]]}
          = {j \in FreshPlaces(on[t]) : j <= began[t].events}
    BY DEF FreshPlaces
  <2> QED
    BY <1>1, <2>1 DEF SumInv, FreshIsLoaded
<1> HIDE DEF e
<1>4. e.kind = "sampled"
  BY DEF e
<1>5. /\ SamplesCoverReports'
      /\ \A c \in Conversation : /\ Persisted(Persists(c))' = Persisted(Persists(c))
                                 /\ Persisted(FreshPlaces(c))' = Persisted(FreshPlaces(c))
      /\ \A c \in Conversation : \A n \in 0..Len(log) :
           Persisted({i \in FreshPlaces(c) : i <= n})'
             = Persisted({i \in FreshPlaces(c) : i <= n})
  BY <1>1, <1>2, <1>3, <1>4, ReportStays
<1>6. \A c \in Conversation : Reporting(c)' = Reporting(c) /\ FreshTasks(c)' = FreshTasks(c)
  BY <1>1 DEF Reporting, FreshTasks
<1>7. MessagesAccountedFor'
  <2>1. \A c \in Conversation :
          (memory[c] + removed[c] = Persisted(Persists(c))
             + SumFunctionOnSet(count, Reporting(c)) + silent[c])'
    BY <1>1, <1>5, <1>6 DEF SumInv, MessagesAccountedFor, Reporting
  <2> QED
    BY <2>1 DEF MessagesAccountedFor, Reporting
<1>8. FreshIsKept'
  BY <1>1, <1>5, <1>6 DEF SumInv, FreshIsKept
<1>9. FreshIsLoaded'
  <2> SUFFICES ASSUME NEW u \in Task, pc'[u] = "loaded"
               PROVE  Persisted({i \in FreshPlaces(on[u]) : i <= began[u].events})' <= count[u]
    BY <1>1 DEF FreshIsLoaded
  <2>1. on[u] \in Conversation /\ began[u].events \in 0..Len(log) /\ pc[u] = "loaded"
    BY <1>1 DEF IInv, TypeOK, MarksAreOld, Marks
  <2>2. Persisted({i \in FreshPlaces(on[u]) : i <= began[u].events})'
          = Persisted({i \in FreshPlaces(on[u]) : i <= began[u].events})
    BY <1>1, <1>5, <2>1
  <2> QED
    BY <2>1, <2>2 DEF SumInv, FreshIsLoaded
<1> QED
  BY <1>5, <1>7, <1>8, <1>9 DEF SumInv

\* What the append of t adds to the memory it is about to report.
LEMMA AppendSums ==
  ASSUME IInv, TypeOK', SumInv, NEW t \in Task, InnerAppend(t)
  PROVE  SumInv'
<1> DEFINE v == on[t]
<1>1. /\ pc[t] = "append" /\ pc'[t] = "appended"
      /\ \A u \in Task \ {t} : pc'[u] = pc[u]
      /\ v \in Conversation /\ memory'[v] = memory[v] + count[t]
      /\ \A c \in Conversation \ {v} : memory'[c] = memory[c]
      /\ count[t] \in Nat
      /\ \A c \in Conversation : memory[c] \in Nat /\ removed[c] \in Nat /\ silent[c] \in Nat
      /\ UNCHANGED <<log, on, began, count, clears, removed, silent>>
  BY DEF IInv, TypeOK, InnerAppend, Go, taskVars, historyVars
<1> HIDE DEF v
<1>2. \A c \in Conversation : /\ Persists(c)' = Persists(c)
                              /\ FreshPlaces(c)' = FreshPlaces(c)
  BY <1>1 DEF Persists, FreshPlaces
<1>3. \A P : Persisted(P)' = Persisted(P)
  BY <1>1 DEF Persisted
<1>4. \A c \in Conversation :
        /\ Reporting(c)' = IF c = v THEN Reporting(c) \cup {t} ELSE Reporting(c)
        /\ FreshTasks(c)' = IF c = v /\ began[t].clears = clears[v]
                              THEN FreshTasks(c) \cup {t} ELSE FreshTasks(c)
        /\ t \notin Reporting(c) /\ t \notin FreshTasks(c)
        /\ Reporting(c) \in SUBSET Task /\ FreshTasks(c) \in SUBSET Task
  BY <1>1 DEF Reporting, FreshTasks, v
<1>5. \A c \in Conversation :
        /\ SumFunctionOnSet(count, Reporting(c)') =
             SumFunctionOnSet(count, Reporting(c)) + (IF c = v THEN count[t] ELSE 0)
        /\ SumFunctionOnSet(count, FreshTasks(c)') =
             SumFunctionOnSet(count, FreshTasks(c))
               + (IF c = v /\ began[t].clears = clears[v] THEN count[t] ELSE 0)
        /\ SumFunctionOnSet(count, FreshTasks(c)) \in Nat
        /\ SumFunctionOnSet(count, Reporting(c)) \in Nat
        /\ Persisted(Persists(c)) \in Nat /\ Persisted(FreshPlaces(c)) \in Nat
  <2> SUFFICES ASSUME NEW c \in Conversation
               PROVE  /\ SumFunctionOnSet(count, Reporting(c)') =
                           SumFunctionOnSet(count, Reporting(c))
                             + (IF c = v THEN count[t] ELSE 0)
                      /\ SumFunctionOnSet(count, FreshTasks(c)') =
                           SumFunctionOnSet(count, FreshTasks(c))
                             + (IF c = v /\ began[t].clears = clears[v] THEN count[t] ELSE 0)
                      /\ SumFunctionOnSet(count, FreshTasks(c)) \in Nat
                      /\ SumFunctionOnSet(count, Reporting(c)) \in Nat
                      /\ Persisted(Persists(c)) \in Nat /\ Persisted(FreshPlaces(c)) \in Nat
    OBVIOUS
  <2>1. /\ SumFunctionOnSet(count, FreshTasks(c)) \in Nat
        /\ SumFunctionOnSet(count, Reporting(c)) \in Nat
        /\ Persisted(Persists(c)) \in Nat /\ Persisted(FreshPlaces(c)) \in Nat
    BY <1>4, TaskTypes, PlaceTypes, Places DEF IInv
  <2>2. /\ SumFunctionOnSet(count, Reporting(c) \cup {t}) =
             SumFunctionOnSet(count, Reporting(c)) + count[t]
        /\ SumFunctionOnSet(count, FreshTasks(c) \cup {t}) =
             SumFunctionOnSet(count, FreshTasks(c)) + count[t]
    BY <1>4, Joins DEF IInv
  <2>3. SumFunctionOnSet(count, Reporting(c)') =
          SumFunctionOnSet(count, Reporting(c)) + (IF c = v THEN count[t] ELSE 0)
    <3>1. CASE c = v
      BY <1>4, <2>2, <3>1
    <3>2. CASE c # v
      BY <1>4, <2>1, <3>2
    <3> QED
      BY <3>1, <3>2
  <2>4. SumFunctionOnSet(count, FreshTasks(c)') =
          SumFunctionOnSet(count, FreshTasks(c))
            + (IF c = v /\ began[t].clears = clears[v] THEN count[t] ELSE 0)
    <3>1. CASE c = v /\ began[t].clears = clears[v]
      BY <1>4, <2>2, <3>1
    <3>2. CASE ~(c = v /\ began[t].clears = clears[v])
      BY <1>4, <2>1, <3>2
    <3> QED
      BY <3>1, <3>2
  <2> QED
    BY <2>1, <2>3, <2>4
<1>6. ASSUME NEW c \in Conversation
      PROVE  /\ (memory[c] + removed[c] = Persisted(Persists(c))
                  + SumFunctionOnSet(count, Reporting(c)) + silent[c])'
             /\ (Persisted(FreshPlaces(c)) + SumFunctionOnSet(count, FreshTasks(c))
                  <= memory[c])'
  <2>1. /\ memory[c] + removed[c] = Persisted(Persists(c))
             + SumFunctionOnSet(count, Reporting(c)) + silent[c]
        /\ Persisted(FreshPlaces(c)) + SumFunctionOnSet(count, FreshTasks(c)) <= memory[c]
    BY DEF SumInv, MessagesAccountedFor, FreshIsKept, Reporting
  <2>2. /\ Persisted(Persists(c))' = Persisted(Persists(c))
        /\ Persisted(FreshPlaces(c))' = Persisted(FreshPlaces(c))
    BY <1>2, <1>3
  <2>3. memory'[c] = memory[c] + (IF c = v THEN count[t] ELSE 0)
    BY <1>1
  <2> QED
    BY <1>1, <1>5, <2>1, <2>2, <2>3
<1>7. MessagesAccountedFor' /\ FreshIsKept'
  BY <1>6 DEF MessagesAccountedFor, FreshIsKept, Reporting
<1>8. FreshIsLoaded'
  BY <1>1 DEF SumInv, FreshIsLoaded, FreshPlaces, Persists, Persisted
<1>9. SamplesCoverReports'
  BY <1>1, <1>2, <1>3 DEF SumInv, SamplesCoverReports, Persists
<1> QED
  BY <1>7, <1>8, <1>9 DEF SumInv

\* t is about to report no more: its messages move from its count to the stream, or
\* to those that are never reported.
LEMMA Leaves ==
  ASSUME TypeOK, NEW t \in Task, pc[t] = "appended", pc'[t] = "idle",
         \A u \in Task \ {t} : pc'[u] = pc[u],
         UNCHANGED <<on, began, count, clears>>
  PROVE  \A c \in Conversation :
           /\ SumFunctionOnSet(count, Reporting(c)) =
                SumFunctionOnSet(count, Reporting(c)') + (IF c = on[t] THEN count[t] ELSE 0)
           /\ SumFunctionOnSet(count, FreshTasks(c)) =
                SumFunctionOnSet(count, FreshTasks(c)')
                  + (IF c = on[t] /\ began[t].clears = clears[c] THEN count[t] ELSE 0)
           /\ SumFunctionOnSet(count, Reporting(c)') \in Nat
           /\ SumFunctionOnSet(count, FreshTasks(c)') \in Nat
<1> SUFFICES ASSUME NEW c \in Conversation
             PROVE  /\ SumFunctionOnSet(count, Reporting(c)) =
                         SumFunctionOnSet(count, Reporting(c)')
                           + (IF c = on[t] THEN count[t] ELSE 0)
                    /\ SumFunctionOnSet(count, FreshTasks(c)) =
                         SumFunctionOnSet(count, FreshTasks(c)')
                           + (IF c = on[t] /\ began[t].clears = clears[c] THEN count[t] ELSE 0)
                    /\ SumFunctionOnSet(count, Reporting(c)') \in Nat
                    /\ SumFunctionOnSet(count, FreshTasks(c)') \in Nat
  OBVIOUS
<1>1. /\ Reporting(c) \in SUBSET Task /\ FreshTasks(c) \in SUBSET Task
      /\ Reporting(c)' = Reporting(c) \ {t} /\ FreshTasks(c)' = FreshTasks(c) \ {t}
      /\ t \in Reporting(c) <=> c = on[t]
      /\ t \in FreshTasks(c) <=> c = on[t] /\ began[t].clears = clears[c]
  BY DEF Reporting, FreshTasks
<1>2. /\ t \in Reporting(c) => SumFunctionOnSet(count, Reporting(c)) =
                                  SumFunctionOnSet(count, Reporting(c) \ {t}) + count[t]
      /\ t \in FreshTasks(c) => SumFunctionOnSet(count, FreshTasks(c)) =
                                  SumFunctionOnSet(count, FreshTasks(c) \ {t}) + count[t]
  BY <1>1, Joins
<1>3. /\ t \notin Reporting(c) => Reporting(c) \ {t} = Reporting(c)
      /\ t \notin FreshTasks(c) => FreshTasks(c) \ {t} = FreshTasks(c)
  OBVIOUS
<1>4. SumFunctionOnSet(count, Reporting(c)') \in Nat
      /\ SumFunctionOnSet(count, FreshTasks(c)') \in Nat
  BY <1>1, TaskTypes
<1> QED
  BY <1>1, <1>2, <1>3, <1>4

LEMMA PersistSums ==
  ASSUME IInv, TypeOK', SumInv, NEW t \in Task, AppendReturns(t)
  PROVE  SumInv'
<1> DEFINE e == [kind |-> "persisted", conversation |-> on[t], count |-> count[t],
                 began |-> began[t], ended |-> clears[on[t]]]
<1>1. /\ pc[t] = "appended" /\ pc'[t] = "idle" /\ log' = Append(log, e)
      /\ \A u \in Task \ {t} : pc'[u] = pc[u]
      /\ UNCHANGED <<memory, on, began, count, clears, removed, silent>>
  BY DEF IInv, TypeOK, AppendReturns, Go, Emit, taskVars, historyVars
<1>2. e \in Event /\ e.began.events <= Len(log) /\ on[t] \in Conversation /\ count[t] \in Nat
  BY DEF IInv, TypeOK, MarksAreOld, Event
<1>3. /\ e.kind = "persisted" /\ e.kind # "sampled" /\ e.conversation = on[t]
      /\ e.count = count[t] /\ e.began = began[t]
  OBVIOUS
<1> HIDE DEF e
<1>4. /\ SamplesCoverReports'
      /\ \A c \in Conversation :
           /\ Persisted(Persists(c))' =
                Persisted(Persists(c)) + (IF c = on[t] THEN count[t] ELSE 0)
           /\ Persisted(FreshPlaces(c))' =
                Persisted(FreshPlaces(c))
                  + (IF c = on[t] /\ began[t].clears = clears[c] THEN count[t] ELSE 0)
      /\ \A c \in Conversation : \A n \in 0..Len(log) :
           Persisted({i \in FreshPlaces(c) : i <= n})'
             = Persisted({i \in FreshPlaces(c) : i <= n})
  <2>1. \A c \in Conversation : /\ Persisted(Persists(c)) \in Nat
                                /\ Persisted(FreshPlaces(c)) \in Nat
    BY PlaceTypes, Places DEF IInv
  <2>2. /\ SamplesCoverReports'
        /\ \A c \in Conversation :
             IF c = on[t]
               THEN Persisted(Persists(c))' = Persisted(Persists(c)) + count[t]
               ELSE Persisted(Persists(c))' = Persisted(Persists(c))
        /\ \A c \in Conversation :
             IF c = on[t] /\ began[t].clears = clears[c]
               THEN Persisted(FreshPlaces(c))' = Persisted(FreshPlaces(c)) + count[t]
               ELSE Persisted(FreshPlaces(c))' = Persisted(FreshPlaces(c))
        /\ \A c \in Conversation : \A n \in 0..Len(log) :
             Persisted({i \in FreshPlaces(c) : i <= n})'
               = Persisted({i \in FreshPlaces(c) : i <= n})
    BY <1>1, <1>2, <1>3, ReportStays
  <2>3. \A c \in Conversation :
          Persisted(Persists(c))' =
            Persisted(Persists(c)) + (IF c = on[t] THEN count[t] ELSE 0)
    BY <2>1, <2>2
  <2>4. \A c \in Conversation :
          Persisted(FreshPlaces(c))' =
            Persisted(FreshPlaces(c))
              + (IF c = on[t] /\ began[t].clears = clears[c] THEN count[t] ELSE 0)
    BY <2>1, <2>2
  <2> QED
    BY <2>2, <2>3, <2>4
<1>5. ASSUME NEW c \in Conversation
      PROVE  /\ (memory[c] + removed[c] = Persisted(Persists(c))
                  + SumFunctionOnSet(count, Reporting(c)) + silent[c])'
             /\ (Persisted(FreshPlaces(c)) + SumFunctionOnSet(count, FreshTasks(c))
                  <= memory[c])'
  <2>1. /\ memory[c] + removed[c] = Persisted(Persists(c))
             + SumFunctionOnSet(count, Reporting(c)) + silent[c]
        /\ Persisted(FreshPlaces(c)) + SumFunctionOnSet(count, FreshTasks(c)) <= memory[c]
    BY DEF SumInv, MessagesAccountedFor, FreshIsKept, Reporting
  <2>2. /\ SumFunctionOnSet(count, Reporting(c)) =
             SumFunctionOnSet(count, Reporting(c)') + (IF c = on[t] THEN count[t] ELSE 0)
        /\ SumFunctionOnSet(count, FreshTasks(c)) =
             SumFunctionOnSet(count, FreshTasks(c)')
               + (IF c = on[t] /\ began[t].clears = clears[c] THEN count[t] ELSE 0)
        /\ SumFunctionOnSet(count, Reporting(c)') \in Nat
        /\ SumFunctionOnSet(count, FreshTasks(c)') \in Nat
    BY <1>1, Leaves DEF IInv
  <2>3. /\ memory[c] \in Nat /\ removed[c] \in Nat /\ silent[c] \in Nat
        /\ Persisted(Persists(c)) \in Nat /\ Persisted(FreshPlaces(c)) \in Nat
    BY PlaceTypes, Places DEF IInv, TypeOK
  <2> DEFINE r == IF c = on[t] THEN count[t] ELSE 0
             f == IF c = on[t] /\ began[t].clears = clears[c] THEN count[t] ELSE 0
  <2>4. r \in Nat /\ f \in Nat
    BY <1>2
  <2>5. /\ Persisted(Persists(c))' = Persisted(Persists(c)) + r
        /\ Persisted(FreshPlaces(c))' = Persisted(FreshPlaces(c)) + f
    BY <1>4
  <2>6. /\ SumFunctionOnSet(count, Reporting(c)) = SumFunctionOnSet(count, Reporting(c)') + r
        /\ SumFunctionOnSet(count, FreshTasks(c)) = SumFunctionOnSet(count, FreshTasks(c)') + f
    BY <2>2
  <2> HIDE DEF r, f
  <2>7. memory[c] + removed[c] = Persisted(Persists(c))'
          + SumFunctionOnSet(count, Reporting(c)') + silent[c]
    BY <2>1, <2>2, <2>3, <2>4, <2>5, <2>6
  <2>8. Persisted(FreshPlaces(c))' + SumFunctionOnSet(count, FreshTasks(c)') <= memory[c]
    BY <2>1, <2>2, <2>3, <2>4, <2>5, <2>6
  <2> QED
    BY <1>1, <2>7, <2>8
<1>6. MessagesAccountedFor' /\ FreshIsKept'
  BY <1>5 DEF MessagesAccountedFor, FreshIsKept, Reporting
<1>7. FreshIsLoaded'
  <2> SUFFICES ASSUME NEW u \in Task, pc'[u] = "loaded"
               PROVE  Persisted({i \in FreshPlaces(on[u]) : i <= began[u].events})' <= count[u]
    BY <1>1 DEF FreshIsLoaded
  <2>1. on[u] \in Conversation /\ began[u].events \in 0..Len(log) /\ pc[u] = "loaded"
    BY <1>1 DEF IInv, TypeOK, MarksAreOld, Marks
  <2>2. Persisted({i \in FreshPlaces(on[u]) : i <= began[u].events})'
          = Persisted({i \in FreshPlaces(on[u]) : i <= began[u].events})
    BY <1>1, <1>4, <2>1
  <2> QED
    BY <2>1, <2>2 DEF SumInv, FreshIsLoaded
<1> QED
  BY <1>4, <1>6, <1>7 DEF SumInv

LEMMA ClearSums ==
  ASSUME IInv, TypeOK', SumInv, NEW t \in Task, InnerClear(t)
  PROVE  SumInv'
<1> DEFINE v == on[t]
<1>1. /\ pc[t] = "clear" /\ pc'[t] = "cleared"
      /\ \A u \in Task \ {t} : pc'[u] = pc[u]
      /\ v \in Conversation /\ memory'[v] = 0 /\ removed'[v] = removed[v] + memory[v]
      /\ clears'[v] = clears[v] + 1 /\ clears[v] \in Nat
      /\ \A c \in Conversation \ {v} :
           memory'[c] = memory[c] /\ removed'[c] = removed[c] /\ clears'[c] = clears[c]
      /\ UNCHANGED <<log, on, began, count, silent>>
  BY DEF IInv, TypeOK, InnerClear, Go, taskVars
<1> HIDE DEF v
<1>2. /\ \A u \in Task : /\ on[u] \in Conversation /\ began[u].clears \in Nat
                         /\ began[u].clears <= clears[on[u]]
      /\ \A i \in DOMAIN log : /\ log[i].conversation \in Conversation
                              /\ log[i].began.clears \in Nat
                              /\ log[i].began.clears <= clears[log[i].conversation]
  BY EntryType DEF IInv, TypeOK, Marks, MarksAreOld
<1>3. \A c \in Conversation :
        /\ Persists(c)' = Persists(c) /\ Reporting(c)' = Reporting(c)
        /\ FreshPlaces(c)' = IF c = v THEN {} ELSE FreshPlaces(c)
        /\ FreshTasks(c)' = IF c = v THEN {} ELSE FreshTasks(c)
  BY <1>1, <1>2 DEF Persists, Reporting, FreshPlaces, FreshTasks
<1>4. \A P : Persisted(P)' = Persisted(P)
  BY <1>1 DEF Persisted
<1>5. Persisted({}) = 0 /\ SumFunctionOnSet(count, {}) = 0
  BY SumUnfolds, FS_EmptySet DEF Persisted
<1>6. ASSUME NEW c \in Conversation
      PROVE  /\ (memory[c] + removed[c] = Persisted(Persists(c))
                  + SumFunctionOnSet(count, Reporting(c)) + silent[c])'
             /\ (Persisted(FreshPlaces(c)) + SumFunctionOnSet(count, FreshTasks(c))
                  <= memory[c])'
  <2>1. /\ memory[c] + removed[c] = Persisted(Persists(c))
             + SumFunctionOnSet(count, Reporting(c)) + silent[c]
        /\ Persisted(FreshPlaces(c)) + SumFunctionOnSet(count, FreshTasks(c)) <= memory[c]
    BY DEF SumInv, MessagesAccountedFor, FreshIsKept, Reporting
  <2>2. memory[c] \in Nat /\ removed[c] \in Nat
    BY DEF IInv, TypeOK
  <2>3. /\ Persisted(Persists(c))' = Persisted(Persists(c))
        /\ Persisted(FreshPlaces(c))' = Persisted(FreshPlaces(c)')
    BY <1>3, <1>4
  <2>4. memory'[c] + removed'[c] = memory[c] + removed[c]
    BY <1>1, <2>2
  <2>5. CASE c = v
    <3>1. /\ Persisted(FreshPlaces(c))' = 0 /\ SumFunctionOnSet(count, FreshTasks(c))' = 0
          /\ memory'[c] = 0
      BY <1>1, <1>3, <1>5, <2>3, <2>5
    <3>2. (memory[c] + removed[c] = Persisted(Persists(c))
             + SumFunctionOnSet(count, Reporting(c)) + silent[c])'
      BY <1>1, <1>3, <2>1, <2>3, <2>4
    <3> QED
      BY <3>1, <3>2
  <2>6. CASE c # v
    BY <1>1, <1>3, <2>1, <2>3, <2>4, <2>6
  <2> QED
    BY <2>5, <2>6
<1>7. MessagesAccountedFor' /\ FreshIsKept'
  BY <1>6 DEF MessagesAccountedFor, FreshIsKept, Reporting
<1>8. FreshIsLoaded'
  <2> SUFFICES ASSUME NEW u \in Task, pc'[u] = "loaded"
               PROVE  Persisted({i \in FreshPlaces(on[u]) : i <= began[u].events})' <= count[u]
    BY <1>1 DEF FreshIsLoaded
  <2>1. pc[u] = "loaded" /\ on[u] \in Conversation /\ count[u] \in Nat
    BY <1>1 DEF IInv, TypeOK
  <2> DEFINE P == {i \in FreshPlaces(on[u]) : i <= began[u].events}
  <2>2. Persisted(P)' = Persisted(P')
    BY <1>4
  <2>3. P' = IF on[u] = v THEN {} ELSE P
    <3>1. FreshPlaces(on[u])' = IF on[u] = v THEN {} ELSE FreshPlaces(on[u])
      BY <1>1, <1>3, <2>1 DEF FreshPlaces
    <3> QED
      BY <1>1, <3>1
  <2>4. Persisted(P) <= count[u]
    BY <2>1 DEF SumInv, FreshIsLoaded
  <2> HIDE DEF P
  <2>5. Persisted(P)' <= count[u]
    BY <1>5, <2>1, <2>2, <2>3, <2>4
  <2> QED
    BY <2>5 DEF P
<1>9. SamplesCoverReports'
  BY <1>1, <1>4 DEF SumInv, SamplesCoverReports, Persists
<1> QED
  BY <1>7, <1>8, <1>9 DEF SumInv

\* An operation that ends without a report; an append that took effect goes on being
\* accounted for, as silent.
LEMMA BreakSums ==
  ASSUME IInv, TypeOK', SumInv, NEW t \in Task, Breaks(t)
  PROVE  SumInv'
<1>1. /\ pc'[t] = "idle" /\ \A u \in Task \ {t} : pc'[u] = pc[u]
      /\ UNCHANGED <<memory, count, log, on, began, clears, removed>>
  BY DEF IInv, TypeOK, Breaks, Go, taskVars
<1>2. FreshIsLoaded'
  BY <1>1 DEF SumInv, FreshIsLoaded, FreshPlaces, Persists, Persisted
<1>3. CASE pc[t] # "appended"
  <2>1. UNCHANGED silent
    BY <1>3 DEF Breaks
  <2>2. \A c \in Conversation : Reporting(c)' = Reporting(c) /\ FreshTasks(c)' = FreshTasks(c)
    BY <1>1, <1>3 DEF Reporting, FreshTasks
  <2>3. MessagesAccountedFor' /\ FreshIsKept' /\ SamplesCoverReports'
    BY <1>1, <2>1, <2>2, NoReport DEF IInv
  <2> QED
    BY <1>2, <2>3 DEF SumInv
<1>4. CASE pc[t] = "appended"
  <2>1. /\ silent'[on[t]] = silent[on[t]] + count[t]
        /\ \A c \in Conversation \ {on[t]} : silent'[c] = silent[c]
        /\ count[t] \in Nat
    BY <1>4 DEF IInv, TypeOK, Breaks
  <2>2. \A c \in Conversation : /\ Persists(c)' = Persists(c)
                                /\ FreshPlaces(c)' = FreshPlaces(c)
    BY <1>1 DEF Persists, FreshPlaces
  <2>3. \A P : Persisted(P)' = Persisted(P)
    BY <1>1 DEF Persisted
  <2>4. ASSUME NEW c \in Conversation
        PROVE  /\ (memory[c] + removed[c] = Persisted(Persists(c))
                    + SumFunctionOnSet(count, Reporting(c)) + silent[c])'
               /\ (Persisted(FreshPlaces(c)) + SumFunctionOnSet(count, FreshTasks(c))
                    <= memory[c])'
    <3> DEFINE r == IF c = on[t] THEN count[t] ELSE 0
               f == IF c = on[t] /\ began[t].clears = clears[c] THEN count[t] ELSE 0
    <3>1. r \in Nat /\ f \in Nat /\ silent'[c] = silent[c] + r /\ silent[c] \in Nat
      <4>1. silent[c] \in Nat
        BY DEF IInv, TypeOK
      <4> QED
        BY <2>1, <4>1
    <3>2. /\ SumFunctionOnSet(count, Reporting(c)) = SumFunctionOnSet(count, Reporting(c)') + r
          /\ SumFunctionOnSet(count, FreshTasks(c)) = SumFunctionOnSet(count, FreshTasks(c)') + f
          /\ SumFunctionOnSet(count, Reporting(c)') \in Nat
          /\ SumFunctionOnSet(count, FreshTasks(c)') \in Nat
      BY <1>1, <1>4, Leaves DEF IInv
    <3> HIDE DEF r, f
    <3>3. /\ memory[c] + removed[c] = Persisted(Persists(c))
               + SumFunctionOnSet(count, Reporting(c)) + silent[c]
          /\ Persisted(FreshPlaces(c)) + SumFunctionOnSet(count, FreshTasks(c)) <= memory[c]
      BY DEF SumInv, MessagesAccountedFor, FreshIsKept, Reporting
    <3>4. /\ memory[c] \in Nat /\ removed[c] \in Nat
          /\ Persisted(Persists(c)) \in Nat /\ Persisted(FreshPlaces(c)) \in Nat
      BY PlaceTypes, Places DEF IInv, TypeOK
    <3>5. memory[c] + removed[c] = Persisted(Persists(c))
            + SumFunctionOnSet(count, Reporting(c)') + silent'[c]
      BY <3>1, <3>2, <3>3, <3>4
    <3>6. Persisted(FreshPlaces(c)) + SumFunctionOnSet(count, FreshTasks(c)') <= memory[c]
      BY <3>1, <3>2, <3>3, <3>4
    <3> QED
      BY <1>1, <2>2, <2>3, <3>5, <3>6
  <2>5. MessagesAccountedFor' /\ FreshIsKept'
    BY <2>4 DEF MessagesAccountedFor, FreshIsKept, Reporting
  <2>6. SamplesCoverReports'
    BY <1>1, <2>2, <2>3 DEF SumInv, SamplesCoverReports, Persists
  <2> QED
    BY <1>2, <2>5, <2>6 DEF SumInv
<1> QED
  BY <1>3, <1>4

LEMMA StepSums == IInv /\ SumInv /\ TypeOK' /\ [Next]_vars => SumInv'
<1> SUFFICES ASSUME IInv, SumInv, TypeOK', [Next]_vars PROVE SumInv'
  OBVIOUS
<1>1. ASSUME NEW t \in Task, BeginLoad(t) \/ BeginClear(t) PROVE SumInv'
  <2> PICK c \in Conversation, to \in {"load", "clear"} :
        Begin(t, c, to) /\ UNCHANGED <<count, log>>
    BY <1>1 DEF BeginLoad, BeginClear
  <2> QED
    BY BeginSums DEF Pending
<1>2. ASSUME NEW t \in Task, BeginAppend(t) PROVE SumInv'
  <2> PICK c \in Conversation, n \in 0..MaxBatch :
        Begin(t, c, "append") /\ count' = [count EXCEPT ![t] = n] /\ UNCHANGED log
    BY <1>2 DEF BeginAppend
  <2>1. \A u \in Task \ {t} : count'[u] = count[u]
    BY DEF IInv, TypeOK
  <2> QED
    BY <2>1, BeginSums DEF Pending
<1>3. ASSUME NEW t \in Task, ClearReturns(t) PROVE SumInv'
  <2>1. /\ pc[t] = "cleared" /\ pc'[t] = "idle" /\ \A u \in Task \ {t} : pc'[u] = pc[u]
        /\ UNCHANGED <<memory, count, log, on, began, clears, removed, silent>>
    BY <1>3 DEF IInv, TypeOK, ClearReturns, Go, taskVars, historyVars
  <2>2. \A c \in Conversation : Reporting(c)' = Reporting(c) /\ FreshTasks(c)' = FreshTasks(c)
    BY <2>1 DEF Reporting, FreshTasks
  <2>3. MessagesAccountedFor' /\ FreshIsKept' /\ SamplesCoverReports'
    BY <2>1, <2>2, NoReport DEF IInv
  <2>4. FreshIsLoaded'
    BY <2>1 DEF SumInv, FreshIsLoaded, FreshPlaces, Persists, Persisted
  <2> QED
    BY <2>3, <2>4 DEF SumInv
<1>4. CASE UNCHANGED vars
  <2>1. UNCHANGED <<memory, pc, on, count, log, began, clears, removed, silent>>
    BY <1>4 DEF vars, taskVars, historyVars
  <2>2. \A c \in Conversation : Reporting(c)' = Reporting(c) /\ FreshTasks(c)' = FreshTasks(c)
    BY <2>1 DEF Reporting, FreshTasks
  <2>3. MessagesAccountedFor' /\ FreshIsKept' /\ SamplesCoverReports'
    BY <2>1, <2>2, NoReport DEF IInv
  <2>4. FreshIsLoaded'
    BY <2>1 DEF SumInv, FreshIsLoaded, FreshPlaces, Persists, Persisted
  <2> QED
    BY <2>3, <2>4 DEF SumInv
<1> QED
  BY <1>1, <1>2, <1>3, <1>4, LoadSums, SampleSums, AppendSums, PersistSums, ClearSums,
     BreakSums DEF Next

LEMMA SumsInvariant == Spec => [](IInv /\ SumInv)
<1>1. IInv /\ [Next]_vars => TypeOK'
  BY InvStep DEF IInv
<1> QED
  BY <1>1, InvInit, InvStep, InitSums, StepSums, PTL DEF Spec

\* What the stream says was persisted is what the memory got (observed_memory.rs,
\* append), for any number of tasks and calls: every message of a conversation, cleared
\* since or not, is in exactly one context.persisted event, about to be in one, or of
\* an append that failed or was dropped after it took effect.
THEOREM MessagesAddUp == Spec => []MessagesAccountedFor
<1>1. IInv /\ SumInv => MessagesAccountedFor
  BY DEF SumInv
<1> QED
  BY <1>1, SumsInvariant, PTL

\* A context.sampled event misses nothing that was reported before its load began and
\* not cleared since (observed_memory.rs, load), for any number of tasks and calls.
THEOREM SamplesCover == Spec => []SamplesCoverReports
<1>1. IInv /\ SumInv => SamplesCoverReports
  BY DEF SumInv
<1> QED
  BY <1>1, SumsInvariant, PTL

=============================================================================
