------------------------ MODULE DispatchObserve_proofs ------------------------
(***************************************************************************)
(* Proofs about DispatchObserve, for every set of dispatches.              *)
(*                                                                         *)
(* Two results hold however the dispatches interleave and whichever are    *)
(* dropped: call ids are never reused and every terminal event follows its *)
(* tool.invoked.  They rest on who owns an id: a method that has it in     *)
(* hand, the in-flight slot, or nobody any more.  Two more hold for the    *)
(* use the hook is written for, one dispatch at a time run to its end:     *)
(* every terminal event names its own invocation and every completion is   *)
(* timed.                                                                  *)
(***************************************************************************)
EXTENDS DispatchObserve, TLAPS

(***************************************************************************)
(* Types                                                                   *)
(***************************************************************************)

Entry == [kind : {"invoked"} \cup TerminalKind, call : Nat,
          of : Dispatch \X Nat, timed : BOOLEAN]

\* The event a method of the hook emits.
EventOf(d, kind) ==
  [kind |-> kind, call |-> held[d], of |-> <<d, nth[d]>>, timed |-> timed[d]]

\* Every field keeps its type under every step.
THEOREM Typing == Spec => []TypeOK
  <1>1. Init => TypeOK
    <2>1. "new" \in Where /\ "completed" \in TerminalKind
      BY DEF Where, TerminalKind
    <2>2. Init => log \in Seq(Entry)
      BY DEF Init
    <2>3. Init => overlapped \in BOOLEAN
      BY DEF Init
    <2> QED
      BY <2>1, <2>2, <2>3 DEF Init, TypeOK, Entry
  <1>2. TypeOK /\ [Next]_vars => TypeOK'
    <2> SUFFICES ASSUME TypeOK, [Next]_vars PROVE TypeOK'
      OBVIOUS
    <2>1. CASE UNCHANGED vars
      BY <2>1 DEF vars, TypeOK
    <2>2. ASSUME NEW d \in Dispatch, Hook(d) PROVE TypeOK'
      <3>1. CASE BeforeInvocation(d)
        BY <3>1 DEF BeforeInvocation, Go, NextCallId, kernelVars, TypeOK, Where
      <3>2. ASSUME NEW kind \in {"invoked"} \cup TerminalKind, Emit(d, kind)
            PROVE  log' \in Seq(Entry)
        <4>1. EventOf(d, kind) \in Entry
          BY DEF EventOf, Entry, TypeOK
        <4>2. log' = Append(log, EventOf(d, kind)) /\ log \in Seq(Entry)
          BY <3>2 DEF Emit, EventOf, TypeOK, Entry
        <4> QED
          BY <4>1, <4>2
      <3>3. CASE EmitInvoked(d)
        <4>1. log' \in Seq(Entry)
          BY <3>2, <3>3 DEF EmitInvoked
        <4> QED
          BY <3>3, <4>1 DEF EmitInvoked, Go, localVars, kernelVars, TypeOK, Where, Entry
      <3>4. CASE SetInFlight(d)
        BY <3>4 DEF SetInFlight, Go, localVars, kernelVars, TypeOK, Where
      <3>5. CASE TakeInFlight(d)
        BY <3>5 DEF TakeInFlight, Go, kernelVars, TypeOK, Where
      <3>6. CASE NothingInFlight(d)
        BY <3>6 DEF NothingInFlight, Go, hookVars, localVars, kernelVars, TypeOK, Where
      <3>7. CASE SyntheticCallId(d)
        BY <3>7 DEF SyntheticCallId, Go, NextCallId, kernelVars, TypeOK, Where
      <3>8. CASE EmitSynthetic(d)
        <4>1. log' \in Seq(Entry)
          BY <3>2, <3>8 DEF EmitSynthetic
        <4> QED
          BY <3>8, <4>1 DEF EmitSynthetic, Go, localVars, kernelVars, TypeOK, Where, Entry
      <3>9. CASE EmitTerminal(d)
        <4>1. log' \in Seq(Entry)
          BY <3>2, <3>9 DEF EmitTerminal, TypeOK
        <4> QED
          BY <3>9, <4>1 DEF EmitTerminal, Go, localVars, kernelVars, TypeOK, Where, Entry, Over
      <3> QED
        BY <2>2, <3>1, <3>3, <3>4, <3>5, <3>6, <3>7, <3>8, <3>9 DEF Hook
    <2>3. ASSUME NEW d \in Dispatch, Kernel(d) \/ Cancel(d) PROVE TypeOK'
      <3>1. CASE Finish(d) \/ GatePasses(d) \/ Cancel(d)
        BY <3>1 DEF Finish, GatePasses, Cancel, Go, hookVars, localVars,
                    kernelVars, TypeOK, Where, Over
      <3>2. CASE NextInvocation(d)
        <4>1. {"ready", "gate", "before"} \subseteq Where
          BY DEF Where
        <4>2. overlapped' \in BOOLEAN
          BY <3>2, Zenon DEF NextInvocation, TypeOK
        <4> QED
          BY <3>2, <4>1, <4>2 DEF NextInvocation, Go, hookVars, localVars, TypeOK
      <3>3. CASE GateSkips(d) \/ GateTerminates(d) \/ ToolReturns(d) \/ ToolFails(d)
        BY <3>3 DEF GateSkips, GateTerminates, ToolReturns, ToolFails, Report, Go,
                    hookVars, localVars, TypeOK, Where, TerminalKind
      <3>4. CASE Start(d)
        <4>1. overlapped' \in BOOLEAN
          BY <3>4, Zenon DEF Start, TypeOK
        <4> QED
          BY <3>4, <4>1 DEF Start, Go, hookVars, localVars, TypeOK, Where, Over
      <3> QED
        BY <2>3, <3>1, <3>2, <3>3, <3>4 DEF Kernel
    <2> QED
      BY <2>1, <2>2, <2>3 DEF Next
  <1> QED
    BY <1>1, <1>2, PTL DEF Spec

(***************************************************************************)
(* Who owns a call id                                                      *)
(***************************************************************************)

\* Places where d has an id in hand that no other method may use.
Announcing == {"invoked", "announce"}
Resolving  == {"remember", "terminal"}
Holds(d)   == pc[d] \in Announcing \cup Resolving

\* The stream has no event with the call id c.
Unseen(c) == \A i \in DOMAIN log : log[i].call # c

\* c has been announced and not resolved.
Pending(c) ==
  /\ \E i \in DOMAIN log : Invoked(i) /\ log[i].call = c
  /\ \A i \in DOMAIN log : Terminal(i) => log[i].call # c

OwnInv ==
  /\ \A i \in DOMAIN log : log[i].call < counter
  /\ \A d \in Dispatch : Holds(d) => held[d] < counter
  /\ inFlight # None => inFlight < counter
  /\ \A d, e \in Dispatch : Holds(d) /\ Holds(e) /\ d # e => held[d] # held[e]
  /\ \A d \in Dispatch : Holds(d) => held[d] # inFlight
  /\ \A d \in Dispatch : pc[d] \in Announcing => Unseen(held[d])
  /\ \A d \in Dispatch : pc[d] \in Resolving => Pending(held[d])
  /\ inFlight # None => Pending(inFlight)

StreamInv == OwnInv /\ CallIdsUnique /\ TerminalAfterInvoked

\* A step that emits nothing leaves what the stream says alone.
LEMMA Silent ==
  ASSUME UNCHANGED log
  PROVE  /\ \A c : Unseen(c) <=> Unseen(c)'
         /\ \A c : Pending(c) <=> Pending(c)'
         /\ CallIdsUnique <=> CallIdsUnique'
         /\ TerminalAfterInvoked <=> TerminalAfterInvoked'
  BY DEF Unseen, Pending, CallIdsUnique, TerminalAfterInvoked, Invoked, Terminal

\* What there is in the stream.
LEMMA Entries ==
  ASSUME TypeOK, NEW i \in DOMAIN log
  PROVE  log[i].kind \in {"invoked"} \cup TerminalKind /\ log[i].call \in Nat
  <1>1. log \in Seq(Entry)
    BY DEF TypeOK, Entry
  <1>2. log[i] \in Entry
    BY <1>1
  <1> QED
    BY <1>2 DEF Entry

\* The stream after an event of d.
LEMMA Emitted ==
  ASSUME TypeOK, NEW d \in Dispatch, NEW kind \in {"invoked"} \cup TerminalKind,
         Emit(d, kind)
  PROVE  /\ Len(log) \in Nat
         /\ DOMAIN log = 1..Len(log)
         /\ DOMAIN log' = 1..(Len(log) + 1)
         /\ \A i \in 1..Len(log) : log'[i] = log[i]
         /\ log'[Len(log) + 1] = EventOf(d, kind)
  <1>1. log \in Seq(Entry) /\ EventOf(d, kind) \in Entry
    BY DEF TypeOK, Entry, EventOf
  <1>2. log' = Append(log, EventOf(d, kind))
    BY DEF Emit, EventOf
  <1> QED
    BY <1>1, <1>2

\* Announcing an unseen id: it becomes pending, and no other id is concerned.
LEMMA Announced ==
  ASSUME TypeOK, StreamInv, NEW d \in Dispatch, Emit(d, "invoked"), Unseen(held[d])
  PROVE  /\ CallIdsUnique'
         /\ TerminalAfterInvoked'
         /\ \A i \in DOMAIN log' : log'[i].call = held[d] \/ log'[i].call < counter
         /\ \A c \in Nat : c # held[d] /\ Unseen(c) => Unseen(c)'
         /\ \A c \in Nat : Pending(c) \/ c = held[d] => Pending(c)'
  <1> DEFINE n == Len(log)
  <1>1. /\ n \in Nat
        /\ DOMAIN log = 1..n
        /\ DOMAIN log' = 1..(n + 1)
        /\ \A i \in 1..n : log'[i] = log[i]
        /\ log'[n + 1].kind = "invoked"
        /\ log'[n + 1].call = held[d]
    <2>1. "invoked" \in {"invoked"} \cup TerminalKind
      OBVIOUS
    <2>2. /\ n \in Nat
          /\ DOMAIN log = 1..n
          /\ DOMAIN log' = 1..(n + 1)
          /\ \A i \in 1..n : log'[i] = log[i]
          /\ log'[n + 1] = EventOf(d, "invoked")
      BY <2>1, Emitted
    <2> QED
      BY <2>2 DEF EventOf
  <1> HIDE DEF n
  <1>2. ~(log'[n + 1].kind \in TerminalKind)
    BY <1>1 DEF TerminalKind
  <1>3. \A i \in 1..n : log'[i].call # held[d]
    BY <1>1 DEF Unseen
  <1>4. CallIdsUnique'
    <2> SUFFICES ASSUME NEW i \in 1..(n + 1), NEW j \in 1..(n + 1),
                        log'[i].call = log'[j].call,
                        log'[i].kind = "invoked" <=> log'[j].kind = "invoked"
                 PROVE  i = j
      BY <1>1 DEF CallIdsUnique, Invoked
    <2>1. CASE i \in 1..n /\ j \in 1..n
      BY <1>1, <2>1 DEF StreamInv, CallIdsUnique, Invoked
    <2>2. CASE i = n + 1 \/ j = n + 1
      BY <1>1, <1>3, <2>2
    <2> QED
      BY <1>1, <2>1, <2>2
  <1>5. TerminalAfterInvoked'
    <2> SUFFICES ASSUME NEW j \in 1..(n + 1), log'[j].kind \in TerminalKind
                 PROVE  \E i \in 1..(j - 1) :
                          log'[i].kind = "invoked" /\ log'[i].call = log'[j].call
      BY <1>1 DEF TerminalAfterInvoked, Invoked, Terminal
    <2>1. j \in 1..n
      BY <1>1, <1>2
    <2>2. PICK i \in 1..(j - 1) : log[i].kind = "invoked" /\ log[i].call = log[j].call
      BY <1>1, <2>1 DEF StreamInv, TerminalAfterInvoked, Invoked, Terminal
    <2>3. i \in 1..n
      BY <1>1, <2>1
    <2> QED
      BY <1>1, <2>1, <2>2, <2>3
  <1>6. \A i \in DOMAIN log' : log'[i].call = held[d] \/ log'[i].call < counter
    BY <1>1 DEF StreamInv, OwnInv
  <1>7. ASSUME NEW c \in Nat, c # held[d], Unseen(c) PROVE Unseen(c)'
    BY <1>1, <1>7 DEF Unseen
  <1>8. ASSUME NEW c \in Nat, Pending(c) PROVE Pending(c)'
    <2>1. PICK i \in 1..n : log[i].kind = "invoked" /\ log[i].call = c
      BY <1>1, <1>8 DEF Pending, Invoked
    <2>2. log'[i].kind = "invoked" /\ log'[i].call = c /\ i \in 1..(n + 1)
      BY <1>1, <2>1
    <2>3. \A j \in 1..(n + 1) : log'[j].kind \in TerminalKind => log'[j].call # c
      BY <1>1, <1>2, <1>8 DEF Pending, Terminal
    <2> QED
      BY <1>1, <2>2, <2>3 DEF Pending, Invoked, Terminal
  <1>9. ASSUME NEW c \in Nat, c = held[d] PROVE Pending(c)'
    <2>1. \A j \in 1..(n + 1) : log'[j].kind \in TerminalKind => log'[j].call # c
      BY <1>1, <1>2, <1>3, <1>9
    <2>2. n + 1 \in 1..(n + 1)
      BY <1>1
    <2> QED
      BY <1>1, <1>9, <2>1, <2>2 DEF Pending, Terminal, Invoked
  <1> QED
    BY <1>4, <1>5, <1>6, <1>7, <1>8, <1>9

\* Resolving a pending id: no other id is concerned.
LEMMA Resolved ==
  ASSUME TypeOK, StreamInv, NEW d \in Dispatch, NEW kind \in TerminalKind,
         Emit(d, kind), Pending(held[d])
  PROVE  /\ CallIdsUnique'
         /\ TerminalAfterInvoked'
         /\ \A i \in DOMAIN log' : log'[i].call = held[d] \/ log'[i].call < counter
         /\ \A c \in Nat : c # held[d] /\ Unseen(c) => Unseen(c)'
         /\ \A c \in Nat : c # held[d] /\ Pending(c) => Pending(c)'
  <1> DEFINE n == Len(log)
  <1>1. /\ n \in Nat
        /\ DOMAIN log = 1..n
        /\ DOMAIN log' = 1..(n + 1)
        /\ \A i \in 1..n : log'[i] = log[i]
        /\ log'[n + 1].kind = kind
        /\ log'[n + 1].call = held[d]
    <2>1. kind \in {"invoked"} \cup TerminalKind
      OBVIOUS
    <2>2. /\ n \in Nat
          /\ DOMAIN log = 1..n
          /\ DOMAIN log' = 1..(n + 1)
          /\ \A i \in 1..n : log'[i] = log[i]
          /\ log'[n + 1] = EventOf(d, kind)
      BY <2>1, Emitted
    <2> QED
      BY <2>2 DEF EventOf
  <1> HIDE DEF n
  <1>2. kind # "invoked"
    BY DEF TerminalKind
  <1>3. \A i \in 1..n : log[i].call = held[d] => log[i].kind = "invoked"
    BY <1>1, Entries DEF Pending, Terminal
  <1>4. CallIdsUnique'
    <2> SUFFICES ASSUME NEW i \in 1..(n + 1), NEW j \in 1..(n + 1),
                        log'[i].call = log'[j].call,
                        log'[i].kind = "invoked" <=> log'[j].kind = "invoked"
                 PROVE  i = j
      BY <1>1 DEF CallIdsUnique, Invoked
    <2>1. CASE i \in 1..n /\ j \in 1..n
      BY <1>1, <2>1 DEF StreamInv, CallIdsUnique, Invoked
    <2>2. CASE i = n + 1 \/ j = n + 1
      BY <1>1, <1>2, <1>3, <2>2
    <2> QED
      BY <1>1, <2>1, <2>2
  <1>5. TerminalAfterInvoked'
    <2> SUFFICES ASSUME NEW j \in 1..(n + 1), log'[j].kind \in TerminalKind
                 PROVE  \E i \in 1..(j - 1) :
                          log'[i].kind = "invoked" /\ log'[i].call = log'[j].call
      BY <1>1 DEF TerminalAfterInvoked, Invoked, Terminal
    <2>1. PICK i \in 1..(j - 1) : /\ i \in 1..n
                                  /\ log[i].kind = "invoked"
                                  /\ log[i].call = log'[j].call
      <3>1. CASE j \in 1..n
        BY <1>1, <3>1 DEF StreamInv, TerminalAfterInvoked, Invoked, Terminal
      <3>2. CASE j = n + 1
        BY <1>1, <3>2 DEF Pending, Invoked
      <3> QED
        BY <1>1, <3>1, <3>2
    <2> QED
      BY <1>1, <2>1
  <1>6. \A i \in DOMAIN log' : log'[i].call = held[d] \/ log'[i].call < counter
    BY <1>1 DEF StreamInv, OwnInv
  <1>7. ASSUME NEW c \in Nat, c # held[d], Unseen(c) PROVE Unseen(c)'
    BY <1>1, <1>7 DEF Unseen
  <1>8. ASSUME NEW c \in Nat, c # held[d], Pending(c) PROVE Pending(c)'
    <2>1. PICK i \in 1..n : log[i].kind = "invoked" /\ log[i].call = c
      BY <1>1, <1>8 DEF Pending, Invoked
    <2>2. log'[i].kind = "invoked" /\ log'[i].call = c /\ i \in 1..(n + 1)
      BY <1>1, <2>1
    <2>3. \A j \in 1..(n + 1) : log'[j].kind \in TerminalKind => log'[j].call # c
      BY <1>1, <1>8 DEF Pending, Terminal
    <2> QED
      BY <1>1, <2>2, <2>3 DEF Pending, Invoked, Terminal
  <1> QED
    BY <1>4, <1>5, <1>6, <1>7, <1>8

\* A step that emits nothing and gives no method an id preserves ownership.
LEMMA Bystander ==
  ASSUME TypeOK, StreamInv, UNCHANGED <<hookVars, held>>,
         \A d \in Dispatch : Holds(d)' => pc'[d] = pc[d]
  PROVE  StreamInv'
  <1>1. UNCHANGED log
    BY DEF hookVars
  <1>2. OwnInv'
    BY <1>1, Silent DEF StreamInv, OwnInv, Holds, hookVars
  <1> QED
    BY <1>1, <1>2, Silent DEF StreamInv

\* Taking a new id from the counter: nobody has seen it.
LEMMA NewId ==
  ASSUME TypeOK, StreamInv, NEW d \in Dispatch, NextCallId(d), ~Holds(d),
         UNCHANGED <<inFlight, log>>, pc' = [pc EXCEPT ![d] = pc'[d]],
         pc'[d] \in Announcing
  PROVE  StreamInv'
  <1>1. /\ held' = [held EXCEPT ![d] = counter]
        /\ counter' = counter + 1
        /\ counter \in Nat
    BY DEF NextCallId, TypeOK
  <1>2. \A e \in Dispatch : e # d => pc'[e] = pc[e] /\ held'[e] = held[e]
    BY <1>1 DEF TypeOK
  <1>3. held'[d] = counter /\ Unseen(counter) /\ held \in [Dispatch -> Nat]
    <2>1. \A i \in DOMAIN log : log[i].call < counter /\ log[i].call \in Nat
      BY Entries DEF StreamInv, OwnInv
    <2>2. \A i \in DOMAIN log : log[i].call # counter
      BY <1>1, <2>1
    <2>3. held \in [Dispatch -> Nat]
      BY DEF TypeOK
    <2> QED
      BY <1>1, <2>2, <2>3 DEF Unseen
  <1>4. OwnInv'
    <2>1. \A i \in DOMAIN log' : log'[i].call < counter'
      BY <1>1, Entries DEF StreamInv, OwnInv
    <2>2. \A e \in Dispatch : Holds(e)' => held'[e] < counter'
      BY <1>1, <1>2, <1>3 DEF StreamInv, OwnInv, Holds
    <2>3. inFlight' # None => inFlight' < counter'
      BY <1>1 DEF StreamInv, OwnInv, TypeOK
    <2>4. \A e, f \in Dispatch : Holds(e)' /\ Holds(f)' /\ e # f => held'[e] # held'[f]
      BY <1>1, <1>2, <1>3 DEF StreamInv, OwnInv, Holds
    <2>5. \A e \in Dispatch : Holds(e)' => held'[e] # inFlight'
      <3>1. counter # inFlight
        BY <1>1, NoneAssumption DEF StreamInv, OwnInv, TypeOK
      <3> QED
        BY <1>2, <1>3, <3>1 DEF StreamInv, OwnInv, Holds
    <2>6. \A e \in Dispatch : pc'[e] \in Announcing => Unseen(held[e])'
      BY <1>2, <1>3, Silent DEF StreamInv, OwnInv
    <2>7. \A e \in Dispatch : pc'[e] \in Resolving => Pending(held[e])'
      BY <1>2, Silent DEF StreamInv, OwnInv, Announcing, Resolving
    <2>8. inFlight' # None => Pending(inFlight)'
      BY Silent DEF StreamInv, OwnInv
    <2> QED
      BY <2>1, <2>2, <2>3, <2>4, <2>5, <2>6, <2>7, <2>8 DEF OwnInv
  <1> QED
    BY <1>4, Silent DEF StreamInv

\* Every step keeps the ownership of the call ids and what follows from it.
LEMMA StreamStep == TypeOK /\ StreamInv /\ [Next]_vars => StreamInv'
  <1> SUFFICES ASSUME TypeOK, StreamInv, [Next]_vars PROVE StreamInv'
    OBVIOUS
  <1>1. CASE UNCHANGED vars
    BY <1>1, Bystander DEF vars, hookVars, Holds
  <1>2. ASSUME NEW d \in Dispatch, BeforeInvocation(d) \/ SyntheticCallId(d)
        PROVE  StreamInv'
    <2>1. /\ NextCallId(d)
          /\ UNCHANGED <<inFlight, log>>
          /\ pc[d] \in {"before", "synthetic"}
          /\ pc'[d] \in Announcing
          /\ pc' = [pc EXCEPT ![d] = pc'[d]]
      BY <1>2 DEF BeforeInvocation, SyntheticCallId, Go, Announcing, TypeOK
    <2>2. ~Holds(d)
      BY <2>1 DEF Holds, Announcing, Resolving
    <2> QED
      BY <2>1, <2>2, NewId
  <1>3. ASSUME NEW d \in Dispatch, EmitInvoked(d) \/ EmitSynthetic(d)
        PROVE  StreamInv'
    <2>1. /\ Emit(d, "invoked")
          /\ UNCHANGED <<counter, inFlight, held>>
          /\ pc[d] \in Announcing
          /\ pc'[d] \in Resolving
          /\ \A e \in Dispatch : e # d => pc'[e] = pc[e]
      BY <1>3 DEF EmitInvoked, EmitSynthetic, Go, localVars, Announcing, Resolving, TypeOK
    <2>2. Unseen(held[d]) /\ Holds(d)
      BY <2>1 DEF StreamInv, OwnInv, Holds
    <2>3. /\ CallIdsUnique'
          /\ TerminalAfterInvoked'
          /\ \A i \in DOMAIN log' : log'[i].call = held[d] \/ log'[i].call < counter
          /\ \A c \in Nat : c # held[d] /\ Unseen(c) => Unseen(c)'
          /\ \A c \in Nat : Pending(c) \/ c = held[d] => Pending(c)'
      BY <2>1, <2>2, Announced
    <2>4. /\ held \in [Dispatch -> Nat]
          /\ inFlight \in Nat \cup {None}
          /\ \A e \in Dispatch : Holds(e)' => Holds(e)
      BY <2>1, <2>2 DEF TypeOK, Holds
    <2>5. \A e \in Dispatch : pc'[e] \in Announcing => Unseen(held[e])'
      <3> SUFFICES ASSUME NEW e \in Dispatch, pc'[e] \in Announcing
                   PROVE  Unseen(held[e])'
        OBVIOUS
      <3>1. e # d /\ pc[e] \in Announcing
        BY <2>1 DEF Announcing, Resolving
      <3>2. held[e] # held[d] /\ Unseen(held[e]) /\ held[e] \in Nat
        BY <2>2, <2>4, <3>1 DEF StreamInv, OwnInv, Holds
      <3> DEFINE c == held[e]
      <3>3. c' = c
        BY <2>1
      <3>4. \A k \in Nat : k # held[d] /\ Unseen(k) => \A i \in DOMAIN log' : log'[i].call # k
        BY <2>3 DEF Unseen
      <3> QED
        BY <3>2, <3>3, <3>4 DEF Unseen
    <2>6. \A k \in Nat : Pending(k) \/ k = held[d] =>
            /\ \E i \in DOMAIN log' : Invoked(i)' /\ log'[i].call = k
            /\ \A i \in DOMAIN log' : Terminal(i)' => log'[i].call # k
      BY <2>3 DEF Pending
    <2>7. \A e \in Dispatch : pc'[e] \in Resolving => Pending(held[e])'
      BY <2>1, <2>4, <2>6 DEF StreamInv, OwnInv, Pending
    <2>8. inFlight' # None => Pending(inFlight)'
      BY <2>1, <2>4, <2>6 DEF StreamInv, OwnInv, Pending
    <2>9. OwnInv'
      BY <2>1, <2>2, <2>3, <2>4, <2>5, <2>7, <2>8 DEF StreamInv, OwnInv
    <2> QED
      BY <2>3, <2>9 DEF StreamInv
  <1>4. ASSUME NEW d \in Dispatch, EmitTerminal(d) PROVE StreamInv'
    <2>1. /\ outcome[d] \in TerminalKind
          /\ Emit(d, outcome[d])
          /\ UNCHANGED <<counter, inFlight, held>>
          /\ pc[d] \in Resolving
          /\ ~Holds(d)'
          /\ \A e \in Dispatch : e # d => pc'[e] = pc[e]
      BY <1>4 DEF EmitTerminal, Go, localVars, Holds, Announcing, Resolving, TypeOK
    <2>2. Pending(held[d]) /\ Holds(d)
      BY <2>1 DEF StreamInv, OwnInv, Holds
    <2>3. /\ CallIdsUnique'
          /\ TerminalAfterInvoked'
          /\ \A i \in DOMAIN log' : log'[i].call = held[d] \/ log'[i].call < counter
          /\ \A c \in Nat : c # held[d] /\ Unseen(c) => Unseen(c)'
          /\ \A c \in Nat : c # held[d] /\ Pending(c) => Pending(c)'
      BY <2>1, <2>2, Resolved
    <2>4. /\ held \in [Dispatch -> Nat]
          /\ inFlight \in Nat \cup {None}
          /\ held[d] # inFlight
          /\ \A e \in Dispatch : Holds(e)' => e # d /\ Holds(e) /\ held[e] # held[d]
      BY <2>1, <2>2 DEF TypeOK, Holds, StreamInv, OwnInv
    <2>5. \A k \in Nat : k # held[d] /\ Unseen(k) => \A i \in DOMAIN log' : log'[i].call # k
      BY <2>3 DEF Unseen
    <2>6. \A k \in Nat : k # held[d] /\ Pending(k) =>
            /\ \E i \in DOMAIN log' : Invoked(i)' /\ log'[i].call = k
            /\ \A i \in DOMAIN log' : Terminal(i)' => log'[i].call # k
      BY <2>3 DEF Pending
    <2>7. \A e \in Dispatch : pc'[e] \in Announcing => Unseen(held[e])'
      BY <2>1, <2>4, <2>5 DEF StreamInv, OwnInv, Unseen, Holds
    <2>8. \A e \in Dispatch : pc'[e] \in Resolving => Pending(held[e])'
      BY <2>1, <2>4, <2>6 DEF StreamInv, OwnInv, Pending, Holds
    <2>9. inFlight' # None => Pending(inFlight)'
      BY <2>1, <2>4, <2>6 DEF StreamInv, OwnInv, Pending
    <2>10. OwnInv'
      BY <2>1, <2>2, <2>3, <2>4, <2>7, <2>8, <2>9 DEF StreamInv, OwnInv
    <2> QED
      BY <2>3, <2>10 DEF StreamInv
  <1>5. ASSUME NEW d \in Dispatch, SetInFlight(d) PROVE StreamInv'
    <2>1. /\ UNCHANGED <<counter, log, held>>
          /\ inFlight' = held[d]
          /\ pc[d] \in Resolving
          /\ ~Holds(d)'
          /\ \A e \in Dispatch : e # d => pc'[e] = pc[e]
      BY <1>5 DEF SetInFlight, Go, localVars, Holds, Announcing, Resolving, TypeOK
    <2>2. Pending(held[d])' /\ Holds(d) /\ held[d] < counter
      BY <2>1, Silent DEF StreamInv, OwnInv, Holds
    <2>3. \A e \in Dispatch : Holds(e)' => e # d /\ Holds(e) /\ held[e] # held[d]
      BY <2>1, <2>2 DEF Holds, StreamInv, OwnInv
    <2>4. \A e \in Dispatch : pc'[e] \in Announcing => Unseen(held[e])'
      BY <2>1, <2>3, Silent DEF Holds, StreamInv, OwnInv
    <2>5. \A e \in Dispatch : pc'[e] \in Resolving => Pending(held[e])'
      BY <2>1, <2>3, Silent DEF Holds, StreamInv, OwnInv
    <2>6. Pending(inFlight)'
      BY <2>1, <2>2
    <2>7. OwnInv'
      BY <2>1, <2>2, <2>3, <2>4, <2>5, <2>6 DEF StreamInv, OwnInv
    <2> QED
      BY <2>1, <2>7, Silent DEF StreamInv
  <1>6. ASSUME NEW d \in Dispatch, TakeInFlight(d) PROVE StreamInv'
    <2>1. /\ UNCHANGED <<counter, log>>
          /\ inFlight \in Nat
          /\ inFlight' = None
          /\ held' = [held EXCEPT ![d] = inFlight]
          /\ held \in [Dispatch -> Nat]
          /\ pc'[d] = "terminal"
          /\ \A e \in Dispatch : e # d => pc'[e] = pc[e]
      BY <1>6 DEF TakeInFlight, Go, TypeOK
    <2>2. /\ held'[d] = inFlight
          /\ \A e \in Dispatch : e # d => held'[e] = held[e] /\ (Holds(e)' <=> Holds(e))
      BY <2>1 DEF Holds
    <2>3. Pending(inFlight) /\ inFlight < counter
      BY <2>1, NoneAssumption DEF StreamInv, OwnInv
    <2>4. \A e \in Dispatch : Holds(e)' => held'[e] \in Nat
      BY <2>1
    <2>5. \A e, f \in Dispatch : Holds(e)' /\ Holds(f)' /\ e # f => held'[e] # held'[f]
      BY <2>2 DEF StreamInv, OwnInv
    <2>6. \A e \in Dispatch : pc'[e] \in Announcing => Unseen(held[e])'
      BY <2>1, <2>2, Silent DEF StreamInv, OwnInv, Announcing
    <2>7. \A e \in Dispatch : pc'[e] \in Resolving => Pending(held[e])'
      BY <2>1, <2>2, <2>3, Silent DEF StreamInv, OwnInv
    <2>8. OwnInv'
      BY <2>1, <2>2, <2>3, <2>4, <2>5, <2>6, <2>7, NoneAssumption DEF StreamInv, OwnInv
    <2> QED
      BY <2>1, <2>8, Silent DEF StreamInv
  <1>7. ASSUME NEW d \in Dispatch, NothingInFlight(d) \/ Kernel(d) \/ Cancel(d)
        PROVE  StreamInv'
    <2>1. UNCHANGED <<hookVars, held>>
      BY <1>7 DEF NothingInFlight, Kernel, Start, NextInvocation, Finish, GatePasses,
                  GateSkips, GateTerminates, ToolReturns, ToolFails, Report, Cancel,
                  localVars
    <2>2. ~Holds(d)' /\ \A e \in Dispatch : e # d => pc'[e] = pc[e]
      BY <1>7 DEF NothingInFlight, Kernel, Start, NextInvocation, Finish, GatePasses,
                  GateSkips, GateTerminates, ToolReturns, ToolFails, Cancel, Go,
                  Holds, Announcing, Resolving, TypeOK
    <2> QED
      BY <2>1, <2>2, Bystander
  <1> QED
    BY <1>1, <1>2, <1>3, <1>4, <1>5, <1>6, <1>7 DEF Next, Hook

\* The ids in the stream, in hand and in flight are owned as described.
THEOREM StreamInvariant == Spec => []StreamInv
  <1>1. Init => StreamInv
    BY DEF Init, StreamInv, OwnInv, Holds, Announcing, Resolving, CallIdsUnique,
           TerminalAfterInvoked
  <1> QED
    BY <1>1, Typing, StreamStep, PTL DEF Spec

\* However many dispatches share the hook, and however they interleave or are
\* dropped, no call id is announced twice or resolved twice, and every terminal
\* event comes after the tool.invoked with its id.
THEOREM CallsPair == Spec => []CallsArePairable
  <1>1. StreamInv => CallsArePairable
    BY DEF StreamInv, CallsArePairable
  <1> QED
    BY <1>1, StreamInvariant, PTL

(***************************************************************************)
(* One dispatch at a time, run to its end                                  *)
(***************************************************************************)

\* The observer has announced the invocation and waits for its fate.
Waits(d) == pc[d] = "tool" \/ (pc[d] = "gate" /\ ~gateFirst[d])

\* The call id c was announced for the invocation d is working on.
Announces(d, c) ==
  \A i \in DOMAIN log : Invoked(i) /\ log[i].call = c => log[i].of = <<d, nth[d]>>

OneAtATime == \A d, e \in Dispatch : Active(d) /\ Active(e) => d = e

SlotIsOwn ==
  inFlight # None =>
    \E d \in Dispatch : (Waits(d) \/ pc[d] = "resolve") /\ Announces(d, inFlight)

WaitsWithId == \A d \in Dispatch : Waits(d) => inFlight # None

ResolvesOwn == \A d \in Dispatch : pc[d] \in Resolving => Announces(d, held[d])

CompletesTimed ==
  \A d \in Dispatch : outcome[d] = "completed" =>
    /\ pc[d] = "resolve" => inFlight # None
    /\ pc[d] \notin {"synthetic", "announce"}
    /\ pc[d] = "terminal" => timed[d]

SequentialInv ==
  /\ OneAtATime
  /\ SlotIsOwn
  /\ WaitsWithId
  /\ ResolvesOwn
  /\ CompletesTimed
  /\ OwnPairs
  /\ CompletionsTimed

\* At most one dispatch is active, and only a dispatch that starts becomes so.
LEMMA OnlyOne ==
  ASSUME ~overlapped', TypeOK, OneAtATime, NEW d \in Dispatch,
         Hook(d) \/ Kernel(d)
  PROVE  /\ OneAtATime'
         /\ \A e \in Dispatch : e # d => ~Active(e) /\ ~Active(e)'
         /\ \A e \in Dispatch : e # d => pc'[e] = pc[e]
  <1>1. \A e \in Dispatch : e # d => pc'[e] = pc[e]
    BY DEF Hook, Kernel, BeforeInvocation, EmitInvoked, SetInFlight, TakeInFlight,
           NothingInFlight, SyntheticCallId, EmitSynthetic, EmitTerminal, Start,
           NextInvocation, Finish, GatePasses, GateSkips, GateTerminates,
           ToolReturns, ToolFails, Go, TypeOK
  <1>2. \A e \in Dispatch : e # d => ~Active(e)
    <2>1. CASE Start(d)
      BY <2>1 DEF Start, Active
    <2>2. CASE ~Start(d)
      <3>1. Active(d)
        BY <2>2 DEF Hook, Kernel, BeforeInvocation, EmitInvoked, SetInFlight,
                    TakeInFlight, NothingInFlight, SyntheticCallId, EmitSynthetic,
                    EmitTerminal, NextInvocation, Finish, GatePasses, GateSkips,
                    GateTerminates, ToolReturns, ToolFails, Go, Active, Over
      <3> QED
        BY <3>1 DEF OneAtATime
    <2> QED
      BY <2>1, <2>2
  <1> QED
    BY <1>1, <1>2 DEF OneAtATime, Active

\* What SequentialInv says of the stream and of the dispatch at work.
Own(d) ==
  /\ inFlight # None => (Waits(d) \/ pc[d] = "resolve") /\ Announces(d, inFlight)
  /\ Waits(d) => inFlight # None
  /\ pc[d] \in Resolving => Announces(d, held[d])
  /\ outcome[d] = "completed" =>
       /\ pc[d] = "resolve" => inFlight # None
       /\ pc[d] \notin {"synthetic", "announce"}
       /\ pc[d] = "terminal" => timed[d]
  /\ OwnPairs
  /\ CompletionsTimed

\* Whoever is not at work neither waits nor resolves: the conditions concern
\* the one dispatch that takes the step, before the step and after it.
LEMMA OnlyOwn ==
  ASSUME NEW d \in Dispatch, OneAtATime, OneAtATime',
         \A e \in Dispatch : e # d => ~Active(e) /\ ~Active(e)'
  PROVE  (SequentialInv => Own(d)) /\ (Own(d)' => SequentialInv')
  <1>1. \A e \in Dispatch : e # d => pc[e] \in {"new"} \cup Over
    BY DEF Active
  <1>2. \A e \in Dispatch : e # d => pc'[e] \in {"new"} \cup Over
    BY DEF Active
  <1>3. SequentialInv => Own(d)
    BY <1>1 DEF SequentialInv, Own, SlotIsOwn, WaitsWithId, ResolvesOwn,
                CompletesTimed, Waits, Over
  <1>4. ASSUME Own(d)' PROVE SequentialInv'
    <2>1. SlotIsOwn' /\ WaitsWithId'
      BY <1>2, <1>4 DEF Own, SlotIsOwn, WaitsWithId, Waits, Over
    <2>2. ResolvesOwn' /\ CompletesTimed'
      BY <1>2, <1>4 DEF Own, ResolvesOwn, CompletesTimed, Resolving, Over
    <2> QED
      BY <1>4, <2>1, <2>2 DEF Own, SequentialInv
  <1> QED
    BY <1>3, <1>4

\* A step that emits nothing and keeps d at its invocation.
LEMMA SilentOwn ==
  ASSUME NEW d \in Dispatch, UNCHANGED <<log, nth>>
  PROVE  /\ \A c : Announces(d, c) <=> Announces(d, c)'
         /\ OwnPairs <=> OwnPairs'
         /\ CompletionsTimed <=> CompletionsTimed'
  BY DEF Announces, OwnPairs, CompletionsTimed, Invoked, Terminal

\* Announcing the invocation d works on, under an id nobody has seen.
LEMMA AnnouncesOwn ==
  ASSUME TypeOK, NEW d \in Dispatch, Emit(d, "invoked"), Unseen(held[d]),
         UNCHANGED <<held, nth>>, Own(d)
  PROVE  /\ Announces(d, held[d])'
         /\ OwnPairs'
         /\ CompletionsTimed'
  <1> DEFINE n == Len(log)
  <1>1. "invoked" \in {"invoked"} \cup TerminalKind
    OBVIOUS
  <1>2. /\ DOMAIN log = 1..n /\ n \in Nat
        /\ DOMAIN log' = 1..(n + 1)
        /\ \A i \in 1..n : log'[i] = log[i]
        /\ log'[n + 1] = EventOf(d, "invoked")
    BY <1>1, Emitted
  <1> HIDE DEF n
  <1>3. /\ log'[n + 1].kind = "invoked"
        /\ log'[n + 1].call = held[d]
        /\ log'[n + 1].of = <<d, nth[d]>>
    BY <1>2 DEF EventOf
  <1>4. \A i \in 1..n : log[i].call # held[d]
    BY <1>2 DEF Unseen
  <1>5. Announces(d, held[d])'
    BY <1>2, <1>3, <1>4 DEF Announces, Invoked
  <1>6. OwnPairs'
    <2> SUFFICES ASSUME NEW i \in 1..(n + 1), NEW j \in 1..(n + 1),
                        log'[i].kind = "invoked", log'[j].kind \in TerminalKind,
                        log'[i].call = log'[j].call
                 PROVE  log'[i].of = log'[j].of
      BY <1>2 DEF OwnPairs, Invoked, Terminal
    <2>1. j \in 1..n
      BY <1>2, <1>3 DEF TerminalKind
    <2>2. i \in 1..n
      BY <1>2, <1>3, <1>4, <2>1
    <2> QED
      BY <1>2, <2>1, <2>2 DEF Own, OwnPairs, Invoked, Terminal
  <1>7. CompletionsTimed'
    BY <1>2, <1>3 DEF Own, CompletionsTimed
  <1> QED
    BY <1>5, <1>6, <1>7

\* Resolving the invocation d works on.
LEMMA ResolvesItsOwn ==
  ASSUME TypeOK, NEW d \in Dispatch, NEW kind \in TerminalKind, Emit(d, kind),
         Announces(d, held[d]), Own(d), kind = "completed" => timed[d]
  PROVE  OwnPairs' /\ CompletionsTimed'
  <1> DEFINE n == Len(log)
  <1>1. kind \in {"invoked"} \cup TerminalKind
    OBVIOUS
  <1>2. /\ DOMAIN log = 1..n /\ n \in Nat
        /\ DOMAIN log' = 1..(n + 1)
        /\ \A i \in 1..n : log'[i] = log[i]
        /\ log'[n + 1] = EventOf(d, kind)
    BY <1>1, Emitted
  <1> HIDE DEF n
  <1>3. /\ log'[n + 1].kind = kind
        /\ log'[n + 1].call = held[d]
        /\ log'[n + 1].of = <<d, nth[d]>>
        /\ log'[n + 1].timed = timed[d]
    BY <1>2 DEF EventOf
  <1>4. OwnPairs'
    <2> SUFFICES ASSUME NEW i \in 1..(n + 1), NEW j \in 1..(n + 1),
                        log'[i].kind = "invoked", log'[j].kind \in TerminalKind,
                        log'[i].call = log'[j].call
                 PROVE  log'[i].of = log'[j].of
      BY <1>2 DEF OwnPairs, Invoked, Terminal
    <2>1. i \in 1..n
      BY <1>2, <1>3 DEF TerminalKind
    <2>2. CASE j \in 1..n
      BY <1>2, <2>1, <2>2 DEF Own, OwnPairs, Invoked, Terminal
    <2>3. CASE j = n + 1
      BY <1>2, <1>3, <2>1, <2>3 DEF Announces, Invoked
    <2> QED
      BY <1>2, <2>2, <2>3
  <1>5. CompletionsTimed'
    BY <1>2, <1>3 DEF Own, CompletionsTimed
  <1> QED
    BY <1>4, <1>5

\* Every step of a dispatch that is not dropped keeps its promises.
LEMMA SequentialStep ==
  ASSUME TypeOK, StreamInv, SequentialInv, OneByOne', [Next]_vars
  PROVE  SequentialInv'
  <1>1. CASE UNCHANGED vars
    BY <1>1 DEF vars, SequentialInv, OneAtATime, Active, SlotIsOwn, WaitsWithId,
                ResolvesOwn, CompletesTimed, Waits, Announces,
                OwnPairs, CompletionsTimed, Invoked, Terminal
  <1>2. ASSUME NEW d \in Dispatch, Hook(d) \/ Kernel(d) PROVE SequentialInv'
    <2>1. Own(d) /\ (Own(d)' => SequentialInv')
      BY <1>2, OnlyOne, OnlyOwn DEF SequentialInv, OneByOne
    <2>2. /\ pc[d] \in Announcing => Unseen(held[d])
          /\ pc \in [Dispatch -> Where]
      BY DEF StreamInv, OwnInv, TypeOK
    <2>3. CASE BeforeInvocation(d) \/ SyntheticCallId(d)
      <3>1. UNCHANGED <<log, nth>> /\ UNCHANGED <<inFlight, outcome, gateFirst>>
        BY <2>3 DEF BeforeInvocation, SyntheticCallId, NextCallId, kernelVars
      <3>2. \/ pc[d] = "before" /\ pc'[d] = "invoked"
            \/ pc[d] = "synthetic" /\ pc'[d] = "announce"
        BY <2>2, <2>3 DEF BeforeInvocation, SyntheticCallId, Go
      <3>3. Own(d)'
        BY <2>1, <3>1, <3>2, SilentOwn DEF Own, Waits, Resolving
      <3> QED
        BY <2>1, <3>3
    <2>4. CASE EmitInvoked(d) \/ EmitSynthetic(d)
      <3>1. /\ Emit(d, "invoked")
            /\ UNCHANGED <<inFlight, held, timed, gateFirst, nth, outcome>>
            /\ \/ pc[d] = "invoked" /\ pc'[d] = "remember"
               \/ pc[d] = "announce" /\ pc'[d] = "terminal"
        BY <2>2, <2>4 DEF EmitInvoked, EmitSynthetic, Go, localVars, kernelVars
      <3>2. /\ Announces(d, held[d])'
            /\ OwnPairs'
            /\ CompletionsTimed'
        BY <2>1, <2>2, <3>1, AnnouncesOwn DEF Announcing
      <3>3. Own(d)'
        BY <2>1, <3>1, <3>2 DEF Own, Waits
      <3> QED
        BY <2>1, <3>3
    <2>5. CASE SetInFlight(d)
      <3>1. /\ UNCHANGED <<log, nth>> /\ UNCHANGED <<gateFirst, outcome>>
            /\ inFlight' = held[d] /\ held[d] # None
            /\ pc[d] = "remember"
            /\ pc'[d] = IF gateFirst[d] THEN "tool" ELSE "gate"
        BY <2>2, <2>5, NoneAssumption DEF SetInFlight, Go, localVars, kernelVars, TypeOK
      <3>2. Announces(d, held[d]) /\ Waits(d)'
        BY <2>1, <3>1 DEF Own, Resolving, Waits
      <3>3. Own(d)'
        BY <2>1, <3>1, <3>2, SilentOwn DEF Own, Waits, Resolving
      <3> QED
        BY <2>1, <3>3
    <2>6. CASE TakeInFlight(d)
      <3>1. /\ UNCHANGED <<log, nth>>
            /\ inFlight # None /\ inFlight' = None
            /\ held'[d] = inFlight /\ timed'[d]
            /\ pc'[d] = "terminal"
        BY <2>2, <2>6 DEF TakeInFlight, Go, kernelVars, TypeOK
      <3>2. Announces(d, inFlight)
        BY <2>1, <3>1 DEF Own
      <3>3. Announces(d, held[d])'
        BY <3>1, <3>2 DEF Announces, Invoked
      <3>4. Own(d)'
        BY <2>1, <3>1, <3>3, SilentOwn DEF Own, Waits
      <3> QED
        BY <2>1, <3>4
    <2>7. CASE NothingInFlight(d)
      <3>1. /\ UNCHANGED <<log, nth>> /\ UNCHANGED <<inFlight, outcome>>
            /\ inFlight = None
            /\ pc[d] = "resolve" /\ pc'[d] = "synthetic"
        BY <2>2, <2>7 DEF NothingInFlight, Go, hookVars, kernelVars
      <3>2. Own(d)'
        BY <2>1, <3>1, SilentOwn DEF Own, Waits, Resolving
      <3> QED
        BY <2>1, <3>2
    <2>8. CASE EmitTerminal(d)
      <3>1. /\ outcome[d] \in TerminalKind /\ Emit(d, outcome[d])
            /\ UNCHANGED inFlight
            /\ pc[d] = "terminal" /\ pc'[d] \in {"failed", "ready"}
        BY <2>2, <2>8 DEF EmitTerminal, Go, localVars, TypeOK
      <3>2. /\ Announces(d, held[d])
            /\ outcome[d] = "completed" => timed[d]
            /\ inFlight = None
        BY <2>1, <3>1 DEF Own, Resolving, Waits
      <3>3. OwnPairs' /\ CompletionsTimed'
        BY <2>1, <3>1, <3>2, ResolvesItsOwn
      <3>4. Own(d)'
        BY <3>1, <3>2, <3>3 DEF Own, Waits, Resolving
      <3> QED
        BY <2>1, <3>4
    <2>9. CASE Start(d) \/ Finish(d) \/ GatePasses(d)
      <3>1. /\ UNCHANGED <<log, nth>> /\ UNCHANGED <<inFlight, gateFirst, outcome>>
            /\ \/ pc[d] \in {"new", "ready"} /\ pc'[d] \in {"ready", "finished"}
               \/ pc[d] = "gate" /\ pc'[d] = IF gateFirst[d] THEN "before" ELSE "tool"
        BY <2>2, <2>9 DEF Start, Finish, GatePasses, Go, hookVars, kernelVars
      <3>2. Own(d)'
        BY <2>1, <3>1, SilentOwn DEF Own, Waits, Resolving
      <3> QED
        BY <2>1, <3>2
    <2>10. CASE NextInvocation(d)
      <3>1. /\ UNCHANGED <<inFlight, log, gateFirst, outcome>>
            /\ pc[d] = "ready" /\ pc'[d] = IF gateFirst[d] THEN "gate" ELSE "before"
        BY <2>2, <2>10 DEF NextInvocation, Go, hookVars
      <3>2. Own(d)'
        BY <2>1, <3>1 DEF Own, Waits, Resolving, OwnPairs,
                          CompletionsTimed, Invoked, Terminal
      <3> QED
        BY <2>1, <3>2
    <2>11. CASE GateSkips(d) \/ GateTerminates(d) \/ ToolReturns(d) \/ ToolFails(d)
      <3>1. /\ UNCHANGED <<log, nth>> /\ UNCHANGED <<inFlight, gateFirst>>
            /\ pc'[d] = "resolve"
            /\ \/ pc[d] = "gate" /\ outcome'[d] # "completed"
               \/ pc[d] = "tool"
        BY <2>2, <2>11 DEF GateSkips, GateTerminates, ToolReturns, ToolFails, Report,
                           Go, hookVars, TypeOK
      <3>2. Own(d)'
        BY <2>1, <3>1, SilentOwn DEF Own, Waits, Resolving
      <3> QED
        BY <2>1, <3>2
    <2> QED
      BY <1>2, <2>3, <2>4, <2>5, <2>6, <2>7, <2>8, <2>9, <2>10, <2>11 DEF Hook, Kernel
  <1>3. ASSUME NEW d \in Dispatch, Cancel(d) PROVE SequentialInv'
    <2>1. pc'[d] = "dropped"
      BY <1>3 DEF Cancel, Go, TypeOK
    <2> QED
      BY <2>1 DEF OneByOne
  <1> QED
    BY <1>1, <1>2, <1>3 DEF Next

\* Dispatches that have overlapped or been dropped stay so.
LEMMA StaysOneByOne ==
  ASSUME TypeOK, [Next]_vars, OneByOne'
  PROVE  OneByOne
  <1>1. ASSUME NEW d \in Dispatch, Hook(d) \/ Kernel(d) \/ Cancel(d), overlapped
        PROVE  overlapped'
    BY <1>1 DEF Hook, Kernel, BeforeInvocation, EmitInvoked, SetInFlight, TakeInFlight,
           NothingInFlight, SyntheticCallId, EmitSynthetic, EmitTerminal, Start,
           NextInvocation, Finish, GatePasses, GateSkips, GateTerminates,
           ToolReturns, ToolFails, Report, Cancel, kernelVars, TypeOK
  <1>2. ASSUME NEW d \in Dispatch, Hook(d) \/ Kernel(d) \/ Cancel(d),
               NEW e \in Dispatch, pc[e] = "dropped"
        PROVE  pc'[e] = "dropped"
    BY <1>2 DEF Hook, Kernel, BeforeInvocation, EmitInvoked, SetInFlight, TakeInFlight,
           NothingInFlight, SyntheticCallId, EmitSynthetic, EmitTerminal, Start,
           NextInvocation, Finish, GatePasses, GateSkips, GateTerminates,
           ToolReturns, ToolFails, Cancel, Go, TypeOK
  <1> QED
    BY <1>1, <1>2 DEF OneByOne, Next, vars

\* As long as one dispatch runs at a time and nobody drops one, every terminal
\* event carries the call id announced for its own invocation, and every
\* completion is timed.
LEMMA SequentialInvariant == Spec => [](OneByOne => SequentialInv)
  <1>1. Init => SequentialInv
    BY DEF Init, SequentialInv, OneAtATime, Active, SlotIsOwn, WaitsWithId,
           ResolvesOwn, CompletesTimed, Waits, Resolving, OwnPairs, CompletionsTimed
  <1>2. TypeOK /\ StreamInv /\ (OneByOne => SequentialInv) /\ [Next]_vars
          => (OneByOne => SequentialInv)'
    BY SequentialStep, StaysOneByOne
  <1> QED
    BY <1>1, <1>2, Typing, StreamInvariant, PTL DEF Spec

\* One dispatch at a time, run to its end: the tool.invoked with the call id of
\* a terminal event is about the same invocation, and tool.completed has its
\* duration.
THEOREM TerminalsPair == Spec => []TerminalsAreOwn
  <1>1. (OneByOne => SequentialInv) => TerminalsAreOwn
    BY DEF SequentialInv, TerminalsAreOwn
  <1> QED
    BY <1>1, SequentialInvariant, PTL

(***************************************************************************)
(* One dispatch at a time: what an invocation has in the stream            *)
(***************************************************************************)

\* d has announced the invocation it is working on, and not resolved it.
IsAnnounced(d) ==
  \/ pc[d] \in {"remember", "terminal"}
  \/ Waits(d)
  \/ pc[d] = "resolve" /\ inFlight # None

\* d is working on no invocation.
Settled(d) == pc[d] \in {"new", "ready", "finished", "failed"}

IsInvoked(d, n)  == \E i \in DOMAIN log : Invoked(i) /\ log[i].of = <<d, n>>
IsResolved(d, n) == \E i \in DOMAIN log : Terminal(i) /\ log[i].of = <<d, n>>

\* The invocations of d that have their event in the stream by now.
DueInvoked(d)  == {n \in 1..nth[d] : n < nth[d] \/ Settled(d) \/ IsAnnounced(d)}
DueResolved(d) == {n \in 1..nth[d] : n < nth[d] \/ Settled(d)}

OncePerInvocation ==
  \A i, j \in DOMAIN log :
    log[i].of = log[j].of /\ (Invoked(i) <=> Invoked(j)) => i = j

AccountInv ==
  /\ OncePerInvocation
  /\ \A d \in Dispatch, n \in Nat :
       /\ IsInvoked(d, n) <=> n \in DueInvoked(d)
       /\ IsResolved(d, n) <=> n \in DueResolved(d)
  /\ \A d \in Dispatch : ~Settled(d) /\ pc[d] # "dropped" => nth[d] # 0

\* A step that emits nothing and moves no invocation on.
LEMMA SilentAccount ==
  ASSUME AccountInv, log' = log,
         \A e \in Dispatch : /\ DueInvoked(e)' = DueInvoked(e)
                             /\ DueResolved(e)' = DueResolved(e)
                             /\ ~Settled(e)' /\ pc'[e] # "dropped" => nth'[e] # 0
  PROVE  AccountInv'
  BY DEF AccountInv, OncePerInvocation, IsInvoked, IsResolved, Invoked, Terminal

\* The stream after an event of d about the invocation it is working on.
LEMMA EventCounts ==
  ASSUME TypeOK, NEW d \in Dispatch, NEW kind \in {"invoked"} \cup TerminalKind,
         Emit(d, kind), OncePerInvocation,
         kind = "invoked" => ~IsInvoked(d, nth[d]),
         kind # "invoked" => ~IsResolved(d, nth[d])
  PROVE  /\ OncePerInvocation'
         /\ \A e \in Dispatch, n \in Nat :
              /\ IsInvoked(e, n)' <=>
                   IsInvoked(e, n) \/ (kind = "invoked" /\ <<e, n>> = <<d, nth[d]>>)
              /\ IsResolved(e, n)' <=>
                   IsResolved(e, n) \/ (kind # "invoked" /\ <<e, n>> = <<d, nth[d]>>)
  <1> DEFINE m == Len(log)
  <1>1. /\ DOMAIN log = 1..m /\ m \in Nat
        /\ DOMAIN log' = 1..(m + 1)
        /\ \A i \in 1..m : log'[i] = log[i]
        /\ log'[m + 1] = EventOf(d, kind)
    BY Emitted
  <1> HIDE DEF m
  <1>2. log'[m + 1].kind = kind /\ log'[m + 1].of = <<d, nth[d]>>
    BY <1>1 DEF EventOf
  <1>3. \A i \in 1..m : log[i].kind \in {"invoked"} \cup TerminalKind
    BY <1>1, Entries
  <1>4. "invoked" \notin TerminalKind
    BY DEF TerminalKind
  <1>5. ASSUME NEW i \in 1..m, log[i].of = <<d, nth[d]>>
        PROVE  ~(log[i].kind = "invoked" <=> kind = "invoked")
    BY <1>1, <1>3, <1>5 DEF IsInvoked, IsResolved, Invoked, Terminal
  <1>6. OncePerInvocation'
    <2> SUFFICES ASSUME NEW i \in 1..(m + 1), NEW j \in 1..(m + 1),
                        log'[i].of = log'[j].of,
                        log'[i].kind = "invoked" <=> log'[j].kind = "invoked"
                 PROVE  i = j
      BY <1>1 DEF OncePerInvocation, Invoked
    <2>1. CASE i \in 1..m /\ j \in 1..m
      BY <1>1, <2>1 DEF OncePerInvocation, Invoked
    <2>2. CASE i = m + 1 /\ j \in 1..m
      BY <1>1, <1>2, <1>5, <2>2
    <2>3. CASE i \in 1..m /\ j = m + 1
      BY <1>1, <1>2, <1>5, <2>3
    <2> QED
      BY <1>1, <2>1, <2>2, <2>3
  <1>7. ASSUME NEW e \in Dispatch, NEW n \in Nat
        PROVE  /\ IsInvoked(e, n)' <=>
                    IsInvoked(e, n) \/ (kind = "invoked" /\ <<e, n>> = <<d, nth[d]>>)
               /\ IsResolved(e, n)' <=>
                    IsResolved(e, n) \/ (kind # "invoked" /\ <<e, n>> = <<d, nth[d]>>)
    BY <1>1, <1>2, <1>4 DEF IsInvoked, IsResolved, Invoked, Terminal
  <1> QED
    BY <1>6, <1>7

\* A step that announces, or resolves, the invocation d is working on.
LEMMA EventAccount ==
  ASSUME TypeOK, AccountInv, NEW d \in Dispatch,
         NEW kind \in {"invoked"} \cup TerminalKind, Emit(d, kind),
         DueInvoked(d)' = DueInvoked(d) \cup (IF kind = "invoked" THEN {nth[d]} ELSE {}),
         DueResolved(d)' = DueResolved(d) \cup (IF kind # "invoked" THEN {nth[d]} ELSE {}),
         kind = "invoked" => nth[d] \notin DueInvoked(d),
         kind # "invoked" => nth[d] \notin DueResolved(d),
         \A e \in Dispatch \ {d} : /\ DueInvoked(e)' = DueInvoked(e)
                                   /\ DueResolved(e)' = DueResolved(e),
         \A e \in Dispatch : ~Settled(e)' /\ pc'[e] # "dropped" => nth'[e] # 0
  PROVE  AccountInv'
  <1>1. nth[d] \in Nat
    BY DEF TypeOK
  <1>2. /\ kind = "invoked" => ~IsInvoked(d, nth[d])
        /\ kind # "invoked" => ~IsResolved(d, nth[d])
        /\ OncePerInvocation
    BY <1>1 DEF AccountInv
  <1>3. /\ OncePerInvocation'
        /\ \A e \in Dispatch, n \in Nat :
             /\ IsInvoked(e, n)' <=>
                  IsInvoked(e, n) \/ (kind = "invoked" /\ <<e, n>> = <<d, nth[d]>>)
             /\ IsResolved(e, n)' <=>
                  IsResolved(e, n) \/ (kind # "invoked" /\ <<e, n>> = <<d, nth[d]>>)
    BY <1>2, EventCounts
  <1>4. ASSUME NEW e \in Dispatch, NEW n \in Nat
        PROVE  /\ IsInvoked(e, n)' <=> n \in DueInvoked(e)'
               /\ IsResolved(e, n)' <=> n \in DueResolved(e)'
    <2>1. /\ IsInvoked(e, n) <=> n \in DueInvoked(e)
          /\ IsResolved(e, n) <=> n \in DueResolved(e)
      BY DEF AccountInv
    <2>2. CASE e = d
      BY <1>3, <2>1, <2>2
    <2>3. CASE e # d
      BY <1>3, <2>1, <2>3
    <2> QED
      BY <2>2, <2>3
  <1> QED
    BY <1>3, <1>4 DEF AccountInv

\* Whoever is not at work has nothing due.
LEMMA BystanderAccount ==
  ASSUME NEW e \in Dispatch, ~Active(e), pc'[e] = pc[e], nth'[e] = nth[e]
  PROVE  DueInvoked(e)' = DueInvoked(e) /\ DueResolved(e)' = DueResolved(e)
  <1>1. ~IsAnnounced(e) /\ ~IsAnnounced(e)'
    BY DEF Active, Over, IsAnnounced, Waits
  <1>2. Settled(e)' <=> Settled(e)
    BY DEF Settled
  <1> QED
    BY <1>1, <1>2 DEF DueInvoked, DueResolved

LEMMA AccountStep ==
  ASSUME TypeOK, StreamInv, SequentialInv, AccountInv, OneByOne', [Next]_vars
  PROVE  AccountInv'
  <1>1. CASE UNCHANGED vars
    <2>1. \A e \in Dispatch : /\ DueInvoked(e)' = DueInvoked(e)
                              /\ DueResolved(e)' = DueResolved(e)
                              /\ Settled(e)' <=> Settled(e)
      BY <1>1 DEF vars, DueInvoked, DueResolved, Settled, IsAnnounced, Waits
    <2> QED
      BY <1>1, <2>1, SilentAccount DEF vars, AccountInv
  <1>2. ASSUME NEW d \in Dispatch, Hook(d) \/ Kernel(d) PROVE AccountInv'
    <2>1. /\ \A e \in Dispatch : e # d => ~Active(e) /\ ~Active(e)'
          /\ \A e \in Dispatch : e # d => pc'[e] = pc[e]
          /\ OneAtATime'
      BY <1>2, OnlyOne DEF SequentialInv, OneByOne
    <2>2. Own(d)
      BY <2>1, OnlyOwn DEF SequentialInv
    <2>3. /\ pc \in [Dispatch -> Where] /\ nth \in [Dispatch -> Nat]
          /\ nth[d] \in Nat /\ ~Settled(d) /\ pc[d] # "dropped" => nth[d] # 0
      BY DEF TypeOK, AccountInv
    <2>4. \A e \in Dispatch : e # d => nth'[e] = nth[e]
      BY <1>2, <2>3 DEF Hook, Kernel, BeforeInvocation, EmitInvoked, SetInFlight,
         TakeInFlight, NothingInFlight, SyntheticCallId, EmitSynthetic, EmitTerminal,
         Start, NextInvocation, Finish, GatePasses, GateSkips, GateTerminates,
         ToolReturns, ToolFails, Report, kernelVars
    <2>5. \A e \in Dispatch \ {d} : /\ DueInvoked(e)' = DueInvoked(e)
                                    /\ DueResolved(e)' = DueResolved(e)
                                    /\ ~Settled(e)' /\ pc'[e] # "dropped" => nth'[e] # 0
      BY <2>1, <2>4, BystanderAccount DEF Settled, AccountInv
    <2>6. ASSUME log' = log, nth'[d] = nth[d], Settled(d)' <=> Settled(d),
                 IsAnnounced(d)' <=> IsAnnounced(d), pc[d] # "dropped"
          PROVE  AccountInv'
      <3>1. DueInvoked(d)' = DueInvoked(d) /\ DueResolved(d)' = DueResolved(d)
        BY <2>6 DEF DueInvoked, DueResolved
      <3> QED
        BY <2>3, <2>5, <2>6, <3>1, SilentAccount
    <2>7. CASE BeforeInvocation(d) \/ SyntheticCallId(d)
      <3>1. /\ log' = log /\ nth' = nth
            /\ \/ pc[d] = "before" /\ pc'[d] = "invoked"
               \/ pc[d] = "synthetic" /\ pc'[d] = "announce"
        BY <2>3, <2>7 DEF BeforeInvocation, SyntheticCallId, NextCallId, Go, kernelVars
      <3> QED
        BY <2>6, <3>1 DEF Settled, IsAnnounced, Waits
    <2>8. CASE EmitInvoked(d) \/ EmitSynthetic(d)
      <3>1. /\ Emit(d, "invoked") /\ nth' = nth
            /\ \/ pc[d] = "invoked" /\ pc'[d] = "remember"
               \/ pc[d] = "announce" /\ pc'[d] = "terminal"
        BY <2>3, <2>8 DEF EmitInvoked, EmitSynthetic, Go, kernelVars
      <3>2. /\ ~Settled(d) /\ ~Settled(d)' /\ ~IsAnnounced(d) /\ IsAnnounced(d)'
            /\ pc[d] # "dropped"
        BY <3>1 DEF Settled, IsAnnounced, Waits
      <3>3. nth[d] \in 1..nth[d]
        BY <2>3, <3>2
      <3>4. /\ DueInvoked(d)' = DueInvoked(d) \cup {nth[d]}
            /\ DueResolved(d)' = DueResolved(d)
            /\ nth[d] \notin DueInvoked(d)
        BY <2>3, <3>1, <3>2, <3>3 DEF DueInvoked, DueResolved
      <3>5. "invoked" \in {"invoked"} \cup TerminalKind
        OBVIOUS
      <3>6. \A e \in Dispatch : ~Settled(e)' /\ pc'[e] # "dropped" => nth'[e] # 0
        BY <2>3, <2>5, <3>1, <3>2
      <3> QED
        BY <2>5, <3>1, <3>4, <3>5, <3>6, EventAccount
    <2>9. CASE SetInFlight(d)
      <3>1. /\ log' = log /\ nth' = nth /\ gateFirst' = gateFirst /\ pc[d] = "remember"
            /\ pc'[d] = IF gateFirst[d] THEN "tool" ELSE "gate"
        BY <2>3, <2>9 DEF SetInFlight, Go, kernelVars
      <3> QED
        BY <2>6, <3>1 DEF Settled, IsAnnounced, Waits
    <2>10. CASE TakeInFlight(d)
      <3>1. /\ log' = log /\ nth' = nth /\ inFlight # None
            /\ pc[d] = "resolve" /\ pc'[d] = "terminal"
        BY <2>3, <2>10 DEF TakeInFlight, Go, kernelVars
      <3> QED
        BY <2>6, <3>1 DEF Settled, IsAnnounced
    <2>11. CASE NothingInFlight(d)
      <3>1. /\ log' = log /\ nth' = nth /\ inFlight = None
            /\ pc[d] = "resolve" /\ pc'[d] = "synthetic"
        BY <2>3, <2>11 DEF NothingInFlight, Go, hookVars, kernelVars
      <3> QED
        BY <2>6, <3>1 DEF Settled, IsAnnounced, Waits
    <2>12. CASE EmitTerminal(d)
      <3>1. /\ outcome[d] \in TerminalKind /\ Emit(d, outcome[d]) /\ nth' = nth
            /\ pc[d] = "terminal" /\ pc'[d] \in {"failed", "ready"}
        BY <2>3, <2>12 DEF EmitTerminal, Go, kernelVars, TypeOK
      <3>2. /\ ~Settled(d) /\ Settled(d)' /\ IsAnnounced(d)
            /\ pc[d] # "dropped"
        BY <3>1 DEF Settled, IsAnnounced, Waits
      <3>3. nth[d] \in 1..nth[d] /\ outcome[d] # "invoked"
        BY <2>3, <3>1, <3>2 DEF TerminalKind
      <3>4. /\ DueInvoked(d)' = DueInvoked(d)
            /\ DueResolved(d)' = DueResolved(d) \cup {nth[d]}
            /\ nth[d] \notin DueResolved(d)
        BY <2>3, <3>1, <3>2, <3>3 DEF DueInvoked, DueResolved
      <3>5. outcome[d] \in {"invoked"} \cup TerminalKind
        BY <3>1
      <3>6. \A e \in Dispatch : ~Settled(e)' /\ pc'[e] # "dropped" => nth'[e] # 0
        BY <2>5, <3>2
      <3> QED
        BY <2>5, <3>1, <3>3, <3>4, <3>5, <3>6, EventAccount
    <2>13. CASE Start(d) \/ Finish(d)
      <3>1. /\ log' = log /\ nth' = nth
            /\ pc[d] \in {"new", "ready"} /\ pc'[d] \in {"ready", "finished"}
        BY <2>3, <2>13 DEF Start, Finish, Go, hookVars, kernelVars
      <3> QED
        BY <2>6, <3>1 DEF Settled, IsAnnounced, Waits
    <2>14. CASE GatePasses(d)
      <3>1. /\ log' = log /\ nth' = nth /\ gateFirst' = gateFirst /\ pc[d] = "gate"
            /\ pc'[d] = IF gateFirst[d] THEN "before" ELSE "tool"
        BY <2>3, <2>14 DEF GatePasses, Go, hookVars, kernelVars
      <3> QED
        BY <2>6, <3>1 DEF Settled, IsAnnounced, Waits
    <2>15. CASE NextInvocation(d)
      <3>1. /\ log' = log /\ gateFirst' = gateFirst
            /\ nth'[d] = nth[d] + 1
            /\ pc[d] = "ready" /\ pc'[d] = IF gateFirst[d] THEN "gate" ELSE "before"
        BY <2>3, <2>15 DEF NextInvocation, Go, hookVars
      <3>2. Settled(d) /\ ~Settled(d)' /\ ~IsAnnounced(d)'
        BY <3>1 DEF Settled, IsAnnounced, Waits
      <3>3. DueInvoked(d)' = DueInvoked(d) /\ DueResolved(d)' = DueResolved(d)
        BY <2>3, <3>1, <3>2 DEF DueInvoked, DueResolved
      <3> QED
        BY <2>3, <2>5, <3>1, <3>3, SilentAccount
    <2>16. CASE GateSkips(d) \/ GateTerminates(d) \/ ToolReturns(d) \/ ToolFails(d)
      <3>1. /\ log' = log /\ nth' = nth /\ inFlight' = inFlight
            /\ pc[d] \in {"gate", "tool"} /\ pc'[d] = "resolve"
        BY <2>3, <2>16 DEF GateSkips, GateTerminates, ToolReturns, ToolFails, Report,
                           Go, hookVars
      <3>2. Waits(d) <=> inFlight # None
        BY <2>2, <3>1 DEF Own
      <3> QED
        BY <2>6, <3>1, <3>2 DEF Settled, IsAnnounced, Waits
    <2> QED
      BY <1>2, <2>7, <2>8, <2>9, <2>10, <2>11, <2>12, <2>13, <2>14, <2>15, <2>16
      DEF Hook, Kernel
  <1>3. ASSUME NEW d \in Dispatch, Cancel(d) PROVE AccountInv'
    <2>1. pc'[d] = "dropped"
      BY <1>3 DEF Cancel, Go, TypeOK
    <2> QED
      BY <2>1 DEF OneByOne
  <1> QED
    BY <1>1, <1>2, <1>3 DEF Next

LEMMA AccountInvariant == Spec => [](OneByOne => AccountInv)
  <1>1. Init => AccountInv
    <2> SUFFICES ASSUME Init PROVE AccountInv
      OBVIOUS
    <2>1. log = <<>> /\ \A d \in Dispatch : nth[d] = 0 /\ pc[d] = "new"
      BY DEF Init
    <2>2. ASSUME NEW d \in Dispatch
          PROVE  Settled(d) /\ DueInvoked(d) = {} /\ DueResolved(d) = {}
      <3>1. 1..nth[d] = {}
        BY <2>1
      <3> QED
        BY <2>1, <3>1 DEF Settled, DueInvoked, DueResolved
    <2> QED
      BY <2>1, <2>2 DEF AccountInv, OncePerInvocation, IsInvoked, IsResolved
  <1>2. TypeOK /\ StreamInv /\ (OneByOne => SequentialInv) /\ (OneByOne => AccountInv)
          /\ [Next]_vars => (OneByOne => AccountInv)'
    BY AccountStep, StaysOneByOne
  <1> QED
    BY <1>1, <1>2, Typing, StreamInvariant, SequentialInvariant, PTL DEF Spec

\* One dispatch at a time, run to its end: each invocation it reached has one
\* tool.invoked and one terminal event, whoever decided its fate.
THEOREM OverIsResolved == Spec => []OverMeansResolved
  <1>1. TypeOK /\ (OneByOne => AccountInv) => OverMeansResolved
    <2> SUFFICES ASSUME TypeOK, AccountInv, NEW d \in Dispatch,
                        pc[d] \in {"finished", "failed"}, NEW n \in 1..nth[d]
                 PROVE  /\ IsInvoked(d, n) /\ IsResolved(d, n)
                        /\ OncePerInvocation
      BY DEF OverMeansResolved, IsInvoked, IsResolved, OncePerInvocation
    <2>1. n \in Nat /\ nth[d] \in Nat
      BY DEF TypeOK
    <2>2. n \in DueInvoked(d) /\ n \in DueResolved(d)
      BY DEF DueInvoked, DueResolved, Settled
    <2> QED
      BY <2>1, <2>2 DEF AccountInv
  <1> QED
    BY <1>1, Typing, AccountInvariant, PTL
=============================================================================
