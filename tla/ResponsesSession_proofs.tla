------------------------ MODULE ResponsesSession_proofs ------------------------
(***************************************************************************)
(* Proofs about ResponsesSession, for every set of ids, usages, statuses   *)
(* and reasons and every bound.                                            *)
(*                                                                         *)
(* A call appends a few events to the log.  WellFormedAt states what makes *)
(* the event at one position legal, looking only at the events before it,  *)
(* so that appending never disturbs what is there.  The lemmas say which   *)
(* event may be appended to a well-formed log and in which condition it    *)
(* leaves the log; the step proofs only chain them.                        *)
(***************************************************************************)
EXTENDS ResponsesSession, FiniteSetTheorems, TLAPS

(***************************************************************************)
(* The condition of the first n events of a sequence l.                    *)
(***************************************************************************)
HasIn(l, n, kind) == \E i \in 1..n : l[i].kind = kind

\* The last turn event is a start with chain ancestor p.
OpenIn(l, n, p) ==
  \E i \in 1..n :
    /\ l[i].kind = "turn_started"
    /\ l[i].previous = p
    /\ \A k \in (i + 1)..n : l[k].kind \notin {"turn_started", "turn_completed"}

\* Every turn that starts also completes.
ClosedIn(l, n) ==
  \A i \in 1..n : l[i].kind = "turn_started" =>
    \E k \in (i + 1)..n : l[k].kind = "turn_completed"

WellFormedAt(l, j) ==
  LET n == j - 1 IN
  /\ l[j].kind = "session_started" => ~HasIn(l, n, "session_started")
  /\ l[j].kind \in {"turn_started", "turn_completed", "session_ended"}
       => HasIn(l, n, "session_started")
  /\ l[j].kind = "turn_started" => ClosedIn(l, n)
  /\ l[j].kind = "turn_completed" => l[j].timed /\ OpenIn(l, n, l[j].previous)
  /\ l[j].kind = "session_ended" =>
       ClosedIn(l, n) /\ ~HasIn(l, n, "session_ended")

WellFormed(l) == \A j \in 1..Len(l) : WellFormedAt(l, j)

Has(l, kind)   == HasIn(l, Len(l), kind)
OpenWith(l, p) == OpenIn(l, Len(l), p)
AllClosed(l)   == ClosedIn(l, Len(l))

(***************************************************************************)
(* What appending does                                                     *)
(***************************************************************************)

\* Two sequences that agree up to n are in the same condition up to n.
LEMMA SamePrefix ==
  ASSUME NEW l, NEW m, NEW n \in Nat, \A i \in 1..n : l[i] = m[i]
  PROVE  /\ \A kind : HasIn(l, n, kind) <=> HasIn(m, n, kind)
         /\ \A p : OpenIn(l, n, p) <=> OpenIn(m, n, p)
         /\ ClosedIn(l, n) <=> ClosedIn(m, n)
  <1>1. \A kind : HasIn(l, n, kind) <=> HasIn(m, n, kind)
    BY DEF HasIn
  <1>2. \A i \in 1..n : (i + 1)..n \subseteq 1..n
    OBVIOUS
  <1>3. ASSUME NEW p PROVE OpenIn(l, n, p) <=> OpenIn(m, n, p)
    BY <1>2 DEF OpenIn
  <1>4. ClosedIn(l, n) <=> ClosedIn(m, n)
    BY <1>2 DEF ClosedIn
  <1> QED
    BY <1>1, <1>3, <1>4

\* Whether a position is well-formed depends on the events up to it only.
LEMMA WellFormedPrefix ==
  ASSUME NEW l, NEW m, NEW j \in Nat \ {0}, \A i \in 1..j : l[i] = m[i],
         WellFormedAt(l, j)
  PROVE  WellFormedAt(m, j)
  <1>1. /\ j - 1 \in Nat
        /\ \A i \in 1..(j - 1) : l[i] = m[i]
        /\ l[j] = m[j]
    OBVIOUS
  <1>2. /\ \A kind : HasIn(l, j - 1, kind) <=> HasIn(m, j - 1, kind)
        /\ \A p : OpenIn(l, j - 1, p) <=> OpenIn(m, j - 1, p)
        /\ ClosedIn(l, j - 1) <=> ClosedIn(m, j - 1)
    BY <1>1, SamePrefix
  <1> QED
    BY <1>1, <1>2 DEF WellFormedAt

\* The entries of Append(l, e), for any sequence of records, and the condition
\* of its part that was there before.
LEMMA AppendEntries ==
  ASSUME NEW S, NEW l \in Seq(S), NEW e \in S
  PROVE  /\ Append(l, e) \in Seq(S)
         /\ Len(l) \in Nat
         /\ Len(Append(l, e)) = Len(l) + 1
         /\ \A i \in 1..Len(l) : Append(l, e)[i] = l[i]
         /\ Append(l, e)[Len(l) + 1] = e
  OBVIOUS

LEMMA AppendPrefix ==
  ASSUME NEW S, NEW l \in Seq(S), NEW e \in S
  PROVE  /\ \A kind : HasIn(Append(l, e), Len(l), kind) <=> Has(l, kind)
         /\ \A p : OpenIn(Append(l, e), Len(l), p) <=> OpenWith(l, p)
         /\ ClosedIn(Append(l, e), Len(l)) <=> AllClosed(l)
  <1>1. Len(l) \in Nat /\ \A i \in 1..Len(l) : Append(l, e)[i] = l[i]
    BY AppendEntries
  <1> DEFINE m == Append(l, e)
  <1> HIDE DEF m
  <1>2. \A i \in 1..Len(l) : m[i] = l[i]
    BY <1>1 DEF m
  <1>3. /\ \A kind : HasIn(m, Len(l), kind) <=> HasIn(l, Len(l), kind)
        /\ \A p : OpenIn(m, Len(l), p) <=> OpenIn(l, Len(l), p)
        /\ ClosedIn(m, Len(l)) <=> ClosedIn(l, Len(l))
    BY <1>1, <1>2, SamePrefix
  <1> QED
    BY <1>3 DEF m, Has, OpenWith, AllClosed

\* An appended event whose own position is well-formed keeps the log so.
LEMMA AppendWellFormed ==
  ASSUME NEW S, NEW l \in Seq(S), NEW e \in S, WellFormed(l),
         WellFormedAt(Append(l, e), Len(l) + 1)
  PROVE  WellFormed(Append(l, e))
  <1> SUFFICES ASSUME NEW j \in 1..Len(l)
               PROVE  WellFormedAt(Append(l, e), j)
    BY AppendEntries DEF WellFormed
  <1>1. \A i \in 1..j : l[i] = Append(l, e)[i]
    BY AppendEntries
  <1>2. WellFormedAt(l, j) /\ j \in Nat \ {0}
    BY DEF WellFormed
  <1> QED
    BY <1>1, <1>2, WellFormedPrefix

\* Announcing the session, once.
LEMMA AppendSessionStarted ==
  ASSUME NEW S, NEW l \in Seq(S), NEW e \in S, e.kind = "session_started",
         WellFormed(l), ~Has(l, "session_started")
  PROVE  /\ WellFormed(Append(l, e))
         /\ Has(Append(l, e), "session_started")
         /\ Has(Append(l, e), "session_ended") <=> Has(l, "session_ended")
         /\ AllClosed(l) => AllClosed(Append(l, e))
  <1>1. WellFormed(Append(l, e))
    BY AppendEntries, AppendPrefix, AppendWellFormed DEF WellFormedAt
  <1>2. AllClosed(l) => AllClosed(Append(l, e))
    BY AppendEntries DEF AllClosed, ClosedIn
  <1>3. /\ Has(Append(l, e), "session_started")
        /\ Has(Append(l, e), "session_ended") <=> Has(l, "session_ended")
    BY AppendEntries DEF Has, HasIn
  <1> QED
    BY <1>1, <1>2, <1>3

\* A turn may start once every earlier turn has completed.
LEMMA AppendTurnStarted ==
  ASSUME NEW S, NEW l \in Seq(S), NEW e \in S, e.kind = "turn_started",
         WellFormed(l), Has(l, "session_started"), AllClosed(l)
  PROVE  /\ WellFormed(Append(l, e))
         /\ OpenWith(Append(l, e), e.previous)
         /\ \A kind \in {"session_started", "session_ended"} :
              Has(Append(l, e), kind) <=> Has(l, kind)
  <1>1. WellFormed(Append(l, e))
    BY AppendEntries, AppendPrefix, AppendWellFormed DEF WellFormedAt
  <1>2. OpenWith(Append(l, e), e.previous)
    BY AppendEntries DEF OpenWith, OpenIn
  <1>3. \A kind \in {"session_started", "session_ended"} :
          Has(Append(l, e), kind) <=> Has(l, kind)
    BY AppendEntries DEF Has, HasIn
  <1> QED
    BY <1>1, <1>2, <1>3

\* A completion that repeats the ancestor of the open turn closes it.
LEMMA AppendTurnCompleted ==
  ASSUME NEW S, NEW l \in Seq(S), NEW e \in S, e.kind = "turn_completed", e.timed,
         WellFormed(l), Has(l, "session_started"), OpenWith(l, e.previous)
  PROVE  /\ WellFormed(Append(l, e))
         /\ AllClosed(Append(l, e))
         /\ \A kind \in {"session_started", "session_ended"} :
              Has(Append(l, e), kind) <=> Has(l, kind)
  <1>1. WellFormed(Append(l, e))
    BY AppendEntries, AppendPrefix, AppendWellFormed DEF WellFormedAt
  <1>2. AllClosed(Append(l, e))
    BY AppendEntries DEF AllClosed, ClosedIn
  <1>3. \A kind \in {"session_started", "session_ended"} :
          Has(Append(l, e), kind) <=> Has(l, kind)
    BY AppendEntries DEF Has, HasIn
  <1> QED
    BY <1>1, <1>2, <1>3

\* The session may end once, when every turn has completed.
LEMMA AppendSessionEnded ==
  ASSUME NEW S, NEW l \in Seq(S), NEW e \in S, e.kind = "session_ended",
         WellFormed(l), Has(l, "session_started"), ~Has(l, "session_ended"),
         AllClosed(l)
  PROVE  /\ WellFormed(Append(l, e))
         /\ AllClosed(Append(l, e))
         /\ Has(Append(l, e), "session_started")
         /\ Has(Append(l, e), "session_ended")
  <1>1. WellFormed(Append(l, e))
    BY AppendEntries, AppendPrefix, AppendWellFormed DEF WellFormedAt
  <1>2. AllClosed(Append(l, e))
    BY AppendEntries DEF AllClosed, ClosedIn
  <1>3. Has(Append(l, e), "session_started") /\ Has(Append(l, e), "session_ended")
    BY AppendEntries DEF Has, HasIn
  <1> QED
    BY <1>1, <1>2, <1>3

\* Hosted tool events leave the condition of the log alone, however many.
LEMMA AppendHosted ==
  ASSUME NEW S, NEW l \in Seq(S), NEW es \in Seq(S), WellFormed(l),
         \A i \in 1..Len(es) : es[i].kind \in {"hosted_invoked", "hosted_completed"}
  PROVE  /\ WellFormed(l \o es)
         /\ AllClosed(l) => AllClosed(l \o es)
         /\ \A p : OpenWith(l, p) => OpenWith(l \o es, p)
         /\ \A kind \in {"session_started", "session_ended"} :
              Has(l \o es, kind) <=> Has(l, kind)
  <1> DEFINE m == l \o es
  <1>1. /\ Len(l) \in Nat /\ Len(m) \in Nat /\ Len(l) <= Len(m)
        /\ \A i \in 1..Len(l) : m[i] = l[i]
        /\ \A i \in (Len(l) + 1)..Len(m) :
             m[i].kind \in {"hosted_invoked", "hosted_completed"}
    OBVIOUS
  <1> HIDE DEF m
  <1>2. WellFormed(m)
    <2> SUFFICES ASSUME NEW j \in 1..Len(m) PROVE WellFormedAt(m, j)
      BY DEF WellFormed
    <2>1. CASE j \in 1..Len(l)
      <3>1. \A i \in 1..j : l[i] = m[i]
        BY <1>1, <2>1
      <3>2. WellFormedAt(l, j) /\ j \in Nat \ {0}
        BY <1>1, <2>1 DEF WellFormed
      <3> QED
        BY <3>1, <3>2, WellFormedPrefix
    <2>2. CASE j \in (Len(l) + 1)..Len(m)
      <3>1. m[j].kind \in {"hosted_invoked", "hosted_completed"}
        BY <1>1, <2>2
      <3> QED
        BY <3>1 DEF WellFormedAt
    <2> QED
      BY <1>1, <2>1, <2>2
  <1>3. AllClosed(l) => AllClosed(m)
    <2> SUFFICES ASSUME AllClosed(l), NEW i \in 1..Len(m), m[i].kind = "turn_started"
                 PROVE  \E k \in (i + 1)..Len(m) : m[k].kind = "turn_completed"
      BY DEF AllClosed, ClosedIn
    <2>1. i \in 1..Len(l) /\ l[i].kind = "turn_started"
      BY <1>1
    <2>2. PICK k \in (i + 1)..Len(l) : l[k].kind = "turn_completed"
      BY <2>1 DEF AllClosed, ClosedIn
    <2>3. k \in (i + 1)..Len(m) /\ m[k] = l[k]
      BY <1>1, <2>1, <2>2
    <2> QED
      BY <2>2, <2>3
  <1>4. ASSUME NEW p, OpenWith(l, p) PROVE OpenWith(m, p)
    <2>1. PICK i \in 1..Len(l) :
            /\ l[i].kind = "turn_started"
            /\ l[i].previous = p
            /\ \A k \in (i + 1)..Len(l) :
                 l[k].kind \notin {"turn_started", "turn_completed"}
      BY <1>4 DEF OpenWith, OpenIn
    <2>2. i \in 1..Len(m) /\ m[i] = l[i]
      BY <1>1
    <2>3. ASSUME NEW k \in (i + 1)..Len(m)
          PROVE  m[k].kind \notin {"turn_started", "turn_completed"}
      <3>1. CASE k \in (i + 1)..Len(l)
        BY <1>1, <2>1, <3>1
      <3>2. CASE k \in (Len(l) + 1)..Len(m)
        <4>1. m[k].kind \in {"hosted_invoked", "hosted_completed"}
          BY <1>1, <3>2
        <4> QED
          BY <4>1
      <3> QED
        BY <1>1, <3>1, <3>2
    <2> QED
      BY <2>1, <2>2, <2>3 DEF OpenWith, OpenIn
  <1>5. ASSUME NEW kind \in {"session_started", "session_ended"}
        PROVE  Has(m, kind) <=> Has(l, kind)
    <2>1. \A i \in (Len(l) + 1)..Len(m) : m[i].kind # kind
      <3> SUFFICES ASSUME NEW i \in (Len(l) + 1)..Len(m) PROVE m[i].kind # kind
        OBVIOUS
      <3>1. m[i].kind \in {"hosted_invoked", "hosted_completed"}
        BY <1>1
      <3> QED
        BY <3>1
    <2>2. ASSUME Has(m, kind) PROVE Has(l, kind)
      <3>1. PICK i \in 1..Len(m) : m[i].kind = kind
        BY <2>2 DEF Has, HasIn
      <3>2. i \in 1..Len(l)
        BY <1>1, <2>1, <3>1
      <3>3. l[i].kind = kind
        BY <1>1, <3>1, <3>2
      <3> QED
        BY <3>2, <3>3 DEF Has, HasIn
    <2>3. ASSUME Has(l, kind) PROVE Has(m, kind)
      <3>1. PICK i \in 1..Len(l) : l[i].kind = kind
        BY <2>3 DEF Has, HasIn
      <3>2. i \in 1..Len(m) /\ m[i].kind = kind
        BY <1>1, <3>1
      <3> QED
        BY <3>2 DEF Has, HasIn
    <2> QED
      BY <2>2, <2>3
  <1> QED
    BY <1>2, <1>3, <1>4, <1>5 DEF m

(***************************************************************************)
(* How many events of a kind the first n events of a sequence hold.        *)
(***************************************************************************)
OfKind(l, n, kind)  == {i \in 1..n : l[i].kind = kind}
CountIn(l, n, kind) == Cardinality(OfKind(l, n, kind))
Count(l, kind)      == CountIn(l, Len(l), kind)

LEMMA CountType ==
  ASSUME NEW l, NEW n \in Nat, NEW kind
  PROVE  /\ IsFiniteSet(OfKind(l, n, kind))
         /\ CountIn(l, n, kind) \in Nat
  <1>1. IsFiniteSet(1..n) /\ OfKind(l, n, kind) \subseteq 1..n
    BY FS_Interval DEF OfKind
  <1>2. IsFiniteSet(OfKind(l, n, kind))
    BY <1>1, FS_Subset
  <1> QED
    BY <1>2, FS_CardinalityType DEF CountIn

\* Two sequences that agree up to n hold as many up to n.
LEMMA CountPrefix ==
  ASSUME NEW l, NEW m, NEW n \in Nat, \A i \in 1..n : l[i] = m[i]
  PROVE  \A kind : CountIn(l, n, kind) = CountIn(m, n, kind)
  <1> SUFFICES ASSUME NEW kind
               PROVE  OfKind(l, n, kind) = OfKind(m, n, kind)
    BY DEF CountIn
  <1> QED
    BY DEF OfKind

\* The event at n + 1 counts if it is of the kind.
LEMMA CountNext ==
  ASSUME NEW l, NEW n \in Nat, NEW kind
  PROVE  CountIn(l, n + 1, kind) =
           CountIn(l, n, kind) + (IF l[n + 1].kind = kind THEN 1 ELSE 0)
  <1> DEFINE before == OfKind(l, n, kind)
             after  == OfKind(l, n + 1, kind)
  <1>1. IsFiniteSet(before) /\ n + 1 \notin before /\ CountIn(l, n, kind) \in Nat
    BY CountType DEF OfKind
  <1>2. after = IF l[n + 1].kind = kind THEN before \cup {n + 1} ELSE before
    BY DEF OfKind
  <1>3. CountIn(l, n, kind) = Cardinality(before)
    BY DEF CountIn
  <1>4. CountIn(l, n + 1, kind) = Cardinality(after)
    BY DEF CountIn
  <1> HIDE DEF before, after
  <1>5. Cardinality(before \cup {n + 1}) = Cardinality(before) + 1
    BY <1>1, FS_AddElement
  <1> QED
    BY <1>1, <1>2, <1>3, <1>4, <1>5

\* Events of other kinds do not count.
LEMMA CountNone ==
  ASSUME NEW l, NEW n \in Nat, NEW m \in Nat, n <= m, NEW kind,
         \A i \in (n + 1)..m : l[i].kind # kind
  PROVE  CountIn(l, m, kind) = CountIn(l, n, kind)
  <1>1. OfKind(l, m, kind) = OfKind(l, n, kind)
    BY DEF OfKind
  <1> QED
    BY <1>1 DEF CountIn

LEMMA CountNat ==
  ASSUME NEW S, NEW l \in Seq(S), NEW kind
  PROVE  Count(l, kind) \in Nat
  <1>1. Len(l) \in Nat
    OBVIOUS
  <1> QED
    BY <1>1, CountType DEF Count

LEMMA AppendCount ==
  ASSUME NEW S, NEW l \in Seq(S), NEW e \in S, NEW kind
  PROVE  Count(Append(l, e), kind) =
           Count(l, kind) + (IF e.kind = kind THEN 1 ELSE 0)
  <1> DEFINE m == Append(l, e)
  <1>1. /\ Len(l) \in Nat
        /\ Len(m) = Len(l) + 1
        /\ \A i \in 1..Len(l) : m[i] = l[i]
        /\ m[Len(l) + 1] = e
    BY AppendEntries
  <1> HIDE DEF m
  <1>2. CountIn(m, Len(l), kind) = CountIn(l, Len(l), kind)
    BY <1>1, CountPrefix
  <1>3. CountIn(m, Len(l) + 1, kind) =
          CountIn(m, Len(l), kind) + (IF e.kind = kind THEN 1 ELSE 0)
    BY <1>1, CountNext
  <1> QED
    BY <1>1, <1>2, <1>3 DEF Count, m

LEMMA ConcatCount ==
  ASSUME NEW S, NEW l \in Seq(S), NEW es \in Seq(S), NEW kind,
         \A i \in 1..Len(es) : es[i].kind # kind
  PROVE  Count(l \o es, kind) = Count(l, kind)
  <1> DEFINE m == l \o es
  <1>1. /\ Len(l) \in Nat /\ Len(m) \in Nat /\ Len(l) <= Len(m)
        /\ \A i \in 1..Len(l) : m[i] = l[i]
        /\ \A i \in (Len(l) + 1)..Len(m) : m[i].kind # kind
    OBVIOUS
  <1> HIDE DEF m
  <1>2. CountIn(m, Len(m), kind) = CountIn(m, Len(l), kind)
    BY <1>1, CountNone
  <1>3. CountIn(m, Len(l), kind) = CountIn(l, Len(l), kind)
    <2>1. OfKind(m, Len(l), kind) = OfKind(l, Len(l), kind)
      BY <1>1 DEF OfKind
    <2> QED
      BY <2>1 DEF CountIn
  <1> QED
    BY <1>2, <1>3 DEF Count, m

(***************************************************************************)
(* Types                                                                   *)
(***************************************************************************)

\* The turn fields at the moment finalize_turn reads them.
FinalTurn ==
  [previous : Option(ResponseId), response : Option(ResponseId),
   status : Option(WireStatus \cup TerminalKind \cup {"error", "send_error"}),
   usage : Option(Usage), hosted : Nat, clock : BOOLEAN]

LEMMA EventTypes ==
  /\ SessionStarted \in Event
  /\ \A p \in Option(ResponseId) : TurnStarted(p) \in Event
  /\ \A t \in FinalTurn : TurnCompleted(t) \in Event
  /\ \A r \in Reason : SessionEnd(r) \in Event
  <1>1. SessionStarted \in Event
    BY DEF Event
  <1>2. ASSUME NEW p \in Option(ResponseId) PROVE TurnStarted(p) \in Event
    BY DEF Event
  <1>3. ASSUME NEW t \in FinalTurn PROVE TurnCompleted(t) \in Event
    <2>1. TurnCompleted(t) \in
            [kind : {"turn_completed"}, previous : Option(ResponseId),
             response : ResponseId \cup {""},
             status : WireStatus \cup TerminalKind \cup {"error", "send_error"},
             usage : Option(Usage), hosted : Nat, timed : BOOLEAN]
      BY DEF TurnCompleted, FinalTurn, OrElse, Option, TerminalKind
    <2> QED
      BY <2>1 DEF Event
  <1>4. ASSUME NEW r \in Reason PROVE SessionEnd(r) \in Event
    BY DEF Event
  <1> QED
    BY <1>1, <1>2, <1>3, <1>4

LEMMA HostedTypes ==
  ASSUME NEW response \in Option(ResponseId), NEW n \in Nat
  PROVE  /\ HostedEvents(response, n) \in Seq(Event)
         /\ \A i \in 1..Len(HostedEvents(response, n)) :
              HostedEvents(response, n)[i].kind
                \in {"hosted_invoked", "hosted_completed"}
  <1> DEFINE HostedEvent == [kind : {"hosted_invoked", "hosted_completed"},
                             response : Option(ResponseId), call : Nat]
             e(i) == [kind |-> IF i % 2 = 1 THEN "hosted_invoked"
                                            ELSE "hosted_completed",
                      response |-> response, call |-> (i + 1) \div 2]
  <1>1. \A i \in 1..(2 * n) : e(i) \in HostedEvent
    OBVIOUS
  <1>2. HostedEvents(response, n) = [i \in 1..(2 * n) |-> e(i)]
    BY DEF HostedEvents
  <1> HIDE DEF e
  <1>3. HostedEvents(response, n) \in [1..(2 * n) -> HostedEvent]
    BY <1>1, <1>2
  <1>4. \A x \in HostedEvent :
          x \in Event /\ x.kind \in {"hosted_invoked", "hosted_completed"}
    BY DEF Event
  <1> HIDE DEF HostedEvent
  <1>5. 2 * n \in Nat
    OBVIOUS
  <1>6. /\ HostedEvents(response, n) \in Seq(HostedEvent)
        /\ Len(HostedEvents(response, n)) = 2 * n
    BY <1>3, <1>5
  <1>7. HostedEvents(response, n) \in Seq(Event)
    BY <1>3, <1>4, <1>5
  <1>8. \A i \in 1..(2 * n) : HostedEvents(response, n)[i] \in HostedEvent
    BY <1>3
  <1> QED
    BY <1>4, <1>6, <1>7, <1>8

\* The initial state and every call leave the variables in their types.
THEOREM Typing == Spec => []TypeOK
  <1>1. Init => TypeOK
    <2> SUFFICES ASSUME Init PROVE TypeOK
      OBVIOUS
    <2>1. turn \in [previous : Option(ResponseId), response : Option(ResponseId),
                    status : Option(WireStatus \cup TerminalKind),
                    usage : Option(Usage), hosted : Nat, clock : BOOLEAN]
      BY DEF Init, ClearedTurn, Option
    <2>2. log \in Seq(Event)
      BY DEF Init
    <2> QED
      BY <2>1, <2>2 DEF Init, TypeOK
  <1>2. TypeOK /\ [Next]_vars => TypeOK'
    <2> SUFFICES ASSUME TypeOK, [Next]_vars PROVE TypeOK'
      OBVIOUS
    <2> USE DEF TypeOK
    <2>1. ClearedTurn \in
            [previous : Option(ResponseId), response : Option(ResponseId),
             status : Option(WireStatus \cup TerminalKind),
             usage : Option(Usage), hosted : Nat, clock : BOOLEAN]
      BY DEF ClearedTurn, Option
    <2>2. ASSUME NEW t \in FinalTurn PROVE FinalizeEvents(t) \in Seq(Event)
      BY EventTypes DEF FinalizeEvents
    <2>3. turn \in FinalTurn
      BY DEF FinalTurn, Option
    <2>4. StartEvents \in Seq(Event)
      BY EventTypes DEF StartEvents
    <2>5. ASSUME NEW previous \in Option(ResponseId), ObserveSend(previous)
          PROVE  TypeOK'
      <3> DEFINE sent == <<TurnStarted(previous)>>
      <3>1. sent \in Seq(Event) /\ FinalizeEvents(turn) \in Seq(Event)
        BY <2>2, <2>3, EventTypes
      <3>2. log' = log \o FinalizeEvents(turn) \o StartEvents \o sent
        BY <2>5 DEF ObserveSend
      <3> HIDE DEF sent
      <3>3. log' \in Seq(Event)
        BY <2>4, <3>1, <3>2
      <3>4. turn' \in [previous : Option(ResponseId), response : Option(ResponseId),
                       status : Option(WireStatus \cup TerminalKind),
                       usage : Option(Usage), hosted : Nat, clock : BOOLEAN]
        BY <2>5 DEF ObserveSend, FreshTurn, ClearedTurn, Option
      <3> QED
        BY <2>5, <3>3, <3>4 DEF ObserveSend
    <2>6. CASE ObserveSendError
      <3> DEFINE failed == [turn EXCEPT !.status = "send_error"]
      <3>1. failed \in FinalTurn
        BY DEF FinalTurn, Option
      <3>2. log' = log \o FinalizeEvents(failed)
        BY <2>6 DEF ObserveSendError
      <3> HIDE DEF failed
      <3>3. FinalizeEvents(failed) \in Seq(Event)
        BY <2>2, <3>1
      <3>4. log' \in Seq(Event)
        BY <3>2, <3>3
      <3> QED
        BY <2>1, <2>6, <3>4 DEF ObserveSendError, Finalized
    <2>7. ASSUME NEW chunk \in Chunk, ObserveResponse(chunk)
          PROVE  TypeOK'
      <3>1. ResponseStatusString(chunk.kind, chunk.status)
              \in WireStatus \cup TerminalKind
        BY <2>7 DEF Chunk, ResponseStatusString
      <3>2. OrElse(chunk.usage, turn.usage) \in Option(Usage)
        BY <2>7 DEF Chunk, OrElse, Option
      <3>3. turn' \in [previous : Option(ResponseId), response : Option(ResponseId),
                       status : Option(WireStatus \cup TerminalKind),
                       usage : Option(Usage), hosted : Nat, clock : BOOLEAN]
        BY <2>7, <3>1, <3>2 DEF ObserveResponse, Chunk, Option
      <3>4. heard' \subseteq ResponseId \cup Usage \cup WireStatus \cup TerminalKind
        BY <2>7, <3>1 DEF ObserveResponse, ChunkFacts, Chunk, Option
      <3> QED
        BY <2>7, <3>3, <3>4 DEF ObserveResponse
    <2>8. ASSUME NEW done \in DoneBody, ObserveDone(done)
          PROVE  TypeOK'
      <3> DEFINE absorbed == AbsorbDone(turn, done)
      <3>1. absorbed \in [previous : Option(ResponseId), response : Option(ResponseId),
                          status : Option(WireStatus \cup TerminalKind),
                          usage : Option(Usage), hosted : Nat, clock : BOOLEAN]
        <4>1. /\ OrElse(done.id, turn.response) \in Option(ResponseId)
              /\ OrElse(done.status, turn.status) \in Option(WireStatus \cup TerminalKind)
              /\ OrElse(done.usage, turn.usage) \in Option(Usage)
          BY <2>8, DoneAssumption DEF DoneBody, OrElse, Option
        <4>2. turn.hosted + done.hosted \in Nat
          BY <2>8, BoundsAssumption DEF DoneBody
        <4> QED
          BY <4>1, <4>2 DEF AbsorbDone
      <3>2. absorbed \in FinalTurn /\ absorbed.response \in Option(ResponseId)
        BY <3>1 DEF FinalTurn, Option
      <3>3. done.hosted \in Nat
        BY <2>8, BoundsAssumption DEF DoneBody
      <3>4. /\ HostedEvents(absorbed.response, done.hosted) \in Seq(Event)
            /\ FinalizeEvents(absorbed) \in Seq(Event)
        BY <2>2, <3>2, <3>3, HostedTypes
      <3> HIDE DEF absorbed
      <3>5. log' = log \o HostedEvents(absorbed.response, done.hosted)
                       \o FinalizeEvents(absorbed)
        BY <2>8 DEF ObserveDone, absorbed
      <3>6. log' \in Seq(Event)
        BY <3>4, <3>5
      <3>7. heard' \subseteq ResponseId \cup Usage \cup WireStatus \cup TerminalKind
        BY <2>8, DoneAssumption DEF ObserveDone, DoneFacts, DoneBody, Option
      <3>8. turn' = Finalized(absorbed)
        BY <2>8 DEF ObserveDone, absorbed
      <3> QED
        BY <2>1, <2>8, <3>1, <3>6, <3>7, <3>8 DEF ObserveDone, Finalized
    <2>9. CASE ObserveError
      <3> DEFINE failed == [turn EXCEPT !.status = OrElse(@, "error")]
      <3>1. failed \in FinalTurn
        BY DEF FinalTurn, Option, OrElse
      <3>2. log' = log \o FinalizeEvents(failed)
        BY <2>9 DEF ObserveError
      <3> HIDE DEF failed
      <3>3. FinalizeEvents(failed) \in Seq(Event)
        BY <2>2, <3>1
      <3>4. log' \in Seq(Event)
        BY <3>2, <3>3
      <3> QED
        BY <2>1, <2>9, <3>4 DEF ObserveError, Finalized
    <2>10. ASSUME NEW reason \in Reason, ObserveClose(reason)
           PROVE  TypeOK'
      <3> DEFINE end == IF sessionStarted /\ ~sessionEnded
                          THEN <<SessionEnd(reason)>> ELSE <<>>
      <3>1. end \in Seq(Event) /\ FinalizeEvents(turn) \in Seq(Event)
        BY <2>2, <2>3, EventTypes
      <3>2. log' = log \o FinalizeEvents(turn) \o end
        BY <2>10 DEF ObserveClose
      <3> HIDE DEF end
      <3>3. log' \in Seq(Event)
        BY <3>1, <3>2
      <3> QED
        BY <2>1, <2>10, <3>3 DEF ObserveClose, Finalized
    <2>11. CASE UNCHANGED vars
      BY <2>11 DEF vars
    <2> QED
      BY <2>5, <2>6, <2>7, <2>8, <2>9, <2>10, <2>11 DEF Next
  <1> QED
    BY <1>1, <1>2, PTL DEF Spec

(***************************************************************************)
(* The inductive invariant: the stream is well-formed and the flags the    *)
(* next call will branch on say in which condition it is.                  *)
(***************************************************************************)
Flags ==
  /\ sessionStarted <=> Has(log, "session_started")
  /\ sessionEnded <=> Has(log, "session_ended")
  /\ inTurn => sessionStarted /\ turn.clock /\ OpenWith(log, turn.previous)
  /\ ~inTurn => AllClosed(log)

StreamInv == WellFormed(log) /\ Flags

\* finalize_turn, called on a log in the condition the flags announce, leaves
\* every turn closed.
LEMMA Finalizing ==
  ASSUME NEW l \in Seq(Event), NEW t \in FinalTurn, WellFormed(l),
         inTurn => /\ t.clock
                   /\ Has(l, "session_started")
                   /\ OpenWith(l, t.previous),
         ~inTurn => AllClosed(l)
  PROVE  /\ l \o FinalizeEvents(t) \in Seq(Event)
         /\ WellFormed(l \o FinalizeEvents(t))
         /\ AllClosed(l \o FinalizeEvents(t))
         /\ \A kind \in {"session_started", "session_ended"} :
              Has(l \o FinalizeEvents(t), kind) <=> Has(l, kind)
  <1>1. CASE inTurn
    <2> DEFINE e == TurnCompleted(t)
    <2>1. e \in Event
      BY EventTypes
    <2>2. e.kind = "turn_completed" /\ e.timed = t.clock /\ e.previous = t.previous
      BY DEF TurnCompleted
    <2>3. l \o FinalizeEvents(t) = l \o <<e>>
      BY <1>1 DEF FinalizeEvents
    <2> HIDE DEF e
    <2>4. l \o FinalizeEvents(t) = Append(l, e)
      BY <2>1, <2>3
    <2>5. e.timed /\ OpenWith(l, e.previous)
      BY <1>1, <2>2
    <2>6. /\ WellFormed(Append(l, e))
          /\ AllClosed(Append(l, e))
          /\ \A kind \in {"session_started", "session_ended"} :
               Has(Append(l, e), kind) <=> Has(l, kind)
      BY <1>1, <2>1, <2>2, <2>5, AppendTurnCompleted
    <2> QED
      BY <2>1, <2>4, <2>6
  <1>2. CASE ~inTurn
    <2>1. l \o FinalizeEvents(t) = l
      BY <1>2 DEF FinalizeEvents
    <2> QED
      BY <1>2, <2>1
  <1> QED
    BY <1>1, <1>2

\* start_session_if_needed leaves the session announced, once.
LEMMA Starting ==
  ASSUME NEW l \in Seq(Event), WellFormed(l), AllClosed(l),
         sessionStarted <=> Has(l, "session_started")
  PROVE  /\ l \o StartEvents \in Seq(Event)
         /\ WellFormed(l \o StartEvents)
         /\ AllClosed(l \o StartEvents)
         /\ Has(l \o StartEvents, "session_started")
         /\ Has(l \o StartEvents, "session_ended") <=> Has(l, "session_ended")
  <1>1. CASE sessionStarted
    <2>1. l \o StartEvents = l
      BY <1>1 DEF StartEvents
    <2> QED
      BY <1>1, <2>1
  <1>2. CASE ~sessionStarted
    <2> DEFINE e == SessionStarted
    <2>1. e \in Event
      BY EventTypes
    <2>2. e.kind = "session_started"
      BY DEF SessionStarted
    <2>3. l \o StartEvents = l \o <<e>>
      BY <1>2 DEF StartEvents
    <2> HIDE DEF e
    <2>4. l \o StartEvents = Append(l, e)
      BY <2>1, <2>3
    <2>5. /\ WellFormed(Append(l, e))
          /\ Has(Append(l, e), "session_started")
          /\ Has(Append(l, e), "session_ended") <=> Has(l, "session_ended")
          /\ AllClosed(Append(l, e))
      BY <1>2, <2>1, <2>2, AppendSessionStarted
    <2> QED
      BY <2>1, <2>4, <2>5
  <1> QED
    BY <1>1, <1>2

LEMMA StreamInit == Init => StreamInv
  <1> SUFFICES ASSUME Init PROVE StreamInv
    OBVIOUS
  <1>1. log = <<>> /\ Len(log) = 0
    BY DEF Init
  <1> QED
    BY <1>1 DEF Init, StreamInv, Flags, WellFormed, Has, HasIn, AllClosed, ClosedIn

LEMMA StreamStep == TypeOK /\ StreamInv /\ [Next]_vars => StreamInv'
  <1> SUFFICES ASSUME TypeOK, StreamInv, [Next]_vars PROVE StreamInv'
    OBVIOUS
  <1> USE DEF StreamInv, Flags
  <1>1. log \in Seq(Event) /\ inTurn \in BOOLEAN
    BY DEF TypeOK
  <1>2. turn \in FinalTurn
    BY DEF TypeOK, FinalTurn, Option
  \* A call that only finalizes the open turn, with the fields t.
  <1>3. ASSUME NEW t \in FinalTurn, t.previous = turn.previous, t.clock = turn.clock,
               log' = log \o FinalizeEvents(t), inTurn' = FALSE,
               UNCHANGED <<sessionStarted, sessionEnded>>
        PROVE  StreamInv'
    <2>1. /\ WellFormed(log \o FinalizeEvents(t))
          /\ AllClosed(log \o FinalizeEvents(t))
          /\ \A kind \in {"session_started", "session_ended"} :
               Has(log \o FinalizeEvents(t), kind) <=> Has(log, kind)
      BY <1>1, <1>3, Finalizing
    <2> QED
      BY <1>3, <2>1
  <1>4. ASSUME NEW previous \in Option(ResponseId), ObserveSend(previous)
        PROVE  StreamInv'
    <2> DEFINE l1 == log \o FinalizeEvents(turn)
               l2 == l1 \o StartEvents
               e  == TurnStarted(previous)
    <2>1. /\ l1 \in Seq(Event) /\ WellFormed(l1) /\ AllClosed(l1)
          /\ \A kind \in {"session_started", "session_ended"} :
               Has(l1, kind) <=> Has(log, kind)
      BY <1>1, <1>2, Finalizing
    <2> HIDE DEF l1
    <2>2. /\ l2 \in Seq(Event) /\ WellFormed(l2) /\ AllClosed(l2)
          /\ Has(l2, "session_started")
          /\ Has(l2, "session_ended") <=> Has(l1, "session_ended")
      BY <2>1, Starting
    <2>3. e \in Event /\ e.kind = "turn_started" /\ e.previous = previous
      BY EventTypes DEF TurnStarted
    <2>4. log' = l2 \o <<e>>
      BY <1>4 DEF ObserveSend, l1
    <2> HIDE DEF l2, e
    <2>5. log' = Append(l2, e)
      BY <2>2, <2>3, <2>4
    <2>6. /\ WellFormed(log')
          /\ OpenWith(log', previous)
          /\ \A kind \in {"session_started", "session_ended"} :
               Has(log', kind) <=> Has(l2, kind)
      BY <2>2, <2>3, <2>5, AppendTurnStarted
    <2>7. turn'.previous = previous /\ turn'.clock
      BY <1>4 DEF ObserveSend, FreshTurn, ClearedTurn
    <2> QED
      BY <1>4, <2>1, <2>2, <2>6, <2>7 DEF ObserveSend
  <1>5. CASE ObserveSendError
    <2> DEFINE t == [turn EXCEPT !.status = "send_error"]
    <2>1. t \in FinalTurn /\ t.previous = turn.previous /\ t.clock = turn.clock
      BY <1>2 DEF FinalTurn, Option
    <2>2. /\ log' = log \o FinalizeEvents(t)
          /\ inTurn' = FALSE
          /\ UNCHANGED <<sessionStarted, sessionEnded>>
      BY <1>5 DEF ObserveSendError
    <2> HIDE DEF t
    <2> QED
      BY <1>3, <2>1, <2>2
  <1>6. ASSUME NEW chunk \in Chunk, ObserveResponse(chunk)
        PROVE  StreamInv'
    <2>1. turn'.previous = turn.previous /\ turn'.clock = turn.clock
      BY <1>2, <1>6 DEF ObserveResponse, FinalTurn
    <2> QED
      BY <1>6, <2>1 DEF ObserveResponse
  <1>7. ASSUME NEW done \in DoneBody, ObserveDone(done)
        PROVE  StreamInv'
    <2> DEFINE t  == AbsorbDone(turn, done)
               es == HostedEvents(t.response, done.hosted)
               l  == log \o es
    <2>1. /\ t \in FinalTurn
          /\ t.previous = turn.previous
          /\ t.clock = turn.clock
      <3>1. /\ OrElse(done.id, turn.response) \in Option(ResponseId)
            /\ OrElse(done.status, turn.status)
                 \in Option(WireStatus \cup TerminalKind \cup {"error", "send_error"})
            /\ OrElse(done.usage, turn.usage) \in Option(Usage)
        BY <1>2, <1>7, DoneAssumption DEF DoneBody, OrElse, Option, FinalTurn
      <3>2. turn.hosted + done.hosted \in Nat
        BY <1>2, <1>7, BoundsAssumption DEF DoneBody, FinalTurn
      <3> QED
        BY <1>2, <3>1, <3>2 DEF AbsorbDone, FinalTurn
    <2>2. done.hosted \in Nat /\ t.response \in Option(ResponseId)
      BY <1>7, <2>1, BoundsAssumption DEF DoneBody, FinalTurn
    <2>3. /\ log' = log \o es \o FinalizeEvents(t)
          /\ turn' = Finalized(t)
          /\ inTurn' = FALSE
          /\ UNCHANGED <<sessionStarted, sessionEnded>>
      BY <1>7 DEF ObserveDone
    <2> HIDE DEF t
    <2>4. /\ es \in Seq(Event)
          /\ \A i \in 1..Len(es) :
               es[i].kind \in {"hosted_invoked", "hosted_completed"}
      BY <2>2, HostedTypes
    <2> HIDE DEF es
    <2>5. /\ l \in Seq(Event)
          /\ WellFormed(l)
          /\ AllClosed(log) => AllClosed(l)
          /\ \A p : OpenWith(log, p) => OpenWith(l, p)
          /\ \A kind \in {"session_started", "session_ended"} :
               Has(l, kind) <=> Has(log, kind)
      BY <1>1, <2>4, AppendHosted
    <2> HIDE DEF l
    <2>6. /\ WellFormed(l \o FinalizeEvents(t))
          /\ AllClosed(l \o FinalizeEvents(t))
          /\ \A kind \in {"session_started", "session_ended"} :
               Has(l \o FinalizeEvents(t), kind) <=> Has(l, kind)
      BY <2>1, <2>5, Finalizing
    <2>7. log' = l \o FinalizeEvents(t)
      BY <2>3 DEF l
    <2> QED
      BY <2>3, <2>5, <2>6, <2>7
  <1>8. CASE ObserveError
    <2> DEFINE t == [turn EXCEPT !.status = OrElse(@, "error")]
    <2>1. t \in FinalTurn /\ t.previous = turn.previous /\ t.clock = turn.clock
      BY <1>2 DEF FinalTurn, Option, OrElse
    <2>2. /\ log' = log \o FinalizeEvents(t)
          /\ inTurn' = FALSE
          /\ UNCHANGED <<sessionStarted, sessionEnded>>
      BY <1>8 DEF ObserveError
    <2> HIDE DEF t
    <2> QED
      BY <1>3, <2>1, <2>2
  <1>9. ASSUME NEW reason \in Reason, ObserveClose(reason)
        PROVE  StreamInv'
    <2> DEFINE l == log \o FinalizeEvents(turn)
               e == SessionEnd(reason)
    <2>1. /\ l \in Seq(Event) /\ WellFormed(l) /\ AllClosed(l)
          /\ \A kind \in {"session_started", "session_ended"} :
               Has(l, kind) <=> Has(log, kind)
      BY <1>1, <1>2, Finalizing
    <2>2. e \in Event /\ e.kind = "session_ended"
      BY EventTypes DEF SessionEnd
    <2>3. inTurn' = FALSE /\ UNCHANGED sessionStarted
      BY <1>9 DEF ObserveClose
    <2>4. CASE sessionStarted /\ ~sessionEnded
      <3>1. log' = l \o <<e>> /\ sessionEnded' = TRUE
        BY <1>9, <2>4 DEF ObserveClose
      <3> HIDE DEF l, e
      <3>2. log' = Append(l, e)
        BY <2>1, <2>2, <3>1
      <3>3. /\ WellFormed(log') /\ AllClosed(log')
            /\ Has(log', "session_started") /\ Has(log', "session_ended")
        BY <2>1, <2>2, <2>4, <3>2, AppendSessionEnded
      <3> QED
        BY <2>3, <2>4, <3>1, <3>3
    <2>5. CASE ~(sessionStarted /\ ~sessionEnded)
      <3>1. log' = l \o <<>> /\ sessionEnded' = sessionEnded
        BY <1>9, <2>5 DEF ObserveClose, TypeOK
      <3> HIDE DEF l
      <3>2. log' = l
        BY <2>1, <3>1
      <3> QED
        BY <2>1, <2>3, <3>1, <3>2
    <2> QED
      BY <2>4, <2>5
  <1>10. CASE UNCHANGED vars
    BY <1>10 DEF vars
  <1> QED
    BY <1>4, <1>5, <1>6, <1>7, <1>8, <1>9, <1>10 DEF Next

\* The stream of an observer is well-formed and its flags describe it.
THEOREM StreamInvariant == Spec => []StreamInv
  <1>1. Init => StreamInv
    BY StreamInit
  <1>2. TypeOK /\ StreamInv /\ [Next]_vars => StreamInv'
    BY StreamStep
  <1> QED
    BY <1>1, <1>2, Typing, PTL DEF Spec

(***************************************************************************)
(* The properties of ResponsesSession, from the invariant                  *)
(***************************************************************************)

\* At any moment, under any order of calls, the session has been announced at
\* most once and before any turn or session end.
THEOREM SessionStartsOnce == Spec => []OneSessionStart
  <1>1. TypeOK /\ StreamInv => OneSessionStart
    <2> SUFFICES ASSUME TypeOK, StreamInv PROVE OneSessionStart
      OBVIOUS
    <2>1. /\ DOMAIN log = 1..Len(log) /\ Len(log) \in Nat
          /\ \A j \in 1..Len(log) : WellFormedAt(log, j)
      BY DEF TypeOK, StreamInv, WellFormed
    <2>2. \A i, j \in 1..Len(log) :
            i < j /\ Is(j, "session_started") => ~Is(i, "session_started")
      BY <2>1 DEF WellFormedAt, HasIn, Is
    <2>3. \A j \in 1..Len(log) :
            log[j].kind \in {"turn_started", "turn_completed", "session_ended"}
              => \E i \in 1..(j - 1) : Is(i, "session_started")
      BY <2>1 DEF WellFormedAt, HasIn, Is
    <2> QED
      BY <2>1, <2>2, <2>3 DEF OneSessionStart
  <1> QED
    BY <1>1, Typing, StreamInvariant, PTL

\* Turns never overlap and none is dropped.
THEOREM TurnsDoAlternate == Spec => []TurnsAlternate
  <1>1. TypeOK /\ StreamInv => TurnsAlternate
    <2> SUFFICES ASSUME TypeOK, StreamInv, NEW i \in DOMAIN log, NEW j \in DOMAIN log,
                        i < j, Is(i, "turn_started"), Is(j, "turn_started")
                 PROVE  ~NoneBetween("turn_completed", i, j)
      BY DEF TurnsAlternate
    <2>1. i \in 1..(j - 1) /\ WellFormedAt(log, j)
      BY DEF TypeOK, StreamInv, WellFormed
    <2>2. PICK k \in (i + 1)..(j - 1) : log[k].kind = "turn_completed"
      BY <2>1 DEF WellFormedAt, ClosedIn, Is
    <2> QED
      BY <2>2 DEF NoneBetween, Is
  <1> QED
    BY <1>1, Typing, StreamInvariant, PTL

\* Every completion closes the latest start, repeats its chain ancestor and
\* carries a duration.
THEOREM CompletionsMatch == Spec => []CompletionMatchesStart
  <1>1. TypeOK /\ StreamInv => CompletionMatchesStart
    <2> SUFFICES ASSUME TypeOK, StreamInv, NEW j \in DOMAIN log, Is(j, "turn_completed")
                 PROVE  /\ log[j].timed
                        /\ \E i \in 1..(j - 1) :
                             /\ Is(i, "turn_started")
                             /\ log[i].previous = log[j].previous
                             /\ NoneBetween("turn_started", i, j)
                             /\ NoneBetween("turn_completed", i, j)
      BY DEF CompletionMatchesStart
    <2>1. WellFormedAt(log, j)
      BY DEF TypeOK, StreamInv, WellFormed
    <2>2. log[j].timed /\ OpenIn(log, j - 1, log[j].previous)
      BY <2>1 DEF WellFormedAt, Is
    <2>3. PICK i \in 1..(j - 1) :
            /\ log[i].kind = "turn_started"
            /\ log[i].previous = log[j].previous
            /\ \A k \in (i + 1)..(j - 1) :
                 log[k].kind \notin {"turn_started", "turn_completed"}
      BY <2>2 DEF OpenIn
    <2> QED
      BY <2>2, <2>3 DEF NoneBetween, Is
  <1> QED
    BY <1>1, Typing, StreamInvariant, PTL

\* The session ends at most once, and never while a turn is open.
THEOREM SessionEndsOnce == Spec => []EndedOnceBetweenTurns
  <1>1. TypeOK /\ StreamInv => EndedOnceBetweenTurns
    <2> SUFFICES ASSUME TypeOK, StreamInv, NEW j \in DOMAIN log, Is(j, "session_ended")
                 PROVE  /\ \A i \in DOMAIN log : Is(i, "session_ended") => i = j
                        /\ \A i \in 1..(j - 1) : Is(i, "turn_started") =>
                             ~NoneBetween("turn_completed", i, j)
      BY DEF EndedOnceBetweenTurns
    <2>1. /\ DOMAIN log = 1..Len(log) /\ Len(log) \in Nat
          /\ \A k \in 1..Len(log) : WellFormedAt(log, k)
      BY DEF TypeOK, StreamInv, WellFormed
    <2>2. \A i, k \in 1..Len(log) :
            i < k /\ Is(k, "session_ended") => ~Is(i, "session_ended")
      BY <2>1 DEF WellFormedAt, HasIn, Is
    <2>3. ClosedIn(log, j - 1)
      BY <2>1 DEF WellFormedAt, Is
    <2>4. ASSUME NEW i \in 1..(j - 1), Is(i, "turn_started")
          PROVE  ~NoneBetween("turn_completed", i, j)
      BY <2>3, <2>4 DEF ClosedIn, NoneBetween, Is
    <2> QED
      BY <2>1, <2>2, <2>4
  <1> QED
    BY <1>1, Typing, StreamInvariant, PTL

\* The session brackets its turns, under any order of calls: both halves hold at
\* every moment.
THEOREM SessionIsBracketed == Spec => []SessionBrackets
  <1>1. OneSessionStart /\ EndedOnceBetweenTurns => SessionBrackets
    BY DEF SessionBrackets
  <1> QED
    BY <1>1, SessionStartsOnce, SessionEndsOnce, PTL

\* The observer's flags describe the stream a subscriber sees.
THEOREM FlagsDoAgree == Spec => []FlagsAgree
  <1>1. TypeOK /\ StreamInv => FlagsAgree
    <2> SUFFICES ASSUME TypeOK, StreamInv PROVE FlagsAgree
      OBVIOUS
    <2>1. DOMAIN log = 1..Len(log)
      BY DEF TypeOK
    <2> QED
      BY <2>1 DEF StreamInv, Flags, Has, HasIn, OpenWith, OpenIn, AllClosed,
                  ClosedIn, FlagsAgree, Is
  <1> QED
    BY <1>1, Typing, StreamInvariant, PTL

(***************************************************************************)
(* The envelope a consumer sees                                            *)
(***************************************************************************)

\* Completions the next finalize_turn emits.
Closes == IF inTurn THEN 1 ELSE 0

\* finalize_turn reports the open turn, and counts as nothing else.
LEMMA FinalizeCount ==
  ASSUME NEW l \in Seq(Event), NEW t \in FinalTurn
  PROVE  /\ l \o FinalizeEvents(t) \in Seq(Event)
         /\ Count(l \o FinalizeEvents(t), "turn_completed") =
              Count(l, "turn_completed") + Closes
         /\ \A kind : kind # "turn_completed" =>
              Count(l \o FinalizeEvents(t), kind) = Count(l, kind)
  <1>0. \A kind : Count(l, kind) \in Nat
    BY CountNat
  <1>1. CASE inTurn
    <2> DEFINE e == TurnCompleted(t)
    <2>1. e \in Event /\ e.kind = "turn_completed"
      BY EventTypes DEF TurnCompleted
    <2>2. l \o FinalizeEvents(t) = l \o <<e>>
      BY <1>1 DEF FinalizeEvents
    <2> HIDE DEF e
    <2>3. l \o FinalizeEvents(t) = Append(l, e)
      BY <2>1, <2>2
    <2>4. \A kind : Count(Append(l, e), kind) =
                      Count(l, kind) + (IF e.kind = kind THEN 1 ELSE 0)
      BY <2>1, AppendCount
    <2> QED
      BY <1>0, <1>1, <2>1, <2>3, <2>4 DEF Closes
  <1>2. CASE ~inTurn
    <2>1. l \o FinalizeEvents(t) = l
      BY <1>2 DEF FinalizeEvents
    <2> QED
      BY <1>0, <1>2, <2>1 DEF Closes
  <1> QED
    BY <1>1, <1>2

\* start_session_if_needed announces no turn.
LEMMA StartCount ==
  ASSUME NEW l \in Seq(Event)
  PROVE  /\ l \o StartEvents \in Seq(Event)
         /\ \A kind : kind # "session_started" =>
              Count(l \o StartEvents, kind) = Count(l, kind)
  <1>1. /\ StartEvents \in Seq(Event)
        /\ \A i \in 1..Len(StartEvents) : StartEvents[i].kind = "session_started"
    BY EventTypes DEF StartEvents, SessionStarted
  <1>2. \A kind : kind # "session_started" => Count(l \o StartEvents, kind) = Count(l, kind)
    BY <1>1, ConcatCount
  <1> QED
    BY <1>1, <1>2

\* observe_send completes the turn still open and starts one.
LEMMA SendCounts ==
  ASSUME TypeOK, NEW previous \in Option(ResponseId), ObserveSend(previous)
  PROVE  /\ Count(log', "turn_started") = Count(log, "turn_started") + 1
         /\ Count(log', "turn_completed") = Count(log, "turn_completed") + Closes
  <1> DEFINE l1 == log \o FinalizeEvents(turn)
             l2 == l1 \o StartEvents
             e  == TurnStarted(previous)
  <1>1. log \in Seq(Event) /\ turn \in FinalTurn
    BY DEF TypeOK, FinalTurn, Option
  <1>2. /\ l1 \in Seq(Event)
        /\ Count(l1, "turn_completed") = Count(log, "turn_completed") + Closes
        /\ Count(l1, "turn_started") = Count(log, "turn_started")
    BY <1>1, FinalizeCount
  <1> HIDE DEF l1
  <1>3. /\ l2 \in Seq(Event)
        /\ Count(l2, "turn_completed") = Count(l1, "turn_completed")
        /\ Count(l2, "turn_started") = Count(l1, "turn_started")
    BY <1>2, StartCount
  <1>4. e \in Event /\ e.kind = "turn_started"
    BY EventTypes DEF TurnStarted
  <1>5. log' = l2 \o <<e>>
    BY DEF ObserveSend, l1
  <1> HIDE DEF l2, e
  <1>6. log' = Append(l2, e)
    BY <1>3, <1>4, <1>5
  <1>7. /\ Count(log', "turn_started") = Count(l2, "turn_started") + 1
        /\ Count(log', "turn_completed") = Count(l2, "turn_completed") + 0
    BY <1>3, <1>4, <1>6, AppendCount
  <1>8. Count(log, "turn_completed") \in Nat /\ Closes \in Nat
    BY <1>1, CountNat DEF Closes
  <1> QED
    BY <1>2, <1>3, <1>7, <1>8

\* Every other call completes the turn still open and starts none.
LEMMA OtherCounts ==
  ASSUME TypeOK,
         \/ ObserveSendError
         \/ \E done \in DoneBody : ObserveDone(done)
         \/ ObserveError
         \/ \E reason \in Reason : ObserveClose(reason)
  PROVE  /\ Count(log', "turn_started") = Count(log, "turn_started")
         /\ Count(log', "turn_completed") = Count(log, "turn_completed") + Closes
  <1>1. log \in Seq(Event) /\ turn \in FinalTurn
    BY DEF TypeOK, FinalTurn, Option
  <1>2. Count(log, "turn_completed") \in Nat /\ Closes \in Nat
    BY <1>1, CountNat DEF Closes
  <1>3. CASE ObserveSendError
    <2> DEFINE t == [turn EXCEPT !.status = "send_error"]
    <2>1. t \in FinalTurn
      BY <1>1 DEF FinalTurn, Option
    <2>2. log' = log \o FinalizeEvents(t)
      BY <1>3 DEF ObserveSendError
    <2> HIDE DEF t
    <2> QED
      BY <1>1, <2>1, <2>2, FinalizeCount
  <1>4. CASE ObserveError
    <2> DEFINE t == [turn EXCEPT !.status = OrElse(@, "error")]
    <2>1. t \in FinalTurn
      BY <1>1 DEF FinalTurn, Option, OrElse
    <2>2. log' = log \o FinalizeEvents(t)
      BY <1>4 DEF ObserveError
    <2> HIDE DEF t
    <2> QED
      BY <1>1, <2>1, <2>2, FinalizeCount
  <1>5. ASSUME NEW done \in DoneBody, ObserveDone(done)
        PROVE  /\ Count(log', "turn_started") = Count(log, "turn_started")
               /\ Count(log', "turn_completed") = Count(log, "turn_completed") + Closes
    <2> DEFINE t  == AbsorbDone(turn, done)
               es == HostedEvents(t.response, done.hosted)
               l  == log \o es
    <2>1. t \in FinalTurn /\ t.response \in Option(ResponseId)
      <3>1. /\ OrElse(done.id, turn.response) \in Option(ResponseId)
            /\ OrElse(done.status, turn.status)
                 \in Option(WireStatus \cup TerminalKind \cup {"error", "send_error"})
            /\ OrElse(done.usage, turn.usage) \in Option(Usage)
        BY <1>1, <1>5, DoneAssumption DEF DoneBody, OrElse, Option, FinalTurn
      <3>2. turn.hosted + done.hosted \in Nat
        BY <1>1, <1>5, BoundsAssumption DEF DoneBody, FinalTurn
      <3> QED
        BY <1>1, <3>1, <3>2 DEF AbsorbDone, FinalTurn
    <2>2. log' = l \o FinalizeEvents(t) /\ done.hosted \in Nat
      BY <1>5, BoundsAssumption DEF ObserveDone, DoneBody
    <2> HIDE DEF t
    <2>3. /\ es \in Seq(Event)
          /\ \A i \in 1..Len(es) :
               es[i].kind \in {"hosted_invoked", "hosted_completed"}
      BY <2>1, <2>2, HostedTypes
    <2> HIDE DEF es
    <2>4. \A kind \in {"turn_started", "turn_completed"} :
            \A i \in 1..Len(es) : es[i].kind # kind
      BY <2>3
    <2>5. \A kind \in {"turn_started", "turn_completed"} : Count(l, kind) = Count(log, kind)
      BY <1>1, <2>3, <2>4, ConcatCount
    <2>6. l \in Seq(Event)
      BY <1>1, <2>3
    <2> HIDE DEF l
    <2> QED
      BY <2>1, <2>2, <2>5, <2>6, FinalizeCount
  <1>6. ASSUME NEW reason \in Reason, ObserveClose(reason)
        PROVE  /\ Count(log', "turn_started") = Count(log, "turn_started")
               /\ Count(log', "turn_completed") = Count(log, "turn_completed") + Closes
    <2> DEFINE l == log \o FinalizeEvents(turn)
               e == SessionEnd(reason)
    <2>1. /\ l \in Seq(Event)
          /\ Count(l, "turn_completed") = Count(log, "turn_completed") + Closes
          /\ Count(l, "turn_started") = Count(log, "turn_started")
      BY <1>1, FinalizeCount
    <2>2. e \in Event /\ e.kind = "session_ended"
      BY EventTypes DEF SessionEnd
    <2>3. log' = l \o (IF sessionStarted /\ ~sessionEnded THEN <<e>> ELSE <<>>)
      BY <1>6 DEF ObserveClose
    <2>4. /\ Count(l, "turn_started") \in Nat
          /\ Count(l, "turn_completed") \in Nat
      BY <2>1, CountNat
    <2> HIDE DEF l, e
    <2>5. CASE sessionStarted /\ ~sessionEnded
      <3>1. log' = Append(l, e)
        BY <2>1, <2>2, <2>3, <2>5
      <3>2. /\ Count(log', "turn_started") = Count(l, "turn_started") + 0
            /\ Count(log', "turn_completed") = Count(l, "turn_completed") + 0
        BY <2>1, <2>2, <3>1, AppendCount
      <3> QED
        BY <2>1, <2>4, <3>2
    <2>6. CASE ~(sessionStarted /\ ~sessionEnded)
      <3>1. log' = l
        BY <2>1, <2>3, <2>6
      <3> QED
        BY <2>1, <3>1
    <2> QED
      BY <2>5, <2>6
  <1> QED
    BY <1>3, <1>4, <1>5, <1>6

\* What a subscriber reads off the stream is what the flags say.
EnvelopeFlags ==
  /\ StreamPhase = IF ~sessionStarted THEN "fresh"
                   ELSE IF inTurn THEN "turn" ELSE "idle"
  /\ (Positions("session_ended") # {}) = sessionEnded
  /\ inTurn => sessionStarted
  /\ \A kind : Cardinality(Positions(kind)) = Count(log, kind)

LEMMA EnvelopeIsFlags == TypeOK /\ StreamInv => EnvelopeFlags
  <1> SUFFICES ASSUME TypeOK, StreamInv PROVE EnvelopeFlags
    OBVIOUS
  <1>1. DOMAIN log = 1..Len(log) /\ Len(log) \in Nat
    BY DEF TypeOK
  <1>2. \A kind : Positions(kind) # {} <=> Has(log, kind)
    BY <1>1 DEF Positions, Is, Has, HasIn
  <1>3. inTurn => LatestIs("turn_started", {"turn_completed"})
    BY <1>1 DEF StreamInv, Flags, OpenWith, OpenIn, LatestIs, Positions, Is
  <1>4. ~inTurn => ~LatestIs("turn_started", {"turn_completed"})
    BY <1>1 DEF StreamInv, Flags, AllClosed, ClosedIn, LatestIs, Positions, Is
  <1>5. sessionStarted <=> Positions("session_started") # {}
    BY <1>2 DEF StreamInv, Flags
  <1>6. (Positions("session_ended") # {}) = sessionEnded
    BY <1>2 DEF StreamInv, Flags, TypeOK
  <1>7. \A kind : Cardinality(Positions(kind)) = Count(log, kind)
    BY <1>1 DEF Positions, Is, Count, CountIn, OfKind
  <1> QED
    BY <1>3, <1>4, <1>5, <1>6, <1>7 DEF EnvelopeFlags, StreamPhase, StreamInv, Flags

LEMMA EnvelopeInit == Init => Envelope!Init
  <1> SUFFICES ASSUME Init PROVE Envelope!Init
    OBVIOUS
  <1>1. \A kind : Positions(kind) = {}
    BY DEF Init, Positions
  <1> QED
    BY <1>1, FS_EmptySet DEF Envelope!Init, StreamPhase

\* Every call is a step of the envelope, or leaves it unchanged.
LEMMA EnvelopeStep ==
  TypeOK /\ StreamInv /\ TypeOK' /\ StreamInv' /\ [Next]_vars
    => [Envelope!Next]_(Envelope!vars)
  <1> SUFFICES ASSUME TypeOK, StreamInv, TypeOK', StreamInv', [Next]_vars
               PROVE  [Envelope!Next]_(Envelope!vars)
    OBVIOUS
  <1> DEFINE started   == Cardinality(Positions("turn_started"))
             completed == Cardinality(Positions("turn_completed"))
             phase     == StreamPhase
             ended     == Positions("session_ended") # {}
  <1>1. /\ phase = IF ~sessionStarted THEN "fresh" ELSE IF inTurn THEN "turn" ELSE "idle"
        /\ ended = sessionEnded
        /\ inTurn => sessionStarted
        /\ started = Count(log, "turn_started")
        /\ completed = Count(log, "turn_completed")
    BY EnvelopeIsFlags DEF EnvelopeFlags
  <1>2. /\ phase' = IF ~sessionStarted' THEN "fresh" ELSE IF inTurn' THEN "turn" ELSE "idle"
        /\ ended' = sessionEnded'
        /\ started' = Count(log', "turn_started")
        /\ completed' = Count(log', "turn_completed")
    <2>1. EnvelopeFlags'
      BY EnvelopeIsFlags, PTL
    <2> QED
      BY <2>1 DEF EnvelopeFlags
  <1>3. Closes = IF phase = "turn" THEN 1 ELSE 0
    BY <1>1 DEF Closes
  <1>4. completed \in Nat
    BY <1>1, CountNat DEF TypeOK
  <1> HIDE DEF started, completed, phase, ended
  <1>5. ASSUME NEW previous \in Option(ResponseId), ObserveSend(previous)
        PROVE  phase' = "turn" /\ started' = started + 1
               /\ completed' = completed + Closes /\ ended' = ended
    <2>1. sessionStarted' /\ inTurn' /\ sessionEnded' = sessionEnded
      BY <1>5 DEF ObserveSend
    <2> QED
      BY <1>1, <1>2, <1>5, <2>1, SendCounts
  <1>6. ASSUME \/ ObserveSendError
               \/ \E done \in DoneBody : ObserveDone(done)
               \/ ObserveError
        PROVE  /\ started' = started /\ ended' = ended
               /\ completed' = completed + Closes
               /\ phase' = IF phase = "turn" THEN "idle" ELSE phase
    <2>1. ~inTurn' /\ sessionStarted' = sessionStarted /\ sessionEnded' = sessionEnded
      BY <1>6 DEF ObserveSendError, ObserveDone, ObserveError
    <2>2. /\ Count(log', "turn_started") = Count(log, "turn_started")
          /\ Count(log', "turn_completed") = Count(log, "turn_completed") + Closes
      BY <1>6, OtherCounts
    <2> QED
      BY <1>1, <1>2, <2>1, <2>2
  <1>7. ASSUME NEW reason \in Reason, ObserveClose(reason)
        PROVE  /\ started' = started
               /\ completed' = completed + Closes
               /\ phase' = IF phase = "turn" THEN "idle" ELSE phase
               /\ ended' = (ended \/ phase # "fresh")
    <2>1. /\ ~inTurn' /\ sessionStarted' = sessionStarted
          /\ sessionEnded' = (sessionEnded \/ (sessionStarted /\ ~sessionEnded))
      BY <1>7 DEF ObserveClose
    <2>2. /\ Count(log', "turn_started") = Count(log, "turn_started")
          /\ Count(log', "turn_completed") = Count(log, "turn_completed") + Closes
      BY <1>7, OtherCounts
    <2>3. sessionEnded \in BOOLEAN /\ sessionStarted \in BOOLEAN
      BY DEF TypeOK
    <2> QED
      BY <1>1, <1>2, <2>1, <2>2, <2>3
  <1>8. CASE \E chunk \in Chunk : ObserveResponse(chunk)
    <2>1. UNCHANGED <<sessionStarted, sessionEnded, inTurn, log>>
      BY <1>8 DEF ObserveResponse
    <2> QED
      BY <1>1, <1>2, <2>1 DEF Envelope!vars, started, completed, phase, ended
  <1>9. CASE UNCHANGED vars
    <2>1. UNCHANGED <<sessionStarted, sessionEnded, inTurn, log>>
      BY <1>9 DEF vars
    <2> QED
      BY <1>1, <1>2, <2>1 DEF Envelope!vars, started, completed, phase, ended
  <1> QED
    <2> USE DEF started, completed, phase, ended
    <2>1. CASE \E previous \in Option(ResponseId) : ObserveSend(previous)
      BY <1>3, <1>5, <2>1 DEF Envelope!Next, Envelope!OpenTurn, Envelope!Owed
    <2>2. CASE \/ ObserveSendError
               \/ \E done \in DoneBody : ObserveDone(done)
               \/ ObserveError
      BY <1>3, <1>4, <1>6, <2>2 DEF Envelope!Next, Envelope!CompleteTurn, Envelope!vars
    <2>3. CASE \E reason \in Reason : ObserveClose(reason)
      <3>1. /\ started' = started
            /\ completed' = completed + Closes
            /\ phase' = IF phase = "turn" THEN "idle" ELSE phase
            /\ ended' = (ended \/ phase # "fresh")
        BY <1>7, <2>3
      <3>2. ended \in BOOLEAN /\ phase \in {"fresh", "idle", "turn"}
        BY <1>1
      <3> HIDE DEF started, completed, phase, ended
      <3>3. CASE ~ended /\ phase # "fresh"
        <4>1. ended' = TRUE /\ phase' = "idle"
          BY <3>1, <3>2, <3>3
        <4> QED
          BY <1>3, <3>1, <3>3, <4>1
             DEF Envelope!Next, Envelope!EndSession, Envelope!Owed,
                 started, completed, phase, ended
      <3>4. CASE (ended \/ phase = "fresh") /\ phase = "turn"
        <4>1. ended' = ended
          BY <3>1, <3>2, <3>4
        <4> QED
          BY <1>3, <3>1, <3>4, <4>1
             DEF Envelope!Next, Envelope!CompleteTurn, started, completed, phase, ended
      <3>5. CASE (ended \/ phase = "fresh") /\ phase # "turn"
        <4>1. ended' = ended /\ phase' = phase /\ completed' = completed
          BY <1>3, <1>4, <3>1, <3>2, <3>5
        <4> QED
          BY <3>1, <4>1 DEF Envelope!vars, started, completed, phase, ended
      <3> QED
        BY <3>3, <3>4, <3>5
    <2> QED
      BY <1>8, <1>9, <2>1, <2>2, <2>3 DEF Next

\* Seen through the stream it emits, the observer implements SessionEnvelope,
\* whatever order it is called in.
THEOREM EnvelopeImplemented == Spec => ImplementsEnvelope
  <1>1. Init => Envelope!Init
    BY EnvelopeInit
  <1>2. TypeOK /\ StreamInv /\ TypeOK' /\ StreamInv' /\ [Next]_vars
          => [Envelope!Next]_(Envelope!vars)
    BY EnvelopeStep
  <1> QED
    BY <1>1, <1>2, Typing, StreamInvariant, PTL DEF Spec, ImplementsEnvelope, Envelope!Spec

(***************************************************************************)
(* The facts a completed turn reports                                      *)
(***************************************************************************)

\* The hosted calls invoked in l after the last start of a turn number h.
LastStart(l, n, i) ==
  l[i].kind = "turn_started" /\ \A k \in (i + 1)..n : l[k].kind # "turn_started"

HostedAfter(l, i, n) ==
  CountIn(l, n, "hosted_invoked") - CountIn(l, i, "hosted_invoked")

Counted(l, h) ==
  \A i \in 1..Len(l) : LastStart(l, Len(l), i) => h = HostedAfter(l, i, Len(l))

\* A completion at j counts the hosted calls of its own turn.
CountsAt(l, j) ==
  l[j].kind = "turn_completed" =>
    \A i \in 1..(j - 1) :
      LastStart(l, j - 1, i) => l[j].hosted = HostedAfter(l, i, j - 1)

AllCount(l) == \A j \in 1..Len(l) : CountsAt(l, j)

HostedInv == AllCount(log) /\ (inTurn => Counted(log, turn.hosted))

\* Whether a completion counts right depends on the events up to it only.
LEMMA CountsPrefix ==
  ASSUME NEW l, NEW m, NEW j \in Nat \ {0}, \A i \in 1..j : l[i] = m[i],
         CountsAt(l, j)
  PROVE  CountsAt(m, j)
  <1> SUFFICES ASSUME m[j].kind = "turn_completed", NEW i \in 1..(j - 1),
                      LastStart(m, j - 1, i)
               PROVE  m[j].hosted = HostedAfter(m, i, j - 1)
    BY DEF CountsAt
  <1>1. l[j] = m[j] /\ LastStart(l, j - 1, i)
    BY DEF LastStart
  <1>2. l[j].hosted = HostedAfter(l, i, j - 1)
    BY <1>1 DEF CountsAt
  <1>3. HostedAfter(l, i, j - 1) = HostedAfter(m, i, j - 1)
    <2>1. j - 1 \in Nat /\ i \in Nat
      OBVIOUS
    <2>2. CountIn(l, j - 1, "hosted_invoked") = CountIn(m, j - 1, "hosted_invoked")
      BY <2>1, CountPrefix
    <2>3. CountIn(l, i, "hosted_invoked") = CountIn(m, i, "hosted_invoked")
      BY <2>1, CountPrefix
    <2> QED
      BY <2>2, <2>3 DEF HostedAfter
  <1> QED
    BY <1>1, <1>2, <1>3

\* Appending events of which none completes a turn.
LEMMA ConcatCounts ==
  ASSUME NEW S, NEW l \in Seq(S), NEW es \in Seq(S), AllCount(l),
         \A i \in 1..Len(es) : es[i].kind # "turn_completed"
  PROVE  AllCount(l \o es)
  <1> DEFINE m == l \o es
  <1>1. /\ Len(l) \in Nat /\ Len(m) \in Nat /\ Len(l) <= Len(m)
        /\ \A i \in 1..Len(l) : m[i] = l[i]
        /\ \A i \in (Len(l) + 1)..Len(m) : m[i].kind # "turn_completed"
    OBVIOUS
  <1> HIDE DEF m
  <1> SUFFICES ASSUME NEW j \in 1..Len(m) PROVE CountsAt(m, j)
    BY DEF AllCount, m
  <1>2. CASE j \in 1..Len(l)
    <2>1. j \in Nat \ {0} /\ \A i \in 1..j : l[i] = m[i]
      BY <1>1, <1>2
    <2>2. CountsAt(l, j)
      BY <1>2 DEF AllCount
    <2> QED
      BY <2>1, <2>2, CountsPrefix
  <1>3. CASE j \in (Len(l) + 1)..Len(m)
    BY <1>1, <1>3 DEF CountsAt
  <1> QED
    BY <1>1, <1>2, <1>3

\* finalize_turn, with the fields t of a turn that counted its hosted calls.
LEMMA FinalizeCounts ==
  ASSUME NEW l \in Seq(Event), NEW t \in FinalTurn, AllCount(l),
         inTurn => Counted(l, t.hosted)
  PROVE  AllCount(l \o FinalizeEvents(t))
  <1>1. CASE inTurn
    <2> DEFINE e == TurnCompleted(t)
               m == Append(l, e)
    <2>1. e \in Event /\ e.kind = "turn_completed" /\ e.hosted = t.hosted
      BY EventTypes DEF TurnCompleted
    <2>2. l \o FinalizeEvents(t) = l \o <<e>>
      BY <1>1 DEF FinalizeEvents
    <2> HIDE DEF e
    <2>3. l \o FinalizeEvents(t) = m
      BY <2>1, <2>2
    <2>4. /\ Len(l) \in Nat
          /\ Len(m) = Len(l) + 1
          /\ \A i \in 1..Len(l) : m[i] = l[i]
          /\ m[Len(l) + 1] = e
      BY <2>1, AppendEntries
    <2> HIDE DEF m
    <2>5. ASSUME NEW j \in 1..Len(l) PROVE CountsAt(m, j)
      <3>1. j \in Nat \ {0} /\ \A i \in 1..j : l[i] = m[i]
        BY <2>4
      <3>2. CountsAt(l, j)
        BY DEF AllCount
      <3> QED
        BY <3>1, <3>2, CountsPrefix
    <2>6. CountsAt(m, Len(l) + 1)
      <3> SUFFICES ASSUME NEW i \in 1..Len(l), LastStart(m, Len(l), i)
                   PROVE  t.hosted = HostedAfter(m, i, Len(l))
        BY <2>1, <2>4 DEF CountsAt
      <3>1. LastStart(l, Len(l), i)
        BY <2>4 DEF LastStart
      <3>2. t.hosted = HostedAfter(l, i, Len(l))
        BY <1>1, <3>1 DEF Counted
      <3>3. i \in Nat /\ \A k \in 1..i : m[k] = l[k]
        BY <2>4
      <3>4. CountIn(m, i, "hosted_invoked") = CountIn(l, i, "hosted_invoked")
        BY <3>3, CountPrefix
      <3>5. \A k \in 1..Len(l) : m[k] = l[k]
        BY <2>4
      <3>6. CountIn(m, Len(l), "hosted_invoked") = CountIn(l, Len(l), "hosted_invoked")
        BY <2>4, <3>5, CountPrefix
      <3> QED
        BY <3>2, <3>4, <3>6 DEF HostedAfter
    <2> QED
      BY <2>3, <2>4, <2>5, <2>6 DEF AllCount
  <1>2. CASE ~inTurn
    <2>1. l \o FinalizeEvents(t) = l
      BY <1>2 DEF FinalizeEvents
    <2> QED
      BY <2>1
  <1> QED
    BY <1>1, <1>2

\* The events of n hosted calls are n invocations, each with its completion.
LEMMA HostedCount ==
  ASSUME NEW l \in Seq(Event), NEW response \in Option(ResponseId), NEW n \in Nat
  PROVE  Count(l \o HostedEvents(response, n), "hosted_invoked") =
           Count(l, "hosted_invoked") + n
  <1> DEFINE es == HostedEvents(response, n)
             m  == l \o es
             old == OfKind(l, Len(l), "hosted_invoked")
             new == {i \in (Len(l) + 1)..Len(m) : m[i].kind = "hosted_invoked"}
  <1>1. /\ es \in Seq(Event)
        /\ Len(es) = 2 * n
        /\ \A i \in 1..(2 * n) :
             es[i].kind = IF i % 2 = 1 THEN "hosted_invoked" ELSE "hosted_completed"
    <2>1. es \in Seq(Event)
      BY HostedTypes
    <2> QED
      BY <2>1 DEF HostedEvents
  <1> HIDE DEF es
  <1>2. /\ m \in Seq(Event)
        /\ Len(l) \in Nat
        /\ Len(m) = Len(l) + 2 * n
        /\ \A i \in 1..Len(l) : m[i] = l[i]
        /\ \A i \in 1..(2 * n) : m[Len(l) + i] = es[i]
    BY <1>1
  <1> HIDE DEF m
  <1>3. new = {Len(l) + 2 * k - 1 : k \in 1..n}
    <2>1. ASSUME NEW i \in new PROVE \E k \in 1..n : i = Len(l) + 2 * k - 1
      <3>1. /\ i - Len(l) \in 1..(2 * n)
            /\ m[Len(l) + (i - Len(l))] = es[i - Len(l)]
            /\ Len(l) + (i - Len(l)) = i
        BY <1>2
      <3>2. (i - Len(l)) % 2 = 1
        BY <1>1, <3>1
      <3> DEFINE d == i - Len(l)
                 k == (d + 1) \div 2
      <3>3. \A x \in Nat : x % 2 = 1 => x = 2 * ((x + 1) \div 2) - 1
        OBVIOUS
      <3>4. d \in Nat /\ d = 2 * k - 1
        BY <3>1, <3>2, <3>3
      <3>5. k \in Int
        BY <3>4
      <3>6. i = Len(l) + d /\ d \in 1..(2 * n)
        BY <1>2, <3>1
      <3> HIDE DEF d, k
      <3>7. k \in 1..n /\ i = Len(l) + 2 * k - 1
        BY <1>2, <3>4, <3>5, <3>6
      <3> QED
        BY <3>7
    <2>2. ASSUME NEW k \in 1..n PROVE Len(l) + 2 * k - 1 \in new
      <3>1. 2 * k - 1 \in 1..(2 * n) /\ (2 * k - 1) % 2 = 1
        OBVIOUS
      <3>2. m[Len(l) + (2 * k - 1)].kind = "hosted_invoked"
        BY <1>1, <1>2, <3>1
      <3>3. /\ Len(l) + 2 * k - 1 = Len(l) + (2 * k - 1)
            /\ Len(l) + 2 * k - 1 \in (Len(l) + 1)..Len(m)
        BY <1>2, <3>1
      <3> QED
        BY <3>2, <3>3
    <2> QED
      BY <2>1, <2>2
  <1>4. IsFiniteSet(new) /\ Cardinality(new) = n
    <2> DEFINE f == [k \in 1..n |-> Len(l) + 2 * k - 1]
    <2>1. f \in Bijection(1..n, new)
      <3>1. f \in [1..n -> new]
        BY <1>3
      <3>2. \A a, b \in 1..n : f[a] = f[b] => a = b
        BY <1>2
      <3>3. \A y \in new : \E a \in 1..n : f[a] = y
        BY <1>3
      <3> QED
        BY <3>1, <3>2, <3>3 DEF Bijection, Injection, Surjection, IsInjective
    <2>2. ExistsBijection(1..n, new)
      BY <2>1 DEF ExistsBijection
    <2> HIDE DEF new
    <2>3. Cardinality(new) = n
      BY <2>2, FS_CountingElements
    <2>4. IsFiniteSet(1..n)
      BY FS_Interval
    <2>5. IsFiniteSet(new)
      BY <2>2, <2>4, FS_Bijection
    <2> QED
      BY <2>3, <2>5
  <1>5. OfKind(m, Len(m), "hosted_invoked") = old \cup new
    BY <1>2 DEF OfKind
  <1>6. old \cap new = {}
    BY <1>2 DEF OfKind
  <1>7. IsFiniteSet(old)
    BY <1>2, CountType
  <1> HIDE DEF old, new
  <1>8. Cardinality(old \cup new) = Cardinality(old) + Cardinality(new) - Cardinality({})
    BY <1>4, <1>6, <1>7, FS_Union
  <1>9. Cardinality(old) \in Nat
    BY <1>7, FS_CardinalityType
  <1>10. Cardinality(old \cup new) = Cardinality(old) + n
    BY <1>4, <1>8, <1>9, FS_EmptySet
  <1> QED
    BY <1>5, <1>10 DEF Count, CountIn, old, m, es

\* So they raise what the open turn has counted by n.
LEMMA HostedCounted ==
  ASSUME NEW l \in Seq(Event), NEW response \in Option(ResponseId), NEW n \in Nat,
         NEW h \in Nat, Counted(l, h)
  PROVE  Counted(l \o HostedEvents(response, n), h + n)
  <1> DEFINE es == HostedEvents(response, n)
             m  == l \o es
  <1>1. Count(m, "hosted_invoked") = Count(l, "hosted_invoked") + n
    BY HostedCount
  <1>2. /\ es \in Seq(Event)
        /\ \A i \in 1..Len(es) : es[i].kind \in {"hosted_invoked", "hosted_completed"}
    BY HostedTypes
  <1> HIDE DEF es
  <1>3. /\ Len(l) \in Nat /\ Len(m) \in Nat /\ Len(l) <= Len(m)
        /\ \A i \in 1..Len(l) : m[i] = l[i]
        /\ \A i \in (Len(l) + 1)..Len(m) : m[i].kind # "turn_started"
    BY <1>2
  <1> HIDE DEF m
  <1> SUFFICES ASSUME NEW i \in 1..Len(m), LastStart(m, Len(m), i)
               PROVE  h + n = HostedAfter(m, i, Len(m))
    BY DEF Counted, m, es
  <1>4. i \in 1..Len(l) /\ LastStart(l, Len(l), i)
    BY <1>3 DEF LastStart
  <1>5. h = HostedAfter(l, i, Len(l))
    BY <1>4 DEF Counted
  <1>6. i \in Nat /\ \A k \in 1..i : m[k] = l[k]
    BY <1>3, <1>4
  <1>7. CountIn(m, i, "hosted_invoked") = CountIn(l, i, "hosted_invoked")
    BY <1>6, CountPrefix
  <1>8. /\ CountIn(l, i, "hosted_invoked") \in Nat
        /\ CountIn(l, Len(l), "hosted_invoked") \in Nat
    BY <1>3, <1>6, CountType
  <1> QED
    BY <1>1, <1>5, <1>7, <1>8 DEF HostedAfter, Count

\* A turn that has just started has counted none.
LEMMA StartCounted ==
  ASSUME NEW l \in Seq(Event), NEW e \in Event, e.kind = "turn_started"
  PROVE  Counted(Append(l, e), 0)
  <1> DEFINE m == Append(l, e)
  <1>1. /\ Len(l) \in Nat
        /\ Len(m) = Len(l) + 1
        /\ m[Len(l) + 1] = e
    BY AppendEntries
  <1> HIDE DEF m
  <1> SUFFICES ASSUME NEW i \in 1..Len(m), LastStart(m, Len(m), i)
               PROVE  0 = HostedAfter(m, i, Len(m))
    BY DEF Counted, m
  <1>2. i = Len(m)
    <2> SUFFICES ASSUME i # Len(m) PROVE FALSE
      OBVIOUS
    <2>1. Len(m) \in (i + 1)..Len(m)
      BY <1>1
    <2> QED
      BY <1>1, <2>1 DEF LastStart
  <1>3. CountIn(m, Len(m), "hosted_invoked") \in Nat
    <2>1. Len(m) \in Nat
      BY <1>1
    <2> QED
      BY <2>1, CountType
  <1> QED
    BY <1>2, <1>3 DEF HostedAfter

\* Every call keeps the count of hosted calls right.
LEMMA HostedStep == TypeOK /\ HostedInv /\ [Next]_vars => HostedInv'
  <1> SUFFICES ASSUME TypeOK, HostedInv, [Next]_vars PROVE HostedInv'
    OBVIOUS
  <1>1. log \in Seq(Event) /\ turn \in FinalTurn /\ turn.hosted \in Nat
    BY DEF TypeOK, FinalTurn, Option
  <1>2. AllCount(log) /\ (inTurn => Counted(log, turn.hosted))
    BY DEF HostedInv
  \* A call that only finalizes the open turn, with the fields t.
  <1>3. ASSUME NEW t \in FinalTurn, t.hosted = turn.hosted,
               log' = log \o FinalizeEvents(t), inTurn' = FALSE
        PROVE  HostedInv'
    <2>1. AllCount(log \o FinalizeEvents(t))
      BY <1>1, <1>2, <1>3, FinalizeCounts
    <2> QED
      BY <1>3, <2>1 DEF HostedInv
  <1>4. ASSUME NEW previous \in Option(ResponseId), ObserveSend(previous)
        PROVE  HostedInv'
    <2> DEFINE l1 == log \o FinalizeEvents(turn)
               l2 == l1 \o StartEvents
               e  == TurnStarted(previous)
    <2>1. l1 \in Seq(Event) /\ AllCount(l1)
      BY <1>1, <1>2, FinalizeCount, FinalizeCounts
    <2> HIDE DEF l1
    <2>2. /\ StartEvents \in Seq(Event)
          /\ \A i \in 1..Len(StartEvents) : StartEvents[i].kind # "turn_completed"
      BY EventTypes DEF StartEvents, SessionStarted
    <2>3. l2 \in Seq(Event) /\ AllCount(l2)
      BY <2>1, <2>2, ConcatCounts
    <2>4. e \in Event /\ e.kind = "turn_started"
      BY EventTypes DEF TurnStarted
    <2>5. log' = l2 \o <<e>> /\ turn'.hosted = 0
      BY <1>4 DEF ObserveSend, FreshTurn, ClearedTurn, l1
    <2> HIDE DEF l2, e
    <2>6. log' = Append(l2, e)
      BY <2>3, <2>4, <2>5
    <2>7. Counted(log', 0)
      BY <2>3, <2>4, <2>6, StartCounted
    <2>8. AllCount(log')
      <3>1. <<e>> \in Seq(Event) /\ \A i \in 1..Len(<<e>>) : <<e>>[i].kind # "turn_completed"
        BY <2>4
      <3>2. AllCount(l2 \o <<e>>)
        BY <2>3, <3>1, ConcatCounts
      <3> QED
        BY <2>5, <3>2
    <2> QED
      BY <2>5, <2>7, <2>8 DEF HostedInv
  <1>5. CASE ObserveSendError
    <2> DEFINE t == [turn EXCEPT !.status = "send_error"]
    <2>1. t \in FinalTurn /\ t.hosted = turn.hosted
      BY <1>1 DEF FinalTurn, Option
    <2>2. log' = log \o FinalizeEvents(t) /\ inTurn' = FALSE
      BY <1>5 DEF ObserveSendError
    <2> HIDE DEF t
    <2> QED
      BY <1>3, <2>1, <2>2
  <1>6. ASSUME NEW chunk \in Chunk, ObserveResponse(chunk)
        PROVE  HostedInv'
    <2>1. turn'.hosted = turn.hosted
      BY <1>1, <1>6 DEF ObserveResponse, FinalTurn
    <2>2. log' = log /\ inTurn' = inTurn
      BY <1>6 DEF ObserveResponse
    <2> QED
      BY <1>2, <2>1, <2>2 DEF HostedInv
  <1>7. ASSUME NEW done \in DoneBody, ObserveDone(done)
        PROVE  HostedInv'
    <2> DEFINE t  == AbsorbDone(turn, done)
               es == HostedEvents(t.response, done.hosted)
               l  == log \o es
    <2>1. /\ t \in FinalTurn /\ t.response \in Option(ResponseId)
          /\ t.hosted = turn.hosted + done.hosted
      <3>1. /\ OrElse(done.id, turn.response) \in Option(ResponseId)
            /\ OrElse(done.status, turn.status)
                 \in Option(WireStatus \cup TerminalKind \cup {"error", "send_error"})
            /\ OrElse(done.usage, turn.usage) \in Option(Usage)
        BY <1>1, <1>7, DoneAssumption DEF DoneBody, OrElse, Option, FinalTurn
      <3>2. turn.hosted + done.hosted \in Nat
        BY <1>1, <1>7, BoundsAssumption DEF DoneBody, FinalTurn
      <3> QED
        BY <1>1, <3>1, <3>2 DEF AbsorbDone, FinalTurn
    <2>2. log' = l \o FinalizeEvents(t) /\ inTurn' = FALSE /\ done.hosted \in Nat
      BY <1>7, BoundsAssumption DEF ObserveDone, DoneBody
    <2> HIDE DEF t
    <2>3. inTurn => Counted(l, t.hosted)
      BY <1>1, <1>2, <2>1, <2>2, HostedCounted
    <2>4. /\ es \in Seq(Event)
          /\ \A i \in 1..Len(es) : es[i].kind \in {"hosted_invoked", "hosted_completed"}
      BY <2>1, <2>2, HostedTypes
    <2> HIDE DEF es
    <2>5. \A i \in 1..Len(es) : es[i].kind # "turn_completed"
      BY <2>4
    <2>6. l \in Seq(Event) /\ AllCount(l)
      BY <1>1, <1>2, <2>4, <2>5, ConcatCounts
    <2> HIDE DEF l
    <2>7. AllCount(l \o FinalizeEvents(t))
      BY <2>1, <2>3, <2>6, FinalizeCounts
    <2> QED
      BY <2>2, <2>7 DEF HostedInv
  <1>8. CASE ObserveError
    <2> DEFINE t == [turn EXCEPT !.status = OrElse(@, "error")]
    <2>1. t \in FinalTurn /\ t.hosted = turn.hosted
      BY <1>1 DEF FinalTurn, Option, OrElse
    <2>2. log' = log \o FinalizeEvents(t) /\ inTurn' = FALSE
      BY <1>8 DEF ObserveError
    <2> HIDE DEF t
    <2> QED
      BY <1>3, <2>1, <2>2
  <1>9. ASSUME NEW reason \in Reason, ObserveClose(reason)
        PROVE  HostedInv'
    <2> DEFINE l  == log \o FinalizeEvents(turn)
               es == IF sessionStarted /\ ~sessionEnded
                       THEN <<SessionEnd(reason)>> ELSE <<>>
    <2>1. l \in Seq(Event) /\ AllCount(l)
      BY <1>1, <1>2, FinalizeCount, FinalizeCounts
    <2>2. es \in Seq(Event) /\ \A i \in 1..Len(es) : es[i].kind # "turn_completed"
      BY EventTypes DEF SessionEnd
    <2>3. log' = l \o es /\ inTurn' = FALSE
      BY <1>9 DEF ObserveClose
    <2> HIDE DEF l, es
    <2>4. AllCount(log')
      BY <2>1, <2>2, <2>3, ConcatCounts
    <2> QED
      BY <2>3, <2>4 DEF HostedInv
  <1>10. CASE UNCHANGED vars
    BY <1>2, <1>10 DEF vars, HostedInv
  <1> QED
    BY <1>4, <1>5, <1>6, <1>7, <1>8, <1>9, <1>10 DEF Next

\* hosted_tool_calls is the number of hosted calls invoked in the turn.
LEMMA HostedIsExact == TypeOK /\ HostedInv => HostedCountExact
  <1> SUFFICES ASSUME TypeOK, HostedInv, NEW i \in DOMAIN log, NEW j \in DOMAIN log,
                      i < j, Is(i, "turn_started"), Is(j, "turn_completed"),
                      NoneBetween("turn_started", i, j)
               PROVE  log[j].hosted =
                        Cardinality({k \in (i + 1)..(j - 1) : Is(k, "hosted_invoked")})
    BY DEF HostedCountExact
  <1> DEFINE until(n) == OfKind(log, n, "hosted_invoked")
             between  == {k \in (i + 1)..(j - 1) : Is(k, "hosted_invoked")}
  <1>1. i \in Nat /\ j - 1 \in Nat /\ i \in 1..(j - 1) /\ j \in 1..Len(log)
    BY DEF TypeOK
  <1>2. log[j].hosted = HostedAfter(log, i, j - 1)
    BY <1>1 DEF HostedInv, AllCount, CountsAt, LastStart, NoneBetween, Is
  <1>3. /\ IsFiniteSet(until(i)) /\ IsFiniteSet(until(j - 1))
        /\ CountIn(log, i, "hosted_invoked") = Cardinality(until(i))
        /\ CountIn(log, j - 1, "hosted_invoked") = Cardinality(until(j - 1))
    <2>1. IsFiniteSet(until(i))
      BY <1>1, CountType
    <2>2. IsFiniteSet(until(j - 1))
      BY <1>1, CountType
    <2> QED
      BY <2>1, <2>2 DEF CountIn
  <1>4. between = until(j - 1) \ until(i) /\ until(j - 1) \cap until(i) = until(i)
    BY <1>1 DEF Is, OfKind
  <1> HIDE DEF until, between
  <1>5. Cardinality(between) = Cardinality(until(j - 1)) - Cardinality(until(i))
    BY <1>3, <1>4, FS_Difference
  <1> QED
    BY <1>2, <1>3, <1>5 DEF HostedAfter, between

\* The facts of the open turn were reported since its send.
FactsInv == inTurn => {turn.response, turn.status, turn.usage} \subseteq heard \cup {None}

LEMMA FactsStep == FactsInv /\ TypeOK /\ [Next]_vars => FactsInv'
  <1> SUFFICES ASSUME FactsInv, TypeOK, [Next]_vars, inTurn'
               PROVE  {turn'.response, turn'.status, turn'.usage} \subseteq heard' \cup {None}
    BY DEF FactsInv
  <1>1. CASE \E previous \in Option(ResponseId) : ObserveSend(previous)
    BY <1>1 DEF ObserveSend, FreshTurn, ClearedTurn
  <1>2. ASSUME NEW chunk \in Chunk, ObserveResponse(chunk)
        PROVE  {turn'.response, turn'.status, turn'.usage} \subseteq heard' \cup {None}
    <2>1. inTurn
      BY <1>2 DEF ObserveResponse
    <2>2. /\ turn'.response = chunk.id
          /\ turn'.status = ResponseStatusString(chunk.kind, chunk.status)
          /\ turn'.usage = OrElse(chunk.usage, turn.usage)
          /\ heard' = heard \cup ChunkFacts(chunk)
      BY <1>2 DEF ObserveResponse, TypeOK
    <2> QED
      BY <2>1, <2>2 DEF FactsInv, ChunkFacts, OrElse
  <1>3. CASE UNCHANGED vars
    BY <1>3 DEF vars, FactsInv
  <1> QED
    BY <1>1, <1>2, <1>3
       DEF Next, ObserveSendError, ObserveDone, ObserveError, ObserveClose

\* The completions a step emits carry facts heard since the send of the turn.
OwnFacts ==
  \A j \in (Len(log) + 1)..Len(log') :
    log'[j].kind = "turn_completed" =>
      {log'[j].response, log'[j].status, log'[j].usage}
        \subseteq heard \cup heard' \cup {"", "completed", "error", "send_error", None}

\* The fields of a completion that the turn takes from what it heard.
Facts(e) == {e.response, e.status, e.usage}

NoTurns(l) == \A i \in 1..Len(l) : l[i].kind # "turn_completed"

AllWithin(l, facts) == \A i \in 1..Len(l) : Facts(l[i]) \subseteq facts

TurnsWithin(l, n, facts) ==
  \A j \in (n + 1)..Len(l) :
    l[j].kind = "turn_completed" => Facts(l[j]) \subseteq facts

\* What a step appends to the log, when finalize_turn reports the fields fs.
LEMMA AppendedFacts ==
  ASSUME NEW l \in Seq(Event), NEW es \in Seq(Event), NEW fs \in Seq(Event),
         NEW gs \in Seq(Event), NEW facts,
         NoTurns(es), NoTurns(gs), AllWithin(fs, facts)
  PROVE  TurnsWithin(l \o es \o fs \o gs, Len(l), facts)
  <1> DEFINE m == l \o es \o fs \o gs
  <1> SUFFICES ASSUME NEW j \in (Len(l) + 1)..Len(m), m[j].kind = "turn_completed"
               PROVE  Facts(m[j]) \subseteq facts
    BY DEF TurnsWithin
  <1> USE DEF NoTurns, AllWithin
  <1>1. /\ Len(l) \in Nat /\ Len(es) \in Nat /\ Len(fs) \in Nat /\ Len(gs) \in Nat
        /\ Len(m) = Len(l) + Len(es) + Len(fs) + Len(gs)
    OBVIOUS
  <1>2. CASE j <= Len(l) + Len(es)
    <2>1. j - Len(l) \in 1..Len(es) /\ m[j] = es[j - Len(l)]
      BY <1>1, <1>2
    <2> QED
      BY <2>1
  <1>3. CASE j > Len(l) + Len(es) /\ j <= Len(l) + Len(es) + Len(fs)
    <2> DEFINE i == j - Len(l) - Len(es)
    <2>1. i \in 1..Len(fs) /\ m[j] = fs[i]
      BY <1>1, <1>3
    <2> HIDE DEF i
    <2> QED
      BY <2>1
  <1>4. CASE j > Len(l) + Len(es) + Len(fs)
    <2> DEFINE i == j - Len(l) - Len(es) - Len(fs)
    <2>1. i \in 1..Len(gs) /\ m[j] = gs[i]
      BY <1>1, <1>4
    <2> HIDE DEF i
    <2> QED
      BY <2>1
  <1> QED
    BY <1>1, <1>2, <1>3, <1>4

LEMMA OwnFactsStep ==
  TypeOK /\ FactsInv /\ [Next]_vars => [OwnFacts]_vars
  <1> SUFFICES ASSUME TypeOK, FactsInv, Next PROVE OwnFacts
    OBVIOUS
  <1> DEFINE facts == heard \cup heard' \cup {"", "completed", "error", "send_error", None}
  <1>1. log \in Seq(Event) /\ turn \in FinalTurn
    BY DEF TypeOK, FinalTurn, Option
  <1>2. inTurn => {turn.response, turn.status, turn.usage} \subseteq facts
    BY DEF FactsInv
  \* A call that emits es, then the completion of t, then gs.
  <1>3. ASSUME NEW t \in FinalTurn, NEW es \in Seq(Event), NEW gs \in Seq(Event),
               log' = log \o es \o FinalizeEvents(t) \o gs,
               \A i \in 1..Len(es) : es[i].kind # "turn_completed",
               \A i \in 1..Len(gs) : gs[i].kind # "turn_completed",
               inTurn => {t.response, t.status, t.usage} \subseteq facts
        PROVE  OwnFacts
    <2> HIDE DEF facts
    <2>1. /\ FinalizeEvents(t) \in Seq(Event)
          /\ \A i \in 1..Len(FinalizeEvents(t)) :
               FinalizeEvents(t)[i] = TurnCompleted(t) /\ inTurn
      BY <1>3, EventTypes DEF FinalizeEvents
    <2>2. "" \in facts /\ "completed" \in facts
      BY DEF facts
    <2>3. inTurn => {TurnCompleted(t).response, TurnCompleted(t).status,
                     TurnCompleted(t).usage} \subseteq facts
      BY <1>3, <2>2 DEF TurnCompleted, OrElse
    <2>4. \A i \in 1..Len(FinalizeEvents(t)) :
            {FinalizeEvents(t)[i].response, FinalizeEvents(t)[i].status,
             FinalizeEvents(t)[i].usage} \subseteq facts
      BY <2>1, <2>3
    <2>5. \A j \in (Len(log) + 1)..Len(log') : log'[j].kind = "turn_completed" =>
            {log'[j].response, log'[j].status, log'[j].usage} \subseteq facts
      <3> DEFINE fs == FinalizeEvents(t)
      <3>1. log' = log \o es \o fs \o gs
        BY <1>3
      <3>2. fs \in Seq(Event) /\ AllWithin(fs, facts)
        BY <2>1, <2>4 DEF AllWithin, Facts
      <3>3. NoTurns(es) /\ NoTurns(gs)
        BY <1>3 DEF NoTurns
      <3> HIDE DEF fs
      <3>4. TurnsWithin(log \o es \o fs \o gs, Len(log), facts)
        BY <1>1, <3>2, <3>3, AppendedFacts
      <3> QED
        BY <3>1, <3>4 DEF TurnsWithin, Facts
    <2> QED
      BY <2>5 DEF OwnFacts, facts
  <1>4. \A x \in Seq(Event), y \in Seq(Event) : x \o <<>> \o y \o <<>> = x \o y
    OBVIOUS
  <1>5. <<>> \in Seq(Event) /\ \A i \in 1..Len(<<>>) : <<>>[i].kind # "turn_completed"
    OBVIOUS
  <1>6. ASSUME NEW previous \in Option(ResponseId), ObserveSend(previous)
        PROVE  OwnFacts
    <2> DEFINE fs == FinalizeEvents(turn)
               e  == TurnStarted(previous)
               gs == StartEvents \o <<e>>
    <2>1. fs \in Seq(Event)
      BY <1>1, EventTypes DEF FinalizeEvents
    <2>2. /\ StartEvents \in Seq(Event)
          /\ \A i \in 1..Len(StartEvents) : StartEvents[i].kind # "turn_completed"
      BY EventTypes DEF StartEvents, SessionStarted
    <2>3. e \in Event /\ e.kind # "turn_completed"
      BY EventTypes DEF TurnStarted
    <2>4. log' = log \o fs \o StartEvents \o <<e>>
      BY <1>6 DEF ObserveSend
    <2> HIDE DEF fs, e
    <2>5. gs \in Seq(Event) /\ \A i \in 1..Len(gs) : gs[i].kind # "turn_completed"
      BY <2>2, <2>3
    <2>6. log' = log \o <<>> \o fs \o gs
      <3>1. \A a, b, c, d \in Seq(Event) : a \o b \o c \o d = a \o <<>> \o b \o (c \o d)
        OBVIOUS
      <3>2. <<e>> \in Seq(Event)
        BY <2>3
      <3> QED
        BY <1>1, <2>1, <2>2, <2>4, <3>1, <3>2
    <2> HIDE DEF gs
    <2> QED
      BY <1>1, <1>2, <1>3, <1>5, <2>5, <2>6 DEF fs
  <1>7. CASE ObserveSendError
    <2> DEFINE t == [turn EXCEPT !.status = "send_error"]
    <2>1. /\ t \in FinalTurn
          /\ inTurn => {t.response, t.status, t.usage} \subseteq facts
      BY <1>1, <1>2 DEF FinalTurn, Option
    <2>2. log' = log \o FinalizeEvents(t)
      BY <1>7 DEF ObserveSendError
    <2> HIDE DEF t, facts
    <2>3. FinalizeEvents(t) \in Seq(Event)
      BY <2>1, EventTypes DEF FinalizeEvents
    <2>4. log' = log \o <<>> \o FinalizeEvents(t) \o <<>>
      BY <1>1, <1>4, <2>2, <2>3
    <2> QED
      BY <1>3, <1>5, <2>1, <2>4
  <1>8. CASE \E chunk \in Chunk : ObserveResponse(chunk)
    <2>1. log' = log /\ Len(log) \in Nat
      BY <1>1, <1>8 DEF ObserveResponse
    <2>2. (Len(log) + 1)..Len(log') = {}
      BY <2>1
    <2> QED
      BY <2>2 DEF OwnFacts
  <1>9. ASSUME NEW done \in DoneBody, ObserveDone(done)
        PROVE  OwnFacts
    <2> DEFINE t  == AbsorbDone(turn, done)
               es == HostedEvents(t.response, done.hosted)
    <2>1. /\ t \in FinalTurn /\ t.response \in Option(ResponseId)
          /\ inTurn => {t.response, t.status, t.usage} \subseteq facts
      <3>1. /\ OrElse(done.id, turn.response) \in Option(ResponseId)
            /\ OrElse(done.status, turn.status)
                 \in Option(WireStatus \cup TerminalKind \cup {"error", "send_error"})
            /\ OrElse(done.usage, turn.usage) \in Option(Usage)
        BY <1>1, <1>9, DoneAssumption DEF DoneBody, OrElse, Option, FinalTurn
      <3>2. turn.hosted + done.hosted \in Nat
        BY <1>1, <1>9, BoundsAssumption DEF DoneBody, FinalTurn
      <3>3. /\ t.response = OrElse(done.id, turn.response)
            /\ t.status = OrElse(done.status, turn.status)
            /\ t.usage = OrElse(done.usage, turn.usage)
        BY <1>1 DEF AbsorbDone, FinalTurn
      <3>4. DoneFacts(done) \subseteq facts
        BY <1>9 DEF ObserveDone
      <3>5. inTurn => {t.response, t.status, t.usage} \subseteq facts
        BY <1>2, <3>3, <3>4 DEF DoneFacts, OrElse
      <3>6. t \in FinalTurn
        BY <1>1, <3>1, <3>2 DEF AbsorbDone, FinalTurn
      <3> QED
        BY <3>1, <3>3, <3>5, <3>6
    <2>2. log' = log \o es \o FinalizeEvents(t) /\ done.hosted \in Nat
      BY <1>9, BoundsAssumption DEF ObserveDone, DoneBody
    <2> HIDE DEF t, facts
    <2>3. /\ es \in Seq(Event)
          /\ \A i \in 1..Len(es) : es[i].kind \in {"hosted_invoked", "hosted_completed"}
      BY <2>1, <2>2, HostedTypes
    <2> HIDE DEF es
    <2>4. \A i \in 1..Len(es) : es[i].kind # "turn_completed"
      BY <2>3
    <2>5. FinalizeEvents(t) \in Seq(Event)
      BY <2>1, EventTypes DEF FinalizeEvents
    <2>6. log' = log \o es \o FinalizeEvents(t) \o <<>>
      <3>1. \A a, b, c \in Seq(Event) : a \o b \o c = a \o b \o c \o <<>>
        OBVIOUS
      <3> QED
        BY <1>1, <2>2, <2>3, <2>5, <3>1
    <2> QED
      BY <1>3, <1>5, <2>1, <2>3, <2>4, <2>6
  <1>10. CASE ObserveError
    <2> DEFINE t == [turn EXCEPT !.status = OrElse(@, "error")]
    <2>1. /\ t \in FinalTurn
          /\ inTurn => {t.response, t.status, t.usage} \subseteq facts
      BY <1>1, <1>2 DEF FinalTurn, Option, OrElse
    <2>2. log' = log \o FinalizeEvents(t)
      BY <1>10 DEF ObserveError
    <2> HIDE DEF t, facts
    <2>3. FinalizeEvents(t) \in Seq(Event)
      BY <2>1, EventTypes DEF FinalizeEvents
    <2>4. log' = log \o <<>> \o FinalizeEvents(t) \o <<>>
      BY <1>1, <1>4, <2>2, <2>3
    <2> QED
      BY <1>3, <1>5, <2>1, <2>4
  <1>11. ASSUME NEW reason \in Reason, ObserveClose(reason)
         PROVE  OwnFacts
    <2> DEFINE fs == FinalizeEvents(turn)
               gs == IF sessionStarted /\ ~sessionEnded
                       THEN <<SessionEnd(reason)>> ELSE <<>>
    <2>1. fs \in Seq(Event)
      BY <1>1, EventTypes DEF FinalizeEvents
    <2>2. gs \in Seq(Event) /\ \A i \in 1..Len(gs) : gs[i].kind # "turn_completed"
      BY EventTypes DEF SessionEnd
    <2>3. log' = log \o fs \o gs
      BY <1>11 DEF ObserveClose
    <2> HIDE DEF fs, gs
    <2>4. log' = log \o <<>> \o fs \o gs
      <3>1. \A a, b, c \in Seq(Event) : a \o b \o c = a \o <<>> \o b \o c
        OBVIOUS
      <3> QED
        BY <1>1, <2>1, <2>2, <2>3, <3>1
    <2> QED
      BY <1>1, <1>2, <1>3, <1>5, <2>2, <2>4 DEF fs
  <1> QED
    BY <1>6, <1>7, <1>8, <1>9, <1>10, <1>11 DEF Next

\* A completed turn counts the hosted calls of its own turn, and its other facts
\* are defaults or were reported since that turn's send.
THEOREM TurnsReportOwnFacts == Spec => TurnReportsOwnFacts
  <1>1. Init => HostedInv /\ FactsInv
    BY DEF Init, HostedInv, AllCount, FactsInv
  <1>2. TypeOK /\ HostedInv /\ [Next]_vars => HostedInv'
    BY HostedStep
  <1>3. FactsInv /\ TypeOK /\ [Next]_vars => FactsInv'
    BY FactsStep
  <1>4. TypeOK /\ HostedInv => HostedCountExact
    BY HostedIsExact
  <1>5. TypeOK /\ FactsInv /\ [Next]_vars => [OwnFacts]_vars
    BY OwnFactsStep
  <1> QED
    BY <1>1, <1>2, <1>3, <1>4, <1>5, Typing, PTL DEF Spec, TurnReportsOwnFacts, OwnFacts

(***************************************************************************)
(* Whose response a completed turn reports.  owner[n] is the response to   *)
(* the n-th send, which a caller of the observer may know.                 *)
(***************************************************************************)
OwnAt(l, j, owner) ==
  l[j].kind = "turn_completed" =>
    l[j].response \in {"", owner[CountIn(l, j - 1, "turn_started")]}

AllOwn(l, owner) == \A j \in 1..Len(l) : OwnAt(l, j, owner)

\* The open turn knows no response but its own.
OpenOwn(l, response, owner) ==
  inTurn => response \in {None, owner[Count(l, "turn_started")]}

LEMMA OwnPrefix ==
  ASSUME NEW l, NEW m, NEW owner, NEW j \in Nat \ {0}, \A i \in 1..j : l[i] = m[i],
         OwnAt(l, j, owner)
  PROVE  OwnAt(m, j, owner)
  <1>1. j - 1 \in Nat /\ l[j] = m[j] /\ \A i \in 1..(j - 1) : l[i] = m[i]
    OBVIOUS
  <1>2. CountIn(l, j - 1, "turn_started") = CountIn(m, j - 1, "turn_started")
    BY <1>1, CountPrefix
  <1> QED
    BY <1>1, <1>2 DEF OwnAt

LEMMA ConcatOwn ==
  ASSUME NEW S, NEW l \in Seq(S), NEW es \in Seq(S), NEW owner, AllOwn(l, owner),
         \A i \in 1..Len(es) : es[i].kind # "turn_completed"
  PROVE  AllOwn(l \o es, owner)
  <1> DEFINE m == l \o es
  <1>1. /\ Len(l) \in Nat /\ Len(m) \in Nat /\ Len(l) <= Len(m)
        /\ \A i \in 1..Len(l) : m[i] = l[i]
        /\ \A i \in (Len(l) + 1)..Len(m) : m[i].kind # "turn_completed"
    OBVIOUS
  <1> HIDE DEF m
  <1> SUFFICES ASSUME NEW j \in 1..Len(m) PROVE OwnAt(m, j, owner)
    BY DEF AllOwn, m
  <1>2. CASE j \in 1..Len(l)
    <2>1. j \in Nat \ {0} /\ \A i \in 1..j : l[i] = m[i]
      BY <1>1, <1>2
    <2>2. OwnAt(l, j, owner)
      BY <1>2 DEF AllOwn
    <2> QED
      BY <2>1, <2>2, OwnPrefix
  <1>3. CASE j \in (Len(l) + 1)..Len(m)
    BY <1>1, <1>3 DEF OwnAt
  <1> QED
    BY <1>1, <1>2, <1>3

LEMMA FinalizeOwn ==
  ASSUME NEW l \in Seq(Event), NEW t \in FinalTurn, NEW owner,
         AllOwn(l, owner), OpenOwn(l, t.response, owner)
  PROVE  AllOwn(l \o FinalizeEvents(t), owner)
  <1>1. CASE inTurn
    <2> DEFINE e == TurnCompleted(t)
               m == Append(l, e)
    <2>0. e.response \in {"", owner[Count(l, "turn_started")]}
      BY <1>1 DEF TurnCompleted, OrElse, OpenOwn
    <2>1. e \in Event
      BY EventTypes
    <2>2. l \o FinalizeEvents(t) = l \o <<e>>
      BY <1>1 DEF FinalizeEvents
    <2> HIDE DEF e
    <2>3. l \o FinalizeEvents(t) = m
      BY <2>1, <2>2
    <2>4. /\ Len(l) \in Nat
          /\ Len(m) = Len(l) + 1
          /\ \A i \in 1..Len(l) : m[i] = l[i]
          /\ m[Len(l) + 1] = e
      BY <2>1, AppendEntries
    <2> HIDE DEF m
    <2>5. ASSUME NEW j \in 1..Len(l) PROVE OwnAt(m, j, owner)
      <3>1. j \in Nat \ {0} /\ \A i \in 1..j : l[i] = m[i]
        BY <2>4
      <3>2. OwnAt(l, j, owner)
        BY DEF AllOwn
      <3> QED
        BY <3>1, <3>2, OwnPrefix
    <2>6. OwnAt(m, Len(l) + 1, owner)
      <3>1. \A k \in 1..Len(l) : m[k] = l[k]
        BY <2>4
      <3>2. CountIn(m, Len(l), "turn_started") = Count(l, "turn_started")
        BY <2>4, <3>1, CountPrefix DEF Count
      <3>3. m[Len(l) + 1].response \in {"", owner[CountIn(m, Len(l), "turn_started")]}
        BY <2>0, <2>4, <3>2
      <3>4. (Len(l) + 1) - 1 = Len(l)
        BY <2>4
      <3> QED
        BY <3>3, <3>4 DEF OwnAt
    <2> QED
      BY <2>3, <2>4, <2>5, <2>6 DEF AllOwn
  <1>2. CASE ~inTurn
    <2>1. l \o FinalizeEvents(t) = l
      BY <1>2 DEF FinalizeEvents
    <2> QED
      BY <2>1
  <1> QED
    BY <1>1, <1>2

\* observe_send reports the turn still open, and opens one with no response yet.
LEMMA SendKeepsOwn ==
  ASSUME TypeOK, NEW owner, AllOwn(log, owner), OpenOwn(log, turn.response, owner),
         NEW previous \in Option(ResponseId), ObserveSend(previous)
  PROVE  AllOwn(log', owner) /\ turn'.response = None
  <1> DEFINE l1 == log \o FinalizeEvents(turn)
             es == StartEvents \o <<TurnStarted(previous)>>
  <1>1. log \in Seq(Event) /\ turn \in FinalTurn
    BY DEF TypeOK, FinalTurn, Option
  <1>2. l1 \in Seq(Event) /\ AllOwn(l1, owner)
    BY <1>1, FinalizeCount, FinalizeOwn
  <1>3. /\ StartEvents \in Seq(Event)
        /\ \A i \in 1..Len(StartEvents) : StartEvents[i].kind # "turn_completed"
    BY EventTypes DEF StartEvents, SessionStarted
  <1>4. TurnStarted(previous) \in Event /\ TurnStarted(previous).kind # "turn_completed"
    BY EventTypes DEF TurnStarted
  <1>5. es \in Seq(Event) /\ \A i \in 1..Len(es) : es[i].kind # "turn_completed"
    BY <1>3, <1>4
  <1>6. log' = l1 \o StartEvents \o <<TurnStarted(previous)>>
    BY DEF ObserveSend
  <1> HIDE DEF l1
  <1>7. log' = l1 \o es
    <2>1. \A a, b, c \in Seq(Event) : a \o b \o c = a \o (b \o c)
      OBVIOUS
    <2>2. <<TurnStarted(previous)>> \in Seq(Event)
      BY <1>4
    <2> QED
      BY <1>2, <1>3, <1>6, <2>1, <2>2
  <1> HIDE DEF es
  <1>8. AllOwn(log', owner)
    BY <1>2, <1>5, <1>7, ConcatOwn
  <1> QED
    BY <1>8 DEF ObserveSend, FreshTurn, ClearedTurn

\* A call that reports the open turn without a response of its own.
LEMMA EndKeepsOwn ==
  ASSUME TypeOK, NEW owner, AllOwn(log, owner), OpenOwn(log, turn.response, owner),
         \/ ObserveSendError
         \/ ObserveError
         \/ \E reason \in Reason : ObserveClose(reason)
  PROVE  AllOwn(log', owner)
  <1>1. log \in Seq(Event) /\ turn \in FinalTurn
    BY DEF TypeOK, FinalTurn, Option
  <1>2. CASE ObserveSendError
    <2> DEFINE t == [turn EXCEPT !.status = "send_error"]
    <2>1. t \in FinalTurn /\ t.response = turn.response
      BY <1>1 DEF FinalTurn, Option
    <2>2. log' = log \o FinalizeEvents(t)
      BY <1>2 DEF ObserveSendError
    <2> HIDE DEF t
    <2> QED
      BY <1>1, <2>1, <2>2, FinalizeOwn
  <1>3. CASE ObserveError
    <2> DEFINE t == [turn EXCEPT !.status = OrElse(@, "error")]
    <2>1. t \in FinalTurn /\ t.response = turn.response
      BY <1>1 DEF FinalTurn, Option, OrElse
    <2>2. log' = log \o FinalizeEvents(t)
      BY <1>3 DEF ObserveError
    <2> HIDE DEF t
    <2> QED
      BY <1>1, <2>1, <2>2, FinalizeOwn
  <1>4. ASSUME NEW reason \in Reason, ObserveClose(reason)
        PROVE  AllOwn(log', owner)
    <2> DEFINE l  == log \o FinalizeEvents(turn)
               es == IF sessionStarted /\ ~sessionEnded
                       THEN <<SessionEnd(reason)>> ELSE <<>>
    <2>1. l \in Seq(Event) /\ AllOwn(l, owner)
      BY <1>1, FinalizeCount, FinalizeOwn
    <2>2. es \in Seq(Event) /\ \A i \in 1..Len(es) : es[i].kind # "turn_completed"
      BY EventTypes DEF SessionEnd
    <2>3. log' = l \o es
      BY <1>4 DEF ObserveClose
    <2> HIDE DEF l, es
    <2> QED
      BY <2>1, <2>2, <2>3, ConcatOwn
  <1> QED
    BY <1>2, <1>3, <1>4

\* A Done that names the response of the open turn.
LEMMA DoneKeepsOwn ==
  ASSUME TypeOK, NEW owner, AllOwn(log, owner), NEW done \in DoneBody, ObserveDone(done),
         done.id # None, inTurn => done.id = owner[Count(log, "turn_started")]
  PROVE  AllOwn(log', owner)
  <1> DEFINE t  == AbsorbDone(turn, done)
             es == HostedEvents(t.response, done.hosted)
             l  == log \o es
  <1>1. log \in Seq(Event) /\ turn \in FinalTurn
    BY DEF TypeOK, FinalTurn, Option
  <1>2. t \in FinalTurn /\ t.response \in Option(ResponseId) /\ t.response = done.id
    <2>1. /\ OrElse(done.id, turn.response) \in Option(ResponseId)
          /\ OrElse(done.id, turn.response) = done.id
          /\ OrElse(done.status, turn.status)
               \in Option(WireStatus \cup TerminalKind \cup {"error", "send_error"})
          /\ OrElse(done.usage, turn.usage) \in Option(Usage)
      BY <1>1, DoneAssumption DEF DoneBody, OrElse, Option, FinalTurn
    <2>2. turn.hosted + done.hosted \in Nat
      BY <1>1, BoundsAssumption DEF DoneBody, FinalTurn
    <2> QED
      BY <1>1, <2>1, <2>2 DEF AbsorbDone, FinalTurn
  <1>3. log' = l \o FinalizeEvents(t) /\ done.hosted \in Nat
    BY BoundsAssumption DEF ObserveDone, DoneBody
  <1> HIDE DEF t
  <1>4. /\ es \in Seq(Event)
        /\ \A i \in 1..Len(es) : es[i].kind \in {"hosted_invoked", "hosted_completed"}
    BY <1>2, <1>3, HostedTypes
  <1> HIDE DEF es
  <1>5. /\ \A i \in 1..Len(es) : es[i].kind # "turn_completed"
        /\ \A i \in 1..Len(es) : es[i].kind # "turn_started"
    BY <1>4
  <1>6. l \in Seq(Event) /\ AllOwn(l, owner)
    BY <1>1, <1>4, <1>5, ConcatOwn
  <1>7. Count(l, "turn_started") = Count(log, "turn_started")
    BY <1>1, <1>4, <1>5, ConcatCount
  <1> HIDE DEF l
  <1>8. OpenOwn(l, t.response, owner)
    BY <1>2, <1>7 DEF OpenOwn
  <1> QED
    BY <1>2, <1>3, <1>6, <1>8, FinalizeOwn
=============================================================================
