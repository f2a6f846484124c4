-------------------------- MODULE EventStream_proofs --------------------------
(***************************************************************************)
(* Every tick is accounted for and ticks respect causality, for any set of  *)
(* producers and any events.  What reached the layer (wire) grows at its    *)
(* end or stays, so both invariants speak of wire alone and clear() does    *)
(* not touch them.                                                          *)
(***************************************************************************)
EXTENDS EventStream, TLAPS

\* What producers have in hand, beyond its type: it is theirs, it was built after
\* what it has seen, and nothing of theirs was captured since.
InHand ==
  \A p \in Producer : built[p] # None =>
    /\ built[p].by = p
    /\ built[p].tick < tick
    /\ built[p].seen <= Len(wire)
    /\ \A i \in DOMAIN wire :
         /\ i <= built[p].seen => wire[i].tick < built[p].tick
         /\ wire[i].by = p => i <= built[p].seen

\* Ticks respect causality, the strengthening: an event was built before it was
\* captured, and of two events of a producer the later one has seen the earlier.
Ordered ==
  \A i, j \in DOMAIN wire :
    /\ wire[j].seen < j
    /\ i <= wire[j].seen => wire[i].tick < wire[j].tick
    /\ i < j /\ wire[i].by = wire[j].by => i <= wire[j].seen

StreamInv == TypeOK /\ TicksAccountedFor /\ InHand /\ Ordered

\* What each action does to wire.
LEMMA WireCapture ==
  ASSUME TypeOK, NEW p \in Producer, Capture(p)
  PROVE  /\ built[p] \in Event
         /\ wire \in Seq(Event)
         /\ wire' = Append(wire, built[p])
  <1>1. cleared \in Seq(Event) /\ buffer \in Seq(Event) /\ built[p] \in Event
    BY DEF TypeOK, Capture
  <1>2. cleared' = cleared /\ buffer' = Append(buffer, built[p])
    BY DEF Capture
  <1>3. cleared \o Append(buffer, built[p]) = Append(cleared \o buffer, built[p])
    BY <1>1
  <1> QED
    BY <1>1, <1>2, <1>3 DEF wire

LEMMA WireStays ==
  ASSUME TypeOK, \/ UNCHANGED streamVars
                 \/ Clear
                 \/ \E p \in Producer : BuildSome(p)
  PROVE  wire \in Seq(Event) /\ wire' = wire
  <1>1. cleared \in Seq(Event) /\ buffer \in Seq(Event)
    BY DEF TypeOK
  <1>2. CASE UNCHANGED streamVars
    BY <1>1, <1>2 DEF wire, streamVars
  <1>3. CASE Clear
    <2>1. cleared' = cleared \o buffer /\ buffer' = <<>>
      BY <1>3 DEF Clear, wire
    <2>2. (cleared \o buffer) \o <<>> = cleared \o buffer
      BY <1>1
    <2> QED
      BY <1>1, <2>1, <2>2 DEF wire
  <1>4. CASE \E p \in Producer : BuildSome(p)
    BY <1>1, <1>4 DEF wire, BuildSome, Build
  <1> QED
    BY <1>2, <1>3, <1>4

LEMMA InitInv == Init => StreamInv
  <1> SUFFICES ASSUME Init PROVE StreamInv
    OBVIOUS
  <1>1. wire = <<>>
    BY DEF Init, wire
  <1> QED
    BY <1>1 DEF Init, StreamInv, TypeOK, TicksAccountedFor, InHand, Ordered

LEMMA StepInv ==
  ASSUME None \notin Event, StreamInv, [Next]_streamVars
  PROVE  StreamInv'
  <1> USE DEF StreamInv
  <1>1. CASE UNCHANGED streamVars
    <2>1. wire' = wire
      BY <1>1, WireStays
    <2> QED
      BY <1>1, <2>1 DEF streamVars, TypeOK, TicksAccountedFor, InHand, Ordered
  <1>2. CASE Clear
    <2>1. wire' = wire /\ wire \in Seq(Event)
      BY <1>2, WireStays
    <2>2. UNCHANGED <<tick, built>> /\ cleared' = wire /\ buffer' = <<>>
      BY <1>2 DEF Clear
    <2> QED
      BY <2>1, <2>2 DEF TypeOK, TicksAccountedFor, InHand, Ordered
  <1>3. ASSUME NEW p \in Producer, Capture(p) PROVE StreamInv'
    <2> DEFINE e == built[p]
    <2>1. /\ e \in Event /\ e # None
          /\ wire \in Seq(Event)
          /\ wire' = Append(wire, e)
          /\ tick' = tick
          /\ built' = [built EXCEPT ![p] = None]
          /\ built \in [Producer -> Event \cup {None}]
      BY <1>3, WireCapture DEF Capture, TypeOK
    <2> HIDE DEF e
    <2>2. /\ Len(wire) \in Nat
          /\ DOMAIN wire = 1..Len(wire)
          /\ Len(wire') = Len(wire) + 1
          /\ DOMAIN wire' = 1..(Len(wire) + 1)
          /\ \A i \in DOMAIN wire : wire'[i] = wire[i] /\ wire[i] \in Event
          /\ wire'[Len(wire) + 1] = e
      BY <2>1
    <2>3. \A q \in Producer \ {p} : built'[q] = built[q]
      BY <2>1
    <2>4. built'[p] = None
      BY <2>1
    <2>5. TypeOK'
      BY <1>3, <2>1 DEF TypeOK, Capture
    <2>6. TicksAccountedFor'
      <3>1. ASSUME NEW n \in 0..(tick' - 1)
            PROVE  \/ \E i \in DOMAIN wire' : wire'[i].tick = n
                   \/ \E q \in Producer : built'[q] # None /\ built'[q].tick = n
        <4>1. CASE \E i \in DOMAIN wire : wire[i].tick = n
          BY <2>2, <4>1
        <4>2. CASE e.tick = n
          BY <2>2, <4>2
        <4>3. CASE \E q \in Producer \ {p} : built[q] # None /\ built[q].tick = n
          BY <2>3, <4>3
        <4> QED
          BY <2>1, <3>1, <4>1, <4>2, <4>3 DEF TicksAccountedFor, e
      <3>2. ASSUME NEW i \in DOMAIN wire'
            PROVE  /\ wire'[i].tick < tick'
                   /\ \A j \in DOMAIN wire' : wire'[i].tick = wire'[j].tick => i = j
                   /\ \A q \in Producer : built'[q] # None => built'[q].tick # wire'[i].tick
        BY <2>1, <2>2, <2>3, <2>4 DEF TicksAccountedFor, InHand, e
      <3>3. ASSUME NEW q \in Producer, NEW r \in Producer,
                   built'[q] # None, built'[r] # None, built'[q].tick = built'[r].tick
            PROVE  q = r
        BY <2>3, <2>4, <3>3 DEF TicksAccountedFor
      <3> QED
        BY <3>1, <3>2, <3>3 DEF TicksAccountedFor
    <2>7. InHand'
      <3> SUFFICES ASSUME NEW q \in Producer, built'[q] # None
                   PROVE  /\ built'[q].by = q
                          /\ built'[q].tick < tick'
                          /\ built'[q].seen <= Len(wire')
                          /\ \A i \in DOMAIN wire' :
                               /\ i <= built'[q].seen => wire'[i].tick < built'[q].tick
                               /\ wire'[i].by = q => i <= built'[q].seen
        BY DEF InHand
      <3>1. q # p /\ built'[q] = built[q] /\ built[q] \in Event
        BY <2>1, <2>3, <2>4
      <3>2. e.by = p
        BY <2>1 DEF InHand, e
      <3>3. built[q].seen \in Nat
        BY <3>1 DEF Event
      <3> QED
        BY <2>1, <2>2, <3>1, <3>2, <3>3 DEF InHand
    <2>8. Ordered'
      <3>1. /\ e.by = p /\ e.seen <= Len(wire) /\ e.seen \in Nat
            /\ \A i \in DOMAIN wire :
                 /\ i <= e.seen => wire[i].tick < e.tick
                 /\ wire[i].by = p => i <= e.seen
        BY <2>1 DEF InHand, e, Event
      <3>2. \A j \in DOMAIN wire : wire[j].seen \in Nat /\ wire[j].seen < j
        BY <2>2 DEF Ordered, Event
      <3> QED
        BY <2>2, <3>1, <3>2 DEF Ordered
    <2> QED
      BY <2>5, <2>6, <2>7, <2>8
  <1>4. ASSUME NEW p \in Producer, BuildSome(p) PROVE StreamInv'
    <2> DEFINE body == built'[p].body
               e == [body |-> body, by |-> p, tick |-> tick, seen |-> Len(wire)]
    <2>1. /\ wire' = wire /\ wire \in Seq(Event)
          /\ body \in Body
          /\ tick \in Nat /\ tick' = tick + 1
          /\ built[p] = None
          /\ built' = [built EXCEPT ![p] = e]
          /\ built \in [Producer -> Event \cup {None}]
          /\ UNCHANGED <<buffer, cleared>>
      <3>1. wire' = wire /\ wire \in Seq(Event)
        BY <1>4, WireStays
      <3> QED
        BY <1>4, <3>1 DEF BuildSome, Build, TypeOK
    <2>2. /\ Len(wire) \in Nat
          /\ DOMAIN wire = 1..Len(wire)
          /\ \A i \in DOMAIN wire : wire[i] \in Event
      BY <2>1
    <2> HIDE DEF body
    <2>3. e \in Event /\ e # None
      BY <2>1, <2>2 DEF Event
    <2>4. e.by = p /\ e.tick = tick /\ e.seen = Len(wire)
      OBVIOUS
    <2> HIDE DEF e
    <2>5. built'[p] = e /\ \A q \in Producer \ {p} : built'[q] = built[q]
      BY <2>1
    <2>6. TypeOK'
      BY <2>1, <2>3 DEF TypeOK
    <2>7. TicksAccountedFor'
      <3>1. ASSUME NEW n \in 0..(tick' - 1)
            PROVE  \/ \E i \in DOMAIN wire' : wire'[i].tick = n
                   \/ \E q \in Producer : built'[q] # None /\ built'[q].tick = n
        <4>1. CASE n = tick
          BY <2>3, <2>4, <2>5, <4>1
        <4>2. CASE n \in 0..(tick - 1)
          BY <2>1, <2>5, <4>2 DEF TicksAccountedFor
        <4> QED
          BY <2>1, <4>1, <4>2
      <3>2. ASSUME NEW i \in DOMAIN wire'
            PROVE  /\ wire'[i].tick < tick'
                   /\ \A j \in DOMAIN wire' : wire'[i].tick = wire'[j].tick => i = j
                   /\ \A q \in Producer : built'[q] # None => built'[q].tick # wire'[i].tick
        <4>1. wire[i].tick < tick /\ wire[i].tick \in Nat
          BY <2>1, <2>2 DEF TicksAccountedFor, Event
        <4> QED
          BY <2>1, <2>4, <2>5, <4>1 DEF TicksAccountedFor
      <3>3. ASSUME NEW q \in Producer, NEW r \in Producer,
                   built'[q] # None, built'[r] # None, built'[q].tick = built'[r].tick
            PROVE  q = r
        <4>1. \A o \in Producer \ {p} : built'[o] # None =>
                built'[o].tick < tick /\ built'[o].tick \in Nat
          BY <2>1, <2>5 DEF InHand, Event
        <4> QED
          BY <2>1, <2>4, <2>5, <3>3, <4>1 DEF TicksAccountedFor
      <3> QED
        BY <3>1, <3>2, <3>3 DEF TicksAccountedFor
    <2>8. InHand'
      <3> SUFFICES ASSUME NEW q \in Producer, built'[q] # None
                   PROVE  /\ built'[q].by = q
                          /\ built'[q].tick < tick'
                          /\ built'[q].seen <= Len(wire')
                          /\ \A i \in DOMAIN wire' :
                               /\ i <= built'[q].seen => wire'[i].tick < built'[q].tick
                               /\ wire'[i].by = q => i <= built'[q].seen
        BY DEF InHand
      <3>1. CASE q = p
        <4>1. \A i \in DOMAIN wire : wire[i].tick < tick /\ i <= Len(wire)
          BY <2>2 DEF TicksAccountedFor
        <4> QED
          BY <2>1, <2>2, <2>4, <2>5, <3>1, <4>1
      <3>2. CASE q # p
        <4>1. built'[q] = built[q] /\ built[q].tick \in Nat
          BY <2>1, <2>5, <3>2 DEF Event
        <4> QED
          BY <2>1, <4>1 DEF InHand
      <3> QED
        BY <3>1, <3>2
    <2>9. Ordered'
      BY <2>1 DEF Ordered
    <2> QED
      BY <2>6, <2>7, <2>8, <2>9
  <1> QED
    BY <1>1, <1>2, <1>3, <1>4 DEF Next

\* The invariant holds of every behaviour.
LEMMA Invariant ==
  ASSUME None \notin Event
  PROVE  Spec => []StreamInv
  <1>1. Init => StreamInv
    BY InitInv
  <1>2. StreamInv /\ [Next]_streamVars => StreamInv'
    BY StepInv
  <1> QED
    BY <1>1, <1>2, PTL DEF Spec

\* Every tick belongs to exactly one event, in hand or captured.
THEOREM Accounting ==
  ASSUME None \notin Event
  PROVE  Spec => []TicksAccountedFor
  <1>1. StreamInv => TicksAccountedFor
    BY DEF StreamInv
  <1> QED
    BY <1>1, Invariant, PTL

\* An event built after another was captured, or emitted after another by the
\* same producer, has the higher tick.
THEOREM Causality ==
  ASSUME None \notin Event
  PROVE  Spec => []TicksRespectCausality
  <1>1. StreamInv => TicksRespectCausality
    BY DEF StreamInv, Ordered, TicksRespectCausality
  <1> QED
    BY <1>1, Invariant, PTL
=============================================================================
