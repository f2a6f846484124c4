----------------------------- MODULE EventStream ------------------------------
(***************************************************************************)
(* The way of an event from a producer to the capturing layer: emit_kind    *)
(* builds the envelope (emit.rs) and claims the next tick, and only then    *)
(* dispatches the event to the layers, of which CapturingLayer              *)
(* (subscriber.rs) appends what it decodes to a buffer behind a mutex.      *)
(* Producers on other threads act between the two, so events are captured   *)
(* in another order than their ticks.                                       *)
(*                                                                          *)
(* This module is the specification of that path alone.  A module that      *)
(* models producers instantiates it, builds its actions from Build and      *)
(* Capture, and implements Spec.                                            *)
(***************************************************************************)
EXTENDS Integers, Sequences

CONSTANTS
  Producer,  \* threads, or tasks, that emit events
  Body,      \* what an event carries besides its envelope
  None       \* no event in hand

VARIABLES
  tick,     \* the static TICK
  built,    \* per producer: the event it has built and not dispatched yet
  buffer,   \* CapturingLayer.events
  cleared   \* history: the events clear() has removed, oldest first

streamVars == <<tick, built, buffer, cleared>>

\* Everything that ever reached the layer.
wire == cleared \o buffer

Event == [body : Body, by : Producer, tick : Nat, seen : Nat]

Init ==
  /\ tick = 0
  /\ built = [p \in Producer |-> None]
  /\ buffer = <<>>
  /\ cleared = <<>>

\* Mutant of Build: a load and a store in place of fetch_add.
BuildReadsTick(p, body) ==
  /\ built[p] = None
  /\ built' = [built EXCEPT
       ![p] = [body |-> body, by |-> p, tick |-> tick, seen |-> Len(wire)]]
  /\ tick' = IF \A q \in Producer : built[q] = None THEN tick + 1 ELSE tick
  /\ UNCHANGED <<buffer, cleared>>

\* build_event_with: next_tick stamps the envelope.  seen is a history field:
\* how much had reached the layer by then.
Build(p, body) ==
  /\ built[p] = None
  /\ built' = [built EXCEPT
       ![p] = [body |-> body, by |-> p, tick |-> tick, seen |-> Len(wire)]]
  /\ tick' = tick + 1
  /\ UNCHANGED <<buffer, cleared>>

\* try_emit and on_event: the lock is held for the push.
Capture(p) ==
  /\ built[p] # None
  /\ buffer' = Append(buffer, built[p])
  /\ built' = [built EXCEPT ![p] = None]
  /\ UNCHANGED <<tick, cleared>>

\* CapturingLayer::clear
Clear ==
  /\ buffer # <<>>
  /\ cleared' = wire
  /\ buffer' = <<>>
  /\ UNCHANGED <<tick, built>>

\* What is built is read off the next state, so that Body may be infinite.
BuildSome(p) ==
  /\ built'[p] # None
  /\ built'[p].body \in Body
  /\ Build(p, built'[p].body)

Next == Clear \/ \E p \in Producer : Capture(p) \/ BuildSome(p)

Spec == Init /\ [][Next]_streamVars

-----------------------------------------------------------------------------
(* Properties *)

TypeOK ==
  /\ tick \in Nat
  /\ built \in [Producer -> Event \cup {None}]
  /\ buffer \in Seq(Event)
  /\ cleared \in Seq(Event)

\* Every tick claimed so far belongs to exactly one event, which is in the
\* hands of a producer or has reached the layer: none is lost, none is doubled,
\* whatever the threads do between claiming a tick and dispatching the event.
TicksAccountedFor ==
  /\ \A n \in 0..(tick - 1) :
       \/ \E i \in DOMAIN wire : wire[i].tick = n
       \/ \E p \in Producer : built[p] # None /\ built[p].tick = n
  /\ \A i \in DOMAIN wire :
       /\ wire[i].tick < tick
       /\ \A j \in DOMAIN wire : wire[i].tick = wire[j].tick => i = j
       /\ \A p \in Producer : built[p] # None => built[p].tick # wire[i].tick
  /\ \A p, q \in Producer :
       built[p] # None /\ built[q] # None /\ built[p].tick = built[q].tick
         => p = q

\* "tick is a monotonic per-process counter so consumers can order events"
\* (README.md:208): an event built after another one was captured has the higher
\* tick, and so has the later one of two events of a producer.  Capture order and
\* tick order therefore disagree only on events of different producers that were
\* on their way at the same time.
TicksRespectCausality ==
  \A i, j \in DOMAIN wire :
    (\/ i <= wire[j].seen
     \/ i < j /\ wire[i].by = wire[j].by)
    => wire[i].tick < wire[j].tick
=============================================================================
