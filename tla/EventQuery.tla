------------------------------ MODULE EventQuery ------------------------------
(***************************************************************************)
(* EventFilter and EventQuery (query.rs): what a filter selects from a      *)
(* snapshot of events.  A filter is a function from the names of the        *)
(* predicates that are configured to what they expect.                      *)
(***************************************************************************)
EXTENDS EventSchema, FiniteSets

FilteredScalar == {"kernel_id", "tool_name", "call_id", "skill_id", "model"}

\* EventFilter::matches: every configured predicate holds; the bounds are inclusive.
Matches(filter, e) ==
  /\ "conversation_id" \in DOMAIN filter => e.conversation = filter.conversation_id
  /\ "kind" \in DOMAIN filter => e.kind = filter.kind
  /\ "min_tick" \in DOMAIN filter => e.tick >= filter.min_tick
  /\ "max_tick" \in DOMAIN filter => e.tick <= filter.max_tick
  /\ \A name \in FilteredScalar \cap DOMAIN filter : ScalarField(e, name) = filter[name]

\* The elements of a sequence at the given places, in their order.
Select(seq, places) ==
  [n \in 1..Cardinality(places) |->
     seq[CHOOSE i \in places : Cardinality({j \in places : j <= i}) = n]]

\* EventQuery::filter
Filter(events, filter) == Select(events, {i \in DOMAIN events : Matches(filter, events[i])})

\* latest: the last ones, in their order.
Latest(events, limit) ==
  SubSeq(events, IF limit < Len(events) THEN Len(events) - limit + 1 ELSE 1, Len(events))

CountByKind(events) ==
  [kind \in {events[i].kind : i \in DOMAIN events} |->
     Cardinality({i \in DOMAIN events : events[i].kind = kind})]

Conversations(events) == {events[i].conversation : i \in DOMAIN events}
=============================================================================
