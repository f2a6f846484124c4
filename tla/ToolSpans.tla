------------------------------ MODULE ToolSpans -------------------------------
(***************************************************************************)
(* Insights::tool_spans and tool_stats (insights.rs): what is reconstructed *)
(* of tool calls from a snapshot of events, and a reference definition of   *)
(* it.  Events are records with a kind, a conversation and a call id, and   *)
(* whatever else they carry.                                                *)
(***************************************************************************)
EXTENDS Integers, Sequences, FiniteSets

InvokeKind    == {"tool.invoked", "tool.hosted_invoked"}
CompletedKind == {"tool.completed", "tool.hosted_completed"}
TerminalKind  == CompletedKind \cup {"tool.failed", "tool.skipped", "tool.terminated"}

\* Mutant of Key: the conversation is left out.
KeyCall(e) == <<e.call>>

Key(e) == <<e.conversation, e.call>>

\* A span is its key and the events at its ends, the terminal one if there is one:
\* ticks, tool name, outcome and the rest of a ToolSpan are read off them.
Outcome(span) == IF Len(span.ends) = 1 THEN "pending" ELSE span.ends[2].kind

\* spans, and index: from keys to positions in spans
NoSpans == [spans |-> <<>>, index |-> [k \in {} |-> 0]]

OpenSpan(acc, e) ==
  [spans |-> Append(acc.spans, [key |-> Key(e), ends |-> <<e>>]),
   index |-> [k \in DOMAIN acc.index \cup {Key(e)} |->
                IF k = Key(e) THEN Len(acc.spans) + 1 ELSE acc.index[k]]]

\* Mutant of CloseSpan: the span opened last is closed.
CloseSpanLast(acc, e) ==
  IF Key(e) \in DOMAIN acc.index
    THEN [acc EXCEPT !.spans[Len(acc.spans)].ends = <<@[1], e>>]
    ELSE acc

\* A terminal event without an open span is ignored, and a later one replaces an
\* earlier one.
CloseSpan(acc, e) ==
  IF Key(e) \in DOMAIN acc.index
    THEN [acc EXCEPT !.spans[acc.index[Key(e)]].ends = <<@[1], e>>]
    ELSE acc

\* Other events are passed over.
TakeUp(acc, e) ==
  IF e.kind \in InvokeKind THEN OpenSpan(acc, e)
  ELSE IF e.kind \in TerminalKind THEN CloseSpan(acc, e)
  ELSE acc

\* tool_spans: one pass over the snapshot, in its order.
Spans(events) ==
  LET after[n \in 0..Len(events)] ==
        IF n = 0 THEN NoSpans ELSE TakeUp(after[n - 1], events[n])
  IN  after[Len(events)].spans

Count(events, kinds) == Cardinality({i \in DOMAIN events : events[i].kind \in kinds})

Monus(a, b) == IF a > b THEN a - b ELSE 0

\* ToolStats.pending: a difference of counts.
PendingCount(events) ==
  Monus(Count(events, InvokeKind), Count(events, TerminalKind))

\* tool_stats
ToolStats(events) ==
  [invoked    |-> Count(events, InvokeKind),
   completed  |-> Count(events, CompletedKind),
   failed     |-> Count(events, {"tool.failed"}),
   skipped    |-> Count(events, {"tool.skipped"}),
   terminated |-> Count(events, {"tool.terminated"}),
   pending    |-> PendingCount(events)]

-----------------------------------------------------------------------------
(* Reference definitions *)

\* The terminal events that are about the invocation at i: those with its key
\* that follow it, up to the next invocation with that key.
TerminalsOf(events, i) ==
  {j \in (i + 1)..Len(events) :
     /\ events[j].kind \in TerminalKind
     /\ Key(events[j]) = Key(events[i])
     /\ \A k \in (i + 1)..(j - 1) :
          ~(events[k].kind \in InvokeKind /\ Key(events[k]) = Key(events[i]))}

Invocations(events) == {i \in DOMAIN events : events[i].kind \in InvokeKind}

\* The number of an invocation among all of them.
Number(events, i) == Cardinality({j \in Invocations(events) : j <= i})

\* An invocation and the last word on it, if there is one.
EndsOf(events, i) ==
  LET js == TerminalsOf(events, i) IN
  IF js = {} THEN <<events[i]>>
  ELSE <<events[i], events[CHOOSE j \in js : \A k \in js : k <= j]>>

\* Invocations in their order.
ReferenceSpans(events) ==
  [n \in 1..Cardinality(Invocations(events)) |->
     LET i == CHOOSE i \in Invocations(events) : Number(events, i) = n
     IN  [key |-> Key(events[i]), ends |-> EndsOf(events, i)]]

\* Invocations with no terminal event in the snapshot.
Unresolved(events) ==
  {i \in Invocations(events) : TerminalsOf(events, i) = {}}

\* Terminal events whose invocation is not in the snapshot.
Orphans(events) ==
  {j \in DOMAIN events :
     /\ events[j].kind \in TerminalKind
     /\ \A i \in 1..(j - 1) :
          ~(events[i].kind \in InvokeKind /\ Key(events[i]) = Key(events[j]))}
=============================================================================
