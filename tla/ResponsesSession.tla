--------------------------- MODULE ResponsesSession ---------------------------
(***************************************************************************)
(* ResponsesSessionObserver (responses_session.rs): the state machine that *)
(* turns the calls made around a Responses websocket session into          *)
(* response.session_*, response.turn_* and tool.hosted_* events.           *)
(*                                                                         *)
(* The observer is driven by its caller through `&mut self` methods, so a  *)
(* call is one atomic action.  It does no I/O and the type puts no order   *)
(* on the calls, hence the caller here makes any call at any time.         *)
(* Payloads are opaque: a response id, a token usage and a status are      *)
(* values the observer only stores and copies.                             *)
(***************************************************************************)
EXTENDS Integers, Sequences, FiniteSets

CONSTANTS
  ResponseId,    \* provider response identifiers
  Usage,         \* token usages a response may report
  ChunkKind,     \* ResponseChunkKind values the server sends
  WireStatus,    \* values of the `status` field of a response
  DoneStatus,    \* those of them that a finished response, a Done payload, may have
  Reason,        \* reasons a caller gives for closing
  MaxHosted,     \* hosted tool calls in one Done payload, at most
  MaxEvents,     \* bound: no send, chunk or Done once this many events are out
  None           \* Option::None

TerminalKind == {"completed", "failed", "incomplete"}
OpenKind     == {"created", "in_progress"}

ASSUME BoundsAssumption == MaxHosted \in Nat /\ MaxEvents \in Nat
ASSUME KindAssumption   == ChunkKind \subseteq TerminalKind \cup OpenKind
ASSUME DoneAssumption   == DoneStatus \subseteq WireStatus
ASSUME NoneAssumption   == None \notin ResponseId \cup Usage \cup WireStatus

VARIABLES
  sessionStarted,  \* response.session_started has been emitted
  sessionEnded,    \* response.session_ended has been emitted
  inTurn,          \* a turn is open
  turn,            \* the turn_* fields of the struct
  log,             \* every event emitted so far, in order
  heard            \* history: what the caller reported since the last send

vars == <<sessionStarted, sessionEnded, inTurn, turn, log, heard>>

Option(S) == S \cup {None}

\* The turn_* fields.  `clock` is turn_started_at.is_some().
ClearedTurn == [previous |-> None, response |-> None, status |-> None,
                usage |-> None, hosted |-> 0, clock |-> FALSE]

\* Mutants of FreshTurn: no start time, or the response of the turn before kept.
FreshTurnUntimed(previous)      == [ClearedTurn EXCEPT !.previous = previous]
FreshTurnKeepsResponse(previous) == [ClearedTurn EXCEPT !.previous = previous,
                                      !.clock = TRUE, !.response = turn.response]

FreshTurn(previous) == [ClearedTurn EXCEPT !.previous = previous, !.clock = TRUE]

-----------------------------------------------------------------------------
(* Events *)

SessionStarted     == [kind |-> "session_started"]
TurnStarted(prev)  == [kind |-> "turn_started", previous |-> prev]
SessionEnd(reason) == [kind |-> "session_ended", reason |-> reason]

\* Option::unwrap_or.
OrElse(opt, default) == IF opt = None THEN default ELSE opt

\* Mutant of TurnCompleted: the response id is not unwrapped.
TurnCompletedRaw(t) ==
  [kind |-> "turn_completed", previous |-> t.previous,
   response |-> t.response, status |-> OrElse(t.status, "completed"),
   usage |-> t.usage, hosted |-> t.hosted, timed |-> t.clock]

\* The event finalize_turn builds; the empty string is unwrap_or_default().
TurnCompleted(t) ==
  [kind |-> "turn_completed", previous |-> t.previous,
   response |-> OrElse(t.response, ""), status |-> OrElse(t.status, "completed"),
   usage |-> t.usage, hosted |-> t.hosted, timed |-> t.clock]

\* emit_hosted_invoked_completed, called for each of n extracted calls: the
\* odd positions are tool.hosted_invoked, the even ones their completion.
HostedEvents(response, n) ==
  [i \in 1..(2 * n) |->
     [kind |-> IF i % 2 = 1 THEN "hosted_invoked" ELSE "hosted_completed",
      response |-> response, call |-> (i + 1) \div 2]]

\* finalize_turn emits for the open turn t, and only for an open turn.
FinalizeEvents(t) == IF inTurn THEN <<TurnCompleted(t)>> ELSE <<>>

\* The turn fields after finalize_turn, which returns early when none is open.
Finalized(t) == IF inTurn THEN ClearedTurn ELSE t

\* start_session_if_needed.
StartEvents == IF sessionStarted THEN <<>> ELSE <<SessionStarted>>

\* response_status_string: the label of a terminal chunk kind, otherwise the
\* serialised status field of the response.
ResponseStatusString(kind, status) ==
  IF kind \in TerminalKind THEN kind ELSE status

-----------------------------------------------------------------------------
(* The server's events, as the caller hands them to observe_event *)

Chunk == [id : ResponseId, kind : ChunkKind, status : WireStatus,
          usage : Option(Usage)]

\* The raw response of a Done; its status is copied whatever it says.
DoneBody == [id : Option(ResponseId), status : Option(DoneStatus),
             usage : Option(Usage), hosted : 0..MaxHosted]

\* The facts about its turn that an event carries.
ChunkFacts(chunk) ==
  {chunk.id, ResponseStatusString(chunk.kind, chunk.status), chunk.usage} \ {None}

DoneFacts(done) == {done.id, done.status, done.usage} \ {None}

-----------------------------------------------------------------------------
Init ==
  /\ sessionStarted = FALSE
  /\ sessionEnded = FALSE
  /\ inTurn = FALSE
  /\ turn = ClearedTurn
  /\ log = <<>>
  /\ heard = {}

\* Errors and closes need no bound: they emit for the open turn, and once the end.
Room == Len(log) < MaxEvents

\* Mutant of ObserveSend: the turn still open is not finalized.
ObserveSendForgetsTurn(previous) ==
  /\ Room
  /\ log' = log \o StartEvents \o <<TurnStarted(previous)>>
  /\ sessionStarted' = TRUE
  /\ inTurn' = TRUE
  /\ turn' = FreshTurn(previous)
  /\ heard' = {}
  /\ UNCHANGED sessionEnded

ObserveSend(previous) ==
  /\ Room
  /\ log' = log \o FinalizeEvents(turn) \o StartEvents \o <<TurnStarted(previous)>>
  /\ sessionStarted' = TRUE
  /\ inTurn' = TRUE
  /\ turn' = FreshTurn(previous)
  /\ heard' = {}
  /\ UNCHANGED sessionEnded

\* observe_send_error: returns early when no turn is open.
ObserveSendError ==
  /\ log' = log \o FinalizeEvents([turn EXCEPT !.status = "send_error"])
  /\ turn' = Finalized(turn)
  /\ inTurn' = FALSE
  /\ UNCHANGED <<sessionStarted, sessionEnded, heard>>

\* observe_event(Response): recorded whether or not a turn is open.
ObserveResponse(chunk) ==
  /\ Room
  /\ turn' = [turn EXCEPT
                !.response = chunk.id,
                !.status = ResponseStatusString(chunk.kind, chunk.status),
                !.usage = OrElse(chunk.usage, @)]
  /\ heard' = heard \cup ChunkFacts(chunk)
  /\ UNCHANGED <<sessionStarted, sessionEnded, inTurn, log>>

\* The turn fields a Done payload leaves for finalize_turn to report.
AbsorbDone(t, done) ==
  [t EXCEPT !.response = OrElse(done.id, @),
            !.status = OrElse(done.status, @),
            !.usage = OrElse(done.usage, @),
            !.hosted = @ + done.hosted]

\* observe_event(Done): the hosted tools are emitted whether or not a turn is
\* open; finalize_turn then returns early when none is, keeping the fields.
ObserveDone(done) ==
  LET absorbed == AbsorbDone(turn, done) IN
  /\ Room
  /\ log' = log \o HostedEvents(absorbed.response, done.hosted)
                \o FinalizeEvents(absorbed)
  /\ turn' = Finalized(absorbed)
  /\ inTurn' = FALSE
  /\ heard' = heard \cup DoneFacts(done)
  /\ UNCHANGED <<sessionStarted, sessionEnded>>

\* Mutant of ObserveError: the turn is reported complete and left open.
ObserveErrorLeavesTurn ==
  /\ log' = log \o FinalizeEvents([turn EXCEPT !.status = OrElse(@, "error")])
  /\ UNCHANGED <<sessionStarted, sessionEnded, inTurn, turn, heard>>

\* observe_event(Error): ignored when no turn is open; get_or_insert_with keeps
\* a status already recorded.
ObserveError ==
  /\ log' = log \o FinalizeEvents([turn EXCEPT !.status = OrElse(@, "error")])
  /\ turn' = Finalized(turn)
  /\ inTurn' = FALSE
  /\ UNCHANGED <<sessionStarted, sessionEnded, heard>>

\* Mutants of ObserveClose: the session ends on every close, or ends before its
\* open turn is finalized.
ObserveCloseAgain(reason) ==
  /\ log' = log \o FinalizeEvents(turn)
                \o (IF sessionStarted THEN <<SessionEnd(reason)>> ELSE <<>>)
  /\ sessionEnded' = (sessionEnded \/ sessionStarted)
  /\ turn' = Finalized(turn)
  /\ inTurn' = FALSE
  /\ UNCHANGED <<sessionStarted, heard>>

ObserveCloseKeepsTurn(reason) ==
  LET ends == sessionStarted /\ ~sessionEnded IN
  /\ log' = log \o (IF ends THEN <<SessionEnd(reason)>> ELSE <<>>)
  /\ sessionEnded' = (sessionEnded \/ ends)
  /\ UNCHANGED <<sessionStarted, inTurn, turn, heard>>

ObserveClose(reason) ==
  LET ends == sessionStarted /\ ~sessionEnded IN
  /\ log' = log \o FinalizeEvents(turn)
                \o (IF ends THEN <<SessionEnd(reason)>> ELSE <<>>)
  /\ sessionEnded' = (sessionEnded \/ ends)
  /\ turn' = Finalized(turn)
  /\ inTurn' = FALSE
  /\ UNCHANGED <<sessionStarted, heard>>

Next ==
  \/ \E previous \in Option(ResponseId) : ObserveSend(previous)
  \/ ObserveSendError
  \/ \E chunk \in Chunk : ObserveResponse(chunk)
  \/ \E done \in DoneBody : ObserveDone(done)
  \/ ObserveError
  \/ \E reason \in Reason : ObserveClose(reason)

Spec == Init /\ [][Next]_vars

-----------------------------------------------------------------------------
(* Properties *)

Event ==
  {SessionStarted}
    \cup {TurnStarted(p) : p \in Option(ResponseId)}
    \cup [kind : {"turn_completed"}, previous : Option(ResponseId),
          response : ResponseId \cup {""},
          status : WireStatus \cup TerminalKind \cup {"error", "send_error"},
          usage : Option(Usage), hosted : Nat, timed : BOOLEAN]
    \cup {SessionEnd(r) : r \in Reason}
    \cup [kind : {"hosted_invoked", "hosted_completed"},
          response : Option(ResponseId), call : Nat]

TypeOK ==
  /\ sessionStarted \in BOOLEAN
  /\ sessionEnded \in BOOLEAN
  /\ inTurn \in BOOLEAN
  /\ turn \in [previous : Option(ResponseId), response : Option(ResponseId),
              status : Option(WireStatus \cup TerminalKind),
              usage : Option(Usage), hosted : Nat, clock : BOOLEAN]
  /\ log \in Seq(Event)
  /\ heard \subseteq ResponseId \cup Usage \cup WireStatus \cup TerminalKind

Is(i, kind) == log[i].kind = kind

\* No event of this kind strictly between positions i and j of the log.
NoneBetween(kind, i, j) == \A k \in (i + 1)..(j - 1) : ~Is(k, kind)

\* "One response.session_started" (README, Responses WebSocket section): the
\* session is announced once, before any turn or session end.
OneSessionStart ==
  /\ \A i, j \in DOMAIN log :
       Is(i, "session_started") /\ Is(j, "session_started") => i = j
  /\ \A j \in DOMAIN log :
       log[j].kind \in {"turn_started", "turn_completed", "session_ended"}
         => \E i \in 1..(j - 1) : Is(i, "session_started")

\* Turns never overlap and no turn is dropped: between two turn_started events
\* there is a turn_completed, whatever the caller did with the first turn
\* (lazy finalization in observe_send).
TurnsAlternate ==
  \A i, j \in DOMAIN log :
    i < j /\ Is(i, "turn_started") /\ Is(j, "turn_started")
      => ~NoneBetween("turn_completed", i, j)

\* "Pairs with the most recent response.turn_started" (event.rs): a completion
\* closes the latest start, which nothing closed before, repeats its chain
\* ancestor and carries a duration.
CompletionMatchesStart ==
  \A j \in DOMAIN log : Is(j, "turn_completed") =>
    /\ log[j].timed
    /\ \E i \in 1..(j - 1) :
         /\ Is(i, "turn_started")
         /\ log[i].previous = log[j].previous
         /\ NoneBetween("turn_started", i, j)
         /\ NoneBetween("turn_completed", i, j)

\* "Exactly one response.session_ended on close", never inside a turn: every
\* turn opened before it has completed before it.
EndedOnceBetweenTurns ==
  \A j \in DOMAIN log : Is(j, "session_ended") =>
    /\ \A i \in DOMAIN log : Is(i, "session_ended") => i = j
    /\ \A i \in 1..(j - 1) :
         Is(i, "turn_started") => ~NoneBetween("turn_completed", i, j)

\* The session brackets its turns: one start before all of them, at most one end,
\* which no turn spans, though sends and closes may go on after it.
SessionBrackets == OneSessionStart /\ EndedOnceBetweenTurns

\* The flags an accessor or the next call reads (session_started(),
\* session_ended(), in_turn) say what a subscriber of the stream sees, and an
\* open turn has its clock running and its start last in the stream.
FlagsAgree ==
  /\ sessionStarted <=> \E i \in DOMAIN log : Is(i, "session_started")
  /\ sessionEnded <=> \E i \in DOMAIN log : Is(i, "session_ended")
  /\ inTurn =>
       /\ sessionStarted
       /\ turn.clock
       /\ \E i \in DOMAIN log :
            /\ Is(i, "turn_started")
            /\ log[i].previous = turn.previous
            /\ \A k \in (i + 1)..Len(log) :
                 log[k].kind \notin {"turn_started", "turn_completed"}
  /\ ~inTurn => \A i \in DOMAIN log : Is(i, "turn_started") =>
                  \E k \in (i + 1)..Len(log) : Is(k, "turn_completed")

\* hosted_tool_calls is "the number of hosted-tool invocations observed during
\* this turn": the tool.hosted_invoked events since its turn_started, with
\* none carried over from a Done handled outside a turn.
HostedCountExact ==
  \A i, j \in DOMAIN log :
    /\ i < j
    /\ Is(i, "turn_started")
    /\ Is(j, "turn_completed")
    /\ NoneBetween("turn_started", i, j)
    => log[j].hosted =
         Cardinality({k \in (i + 1)..(j - 1) : Is(k, "hosted_invoked")})

\* A turn reports its own facts: it counts the hosted calls of its own turn, and
\* the response id, status and usage of a turn_completed are defaults or were
\* reported since that turn's send, even when chunks arrived between turns.
TurnReportsOwnFacts ==
  /\ []HostedCountExact
  /\ [][\A j \in (Len(log) + 1)..Len(log') :
          log'[j].kind = "turn_completed" =>
            {log'[j].response, log'[j].status, log'[j].usage}
              \subseteq heard \cup heard'
                          \cup {"", "completed", "error", "send_error", None}]_vars

\* "Terminal provider status" (event.rs, ResponseTurnCompleted.status): a
\* completed turn never reports the status of a response still running.
CompletedStatusIsTerminal ==
  \A j \in DOMAIN log : Is(j, "turn_completed") =>
    log[j].status \in TerminalKind \cup {"error", "send_error"}

-----------------------------------------------------------------------------
(* The observer implements the abstract envelope, read off the event stream *)

Positions(kind) == {i \in DOMAIN log : Is(i, kind)}

LatestIs(kind, others) ==
  \E i \in Positions(kind) : \A j \in (i + 1)..Len(log) : log[j].kind \notin others

StreamPhase ==
  IF Positions("session_started") = {} THEN "fresh"
  ELSE IF LatestIs("turn_started", {"turn_completed"}) THEN "turn" ELSE "idle"

Envelope == INSTANCE SessionEnvelope WITH
  phase     <- StreamPhase,
  ended     <- Positions("session_ended") # {},
  started   <- Cardinality(Positions("turn_started")),
  completed <- Cardinality(Positions("turn_completed"))

\* Every step of the observer, seen through the stream it emits, is a step of
\* the abstract envelope or leaves it unchanged.
ImplementsEnvelope == Envelope!Spec
=============================================================================
