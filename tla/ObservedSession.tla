---------------------------- MODULE ObservedSession ----------------------------
(***************************************************************************)
(* ObservedResponsesSession (responses_session.rs): the decorator that     *)
(* owns a rig-core websocket session and a ResponsesSessionObserver, here  *)
(* composed with the observer of ResponsesSession.                         *)
(*                                                                         *)
(* send, next_event and close are async methods on `&mut self`: one at a   *)
(* time is pending, and between its start and its end the future waits on  *)
(* the inner session.  The caller may drop the future there: what follows  *)
(* the await is then never run.  Each method is a Begin action, the code   *)
(* before the await, and one action per outcome.                           *)
(*                                                                         *)
(* The inner session and the server are external.  The server answers an   *)
(* accepted request n with response n: a chunk that opens it, a terminal   *)
(* chunk, then Done; or an Error instead of any of them.                   *)
(***************************************************************************)
EXTENDS Integers, Sequences, FiniteSets

CONSTANTS
  None,               \* Option::None
  Responses,          \* the ids of the responses, in the order of the requests
  AnyCallerTurns,     \* bound: sends of a caller that may do anything
  MaxEvents           \* bound on the log (never met within that many sends)

ResponseId == {Responses[n] : n \in DOMAIN Responses}
MaxTurns   == Len(Responses)   \* bound: sends of any caller

ASSUME EventBound == MaxEvents \in Nat
ASSUME TurnsBound == AnyCallerTurns \in 0..MaxTurns
ASSUME ResponsesDistinct ==
  /\ Responses \in Seq(ResponseId)
  /\ Cardinality(ResponseId) = MaxTurns
\* Option::None is neither an id nor a status.
ASSUME NoneIsNoValue ==
  None \notin ResponseId \cup {"in_progress", "completed", "failed", "send_error"}

VARIABLES
  caller,      \* who uses the decorator: "any" or "readme"
  sessionStarted, sessionEnded, inTurn, turn, log, heard,  \* the observer
  pc,          \* the pending method: "ready" when none, "gone" once consumed
  lastResult,  \* how the last method that returned ended
  sends,       \* number of sends so far
  chain,       \* inner.previous_response_id()
  link,        \* the connection: "up" or "down"
  stage,       \* the server's progress on the last accepted request
  wire,        \* frames sent by the server and not read yet
  mixed        \* history: a response may since be read in another's turn

observerVars == <<sessionStarted, sessionEnded, inTurn, turn, log, heard>>
innerVars    == <<chain, link, stage, wire, mixed>>
vars         == <<caller, observerVars, pc, lastResult, sends, innerVars>>

Observer == INSTANCE ResponsesSession WITH
  ResponseId <- ResponseId,
  Usage      <- {},
  ChunkKind  <- {"created", "completed", "failed"},
  WireStatus <- {"in_progress", "completed", "failed"},
  DoneStatus <- {"completed"},
  Reason     <- {"client_close", "transport_error", "into_inner"},
  MaxHosted  <- 1

Init ==
  /\ caller \in {"any", "readme"}
  /\ Observer!Init
  /\ pc = "ready"
  /\ lastResult = "none"
  /\ sends = 0
  /\ chain = None
  /\ link = "up"
  /\ stage = [turn |-> 0, at |-> "idle"]
  /\ wire = <<>>
  /\ mixed = FALSE

Go(from, to)   == pc = from /\ pc' = to
Return(result) == lastResult' = result

SendsAllowed == IF caller = "any" THEN AnyCallerTurns ELSE MaxTurns

-----------------------------------------------------------------------------
(* send and send_with_options *)

\* Mutant of BeginSend: a send inside an open turn is not reported.
BeginSendInTurnUnseen ==
  /\ sends < SendsAllowed
  /\ Go("ready", "sending")
  /\ sends' = sends + 1
  /\ IF inTurn THEN UNCHANGED observerVars ELSE Observer!ObserveSend(chain)
  /\ UNCHANGED <<lastResult, innerVars>>

\* observe_send runs before the request reaches the inner session.
BeginSend ==
  /\ sends < SendsAllowed
  /\ Go("ready", "sending")
  /\ sends' = sends + 1
  /\ Observer!ObserveSend(chain)
  /\ UNCHANGED <<lastResult, innerVars>>

\* The inner session hands the request to the server.  It may discard the
\* unread frames of the response before, or leave them to be read.  A response
\* the server had not ended yet is not continued.
Accept ==
  /\ link = "up"
  /\ stage' = [turn |-> sends, at |-> "accepted"]
  /\ wire' \in {<<>>, wire}
  /\ UNCHANGED <<chain, link>>

SendOk ==
  /\ Go("sending", "ready")
  /\ Accept
  /\ mixed' = (mixed \/ wire' # <<>>)
  /\ Return("ok")
  /\ UNCHANGED <<observerVars, sends>>

\* Mutant of SendErr: reported as an error event.
SendErrAsEvent ==
  /\ Go("sending", "ready")
  /\ Observer!ObserveError
  /\ Return("send_err")
  /\ UNCHANGED <<sends, innerVars>>

SendErr ==
  /\ Go("sending", "ready")
  /\ Observer!ObserveSendError
  /\ Return("send_err")
  /\ UNCHANGED <<sends, innerVars>>

\* The caller drops the send future; the request may have gone out.
DropSend ==
  /\ Go("sending", "ready")
  /\ Accept \/ UNCHANGED <<chain, link, stage, wire>>
  /\ mixed' = TRUE
  /\ Return("dropped")
  /\ UNCHANGED <<observerVars, sends>>

-----------------------------------------------------------------------------
(* next_event *)

BeginNextEvent ==
  /\ Go("ready", "receiving")
  /\ UNCHANGED <<observerVars, lastResult, sends, innerVars>>

\* observe_event, after the inner session returned the frame.
ObserveFrame(frame) ==
  \/ /\ frame.type = "chunk"
     /\ Observer!ObserveResponse([id |-> Responses[frame.turn], kind |-> frame.kind,
                                  status |-> frame.status, usage |-> None])
  \/ /\ frame.type = "done"
     /\ Observer!ObserveDone([id |-> Responses[frame.turn], status |-> "completed",
                              usage |-> None, hosted |-> frame.hosted])
  \/ /\ frame.type = "error"
     /\ Observer!ObserveError

NextEventOk ==
  /\ Go("receiving", "ready")
  /\ wire # <<>>
  /\ ObserveFrame(Head(wire))
  /\ wire' = Tail(wire)
  /\ chain' = IF Head(wire).type = "error" THEN chain
            ELSE Responses[Head(wire).turn]
  /\ Return("ok")
  /\ UNCHANGED <<sends, link, stage, mixed>>

\* `self.inner.next_event().await?`: the observer is not told.
NextEventErr ==
  /\ Go("receiving", "ready")
  /\ link = "down"
  /\ Return("next_err")
  /\ UNCHANGED <<observerVars, sends, innerVars>>

DropNextEvent ==
  /\ Go("receiving", "ready")
  /\ Return("dropped")
  /\ UNCHANGED <<observerVars, sends, innerVars>>

-----------------------------------------------------------------------------
(* close, into_inner, clear_previous_response_id, and dropping the decorator *)

BeginClose ==
  /\ Go("ready", "closing")
  /\ UNCHANGED <<observerVars, lastResult, sends, innerVars>>

CloseOk ==
  /\ Go("closing", "ready")
  /\ link' = "down"
  /\ Observer!ObserveClose("client_close")
  /\ Return("closed")
  /\ UNCHANGED <<sends, chain, stage, wire, mixed>>

\* Mutant of CloseErr: the error is propagated without telling the observer.
CloseErrUnseen ==
  /\ Go("closing", "ready")
  /\ Return("close_err")
  /\ UNCHANGED <<observerVars, sends, innerVars>>

CloseErr ==
  /\ Go("closing", "ready")
  /\ Observer!ObserveClose("transport_error")
  /\ Return("close_err")
  /\ UNCHANGED <<sends, innerVars>>

DropClose ==
  /\ Go("closing", "ready")
  /\ Return("dropped")
  /\ UNCHANGED <<observerVars, sends, innerVars>>

IntoInner ==
  /\ Go("ready", "gone")
  /\ Observer!ObserveClose("into_inner")
  /\ Return("into_inner")
  /\ UNCHANGED <<sends, innerVars>>

ClearPreviousResponseId ==
  /\ pc = "ready"
  /\ chain' = None
  /\ UNCHANGED <<observerVars, pc, lastResult, sends, link, stage, wire, mixed>>

\* There is no Drop impl: nothing is emitted.
DropDecorator ==
  /\ Go("ready", "gone")
  /\ UNCHANGED <<observerVars, lastResult, sends, innerVars>>

-----------------------------------------------------------------------------
(* The server and the connection *)

Chunk(kind, status) ==
  [type |-> "chunk", turn |-> stage.turn, kind |-> kind, status |-> status]

ServerSends(frame, next) ==
  /\ link = "up"
  /\ wire' = Append(wire, frame)
  /\ stage' = [stage EXCEPT !.at = next]
  /\ UNCHANGED <<observerVars, pc, lastResult, sends, chain, link, mixed>>

ServerOpens ==
  /\ stage.at = "accepted"
  /\ ServerSends(Chunk("created", "in_progress"), "open")

ServerEnds ==
  /\ stage.at = "open"
  /\ \E kind \in {"completed", "failed"} : ServerSends(Chunk(kind, kind), "ended")

ServerDone ==
  /\ stage.at = "ended"
  /\ \E n \in 0..1 :
       ServerSends([type |-> "done", turn |-> stage.turn, hosted |-> n], "idle")

ServerError ==
  /\ stage.at \in {"accepted", "open"}
  /\ ServerSends([type |-> "error", turn |-> stage.turn], "idle")

LinkFails ==
  /\ link = "up"
  /\ link' = "down"
  /\ UNCHANGED <<observerVars, pc, lastResult, sends, chain, stage, wire, mixed>>

Server == ServerOpens \/ ServerEnds \/ ServerDone \/ ServerError

Inner == SendOk \/ SendErr \/ NextEventOk \/ NextEventErr \/ CloseOk \/ CloseErr

-----------------------------------------------------------------------------
(* Two callers.  The caller of the README sends, reads while next_event     *)
(* returns events, sends again between turns, and closes once a method has  *)
(* failed or the conversation is over; it drops nothing and does not leave  *)
(* early.  The other one does anything the types allow.                     *)

ReadmeCaller ==
  /\ caller = "readme"
  /\ \/ ~inTurn /\ lastResult \in {"none", "ok"} /\ BeginSend
     \/ lastResult = "ok" /\ BeginNextEvent
     \/ /\ lastResult \in {"ok", "send_err", "next_err"}
        /\ lastResult = "ok" => ~inTurn
        /\ BeginClose

AnyCaller ==
  /\ caller = "any"
  /\ \/ BeginSend \/ BeginNextEvent \/ BeginClose
     \/ DropSend \/ DropNextEvent \/ DropClose
     \/ IntoInner \/ ClearPreviousResponseId \/ DropDecorator

Next == (ReadmeCaller \/ AnyCaller \/ Inner \/ Server \/ LinkFails) /\ UNCHANGED caller

ReadmeStep(A) == caller = "readme" /\ A /\ UNCHANGED caller

\* The caller of the README polls its futures, the inner session answers what
\* is pending, and the server goes on with the response it has begun.
Fairness ==
  /\ WF_vars(ReadmeStep(ReadmeCaller))
  /\ WF_vars(ReadmeStep(Server))
  /\ WF_vars(ReadmeStep(SendOk \/ SendErr))
  /\ WF_vars(ReadmeStep(NextEventOk \/ NextEventErr))
  /\ WF_vars(ReadmeStep(CloseOk \/ CloseErr))

Spec == Init /\ [][Next]_vars /\ Fairness

-----------------------------------------------------------------------------
(* Properties *)

TypeOK ==
  /\ caller \in {"any", "readme"}
  /\ Observer!TypeOK
  /\ pc \in {"ready", "sending", "receiving", "closing", "gone"}
  /\ lastResult \in {"none", "ok", "send_err", "next_err", "close_err",
                     "closed", "into_inner", "dropped"}
  /\ sends \in 0..MaxTurns
  /\ chain \in ResponseId \cup {None}
  /\ link \in {"up", "down"}
  /\ stage.turn \in 0..MaxTurns
  /\ stage.at \in {"idle", "accepted", "open", "ended"}
  /\ \A i \in DOMAIN wire : wire[i].turn \in 1..MaxTurns
  /\ mixed \in BOOLEAN

\* "The open turn is closed on the next send, on close, or on into_inner"
\* (README): when close, whatever its result, or into_inner has returned, no
\* turn is open and a session that started has ended.
ClosedMeansEnded ==
  pc \in {"ready", "gone"} /\ lastResult \in {"closed", "close_err", "into_inner"}
    => ~inTurn /\ (sessionStarted => sessionEnded)

\* Every send is one turn, also a send that fails or whose future is dropped:
\* the stream announces as many turns as there were calls to send.
OneTurnPerSend ==
  Cardinality({i \in DOMAIN log : log[i].kind = "turn_started"}) = sends

\* A send that fails closes its own turn with "send_error" (doc of
\* observe_send_error): observe_send ran before the await, so the turn is there.
SendErrorReported ==
  [][pc = "sending" /\ lastResult' = "send_err" /\ pc' = "ready"
       => /\ Len(log') = Len(log) + 1
          /\ log'[Len(log')].kind = "turn_completed"
          /\ log'[Len(log')].status = "send_error"]_vars

\* A completed turn reports the response to its own request, never the
\* response of the turn before, although the caller may stop reading a response
\* early and send again.  It takes a caller that drops no send and an inner
\* session that discards unread frames.
TurnOwnsItsResponse == ~mixed =>
  \A j \in DOMAIN log : log[j].kind = "turn_completed" =>
    LET n == Cardinality({i \in 1..(j - 1) : log[i].kind = "turn_started"})
    IN  log[j].response \in {"", Responses[n]}

\* "Errors are propagated; the observer is always notified so the lifecycle
\* envelope stays well-formed even on the failure path" (doc of the decorator):
\* once a method has returned an error no turn is left open.
EveryErrorObserved ==
  pc = "ready" /\ lastResult \in {"send_err", "next_err", "close_err"} => ~inTurn

\* With the caller of the README, every turn that opens completes.
TurnEventuallyCompletes == caller = "readme" /\ inTurn ~> ~inTurn
=============================================================================
