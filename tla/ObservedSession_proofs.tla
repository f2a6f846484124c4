------------------------- MODULE ObservedSession_proofs -------------------------
(***************************************************************************)
(* Proofs about ObservedSession, for every number of requests and whatever *)
(* the caller, the server and the connection do.                           *)
(*                                                                         *)
(* The first theorem is that the decorator drives its observer only by the *)
(* calls of ResponsesSession: what is proved there of an observer called   *)
(* in any order holds of the observer inside the decorator.  The others    *)
(* relate the observer's stream to the method calls and to the frames on   *)
(* the wire.                                                               *)
(***************************************************************************)
EXTENDS ObservedSession, FiniteSetTheorems, TLAPS

Status == {"in_progress", "completed", "failed"}

\* The theorems of ResponsesSession, about the observer of the decorator.
Proofs == INSTANCE ResponsesSession_proofs WITH
  ResponseId <- ResponseId,
  Usage      <- {},
  ChunkKind  <- {"created", "completed", "failed"},
  WireStatus <- {"in_progress", "completed", "failed"},
  DoneStatus <- {"completed"},
  Reason     <- {"client_close", "transport_error", "into_inner"},
  MaxHosted  <- 1

\* The assumptions of ResponsesSession hold of the decorator's observer.
LEMMA ObserverAssumptions ==
  /\ 1 \in Nat /\ MaxEvents \in Nat
  /\ {"created", "completed", "failed"} \subseteq Proofs!TerminalKind \cup Proofs!OpenKind
  /\ {"completed"} \subseteq Status
  /\ None \notin ResponseId \cup {} \cup Status
  BY EventBound, NoneIsNoValue DEF Status, Proofs!TerminalKind, Proofs!OpenKind

\* The two instances of ResponsesSession say the same.
LEMMA SameSpec == Proofs!Spec <=> Observer!Spec
  BY DEF Proofs!Spec, Proofs!Init, Proofs!Next, Proofs!vars, Observer!Spec,
         Observer!Init, Observer!Next, Observer!vars,
         Proofs!ClearedTurn, Observer!ClearedTurn, Proofs!Option, Observer!Option,
         Proofs!Chunk, Observer!Chunk, Proofs!DoneBody, Observer!DoneBody,
         Proofs!ObserveSend, Observer!ObserveSend,
         Proofs!ObserveSendError, Observer!ObserveSendError,
         Proofs!ObserveResponse, Observer!ObserveResponse,
         Proofs!ObserveDone, Observer!ObserveDone,
         Proofs!ObserveError, Observer!ObserveError,
         Proofs!ObserveClose, Observer!ObserveClose,
         Proofs!Room, Observer!Room, Proofs!FinalizeEvents, Observer!FinalizeEvents,
         Proofs!StartEvents, Observer!StartEvents, Proofs!TurnStarted, Observer!TurnStarted,
         Proofs!FreshTurn, Observer!FreshTurn, Proofs!Finalized, Observer!Finalized,
         Proofs!TurnCompleted, Observer!TurnCompleted, Proofs!OrElse, Observer!OrElse,
         Proofs!SessionStarted, Observer!SessionStarted, Proofs!SessionEnd, Observer!SessionEnd,
         Proofs!HostedEvents, Observer!HostedEvents, Proofs!AbsorbDone, Observer!AbsorbDone,
         Proofs!ResponseStatusString, Observer!ResponseStatusString,
         Proofs!TerminalKind, Observer!TerminalKind,
         Proofs!ChunkFacts, Observer!ChunkFacts, Proofs!DoneFacts, Observer!DoneFacts

(***************************************************************************)
(* Types, apart from the observer's own                                    *)
(***************************************************************************)

\* A frame on the wire answers one of the requests.
Frame ==
  [type : {"chunk"}, turn : 1..MaxTurns, kind : {"created", "completed", "failed"},
   status : Status]
    \cup [type : {"done"}, turn : 1..MaxTurns, hosted : 0..1]
    \cup [type : {"error"}, turn : 1..MaxTurns]

\* The inner session and the pending method.  A pending send is one of the
\* requests, and so is the one the server is answering.
InnerOK ==
  /\ caller \in {"any", "readme"}
  /\ pc \in {"ready", "sending", "receiving", "closing", "gone"}
  /\ lastResult \in {"none", "ok", "send_err", "next_err", "close_err",
                     "closed", "into_inner", "dropped"}
  /\ sends \in 0..MaxTurns
  /\ pc = "sending" => sends \in 1..MaxTurns
  /\ chain \in ResponseId \cup {None}
  /\ link \in {"up", "down"}
  /\ stage \in [turn : 0..MaxTurns, at : {"idle", "accepted", "open", "ended"}]
  /\ stage.at # "idle" => stage.turn \in 1..MaxTurns
  /\ wire \in Seq(Frame)
  /\ mixed \in BOOLEAN

LEMMA TurnsType == /\ MaxTurns \in Nat
                   /\ AnyCallerTurns \in 0..MaxTurns
                   /\ SendsAllowed \in 0..MaxTurns
                   /\ \A n \in 1..MaxTurns : Responses[n] \in ResponseId
  BY ResponsesDistinct, TurnsBound DEF MaxTurns, SendsAllowed

LEMMA InnerInit == Init => InnerOK
  <1> SUFFICES ASSUME Init PROVE InnerOK
    OBVIOUS
  <1>1. <<>> \in Seq(Frame)
    OBVIOUS
  <1>2. 0 \in 0..MaxTurns
    BY TurnsType
  <1>3. stage \in [turn : 0..MaxTurns, at : {"idle", "accepted", "open", "ended"}]
        /\ stage.at = "idle"
    BY <1>2 DEF Init
  <1> QED
    BY <1>1, <1>2, <1>3 DEF Init, InnerOK

\* The server appends a frame of the request it is answering.
LEMMA ServerStep ==
  ASSUME InnerOK, NEW frame \in Frame, NEW next \in {"idle", "accepted", "open", "ended"},
         stage.turn \in 1..MaxTurns, ServerSends(frame, next), UNCHANGED caller
  PROVE  InnerOK'
  <1>1. wire' \in Seq(Frame)
    BY DEF ServerSends, InnerOK
  <1>2. stage' \in [turn : 0..MaxTurns, at : {"idle", "accepted", "open", "ended"}]
        /\ stage'.turn = stage.turn
    BY DEF ServerSends, InnerOK
  <1> QED
    BY <1>1, <1>2 DEF ServerSends, InnerOK

LEMMA InnerStep == InnerOK /\ [Next]_vars => InnerOK'
  <1> SUFFICES ASSUME InnerOK, [Next]_vars PROVE InnerOK'
    OBVIOUS
  <1>1. CASE UNCHANGED vars
    BY <1>1 DEF InnerOK, vars, innerVars
  <1>2. CASE Next
    <2>0. UNCHANGED caller
      BY <1>2 DEF Next
    <2> USE DEF InnerOK, Go, Return, innerVars
    <2>1. CASE BeginSend
      BY <2>0, <2>1, TurnsType DEF BeginSend
    <2>2. ASSUME Accept, sends \in 1..MaxTurns
          PROVE  /\ wire' \in Seq(Frame)
                 /\ stage' \in [turn : 1..MaxTurns, at : {"accepted"}]
                 /\ UNCHANGED <<chain, link>>
      <3>1. <<>> \in Seq(Frame)
        OBVIOUS
      <3>2. wire' \in Seq(Frame)
        BY <2>2, <3>1 DEF Accept
      <3> QED
        BY <2>2, <3>2 DEF Accept
    <2>3. CASE SendOk
      BY <2>0, <2>2, <2>3 DEF SendOk
    <2>4. CASE SendErr
      BY <2>0, <2>4 DEF SendErr
    <2>5. CASE DropSend
      <3>1. CASE Accept
        BY <2>0, <2>2, <2>5, <3>1 DEF DropSend
      <3>2. CASE UNCHANGED <<chain, link, stage, wire>>
        BY <2>0, <2>5, <3>2 DEF DropSend
      <3> QED
        BY <2>5, <3>1, <3>2 DEF DropSend
    <2>6. CASE BeginNextEvent \/ NextEventErr \/ DropNextEvent
      BY <2>0, <2>6 DEF BeginNextEvent, NextEventErr, DropNextEvent
    <2>7. CASE NextEventOk
      <3>1. wire' \in Seq(Frame) /\ Head(wire) \in Frame
        BY <2>7 DEF NextEventOk
      <3>2. Head(wire).turn \in 1..MaxTurns
        BY <3>1 DEF Frame
      <3>3. chain' \in ResponseId \cup {None}
        BY <2>7, <3>2, TurnsType DEF NextEventOk
      <3> QED
        BY <2>0, <2>7, <3>1, <3>3 DEF NextEventOk
    <2>8. CASE BeginClose \/ CloseOk \/ CloseErr \/ DropClose
      BY <2>0, <2>8 DEF BeginClose, CloseOk, CloseErr, DropClose
    <2>9. CASE IntoInner \/ ClearPreviousResponseId \/ DropDecorator
      BY <2>0, <2>9 DEF IntoInner, ClearPreviousResponseId, DropDecorator
    <2>10. CASE Server
      <3>1. stage.turn \in 1..MaxTurns
        BY <2>10 DEF Server, ServerOpens, ServerEnds, ServerDone, ServerError
      <3>2. /\ Chunk("created", "in_progress") \in Frame
            /\ \A kind \in {"completed", "failed"} : Chunk(kind, kind) \in Frame
            /\ \A n \in 0..1 : [type |-> "done", turn |-> stage.turn, hosted |-> n] \in Frame
            /\ [type |-> "error", turn |-> stage.turn] \in Frame
        BY <3>1 DEF Chunk, Frame, Status
      <3> HIDE DEF InnerOK
      <3> QED
        BY <2>0, <2>10, <3>1, <3>2, ServerStep
           DEF Server, ServerOpens, ServerEnds, ServerDone, ServerError
    <2>11. CASE LinkFails
      BY <2>0, <2>11 DEF LinkFails
    <2> QED
      BY <1>2, <2>1, <2>3, <2>4, <2>5, <2>6, <2>7, <2>8, <2>9, <2>10, <2>11
         DEF Next, ReadmeCaller, AnyCaller, Inner
  <1> QED
    BY <1>1, <1>2

THEOREM InnerTyping == Spec => []InnerOK
  <1> QED
    BY InnerInit, InnerStep, PTL DEF Spec

(***************************************************************************)
(* The decorator implements the observer                                   *)
(***************************************************************************)

\* What a received frame tells the observer.
LEMMA FrameIsObserved ==
  ASSUME NEW frame \in Frame, ObserveFrame(frame)
  PROVE  Observer!Next
  <1>0. frame.turn \in 1..MaxTurns /\ Responses[frame.turn] \in ResponseId
    BY TurnsType DEF Frame
  <1>1. CASE frame.type = "chunk"
    <2> DEFINE chunk == [id |-> Responses[frame.turn], kind |-> frame.kind,
                         status |-> frame.status, usage |-> None]
    <2>1. chunk \in Observer!Chunk
      BY <1>0, <1>1 DEF Frame, Status, Observer!Chunk, Observer!Option
    <2>2. Observer!ObserveResponse(chunk)
      BY <1>1 DEF ObserveFrame
    <2> QED
      BY <2>1, <2>2 DEF Observer!Next
  <1>2. CASE frame.type = "done"
    <2> DEFINE done == [id |-> Responses[frame.turn], status |-> "completed",
                        usage |-> None, hosted |-> frame.hosted]
    <2>1. done \in Observer!DoneBody
      BY <1>0, <1>2 DEF Frame, Observer!DoneBody, Observer!Option
    <2>2. Observer!ObserveDone(done)
      BY <1>2 DEF ObserveFrame
    <2> QED
      BY <2>1, <2>2 DEF Observer!Next
  <1>3. CASE frame.type = "error"
    BY <1>3 DEF ObserveFrame, Observer!Next
  <1> QED
    BY <1>1, <1>2, <1>3 DEF ObserveFrame

\* Every step is one call of the observer, or none.
LEMMA ObserverStep == InnerOK /\ [Next]_vars => [Observer!Next]_(Observer!vars)
  <1> SUFFICES ASSUME InnerOK, [Next]_vars PROVE [Observer!Next]_(Observer!vars)
    OBVIOUS
  <1> USE DEF observerVars, Observer!vars
  <1>1. CASE UNCHANGED vars
    BY <1>1 DEF vars
  <1>2. CASE BeginSend
    <2>1. chain \in Observer!Option(ResponseId)
      BY DEF InnerOK, Observer!Option
    <2> QED
      BY <1>2, <2>1 DEF BeginSend, Observer!Next
  <1>3. CASE SendErr
    BY <1>3 DEF SendErr, Observer!Next
  <1>4. CASE NextEventOk
    <2>1. Head(wire) \in Frame
      BY <1>4 DEF NextEventOk, InnerOK
    <2> QED
      BY <1>4, <2>1, FrameIsObserved DEF NextEventOk
  <1>5. CASE CloseOk \/ CloseErr \/ IntoInner
    BY <1>5 DEF CloseOk, CloseErr, IntoInner, Observer!Next
  <1>6. CASE \/ SendOk \/ DropSend \/ BeginNextEvent \/ NextEventErr \/ DropNextEvent
             \/ BeginClose \/ DropClose \/ ClearPreviousResponseId \/ DropDecorator
             \/ LinkFails
    BY <1>6 DEF SendOk, DropSend, BeginNextEvent, NextEventErr, DropNextEvent,
                BeginClose, DropClose, ClearPreviousResponseId, DropDecorator, LinkFails
  <1>7. CASE Server
    BY <1>7 DEF Server, ServerOpens, ServerEnds, ServerDone, ServerError, ServerSends
  <1> QED
    BY <1>1, <1>2, <1>3, <1>4, <1>5, <1>6, <1>7
       DEF Next, ReadmeCaller, AnyCaller, Inner

\* The decorator is a caller of the observer that ResponsesSession allows.
THEOREM Implementation == Spec => Observer!Spec
  <1>1. Init => Observer!Init
    BY DEF Init
  <1> QED
    BY <1>1, InnerTyping, ObserverStep, PTL DEF Spec, Observer!Spec

LEMMA SameCalls ==
  /\ \A previous : Proofs!ObserveSend(previous) <=> Observer!ObserveSend(previous)
  /\ Proofs!ObserveSendError <=> Observer!ObserveSendError
  /\ \A chunk : Proofs!ObserveResponse(chunk) <=> Observer!ObserveResponse(chunk)
  /\ \A done : Proofs!ObserveDone(done) <=> Observer!ObserveDone(done)
  /\ Proofs!ObserveError <=> Observer!ObserveError
  /\ \A reason : Proofs!ObserveClose(reason) <=> Observer!ObserveClose(reason)
  /\ Proofs!DoneBody = Observer!DoneBody
  /\ \A S : Proofs!Option(S) = Observer!Option(S)
  BY DEF Proofs!ClearedTurn, Observer!ClearedTurn, Proofs!Option, Observer!Option,
         Proofs!DoneBody, Observer!DoneBody,
         Proofs!ObserveSend, Observer!ObserveSend,
         Proofs!ObserveSendError, Observer!ObserveSendError,
         Proofs!ObserveResponse, Observer!ObserveResponse,
         Proofs!ObserveDone, Observer!ObserveDone,
         Proofs!ObserveError, Observer!ObserveError,
         Proofs!ObserveClose, Observer!ObserveClose,
         Proofs!Room, Observer!Room, Proofs!FinalizeEvents, Observer!FinalizeEvents,
         Proofs!StartEvents, Observer!StartEvents, Proofs!TurnStarted, Observer!TurnStarted,
         Proofs!FreshTurn, Observer!FreshTurn, Proofs!Finalized, Observer!Finalized,
         Proofs!TurnCompleted, Observer!TurnCompleted, Proofs!OrElse, Observer!OrElse,
         Proofs!SessionStarted, Observer!SessionStarted, Proofs!SessionEnd, Observer!SessionEnd,
         Proofs!HostedEvents, Observer!HostedEvents, Proofs!AbsorbDone, Observer!AbsorbDone,
         Proofs!ResponseStatusString, Observer!ResponseStatusString,
         Proofs!TerminalKind, Observer!TerminalKind,
         Proofs!ChunkFacts, Observer!ChunkFacts, Proofs!DoneFacts, Observer!DoneFacts

LEMMA SameTypes ==
  /\ Proofs!TypeOK <=> Observer!TypeOK
  /\ Proofs!Event = Observer!Event
  BY DEF Proofs!TypeOK, Observer!TypeOK, Proofs!Event, Observer!Event,
         Proofs!Option, Observer!Option, Proofs!TerminalKind, Observer!TerminalKind,
         Proofs!SessionStarted, Observer!SessionStarted,
         Proofs!TurnStarted, Observer!TurnStarted, Proofs!SessionEnd, Observer!SessionEnd

\* Every variable keeps its type, whatever the caller, the server and the
\* connection do.
THEOREM Typing == Spec => []TypeOK
  <1>1. Proofs!Spec => []Proofs!TypeOK
    BY ObserverAssumptions, Proofs!Typing DEF Status
  <1>2. InnerOK /\ Observer!TypeOK => TypeOK
    <2> SUFFICES ASSUME InnerOK, Observer!TypeOK PROVE TypeOK
      OBVIOUS
    <2>1. \A i \in DOMAIN wire : wire[i].turn \in 1..MaxTurns
      BY DEF InnerOK, Frame
    <2> QED
      BY <2>1 DEF InnerOK, TypeOK
  <1> QED
    BY <1>1, <1>2, InnerTyping, Implementation, SameSpec, SameTypes, PTL

\* Inside the decorator too, the stream is bracketed, its turns alternate, each
\* completion answers its start, and the flags say so.
THEOREM StreamIsSound ==
  Spec => [](/\ Observer!SessionBrackets
             /\ Observer!TurnsAlternate
             /\ Observer!CompletionMatchesStart
             /\ Observer!FlagsAgree)
  <1>1. /\ Proofs!Spec => []Proofs!SessionBrackets
        /\ Proofs!Spec => []Proofs!TurnsAlternate
        /\ Proofs!Spec => []Proofs!CompletionMatchesStart
        /\ Proofs!Spec => []Proofs!FlagsAgree
    BY ObserverAssumptions, Proofs!SessionIsBracketed, Proofs!TurnsDoAlternate,
       Proofs!CompletionsMatch, Proofs!FlagsDoAgree DEF Status
  <1>2. /\ Proofs!SessionBrackets <=> Observer!SessionBrackets
        /\ Proofs!TurnsAlternate <=> Observer!TurnsAlternate
        /\ Proofs!CompletionMatchesStart <=> Observer!CompletionMatchesStart
        /\ Proofs!FlagsAgree <=> Observer!FlagsAgree
    BY DEF Proofs!SessionBrackets, Observer!SessionBrackets,
           Proofs!OneSessionStart, Observer!OneSessionStart,
           Proofs!EndedOnceBetweenTurns, Observer!EndedOnceBetweenTurns,
           Proofs!TurnsAlternate, Observer!TurnsAlternate,
           Proofs!CompletionMatchesStart, Observer!CompletionMatchesStart,
           Proofs!FlagsAgree, Observer!FlagsAgree,
           Proofs!Is, Observer!Is, Proofs!NoneBetween, Observer!NoneBetween
  <1> QED
    BY <1>1, <1>2, Implementation, SameSpec, PTL

(***************************************************************************)
(* The method calls and the stream                                         *)
(***************************************************************************)

\* A pending send has its turn open, and nothing is open once the decorator
\* has been closed or consumed.
LifeInv == (pc = "sending" => inTurn) /\ ClosedMeansEnded

LEMMA LifeStep == TypeOK /\ LifeInv /\ [Next]_vars => LifeInv'
  <1> SUFFICES ASSUME TypeOK, LifeInv, [Next]_vars PROVE LifeInv'
    OBVIOUS
  <1> USE DEF LifeInv, ClosedMeansEnded, Go, Return, observerVars
  <1>0. sessionStarted \in BOOLEAN /\ sessionEnded \in BOOLEAN /\ inTurn \in BOOLEAN
    BY DEF TypeOK, Observer!TypeOK
  <1>1. CASE UNCHANGED vars
    BY <1>1 DEF vars
  <1>2. CASE BeginSend
    BY <1>2 DEF BeginSend, Observer!ObserveSend
  <1>3. CASE SendErr
    BY <1>3 DEF SendErr
  <1>4. CASE NextEventOk
    BY <1>4 DEF NextEventOk
  <1>5. ASSUME NEW reason, Observer!ObserveClose(reason)
        PROVE  ~inTurn' /\ (sessionStarted' => sessionEnded')
    BY <1>0, <1>5 DEF Observer!ObserveClose
  <1>6. CASE CloseOk \/ CloseErr \/ IntoInner
    BY <1>5, <1>6 DEF CloseOk, CloseErr, IntoInner
  <1>7. CASE SendOk \/ DropSend \/ BeginNextEvent \/ NextEventErr \/ DropNextEvent
    BY <1>7 DEF SendOk, DropSend, BeginNextEvent, NextEventErr, DropNextEvent
  <1>8. CASE \/ BeginClose \/ DropClose \/ ClearPreviousResponseId \/ DropDecorator
             \/ LinkFails
    BY <1>8 DEF BeginClose, DropClose, ClearPreviousResponseId, DropDecorator, LinkFails
  <1>9. CASE Server
    BY <1>9 DEF Server, ServerOpens, ServerEnds, ServerDone, ServerError, ServerSends
  <1> QED
    BY <1>1, <1>2, <1>3, <1>4, <1>6, <1>7, <1>8, <1>9
       DEF Next, ReadmeCaller, AnyCaller, Inner

LEMMA LifeInvariant == Spec => []LifeInv
  <1>1. Init => LifeInv
    BY DEF Init, LifeInv, ClosedMeansEnded
  <1> QED
    BY <1>1, LifeStep, Typing, PTL DEF Spec

\* Whatever close returned, and after into_inner, no turn is open and a session
\* that started has ended.
THEOREM ClosingEnds == Spec => []ClosedMeansEnded
  <1>1. LifeInv => ClosedMeansEnded
    BY DEF LifeInv
  <1> QED
    BY <1>1, LifeInvariant, PTL

\* A send that fails emits one event, the completion of its own turn with the
\* status "send_error".
THEOREM SendErrorsAreReported == Spec => SendErrorReported
  <1> DEFINE Reported == pc = "sending" /\ lastResult' = "send_err" /\ pc' = "ready"
                           => /\ Len(log') = Len(log) + 1
                              /\ log'[Len(log')].kind = "turn_completed"
                              /\ log'[Len(log')].status = "send_error"
  <1>1. TypeOK /\ LifeInv /\ [Next]_vars => [Reported]_vars
    <2> SUFFICES ASSUME TypeOK, LifeInv, Next, pc = "sending", pc' = "ready",
                        lastResult' = "send_err"
                 PROVE  /\ Len(log') = Len(log) + 1
                        /\ log'[Len(log')].kind = "turn_completed"
                        /\ log'[Len(log')].status = "send_error"
      OBVIOUS
    <2>1. SendErr
      BY DEF Next, ReadmeCaller, AnyCaller, Inner, Go, Return, BeginSend, BeginNextEvent,
             BeginClose, SendOk, DropSend, DropNextEvent, DropClose, IntoInner,
             ClearPreviousResponseId, DropDecorator, NextEventOk, NextEventErr,
             CloseOk, CloseErr, Server, ServerOpens, ServerEnds, ServerDone,
             ServerError, ServerSends, LinkFails
    <2> DEFINE e == Observer!TurnCompleted([turn EXCEPT !.status = "send_error"])
    <2>2. log' = log \o <<e>>
      BY <2>1 DEF SendErr, Observer!ObserveSendError, Observer!FinalizeEvents, LifeInv
    <2>3. e.kind = "turn_completed" /\ e.status = "send_error"
      <3>1. turn \in [previous : Observer!Option(ResponseId),
                      response : Observer!Option(ResponseId),
                      status : Observer!Option(Status \cup Observer!TerminalKind),
                      usage : Observer!Option({}), hosted : Nat, clock : BOOLEAN]
        BY DEF TypeOK, Observer!TypeOK, Status
      <3>2. None # "send_error"
        BY NoneIsNoValue
      <3> QED
        BY <3>1, <3>2 DEF Observer!TurnCompleted, Observer!OrElse
    <2>4. log \in Seq(Observer!Event)
      BY DEF TypeOK, Observer!TypeOK
    <2> HIDE DEF e
    <2>5. Len(log') = Len(log) + 1 /\ log'[Len(log) + 1] = e
      BY <2>2, <2>4
    <2> QED
      BY <2>3, <2>5
  <1> QED
    BY <1>1, Typing, LifeInvariant, PTL DEF Spec, SendErrorReported

\* Both modules count with the same Cardinality.
LEMMA SameCardinality == \A S : Proofs!Cardinality(S) = Cardinality(S)
  BY DEF Proofs!Cardinality, Cardinality

Starts == Proofs!Count(log, "turn_started")

\* A call of the observer other than observe_send starts no turn.
LEMMA FrameStartsNone ==
  ASSUME Proofs!TypeOK, NEW frame \in Frame, ObserveFrame(frame)
  PROVE  Starts' = Starts
  <1>0. frame.turn \in 1..MaxTurns /\ Responses[frame.turn] \in ResponseId
    BY TurnsType DEF Frame
  <1>1. CASE frame.type = "chunk"
    BY <1>1 DEF ObserveFrame, Observer!ObserveResponse, Starts
  <1>2. CASE frame.type = "done"
    <2> DEFINE done == [id |-> Responses[frame.turn], status |-> "completed",
                        usage |-> None, hosted |-> frame.hosted]
    <2>1. done \in Proofs!DoneBody
      BY <1>0, <1>2 DEF Frame, Proofs!DoneBody, Proofs!Option
    <2>2. Proofs!ObserveDone(done)
      BY <1>2, SameCalls DEF ObserveFrame
    <2> QED
      BY <2>1, <2>2, ObserverAssumptions, Proofs!OtherCounts DEF Starts, Status
  <1>3. CASE frame.type = "error"
    <2>1. Proofs!ObserveError
      BY <1>3, SameCalls DEF ObserveFrame
    <2> QED
      BY <2>1, ObserverAssumptions, Proofs!OtherCounts DEF Starts, Status
  <1> QED
    BY <1>1, <1>2, <1>3 DEF ObserveFrame

LEMMA StartsStep == TypeOK /\ InnerOK /\ Starts = sends /\ [Next]_vars => (Starts = sends)'
  <1> SUFFICES ASSUME TypeOK, InnerOK, Starts = sends, [Next]_vars PROVE Starts' = sends'
    OBVIOUS
  <1> USE DEF observerVars
  <1>0. Proofs!TypeOK
    BY SameTypes DEF TypeOK
  <1>1. CASE BeginSend
    <2>1. chain \in Proofs!Option(ResponseId) /\ Proofs!ObserveSend(chain)
      BY <1>1, SameCalls DEF BeginSend, InnerOK, Proofs!Option
    <2> QED
      BY <1>0, <1>1, <2>1, ObserverAssumptions, Proofs!SendCounts
         DEF Starts, Status, BeginSend
  <1>2. CASE SendErr
    <2>1. Proofs!ObserveSendError /\ sends' = sends
      BY <1>2, SameCalls DEF SendErr
    <2> QED
      BY <1>0, <2>1, ObserverAssumptions, Proofs!OtherCounts DEF Starts, Status
  <1>3. CASE NextEventOk
    <2>1. Head(wire) \in Frame /\ ObserveFrame(Head(wire)) /\ sends' = sends
      BY <1>3 DEF NextEventOk, InnerOK
    <2> QED
      BY <1>0, <2>1, FrameStartsNone
  <1>4. CASE CloseOk \/ CloseErr \/ IntoInner
    <2>1. /\ \E reason \in {"client_close", "transport_error", "into_inner"} :
               Proofs!ObserveClose(reason)
          /\ sends' = sends
      BY <1>4, SameCalls DEF CloseOk, CloseErr, IntoInner
    <2> QED
      BY <1>0, <2>1, ObserverAssumptions, Proofs!OtherCounts DEF Starts, Status
  <1>5. CASE UNCHANGED <<log, sends>>
    BY <1>5 DEF Starts
  <1>6. CASE \/ SendOk \/ DropSend \/ BeginNextEvent \/ NextEventErr \/ DropNextEvent
             \/ BeginClose \/ DropClose \/ ClearPreviousResponseId \/ DropDecorator
             \/ Server \/ LinkFails \/ UNCHANGED vars
    BY <1>5, <1>6
       DEF SendOk, DropSend, BeginNextEvent, NextEventErr, DropNextEvent, BeginClose,
           DropClose, ClearPreviousResponseId, DropDecorator, Server, ServerOpens,
           ServerEnds, ServerDone, ServerError, ServerSends, LinkFails, vars
  <1> QED
    BY <1>1, <1>2, <1>3, <1>4, <1>6 DEF Next, ReadmeCaller, AnyCaller, Inner

LEMMA StartsAreSends == Spec => [](Starts = sends)
  <1>1. Init => Starts = sends
    <2> SUFFICES ASSUME Init PROVE Starts = 0
      BY DEF Init
    <2>1. Proofs!OfKind(log, Len(log), "turn_started") = {}
      BY DEF Init, Observer!Init, Proofs!OfKind
    <2> QED
      BY <2>1, FS_EmptySet, SameCardinality DEF Starts, Proofs!Count, Proofs!CountIn
  <1> QED
    BY <1>1, StartsStep, Typing, InnerTyping, PTL DEF Spec

\* The stream announces as many turns as there were calls to send, also when
\* some failed or were dropped.
THEOREM TurnsAreSends == Spec => []OneTurnPerSend
  <1>1. TypeOK /\ Starts = sends => OneTurnPerSend
    <2> SUFFICES ASSUME TypeOK, Starts = sends PROVE OneTurnPerSend
      OBVIOUS
    <2>1. DOMAIN log = 1..Len(log)
      BY DEF TypeOK, Observer!TypeOK
    <2>2. {i \in DOMAIN log : log[i].kind = "turn_started"}
            = Proofs!OfKind(log, Len(log), "turn_started")
      BY <2>1 DEF Proofs!OfKind
    <2> QED
      BY <2>2, SameCardinality DEF OneTurnPerSend, Starts, Proofs!Count, Proofs!CountIn
  <1> QED
    BY <1>1, StartsAreSends, Typing, PTL

(***************************************************************************)
(* Whose response a turn reports                                           *)
(***************************************************************************)

\* While an open turn is read, the server answers its request and every frame
\* on the wire belongs to it; so what the turn has recorded is its own.
OwnInv ==
  ~mixed =>
    /\ Proofs!AllOwn(log, Responses)
    /\ inTurn => turn.response \in {None, Responses[sends]}
    /\ inTurn /\ pc # "sending" =>
         stage.turn = sends /\ \A i \in DOMAIN wire : wire[i].turn = sends

\* A frame of the open turn's own request.
LEMMA FrameKeepsOwn ==
  ASSUME Proofs!TypeOK, Starts = sends, NEW frame \in Frame, ObserveFrame(frame),
         Proofs!AllOwn(log, Responses),
         inTurn => frame.turn = sends /\ turn.response \in {None, Responses[sends]}
  PROVE  /\ Proofs!AllOwn(log', Responses)
         /\ inTurn' => inTurn /\ turn'.response \in {None, Responses[sends]}
  <1>0. frame.turn \in 1..MaxTurns /\ Responses[frame.turn] \in ResponseId
    BY TurnsType DEF Frame
  <1>1. CASE frame.type = "chunk"
    <2> DEFINE id == Responses[frame.turn]
    <2>1. log' = log /\ inTurn' = inTurn
      BY <1>1 DEF ObserveFrame, Observer!ObserveResponse
    <2>2. turn'.response = id
      BY <1>1 DEF ObserveFrame, Observer!ObserveResponse, Proofs!TypeOK
    <2> QED
      BY <2>1, <2>2
  <1>2. CASE frame.type = "done"
    <2> DEFINE done == [id |-> Responses[frame.turn], status |-> "completed",
                        usage |-> None, hosted |-> frame.hosted]
    <2>1. done \in Proofs!DoneBody
      BY <1>0, <1>2 DEF Frame, Proofs!DoneBody, Proofs!Option
    <2>2. Proofs!ObserveDone(done) /\ inTurn' = FALSE
      BY <1>2, SameCalls DEF ObserveFrame, Observer!ObserveDone
    <2>3. /\ done.id # None
          /\ inTurn => done.id = Responses[Proofs!Count(log, "turn_started")]
      BY <1>0, NoneIsNoValue DEF Starts
    <2> HIDE DEF done
    <2>4. Proofs!AllOwn(log', Responses)
      BY <2>1, <2>2, <2>3, ObserverAssumptions, Proofs!DoneKeepsOwn DEF Status
    <2> QED
      BY <2>2, <2>4
  <1>3. CASE frame.type = "error"
    <2>1. Proofs!ObserveError /\ inTurn' = FALSE
      BY <1>3, SameCalls DEF ObserveFrame, Observer!ObserveError
    <2>2. Proofs!OpenOwn(log, turn.response, Responses)
      BY DEF Proofs!OpenOwn, Starts
    <2>3. Proofs!AllOwn(log', Responses)
      BY <2>1, <2>2, ObserverAssumptions, Proofs!EndKeepsOwn DEF Status
    <2> QED
      BY <2>1, <2>3
  <1> QED
    BY <1>1, <1>2, <1>3 DEF ObserveFrame

LEMMA OwnStep ==
  TypeOK /\ InnerOK /\ LifeInv /\ Starts = sends /\ OwnInv /\ [Next]_vars => OwnInv'
  <1> SUFFICES ASSUME TypeOK, InnerOK, LifeInv, Starts = sends, OwnInv, [Next]_vars,
                      ~mixed'
               PROVE  /\ Proofs!AllOwn(log', Responses)
                      /\ inTurn' => turn'.response \in {None, Responses[sends']}
                      /\ inTurn' /\ pc' # "sending" =>
                           /\ stage'.turn = sends'
                           /\ \A i \in DOMAIN wire' : wire'[i].turn = sends'
    BY DEF OwnInv
  <1> USE DEF observerVars, innerVars, Go, Return
  <1>0. Proofs!TypeOK
    BY SameTypes DEF TypeOK
  <1>1. ~mixed
    BY DEF Next, ReadmeCaller, AnyCaller, Inner, BeginSend, BeginNextEvent,
           BeginClose, SendOk, SendErr, DropSend, DropNextEvent, DropClose, IntoInner,
           ClearPreviousResponseId, DropDecorator, NextEventOk, NextEventErr,
           CloseOk, CloseErr, Server, ServerOpens, ServerEnds, ServerDone,
           ServerError, ServerSends, LinkFails, vars
  <1>2. /\ Proofs!AllOwn(log, Responses)
        /\ inTurn => turn.response \in {None, Responses[sends]}
        /\ inTurn /\ pc # "sending" =>
             stage.turn = sends /\ \A i \in DOMAIN wire : wire[i].turn = sends
    BY <1>1 DEF OwnInv
  <1>3. Proofs!OpenOwn(log, turn.response, Responses)
    BY <1>2 DEF Proofs!OpenOwn, Starts
  <1>4. CASE BeginSend
    <2>1. /\ chain \in Proofs!Option(ResponseId)
          /\ Proofs!ObserveSend(chain)
          /\ pc' = "sending"
      BY <1>4, SameCalls DEF BeginSend, InnerOK, Proofs!Option
    <2>2. Proofs!AllOwn(log', Responses) /\ turn'.response = None
      BY <1>0, <1>2, <1>3, <2>1, ObserverAssumptions, Proofs!SendKeepsOwn DEF Status
    <2> QED
      BY <2>1, <2>2
  <1>5. CASE SendOk
    <2>1. wire' = <<>> /\ stage'.turn = sends
      BY <1>5 DEF SendOk, Accept
    <2>2. UNCHANGED <<observerVars, sends>>
      BY <1>5 DEF SendOk
    <2> QED
      BY <1>2, <2>1, <2>2
  \* A call that ends the turn.
  <1>6. ASSUME \/ Proofs!ObserveSendError
               \/ \E reason \in {"client_close", "transport_error", "into_inner"} :
                    Proofs!ObserveClose(reason)
        PROVE  Proofs!AllOwn(log', Responses) /\ ~inTurn'
    <2>1. Proofs!AllOwn(log', Responses)
      BY <1>0, <1>2, <1>3, <1>6, ObserverAssumptions, Proofs!EndKeepsOwn DEF Status
    <2>2. ~inTurn'
      BY <1>6 DEF Proofs!ObserveSendError, Proofs!ObserveClose
    <2> QED
      BY <2>1, <2>2
  <1>7. CASE SendErr
    <2>1. Proofs!ObserveSendError
      BY <1>7, SameCalls DEF SendErr
    <2> QED
      BY <1>6, <2>1
  <1>8. CASE CloseOk \/ CloseErr \/ IntoInner
    <2>1. \E reason \in {"client_close", "transport_error", "into_inner"} :
            Proofs!ObserveClose(reason)
      BY <1>8, SameCalls DEF CloseOk, CloseErr, IntoInner
    <2> QED
      BY <1>6, <2>1
  <1>9. CASE NextEventOk
    <2>1. /\ Head(wire) \in Frame /\ wire # <<>> /\ wire \in Seq(Frame)
          /\ ObserveFrame(Head(wire))
          /\ wire' = Tail(wire) /\ pc = "receiving"
          /\ UNCHANGED <<sends, stage>>
      BY <1>9 DEF NextEventOk, InnerOK
    <2>2. inTurn => Head(wire).turn = sends
      BY <1>2, <2>1
    <2>3. /\ Proofs!AllOwn(log', Responses)
          /\ inTurn' => inTurn /\ turn'.response \in {None, Responses[sends]}
      BY <1>0, <1>2, <2>1, <2>2, FrameKeepsOwn
    <2>4. inTurn => \A i \in DOMAIN wire' : wire'[i].turn = sends
      <3>1. \A i \in DOMAIN Tail(wire) : i + 1 \in DOMAIN wire /\ Tail(wire)[i] = wire[i + 1]
        BY <2>1
      <3> QED
        BY <1>2, <2>1, <3>1
    <2> QED
      BY <1>2, <2>1, <2>3, <2>4
  <1>10. CASE Server
    <2>1. UNCHANGED <<observerVars, pc, sends>> /\ stage'.turn = stage.turn
      BY <1>10 DEF Server, ServerOpens, ServerEnds, ServerDone, ServerError,
                   ServerSends, InnerOK
    <2>2. \E frame \in Frame : frame.turn = stage.turn /\ wire' = Append(wire, frame)
      <3>1. stage.turn \in 1..MaxTurns
        BY <1>10 DEF Server, ServerOpens, ServerEnds, ServerDone, ServerError, InnerOK
      <3>2. /\ Chunk("created", "in_progress") \in Frame
            /\ \A kind \in {"completed", "failed"} : Chunk(kind, kind) \in Frame
            /\ \A n \in 0..1 : [type |-> "done", turn |-> stage.turn, hosted |-> n] \in Frame
            /\ [type |-> "error", turn |-> stage.turn] \in Frame
        BY <3>1 DEF Chunk, Frame, Status
      <3>3. \A kind, status : Chunk(kind, status).turn = stage.turn
        BY DEF Chunk
      <3> QED
        BY <1>10, <3>2, <3>3
           DEF Server, ServerOpens, ServerEnds, ServerDone, ServerError, ServerSends
    <2>3. wire \in Seq(Frame)
      BY DEF InnerOK
    <2>4. inTurn /\ pc # "sending" => \A i \in DOMAIN wire' : wire'[i].turn = sends
      BY <1>2, <2>2, <2>3
    <2> QED
      BY <1>2, <2>1, <2>4
  <1>11. CASE UNCHANGED <<observerVars, sends, stage, wire>> /\ pc # "sending"
    BY <1>2, <1>11
  <1>12. CASE \/ BeginNextEvent \/ NextEventErr \/ DropNextEvent \/ BeginClose
              \/ DropClose \/ ClearPreviousResponseId \/ DropDecorator
    BY <1>11, <1>12
       DEF BeginNextEvent, NextEventErr, DropNextEvent, BeginClose, DropClose,
           ClearPreviousResponseId, DropDecorator
  <1>13. CASE LinkFails \/ UNCHANGED vars
    BY <1>2, <1>13 DEF LinkFails, vars
  <1>14. CASE DropSend
    BY <1>14 DEF DropSend
  <1> QED
    BY <1>4, <1>5, <1>7, <1>8, <1>9, <1>10, <1>12, <1>13, <1>14
       DEF Next, ReadmeCaller, AnyCaller, Inner

\* A completed turn reports the response to its own request, for a caller that
\* drops no send and an inner session that discards unread frames.
THEOREM TurnsOwnTheirResponse == Spec => []TurnOwnsItsResponse
  <1>1. Init => OwnInv
    BY DEF Init, Observer!Init, OwnInv, Proofs!AllOwn
  <1>2. TypeOK /\ OwnInv => TurnOwnsItsResponse
    <2> SUFFICES ASSUME TypeOK, OwnInv, ~mixed, NEW j \in DOMAIN log,
                        log[j].kind = "turn_completed"
                 PROVE  log[j].response \in
                          {"", Responses[Cardinality({i \in 1..(j - 1) :
                                                        log[i].kind = "turn_started"})]}
      BY DEF TurnOwnsItsResponse
    <2>1. j \in 1..Len(log)
      BY DEF TypeOK, Observer!TypeOK
    <2>2. log[j].response \in {"", Responses[Proofs!CountIn(log, j - 1, "turn_started")]}
      BY <2>1 DEF OwnInv, Proofs!AllOwn, Proofs!OwnAt
    <2> QED
      BY <2>2, SameCardinality DEF Proofs!CountIn, Proofs!OfKind
  <1> QED
    BY <1>1, <1>2, OwnStep, Typing, InnerTyping, LifeInvariant, StartsAreSends, PTL DEF Spec
=============================================================================
