---------------------------- MODULE SessionEnvelope ----------------------------
(***************************************************************************)
(* What a Responses session observer promises a consumer of the event      *)
(* stream, whatever its caller does: one session start, turns that open    *)
(* and complete strictly in alternation, and at most one session end,      *)
(* never inside a turn.  A call may emit several events, so one step here  *)
(* may complete a turn and open the next one.                              *)
(*                                                                         *)
(* A turn opened after the session ended is allowed: observe_send does not *)
(* look at session_ended.                                                  *)
(***************************************************************************)
EXTENDS Integers

VARIABLES
  phase,      \* "fresh": no session yet; "idle": between turns; "turn"
  ended,      \* the session end has been announced
  started,    \* number of turns announced
  completed   \* number of turns reported complete

vars == <<phase, ended, started, completed>>

Init ==
  /\ phase = "fresh"
  /\ ended = FALSE
  /\ started = 0
  /\ completed = 0

\* Completions a call owes for the turn still open.
Owed == IF phase = "turn" THEN 1 ELSE 0

OpenTurn ==
  /\ phase' = "turn"
  /\ started' = started + 1
  /\ completed' = completed + Owed
  /\ UNCHANGED ended

CompleteTurn ==
  /\ phase = "turn"
  /\ phase' = "idle"
  /\ completed' = completed + 1
  /\ UNCHANGED <<ended, started>>

EndSession ==
  /\ phase # "fresh"
  /\ ~ended
  /\ ended' = TRUE
  /\ phase' = "idle"
  /\ completed' = completed + Owed
  /\ UNCHANGED started

Next == OpenTurn \/ CompleteTurn \/ EndSession

Spec == Init /\ [][Next]_vars
=============================================================================
