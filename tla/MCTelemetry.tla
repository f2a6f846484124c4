----------------------------- MODULE MCTelemetry ------------------------------
(***************************************************************************)
(* Two producers and a choice of jobs: finished payloads with hosted calls  *)
(* that have ids or not, one of which also asks for a function,             *)
(* tool calls and prompts of an agent in two conversations, and events with *)
(* other fields.  Wall clocks that go on, and that are set back.            *)
(***************************************************************************)
EXTENDS Telemetry, TLC

CONSTANTS p1, p2, v1, v2, r1, r2, k1, k2

MCProducer == {p1, p2}
Symmetry   == Permutations(MCProducer)

Wide(c) == [char |-> c, width |-> 2]

\* The policy replaces a secret, "k" followed by "y", by a star.
MCRedact(text) ==
  FoldLeft(LAMBDA done, ch :
             IF done # <<>> /\ Last(done) = Char("k") /\ ch = Char("y")
               THEN Append(Front(done), Char("*")) ELSE Append(done, ch),
           <<>>, text)

Accent == <<Char("a"), Wide("e")>>
Secret == <<Char("a"), Char("k"), Char("y")>>

Item(type, id, fields) == [type |-> type, id |-> id, fields |-> fields]

Search(fields) == Item(<<"web_search", "_call">>, None, fields)

Searches ==
  [conversation |-> v1, response |-> None,
   payload |-> [id |-> r1, output |->
     << Search([action |-> Accent, results |-> Secret]),
        Item(<<"function", "_call">>, k1, [arguments |-> Secret]),
        Item(<<"message", "">>, None, <<>>) >>]]

SearchAgain(v) ==
  [conversation |-> v, response |-> r2,
   payload |-> [id |-> r1, output |->
     << Search([query |-> <<Char("a")>>]), Item(None, None, <<>>),
        Item(<<"", "_call">>, None, <<>>) >>]]

\* A provider's id that looks like the synthetic one of SearchAgain.
CodeRun ==
  [conversation |-> v1, response |-> None,
   payload |-> [id |-> r2, output |->
     << Item(<<"code", "_call">>, <<"web_search", 0>>, [code |-> <<Char("a")>>]) >>]]

Nothing == [conversation |-> v2, response |-> None, payload |-> [id |-> None, output |-> None]]

Agent(v, events) ==
  [conversation |-> v,
   events |-> [i \in DOMAIN events |->
     [kind |-> events[i][1], conversation |-> v, call |-> events[i][2], data |-> events[i][3]]]]

ToolCall ==
  Agent(v1, << <<"tool.invoked", k1, [tool_name |-> "add", whole |-> Secret]>>,
               <<"tool.completed", k1, [tool_name |-> "add", whole |-> Accent,
                                        duration_ms |-> 5]>> >>)
ToolStopped ==
  Agent(v2, << <<"tool.invoked", k2, [tool_name |-> "add", whole |-> <<>>]>>,
               <<"tool.skipped", k2, [tool_name |-> "add"]>> >>)
ToolFails ==
  Agent(v2, << <<"tool.invoked", k1, [tool_name |-> "sub", whole |-> Accent]>>,
               <<"tool.failed", k1, [tool_name |-> "sub", error_class |-> "unknown"]>> >>)
Prompts ==
  Agent(v1, << <<"prompt.completed", None,
                 [model |-> "m", tokens_in |-> 2, tokens_out |-> 1, cost_usd |-> 3,
                  duration_ms |-> 4, time_to_first_token_ms |-> 1]>>,
               <<"prompt.completed", None,
                 [model |-> "m", tokens_in |-> 1, cost_usd |-> 2, duration_ms |-> 7,
                  finish_reason |-> "stop"]>> >>)
PromptFails ==
  Agent(v2, << <<"eval.report", None, [dataset |-> "d", metric |-> "f1", value |-> 1]>>,
               <<"prompt.started", None, [model |-> "m"]>>,
               <<"prompt.failed", None, [model |-> "m", error_class |-> "provider"]>> >>)
PromptAgain ==
  Agent(v2, << <<"prompt.completed", None, [model |-> "m", duration_ms |-> 1]>> >>)
Others ==
  Agent(v1, << <<"compose.retry_attempt", None, [kernel_id |-> "a", target |-> "add"]>>,
               <<"response.turn_completed", None, [response_id |-> r1, duration_ms |-> 2]>>,
               <<"rerank.completed", None, [model |-> "m", duration_ms |-> 2]>> >>)

MCJobSets ==
  { {Searches, SearchAgain(v1)}, {Searches, ToolCall}, {Searches, ToolFails},
    {CodeRun, SearchAgain(v1)},
    {SearchAgain(v1), SearchAgain(v2), Nothing}, {SearchAgain(v2), PromptAgain},
    {ToolCall, ToolFails}, {ToolFails, ToolStopped}, {ToolCall, Others},
    {Prompts, PromptFails}, {Prompts, PromptAgain, SearchAgain(v1)}, {Prompts, Others},
    {ToolCall, ToolStopped} }

\* A clock that goes on, and one that is set back after three events.
MCWalls == { [n \in 0..9 |-> 2 * n], [n \in 0..9 |-> IF n < 3 THEN n + 5 ELSE n] }
=============================================================================
