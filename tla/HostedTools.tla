------------------------------ MODULE HostedTools ------------------------------
(***************************************************************************)
(* Hosted tool calls in a finished Responses payload                       *)
(* (responses_extract.rs), and what becomes of the text of an argument or  *)
(* a result on its way into an event: the host's RedactionPolicy           *)
(* (redaction.rs), then truncation.  TelemetryHook, DispatchObserveHook    *)
(* and the session observer treat their payloads alike.                    *)
(*                                                                         *)
(* A payload is a record with the provider's id of the response and the    *)
(* output items, each None if missing.  An item has a type, a pair of the  *)
(* stem and the suffix that strip_suffix tells apart, or None; an id or    *)
(* None; and fields: a function from the keys it has to texts.             *)
(***************************************************************************)
EXTENDS EventSchema, SequencesExt

CONSTANTS
  PayloadTruncateBytes,  \* bytes of an inline payload
  Redact(_)              \* the RedactionPolicy, on texts

ASSUME TruncateAssumption == PayloadTruncateBytes \in Nat

\* Mutant of Scrubbed: the text is cut before it is redacted.
ScrubbedAfterwards(text) ==
  LET cut == Truncate(text, PayloadTruncateBytes)
  IN  [text |-> Redact(cut.text), truncated |-> cut.truncated]

\* What an event carries of a text.
Scrubbed(text) == Truncate(Redact(text), PayloadTruncateBytes)

InputKeys  == <<"action", "queries", "query", "code", "input", "arguments",
                "container_id", "parameters">>
OutputKeys == <<"output", "results", "result", "output_text">>

Char(c) == [char |-> c, width |-> 1]

\* compact_json_subset: an object of the fields picked, in a fixed order
\* (which one makes no difference here), or nothing.
CompactJsonSubset(item, keys) ==
  LET picked == SelectSeq(keys, LAMBDA key : key \in DOMAIN item.fields)
      texts  == [i \in DOMAIN picked |-> item.fields[picked[i]]]
  IN  IF picked = <<>> THEN <<>> ELSE <<Char("{")>> \o FlattenSeq(texts) \o <<Char("}")>>

\* Mutant of IsHosted: the agent's own function calls are taken for hosted ones.
IsHostedAny(item) == item.type # None /\ item.type[2] = "_call" /\ item.type[1] # ""

\* The items of a tool hosted by the provider; functions are the agent's own tools.
IsHosted(item) ==
  /\ item.type # None
  /\ item.type # <<"function", "_call">>
  /\ item.type[2] = "_call"
  /\ item.type[1] # ""

\* call_id: the provider's, or a synthetic one of the tool and the place in the output.
\* Nothing keeps a provider's id from being <<tool, place>> as well.
HostedCallId(item, index) ==
  IF item.id # None THEN item.id ELSE <<item.type[1], index - 1>>

\* extract_hosted_tools and parse_hosted_item
HostedCalls(payload) ==
  LET items == IF payload.output = None THEN <<>> ELSE payload.output
      Call(index) ==
        [tool_name   |-> items[index].type[1],
         call_id     |-> HostedCallId(items[index], index),
         args_json   |-> CompactJsonSubset(items[index], InputKeys),
         result_json |-> CompactJsonSubset(items[index], OutputKeys)]
      calls[n \in 0..Len(items)] ==
        IF n = 0 THEN <<>>
        ELSE IF IsHosted(items[n]) THEN Append(calls[n - 1], Call(n))
        ELSE calls[n - 1]
  IN  calls[Len(items)]

\* emit_hosted_tools_redacted: the events of a payload.  The caller's response id
\* comes before the payload's own.  whole is a history field: the text in full.
HostedEvents(conversation, response, payload) ==
  LET calls == HostedCalls(payload)
      rid   == IF response # None THEN response ELSE payload.id
      Event(kind, call, text) ==
        [kind |-> kind, conversation |-> conversation, call |-> call.call_id,
         data |-> Extend([tool_name |-> call.tool_name, payload |-> Scrubbed(text),
                          whole |-> text],
                         IF rid = None THEN <<>> ELSE [response_id |-> rid])]
  IN  [n \in 1..(2 * Len(calls)) |->
         LET call == calls[(n + 1) \div 2] IN
         IF n % 2 = 1 THEN Event("tool.hosted_invoked", call, call.args_json)
                      ELSE Event("tool.hosted_completed", call, call.result_json)]
=============================================================================
