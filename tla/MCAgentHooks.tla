---------------------------- MODULE MCAgentHooks ------------------------------
(***************************************************************************)
(* A round of two tool calls, two conversations, rates of 0, 1/2 and 1.     *)
(***************************************************************************)
EXTENDS AgentHooks, TLC

CONSTANTS a1, a2, v1, v2

MCCall         == {a1, a2}
MCConversation == {v1, v2}
MCOne          == {v1}
Symmetry       == Permutations(MCCall) \cup Permutations(MCConversation)

Policy(rates, default, adaptive, keep) ==
  [rates |-> rates, default |-> default, adaptive |-> adaptive, keep |-> keep]

ToolRates(invoked, completed) ==
  [k \in {"tool.invoked", "tool.completed"} |->
     IF k = "tool.invoked" THEN invoked ELSE completed]

\* Half of the prompts and pairs, but all failures and prompt starts; rates outside
\* of [0, 1], which are clamped, and completions sampled below invocations; the
\* other way round.
MCPolicies == {
  Policy(<<>>, 1, TRUE, {"prompt.started"}),
  Policy(ToolRates(3, 1), -1, TRUE, {}),
  Policy(ToolRates(1, 2), 1, FALSE, {}) }
=============================================================================
