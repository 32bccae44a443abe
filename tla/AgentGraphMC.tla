---------------------------- MODULE AgentGraphMC ----------------------------
(* What is asked of the assistant beyond AgentGraph's own properties.      *)
EXTENDS AgentGraph

\* All the signatures of tools.py allow: up to two meals, without repetition.
TwoMeals == {"tuna roll", "salmon roll"}
AnyList == {s \in UNION {[1..n -> TwoMeals] : n \in 0..2} :
              \A i, j \in DOMAIN s : s[i] = s[j] => i = j}
AnyStock == {"available", "unavailable"}

AnyWords == {"something spicy", "spicy", Empty}

\* Replies: no call, the search the prompt asks for, a search for nothing, and
\* the calls a model with all four tools may add before it.
Call(tool, words) == [tool |-> tool, query |-> words]
AnyReply == {<<>>, <<Call("search_meals", "spicy")>>, <<Call("search_meals", Empty)>>,
             <<Call("search_meals", Empty), Call("search_meals", "spicy")>>,
             <<Call("find_substitutes", Empty), Call("search_meals", "spicy")>>,
             <<Call("dispatch_order", Empty)>>}

\* "A hardcoded fallback guarantees the customer always receives a response --
\* even when both the LLM and the circuit breaker have failed" (DECISIONS.md,
\* D-37): a finished turn ends with words meant for the customer.
AlwaysAResponse ==
  at = Finished => LastWord \in {"present", "confirm", "apologise", "fallback"}

=============================================================================
