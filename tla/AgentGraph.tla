----------------------------- MODULE AgentGraph -----------------------------
(* One turn of the assistant, agents/graph.py: the seven nodes, the routing *)
(* functions of the conditional edges and the fixed edges.  A step is one  *)
(* node: it runs, its update is merged into the state, and the edge out of *)
(* it is taken on the merged state.  A tool call may return or raise at    *)
(* any time, and so may an LLM call, but one whose transcript holds a tool *)
(* call nobody answered always raises: both providers refuse it, and no    *)
(* node ever appends the answer.  tools.py declares the signatures of the  *)
(* tools final and their bodies stubs, so what they return is a parameter. *)
EXTENDS Naturals, Sequences

CONSTANTS
  Meals,      \* meals a tool may name
  Found,      \* the lists search_meals may return
  Stock,      \* what check_ingredients may answer
  Substitutes,\* the lists find_substitutes may return
  Replies,    \* the tool calls an LLM reply may carry
  Words,      \* the queries a call may carry, the empty one among them
  CustomerText, \* what the customer wrote
  LlmMayFail  \* TRUE when the provider may be down or slow

Empty == ""
Calls == [tool : {"search_meals", "check_ingredients", "find_substitutes", "dispatch_order"},
          query : Words]

ASSUME ToolsAssumption ==
  /\ Found \subseteq Seq(Meals)
  /\ Stock \subseteq {"available", "unavailable"}
  /\ Substitutes \subseteq Seq(Meals)
  /\ Replies \subseteq Seq(Calls)
  /\ CustomerText \in Words \ {Empty}
  /\ LlmMayFail \in BOOLEAN

\* What the stub bodies of tools.py return.
StubFound == {<<"tuna roll">>}
StubStock == {"available"}
StubSubstitutes == {<<>>}

\* The one reply UNDERSTAND_REQUEST_PROMPT asks for: a search.
PromptedReply == {<<[tool |-> "search_meals", query |-> "spicy"]>>}

VARIABLES
  at,            \* the node that runs next
  meals_found,   \* what search_meals returned
  availability,  \* what check_ingredients said of the first of them
  substitutes,   \* what find_substitutes returned
  error,         \* the node whose exception was recorded last
  messages,      \* who has spoken and the tools they call; the customer first
  query,         \* what search_meals was asked for (history)
  offered        \* the meals the LLM was given to present (history)

vars == <<at, meals_found, availability, substitutes, error, messages, query, offered>>

Nodes == {"understand", "search", "check", "substitutes", "present", "confirm", "apologise"}
Finished == "END"
NotSet == "NOT SET"

Messages == [by : Nodes \cup {"customer", "fallback"}, calls : Seq(Calls)]

Listed(s) == {s[i] : i \in DOMAIN s}

TypeOK ==
  /\ at \in Nodes \cup {Finished}
  /\ meals_found \in Seq(Meals)
  /\ availability \in {NotSet, "available", "unavailable"}
  /\ substitutes \in Seq(Meals)
  /\ error \in Nodes \cup {NotSet}
  /\ messages \in Seq(Messages)
  /\ query \in Words \cup {NotSet}
  /\ offered \subseteq Meals

Init ==
  /\ at = "understand"
  /\ meals_found = <<>>
  /\ availability = NotSet
  /\ substitutes = <<>>
  /\ error = NotSet
  /\ messages = <<[by |-> "customer", calls |-> <<>>]>>
  /\ query = NotSet
  /\ offered = {}

-----------------------------------------------------------------------------
(* Routing: deterministic functions of the state, the error first          *)

\* Mutant: the routing functions stopped looking at the error.
RouteIgnoringError(e, stuck, next) == IF stuck THEN "apologise" ELSE next

\* Where to go after a node: the apology on an error or when there is nothing
\* to go on with.
Route(e, stuck, next) == IF e # NotSet \/ stuck THEN "apologise" ELSE next

RouteAfterUnderstand(e) == Route(e, FALSE, "search")

RouteAfterSearch(e, found) == Route(e, found = <<>>, "check")

RouteAfterAvailability(e, a) ==
  Route(e, a = NotSet, IF a = "available" THEN "present" ELSE "substitutes")

\* Mutant: without substitutes the search starts over.
RouteBackToSearch(e, subs) ==
  IF e # NotSet THEN "apologise" ELSE IF subs = <<>> THEN "search" ELSE "present"

RouteAfterSubstitutes(e, subs) == Route(e, subs = <<>>, "present")

-----------------------------------------------------------------------------
(* Nodes                                                                   *)

LastMessage == messages[Len(messages)]

\* The node caught an exception: its update is the error alone.
Raised(node) ==
  /\ error' = node
  /\ UNCHANGED <<meals_found, availability, substitutes, messages, offered>>

\* A message is appended to the transcript.
Appended(who, calls) ==
  /\ messages' = Append(messages, [by |-> who, calls |-> calls])
  /\ UNCHANGED <<meals_found, availability, substitutes, error>>

\* The transcript holds a tool call: no node ever appends its answer.
Unanswered == \E i \in DOMAIN messages : messages[i].calls # <<>>

\* The LLM answered.  All four tools are bound to it in every node.
Spoke(node) ==
  /\ ~Unanswered
  /\ \E calls \in Replies : Appended(node, calls)

LlmRaises == LlmMayFail \/ Unanswered

UnderstandRequest ==
  /\ at = "understand"
  /\ \/ Spoke("understand") /\ UNCHANGED offered
     \/ LlmRaises /\ Raised("understand")
  /\ UNCHANGED query
  /\ at' = RouteAfterUnderstand(error')

\* The calls that ask for a search and say of what.
SearchCalls(calls) ==
  {i \in DOMAIN calls : calls[i].tool = "search_meals" /\ calls[i].query # Empty}

\* Mutant: the first call that asks for a search wins, even one with no words.
ExtractFirstCall(calls) ==
  IF calls # <<>> /\ calls[1].tool = "search_meals" THEN calls[1].query ELSE CustomerText

\* The words of the first of them, else what the customer wrote.
ExtractSearchQuery(calls) ==
  IF SearchCalls(calls) = {}
  THEN CustomerText
  ELSE calls[CHOOSE i \in SearchCalls(calls) : \A j \in SearchCalls(calls) : i <= j].query

\* Mutant: a result that is not a list of meals is stored as it came.
SearchMealsUnchecked ==
  /\ at = "search"
  /\ meals_found' \in Found \cup {<<NotSet>>}
  /\ UNCHANGED <<availability, substitutes, error, messages, offered>>
  /\ query' = ExtractSearchQuery(LastMessage.calls)
  /\ at' = RouteAfterSearch(error', meals_found')

SearchMeals ==
  /\ at = "search"
  /\ \/ /\ meals_found' \in Found
        /\ UNCHANGED <<availability, substitutes, error, messages, offered>>
     \/ Raised("search")
  /\ query' = ExtractSearchQuery(LastMessage.calls)
  /\ at' = RouteAfterSearch(error', meals_found')

\* Only the first meal found is checked.
CheckAvailability ==
  /\ at = "check"
  /\ \/ /\ meals_found # <<>>
        /\ availability' \in Stock
        /\ UNCHANGED <<meals_found, substitutes, error, messages, offered>>
     \/ Raised("check")
  /\ UNCHANGED query
  /\ at' = RouteAfterAvailability(error', availability')

FindSubstitutes ==
  /\ at = "substitutes"
  /\ \/ /\ meals_found # <<>>
        /\ substitutes' \in Substitutes
        /\ UNCHANGED <<meals_found, availability, error, messages, offered>>
     \/ Raised("substitutes")
  /\ UNCHANGED query
  /\ at' = RouteAfterSubstitutes(error', substitutes')

\* Mutant: the meals of the search are offered even when the first is out.
PresentSearchResults ==
  /\ at = "present"
  /\ \/ Spoke("present") /\ offered' = Listed(meals_found)
     \/ LlmRaises /\ Raised("present")
  /\ UNCHANGED query
  /\ at' = "confirm"

\* The substitutes when there are any, else what was found; a fixed edge follows.
PresentOptions ==
  /\ at = "present"
  /\ \/ /\ Spoke("present")
        /\ offered' = Listed(IF substitutes # <<>> THEN substitutes ELSE meals_found)
     \/ LlmRaises /\ Raised("present")
  /\ UNCHANGED query
  /\ at' = "confirm"

\* The LLM judges the customer's last message.  No order is dispatched yet:
\* order_id stays None.
ConfirmAndDispatch ==
  /\ at = "confirm"
  /\ \/ Spoke("confirm") /\ UNCHANGED offered
     \/ LlmRaises /\ Raised("confirm")
  /\ UNCHANGED query
  /\ at' = Finished

\* The LLM's apology, or the canned one when that call raises as well.
Apologise ==
  /\ at = "apologise"
  /\ \/ Spoke("apologise")
     \/ LlmRaises /\ Appended("fallback", <<>>)
  /\ UNCHANGED <<query, offered>>
  /\ at' = Finished

Next ==
  \/ UnderstandRequest \/ SearchMeals \/ CheckAvailability \/ FindSubstitutes
  \/ PresentOptions \/ ConfirmAndDispatch \/ Apologise

Spec == Init /\ [][Next]_vars

\* A turn that has begun is carried through: the calls it waits for return or raise.
FairSpec == Spec /\ WF_vars(Next)

-----------------------------------------------------------------------------

LastWord == LastMessage.by

\* A turn ends with an apology exactly when it failed before there was anything
\* to offer: an exception up to find_substitutes, no meal found, or none in
\* stock and nothing to replace it.
ApologyExactlyWhenStuck ==
  at = Finished =>
    (LastWord \in {"apologise", "fallback"} <=>
       \/ error \in {"understand", "search", "check", "substitutes"}
       \/ meals_found = <<>>
       \/ availability = "unavailable" /\ substitutes = <<>>)

\* Nothing is offered before the check of the first meal found has given its
\* answer: in stock, and the meals found are offered, the later ones unchecked;
\* out of stock, and what find_substitutes named is, never the search results.
OffersFollowTheCheck ==
  offered # {} =>
    \/ availability = "available" /\ offered = Listed(meals_found)
    \/ availability = "unavailable" /\ offered = Listed(substitutes)

\* What the replies to the customer's request ask a search for.
Requested ==
  UNION {{m.calls[i].query : i \in SearchCalls(m.calls)} :
           m \in {x \in Listed(messages) : x.by = "understand"}}

\* search_meals is never asked for nothing, nor for words nobody used: it gets
\* what a call for a search in the reply to the customer says when one says
\* something, whatever calls surround it, and else what the customer wrote.
SearchMatchesRequest ==
  query # NotSet =>
    /\ query # Empty
    /\ IF Requested = {} THEN query = CustomerText ELSE query \in Requested

\* Every turn comes to an end.
TurnEnds == <>(at = Finished)

=============================================================================
