-------------------------- MODULE AgentGraphProofs --------------------------
(* For whatever the tools may return: a turn of the assistant apologises   *)
(* exactly when it is stuck, and offers only what the stock check allows.  *)
EXTENDS AgentGraph, WellFoundedInduction, TLAPS

Apologies == {"apologise", "fallback"}

\* Nothing to offer, as ApologyExactlyWhenStuck has it.
Stuck == \/ error \in {"understand", "search", "check", "substitutes"}
         \/ meals_found = <<>>
         \/ availability = "unavailable" /\ substitutes = <<>>

\* There is something to offer.
Offerable == /\ meals_found # <<>>
             /\ \/ availability = "available" /\ substitutes = <<>>
                \/ availability = "unavailable" /\ substitutes # <<>>

\* What is known when each node is about to run.
Path ==
  /\ at \in {"understand", "search"} =>
       /\ error = NotSet /\ offered = {}
       /\ meals_found = <<>> /\ availability = NotSet /\ substitutes = <<>>
  /\ at = "check" =>
       /\ error = NotSet /\ offered = {}
       /\ meals_found # <<>> /\ availability = NotSet /\ substitutes = <<>>
  /\ at = "substitutes" =>
       /\ error = NotSet /\ offered = {}
       /\ meals_found # <<>> /\ availability = "unavailable" /\ substitutes = <<>>
  /\ at = "present" => error = NotSet /\ offered = {} /\ Offerable
  /\ at = "confirm" => error \in {NotSet, "present"} /\ Offerable
  /\ at = "apologise" => Stuck /\ offered = {}
  /\ at # Finished => LastWord \notin Apologies

IInv == Path /\ ApologyExactlyWhenStuck /\ OffersFollowTheCheck

MessagesOK == messages \in Seq(Messages) /\ messages # <<>>

LEMMA NoCalls == <<>> \in Seq(Calls)
OBVIOUS

LEMMA AppendedLast ==
  ASSUME MessagesOK, NEW n \in Nodes \cup {"fallback"}, NEW calls \in Seq(Calls),
         Appended(n, calls)
  PROVE  MessagesOK' /\ LastWord' = n
<1>1. [by |-> n, calls |-> calls] \in Messages
  BY DEF Messages
<1>2. QED
  BY <1>1 DEF Appended, LastWord, LastMessage, MessagesOK

LEMMA SpokeLast ==
  ASSUME MessagesOK, NEW n \in Nodes \cup {"fallback"}, Spoke(n)
  PROVE  /\ MessagesOK' /\ LastWord' = n
         /\ UNCHANGED <<meals_found, availability, substitutes, error>>
<1>1. PICK calls \in Replies : Appended(n, calls)
  BY DEF Spoke
<1>2. calls \in Seq(Calls)
  BY ToolsAssumption
<1>3. QED
  BY <1>1, <1>2, AppendedLast DEF Appended

\* A set of positions has a first one.
LEMMA FirstPosition ==
  ASSUME NEW S \in SUBSET Nat, S # {}
  PROVE  LET first == CHOOSE i \in S : \A j \in S : i <= j
         IN  first \in S
<1>1. IsWellFoundedOn(OpToRel(<, Nat), Nat)
  BY NatLessThanWellFounded
<1>2. PICK x \in S : \A y \in S : ~ (<<y, x>> \in OpToRel(<, Nat))
  BY <1>1, WFMin
<1>3. ASSUME NEW y \in S
      PROVE  x <= y
  <2>1. y \in Nat /\ x \in Nat
    BY <1>2
  <2>2. ASSUME y < x
        PROVE  <<y, x>> \in OpToRel(<, Nat)
    <3>1. <<y, x>> \in Nat \X Nat
      BY <2>1
    <3>2. <<y, x>>[1] < <<y, x>>[2]
      BY <2>2
    <3>3. QED
      BY <3>1, <3>2, Zenon DEF OpToRel
  <2>3. ~(y < x)
    BY <1>2, <2>2
  <2>4. QED
    BY <2>1, <2>3
<1>4. QED
  BY <1>3

\* What is searched for: the words of a call for a search, or the customer's.
LEMMA QueryOfCalls ==
  ASSUME NEW calls \in Seq(Calls)
  PROVE  /\ ExtractSearchQuery(calls) \in Words \ {Empty}
         /\ SearchCalls(calls) = {} => ExtractSearchQuery(calls) = CustomerText
         /\ SearchCalls(calls) # {} =>
              ExtractSearchQuery(calls) \in {calls[i].query : i \in SearchCalls(calls)}
<1>1. SearchCalls(calls) \in SUBSET Nat
  BY DEF SearchCalls
<1>2. CASE SearchCalls(calls) = {}
  BY <1>2, ToolsAssumption DEF ExtractSearchQuery
<1>3. CASE SearchCalls(calls) # {}
  <2> DEFINE first == CHOOSE i \in SearchCalls(calls) : \A j \in SearchCalls(calls) : i <= j
  <2>1. first \in SearchCalls(calls)
    BY <1>1, <1>3, FirstPosition
  <2>2. ExtractSearchQuery(calls) = calls[first].query
    BY <1>3 DEF ExtractSearchQuery
  <2>3. calls[first] \in Calls /\ calls[first].query # Empty
    BY <2>1 DEF SearchCalls
  <2>4. QED
    BY <1>3, <2>1, <2>2, <2>3 DEF Calls
<1>4. QED
  BY <1>2, <1>3

LEMMA InitType == Init => TypeOK /\ MessagesOK
<1>1. [by |-> "customer", calls |-> <<>>] \in Messages
  BY DEF Messages
<1>2. <<[by |-> "customer", calls |-> <<>>]>> \in Seq(Messages)
  BY <1>1
<1>3. Init => TypeOK
  <2>1. Init => messages \in Seq(Messages)
    BY <1>2 DEF Init
  <2>2. <<>> \in Seq(Meals)
    OBVIOUS
  <2>3. QED
    BY <2>1, <2>2 DEF Init, TypeOK, Nodes, Finished
<1>4. Init => MessagesOK
  BY <1>2 DEF Init, MessagesOK
<1>5. QED
  BY <1>3, <1>4

LEMMA StepType ==
  ASSUME TypeOK, MessagesOK, Next
  PROVE  TypeOK' /\ MessagesOK'
<1> USE ToolsAssumption DEF TypeOK
<1>1. ASSUME NEW n \in Nodes, Raised(n)
      PROVE  /\ UNCHANGED <<meals_found, availability, substitutes, messages, offered>>
             /\ error' \in Nodes \cup {NotSet} /\ MessagesOK'
  BY <1>1 DEF Raised, MessagesOK
<1>2. ASSUME NEW n \in Nodes, Spoke(n)
      PROVE  /\ UNCHANGED <<meals_found, availability, substitutes, error>>
             /\ messages' \in Seq(Messages) /\ MessagesOK'
  BY <1>2, SpokeLast DEF MessagesOK
<1>3. CASE UnderstandRequest
  BY <1>1, <1>2, <1>3 DEF UnderstandRequest, RouteAfterUnderstand, Route, Nodes
<1>4. CASE SearchMeals
  <2>1. query' \in Words
    <3>1. LastMessage \in Messages
      BY DEF LastMessage, MessagesOK
    <3>2. QED
      BY <1>4, <3>1, QueryOfCalls DEF SearchMeals, Messages
  <2>2. QED
    BY <1>1, <1>4, <2>1 DEF SearchMeals, RouteAfterSearch, Route, Nodes, MessagesOK
<1>5. CASE CheckAvailability
  BY <1>1, <1>5 DEF CheckAvailability, RouteAfterAvailability, Route, Nodes, MessagesOK
<1>6. CASE FindSubstitutes
  BY <1>1, <1>6 DEF FindSubstitutes, RouteAfterSubstitutes, Route, Nodes, MessagesOK
<1>7. CASE PresentOptions
  <2>1. Listed(IF substitutes # <<>> THEN substitutes ELSE meals_found) \subseteq Meals
    BY DEF Listed
  <2>2. QED
    BY <1>1, <1>2, <1>7, <2>1 DEF PresentOptions, Nodes
<1>8. CASE ConfirmAndDispatch
  BY <1>1, <1>2, <1>8 DEF ConfirmAndDispatch, Nodes
<1>9. CASE Apologise
  <2>1. ASSUME Appended("fallback", <<>>)
        PROVE  /\ UNCHANGED <<meals_found, availability, substitutes, error>>
               /\ messages' \in Seq(Messages) /\ MessagesOK'
    BY <2>1, NoCalls, AppendedLast DEF Appended, MessagesOK
  <2>2. QED
    BY <1>2, <1>9, <2>1 DEF Apologise, Nodes
<1>10. QED
  BY <1>3, <1>4, <1>5, <1>6, <1>7, <1>8, <1>9 DEF Next

\* Every field of the graph's state keeps its declared type.
THEOREM TypeCorrect == Spec => []TypeOK
<1>1. TypeOK /\ MessagesOK /\ [Next]_vars => TypeOK' /\ MessagesOK'
  <2>1. TypeOK /\ MessagesOK /\ UNCHANGED vars => TypeOK' /\ MessagesOK'
    BY DEF TypeOK, MessagesOK, vars
  <2>2. QED
    BY <2>1, StepType
<1>2. QED
  BY <1>1, InitType, PTL DEF Spec

LEMMA StepInv ==
  ASSUME MessagesOK, IInv, Next
  PROVE  IInv'
<1> USE DEF IInv, Path, Stuck, Offerable, ApologyExactlyWhenStuck, OffersFollowTheCheck,
            Finished, NotSet, Apologies
<1>1. \A n \in Nodes : Spoke(n) =>
         LastWord' = n /\ UNCHANGED <<meals_found, availability, substitutes, error>>
  BY SpokeLast
<1>2. \A n : Raised(n) =>
         /\ error' = n /\ LastWord' = LastWord
         /\ UNCHANGED <<meals_found, availability, substitutes, offered>>
  BY DEF Raised, LastWord, LastMessage
<1>3. CASE UnderstandRequest
  <2>1. Spoke("understand") =>
          /\ LastWord' = "understand"
          /\ UNCHANGED <<meals_found, availability, substitutes, error>>
    BY <1>1 DEF Nodes
  <2>2. /\ UNCHANGED <<meals_found, availability, substitutes, offered>>
        /\ LastWord' = LastWord \/ LastWord' = "understand"
        /\ \/ error' = NotSet /\ at' = "search"
           \/ error' = "understand" /\ at' = "apologise"
    BY <1>2, <1>3, <2>1 DEF UnderstandRequest, RouteAfterUnderstand, Route
  <2>3. at = "understand"
    BY <1>3 DEF UnderstandRequest
  <2>4. QED
    BY <2>2, <2>3
<1>4. CASE SearchMeals
  BY <1>2, <1>4 DEF SearchMeals, RouteAfterSearch, Route, LastWord, LastMessage
<1>5. CASE CheckAvailability
  BY <1>2, <1>5, ToolsAssumption DEF CheckAvailability, RouteAfterAvailability, Route, LastWord, LastMessage
<1>6. CASE FindSubstitutes
  BY <1>2, <1>6 DEF FindSubstitutes, RouteAfterSubstitutes, Route, LastWord, LastMessage
<1>7. CASE PresentOptions
  <2>1. Spoke("present") =>
          /\ LastWord' = "present"
          /\ UNCHANGED <<meals_found, availability, substitutes, error>>
    BY <1>1 DEF Nodes
  <2>2. /\ UNCHANGED <<meals_found, availability, substitutes>>
        /\ LastWord' \notin Apologies
        /\ error' \in {NotSet, "present"} /\ at' = "confirm"
        /\ \/ UNCHANGED offered
           \/ offered' = Listed(IF substitutes # <<>> THEN substitutes ELSE meals_found)
    BY <1>2, <1>7, <2>1 DEF PresentOptions
  <2>3. at = "present"
    BY <1>7 DEF PresentOptions
  <2>4. QED
    BY <2>2, <2>3
<1>8. CASE ConfirmAndDispatch
  <2>1. Spoke("confirm") =>
          /\ LastWord' = "confirm"
          /\ UNCHANGED <<meals_found, availability, substitutes, error>>
    BY <1>1 DEF Nodes
  <2>2. /\ UNCHANGED <<meals_found, availability, substitutes, offered>>
        /\ LastWord' \notin Apologies
        /\ error' \in {NotSet, "present", "confirm"} /\ at' = Finished
    BY <1>2, <1>8, <2>1 DEF ConfirmAndDispatch
  <2>3. at = "confirm"
    BY <1>8 DEF ConfirmAndDispatch
  <2>4. QED
    BY <2>2, <2>3
<1>9. CASE Apologise
  <2>1. ASSUME Appended("fallback", <<>>)
        PROVE  /\ LastWord' = "fallback"
               /\ UNCHANGED <<meals_found, availability, substitutes, error>>
    BY <2>1, NoCalls, AppendedLast DEF Appended
  <2>2. Spoke("apologise") =>
          /\ LastWord' = "apologise"
          /\ UNCHANGED <<meals_found, availability, substitutes, error>>
    BY <1>1 DEF Nodes
  <2>3. QED
    BY <1>9, <2>1, <2>2 DEF Apologise
<1>10. QED
  BY <1>3, <1>4, <1>5, <1>6, <1>7, <1>8, <1>9 DEF Next

LEMMA Invariance == Spec => []IInv
<1>1. Init => IInv
  BY DEF Init, IInv, Path, ApologyExactlyWhenStuck, OffersFollowTheCheck, LastWord,
         LastMessage, Apologies, Finished
<1>2. MessagesOK /\ IInv /\ [Next]_vars => IInv'
  <2>1. IInv /\ UNCHANGED vars => IInv'
    BY DEF IInv, Path, Stuck, Offerable, ApologyExactlyWhenStuck, OffersFollowTheCheck,
           LastWord, LastMessage, vars
  <2>2. QED
    BY <2>1, StepInv
<1>3. TypeOK /\ MessagesOK /\ [Next]_vars => TypeOK' /\ MessagesOK'
  <2>1. TypeOK /\ MessagesOK /\ UNCHANGED vars => TypeOK' /\ MessagesOK'
    BY DEF TypeOK, MessagesOK, vars
  <2>2. QED
    BY <2>1, StepType
<1>4. QED
  BY <1>1, <1>2, <1>3, InitType, PTL DEF Spec

\* The routing functions and the fixed edges together send a turn to the apology
\* exactly when it got stuck before it had anything to offer.
THEOREM ApologyIffStuck == Spec => []ApologyExactlyWhenStuck
<1>1. IInv => ApologyExactlyWhenStuck
  BY DEF IInv
<1>2. QED
  BY <1>1, Invariance, PTL

\* present_options_node never offers a first choice that is out of stock unless
\* find_substitutes names it.
THEOREM CheckedOffers == Spec => []OffersFollowTheCheck
<1>1. IInv => OffersFollowTheCheck
  BY DEF IInv
<1>2. QED
  BY <1>1, Invariance, PTL

-----------------------------------------------------------------------------
(* What search_meals is asked for                                          *)

\* What the calls of one reply ask a search for.
Asks(calls) == {calls[i].query : i \in SearchCalls(calls)}

\* Until the search has run it can only be asked what the last message says.
QInv ==
  /\ at = "understand" => query = NotSet /\ Requested = {}
  /\ at = "search" => query = NotSet /\ Requested = Asks(LastMessage.calls)
  /\ SearchMatchesRequest

LEMMA AppendedRequest ==
  ASSUME MessagesOK, NEW n \in Nodes \cup {"fallback"}, NEW calls \in Seq(Calls),
         Appended(n, calls)
  PROVE  /\ Requested' = IF n = "understand" THEN Requested \cup Asks(calls) ELSE Requested
         /\ LastMessage'.calls = calls
<1> DEFINE m == [by |-> n, calls |-> calls]
           spoken(ms) == {x \in ms : x.by = "understand"}
<1>1. m \in Messages
  BY DEF Messages
<1>2. messages' = Append(messages, m) /\ LastMessage' = m
  BY <1>1 DEF Appended, LastMessage, MessagesOK
<1>3. Listed(messages') = Listed(messages) \cup {m}
  BY <1>1, <1>2 DEF Listed, MessagesOK
<1>4. m.by = n /\ m.calls = calls
  OBVIOUS
<1>5. spoken(Listed(messages')) =
        IF n = "understand" THEN spoken(Listed(messages)) \cup {m} ELSE spoken(Listed(messages))
  BY <1>3, <1>4
<1>6. Requested' = UNION {Asks(x.calls) : x \in spoken(Listed(messages'))}
  BY DEF Requested, Asks
<1>7. Requested = UNION {Asks(x.calls) : x \in spoken(Listed(messages))}
  BY DEF Requested, Asks
<1>8. QED
  <2> HIDE DEF m, spoken
  <2>1. UNION {Asks(x.calls) : x \in spoken(Listed(messages)) \cup {m}} =
          (UNION {Asks(x.calls) : x \in spoken(Listed(messages))}) \cup Asks(m.calls)
    OBVIOUS
  <2>2. QED
    BY <1>2, <1>4, <1>5, <1>6, <1>7, <2>1

LEMMA SpokeRequest ==
  ASSUME MessagesOK, NEW n \in Nodes, n # "understand", Spoke(n)
  PROVE  Requested' = Requested
<1>1. PICK calls \in Replies : Appended(n, calls)
  BY DEF Spoke
<1>2. calls \in Seq(Calls)
  BY ToolsAssumption
<1>3. QED
  BY <1>1, <1>2, AppendedRequest

LEMMA StepQuery ==
  ASSUME MessagesOK, QInv, Next
  PROVE  QInv'
<1>1. UNCHANGED messages => Requested' = Requested /\ LastMessage' = LastMessage
  BY DEF Requested, Listed, LastMessage
<1>2. \A n : Raised(n) => UNCHANGED messages /\ error' = n
  BY DEF Raised
<1>3. ASSUME at' \notin {"understand", "search"}, UNCHANGED query, Requested' = Requested
      PROVE  QInv'
  BY <1>3 DEF QInv, SearchMatchesRequest
<1>4. CASE UnderstandRequest
  <2>1. CASE Raised("understand")
    <3>1. at' = "apologise"
      BY <1>4, <2>1 DEF Raised, UnderstandRequest, RouteAfterUnderstand, Route, NotSet
    <3>2. QED
      BY <1>1, <1>2, <1>3, <1>4, <2>1, <3>1 DEF UnderstandRequest
  <2>2. CASE Spoke("understand")
    <3>1. PICK calls \in Replies : Appended("understand", calls)
      BY <2>2 DEF Spoke
    <3>2. calls \in Seq(Calls)
      BY ToolsAssumption
    <3>3. Requested' = Requested \cup Asks(calls) /\ LastMessage'.calls = calls
      BY <3>1, <3>2, AppendedRequest DEF Nodes
    <3>4. at' \in {"apologise", "search"}
      BY <1>4 DEF UnderstandRequest, RouteAfterUnderstand, Route
    <3>5. query' = NotSet /\ Requested = {}
      BY <1>4 DEF UnderstandRequest, QInv
    <3>6. QED
      BY <3>3, <3>4, <3>5 DEF QInv, SearchMatchesRequest
  <2>3. QED
    BY <1>4, <2>1, <2>2 DEF UnderstandRequest
<1>5. CASE SearchMeals
  <2>1. LastMessage \in Messages
    BY DEF LastMessage, MessagesOK
  <2>2. LastMessage.calls \in Seq(Calls)
    BY <2>1 DEF Messages
  <2>3. UNCHANGED messages /\ query' = ExtractSearchQuery(LastMessage.calls)
    BY <1>2, <1>5 DEF SearchMeals
  <2>4. at' \in {"apologise", "check"}
    BY <1>5 DEF SearchMeals, RouteAfterSearch, Route
  <2>5. Requested' = Asks(LastMessage.calls)
    BY <1>1, <1>5, <2>3 DEF SearchMeals, QInv
  <2>6. Asks(LastMessage.calls) = {} <=> SearchCalls(LastMessage.calls) = {}
    BY DEF Asks
  <2>7. query' # Empty /\ IF Requested' = {} THEN query' = CustomerText
                                           ELSE query' \in Requested'
    BY <2>2, <2>3, <2>5, <2>6, QueryOfCalls DEF Asks
  <2>8. QED
    BY <2>4, <2>7 DEF QInv, SearchMatchesRequest
<1>6. CASE CheckAvailability
  <2>1. at' \in {"apologise", "present", "substitutes"}
    BY <1>6 DEF CheckAvailability, RouteAfterAvailability, Route
  <2>2. QED
    BY <1>1, <1>2, <1>3, <1>6, <2>1 DEF CheckAvailability
<1>7. CASE FindSubstitutes
  <2>1. at' \in {"apologise", "present"}
    BY <1>7 DEF FindSubstitutes, RouteAfterSubstitutes, Route
  <2>2. QED
    BY <1>1, <1>2, <1>3, <1>7, <2>1 DEF FindSubstitutes
<1>8. CASE PresentOptions
  <2>1. Spoke("present") => Requested' = Requested
    BY SpokeRequest DEF Nodes
  <2>2. QED
    BY <1>1, <1>2, <1>3, <1>8, <2>1 DEF PresentOptions
<1>9. CASE ConfirmAndDispatch
  <2>1. Spoke("confirm") => Requested' = Requested
    BY SpokeRequest DEF Nodes
  <2>2. QED
    BY <1>1, <1>2, <1>3, <1>9, <2>1 DEF ConfirmAndDispatch, Finished
<1>10. CASE Apologise
  <2>1. Spoke("apologise") => Requested' = Requested
    BY SpokeRequest DEF Nodes
  <2>2. ASSUME Appended("fallback", <<>>)
        PROVE  Requested' = Requested
    <3>1. "fallback" \in Nodes \cup {"fallback"} /\ "fallback" # "understand"
      OBVIOUS
    <3>2. Requested' = IF "fallback" = "understand"
                       THEN Requested \cup Asks(<<>>) ELSE Requested
      BY <2>2, <3>1, NoCalls, AppendedRequest
    <3>3. QED
      BY <3>1, <3>2
  <2>3. QED
    BY <1>3, <1>10, <2>1, <2>2 DEF Apologise, Finished
<1>11. QED
  BY <1>4, <1>5, <1>6, <1>7, <1>8, <1>9, <1>10 DEF Next

\* Whatever tool calls the LLM writes, _extract_search_query hands search_meals
\* the words of a call for a search when one has words, else the customer's.
THEOREM SearchIsAsked == Spec => []SearchMatchesRequest
<1>1. Init => QInv
  <2>1. Init => Requested = {}
    BY DEF Init, Requested, Listed
  <2>2. QED
    BY <2>1 DEF Init, QInv, SearchMatchesRequest
<1>2. MessagesOK /\ QInv /\ [Next]_vars => QInv'
  <2>1. QInv /\ UNCHANGED vars => QInv'
    BY DEF QInv, SearchMatchesRequest, Requested, Listed, LastMessage, vars
  <2>2. QED
    BY <2>1, StepQuery
<1>3. TypeOK /\ MessagesOK /\ [Next]_vars => TypeOK' /\ MessagesOK'
  <2>1. TypeOK /\ MessagesOK /\ UNCHANGED vars => TypeOK' /\ MessagesOK'
    BY DEF TypeOK, MessagesOK, vars
  <2>2. QED
    BY <2>1, StepType
<1>4. QInv => SearchMatchesRequest
  BY DEF QInv
<1>5. QED
  BY <1>1, <1>2, <1>3, <1>4, InitType, PTL DEF Spec

=============================================================================
