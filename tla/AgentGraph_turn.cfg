CONSTANTS
  Meals <- TwoMeals
  Found <- AnyList
  Stock <- AnyStock
  Substitutes <- AnyList
  Replies <- AnyReply
  Words <- AnyWords
  CustomerText = "something spicy"
  LlmMayFail = TRUE
SPECIFICATION FairSpec
INVARIANTS TypeOK ApologyExactlyWhenStuck OffersFollowTheCheck SearchMatchesRequest
PROPERTY TurnEnds
CHECK_DEADLOCK FALSE
