CONSTANTS
  Meals <- TwoMeals
  Found <- StubFound
  Stock <- StubStock
  Substitutes <- StubSubstitutes
  Replies <- PromptedReply
  Words <- AnyWords
  CustomerText = "something spicy"
  LlmMayFail = FALSE
SPECIFICATION Spec
INVARIANT AlwaysAResponse
CHECK_DEADLOCK FALSE
