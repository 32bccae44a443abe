CONSTANTS
  Meals = {m1, m2}
  Staff = {s1, s2}
  Listers = {l1}
  NoMenu = NoMenu
  Ingredient = Ingredient
  MaxDeliveries = 2
  Limit <- OneOfEach
SPECIFICATION FairSpec
INVARIANTS TypeOK StaleMenuExplained StockExplained
PROPERTY MenuSettles
