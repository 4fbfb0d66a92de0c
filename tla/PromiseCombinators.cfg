SPECIFICATION FairCombinatorSpec
CONSTANTS
    Kinds = {"all", "race", "any", "allSettled"}
    MaxLength = 4
    Thenables = {}
INVARIANT
    AnswersDecide
PROPERTY
    CombinatorSettles
CHECK_DEADLOCK FALSE
