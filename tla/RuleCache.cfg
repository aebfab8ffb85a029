SPECIFICATION Spec
CONSTANTS
    Texts <- MCTexts
    LabelLen <- MCLabelLen
    Questions <- MCQuestions
    Upstreams = {"", "u1"}
    MaxRules = 3
    NoRow = NoRow
INVARIANTS
    MostSpecificWins
    IndInv
PROPERTIES
    UnrelatedRulesInert
