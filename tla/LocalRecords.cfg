SPECIFICATION Spec
CONSTANTS
    Texts <- MCTexts
    LabelLen <- MCLabelLen
    Questions <- MCQuestions
    Types = {"A", "CNAME"}
    OtherTypes = {"MX"}
    Values = {"ip1", "text"}
    IPv4 = {"ip1"}
    IPv6 = {}
    MaxRecords = 3
    NoRow = NoRow
INVARIANTS
    LookupFindsNearest
    
    IndInv
