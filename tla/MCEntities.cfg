SPECIFICATION MCSpec
CONSTANTS
    N = 3
    Types <- MCTypes
    Ids <- MCIds
    Known <- MCKnown
    MaxVersion = 2
    MaxStore = 3
    Requests <- MCRequests
INVARIANTS
    AnswersInPlace
    AnsweredAsDeclared
