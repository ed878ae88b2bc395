SPECIFICATION Spec
CONSTANTS
    Setups <- MCSetups
    AttrLists <- MCAttrLists
    GroupNames = {"g"}
    LogRecords <- MCLogRecords
    Contexts <- MCContexts
    Answers <- MCAnswers
    MaxHandlers = 2
INVARIANT
    SpecificWins
