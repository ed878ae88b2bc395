SPECIFICATION Spec
CONSTANTS
    Setups <- MCSetups
    AttrLists <- MCAttrLists
    GroupNames = {"g"}
    LogRecords <- MCLogRecords
    Contexts <- MCContexts
    Answers <- MCAnswers
    MaxHandlers = 4
INVARIANTS
    HandlersApart
    SameAsDocument
    GroupsAsPlaced
