SPECIFICATION FairSpec
CONSTANTS
    None = None
    Setups <- MCSetups
    Conversation <- MCConversation
    PolicyFiles <- MCPolicyFiles
    PageSize = 2
    MaxRestarts = 1
    MaxEdits = 1
INVARIANTS TypeOK OneEventPerVersion NothingSkipped OnlyAllowedStored StoredIsValid
PROPERTIES MessagesArrive
CHECK_DEADLOCK FALSE
