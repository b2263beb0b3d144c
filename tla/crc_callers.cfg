CONSTANTS
    a = a
    b = b
    Caller = {a, b}
    Libraries <- MCLibraries
    Messages <- MCMessages
    UpdateBytes <- MCUpdateBytes
    MaxLength = 2
    Parts <- MCParts
SPECIFICATION Spec
INVARIANT TypeOK
INVARIANT LookUpsAreFilled
INVARIANT ErrorsShow
INVARIANT PublishedResults
PROPERTY SerialSpec
