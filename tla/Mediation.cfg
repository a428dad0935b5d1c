SPECIFICATION Spec

CONSTANTS
    ToolCalls = {"call"}
    Messages = {"message"}
    Named = 2
    MaxContent = 3
    MaxHistory = 3
    Characters <- MCCharacters
    MaxCharacters = 4

CHECK_DEADLOCK FALSE

INVARIANTS
    ToolCallsAgree
    TextsAgree
    NothingIsLost
    ShownOnce
    PagesMakeTheFile
    TailIsLongestFit
    ChunksDecode
