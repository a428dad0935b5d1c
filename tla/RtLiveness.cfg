SPECIFICATION FairSpec
CONSTANTS
    Client = Client
    Agent = Agent
    NoCall = NoCall
    prompt = prompt
    permission = permission
    list = list
    update = update
    cancel = cancel
    Calls <- MCPair
    Owner <- MCPairOwner
    Parent <- MCPairParent
    Notes <- MCPairNotes
    NoteOwner <- MCPairNoteOwner
    NoteParent <- MCPairNoteParent
    WireCap = 1
    MayFail = {Client}
    MayDrop = {Agent}
    MayPanic = {Agent}
PROPERTIES CallsEnd ShutdownPropagates ShutdownWakesCallers
CHECK_DEADLOCK FALSE
