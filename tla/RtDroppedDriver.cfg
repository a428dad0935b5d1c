SPECIFICATION ResponsiveSpec
CONSTANTS
    Client = Client
    Agent = Agent
    NoCall = NoCall
    prompt = prompt
    permission = permission
    list = list
    update = update
    cancel = cancel
    Calls <- MCPair
    Owner <- MCPairOwner
    Parent <- MCPairParent
    Notes <- MCNotes
    NoteOwner <- MCNoteOwner
    NoteParent <- MCNoteParent
    WireCap = 1
    MayFail = {}
    MayDrop = {Client}
    MayPanic = {}
PROPERTIES TransportLossFailsCalls
CHECK_DEADLOCK FALSE
