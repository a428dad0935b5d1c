SPECIFICATION Spec
CONSTANTS
    Client = Client
    Agent = Agent
    NoCall = NoCall
    prompt = prompt
    permission = permission
    list = list
    update = update
    cancel = cancel
    Calls <- MCCalls
    Owner <- MCOwner
    Parent <- MCParent
    Notes <- MCNotes
    NoteOwner <- MCNoteOwner
    NoteParent <- MCNoteParent
    WireCap = 1
    MayFail = {Client}
    MayDrop = {Agent}
    MayPanic = {Agent}
INVARIANTS TypeOK OwnAnswer SingleExecution NoStrandedCaller
    NoPendingLeak UpdatesPrecedeAnswer
PROPERTIES ImplementsRpc
CHECK_DEADLOCK FALSE
