\* Two controllers that come, go and send commands in pieces.
CONSTANTS
    Ctl = {c1, c2}
    Command = {"update", "crash", "other"}
    MaxCommands = 3
    HeaderUnits = 2
    PayloadUnits <- ShortPayloads
SPECIFICATION FairSpec
INVARIANTS
    TypeOK
    StopsForAReason
PROPERTIES
    IsDialogue
    CommandsAreTaken
\* The router may stop, and controllers need not go on.
CHECK_DEADLOCK FALSE
