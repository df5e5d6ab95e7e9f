\* One connection, any number of rounds, two sends or recvs that move less than
\* they could.  The conversation may be over, and then nothing is enabled.
CONSTANTS
    None    = None
    Calls   <- MCCalls
    Lists   <- MCLists
    Chats   <- MCChats
    Pieces  = {1, 3, 4}
    MaxCuts = 2
SPECIFICATION WSpec
INVARIANTS WTypeOK RequestsArrive AnswersArrive
PROPERTIES ImplementsRounds RoundEnds ThreadEnds
CHECK_DEADLOCK FALSE
