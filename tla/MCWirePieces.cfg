\* Is what recv_body reads, and calls successfully read, what was sent?
CONSTANTS
    None    = None
    Calls   <- MCCalls
    Lists   <- MCLists
    Chats   <- MCChats
    Pieces  = {1, 3, 4}
    MaxCuts = 1
SPECIFICATION WSpec
INVARIANT ReadsAreSuccessful
\* The conversation may be over, and then nothing is enabled.
CHECK_DEADLOCK FALSE
