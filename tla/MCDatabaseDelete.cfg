\* Does delete_user delete the chats of all correspondents?
CONSTANTS
    Absent    = Absent
    Names     = {alice, bob}
    Passwords = {pw}
    Contents  = {hi}
    Threads   = {c1, c2}
    MaxTexts  = 2
SPECIFICATION BoundedSpec
INVARIANT CorrespondentsExist
\* The process may end, and then nothing is enabled.
CHECK_DEADLOCK FALSE
