\* Two users, two connections that may share an account, delete it under each
\* other and write to themselves.
CONSTANTS
    Absent    = Absent
    Names     = {alice, bob}
    Passwords = {pw, pw2}
    Contents  = {hi, yo}
    Threads   = {c1, c2}
    MaxTexts  = 2
SPECIFICATION BoundedSpec
INVARIANTS TypeOK ChatsMirror
PROPERTIES SessionsKeepTheirAccount ImplementsConversations SafeUse
\* The process may end, and then nothing is enabled.
CHECK_DEADLOCK FALSE
