\* Two connections, two users.  The process may end, and then nothing is enabled.
CONSTANTS
    Absent    = Absent
    Invalid   = Invalid
    Names     = {alice, bob}
    Passwords = {pw}
    Contents  = {hi}
    Threads   = {c1, c2}
    MaxTexts  = 2
SPECIFICATION MCSpec
INVARIANTS STypeOK FreshThreadsLoggedOut GuardStillHolds
PROPERTIES RepliesTruthful ImplementsDatabase Answered
CHECK_DEADLOCK FALSE
