\* Does the server run indefinitely when nobody writes to themselves?
CONSTANTS
    Absent    = Absent
    Names     = {alice, bob}
    Passwords = {pw}
    Contents  = {hi}
    Threads   = {c1, c2}
    MaxTexts  = 1
SPECIFICATION BoundedSpec
PROPERTY RunsIndefinitely
\* The process may end, and then nothing is enabled.
CHECK_DEADLOCK FALSE
