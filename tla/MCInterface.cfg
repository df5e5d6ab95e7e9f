\* Two users, this client and another.  start() may have returned, or the user
\* may be asked for a key, and then nothing is enabled.
CONSTANTS
    Absent    = Absent
    Names     = {alice, bob}
    Passwords = {pw}
    Contents  = {hi}
    Threads   = {me, other}
    me        = me
    MaxTexts  = 2
    peer      = bob
SPECIFICATION MCSpec
INVARIANTS ITypeOK SocketExclusive ListenerConfined ScreenMatchesSession NeverUnauthorized ShownIsPrefix
PROPERTIES ListenerStops Delivered
CHECK_DEADLOCK FALSE
