\* One client and servers that fail by stopping, the setting of the README; up
\* to all three stop.  A client may have made all its requests, or have found
\* all servers down, and then nothing is enabled.
CONSTANTS
    alice = alice
    pw = pw
    hi = hi
    Absent = Absent
    None = None
    Clients = {c1}
    Names = {alice}
    Passwords = {pw}
    Bodies = {hi}
    Requests <- MCRequests
    MaxRequests = 3
    MaxCrashes = 3
    MaxRestarts = 0
    MaxTimeOuts = 0
    Settled = TRUE
SPECIFICATION RSpec
INVARIANTS ReplicasAgree GivesUpRightly AInv ServiceInv
PROPERTIES DropsOnlyRepetitions AcknowledgedEverywhere InboxNeverShrinks ImplementsOneServer
    EveryRequestAnswered InboxCatchesUp
CHECK_DEADLOCK FALSE
