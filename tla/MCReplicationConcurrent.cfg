\* Two clients with one request each, and nothing fails.
CONSTANTS
    alice = alice
    pw = pw
    hi = hi
    Absent = Absent
    None = None
    Clients = {c1, c2}
    Names = {alice}
    Passwords = {pw}
    Bodies = {hi}
    Requests <- MCAccountRequests
    MaxRequests = 1
    MaxCrashes = 0
    MaxRestarts = 0
    MaxTimeOuts = 0
    Settled = TRUE
SPECIFICATION RSpec
INVARIANTS ReplicasAgree
CHECK_DEADLOCK FALSE
