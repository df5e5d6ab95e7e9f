\* Two clients with one request each, for different accounts, and one crash.
CONSTANTS
    alice = alice
    pw = pw
    hi = hi
    Absent = Absent
    None = None
    Clients = {c1, c2}
    Names = {alice, bob}
    Passwords = {pw}
    Bodies = {hi}
    Requests <- MCRegistrations
    MaxRequests = 1
    MaxCrashes = 1
    MaxRestarts = 0
    MaxTimeOuts = 0
    Settled = TRUE
SPECIFICATION RSpec
PROPERTY LeaderHasWhatItAcknowledges
CHECK_DEADLOCK FALSE
