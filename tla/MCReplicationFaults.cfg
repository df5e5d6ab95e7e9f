\* A crash, a restart and an answer that comes too late, anywhere.  All requests
\* may have been made, and then nothing is enabled.
CONSTANTS
    alice = alice
    pw = pw
    hi = hi
    Absent = Absent
    None = None
    Clients = {c1}
    Names = {alice}
    Passwords = {pw}
    Bodies = {hi}
    Requests <- MCAccountRequests
    MaxRequests = 2
    MaxCrashes = 1
    MaxRestarts = 1
    MaxTimeOuts = 1
    Settled = FALSE
SPECIFICATION RSpec
INVARIANTS RTypeOK DiskIsCurrent
CHECK_DEADLOCK FALSE
