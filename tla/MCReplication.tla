--------------------------- MODULE MCReplication ---------------------------
(* The instances of Replication that TLC checks, with the invariant of Agreement. *)
EXTENDS Agreement

CONSTANTS alice, pw, hi

\* Requests whose order matters: an account made, used and removed.
MCRequests ==
    {[rpc |-> "Register", username |-> alice, password |-> pw],
     [rpc |-> "SendMessage", sender |-> alice, receiver |-> alice, body |-> hi],
     [rpc |-> "DeleteAccount", username |-> alice, password |-> pw],
     [rpc |-> "Login", username |-> alice, password |-> pw]}

\* Fewer of them, for the runs with more faults or more clients.
MCAccountRequests == {r \in MCRequests : r.rpc \in {"Register", "DeleteAccount"}}

\* One account for every name.
MCRegistrations == {[rpc |-> "Register", username |-> n, password |-> pw] : n \in Names}
=============================================================================
