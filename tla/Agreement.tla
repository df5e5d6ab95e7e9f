------------------------------ MODULE Agreement ------------------------------
(***************************************************************************)
(* Why the replicated servers agree when there is one client and servers   *)
(* fail by stopping: what Replication keeps true between two steps.        *)
(*                                                                         *)
(* A request that changes something runs at one server, the root, which    *)
(* sends it to the later servers one by one; a handler of a later server   *)
(* is a child.  Only the server the client is at can be a root, and at     *)
(* most one child works, which may outlive a root that crashed.            *)
(***************************************************************************)
EXTENDS Replication

Root(c, s)     == <<<<c, "main">>, <<s>>>>
Child(c, s, t) == <<<<c, "main">>, <<s, t>>>>

Writes(r)    == r.rpc \notin ReadOnly
InTheLoop(i) == At(i, "call") \/ At(i, "wait")
Executing(i) == At(i, "store") \/ At(i, "done")

\* The client waits for a request that changes something.
Changing(c) == pending[c]["main"] # None /\ Writes(pending[c]["main"].request)

-----------------------------------------------------------------------------
(***************************************************************************)
(* How the databases and numbers of two servers, s before t, may differ.   *)
(***************************************************************************)

\* t has what the leader s has, and no number that s could give out again.
InStep(s, t) == db[t] = db[s] /\ counter[t] <= counter[s]

\* Followers that have executed the same requests: t got the last one under the
\* number after that of s, so that it knows a replay by s for a repetition.
Matched(s, t) ==
    /\ db[t] = db[s] /\ last_request[t] = last_request[s]
    /\ IF last_request[s] = None THEN counter[s] = 0 /\ counter[t] = 0
       ELSE counter[t] = counter[s] + 1

\* The last request of s has not reached t, which will execute a replay by s.
Behind(s, t) ==
    /\ last_request[s] # None /\ db[s] = Executed(db[t], last_request[s])
    /\ counter[t] <= counter[s]

-----------------------------------------------------------------------------
(***************************************************************************)
(* The parts of the invariant.                                             *)
(***************************************************************************)

\* A leader has outlived the servers before it, and a server that lives has not
\* lost a stub.  Server 0 records no request; a follower has executed what it
\* recorded last.
RolesInv ==
    /\ am_i_leader[0] /\ last_request[0] = None
    /\ \A s \in Servers : \A t \in Later(s) :
          /\ am_i_leader[t] => ~up[s]
          /\ up[t] => \A v \in Services : t \in stubs[s][v]
    /\ \A s \in Servers : last_request[s] # None =>
          /\ Writes(last_request[s])
          /\ ~am_i_leader[s] => Reflects(db[s], last_request[s])

\* Where the handlers are that the main thread asked for.
PlacesInv(c) ==
    \A i \in Tasks : i[1] = <<c, "main">> /\ tasks[i] # None =>
       /\ pending[c]["main"] # None
       /\ \/ i = Root(c, curr_leader[c])
          \/ \E t \in Later(curr_leader[c]) : i = Child(c, curr_leader[c], t)

\* The root's request is the client's again whenever the number it was marked
\* with might be one that the leader has counted.
RootInv(c, s) ==
    LET k == tasks[Root(c, s)] IN
    k # None =>
       /\ k.pc = "begin" => k.is_client
       /\ Writes(k.request) /\ k.pc # "begin" => am_i_leader[s]
       /\ InTheLoop(Root(c, s)) =>
             /\ k.from > s
             /\ IF k.replay # None THEN k.is_client /\ k.replay = last_request[s]
                ELSE k.is_client \/ k.counter = counter[s] + 1
       /\ k.pc = "wait" /\ k.replay = None => k.counter = counter[s] + 1
       /\ k.pc = "wait" /\ up[k.from] => tasks[Child(c, s, k.from)] # None
       /\ Executing(Root(c, s)) => Reflects(db[s], k.request)

\* A child is what the root waits for, if there still is a root, and it drops
\* only what its server has executed.
ChildInv(c, s, t) ==
    LET j == tasks[Child(c, s, t)]
        k == tasks[Root(c, s)]
    IN
    j # None =>
       /\ Changing(c) /\ Writes(j.request) /\ ~j.is_client
       /\ \A u \in Later(s) : ~am_i_leader[u]
       /\ j.pc \in {"begin", "store", "done"}
       /\ k # None => /\ k.pc = "wait" /\ k.from = t /\ j.request = Replicated(k)
                      /\ j.pc = "begin" => j.counter = counter[s] + 1
       /\ j.pc = "begin" /\ j.counter <= counter[t] => Reflects(db[t], j.request)
       /\ \A u \in Later(s) : u # t => tasks[Child(c, s, u)] = None

\* What a leader that lives has in common with a later server.
LeaderInv(c, s, t) ==
    LET k == tasks[Root(c, s)]
        replicated == IF k.replay = None THEN Executed(db[s], k.request) ELSE db[s]
    IN
    IF ~InTheLoop(Root(c, s)) THEN InStep(s, t)
    ELSE IF t < k.from THEN db[t] = replicated /\ counter[t] <= counter[s]
    ELSE IF k.pc = "wait" /\ t = k.from /\ ~At(Child(c, s, t), "begin")
         THEN db[t] = replicated /\ counter[t] = counter[s] + 1
    ELSE IF k.replay = None THEN InStep(s, t)
    ELSE Matched(s, t) \/ Behind(s, t)

\* What two followers of server 0 have in common, while it lives and afterwards.
FollowersInv(c, s, t) ==
    LET k == tasks[Root(c, 0)]
        first  == Child(c, 0, s)
        second == Child(c, 0, t)
    IN
    /\ Matched(s, t) \/ (Behind(s, t) /\ Changing(c))
    /\ At(first, "begin") => /\ Matched(s, t)
                             /\ tasks[first].counter > counter[s]
                             /\ tasks[first].counter > counter[t]
    /\ At(second, "begin") => /\ Behind(s, t) /\ tasks[second].request = last_request[s]
                              /\ tasks[second].counter = counter[s] + 1
    /\ up[0] =>
          /\ ~InTheLoop(Root(c, 0)) => Matched(s, t)
          /\ At(Root(c, 0), "call") =>
                IF k.from = t
                THEN Behind(s, t) /\ last_request[s] = k.request /\ counter[s] = counter[0]
                ELSE Matched(s, t)
          /\ At(Root(c, 0), "wait") /\ k.from = s /\ ~At(first, "begin") =>
                Behind(s, t) /\ last_request[s] = k.request
          /\ At(Root(c, 0), "wait") /\ k.from = t /\ ~At(second, "begin") => Matched(s, t)

TreeInv ==
    \A c \in Clients :
       /\ PlacesInv(c)
       /\ \A s \in Servers : RootInv(c, s) /\ \A t \in Later(s) : ChildInv(c, s, t)

DataInv ==
    \A c \in Clients, s \in Servers : \A t \in Later(s) : up[s] /\ up[t] =>
       IF am_i_leader[s] THEN LeaderInv(c, s, t) ELSE FollowersInv(c, s, t)

AInv == RolesInv /\ TreeInv /\ DataInv

-----------------------------------------------------------------------------
(***************************************************************************)
(* The service that the replicas make up (OneServer).                      *)
(***************************************************************************)

\* A new leader sends its last request to the later servers once more.
Replaying(s) ==
    \E c \in Clients : InTheLoop(Root(c, s)) /\ tasks[Root(c, s)].replay # None

\* The server whose database is the service's, of those that are up: the leader,
\* which executes a request after the others, and where there is none yet, or it
\* still replays, the last server.
Current(s) ==
    /\ up[s]
    /\ IF \E l \in Servers : up[l] /\ am_i_leader[l] /\ ~Replaying(l)
       THEN am_i_leader[s] ELSE \A t \in Later(s) : ~up[t]

CommonDb == IF \E s \in Servers : up[s] THEN db[CHOOSE s \in Servers : Current(s)] ELSE None

Asking == [c \in Clients |-> [h \in Threads |->
             IF pending[c][h] = None THEN None ELSE pending[c][h].request]]

Promise == INSTANCE OneServer WITH database <- CommonDb, asked <- Asking

\* Three servers that crash behave to one client as a single one that does not: what
\* it is told is true of one database, from which nothing is lost while a server is up.
ImplementsOneServer == Promise!OSpec

-----------------------------------------------------------------------------
(***************************************************************************)
(* What the service and the client's inbox rest on, besides AInv.          *)
(***************************************************************************)

\* What a handler of a later server is about to execute is what the client waits
\* for, unless it changes nothing, which can only be in a replay.
SentInv(c) ==
    \A s \in Servers : \A t \in Later(s) :
       LET j == tasks[Child(c, s, t)] IN
       At(Child(c, s, t), "begin") =>
          \/ j.request = pending[c]["main"].request
          \/ s # 0 /\ (j.counter <= counter[t] \/ Executed(db[t], j.request) = db[t])

\* A request that server 1 would replay as a new leader, and that changes something
\* at server 2, is what the client waits for.
RetryInv(c) ==
    up[1] /\ up[2] /\ db[1] # db[2] /\ Changing(c) /\ (am_i_leader[1] => Replaying(1)) =>
       last_request[1] = pending[c]["main"].request

\* What a thread will be told is so at the server that will tell it.
ToldInv(c, h) ==
    LET k == tasks[Awaited(c, h)]
        r == k.request
        d == db[pending[c][h].at]
    IN
    Waiting(c, h) /\ Executing(Awaited(c, h)) =>
       /\ r.rpc = "Login" => (k.success <=> Accepts(d, r))
       /\ r.rpc = "Register" /\ k.success => d.passwords[r.username] = r.password
       /\ r.rpc = "ReceiveMessage" => k.chats = Len(d.messages[r.username])
       /\ r.rpc = "SendMessage" /\ k.success /\ r.receiver = username[c] =>
             Len(d.messages[username[c]]) > acked[c]

\* Every server that is up has what the client has shown, and what was acknowledged.
InboxInv(c) ==
    /\ stage[c] = "login" => num_messages[c] = 0 /\ acked[c] = 0
    /\ \A h \in Threads : pending[c][h] # None =>
          LET r == pending[c][h].request
          IN  r.rpc = "ReceiveMessage" => r.username = username[c]
    /\ stage[c] # "login" => \A s \in Servers : up[s] =>
          LET n == Len(db[s].messages[username[c]])
          IN  num_messages[c] <= n /\ acked[c] <= n

ServiceInv ==
    \A c \in Clients : /\ SentInv(c) /\ RetryInv(c) /\ InboxInv(c)
                       /\ \A h \in Threads : ToldInv(c, h)
=============================================================================
