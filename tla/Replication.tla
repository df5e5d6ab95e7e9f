---------------------------- MODULE Replication ----------------------------
(***************************************************************************)
(* The three replicated servers and their clients                          *)
(* (chat262-replication/server.py and client.py).  gRPC runs every call in *)
(* a thread of a pool and no lock protects g_params, so a handler is a     *)
(* task: its code between two calls of its own is one step, and the tasks  *)
(* of a server interleave.  A task is named by the client's thread and the *)
(* servers the request went through: <<0, 2>> is the task of server 2 for  *)
(* a call made by the task of server 0.                                    *)
(*                                                                         *)
(* A client program asks for an account until it is logged in, shows the   *)
(* inbox and the users, and then has two threads: one sends what the user  *)
(* types, one asks for the inbox every second.  Both use one stub, under   *)
(* chat_stub_lock, and one number for the server they think is the leader. *)
(***************************************************************************)
EXTENDS ChatData

CONSTANTS
    MaxRequests,  \* bound: requests of one user
    MaxCrashes,   \* bound: crashes of servers
    MaxRestarts,  \* bound: restarts of servers
    MaxTimeOuts,  \* bound: answers of live servers that come too late (0: none does)
    Settled       \* the calls of a crashed server end before its client tries the next

Servers  == 0..2
Services == {"auth", "chat"}
Later(s) == {t \in Servers : t > s}
Paths    == {<<0>>, <<1>>, <<2>>, <<0, 1>>, <<0, 2>>, <<1, 2>>, <<0, 1, 2>>}
Tasks    == ((Clients \X {"main"}) \X Paths)
            \cup ((Clients \X {"inbox"}) \X {<<0>>, <<1>>, <<2>>})    \* replicates nothing

VARIABLES
    up,            \* the server process runs
    am_i_leader,   \* per server, as in g_params
    stubs,         \* per server and service: the later servers not found down
    counter,       \* per server: replication counter
    last_request,  \* per server: the last request replicated to it
    db,            \* per server: the database in memory
    disk,          \* per server: what loadData would read
    tasks,         \* the handlers being executed
    curr_leader,   \* per client: the server it talks to (3: all have failed)
    pending,       \* per client and thread: the request it waits for, and of whom
    chat_stub_lock,\* per client: the thread that holds it
    username,      \* per client: who is logged in
    stage,         \* per client: how far the program has come
    num_messages,  \* per client: the messages in the inbox it shows
    acked,         \* per client: its messages to itself that were acknowledged
    made,          \* per client: requests made so far
    crashes,       \* crashes so far
    restarts,      \* restarts so far
    timeouts       \* requests given up by a client though their server works on them

servervars == <<am_i_leader, stubs, counter, last_request>>
dbs        == <<db, disk>>
session    == <<chat_stub_lock, username, stage, num_messages, acked>>
clientvars == <<curr_leader, pending, session, made>>
faults     == <<up, crashes, restarts, timeouts>>
rvars      == <<servervars, dbs, clientvars, faults, tasks>>

Service(r) == IF r.rpc = "SendMessage" THEN "chat" ELSE "auth"

-----------------------------------------------------------------------------
(***************************************************************************)
(* Tasks.  replay is the request of last_request being replicated before   *)
(* the task's own; from is the first stub the loop has not been through.   *)
(***************************************************************************)

Server(i) == i[2][Len(i[2])]
Callee(i, t) == <<i[1], Append(i[2], t)>>

Task == [pc : {"begin", "call", "wait", "store", "done"}, request : Asked,
         is_client : BOOLEAN, counter : Nat, replay : Requests \cup {None},
         from : 0..3, success : BOOLEAN, chats : Nat]

\* None is no task, no request that a client waits for, and no thread.
ASSUME NoTaskAssumption == None \notin Task \cup [request : Asked, at : 0..3] \cup Threads

NewTask(r, is_client, number) ==
    [pc |-> "begin", request |-> r, is_client |-> is_client, counter |-> number,
     replay |-> None, from |-> 0, success |-> FALSE, chats |-> 0]

Replicated(k) == IF k.replay = None THEN k.request ELSE k.replay

\* The stubs that are left to call, and the one whose turn it is.
Left(i) == {t \in stubs[Server(i)][Service(Replicated(tasks[i]))] : t >= tasks[i].from}
Target(i) == CHOOSE t \in Left(i) : \A u \in Left(i) : t <= u

At(i, pc) == tasks[i] # None /\ tasks[i].pc = pc

RInit ==
    /\ up = [s \in Servers |-> TRUE]
    /\ am_i_leader = [s \in Servers |-> s = 0]
    /\ stubs = [s \in Servers |-> [v \in Services |-> Later(s)]]
    /\ counter = [s \in Servers |-> 0]
    /\ last_request = [s \in Servers |-> None]
    /\ db = [s \in Servers |-> EmptyDb]
    /\ disk = [s \in Servers |-> EmptyDb]
    /\ tasks = [i \in Tasks |-> None]
    /\ curr_leader = [c \in Clients |-> 0]
    /\ pending = [c \in Clients |-> [h \in Threads |-> None]]
    /\ chat_stub_lock = [c \in Clients |-> None]
    /\ username = [c \in Clients |-> None]
    /\ stage = [c \in Clients |-> "login"]
    /\ num_messages = [c \in Clients |-> 0]
    /\ acked = [c \in Clients |-> 0]
    /\ made = [c \in Clients |-> 0]
    /\ crashes = 0
    /\ restarts = 0
    /\ timeouts = 0
-----------------------------------------------------------------------------
(***************************************************************************)
(* The handlers.  Each starts in replicate: a server that is sent a client *)
(* request makes itself the leader and first replicates its last_request;  *)
(* a leader calls its stubs in turn; the others record the request.        *)
(***************************************************************************)

\* Login, GetUsers and ReceiveMessage; of the messages their number matters.
Read(i) ==
    LET d == db[Server(i)]
        r == tasks[i].request
    IN
    /\ At(i, "begin") /\ r.rpc \in ReadOnly
    /\ tasks' = [tasks EXCEPT ![i].pc = "done",
                              ![i].success = r.rpc # "Login" \/ Accepts(d, r),
                              ![i].chats = IF r.rpc = "ReceiveMessage"
                                           THEN Len(d.messages[r.username]) ELSE 0]
    /\ UNCHANGED <<servervars, dbs, clientvars, faults>>

\* Mutant: a new leader does not replicate the last request again.
Lead_forgetting(i) ==
    LET s == Server(i) IN
    /\ At(i, "begin") /\ tasks[i].request.rpc \notin ReadOnly
    /\ tasks[i].is_client \/ am_i_leader[s]
    /\ am_i_leader' = [am_i_leader EXCEPT ![s] = TRUE]
    /\ tasks' = [tasks EXCEPT ![i].pc = "call", ![i].from = s + 1]
    /\ UNCHANGED <<stubs, counter, last_request, dbs, clientvars, faults>>

Lead(i) ==
    LET s == Server(i) IN
    /\ At(i, "begin") /\ tasks[i].request.rpc \notin ReadOnly
    /\ tasks[i].is_client \/ am_i_leader[s]
    /\ am_i_leader' = [am_i_leader EXCEPT ![s] = TRUE]
    /\ tasks' = [tasks EXCEPT ![i].pc = "call", ![i].from = s + 1,
                              ![i].replay = IF am_i_leader[s] THEN None ELSE last_request[s]]
    /\ UNCHANGED <<stubs, counter, last_request, dbs, clientvars, faults>>

\* The request goes to the next stub as the server's, not the client's, under
\* the number that follows the counter.  To a server that is down it is lost.  A
\* handler that an earlier call left behind, under the same name, must have ended.
Call(i) ==
    LET s == Server(i)
        t == Target(i)
        k == tasks[i]
        sender == [k EXCEPT !.pc = "wait", !.from = t,
                            !.is_client = k.replay # None /\ k.is_client,
                            !.counter = IF k.replay = None THEN counter[s] + 1 ELSE @]
        callee == IF up[t] THEN NewTask(Replicated(k), FALSE, counter[s] + 1) ELSE None
    IN
    /\ At(i, "call") /\ Left(i) # {} /\ tasks[Callee(i, t)] = None
    /\ tasks' = [tasks EXCEPT ![i] = sender, ![Callee(i, t)] = callee]
    /\ UNCHANGED <<servervars, dbs, clientvars, faults>>

\* Mutant: the counter does not follow the numbers that were used.
Returned_uncounted(i) ==
    LET s == Server(i)
        t == tasks[i].from
        k == tasks[i]
    IN
    /\ At(i, "wait") /\ At(Callee(i, t), "done")
    /\ tasks' = [tasks EXCEPT
                   ![i] = [k EXCEPT !.pc = "call", !.from = t + 1,
                                    !.is_client = k.replay = None \/ k.is_client],
                   ![Callee(i, t)] = None]
    /\ UNCHANGED <<servervars, dbs, clientvars, faults>>

\* The call was answered; what it answered is not looked at.
Returned(i) ==
    LET s == Server(i)
        t == tasks[i].from
        k == tasks[i]
    IN
    /\ At(i, "wait") /\ At(Callee(i, t), "done")
    /\ tasks' = [tasks EXCEPT
                   ![i] = [k EXCEPT !.pc = "call", !.from = t + 1,
                                    !.is_client = k.replay = None \/ k.is_client],
                   ![Callee(i, t)] = None]
    /\ counter' = [counter EXCEPT ![s] = @ + 1]
    /\ UNCHANGED <<am_i_leader, stubs, last_request, dbs, clientvars, faults>>

\* Mutant: the loop over the stubs ends with the first exception.
Failed_breaking(i) ==
    LET s == Server(i)
        t == tasks[i].from
    IN
    /\ At(i, "wait") /\ tasks[Callee(i, t)] = None
    /\ stubs' = [stubs EXCEPT ![s][Service(Replicated(tasks[i]))] = @ \ {t}]
    /\ tasks' = [tasks EXCEPT ![i].pc = "call", ![i].from = 3]
    /\ UNCHANGED <<am_i_leader, counter, last_request, dbs, clientvars, faults>>

\* Mutant: the call is made again until it is answered.
Failed_retrying(i) ==
    /\ At(i, "wait") /\ tasks[Callee(i, tasks[i].from)] = None
    /\ tasks' = [tasks EXCEPT ![i].pc = "call"]
    /\ UNCHANGED <<servervars, dbs, clientvars, faults>>

\* The call raised an exception: the stub is not used again.  The request stays
\* marked as not the client's.
Failed(i) ==
    LET s == Server(i)
        t == tasks[i].from
    IN
    /\ At(i, "wait") /\ tasks[Callee(i, t)] = None
    /\ stubs' = [stubs EXCEPT ![s][Service(Replicated(tasks[i]))] = @ \ {t}]
    /\ tasks' = [tasks EXCEPT ![i].pc = "call", ![i].from = t + 1]
    /\ UNCHANGED <<am_i_leader, counter, last_request, dbs, clientvars, faults>>

EndReplay(i) ==
    /\ At(i, "call") /\ Left(i) = {} /\ tasks[i].replay # None
    /\ tasks' = [tasks EXCEPT ![i].replay = None, ![i].from = Server(i) + 1]
    /\ UNCHANGED <<servervars, dbs, clientvars, faults>>

-----------------------------------------------------------------------------
(***************************************************************************)
(* After replicate: a request that is not the client's and whose number is *)
(* not new is taken for executed already; any other is executed.  storeData*)
(* truncates the file, and loadData reads a truncated file as no database, *)
(* until the dump.                                                         *)
(***************************************************************************)

Seen(i) == ~tasks[i].is_client /\ tasks[i].counter <= counter[Server(i)]

Discard(i) ==
    /\ Seen(i)
    /\ tasks' = [tasks EXCEPT ![i].pc = "done", ![i].success = TRUE]
    /\ UNCHANGED <<counter, dbs>>

\* Mutant: the removal of an account is not stored.
Perform_forgetful(i) ==
    LET s == Server(i)
        k == tasks[i]
        stored == Accepts(db[s], k.request) /\ k.request.rpc # "DeleteAccount"
    IN
    /\ ~Seen(i)
    /\ counter' = IF k.is_client THEN counter ELSE [counter EXCEPT ![s] = k.counter]
    /\ db' = [db EXCEPT ![s] = Executed(@, k.request)]
    /\ disk' = IF stored THEN [disk EXCEPT ![s] = EmptyDb] ELSE disk
    /\ tasks' = [tasks EXCEPT ![i].pc = IF stored THEN "store" ELSE "done",
                              ![i].success = Accepts(db[s], k.request)]

Perform(i) ==
    LET s == Server(i)
        k == tasks[i]
        accepted == Accepts(db[s], k.request)
    IN
    /\ ~Seen(i)
    /\ counter' = IF k.is_client THEN counter ELSE [counter EXCEPT ![s] = k.counter]
    /\ db' = [db EXCEPT ![s] = Executed(@, k.request)]
    /\ disk' = IF accepted THEN [disk EXCEPT ![s] = EmptyDb] ELSE disk
    /\ tasks' = [tasks EXCEPT ![i].pc = IF accepted THEN "store" ELSE "done",
                              ![i].success = accepted]

Follow(i) ==
    LET s == Server(i) IN
    /\ At(i, "begin") /\ tasks[i].request.rpc \notin ReadOnly
    /\ ~tasks[i].is_client /\ ~am_i_leader[s]
    /\ last_request' = [last_request EXCEPT ![s] = tasks[i].request]
    /\ Discard(i) \/ Perform(i)
    /\ UNCHANGED <<am_i_leader, stubs, clientvars, faults>>

\* Mutant: the leader does not wait for the others.
Act_eager(i) ==
    /\ At(i, "call") /\ tasks[i].replay = None
    /\ Discard(i) \/ Perform(i)
    /\ UNCHANGED <<am_i_leader, stubs, last_request, clientvars, faults>>

Act(i) ==
    /\ At(i, "call") /\ Left(i) = {} /\ tasks[i].replay = None
    /\ Discard(i) \/ Perform(i)
    /\ UNCHANGED <<am_i_leader, stubs, last_request, clientvars, faults>>

Store(i) ==
    /\ At(i, "store")
    /\ disk' = [disk EXCEPT ![Server(i)] = db[Server(i)]]
    /\ tasks' = [tasks EXCEPT ![i].pc = "done"]
    /\ UNCHANGED <<servervars, db, clientvars, faults>>

\* A response nobody waits for any more: the caller has crashed or given up.
Heard(i) ==
    \/ /\ Len(i[2]) = 1
       /\ LET p == pending[i[1][1]][i[1][2]] IN p # None /\ p.at = Server(i)
    \/ \E j \in Tasks : At(j, "wait") /\ i = Callee(j, tasks[j].from)

Unheard(i) ==
    /\ At(i, "done") /\ ~Heard(i)
    /\ tasks' = [tasks EXCEPT ![i] = None]
    /\ UNCHANGED <<servervars, dbs, clientvars, faults>>

TaskStep(i) ==
    \/ Read(i) \/ Lead(i) \/ Call(i) \/ Returned(i) \/ Failed(i) \/ EndReplay(i)
    \/ Follow(i) \/ Act(i) \/ Store(i) \/ Unheard(i)
-----------------------------------------------------------------------------
(***************************************************************************)
(* The clients: send_request tries the servers in order, one second each,  *)
(* and never goes back.                                                    *)
(***************************************************************************)

Gone(c)       == curr_leader[c] > 2          \* os._exit: all 3 servers have failed
Waiting(c, h) == pending[c][h] # None /\ ~Gone(c)
Awaited(c, h) == <<<<c, h>>, <<pending[c][h].at>>>>

\* A call on the stub that connect made last; to a server that is down it fails.
Connect(c, h, r, s) ==
    /\ pending' = [pending EXCEPT ![c][h] = [request |-> r, at |-> s]]
    /\ tasks' = IF s \in Servers /\ up[s]
                THEN [tasks EXCEPT ![<<<<c, h>>, <<s>>>>] = NewTask(r, TRUE, 0)]
                ELSE tasks

Ask(c, h, r) ==
    /\ pending[c][h] = None /\ ~Gone(c)
    /\ Connect(c, h, r, curr_leader[c])
    /\ UNCHANGED <<curr_leader, username, stage, num_messages, acked, servervars, dbs, faults>>

AskLocked(c, h, r) ==
    /\ chat_stub_lock[c] = None
    /\ chat_stub_lock' = [chat_stub_lock EXCEPT ![c] = h]
    /\ Ask(c, h, r)

\* What the user asks for: run_login until logged in, then send_messages.
Issue(c, r) ==
    /\ made[c] < MaxRequests
    /\ made' = [made EXCEPT ![c] = @ + 1]
    /\ \/ /\ stage[c] = "login" /\ r.rpc # "SendMessage"
          /\ Ask(c, "main", r)
          /\ UNCHANGED chat_stub_lock
       \/ /\ stage[c] = "chat" /\ r.rpc = "SendMessage" /\ r.sender = username[c]
          /\ AskLocked(c, "main", r)

\* run_home asks for the inbox and the users before there are two threads.
Homepage(c) ==
    /\ stage[c] = "home"
    /\ AskLocked(c, "main", ReceiveMessage(username[c]))
    /\ UNCHANGED made

ListUsers(c) ==
    /\ stage[c] = "users"
    /\ Ask(c, "main", GetUsers)
    /\ UNCHANGED <<chat_stub_lock, made>>

\* Mutant: the inbox thread asks without the lock.
Poll_unlocked(c) ==
    /\ stage[c] = "chat"
    /\ Ask(c, "inbox", ReceiveMessage(username[c]))
    /\ UNCHANGED <<chat_stub_lock, made>>

\* receive_messages in its own thread.
Poll(c) ==
    /\ stage[c] = "chat"
    /\ AskLocked(c, "inbox", ReceiveMessage(username[c]))
    /\ UNCHANGED made

\* Mutant: send_messages does not give the lock back.
Release_forgotten(c, h) ==
    chat_stub_lock' = [chat_stub_lock EXCEPT
                         ![c] = IF @ = h /\ (h = "inbox" \/ stage[c] # "chat") THEN None ELSE @]

\* Only a thread that has the lock gives it back.
Release(c, h) ==
    chat_stub_lock' = [chat_stub_lock EXCEPT ![c] = IF @ = h THEN None ELSE @]

\* What the program makes of an answer.
Answer(c, h) ==
    LET k == tasks[Awaited(c, h)]
        r == k.request
    IN
    /\ Waiting(c, h) /\ At(Awaited(c, h), "done")
    /\ pending' = [pending EXCEPT ![c][h] = None]
    /\ tasks' = [tasks EXCEPT ![Awaited(c, h)] = None]
    /\ Release(c, h)
    /\ username' = IF r.rpc \in {"Register", "Login"} /\ k.success
                   THEN [username EXCEPT ![c] = r.username] ELSE username
    /\ stage' = CASE r.rpc \in {"Register", "Login"} /\ k.success -> [stage EXCEPT ![c] = "home"]
                  [] stage[c] = "home"                          -> [stage EXCEPT ![c] = "users"]
                  [] stage[c] = "users"                         -> [stage EXCEPT ![c] = "chat"]
                  [] OTHER                                      -> stage
    /\ num_messages' = IF r.rpc = "ReceiveMessage"
                       THEN [num_messages EXCEPT ![c] = k.chats] ELSE num_messages
    /\ acked' = IF r.rpc = "SendMessage" /\ k.success /\ r.receiver = username[c]
                THEN [acked EXCEPT ![c] = @ + 1] ELSE acked
    /\ UNCHANGED <<curr_leader, made, servervars, dbs, faults>>

TryNext(c, h) ==
    /\ Waiting(c, h)
    /\ curr_leader' = [curr_leader EXCEPT ![c] = @ + 1]
    /\ Connect(c, h, pending[c][h].request, curr_leader[c] + 1)
    /\ UNCHANGED <<session, made, servervars, dbs>>

\* The server is down, or went down with the request.
FailOver(c, h) ==
    /\ Waiting(c, h) /\ tasks[Awaited(c, h)] = None
    /\ Settled => \A i \in Tasks : i[1] = <<c, h>> => tasks[i] = None
    /\ TryNext(c, h)
    /\ UNCHANGED faults

\* The server is up and works on the request, for longer than a second.
TimeOut(c, h) ==
    /\ Waiting(c, h) /\ tasks[Awaited(c, h)] # None /\ ~At(Awaited(c, h), "done")
    /\ timeouts < MaxTimeOuts
    /\ timeouts' = timeouts + 1
    /\ TryNext(c, h)
    /\ UNCHANGED <<up, crashes, restarts>>

\* The user leaves a program that waits for nothing and starts another.  The
\* names of its tasks are used again, so that they must have ended.
Leave(c) ==
    /\ stage[c] = "chat" /\ ~Gone(c) /\ \A h \in Threads : pending[c][h] = None
    /\ \A i \in Tasks : i[1][1] = c => tasks[i] = None
    /\ stage' = [stage EXCEPT ![c] = "login"]
    /\ username' = [username EXCEPT ![c] = None]
    /\ curr_leader' = [curr_leader EXCEPT ![c] = 0]
    /\ num_messages' = [num_messages EXCEPT ![c] = 0]
    /\ acked' = [acked EXCEPT ![c] = 0]
    /\ UNCHANGED <<pending, chat_stub_lock, made, servervars, dbs, faults, tasks>>

ThreadStep(c, h) == Answer(c, h) \/ FailOver(c, h)
ClientStep(c) == \/ \E h \in Threads : ThreadStep(c, h)
                 \/ Homepage(c) \/ ListUsers(c) \/ Poll(c)

-----------------------------------------------------------------------------
(***************************************************************************)
(* Servers crash and are started again.                                    *)
(***************************************************************************)

Crash(s) ==
    /\ up[s] /\ crashes < MaxCrashes
    /\ up' = [up EXCEPT ![s] = FALSE]
    /\ crashes' = crashes + 1
    /\ tasks' = [i \in Tasks |-> IF Server(i) = s THEN None ELSE tasks[i]]
    /\ UNCHANGED <<servervars, dbs, clientvars, restarts, timeouts>>

\* main: only server 0 starts as the leader, the counter starts from 0, the
\* database is what the file holds.
Restart(s) ==
    /\ ~up[s] /\ restarts < MaxRestarts
    /\ up' = [up EXCEPT ![s] = TRUE]
    /\ restarts' = restarts + 1
    /\ am_i_leader' = [am_i_leader EXCEPT ![s] = s = 0]
    /\ stubs' = [stubs EXCEPT ![s] = [v \in Services |-> Later(s)]]
    /\ counter' = [counter EXCEPT ![s] = 0]
    /\ last_request' = [last_request EXCEPT ![s] = None]
    /\ db' = [db EXCEPT ![s] = disk[s]]
    /\ UNCHANGED <<disk, tasks, clientvars, crashes, timeouts>>

RNext ==
    \/ \E i \in Tasks : TaskStep(i)
    \/ \E c \in Clients : ClientStep(c) \/ Leave(c) \/ \E h \in Threads : TimeOut(c, h)
    \/ \E c \in Clients, r \in Requests : Issue(c, r)
    \/ \E s \in Servers : Crash(s) \/ Restart(s)

\* A thread that can run does, and so does a client that has its answer or an
\* exception.  Nobody has to make a request, to crash or to be started again.
RSpec ==
    /\ RInit /\ [][RNext]_rvars
    /\ \A i \in Tasks : WF_rvars(TaskStep(i))
    /\ \A c \in Clients, h \in Threads : WF_rvars(ThreadStep(c, h))
    /\ \A c \in Clients : WF_rvars(Homepage(c)) /\ WF_rvars(ListUsers(c)) /\ WF_rvars(Poll(c))

-----------------------------------------------------------------------------
(***************************************************************************)
(* Properties.                                                             *)
(***************************************************************************)

\* Every variable has its type: what handlers make of requests stays a request,
\* and databases hold what was registered and sent.
RTypeOK ==
    /\ up \in [Servers -> BOOLEAN] /\ am_i_leader \in [Servers -> BOOLEAN]
    /\ stubs \in [Servers -> [Services -> SUBSET Servers]]
    /\ counter \in [Servers -> Nat]
    /\ last_request \in [Servers -> Requests \cup {None}]
    /\ db \in [Servers -> Database] /\ disk \in [Servers -> Database]
    /\ tasks \in [Tasks -> Task \cup {None}]
    /\ curr_leader \in [Clients -> 0..3]
    /\ pending \in [Clients -> [Threads -> [request : Asked, at : 0..3] \cup {None}]]
    /\ chat_stub_lock \in [Clients -> Threads \cup {None}]
    /\ username \in [Clients -> Names \cup {None}]
    /\ stage \in [Clients -> {"login", "home", "users", "chat"}]
    /\ num_messages \in [Clients -> Nat] /\ acked \in [Clients -> Nat]
    /\ made \in [Clients -> Nat] /\ crashes \in Nat /\ restarts \in Nat
    /\ timeouts \in Nat

Quiet == tasks = [i \in Tasks |-> None] /\ \A c \in Clients, h \in Threads : ~Waiting(c, h)

\* When nobody waits and nothing is being handled, the servers that are up hold
\* the same database: "the database files are maintained to have the same
\* message content" (chat262-replication/README.md:38).
ReplicasAgree == Quiet => \A s, t \in Servers : up[s] /\ up[t] => db[s] = db[t]

\* A server takes a request for one it has executed only when it has: the
\* numbers that leaders give out, the replay by a new leader included, never
\* make a server drop a request that it has not seen.
DropsOnlyRepetitions ==
    [][\A i \in Tasks :
          (\/ At(i, "begin") /\ ~tasks[i].is_client /\ ~am_i_leader[Server(i)]
           \/ At(i, "call") /\ Left(i) = {} /\ tasks[i].replay = None)
          /\ tasks[i].request.rpc \notin ReadOnly /\ Seen(i) /\ At(i, "done")'
          => Reflects(db[Server(i)], tasks[i].request)]_rvars

\* When a client has its answer, every server that is up has executed the
\* request: the crash of any two of them loses nothing that was acknowledged.
HeldEverywhere(request) == \A s \in Servers : up[s] => Reflects(db[s], request)
AcknowledgedEverywhere ==
    [][\A c \in Clients, h \in Threads :
          Answer(c, h) => HeldEverywhere(pending[c][h].request)]_rvars

\* server.py:108, "Don't do anything if we have seen this request before": a
\* server that tells a client of success without doing anything has done it
\* before.  It does not hold of a leader whose last call to a follower fails: the
\* request is left marked as not the client's, under a number that the leader's
\* counter may have reached with another request.
LeaderHasWhatItAcknowledges ==
    [][\A i \in Tasks :
          Len(i[2]) = 1 /\ Act(i) /\ tasks'[i].success
          => Reflects(db'[Server(i)], tasks[i].request)]_rvars

\* A client gives up ("All 3 servers have failed") only when they have, although
\* its two threads count through the servers with one number.
GivesUpRightly == \A c \in Clients : Gone(c) => \A s \in Servers : ~up[s]

\* However often the client has to change servers, no message that it has shown
\* is missing from the inbox it shows next, and none that was acknowledged to it.
InboxNeverShrinks ==
    [][\A c \in Clients, h \in Threads :
          Answer(c, h) /\ pending[c][h].request.rpc = "ReceiveMessage" =>
             num_messages'[c] >= num_messages[c] /\ num_messages'[c] >= acked[c]]_rvars

\* A message acknowledged to the client that it sent to itself comes up in the
\* inbox, unless the user leaves or all servers fail: the sending thread does
\* not keep the other from asking.
InboxCatchesUp ==
    \A c \in Clients :
        (num_messages[c] < acked[c]) ~> (num_messages[c] >= acked[c] \/ Gone(c))

\* What is on disk is what is in memory, except while it is being written: a
\* server that stops at any other moment starts again with all it had.
DiskIsCurrent ==
    \A s \in Servers :
        up[s] /\ (\A i \in Tasks : Server(i) = s => ~At(i, "store")) => disk[s] = db[s]

(***************************************************************************)
(* What makes the invariants above inductive.                              *)
(***************************************************************************)

StubsInv == \A s \in Servers, v \in Services : stubs[s][v] \subseteq Later(s)

\* Only servers that are up work, and only requests that change something are
\* replicated; the listening thread makes none.
TasksInv ==
    \A i \in Tasks : tasks[i] # None =>
       /\ up[Server(i)]
       /\ tasks[i].pc = "wait" => tasks[i].from \in Later(Server(i))
       /\ tasks[i].request.rpc \in ReadOnly => tasks[i].pc \in {"begin", "done"}
       /\ i[1][2] = "inbox" => tasks[i].request.rpc \in ReadOnly

\* The requests a thread can be waiting for.
Due(c, h) ==
    IF h = "inbox" THEN {"ReceiveMessage"}
    ELSE [login |-> {"Register", "DeleteAccount", "Login"}, home |-> {"ReceiveMessage"},
          users |-> {"GetUsers"}, chat |-> {"SendMessage"}][stage[c]]

\* A program with two threads has logged in, and holds the lock in the thread that
\* waits.  A server that a thread does not wait for works for it only if it was
\* left for a later one.
ProgramInv ==
    \A c \in Clients :
       /\ stage[c] # "login" => username[c] \in Names
       /\ \A h \in Threads :
             /\ pending[c][h] # None =>
                   /\ pending[c][h].at <= curr_leader[c]
                   /\ pending[c][h].request.rpc \in Due(c, h)
                   /\ h = "inbox" => stage[c] = "chat"
                   /\ stage[c] = "chat" => chat_stub_lock[c] = h
             /\ \A s \in Servers :
                   LET k == tasks[<<<<c, h>>, <<s>>>>]
                       p == pending[c][h]
                   IN  k # None => IF p # None /\ p.at = s THEN p.request = k.request
                                   ELSE s < curr_leader[c]

RInv == RTypeOK /\ StubsInv /\ TasksInv /\ ProgramInv

\* When servers fail by stopping and no answer comes late, a client leaves a
\* server only when it is down, and a live server works on what is asked of it.
LeftServersDown ==
    \A c \in Clients :
       /\ \A s \in Servers : s < curr_leader[c] => ~up[s]
       /\ \A h \in Threads : Waiting(c, h) =>
             /\ pending[c][h].at = curr_leader[c]
             /\ up[curr_leader[c]] => tasks[Awaited(c, h)] # None

\* A thread that waits gets an answer, or finds that all servers have failed.
EveryRequestAnswered == \A c \in Clients, h \in Threads : Waiting(c, h) ~> ~Waiting(c, h)
=============================================================================
