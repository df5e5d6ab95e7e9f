------------------------------ MODULE OneServer ------------------------------
(***************************************************************************)
(* What a user of the replicated servers is promised: a single server with *)
(* a single database.  It executes a request that somebody waits for, and  *)
(* may do so more than once, because a client that finds its server gone   *)
(* asks the next one again (send_request, chat262-replication/client.py).  *)
(* It answers when it has executed the request, and its answers tell what  *)
(* is in the database at that moment.  It may fail, but then for good.     *)
(***************************************************************************)
EXTENDS ChatData

VARIABLES
    database,     \* the database; None when the service has failed
    asked,        \* per client and thread: the request that waits for an answer
    username,     \* per client: who is logged in
    num_messages  \* per client: the messages in the inbox it shows

ovars == <<database, asked, username, num_messages>>

OInit ==
    /\ database = EmptyDb
    /\ asked = [c \in Clients |-> [h \in Threads |-> None]]
    /\ username = [c \in Clients |-> None]
    /\ num_messages = [c \in Clients |-> 0]

\* A client waits for one thing at a time; it sends and asks in its own name.
Ask(c, h, r) ==
    /\ \A g \in Threads : asked[c][g] = None
    /\ r.rpc = "SendMessage" => r.sender = username[c]
    /\ r.rpc = "ReceiveMessage" => r.username = username[c]
    /\ asked' = [asked EXCEPT ![c][h] = r]
    /\ UNCHANGED <<database, username, num_messages>>

Execute(c, h) ==
    /\ database # None /\ asked[c][h] # None
    /\ database' = Executed(database, asked[c][h])
    /\ UNCHANGED <<asked, username, num_messages>>

\* One logs in under a password that the database has, and a login fails only under
\* another.  A registration may be reported to fail although its first execution
\* succeeded.
Enter(c, r) ==
    \/ /\ r.rpc \in {"Register", "Login"}
       /\ database.passwords[r.username] = r.password
       /\ username' = [username EXCEPT ![c] = r.username]
    \/ /\ r.rpc = "Login" => ~Accepts(database, r)
       /\ UNCHANGED username

Answer(c, h) ==
    LET r == asked[c][h] IN
    /\ database # None /\ r # None /\ Reflects(database, r)
    /\ asked' = [asked EXCEPT ![c][h] = None]
    /\ Enter(c, r)
    /\ num_messages' = IF r.rpc = "ReceiveMessage"
                       THEN [num_messages EXCEPT ![c] = Len(database.messages[r.username])]
                       ELSE num_messages
    /\ UNCHANGED database

Leave(c) ==
    /\ \A h \in Threads : asked[c][h] = None
    /\ username' = [username EXCEPT ![c] = None]
    /\ num_messages' = [num_messages EXCEPT ![c] = 0]
    /\ UNCHANGED <<database, asked>>

\* All replicas are down.
Fail == database' = None /\ UNCHANGED <<asked, username, num_messages>>

ONext ==
    \/ \E c \in Clients, h \in Threads : Execute(c, h) \/ Answer(c, h)
    \/ \E c \in Clients, h \in Threads, r \in Asked : Ask(c, h, r)
    \/ \E c \in Clients : Leave(c)
    \/ Fail

OSpec == OInit /\ [][ONext]_ovars
=============================================================================
