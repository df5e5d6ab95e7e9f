------------------------- MODULE ReplicationProofs -------------------------
(***************************************************************************)
(* What is proved of Replication for every set of clients, names, passwords*)
(* and bodies, and for every number of requests, crashes, restarts and late*)
(* answers.                                                                *)
(***************************************************************************)
EXTENDS Replication, SequenceTheorems, TLAPS

-----------------------------------------------------------------------------
(***************************************************************************)
(* Names of tasks.                                                         *)
(***************************************************************************)

\* What Append makes of a sequence.
LEMMA AppendFacts ==
    ASSUME NEW S, NEW p \in Seq(S), NEW e \in S
    PROVE  /\ Append(p, e) \in Seq(S) /\ Len(Append(p, e)) = Len(p) + 1
           /\ \A n \in 1 .. Len(p) : Append(p, e)[n] = p[n]
           /\ Append(p, e)[Len(p) + 1] = e
OBVIOUS

\* One more element after one, and after two.
LEMMA AppendToOne ==
    ASSUME NEW a \in Servers, NEW b \in Servers
    PROVE  Append(<<a>>, b) = <<a, b>>
<1> DEFINE p == <<a>>
           q == <<a, b>>
<1>1. p \in Seq(Servers)
  OBVIOUS
<1>2. Len(p) = 1 /\ p[1] = a
  OBVIOUS
<1>3. q \in Seq(Servers)
  OBVIOUS
<1>4. Len(q) = 2 /\ q[1] = a /\ q[2] = b
  OBVIOUS
<1> HIDE DEF p, q
<1>5. /\ Append(p, b) \in Seq(Servers) /\ Len(Append(p, b)) = Len(p) + 1
      /\ \A n \in 1 .. Len(p) : Append(p, b)[n] = p[n]
      /\ Append(p, b)[Len(p) + 1] = b
  BY <1>1, AppendFacts
<1>6. Len(Append(p, b)) = 2 /\ \A n \in 1 .. 2 : Append(p, b)[n] = q[n]
  BY <1>2, <1>4, <1>5
<1>7. Append(p, b) = q
  BY <1>3, <1>4, <1>5, <1>6, SeqEqual
<1> QED
  BY <1>7 DEF p, q

LEMMA AppendToTwo ==
    ASSUME NEW a \in Servers, NEW b \in Servers, NEW c \in Servers
    PROVE  Append(<<a, b>>, c) = <<a, b, c>>
<1> DEFINE p == <<a, b>>
           q == <<a, b, c>>
<1>1. p \in Seq(Servers)
  OBVIOUS
<1>2. Len(p) = 2 /\ p[1] = a /\ p[2] = b
  OBVIOUS
<1>3. q \in Seq(Servers)
  OBVIOUS
<1>4. Len(q) = 3 /\ q[1] = a /\ q[2] = b /\ q[3] = c
  OBVIOUS
<1> HIDE DEF p, q
<1>5. /\ Append(p, c) \in Seq(Servers) /\ Len(Append(p, c)) = Len(p) + 1
      /\ \A n \in 1 .. Len(p) : Append(p, c)[n] = p[n]
      /\ Append(p, c)[Len(p) + 1] = c
  BY <1>1, AppendFacts
<1>6. Len(Append(p, c)) = 3 /\ \A n \in 1 .. 3 : Append(p, c)[n] = q[n]
  BY <1>2, <1>4, <1>5
<1>7. Append(p, c) = q
  BY <1>3, <1>4, <1>5, <1>6, SeqEqual
<1> QED
  BY <1>7 DEF p, q

\* A path ends at a server, and grows by any later one.
LEMMA PathFacts ==
    ASSUME NEW p \in Paths
    PROVE  /\ p \in Seq(Servers) /\ Len(p) \in 1 .. 3 /\ p[Len(p)] \in Servers
           /\ \A t \in Later(p[Len(p)]) :
                 /\ Append(p, t) \in Paths /\ Len(Append(p, t)) = Len(p) + 1
                 /\ Append(p, t)[Len(Append(p, t))] = t
<1>1. /\ p \in Seq(Servers) /\ Len(p) \in 1 .. 3 /\ p[Len(p)] \in Servers
      /\ p[Len(p)] = 0 => p = <<0>>
      /\ p[Len(p)] = 1 => p \in {<<1>>, <<0, 1>>}
  <2>1. CASE p = <<0>>
    BY <2>1 DEF Servers
  <2>2. CASE p = <<1>>
    BY <2>2 DEF Servers
  <2>3. CASE p = <<2>>
    BY <2>3 DEF Servers
  <2>4. CASE p = <<0, 1>>
    BY <2>4 DEF Servers
  <2>5. CASE p = <<0, 2>>
    BY <2>5 DEF Servers
  <2>6. CASE p = <<1, 2>>
    BY <2>6 DEF Servers
  <2>7. CASE p = <<0, 1, 2>>
    BY <2>7 DEF Servers
  <2> QED
    BY <2>1, <2>2, <2>3, <2>4, <2>5, <2>6, <2>7 DEF Paths
<1>2. ASSUME NEW t \in Later(p[Len(p)])
      PROVE  Append(p, t) \in Paths
  <2>1. t \in {1, 2} /\ p[Len(p)] \in {0, 1} /\ t > p[Len(p)]
    BY <1>1 DEF Later, Servers
  <2>2. CASE p = <<0>>
    <3>1. Append(<<0>>, t) = <<0, t>>
      BY <2>1, AppendToOne DEF Servers
    <3> QED
      BY <2>1, <2>2, <3>1 DEF Paths
  <2>3. CASE p = <<1>> /\ t = 2
    <3>1. Append(<<1>>, 2) = <<1, 2>>
      BY AppendToOne DEF Servers
    <3> QED
      BY <2>3, <3>1 DEF Paths
  <2>4. CASE p = <<0, 1>> /\ t = 2
    <3>1. Append(<<0, 1>>, 2) = <<0, 1, 2>>
      BY AppendToTwo DEF Servers
    <3> QED
      BY <2>4, <3>1 DEF Paths
  <2>5. p[Len(p)] = 1 => t = 2
    BY <2>1
  <2> QED
    BY <1>1, <2>1, <2>2, <2>3, <2>4, <2>5
<1>3. ASSUME NEW t \in Later(p[Len(p)])
      PROVE  Len(Append(p, t)) = Len(p) + 1 /\ Append(p, t)[Len(Append(p, t))] = t
  BY <1>1 DEF Later
<1> QED
  BY <1>1, <1>2, <1>3

\* A task is a client's thread and a path; that of the listening thread has one
\* server.
LEMMA TaskName ==
    ASSUME NEW i \in Tasks
    PROVE  /\ Server(i) \in Servers /\ Len(i[2]) \in 1 .. 3 /\ i[2] \in Paths
           /\ i[1] \in Clients \X Threads /\ i = <<i[1], i[2]>>
           /\ i[1][1] \in Clients /\ i[1][2] \in Threads
           /\ i[1][2] = "inbox" => Len(i[2]) = 1
<1>1. i[2] \in Paths /\ i[1] \in Clients \X Threads /\ i = <<i[1], i[2]>>
  BY DEF Tasks, Paths, Threads
<1>2. i[1][2] = "inbox" => Len(i[2]) = 1
  BY DEF Tasks
<1> QED
  BY <1>1, <1>2, PathFacts DEF Server

\* What a server asks of a later one is a task of that server, with a longer path.
LEMMA CalleeName ==
    ASSUME NEW i \in Tasks, i[1][2] = "main", NEW t \in Later(Server(i))
    PROVE  /\ Callee(i, t) \in Tasks /\ Callee(i, t) # i
           /\ Server(Callee(i, t)) = t /\ t \in Servers
           /\ Callee(i, t)[1] = i[1] /\ Len(Callee(i, t)[2]) = Len(i[2]) + 1
           /\ Len(Callee(i, t)[2]) # 1
<1> DEFINE q == Append(i[2], t)
<1>1. q \in Paths /\ Len(q) = Len(i[2]) + 1
  BY TaskName, PathFacts DEF Server
<1>2. q[Len(q)] = t
  BY TaskName, PathFacts DEF Server
<1>3. Callee(i, t)[2] = q /\ Callee(i, t)[1] = i[1]
  BY DEF Callee
<1>4. Callee(i, t) \in Tasks
  <2>1. i[1] \in Clients \X {"main"}
    BY TaskName
  <2>2. q \in Paths
    BY <1>1
  <2> HIDE DEF q
  <2>3. <<i[1], q>> \in (Clients \X {"main"}) \X Paths
    BY <2>1, <2>2
  <2> QED
    BY <2>3 DEF Tasks, Callee, q
<1>5. Len(i[2]) \in 1 .. 3 /\ Len(q) = Len(i[2]) + 1
  BY <1>1, TaskName
<1> HIDE DEF q
<1>6. Len(q) # 1 /\ Len(q) # Len(i[2])
  <2>1. \A n \in 1 .. 3 : n + 1 # 1 /\ n + 1 # n
    OBVIOUS
  <2> QED
    BY <1>5, <2>1, Zenon
<1> QED
  BY <1>1, <1>2, <1>3, <1>4, <1>6 DEF Server, Later

\* The handler of a client's request, at the server it was sent to.
LEMMA AwaitedName ==
    ASSUME NEW c \in Clients, NEW h \in Threads, NEW s \in Servers
    PROVE  /\ <<<<c, h>>, <<s>>>> \in Tasks
           /\ Server(<<<<c, h>>, <<s>>>>) = s /\ Len(<<s>>) = 1
<1>1. <<s>> \in {<<0>>, <<1>>, <<2>>} /\ <<s>> \in Paths
  BY DEF Servers, Paths
<1>2. <<<<c, h>>, <<s>>>> \in Tasks
  BY <1>1 DEF Tasks, Threads
<1> QED
  BY <1>2 DEF Server

\* A task whose path has one server is of that form.
LEMMA FirstServer ==
    ASSUME NEW i \in Tasks, Len(i[2]) = 1
    PROVE  i = <<<<i[1][1], i[1][2]>>, <<Server(i)>>>>
<1>1. i[2] \in Seq(Servers) /\ i[2] = <<i[2][1]>>
  <2>1. i[2] \in Seq(Servers)
    BY TaskName, PathFacts
  <2> QED
    BY <2>1
<1> QED
  BY <1>1, TaskName DEF Server

-----------------------------------------------------------------------------
(***************************************************************************)
(* Requests and databases.                                                 *)
(***************************************************************************)

\* A database accepts a request or does not.
LEMMA AcceptsBoolean ==
    ASSUME NEW d, NEW r
    PROVE  Accepts(d, r) \in BOOLEAN
BY DEF Accepts

\* What is asked and changes something is a request of a user.
LEMMA AskedChange ==
    ASSUME NEW r \in Asked, r.rpc \notin ReadOnly
    PROVE  r \in Requests /\ r.rpc \in {"Register", "DeleteAccount", "SendMessage"}
BY RequestsAssumption DEF Asked, ReadOnly, ReceiveMessage, GetUsers, Credentials, Sendings

\* Executing a request leaves a database, and the same one when it is not accepted.
LEMMA ExecutedType ==
    ASSUME NEW d \in Database, NEW r \in Requests, r.rpc \notin ReadOnly
    PROVE  /\ Executed(d, r) \in Database
           /\ ~Accepts(d, r) => Executed(d, r) = d
<1>1. CASE ~Accepts(d, r)
  BY <1>1 DEF Executed
<1>2. CASE Accepts(d, r) /\ r.rpc = "Register"
  <2>1. r.username \in Names /\ r.password \in Passwords
    BY <1>2, RequestsAssumption DEF Credentials, Sendings
  <2>2. Executed(d, r) = [d EXCEPT !.passwords[r.username] = r.password]
    BY <1>2 DEF Executed, ReadOnly
  <2> QED
    BY <1>2, <2>1, <2>2 DEF Database
<1>3. CASE Accepts(d, r) /\ r.rpc = "DeleteAccount"
  <2>1. r.username \in Names
    BY <1>3, RequestsAssumption DEF Credentials, Sendings
  <2>2. Executed(d, r) = [d EXCEPT !.passwords[r.username] = Absent]
    BY <1>3 DEF Executed, ReadOnly
  <2> QED
    BY <1>3, <2>1, <2>2 DEF Database
<1>4. CASE Accepts(d, r) /\ r.rpc = "SendMessage"
  <2> DEFINE m == [sender |-> r.sender, body |-> r.body]
  <2>1. r.receiver \in Names /\ m \in Message
    BY <1>4, RequestsAssumption DEF Credentials, Sendings, Message
  <2>2. Executed(d, r) = [d EXCEPT !.messages[r.receiver] = Append(@, m)]
    BY <1>4 DEF Executed, ReadOnly
  <2>3. Append(d.messages[r.receiver], m) \in Seq(Message)
    BY <2>1, AppendFacts DEF Database
  <2> HIDE DEF m
  <2> QED
    BY <1>4, <2>1, <2>2, <2>3 DEF Database
<1> QED
  BY <1>1, <1>2, <1>3, <1>4, RequestsAssumption DEF Credentials, Sendings, ReadOnly

\* A handler that begins is a task, and no task is None.
LEMMA NewTaskType ==
    ASSUME NEW r \in Asked, NEW b \in BOOLEAN, NEW n \in Nat
    PROVE  /\ NewTask(r, b, n) \in Task /\ NewTask(r, b, n) # None
           /\ NewTask(r, b, n).pc = "begin" /\ NewTask(r, b, n).request = r
<1>1. NewTask(r, b, n) \in Task
  BY DEF NewTask, Task
<1> QED
  BY <1>1, NoTaskAssumption DEF NewTask

\* The stub whose turn it is is one of a later server.
LEMMA TargetLater ==
    ASSUME RTypeOK, StubsInv, NEW i \in Tasks, tasks[i] # None, Left(i) # {}
    PROVE  Target(i) \in Later(Server(i))
<1>1. Replicated(tasks[i]) \in Asked
  BY DEF Replicated, RTypeOK, Task, Asked
<1>2. Service(Replicated(tasks[i])) \in Services
  BY DEF Service, Services
<1>3. Left(i) \subseteq Later(Server(i))
  BY <1>2, TaskName DEF Left, StubsInv
<1>4. \E t \in Left(i) : \A u \in Left(i) : t <= u
  BY <1>3 DEF Later, Servers
<1>5. Target(i) \in Left(i)
  BY <1>4 DEF Target
<1> QED
  BY <1>3, <1>5

-----------------------------------------------------------------------------
(***************************************************************************)
(* The inductive invariant RInv: steps of the handlers.                    *)
(***************************************************************************)

\* The servers and the clients start in RInv.
LEMMA InitInv == RInit => RInv
<1> SUFFICES ASSUME RInit PROVE RInv
  OBVIOUS
<1>1. EmptyDb \in Database
  <2>1. <<>> \in Seq(Message)
    BY EmptySeq
  <2> QED
    BY <2>1 DEF EmptyDb, Database
<1>2. RTypeOK
  BY <1>1 DEF RInit, RTypeOK, Later
<1>3. StubsInv
  BY DEF RInit, StubsInv
<1>4. TasksInv
  BY DEF RInit, TasksInv
<1>5. ProgramInv
  BY AwaitedName DEF RInit, ProgramInv
<1> QED
  BY <1>2, <1>3, <1>4, <1>5 DEF RInv

\* A step of the handlers keeps what the invariant says of them and of the programs
\* when it starts no handler of a client's request and changes no request.
LEMMA TasksChange ==
    ASSUME RInv, UNCHANGED <<up, clientvars>>, tasks' \in [Tasks -> Task \cup {None}],
           \A j \in Tasks : tasks'[j] # None /\ tasks'[j] # tasks[j] =>
              /\ up[Server(j)]
              /\ tasks'[j].pc = "wait" => tasks'[j].from \in Later(Server(j))
              /\ tasks'[j].request.rpc \in ReadOnly => tasks'[j].pc \in {"begin", "done"}
              /\ j[1][2] = "inbox" => tasks'[j].request.rpc \in ReadOnly
              /\ Len(j[2]) = 1 => /\ tasks[j] # None
                                  /\ tasks'[j].request = tasks[j].request
    PROVE  TasksInv' /\ ProgramInv'
<1>1. TasksInv'
  BY DEF RInv, TasksInv
<1>2. ASSUME NEW c \in Clients, NEW h \in Threads, NEW s \in Servers,
             tasks'[<<<<c, h>>, <<s>>>>] # None
      PROVE  /\ tasks[<<<<c, h>>, <<s>>>>] # None
             /\ tasks'[<<<<c, h>>, <<s>>>>].request = tasks[<<<<c, h>>, <<s>>>>].request
  BY <1>2, AwaitedName
<1>3. ProgramInv'
  BY <1>2 DEF RInv, ProgramInv, Due, clientvars, session
<1> QED
  BY <1>1, <1>3

\* It does when it changes one handler, whose request stays what it is.
LEMMA OneTask ==
    ASSUME RInv, UNCHANGED <<up, clientvars>>,
           NEW i \in Tasks, tasks[i] # None, NEW k \in Task \cup {None},
           tasks' = [tasks EXCEPT ![i] = k],
           k # None => /\ k.request = tasks[i].request
                       /\ k.pc = "wait" => k.from \in Later(Server(i))
                       /\ k.request.rpc \in ReadOnly => k.pc \in {"begin", "done"}
    PROVE  /\ tasks' \in [Tasks -> Task \cup {None}] /\ TasksInv' /\ ProgramInv'
           /\ tasks'[i] = k
<1>1. /\ tasks' \in [Tasks -> Task \cup {None}] /\ tasks'[i] = k
      /\ \A j \in Tasks \ {i} : tasks'[j] = tasks[j]
  BY DEF RInv, RTypeOK
<1>2. /\ up[Server(i)]
      /\ i[1][2] = "inbox" => tasks[i].request.rpc \in ReadOnly
  BY DEF RInv, TasksInv
<1> QED
  BY <1>1, <1>2, TasksChange

\* Read keeps the invariant.
LEMMA ReadInv ==
    ASSUME RInv, NEW i \in Tasks, Read(i)
    PROVE  RInv' /\ tasks'[i] # None
<1> DEFINE d == db[Server(i)]
           r == tasks[i].request
           k == [tasks[i] EXCEPT !.pc = "done", !.success = r.rpc # "Login" \/ Accepts(d, r),
                                 !.chats = IF r.rpc = "ReceiveMessage"
                                           THEN Len(d.messages[r.username]) ELSE 0]
<1>1. tasks[i] \in Task /\ tasks[i] # None /\ r \in Asked /\ d \in Database
  BY TaskName DEF Read, At, RInv, RTypeOK, Task
<1>2. r.rpc = "ReceiveMessage" => Len(d.messages[r.username]) \in Nat
  <2>1. r.rpc = "ReceiveMessage" => r.username \in Names
    BY <1>1, RequestsAssumption DEF Asked, Credentials, Sendings, ReceiveMessage, GetUsers
  <2> QED
    BY <1>1, <2>1 DEF Database
<1>3. (r.rpc # "Login" \/ Accepts(d, r)) \in BOOLEAN
  OBVIOUS
<1>4. k \in Task /\ k.request = r /\ k.pc = "done"
  BY <1>1, <1>2, <1>3 DEF Task
<1>5. tasks' = [tasks EXCEPT ![i] = k]
  BY DEF Read
<1>6. UNCHANGED <<servervars, dbs, clientvars, faults>>
  BY DEF Read
<1> HIDE DEF k
<1>7. /\ tasks' \in [Tasks -> Task \cup {None}] /\ TasksInv' /\ ProgramInv'
      /\ tasks'[i] # None
  BY <1>1, <1>4, <1>5, <1>6, OneTask, NoTaskAssumption DEF faults
<1> QED
  BY <1>6, <1>7 DEF RInv, RTypeOK, StubsInv, servervars, dbs, clientvars, session, faults

\* A handler in the loop over the stubs serves a request that changes something,
\* from the program's main thread.
LEMMA InLoop ==
    ASSUME RInv, NEW i \in Tasks, At(i, "call") \/ At(i, "wait")
    PROVE  /\ tasks[i] \in Task /\ tasks[i] # None /\ up[Server(i)]
           /\ tasks[i].request \in Requests /\ tasks[i].request.rpc \notin ReadOnly
           /\ i[1][2] = "main" /\ Replicated(tasks[i]) \in Requests
<1>1. tasks[i] \in Task /\ tasks[i] # None /\ up[Server(i)] /\ tasks[i].request \in Asked
  BY DEF At, RInv, RTypeOK, TasksInv, Task
<1>2. tasks[i].request.rpc \notin ReadOnly
  BY <1>1 DEF At, RInv, TasksInv
<1>3. i[1][2] = "main"
  BY <1>1, <1>2, TaskName DEF RInv, TasksInv, Threads
<1> QED
  BY <1>1, <1>2, <1>3, AskedChange DEF Replicated, Task

\* Lead keeps the invariant.
LEMMA LeadInv ==
    ASSUME RInv, NEW i \in Tasks, Lead(i)
    PROVE  RInv' /\ tasks'[i] # None
<1> DEFINE s == Server(i)
           k == [tasks[i] EXCEPT !.pc = "call", !.from = s + 1,
                                 !.replay = IF am_i_leader[s] THEN None ELSE last_request[s]]
<1>1. tasks[i] \in Task /\ tasks[i] # None /\ s \in Servers
  BY TaskName DEF Lead, At, RInv, RTypeOK
<1>2. s + 1 \in 0 .. 3 /\ last_request[s] \in Requests \cup {None}
  BY <1>1 DEF RInv, RTypeOK, Servers
<1>3. k \in Task /\ k.request = tasks[i].request /\ k.pc = "call"
  BY <1>1, <1>2 DEF Task
<1>4. /\ tasks' = [tasks EXCEPT ![i] = k] /\ tasks[i].request.rpc \notin ReadOnly
      /\ am_i_leader' = [am_i_leader EXCEPT ![s] = TRUE]
      /\ UNCHANGED <<stubs, counter, last_request, dbs, clientvars, faults>>
  BY DEF Lead
<1> HIDE DEF k
<1>5. /\ tasks' \in [Tasks -> Task \cup {None}] /\ TasksInv' /\ ProgramInv'
      /\ tasks'[i] # None
  BY <1>1, <1>3, <1>4, OneTask, NoTaskAssumption DEF faults
<1> QED
  BY <1>4, <1>5 DEF RInv, RTypeOK, StubsInv, dbs, clientvars, session, faults

\* Call keeps the invariant: what it starts is a handler of a server that is up.
LEMMA CallInv ==
    ASSUME RInv, NEW i \in Tasks, Call(i)
    PROVE  RInv' /\ tasks'[i] # None
<1> DEFINE s == Server(i)
           t == Target(i)
           k == tasks[i]
           j == Callee(i, t)
           sender == [k EXCEPT !.pc = "wait", !.from = t,
                               !.is_client = k.replay # None /\ k.is_client,
                               !.counter = IF k.replay = None THEN counter[s] + 1 ELSE @]
           callee == IF up[t] THEN NewTask(Replicated(k), FALSE, counter[s] + 1) ELSE None
<1>1. /\ k \in Task /\ k # None /\ up[s] /\ k.request.rpc \notin ReadOnly
      /\ i[1][2] = "main" /\ Replicated(k) \in Requests
  BY InLoop DEF Call
<1>2. t \in Later(s) /\ t \in Servers /\ s \in Servers
  BY <1>1, TargetLater, TaskName DEF Call, RInv, Later
<1>3. /\ j \in Tasks /\ j # i /\ Server(j) = t /\ Len(j[2]) # 1 /\ j[1] = i[1]
  BY <1>1, <1>2, CalleeName
<1>4. counter[s] + 1 \in Nat /\ t \in 0 .. 3
  BY <1>2 DEF RInv, RTypeOK, Servers
<1>5. sender \in Task /\ sender.request = k.request /\ sender.pc = "wait" /\ sender.from = t
  BY <1>1, <1>4 DEF Task
<1>6. /\ callee \in Task \cup {None}
      /\ callee # None => up[t] /\ callee.pc = "begin"
  BY <1>1, <1>4, NewTaskType DEF Asked
<1>7. /\ tasks' = [tasks EXCEPT ![i] = sender, ![j] = callee]
      /\ UNCHANGED <<servervars, dbs, clientvars, faults>>
  BY DEF Call
<1> HIDE DEF sender, callee, j
<1>8. /\ tasks' \in [Tasks -> Task \cup {None}] /\ tasks'[i] = sender /\ tasks'[j] = callee
      /\ \A l \in Tasks \ {i, j} : tasks'[l] = tasks[l]
  BY <1>3, <1>5, <1>6, <1>7 DEF RInv, RTypeOK
<1>9. i[1][2] # "inbox" /\ j[1][2] # "inbox"
  BY <1>1, <1>3
<1>10. TasksInv' /\ ProgramInv'
  BY <1>1, <1>2, <1>3, <1>5, <1>6, <1>7, <1>8, <1>9, TasksChange DEF faults
<1>11. tasks'[i] # None
  BY <1>5, <1>8, NoTaskAssumption
<1> QED
  BY <1>7, <1>8, <1>10, <1>11 DEF RInv, RTypeOK, StubsInv, servervars, dbs, clientvars, session, faults

\* What a handler that waits is told from.
LEMMA InWait ==
    ASSUME RInv, NEW i \in Tasks, At(i, "wait")
    PROVE  /\ tasks[i].from \in Later(Server(i)) /\ tasks[i].from + 1 \in 0 .. 3
           /\ Callee(i, tasks[i].from) \in Tasks /\ Callee(i, tasks[i].from) # i
           /\ Len(Callee(i, tasks[i].from)[2]) # 1
           /\ Server(Callee(i, tasks[i].from)) = tasks[i].from
<1>1. tasks[i].from \in Later(Server(i)) /\ i[1][2] = "main"
  BY InLoop DEF At, RInv, TasksInv
<1>2. tasks[i].from + 1 \in 0 .. 3
  BY <1>1 DEF Later, Servers
<1> QED
  BY <1>1, <1>2, CalleeName

\* Returned keeps the invariant.
LEMMA ReturnedInv ==
    ASSUME RInv, NEW i \in Tasks, Returned(i)
    PROVE  RInv' /\ tasks'[i] # None
<1> DEFINE s == Server(i)
           t == tasks[i].from
           j == Callee(i, t)
           k == [tasks[i] EXCEPT !.pc = "call", !.from = t + 1,
                                 !.is_client = tasks[i].replay = None \/ tasks[i].is_client]
<1>1. /\ tasks[i] \in Task /\ tasks[i] # None /\ up[s] /\ i[1][2] = "main"
      /\ tasks[i].request.rpc \notin ReadOnly
  BY InLoop DEF Returned
<1>2. /\ t + 1 \in 0 .. 3 /\ j \in Tasks /\ j # i
  BY InWait DEF Returned
<1>3. k \in Task /\ k.request = tasks[i].request /\ k.pc = "call"
  BY <1>1, <1>2 DEF Task
<1>4. /\ tasks' = [tasks EXCEPT ![i] = k, ![j] = None]
      /\ counter' = [counter EXCEPT ![s] = @ + 1]
      /\ UNCHANGED <<am_i_leader, stubs, last_request, dbs, clientvars, faults>>
  BY DEF Returned
<1> HIDE DEF k, j
<1>5. /\ tasks' \in [Tasks -> Task \cup {None}] /\ tasks'[i] = k /\ tasks'[j] = None
      /\ \A l \in Tasks \ {i, j} : tasks'[l] = tasks[l]
  BY <1>2, <1>3, <1>4 DEF RInv, RTypeOK
<1>6. TasksInv' /\ ProgramInv'
  BY <1>1, <1>3, <1>4, <1>5, TasksChange DEF faults
<1>7. counter' \in [Servers -> Nat]
  BY <1>4, TaskName DEF RInv, RTypeOK
<1>8. tasks'[i] # None
  BY <1>3, <1>5, NoTaskAssumption
<1> QED
  BY <1>4, <1>5, <1>6, <1>7, <1>8
     DEF RInv, RTypeOK, StubsInv, dbs, clientvars, session, faults

\* Failed keeps the invariant.
LEMMA FailedInv ==
    ASSUME RInv, NEW i \in Tasks, Failed(i)
    PROVE  RInv' /\ tasks'[i] # None
<1> DEFINE s == Server(i)
           t == tasks[i].from
           v == Service(Replicated(tasks[i]))
           k == [tasks[i] EXCEPT !.pc = "call", !.from = t + 1]
<1>1. /\ tasks[i] \in Task /\ tasks[i] # None /\ tasks[i].request.rpc \notin ReadOnly
  BY InLoop DEF Failed
<1>2. t + 1 \in 0 .. 3 /\ s \in Servers /\ v \in Services
  BY InWait, TaskName DEF Failed, Service, Services
<1>3. k \in Task /\ k.request = tasks[i].request /\ k.pc = "call"
  BY <1>1, <1>2 DEF Task
<1>4. /\ tasks' = [tasks EXCEPT ![i] = k]
      /\ stubs' = [stubs EXCEPT ![s][v] = @ \ {t}]
      /\ UNCHANGED <<am_i_leader, counter, last_request, dbs, clientvars, faults>>
  BY DEF Failed
<1> HIDE DEF k
<1>5. /\ tasks' \in [Tasks -> Task \cup {None}] /\ TasksInv' /\ ProgramInv'
      /\ tasks'[i] # None
  BY <1>1, <1>3, <1>4, OneTask, NoTaskAssumption DEF faults
<1>6. stubs' \in [Servers -> [Services -> SUBSET Servers]] /\ StubsInv'
  BY <1>2, <1>4 DEF RInv, RTypeOK, StubsInv
<1> QED
  BY <1>4, <1>5, <1>6 DEF RInv, RTypeOK, dbs, clientvars, session, faults

\* EndReplay keeps the invariant.
LEMMA EndReplayInv ==
    ASSUME RInv, NEW i \in Tasks, EndReplay(i)
    PROVE  RInv' /\ tasks'[i] # None
<1> DEFINE k == [tasks[i] EXCEPT !.replay = None, !.from = Server(i) + 1]
<1>1. /\ tasks[i] \in Task /\ tasks[i] # None /\ tasks[i].request.rpc \notin ReadOnly
      /\ tasks[i].pc = "call"
  BY InLoop DEF EndReplay, At
<1>2. Server(i) + 1 \in 0 .. 3
  BY TaskName DEF Servers
<1>3. k \in Task /\ k.request = tasks[i].request /\ k.pc = "call"
  BY <1>1, <1>2 DEF Task
<1>4. /\ tasks' = [tasks EXCEPT ![i] = k]
      /\ UNCHANGED <<servervars, dbs, clientvars, faults>>
  BY DEF EndReplay
<1> HIDE DEF k
<1>5. /\ tasks' \in [Tasks -> Task \cup {None}] /\ TasksInv' /\ ProgramInv'
      /\ tasks'[i] # None
  BY <1>1, <1>3, <1>4, OneTask, NoTaskAssumption DEF faults
<1> QED
  BY <1>4, <1>5 DEF RInv, RTypeOK, StubsInv, servervars, dbs, clientvars, session, faults

\* What comes after replicate keeps the invariant: the request is taken for executed,
\* or executed.
LEMMA ExecuteInv ==
    ASSUME RInv, NEW i \in Tasks, tasks[i] # None, tasks[i].request.rpc \notin ReadOnly,
           Discard(i) \/ Perform(i),
           UNCHANGED <<am_i_leader, stubs, clientvars, faults>>,
           last_request' \in [Servers -> Requests \cup {None}]
    PROVE  RInv' /\ tasks'[i] # None
<1> DEFINE s == Server(i)
           r == tasks[i].request
           accepted == Accepts(db[s], r)
           discarded == [tasks[i] EXCEPT !.pc = "done", !.success = TRUE]
           performed == [tasks[i] EXCEPT !.pc = IF accepted THEN "store" ELSE "done",
                                         !.success = accepted]
<1>1. tasks[i] \in Task /\ r \in Requests /\ s \in Servers /\ tasks[i].counter \in Nat
  <2>1. tasks[i] \in Task /\ s \in Servers
    BY TaskName DEF RInv, RTypeOK
  <2> QED
    BY <2>1, AskedChange DEF Task
<1>2. /\ discarded \in Task /\ discarded.request = r
      /\ discarded.pc = "done"
  BY <1>1 DEF Task
<1>3. accepted \in BOOLEAN
  BY AcceptsBoolean
<1> HIDE DEF accepted
<1>4. /\ performed \in Task /\ performed.request = r
      /\ performed.pc # "wait"
  BY <1>1, <1>3 DEF Task
<1>5. /\ tasks' \in [Tasks -> Task \cup {None}] /\ TasksInv' /\ ProgramInv'
      /\ tasks'[i] # None
  <2>1. CASE Discard(i)
    <3>1. tasks' = [tasks EXCEPT ![i] = discarded]
      BY <2>1 DEF Discard
    <3> HIDE DEF discarded
    <3> QED
      BY <1>2, <3>1, OneTask, NoTaskAssumption DEF faults
  <2>2. CASE Perform(i)
    <3>1. tasks' = [tasks EXCEPT ![i] = performed]
      BY <2>2 DEF Perform, accepted
    <3> HIDE DEF performed
    <3> QED
      BY <1>4, <3>1, OneTask, NoTaskAssumption DEF faults
  <2> QED
    BY <2>1, <2>2
<1>6. counter' \in [Servers -> Nat]
  BY <1>1 DEF Discard, Perform, RInv, RTypeOK
<1>7. db' \in [Servers -> Database] /\ disk' \in [Servers -> Database]
  <2>1. EmptyDb \in Database
    BY EmptySeq DEF EmptyDb, Database
  <2>2. Executed(db[s], r) \in Database
    BY <1>1, ExecutedType DEF RInv, RTypeOK
  <2>3. CASE Discard(i)
    BY <2>3 DEF Discard, dbs, RInv, RTypeOK
  <2>4. CASE Perform(i)
    BY <1>1, <2>1, <2>2, <2>4 DEF Perform, RInv, RTypeOK
  <2> QED
    BY <2>3, <2>4
<1> QED
  BY <1>5, <1>6, <1>7 DEF RInv, RTypeOK, StubsInv, clientvars, session, faults

\* Follow keeps the invariant.
LEMMA FollowInv ==
    ASSUME RInv, NEW i \in Tasks, Follow(i)
    PROVE  RInv' /\ tasks'[i] # None
<1>1. /\ tasks[i] # None /\ tasks[i].request.rpc \notin ReadOnly
      /\ last_request' = [last_request EXCEPT ![Server(i)] = tasks[i].request]
      /\ Discard(i) \/ Perform(i)
      /\ UNCHANGED <<am_i_leader, stubs, clientvars, faults>>
  BY DEF Follow, At
<1>2. tasks[i].request \in Requests
  BY <1>1, AskedChange DEF RInv, RTypeOK, Task
<1>3. last_request' \in [Servers -> Requests \cup {None}]
  BY <1>1, <1>2 DEF RInv, RTypeOK
<1> QED
  BY <1>1, <1>3, ExecuteInv

\* Act keeps the invariant.
LEMMA ActInv ==
    ASSUME RInv, NEW i \in Tasks, Act(i)
    PROVE  RInv' /\ tasks'[i] # None
<1>1. tasks[i] # None /\ tasks[i].request.rpc \notin ReadOnly
  BY InLoop DEF Act
<1>2. /\ Discard(i) \/ Perform(i)
      /\ UNCHANGED <<am_i_leader, stubs, last_request, clientvars, faults>>
  BY DEF Act
<1>3. last_request' \in [Servers -> Requests \cup {None}]
  BY <1>2 DEF RInv, RTypeOK
<1> QED
  BY <1>1, <1>2, <1>3, ExecuteInv

\* Store keeps the invariant.
LEMMA StoreInv ==
    ASSUME RInv, NEW i \in Tasks, Store(i)
    PROVE  RInv' /\ tasks'[i] # None
<1> DEFINE k == [tasks[i] EXCEPT !.pc = "done"]
<1>1. tasks[i] \in Task /\ tasks[i] # None /\ Server(i) \in Servers
  BY TaskName DEF Store, At, RInv, RTypeOK
<1>2. k \in Task /\ k.request = tasks[i].request /\ k.pc = "done"
  BY <1>1 DEF Task
<1>3. /\ tasks' = [tasks EXCEPT ![i] = k]
      /\ disk' = [disk EXCEPT ![Server(i)] = db[Server(i)]]
      /\ UNCHANGED <<servervars, db, clientvars, faults>>
  BY DEF Store
<1> HIDE DEF k
<1>4. /\ tasks' \in [Tasks -> Task \cup {None}] /\ TasksInv' /\ ProgramInv'
      /\ tasks'[i] # None
  BY <1>1, <1>2, <1>3, OneTask, NoTaskAssumption DEF faults
<1>5. disk' \in [Servers -> Database]
  BY <1>1, <1>3 DEF RInv, RTypeOK
<1> QED
  BY <1>3, <1>4, <1>5 DEF RInv, RTypeOK, StubsInv, servervars, clientvars, session, faults

\* Unheard keeps the invariant.
LEMMA UnheardInv == ASSUME RInv, NEW i \in Tasks, Unheard(i) PROVE RInv'
<1>1. /\ tasks[i] # None /\ tasks' = [tasks EXCEPT ![i] = None]
      /\ UNCHANGED <<servervars, dbs, clientvars, faults>>
  BY DEF Unheard, At
<1>2. tasks' \in [Tasks -> Task \cup {None}] /\ TasksInv' /\ ProgramInv'
  BY <1>1, OneTask DEF faults
<1> QED
  BY <1>1, <1>2 DEF RInv, RTypeOK, StubsInv, servervars, dbs, clientvars, session, faults

\* Every step of a handler keeps the invariant.
LEMMA TaskStepInv == ASSUME RInv, NEW i \in Tasks, TaskStep(i) PROVE RInv'
BY ReadInv, LeadInv, CallInv, ReturnedInv, FailedInv, EndReplayInv, FollowInv, ActInv,
   StoreInv, UnheardInv DEF TaskStep

-----------------------------------------------------------------------------
(***************************************************************************)
(* The inductive invariant RInv: steps of the clients, crashes, restarts.  *)
(***************************************************************************)

\* The server that a thread turns to next holds no handler of an earlier request.
LEMMA NobodyThere ==
    ASSUME RInv, NEW c \in Clients, NEW h \in Threads, NEW s \in Servers,
           \/ pending[c][h] = None /\ s = curr_leader[c]
           \/ s = curr_leader[c] + 1
    PROVE  tasks[<<<<c, h>>, <<s>>>>] = None
<1>1. curr_leader[c] \in 0 .. 3 /\ s \in Nat
  BY DEF RInv, RTypeOK, Servers
<1>2. pending[c][h] # None => pending[c][h].at <= curr_leader[c]
  BY DEF RInv, ProgramInv
<1>3. pending[c][h] # None => pending[c][h].at \in 0 .. 3
  BY DEF RInv, RTypeOK
<1>4. tasks[<<<<c, h>>, <<s>>>>] # None =>
         (pending[c][h] # None /\ pending[c][h].at = s) \/ s < curr_leader[c]
  BY DEF RInv, ProgramInv
<1> QED
  BY <1>1, <1>2, <1>3, <1>4

\* What Connect changes: a server that is up begins to work, and nobody is disturbed.
LEMMA ConnectFacts ==
    ASSUME RInv, NEW c \in Clients, NEW h \in Threads, NEW r \in Asked, NEW s \in 0 .. 3,
           Connect(c, h, r, s), UNCHANGED up,
           h = "inbox" => r.rpc \in ReadOnly,
           s \in Servers => tasks[<<<<c, h>>, <<s>>>>] = None
    PROVE  /\ tasks' \in [Tasks -> Task \cup {None}] /\ TasksInv'
           /\ pending' \in [Clients -> [Threads -> [request : Asked, at : 0..3] \cup {None}]]
           /\ \A j \in Tasks :
                 \/ tasks'[j] = tasks[j]
                 \/ /\ s \in Servers /\ up[s] /\ j = <<<<c, h>>, <<s>>>>
                    /\ tasks[j] = None /\ tasks'[j] # None /\ tasks'[j].request = r
                    /\ tasks'[j].pc = "begin"
<1> DEFINE k == NewTask(r, TRUE, 0)
           j == <<<<c, h>>, <<s>>>>
           p == [request |-> r, at |-> s]
<1>1. k \in Task /\ k # None /\ k.pc = "begin" /\ k.request = r
  BY NewTaskType
<1>2. p \in [request : Asked, at : 0..3] /\ p # None
  BY NoTaskAssumption
<1>3. /\ pending' = [pending EXCEPT ![c][h] = p]
      /\ tasks' = IF s \in Servers /\ up[s] THEN [tasks EXCEPT ![j] = k] ELSE tasks
  BY DEF Connect
<1>4. s \in Servers => j \in Tasks /\ Server(j) = s /\ j[1][2] = h
  BY AwaitedName
<1> HIDE DEF k, p, j
<1>5. pending' \in [Clients -> [Threads -> [request : Asked, at : 0..3] \cup {None}]]
  BY <1>2, <1>3 DEF RInv, RTypeOK
<1>6. tasks' \in [Tasks -> Task \cup {None}]
  BY <1>1, <1>3 DEF RInv, RTypeOK
<1>7. \A l \in Tasks :
         \/ tasks'[l] = tasks[l]
         \/ (s \in Servers) /\ up[s] /\ (l = j) /\ (tasks'[l] = k)
  BY <1>1, <1>3, <1>6 DEF RInv, RTypeOK
<1>8. TasksInv'
  BY <1>1, <1>4, <1>7 DEF RInv, TasksInv
<1> QED
  BY <1>1, <1>5, <1>6, <1>7, <1>8 DEF j

\* The thread waits for the server, and the others for whom they did.
LEMMA PendingFacts ==
    ASSUME RTypeOK, NEW c \in Clients, NEW h \in Threads, NEW r, NEW s, Connect(c, h, r, s)
    PROVE  /\ pending'[c][h] = [request |-> r, at |-> s]
           /\ \A d \in Clients, g \in Threads :
                 <<d, g>> # <<c, h>> => pending'[d][g] = pending[d][g]
<1> DEFINE p == [request |-> r, at |-> s]
<1>1. pending' = [pending EXCEPT ![c][h] = p]
  BY DEF Connect
<1> HIDE DEF p
<1>2. /\ pending'[c][h] = p
      /\ \A d \in Clients, g \in Threads :
            <<d, g>> # <<c, h>> => pending'[d][g] = pending[d][g]
  BY <1>1 DEF RTypeOK
<1> QED
  BY <1>2 DEF p

\* A request keeps the invariant when it is one its thread may make, and the
\* thread takes the lock when there are two.
LEMMA AskInv ==
    ASSUME RInv, NEW c \in Clients, NEW h \in Threads, NEW r \in Asked, Ask(c, h, r),
           r.rpc \in Due(c, h), h = "inbox" => stage[c] = "chat",
           stage[c] = "chat" => chat_stub_lock[c] = None /\ chat_stub_lock'[c] = h,
           chat_stub_lock' \in [Clients -> Threads \cup {None}],
           \A d \in Clients : d # c => chat_stub_lock'[d] = chat_stub_lock[d],
           made' \in [Clients -> Nat]
    PROVE  RInv'
<1>1. PICK s \in 0 .. 3 : s = curr_leader[c]
  BY DEF RInv, RTypeOK
<1>2. /\ pending[c][h] = None /\ Connect(c, h, r, s)
      /\ UNCHANGED <<curr_leader, username, stage, num_messages, acked,
                     servervars, dbs, faults>>
  BY <1>1 DEF Ask
<1>3. h = "inbox" => r.rpc \in ReadOnly
  BY DEF Due, ReadOnly
<1>4. s \in Servers => tasks[<<<<c, h>>, <<s>>>>] = None
  BY <1>1, <1>2, NobodyThere
<1>5. /\ tasks' \in [Tasks -> Task \cup {None}] /\ TasksInv'
      /\ pending' \in [Clients -> [Threads -> [request : Asked, at : 0..3] \cup {None}]]
      /\ \A j \in Tasks :
            \/ tasks'[j] = tasks[j]
            \/ /\ s \in Servers /\ up[s] /\ j = <<<<c, h>>, <<s>>>>
               /\ tasks[j] = None /\ tasks'[j] # None /\ tasks'[j].request = r
               /\ tasks'[j].pc = "begin"
  <2>1. UNCHANGED up /\ Connect(c, h, r, s)
    BY <1>2 DEF faults
  <2> QED
    BY <1>3, <1>4, <2>1, ConnectFacts
<1>6. /\ pending'[c][h] = [request |-> r, at |-> s]
      /\ \A d \in Clients, g \in Threads :
            <<d, g>> # <<c, h>> => pending'[d][g] = pending[d][g]
  BY <1>2, PendingFacts DEF RInv
<1>7. ASSUME NEW d \in Clients, NEW g \in Threads, pending'[d][g] # None
      PROVE  /\ pending'[d][g].at <= curr_leader'[d]
             /\ pending'[d][g].request.rpc \in Due(d, g)'
             /\ g = "inbox" => stage'[d] = "chat"
             /\ stage'[d] = "chat" => chat_stub_lock'[d] = g
  <2>1. CASE d = c /\ g = h
    BY <1>1, <1>2, <1>6, <2>1 DEF Due
  <2>2. CASE d = c /\ g # h
    <3>1. pending'[d][g] = pending[d][g]
      BY <1>6, <2>2
    <3>2. stage[d] = "chat" => chat_stub_lock[d] = g
      BY <1>7, <3>1 DEF RInv, ProgramInv
    <3>3. stage[d] # "chat"
      BY <2>2, <3>2, NoTaskAssumption
    <3> QED
      BY <1>2, <1>7, <3>1, <3>3 DEF RInv, ProgramInv, Due
  <2>3. CASE d # c
    <3>1. pending'[d][g] = pending[d][g]
      BY <1>6, <2>3
    <3> QED
      BY <1>2, <1>7, <2>3, <3>1 DEF RInv, ProgramInv, Due
  <2> QED
    BY <2>1, <2>2, <2>3
<1>8. ASSUME NEW d \in Clients, NEW g \in Threads, NEW t \in Servers,
             tasks'[<<<<d, g>>, <<t>>>>] # None
      PROVE  IF pending'[d][g] # None /\ pending'[d][g].at = t
             THEN pending'[d][g].request = tasks'[<<<<d, g>>, <<t>>>>].request
             ELSE t < curr_leader'[d]
  <2> DEFINE j == <<<<d, g>>, <<t>>>>
  <2>1. j \in Tasks
    BY AwaitedName
  <2>2. CASE <<d, g>> = <<c, h>> /\ t = s
    <3>1. tasks'[j].request = r
      BY <1>4, <1>5, <1>8, <2>1, <2>2
    <3> QED
      BY <1>6, <2>2, <3>1, NoTaskAssumption
  <2>3. CASE <<d, g>> = <<c, h>> /\ t # s
    <3>1. tasks'[j] = tasks[j]
      BY <1>5, <2>1, <2>3
    <3>2. t < curr_leader[d]
      BY <1>2, <1>8, <2>3, <3>1 DEF RInv, ProgramInv
    <3> QED
      BY <1>2, <1>6, <2>3, <3>2
  <2>4. CASE <<d, g>> # <<c, h>>
    <3>1. tasks'[j] = tasks[j] /\ pending'[d][g] = pending[d][g]
      BY <1>5, <1>6, <2>1, <2>4
    <3> QED
      BY <1>2, <1>8, <3>1 DEF RInv, ProgramInv
  <2> QED
    BY <2>2, <2>3, <2>4
<1>9. \A d \in Clients : stage'[d] # "login" => username'[d] \in Names
  BY <1>2 DEF RInv, ProgramInv
<1>10. ProgramInv'
  BY <1>7, <1>8, <1>9 DEF ProgramInv
<1> QED
  BY <1>2, <1>5, <1>10 DEF RInv, RTypeOK, StubsInv, servervars, dbs, faults

\* With one thread the lock is left alone, with two it is taken.
LEMMA AskLockedInv ==
    ASSUME RInv, NEW c \in Clients, NEW h \in Threads, NEW r \in Asked, AskLocked(c, h, r),
           r.rpc \in Due(c, h), h = "inbox" => stage[c] = "chat", made' \in [Clients -> Nat]
    PROVE  RInv'
<1>1. /\ chat_stub_lock[c] = None /\ Ask(c, h, r)
      /\ chat_stub_lock' = [chat_stub_lock EXCEPT ![c] = h]
  BY DEF AskLocked
<1>2. /\ chat_stub_lock' \in [Clients -> Threads \cup {None}] /\ chat_stub_lock'[c] = h
      /\ \A d \in Clients : d # c => chat_stub_lock'[d] = chat_stub_lock[d]
  BY <1>1 DEF RInv, RTypeOK
<1> QED
  BY <1>1, <1>2, AskInv

\* Who is logged in may ask for the inbox.
LEMMA InboxRequest ==
    ASSUME RInv, NEW c \in Clients, stage[c] # "login"
    PROVE  ReceiveMessage(username[c]) \in Asked
BY DEF RInv, ProgramInv, Asked

\* Issue keeps the invariant.
LEMMA IssueInv == ASSUME RInv, NEW c \in Clients, NEW r \in Requests, Issue(c, r) PROVE RInv'
<1>1. made' \in [Clients -> Nat] /\ "main" \in Threads /\ r \in Asked
  BY DEF Issue, RInv, RTypeOK, Threads, Asked
<1>2. CASE stage[c] = "login" /\ r.rpc # "SendMessage" /\ Ask(c, "main", r)
           /\ UNCHANGED chat_stub_lock
  <2>1. r.rpc \in Due(c, "main")
    BY <1>2, RequestsAssumption DEF Due, Credentials, Sendings
  <2>2. chat_stub_lock' \in [Clients -> Threads \cup {None}]
    BY <1>2 DEF RInv, RTypeOK
  <2> QED
    BY <1>1, <1>2, <2>1, <2>2, AskInv
<1>3. CASE stage[c] = "chat" /\ r.rpc = "SendMessage" /\ AskLocked(c, "main", r)
  <2>1. r.rpc \in Due(c, "main")
    BY <1>3 DEF Due
  <2> QED
    BY <1>1, <1>3, <2>1, AskLockedInv
<1> QED
  BY <1>2, <1>3 DEF Issue

\* Homepage keeps the invariant.
LEMMA HomepageInv == ASSUME RInv, NEW c \in Clients, Homepage(c) PROVE RInv'
<1> DEFINE r == ReceiveMessage(username[c])
<1>1. stage[c] = "home" /\ AskLocked(c, "main", r) /\ made' = made
  BY DEF Homepage
<1>2. PICK q \in Asked : q = r
  BY <1>1, InboxRequest
<1>3. q.rpc \in Due(c, "main") /\ "main" \in Threads /\ made' \in [Clients -> Nat]
  BY <1>1, <1>2 DEF Due, ReceiveMessage, Threads, RInv, RTypeOK
<1> HIDE DEF r
<1> QED
  BY <1>1, <1>2, <1>3, AskLockedInv

\* ListUsers keeps the invariant.
LEMMA ListUsersInv == ASSUME RInv, NEW c \in Clients, ListUsers(c) PROVE RInv'
<1>1. /\ stage[c] = "users" /\ Ask(c, "main", GetUsers)
      /\ UNCHANGED <<chat_stub_lock, made>>
  BY DEF ListUsers
<1>2. GetUsers \in Asked /\ GetUsers.rpc \in Due(c, "main") /\ "main" \in Threads
  BY <1>1 DEF Asked, Due, GetUsers, Threads
<1>3. /\ made' \in [Clients -> Nat]
      /\ chat_stub_lock' \in [Clients -> Threads \cup {None}]
  BY <1>1 DEF RInv, RTypeOK
<1> QED
  BY <1>1, <1>2, <1>3, AskInv

\* Poll keeps the invariant.
LEMMA PollInv == ASSUME RInv, NEW c \in Clients, Poll(c) PROVE RInv'
<1> DEFINE r == ReceiveMessage(username[c])
<1>1. stage[c] = "chat" /\ AskLocked(c, "inbox", r) /\ made' = made
  BY DEF Poll
<1>2. PICK q \in Asked : q = r
  BY <1>1, InboxRequest
<1>3. q.rpc \in Due(c, "inbox") /\ "inbox" \in Threads /\ made' \in [Clients -> Nat]
  BY <1>1, <1>2 DEF Due, ReceiveMessage, Threads, RInv, RTypeOK
<1> HIDE DEF r
<1> QED
  BY <1>1, <1>2, <1>3, AskLockedInv

\* A thread that waits does so for a handler of a server, with the thread's request.
LEMMA WaitingFacts ==
    ASSUME RInv, NEW c \in Clients, NEW h \in Threads, Waiting(c, h)
    PROVE  /\ curr_leader[c] \in Servers /\ curr_leader[c] + 1 \in 1 .. 3
           /\ pending[c][h] # None /\ pending[c][h] \in [request : Asked, at : 0..3]
           /\ pending[c][h].at \in Servers /\ Awaited(c, h) \in Tasks
           /\ pending[c][h].request.rpc \in Due(c, h)
           /\ tasks[Awaited(c, h)] # None =>
                 tasks[Awaited(c, h)].request = pending[c][h].request
<1>1. pending[c][h] # None /\ curr_leader[c] \in 0 .. 3 /\ ~(curr_leader[c] > 2)
  BY DEF Waiting, Gone, RInv, RTypeOK
<1>2. /\ pending[c][h] \in [request : Asked, at : 0..3]
      /\ pending[c][h].at \in 0 .. 3
  BY <1>1 DEF RInv, RTypeOK
<1>3. /\ pending[c][h].at <= curr_leader[c] /\ pending[c][h].request.rpc \in Due(c, h)
  BY <1>1 DEF RInv, ProgramInv
<1>4. pending[c][h].at \in Servers
  BY <1>1, <1>2, <1>3 DEF Servers
<1>5. Awaited(c, h) \in Tasks
  BY <1>4, AwaitedName DEF Awaited
<1>6. tasks[Awaited(c, h)] # None => tasks[Awaited(c, h)].request = pending[c][h].request
  BY <1>1, <1>4 DEF RInv, ProgramInv, Awaited
<1> QED
  BY <1>1, <1>2, <1>3, <1>4, <1>5, <1>6 DEF Servers

\* What an answer does to its program: it goes on from its stage, and only a
\* registration or a login changes who is logged in.
LEMMA AnswerStage ==
    ASSUME RInv, NEW c \in Clients, NEW h \in Threads, Answer(c, h)
    PROVE  /\ stage' \in [Clients -> {"login", "home", "users", "chat"}]
           /\ username' \in [Clients -> Names \cup {None}]
           /\ \A d \in Clients : d # c => stage'[d] = stage[d] /\ username'[d] = username[d]
           /\ stage'[c] # "login" => username'[c] \in Names
           /\ stage[c] = "chat" => stage'[c] = "chat"
           /\ h = "inbox" => stage[c] = "chat"
<1> DEFINE r == tasks[Awaited(c, h)].request
           k == tasks[Awaited(c, h)]
<1>1. /\ Waiting(c, h) /\ k # None
      /\ username' = IF r.rpc \in {"Register", "Login"} /\ k.success
                     THEN [username EXCEPT ![c] = r.username] ELSE username
      /\ stage' = CASE r.rpc \in {"Register", "Login"} /\ k.success -> [stage EXCEPT ![c] = "home"]
                    [] stage[c] = "home"                          -> [stage EXCEPT ![c] = "users"]
                    [] stage[c] = "users"                         -> [stage EXCEPT ![c] = "chat"]
                    [] OTHER                                      -> stage
  BY DEF Answer, At
<1>2. /\ pending[c][h] # None /\ r = pending[c][h].request /\ r \in Asked
      /\ r.rpc \in Due(c, h)
  BY <1>1, WaitingFacts
<1>3. h = "inbox" => stage[c] = "chat"
  BY <1>2 DEF RInv, ProgramInv
<1>4. stage[c] \in {"login", "home", "users", "chat"}
  BY DEF RInv, RTypeOK
<1>5. r.rpc \in {"Register", "Login"} => stage[c] = "login" /\ r.username \in Names
  <2>1. r.rpc \in {"Register", "Login"} => stage[c] = "login"
    BY <1>2, <1>3, <1>4 DEF Due, Threads
  <2>2. r.rpc \in {"Register", "Login"} => r.username \in Names
    BY <1>2, RequestsAssumption DEF Asked, Credentials, Sendings, ReceiveMessage, GetUsers
  <2> QED
    BY <2>1, <2>2
<1> HIDE DEF r, k
<1>6. /\ username' \in [Clients -> Names \cup {None}]
      /\ \A d \in Clients : d # c => username'[d] = username[d]
      /\ r.rpc \in {"Register", "Login"} /\ k.success => username'[c] \in Names
      /\ ~(r.rpc \in {"Register", "Login"} /\ k.success) => username'[c] = username[c]
  BY <1>1, <1>5 DEF RInv, RTypeOK
<1>7. /\ stage' \in [Clients -> {"login", "home", "users", "chat"}]
      /\ \A d \in Clients : d # c => stage'[d] = stage[d]
      /\ stage[c] = "chat" => stage'[c] = "chat"
      /\ stage[c] = "login" /\ stage'[c] # "login" =>
            r.rpc \in {"Register", "Login"} /\ k.success
  <2>1. CASE r.rpc \in {"Register", "Login"} /\ k.success
    <3>1. stage' = [stage EXCEPT ![c] = "home"]
      BY <1>1, <1>5, <2>1
    <3> QED
      BY <1>5, <2>1, <3>1 DEF RInv, RTypeOK
  <2>2. CASE ~(r.rpc \in {"Register", "Login"} /\ k.success) /\ stage[c] = "home"
    <3>1. stage' = [stage EXCEPT ![c] = "users"]
      BY <1>1, <2>2
    <3> QED
      BY <2>2, <3>1 DEF RInv, RTypeOK
  <2>3. CASE ~(r.rpc \in {"Register", "Login"} /\ k.success) /\ stage[c] = "users"
    <3>1. stage' = [stage EXCEPT ![c] = "chat"]
      BY <1>1, <2>3
    <3> QED
      BY <2>3, <3>1 DEF RInv, RTypeOK
  <2>4. CASE /\ ~(r.rpc \in {"Register", "Login"} /\ k.success)
             /\ stage[c] # "home" /\ stage[c] # "users"
    <3>1. stage' = stage
      BY <1>1, <2>4
    <3> QED
      BY <3>1 DEF RInv, RTypeOK
  <2> QED
    BY <2>1, <2>2, <2>3, <2>4
<1>8. stage[c] # "login" => username[c] \in Names
  BY DEF RInv, ProgramInv
<1> QED
  BY <1>3, <1>6, <1>7, <1>8

\* Answer keeps the invariant.
LEMMA AnswerInv ==
    ASSUME RInv, NEW c \in Clients, NEW h \in Threads, Answer(c, h)
    PROVE  RInv'
<1> DEFINE j == Awaited(c, h)
<1>1. /\ Waiting(c, h) /\ At(j, "done")
      /\ pending' = [pending EXCEPT ![c][h] = None]
      /\ tasks' = [tasks EXCEPT ![j] = None]
      /\ chat_stub_lock' = [chat_stub_lock EXCEPT ![c] = IF @ = h THEN None ELSE @]
      /\ UNCHANGED <<curr_leader, made, servervars, dbs, faults>>
  BY DEF Answer, Release
<1>2. /\ j \in Tasks /\ pending[c][h] # None /\ pending[c][h].at \in Servers
      /\ tasks[j] # None => tasks[j] \in Task
  BY <1>1, WaitingFacts DEF RInv, RTypeOK
<1>3. j = <<<<c, h>>, <<pending[c][h].at>>>>
  BY DEF Awaited
<1> HIDE DEF j
<1>4. /\ tasks' \in [Tasks -> Task \cup {None}] /\ tasks'[j] = None
      /\ \A i \in Tasks \ {j} : tasks'[i] = tasks[i]
  BY <1>1, <1>2 DEF RInv, RTypeOK
<1>5. /\ pending' \in [Clients -> [Threads -> [request : Asked, at : 0..3] \cup {None}]]
      /\ pending'[c][h] = None
      /\ \A d \in Clients, g \in Threads :
            <<d, g>> # <<c, h>> => pending'[d][g] = pending[d][g]
  BY <1>1 DEF RInv, RTypeOK
<1>6. /\ chat_stub_lock' \in [Clients -> Threads \cup {None}]
      /\ \A d \in Clients : d # c => chat_stub_lock'[d] = chat_stub_lock[d]
      /\ chat_stub_lock[c] # h => chat_stub_lock'[c] = chat_stub_lock[c]
  BY <1>1 DEF RInv, RTypeOK
<1>7. TasksInv'
  BY <1>1, <1>4 DEF RInv, TasksInv, faults
<1>8. /\ stage' \in [Clients -> {"login", "home", "users", "chat"}]
      /\ username' \in [Clients -> Names \cup {None}]
      /\ \A d \in Clients : d # c => stage'[d] = stage[d] /\ username'[d] = username[d]
      /\ stage'[c] # "login" => username'[c] \in Names
      /\ stage[c] = "chat" => stage'[c] = "chat"
      /\ h = "inbox" => stage[c] = "chat"
  BY AnswerStage
<1>9. num_messages' \in [Clients -> Nat] /\ acked' \in [Clients -> Nat]
  <2>1. tasks[j].chats \in Nat
    BY <1>1, <1>2 DEF At, Task
  <2> QED
    BY <2>1 DEF Answer, RInv, RTypeOK, j
<1>10. ASSUME NEW d \in Clients, NEW g \in Threads, pending'[d][g] # None
       PROVE  /\ pending'[d][g].at <= curr_leader'[d]
              /\ pending'[d][g].request.rpc \in Due(d, g)'
              /\ g = "inbox" => stage'[d] = "chat"
              /\ stage'[d] = "chat" => chat_stub_lock'[d] = g
  <2>1. <<d, g>> # <<c, h>> /\ pending'[d][g] = pending[d][g]
    BY <1>5, <1>10
  <2>2. /\ pending[d][g].at <= curr_leader[d]
        /\ pending[d][g].request.rpc \in Due(d, g)
        /\ g = "inbox" => stage[d] = "chat"
        /\ stage[d] = "chat" => chat_stub_lock[d] = g
    BY <1>10, <2>1 DEF RInv, ProgramInv
  <2>3. stage'[d] = stage[d] /\ (stage[d] = "chat" => chat_stub_lock'[d] = g)
    <3>1. CASE d # c
      BY <1>6, <1>8, <2>2, <3>1
    <3>2. CASE d = c
      <4>1. g # h /\ stage[d] = "chat"
        BY <1>8, <2>1, <2>2, <3>2 DEF Threads
      <4> QED
        BY <1>6, <1>8, <2>2, <3>2, <4>1
    <3> QED
      BY <3>1, <3>2
  <2> QED
    BY <1>1, <2>1, <2>2, <2>3 DEF Due
<1>11. ASSUME NEW d \in Clients, NEW g \in Threads, NEW t \in Servers,
              tasks'[<<<<d, g>>, <<t>>>>] # None
       PROVE  IF pending'[d][g] # None /\ pending'[d][g].at = t
              THEN pending'[d][g].request = tasks'[<<<<d, g>>, <<t>>>>].request
              ELSE t < curr_leader'[d]
  <2> DEFINE i == <<<<d, g>>, <<t>>>>
  <2>1. i \in Tasks
    BY AwaitedName
  <2>2. tasks'[i] = tasks[i] /\ i # j
    BY <1>4, <1>11, <2>1
  <2>3. IF pending[d][g] # None /\ pending[d][g].at = t
        THEN pending[d][g].request = tasks[i].request
        ELSE t < curr_leader[d]
    BY <1>11, <2>2 DEF RInv, ProgramInv
  <2>4. CASE <<d, g>> = <<c, h>>
    <3>1. pending[d][g].at # t
      BY <1>3, <2>2, <2>4
    <3> QED
      BY <1>1, <1>5, <2>3, <2>4, <3>1
  <2>5. CASE <<d, g>> # <<c, h>>
    BY <1>1, <1>5, <2>2, <2>3, <2>5
  <2> QED
    BY <2>4, <2>5
<1>12. \A d \in Clients : stage'[d] # "login" => username'[d] \in Names
  BY <1>8 DEF RInv, ProgramInv
<1>13. ProgramInv'
  BY <1>10, <1>11, <1>12 DEF ProgramInv
<1> QED
  BY <1>1, <1>4, <1>5, <1>6, <1>7, <1>8, <1>9, <1>13
     DEF RInv, RTypeOK, StubsInv, servervars, dbs, faults

\* Going on to the next server keeps the invariant.
LEMMA TryNextInv ==
    ASSUME RInv, NEW c \in Clients, NEW h \in Threads, TryNext(c, h),
           UNCHANGED <<up, crashes, restarts>>, timeouts' \in Nat
    PROVE  RInv'
<1>1. PICK r \in Asked : r = pending[c][h].request
  BY WaitingFacts DEF TryNext
<1>2. PICK s \in 0 .. 3 : s = curr_leader[c] + 1
  BY WaitingFacts DEF TryNext
<1>3. /\ Waiting(c, h) /\ Connect(c, h, r, s)
      /\ curr_leader' = [curr_leader EXCEPT ![c] = @ + 1]
      /\ UNCHANGED <<session, made, servervars, dbs>>
  BY <1>1, <1>2 DEF TryNext
<1>4. curr_leader[c] \in Servers /\ pending[c][h] # None /\ r.rpc \in Due(c, h)
  BY <1>1, <1>3, WaitingFacts
<1>5. h = "inbox" => r.rpc \in ReadOnly
  BY <1>4 DEF Due, ReadOnly
<1>6. s \in Servers => tasks[<<<<c, h>>, <<s>>>>] = None
  BY <1>2, NobodyThere
<1>7. /\ tasks' \in [Tasks -> Task \cup {None}] /\ TasksInv'
      /\ pending' \in [Clients -> [Threads -> [request : Asked, at : 0..3] \cup {None}]]
      /\ \A j \in Tasks :
            \/ tasks'[j] = tasks[j]
            \/ /\ s \in Servers /\ up[s] /\ j = <<<<c, h>>, <<s>>>>
               /\ tasks[j] = None /\ tasks'[j] # None /\ tasks'[j].request = r
               /\ tasks'[j].pc = "begin"
  <2>1. UNCHANGED up
    OBVIOUS
  <2> QED
    BY <1>3, <1>5, <1>6, <2>1, ConnectFacts
<1>8. /\ pending'[c][h] = [request |-> r, at |-> s]
      /\ \A d \in Clients, g \in Threads :
            <<d, g>> # <<c, h>> => pending'[d][g] = pending[d][g]
  BY <1>3, PendingFacts DEF RInv
<1>9. /\ curr_leader' \in [Clients -> 0 .. 3] /\ curr_leader'[c] = s
      /\ \A d \in Clients : curr_leader[d] <= curr_leader'[d]
      /\ \A d \in Clients : d # c => curr_leader'[d] = curr_leader[d]
  <2>1. /\ curr_leader' \in [Clients -> 0 .. 3] /\ curr_leader'[c] = s
        /\ \A d \in Clients : d # c => curr_leader'[d] = curr_leader[d]
    BY <1>2, <1>3 DEF RInv, RTypeOK
  <2>2. \A d \in Clients : curr_leader[d] \in 0 .. 3
    BY DEF RInv, RTypeOK
  <2> QED
    BY <1>2, <2>1, <2>2
<1>10. ASSUME NEW d \in Clients, NEW g \in Threads, pending'[d][g] # None
       PROVE  /\ pending'[d][g].at <= curr_leader'[d]
              /\ pending'[d][g].request.rpc \in Due(d, g)'
              /\ g = "inbox" => stage'[d] = "chat"
              /\ stage'[d] = "chat" => chat_stub_lock'[d] = g
  <2>1. CASE <<d, g>> = <<c, h>>
    <3>1. pending'[d][g].at = s /\ pending'[d][g].request = r
      BY <1>8, <2>1
    <3>2. /\ r.rpc \in Due(d, g)
          /\ g = "inbox" => stage[d] = "chat"
          /\ stage[d] = "chat" => chat_stub_lock[d] = g
      BY <1>4, <2>1 DEF RInv, ProgramInv
    <3> QED
      BY <1>3, <1>9, <2>1, <3>1, <3>2 DEF session, Due
  <2>2. CASE <<d, g>> # <<c, h>>
    <3>1. pending'[d][g] = pending[d][g]
      BY <1>8, <2>2
    <3>2. /\ pending[d][g].at <= curr_leader[d]
          /\ pending[d][g].request.rpc \in Due(d, g)
          /\ g = "inbox" => stage[d] = "chat"
          /\ stage[d] = "chat" => chat_stub_lock[d] = g
      BY <1>10, <3>1 DEF RInv, ProgramInv
    <3>3. pending[d][g].at \in 0 .. 3 /\ curr_leader[d] \in 0 .. 3 /\ curr_leader'[d] \in 0 .. 3
      BY <1>9, <1>10, <3>1 DEF RInv, RTypeOK
    <3>4. pending[d][g].at <= curr_leader'[d]
      BY <1>9, <3>2, <3>3
    <3> QED
      BY <1>3, <3>1, <3>2, <3>4 DEF session, Due
  <2> QED
    BY <2>1, <2>2
<1>11. ASSUME NEW d \in Clients, NEW g \in Threads, NEW t \in Servers,
              tasks'[<<<<d, g>>, <<t>>>>] # None
       PROVE  IF pending'[d][g] # None /\ pending'[d][g].at = t
              THEN pending'[d][g].request = tasks'[<<<<d, g>>, <<t>>>>].request
              ELSE t < curr_leader'[d]
  <2> DEFINE i == <<<<d, g>>, <<t>>>>
  <2>1. i \in Tasks
    BY AwaitedName
  <2>2. CASE <<d, g>> = <<c, h>> /\ t = s
    <3>1. tasks'[i].request = r
      BY <1>6, <1>7, <1>11, <2>1, <2>2
    <3> QED
      BY <1>8, <2>2, <3>1, NoTaskAssumption
  <2>3. CASE <<d, g>> = <<c, h>> /\ t # s
    <3>1. tasks[i] # None
      BY <1>7, <1>11, <2>1, <2>3
    <3>2. (pending[d][g] # None /\ pending[d][g].at = t) \/ t < curr_leader[d]
      BY <3>1 DEF RInv, ProgramInv
    <3>3. pending[d][g] # None => pending[d][g].at <= curr_leader[d]
      BY DEF RInv, ProgramInv
    <3>4. t < s
      BY <1>2, <1>4, <2>3, <3>2, <3>3 DEF Servers
    <3> QED
      BY <1>8, <1>9, <2>3, <3>4
  <2>4. CASE <<d, g>> # <<c, h>>
    <3>1. tasks'[i] = tasks[i] /\ pending'[d][g] = pending[d][g]
      BY <1>7, <1>8, <2>1, <2>4
    <3>2. IF pending[d][g] # None /\ pending[d][g].at = t
          THEN pending[d][g].request = tasks[i].request
          ELSE t < curr_leader[d]
      BY <1>11, <3>1 DEF RInv, ProgramInv
    <3>3. t < curr_leader[d] => t < curr_leader'[d]
      <4>1. curr_leader[d] \in 0 .. 3 /\ curr_leader'[d] \in 0 .. 3
        BY <1>9 DEF RInv, RTypeOK
      <4>2. curr_leader[d] <= curr_leader'[d] /\ t \in Nat
        BY <1>9 DEF Servers
      <4> QED
        BY <4>1, <4>2
    <3> QED
      BY <3>1, <3>2, <3>3
  <2> QED
    BY <2>2, <2>3, <2>4
<1>12. \A d \in Clients : stage'[d] # "login" => username'[d] \in Names
  BY <1>3 DEF session, RInv, ProgramInv
<1>13. ProgramInv'
  BY <1>10, <1>11, <1>12 DEF ProgramInv
<1> QED
  BY <1>3, <1>7, <1>9, <1>13 DEF RInv, RTypeOK, StubsInv, session, servervars, dbs

\* FailOver and TimeOut keep the invariant.
LEMMA FailOverInv ==
    ASSUME RInv, NEW c \in Clients, NEW h \in Threads, FailOver(c, h)
    PROVE  RInv'
<1>1. TryNext(c, h) /\ UNCHANGED <<up, crashes, restarts>> /\ timeouts' \in Nat
  BY DEF FailOver, faults, RInv, RTypeOK
<1> QED
  BY <1>1, TryNextInv

LEMMA TimeOutInv ==
    ASSUME RInv, NEW c \in Clients, NEW h \in Threads, TimeOut(c, h)
    PROVE  RInv'
<1>1. TryNext(c, h) /\ UNCHANGED <<up, crashes, restarts>> /\ timeouts' \in Nat
  BY DEF TimeOut, RInv, RTypeOK
<1> QED
  BY <1>1, TryNextInv

\* Leave keeps the invariant: nothing is being done for the program that ends.
LEMMA LeaveInv == ASSUME RInv, NEW c \in Clients, Leave(c) PROVE RInv'
<1>1. /\ \A h \in Threads : pending[c][h] = None
      /\ \A i \in Tasks : i[1][1] = c => tasks[i] = None
      /\ stage' = [stage EXCEPT ![c] = "login"] /\ username' = [username EXCEPT ![c] = None]
      /\ curr_leader' = [curr_leader EXCEPT ![c] = 0]
      /\ num_messages' = [num_messages EXCEPT ![c] = 0] /\ acked' = [acked EXCEPT ![c] = 0]
      /\ UNCHANGED <<pending, chat_stub_lock, made, servervars, dbs, faults, tasks>>
  BY DEF Leave
<1>2. TasksInv'
  BY <1>1 DEF RInv, TasksInv, faults
<1>3. \A h \in Threads, s \in Servers : tasks[<<<<c, h>>, <<s>>>>] = None
  BY <1>1, AwaitedName
<1>4. /\ \A d \in Clients : d # c => /\ stage'[d] = stage[d] /\ username'[d] = username[d]
                                     /\ curr_leader'[d] = curr_leader[d]
      /\ stage'[c] = "login"
  BY <1>1 DEF RInv, RTypeOK
<1>5. ProgramInv'
  BY <1>1, <1>3, <1>4 DEF RInv, ProgramInv, Due
<1>6. RTypeOK'
  BY <1>1 DEF RInv, RTypeOK, servervars, dbs, faults
<1> QED
  BY <1>1, <1>2, <1>5, <1>6 DEF RInv, StubsInv, servervars

\* Crash keeps the invariant: a server that stops works on nothing.
LEMMA CrashInv == ASSUME RInv, NEW s \in Servers, Crash(s) PROVE RInv'
<1>1. /\ up' = [up EXCEPT ![s] = FALSE] /\ crashes' = crashes + 1
      /\ tasks' = [i \in Tasks |-> IF Server(i) = s THEN None ELSE tasks[i]]
      /\ UNCHANGED <<servervars, dbs, clientvars, restarts, timeouts>>
  BY DEF Crash
<1>2. /\ tasks' \in [Tasks -> Task \cup {None}]
      /\ \A i \in Tasks : tasks'[i] # None => Server(i) # s /\ tasks'[i] = tasks[i]
  BY <1>1 DEF RInv, RTypeOK
<1>3. \A t \in Servers : t # s => up'[t] = up[t]
  BY <1>1 DEF RInv, RTypeOK
<1>4. TasksInv'
  BY <1>2, <1>3, TaskName DEF RInv, TasksInv
<1>5. \A c \in Clients, h \in Threads, t \in Servers : tasks'[<<<<c, h>>, <<t>>>>] # None =>
         /\ tasks[<<<<c, h>>, <<t>>>>] # None
         /\ tasks'[<<<<c, h>>, <<t>>>>] = tasks[<<<<c, h>>, <<t>>>>]
  BY <1>2, AwaitedName
<1>6. ProgramInv'
  BY <1>1, <1>5 DEF RInv, ProgramInv, Due, clientvars, session
<1>7. RTypeOK'
  BY <1>1, <1>2 DEF RInv, RTypeOK, servervars, dbs, clientvars, session
<1> QED
  BY <1>1, <1>4, <1>6, <1>7 DEF RInv, StubsInv, servervars

\* Restart keeps the invariant.
LEMMA RestartInv == ASSUME RInv, NEW s \in Servers, Restart(s) PROVE RInv'
<1>1. /\ up' = [up EXCEPT ![s] = TRUE] /\ restarts' = restarts + 1
      /\ am_i_leader' = [am_i_leader EXCEPT ![s] = s = 0]
      /\ stubs' = [stubs EXCEPT ![s] = [v \in Services |-> Later(s)]]
      /\ counter' = [counter EXCEPT ![s] = 0] /\ last_request' = [last_request EXCEPT ![s] = None]
      /\ db' = [db EXCEPT ![s] = disk[s]]
      /\ UNCHANGED <<disk, tasks, clientvars, crashes, timeouts>>
  BY DEF Restart
<1>2. /\ stubs' \in [Servers -> [Services -> SUBSET Servers]] /\ StubsInv'
  BY <1>1 DEF RInv, RTypeOK, StubsInv, Later
<1>3. \A t \in Servers : up[t] => up'[t]
  BY <1>1 DEF RInv, RTypeOK
<1>4. TasksInv'
  BY <1>1, <1>3, TaskName DEF RInv, TasksInv
<1>5. ProgramInv'
  BY <1>1 DEF RInv, ProgramInv, Due, clientvars, session
<1>6. (s = 0) \in BOOLEAN
  OBVIOUS
<1>7. RTypeOK'
  BY <1>1, <1>2, <1>6 DEF RInv, RTypeOK, clientvars, session
<1> QED
  BY <1>2, <1>4, <1>5, <1>7 DEF RInv

\* Every step keeps the invariant.
LEMMA NextInv == RInv /\ [RNext]_rvars => RInv'
<1> SUFFICES ASSUME RInv, [RNext]_rvars PROVE RInv'
  OBVIOUS
<1>1. CASE UNCHANGED rvars
  BY <1>1 DEF RInv, RTypeOK, StubsInv, TasksInv, ProgramInv, Due,
              rvars, servervars, dbs, clientvars, session, faults
<1>2. ASSUME NEW c \in Clients, ClientStep(c) PROVE RInv'
  BY <1>2, AnswerInv, FailOverInv, HomepageInv, ListUsersInv, PollInv DEF ClientStep, ThreadStep
<1> QED
  BY <1>1, <1>2, TaskStepInv, LeaveInv, TimeOutInv, IssueInv, CrashInv, RestartInv DEF RNext

\* RInv holds in every reachable state, whatever fails and however often.
THEOREM RInvariance == RSpec => []RInv
<1> QED
  BY InitInv, NextInv, PTL DEF RSpec

\* Every variable keeps its type: what the handlers make of requests stays a
\* request, what they execute leaves a database, and no client counts past the
\* last server, although two threads count.
THEOREM ReplicationTypeCorrect == RSpec => []RTypeOK
<1>1. RInv => RTypeOK
  BY DEF RInv
<1> QED
  BY <1>1, RInvariance, PTL

-----------------------------------------------------------------------------
(***************************************************************************)
(* What is on disk.                                                        *)
(***************************************************************************)


\* A step that changes neither databases nor what is up leaves the disk current if
\* no handler that writes is lost.
LEMMA DiskKept ==
    ASSUME DiskIsCurrent, UNCHANGED <<up, dbs>>,
           \A i \in Tasks : At(i, "store") => tasks'[i] = tasks[i]
    PROVE  DiskIsCurrent'
BY DEF DiskIsCurrent, At, dbs

\* Executing a request truncates the file, and leaves a handler that will write it.
LEMMA ExecuteDisk ==
    ASSUME RInv, DiskIsCurrent, NEW i \in Tasks, tasks[i] # None,
           tasks[i].pc # "store", tasks[i].request.rpc \notin ReadOnly,
           Discard(i) \/ Perform(i), UNCHANGED up
    PROVE  DiskIsCurrent'
<1> DEFINE s == Server(i)
           r == tasks[i].request
<1>1. tasks[i] \in Task /\ r \in Requests /\ s \in Servers
  <2>1. tasks[i] \in Task /\ s \in Servers
    BY TaskName DEF RInv, RTypeOK
  <2> QED
    BY <2>1, AskedChange DEF Task
<1>2. CASE Discard(i)
  <2>1. \A j \in Tasks : At(j, "store") => tasks'[j] = tasks[j]
    BY <1>2 DEF Discard, At, RInv, RTypeOK
  <2>2. UNCHANGED <<up, dbs>>
    BY <1>2 DEF Discard
  <2> QED
    BY <2>1, <2>2, DiskKept
<1>3. CASE Perform(i) /\ ~Accepts(db[s], r)
  <2>1. \A j \in Tasks : At(j, "store") => tasks'[j] = tasks[j]
    BY <1>3 DEF Perform, At, RInv, RTypeOK
  <2>2. Executed(db[s], r) = db[s]
    BY <1>1, <1>3, ExecutedType DEF RInv, RTypeOK
  <2>3. db' = db /\ disk' = disk
    BY <1>1, <1>3, <2>2 DEF Perform, RInv, RTypeOK
  <2> QED
    BY <2>1, <2>3, DiskKept DEF dbs
<1>4. CASE Perform(i) /\ Accepts(db[s], r)
  <2>1. /\ db' = [db EXCEPT ![s] = Executed(@, r)]
        /\ disk' = [disk EXCEPT ![s] = EmptyDb]
        /\ tasks' = [tasks EXCEPT ![i].pc = "store", ![i].success = Accepts(db[s], r)]
    BY <1>4 DEF Perform
  <2>2. \A t \in Servers : t # s => db'[t] = db[t] /\ disk'[t] = disk[t]
    BY <2>1 DEF RInv, RTypeOK
  <2>3. tasks'[i] \in Task /\ tasks'[i].pc = "store"
    <3>1. tasks' = [tasks EXCEPT ![i] = [tasks[i] EXCEPT !.pc = "store",
                                                         !.success = Accepts(db[s], r)]]
      BY <2>1
    <3>2. Accepts(db[s], r) \in BOOLEAN
      BY AcceptsBoolean
    <3>3. [tasks[i] EXCEPT !.pc = "store", !.success = Accepts(db[s], r)] \in Task
      BY <1>1, <3>2 DEF Task
    <3> QED
      BY <1>1, <3>1, <3>3 DEF Task, RInv, RTypeOK
  <2>4. tasks'[i] # None
    BY <2>3, NoTaskAssumption
  <2>5. \A j \in Tasks \ {i} : tasks'[j] = tasks[j]
    BY <2>1 DEF RInv, RTypeOK
  <2>6. ASSUME NEW t \in Servers, up'[t],
               \A j \in Tasks : Server(j) = t => ~At(j, "store")'
        PROVE  disk'[t] = db'[t]
    <3>1. t # s
      BY <2>3, <2>4, <2>6 DEF At
    <3>2. ASSUME NEW j \in Tasks, Server(j) = t PROVE ~At(j, "store")
      <4>1. j # i
        BY <3>1, <3>2
      <4> QED
        BY <2>5, <2>6, <3>2, <4>1 DEF At
    <3> QED
      BY <2>2, <2>6, <3>1, <3>2 DEF DiskIsCurrent
  <2> QED
    BY <2>6 DEF DiskIsCurrent
<1> QED
  BY <1>2, <1>3, <1>4

\* A handler keeps the disk current: it starts no other in the place of one that
\* writes.
LEMMA TaskStepDisk ==
    ASSUME RInv, DiskIsCurrent, NEW i \in Tasks, TaskStep(i)
    PROVE  DiskIsCurrent'
<1>1. CASE Read(i) \/ Lead(i) \/ EndReplay(i) \/ Unheard(i) \/ Failed(i)
  <2>1. UNCHANGED <<up, dbs>>
    BY <1>1 DEF Read, Lead, EndReplay, Unheard, Failed, faults
  <2>2. \A j \in Tasks \ {i} : tasks'[j] = tasks[j]
    BY <1>1 DEF Read, Lead, EndReplay, Unheard, Failed, RInv, RTypeOK
  <2>3. ~At(i, "store")
    BY <1>1 DEF Read, Lead, EndReplay, Unheard, Failed, At
  <2> QED
    BY <2>1, <2>2, <2>3, DiskKept
<1>2. CASE Call(i)
  <2> DEFINE j == Callee(i, Target(i))
  <2>1. UNCHANGED <<up, dbs>> /\ tasks[j] = None /\ ~At(i, "store")
    BY <1>2 DEF Call, faults, At
  <2>2. \A l \in Tasks \ {i, j} : tasks'[l] = tasks[l]
    BY <1>2 DEF Call, RInv, RTypeOK
  <2> QED
    BY <2>1, <2>2, DiskKept DEF At
<1>3. CASE Returned(i)
  <2> DEFINE j == Callee(i, tasks[i].from)
  <2>1. UNCHANGED <<up, dbs>> /\ ~At(j, "store") /\ ~At(i, "store")
    BY <1>3 DEF Returned, faults, At
  <2>2. \A l \in Tasks \ {i, j} : tasks'[l] = tasks[l]
    BY <1>3 DEF Returned, RInv, RTypeOK
  <2> QED
    BY <2>1, <2>2, DiskKept
<1>4. CASE Follow(i) \/ Act(i)
  <2>1. /\ tasks[i] # None /\ tasks[i].pc # "store" /\ tasks[i].request.rpc \notin ReadOnly
        /\ Discard(i) \/ Perform(i)
        /\ UNCHANGED up
    BY <1>4, InLoop DEF Follow, Act, At, faults
  <2> QED
    BY <2>1, ExecuteDisk
<1>5. CASE Store(i)
  <2>1. /\ disk' = [disk EXCEPT ![Server(i)] = db[Server(i)]] /\ db' = db /\ up' = up
        /\ tasks' = [tasks EXCEPT ![i].pc = "done"]
    BY <1>5 DEF Store, faults
  <2>2. \A j \in Tasks \ {i} : tasks'[j] = tasks[j]
    BY <2>1 DEF RInv, RTypeOK
  <2>3. Server(i) \in Servers
    BY TaskName
  <2>4. disk'[Server(i)] = db'[Server(i)]
    BY <2>1, <2>3 DEF RInv, RTypeOK
  <2>5. \A t \in Servers : t # Server(i) => disk'[t] = disk[t]
    BY <2>1 DEF RInv, RTypeOK
  <2>6. ASSUME NEW t \in Servers, up'[t], t # Server(i),
               \A j \in Tasks : Server(j) = t => ~At(j, "store")'
        PROVE  disk'[t] = db'[t]
    <3>1. \A j \in Tasks : Server(j) = t => ~At(j, "store")
      BY <2>2, <2>6 DEF At
    <3> QED
      BY <2>1, <2>5, <2>6, <3>1 DEF DiskIsCurrent
  <2> QED
    BY <2>4, <2>6 DEF DiskIsCurrent
<1> QED
  BY <1>1, <1>2, <1>3, <1>4, <1>5 DEF TaskStep

\* A client puts no handler in the place of one that writes.
LEMMA ConnectDisk ==
    ASSUME RInv, DiskIsCurrent, NEW c \in Clients, NEW h \in Threads, NEW r, NEW s \in 0 .. 3,
           Connect(c, h, r, s), UNCHANGED <<up, dbs>>,
           \/ pending[c][h] = None /\ s = curr_leader[c]
           \/ s = curr_leader[c] + 1
    PROVE  DiskIsCurrent'
<1> DEFINE j == <<<<c, h>>, <<s>>>>
<1>1. s \in Servers => tasks[j] = None
  BY NobodyThere
<1>2. tasks' = IF s \in Servers /\ up[s] THEN [tasks EXCEPT ![j] = NewTask(r, TRUE, 0)]
               ELSE tasks
  BY DEF Connect
<1> HIDE DEF j
<1>3. \A i \in Tasks : At(i, "store") => tasks'[i] = tasks[i]
  BY <1>1, <1>2 DEF At, RInv, RTypeOK
<1> QED
  BY <1>3, DiskKept

\* Whoever asks keeps the disk current.
LEMMA AskDisk ==
    ASSUME RInv, DiskIsCurrent, NEW c \in Clients, NEW h \in Threads, NEW r, Ask(c, h, r)
    PROVE  DiskIsCurrent'
<1>1. PICK s \in 0 .. 3 : s = curr_leader[c]
  BY DEF RInv, RTypeOK
<1>2. pending[c][h] = None /\ Connect(c, h, r, s) /\ UNCHANGED <<up, dbs>>
  BY <1>1 DEF Ask, faults
<1> QED
  BY <1>1, <1>2, ConnectDisk

\* Going on to the next server keeps the disk current.
LEMMA TryNextDisk ==
    ASSUME RInv, DiskIsCurrent, NEW c \in Clients, NEW h \in Threads, TryNext(c, h),
           UNCHANGED up
    PROVE  DiskIsCurrent'
<1>1. PICK s \in 0 .. 3 : s = curr_leader[c] + 1
  BY WaitingFacts DEF TryNext
<1>2. PICK r : r = pending[c][h].request
  OBVIOUS
<1>3. Connect(c, h, r, s) /\ UNCHANGED <<up, dbs>>
  BY <1>1, <1>2 DEF TryNext
<1> QED
  BY <1>1, <1>3, ConnectDisk

\* An answer ends a handler that has written.
LEMMA AnswerDisk ==
    ASSUME RInv, DiskIsCurrent, NEW c \in Clients, NEW h \in Threads, Answer(c, h)
    PROVE  DiskIsCurrent'
<1>1. /\ At(Awaited(c, h), "done") /\ tasks' = [tasks EXCEPT ![Awaited(c, h)] = None]
      /\ UNCHANGED <<up, dbs>>
  BY DEF Answer, faults
<1>2. \A i \in Tasks : At(i, "store") => tasks'[i] = tasks[i]
  BY <1>1 DEF At, RInv, RTypeOK
<1> QED
  BY <1>1, <1>2, DiskKept

\* A step of a client keeps the disk current.
LEMMA ClientsDisk ==
    ASSUME RInv, DiskIsCurrent, NEW c \in Clients,
           \/ ClientStep(c) \/ Leave(c)
           \/ \E h \in Threads : TimeOut(c, h)
           \/ \E r \in Requests : Issue(c, r)
    PROVE  DiskIsCurrent'
<1>1. ASSUME NEW h \in Threads, FailOver(c, h) \/ TimeOut(c, h) PROVE DiskIsCurrent'
  <2>1. TryNext(c, h) /\ UNCHANGED up
    BY <1>1 DEF FailOver, TimeOut, faults
  <2> QED
    BY <2>1, TryNextDisk
<1>2. ASSUME NEW r \in Requests, Issue(c, r) PROVE DiskIsCurrent'
  <2>1. Ask(c, "main", r) /\ "main" \in Threads
    BY <1>2 DEF Issue, AskLocked, Threads
  <2> QED
    BY <2>1, AskDisk
<1>3. CASE Homepage(c) \/ ListUsers(c) \/ Poll(c)
  <2>1. PICK h \in Threads : \E q : Ask(c, h, q)
    BY <1>3 DEF Homepage, ListUsers, Poll, AskLocked, Threads
  <2> QED
    BY <2>1, AskDisk
<1>4. CASE Leave(c)
  <2>1. UNCHANGED <<up, dbs, tasks>>
    BY <1>4 DEF Leave, faults
  <2> QED
    BY <2>1, DiskKept
<1> QED
  BY <1>1, <1>2, <1>3, <1>4, AnswerDisk DEF ClientStep, ThreadStep

\* A crash leaves the disks of the others current, and a restart reads what there is.
LEMMA FaultDisk ==
    ASSUME RInv, DiskIsCurrent, NEW s \in Servers, Crash(s) \/ Restart(s)
    PROVE  DiskIsCurrent'
<1>1. CASE Crash(s)
  <2>1. /\ up' = [up EXCEPT ![s] = FALSE] /\ UNCHANGED dbs
        /\ tasks' = [i \in Tasks |-> IF Server(i) = s THEN None ELSE tasks[i]]
    BY <1>1 DEF Crash
  <2>2. ASSUME NEW t \in Servers, up'[t],
               \A j \in Tasks : Server(j) = t => ~At(j, "store")'
        PROVE  disk'[t] = db'[t]
    <3>1. t # s /\ up[t]
      BY <2>1, <2>2 DEF RInv, RTypeOK
    <3>2. \A j \in Tasks : Server(j) = t => ~At(j, "store")
      BY <2>1, <2>2, <3>1 DEF At
    <3> QED
      BY <2>1, <3>1, <3>2 DEF DiskIsCurrent, dbs
  <2> QED
    BY <2>2 DEF DiskIsCurrent
<1>2. CASE Restart(s)
  <2>1. /\ up' = [up EXCEPT ![s] = TRUE] /\ db' = [db EXCEPT ![s] = disk[s]]
        /\ disk' = disk /\ tasks' = tasks
    BY <1>2 DEF Restart
  <2>2. ASSUME NEW t \in Servers, up'[t],
               \A j \in Tasks : Server(j) = t => ~At(j, "store")'
        PROVE  disk'[t] = db'[t]
    <3>1. CASE t = s
      BY <2>1, <3>1 DEF RInv, RTypeOK
    <3>2. CASE t # s
      <4>1. up[t] /\ db'[t] = db[t]
        BY <2>1, <2>2, <3>2 DEF RInv, RTypeOK
      <4>2. \A j \in Tasks : Server(j) = t => ~At(j, "store")
        BY <2>1, <2>2 DEF At
      <4> QED
        BY <2>1, <4>1, <4>2 DEF DiskIsCurrent
    <3> QED
      BY <3>1, <3>2
  <2> QED
    BY <2>2 DEF DiskIsCurrent
<1> QED
  BY <1>1, <1>2

\* A server that stops while no handler of it is writing starts again with all it had
\* (storeData and loadData, chat262-replication/server.py), whatever the others do
\* and however many clients there are.
THEOREM DiskHoldsDatabase == RSpec => []DiskIsCurrent
<1>1. RInit => DiskIsCurrent
  BY DEF RInit, DiskIsCurrent
<1>2. ASSUME RInv, DiskIsCurrent, [RNext]_rvars PROVE DiskIsCurrent'
  <2>1. CASE UNCHANGED rvars
    BY <2>1, <1>2, DiskKept DEF rvars, faults
  <2>2. ASSUME NEW s \in Servers, Crash(s) \/ Restart(s) PROVE DiskIsCurrent'
    BY <1>2, <2>2, FaultDisk
  <2>3. ASSUME NEW c \in Clients,
               \/ ClientStep(c) \/ Leave(c)
               \/ \E h \in Threads : TimeOut(c, h)
               \/ \E r \in Requests : Issue(c, r)
        PROVE  DiskIsCurrent'
    BY <1>2, <2>3, ClientsDisk
  <2>4. ASSUME NEW i \in Tasks, TaskStep(i) PROVE DiskIsCurrent'
    BY <1>2, <2>4, TaskStepDisk
  <2> QED
    BY <1>2, <2>1, <2>2, <2>3, <2>4 DEF RNext
<1> QED
  BY <1>1, <1>2, RInvariance, PTL DEF RSpec

-----------------------------------------------------------------------------
(***************************************************************************)
(* When clients give up.  The servers fail by stopping: no answer of a live*)
(* server comes late, and none is started again.                           *)
(***************************************************************************)

\* Two threads of a program never wait at the same time.
LEMMA OneWaits ==
    ASSUME RInv, NEW c \in Clients, NEW h \in Threads, NEW g \in Threads,
           pending[c][h] # None, pending[c][g] # None
    PROVE  g = h
<1>1. /\ stage[c] = "chat" => chat_stub_lock[c] = h /\ chat_stub_lock[c] = g
      /\ h = "inbox" \/ g = "inbox" => stage[c] = "chat"
  BY DEF RInv, ProgramInv
<1> QED
  BY <1>1 DEF Threads

\* A handler that a client waits for is not lost to a step of the handlers.
LEMMA AwaitedKept ==
    ASSUME RInv, NEW i \in Tasks, TaskStep(i), NEW c \in Clients, NEW h \in Threads,
           Waiting(c, h), tasks[Awaited(c, h)] # None
    PROVE  tasks'[Awaited(c, h)] # None
<1> DEFINE a == Awaited(c, h)
<1>1. /\ a \in Tasks /\ pending[c][h] # None /\ pending[c][h].at \in Servers
  BY WaitingFacts
<1>2. a[1] = <<c, h>> /\ a[2] = <<pending[c][h].at>> /\ Len(a[2]) = 1
  BY DEF Awaited
<1>3. Server(a) = pending[c][h].at
  BY <1>2 DEF Server
<1>4. Heard(a)
  BY <1>1, <1>2, <1>3 DEF Heard
<1> HIDE DEF a
<1>5. CASE Unheard(i)
  BY <1>1, <1>4, <1>5 DEF Unheard, RInv, RTypeOK, a
<1>6. CASE Returned(i)
  <2> DEFINE j == Callee(i, tasks[i].from)
  <2>1. j # a
    BY <1>2, <1>6, InWait DEF Returned
  <2>2. \A l \in Tasks \ {i, j} : tasks'[l] = tasks[l]
    BY <1>6 DEF Returned, RInv, RTypeOK
  <2>3. tasks'[i] # None
    BY <1>6, ReturnedInv
  <2> QED
    BY <1>1, <2>1, <2>2, <2>3 DEF a
<1>7. CASE Call(i)
  <2> DEFINE j == Callee(i, Target(i))
  <2>1. j # a
    BY <1>7 DEF Call, a
  <2>2. \A l \in Tasks \ {i, j} : tasks'[l] = tasks[l]
    BY <1>7 DEF Call, RInv, RTypeOK
  <2>3. tasks'[i] # None
    BY <1>7, CallInv
  <2> QED
    BY <1>1, <2>1, <2>2, <2>3 DEF a
<1>8. CASE \/ Read(i) \/ Lead(i) \/ Failed(i) \/ EndReplay(i) \/ Follow(i) \/ Act(i)
           \/ Store(i)
  <2>1. \A l \in Tasks \ {i} : tasks'[l] = tasks[l]
    BY <1>8 DEF Read, Lead, Failed, EndReplay, Follow, Act, Discard, Perform, Store,
                RInv, RTypeOK
  <2>2. tasks'[i] # None
    BY <1>8, ReadInv, LeadInv, FailedInv, EndReplayInv, FollowInv, ActInv, StoreInv
  <2> QED
    BY <1>1, <2>1, <2>2 DEF a
<1> QED
  BY <1>5, <1>6, <1>7, <1>8 DEF TaskStep

\* A step of a handler.
LEMMA TaskStepLeft ==
    ASSUME RInv, LeftServersDown, NEW i \in Tasks, TaskStep(i)
    PROVE  LeftServersDown'
<1>1. UNCHANGED <<up, clientvars>>
  BY DEF TaskStep, Read, Lead, Call, Returned, Failed, EndReplay, Follow, Act, Store, Unheard,
         faults
<1>2. up' = up /\ curr_leader' = curr_leader /\ pending' = pending
  BY <1>1 DEF clientvars
<1>3. ASSUME NEW c \in Clients, NEW h \in Threads, Waiting(c, h), tasks[Awaited(c, h)] # None
      PROVE  tasks'[Awaited(c, h)] # None
  BY <1>3, AwaitedKept
<1> QED
  BY <1>2, <1>3 DEF LeftServersDown, Waiting, Gone, Awaited

\* A call on the stub of the server that the program is at, or has just turned to,
\* when the servers before it are down.
LEMMA ConnectLeft ==
    ASSUME RInv, RInv', LeftServersDown, NEW c \in Clients, NEW h \in Threads,
           NEW r \in Asked, NEW s \in 0 .. 3,
           Connect(c, h, r, s), UNCHANGED up, h = "inbox" => r.rpc \in ReadOnly,
           \/ pending[c][h] = None /\ s = curr_leader[c]
           \/ s = curr_leader[c] + 1,
           curr_leader'[c] = s,
           \A d \in Clients : d # c => curr_leader'[d] = curr_leader[d],
           \A t \in Servers : t < s => ~up[t]
    PROVE  LeftServersDown'
<1> DEFINE j == <<<<c, h>>, <<s>>>>
<1>1. s \in Servers => tasks[j] = None
  BY NobodyThere
<1>2. /\ \A i \in Tasks : tasks[i] # None => tasks'[i] # None
      /\ s \in Servers /\ up[s] => tasks'[j] # None
  <2>1. \A i \in Tasks :
            \/ tasks'[i] = tasks[i]
            \/ /\ s \in Servers /\ up[s] /\ i = <<<<c, h>>, <<s>>>>
               /\ tasks[i] = None /\ tasks'[i] # None /\ tasks'[i].request = r
               /\ tasks'[i].pc = "begin"
    BY <1>1, ConnectFacts
  <2>2. s \in Servers /\ up[s] => tasks'[j] # None
    <3> DEFINE k == NewTask(r, TRUE, 0)
    <3>1. k # None /\ (s \in Servers => j \in Tasks)
      BY NewTaskType, AwaitedName
    <3>2. s \in Servers /\ up[s] => tasks' = [tasks EXCEPT ![j] = k]
      BY DEF Connect
    <3> HIDE DEF k, j
    <3> QED
      BY <3>1, <3>2 DEF RInv, RTypeOK
  <2> QED
    BY <2>1, <2>2
<1>3. /\ pending'[c][h] = [request |-> r, at |-> s]
      /\ \A d \in Clients, g \in Threads :
            <<d, g>> # <<c, h>> => pending'[d][g] = pending[d][g]
  BY PendingFacts DEF RInv
<1>4. pending'[c][h] # None
  BY <1>3, NoTaskAssumption
<1>5. ASSUME NEW d \in Clients, NEW g \in Threads, Waiting(d, g)'
      PROVE  /\ pending'[d][g].at = curr_leader'[d]
             /\ up'[curr_leader'[d]] => tasks'[Awaited(d, g)'] # None
  <2>1. pending'[d][g] # None /\ ~(curr_leader'[d] > 2)
    BY <1>5 DEF Waiting, Gone
  <2>2. CASE d = c
    <3>1. g = h
      <4>1. chat_stub_lock' = chat_stub_lock' /\ RInv'
        OBVIOUS
      <4> QED
        BY <1>4, <2>1, <2>2 DEF RInv, ProgramInv, Threads
    <3>2. s \in Servers
      BY <2>1, <2>2 DEF Servers
    <3>3. pending'[d][g].at = s
      BY <1>3, <2>2, <3>1
    <3>4. Awaited(d, g)' = j
      BY <2>2, <3>1, <3>3 DEF Awaited
    <3> QED
      BY <1>2, <2>2, <3>2, <3>3, <3>4
  <2>3. CASE d # c
    <3>1. pending'[d][g] = pending[d][g] /\ curr_leader'[d] = curr_leader[d]
      BY <1>3, <2>3
    <3>2. Waiting(d, g) /\ Awaited(d, g)' = Awaited(d, g)
      BY <2>1, <3>1 DEF Waiting, Gone, Awaited
    <3>3. Awaited(d, g) \in Tasks
      BY <3>2, WaitingFacts
    <3>4. tasks[Awaited(d, g)] # None => tasks'[Awaited(d, g)] # None
      BY <1>2, <3>3
    <3> QED
      BY <3>1, <3>2, <3>4 DEF LeftServersDown
  <2> QED
    BY <2>2, <2>3
<1>6. \A d \in Clients, t \in Servers : t < curr_leader'[d] => ~up'[t]
  BY DEF LeftServersDown
<1> QED
  BY <1>5, <1>6 DEF LeftServersDown

\* Whoever asks.
LEMMA AskLeft ==
    ASSUME RInv, RInv', LeftServersDown, NEW c \in Clients, NEW h \in Threads,
           NEW r \in Asked, Ask(c, h, r), h = "inbox" => r.rpc \in ReadOnly
    PROVE  LeftServersDown'
<1>1. PICK s \in 0 .. 3 : s = curr_leader[c]
  BY DEF RInv, RTypeOK
<1>2. pending[c][h] = None /\ Connect(c, h, r, s) /\ UNCHANGED <<up, curr_leader>>
  BY <1>1 DEF Ask, faults
<1>3. \A t \in Servers : t < s => ~up[t]
  BY <1>1 DEF LeftServersDown
<1> QED
  BY <1>1, <1>2, <1>3, ConnectLeft

\* A thread goes on to the next server when its server is down.
LEMMA FailOverLeft ==
    ASSUME RInv, RInv', LeftServersDown, NEW c \in Clients, NEW h \in Threads, FailOver(c, h)
    PROVE  LeftServersDown'
<1>1. /\ Waiting(c, h) /\ tasks[Awaited(c, h)] = None /\ UNCHANGED up
      /\ Connect(c, h, pending[c][h].request, curr_leader[c] + 1)
      /\ curr_leader' = [curr_leader EXCEPT ![c] = @ + 1]
  BY DEF FailOver, TryNext, faults
<1>2. PICK r \in Asked : r = pending[c][h].request
  BY <1>1, WaitingFacts
<1>3. PICK s \in 0 .. 3 : s = curr_leader[c] + 1
  BY <1>1, WaitingFacts
<1>4. curr_leader[c] \in Servers /\ ~up[curr_leader[c]]
  BY <1>1, WaitingFacts DEF LeftServersDown
<1>5. \A t \in Servers : t < s => ~up[t]
  <2>1. \A t \in Servers : t < s => t < curr_leader[c] \/ t = curr_leader[c]
    BY <1>3, <1>4 DEF Servers
  <2> QED
    BY <1>4, <2>1 DEF LeftServersDown
<1>6. h = "inbox" => r.rpc \in ReadOnly
  BY <1>1, <1>2, WaitingFacts DEF Due, ReadOnly
<1>7. curr_leader'[c] = s /\ \A d \in Clients : d # c => curr_leader'[d] = curr_leader[d]
  BY <1>1, <1>3 DEF RInv, RTypeOK
<1>8. Connect(c, h, r, s)
  BY <1>1, <1>2, <1>3
<1> QED
  BY <1>1, <1>3, <1>5, <1>6, <1>7, <1>8, ConnectLeft

\* An answer, or the end of a program.
LEMMA AnswerLeft ==
    ASSUME RInv, LeftServersDown, NEW c \in Clients, NEW h \in Threads, Answer(c, h)
    PROVE  LeftServersDown'
<1>1. /\ Waiting(c, h) /\ UNCHANGED <<up, curr_leader>>
      /\ pending' = [pending EXCEPT ![c][h] = None]
      /\ tasks' = [tasks EXCEPT ![Awaited(c, h)] = None]
  BY DEF Answer, faults
<1>2. ASSUME NEW d \in Clients, NEW g \in Threads, Waiting(d, g)'
      PROVE  /\ pending'[d][g].at = curr_leader'[d]
             /\ up'[curr_leader'[d]] => tasks'[Awaited(d, g)'] # None
  <2>1. <<d, g>> # <<c, h>> /\ pending'[d][g] = pending[d][g]
    BY <1>1, <1>2 DEF RInv, RTypeOK, Waiting
  <2>2. Waiting(d, g) /\ Awaited(d, g)' = Awaited(d, g)
    BY <1>1, <1>2, <2>1 DEF Waiting, Gone, Awaited
  <2>3. Awaited(d, g) # Awaited(c, h)
    BY <2>1 DEF Awaited
  <2>4. Awaited(d, g) \in Tasks
    BY <2>2, WaitingFacts
  <2>5. tasks'[Awaited(d, g)] = tasks[Awaited(d, g)]
    BY <1>1, <2>3, <2>4 DEF RInv, RTypeOK
  <2> QED
    BY <1>1, <2>1, <2>2, <2>5 DEF LeftServersDown
<1> QED
  BY <1>1, <1>2 DEF LeftServersDown

LEMMA LeaveLeft ==
    ASSUME RInv, LeftServersDown, NEW c \in Clients, Leave(c)
    PROVE  LeftServersDown'
<1>1. /\ \A h \in Threads : pending[c][h] = None
      /\ curr_leader' = [curr_leader EXCEPT ![c] = 0]
      /\ UNCHANGED <<up, pending, tasks>>
  BY DEF Leave, faults
<1>2. curr_leader'[c] = 0 /\ \A d \in Clients : d # c => curr_leader'[d] = curr_leader[d]
  BY <1>1 DEF RInv, RTypeOK
<1>3. \A t \in Servers : ~(t < 0)
  BY DEF Servers
<1> QED
  BY <1>1, <1>2, <1>3 DEF LeftServersDown, Waiting, Gone, Awaited

\* A server stops: the clients it worked for do not find it up.
LEMMA CrashLeft ==
    ASSUME RInv, LeftServersDown, NEW s \in Servers, Crash(s)
    PROVE  LeftServersDown'
<1>1. /\ up' = [up EXCEPT ![s] = FALSE] /\ UNCHANGED <<curr_leader, pending>>
      /\ tasks' = [i \in Tasks |-> IF Server(i) = s THEN None ELSE tasks[i]]
  BY DEF Crash, clientvars
<1>2. \A t \in Servers : up'[t] => up[t] /\ t # s
  BY <1>1 DEF RInv, RTypeOK
<1>3. ASSUME NEW c \in Clients, NEW h \in Threads, Waiting(c, h), up'[curr_leader[c]]
      PROVE  pending[c][h].at = curr_leader[c] /\ tasks'[Awaited(c, h)] # None
  <2>1. /\ curr_leader[c] \in Servers /\ Awaited(c, h) \in Tasks
        /\ pending[c][h].at = curr_leader[c]
    BY <1>3, WaitingFacts DEF LeftServersDown
  <2>2. Server(Awaited(c, h)) = curr_leader[c]
    BY <2>1 DEF Awaited, Server
  <2>3. tasks[Awaited(c, h)] # None /\ Server(Awaited(c, h)) # s
    BY <1>2, <1>3, <2>1, <2>2 DEF LeftServersDown
  <2> QED
    BY <1>1, <2>1, <2>3
<1>4. \A c \in Clients, t \in Servers : t < curr_leader'[c] => ~up'[t]
  BY <1>1, <1>2 DEF LeftServersDown
<1>5. ASSUME NEW c \in Clients, NEW h \in Threads, Waiting(c, h)'
      PROVE  /\ pending'[c][h].at = curr_leader'[c]
             /\ up'[curr_leader'[c]] => tasks'[Awaited(c, h)'] # None
  <2>1. Waiting(c, h) /\ Awaited(c, h)' = Awaited(c, h)
    BY <1>1, <1>5 DEF Waiting, Gone, Awaited
  <2>2. pending[c][h].at = curr_leader[c]
    BY <2>1 DEF LeftServersDown
  <2> QED
    BY <1>1, <1>3, <2>1, <2>2
<1> QED
  BY <1>4, <1>5 DEF LeftServersDown

\* No step of the system makes a client leave a server that is up.
LEMMA LeftInvariance ==
    ASSUME MaxTimeOuts = 0, MaxRestarts = 0
    PROVE  RSpec => []LeftServersDown
<1>1. RInit => LeftServersDown
  <2>1. \A t \in Servers : ~(t < 0)
    BY DEF Servers
  <2>2. ASSUME RInit, NEW c \in Clients
        PROVE  /\ curr_leader[c] = 0
               /\ \A h \in Threads : pending[c][h] = None
    BY <2>2 DEF RInit
  <2> QED
    BY <2>1, <2>2 DEF LeftServersDown, Waiting
<1>2. ASSUME RInv, RInv', LeftServersDown, [RNext]_rvars PROVE LeftServersDown'
  <2>1. CASE UNCHANGED rvars
    BY <1>2, <2>1 DEF LeftServersDown, Waiting, Gone, Awaited, rvars, faults, clientvars
  <2>2. ASSUME NEW c \in Clients, NEW r \in Requests, Issue(c, r) PROVE LeftServersDown'
    <3>1. Ask(c, "main", r) /\ "main" \in Threads /\ r \in Asked
      BY <2>2 DEF Issue, AskLocked, Threads, Asked
    <3> QED
      BY <1>2, <3>1, AskLeft
  <2>3. ASSUME NEW c \in Clients, Homepage(c) \/ ListUsers(c) \/ Poll(c)
        PROVE  LeftServersDown'
    <3>1. ASSUME NEW h \in Threads, NEW q \in Asked, Ask(c, h, q), q.rpc \in ReadOnly
          PROVE  LeftServersDown'
      BY <1>2, <3>1, AskLeft
    <3>2. CASE ListUsers(c)
      <4>1. Ask(c, "main", GetUsers)
        BY <3>2 DEF ListUsers
      <4>2. GetUsers \in Asked /\ GetUsers.rpc \in ReadOnly /\ "main" \in Threads
        BY DEF Asked, GetUsers, ReadOnly, Threads
      <4> QED
        BY <3>1, <4>1, <4>2
    <3>3. CASE Homepage(c) \/ Poll(c)
      <4>1. PICK h \in Threads : Ask(c, h, ReceiveMessage(username[c]))
        BY <3>3 DEF Homepage, Poll, AskLocked, Threads
      <4>2. PICK q \in Asked : q = ReceiveMessage(username[c])
        BY <1>2, <3>3, InboxRequest DEF Homepage, Poll
      <4>3. q.rpc \in ReadOnly
        BY <4>2 DEF ReceiveMessage, ReadOnly
      <4> QED
        BY <3>1, <4>1, <4>2, <4>3
    <3> QED
      BY <2>3, <3>2, <3>3
  <2>4. ASSUME NEW c \in Clients, NEW h \in Threads PROVE ~TimeOut(c, h)
    BY <1>2 DEF TimeOut, RInv, RTypeOK
  <2>5. ASSUME NEW s \in Servers PROVE ~Restart(s)
    BY <1>2 DEF Restart, RInv, RTypeOK
  <2>6. ASSUME NEW c \in Clients, ClientStep(c) PROVE LeftServersDown'
    BY <1>2, <2>3, <2>6, AnswerLeft, FailOverLeft DEF ClientStep, ThreadStep
  <2> QED
    BY <1>2, <2>1, <2>2, <2>4, <2>5, <2>6, TaskStepLeft, LeaveLeft, CrashLeft DEF RNext
<1> QED
  BY <1>1, <1>2, RInvariance, PTL DEF RSpec

\* When servers fail only by stopping, a client that says that all three have failed
\* (send_request, chat262-replication/client.py) is right, although its two threads
\* count through the servers with one number.
THEOREM ClientsGiveUpRightly ==
    ASSUME MaxTimeOuts = 0, MaxRestarts = 0
    PROVE  RSpec => []GivesUpRightly
<1>1. RInv /\ LeftServersDown => GivesUpRightly
  <2> SUFFICES ASSUME RInv, LeftServersDown, NEW c \in Clients, Gone(c), NEW s \in Servers
               PROVE  ~up[s]
    BY DEF GivesUpRightly
  <2>1. curr_leader[c] \in 0 .. 3 /\ s < curr_leader[c]
    BY DEF RInv, RTypeOK, Gone, Servers
  <2> QED
    BY <2>1 DEF LeftServersDown
<1> QED
  BY <1>1, RInvariance, LeftInvariance, PTL
=============================================================================
