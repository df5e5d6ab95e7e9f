-------------------------- MODULE AgreementProofs --------------------------
(***************************************************************************)
(* That the replicated servers agree, for one client and any requests, when*)
(* servers fail by stopping and no answer comes late.                      *)
(***************************************************************************)
EXTENDS Agreement, ReplicationProofs

-----------------------------------------------------------------------------
(***************************************************************************)
(* The handlers that the main thread of a client asks for.                 *)
(***************************************************************************)

LEMMA RootName ==
    ASSUME NEW c \in Clients, NEW s \in Servers
    PROVE  /\ Root(c, s) \in Tasks /\ Server(Root(c, s)) = s
           /\ Root(c, s)[1] = <<c, "main">> /\ Len(Root(c, s)[2]) = 1
BY AwaitedName DEF Root, Threads

LEMMA ChildName ==
    ASSUME NEW c \in Clients, NEW s \in Servers, NEW t \in Later(s)
    PROVE  /\ Child(c, s, t) \in Tasks /\ Server(Child(c, s, t)) = t /\ t \in Servers
           /\ Child(c, s, t)[1] = <<c, "main">> /\ Len(Child(c, s, t)[2]) = 2
           /\ Callee(Root(c, s), t) = Child(c, s, t)
<1>1. t \in Servers
  BY DEF Later
<1>2. Append(<<s>>, t) = <<s, t>>
  BY <1>1, AppendToOne
<1>3. Callee(Root(c, s), t) = Child(c, s, t)
  BY <1>2 DEF Callee, Root, Child
<1>4. /\ Root(c, s)[1][2] = "main" /\ Root(c, s) \in Tasks /\ t \in Later(Server(Root(c, s)))
      /\ Root(c, s)[1] = <<c, "main">> /\ Len(Root(c, s)[2]) = 1
  BY RootName DEF Root
<1>5. /\ Callee(Root(c, s), t) \in Tasks /\ Server(Callee(Root(c, s), t)) = t
      /\ Callee(Root(c, s), t)[1] = Root(c, s)[1]
      /\ Len(Callee(Root(c, s), t)[2]) = Len(Root(c, s)[2]) + 1
  BY <1>4, CalleeName
<1> QED
  BY <1>1, <1>3, <1>4, <1>5

\* Handlers of different servers, or on different paths, are not the same.
LEMMA Distinct ==
    ASSUME NEW c
    PROVE  /\ \A s, t : Root(c, s) = Root(c, t) => s = t
           /\ \A s, u, v : Root(c, s) # Child(c, u, v)
           /\ \A s, t, u, v : Child(c, s, t) = Child(c, u, v) => s = u /\ t = v
<1>1. \A s, t : Root(c, s) = Root(c, t) => s = t
  BY DEF Root
<1>2. \A s, u, v : Root(c, s) # Child(c, u, v)
  <2>1. \A s, u, v : Len(<<s>>) # Len(<<u, v>>)
    OBVIOUS
  <2> QED
    BY <2>1 DEF Root, Child
<1>3. \A s, t, u, v : Child(c, s, t) = Child(c, u, v) => s = u /\ t = v
  BY DEF Child
<1> QED
  BY <1>1, <1>2, <1>3

-----------------------------------------------------------------------------
(***************************************************************************)
(* Requests that have been executed.                                       *)
(***************************************************************************)

\* A database reflects the request that it has just executed.
LEMMA ReflectsExecuted ==
    ASSUME NEW d \in Database, NEW r \in Requests, Writes(r)
    PROVE  Reflects(Executed(d, r), r) /\ Executed(d, r) \in Database
<1>1. Executed(d, r) \in Database
  BY ExecutedType DEF Writes
<1>2. CASE r.rpc = "Register"
  <2>1. r.username \in Names /\ r.password \in Passwords
    BY <1>2, RequestsAssumption DEF Credentials, Sendings
  <2>2. CASE Accepts(d, r)
    <3>1. Executed(d, r) = [d EXCEPT !.passwords[r.username] = r.password]
      BY <1>2, <2>2 DEF Executed, ReadOnly
    <3>2. Executed(d, r).passwords[r.username] = r.password
      BY <2>1, <3>1 DEF Database
    <3> QED
      BY <1>1, <1>2, <2>1, <3>2, NoneAssumption DEF Reflects
  <2>3. CASE ~Accepts(d, r)
    BY <1>2, <2>3 DEF Executed, Accepts, Reflects
  <2> QED
    BY <2>2, <2>3
<1>3. CASE r.rpc = "DeleteAccount"
  <2>1. r.username \in Names /\ r.password \in Passwords
    BY <1>3, RequestsAssumption DEF Credentials, Sendings
  <2>2. CASE Accepts(d, r)
    <3>1. Executed(d, r) = [d EXCEPT !.passwords[r.username] = Absent]
      BY <1>3, <2>2 DEF Executed, ReadOnly
    <3>2. Executed(d, r).passwords[r.username] = Absent
      BY <2>1, <3>1 DEF Database
    <3> QED
      BY <1>1, <1>3, <2>1, <3>2, NoneAssumption DEF Reflects
  <2>3. CASE ~Accepts(d, r)
    BY <1>3, <2>3 DEF Executed, Accepts, Reflects
  <2> QED
    BY <2>2, <2>3
<1>4. CASE r.rpc = "SendMessage"
  <2> DEFINE m == [sender |-> r.sender, body |-> r.body]
  <2>1. r.receiver \in Names /\ m \in Message
    BY <1>4, RequestsAssumption DEF Credentials, Sendings, Message
  <2>2. CASE Accepts(d, r)
    <3> DEFINE q == d.messages[r.receiver]
    <3>1. Executed(d, r) = [d EXCEPT !.messages[r.receiver] = Append(@, m)]
      BY <1>4, <2>2 DEF Executed, ReadOnly
    <3>2. q \in Seq(Message) /\ Executed(d, r).messages[r.receiver] = Append(q, m)
      BY <2>1, <3>1 DEF Database
    <3> HIDE DEF q
    <3>3. /\ Append(q, m) \in Seq(Message) /\ Len(Append(q, m)) = Len(q) + 1
          /\ Append(q, m)[Len(q) + 1] = m
      BY <2>1, <3>2, AppendFacts
    <3>4. Len(q) + 1 \in DOMAIN Append(q, m)
      BY <3>2, <3>3
    <3> QED
      BY <1>1, <1>4, <3>2, <3>3, <3>4 DEF Reflects, ReadOnly
  <2>3. CASE ~Accepts(d, r)
    BY <1>4, <2>3, ExecutedType DEF Reflects, Writes
  <2> QED
    BY <2>2, <2>3
<1> QED
  BY <1>1, <1>2, <1>3, <1>4, AskedChange DEF Writes, Asked

-----------------------------------------------------------------------------
(***************************************************************************)
(* Where the work is done.                                                 *)
(***************************************************************************)

\* Nobody works for the client but the server it is at and, for that one, a later
\* server.  The server it is at knows of the request if it is up.
LEMMA AtLeader ==
    ASSUME RInv, LeftServersDown, AInv,
           NEW c \in Clients, NEW L \in Servers, curr_leader[c] = L
    PROVE  /\ \A s \in Servers : s # L =>
                 /\ tasks[Root(c, s)] = None
                 /\ \A t \in Later(s) : tasks[Child(c, s, t)] = None
           /\ \A s \in Servers : s < L => ~up[s]
           /\ tasks[Root(c, L)] # None =>
                 /\ up[L] /\ tasks[Root(c, L)] \in Task /\ pending[c]["main"] # None
                 /\ pending[c]["main"].request = tasks[Root(c, L)].request
           /\ pending[c]["main"] # None =>
                 /\ pending[c]["main"].at = L
                 /\ up[L] => tasks[Root(c, L)] # None
           /\ PlacesInv(c) /\ RootInv(c, L) /\ \A t \in Later(L) : ChildInv(c, L, t)
<1>1. PlacesInv(c) /\ RootInv(c, L) /\ \A t \in Later(L) : ChildInv(c, L, t)
  BY DEF AInv, TreeInv
<1>2. ASSUME NEW s \in Servers, s # L
      PROVE  tasks[Root(c, s)] = None /\ \A t \in Later(s) : tasks[Child(c, s, t)] = None
  <2>1. tasks[Root(c, s)] = None
    BY <1>1, <1>2, RootName, Distinct DEF PlacesInv
  <2>2. ASSUME NEW t \in Later(s) PROVE tasks[Child(c, s, t)] = None
    BY <1>1, <1>2, ChildName, Distinct DEF PlacesInv
  <2> QED
    BY <2>1, <2>2
<1>3. pending[c]["main"] # None =>
         /\ pending[c]["main"].at = L
         /\ up[L] => tasks[Root(c, L)] # None
  <2> SUFFICES ASSUME pending[c]["main"] # None
               PROVE  pending[c]["main"].at = L /\ (up[L] => tasks[Root(c, L)] # None)
    OBVIOUS
  <2>1. Waiting(c, "main") /\ "main" \in Threads
    BY DEF Waiting, Gone, Servers, Threads
  <2>2. pending[c]["main"].at = L /\ (up[L] => tasks[Awaited(c, "main")] # None)
    BY <2>1 DEF LeftServersDown
  <2> QED
    BY <2>2 DEF Awaited, Root
<1>4. ASSUME tasks[Root(c, L)] # None
      PROVE  /\ up[L] /\ tasks[Root(c, L)] \in Task /\ pending[c]["main"] # None
             /\ pending[c]["main"].request = tasks[Root(c, L)].request
  <2>1. up[L] /\ tasks[Root(c, L)] \in Task
    BY <1>4, RootName DEF RInv, RTypeOK, TasksInv
  <2>2. pending[c]["main"] # None
    BY <1>1, <1>4, RootName DEF PlacesInv
  <2>3. pending[c]["main"].request = tasks[Root(c, L)].request
    BY <1>3, <1>4, <2>2 DEF RInv, ProgramInv, Root, Threads
  <2> QED
    BY <2>1, <2>2, <2>3
<1>5. \A s \in Servers : s < L => ~up[s]
  BY DEF LeftServersDown
<1> QED
  BY <1>1, <1>2, <1>3, <1>4, <1>5

\* A step of the handlers keeps the invariant when it starts none elsewhere and
\* keeps what is said of the server that the client is at.
LEMMA HandlerStep ==
    ASSUME RInv, LeftServersDown, AInv, NEW c \in Clients, Clients = {c},
           NEW L \in Servers, curr_leader[c] = L, UNCHANGED <<up, curr_leader, pending>>,
           \A i \in Tasks : tasks'[i] # None /\ tasks'[i] # tasks[i] =>
              /\ pending[c]["main"] # None
              /\ i = Root(c, L) \/ \E t \in Later(L) : i = Child(c, L, t),
           RolesInv', RootInv(c, L)', \A t \in Later(L) : ChildInv(c, L, t)',
           \A t \in Later(L) : ~am_i_leader'[t],
           \A t \in Later(L) : up[L] /\ up[t] =>
              IF am_i_leader'[L] THEN LeaderInv(c, L, t)' ELSE FollowersInv(c, L, t)',
           L = 0 /\ up[1] /\ up[2] => FollowersInv(c, 1, 2)'
    PROVE  AInv'
<1>1. /\ \A s \in Servers : s # L =>
            /\ tasks[Root(c, s)] = None
            /\ \A t \in Later(s) : tasks[Child(c, s, t)] = None
      /\ PlacesInv(c) /\ \A s \in Servers : s < L => ~up[s]
  BY AtLeader
<1>2. PlacesInv(c)'
  <2> SUFFICES ASSUME NEW i \in Tasks, i[1] = <<c, "main">>, tasks'[i] # None
               PROVE  /\ pending[c]["main"] # None
                      /\ i = Root(c, L) \/ \E t \in Later(L) : i = Child(c, L, t)
    BY DEF PlacesInv
  <2>1. CASE tasks'[i] = tasks[i]
    BY <1>1, <2>1 DEF PlacesInv
  <2> QED
    BY <2>1
<1>3. ASSUME NEW s \in Servers, s # L
      PROVE  RootInv(c, s)' /\ \A t \in Later(s) : ChildInv(c, s, t)'
  <2>1. tasks'[Root(c, s)] = None
    BY <1>1, <1>3, RootName, Distinct
  <2>2. ASSUME NEW t \in Later(s) PROVE tasks'[Child(c, s, t)] = None
    BY <1>1, <1>3, ChildName, Distinct
  <2> QED
    BY <2>1, <2>2 DEF RootInv, ChildInv
<1>4. TreeInv'
  BY <1>2, <1>3 DEF TreeInv
<1>5. ASSUME NEW s \in Servers, NEW t \in Later(s), up[s], up[t]
      PROVE  IF am_i_leader'[s] THEN LeaderInv(c, s, t)' ELSE FollowersInv(c, s, t)'
  <2>1. CASE s = L
    BY <1>5, <2>1
  <2>2. CASE s # L
    <3>1. L = 0 /\ s = 1 /\ t = 2
      BY <1>1, <1>5, <2>2 DEF Later, Servers
    <3>2. ~am_i_leader'[1]
      BY <3>1 DEF Later, Servers
    <3> QED
      BY <1>5, <3>1, <3>2
  <2> QED
    BY <2>1, <2>2
<1>6. DataInv'
  BY <1>5 DEF DataInv
<1> QED
  BY <1>4, <1>6 DEF AInv

-----------------------------------------------------------------------------
(***************************************************************************)
(* Steps of the handler of the client's request.                           *)
(***************************************************************************)

\* When there is one, its server is up, no later server leads, and there is a
\* handler of a later server only while it waits for it.  Server 0 replays nothing.
LEMMA AtRoot ==
    ASSUME RInv, LeftServersDown, AInv, NEW c \in Clients, NEW L \in Servers,
           curr_leader[c] = L, tasks[Root(c, L)] # None
    PROVE  /\ up[L] /\ tasks[Root(c, L)] \in Task /\ Root(c, L) \in Tasks
           /\ Server(Root(c, L)) = L /\ pending[c]["main"] # None
           /\ pending[c]["main"].request = tasks[Root(c, L)].request
           /\ RolesInv /\ RootInv(c, L)
           /\ \A t \in Later(L) :
                 /\ t \in 1 .. 2 /\ ~am_i_leader[t] /\ ChildInv(c, L, t)
                 /\ tasks[Child(c, L, t)] # None =>
                       tasks[Root(c, L)].pc = "wait" /\ tasks[Root(c, L)].from = t
                 /\ Child(c, L, t) \in Tasks /\ Child(c, L, t) # Root(c, L)
                 /\ up[t] =>
                       IF am_i_leader[L] THEN LeaderInv(c, L, t) ELSE FollowersInv(c, L, t)
           /\ L = 0 /\ up[1] /\ up[2] => FollowersInv(c, 1, 2)
           /\ L = 0 => am_i_leader[0]
           /\ L = 0 /\ InTheLoop(Root(c, 0)) => tasks[Root(c, 0)].replay = None
<1>1. /\ up[L] /\ tasks[Root(c, L)] \in Task /\ pending[c]["main"] # None
      /\ pending[c]["main"].request = tasks[Root(c, L)].request
      /\ RootInv(c, L) /\ \A t \in Later(L) : ChildInv(c, L, t)
  BY AtLeader
<1>2. RolesInv /\ DataInv
  BY DEF AInv
<1>3. ASSUME NEW t \in Later(L)
      PROVE  /\ t \in 1 .. 2 /\ ~am_i_leader[t]
             /\ tasks[Child(c, L, t)] # None =>
                   tasks[Root(c, L)].pc = "wait" /\ tasks[Root(c, L)].from = t
             /\ Child(c, L, t) \in Tasks /\ Child(c, L, t) # Root(c, L)
             /\ up[t] => IF am_i_leader[L] THEN LeaderInv(c, L, t) ELSE FollowersInv(c, L, t)
  <2>1. t \in 1 .. 2 /\ t \in Servers
    BY DEF Later, Servers
  <2>2. ~am_i_leader[t]
    BY <1>1, <1>2 DEF RolesInv
  <2>3. tasks[Child(c, L, t)] # None =>
           tasks[Root(c, L)].pc = "wait" /\ tasks[Root(c, L)].from = t
    BY <1>1 DEF ChildInv
  <2>4. Child(c, L, t) \in Tasks /\ Child(c, L, t) # Root(c, L)
    BY ChildName, Distinct
  <2>5. up[t] => IF am_i_leader[L] THEN LeaderInv(c, L, t) ELSE FollowersInv(c, L, t)
    BY <1>1, <1>2 DEF DataInv
  <2> QED
    BY <2>1, <2>2, <2>3, <2>4, <2>5
<1>4. ASSUME L = 0
      PROVE  /\ am_i_leader[0] /\ up[1] /\ up[2] => FollowersInv(c, 1, 2)
             /\ InTheLoop(Root(c, 0)) => tasks[Root(c, 0)].replay = None
  <2>1. 1 \in Servers /\ 2 \in Later(1) /\ 1 \in Later(L)
    BY <1>4 DEF Servers, Later
  <2>2. ~am_i_leader[1] /\ am_i_leader[0] /\ last_request[0] = None
    BY <1>2, <1>3, <2>1 DEF RolesInv
  <2>3. up[1] /\ up[2] => FollowersInv(c, 1, 2)
    BY <1>2, <2>1, <2>2 DEF DataInv
  <2>4. InTheLoop(Root(c, 0)) => tasks[Root(c, 0)].replay = None
    BY <1>1, <1>4, <2>2 DEF RootInv
  <2> QED
    BY <2>2, <2>3, <2>4
<1>5. am_i_leader[0]
  BY <1>2 DEF RolesInv
<1> QED
  BY <1>1, <1>2, <1>3, <1>4, <1>5, RootName

\* Databases and numbers that do not change differ as they did.
LEMMA SameData ==
    ASSUME UNCHANGED <<db, counter, last_request>>
    PROVE  \A s, t : /\ InStep(s, t)' <=> InStep(s, t)
                     /\ Matched(s, t)' <=> Matched(s, t)
                     /\ Behind(s, t)' <=> Behind(s, t)
BY DEF InStep, Matched, Behind

LEMMA FollowersKept ==
    ASSUME NEW c, NEW s, NEW t, FollowersInv(c, s, t),
           UNCHANGED <<db, counter, last_request, up, pending>>,
           \/ tasks'[Root(c, 0)] = tasks[Root(c, 0)]
           \/ ~InTheLoop(Root(c, 0)) /\ ~InTheLoop(Root(c, 0))',
           tasks'[Child(c, 0, s)] = tasks[Child(c, 0, s)],
           tasks'[Child(c, 0, t)] = tasks[Child(c, 0, t)]
    PROVE  FollowersInv(c, s, t)'
BY SameData DEF FollowersInv, InTheLoop, At, Changing

\* The handler ends, or reads: the data stay what they are.
LEMMA RootEnds ==
    ASSUME RInv, LeftServersDown, AInv, NEW c \in Clients, Clients = {c},
           NEW L \in Servers, curr_leader[c] = L, tasks[Root(c, L)] # None,
           NEW k \in Task, tasks' = [tasks EXCEPT ![Root(c, L)] = k],
           k.pc = "done", k.request = tasks[Root(c, L)].request,
           tasks[Root(c, L)].pc = "store" \/ ~Writes(k.request), ~InTheLoop(Root(c, L)),
           UNCHANGED <<up, curr_leader, pending, servervars, db>>
    PROVE  AInv'
<1> DEFINE i == Root(c, L)
<1>1. /\ up[L] /\ i \in Tasks /\ pending[c]["main"] # None
      /\ RolesInv /\ RootInv(c, L) /\ tasks[i].pc # "wait"
      /\ \A t \in Later(L) :
            /\ ~am_i_leader[t] /\ ChildInv(c, L, t)
            /\ tasks[Child(c, L, t)] = None
            /\ Child(c, L, t) \in Tasks /\ Child(c, L, t) # i
            /\ up[t] => IF am_i_leader[L] THEN LeaderInv(c, L, t) ELSE FollowersInv(c, L, t)
      /\ L = 0 /\ up[1] /\ up[2] => FollowersInv(c, 1, 2)
  BY AtRoot DEF InTheLoop, At
<1>2. /\ tasks'[i] = k /\ k # None
      /\ \A j \in Tasks \ {i} : tasks'[j] = tasks[j]
  BY <1>1, NoTaskAssumption DEF RInv, RTypeOK
<1>3. /\ UNCHANGED <<up, curr_leader, pending, am_i_leader, stubs, db, counter, last_request>>
  BY DEF servervars
<1>4. \A t \in Later(L) : tasks'[Child(c, L, t)] = None
  BY <1>1, <1>2
<1>5. RolesInv'
  BY <1>1, <1>3 DEF RolesInv
<1>6. RootInv(c, L)'
  <2>1. Reflects(db[L], k.request)
    <3>1. CASE ~Writes(k.request)
      BY <3>1 DEF Reflects, Writes, ReadOnly
    <3>2. CASE Writes(k.request)
      BY <1>1, <3>2 DEF RootInv, Executing, At
    <3> QED
      BY <3>1, <3>2
  <2>2. Writes(k.request) => am_i_leader[L]
    BY <1>1 DEF RootInv
  <2> QED
    BY <1>2, <1>3, <2>1, <2>2 DEF RootInv, InTheLoop, At
<1>7. \A t \in Later(L) : ChildInv(c, L, t)'
  BY <1>4 DEF ChildInv
<1>8. ~InTheLoop(i) /\ ~InTheLoop(i)'
  BY <1>2 DEF InTheLoop, At
<1>9. /\ \/ tasks'[Root(c, 0)] = tasks[Root(c, 0)]
         \/ ~InTheLoop(Root(c, 0)) /\ ~InTheLoop(Root(c, 0))'
      /\ \A s \in Servers : \A t \in Later(s) : tasks'[Child(c, s, t)] = tasks[Child(c, s, t)]
  <2>1. tasks'[Root(c, 0)] = tasks[Root(c, 0)] \/ L = 0
    BY <1>2, RootName, Distinct DEF Servers
  <2>2. ASSUME NEW s \in Servers, NEW t \in Later(s)
        PROVE  tasks'[Child(c, s, t)] = tasks[Child(c, s, t)]
    BY <1>2, ChildName, Distinct
  <2> QED
    BY <1>8, <2>1, <2>2
<1>10. 1 \in Later(0) /\ 2 \in Later(0) /\ 0 \in Servers /\ (L # 0 => L \in Later(0))
       /\ Later(L) \subseteq Later(0)
  BY DEF Later, Servers
<1>11. ASSUME NEW t \in Later(L), up[L], up[t]
      PROVE  IF am_i_leader'[L] THEN LeaderInv(c, L, t)' ELSE FollowersInv(c, L, t)'
  <2>1. CASE am_i_leader[L]
    BY <1>1, <1>2, <1>3, <1>8, <1>11, <2>1, SameData DEF LeaderInv
  <2>2. CASE ~am_i_leader[L]
    <3>1. L # 0 /\ FollowersInv(c, L, t)
      BY <1>1, <1>11, <2>2 DEF RolesInv
    <3> QED
      BY <1>3, <2>2, <1>9, <1>10, <3>1, FollowersKept
  <2> QED
    BY <1>3, <2>1, <2>2
<1>12. L = 0 /\ up[1] /\ up[2] => FollowersInv(c, 1, 2)'
  BY <1>1, <1>3, <1>9, <1>10, FollowersKept
<1>13. \A j \in Tasks : tasks'[j] # None /\ tasks'[j] # tasks[j] => j = i
  BY <1>2
<1> QED
  BY <1>1, <1>3, <1>5, <1>6, <1>7, <1>11, <1>12, <1>13, HandlerStep

LEMMA ReadAgrees ==
    ASSUME RInv, LeftServersDown, AInv, NEW c \in Clients, Clients = {c},
           NEW L \in Servers, curr_leader[c] = L, Read(Root(c, L))
    PROVE  AInv'
<1> DEFINE i == Root(c, L)
           r == tasks[i].request
           d == db[Server(i)]
           k == [tasks[i] EXCEPT !.pc = "done", !.success = r.rpc # "Login" \/ Accepts(d, r),
                                 !.chats = IF r.rpc = "ReceiveMessage"
                                           THEN Len(d.messages[r.username]) ELSE 0]
<1>1. /\ tasks[i] # None /\ tasks[i].pc = "begin" /\ r.rpc \in ReadOnly
      /\ tasks' = [tasks EXCEPT ![i] = k]
      /\ UNCHANGED <<servervars, dbs, clientvars, faults>>
  BY DEF Read, At
<1>2. tasks'[i] = k /\ tasks' \in [Tasks -> Task \cup {None}] /\ tasks'[i] # None
  <2>1. i \in Tasks
    BY RootName
  <2> QED
    BY <1>1, <2>1, ReadInv DEF RInv, RTypeOK
<1>3. tasks[i] \in Task /\ i \in Tasks
  BY <1>1, RootName DEF RInv, RTypeOK
<1>4. k.pc = "done" /\ k.request = r /\ k \in Task
  BY <1>2, <1>3 DEF Task
<1> HIDE DEF k
<1>5. ~Writes(k.request) /\ ~InTheLoop(i)
  BY <1>1, <1>4 DEF Writes, InTheLoop, At
<1>6. UNCHANGED <<up, curr_leader, pending, servervars, db>>
  BY <1>1 DEF dbs, clientvars, faults
<1> QED
  BY <1>1, <1>4, <1>5, <1>6, RootEnds

LEMMA StoreAgrees ==
    ASSUME RInv, LeftServersDown, AInv, NEW c \in Clients, Clients = {c},
           NEW L \in Servers, curr_leader[c] = L, Store(Root(c, L))
    PROVE  AInv'
<1> DEFINE i == Root(c, L)
           k == [tasks[i] EXCEPT !.pc = "done"]
<1>1. /\ tasks[i] # None /\ tasks[i].pc = "store"
      /\ tasks' = [tasks EXCEPT ![i] = k]
      /\ UNCHANGED <<servervars, db, clientvars, faults>>
  BY DEF Store, At
<1>2. tasks[i] \in Task
  BY <1>1, RootName DEF RInv, RTypeOK
<1>3. k.pc = "done" /\ k.request = tasks[i].request /\ k \in Task
  BY <1>2 DEF Task
<1> HIDE DEF k
<1>4. ~InTheLoop(i)
  BY <1>1 DEF InTheLoop, At
<1>5. UNCHANGED <<up, curr_leader, pending, servervars, db>>
  BY <1>1 DEF clientvars, faults
<1> QED
  BY <1>1, <1>3, <1>4, <1>5, RootEnds

\* A server that begins as leader has what the others have, or what they miss is
\* its last request, which it replays.
LEMMA LeadAgrees ==
    ASSUME RInv, LeftServersDown, AInv, NEW c \in Clients, Clients = {c},
           NEW L \in Servers, curr_leader[c] = L, Lead(Root(c, L))
    PROVE  AInv'
<1> DEFINE i == Root(c, L)
           k == [tasks[i] EXCEPT !.pc = "call", !.from = L + 1,
                                 !.replay = IF am_i_leader[L] THEN None ELSE last_request[L]]
<1>1. /\ tasks[i] # None /\ tasks[i].pc = "begin" /\ Writes(tasks[i].request)
      /\ tasks' = [tasks EXCEPT ![i] = k]
      /\ am_i_leader' = [am_i_leader EXCEPT ![L] = TRUE]
      /\ UNCHANGED <<up, curr_leader, pending, stubs, counter, last_request, db>>
  BY RootName DEF Lead, At, Writes, dbs, clientvars, faults
<1>2. /\ up[L] /\ i \in Tasks /\ tasks[i] \in Task /\ pending[c]["main"] # None
      /\ RolesInv /\ RootInv(c, L)
      /\ \A t \in Later(L) :
            /\ t \in 1 .. 2 /\ ~am_i_leader[t] /\ tasks[Child(c, L, t)] = None
            /\ Child(c, L, t) \in Tasks /\ Child(c, L, t) # i
            /\ up[t] => IF am_i_leader[L] THEN LeaderInv(c, L, t) ELSE FollowersInv(c, L, t)
      /\ L = 0 /\ up[1] /\ up[2] => FollowersInv(c, 1, 2)
      /\ L = 0 => am_i_leader[0]
  BY <1>1, AtRoot
<1>3. /\ k.pc = "call" /\ k.from = L + 1 /\ k.is_client = tasks[i].is_client
      /\ k.request = tasks[i].request
      /\ k.replay = IF am_i_leader[L] THEN None ELSE last_request[L]
  BY <1>2 DEF Task
<1>4. tasks'[i] = k /\ tasks'[i] # None /\ \A j \in Tasks \ {i} : tasks'[j] = tasks[j]
  <2>1. tasks'[i] # None
    BY <1>2, LeadInv
  <2> QED
    BY <1>1, <1>2, <2>1 DEF RInv, RTypeOK
<1> HIDE DEF k
<1>5. tasks[i].is_client /\ ~InTheLoop(i)
  BY <1>1, <1>2 DEF RootInv, InTheLoop, At
<1>6. /\ am_i_leader'[L] /\ \A s \in Servers : s # L => am_i_leader'[s] = am_i_leader[s]
  BY <1>1 DEF RInv, RTypeOK
<1>7. At(i, "call")' /\ ~At(i, "wait")' /\ ~Executing(i)'
  BY <1>3, <1>4 DEF At, Executing
<1>8. RolesInv'
  <2>1. \A s \in Servers : s < L => ~up[s]
    BY AtLeader
  <2> QED
    BY <1>1, <1>2, <1>6, <2>1 DEF RolesInv, Later, Servers
<1>9. RootInv(c, L)'
  <2>1. k.from > L /\ (k.replay # None => k.replay = last_request[L])
    BY <1>3 DEF Servers
  <2> QED
    BY <1>1, <1>3, <1>4, <1>5, <1>6, <1>7, <2>1 DEF RootInv
<1>10. \A t \in Later(L) : ChildInv(c, L, t)'
  BY <1>2, <1>4 DEF ChildInv
<1>11. ASSUME NEW t \in Later(L), up[t] PROVE LeaderInv(c, L, t)'
  <2>1. t \in Servers /\ t >= L + 1 /\ ~(t < L + 1)
    BY DEF Later, Servers
  <2>2. IF k.replay = None THEN InStep(L, t) ELSE Matched(L, t) \/ Behind(L, t)
    <3>1. CASE am_i_leader[L]
      BY <1>2, <1>3, <1>5, <1>11, <3>1 DEF LeaderInv
    <3>2. CASE ~am_i_leader[L]
      <4>1. Matched(L, t) \/ Behind(L, t)
        BY <1>2, <1>11, <3>2 DEF FollowersInv
      <4> QED
        BY <1>3, <3>2, <4>1 DEF Matched, Behind, InStep
    <3> QED
      BY <3>1, <3>2
  <2> QED
    BY <1>1, <1>3, <1>4, <1>7, <2>1, <2>2, SameData DEF LeaderInv, InTheLoop
<1>12. ASSUME L = 0, up[1], up[2] PROVE FollowersInv(c, 1, 2)'
  <2>1. FollowersInv(c, 1, 2) /\ 1 \in Later(L) /\ 2 \in Later(L)
    BY <1>2, <1>12 DEF Later, Servers
  <2>2. tasks'[Child(c, 0, 1)] = None /\ tasks'[Child(c, 0, 2)] = None
    BY <1>2, <1>4, <1>12, <2>1
  <2>3. up[0] /\ ~InTheLoop(Root(c, 0))
    BY <1>2, <1>5, <1>12
  <2>4. Matched(1, 2)
    BY <2>1, <2>3 DEF FollowersInv
  <2> QED
    BY <1>1, <1>3, <1>4, <1>7, <1>12, <2>2, <2>4, SameData DEF FollowersInv, InTheLoop, At
<1>13. \A t \in Later(L) : ~am_i_leader'[t]
  BY <1>2, <1>6 DEF Later
<1>14. \A j \in Tasks : tasks'[j] # None /\ tasks'[j] # tasks[j] => j = i
  BY <1>4
<1> QED
  BY <1>1, <1>2, <1>6, <1>8, <1>9, <1>10, <1>11, <1>12, <1>13, <1>14, HandlerStep

\* The stub that a leader has not called and whose turn it is, and the ones that
\* live: none is left out.
LEMMA NextStub ==
    ASSUME RInv, AInv, NEW c \in Clients, NEW L \in Servers, At(Root(c, L), "call")
    PROVE  /\ \A t \in Later(L) : up[t] /\ t >= tasks[Root(c, L)].from => t \in Left(Root(c, L))
           /\ Left(Root(c, L)) # {} =>
                 /\ Target(Root(c, L)) \in Later(L)
                 /\ Target(Root(c, L)) >= tasks[Root(c, L)].from
                 /\ \A t \in Later(L) : up[t] /\ t >= tasks[Root(c, L)].from
                                        => Target(Root(c, L)) <= t
<1> DEFINE i == Root(c, L)
           v == Service(Replicated(tasks[i]))
<1>1. i \in Tasks /\ Server(i) = L /\ tasks[i] # None
  BY RootName DEF At
<1>2. v \in Services
  BY DEF Service, Services
<1>3. \A t \in Later(L) : up[t] => t \in stubs[L][v]
  BY <1>2 DEF AInv, RolesInv
<1>4. \A t \in Later(L) : up[t] /\ t >= tasks[i].from => t \in Left(i)
  BY <1>1, <1>3 DEF Left
<1>5. stubs[L][v] \subseteq Later(L)
  BY <1>2 DEF RInv, StubsInv
<1>6. ASSUME Left(i) # {}
      PROVE  Target(i) \in Left(i) /\ \A t \in Left(i) : Target(i) <= t
  <2>1. Left(i) \subseteq Servers
    BY <1>1, <1>5 DEF Left, Later
  <2>2. \E t \in Left(i) : \A u \in Left(i) : t <= u
    BY <1>6, <2>1 DEF Servers
  <2> QED
    BY <2>2 DEF Target
<1>7. Left(i) \subseteq Later(L) /\ \A t \in Left(i) : t >= tasks[i].from
  BY <1>1, <1>5 DEF Left
<1> QED
  BY <1>4, <1>6, <1>7

\* What a leader calls for has not reached the server that it calls, or is known to
\* it for a repetition.
LEMMA CallAgrees ==
    ASSUME RInv, LeftServersDown, AInv, NEW c \in Clients, Clients = {c},
           NEW L \in Servers, curr_leader[c] = L, Call(Root(c, L))
    PROVE  AInv'
<1> DEFINE i == Root(c, L)
           m == tasks[i]
<1>a. At(i, "call") /\ Left(i) # {}
  BY DEF Call
<1>b. PICK t \in Later(L) : /\ t = Target(i) /\ t >= m.from
                            /\ \A u \in Later(L) : up[u] /\ u >= m.from => t <= u
  BY <1>a, NextStub
<1> DEFINE k == [m EXCEPT !.pc = "wait", !.from = t,
                          !.is_client = m.replay # None /\ m.is_client,
                          !.counter = IF m.replay = None THEN counter[L] + 1 ELSE @]
           j == IF up[t] THEN NewTask(Replicated(m), FALSE, counter[L] + 1) ELSE None
<1>1. /\ m # None /\ m.pc = "call" /\ Left(i) # {} /\ At(i, "call")
      /\ tasks' = [tasks EXCEPT ![i] = k, ![Callee(i, t)] = j]
      /\ UNCHANGED <<up, curr_leader, pending, servervars, db>>
  BY <1>b, RootName DEF Call, At, dbs, clientvars, faults
<1>2. /\ up[L] /\ i \in Tasks /\ m \in Task /\ pending[c]["main"] # None
      /\ pending[c]["main"].request = m.request
      /\ RolesInv /\ RootInv(c, L)
      /\ \A u \in Later(L) :
            /\ u \in 1 .. 2 /\ ~am_i_leader[u] /\ tasks[Child(c, L, u)] = None
            /\ Child(c, L, u) \in Tasks /\ Child(c, L, u) # i
            /\ up[u] => IF am_i_leader[L] THEN LeaderInv(c, L, u) ELSE FollowersInv(c, L, u)
      /\ L = 0 /\ up[1] /\ up[2] => FollowersInv(c, 1, 2)
      /\ L = 0 => m.replay = None
  BY <1>1, AtRoot DEF InTheLoop
<1>3. /\ Writes(m.request) /\ Replicated(m) \in Requests /\ m.request \in Requests
      /\ counter[L] \in Nat /\ counter[L] + 1 \in Nat
  BY <1>1, <1>2, InLoop DEF RInv, RTypeOK, Writes
<1>4. /\ am_i_leader[L] /\ m.from > L /\ InTheLoop(i)
      /\ m.replay # None => m.is_client /\ m.replay = last_request[L]
  BY <1>1, <1>2, <1>3 DEF RootInv, InTheLoop
<1>5. /\ t >= m.from /\ t \in Servers /\ t \in 0 .. 3 /\ ~(t < m.from) /\ t > L
      /\ m.from \in 0 .. 3
      /\ \A u \in Later(L) : up[u] /\ u >= m.from => t <= u
  <2>1. t \in Servers /\ m.from \in 0 .. 3 /\ t > L
    BY <1>2 DEF Later, Task
  <2> QED
    BY <1>b, <2>1 DEF Servers
<1>6. /\ Callee(i, t) = Child(c, L, t)
  BY <1>5, ChildName
<1>7. /\ k.pc = "wait" /\ k.from = t /\ k.request = m.request /\ k.replay = m.replay
      /\ m.replay # None => k.is_client = m.is_client
      /\ m.replay = None => ~k.is_client /\ k.counter = counter[L] + 1
  BY <1>2 DEF Task
<1>20. k \in Task
  BY <1>2, <1>3, <1>5 DEF Task
<1>8. /\ up[t] => /\ j # None /\ j.pc = "begin" /\ j.request = Replicated(m)
                  /\ ~j.is_client /\ j.counter = counter[L] + 1
      /\ ~up[t] => j = None
  BY <1>3, NewTaskType DEF NewTask, Asked
<1> HIDE DEF k, j
<1>9. /\ tasks'[i] = k /\ tasks'[Child(c, L, t)] = j /\ k # None
      /\ \A l \in Tasks \ {i, Child(c, L, t)} : tasks'[l] = tasks[l]
  BY <1>1, <1>2, <1>5, <1>6, <1>20, NoTaskAssumption DEF RInv, RTypeOK
<1>10. UNCHANGED <<am_i_leader, stubs, counter, last_request>>
  BY <1>1 DEF servervars
<1>11. RolesInv'
  BY <1>1, <1>2, <1>10 DEF RolesInv
<1>12. At(i, "wait")' /\ ~At(i, "call")' /\ ~Executing(i)' /\ InTheLoop(i)'
  BY <1>7, <1>9 DEF At, Executing, InTheLoop
<1>13. RootInv(c, L)'
  BY <1>1, <1>4, <1>5, <1>7, <1>8, <1>9, <1>10, <1>12 DEF RootInv
<1>14. Writes(Replicated(m))
  BY <1>2, <1>3, <1>4 DEF Replicated, RolesInv
<1>15. up[t] => \/ m.replay = None /\ InStep(L, t)
                \/ m.replay # None /\ (Matched(L, t) \/ Behind(L, t))
  <2>1. At(i, "call") /\ ~At(i, "wait") /\ InTheLoop(i)
    BY <1>1, <1>4 DEF At
  <2> QED
    BY <1>1, <1>2, <1>4, <1>5, <2>1 DEF LeaderInv
<1>16. ASSUME NEW u \in Later(L) PROVE ChildInv(c, L, u)'
  <2>1. CASE u # t
    <3>1. tasks'[Child(c, L, u)] = None
      BY <1>2, <1>9, <2>1, Distinct
    <3> QED
      BY <3>1 DEF ChildInv
  <2>2. CASE u = t /\ ~up[t]
    BY <1>8, <1>9, <2>2 DEF ChildInv
  <2>3. CASE u = t /\ up[t]
    <3>1. Changing(c)
      BY <1>2, <1>3 DEF Changing
    <3>2. \A w \in Later(L) : w # t => tasks'[Child(c, L, w)] = None
      BY <1>2, <1>9, Distinct
    <3>3. counter[L] + 1 <= counter[t] => Reflects(db[t], Replicated(m))
      <4>1. counter[t] \in Nat
        BY <1>5 DEF RInv, RTypeOK
      <4>2. CASE m.replay = None \/ Behind(L, t)
        BY <1>3, <1>15, <2>3, <4>1, <4>2 DEF InStep, Behind
      <4>3. CASE m.replay # None /\ Matched(L, t)
        BY <1>2, <1>4, <1>5, <4>3 DEF Matched, Replicated, RolesInv
      <4> QED
        BY <1>15, <2>3, <4>2, <4>3
    <3>4. Replicated(k) = Replicated(m)
      BY <1>7 DEF Replicated
    <3>5. \A w \in Later(L) : ~am_i_leader'[w]
      BY <1>2, <1>10
    <3>6. Changing(c)'
      BY <1>1, <3>1 DEF Changing
    <3>7. tasks'[i] = k /\ tasks'[Child(c, L, u)] = j
      BY <1>9, <2>3
    <3>8. /\ Writes(j.request) /\ ~j.is_client /\ j.pc \in {"begin", "store", "done"}
          /\ k.pc = "wait" /\ k.from = u /\ j.request = Replicated(k)
          /\ j.counter = counter'[L] + 1
          /\ j.counter <= counter'[u] => Reflects(db'[u], j.request)
          /\ \A w \in Later(L) : w # u => tasks'[Child(c, L, w)] = None
      BY <1>1, <1>7, <1>8, <1>10, <1>14, <2>3, <3>2, <3>3, <3>4
    <3> QED
      BY <3>5, <3>6, <3>7, <3>8 DEF ChildInv
  <2> QED
    BY <2>1, <2>2, <2>3
<1>17. ASSUME NEW u \in Later(L), up[u] PROVE LeaderInv(c, L, u)'
  <2>1. u \in Servers /\ (u < t <=> u < m.from)
    BY <1>2, <1>4, <1>5, <1>17 DEF Later, Servers, Task
  <2>2. u = t => At(Child(c, L, u), "begin")'
    BY <1>8, <1>9, <1>17 DEF At
  <2> QED
    BY <1>1, <1>2, <1>4, <1>7, <1>9, <1>10, <1>12, <1>17, <2>1, <2>2, SameData DEF LeaderInv, At
<1>18. ASSUME L = 0, up[1], up[2] PROVE FollowersInv(c, 1, 2)'
  <2>1. FollowersInv(c, 1, 2) /\ 1 \in Later(L) /\ 2 \in Later(L) /\ m.replay = None
    BY <1>2, <1>18 DEF Later, Servers
  <2>2. counter[0] \in Nat /\ counter[1] \in Nat /\ counter[2] \in Nat
    BY DEF RInv, RTypeOK, Servers
  <2>3. LeaderInv(c, 0, 1) /\ LeaderInv(c, 0, 2)
    BY <1>2, <1>4, <1>18, <2>1
  <2>4. counter[1] <= counter[0] /\ counter[2] <= counter[0]
    BY <1>1, <1>4, <1>18, <2>1, <2>3 DEF LeaderInv, InStep
  <2>5. up[0] /\ Root(c, 0) = i /\ (m.from = 1 \/ m.from = 2)
    BY <1>2, <1>4, <1>5, <1>18 DEF Servers
  <2>6. CASE t = 1
    <3>1. m.from = 1 /\ Matched(1, 2)
      BY <1>1, <1>5, <2>1, <2>5, <2>6 DEF FollowersInv
    <3>2. tasks'[Child(c, 0, 2)] = None /\ tasks'[Child(c, 0, 1)] = j
      BY <1>2, <1>9, <1>18, <2>1, <2>6, Distinct
    <3>3. j.counter > counter[1] /\ j.counter > counter[2]
      BY <1>8, <1>18, <2>2, <2>4, <2>6
    <3>4. At(Child(c, 0, 1), "begin")' /\ ~At(Child(c, 0, 2), "begin")'
      BY <1>8, <1>18, <2>6, <3>2 DEF At
    <3> QED
      BY <1>1, <1>7, <1>9, <1>10, <1>12, <2>5, <2>6, <3>1, <3>2, <3>3, <3>4, SameData
      DEF FollowersInv
  <2>7. CASE t = 2
    <3>1. m.from = 2 /\ ~(m.from <= 1)
      BY <1>5, <1>18, <2>1, <2>5, <2>7
    <3>2. Behind(1, 2) /\ last_request[1] = m.request /\ counter[1] = counter[0]
      BY <1>1, <2>1, <2>5, <3>1 DEF FollowersInv
    <3>3. tasks'[Child(c, 0, 1)] = None /\ tasks'[Child(c, 0, 2)] = j
      BY <1>2, <1>9, <1>18, <2>1, <2>7, Distinct
    <3>4. ~At(Child(c, 0, 1), "begin")' /\ At(Child(c, 0, 2), "begin")'
      BY <1>8, <1>18, <2>7, <3>3 DEF At
    <3>5. j.request = last_request[1] /\ j.counter = counter[1] + 1
      BY <1>8, <1>18, <2>1, <2>7, <3>2 DEF Replicated
    <3>6. Changing(c)'
      BY <1>1, <1>2, <1>3 DEF Changing
    <3> QED
      BY <1>1, <1>7, <1>9, <1>10, <1>12, <2>5, <2>7, <3>2, <3>3, <3>4, <3>5, <3>6, SameData
      DEF FollowersInv
  <2> QED
    BY <1>5, <1>18, <2>6, <2>7 DEF Servers
<1>19. \A l \in Tasks : tasks'[l] # None /\ tasks'[l] # tasks[l] => l = i \/ l = Child(c, L, t)
  BY <1>9
<1> QED
  BY <1>1, <1>2, <1>4, <1>5, <1>10, <1>11, <1>13, <1>16, <1>17, <1>18, <1>19, HandlerStep

\* A later server has answered: it has what the leader will have, and the leader has
\* counted the number.
LEMMA ReturnedAgrees ==
    ASSUME RInv, LeftServersDown, AInv, NEW c \in Clients, Clients = {c},
           NEW L \in Servers, curr_leader[c] = L, Returned(Root(c, L))
    PROVE  AInv'
<1> DEFINE i == Root(c, L)
           m == tasks[i]
<1>1. At(i, "wait") /\ m # None /\ m.pc = "wait" /\ InTheLoop(i)
  BY DEF Returned, At, InTheLoop
<1>2. /\ up[L] /\ i \in Tasks /\ m \in Task /\ pending[c]["main"] # None
      /\ RolesInv /\ RootInv(c, L)
      /\ \A u \in Later(L) :
            /\ u \in 1 .. 2 /\ ~am_i_leader[u] /\ ChildInv(c, L, u)
            /\ tasks[Child(c, L, u)] # None => m.from = u
            /\ Child(c, L, u) \in Tasks /\ Child(c, L, u) # i
            /\ up[u] => IF am_i_leader[L] THEN LeaderInv(c, L, u) ELSE FollowersInv(c, L, u)
      /\ L = 0 /\ up[1] /\ up[2] => FollowersInv(c, 1, 2)
      /\ L = 0 => m.replay = None
  BY <1>1, AtRoot
<1>3. PICK t \in Later(L) : t = m.from /\ Server(Callee(i, m.from)) = m.from
                            /\ Callee(i, m.from) = Child(c, L, t)
  BY <1>1, <1>2, InWait, ChildName, RootName
<1> DEFINE k == [m EXCEPT !.pc = "call", !.from = t + 1,
                          !.is_client = m.replay = None \/ m.is_client]
<1>4. /\ tasks[Child(c, L, t)] # None /\ tasks[Child(c, L, t)].pc = "done"
      /\ tasks' = [tasks EXCEPT ![i] = k, ![Child(c, L, t)] = None]
      /\ counter' = [counter EXCEPT ![L] = @ + 1]
      /\ UNCHANGED <<up, curr_leader, pending, am_i_leader, stubs, last_request, db>>
  BY <1>3, RootName DEF Returned, At, dbs, clientvars, faults
<1>5. /\ Writes(m.request) /\ am_i_leader[L] /\ t > L /\ t \in Servers
      /\ m.replay # None => m.is_client /\ m.replay = last_request[L]
  BY <1>1, <1>2, <1>3, InLoop DEF RootInv, Writes, Later
<1>6. /\ k.pc = "call" /\ k.from = t + 1 /\ k.request = m.request /\ k.replay = m.replay
      /\ k.is_client
  BY <1>2, <1>5 DEF Task
<1> HIDE DEF k
<1>7. /\ tasks'[i] = k /\ tasks'[Child(c, L, t)] = None
      /\ \A l \in Tasks \ {i, Child(c, L, t)} : tasks'[l] = tasks[l]
  BY <1>2, <1>3, <1>4 DEF RInv, RTypeOK
<1>8. k # None
  BY <1>2, <1>7, ReturnedInv
<1>9. \A u \in Later(L) : tasks'[Child(c, L, u)] = None
  BY <1>2, <1>3, <1>7, Distinct
<1>10. /\ counter'[L] = counter[L] + 1 /\ \A s \in Servers : s # L => counter'[s] = counter[s]
       /\ \A s \in Servers : counter[s] \in Nat
  BY <1>4 DEF RInv, RTypeOK
<1>11. RolesInv'
  BY <1>2, <1>4 DEF RolesInv
<1>12. ~At(i, "wait")' /\ At(i, "call")' /\ ~Executing(i)' /\ InTheLoop(i)'
  BY <1>6, <1>7, <1>8 DEF At, Executing, InTheLoop
<1>13. RootInv(c, L)'
  <2>1. t + 1 > L
    BY <1>5 DEF Servers
  <2> QED
    BY <1>4, <1>5, <1>6, <1>7, <1>12, <2>1 DEF RootInv
<1>14. \A u \in Later(L) : ChildInv(c, L, u)'
  BY <1>9 DEF ChildInv
<1>15. \A u \in Later(L) : ~At(Child(c, L, u), "begin")
  BY <1>2, <1>3, <1>4 DEF At
<1>16. ASSUME NEW u \in Later(L), up[u] PROVE LeaderInv(c, L, u)'
  <2> DEFINE replicated == IF m.replay = None THEN Executed(db[L], m.request) ELSE db[L]
  <2>1. u \in Servers /\ L # u /\ (u < t + 1 <=> u < t \/ u = t) /\ u # L /\ ~(t < t)
    BY <1>5 DEF Later, Servers
  <2>2. counter'[u] = counter[u] /\ counter[u] \in Nat /\ counter[L] \in Nat
    BY <1>10, <2>1
  <2>3. LeaderInv(c, L, u)
    BY <1>2, <1>5, <1>16
  <2>4. CASE u < t
    <3>1. db[u] = replicated /\ counter[u] <= counter[L]
      BY <1>1, <1>3, <2>3, <2>4 DEF LeaderInv
    <3>2. counter[u] <= counter'[L]
      BY <1>10, <2>2, <3>1
    <3> QED
      BY <1>4, <1>6, <1>7, <1>12, <2>1, <2>2, <2>4, <3>1, <3>2 DEF LeaderInv
  <2>5. CASE u = t
    <3>1. db[u] = replicated /\ counter[u] = counter[L] + 1
      BY <1>1, <1>3, <1>15, <2>1, <2>3, <2>5 DEF LeaderInv
    <3>2. counter[u] <= counter'[L]
      BY <1>10, <2>2, <3>1
    <3> QED
      BY <1>4, <1>6, <1>7, <1>12, <2>1, <2>2, <2>5, <3>1, <3>2 DEF LeaderInv
  <2>6. CASE ~(u < t) /\ u # t
    <3>1. L = 0 /\ m.replay = None
      BY <1>2, <1>5, <2>1, <2>6 DEF Servers
    <3>2. InStep(L, u)
      BY <1>1, <1>3, <2>3, <2>6, <3>1 DEF LeaderInv
    <3>3. InStep(L, u)'
      BY <1>4, <1>10, <2>2, <3>2 DEF InStep
    <3> QED
      BY <1>6, <1>7, <1>12, <2>1, <2>6, <3>1, <3>3 DEF LeaderInv
  <2> QED
    BY <2>4, <2>5, <2>6
<1>17. ASSUME L = 0, up[1], up[2] PROVE FollowersInv(c, 1, 2)'
  <2>1. FollowersInv(c, 1, 2) /\ 1 \in Later(L) /\ 2 \in Later(L) /\ Root(c, 0) = i /\ up[0]
    BY <1>2, <1>17 DEF Later, Servers
  <2>2. counter'[1] = counter[1] /\ counter'[2] = counter[2]
    BY <1>10, <1>17 DEF Servers
  <2>3. /\ Matched(1, 2)' <=> Matched(1, 2)
        /\ Behind(1, 2)' <=> Behind(1, 2)
    BY <1>4, <2>2 DEF Matched, Behind
  <2>4. ~At(Child(c, 0, 1), "begin")' /\ ~At(Child(c, 0, 2), "begin")'
    BY <1>9, <1>17, <2>1 DEF At
  <2>5. CASE t = 1
    <3>1. Behind(1, 2) /\ last_request[1] = m.request
      BY <1>1, <1>3, <1>15, <1>17, <2>1, <2>5 DEF FollowersInv
    <3>2. LeaderInv(c, 0, 1)
      BY <1>2, <1>5, <1>17, <2>1
    <3>3. counter[1] = counter[0] + 1
      BY <1>1, <1>3, <1>15, <1>17, <2>1, <2>5, <3>2 DEF LeaderInv
    <3>4. Changing(c)' <=> Changing(c)
      BY <1>4 DEF Changing
    <3>5. Matched(1, 2) \/ Changing(c)
      BY <2>1 DEF FollowersInv
    <3> QED
      BY <1>4, <1>6, <1>7, <1>10, <1>12, <1>17, <2>1, <2>2, <2>3, <2>4, <2>5, <3>1, <3>3, <3>4, <3>5
      DEF FollowersInv
  <2>6. CASE t = 2
    <3>1. Matched(1, 2)
      BY <1>1, <1>3, <1>15, <1>17, <2>1, <2>6 DEF FollowersInv
    <3> QED
      BY <1>4, <1>6, <1>7, <1>12, <1>17, <2>1, <2>3, <2>4, <2>6, <3>1 DEF FollowersInv
  <2> QED
    BY <1>5, <1>17, <2>5, <2>6 DEF Servers
<1>18. \A l \in Tasks : tasks'[l] # None /\ tasks'[l] # tasks[l] => l = i
  BY <1>7
<1> QED
  BY <1>2, <1>4, <1>5, <1>11, <1>13, <1>14, <1>16, <1>17, <1>18, HandlerStep

\* The server that did not answer is down, and so it is not counted.
LEMMA FailedAgrees ==
    ASSUME RInv, LeftServersDown, AInv, NEW c \in Clients, Clients = {c},
           NEW L \in Servers, curr_leader[c] = L, Failed(Root(c, L))
    PROVE  AInv'
<1> DEFINE i == Root(c, L)
           m == tasks[i]
<1>1. At(i, "wait") /\ m # None /\ m.pc = "wait" /\ InTheLoop(i)
  BY DEF Failed, At, InTheLoop
<1>2. /\ up[L] /\ i \in Tasks /\ m \in Task /\ pending[c]["main"] # None
      /\ RolesInv /\ RootInv(c, L)
      /\ \A u \in Later(L) :
            /\ u \in 1 .. 2 /\ ~am_i_leader[u] /\ ChildInv(c, L, u)
            /\ tasks[Child(c, L, u)] # None => m.from = u
            /\ Child(c, L, u) \in Tasks /\ Child(c, L, u) # i
            /\ up[u] => IF am_i_leader[L] THEN LeaderInv(c, L, u) ELSE FollowersInv(c, L, u)
      /\ L = 0 => m.replay = None
  BY <1>1, AtRoot
<1>3. PICK t \in Later(L) : t = m.from /\ Callee(i, m.from) = Child(c, L, t)
  BY <1>1, <1>2, InWait, ChildName, RootName
<1> DEFINE k == [m EXCEPT !.pc = "call", !.from = t + 1]
<1>4. /\ tasks[Child(c, L, t)] = None
      /\ tasks' = [tasks EXCEPT ![i] = k]
      /\ stubs' = [stubs EXCEPT ![L][Service(Replicated(m))] = @ \ {t}]
      /\ UNCHANGED <<up, curr_leader, pending, am_i_leader, counter, last_request, db>>
  BY <1>3, RootName DEF Failed, dbs, clientvars, faults
<1>5. /\ Writes(m.request) /\ am_i_leader[L] /\ t > L /\ t \in Servers /\ ~up[t]
      /\ IF m.replay # None THEN m.is_client /\ m.replay = last_request[L]
         ELSE m.counter = counter[L] + 1
  BY <1>1, <1>2, <1>3, <1>4, InLoop DEF RootInv, Writes, Later
<1>6. /\ k.pc = "call" /\ k.from = t + 1 /\ k.request = m.request /\ k.replay = m.replay
      /\ k.is_client = m.is_client /\ k.counter = m.counter
  BY <1>2, <1>5 DEF Task
<1> HIDE DEF k
<1>7. tasks'[i] = k /\ \A l \in Tasks \ {i} : tasks'[l] = tasks[l]
  BY <1>2, <1>4 DEF RInv, RTypeOK
<1>8. k # None
  BY <1>2, <1>7, FailedInv
<1>9. \A u \in Later(L) : tasks'[Child(c, L, u)] = None
  BY <1>2, <1>3, <1>4, <1>7
<1>10. RolesInv'
  <2>1. \A s \in Servers, v \in Services : \A u \in Servers :
           u \in stubs[s][v] /\ u # t => u \in stubs'[s][v]
    BY <1>4 DEF RInv, RTypeOK
  <2> QED
    BY <1>2, <1>4, <1>5, <2>1 DEF RolesInv, Later
<1>11. ~At(i, "wait")' /\ At(i, "call")' /\ ~Executing(i)' /\ InTheLoop(i)'
  BY <1>6, <1>7, <1>8 DEF At, Executing, InTheLoop
<1>12. RootInv(c, L)'
  <2>1. t + 1 > L
    BY <1>5 DEF Servers
  <2> QED
    BY <1>4, <1>5, <1>6, <1>7, <1>11, <2>1 DEF RootInv
<1>13. \A u \in Later(L) : ChildInv(c, L, u)'
  BY <1>9 DEF ChildInv
<1>14. ASSUME NEW u \in Later(L), up[u] PROVE LeaderInv(c, L, u)'
  <2>1. u # t /\ (u < t + 1 <=> u < t)
    BY <1>5, <1>14 DEF Later, Servers
  <2>2. LeaderInv(c, L, u)
    BY <1>2, <1>5, <1>14
  <2> QED
    BY <1>1, <1>3, <1>4, <1>6, <1>7, <1>11, <2>1, <2>2, SameData DEF LeaderInv
<1>15. ~(L = 0 /\ up[1] /\ up[2])
  BY <1>5 DEF Servers
<1>16. \A l \in Tasks : tasks'[l] # None /\ tasks'[l] # tasks[l] => l = i
  BY <1>7
<1> QED
  BY <1>2, <1>4, <1>5, <1>10, <1>12, <1>13, <1>14, <1>15, <1>16, HandlerStep

\* The replay has reached all that live.
LEMMA EndReplayAgrees ==
    ASSUME RInv, LeftServersDown, AInv, NEW c \in Clients, Clients = {c},
           NEW L \in Servers, curr_leader[c] = L, EndReplay(Root(c, L))
    PROVE  AInv'
<1> DEFINE i == Root(c, L)
           m == tasks[i]
           k == [m EXCEPT !.replay = None, !.from = L + 1]
<1>1. /\ At(i, "call") /\ m # None /\ m.pc = "call" /\ InTheLoop(i)
      /\ Left(i) = {} /\ m.replay # None
      /\ tasks' = [tasks EXCEPT ![i] = k]
      /\ UNCHANGED <<up, curr_leader, pending, stubs, am_i_leader, counter, last_request, db>>
  BY RootName DEF EndReplay, At, InTheLoop, servervars, dbs, clientvars, faults
<1>2. /\ up[L] /\ i \in Tasks /\ m \in Task /\ pending[c]["main"] # None
      /\ RolesInv /\ RootInv(c, L)
      /\ \A u \in Later(L) :
            /\ u \in 1 .. 2 /\ ~am_i_leader[u] /\ tasks[Child(c, L, u)] = None
            /\ Child(c, L, u) \in Tasks /\ Child(c, L, u) # i
            /\ up[u] => IF am_i_leader[L] THEN LeaderInv(c, L, u) ELSE FollowersInv(c, L, u)
      /\ L # 0
  BY <1>1, AtRoot
<1>3. Writes(m.request) /\ am_i_leader[L] /\ m.is_client
  BY <1>1, <1>2, InLoop DEF RootInv, Writes
<1>4. /\ k.pc = "call" /\ k.from = L + 1 /\ k.request = m.request /\ k.replay = None
      /\ k.is_client
  BY <1>1, <1>2, <1>3 DEF Task
<1> HIDE DEF k
<1>5. tasks'[i] = k /\ \A l \in Tasks \ {i} : tasks'[l] = tasks[l]
  BY <1>1, <1>2 DEF RInv, RTypeOK
<1>6. k # None
  BY <1>1, <1>2, <1>5, EndReplayInv
<1>7. \A u \in Later(L) : tasks'[Child(c, L, u)] = None
  BY <1>2, <1>5
<1>8. RolesInv'
  BY <1>1, <1>2 DEF RolesInv
<1>9. ~At(i, "wait")' /\ At(i, "call")' /\ ~Executing(i)' /\ InTheLoop(i)'
  BY <1>4, <1>5, <1>6 DEF At, Executing, InTheLoop
<1>10. RootInv(c, L)'
  <2>1. L + 1 > L
    BY DEF Servers
  <2> QED
    BY <1>1, <1>3, <1>4, <1>5, <1>9, <2>1 DEF RootInv
<1>11. \A u \in Later(L) : ChildInv(c, L, u)'
  BY <1>7 DEF ChildInv
<1>12. ASSUME NEW u \in Later(L), up[u] PROVE LeaderInv(c, L, u)'
  <2>1. u < m.from /\ ~(u < L + 1)
    <3>1. ~(u >= m.from) /\ m.from \in 0 .. 3 /\ u \in Servers /\ u > L
      BY <1>1, <1>2, <1>12, NextStub DEF Task, Later
    <3> QED
      BY <3>1 DEF Servers
  <2>2. LeaderInv(c, L, u)
    BY <1>2, <1>3, <1>12
  <2>3. db[u] = db[L] /\ counter[u] <= counter[L]
    BY <1>1, <2>1, <2>2 DEF LeaderInv
  <2> QED
    BY <1>1, <1>4, <1>5, <1>9, <2>1, <2>3 DEF LeaderInv, InStep
<1>13. \A l \in Tasks : tasks'[l] # None /\ tasks'[l] # tasks[l] => l = i
  BY <1>5
<1> QED
  BY <1>1, <1>2, <1>3, <1>8, <1>10, <1>11, <1>12, <1>13, HandlerStep

\* A leader that has been through its stubs executes what all that live have
\* executed, and never takes it for a repetition.
LEMMA NeverSeen ==
    ASSUME RInv, LeftServersDown, AInv, NEW c \in Clients, NEW L \in Servers,
           curr_leader[c] = L, At(Root(c, L), "call"), tasks[Root(c, L)].replay = None
    PROVE  ~Seen(Root(c, L))
<1> DEFINE k == tasks[Root(c, L)]
<1>1. RootInv(c, L) /\ InTheLoop(Root(c, L)) /\ Server(Root(c, L)) = L /\ k # None
  BY AtRoot, RootName DEF At, InTheLoop
<1>2. k.is_client \/ k.counter = counter[L] + 1
  BY <1>1 DEF RootInv
<1>3. counter[L] \in Nat
  BY DEF RInv, RTypeOK
<1>4. ~(counter[L] + 1 <= counter[L])
  BY <1>3
<1> QED
  BY <1>1, <1>2, <1>4 DEF Seen

LEMMA ActAgrees ==
    ASSUME RInv, LeftServersDown, AInv, NEW c \in Clients, Clients = {c},
           NEW L \in Servers, curr_leader[c] = L, Act(Root(c, L))
    PROVE  AInv'
<1> DEFINE i == Root(c, L)
           m == tasks[i]
           k == [m EXCEPT !.pc = IF Accepts(db[L], m.request) THEN "store" ELSE "done",
                          !.success = Accepts(db[L], m.request)]
<1>1. /\ At(i, "call") /\ m # None /\ m.pc = "call" /\ InTheLoop(i)
      /\ Left(i) = {} /\ m.replay = None
  BY DEF Act, At, InTheLoop
<1>2. /\ ~Seen(i) /\ Server(i) = L
  BY <1>1, NeverSeen, RootName
<1>3. /\ tasks' = [tasks EXCEPT ![i] = k]
      /\ counter' = IF m.is_client THEN counter ELSE [counter EXCEPT ![L] = m.counter]
      /\ db' = [db EXCEPT ![L] = Executed(@, m.request)]
      /\ UNCHANGED <<up, curr_leader, pending, stubs, am_i_leader, last_request>>
  <2>1. /\ Perform(i)
        /\ UNCHANGED <<am_i_leader, stubs, last_request, clientvars, faults>>
    BY <1>2 DEF Act, Discard
  <2>2. UNCHANGED <<up, curr_leader, pending, stubs, am_i_leader, last_request>>
    BY <2>1 DEF clientvars, faults
  <2>3. /\ tasks' = [tasks EXCEPT ![i] = k]
        /\ counter' = IF m.is_client THEN counter ELSE [counter EXCEPT ![L] = m.counter]
    BY <1>2, <2>1, Zenon DEF Perform
  <2>4. db' = [db EXCEPT ![L] = Executed(@, m.request)]
    BY <1>2, <2>1 DEF Perform
  <2> QED
    BY <2>2, <2>3, <2>4
<1>4. /\ up[L] /\ i \in Tasks /\ m \in Task /\ pending[c]["main"] # None
      /\ RolesInv /\ RootInv(c, L)
      /\ \A u \in Later(L) :
            /\ u \in 1 .. 2 /\ ~am_i_leader[u] /\ tasks[Child(c, L, u)] = None
            /\ Child(c, L, u) \in Tasks /\ Child(c, L, u) # i
            /\ up[u] => IF am_i_leader[L] THEN LeaderInv(c, L, u) ELSE FollowersInv(c, L, u)
      /\ L = 0 /\ up[1] /\ up[2] => FollowersInv(c, 1, 2)
  BY <1>1, AtRoot
<1>5. /\ Writes(m.request) /\ m.request \in Requests /\ am_i_leader[L]
      /\ m.is_client \/ m.counter = counter[L] + 1
  BY <1>1, <1>4, InLoop DEF RootInv, Writes
<1>6. k.pc \in {"store", "done"} /\ k.request = m.request
  BY <1>4 DEF Task
<1> HIDE DEF k
<1>7. tasks'[i] = k /\ \A l \in Tasks \ {i} : tasks'[l] = tasks[l]
  BY <1>3, <1>4 DEF RInv, RTypeOK
<1>8. k # None
  BY <1>4, <1>7, ActInv
<1>9. \A u \in Later(L) : tasks'[Child(c, L, u)] = None
  BY <1>4, <1>7
<1>10. /\ db'[L] = Executed(db[L], m.request) /\ \A s \in Servers : s # L => db'[s] = db[s]
       /\ Reflects(db'[L], m.request)
  <2>1. db[L] \in Database /\ db'[L] = Executed(db[L], m.request)
    BY <1>3 DEF RInv, RTypeOK
  <2> QED
    BY <1>3, <1>5, <2>1, ReflectsExecuted DEF RInv, RTypeOK
<1>11. /\ counter[L] <= counter'[L] /\ \A s \in Servers : s # L => counter'[s] = counter[s]
       /\ counter'[L] \in Nat /\ \A s \in Servers : counter[s] \in Nat
  BY <1>3, <1>5 DEF RInv, RTypeOK
<1>12. RolesInv'
  BY <1>3, <1>4, <1>5, <1>10 DEF RolesInv
<1>13. ~At(i, "wait")' /\ ~At(i, "call")' /\ ~InTheLoop(i)'
  BY <1>6, <1>7, <1>8 DEF At, InTheLoop
<1>14. RootInv(c, L)'
  BY <1>3, <1>5, <1>6, <1>7, <1>10, <1>13 DEF RootInv
<1>15. \A u \in Later(L) : ChildInv(c, L, u)'
  BY <1>9 DEF ChildInv
<1>16. \A u \in Later(L) : up[u] => u < m.from
  <2>1. \A u \in Later(L) : up[u] => ~(u >= m.from)
    BY <1>1, NextStub
  <2>2. m.from \in 0 .. 3 /\ Later(L) \subseteq Servers
    BY <1>4 DEF Task, Later
  <2> QED
    BY <2>1, <2>2 DEF Servers
<1>17. ASSUME NEW u \in Later(L), up[u] PROVE LeaderInv(c, L, u)'
  <2>1. u \in Servers /\ u # L
    BY DEF Later, Servers
  <2>2. db[u] = Executed(db[L], m.request) /\ counter[u] <= counter[L]
    BY <1>1, <1>4, <1>5, <1>16, <1>17 DEF LeaderInv
  <2>3. InStep(L, u)'
    BY <1>10, <1>11, <2>1, <2>2 DEF InStep
  <2> QED
    BY <1>13, <2>3 DEF LeaderInv
<1>18. ASSUME L = 0, up[1], up[2] PROVE FollowersInv(c, 1, 2)'
  <2>1. FollowersInv(c, 1, 2) /\ 1 \in Later(L) /\ 2 \in Later(L) /\ Root(c, 0) = i /\ up[0]
    BY <1>4, <1>18 DEF Later, Servers
  <2>2. 2 < m.from
    BY <1>16, <1>18, <2>1
  <2>3. Matched(1, 2)
    BY <1>1, <2>1, <2>2 DEF FollowersInv
  <2>4. Matched(1, 2)'
    BY <1>3, <1>10, <1>11, <1>18, <2>3 DEF Matched, Servers
  <2>5. ~At(Child(c, 0, 1), "begin")' /\ ~At(Child(c, 0, 2), "begin")'
    BY <1>9, <1>18, <2>1 DEF At
  <2> QED
    BY <1>13, <2>1, <2>4, <2>5 DEF FollowersInv
<1>19. \A l \in Tasks : tasks'[l] # None /\ tasks'[l] # tasks[l] => l = i
  BY <1>7
<1> QED
  BY <1>3, <1>4, <1>5, <1>12, <1>14, <1>15, <1>17, <1>18, <1>19, HandlerStep

\* The handler of the client's request follows nobody, and the client waits for it.
LEMMA RootRole ==
    ASSUME RInv, LeftServersDown, AInv, NEW c \in Clients,
           NEW L \in Servers, curr_leader[c] = L
    PROVE  ~Follow(Root(c, L)) /\ ~Unheard(Root(c, L))
<1> DEFINE i == Root(c, L)
<1>1. ~Follow(i)
  BY AtRoot DEF Follow, At, RootInv
<1>2. ~Unheard(i)
  <2> SUFFICES ASSUME At(i, "done") PROVE Heard(i)
    BY DEF Unheard
  <2>1. pending[c]["main"] # None /\ pending[c]["main"].at = L
    BY AtLeader, AtRoot DEF At
  <2>2. i[1][1] = c /\ i[1][2] = "main" /\ Server(i) = L /\ Len(i[2]) = 1
    BY RootName
  <2> QED
    BY <2>1, <2>2 DEF Heard
<1> QED
  BY <1>1, <1>2

\* A step of the handler of the client's request.
LEMMA RootAgrees ==
    ASSUME RInv, LeftServersDown, AInv, NEW c \in Clients, Clients = {c},
           NEW L \in Servers, curr_leader[c] = L, TaskStep(Root(c, L))
    PROVE  AInv'
BY RootRole, ReadAgrees, LeadAgrees, CallAgrees, ReturnedAgrees, FailedAgrees,
   EndReplayAgrees, ActAgrees, StoreAgrees DEF TaskStep

-----------------------------------------------------------------------------
(***************************************************************************)
(* Steps of the handler of a later server.                                 *)
(***************************************************************************)

\* If the server that called is up, it leads and waits for this handler.
LEMMA AtChild ==
    ASSUME RInv, LeftServersDown, AInv, NEW c \in Clients, NEW L \in Servers,
           curr_leader[c] = L, NEW t \in Later(L), tasks[Child(c, L, t)] # None
    PROVE  /\ up[t] /\ tasks[Child(c, L, t)] \in Task /\ Child(c, L, t) \in Tasks
           /\ Server(Child(c, L, t)) = t /\ t \in Servers /\ t # 0 /\ t # L
           /\ Child(c, L, t) # Root(c, L) /\ RolesInv /\ ChildInv(c, L, t)
           /\ Changing(c) /\ pending[c]["main"] # None
           /\ \A u \in Later(L) : ~am_i_leader[u]
           /\ \A u \in Later(L) : u # t => tasks[Child(c, L, u)] = None
           /\ up[L] => /\ tasks[Root(c, L)] # None /\ am_i_leader[L]
                       /\ At(Root(c, L), "wait") /\ tasks[Root(c, L)].from = t
                       /\ \A u \in Later(L) : up[u] => LeaderInv(c, L, u)
           /\ L = 0 /\ up[1] /\ up[2] => FollowersInv(c, 1, 2)
           /\ L = 0 /\ up[0] => tasks[Root(c, 0)].replay = None
<1> DEFINE j == Child(c, L, t)
<1>1. /\ j \in Tasks /\ Server(j) = t /\ t \in Servers /\ t # 0 /\ t # L /\ j # Root(c, L)
  BY ChildName, Distinct DEF Later, Servers
<1>2. up[t] /\ tasks[j] \in Task
  BY <1>1 DEF RInv, RTypeOK, TasksInv
<1>3. RolesInv /\ ChildInv(c, L, t) /\ DataInv
  BY DEF AInv, TreeInv
<1>4. Changing(c) /\ \A u \in Later(L) : ~am_i_leader[u] /\ (u # t => tasks[Child(c, L, u)] = None)
  BY <1>3 DEF ChildInv
<1>5. pending[c]["main"] # None
  BY <1>4 DEF Changing
<1>6. ASSUME up[L]
      PROVE  /\ tasks[Root(c, L)] # None /\ am_i_leader[L]
             /\ At(Root(c, L), "wait") /\ tasks[Root(c, L)].from = t
             /\ \A u \in Later(L) : up[u] => LeaderInv(c, L, u)
  <2>1. tasks[Root(c, L)] # None /\ RootInv(c, L)
    BY <1>5, <1>6, AtLeader
  <2>2. At(Root(c, L), "wait") /\ tasks[Root(c, L)].from = t
    BY <1>3, <2>1 DEF ChildInv, At
  <2>3. am_i_leader[L]
    BY <2>1, <2>2, RootName, InLoop DEF RootInv, At, Writes
  <2>4. \A u \in Later(L) : up[u] => LeaderInv(c, L, u)
    BY <1>3, <1>6, <2>3 DEF DataInv
  <2> QED
    BY <2>1, <2>2, <2>3, <2>4
<1>7. ASSUME L = 0, up[1], up[2] PROVE FollowersInv(c, 1, 2)
  <2>1. 1 \in Servers /\ 2 \in Later(1) /\ 1 \in Later(L)
    BY <1>7 DEF Servers, Later
  <2> QED
    BY <1>3, <1>4, <1>7, <2>1 DEF DataInv
<1>8. L = 0 /\ up[0] => tasks[Root(c, 0)].replay = None
  BY <1>6, AtRoot DEF InTheLoop
<1> QED
  BY <1>1, <1>2, <1>3, <1>4, <1>5, <1>6, <1>7, <1>8

\* A later server executes what the leader will execute, or has executed it.
LEMMA FollowAgrees ==
    ASSUME RInv, LeftServersDown, AInv, NEW c \in Clients, Clients = {c},
           NEW L \in Servers, curr_leader[c] = L, NEW t \in Later(L), Follow(Child(c, L, t))
    PROVE  AInv'
<1> DEFINE j == Child(c, L, t)
           i == Root(c, L)
           m == tasks[j]
           r == m.request
<1>1. m # None /\ m.pc = "begin" /\ At(j, "begin")
  BY DEF Follow, At
<1>2. /\ up[t] /\ m \in Task /\ j \in Tasks /\ i \in Tasks
      /\ Server(j) = t /\ t \in Servers /\ t # 0 /\ t # L
      /\ j # i /\ RolesInv /\ ChildInv(c, L, t)
      /\ Changing(c) /\ pending[c]["main"] # None
      /\ \A u \in Later(L) : ~am_i_leader[u]
      /\ \A u \in Later(L) : u # t => tasks[Child(c, L, u)] = None
      /\ up[L] => /\ tasks[i] # None /\ am_i_leader[L]
                  /\ At(i, "wait") /\ tasks[i].from = t
                  /\ \A u \in Later(L) : up[u] => LeaderInv(c, L, u)
      /\ L = 0 /\ up[1] /\ up[2] => FollowersInv(c, 1, 2)
      /\ L = 0 /\ up[0] => tasks[Root(c, 0)].replay = None
  BY <1>1, AtChild, RootName
<1>3. /\ Writes(r) /\ ~m.is_client /\ r \in Requests /\ m.counter \in Nat
      /\ m.counter <= counter[t] => Reflects(db[t], r)
      /\ tasks[i] # None => r = Replicated(tasks[i]) /\ m.counter = counter[L] + 1
  <2>1. /\ Writes(r) /\ ~m.is_client /\ r \in Asked /\ m.counter \in Nat
        /\ m.counter <= counter[t] => Reflects(db[t], r)
        /\ tasks[i] # None => r = Replicated(tasks[i]) /\ m.counter = counter[L] + 1
    BY <1>1, <1>2 DEF ChildInv, Task
  <2> QED
    BY <2>1, AskedChange DEF Writes
<1>4. /\ last_request' = [last_request EXCEPT ![t] = r]
      /\ UNCHANGED <<up, curr_leader, pending, stubs, am_i_leader>>
      /\ Discard(j) \/ Perform(j)
  BY <1>2 DEF Follow, clientvars, faults
<1>5. Seen(j) <=> m.counter <= counter[t]
  BY <1>2, <1>3 DEF Seen
<1>6. /\ m.counter <= counter[t] => db' = db /\ counter' = counter
      /\ ~(m.counter <= counter[t]) => /\ db' = [db EXCEPT ![t] = Executed(@, r)]
                                       /\ counter' = [counter EXCEPT ![t] = m.counter]
  BY <1>2, <1>3, <1>4, <1>5 DEF Discard, Perform, dbs
<1>7. /\ \A s \in Servers : s # t => /\ db'[s] = db[s] /\ counter'[s] = counter[s]
                                     /\ last_request'[s] = last_request[s]
      /\ last_request'[t] = r
      /\ ~(m.counter <= counter[t]) => db'[t] = Executed(db[t], r) /\ counter'[t] = m.counter
      /\ \A s \in Servers : counter[s] \in Nat /\ db[s] \in Database
  BY <1>2, <1>4, <1>6 DEF RInv, RTypeOK
<1>8. Reflects(db'[t], r)
  <2>1. CASE m.counter <= counter[t]
    BY <1>3, <1>6, <2>1
  <2>2. CASE ~(m.counter <= counter[t])
    BY <1>2, <1>3, <1>7, <2>2, ReflectsExecuted
  <2> QED
    BY <2>1, <2>2
<1>9. PICK k \in Task : /\ tasks'[j] = k /\ k # None /\ k.pc \in {"store", "done"}
                        /\ k.request = r /\ ~k.is_client
                        /\ \A l \in Tasks \ {j} : tasks'[l] = tasks[l]
  <2>1. PICK k : tasks' = [tasks EXCEPT ![j] = k] /\ k.pc \in {"store", "done"}
                 /\ k.request = r /\ k.is_client = m.is_client
    <3>1. CASE Discard(j)
      <4> DEFINE k == [m EXCEPT !.pc = "done", !.success = TRUE]
      <4>1. tasks' = [tasks EXCEPT ![j] = k]
        BY <3>1 DEF Discard
      <4>2. k.pc = "done" /\ k.request = r /\ k.is_client = m.is_client
        BY <1>2 DEF Task
      <4> QED
        BY <4>1, <4>2
    <3>2. CASE Perform(j)
      <4> DEFINE k == [m EXCEPT !.pc = IF Accepts(db[t], r) THEN "store" ELSE "done",
                                !.success = Accepts(db[t], r)]
      <4>1. tasks' = [tasks EXCEPT ![j] = k]
        BY <1>2, <3>2, Zenon DEF Perform
      <4>2. k.pc \in {"store", "done"} /\ k.request = r /\ k.is_client = m.is_client
        BY <1>2 DEF Task
      <4> QED
        BY <4>1, <4>2
    <3> QED
      BY <1>4, <3>1, <3>2
  <2>2. tasks'[j] = k /\ \A l \in Tasks \ {j} : tasks'[l] = tasks[l]
    BY <1>2, <2>1 DEF RInv, RTypeOK
  <2>3. RInv' /\ k # None
    BY <1>2, <2>2, FollowInv
  <2>4. k \in Task
    BY <1>2, <2>2, <2>3 DEF RInv, RTypeOK
  <2> QED
    BY <1>3, <2>1, <2>2, <2>3, <2>4
<1>10. tasks'[i] = tasks[i] /\ \A u \in Later(L) : u # t => tasks'[Child(c, L, u)] = None
  BY <1>2, <1>9, ChildName, Distinct
<1>11. RolesInv'
  <2>1. r # None
    BY <1>3, NoneAssumption
  <2> QED
    BY <1>2, <1>3, <1>4, <1>7, <1>8, <2>1 DEF RolesInv, Servers
<1>12. RootInv(c, L)'
  <2>1. RootInv(c, L)
    BY AtLeader
  <2>2. \A p \in {"begin", "call", "wait", "store", "done"} : At(i, p)' <=> At(i, p)
    BY <1>10 DEF At
  <2>3. tasks[i] # None => tasks[i].from = t
    BY <1>1, <1>2 DEF ChildInv
  <2> QED
    BY <1>2, <1>4, <1>7, <1>9, <1>10, <2>1, <2>2, <2>3 DEF RootInv, InTheLoop, Executing
<1>13. ASSUME NEW u \in Later(L) PROVE ChildInv(c, L, u)'
  <2>1. CASE u # t
    BY <1>10, <2>1 DEF ChildInv
  <2>2. CASE u = t
    <3>1. Changing(c)'
      BY <1>2, <1>4 DEF Changing
    <3>2. tasks[i] # None => tasks[i].pc = "wait" /\ tasks[i].from = t
      BY <1>1, <1>2 DEF ChildInv
    <3> QED
      BY <1>2, <1>3, <1>4, <1>9, <1>10, <2>2, <3>1, <3>2 DEF ChildInv
  <2> QED
    BY <2>1, <2>2
<1>14. ~At(j, "begin")' /\ (up[L] => At(i, "wait")' /\ InTheLoop(i)' /\ InTheLoop(i))
  BY <1>2, <1>9, <1>10 DEF At, InTheLoop
<1>15. ASSUME NEW u \in Later(L), up[L], up[u] PROVE LeaderInv(c, L, u)'
  <2> DEFINE replicated == IF tasks[i].replay = None THEN Executed(db[L], tasks[i].request)
                           ELSE db[L]
  <2>1. LeaderInv(c, L, u) /\ u \in Servers
    BY <1>2, <1>15 DEF Later
  <2>2. CASE u # t
    <3>1. /\ InStep(L, u)' <=> InStep(L, u)
          /\ Matched(L, u)' <=> Matched(L, u)
          /\ Behind(L, u)' <=> Behind(L, u)
      BY <1>2, <1>7, <2>1, <2>2 DEF InStep, Matched, Behind
    <3> QED
      BY <1>2, <1>7, <1>10, <1>14, <1>15, <2>1, <2>2, <3>1 DEF LeaderInv
  <2>3. CASE u = t
    <3>1. ~(t < t)
      BY <1>2 DEF Servers
    <3>2. db'[t] = replicated /\ counter'[t] = counter[L] + 1
      <4>1. CASE tasks[i].replay = None
        <5>1. InStep(L, t)
          BY <1>1, <1>2, <1>14, <1>15, <2>1, <2>3, <3>1, <4>1 DEF LeaderInv
        <5>2. ~(m.counter <= counter[t])
          BY <1>2, <1>3, <1>7, <1>15, <5>1 DEF InStep
        <5> QED
          BY <1>2, <1>3, <1>7, <1>15, <4>1, <5>1, <5>2 DEF InStep, Replicated
      <4>2. CASE tasks[i].replay # None
        <5>1. Matched(L, t) \/ Behind(L, t)
          BY <1>1, <1>2, <1>14, <1>15, <2>1, <2>3, <3>1, <4>2 DEF LeaderInv
        <5>2. r = last_request[L] /\ last_request[L] # None /\ m.counter = counter[L] + 1
          BY <1>2, <1>3, <1>14, <1>15, <4>2, AtLeader DEF Replicated, RootInv
        <5>3. CASE Matched(L, t)
          <6>1. m.counter <= counter[t]
            BY <1>2, <1>3, <1>7, <5>2, <5>3 DEF Matched
          <6> QED
            BY <1>6, <4>2, <5>2, <5>3, <6>1 DEF Matched
        <5>4. CASE Behind(L, t)
          <6>1. ~(m.counter <= counter[t])
            BY <1>2, <1>7, <5>2, <5>4 DEF Behind
          <6> QED
            BY <1>7, <4>2, <5>2, <5>4, <6>1 DEF Behind
        <5> QED
          BY <5>1, <5>3, <5>4
      <4> QED
        BY <4>1, <4>2
    <3> QED
      BY <1>2, <1>7, <1>10, <1>14, <1>15, <2>3, <3>1, <3>2 DEF LeaderInv, At
  <2> QED
    BY <2>2, <2>3
<1>16. ASSUME L = 0, up[1], up[2] PROVE FollowersInv(c, 1, 2)'
  <2>1. FollowersInv(c, 1, 2) /\ 1 \in Later(L) /\ 2 \in Later(L) /\ Root(c, 0) = i
    BY <1>2, <1>16 DEF Later, Servers
  <2>2. Changing(c)'
    BY <1>2, <1>4 DEF Changing
  <2>3. counter[1] \in Nat /\ counter[2] \in Nat /\ 1 \in Servers /\ 2 \in Servers
    BY <1>7 DEF Servers
  <2>4. up[0] => /\ At(i, "wait")' /\ ~At(i, "call")' /\ InTheLoop(i)' /\ tasks[i].from = t
                 /\ r = tasks[i].request
    BY <1>2, <1>3, <1>14, <1>16, <2>1 DEF At, Replicated
  <2>5. CASE t = 1
    <3>1. Matched(1, 2) /\ m.counter > counter[1] /\ m.counter > counter[2]
      BY <1>1, <1>16, <2>1, <2>5 DEF FollowersInv
    <3>2. /\ db'[1] = Executed(db[1], r) /\ db'[2] = db[2] /\ last_request'[1] = r
          /\ counter'[1] = m.counter /\ counter'[2] = counter[2]
      BY <1>3, <1>7, <2>3, <2>5, <3>1
    <3>3. Behind(1, 2)'
      BY <1>3, <2>3, <3>1, <3>2, NoneAssumption DEF Behind, Matched
    <3>4. ~At(Child(c, 0, 1), "begin")' /\ ~At(Child(c, 0, 2), "begin")'
      BY <1>10, <1>14, <1>16, <2>1, <2>5 DEF At
    <3> QED
      BY <1>4, <1>10, <1>16, <2>1, <2>2, <2>4, <2>5, <3>2, <3>3, <3>4 DEF FollowersInv
  <2>6. CASE t = 2
    <3>1. Behind(1, 2) /\ r = last_request[1] /\ m.counter = counter[1] + 1
      BY <1>1, <1>16, <2>1, <2>6 DEF FollowersInv
    <3>2. /\ db'[2] = Executed(db[2], r) /\ db'[1] = db[1] /\ last_request'[2] = r
          /\ counter'[2] = m.counter /\ counter'[1] = counter[1]
          /\ last_request'[1] = last_request[1]
      BY <1>3, <1>7, <2>3, <2>6, <3>1 DEF Behind
    <3>3. Matched(1, 2)'
      BY <1>3, <2>3, <3>1, <3>2, NoneAssumption DEF Behind, Matched
    <3>4. ~At(Child(c, 0, 1), "begin")' /\ ~At(Child(c, 0, 2), "begin")'
      BY <1>10, <1>14, <1>16, <2>1, <2>6 DEF At
    <3> QED
      BY <1>4, <1>10, <1>16, <2>1, <2>2, <2>4, <2>6, <3>2, <3>3, <3>4 DEF FollowersInv
  <2> QED
    BY <1>2, <2>5, <2>6 DEF Servers
<1>17. \A l \in Tasks : tasks'[l] # None /\ tasks'[l] # tasks[l] => l = j
  BY <1>9
<1> QED
  BY <1>2, <1>4, <1>11, <1>12, <1>13, <1>15, <1>16, <1>17, HandlerStep

\* The handler of a later server ends, or its answer is no longer waited for.
LEMMA ChildEnds ==
    ASSUME RInv, LeftServersDown, AInv, NEW c \in Clients, Clients = {c},
           NEW L \in Servers, curr_leader[c] = L, NEW t \in Later(L),
           tasks[Child(c, L, t)] # None, tasks[Child(c, L, t)].pc # "begin",
           NEW k, tasks' = [tasks EXCEPT ![Child(c, L, t)] = k],
           IF k = None THEN ~up[L]
           ELSE k.pc = "done" /\ k.request = tasks[Child(c, L, t)].request /\ ~k.is_client,
           UNCHANGED <<up, curr_leader, pending, servervars, db>>
    PROVE  AInv'
<1> DEFINE j == Child(c, L, t)
           i == Root(c, L)
           m == tasks[j]
<1>1. /\ up[t] /\ j \in Tasks /\ i \in Tasks /\ j # i /\ RolesInv /\ ChildInv(c, L, t)
      /\ Changing(c) /\ pending[c]["main"] # None
      /\ \A u \in Later(L) : ~am_i_leader[u]
      /\ \A u \in Later(L) : u # t => tasks[Child(c, L, u)] = None
      /\ up[L] => /\ tasks[i] # None /\ am_i_leader[L]
                  /\ \A u \in Later(L) : up[u] => LeaderInv(c, L, u)
      /\ L = 0 /\ up[1] /\ up[2] => FollowersInv(c, 1, 2)
  BY AtChild, RootName
<1>2. UNCHANGED <<up, curr_leader, pending, am_i_leader, stubs, db, counter, last_request>>
  BY DEF servervars
<1>3. tasks'[j] = k /\ \A l \in Tasks \ {j} : tasks'[l] = tasks[l]
  BY <1>1 DEF RInv, RTypeOK
<1>4. tasks'[i] = tasks[i] /\ \A u \in Later(L) : u # t => tasks'[Child(c, L, u)] = None
  BY <1>1, <1>3, ChildName, Distinct
<1>5. RolesInv'
  BY <1>1, <1>2 DEF RolesInv
<1>6. \A p \in {"begin", "call", "wait", "store", "done"} : At(i, p)' <=> At(i, p)
  BY <1>4 DEF At
<1>7. /\ tasks[i] # None => tasks[i].pc = "wait" /\ tasks[i].from = t
      /\ ~At(j, "begin") /\ ~At(j, "begin")' /\ InTheLoop(i)' = InTheLoop(i)
  <2>1. ~At(j, "begin") /\ ~At(j, "begin")'
    BY <1>3 DEF At
  <2>2. InTheLoop(i)' = InTheLoop(i)
    BY <1>6 DEF InTheLoop
  <2> QED
    BY <1>1, <2>1, <2>2 DEF ChildInv
<1>8. tasks[i] # None => up[L]
  BY AtLeader
<1>9. RootInv(c, L)'
  <2>1. RootInv(c, L)
    BY AtLeader
  <2> QED
    BY <1>2, <1>3, <1>4, <1>6, <1>7, <1>8, <2>1 DEF RootInv, InTheLoop, Executing
<1>10. ASSUME NEW u \in Later(L) PROVE ChildInv(c, L, u)'
  <2>1. CASE u # t
    BY <1>4, <2>1 DEF ChildInv
  <2>2. CASE u = t
    <3>1. Changing(c)'
      BY <1>1, <1>2 DEF Changing
    <3>2. CASE k = None
      BY <1>3, <2>2, <3>2 DEF ChildInv
    <3>3. CASE k # None
      BY <1>1, <1>2, <1>3, <1>4, <1>7, <2>2, <3>1, <3>3 DEF ChildInv
    <3> QED
      BY <3>2, <3>3
  <2> QED
    BY <2>1, <2>2
<1>11. \A u \in Later(L) : At(Child(c, L, u), "begin")' <=> At(Child(c, L, u), "begin")
  BY <1>1, <1>4, <1>7 DEF At
<1>12. ASSUME NEW u \in Later(L), up[L], up[u] PROVE LeaderInv(c, L, u)'
  BY <1>1, <1>2, <1>4, <1>7, <1>11, <1>12, SameData DEF LeaderInv
<1>13. ASSUME L = 0, up[1], up[2] PROVE FollowersInv(c, 1, 2)'
  <2>1. FollowersInv(c, 1, 2) /\ 1 \in Later(L) /\ 2 \in Later(L) /\ Root(c, 0) = i
    BY <1>1, <1>13 DEF Later, Servers
  <2>2. /\ Matched(1, 2)' <=> Matched(1, 2)
        /\ Behind(1, 2)' <=> Behind(1, 2)
    BY <1>2, SameData
  <2>3. /\ At(Child(c, 0, 1), "begin")' <=> At(Child(c, 0, 1), "begin")
        /\ At(Child(c, 0, 2), "begin")' <=> At(Child(c, 0, 2), "begin")
        /\ InTheLoop(Root(c, 0))' <=> InTheLoop(Root(c, 0))
        /\ Changing(c)' <=> Changing(c)
    BY <1>2, <1>7, <1>11, <1>13, <2>1 DEF Changing
  <2>4. /\ At(Child(c, 0, 1), "begin") => t = 1
        /\ At(Child(c, 0, 2), "begin") => t = 2
    BY <1>1, <1>13, <2>1 DEF At
  <2>5. ~At(Child(c, 0, 1), "begin") /\ ~At(Child(c, 0, 2), "begin")
    BY <1>7, <1>13, <2>4
  <2> QED
    BY <1>2, <1>4, <1>6, <1>13, <2>1, <2>2, <2>3, <2>5 DEF FollowersInv
<1>14. \A l \in Tasks : tasks'[l] # None /\ tasks'[l] # tasks[l] => l = j
  BY <1>3
<1> QED
  BY <1>1, <1>2, <1>5, <1>9, <1>10, <1>12, <1>13, <1>14, HandlerStep

\* A handler of a later server follows, stores and answers.
LEMMA ChildRole ==
    ASSUME RInv, LeftServersDown, AInv, NEW c \in Clients,
           NEW L \in Servers, curr_leader[c] = L, NEW t \in Later(L), TaskStep(Child(c, L, t))
    PROVE  Follow(Child(c, L, t)) \/ Store(Child(c, L, t)) \/ Unheard(Child(c, L, t))
<1> DEFINE j == Child(c, L, t)
           m == tasks[j]
<1>1. m # None
  BY DEF TaskStep, Read, Lead, Call, Returned, Failed, EndReplay, Follow, Act, Store, Unheard, At
<1>2. /\ m \in Task /\ j \in Tasks /\ Server(j) = t /\ ~am_i_leader[t]
      /\ Writes(m.request) /\ ~m.is_client /\ m.pc \in {"begin", "store", "done"}
  <2>1. ChildInv(c, L, t) /\ m \in Task /\ j \in Tasks /\ Server(j) = t
    BY <1>1, AtChild
  <2> QED
    BY <1>1, <2>1 DEF ChildInv
<1>3. ~Read(j) /\ ~Lead(j)
  BY <1>2 DEF Read, Lead, Writes
<1>4. ~Call(j) /\ ~Returned(j) /\ ~Failed(j) /\ ~EndReplay(j) /\ ~Act(j)
  BY <1>2 DEF Call, Returned, Failed, EndReplay, Act, At
<1> QED
  BY <1>3, <1>4 DEF TaskStep

\* A step of the handler of a later server.
LEMMA ChildAgrees ==
    ASSUME RInv, LeftServersDown, AInv, NEW c \in Clients, Clients = {c},
           NEW L \in Servers, curr_leader[c] = L, NEW t \in Later(L),
           TaskStep(Child(c, L, t))
    PROVE  AInv'
<1> DEFINE j == Child(c, L, t)
           i == Root(c, L)
           m == tasks[j]
<1>1. m # None
  BY DEF TaskStep, Read, Lead, Call, Returned, Failed, EndReplay, Follow, Act, Store, Unheard, At
<1>2. /\ m \in Task /\ j \in Tasks /\ Server(j) = t /\ ~am_i_leader[t]
      /\ Writes(m.request) /\ ~m.is_client /\ m.pc \in {"begin", "store", "done"}
  <2>1. ChildInv(c, L, t) /\ m \in Task /\ j \in Tasks /\ Server(j) = t
    BY <1>1, AtChild
  <2> QED
    BY <1>1, <2>1 DEF ChildInv
<1>3. CASE Store(j)
  <2> DEFINE k == [m EXCEPT !.pc = "done"]
  <2>1. /\ m.pc = "store" /\ tasks' = [tasks EXCEPT ![j] = k]
        /\ UNCHANGED <<up, curr_leader, pending, servervars, db>>
    BY <1>3 DEF Store, At, clientvars, faults
  <2>2. k.pc = "done" /\ k.request = m.request /\ ~k.is_client /\ k \in Task
    BY <1>2 DEF Task
  <2> HIDE DEF k
  <2>3. k # None
    BY <2>2, NoTaskAssumption
  <2> QED
    BY <1>1, <2>1, <2>2, <2>3, ChildEnds
<1>4. CASE Unheard(j)
  <2>1. /\ m.pc = "done" /\ ~Heard(j) /\ tasks' = [tasks EXCEPT ![j] = None]
        /\ UNCHANGED <<up, curr_leader, pending, servervars, db>>
    BY <1>4 DEF Unheard, At, dbs, clientvars, faults
  <2>2. ~up[L]
    <3> SUFFICES ASSUME up[L] PROVE Heard(j)
      BY <2>1
    <3>1. At(i, "wait") /\ tasks[i].from = t /\ i \in Tasks /\ j = Callee(i, t)
      BY <1>1, AtChild, RootName, ChildName
    <3> QED
      BY <3>1 DEF Heard
  <2> QED
    BY <1>1, <2>1, <2>2, ChildEnds
<1> QED
  BY <1>3, <1>4, ChildRole, FollowAgrees

-----------------------------------------------------------------------------
(***************************************************************************)
(* All handlers.                                                           *)
(***************************************************************************)

\* What the other thread does.
LEMMA Untouched ==
    ASSUME RInv, AInv, NEW c \in Clients, Clients = {c},
           UNCHANGED <<up, am_i_leader, stubs, db, counter, last_request>>,
           curr_leader'[c] = curr_leader[c], pending'[c]["main"] = pending[c]["main"],
           \A i \in Tasks : i[1] = <<c, "main">> => tasks'[i] = tasks[i]
    PROVE  AInv'
<1>1. /\ \A s \in Servers : tasks'[Root(c, s)] = tasks[Root(c, s)]
      /\ \A s \in Servers : \A t \in Later(s) : tasks'[Child(c, s, t)] = tasks[Child(c, s, t)]
  BY RootName, ChildName
<1>2. /\ RolesInv /\ PlacesInv(c) /\ DataInv
      /\ \A s \in Servers : RootInv(c, s) /\ \A t \in Later(s) : ChildInv(c, s, t)
  BY DEF AInv, TreeInv
<1>3. RolesInv'
  BY <1>2 DEF RolesInv
<1>4. PlacesInv(c)'
  BY <1>2 DEF PlacesInv
<1>5. ASSUME NEW s \in Servers PROVE RootInv(c, s)'
  <2>1. ASSUME At(Root(c, s), "wait")
        PROVE  \E t \in Later(s) : t = tasks[Root(c, s)].from
    BY <2>1, RootName DEF At, RInv, TasksInv
  <2>2. ASSUME tasks'[Root(c, s)] # None, tasks'[Root(c, s)].pc = "wait"
        PROVE  up'[tasks'[Root(c, s)].from]
               => tasks'[Child(c, s, tasks'[Root(c, s)].from)] # None
    <3>1. PICK t \in Later(s) : t = tasks[Root(c, s)].from
      BY <1>1, <2>1, <2>2 DEF At
    <3>2. up[t] => tasks[Child(c, s, t)] # None
      BY <1>1, <1>2, <2>2, <3>1 DEF RootInv
    <3> QED
      BY <1>1, <3>1, <3>2
  <2>3. \A p : At(Root(c, s), p)' <=> At(Root(c, s), p)
    BY <1>1 DEF At
  <2> QED
    BY <1>1, <1>2, <2>2, <2>3 DEF RootInv, InTheLoop, Executing
<1>6. ASSUME NEW s \in Servers, NEW t \in Later(s) PROVE ChildInv(c, s, t)'
  <2>1. ChildInv(c, s, t) /\ (Changing(c)' <=> Changing(c))
    BY <1>2 DEF Changing
  <2> QED
    BY <1>1, <2>1 DEF ChildInv
<1>7. ASSUME NEW s \in Servers, NEW t \in Later(s), up[s], up[t]
      PROVE  IF am_i_leader'[s] THEN LeaderInv(c, s, t)' ELSE FollowersInv(c, s, t)'
  <2>1. /\ At(Child(c, s, t), "begin")' <=> At(Child(c, s, t), "begin")
        /\ InTheLoop(Root(c, s))' <=> InTheLoop(Root(c, s))
    BY <1>1 DEF At, InTheLoop
  <2>2. CASE am_i_leader[s]
    <3>1. LeaderInv(c, s, t)
      BY <1>2, <1>7, <2>2 DEF DataInv
    <3> QED
      BY <1>1, <2>1, <2>2, <3>1, SameData DEF LeaderInv
  <2>3. CASE ~am_i_leader[s]
    <3>1. FollowersInv(c, s, t) /\ s \in Later(0) /\ t \in Later(0) /\ 0 \in Servers
      BY <1>2, <1>7, <2>3 DEF DataInv, RolesInv, Later, Servers
    <3>2. /\ tasks'[Root(c, 0)] = tasks[Root(c, 0)]
          /\ tasks'[Child(c, 0, s)] = tasks[Child(c, 0, s)]
          /\ tasks'[Child(c, 0, t)] = tasks[Child(c, 0, t)]
      BY <1>1, <3>1
    <3>3. Changing(c)' <=> Changing(c)
      BY DEF Changing
    <3> QED
      BY <2>3, <3>1, <3>2, <3>3, SameData DEF FollowersInv, InTheLoop, At
  <2> QED
    BY <2>2, <2>3
<1> QED
  BY <1>3, <1>4, <1>5, <1>6, <1>7 DEF AInv, TreeInv, DataInv

\* Who works for the client: the handlers of its main thread, where it is, and the
\* ones that read for its other thread.
LEMMA TaskKinds ==
    ASSUME RInv, AInv, NEW c, Clients = {c}, NEW i \in Tasks, TaskStep(i)
    PROVE  \/ /\ curr_leader[c] \in Servers
              /\ \/ i = Root(c, curr_leader[c])
                 \/ \E t \in Later(curr_leader[c]) : i = Child(c, curr_leader[c], t)
           \/ i[1] = <<c, "inbox">> /\ (Read(i) \/ Unheard(i))
<1>1. tasks[i] # None /\ i[1] = <<c, i[1][2]>> /\ i[1][2] \in Threads
  <2>1. tasks[i] # None
    BY DEF TaskStep, Read, Lead, Call, Returned, Failed, EndReplay, Follow, Act, Store,
           Unheard, At
  <2> QED
    BY <2>1, TaskName
<1>2. CASE i[1][2] = "main"
  <2>1. PICK L : L = curr_leader[c]
    OBVIOUS
  <2>2. i = Root(c, L) \/ \E t \in Later(L) : i = Child(c, L, t)
    BY <1>1, <1>2, <2>1 DEF AInv, TreeInv, PlacesInv
  <2>3. L \in Servers
    <3>1. L \in 0 .. 3
      BY <2>1 DEF RInv, RTypeOK
    <3>2. L # 3
      <4>1. CASE i = Root(c, L)
        <5>1. Server(i) \in Servers /\ Server(i) = L
          BY <4>1, TaskName DEF Server, Root
        <5> QED
          BY <5>1 DEF Servers
      <4>2. CASE \E t \in Later(L) : i = Child(c, L, t)
        BY <4>2 DEF Later, Servers
      <4> QED
        BY <2>2, <4>1, <4>2
    <3> QED
      BY <3>1, <3>2 DEF Servers
  <2> QED
    BY <2>1, <2>2, <2>3
<1>3. CASE i[1][2] = "inbox"
  <2>1. tasks[i].request.rpc \in ReadOnly /\ tasks[i].pc \in {"begin", "done"}
    BY <1>1, <1>3 DEF RInv, TasksInv
  <2>2. Read(i) \/ Unheard(i)
    BY <2>1 DEF TaskStep, Read, Lead, Call, Returned, Failed, EndReplay, Follow, Act, Store,
                Unheard, At
  <2> QED
    BY <1>1, <1>3, <2>2
<1> QED
  BY <1>1, <1>2, <1>3 DEF Threads

\* A step of any handler.
LEMMA TaskAgrees ==
    ASSUME RInv, LeftServersDown, AInv, NEW c \in Clients, Clients = {c},
           NEW i \in Tasks, TaskStep(i)
    PROVE  AInv'
<1>1. CASE i[1] = <<c, "inbox">> /\ (Read(i) \/ Unheard(i))
  <2>1. /\ \A l \in Tasks \ {i} : tasks'[l] = tasks[l]
        /\ UNCHANGED <<up, curr_leader, pending, servervars, db>>
    BY <1>1 DEF Read, Unheard, dbs, clientvars, faults, RInv, RTypeOK
  <2>2. \A l \in Tasks : l[1] = <<c, "main">> => l # i
    BY <1>1
  <2> QED
    BY <2>1, <2>2, Untouched DEF servervars
<1> QED
  BY <1>1, TaskKinds, RootAgrees, ChildAgrees

-----------------------------------------------------------------------------
(***************************************************************************)
(* Steps of the client and of the servers.                                 *)
(***************************************************************************)

\* The main thread asks, or stops to wait, when nobody works for it.
LEMMA Fresh ==
    ASSUME RInv, AInv, NEW c \in Clients, Clients = {c}, NEW L,
           UNCHANGED <<up, am_i_leader, stubs, db, counter, last_request>>,
           curr_leader'[c] = L,
           \A i \in Tasks : i[1] = <<c, "main">> /\ tasks'[i] # None =>
              /\ i = Root(c, L) /\ pending'[c]["main"] # None
              /\ tasks'[i].pc = "begin" /\ tasks'[i].is_client,
           \A s \in Servers : \A t \in Later(s) : up[s] /\ up[t] =>
              IF am_i_leader[s] THEN InStep(s, t)
              ELSE Matched(s, t) \/ (Behind(s, t) /\ Changing(c)' /\ ~up[0])
    PROVE  AInv'
<1>1. RolesInv'
  BY DEF AInv, RolesInv
<1>2. PlacesInv(c)'
  BY DEF PlacesInv
<1>3. \A s \in Servers : \A t \in Later(s) : tasks'[Child(c, s, t)] = None
  BY ChildName, Distinct
<1>4. \A s \in Servers : tasks'[Root(c, s)] # None =>
         tasks'[Root(c, s)].pc = "begin" /\ tasks'[Root(c, s)].is_client
  BY RootName
<1>5. \A s \in Servers : ~InTheLoop(Root(c, s))' /\ ~Executing(Root(c, s))'
                         /\ ~At(Root(c, s), "call")' /\ ~At(Root(c, s), "wait")'
  BY <1>4 DEF InTheLoop, Executing, At
<1>6. \A s \in Servers : RootInv(c, s)'
  BY <1>4, <1>5 DEF RootInv
<1>7. \A s \in Servers : \A t \in Later(s) : ChildInv(c, s, t)'
  BY <1>3 DEF ChildInv
<1>8. ASSUME NEW s \in Servers, NEW t \in Later(s), up[s], up[t]
      PROVE  IF am_i_leader'[s] THEN LeaderInv(c, s, t)' ELSE FollowersInv(c, s, t)'
  <2>1. CASE am_i_leader[s]
    BY <1>5, <1>8, <2>1, SameData DEF LeaderInv
  <2>2. CASE ~am_i_leader[s]
    <3>1. s \in Later(0) /\ t \in Later(0) /\ 0 \in Servers
      BY <2>2 DEF AInv, RolesInv, Later, Servers
    <3>2. tasks'[Child(c, 0, s)] = None /\ tasks'[Child(c, 0, t)] = None
      BY <1>3, <3>1
    <3>3. ~At(Child(c, 0, s), "begin")' /\ ~At(Child(c, 0, t), "begin")'
      BY <3>2 DEF At
    <3>4. Matched(s, t) \/ (Behind(s, t) /\ Changing(c)' /\ ~up[0])
      BY <1>8, <2>2
    <3> QED
      BY <1>5, <2>2, <3>1, <3>3, <3>4, SameData DEF FollowersInv
  <2> QED
    BY <2>1, <2>2
<1> QED
  BY <1>1, <1>2, <1>6, <1>7, <1>8 DEF AInv, TreeInv, DataInv

\* When the main thread waits for nothing, nobody works for it.
LEMMA MainRests ==
    ASSUME AInv, NEW c \in Clients, pending[c]["main"] = None
    PROVE  /\ \A i \in Tasks : i[1] = <<c, "main">> => tasks[i] = None
           /\ \A s \in Servers : tasks[Root(c, s)] = None
           /\ ~Changing(c)
           /\ \A s \in Servers : \A t \in Later(s) : up[s] /\ up[t] =>
                 IF am_i_leader[s] THEN InStep(s, t) ELSE Matched(s, t)
<1>1. \A i \in Tasks : i[1] = <<c, "main">> => tasks[i] = None
  BY DEF AInv, TreeInv, PlacesInv
<1>2. \A s \in Servers : tasks[Root(c, s)] = None
  BY <1>1, RootName
<1>3. ~Changing(c)
  BY DEF Changing
<1>4. ASSUME NEW s \in Servers, NEW t \in Later(s), up[s], up[t]
      PROVE  IF am_i_leader[s] THEN InStep(s, t) ELSE Matched(s, t)
  <2>1. IF am_i_leader[s] THEN LeaderInv(c, s, t) ELSE FollowersInv(c, s, t)
    BY <1>4 DEF AInv, DataInv
  <2>2. ~InTheLoop(Root(c, s))
    BY <1>2 DEF InTheLoop, At
  <2> QED
    BY <1>3, <2>1, <2>2 DEF LeaderInv, FollowersInv
<1> QED
  BY <1>1, <1>2, <1>3, <1>4

\* The new handler of a call on a stub, and no other.
LEMMA ConnectStarts ==
    ASSUME RInv, NEW c \in Clients, NEW h \in Threads, NEW r \in Asked, NEW s \in 0 .. 3,
           Connect(c, h, r, s)
    PROVE  /\ pending'[c][h] # None /\ pending'[c][h].request = r
           /\ \A g \in Threads : g # h => pending'[c][g] = pending[c][g]
           /\ \A i \in Tasks : tasks'[i] # tasks[i] =>
                 /\ i = <<<<c, h>>, <<s>>>> /\ tasks'[i] # None
                 /\ tasks'[i].pc = "begin" /\ tasks'[i].is_client
<1> DEFINE k == NewTask(r, TRUE, 0)
           j == <<<<c, h>>, <<s>>>>
<1>1. k # None /\ k.pc = "begin" /\ k.is_client
  BY NewTaskType DEF NewTask
<1>2. tasks' = [tasks EXCEPT ![j] = k] \/ tasks' = tasks
  BY DEF Connect
<1> HIDE DEF k, j
<1>3. \A i \in Tasks : tasks'[i] # tasks[i] => i = j /\ tasks'[i] = k
  BY <1>2 DEF RInv, RTypeOK
<1>4. /\ pending'[c][h] = [request |-> r, at |-> s]
      /\ \A g \in Threads : g # h => pending'[c][g] = pending[c][g]
  BY PendingFacts DEF RInv
<1>5. [request |-> r, at |-> s] # None
  BY NoTaskAssumption
<1> QED
  BY <1>1, <1>3, <1>4, <1>5 DEF j

\* Whoever asks.
LEMMA AskAgrees ==
    ASSUME RInv, AInv, NEW c \in Clients, Clients = {c}, NEW h \in Threads,
           NEW r \in Asked, Ask(c, h, r)
    PROVE  AInv'
<1>1. PICK L \in 0 .. 3 : L = curr_leader[c]
  BY DEF RInv, RTypeOK
<1>2. /\ pending[c][h] = None /\ Connect(c, h, r, L)
      /\ UNCHANGED <<curr_leader, up, am_i_leader, stubs, db, counter, last_request>>
  BY <1>1 DEF Ask, servervars, dbs, faults
<1>3. /\ pending'[c][h] # None
      /\ \A g \in Threads : g # h => pending'[c][g] = pending[c][g]
      /\ \A i \in Tasks : tasks'[i] # tasks[i] =>
            /\ i = <<<<c, h>>, <<L>>>> /\ tasks'[i] # None
            /\ tasks'[i].pc = "begin" /\ tasks'[i].is_client
  BY <1>2, ConnectStarts
<1>4. CASE h = "inbox"
  <2>1. \A i \in Tasks : i[1] = <<c, "main">> => tasks'[i] = tasks[i]
    BY <1>3, <1>4
  <2>2. pending'[c]["main"] = pending[c]["main"]
    BY <1>3, <1>4 DEF Threads
  <2> QED
    BY <1>2, <2>1, <2>2, Untouched
<1>5. CASE h = "main"
  <2>1. /\ \A i \in Tasks : i[1] = <<c, "main">> => tasks[i] = None
        /\ \A s \in Servers : \A t \in Later(s) : up[s] /\ up[t] =>
              IF am_i_leader[s] THEN InStep(s, t) ELSE Matched(s, t)
    BY <1>2, <1>5, MainRests
  <2>2. \A i \in Tasks : i[1] = <<c, "main">> /\ tasks'[i] # None =>
           /\ i = Root(c, L) /\ pending'[c]["main"] # None
           /\ tasks'[i].pc = "begin" /\ tasks'[i].is_client
    BY <1>3, <1>5, <2>1 DEF Root
  <2>3. curr_leader'[c] = L
    BY <1>1, <1>2
  <2> QED
    BY <1>2, <2>1, <2>2, <2>3, Fresh
<1> QED
  BY <1>4, <1>5 DEF Threads

\* A client that turns to the next server leaves no handler behind, and one server
\* that lives may miss the request it turns with.
LEMMA FailOverAgrees ==
    ASSUME Settled, RInv, LeftServersDown, AInv, NEW c \in Clients, Clients = {c},
           NEW h \in Threads, FailOver(c, h)
    PROVE  AInv'
<1>1. /\ Waiting(c, h) /\ tasks[Awaited(c, h)] = None
      /\ \A i \in Tasks : i[1] = <<c, h>> => tasks[i] = None
      /\ curr_leader' = [curr_leader EXCEPT ![c] = @ + 1]
      /\ Connect(c, h, pending[c][h].request, curr_leader[c] + 1)
      /\ UNCHANGED <<up, am_i_leader, stubs, db, counter, last_request>>
  BY DEF FailOver, TryNext, servervars, dbs, faults
<1>2. PICK r \in Asked : r = pending[c][h].request
  BY <1>1, WaitingFacts
<1>3. PICK L \in 0 .. 3 : L = curr_leader[c] + 1
  BY <1>1, WaitingFacts
<1>4. /\ pending'[c][h] # None /\ pending'[c][h].request = r
      /\ \A g \in Threads : g # h => pending'[c][g] = pending[c][g]
      /\ \A i \in Tasks : tasks'[i] # tasks[i] =>
            /\ i = <<<<c, h>>, <<L>>>> /\ tasks'[i] # None
            /\ tasks'[i].pc = "begin" /\ tasks'[i].is_client
  BY <1>1, <1>2, <1>3, ConnectStarts
<1>5. curr_leader'[c] = L
  BY <1>1, <1>3 DEF RInv, RTypeOK
<1>6. ~up[0]
  <2>1. PICK s \in Servers : s = curr_leader[c]
    BY <1>1, WaitingFacts
  <2>2. ~up[s] /\ \A t \in Servers : t < s => ~up[t]
    BY <1>1, <2>1 DEF LeftServersDown
  <2> QED
    BY <2>2 DEF Servers
<1>7. CASE h = "inbox"
  <2>1. pending[c]["main"] = None
    BY <1>1, <1>7, OneWaits DEF Waiting, Threads
  <2>2. /\ \A i \in Tasks : i[1] = <<c, "main">> => tasks[i] = None
        /\ \A s \in Servers : \A t \in Later(s) : up[s] /\ up[t] =>
              IF am_i_leader[s] THEN InStep(s, t) ELSE Matched(s, t)
    BY <2>1, MainRests
  <2>3. \A i \in Tasks : i[1] = <<c, "main">> => tasks'[i] = None
    BY <1>4, <1>7, <2>2
  <2> QED
    BY <1>1, <1>5, <2>2, <2>3, Fresh
<1>8. CASE h = "main"
  <2>1. \A i \in Tasks : i[1] = <<c, "main">> /\ tasks'[i] # None =>
           /\ i = Root(c, L) /\ pending'[c]["main"] # None
           /\ tasks'[i].pc = "begin" /\ tasks'[i].is_client
    BY <1>1, <1>4, <1>8 DEF Root
  <2>2. Changing(c) => Changing(c)'
    BY <1>2, <1>4, <1>8 DEF Changing
  <2>3. ASSUME NEW s \in Servers, NEW t \in Later(s), up[s], up[t]
        PROVE  IF am_i_leader[s] THEN InStep(s, t)
               ELSE Matched(s, t) \/ (Behind(s, t) /\ Changing(c)' /\ ~up[0])
    <3>1. IF am_i_leader[s] THEN LeaderInv(c, s, t) ELSE FollowersInv(c, s, t)
      BY <2>3 DEF AInv, DataInv
    <3>2. tasks[Root(c, s)] = None
      BY <1>1, <1>8, RootName
    <3>3. ~InTheLoop(Root(c, s))
      BY <3>2 DEF InTheLoop, At
    <3> QED
      BY <1>6, <2>2, <3>1, <3>3 DEF LeaderInv, FollowersInv
  <2> QED
    BY <1>1, <1>5, <2>1, <2>3, Fresh
<1> QED
  BY <1>7, <1>8 DEF Threads

\* An answer comes when the servers agree.
LEMMA AnswerAgrees ==
    ASSUME RInv, LeftServersDown, AInv, NEW c \in Clients, Clients = {c},
           NEW h \in Threads, Answer(c, h)
    PROVE  AInv'
<1>1. /\ Waiting(c, h) /\ tasks[Awaited(c, h)] # None /\ tasks[Awaited(c, h)].pc = "done"
      /\ pending' = [pending EXCEPT ![c][h] = None]
      /\ tasks' = [tasks EXCEPT ![Awaited(c, h)] = None]
      /\ UNCHANGED <<curr_leader, up, am_i_leader, stubs, db, counter, last_request>>
  BY DEF Answer, At, servervars, dbs, faults
<1>2. PICK L \in Servers : L = curr_leader[c] /\ pending[c][h].at = L
  BY <1>1, WaitingFacts DEF LeftServersDown
<1>3. CASE h = "inbox"
  <2>1. \A i \in Tasks : i[1] = <<c, "main">> => tasks'[i] = tasks[i]
    BY <1>1, <1>3 DEF Awaited, RInv, RTypeOK
  <2>2. pending'[c]["main"] = pending[c]["main"]
    BY <1>1, <1>3 DEF RInv, RTypeOK, Threads
  <2> QED
    BY <1>1, <2>1, <2>2, Untouched
<1>4. CASE h = "main"
  <2> DEFINE i == Root(c, L)
  <2>1. Awaited(c, h) = i
    BY <1>2, <1>4 DEF Awaited, Root
  <2>2. tasks[i] # None /\ tasks[i].pc = "done" /\ tasks' = [tasks EXCEPT ![i] = None]
    BY <1>1, <2>1
  <2>3. /\ i \in Tasks /\ RootInv(c, L) /\ up[L]
        /\ pending[c]["main"].request = tasks[i].request
        /\ \A t \in Later(L) : tasks[Child(c, L, t)] = None
    BY <1>2, <2>2, AtRoot
  <2>4. /\ \A s \in Servers : s # L =>
              /\ tasks[Root(c, s)] = None
              /\ \A t \in Later(s) : tasks[Child(c, s, t)] = None
        /\ \A s \in Servers : s < L => ~up[s]
    BY <1>2, AtLeader
  <2>5. \A l \in Tasks : l[1] = <<c, "main">> => tasks'[l] = None
    <3> SUFFICES ASSUME NEW l \in Tasks, l[1] = <<c, "main">>, tasks[l] # None PROVE l = i
      BY <2>2, <2>3 DEF RInv, RTypeOK
    <3> QED
      BY <1>2, <2>3 DEF AInv, TreeInv, PlacesInv
  <2>6. ASSUME NEW s \in Servers, NEW t \in Later(s), up[s], up[t]
        PROVE  IF am_i_leader[s] THEN InStep(s, t) ELSE Matched(s, t)
    <3>1. IF am_i_leader[s] THEN LeaderInv(c, s, t) ELSE FollowersInv(c, s, t)
      BY <2>6 DEF AInv, DataInv
    <3>2. \A u \in Servers : ~InTheLoop(Root(c, u))
      BY <2>2, <2>4 DEF InTheLoop, At
    <3>3. CASE am_i_leader[s]
      BY <3>1, <3>2, <3>3 DEF LeaderInv
    <3>4. CASE ~am_i_leader[s]
      <4>1. up[0] => Matched(s, t)
        BY <3>1, <3>2, <3>4 DEF FollowersInv, Servers
      <4>2. CASE ~Writes(tasks[i].request)
        BY <2>3, <3>1, <3>4, <4>2 DEF FollowersInv, Changing
      <4>3. CASE Writes(tasks[i].request)
        <5>1. am_i_leader[L] /\ am_i_leader[0]
          BY <2>2, <2>3, <4>3 DEF RootInv, AInv, RolesInv
        <5>2. ~(s < L) /\ s # L
          BY <2>4, <2>6, <3>4, <5>1
        <5>3. s = 1 => L = 0
          BY <5>2 DEF Servers
        <5>4. s = 1
          BY <2>6, <3>4, <5>1 DEF Later, Servers
        <5> QED
          BY <2>3, <3>4, <4>1, <5>3, <5>4
      <4> QED
        BY <4>2, <4>3
    <3> QED
      BY <3>3, <3>4
  <2> QED
    BY <1>1, <2>5, <2>6, Fresh
<1> QED
  BY <1>3, <1>4 DEF Threads

LEMMA LeaveAgrees ==
    ASSUME RInv, AInv, NEW c \in Clients, Clients = {c}, Leave(c)
    PROVE  AInv'
<1>1. /\ pending[c]["main"] = None
      /\ UNCHANGED <<tasks, up, am_i_leader, stubs, db, counter, last_request>>
  BY DEF Leave, servervars, dbs, faults, Threads
<1>2. /\ \A i \in Tasks : i[1] = <<c, "main">> => tasks[i] = None
      /\ \A s \in Servers : \A t \in Later(s) : up[s] /\ up[t] =>
            IF am_i_leader[s] THEN InStep(s, t) ELSE Matched(s, t)
  BY <1>1, MainRests
<1>3. PICK L : L = curr_leader'[c]
  OBVIOUS
<1> QED
  BY <1>1, <1>2, <1>3, Fresh

\* A server that stops takes its handlers with it; what the others have and wait for
\* stays.
LEMMA CrashAgrees ==
    ASSUME RInv, LeftServersDown, AInv, NEW c \in Clients, Clients = {c},
           NEW s \in Servers, Crash(s)
    PROVE  AInv'
<1>1. /\ up' = [up EXCEPT ![s] = FALSE]
      /\ tasks' = [i \in Tasks |-> IF Server(i) = s THEN None ELSE tasks[i]]
      /\ UNCHANGED <<am_i_leader, stubs, counter, last_request, db, curr_leader, pending>>
  BY DEF Crash, servervars, dbs, clientvars
<1>2. /\ \A t \in Servers : up'[t] <=> up[t] /\ t # s
  BY <1>1 DEF RInv, RTypeOK
<1>3. /\ \A a \in Servers : tasks'[Root(c, a)] = IF a = s THEN None ELSE tasks[Root(c, a)]
      /\ \A a \in Servers : \A b \in Later(a) :
            tasks'[Child(c, a, b)] = IF b = s THEN None ELSE tasks[Child(c, a, b)]
  BY <1>1, RootName, ChildName
<1>4. /\ RolesInv /\ PlacesInv(c) /\ DataInv
      /\ \A a \in Servers : RootInv(c, a) /\ \A b \in Later(a) : ChildInv(c, a, b)
  BY DEF AInv, TreeInv
<1>5. RolesInv'
  BY <1>1, <1>2, <1>4 DEF RolesInv, Later
<1>6. PlacesInv(c)'
  BY <1>1, <1>4 DEF PlacesInv
<1>7. ASSUME NEW a \in Servers PROVE RootInv(c, a)'
  <2>1. CASE a = s
    BY <1>3, <2>1 DEF RootInv
  <2>2. CASE a # s
    <3>1. tasks'[Root(c, a)] = tasks[Root(c, a)]
      BY <1>3, <2>2
    <3>2. \A p : At(Root(c, a), p)' <=> At(Root(c, a), p)
      BY <3>1 DEF At
    <3>3. ASSUME At(Root(c, a), "wait")
          PROVE  \E b \in Later(a) : b = tasks[Root(c, a)].from
      BY <3>3, RootName DEF At, RInv, TasksInv
    <3>4. ASSUME tasks'[Root(c, a)] # None, tasks'[Root(c, a)].pc = "wait",
                 up'[tasks'[Root(c, a)].from]
          PROVE  tasks'[Child(c, a, tasks'[Root(c, a)].from)] # None
      <4>1. PICK b \in Later(a) : b = tasks[Root(c, a)].from
        BY <3>1, <3>3, <3>4 DEF At
      <4>2. b \in Servers /\ up[b] /\ b # s
        BY <1>2, <3>1, <3>4, <4>1 DEF Later
      <4>3. tasks[Child(c, a, b)] # None
        BY <1>4, <3>1, <3>4, <4>1, <4>2 DEF RootInv
      <4> QED
        BY <1>3, <3>1, <4>1, <4>2, <4>3
    <3> QED
      BY <1>1, <1>4, <3>1, <3>2, <3>4 DEF RootInv, InTheLoop, Executing
  <2> QED
    BY <2>1, <2>2
<1>8. ASSUME NEW a \in Servers, NEW b \in Later(a) PROVE ChildInv(c, a, b)'
  <2>1. Changing(c)' <=> Changing(c)
    BY <1>1 DEF Changing
  <2> QED
    BY <1>1, <1>3, <1>4, <2>1 DEF ChildInv
<1>9. ASSUME NEW a \in Servers, NEW b \in Later(a), up'[a], up'[b]
      PROVE  IF am_i_leader'[a] THEN LeaderInv(c, a, b)' ELSE FollowersInv(c, a, b)'
  <2>1. a # s /\ b # s /\ up[a] /\ up[b] /\ b \in Servers
    BY <1>2, <1>9 DEF Later
  <2>2. /\ tasks'[Root(c, a)] = tasks[Root(c, a)]
        /\ tasks'[Child(c, a, b)] = tasks[Child(c, a, b)]
    BY <1>3, <2>1
  <2>3. /\ At(Child(c, a, b), "begin")' <=> At(Child(c, a, b), "begin")
        /\ InTheLoop(Root(c, a))' <=> InTheLoop(Root(c, a))
    BY <2>2 DEF At, InTheLoop
  <2>4. CASE am_i_leader[a]
    <3>1. LeaderInv(c, a, b)
      BY <1>4, <2>1, <2>4 DEF DataInv
    <3> QED
      BY <1>1, <2>2, <2>3, <2>4, <3>1, SameData DEF LeaderInv
  <2>5. CASE ~am_i_leader[a]
    <3>1. FollowersInv(c, a, b) /\ a \in Later(0) /\ b \in Later(0) /\ 0 \in Servers
      BY <1>4, <2>1, <2>5 DEF DataInv, RolesInv, Later, Servers
    <3>2. /\ tasks'[Child(c, 0, a)] = tasks[Child(c, 0, a)]
          /\ tasks'[Child(c, 0, b)] = tasks[Child(c, 0, b)]
          /\ up'[0] => up[0] /\ tasks'[Root(c, 0)] = tasks[Root(c, 0)]
      BY <1>2, <1>3, <2>1, <3>1
    <3>3. Changing(c)' <=> Changing(c)
      BY <1>1 DEF Changing
    <3> QED
      BY <1>1, <2>5, <3>1, <3>2, <3>3, SameData DEF FollowersInv, InTheLoop, At
  <2> QED
    BY <2>4, <2>5
<1> QED
  BY <1>5, <1>6, <1>7, <1>8, <1>9 DEF AInv, TreeInv, DataInv

-----------------------------------------------------------------------------
(***************************************************************************)
(* What follows from the invariant.                                        *)
(***************************************************************************)

\* The servers start in agreement.
LEMMA StartsAgreed == RInit => AInv
<1> SUFFICES ASSUME RInit PROVE AInv
  OBVIOUS
<1>1. /\ am_i_leader = [s \in Servers |-> s = 0]
      /\ stubs = [s \in Servers |-> [v \in Services |-> Later(s)]]
      /\ last_request = [s \in Servers |-> None]
      /\ \A i \in Tasks : tasks[i] = None
  BY DEF RInit
<1>2. \A s \in Servers : \A t \in Later(s) : t \in Servers /\ t # 0 /\ t \in Later(0)
  BY DEF Later, Servers
<1>3. 0 \in Servers
  BY DEF Servers
<1>4. RolesInv
  BY <1>1, <1>2, <1>3 DEF RolesInv
<1>5. ASSUME NEW c \in Clients, NEW s \in Servers
      PROVE  /\ PlacesInv(c) /\ RootInv(c, s) /\ \A t \in Later(s) : ChildInv(c, s, t)
             /\ ~InTheLoop(Root(c, s)) /\ \A p : ~At(Root(c, s), p)
  <2>1. tasks[Root(c, s)] = None /\ \A t \in Later(s) : tasks[Child(c, s, t)] = None
    BY <1>1, RootName, ChildName
  <2>2. \A p : ~At(Root(c, s), p)
    BY <2>1 DEF At
  <2>3. ~InTheLoop(Root(c, s)) /\ ~Executing(Root(c, s))
    BY <2>2 DEF InTheLoop, Executing
  <2> QED
    BY <1>1, <2>1, <2>2, <2>3 DEF PlacesInv, RootInv, ChildInv
<1>6. ASSUME NEW c \in Clients, NEW s \in Servers, NEW t \in Later(s)
      PROVE  IF am_i_leader[s] THEN LeaderInv(c, s, t) ELSE FollowersInv(c, s, t)
  <2>1. InStep(s, t) /\ Matched(s, t)
    BY <1>2 DEF RInit, InStep, Matched
  <2>2. CASE s = 0
    BY <1>1, <1>5, <2>1, <2>2 DEF LeaderInv
  <2>3. CASE s # 0
    <3>1. s \in Later(0) /\ t \in Later(0)
      BY <1>2, <2>3 DEF Later, Servers
    <3>2. tasks[Child(c, 0, t)] = None /\ tasks[Child(c, 0, s)] = None
      BY <1>1, <1>3, <3>1, ChildName
    <3>3. ~At(Child(c, 0, t), "begin") /\ ~At(Child(c, 0, s), "begin")
      BY <3>2 DEF At
    <3> QED
      BY <1>1, <1>3, <1>5, <2>1, <2>3, <3>3 DEF FollowersInv
  <2> QED
    BY <2>2, <2>3
<1>7. TreeInv
  BY <1>3, <1>5 DEF TreeInv
<1>8. DataInv
  BY <1>6 DEF DataInv
<1> QED
  BY <1>4, <1>7, <1>8 DEF AInv

\* Every step keeps the invariant.
LEMMA NextAgrees ==
    ASSUME Settled, MaxRestarts = 0, MaxTimeOuts = 0, NEW c, Clients = {c},
           RInv, LeftServersDown, AInv, [RNext]_rvars
    PROVE  AInv'
<1>1. c \in Clients /\ \A d \in Clients : d = c
  OBVIOUS
<1>2. CASE UNCHANGED rvars
  BY <1>1, <1>2, Untouched DEF rvars, servervars, dbs, clientvars, faults
<1>3. ASSUME NEW h \in Threads, NEW q \in Asked, Ask(c, h, q) PROVE AInv'
  BY <1>1, <1>3, AskAgrees
<1>4. ASSUME NEW r \in Requests, Issue(c, r) PROVE AInv'
  <2>1. Ask(c, "main", r) /\ "main" \in Threads /\ r \in Asked
    BY <1>4 DEF Issue, AskLocked, Threads, Asked
  <2> QED
    BY <1>3, <2>1
<1>5. CASE ListUsers(c)
  <2>1. Ask(c, "main", GetUsers) /\ "main" \in Threads /\ GetUsers \in Asked
    BY <1>5 DEF ListUsers, Threads, Asked
  <2> QED
    BY <1>3, <2>1
<1>6. CASE Homepage(c) \/ Poll(c)
  <2>1. PICK h \in Threads : Ask(c, h, ReceiveMessage(username[c]))
    BY <1>6 DEF Homepage, Poll, AskLocked, Threads
  <2>2. PICK q \in Asked : q = ReceiveMessage(username[c])
    BY <1>1, <1>6, InboxRequest DEF Homepage, Poll
  <2> QED
    BY <1>3, <2>1, <2>2
<1>7. ASSUME NEW h \in Threads PROVE ~TimeOut(c, h)
  BY DEF TimeOut, RInv, RTypeOK
<1>8. ASSUME NEW s \in Servers PROVE ~Restart(s)
  BY DEF Restart, RInv, RTypeOK
<1>9. ASSUME ClientStep(c) PROVE AInv'
  BY <1>1, <1>5, <1>6, <1>9, AnswerAgrees, FailOverAgrees DEF ClientStep, ThreadStep
<1>10. ASSUME RNext PROVE AInv'
  <2>1. ASSUME NEW i \in Tasks, TaskStep(i) PROVE AInv'
    BY <1>1, <2>1, TaskAgrees
  <2>2. ASSUME NEW s \in Servers, Crash(s) PROVE AInv'
    BY <1>1, <2>2, CrashAgrees
  <2>3. ASSUME Leave(c) PROVE AInv'
    BY <1>1, <2>3, LeaveAgrees
  <2> QED
    BY <1>1, <1>4, <1>7, <1>8, <1>9, <1>10, <2>1, <2>2, <2>3 DEF RNext
<1> QED
  BY <1>2, <1>10

\* The invariant of the system when servers fail by stopping and no answer is late.
THEOREM AgreementInvariance ==
    ASSUME Settled, MaxRestarts = 0, MaxTimeOuts = 0, NEW c, Clients = {c}
    PROVE  RSpec => []AInv
<1>1. RInit => AInv
  BY StartsAgreed
<1>2. ASSUME RInv, LeftServersDown, AInv, [RNext]_rvars PROVE AInv'
  BY <1>2, NextAgrees
<1> QED
  BY <1>1, <1>2, RInvariance, LeftInvariance, PTL DEF RSpec

\* When no request is being handled, the servers that are up hold the same database
\* (replicate and the handlers, chat262-replication/server.py), whichever of the
\* others have stopped, and at whatever moment.
THEOREM ServersAgree ==
    ASSUME Settled, MaxRestarts = 0, MaxTimeOuts = 0, NEW c, Clients = {c}
    PROVE  RSpec => []ReplicasAgree
<1>1. ASSUME RInv, LeftServersDown, AInv, Quiet, NEW s \in Servers, NEW t \in Servers,
             up[s], up[t], t > s
      PROVE  db[s] = db[t]
  <2>1. c \in Clients /\ "main" \in Threads /\ t \in Later(s)
    BY <1>1 DEF Threads, Later
  <2>2. ~Waiting(c, "main") /\ tasks = [i \in Tasks |-> None]
    BY <1>1, <2>1 DEF Quiet
  <2>3. ~Gone(c)
    <3>1. Gone(c) => s < curr_leader[c]
      BY <1>1, <2>1 DEF Gone, RInv, RTypeOK, Servers
    <3> QED
      BY <1>1, <2>1, <3>1 DEF LeftServersDown
  <2>4. pending[c]["main"] = None
    BY <2>2, <2>3 DEF Waiting
  <2>5. IF am_i_leader[s] THEN InStep(s, t) ELSE Matched(s, t)
    BY <1>1, <2>1, <2>4, MainRests
  <2> QED
    BY <2>5 DEF InStep, Matched
<1>2. \A s, t \in Servers : s # t => t > s \/ s > t
  BY DEF Servers
<1>3. RInv /\ LeftServersDown /\ AInv => ReplicasAgree
  <2> SUFFICES ASSUME RInv, LeftServersDown, AInv, Quiet,
                      NEW s \in Servers, NEW t \in Servers, up[s], up[t]
               PROVE  db[s] = db[t]
    BY DEF ReplicasAgree
  <2>1. CASE s = t
    BY <2>1
  <2>2. CASE t > s
    BY <1>1, <2>2
  <2>3. CASE s > t
    BY <1>1, <2>3
  <2> QED
    BY <1>2, <2>1, <2>2, <2>3
<1> QED
  BY <1>3, RInvariance, LeftInvariance, AgreementInvariance, PTL

LEMMA AnswerHeld ==
    ASSUME RInv, LeftServersDown, AInv, NEW c \in Clients, Clients = {c}, NEW h \in Threads,
           Answer(c, h), NEW s \in Servers, up[s]
    PROVE  Reflects(db[s], pending[c][h].request)
<1> DEFINE r == pending[c][h].request
<1>1. /\ c \in Clients /\ Waiting(c, h) /\ tasks[Awaited(c, h)] # None
      /\ tasks[Awaited(c, h)].pc = "done"
  BY DEF Answer, At
<1>2. PICK L \in Servers : L = curr_leader[c] /\ pending[c][h].at = L
  BY <1>1, WaitingFacts DEF LeftServersDown
<1>3. CASE ~Writes(r)
  BY <1>3 DEF Reflects, Writes, ReadOnly
<1>4. CASE Writes(r)
  <2> DEFINE i == Root(c, L)
  <2>1. h = "main"
    <3>1. r.rpc \in Due(c, h)
      BY <1>1, WaitingFacts
    <3> QED
      BY <1>4, <3>1 DEF Due, Writes, ReadOnly, Threads
  <2>2. tasks[i] # None /\ tasks[i].pc = "done"
    BY <1>1, <1>2, <2>1 DEF Awaited, Root
  <2>3. tasks[i].request = r /\ RootInv(c, L)
    BY <1>1, <1>2, <2>1, <2>2, AtRoot
  <2>4. Reflects(db[L], r) /\ am_i_leader[L]
    BY <1>4, <2>2, <2>3 DEF RootInv, Executing, At
  <2>5. CASE s = L
    BY <2>4, <2>5
  <2>6. CASE s < L
    BY <1>1, <1>2, <2>6, AtLeader
  <2>7. CASE s > L
    <3>1. LeaderInv(c, L, s)
      BY <1>1, <1>2, <2>2, <2>4, <2>7, AtRoot DEF Later
    <3>2. db[s] = db[L]
      BY <2>2, <3>1 DEF LeaderInv, InTheLoop, At, InStep
    <3> QED
      BY <2>4, <3>2
  <2> QED
    BY <2>5, <2>6, <2>7 DEF Servers
<1> QED
  BY <1>3, <1>4

\* When the client has its answer, every server that is up has executed the request:
\* what was acknowledged outlives the crash of any two servers.
THEOREM AcknowledgedOutlivesCrashes ==
    ASSUME Settled, MaxRestarts = 0, MaxTimeOuts = 0, NEW d, Clients = {d}
    PROVE  RSpec => AcknowledgedEverywhere
<1>1. ASSUME RInv, LeftServersDown, AInv, NEW c \in Clients, NEW h \in Threads, Answer(c, h),
             NEW s \in Servers, up[s]
      PROVE  Reflects(db[s], pending[c][h].request)
  BY <1>1, AnswerHeld
<1>2. RInv /\ LeftServersDown /\ AInv =>
         [\A c \in Clients, h \in Threads :
             Answer(c, h) => HeldEverywhere(pending[c][h].request)]_rvars
  BY <1>1 DEF HeldEverywhere
<1>3. RSpec => []AInv
  BY AgreementInvariance
<1> QED
  BY <1>2, <1>3, RInvariance, LeftInvariance, PTL DEF AcknowledgedEverywhere

\* The numbers that leaders give out never make a server drop a request that it has
\* not executed (counter and replication_counter, chat262-replication/server.py), the
\* ones of a replay by a new leader included.
THEOREM OnlyRepetitionsDropped ==
    ASSUME Settled, MaxRestarts = 0, MaxTimeOuts = 0, NEW c, Clients = {c}
    PROVE  RSpec => DropsOnlyRepetitions
<1>1. ASSUME RInv, LeftServersDown, AInv, NEW i \in Tasks,
             \/ At(i, "begin") /\ ~tasks[i].is_client /\ ~am_i_leader[Server(i)]
             \/ At(i, "call") /\ Left(i) = {} /\ tasks[i].replay = None,
             tasks[i].request.rpc \notin ReadOnly, Seen(i)
      PROVE  Reflects(db[Server(i)], tasks[i].request)
  <2>1. tasks[i] # None /\ i[1] \in Clients \X Threads /\ c \in Clients
    BY <1>1, TaskName DEF At
  <2>2. i[1] = <<c, "main">>
    <3>1. i[1][2] # "inbox" /\ i[1][1] = c
      BY <1>1, <2>1 DEF RInv, TasksInv
    <3> QED
      BY <2>1, <3>1 DEF Threads
  <2>3. PICK L : L = curr_leader[c]
    OBVIOUS
  <2>4. i = Root(c, L) \/ \E t \in Later(L) : i = Child(c, L, t)
    BY <1>1, <2>1, <2>2, <2>3 DEF AInv, TreeInv, PlacesInv
  <2>5. L \in Servers
    <3>1. L \in 0 .. 3
      BY <1>1, <2>1, <2>3 DEF RInv, RTypeOK
    <3>2. i = Root(c, L) => L \in Servers
      BY <1>1, TaskName DEF Server, Root
    <3>3. Later(L) # {} => L \in Servers
      BY <3>1 DEF Later, Servers
    <3> QED
      BY <2>4, <3>2, <3>3
  <2>6. i # Root(c, L)
    <3> SUFFICES ASSUME i = Root(c, L) PROVE FALSE
      OBVIOUS
    <3>1. RootInv(c, L) /\ tasks[Root(c, L)] # None
      BY <1>1, <2>1, <2>3, <2>5, AtRoot
    <3>2. ~(At(i, "begin") /\ ~tasks[i].is_client)
      BY <3>1 DEF RootInv, At
    <3>3. ~(At(i, "call") /\ tasks[i].replay = None)
      BY <1>1, <2>1, <2>3, <2>5, NeverSeen
    <3> QED
      BY <1>1, <3>2, <3>3
  <2>7. ASSUME NEW t \in Later(L), i = Child(c, L, t) PROVE Reflects(db[Server(i)], tasks[i].request)
    <3>1. ChildInv(c, L, t) /\ Server(i) = t
      BY <1>1, <2>1, <2>3, <2>5, <2>7, AtChild
    <3>2. tasks[i].pc = "begin"
      BY <1>1, <2>1, <2>7, <3>1 DEF ChildInv, At
    <3> QED
      BY <1>1, <2>1, <2>7, <3>1, <3>2 DEF ChildInv, Seen
  <2> QED
    BY <2>4, <2>6, <2>7
<1>2. RInv /\ LeftServersDown /\ AInv =>
         [\A i \in Tasks :
             (\/ At(i, "begin") /\ ~tasks[i].is_client /\ ~am_i_leader[Server(i)]
              \/ At(i, "call") /\ Left(i) = {} /\ tasks[i].replay = None)
             /\ tasks[i].request.rpc \notin ReadOnly /\ Seen(i) /\ At(i, "done")'
             => Reflects(db[Server(i)], tasks[i].request)]_rvars
  BY <1>1
<1> QED
  BY <1>2, RInvariance, LeftInvariance, AgreementInvariance, PTL DEF DropsOnlyRepetitions
=============================================================================
