---------------------------- MODULE ServiceProofs ----------------------------
(***************************************************************************)
(* That the replicated servers implement OneServer for one client, when    *)
(* servers fail by stopping and no answer comes late, and what this        *)
(* client's inbox shows.                                                   *)
(***************************************************************************)
EXTENDS AgreementProofs

-----------------------------------------------------------------------------
(***************************************************************************)
(* The server whose database is the service's.                             *)
(***************************************************************************)

\* Current, of any state: u tells who is up, a who leads and p who replays.
CurrentIn(u, a, p, s) ==
    /\ u[s]
    /\ IF \E l \in Servers : u[l] /\ a[l] /\ ~p[l] THEN a[s] ELSE \A t \in Later(s) : ~u[t]

Replays == [s \in Servers |-> Replaying(s)]

\* There is one such server as long as one is up.
LEMMA OneCurrent ==
    ASSUME NEW u, NEW a, NEW p, \A s \in Servers : \A t \in Later(s) : a[t] => ~u[s]
    PROVE  /\ \A s, t \in Servers : CurrentIn(u, a, p, s) /\ CurrentIn(u, a, p, t) => s = t
           /\ (\E s \in Servers : u[s]) => \E s \in Servers : CurrentIn(u, a, p, s)
<1>1. \A s, t \in Servers : s = t \/ s \in Later(t) \/ t \in Later(s)
  BY DEF Servers, Later
<1>2. \A s, t \in Servers : CurrentIn(u, a, p, s) /\ CurrentIn(u, a, p, t) => s = t
  BY <1>1 DEF CurrentIn
<1>3. ASSUME \E s \in Servers : u[s] PROVE \E s \in Servers : CurrentIn(u, a, p, s)
  <2>1. CASE \E l \in Servers : u[l] /\ a[l] /\ ~p[l]
    BY <2>1 DEF CurrentIn
  <2>2. CASE ~\E l \in Servers : u[l] /\ a[l] /\ ~p[l]
    <3>1. PICK s \in Servers : u[s] /\ \A t \in Later(s) : ~u[t]
      BY <1>3 DEF Servers, Later
    <3> QED
      BY <2>2, <3>1 DEF CurrentIn
  <2> QED
    BY <2>1, <2>2
<1> QED
  BY <1>2, <1>3

LEMMA CommonIs ==
    ASSUME RolesInv, NEW s \in Servers, Current(s)
    PROVE  CommonDb = db[s]
<1>1. \A t \in Servers : Current(t) <=> CurrentIn(up, am_i_leader, Replays, t)
  BY DEF Current, CurrentIn, Replays
<1>2. \A t \in Servers : Current(t) => s = t
  BY <1>1, OneCurrent DEF RolesInv
<1>3. s = CHOOSE t \in Servers : Current(t)
  BY <1>2
<1>4. \E t \in Servers : up[t]
  BY DEF Current
<1> QED
  BY <1>3, <1>4 DEF CommonDb

LEMMA CommonIsNext ==
    ASSUME RolesInv', NEW s \in Servers, Current(s)'
    PROVE  CommonDb' = db'[s]
<1>1. \A t \in Servers : Current(t)' <=> CurrentIn(up', am_i_leader', Replays', t)
  BY DEF Current, CurrentIn, Replays
<1>2. \A t \in Servers : Current(t)' => s = t
  BY <1>1, OneCurrent DEF RolesInv
<1>3. s = CHOOSE t \in Servers : Current(t)'
  BY <1>2
<1>4. \E t \in Servers : up'[t]
  BY DEF Current
<1> QED
  BY <1>3, <1>4 DEF CommonDb

LEMMA SomeCurrent ==
    ASSUME RolesInv, NEW s \in Servers, up[s]
    PROVE  \E t \in Servers : Current(t)
<1>1. \A t \in Servers : Current(t) <=> CurrentIn(up, am_i_leader, Replays, t)
  BY DEF Current, CurrentIn, Replays
<1> QED
  BY <1>1, OneCurrent DEF RolesInv

LEMMA SomeCurrentNext ==
    ASSUME RolesInv', NEW s \in Servers, up'[s]
    PROVE  \E t \in Servers : Current(t)'
<1>1. \A t \in Servers : Current(t)' <=> CurrentIn(up', am_i_leader', Replays', t)
  BY DEF Current, CurrentIn, Replays
<1> QED
  BY <1>1, OneCurrent DEF RolesInv

\* The service is lost, is as it was, or executes what the main thread waits for.
Served(c) ==
    \/ CommonDb' = CommonDb
    \/ CommonDb' = None
    \/ /\ pending[c]["main"] # None /\ CommonDb # None
       /\ CommonDb' = Executed(CommonDb, pending[c]["main"].request)

\* Who is current does not depend on who replays, but for the leader that is up.
LEMMA SameCurrent ==
    ASSUME NEW s \in Servers, UNCHANGED <<up, am_i_leader>>,
           \A l \in Servers : up[l] /\ am_i_leader[l] => (Replaying(l)' <=> Replaying(l))
    PROVE  Current(s)' <=> Current(s)
BY DEF Current

LEMMA SameService ==
    ASSUME RolesInv, RolesInv', UNCHANGED <<up, am_i_leader, db>>,
           \A l \in Servers : up[l] /\ am_i_leader[l] => (Replaying(l)' <=> Replaying(l))
    PROVE  CommonDb' = CommonDb
<1>1. CASE \E s \in Servers : up[s]
  <2>1. PICK s \in Servers : Current(s)
    BY <1>1, SomeCurrent
  <2>2. Current(s)'
    BY <2>1, SameCurrent
  <2> QED
    BY <2>1, <2>2, CommonIs, CommonIsNext
<1>2. CASE ~\E s \in Servers : up[s]
  BY <1>2 DEF CommonDb
<1> QED
  BY <1>1, <1>2

\* The database of a server that is up is not None.
LEMMA SomeDb ==
    ASSUME RInv, AInv, NEW s \in Servers, Current(s)
    PROVE  CommonDb = db[s] /\ CommonDb # None /\ up[s]
<1>1. CommonDb = db[s] /\ up[s]
  BY CommonIs DEF AInv, Current
<1> QED
  BY <1>1, NoDataAssumption DEF RInv, RTypeOK

LEMMA ReplayingOne ==
    ASSUME NEW c, Clients = {c}, NEW s
    PROVE  /\ Replaying(s) <=> InTheLoop(Root(c, s)) /\ tasks[Root(c, s)].replay # None
           /\ Replaying(s)' <=> InTheLoop(Root(c, s))' /\ tasks'[Root(c, s)].replay # None
BY DEF Replaying

-----------------------------------------------------------------------------
(***************************************************************************)
(* What the handlers do to the service.                                    *)
(***************************************************************************)

\* A step of the loop over the stubs: the request and the replay stay, and only the
\* handler and the ones it calls change.
LEMMA LoopStep ==
    ASSUME RInv, LeftServersDown, AInv, NEW c \in Clients, NEW L \in Servers,
           curr_leader[c] = L,
           Call(Root(c, L)) \/ Returned(Root(c, L)) \/ Failed(Root(c, L))
    PROVE  /\ InTheLoop(Root(c, L)) /\ InTheLoop(Root(c, L))'
           /\ tasks'[Root(c, L)].replay = tasks[Root(c, L)].replay
           /\ Call(Root(c, L)) \/ tasks'[Root(c, L)].pc = "call"
           /\ \A l \in Tasks : tasks'[l] = tasks[l] \/ l = Root(c, L)
                               \/ \E t \in Later(L) : l = Child(c, L, t)
           /\ UNCHANGED <<up, am_i_leader, db, last_request, clientvars>>
<1> DEFINE i == Root(c, L)
           m == tasks[i]
<1>1. InTheLoop(i) /\ m # None /\ i \in Tasks /\ m \in Task /\ Server(i) = L
  <2>1. InTheLoop(i)
    BY DEF Call, Returned, Failed, InTheLoop
  <2> QED
    BY <2>1, RootName DEF InTheLoop, At, RInv, RTypeOK
<1>2. UNCHANGED <<up, am_i_leader, db, last_request, clientvars>>
  BY DEF Call, Returned, Failed, servervars, dbs, faults
<1>3. CASE Call(i)
  <2>1. PICK t \in Later(L) : t = Target(i) /\ Callee(i, t) = Child(c, L, t)
    BY <1>3, NextStub, ChildName DEF Call
  <2> DEFINE k == [m EXCEPT !.pc = "wait", !.from = t,
                            !.is_client = m.replay # None /\ m.is_client,
                            !.counter = IF m.replay = None THEN counter[L] + 1 ELSE @]
             j == IF up[t] THEN NewTask(Replicated(m), FALSE, counter[L] + 1) ELSE None
  <2>2. tasks' = [tasks EXCEPT ![i] = k, ![Child(c, L, t)] = j]
    BY <1>1, <1>3, <2>1 DEF Call
  <2>3. k.pc = "wait" /\ k.replay = m.replay
    BY <1>1 DEF Task
  <2>4. t \in 0 .. 3 /\ counter[L] + 1 \in Nat
    BY DEF Later, Servers, RInv, RTypeOK
  <2>5. k \in Task
    BY <1>1, <2>4 DEF Task
  <2> HIDE DEF k, j
  <2>6. tasks'[i] = k /\ k # None /\ \A l \in Tasks : l # i /\ l # Child(c, L, t) => tasks'[l] = tasks[l]
    BY <1>1, <2>2, <2>5, Distinct, NoTaskAssumption DEF RInv, RTypeOK
  <2> QED
    BY <1>1, <1>2, <1>3, <2>3, <2>6 DEF InTheLoop, At
<1>4. CASE Returned(i)
  <2>1. PICK t \in Later(L) : t = m.from /\ Callee(i, t) = Child(c, L, t)
    BY <1>1, <1>4, InWait, ChildName DEF Returned
  <2> DEFINE k == [m EXCEPT !.pc = "call", !.from = t + 1,
                            !.is_client = m.replay = None \/ m.is_client]
  <2>2. tasks' = [tasks EXCEPT ![i] = k, ![Child(c, L, t)] = None]
    BY <1>4, <2>1 DEF Returned
  <2>3. k.pc = "call" /\ k.replay = m.replay
    BY <1>1 DEF Task
  <2> HIDE DEF k
  <2>4. tasks'[i] = k /\ \A l \in Tasks : l # i /\ l # Child(c, L, t) => tasks'[l] = tasks[l]
    BY <1>1, <2>2, Distinct DEF RInv, RTypeOK
  <2>5. k # None
    BY <1>1, <1>4, <2>4, ReturnedInv
  <2> QED
    BY <1>1, <1>2, <2>3, <2>4, <2>5 DEF InTheLoop, At
<1>5. CASE Failed(i)
  <2> DEFINE k == [m EXCEPT !.pc = "call", !.from = m.from + 1]
  <2>1. tasks' = [tasks EXCEPT ![i] = k]
    BY <1>5 DEF Failed
  <2>2. k.pc = "call" /\ k.replay = m.replay
    BY <1>1 DEF Task
  <2> HIDE DEF k
  <2>3. tasks'[i] = k /\ \A l \in Tasks : l # i => tasks'[l] = tasks[l]
    BY <1>1, <2>1 DEF RInv, RTypeOK
  <2>4. k # None
    BY <1>1, <1>5, <2>3, FailedInv
  <2> QED
    BY <1>1, <1>2, <2>2, <2>3, <2>4 DEF InTheLoop, At
<1> QED
  BY <1>3, <1>4, <1>5

\* A step that changes no database and not who replays.
LEMMA RootKeeps ==
    ASSUME RInv, LeftServersDown, AInv, AInv', NEW c \in Clients, Clients = {c},
           NEW L \in Servers, curr_leader[c] = L, UNCHANGED <<up, am_i_leader, db>>,
           \A s \in Servers : s # L => tasks'[Root(c, s)] = tasks[Root(c, s)],
           Replaying(L)' <=> Replaying(L)
    PROVE  Served(c)
<1>1. \A s \in Servers : Replaying(s)' <=> Replaying(s)
  <2> SUFFICES ASSUME NEW s \in Servers, s # L PROVE Replaying(s)' <=> Replaying(s)
    OBVIOUS
  <2> QED
    BY ReplayingOne DEF InTheLoop, At
<1> QED
  BY <1>1, SameService DEF AInv, Served

\* A handler that reads or stores is not in that loop, before and after.
LEMMA RestStep ==
    ASSUME RInv, NEW i \in Tasks, Read(i) \/ Store(i)
    PROVE  /\ ~InTheLoop(i) /\ ~InTheLoop(i)'
           /\ tasks'[i] # None /\ tasks'[i].pc = "done"
           /\ \A l \in Tasks \ {i} : tasks'[l] = tasks[l]
           /\ UNCHANGED <<servervars, up, db, clientvars>>
<1>1. tasks[i] # None /\ tasks[i] \in Task /\ ~InTheLoop(i)
  BY DEF Read, Store, At, InTheLoop, RInv, RTypeOK
<1>2. PICK k : tasks' = [tasks EXCEPT ![i] = k] /\ k.pc = "done"
  <2>1. CASE Read(i)
    <3> DEFINE r == tasks[i].request
               d == db[Server(i)]
               k == [tasks[i] EXCEPT !.pc = "done", !.success = r.rpc # "Login" \/ Accepts(d, r),
                                     !.chats = IF r.rpc = "ReceiveMessage"
                                               THEN Len(d.messages[r.username]) ELSE 0]
    <3>1. tasks' = [tasks EXCEPT ![i] = k]
      BY <2>1 DEF Read
    <3>2. k.pc = "done"
      BY <1>1 DEF Task
    <3> QED
      BY <3>1, <3>2
  <2>2. CASE Store(i)
    <3> DEFINE k == [tasks[i] EXCEPT !.pc = "done"]
    <3>1. tasks' = [tasks EXCEPT ![i] = k]
      BY <2>2 DEF Store
    <3>2. k.pc = "done"
      BY <1>1 DEF Task
    <3> QED
      BY <3>1, <3>2
  <2> QED
    BY <2>1, <2>2
<1>3. tasks'[i] = k /\ \A l \in Tasks \ {i} : tasks'[l] = tasks[l]
  BY <1>2 DEF RInv, RTypeOK
<1>4. tasks'[i] # None
  BY <1>1, <1>3, ReadInv, StoreInv
<1> QED
  BY <1>1, <1>2, <1>3, <1>4 DEF InTheLoop, At, Read, Store, dbs, faults

\* A handler that becomes the leader, or that has replayed what the last server may
\* have missed, finds the database of the service: all that live have it, or it is
\* still the last server that counts.
LEMMA LeadServes ==
    ASSUME RInv, LeftServersDown, AInv, AInv', NEW c \in Clients, Clients = {c},
           NEW L \in Servers, curr_leader[c] = L, Lead(Root(c, L))
    PROVE  Served(c)
<1> DEFINE i == Root(c, L)
           k == [tasks[i] EXCEPT !.pc = "call", !.from = L + 1,
                                 !.replay = IF am_i_leader[L] THEN None ELSE last_request[L]]
<1>1. /\ tasks[i] # None /\ tasks[i].pc = "begin"
      /\ tasks' = [tasks EXCEPT ![i] = k]
      /\ am_i_leader' = [am_i_leader EXCEPT ![L] = TRUE]
      /\ UNCHANGED <<up, db>>
  BY RootName DEF Lead, At, dbs, faults
<1>2. up[L] /\ i \in Tasks /\ tasks[i] \in Task /\ RolesInv /\ ~InTheLoop(i)
  BY <1>1, AtRoot DEF InTheLoop, At
<1>3. k.pc = "call" /\ k.replay = IF am_i_leader[L] THEN None ELSE last_request[L]
  BY <1>2 DEF Task
<1> HIDE DEF k
<1>4. tasks'[i] = k /\ k # None /\ \A j \in Tasks \ {i} : tasks'[j] = tasks[j]
  BY <1>1, <1>2, LeadInv DEF RInv, RTypeOK
<1>5. am_i_leader'[L] /\ \A s \in Servers : s # L => am_i_leader'[s] = am_i_leader[s]
  BY <1>1 DEF RInv, RTypeOK
<1>6. \A s \in Servers : s # L => tasks'[Root(c, s)] = tasks[Root(c, s)]
  BY <1>4, RootName, Distinct
<1>7. /\ ~Replaying(L)
      /\ Replaying(L)' <=> ~am_i_leader[L] /\ last_request[L] # None
  BY <1>2, <1>3, <1>4, ReplayingOne DEF InTheLoop, At
<1>8. CASE am_i_leader[L]
  <2>1. UNCHANGED am_i_leader
    BY <1>1, <1>8 DEF RInv, RTypeOK
  <2> QED
    BY <1>1, <1>6, <1>7, <1>8, <2>1, RootKeeps
<1>9. CASE ~am_i_leader[L]
  <2>1. \A s \in Servers : s < L => ~up[s]
    BY AtLeader
  <2>2. \A t \in Later(L) : ~am_i_leader[t] /\ (up[t] => FollowersInv(c, L, t))
    BY <1>1, <1>9, AtRoot
  <2>3. ~\E l \in Servers : up[l] /\ am_i_leader[l] /\ ~Replaying(l)
    BY <1>9, <2>1, <2>2 DEF Servers, Later
  <2>4. PICK s \in Servers : up[s] /\ \A t \in Later(s) : ~up[t]
    BY <1>2 DEF Servers, Later
  <2>5. Current(s)
    BY <2>3, <2>4 DEF Current
  <2>6. CASE last_request[L] # None
    <3>1. ~\E l \in Servers : up'[l] /\ am_i_leader'[l] /\ ~Replaying(l)'
      BY <1>1, <1>5, <1>7, <1>9, <2>1, <2>2, <2>6 DEF Servers, Later
    <3>2. Current(s)'
      BY <1>1, <2>4, <3>1 DEF Current
    <3> QED
      BY <1>1, <2>5, <3>2, CommonIs, CommonIsNext DEF AInv, Served
  <2>7. CASE last_request[L] = None
    <3>1. Current(L)'
      BY <1>1, <1>2, <1>5, <1>7, <2>7 DEF Current
    <3>2. db[s] = db[L]
      <4>1. s = L \/ s \in Later(L)
        BY <2>1, <2>4 DEF Servers, Later
      <4> QED
        BY <2>2, <2>4, <2>7, <4>1 DEF FollowersInv, Matched, Behind
    <3> QED
      BY <1>1, <2>5, <3>1, <3>2, CommonIs, CommonIsNext DEF AInv, Served
  <2> QED
    BY <2>6, <2>7
<1> QED
  BY <1>8, <1>9

LEMMA EndReplayServes ==
    ASSUME RInv, LeftServersDown, AInv, AInv', NEW c \in Clients, Clients = {c},
           NEW L \in Servers, curr_leader[c] = L, EndReplay(Root(c, L))
    PROVE  Served(c)
<1> DEFINE i == Root(c, L)
           m == tasks[i]
           k == [m EXCEPT !.replay = None, !.from = L + 1]
<1>1. /\ At(i, "call") /\ m # None /\ m.pc = "call" /\ InTheLoop(i)
      /\ Left(i) = {} /\ m.replay # None
      /\ tasks' = [tasks EXCEPT ![i] = k]
      /\ UNCHANGED <<up, am_i_leader, db>>
  BY RootName DEF EndReplay, At, InTheLoop, servervars, dbs, faults
<1>2. /\ up[L] /\ i \in Tasks /\ m \in Task /\ RolesInv /\ RootInv(c, L)
      /\ \A u \in Later(L) : ~am_i_leader[u]
                             /\ (up[u] => IF am_i_leader[L] THEN LeaderInv(c, L, u) ELSE TRUE)
  BY <1>1, AtRoot
<1>3. am_i_leader[L]
  BY <1>1, <1>2, InLoop DEF RootInv, Writes
<1>4. k.pc = "call" /\ k.replay = None
  BY <1>1, <1>2 DEF Task
<1> HIDE DEF k
<1>5. tasks'[i] = k
  BY <1>1, <1>2 DEF RInv, RTypeOK
<1>6. Replaying(L) /\ ~Replaying(L)'
  BY <1>1, <1>4, <1>5, ReplayingOne DEF InTheLoop, At
<1>7. Current(L)'
  BY <1>1, <1>2, <1>3, <1>6 DEF Current
<1>8. \A s \in Servers : s < L => ~up[s]
  BY AtLeader
<1>9. PICK s \in Servers : up[s] /\ \A t \in Later(s) : ~up[t]
  BY <1>2 DEF Servers, Later
<1>10. Current(s)
  <2>1. ~\E l \in Servers : up[l] /\ am_i_leader[l] /\ ~Replaying(l)
    BY <1>2, <1>6, <1>8 DEF Servers, Later
  <2> QED
    BY <1>9, <2>1 DEF Current
<1>11. db[s] = db[L]
  <2>1. CASE s \in Later(L)
    <3>1. s < m.from
      <4>1. ~(s >= m.from) /\ m.from \in 0 .. 3
        BY <1>1, <1>2, <1>9, <2>1, NextStub DEF Task
      <4> QED
        BY <4>1 DEF Servers
    <3> QED
      BY <1>1, <1>2, <1>3, <1>9, <2>1, <3>1 DEF LeaderInv
  <2>2. s = L \/ s \in Later(L)
    BY <1>8, <1>9 DEF Servers, Later
  <2> QED
    BY <2>1, <2>2
<1> QED
  BY <1>1, <1>7, <1>10, <1>11, CommonIs, CommonIsNext DEF AInv, Served

\* The leader executes what the client waits for.
LEMMA ActServes ==
    ASSUME RInv, LeftServersDown, AInv, AInv', NEW c \in Clients, Clients = {c},
           NEW L \in Servers, curr_leader[c] = L, Act(Root(c, L))
    PROVE  Served(c)
<1> DEFINE i == Root(c, L)
           m == tasks[i]
<1>1. /\ At(i, "call") /\ m # None /\ m.replay = None /\ Server(i) = L /\ ~Seen(i)
  BY NeverSeen, RootName DEF Act, At
<1>2. /\ up[L] /\ i \in Tasks /\ pending[c]["main"] # None /\ RootInv(c, L)
      /\ pending[c]["main"].request = m.request
  BY <1>1, AtRoot
<1>3. am_i_leader[L]
  BY <1>1, <1>2, InLoop DEF RootInv, Writes, InTheLoop, At
<1>4. /\ db' = [db EXCEPT ![L] = Executed(@, m.request)] /\ UNCHANGED <<up, am_i_leader>>
  BY <1>1 DEF Act, Discard, Perform, faults
<1>5. Current(L)
  BY <1>1, <1>2, <1>3, ReplayingOne DEF Current
<1>6. Current(L)'
  <2>1. ~Replaying(L)'
    <3>1. tasks'[i].replay = None
      <4>1. Perform(i) /\ m \in Task
        BY <1>1, <1>2 DEF Act, Discard, RInv, RTypeOK
      <4> DEFINE k == [m EXCEPT !.pc = IF Accepts(db[L], m.request) THEN "store" ELSE "done",
                                !.success = Accepts(db[L], m.request)]
      <4>2. tasks' = [tasks EXCEPT ![i] = k]
        BY <1>1, <4>1, Zenon DEF Perform
      <4>3. k.replay = None
        BY <1>1, <4>1 DEF Task
      <4> HIDE DEF k
      <4> QED
        BY <1>2, <4>2, <4>3 DEF RInv, RTypeOK
    <3> QED
      BY <3>1, ReplayingOne
  <2> QED
    BY <1>2, <1>3, <1>4, <2>1 DEF Current
<1>7. CommonDb' = Executed(CommonDb, pending[c]["main"].request) /\ CommonDb # None
  <2>1. CommonDb = db[L] /\ CommonDb # None /\ CommonDb' = db'[L]
    BY <1>5, <1>6, SomeDb, CommonIsNext DEF AInv
  <2>2. db'[L] = Executed(db[L], m.request)
    BY <1>4 DEF RInv, RTypeOK
  <2> QED
    BY <1>2, <2>1, <2>2
<1> QED
  BY <1>2, <1>7 DEF Served

LEMMA RootServes ==
    ASSUME RInv, LeftServersDown, AInv, AInv', NEW c \in Clients, Clients = {c},
           NEW L \in Servers, curr_leader[c] = L, TaskStep(Root(c, L))
    PROVE  Served(c)
<1> DEFINE i == Root(c, L)
<1>1. CASE Read(i) \/ Store(i)
  <2>1. /\ Replaying(L)' <=> Replaying(L)
        /\ \A s \in Servers : s # L => tasks'[Root(c, s)] = tasks[Root(c, s)]
        /\ UNCHANGED <<up, am_i_leader, db>>
    BY <1>1, RestStep, RootName, Distinct, ReplayingOne DEF servervars
  <2> QED
    BY <2>1, RootKeeps
<1>2. CASE Call(i) \/ Returned(i) \/ Failed(i)
  <2>1. /\ Replaying(L)' <=> Replaying(L)
        /\ \A s \in Servers : s # L => tasks'[Root(c, s)] = tasks[Root(c, s)]
        /\ UNCHANGED <<up, am_i_leader, db>>
    BY <1>2, LoopStep, RootName, Distinct, ReplayingOne
  <2> QED
    BY <2>1, RootKeeps
<1>3. ~Follow(i) /\ ~Unheard(i)
  BY RootRole
<1> QED
  BY <1>1, <1>2, <1>3, LeadServes, EndReplayServes, ActServes DEF TaskStep

\* A later server executes what the client waits for, or repeats what changes nothing.
LEMMA FollowServes ==
    ASSUME RInv, LeftServersDown, AInv, AInv', NEW c \in Clients, Clients = {c}, SentInv(c),
           NEW L \in Servers, curr_leader[c] = L, NEW t \in Later(L), Follow(Child(c, L, t))
    PROVE  Served(c)
<1> DEFINE j == Child(c, L, t)
           r == tasks[j].request
<1>1. /\ up[t] /\ j \in Tasks /\ Server(j) = t /\ t \in Servers /\ ~tasks[j].is_client
      /\ pending[c]["main"] # None /\ At(j, "begin")
  BY AtChild DEF Follow, At, ChildInv
<1>2. UNCHANGED <<up, am_i_leader>> /\ (Discard(j) \/ Perform(j))
  BY DEF Follow, faults
<1>3. \A l \in Tasks \ {j} : tasks'[l] = tasks[l]
  BY <1>1, <1>2 DEF Discard, Perform, RInv, RTypeOK
<1>4. \A s \in Servers : Replaying(s)' <=> Replaying(s)
  <2> SUFFICES ASSUME NEW s \in Servers PROVE tasks'[Root(c, s)] = tasks[Root(c, s)]
    BY ReplayingOne DEF InTheLoop, At
  <2> QED
    BY <1>3, RootName, Distinct
<1>5. PICK s \in Servers : Current(s)
  BY <1>1, SomeCurrent DEF AInv
<1>6. CommonDb = db[s] /\ CommonDb # None /\ CommonDb' = db'[s]
  BY <1>2, <1>4, <1>5, SomeDb, SameCurrent, CommonIsNext DEF AInv
<1>7. \/ db'[s] = db[s]
      \/ s = t /\ ~(tasks[j].counter <= counter[t]) /\ db'[s] = Executed(db[s], r)
  BY <1>1, <1>2 DEF Discard, Perform, Seen, dbs, RInv, RTypeOK
<1>8. \/ r = pending[c]["main"].request
      \/ tasks[j].counter <= counter[t] \/ Executed(db[t], r) = db[t]
  BY <1>1 DEF SentInv
<1> QED
  BY <1>1, <1>6, <1>7, <1>8 DEF Served

LEMMA ChildServes ==
    ASSUME RInv, LeftServersDown, AInv, AInv', NEW c \in Clients, Clients = {c}, SentInv(c),
           NEW L \in Servers, curr_leader[c] = L, NEW t \in Later(L), TaskStep(Child(c, L, t))
    PROVE  Served(c)
<1> DEFINE j == Child(c, L, t)
<1>1. CASE Store(j) \/ Unheard(j)
  <2>1. j \in Tasks /\ \A s \in Servers : Root(c, s) # j /\ Root(c, s) \in Tasks
    BY ChildName, RootName, Distinct
  <2>2. /\ \A l \in Tasks \ {j} : tasks'[l] = tasks[l]
        /\ UNCHANGED <<up, am_i_leader, db>>
    BY <1>1, <2>1 DEF Store, Unheard, servervars, dbs, faults, RInv, RTypeOK
  <2>3. \A s \in Servers : tasks'[Root(c, s)] = tasks[Root(c, s)]
    BY <2>1, <2>2
  <2>4. Replaying(L)' <=> Replaying(L)
    BY <2>3, ReplayingOne DEF InTheLoop, At
  <2> QED
    BY <2>2, <2>3, <2>4, RootKeeps
<1> QED
  BY <1>1, ChildRole, FollowServes

\* The handlers are where the client is.
LEMMA RootAt ==
    ASSUME RInv, LeftServersDown, AInv, NEW c \in Clients, NEW s \in Servers,
           tasks[Root(c, s)] # None
    PROVE  /\ curr_leader[c] = s /\ pending[c]["main"] # None
           /\ pending[c]["main"].request = tasks[Root(c, s)].request
<1>1. PlacesInv(c) /\ Root(c, s) \in Tasks /\ Root(c, s)[1] = <<c, "main">>
  BY RootName DEF AInv, TreeInv
<1>2. s = curr_leader[c]
  BY <1>1, Distinct DEF PlacesInv
<1> QED
  BY <1>2, AtRoot

\* A crash loses the service, or leaves it to a server that has the same database, or
\* has already executed what the client waits for.
LEMMA CrashServes ==
    ASSUME RInv, LeftServersDown, AInv, AInv', NEW c \in Clients, Clients = {c}, RetryInv(c),
           NEW s \in Servers, Crash(s)
    PROVE  Served(c)
<1>1. /\ up[s] /\ UNCHANGED <<am_i_leader, db>>
      /\ \A t \in Servers : up'[t] <=> up[t] /\ t # s
  BY DEF Crash, servervars, dbs, RInv, RTypeOK
<1>2. \A t \in Servers : t # s => tasks'[Root(c, t)] = tasks[Root(c, t)]
  BY RootName DEF Crash
<1>3. \A t \in Servers : t # s => (Replaying(t)' <=> Replaying(t))
  BY <1>2, ReplayingOne DEF InTheLoop, At
<1>4. RolesInv /\ DataInv /\ RolesInv'
  BY DEF AInv
<1>5. CASE ~\E t \in Servers : up'[t]
  BY <1>5 DEF CommonDb, Served
<1>6. ASSUME NEW b \in Servers, Current(b)' PROVE Served(c)
  <2>1. PICK a \in Servers : Current(a)
    BY <1>1, <1>4, SomeCurrent
  <2>2. CommonDb = db[a] /\ CommonDb # None /\ CommonDb' = db[b]
    BY <1>1, <1>4, <1>6, <2>1, SomeDb, CommonIsNext
  <2>3. up[a] /\ up[b] /\ b # s
    BY <1>1, <1>6, <2>1 DEF Current
  <2>4. SUFFICES ASSUME a # b
                 PROVE  \/ db[b] = db[a]
                        \/ /\ pending[c]["main"] # None
                           /\ db[b] = Executed(db[a], pending[c]["main"].request)
    BY <2>2 DEF Served
  <2>5. CASE \E l \in Servers : up[l] /\ am_i_leader[l] /\ ~Replaying(l)
    <3>1. PICK l \in Servers : up[l] /\ am_i_leader[l] /\ ~Replaying(l)
      BY <2>5
    <3>2. am_i_leader[a] /\ \A t \in Servers : up[t] /\ am_i_leader[t] => t = a
      <4>1. am_i_leader[a]
        BY <2>1, <2>5 DEF Current
      <4>2. \A t \in Servers : t = a \/ t \in Later(a) \/ a \in Later(t)
        BY DEF Servers, Later
      <4> QED
        BY <1>4, <2>3, <4>1, <4>2 DEF RolesInv
    <3>3. ~Replaying(a)
      BY <3>1, <3>2
    <3>4. a = s
      <4>1. ASSUME a # s PROVE b = a
        <5>1. up'[a] /\ am_i_leader'[a] /\ ~Replaying(a)'
          BY <1>1, <1>3, <2>3, <3>2, <3>3, <4>1
        <5>2. am_i_leader[b]
          BY <1>1, <1>6, <5>1 DEF Current
        <5> QED
          BY <2>3, <3>2, <5>2
      <4> QED
        BY <2>4, <4>1
    <3>5. b \in Later(a)
      <4>1. b \in Later(a) \/ a \in Later(b)
        BY <2>4 DEF Servers, Later
      <4> QED
        BY <1>4, <2>3, <3>2, <4>1 DEF RolesInv
    <3>6. LeaderInv(c, a, b)
      BY <1>4, <2>3, <3>2, <3>5 DEF DataInv
    <3>7. CASE InTheLoop(Root(c, a))
      <4>1. tasks[Root(c, a)].replay = None /\ tasks[Root(c, a)] # None
        BY <3>3, <3>7, ReplayingOne DEF InTheLoop, At
      <4>2. db[b] = db[a] \/ db[b] = Executed(db[a], tasks[Root(c, a)].request)
        BY <3>6, <3>7, <4>1 DEF LeaderInv, InStep
      <4> QED
        BY <4>1, <4>2, RootAt
    <3>8. CASE ~InTheLoop(Root(c, a))
      BY <3>6, <3>8 DEF LeaderInv, InStep
    <3> QED
      BY <3>7, <3>8
  <2>6. CASE ~\E l \in Servers : up[l] /\ am_i_leader[l] /\ ~Replaying(l)
    <3>1. ~\E l \in Servers : up'[l] /\ am_i_leader'[l] /\ ~Replaying(l)'
      BY <1>1, <1>3, <2>6
    <3>2. (\A t \in Later(a) : ~up[t]) /\ \A t \in Later(b) : ~up'[t]
      BY <1>6, <2>1, <2>6, <3>1 DEF Current
    <3>3. a = s /\ a \in Later(b)
      <4>1. b \in Later(a) \/ a \in Later(b)
        BY <2>4 DEF Servers, Later
      <4>2. a \in Later(b)
        BY <2>3, <3>2, <4>1
      <4> QED
        BY <1>1, <2>3, <3>2, <4>2
    <3>4. ~up[0]
      <4>1. ASSUME up[0], Replaying(0) PROVE FALSE
        <5>1. InTheLoop(Root(c, 0)) /\ tasks[Root(c, 0)].replay # None /\ 0 \in Servers
          BY <4>1, ReplayingOne DEF Servers
        <5>2. curr_leader[c] = 0 /\ tasks[Root(c, 0)] # None
          BY <5>1, RootAt DEF InTheLoop, At
        <5> QED
          BY <5>1, <5>2, AtRoot
      <4> QED
        BY <1>4, <2>6, <4>1 DEF RolesInv, Servers
    <3>5. b = 1 /\ a = 2
      BY <2>3, <3>3, <3>4 DEF Servers, Later
    <3>6. SUFFICES ASSUME db[1] # db[2] PROVE Behind(1, 2) /\ Changing(c)
      <4>1. ASSUME Behind(1, 2), Changing(c), db[1] # db[2]
            PROVE  /\ pending[c]["main"] # None
                   /\ db[1] = Executed(db[2], pending[c]["main"].request)
        <5>1. last_request[1] = pending[c]["main"].request
          BY <2>3, <2>6, <3>5, <4>1 DEF RetryInv
        <5> QED
          BY <4>1, <5>1 DEF Behind, Changing
      <4> QED
        BY <3>5, <4>1
    <3>7. CASE am_i_leader[1]
      <4> DEFINE i == Root(c, 1)
      <4>1. InTheLoop(i) /\ tasks[i].replay # None /\ i \in Tasks
        BY <2>3, <2>6, <3>5, <3>7, ReplayingOne, RootName
      <4>2. LeaderInv(c, 1, 2)
        BY <1>4, <2>3, <3>3, <3>5, <3>7 DEF DataInv
      <4>3. Behind(1, 2)
        BY <3>6, <4>1, <4>2 DEF LeaderInv, Matched
      <4>4. Changing(c)
        <5>1. tasks[i] # None /\ Writes(tasks[i].request)
          BY <4>1, InLoop DEF InTheLoop, Writes
        <5> QED
          BY <3>5, <5>1, RootAt DEF Changing
      <4> QED
        BY <4>3, <4>4
    <3>8. CASE ~am_i_leader[1]
      <4>1. FollowersInv(c, 1, 2)
        BY <1>4, <2>3, <3>3, <3>5, <3>8 DEF DataInv
      <4> QED
        BY <3>6, <4>1 DEF FollowersInv, Matched
    <3> QED
      BY <3>7, <3>8
  <2> QED
    BY <2>5, <2>6
<1> QED
  BY <1>4, <1>5, <1>6, SomeCurrentNext

LEMMA TaskServes ==
    ASSUME RInv, LeftServersDown, AInv, AInv', NEW c \in Clients, Clients = {c}, SentInv(c),
           NEW i \in Tasks, TaskStep(i)
    PROVE  Served(c)
<1>1. CASE i[1] = <<c, "inbox">> /\ (Read(i) \/ Unheard(i))
  <2>1. /\ \A l \in Tasks \ {i} : tasks'[l] = tasks[l]
        /\ UNCHANGED <<up, am_i_leader, db>>
    BY <1>1 DEF Read, Unheard, servervars, dbs, faults, RInv, RTypeOK
  <2>2. \A s \in Servers : tasks'[Root(c, s)] = tasks[Root(c, s)]
    BY <1>1, <2>1, RootName
  <2>3. \A s \in Servers : Replaying(s)' <=> Replaying(s)
    BY <2>2, ReplayingOne DEF InTheLoop, At
  <2> QED
    BY <2>1, <2>3, SameService DEF AInv, Served
<1> QED
  BY <1>1, TaskKinds, RootServes, ChildServes

-----------------------------------------------------------------------------
(***************************************************************************)
(* What later servers are sent, and what a new leader sends again.         *)
(***************************************************************************)

\* No server works for a handler that does not wait.
LEMMA NoChildren ==
    ASSUME AInv', NEW c \in Clients, NEW L \in Servers, curr_leader'[c] = L,
           tasks'[Root(c, L)] # None, tasks'[Root(c, L)].pc # "wait"
    PROVE  \A s \in Servers : \A t \in Later(s) : tasks'[Child(c, s, t)] = None
<1> SUFFICES ASSUME NEW s \in Servers, NEW t \in Later(s), tasks'[Child(c, s, t)] # None
             PROVE  FALSE
  OBVIOUS
<1>1. s = L
  <2>1. Child(c, s, t) \in Tasks /\ Child(c, s, t)[1] = <<c, "main">>
    BY ChildName
  <2>2. PlacesInv(c)'
    BY DEF AInv, TreeInv
  <2> QED
    BY <2>1, <2>2, Distinct DEF PlacesInv
<1>2. ChildInv(c, L, t)'
  BY <1>1 DEF AInv, TreeInv
<1> QED
  BY <1>1, <1>2 DEF ChildInv

LEMMA NothingSent ==
    ASSUME NEW c, \A s \in Servers : \A t \in Later(s) : ~At(Child(c, s, t), "begin")'
    PROVE  SentInv(c)'
BY DEF SentInv

LEMMA SentKept ==
    ASSUME NEW c, SentInv(c), pending'[c]["main"] = pending[c]["main"],
           \A s \in Servers : \A t \in Later(s) : At(Child(c, s, t), "begin")' =>
              /\ tasks'[Child(c, s, t)] = tasks[Child(c, s, t)]
              /\ counter'[t] = counter[t] /\ db'[t] = db[t]
    PROVE  SentInv(c)'
<1> SUFFICES ASSUME NEW s \in Servers, NEW t \in Later(s), At(Child(c, s, t), "begin")'
             PROVE  LET j == tasks'[Child(c, s, t)] IN
                    \/ j.request = pending'[c]["main"].request
                    \/ s # 0 /\ (j.counter <= counter'[t] \/ Executed(db'[t], j.request) = db'[t])
  BY DEF SentInv
<1>1. tasks'[Child(c, s, t)] = tasks[Child(c, s, t)] /\ At(Child(c, s, t), "begin")
  BY DEF At
<1> QED
  BY <1>1 DEF SentInv

LEMMA RetryKept ==
    ASSUME NEW c, RetryInv(c), pending'[c]["main"] = pending[c]["main"],
           UNCHANGED <<db, last_request>>, up'[1] => up[1], up'[2] => up[2],
           up'[1] /\ (am_i_leader'[1] => Replaying(1)') => (am_i_leader[1] => Replaying(1))
    PROVE  RetryInv(c)'
BY DEF RetryInv, Changing

\* A leader that goes through its stubs, or replays to them.
LEMMA CallSends ==
    ASSUME RInv, LeftServersDown, AInv, NEW c \in Clients, Clients = {c}, RetryInv(c),
           NEW L \in Servers, curr_leader[c] = L, Call(Root(c, L))
    PROVE  SentInv(c)'
<1> DEFINE i == Root(c, L)
           m == tasks[i]
<1>1. /\ At(i, "call") /\ m # None /\ m.pc = "call" /\ InTheLoop(i) /\ Left(i) # {}
      /\ i \in Tasks /\ m \in Task /\ Server(i) = L
  BY RootName DEF Call, At, InTheLoop, RInv, RTypeOK
<1>2. PICK t \in Later(L) : t = Target(i) /\ Callee(i, t) = Child(c, L, t) /\ t >= m.from
  BY <1>1, NextStub, ChildName
<1>3. /\ RootInv(c, L) /\ tasks[Child(c, L, t)] = None /\ Child(c, L, t) # i
      /\ up[L] /\ pending[c]["main"] # None /\ pending[c]["main"].request = m.request
      /\ \A u \in Later(L) : tasks[Child(c, L, u)] = None /\ ~am_i_leader[u]
      /\ up[t] => IF am_i_leader[L] THEN LeaderInv(c, L, t) ELSE TRUE
      /\ L = 0 => m.replay = None
  BY <1>1, AtRoot
<1>4. am_i_leader[L] /\ Writes(m.request) /\ (m.replay # None => m.replay = last_request[L])
  BY <1>1, <1>3, InLoop DEF RootInv, Writes
<1> DEFINE k == [m EXCEPT !.pc = "wait", !.from = t,
                          !.is_client = m.replay # None /\ m.is_client,
                          !.counter = IF m.replay = None THEN counter[L] + 1 ELSE @]
           j == IF up[t] THEN NewTask(Replicated(m), FALSE, counter[L] + 1) ELSE None
<1>5. tasks' = [tasks EXCEPT ![i] = k, ![Child(c, L, t)] = j]
  BY <1>1, <1>2 DEF Call
<1>6. up[t] => j.request = Replicated(m) /\ j.counter = counter[L] + 1
  BY DEF NewTask
<1>7. ~up[t] => j = None
  OBVIOUS
<1> HIDE DEF k, j
<1>8. /\ tasks'[Child(c, L, t)] = j
      /\ \A l \in Tasks : l # i /\ l # Child(c, L, t) => tasks'[l] = tasks[l]
  BY <1>3, <1>5, ChildName DEF RInv, RTypeOK
<1>9. UNCHANGED <<db, counter, pending>>
  BY DEF Call, servervars, dbs, clientvars
<1>10. ASSUME up[t]
       PROVE  \/ j.request = pending[c]["main"].request
              \/ L # 0 /\ (j.counter <= counter[t] \/ Executed(db[t], j.request) = db[t])
  <2>1. CASE m.replay = None
    BY <1>3, <1>6, <1>10, <2>1 DEF Replicated
  <2>2. CASE m.replay # None
    <3>1. L # 0 /\ j.request = last_request[L] /\ last_request[L] # None
      BY <1>3, <1>4, <1>6, <1>10, <2>2 DEF Replicated
    <3>2. Matched(L, t) \/ Behind(L, t)
      <4>1. LeaderInv(c, L, t) /\ ~(t < m.from)
        <5>1. t \in 0 .. 3 /\ m.from \in 0 .. 3
          BY <1>1 DEF Task, Later, Servers
        <5> QED
          BY <1>2, <1>3, <1>4, <1>10, <5>1
      <4> QED
        BY <1>1, <2>2, <4>1 DEF LeaderInv
    <3>3. CASE Matched(L, t)
      <4>1. j.counter = counter[t] /\ counter[t] \in Nat
        BY <1>6, <1>10, <3>1, <3>3 DEF Matched, Later, RInv, RTypeOK
      <4> QED
        BY <3>1, <4>1
    <3>4. CASE Behind(L, t)
      <4>1. Executed(db[t], j.request) = db[L]
        BY <3>1, <3>4 DEF Behind
      <4>2. CASE db[L] = db[t]
        BY <3>1, <4>1, <4>2
      <4>3. CASE db[L] # db[t]
        <5>1. L = 1 /\ t = 2
          BY <3>1 DEF Servers, Later
        <5>2. Changing(c)
          BY <1>3, <1>4 DEF Changing
        <5>3. Replaying(1)
          BY <1>1, <2>2, <5>1, ReplayingOne
        <5>4. last_request[1] = pending[c]["main"].request
          BY <1>3, <1>10, <4>3, <5>1, <5>2, <5>3 DEF RetryInv
        <5> QED
          BY <3>1, <5>1, <5>4
      <4> QED
        BY <4>2, <4>3
    <3> QED
      BY <3>2, <3>3, <3>4
  <2> QED
    BY <2>1, <2>2
<1>11. ASSUME NEW s \in Servers, NEW u \in Later(s), At(Child(c, s, u), "begin")'
       PROVE  s = L /\ u = t /\ up[t]
  <2>1. Child(c, s, u) = Child(c, L, t)
    <3> SUFFICES ASSUME Child(c, s, u) # Child(c, L, t) PROVE tasks'[Child(c, s, u)] = None
      BY <1>11 DEF At
    <3>1. tasks'[Child(c, s, u)] = tasks[Child(c, s, u)]
      BY <1>8, ChildName, Distinct
    <3>2. tasks[Child(c, s, u)] = None
      BY <1>3, AtLeader
    <3> QED
      BY <3>1, <3>2
  <2>2. tasks'[Child(c, L, t)] # None
    BY <1>11, <2>1 DEF At
  <2> QED
    BY <1>7, <1>8, <2>1, <2>2, Distinct
<1> QED
  BY <1>8, <1>9, <1>10, <1>11 DEF SentInv

LEMMA RootRetries ==
    ASSUME RInv, LeftServersDown, AInv, AInv', NEW c \in Clients, Clients = {c},
           SentInv(c), RetryInv(c), NEW L \in Servers, curr_leader[c] = L, TaskStep(Root(c, L))
    PROVE  SentInv(c)' /\ RetryInv(c)'
<1> DEFINE i == Root(c, L)
<1>1. /\ i \in Tasks /\ \A s \in Servers : \A t \in Later(s) : Child(c, s, t) # i
      /\ \A s \in Servers : \A t \in Later(s) : Child(c, s, t) \in Tasks
      /\ 1 \in Servers /\ Root(c, 1) \in Tasks
      /\ \A s \in Servers : Root(c, s) = i => s = L
  BY RootName, ChildName, Distinct DEF Servers
<1>2. CASE Read(i) \/ Store(i)
  <2>1. /\ ~InTheLoop(i) /\ ~InTheLoop(i)' /\ \A l \in Tasks \ {i} : tasks'[l] = tasks[l]
        /\ UNCHANGED <<up, am_i_leader, counter, last_request, db, pending>>
    BY <1>1, <1>2, RestStep DEF servervars, clientvars
  <2>2. Replaying(1)' <=> Replaying(1)
    BY <1>1, <2>1, ReplayingOne DEF InTheLoop, At
  <2> QED
    BY <1>1, <2>1, <2>2, SentKept, RetryKept
<1>3. CASE Call(i) \/ Returned(i) \/ Failed(i)
  <2>1. /\ InTheLoop(i) /\ InTheLoop(i)' /\ tasks'[i].replay = tasks[i].replay
        /\ \A s \in Servers : s # L => tasks'[Root(c, s)] = tasks[Root(c, s)]
        /\ UNCHANGED <<up, am_i_leader, db, last_request, pending, curr_leader>>
        /\ Call(i) \/ tasks'[i].pc = "call"
    BY <1>1, <1>3, LoopStep, RootName, Distinct DEF clientvars
  <2>2. Replaying(1)' <=> Replaying(1)
    BY <1>1, <2>1, ReplayingOne DEF InTheLoop, At
  <2>3. RetryInv(c)'
    BY <2>1, <2>2, RetryKept
  <2>4. CASE ~Call(i)
    <3>1. \A s \in Servers : \A t \in Later(s) : tasks'[Child(c, s, t)] = None
      BY <2>1, <2>4, NoChildren DEF InTheLoop, At
    <3> QED
      BY <2>3, <3>1, NothingSent DEF At
  <2> QED
    BY <2>3, <2>4, CallSends
<1>4. CASE Lead(i)
  <2> DEFINE k == [tasks[i] EXCEPT !.pc = "call", !.from = L + 1,
                                   !.replay = IF am_i_leader[L] THEN None ELSE last_request[L]]
  <2>1. /\ tasks[i] # None /\ tasks[i] \in Task /\ ~InTheLoop(i)
        /\ tasks' = [tasks EXCEPT ![i] = k]
        /\ am_i_leader' = [am_i_leader EXCEPT ![L] = TRUE]
        /\ UNCHANGED <<up, counter, last_request, db, pending, curr_leader>>
    BY <1>1, <1>4, RootName DEF Lead, At, InTheLoop, dbs, clientvars, faults, RInv, RTypeOK
  <2>2. k.replay = IF am_i_leader[L] THEN None ELSE last_request[L]
    BY <2>1 DEF Task
  <2> HIDE DEF k
  <2>3. tasks'[i] = k /\ \A l \in Tasks \ {i} : tasks'[l] = tasks[l]
    BY <1>1, <2>1 DEF RInv, RTypeOK
  <2>4. SentInv(c)'
    BY <1>1, <2>1, <2>3, SentKept
  <2>5. (am_i_leader'[1] => Replaying(1)') => (am_i_leader[1] => Replaying(1))
    <3>1. CASE L = 1
      BY <1>1, <2>1, <2>2, <2>3, <3>1, ReplayingOne DEF RInv, RTypeOK
    <3>2. CASE L # 1
      <4>1. am_i_leader'[1] = am_i_leader[1] /\ tasks'[Root(c, 1)] = tasks[Root(c, 1)]
        BY <1>1, <2>1, <2>3, <3>2 DEF RInv, RTypeOK
      <4> QED
        BY <4>1, ReplayingOne DEF InTheLoop, At
    <3> QED
      BY <3>1, <3>2
  <2> QED
    BY <2>1, <2>4, <2>5, RetryKept
<1>5. CASE EndReplay(i)
  <2> DEFINE k == [tasks[i] EXCEPT !.replay = None, !.from = L + 1]
  <2>1. /\ tasks[i] # None /\ tasks[i] \in Task /\ up[L] /\ am_i_leader[L]
        /\ tasks' = [tasks EXCEPT ![i] = k]
        /\ UNCHANGED <<up, am_i_leader, counter, last_request, db, pending>>
    <3>1. At(i, "call") /\ RootInv(c, L) /\ tasks[i] # None /\ up[L]
      BY <1>5, AtRoot DEF EndReplay, At
    <3>2. am_i_leader[L]
      BY <1>1, <3>1, InLoop DEF RootInv, Writes, At
    <3> QED
      BY <1>1, <1>5, <3>1, <3>2, RootName
         DEF EndReplay, servervars, dbs, clientvars, faults, RInv, RTypeOK
  <2>2. k.replay = None
    BY <2>1 DEF Task
  <2> HIDE DEF k
  <2>3. tasks'[i] = k /\ \A l \in Tasks \ {i} : tasks'[l] = tasks[l]
    BY <1>1, <2>1 DEF RInv, RTypeOK
  <2>4. SentInv(c)'
    BY <1>1, <2>1, <2>3, SentKept
  <2>5. (am_i_leader'[1] => Replaying(1)') => (am_i_leader[1] => Replaying(1))
    <3>1. CASE L = 1
      BY <2>1, <2>2, <2>3, <3>1, ReplayingOne
    <3>2. CASE L # 1
      <4>1. tasks'[Root(c, 1)] = tasks[Root(c, 1)]
        BY <1>1, <2>3, <3>2
      <4> QED
        BY <2>1, <4>1, ReplayingOne DEF InTheLoop, At
    <3> QED
      BY <3>1, <3>2
  <2> QED
    BY <2>1, <2>4, <2>5, RetryKept
<1>6. CASE Act(i)
  <2> DEFINE m == tasks[i]
             k == [m EXCEPT !.pc = IF Accepts(db[L], m.request) THEN "store" ELSE "done",
                            !.success = Accepts(db[L], m.request)]
  <2>1. /\ ~Seen(i) /\ Server(i) = L /\ m # None /\ m \in Task
        /\ RootInv(c, L) /\ up[L] /\ At(i, "call")
    BY <1>1, <1>6, NeverSeen, AtRoot DEF Act, At
  <2>2. /\ tasks' = [tasks EXCEPT ![i] = k]
        /\ \A s \in Servers : s # L => db'[s] = db[s]
        /\ UNCHANGED <<up, am_i_leader, last_request, pending, curr_leader>>
    <3>1. Perform(i)
      BY <1>6, <2>1 DEF Act, Discard
    <3>2. tasks' = [tasks EXCEPT ![i] = k]
      BY <2>1, <3>1, Zenon DEF Perform
    <3> QED
      BY <1>6, <2>1, <3>1, <3>2 DEF Perform, Act, clientvars, faults, RInv, RTypeOK
  <2>3. k.pc # "call" /\ k.pc # "wait" /\ k.pc \in {"store", "done"}
    BY <2>1 DEF Task
  <2> HIDE DEF k
  <2>4. tasks'[i] = k /\ \A l \in Tasks \ {i} : tasks'[l] = tasks[l]
    BY <1>1, <2>2 DEF RInv, RTypeOK
  <2>5. tasks'[i] # None /\ ~InTheLoop(i)'
    BY <1>1, <1>6, <2>3, <2>4, ActInv DEF InTheLoop, At
  <2>6. SentInv(c)'
    BY <2>2, <2>3, <2>4, <2>5, NoChildren, NothingSent DEF At
  <2>7. RetryInv(c)'
    <3>1. CASE L = 0
      <4>1. db'[1] = db[1] /\ db'[2] = db[2] /\ tasks'[Root(c, 1)] = tasks[Root(c, 1)]
        BY <1>1, <2>2, <2>4, <3>1 DEF Servers
      <4> QED
        BY <2>2, <4>1, ReplayingOne DEF RetryInv, Changing, InTheLoop, At
    <3>2. CASE L = 1
      <4>1. am_i_leader[1]
        BY <1>1, <2>1, <3>2, InLoop DEF RootInv, Writes, At
      <4> QED
        BY <2>2, <2>5, <3>2, <4>1, ReplayingOne DEF RetryInv
    <3>3. CASE L = 2
      <4>1. ~up[1]
        BY <1>1, <3>3, AtLeader
      <4> QED
        BY <2>2, <4>1 DEF RetryInv
    <3> QED
      BY <3>1, <3>2, <3>3 DEF Servers
  <2> QED
    BY <2>6, <2>7
<1> QED
  BY <1>2, <1>3, <1>4, <1>5, <1>6, RootRole DEF TaskStep

LEMMA FollowRetries ==
    ASSUME RInv, LeftServersDown, AInv, AInv', NEW c \in Clients, Clients = {c},
           SentInv(c), RetryInv(c), NEW L \in Servers, curr_leader[c] = L,
           NEW t \in Later(L), Follow(Child(c, L, t))
    PROVE  SentInv(c)' /\ RetryInv(c)'
<1> DEFINE j == Child(c, L, t)
           r == tasks[j].request
<1>1. /\ up[t] /\ j \in Tasks /\ Server(j) = t /\ t \in Servers /\ tasks[j] \in Task
      /\ At(j, "begin") /\ ~tasks[j].is_client
      /\ \A u \in Later(L) : u # t => tasks[Child(c, L, u)] = None
      /\ up[L] => am_i_leader[L]
      /\ L = 0 /\ up[1] /\ up[2] => FollowersInv(c, 1, 2)
  BY AtChild DEF Follow, At, ChildInv
<1>2. /\ UNCHANGED <<up, am_i_leader, pending, curr_leader>>
      /\ last_request' = [last_request EXCEPT ![t] = r]
      /\ Discard(j) \/ Perform(j)
  BY <1>1 DEF Follow, clientvars, faults
<1>3. /\ \A l \in Tasks \ {j} : tasks'[l] = tasks[l]
      /\ \A s \in Servers : s # t => db'[s] = db[s] /\ last_request'[s] = last_request[s]
      /\ last_request'[t] = r
  BY <1>1, <1>2 DEF Discard, Perform, dbs, RInv, RTypeOK
<1>4. tasks'[j].pc \in {"store", "done"}
  <2>1. CASE Discard(j)
    <3> DEFINE k == [tasks[j] EXCEPT !.pc = "done", !.success = TRUE]
    <3>1. tasks' = [tasks EXCEPT ![j] = k]
      BY <2>1 DEF Discard
    <3>2. k.pc = "done"
      BY <1>1 DEF Task
    <3> QED
      BY <1>1, <3>1, <3>2 DEF RInv, RTypeOK
  <2>2. CASE Perform(j)
    <3> DEFINE k == [tasks[j] EXCEPT !.pc = IF Accepts(db[t], r) THEN "store" ELSE "done",
                                     !.success = Accepts(db[t], r)]
    <3>1. tasks' = [tasks EXCEPT ![j] = k]
      BY <1>1, <2>2, Zenon DEF Perform
    <3>2. k.pc \in {"store", "done"}
      BY <1>1 DEF Task
    <3> HIDE DEF k
    <3> QED
      BY <1>1, <3>1, <3>2 DEF RInv, RTypeOK
  <2> QED
    BY <1>2, <2>1, <2>2
<1>5. \A s \in Servers : \A u \in Later(s) : ~At(Child(c, s, u), "begin")'
  <2> SUFFICES ASSUME NEW s \in Servers, NEW u \in Later(s), Child(c, s, u) # j
               PROVE  tasks'[Child(c, s, u)] = None
    BY <1>4 DEF At
  <2>1. tasks'[Child(c, s, u)] = tasks[Child(c, s, u)]
    BY <1>3, ChildName
  <2>2. s = L => u # t
    OBVIOUS
  <2> QED
    BY <1>1, <2>1, <2>2, AtLeader
<1>6. SentInv(c)'
  BY <1>5, NothingSent
<1>7. \A s \in Servers : tasks'[Root(c, s)] = tasks[Root(c, s)]
  BY <1>3, RootName, Distinct
<1>8. Replaying(1)' <=> Replaying(1)
  <2>1. tasks'[Root(c, 1)] = tasks[Root(c, 1)]
    BY <1>7 DEF Servers
  <2> QED
    BY <2>1, ReplayingOne DEF InTheLoop, At
<1>9. CASE L = 0
  <2>1. r = pending[c]["main"].request
    BY <1>1, <1>9 DEF SentInv
  <2>2. CASE t = 1
    BY <1>2, <1>3, <1>6, <2>1, <2>2 DEF RetryInv
  <2>3. CASE t = 2
    <3>1. up[1] => r = last_request[1]
      BY <1>1, <1>9, <2>3 DEF FollowersInv
    <3>2. last_request'[1] = last_request[1]
      BY <1>3, <2>3 DEF Servers
    <3> QED
      BY <1>2, <1>6, <2>1, <3>1, <3>2 DEF RetryInv
  <2> QED
    BY <1>6, <1>9, <2>2, <2>3 DEF Later, Servers
<1>10. CASE L = 1
  <2>1. t = 2 /\ db'[1] = db[1] /\ last_request'[1] = last_request[1]
    BY <1>3, <1>10 DEF Later, Servers
  <2> SUFFICES ASSUME up[1], up[2], db'[1] # db'[2], Changing(c), Replaying(1)
               PROVE  last_request[1] = pending[c]["main"].request
    BY <1>1, <1>2, <1>6, <1>8, <1>10, <2>1 DEF RetryInv, Changing
  <2>2. CASE db[1] # db[2]
    BY <2>2 DEF RetryInv
  <2>3. CASE db[1] = db[2]
    <3> DEFINE i == Root(c, 1)
    <3>1. /\ InTheLoop(i) /\ tasks[i].replay # None /\ tasks'[i] = tasks[i]
          /\ InTheLoop(i)' /\ tasks[i].pc = "wait" /\ tasks[i].from = 2
      <4>1. InTheLoop(i) /\ tasks[i].replay # None /\ tasks'[i] = tasks[i]
        BY <1>7, <1>10, ReplayingOne
      <4>2. At(i, "wait") /\ tasks[i].from = 2
        BY <1>1, <1>10, <2>1, AtChild DEF At
      <4> QED
        BY <4>1, <4>2 DEF InTheLoop, At
    <3>2. LeaderInv(c, 1, 2)'
      <4>1. am_i_leader'[1] /\ up'[1] /\ up'[2] /\ 1 \in Servers /\ 2 \in Later(1)
        BY <1>1, <1>2, <1>10, <2>1
      <4> QED
        BY <4>1 DEF AInv, DataInv
    <3>3. ~At(Child(c, 1, 2), "begin")'
      BY <1>5, <1>10, <2>1
    <3>4. db'[2] = db'[1]
      BY <3>1, <3>2, <3>3 DEF LeaderInv
    <3> QED
      BY <3>4
  <2> QED
    BY <2>2, <2>3
<1> QED
  BY <1>6, <1>9, <1>10 DEF Later, Servers

LEMMA ChildRetries ==
    ASSUME RInv, LeftServersDown, AInv, AInv', NEW c \in Clients, Clients = {c},
           SentInv(c), RetryInv(c), NEW L \in Servers, curr_leader[c] = L,
           NEW t \in Later(L), TaskStep(Child(c, L, t))
    PROVE  SentInv(c)' /\ RetryInv(c)'
<1> DEFINE j == Child(c, L, t)
<1>1. CASE Store(j) \/ Unheard(j)
  <2>1. j \in Tasks /\ tasks[j] # None /\ tasks[j] \in Task /\ ~At(j, "begin")
    BY <1>1, ChildName DEF Store, Unheard, At, RInv, RTypeOK
  <2>2. /\ \A l \in Tasks \ {j} : tasks'[l] = tasks[l]
        /\ UNCHANGED <<up, am_i_leader, db, counter, last_request, pending>>
    BY <1>1, <2>1 DEF Store, Unheard, servervars, dbs, clientvars, faults, RInv, RTypeOK
  <2>3. ~At(j, "begin")'
    BY <1>1, <2>1 DEF Store, Unheard, At, Task, RInv, RTypeOK
  <2>4. /\ 1 \in Servers /\ \A s \in Servers : Root(c, s) \in Tasks /\ Root(c, s) # j
        /\ \A s \in Servers : \A u \in Later(s) : Child(c, s, u) \in Tasks
    BY RootName, ChildName, Distinct DEF Servers
  <2>5. Replaying(1)' <=> Replaying(1)
    BY <2>2, <2>4, ReplayingOne DEF InTheLoop, At
  <2>6. SentInv(c)'
    <3>1. \A s \in Servers : \A u \in Later(s) : At(Child(c, s, u), "begin")' =>
             tasks'[Child(c, s, u)] = tasks[Child(c, s, u)]
      BY <2>2, <2>3, <2>4
    <3> QED
      BY <2>2, <3>1, SentKept
  <2> QED
    BY <2>2, <2>5, <2>6, RetryKept
<1> QED
  BY <1>1, ChildRole, FollowRetries

\* The main thread's handlers stay as they are.
LEMMA Unsent ==
    ASSUME AInv, AInv', NEW c \in Clients, Clients = {c}, SentInv(c), RetryInv(c),
           UNCHANGED <<up, am_i_leader, db, counter, last_request>>,
           pending'[c]["main"] = pending[c]["main"],
           \A i \in Tasks : i[1] = <<c, "main">> => tasks'[i] = tasks[i]
    PROVE  SentInv(c)' /\ RetryInv(c)' /\ CommonDb' = CommonDb
<1>1. /\ 1 \in Servers /\ \A s \in Servers : tasks'[Root(c, s)] = tasks[Root(c, s)]
      /\ \A s \in Servers : \A t \in Later(s) : tasks'[Child(c, s, t)] = tasks[Child(c, s, t)]
  BY RootName, ChildName DEF Servers
<1>2. \A s \in Servers : Replaying(s)' <=> Replaying(s)
  BY <1>1, ReplayingOne DEF InTheLoop, At
<1>3. CommonDb' = CommonDb
  BY <1>2, SameService DEF AInv
<1> QED
  BY <1>1, <1>2, <1>3, SentKept, RetryKept

LEMMA TaskRetries ==
    ASSUME RInv, LeftServersDown, AInv, AInv', NEW c \in Clients, Clients = {c},
           SentInv(c), RetryInv(c), NEW i \in Tasks, TaskStep(i)
    PROVE  SentInv(c)' /\ RetryInv(c)'
<1>1. CASE i[1] = <<c, "inbox">> /\ (Read(i) \/ Unheard(i))
  <2>1. /\ \A l \in Tasks \ {i} : tasks'[l] = tasks[l]
        /\ UNCHANGED <<up, am_i_leader, db, counter, last_request, pending>>
    BY <1>1 DEF Read, Unheard, servervars, dbs, clientvars, faults, RInv, RTypeOK
  <2>2. \A l \in Tasks : l[1] = <<c, "main">> => tasks'[l] = tasks[l]
    BY <1>1, <2>1
  <2> QED
    BY <2>1, <2>2, Unsent
<1> QED
  BY <1>1, TaskKinds, RootRetries, ChildRetries

\* The client's main thread begins to wait, goes on to the next server, or stops to
\* wait: nobody works for it but a handler that begins.
LEMMA FreshRetries ==
    ASSUME AInv, AInv', NEW c \in Clients, Clients = {c}, RetryInv(c),
           UNCHANGED <<up, am_i_leader, db, last_request>>,
           \A s \in Servers : ~InTheLoop(Root(c, s)) /\ ~InTheLoop(Root(c, s))',
           \A s \in Servers : \A t \in Later(s) : tasks'[Child(c, s, t)] = None,
           \/ pending'[c]["main"] = None
           \/ /\ pending[c]["main"] # None
              /\ pending'[c]["main"].request = pending[c]["main"].request
           \/ up[1] /\ up[2] => db[1] = db[2]
    PROVE  SentInv(c)' /\ RetryInv(c)' /\ CommonDb' = CommonDb
<1>1. SentInv(c)'
  BY NothingSent DEF At
<1>2. \A s \in Servers : ~Replaying(s) /\ ~Replaying(s)'
  BY ReplayingOne
<1>3. RetryInv(c)'
  BY <1>2 DEF RetryInv, Changing, Servers
<1>4. CommonDb' = CommonDb
  BY <1>2, SameService DEF AInv
<1> QED
  BY <1>1, <1>3, <1>4

LEMMA AskRetries ==
    ASSUME RInv, AInv, AInv', NEW c \in Clients, Clients = {c}, SentInv(c), RetryInv(c),
           NEW h \in Threads, NEW r \in Asked, Ask(c, h, r)
    PROVE  SentInv(c)' /\ RetryInv(c)' /\ CommonDb' = CommonDb
<1>1. PICK L \in 0 .. 3 : L = curr_leader[c]
  BY DEF RInv, RTypeOK
<1>2. /\ pending[c][h] = None /\ Connect(c, h, r, L)
      /\ UNCHANGED <<up, am_i_leader, db, counter, last_request>>
  BY <1>1 DEF Ask, servervars, dbs, faults
<1>3. /\ \A g \in Threads : g # h => pending'[c][g] = pending[c][g]
      /\ \A i \in Tasks : tasks'[i] # tasks[i] =>
            /\ i = <<<<c, h>>, <<L>>>> /\ tasks'[i] # None
            /\ tasks'[i].pc = "begin" /\ tasks'[i].is_client
  BY <1>2, ConnectStarts
<1>4. CASE h = "inbox"
  <2>1. \A i \in Tasks : i[1] = <<c, "main">> => tasks'[i] = tasks[i]
    BY <1>3, <1>4
  <2>2. pending'[c]["main"] = pending[c]["main"]
    BY <1>3, <1>4 DEF Threads
  <2> QED
    BY <1>2, <2>1, <2>2, Unsent
<1>5. CASE h = "main"
  <2>1. /\ \A i \in Tasks : i[1] = <<c, "main">> => tasks[i] = None
        /\ \A s \in Servers : \A t \in Later(s) : up[s] /\ up[t] =>
              IF am_i_leader[s] THEN InStep(s, t) ELSE Matched(s, t)
    BY <1>2, <1>5, MainRests
  <2>2. \A i \in Tasks : i[1] = <<c, "main">> /\ tasks'[i] # None =>
           i = Root(c, L) /\ tasks'[i].pc = "begin"
    BY <1>3, <1>5, <2>1 DEF Root
  <2>3. /\ \A s \in Servers : ~InTheLoop(Root(c, s)) /\ ~InTheLoop(Root(c, s))'
        /\ \A s \in Servers : \A t \in Later(s) : tasks'[Child(c, s, t)] = None
    BY <2>1, <2>2, RootName, ChildName, Distinct DEF InTheLoop, At
  <2>4. up[1] /\ up[2] => db[1] = db[2]
    <3>1. 1 \in Servers /\ 2 \in Later(1)
      BY DEF Servers, Later
    <3> QED
      BY <2>1, <3>1 DEF InStep, Matched
  <2> QED
    BY <1>2, <2>3, <2>4, FreshRetries
<1> QED
  BY <1>4, <1>5 DEF Threads

LEMMA FailOverRetries ==
    ASSUME Settled, RInv, LeftServersDown, AInv, AInv', NEW c \in Clients, Clients = {c},
           SentInv(c), RetryInv(c), NEW h \in Threads, FailOver(c, h)
    PROVE  SentInv(c)' /\ RetryInv(c)' /\ CommonDb' = CommonDb
<1>1. /\ Waiting(c, h) /\ tasks[Awaited(c, h)] = None
      /\ \A i \in Tasks : i[1] = <<c, h>> => tasks[i] = None
      /\ Connect(c, h, pending[c][h].request, curr_leader[c] + 1)
      /\ UNCHANGED <<up, am_i_leader, db, counter, last_request>>
  BY DEF FailOver, TryNext, servervars, dbs, faults
<1>2. PICK r \in Asked : r = pending[c][h].request
  BY <1>1, WaitingFacts
<1>3. PICK L \in 0 .. 3 : L = curr_leader[c] + 1
  BY <1>1, WaitingFacts
<1>4. /\ pending'[c][h] # None /\ pending'[c][h].request = r
      /\ \A g \in Threads : g # h => pending'[c][g] = pending[c][g]
      /\ \A i \in Tasks : tasks'[i] # tasks[i] =>
            /\ i = <<<<c, h>>, <<L>>>> /\ tasks'[i] # None
            /\ tasks'[i].pc = "begin" /\ tasks'[i].is_client
  BY <1>1, <1>2, <1>3, ConnectStarts
<1>5. CASE h = "inbox"
  <2>1. \A i \in Tasks : i[1] = <<c, "main">> => tasks'[i] = tasks[i]
    BY <1>4, <1>5
  <2>2. pending'[c]["main"] = pending[c]["main"]
    BY <1>4, <1>5 DEF Threads
  <2> QED
    BY <1>1, <2>1, <2>2, Unsent
<1>6. CASE h = "main"
  <2>1. \A i \in Tasks : i[1] = <<c, "main">> => tasks[i] = None
    BY <1>1, <1>6
  <2>2. \A i \in Tasks : i[1] = <<c, "main">> /\ tasks'[i] # None =>
           i = Root(c, L) /\ tasks'[i].pc = "begin"
    BY <1>4, <1>6, <2>1 DEF Root
  <2>3. /\ \A s \in Servers : ~InTheLoop(Root(c, s)) /\ ~InTheLoop(Root(c, s))'
        /\ \A s \in Servers : \A t \in Later(s) : tasks'[Child(c, s, t)] = None
    BY <2>1, <2>2, RootName, ChildName, Distinct DEF InTheLoop, At
  <2> QED
    BY <1>1, <1>2, <1>4, <1>6, <2>3, FreshRetries DEF Waiting
<1> QED
  BY <1>5, <1>6 DEF Threads

LEMMA AnswerRetries ==
    ASSUME RInv, LeftServersDown, AInv, AInv', NEW c \in Clients, Clients = {c},
           SentInv(c), RetryInv(c), NEW h \in Threads, Answer(c, h)
    PROVE  SentInv(c)' /\ RetryInv(c)' /\ CommonDb' = CommonDb
<1>1. /\ Waiting(c, h) /\ tasks[Awaited(c, h)] # None /\ tasks[Awaited(c, h)].pc = "done"
      /\ pending' = [pending EXCEPT ![c][h] = None]
      /\ tasks' = [tasks EXCEPT ![Awaited(c, h)] = None]
      /\ UNCHANGED <<up, am_i_leader, db, counter, last_request>>
  BY DEF Answer, At, servervars, dbs, faults
<1>2. PICK L \in Servers : L = curr_leader[c] /\ pending[c][h].at = L
  BY <1>1, WaitingFacts DEF LeftServersDown
<1>3. CASE h = "inbox"
  <2>1. \A i \in Tasks : i[1] = <<c, "main">> => tasks'[i] = tasks[i]
    BY <1>1, <1>3 DEF Awaited, RInv, RTypeOK
  <2>2. pending'[c]["main"] = pending[c]["main"]
    BY <1>1, <1>3 DEF RInv, RTypeOK, Threads
  <2> QED
    BY <1>1, <2>1, <2>2, Unsent
<1>4. CASE h = "main"
  <2> DEFINE i == Root(c, L)
  <2>1. Awaited(c, h) = i
    BY <1>2, <1>4 DEF Awaited, Root
  <2>2. tasks[i] # None /\ tasks[i].pc = "done" /\ tasks' = [tasks EXCEPT ![i] = None]
    BY <1>1, <2>1
  <2>3. i \in Tasks /\ \A t \in Later(L) : tasks[Child(c, L, t)] = None
    BY <1>2, <2>2, AtRoot
  <2>4. \A s \in Servers : s # L =>
           /\ tasks[Root(c, s)] = None
           /\ \A t \in Later(s) : tasks[Child(c, s, t)] = None
    BY <1>2, AtLeader
  <2>5. /\ \A s \in Servers : tasks'[Root(c, s)] = None
        /\ \A s \in Servers : \A t \in Later(s) : tasks'[Child(c, s, t)] = None
    BY <2>2, <2>3, <2>4, RootName, ChildName, Distinct DEF RInv, RTypeOK
  <2>6. \A s \in Servers : ~InTheLoop(Root(c, s)) /\ ~InTheLoop(Root(c, s))'
    BY <2>2, <2>4, <2>5 DEF InTheLoop, At
  <2>7. pending'[c]["main"] = None
    BY <1>1, <1>4 DEF RInv, RTypeOK, Threads
  <2> QED
    BY <1>1, <2>5, <2>6, <2>7, FreshRetries
<1> QED
  BY <1>3, <1>4 DEF Threads

LEMMA CrashRetries ==
    ASSUME RInv, NEW c \in Clients, Clients = {c}, SentInv(c), RetryInv(c),
           NEW s \in Servers, Crash(s)
    PROVE  SentInv(c)' /\ RetryInv(c)'
<1>1. /\ UNCHANGED <<am_i_leader, db, counter, last_request, pending>>
      /\ \A t \in Servers : up'[t] <=> up[t] /\ t # s
      /\ \A i \in Tasks : tasks'[i] = IF Server(i) = s THEN None ELSE tasks[i]
  BY DEF Crash, servervars, dbs, clientvars, RInv, RTypeOK
<1>2. SentInv(c)'
  <2>1. \A a \in Servers : \A b \in Later(a) : At(Child(c, a, b), "begin")' =>
           tasks'[Child(c, a, b)] = tasks[Child(c, a, b)]
    BY <1>1, ChildName DEF At
  <2> QED
    BY <1>1, <2>1, SentKept
<1>3. RetryInv(c)'
  <2>1. 1 \in Servers /\ 2 \in Servers
    BY DEF Servers
  <2>2. up'[1] => tasks'[Root(c, 1)] = tasks[Root(c, 1)]
    BY <1>1, <2>1, RootName
  <2>3. up'[1] => (Replaying(1)' <=> Replaying(1))
    BY <2>2, ReplayingOne DEF InTheLoop, At
  <2> QED
    BY <1>1, <2>1, <2>3, RetryKept
<1> QED
  BY <1>2, <1>3

-----------------------------------------------------------------------------
(***************************************************************************)
(* What the client is told.                                                *)
(***************************************************************************)

\* Any request leaves a database.
LEMMA ExecutedDatabase ==
    ASSUME NEW d \in Database, NEW r \in Requests
    PROVE  Executed(d, r) \in Database
<1>1. CASE r.rpc \in ReadOnly
  BY <1>1 DEF Executed, ReadOnly
<1> QED
  BY <1>1, ExecutedType

\* Executing a request removes no message, and does what it reports.
LEMMA ExecutedGrows ==
    ASSUME NEW d \in Database, NEW r \in Requests
    PROVE  /\ \A n \in Names : /\ Len(d.messages[n]) \in Nat
                               /\ Len(Executed(d, r).messages[n]) >= Len(d.messages[n])
           /\ r.rpc = "Register" /\ Accepts(d, r) =>
                 Executed(d, r).passwords[r.username] = r.password
           /\ r.rpc = "SendMessage" /\ Accepts(d, r) =>
                 Len(Executed(d, r).messages[r.receiver]) = Len(d.messages[r.receiver]) + 1
<1>1. \A n \in Names : d.messages[n] \in Seq(Message) /\ Len(d.messages[n]) \in Nat
  BY DEF Database
<1>2. CASE ~Accepts(d, r) \/ r.rpc \in ReadOnly
  <2>1. Executed(d, r) = d
    BY <1>2 DEF Executed, ReadOnly
  <2> QED
    BY <1>1, <1>2, <2>1 DEF ReadOnly
<1>3. CASE Accepts(d, r) /\ r.rpc = "Register"
  <2>1. r.username \in Names
    BY <1>3, RequestsAssumption DEF Credentials, Sendings
  <2>2. Executed(d, r) = [d EXCEPT !.passwords[r.username] = r.password]
    BY <1>3 DEF Executed, ReadOnly
  <2>3. /\ Executed(d, r).messages = d.messages
        /\ Executed(d, r).passwords[r.username] = r.password
    BY <2>1, <2>2 DEF Database
  <2> QED
    BY <1>1, <1>3, <2>3
<1>4. CASE Accepts(d, r) /\ r.rpc = "DeleteAccount"
  <2>1. Executed(d, r) = [d EXCEPT !.passwords[r.username] = Absent]
    BY <1>4 DEF Executed, ReadOnly
  <2>2. Executed(d, r).messages = d.messages
    BY <2>1 DEF Database
  <2> QED
    BY <1>1, <1>4, <2>2
<1>5. CASE Accepts(d, r) /\ r.rpc = "SendMessage"
  <2> DEFINE m == [sender |-> r.sender, body |-> r.body]
  <2>1. r.receiver \in Names /\ m \in Message
    BY <1>5, RequestsAssumption DEF Credentials, Sendings, Message
  <2>2. Executed(d, r) = [d EXCEPT !.messages[r.receiver] = Append(@, m)]
    BY <1>5 DEF Executed, ReadOnly
  <2>3. Len(Append(d.messages[r.receiver], m)) = Len(d.messages[r.receiver]) + 1
    BY <1>1, <2>1, AppendFacts
  <2> HIDE DEF m
  <2>4. \A n \in Names : Executed(d, r).messages[n] =
           IF n = r.receiver THEN Append(d.messages[r.receiver], m) ELSE d.messages[n]
    BY <2>1, <2>2 DEF Database
  <2>5. Len(Executed(d, r).messages[r.receiver]) = Len(d.messages[r.receiver]) + 1
    BY <2>1, <2>3, <2>4
  <2>6. ASSUME NEW n \in Names PROVE Len(Executed(d, r).messages[n]) >= Len(d.messages[n])
    <3>1. CASE n = r.receiver
      BY <1>1, <2>5, <3>1
    <3>2. CASE n # r.receiver
      BY <1>1, <2>4, <3>2
    <3> QED
      BY <3>1, <3>2
  <2> QED
    BY <1>1, <1>5, <2>5, <2>6
<1>6. r.rpc \in {"Register", "DeleteAccount", "Login", "SendMessage"}
  BY RequestsAssumption DEF Credentials, Sendings
<1> QED
  BY <1>2, <1>3, <1>4, <1>5, <1>6 DEF ReadOnly

\* The answer of a handler stays true while nothing changes that it is about.
LEMMA AnswerKept ==
    ASSUME NEW c, NEW h, ToldInv(c, h),
           Waiting(c, h)' /\ Executing(Awaited(c, h))' =>
              /\ Waiting(c, h) /\ Executing(Awaited(c, h))
              /\ pending'[c][h] = pending[c][h]
              /\ db'[pending[c][h].at] = db[pending[c][h].at]
              /\ tasks'[Awaited(c, h)].request = tasks[Awaited(c, h)].request
              /\ tasks'[Awaited(c, h)].success = tasks[Awaited(c, h)].success
              /\ tasks'[Awaited(c, h)].chats = tasks[Awaited(c, h)].chats
              /\ username'[c] = username[c] /\ acked'[c] = acked[c]
    PROVE  ToldInv(c, h)'
<1> SUFFICES ASSUME Waiting(c, h)', Executing(Awaited(c, h))' PROVE ToldInv(c, h)'
  BY DEF ToldInv
<1>1. Awaited(c, h)' = Awaited(c, h)
  BY DEF Awaited
<1> QED
  BY <1>1 DEF ToldInv

\* A handler that reads tells what is in the database.
LEMMA ReadAnswers ==
    ASSUME RInv, NEW c \in Clients, NEW h \in Threads, ToldInv(c, h),
           NEW i \in Tasks, Read(i)
    PROVE  ToldInv(c, h)'
<1> DEFINE w == Awaited(c, h)
           r == tasks[i].request
           d == db[Server(i)]
           k == [tasks[i] EXCEPT !.pc = "done", !.success = r.rpc # "Login" \/ Accepts(d, r),
                                 !.chats = IF r.rpc = "ReceiveMessage"
                                           THEN Len(d.messages[r.username]) ELSE 0]
<1>1. /\ tasks[i] \in Task /\ r.rpc \in ReadOnly /\ tasks' = [tasks EXCEPT ![i] = k]
      /\ UNCHANGED <<db, pending, curr_leader, username, acked>>
  BY DEF Read, At, dbs, clientvars, session, RInv, RTypeOK
<1>2. /\ k.request = r /\ k.success = (r.rpc # "Login" \/ Accepts(d, r))
      /\ k.chats = IF r.rpc = "ReceiveMessage" THEN Len(d.messages[r.username]) ELSE 0
  BY <1>1 DEF Task
<1> HIDE DEF k
<1>3. tasks'[i] = k /\ \A l \in Tasks \ {i} : tasks'[l] = tasks[l]
  BY <1>1 DEF RInv, RTypeOK
<1>4. (Waiting(c, h)' <=> Waiting(c, h)) /\ w' = w
  BY <1>1 DEF Waiting, Gone, Awaited
<1>5. CASE ~Waiting(c, h)
  BY <1>4, <1>5 DEF ToldInv
<1>6. CASE Waiting(c, h) /\ w # i
  <2>1. w \in Tasks
    BY <1>6, WaitingFacts
  <2>2. tasks'[w] = tasks[w]
    BY <1>3, <1>6, <2>1
  <2>3. Executing(w)' <=> Executing(w)
    BY <1>4, <2>2 DEF Executing, At
  <2> QED
    BY <1>1, <1>4, <1>6, <2>2, <2>3, AnswerKept
<1>7. CASE Waiting(c, h) /\ w = i
  <2>1. Server(i) = pending[c][h].at
    BY <1>7 DEF Awaited, Server
  <2>2. r.rpc # "Register" /\ r.rpc # "SendMessage"
    BY <1>1 DEF ReadOnly
  <2>3. r.rpc = "Login" => (k.success <=> Accepts(d, r))
    BY <1>2
  <2>4. r.rpc = "ReceiveMessage" => k.chats = Len(d.messages[r.username])
    BY <1>2
  <2>5. tasks'[w'] = k /\ db'[pending'[c][h].at] = d
    BY <1>1, <1>3, <1>4, <1>7, <2>1
  <2> HIDE DEF r, d, w
  <2> QED
    BY <1>2, <2>2, <2>3, <2>4, <2>5 DEF ToldInv, w
<1> QED
  BY <1>5, <1>6, <1>7

LEMMA StoreAnswers ==
    ASSUME RInv, NEW c \in Clients, NEW h \in Threads, ToldInv(c, h),
           NEW i \in Tasks, Store(i) \/ Unheard(i)
    PROVE  ToldInv(c, h)'
<1> DEFINE w == Awaited(c, h)
<1>1. UNCHANGED <<db, pending, curr_leader, username, acked>>
  BY DEF Store, Unheard, dbs, clientvars, session
<1>2. (Waiting(c, h)' <=> Waiting(c, h)) /\ w' = w
  BY <1>1 DEF Waiting, Gone, Awaited
<1>3. CASE ~Waiting(c, h)
  BY <1>2, <1>3 DEF ToldInv
<1>4. CASE Waiting(c, h)
  <2>1. w \in Tasks
    BY <1>4, WaitingFacts
  <2>2. CASE w # i \/ Store(i)
    <3>1. tasks[i] # None /\ tasks[i] \in Task
      BY DEF Store, Unheard, At, RInv, RTypeOK
    <3>2. tasks'[w] = IF w = i THEN [tasks[i] EXCEPT !.pc = "done"] ELSE tasks[w]
      BY <2>1, <2>2 DEF Store, Unheard, RInv, RTypeOK
    <3>3. /\ tasks'[w].request = tasks[w].request
          /\ tasks'[w].success = tasks[w].success /\ tasks'[w].chats = tasks[w].chats
      BY <3>1, <3>2 DEF Task
    <3>4. Executing(w)' => Executing(w)
      BY <1>2, <2>1, <2>2, <3>1, <3>2 DEF Executing, At, Store
    <3> QED
      BY <1>1, <1>2, <1>4, <3>3, <3>4, AnswerKept
  <2>3. CASE w = i /\ Unheard(i)
    <3>1. tasks'[w] = None
      BY <2>1, <2>3 DEF Unheard, RInv, RTypeOK
    <3> QED
      BY <1>2, <3>1 DEF ToldInv, Executing, At
  <2> QED
    BY <2>2, <2>3
<1> QED
  BY <1>3, <1>4

\* The leader tells what it has done.
LEMMA ActAnswers ==
    ASSUME RInv, LeftServersDown, AInv, NEW c \in Clients, InboxInv(c),
           NEW L \in Servers, curr_leader[c] = L, Act(Root(c, L))
    PROVE  ToldInv(c, "main")'
<1> DEFINE i == Root(c, L)
           m == tasks[i]
           r == m.request
           d == db[L]
           k == [m EXCEPT !.pc = IF Accepts(d, r) THEN "store" ELSE "done",
                          !.success = Accepts(d, r)]
<1>1. /\ ~Seen(i) /\ Server(i) = L /\ m # None /\ m \in Task /\ i \in Tasks
      /\ up[L] /\ At(i, "call") /\ pending[c]["main"] # None
      /\ pending[c]["main"].request = r
  BY NeverSeen, AtRoot DEF Act, At
<1>2. /\ tasks' = [tasks EXCEPT ![i] = k]
      /\ db' = [db EXCEPT ![L] = Executed(@, r)]
      /\ UNCHANGED <<pending, curr_leader, username, acked>>
  <2>1. Perform(i)
    BY <1>1 DEF Act, Discard
  <2>2. tasks' = [tasks EXCEPT ![i] = k]
    BY <1>1, <2>1, Zenon DEF Perform
  <2> QED
    BY <1>1, <2>1, <2>2 DEF Perform, Act, clientvars, session
<1>3. k.request = r /\ k.success = Accepts(d, r)
  BY <1>1 DEF Task
<1> HIDE DEF k
<1>4. tasks'[i] = k /\ db'[L] = Executed(d, r) /\ d \in Database
  BY <1>1, <1>2 DEF RInv, RTypeOK
<1>5. r \in Requests /\ r.rpc \notin ReadOnly
  BY <1>1, InLoop
<1>6. pending[c]["main"].at = L
  BY <1>1, AtLeader
<1>7. Awaited(c, "main")' = i
  BY <1>2, <1>6 DEF Awaited, Root
<1>8. r.rpc = "Register" /\ k.success => db'[L].passwords[r.username] = r.password
  BY <1>3, <1>4, <1>5, ExecutedGrows
<1>9. ASSUME r.rpc = "SendMessage", k.success, r.receiver = username[c]
      PROVE  Len(db'[L].messages[username[c]]) > acked[c]
  <2>1. stage[c] # "login"
    <3>1. r.rpc \in Due(c, "main") /\ stage[c] \in {"login", "home", "users", "chat"}
      BY <1>1 DEF RInv, RTypeOK, ProgramInv, Threads
    <3> QED
      BY <1>9, <3>1 DEF Due
  <2>2. acked[c] <= Len(d.messages[username[c]])
    BY <1>1, <2>1 DEF InboxInv
  <2>3. Len(db'[L].messages[username[c]]) = Len(d.messages[username[c]]) + 1
    BY <1>3, <1>4, <1>5, <1>9, ExecutedGrows
  <2>4. Len(d.messages[username[c]]) \in Nat /\ acked[c] \in Nat
    <3>1. username[c] \in Names
      BY <2>1 DEF RInv, ProgramInv
    <3> QED
      BY <1>4, <1>5, <3>1, ExecutedGrows DEF RInv, RTypeOK
  <2> QED
    BY <2>2, <2>3, <2>4
<1> QED
  BY <1>2, <1>3, <1>4, <1>5, <1>6, <1>7, <1>8, <1>9 DEF ToldInv, ReadOnly

LEMMA RootAnswers ==
    ASSUME RInv, LeftServersDown, AInv, NEW c \in Clients, NEW h \in Threads,
           ToldInv(c, h), InboxInv(c),
           NEW L \in Servers, curr_leader[c] = L, TaskStep(Root(c, L))
    PROVE  ToldInv(c, h)'
<1> DEFINE i == Root(c, L)
<1>1. i \in Tasks
  BY RootName
<1>2. CASE Read(i) \/ Store(i)
  BY <1>1, <1>2, ReadAnswers, StoreAnswers
<1>3. CASE ~(Read(i) \/ Store(i))
  <2>1. /\ tasks[i] # None /\ UNCHANGED clientvars
        /\ Lead(i) \/ Call(i) \/ Returned(i) \/ Failed(i) \/ EndReplay(i) \/ Act(i)
    BY <1>3, RootRole DEF TaskStep, Lead, Call, Returned, Failed, EndReplay, Act, At
  <2>2. /\ pending[c]["main"] # None /\ pending[c]["main"].at = L
        /\ pending' = pending /\ tasks[i] \in Task
    BY <2>1, AtRoot, AtLeader DEF clientvars
  <2>3. CASE h = "inbox"
    <3>1. pending'[c][h] = None
      BY <2>2, <2>3, OneWaits DEF Threads
    <3> QED
      BY <3>1 DEF ToldInv, Waiting
  <2>4. CASE h = "main" /\ Act(i)
    BY <2>4, ActAnswers
  <2>5. CASE h = "main" /\ ~Act(i)
    <3>1. Awaited(c, h)' = i
      BY <2>2, <2>5 DEF Awaited, Root
    <3>2. CASE Call(i) \/ Returned(i) \/ Failed(i)
      <4>1. ~Executing(i)'
        BY <3>2, LoopStep DEF InTheLoop, Executing, At
      <4> QED
        BY <3>1, <4>1 DEF ToldInv
    <3>3. CASE Lead(i)
      <4> DEFINE k == [tasks[i] EXCEPT !.pc = "call", !.from = Server(i) + 1,
                          !.replay = IF am_i_leader[Server(i)] THEN None ELSE last_request[Server(i)]]
      <4>1. tasks' = [tasks EXCEPT ![i] = k]
        BY <3>3 DEF Lead
      <4>2. k.pc = "call"
        BY <2>2 DEF Task
      <4> HIDE DEF k
      <4>3. ~Executing(i)'
        BY <1>1, <4>1, <4>2 DEF Executing, At, RInv, RTypeOK
      <4> QED
        BY <3>1, <4>3 DEF ToldInv
    <3>4. CASE EndReplay(i)
      <4> DEFINE k == [tasks[i] EXCEPT !.replay = None, !.from = Server(i) + 1]
      <4>1. tasks' = [tasks EXCEPT ![i] = k] /\ tasks[i].pc = "call"
        BY <3>4 DEF EndReplay, At
      <4>2. k.pc = "call"
        BY <2>2, <4>1 DEF Task
      <4> HIDE DEF k
      <4>3. ~Executing(i)'
        BY <1>1, <4>1, <4>2 DEF Executing, At, RInv, RTypeOK
      <4> QED
        BY <3>1, <4>3 DEF ToldInv
    <3> QED
      BY <2>1, <2>5, <3>2, <3>3, <3>4
  <2> QED
    BY <2>3, <2>4, <2>5 DEF Threads
<1> QED
  BY <1>2, <1>3

LEMMA ChildAnswers ==
    ASSUME RInv, LeftServersDown, AInv, NEW c \in Clients, NEW h \in Threads, ToldInv(c, h),
           NEW L \in Servers, curr_leader[c] = L, NEW t \in Later(L), TaskStep(Child(c, L, t))
    PROVE  ToldInv(c, h)'
<1> DEFINE j == Child(c, L, t)
<1>1. j \in Tasks
  BY ChildName
<1>2. CASE Store(j) \/ Unheard(j)
  BY <1>1, <1>2, StoreAnswers
<1>3. CASE Follow(j)
  <2>1. /\ pending[c]["main"] # None /\ pending[c]["main"].at = L /\ Server(j) = t /\ t # L
        /\ UNCHANGED <<pending, curr_leader, username, acked>>
        /\ Discard(j) \/ Perform(j)
    BY <1>3, AtChild, AtLeader DEF Follow, At, clientvars, session
  <2>2. CASE h = "inbox"
    <3>1. pending'[c][h] = None
      BY <2>1, <2>2, OneWaits DEF Threads
    <3> QED
      BY <3>1 DEF ToldInv, Waiting
  <2>3. CASE h = "main"
    <3>1. Awaited(c, h) = Root(c, L) /\ Awaited(c, h)' = Root(c, L)
      BY <2>1, <2>3 DEF Awaited, Root
    <3>2. tasks'[Root(c, L)] = tasks[Root(c, L)] /\ db'[L] = db[L]
      <4>1. Root(c, L) \in Tasks /\ Root(c, L) # j
        BY RootName, Distinct
      <4> QED
        BY <1>1, <2>1, <4>1 DEF Discard, Perform, dbs, RInv, RTypeOK
    <3>3. /\ Executing(Root(c, L))' => Executing(Root(c, L))
          /\ Waiting(c, h)' => Waiting(c, h)
      BY <2>1, <3>2 DEF Executing, At, Waiting, Gone
    <3> QED
      BY <2>1, <2>3, <3>1, <3>2, <3>3, AnswerKept
  <2> QED
    BY <2>2, <2>3 DEF Threads
<1> QED
  BY <1>2, <1>3, ChildRole

LEMMA TaskAnswers ==
    ASSUME RInv, LeftServersDown, AInv, NEW c \in Clients, Clients = {c}, NEW h \in Threads,
           ToldInv(c, h), InboxInv(c), NEW i \in Tasks, TaskStep(i)
    PROVE  ToldInv(c, h)'
BY TaskKinds, RootAnswers, ChildAnswers, ReadAnswers, StoreAnswers

\* The inbox loses nothing while the client waits.
LEMMA InboxKept ==
    ASSUME RInv, NEW c \in Clients, InboxInv(c),
           UNCHANGED <<pending, stage, username, num_messages, acked>>,
           \A s \in Servers : up'[s] =>
              /\ up[s]
              /\ db'[s] = db[s] \/ \E r \in Requests : db'[s] = Executed(db[s], r)
    PROVE  InboxInv(c)'
<1>1. ASSUME stage[c] # "login", NEW s \in Servers, up'[s]
      PROVE  LET n == Len(db'[s].messages[username[c]])
             IN  num_messages[c] <= n /\ acked[c] <= n
  <2> DEFINE m == Len(db[s].messages[username[c]])
             n == Len(db'[s].messages[username[c]])
  <2>1. username[c] \in Names /\ db[s] \in Database /\ num_messages[c] \in Nat /\ acked[c] \in Nat
    BY <1>1 DEF RInv, RTypeOK, ProgramInv
  <2>2. num_messages[c] <= m /\ acked[c] <= m
    BY <1>1 DEF InboxInv
  <2>3. ASSUME NEW r \in Requests, db'[s] = Executed(db[s], r) PROVE m \in Nat /\ n \in Nat /\ n >= m
    <3>1. m \in Nat /\ n >= m /\ db'[s] \in Database
      BY <2>1, <2>3, ExecutedGrows, ExecutedDatabase
    <3>2. n \in Nat
      BY <2>1, <3>1 DEF Database
    <3> QED
      BY <3>1, <3>2
  <2>4. n = m \/ (m \in Nat /\ n \in Nat /\ n >= m)
    BY <1>1, <2>3
  <2> HIDE DEF m, n
  <2>5. num_messages[c] <= n /\ acked[c] <= n
    BY <2>1, <2>2, <2>4
  <2> QED
    BY <2>5 DEF n
<1> QED
  BY <1>1 DEF InboxInv

\* What a handler makes of a database.
LEMMA TaskDbs ==
    ASSUME RInv, NEW i \in Tasks, TaskStep(i), NEW s \in Servers
    PROVE  db'[s] = db[s] \/ \E r \in Requests : db'[s] = Executed(db[s], r)
<1>1. CASE Follow(i) \/ Act(i)
  <2>1. tasks[i].request \in Requests
    <3>1. tasks[i].request \in Asked /\ (Follow(i) => tasks[i].request.rpc \notin ReadOnly)
      BY <1>1 DEF Follow, Act, At, RInv, RTypeOK, Task
    <3> QED
      BY <1>1, <3>1, AskedChange, InLoop DEF Act
  <2>2. Discard(i) \/ Perform(i)
    BY <1>1 DEF Follow, Act
  <2>3. db' = db \/ db' = [db EXCEPT ![Server(i)] = Executed(@, tasks[i].request)]
    BY <2>2 DEF Discard, Perform, dbs
  <2> QED
    BY <2>1, <2>3 DEF RInv, RTypeOK
<1>2. CASE ~(Follow(i) \/ Act(i))
  <2>1. db' = db
    BY <1>2 DEF TaskStep, Read, Lead, Call, Returned, Failed, EndReplay, Store, Unheard, dbs
  <2> QED
    BY <2>1
<1> QED
  BY <1>1, <1>2

\* An answer comes when every server that is up has the same database.
LEMMA Settles ==
    ASSUME RInv, LeftServersDown, AInv, NEW c \in Clients, NEW h \in Threads, Answer(c, h)
    PROVE  /\ curr_leader[c] \in Servers /\ pending[c][h].at = curr_leader[c]
           /\ up[curr_leader[c]]
           /\ \A s \in Servers : up[s] => db[s] = db[curr_leader[c]]
<1>1. Waiting(c, h) /\ tasks[Awaited(c, h)] # None /\ tasks[Awaited(c, h)].pc = "done"
  BY DEF Answer, At
<1>2. PICK L \in Servers : L = curr_leader[c] /\ pending[c][h].at = L
  BY <1>1, WaitingFacts DEF LeftServersDown
<1>3. up[L]
  BY <1>1, <1>2, AwaitedName DEF Awaited, RInv, TasksInv
<1>4. \A s \in Servers : s < L => ~up[s]
  BY <1>2, AtLeader
<1>5. ASSUME NEW s \in Later(L), up[s] PROVE db[s] = db[L]
  <2>1. IF am_i_leader[L] THEN LeaderInv(c, L, s) ELSE FollowersInv(c, L, s)
    BY <1>3, <1>5 DEF AInv, DataInv
  <2>2. CASE ~Changing(c)
    <3>1. ~InTheLoop(Root(c, L))
      <4> SUFFICES ASSUME InTheLoop(Root(c, L)) PROVE Changing(c)
        BY <2>2
      <4>1. tasks[Root(c, L)] # None /\ Writes(tasks[Root(c, L)].request)
        BY RootName, InLoop DEF InTheLoop, Writes
      <4> QED
        BY <4>1, RootAt DEF Changing
    <3> QED
      BY <2>1, <2>2, <3>1 DEF LeaderInv, InStep, FollowersInv, Matched
  <2>3. CASE Changing(c)
    <3> DEFINE i == Root(c, L)
    <3>1. h = "main"
      BY <1>1, <2>3, OneWaits DEF Changing, Waiting, Threads
    <3>2. tasks[i] # None /\ tasks[i].pc = "done"
      BY <1>1, <1>2, <3>1 DEF Awaited, Root
    <3>3. RootInv(c, L) /\ Writes(tasks[i].request)
      BY <1>2, <2>3, <3>2, AtRoot DEF Changing
    <3>4. am_i_leader[L] /\ ~InTheLoop(i)
      BY <3>2, <3>3 DEF RootInv, InTheLoop, At
    <3> QED
      BY <2>1, <3>4 DEF LeaderInv, InStep
  <2> QED
    BY <2>2, <2>3
<1>6. \A s \in Servers : s < L \/ s = L \/ s \in Later(L)
  BY DEF Servers, Later
<1> QED
  BY <1>2, <1>3, <1>4, <1>5, <1>6

\* Nothing has been done yet for a thread that asks a server.
LEMMA FreshAnswer ==
    ASSUME RInv, NEW c \in Clients, NEW h \in Threads, NEW r \in Asked, NEW s \in Servers,
           Connect(c, h, r, s), curr_leader[c] <= s,
           pending[c][h] # None => pending[c][h].at # s
    PROVE  ~Executing(Awaited(c, h))'
<1> DEFINE w == <<<<c, h>>, <<s>>>>
<1>1. w \in Tasks /\ s \in 0 .. 3
  <2>1. w \in Tasks
    BY AwaitedName
  <2>2. s \in 0 .. 3
    BY DEF Servers
  <2> QED
    BY <2>1, <2>2
<1>2. Awaited(c, h)' = w
  <2>1. RTypeOK
    BY DEF RInv
  <2>2. pending'[c][h] = [request |-> r, at |-> s]
    BY <2>1, PendingFacts
  <2>3. pending'[c][h].at = s
    BY <2>2
  <2> QED
    BY <2>3 DEF Awaited
<1>3. tasks'[w] # tasks[w] => tasks'[w].pc = "begin"
  BY <1>1, ConnectStarts
<1>4. tasks[w] = None
  <2>1. curr_leader[c] \in 0 .. 3
    BY DEF RInv, RTypeOK
  <2>2. ~(s < curr_leader[c])
    BY <1>1, <2>1
  <2> QED
    BY <2>2 DEF RInv, ProgramInv
<1> QED
  BY <1>2, <1>3, <1>4 DEF Executing, At

LEMMA AskAnswers ==
    ASSUME RInv, NEW c \in Clients, InboxInv(c), \A g \in Threads : ToldInv(c, g),
           NEW h \in Threads, NEW r \in Asked, Ask(c, h, r),
           r.rpc = "ReceiveMessage" => r.username = username[c]
    PROVE  InboxInv(c)' /\ \A g \in Threads : ToldInv(c, g)'
<1>1. PICK L \in Servers : L = curr_leader[c]
  BY DEF Ask, Gone, RInv, RTypeOK, Servers
<1>2. /\ pending[c][h] = None /\ Connect(c, h, r, L)
      /\ UNCHANGED <<up, db, curr_leader, username, stage, num_messages, acked>>
  BY <1>1 DEF Ask, dbs, faults
<1>3. /\ pending'[c][h].request = r /\ L \in 0 .. 3
      /\ \A g \in Threads : g # h => pending'[c][g] = pending[c][g]
      /\ \A i \in Tasks : tasks'[i] # tasks[i] => i = <<<<c, h>>, <<L>>>>
  <2>1. L \in 0 .. 3
    BY DEF Servers
  <2> QED
    BY <1>2, <2>1, ConnectStarts
<1>4. InboxInv(c)'
  BY <1>2, <1>3 DEF InboxInv
<1>5. ToldInv(c, h)'
  <2>1. ~Executing(Awaited(c, h))'
    BY <1>1, <1>2, FreshAnswer DEF Servers
  <2> QED
    BY <2>1 DEF ToldInv
<1>6. ASSUME NEW g \in Threads, g # h PROVE ToldInv(c, g)'
  <2>1. (Waiting(c, g)' <=> Waiting(c, g)) /\ Awaited(c, g)' = Awaited(c, g)
    BY <1>2, <1>3, <1>6 DEF Waiting, Gone, Awaited
  <2>2. CASE Waiting(c, g)
    <3>1. Awaited(c, g) \in Tasks
      BY <2>2, WaitingFacts
    <3>2. tasks'[Awaited(c, g)] = tasks[Awaited(c, g)]
      BY <1>3, <1>6, <3>1 DEF Awaited
    <3> QED
      BY <1>2, <1>3, <1>6, <2>1, <2>2, <3>2, AnswerKept DEF Executing, At
  <2> QED
    BY <2>1, <2>2 DEF ToldInv
<1> QED
  BY <1>4, <1>5, <1>6

LEMMA FailOverAnswers ==
    ASSUME RInv, LeftServersDown, NEW c \in Clients, InboxInv(c),
           NEW h \in Threads, FailOver(c, h)
    PROVE  InboxInv(c)' /\ \A g \in Threads : ToldInv(c, g)'
<1>1. /\ Waiting(c, h) /\ pending[c][h].at = curr_leader[c]
      /\ curr_leader' = [curr_leader EXCEPT ![c] = @ + 1]
      /\ Connect(c, h, pending[c][h].request, curr_leader[c] + 1)
      /\ UNCHANGED <<up, db, username, stage, num_messages, acked>>
  BY DEF FailOver, TryNext, session, dbs, faults, LeftServersDown
<1>2. PICK r \in Asked : r = pending[c][h].request
  BY <1>1, WaitingFacts
<1>3. PICK L \in 0 .. 3 : L = curr_leader[c] + 1
  BY <1>1, WaitingFacts
<1>4. /\ pending'[c][h].request = r
      /\ \A g \in Threads : g # h => pending'[c][g] = pending[c][g]
  BY <1>1, <1>2, <1>3, ConnectStarts
<1>5. InboxInv(c)'
  <2>1. pending[c][h] # None
    BY <1>1 DEF Waiting
  <2> QED
    BY <1>1, <1>2, <1>4, <2>1 DEF InboxInv
<1>6. ToldInv(c, h)'
  <2>1. curr_leader'[c] = L
    BY <1>1, <1>3 DEF RInv, RTypeOK
  <2>2. CASE L = 3
    BY <2>1, <2>2 DEF ToldInv, Waiting, Gone
  <2>3. CASE L # 3
    <3>1. curr_leader[c] \in 0 .. 3
      BY DEF RInv, RTypeOK
    <3>2. curr_leader[c] <= L /\ curr_leader[c] # L
      BY <1>3, <3>1
    <3>3. L \in Servers
      BY <2>3 DEF Servers
    <3>4. ~Executing(Awaited(c, h))'
      BY <1>1, <1>2, <1>3, <3>2, <3>3, FreshAnswer
    <3> QED
      BY <3>4 DEF ToldInv
  <2> QED
    BY <2>2, <2>3
<1>7. ASSUME NEW g \in Threads, g # h PROVE ToldInv(c, g)'
  <2>1. pending'[c][g] = None
    BY <1>1, <1>4, <1>7, OneWaits DEF Waiting
  <2> QED
    BY <2>1 DEF ToldInv, Waiting
<1> QED
  BY <1>5, <1>6, <1>7

\* The client shows what all that are up have, and more than it has shown before.
LEMMA AnswerShows ==
    ASSUME RInv, LeftServersDown, AInv, NEW c \in Clients, InboxInv(c),
           NEW h \in Threads, ToldInv(c, h), Answer(c, h)
    PROVE  /\ InboxInv(c)' /\ \A g \in Threads : ToldInv(c, g)'
           /\ pending[c][h].request.rpc = "ReceiveMessage" =>
                 num_messages'[c] >= num_messages[c] /\ num_messages'[c] >= acked[c]
<1> DEFINE w == Awaited(c, h)
           k == tasks[w]
           r == k.request
           L == curr_leader[c]
           d == db[L]
<1>1. /\ Waiting(c, h) /\ k # None /\ k.pc = "done" /\ Executing(w)
      /\ pending' = [pending EXCEPT ![c][h] = None]
      /\ UNCHANGED <<up, db>>
  BY DEF Answer, At, Executing, dbs, faults
<1>2. /\ L \in Servers /\ pending[c][h].at = L /\ up[L]
      /\ \A s \in Servers : up[s] => db[s] = d
  BY Settles
<1>3. pending[c][h] # None /\ r = pending[c][h].request /\ r.rpc \in Due(c, h)
  BY <1>1, WaitingFacts
<1>4. /\ pending'[c][h] = None
      /\ \A g \in Threads : g # h => pending'[c][g] = None
  <2>1. \A g \in Threads : g # h => pending[c][g] = None
    BY <1>3, OneWaits
  <2> QED
    BY <1>1, <2>1 DEF RInv, RTypeOK
<1>5. \A g \in Threads : ToldInv(c, g)' /\ pending'[c][g] = None
  BY <1>4 DEF ToldInv, Waiting
<1>6. stage[c] # "login" =>
         /\ num_messages[c] <= Len(d.messages[username[c]])
         /\ acked[c] <= Len(d.messages[username[c]])
  BY <1>2 DEF InboxInv
<1>7. /\ stage \in [Clients -> {"login", "home", "users", "chat"}]
      /\ username \in [Clients -> Names \cup {None}] /\ d \in Database
      /\ num_messages \in [Clients -> Nat] /\ acked \in [Clients -> Nat]
      /\ (h = "inbox" => stage[c] = "chat")
  BY <1>2, <1>3 DEF RInv, RTypeOK, ProgramInv
<1>8. CASE r.rpc \in {"Register", "Login"} /\ k.success
  <2>1. stage[c] = "login" /\ r.rpc # "ReceiveMessage" /\ r.rpc # "SendMessage"
    BY <1>3, <1>7, <1>8 DEF Due, Threads
  <2>2. num_messages[c] = 0 /\ acked[c] = 0
    BY <2>1 DEF InboxInv
  <2>3. /\ username' = [username EXCEPT ![c] = r.username]
        /\ stage' = [stage EXCEPT ![c] = "home"]
        /\ UNCHANGED <<num_messages, acked>>
    BY <1>8, <2>1 DEF Answer
  <2>4. r.username \in Names
    <3>1. r \in Asked
      BY <1>1, <1>3, WaitingFacts
    <3> QED
      BY <1>8, <3>1, RequestsAssumption DEF Asked, Credentials, Sendings, ReceiveMessage, GetUsers
  <2>5. \A s \in Servers : up'[s] => Len(db'[s].messages[username'[c]]) \in Nat
    <3>1. username'[c] = r.username
      BY <1>7, <2>3
    <3>2. d.messages[r.username] \in Seq(Message)
      BY <1>7, <2>4 DEF Database
    <3>3. Len(d.messages[r.username]) \in Nat
      <4>1. \A S : \A q \in Seq(S) : Len(q) \in Nat
        OBVIOUS
      <4> QED
        BY <3>2, <4>1, Zenon
    <3>4. \A s \in Servers : up'[s] => db'[s] = d
      BY <1>1, <1>2
    <3> QED
      BY <3>1, <3>3, <3>4
  <2> QED
    BY <1>3, <1>5, <2>1, <2>2, <2>3, <2>5 DEF InboxInv
<1>9. CASE ~(r.rpc \in {"Register", "Login"} /\ k.success)
  <2>1. /\ UNCHANGED username
        /\ num_messages' = IF r.rpc = "ReceiveMessage"
                           THEN [num_messages EXCEPT ![c] = k.chats] ELSE num_messages
        /\ acked' = IF r.rpc = "SendMessage" /\ k.success /\ r.receiver = username[c]
                    THEN [acked EXCEPT ![c] = @ + 1] ELSE acked
    BY <1>9 DEF Answer
  <2>2. stage'[c] = "login" <=> stage[c] = "login"
    <3>1. stage' = CASE stage[c] = "home"  -> [stage EXCEPT ![c] = "users"]
                     [] stage[c] = "users" -> [stage EXCEPT ![c] = "chat"]
                     [] OTHER              -> stage
      BY <1>9 DEF Answer
    <3> QED
      BY <1>7, <3>1
  <2>3. CASE stage[c] = "login"
    <3>1. r.rpc # "ReceiveMessage" /\ r.rpc # "SendMessage"
      BY <1>3, <1>7, <2>3 DEF Due, Threads
    <3>2. UNCHANGED <<num_messages, acked>>
      BY <2>1, <3>1
    <3> QED
      BY <1>3, <1>5, <2>2, <2>3, <3>1, <3>2 DEF InboxInv
  <2>4. CASE stage[c] # "login"
    <3> DEFINE n == Len(d.messages[username[c]])
    <3>1. username[c] \in Names /\ n \in Nat
      <4>1. username[c] \in Names
        BY <2>4 DEF RInv, ProgramInv
      <4> QED
        BY <1>7, <4>1 DEF Database
    <3>2. r.rpc = "ReceiveMessage" => k.chats = n
      <4>1. r.rpc = "ReceiveMessage" => r.username = username[c]
        BY <1>3 DEF InboxInv
      <4> QED
        BY <1>1, <1>2, <4>1 DEF ToldInv
    <3>3. r.rpc = "SendMessage" /\ k.success /\ r.receiver = username[c] => n > acked[c]
      BY <1>1, <1>2 DEF ToldInv
    <3>4. num_messages[c] \in Nat /\ acked[c] \in Nat /\ num_messages[c] <= n /\ acked[c] <= n
      BY <1>6, <1>7, <2>4
    <3> HIDE DEF n
    <3>5. num_messages'[c] = IF r.rpc = "ReceiveMessage" THEN n ELSE num_messages[c]
      BY <1>7, <2>1, <3>2
    <3>6. acked'[c] = acked[c] \/ (acked'[c] = acked[c] + 1 /\ n > acked[c])
      BY <1>7, <2>1, <3>3
    <3>7. num_messages'[c] <= n /\ acked'[c] <= n
      BY <3>1, <3>4, <3>5, <3>6
    <3>8. \A s \in Servers : up'[s] => Len(db'[s].messages[username'[c]]) = n
      BY <1>1, <1>2, <2>1 DEF n
    <3>9. InboxInv(c)'
      BY <1>5, <2>2, <2>4, <3>7, <3>8 DEF InboxInv
    <3> QED
      BY <1>3, <1>5, <3>4, <3>5, <3>9
  <2> QED
    BY <2>3, <2>4
<1> QED
  BY <1>8, <1>9

LEMMA LeaveAnswers ==
    ASSUME RInv, NEW c \in Clients, Leave(c)
    PROVE  InboxInv(c)' /\ \A g \in Threads : ToldInv(c, g)'
<1>1. /\ \A g \in Threads : pending'[c][g] = None
      /\ stage'[c] = "login" /\ num_messages'[c] = 0 /\ acked'[c] = 0
  BY DEF Leave, RInv, RTypeOK
<1> QED
  BY <1>1 DEF InboxInv, ToldInv, Waiting

LEMMA CrashAnswers ==
    ASSUME RInv, NEW c \in Clients, InboxInv(c), \A g \in Threads : ToldInv(c, g),
           NEW s \in Servers, Crash(s)
    PROVE  InboxInv(c)' /\ \A g \in Threads : ToldInv(c, g)'
<1>1. /\ UNCHANGED <<db, pending, curr_leader, stage, username, num_messages, acked>>
      /\ \A t \in Servers : up'[t] => up[t]
      /\ \A i \in Tasks : tasks'[i] = None \/ tasks'[i] = tasks[i]
  BY DEF Crash, dbs, clientvars, session, RInv, RTypeOK
<1>2. InboxInv(c)'
  BY <1>1, InboxKept
<1>3. ASSUME NEW g \in Threads PROVE ToldInv(c, g)'
  <2>1. (Waiting(c, g)' <=> Waiting(c, g)) /\ Awaited(c, g)' = Awaited(c, g)
    BY <1>1 DEF Waiting, Gone, Awaited
  <2>2. CASE Waiting(c, g)
    <3>1. Awaited(c, g) \in Tasks
      BY <2>2, WaitingFacts
    <3>2. Executing(Awaited(c, g))' => tasks'[Awaited(c, g)] = tasks[Awaited(c, g)]
      BY <1>1, <2>1, <3>1 DEF Executing, At
    <3> QED
      BY <1>1, <2>1, <2>2, <3>2, AnswerKept DEF Executing, At
  <2> QED
    BY <2>1, <2>2 DEF ToldInv
<1> QED
  BY <1>2, <1>3

\* No step of a handler disturbs what the service rests on.
LEMMA TaskService ==
    ASSUME RInv, LeftServersDown, AInv, AInv', NEW c \in Clients, Clients = {c},
           ServiceInv, NEW i \in Tasks, TaskStep(i)
    PROVE  ServiceInv'
<1>1. SentInv(c) /\ RetryInv(c) /\ InboxInv(c) /\ \A h \in Threads : ToldInv(c, h)
  BY DEF ServiceInv
<1>2. UNCHANGED <<up, pending, stage, username, num_messages, acked>>
  BY DEF TaskStep, Read, Lead, Call, Returned, Failed, EndReplay, Follow, Act, Store, Unheard,
         clientvars, session, faults
<1>3. InboxInv(c)'
  BY <1>1, <1>2, TaskDbs, InboxKept
<1>4. \A h \in Threads : ToldInv(c, h)'
  BY <1>1, TaskAnswers
<1>5. SentInv(c)' /\ RetryInv(c)'
  BY <1>1, TaskRetries
<1> QED
  BY <1>3, <1>4, <1>5 DEF ServiceInv

LEMMA StillService ==
    ASSUME RInv, AInv, AInv', NEW c \in Clients, Clients = {c}, ServiceInv, UNCHANGED rvars
    PROVE  ServiceInv' /\ CommonDb' = CommonDb
<1>1. SentInv(c) /\ RetryInv(c) /\ InboxInv(c) /\ \A h \in Threads : ToldInv(c, h)
  BY DEF ServiceInv
<1>2. UNCHANGED <<up, am_i_leader, db, counter, last_request, tasks, pending, curr_leader,
                  stage, username, num_messages, acked>>
  BY DEF rvars, servervars, dbs, clientvars, session, faults
<1>3. SentInv(c)' /\ RetryInv(c)' /\ CommonDb' = CommonDb
  BY <1>1, <1>2, Unsent
<1>4. InboxInv(c)'
  BY <1>1, <1>2, InboxKept
<1>5. \A h \in Threads : ToldInv(c, h)'
  BY <1>1, <1>2 DEF ToldInv, Waiting, Gone, Awaited, Executing, At
<1> QED
  BY <1>3, <1>4, <1>5 DEF ServiceInv

LEMMA CrashService ==
    ASSUME RInv, NEW c \in Clients, Clients = {c}, ServiceInv, NEW s \in Servers, Crash(s)
    PROVE  ServiceInv'
<1>1. SentInv(c) /\ RetryInv(c) /\ InboxInv(c) /\ \A h \in Threads : ToldInv(c, h)
  BY DEF ServiceInv
<1>2. SentInv(c)' /\ RetryInv(c)'
  BY <1>1, CrashRetries
<1>3. InboxInv(c)' /\ \A h \in Threads : ToldInv(c, h)'
  BY <1>1, CrashAnswers
<1> QED
  BY <1>2, <1>3 DEF ServiceInv

LEMMA AskService ==
    ASSUME RInv, AInv, AInv', NEW c \in Clients, Clients = {c}, ServiceInv,
           NEW h \in Threads, NEW r \in Asked, Ask(c, h, r),
           r.rpc = "ReceiveMessage" => r.username = username[c]
    PROVE  ServiceInv' /\ CommonDb' = CommonDb
<1>1. SentInv(c) /\ RetryInv(c) /\ InboxInv(c) /\ \A g \in Threads : ToldInv(c, g)
  BY DEF ServiceInv
<1>2. SentInv(c)' /\ RetryInv(c)' /\ CommonDb' = CommonDb
  BY <1>1, AskRetries
<1>3. InboxInv(c)' /\ \A g \in Threads : ToldInv(c, g)'
  BY <1>1, AskAnswers
<1> QED
  BY <1>2, <1>3 DEF ServiceInv

LEMMA FailOverService ==
    ASSUME Settled, RInv, LeftServersDown, AInv, AInv', NEW c \in Clients, Clients = {c},
           ServiceInv, NEW h \in Threads, FailOver(c, h)
    PROVE  ServiceInv' /\ CommonDb' = CommonDb
<1>1. SentInv(c) /\ RetryInv(c) /\ InboxInv(c) /\ \A g \in Threads : ToldInv(c, g)
  BY DEF ServiceInv
<1>2. SentInv(c)' /\ RetryInv(c)' /\ CommonDb' = CommonDb
  BY <1>1, FailOverRetries
<1>3. InboxInv(c)' /\ \A g \in Threads : ToldInv(c, g)'
  BY <1>1, FailOverAnswers
<1> QED
  BY <1>2, <1>3 DEF ServiceInv

LEMMA AnswerService ==
    ASSUME RInv, LeftServersDown, AInv, AInv', NEW c \in Clients, Clients = {c},
           ServiceInv, NEW h \in Threads, Answer(c, h)
    PROVE  ServiceInv' /\ CommonDb' = CommonDb
<1>1. SentInv(c) /\ RetryInv(c) /\ InboxInv(c) /\ \A g \in Threads : ToldInv(c, g)
  BY DEF ServiceInv
<1>2. SentInv(c)' /\ RetryInv(c)' /\ CommonDb' = CommonDb
  BY <1>1, AnswerRetries
<1>3. InboxInv(c)' /\ \A g \in Threads : ToldInv(c, g)'
  BY <1>1, AnswerShows
<1> QED
  BY <1>2, <1>3 DEF ServiceInv

LEMMA LeaveService ==
    ASSUME RInv, AInv, AInv', NEW c \in Clients, Clients = {c}, ServiceInv, Leave(c)
    PROVE  ServiceInv' /\ CommonDb' = CommonDb
<1>1. SentInv(c) /\ RetryInv(c)
  BY DEF ServiceInv
<1>2. UNCHANGED <<up, am_i_leader, db, counter, last_request, tasks, pending>>
  BY DEF Leave, servervars, dbs, faults
<1>3. SentInv(c)' /\ RetryInv(c)' /\ CommonDb' = CommonDb
  BY <1>1, <1>2, Unsent
<1>4. InboxInv(c)' /\ \A g \in Threads : ToldInv(c, g)'
  BY LeaveAnswers
<1> QED
  BY <1>3, <1>4 DEF ServiceInv

\* What a program asks for.
LEMMA Askings ==
    ASSUME RInv, NEW c \in Clients,
           Homepage(c) \/ ListUsers(c) \/ Poll(c) \/ \E r \in Requests : Issue(c, r)
    PROVE  \E h \in Threads, q \in Asked :
              /\ Ask(c, h, q)
              /\ q.rpc = "ReceiveMessage" => q.username = username[c]
              /\ q.rpc = "SendMessage" => q.sender = username[c]
<1>1. ASSUME NEW r \in Requests
      PROVE  r \in Asked /\ r.rpc # "ReceiveMessage"
  BY RequestsAssumption DEF Asked, Credentials, Sendings
<1>2. CASE \E r \in Requests : Issue(c, r)
  <2>1. PICK r \in Requests : Issue(c, r)
    BY <1>2
  <2>2. Ask(c, "main", r) /\ "main" \in Threads /\ (r.rpc = "SendMessage" => r.sender = username[c])
    BY <2>1 DEF Issue, AskLocked, Threads
  <2> QED
    BY <1>1, <2>2
<1>3. CASE ListUsers(c)
  <2>1. Ask(c, "main", GetUsers) /\ "main" \in Threads /\ GetUsers \in Asked
    BY <1>3 DEF ListUsers, Threads, Asked
  <2>2. GetUsers.rpc = "GetUsers"
    BY DEF GetUsers
  <2> QED
    BY <2>1, <2>2
<1>4. CASE Homepage(c) \/ Poll(c)
  <2> DEFINE q == ReceiveMessage(username[c])
  <2>1. PICK h \in Threads : Ask(c, h, q)
    BY <1>4 DEF Homepage, Poll, AskLocked, Threads
  <2>2. q \in Asked
    BY <1>4, InboxRequest DEF Homepage, Poll
  <2>3. q.rpc = "ReceiveMessage" /\ q.username = username[c]
    BY DEF ReceiveMessage
  <2> QED
    BY <2>1, <2>2, <2>3
<1> QED
  BY <1>2, <1>3, <1>4

\* The steps there are when servers are not started again and no answer is late.
LEMMA Steps ==
    ASSUME MaxRestarts = 0, MaxTimeOuts = 0, RInv, NEW c, Clients = {c}, RNext
    PROVE  \/ \E i \in Tasks : TaskStep(i)
           \/ Homepage(c) \/ ListUsers(c) \/ Poll(c) \/ \E r \in Requests : Issue(c, r)
           \/ \E h \in Threads : FailOver(c, h) \/ Answer(c, h)
           \/ Leave(c)
           \/ \E s \in Servers : Crash(s)
<1>1. ASSUME NEW h \in Threads PROVE ~TimeOut(c, h)
  BY DEF TimeOut, RInv, RTypeOK
<1>2. ASSUME NEW s \in Servers PROVE ~Restart(s)
  BY DEF Restart, RInv, RTypeOK
<1>3. c \in Clients /\ \A d \in Clients : d = c
  OBVIOUS
<1> QED
  BY <1>1, <1>2, <1>3 DEF RNext, ClientStep, ThreadStep

LEMMA NextServes ==
    ASSUME Settled, MaxRestarts = 0, MaxTimeOuts = 0, NEW c, Clients = {c},
           RInv, LeftServersDown, AInv, AInv', ServiceInv, [RNext]_rvars
    PROVE  ServiceInv'
<1>1. c \in Clients
  OBVIOUS
<1>2. CASE UNCHANGED rvars
  BY <1>1, <1>2, StillService
<1>3. ASSUME NEW i \in Tasks, TaskStep(i) PROVE ServiceInv'
  BY <1>1, <1>3, TaskService
<1>4. CASE Homepage(c) \/ ListUsers(c) \/ Poll(c) \/ \E r \in Requests : Issue(c, r)
  BY <1>1, <1>4, Askings, AskService
<1>5. ASSUME NEW h \in Threads, FailOver(c, h) \/ Answer(c, h) PROVE ServiceInv'
  BY <1>1, <1>5, FailOverService, AnswerService
<1>6. CASE Leave(c)
  BY <1>1, <1>6, LeaveService
<1>7. ASSUME NEW s \in Servers, Crash(s) PROVE ServiceInv'
  BY <1>1, <1>7, CrashService
<1> QED
  BY <1>2, <1>3, <1>4, <1>5, <1>6, <1>7, Steps

LEMMA StartsServing == RInit => ServiceInv
<1> SUFFICES ASSUME RInit, NEW c \in Clients
             PROVE  /\ SentInv(c) /\ RetryInv(c) /\ InboxInv(c)
                    /\ \A h \in Threads : ToldInv(c, h)
  BY DEF ServiceInv
<1>1. /\ \A i \in Tasks : tasks[i] = None
      /\ \A h \in Threads : pending[c][h] = None
      /\ stage[c] = "login" /\ num_messages[c] = 0 /\ acked[c] = 0
  BY DEF RInit
<1>2. SentInv(c)
  <2>1. \A s \in Servers : \A t \in Later(s) : tasks[Child(c, s, t)] = None
    BY <1>1, ChildName
  <2> QED
    BY <2>1 DEF SentInv, At
<1>3. RetryInv(c)
  BY <1>1 DEF RetryInv, Changing, Threads
<1>4. InboxInv(c) /\ \A h \in Threads : ToldInv(c, h)
  BY <1>1 DEF InboxInv, ToldInv, Waiting
<1> QED
  BY <1>2, <1>3, <1>4

\* What the service of the replicas and the inbox of the client rest on.
THEOREM ServiceInvariance ==
    ASSUME Settled, MaxRestarts = 0, MaxTimeOuts = 0, NEW c, Clients = {c}
    PROVE  RSpec => []ServiceInv
<1>1. RInit => ServiceInv
  BY StartsServing
<1>2. ASSUME RInv, LeftServersDown, AInv, AInv', ServiceInv, [RNext]_rvars PROVE ServiceInv'
  BY <1>2, NextServes
<1>3. RSpec => []AInv
  BY AgreementInvariance
<1> QED
  BY <1>1, <1>2, <1>3, RInvariance, LeftInvariance, PTL DEF RSpec

\* However often the client has to change servers, no message that it has shown is
\* missing from the inbox it shows next, and none that was acknowledged to it
\* (receive_messages and send_request, chat262-replication/client.py).
THEOREM InboxGrows ==
    ASSUME Settled, MaxRestarts = 0, MaxTimeOuts = 0, NEW d, Clients = {d}
    PROVE  RSpec => InboxNeverShrinks
<1>1. RInv /\ LeftServersDown /\ AInv /\ ServiceInv =>
         [\A c \in Clients, h \in Threads :
             Answer(c, h) /\ pending[c][h].request.rpc = "ReceiveMessage" =>
                num_messages'[c] >= num_messages[c] /\ num_messages'[c] >= acked[c]]_rvars
  BY AnswerShows DEF ServiceInv
<1>2. RSpec => []AInv
  BY AgreementInvariance
<1>3. RSpec => []ServiceInv
  BY ServiceInvariance
<1> QED
  BY <1>1, <1>2, <1>3, RInvariance, LeftInvariance, PTL DEF InboxNeverShrinks

-----------------------------------------------------------------------------
(***************************************************************************)
(* The replicas implement OneServer.                                       *)
(***************************************************************************)

\* OneServer is about the same requests and what they do to a database.
LEMMA SameNames == Promise!Threads = Threads /\ Promise!Asked = Asked /\ Promise!EmptyDb = EmptyDb
<1>1. Promise!Threads = Threads
  BY DEF Promise!Threads, Threads
<1>2. Promise!Asked = Asked
  BY DEF Promise!Asked, Asked, Promise!ReceiveMessage, ReceiveMessage, Promise!GetUsers, GetUsers
<1>3. Promise!EmptyDb = EmptyDb
  BY DEF Promise!EmptyDb, EmptyDb
<1> QED
  BY <1>1, <1>2, <1>3

LEMMA SameAccepts == ASSUME NEW d, NEW r PROVE Promise!Accepts(d, r) <=> Accepts(d, r)
  BY DEF Promise!Accepts, Accepts

LEMMA SameExecuted == ASSUME NEW d, NEW r PROVE Promise!Executed(d, r) = Executed(d, r)
<1>1. Promise!ReadOnly = ReadOnly
  BY DEF Promise!ReadOnly, ReadOnly
<1> QED
  BY <1>1, SameAccepts DEF Promise!Executed, Executed

LEMMA SameReflects == ASSUME NEW d, NEW r PROVE Promise!Reflects(d, r) <=> Reflects(d, r)
<1>1. Promise!ReadOnly = ReadOnly
  BY DEF Promise!ReadOnly, ReadOnly
<1> QED
  BY <1>1, SameAccepts DEF Promise!Reflects, Reflects

LEMMA AskingIs ==
    ASSUME NEW c \in Clients, NEW h \in Threads
    PROVE  /\ Asking[c][h] = IF pending[c][h] = None THEN None ELSE pending[c][h].request
           /\ Asking'[c][h] = IF pending'[c][h] = None THEN None ELSE pending'[c][h].request
BY DEF Asking

LEMMA SameAsking ==
    ASSUME \A c \in Clients, h \in Threads :
              /\ pending'[c][h] = None <=> pending[c][h] = None
              /\ pending[c][h] # None => pending'[c][h].request = pending[c][h].request
    PROVE  Asking' = Asking
BY DEF Asking

LEMMA AskingChanges ==
    ASSUME NEW c \in Clients, Clients = {c}, NEW h \in Threads, NEW q,
           q = IF pending'[c][h] = None THEN None ELSE pending'[c][h].request,
           \A g \in Threads : g # h => pending'[c][g] = pending[c][g]
    PROVE  Asking' = [Asking EXCEPT ![c][h] = q]
<1> DEFINE line(p) == [g \in Threads |-> IF p[c][g] = None THEN None ELSE p[c][g].request]
<1>1. Asking = [d \in Clients |-> line(pending)] /\ Asking' = [d \in Clients |-> line(pending')]
  BY DEF Asking
<1>2. line(pending') = [line(pending) EXCEPT ![h] = q]
  OBVIOUS
<1> HIDE DEF line
<1>3. [Asking EXCEPT ![c][h] = q] = [d \in Clients |-> [line(pending) EXCEPT ![h] = q]]
  BY <1>1
<1> QED
  BY <1>1, <1>2, <1>3

\* A request that is waited for is one.
LEMMA Asks ==
    ASSUME RInv, NEW c \in Clients, NEW h \in Threads, pending[c][h] # None
    PROVE  /\ Asking[c][h] = pending[c][h].request /\ Asking[c][h] # None
           /\ pending[c][h].request \in Asked
<1>1. pending[c][h] \in [request : Asked, at : 0..3]
  BY DEF RInv, RTypeOK
<1>2. Asking[c][h] = pending[c][h].request
  BY AskingIs
<1> QED
  BY <1>1, <1>2, NoDataAssumption

\* What serves the client is a step of OneServer, or none.
LEMMA ServedIsPromised ==
    ASSUME RInv, NEW c \in Clients, Served(c), UNCHANGED <<pending, username, num_messages>>
    PROVE  [Promise!ONext]_(Promise!ovars)
<1>1. Asking' = Asking
  BY SameAsking
<1>2. CASE CommonDb' = CommonDb
  BY <1>1, <1>2 DEF Promise!ovars
<1>3. CASE CommonDb' = None
  <2>1. Promise!Fail
    BY <1>1, <1>3 DEF Promise!Fail
  <2> QED
    BY <2>1 DEF Promise!ONext
<1>4. CASE /\ pending[c]["main"] # None /\ CommonDb # None
           /\ CommonDb' = Executed(CommonDb, pending[c]["main"].request)
  <2>1. "main" \in Threads
    BY DEF Threads
  <2>2. Asking[c]["main"] = pending[c]["main"].request /\ Asking[c]["main"] # None
    BY <1>4, <2>1, Asks
  <2>3. CommonDb' = Promise!Executed(CommonDb, Asking[c]["main"])
    <3>1. CommonDb' = Executed(CommonDb, Asking[c]["main"])
      BY <1>4, <2>2
    <3> QED
      BY <3>1, SameExecuted
  <2>4. Promise!Execute(c, "main")
    BY <1>1, <1>4, <2>2, <2>3 DEF Promise!Execute
  <2> QED
    BY <2>1, <2>4, SameNames DEF Promise!ONext
<1> QED
  BY <1>2, <1>3, <1>4 DEF Served

\* A program asks when it waits for nothing.
LEMMA AsksAlone ==
    ASSUME RInv, NEW c \in Clients,
           Homepage(c) \/ ListUsers(c) \/ Poll(c) \/ \E r \in Requests : Issue(c, r)
    PROVE  \A g \in Threads : pending[c][g] = None
<1>1. \A g \in Threads : pending[c][g] # None =>
         /\ g = "inbox" => stage[c] = "chat"
         /\ stage[c] = "chat" => chat_stub_lock[c] = g
  BY DEF RInv, ProgramInv
<1>2. CASE stage[c] = "chat"
  <2>1. chat_stub_lock[c] = None
    BY <1>2 DEF Homepage, ListUsers, Poll, Issue, AskLocked
  <2>2. None \notin Threads
    BY NoTaskAssumption
  <2> QED
    BY <1>1, <1>2, <2>1, <2>2
<1>3. CASE stage[c] # "chat"
  <2>1. pending[c]["main"] = None
    BY <1>3 DEF Homepage, ListUsers, Poll, Issue, AskLocked, Ask
  <2> QED
    BY <1>1, <1>3, <2>1 DEF Threads
<1> QED
  BY <1>2, <1>3

LEMMA AskIsPromised ==
    ASSUME RInv, NEW c \in Clients, Clients = {c}, CommonDb' = CommonDb,
           NEW h \in Threads, NEW q \in Asked, Ask(c, h, q),
           q.rpc = "ReceiveMessage" => q.username = username[c],
           q.rpc = "SendMessage" => q.sender = username[c],
           \A g \in Threads : pending[c][g] = None
    PROVE  [Promise!ONext]_(Promise!ovars)
<1>1. PICK L \in 0 .. 3 : L = curr_leader[c]
  BY DEF RInv, RTypeOK
<1>2. Connect(c, h, q, L) /\ UNCHANGED <<username, num_messages>>
  BY <1>1 DEF Ask
<1>3. /\ pending'[c][h] # None /\ pending'[c][h].request = q
      /\ \A g \in Threads : g # h => pending'[c][g] = pending[c][g]
  BY <1>2, ConnectStarts
<1>4. Asking' = [Asking EXCEPT ![c][h] = q]
  BY <1>3, AskingChanges
<1>5. \A g \in Threads : Asking[c][g] = None
  BY AskingIs
<1>6. Promise!Ask(c, h, q)
  BY <1>2, <1>4, <1>5, SameNames DEF Promise!Ask
<1> QED
  BY <1>6, SameNames DEF Promise!ONext

LEMMA FailOverIsPromised ==
    ASSUME RInv, NEW c \in Clients, Clients = {c}, CommonDb' = CommonDb,
           NEW h \in Threads, FailOver(c, h)
    PROVE  [Promise!ONext]_(Promise!ovars)
<1>1. /\ Waiting(c, h) /\ Connect(c, h, pending[c][h].request, curr_leader[c] + 1)
      /\ UNCHANGED <<username, num_messages>>
  BY DEF FailOver, TryNext, session
<1>2. PICK r \in Asked : r = pending[c][h].request
  BY <1>1, WaitingFacts
<1>3. PICK L \in 0 .. 3 : L = curr_leader[c] + 1
  BY <1>1, WaitingFacts
<1>4. /\ pending'[c][h] # None /\ pending'[c][h].request = r
      /\ \A g \in Threads : g # h => pending'[c][g] = pending[c][g]
  BY <1>1, <1>2, <1>3, ConnectStarts
<1>5. Asking' = Asking
  BY <1>1, <1>2, <1>4, SameAsking DEF Waiting
<1> QED
  BY <1>1, <1>5 DEF Promise!ovars

LEMMA AnswerIsPromised ==
    ASSUME RInv, LeftServersDown, AInv, NEW c \in Clients, Clients = {c}, CommonDb' = CommonDb,
           NEW h \in Threads, ToldInv(c, h), Answer(c, h)
    PROVE  [Promise!ONext]_(Promise!ovars)
<1> DEFINE k == tasks[Awaited(c, h)]
           r == pending[c][h].request
           d == db[curr_leader[c]]
<1>1. /\ Waiting(c, h) /\ k # None /\ k.pc = "done" /\ Executing(Awaited(c, h))
      /\ pending' = [pending EXCEPT ![c][h] = None]
  BY DEF Answer, At, Executing
<1>2. /\ curr_leader[c] \in Servers /\ pending[c][h].at = curr_leader[c] /\ up[curr_leader[c]]
      /\ \A s \in Servers : up[s] => db[s] = d
  BY Settles
<1>3. pending[c][h] # None /\ k.request = r /\ r \in Asked
  BY <1>1, WaitingFacts
<1>4. CommonDb = d /\ CommonDb # None
  <2>1. PICK s \in Servers : Current(s)
    BY <1>2, SomeCurrent DEF AInv
  <2> QED
    BY <1>2, <2>1, SomeDb
<1>5. Reflects(d, r)
  BY <1>2, AnswerHeld
<1>6. /\ pending'[c][h] = None
      /\ \A g \in Threads : g # h => pending'[c][g] = pending[c][g]
  BY <1>1 DEF RInv, RTypeOK
<1>7. Asking' = [Asking EXCEPT ![c][h] = None]
  BY <1>6, AskingChanges
<1>8. Asking[c][h] = r /\ Asking[c][h] # None
  BY <1>3, Asks
<1>9. Promise!Enter(c, r)
  <2>1. CASE r.rpc \in {"Register", "Login"} /\ k.success
    <3>1. username' = [username EXCEPT ![c] = r.username]
      BY <1>3, <2>1 DEF Answer
    <3>2. d.passwords[r.username] = r.password
      BY <1>1, <1>2, <1>3, <2>1 DEF ToldInv, Accepts
    <3> QED
      BY <1>4, <2>1, <3>1, <3>2 DEF Promise!Enter
  <2>2. CASE ~(r.rpc \in {"Register", "Login"} /\ k.success)
    <3>1. UNCHANGED username
      BY <1>3, <2>2 DEF Answer
    <3>2. r.rpc = "Login" => ~Accepts(d, r)
      BY <1>1, <1>2, <1>3, <2>2 DEF ToldInv
    <3>3. r.rpc = "Login" => ~Promise!Accepts(CommonDb, r)
      BY <1>4, <3>2, SameAccepts
    <3> QED
      BY <3>1, <3>3 DEF Promise!Enter
  <2> QED
    BY <2>1, <2>2
<1>10. num_messages' = IF r.rpc = "ReceiveMessage"
                       THEN [num_messages EXCEPT ![c] = Len(CommonDb.messages[r.username])]
                       ELSE num_messages
  <2>1. r.rpc = "ReceiveMessage" => k.chats = Len(CommonDb.messages[r.username])
    BY <1>1, <1>2, <1>3, <1>4 DEF ToldInv
  <2>2. num_messages' = IF r.rpc = "ReceiveMessage"
                        THEN [num_messages EXCEPT ![c] = k.chats] ELSE num_messages
    BY <1>3 DEF Answer
  <2> QED
    BY <2>1, <2>2
<1>11. Promise!Reflects(CommonDb, r)
  BY <1>4, <1>5, SameReflects
<1>12. Promise!Answer(c, h)
  BY <1>4, <1>7, <1>8, <1>9, <1>10, <1>11 DEF Promise!Answer
<1> QED
  BY <1>12, SameNames DEF Promise!ONext

LEMMA LeaveIsPromised ==
    ASSUME RInv, NEW c \in Clients, CommonDb' = CommonDb, Leave(c)
    PROVE  [Promise!ONext]_(Promise!ovars)
<1>1. /\ \A h \in Threads : pending[c][h] = None
      /\ username' = [username EXCEPT ![c] = None]
      /\ num_messages' = [num_messages EXCEPT ![c] = 0]
      /\ UNCHANGED pending
  BY DEF Leave
<1>2. Asking' = Asking
  BY <1>1, SameAsking
<1>3. \A h \in Threads : Asking[c][h] = None
  BY <1>1, AskingIs
<1>4. Promise!Leave(c)
  BY <1>1, <1>2, <1>3, SameNames DEF Promise!Leave
<1> QED
  BY <1>4 DEF Promise!ONext

LEMMA NextIsPromised ==
    ASSUME Settled, MaxRestarts = 0, MaxTimeOuts = 0, NEW c, Clients = {c},
           RInv, LeftServersDown, AInv, AInv', ServiceInv, [RNext]_rvars
    PROVE  [Promise!ONext]_(Promise!ovars)
<1>1. c \in Clients
  OBVIOUS
<1>2. SentInv(c) /\ RetryInv(c) /\ \A h \in Threads : ToldInv(c, h)
  BY <1>1 DEF ServiceInv
<1>3. CASE UNCHANGED rvars
  <2>1. UNCHANGED <<pending, username, num_messages>>
    BY <1>3 DEF rvars, clientvars, session
  <2>2. Served(c)
    BY <1>1, <1>3, StillService DEF Served
  <2> QED
    BY <1>1, <2>1, <2>2, ServedIsPromised
<1>4. ASSUME NEW i \in Tasks, TaskStep(i) PROVE [Promise!ONext]_(Promise!ovars)
  <2>1. UNCHANGED <<pending, username, num_messages>>
    BY <1>4 DEF TaskStep, Read, Lead, Call, Returned, Failed, EndReplay, Follow, Act, Store,
                Unheard, clientvars, session
  <2>2. Served(c)
    BY <1>1, <1>2, <1>4, TaskServes
  <2> QED
    BY <1>1, <2>1, <2>2, ServedIsPromised
<1>5. CASE Homepage(c) \/ ListUsers(c) \/ Poll(c) \/ \E r \in Requests : Issue(c, r)
  <2>1. PICK h \in Threads, q \in Asked :
           /\ Ask(c, h, q)
           /\ q.rpc = "ReceiveMessage" => q.username = username[c]
           /\ q.rpc = "SendMessage" => q.sender = username[c]
    BY <1>1, <1>5, Askings
  <2>2. CommonDb' = CommonDb
    BY <1>1, <1>2, <2>1, AskRetries
  <2>3. \A g \in Threads : pending[c][g] = None
    BY <1>1, <1>5, AsksAlone
  <2> QED
    BY <1>1, <2>1, <2>2, <2>3, AskIsPromised
<1>6. ASSUME NEW h \in Threads, FailOver(c, h) PROVE [Promise!ONext]_(Promise!ovars)
  BY <1>1, <1>2, <1>6, FailOverRetries, FailOverIsPromised
<1>7. ASSUME NEW h \in Threads, Answer(c, h) PROVE [Promise!ONext]_(Promise!ovars)
  BY <1>1, <1>2, <1>7, AnswerRetries, AnswerIsPromised
<1>8. CASE Leave(c)
  BY <1>1, <1>8, LeaveService, LeaveIsPromised
<1>9. ASSUME NEW s \in Servers, Crash(s) PROVE [Promise!ONext]_(Promise!ovars)
  <2>1. UNCHANGED <<pending, username, num_messages>>
    BY <1>9 DEF Crash, clientvars, session
  <2>2. Served(c)
    BY <1>1, <1>2, <1>9, CrashServes
  <2> QED
    BY <1>1, <2>1, <2>2, ServedIsPromised
<1> QED
  BY <1>3, <1>4, <1>5, <1>6, <1>7, <1>8, <1>9, Steps

LEMMA StartsPromised == RInit => Promise!OInit
<1> SUFFICES ASSUME RInit PROVE Promise!OInit
  OBVIOUS
<1>1. /\ up = [s \in Servers |-> TRUE] /\ am_i_leader = [s \in Servers |-> s = 0]
      /\ db = [s \in Servers |-> EmptyDb] /\ \A i \in Tasks : tasks[i] = None
      /\ pending = [c \in Clients |-> [h \in Threads |-> None]]
      /\ username = [c \in Clients |-> None] /\ num_messages = [c \in Clients |-> 0]
  BY DEF RInit
<1>2. 0 \in Servers /\ up[0] /\ am_i_leader[0]
  <2>1. 0 \in Servers
    BY DEF Servers
  <2> QED
    BY <1>1, <2>1
<1>3. ~Replaying(0)
  <2>1. \A c \in Clients : tasks[Root(c, 0)] = None
    BY <1>1, <1>2, RootName
  <2> QED
    BY <2>1 DEF Replaying, InTheLoop, At
<1>4. Current(0)
  BY <1>2, <1>3 DEF Current
<1>5. CommonDb = EmptyDb
  <2>1. RolesInv
    BY StartsAgreed DEF AInv
  <2>2. CommonDb = db[0]
    BY <1>2, <1>4, <2>1, CommonIs
  <2> QED
    BY <1>1, <1>2, <2>2
<1>6. Asking = [c \in Clients |-> [h \in Threads |-> None]]
  BY <1>1 DEF Asking
<1> QED
  BY <1>1, <1>5, <1>6, SameNames DEF Promise!OInit

\* The replicated servers and their client (chat262-replication/server.py, client.py)
\* implement OneServer: while servers fail by stopping, in any order and at any moment,
\* what the client is told is true of a single database, which loses nothing until the
\* last server has stopped.
THEOREM ReplicasImplementOneServer ==
    ASSUME Settled, MaxRestarts = 0, MaxTimeOuts = 0, NEW c, Clients = {c}
    PROVE  RSpec => ImplementsOneServer
<1>1. RInit => Promise!OInit
  BY StartsPromised
<1>2. ASSUME RInv, LeftServersDown, AInv, AInv', ServiceInv, [RNext]_rvars
      PROVE  [Promise!ONext]_(Promise!ovars)
  BY <1>2, NextIsPromised
<1>3. RSpec => []AInv
  BY AgreementInvariance
<1>4. RSpec => []ServiceInv
  BY ServiceInvariance
<1> QED
  BY <1>1, <1>2, <1>3, <1>4, RInvariance, LeftInvariance, PTL
     DEF RSpec, ImplementsOneServer, Promise!OSpec
====
