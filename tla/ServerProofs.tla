---------------------------- MODULE ServerProofs ----------------------------
(***************************************************************************)
(* What is proved of Server for any number of connections and any data.    *)
(***************************************************************************)
EXTENDS Server, DatabaseProofs

\* What the fields of a request hold, by its type.
LEMMA RequestFields ==
    ASSUME NEW r \in Requests
    PROVE  /\ r.type = "login" => r.username \in Names /\ r.password \in Passwords
           /\ r.type = "registration" => /\ r.username \in Names \cup {Invalid}
                                         /\ r.password \in Passwords \cup {Invalid}
           /\ r.type = "send_txt" => r.username \in Names /\ r.txt \in Contents
           /\ r.type = "recv_txt" => r.username \in Names
<1>1. CASE r \in [type : {"registration"}, username : Names \cup {Invalid},
                                           password : Passwords \cup {Invalid}]
  BY <1>1
<1>2. CASE r \in [type : {"login"}, username : Names, password : Passwords]
  BY <1>2
<1>3. CASE r \in [type : {"send_txt"}, username : Names, txt : Contents]
  BY <1>3
<1>4. CASE r \in [type : {"recv_txt"}, username : Names]
  BY <1>4
<1>5. CASE r \in [type : {"logout", "accounts", "correspondents", "delete"} \cup Malformed]
  BY <1>5 DEF Malformed
<1> QED
  BY <1>1, <1>2, <1>3, <1>4, <1>5 DEF Requests

\* The method of a request that got this far is a call DBNext allows, or a read.
LEMMA MethodIsCall ==
    ASSUME SInv, ~terminated, NEW t \in Threads, pc[t] = "call",
           NEW s \in Status, Method(t, req[t], s)
    PROVE  [DBNext]_dbvars
<1> DEFINE r == req[t]
<1>1. /\ r \in Requests
      /\ r.type = "registration" => r.username \in Names /\ r.password \in Passwords
  BY DEF SInv, RequestInv
<1>2. /\ r.type = "login" => r.username \in Names /\ r.password \in Passwords
      /\ r.type = "send_txt" => r.username \in Names /\ r.txt \in Contents
      /\ r.type = "recv_txt" => r.username \in Names
  BY <1>1, RequestFields
<1> HIDE DEF r
<1>3. \/ UNCHANGED dbvars
      \/ logout(t, s)
      \/ delete_user(t, s)
      \/ get_correspondents(t, s)
      \/ \E n \in Names : recv_txt(t, n, s)
      \/ \E n \in Names, pw \in Passwords : login(t, n, pw, s)
      \/ \E n \in Names, pw \in Passwords : registration(n, pw, s)
      \/ \E n \in Names, txt \in Contents : send_txt(t, n, txt, s)
  BY <1>1, <1>2 DEF Method, r
<1> QED
  BY <1>3 DEF DBNext, Call

\* Whatever a connection does is one call of a method, or nothing, to the database.
LEMMA StepIsCall ==
    ASSUME SInv, [SNext]_svars
    PROVE  [DBNext]_dbvars
<1>1. CASE UNCHANGED svars
  BY <1>1 DEF svars
<1>2. CASE SNext
  <2>1. PICK t \in Threads : Work(t) \/ Peer(t)
    BY <1>2 DEF SNext
  <2>2. ~terminated
    BY <2>1 DEF Work, Peer
  <2>3. ASSUME NEW s \in Status, logout(t, s) PROVE DBNext
    BY <2>2, <2>3 DEF DBNext, Call
  <2>4. CASE CallMethod(t)
    BY <2>2, <2>4, MethodIsCall DEF CallMethod
  <2>5. CASE LogoutPrevious(t) \/ Close(t)
    BY <2>3, <2>5 DEF LogoutPrevious, Close
  <2>6. CASE Guard(t) \/ Send(t) \/ SendFails(t)
    BY <2>6 DEF Guard, Send, SendFails
  <2>7. CASE Peer(t)
    BY <2>7 DEF Peer, Accept, Disconnect, Receive
  <2> QED
    BY <2>1, <2>4, <2>5, <2>6, <2>7 DEF Work
<1> QED
  BY <1>1, <1>2
-----------------------------------------------------------------------------
(***************************************************************************)
(* The invariant of the connections.                                       *)
(***************************************************************************)

\* The conjuncts of SInv that the connections' own variables can disturb.
ConnInv ==
    /\ pc \in [Threads -> Pc]
    /\ req \in [Threads -> Requests \cup {NoRequest}]
    /\ status \in [Threads -> Codes]
    /\ RequestInv
    /\ FreshThreadsLoggedOut
    /\ GuardStillHolds

\* A method touches the session of the calling thread only, and none at all when
\* it ends the process.
LEMMA MethodIsLocal ==
    ASSUME TypeOK, NEW t \in Threads, NEW r, NEW s \in Status, Method(t, r, s)
    PROVE  /\ \A x \in Threads : x # t => threads'[x] = threads[x]
           /\ s = thrown => UNCHANGED threads
<1>1. CASE registration(r.username, r.password, s)
  BY <1>1 DEF registration, dbvars, error, ok, thrown
<1>2. CASE login(t, r.username, r.password, s)
  BY <1>2 DEF login, TypeOK, error, ok, thrown
<1>3. CASE logout(t, s)
  BY <1>3 DEF logout, TypeOK, error, ok, thrown
<1>4. CASE s = ok /\ UNCHANGED dbvars
  BY <1>4 DEF dbvars, ok, thrown
<1>5. CASE send_txt(t, r.username, r.txt, s)
  BY <1>5 DEF send_txt, dbvars, Terminate
<1>6. CASE recv_txt(t, r.username, s)
  BY <1>6 DEF recv_txt, dbvars, Terminate
<1>7. CASE get_correspondents(t, s)
  BY <1>7 DEF get_correspondents, dbvars, Terminate
<1>8. CASE delete_user(t, s)
  BY <1>8 DEF delete_user, dbvars, Terminate, Erase, TypeOK, error, ok, thrown
<1> QED
  BY <1>1, <1>2, <1>3, <1>4, <1>5, <1>6, <1>7, <1>8 DEF Method

\* A thread that goes elsewhere, with its request and status, while the sessions
\* of the others stay as they are.
LEMMA ConnStep ==
    ASSUME ConnInv, NEW t \in Threads, NEW l \in Pc, Goto(t, l),
           \/ UNCHANGED req
           \/ \E r \in Requests \cup {NoRequest} : req' = [req EXCEPT ![t] = r],
           UNCHANGED status \/ \E c \in Codes : status' = [status EXCEPT ![t] = c],
           \A x \in Threads : x # t => threads'[x] = threads[x],
           l = "logout" => req'[t].type = "login",
           l \in {"guard", "logout", "call"} => req'[t] \in Requests,
           l = "guard" => req'[t].type # "registration",
           l = "call" /\ req'[t].type = "registration" =>
              req'[t].username \in Names /\ req'[t].password \in Passwords,
           l = "none" => threads'[t] = Absent,
           l = "call" /\ req'[t].type # "registration" =>
              (threads'[t] # Absent <=> req'[t].type # "login")
    PROVE  ConnInv'
<1>1. pc' = [pc EXCEPT ![t] = l]
  BY DEF Goto
<1>2. pc' \in [Threads -> Pc] /\ pc'[t] = l /\ \A x \in Threads : x # t => pc'[x] = pc[x]
  BY <1>1 DEF ConnInv
<1>3. /\ req' \in [Threads -> Requests \cup {NoRequest}]
      /\ \A x \in Threads : x # t => req'[x] = req[x]
  BY DEF ConnInv
<1>4. status' \in [Threads -> Codes]
  BY DEF ConnInv
<1>5. RequestInv'
  BY <1>2, <1>3 DEF ConnInv, RequestInv
<1>6. FreshThreadsLoggedOut'
  BY <1>2 DEF ConnInv, FreshThreadsLoggedOut, is_logged_in
<1>7. GuardStillHolds'
  BY <1>2, <1>3 DEF ConnInv, GuardStillHolds, is_logged_in
<1> QED
  BY <1>2, <1>3, <1>4, <1>5, <1>6, <1>7 DEF ConnInv

\* Receiving a request sends it where its handler can deal with it.
LEMMA ReceiveStep ==
    ASSUME ConnInv, NEW t \in Threads, NEW r \in Requests, Receive(t, r)
    PROVE  ConnInv'
<1>1. pc[t] = "recv" /\ req' = [req EXCEPT ![t] = r] /\ UNCHANGED dbvars /\ Dispatch(t, r)
  BY DEF Receive
<1>2. req'[t] = r /\ UNCHANGED threads
  BY <1>1 DEF ConnInv, dbvars
<1>3. CASE r.type = "wrong_version" /\ Goto(t, "reject") /\ UNCHANGED status
  BY <1>1, <1>2, <1>3, ConnStep DEF Pc
<1>4. CASE Goto(t, "send") /\ \E c \in Codes : status' = [status EXCEPT ![t] = c]
  BY <1>1, <1>2, <1>4, ConnStep DEF Pc
<1>5. CASE /\ r.type = "registration" /\ r.username # Invalid /\ r.password # Invalid
           /\ Goto(t, "call") /\ UNCHANGED status
  <2>1. r.username \in Names /\ r.password \in Passwords
    BY <1>5, RequestFields
  <2> QED
    BY <1>1, <1>2, <1>5, <2>1, ConnStep DEF Pc
<1>6. CASE /\ r.type \in {"login", "logout", "accounts", "send_txt", "recv_txt",
                          "correspondents", "delete"}
           /\ Goto(t, "guard") /\ UNCHANGED status
  BY <1>1, <1>2, <1>6, ConnStep DEF Pc
<1> QED
  BY <1>1, <1>3, <1>4, <1>5, <1>6 DEF Dispatch, Codes

\* The check of a handler establishes what its call will rely on.
LEMMA GuardStep ==
    ASSUME ConnInv, NEW t \in Threads, Guard(t)
    PROVE  ConnInv'
<1>1. pc[t] = "guard" /\ UNCHANGED threads
  BY DEF Guard, dbvars
<1>2. req[t] \in Requests /\ req[t].type # "registration"
  BY <1>1 DEF ConnInv, RequestInv
<1>3. CASE req[t].type = "login" /\ is_logged_in(t) /\ Goto(t, "logout")
           /\ UNCHANGED <<req, status>>
  BY <1>1, <1>2, <1>3, ConnStep DEF Pc
<1>4. CASE req[t].type = "login" /\ ~is_logged_in(t) /\ Goto(t, "call")
           /\ UNCHANGED <<req, status>>
  BY <1>1, <1>2, <1>4, ConnStep DEF Pc, is_logged_in
<1>5. CASE req[t].type # "login" /\ is_logged_in(t) /\ Goto(t, "call")
           /\ UNCHANGED <<req, status>>
  BY <1>1, <1>2, <1>5, ConnStep DEF Pc, is_logged_in
<1>6. CASE Respond(t, "unauthorized")
  <2>1. "unauthorized" \in Codes
    BY DEF Codes
  <2> QED
    BY <1>1, <1>6, <2>1, ConnStep DEF Respond, Pc
<1> QED
  BY <1>3, <1>4, <1>5, <1>6 DEF Guard

\* The call of a method, which is a call of the database, preserves the invariant.
LEMMA CallStep ==
    ASSUME ConnInv, TypeOK, NEW t \in Threads, CallMethod(t)
    PROVE  ConnInv'
<1>1. PICK s \in Status :
         /\ Method(t, req[t], s)
         /\ \/ s = ok     /\ Respond(t, "ok")
            \/ s = error  /\ Respond(t, OnError(req[t].type))
            \/ s = thrown /\ UNCHANGED connvars
  BY DEF CallMethod
<1>2. /\ \A x \in Threads : x # t => threads'[x] = threads[x]
      /\ s = thrown => UNCHANGED threads
  BY <1>1, MethodIsLocal
<1>3. CASE \E c \in Codes : Respond(t, c)
  BY <1>2, <1>3, ConnStep DEF Respond, Pc
<1>4. CASE s = thrown /\ UNCHANGED connvars
  <2>1. UNCHANGED <<pc, req, status, threads>>
    BY <1>2, <1>4 DEF connvars
  <2> QED
    BY <2>1 DEF ConnInv, RequestInv, FreshThreadsLoggedOut, GuardStillHolds, is_logged_in
<1>5. "ok" \in Codes /\ OnError(req[t].type) \in Codes
  BY DEF Codes, OnError
<1> QED
  BY <1>1, <1>3, <1>4, <1>5

\* The logouts, in handle_login and at the end of a connection, preserve it.
LEMMA LeaveStep ==
    ASSUME ConnInv, TypeOK, NEW t \in Threads, LogoutPrevious(t) \/ Close(t)
    PROVE  ConnInv'
<1>1. threads' = [threads EXCEPT ![t] = Absent] /\ UNCHANGED <<req, status>>
  BY DEF LogoutPrevious, Close, logout
<1>2. threads'[t] = Absent /\ \A x \in Threads : x # t => threads'[x] = threads[x]
  BY <1>1 DEF TypeOK
<1>3. CASE LogoutPrevious(t)
  <2>1. pc[t] = "logout" /\ Goto(t, "call")
    BY <1>3 DEF LogoutPrevious
  <2>2. req[t].type = "login" /\ req[t] \in Requests
    BY <2>1 DEF ConnInv, RequestInv
  <2> QED
    BY <1>1, <1>2, <2>1, <2>2, ConnStep DEF Pc
<1>4. CASE Close(t)
  <2>1. Goto(t, "none")
    BY <1>4 DEF Close
  <2> QED
    BY <1>1, <1>2, <2>1, ConnStep DEF Pc
<1> QED
  BY <1>3, <1>4

\* So do sending a response and failing to.
LEMMA SendingStep ==
    ASSUME ConnInv, NEW t \in Threads, Send(t) \/ SendFails(t)
    PROVE  ConnInv'
<1>1. /\ Goto(t, "recv") \/ Goto(t, "close")
      /\ req' = [req EXCEPT ![t] = NoRequest]
      /\ status' = [status EXCEPT ![t] = "none"]
      /\ UNCHANGED threads
  BY DEF Send, SendFails, dbvars
<1>2. "none" \in Codes
  BY DEF Codes
<1> QED
  BY <1>1, <1>2, ConnStep DEF Pc

\* So does whatever a peer decides.
LEMMA PeerStep ==
    ASSUME ConnInv, NEW t \in Threads, Accept(t) \/ Disconnect(t)
    PROVE  ConnInv'
<1>1. (Goto(t, "recv") \/ Goto(t, "close")) /\ UNCHANGED <<req, status, threads>>
  BY DEF Accept, Disconnect, dbvars
<1> QED
  BY <1>1, ConnStep DEF Pc

\* Every step of the server keeps the invariant.
LEMMA SNextInv ==
    ASSUME SInv, [SNext]_svars
    PROVE  SInv'
<1>1. DBInv'
  BY StepIsCall, CallInv DEF SInv
<1>2. ConnInv /\ TypeOK
  BY DEF SInv, STypeOK, ConnInv
<1>3. ConnInv'
  <2>1. CASE UNCHANGED svars
    <3>1. UNCHANGED <<pc, req, status, threads>>
      BY <2>1 DEF svars, connvars, dbvars
    <3> QED
      BY <1>2, <3>1 DEF ConnInv, RequestInv, FreshThreadsLoggedOut, GuardStillHolds,
                        is_logged_in
  <2>2. CASE SNext
    <3>1. PICK t \in Threads : Work(t) \/ Peer(t)
      BY <2>2 DEF SNext
    <3>2. CASE Peer(t)
      BY <1>2, <3>2, PeerStep, ReceiveStep DEF Peer
    <3>3. CASE Work(t)
      BY <1>2, <3>3, GuardStep, CallStep, LeaveStep, SendingStep DEF Work
    <3> QED
      BY <3>1, <3>2, <3>3
  <2> QED
    BY <2>1, <2>2
<1> QED
  BY <1>1, <1>3 DEF SInv, STypeOK, ConnInv, DBInv

\* The server starts in SInv.
LEMMA SInitInv == SInit => SInv
<1> SUFFICES ASSUME SInit PROVE SInv
  OBVIOUS
<1>1. DBInv
  BY InitInv DEF SInit
<1>2. /\ pc = [t \in Threads |-> "none"]
      /\ req = [t \in Threads |-> NoRequest]
      /\ status = [t \in Threads |-> "none"]
      /\ threads = [t \in Threads |-> Absent]
  BY DEF SInit, DBInit
<1>3. STypeOK
  BY <1>1, <1>2 DEF STypeOK, DBInv, Pc, Codes
<1>4. RequestInv /\ FreshThreadsLoggedOut /\ GuardStillHolds
  BY <1>2 DEF RequestInv, FreshThreadsLoggedOut, GuardStillHolds, is_logged_in
<1> QED
  BY <1>1, <1>3, <1>4 DEF SInv

\* SInv is an invariant of the server, for any number of connections.
THEOREM SInvariance == SSpec => []SInv
<1>1. SInit => SInv
  BY SInitInv
<1>2. SInv /\ [SNext]_svars => SInv'
  BY SNextInv
<1> QED
  BY <1>1, <1>2, PTL DEF SSpec

\* No connection inherits the session of an earlier one under the same thread id.
THEOREM ConnectionsStartLoggedOut == SSpec => []FreshThreadsLoggedOut
<1>1. SInv => FreshThreadsLoggedOut
  BY DEF SInv
<1> QED
  BY <1>1, SInvariance, PTL

\* The check of is_logged_in and the call it guards are two critical sections,
\* and no other connection can make the check stale in between.
THEOREM CheckThenActIsSafe == SSpec => []GuardStillHolds
<1>1. SInv => GuardStillHolds
  BY DEF SInv
<1> QED
  BY <1>1, SInvariance, PTL

\* The program counters, requests and status codes of the connections keep their
\* types, and so does the database under them.
THEOREM ServerTypeCorrect == SSpec => []STypeOK
<1>1. SInv => STypeOK
  BY DEF SInv
<1> QED
  BY <1>1, SInvariance, PTL
-----------------------------------------------------------------------------
(***************************************************************************)
(* What the responses say is true.                                         *)
(***************************************************************************)

\* A text that send_txt recorded has made both copies of the conversation longer,
\* also when it went to its own sender.
LEMMA SentTextIsRecorded ==
    ASSUME TypeOK, NEW t \in Threads, NEW to \in Names, NEW txt \in Contents,
           is_logged_in(t), send_txt(t, to, txt, ok)
    PROVE  /\ Len(chats'[threads[t]][to].texts) > Len(chats[threads[t]][to].texts)
           /\ Len(chats'[to][threads[t]].texts) > Len(chats[to][threads[t]].texts)
<1>1. PICK from \in Names : from = threads[t]
  BY DEF TypeOK, is_logged_in
<1> DEFINE sent == [chats EXCEPT ![from][to] = Push(chats[from][to], sender_you, txt)]
<1>2. chats' = [sent EXCEPT ![to][from] = Push(@, sender_other, txt)]
  BY <1>1 DEF send_txt, ok, error, thrown
<1>3. \A c \in Chat, who \in {sender_you, sender_other} :
        /\ Push(c, who, txt) \in Chat
        /\ Len(Push(c, who, txt).texts) = Len(c.texts) + 1
        /\ Len(c.texts) \in Nat
  <2>1. ASSUME NEW c \in Chat, NEW who \in {sender_you, sender_other}
        PROVE  /\ Push(c, who, txt) \in Chat
               /\ Len(Push(c, who, txt).texts) = Len(c.texts) + 1
               /\ Len(c.texts) \in Nat
    <3>1. c.texts \in Seq(Text)
      BY DEF Chat
    <3>2. Push(c, who, txt).texts = Append(c.texts, [sender |-> who, content |-> txt])
      BY PushFields
    <3>3. Push(c, who, txt) \in Chat
      BY PushType
    <3> QED
      BY <3>1, <3>2, <3>3
  <2> QED
    BY <2>1
<1>4. sender_you \in {sender_you, sender_other} /\ sender_other \in {sender_you, sender_other}
  OBVIOUS
<1>5. chats \in [Names -> [Names -> Chat]]
  BY DEF TypeOK
<1>6. chats[from][to] \in Chat /\ chats[to][from] \in Chat
  BY <1>5
<1> HIDE DEF sent
<1>7. /\ sent \in [Names -> [Names -> Chat]]
      /\ sent[from][to] = Push(chats[from][to], sender_you, txt)
      /\ from # to => sent[to][from] = chats[to][from]
  BY <1>3, <1>4, <1>5, <1>6 DEF sent
<1>8. /\ chats'[to][from] = Push(sent[to][from], sender_other, txt)
      /\ from # to => chats'[from][to] = sent[from][to]
  BY <1>2, <1>7
<1>9. sent[to][from] \in Chat
  BY <1>7
<1>10. /\ Len(chats'[to][from].texts) = Len(sent[to][from].texts) + 1
       /\ Len(sent[from][to].texts) = Len(chats[from][to].texts) + 1
       /\ Len(chats[from][to].texts) \in Nat /\ Len(chats[to][from].texts) \in Nat
  BY <1>3, <1>4, <1>6, <1>7, <1>8, <1>9
<1>11. CASE from = to
  BY <1>1, <1>7, <1>10, <1>11
<1>12. CASE from # to
  <2>1. chats'[from][to] = sent[from][to] /\ sent[to][from] = chats[to][from]
    BY <1>7, <1>8, <1>12
  <2>2. Len(chats'[from][to].texts) > Len(chats[from][to].texts)
    BY <1>10, <2>1
  <2>3. Len(chats'[to][from].texts) > Len(chats[to][from].texts)
    BY <1>10, <2>1
  <2> QED
    BY <1>1, <2>2, <2>3
<1> QED
  BY <1>11, <1>12

\* What the status a method ends with says of the step, for a thread whose
\* handler's check still holds.
LEMMA MethodTruth ==
    ASSUME SInv, NEW t \in Threads, pc[t] = "call", NEW s \in Status,
           Method(t, req[t], s), s # thrown,
           status'[t] = IF s = ok THEN "ok" ELSE OnError(req[t].type)
    PROVE  Truthful(t)
<1> DEFINE r == req[t]
<1>1. /\ TypeOK /\ r \in Requests
      /\ r.type = "registration" => r.username \in Names /\ r.password \in Passwords
      /\ r.type # "registration" => (is_logged_in(t) <=> r.type # "login")
  BY DEF SInv, STypeOK, RequestInv, GuardStillHolds
<1>2. /\ r.type = "login" => r.username \in Names /\ r.password \in Passwords
      /\ r.type = "send_txt" => r.username \in Names /\ r.txt \in Contents
      /\ r.type = "recv_txt" => r.username \in Names
  BY <1>1, RequestFields
<1>3. r.type \in {"registration", "login", "logout", "accounts", "send_txt",
                  "recv_txt", "correspondents", "delete"}
  BY DEF Method
<1>4. (s = ok \/ s = error) /\ ok # error /\ error # thrown /\ ok # thrown
  BY DEF Status, ok, error, thrown
<1>5. status'[t] = IF s = ok THEN "ok" ELSE OnError(r.type)
  OBVIOUS
<1>6. Method(t, r, s)
  OBVIOUS
<1> HIDE DEF r
<1>7. CASE r.type = "registration"
  <2>1. registration(r.username, r.password, s)
    BY <1>6, <1>7 DEF Method
  <2>2. status'[t] = IF s = ok THEN "ok" ELSE "user_exists"
    BY <1>5, <1>7 DEF OnError
  <2>3. s = error => r.username \in historical_users
    BY <1>1, <1>4, <1>7, <2>1 DEF registration, SInv, DBInv, History
  <2>4. s = ok => ~Exists(r.username) /\ users'[r.username] = r.password
    BY <1>1, <1>4, <1>7, <2>1 DEF registration, TypeOK
  <2> QED
    BY <1>4, <1>7, <2>2, <2>3, <2>4 DEF Truthful, r
<1>8. CASE r.type = "login"
  <2>1. login(t, r.username, r.password, s) /\ ~is_logged_in(t)
    BY <1>1, <1>6, <1>8 DEF Method
  <2>2. status'[t] = IF s = ok THEN "ok" ELSE "invalid_credentials"
    BY <1>5, <1>8 DEF OnError
  <2>3. s = ok => threads'[t] = r.username /\ users[r.username] = r.password
    BY <1>1, <1>4, <2>1 DEF login, TypeOK
  <2>4. s = error => users[r.username] # r.password
    BY <1>4, <2>1 DEF login
  <2> QED
    BY <1>4, <1>8, <2>2, <2>3, <2>4 DEF Truthful, r
<1>9. CASE r.type = "logout"
  <2>1. logout(t, s) /\ is_logged_in(t)
    BY <1>1, <1>6, <1>9 DEF Method
  <2>2. s = ok /\ threads[t] # Absent /\ threads'[t] = Absent
    BY <1>1, <2>1 DEF logout, TypeOK, is_logged_in
  <2> QED
    BY <1>5, <1>9, <2>2 DEF Truthful, r
<1>10. CASE r.type = "accounts"
  <2>1. s = ok /\ is_logged_in(t)
    BY <1>1, <1>6, <1>10 DEF Method
  <2> QED
    BY <1>5, <1>10, <2>1 DEF Truthful, r, is_logged_in
<1>11. CASE r.type = "send_txt"
  <2>1. send_txt(t, r.username, r.txt, s) /\ is_logged_in(t)
    BY <1>1, <1>6, <1>11 DEF Method
  <2>2. status'[t] = IF s = ok THEN "ok" ELSE "user_noexist"
    BY <1>5, <1>11 DEF OnError
  <2>3. s = error => ~Exists(r.username)
    BY <1>4, <2>1 DEF send_txt
  <2>4. s = ok => /\ Len(chats'[threads[t]][r.username].texts) > Len(chats[threads[t]][r.username].texts)
                  /\ Len(chats'[r.username][threads[t]].texts) > Len(chats[r.username][threads[t]].texts)
    BY <1>1, <1>2, <1>11, <2>1, SentTextIsRecorded
  <2> QED
    BY <1>4, <1>11, <2>2, <2>3, <2>4 DEF Truthful, r
<1>12. CASE r.type = "recv_txt"
  <2>1. recv_txt(t, r.username, s) /\ is_logged_in(t)
    BY <1>1, <1>6, <1>12 DEF Method
  <2>2. status'[t] = IF s = ok THEN "ok" ELSE "user_noexist"
    BY <1>5, <1>12 DEF OnError
  <2>3. Exists(threads[t]) /\ s = IF Exists(r.username) THEN ok ELSE error
    BY <1>4, <2>1 DEF recv_txt
  <2> QED
    BY <1>4, <1>12, <2>2, <2>3 DEF Truthful, r
<1>13. CASE r.type = "correspondents"
  <2>1. get_correspondents(t, s) /\ is_logged_in(t)
    BY <1>1, <1>6, <1>13 DEF Method
  <2>2. s = ok /\ Exists(threads[t])
    BY <1>4, <2>1 DEF get_correspondents
  <2> QED
    BY <1>5, <1>13, <2>2 DEF Truthful, r
<1>14. CASE r.type = "delete"
  <2>1. delete_user(t, s) /\ is_logged_in(t)
    BY <1>1, <1>6, <1>14 DEF Method
  <2>2. s = ok /\ Exists(threads[t]) /\ \E visited : Erase(t, visited)
    BY <1>4, <2>1 DEF delete_user
  <2>3. threads[t] \in Names
    BY <1>1, <2>1 DEF TypeOK, is_logged_in
  <2>4. users'[threads[t]] = Absent /\ threads'[t] = Absent
    BY <1>1, <2>2, <2>3 DEF Erase, TypeOK
  <2> QED
    BY <1>5, <1>14, <2>2, <2>4 DEF Truthful, r
<1> QED
  BY <1>3, <1>7, <1>8, <1>9, <1>10, <1>11, <1>12, <1>13, <1>14

\* The status of a response tells what its handler did: no error is masked by a
\* shared code, and the three handlers that answer OK without looking at what
\* their method returned are right to, because what is_logged_in said before
\* still holds when the method runs.
THEOREM ResponsesAreTrue == SSpec => RepliesTruthful
<1>1. ASSUME SInv, [SNext]_svars
      PROVE  [\A t \in Threads : Truthful(t)]_svars
  <2>1. CASE UNCHANGED svars
    BY <2>1
  <2>2. CASE SNext
    <3>1. SUFFICES ASSUME NEW t \in Threads, pc[t] = "call", pc'[t] = "send"
                   PROVE  Truthful(t)
      BY DEF Truthful
    <3>2. PICK x \in Threads : Work(x) \/ Peer(x)
      BY <2>2 DEF SNext
    <3>3. pc \in [Threads -> Pc]
      BY <1>1 DEF SInv, STypeOK
    <3>4. x = t /\ CallMethod(t)
      <4>1. CASE Peer(x)
        BY <3>1, <3>3, <4>1 DEF Peer, Accept, Disconnect, Receive, Dispatch, Goto
      <4>2. CASE Guard(x)
        BY <3>1, <3>3, <4>2 DEF Guard, Respond, Goto
      <4>3. CASE LogoutPrevious(x) \/ Close(x)
        BY <3>1, <3>3, <4>3 DEF LogoutPrevious, Close, Goto
      <4>4. CASE Send(x) \/ SendFails(x)
        BY <3>1, <3>3, <4>4 DEF Send, SendFails, Goto
      <4>5. CASE CallMethod(x)
        BY <3>1, <3>3, <4>5 DEF CallMethod, Respond, Goto, connvars
      <4> QED
        BY <3>2, <4>1, <4>2, <4>3, <4>4, <4>5 DEF Work
    <3>5. PICK s \in Status :
             /\ Method(t, req[t], s)
             /\ \/ s = ok     /\ Respond(t, "ok")
                \/ s = error  /\ Respond(t, OnError(req[t].type))
                \/ s = thrown /\ UNCHANGED connvars
      BY <3>4 DEF CallMethod
    <3>6. s # thrown /\ status'[t] = IF s = ok THEN "ok" ELSE OnError(req[t].type)
      BY <1>1, <3>1, <3>5 DEF Respond, connvars, SInv, STypeOK, ok, error, thrown
    <3> QED
      BY <1>1, <3>1, <3>5, <3>6, MethodTruth
  <2> QED
    BY <1>1, <2>1, <2>2
<1>2. SInv /\ [SNext]_svars => [\A t \in Threads : Truthful(t)]_svars
  BY <1>1
<1> QED
  BY <1>2, SInvariance, PTL DEF SSpec, RepliesTruthful
-----------------------------------------------------------------------------
\* The server uses the database only through its methods, one at a time: every
\* theorem about DBSpec holds of the server.
THEOREM ServerRefinesDatabase == SSpec => ImplementsDatabase
<1>1. SInit => DBInit
  BY DEF SInit
<1>2. SInv /\ [SNext]_svars => [DBNext]_dbvars
  BY StepIsCall
<1> QED
  BY <1>1, <1>2, SInvariance, PTL DEF SSpec, ImplementsDatabase, DBSpec

\* In particular the server's users share one log per conversation.
THEOREM ServerImplementsConversations == SSpec => ImplementsConversations
BY ServerRefinesDatabase, Refinement, PTL DEF ImplementsDatabase
=============================================================================
