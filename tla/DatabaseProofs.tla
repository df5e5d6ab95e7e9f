--------------------------- MODULE DatabaseProofs ---------------------------
(***************************************************************************)
(* What is proved of Database for every set of names, passwords, contents  *)
(* and threads, and for chats of any length.                               *)
(***************************************************************************)
EXTENDS Database, TLAPS

-----------------------------------------------------------------------------
(***************************************************************************)
(* Facts about texts.                                                      *)
(***************************************************************************)

\* Push keeps the type of a chat.
LEMMA PushType ==
    ASSUME NEW c \in Chat, NEW who \in {sender_you, sender_other}, NEW txt \in Contents
    PROVE  Push(c, who, txt) \in Chat
BY DEF Push, Chat, Text, sender_you, sender_other

\* What Push makes of a chat.
LEMMA PushFields ==
    ASSUME NEW c \in Chat, NEW who \in {sender_you, sender_other}, NEW txt \in Contents
    PROVE  /\ Push(c, who, txt).open = TRUE
           /\ Push(c, who, txt).texts = Append(c.texts, [sender |-> who, content |-> txt])
BY DEF Push

\* The other party's view of a text is a text, and turning it round again gives
\* back the first.
LEMMA FlipText ==
    ASSUME NEW x \in Text
    PROVE  Flip(x) \in Text /\ Flip(Flip(x)) = x
BY DEF Flip, Text, sender_you, sender_other

\* The other party's view of a sequence of texts, position by position.
LEMMA FlipAllType ==
    ASSUME NEW texts \in Seq(Text)
    PROVE  /\ FlipAll(texts) \in Seq(Text)
           /\ Len(FlipAll(texts)) = Len(texts)
           /\ \A i \in 1 .. Len(texts) : FlipAll(texts)[i] = Flip(texts[i])
<1>1. \A i \in 1 .. Len(texts) : Flip(texts[i]) \in Text
  BY FlipText
<1>2. FlipAll(texts) = [i \in 1 .. Len(texts) |-> Flip(texts[i])]
  BY DEF FlipAll
<1> QED
  BY <1>1, <1>2

\* The other party's view of a chat that grew is the other party's view grown.
LEMMA FlipAppend ==
    ASSUME NEW texts \in Seq(Text), NEW x \in Text
    PROVE  FlipAll(Append(texts, x)) = Append(FlipAll(texts), Flip(x))
<1> DEFINE grown == Append(texts, x)
<1>1. grown \in Seq(Text) /\ Len(grown) = Len(texts) + 1
  OBVIOUS
<1>2. FlipAll(grown) \in Seq(Text) /\ Len(FlipAll(grown)) = Len(texts) + 1
  BY <1>1, FlipAllType
<1>3. Append(FlipAll(texts), Flip(x)) \in Seq(Text)
  BY FlipAllType, FlipText
<1>4. Len(Append(FlipAll(texts), Flip(x))) = Len(texts) + 1
  BY FlipAllType, FlipText
<1>5. ASSUME NEW i \in 1 .. Len(texts) + 1
      PROVE  FlipAll(grown)[i] = Append(FlipAll(texts), Flip(x))[i]
  <2>1. FlipAll(grown)[i] = Flip(grown[i])
    BY <1>1, FlipAllType
  <2>2. CASE i = Len(texts) + 1
    BY <2>1, <2>2, FlipAllType, FlipText
  <2>3. CASE i \in 1 .. Len(texts)
    BY <2>1, <2>3, FlipAllType, FlipText
  <2>4. i = Len(texts) + 1 \/ i \in 1 .. Len(texts)
    OBVIOUS
  <2> HIDE DEF grown
  <2> QED
    BY <2>2, <2>3, <2>4
<1> HIDE DEF grown
<1>6. FlipAll(grown) = Append(FlipAll(texts), Flip(x))
  BY <1>2, <1>3, <1>4, <1>5
<1> QED
  BY <1>6 DEF grown

\* Turning a chat round twice gives the chat.
LEMMA FlipFlip ==
    ASSUME NEW texts \in Seq(Text)
    PROVE  FlipAll(FlipAll(texts)) = texts
<1> DEFINE other == FlipAll(texts)
<1>1. /\ other \in Seq(Text) /\ Len(other) = Len(texts)
      /\ \A i \in 1 .. Len(texts) : other[i] = Flip(texts[i])
  BY FlipAllType
<1>2. /\ FlipAll(other) \in Seq(Text) /\ Len(FlipAll(other)) = Len(texts)
      /\ \A i \in 1 .. Len(texts) : FlipAll(other)[i] = Flip(other[i])
  BY <1>1, FlipAllType
<1>3. \A i \in 1 .. Len(texts) : FlipAll(other)[i] = texts[i]
  BY <1>1, <1>2, FlipText
<1> HIDE DEF other
<1>4. FlipAll(other) = texts
  BY <1>2, <1>3
<1> QED
  BY <1>4 DEF other
-----------------------------------------------------------------------------
(***************************************************************************)
(* The inductive invariant DBInv.                                          *)
(***************************************************************************)

\* The database starts in DBInv.
LEMMA InitInv == DBInit => DBInv
<1> SUFFICES ASSUME DBInit PROVE DBInv
  OBVIOUS
<1> USE DEF DBInit
<1>1. NoChat \in Chat
  BY DEF NoChat, Chat
<1>2. TypeOK
  BY <1>1 DEF TypeOK
<1>3. History
  BY DEF History, Exists, is_logged_in
<1>4. ChatsMirror
  BY AbsentAssumption DEF ChatsMirror, Exists
<1> QED
  BY <1>2, <1>3, <1>4 DEF DBInv

\* A method that changes sessions only keeps DBInv when whoever is logged in
\* afterwards has been registered.
LEMMA SessionsStep ==
    ASSUME DBInv,
           threads' \in [Threads -> Names \cup {Absent}],
           terminated' \in BOOLEAN,
           \A t \in Threads : threads'[t] # Absent => threads'[t] \in historical_users,
           UNCHANGED <<users, chats, historical_users>>
    PROVE  DBInv'
<1>1. TypeOK'
  BY DEF DBInv, TypeOK
<1>2. History'
  BY DEF DBInv, History, Exists, is_logged_in
<1>3. ChatsMirror'
  BY DEF DBInv, ChatsMirror, Exists
<1> QED
  BY <1>1, <1>2, <1>3 DEF DBInv

\* The end of the process touches none of the maps.
LEMMA TerminateStep ==
    ASSUME DBInv, Terminate
    PROVE  DBInv'
<1>1. /\ threads' \in [Threads -> Names \cup {Absent}]
      /\ terminated' \in BOOLEAN
      /\ \A t \in Threads : threads'[t] # Absent => threads'[t] \in historical_users
      /\ UNCHANGED <<users, chats, historical_users>>
  BY DEF DBInv, TypeOK, History, Terminate, is_logged_in
<1> QED
  BY <1>1, SessionsStep

\* A method that changes nothing preserves the invariant.
LEMMA StutterStep ==
    ASSUME DBInv, UNCHANGED dbvars
    PROVE  DBInv'
<1>1. /\ threads' \in [Threads -> Names \cup {Absent}]
      /\ terminated' \in BOOLEAN
      /\ \A t \in Threads : threads'[t] # Absent => threads'[t] \in historical_users
      /\ UNCHANGED <<users, chats, historical_users>>
  BY DEF DBInv, TypeOK, History, dbvars, is_logged_in
<1> QED
  BY <1>1, SessionsStep

\* login preserves the invariant: a session is opened for a user who exists.
LEMMA LoginStep ==
    ASSUME DBInv, NEW t \in Threads, NEW n \in Names, NEW pw \in Passwords,
           NEW s \in Status, login(t, n, pw, s)
    PROVE  DBInv'
<1>1. CASE s = ok
  <2>1. users[n] = pw
    BY <1>1 DEF login, ok, error
  <2>2. n \in historical_users
    BY <2>1, AbsentAssumption DEF DBInv, History, Exists
  <2>3. threads' = [threads EXCEPT ![t] = n]
    BY <1>1 DEF login
  <2>4. /\ threads' \in [Threads -> Names \cup {Absent}]
        /\ \A x \in Threads : threads'[x] # Absent => threads'[x] \in historical_users
    BY <2>2, <2>3 DEF DBInv, TypeOK, History, is_logged_in
  <2>5. UNCHANGED <<users, chats, historical_users, terminated>>
    BY DEF login
  <2>6. terminated' \in BOOLEAN
    BY <2>5 DEF DBInv, TypeOK
  <2> QED
    BY <2>4, <2>5, <2>6, SessionsStep
<1>2. CASE s # ok
  <2>1. UNCHANGED dbvars
    BY <1>2 DEF login, dbvars
  <2> QED
    BY <2>1, StutterStep
<1> QED
  BY <1>1, <1>2

\* logout preserves the invariant.
LEMMA LogoutStep ==
    ASSUME DBInv, NEW t \in Threads, NEW s \in Status, logout(t, s)
    PROVE  DBInv'
<1>1. threads' = [threads EXCEPT ![t] = Absent]
  BY DEF logout
<1>2. /\ threads' \in [Threads -> Names \cup {Absent}]
      /\ \A x \in Threads : threads'[x] # Absent => threads'[x] \in historical_users
  BY <1>1 DEF DBInv, TypeOK, History, is_logged_in
<1>3. UNCHANGED <<users, chats, historical_users, terminated>>
  BY DEF logout
<1>4. terminated' \in BOOLEAN
  BY <1>3 DEF DBInv, TypeOK
<1> QED
  BY <1>2, <1>3, <1>4, SessionsStep

\* Registration: History makes the new user's row and column empty.
LEMMA RegistrationStep ==
    ASSUME DBInv, NEW n \in Names, NEW pw \in Passwords, NEW s \in Status,
           registration(n, pw, s)
    PROVE  DBInv'
<1>1. CASE UNCHANGED dbvars
  BY <1>1, StutterStep
<1>2. CASE ~UNCHANGED dbvars
  <2>1. /\ ~Exists(n) /\ n \notin historical_users
        /\ users' = [users EXCEPT ![n] = pw]
        /\ chats' = [chats EXCEPT ![n] = [v \in Names |-> NoChat]]
        /\ historical_users' = historical_users \cup {n}
        /\ UNCHANGED <<threads, terminated>>
    BY <1>2 DEF registration
  <2>2. \A v \in Names : chats[n][v] = NoChat /\ chats[v][n] = NoChat
    BY <2>1 DEF DBInv, History
  <2>3. chats' \in [Names -> [Names -> Chat]]
    BY <2>1 DEF DBInv, TypeOK, NoChat, Chat
  <2>4. \A u, v \in Names : chats'[u][v] = chats[u][v]
    BY <2>1, <2>2 DEF DBInv, TypeOK
  <2>5. TypeOK'
    BY <2>1, <2>3 DEF DBInv, TypeOK
  <2>6. History'
    BY <2>1, <2>4 DEF DBInv, TypeOK, History, Exists, is_logged_in
  <2>7. ASSUME NEW u \in Names, NEW v \in Names, Exists(u)', Exists(v)', u # v
        PROVE  /\ chats'[u][v].open = chats'[v][u].open
               /\ chats'[u][v].texts = FlipAll(chats'[v][u].texts)
    <3>1. CASE u # n /\ v # n
      <4>1. Exists(u) /\ Exists(v)
        BY <3>1, <2>1, <2>7 DEF Exists, DBInv, TypeOK
      <4> QED
        BY <4>1, <2>4, <2>7 DEF DBInv, ChatsMirror
    <3>2. CASE u = n \/ v = n
      <4>1. chats'[u][v] = NoChat /\ chats'[v][u] = NoChat
        BY <3>2, <2>2, <2>4
      <4>2. FlipAll(<<>>) = <<>>
        BY DEF FlipAll
      <4> QED
        BY <4>1, <4>2 DEF NoChat
    <3> QED
      BY <3>1, <3>2
  <2>8. ChatsMirror'
    BY <2>7 DEF ChatsMirror
  <2> QED
    BY <2>5, <2>6, <2>8 DEF DBInv
<1> QED
  BY <1>1, <1>2
\* A text is written to both copies, once as mine and once as the other's.
LEMMA SendStep ==
    ASSUME DBInv, NEW t \in Threads, NEW to \in Names, NEW txt \in Contents,
           NEW s \in Status, send_txt(t, to, txt, s)
    PROVE  DBInv'
<1>1. CASE UNCHANGED dbvars
  BY <1>1, StutterStep
<1>2. CASE Terminate
  BY <1>2, TerminateStep
<1>3. CASE ~UNCHANGED dbvars /\ ~Terminate
  <2> DEFINE from  == threads[t]
             mine  == [sender |-> sender_you, content |-> txt]
             yours == [sender |-> sender_other, content |-> txt]
  <2>1. /\ from # Absent /\ Exists(from) /\ Exists(to)
        /\ chats' = [[chats EXCEPT ![from][to] = Push(chats[from][to], sender_you, txt)]
                       EXCEPT ![to][from] = Push(@, sender_other, txt)]
        /\ UNCHANGED <<users, historical_users, threads, terminated>>
    BY <1>3 DEF send_txt, is_logged_in
  <2>2. from \in Names
    BY <2>1 DEF DBInv, TypeOK
  <2>3. from \in historical_users /\ to \in historical_users
    BY <2>1, <2>2 DEF DBInv, History
  <2>4. mine \in Text /\ yours \in Text /\ Flip(mine) = yours /\ Flip(yours) = mine
    BY DEF Text, Flip, sender_you, sender_other
  <2>5. \A u, v \in Names : chats[u][v] \in Chat /\ chats[u][v].texts \in Seq(Text)
    BY DEF DBInv, TypeOK, Chat
  <2>6. ASSUME from # to
        PROVE  /\ chats'[from][to] = Push(chats[from][to], sender_you, txt)
               /\ chats'[to][from] = Push(chats[to][from], sender_other, txt)
    BY <2>1, <2>2, <2>6 DEF DBInv, TypeOK
  <2>7. \A u, v \in Names : {u, v} # {from, to} => chats'[u][v] = chats[u][v]
    BY <2>1, <2>2 DEF DBInv, TypeOK
  <2>8. chats' \in [Names -> [Names -> Chat]]
    <3>1. [chats EXCEPT ![from][to] = Push(@, sender_you, txt)]
            \in [Names -> [Names -> Chat]]
      BY <2>2, <2>5, PushType DEF DBInv, TypeOK
    <3> QED
      BY <3>1, <2>1, <2>2, PushType
  <2>9. TypeOK'
    BY <2>1, <2>8 DEF DBInv, TypeOK
  <2>10. History'
    <3>1. ASSUME NEW u \in Names, NEW v \in Names, u \notin historical_users
          PROVE  chats'[u][v] = NoChat /\ chats'[v][u] = NoChat
      <4>1. {u, v} # {from, to} /\ {v, u} # {from, to}
        BY <3>1, <2>3
      <4>2. chats[u][v] = NoChat /\ chats[v][u] = NoChat
        BY <3>1 DEF DBInv, History
      <4> QED
        BY <4>1, <4>2, <2>7
    <3> QED
      BY <3>1, <2>1 DEF DBInv, History, Exists, is_logged_in
  <2>11. ASSUME NEW u \in Names, NEW v \in Names, Exists(u)', Exists(v)', u # v
         PROVE  /\ chats'[u][v].open = chats'[v][u].open
                /\ chats'[u][v].texts = FlipAll(chats'[v][u].texts)
    <3>1. /\ Exists(u) /\ Exists(v)
          /\ chats[u][v].open = chats[v][u].open
          /\ chats[u][v].texts = FlipAll(chats[v][u].texts)
          /\ chats[v][u].texts = FlipAll(chats[u][v].texts)
      BY <2>1, <2>11 DEF DBInv, ChatsMirror, Exists
    <3>2. CASE {u, v} # {from, to}
      BY <3>1, <3>2, <2>7
    <3>3. CASE u = from /\ v = to
      <4>1. /\ chats'[u][v] = Push(chats[u][v], sender_you, txt)
            /\ chats'[v][u] = Push(chats[v][u], sender_other, txt)
        BY <3>3, <2>6, <2>11
      <4>2. chats'[u][v].texts = Append(chats[u][v].texts, mine)
        BY <4>1, <2>5, PushFields DEF sender_you, sender_other
      <4>3. chats'[v][u].texts = Append(chats[v][u].texts, yours)
        BY <4>1, <2>5, PushFields DEF sender_you, sender_other
      <4>4. chats'[u][v].open = chats'[v][u].open
        BY <4>1, <2>5, PushFields DEF sender_you, sender_other
      <4> QED
        BY <4>2, <4>3, <4>4, <3>1, <2>4, <2>5, FlipAppend
    <3>4. CASE u = to /\ v = from
      <4>1. /\ chats'[v][u] = Push(chats[v][u], sender_you, txt)
            /\ chats'[u][v] = Push(chats[u][v], sender_other, txt)
        BY <3>4, <2>6, <2>11
      <4>2. chats'[v][u].texts = Append(chats[v][u].texts, mine)
        BY <4>1, <2>5, PushFields DEF sender_you, sender_other
      <4>3. chats'[u][v].texts = Append(chats[u][v].texts, yours)
        BY <4>1, <2>5, PushFields DEF sender_you, sender_other
      <4>4. chats'[u][v].open = chats'[v][u].open
        BY <4>1, <2>5, PushFields DEF sender_you, sender_other
      <4> QED
        BY <4>2, <4>3, <4>4, <3>1, <2>4, <2>5, FlipAppend
    <3> QED
      BY <3>2, <3>3, <3>4, <2>11
  <2>12. ChatsMirror'
    BY <2>11 DEF ChatsMirror
  <2> QED
    BY <2>9, <2>10, <2>12 DEF DBInv
<1> QED
  BY <1>1, <1>2, <1>3

\* A deletion touches no chat between two users who are still there, whichever
\* part of the correspondents its loop got to.
LEMMA EraseStep ==
    ASSUME DBInv, NEW t \in Threads, is_logged_in(t), NEW visited, Erase(t, visited)
    PROVE  DBInv'
<1> DEFINE n == threads[t]
<1>1. n \in Names /\ n \in historical_users
  BY DEF DBInv, TypeOK, History, is_logged_in
<1>2. /\ users' = [users EXCEPT ![n] = Absent]
      /\ threads' = [threads EXCEPT ![t] = Absent]
      /\ UNCHANGED <<historical_users, terminated>>
      /\ chats' = [x \in Names |-> [y \in Names |->
                     IF x = n \/ (y = n /\ x \in visited) THEN NoChat ELSE chats[x][y]]]
  BY DEF Erase
<1>3. NoChat \in Chat
  BY DEF NoChat, Chat
<1>4. chats' \in [Names -> [Names -> Chat]]
  BY <1>2, <1>3 DEF DBInv, TypeOK
<1>5. TypeOK'
  BY <1>1, <1>2, <1>4 DEF DBInv, TypeOK
<1>6. \A u, v \in Names : chats'[u][v] \in {NoChat, chats[u][v]}
  BY <1>2
<1>7. History'
  BY <1>1, <1>2, <1>6 DEF DBInv, TypeOK, History, Exists, is_logged_in
<1>8. \A u \in Names : Exists(u)' => u # n /\ Exists(u)
  BY <1>1, <1>2 DEF DBInv, TypeOK, Exists
<1>9. \A u, v \in Names : u # n /\ v # n => chats'[u][v] = chats[u][v]
  BY <1>2
<1>10. ChatsMirror'
  BY <1>8, <1>9 DEF DBInv, ChatsMirror
<1> QED
  BY <1>5, <1>7, <1>10 DEF DBInv

\* delete_user preserves the invariant, whichever part of the loop it got through.
LEMMA DeleteStep ==
    ASSUME DBInv, NEW t \in Threads, NEW s \in Status, delete_user(t, s)
    PROVE  DBInv'
<1>1. CASE UNCHANGED dbvars
  BY <1>1, StutterStep
<1>2. CASE Terminate
  BY <1>2, TerminateStep
<1>3. CASE ~UNCHANGED dbvars /\ ~Terminate
  <2>1. is_logged_in(t) /\ \E visited : Erase(t, visited)
    BY <1>3 DEF delete_user
  <2> QED
    BY <2>1, EraseStep
<1> QED
  BY <1>1, <1>2, <1>3

\* Every method keeps DBInv.
LEMMA CallInv ==
    ASSUME DBInv, [DBNext]_dbvars
    PROVE  DBInv'
<1>1. CASE UNCHANGED dbvars
  BY <1>1, StutterStep
<1>2. CASE DBNext
  <2>1. PICK t \in Threads, s \in Status :
           \/ logout(t, s)
           \/ delete_user(t, s)
           \/ get_correspondents(t, s)
           \/ \E n \in Names : recv_txt(t, n, s)
           \/ \E n \in Names, pw \in Passwords : login(t, n, pw, s)
           \/ \E n \in Names, pw \in Passwords : registration(n, pw, s)
           \/ \E n \in Names, txt \in Contents : send_txt(t, n, txt, s)
    BY <1>2 DEF DBNext, Call
  <2>2. CASE logout(t, s)
    BY <2>2, LogoutStep
  <2>3. CASE delete_user(t, s)
    BY <2>3, DeleteStep
  <2>4. CASE get_correspondents(t, s)
    BY <2>4, StutterStep, TerminateStep DEF get_correspondents
  <2>5. CASE \E n \in Names : recv_txt(t, n, s)
    BY <2>5, StutterStep, TerminateStep DEF recv_txt
  <2>6. CASE \E n \in Names, pw \in Passwords : login(t, n, pw, s)
    BY <2>6, LoginStep
  <2>7. CASE \E n \in Names, pw \in Passwords : registration(n, pw, s)
    BY <2>7, RegistrationStep
  <2>8. CASE \E n \in Names, txt \in Contents : send_txt(t, n, txt, s)
    BY <2>8, SendStep
  <2> QED
    BY <2>1, <2>2, <2>3, <2>4, <2>5, <2>6, <2>7, <2>8
<1> QED
  BY <1>1, <1>2

\* DBInv is an invariant of the database, for all users, threads and texts.
THEOREM Invariance == DBSpec => []DBInv
<1>1. DBInit => DBInv
  BY InitInv
<1>2. DBInv /\ [DBNext]_dbvars => DBInv'
  BY CallInv
<1> QED
  BY <1>1, <1>2, PTL DEF DBSpec

\* The maps of the database keep their types, whatever the connections do.
THEOREM TypeCorrect == DBSpec => []TypeOK
<1>1. DBInv => TypeOK
  BY DEF DBInv
<1> QED
  BY <1>1, Invariance, PTL

\* The two copies of every conversation say the same, for any number of users,
\* connections and texts, and past every deletion.
THEOREM CopiesAgree == DBSpec => []ChatsMirror
<1>1. DBInv => ChatsMirror
  BY DEF DBInv
<1> QED
  BY <1>1, Invariance, PTL
-----------------------------------------------------------------------------
(***************************************************************************)
(* Sessions and accounts.                                                  *)
(***************************************************************************)

\* A session never comes to act for an account other than the one it opened,
\* although deletions by other connections leave it without one.  By History
\* the name in a session has been registered, and registration, the only method
\* that fills an entry of users_, takes no such name.
THEOREM SessionsKeep == DBSpec => SessionsKeepTheirAccount
<1>1. ASSUME DBInv, [DBNext]_dbvars
      PROVE  [\A t \in Threads : KeepsAccount(t)]_dbvars
  <2>1. CASE UNCHANGED dbvars
    BY <2>1
  <2>2. CASE DBNext
    <3>1. SUFFICES ASSUME NEW t \in Threads, threads[t] # Absent, threads'[t] = threads[t]
                   PROVE  users'[threads[t]] \in {users[threads[t]], Absent}
      BY DEF KeepsAccount
    <3>2. threads[t] \in Names /\ threads[t] \in historical_users
      BY <1>1, <3>1 DEF DBInv, TypeOK, History, is_logged_in
    <3>3. PICK x \in Threads, s \in Status :
             \/ logout(x, s)
             \/ delete_user(x, s)
             \/ get_correspondents(x, s)
             \/ \E n \in Names : recv_txt(x, n, s)
             \/ \E n \in Names, pw \in Passwords : login(x, n, pw, s)
             \/ \E n \in Names, pw \in Passwords : registration(n, pw, s)
             \/ \E n \in Names, txt \in Contents : send_txt(x, n, txt, s)
      BY <2>2 DEF DBNext, Call
    <3>4. CASE \E n \in Names, pw \in Passwords : registration(n, pw, s)
      <4>1. PICK n \in Names, pw \in Passwords : registration(n, pw, s)
        BY <3>4
      <4>2. CASE UNCHANGED dbvars
        BY <4>2 DEF dbvars
      <4>3. CASE n \notin historical_users /\ users' = [users EXCEPT ![n] = pw]
        BY <1>1, <3>2, <4>3 DEF DBInv, TypeOK
      <4> QED
        BY <4>1, <4>2, <4>3 DEF registration
    <3>5. CASE delete_user(x, s)
      <4>1. CASE \E visited : Erase(x, visited)
        BY <1>1, <3>2, <4>1 DEF Erase, DBInv, TypeOK
      <4>2. CASE UNCHANGED users
        BY <4>2
      <4> QED
        BY <3>5, <4>1, <4>2 DEF delete_user, Terminate, dbvars
    <3>6. CASE UNCHANGED users
      BY <3>6
    <3> QED
      BY <3>3, <3>4, <3>5, <3>6
         DEF logout, get_correspondents, recv_txt, login, send_txt, Terminate, dbvars
  <2> QED
    BY <1>1, <2>1, <2>2
<1> QED
  BY <1>1, Invariance, PTL DEF DBSpec, SessionsKeepTheirAccount

-----------------------------------------------------------------------------
(***************************************************************************)
(* Considerate clients.                                                    *)
(***************************************************************************)

\* When no account is shared and nobody has written to themselves, delete_user
\* finds every correspondent, erases every entry that names the deleted user,
\* and leaves no session behind.
LEMMA SafeDelete ==
    ASSUME DBInv, SafeInv, Considerate, NEW t \in Threads, NEW s \in Status,
           delete_user(t, s)
    PROVE  SafeInv'
<1>1. CASE ~is_logged_in(t)
  BY <1>1 DEF delete_user, Dangling, SafeInv, CorrespondentsExist, Exists, dbvars, is_logged_in
<1>2. CASE is_logged_in(t)
  <2> DEFINE n == threads[t]
  <2>1. n \in Names /\ Exists(n)
    BY <1>2 DEF DBInv, TypeOK, SafeInv, Dangling, is_logged_in
  <2>2. n \notin Correspondents(n) /\ \A v \in Correspondents(n) : Exists(v)
    BY <2>1 DEF Correspondents, Considerate, NoSelfChat, SafeInv, CorrespondentsExist
  <2>3. Erase(t, Correspondents(n))
    BY <1>2, <2>1, <2>2 DEF delete_user, Dangling, Exists
  <2>4. /\ users' = [users EXCEPT ![n] = Absent]
        /\ threads' = [threads EXCEPT ![t] = Absent]
        /\ ~terminated'
        /\ chats' = [x \in Names |-> [y \in Names |->
              IF x = n \/ (y = n /\ x \in Correspondents(n)) THEN NoChat ELSE chats[x][y]]]
    BY <2>3 DEF Erase, SafeInv
  <2>5. \A u \in Names : Exists(u)' <=> Exists(u) /\ u # n
    BY <2>1, <2>4 DEF DBInv, TypeOK, Exists
  <2>6. ASSUME NEW u \in Names, NEW v \in Names, chats'[u][v].open
        PROVE  Exists(v)'
    <3>1. u # n /\ chats[u][v].open
      BY <2>4, <2>6 DEF NoChat
    <3>2. Exists(u) /\ Exists(v)
      BY <3>1 DEF SafeInv, CorrespondentsExist, NoChat
    <3>3. v # n
      <4>1. SUFFICES ASSUME v = n PROVE FALSE
        OBVIOUS
      <4>2. chats[n][u].open
        BY <4>1, <3>1, <3>2, <2>1 DEF DBInv, ChatsMirror
      <4>3. u \in Correspondents(n)
        BY <4>2 DEF Correspondents
      <4> QED
        BY <4>1, <4>3, <2>4, <2>6 DEF NoChat
    <3> QED
      BY <3>2, <3>3, <2>5
  <2>7. \A u, v \in Names : ~Exists(u)' => chats'[u][v] = NoChat
    BY <2>4, <2>5 DEF SafeInv
  <2>8. ASSUME NEW x \in Threads, is_logged_in(x)'
        PROVE  Exists(threads[x])' /\ threads'[x] = threads[x]
    <3>1. x # t /\ threads'[x] = threads[x] /\ threads[x] # Absent
      BY <2>4, <2>8 DEF DBInv, TypeOK, is_logged_in
    <3>2. threads[x] \in Names /\ Exists(threads[x])
      BY <3>1 DEF DBInv, TypeOK, SafeInv, Dangling, is_logged_in
    <3>3. threads[x] # n
      BY <3>1, <2>1, AbsentAssumption DEF Considerate, NoSharedSession
    <3> QED
      BY <3>1, <3>2, <3>3, <2>5
  <2>9. \A x \in Threads : ~Dangling(x)'
    BY <2>8 DEF Dangling, Exists, is_logged_in
  <2> QED
    BY <2>4, <2>6, <2>7, <2>9 DEF SafeInv, CorrespondentsExist
<1> QED
  BY <1>1, <1>2

\* The methods that only read, or change who is logged in.
LEMMA SafeSessions ==
    ASSUME SafeInv, UNCHANGED <<users, chats, terminated>>,
           \A x \in Threads : threads'[x] \in {threads[x], Absent} \/ Exists(threads'[x])
    PROVE  SafeInv'
<1>1. \A x \in Threads : ~Dangling(x)'
  BY DEF SafeInv, Dangling, Exists, is_logged_in
<1> QED
  BY <1>1 DEF SafeInv, CorrespondentsExist, Exists

\* send_txt preserves SafeInv: whoever it makes correspondents exists.
LEMMA SafeSend ==
    ASSUME DBInv, SafeInv, NEW t \in Threads, NEW to \in Names, NEW txt \in Contents,
           NEW s \in Status, send_txt(t, to, txt, s)
    PROVE  SafeInv'
<1>1. CASE UNCHANGED dbvars
  BY <1>1, SafeSessions DEF dbvars
<1>2. CASE ~UNCHANGED dbvars
  <2> DEFINE from == threads[t]
  <2>1. /\ Exists(from) /\ Exists(to) /\ from # Absent
        /\ chats' = [[chats EXCEPT ![from][to] = Push(chats[from][to], sender_you, txt)]
                       EXCEPT ![to][from] = Push(@, sender_other, txt)]
        /\ UNCHANGED <<users, historical_users, threads, terminated>>
    BY <1>2 DEF send_txt, is_logged_in, SafeInv
  <2>2. from \in Names
    BY <2>1 DEF DBInv, TypeOK
  <2>3. \A u, v \in Names : {u, v} # {from, to} => chats'[u][v] = chats[u][v]
    BY <2>1, <2>2 DEF DBInv, TypeOK
  <2>4. ASSUME NEW u \in Names, NEW v \in Names, chats'[u][v].open
        PROVE  Exists(v)
    <3>1. CASE {u, v} = {from, to}
      BY <3>1, <2>1
    <3>2. CASE {u, v} # {from, to}
      BY <3>2, <2>3, <2>4 DEF SafeInv, CorrespondentsExist
    <3> QED
      BY <3>1, <3>2
  <2>5. ASSUME NEW u \in Names, NEW v \in Names, ~Exists(u)
        PROVE  chats'[u][v] = NoChat
    <3>1. {u, v} # {from, to}
      BY <2>1, <2>5
    <3> QED
      BY <3>1, <2>3, <2>5 DEF SafeInv
  <2> QED
    BY <2>1, <2>4, <2>5 DEF SafeInv, CorrespondentsExist, Exists, Dangling, is_logged_in
<1> QED
  BY <1>1, <1>2

\* registration preserves SafeInv: the new user has no chats.
LEMMA SafeRegistration ==
    ASSUME DBInv, SafeInv, NEW n \in Names, NEW pw \in Passwords, NEW s \in Status,
           registration(n, pw, s)
    PROVE  SafeInv'
<1>1. CASE UNCHANGED dbvars
  BY <1>1, SafeSessions DEF dbvars
<1>2. CASE ~UNCHANGED dbvars
  <2>1. /\ n \notin historical_users
        /\ users' = [users EXCEPT ![n] = pw]
        /\ chats' = [chats EXCEPT ![n] = [v \in Names |-> NoChat]]
        /\ UNCHANGED <<threads, terminated>>
    BY <1>2 DEF registration
  <2>2. \A u, v \in Names : chats'[u][v] = chats[u][v]
    BY <2>1 DEF DBInv, TypeOK, History
  <2>3. \A u \in Names : Exists(u) => Exists(u)'
    BY <2>1, AbsentAssumption DEF DBInv, TypeOK, Exists
  <2>4. \A x \in Threads : is_logged_in(x) => threads[x] \in Names
    BY DEF DBInv, TypeOK, is_logged_in
  <2> QED
    BY <2>1, <2>2, <2>3, <2>4 DEF SafeInv, CorrespondentsExist, Dangling, is_logged_in, Exists
<1> QED
  BY <1>1, <1>2

\* No call of a considerate client leaves SafeInv.
LEMMA SafeNext ==
    ASSUME DBInv, SafeInv, Considerate, [DBNext]_dbvars
    PROVE  SafeInv'
<1>1. CASE UNCHANGED dbvars
  BY <1>1, SafeSessions DEF dbvars
<1>2. CASE DBNext
  <2>1. PICK t \in Threads, s \in Status :
           \/ logout(t, s)
           \/ delete_user(t, s)
           \/ get_correspondents(t, s)
           \/ \E n \in Names : recv_txt(t, n, s)
           \/ \E n \in Names, pw \in Passwords : login(t, n, pw, s)
           \/ \E n \in Names, pw \in Passwords : registration(n, pw, s)
           \/ \E n \in Names, txt \in Contents : send_txt(t, n, txt, s)
    BY <1>2 DEF DBNext, Call
  <2>2. CASE logout(t, s)
    <3>1. UNCHANGED <<users, chats, terminated>> /\ threads' = [threads EXCEPT ![t] = Absent]
      BY <2>2 DEF logout
    <3>2. \A x \in Threads : threads'[x] \in {threads[x], Absent}
      BY <3>1 DEF DBInv, TypeOK
    <3> QED
      BY <3>1, <3>2, SafeSessions
  <2>3. CASE \E n \in Names, pw \in Passwords : login(t, n, pw, s)
    <3>1. PICK n \in Names, pw \in Passwords : login(t, n, pw, s)
      BY <2>3
    <3>2. UNCHANGED <<users, chats, terminated>>
      BY <3>1 DEF login
    <3>3. threads' = threads \/ (Exists(n) /\ threads' = [threads EXCEPT ![t] = n])
      BY <3>1, AbsentAssumption DEF login, Exists, ok, error
    <3>4. \A x \in Threads : threads'[x] = threads[x] \/ Exists(threads'[x])
      BY <3>3 DEF DBInv, TypeOK
    <3> QED
      BY <3>2, <3>4, SafeSessions
  <2>4. CASE get_correspondents(t, s)
    BY <2>4, SafeSessions DEF get_correspondents, SafeInv, dbvars
  <2>5. CASE \E n \in Names : recv_txt(t, n, s)
    BY <2>5, SafeSessions DEF recv_txt, SafeInv, dbvars
  <2>6. CASE \E n \in Names, txt \in Contents : send_txt(t, n, txt, s)
    BY <2>6, SafeSend
  <2>7. CASE \E n \in Names, pw \in Passwords : registration(n, pw, s)
    BY <2>7, SafeRegistration
  <2> QED
    BY <2>1, <2>2, <2>3, <2>4, <2>5, <2>6, <2>7, SafeDelete
<1> QED
  BY <1>1, <1>2

\* With considerate clients, any number of them, users_.at never throws and no
\* iterator is invalidated: the server stays up and no map names a ghost.
THEOREM ConsiderateClientsAreSafe == DBSpec => SafeUse
<1>1. DBInit => SafeInv
  BY DEF DBInit, SafeInv, CorrespondentsExist, NoChat, Dangling, is_logged_in
<1>2. DBInv /\ SafeInv /\ Considerate /\ [DBNext]_dbvars => SafeInv'
  BY SafeNext
<1>3. SafeInv => CorrespondentsExist /\ ~terminated
  BY DEF SafeInv
<1> QED
  BY <1>1, <1>2, <1>3, Invariance, PTL DEF DBSpec, SafeUse
-----------------------------------------------------------------------------
(***************************************************************************)
(* Refinement: Database implements Conversations.                          *)
(***************************************************************************)

Mine(txt)  == [sender |-> sender_you, content |-> txt]
Yours(txt) == [sender |-> sender_other, content |-> txt]
EntryOf(a, txt) == [from |-> a, content |-> txt]

\* Attribution is position by position.
LEMMA AttributeType ==
    ASSUME NEW a \in Names, NEW b \in Names, NEW texts \in Seq(Text)
    PROVE  /\ Attribute(a, b, texts) \in Seq([from : Names, content : Contents])
           /\ Len(Attribute(a, b, texts)) = Len(texts)
           /\ \A i \in 1 .. Len(texts) : Attribute(a, b, texts)[i] =
                 EntryOf(IF texts[i].sender = sender_you THEN a ELSE b, texts[i].content)
<1>1. Attribute(a, b, texts) =
        [i \in 1 .. Len(texts) |->
           EntryOf(IF texts[i].sender = sender_you THEN a ELSE b, texts[i].content)]
  BY DEF Attribute, EntryOf
<1>2. \A i \in 1 .. Len(texts) : texts[i] \in Text
  OBVIOUS
<1>3. \A i \in 1 .. Len(texts) : texts[i].content \in Contents
  BY <1>2 DEF Text
<1> QED
  BY <1>1, <1>3 DEF EntryOf

\* The two copies attribute every text to the same author.
LEMMA AttributeFlip ==
    ASSUME NEW a \in Names, NEW b \in Names, NEW texts \in Seq(Text)
    PROVE  Attribute(a, b, FlipAll(texts)) = Attribute(b, a, texts)
<1> DEFINE other == FlipAll(texts)
           l == Attribute(a, b, other)
           r == Attribute(b, a, texts)
<1>1. /\ other \in Seq(Text) /\ Len(other) = Len(texts)
      /\ \A i \in 1 .. Len(texts) : other[i] = Flip(texts[i])
  BY FlipAllType
<1> HIDE DEF other
<1>2. /\ l \in Seq([from : Names, content : Contents]) /\ Len(l) = Len(texts)
      /\ r \in Seq([from : Names, content : Contents]) /\ Len(r) = Len(texts)
  BY <1>1, AttributeType
<1>3. ASSUME NEW i \in 1 .. Len(texts)
      PROVE  l[i] = r[i]
  <2>1. texts[i] \in Text
    OBVIOUS
  <2>2. /\ Flip(texts[i]).content = texts[i].content
        /\ Flip(texts[i]).sender = sender_you <=> texts[i].sender # sender_you
    BY <2>1 DEF Flip, Text, sender_you, sender_other
  <2>5. l[i] = EntryOf(IF other[i].sender = sender_you THEN a ELSE b, other[i].content)
    BY <1>1, AttributeType
  <2>6. other[i] = Flip(texts[i])
    BY <1>1
  <2>3. l[i] = EntryOf(IF Flip(texts[i]).sender = sender_you THEN a ELSE b,
                       Flip(texts[i]).content)
    BY <2>5, <2>6
  <2>4. r[i] = EntryOf(IF texts[i].sender = sender_you THEN b ELSE a, texts[i].content)
    BY AttributeType
  <2> QED
    BY <2>2, <2>3, <2>4
<1> HIDE DEF l, r
<1>4. l = r
  BY <1>2, <1>3
<1> QED
  BY <1>4 DEF l, r, other

\* A text that is appended is attributed and appended.
LEMMA AttributeAppend ==
    ASSUME NEW a \in Names, NEW b \in Names, NEW texts \in Seq(Text), NEW x \in Text
    PROVE  Attribute(a, b, Append(texts, x)) =
             Append(Attribute(a, b, texts),
                    EntryOf(IF x.sender = sender_you THEN a ELSE b, x.content))
<1> DEFINE grown == Append(texts, x)
           e == EntryOf(IF x.sender = sender_you THEN a ELSE b, x.content)
           old == Attribute(a, b, texts)
           l == Attribute(a, b, grown)
           r == Append(old, e)
<1>1. grown \in Seq(Text) /\ Len(grown) = Len(texts) + 1 /\ Len(texts) \in Nat
  OBVIOUS
<1>2. e \in [from : Names, content : Contents]
  BY DEF EntryOf, Text
<1>3. l \in Seq([from : Names, content : Contents]) /\ Len(l) = Len(texts) + 1
  BY <1>1, AttributeType
<1>4. /\ old \in Seq([from : Names, content : Contents]) /\ Len(old) = Len(texts)
      /\ \A i \in 1 .. Len(texts) : old[i] =
            EntryOf(IF texts[i].sender = sender_you THEN a ELSE b, texts[i].content)
  BY AttributeType
<1> HIDE DEF old, e
<1>7. r \in Seq([from : Names, content : Contents]) /\ Len(r) = Len(texts) + 1
  BY <1>2, <1>4
<1>5. ASSUME NEW i \in 1 .. Len(texts) + 1
      PROVE  l[i] = r[i]
  <2>1. l[i] = EntryOf(IF grown[i].sender = sender_you THEN a ELSE b, grown[i].content)
    BY <1>1, AttributeType
  <2>2. CASE i = Len(texts) + 1
    <3>1. grown[i] = x
      BY <2>2
    <3>2. r[i] = e
      BY <2>2, <1>2, <1>4
    <3> QED
      BY <2>1, <3>1, <3>2 DEF e
  <2>3. CASE i \in 1 .. Len(texts)
    <3>1. grown[i] = texts[i]
      BY <2>3
    <3>2. r[i] = old[i]
      BY <2>3, <1>2, <1>4
    <3> QED
      BY <2>1, <2>3, <3>1, <3>2, <1>4
  <2>4. i = Len(texts) + 1 \/ i \in 1 .. Len(texts)
    BY <1>1
  <2> QED
    BY <2>2, <2>3, <2>4
<1> HIDE DEF l, r
<1>6. l = r
  BY <1>3, <1>7, <1>5
<1> QED
  BY <1>6 DEF l, r, old, e, grown

\* The log of two users who exist is what either copy says.
LogLaw ==
    \A u, v \in Names :
       LogMap[{u, v}] = IF Exists(u) /\ Exists(v)
                       THEN Attribute(u, v, chats[u][v].texts) ELSE <<>>

\* Whichever of the two users CHOOSE picks, the log of a pair is the same.
LEMMA LogOfPair == DBInv => LogLaw
<1> SUFFICES ASSUME DBInv, NEW u \in Names, NEW v \in Names
             PROVE  LogMap[{u, v}] = IF Exists(u) /\ Exists(v)
                                    THEN Attribute(u, v, chats[u][v].texts) ELSE <<>>
  BY DEF LogLaw
<1> DEFINE a == CHOOSE x \in {u, v} : TRUE
           b == CHOOSE x \in {u, v} : {u, v} = {a, x}
<1>1. a \in {u, v}
  OBVIOUS
<1>2. \E x \in {u, v} : {u, v} = {a, x}
  BY <1>1
<1>3. b \in {u, v} /\ {u, v} = {a, b}
  BY <1>2
<1>4. LogMap[{u, v}] = IF \A x \in {u, v} : Exists(x)
                      THEN Attribute(a, b, chats[a][b].texts) ELSE <<>>
  BY DEF LogOf, LogMap
<1> HIDE DEF a, b
<1>5. CASE Exists(u) /\ Exists(v)
  <2>1. LogMap[{u, v}] = Attribute(a, b, chats[a][b].texts)
    BY <1>4, <1>5
  <2>2. CASE a = u /\ b = v
    BY <1>5, <2>1, <2>2
  <2>3. CASE a = v /\ b = u /\ u # v
    <3>1. chats[u][v].texts = FlipAll(chats[v][u].texts)
      BY <1>5, <2>3 DEF DBInv, ChatsMirror
    <3>2. chats[v][u].texts \in Seq(Text)
      BY DEF DBInv, TypeOK, Chat
    <3> QED
      BY <1>5, <2>1, <2>3, <3>1, <3>2, AttributeFlip
  <2> QED
    BY <1>1, <1>3, <2>2, <2>3
<1>6. CASE ~(Exists(u) /\ Exists(v))
  BY <1>4, <1>6
<1> QED
  BY <1>5, <1>6

\* The same in the next state.
LEMMA LogOfPairNext == DBInv' => LogLaw'
BY LogOfPair, PTL
\* Calls that touch neither users nor chats leave accounts and logs alone.
LEMMA MapsFixed ==
    ASSUME UNCHANGED <<users, chats, historical_users>>
    PROVE  AccountMap' = AccountMap /\ LogMap' = LogMap
BY DEF AccountMap, LogMap, LogOf, Exists

\* LogMap is a function on the pairs of names, before and after a step.
LEMMA LogMapOnPairs ==
    /\ LogMap  = [p \in Promise!Pairs |-> LogMap[p]]
    /\ LogMap' = [p \in Promise!Pairs |-> LogMap'[p]]
    /\ \A p \in Promise!Pairs : \E u, v \in Names : p = {u, v}
BY DEF LogMap, Promise!Pairs

\* registration is Register, or a stutter when it fails.
LEMMA RefineRegistration ==
    ASSUME DBInv, LogLaw, LogLaw', NEW n \in Names, NEW pw \in Passwords, NEW s \in Status,
           registration(n, pw, s)
    PROVE  [Promise!ANext]_(Promise!avars)
<1>1. CASE UNCHANGED dbvars
  BY <1>1, MapsFixed DEF dbvars, Promise!avars
<1>2. CASE ~UNCHANGED dbvars
  <2>1. /\ ~Exists(n) /\ n \notin historical_users
        /\ users' = [users EXCEPT ![n] = pw]
        /\ chats' = [chats EXCEPT ![n] = [v \in Names |-> NoChat]]
        /\ historical_users' = historical_users \cup {n}
        /\ UNCHANGED <<threads, terminated>>
    BY <1>2 DEF registration
  <2>2. \A u, v \in Names : chats'[u][v] = chats[u][v]
    BY <2>1 DEF DBInv, TypeOK, History
  <2>3. \A u \in Names : u # n => (Exists(u)' <=> Exists(u))
    BY <2>1 DEF DBInv, TypeOK, Exists
  <2>4. ASSUME NEW u \in Names, NEW v \in Names
        PROVE  LogMap'[{u, v}] = LogMap[{u, v}]
    <3>1. CASE u # n /\ v # n
      BY <3>1, <2>2, <2>3 DEF LogLaw
    <3>2. CASE u = n \/ v = n
      <4>1. LogMap[{u, v}] = <<>>
        BY <3>2, <2>1 DEF LogLaw
      <4>2. chats'[u][v].texts = <<>>
        BY <3>2, <2>1, <2>2 DEF DBInv, History, NoChat
      <4>3. Attribute(u, v, <<>>) = <<>>
        BY DEF Attribute
      <4> QED
        BY <4>1, <4>2, <4>3 DEF LogLaw
    <3> QED
      BY <3>1, <3>2
  <2>5. LogMap' = LogMap
    BY <2>4, LogMapOnPairs
  <2>6. AccountMap[n] = "free"
    BY <2>1 DEF AccountMap
  <2>7. \A u \in Names : u # n => AccountMap'[u] = AccountMap[u]
    BY <2>1, <2>3 DEF AccountMap
  <2>8. AccountMap'[n] = "live"
    BY <2>1, AbsentAssumption DEF AccountMap, Exists, DBInv, TypeOK
  <2>9. AccountMap' = [AccountMap EXCEPT ![n] = "live"]
    BY <2>7, <2>8 DEF AccountMap
  <2>10. Promise!Register(n, pw)
    BY <2>1, <2>5, <2>6, <2>9 DEF Promise!Register
  <2> QED
    BY <2>10 DEF Promise!ANext
<1> QED
  BY <1>1, <1>2

\* delete_user is Remove: both copies of every conversation are gone.
LEMMA RefineErase ==
    ASSUME DBInv, LogLaw, LogLaw', NEW t \in Threads, NEW visited,
           is_logged_in(t), Exists(threads[t]), Erase(t, visited)
    PROVE  Promise!Remove(t)
<1>1. PICK n \in Names : n = threads[t] /\ n \in historical_users
  BY DEF DBInv, TypeOK, History, is_logged_in
<1>2. /\ users' = [users EXCEPT ![n] = Absent]
      /\ threads' = [threads EXCEPT ![t] = Absent]
      /\ UNCHANGED historical_users
      /\ \A u, v \in Names : u # n /\ v # n => chats'[u][v] = chats[u][v]
  BY <1>1 DEF Erase
<1>3. ~Exists(n)' /\ \A u \in Names : u # n => (Exists(u)' <=> Exists(u))
  BY <1>1, <1>2 DEF DBInv, TypeOK, Exists
<1>4. ASSUME NEW u \in Names, NEW v \in Names
      PROVE  LogMap'[{u, v}] = IF n \in {u, v} THEN <<>> ELSE LogMap[{u, v}]
  <2>1. CASE u = n \/ v = n
    <3>1. LogMap'[{u, v}] = <<>>
      BY <2>1, <1>3 DEF LogLaw, Exists
    <3> QED
      BY <2>1, <3>1
  <2>2. CASE u # n /\ v # n
    <3>1. chats'[u][v] = chats[u][v] /\ (Exists(u)' <=> Exists(u)) /\ (Exists(v)' <=> Exists(v))
      BY <2>2, <1>2, <1>3
    <3>3. LogMap[{u, v}] = IF Exists(u) /\ Exists(v)
                           THEN Attribute(u, v, chats[u][v].texts) ELSE <<>>
      BY DEF LogLaw
    <3>4. LogMap'[{u, v}] = IF Exists(u)' /\ Exists(v)'
                            THEN Attribute(u, v, chats'[u][v].texts) ELSE <<>>
      BY DEF LogLaw
    <3>2. LogMap'[{u, v}] = LogMap[{u, v}]
      BY <3>1, <3>3, <3>4
    <3> QED
      BY <2>2, <3>2
  <2> QED
    BY <2>1, <2>2
<1>5. LogMap' = [p \in Promise!Pairs |-> IF n \in p THEN <<>> ELSE LogMap[p]]
  <2>1. \A p \in Promise!Pairs : LogMap'[p] = IF n \in p THEN <<>> ELSE LogMap[p]
    BY <1>4, LogMapOnPairs
  <2> QED
    BY <2>1, LogMapOnPairs
<1>6. AccountMap[n] = "live"
  BY <1>1 DEF AccountMap
<1>7. AccountMap' = [AccountMap EXCEPT ![n] = "gone"]
  <2>1. \A u \in Names : u # n => AccountMap'[u] = AccountMap[u]
    BY <1>2, <1>3 DEF AccountMap
  <2>2. AccountMap'[n] = "gone"
    BY <1>1, <1>2, <1>3 DEF AccountMap
  <2> QED
    BY <2>1, <2>2 DEF AccountMap
<1>8. n # Absent
  BY <1>1 DEF is_logged_in
<1> QED
  BY <1>1, <1>2, <1>5, <1>6, <1>7, <1>8 DEF Promise!Remove

\* send_txt is Send: two copies written, one entry in the log.
LEMMA RefineSend ==
    ASSUME DBInv, LogLaw, LogLaw', NEW t \in Threads, NEW to \in Names,
           NEW txt \in Contents, NEW s \in Status, send_txt(t, to, txt, s)
    PROVE  [Promise!ANext]_(Promise!avars)
<1>1. CASE UNCHANGED dbvars
  BY <1>1, MapsFixed DEF dbvars, Promise!avars
<1>2. CASE Terminate
  BY <1>2, MapsFixed DEF Terminate, Promise!avars
<1>3. CASE ~UNCHANGED dbvars /\ ~Terminate
  <2>0. is_logged_in(t)
    BY <1>3 DEF send_txt
  <2>2. PICK from \in Names : from = threads[t]
    BY <2>0 DEF DBInv, TypeOK, is_logged_in
  <2> DEFINE entry == EntryOf(from, txt)
  <2>1. /\ from # Absent /\ Exists(from) /\ Exists(to)
        /\ chats' = [[chats EXCEPT ![from][to] = Push(chats[from][to], sender_you, txt)]
                       EXCEPT ![to][from] = Push(@, sender_other, txt)]
        /\ UNCHANGED <<users, historical_users, threads, terminated>>
    BY <1>3, <2>2 DEF send_txt, is_logged_in
  <2>3. \A u, v \in Names : chats[u][v] \in Chat /\ chats[u][v].texts \in Seq(Text)
    BY DEF DBInv, TypeOK, Chat
  <2>4. \A u, v \in Names : {u, v} # {from, to} => chats'[u][v] = chats[u][v]
    BY <2>1, <2>2 DEF DBInv, TypeOK
  <2>5. /\ Mine(txt) \in Text /\ Mine(txt).sender = sender_you /\ Mine(txt).content = txt
        /\ Yours(txt) \in Text /\ Yours(txt).sender # sender_you
        /\ Yours(txt).content = txt
    BY DEF Mine, Yours, Text, sender_you, sender_other
  <2>6. entry \in [from : Names, content : Contents]
    BY <2>2 DEF EntryOf
  <2> DEFINE old == Attribute(from, to, chats[from][to].texts)
  <2>7. old \in Seq([from : Names, content : Contents])
    BY <2>2, <2>3, AttributeType
  <2>8. LogMap[{from, to}] = old
    BY <2>1, <2>2 DEF LogLaw
  <2>9. LogMap'[{from, to}] = Attribute(from, to, chats'[from][to].texts)
    BY <2>1, <2>2 DEF LogLaw, Exists
  <2>10. ASSUME from # to
         PROVE  Attribute(from, to, chats'[from][to].texts) = Append(old, entry)
    <3>1. chats'[from][to] = Push(chats[from][to], sender_you, txt)
      BY <2>1, <2>2, <2>10 DEF DBInv, TypeOK
    <3>2. Push(chats[from][to], sender_you, txt).texts = Append(chats[from][to].texts, Mine(txt))
      BY <2>2, <2>3, PushFields DEF Mine, sender_you, sender_other
    <3> QED
      BY <3>1, <3>2, <2>2, <2>3, <2>5, AttributeAppend
  <2>11. ASSUME from = to
         PROVE  Attribute(from, to, chats'[from][to].texts) = Append(Append(old, entry), entry)
    <3> DEFINE once == Push(chats[from][from], sender_you, txt)
               half == [chats EXCEPT ![from][from] = once]
    <3>0. half \in [Names -> [Names -> Chat]] /\ half[from][from] = once
      BY <2>2, <2>3, PushType DEF DBInv, TypeOK, sender_you, sender_other
    <3>7. chats' = [half EXCEPT ![from][from] = Push(half[from][from], sender_other, txt)]
      BY <2>1, <2>11
    <3> HIDE DEF half
    <3>1. chats'[from][to] = Push(once, sender_other, txt)
      BY <3>0, <3>7, <2>2, <2>11
    <3>2. once \in Chat /\ once.texts \in Seq(Text)
      BY <2>2, <2>3, PushType DEF Chat, sender_you, sender_other
    <3>9. chats[from][from] \in Chat /\ sender_you \in {sender_you, sender_other}
      BY <2>2, <2>3
    <3>10. Push(chats[from][from], sender_you, txt).texts
             = Append(chats[from][from].texts, Mine(txt))
      BY <3>9, <2>2, <2>3, PushFields DEF Mine, sender_you, sender_other
    <3>3. once.texts = Append(chats[from][to].texts, Mine(txt))
      BY <3>10, <2>11
    <3>8. Push(once, sender_other, txt).texts = Append(once.texts, Yours(txt))
      BY <3>2, PushFields DEF Yours, sender_you, sender_other
    <3>4. chats'[from][to].texts = Append(once.texts, Yours(txt))
      BY <3>1, <3>8
    <3>5. Attribute(from, to, once.texts) = Append(old, entry)
      BY <3>3, <2>2, <2>3, <2>5, AttributeAppend
    <3> HIDE DEF once
    <3>6. Attribute(from, to, Append(once.texts, Yours(txt)))
            = Append(Attribute(from, to, once.texts), EntryOf(to, txt))
      BY <3>2, <2>2, <2>5, AttributeAppend
    <3> QED
      BY <3>4, <3>5, <3>6, <2>11
  <2> HIDE DEF old, entry
  <2>12. LogMap'[{from, to}] = old \o Promise!Copies(from, to, txt)
    <3>1. Promise!Copies(from, to, txt) = IF from = to THEN <<entry, entry>> ELSE <<entry>>
      BY DEF Promise!Copies, entry, EntryOf
    <3>2. old \o <<entry>> = Append(old, entry)
      BY <2>6, <2>7
    <3>3. old \o <<entry, entry>> = Append(Append(old, entry), entry)
      BY <2>6, <2>7
    <3> QED
      BY <3>1, <3>2, <3>3, <2>9, <2>10, <2>11
  <2>13. ASSUME NEW u \in Names, NEW v \in Names, {u, v} # {from, to}
         PROVE  LogMap'[{u, v}] = LogMap[{u, v}]
    <3>1. (Exists(u)' <=> Exists(u)) /\ (Exists(v)' <=> Exists(v))
      BY <2>1 DEF Exists
    <3>2. chats'[u][v] = chats[u][v]
      BY <2>4, <2>13
    <3> QED
      BY <3>1, <3>2 DEF LogLaw
  <2>14. LogMap' = [LogMap EXCEPT ![{from, to}] = @ \o Promise!Copies(from, to, txt)]
    <3>1. ASSUME NEW p \in Promise!Pairs
          PROVE  LogMap'[p] = IF p = {from, to} THEN LogMap[p] \o Promise!Copies(from, to, txt)
                                                ELSE LogMap[p]
      <4>1. PICK u \in Names, v \in Names : p = {u, v}
        BY LogMapOnPairs
      <4>2. CASE p = {from, to}
        BY <4>2, <2>8, <2>12
      <4>3. CASE p # {from, to}
        BY <4>1, <4>3, <2>13
      <4> QED
        BY <4>2, <4>3
    <3> QED
      BY <3>1, LogMapOnPairs
  <2>15. AccountMap' = AccountMap /\ AccountMap[from] = "live" /\ AccountMap[to] = "live"
    BY <2>1, <2>2 DEF AccountMap, Exists
  <2>16. Promise!Send(t, to, txt)
    BY <2>1, <2>2, <2>14, <2>15 DEF Promise!Send
  <2> QED
    BY <2>16 DEF Promise!ANext
<1> QED
  BY <1>1, <1>2, <1>3

\* Every call of a method is a step of Conversations or changes nothing in it.
LEMMA StepRefines ==
    ASSUME DBInv, LogLaw, LogLaw', [DBNext]_dbvars
    PROVE  [Promise!ANext]_(Promise!avars)
<1>1. CASE UNCHANGED dbvars
  BY <1>1, MapsFixed DEF dbvars, Promise!avars
<1>2. CASE Terminate
  BY <1>2, MapsFixed DEF Terminate, Promise!avars
<1>3. CASE DBNext
  <2>1. PICK t \in Threads, s \in Status :
           \/ logout(t, s)
           \/ delete_user(t, s)
           \/ get_correspondents(t, s)
           \/ \E n \in Names : recv_txt(t, n, s)
           \/ \E n \in Names, pw \in Passwords : login(t, n, pw, s)
           \/ \E n \in Names, pw \in Passwords : registration(n, pw, s)
           \/ \E n \in Names, txt \in Contents : send_txt(t, n, txt, s)
    BY <1>3 DEF DBNext, Call
  <2>2. CASE logout(t, s)
    <3>1. AccountMap' = AccountMap /\ LogMap' = LogMap /\ users' = users
      BY <2>2, MapsFixed DEF logout
    <3>2. CASE is_logged_in(t)
      BY <2>2, <3>1, <3>2 DEF logout, is_logged_in, Promise!ANext, Promise!Logout
    <3>3. CASE ~is_logged_in(t)
      <4>1. threads' = threads
        BY <2>2, <3>3 DEF logout, is_logged_in, DBInv, TypeOK
      <4> QED
        BY <3>1, <4>1 DEF Promise!avars
    <3> QED
      BY <3>2, <3>3
  <2>3. CASE \E n \in Names, pw \in Passwords : login(t, n, pw, s)
    <3>1. PICK n \in Names, pw \in Passwords : login(t, n, pw, s)
      BY <2>3
    <3>2. AccountMap' = AccountMap /\ LogMap' = LogMap /\ users' = users
      BY <3>1, MapsFixed DEF login
    <3>3. CASE s = ok
      <4>1. /\ threads[t] = Absent /\ users[n] = pw
            /\ threads' = [threads EXCEPT ![t] = n]
        BY <3>1, <3>3 DEF login, is_logged_in, ok, error
      <4>2. AccountMap[n] = "live"
        BY <4>1, AbsentAssumption DEF AccountMap, Exists
      <4>3. Promise!Login(t, n, pw)
        BY <3>2, <4>1, <4>2 DEF Promise!Login
      <4> QED
        BY <4>3 DEF Promise!ANext
    <3>4. CASE s # ok
      BY <3>1, <3>2, <3>4 DEF login, Promise!avars
    <3> QED
      BY <3>3, <3>4
  <2>4. CASE delete_user(t, s)
    <3>1. \/ UNCHANGED dbvars
          \/ Terminate
          \/ is_logged_in(t) /\ Exists(threads[t]) /\ \E visited : Erase(t, visited)
      BY <2>4 DEF delete_user
    <3>2. CASE is_logged_in(t) /\ Exists(threads[t]) /\ \E visited : Erase(t, visited)
      BY <3>2, RefineErase DEF Promise!ANext
    <3> QED
      BY <3>1, <3>2, <1>1, <1>2
  <2>5. CASE get_correspondents(t, s)
    BY <2>5, <1>1, <1>2 DEF get_correspondents
  <2>6. CASE \E n \in Names : recv_txt(t, n, s)
    BY <2>6, <1>1, <1>2 DEF recv_txt
  <2>7. CASE \E n \in Names, pw \in Passwords : registration(n, pw, s)
    BY <2>7, RefineRegistration
  <2>8. CASE \E n \in Names, txt \in Contents : send_txt(t, n, txt, s)
    BY <2>8, RefineSend
  <2> QED
    BY <2>1, <2>2, <2>3, <2>4, <2>5, <2>6, <2>7, <2>8
<1> QED
  BY <1>1, <1>3

\* The empty database is the state in which nothing is promised yet.
LEMMA InitRefines == DBInit => Promise!AInit
<1> SUFFICES ASSUME DBInit PROVE Promise!AInit
  OBVIOUS
<1>1. \A n \in Names : ~Exists(n)
  BY DEF DBInit, Exists
<1>2. AccountMap = [n \in Names |-> "free"]
  BY <1>1 DEF DBInit, AccountMap
<1>3. LogLaw
  BY InitInv, LogOfPair
<1>4. \A u, v \in Names : LogMap[{u, v}] = <<>>
  BY <1>1, <1>3 DEF LogLaw
<1>5. LogMap = [p \in Promise!Pairs |-> <<>>]
  <2>1. ASSUME NEW p \in Promise!Pairs
        PROVE  LogMap[p] = <<>>
    <3>1. PICK u \in Names, v \in Names : p = {u, v}
      BY LogMapOnPairs
    <3> QED
      BY <3>1, <1>4
  <2> QED
    BY <2>1, LogMapOnPairs
<1> QED
  BY <1>2, <1>5 DEF DBInit, Promise!AInit

\* The two-copy database implements one log per pair of users.
THEOREM Refinement == DBSpec => ImplementsConversations
<1>1. DBInit => Promise!AInit
  BY InitRefines
<1>2. DBInv /\ DBInv' /\ [DBNext]_dbvars => [Promise!ANext]_(Promise!avars)
  BY StepRefines, LogOfPair, LogOfPairNext
<1> QED
  BY <1>1, <1>2, Invariance, PTL DEF DBSpec, ImplementsConversations, Promise!ASpec
=============================================================================
