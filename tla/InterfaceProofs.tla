--------------------------- MODULE InterfaceProofs ---------------------------
(***************************************************************************)
(* What is proved of Interface: its invariants hold for any number of      *)
(* users, passwords, texts and other connections, with none of the bounds  *)
(* of MCInterface.                                                         *)
(***************************************************************************)
EXTENDS Interface, DatabaseProofs, SequenceTheorems

(***************************************************************************)
(* The tables of screens.                                                  *)
(***************************************************************************)

\* A choice that makes no request opens no screen for members to others, and no
\* chat.
LEMMA MenuFacts ==
    ASSUME NEW a, NEW b, <<a, b>> \in Menu
    PROVE  /\ b \in Screens
           /\ b \in MemberScreens => a \in MemberScreens
           /\ b \notin {"registration_success", "recv_txt", "send_txt"}
           /\ a \in {"login", "registration"} => b \notin MemberScreens
BY DEF Menu, Screens, MemberScreens

\* Only a login makes a member of the user, and a chat opens only when it has
\* been received.
LEMMA AfterFacts ==
    /\ DOMAIN AfterOk = {"login", "registration", "registration_success", "main_menu",
                         "open_chats", "recv_txt", "send_txt", "search_accounts",
                         "delete_account"}
    /\ \A s \in DOMAIN AfterOk :
          /\ AfterOk[s] \in Screens /\ AfterRefusal[s] \in Screens
          /\ AfterOk[s] \in MemberScreens =>
                s \in MemberScreens \cup {"login", "registration_success"}
          /\ AfterOk[s] = "registration_success" => s = "registration"
          /\ AfterOk[s] = "send_txt" => s \in {"recv_txt", "send_txt"}
          /\ AfterOk[s] # "recv_txt"
          /\ s \in {"main_menu", "delete_account"} => AfterOk[s] \notin MemberScreens
          /\ AfterRefusal[s] \in MemberScreens => s \in MemberScreens
          /\ AfterRefusal[s] \notin {"registration_success", "recv_txt", "send_txt"}
<1>1. DOMAIN AfterOk = {"login", "registration", "registration_success", "main_menu",
                        "open_chats", "recv_txt", "send_txt", "search_accounts",
                        "delete_account"}
  BY DEF AfterOk
<1>2. /\ AfterOk["login"] = "main_menu" /\ AfterOk["registration"] = "registration_success"
      /\ AfterOk["registration_success"] = "main_menu"
      /\ AfterOk["main_menu"] = "login_registration"
      /\ AfterOk["open_chats"] = "open_chats_success"
      /\ AfterOk["recv_txt"] = "send_txt" /\ AfterOk["send_txt"] = "send_txt"
      /\ AfterOk["search_accounts"] = "search_accounts_success"
      /\ AfterOk["delete_account"] = "delete_account_success"
  BY DEF AfterOk
<1>3. /\ AfterRefusal["login"] = "login_fail"
      /\ AfterRefusal["registration"] = "registration_fail"
      /\ AfterRefusal["registration_success"] = "login_fail"
      /\ AfterRefusal["main_menu"] = "main_menu"
      /\ AfterRefusal["open_chats"] = "open_chats_fail"
      /\ AfterRefusal["recv_txt"] = "recv_txt_fail"
      /\ AfterRefusal["send_txt"] = "send_txt_fail"
      /\ AfterRefusal["search_accounts"] = "search_accounts_fail"
      /\ AfterRefusal["delete_account"] = "delete_account_fail"
  BY DEF AfterRefusal
<1> QED
  BY <1>1, <1>2, <1>3 DEF Screens, MemberScreens

(***************************************************************************)
(* The socket.                                                             *)
(***************************************************************************)

\* A queue of one element.
LEMMA OneElement ==
    ASSUME NEW S, NEW q \in Seq(S)
    PROVE  /\ Len(q) = 1 => Head(q) \in S /\ Tail(q) = <<>> /\ q = <<Head(q)>> /\ q # <<>>
           /\ \A x \in S : /\ Append(<<>>, x) \in Seq(S) /\ Append(<<>>, x) # <<>>
                           /\ Len(Append(<<>>, x)) = 1 /\ Head(Append(<<>>, x)) = x
<1>1. ASSUME Len(q) = 1 PROVE Head(q) \in S /\ Tail(q) = <<>> /\ q = <<Head(q)>> /\ q # <<>>
  <2>1. Head(q) = q[1] /\ q[1] \in S /\ q # <<>>
    BY <1>1
  <2>2. Tail(q) \in Seq(S) /\ Len(Tail(q)) = 0
    BY <1>1, <2>1
  <2>3. Tail(q) = <<>>
    BY <2>2, EmptySeq
  <2>4. q = <<Head(q)>>
    BY <1>1, <2>1
  <2> QED
    BY <2>1, <2>3, <2>4
<1>2. ASSUME NEW x \in S
      PROVE  /\ Append(<<>>, x) \in Seq(S) /\ Append(<<>>, x) # <<>>
             /\ Len(Append(<<>>, x)) = 1 /\ Head(Append(<<>>, x)) = x
  <2>1. <<>> \in Seq(S)
    OBVIOUS
  <2>2. Append(<<>>, x) \in Seq(S) /\ Len(Append(<<>>, x)) = 1 /\ Append(<<>>, x)[1] = x
    BY <2>1
  <2>3. Append(<<>>, x) # <<>>
    BY <2>2
  <2> QED
    BY <2>2, <2>3
<1> QED
  BY <1>1, <1>2

\* Nothing is on the socket when no thread waits.
LEMMA Idle ==
    ASSUME SocketInv, ~Waiting
    PROVE  inq = <<>> /\ outq = <<>>
BY DEF SocketInv

(***************************************************************************)
(* The database under the interface.                                       *)
(***************************************************************************)

\* A conversation of two users who go on existing only grows, at its end, and a
\* registered name that does not exist never comes back.
LEMMA ChatGrows ==
    ASSUME DBInv, [DBNext]_dbvars, NEW u \in historical_users, NEW v \in historical_users,
           Exists(u)', Exists(v)'
    PROVE  /\ Exists(u) /\ Exists(v)
           /\ Len(chats[u][v].texts) <= Len(chats'[u][v].texts)
           /\ \A i \in 1 .. Len(chats[u][v].texts) : chats'[u][v].texts[i] = chats[u][v].texts[i]
<1>1. u \in Names /\ v \in Names /\ chats[u][v] \in Chat /\ chats[u][v].texts \in Seq(Text)
  BY DEF DBInv, TypeOK, Chat
<1>2. ASSUME users'[u] = users[u], users'[v] = users[v], chats'[u][v] = chats[u][v]
      PROVE  /\ Exists(u) /\ Exists(v)
             /\ Len(chats[u][v].texts) <= Len(chats'[u][v].texts)
             /\ \A i \in 1 .. Len(chats[u][v].texts) :
                    chats'[u][v].texts[i] = chats[u][v].texts[i]
  BY <1>1, <1>2 DEF Exists
<1>3. CASE UNCHANGED <<users, chats>>
  BY <1>2, <1>3
<1>4. CASE DBNext /\ ~UNCHANGED <<users, chats>>
  <2>1. PICK t \in Threads, s \in Status :
           \/ delete_user(t, s)
           \/ \E n \in Names, pw \in Passwords : registration(n, pw, s)
           \/ \E n \in Names, txt \in Contents : send_txt(t, n, txt, s)
    BY <1>4 DEF DBNext, Call, logout, login, get_correspondents, recv_txt, Terminate, dbvars
  <2>2. CASE delete_user(t, s)
    <3>1. is_logged_in(t) /\ \E visited : Erase(t, visited)
      BY <1>4, <2>2 DEF delete_user, Terminate, dbvars
    <3>2. threads[t] \in Names
      BY <3>1 DEF DBInv, TypeOK, is_logged_in
    <3>3. users' = [users EXCEPT ![threads[t]] = Absent]
      BY <3>1 DEF Erase
    <3>4. u # threads[t] /\ v # threads[t] /\ users'[u] = users[u] /\ users'[v] = users[v]
      BY <1>1, <3>2, <3>3 DEF DBInv, TypeOK, Exists
    <3>5. chats'[u][v] = chats[u][v]
      BY <1>1, <3>1, <3>4 DEF Erase
    <3> QED
      BY <1>2, <3>4, <3>5
  <2>3. ASSUME NEW n \in Names, NEW pw \in Passwords, registration(n, pw, s)
        PROVE  users'[u] = users[u] /\ users'[v] = users[v] /\ chats'[u][v] = chats[u][v]
    BY <1>1, <1>4, <2>3 DEF registration, DBInv, TypeOK, dbvars
  <2>4. ASSUME NEW n \in Names, NEW txt \in Contents, send_txt(t, n, txt, s)
        PROVE  /\ UNCHANGED users
               /\ Len(chats[u][v].texts) <= Len(chats'[u][v].texts)
               /\ \A i \in 1 .. Len(chats[u][v].texts) :
                      chats'[u][v].texts[i] = chats[u][v].texts[i]
    <3>1. is_logged_in(t) /\ UNCHANGED users
      BY <1>4, <2>4 DEF send_txt, Terminate, dbvars
    <3>2. PICK from \in Names : from = threads[t]
      BY <3>1 DEF DBInv, TypeOK, is_logged_in
    <3> DEFINE sent == [chats EXCEPT ![from][n] = Push(chats[from][n], sender_you, txt)]
               Longer(c, d) == /\ Len(c.texts) <= Len(d.texts)
                               /\ \A i \in 1 .. Len(c.texts) : d.texts[i] = c.texts[i]
    <3>3. chats' = [sent EXCEPT ![n][from] = Push(@, sender_other, txt)]
      BY <1>4, <2>4, <3>2 DEF send_txt, Terminate, dbvars
    <3>4. \A c \in Chat, who \in {sender_you, sender_other} :
             Push(c, who, txt) \in Chat /\ Longer(c, Push(c, who, txt)) /\ Longer(c, c)
      <4>1. SUFFICES ASSUME NEW c \in Chat, NEW who \in {sender_you, sender_other}
                     PROVE  Push(c, who, txt) \in Chat /\ Longer(c, Push(c, who, txt)) /\ Longer(c, c)
        OBVIOUS
      <4>2. c.texts \in Seq(Text) /\ [sender |-> who, content |-> txt] \in Text
        BY DEF Chat, Text
      <4>3. Push(c, who, txt).texts = Append(c.texts, [sender |-> who, content |-> txt])
        BY PushFields
      <4>4. Push(c, who, txt) \in Chat
        BY PushType
      <4> QED
        BY <4>2, <4>3, <4>4
    <3>5. \A b, c, d \in Chat : Longer(b, c) /\ Longer(c, d) => Longer(b, d)
      <4>1. \A b \in Chat : b.texts \in Seq(Text)
        BY DEF Chat
      <4> QED
        BY <4>1
    <3>6. sender_you \in {sender_you, sender_other} /\ sender_other \in {sender_you, sender_other}
      OBVIOUS
    <3>7. chats \in [Names -> [Names -> Chat]]
      BY DEF DBInv, TypeOK
    <3> HIDE DEF Longer
    <3>8. \A x, y \in Names : sent[x][y] \in Chat /\ Longer(chats[x][y], sent[x][y])
      BY <3>4, <3>6, <3>7
    <3>9. sent \in [Names -> [Names -> Chat]]
      BY <3>4, <3>6, <3>7
    <3> HIDE DEF sent
    <3>10. \A x, y \in Names : chats'[x][y] \in Chat /\ Longer(sent[x][y], chats'[x][y])
      BY <3>3, <3>4, <3>6, <3>9
    <3>11. Longer(chats[u][v], chats'[u][v])
      BY <1>1, <3>5, <3>8, <3>10
    <3> QED
      BY <3>1, <3>11 DEF Longer
  <2> QED
    BY <1>2, <2>1, <2>2, <2>3, <2>4 DEF Exists
<1> QED
  BY <1>3, <1>4 DEF dbvars

\* What was read of a conversation goes on reflecting it.
LEMMA ReflectsStep ==
    ASSUME DBInv, [DBNext]_dbvars \/ UNCHANGED <<users, chats, historical_users>>,
           UNCHANGED <<username_, correspondent_>>,
           NEW texts \in Seq(Text), Reflects(texts)
    PROVE  Reflects(texts)'
<1>1. CASE UNCHANGED <<users, chats, historical_users>>
  BY <1>1 DEF Reflects, Exists
<1>2. CASE [DBNext]_dbvars
  <2>1. historical_users \subseteq historical_users'
    <3>1. CASE UNCHANGED dbvars
      BY <3>1 DEF dbvars
    <3>2. CASE DBNext
      <4>1. PICK t \in Threads, s \in Status :
               \/ logout(t, s)
               \/ delete_user(t, s)
               \/ get_correspondents(t, s)
               \/ \E n \in Names : recv_txt(t, n, s)
               \/ \E n \in Names, pw \in Passwords : login(t, n, pw, s)
               \/ \E n \in Names, pw \in Passwords : registration(n, pw, s)
               \/ \E n \in Names, txt \in Contents : send_txt(t, n, txt, s)
        BY <3>2 DEF DBNext, Call
      <4>2. CASE delete_user(t, s)
        BY <4>2 DEF delete_user, Erase, Terminate, dbvars
      <4>3. ASSUME NEW n \in Names, NEW pw \in Passwords, registration(n, pw, s)
            PROVE  historical_users \subseteq historical_users'
        BY <4>3 DEF registration, dbvars
      <4>4. ASSUME NEW n \in Names, NEW txt \in Contents, send_txt(t, n, txt, s)
            PROVE  UNCHANGED historical_users
        BY <4>4 DEF send_txt, Terminate, dbvars
      <4>5. ASSUME \/ logout(t, s) \/ get_correspondents(t, s)
                   \/ \E n \in Names : recv_txt(t, n, s)
                   \/ \E n \in Names, pw \in Passwords : login(t, n, pw, s)
            PROVE  UNCHANGED historical_users
        BY <4>5 DEF logout, login, get_correspondents, recv_txt, Terminate, dbvars
      <4> QED
        BY <4>1, <4>2, <4>3, <4>4, <4>5
    <3> QED
      BY <1>2, <3>1, <3>2
  <2>2. {username_, correspondent_} \subseteq historical_users
    BY DEF Reflects
  <2>3. ASSUME Exists(username_)', Exists(correspondent_)'
        PROVE  /\ Len(texts) <= Len(chats'[username_][correspondent_].texts)
               /\ \A i \in DOMAIN texts : texts[i] = chats'[username_][correspondent_].texts[i]
    <3>1. PICK u \in historical_users, v \in historical_users :
             u = username_ /\ v = correspondent_
      BY <2>2
    <3>2. Exists(u)' /\ Exists(v)'
      BY <2>3, <3>1 DEF Exists
    <3>3. /\ Exists(u) /\ Exists(v)
          /\ Len(chats[u][v].texts) <= Len(chats'[u][v].texts)
          /\ \A i \in 1 .. Len(chats[u][v].texts) : chats'[u][v].texts[i] = chats[u][v].texts[i]
      BY <1>2, <3>2, ChatGrows
    <3>4. /\ Len(texts) <= Len(chats[u][v].texts)
          /\ \A i \in 1 .. Len(texts) : texts[i] = chats[u][v].texts[i]
      BY <3>1, <3>3 DEF Reflects
    <3>5. chats[u][v].texts \in Seq(Text) /\ Len(chats'[u][v].texts) \in Nat
      <4>1. TypeOK /\ TypeOK'
        BY <1>2, CallInv DEF DBInv
      <4>2. chats[u][v] \in Chat /\ chats'[u][v] \in Chat
        BY <4>1 DEF TypeOK
      <4> QED
        BY <4>2 DEF Chat
    <3>6. Len(texts) <= Len(chats'[u][v].texts)
      BY <3>3, <3>4, <3>5
    <3>7. ASSUME NEW i \in 1 .. Len(texts) PROVE texts[i] = chats'[u][v].texts[i]
      <4>1. i \in 1 .. Len(chats[u][v].texts)
        BY <3>4, <3>5
      <4> QED
        BY <3>3, <3>4, <4>1
    <3> QED
      BY <3>1, <3>6, <3>7
  <2> QED
    BY <2>1, <2>2, <2>3 DEF Reflects
<1> QED
  BY <1>1, <1>2

(***************************************************************************)
(* Steps of the interface alone.                                           *)
(***************************************************************************)

\* A step of the interface that leaves the socket and the database alone, and
\* opens no screen for members.
LEMMA LocalStep ==
    ASSUME IInv, inq = <<>>, outq = <<>>, UNCHANGED <<inq, outq, connected>>,
           UNCHANGED dbvars, main # "returned", ITypeOK', ScreensInv', ChatInv',
           next_' \in MemberScreens => next_ \in MemberScreens /\ username_' = username_
    PROVE  IInv'
<1>1. SocketInv'
  BY DEF SocketInv
<1>2. SessionInv'
  BY DEF IInv, SessionInv, dbvars
<1>3. DBInv'
  BY StutterStep DEF IInv
<1> QED
  BY <1>1, <1>2, <1>3 DEF IInv

\* A step that leaves the chat, its names and the database alone.
LEMMA ChatStays ==
    ASSUME ChatInv, UNCHANGED <<users, chats, historical_users>>,
           next_' = "send_txt" => /\ next_ = "send_txt"
                                  /\ UNCHANGED <<username_, correspondent_, curr_chat_, shown>>
                                  /\ listener' # "none" => listener # "none"
    PROVE  ChatInv'
BY DEF ChatInv, Reflects, Exists

LEMMA ChooseStep ==
    ASSUME IInv, NEW screen \in Screens, Choose(screen)
    PROVE  IInv'
<1>1. /\ main = "screen" /\ next_' = screen
      /\ UNCHANGED <<all_correspondents_, hit_escape_, curr_chat_, shown, listener, prev_size,
                     listener_should_exit_, inq, outq, connected, main>>
      /\ UNCHANGED dbvars
      /\ username_' \in {username_, Absent} /\ password_' \in {password_, Absent}
      /\ correspondent_' \in {correspondent_, Absent}
      /\ next_ \notin {"login", "registration"} => username_' = username_
  BY DEF Choose, chatvars, threadvars, socket
<1>2. /\ screen \in MemberScreens => next_ \in MemberScreens
      /\ screen \notin {"registration_success", "recv_txt", "send_txt"}
      /\ next_ \in {"login", "registration"} => screen \notin MemberScreens
  BY MenuFacts DEF Choose
<1>3. inq = <<>> /\ outq = <<>>
  BY <1>1, Idle DEF IInv, ScreensInv, Waiting
<1>4. ITypeOK'
  <2>1. TypeOK'
    BY <1>1, StutterStep DEF IInv, DBInv
  <2> QED
    BY <1>1, <2>1 DEF IInv, ITypeOK
<1>5. ScreensInv'
  BY <1>1, <1>2 DEF IInv, ScreensInv
<1>6. ChatInv'
  BY <1>1, <1>2 DEF ChatInv
<1> QED
  BY <1>1, <1>2, <1>3, <1>4, <1>5, <1>6, LocalStep

LEMMA PickChatStep ==
    ASSUME IInv, NEW n \in Names, PickChat(n)
    PROVE  IInv'
<1>1. /\ main = "screen" /\ next_ \in MemberScreens /\ next_' = "recv_txt" /\ correspondent_' = n
      /\ UNCHANGED <<username_, password_, all_correspondents_, hit_escape_, curr_chat_, shown,
                     listener, prev_size, listener_should_exit_, inq, outq, connected, main>>
      /\ UNCHANGED dbvars
  BY DEF PickChat, chatvars, threadvars, socket, MemberScreens
<1>2. inq = <<>> /\ outq = <<>>
  BY <1>1, Idle DEF IInv, ScreensInv, Waiting
<1>3. ITypeOK'
  <2>1. TypeOK'
    BY <1>1, StutterStep DEF IInv, DBInv
  <2> QED
    BY <1>1, <2>1 DEF IInv, ITypeOK, Screens, MemberScreens
<1>4. ScreensInv'
  BY <1>1 DEF IInv, ScreensInv
<1>5. ChatInv'
  BY <1>1 DEF ChatInv
<1> QED
  BY <1>1, <1>2, <1>3, <1>4, <1>5, LocalStep

LEMMA OpenChatStep ==
    ASSUME IInv, OpenChat
    PROVE  IInv'
<1>1. /\ main = "screen" /\ next_ = "send_txt" /\ shown' = curr_chat_
      /\ listener_should_exit_' = FALSE /\ listener' = "start" /\ main' = "typing"
      /\ UNCHANGED <<next_, username_, password_, correspondent_, all_correspondents_,
                     hit_escape_, curr_chat_, prev_size, inq, outq, connected>>
      /\ UNCHANGED dbvars
  BY DEF OpenChat, screenvars, socket
<1>2. inq = <<>> /\ outq = <<>>
  BY <1>1, Idle DEF IInv, ScreensInv, Waiting
<1>3. ITypeOK'
  <2>1. TypeOK'
    BY <1>1, StutterStep DEF IInv, DBInv
  <2> QED
    BY <1>1, <2>1 DEF IInv, ITypeOK
<1>4. ScreensInv'
  BY <1>1 DEF IInv, ScreensInv
<1>5. ChatInv'
  BY <1>1 DEF IInv, ChatInv, Reflects, Exists, dbvars
<1> QED
  BY <1>1, <1>2, <1>3, <1>4, <1>5, LocalStep

\* start() returns only when nothing is on the socket: a response to something
\* else than what was asked for never comes.
LEMMA ReturnStep ==
    ASSUME IInv, Return
    PROVE  IInv'
<1>1. /\ main' = "returned"
      /\ UNCHANGED <<next_, username_, password_, correspondent_, all_correspondents_,
                     hit_escape_, curr_chat_, shown, listener, prev_size,
                     listener_should_exit_, inq, outq, connected>>
      /\ UNCHANGED dbvars
  BY DEF Return, screenvars, chatvars, threadvars, socket
<1>2. inq = <<>> /\ outq = <<>> /\ listener = "none" /\ main # "returned"
  <2>1. main \in {"screen", "answer", "refresh"} /\ listener = "none"
    BY DEF Return, IInv, ScreensInv
  <2>2. CASE main = "screen"
    BY <2>1, <2>2, Idle DEF IInv, Waiting
  <2>3. CASE ~connected
    BY <2>1, <2>3 DEF IInv, SocketInv
  <2>4. CASE outq # <<>> /\ Head(outq).type # Expected
    BY <2>1, <2>4 DEF IInv, SocketInv, Replied, AwaitedType
  <2> QED
    BY <2>1, <2>2, <2>3, <2>4 DEF Return
<1>3. ITypeOK'
  <2>1. TypeOK'
    BY <1>1, StutterStep DEF IInv, DBInv
  <2> QED
    BY <1>1, <2>1 DEF IInv, ITypeOK
<1>4. ScreensInv'
  BY <1>1, <1>2 DEF IInv, ScreensInv
<1>5. ChatInv'
  BY <1>1, ChatStays DEF IInv, dbvars
<1> QED
  BY <1>1, <1>2, <1>3, <1>4, <1>5, LocalStep

\* The listener's steps that do not use the socket.
LEMMA ListenerStep ==
    ASSUME IInv, Start \/ Notified \/ Draw
    PROVE  IInv'
<1>1. /\ listener \in {"start", "wait", "draw"} /\ listener' \in {"none", "wait"}
      /\ shown' \in {shown, curr_chat_}
      /\ UNCHANGED <<next_, username_, password_, correspondent_, all_correspondents_,
                     hit_escape_, curr_chat_, prev_size, listener_should_exit_,
                     inq, outq, connected, main>>
      /\ UNCHANGED dbvars
  BY DEF Start, Notified, Draw, Loop, screenvars, chatvars, socket
<1>2. main \in {"typing", "stop", "join"}
  BY <1>1 DEF IInv, ScreensInv
<1>3. inq = <<>> /\ outq = <<>>
  BY <1>1, <1>2, Idle DEF IInv, Waiting
<1>4. ITypeOK'
  <2>1. TypeOK'
    BY <1>1, StutterStep DEF IInv, DBInv
  <2> QED
    BY <1>1, <2>1 DEF IInv, ITypeOK
<1>5. ScreensInv'
  BY <1>1, <1>2 DEF IInv, ScreensInv
<1>6. ChatInv'
  BY <1>1 DEF IInv, ChatInv, Reflects, Exists, dbvars
<1> QED
  BY <1>1, <1>2, <1>3, <1>4, <1>5, <1>6, LocalStep

(***************************************************************************)
(* Steps while the listener may be waiting for a response.                 *)
(***************************************************************************)

\* Whatever is on the socket stays what the waiting thread asked for.
LEMMA SocketStays ==
    ASSUME IInv, [DBNext]_dbvars, threads'[me] = threads[me],
           UNCHANGED <<inq, outq, connected, username_, correspondent_>>,
           Waiting => Waiting' /\ AwaitedType' = AwaitedType
    PROVE  SocketInv'
<1>1. ~terminated' => ~terminated
  <2>1. CASE UNCHANGED dbvars
    BY <2>1 DEF dbvars
  <2>2. CASE DBNext
    BY <2>2 DEF DBNext
  <2> QED
    BY <2>1, <2>2
<1>2. CASE inq = <<>> /\ outq = <<>>
  BY <1>2 DEF SocketInv
<1>3. CASE connected /\ Waiting /\ outq = <<>> /\ Len(inq) = 1 /\ Asked(Head(inq))
  BY <1>3 DEF SocketInv, Asked
<1>4. CASE connected /\ Waiting /\ inq = <<>> /\ Len(outq) = 1 /\ Replied(Head(outq))
  <2>1. PICK r \in Response : r = Head(outq)
    BY <1>4 DEF Replied
  <2>2. r.type = "recv_txt" /\ r.code = "ok" => Reflects(r.texts)'
    <3>1. SUFFICES ASSUME Reflects(r.texts) PROVE Reflects(r.texts)'
      BY <1>4, <2>1 DEF Replied
    <3>2. r.texts \in Seq(Text)
      BY DEF Response
    <3> QED
      BY <3>1, <3>2, ReflectsStep DEF IInv
  <2>3. Replied(r)'
    BY <1>1, <1>4, <2>1, <2>2 DEF Replied
  <2> QED
    BY <1>4, <2>1, <2>3 DEF SocketInv
<1> QED
  BY <1>2, <1>3, <1>4 DEF IInv, SocketInv

\* The user ends the prompt, and the main thread tells the listener to end, while
\* the listener may be waiting for a response.
LEMMA KeyStep ==
    ASSUME IInv,
           \/ \E escape \in BOOLEAN : FinishTyping(escape)
           \/ StopListener
    PROVE  IInv'
<1>1. /\ main \in {"typing", "stop"} /\ main' \in {"stop", "join"}
      /\ hit_escape_' \in BOOLEAN /\ listener_should_exit_' \in BOOLEAN
      /\ UNCHANGED <<next_, username_, password_, correspondent_, all_correspondents_,
                     curr_chat_, shown, listener, prev_size, inq, outq, connected>>
      /\ UNCHANGED dbvars
  BY DEF FinishTyping, StopListener, screenvars, chatvars, threadvars, socket, IInv, ITypeOK
<1>2. UNCHANGED threads
  BY <1>1 DEF dbvars
<1>3. Waiting => Waiting' /\ AwaitedType' = AwaitedType
  BY <1>1 DEF Waiting, AwaitedType
<1>4. SocketInv'
  BY <1>1, <1>2, <1>3, SocketStays
<1>5. DBInv'
  BY <1>1, StutterStep DEF IInv
<1>6. ITypeOK'
  BY <1>1, <1>5 DEF IInv, ITypeOK, DBInv
<1>7. ScreensInv'
  BY <1>1 DEF IInv, ScreensInv
<1>8. ChatInv'
  BY <1>1, ChatStays DEF IInv, dbvars
<1>9. SessionInv'
  BY <1>1 DEF IInv, SessionInv, dbvars
<1> QED
  BY <1>4, <1>5, <1>6, <1>7, <1>8, <1>9 DEF IInv

\* A call touches the session of the calling thread only.
LEMMA CallIsLocal ==
    ASSUME TypeOK, NEW t \in Threads, Call(t), NEW x \in Threads, x # t
    PROVE  threads'[x] = threads[x]
<1>1. PICK s \in Status :
         \/ logout(t, s)
         \/ delete_user(t, s)
         \/ get_correspondents(t, s)
         \/ \E n \in Names : recv_txt(t, n, s)
         \/ \E n \in Names, pw \in Passwords : login(t, n, pw, s)
         \/ \E n \in Names, pw \in Passwords : registration(n, pw, s)
         \/ \E n \in Names, txt \in Contents : send_txt(t, n, txt, s)
  BY DEF Call
<1>2. CASE logout(t, s) \/ get_correspondents(t, s)
  BY <1>2 DEF logout, get_correspondents, Terminate, dbvars, TypeOK
<1>3. CASE delete_user(t, s)
  BY <1>3 DEF delete_user, Erase, Terminate, dbvars, TypeOK
<1>4. ASSUME NEW n \in Names, NEW pw \in Passwords, login(t, n, pw, s) \/ registration(n, pw, s)
      PROVE  threads'[x] = threads[x]
  BY <1>4 DEF login, registration, dbvars, TypeOK
<1>5. ASSUME NEW n \in Names, NEW txt \in Contents, send_txt(t, n, txt, s)
      PROVE  threads'[x] = threads[x]
  BY <1>5 DEF send_txt, Terminate, dbvars
<1>6. ASSUME NEW n \in Names, recv_txt(t, n, s)
      PROVE  threads'[x] = threads[x]
  BY <1>6 DEF recv_txt, Terminate, dbvars
<1> QED
  BY <1>1, <1>2, <1>3, <1>4, <1>5, <1>6

\* The database may change in any way other clients can change it.
LEMMA ChatStep ==
    ASSUME IInv, [DBNext]_dbvars,
           UNCHANGED <<next_, username_, correspondent_, curr_chat_, shown, listener>>
    PROVE  ChatInv'
<1>1. curr_chat_ \in Seq(Text) /\ shown \in Seq(Text) /\ DBInv
  BY DEF IInv, ITypeOK
<1>2. \A texts \in Seq(Text) : Reflects(texts) => Reflects(texts)'
  BY <1>1, ReflectsStep
<1>3. next_ = "send_txt" => Reflects(curr_chat_) /\ (listener # "none" => Reflects(shown))
  BY DEF IInv, ChatInv
<1>4. PICK c \in Seq(Text), d \in Seq(Text) : c = curr_chat_ /\ d = shown
  BY <1>1
<1>5. next_ = "send_txt" => Reflects(c)' /\ (listener # "none" => Reflects(d)')
  BY <1>2, <1>3, <1>4
<1>6. c = curr_chat_' /\ d = shown'
  BY <1>4
<1> QED
  BY <1>5, <1>6 DEF ChatInv, Reflects

LEMMA OthersStep ==
    ASSUME IInv, Others
    PROVE  IInv'
<1>1. PICK t \in Threads \ {me} : ~terminated /\ Call(t)
  BY DEF Others
<1>2. /\ UNCHANGED <<next_, username_, password_, correspondent_, all_correspondents_,
                     hit_escape_, curr_chat_, shown, listener, prev_size,
                     listener_should_exit_, inq, outq, connected, main>>
  BY DEF Others, screenvars, chatvars, threadvars, socket
<1>3. DBNext
  BY <1>1 DEF DBNext
<1>4. DBInv'
  BY <1>3, CallInv DEF IInv
<1>5. threads'[me] = threads[me]
  BY <1>1, CallIsLocal, MeAssumption DEF IInv, DBInv
<1>6. SocketInv'
  BY <1>2, <1>3, <1>5, SocketStays DEF Waiting, AwaitedType, Expected
<1>7. ITypeOK'
  BY <1>2, <1>4 DEF IInv, ITypeOK, DBInv
<1>8. ScreensInv'
  BY <1>2 DEF IInv, ScreensInv
<1>9. ChatInv'
  BY <1>2, <1>3, ChatStep
<1>10. SessionInv'
  BY <1>1, <1>2, <1>5 DEF IInv, SessionInv
<1> QED
  BY <1>4, <1>6, <1>7, <1>8, <1>9, <1>10 DEF IInv

LEMMA BreakStep ==
    ASSUME IInv, Break
    PROVE  IInv'
<1>1. /\ connected' = FALSE /\ inq' = <<>> /\ outq' = <<>>
      /\ threads' = threads \/ threads' = [threads EXCEPT ![me] = Absent]
      /\ UNCHANGED <<users, chats, historical_users, terminated>>
      /\ UNCHANGED <<next_, username_, password_, correspondent_, all_correspondents_,
                     hit_escape_, curr_chat_, shown, listener, prev_size,
                     listener_should_exit_, main>>
  BY DEF Break, screenvars, chatvars, threadvars
<1>2. DBInv'
  <2>1. /\ threads' \in [Threads -> Names \cup {Absent}]
        /\ \A t \in Threads : threads'[t] # Absent => threads'[t] \in historical_users
        /\ terminated' \in BOOLEAN
    BY <1>1, MeAssumption DEF IInv, DBInv, TypeOK, History, is_logged_in
  <2> QED
    BY <1>1, <2>1, SessionsStep DEF IInv
<1>3. <<>> \in Seq(Requests) /\ <<>> \in Seq(Response)
  BY EmptySeq
<1>4. ITypeOK'
  BY <1>1, <1>2, <1>3 DEF IInv, ITypeOK, DBInv
<1>5. ScreensInv'
  BY <1>1 DEF IInv, ScreensInv
<1>6. ChatInv'
  BY <1>1, ChatStays DEF IInv
<1>7. SocketInv' /\ SessionInv'
  BY <1>1 DEF SocketInv, SessionInv
<1> QED
  BY <1>2, <1>4, <1>5, <1>6, <1>7 DEF IInv

(***************************************************************************)
(* Requests.                                                               *)
(***************************************************************************)

\* A request is put on an idle socket, if there is still a connection.
LEMMA RequestStep ==
    ASSUME IInv, NEW r \in Requests, Request(r), Asked(r)', inq = <<>>, outq' = <<>>,
           UNCHANGED connected, UNCHANGED dbvars, UNCHANGED <<next_, username_>> \/ next_' \notin MemberScreens,
           main # "returned", Waiting', ScreensInv', ChatInv',
           outq # <<>> => Head(outq).type \notin {"logout", "delete"},
           inq' \in Seq(Requests) => ITypeOK'
    PROVE  IInv'
<1>1. inq' = IF connected THEN Append(<<>>, r) ELSE <<>>
  BY DEF Request
<1>2. /\ Append(<<>>, r) \in Seq(Requests) /\ Append(<<>>, r) # <<>>
      /\ Len(Append(<<>>, r)) = 1 /\ Head(Append(<<>>, r)) = r
      /\ <<>> \in Seq(Requests)
  BY OneElement, EmptySeq
<1>3. inq' \in Seq(Requests)
  BY <1>1, <1>2
<1>4. ITypeOK'
  BY <1>3
<1>5. SocketInv'
  <2>1. CASE connected
    BY <1>1, <1>2, <2>1 DEF SocketInv
  <2>2. CASE ~connected
    BY <1>1, <2>2 DEF SocketInv
  <2> QED
    BY <2>1, <2>2
<1>6. SessionInv'
  BY DEF IInv, SessionInv, dbvars
<1>7. DBInv'
  BY StutterStep DEF IInv
<1> QED
  BY <1>4, <1>5, <1>6, <1>7 DEF IInv

\* The main thread asks for something from a screen without a listener.
LEMMA AskStep ==
    ASSUME IInv, NEW r \in Requests, Request(r), main \in {"screen", "join"}, main' = "answer",
           listener = "none", next_ \in DOMAIN AfterOk, r.type = Expected',
           r.type \in {"login", "registration"} => r.username = username_',
           r.type \in {"send_txt", "recv_txt"} => r.username = correspondent_,
           username_' \in Names \cup {Absent}, password_' \in Passwords \cup {Absent},
           next_ \in {"login", "registration"} => username_' \in Names /\ password_' \in Passwords,
           next_ \notin {"login", "registration"} => UNCHANGED <<username_, password_>>,
           UNCHANGED <<next_, correspondent_, all_correspondents_, hit_escape_, curr_chat_, shown,
                       listener, prev_size, listener_should_exit_, outq, connected>>,
           UNCHANGED dbvars
    PROVE  IInv'
<1>1. inq = <<>> /\ outq = <<>>
  BY Idle DEF IInv, Waiting
<1>2. Waiting' /\ Asked(r)'
  BY DEF Waiting, Asked, AwaitedType
<1>3. inq' \in Seq(Requests) => ITypeOK'
  <2>1. TypeOK'
    BY StutterStep DEF IInv, DBInv
  <2> QED
    BY <2>1 DEF IInv, ITypeOK
<1>4. ScreensInv'
  BY DEF IInv, ScreensInv, MemberScreens
<1>5. ChatInv'
  <2>1. next_' = "send_txt" => UNCHANGED username_
    OBVIOUS
  <2> QED
    BY <2>1, ChatStays DEF IInv, dbvars
<1>6. UNCHANGED <<next_, username_>> \/ next_' \notin MemberScreens
  BY DEF MemberScreens
<1> QED
  BY <1>1, <1>2, <1>3, <1>4, <1>5, <1>6, RequestStep

LEMMA EnterStep ==
    ASSUME IInv, NEW n \in Names, NEW pw \in Passwords, Enter(n, pw)
    PROVE  IInv'
<1>1. /\ main = "screen" /\ next_ \in {"login", "registration"} /\ main' = "answer"
      /\ username_' = n /\ password_' = pw
      /\ UNCHANGED <<next_, correspondent_, all_correspondents_, hit_escape_, curr_chat_, shown,
                     listener, prev_size, listener_should_exit_, outq, connected>>
      /\ UNCHANGED dbvars
  BY DEF Enter, chatvars, threadvars
<1>2. PICK r : r = [type |-> next_, username |-> n, password |-> pw]
  OBVIOUS
<1>3. Request(r) /\ r \in Requests /\ r.type = next_ /\ r.username = n
  BY <1>1, <1>2 DEF Enter, Requests
<1>4. r.type = Expected'
  BY <1>1, <1>3 DEF Expected
<1>5. next_ \in DOMAIN AfterOk /\ listener = "none"
  BY <1>1, AfterFacts DEF IInv, ScreensInv
<1> QED
  BY <1>1, <1>3, <1>4, <1>5, AskStep

LEMMA ConfirmStep ==
    ASSUME IInv, Confirm
    PROVE  IInv'
<1>1. /\ main = "screen" /\ next_ \in {"main_menu", "search_accounts", "delete_account"}
      /\ main' = "answer"
      /\ UNCHANGED <<next_, username_, password_, correspondent_, all_correspondents_,
                     hit_escape_, curr_chat_, shown, listener, prev_size,
                     listener_should_exit_, outq, connected>>
      /\ UNCHANGED dbvars
  BY DEF Confirm, screenvars, chatvars, threadvars
<1>2. PICK r : r = [type |-> CASE next_ = "main_menu"       -> "logout"
                               [] next_ = "search_accounts" -> "accounts"
                               [] next_ = "delete_account"  -> "delete"]
  OBVIOUS
<1>3. /\ next_ = "main_menu" => r.type = "logout"
      /\ next_ = "search_accounts" => r.type = "accounts"
      /\ next_ = "delete_account" => r.type = "delete"
  BY <1>2
<1>4. Request(r)
  BY <1>2 DEF Confirm
<1>5. r \in Requests
  <2>1. r.type \in {"logout", "accounts", "correspondents", "delete"}
    BY <1>1, <1>3
  <2>2. r \in [type : {"logout", "accounts", "correspondents", "delete"}]
    BY <1>2, <2>1
  <2> QED
    BY <2>2 DEF Requests
<1>6. r.type = Expected'
  BY <1>1, <1>3 DEF Expected
<1>7. next_ \in DOMAIN AfterOk /\ listener = "none"
  BY <1>1, AfterFacts DEF IInv, ScreensInv
<1>8. r.type \notin {"login", "registration", "send_txt", "recv_txt"}
  BY <1>1, <1>3
<1>9. username_' \in Names \cup {Absent} /\ password_' \in Passwords \cup {Absent}
  BY <1>1 DEF IInv, ITypeOK
<1> QED
  BY <1>1, <1>4, <1>5, <1>6, <1>7, <1>8, <1>9, AskStep

LEMMA ProceedStep ==
    ASSUME IInv, Proceed
    PROVE  IInv'
<1>1. /\ main = "screen" /\ main' = "answer"
      /\ UNCHANGED <<next_, username_, password_, correspondent_, all_correspondents_,
                     hit_escape_, curr_chat_, shown, listener, prev_size,
                     listener_should_exit_, outq, connected>>
      /\ UNCHANGED dbvars
  BY DEF Proceed, screenvars, chatvars, threadvars
<1>2. PICK r \in Requests :
        /\ Request(r)
        /\ \/ /\ next_ = "registration_success" /\ r.type = "login" /\ r.username = username_
           \/ next_ = "open_chats" /\ r.type = "correspondents"
           \/ next_ = "recv_txt" /\ r.type = "recv_txt" /\ r.username = correspondent_
  <2>1. CASE next_ = "registration_success"
    <3>1. PICK n \in Names, pw \in Passwords : n = username_ /\ pw = password_
      BY <2>1 DEF IInv, ScreensInv
    <3>2. Request([type |-> "login", username |-> n, password |-> pw])
      BY <2>1, <3>1 DEF Proceed
    <3>3. [type |-> "login", username |-> n, password |-> pw] \in Requests
      BY DEF Requests
    <3> QED
      BY <2>1, <3>1, <3>2, <3>3
  <2>2. CASE next_ = "open_chats"
    <3>1. Request([type |-> "correspondents"])
      BY <2>2 DEF Proceed
    <3>2. [type |-> "correspondents"] \in Requests
      BY DEF Requests
    <3> QED
      BY <2>2, <3>1, <3>2
  <2>3. CASE next_ = "recv_txt"
    <3>1. PICK n \in Names : n = correspondent_
      BY <2>3 DEF IInv, ScreensInv
    <3>2. Request([type |-> "recv_txt", username |-> n])
      BY <2>3, <3>1 DEF Proceed
    <3>3. [type |-> "recv_txt", username |-> n] \in Requests
      BY DEF Requests
    <3> QED
      BY <2>3, <3>1, <3>2, <3>3
  <2> QED
    BY <2>1, <2>2, <2>3 DEF Proceed
<1>3. r.type = Expected'
  BY <1>1, <1>2 DEF Expected
<1>4. next_ \in DOMAIN AfterOk /\ listener = "none" /\ next_ \notin {"login", "registration"}
  BY <1>1, <1>2, AfterFacts DEF IInv, ScreensInv
<1>5. username_' \in Names \cup {Absent} /\ password_' \in Passwords \cup {Absent}
  BY <1>1 DEF IInv, ITypeOK
<1> QED
  BY <1>1, <1>2, <1>3, <1>4, <1>5, AskStep

LEMMA JoinStep ==
    ASSUME IInv, Join
    PROVE  IInv'
<1>1. /\ main = "join" /\ listener = "none"
      /\ UNCHANGED <<username_, password_, correspondent_, all_correspondents_,
                     hit_escape_, curr_chat_, shown, listener, prev_size,
                     listener_should_exit_, outq, connected>>
      /\ UNCHANGED dbvars
  BY DEF Join, chatvars, threadvars
<1>2. next_ = "send_txt" /\ inq = <<>> /\ outq = <<>>
  BY <1>1, Idle DEF IInv, ScreensInv, Waiting
<1>3. username_' \in Names \cup {Absent} /\ password_' \in Passwords \cup {Absent}
  BY <1>1 DEF IInv, ITypeOK
<1>4. CASE next_' = "open_chats" /\ main' = "screen" /\ UNCHANGED inq
  <2>1. ITypeOK'
    <3>1. TypeOK'
      BY <1>1, StutterStep DEF IInv, DBInv
    <3> QED
      BY <1>1, <1>4, <3>1 DEF IInv, ITypeOK, Screens, MemberScreens
  <2>2. ScreensInv' /\ ChatInv'
    BY <1>1, <1>2, <1>4 DEF IInv, ScreensInv, ChatInv, MemberScreens
  <2>3. next_ \in MemberScreens
    BY <1>2 DEF MemberScreens
  <2> QED
    BY <1>1, <1>2, <1>4, <2>1, <2>2, <2>3, LocalStep
<1>5. ASSUME NEW txt \in Contents, main' = "answer", UNCHANGED next_,
             Request([type |-> "send_txt", username |-> correspondent_, txt |-> txt])
      PROVE  IInv'
  <2>1. PICK n \in Names : n = correspondent_
    BY <1>2 DEF IInv, ScreensInv
  <2>2. PICK r : r = [type |-> "send_txt", username |-> n, txt |-> txt]
    OBVIOUS
  <2>3. r \in Requests /\ Request(r) /\ r.type = "send_txt" /\ r.username = correspondent_
    BY <1>5, <2>1, <2>2 DEF Requests
  <2>4. r.type = Expected'
    BY <1>2, <1>5, <2>3 DEF Expected
  <2>5. next_ \in DOMAIN AfterOk
    BY <1>2, AfterFacts
  <2> QED
    BY <1>1, <1>2, <1>3, <1>5, <2>3, <2>4, <2>5, AskStep
<1> QED
  BY <1>4, <1>5 DEF Join

LEMMA PollStep ==
    ASSUME IInv, Poll
    PROVE  IInv'
<1>1. /\ listener = "wait" /\ prev_size' = Len(curr_chat_) /\ listener' = "answer"
      /\ Request([type |-> "recv_txt", username |-> correspondent_])
      /\ UNCHANGED <<next_, username_, password_, correspondent_, all_correspondents_,
                     hit_escape_, curr_chat_, shown, listener_should_exit_, outq, connected, main>>
      /\ UNCHANGED dbvars
  BY DEF Poll, screenvars, chatvars
<1>2. main \in {"typing", "stop", "join"} /\ next_ = "send_txt" /\ inq = <<>> /\ outq = <<>>
  <2>1. main \in {"typing", "stop", "join"} /\ next_ = "send_txt"
    BY <1>1 DEF IInv, ScreensInv
  <2> QED
    BY <1>1, <2>1, Idle DEF IInv, Waiting
<1>3. PICK n \in Names : n = correspondent_
  BY <1>2 DEF IInv, ScreensInv
<1>4. PICK r : r = [type |-> "recv_txt", username |-> n]
  OBVIOUS
<1>5. r \in Requests /\ Request(r) /\ r.type = "recv_txt" /\ r.username = correspondent_
  BY <1>1, <1>3, <1>4 DEF Requests
<1>6. Waiting' /\ Asked(r)'
  BY <1>1, <1>5 DEF Waiting, Asked, AwaitedType
<1>7. inq' \in Seq(Requests) => ITypeOK'
  <2>1. TypeOK'
    BY <1>1, StutterStep DEF IInv, DBInv
  <2>2. Len(curr_chat_) \in Nat
    BY DEF IInv, ITypeOK
  <2> QED
    BY <1>1, <2>1, <2>2 DEF IInv, ITypeOK
<1>8. ScreensInv' /\ ChatInv'
  BY <1>1, <1>2, ChatStays DEF IInv, ScreensInv, dbvars
<1> QED
  BY <1>1, <1>2, <1>5, <1>6, <1>7, <1>8, RequestStep

\* The text was taken, and the chat is asked for again.
LEMMA HearSentStep ==
    ASSUME IInv, HearSent
    PROVE  IInv'
<1>1. /\ main = "answer" /\ next_ = "send_txt" /\ outq # <<>>
      /\ Head(outq).type = "send_txt" /\ outq' = Tail(outq)
      /\ Request([type |-> "recv_txt", username |-> correspondent_]) /\ main' = "refresh"
      /\ UNCHANGED <<next_, username_, password_, correspondent_, all_correspondents_,
                     hit_escape_, curr_chat_, shown, listener, prev_size,
                     listener_should_exit_, connected>>
      /\ UNCHANGED dbvars
  BY DEF HearSent, screenvars, chatvars, threadvars
<1>2. inq = <<>> /\ Len(outq) = 1 /\ listener = "none"
  BY <1>1 DEF IInv, SocketInv, ScreensInv
<1>3. outq' = <<>>
  <2>1. outq \in Seq(Response)
    BY DEF IInv, ITypeOK
  <2> QED
    BY <1>1, <1>2, <2>1, OneElement
<1>4. PICK n \in Names : n = correspondent_
  BY <1>1 DEF IInv, ScreensInv
<1>5. PICK r : r = [type |-> "recv_txt", username |-> n]
  OBVIOUS
<1>6. r \in Requests /\ Request(r) /\ r.type = "recv_txt" /\ r.username = correspondent_
  BY <1>1, <1>4, <1>5 DEF Requests
<1>7. Waiting' /\ Asked(r)'
  BY <1>1, <1>2, <1>6 DEF Waiting, Asked, AwaitedType, Expected
<1>8. inq' \in Seq(Requests) => ITypeOK'
  <2>1. TypeOK'
    BY <1>1, StutterStep DEF IInv, DBInv
  <2>2. outq' \in Seq(Response)
    BY <1>3, EmptySeq
  <2> QED
    BY <1>1, <2>1, <2>2 DEF IInv, ITypeOK
<1>9. ScreensInv' /\ ChatInv'
  BY <1>1, <1>2, ChatStays DEF IInv, ScreensInv, dbvars
<1> QED
  BY <1>1, <1>2, <1>3, <1>6, <1>7, <1>8, <1>9, RequestStep

(***************************************************************************)
(* Responses.                                                              *)
(***************************************************************************)

\* What a thread can be waiting for, and where.
LEMMA AwaitedFacts ==
    ASSUME ScreensInv, Waiting
    PROVE  /\ main \in {"answer", "refresh", "typing", "stop", "join"}
           /\ listener = "answer" => next_ = "send_txt" /\ main \notin {"answer", "refresh"}
           /\ \/ next_ \in MemberScreens /\ AwaitedType \notin {"login", "registration"}
              \/ /\ next_ \in {"login", "registration", "registration_success"}
                 /\ AwaitedType \in {"login", "registration"}
                 /\ main = "answer" /\ username_ \in Names
                 /\ AwaitedType = "login" <=> next_ # "registration"
           /\ AwaitedType = "logout" => next_ = "main_menu"
           /\ AwaitedType = "delete" => next_ = "delete_account"
           /\ AwaitedType \in {"send_txt", "recv_txt"} => next_ \in {"send_txt", "recv_txt"}
           /\ AwaitedType = "send_txt" => next_ = "send_txt" /\ main = "answer"
           /\ next_ \in {"send_txt", "recv_txt"} => AwaitedType \in {"send_txt", "recv_txt"}
<1>1. CASE listener = "answer"
  BY <1>1 DEF ScreensInv, AwaitedType, MemberScreens
<1>2. CASE listener # "answer" /\ main = "refresh"
  BY <1>2 DEF ScreensInv, AwaitedType, Expected, MemberScreens
<1>3. CASE listener # "answer" /\ main = "answer"
  <2>1. next_ \in {"login", "registration", "registration_success", "main_menu",
                   "open_chats", "recv_txt", "send_txt", "search_accounts", "delete_account"}
    BY <1>3, AfterFacts DEF ScreensInv
  <2>2. AwaitedType = CASE next_ = "registration_success" -> "login"
                        [] next_ = "main_menu"       -> "logout"
                        [] next_ = "open_chats"      -> "correspondents"
                        [] next_ = "search_accounts" -> "accounts"
                        [] next_ = "delete_account"  -> "delete"
                        [] OTHER -> next_
    BY <1>3, <2>1 DEF AwaitedType, Expected
  <2> QED
    BY <1>3, <2>1, <2>2 DEF ScreensInv, MemberScreens
<1> QED
  BY <1>1, <1>2, <1>3 DEF Waiting

LEMMA RequestFields ==
    ASSUME NEW r \in Requests
    PROVE  /\ r.type \in {"registration", "login"} => r.username \in Names /\ r.password \in Passwords
           /\ r.type = "send_txt" => r.username \in Names /\ r.txt \in Contents
           /\ r.type = "recv_txt" => r.username \in Names
           /\ r.type \in {"registration", "login", "send_txt", "recv_txt", "logout", "accounts",
                          "correspondents", "delete"}
<1>1. CASE r \in [type : {"registration", "login"}, username : Names, password : Passwords]
  BY <1>1
<1>2. CASE r \in [type : {"send_txt"}, username : Names, txt : Contents]
  BY <1>2
<1>3. CASE r \in [type : {"recv_txt"}, username : Names]
  BY <1>3
<1>4. CASE r \in [type : {"logout", "accounts", "correspondents", "delete"}]
  BY <1>4
<1> QED
  BY <1>1, <1>2, <1>3, <1>4 DEF Requests

\* A handler makes one call of the database, but for login, which opens the new
\* session in place of the old one.
LEMMA HandleStep ==
    ASSUME DBInv, ~terminated, NEW r \in Requests, NEW s \in Status, Handle(r, s)
    PROVE  /\ DBInv'
           /\ r.type # "login" => [DBNext]_dbvars
           /\ r.type = "login" =>
                 /\ UNCHANGED <<users, chats, historical_users, terminated>>
                 /\ s = ok => threads'[me] = r.username
                 /\ s # thrown
<1>1. CASE r.type = "login"
  <2>1. /\ s = IF users[r.username] = r.password THEN ok ELSE error
        /\ threads' = [threads EXCEPT ![me] = IF s = ok THEN r.username ELSE Absent]
        /\ UNCHANGED <<users, chats, historical_users, terminated>>
    BY <1>1 DEF Handle
  <2>2. r.username \in Names /\ r.password \in Passwords
    BY <1>1, RequestFields
  <2>3. s = ok => r.username \in historical_users
    BY <2>1, <2>2, AbsentAssumption DEF DBInv, History, Exists, ok, error
  <2>4. /\ threads' \in [Threads -> Names \cup {Absent}]
        /\ \A t \in Threads : threads'[t] # Absent => threads'[t] \in historical_users
        /\ terminated' \in BOOLEAN
    BY <2>1, <2>2, <2>3 DEF DBInv, TypeOK, History, is_logged_in
  <2>5. threads'[me] = IF s = ok THEN r.username ELSE Absent
    BY <2>1, MeAssumption DEF DBInv, TypeOK
  <2>6. DBInv'
    BY <2>1, <2>4, SessionsStep
  <2> QED
    BY <1>1, <2>1, <2>5, <2>6 DEF ok, error, thrown
<1>2. CASE r.type # "login"
  <2>1. /\ r.type = "registration" => r.username \in Names /\ r.password \in Passwords
        /\ r.type = "send_txt" => r.username \in Names /\ r.txt \in Contents
        /\ r.type = "recv_txt" => r.username \in Names
    BY RequestFields
  <2>2. \/ UNCHANGED dbvars
        \/ logout(me, s)
        \/ delete_user(me, s)
        \/ get_correspondents(me, s)
        \/ \E n \in Names : recv_txt(me, n, s)
        \/ \E n \in Names, pw \in Passwords : registration(n, pw, s)
        \/ \E n \in Names, txt \in Contents : send_txt(me, n, txt, s)
    BY <1>2, <2>1 DEF Handle
  <2>3. [DBNext]_dbvars
    BY <2>2, MeAssumption DEF DBNext, Call
  <2> QED
    BY <1>2, <2>3, CallInv
<1> QED
  BY <1>1, <1>2

\* What a handler did for a client that is logged in.
LEMMA HandleMember ==
    ASSUME DBInv, NEW r \in Requests, r.type \notin {"login", "registration"},
           NEW s \in Status, Handle(r, s), threads[me] # Absent
    PROVE  /\ r.type \notin {"logout", "delete"} => threads'[me] = threads[me]
           /\ r.type \in {"logout", "delete", "accounts", "correspondents"} => s \in {ok, thrown}
           /\ s = thrown => terminated'
           /\ r.type = "recv_txt" /\ s = ok =>
                 Exists(threads[me]) /\ Exists(r.username) /\ UNCHANGED dbvars
<1>1. CASE r.type = "logout"
  BY <1>1 DEF Handle, logout, is_logged_in, ok, error, thrown
<1>2. CASE r.type = "accounts"
  BY <1>2 DEF Handle, dbvars, is_logged_in, ok, error, thrown
<1>3. CASE r.type = "send_txt"
  BY <1>3 DEF Handle, send_txt, Terminate, dbvars, is_logged_in, ok, error, thrown
<1>4. CASE r.type = "recv_txt"
  BY <1>4 DEF Handle, recv_txt, Terminate, dbvars, is_logged_in, ok, error, thrown
<1>5. CASE r.type = "correspondents"
  BY <1>5 DEF Handle, get_correspondents, Terminate, dbvars, is_logged_in, ok, error, thrown
<1>6. CASE r.type = "delete"
  BY <1>6 DEF Handle, delete_user, Terminate, is_logged_in, ok, error, thrown
<1> QED
  BY <1>1, <1>2, <1>3, <1>4, <1>5, <1>6, RequestFields

\* A member is logged in while its request is on its way to the server.
LEMMA MemberAsks ==
    ASSUME IInv, inq # <<>>, ~terminated
    PROVE  /\ connected /\ Waiting /\ outq = <<>> /\ Len(inq) = 1 /\ Asked(Head(inq))
           /\ Tail(inq) = <<>>
           /\ next_ \in MemberScreens => threads[me] = username_ /\ username_ \in Names
<1>1. connected /\ Waiting /\ outq = <<>> /\ Len(inq) = 1 /\ Asked(Head(inq))
  BY DEF IInv, SocketInv
<1>2. Tail(inq) = <<>>
  BY <1>1, OneElement DEF IInv, ITypeOK
<1>3. main # "returned"
  BY <1>1, AwaitedFacts DEF IInv
<1>4. next_ \in MemberScreens => threads[me] = username_ /\ username_ \in Names
  BY <1>1, <1>3 DEF IInv, SessionInv, ScreensInv
<1> QED
  BY <1>1, <1>2, <1>4

\* The answer to what was asked is what the waiting thread takes it for.
LEMMA AnswerReplies ==
    ASSUME IInv, ~terminated, inq # <<>>, NEW s \in Status, Handle(Head(inq), s), s # thrown,
           UNCHANGED <<next_, main, listener, username_, correspondent_>>
    PROVE  \E a \in Response : a = Answer(Head(inq), s) /\ Replied(a)'
<1>1. PICK r \in Requests : r = Head(inq)
  BY MemberAsks DEF Asked
<1>2. /\ connected /\ Waiting /\ Asked(r)
      /\ next_ \in MemberScreens => threads[me] = username_ /\ username_ \in Names
  BY <1>1, MemberAsks
<1>3. PICK a : a = Answer(r, s)
  OBVIOUS
<1> DEFINE texts == IF s = ok /\ r.type = "recv_txt"
                    THEN chats[threads[me]][r.username].texts ELSE <<>>
           names == IF s = ok /\ r.type = "correspondents"
                    THEN Correspondents(threads[me]) ELSE {}
           code  == IF s = ok THEN "ok"
                    ELSE IF is_logged_in(me) \/ r.type \in {"registration", "login"}
                    THEN "refused" ELSE "unauthorized"
<1>4. a = [type |-> r.type, code |-> code, texts |-> texts, names |-> names]
  BY <1>3 DEF Answer
<1>5. DBInv /\ Handle(r, s) /\ AwaitedType = r.type
  BY <1>1, <1>2 DEF IInv, Asked
<1>6. r.type \notin {"login", "registration"} =>
        next_ \in MemberScreens /\ threads[me] = username_ /\ threads[me] # Absent
  BY <1>2, <1>5, AwaitedFacts, AbsentAssumption DEF IInv
<1>7. s \in {ok, error} /\ ok # error
  BY DEF Status, ok, error, thrown
<1>8. /\ r.type \in {"logout", "delete", "accounts", "correspondents"} => s = ok
      /\ r.type = "recv_txt" /\ s = ok =>
            Exists(threads[me]) /\ Exists(r.username) /\ UNCHANGED dbvars
  BY <1>5, <1>6, HandleMember
<1>9. texts \in Seq(Text)
  <2>1. CASE s = ok /\ r.type = "recv_txt"
    <3>1. threads[me] \in Names /\ r.username \in Names
      BY <1>2, <1>6, <2>1, RequestFields
    <3>2. chats[threads[me]][r.username] \in Chat
      BY <1>5, <3>1 DEF DBInv, TypeOK
    <3> QED
      BY <2>1, <3>2 DEF Chat
  <2>2. CASE ~(s = ok /\ r.type = "recv_txt")
    BY <2>2, EmptySeq
  <2> QED
    BY <2>1, <2>2
<1>10. names \subseteq Names
  BY DEF Correspondents
<1>11. r.type \in {x.type : x \in Requests} /\ code \in {"ok", "refused", "unauthorized"}
  OBVIOUS
<1> HIDE DEF texts, names, code
<1>12. a \in Response /\ a.type = r.type /\ a.code = code /\ a.texts = texts
  BY <1>4, <1>9, <1>10, <1>11 DEF Response
<1>13. /\ code # "unauthorized"
       /\ code = "ok" <=> s = ok
  BY <1>6 DEF code, is_logged_in
<1>14. AwaitedType' = a.type
  BY <1>5, <1>12 DEF AwaitedType, Expected
<1>15. a.type = "login" /\ a.code = "ok" => threads'[me] = username_'
  <2>1. r.type = "login" => r.username = username_
    BY <1>2 DEF Asked
  <2> QED
    BY <1>5, <1>12, <1>13, <2>1, HandleStep
<1>16. a.type = "recv_txt" /\ a.code = "ok" => Reflects(a.texts)'
  <2>1. SUFFICES ASSUME r.type = "recv_txt", s = ok PROVE Reflects(a.texts)'
    BY <1>12, <1>13
  <2>2. /\ threads[me] = username_ /\ r.username = correspondent_
        /\ Exists(username_) /\ Exists(correspondent_) /\ UNCHANGED dbvars
    BY <1>2, <1>6, <1>8, <2>1 DEF Asked
  <2>3. username_ \in Names /\ correspondent_ \in Names
    BY <1>2, <1>6, <2>1, <2>2, RequestFields
  <2>4. username_ \in historical_users /\ correspondent_ \in historical_users
    BY <1>5, <2>2, <2>3 DEF DBInv, History
  <2>5. a.texts = chats[username_][correspondent_].texts /\ a.texts \in Seq(Text)
    BY <1>9, <1>12, <2>1, <2>2 DEF texts
  <2> QED
    BY <2>2, <2>4, <2>5 DEF Reflects, dbvars
<1>17. Replied(a)'
  BY <1>8, <1>12, <1>13, <1>14, <1>15, <1>16 DEF Replied
<1>18. a = Answer(Head(inq), s)
  BY <1>1, <1>3
<1> QED
  BY <1>12, <1>17, <1>18

LEMMA ServeStep ==
    ASSUME IInv, Serve
    PROVE  IInv'
<1>1. /\ connected /\ ~terminated /\ inq # <<>> /\ inq' = Tail(inq)
      /\ UNCHANGED <<next_, username_, password_, correspondent_, all_correspondents_,
                     hit_escape_, curr_chat_, shown, listener, prev_size,
                     listener_should_exit_, connected, main>>
  BY DEF Serve, screenvars, chatvars, threadvars
<1>2. PICK s \in Status :
        /\ Handle(Head(inq), s)
        /\ outq' = IF s = thrown THEN outq ELSE Append(outq, Answer(Head(inq), s))
  BY DEF Serve
<1>3. PICK r \in Requests : r = Head(inq)
  BY <1>1, MemberAsks DEF Asked
<1>4. /\ Waiting /\ outq = <<>> /\ Asked(r) /\ inq' = <<>> /\ Handle(r, s)
      /\ next_ \in MemberScreens => threads[me] = username_ /\ username_ \in Names
  BY <1>1, <1>2, <1>3, MemberAsks
<1>5. /\ DBInv'
      /\ r.type # "login" => [DBNext]_dbvars
      /\ r.type = "login" => UNCHANGED <<users, chats, historical_users, terminated>> /\ s # thrown
  BY <1>1, <1>4, HandleStep DEF IInv
<1>6. \/ s = thrown /\ outq' = <<>>
      \/ /\ s # thrown /\ outq' \in Seq(Response) /\ outq' # <<>> /\ Len(outq') = 1
         /\ \E a \in Response : a = Head(outq') /\ a.type = r.type /\ Replied(a)'
  <2>1. CASE s = thrown
    BY <1>2, <1>4, <2>1
  <2>2. CASE s # thrown
    <3>1. PICK a \in Response : a = Answer(Head(inq), s) /\ Replied(a)'
      BY <1>1, <1>2, <2>2, AnswerReplies
    <3>2. outq' = Append(<<>>, a)
      BY <1>2, <1>4, <2>2, <3>1
    <3>3. <<>> \in Seq(Response)
      BY EmptySeq
    <3>4. outq' \in Seq(Response) /\ outq' # <<>> /\ Len(outq') = 1 /\ Head(outq') = a
      BY <3>2, <3>3, OneElement
    <3>5. a.type = r.type
      BY <1>3, <3>1 DEF Answer
    <3> QED
      BY <2>2, <3>1, <3>4, <3>5
  <2> QED
    BY <2>1, <2>2
<1>7. Waiting'
  BY <1>1, <1>4 DEF Waiting
<1>8. SocketInv'
  <2>1. CASE outq' = <<>>
    BY <1>4, <2>1 DEF SocketInv
  <2>2. ASSUME Len(outq') = 1, NEW a \in Response, a = Head(outq'), Replied(a)'
        PROVE  SocketInv'
    <3>1. Replied(Head(outq))'
      BY <2>2 DEF Replied, Reflects
    <3> QED
      BY <1>1, <1>4, <1>7, <2>2, <3>1 DEF SocketInv
  <2> QED
    BY <1>6, <2>1, <2>2
<1>9. ITypeOK'
  <2>1. inq' \in Seq(Requests) /\ outq' \in Seq(Response)
    BY <1>4, <1>6, EmptySeq
  <2> QED
    BY <1>1, <1>5, <2>1 DEF IInv, ITypeOK, DBInv
<1>10. ScreensInv'
  BY <1>1 DEF IInv, ScreensInv
<1>11. ChatInv'
  <2>1. CASE r.type = "login"
    BY <1>1, <1>5, <2>1, ChatStays DEF IInv
  <2>2. CASE r.type # "login"
    BY <1>1, <1>5, <2>2, ChatStep
  <2> QED
    BY <2>1, <2>2
<1>12. SessionInv'
  <2>1. SUFFICES ASSUME ~terminated', next_ \in MemberScreens
                 PROVE  \/ threads'[me] = username_
                        \/ outq' # <<>> /\ Head(outq').type \in {"logout", "delete"}
    BY <1>1 DEF SessionInv
  <2>2. threads[me] = username_ /\ threads[me] # Absent
    BY <1>4, <2>1, AbsentAssumption
  <2>3. r.type \notin {"login", "registration"}
    BY <1>4, <2>1, AwaitedFacts DEF IInv, Asked, MemberScreens
  <2>4. /\ r.type \notin {"logout", "delete"} => threads'[me] = threads[me]
        /\ s # thrown
    BY <1>4, <2>1, <2>2, <2>3, HandleMember DEF IInv
  <2> QED
    BY <1>6, <2>2, <2>4
<1> QED
  BY <1>5, <1>8, <1>9, <1>10, <1>11, <1>12 DEF IInv

\* A response is taken from the socket: the only one there is.
LEMMA ResponseTaken ==
    ASSUME IInv, Waiting, outq # <<>>
    PROVE  /\ inq = <<>> /\ Tail(outq) = <<>>
           /\ Head(outq) \in Response /\ Replied(Head(outq))
           /\ Received(Head(outq)) \in Seq(Text)
           /\ next_ = "send_txt" \/ (Head(outq).type = "recv_txt" /\ Head(outq).code = "ok") =>
                 Reflects(Received(Head(outq)))
<1>1. inq = <<>> /\ Len(outq) = 1 /\ Replied(Head(outq))
  BY DEF IInv, SocketInv
<1>2. Tail(outq) = <<>> /\ Head(outq) \in Response
  BY <1>1, OneElement DEF IInv, ITypeOK
<1>3. Received(Head(outq)) \in Seq(Text)
  BY <1>2 DEF Received, Response, IInv, ITypeOK
<1>4. ASSUME next_ = "send_txt" \/ (Head(outq).type = "recv_txt" /\ Head(outq).code = "ok")
      PROVE  Reflects(Received(Head(outq)))
  BY <1>1, <1>4 DEF Received, Replied, IInv, ChatInv
<1> QED
  BY <1>1, <1>2, <1>3, <1>4

LEMMA ListenerHearsStep ==
    ASSUME IInv, ListenerHears
    PROVE  IInv'
<1>1. /\ listener = "answer" /\ listener' = "draw"
      /\ UNCHANGED <<next_, username_, password_, correspondent_, all_correspondents_,
                     hit_escape_, shown, prev_size, listener_should_exit_, inq, connected, main>>
      /\ UNCHANGED dbvars
  BY DEF ListenerHears, screenvars
<1>2. Waiting /\ next_ = "send_txt" /\ main \in {"typing", "stop", "join"}
  BY <1>1 DEF IInv, ScreensInv, Waiting
<1>3. PICK c \in Seq(Text) : c = curr_chat_' /\ inq = <<>> /\ outq' = <<>> /\ Reflects(c)
  <2>1. CASE outq # <<>> /\ outq' = Tail(outq) /\ curr_chat_' = Received(Head(outq))
    <3>1. PICK r : r = Head(outq) /\ outq # <<>> /\ outq' = Tail(outq)
      BY <2>1
    <3>2. inq = <<>> /\ outq' = <<>> /\ Received(r) \in Seq(Text) /\ Reflects(Received(r))
      <4>1. inq = <<>> /\ Tail(outq) = <<>> /\ Received(Head(outq)) \in Seq(Text)
        BY <1>2, <3>1, ResponseTaken
      <4>2. Reflects(Received(Head(outq)))
        BY <1>2, <3>1, ResponseTaken
      <4> QED
        BY <3>1, <4>1, <4>2
    <3>3. curr_chat_' = Received(r)
      BY <2>1, <3>1
    <3> QED
      BY <3>2, <3>3
  <2>2. CASE ~connected /\ UNCHANGED <<outq, curr_chat_>>
    <3>1. PICK c : c = curr_chat_
      OBVIOUS
    <3>2. c \in Seq(Text) /\ Reflects(c)
      BY <1>2, <3>1 DEF IInv, ITypeOK, ChatInv
    <3> QED
      BY <1>2, <2>2, <3>1, <3>2 DEF IInv, SocketInv
  <2> QED
    BY <2>1, <2>2 DEF ListenerHears
<1>4. DBInv'
  BY <1>1, StutterStep DEF IInv
<1>5. ITypeOK'
  <2>1. outq' \in Seq(Response)
    BY <1>3, EmptySeq
  <2> QED
    BY <1>1, <1>3, <1>4, <2>1 DEF IInv, ITypeOK, DBInv
<1>6. ScreensInv'
  BY <1>1, <1>2 DEF IInv, ScreensInv
<1>7. SocketInv'
  BY <1>1, <1>3 DEF SocketInv
<1>8. ChatInv'
  BY <1>1, <1>2, <1>3 DEF IInv, ChatInv, Reflects, Exists, dbvars
<1>9. SessionInv'
  <2>1. outq # <<>> => Head(outq).type = "recv_txt"
    BY <1>1, <1>2, ResponseTaken DEF Replied, AwaitedType
  <2> QED
    BY <1>1, <2>1 DEF IInv, SessionInv, dbvars
<1> QED
  BY <1>4, <1>5, <1>6, <1>7, <1>8, <1>9 DEF IInv

LEMMA HearStep ==
    ASSUME IInv, Hear
    PROVE  IInv'
<1>1. PICK r : r = Head(outq)
  OBVIOUS
<1>2. /\ main \in {"answer", "refresh"} /\ outq # <<>> /\ r.type = Expected
      /\ ~(main = "answer" /\ next_ = "send_txt" /\ r.code = "ok")
      /\ r.code = "ok" => next_' = AfterOk[next_]
      /\ r.code # "ok" /\ main = "answer" => next_' = AfterRefusal[next_]
      /\ r.code # "ok" /\ main = "refresh" => next_' = "recv_txt_fail"
      /\ curr_chat_' = Received(r) /\ outq' = Tail(outq) /\ main' = "screen"
      /\ all_correspondents_' = IF r.type = "correspondents" /\ r.code = "ok"
                                THEN r.names ELSE all_correspondents_
      /\ UNCHANGED <<username_, password_, correspondent_, hit_escape_, shown, listener,
                     prev_size, listener_should_exit_, inq, connected>>
      /\ UNCHANGED dbvars
  BY <1>1 DEF Hear, threadvars
<1>3. Waiting /\ listener = "none"
  BY <1>2 DEF IInv, ScreensInv, Waiting
<1>4. /\ inq = <<>> /\ outq' = <<>> /\ r \in Response /\ Replied(r)
      /\ Received(r) \in Seq(Text)
      /\ next_ = "send_txt" \/ (r.type = "recv_txt" /\ r.code = "ok") => Reflects(Received(r))
  BY <1>1, <1>2, <1>3, ResponseTaken
<1>5. r.type = AwaitedType /\ ScreensInv
  BY <1>4 DEF Replied, IInv
<1>6. next_ \in DOMAIN AfterOk /\ (main = "refresh" => next_ = "send_txt")
  BY <1>2, AfterFacts DEF IInv, ScreensInv
<1>7. DBInv'
  BY <1>2, StutterStep DEF IInv
<1>8. ITypeOK'
  <2>1. outq' \in Seq(Response)
    BY <1>4, EmptySeq
  <2>2. next_' \in Screens
    BY <1>2, <1>6, AfterFacts DEF Screens, MemberScreens
  <2>3. all_correspondents_' \subseteq Names
    BY <1>2, <1>4 DEF Response, IInv, ITypeOK
  <2> QED
    BY <1>2, <1>4, <1>7, <2>1, <2>2, <2>3 DEF IInv, ITypeOK, DBInv
<1>9. next_' \in MemberScreens =>
        \/ next_ \in MemberScreens /\ ~(r.code = "ok" /\ next_ \in {"main_menu", "delete_account"})
        \/ next_ \in {"login", "registration_success"} /\ r.code = "ok" /\ main = "answer"
  BY <1>2, <1>6, AfterFacts DEF MemberScreens
<1>10. /\ next_' = "registration_success" => next_ = "registration" /\ main = "answer"
       /\ next_' = "send_txt" => next_ \in {"recv_txt", "send_txt"} /\ r.code = "ok"
       /\ next_' # "recv_txt"
  BY <1>2, <1>6, AfterFacts
<1>11. ScreensInv'
  BY <1>2, <1>3, <1>5, <1>9, <1>10 DEF ScreensInv
<1>12. SocketInv'
  BY <1>2, <1>4 DEF SocketInv
<1>13. ChatInv'
  <2>1. SUFFICES ASSUME next_' = "send_txt" PROVE Reflects(Received(r))
    BY <1>2, <1>3 DEF ChatInv, Reflects, Exists, dbvars
  <2>2. next_ = "send_txt" \/ (r.type = "recv_txt" /\ r.code = "ok")
    BY <1>2, <1>3, <1>5, <1>10, <2>1, AwaitedFacts
  <2> QED
    BY <1>4, <2>2
<1>14. SessionInv'
  <2>1. SUFFICES ASSUME connected, ~terminated, next_' \in MemberScreens
                 PROVE  threads[me] = username_
    BY <1>2 DEF SessionInv, dbvars
  <2>2. CASE next_ \in MemberScreens
    <3>1. SUFFICES ASSUME r.type \in {"logout", "delete"} PROVE FALSE
      BY <1>1, <1>2, <2>1, <2>2 DEF IInv, SessionInv
    <3>2. r.code = "ok" /\ next_ \in {"main_menu", "delete_account"}
      BY <1>3, <1>4, <1>5, <3>1, AwaitedFacts DEF Replied
    <3> QED
      BY <1>2, <1>6, <2>1, <3>2, AfterFacts
  <2>3. CASE next_ \in {"login", "registration_success"} /\ r.code = "ok"
    <3>1. r.type = "login"
      BY <1>3, <1>5, <2>3, AwaitedFacts DEF MemberScreens
    <3> QED
      BY <1>4, <2>1, <2>3, <3>1 DEF Replied
  <2> QED
    BY <1>9, <2>1, <2>2, <2>3
<1> QED
  BY <1>7, <1>8, <1>11, <1>12, <1>13, <1>14 DEF IInv
-----------------------------------------------------------------------------
(***************************************************************************)
(* The invariant, and what it says.                                        *)
(***************************************************************************)

LEMMA IInitInv == IInit => IInv
<1> SUFFICES ASSUME IInit PROVE IInv
  OBVIOUS
<1>1. DBInv
  BY InitInv DEF IInit
<1>2. ITypeOK
  <2>1. /\ <<>> \in Seq(Requests) /\ <<>> \in Seq(Response) /\ <<>> \in Seq(Text)
    BY EmptySeq
  <2> QED
    BY <1>1, <2>1 DEF IInit, ITypeOK, DBInv, Screens
<1>3. ScreensInv /\ SocketInv /\ SessionInv /\ ChatInv
  BY DEF IInit, ScreensInv, SocketInv, SessionInv, ChatInv, MemberScreens
<1> QED
  BY <1>1, <1>2, <1>3 DEF IInv

LEMMA INextInv ==
    ASSUME IInv, [INext]_ivars
    PROVE  IInv'
<1>1. CASE UNCHANGED ivars
  <2>1. /\ UNCHANGED <<next_, username_, password_, correspondent_, all_correspondents_,
                       hit_escape_, curr_chat_, shown, listener, prev_size,
                       listener_should_exit_, inq, outq, connected, main>>
        /\ UNCHANGED dbvars
    BY <1>1 DEF ivars, screenvars, chatvars, threadvars, socket
  <2>2. UNCHANGED threads
    BY <2>1 DEF dbvars
  <2>3. SocketInv'
    BY <2>1, <2>2, SocketStays DEF Waiting, AwaitedType, Expected
  <2>4. DBInv'
    BY <2>1, StutterStep DEF IInv
  <2>5. ITypeOK' /\ ScreensInv'
    BY <2>1, <2>4 DEF IInv, ITypeOK, ScreensInv, DBInv
  <2>6. ChatInv' /\ SessionInv'
    BY <2>1, ChatStays DEF IInv, SessionInv, dbvars
  <2> QED
    BY <2>3, <2>4, <2>5, <2>6 DEF IInv
<1>2. CASE User
  BY <1>2, ChooseStep, PickChatStep, EnterStep, ConfirmStep, KeyStep DEF User
<1>3. CASE MainThread
  BY <1>3, ProceedStep, HearSentStep, HearStep, ReturnStep, OpenChatStep, KeyStep, JoinStep
     DEF MainThread
<1>4. CASE ListenerThread
  BY <1>4, ListenerStep, PollStep, ListenerHearsStep DEF ListenerThread
<1>5. CASE Serve \/ Break \/ Others
  BY <1>5, ServeStep, BreakStep, OthersStep
<1> QED
  BY <1>1, <1>2, <1>3, <1>4, <1>5 DEF INext

\* IInv is an invariant of the client and its server.
THEOREM IInvariance == ISpec => []IInv
<1>1. IInit => IInv
  BY IInitInv
<1>2. IInv /\ [INext]_ivars => IInv'
  BY INextInv
<1> QED
  BY <1>1, <1>2, PTL DEF ISpec

\* The client, its socket and its server keep the types of their variables.
THEOREM InterfaceTypeCorrect == ISpec => []ITypeOK
<1>1. IInv => ITypeOK
  BY DEF IInv
<1> QED
  BY <1>1, IInvariance, PTL

\* Two threads share the socket without a lock, and yet there is never more than
\* one request or response on it, nor a response to the other thread's request.
THEOREM OneThreadOnTheSocket == ISpec => []SocketExclusive
<1>1. ASSUME IInv PROVE SocketExclusive
  <2> DEFINE waiting == {"main" : x \in {main} \cap {"answer", "refresh"}}
                           \cup {"listener" : x \in {listener} \cap {"answer"}}
  <2>1. /\ waiting # {"main", "listener"}
        /\ Waiting => waiting # {}
        /\ (waiting = {"main"}) <=> main \in {"answer", "refresh"}
    <3>1. "main" # "listener" /\ ~(main \in {"answer", "refresh"} /\ listener = "answer")
      BY <1>1 DEF IInv, ScreensInv
    <3>2. "main" \in waiting <=> main \in {"answer", "refresh"}
      BY <3>1
    <3>3. "listener" \in waiting <=> listener = "answer"
      BY <3>1
    <3>4. \A x \in waiting : x \in {"main", "listener"}
      OBVIOUS
    <3> HIDE DEF waiting
    <3> QED
      BY <3>1, <3>2, <3>3, <3>4 DEF Waiting
  <2>2. /\ inq \in Seq(Requests) /\ outq \in Seq(Response)
        /\ Len(<<>>) = 0
    BY <1>1 DEF IInv, ITypeOK
  <2>3. CASE inq = <<>> /\ outq = <<>>
    <3>1. inq \o outq = <<>> /\ DOMAIN outq = {}
      BY <2>2, <2>3
    <3> QED
      BY <2>1, <2>2, <2>3, <3>1 DEF SocketExclusive
  <2>4. CASE Waiting /\ outq = <<>> /\ Len(inq) = 1
    <3>1. DOMAIN outq = {}
      BY <2>4
    <3> QED
      BY <2>1, <2>2, <2>4, <3>1 DEF SocketExclusive
  <2>5. CASE Waiting /\ inq = <<>> /\ Len(outq) = 1 /\ Replied(Head(outq))
    <3>1. \A i \in DOMAIN outq : outq[i] = Head(outq)
      BY <2>2, <2>5
    <3>2. Head(outq).type = IF waiting = {"main"} THEN Expected ELSE "recv_txt"
      BY <1>1, <2>1, <2>5 DEF Replied, AwaitedType, Waiting, IInv, ScreensInv
    <3> QED
      BY <2>1, <2>2, <2>5, <3>1, <3>2 DEF SocketExclusive
  <2> QED
    BY <1>1, <2>3, <2>4, <2>5 DEF IInv, SocketInv
<1>2. IInv => SocketExclusive
  BY <1>1
<1> QED
  BY <1>2, IInvariance, PTL

\* The listener never outlives the chat screen, however keys, time-outs and
\* responses interleave.
THEOREM ListenerStaysOnChat == ISpec => []ListenerConfined
<1>1. IInv => ListenerConfined
  BY DEF IInv, ScreensInv, ListenerConfined
<1> QED
  BY <1>1, IInvariance, PTL

\* Where the interface shows a member's screen the server knows the member: no
\* order of requests, responses and other clients' deletions separates the two.
THEOREM ScreensTellTheSession == ISpec => []ScreenMatchesSession
<1>1. ASSUME IInv, connected, ~terminated, main \in {"screen", "typing", "stop", "join"},
             next_ \in MemberScreens
      PROVE  threads[me] = username_
  <2>1. outq # <<>> => Waiting /\ Replied(Head(outq))
    BY <1>1 DEF IInv, SocketInv
  <2>2. outq # <<>> => Head(outq).type = "recv_txt"
    BY <1>1, <2>1 DEF Replied, AwaitedType, Waiting
  <2> QED
    BY <1>1, <2>2 DEF IInv, SessionInv
<1>2. IInv => ScreenMatchesSession
  BY <1>1 DEF ScreenMatchesSession
<1> QED
  BY <1>2, IInvariance, PTL

\* The server never refuses a request of this client as unauthorized.
THEOREM AlwaysAuthorized == ISpec => []NeverUnauthorized
<1>1. ASSUME IInv PROVE NeverUnauthorized
  <2>1. outq \in Seq(Response)
    BY <1>1 DEF IInv, ITypeOK
  <2>2. CASE outq = <<>>
    BY <2>2 DEF NeverUnauthorized
  <2>3. CASE Len(outq) = 1 /\ Replied(Head(outq))
    BY <2>1, <2>3 DEF NeverUnauthorized, Replied
  <2> QED
    BY <1>1, <2>2, <2>3 DEF IInv, SocketInv
<1>2. IInv => NeverUnauthorized
  BY <1>1
<1> QED
  BY <1>2, IInvariance, PTL

\* What the chat screen shows is a prefix of the server's copy of that chat,
\* while texts arrive and other clients write, and delete accounts.
THEOREM ScreenShowsTheChat == ISpec => []ShownIsPrefix
<1>1. IInv => ShownIsPrefix
  BY DEF IInv, ChatInv, Reflects, ShownIsPrefix
<1> QED
  BY <1>1, IInvariance, PTL
=============================================================================
