----------------------------- MODULE Interface -----------------------------
(***************************************************************************)
(* The console client of the wire-protocol flavour                         *)
(* (chat262-wire-protocol/src/client/interface.cc, client.cc): the screens *)
(* as a state machine driven by the user, and on the chat screen a second  *)
(* thread that asks for new texts over the same socket.  The server is     *)
(* Database, called by thread me for this client and by other threads for  *)
(* the other clients.  A handler of the server is one step here: what its  *)
(* check established still holds when it acts (CheckThenActIsSafe in       *)
(* ServerProofs).                                                          *)
(***************************************************************************)
EXTENDS Database

CONSTANT me   \* the server thread of this client

ASSUME MeAssumption == me \in Threads

VARIABLES
    next_,                  \* the screen
    main,                   \* what the main thread does on it
    username_,              \* the name typed last
    password_,              \* the password typed last
    correspondent_,         \* whose chat is open, or to be opened
    all_correspondents_,    \* the correspondents received last
    curr_chat_,             \* the texts received last
    shown,                  \* the texts drawn last on the chat screen
    hit_escape_,            \* the user left the text prompt with ESC
    listener,               \* what the listener thread does
    prev_size,              \* its local variable of that name
    listener_should_exit_,  \* tells the listener to end
    inq, outq,              \* the socket: requests to, responses from the server
    connected               \* the connection is there

screenvars == <<next_, username_, password_, correspondent_, all_correspondents_, hit_escape_>>
chatvars   == <<curr_chat_, shown>>
threadvars == <<listener, prev_size, listener_should_exit_>>
socket     == <<inq, outq, connected>>
ivars      == <<screenvars, chatvars, threadvars, socket, main, dbvars>>

\* The screens on which the interface takes the user to be logged in.
MemberScreens ==
    {"main_menu", "search_accounts", "search_accounts_success", "search_accounts_fail",
     "open_chats", "open_chats_success", "open_chats_fail", "new_chat", "recv_txt",
     "recv_txt_fail", "send_txt", "send_txt_fail", "delete_account", "delete_account_fail"}
Screens == MemberScreens \cup
    {"login_registration", "login", "login_fail", "registration", "registration_success",
     "registration_fail", "delete_account_success", "exit"}

Requests ==
         [type : {"registration", "login"}, username : Names, password : Passwords]
    \cup [type : {"send_txt"}, username : Names, txt : Contents]
    \cup [type : {"recv_txt"}, username : Names]
    \cup [type : {"logout", "accounts", "correspondents", "delete"}]
Response == [type : {r.type : r \in Requests}, code : {"ok", "refused", "unauthorized"},
             texts : Seq(Text), names : SUBSET Names]

IInit ==
    /\ DBInit
    /\ next_ = "login_registration" /\ main = "screen"
    /\ username_ = Absent /\ password_ = Absent /\ correspondent_ = Absent
    /\ all_correspondents_ = {} /\ curr_chat_ = <<>> /\ shown = <<>>
    /\ hit_escape_ = FALSE
    /\ listener = "none" /\ prev_size = 0
    /\ listener_should_exit_ = FALSE
    /\ inq = <<>> /\ outq = <<>> /\ connected = TRUE

-----------------------------------------------------------------------------
(***************************************************************************)
(* The server's side of the socket.                                        *)
(***************************************************************************)

Handle(r, s) ==
    \/ r.type = "registration"   /\ registration(r.username, r.password, s)
    \/ /\ r.type = "login"   \* after logging out whoever is logged in
       /\ s = IF users[r.username] = r.password THEN ok ELSE error
       /\ threads' = [threads EXCEPT ![me] = IF s = ok THEN r.username ELSE Absent]
       /\ UNCHANGED <<users, chats, historical_users, terminated>>
    \/ r.type = "logout"         /\ logout(me, s)
    \/ r.type = "accounts"       /\ s = (IF is_logged_in(me) THEN ok ELSE error)
                                 /\ UNCHANGED dbvars
    \/ r.type = "send_txt"       /\ send_txt(me, r.username, r.txt, s)
    \/ r.type = "recv_txt"       /\ recv_txt(me, r.username, s)
    \/ r.type = "correspondents" /\ get_correspondents(me, s)
    \/ r.type = "delete"         /\ delete_user(me, s)

Answer(r, s) ==
    [type  |-> r.type,
     code  |-> IF s = ok THEN "ok"
               ELSE IF is_logged_in(me) \/ r.type \in {"registration", "login"}
               THEN "refused" ELSE "unauthorized",
     texts |-> IF s = ok /\ r.type = "recv_txt"
               THEN chats[threads[me]][r.username].texts ELSE <<>>,
     names |-> IF s = ok /\ r.type = "correspondents"
               THEN Correspondents(threads[me]) ELSE {}]

Serve ==
    /\ connected /\ ~terminated /\ inq # <<>>
    /\ inq' = Tail(inq)
    /\ \E s \in Status :
          /\ Handle(Head(inq), s)
          /\ outq' = IF s = thrown THEN outq ELSE Append(outq, Answer(Head(inq), s))
    /\ UNCHANGED <<connected, screenvars, chatvars, threadvars, main>>

\* The connection breaks, or the server is gone: its thread logs the user out.
Break ==
    /\ connected
    /\ connected' = FALSE /\ inq' = <<>> /\ outq' = <<>>
    /\ IF terminated THEN UNCHANGED threads ELSE threads' = [threads EXCEPT ![me] = Absent]
    /\ UNCHANGED <<users, chats, historical_users, terminated>>
    /\ UNCHANGED <<screenvars, chatvars, threadvars, main>>

Others ==
    /\ ~terminated
    /\ \E t \in Threads \ {me} : Call(t)
    /\ UNCHANGED <<screenvars, chatvars, threadvars, socket, main>>
-----------------------------------------------------------------------------
(***************************************************************************)
(* The main thread: screens.                                               *)
(***************************************************************************)

\* Where the user's choices lead when no request is made.
Menu == {
    <<"login_registration", "login">>, <<"login_registration", "registration">>,
    <<"login_registration", "exit">>,
    <<"login", "login_registration">>, <<"registration", "login_registration">>,
    <<"login_fail", "login">>, <<"login_fail", "login_registration">>,
    <<"registration_fail", "registration">>, <<"registration_fail", "login_registration">>,
    <<"main_menu", "open_chats">>, <<"main_menu", "search_accounts">>,
    <<"main_menu", "delete_account">>,
    <<"open_chats_success", "new_chat">>, <<"open_chats_success", "main_menu">>,
    <<"open_chats_fail", "main_menu">>, <<"new_chat", "open_chats">>,
    <<"recv_txt_fail", "open_chats">>, <<"send_txt_fail", "open_chats">>,
    <<"search_accounts", "main_menu">>, <<"search_accounts_success", "search_accounts">>,
    <<"search_accounts_fail", "main_menu">>,
    <<"delete_account", "main_menu">>, <<"delete_account_success", "login_registration">>,
    <<"delete_account_fail", "main_menu">>}

\* A prompt left with ESC leaves what was typed so far, which is no name.
Choose(screen) ==
    /\ main = "screen" /\ <<next_, screen>> \in Menu
    /\ next_' = screen
    /\ IF next_ \in {"login", "registration"}
       THEN username_' = Absent /\ password_' = Absent
       ELSE UNCHANGED <<username_, password_>>
    /\ IF next_ = "new_chat" THEN correspondent_' = Absent
                             ELSE UNCHANGED correspondent_
    /\ UNCHANGED <<all_correspondents_, hit_escape_, chatvars, threadvars, socket, main, dbvars>>

\* A chat is picked from the list, or the name of a correspondent is typed.
PickChat(n) ==
    /\ main = "screen"
    /\ \/ next_ = "new_chat"
       \/ next_ = "open_chats_success" /\ n \in all_correspondents_
    /\ next_' = "recv_txt" /\ correspondent_' = n
    /\ UNCHANGED <<username_, password_, all_correspondents_, hit_escape_,
                   chatvars, threadvars, socket, main, dbvars>>

\* A request that is written to a broken connection goes nowhere.
Request(r) == inq' = IF connected THEN Append(inq, r) ELSE inq

\* Name and password are typed and sent.
Enter(n, pw) ==
    /\ main = "screen" /\ next_ \in {"login", "registration"}
    /\ username_' = n /\ password_' = pw
    /\ Request([type |-> next_, username |-> n, password |-> pw])
    /\ main' = "answer"
    /\ UNCHANGED <<next_, correspondent_, all_correspondents_, hit_escape_, chatvars,
                   threadvars, outq, connected, dbvars>>

\* Screens that make a request at the user's choice, and those that make one by
\* themselves.
Confirm ==
    /\ main = "screen" /\ next_ \in {"main_menu", "search_accounts", "delete_account"}
    /\ Request([type |-> CASE next_ = "main_menu"       -> "logout"
                           [] next_ = "search_accounts" -> "accounts"
                           [] next_ = "delete_account"  -> "delete"])
    /\ main' = "answer"
    /\ UNCHANGED <<screenvars, chatvars, threadvars, outq, connected, dbvars>>

Proceed ==
    /\ main = "screen"
    /\ \/ /\ next_ = "registration_success"
          /\ Request([type |-> "login", username |-> username_, password |-> password_])
       \/ next_ = "open_chats" /\ Request([type |-> "correspondents"])
       \/ next_ = "recv_txt" /\ Request([type |-> "recv_txt", username |-> correspondent_])
    /\ main' = "answer"
    /\ UNCHANGED <<screenvars, chatvars, threadvars, outq, connected, dbvars>>

\* Mutant: deleting the account leads back to the main menu.
AfterOk_staying ==
    [login |-> "main_menu", registration |-> "registration_success",
     registration_success |-> "main_menu", main_menu |-> "login_registration",
     open_chats |-> "open_chats_success", recv_txt |-> "send_txt",
     send_txt |-> "send_txt", search_accounts |-> "search_accounts_success",
     delete_account |-> "main_menu"]

\* Mutant: the login after a registration is taken for granted.
AfterRefusal_optimistic ==
    [login |-> "login_fail", registration |-> "registration_fail",
     registration_success |-> "main_menu", main_menu |-> "main_menu",
     open_chats |-> "open_chats_fail", recv_txt |-> "recv_txt_fail",
     send_txt |-> "send_txt_fail", search_accounts |-> "search_accounts_fail",
     delete_account |-> "delete_account_fail"]

\* The screen after a request was granted, and after it was refused.
AfterOk == [login |-> "main_menu", registration |-> "registration_success",
            registration_success |-> "main_menu", main_menu |-> "login_registration",
            open_chats |-> "open_chats_success", recv_txt |-> "send_txt",
            send_txt |-> "send_txt", search_accounts |-> "search_accounts_success",
            delete_account |-> "delete_account_success"]
AfterRefusal == [login |-> "login_fail", registration |-> "registration_fail",
                 registration_success |-> "login_fail", main_menu |-> "main_menu",
                 open_chats |-> "open_chats_fail", recv_txt |-> "recv_txt_fail",
                 send_txt |-> "send_txt_fail", search_accounts |-> "search_accounts_fail",
                 delete_account |-> "delete_account_fail"]

\* The response the main thread waits for; "refresh" follows a text just sent.
Expected ==
    CASE main = "refresh" -> "recv_txt"
      [] main = "answer" /\ next_ = "registration_success" -> "login"
      [] main = "answer" /\ next_ = "main_menu"       -> "logout"
      [] main = "answer" /\ next_ = "open_chats"      -> "correspondents"
      [] main = "answer" /\ next_ = "search_accounts" -> "accounts"
      [] main = "answer" /\ next_ = "delete_account"  -> "delete"
      [] OTHER -> next_

\* Mutant: texts are added to those already there.
Received_adding(r) ==
    IF r.type = "recv_txt" /\ r.code = "ok" THEN curr_chat_ \o r.texts ELSE curr_chat_

Received(r) == IF r.type = "recv_txt" /\ r.code = "ok" THEN r.texts ELSE curr_chat_

\* A text was sent: the chat is asked for again before it is drawn.
HearSent ==
    /\ main = "answer" /\ next_ = "send_txt" /\ outq # <<>>
    /\ Head(outq).type = "send_txt" /\ Head(outq).code = "ok"
    /\ outq' = Tail(outq)
    /\ Request([type |-> "recv_txt", username |-> correspondent_])
    /\ main' = "refresh"
    /\ UNCHANGED <<screenvars, chatvars, threadvars, connected, dbvars>>

Hear ==
    LET r == Head(outq) IN
    /\ main \in {"answer", "refresh"} /\ outq # <<>> /\ r.type = Expected
    /\ ~(main = "answer" /\ next_ = "send_txt" /\ r.code = "ok")
    /\ outq' = Tail(outq)
    /\ next_' = CASE r.code = "ok" -> AfterOk[next_]
                  [] r.code # "ok" /\ main = "answer"  -> AfterRefusal[next_]
                  [] r.code # "ok" /\ main = "refresh" -> "recv_txt_fail"
    /\ curr_chat_' = Received(r)
    /\ all_correspondents_' = IF r.type = "correspondents" /\ r.code = "ok"
                              THEN r.names ELSE all_correspondents_
    /\ main' = "screen"
    /\ UNCHANGED <<username_, password_, correspondent_, hit_escape_, shown, threadvars,
                   inq, connected, dbvars>>

\* start() returns: on the exit screen, without a connection, or on a response
\* to something else.
Return ==
    /\ \/ main = "screen" /\ next_ = "exit"
       \/ main \in {"answer", "refresh"} /\ ~connected
       \/ main \in {"answer", "refresh"} /\ outq # <<>> /\ Head(outq).type # Expected
    /\ main' = "returned"
    /\ UNCHANGED <<screenvars, chatvars, threadvars, socket, dbvars>>
-----------------------------------------------------------------------------
(***************************************************************************)
(* The chat screen: the main thread takes keys while the listener asks for *)
(* new texts.  What either does between locking and unlocking mutex_ is    *)
(* part of one step.  The listener writes curr_chat_ without the lock; the *)
(* main thread reads it only when there is no listener.                    *)
(***************************************************************************)

OpenChat ==
    /\ main = "screen" /\ next_ = "send_txt"
    /\ shown' = curr_chat_
    /\ listener_should_exit_' = FALSE /\ listener' = "start" /\ main' = "typing"
    /\ UNCHANGED <<screenvars, curr_chat_, prev_size, socket, dbvars>>

\* ENTER or ESC ends get_user_txt.
FinishTyping(escape) ==
    /\ main = "typing"
    /\ hit_escape_' = escape /\ main' = "stop"
    /\ UNCHANGED <<next_, username_, password_, correspondent_, all_correspondents_,
                   chatvars, threadvars, socket, dbvars>>

\* Mutant: the main thread goes on without waiting for the listener.
StopListener_without_join ==
    /\ main = "stop"
    /\ listener_should_exit_' = TRUE
    /\ IF hit_escape_ THEN next_' = "open_chats" /\ main' = "screen" /\ UNCHANGED inq
       ELSE /\ \E txt \in Contents :
                 Request([type |-> "send_txt", username |-> correspondent_, txt |-> txt])
            /\ main' = "answer" /\ UNCHANGED next_
    /\ UNCHANGED <<username_, password_, correspondent_, all_correspondents_, hit_escape_,
                   chatvars, listener, prev_size, outq, connected, dbvars>>

StopListener ==
    /\ main = "stop"
    /\ listener_should_exit_' = TRUE /\ main' = "join"
    /\ UNCHANGED <<screenvars, chatvars, listener, prev_size, socket, dbvars>>

\* Mutant: the listener is detached, not joined.
Join_detaching ==
    /\ main = "join"
    /\ IF hit_escape_
       THEN next_' = "open_chats" /\ main' = "screen" /\ UNCHANGED inq
       ELSE /\ \E txt \in Contents :
                 Request([type |-> "send_txt", username |-> correspondent_, txt |-> txt])
            /\ main' = "answer" /\ UNCHANGED next_
    /\ UNCHANGED <<username_, password_, correspondent_, all_correspondents_, hit_escape_,
                   chatvars, threadvars, outq, connected, dbvars>>

\* The listener has ended; the text, if there is one, is sent.
Join ==
    /\ main = "join" /\ listener = "none"
    /\ \/ /\ hit_escape_
          /\ next_' = "open_chats" /\ main' = "screen" /\ UNCHANGED inq
       \/ /\ ~hit_escape_
          /\ \E txt \in Contents :
               Request([type |-> "send_txt", username |-> correspondent_, txt |-> txt])
          /\ main' = "answer" /\ UNCHANGED next_
    /\ UNCHANGED <<username_, password_, correspondent_, all_correspondents_, hit_escape_,
                   chatvars, threadvars, outq, connected, dbvars>>

\* Mutant: the loop does not test the flag.
Loop_unconditional == listener' = "wait"

\* The test of the loop, made with the mutex held; then the listener waits on
\* the condition variable, which releases it.
Loop == listener' = IF listener_should_exit_ THEN "none" ELSE "wait"

Start ==
    /\ listener = "start" /\ Loop
    /\ UNCHANGED <<screenvars, chatvars, prev_size, listener_should_exit_, socket, main, dbvars>>

\* notify_all.  A wake-up for no reason leads back to the wait.
Notified ==
    /\ listener = "wait" /\ listener_should_exit_ /\ Loop
    /\ UNCHANGED <<screenvars, chatvars, prev_size, listener_should_exit_, socket, main, dbvars>>

\* Two seconds have passed; this may race with notify_all.
Poll ==
    /\ listener = "wait"
    /\ prev_size' = Len(curr_chat_) /\ listener' = "answer"
    /\ Request([type |-> "recv_txt", username |-> correspondent_])
    /\ UNCHANGED <<screenvars, chatvars, listener_should_exit_, outq, connected, main, dbvars>>

\* Mutant: prev_size is measured after the response has been stored.
ListenerHears_measuring ==
    /\ listener = "answer"
    /\ \/ outq # <<>> /\ outq' = Tail(outq) /\ curr_chat_' = Received(Head(outq))
       \/ ~connected /\ UNCHANGED <<outq, curr_chat_>>
    /\ listener' = "draw" /\ prev_size' = Len(curr_chat_')
    /\ UNCHANGED <<screenvars, shown, listener_should_exit_, inq, connected, main, dbvars>>

\* The listener takes whatever response comes, and passes over every failure.
ListenerHears ==
    /\ listener = "answer"
    /\ \/ outq # <<>> /\ outq' = Tail(outq) /\ curr_chat_' = Received(Head(outq))
       \/ ~connected /\ UNCHANGED <<outq, curr_chat_>>
    /\ listener' = "draw"
    /\ UNCHANGED <<screenvars, shown, prev_size, listener_should_exit_, inq, connected, main,
                   dbvars>>

Draw ==
    /\ listener = "draw" /\ Loop
    /\ shown' = IF Len(curr_chat_) = prev_size THEN shown ELSE curr_chat_
    /\ UNCHANGED <<screenvars, curr_chat_, prev_size, listener_should_exit_, socket, main, dbvars>>

-----------------------------------------------------------------------------
User ==
    \/ \E screen \in Screens : Choose(screen)
    \/ \E n \in Names : PickChat(n)
    \/ \E n \in Names, pw \in Passwords : Enter(n, pw)
    \/ Confirm
    \/ \E escape \in BOOLEAN : FinishTyping(escape)
MainThread == Proceed \/ HearSent \/ Hear \/ Return \/ OpenChat \/ StopListener \/ Join
ListenerThread == main # "returned" /\ (Start \/ Notified \/ Poll \/ ListenerHears \/ Draw)

INext == User \/ MainThread \/ ListenerThread \/ Serve \/ Break \/ Others

\* Both threads run, time passes for the listener's wait, and the server answers
\* (Answered in Server) or, when it is gone, the system closes its sockets; neither
\* the user nor other clients have to do anything.
ISpec ==
    /\ IInit /\ [][INext]_ivars
    /\ WF_ivars(MainThread) /\ WF_ivars(ListenerThread) /\ WF_ivars(Serve)
    /\ WF_ivars(terminated /\ Break)

-----------------------------------------------------------------------------
(***************************************************************************)
(* Properties.                                                             *)
(***************************************************************************)

\* Every variable has its type.
ITypeOK ==
    /\ TypeOK
    /\ next_ \in Screens
    /\ main \in {"screen", "answer", "refresh", "typing", "stop", "join", "returned"}
    /\ username_ \in Names \cup {Absent} /\ password_ \in Passwords \cup {Absent}
    /\ correspondent_ \in Names \cup {Absent} /\ all_correspondents_ \subseteq Names
    /\ curr_chat_ \in Seq(Text) /\ shown \in Seq(Text) /\ hit_escape_ \in BOOLEAN
    /\ listener \in {"none", "start", "wait", "answer", "draw"}
    /\ prev_size \in Nat /\ listener_should_exit_ \in BOOLEAN
    /\ inq \in Seq(Requests) /\ outq \in Seq(Response) /\ connected \in BOOLEAN

\* The socket serves one thread at a time: at most one request is on its way,
\* the thread that waits for it is the only one that waits, and the response is
\* to that thread's request.  Nothing in client.cc protects the socket; only the
\* order in which start() stops and joins the listener does.
SocketExclusive ==
    LET waiting == {"main" : x \in {main} \cap {"answer", "refresh"}}
                      \cup {"listener" : x \in {listener} \cap {"answer"}}
    IN  /\ connected => Len(inq) + Len(outq) <= 1
        /\ waiting # {"main", "listener"}
        /\ inq \o outq # <<>> => waiting # {}
        /\ \A i \in DOMAIN outq : outq[i].type =
              IF waiting = {"main"} THEN Expected ELSE "recv_txt"

\* The listener lives on the chat screen only: start() never returns, asks for
\* something else or draws another screen while it runs (a joinable std::thread
\* that goes out of scope ends the program).
ListenerConfined ==
    listener # "none" => next_ = "send_txt" /\ main \in {"typing", "stop", "join"}

\* On the screens for members the connection is logged in, as the user whose
\* name the main menu shows.
ScreenMatchesSession ==
    connected /\ ~terminated /\ main \in {"screen", "typing", "stop", "join"}
       /\ next_ \in MemberScreens => threads[me] = username_

\* No request of this client is ever refused for want of a login; so logout
\* never fails, which interface.cc:182 leaves as a TODO.
NeverUnauthorized == \A i \in DOMAIN outq : outq[i].code # "unauthorized"

\* What is drawn on the chat screen is what the server has, up to some text: the
\* right conversation, in its order, and never one more.
ShownIsPrefix ==
    next_ = "send_txt" /\ listener # "none" /\ connected
       /\ Exists(username_) /\ Exists(correspondent_) =>
          /\ Len(shown) <= Len(chats[username_][correspondent_].texts)
          /\ \A i \in DOMAIN shown : shown[i] = chats[username_][correspondent_].texts[i]

(***************************************************************************)
(* What makes the five invariants above inductive.                         *)
(***************************************************************************)

\* The screens and the threads go together, and names have been typed where the
\* screens that follow need them.
ScreensInv ==
    /\ main \in {"typing", "stop", "join", "refresh"} => next_ = "send_txt"
    /\ main = "answer" => next_ \in DOMAIN AfterOk
    /\ listener # "none" => main \in {"typing", "stop", "join"}
    /\ next_ \in MemberScreens => username_ \in Names
    /\ next_ = "registration_success" \/ (main = "answer" /\ next_ \in {"login", "registration"}) =>
          username_ \in Names /\ password_ \in Passwords
    /\ next_ \in {"recv_txt", "send_txt"} => correspondent_ \in Names

\* texts is what username_ can read of the chat with correspondent_, or could
\* before one of them was removed; neither name is ever used again.
Reflects(texts) ==
    /\ {username_, correspondent_} \subseteq historical_users
    /\ Exists(username_) /\ Exists(correspondent_) =>
          /\ Len(texts) <= Len(chats[username_][correspondent_].texts)
          /\ \A i \in DOMAIN texts : texts[i] = chats[username_][correspondent_].texts[i]

\* What a thread waits for, and what the socket may hold then.
Waiting     == main \in {"answer", "refresh"} \/ listener = "answer"
AwaitedType == IF listener = "answer" THEN "recv_txt" ELSE Expected
Asked(r) ==
    /\ r \in Requests /\ r.type = AwaitedType
    /\ r.type \in {"login", "registration"} => r.username = username_
    /\ r.type \in {"send_txt", "recv_txt"} => r.username = correspondent_
Replied(r) ==
    /\ r \in Response /\ r.type = AwaitedType
    /\ r.code # "unauthorized"
    /\ r.type \in {"logout", "delete", "accounts", "correspondents"} => r.code = "ok"
    /\ r.type = "login" /\ r.code = "ok" /\ ~terminated => threads[me] = username_
    /\ r.type = "recv_txt" /\ r.code = "ok" => Reflects(r.texts)
SocketInv ==
    \/ inq = <<>> /\ outq = <<>>
    \/ connected /\ Waiting /\ outq = <<>> /\ Len(inq) = 1 /\ Asked(Head(inq))
    \/ connected /\ Waiting /\ inq = <<>> /\ Len(outq) = 1 /\ Replied(Head(outq))

\* A member is logged in until the response to logout or delete is on its way.
SessionInv ==
    connected /\ ~terminated /\ main # "returned" /\ next_ \in MemberScreens =>
       \/ threads[me] = username_
       \/ outq # <<>> /\ Head(outq).type \in {"logout", "delete"}

ChatInv ==
    next_ = "send_txt" => Reflects(curr_chat_) /\ (listener # "none" => Reflects(shown))

IInv == DBInv /\ ITypeOK /\ ScreensInv /\ SocketInv /\ SessionInv /\ ChatInv

\* Stopping the listener ends: no wake-up is lost, and main never waits for a
\* listener that waits for main.
ListenerStops == main = "join" ~> main # "join"

\* Texts are delivered while the user types, without the user's doing anything
\* (docs/client.md: automatic message delivery).
Stored(n) == Len(chats[username_][correspondent_].texts) >= n
Delivered ==
    \A n \in 1..2 :
       main = "typing" /\ connected /\ Exists(username_) /\ Exists(correspondent_) /\ Stored(n)
          ~> \/ Len(shown) >= n
             \/ main # "typing" \/ ~connected \/ terminated
             \/ ~Exists(username_) \/ ~Exists(correspondent_)
=============================================================================
