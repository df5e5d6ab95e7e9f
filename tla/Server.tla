------------------------------- MODULE Server -------------------------------
(***************************************************************************)
(* The wire-protocol server (chat262-wire-protocol/src/server/server.cc):  *)
(* one thread per connection, each a loop that receives a request, handles *)
(* it and sends the response, all of them over the one database.  A        *)
(* handler makes several calls to the database, and each takes and drops   *)
(* the mutex: other threads run between them, so each call is a step.      *)
(***************************************************************************)
EXTENDS Database

CONSTANT Invalid  \* a username or password handle_registration turns down

ASSUME InvalidAssumption ==
    Invalid \notin Names /\ Invalid \notin Passwords /\ Invalid # Absent

VARIABLES
    pc,     \* pc[t]: what the thread does next
    req,    \* req[t]: the request it handles
    status  \* status[t]: the status code of the response it sends

connvars == <<pc, req, status>>
svars    == <<dbvars, connvars>>

Pc == {"none",    \* no connection is served under this thread id
       "recv",    \* blocked in recv_hdr / recv_body
       "guard",   \* about to call is_logged_in
       "logout",  \* handle_login, about to log the previous user out
       "call",    \* about to call the method the request is for
       "send",    \* about to send the response
       "reject",  \* about to send the wrong-version response and hang up
       "close"}   \* out of the loop

Malformed == {"wrong_version", "unknown_type", "bad_body"}

Requests ==
    [type : {"registration"}, username : Names \cup {Invalid},
                              password : Passwords \cup {Invalid}]
    \cup [type : {"login"}, username : Names, password : Passwords]
    \cup [type : {"send_txt"}, username : Names, txt : Contents]
    \cup [type : {"recv_txt"}, username : Names]
    \cup [type : {"logout", "accounts", "correspondents", "delete"} \cup Malformed]

NoRequest == [type |-> "none"]

Codes == {"none", "ok", "user_exists", "username_invalid", "password_invalid",
          "user_noexist", "invalid_credentials", "unauthorized",
          "invalid_type", "invalid_body", "wrong_version"}

SInit ==
    /\ DBInit
    /\ pc     = [t \in Threads |-> "none"]
    /\ req    = [t \in Threads |-> NoRequest]
    /\ status = [t \in Threads |-> "none"]

Goto(t, l) == pc' = [pc EXCEPT ![t] = l]

Respond(t, code) ==
    /\ status' = [status EXCEPT ![t] = code]
    /\ Goto(t, "send")
    /\ UNCHANGED req

-----------------------------------------------------------------------------
(***************************************************************************)
(* The connection.                                                         *)
(***************************************************************************)

\* accept() returned a socket and a thread was started for it.  The C++ runtime
\* reuses the ids of threads that have ended.
Accept(t) ==
    /\ pc[t] = "none"
    /\ Goto(t, "recv")
    /\ UNCHANGED <<req, status, dbvars>>

\* Where a request goes before its handler has called the database.
Dispatch(t, r) ==
    \/ r.type = "wrong_version" /\ Goto(t, "reject") /\ UNCHANGED status
    \/ /\ r.type \in {"unknown_type", "bad_body"}
       /\ Goto(t, "send")
       /\ status' = [status EXCEPT ![t] =
                       IF r.type = "bad_body" THEN "invalid_body" ELSE "invalid_type"]
    \/ /\ r.type = "registration"
       /\ r.username = Invalid \/ r.password = Invalid
       /\ Goto(t, "send")
       /\ status' = [status EXCEPT ![t] = IF r.username = Invalid
                                          THEN "username_invalid" ELSE "password_invalid"]
    \/ /\ r.type = "registration"
       /\ r.username # Invalid /\ r.password # Invalid
       /\ Goto(t, "call") /\ UNCHANGED status
    \/ /\ r.type \in {"login", "logout", "accounts", "send_txt", "recv_txt",
                      "correspondents", "delete"}
       /\ Goto(t, "guard") /\ UNCHANGED status

Receive(t, r) ==
    /\ pc[t] = "recv"
    /\ req' = [req EXCEPT ![t] = r]
    /\ Dispatch(t, r)
    /\ UNCHANGED dbvars

\* recv returned 0 or failed.
Disconnect(t) ==
    /\ pc[t] = "recv"
    /\ Goto(t, "close")
    /\ UNCHANGED <<req, status, dbvars>>

\* send_msg worked; a wrong version ends the connection all the same.
Send(t) ==
    /\ pc[t] \in {"send", "reject"}
    /\ Goto(t, IF pc[t] = "send" THEN "recv" ELSE "close")
    /\ req' = [req EXCEPT ![t] = NoRequest]
    /\ status' = [status EXCEPT ![t] = "none"]
    /\ UNCHANGED dbvars

\* send_msg failed.
SendFails(t) ==
    /\ pc[t] \in {"send", "reject"}
    /\ Goto(t, "close")
    /\ req' = [req EXCEPT ![t] = NoRequest]
    /\ status' = [status EXCEPT ![t] = "none"]
    /\ UNCHANGED dbvars

\* Mutant: the connection ends without database_.logout().
Close_without_logout(t) ==
    /\ pc[t] = "close"
    /\ Goto(t, "none")
    /\ UNCHANGED <<req, status, dbvars>>

\* The end of handle_client: the thread logs out whoever is left, and ends.
Close(t) ==
    /\ pc[t] = "close"
    /\ \E s \in Status : logout(t, s)
    /\ Goto(t, "none")
    /\ UNCHANGED <<req, status>>

-----------------------------------------------------------------------------
(***************************************************************************)
(* The handlers.                                                           *)
(***************************************************************************)

\* Mutant: handle_login does not log the previous user out.
Guard_keeping_previous(t) ==
    /\ pc[t] = "guard"
    /\ IF req[t].type # "login" /\ ~is_logged_in(t)
       THEN Respond(t, "unauthorized")
       ELSE Goto(t, "call") /\ UNCHANGED <<req, status>>
    /\ UNCHANGED dbvars

\* Mutant: the handlers leave the check to the database.
Guard_unchecked(t) ==
    /\ pc[t] = "guard"
    /\ Goto(t, IF req[t].type = "login" /\ is_logged_in(t) THEN "logout" ELSE "call")
    /\ UNCHANGED <<req, status, dbvars>>

Guard(t) ==
    /\ pc[t] = "guard"
    /\ \/ /\ req[t].type = "login"
          /\ Goto(t, IF is_logged_in(t) THEN "logout" ELSE "call")
          /\ UNCHANGED <<req, status>>
       \/ /\ req[t].type # "login" /\ ~is_logged_in(t)
          /\ Respond(t, "unauthorized")
       \/ /\ req[t].type # "login" /\ is_logged_in(t)
          /\ Goto(t, "call")
          /\ UNCHANGED <<req, status>>
    /\ UNCHANGED dbvars

\* Mutant: the thread is made the new user's before the password is checked.
LogoutPrevious_to_new_user(t) ==
    /\ pc[t] = "logout"
    /\ threads' = [threads EXCEPT ![t] = req[t].username]
    /\ Goto(t, "call")
    /\ UNCHANGED <<req, status, users, chats, historical_users, terminated>>

\* Mutant: the check is repeated and nobody was logged out.
LogoutPrevious_rechecking(t) ==
    /\ pc[t] = "logout"
    /\ Goto(t, "guard")
    /\ UNCHANGED <<req, status, dbvars>>

LogoutPrevious(t) ==
    /\ pc[t] = "logout"
    /\ \E s \in Status : logout(t, s)
    /\ Goto(t, "call")
    /\ UNCHANGED <<req, status>>

\* The method request r is for, called by thread t.
Method(t, r, s) ==
    \/ r.type = "registration"   /\ registration(r.username, r.password, s)
    \/ r.type = "login"          /\ login(t, r.username, r.password, s)
    \/ r.type = "logout"         /\ logout(t, s)
    \/ r.type = "accounts"       /\ s = ok /\ UNCHANGED dbvars  \* get_usernames
    \/ r.type = "send_txt"       /\ send_txt(t, r.username, r.txt, s)
    \/ r.type = "recv_txt"       /\ recv_txt(t, r.username, s)
    \/ r.type = "correspondents" /\ get_correspondents(t, s)
    \/ r.type = "delete"         /\ delete_user(t, s)

\* The status code a handler answers with when its method returned error;
\* three of the handlers do not look.
OnError(type) ==
    CASE type = "registration"             -> "user_exists"
      [] type = "login"                    -> "invalid_credentials"
      [] type \in {"send_txt", "recv_txt"} -> "user_noexist"
      [] OTHER                             -> "ok"

CallMethod(t) ==
    /\ pc[t] = "call"
    /\ \E s \in Status :
         /\ Method(t, req[t], s)
         /\ \/ s = ok     /\ Respond(t, "ok")
            \/ s = error  /\ Respond(t, OnError(req[t].type))
            \/ s = thrown /\ UNCHANGED connvars

-----------------------------------------------------------------------------
\* What the thread does by itself once a request is in or the loop is left.
Work(t) ==
    ~terminated /\ (Guard(t) \/ LogoutPrevious(t) \/ CallMethod(t)
                    \/ Send(t) \/ SendFails(t) \/ Close(t))

\* What its peer decides.
Peer(t) ==
    ~terminated /\ (Accept(t) \/ Disconnect(t) \/ \E r \in Requests : Receive(t, r))

SNext == \E t \in Threads : Work(t) \/ Peer(t)

\* A runnable thread is eventually scheduled and gets the mutex, which nobody
\* holds for longer than one database call; the peer need never do anything.
SSpec == SInit /\ [][SNext]_svars /\ \A t \in Threads : WF_svars(Work(t))

-----------------------------------------------------------------------------
(***************************************************************************)
(* Properties.                                                             *)
(***************************************************************************)

STypeOK ==
    /\ TypeOK
    /\ pc \in [Threads -> Pc]
    /\ req \in [Threads -> Requests \cup {NoRequest}]
    /\ status \in [Threads -> Codes]

\* A thread id that serves no connection has no session, whichever way its last
\* connection ended: ids are reused, and a new connection that inherited a
\* session would act for the previous user.
FreshThreadsLoggedOut == \A t \in Threads : pc[t] = "none" => ~is_logged_in(t)

\* Handlers check is_logged_in in one critical section and act in another.  What
\* they checked still holds when they act, whatever ran in between: a handler
\* that needs a session has one, and login finds the thread logged out.
GuardStillHolds ==
    \A t \in Threads :
       pc[t] = "call" /\ req[t].type # "registration" =>
          (is_logged_in(t) <=> req[t].type # "login")

\* GuardStillHolds and FreshThreadsLoggedOut are inductive with what the steps
\* know of the request: only handle_login logs out on the way, and a registration
\* that gets as far as the database has been found valid.
RequestInv ==
    \A t \in Threads :
       /\ pc[t] = "logout" => req[t].type = "login"
       /\ pc[t] \in {"guard", "logout", "call"} => req[t] \in Requests
       /\ pc[t] = "guard" => req[t].type # "registration"
       /\ pc[t] = "call" /\ req[t].type = "registration" =>
             req[t].username \in Names /\ req[t].password \in Passwords
SInv == STypeOK /\ DBInv /\ RequestInv /\ FreshThreadsLoggedOut /\ GuardStillHolds

\* The response tells what happened.  Several errors share a status code and
\* handle_logout, handle_correspondents and handle_delete answer OK without
\* looking at the result: yet a text is refused as user_noexist only when its
\* recipient does not exist, and OK is answered only when the account has been
\* created, the session opened for it, the text recorded on both sides, the
\* session closed, or the account removed.
Truthful(t) ==
    LET r  == req[t]
        me == threads[t]
    IN
    pc[t] = "call" /\ pc'[t] = "send" =>
       /\ status'[t] = "user_noexist"        => ~Exists(r.username)
       /\ status'[t] = "user_exists"         => r.username \in historical_users
       /\ status'[t] = "invalid_credentials" => users[r.username] # r.password
       /\ status'[t] = "ok" =>
            /\ r.type = "registration" => ~Exists(r.username) /\ users'[r.username] = r.password
            /\ r.type = "login"        => threads'[t] = r.username /\ users[r.username] = r.password
            /\ r.type = "logout"       => me # Absent /\ threads'[t] = Absent
            /\ r.type = "accounts"     => me # Absent
            /\ r.type = "send_txt"     =>
                 /\ Len(chats'[me][r.username].texts) > Len(chats[me][r.username].texts)
                 /\ Len(chats'[r.username][me].texts) > Len(chats[r.username][me].texts)
            /\ r.type \in {"recv_txt", "correspondents"} => Exists(me)
            /\ r.type = "delete" => Exists(me) /\ users'[me] = Absent /\ threads'[t] = Absent
RepliesTruthful == [][\A t \in Threads : Truthful(t)]_svars

\* Every request is answered, or the connection is gone, or the process is: no
\* handler waits for another or starts over.  send is taken to return, as it does
\* unless a peer that is there does not read.
Answered ==
    \A t \in Threads : pc[t] \notin {"none", "recv"} ~>
                          (pc[t] \in {"none", "recv"} \/ terminated)

\* The handlers of all connections together do nothing to the database but call
\* its methods, one at a time.
ImplementsDatabase == DBSpec
=============================================================================
