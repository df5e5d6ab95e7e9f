------------------------------ MODULE Database ------------------------------
(***************************************************************************)
(* The in-memory database of the wire-protocol server                      *)
(* (chat262-wire-protocol/src/server/database.cc).  Every public method    *)
(* holds the one mutex from its first to its last line, so a method is one *)
(* action.  A method is written as a relation op(t, args, s): thread t     *)
(* calls it with args and it ends with status s, where s = thrown stands   *)
(* for an exception nobody catches (or a fault after undefined behaviour), *)
(* which ends the server process.                                          *)
(***************************************************************************)
EXTENDS Naturals, Sequences

CONSTANTS
    Names,      \* usernames
    Passwords,  \* passwords
    Contents,   \* the bodies of texts
    Threads,    \* server threads, one per connection
    Absent      \* what a map holds for a key it does not have

ASSUME AbsentAssumption == Absent \notin Names /\ Absent \notin Passwords

VARIABLES
    users,             \* users_: the password of every existing user
    chats,             \* user::chats_: chats[u][v] is u's copy of the chat with v
    historical_users,  \* historical_users_: every name ever registered
    threads,           \* threads_: the user each logged-in thread acts for
    terminated         \* the process has ended

dbvars == <<users, chats, historical_users, threads, terminated>>

ok     == "ok"
error  == "error"
thrown == "thrown"
Status == {ok, error, thrown}

sender_you   == 0
sender_other == 1
Text == [sender : {sender_you, sender_other}, content : Contents]

\* A chat nobody has opened is not the same as a chat without texts.
NoChat == [open |-> FALSE, texts |-> <<>>]
Chat   == [open : BOOLEAN, texts : Seq(Text)]

Exists(u) == users[u] # Absent

Correspondents(u) == {v \in Names : chats[u][v].open}

DBInit ==
    /\ users = [n \in Names |-> Absent]
    /\ chats = [u \in Names |-> [v \in Names |-> NoChat]]
    /\ historical_users = {}
    /\ threads = [t \in Threads |-> Absent]
    /\ terminated = FALSE

-----------------------------------------------------------------------------
(***************************************************************************)
(* Sessions and accounts.                                                  *)
(***************************************************************************)

is_logged_in(t) == threads[t] # Absent

login(t, username, password, s) ==
    /\ s = IF ~is_logged_in(t) /\ users[username] = password THEN ok ELSE error
    /\ threads' = IF s = ok THEN [threads EXCEPT ![t] = username] ELSE threads
    /\ UNCHANGED <<users, chats, historical_users, terminated>>

logout(t, s) ==
    /\ s = IF is_logged_in(t) THEN ok ELSE error
    /\ threads' = [threads EXCEPT ![t] = Absent]
    /\ UNCHANGED <<users, chats, historical_users, terminated>>

\* Mutant: the name of a deleted user can be registered again.
registration_reusing(username, password, s) ==
    /\ s = IF Exists(username) THEN error ELSE ok
    /\ users' = IF s = ok THEN [users EXCEPT ![username] = password] ELSE users
    /\ historical_users' = historical_users \cup {username}
    /\ UNCHANGED <<chats, threads, terminated>>

\* Mutant: the username is stored where the password belongs.
registration_swapping(username, password, s) ==
    /\ s = IF Exists(username) \/ username \in historical_users THEN error ELSE ok
    /\ users' = IF s = ok THEN [users EXCEPT ![username] = username] ELSE users
    /\ historical_users' = historical_users \cup {username}
    /\ UNCHANGED <<chats, threads, terminated>>

registration(username, password, s) ==
    \/ /\ s = error
       /\ Exists(username) \/ username \in historical_users
       /\ UNCHANGED dbvars
    \/ /\ s = ok
       /\ ~Exists(username) /\ username \notin historical_users
       /\ users' = [users EXCEPT ![username] = password]
       /\ chats' = [chats EXCEPT ![username] = [v \in Names |-> NoChat]]
       /\ historical_users' = historical_users \cup {username}
       /\ UNCHANGED <<threads, terminated>>

\* The exception of users_.at, or a fault, leaves handle_client: std::terminate.
Terminate ==
    /\ terminated' = TRUE
    /\ UNCHANGED <<users, chats, historical_users, threads>>

\* users_.at(threads_[t]) throws: the thread is logged in as a user who is gone.
Dangling(t) == is_logged_in(t) /\ ~Exists(threads[t])

-----------------------------------------------------------------------------
(***************************************************************************)
(* Texts.                                                                  *)
(***************************************************************************)

\* Mutant: both copies of a text say that their owner sent it.
Push_as_mine(c, who, txt) ==
    [open |-> TRUE, texts |-> Append(c.texts, [sender |-> sender_you, content |-> txt])]

Push(c, who, txt) ==
    [open |-> TRUE, texts |-> Append(c.texts, [sender |-> who, content |-> txt])]

send_txt(t, to, txt, s) ==
    LET from == threads[t] IN
    \/ s = error /\ ~is_logged_in(t) /\ UNCHANGED dbvars
    \/ s = thrown /\ Dangling(t) /\ Terminate
    \/ s = error /\ is_logged_in(t) /\ Exists(from) /\ ~Exists(to) /\ UNCHANGED dbvars
    \/ /\ s = ok
       /\ is_logged_in(t) /\ Exists(from) /\ Exists(to)
       /\ LET sent == [chats EXCEPT ![from][to] = Push(@, sender_you, txt)]
          IN  chats' = [sent EXCEPT ![to][from] = Push(@, sender_other, txt)]
       /\ UNCHANGED <<users, historical_users, threads, terminated>>

\* On ok the caller has got chats[threads[t]][from].
recv_txt(t, from, s) ==
    \/ s = error /\ ~is_logged_in(t) /\ UNCHANGED dbvars
    \/ s = thrown /\ Dangling(t) /\ Terminate
    \/ /\ is_logged_in(t) /\ Exists(threads[t])
       /\ s = IF Exists(from) THEN ok ELSE error
       /\ UNCHANGED dbvars

\* On ok the caller has got Correspondents(threads[t]).
get_correspondents(t, s) ==
    \/ s = error /\ ~is_logged_in(t) /\ UNCHANGED dbvars
    \/ s = thrown /\ Dangling(t) /\ Terminate
    \/ s = ok /\ is_logged_in(t) /\ Exists(threads[t]) /\ UNCHANGED dbvars

\* Mutant: the correspondents keep their chats with the deleted user.
Erase_one_side(t, visited) ==
    /\ chats' = [chats EXCEPT ![threads[t]] = [v \in Names |-> NoChat]]
    /\ users' = [users EXCEPT ![threads[t]] = Absent]
    /\ threads' = [threads EXCEPT ![t] = Absent]
    /\ UNCHANGED <<historical_users, terminated>>

\* Mutant: the thread stays logged in as the deleted user.
Erase_staying(t, visited) ==
    /\ chats' = [x \in Names |-> [y \in Names |->
                   IF threads[t] \in {x, y} THEN NoChat ELSE chats[x][y]]]
    /\ users' = [users EXCEPT ![threads[t]] = Absent]
    /\ UNCHANGED <<threads, historical_users, terminated>>

\* Everything delete_user erases once its loop has gone through `visited`.
Erase(t, visited) ==
    LET u == threads[t] IN
    /\ chats' = [x \in Names |-> [y \in Names |->
                   IF x = u \/ (y = u /\ x \in visited) THEN NoChat ELSE chats[x][y]]]
    /\ users' = [users EXCEPT ![u] = Absent]
    /\ threads' = [threads EXCEPT ![t] = Absent]
    /\ UNCHANGED <<historical_users, terminated>>

(***************************************************************************)
(* The loop erases u's entry from the chats_ of each correspondent.  When  *)
(* u corresponds with itself that is the map being iterated: the node the  *)
(* iterator stands on is freed and then read to find the next one.  The    *)
(* builds we know then fault, or go on to the end, or take the freed link  *)
(* for the end of the map and leave the remaining correspondents as they   *)
(* are.                                                                    *)
(***************************************************************************)
delete_user(t, s) ==
    LET u == threads[t]
        peers == Correspondents(u)
    IN
    \/ s = error /\ ~is_logged_in(t) /\ UNCHANGED dbvars
    \/ s = thrown /\ Dangling(t) /\ Terminate
    \/ /\ is_logged_in(t) /\ Exists(u)
       /\ \/ s = thrown /\ (\E v \in peers : ~Exists(v)) /\ Terminate
          \/ s = thrown /\ u \in peers /\ Terminate
          \/ /\ s = ok
             /\ \E visited \in SUBSET peers :
                  /\ visited = peers \/ (u \in peers /\ u \in visited)
                  /\ \A v \in visited : Exists(v)
                  /\ Erase(t, visited)

-----------------------------------------------------------------------------
Call(t) ==
    \E s \in Status :
       \/ logout(t, s)
       \/ delete_user(t, s)
       \/ get_correspondents(t, s)
       \/ \E n \in Names : recv_txt(t, n, s)
       \/ \E n \in Names, pw \in Passwords : login(t, n, pw, s)
       \/ \E n \in Names, pw \in Passwords : registration(n, pw, s)
       \/ \E n \in Names, txt \in Contents : send_txt(t, n, txt, s)

DBNext == ~terminated /\ \E t \in Threads : Call(t)

DBSpec == DBInit /\ [][DBNext]_dbvars
-----------------------------------------------------------------------------
(***************************************************************************)
(* Properties.                                                             *)
(***************************************************************************)

TypeOK ==
    /\ users \in [Names -> Passwords \cup {Absent}]
    /\ chats \in [Names -> [Names -> Chat]]
    /\ historical_users \subseteq Names
    /\ threads \in [Threads -> Names \cup {Absent}]
    /\ terminated \in BOOLEAN

\* The same text as its other party has it.
Flip(x) == [sender |-> 1 - x.sender, content |-> x.content]
FlipAll(texts) == [i \in DOMAIN texts |-> Flip(texts[i])]

\* The two copies of a conversation, kept in two users' maps and written one
\* after the other by send_txt, never diverge while both users exist: same
\* texts in the same order with the sender indicator turned round, and one is
\* there iff the other is.  This survives every delete_user, the ones that run
\* into undefined behaviour included.
ChatsMirror ==
    \A u, v \in Names :
       Exists(u) /\ Exists(v) /\ u # v =>
          /\ chats[u][v].open = chats[v][u].open
          /\ chats[u][v].texts = FlipAll(chats[v][u].texts)

\* A session never comes to act for an account other than the one it opened:
\* when a user is deleted under it (another connection of the same user did
\* it), the name must stay unused for as long as the session holds it, or the
\* next owner of the name would be impersonated without a password.
KeepsAccount(t) ==
    threads[t] # Absent /\ threads'[t] = threads[t] =>
       users'[threads[t]] \in {users[threads[t]], Absent}
SessionsKeepTheirAccount == [][\A t \in Threads : KeepsAccount(t)]_dbvars

\* What the two invariants below need of the clients: no account is in use on
\* two connections, and nobody writes to themselves.
NoSharedSession ==
    \A t1, t2 \in Threads :
       t1 # t2 => threads[t1] = Absent \/ threads[t1] # threads[t2]
NoSelfChat == \A u \in Names : ~chats[u][u].open
Considerate == NoSharedSession /\ NoSelfChat

\* Every correspondent a user has exists, so that delete_user finds them all
\* (database.cc:168) and get_correspondents names no ghost.
CorrespondentsExist == \A u, v \in Names : chats[u][v].open => Exists(v)

\* As long as clients are considerate the maps hold no dangling name, and so no
\* users_.at ever throws and no iterator is invalidated: the server stays up.
SafeUse == []Considerate => [](CorrespondentsExist /\ ~terminated)

\* docs/server.md: the server runs indefinitely and nothing but a signal shuts
\* it down.  Stated for servers nobody writes to themselves on; it does not
\* hold of delete_user on one connection and any text operation on another
\* connection of the same user.
RunsIndefinitely == [][NoSelfChat => ~terminated']_dbvars

\* What makes ChatsMirror and SessionsKeepTheirAccount inductive.  A name that
\* exists or is in a session has been registered; one that never was occurs in
\* no chat, so a new user starts level with everybody.
History ==
    /\ \A u \in Names : Exists(u) => u \in historical_users
    /\ \A t \in Threads : is_logged_in(t) => threads[t] \in historical_users
    /\ \A u, v \in Names : u \notin historical_users =>
          chats[u][v] = NoChat /\ chats[v][u] = NoChat
DBInv == TypeOK /\ History /\ ChatsMirror

\* What is inductive as well while clients are considerate.
SafeInv ==
    /\ ~terminated
    /\ CorrespondentsExist
    /\ \A u, v \in Names : ~Exists(u) => chats[u][v] = NoChat
    /\ \A t \in Threads : ~Dangling(t)

\* The conversation of a and b as a's copy tells it, by author.
Attribute(a, b, texts) ==
    [i \in DOMAIN texts |-> [from    |-> IF texts[i].sender = sender_you THEN a ELSE b,
                             content |-> texts[i].content]]

LogOf(p) ==
    LET a == CHOOSE x \in p : TRUE
        b == CHOOSE x \in p : p = {a, x}
    IN  IF \A x \in p : Exists(x) THEN Attribute(a, b, chats[a][b].texts) ELSE <<>>

AccountMap == [n \in Names |-> IF Exists(n) THEN "live"
                               ELSE IF n \in historical_users THEN "gone" ELSE "free"]
LogMap == [p \in {{a, b} : a, b \in Names} |-> LogOf(p)]

Promise == INSTANCE Conversations WITH
    Nobody <- Absent, account <- AccountMap, secret <- users,
    session <- threads, log <- LogMap

\* The two-copy database, as recv_txt shows it, implements one shared log per
\* pair of users with accounts that are registered and removed once.
ImplementsConversations == Promise!ASpec
=============================================================================
