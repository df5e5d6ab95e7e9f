------------------------------ MODULE ChatData ------------------------------
(***************************************************************************)
(* What the clients of the replicated servers can ask for, and what it     *)
(* does to a database (chat262-replication: protos/chat.proto, and what    *)
(* the handlers of server.py do once replicate has returned).              *)
(***************************************************************************)
EXTENDS Naturals, Sequences

CONSTANTS
    Clients,      \* terminals, each with one client program at a time
    Names,        \* usernames
    Passwords,    \* passwords
    Bodies,       \* message bodies
    Requests,     \* the requests that users make
    Absent,       \* what a dict holds for a key it does not have
    None          \* Python's None, and a task that does not exist

Credentials == [rpc : {"Register", "DeleteAccount", "Login"},
                username : Names, password : Passwords]
Sendings    == [rpc : {"SendMessage"}, sender : Names, receiver : Names, body : Bodies]
ReceiveMessage(u) == [rpc |-> "ReceiveMessage", username |-> u]
GetUsers          == [rpc |-> "GetUsers"]

ASSUME RequestsAssumption == Requests \subseteq Credentials \cup Sendings
ASSUME NoneAssumption == Absent \notin Passwords /\ None \notin Requests \cup Names

Asked   == Requests \cup {ReceiveMessage(u) : u \in Names} \cup {GetUsers}
Threads == {"main", "inbox"}      \* of a client program

Message  == [sender : Names, body : Bodies]
Database == [passwords : [Names -> Passwords \cup {Absent}],
             messages  : [Names -> Seq(Message)]]
EmptyDb  == [passwords |-> [n \in Names |-> Absent], messages |-> [n \in Names |-> <<>>]]

\* None is no database either, and nothing one can ask for.
ASSUME NoDataAssumption == None \notin Database \cup Asked

\* These change nothing and replicate nothing.
ReadOnly == {"Login", "ReceiveMessage", "GetUsers"}

Accepts(d, r) ==
    \/ r.rpc = "Register" /\ d.passwords[r.username] = Absent
    \/ r.rpc \in {"DeleteAccount", "Login"} /\ d.passwords[r.username] = r.password
    \/ /\ r.rpc = "SendMessage"
       /\ d.passwords[r.sender] # Absent /\ d.passwords[r.receiver] # Absent

\* Mutant: the name is stored as the password.
Executed_swapping(d, r) ==
    IF Accepts(d, r) /\ r.rpc = "Register"
    THEN [d EXCEPT !.passwords[r.username] = r.username] ELSE d

Executed(d, r) ==
    CASE ~Accepts(d, r) \/ r.rpc \in ReadOnly -> d
      [] Accepts(d, r) /\ r.rpc = "Register" ->
            [d EXCEPT !.passwords[r.username] = r.password]
      [] Accepts(d, r) /\ r.rpc = "DeleteAccount" ->
            [d EXCEPT !.passwords[r.username] = Absent]
      [] Accepts(d, r) /\ r.rpc = "SendMessage" ->
            [d EXCEPT !.messages[r.receiver] =
                        Append(@, [sender |-> r.sender, body |-> r.body])]

\* What executing r leaves behind: executing it once more would be a repetition.
Reflects(d, r) ==
    CASE r.rpc = "Register"      -> d.passwords[r.username] # Absent
      [] r.rpc = "DeleteAccount" -> d.passwords[r.username] # r.password
      [] r.rpc \in ReadOnly       -> TRUE
      [] r.rpc = "SendMessage"   ->
            \/ ~Accepts(d, r)
            \/ \E n \in DOMAIN d.messages[r.receiver] :
                  d.messages[r.receiver][n] = [sender |-> r.sender, body |-> r.body]
=============================================================================
