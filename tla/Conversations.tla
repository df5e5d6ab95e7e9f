--------------------------- MODULE Conversations ---------------------------
(***************************************************************************)
(* What the chat server promises its users, without saying how it stores   *)
(* anything: accounts that are registered once and removed once, sessions  *)
(* opened with the account's secret, and ONE log per pair of users that    *)
(* both of them read.  Database.tla keeps two separately written copies of *)
(* every conversation and is shown to implement this module.               *)
(***************************************************************************)
EXTENDS Naturals, Sequences

CONSTANTS
    Names,      \* usernames
    Passwords,  \* passwords
    Contents,   \* the bodies of texts
    Threads,    \* server threads, one per connection
    Nobody      \* the user of a session that is not logged in

VARIABLES
    account,  \* account[n]: "free" (never registered), "live" or "gone"
    secret,   \* secret[n]: the password that opens n while n is live
    session,  \* session[t]: the user thread t acts for, or Nobody
    log       \* log[{a, b}]: every text between a and b, in order

avars == <<account, secret, session, log>>

Pairs == {{a, b} : a, b \in Names}

AInit ==
    /\ account = [n \in Names |-> "free"]
    /\ secret  = [n \in Names |-> Nobody]
    /\ session = [t \in Threads |-> Nobody]
    /\ log     = [p \in Pairs |-> <<>>]

\* A name can be taken once: neither a live nor a removed account is free.
Register(n, pw) ==
    /\ account[n] = "free"
    /\ account' = [account EXCEPT ![n] = "live"]
    /\ secret'  = [secret EXCEPT ![n] = pw]
    /\ UNCHANGED <<session, log>>

Login(t, n, pw) ==
    /\ session[t] = Nobody
    /\ account[n] = "live"
    /\ secret[n] = pw
    /\ session' = [session EXCEPT ![t] = n]
    /\ UNCHANGED <<account, secret, log>>

Logout(t) ==
    /\ session[t] # Nobody
    /\ session' = [session EXCEPT ![t] = Nobody]
    /\ UNCHANGED <<account, secret, log>>

\* A text to oneself is recorded as sent and as received.
Copies(a, b, txt) ==
    LET entry == [from |-> a, content |-> txt]
    IN  IF a = b THEN <<entry, entry>> ELSE <<entry>>

Send(t, to, txt) ==
    LET from == session[t] IN
    /\ from # Nobody
    /\ account[from] = "live"
    /\ account[to] = "live"
    /\ log' = [log EXCEPT ![{from, to}] = @ \o Copies(from, to, txt)]
    /\ UNCHANGED <<account, secret, session>>

\* Removing an account takes all of its conversations away, on both sides.
Remove(t) ==
    LET n == session[t] IN
    /\ n # Nobody
    /\ account[n] = "live"
    /\ account' = [account EXCEPT ![n] = "gone"]
    /\ secret'  = [secret EXCEPT ![n] = Nobody]
    /\ session' = [session EXCEPT ![t] = Nobody]
    /\ log'     = [p \in Pairs |-> IF n \in p THEN <<>> ELSE log[p]]

ANext ==
    \/ \E n \in Names, pw \in Passwords : Register(n, pw)
    \/ \E t \in Threads, n \in Names, pw \in Passwords : Login(t, n, pw)
    \/ \E t \in Threads : Logout(t) \/ Remove(t)
    \/ \E t \in Threads, n \in Names, txt \in Contents : Send(t, n, txt)

ASpec == AInit /\ [][ANext]_avars
=============================================================================
