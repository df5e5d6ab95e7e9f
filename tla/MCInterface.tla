---------------------------- MODULE MCInterface ----------------------------
(* The instance of Interface that TLC checks, with a bound on texts. *)
EXTENDS Interface

CONSTANTS
    MaxTexts,  \* bound: no copy of a chat grows beyond MaxTexts texts
    peer       \* the only account that the other clients log in to

\* The user of the interface may be the peer as well, or one and then the other.
OthersAsPeer == \A t \in Threads \ {me} : threads[t] \in {Absent, peer}

\* A text being sent and not stored yet.
Sending ==
    \/ main \in {"stop", "join"} /\ ~hit_escape_
    \/ inq # <<>> /\ Head(inq).type = "send_txt"
Pending == IF Sending /\ connected THEN 1 ELSE 0

\* Nobody opens the chat with themselves, nor do other clients write to
\* themselves: Database is checked with such texts on its own.
NoChatWithSelf == NoSelfChat /\ (next_ = "recv_txt" => correspondent_ # username_)

\* Only the user's ENTER and other clients can be held back by this.
Bounded == \A u, v \in Names : Len(chats[u][v].texts) + Pending <= MaxTexts

MCNext == INext /\ Bounded' /\ OthersAsPeer' /\ NoChatWithSelf'

MCSpec ==
    /\ IInit /\ [][MCNext]_ivars
    /\ WF_ivars(MainThread) /\ WF_ivars(ListenerThread) /\ WF_ivars(Serve)
    /\ WF_ivars(terminated /\ Break)
=============================================================================
