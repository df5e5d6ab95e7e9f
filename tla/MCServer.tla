------------------------------ MODULE MCServer ------------------------------
(* The instance of Server that TLC checks: SSpec up to a bound on texts. *)
EXTENDS Server, FiniteSets

CONSTANT MaxTexts  \* bound: no copy of a chat grows beyond MaxTexts texts

\* The texts that requests being handled may still add to one copy: a text to
\* oneself counts twice.
Sending == {t \in Threads : req[t].type = "send_txt" /\ pc[t] \in {"guard", "call"}}
Pending == Cardinality(Sending)
             + Cardinality({t \in Sending : req[t].username = threads[t]})

\* Only Receive can be held back by this: the step that stores a text has been
\* counted since its request was received.
Bounded == \A u, v \in Names : Len(chats[u][v].texts) + Pending <= MaxTexts

MCNext == SNext /\ Bounded'

MCSpec == SInit /\ [][MCNext]_svars /\ \A t \in Threads : WF_svars(Work(t))
=============================================================================
