----------------------------- MODULE MCDatabase -----------------------------
(* The instances of Database that TLC checks: DBSpec up to a bound on texts. *)
EXTENDS Database

CONSTANT MaxTexts  \* bound: no copy of a chat grows beyond MaxTexts texts

Bounded == \A u, v \in Names : Len(chats[u][v].texts) <= MaxTexts

BoundedSpec == DBInit /\ [][DBNext /\ Bounded']_dbvars
=============================================================================
