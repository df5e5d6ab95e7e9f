----------------------------- MODULE MCWildcard -----------------------------
(* The instance of Wildcard that TLC checks: every pattern and every username *)
(* up to a length.                                                            *)
EXTENDS Wildcard, SequencesExt

CONSTANTS MaxPattern, MaxTarget  \* bounds: the longest pattern, the longest name

MCInit ==
    /\ pattern \in BoundedSeq(Chars \cup {Star}, MaxPattern)
    /\ target \in BoundedSeq(Chars, MaxTarget)
    /\ Start

MCSpec == MCInit /\ [][WNext]_wvars /\ WF_wvars(WNext)
=============================================================================
