------------------------------ MODULE Wildcard ------------------------------
(***************************************************************************)
(* wildcard_match (chat262-wire-protocol/src/server/database.cc): the loop *)
(* that decides whether a username matches the pattern of an accounts      *)
(* request, in which a star stands for any number of characters.  One      *)
(* action per branch of the loop.  Indices count from 0 as in the code, so *)
(* pattern[i] there is pattern[i + 1] here.                                *)
(***************************************************************************)
EXTENDS Integers, Sequences

CONSTANTS Chars,  \* what usernames are made of
          Star    \* '*'

\* handle_registration refuses usernames with a star in them (server.cc:335).
ASSUME StarAssumption == Star \notin Chars

VARIABLES pattern, target, target_idx, pattern_idx, last_star, saved_target,
          result  \* what the function has returned

idxvars == <<target_idx, pattern_idx, last_star, saved_target>>
wvars   == <<pattern, target, idxvars, result>>

NoStar    == -1
Running   == "running"
Match     == "true"
Different == "false"

Start ==
    /\ target_idx = 0 /\ pattern_idx = 0
    /\ last_star = NoStar /\ saved_target = 0
    /\ result = Running

WInit ==
    /\ pattern \in Seq(Chars \cup {Star})
    /\ target \in Seq(Chars)
    /\ Start

\* The conditions of the loop's branches.
Scanning  == result = Running /\ target_idx < Len(target)
AtChar(c) == pattern_idx < Len(pattern) /\ pattern[pattern_idx + 1] = c
Same      == AtChar(target[target_idx + 1])

Explicit ==
    /\ Scanning /\ Same
    /\ target_idx' = target_idx + 1
    /\ pattern_idx' = pattern_idx + 1
    /\ UNCHANGED <<pattern, target, last_star, saved_target, result>>

\* Mutant: the star takes a character to begin with.
TakeStar_greedy ==
    /\ Scanning /\ ~Same /\ AtChar(Star)
    /\ last_star' = pattern_idx
    /\ pattern_idx' = pattern_idx + 1
    /\ target_idx' = target_idx + 1
    /\ saved_target' = target_idx + 1
    /\ UNCHANGED <<pattern, target, result>>

TakeStar ==
    /\ Scanning /\ ~Same /\ AtChar(Star)
    /\ last_star' = pattern_idx
    /\ pattern_idx' = pattern_idx + 1
    /\ saved_target' = target_idx
    /\ UNCHANGED <<pattern, target, target_idx, result>>

\* Mutant: saved_target is not moved on.
Backtrack_standing ==
    /\ Scanning /\ ~Same /\ ~AtChar(Star) /\ last_star # NoStar
    /\ pattern_idx' = last_star + 1
    /\ target_idx' = saved_target + 1
    /\ UNCHANGED <<pattern, target, last_star, saved_target, result>>

\* Mutant: goes on behind the mismatch instead of behind the saved target.
Backtrack_leaping ==
    /\ Scanning /\ ~Same /\ ~AtChar(Star) /\ last_star # NoStar
    /\ pattern_idx' = last_star + 1
    /\ target_idx' = target_idx + 1
    /\ saved_target' = target_idx + 1
    /\ UNCHANGED <<pattern, target, last_star, result>>

Backtrack ==
    /\ Scanning /\ ~Same /\ ~AtChar(Star) /\ last_star # NoStar
    /\ pattern_idx' = last_star + 1
    /\ target_idx' = saved_target + 1
    /\ saved_target' = saved_target + 1
    /\ UNCHANGED <<pattern, target, last_star, result>>

Mismatch ==
    /\ Scanning /\ ~Same /\ ~AtChar(Star) /\ last_star = NoStar
    /\ result' = Different
    /\ UNCHANGED <<pattern, target, idxvars>>

\* The target is used up: only stars may be left.
SkipStar ==
    /\ result = Running /\ target_idx >= Len(target) /\ AtChar(Star)
    /\ pattern_idx' = pattern_idx + 1
    /\ UNCHANGED <<pattern, target, target_idx, last_star, saved_target, result>>

Finish ==
    /\ result = Running /\ target_idx >= Len(target) /\ ~AtChar(Star)
    /\ result' = IF pattern_idx = Len(pattern) THEN Match ELSE Different
    /\ UNCHANGED <<pattern, target, idxvars>>

WNext == Explicit \/ TakeStar \/ Backtrack \/ Mismatch \/ SkipStar \/ Finish

\* A sequential loop: the thread that runs it holds the database's mutex and
\* waits for nothing.
WSpec == WInit /\ [][WNext]_wvars /\ WF_wvars(WNext)
-----------------------------------------------------------------------------
(***************************************************************************)
(* What a pattern means, without a word about the algorithm: the target    *)
(* can be cut into pieces, one per character of the pattern, where a star  *)
(* gets a piece of any length and another character a piece equal to it.   *)
(* cut[i] is where the piece of the i-th character ends.                   *)
(***************************************************************************)
Cuts(n, m) ==
    {cut \in [0 .. n -> 0 .. m] :
       /\ cut[0] = 0
       /\ \A i \in 1 .. n :
            IF pattern[i] = Star THEN cut[i - 1] <= cut[i]
            ELSE /\ cut[i] = cut[i - 1] + 1
                 /\ target[cut[i]] = pattern[i]}

\* The first n characters of the pattern match the first m of the target.
MatchesUpTo(n, m) == \E cut \in Cuts(n, m) : cut[n] = m

Matches == MatchesUpTo(Len(pattern), Len(target))

\* The matcher, which goes back to the last star only and forgets all stars
\* before it, decides exactly that: no match is lost, none is invented.
DecidesMatches == result # Running => (result = Match <=> Matches)

\* The loop ends, however often it goes back.
Terminates == <>(result # Running)

WTypeOK ==
    /\ pattern \in Seq(Chars \cup {Star})
    /\ target \in Seq(Chars)
    /\ target_idx \in 0 .. Len(target)
    /\ pattern_idx \in 0 .. Len(pattern)
    /\ last_star \in {NoStar} \cup 0 .. pattern_idx - 1
    /\ saved_target \in 0 .. target_idx
    /\ result \in {Running, Match, Different}

\* Where the part of the pattern behind the last star begins.
Base == last_star + 1

\* The part of the pattern behind the last star is matched character by
\* character against the target from saved_target on, so in every cut of the
\* whole target it takes as many characters as it has.
Rigid(cut) ==
    /\ cut[pattern_idx] - cut[Base] = pattern_idx - Base
    /\ cut[Base] >= saved_target
    /\ last_star = NoStar => cut[Base] = saved_target

\* Going back to the last star only is safe because the star before it has
\* been given as little as any cut of the target gives it.
Leftmost ==
    \A cut \in Cuts(Len(pattern), Len(target)) :
       cut[Len(pattern)] = Len(target) =>
          IF target_idx < Len(target) THEN Rigid(cut) ELSE cut[pattern_idx] >= target_idx

\* The inductive invariant of the loop.
WInv ==
    /\ WTypeOK
    /\ DecidesMatches
    /\ last_star # NoStar =>
          /\ pattern[last_star + 1] = Star
          /\ MatchesUpTo(Base, saved_target)
    /\ last_star = NoStar => saved_target = 0
    /\ result = Running =>
          /\ MatchesUpTo(pattern_idx, target_idx)
          /\ target_idx < Len(target) => target_idx - saved_target = pattern_idx - Base
          /\ Leftmost
=============================================================================
