--------------------------- MODULE WildcardProofs ---------------------------
(***************************************************************************)
(* wildcard_match decides what a pattern means, for every pattern, every   *)
(* username without a star and every alphabet.  The induction over the     *)
(* loop is WInv; the two lemmas say how a cut grows.                       *)
(***************************************************************************)
EXTENDS Wildcard, TLAPS

\* One more character of the pattern gets the next piece of the target.
LEMMA NextPiece ==
  ASSUME NEW n \in Nat, NEW m \in Nat, NEW k \in Nat, MatchesUpTo(n, m),
         \/ pattern[n + 1] = Star /\ m <= k
         \/ pattern[n + 1] # Star /\ k = m + 1 /\ target[k] = pattern[n + 1]
  PROVE  MatchesUpTo(n + 1, k)
<1>1. PICK cut \in Cuts(n, m) : cut[n] = m
  BY DEF MatchesUpTo
<1> DEFINE more == [i \in 0 .. n + 1 |-> IF i = n + 1 THEN k ELSE cut[i]]
<1>2. m <= k
  OBVIOUS
<1>3. cut \in [0 .. n -> 0 .. m] /\ cut[0] = 0
  BY DEF Cuts
<1>4. more \in [0 .. n + 1 -> 0 .. k] /\ more[0] = 0
  BY <1>2, <1>3
<1>5. ASSUME NEW i \in 1 .. n + 1
      PROVE  IF pattern[i] = Star THEN more[i - 1] <= more[i]
             ELSE more[i] = more[i - 1] + 1 /\ target[more[i]] = pattern[i]
  <2>1. CASE i = n + 1
    <3>1. more[i - 1] = m /\ more[i] = k
      BY <1>1, <2>1
    <3>2. QED
      BY <2>1, <3>1
  <2>2. CASE i # n + 1
    <3>1. i \in 1 .. n /\ more[i - 1] = cut[i - 1] /\ more[i] = cut[i]
      BY <2>2
    <3>2. QED
      BY <3>1 DEF Cuts
  <2>3. QED
    BY <2>1, <2>2
<1>6. more[n + 1] = k
  OBVIOUS
<1> HIDE DEF more
<1>7. more \in Cuts(n + 1, k)
  BY <1>4, <1>5 DEF Cuts
<1>8. QED
  BY <1>6, <1>7 DEF MatchesUpTo

\* The piece of a star at the end can be made longer.
LEMMA LongerStar ==
  ASSUME NEW n \in Nat \ {0}, NEW m \in Nat, NEW k \in Nat, m <= k,
         pattern[n] = Star, MatchesUpTo(n, m)
  PROVE  MatchesUpTo(n, k)
<1>1. PICK cut \in Cuts(n, m) : cut[n] = m
  BY DEF MatchesUpTo
<1> DEFINE longer == [i \in 0 .. n |-> IF i = n THEN k ELSE cut[i]]
<1>2. cut \in [0 .. n -> 0 .. m] /\ cut[0] = 0
  BY DEF Cuts
<1>3. longer \in [0 .. n -> 0 .. k] /\ longer[0] = 0
  BY <1>2
<1>4. ASSUME NEW i \in 1 .. n
      PROVE  IF pattern[i] = Star THEN longer[i - 1] <= longer[i]
             ELSE longer[i] = longer[i - 1] + 1 /\ target[longer[i]] = pattern[i]
  <2>1. CASE i = n
    <3>1. longer[i - 1] = cut[i - 1] /\ longer[i] = k /\ cut[i - 1] \in 0 .. m
      BY <1>2, <2>1
    <3>2. QED
      BY <2>1, <3>1
  <2>2. CASE i # n
    <3>1. i \in 1 .. n /\ longer[i - 1] = cut[i - 1] /\ longer[i] = cut[i]
      BY <2>2
    <3>2. QED
      BY <3>1 DEF Cuts
  <2>3. QED
    BY <2>1, <2>2
<1>5. longer[n] = k
  OBVIOUS
<1> HIDE DEF longer
<1>6. longer \in Cuts(n, k)
  BY <1>3, <1>4 DEF Cuts
<1>7. QED
  BY <1>5, <1>6 DEF MatchesUpTo

\* The cuts of the whole target by the whole pattern.
Whole == {cut \in Cuts(Len(pattern), Len(target)) : cut[Len(pattern)] = Len(target)}

\* A step of a whole cut, at a position of the pattern.
LEMMA WholeStep ==
  ASSUME WTypeOK, NEW cut \in Whole, NEW i \in 0 .. Len(pattern)
  PROVE  /\ cut[i] \in 0 .. Len(target)
         /\ cut[0] = 0 /\ cut[Len(pattern)] = Len(target)
         /\ i < Len(pattern) =>
               IF pattern[i + 1] = Star THEN cut[i] <= cut[i + 1]
               ELSE /\ cut[i + 1] = cut[i] + 1
                    /\ target[cut[i + 1]] = pattern[i + 1]
<1>1. Len(pattern) \in Nat /\ Len(target) \in Nat
  BY DEF WTypeOK
<1>2. cut \in [0 .. Len(pattern) -> 0 .. Len(target)]
      /\ cut[0] = 0 /\ cut[Len(pattern)] = Len(target)
  BY DEF Whole, Cuts
<1>3. CASE i < Len(pattern)
  <2>1. i + 1 \in 1 .. Len(pattern) /\ (i + 1) - 1 = i
    BY <1>1, <1>3
  <2>2. IF pattern[i + 1] = Star THEN cut[(i + 1) - 1] <= cut[i + 1]
        ELSE /\ cut[i + 1] = cut[(i + 1) - 1] + 1
             /\ target[cut[i + 1]] = pattern[i + 1]
    BY <2>1 DEF Whole, Cuts
  <2>3. QED
    BY <1>2, <2>1, <2>2
<1>4. QED
  BY <1>2, <1>3

\* A match is a whole cut.
LEMMA MatchesIsWhole == Matches <=> Whole # {}
BY DEF Matches, MatchesUpTo, Whole
-----------------------------------------------------------------------------
\* Facts about the loop that several branches use: where it stands, what the
\* part of the pattern behind the last star has taken of a whole cut.
LEMMA Standing ==
  ASSUME WInv, result = Running
  PROVE  /\ target_idx \in 0 .. Len(target) /\ pattern_idx \in 0 .. Len(pattern)
         /\ Base \in 0 .. pattern_idx /\ saved_target \in 0 .. target_idx
         /\ Len(pattern) \in Nat /\ Len(target) \in Nat
         /\ MatchesUpTo(pattern_idx, target_idx)
         /\ \A cut \in Whole : cut[pattern_idx] >= target_idx
<1> USE DEF WInv
<1>1. /\ Len(pattern) \in Nat /\ Len(target) \in Nat
      /\ target_idx \in 0 .. Len(target) /\ pattern_idx \in 0 .. Len(pattern)
      /\ Base \in 0 .. pattern_idx /\ saved_target \in 0 .. target_idx
  BY DEF WTypeOK, Base, NoStar
<1>2. ASSUME NEW cut \in Whole PROVE cut[pattern_idx] >= target_idx
  <2>1. cut[pattern_idx] \in 0 .. Len(target) /\ cut[Base] \in 0 .. Len(target)
    BY <1>1, WholeStep
  <2>2. CASE target_idx < Len(target)
    <3>1. Rigid(cut)
      BY <2>2 DEF Leftmost, Whole
    <3>2. QED
      BY <1>1, <2>1, <2>2, <3>1 DEF Rigid
  <2>3. CASE ~(target_idx < Len(target))
    BY <2>3 DEF Leftmost, Whole
  <2>4. QED
    BY <2>2, <2>3
<1>3. QED
  BY <1>1, <1>2

\* The loop starts in WInv.
LEMMA WInitially == WInit => WInv
<1> SUFFICES ASSUME WInit PROVE WInv
  OBVIOUS
<1> USE DEF WInit, Start
<1>1. WTypeOK
  BY DEF WTypeOK, NoStar
<1>2. MatchesUpTo(pattern_idx, target_idx)
  <2> DEFINE nothing == [i \in 0 .. 0 |-> 0]
  <2>1. nothing \in Cuts(0, 0) /\ nothing[0] = 0
    BY DEF Cuts
  <2>2. QED
    BY <2>1 DEF MatchesUpTo
<1>3. ASSUME NEW cut \in Whole PROVE cut[0] = 0
  BY DEF Whole, Cuts
<1>4. Leftmost
  BY <1>3 DEF Leftmost, Whole, Rigid, Base, NoStar
<1>5. QED
  BY <1>1, <1>2, <1>4 DEF WInv, DecidesMatches, Base, NoStar

\* What is the same after a step that leaves the pattern and the target alone.
LEMMA Unmoved ==
  ASSUME UNCHANGED <<pattern, target>>
  PROVE  /\ Whole' = Whole
         /\ Matches' = Matches
         /\ \A n, m \in Nat : MatchesUpTo(n, m)' = MatchesUpTo(n, m)
BY DEF Whole, Matches, MatchesUpTo, Cuts

\* To see that the loop goes on in WInv.
LEMMA GoesOn ==
  ASSUME WInv, WTypeOK', UNCHANGED <<pattern, target, result>>, result = Running,
         MatchesUpTo(pattern_idx', target_idx'),
         last_star' # NoStar => /\ pattern[last_star' + 1] = Star
                                /\ MatchesUpTo(Base', saved_target'),
         last_star' = NoStar => saved_target' = 0,
         target_idx' < Len(target) => target_idx' - saved_target' = pattern_idx' - Base',
         \A cut \in Whole : IF target_idx' < Len(target) THEN Rigid(cut)'
                            ELSE cut[pattern_idx'] >= target_idx'
  PROVE  WInv'
<1>1. MatchesUpTo(pattern_idx, target_idx)'
  BY DEF MatchesUpTo, Cuts
<1>2. last_star' # NoStar => MatchesUpTo(Base, saved_target)'
  BY DEF MatchesUpTo, Cuts, Base
<1>3. Leftmost'
  BY DEF Leftmost, Whole, Cuts, Rigid, Base
<1>4. QED
  BY <1>1, <1>2, <1>3 DEF WInv, DecidesMatches, Base
-----------------------------------------------------------------------------
\* Taking an equal character preserves WInv.
LEMMA ExplicitStep == ASSUME WInv, Explicit PROVE WInv'
<1> USE DEF Explicit, Scanning
<1>1. WTypeOK /\ result = Running
  BY DEF WInv
<1>2. pattern_idx < Len(pattern) /\ pattern[pattern_idx + 1] = target[target_idx + 1]
  BY DEF Same, AtChar
<1>3. target[target_idx + 1] \in Chars
  BY DEF WInv, WTypeOK
<1>4. pattern[pattern_idx + 1] # Star
  BY <1>2, <1>3, StarAssumption
<1>5. WTypeOK'
  BY <1>2, Standing DEF WInv, WTypeOK, NoStar
<1>6. MatchesUpTo(pattern_idx', target_idx')
  BY <1>2, <1>4, Standing, NextPiece
<1>7. target_idx - saved_target = pattern_idx - Base
  BY DEF WInv
<1>8. ASSUME NEW cut \in Whole
      PROVE  IF target_idx' < Len(target) THEN Rigid(cut)' ELSE cut[pattern_idx'] >= target_idx'
  <2>1. Rigid(cut)
    BY DEF WInv, Leftmost, Whole
  <2>2. /\ cut[pattern_idx + 1] = cut[pattern_idx] + 1
        /\ cut[pattern_idx] \in Nat /\ cut[Base] \in Nat
    BY <1>1, <1>2, <1>4, Standing, WholeStep
  <2>3. cut[pattern_idx] >= target_idx
    BY <1>1, Standing
  <2>4. pattern_idx \in Nat /\ target_idx \in Nat /\ Base \in Nat
    BY <1>1, Standing
  <2>5. cut[pattern_idx + 1] >= target_idx + 1
    BY <2>2, <2>3, <2>4
  <2>6. cut[pattern_idx + 1] - cut[Base] = (pattern_idx + 1) - Base
    BY <2>1, <2>2, <2>4 DEF Rigid
  <2>7. QED
    BY <2>1, <2>5, <2>6 DEF Rigid, Base
<1>9. /\ last_star' # NoStar => /\ pattern[last_star' + 1] = Star
                                 /\ MatchesUpTo(Base', saved_target')
      /\ last_star' = NoStar => saved_target' = 0
  BY DEF WInv, Base
<1>10. target_idx' - saved_target' = pattern_idx' - Base'
  BY <1>1, <1>7, Standing DEF Base
<1>11. QED
  BY <1>1, <1>5, <1>6, <1>8, <1>9, <1>10, GoesOn

\* Remembering a star preserves WInv: it is the last star now, and empty.
LEMMA TakeStarStep == ASSUME WInv, TakeStar PROVE WInv'
<1> USE DEF TakeStar, Scanning
<1>1. WTypeOK /\ result = Running
  BY DEF WInv
<1>2. pattern_idx < Len(pattern) /\ pattern[pattern_idx + 1] = Star
  BY DEF AtChar
<1>3. WTypeOK'
  BY <1>2, Standing DEF WInv, WTypeOK, NoStar
<1>4. MatchesUpTo(pattern_idx', target_idx')
  BY <1>2, Standing, NextPiece
<1>5. Base' = pattern_idx + 1
  BY DEF Base
<1>6. ASSUME NEW cut \in Whole PROVE Rigid(cut)'
  <2>1. cut[pattern_idx] >= target_idx
    BY Standing, <1>1
  <2>2. /\ cut[pattern_idx] <= cut[pattern_idx + 1]
        /\ cut[pattern_idx] \in Nat /\ cut[pattern_idx + 1] \in Nat
    BY <1>1, <1>2, Standing, WholeStep
  <2>3. QED
    BY <1>5, <2>1, <2>2, Standing DEF Rigid, Base, NoStar
<1>7. /\ last_star' # NoStar => /\ pattern[last_star' + 1] = Star
                                 /\ MatchesUpTo(Base', saved_target')
      /\ last_star' # NoStar
  BY <1>1, <1>2, <1>4, <1>5, Standing DEF NoStar
<1>8. target_idx' - saved_target' = pattern_idx' - Base'
  BY <1>1, <1>5, Standing
<1>9. ASSUME NEW cut \in Whole
      PROVE  IF target_idx' < Len(target) THEN Rigid(cut)' ELSE cut[pattern_idx'] >= target_idx'
  BY <1>6
<1>10. QED
  BY <1>1, <1>3, <1>4, <1>7, <1>8, <1>9, GoesOn

\* Where the pattern cannot go on, no whole cut has the last star (or the
\* beginning of the pattern) end at saved_target: the characters behind it
\* would be forced up to the one that differs.
LEMMA Stuck ==
  ASSUME WInv, Scanning, ~Same, ~AtChar(Star), NEW cut \in Whole
  PROVE  cut[Base] # saved_target
<1> SUFFICES ASSUME cut[Base] = saved_target PROVE FALSE
  OBVIOUS
<1>1. WTypeOK /\ result = Running /\ target_idx < Len(target)
  BY DEF WInv, Scanning
<1>2. Rigid(cut) /\ target_idx - saved_target = pattern_idx - Base
  BY <1>1 DEF WInv, Leftmost, Whole
<1>3. cut[pattern_idx] \in 0 .. Len(target)
  BY <1>1, Standing, WholeStep
<1>4. cut[pattern_idx] = target_idx
  BY <1>1, <1>2, <1>3, Standing DEF Rigid
<1>5. CASE pattern_idx = Len(pattern)
  BY <1>1, <1>4, <1>5, Standing, WholeStep
<1>6. CASE pattern_idx # Len(pattern)
  <2>1. pattern_idx < Len(pattern) /\ pattern[pattern_idx + 1] # Star
    BY <1>1, <1>6, Standing DEF AtChar
  <2>2. target[target_idx + 1] = pattern[pattern_idx + 1]
    BY <1>1, <1>4, <2>1, Standing, WholeStep
  <2>3. QED
    BY <2>1, <2>2 DEF Same, AtChar
<1>7. QED
  BY <1>5, <1>6

\* Giving the last star one more character preserves WInv.
LEMMA BacktrackStep == ASSUME WInv, Backtrack PROVE WInv'
<1> USE DEF Backtrack, Scanning
<1>1. WTypeOK /\ result = Running
  BY DEF WInv
<1>2. ~Same /\ ~AtChar(Star) /\ last_star # NoStar
  OBVIOUS
<1>3. /\ pattern[Base] = Star /\ Base \in Nat \ {0}
      /\ MatchesUpTo(Base, saved_target)
  BY <1>1, Standing DEF WInv, WTypeOK, Base, NoStar
<1>4. WTypeOK'
  BY <1>2, Standing DEF WInv, WTypeOK, NoStar
<1>5. MatchesUpTo(Base, saved_target + 1)
  BY <1>1, <1>3, Standing, LongerStar
<1>6. target_idx - saved_target = pattern_idx - Base
  BY DEF WInv
<1>7. ASSUME NEW cut \in Whole PROVE cut[Base] >= saved_target + 1
  <2>1. Rigid(cut)
    BY DEF WInv, Leftmost, Whole
  <2>2. cut[Base] >= saved_target /\ cut[Base] # saved_target
    BY <1>2, <2>1, Stuck DEF Rigid
  <2>3. cut[Base] \in Nat /\ saved_target \in Nat
    BY <1>1, Standing, WholeStep
  <2>4. QED
    BY <2>2, <2>3
<1>8. ASSUME NEW cut \in Whole
      PROVE  IF target_idx' < Len(target) THEN Rigid(cut)' ELSE cut[pattern_idx'] >= target_idx'
  <2>1. cut[Base] \in Nat
    BY <1>1, Standing, WholeStep
  <2>2. QED
    BY <1>1, <1>2, <1>7, <2>1, Standing DEF Rigid, Base
<1>9. /\ pattern[last_star' + 1] = Star /\ last_star' # NoStar
      /\ MatchesUpTo(Base', saved_target')
      /\ MatchesUpTo(pattern_idx', target_idx')
  BY <1>2, <1>3, <1>5 DEF Base
<1>10. target_idx' - saved_target' = pattern_idx' - Base'
  BY <1>1, Standing DEF Base
<1>11. QED
  BY <1>1, <1>4, <1>8, <1>9, <1>10, GoesOn

\* Without a star to go back to there is no match.
LEMMA MismatchStep == ASSUME WInv, Mismatch PROVE WInv'
<1> USE DEF Mismatch, Scanning, idxvars
<1>1. WTypeOK /\ result = Running
  BY DEF WInv
<1>2. ~Same /\ ~AtChar(Star) /\ last_star = NoStar
  OBVIOUS
<1>3. ASSUME NEW cut \in Whole PROVE FALSE
  <2>1. Rigid(cut)
    BY DEF WInv, Leftmost, Whole
  <2>2. QED
    BY <1>2, <2>1, Stuck DEF Rigid
<1>4. ~Matches
  BY <1>3, MatchesIsWhole
<1>5. WTypeOK'
  BY DEF WInv, WTypeOK
<1>6. QED
  BY <1>1, <1>4, <1>5, Unmoved, Standing
     DEF WInv, DecidesMatches, Different, Match, Running, Base

\* Stars left at the end of the pattern match nothing.
LEMMA SkipStarStep == ASSUME WInv, SkipStar PROVE WInv'
<1> USE DEF SkipStar
<1>1. WTypeOK /\ result = Running
  BY DEF WInv
<1>2. pattern_idx < Len(pattern) /\ pattern[pattern_idx + 1] = Star
  BY DEF AtChar
<1>3. WTypeOK'
  BY <1>2, Standing DEF WInv, WTypeOK, NoStar
<1>4. MatchesUpTo(pattern_idx', target_idx')
  BY <1>2, Standing, NextPiece
<1>5. ASSUME NEW cut \in Whole PROVE cut[pattern_idx'] >= target_idx'
  <2>1. cut[pattern_idx] >= target_idx
    BY <1>1, Standing
  <2>2. /\ cut[pattern_idx] <= cut[pattern_idx + 1]
        /\ cut[pattern_idx] \in Nat /\ cut[pattern_idx + 1] \in Nat
    BY <1>1, <1>2, Standing, WholeStep
  <2>3. QED
    BY <1>1, <2>1, <2>2, Standing
<1>6. ~(target_idx < Len(target))
  BY <1>1, Standing
<1>7. /\ last_star' # NoStar => /\ pattern[last_star' + 1] = Star
                                 /\ MatchesUpTo(Base', saved_target')
      /\ last_star' = NoStar => saved_target' = 0
  BY DEF WInv, Base
<1>8. QED
  BY <1>1, <1>3, <1>4, <1>5, <1>6, <1>7, GoesOn

\* At the end, the pattern is used up iff there is a match.
LEMMA FinishStep == ASSUME WInv, Finish PROVE WInv'
<1> USE DEF Finish, idxvars
<1>1. WTypeOK /\ result = Running /\ target_idx = Len(target)
  BY Standing DEF WInv
<1>2. CASE pattern_idx = Len(pattern)
  <2>1. Matches
    BY <1>1, <1>2, Standing DEF Matches
  <2>2. QED
    BY <1>1, <1>2, <2>1, Unmoved, Standing
       DEF WInv, WTypeOK, DecidesMatches, Different, Match, Running, Base
<1>3. CASE pattern_idx # Len(pattern)
  <2>1. pattern_idx < Len(pattern) /\ pattern[pattern_idx + 1] # Star
    BY <1>1, <1>3, Standing DEF AtChar
  <2>2. ASSUME NEW cut \in Whole PROVE FALSE
    <3>1. cut[pattern_idx] >= Len(target)
      BY <1>1, Standing
    <3>2. /\ cut[pattern_idx + 1] = cut[pattern_idx] + 1
          /\ cut[pattern_idx] \in Nat /\ cut[pattern_idx + 1] \in 0 .. Len(target)
      BY <1>1, <2>1, Standing, WholeStep
    <3>3. QED
      BY <1>1, <3>1, <3>2, Standing
  <2>3. ~Matches
    BY <2>2, MatchesIsWhole
  <2>4. QED
    BY <1>1, <1>3, <2>3, Unmoved, Standing
       DEF WInv, WTypeOK, DecidesMatches, Different, Match, Running, Base
<1>4. QED
  BY <1>2, <1>3

\* WInv is an invariant of wildcard_match for all patterns and names.
THEOREM WInvariance == WSpec => []WInv
<1>1. ASSUME WInv, [WNext]_wvars PROVE WInv'
  <2>1. CASE UNCHANGED wvars
    <3>1. WInv'
      BY <1>1, <2>1 DEF WInv, wvars, idxvars, WTypeOK, DecidesMatches, Matches, MatchesUpTo,
                  Cuts, Base, Leftmost, Rigid
    <3>2. QED
      BY <3>1
  <2>2. QED
    BY <1>1, <2>1, ExplicitStep, TakeStarStep, BacktrackStep, MismatchStep,
       SkipStarStep, FinishStep DEF WNext
<1>2. QED
  BY <1>1, WInitially, PTL DEF WSpec

\* wildcard_match returns true exactly when the name can be cut into pieces
\* that the characters and stars of the pattern stand for (database.cc:178-221),
\* whatever the pattern, provided that names hold no star.
THEOREM MatcherIsRight == WSpec => []DecidesMatches
<1>1. WInv => DecidesMatches
  BY DEF WInv
<1>2. QED
  BY <1>1, WInvariance, PTL
=============================================================================
