----------------------------- MODULE MCPatterns -----------------------------
(* Instances of Patterns for TLC.                                           *)
EXTENDS Patterns, TLC

CONSTANTS t1, t2, g1, g2, p1, p2

\* An approved pattern that opens after two failures, at most two arms an
\* hour and three a day.
approved ==
  [id |-> p1, valid |-> TRUE, low |-> TRUE, approved |-> TRUE, expires |-> 0,
   hour |-> 2, day |-> 3, threshold |-> 2, disable |-> 2]

\* The same pattern, revoked.
rejected == [approved EXCEPT !.approved = FALSE]

\* The same id in a second file, with looser limits: the first one counts.
looser == [approved EXCEPT !.hour = 0, !.day = 0]

\* Another pattern for the same tool, which expires, with tighter limits.
tighter == [approved EXCEPT !.id = p2, !.hour = 1, !.day = 1, !.threshold = 1,
                            !.expires = 1]

\* A file that does not validate.
broken == [approved EXCEPT !.valid = FALSE]

\* The first pattern with a breaker that opens sooner and closes sooner.
hasty == [approved EXCEPT !.threshold = 1, !.disable = 1]

\* Limits that keep the history of the breaker short.
few == [approved EXCEPT !.hour = 2, !.day = 2]

OneFile  == {<<few>>}
Editions == {<<approved, looser>>, <<rejected, tighter>>, <<broken, hasty>>}
Revoking == {<<approved>>, <<rejected>>}

Alike == Permutations(Thread) \cup Permutations(Target)
=============================================================================
