--------------------------- MODULE MCCoverageScoring ---------------------------
(***************************************************************************)
(* Small instances of CoverageScoring: effectiveness in tenths, floating   *)
(* point numbers of 9 bits in place of 53, two keys, and an empty one.     *)
(***************************************************************************)
EXTENDS CoverageScoring, TLC

Registered(key, effectiveness, interval, verified) ==
  [key |-> key, effectiveness |-> effectiveness, interval |-> interval, verified |-> verified]

\* Numbers of 9 bits, with a unit of one part.  (By a name of its own TLC builds the set
\* once.)
NineBits == {n \in 0..(26 * One) : \A k \in 0..7 : n >= 2^(9 + k) => n % 2^(k + 1) = 0}
MCFloats == NineBits

\* Equal and different effectiveness under one key, another key, one half, full
\* effectiveness, a long and a short interval, no date, and no key.
MCKinds ==
  {Registered(1, e, 2, TRUE) : e \in {3, 7}} \cup
  {Registered(1, 10, 1, TRUE), Registered(2, 5, 2, TRUE), Registered(2, 7, 2, FALSE),
   Registered(0, 7, 2, TRUE)}

F(says, spelt) == [says |-> says, spelt |-> spelt]

MCUnspecified == F(9, 0)

\* Plain statements; no statement, and statements repeated in another case or empty.
MCScenarios ==
  {[likelihood |-> 4, severity |-> 5, cause |-> <<F(1, 0), F(2, 0)>>,
    consequence |-> <<F(3, 0), F(4, 0)>>],
   [likelihood |-> 3, severity |-> 3, cause |-> <<F(0, 0)>>,
    consequence |-> <<F(3, 1), F(0, 0), F(3, 0), F(4, 0)>>]}
=============================================================================
