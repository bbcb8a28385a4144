------------------------------ MODULE MCPoller ------------------------------
(* Instances of ConsensusPoller for TLC. *)
EXTENDS ConsensusPoller, TLC

Answer(l, s, f) == [latest |-> l, safe |-> s, finalized |-> f]

\* Backends whose safe number goes back and forth, and that may answer zero.
BackAndForth == {Answer(3, 2, 1), Answer(3, 1, 1), Answer(3, 0, 1)}

\* The primary stays where it is, the fallback goes back and forth.
SteadyPrimary == [b \in Backends |-> IF b \in Primaries THEN {Answer(3, 2, 1)} ELSE BackAndForth]

\* Backends at two heights, of which the lower one has the higher safe number.
TwoHeights == [b \in Backends |-> {Answer(3, 1, 1), Answer(2, 2, 1)}]

\* Branches are only compared for equality.
Symmetry == Permutations(Branches)

=============================================================================
