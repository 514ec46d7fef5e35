------------------------------ MODULE MCNudges ------------------------------
(* Instances of Nudges for TLC.                                            *)
EXTENDS Nudges, TLC
CONSTANTS w1, w2, k1, p1, p2, prj

On(subject, p, c) == [subject |-> subject, print |-> p, commit |-> c]

\* Two texts of a card at the first commit (both bases), the card and the
\* project at the second commit, and fingerprints that name no card.
Offered == {On(k1, p, 0) : p \in {p1, p2}}
             \cup {On(subject, NoPrint, 1) : subject \in {k1, prj}}
             \cup {On(prj, p, NoCommit) : p \in {p1, p2}}

\* Workers and fingerprints are interchangeable.
Symmetry == Permutations({w1, w2}) \cup Permutations({p1, p2})
============================================================================
