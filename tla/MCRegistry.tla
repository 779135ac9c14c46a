----------------------------- MODULE MCRegistry -----------------------------
(* Instances of Registry small enough for TLC. *)
EXTENDS Registry, TLC

CONSTANTS d1, d2, d3, a, b, p

\* No numeral names.
Plain == [n \in Names |-> None]

\* p spells the pid of d1, as the name of an anonymous session does.
WithNumeral == [n \in Names |-> IF n = p THEN d1 ELSE None]

\* With the numeral p, the daemon d1 and the names are told apart.
SymmetricNumeral == Permutations(Commands) \cup Permutations({d2, d3})
=============================================================================
