----------------------------- MODULE MCReadSession -----------------------------
(* Instances of ReadSession for TLC: two reading coroutines, one or two    *)
(* lifecycle owners, and two ranges with the same start register.          *)
EXTENDS ReadSession, TLC

Short == [start |-> 0, count |-> 40]
Long == [start |-> 0, count |-> 120]
Other == [start |-> 80, count |-> 40]

Both == {Short, Long}
OnlyShort == {Short}
OnlyOther == {Other}
NoRange == {}

Symmetry == Permutations(Callers) \cup Permutations(Controllers)
=============================================================================
