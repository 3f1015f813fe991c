---------------------------- MODULE MCMigration ----------------------------
(* Instances of Migration for TLC. *)
EXTENDS Migration, TLC

Content(meta, floating, data) == [meta |-> meta, floating |-> floating, data |-> data]

\* A present, a missing, an unsupported and an empty object.
Varied == {Content("series", TRUE, "missing"), Content("scalar", FALSE, "missing"),
           Content("frequency", TRUE, "normal"), Content("empty", FALSE, "normal")}

\* A missing scalar, which takes the longest to store, and one that cannot be.
Plain == {Content("scalar", TRUE, "missing"), Content("scalar", FALSE, "bad")}

Two == {1, 2}
One == {1}

NameSymmetry == Permutations(Names)
=============================================================================
