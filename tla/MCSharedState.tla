--------------------------- MODULE MCSharedState ---------------------------
(* Instances of SharedState for TLC. *)
EXTENDS SharedState, TLC

Object(name, class, freq, alias, long) ==
  [name |-> name, class |-> class, type |-> "PRECISION", freq |-> freq,
   alias |-> alias, long |-> long]

\* A scalar, two families, a case series, an alias with a name too long.
Mixed == {Object(1, "SCALAR", "UNDEFINED", FALSE, FALSE),
          Object(2, "SERIES", "MONTHLY", FALSE, FALSE),
          Object(3, "SERIES", "CASE", FALSE, FALSE),
          Object(4, "SERIES", "ANNUAL", TRUE, TRUE)}

Filter(class, freq, alias) ==
  [class |-> class, type |-> {}, freq |-> freq, alias |-> alias]

Asked == {Filter({"SERIES"}, {"MONTHLY"}, FALSE),
          Filter({}, {"CASE"}, FALSE),
          Filter({}, {"MONTHLY", "UNDEFINED"}, TRUE)}

FamilyOf == [MONTHLY |-> "MONTHS", ANNUAL |-> "YEARS"]

Symmetry == Permutations(Threads)
=============================================================================
