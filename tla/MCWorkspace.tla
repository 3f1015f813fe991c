---------------------------- MODULE MCWorkspace ----------------------------
(* An instance of Workspace for TLC.  Its keys are those BridgeNames computes *)
(* for the prefix "p" and the collect specification ["a"].                    *)
EXTENDS Workspace, TLC

B == INSTANCE BridgeNames WITH Uppers <- [a |-> "A", b |-> "B", p |-> "P"]

A == <<"A">>
AB == <<"A", "B">>
PA == <<"P", "A">>
PB == <<"P", "B">>

\* "A" and "P_A" land on one key, "A_B" in a workspace of that key, "P_B" apart.
FourNames == <<A, AB, PA, PB>>
KeyOf == [n \in {A, AB, PA, PB} |-> B!Destination(n, <<"p">>, <<<<B!CollectEntry(<<"a">>, 2)>>, <<>>>>)]

Number(value) == Object("scalar", NoRange, value, TRUE)
Series(range, value) == Object("monthly", range, value, TRUE)

Changed == {Number("other"), Series(<<1, 3>>, "other"), Series(<<2, 2>>, "other"),
            Series(Empty, "other"), Object("tenday", <<1, 2>>, "other", FALSE)}

Holding(a, ab, pa, pb) == A :> a @@ AB :> ab @@ PA :> pa @@ PB :> pb

Chosen == {Holding(None, Series(<<1, 2>>, "old"), None, Number("old")),
           Holding(None, None, Series(Empty, "old"), Series(<<1, 2>>, "old")),
           Holding(Object("formula", Empty, "old", FALSE), None, None,
                   Object("tenday", <<1, 2>>, "old", FALSE)),
           Holding(Number("old"), None, Number("old"), Series(<<2, 3>>, "old")),
           Holding(Number("old"), Series(<<1, 1>>, "old"), None, None)}

Arguments == {<<Wildcard({A, AB, PA, PB}, {})>>,
              <<Explicit(PB), Wildcard({A, AB, PA, PB}, {"monthly"})>>,
              <<Explicit(A), Explicit(PB)>>,
              <<Explicit(AB), Explicit(A)>>}

Both == <<Item(PB, Series(<<1, 2>>, "new"), TRUE), Item(A, Number("new"), TRUE)>>
OneBad == <<Item(PB, Series(Empty, "new"), TRUE), Item(A, Number("new"), FALSE)>>
Twice == <<Item(A, Number("new"), TRUE), Item(A, Number("newer"), TRUE)>>

Asks ==
  {ReadCall(report, owned, raw, args) :
     report \in BOOLEAN, owned \in BOOLEAN, raw \in {FALSE}, args \in Arguments}
  \cup {ReadCall(TRUE, FALSE, TRUE, args) : args \in Arguments}
  \cup {WriteCall(report, FALSE, "update", replace, items) :
     report \in BOOLEAN, replace \in BOOLEAN, items \in {Both, OneBad, Twice}}
  \cup {WriteCall(report, TRUE, mode, TRUE, items) :
     report \in BOOLEAN, mode \in {"update", "overwrite", "readonly"},
     items \in {Both, OneBad, Twice}}
=============================================================================
