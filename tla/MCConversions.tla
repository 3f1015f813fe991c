--------------------------- MODULE MCConversions ---------------------------
(* The inputs of Conversions for TLC.                                         *)
EXTENDS Conversions, TLC

Letters == [a |-> "A", b |-> "B", p |-> "P"]

\* Two containers with at most two members each, which may contain one another.
Targets == {"absent", "value", "first", "second"}
MembersOf(key, target) ==
  CASE target = "absent" -> <<>>
    [] target = "value"  -> <<Leaf(key, 1)>>
    [] target = "first"  -> <<Node(key, 1)>>
    [] target = "second" -> <<Node(key, 2)>>
Heaps ==
  {<<MembersOf("a", s) \o MembersOf("A", t), MembersOf("b", u) \o MembersOf("a", w)>> :
     s \in Targets, t \in Targets, u \in Targets, w \in Targets}
Trees == {[about |-> "tree", heap |-> heap, prefix |-> prefix] :
            heap \in Heaps, prefix \in {<<>>, <<"">>, <<"p">>}}

\* Years of both lengths that begin on each day of the week, and century years.
Years == (2000..2027) \cup {1, 100, 1900, 9998}
Anchored == {Frequency("weekly", d) : d \in 1..7} \cup {Frequency("business", 0)}
            \cup {Frequency("quarterly", m) : m \in 1..3}
PeriodsOf(f) ==
  CASE f.family = "weekly" -> 0..54 [] f.family = "quarterly" -> 0..5 [] OTHER -> 255..263
DatedInputs == {[about |-> "period", frequency |-> f, year |-> y, period |-> p] :
            f \in {Frequency("daily", 0)}, y \in Years, p \in {0, 1, 59, 60, 365, 366, 367}}
         \cup UNION {{[about |-> "period", frequency |-> f, year |-> y, period |-> p] :
                        y \in Years, p \in PeriodsOf(f)} : f \in Anchored}

\* The moments of the weeks around each new year, and the business days.
Moments(f) ==
  IF f.family = "weekly"
    THEN {WeekNumber(NewYear(y), f.anchor) + k : y \in Years, k \in 0..26}
    ELSE {BusinessNumber(FirstBusinessDay(y)) + k : y \in Years, k \in 0..8}
Timed == UNION {{[about |-> "moment", frequency |-> f, moment |-> m] : m \in Moments(f)} :
                  f \in {g \in Anchored : g.family # "quarterly"}}

UpToTwo(obs) == {<<>>} \cup {<<o>> : o \in obs} \cup {<<o, p>> : o \in obs, p \in obs}

PythonValues ==
  UNION {{Value(form, NoFirst, <<o>>) : o \in Observations[form]} :
           form \in DOMAIN KindOf \ SeriesForms}
  \cup UNION {{Value(form, 1, obs) : obs \in UpToTwo(Observations[form])} : form \in SeriesForms}

Carriers ==
  UNION {{Raw("series", kind, IF obs = <<>> THEN NoFirst ELSE 1, obs) :
            obs \in UpToTwo(Held("series", kind))} : kind \in Kinds}
  \cup UNION {{Raw("scalar", kind, NoFirst, <<o>>) : o \in Held("scalar", kind)} :
                kind \in Kinds \cup {"namelist"}}

Converted == {[about |-> "value", value |-> v, policy |-> p] : v \in PythonValues, p \in Policies}
             \cup {[about |-> "raw", raw |-> r, policy |-> p] : r \in Carriers, p \in Policies}

\* Files that include each other, and one that grew after stat looked at it.
Statements == {TextOf(2), InputOf("f"), InputOf("g")}
Bodies == {<<>>} \cup {<<s>> : s \in Statements} \cup {<<s, t>> : s \in Statements, t \in Statements}
FileOf(body, grown) == File(Size(body) - grown, FALSE, body)
Directories ==
  {"f" :> FileOf(x, 0) @@ "g" :> FileOf(y, 0) : x \in Bodies, y \in Bodies}
  \cup {"f" :> FileOf(<<TextOf(2)>>, 1) @@ "g" :> Directory,
        "f" :> File(2, TRUE, <<TextOf(2)>>) @@ "g" :> FileOf(<<InputOf("h")>>, 0)}
Included == {[about |-> "include", files |-> d, text |-> t, limits |-> Limits(depth, 4)] :
               d \in Directories, depth \in 1..2,
               t \in {<<InputOf("f")>>, <<InputOf("g"), TextOf(2), InputOf("f")>>,
                      <<InputOf("f"), Computed>>}}

Everything == <<Trees, DatedInputs, Timed, Converted, Included>>
=============================================================================
