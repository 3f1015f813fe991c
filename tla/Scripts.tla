------------------------------ MODULE Scripts ------------------------------
(* The scripts of the validation groups (see Groups) as the campaign takes     *)
(* them, and what a script owes by itself, without a worker that runs it:      *)
(* which cases it is sure to record when no step goes wrong, or only those     *)
(* about some objects.                                                         *)
EXTENDS SequencesExt

CONSTANTS Groups,       \* the names of the groups, in the order they are run
          Script,       \* the steps of each group function
          Required,     \* the required cases of each
          Families      \* for each, the sets of its cases that are about one object

\* The form of a group function: a step in a callable has, further on, the end of it.
IsScript(script) ==
    /\ script \in Seq(ToSet(script))
    /\ \A i \in DOMAIN script :
        /\ script[i].ids \in Seq(ToSet(script[i].ids))
        /\ script[i].in # "none" =>
            \E j \in i .. Len(script) : script[j].op = "close" /\ script[j].id = script[i].in

ASSUME GroupsAssumption ==
    /\ Groups \in Seq(ToSet(Groups)) /\ IsInjective(Groups)
    /\ Groups # <<>> /\ Groups[1] = "lifecycle"
    /\ \A g \in ToSet(Groups) : IsScript(Script[g])

Case(id, s) == [id |-> id, status |-> s, observation |-> FALSE]
Observation(id, s) == [id |-> id, status |-> s, observation |-> TRUE]

\* What passed, by the cases and the nested launches of a record.
PassedIn(record) ==
    {c.id : c \in {d \in ToSet(record.cases) : d.status \in {"pass", "malformed"}}}
    \cup record.marks

\* A nested worker has something to report.
HasParts(script, id, passed) ==
    \E s \in ToSet(script) : id \in s.when /\ s.when \ {id} \subseteq passed

-----------------------------------------------------------------------------
(* What is sure, when only the steps of the cases in hit may go wrong. *)

\* An earlier step may have ended the callable that a step is in.
Skippable(script, hit, i) ==
    \E j \in 1 .. i :
        /\ script[j].op \in {"equal", "bare", "init"} /\ script[j].in # "none"
        /\ script[j].id \in hit
        /\ \A k \in j .. i - 1 : ~ (script[k].op = "close" /\ script[k].id = script[j].in)

\* A step is sure to pass, or to be left out, after what is known to be recorded.
Certain(script, hit, known, i) ==
    /\ script[i].id \notin hit /\ ~ Skippable(script, hit, i)
    /\ script[i].unless = {}
    /\ script[i].when \cup script[i].given \subseteq PassedIn(known)
    /\ script[i].op = "spawn" => HasParts(script, script[i].id, PassedIn(known))
LeftOut(script, known, i) ==
    script[i].unless # {} /\ script[i].unless \subseteq PassedIn(known)

\* What a step that passes records.
Adds(s) ==
    CASE s.op \in {"check", "equal", "close", "adopt", "probe", "sum"} -> <<Case(s.id, "pass")>>
      [] s.op = "fact" -> <<Observation(s.id, "pass")>>
      [] s.op = "unsupported" -> <<Case(s.id, "unsupported")>>
      [] OTHER -> <<>>
Marks(s) == IF s.op = "spawn" THEN {s.id} ELSE {}

Onward(script, hit, known, i) ==
    [known EXCEPT !.cases = IF Certain(script, hit, known, i) THEN @ \o Adds(script[i]) ELSE @,
                      !.marks = IF Certain(script, hit, known, i) THEN @ \cup Marks(script[i]) ELSE @]

\* What is sure to be recorded after each step, from none of them to all.
Sure(script, hit) ==
    LET known[i \in 0 .. Len(script)] ==
          IF i = 0 THEN [cases |-> <<>>, marks |-> {}]
                   ELSE Onward(script, hit, known[i - 1], i)
    IN  known

\* A group in which nothing goes wrong comes to its end, each of its steps done or
\* left out, and then has each case once and every required case as a pass.
Complete(g) ==
    LET script == Script[g]
        known == Sure(script, {})
        cases == known[Len(script)].cases
    IN  /\ \A i \in DOMAIN script :
            \/ LeftOut(script, known[i - 1], i)
            \/ /\ Certain(script, {}, known[i - 1], i)
               /\ script[i].op # "stop"
               /\ script[i].op = "block" =>
                    ToSet(script[i].ids) \subseteq {c.id : c \in ToSet(known[i - 1].cases)}
        /\ cases # <<>>
        /\ \A i, j \in DOMAIN cases : cases[i].id = cases[j].id => i = j
        /\ \A id \in Required[g] : \E c \in ToSet(cases) : c = Case(id, "pass")

\* The cases of the other objects, for each object of a group.
Others(g) == {<<f, UNION (Families[g] \ {f}) \ f>> : f \in Families[g]}

\* Whatever goes wrong with other objects, the group does not stop before its end,
\* and the required cases of an object pass.
Independent(g) ==
    \A x \in Others(g) :
        LET script == Script[g]
            known == Sure(script, x[2])
        IN  /\ \A i \in DOMAIN script :
                script[i].op = "stop" => LeftOut(script, known[i - 1], i)
            /\ \A id \in x[1] \cap Required[g] :
                \E c \in ToSet(known[Len(script)].cases) : c.id = id /\ c.status = "pass"

\* So are the group functions of the code.
ASSUME CompleteAssumption == \A g \in ToSet(Groups) : Complete(g)
ASSUME IndependentAssumption == \A g \in ToSet(Groups) : Independent(g)
=============================================================================
