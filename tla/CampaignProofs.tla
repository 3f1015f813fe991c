--------------------------- MODULE CampaignProofs ---------------------------
(***************************************************************************)
(* Proofs about Campaign, for any groups and scripts, any number of faults *)
(* of a worker, and workers that die, hang or are killed at any point.     *)
(*                                                                         *)
(* What is lost between a fault and the verdict of its group is nothing:   *)
(* WorkerInv says that while the worker of a group that met a fault is     *)
(* there, its cases or its exit code show it, and that the result file of  *)
(* a worker that ended well has all of its cases.                          *)
(*                                                                         *)
(* What faults leave alone is not lost either. Sure (see Scripts) is a     *)
(* run of a script without a worker, in which only given cases may go      *)
(* wrong. Exact says that the worker of a group without a fault has just   *)
(* what such a run has, where it stands; Spared, that any worker that may  *)
(* come to its end has at least what is sure whatever happens to the       *)
(* objects that met a fault. This part takes from the scripts what Scripts *)
(* assumes of them.                                                        *)
(***************************************************************************)
EXTENDS Campaign, FiniteSetTheorems, SequenceTheorems, WellFoundedInduction, TLAPS

\* The groups whose turn is over.
Before == {Groups[i] : i \in 1..turn - 1}

IsWorker(w) ==
  /\ w = [phase |-> w.phase, script |-> w.script, pc |-> w.pc, cases |-> w.cases,
          marks |-> w.marks, session |-> w.session, code |-> w.code]
  /\ w.phase \in {"new", "running", "cleanup", "deliver", "delivered", "exited"}
  /\ w.script = Script[Group]
  /\ w.pc \in 1..Len(w.script) + 1
  /\ w.cases \in Seq(ToSet(w.cases))

\* What keeps a case, and a worker, from passing.
IsCase(c) == c = [id |-> c.id, status |-> c.status, observation |-> c.observation]
Spoils(c) == IsCase(c) /\ c.status \in {"fail", "malformed", "blocked"}
Spoilt(w) == w.code # 0 \/ \E c \in ToSet(w.cases) : Spoils(c)

\* What the parent has done so far.
TurnInv ==
  /\ turn \in 1..Len(Groups) + 1
  /\ selected \subseteq ToSet(Groups)
  /\ worker = Idle \/ (turn <= Len(Groups) /\ Group \in launched /\ IsWorker(worker))
  /\ DOMAIN status = selected \cap Before
  /\ flawed \subseteq launched
  /\ launched \subseteq selected \cap (Before \cup IF worker = Idle THEN {} ELSE {Group})

\* A fault shows in the worker, and the worker's cases in its file.
WorkerInv ==
  worker # Idle =>
  /\ Group \in flawed => Spoilt(worker)
  /\ worker.phase = "delivered" \/ (worker.phase = "exited" /\ worker.code = 0) =>
       file.cases = worker.cases

ReportInv ==
  /\ \A g \in DOMAIN status : status[g] = "pass" => g \in launched \ flawed
  /\ "lifecycle" \in flawed => launched = {"lifecycle"}
  /\ result # "none" => worker = Idle
  /\ result \notin {"none", "raised"} => turn > Len(Groups)
  /\ result = "PASS" => \A g \in DOMAIN status : status[g] = "pass"

CampaignInv == TurnInv /\ WorkerInv /\ ReportInv

-----------------------------------------------------------------------------
(* Sequences and numbers *)

LEMMA Least ==
  ASSUME NEW T, T \subseteq Nat, T # {}
  PROVE  \E m \in T : \A n \in T : m <= n
<1>1. PICK m \in T : \A n \in T : <<n, m>> \notin OpToRel(<, Nat)
  BY NatLessThanWellFounded, WFMin
<1>2. ASSUME NEW n \in T, n < m PROVE FALSE
  <2>1. <<n, m>> \in OpToRel(<, Nat)
    BY <1>2 DEF OpToRel
  <2> QED BY <1>1, <2>1
<1> QED BY <1>2

\* What is recorded stays recorded.
LEMMA Grown ==
  ASSUME NEW s, s \in Seq(ToSet(s)), NEW t, t \in Seq(ToSet(t))
  PROVE  s \o t \in Seq(ToSet(s \o t)) /\ ToSet(s \o t) = ToSet(s) \cup ToSet(t)
<1> DEFINE u == s \o t
           S == ToSet(s) \cup ToSet(t)
<1>1. s \in Seq(S) /\ t \in Seq(S)
  BY SeqMonotonic
<1>2. /\ u \in Seq(S) /\ Len(u) = Len(s) + Len(t) /\ Len(s) \in Nat /\ Len(t) \in Nat
      /\ \A i \in 1..Len(u) : u[i] = IF i <= Len(s) THEN s[i] ELSE t[i - Len(s)]
  BY <1>1, ConcatProperties, LenProperties
<1>3. DOMAIN s = 1..Len(s) /\ DOMAIN t = 1..Len(t) /\ DOMAIN u = 1..Len(u)
  BY <1>2, LenProperties
<1> HIDE DEF u
<1>4. \A i \in DOMAIN u : u[i] \in S
  BY <1>2, <1>3 DEF ToSet
<1>5. \A i \in DOMAIN s : i \in DOMAIN u /\ u[i] = s[i]
  BY <1>2, <1>3
<1>6. \A i \in DOMAIN t : i + Len(s) \in DOMAIN u /\ u[i + Len(s)] = t[i]
  <2> TAKE i \in DOMAIN t
  <2>1. i + Len(s) \in 1..Len(u) /\ ~(i + Len(s) <= Len(s)) /\ (i + Len(s)) - Len(s) = i
    BY <1>2, <1>3
  <2> QED BY <1>2, <1>3, <2>1
<1>7. ToSet(u) = S
  <2>1. ToSet(u) \subseteq S
    BY <1>4 DEF ToSet
  <2>2. \A x \in ToSet(s) : x \in ToSet(u)
    BY <1>5 DEF ToSet
  <2>3. \A x \in ToSet(t) : x \in ToSet(u)
    BY <1>6 DEF ToSet
  <2> QED BY <2>1, <2>2, <2>3
<1> QED BY <1>2, <1>7 DEF u

LEMMA Single ==
  ASSUME NEW c
  PROVE  <<c>> \in Seq(ToSet(<<c>>)) /\ ToSet(<<c>>) = {c}
<1>1. DOMAIN <<c>> = {1} /\ <<c>>[1] = c
  OBVIOUS
<1>2. ToSet(<<c>>) = {c}
  BY <1>1 DEF ToSet
<1>3. <<c>> \in Seq({c})
  OBVIOUS
<1> QED BY <1>2, <1>3

LEMMA Appended ==
  ASSUME NEW s, s \in Seq(ToSet(s)), NEW c
  PROVE  Append(s, c) \in Seq(ToSet(Append(s, c))) /\ ToSet(Append(s, c)) = ToSet(s) \cup {c}
<1> DEFINE t == Append(s, c)
           S == ToSet(s) \cup {c}
<1>1. s \in Seq(S) /\ c \in S
  BY SeqMonotonic
<1>2. /\ t \in Seq(S) /\ Len(t) = Len(s) + 1 /\ Len(s) \in Nat
      /\ \A i \in 1..Len(s) : t[i] = s[i]
      /\ t[Len(s) + 1] = c
  BY <1>1, AppendProperties, LenProperties
<1>3. DOMAIN s = 1..Len(s) /\ DOMAIN t = 1..(Len(s) + 1)
  BY <1>2, LenProperties
<1> HIDE DEF t
<1>4. ToSet(t) = S
  BY <1>2, <1>3 DEF ToSet
<1> QED BY <1>2, <1>4 DEF t

-----------------------------------------------------------------------------
(* The order of the groups *)

LEMMA GroupFacts ==
  ASSUME turn \in 1..Len(Groups)
  PROVE  /\ Group \in ToSet(Groups) /\ Group \notin Before
         /\ Group = "lifecycle" => turn = 1
         /\ Group # "lifecycle" => Group \in DependentGroups
         /\ IsScript(Script[Group])
<1>1. Len(Groups) \in Nat /\ DOMAIN Groups = 1..Len(Groups)
  BY GroupsAssumption, LenProperties
<1>2. \A i, j \in 1..Len(Groups) : Groups[i] = Groups[j] => i = j
  BY <1>1, GroupsAssumption DEF IsInjective
<1>3. Group \in ToSet(Groups)
  BY <1>1 DEF Group, ToSet
<1>4. \A i \in 1..turn - 1 : i \in 1..Len(Groups) /\ i # turn
  BY <1>1
<1>5. Group \notin Before
  BY <1>2, <1>4 DEF Group, Before
<1>6. Group = "lifecycle" => turn = 1
  <2>1. 1 \in 1..Len(Groups) /\ Groups[1] = "lifecycle"
    BY <1>1, GroupsAssumption
  <2> QED BY <1>2, <2>1 DEF Group
<1> QED BY <1>3, <1>5, <1>6, GroupsAssumption DEF DependentGroups

\* The next turn.
LEMMA NextTurn ==
  ASSUME turn \in 1..Len(Groups), turn' = turn + 1
  PROVE  turn' \in 1..Len(Groups) + 1 /\ Before' = Before \cup {Group}
<1>1. Len(Groups) \in Nat
  BY GroupsAssumption, LenProperties
<1>2. 1..turn' - 1 = (1..turn - 1) \cup {turn}
  BY <1>1
<1>3. turn' \in 1..Len(Groups) + 1
  BY <1>1
<1>4. Before' = {Groups[i] : i \in 1..turn' - 1}
  BY DEF Before
<1> QED BY <1>2, <1>3, <1>4 DEF Before, Group

\* When no group is left, every group had its turn.
LEMMA AllBefore ==
  ASSUME turn \in 1..Len(Groups) + 1, turn > Len(Groups)
  PROVE  Before = ToSet(Groups)
<1>1. Len(Groups) \in Nat /\ DOMAIN Groups = 1..Len(Groups)
  BY GroupsAssumption, LenProperties
<1>2. 1..turn - 1 = DOMAIN Groups
  BY <1>1
<1> QED BY <1>2 DEF Before, ToSet

-----------------------------------------------------------------------------
(* The worker *)

\* The next step of a script is one of its steps, or its end.
LEMMA PcFacts ==
  ASSUME IsWorker(worker), IsScript(worker.script)
  PROVE  /\ Pc \in 1..Len(worker.script) + 1 /\ Len(worker.script) \in Nat
         /\ Pc \in worker.pc..Len(worker.script) + 1
         /\ ~Ended => Runs(Now)
         /\ \A i \in worker.pc..Pc - 1 : ~Runs(worker.script[i])
         /\ ~Ended => Pc \in 1..Len(worker.script) /\ Now.ids \in Seq(ToSet(Now.ids))
<1> DEFINE script == worker.script
           P(j) == j <= Len(script) => Runs(script[j])
           T == {j \in worker.pc..Len(script) + 1 : P(j)}
<1>1. Len(script) \in Nat /\ DOMAIN script = 1..Len(script) /\ worker.pc \in 1..Len(script) + 1
  BY LenProperties DEF IsWorker, IsScript
<1>2. \E j \in worker.pc..Len(script) + 1 : P(j) /\ \A i \in worker.pc..j - 1 : ~P(i)
  <2>1. Len(script) + 1 \in T /\ T \subseteq Nat
    BY <1>1
  <2> HIDE DEF T
  <2>2. PICK m \in T : \A n \in T : m <= n
    BY <2>1, Least
  <2>3. m \in worker.pc..Len(script) + 1 /\ P(m)
    BY DEF T
  <2>4. \A i \in worker.pc..m - 1 : i \in worker.pc..Len(script) + 1 /\ ~(m <= i)
    BY <1>1, <2>3
  <2>5. \A i \in worker.pc..m - 1 : ~P(i)
    BY <2>2, <2>4 DEF T
  <2> QED BY <2>3, <2>5
<1>3. \E j \in worker.pc..Len(script) + 1 :
        /\ j <= Len(script) => Runs(script[j])
        /\ \A i \in worker.pc..j - 1 : ~Runs(script[i])
  BY <1>2
<1>4. /\ Pc \in worker.pc..Len(script) + 1
      /\ Pc <= Len(script) => Runs(script[Pc])
      /\ \A i \in worker.pc..Pc - 1 : ~Runs(script[i])
  BY <1>3 DEF Pc
<1>5. Pc \in 1..Len(script) + 1
  BY <1>1, <1>4
<1>6. ~Ended => Pc \in 1..Len(script)
  BY <1>1, <1>5 DEF Ended
<1>7. ~Ended => Runs(Now)
  BY <1>4, <1>6 DEF Now
<1> QED BY <1>1, <1>4, <1>5, <1>6, <1>7 DEF Now, IsScript

\* A step of the worker that leaves the parent where it is.
Moved ==
  /\ ParentWaits
  /\ worker # Idle /\ IsWorker(worker)'
  /\ flawed' \in {flawed, flawed \cup {Group}}
  /\ WorkerInv'

\* The worker with other fields.
With(phase, pc, cases, marks, session, code) ==
  [phase |-> phase, script |-> worker.script, pc |-> pc, cases |-> cases,
   marks |-> marks, session |-> session, code |-> code]

\* A fault shows in the cases of S, or nothing went wrong.
Shown(S) == Fine \/ (flawed' = flawed \cup {Group} /\ \E c \in S : Spoils(c))

\* The worker keeps its cases, and gets those of S.
LEMMA Kept ==
  ASSUME TurnInv, WorkerInv, worker # Idle, ParentWaits, NEW S, Shown(S),
         NEW phase \in {"running", "cleanup", "deliver"},
         NEW pc \in 1..Len(worker.script) + 1,
         NEW cases, cases \in Seq(ToSet(cases)), ToSet(cases) = ToSet(worker.cases) \cup S,
         NEW marks, NEW session, NEW code, code # 0 \/ code = worker.code,
         worker' = With(phase, pc, cases, marks, session, code)
  PROVE  Moved
<1>1. IsWorker(worker)
  BY DEF TurnInv
<1>2. Group' = Group
  BY DEF Group, ParentWaits
<1>3. /\ worker' = [phase |-> worker'.phase, script |-> worker'.script, pc |-> worker'.pc,
                    cases |-> worker'.cases, marks |-> worker'.marks,
                    session |-> worker'.session, code |-> worker'.code]
      /\ worker'.phase = phase /\ worker'.script = worker.script /\ worker'.pc = pc
      /\ worker'.cases = cases /\ worker'.code = code
  <2>1. worker' = [phase |-> phase, script |-> worker.script, pc |-> pc, cases |-> cases,
                   marks |-> marks, session |-> session, code |-> code]
    BY DEF With
  <2> QED BY ONLY <2>1
<1>4. IsWorker(worker)'
  BY <1>1, <1>2, <1>3 DEF IsWorker
<1>5. flawed' \in {flawed, flawed \cup {Group}}
  BY DEF Shown, Fine
<1>6. Group \in flawed' => Spoilt(worker')
  <2>1. CASE Fine
    BY <1>1, <1>3, <2>1 DEF Fine, WorkerInv, Spoilt
  <2>2. CASE \E c \in S : Spoils(c)
    BY <1>3, <2>2 DEF Spoilt
  <2> QED BY <2>1, <2>2 DEF Shown
<1>7. WorkerInv'
  BY <1>2, <1>3, <1>6 DEF WorkerInv
<1> QED BY <1>1, <1>4, <1>5, <1>7 DEF Moved

\* What the steps do to the record of a worker.
LEMMA WorkerFields ==
  ASSUME IsWorker(worker), NEW x, NEW y
  PROVE  /\ [worker EXCEPT !.phase = x] =
              With(x, worker.pc, worker.cases, worker.marks, worker.session, worker.code)
         /\ [worker EXCEPT !.phase = x, !.session = y] =
              With(x, worker.pc, worker.cases, worker.marks, y, worker.code)
         /\ [worker EXCEPT !.phase = x, !.cases = y] =
              With(x, worker.pc, y, worker.marks, worker.session, worker.code)
         /\ [worker EXCEPT !.phase = x, !.code = y] =
              With(x, worker.pc, worker.cases, worker.marks, worker.session, y)
         /\ [worker EXCEPT !.cases = x, !.pc = y] =
              With(worker.phase, y, x, worker.marks, worker.session, worker.code)
<1>1. worker = [phase |-> worker.phase, script |-> worker.script, pc |-> worker.pc,
                cases |-> worker.cases, marks |-> worker.marks, session |-> worker.session,
                code |-> worker.code]
  BY DEF IsWorker
<1>2. [worker EXCEPT !.phase = x] =
        With(x, worker.pc, worker.cases, worker.marks, worker.session, worker.code)
  BY ONLY <1>1 DEF With
<1>3. [worker EXCEPT !.phase = x, !.session = y] =
        With(x, worker.pc, worker.cases, worker.marks, y, worker.code)
  <2> DEFINE r == [worker EXCEPT !.phase = x]
  <2>1. r = [phase |-> x, script |-> worker.script, pc |-> worker.pc, cases |-> worker.cases,
         marks |-> worker.marks, session |-> worker.session, code |-> worker.code]
    BY ONLY <1>1
  <2>2. [worker EXCEPT !.phase = x, !.session = y] = [r EXCEPT !.session = y]
    OBVIOUS
  <2> HIDE DEF r
  <2>3. [r EXCEPT !.session = y] = With(x, worker.pc, worker.cases, worker.marks, y, worker.code)
    BY ONLY <2>1 DEF With
  <2> QED BY <2>2, <2>3
<1>4. [worker EXCEPT !.phase = x, !.cases = y] =
        With(x, worker.pc, y, worker.marks, worker.session, worker.code)
  <2> DEFINE r == [worker EXCEPT !.phase = x]
  <2>1. r = [phase |-> x, script |-> worker.script, pc |-> worker.pc, cases |-> worker.cases,
         marks |-> worker.marks, session |-> worker.session, code |-> worker.code]
    BY ONLY <1>1
  <2>2. [worker EXCEPT !.phase = x, !.cases = y] = [r EXCEPT !.cases = y]
    OBVIOUS
  <2> HIDE DEF r
  <2>3. [r EXCEPT !.cases = y] = With(x, worker.pc, y, worker.marks, worker.session, worker.code)
    BY ONLY <2>1 DEF With
  <2> QED BY <2>2, <2>3
<1>5. [worker EXCEPT !.phase = x, !.code = y] =
        With(x, worker.pc, worker.cases, worker.marks, worker.session, y)
  <2> DEFINE r == [worker EXCEPT !.phase = x]
  <2>1. r = [phase |-> x, script |-> worker.script, pc |-> worker.pc, cases |-> worker.cases,
         marks |-> worker.marks, session |-> worker.session, code |-> worker.code]
    BY ONLY <1>1
  <2>2. [worker EXCEPT !.phase = x, !.code = y] = [r EXCEPT !.code = y]
    OBVIOUS
  <2> HIDE DEF r
  <2>3. [r EXCEPT !.code = y] = With(x, worker.pc, worker.cases, worker.marks, worker.session, y)
    BY ONLY <2>1 DEF With
  <2> QED BY <2>2, <2>3
<1>6. [worker EXCEPT !.cases = x, !.pc = y] =
        With(worker.phase, y, x, worker.marks, worker.session, worker.code)
  <2> DEFINE r == [worker EXCEPT !.cases = x]
  <2>1. r = [phase |-> worker.phase, script |-> worker.script, pc |-> worker.pc, cases |-> x,
         marks |-> worker.marks, session |-> worker.session, code |-> worker.code]
    BY ONLY <1>1
  <2>2. [worker EXCEPT !.cases = x, !.pc = y] = [r EXCEPT !.pc = y]
    OBVIOUS
  <2> HIDE DEF r
  <2>3. [r EXCEPT !.pc = y] = With(worker.phase, y, x, worker.marks, worker.session, worker.code)
    BY ONLY <2>1 DEF With
  <2> QED BY <2>2, <2>3
<1> QED BY <1>2, <1>3, <1>4, <1>5, <1>6

LEMMA RaisedFields ==
  ASSUME IsWorker(worker), NEW x, NEW y, NEW z
  PROVE  [worker EXCEPT !.cases = x, !.code = y, !.phase = z] =
           With(z, worker.pc, x, worker.marks, worker.session, y)
<1>1. worker = [phase |-> worker.phase, script |-> worker.script, pc |-> worker.pc,
                cases |-> worker.cases, marks |-> worker.marks, session |-> worker.session,
                code |-> worker.code]
  BY DEF IsWorker
<1> DEFINE r == [worker EXCEPT !.cases = x]
           s == [r EXCEPT !.code = y]
<1>2. r = [phase |-> worker.phase, script |-> worker.script, pc |-> worker.pc, cases |-> x,
       marks |-> worker.marks, session |-> worker.session, code |-> worker.code]
  BY ONLY <1>1
<1>3. [worker EXCEPT !.cases = x, !.code = y, !.phase = z] = [s EXCEPT !.phase = z]
  OBVIOUS
<1> HIDE DEF r
<1>4. s = [phase |-> worker.phase, script |-> worker.script, pc |-> worker.pc, cases |-> x,
       marks |-> worker.marks, session |-> worker.session, code |-> y]
  BY ONLY <1>2
<1> HIDE DEF s
<1>5. [s EXCEPT !.phase = z] = With(z, worker.pc, x, worker.marks, worker.session, y)
  BY ONLY <1>4 DEF With
<1> QED BY <1>3, <1>5

\* Where a script stands.
LEMMA InScriptFacts ==
  ASSUME TurnInv, NEW ops, InScript(ops)
  PROVE  /\ Running /\ ParentWaits /\ IsWorker(worker) /\ UNCHANGED file
         /\ Pc + 1 \in 1..Len(worker.script) + 1
         /\ Now.ids \in Seq(ToSet(Now.ids))
         /\ IsScript(worker.script) /\ Pc \in 1..Len(worker.script) /\ Len(worker.script) \in Nat
<1>1. Running /\ ~Ended /\ ParentWaits /\ UNCHANGED file
  BY DEF InScript
<1>2. IsWorker(worker) /\ turn \in 1..Len(Groups)
  <2>1. worker # Idle
    BY <1>1 DEF Running, Idle
  <2>2. Len(Groups) \in Nat
    BY GroupsAssumption, LenProperties
  <2> QED BY <2>1, <2>2 DEF TurnInv
<1>3. IsScript(worker.script)
  BY <1>2, GroupFacts DEF IsWorker
<1>4. Pc \in 1..Len(worker.script) /\ Len(worker.script) \in Nat /\ Now.ids \in Seq(ToSet(Now.ids))
  BY <1>1, <1>2, <1>3, PcFacts
<1> QED BY <1>1, <1>2, <1>3, <1>4

LEMMA RecordedFacts ==
  ASSUME IsWorker(worker), NEW t, NEW x
  PROVE  /\ Recorded(t) = With(worker.phase, Pc + 1, worker.cases \o t, worker.marks,
                               worker.session, worker.code)
         /\ [Recorded(t) EXCEPT !.session = x] =
              With(worker.phase, Pc + 1, worker.cases \o t, worker.marks, x, worker.code)
         /\ [Recorded(t) EXCEPT !.marks = x] =
              With(worker.phase, Pc + 1, worker.cases \o t, x, worker.session, worker.code)
         /\ Recorded(t).session = worker.session /\ Recorded(t).marks = worker.marks
<1> DEFINE r == Recorded(t)
           cases == worker.cases \o t
           pc == Pc + 1
<1>1. r = With(worker.phase, pc, cases, worker.marks, worker.session, worker.code)
  <2>1. r = [worker EXCEPT !.cases = cases, !.pc = pc]
    BY DEF Recorded
  <2> HIDE DEF r, cases, pc
  <2> QED BY <2>1, WorkerFields
<1>2. r = [phase |-> worker.phase, script |-> worker.script, pc |-> pc, cases |-> cases,
           marks |-> worker.marks, session |-> worker.session, code |-> worker.code]
  BY <1>1 DEF With
<1> HIDE DEF r, cases, pc
<1>3. [r EXCEPT !.session = x] = With(worker.phase, pc, cases, worker.marks, x, worker.code)
  BY ONLY <1>2 DEF With
<1>4. [r EXCEPT !.marks = x] = With(worker.phase, pc, cases, x, worker.session, worker.code)
  BY ONLY <1>2 DEF With
<1>5. r.session = worker.session /\ r.marks = worker.marks
  BY ONLY <1>2
<1> QED BY <1>1, <1>3, <1>4, <1>5 DEF r, cases, pc

LEMMA SpoilFacts ==
  ASSUME NEW id
  PROVE  /\ Spoils(Case(id, "fail")) /\ Spoils(Case(id, "malformed")) /\ Spoils(Case(id, "blocked"))
         /\ Spoils(Observation(id, "malformed"))
BY DEF Spoils, IsCase, Case, Observation

\* A step of the script records the cases of t.
LEMMA Records ==
  ASSUME TurnInv, WorkerInv, NEW ops, InScript(ops), NEW t, t \in Seq(ToSet(t)),
         Shown(ToSet(t)), NEW marks, NEW session,
         worker' = With(worker.phase, Pc + 1, worker.cases \o t, marks, session, worker.code)
  PROVE  Moved
<1>1. /\ worker # Idle /\ ParentWaits /\ IsWorker(worker) /\ worker.phase = "running"
      /\ Pc + 1 \in 1..Len(worker.script) + 1
  BY InScriptFacts DEF Running, Idle
<1>2. /\ worker.cases \o t \in Seq(ToSet(worker.cases \o t))
      /\ ToSet(worker.cases \o t) = ToSet(worker.cases) \cup ToSet(t)
  BY <1>1, Grown DEF IsWorker
<1> DEFINE cases == worker.cases \o t
           S == ToSet(t)
<1> HIDE DEF cases, S
<1>3. /\ cases \in Seq(ToSet(cases)) /\ ToSet(cases) = ToSet(worker.cases) \cup S /\ Shown(S)
      /\ worker' = With(worker.phase, Pc + 1, cases, marks, session, worker.code)
  BY <1>2 DEF cases, S
<1> QED BY <1>1, <1>3, Kept

LEMMA RecordsOne ==
  ASSUME TurnInv, WorkerInv, NEW ops, InScript(ops), NEW c,
         worker' = Recorded(<<c>>), Fine \/ (flawed' = flawed \cup {Group} /\ Spoils(c))
  PROVE  Moved
<1>1. <<c>> \in Seq(ToSet(<<c>>)) /\ ToSet(<<c>>) = {c}
  BY Single
<1>2. Shown(ToSet(<<c>>))
  BY <1>1 DEF Shown
<1>3. worker' = With(worker.phase, Pc + 1, worker.cases \o <<c>>, worker.marks,
                     worker.session, worker.code)
  BY InScriptFacts, RecordedFacts
<1> QED BY <1>1, <1>2, <1>3, Records

LEMMA PassMoves ==
  ASSUME TurnInv, WorkerInv, Pass
  PROVE  Moved
<1> DEFINE t == <<Case(Now.id, "pass")>>
           session == CASE Now.id = "initialize" -> TRUE
                        [] Now.id = "finalize" -> FALSE
                        [] OTHER -> worker.session
<1>1. InScript({"check", "equal", "close", "adopt", "probe"}) /\ Fine
      /\ worker' = [Recorded(t) EXCEPT !.session = session]
  <2>1. Recorded(t).session = worker.session
    BY InScriptFacts, RecordedFacts DEF Pass
  <2> QED BY <2>1 DEF Pass
<1>2. t \in Seq(ToSet(t))
  BY Single
<1> HIDE DEF session, t
<1>3. worker' = With(worker.phase, Pc + 1, worker.cases \o t, worker.marks, session, worker.code)
  BY <1>1, InScriptFacts, RecordedFacts
<1>4. Shown(ToSet(t))
  BY <1>1 DEF Shown
<1> QED BY <1>1, <1>2, <1>3, <1>4, Records

LEMMA FailMoves ==
  ASSUME TurnInv, WorkerInv, Fail
  PROVE  Moved
<1>1. /\ InScript({"check", "equal", "close", "adopt"})
      /\ worker' = Recorded(<<Case(Now.id, "fail")>>)
      /\ Fine \/ flawed' = flawed \cup {Group}
  BY DEF Fail, Fault
<1> QED BY <1>1, RecordsOne, SpoilFacts

LEMMA MalformMoves ==
  ASSUME TurnInv, WorkerInv, Malform
  PROVE  Moved
<1>1. InScript({"check", "equal", "adopt", "fact"}) /\ flawed' = flawed \cup {Group}
  BY DEF Malform, Fault
<1>2. CASE worker' = Recorded(<<Case(Now.of \o ":malformed", "fail")>>)
  BY <1>1, <1>2, RecordsOne, SpoilFacts
<1>3. CASE worker' = Recorded(<<Observation(Now.id, "malformed")>>)
  BY <1>1, <1>3, RecordsOne, SpoilFacts
<1>4. CASE worker' = Recorded(<<Case(Now.id, "malformed")>>)
  BY <1>1, <1>4, RecordsOne, SpoilFacts
<1> QED BY <1>2, <1>3, <1>4 DEF Malform

\* The callable a step runs in ends further on.
LEMMA RaisedFacts ==
  ASSUME TurnInv, NEW ops, InScript(ops), Now.in # "none"
  PROVE  \E end \in Pc..Len(worker.script) :
           /\ \A i \in Pc..end - 1 : ~EndsIt(i)
           /\ Raised = With(worker.phase, end + 1, Append(worker.cases, Case(Now.in, "fail")),
                            worker.marks, worker.session, worker.code)
<1> DEFINE script == worker.script
           T == {j \in Pc..Len(script) : EndsIt(j)}
<1>1. Pc \in 1..Len(script) /\ Len(script) \in Nat /\ DOMAIN script = 1..Len(script)
  BY InScriptFacts, LenProperties DEF IsScript
<1>2. T # {} /\ T \subseteq Nat
  <2>1. \E j \in Pc..Len(script) : script[j].op = "close" /\ script[j].id = Now.in
    BY <1>1, InScriptFacts DEF Now, IsScript
  <2>2. \A j \in Pc..Len(script) : j \in Nat
    BY <1>1
  <2> QED BY <2>1, <2>2 DEF EndsIt
<1> HIDE DEF T
<1>3. PICK m \in T : \A n \in T : m <= n
  BY <1>2, Least
<1>4. m \in Pc..Len(script) /\ EndsIt(m)
  BY DEF T
<1>5. \A i \in Pc..m - 1 : ~EndsIt(i)
  <2>1. \A i \in Pc..m - 1 : i \in Pc..Len(script) /\ ~(m <= i)
    <3>1. m \in Nat /\ Pc \in Nat /\ Pc <= m /\ m <= Len(script)
      BY <1>1, <1>4
    <3>2. \A i \in Pc..m - 1 : i \in Nat /\ Pc <= i /\ i <= m - 1
      BY <3>1
    <3> QED BY <1>1, <3>1, <3>2
  <2> QED BY <1>3, <2>1 DEF T
<1> DEFINE end == CHOOSE j \in Pc..Len(script) : EndsIt(j) /\ \A i \in Pc..j - 1 : ~EndsIt(i)
<1>6. end \in Pc..Len(script) /\ \A i \in Pc..end - 1 : ~EndsIt(i)
  BY <1>4, <1>5
<1> DEFINE cases == Append(worker.cases, Case(Now.in, "fail"))
           pc == end + 1
<1>7. Raised = [worker EXCEPT !.cases = cases, !.pc = pc]
  BY DEF Raised
<1>8. IsWorker(worker)
  BY InScriptFacts
<1> HIDE DEF cases, pc
<1>9. Raised = With(worker.phase, pc, cases, worker.marks, worker.session, worker.code)
  BY <1>7, <1>8, WorkerFields
<1> QED BY <1>6, <1>9 DEF cases, pc

LEMMA RaiseMoves ==
  ASSUME TurnInv, WorkerInv, Raise
  PROVE  Moved
<1>1. InScript({"equal", "bare", "init"}) /\ worker' = Raised /\ flawed' = flawed \cup {Group}
  BY DEF Raise, Fault
<1>2. /\ worker # Idle /\ ParentWaits /\ IsWorker(worker) /\ worker.phase = "running"
      /\ Pc \in 1..Len(worker.script) /\ Len(worker.script) \in Nat
  BY <1>1, InScriptFacts DEF Running, Idle
<1> DEFINE Added(c) == Append(worker.cases, c)
<1>3. \A c : /\ Added(c) \in Seq(ToSet(Added(c)))
             /\ ToSet(Added(c)) = ToSet(worker.cases) \cup {c}
  BY <1>2, Appended DEF IsWorker
<1>4. \A id : Shown({Case(id, "fail")})
  BY <1>1, SpoilFacts DEF Shown
<1>5. CASE Now.in = "none"
  <2> DEFINE c == Case("group_exception", "fail")
             cases == Added(c)
             S == {c}
             code == 32
             phase == "cleanup"
  <2>1. worker' = [worker EXCEPT !.cases = cases, !.code = code, !.phase = phase]
    BY <1>1, <1>5 DEF Raised
  <2>2. /\ cases \in Seq(ToSet(cases)) /\ ToSet(cases) = ToSet(worker.cases) \cup S /\ Shown(S)
        /\ code # 0 /\ phase \in {"running", "cleanup", "deliver"}
    BY <1>3, <1>4
  <2> HIDE DEF c, cases, S, code, phase
  <2>3. worker' = With(phase, worker.pc, cases, worker.marks, worker.session, code)
    BY <1>2, <2>1, RaisedFields
  <2>4. worker.pc \in 1..Len(worker.script) + 1
    BY <1>2 DEF IsWorker
  <2> QED BY <1>2, <2>2, <2>3, <2>4, Kept
<1>6. CASE Now.in # "none"
  <2> DEFINE c == Case(Now.in, "fail")
             cases == Added(c)
             S == {c}
  <2>1. PICK end \in Pc..Len(worker.script) :
          worker' = With(worker.phase, end + 1, cases, worker.marks, worker.session, worker.code)
    BY <1>1, <1>6, RaisedFacts
  <2>2. cases \in Seq(ToSet(cases)) /\ ToSet(cases) = ToSet(worker.cases) \cup S /\ Shown(S)
    BY <1>3, <1>4
  <2>3. end + 1 \in 1..Len(worker.script) + 1
    BY <1>2
  <2> HIDE DEF c, cases, S
  <2> QED BY <1>2, <2>1, <2>2, <2>3, Kept
<1> QED BY <1>5, <1>6

LEMMA QuietMoves ==
  ASSUME TurnInv, WorkerInv, Quiet
  PROVE  Moved
<1> DEFINE session == worker.session \/ Now.op = "init"
<1>1. /\ InScript({"bare", "init"}) /\ Fine
      /\ worker' = [Recorded(<<>>) EXCEPT !.session = session]
  <2>1. Recorded(<<>>).session = worker.session
    BY InScriptFacts, RecordedFacts DEF Quiet
  <2> QED BY <2>1 DEF Quiet
<1> HIDE DEF session
<1>2. worker' = With(worker.phase, Pc + 1, worker.cases \o <<>>, worker.marks, session, worker.code)
  BY <1>1, InScriptFacts, RecordedFacts
<1>3. <<>> \in Seq(ToSet(<<>>)) /\ Shown(ToSet(<<>>))
  BY <1>1 DEF Shown
<1> QED BY <1>1, <1>2, <1>3, Records

LEMMA ObserveMoves ==
  ASSUME TurnInv, WorkerInv, Observe
  PROVE  Moved
<1>1. InScript({"fact", "unsupported"}) /\ Fine
  BY DEF Observe
<1>2. CASE worker' = Recorded(<<Observation(Now.id, "pass")>>)
  BY <1>1, <1>2, RecordsOne
<1>3. CASE worker' = Recorded(<<Case(Now.id, "unsupported")>>)
  BY <1>1, <1>3, RecordsOne
<1> QED BY <1>2, <1>3 DEF Observe

LEMMA BlockedFacts ==
  ASSUME TurnInv, NEW ops, InScript(ops)
  PROVE  /\ Blocked(Now.ids) \in Seq(ToSet(Blocked(Now.ids)))
         /\ ToSet(Now.ids) \subseteq {c.id : c \in ToSet(worker.cases)} => Blocked(Now.ids) = <<>>
<1> DEFINE t == Blocked(Now.ids)
           absent == {i \in DOMAIN Now.ids : Now.ids[i] \notin {c.id : c \in ToSet(worker.cases)}}
           number == Cardinality(absent)
<1>1. number \in Nat
  <2>1. Now.ids \in Seq(ToSet(Now.ids))
    BY InScriptFacts
  <2>2. DOMAIN Now.ids = 1..Len(Now.ids) /\ Len(Now.ids) \in Nat
    BY <2>1, LenProperties
  <2>3. IsFiniteSet(DOMAIN Now.ids)
    BY <2>2, FS_Interval
  <2> QED BY <2>3, FS_Subset, FS_CardinalityType
<1>2. DOMAIN t = 1..number /\ t = [i \in 1..number |-> t[i]]
  BY DEF Blocked
<1>3. t \in Seq(ToSet(t))
  <2>1. \A i \in 1..number : t[i] \in ToSet(t)
    BY <1>2 DEF ToSet
  <2> HIDE DEF t, number
  <2> QED BY <1>1, <1>2, <2>1
<1>4. ASSUME ToSet(Now.ids) \subseteq {c.id : c \in ToSet(worker.cases)} PROVE t = <<>>
  <2>1. absent = {}
    BY <1>4 DEF ToSet
  <2>2. number = 0
    BY <2>1, FS_EmptySet
  <2> HIDE DEF t, number
  <2>3. Len(t) \in Nat /\ DOMAIN t = 1..Len(t)
    BY <1>3, LenProperties
  <2>4. 1..Len(t) = 1..0
    BY <1>2, <2>2, <2>3
  <2>5. Len(t) = 0
    <3>1. Len(t) > 0 => 1 \in 1..Len(t)
      BY <2>3
    <3> QED BY <2>3, <2>4, <3>1
  <2> QED BY <1>3, <2>5, EmptySeq
<1> QED BY <1>3, <1>4

LEMMA BlockMissingMoves ==
  ASSUME TurnInv, WorkerInv, BlockMissing
  PROVE  Moved
<1> DEFINE t == Blocked(Now.ids)
<1>1. InScript({"block"}) /\ Fine /\ worker' = Recorded(t)
  BY DEF BlockMissing
<1>2. t \in Seq(ToSet(t))
  BY <1>1, BlockedFacts
<1> HIDE DEF t
<1>3. worker' = With(worker.phase, Pc + 1, worker.cases \o t, worker.marks, worker.session, worker.code)
  BY <1>1, InScriptFacts, RecordedFacts
<1>4. Shown(ToSet(t))
  BY <1>1 DEF Shown
<1> QED BY <1>1, <1>2, <1>3, <1>4, Records

LEMMA SumUpMoves ==
  ASSUME TurnInv, WorkerInv, SumUp
  PROVE  Moved
<1>1. InScript({"sum"}) /\ Fine /\ \E c : worker' = Recorded(<<c>>)
  BY DEF SumUp
<1> QED BY <1>1, RecordsOne

LEMMA UnavailableMoves ==
  ASSUME TurnInv, WorkerInv, Unavailable
  PROVE  Moved
<1>1. /\ InScript({"probe"}) /\ flawed' = flawed \cup {Group}
      /\ worker' = Recorded(<<Case(Now.id, "blocked")>>)
  BY DEF Unavailable, Fault
<1> QED BY <1>1, RecordsOne, SpoilFacts

LEMMA SpawnMoves ==
  ASSUME TurnInv, WorkerInv, Spawn
  PROVE  Moved
<1> DEFINE marks == worker.marks \cup {Now.id}
<1>1. /\ InScript({"spawn"}) /\ Fine
      /\ worker' = [Recorded(<<>>) EXCEPT !.marks = marks]
  <2>1. Recorded(<<>>).marks = worker.marks
    BY InScriptFacts, RecordedFacts DEF Spawn
  <2> QED BY <2>1 DEF Spawn
<1> HIDE DEF marks
<1>2. worker' = With(worker.phase, Pc + 1, worker.cases \o <<>>, marks, worker.session, worker.code)
  BY <1>1, InScriptFacts, RecordedFacts
<1>3. <<>> \in Seq(ToSet(<<>>)) /\ Shown(ToSet(<<>>))
  BY <1>1 DEF Shown
<1> QED BY <1>1, <1>2, <1>3, Records

LEMMA SpawnFailsMoves ==
  ASSUME TurnInv, WorkerInv, SpawnFails
  PROVE  Moved
<1>1. /\ InScript({"spawn"})
      /\ Fine \/ flawed' = flawed \cup {Group}
      /\ worker' = Recorded(<<Case(Now.id, "fail")>>)
  BY DEF SpawnFails, Fault
<1> QED BY <1>1, RecordsOne, SpoilFacts


\* A step on to the next phase.
LEMMA PhaseMoves ==
  ASSUME TurnInv, WorkerInv, worker # Idle, ParentWaits, Fine,
         NEW phase \in {"running", "cleanup", "deliver"},
         worker' = [worker EXCEPT !.phase = phase]
  PROVE  Moved
<1> DEFINE cases == worker.cases
           code == worker.code
<1>1. IsWorker(worker)
  BY DEF TurnInv
<1>2. /\ Shown({}) /\ cases \in Seq(ToSet(cases)) /\ ToSet(cases) = ToSet(worker.cases) \cup {}
      /\ worker.pc \in 1..Len(worker.script) + 1 /\ code = worker.code
  BY <1>1 DEF Shown, IsWorker
<1>3. worker' = With(phase, worker.pc, cases, worker.marks, worker.session, code)
  BY <1>1, WorkerFields
<1> HIDE DEF cases, code
<1> QED BY <1>2, <1>3, Kept

LEMMA ReturnMoves ==
  ASSUME TurnInv, WorkerInv, Return
  PROVE  Moved
<1>1. /\ worker # Idle /\ ParentWaits /\ Fine
      /\ worker' = [worker EXCEPT !.phase = "cleanup"]
  BY DEF Return, Running, Idle
<1> QED BY <1>1, PhaseMoves

LEMMA ScriptMoves ==
  ASSUME TurnInv, WorkerInv, ScriptStep
  PROVE  Moved
BY PassMoves, FailMoves, MalformMoves, RaiseMoves, QuietMoves, ObserveMoves,
   BlockMissingMoves, SumUpMoves, UnavailableMoves, SpawnMoves, SpawnFailsMoves, ReturnMoves
   DEF ScriptStep

-----------------------------------------------------------------------------
(* The process around the script *)

LEMMA ConfigureMoves ==
  ASSUME TurnInv, WorkerInv, Configure
  PROVE  Moved
<1>1. /\ worker # Idle /\ ParentWaits /\ Fine
      /\ worker' = [worker EXCEPT !.phase = "running"]
  BY DEF Configure, Idle, Fine
<1> QED BY <1>1, PhaseMoves

LEMMA CleanUpMoves ==
  ASSUME TurnInv, WorkerInv, CleanUp
  PROVE  Moved
<1> DEFINE cases == worker.cases
           phase == "deliver"
           session == FALSE
<1>1. worker # Idle /\ ParentWaits /\ Fine /\ IsWorker(worker)
  BY DEF CleanUp, Idle, Fine, TurnInv
<1>2. worker' = [worker EXCEPT !.phase = phase, !.session = session]
  BY DEF CleanUp
<1>3. /\ Shown({}) /\ cases \in Seq(ToSet(cases)) /\ ToSet(cases) = ToSet(worker.cases) \cup {}
      /\ worker.pc \in 1..Len(worker.script) + 1 /\ phase \in {"running", "cleanup", "deliver"}
  BY <1>1 DEF Shown, IsWorker
<1> HIDE DEF phase, session
<1>4. worker' = With(phase, worker.pc, cases, worker.marks, session, worker.code)
  BY <1>1, <1>2, WorkerFields
<1> HIDE DEF cases
<1> QED BY <1>1, <1>3, <1>4, Kept

LEMMA CleanUpFailsMoves ==
  ASSUME TurnInv, WorkerInv, CleanUpFails
  PROVE  Moved
<1> DEFINE c == Case("finalize_in_cleanup", "fail")
           cases == Append(worker.cases, c)
           phase == "deliver"
<1>1. worker # Idle /\ ParentWaits /\ flawed' = flawed \cup {Group} /\ IsWorker(worker)
  BY DEF CleanUpFails, Idle, TurnInv
<1>2. worker' = [worker EXCEPT !.phase = phase, !.cases = cases]
  BY DEF CleanUpFails
<1>3. Shown({c})
  BY <1>1, SpoilFacts DEF Shown
<1> HIDE DEF c
<1>4. cases \in Seq(ToSet(cases)) /\ ToSet(cases) = ToSet(worker.cases) \cup {c}
  BY <1>1, Appended DEF IsWorker
<1>5. worker.pc \in 1..Len(worker.script) + 1 /\ phase \in {"running", "cleanup", "deliver"}
  BY <1>1 DEF IsWorker
<1> HIDE DEF phase, cases
<1>6. worker' = With(phase, worker.pc, cases, worker.marks, worker.session, worker.code)
  BY <1>1, <1>2, WorkerFields
<1> QED BY <1>1, <1>3, <1>4, <1>5, <1>6, Kept

\* A step that ends the process, or after which only its end is left.
LEMMA Ends ==
  ASSUME TurnInv, WorkerInv, worker # Idle, ParentWaits,
         flawed' \in {flawed, flawed \cup {Group}},
         NEW phase \in {"delivered", "exited"}, NEW code,
         code # 0 \/ (code = worker.code /\ flawed' = flawed /\ file'.cases = worker.cases),
         phase = "delivered" => file'.cases = worker.cases,
         worker' = With(phase, worker.pc, worker.cases, worker.marks, worker.session, code)
  PROVE  Moved
<1>1. IsWorker(worker)
  BY DEF TurnInv
<1>2. Group' = Group
  BY DEF Group, ParentWaits
<1>3. /\ worker' = [phase |-> worker'.phase, script |-> worker'.script, pc |-> worker'.pc,
                    cases |-> worker'.cases, marks |-> worker'.marks,
                    session |-> worker'.session, code |-> worker'.code]
      /\ worker'.phase = phase /\ worker'.script = worker.script /\ worker'.pc = worker.pc
      /\ worker'.cases = worker.cases /\ worker'.code = code
  <2>1. worker' = [phase |-> phase, script |-> worker.script, pc |-> worker.pc,
                   cases |-> worker.cases, marks |-> worker.marks,
                   session |-> worker.session, code |-> code]
    BY DEF With
  <2> QED BY ONLY <2>1
<1>4. IsWorker(worker)'
  BY <1>1, <1>2, <1>3 DEF IsWorker
<1>5. Group \in flawed' => Spoilt(worker')
  <2>1. CASE code # 0
    BY <1>3, <2>1 DEF Spoilt
  <2>2. CASE code = worker.code /\ flawed' = flawed
    BY <1>3, <2>2 DEF Spoilt, WorkerInv
  <2> QED BY <2>1, <2>2
<1>6. worker'.phase = "delivered" \/ (worker'.phase = "exited" /\ worker'.code = 0) =>
        file'.cases = worker'.cases
  BY <1>3
<1>7. WorkerInv'
  BY <1>2, <1>5, <1>6 DEF WorkerInv
<1> QED BY <1>4, <1>7 DEF Moved

LEMMA SetupFailsMoves ==
  ASSUME TurnInv, WorkerInv, SetupFails
  PROVE  Moved
<1> DEFINE phase == "exited"
<1>1. /\ worker # Idle /\ ParentWaits /\ flawed' = flawed \cup {Group} /\ IsWorker(worker)
      /\ phase \in {"delivered", "exited"} /\ phase # "delivered"
  BY DEF SetupFails, Idle, TurnInv
<1>2. PICK code \in {30, 31} : worker' = [worker EXCEPT !.phase = phase, !.code = code]
  BY DEF SetupFails, Exits
<1> HIDE DEF phase
<1>3. worker' = With(phase, worker.pc, worker.cases, worker.marks, worker.session, code)
  BY <1>1, <1>2, WorkerFields
<1>4. code # 0
  OBVIOUS
<1> QED BY <1>1, <1>3, <1>4, Ends

LEMMA DieMoves ==
  ASSUME TurnInv, WorkerInv, Die
  PROVE  Moved
<1> DEFINE phase == "exited"
           code == 1
<1>1. /\ worker # Idle /\ ParentWaits /\ flawed' = flawed \cup {Group} /\ IsWorker(worker)
      /\ phase \in {"delivered", "exited"} /\ phase # "delivered" /\ code # 0
  BY DEF Die, Idle, TurnInv
<1>2. worker' = [worker EXCEPT !.phase = phase, !.code = code]
  BY DEF Die, Exits
<1> HIDE DEF phase, code
<1>3. worker' = With(phase, worker.pc, worker.cases, worker.marks, worker.session, code)
  BY <1>1, <1>2, WorkerFields
<1> QED BY <1>1, <1>3, Ends

LEMMA DeliverMoves ==
  ASSUME TurnInv, WorkerInv, Deliver
  PROVE  Moved
<1> DEFINE phase == "delivered"
<1>1. /\ worker # Idle /\ ParentWaits /\ flawed' = flawed /\ IsWorker(worker)
      /\ file'.cases = worker.cases /\ phase \in {"delivered", "exited"}
  BY DEF Deliver, Idle, TurnInv, Fine
<1>2. worker' = [worker EXCEPT !.phase = phase]
  BY DEF Deliver
<1> HIDE DEF phase
<1>3. worker' = With(phase, worker.pc, worker.cases, worker.marks, worker.session, worker.code)
  BY <1>1, <1>2, WorkerFields
<1> QED BY <1>1, <1>3, Ends

LEMMA ExitMoves ==
  ASSUME TurnInv, WorkerInv, Exit
  PROVE  Moved
<1> DEFINE phase == "exited"
           code == worker.code
<1>1. /\ worker # Idle /\ ParentWaits /\ flawed' = flawed /\ IsWorker(worker)
      /\ file'.cases = worker.cases /\ phase \in {"delivered", "exited"}
      /\ phase # "delivered" /\ code = worker.code
  BY DEF Exit, Idle, TurnInv, WorkerInv
<1>2. worker' = [worker EXCEPT !.phase = phase, !.code = code]
  BY DEF Exit, Exits
<1> HIDE DEF phase, code
<1>3. worker' = With(phase, worker.pc, worker.cases, worker.marks, worker.session, code)
  BY <1>1, <1>2, WorkerFields
<1> QED BY <1>1, <1>3, Ends

\* Every step of a worker leaves the parent where it is, and is accounted for.
LEMMA WorkerMoves ==
  ASSUME TurnInv, WorkerInv, WorkerStep
  PROVE  Moved
BY ScriptMoves, ConfigureMoves, SetupFailsMoves, CleanUpMoves, CleanUpFailsMoves,
   DeliverMoves, ExitMoves, DieMoves DEF WorkerStep

-----------------------------------------------------------------------------
(* The turn of a group *)

LEMMA Lengths == Len(Groups) \in Nat
BY GroupsAssumption, LenProperties

LEMMA MovedKeeps ==
  ASSUME CampaignInv, Moved
  PROVE  CampaignInv'
<1>1. TurnInv /\ WorkerInv /\ ReportInv /\ ParentWaits /\ worker # Idle /\ IsWorker(worker)'
  BY DEF CampaignInv, Moved
<1>2. turn \in 1..Len(Groups) /\ Group \in launched
  BY <1>1, Lengths DEF TurnInv
<1>3. /\ turn' = turn /\ selected' = selected /\ status' = status /\ result' = result
      /\ launched' = launched /\ Group' = Group /\ Before' = Before
  BY <1>1 DEF ParentWaits, Group, Before
<1>4. worker' # Idle
  BY <1>1 DEF IsWorker, Idle
<1>5. flawed' \subseteq flawed \cup {Group} /\ Group \notin Before
  BY <1>2, GroupFacts DEF Moved
<1>6. TurnInv'
  BY <1>1, <1>2, <1>3, <1>4, <1>5 DEF TurnInv
<1>7. \A g \in DOMAIN status' : status'[g] = "pass" => g \in launched' \ flawed'
  BY <1>1, <1>3, <1>5 DEF TurnInv, ReportInv
<1>8. "lifecycle" \in flawed' => launched' = {"lifecycle"}
  <2>1. CASE "lifecycle" \in flawed
    BY <1>1, <1>3, <2>1 DEF ReportInv
  <2>2. CASE Group = "lifecycle"
    <3>1. turn = 1
      BY <1>2, <2>2, GroupFacts
    <3>2. Before = {}
      BY <3>1 DEF Before
    <3>3. launched \subseteq {Group}
      BY <1>1, <3>2 DEF TurnInv
    <3> QED BY <1>2, <1>3, <2>2, <3>3
  <2> QED BY <1>5, <2>1, <2>2
<1>9. result' = "none"
  BY <1>1, <1>3 DEF ReportInv
<1>10. ReportInv'
  BY <1>7, <1>8, <1>9 DEF ReportInv
<1> QED BY <1>6, <1>10 DEF CampaignInv, Moved

\* The status of a group is settled.
LEMMA TurnKeeps ==
  ASSUME CampaignInv, turn \in 1..Len(Groups), result = "none", Group \in selected,
         NEW s, Turn(s),
         launched' \in {launched, launched \cup {Group}},
         flawed' \in {flawed, flawed \cup {Group}}, flawed' \subseteq launched',
         s = "pass" => Group \in launched' \ flawed',
         "lifecycle" \in flawed' => launched' = {"lifecycle"}
  PROVE  CampaignInv'
<1>1. /\ turn' = turn + 1 /\ worker' = Idle
      /\ selected' = selected /\ result' = "none"
      /\ status' = [g \in DOMAIN status \cup {Group} |-> IF g = Group THEN s ELSE status[g]]
  BY DEF Turn
<1>2. TurnInv /\ ReportInv
  BY DEF CampaignInv
<1>3. turn' \in 1..Len(Groups) + 1 /\ Before' = Before \cup {Group}
  BY <1>1, NextTurn
<1>4. Group \notin Before
  BY GroupFacts
<1>5. DOMAIN status' = DOMAIN status \cup {Group}
  BY <1>1
<1>6. launched' \subseteq selected' \cap Before'
  BY <1>1, <1>2, <1>3 DEF TurnInv
<1>7. TurnInv'
  BY <1>1, <1>2, <1>3, <1>5, <1>6 DEF TurnInv
<1>8. WorkerInv'
  BY <1>1 DEF WorkerInv
<1>9. ASSUME NEW g \in DOMAIN status', status'[g] = "pass"
      PROVE  g \in launched' \ flawed'
  <2>1. CASE g = Group
    BY <1>1, <1>5, <1>9, <2>1
  <2>2. CASE g # Group
    <3>1. g \in DOMAIN status /\ status[g] = "pass"
      BY <1>1, <1>5, <1>9, <2>2
    <3> QED BY <1>2, <2>2, <3>1 DEF ReportInv
  <2> QED BY <2>1, <2>2
<1>10. ReportInv'
  BY <1>1, <1>9 DEF ReportInv
<1> QED BY <1>7, <1>8, <1>10 DEF CampaignInv

\* A group is launched only when lifecycle met no fault.
LEMMA LaunchFacts ==
  ASSUME CampaignInv, turn \in 1..Len(Groups), worker = Idle, ~LifecycleMissing
  PROVE  "lifecycle" \notin flawed /\ (Group = "lifecycle" => launched = {})
<1>1. TurnInv /\ ReportInv
  BY DEF CampaignInv
<1>2. launched \subseteq selected \cap Before /\ DOMAIN status = selected \cap Before
  BY <1>1 DEF TurnInv
<1>3. Group = "lifecycle" => launched = {}
  <2>1. turn = 1 => Before = {}
    BY DEF Before
  <2> QED BY <1>2, <2>1, GroupFacts
<1>4. ASSUME "lifecycle" \in flawed PROVE FALSE
  <2>1. "lifecycle" \in launched
    BY <1>1, <1>4 DEF TurnInv
  <2>2. Group \in DependentGroups
    BY <1>3, <2>1, GroupFacts
  <2>3. status["lifecycle"] = "pass" /\ "lifecycle" \in DOMAIN status
    BY <1>2, <2>1, <2>2 DEF LifecycleMissing
  <2> QED BY <1>1, <1>4, <2>3 DEF ReportInv
<1> QED BY <1>3, <1>4

LEMMA DecidingFacts ==
  ASSUME CampaignInv, Deciding
  PROVE  turn \in 1..Len(Groups) /\ worker = Idle /\ result = "none"
BY Lengths DEF CampaignInv, TurnInv, Deciding, Over

LEMMA SkipKeeps ==
  ASSUME CampaignInv, Skip
  PROVE  CampaignInv'
<1>1. /\ turn' = turn + 1 /\ Group \notin selected
      /\ UNCHANGED <<selected, status, result, worker, launched, flawed>>
  BY DEF Skip
<1>2. turn \in 1..Len(Groups) /\ worker = Idle /\ result = "none"
  BY DecidingFacts DEF Skip
<1>3. turn' \in 1..Len(Groups) + 1 /\ Before' = Before \cup {Group}
  BY <1>1, <1>2, NextTurn
<1>4. TurnInv /\ ReportInv
  BY DEF CampaignInv
<1>5. TurnInv'
  BY <1>1, <1>2, <1>3, <1>4 DEF TurnInv
<1>6. WorkerInv'
  BY <1>1, <1>2 DEF WorkerInv
<1>7. ReportInv'
  BY <1>1, <1>2, <1>4 DEF ReportInv
<1> QED BY <1>5, <1>6, <1>7 DEF CampaignInv

LEMMA WithholdKeeps ==
  ASSUME CampaignInv, Withhold
  PROVE  CampaignInv'
<1>1. /\ Group \in selected /\ Turn("blocked") /\ launched' = launched /\ flawed' = flawed
      /\ turn \in 1..Len(Groups) /\ result = "none"
  BY DecidingFacts DEF Withhold
<1>2. flawed \subseteq launched /\ ("lifecycle" \in flawed => launched = {"lifecycle"})
  BY DEF CampaignInv, TurnInv, ReportInv
<1> QED BY <1>1, <1>2, TurnKeeps

LEMMA LaunchKeeps ==
  ASSUME CampaignInv, Launch
  PROVE  CampaignInv'
<1>1. /\ Group \in selected /\ ~LifecycleMissing
      /\ launched' = launched \cup {Group} /\ worker' = Fresh
      /\ UNCHANGED <<selected, turn, status, result, flawed>>
  BY DEF Launch, Due
<1>2. turn \in 1..Len(Groups) /\ worker = Idle /\ result = "none"
  BY DecidingFacts DEF Launch, Due
<1>3. TurnInv /\ ReportInv /\ "lifecycle" \notin flawed
  BY <1>1, <1>2, LaunchFacts DEF CampaignInv
<1>4. Group' = Group /\ Before' = Before /\ Group \notin Before
  BY <1>1, <1>2, GroupFacts DEF Group, Before
<1>5. Len(Script[Group]) \in Nat
  BY <1>2, GroupFacts, LenProperties DEF IsScript
<1>6. /\ worker' = [phase |-> "new", script |-> Script[Group], pc |-> 1, cases |-> <<>>,
                    marks |-> {}, session |-> FALSE, code |-> 0]
      /\ <<>> \in Seq(ToSet(<<>>))
  BY <1>1 DEF Fresh
<1>7. /\ worker' = [phase |-> worker'.phase, script |-> worker'.script, pc |-> worker'.pc,
                    cases |-> worker'.cases, marks |-> worker'.marks,
                    session |-> worker'.session, code |-> worker'.code]
      /\ worker'.phase = "new" /\ worker'.script = Script[Group] /\ worker'.pc = 1
      /\ worker'.cases = <<>>
  BY ONLY <1>6
<1>8. IsWorker(worker)'
  <2>1. 1 \in 1..Len(Script[Group]) + 1
    BY <1>5
  <2> QED BY <1>4, <1>6, <1>7, <2>1 DEF IsWorker
<1>9. worker' # Idle
  BY <1>8 DEF IsWorker, Idle
<1>10. launched \subseteq selected \cap Before
  BY <1>2, <1>3 DEF TurnInv
<1>11. TurnInv'
  BY <1>1, <1>2, <1>3, <1>4, <1>8, <1>9, <1>10 DEF TurnInv
<1>12. Group \notin flawed
  BY <1>3, <1>4, <1>10 DEF TurnInv
<1>13. WorkerInv'
  BY <1>1, <1>4, <1>7, <1>12 DEF WorkerInv
<1>14. ReportInv'
  BY <1>1, <1>2, <1>3 DEF ReportInv
<1> QED BY <1>11, <1>13, <1>14 DEF CampaignInv

\* The parent ends without a report; what it knew of the groups stays.
LEMMA ScratchFailsKeeps ==
  ASSUME CampaignInv, ScratchFails
  PROVE  CampaignInv'
<1>1. /\ UNCHANGED <<selected, turn, status, worker, file, launched, flawed>>
      /\ result' = "raised" /\ worker = Idle
  BY DecidingFacts DEF ScratchFails, Due
<1>2. Group' = Group /\ Before' = Before
  BY <1>1 DEF Group, Before
<1>3. TurnInv'
  BY <1>1, <1>2 DEF CampaignInv, TurnInv
<1>4. WorkerInv'
  BY <1>1 DEF WorkerInv
<1>5. ReportInv'
  BY <1>1 DEF CampaignInv, ReportInv
<1> QED BY <1>3, <1>4, <1>5 DEF CampaignInv

LEMMA StartFailsKeeps ==
  ASSUME CampaignInv, StartFails
  PROVE  CampaignInv'
<1>1. /\ Group \in selected /\ Turn("fail") /\ ~LifecycleMissing
      /\ launched' = launched \cup {Group} /\ flawed' = flawed \cup {Group}
      /\ turn \in 1..Len(Groups) /\ worker = Idle /\ result = "none"
  BY DecidingFacts DEF StartFails, Due
<1>2. flawed \subseteq launched
  BY DEF CampaignInv, TurnInv
<1>3. "lifecycle" \in flawed' => launched' = {"lifecycle"}
  BY <1>1, LaunchFacts
<1> QED BY <1>1, <1>2, <1>3, TurnKeeps

\* The parent settles a group whose worker ran.
LEMMA SettledKeeps ==
  ASSUME CampaignInv, worker # Idle, NEW s, Turn(s), launched' = launched,
         \/ flawed' = flawed \cup {Group} /\ s # "pass"
         \/ flawed' = flawed /\ (s = "pass" => Group \notin flawed)
  PROVE  CampaignInv'
<1>1. TurnInv /\ ReportInv
  BY DEF CampaignInv
<1>2. /\ turn \in 1..Len(Groups) /\ Group \in launched /\ Group \in selected
      /\ result = "none"
  BY <1>1, Lengths DEF TurnInv, ReportInv
<1>3. flawed \subseteq launched
  BY <1>1 DEF TurnInv
<1>4. "lifecycle" \in flawed' => launched = {"lifecycle"}
  <2>1. CASE Group = "lifecycle"
    <3>1. Before = {}
      <4>1. turn = 1
        BY <1>2, <2>1, GroupFacts
      <4> QED BY <4>1 DEF Before
    <3>2. launched \subseteq {Group}
      BY <1>1, <3>1 DEF TurnInv
    <3> QED BY <1>2, <2>1, <3>2
  <2>2. CASE Group # "lifecycle"
    BY <1>1, <2>2 DEF ReportInv
  <2> QED BY <2>1, <2>2
<1> QED BY <1>2, <1>3, <1>4, TurnKeeps

LEMMA TimeoutKeeps ==
  ASSUME CampaignInv, Timeout
  PROVE  CampaignInv'
<1>1. worker # Idle /\ Turn("fail") /\ launched' = launched /\ flawed' = flawed \cup {Group}
  BY DEF Timeout, Patience, Idle
<1> QED BY <1>1, SettledKeeps

LEMMA UnreadableKeeps ==
  ASSUME CampaignInv, Unreadable
  PROVE  CampaignInv'
<1>1. worker # Idle /\ Turn("fail") /\ launched' = launched /\ flawed' = flawed \cup {Group}
  BY DEF Unreadable, Idle
<1> QED BY <1>1, SettledKeeps

\* What a group that passes cannot have.
LEMMA PassMeans ==
  ASSUME NEW cases, NEW code, NEW required, GroupStatus(cases, code, required) = "pass"
  PROVE  code = 0 /\ \A c \in ToSet(cases) : c.status # "fail" /\ c.status # "blocked"
<1>1. code = 0
  BY DEF GroupStatus
<1> DEFINE ids == {c.id : c \in ToSet(cases)}
<1>2. ~ \E c \in ToSet(cases) : c.id \in ids /\ c.status = "fail"
  BY DEF GroupStatus
<1>3. ~ \E c \in ToSet(cases) : c.id \in ids /\ c.status = "blocked"
  BY DEF GroupStatus
<1>4. \A c \in ToSet(cases) : c.id \in ids
  OBVIOUS
<1> QED BY <1>1, <1>2, <1>3, <1>4

\* A group that passes met no fault: its worker ended with 0 and delivered all
\* its cases, and one that spoils them is seen.
LEMMA JudgedFacts ==
  ASSUME TurnInv, WorkerInv, worker # Idle, worker.phase = "exited", Judged = "pass"
  PROVE  Group \notin flawed
<1> DEFINE cases == [i \in DOMAIN file.cases |-> Sanitized(file.cases[i])]
<1>1. GroupStatus(cases, worker.code, Required[Group]) = "pass"
  BY DEF Judged
<1> HIDE DEF cases
<1>2. worker.code = 0 /\ \A c \in ToSet(cases) : c.status # "fail" /\ c.status # "blocked"
  BY <1>1, PassMeans
<1>3. file.cases = worker.cases
  BY <1>2 DEF WorkerInv
<1>4. ASSUME NEW c \in ToSet(worker.cases), Spoils(c) PROVE FALSE
  <2>1. PICK i \in DOMAIN file.cases : file.cases[i] = c
    BY <1>3 DEF ToSet
  <2>2. Sanitized(c) \in ToSet(cases)
    <3>1. i \in DOMAIN cases /\ cases[i] = Sanitized(c)
      BY <2>1 DEF cases
    <3> QED BY <3>1 DEF ToSet
  <2>3. Sanitized(c).status \in {"fail", "blocked"}
    <3>1. CASE c.status = "malformed"
      <4>1. c = [id |-> c.id, status |-> c.status, observation |-> c.observation]
        BY <1>4 DEF Spoils, IsCase
      <4>2. [c EXCEPT !.status = "fail"].status = "fail"
        BY ONLY <4>1
      <4> QED BY <3>1, <4>2 DEF Sanitized
    <3>2. CASE c.status \in {"fail", "blocked"}
      BY <3>2 DEF Sanitized
    <3> QED BY <1>4, <3>1, <3>2 DEF Spoils
  <2> QED BY <1>2, <2>2, <2>3
<1> QED BY <1>2, <1>4 DEF WorkerInv, Spoilt

LEMMA CollectKeeps ==
  ASSUME CampaignInv, Collect
  PROVE  CampaignInv'
<1>1. /\ worker # Idle /\ worker.phase = "exited"
      /\ Turn(Judged) /\ launched' = launched /\ flawed' = flawed
  BY DEF Collect, Idle
<1>2. Judged = "pass" => Group \notin flawed
  BY <1>1, JudgedFacts DEF CampaignInv
<1> QED BY <1>1, <1>2, SettledKeeps

LEMMA ConcludeKeeps ==
  ASSUME CampaignInv, Conclude
  PROVE  CampaignInv'
<1>1. /\ turn > Len(Groups) /\ result' = Verdict
      /\ UNCHANGED <<selected, turn, status, worker, file, launched, flawed>>
  BY DEF Conclude, Over
<1>2. Group' = Group /\ Before' = Before
  BY <1>1 DEF Group, Before
<1>3. TurnInv /\ WorkerInv /\ ReportInv
  BY DEF CampaignInv
<1>4. worker = Idle
  BY <1>1, <1>3, Lengths DEF TurnInv
<1>5. TurnInv'
  BY <1>1, <1>2, <1>3, <1>4 DEF TurnInv
<1>6. WorkerInv'
  BY <1>1, <1>4 DEF WorkerInv
<1>7. result' = "PASS" => \A g \in DOMAIN status : status[g] = "pass"
  BY <1>1 DEF Verdict
<1>8. ReportInv'
  BY <1>1, <1>3, <1>4, <1>7 DEF ReportInv
<1> QED BY <1>5, <1>6, <1>8 DEF CampaignInv

-----------------------------------------------------------------------------
(* The theorems *)

LEMMA InitHolds ==
  ASSUME Init
  PROVE  CampaignInv
<1>1. /\ selected \subseteq ToSet(Groups) /\ turn = 1 /\ status = <<>> /\ result = "none"
      /\ worker = Idle /\ launched = {} /\ flawed = {}
  BY SelectionsAssumption DEF Init
<1>2. DOMAIN status = {}
  BY <1>1
<1>3. Before = {} /\ turn \in 1..Len(Groups) + 1
  BY <1>1, Lengths DEF Before
<1>4. TurnInv
  BY <1>1, <1>2, <1>3 DEF TurnInv
<1>5. WorkerInv
  BY <1>1 DEF WorkerInv
<1>6. ReportInv
  BY <1>1, <1>2 DEF ReportInv
<1> QED BY <1>4, <1>5, <1>6 DEF CampaignInv

LEMMA StepKeeps ==
  ASSUME CampaignInv, [Next]_vars
  PROVE  CampaignInv'
<1>1. CASE WorkerStep
  BY <1>1, WorkerMoves, MovedKeeps DEF CampaignInv
<1>2. CASE ParentStep
  BY <1>2, SkipKeeps, WithholdKeeps, LaunchKeeps, ScratchFailsKeeps, StartFailsKeeps, TimeoutKeeps,
     CollectKeeps, UnreadableKeeps, ConcludeKeeps DEF ParentStep
<1>3. CASE UNCHANGED vars
  BY <1>3 DEF CampaignInv, TurnInv, WorkerInv, ReportInv, IsWorker, Group, Before, vars
<1> QED BY <1>1, <1>2, <1>3 DEF Next

\* The invariant of the campaign: faults are known, to the worker or its group.
THEOREM CampaignInvariant == Spec => []CampaignInv
<1>1. Init => CampaignInv
  BY InitHolds
<1>2. CampaignInv /\ [Next]_vars => CampaignInv'
  BY StepKeeps
<1> QED BY <1>1, <1>2, PTL DEF Spec

\* Whatever goes wrong, in a step of a script, in the process of a worker or in
\* its result, its group does not pass (_run_child, sanitize_case and
\* _group_status), nor does a campaign with such a group; and the report of a
\* campaign has every group that was asked for.
THEOREM PassIsEarnedAlways == Spec => []PassIsEarned
<1>1. CampaignInv => PassIsEarned
  <2> SUFFICES ASSUME CampaignInv PROVE PassIsEarned
    OBVIOUS
  <2>1. TurnInv /\ ReportInv
    BY DEF CampaignInv
  <2>2. result \notin {"none", "raised"} => DOMAIN status = selected
    BY <2>1, AllBefore DEF TurnInv, ReportInv
  <2> QED BY <2>1, <2>2 DEF ReportInv, PassIsEarned
<1> QED BY <1>1, CampaignInvariant, PTL

\* No group is launched after a lifecycle that was asked for and met a fault
\* (the guard of run over DEPENDENT_GROUPS), however late the fault showed.
THEOREM LifecycleFirstAlways == Spec => []LifecycleFirst
<1>1. CampaignInv => LifecycleFirst
  BY DEF CampaignInv, ReportInv, LifecycleFirst
<1> QED BY <1>1, CampaignInvariant, PTL

-----------------------------------------------------------------------------
(* What is sure of a script *)

\* A set of numbers with 0 and the successor of each of its members has them all.
LEMMA Successors ==
  ASSUME NEW T, 0 \in T, \A n \in Nat : n \in T => n + 1 \in T
  PROVE  Nat \subseteq T
<1> SUFFICES ASSUME Nat \ T # {} PROVE FALSE
  OBVIOUS
<1>1. PICK m \in Nat \ T : \A n \in Nat \ T : m <= n
  BY Least
<1>2. m - 1 \in Nat /\ m - 1 \in T
  BY <1>1
<1> QED BY <1>1, <1>2

\* The recursion has a solution.
LEMMA SureSteps ==
  ASSUME NEW script, Len(script) \in Nat, NEW hit
  PROVE  /\ Sure(script, hit)[0] = [cases |-> <<>>, marks |-> {}]
         /\ \A i \in 1..Len(script) :
              Sure(script, hit)[i] = Onward(script, hit, Sure(script, hit)[i - 1], i)
<1> DEFINE Start == [cases |-> <<>>, marks |-> {}]
           Prefix(g, n) ==
             g = [i \in 0..n |-> IF i = 0 THEN Start ELSE Onward(script, hit, g[i - 1], i)]
           Known == {n \in Nat : \E g : Prefix(g, n)}
<1>1. 0 \in Known
  <2>1. Prefix([i \in 0..0 |-> Start], 0)
    OBVIOUS
  <2> QED BY <2>1
<1>2. ASSUME NEW n \in Nat, n \in Known PROVE n + 1 \in Known
  <2>1. PICK g : Prefix(g, n)
    BY <1>2
  <2> DEFINE h == [i \in 0..(n + 1) |-> IF i <= n THEN g[i] ELSE Onward(script, hit, g[n], n + 1)]
  <2> HIDE DEF Start
  <2>2. \A i \in 0..n : g[i] = IF i = 0 THEN Start ELSE Onward(script, hit, g[i - 1], i)
    BY <2>1
  <2>3. h[0] = Start /\ \A i \in 0..(n + 1) : i # 0 => h[i] = Onward(script, hit, h[i - 1], i)
    BY <2>2
  <2>4. \A i \in 0..(n + 1) : h[i] = IF i = 0 THEN Start ELSE Onward(script, hit, h[i - 1], i)
    BY <2>3
  <2>5. Prefix(h, n + 1)
    <3>1. h = [i \in 0..(n + 1) |-> h[i]]
      OBVIOUS
    <3> HIDE DEF h
    <3> QED BY <2>4, <3>1
  <2> HIDE DEF h, Prefix
  <2> QED BY <2>5
<1>3. \E g : Prefix(g, Len(script))
  <2> HIDE DEF Prefix
  <2> QED BY <1>1, <1>2, Successors
<1> DEFINE known == CHOOSE g : Prefix(g, Len(script))
<1>4. Sure(script, hit) = known
  BY DEF Sure
<1>5. Prefix(known, Len(script))
  BY <1>3
<1> HIDE DEF known, Start
<1>6. \A i \in 0..Len(script) :
        known[i] = IF i = 0 THEN Start ELSE Onward(script, hit, known[i - 1], i)
  BY <1>5
<1>7. \A i \in 1..Len(script) : i \in 0..Len(script) /\ i # 0
  OBVIOUS
<1>8. known[0] = Start /\ \A i \in 1..Len(script) : known[i] = Onward(script, hit, known[i - 1], i)
  BY <1>6, <1>7
<1> QED BY <1>4, <1>8 DEF Start

\* What is known to be recorded.
IsKnown(k) ==
  /\ k = [cases |-> k.cases, marks |-> k.marks]
  /\ k.cases \in Seq(ToSet(k.cases))
  /\ \A c \in ToSet(k.cases) : c.status \in {"pass", "unsupported"}

LEMMA AddsFacts ==
  ASSUME NEW s
  PROVE  /\ Adds(s) \in Seq(ToSet(Adds(s)))
         /\ \A c \in ToSet(Adds(s)) : c.status \in {"pass", "unsupported"}
<1>1. CASE Adds(s) = <<>>
  <2>1. ToSet(<<>>) = {}
    BY DEF ToSet
  <2> QED BY <1>1, <2>1
<1>2. ASSUME NEW c, Adds(s) = <<c>>, c.status \in {"pass", "unsupported"}
      PROVE  /\ Adds(s) \in Seq(ToSet(Adds(s)))
             /\ \A d \in ToSet(Adds(s)) : d.status \in {"pass", "unsupported"}
  BY <1>2, Single
<1>3. \A id : /\ Case(id, "pass").status = "pass"
              /\ Observation(id, "pass").status = "pass"
              /\ Case(id, "unsupported").status = "unsupported"
  BY DEF Case, Observation
<1>4. CASE s.op \in {"check", "equal", "close", "adopt", "probe", "sum"}
  BY <1>2, <1>3, <1>4 DEF Adds
<1>5. CASE s.op = "fact"
  BY <1>2, <1>3, <1>5 DEF Adds
<1>6. CASE s.op = "unsupported"
  BY <1>2, <1>3, <1>6 DEF Adds
<1>7. CASE s.op \notin {"check", "equal", "close", "adopt", "probe", "sum", "fact", "unsupported"}
  BY <1>1, <1>7 DEF Adds
<1> QED BY <1>4, <1>5, <1>6, <1>7

\* Concatenation by name, for a fact that is stated of all scripts.
Joined(s, t) == s \o t

LEMMA OnwardFacts ==
  ASSUME NEW script, NEW hit, NEW k, IsKnown(k), NEW i
  PROVE  /\ IsKnown(Onward(script, hit, k, i))
         /\ Certain(script, hit, k, i) =>
              /\ Onward(script, hit, k, i).cases = Joined(k.cases, Adds(script[i]))
              /\ Onward(script, hit, k, i).marks = k.marks \cup Marks(script[i])
         /\ ~Certain(script, hit, k, i) => Onward(script, hit, k, i) = k
<1> DEFINE certain == Certain(script, hit, k, i)
           cases == IF certain THEN k.cases \o Adds(script[i]) ELSE k.cases
           marks == IF certain THEN k.marks \cup Marks(script[i]) ELSE k.marks
<1>1. Onward(script, hit, k, i) = [cases |-> cases, marks |-> marks]
  <2> DEFINE r == [k EXCEPT !.cases = cases]
  <2>1. k = [cases |-> k.cases, marks |-> k.marks]
    BY DEF IsKnown
  <2>2. Onward(script, hit, k, i) = [r EXCEPT !.marks = marks]
    BY <2>1 DEF Onward
  <2> HIDE DEF cases, marks
  <2>3. r = [cases |-> cases, marks |-> k.marks]
    BY ONLY <2>1
  <2> HIDE DEF r
  <2>4. [r EXCEPT !.marks = marks] = [cases |-> cases, marks |-> marks]
    BY ONLY <2>3
  <2> QED BY <2>2, <2>4
<1>2. cases \in Seq(ToSet(cases)) /\ \A c \in ToSet(cases) : c.status \in {"pass", "unsupported"}
  <2>1. CASE certain
    BY <2>1, AddsFacts, Grown DEF IsKnown
  <2>2. CASE ~certain
    BY <2>2 DEF IsKnown
  <2> QED BY <2>1, <2>2
<1>3. IsKnown([cases |-> cases, marks |-> marks])
  <2> HIDE DEF cases, marks
  <2> QED BY <1>2 DEF IsKnown
<1> QED BY <1>1, <1>3 DEF IsKnown, Joined

LEMMA SureFacts ==
  ASSUME NEW script, Len(script) \in Nat, NEW hit, NEW n \in 0..Len(script)
  PROVE  IsKnown(Sure(script, hit)[n])
<1> DEFINE known == Sure(script, hit)
           T == {i \in Nat : i <= Len(script) => IsKnown(known[i])}
<1>1. /\ known[0] = [cases |-> <<>>, marks |-> {}]
      /\ \A i \in 1..Len(script) : known[i] = Onward(script, hit, known[i - 1], i)
  BY SureSteps
<1> HIDE DEF known
<1>2. 0 \in T
  <2> DEFINE k == known[0]
  <2>1. <<>> \in Seq(ToSet(<<>>)) /\ ToSet(<<>>) = {}
    BY DEF ToSet
  <2>2. k = [cases |-> <<>>, marks |-> {}]
    BY <1>1
  <2> HIDE DEF k
  <2>3. k = [cases |-> k.cases, marks |-> k.marks] /\ k.cases = <<>>
    BY ONLY <2>2
  <2>4. IsKnown(k)
    BY <2>1, <2>3 DEF IsKnown
  <2> QED BY <2>4 DEF k
<1>3. ASSUME NEW i \in Nat, i \in T PROVE i + 1 \in T
  <2> SUFFICES ASSUME i + 1 <= Len(script) PROVE IsKnown(known[i + 1])
    OBVIOUS
  <2>1. i + 1 \in 1..Len(script) /\ (i + 1) - 1 = i /\ IsKnown(known[i])
    BY <1>3
  <2> DEFINE m == i + 1
             k == known[i]
  <2>2. known[m] = Onward(script, hit, k, m) /\ IsKnown(k)
    BY <1>1, <2>1
  <2> HIDE DEF m, k
  <2>3. IsKnown(Onward(script, hit, k, m))
    BY <2>2, OnwardFacts
  <2>4. IsKnown(known[m])
    BY <2>2, <2>3
  <2> QED BY <2>4 DEF m
<1>4. n \in T
  <2> HIDE DEF T
  <2> QED BY <1>2, <1>3, Successors
<1> QED BY <1>4 DEF known

\* Steps that are not certain change nothing.
LEMMA Stays ==
  ASSUME NEW script, Len(script) \in Nat, NEW hit,
         NEW a \in 0..Len(script), NEW b \in a..Len(script),
         \A i \in a + 1..b : ~Certain(script, hit, Sure(script, hit)[a], i)
  PROVE  Sure(script, hit)[b] = Sure(script, hit)[a]
<1> DEFINE known == Sure(script, hit)
           T == {i \in Nat : a + i <= b => known[a + i] = known[a]}
<1>1. \A i \in 1..Len(script) : known[i] = Onward(script, hit, known[i - 1], i)
  BY SureSteps
<1>2. IsKnown(known[a])
  BY SureFacts
<1>3. 0 \in T
  OBVIOUS
<1>4. ASSUME NEW i \in Nat, i \in T PROVE i + 1 \in T
  <2> SUFFICES ASSUME a + (i + 1) <= b PROVE known[a + (i + 1)] = known[a]
    OBVIOUS
  <2>1. /\ a + (i + 1) \in 1..Len(script) /\ a + (i + 1) \in a + 1..b
        /\ (a + (i + 1)) - 1 = a + i /\ known[a + i] = known[a]
    BY <1>4
  <2> DEFINE m == a + (i + 1)
  <2>2. m \in 1..Len(script) /\ m \in a + 1..b /\ known[m - 1] = known[a]
    BY <2>1
  <2> HIDE DEF m
  <2>3. known[m] = Onward(script, hit, known[a], m) /\ ~Certain(script, hit, known[a], m)
    BY <1>1, <2>2
  <2>4. known[m] = known[a]
    <3> HIDE DEF known
    <3> QED BY <1>2, <2>3, OnwardFacts
  <2> QED BY <2>4 DEF m
<1>5. b - a \in T
  <2> HIDE DEF T
  <2>1. b - a \in Nat
    OBVIOUS
  <2> QED BY <1>3, <1>4, <2>1, Successors
<1>6. a + (b - a) = b
  OBVIOUS
<1> QED BY <1>5, <1>6

-----------------------------------------------------------------------------
(* What a worker does with its script *)

\* What is sure of a script where its worker stands, and that a worker has it.
At(w, hit) ==
  LET known == Sure(w.script, hit)
  IN  IF w.phase \in {"new", "running"} THEN known[w.pc - 1] ELSE known[Len(w.script)]
Covers(known, w) == ToSet(known.cases) \subseteq ToSet(w.cases) /\ known.marks \subseteq w.marks

\* The steps a worker leaves out add nothing to what is sure.
LEMMA Reaches ==
  ASSUME IsWorker(worker), IsScript(worker.script), NEW hit,
         Covers(Sure(worker.script, hit)[worker.pc - 1], worker)
  PROVE  /\ Sure(worker.script, hit)[Pc - 1] = Sure(worker.script, hit)[worker.pc - 1]
         /\ PassedIn(Sure(worker.script, hit)[Pc - 1]) \subseteq Passed
         /\ ~Ended => ~LeftOut(worker.script, Sure(worker.script, hit)[Pc - 1], Pc)
<1> DEFINE script == worker.script
           known == Sure(script, hit)[worker.pc - 1]
<1>1. /\ Len(script) \in Nat /\ worker.pc \in 1..Len(script) + 1
      /\ Pc \in worker.pc..Len(script) + 1
      /\ \A i \in worker.pc..Pc - 1 : ~Runs(script[i])
      /\ ~Ended => Runs(script[Pc])
  BY PcFacts DEF IsWorker, Now
<1>2. PassedIn(known) \subseteq Passed
  BY DEF PassedIn, Passed, Covers
<1>3. ASSUME NEW i \in worker.pc..Pc - 1 PROVE ~Certain(script, hit, known, i)
  <2>1. ~Runs(script[i])
    BY <1>1
  <2> QED BY <1>2, <2>1 DEF Certain, Runs
<1>4. Sure(script, hit)[Pc - 1] = known
  <2> DEFINE a == worker.pc - 1
             b == Pc - 1
  <2>1. a \in 0..Len(script) /\ b \in a..Len(script) /\ a + 1 = worker.pc
    BY <1>1
  <2>2. \A i \in a + 1..b : ~Certain(script, hit, Sure(script, hit)[a], i)
    BY <1>3, <2>1
  <2> HIDE DEF a, b
  <2>3. Sure(script, hit)[b] = Sure(script, hit)[a]
    BY <1>1, <2>1, <2>2, Stays
  <2> QED BY <2>3 DEF a, b
<1>5. ~Ended => ~LeftOut(script, known, Pc)
  BY <1>1, <1>2 DEF LeftOut, Runs
<1> QED BY <1>2, <1>4, <1>5

\* Nothing keeps the step at hand from passing.
Able == Now.given \subseteq Passed /\ (Now.op = "spawn" => Parts)

\* A step of the script records t, or goes wrong.
Does(t, marks, session) ==
  /\ t \in Seq(ToSet(t))
  /\ worker' = With("running", Pc + 1, worker.cases \o t, worker.marks \cup marks,
                    session, worker.code)
GoesOn ==
  /\ Fine
  /\ Now.op # "stop"
  /\ \E t, marks, session :
       /\ Does(t, marks, session)
       /\ Able => /\ marks = Marks(Now)
                  /\ t = IF Now.op = "block" THEN Blocked(Now.ids) ELSE Adds(Now)
GoesWrong ==
  /\ Fault(Now.id)
  /\ \/ \E c : worker' = Recorded(<<c>>)
     \/ Now.op \in {"equal", "bare", "init"} /\ worker' = Raised
Goes ==
  /\ \E ops : InScript(ops)
  /\ GoesOn \/ GoesWrong

LEMMA RecordedDoes ==
  ASSUME TurnInv, NEW ops, InScript(ops), NEW t, t \in Seq(ToSet(t))
  PROVE  /\ worker' = Recorded(t) => Does(t, {}, worker.session)
         /\ \A x : worker' = [Recorded(t) EXCEPT !.session = x] => Does(t, {}, x)
         /\ \A x : worker' = [Recorded(t) EXCEPT !.marks = worker.marks \cup x] =>
                     Does(t, x, worker.session)
<1>1. IsWorker(worker) /\ worker.phase = "running"
  BY InScriptFacts DEF Running
<1>2. worker.marks \cup {} = worker.marks
  OBVIOUS
<1>3. worker' = Recorded(t) => Does(t, {}, worker.session)
  BY <1>1, <1>2, RecordedFacts DEF Does
<1>4. ASSUME NEW x, worker' = [Recorded(t) EXCEPT !.session = x] PROVE Does(t, {}, x)
  BY <1>1, <1>2, <1>4, RecordedFacts DEF Does
<1>5. ASSUME NEW x, worker' = [Recorded(t) EXCEPT !.marks = worker.marks \cup x]
      PROVE  Does(t, x, worker.session)
  <2> DEFINE marks == worker.marks \cup x
  <2>1. worker' = [Recorded(t) EXCEPT !.marks = marks]
    BY <1>5
  <2> HIDE DEF marks
  <2>2. worker' = With(worker.phase, Pc + 1, worker.cases \o t, marks, worker.session, worker.code)
    BY <1>1, <2>1, RecordedFacts
  <2> QED BY <1>1, <2>2 DEF Does, marks
<1> QED BY <1>3, <1>4, <1>5

\* A step that records one case, as it does when it can pass.
LEMMA OneGoes ==
  ASSUME TurnInv, NEW ops, InScript(ops), NEW c, worker' = Recorded(<<c>>), Fine,
         Now.op \notin {"stop", "block", "spawn"}, Able => Adds(Now) = <<c>>
  PROVE  Goes
<1> DEFINE t == <<c>>
<1>1. t \in Seq(ToSet(t))
  BY Single
<1>2. Does(t, {}, worker.session)
  BY <1>1, RecordedDoes
<1>3. Able => {} = Marks(Now) /\ t = IF Now.op = "block" THEN Blocked(Now.ids) ELSE Adds(Now)
  BY DEF Marks
<1> HIDE DEF t
<1>4. GoesOn
  BY <1>2, <1>3 DEF GoesOn
<1> QED BY <1>4 DEF Goes

LEMMA WrongGoes ==
  ASSUME NEW ops, InScript(ops), Fault(Now.id), NEW c, worker' = Recorded(<<c>>)
  PROVE  Goes
BY DEF Goes, GoesWrong

LEMMA PassGoes ==
  ASSUME TurnInv, Pass
  PROVE  Goes
<1> DEFINE t == <<Case(Now.id, "pass")>>
           ops == {"check", "equal", "close", "adopt", "probe"}
           session == CASE Now.id = "initialize" -> TRUE
                        [] Now.id = "finalize" -> FALSE
                        [] OTHER -> worker.session
<1>1. InScript(ops) /\ Fine /\ worker' = [Recorded(t) EXCEPT !.session = session]
  <2>1. Recorded(t).session = worker.session
    BY InScriptFacts, RecordedFacts DEF Pass
  <2> QED BY <2>1 DEF Pass
<1>2. t \in Seq(ToSet(t))
  BY Single
<1>3. /\ Now.op \notin {"stop", "block"} /\ {} = Marks(Now) /\ t = Adds(Now)
  BY <1>1 DEF InScript, Marks, Adds
<1> HIDE DEF t, session, ops
<1>4. Does(t, {}, session)
  BY <1>1, <1>2, RecordedDoes
<1>5. GoesOn
  BY <1>1, <1>3, <1>4 DEF GoesOn
<1> QED BY <1>1, <1>5 DEF Goes

LEMMA FailGoes ==
  ASSUME TurnInv, Fail
  PROVE  Goes
<1> DEFINE ops == {"check", "equal", "close", "adopt"}
           c == Case(Now.id, "fail")
<1>1. InScript(ops) /\ worker' = Recorded(<<c>>) /\ Now.op \notin {"stop", "block", "spawn"}
  BY DEF Fail, InScript
<1>2. CASE Now.given \subseteq Passed
  <2>1. Fault(Now.id)
    BY <1>2 DEF Fail
  <2> QED BY <1>1, <2>1, WrongGoes
<1>3. CASE ~(Now.given \subseteq Passed)
  <2>1. Fine /\ ~Able
    BY <1>3 DEF Fail, Able
  <2> HIDE DEF c, ops
  <2> QED BY <1>1, <2>1, OneGoes
<1> QED BY <1>2, <1>3

LEMMA MalformGoes ==
  ASSUME TurnInv, Malform
  PROVE  Goes
<1>1. \E c : worker' = Recorded(<<c>>)
  BY DEF Malform
<1> QED BY <1>1, WrongGoes DEF Malform

LEMMA RaiseGoes ==
  ASSUME TurnInv, Raise
  PROVE  Goes
<1>1. InScript({"equal", "bare", "init"}) /\ Now.op \in {"equal", "bare", "init"}
  BY DEF Raise, InScript
<1> QED BY <1>1 DEF Raise, Goes, GoesWrong

LEMMA QuietGoes ==
  ASSUME TurnInv, Quiet
  PROVE  Goes
<1> DEFINE t == <<>>
           ops == {"bare", "init"}
           session == worker.session \/ Now.op = "init"
<1>1. InScript(ops) /\ Fine /\ worker' = [Recorded(t) EXCEPT !.session = session]
  <2>1. Recorded(t).session = worker.session
    BY InScriptFacts, RecordedFacts DEF Quiet
  <2> QED BY <2>1 DEF Quiet
<1>2. t \in Seq(ToSet(t))
  OBVIOUS
<1>3. /\ Now.op \notin {"stop", "block"} /\ {} = Marks(Now) /\ t = Adds(Now)
  BY <1>1 DEF InScript, Marks, Adds
<1> HIDE DEF t, session, ops
<1>4. Does(t, {}, session)
  BY <1>1, <1>2, RecordedDoes
<1>5. GoesOn
  BY <1>1, <1>3, <1>4 DEF GoesOn
<1> QED BY <1>1, <1>5 DEF Goes

LEMMA ObserveGoes ==
  ASSUME TurnInv, Observe
  PROVE  Goes
<1> DEFINE ops == {"fact", "unsupported"}
           c == IF Now.op = "fact" THEN Observation(Now.id, "pass") ELSE Case(Now.id, "unsupported")
<1>1. InScript(ops) /\ worker' = Recorded(<<c>>) /\ Fine
  BY DEF Observe
<1>2. Now.op \in {"fact", "unsupported"}
  BY <1>1 DEF InScript
<1>3. Adds(Now) = <<c>>
  BY <1>2 DEF Adds
<1>4. Now.op \notin {"stop", "block", "spawn"}
  BY <1>2
<1> HIDE DEF c, ops
<1> QED BY <1>1, <1>3, <1>4, OneGoes

LEMMA BlockMissingGoes ==
  ASSUME TurnInv, BlockMissing
  PROVE  Goes
<1> DEFINE t == Blocked(Now.ids)
           ops == {"block"}
<1>1. InScript(ops) /\ Fine /\ worker' = Recorded(t)
  BY DEF BlockMissing
<1>2. t \in Seq(ToSet(t))
  BY <1>1, BlockedFacts
<1>3. Now.op = "block" /\ {} = Marks(Now)
  BY <1>1 DEF InScript, Marks
<1>4. Does(t, {}, worker.session)
  <2> HIDE DEF t, ops
  <2> QED BY <1>1, <1>2, RecordedDoes
<1>5. Able => {} = Marks(Now) /\ t = IF Now.op = "block" THEN Blocked(Now.ids) ELSE Adds(Now)
  BY <1>3
<1> HIDE DEF t, ops
<1>6. GoesOn
  BY <1>1, <1>3, <1>4, <1>5 DEF GoesOn
<1> QED BY <1>1, <1>6 DEF Goes

LEMMA SumUpGoes ==
  ASSUME TurnInv, SumUp
  PROVE  Goes
<1> DEFINE ops == {"sum"}
           c == Case(Now.id, IF Now.given \subseteq Passed THEN "pass" ELSE "fail")
<1>1. InScript(ops) /\ worker' = Recorded(<<c>>) /\ Fine
  BY DEF SumUp
<1>2. Now.op = "sum"
  BY <1>1 DEF InScript
<1>3. Able => Adds(Now) = <<c>>
  BY <1>2 DEF Adds, Able
<1>4. Now.op \notin {"stop", "block", "spawn"}
  BY <1>2
<1> HIDE DEF c, ops
<1> QED BY <1>1, <1>3, <1>4, OneGoes

LEMMA UnavailableGoes ==
  ASSUME TurnInv, Unavailable
  PROVE  Goes
BY WrongGoes DEF Unavailable

LEMMA SpawnGoes ==
  ASSUME TurnInv, Spawn
  PROVE  Goes
<1> DEFINE t == <<>>
           ops == {"spawn"}
           marks == {Now.id}
<1>1. InScript(ops) /\ Fine /\ worker' = [Recorded(t) EXCEPT !.marks = worker.marks \cup marks]
  <2>1. Recorded(t).marks = worker.marks
    BY InScriptFacts, RecordedFacts DEF Spawn
  <2> QED BY <2>1 DEF Spawn
<1>2. t \in Seq(ToSet(t))
  OBVIOUS
<1>3. /\ Now.op \notin {"stop", "block"} /\ marks = Marks(Now) /\ t = Adds(Now)
  BY <1>1 DEF InScript, Marks, Adds
<1> HIDE DEF t, marks, ops
<1>4. Does(t, marks, worker.session)
  BY <1>1, <1>2, RecordedDoes
<1>5. GoesOn
  BY <1>1, <1>3, <1>4 DEF GoesOn
<1> QED BY <1>1, <1>5 DEF Goes

LEMMA SpawnFailsGoes ==
  ASSUME TurnInv, SpawnFails
  PROVE  Goes
<1> DEFINE ops == {"spawn"}
           c == Case(Now.id, "fail")
           t == <<c>>
<1>1. InScript(ops) /\ worker' = Recorded(t) /\ Now.op = "spawn"
  BY DEF SpawnFails, InScript
<1>2. CASE Parts
  BY <1>1, <1>2, WrongGoes DEF SpawnFails
<1>3. CASE ~Parts
  <2>1. Fine /\ ~Able
    BY <1>1, <1>3 DEF SpawnFails, Able
  <2>2. t \in Seq(ToSet(t))
    BY Single
  <2> HIDE DEF c, ops, t
  <2>3. Does(t, {}, worker.session)
    BY <1>1, <2>2, RecordedDoes
  <2>4. GoesOn
    BY <1>1, <2>1, <2>3 DEF GoesOn
  <2> QED BY <1>1, <2>4 DEF Goes
<1> QED BY <1>2, <1>3

LEMMA ScriptGoes ==
  ASSUME TurnInv, ScriptStep
  PROVE  Goes \/ Return
BY PassGoes, FailGoes, MalformGoes, RaiseGoes, QuietGoes, ObserveGoes, BlockMissingGoes,
   SumUpGoes, UnavailableGoes, SpawnGoes, SpawnFailsGoes DEF ScriptStep

-----------------------------------------------------------------------------
(* What is sure is recorded *)

LEMMA WithFacts ==
  ASSUME NEW phase, NEW pc, NEW cases, NEW marks, NEW session, NEW code
  PROVE  LET w == With(phase, pc, cases, marks, session, code)
         IN  /\ w.phase = phase /\ w.script = worker.script /\ w.pc = pc
             /\ w.cases = cases /\ w.marks = marks /\ w.code = code
BY DEF With

\* The next step, as the dry run takes it.
LEMMA SureNow ==
  ASSUME TurnInv, NEW ops, InScript(ops), NEW hit, Covers(At(worker, hit), worker)
  PROVE  LET script == worker.script
             known == Sure(script, hit)
         IN  /\ known[Pc - 1] = At(worker, hit) /\ IsKnown(At(worker, hit))
             /\ known[Pc] = Onward(script, hit, At(worker, hit), Pc)
             /\ ~LeftOut(script, At(worker, hit), Pc)
             /\ Certain(script, hit, At(worker, hit), Pc) => Able
<1> DEFINE script == worker.script
           known == Sure(script, hit)
           here == At(worker, hit)
<1>1. /\ IsWorker(worker) /\ IsScript(script) /\ worker.phase = "running" /\ ~Ended
      /\ Pc \in 1..Len(script) /\ Len(script) \in Nat
  BY InScriptFacts DEF Running, InScript
<1>2. here = known[worker.pc - 1]
  BY <1>1 DEF At
<1>3. /\ known[Pc - 1] = here /\ PassedIn(here) \subseteq Passed
      /\ ~LeftOut(script, here, Pc)
  BY <1>1, <1>2, Reaches
<1>4. IsKnown(here)
  <2>1. worker.pc - 1 \in 0..Len(script)
    BY <1>1 DEF IsWorker
  <2> QED BY <1>1, <1>2, <2>1, SureFacts
<1>5. known[Pc] = Onward(script, hit, here, Pc)
  BY <1>1, <1>3, SureSteps
<1>6. ASSUME Certain(script, hit, here, Pc) PROVE Able
  <2>1. Now = script[Pc]
    BY DEF Now
  <2>2. Now.given \subseteq Passed
    BY <1>3, <1>6, <2>1 DEF Certain
  <2>3. Now.op = "spawn" => HasParts(script, Now.id, PassedIn(here))
    BY <1>6, <2>1 DEF Certain
  <2>4. Now.op = "spawn" => HasParts(script, Now.id, Passed)
    BY <1>3, <2>3 DEF HasParts
  <2> QED BY <2>2, <2>4 DEF Able, Parts
<1> QED BY <1>3, <1>4, <1>5, <1>6

LEMMA GoesOnCovers ==
  ASSUME TurnInv, NEW ops, InScript(ops), GoesOn, NEW hit, Covers(At(worker, hit), worker)
  PROVE  Covers(At(worker', hit), worker')
<1> DEFINE script == worker.script
           here == At(worker, hit)
           next == Onward(script, hit, here, Pc)
<1>1. PICK t, marks, session :
        /\ Does(t, marks, session)
        /\ Able => /\ marks = Marks(Now)
                   /\ t = IF Now.op = "block" THEN Blocked(Now.ids) ELSE Adds(Now)
  BY DEF GoesOn
<1>2. /\ worker'.phase = "running" /\ worker'.script = script /\ worker'.pc = Pc + 1
      /\ worker'.cases = worker.cases \o t /\ worker'.marks = worker.marks \cup marks
  <2> DEFINE pc == Pc + 1
             cases == worker.cases \o t
             all == worker.marks \cup marks
  <2>1. worker' = With("running", pc, cases, all, session, worker.code)
    BY <1>1 DEF Does
  <2> HIDE DEF pc, cases, all
  <2>2. /\ worker'.phase = "running" /\ worker'.script = script /\ worker'.pc = pc
        /\ worker'.cases = cases /\ worker'.marks = all
    BY <2>1, WithFacts
  <2> QED BY <2>2 DEF pc, cases, all
<1>3. ToSet(worker'.cases) = ToSet(worker.cases) \cup ToSet(t)
  BY <1>1, <1>2, InScriptFacts, Grown DEF Does, IsWorker
<1>4. /\ IsKnown(here) /\ Sure(script, hit)[Pc] = next
      /\ Certain(script, hit, here, Pc) => Able
  BY SureNow
<1>5. At(worker', hit) = next
  <2>1. (Pc + 1) - 1 = Pc
    BY InScriptFacts
  <2> QED BY <1>2, <1>4, <2>1 DEF At
<1>6. CASE Certain(script, hit, here, Pc)
  <2>1. next.cases = here.cases \o Adds(Now) /\ next.marks = here.marks \cup Marks(Now)
    <3>1. IsKnown(here) /\ Certain(script, hit, here, Pc)
      BY <1>4, <1>6
    <3> HIDE DEF here
    <3>2. /\ next.cases = Joined(here.cases, Adds(script[Pc]))
          /\ next.marks = here.marks \cup Marks(script[Pc])
      BY <3>1, OnwardFacts
    <3> QED BY <3>2 DEF Now, Joined
  <2>2. ToSet(here.cases \o Adds(Now)) = ToSet(here.cases) \cup ToSet(Adds(Now))
    BY <1>4, AddsFacts, Grown DEF IsKnown
  <2>3. ToSet(Adds(Now)) \subseteq ToSet(t) /\ marks = Marks(Now)
    <3>1. Now.op = "block" => ToSet(Adds(Now)) = {}
      BY DEF Adds, ToSet
    <3> QED BY <1>1, <1>4, <1>6, <3>1
  <2> QED BY <1>2, <1>3, <1>5, <2>1, <2>2, <2>3 DEF Covers
<1>7. CASE ~Certain(script, hit, here, Pc)
  <2>1. next = here
    BY <1>4, <1>7, OnwardFacts
  <2> QED BY <1>2, <1>3, <1>5, <2>1 DEF Covers
<1> QED BY <1>6, <1>7

\* A worker that may yet come to its end.
Coming(w) == w.phase \in {"new", "running"} \/ w.code = 0

\* A step that goes wrong leaves out only what was not sure.
LEMMA GoesWrongCovers ==
  ASSUME TurnInv, NEW ops, InScript(ops), GoesWrong, Coming(worker'),
         NEW hit, Covers(At(worker, hit), worker), {s[1] : s \in struck'} \subseteq hit
  PROVE  Covers(At(worker', hit), worker')
<1> DEFINE script == worker.script
           here == At(worker, hit)
<1>1. Now.id \in hit
  <2>1. struck' = struck \cup {<<Now.id, Pc>>}
    BY DEF GoesWrong, Fault
  <2>2. <<Now.id, Pc>>[1] = Now.id
    OBVIOUS
  <2> QED BY <2>1, <2>2
<1>2. /\ IsKnown(here) /\ Sure(script, hit)[Pc - 1] = here
      /\ Sure(script, hit)[Pc] = Onward(script, hit, here, Pc)
  BY SureNow
<1>3. /\ IsWorker(worker) /\ worker.phase = "running"
      /\ Pc \in 1..Len(script) /\ Len(script) \in Nat
  BY InScriptFacts DEF Running
<1>4. CASE \E c : worker' = Recorded(<<c>>)
  <2>1. PICK c : worker' = Recorded(<<c>>)
    BY <1>4
  <2> DEFINE t == <<c>>
             cases == worker.cases \o t
             pc == Pc + 1
  <2>2. worker' = With("running", pc, cases, worker.marks, worker.session, worker.code)
    BY <1>3, <2>1, RecordedFacts
  <2>3. ToSet(worker.cases) \subseteq ToSet(cases)
    <3>1. t \in Seq(ToSet(t))
      BY Single
    <3> HIDE DEF t
    <3> QED BY <1>3, <3>1, Grown DEF IsWorker
  <2> HIDE DEF cases, pc
  <2>4. /\ worker'.phase = "running" /\ worker'.script = script /\ worker'.pc = pc
        /\ worker'.cases = cases /\ worker'.marks = worker.marks
    BY <2>2, WithFacts
  <2>5. ~Certain(script, hit, here, Pc)
    BY <1>1 DEF Certain, Now
  <2>6. At(worker', hit) = here
    <3>1. (Pc + 1) - 1 = Pc
      BY <1>3
    <3>2. Sure(script, hit)[Pc] = here
      BY <1>2, <2>5, OnwardFacts
    <3> QED BY <2>4, <3>1, <3>2 DEF At, pc
  <2> QED BY <2>3, <2>4, <2>6 DEF Covers
<1>5. CASE Now.op \in {"equal", "bare", "init"} /\ worker' = Raised
  <2>1. Now.in # "none"
    <3> SUFFICES ASSUME Now.in = "none" PROVE FALSE
      OBVIOUS
    <3> DEFINE cases == Append(worker.cases, Case("group_exception", "fail"))
               code == 32
               phase == "cleanup"
    <3>1. worker' = [worker EXCEPT !.cases = cases, !.code = code, !.phase = phase]
      BY <1>5 DEF Raised
    <3>2. code # 0 /\ phase \notin {"new", "running"}
      OBVIOUS
    <3> HIDE DEF cases, code, phase
    <3>3. worker' = With(phase, worker.pc, cases, worker.marks, worker.session, code)
      <4>1. IsWorker(worker)
        BY <1>3
      <4> QED BY ONLY <3>1, <4>1, RaisedFields
    <3> QED BY <3>2, <3>3, WithFacts DEF Coming
  <2> DEFINE cases == Append(worker.cases, Case(Now.in, "fail"))
  <2>2. PICK end \in Pc..Len(script) :
          /\ \A i \in Pc..end - 1 : ~EndsIt(i)
          /\ worker' = With("running", end + 1, cases, worker.marks, worker.session, worker.code)
    BY <1>3, <1>5, <2>1, RaisedFacts
  <2>3. ToSet(worker.cases) \subseteq ToSet(cases)
    BY <1>3, Appended DEF IsWorker
  <2> HIDE DEF cases
  <2>4. /\ worker'.phase = "running" /\ worker'.script = script /\ worker'.pc = end + 1
        /\ worker'.cases = cases /\ worker'.marks = worker.marks
    BY <2>2, WithFacts
  <2>5. ASSUME NEW i \in Pc..end PROVE Skippable(script, hit, i)
    <3>1. Pc \in 1..i /\ i \in Int /\ \A k \in Pc..i - 1 : k \in Pc..end - 1
      BY <1>3
    <3>2. \A k \in Pc..i - 1 : ~ (script[k].op = "close" /\ script[k].id = script[Pc].in)
      BY <2>2, <3>1 DEF EndsIt, Now
    <3> QED BY <1>1, <1>5, <2>1, <3>1, <3>2 DEF Skippable, Now
  <2>6. Sure(script, hit)[end] = here
    <3> DEFINE a == Pc - 1
    <3>1. a \in 0..Len(script) /\ end \in a..Len(script) /\ a + 1 = Pc
      BY <1>3
    <3>2. \A i \in a + 1..end : ~Certain(script, hit, Sure(script, hit)[a], i)
      BY <2>5, <3>1 DEF Certain
    <3> HIDE DEF a
    <3>3. Sure(script, hit)[end] = Sure(script, hit)[a]
      BY <1>3, <3>1, <3>2, Stays
    <3> QED BY <1>2, <3>3 DEF a
  <2>7. At(worker', hit) = here
    <3>1. (end + 1) - 1 = end
      BY <1>3
    <3> QED BY <2>4, <2>6, <3>1 DEF At
  <2> QED BY <2>3, <2>4, <2>7 DEF Covers
<1> QED BY <1>4, <1>5 DEF GoesWrong

\* A worker has exactly what is sure when nothing goes wrong.
HasJust(known, w) == w.cases = known.cases /\ w.marks = known.marks

LEMMA JustCovers ==
  ASSUME NEW known, NEW w, HasJust(known, w)
  PROVE  Covers(known, w)
BY DEF HasJust, Covers

\* The script of the worker is that of its group, so complete and independent.
LEMMA OwnScript ==
  ASSUME TurnInv, worker # Idle
  PROVE  /\ IsWorker(worker) /\ worker.script = Script[Group] /\ IsScript(worker.script)
         /\ Len(worker.script) \in Nat /\ DOMAIN worker.script = 1..Len(worker.script)
         /\ Complete(Group) /\ Independent(Group)
<1>1. IsWorker(worker) /\ turn \in 1..Len(Groups)
  BY Lengths DEF TurnInv
<1>2. Group \in ToSet(Groups) /\ IsScript(Script[Group])
  BY <1>1, GroupFacts
<1>3. worker.script = Script[Group]
  BY <1>1 DEF IsWorker
<1>4. Len(worker.script) \in Nat /\ DOMAIN worker.script = 1..Len(worker.script)
  BY <1>2, <1>3, LenProperties DEF IsScript
<1> QED BY <1>1, <1>2, <1>3, <1>4, CompleteAssumption, IndependentAssumption

LEMMA GoesOnJust ==
  ASSUME TurnInv, NEW ops, InScript(ops), GoesOn, HasJust(At(worker, {}), worker)
  PROVE  HasJust(At(worker', {}), worker')
<1> DEFINE script == worker.script
           here == At(worker, {})
           next == Onward(script, {}, here, Pc)
<1>1. PICK t, marks, session :
        /\ Does(t, marks, session)
        /\ Able => /\ marks = Marks(Now)
                   /\ t = IF Now.op = "block" THEN Blocked(Now.ids) ELSE Adds(Now)
  BY DEF GoesOn
<1>2. /\ worker'.phase = "running" /\ worker'.script = script /\ worker'.pc = Pc + 1
      /\ worker'.cases = worker.cases \o t /\ worker'.marks = worker.marks \cup marks
  <2> DEFINE pc == Pc + 1
             cases == worker.cases \o t
             all == worker.marks \cup marks
  <2>1. worker' = With("running", pc, cases, all, session, worker.code)
    BY <1>1 DEF Does
  <2> HIDE DEF pc, cases, all
  <2>2. /\ worker'.phase = "running" /\ worker'.script = script /\ worker'.pc = pc
        /\ worker'.cases = cases /\ worker'.marks = all
    BY <2>1, WithFacts
  <2> QED BY <2>2 DEF pc, cases, all
<1>3. /\ IsKnown(here) /\ Sure(script, {})[Pc - 1] = here /\ Sure(script, {})[Pc] = next
      /\ ~LeftOut(script, here, Pc)
      /\ Certain(script, {}, here, Pc) => Able
  BY JustCovers, SureNow
<1>4. At(worker', {}) = next
  <2>1. (Pc + 1) - 1 = Pc
    BY InScriptFacts
  <2> QED BY <1>2, <1>3, <2>1 DEF At
<1>5. /\ Certain(script, {}, here, Pc)
      /\ Now.op = "block" => ToSet(Now.ids) \subseteq {c.id : c \in ToSet(here.cases)}
  <2>1. worker # Idle /\ Pc \in 1..Len(script)
    BY InScriptFacts DEF Running, Idle
  <2>2. Complete(Group) /\ script = Script[Group] /\ Pc \in DOMAIN script
    BY <2>1, OwnScript
  <2> QED BY <1>3, <2>2 DEF Complete, Now
<1>6. marks = Marks(Now) /\ t = Adds(Now)
  <2>1. Able
    BY <1>3, <1>5
  <2>2. CASE Now.op = "block"
    <3>1. ToSet(Now.ids) \subseteq {c.id : c \in ToSet(worker.cases)}
      BY <1>5, <2>2 DEF HasJust
    <3>2. Blocked(Now.ids) = <<>>
      BY <3>1, BlockedFacts
    <3>3. Adds(Now) = <<>>
      BY <2>2 DEF Adds
    <3> QED BY <1>1, <2>1, <2>2, <3>2, <3>3
  <2>3. CASE Now.op # "block"
    BY <1>1, <2>1, <2>3
  <2> QED BY <2>2, <2>3
<1>7. next.cases = here.cases \o Adds(Now) /\ next.marks = here.marks \cup Marks(Now)
  <2>1. IsKnown(here) /\ Certain(script, {}, here, Pc)
    BY <1>3, <1>5
  <2> HIDE DEF here
  <2>2. /\ next.cases = Joined(here.cases, Adds(script[Pc]))
        /\ next.marks = here.marks \cup Marks(script[Pc])
    BY <2>1, OnwardFacts
  <2> QED BY <2>2 DEF Now, Joined
<1> QED BY <1>2, <1>4, <1>6, <1>7 DEF HasJust

\* A group function that returns is at its end.
LEMMA ReturnEnds ==
  ASSUME TurnInv, Return, NEW hit, hit = {} \/ \E x \in Others(Group) : hit = x[2],
         Covers(At(worker, hit), worker)
  PROVE  At(worker', hit) = At(worker, hit)
<1> DEFINE script == worker.script
           here == At(worker, hit)
<1>1. /\ worker # Idle /\ worker.phase = "running" /\ worker' = [worker EXCEPT !.phase = "cleanup"]
      /\ Ended \/ Now.op = "stop"
  BY DEF Return, Running, Idle
<1>2. /\ IsWorker(worker) /\ IsScript(script) /\ Len(script) \in Nat
      /\ DOMAIN script = 1..Len(script) /\ script = Script[Group]
      /\ Complete(Group) /\ Independent(Group)
  BY <1>1, OwnScript
<1>3. here = Sure(script, hit)[worker.pc - 1]
  BY <1>1 DEF At
<1>4. Sure(script, hit)[Pc - 1] = here /\ (~Ended => ~LeftOut(script, here, Pc))
  BY <1>2, <1>3, Reaches
<1>5. Ended
  <2> SUFFICES ASSUME ~Ended PROVE FALSE
    OBVIOUS
  <2>1. Now.op = "stop" /\ Pc \in DOMAIN script
    BY <1>1, <1>2, PcFacts
  <2>2. ~LeftOut(script, Sure(script, hit)[Pc - 1], Pc) /\ script[Pc].op = "stop"
    BY <1>4, <2>1 DEF Now
  <2>3. CASE hit = {}
    BY <1>2, <2>1, <2>2, <2>3 DEF Complete
  <2>4. ASSUME NEW x \in Others(Group), hit = x[2] PROVE FALSE
    BY <1>2, <2>1, <2>2, <2>4 DEF Independent
  <2> QED BY <2>3, <2>4
<1>6. Pc = Len(script) + 1
  BY <1>2, <1>5, PcFacts DEF Ended
<1>7. worker'.phase = "cleanup" /\ worker'.script = script
  <2> DEFINE w == With("cleanup", worker.pc, worker.cases, worker.marks, worker.session, worker.code)
  <2>1. worker' = w
    BY <1>1, <1>2, WorkerFields
  <2>2. w.phase = "cleanup" /\ w.script = script
    BY WithFacts
  <2> QED BY <2>1, <2>2
<1>8. At(worker', hit) = Sure(script, hit)[Len(script)]
  BY <1>7 DEF At
<1>9. (Len(script) + 1) - 1 = Len(script)
  BY <1>2
<1> QED BY <1>4, <1>6, <1>8, <1>9

-----------------------------------------------------------------------------
(* What is sure stays recorded to the verdict *)

\* The worker of a group without a fault has exactly what is sure.
Exact ==
  worker # Idle /\ Group \notin flawed =>
    /\ worker.code = 0 /\ HasJust(At(worker, {}), worker)
    /\ worker.phase \in {"delivered", "exited"} => file.group = Group

\* A worker has what is sure whatever happens to the objects that met a fault.
Hits == {s[1] : s \in struck}
Spared ==
  worker # Idle /\ Coming(worker) =>
    \A x \in Others(Group) : Hits \subseteq x[2] => Covers(At(worker, x[2]), worker)

LEMMA GoesKeeps ==
  ASSUME TurnInv, Exact, Spared, Goes
  PROVE  Exact' /\ Spared'
<1>1. PICK ops : InScript(ops)
  BY DEF Goes
<1>2. worker # Idle /\ worker.phase = "running" /\ Group' = Group /\ Coming(worker)
  BY <1>1 DEF InScript, Running, Idle, ParentWaits, Group, Coming
<1>3. Others(Group)' = Others(Group)
  BY <1>2
<1>4. Exact'
  <2> SUFFICES ASSUME Group \notin flawed'
               PROVE  /\ worker'.code = 0 /\ HasJust(At(worker', {}), worker')
                      /\ worker'.phase \notin {"delivered", "exited"}
    BY <1>2 DEF Exact
  <2>1. GoesOn /\ flawed' = flawed
    BY DEF Goes, GoesOn, GoesWrong, Fault, Fine
  <2>2. worker.code = 0 /\ HasJust(At(worker, {}), worker)
    BY <1>2, <2>1 DEF Exact
  <2>3. HasJust(At(worker', {}), worker')
    BY <1>1, <2>1, <2>2, GoesOnJust
  <2>4. worker'.phase = "running" /\ worker'.code = worker.code
    <3>1. PICK t, marks, session : Does(t, marks, session)
      BY <2>1 DEF GoesOn
    <3> DEFINE pc == Pc + 1
               cases == worker.cases \o t
               all == worker.marks \cup marks
    <3>2. worker' = With("running", pc, cases, all, session, worker.code)
      BY <3>1 DEF Does
    <3> HIDE DEF pc, cases, all
    <3> QED BY <3>2, WithFacts
  <2> QED BY <2>2, <2>3, <2>4
<1>5. Spared'
  <2> SUFFICES ASSUME Coming(worker'), NEW x \in Others(Group), Hits' \subseteq x[2]
               PROVE  Covers(At(worker', x[2]), worker')
    BY <1>3 DEF Spared, Coming
  <2>1. Hits \subseteq Hits' /\ Hits' = {s[1] : s \in struck'}
    BY DEF Goes, GoesOn, GoesWrong, Fault, Fine, Hits
  <2>2. Covers(At(worker, x[2]), worker)
    BY <1>2, <2>1 DEF Spared
  <2> QED BY <1>1, <2>1, <2>2, GoesOnCovers, GoesWrongCovers DEF Goes
<1> QED BY <1>4, <1>5

\* A step of the worker that stays at its place in the script, or goes to its end.
LEMMA PhaseKeeps ==
  ASSUME TurnInv, Exact, Spared, worker # Idle, Group' = Group, struck' = struck,
         NEW phase, phase \in {"new", "running"} => worker.phase \in {"new", "running"},
         NEW cases, ToSet(worker.cases) \subseteq ToSet(cases), NEW session,
         worker' = With(phase, worker.pc, cases, worker.marks, session, worker.code),
         \A hit : /\ hit = {} \/ \E x \in Others(Group) : hit = x[2]
                  /\ Covers(At(worker, hit), worker)
                  => At(worker', hit) = At(worker, hit),
         \/ Group \in flawed'
         \/ /\ flawed' = flawed /\ cases = worker.cases
            /\ phase \in {"delivered", "exited"} => file'.group = Group
  PROVE  Exact' /\ Spared'
<1>1. /\ worker'.phase = phase /\ worker'.code = worker.code
      /\ worker'.cases = cases /\ worker'.marks = worker.marks
  BY WithFacts
<1>2. Exact'
  <2> SUFFICES ASSUME Group \notin flawed'
               PROVE  /\ worker'.code = 0 /\ HasJust(At(worker', {}), worker')
                      /\ worker'.phase \in {"delivered", "exited"} => file'.group = Group
    BY DEF Exact
  <2>1. worker.code = 0 /\ HasJust(At(worker, {}), worker)
    BY DEF Exact
  <2>2. At(worker', {}) = At(worker, {})
    BY <2>1, JustCovers
  <2> QED BY <1>1, <2>1, <2>2 DEF HasJust
<1>3. Spared'
  <2> SUFFICES ASSUME Coming(worker'), NEW x \in Others(Group), Hits \subseteq x[2]
               PROVE  Covers(At(worker', x[2]), worker')
    BY DEF Spared, Coming, Hits
  <2>1. Covers(At(worker, x[2]), worker)
    BY <1>1 DEF Spared, Coming
  <2>2. At(worker', x[2]) = At(worker, x[2])
    BY <2>1
  <2> QED BY <1>1, <2>1, <2>2 DEF Covers
<1> QED BY <1>2, <1>3

\* A worker that is lost has met a fault.
LEMMA LostKeeps ==
  ASSUME Group' = Group, Group \in flawed', worker'.phase = "exited", worker'.code # 0
  PROVE  Exact' /\ Spared'
BY DEF Exact, Spared, Coming

LEMMA ReturnKeeps ==
  ASSUME TurnInv, Exact, Spared, Return
  PROVE  Exact' /\ Spared'
<1> DEFINE phase == "cleanup"
           cases == worker.cases
<1>1. /\ worker # Idle /\ worker' = [worker EXCEPT !.phase = phase]
      /\ Group' = Group /\ struck' = struck /\ flawed' = flawed
      /\ phase \notin {"new", "running", "delivered", "exited"}
  BY DEF Return, Running, Idle, ParentWaits, Group, Fine
<1> HIDE DEF phase
<1>2. worker' = With(phase, worker.pc, cases, worker.marks, worker.session, worker.code)
  BY <1>1, OwnScript, WorkerFields
<1>3. \A hit : /\ hit = {} \/ \E x \in Others(Group) : hit = x[2]
               /\ Covers(At(worker, hit), worker)
               => At(worker', hit) = At(worker, hit)
  BY ReturnEnds
<1>4. ToSet(worker.cases) \subseteq ToSet(cases) /\ cases = worker.cases
  OBVIOUS
<1> HIDE DEF cases
<1> QED BY <1>1, <1>2, <1>3, <1>4, PhaseKeeps

\* Before and after the script, what is sure does not change.
LEMMA SameAt ==
  ASSUME IsWorker(worker), NEW phase, NEW cases, NEW session,
         worker' = With(phase, worker.pc, cases, worker.marks, session, worker.code),
         phase \in {"new", "running"} <=> worker.phase \in {"new", "running"}
  PROVE  \A hit : At(worker', hit) = At(worker, hit)
<1>1. worker'.phase = phase /\ worker'.script = worker.script /\ worker'.pc = worker.pc
  BY WithFacts
<1> QED BY <1>1 DEF At

LEMMA ConfigureKeeps ==
  ASSUME TurnInv, Exact, Spared, Configure
  PROVE  Exact' /\ Spared'
<1> DEFINE phase == "running"
           cases == worker.cases
<1>1. /\ worker # Idle /\ worker.phase = "new" /\ worker' = [worker EXCEPT !.phase = phase]
      /\ Group' = Group /\ struck' = struck /\ flawed' = flawed
      /\ phase \in {"new", "running"} /\ phase \notin {"delivered", "exited"}
  BY DEF Configure, Idle, ParentWaits, Group
<1> HIDE DEF phase
<1>2. worker' = With(phase, worker.pc, cases, worker.marks, worker.session, worker.code)
  BY <1>1, OwnScript, WorkerFields
<1>3. ToSet(worker.cases) \subseteq ToSet(cases) /\ cases = worker.cases
  OBVIOUS
<1> HIDE DEF cases
<1>4. \A hit : At(worker', hit) = At(worker, hit)
  BY <1>1, <1>2, OwnScript, SameAt
<1> QED BY <1>1, <1>2, <1>3, <1>4, PhaseKeeps

LEMMA CleanUpKeeps ==
  ASSUME TurnInv, Exact, Spared, CleanUp
  PROVE  Exact' /\ Spared'
<1> DEFINE phase == "deliver"
           session == FALSE
           cases == worker.cases
<1>1. /\ worker # Idle /\ worker.phase = "cleanup"
      /\ worker' = [worker EXCEPT !.phase = phase, !.session = session]
      /\ Group' = Group /\ struck' = struck /\ flawed' = flawed
      /\ phase \notin {"new", "running", "delivered", "exited"}
  BY DEF CleanUp, Idle, ParentWaits, Group
<1> HIDE DEF phase, session
<1>2. worker' = With(phase, worker.pc, cases, worker.marks, session, worker.code)
  BY <1>1, OwnScript, WorkerFields
<1>3. ToSet(worker.cases) \subseteq ToSet(cases) /\ cases = worker.cases
  OBVIOUS
<1> HIDE DEF cases
<1>4. \A hit : At(worker', hit) = At(worker, hit)
  BY <1>1, <1>2, OwnScript, SameAt
<1> QED BY <1>1, <1>2, <1>3, <1>4, PhaseKeeps

LEMMA CleanUpFailsKeeps ==
  ASSUME TurnInv, Exact, Spared, CleanUpFails
  PROVE  Exact' /\ Spared'
<1> DEFINE phase == "deliver"
           cases == Append(worker.cases, Case("finalize_in_cleanup", "fail"))
<1>1. /\ worker # Idle /\ worker.phase = "cleanup"
      /\ worker' = [worker EXCEPT !.phase = phase, !.cases = cases]
      /\ Group' = Group /\ struck' = struck /\ Group \in flawed'
      /\ phase \notin {"new", "running"}
  BY DEF CleanUpFails, Idle, ParentWaits, Group
<1>2. ToSet(worker.cases) \subseteq ToSet(cases)
  BY <1>1, OwnScript, Appended DEF IsWorker
<1> HIDE DEF phase, cases
<1>3. worker' = With(phase, worker.pc, cases, worker.marks, worker.session, worker.code)
  BY <1>1, OwnScript, WorkerFields
<1>4. \A hit : At(worker', hit) = At(worker, hit)
  BY <1>1, <1>3, OwnScript, SameAt
<1> QED BY <1>1, <1>2, <1>3, <1>4, PhaseKeeps

LEMMA DeliverKeeps ==
  ASSUME TurnInv, Exact, Spared, Deliver
  PROVE  Exact' /\ Spared'
<1> DEFINE phase == "delivered"
           cases == worker.cases
<1>1. /\ worker # Idle /\ worker.phase = "deliver" /\ worker' = [worker EXCEPT !.phase = phase]
      /\ Group' = Group /\ struck' = struck /\ flawed' = flawed
      /\ phase \notin {"new", "running"} /\ file'.group = Group
  BY DEF Deliver, Idle, ParentWaits, Group, Fine
<1> HIDE DEF phase
<1>2. worker' = With(phase, worker.pc, cases, worker.marks, worker.session, worker.code)
  BY <1>1, OwnScript, WorkerFields
<1>3. ToSet(worker.cases) \subseteq ToSet(cases) /\ cases = worker.cases
  OBVIOUS
<1> HIDE DEF cases
<1>4. \A hit : At(worker', hit) = At(worker, hit)
  BY <1>1, <1>2, OwnScript, SameAt
<1> QED BY <1>1, <1>2, <1>3, <1>4, PhaseKeeps

LEMMA ExitKeeps ==
  ASSUME TurnInv, Exact, Spared, Exit
  PROVE  Exact' /\ Spared'
<1> DEFINE phase == "exited"
           cases == worker.cases
           code == worker.code
<1>1. /\ worker # Idle /\ worker.phase = "delivered"
      /\ worker' = [worker EXCEPT !.phase = phase, !.code = code]
      /\ Group' = Group /\ struck' = struck /\ flawed' = flawed /\ file' = file
      /\ phase \notin {"new", "running"}
  BY DEF Exit, Exits, Idle, ParentWaits, Group
<1> HIDE DEF phase
<1>2. worker' = With(phase, worker.pc, cases, worker.marks, worker.session, worker.code)
  <2> HIDE DEF code, cases
  <2>1. worker' = With(phase, worker.pc, worker.cases, worker.marks, worker.session, code)
    BY <1>1, OwnScript, WorkerFields
  <2> QED BY <2>1 DEF code, cases
<1>3. ToSet(worker.cases) \subseteq ToSet(cases) /\ cases = worker.cases
  OBVIOUS
<1> HIDE DEF cases
<1>4. \A hit : At(worker', hit) = At(worker, hit)
  BY <1>1, <1>2, OwnScript, SameAt
<1>5. Group \in flawed' \/ file'.group = Group
  BY <1>1 DEF Exact
<1> QED BY <1>1, <1>2, <1>3, <1>4, <1>5, PhaseKeeps

LEMMA SetupFailsKeeps ==
  ASSUME TurnInv, SetupFails
  PROVE  Exact' /\ Spared'
<1> DEFINE phase == "exited"
<1>1. worker # Idle /\ Group' = Group /\ Group \in flawed'
  BY DEF SetupFails, Idle, ParentWaits, Group
<1>2. PICK code \in {30, 31} : worker' = [worker EXCEPT !.phase = phase, !.code = code]
  BY DEF SetupFails, Exits
<1>3. phase = "exited" /\ code # 0
  OBVIOUS
<1> HIDE DEF phase
<1>4. worker' = With(phase, worker.pc, worker.cases, worker.marks, worker.session, code)
  BY <1>1, <1>2, OwnScript, WorkerFields
<1>5. worker'.phase = "exited" /\ worker'.code # 0
  BY <1>3, <1>4, WithFacts
<1> QED BY <1>1, <1>5, LostKeeps

LEMMA DieKeeps ==
  ASSUME TurnInv, Die
  PROVE  Exact' /\ Spared'
<1> DEFINE phase == "exited"
           code == 1
<1>1. worker # Idle /\ Group' = Group /\ Group \in flawed'
  BY DEF Die, Idle, ParentWaits, Group
<1>2. worker' = [worker EXCEPT !.phase = phase, !.code = code]
  BY DEF Die, Exits
<1>3. phase = "exited" /\ code # 0
  OBVIOUS
<1> HIDE DEF phase, code
<1>4. worker' = With(phase, worker.pc, worker.cases, worker.marks, worker.session, code)
  BY <1>1, <1>2, OwnScript, WorkerFields
<1>5. worker'.phase = "exited" /\ worker'.code # 0
  BY <1>3, <1>4, WithFacts
<1> QED BY <1>1, <1>5, LostKeeps

LEMMA WorkerKeeps ==
  ASSUME CampaignInv, Exact, Spared, FlawlessPasses, WorkerStep
  PROVE  Exact' /\ Spared' /\ FlawlessPasses'
<1>1. TurnInv /\ Moved
  BY WorkerMoves DEF CampaignInv
<1>2. FlawlessPasses'
  BY <1>1 DEF Moved, ParentWaits, FlawlessPasses
<1>3. CASE ScriptStep
  BY <1>1, <1>2, <1>3, ScriptGoes, GoesKeeps, ReturnKeeps
<1>4. CASE ~ScriptStep
  BY <1>1, <1>2, <1>4, ConfigureKeeps, SetupFailsKeeps, CleanUpKeeps, CleanUpFailsKeeps,
     DeliverKeeps, ExitKeeps, DieKeeps DEF WorkerStep
<1> QED BY <1>2, <1>3, <1>4

\* As many ids as cases, when no two cases have the same.
LEMMA Distinct ==
  ASSUME NEW cases, cases \in Seq(ToSet(cases)),
         \A i, j \in DOMAIN cases : cases[i].id = cases[j].id => i = j
  PROVE  Cardinality({c.id : c \in ToSet(cases)}) = Len(cases)
<1> DEFINE ids == {c.id : c \in ToSet(cases)}
           f == [i \in 1..Len(cases) |-> cases[i].id]
<1>1. DOMAIN cases = 1..Len(cases) /\ Len(cases) \in Nat
  BY LenProperties
<1>2. ids = {cases[i].id : i \in 1..Len(cases)}
  BY <1>1 DEF ToSet
<1>3. f \in Bijection(1..Len(cases), ids)
  <2>1. f \in [1..Len(cases) -> ids] /\ \A y \in ids : \E i \in 1..Len(cases) : f[i] = y
    BY <1>2
  <2>2. \A i, j \in 1..Len(cases) : f[i] = f[j] => i = j
    BY <1>1
  <2> HIDE DEF f, ids
  <2> QED BY <2>1, <2>2 DEF Bijection, Injection, Surjection, IsInjective
<1>4. IsFiniteSet(1..Len(cases)) /\ Cardinality(1..Len(cases)) = Len(cases)
  BY <1>1, FS_Interval
<1>5. ExistsBijection(1..Len(cases), ids)
  BY <1>3 DEF ExistsBijection
<1> HIDE DEF ids
<1>6. Cardinality(ids) = Len(cases)
  BY <1>4, <1>5, FS_Bijection
<1> QED BY <1>6 DEF ids

\* A group passes whose required cases passed, and no other case failed.
LEMMA PassSuffices ==
  ASSUME NEW cases, NEW required,
         cases \in Seq(ToSet(cases)), \A i, j \in DOMAIN cases : cases[i].id = cases[j].id => i = j,
         \A c \in ToSet(cases) : c.status \in {"pass", "unsupported"},
         \A id \in required : \E c \in ToSet(cases) : c = Case(id, "pass")
  PROVE  GroupStatus(cases, 0, required) = "pass"
<1> DEFINE ids == {c.id : c \in ToSet(cases)}
<1>1. Cardinality(ids) = Len(cases)
  BY Distinct
<1>2. \A id : Case(id, "pass").id = id /\ Case(id, "pass").status = "pass"
              /\ ~Case(id, "pass").observation
  BY DEF Case
<1>3. \A c, d \in ToSet(cases) : c.id = d.id => c = d
  BY DEF ToSet
<1>4. \A c \in ToSet(cases) : c.id \in required => c.status = "pass" /\ ~c.observation
  BY <1>2, <1>3
<1>5. required \subseteq ids
  BY <1>2
<1>6. ~ \E c \in ToSet(cases) : c.id \in required /\ c.observation
  BY <1>4
<1>7. /\ ~ \E c \in ToSet(cases) : c.id \in ids /\ c.status = "fail"
      /\ ~ \E c \in ToSet(cases) : c.id \in required /\ c.status = "unsupported"
      /\ ~ \E c \in ToSet(cases) : c.id \in ids /\ c.status = "blocked"
  BY <1>4
<1> QED BY <1>1, <1>5, <1>6, <1>7 DEF GroupStatus

\* The verdict on a group without a fault.
LEMMA FlawlessJudged ==
  ASSUME TurnInv, WorkerInv, Exact, worker # Idle, worker.phase = "exited", Group \notin flawed
  PROVE  Judged = "pass"
<1> DEFINE known == Sure(worker.script, {})[Len(worker.script)]
           cases == worker.cases
<1>1. /\ worker.code = 0 /\ cases = known.cases /\ file.group = Group
      /\ file.cases = cases
  BY DEF Exact, WorkerInv, HasJust, At
<1>2. /\ cases # <<>> /\ \A i, j \in DOMAIN cases : cases[i].id = cases[j].id => i = j
      /\ \A id \in Required[Group] : \E c \in ToSet(cases) : c = Case(id, "pass")
  BY <1>1, OwnScript DEF Complete
<1>3. /\ cases \in Seq(ToSet(cases))
      /\ \A c \in ToSet(cases) : c.status \in {"pass", "unsupported"}
  <2>1. Len(worker.script) \in 0..Len(worker.script) /\ Len(worker.script) \in Nat
    BY OwnScript
  <2>2. IsKnown(known)
    BY <2>1, SureFacts
  <2> QED BY <1>1, <2>2 DEF IsKnown
<1>4. [i \in DOMAIN cases |-> Sanitized(cases[i])] = cases
  <2>1. \A i \in DOMAIN cases : Sanitized(cases[i]) = cases[i]
    <3> TAKE i \in DOMAIN cases
    <3>1. cases[i].status # "malformed"
      BY <1>3 DEF ToSet
    <3> QED BY <3>1 DEF Sanitized
  <2>2. cases = [i \in DOMAIN cases |-> cases[i]]
    BY <1>3
  <2> HIDE DEF cases
  <2> QED BY <2>1, <2>2
<1> HIDE DEF cases, known
<1>5. GroupStatus(cases, 0, Required[Group]) = "pass"
  BY <1>2, <1>3, PassSuffices
<1> QED BY <1>1, <1>2, <1>4, <1>5 DEF Judged

\* A group settled passes if it ran without a fault.
LEMMA TurnPasses ==
  ASSUME FlawlessPasses, NEW s, Turn(s),
         launched' \subseteq launched \cup {Group}, flawed \subseteq flawed',
         Group \in launched' \ flawed' => s = "pass"
  PROVE  Exact' /\ Spared' /\ FlawlessPasses'
<1>1. /\ worker' = Idle
      /\ status' = [g \in DOMAIN status \cup {Group} |-> IF g = Group THEN s ELSE status[g]]
  BY DEF Turn
<1>2. FlawlessPasses'
  BY <1>1 DEF FlawlessPasses
<1>3. Exact' /\ Spared'
  BY <1>1 DEF Exact, Spared
<1> QED BY <1>2, <1>3

LEMMA LaunchExact ==
  ASSUME CampaignInv, FlawlessPasses, Launch
  PROVE  Exact' /\ Spared' /\ FlawlessPasses'
<1>1. /\ launched' = launched \cup {Group} /\ worker' = Fresh /\ Group' = Group
      /\ status' = status /\ flawed' = flawed
  BY DEF Launch, Group
<1>2. turn \in 1..Len(Groups) /\ worker = Idle
  BY DecidingFacts DEF Launch, Due
<1>3. Group \notin DOMAIN status
  BY <1>2, GroupFacts DEF CampaignInv, TurnInv
<1>4. FlawlessPasses'
  BY <1>1, <1>3 DEF FlawlessPasses
<1>5. /\ worker'.phase = "new" /\ worker'.script = Script[Group] /\ worker'.pc = 1
      /\ worker'.cases = <<>> /\ worker'.marks = {} /\ worker'.code = 0
  BY <1>1 DEF Fresh
<1>6. \A hit : At(worker', hit) = [cases |-> <<>>, marks |-> {}]
  <2>1. Len(Script[Group]) \in Nat
    BY <1>2, GroupFacts, LenProperties DEF IsScript
  <2>2. \A hit : Sure(Script[Group], hit)[0] = [cases |-> <<>>, marks |-> {}]
    BY <2>1, SureSteps
  <2>3. 1 - 1 = 0
    OBVIOUS
  <2> QED BY <1>5, <2>2, <2>3 DEF At
<1>7. \A hit : HasJust(At(worker', hit), worker')
  BY <1>5, <1>6 DEF HasJust
<1>8. \A hit : Covers(At(worker', hit), worker')
  BY <1>7, JustCovers
<1> QED BY <1>4, <1>5, <1>7, <1>8 DEF Exact, Spared

LEMMA ParentKeeps ==
  ASSUME CampaignInv, Exact, Spared, FlawlessPasses, ParentStep
  PROVE  Exact' /\ Spared' /\ FlawlessPasses'
<1>1. TurnInv /\ WorkerInv
  BY DEF CampaignInv
<1>2. CASE Skip \/ ScratchFails \/ Conclude
  <2>1. /\ UNCHANGED <<status, worker, launched, flawed>>
        /\ worker = Idle
    <3>1. CASE Skip
      BY <3>1 DEF Skip, Deciding
    <3>2. CASE ScratchFails
      BY <3>2 DEF ScratchFails, Due, Deciding
    <3>3. CASE Conclude
      BY <1>1, <3>3, Lengths DEF Conclude, Over, TurnInv
    <3> QED BY <1>2, <3>1, <3>2, <3>3
  <2>2. FlawlessPasses'
    BY <2>1 DEF FlawlessPasses
  <2> QED BY <2>1, <2>2 DEF Exact, Spared
<1>3. CASE Withhold
  <2>1. turn \in 1..Len(Groups) /\ worker = Idle
    BY <1>3, DecidingFacts DEF Withhold
  <2>2. Group \notin launched
    BY <1>1, <2>1, GroupFacts DEF TurnInv
  <2>3. Turn("blocked") /\ launched' = launched /\ flawed' = flawed
    BY <1>3 DEF Withhold
  <2> QED BY <2>2, <2>3, TurnPasses
<1>4. CASE Launch
  BY <1>4, LaunchExact
<1>5. CASE StartFails \/ Timeout \/ Unreadable
  <2>1. /\ Turn("fail") /\ flawed' = flawed \cup {Group}
        /\ launched' \subseteq launched \cup {Group}
    BY <1>5 DEF StartFails, Timeout, Unreadable
  <2> QED BY <2>1, TurnPasses
<1>6. CASE Collect
  <2>1. /\ worker # Idle /\ worker.phase = "exited" /\ Turn(Judged)
        /\ launched' = launched /\ flawed' = flawed
    BY <1>6 DEF Collect, Idle
  <2>2. Group \notin flawed => Judged = "pass"
    BY <1>1, <2>1, FlawlessJudged
  <2> QED BY <2>1, <2>2, TurnPasses
<1> QED BY <1>2, <1>3, <1>4, <1>5, <1>6 DEF ParentStep

-----------------------------------------------------------------------------
(* What faults leave alone *)

SparedInv == CampaignInv /\ Exact /\ Spared /\ FlawlessPasses

\* The invariant of what is sure: see Exact and Spared.
THEOREM SparedInvariant == Spec => []SparedInv
<1>1. Init => SparedInv
  <2> SUFFICES ASSUME Init PROVE SparedInv
    OBVIOUS
  <2>1. worker = Idle /\ DOMAIN status = {}
    BY DEF Init
  <2>2. CampaignInv
    BY InitHolds
  <2> QED BY <2>1, <2>2 DEF SparedInv, Exact, Spared, FlawlessPasses
<1>2. SparedInv /\ [Next]_vars => SparedInv'
  <2> SUFFICES ASSUME SparedInv, [Next]_vars PROVE SparedInv'
    OBVIOUS
  <2>1. CampaignInv /\ Exact /\ Spared /\ FlawlessPasses /\ CampaignInv'
    BY StepKeeps DEF SparedInv
  <2>2. CASE WorkerStep
    BY <2>1, <2>2, WorkerKeeps DEF SparedInv
  <2>3. CASE ParentStep
    BY <2>1, <2>3, ParentKeeps DEF SparedInv
  <2>4. CASE UNCHANGED vars
    <3>1. Group' = Group /\ Hits' = Hits
      BY <2>4 DEF vars, Group, Hits
    <3>2. Exact'
      BY <2>1, <2>4, <3>1 DEF vars, Exact
    <3>3. Spared'
      BY <2>1, <2>4, <3>1 DEF vars, Spared
    <3>4. FlawlessPasses'
      BY <2>1, <2>4 DEF vars, FlawlessPasses
    <3> QED BY <2>1, <3>2, <3>3, <3>4 DEF SparedInv
  <2> QED BY <2>2, <2>3, <2>4 DEF Next
<1> QED BY <1>1, <1>2, PTL DEF Spec

\* A group that met no fault is not failed by the machinery around it: its worker
\* records exactly what its script is sure of, each required case once and as a
\* pass, delivers all of it and is judged by it (Recorder, _child.main, _run_child
\* and _group_status).
THEOREM FlawlessPassesAlways == Spec => []FlawlessPasses
<1>1. SparedInv => FlawlessPasses
  BY DEF SparedInv
<1> QED BY <1>1, SparedInvariant, PTL

\* A fault of one object hides no case of another: whatever went wrong with other
\* objects, the required cases of an object are there and passed when the group
\* comes to its end (the guards and _block_missing of the group functions).
THEOREM FailureIsLocalAlways == Spec => []FailureIsLocal
<1>1. SparedInv => FailureIsLocal
  <2> SUFFICES ASSUME SparedInv, worker.phase = "deliver", worker.code = 0,
                      NEW f \in Families[Group],
                      {x[1] : x \in struck} \subseteq UNION (Families[Group] \ {f}) \ f,
                      NEW id \in f \cap Required[Group]
               PROVE  \E c \in ToSet(worker.cases) : c.id = id /\ c.status = "pass"
    BY DEF FailureIsLocal
  <2> DEFINE hit == UNION (Families[Group] \ {f}) \ f
             x == <<f, hit>>
  <2>1. TurnInv /\ Spared /\ worker # Idle
    BY DEF SparedInv, CampaignInv, Idle
  <2>2. x \in Others(Group) /\ x[1] = f /\ x[2] = hit
    BY DEF Others
  <2>3. Hits \subseteq hit
    BY DEF Hits
  <2>4. Covers(At(worker, hit), worker)
    <3> HIDE DEF hit, x
    <3> QED BY <2>1, <2>2, <2>3 DEF Spared, Coming
  <2>5. At(worker, hit) = Sure(worker.script, hit)[Len(worker.script)]
    BY DEF At
  <2>6. \E c \in ToSet(Sure(worker.script, hit)[Len(worker.script)].cases) :
          c.id = id /\ c.status = "pass"
    <3>1. Independent(Group) /\ worker.script = Script[Group]
      BY <2>1, OwnScript
    <3> HIDE DEF hit, x
    <3> QED BY <2>2, <3>1 DEF Independent
  <2> QED BY <2>4, <2>5, <2>6 DEF Covers
<1> QED BY <1>1, SparedInvariant, PTL
=============================================================================
