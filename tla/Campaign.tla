------------------------------ MODULE Campaign ------------------------------
(* The validation campaign: the parent (run and _run_child of                  *)
(* validation/__init__.py) goes through the selected groups, launches a worker  *)
(* for each (_process.py, _child.py), waits for it with a timeout, reads its    *)
(* result file and judges it. The worker runs the script of the group (Groups)  *)
(* with its Recorder (_report.py), finalizes, delivers its cases and exits.     *)
(* Every step of it may fail, at most MaxFaults times a worker; the process may *)
(* die or hang at any point.                                                    *)
(* A definition marked "Mutant" is not part of the model: it is the next one    *)
(* with a plausible bug, and shows that a property can fail.                    *)
EXTENDS Scripts

CONSTANTS Selections,   \* the sets of groups a campaign may be asked for
          Reasons,      \* what can block all native groups, and "none"
          MaxFaults     \* the steps of one worker that may go wrong

ASSUME SelectionsAssumption == Selections \subseteq SUBSET ToSet(Groups)
ASSUME FaultsAssumption == MaxFaults \in Nat

VARIABLES
    selected, reason,   \* the options, and what the preflight found
    turn,               \* the index in Groups of the group considered
    status,             \* the status of each group of the report so far
    result,             \* the result of the report; "none" before its end, "raised"
                        \* when the parent ended without a report
    worker,             \* the process of the current group, or Idle
    file,               \* what its result file holds, or NoFile
    launched, flawed,   \* history: groups launched, groups that met any fault
    struck              \* history: the steps of this worker that went wrong

vars == <<selected, reason, turn, status, result, worker, file, launched, flawed, struck>>

Idle == [phase |-> "idle"]
NoFile == [group |-> "none", cases |-> <<>>]
DependentGroups == ToSet(Groups) \ {"lifecycle"}

Group == Groups[turn]
Over == turn > Len(Groups)
Running == worker.phase = "running"
Fresh == [phase |-> "new", script |-> Script[Group], pc |-> 1, cases |-> <<>>,
          marks |-> {}, session |-> FALSE, code |-> 0]

Init ==
    /\ selected \in Selections
    /\ reason \in Reasons
    /\ turn = 1
    /\ status = <<>>
    /\ result = "none"
    /\ worker = Idle
    /\ file = NoFile
    /\ launched = {}
    /\ flawed = {}
    /\ struck = {}

-----------------------------------------------------------------------------
(* The recorder and the script. *)

\* What passed, as far as the worker knows: its cases and the nested launches.
Passed == PassedIn(worker)

\* Mutant: after a failed case nothing more is run.
MutRuns(s) ==
    /\ s.when \subseteq Passed
    /\ \A c \in ToSet(worker.cases) : c.status # "fail"

Runs(s) == s.when \subseteq Passed /\ (s.unless = {} \/ ~ s.unless \subseteq Passed)

\* The next step of the script that its guards let run; past the end, none.
Pc == LET script == worker.script
      IN  CHOOSE j \in worker.pc .. Len(script) + 1 :
            /\ j <= Len(script) => Runs(script[j])
            /\ \A i \in worker.pc .. j - 1 : ~ Runs(script[i])
Ended == Pc > Len(worker.script)
Now == worker.script[Pc]

\* The worker after its current step, with the cases the step recorded.
Recorded(cases) == [worker EXCEPT !.cases = @ \o cases, !.pc = Pc + 1]

\* Mutant: cases are blocked whether or not they have a record.
MutBlocked(ids) == [i \in DOMAIN ids |-> Case(ids[i], "blocked")]

\* _block_missing and _block: the ids that have no record yet, in their order.
Blocked(ids) ==
    LET present == {c.id : c \in ToSet(worker.cases)}
        absent == SelectSeq(ids, LAMBDA i : i \notin present)
        number == Cardinality({i \in DOMAIN ids : ids[i] \notin present})
    IN  [i \in 1..number |-> Case(absent[i], "blocked")]

\* An error that escapes a step ends the callable it runs in, which the check
\* around it records; outside of any, it ends the group function.
EndsIt(j) == worker.script[j].op = "close" /\ worker.script[j].id = Now.in
Raised ==
    IF Now.in = "none"
    THEN [worker EXCEPT !.cases = Append(@, Case("group_exception", "fail")),
                        !.code = 32, !.phase = "cleanup"]
    ELSE LET end == CHOOSE j \in Pc .. Len(worker.script) :
                        EndsIt(j) /\ \A i \in Pc .. j - 1 : ~ EndsIt(i)
         IN  [worker EXCEPT !.cases = Append(@, Case(Now.in, "fail")), !.pc = end + 1]

\* A step goes wrong.
Fault(id) ==
    /\ Cardinality(struck) < MaxFaults
    /\ struck' = struck \cup {<<id, Pc>>}
    /\ flawed' = flawed \cup {Group}
Fine == UNCHANGED <<struck, flawed>>
ParentWaits == UNCHANGED <<selected, reason, turn, status, result, launched>>
InScript(ops) ==
    /\ Running
    /\ ~ Ended
    /\ Now.op \in ops
    /\ UNCHANGED file
    /\ ParentWaits

Pass ==
    /\ InScript({"check", "equal", "close", "adopt", "probe"})
    /\ Now.given \subseteq Passed
    /\ worker' = [Recorded(<<Case(Now.id, "pass")>>) EXCEPT
                    !.session = CASE Now.id = "initialize" -> TRUE
                                  [] Now.id = "finalize" -> FALSE
                                  [] OTHER -> @]
    /\ Fine

\* A check that cannot pass needs no fault of its own to fail.
Fail ==
    /\ InScript({"check", "equal", "close", "adopt"})
    /\ worker' = Recorded(<<Case(Now.id, "fail")>>)
    /\ IF Now.given \subseteq Passed THEN Fault(Now.id) ELSE Fine

\* A record the schema of the parent refuses. A nested one is not adopted.
Malform ==
    /\ InScript({"check", "equal", "adopt", "fact"})
    /\ worker' = Recorded(<<IF Now.op = "adopt" THEN Case(Now.of \o ":malformed", "fail")
                            ELSE IF Now.op = "fact" THEN Observation(Now.id, "malformed")
                            ELSE Case(Now.id, "malformed")>>)
    /\ Fault(Now.id)

Raise ==
    /\ InScript({"equal", "bare", "init"})
    /\ worker' = Raised
    /\ Fault(Now.id)

Quiet ==
    /\ InScript({"bare", "init"})
    /\ worker' = [Recorded(<<>>) EXCEPT !.session = @ \/ Now.op = "init"]
    /\ Fine

Observe ==
    /\ InScript({"fact", "unsupported"})
    /\ worker' = Recorded(<<IF Now.op = "fact" THEN Observation(Now.id, "pass")
                            ELSE Case(Now.id, "unsupported")>>)
    /\ Fine

BlockMissing ==
    /\ InScript({"block"})
    /\ worker' = Recorded(Blocked(Now.ids))
    /\ Fine

SumUp ==
    /\ InScript({"sum"})
    /\ worker' = Recorded(<<Case(Now.id, IF Now.given \subseteq Passed
                                         THEN "pass" ELSE "fail")>>)
    /\ Fine

Unavailable ==
    /\ InScript({"probe"})
    /\ worker' = Recorded(<<Case(Now.id, "blocked")>>)
    /\ Fault(Now.id)

\* A nested worker that has nothing to report fails its launch.
Parts == HasParts(worker.script, Now.id, Passed)
Spawn ==
    /\ InScript({"spawn"})
    /\ Parts
    /\ worker' = [Recorded(<<>>) EXCEPT !.marks = @ \cup {Now.id}]
    /\ Fine

SpawnFails ==
    /\ InScript({"spawn"})
    /\ worker' = Recorded(<<Case(Now.id, "fail")>>)
    /\ IF Parts THEN Fault(Now.id) ELSE Fine

Return ==
    /\ Running
    /\ IF Ended THEN TRUE ELSE Now.op = "stop"
    /\ worker' = [worker EXCEPT !.phase = "cleanup"]
    /\ Fine
    /\ UNCHANGED file
    /\ ParentWaits

-----------------------------------------------------------------------------
(* The worker process (_child.main) around the script. *)

Exits(code) == worker' = [worker EXCEPT !.phase = "exited", !.code = code]

\* The configuration is read and the session built, or the worker exits: with
\* 30 and no result, or with 31 and a result without cases.
Configure ==
    /\ worker.phase = "new"
    /\ worker' = [worker EXCEPT !.phase = "running"]
    /\ UNCHANGED <<file, struck, flawed>>
    /\ ParentWaits

SetupFails ==
    /\ worker.phase = "new"
    /\ \E code \in {30, 31} :
        /\ Exits(code)
        /\ file' = IF code = 31 THEN [group |-> Group, cases |-> <<>>] ELSE file
    /\ flawed' = flawed \cup {Group}
    /\ UNCHANGED struck
    /\ ParentWaits

\* The finally clause: a session still initialized is finalized.
CleanUp ==
    /\ worker.phase = "cleanup"
    /\ worker' = [worker EXCEPT !.phase = "deliver", !.session = FALSE]
    /\ UNCHANGED <<file, struck, flawed>>
    /\ ParentWaits

CleanUpFails ==
    /\ worker.phase = "cleanup"
    /\ worker.session
    /\ worker' = [worker EXCEPT !.phase = "deliver",
                                !.cases = Append(@, Case("finalize_in_cleanup", "fail"))]
    /\ flawed' = flawed \cup {Group}
    /\ UNCHANGED <<file, struck>>
    /\ ParentWaits

\* write_result: the document appears complete, by the rename.
Deliver ==
    /\ worker.phase = "deliver"
    /\ file' = [group |-> Group, cases |-> worker.cases]
    /\ worker' = [worker EXCEPT !.phase = "delivered"]
    /\ Fine
    /\ ParentWaits

Exit ==
    /\ worker.phase = "delivered"
    /\ Exits(worker.code)
    /\ UNCHANGED <<file, struck, flawed>>
    /\ ParentWaits

\* The process dies, also after it delivered: a crash of the library, a kill,
\* an interrupt, which the recorder records and raises again.
Die ==
    /\ worker.phase \notin {"idle", "exited"}
    /\ Exits(1)
    /\ flawed' = flawed \cup {Group}
    /\ UNCHANGED <<file, struck>>
    /\ ParentWaits

-----------------------------------------------------------------------------
(* The parent. *)

Turn(s) ==
    /\ status' = [g \in DOMAIN status \cup {Group} |-> IF g = Group THEN s ELSE status[g]]
    /\ turn' = turn + 1
    /\ worker' = Idle
    /\ file' = NoFile
    /\ struck' = {}
    /\ UNCHANGED <<selected, reason, result>>

\* Mutant: a lifecycle that did not fail is taken for one that passed.
MutLifecycleMissing ==
    /\ Group \in DependentGroups
    /\ "lifecycle" \in selected
    /\ status["lifecycle"] = "blocked"

LifecycleMissing ==
    /\ Group \in DependentGroups
    /\ "lifecycle" \in selected
    /\ status["lifecycle"] # "pass"

Deciding == ~ Over /\ worker = Idle /\ result = "none"

\* The group is to be run.
Due == Deciding /\ Group \in selected /\ reason = "none" /\ ~ LifecycleMissing

Skip ==
    /\ Deciding
    /\ Group \notin selected
    /\ turn' = turn + 1
    /\ UNCHANGED <<selected, reason, status, result, worker, file, launched, flawed, struck>>

Withhold ==
    /\ Deciding
    /\ Group \in selected
    /\ reason # "none" \/ LifecycleMissing
    /\ Turn("blocked")
    /\ UNCHANGED <<launched, flawed>>

\* _run_child: the scratch directory of the group is made, then the worker started.
Launch ==
    /\ Due
    /\ launched' = launched \cup {Group}
    /\ worker' = Fresh
    /\ UNCHANGED <<selected, reason, turn, status, result, file, flawed, struck>>

\* The directory cannot be made: the error is caught by neither _run_child nor run,
\* and the parent ends without a report.
ScratchFails ==
    /\ Due
    /\ result' = "raised"
    /\ UNCHANGED <<selected, reason, turn, status, worker, file, launched, flawed, struck>>

\* The process cannot be started, which is caught.
StartFails ==
    /\ Due
    /\ launched' = launched \cup {Group}
    /\ flawed' = flawed \cup {Group}
    /\ Turn("fail")

\* Mutant: the timeout watches for the result, not for the end of the process.
MutPatience == worker.phase \notin {"idle", "exited", "delivered"}

\* run_child: the timeout kills the tree and the result is not looked at.
Patience == worker.phase \notin {"idle", "exited"}

Timeout ==
    /\ Patience
    /\ flawed' = flawed \cup {Group}
    /\ Turn("fail")
    /\ UNCHANGED launched

\* sanitize_case: a malformed record keeps its id and fails.
Sanitized(c) == IF c.status = "malformed" THEN [c EXCEPT !.status = "fail"] ELSE c

\* _group_status, of the sanitized cases and the exit code.
GroupStatus(cases, code, required) ==
    LET have(s, ids) == \E c \in ToSet(cases) : c.id \in ids /\ c.status = s
        ids == {c.id : c \in ToSet(cases)}
    IN  CASE Cardinality(ids) # Len(cases) -> "fail"
          [] \E c \in ToSet(cases) : c.id \in required /\ c.observation -> "fail"
          [] code # 0 \/ ~ required \subseteq ids -> "fail"
          [] have("fail", ids) -> "fail"
          [] have("unsupported", required) -> "fail"
          [] have("blocked", ids) -> "blocked"
          [] OTHER -> "pass"

\* Mutant: a complete result is enough, however the process ended.
MutJudged ==
    IF file.group # Group \/ file.cases = <<>>
    THEN "fail"
    ELSE GroupStatus([i \in DOMAIN file.cases |-> Sanitized(file.cases[i])],
                     0, Required[Group])

\* _run_child after the worker ended: its code, then its result, then its cases.
Judged ==
    IF worker.code \notin {0, 32} \/ file.group # Group \/ file.cases = <<>>
    THEN "fail"
    ELSE GroupStatus([i \in DOMAIN file.cases |-> Sanitized(file.cases[i])],
                     worker.code, Required[Group])

Collect ==
    /\ worker.phase = "exited"
    /\ Turn(Judged)
    /\ UNCHANGED <<launched, flawed>>

\* The result file cannot be read, or is larger than the parent accepts.
Unreadable ==
    /\ worker.phase = "exited"
    /\ flawed' = flawed \cup {Group}
    /\ Turn("fail")
    /\ UNCHANGED launched

\* The result of the report.
Verdict ==
    IF DOMAIN status # {} /\ \A g \in DOMAIN status : status[g] = "pass" THEN "PASS"
    ELSE IF \E g \in DOMAIN status : status[g] = "fail" THEN "FAIL" ELSE "BLOCKED"

Conclude ==
    /\ Over
    /\ result = "none"
    /\ result' = Verdict
    /\ UNCHANGED <<selected, reason, turn, status, worker, file, launched, flawed, struck>>

ScriptStep == \/ Pass \/ Fail \/ Malform \/ Raise \/ Quiet \/ Observe \/ BlockMissing
              \/ SumUp \/ Unavailable \/ Spawn \/ SpawnFails \/ Return
WorkerStep == \/ ScriptStep \/ Configure \/ SetupFails \/ CleanUp \/ CleanUpFails
              \/ Deliver \/ Exit \/ Die
ParentStep == \/ Skip \/ Withhold \/ Launch \/ ScratchFails \/ StartFails
              \/ Timeout \/ Collect \/ Unreadable \/ Conclude

Next == WorkerStep \/ ParentStep

Spec == Init /\ [][Next]_vars

\* The worker may hang, so it gets no fairness. The parent goes on, and the
\* timeout of its wait comes when nothing else does.
FairSpec == Spec /\ WF_vars(Skip \/ Withhold \/ Launch \/ ScratchFails \/ StartFails)
                 /\ WF_vars(Collect \/ Unreadable) /\ WF_vars(Timeout)
                 /\ WF_vars(Conclude)

-----------------------------------------------------------------------------
(* Properties. *)

\* A group that met any fault, in a step, in its process, in its result, never
\* passes; a campaign passes only when every selected group ran free of one, and
\* its report names them all.
PassIsEarned ==
    /\ \A g \in DOMAIN status : status[g] = "pass" => g \in launched \ flawed
    /\ result = "PASS" => selected \subseteq launched \ flawed
    /\ result \notin {"none", "raised"} => DOMAIN status = selected

\* A group that ran free of faults passes: every required case is one the
\* script records, once, as a passing assertion.
FlawlessPasses ==
    \A g \in DOMAIN status : g \in launched \ flawed => status[g] = "pass"

\* A failure of one object never hides another: when all that went wrong in a
\* group that came to its end is about some objects, every other object has all
\* its cases, and they passed.
FailureIsLocal ==
    worker.phase = "deliver" /\ worker.code = 0 /\ struck # {} =>
        \A f \in Families[Group] :
            {x[1] : x \in struck} \subseteq UNION (Families[Group] \ {f}) \ f =>
                \A id \in f \cap Required[Group] :
                    \E c \in ToSet(worker.cases) : c.id = id /\ c.status = "pass"

\* Once lifecycle is asked for and met a fault, no other group is launched.
LifecycleFirst ==
    "lifecycle" \in flawed => launched = {"lifecycle"}

\* Whether or not its workers end, a campaign does: no worker keeps the parent
\* waiting for ever, and then there is a report, unless the parent itself raised
\* over the directory of a group.
CampaignEnds == (worker # Idle ~> worker = Idle) /\ <>(result # "none")
=============================================================================
