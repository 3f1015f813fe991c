--------------------------- MODULE MigrationProofs ---------------------------
(***************************************************************************)
(* Proofs about Migration, for every number of runs, paths and objects and *)
(* for every policy.                                                       *)
(*                                                                         *)
(* First, unless somebody else removes claims, a run that works on a       *)
(* destination still owns its claim there, and so nothing that exists at a *)
(* path is ever overwritten or removed.  ClaimHeld is not inductive: a run *)
(* must also have a destination that is a path from its first check on.    *)
(*                                                                         *)
(* Then, what the outcomes, the counts and the mark of a run promise about *)
(* the objects in its archive.  The three properties need an account of    *)
(* the whole run: which objects are still to do, that the name a run       *)
(* writes to belongs to no object it has stored, what is in the object it  *)
(* holds between two writes, and what has been decided and marked.  RunOK  *)
(* states that account of one run from its place, its variables and its    *)
(* archive alone, so that a step of one run has nothing to show of the     *)
(* others.                                                                 *)
(*                                                                         *)
(* Last, the collision scan of plan_migration finds exactly the objects    *)
(* that share a name with another.  The scan is a recursive function; that *)
(* it exists, and what it returns after n names, is shown by least         *)
(* counterexample (Least).                                                 *)
(***************************************************************************)
EXTENDS Migration, FiniteSetTheorems, Sequences, WellFoundedInduction, TLAPS

-----------------------------------------------------------------------------
(* Claims *)

Started == {"plan", "claim"} \cup Working

ClaimInv ==
  /\ file \in [Paths -> Files]
  /\ pc \in [Runs -> PCs]
  /\ target \in [Runs -> Paths \cup {None}]
  /\ \A r \in Runs : pc[r] \in Started => target[r] \in Paths
  /\ ClaimHeld

\* A step of a run that leaves every file and destination, and goes on to a
\* step that needs no more of them than the one it comes from.
LEMMA MovesOn ==
  ASSUME ClaimInv, NEW r \in Runs, NEW where \in PCs, Goto(r, where),
         UNCHANGED <<file, target>>,
         where \in Started => pc[r] \in Started,
         where \in Working => pc[r] \in Working
  PROVE  ClaimInv'
<1>1. pc' \in [Runs -> PCs] /\ pc'[r] = where /\ \A q \in Runs \ {r} : pc'[q] = pc[q]
  BY DEF ClaimInv, Goto
<1> QED BY <1>1 DEF ClaimInv, ClaimHeld, Started

\* A step that leaves every run where it is keeps its claim.
LEMMA StaysPut ==
  ASSUME ClaimInv, UNCHANGED <<pc, target>>, file' \in [Paths -> Files],
         \A p \in Paths, r \in Runs : file[p] = Claim(r) => file'[p] = Claim(r)
  PROVE  ClaimInv'
BY DEF ClaimInv, ClaimHeld, Started

\* The files of two runs, and of nobody, are different.
LEMMA FilesDiffer ==
  ASSUME NEW r \in Runs, NEW q \in Runs
  PROVE  /\ Claim(r) \notin {None, Foreign, Archive(q)}
         /\ Archive(r) \notin {None, Foreign}
         /\ Claim(r) = Claim(q) => r = q
<1>1. Claim(r).kind = "claim" /\ Archive(q).kind = "archive"
  BY DEF Claim, Archive
<1>2. Claim(r).run = r /\ Claim(q).run = q
  BY DEF Claim
<1> QED BY <1>1, <1>2, FilesDistinct

LEMMA ClaimInit == ASSUME Init PROVE ClaimInv
<1>1. file \in [Paths -> Files]
  BY DEF Init, Files
<1>2. \A r \in Runs : pc[r] = "idle" /\ "idle" \notin Started
  BY DEF Init, Started, Working
<1>3. pc \in [Runs -> PCs] /\ target \in [Runs -> Paths \cup {None}]
  BY DEF Init, PCs
<1> QED BY <1>1, <1>2, <1>3 DEF ClaimInv, ClaimHeld, Started

\* The steps that touch a destination: the first check, the claim, the move
\* onto it, its removal.
LEMMA BeginStep ==
  ASSUME ClaimInv, NEW r \in Runs, NEW p \in Paths, Begin(r, p)
  PROVE  ClaimInv'
<1>1. /\ target' = [target EXCEPT ![r] = p] /\ UNCHANGED file
      /\ pc'[r] \in {"plan", "refused"} /\ \A q \in Runs \ {r} : pc'[q] = pc[q]
      /\ pc' \in [Runs -> PCs]
  BY DEF Begin, Goto, ClaimInv, PCs, Ended
<1>2. pc'[r] \notin Working
  BY <1>1 DEF Working
<1> QED BY <1>1, <1>2 DEF ClaimInv, ClaimHeld, Started

LEMMA ClaimStep ==
  ASSUME ClaimInv, NEW r \in Runs, ClaimPath(r)
  PROVE  ClaimInv'
<1>1. CASE file[target[r]] # None
  <2>1. Goto(r, "refused") /\ UNCHANGED <<file, target>>
    BY <1>1 DEF ClaimPath
  <2>2. "refused" \in PCs /\ "refused" \notin Started
    BY DEF PCs, Ended, Started, Working
  <2> QED BY <2>1, <2>2, MovesOn DEF Started
<1>2. CASE file[target[r]] = None
  <2>1. pc[r] = "claim" /\ target[r] \in Paths
    BY DEF ClaimPath, ClaimInv, Started
  <2>2. /\ file' = [file EXCEPT ![target[r]] = Claim(r)] /\ UNCHANGED target
        /\ pc' = [pc EXCEPT ![r] = "claimed"]
    BY <1>2 DEF ClaimPath, Goto
  <2>3. file' \in [Paths -> Files] /\ pc' \in [Runs -> PCs]
    BY <2>2 DEF ClaimInv, Files, PCs, Working
  <2>4. ASSUME NEW q \in Runs, pc'[q] \in Working PROVE file'[target'[q]] = Claim(q)
    <3>1. CASE q = r
      BY <3>1, <2>1, <2>2 DEF ClaimInv
    <3>2. CASE q # r
      <4>1. pc[q] \in Working /\ target[q] \in Paths /\ file[target[q]] = Claim(q)
        BY <3>2, <2>2, <2>4 DEF ClaimInv, ClaimHeld, Started
      <4>2. target[q] # target[r]
        BY <4>1, <1>2, FilesDiffer
      <4> QED BY <4>1, <4>2, <2>2 DEF ClaimInv
    <3> QED BY <3>1, <3>2
  <2>5. \A q \in Runs : pc'[q] \in Started => target'[q] \in Paths
    BY <2>1, <2>2 DEF ClaimInv
  <2> QED BY <2>2, <2>3, <2>4, <2>5 DEF ClaimInv, ClaimHeld
<1> QED BY <1>1, <1>2

\* Removing or moving onto one's own claim.
LEMMA LeaveStep ==
  ASSUME ClaimInv, NEW r \in Runs, NEW f \in Files, NEW where \in {"done", "stopped"},
         pc[r] \in Working, file' = [file EXCEPT ![target[r]] = f],
         Goto(r, where), UNCHANGED target
  PROVE  ClaimInv'
<1>1. target[r] \in Paths /\ file[target[r]] = Claim(r)
  BY DEF ClaimInv, ClaimHeld, Started
<1>2. /\ where \in PCs /\ where \notin Started
      /\ pc' \in [Runs -> PCs] /\ pc'[r] = where /\ \A q \in Runs \ {r} : pc'[q] = pc[q]
  BY DEF Goto, ClaimInv, PCs, Ended, Started, Working
<1>3. file' \in [Paths -> Files]
  BY DEF ClaimInv
<1>4. ASSUME NEW q \in Runs, pc'[q] \in Working PROVE file'[target'[q]] = Claim(q)
  <2>1. q # r /\ pc[q] \in Working
    BY <1>2, <1>4 DEF Started
  <2>2. target[q] \in Paths /\ file[target[q]] = Claim(q)
    BY <2>1 DEF ClaimInv, ClaimHeld, Started
  <2>3. target[q] # target[r]
    BY <1>1, <2>1, <2>2, FilesDiffer
  <2> QED BY <2>2, <2>3 DEF ClaimInv
<1>5. \A q \in Runs : pc'[q] \in Started => target'[q] \in Paths
  BY <1>2 DEF ClaimInv
<1> QED BY <1>2, <1>3, <1>4, <1>5 DEF ClaimInv, ClaimHeld

\* Every other step of a run.
LEMMA QuietStep ==
  ASSUME ClaimInv, NEW r \in Runs,
         \/ CheckPlan(r) \/ PlanRaises(r) \/ ClaimRaises(r) \/ NamePartial(r)
         \/ OpenPartial(r) \/ MarkStarted(r) \/ MarkPlanned(r)
         \/ \E o \in Objects : ReadObject(r, o)
         \/ WriteData(r) \/ WriteMask(r) \/ SetKind(r) \/ SetAttributes(r) \/ StoreFails(r)
         \/ LoopEnds(r) \/ Decide(r) \/ SetWritten(r) \/ SetStatus(r)
         \/ Raises(r) \/ LoopRaises(r) \/ Release(r) \/ LeavesClaim(r) \/ Crash(r)
  PROVE  ClaimInv'
<1>1. ASSUME CheckPlan(r) \/ PlanRaises(r) \/ ClaimRaises(r) PROVE ClaimInv'
  <2>1. PICK where \in {"claim", "refused"} : Goto(r, where)
    BY <1>1 DEF CheckPlan, PlanRaises, ClaimRaises
  <2>2. pc[r] \in Started /\ where \in PCs /\ where \notin Working /\ UNCHANGED <<file, target>>
    BY <1>1 DEF CheckPlan, PlanRaises, ClaimRaises, Started, PCs, Ended, Working
  <2> QED BY <2>1, <2>2, MovesOn
<1>2. ASSUME \/ NamePartial(r) \/ OpenPartial(r) \/ MarkStarted(r) \/ MarkPlanned(r)
             \/ \E o \in Objects : ReadObject(r, o)
             \/ WriteData(r) \/ WriteMask(r) \/ SetKind(r) \/ SetAttributes(r) \/ StoreFails(r)
             \/ LoopEnds(r) \/ Decide(r) \/ SetWritten(r) \/ SetStatus(r)
             \/ Raises(r) \/ LoopRaises(r) \/ Release(r) \/ LeavesClaim(r)
      PROVE  ClaimInv'
  <2>1. UNCHANGED <<file, target>> /\ pc[r] \in Working
    BY <1>2 DEF NamePartial, OpenPartial, MarkStarted, MarkPlanned, ReadObject, WriteData, WriteMask,
         SetKind, SetAttributes, StoreFails, LoopEnds, Decide, SetWritten, SetStatus,
         Raises, LoopRaises, Release, LeavesClaim, Working
  <2>2. \E where \in Working \cup {"stopped", "left"} : Goto(r, where)
    BY <1>2 DEF NamePartial, OpenPartial, MarkStarted, MarkPlanned, ReadObject, WriteData, WriteMask,
         SetKind, SetAttributes, StoreFails, Finish, LoopEnds, Decide, SetWritten, SetStatus,
         Raises, LoopRaises, Release, LeavesClaim, Working
  <2>3. PICK where \in Working \cup {"stopped", "left"} : Goto(r, where)
    BY <2>2
  <2>4. where \in PCs /\ pc[r] \in Started /\ (where \in Started => where \in Working)
    BY <2>1, <2>3 DEF PCs, Ended, Started, Working
  <2> QED BY <2>1, <2>3, <2>4, MovesOn
<1>3. ASSUME Crash(r) PROVE ClaimInv'
  <2>1. Goto(r, "crashed") /\ UNCHANGED <<file, target>>
    BY <1>3 DEF Crash
  <2>2. "crashed" \in PCs /\ "crashed" \notin Started /\ "crashed" \notin Working
    BY DEF PCs, Ended, Started, Working
  <2> QED BY <2>1, <2>2, MovesOn
<1> QED BY <1>1, <1>2, <1>3

LEMMA ClaimInvStep ==
  ASSUME ClaimInv, [Next]_vars, "remove" \notin Outsiders
  PROVE  ClaimInv'
<1>1. ASSUME NEW r \in Runs, PlanAhead(r) \/ \E o \in Objects : ReadFails(r, o) PROVE ClaimInv'
  <2>1. UNCHANGED <<pc, file, target>>
    BY <1>1 DEF PlanAhead, ReadFails
  <2> QED BY <2>1, StaysPut DEF ClaimInv
<1>2. ASSUME NEW r \in Runs, NEW p \in Paths, Begin(r, p) PROVE ClaimInv'
  BY <1>2, BeginStep
<1>3. ASSUME NEW r \in Runs, ClaimPath(r) PROVE ClaimInv'
  BY <1>3, ClaimStep
<1>4. ASSUME NEW r \in Runs, Replace(r) PROVE ClaimInv'
  <2>1. /\ Archive(r) \in Files /\ pc[r] \in Working /\ Goto(r, "done") /\ UNCHANGED target
        /\ file' = [file EXCEPT ![target[r]] = Archive(r)]
    BY <1>4 DEF Replace, Files, Working
  <2> QED BY <2>1, LeaveStep
<1>5. ASSUME NEW r \in Runs, Unlink(r) PROVE ClaimInv'
  <2>1. /\ None \in Files /\ pc[r] \in Working /\ Goto(r, "stopped") /\ UNCHANGED target
        /\ file' = [file EXCEPT ![target[r]] = None]
    BY <1>5 DEF Unlink, Files, Working
  <2> QED BY <2>1, LeaveStep
<1>6. ASSUME NEW r \in Runs, Proceed(r) \/ Crash(r) PROVE ClaimInv'
  <2>1. \/ ClaimPath(r) \/ Replace(r) \/ Unlink(r) \/ \E o \in Objects : ReadFails(r, o)
        \/ CheckPlan(r) \/ PlanRaises(r) \/ ClaimRaises(r) \/ NamePartial(r)
        \/ OpenPartial(r) \/ MarkStarted(r) \/ MarkPlanned(r)
        \/ \E o \in Objects : ReadObject(r, o)
        \/ WriteData(r) \/ WriteMask(r) \/ SetKind(r) \/ SetAttributes(r) \/ StoreFails(r)
        \/ LoopEnds(r) \/ Decide(r) \/ SetWritten(r) \/ SetStatus(r)
        \/ Raises(r) \/ LoopRaises(r) \/ Release(r) \/ LeavesClaim(r) \/ Crash(r)
    BY <1>6 DEF Proceed
  <2> QED BY <2>1, <1>1, <1>3, <1>4, <1>5, QuietStep
<1>7. ASSUME Environment PROVE ClaimInv'
  <2>1. CASE UNCHANGED <<pc, file, target>>
    BY <2>1, StaysPut DEF ClaimInv
  <2>2. ASSUME NEW p \in Paths, OutsiderCreates(p) PROVE ClaimInv'
    <3>1. /\ file[p] = None /\ file' = [file EXCEPT ![p] = Foreign] /\ UNCHANGED <<pc, target>>
          /\ file' \in [Paths -> Files]
      BY <2>2 DEF OutsiderCreates, ClaimInv, Files
    <3>2. \A q \in Paths, r \in Runs : file[q] = Claim(r) => file'[q] = Claim(r)
      BY <3>1, FilesDiffer DEF ClaimInv
    <3> QED BY <3>1, <3>2, StaysPut
  <2> QED BY <1>7, <2>1, <2>2 DEF Environment, SourceChanges, OutsiderRemoves
<1>8. CASE UNCHANGED vars
  BY <1>8, StaysPut DEF vars, ClaimInv
<1> QED BY <1>1, <1>2, <1>6, <1>7, <1>8 DEF Next

\* While nobody else removes claims, a run that works still owns its own, so
\* that moving its archive there or removing it touches nothing else.
THEOREM ClaimHeldAlways ==
  ASSUME "remove" \notin Outsiders
  PROVE  Spec => []ClaimHeld
<1>1. Init => ClaimInv
  BY ClaimInit
<1>2. ClaimInv /\ [Next]_vars => ClaimInv'
  BY ClaimInvStep
<1>3. ClaimInv => ClaimHeld
  BY DEF ClaimInv
<1> QED BY <1>1, <1>2, <1>3, PTL DEF Spec

\* One step changes no archive and no file of somebody else.
LEMMA KeepsFiles ==
  ASSUME ClaimInv, [Next]_vars, NEW p \in Paths,
         file[p] \in {Foreign} \cup {Archive(r) : r \in Runs}
  PROVE  file'[p] = file[p]
<1>1. \A r \in Runs : file[p] # Claim(r) /\ file[p] # None
  BY FilesDiffer, FilesDistinct
<1>2. ASSUME NEW r \in Runs, ClaimPath(r) PROVE file'[p] = file[p]
  <2>1. CASE file[target[r]] # None
    BY <1>2, <2>1 DEF ClaimPath
  <2>2. CASE file[target[r]] = None
    BY <1>2, <2>2, <1>1 DEF ClaimPath, ClaimInv
  <2> QED BY <2>1, <2>2
<1>3. ASSUME NEW r \in Runs, Replace(r) \/ Unlink(r) PROVE file'[p] = file[p]
  <2>1. /\ file[target[r]] = Claim(r)
        /\ \E f \in Files : file' = [file EXCEPT ![target[r]] = f]
    BY <1>3 DEF Replace, Unlink, ClaimInv, ClaimHeld, Working, Files
  <2> QED BY <2>1, <1>1 DEF ClaimInv
<1>4. ASSUME NEW q \in Paths, OutsiderCreates(q) \/ OutsiderRemoves(q) PROVE file'[p] = file[p]
  BY <1>4, <1>1, FilesDistinct DEF OutsiderCreates, OutsiderRemoves, ZeroBytes, ClaimInv
<1>5. CASE UNCHANGED file
  BY <1>5
<1>6. ASSUME NEW r \in Runs, Proceed(r) PROVE file'[p] = file[p]
  <2>1. \/ UNCHANGED file \/ ClaimPath(r) \/ Replace(r) \/ Unlink(r)
    BY <1>6 DEF Proceed, CheckPlan, PlanRaises, ClaimRaises, NamePartial, OpenPartial, MarkStarted, MarkPlanned,
         ReadObject, ReadFails, WriteData, WriteMask, SetKind, SetAttributes, StoreFails,
         LoopEnds, Decide, SetWritten, SetStatus, Raises, LoopRaises, Release, LeavesClaim
  <2> QED BY <2>1, <1>2, <1>3
<1>7. ASSUME NEW r \in Runs,
             PlanAhead(r) \/ Crash(r) \/ \E q \in Paths : Begin(r, q)
      PROVE  file'[p] = file[p]
  BY <1>7 DEF PlanAhead, Crash, Begin
<1>8. ASSUME Environment PROVE file'[p] = file[p]
  BY <1>8, <1>4 DEF Environment, SourceChanges
<1>9. CASE UNCHANGED vars
  BY <1>9 DEF vars
<1> QED BY <1>6, <1>7, <1>8, <1>9 DEF Next

\* An archive or a foreign file at a path is left as it is by every run, while
\* nobody else removes claims.
THEOREM NothingOverwritten ==
  ASSUME "remove" \notin Outsiders
  PROVE  Spec => NeverOverwrites
<1>1. Init => ClaimInv
  BY ClaimInit
<1>2. ClaimInv /\ [Next]_vars => ClaimInv'
  BY ClaimInvStep
<1>3. ClaimInv /\ [Next]_vars
        => [\A p \in Paths : file[p] \in {Foreign} \cup {Archive(r) : r \in Runs}
                               => file'[p] = file[p]]_vars
  BY KeepsFiles
<1> QED BY <1>1, <1>2, <1>3, PTL DEF Spec, NeverOverwrites

-----------------------------------------------------------------------------
(* Archives *)

Entries == [meta : {"other", "frequency", "scalar", "series", "empty"}, floating : BOOLEAN,
            action : {"refuse", "skip", "store"}, to : Names \cup {None}]
Plans == UNION {[D -> Entries] : D \in SUBSET Objects}
Jobs == [plan : Plans \cup {None}, given : BOOLEAN, todo : SUBSET Objects,
         current : Objects \cup {None}, raw : Contents \cup {None},
         outcome : [Objects -> {"none", "skipped", "failed", "stored"}],
         lossy : SUBSET Objects, final : {"incomplete", "complete"}, raised : BOOLEAN]

DataType ==
  /\ source \in [Objects -> Contents \cup {None}]
  /\ dest \in [Objects -> Names \cup {Invalid}]
  /\ file \in [Paths -> Files]
  /\ pc \in [Runs -> PCs]
  /\ job \in [Runs -> Jobs]
  /\ archive \in [Runs -> Archives \cup {None}]

-----------------------------------------------------------------------------
(* The account of a run at p with the variables j and the archive a *)

StoredIn(j) == {o \in Objects : j.outcome[o] = "stored"}

Early == {"idle", "plan", "refused"}
Busy == {"data", "mask", "kind", "attributes"}
Writing == {"mask", "kind", "attributes"}
HasArchive == (Working \ {"claimed", "open", "release", "unlink"}) \cup {"done"}
HasCount == HasArchive \ {"mark", "count"}
Closing == {"written", "status", "replace", "done"}
Late == Closing \cup {"release", "unlink", "stopped", "left", "crashed"}

\* Nothing was done yet.
Untouched(j, a) == StoredIn(j) = {} /\ j.final = "incomplete" /\ a = None

\* The plan has no refusal, and what has no outcome is still to do.
Accounted(j) ==
  /\ j.plan \in Plans
  /\ \A o \in DOMAIN j.plan : /\ j.plan[o].action # "refuse"
                              /\ j.plan[o].action = "store" => j.plan[o].to \in Names
                              /\ j.outcome[o] = "none" => o \in j.todo
  /\ j.todo \subseteq Planned(j.plan, "store")
  /\ StoredIn(j) \subseteq Planned(j.plan, "store")

\* The object is whole, and its loss is known.
Whole(object, lost) ==
  /\ object.raw \in Contents
  /\ Convertible(object.raw)
  /\ object.mask <=> HasMask(object.raw)
  /\ object.attributes = "all"
  /\ Collapses(object.raw) => lost

\* What a run has put into the object it holds, and that no object it has
\* stored has the same name.
InHand(p, j, a) ==
  /\ j.current \in j.todo /\ j.raw \in Contents /\ Convertible(j.raw)
  /\ p = "mask" => HasMask(j.raw)
  /\ p \in Writing =>
       LET object == a.objects[j.plan[j.current].to] IN
       /\ object.raw = j.raw
       /\ object.mask <=> p # "mask" /\ HasMask(j.raw)
       /\ \A o \in StoredIn(j) : j.plan[o].to # j.plan[j.current].to

\* Counts, the decision and the mark.
Marks(p, j, a) ==
  /\ p \in HasArchive => a # None
  /\ p \in HasCount => a.planned = Cardinality(Planned(j.plan, "store"))
  /\ p \in {"status", "replace", "done"} => a.written = Cardinality(StoredIn(j))
  /\ p \in {"replace", "done"} => a.status = j.final /\ ~j.raised
  /\ p = "closesource" \/ (p \in Closing /\ ~j.raised) => j.todo = {}
  /\ j.final = "complete" => p \in Late /\ StoredIn(j) = DOMAIN j.plan
  /\ a # None /\ a.status = "complete" => j.final = "complete"

RunOK(p, j, a) ==
  /\ p \in Early \cup {"claim", "claimed", "open"} => Untouched(j, a)
  /\ p \notin Early => Accounted(j) \/ (p = "crashed" /\ Untouched(j, a))
  /\ \A o \in StoredIn(j) : a # None /\ Whole(a.objects[j.plan[o].to], o \in j.lossy)
  /\ p \in Busy => InHand(p, j, a)
  /\ Marks(p, j, a)

DataInv ==
  /\ DataType
  /\ \A r \in Runs : RunOK(pc[r], job[r], archive[r])
  /\ \A p \in Paths, r \in Runs : file[p] = Archive(r) => pc[r] = "done"

-----------------------------------------------------------------------------
(* Facts the steps share *)

\* A plan made from any source is a plan, and what it stores has a name.
LEMMA PlanTyped ==
  ASSUME DataType
  PROVE  /\ Plan(source) \in Plans
         /\ \A o \in DOMAIN Plan(source) :
              Plan(source)[o].action = "store" => Plan(source)[o].to \in Names
<1> DEFINE D == {x \in Objects : source[x] # None}
           entries == [o \in D |-> Entry(o, source[o])]
           C == Collided(entries)
<1>1. ASSUME NEW o \in D
      PROVE  /\ entries[o] \in Entries
             /\ entries[o].action = "store" => entries[o].to \in Names
  <2>1. source[o] \in ContentRecords /\ dest[o] \in Names \cup {Invalid}
    BY OptionsOK DEF DataType
  <2>2. Verdict(o, source[o]) \in {"refuse", "skip", "store"}
    BY <2>1, OptionsOK DEF Verdict, ContentRecords
  <2>3. Verdict(o, source[o]) = "store" => source[o].meta # "other" /\ dest[o] # Invalid
    BY <2>1, OptionsOK DEF Verdict, ContentRecords
  <2> QED BY <2>1, <2>2, <2>3 DEF Entry, Entries, ContentRecords
<1>2. Plan(source) = [o \in D |-> IF o \in C THEN [entries[o] EXCEPT !.action = "refuse"]
                                             ELSE entries[o]]
  BY DEF Plan
<1> HIDE DEF C, entries
<1>3. ASSUME NEW o \in D
      PROVE  /\ Plan(source)[o] \in Entries
             /\ Plan(source)[o].action = "store" => Plan(source)[o].to \in Names
  <2>1. CASE o \in C
    <3>1. Plan(source)[o] = [entries[o] EXCEPT !.action = "refuse"]
      BY <1>2, <2>1
    <3> QED BY <1>1, <3>1 DEF Entries
  <2>2. CASE o \notin C
    <3>1. Plan(source)[o] = entries[o]
      BY <1>2, <2>2
    <3> QED BY <1>1, <3>1
  <2> QED BY <2>1, <2>2
<1>4. DOMAIN Plan(source) = D /\ D \in SUBSET Objects
  BY <1>2
<1>5. Plan(source) \in [D -> Entries]
  BY <1>2, <1>3, <1>4
<1> QED BY <1>3, <1>4, <1>5 DEF Plans

\* A step of one run, as its new place, variables and archive.
LEMMA OneRun ==
  ASSUME DataInv, NEW r \in Runs, NEW where \in PCs, NEW j \in Jobs,
         NEW a \in Archives \cup {None},
         UNCHANGED <<source, dest>>, file' \in [Paths -> Files],
         \A p \in Paths, q \in Runs :
           file'[p] = Archive(q) => file[p] = Archive(q) \/ (q = r /\ where = "done"),
         pc' = [pc EXCEPT ![r] = where], job' = [job EXCEPT ![r] = j],
         archive' = [archive EXCEPT ![r] = a], pc[r] # "done", RunOK(where, j, a)
  PROVE  DataInv'
<1>1. DataType'
  BY DEF DataInv, DataType
<1>2. ASSUME NEW q \in Runs PROVE RunOK(pc'[q], job'[q], archive'[q])
  <2>1. CASE q = r
    <3>1. pc'[q] = where /\ job'[q] = j /\ archive'[q] = a
      BY <2>1 DEF DataInv, DataType
    <3> QED BY <3>1
  <2>2. CASE q # r
    <3>1. pc'[q] = pc[q] /\ job'[q] = job[q] /\ archive'[q] = archive[q]
      BY <2>2 DEF DataInv, DataType
    <3> QED BY <3>1 DEF DataInv
  <2> QED BY <2>1, <2>2
<1>3. ASSUME NEW p \in Paths, NEW q \in Runs, file'[p] = Archive(q) PROVE pc'[q] = "done"
  BY <1>3 DEF DataInv, DataType
<1> QED BY <1>1, <1>2, <1>3 DEF DataInv

\* The same for a step that touches no file.
LEMMA OneRunQuiet ==
  ASSUME DataInv, NEW r \in Runs, NEW where \in PCs, NEW j \in Jobs,
         NEW a \in Archives \cup {None}, UNCHANGED <<source, dest, file>>,
         pc' = [pc EXCEPT ![r] = where], job' = [job EXCEPT ![r] = j],
         archive' = [archive EXCEPT ![r] = a], pc[r] # "done", RunOK(where, j, a)
  PROVE  DataInv'
<1>1. file' \in [Paths -> Files]
  BY DEF DataInv, DataType
<1> QED BY <1>1, OneRun

\* The end of the step of one object, stored or failed.
Finished(j, outcome) ==
  [j EXCEPT !.todo = @ \ {j.current}, !.outcome[j.current] = outcome,
            !.lossy = IF outcome = "stored" /\ Collapses(j.raw) THEN @ \cup {j.current} ELSE @]

LEMMA Finishes ==
  ASSUME NEW p \in Busy, NEW j \in Jobs, NEW a \in Archives, NEW b \in Archives,
         NEW outcome \in {"stored", "failed"}, RunOK(p, j, a),
         b.status = a.status, b.planned = a.planned,
         \A o \in StoredIn(j) : b.objects[j.plan[o].to] = a.objects[j.plan[o].to],
         outcome = "stored" => LET object == b.objects[j.plan[j.current].to] IN
                               /\ object.raw = j.raw /\ (object.mask <=> HasMask(j.raw))
                               /\ object.attributes = "all"
  PROVE  Finished(j, outcome) \in Jobs /\ RunOK("loop", Finished(j, outcome), b)
<1> DEFINE k == Finished(j, outcome)
<1>1. /\ Accounted(j) /\ InHand(p, j, a) /\ Marks(p, j, a)
      /\ \A o \in StoredIn(j) : Whole(a.objects[j.plan[o].to], o \in j.lossy)
  BY DEF RunOK, Busy, Early
<1>2. j.current \in Objects
  BY <1>1 DEF InHand, Jobs
<1>3. k \in Jobs
  BY <1>2 DEF Finished, Jobs
<1>4. /\ k.plan = j.plan /\ k.todo = j.todo \ {j.current} /\ k.final = j.final
      /\ k.outcome = [j.outcome EXCEPT ![j.current] = outcome]
      /\ j.lossy \subseteq k.lossy /\ (outcome = "stored" /\ Collapses(j.raw) => j.current \in k.lossy)
  BY DEF Finished, Jobs
<1> HIDE DEF k
<1>5. \A o \in Objects : o # j.current => k.outcome[o] = j.outcome[o]
  BY <1>4 DEF Jobs
<1>6. k.outcome[j.current] = outcome
  BY <1>2, <1>4 DEF Jobs
<1>7. Accounted(k)
  <2>1. StoredIn(k) \subseteq StoredIn(j) \cup {j.current}
    BY <1>5 DEF StoredIn
  <2>2. \A o \in DOMAIN k.plan : k.outcome[o] = "none" => o \in k.todo
    <3>1. DOMAIN k.plan \subseteq Objects
      BY <1>1, <1>4 DEF Accounted, Plans
    <3> QED BY <1>1, <1>4, <1>5, <1>6, <3>1 DEF Accounted
  <2> QED BY <1>1, <1>4, <2>1, <2>2 DEF Accounted, InHand, Planned
<1>8. ASSUME NEW o \in StoredIn(k) PROVE Whole(b.objects[k.plan[o].to], o \in k.lossy)
  <2>1. CASE o # j.current
    <3>1. o \in StoredIn(j)
      BY <1>5, <1>8, <2>1 DEF StoredIn
    <3> QED BY <1>1, <1>4, <3>1 DEF Whole
  <2>2. CASE o = j.current
    <3>1. outcome = "stored"
      BY <1>6, <1>8, <2>2 DEF StoredIn
    <3> QED BY <1>1, <1>4, <2>2, <3>1 DEF Whole, InHand
  <2> QED BY <2>1, <2>2
<1>9. Marks("loop", k, b)
  <2>1. j.final # "complete"
    BY <1>1 DEF Marks, Busy, Late, Closing
  <2>2. a.planned = Cardinality(Planned(j.plan, "store"))
    BY <1>1 DEF Marks, Busy, HasCount, HasArchive, Working
  <2>3. a # None /\ b # None
    BY NamesDistinct
  <2> QED BY <1>1, <1>4, <2>1, <2>2, <2>3 DEF Marks, Closing, Late
<1>10. b # None /\ "loop" \notin Early \cup {"claim", "claimed", "open"} \cup Busy
  BY NamesDistinct DEF Early, Busy
<1> QED BY <1>3, <1>7, <1>8, <1>9, <1>10 DEF RunOK, k

-----------------------------------------------------------------------------
(* The steps *)

LEMMA DataInit == ASSUME Init PROVE DataInv
<1>1. source \in [Objects -> Contents \cup {None}] /\ dest \in [Objects -> Names \cup {Invalid}]
  BY DEF Init
<1>2. file \in [Paths -> Files] /\ \A p \in Paths, r \in Runs : file[p] # Archive(r)
  BY FilesDistinct DEF Init, Files
<1>3. pc \in [Runs -> PCs] /\ \A r \in Runs : pc[r] = "idle"
  BY DEF Init, PCs
<1>4. FreshJob \in Jobs
  BY DEF FreshJob, Jobs
<1>5. job \in [Runs -> Jobs] /\ \A r \in Runs : job[r] = FreshJob
  BY <1>4 DEF Init
<1>6. archive \in [Runs -> Archives \cup {None}] /\ \A r \in Runs : archive[r] = None
  BY DEF Init
<1>7. StoredIn(FreshJob) = {} /\ FreshJob.final = "incomplete"
  BY DEF FreshJob, StoredIn
<1>8. RunOK("idle", FreshJob, None)
  <2>1. Marks("idle", FreshJob, None)
    BY <1>7 DEF Marks, HasArchive, HasCount, Working, Closing
  <2> QED BY <1>7, <2>1 DEF RunOK, Early, Busy, Untouched
<1> QED BY <1>1, <1>2, <1>3, <1>5, <1>6, <1>8 DEF DataInv, DataType

\* Before the claim: nothing is touched.
LEMMA StepBeforePlan ==
  ASSUME DataInv, NEW r \in Runs,
         PlanAhead(r) \/ PlanRaises(r) \/ \E p \in Paths : Begin(r, p)
  PROVE  DataInv'
<1>1. PICK where \in Early : pc' = [pc EXCEPT ![r] = where]
  <2>1. pc = [pc EXCEPT ![r] = pc[r]]
    BY DEF DataInv, DataType
  <2> QED BY <2>1 DEF PlanAhead, PlanRaises, Begin, Goto, Early
<1>2. PICK plan \in Plans \cup {None}, given \in BOOLEAN :
        job' = [job EXCEPT ![r] = [job[r] EXCEPT !.plan = plan, !.given = given]]
  <2>1. job[r] \in Jobs
    BY DEF DataInv, DataType
  <2>2. job[r] = [job[r] EXCEPT !.plan = job[r].plan, !.given = job[r].given]
    BY <2>1 DEF Jobs
  <2>3. job = [job EXCEPT ![r] = job[r]]
    BY DEF DataInv, DataType
  <2>4. CASE PlanAhead(r)
    BY <2>4, PlanTyped DEF PlanAhead, DataInv
  <2>5. CASE UNCHANGED job
    <3>1. job[r].plan \in Plans \cup {None} /\ job[r].given \in BOOLEAN
      BY <2>1 DEF Jobs
    <3>2. job' = [job EXCEPT ![r] = [job[r] EXCEPT !.plan = job[r].plan, !.given = job[r].given]]
      BY <2>2, <2>3, <2>5
    <3> QED BY <3>1, <3>2, Zenon
  <2> QED BY <2>4, <2>5 DEF PlanRaises, Begin
<1>3. /\ pc[r] \in Early /\ archive' = [archive EXCEPT ![r] = archive[r]]
      /\ UNCHANGED <<source, dest, file>>
  BY DEF PlanAhead, PlanRaises, Begin, Early, DataInv, DataType
<1> DEFINE j == [job[r] EXCEPT !.plan = plan, !.given = given]
<1>4. job[r] \in Jobs /\ archive[r] \in Archives \cup {None} /\ Untouched(job[r], archive[r])
  BY <1>3 DEF DataInv, DataType, RunOK
<1>5. j \in Jobs /\ StoredIn(j) = {} /\ j.final = "incomplete"
  BY <1>4 DEF Jobs, StoredIn, Untouched
<1> HIDE DEF j
<1>6. RunOK(where, j, archive[r])
  <2>1. Marks(where, j, archive[r])
    BY <1>4, <1>5 DEF Marks, HasArchive, HasCount, Working, Closing, Early, Untouched
  <2> QED BY <1>4, <1>5, <2>1 DEF RunOK, Early, Busy, Untouched
<1>7. where \in PCs /\ pc[r] # "done"
  BY <1>3 DEF Early, PCs, Ended
<1>8. job' = [job EXCEPT ![r] = j]
  BY <1>2 DEF j
<1> QED BY <1>1, <1>3, <1>4, <1>5, <1>6, <1>7, <1>8, OneRunQuiet

LEMMA StepCheckPlan ==
  ASSUME DataInv, NEW r \in Runs, CheckPlan(r)
  PROVE  DataInv'
<1> DEFINE plan == Plan(source)
           agreed == (job[r].given => job[r].plan = plan) /\ Planned(plan, "refuse") = {}
           where == IF agreed THEN "claim" ELSE "refused"
           outcome == [o \in Objects |-> IF o \in Planned(plan, "skip") THEN "skipped" ELSE "none"]
           j == [job[r] EXCEPT !.plan = plan, !.todo = Planned(plan, "store"), !.outcome = outcome]
<1>1. /\ pc[r] = "plan" /\ pc' = [pc EXCEPT ![r] = where] /\ job' = [job EXCEPT ![r] = j]
      /\ UNCHANGED <<source, dest, file, archive>>
  BY DEF CheckPlan, Goto
<1>2. job[r] \in Jobs /\ archive[r] \in Archives \cup {None} /\ Untouched(job[r], archive[r])
  BY <1>1 DEF DataInv, DataType, RunOK, Early
<1>3. /\ plan \in Plans
      /\ \A o \in DOMAIN plan : plan[o].action = "store" => plan[o].to \in Names
  BY PlanTyped DEF DataInv
<1> HIDE DEF plan
<1>4. DOMAIN plan \subseteq Objects /\ \A o \in DOMAIN plan : plan[o].action \in {"refuse", "skip", "store"}
  BY <1>3 DEF Plans, Entries
<1>5. outcome \in [Objects -> {"none", "skipped", "failed", "stored"}]
      /\ \A o \in Objects : outcome[o] # "stored"
  OBVIOUS
<1>6. \A o \in DOMAIN plan : outcome[o] = "none" => plan[o].action # "skip"
  BY <1>4 DEF Planned
<1> HIDE DEF outcome
<1>7. Planned(plan, "store") \subseteq Objects
  BY <1>4 DEF Planned
<1>8. j \in Jobs
  BY <1>2, <1>3, <1>5, <1>7 DEF Jobs
<1>9. /\ j.plan = plan /\ j.todo = Planned(plan, "store") /\ j.outcome = outcome
      /\ j.final = "incomplete"
  BY <1>2 DEF Jobs, Untouched
<1> HIDE DEF j
<1>10. StoredIn(j) = {}
  BY <1>5, <1>9 DEF StoredIn
<1>11. Untouched(j, archive[r])
  BY <1>2, <1>9, <1>10 DEF Untouched
<1>12. agreed => Accounted(j)
  <2> SUFFICES ASSUME agreed PROVE Accounted(j)
    OBVIOUS
  <2>1. \A o \in DOMAIN plan : plan[o].action \in {"skip", "store"}
    BY <1>4 DEF Planned
  <2>2. \A o \in DOMAIN plan : outcome[o] = "none" => o \in Planned(plan, "store")
    BY <1>6, <2>1 DEF Planned
  <2> QED BY <1>3, <1>9, <1>10, <2>1, <2>2 DEF Accounted
<1> HIDE DEF agreed
<1>13. Marks(where, j, archive[r])
  BY <1>11 DEF Marks, Untouched, HasArchive, HasCount, Working, Closing
<1>14. RunOK(where, j, archive[r])
  BY <1>10, <1>11, <1>12, <1>13 DEF RunOK, Early, Busy
<1>15. where \in PCs /\ archive' = [archive EXCEPT ![r] = archive[r]]
  BY <1>1 DEF PCs, Ended, DataInv, DataType
<1> QED BY <1>1, <1>2, <1>8, <1>14, <1>15, OneRunQuiet

LEMMA StepClaim ==
  ASSUME DataInv, NEW r \in Runs, ClaimPath(r) \/ ClaimRaises(r)
  PROVE  DataInv'
<1>1. PICK where \in {"claimed", "refused"} : pc' = [pc EXCEPT ![r] = where]
  BY DEF ClaimPath, ClaimRaises, Goto
<1>2. pc[r] = "claim" /\ UNCHANGED <<source, dest, job, archive>>
  BY DEF ClaimPath, ClaimRaises
<1>3. /\ job[r] \in Jobs /\ archive[r] \in Archives \cup {None}
      /\ Untouched(job[r], archive[r]) /\ Accounted(job[r])
  BY <1>2 DEF DataInv, DataType, RunOK, Early
<1>4. file' \in [Paths -> Files]
  BY DEF DataInv, DataType, ClaimPath, ClaimRaises, Files
<1>5. ASSUME NEW p \in Paths, NEW q \in Runs, file'[p] = Archive(q) PROVE file[p] = Archive(q)
  <2>1. Archive(q) # Claim(r)
    BY DEF Archive, Claim
  <2> QED BY <1>5, <2>1 DEF DataInv, DataType, ClaimPath, ClaimRaises
<1>6. RunOK(where, job[r], archive[r])
  <2>1. Marks(where, job[r], archive[r])
    BY <1>3 DEF Marks, HasArchive, HasCount, Working, Closing, Untouched
  <2> QED BY <1>3, <2>1 DEF RunOK, Early, Busy, Untouched
<1>7. where \in PCs /\ job' = [job EXCEPT ![r] = job[r]] /\ archive' = [archive EXCEPT ![r] = archive[r]]
  BY <1>2 DEF PCs, Ended, Working, DataInv, DataType
<1>8. \A p \in Paths, q \in Runs :
        file'[p] = Archive(q) => file[p] = Archive(q) \/ (q = r /\ where = "done")
  BY <1>5
<1>9. pc[r] # "done" /\ UNCHANGED <<source, dest>>
  BY <1>2
<1> QED BY <1>1, <1>3, <1>4, <1>6, <1>7, <1>8, <1>9, OneRun

\* The partial file gets its name: still nothing is done.
LEMMA StepName ==
  ASSUME DataInv, NEW r \in Runs, NamePartial(r)
  PROVE  DataInv'
<1>1. PICK where \in {"open", "release"} : pc' = [pc EXCEPT ![r] = where]
  BY DEF NamePartial, Goto
<1>2. /\ pc[r] = "claimed" /\ UNCHANGED <<source, dest, file>>
      /\ job' = [job EXCEPT ![r] = job[r]] /\ archive' = [archive EXCEPT ![r] = archive[r]]
  BY DEF NamePartial, DataInv, DataType
<1>3. /\ job[r] \in Jobs /\ archive[r] \in Archives \cup {None}
      /\ Untouched(job[r], archive[r]) /\ Accounted(job[r])
  BY <1>2 DEF DataInv, DataType, RunOK, Early
<1>4. RunOK(where, job[r], archive[r])
  <2>1. Marks(where, job[r], archive[r])
    BY <1>3 DEF Marks, HasArchive, HasCount, Working, Closing, Untouched
  <2> QED BY <1>3, <2>1 DEF RunOK, Early, Busy, Untouched
<1>5. where \in PCs
  BY DEF PCs, Working
<1> QED BY <1>1, <1>2, <1>3, <1>4, <1>5, OneRunQuiet

LEMMA StepOpen ==
  ASSUME DataInv, NEW r \in Runs, OpenPartial(r)
  PROVE  DataInv'
<1>1. /\ pc[r] = "open" /\ pc' = [pc EXCEPT ![r] = "mark"] /\ UNCHANGED <<source, dest, file>>
      /\ job' = [job EXCEPT ![r] = job[r]] /\ archive' = [archive EXCEPT ![r] = FreshArchive]
  BY DEF OpenPartial, Goto, DataInv, DataType
<1>2. job[r] \in Jobs /\ Untouched(job[r], archive[r]) /\ Accounted(job[r])
  BY <1>1 DEF DataInv, DataType, RunOK, Early
<1>3. FreshArchive \in Archives /\ FreshArchive.status = "none" /\ FreshArchive # None
  <2>1. FreshArchive \in Archives
    BY DEF FreshArchive, Archives, Slots, NoObject
  <2> QED BY <2>1, NamesDistinct DEF FreshArchive
<1>4. RunOK("mark", job[r], FreshArchive)
  <2>1. Marks("mark", job[r], FreshArchive)
    BY <1>2, <1>3 DEF Marks, HasCount, Closing, Untouched
  <2> QED BY <1>2, <2>1 DEF RunOK, Early, Busy, Untouched
<1>5. "mark" \in PCs
  BY DEF PCs, Working
<1> QED BY <1>1, <1>2, <1>3, <1>4, <1>5, OneRunQuiet

\* A step that changes only the marks of the archive, or nothing but the place.
LEMMA StepMarks ==
  ASSUME DataInv, NEW r \in Runs, NEW where \in PCs \ (Early \cup {"claim", "claimed", "open"} \cup Busy),
         NEW b \in Archives \cup {None}, UNCHANGED <<source, dest, file>>,
         pc[r] \notin Early \cup Ended \cup {"claim"},
         pc' = [pc EXCEPT ![r] = where], UNCHANGED job, archive' = [archive EXCEPT ![r] = b],
         b = archive[r] \/ (b # None /\ b.objects = archive[r].objects),
         Marks(where, job[r], b)
  PROVE  DataInv'
<1>1. job' = [job EXCEPT ![r] = job[r]] /\ job[r] \in Jobs
  BY DEF DataInv, DataType
<1>2. RunOK(pc[r], job[r], archive[r])
  BY DEF DataInv
<1>3. Accounted(job[r])
  BY <1>2 DEF RunOK, Ended
<1>4. RunOK(where, job[r], b)
  BY <1>2, <1>3 DEF RunOK
<1>5. pc[r] # "done"
  BY DEF Ended
<1> QED BY <1>1, <1>4, <1>5, OneRunQuiet

LEMMA StepMark ==
  ASSUME DataInv, NEW r \in Runs,
         MarkStarted(r) \/ MarkPlanned(r) \/ SetWritten(r) \/ SetStatus(r)
  PROVE  DataInv'
<1> DEFINE a == archive[r]
           j == job[r]
<1>1. /\ j \in Jobs /\ Marks(pc[r], j, a) /\ a \in Archives \cup {None}
      /\ UNCHANGED <<source, dest, file, job>>
  BY DEF DataInv, DataType, RunOK, MarkStarted, MarkPlanned, SetWritten, SetStatus
<1>2. pc[r] \in HasArchive /\ pc[r] \notin Early \cup Ended \cup {"claim"}
  BY DEF MarkStarted, MarkPlanned, SetWritten, SetStatus, HasArchive, Working, Early, Ended
<1>3. a \in Archives
  BY <1>1, <1>2 DEF Marks
<1>4. a # None
  BY <1>3, NamesDistinct
<1>5. ASSUME NEW where \in PCs \ (Early \cup {"claim", "claimed", "open"} \cup Busy),
             NEW b \in Archives, b.objects = a.objects,
             pc' = [pc EXCEPT ![r] = where], archive' = [archive EXCEPT ![r] = b],
             Marks(where, j, b)
      PROVE  DataInv'
  <2>1. b # None
    BY NamesDistinct
  <2> QED BY <1>1, <1>2, <1>5, <2>1, StepMarks
<1>6. CASE MarkStarted(r)
  <2> DEFINE b == [a EXCEPT !.status = "started"]
  <2>1. /\ b \in Archives /\ b.objects = a.objects /\ b.status = "started"
    BY <1>3 DEF Archives
  <2>2. pc' = [pc EXCEPT ![r] = "count"] /\ archive' = [archive EXCEPT ![r] = b] /\ pc[r] = "mark"
    BY <1>6 DEF MarkStarted, Goto
  <2>3. "count" \in PCs \ (Early \cup {"claim", "claimed", "open"} \cup Busy)
    BY DEF PCs, Working, Early, Busy
  <2>4. Marks("count", j, b)
    BY <1>1, <2>1, <2>2, NamesDistinct DEF Marks, HasCount, Closing, Late
  <2> QED BY <1>5, <2>1, <2>2, <2>3, <2>4
<1>7. CASE MarkPlanned(r)
  <2> DEFINE n == Cardinality(Planned(j.plan, "store"))
             b == [a EXCEPT !.planned = n]
  <2>1. n \in Nat
    <3>1. Accounted(j)
      BY <1>2 DEF DataInv, RunOK, Ended
    <3>2. Planned(j.plan, "store") \subseteq Objects
      BY <3>1 DEF Accounted, Plans, Planned
    <3> QED BY <3>2, OptionsOK, FS_Subset, FS_CardinalityType
  <2>2. b \in Archives /\ b.objects = a.objects /\ b.status = a.status /\ b.planned = n
    BY <1>3, <2>1 DEF Archives
  <2>3. pc' = [pc EXCEPT ![r] = "loop"] /\ archive' = [archive EXCEPT ![r] = b] /\ pc[r] = "count"
    BY <1>7 DEF MarkPlanned, Goto
  <2>4. "loop" \in PCs \ (Early \cup {"claim", "claimed", "open"} \cup Busy)
    BY DEF PCs, Working, Early, Busy
  <2>5. Marks("loop", j, b)
    BY <1>1, <1>4, <2>2, <2>3, NamesDistinct DEF Marks, Closing, Late
  <2> QED BY <1>5, <2>2, <2>3, <2>4, <2>5
<1>8. CASE SetWritten(r)
  <2> DEFINE n == Cardinality(StoredIn(j))
             b == [a EXCEPT !.written = n]
  <2>1. n \in Nat
    <3>1. StoredIn(j) \subseteq Objects
      BY DEF StoredIn
    <3> QED BY <3>1, OptionsOK, FS_Subset, FS_CardinalityType
  <2>2. b \in Archives /\ b.objects = a.objects /\ b.status = a.status
        /\ b.planned = a.planned /\ b.written = n
    BY <1>3, <2>1 DEF Archives
  <2>3. pc' = [pc EXCEPT ![r] = "status"] /\ archive' = [archive EXCEPT ![r] = b] /\ pc[r] = "written"
    BY <1>8 DEF SetWritten, Goto, StoredBy, StoredIn
  <2>4. "status" \in PCs \ (Early \cup {"claim", "claimed", "open"} \cup Busy)
    BY DEF PCs, Working, Early, Busy
  <2>5. Marks("status", j, b)
    BY <1>1, <1>4, <2>2, <2>3, NamesDistinct DEF Marks, Closing, Late, HasCount, HasArchive, Working
  <2> QED BY <1>5, <2>2, <2>3, <2>4, <2>5
<1>9. CASE SetStatus(r)
  <2> DEFINE b == [a EXCEPT !.status = j.final]
             where == IF j.raised THEN "release" ELSE "replace"
  <2>1. /\ b \in Archives /\ b.objects = a.objects /\ b.status = j.final
        /\ b.planned = a.planned /\ b.written = a.written
    BY <1>1, <1>3 DEF Archives, Jobs
  <2>2. pc' = [pc EXCEPT ![r] = where] /\ archive' = [archive EXCEPT ![r] = b] /\ pc[r] = "status"
    BY <1>9 DEF SetStatus, Goto
  <2>3. where \in PCs \ (Early \cup {"claim", "claimed", "open"} \cup Busy)
    BY DEF PCs, Working, Early, Busy
  <2>4. Marks(where, j, b)
    BY <1>1, <1>4, <2>1, <2>2, NamesDistinct DEF Marks, Closing, Late, HasCount, HasArchive, Working
  <2> QED BY <1>5, <2>1, <2>2, <2>3, <2>4
<1> QED BY <1>6, <1>7, <1>8, <1>9

\* The steps that change only the place of the run.
LEMMA StepPlace ==
  ASSUME DataInv, NEW r \in Runs, LoopEnds(r) \/ Raises(r) \/ Release(r) \/ LeavesClaim(r)
  PROVE  DataInv'
<1>1. /\ Marks(pc[r], job[r], archive[r]) /\ archive[r] \in Archives \cup {None}
      /\ archive' = [archive EXCEPT ![r] = archive[r]]
      /\ UNCHANGED <<source, dest, file, job>>
  BY DEF DataInv, DataType, RunOK, LoopEnds, Raises, Release, LeavesClaim
<1>2. pc[r] \notin Early \cup Ended \cup {"claim"}
  BY DEF LoopEnds, Raises, Release, LeavesClaim, Early, Ended
<1>3. PICK where \in {"closesource", "release", "unlink", "stopped", "left"} :
        /\ pc' = [pc EXCEPT ![r] = where]
        /\ where = "closesource" => pc[r] = "loop" /\ job[r].todo = {}
  BY DEF LoopEnds, Raises, Release, LeavesClaim, Goto
<1>4. where \in PCs \ (Early \cup {"claim", "claimed", "open"} \cup Busy)
  BY DEF PCs, Working, Ended, Early, Busy
<1>5. where \in Late \/ where = "closesource"
  BY DEF Late
<1>6. Marks(where, job[r], archive[r])
  BY <1>1, <1>3, <1>5 DEF Marks, Closing, Late, HasCount, HasArchive, Working
<1> QED BY <1>1, <1>2, <1>3, <1>4, <1>6, StepMarks

LEMMA StepCrash ==
  ASSUME DataInv, NEW r \in Runs, Crash(r)
  PROVE  DataInv'
<1>1. /\ RunOK(pc[r], job[r], archive[r]) /\ job[r] \in Jobs /\ archive[r] \in Archives \cup {None}
      /\ pc' = [pc EXCEPT ![r] = "crashed"] /\ UNCHANGED <<source, dest, file>>
      /\ job' = [job EXCEPT ![r] = job[r]] /\ archive' = [archive EXCEPT ![r] = archive[r]]
  BY DEF DataInv, DataType, Crash, Goto
<1>2. pc[r] \notin Ended
  BY DEF Crash
<1>3. RunOK("crashed", job[r], archive[r])
  <2>1. Marks("crashed", job[r], archive[r])
    BY <1>1 DEF RunOK, Marks, HasCount, HasArchive, Working, Closing, Late
  <2>2. Accounted(job[r]) \/ Untouched(job[r], archive[r])
    BY <1>1 DEF RunOK
  <2> QED BY <1>1, <2>1, <2>2 DEF RunOK, Early, Busy
<1>4. "crashed" \in PCs /\ pc[r] # "done"
  BY <1>2 DEF PCs, Ended
<1> QED BY <1>1, <1>3, <1>4, OneRunQuiet

\* An exception inside the loop, and the decision after it.
LEMMA StepDecide ==
  ASSUME DataInv, NEW r \in Runs, Decide(r) \/ LoopRaises(r)
  PROVE  DataInv'
<1> DEFINE j == job[r]
           whole == StoredBy(r) = Planned(j.plan, "store") /\ Planned(j.plan, "skip") = {}
           final == IF whole THEN "complete" ELSE "incomplete"
           k == IF Decide(r) THEN [j EXCEPT !.final = final] ELSE [j EXCEPT !.raised = TRUE]
<1>1. /\ RunOK(pc[r], j, archive[r]) /\ j \in Jobs /\ archive[r] \in Archives \cup {None}
      /\ UNCHANGED <<source, dest, file>> /\ archive' = [archive EXCEPT ![r] = archive[r]]
      /\ pc' = [pc EXCEPT ![r] = "written"]
  BY DEF DataInv, DataType, Decide, LoopRaises, Goto
<1>2. /\ pc[r] \in Busy \cup {"loop", "closesource"}
      /\ Decide(r) => pc[r] = "closesource"
  BY DEF Decide, LoopRaises, Busy
<1>3. Accounted(j) /\ Marks(pc[r], j, archive[r])
  BY <1>1, <1>2 DEF RunOK, Early, Busy
<1>4. job' = [job EXCEPT ![r] = k] /\ k \in Jobs
  BY <1>1 DEF Decide, LoopRaises, Jobs
<1>5. /\ k.plan = j.plan /\ k.todo = j.todo /\ k.outcome = j.outcome /\ k.lossy = j.lossy
      /\ Decide(r) => k.final = final
      /\ ~Decide(r) => k.raised /\ k.final = j.final
  BY <1>1 DEF Jobs
<1> HIDE DEF k, final, whole
<1>6. StoredIn(k) = StoredIn(j) /\ StoredBy(r) = StoredIn(j)
  BY <1>5 DEF StoredIn, StoredBy
<1>7. Accounted(k)
  BY <1>3, <1>5, <1>6 DEF Accounted
<1>8. j.final # "complete"
  BY <1>2, <1>3 DEF Marks, Busy, Late, Closing
<1>9. archive[r] # None /\ archive[r].planned = Cardinality(Planned(j.plan, "store"))
  BY <1>2, <1>3 DEF Marks, Busy, HasCount, HasArchive, Working
<1>10. k.final = "complete" => StoredIn(k) = DOMAIN k.plan
  <2> SUFFICES ASSUME k.final = "complete" PROVE StoredIn(j) = DOMAIN j.plan
    BY <1>5, <1>6
  <2>1. whole
    BY <1>5, <1>8 DEF final
  <2>2. DOMAIN j.plan = Planned(j.plan, "store")
    BY <1>3, <2>1 DEF whole, Accounted, Plans, Entries, Planned
  <2> QED BY <1>6, <2>1, <2>2 DEF whole
<1>11. Marks("written", k, archive[r])
  <2>1. Decide(r) => j.todo = {}
    BY <1>2, <1>3 DEF Marks
  <2> QED BY <1>3, <1>5, <1>8, <1>9, <1>10, <2>1 DEF Marks, Late, Closing
<1>12. RunOK("written", k, archive[r])
  BY <1>1, <1>5, <1>6, <1>7, <1>11 DEF RunOK, Early, Busy
<1>13. "written" \in PCs /\ pc[r] # "done"
  BY <1>2 DEF PCs, Working, Busy
<1> QED BY <1>1, <1>4, <1>12, <1>13, OneRunQuiet

\* The move onto the destination, and the removal of the claim.
LEMMA StepFile ==
  ASSUME DataInv, NEW r \in Runs, Replace(r) \/ Unlink(r)
  PROVE  DataInv'
<1> DEFINE where == IF Replace(r) THEN "done" ELSE "stopped"
           f == IF Replace(r) THEN Archive(r) ELSE None
<1>1. /\ pc[r] \in {"replace", "unlink"} /\ (where = "done" => pc[r] = "replace")
      /\ pc' = [pc EXCEPT ![r] = where] /\ UNCHANGED <<source, dest>>
      /\ file' = [file EXCEPT ![target[r]] = f]
      /\ job' = [job EXCEPT ![r] = job[r]] /\ archive' = [archive EXCEPT ![r] = archive[r]]
  BY DEF Replace, Unlink, Goto, DataInv, DataType
<1>2. RunOK(pc[r], job[r], archive[r]) /\ job[r] \in Jobs /\ archive[r] \in Archives \cup {None}
  BY DEF DataInv, DataType
<1>3. RunOK(where, job[r], archive[r])
  <2>1. Accounted(job[r])
    BY <1>1, <1>2 DEF RunOK, Early
  <2>2. Marks(where, job[r], archive[r])
    BY <1>1, <1>2 DEF RunOK, Marks, HasCount, HasArchive, Working, Closing, Late
  <2> QED BY <1>2, <2>1, <2>2 DEF RunOK, Early, Busy
<1>4. f \in Files /\ where \in PCs /\ pc[r] # "done"
  BY <1>1 DEF Files, PCs, Ended
<1>5. file' \in [Paths -> Files]
  BY <1>1, <1>4 DEF DataInv, DataType
<1>6. ASSUME NEW p \in Paths, NEW q \in Runs, file'[p] = Archive(q)
      PROVE  file[p] = Archive(q) \/ (q = r /\ where = "done")
  <2>1. CASE file'[p] = file[p]
    BY <1>6, <2>1
  <2>2. CASE file'[p] = f
    <3>1. f # None
      BY <1>6, <2>2, FilesDistinct
    <3>2. Archive(q).run = q /\ Archive(r).run = r
      BY DEF Archive
    <3> QED BY <1>6, <2>2, <3>1, <3>2
  <2> QED BY <1>1, <2>1, <2>2 DEF DataInv, DataType
<1> QED BY <1>1, <1>2, <1>3, <1>4, <1>5, <1>6, OneRun

LEMMA StepRead ==
  ASSUME DataInv, NEW r \in Runs, NEW o \in Objects, ReadObject(r, o)
  PROVE  DataInv'
<1> DEFINE j == job[r]
           k == [j EXCEPT !.current = o, !.raw = source[o]]
<1>1. /\ RunOK("loop", j, archive[r]) /\ j \in Jobs /\ archive[r] \in Archives \cup {None}
      /\ UNCHANGED <<source, dest, file>> /\ archive' = [archive EXCEPT ![r] = archive[r]]
      /\ pc[r] = "loop" /\ pc' = [pc EXCEPT ![r] = "data"] /\ job' = [job EXCEPT ![r] = k]
      /\ o \in j.todo
  BY DEF DataInv, DataType, ReadObject, Goto
<1>2. source[o] \in Contents /\ Convertible(source[o])
  BY DEF ReadObject, DataInv, DataType
<1>3. k \in Jobs
  BY <1>1, <1>2 DEF Jobs
<1>4. /\ k.plan = j.plan /\ k.todo = j.todo /\ k.outcome = j.outcome /\ k.lossy = j.lossy
      /\ k.final = j.final /\ k.raised = j.raised /\ k.current = o /\ k.raw = source[o]
  BY <1>1 DEF Jobs
<1> HIDE DEF k
<1>5. StoredIn(k) = StoredIn(j)
  BY <1>4 DEF StoredIn
<1>6. Accounted(k)
  BY <1>1, <1>4, <1>5 DEF RunOK, Accounted, Early
<1>7. Marks("data", k, archive[r])
  BY <1>1, <1>4, <1>5 DEF RunOK, Marks, HasCount, HasArchive, Working, Closing, Late
<1>8. InHand("data", k, archive[r])
  BY <1>1, <1>2, <1>4 DEF InHand, Writing
<1>9. RunOK("data", k, archive[r])
  BY <1>1, <1>4, <1>5, <1>6, <1>7, <1>8 DEF RunOK, Early
<1>10. "data" \in PCs
  BY DEF PCs, Working
<1> QED BY <1>1, <1>3, <1>9, <1>10, OneRunQuiet

LEMMA StepReadFails ==
  ASSUME DataInv, NEW r \in Runs, NEW o \in Objects, ReadFails(r, o)
  PROVE  DataInv'
<1> DEFINE j == job[r]
           k == [j EXCEPT !.todo = @ \ {o}, !.outcome[o] = "failed"]
<1>1. /\ RunOK("loop", j, archive[r]) /\ j \in Jobs /\ archive[r] \in Archives \cup {None}
      /\ UNCHANGED <<source, dest, file>> /\ archive' = [archive EXCEPT ![r] = archive[r]]
      /\ pc[r] = "loop" /\ pc' = [pc EXCEPT ![r] = "loop"] /\ job' = [job EXCEPT ![r] = k]
  BY DEF DataInv, DataType, ReadFails
<1>2. Accounted(j) /\ Marks("loop", j, archive[r])
  BY <1>1 DEF RunOK, Early
<1>3. /\ k \in Jobs /\ k.plan = j.plan /\ k.todo = j.todo \ {o} /\ k.lossy = j.lossy
      /\ k.final = j.final /\ k.outcome = [j.outcome EXCEPT ![o] = "failed"]
  BY <1>1 DEF Jobs
<1> HIDE DEF k
<1>4. \A x \in Objects : k.outcome[x] = IF x = o THEN "failed" ELSE j.outcome[x]
  BY <1>1, <1>3 DEF Jobs
<1>5. StoredIn(k) \subseteq StoredIn(j)
  BY <1>4 DEF StoredIn
<1>6. Accounted(k)
  <2>1. DOMAIN k.plan \subseteq Objects
    BY <1>2, <1>3 DEF Accounted, Plans
  <2> QED BY <1>2, <1>3, <1>4, <1>5, <2>1 DEF Accounted
<1>7. Marks("loop", k, archive[r])
  <2>1. j.final # "complete"
    BY <1>2 DEF Marks, Late, Closing
  <2> QED BY <1>2, <1>3, <2>1 DEF Marks, Closing, Late
<1>8. RunOK("loop", k, archive[r])
  BY <1>1, <1>3, <1>5, <1>6, <1>7 DEF RunOK, Early, Busy
<1>9. "loop" \in PCs
  BY DEF PCs, Working
<1> QED BY <1>1, <1>3, <1>8, <1>9, OneRunQuiet

\* What the writes of one object share: the run holds an object of this name,
\* which no stored object has.
HoldsName(r) ==
  LET j == job[r] IN
  /\ pc[r] \in Busy /\ RunOK(pc[r], j, archive[r]) /\ j \in Jobs
  /\ archive[r] \in Archives /\ archive[r] # None
  /\ Accounted(j) /\ InHand(pc[r], j, archive[r]) /\ Marks(pc[r], j, archive[r])
  /\ j.plan[j.current].to \in Names
  /\ Stored(r) \in Slots

LEMMA WhileBusy ==
  ASSUME DataInv, NEW r \in Runs, pc[r] \in Busy
  PROVE  HoldsName(r)
<1> DEFINE j == job[r]
<1>1. /\ RunOK(pc[r], j, archive[r]) /\ j \in Jobs /\ archive[r] \in Archives \cup {None}
  BY DEF DataInv, DataType
<1>2. Accounted(j) /\ InHand(pc[r], j, archive[r]) /\ Marks(pc[r], j, archive[r])
  BY <1>1 DEF RunOK, Early, Busy
<1>3. archive[r] \in Archives /\ archive[r] # None
  BY <1>1, <1>2 DEF Marks, HasArchive, Working, Busy
<1>4. j.plan[j.current].to \in Names
  BY <1>2 DEF Accounted, InHand, Planned
<1>5. Stored(r) \in Slots
  BY <1>3, <1>4 DEF Archives, Stored
<1> QED BY <1>1, <1>2, <1>3, <1>4, <1>5 DEF HoldsName

\* The archive with another object under the name the run writes to.
With(r, object) == [archive[r] EXCEPT !.objects[job[r].plan[job[r].current].to] = object]

LEMMA WithObject ==
  ASSUME NEW r \in Runs, HoldsName(r), NEW object \in Slots
  PROVE  LET b == With(r, object)
             name == job[r].plan[job[r].current].to
         IN  /\ b \in Archives /\ b # None /\ b.status = archive[r].status
             /\ b.planned = archive[r].planned /\ b.written = archive[r].written
             /\ b.objects[name] = object
             /\ \A n \in Names : n # name => b.objects[n] = archive[r].objects[n]
<1> DEFINE b == With(r, object)
<1>1. b \in Archives
  BY DEF HoldsName, Archives, With
<1>2. /\ b.status = archive[r].status /\ b.planned = archive[r].planned
      /\ b.written = archive[r].written
      /\ b.objects = [archive[r].objects EXCEPT ![job[r].plan[job[r].current].to] = object]
  BY DEF HoldsName, Archives, With
<1>3. archive[r].objects \in [Names -> Slots] /\ job[r].plan[job[r].current].to \in Names
  BY DEF HoldsName, Archives
<1> HIDE DEF b
<1>4. b # None
  BY <1>1, NamesDistinct
<1> QED BY <1>1, <1>2, <1>3, <1>4 DEF b

\* A stored object keeps what is under its name.
LEMMA OthersKept ==
  ASSUME NEW r \in Runs, HoldsName(r), NEW object \in Slots,
         \A o \in StoredIn(job[r]) : job[r].plan[o].to # job[r].plan[job[r].current].to
  PROVE  \A o \in StoredIn(job[r]) :
           With(r, object).objects[job[r].plan[o].to] = archive[r].objects[job[r].plan[o].to]
<1>1. \A o \in StoredIn(job[r]) : job[r].plan[o].to \in Names
  BY DEF HoldsName, Accounted, Planned
<1> QED BY <1>1, WithObject

\* A write after which the run goes on with the same object.
LEMMA GoesOn ==
  ASSUME DataInv, NEW r \in Runs, HoldsName(r), NEW object \in Slots, NEW where \in Writing,
         UNCHANGED <<source, dest, file, job>>, pc' = [pc EXCEPT ![r] = where],
         archive' = [archive EXCEPT ![r] = With(r, object)],
         \A o \in StoredIn(job[r]) : job[r].plan[o].to # job[r].plan[job[r].current].to,
         object.raw = job[r].raw, object.mask <=> where # "mask" /\ HasMask(job[r].raw),
         where = "mask" => HasMask(job[r].raw)
  PROVE  DataInv'
<1> DEFINE j == job[r]
           b == With(r, object)
<1>1. b \in Archives /\ b # None /\ b.status = archive[r].status /\ b.planned = archive[r].planned
  BY WithObject
<1>2. \A o \in StoredIn(j) : b.objects[j.plan[o].to] = archive[r].objects[j.plan[o].to]
  BY OthersKept
<1>3. b.objects[j.plan[j.current].to] = object
  BY WithObject
<1>4. /\ pc[r] \in Busy /\ RunOK(pc[r], j, archive[r]) /\ j \in Jobs /\ Accounted(j)
      /\ InHand(pc[r], j, archive[r]) /\ Marks(pc[r], j, archive[r]) /\ archive[r] # None
  BY DEF HoldsName
<1> HIDE DEF b
<1>5. Marks(where, j, b)
  BY <1>1, <1>4 DEF Marks, Writing, Busy, HasCount, HasArchive, Working, Closing, Late
<1>6. InHand(where, j, b)
  BY <1>3, <1>4 DEF InHand
<1>7. RunOK(where, j, b)
  BY <1>1, <1>2, <1>4, <1>5, <1>6 DEF RunOK, Writing, Early
<1>8. where \in PCs /\ pc[r] # "done" /\ job' = [job EXCEPT ![r] = j]
  BY <1>4 DEF Writing, Busy, PCs, Working, DataInv, DataType
<1>9. archive' = [archive EXCEPT ![r] = b]
  BY DEF b
<1> QED BY <1>1, <1>4, <1>7, <1>8, <1>9, OneRunQuiet

LEMMA StepWriteData ==
  ASSUME DataInv, NEW r \in Runs, WriteData(r)
  PROVE  DataInv'
<1> DEFINE object == [NoObject EXCEPT !.raw = job[r].raw]
           where == IF HasMask(job[r].raw) THEN "mask" ELSE "kind"
<1>1. /\ pc[r] = "data" /\ Stored(r) = NoObject /\ UNCHANGED <<source, dest, file, job>>
      /\ pc' = [pc EXCEPT ![r] = where]
      /\ archive' = [archive EXCEPT ![r] = With(r, object)]
  BY DEF WriteData, Store, Goto, With
<1>2. HoldsName(r)
  BY <1>1, WhileBusy DEF Busy
<1>3. job[r].raw \in Contents
  BY <1>2 DEF HoldsName, InHand
<1>4. object \in Slots /\ object.raw = job[r].raw /\ ~object.mask
  BY <1>3 DEF Slots, NoObject
<1>5. \A o \in StoredIn(job[r]) : job[r].plan[o].to # job[r].plan[job[r].current].to
  <2>1. NoObject.raw \notin Contents
    BY NamesDistinct DEF NoObject
  <2> QED BY <1>1, <1>2, <2>1 DEF HoldsName, RunOK, Whole, Stored
<1>6. /\ where \in Writing /\ (where = "mask" => HasMask(job[r].raw))
      /\ (where # "mask" => ~HasMask(job[r].raw))
  BY DEF Writing
<1> HIDE DEF object, where
<1> QED BY <1>1, <1>2, <1>4, <1>5, <1>6, GoesOn

LEMMA StepWriteMask ==
  ASSUME DataInv, NEW r \in Runs, WriteMask(r)
  PROVE  DataInv'
<1> DEFINE object == [Stored(r) EXCEPT !.mask = TRUE]
<1>1. /\ pc[r] = "mask" /\ UNCHANGED <<source, dest, file, job>>
      /\ pc' = [pc EXCEPT ![r] = "kind"]
      /\ archive' = [archive EXCEPT ![r] = With(r, object)]
  BY DEF WriteMask, Store, Goto, With
<1>2. HoldsName(r)
  BY <1>1, WhileBusy DEF Busy
<1>3. /\ HasMask(job[r].raw) /\ Stored(r).raw = job[r].raw /\ Stored(r) \in Slots
      /\ \A o \in StoredIn(job[r]) : job[r].plan[o].to # job[r].plan[job[r].current].to
  BY <1>1, <1>2 DEF HoldsName, InHand, Writing, Stored
<1>4. object \in Slots /\ object.raw = job[r].raw /\ object.mask
  BY <1>3 DEF Slots
<1>5. "kind" \in Writing
  BY DEF Writing
<1> HIDE DEF object
<1> QED BY <1>1, <1>2, <1>3, <1>4, <1>5, GoesOn

\* The last write of an object.
LEMMA LastWrite ==
  ASSUME DataInv, NEW r \in Runs, HoldsName(r), pc[r] \in Writing, NEW object \in Slots,
         UNCHANGED <<source, dest, file>>, Finish(r, "stored"),
         archive' = [archive EXCEPT ![r] = With(r, object)],
         object.raw = job[r].raw, object.mask <=> HasMask(job[r].raw),
         object.attributes = "all"
  PROVE  DataInv'
<1> DEFINE j == job[r]
           b == With(r, object)
           k == Finished(j, "stored")
<1>1. /\ b \in Archives /\ b.status = archive[r].status /\ b.planned = archive[r].planned
      /\ b.objects[j.plan[j.current].to] = object
  BY WithObject
<1>2. \A o \in StoredIn(j) : j.plan[o].to # j.plan[j.current].to
  BY DEF HoldsName, InHand
<1>3. \A o \in StoredIn(j) : b.objects[j.plan[o].to] = archive[r].objects[j.plan[o].to]
  BY <1>2, OthersKept
<1>4. /\ pc[r] \in Busy /\ RunOK(pc[r], j, archive[r]) /\ j \in Jobs /\ archive[r] \in Archives
  BY DEF HoldsName
<1>5. pc' = [pc EXCEPT ![r] = "loop"] /\ job' = [job EXCEPT ![r] = k]
      /\ archive' = [archive EXCEPT ![r] = b]
  BY DEF Finish, Goto, Finished
<1> HIDE DEF b
<1>6. k \in Jobs /\ RunOK("loop", k, b)
  BY <1>1, <1>3, <1>4, Finishes
<1>7. "loop" \in PCs /\ pc[r] # "done"
  BY <1>4 DEF PCs, Working, Busy
<1> QED BY <1>1, <1>5, <1>6, <1>7, OneRunQuiet

LEMMA StepSetKind ==
  ASSUME DataInv, NEW r \in Runs, SetKind(r)
  PROVE  DataInv'
<1> DEFINE last == job[r].raw.meta = "scalar" /\ ~HasTag(job[r].raw)
           object == [Stored(r) EXCEPT !.attributes = IF last THEN "all" ELSE "kind"]
<1>1. /\ pc[r] = "kind" /\ UNCHANGED <<source, dest, file>>
      /\ archive' = [archive EXCEPT ![r] = With(r, object)]
      /\ last => Finish(r, "stored")
      /\ ~last => pc' = [pc EXCEPT ![r] = "attributes"] /\ UNCHANGED job
  BY DEF SetKind, Store, Goto, With
<1>2. HoldsName(r)
  BY <1>1, WhileBusy DEF Busy
<1>3. /\ Stored(r).raw = job[r].raw /\ Stored(r) \in Slots
      /\ Stored(r).mask <=> HasMask(job[r].raw)
      /\ \A o \in StoredIn(job[r]) : job[r].plan[o].to # job[r].plan[job[r].current].to
  BY <1>1, <1>2 DEF HoldsName, InHand, Writing, Stored
<1>4. /\ object \in Slots /\ object.raw = job[r].raw /\ object.mask = Stored(r).mask
      /\ last => object.attributes = "all"
  BY <1>3 DEF Slots
<1>5. "attributes" \in Writing /\ pc[r] \in Writing
  BY <1>1 DEF Writing
<1> HIDE DEF object, last
<1>6. CASE last
  BY <1>1, <1>2, <1>3, <1>4, <1>5, <1>6, LastWrite
<1>7. CASE ~last
  BY <1>1, <1>2, <1>3, <1>4, <1>5, <1>7, GoesOn
<1> QED BY <1>6, <1>7

LEMMA StepSetAttributes ==
  ASSUME DataInv, NEW r \in Runs, SetAttributes(r)
  PROVE  DataInv'
<1> DEFINE object == [Stored(r) EXCEPT !.attributes = "all"]
<1>1. /\ pc[r] = "attributes" /\ UNCHANGED <<source, dest, file>> /\ Finish(r, "stored")
      /\ archive' = [archive EXCEPT ![r] = With(r, object)]
  BY DEF SetAttributes, Store, With
<1>2. HoldsName(r)
  BY <1>1, WhileBusy DEF Busy
<1>3. /\ Stored(r).raw = job[r].raw /\ Stored(r) \in Slots
      /\ Stored(r).mask <=> HasMask(job[r].raw)
  BY <1>1, <1>2 DEF HoldsName, InHand, Writing, Stored
<1>4. /\ object \in Slots /\ object.raw = job[r].raw /\ object.mask = Stored(r).mask
      /\ object.attributes = "all"
  BY <1>3 DEF Slots
<1>5. pc[r] \in Writing
  BY <1>1 DEF Writing
<1> HIDE DEF object
<1> QED BY <1>1, <1>2, <1>3, <1>4, <1>5, LastWrite

LEMMA StepStoreFails ==
  ASSUME DataInv, NEW r \in Runs, StoreFails(r)
  PROVE  DataInv'
<1> DEFINE k == Finished(job[r], "failed")
<1>1. /\ pc[r] \in Busy /\ pc' = [pc EXCEPT ![r] = "loop"] /\ job' = [job EXCEPT ![r] = k]
      /\ archive' = [archive EXCEPT ![r] = archive[r]] /\ UNCHANGED <<source, dest, file>>
  BY DEF StoreFails, Finish, Finished, Goto, Busy, DataInv, DataType
<1>2. /\ RunOK(pc[r], job[r], archive[r]) /\ job[r] \in Jobs /\ archive[r] \in Archives
  BY <1>1, WhileBusy DEF HoldsName
<1>3. k \in Jobs /\ RunOK("loop", k, archive[r])
  BY <1>1, <1>2, Finishes
<1>4. "loop" \in PCs /\ pc[r] # "done"
  BY <1>1 DEF PCs, Working, Busy
<1> QED BY <1>1, <1>2, <1>3, <1>4, OneRunQuiet

\* The source and the destinations change around the runs.
LEMMA StepEnvironment ==
  ASSUME DataInv, Environment \/ UNCHANGED vars
  PROVE  DataInv'
<1>1. UNCHANGED <<dest, pc, job, archive>> /\ source' \in [Objects -> Contents \cup {None}]
  BY DEF DataInv, DataType, Environment, SourceChanges, OutsiderCreates, OutsiderRemoves, vars
<1>2. /\ file' \in [Paths -> Files]
      /\ \A p \in Paths, r \in Runs : file'[p] = Archive(r) => file[p] = Archive(r)
  <2>1. CASE UNCHANGED file
    BY <2>1 DEF DataInv, DataType
  <2>2. ASSUME NEW p \in Paths, NEW f \in {None, Foreign}, file' = [file EXCEPT ![p] = f]
        PROVE  <1>2
    BY <2>2, FilesDistinct DEF DataInv, DataType, Files
  <2>3. \/ UNCHANGED file
        \/ \E p \in Paths, f \in {None, Foreign} : file' = [file EXCEPT ![p] = f]
    BY DEF Environment, SourceChanges, OutsiderCreates, OutsiderRemoves, vars
  <2> QED BY <2>1, <2>2, <2>3
<1> QED BY <1>1, <1>2 DEF DataInv, DataType

LEMMA DataStep == DataInv /\ [Next]_vars => DataInv'
<1> SUFFICES ASSUME DataInv, [Next]_vars PROVE DataInv'
  OBVIOUS
<1>1. ASSUME NEW r \in Runs, Proceed(r) PROVE DataInv'
  BY <1>1, StepCheckPlan, StepBeforePlan, StepClaim, StepName, StepOpen, StepMark, StepRead, StepReadFails,
     StepWriteData, StepWriteMask, StepSetKind, StepSetAttributes, StepStoreFails, StepPlace,
     StepDecide, StepFile DEF Proceed
<1>2. ASSUME NEW r \in Runs, PlanAhead(r) \/ \E p \in Paths : Begin(r, p) PROVE DataInv'
  BY <1>2, StepBeforePlan
<1>3. ASSUME NEW r \in Runs, Crash(r) PROVE DataInv'
  BY <1>3, StepCrash
<1> QED BY <1>1, <1>2, <1>3, StepEnvironment DEF Next

-----------------------------------------------------------------------------
(* What the account promises *)

\* A whole object reads back as the data read from the source, or is lossy.
LEMMA WholeReadsBack ==
  ASSUME NEW object, NEW o, NEW lossy, Whole(object, o \in lossy)
  PROVE  object.raw # None /\ (ReadBack(object) = object.raw.data \/ o \in lossy)
<1>1. /\ object.raw \in ContentRecords /\ object.raw # None
      /\ object.raw.meta = "empty" => object.raw.data # "missing"
  BY OptionsOK, NamesDistinct DEF Whole
<1>2. /\ object.raw.meta \in {"scalar", "series", "empty"}
      /\ object.raw.data \in {"normal", "missing"}
  BY <1>1 DEF Whole, Convertible, ContentRecords
<1>3. ReadBack(object) = IF object.mask \/ HasTag(object.raw) THEN "missing" ELSE "normal"
  BY DEF ReadBack, Whole
<1>4. CASE object.raw.data = "normal"
  BY <1>1, <1>3, <1>4 DEF Whole, HasMask, HasTag, Missed
<1>5. CASE object.raw.data = "missing"
  <2>1. CASE Missing = "nan"
    BY <1>1, <1>5, <2>1 DEF Whole, Collapses, Missed
  <2>2. CASE Missing = "mask"
    BY <1>1, <1>2, <1>3, <1>5, <2>2 DEF Whole, HasMask, HasTag, Missed
  <2> QED BY <2>1, <2>2, OptionsOK
<1> QED BY <1>1, <1>2, <1>4, <1>5

\* An object reported as stored reads back as what was read from the source, or
\* is reported lossy, whatever failed or raised around it.
THEOREM StoredReadsBackAlways == Spec => []StoredReadsBack
<1>1. Init => DataInv
  BY DataInit
<1>2. DataInv /\ [Next]_vars => DataInv'
  BY DataStep
<1>3. DataInv => StoredReadsBack
  <2> SUFFICES ASSUME DataInv, NEW r \in Runs, NEW o \in StoredBy(r)
               PROVE  LET object == archive[r].objects[job[r].plan[o].to] IN
                      /\ object.raw # None
                      /\ ReadBack(object) = object.raw.data \/ o \in job[r].lossy
    BY DEF StoredReadsBack
  <2>1. Whole(archive[r].objects[job[r].plan[o].to], o \in job[r].lossy)
    BY DEF DataInv, RunOK, StoredIn, StoredBy
  <2> QED BY <2>1, WholeReadsBack
<1> QED BY <1>1, <1>2, <1>3, PTL DEF Spec

\* The mark "complete" means that all of the plan was stored and reads back.
THEOREM CompleteMeansAllAlways == Spec => []CompleteMeansAll
<1>1. Init => DataInv
  BY DataInit
<1>2. DataInv /\ [Next]_vars => DataInv'
  BY DataStep
<1>3. DataInv => CompleteMeansAll
  <2> SUFFICES ASSUME DataInv, NEW r \in Runs, archive[r] # None, archive[r].status = "complete",
                      NEW o \in DOMAIN job[r].plan
               PROVE  LET object == archive[r].objects[job[r].plan[o].to] IN
                      /\ job[r].outcome[o] = "stored"
                      /\ ReadBack(object) = object.raw.data \/ o \in job[r].lossy
    BY DEF CompleteMeansAll
  <2>1. o \in StoredIn(job[r])
    BY DEF DataInv, RunOK, Marks
  <2>2. Whole(archive[r].objects[job[r].plan[o].to], o \in job[r].lossy)
    BY <2>1 DEF DataInv, RunOK
  <2> QED BY <2>1, <2>2, WholeReadsBack DEF StoredIn
<1> QED BY <1>1, <1>2, <1>3, PTL DEF Spec

\* An archive is at a destination only when its run has finished it, with
\* counts that check_layout accepts and an outcome for every object.
THEOREM PublishedIsFinishedAlways == Spec => []PublishedIsFinished
<1>1. Init => DataInv
  BY DataInit
<1>2. DataInv /\ [Next]_vars => DataInv'
  BY DataStep
<1>3. DataInv => PublishedIsFinished
  <2> SUFFICES ASSUME DataInv, NEW p \in Paths, NEW r \in Runs, file[p] = Archive(r)
               PROVE  /\ archive[r].status \in {"incomplete", "complete"}
                      /\ LayoutVerified(archive[r])
                      /\ \A o \in DOMAIN job[r].plan : job[r].outcome[o] # "none"
    BY DEF PublishedIsFinished
  <2> DEFINE j == job[r]
             a == archive[r]
  <2>1. pc[r] = "done" /\ RunOK("done", j, a) /\ j \in Jobs
    BY DEF DataInv, DataType
  <2>2. Accounted(j)
    BY <2>1 DEF RunOK, Early
  <2>3. /\ a.planned = Cardinality(Planned(j.plan, "store"))
        /\ a.written = Cardinality(StoredIn(j)) /\ a.status = j.final /\ j.todo = {}
        /\ j.final = "complete" => StoredIn(j) = DOMAIN j.plan
    BY <2>1 DEF RunOK, Marks, HasCount, HasArchive, Closing
  <2>4. \A o \in DOMAIN j.plan : j.outcome[o] # "none"
    BY <2>2, <2>3 DEF Accounted
  <2>5. StoredIn(j) \subseteq Planned(j.plan, "store")
    BY <2>2 DEF Accounted
  <2>6. IsFiniteSet(Planned(j.plan, "store"))
    <3>1. Planned(j.plan, "store") \subseteq Objects
      BY <2>2 DEF Accounted, Plans, Planned
    <3> QED BY <3>1, OptionsOK, FS_Subset
  <2>7. /\ Cardinality(StoredIn(j)) <= Cardinality(Planned(j.plan, "store"))
        /\ Cardinality(StoredIn(j)) \in Nat /\ Cardinality(Planned(j.plan, "store")) \in Nat
    BY <2>5, <2>6, FS_Subset, FS_CardinalityType
  <2>8. j.final = "complete" => StoredIn(j) = Planned(j.plan, "store")
    BY <2>3, <2>5 DEF Planned
  <2>9. a.status \in {"incomplete", "complete"}
    BY <2>1, <2>3 DEF Jobs
  <2>10. LayoutVerified(a)
    BY <2>3, <2>7, <2>8, <2>9, NamesDistinct DEF LayoutVerified
  <2> QED BY <2>4, <2>9, <2>10
<1> QED BY <1>1, <1>2, <1>3, PTL DEF Spec

-----------------------------------------------------------------------------
(* The collision scan *)

LEMMA Least ==
  ASSUME NEW T, T \subseteq Nat, T # {}
  PROVE  \E m \in T : \A n \in T : m <= n
<1>1. PICK m \in T : \A n \in T : <<n, m>> \notin OpToRel(<, Nat)
  BY NatLessThanWellFounded, WFMin
<1>2. ASSUME NEW n \in T, n < m PROVE FALSE
  <2>1. <<n, m>> \in OpToRel(<, Nat)
    BY <1>2 DEF OpToRel
  <2> QED BY <1>1, <2>1
<1> QED BY <1>2

\* A set of numbers with 0 and the successor of each of its members has them all.
LEMMA Successors ==
  ASSUME NEW T, 0 \in T, \A n \in Nat : n \in T => n + 1 \in T
  PROVE  Nat \subseteq T
<1> SUFFICES ASSUME Nat \ T # {} PROVE FALSE
  OBVIOUS
<1>1. PICK m \in Nat \ T : \A n \in Nat \ T : m <= n
  BY Least
<1>2. m - 1 \in Nat /\ m - 1 \in T
  BY <1>1
<1> QED BY <1>1, <1>2

\* A finite set of numbers has a greatest.
LEMMA Bounded ==
  ASSUME NEW S, S \subseteq Nat, IsFiniteSet(S), S # {}
  PROVE  Max(S) \in S /\ \A n \in S : n <= Max(S)
<1>1. PICK seq \in Seq(S) : \A n \in S : \E i \in 1..Len(seq) : seq[i] = n
  BY DEF IsFiniteSet
<1> DEFINE length == Len(seq)
<1>10. length \in Nat /\ \A i \in 1..length : seq[i] \in Nat
  <2>1. Len(seq) \in Nat /\ \A i \in 1..Len(seq) : seq[i] \in S
    OBVIOUS
  <2> QED BY <2>1
<1> HIDE DEF length
<1> DEFINE T == {k \in Nat : k <= length => \E b \in Nat : \A i \in 1..k : seq[i] <= b}
<1>2. 0 \in T
  OBVIOUS
<1>3. ASSUME NEW k \in Nat, k \in T PROVE k + 1 \in T
  <2> SUFFICES ASSUME k + 1 <= length PROVE \E b \in Nat : \A i \in 1..(k + 1) : seq[i] <= b
    OBVIOUS
  <2>1. PICK b \in Nat : \A i \in 1..k : seq[i] <= b
    <3>1. k <= length
      BY <1>10
    <3> QED BY <1>3, <3>1
  <2>2. \A i \in 1..(k + 1) : seq[i] \in Nat
    BY <1>10
  <2>3. PICK c \in Nat : c >= b /\ c >= seq[k + 1]
    <3>1. b + seq[k + 1] \in Nat /\ b + seq[k + 1] >= b /\ b + seq[k + 1] >= seq[k + 1]
      BY <2>2
    <3> QED BY <3>1
  <2>4. \A i \in 1..(k + 1) : seq[i] <= c
    BY <2>1, <2>2, <2>3
  <2> QED BY <2>4
<1>4. \A k \in Nat : k \in T
  <2> HIDE DEF T
  <2> QED BY <1>2, <1>3, Successors
<1>5. PICK b \in Nat : \A n \in S : n <= b
  <2>1. PICK b \in Nat : \A i \in 1..length : seq[i] <= b
    <3>1. length \in T
      <4> HIDE DEF T
      <4> QED BY <1>10, <1>4
    <3>2. length <= length
      BY <1>10
    <3> QED BY <3>1, <3>2
  <2> QED BY <1>1, <2>1 DEF length
<1> DEFINE U == {b - n : n \in S}
<1>6. PICK u \in U : \A w \in U : u <= w
  <2>1. \A n \in S : n \in Nat /\ n <= b
    BY <1>5
  <2>2. U \subseteq Nat /\ U # {}
    <3>1. \A n \in S : b - n \in Nat
      BY <2>1
    <3> QED BY <3>1
  <2> HIDE DEF U
  <2> QED BY <2>2, Least
<1>7. PICK m \in S : u = b - m
  BY <1>6
<1>8. \A n \in S : n <= m
  <2> TAKE n \in S
  <2>1. b - n \in U
    OBVIOUS
  <2>2. b - m <= b - n
    BY <1>6, <1>7, <2>1
  <2>3. b \in Nat /\ m \in Nat /\ n \in Nat
    OBVIOUS
  <2> QED BY <2>2, <2>3
<1>9. \E x \in S : \A y \in S : x >= y
  BY <1>8
<1> QED BY <1>9 DEF Max

-----------------------------------------------------------------------------
(* The scan *)

Start == [seen |-> [name \in Names |-> None], hit |-> {}]

\* The recursion has a solution, so that Scanned returns what its equation says.
LEMMA ScanStep ==
  ASSUME NEW entries
  PROVE  /\ Scanned(entries, 0) = Start
         /\ \A n \in Nat : Scanned(entries, n + 1) = Visit(entries, Scanned(entries, n), n)
<1> DEFINE Prefix(g, n) ==
             g = [k \in 0..n |-> IF k = 0 THEN Start ELSE Visit(entries, g[k - 1], k - 1)]
           Known == {n \in Nat : \E g : Prefix(g, n)}
<1>1. 0 \in Known
  <2>1. Prefix([k \in 0..0 |-> Start], 0)
    OBVIOUS
  <2> QED BY <2>1
<1>2. ASSUME NEW n \in Nat, n \in Known PROVE n + 1 \in Known
  <2>1. PICK g : Prefix(g, n)
    BY <1>2
  <2> DEFINE h == [k \in 0..(n + 1) |-> IF k <= n THEN g[k] ELSE Visit(entries, g[n], n)]
  <2>2. \A k \in 0..n : g[k] = IF k = 0 THEN Start ELSE Visit(entries, g[k - 1], k - 1)
    BY <2>1
  <2>5. h[0] = Start /\ \A k \in 0..(n + 1) : k # 0 => h[k] = Visit(entries, h[k - 1], k - 1)
    BY <2>2
  <2>3. \A k \in 0..(n + 1) : h[k] = IF k = 0 THEN Start ELSE Visit(entries, h[k - 1], k - 1)
    BY <2>5
  <2>4. Prefix(h, n + 1)
    <3>1. h = [k \in 0..(n + 1) |-> h[k]]
      OBVIOUS
    <3> HIDE DEF h
    <3> QED BY <2>3, <3>1
  <2> HIDE DEF h, Prefix
  <2> QED BY <2>4
<1>3. \A n \in Nat : \E g : Prefix(g, n)
  BY <1>1, <1>2, Successors
<1> DEFINE Of(n) == CHOOSE g : Prefix(g, n)
           F == [n \in Nat |-> Of(n)[n]]
<1>4. ASSUME NEW n \in Nat, NEW k \in 0..n
      PROVE  Of(n)[k] = IF k = 0 THEN Start ELSE Visit(entries, Of(n)[k - 1], k - 1)
  <2>1. Prefix(Of(n), n)
    BY <1>3
  <2> HIDE DEF Of
  <2> QED BY <2>1
<1> HIDE DEF Of
<1>5. ASSUME NEW n \in Nat PROVE \A k \in 0..n : Of(n)[k] = Of(k)[k]
  <2> DEFINE T == {k \in Nat : k <= n => \A m \in Nat : k <= m => Of(m)[k] = Of(n)[k]}
  <2>1. 0 \in T
    BY <1>4
  <2>2. ASSUME NEW k \in Nat, k \in T PROVE k + 1 \in T
    <3> SUFFICES ASSUME k + 1 <= n, NEW m \in Nat, k + 1 <= m PROVE Of(m)[k + 1] = Of(n)[k + 1]
      OBVIOUS
    <3>1. Of(m)[k] = Of(n)[k]
      BY <2>2
    <3>2. Of(m)[k + 1] = Visit(entries, Of(m)[k], k) /\ Of(n)[k + 1] = Visit(entries, Of(n)[k], k)
      BY <1>4
    <3> QED BY <3>1, <3>2
  <2>3. \A k \in Nat : k \in T
    BY <2>1, <2>2, Successors
  <2> QED BY <2>3
<1>6. \A n \in Nat : F[n] = IF n = 0 THEN Start ELSE Visit(entries, F[n - 1], n - 1)
  <2> TAKE n \in Nat
  <2>1. n # 0 => n - 1 \in Nat /\ n - 1 \in 0..n
    OBVIOUS
  <2>2. n # 0 => Of(n)[n - 1] = Of(n - 1)[n - 1]
    BY <1>5, <2>1
  <2> QED BY <1>4, <2>1, <2>2
<1> DEFINE Solves(g) == g = [n \in Nat |-> IF n = 0 THEN Start ELSE Visit(entries, g[n - 1], n - 1)]
           Scan == CHOOSE g : Solves(g)
<1>7. Solves(F)
  BY <1>6
<1>8. Solves(Scan)
  BY <1>7
<1>9. \A n : Scanned(entries, n) = Scan[n]
  BY DEF Scanned, Start
<1> HIDE DEF Scan
<1>10. \A n \in Nat : Scan[n] = IF n = 0 THEN Start ELSE Visit(entries, Scan[n - 1], n - 1)
  BY <1>8
<1> HIDE DEF Solves
<1>11. \A n \in Nat : n + 1 \in Nat /\ n + 1 # 0 /\ (n + 1) - 1 = n
  OBVIOUS
<1>12. \A n \in Nat : Scan[n + 1] = Visit(entries, Scan[n], n)
  BY <1>10, <1>11
<1> QED BY <1>9, <1>10, <1>12

\* The objects that may have a name.
InPlay(entries) ==
  {o \in DOMAIN entries : entries[o].to # None /\ entries[o].action # "refuse"}

\* What the scan knows before object n: for each name the last object that has it,
\* and all objects so far that share theirs.
Knows(entries, acc, n) ==
  /\ acc.seen \in [Names -> Nat \cup {None}]
  /\ \A name \in Names :
       LET so == {o \in InPlay(entries) : o < n /\ entries[o].to = name}
       IN  /\ acc.seen[name] = None => so = {}
           /\ acc.seen[name] # None => acc.seen[name] \in so
  /\ acc.hit = {o \in InPlay(entries) :
       o < n /\ \E p \in InPlay(entries) \ {o} : p < n /\ entries[p].to = entries[o].to}

LEMMA VisitKnows ==
  ASSUME NEW entries, DOMAIN entries \subseteq Nat,
         \A o \in DOMAIN entries : entries[o].to \in Names \cup {None},
         NEW n \in Nat, NEW acc, acc = [seen |-> acc.seen, hit |-> acc.hit],
         Knows(entries, acc, n)
  PROVE  /\ Knows(entries, Visit(entries, acc, n), n + 1)
         /\ LET next == Visit(entries, acc, n)
            IN  next = [seen |-> next.seen, hit |-> next.hit]
<1> DEFINE P == InPlay(entries)
           To(o) == entries[o].to
           next == Visit(entries, acc, n)
<1>1. P \subseteq Nat /\ \A o \in P : To(o) \in Names
  BY DEF InPlay
<1>2. /\ acc.seen \in [Names -> Nat \cup {None}]
      /\ \A name \in Names :
           /\ acc.seen[name] = None => \A o \in P : ~(o < n /\ To(o) = name)
           /\ acc.seen[name] # None =>
                acc.seen[name] \in P /\ acc.seen[name] < n /\ To(acc.seen[name]) = name
      /\ \A o : o \in acc.hit <=>
           o \in P /\ o < n /\ \E p \in P \ {o} : p < n /\ To(p) = To(o)
  BY DEF Knows
<1>3. \A o \in P : o < n + 1 <=> (o < n \/ o = n)
  BY <1>1
<1>4. SUFFICES /\ next = [seen |-> next.seen, hit |-> next.hit]
               /\ next.seen \in [Names -> Nat \cup {None}]
               /\ \A name \in Names :
                    /\ next.seen[name] = None => \A o \in P : ~(o < n + 1 /\ To(o) = name)
                    /\ next.seen[name] # None =>
                         next.seen[name] \in P /\ next.seen[name] < n + 1 /\ To(next.seen[name]) = name
               /\ \A o : o \in next.hit <=>
                    o \in P /\ o < n + 1 /\ \E p \in P \ {o} : p < n + 1 /\ To(p) = To(o)
  <2>1. next.hit = {o \in P : o < n + 1 /\ \E p \in P \ {o} : p < n + 1 /\ To(p) = To(o)}
    BY <1>4
  <2> HIDE DEF P, next
  <2> QED BY <1>4, <2>1 DEF Knows, P, next
<1>5. CASE n \notin P
  <2>1. next = acc
    BY <1>5 DEF Visit, InPlay
  <2>2. \A o \in P : o < n + 1 <=> o < n
    BY <1>3, <1>5
  <2> HIDE DEF next, P, To
  <2> QED BY <1>2, <2>1, <2>2
<1>6. CASE n \in P
  <2> DEFINE to == To(n)
             found == IF acc.seen[to] = None THEN {} ELSE {acc.seen[to], n}
  <2>1. to \in Names
    BY <1>1, <1>6
  <2>2. next = [seen |-> [acc.seen EXCEPT ![to] = n], hit |-> acc.hit \cup found]
    BY <1>6 DEF Visit, InPlay
  <2> HIDE DEF next
  <2>3. next.seen = [acc.seen EXCEPT ![to] = n] /\ next.hit = acc.hit \cup found
    BY <2>2
  <2>4. next.seen[to] = n /\ \A name \in Names \ {to} : next.seen[name] = acc.seen[name]
    BY <1>2, <2>1, <2>3
  <2>5. next.seen \in [Names -> Nat \cup {None}]
    BY <1>2, <2>1, <2>3
  <2>6. n # None
    BY NamesDistinct
  <2> HIDE DEF P, To, to
  <2>7. ASSUME NEW name \in Names
        PROVE  /\ next.seen[name] = None => \A o \in P : ~(o < n + 1 /\ To(o) = name)
               /\ next.seen[name] # None =>
                    next.seen[name] \in P /\ next.seen[name] < n + 1 /\ To(next.seen[name]) = name
    <3>1. CASE name = to
      <4>1. n < n + 1
        OBVIOUS
      <4> QED BY <1>6, <2>4, <2>6, <3>1, <4>1 DEF to
    <3>2. CASE name # to
      <4>1. next.seen[name] = acc.seen[name]
        BY <2>4, <3>2
      <4>2. To(n) # name
        BY <3>2 DEF to
      <4> QED BY <1>2, <1>3, <4>1, <4>2
    <3> QED BY <3>1, <3>2
  <2>8. ASSUME NEW o
        PROVE  o \in next.hit <=>
                 o \in P /\ o < n + 1 /\ \E p \in P \ {o} : p < n + 1 /\ To(p) = To(o)
    <3> DEFINE Shares(m) == o \in P /\ o < m /\ \E p \in P \ {o} : p < m /\ To(p) = To(o)
    <3>1. ~(n < n)
      OBVIOUS
    <3>2. CASE acc.seen[to] = None
      <4>1. \A p \in P : ~(p < n /\ To(p) = To(n))
        BY <1>2, <2>1, <3>2 DEF to
      <4>2. Shares(n + 1) <=> Shares(n)
        BY <1>3, <4>1
      <4>3. o \in next.hit <=> o \in acc.hit
        BY <2>3, <3>2
      <4> QED BY <1>2, <4>2, <4>3
    <3>3. CASE acc.seen[to] # None
      <4> DEFINE last == acc.seen[to]
      <4>1. last \in P /\ last < n /\ To(last) = To(n) /\ last # n
        BY <1>2, <2>1, <3>1, <3>3 DEF to
      <4>2. o \in next.hit <=> (o \in acc.hit \/ o = last \/ o = n)
        BY <2>3, <3>3
      <4> HIDE DEF last
      <4>3. ASSUME Shares(n + 1), o # n, o # last PROVE Shares(n)
        <5>1. PICK p \in P \ {o} : p < n + 1 /\ To(p) = To(o)
          BY <4>3
        <5>2. CASE p = n
          BY <1>3, <4>1, <4>3, <5>1, <5>2
        <5>3. CASE p # n
          BY <1>3, <4>3, <5>1, <5>3
        <5> QED BY <5>2, <5>3
      <4>4. Shares(n) => Shares(n + 1)
        BY <1>3
      <4>5. o = n \/ o = last => Shares(n + 1)
        BY <1>3, <1>6, <4>1
      <4> QED BY <1>2, <4>2, <4>3, <4>4, <4>5
    <3> QED BY <3>2, <3>3
  <2> QED BY <2>2, <2>3, <2>5, <2>7, <2>8
<1> QED BY <1>5, <1>6

\* After all names the scan has found the objects that share theirs.
LEMMA ScanFinds ==
  ASSUME NEW entries, DOMAIN entries \subseteq Nat, IsFiniteSet(DOMAIN entries),
         \A o \in DOMAIN entries : entries[o].to \in Names \cup {None}
  PROVE  Collided(entries) =
           {o \in InPlay(entries) : \E p \in InPlay(entries) \ {o} : entries[p].to = entries[o].to}
<1> DEFINE acc(n) == Scanned(entries, n)
           Right(n) == /\ acc(n) = [seen |-> acc(n).seen, hit |-> acc(n).hit]
                       /\ Knows(entries, acc(n), n)
           T == {n \in Nat : Right(n)}
           P == InPlay(entries)
           last == Max({0} \cup DOMAIN entries)
<1>1. P \subseteq DOMAIN entries /\ P \subseteq Nat
  BY DEF InPlay
<1>2. 0 \in T
  <2>1. acc(0) = Start
    BY ScanStep
  <2>2. \A o \in P : ~(o < 0)
    BY <1>1
  <2>3. Knows(entries, Start, 0)
    BY <2>2 DEF Knows, Start
  <2>4. Start = [seen |-> Start.seen, hit |-> Start.hit]
    BY DEF Start
  <2> HIDE DEF acc
  <2> QED BY <2>1, <2>3, <2>4
<1>3. ASSUME NEW n \in Nat, n \in T PROVE n + 1 \in T
  <2>1. acc(n + 1) = Visit(entries, acc(n), n)
    BY ScanStep
  <2>2. Right(n)
    BY <1>3
  <2> HIDE DEF acc
  <2>3. Right(n + 1)
    BY <2>1, <2>2, VisitKnows
  <2> QED BY <2>3
<1>4. last \in Nat /\ \A o \in P : o < last + 1
  <2> DEFINE S == {0} \cup DOMAIN entries
  <2>1. S \subseteq Nat /\ S # {} /\ IsFiniteSet(S)
    <3>1. IsFiniteSet({0})
      BY FS_Singleton
    <3>2. IsFiniteSet(S)
      BY <3>1, FS_Union
    <3> QED BY <3>2
  <2>2. Max(S) \in S /\ \A o \in S : o <= Max(S)
    BY <2>1, Bounded
  <2>3. last = Max(S)
    OBVIOUS
  <2> HIDE DEF last
  <2>4. last \in Nat /\ \A o \in P : o \in Nat /\ o <= last
    BY <1>1, <2>1, <2>2, <2>3
  <2> HIDE DEF P
  <2> QED BY <2>4
<1>5. last + 1 \in T
  <2>1. \A n \in Nat : n \in T
    <3> HIDE DEF T
    <3> QED BY <1>2, <1>3, Successors
  <2> HIDE DEF T, last
  <2> QED BY <1>4, <2>1
<1>6. Collided(entries) = acc(last + 1).hit
  BY DEF Collided
<1> HIDE DEF last
<1>7. acc(last + 1).hit =
        {o \in P : o < last + 1 /\ \E p \in P \ {o} : p < last + 1 /\ entries[p].to = entries[o].to}
  BY <1>5 DEF Knows
<1> HIDE DEF acc, P
<1>8. acc(last + 1).hit = {o \in P : \E p \in P \ {o} : entries[p].to = entries[o].to}
  BY <1>4, <1>7
<1> QED BY <1>6, <1>8 DEF P

\* Whatever the source lists and however namecase names it, the scan of
\* plan_migration finds all objects that share a destination name and no other: none
\* is overwritten in the archive by another, none is refused without need.
THEOREM CollisionsAlwaysFound == Spec => []CollisionsFound
<1>1. DataType => CollisionsFound
  <2> SUFFICES ASSUME DataType PROVE CollisionsFound
    OBVIOUS
  <2> DEFINE D == {x \in Objects : source[x] # None}
             entries == [o \in D |-> Entry(o, source[o])]
  <2>1. DOMAIN entries = D /\ D \subseteq Nat /\ IsFiniteSet(D)
    BY OptionsOK, FS_Subset
  <2>2. \A o \in D : entries[o].to \in Names \cup {None}
    BY DEF DataType, Entry
  <2> HIDE DEF entries
  <2>3. Collided(entries) =
          {o \in InPlay(entries) : \E p \in InPlay(entries) \ {o} : entries[p].to = entries[o].to}
    BY <2>1, <2>2, ScanFinds
  <2> QED BY <2>3 DEF CollisionsFound, InPlay, entries
<1>2. Init => DataInv
  BY DataInit
<1>3. DataInv /\ [Next]_vars => DataInv'
  BY DataStep
<1> QED BY <1>1, <1>2, <1>3, PTL DEF Spec, DataInv
=============================================================================
