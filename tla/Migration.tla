------------------------------ MODULE Migration ------------------------------
(***************************************************************************)
(* Runs of migrate() (migration/_migrate.py, _layout.py): each copies the  *)
(* objects of one FAME source into a new DataEcon archive.                 *)
(*                                                                         *)
(* A run plans from metadata, claims the destination path exclusively,     *)
(* writes object after object into a partial file of its own and moves it  *)
(* onto the claim.  Between any two steps the source may change, another   *)
(* run or program may act on the same path, the step may raise, inside or  *)
(* outside the per-object containment, and the process may be killed.      *)
(*                                                                         *)
(* A definition marked "Mutant" is not part of the model: it is the next   *)
(* one with a plausible bug, and shows that a property can fail.           *)
(***************************************************************************)
EXTENDS Naturals, FiniteSetsExt

CONSTANTS
  Runs,         \* calls of migrate(), of one process or of several
  Paths,        \* destination paths
  Objects,      \* names of source objects, as numbers in name order
  Names,        \* destination names
  Contents,     \* what a source object may be
  Missing,      \* option missing: "mask" or "nan"
  Unsupported,  \* option unsupported: "refuse" or "skip"
  Empty,        \* option empty: "carrier" or "refuse"
  FirstDates,   \* the objects with an entry in empty_firstdates
  WrongDates,   \* those whose entry has another frequency than the series
  Outsiders,    \* what other programs do to a destination: "create", "remove"
  MaxChanges,   \* bound: how often the source changes
  Foreign,      \* a file no run made
  Invalid,      \* namecase raised, or returned an invalid name
  None

\* One source object: what the plan sees of it, and what its values turn out to be.
ContentRecords == [meta : {"other", "frequency", "scalar", "series", "empty"},
                   floating : BOOLEAN,
                   data : {"normal", "missing", "bad"}]

\* A source lists finitely many objects; an empty series has no value that
\* could be missing.
ASSUME OptionsOK ==
  /\ Objects \subseteq Nat /\ IsFiniteSet(Objects)
  /\ Contents \subseteq ContentRecords
  /\ \A c \in Contents : c.meta = "empty" => c.data # "missing"
  /\ Missing \in {"mask", "nan"}
  /\ Unsupported \in {"refuse", "skip"}
  /\ Empty \in {"carrier", "refuse"}
  /\ WrongDates \subseteq FirstDates
  /\ Outsiders \subseteq {"create", "remove"}
  /\ MaxChanges \in Nat

VARIABLES
  source,   \* content of each source object, or None
  changes,  \* how often it changed
  dest,     \* namecase: destination name of each object, or Invalid
  file,     \* what is at each destination path
  pc,       \* where each run is
  target,   \* its destination
  job,      \* its local variables
  archive   \* its partial file, and after the move the file at its destination

vars == <<source, changes, dest, file, pc, target, job, archive>>

Claim(r) == [kind |-> "claim", run |-> r]
Archive(r) == [kind |-> "archive", run |-> r]

ASSUME FilesDistinct ==
  /\ Foreign # None
  /\ \A r \in Runs : Claim(r) \notin {None, Foreign} /\ Archive(r) \notin {None, Foreign}

Files == {None, Foreign} \cup {Claim(r) : r \in Runs} \cup {Archive(r) : r \in Runs}

\* An archive: its mark, its counts and the object under each name.
Slots == [raw : Contents \cup {None}, mask : BOOLEAN, attributes : {"none", "kind", "all"}]
Archives == [status : {"none", "started", "incomplete", "complete"},
             planned : Nat \cup {None}, written : Nat \cup {None}, objects : [Names -> Slots]]

ASSUME NamesDistinct ==
  /\ None \notin Nat \cup Names \cup Contents \cup Archives
  /\ Invalid \notin Names

NoObject == [raw |-> None, mask |-> FALSE, attributes |-> "none"]
FreshArchive == [status |-> "none", planned |-> None, written |-> None,
                 objects |-> [n \in Names |-> NoObject]]
FreshJob == [plan |-> None, given |-> FALSE, todo |-> {}, current |-> None, raw |-> None,
             outcome |-> [o \in Objects |-> "none"], lossy |-> {}, final |-> "incomplete",
             raised |-> FALSE]

\* The run goes on to a step, perhaps with new local variables.
Goto(r, where) == pc' = [pc EXCEPT ![r] = where]

-----------------------------------------------------------------------------
(* plan_migration *)

\* _plan_entry: what the metadata and the options decide for one object.
Verdict(o, c) ==
  CASE c.meta = "other"                                    -> Unsupported
    [] c.meta # "other" /\ dest[o] = Invalid               -> "refuse"
    [] c.meta = "frequency" /\ dest[o] # Invalid           -> Unsupported
    [] OTHER ->
         IF \/ o \in FirstDates /\ (c.meta # "empty" \/ o \in WrongDates)
            \/ c.meta = "empty" /\ Empty = "refuse" /\ o \notin FirstDates
         THEN "refuse" ELSE "store"

Entry(o, c) == [meta |-> c.meta, floating |-> c.floating, action |-> Verdict(o, c),
                to |-> IF c.meta = "other" \/ dest[o] = Invalid THEN None ELSE dest[o]]

\* Mutant: only the later of two objects is refused, the earlier one kept.
CollidedLater(entries) ==
  {o \in DOMAIN entries : \E p \in DOMAIN entries :
     p < o /\ entries[o].to = entries[p].to /\ entries[o].to # None
       /\ "refuse" \notin {entries[o].action, entries[p].action}}

\* The scan meets an object: one that may have a name marks the last object that had
\* the same, and itself.
Visit(entries, acc, o) ==
  IF o \notin DOMAIN entries \/ entries[o].to = None \/ entries[o].action = "refuse" THEN acc
  ELSE LET to == entries[o].to
       IN  [seen |-> [acc.seen EXCEPT ![to] = o],
            hit |-> acc.hit \cup IF acc.seen[to] = None THEN {} ELSE {acc.seen[to], o}]

\* What the scan has seen and found before object n, in the order of the names.
Scanned(entries, n) ==
  LET scan[k \in Nat] == IF k = 0 THEN [seen |-> [name \in Names |-> None], hit |-> {}]
                         ELSE Visit(entries, scan[k - 1], k - 1)
  IN  scan[n]
Collided(entries) == Scanned(entries, Max({0} \cup DOMAIN entries) + 1).hit

Plan(src) ==
  LET entries == [o \in {x \in Objects : src[x] # None} |-> Entry(o, src[o])]
  IN  [o \in DOMAIN entries |->
         IF o \in Collided(entries) THEN [entries[o] EXCEPT !.action = "refuse"]
                                    ELSE entries[o]]

Planned(plan, action) == {o \in DOMAIN plan : plan[o].action = action}

\* A caller plans ahead of the run.
PlanAhead(r) ==
  /\ pc[r] = "idle"
  /\ job[r].plan = None
  /\ job' = [job EXCEPT ![r].plan = Plan(source), ![r].given = TRUE]
  /\ UNCHANGED <<source, changes, dest, file, pc, target, archive>>

-----------------------------------------------------------------------------
(* migrate: checks, plan and claim *)

\* _check_destination: whatever exists there already is refused.
Begin(r, p) ==
  /\ pc[r] = "idle"
  /\ target' = [target EXCEPT ![r] = p]
  /\ Goto(r, IF file[p] = None THEN "plan" ELSE "refused")
  /\ UNCHANGED <<source, changes, dest, file, job, archive>>

\* Build the plan, or check the given one (_check_plan) against the source.
CheckPlan(r) ==
  LET current == Plan(source)
      agreed == (job[r].given => job[r].plan = current) /\ Planned(current, "refuse") = {}
  IN  /\ pc[r] = "plan"
      /\ Goto(r, IF agreed THEN "claim" ELSE "refused")
      /\ job' = [job EXCEPT ![r].plan = current, ![r].todo = Planned(current, "store"),
                            ![r].outcome = [o \in Objects |->
                               IF o \in Planned(current, "skip") THEN "skipped" ELSE "none"]]
      /\ UNCHANGED <<source, changes, dest, file, target, archive>>

\* The source cannot be opened, listed or closed: nothing was created.
PlanRaises(r) ==
  /\ pc[r] = "plan"
  /\ Goto(r, "refused")
  /\ UNCHANGED <<source, changes, dest, file, target, job, archive>>

\* Mutant: the claim opens whatever is there by now.
ClaimPathShared(r) ==
  /\ pc[r] = "claim"
  /\ file' = [file EXCEPT ![target[r]] = Claim(r)]
  /\ Goto(r, "claimed")
  /\ UNCHANGED <<source, changes, dest, target, job, archive>>

\* Mutant: the refused claim is cleaned up like the run's own.
ClaimPathReleases(r) ==
  /\ pc[r] = "claim"
  /\ IF file[target[r]] = None
     THEN file' = [file EXCEPT ![target[r]] = Claim(r)] /\ Goto(r, "claimed")
     ELSE Goto(r, "release") /\ UNCHANGED file
  /\ UNCHANGED <<source, changes, dest, target, job, archive>>

\* _claim: created exclusively, or refused.
ClaimPath(r) ==
  /\ pc[r] = "claim"
  /\ IF file[target[r]] = None
     THEN file' = [file EXCEPT ![target[r]] = Claim(r)] /\ Goto(r, "claimed")
     ELSE Goto(r, "refused") /\ UNCHANGED file
  /\ UNCHANGED <<source, changes, dest, target, job, archive>>

\* The open fails for another reason, or is interrupted: nothing was created.
ClaimRaises(r) ==
  /\ pc[r] = "claim"
  /\ Goto(r, "refused")
  /\ UNCHANGED <<source, changes, dest, file, target, job, archive>>

\* The partial file gets its name.  Should there be such a file, the run is refused
\* and its claim released.
NamePartial(r) ==
  /\ pc[r] = "claimed"
  /\ \E next \in {"open", "release"} : Goto(r, next)
  /\ UNCHANGED <<source, changes, dest, file, target, job, archive>>

-----------------------------------------------------------------------------
(* migrate: the partial file and its marks *)

OpenPartial(r) ==
  /\ pc[r] = "open"
  /\ archive' = [archive EXCEPT ![r] = FreshArchive]
  /\ Goto(r, "mark")
  /\ UNCHANGED <<source, changes, dest, file, target, job>>

MarkStarted(r) ==
  /\ pc[r] = "mark"
  /\ archive' = [archive EXCEPT ![r].status = "started"]
  /\ Goto(r, "count")
  /\ UNCHANGED <<source, changes, dest, file, target, job>>

MarkPlanned(r) ==
  /\ pc[r] = "count"
  /\ archive' = [archive EXCEPT ![r].planned = Cardinality(Planned(job[r].plan, "store"))]
  /\ Goto(r, "loop")
  /\ UNCHANGED <<source, changes, dest, file, target, job>>

-----------------------------------------------------------------------------
(* _migrate_one: read, convert, store; every failure listed is contained *)

Missed(c) == c.data = "missing"

\* _convert refuses data the policies cannot represent.
Convertible(c) ==
  /\ c.meta \in {"scalar", "series", "empty"}
  /\ c.data # "bad"
  /\ Missed(c) /\ Missing = "nan" => c.floating

\* What is stored for it under the lossy policy, and whether that loses a category.
Collapses(c) == Missed(c) /\ Missing = "nan"
HasMask(c) == c.meta = "series" /\ Missed(c) /\ Missing = "mask"
HasTag(c) == c.meta = "scalar" /\ Missed(c) /\ Missing = "mask"

ReadObject(r, o) ==
  /\ pc[r] = "loop"
  /\ o \in job[r].todo
  /\ source[o] # None
  /\ Convertible(source[o])
  /\ job' = [job EXCEPT ![r].current = o, ![r].raw = source[o]]
  /\ Goto(r, "data")
  /\ UNCHANGED <<source, changes, dest, file, target, archive>>

\* Not there any more, not convertible by now, or not readable.
ReadFails(r, o) ==
  /\ pc[r] = "loop"
  /\ o \in job[r].todo
  /\ job' = [job EXCEPT ![r].todo = @ \ {o}, ![r].outcome[o] = "failed"]
  /\ UNCHANGED <<source, changes, dest, file, pc, target, archive>>

Stored(r) == archive[r].objects[job[r].plan[job[r].current].to]
Store(r, object) ==
  archive' = [archive EXCEPT ![r].objects[job[r].plan[job[r].current].to] = object]

\* The object's step ends and the loop goes on.
Finish(r, outcome) ==
  /\ Goto(r, "loop")
  /\ job' = [job EXCEPT ![r].todo = @ \ {job[r].current},
                        ![r].outcome[job[r].current] = outcome,
                        ![r].lossy = IF outcome = "stored" /\ Collapses(job[r].raw)
                                     THEN @ \cup {job[r].current} ELSE @]

WriteData(r) ==
  /\ pc[r] = "data"
  /\ Stored(r) = NoObject
  /\ Store(r, [NoObject EXCEPT !.raw = job[r].raw])
  /\ Goto(r, IF HasMask(job[r].raw) THEN "mask" ELSE "kind")
  /\ UNCHANGED <<source, changes, dest, file, target, job>>

WriteMask(r) ==
  /\ pc[r] = "mask"
  /\ Store(r, [Stored(r) EXCEPT !.mask = TRUE])
  /\ Goto(r, "kind")
  /\ UNCHANGED <<source, changes, dest, file, target, job>>

\* _set writes attribute after attribute, "kind" first.  A scalar that is not
\* missing has no further one that reading back would need.
SetKind(r) ==
  /\ pc[r] = "kind"
  /\ LET last == job[r].raw.meta = "scalar" /\ ~HasTag(job[r].raw) IN
     /\ Store(r, [Stored(r) EXCEPT !.attributes = IF last THEN "all" ELSE "kind"])
     /\ IF last THEN Finish(r, "stored") ELSE Goto(r, "attributes") /\ UNCHANGED job
  /\ UNCHANGED <<source, changes, dest, file, target>>

SetAttributes(r) ==
  /\ pc[r] = "attributes"
  /\ Store(r, [Stored(r) EXCEPT !.attributes = "all"])
  /\ Finish(r, "stored")
  /\ UNCHANGED <<source, changes, dest, file, target>>

\* Mutant: an object whose store failed counts as stored.
StoreFailsUnnoticed(r) ==
  /\ pc[r] \in {"data", "mask", "kind", "attributes"}
  /\ Finish(r, "stored")
  /\ UNCHANGED <<source, changes, dest, file, target, archive>>

StoreFails(r) ==
  /\ pc[r] \in {"data", "mask", "kind", "attributes"}
  /\ Finish(r, "failed")
  /\ UNCHANGED <<source, changes, dest, file, target, archive>>

-----------------------------------------------------------------------------
(* migrate: the end of the run *)

StoredBy(r) == {o \in Objects : job[r].outcome[o] = "stored"}

LoopEnds(r) ==
  /\ pc[r] = "loop"
  /\ job[r].todo = {}
  /\ Goto(r, "closesource")
  /\ UNCHANGED <<source, changes, dest, file, target, job, archive>>

\* Mutant: skipped objects do not count.
DecideIgnoringSkips(r) ==
  /\ pc[r] = "closesource"
  /\ job' = [job EXCEPT ![r].final =
               IF StoredBy(r) = Planned(job[r].plan, "store") THEN "complete" ELSE "incomplete"]
  /\ Goto(r, "written")
  /\ UNCHANGED <<source, changes, dest, file, target, archive>>

\* The source is closed and the final status decided.
Decide(r) ==
  /\ pc[r] = "closesource"
  /\ job' = [job EXCEPT ![r].final =
               IF /\ StoredBy(r) = Planned(job[r].plan, "store")
                  /\ Planned(job[r].plan, "skip") = {}
               THEN "complete" ELSE "incomplete"]
  /\ Goto(r, "written")
  /\ UNCHANGED <<source, changes, dest, file, target, archive>>

\* Mutant: the final mark is forgotten.
SetWrittenOnly(r) ==
  /\ pc[r] = "written"
  /\ archive' = [archive EXCEPT ![r].written = Cardinality(StoredBy(r))]
  /\ Goto(r, IF job[r].raised THEN "release" ELSE "replace")
  /\ UNCHANGED <<source, changes, dest, file, target, job>>

SetWritten(r) ==
  /\ pc[r] = "written"
  /\ archive' = [archive EXCEPT ![r].written = Cardinality(StoredBy(r))]
  /\ Goto(r, "status")
  /\ UNCHANGED <<source, changes, dest, file, target, job>>

SetStatus(r) ==
  /\ pc[r] = "status"
  /\ archive' = [archive EXCEPT ![r].status = job[r].final]
  /\ Goto(r, IF job[r].raised THEN "release" ELSE "replace")
  /\ UNCHANGED <<source, changes, dest, file, target, job>>

\* The partial file is closed and moved onto the destination.
Replace(r) ==
  /\ pc[r] = "replace"
  /\ file' = [file EXCEPT ![target[r]] = Archive(r)]
  /\ Goto(r, "done")
  /\ UNCHANGED <<source, changes, dest, target, job, archive>>

-----------------------------------------------------------------------------
(* Exceptions outside the containment, and kills *)

\* Mutant: the claim stays behind.
RaisesUnreleased(r) ==
  /\ pc[r] \in {"open", "mark", "count", "written", "status", "replace"}
  /\ Goto(r, "stopped")
  /\ UNCHANGED <<source, changes, dest, file, target, job, archive>>

\* Outside the inner try: straight to _release.
Raises(r) ==
  /\ pc[r] \in {"open", "mark", "count", "written", "status", "replace"}
  /\ Goto(r, "release")
  /\ UNCHANGED <<source, changes, dest, file, target, job, archive>>

\* Inside it: the counts and the mark "incomplete" are written first.
LoopRaises(r) ==
  /\ pc[r] \in {"loop", "data", "mask", "kind", "attributes", "closesource"}
  /\ job' = [job EXCEPT ![r].raised = TRUE]
  /\ Goto(r, "written")
  /\ UNCHANGED <<source, changes, dest, file, target, archive>>

\* Claims have no bytes; archives and the files of others do.
ZeroBytes(f) == f \in {Claim(r) : r \in Runs}

\* _release, in its two steps: the size is looked at, then the file is removed.
\* Whatever it did, the run then raises.
Release(r) ==
  /\ pc[r] = "release"
  /\ Goto(r, IF ZeroBytes(file[target[r]]) THEN "unlink" ELSE "stopped")
  /\ UNCHANGED <<source, changes, dest, file, target, job, archive>>

Unlink(r) ==
  /\ pc[r] = "unlink"
  /\ file' = [file EXCEPT ![target[r]] = None]
  /\ Goto(r, "stopped")
  /\ UNCHANGED <<source, changes, dest, target, job, archive>>

\* The run raises and its claim stays: os.close fails or an interrupt comes between
\* the creation of the claim and the try, or _release is interrupted or passes over
\* the error of a step of its own.
LeavesClaim(r) ==
  /\ pc[r] \in {"claimed", "release", "unlink"}
  /\ Goto(r, "left")
  /\ UNCHANGED <<source, changes, dest, file, target, job, archive>>

Ended == {"refused", "done", "stopped", "left", "crashed"}

\* The process is killed: its claim and its partial file stay as they are.
Crash(r) ==
  /\ pc[r] \notin Ended \cup {"idle"}
  /\ Goto(r, "crashed")
  /\ UNCHANGED <<source, changes, dest, file, target, job, archive>>

-----------------------------------------------------------------------------
(* The world around the runs *)

SourceChanges(o, c) ==
  /\ changes < MaxChanges
  /\ source[o] # c
  /\ source' = [source EXCEPT ![o] = c]
  /\ changes' = changes + 1
  /\ UNCHANGED <<dest, file, pc, target, job, archive>>

OutsiderCreates(p) ==
  /\ "create" \in Outsiders
  /\ file[p] = None
  /\ file' = [file EXCEPT ![p] = Foreign]
  /\ UNCHANGED <<source, changes, dest, pc, target, job, archive>>

\* Somebody removes a file of zero bytes, taking it for a leftover.
OutsiderRemoves(p) ==
  /\ "remove" \in Outsiders
  /\ ZeroBytes(file[p])
  /\ file' = [file EXCEPT ![p] = None]
  /\ UNCHANGED <<source, changes, dest, pc, target, job, archive>>

-----------------------------------------------------------------------------
Init ==
  /\ source \in [Objects -> Contents \cup {None}]
  /\ changes = 0
  /\ dest \in [Objects -> Names \cup {Invalid}]
  /\ file \in [Paths -> {None, Foreign}]
  /\ pc = [r \in Runs |-> "idle"]
  /\ target = [r \in Runs |-> None]
  /\ job = [r \in Runs |-> FreshJob]
  /\ archive = [r \in Runs |-> None]

Proceed(r) ==
  \/ CheckPlan(r) \/ PlanRaises(r) \/ ClaimPath(r) \/ ClaimRaises(r) \/ NamePartial(r)
  \/ OpenPartial(r) \/ MarkStarted(r) \/ MarkPlanned(r)
  \/ \E o \in Objects : ReadObject(r, o) \/ ReadFails(r, o)
  \/ WriteData(r) \/ WriteMask(r) \/ SetKind(r) \/ SetAttributes(r) \/ StoreFails(r)
  \/ LoopEnds(r) \/ Decide(r) \/ SetWritten(r) \/ SetStatus(r) \/ Replace(r)
  \/ Raises(r) \/ LoopRaises(r) \/ Release(r) \/ Unlink(r) \/ LeavesClaim(r)

Environment ==
  \/ \E o \in Objects, c \in Contents \cup {None} : SourceChanges(o, c)
  \/ \E p \in Paths : OutsiderCreates(p) \/ OutsiderRemoves(p)

Next ==
  \/ \E r \in Runs : \/ PlanAhead(r) \/ Proceed(r) \/ Crash(r)
                     \/ \E p \in Paths : Begin(r, p)
  \/ Environment

Spec == Init /\ [][Next]_vars

\* A process that is not killed goes on with its run.
FairSpec == Spec /\ \A r \in Runs : WF_vars(Proceed(r))

-----------------------------------------------------------------------------
(* What read_migrated and check_layout make of an archive *)

\* The value read back for an object: an error, or its data category.  A scalar
\* without the tag, like any object without a mask, reads as not missing.
ReadBack(object) ==
  CASE object.attributes = "none" -> "error"
    [] object.attributes = "kind" -> IF object.raw.meta = "scalar" THEN "normal" ELSE "error"
    [] OTHER -> IF object.mask \/ HasTag(object.raw) THEN "missing" ELSE "normal"

LayoutVerified(a) ==
  /\ a.status # "none"
  /\ a.status # "started" => None \notin {a.planned, a.written}
  /\ None \notin {a.planned, a.written} => /\ a.written <= a.planned
                                           /\ a.status = "complete" => a.written = a.planned

-----------------------------------------------------------------------------
(* Properties *)

Working == {"claimed", "open", "mark", "count", "loop", "data", "mask", "kind", "attributes",
            "closesource", "written", "status", "replace", "release", "unlink"}
PCs == {"idle", "plan", "claim"} \cup Working \cup Ended

\* Whatever exists at a path, an archive or a file of somebody else, is left as
\* it is by every run (the claim is exclusive, os.replace and unlink only touch
\* the run's own claim).
NeverOverwrites ==
  [][\A p \in Paths : file[p] \in {Foreign} \cup {Archive(r) : r \in Runs}
                        => file'[p] = file[p]]_vars

\* A run that is writing still owns its claim.
ClaimHeld == \A r \in Runs : pc[r] \in Working => file[target[r]] = Claim(r)

\* An archive is at a destination only when its run finished it: with a final
\* status, counts that check_layout accepts, and no object left half way by a
\* step that was not reported as failed.
PublishedIsFinished ==
  \A p \in Paths, r \in Runs : file[p] = Archive(r) =>
    /\ archive[r].status \in {"incomplete", "complete"}
    /\ LayoutVerified(archive[r])
    /\ \A o \in DOMAIN job[r].plan : job[r].outcome[o] # "none"

\* The mark "complete", in a partial file too, means that every object of the
\* plan was stored, none was skipped, and each reads back as the data read from
\* the source unless its loss is reported.
CompleteMeansAll ==
  \A r \in Runs : archive[r] # None /\ archive[r].status = "complete" =>
    \A o \in DOMAIN job[r].plan :
      LET object == archive[r].objects[job[r].plan[o].to] IN
      /\ job[r].outcome[o] = "stored"
      /\ ReadBack(object) = object.raw.data \/ o \in job[r].lossy

\* An object reported as stored reads back as what was read, or is reported lossy,
\* whatever happened to the other objects.
StoredReadsBack ==
  \A r \in Runs : \A o \in StoredBy(r) :
    LET object == archive[r].objects[job[r].plan[o].to] IN
    /\ object.raw # None
    /\ ReadBack(object) = object.raw.data \/ o \in job[r].lossy

\* The scan in name order finds exactly the objects that share a destination.
CollisionsFound ==
  LET entries == [o \in {x \in Objects : source[x] # None} |-> Entry(o, source[o])]
      inPlay == {o \in DOMAIN entries : entries[o].to # None /\ entries[o].action # "refuse"}
  IN  Collided(entries)
        = {o \in inPlay : \E p \in inPlay \ {o} : entries[p].to = entries[o].to}

\* A claim does not outlive its run: from the try on, every way out of the code moves
\* the archive onto it or goes through _release.  It stays when the process was killed,
\* when the run ended before the try, and when _release itself did not come through.
ClaimResolved ==
  \A r \in Runs, p \in Paths :
    file[p] = Claim(r) ~> (file[p] # Claim(r) \/ pc[r] \in {"left", "crashed"})

\* "A run that stops before the move ... leaves the partial file with its
\* ``started`` or ``incomplete`` mark" (_migrate.py:702-705).
StoppedIsNotComplete ==
  \A r \in Runs : pc[r] = "stopped" /\ archive[r] # None /\ archive[r].status # "none"
    => archive[r].status \in {"started", "incomplete"}
=============================================================================
