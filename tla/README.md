# famepy in TLA+

famepy is a Python package over the native C HLI library ("CHLI") of FAME, a
time-series database.  This directory holds its specifications: TLA+ modules
translated from the package's code under `src/src/famepy/`, TLC configurations
that check them on small instances, and TLAPS proofs of the properties that
matter most for every instance.  `PROJECT.json` maps each definition to the
lines it stands for.

## The system

One process loads at most one native library, which can be initialized once and
finalized once, has no thread safety, and keeps state of its own: open
databases under reusable integer keys, one work database, ITEM options and a
listing cursor, an output redirection, the text of the last error.  The package
puts sessions and database handles on top of it, object I/O on top of those, a
bridge to in-memory workspaces and a migration to DataEcon archives on top of
that, and a runner that validates the whole in child processes.

| Component (source) | State it keeps | Operations | What makes it correct |
|---|---|---|---|
| Runtime and sessions (`_runtime.py`) | `LOCK`, `_OWNER`, `_DEFAULT`, `_LOADED_NATIVE`; per session: state, generation, sentinels, open databases, work database, last error text | `Session`, `default_session`, `load`, `initialize`, `finalize`, `operation`, `init_chli`, `close_chli` | one `cfmini`, one `cfmfin`, every native call between them and under the lock; a terminal session stays terminal |
| Database handles (`_database.py`) | per handle: key, open flag, generation | `opendb`, `workdb`, `postdb`, `closedb`, `with` | a native call reaches the database the handle was opened for; open databases are tracked until they are closed |
| Native boundary (`_native.py`, `_abi.py`) | none of its own | one method per CHLI function; error text; string and name-list buffers | a status other than zero is an error; lengths and ABI as expected |
| Object I/O (`_data.py`, `_objects.py`) | none; the database's objects | `read_named`, `do_read`, `write_raw`, `do_write`, `delete_object` | data are read with the metadata they have; a failed replacement is visible |
| Listings (`_wildcard.py`) | native: ITEM options, cursor | `listdb` | the options are set and restored around one cursor; no other listing interleaves |
| Commands (`_command.py`) | native: output redirection | `expand_input`, `fame` | the redirection is restored on every path; includes end |
| Workspace bridge (`bridge/`) | none | `resolve_names`, `readfame`, `writefame`, reports | destination names do not collide; partial failures are reported per object; owned handles are closed |
| Frequencies (`bridge/_frequencies.py`) | none | FAME frequency and index to TimeSeriesEcon `MIT` and back | the two directions are inverse |
| Migration (`migration/`) | the archive, its partial file, the claim on its path | `plan_migration`, `migrate`, `read_migrated` | nothing is overwritten; the marks say what the archive contains |
| Text and constants (`_text.py`, `_constants.py`, `_errors.py`) | none | encode and decode values; tables | text survives the policies, or is refused |
| Validation runner (`validation/__init__.py`, `_process.py`, `_child.py`, `_report.py`) | report, worker process, result file, recorder | `run`, `run_child`, `read_result`, `write_result`, `Recorder` | a group that met any fault does not pass, one that met none does; no worker keeps the campaign from its end |
| Validation groups (`validation/_groups.py`, `_bridge_groups.py`, `_text_group.py`, `_migration_group.py`) | the cases recorded | eleven group functions, nested workers | every required case is recorded once on every path; a failure hides nothing else |
| Benchmarks, diagnostics, probe, discovery | none | one-shot reports | not modelled, see below |

How they interact.  Every operation of the package runs inside
`Session.operation`, which takes the one reentrant `LOCK` of the process; a
handle is looked up before and validated again under the lock.  Object I/O,
listings and commands are such operations.  The bridge and the migration call
them object by object, so other threads' operations fall between two objects of
one `readfame` or `migrate`.  The migration shares its destination with other
processes through the file system.  The validation runner talks to a child
process through a result file and an exit code.

What is hard.  Native calls fail with a status or are struck by a
`KeyboardInterrupt`, and the attempt must already be recorded then, because the
library has no second one.  Handles go stale between look-up and use while the
library reuses their keys.  Sequences of native calls (error and error text,
options and cursor, redirect and restore) have to be atomic.  Migrations
compete for a path, are killed between two steps, and fail object by object.
`PROJECT.json` lists every hazard at its line, with the properties that cover
it, or the reason why none does.

## Modules

| Module | Models | Composes or extends |
|---|---|---|
| `OneShotLibrary` | what the package promises of the library | |
| `Session` | `_runtime.py`, `_database.py`, the native calls they make | implements `OneShotLibrary` |
| `MCSession` | instances of `Session` for TLC | `Session` |
| `SessionProofs` | theorems about `Session` | `Session`, TLAPS |
| `SharedState` | `_wildcard.py`, `_command.py`: what happens while one call has the lock | |
| `MCSharedState` | instances of `SharedState` | `SharedState` |
| `SharedStateProofs` | theorems about `SharedState` | `SharedState`, TLAPS |
| `Migration` | `migration/_migrate.py`, `migration/_layout.py` | |
| `MCMigration` | instances of `Migration` | `Migration` |
| `MigrationProofs` | theorems about `Migration`: the destination path, the archive's contents and marks, the collision scan | `Migration`, TLAPS |
| `Workspace` | `bridge/_workspace.py` over the reads and writes of `_data.py` | |
| `MCWorkspace` | an instance of `Workspace`, with the keys `BridgeNames` computes | `Workspace`, `BridgeNames` |
| `WorkspaceProofs` | theorems about `Workspace` | `Workspace`, TLAPS |
| `BridgeNames` | names to the keys of nested workspaces (`bridge/_workspace.py`) | |
| `Flatten` | nested workspaces to names, member by member (`bridge/_workspace.py`) | `Calls`, `BridgeNames` |
| `FlattenProofs` | a theorem about `Flatten` and `BridgeNames` | `Flatten`, TLAPS |
| `Calendar` | moments to years and periods and back (`bridge/_frequencies.py`) | |
| `Values` | Python values to objects and back (`bridge/_values.py`, `_text.py`) | |
| `Calls` | one call of a function, its input and its output | |
| `Include` | the expansion of INPUT statements (`_command.py`) | `Calls` |
| `IncludeProofs` | a theorem about `Include` | `Include`, TLAPS |
| `DataConversions` | one call of a function of `Calendar` or `Values`, and what they owe each other | `Calls`, `Calendar`, `Values` |
| `Conversions` | the same with names and INPUT statements | `DataConversions`, `Include`, `Flatten` |
| `MCConversions` | the inputs of `Conversions` | `Conversions` |
| `ConversionProofs` | theorems about `DataConversions` | `DataConversions`, TLAPS |
| `Groups` | the validation groups as scripts | |
| `Scripts` | what a script of a group is, and what it owes by itself | |
| `Campaign` | `validation/__init__.py`, `_process.py`, `_child.py`, `_report.py` | `Scripts` |
| `MCCampaign` | `Campaign` over the groups of `Groups` | `Campaign`, `Groups` |
| `CampaignProofs` | theorems about `Campaign` | `Campaign`, TLAPS |

A definition whose comment starts with "Mutant" is not part of a model: it is the
next definition with a plausible bug in it, and `PROJECT.json` says which property
fails when it takes that definition's place.

### Session

A thread's call is two or more steps.  It is *invoked* without the lock, with the
session or handle it looked up then (`Invoke...`); it *enters* when the lock is
free, checks what the code checks under the lock, and is inside one native call
(`pc[t]` names it); it *returns* from that call with success, a status, or an
interrupt, and goes on to the next native call or releases the lock.

- `candidate`, `state`, `generation`, `sentinels`, `finalizeStatus`,
  `databases`, `work`, `lastText` are the attributes of the `Session` objects,
  `owner` and `dflt` are `_OWNER` and `_DEFAULT`, `handle` the `FameDatabase`
  objects; objects are taken from the sets `Sessions` and `Handles` as they are
  created.
- `loaded`, `iniCalls`, `finCalls`, `nativeDb`, `nativeError` are the library:
  what was loaded, how often it was entered, which database is open under each
  key, and whose failure the error text belongs to.
- `InitializeEnters` marks the session failed and the owner before the native
  boundary, `CfminiReturns`/`CfminiRaises`/`SentinelsRead`/`SentinelsFail` follow
  `initialize` and `_teardown`; `FinalizeEnters`, `CleanupNext`,
  `CleanupCloses`, `CleanupDone`, `CfmfinReturns`, `CfmfinRaises` follow
  `finalize`, closing one database per step; `OperationEnters`, `OperationFails`,
  `Captures` follow `operation` with the retrieval of the error text;
  `OpendbEnters`, `WorkdbEnters`, `OpenReturns`, `ClosedbEnters`,
  `ClosingReturns` follow the handle functions.
- `Interrupts` is the set of native calls an interrupt may strike.  The effect of
  the call may or may not have happened.

Assumptions: an interrupt arrives while a thread is in (or at the boundary of) a
native call, not between two other bytecodes; a close that fails leaves the
database open in the library; `cfmfin` ends all databases; keys of closed
databases may be reused at once.  Forks, injected test backends and the cached
version are left out.

### SharedState

`Session` treats an operation as one native call; `listdb` and `fame` are
sequences of them, on state the library keeps for the whole process.  A call
enters when `lock` is free, makes its native calls one per step, each of which
succeeds, fails or is interrupted, and returns from step `end`, where its
`results` or `error` are final.

- `option[o]` is what an ITEM option selects: the words of its setting, all of
  them when it is ON.  `output` is where commands write.  `text` is the failed call
  the library's error text is about.  `job[t]` holds the local variables of a call
  and four fields that only observe it (`first`, `struck`, `freeFailed`,
  `restoreFailed`).
- `SetOption` to `Conclude` are `listdb`: the five settings in order, one OFF and
  then word by word, so that a failure leaves any part of it (`Unfinished`); the
  cursor; the filter on metadata; `free_wildcard`; `_normalize_options`, one option
  per step; and the choice of the error that is raised.
- `Redirect` to `ReadOutput` are `fame`.  A payload may set ITEM options or the
  output itself.
- `Admits` is the library's own selection.  The package knows that frequency words
  select among dated series and index words among series; whether a narrowed option
  also leaves out other objects is not specified, and the validation groups only
  observe it, so the model allows both.
- `Interrupted` says where an interrupt goes from each native call.

Assumptions: error texts are fetched at once (the option is on and the fetch
works); any other operation is one step that changes an object; patterns
are left out, and INPUT statements are in `Include`.

### Migration

A run is a call of `migrate()`; several runs may be of one process or of many.
`pc[r]` is where the call is, `job[r]` its local variables (plan, objects still
to do, outcomes, the status decided), `target[r]` its destination, `archive[r]`
its partial file, which `Replace` moves onto the destination.  `file[p]` is what
exists at a destination path: nothing, somebody else's file, the empty claim of a
run, or a run's archive.  `source` is the FAME database, which may change
between any two steps (`SourceChanges`).

- `Verdict`, `Entry`, `Collided`, `Plan` are `_plan_entry` and `plan_migration`;
  the collision scan is the code's loop over the names in order, with its `seen`
  dictionary, written as a recursive function (`Scanned`).
- `Begin`, `CheckPlan`, `ClaimPath` are the checks before anything is created, in
  their order; with `ClaimRaises` the claim fails for another reason and creates
  nothing.  `NamePartial` is what lies between the claim and the `try`;
  `OpenPartial` to `MarkPlanned` the set-up of the partial file;
  `ReadObject`, `WriteData`, `WriteMask`, `SetKind`, `SetAttributes` the contained
  step of one object, `ReadFails` and `StoreFails` its caught errors; `Decide`,
  `SetWritten`, `SetStatus`, `Replace` the end.
- `LoopRaises` is an exception inside the inner `try` (counts and mark are still
  written), `Raises` one outside it; both end in `Release` and `Unlink`, the two
  steps of `_release`.  With `LeavesClaim` a run raises and its claim stays, while
  the process lives on (phase `left`): `os.close` fails in `_claim`, an interrupt
  comes before the `try`, or `_release` is interrupted or passes over the error of
  its `getsize` or `unlink`.  `Crash` is a killed process.
- `ReadBack` and `LayoutVerified` are `read_migrated` and `check_layout`.

An object is its kind of metadata (other class, unsupported frequency, scalar,
series, empty series), whether its type is a floating one, and its data (normal,
with a missing category, not convertible).  All other attributes count as one
step after `kind`.  A failed write into the archive leaves what was written before
it; the archive file itself survives a kill as it is.

### Workspace

One client calls `readfame`, `writefame` or one of their report variants, on a path
or on a handle.  `stored` is the database behind the open handle, `posted` what a
later open finds: a handle sees its own changes, `postdb` makes them last, a close
drops them.  `pc` is the phase of the call; `todo`, `resolved`, `current`,
`placed`, `written`, `failures` and `error` are its local variables and its result.

- `BeginRead`, `ResolveOne`, `ResolveFails`, `Destinations`: `_resolve_target` and
  `resolve_names`, with the duplicate and key checks; `DoRead`, `DoReadFails`:
  `do_read`, which reads the range anew but takes class, type and frequency from
  the listing (`Readable`, `Asked`); `Convert`, `CalendarFails`: `unfame` and
  `_place`.
- `Met` is the loop of `resolve_names` over the keys, one object after the other,
  with its `leaves` and `branches` (`Meet`, `Branches`), and `Collide` what it
  refuses in the loop and after it.  `Place` is `_place` as it is, without a check of
  its own: it replaces what is under the key, an entry or a nested workspace, and
  raises when the walk to the key comes to a value.
- `Flattened`, `Prepare`: `_prepare_write`, before anything is opened;
  `BeginWrite` opens, and empties in overwrite mode; `WriteOne`: `write_raw`,
  whose `Outcomes` are the states it can leave: the whole object, the old one,
  none after the delete, or a created object with a part of its observations.
- `Post` and `Close` are the end of the call, `Close` on every path out.
- `Interrupt` strikes between two steps or in the middle of `write_raw`.  `Other`
  is another thread that writes or deletes an object between two steps.

### Calls, BridgeNames, Flatten, Calendar, Values, DataConversions, Include, Conversions

Functions without state, written as operators and recursive functions.
`DataConversions` gives one of them an input and keeps the output (`Calls`); the properties
compare it with the opposite function or with a definition of what is meant.  Which
inputs a function may be called with is said once (`IsMoment`, `IsYear`, `IsValue`,
`IsRaw`) and assumed of the constant `Inputs`.  `Conversions` adds the
flattening of names and the expansion of INPUT statements, which take steps.  A value is its Python form and its
observations, each of which is of one of the kinds the code tells apart.  The
calendar is exact, from year 1 on; that `datetime` ends with year 9999 is left out.
What `datetime` and TimeSeriesEcon compute is external and defined from the
calendar's rules.

A name is the sequence of its parts; the letters of a part have one form in each case
(`CaseAssumption`).  A container is a sequence of members in a heap, so that one may
hold another twice or hold itself.  `Flatten` goes member by member: a call of
`_flatten_into` that has not returned is a frame, with its container, the prefix of its
names and how many members are done; `Containing` is the code's `stack`.  `Places`
gives a value its name, `Descends` calls for a container, `Cycles` refuses one that
is in the stack, `Ascends` returns, and `Compares` is the look for collisions at the
end.  `data` has one container; the checks of types and of `object_name`, which
refuse before anything is written, are left out.  `Destination` is the way back, under
a collect specification whose lists, like containers, have identities.

`FlattenReadsBack` compares the two: every name of a flattened workspace whose
containers the collect specification lists (`Mirrors`, in any order and with
repetitions) leads to the keys it was made of.  Keys must allow it (`Legible`): none is
empty or a wildcard, and no two containers in one differ by case only, between which
`_destination` cannot choose.  Containers keep their spelling; a value's own key comes
back in the case of `namecase`, which the code documents.  And
`WorkspaceCycleError` is raised exactly for a cycle (`Circular`).

The expansion of `Include` goes statement by statement.  `_expand` calls itself for the
text of a file, and each call that has not returned is a frame, with the file it is
of, its text and how many statements are done.  `Copies` puts a statement in place, `Enters` calls
`_expand` with the file of an INPUT, `Leaves` returns from it, and `Refuses` raises
what `Denied` says, in the code's order.  The size that is counted is the one `stat`
reports, which need not be that of the text read a moment later; the bound on bytes is
stated for files that are as large as reported.  How a command is split into statements
and a name is resolved to a file is left out, and so are the line ends the expansion
adds.

### Groups and Campaign

`Groups` has, for each validation group, a script: the sequence of what the group
function does to its recorder (`check`, `equal`, `fact`, block what is missing, a
nested worker), under which earlier cases, inside which callable, and the group's
`REQUIRED_CASES`.  The fixtures are constants, of which a few members stand for
all.  What distinguishes `check` and `expect` from `equal` matters: the first two
record the error of their callable, while the operands of the third are
evaluated before it, and their error escapes.

`Campaign` runs scripts, whatever they are: `Groups`, `Script`, `Required` and
`Families` are constants, which `MCCampaign` takes from the module `Groups`.
`Scripts` says what a script is (`IsScript`, `GroupsAssumption`) and what a group
function owes by itself, before any worker runs it.  `Sure(script, hit)` is a dry run
of the script in which only the steps of the cases in `hit` may go wrong: what is
sure to be recorded after each step.  `Complete`: when nothing goes wrong, each step
is done or left out, none ends the group early or blocks a case, and each required
case is there once, as a pass.  `Independent`: whatever goes wrong with other objects,
the group does not stop early and the required cases of an object pass.  Both are
facts about the code's eleven scripts, which TLC evaluates as assumptions
(`CompleteAssumption`, `IndependentAssumption`) in the run `campaign`; they say
nothing of workers, files, exit codes or verdicts, which is what `Campaign` adds and
its properties are about.

`worker` is the child process: its phase, its script and its place in it, its cases and exit code.  Every step of a script may go wrong in each way
the code distinguishes (`Fail`, `Malform`, `Raise`, `SpawnFails`, `Unavailable`);
`Raised` is where an error goes: to the check around the callable it occurs in, or
out of the group.  `CleanUp`, `Deliver`, `Exit` are the end of `_child.main`;
`Die` is a crash at any point, after the delivery too; a worker that hangs is one
that takes no step.  Between two cases an error escapes the group in steps marked
`bare`: computations outside the recorder, among them the manifests a nested worker
is given.  In the parent, `ScratchFails` is the group's directory that cannot be made,
which nobody catches: `run` raises and there is no report (`result = "raised"`).
`StartFails` is the worker that cannot be started, which `_run_child` reports.
`Withhold`, `Launch`, `Timeout`, `Collect`, `Unreadable`,
`Conclude` are the parent: the gate on lifecycle, `run_child`, `read_result`, the
order of the checks in `_run_child` (`Judged`), `_group_status` and the result of
the report.  `launched`, `flawed` and `struck` only observe.

## Runs

| Run | Question | Bounds |
|---|---|---|
| `lifecycle` | Is the library initialized once, used by one thread at a time, finalized once and never entered again; is a failed or interrupted attempt ever retried; does `Session` implement `OneShotLibrary`? | 2 threads, 2 sessions, 1 library, 1 handle, 1 key, every native call may be interrupted |
| `handles` | Does a native call ever reach another handle's database; does finalization invalidate every handle; is every open database tracked, the work database under its own slot; does a failure fetch its own error text; does every path out of a call release the lock, does finalization end? | 2 threads, 1 session, 2 handles over 2 keys, error text on, interrupts except in native opens and closes, weak fairness |
| `fixed_library` (violation) | `default_session`'s docstring: the library is fixed once loaded | 1 thread, 2 sessions, 2 libraries |
| `shared_state` | Does a listing find exactly what was asked for, whatever was left selected; are options, cursor and redirection restored on every path; is the first failure raised, with its own text? | 2 threads, 4 objects (scalar, two families, case, an alias with a name too long), 3 filters, a failure or interrupt at every native call |
| `shared_text` (violation) | `operation`'s docstring: the text is attached before any other native call | 1 thread |
| `migration_run` | What do marks, counts and outcomes say about the archive's contents; does the scan find exactly the collisions? | 1 run, 2 objects, 2 names, 4 kinds of content, 1 change of the source, outsiders create and remove files |
| `migration_race` | Is the claim exclusive and kept until the move, is anything overwritten, does a claim go with its run from the `try` on unless `_release` itself fails? | 2 runs and an outsider on 1 path, 1 object, no source change, weak fairness |
| `migration_partial` (violation) | `migrate`'s docstring: a run that stops before the move leaves the mark `started` or `incomplete` | 1 run, 1 object |
| `workspace` | Is what is read what was listed; does an entry stay as it was placed; is every object accounted for; is what lasts after a write whole or reported; is the database of a refused call untouched? | 4 names of which two pairs may collide, 5 databases, 45 calls, 1 change by another thread, an interrupt anywhere |
| `read_report` (violation) | `docs/contracts.md`: `readfame_report` contains read and conversion failures per object | the same |
| `conversions` | Do names read back under their keys, moments and periods, values and objects convert into each other, does an expansion of INPUT statements stay within its limits? | 24,730 inputs, 54,518 states: all heaps of two containers with two members, 32 years, series of at most two observations under every policy, two files of at most two statements |
| `campaign` | Does a group pass exactly when nothing went wrong, and every other case survive the failure of an object; is nothing launched after a bad lifecycle; do worker and campaign end whatever the worker does, with a report unless the parent itself raises? | all 11 groups (lifecycle with two dependents, the others alone), 1 fault in a script besides any crash, hang, malformed or unreadable result, failed cleanup; weak fairness of the parent |

Why these bounds are enough.  Two threads give every race for the lock, since it
has one holder; two sessions give the competition for the one library; two
handles and two keys give a key that is closed, reused by the other handle and still
used through the stale one, and a database that stays open meanwhile.  Two names and two objects collide or do not; two
runs compete for a path.  A catalogue with one object of each kind the selections
tell apart, and filters that narrow by family, by index and not at all, give every
case of `native_selectors`; commands before a listing give every state of the
options.  The theorems below then remove the bounds.

Two bounds leave cases to the proofs.  `migration_run` has two objects, so that a third
one of the same name, or one between two that collide, is met only by
`CollisionsAlwaysFound`.  In the heaps of `conversions` no container that can be read
back and has no cycle holds two different containers, so that which collect entry
matches first, when several could, is met only by `FlattenReadsBackAlways`.

The databases of `workspace` hold each kind of object the code tells apart: none, a
scalar, a series, an empty one, an unsupported class, a frequency the bridge cannot
represent; a single change by another thread falls between any two steps and is
enough to make a listing stale.  The years of `conversions` are of both lengths
and begin on every day of the week, with century years and both ends of the
range; two containers are enough to nest, share and close a cycle.  In `campaign`
one fault in the script is enough for the properties, which say what a single
fault must and must not do; a second one in the process or its result may be
added to it.  The groups do not share state, so the dependent groups are run alone
but for two, which decide the order and the gate.

What the runs show.  All properties hold as listed, except four statements of
the documentation:

- `LibraryFixedOnceLoaded`: `default_session` looks at what the default session
  loaded, not at what the process loaded, so it can settle on another library
  although one is loaded.
- `TextBeforeOtherCalls`: the failure of an option reset is raised after the
  remaining resets, so its text is fetched after other native calls and may be
  about another failure.  For every other failure the text is its own
  (`TextOfFailure`).
- `StoppedIsNotComplete`: the status is set to `complete` before the partial file
  is closed and moved; when one of these two raises, the claim is released and the
  partial file keeps the mark.  Every object is in it (`CompleteMeansAll` covers
  partial files too), but it is not where the documentation says.
- `ReportContainsFailures`: a refusal by the library's calendar, met while an object
  is converted, is an `HLIError`, which is not among the errors `readfame_report`
  contains there.  One such object ends the whole report.

Three more observations, of which no run is made.  A run that stops before the move
"releases the claim", says the same docstring of `migrate`; but the claim is made before
the `try` whose handler releases it, and `_release` passes over every `OSError`.  A run
that is interrupted in between, whose `os.close` fails, or whose `_release` fails leaves
a file of zero bytes at the destination, and every later run refuses it.  When planning or migrating fails,
`group_migration` records `finalize` twice, blocked and checked; the group fails
in any case.  In `group_frequencies` some operands of a case are computed outside
the recorder, so that an error of the calendar ends the reading and hides the cases
of all later objects; in the model it is an error between two cases, which
`FailureIsLocal`, about failures recorded for an object, does not speak of.

Some exclusions are part of what the properties say.  An interrupt *inside* a
native close leaves a handle that looks open while its key may be reused, and one
inside a native open leaks the database: `HandleReachesItsDatabase` is false with
the first, `EveryDatabaseTracked` with either, so the runs exclude exactly
these interrupts.  When somebody else removes a run's empty claim, another run
can take the path, and the first one's move overwrites it: `ClaimHeld` and
`NeverOverwrites` exclude such outsiders.  `ClaimResolved` excepts a killed run
and the exits of `LeavesClaim`, the first of the observations above; what it
says is that from the `try` on every other way through the code, any number of failed,
contained or raised steps included, moves the archive onto the claim or removes it.
An interrupt that strikes right after `os.replace`, inside the `try`, is left out:
`_release` finds a file with content there and leaves it.  `CampaignEnds` promises an
end, not a report, when the directory of a group cannot be made; errors of the parent
before the first group (the scratch directory, the preflight) and interrupts of the
parent are left out.  In `SharedState` an interrupt of the call that sets
something up, or of the call that undoes it, leaves it undone: the properties
except exactly those calls, for the options, the cursor and the redirection.
When the captured output of a command cannot be read, the code raises that
`OSError` in place of the command's own error, and `FirstFailureRaised` excepts it.
`RefusedUntouched` speaks of calls during which no other thread wrote.  In
`Values`, a value that stands for something the module's note announces as lost is
excepted (`Announced`).  `FailureIsLocal` needs a worker that came to its end with
exit code 0: an error that escapes the group ends it, and every case after it.

Fairness.  `Session` assumes weak fairness of the steps of the lock's holder:
native calls return, and the thread that holds the lock is scheduled.  Nothing is
assumed of threads that wait, so no property promises that a waiting thread
gets the lock, which Python's `RLock` does not promise either.  `Migration`
assumes weak fairness of each run's steps; a kill is not fair and may strike
instead.  The migration's runs end, so deadlock is not checked there: at the end
of all runs nothing has to happen.  `Campaign` assumes weak fairness of the
parent's steps and of its timeout, and nothing of the worker, which may hang
anywhere; the parent is one thread that blocks only in a wait with a timeout.  A
campaign ends, so deadlock is not checked there.  In all other modules it is; a call
that is over stutters (`Done`).

## Proofs

`SessionProofs`, for all sets of threads, sessions, libraries, handles and keys:

- `TypeCorrect`, `NativeCallsSerialized`, `LifecycleOnce`, `TerminalStays` (the
  last two no run checks by themselves: `lifecycle` checks the refinement, which
  implies the first).  The
  inductive invariant is `TypeOK /\ CallsOK /\ LifecycleInv`.  The properties are not
  inductive by themselves: that `cfmini` is not entered twice depends on who is
  inside a call and in which state the owner is, which `LifecycleInv` records
  (the counts as a function of the owner's state, the state each native call
  requires); and a step is only well typed when the call acts on objects that
  exist, which is `CallsOK`.
- `Refinement`: `Session` implements `OneShotLibrary` under the mapping at the end
  of `Session`.  Initial states map to initial states and every step to a step or
  a stutter, from the same invariant.
- `HandlesNeverAlias`: under the assumption that no interrupt strikes a native
  close.  `HandleInv` is inductive relative to the invariant above: an open handle's
  key is tracked by its session under this handle and is open natively for it.
- `SetUpIsWhole`: `SentinelsInv` says that an initialized session without its sentinels
  has a thread that is reading them, and that thread holds the lock.
- `TextIsOwn`: inductive once native calls are serialized.
- `FinalizationInvalidates`, under the same assumption as `HandlesNeverAlias`.
  `ClosedInv` follows the open handles through a finalization: each is tracked under
  its key, and from the moment the loop begins each is one still to be closed, so
  that at its end there is none; before and after, nothing is tracked.
- `NoDatabaseIsLost`, when interrupts spare native opens too.  `TrackedInv` says that
  whatever the library has open is open in a handle of the present generation; the
  work database is in its slot, and while one is being opened no other is open.

`SharedStateProofs`, for all sets of threads, catalogues, filters, types and
frequency families (`CatalogOK`: scalars have the undefined frequency, each
date-indexed one has a family):

- `ListingsAreExact`, `OptionsAlwaysNormalized`, `CursorAlwaysFreed`,
  `FirstFailureAlwaysRaised`, `RedirectionAlwaysRestored`, `TextAlwaysOwn`, and the
  types (`SharedTypes`).  The properties speak of the end of a call and are not
  inductive.  The invariant `Inv` says for each step of a call what is settled by
  then (`Known`): an option not yet reset is still to do or is noted as failed
  (`Reset`), the cursor is open only where `free` is still to come (`Freed`), a
  remembered error is the first one (`Noticed`), a list of results is what was
  wanted of the part of the database the cursor has passed (`Listed`), and so on.
  Only the lock's holder is inside a call, so a step keeps everything said of the
  other threads (`Alone`, `Continues`), and there is one lemma per action.
- `NarrowingIsExact` is the lemma `ListingsAreExact` rests on: for every filter
  and object, the settings `native_selectors` chooses never leave out a wanted
  object, and with the filter on metadata are exact, whether or not the library
  is strict.  `NoneDistinct` says that `None` is no thread, call or error.

`MigrationProofs`, for all sets of runs, paths and objects, when no outsider
removes claims:

- `ClaimHeldAlways` and `NothingOverwritten`.  `ClaimInv` adds to `ClaimHeld` the
  types of the files and that a run has a destination from its first check on.
  Two runs never work on the same path because their claims differ; then each of
  the four steps that touch a path (claim, move, removal, an outsider's file)
  finds what it may touch there.  `FilesDistinct`, an assumption on the constants,
  says that "no file" and a foreign file are no claims or archives.

and for all sets of runs, paths, objects, names, contents and all
options, crashes, competing runs and outsiders included:

- `StoredReadsBackAlways`, `CompleteMeansAllAlways`, `PublishedIsFinishedAlways`.
  None of the three is inductive: that `complete` means all depends on the count of a
  set that shrinks in a loop, and that a stored object stays what it was depends on
  no later object getting its name.  `DataInv` is an account of each run (`RunOK`),
  from its place, its variables and its archive alone: what has no outcome is still to
  do, the object at hand is written as far as the step says and under a name that
  no stored object has, every stored object is whole or its loss noted, the counts and
  the mark are those of the outcomes.  A step of one run leaves the account of
  the others alone, so that there is one lemma per action.  `NamesDistinct` says
  that `None` and `Invalid` are no names, numbers, contents or archives.
- `CollisionsAlwaysFound`, for any number of objects and any names.  The scan is a
  recursive function; `ScanStep` shows that it has a solution, from its finite prefixes,
  and `ScanFinds` that after n names it knows the last owner of each name and all
  objects so far that share theirs.  Both go by least counterexample, over the well-founded order of the numbers (`Least`,
  `Successors`), where the library's induction theorems are out of reach.  TLC sees two
  objects only; that a third one of the same name is found is what the proof adds.

`WorkspaceProofs`, for all sets of names, databases and calls (`CallsAssumption`), any
number of changes by other threads, interrupts anywhere.  An assumption asks that the
names are listed once each, that databases and writes consist of objects as the bridge
makes them, and that `None` is no error:

- `WorkspaceTypes`, `EntriesKeptAlways`, `ReadAsListedAlways`, `AccountedAlways`,
  `PostedWholeOrReportedAlways`, `RefusedUntouchedAlways`.  The invariant is `TypeInv`
  with `ReadInv` (every selected name is still to do, at hand, placed or failed, and
  what was placed has the class and type of the listing, and no key of a selected name
  is another's or on the way to another's),
  `WriteInv` (of a write, each prepared object is still to do, written or failed) and
  `StoreInv` (while a path is written, the database behind the handle differs from
  what was opened only by whole objects and by reported ones; a refused call has not
  reached it).
- `EntriesKeptAlways` joins two pieces of code.  The loop over `leaves` and `branches`
  keeps sets, in the order of the objects; `CollideFinds` shows that what it lets pass
  has no key that is another's or on the way to another's (`Clash`), for any number of
  objects: `MetStep` gives the recursion its solution, as for the scan of `Migration`,
  `MeetKnows` says what is known after each object, and `KeyFacts` that a key on the way
  to another is among its branches.  `PlaceAdds` then shows that `_place`, which
  checks nothing, only ever adds an entry, however the reads in between failed.

`ConversionProofs`, for all inputs the functions may be called with
(`InputsAssumption`); `DataSpec` is `Spec` of `Conversions` without names and INPUT
statements:

- `PeriodsInverseAlways`: for all frequencies of the table and moments, years and
  periods of any size.  It rests on facts about the calendar that are proved for every
  year: its length (`YearLength`), that years follow one another (`YearsFollow`), that
  `YearOf` finds the one year of a day (`YearOfFacts`, `YearOfIs`), the first business
  day and the count of those of a year (`FirstFacts`, `NumberFacts`, `BusinessYear`).
- `ReadsAsTableAlways`, `WritesBackAlways`: for values and objects with any number of
  observations, under every policy.  What holds of one observation (`EncodesFacts`,
  `DecodesFacts`) and of the forms and kinds (`FormFacts`, `KindFacts`) is lifted to
  sequences, and the order in which the policies are consulted does the rest.
  The invariant `DataInv` only says whose result the output is.

`IncludeProofs`, for all texts, files and limits that `expand_input` may be called with
(`IncludeAssumption`); `IncludeSpec` is `Spec` of `Conversions` with INPUT statements only:

- `IncludeBoundedAlways`.  That files and limits are checked against each new file does
  not bound what the expansion comes to: the invariant `Expansion` adds that what is in
  place and what the open calls still owe (`Owed`) is the command and what was read, and
  that what was read is what was counted.  The sums are recursive functions, with the same
  argument by least counterexample (`TotalStep`, `TotalGrows`, `TotalSame`); how the
  debt changes when a call goes on, begins or ends is `OwedFacts`.

`FlattenProofs`, for all heaps of containers, finite or not, all prefixes and letters
(`FlattenAssumption`, `CaseAssumption`); `FlattenSpec` is `Spec` of `Conversions` with
the flattening only:

- `FlattenReadsBackAlways`, from the inductive `FlattenInv`, which has two halves.  For
  the names: each is spelled by the keys on a way through the heap from the first
  container to a value (`NamedBy`), and the places of two such ways differ.  A walk of
  `_destination` down any mirror of the heap takes such a way back (`RouteReadsBack`,
  turn by turn; `TurnGoesOn` shows that the entry of the container at hand is the only
  one that matches, which needs `Legible`), and two ways with the same keys are the
  same unless a name collides (`SameKeys`).  For the cycles: the calls inside each other
  are a way of containers each inside the one before, so that a refused one is
  inside itself; and the containers that are done are a set that is closed but for the
  open calls and in which none reaches itself (`Clear`, `Settled`), which a container
  joins when its members are done, and which at the end has all that can be reached.
  Reachability is defined by closed sets, so that neither half needs induction over paths.
  What `Destination` computes is a recursive function; `WalkSteps` shows that it has a
  solution, as for the scan above.

`CampaignProofs`, for all groups and scripts (`GroupsAssumption`), any number of faults:

- `PassIsEarnedAlways`, `LifecycleFirstAlways`, from the inductive `CampaignInvariant`.  That a group
  which met a fault does not pass is a chain of several steps by two processes: the
  fault is in a case or the exit code of the worker (`WorkerInv`), survives clean-up
  and delivery, and is judged by the parent (`TurnInv`, where the parent is with the
  group at hand; `ReportInv`, what it has reported of the others).

- `FlawlessPassesAlways` and `FailureIsLocalAlways`, from `SparedInvariant`.  The first
  needs `CompleteAssumption`, the second `IndependentAssumption`; without them neither
  holds, since a script may forget a required case or guard one object by another.
  What remains to be shown is that a worker, with every kind of step and fault, does at
  least what the dry run is sure of.  `Spared` says so of a worker that may yet come to
  its end, where it stands, for each object and whatever happened to the others; `Exact`
  says that a worker without a fault has just that and nothing else, so that the
  verdict, which also looks for repeated, failed and blocked cases, is a pass.  Two
  steps carry the proof.  A worker leaves out steps whose guards do not hold; as it has
  all that is sure, those add nothing to what is sure (`Reaches`).  An error that
  escapes a step skips the rest of its callable, a distance the worker does not know;
  the dry run takes none of those steps for sure when the step may go wrong
  (`Skippable`, `GoesWrongCovers`).

Only model-checked: the liveness properties (`LockReleased`, `FinalizationEnds`,
`ClaimResolved`, `CampaignEnds`), which the prover cannot do.  That the eleven scripts are complete
and independent is data, which TLC computes with the rest of a run's assumptions; it
evaluates them for the objects the fixtures of `MCCampaign` have.

## Plan

1. `OneShotLibrary`, `Session`, with proofs: done.
2. `Migration`, with proofs of the claim: done.
3. `SharedState`, `listdb` and `fame`, with proofs: done.
4. `Workspace`: done.  `BridgeNames`, `Calendar`, `Values`, `Include` and their
   composition `Conversions`: done.
5. `Groups`, `Campaign`: done.
6. Proofs of the archive's contents, of the scan, of `Workspace`, `DataConversions`
   and `Campaign`: done.
7. INPUT statements expanded one at a time, as steps, and `IncludeBounded` proved of
   them: done.
8. The flattening of names, member by member, and `FlattenReadsBack` proved of it:
   done.
9. What a script owes by itself, and `FlawlessPasses` and `FailureIsLocal` proved from
   it: done.

## Not modelled

The native boundary: buffers and their capacities, signatures, ABI checks; the code
tables and error classes; discovery, probe and diagnostics, which read the
environment once and keep no state; benchmarks.  Of the modelled parts:

- sessions: forked processes, the version cache;
- listings: patterns, aliases beyond a name too long, the diagnostic count;
- migration: `list_migrated`, `inspect_migrated`, name lists and date value
  frequencies as data, the wording of reports;
- object I/O: attributes, labels, the encoding of observations;
- names: a name that equals prefix and glue, collect with a lower-case glue, keys
  that contain the glue or differ by case only;
- values: strings in braces read as name lists beyond their refusal, a strict
  missing policy together with the reference policy for one missing observation;
- campaign: the facts of the preflight (one reason stands for all), the text of
  records, the differential against Julia, a group whose fixtures number thousands.
