----------------------------- MODULE Workspace -----------------------------
(* readfame, writefame and their report variants (bridge/_workspace.py) over  *)
(* the object reads and writes they make (_data.py).                          *)
(*                                                                            *)
(* One client makes one call.  Every read or write of an object is one locked *)
(* operation; between two of them the client holds no lock, and other threads *)
(* read, write and delete objects through the same handle.                    *)
(*                                                                            *)
(* A definition marked "Mutant" is not part of the model: it is the next one  *)
(* with a plausible bug, and shows that a property can fail.                  *)
EXTENDS Naturals, Sequences, SequencesExt, FiniteSets

CONSTANTS
  Order,        \* the object names of the database, in byte order
  Key,          \* the key path of each name (`_destination`)
  Databases,    \* what the database may contain when the call is made
  Objects,      \* what other threads write, see Object
  Calls,        \* the calls to choose from, see Call
  Interrupts,   \* whether an interrupt may strike a call
  MaxChanges,   \* bound on what the other threads do
  None

Names == ToSet(Order)

\* The range of a series without observations: its endpoints are the NC index.
Empty == <<>>

\* What a database holds under a name.  `meta` is the class, type and frequency,
\* `range` the first and the last index, `value` what wrote the observations,
\* and `fits` whether the bridge can represent them under the chosen policies.
Object(meta, range, value, fits) ==
  [meta |-> meta, range |-> range, value |-> value, fits |-> fits]

Unsupported == {"formula"}
Scalars == {"scalar"}
NoRange == <<0, 0>>

\* An argument of a read: a name, or a wildcard and the filter on metadata.
Explicit(n) == [names |-> {n}, metas |-> {}, wildcard |-> FALSE]
Wildcard(names, metas) == [names |-> names, metas |-> metas, wildcard |-> TRUE]

\* An item of a write: a flattened name and its value, `valid` when it converts.
Item(n, object, valid) == [name |-> n, object |-> object, valid |-> valid]

ReadCall(report, owned, raw, args) ==
  [op |-> "read", report |-> report, owned |-> owned, raw |-> raw,
   mode |-> IF owned THEN "readonly" ELSE "update", replace |-> FALSE,
   args |-> args, items |-> <<>>]
WriteCall(report, owned, mode, replace, items) ==
  [op |-> "write", report |-> report, owned |-> owned, raw |-> FALSE,
   mode |-> mode, replace |-> replace, args |-> <<>>, items |-> items]

\* Objects are Object(...), and a scalar has no range.
IsObject(o) ==
  /\ o = Object(o.meta, o.range, o.value, o.fits)
  /\ o.meta \in Scalars => o.range = NoRange

IsItem(item) ==
  /\ item = Item(item.name, item.object, item.valid)
  /\ item.name \in Names /\ item.object # None /\ IsObject(item.object)

\* What a call may raise.
Raised == {"status", "collision", "object", "conversion", "calendar", "value", "readonly",
           "close", "interrupt"}

ASSUME CallsAssumption ==
  /\ None \notin Raised
  /\ Order \in Seq(Names) /\ IsInjective(Order)
  /\ MaxChanges \in Nat
  /\ DOMAIN Key = Names
  /\ \A n \in Names : Key[n] \in Seq(ToSet(Key[n])) \ {<<>>}
  /\ \A d \in Databases : /\ d = [n \in Names |-> d[n]]
                          /\ \A n \in Names : d[n] # None => IsObject(d[n])
  /\ \A o \in Objects : o # None /\ IsObject(o)
  /\ Calls # {}
  /\ \A c \in Calls : /\ c.op \in {"read", "write"}
                      /\ c.report \in BOOLEAN /\ c.owned \in BOOLEAN
                      /\ c.args \in Seq(ToSet(c.args)) /\ c.items \in Seq(ToSet(c.items))
                      /\ \A i \in DOMAIN c.args : c.args[i].names \subseteq Names
                      /\ \A i \in DOMAIN c.items : IsItem(c.items[i])

VARIABLES
  stored,     \* the database behind the open handle, or as the next open finds it
  posted,     \* what a later open finds
  call,       \* the call the client makes
  pc,         \* where it is
  opened,     \* whether the call has a handle of its own open
  todo,       \* the objects or items it has still to read or write
  resolved,   \* read: the objects it found, with the metadata of that moment
  converted,  \* write: the items that could be converted
  current,    \* read: the object that was read and is to be converted
  placed,     \* read: the entries of the workspace; the nested workspaces are the ways
              \* to their keys
  written,    \* write: the names written
  failures,   \* the names of the contained failures
  error,      \* what the call raises, or None
  changes,    \* how often other threads have changed the database
  original    \* the posted database when the call began

job == <<todo, resolved, converted, current, placed, written, failures>>
vars == <<stored, posted, call, pc, opened, job, error, changes, original>>

NoDatabase == [n \in Names |-> None]

Init ==
  /\ posted \in Databases
  /\ stored = posted /\ original = posted
  /\ call \in Calls
  /\ pc = "begin" /\ opened = FALSE
  /\ todo = IF call.op = "read" THEN call.args ELSE call.items
  /\ resolved = <<>> /\ converted = <<>> /\ current = None /\ placed = {}
  /\ written = <<>> /\ failures = {}
  /\ error = None /\ changes = 0

\* Mutant: the handle is closed only when nothing was raised.
MutLeave(e) ==
  /\ error' = e
  /\ pc' = IF opened /\ e = None THEN "close" ELSE "done"

\* The `finally` of the four functions: a handle of the call's own is closed.
Leave(e) ==
  /\ error' = e
  /\ pc' = IF opened THEN "close" ELSE "done"

ItemNames(items) == {items[i].name : i \in DOMAIN items}
ResolvedNames == {resolved[i].name : i \in DOMAIN resolved}

-----------------------------------------------------------------------------
(* Opening and closing the handle of a call that was given a path.            *)

\* `_resolve_target`.  An open in overwrite mode starts from nothing, at once.
Open(next) ==
  IF call.owned
    THEN \/ /\ stored' = IF call.mode = "overwrite" THEN NoDatabase ELSE posted
            /\ posted' = stored'
            /\ opened' = TRUE /\ pc' = next
            /\ UNCHANGED error
         \/ /\ Leave("status")
            /\ UNCHANGED <<stored, posted, opened>>
    ELSE pc' = next /\ UNCHANGED <<stored, posted, opened, error>>

BeginRead ==
  /\ pc = "begin" /\ call.op = "read"
  /\ Open("resolve")
  /\ UNCHANGED <<call, job, changes, original>>

\* Mutant: the `finally` posts before it closes.
MutClose ==
  /\ pc = "close"
  /\ pc' = "done" /\ opened' = FALSE
  /\ posted' = stored
  /\ UNCHANGED <<stored, error, call, job, changes, original>>

\* closedb: what was not posted is gone.  It may fail, and the handle is then the
\* session's to close.
Close ==
  /\ pc = "close"
  /\ pc' = "done" /\ opened' = FALSE
  /\ \/ stored' = posted /\ UNCHANGED error
     \/ error' = "close" /\ UNCHANGED stored
  /\ UNCHANGED <<posted, call, job, changes, original>>

-----------------------------------------------------------------------------
(* Reading.                                                                   *)

Found(n) == [name |-> n, object |-> stored[n]]

Matches(arg) ==
  {n \in arg.names : /\ stored[n] # None
                     /\ arg.metas = {} \/ stored[n].meta \in arg.metas}

\* The listings of a set of names: the one sequence that has them in byte order.
Before(m, n) == \E i, j \in DOMAIN Order : i < j /\ Order[i] = m /\ Order[j] = n
Listings(names) ==
  {s \in [1..Cardinality(names) -> names] :
     \A i, j \in 1..Cardinality(names) : i < j => Before(s[i], s[j])}

\* One argument: a listing in byte order, or the metadata of the named object; an
\* object that was matched before is kept where it is.
ResolveOne ==
  /\ pc = "resolve" /\ todo # <<>>
  /\ LET arg == Head(todo)
     IN IF ~arg.wildcard /\ Matches(arg) = {}
          THEN Leave("status") /\ UNCHANGED <<todo, resolved>>
          ELSE /\ \E new \in Listings(Matches(arg) \ ResolvedNames) :
                    resolved' = resolved \o [i \in DOMAIN new |-> Found(new[i])]
               /\ todo' = Tail(todo)
               /\ UNCHANGED <<pc, error>>
  /\ UNCHANGED <<stored, posted, call, opened, converted, current, placed, written,
                 failures, changes, original>>

ResolveFails ==
  /\ pc = "resolve" /\ todo # <<>>
  /\ Leave("status")
  /\ UNCHANGED <<stored, posted, call, opened, job, changes, original>>

\* Mutant: the last workspace on the way to a key is left out.
MutBranches(key) == {SubSeq(key, 1, depth) : depth \in 1..(Len(key) - 2)}

\* The nested workspaces on the way to a key.
Branches(key) == {SubSeq(key, 1, depth) : depth \in 1..(Len(key) - 1)}

\* The loop meets the key of an object: a second object of the key, or one more leaf.
Meet(acc, key) ==
  IF key \in acc.leaves
    THEN [acc EXCEPT !.twice = TRUE]
    ELSE [acc EXCEPT !.leaves = @ \cup {key}, !.branches = @ \cup Branches(key)]

\* What the loop of resolve_names knows after the first n objects.
NoKeys == [leaves |-> {}, branches |-> {}, twice |-> FALSE]
Met(found, n) ==
  LET met[k \in Nat] == IF k = 0 THEN NoKeys ELSE Meet(met[k - 1], Key[found[k].name])
  IN  met[n]

\* A key is met twice, which ends the loop, or is a leaf and a branch after it.
Collide(found) ==
  LET end == Met(found, Len(found))
  IN  end.twice \/ end.branches \cap end.leaves # {}

\* The destinations of all objects, before any is read.
Destinations ==
  /\ pc = "resolve" /\ todo = <<>>
  /\ IF Collide(resolved)
       THEN Leave("collision") /\ UNCHANGED todo
       ELSE pc' = "read" /\ todo' = resolved /\ UNCHANGED error
  /\ UNCHANGED <<stored, posted, call, opened, resolved, converted, current, placed,
                 written, failures, changes, original>>

\* The range do_read asks for: what the listing said, unless the series was empty
\* then.
Asked(listed, object) ==
  IF object.range = Empty \/ listed.range = Empty THEN object.range ELSE listed.range

\* Mutant: the metadata of the listing are trusted.
MutReadable(listed, object) ==
  /\ object # None
  /\ object.meta \notin Unsupported
  /\ object.meta \in Scalars \/
       IF object.range = Empty
         THEN listed.range = Empty
         ELSE /\ object.range[1] <= Asked(listed, object)[1]
              /\ Asked(listed, object)[2] <= object.range[2]

\* do_read: the metadata are queried again under the lock.
Readable(listed, object) ==
  /\ object # None
  /\ object.meta \notin Unsupported
  /\ object.meta = listed.meta
  /\ object.meta \in Scalars \/
       IF object.range = Empty
         THEN listed.range = Empty
         ELSE /\ object.range[1] <= Asked(listed, object)[1]
              /\ Asked(listed, object)[2] <= object.range[2]

\* Mutant: a report goes on without a record, as the reference logs and skips.
MutContain(n, e) ==
  IF call.report
    THEN pc' = call.op /\ todo' = Tail(todo) /\ UNCHANGED <<failures, error>>
    ELSE Leave(e) /\ UNCHANGED <<todo, failures>>

\* A failure of one object: recorded by a report, raised otherwise.
Contain(n, e) ==
  IF call.report
    THEN /\ failures' = failures \cup {n}
         /\ pc' = call.op /\ todo' = Tail(todo)
         /\ UNCHANGED error
    ELSE Leave(e) /\ UNCHANGED <<todo, failures>>

DoRead ==
  /\ pc = "read" /\ todo # <<>>
  /\ LET n == Head(todo).name
         listed == Head(todo).object
     IN IF Readable(listed, stored[n])
          THEN /\ current' = [stored[n] EXCEPT !.range =
                                IF stored[n].meta \in Scalars THEN @ ELSE Asked(listed, stored[n])]
               /\ pc' = "convert"
               /\ UNCHANGED <<todo, failures, error>>
          ELSE Contain(n, "object") /\ UNCHANGED current
  /\ UNCHANGED <<stored, posted, call, opened, resolved, converted, placed, written,
                 changes, original>>

DoReadFails ==
  /\ pc = "read" /\ todo # <<>>
  /\ Contain(Head(todo).name, "status")
  /\ UNCHANGED <<stored, posted, call, opened, resolved, converted, current, placed,
                 written, changes, original>>

\* What unfame accepts: an empty series stores no first date.
Representable(object) == object.fits /\ object.range # Empty

\* `_place` under the key of the name; a raw object when it is asked for.  The walk
\* goes through the workspaces on the way, or makes them, and takes whatever is there
\* for one: it raises at a value.  What is under the key itself is replaced, an entry
\* or a whole workspace.
Place(n, raw) ==
  IF \E e \in placed : IsStrictPrefix(e.key, Key[n])
    THEN Leave("value") /\ UNCHANGED <<placed, todo, failures>>
    ELSE /\ placed' = {e \in placed : ~IsPrefix(Key[n], e.key)}
                        \cup {[name |-> n, key |-> Key[n], object |-> current, raw |-> raw]}
         /\ pc' = "read" /\ todo' = Tail(todo)
         /\ UNCHANGED <<failures, error>>

Convert ==
  /\ pc = "convert"
  /\ LET n == Head(todo).name
     IN CASE Representable(current) -> Place(n, FALSE)
          [] ~Representable(current) /\ call.raw -> Place(n, TRUE)
          [] OTHER -> Contain(n, "conversion") /\ UNCHANGED placed
  /\ current' = None
  /\ UNCHANGED <<stored, posted, call, opened, resolved, converted, written, changes,
                 original>>

\* The library's calendar refuses an index: unfame raises its status, which is
\* none of CONVERSION_ERRORS, and no report contains it.
CalendarFails ==
  /\ pc = "convert" /\ current.meta \notin Scalars /\ current.range # Empty
  /\ Leave("calendar") /\ current' = None
  /\ UNCHANGED <<stored, posted, call, opened, todo, resolved, converted, placed,
                 written, failures, changes, original>>

ReadEnds ==
  /\ pc = "read" /\ todo = <<>>
  /\ Leave(None)
  /\ UNCHANGED <<stored, posted, call, opened, job, changes, original>>

-----------------------------------------------------------------------------
(* Writing.                                                                   *)

\* Mutant: the destination is opened before the values are converted.
MutFlattened ==
  /\ pc = "begin" /\ call.op = "write"
  /\ Open("prepare")
  /\ UNCHANGED <<call, job, changes, original>>

\* Names differ, whatever their case, or nothing is converted.
Flattened ==
  /\ pc = "begin" /\ call.op = "write"
  /\ IF Cardinality(ItemNames(call.items)) = Len(call.items)
       THEN pc' = "prepare" /\ UNCHANGED error
       ELSE Leave("collision")
  /\ UNCHANGED <<stored, posted, call, opened, job, changes, original>>

\* Validation and conversion of one item, before the destination is opened.  The
\* calendar may refuse an item that is valid.
PrepareOne ==
  /\ pc = "prepare" /\ todo # <<>>
  /\ LET item == Head(todo)
     IN \/ /\ item.valid
           /\ converted' = Append(converted, item) /\ todo' = Tail(todo)
           /\ UNCHANGED <<pc, failures, error>>
        \/ /\ call.report
           /\ failures' = failures \cup {item.name} /\ todo' = Tail(todo)
           /\ UNCHANGED <<pc, converted, error>>
        \/ ~call.report /\ Leave("conversion") /\ UNCHANGED <<todo, converted, failures>>
  /\ UNCHANGED <<stored, posted, call, opened, resolved, current, placed, written,
                 changes, original>>

\* With nothing to write the destination is not opened.
Prepared ==
  /\ pc = "prepare" /\ todo = <<>>
  /\ todo' = converted
  /\ pc' = IF converted = <<>> THEN "done" ELSE "open"
  /\ UNCHANGED <<stored, posted, call, opened, resolved, converted, current, placed,
                 written, failures, error, changes, original>>

BeginWrite ==
  /\ pc = "open"
  /\ Open("write")
  /\ UNCHANGED <<call, job, changes, original>>

\* write_raw, one operation: delete, create, fill.  What it may leave under the
\* name, and whether it raises.
Outcomes(old, object, replace, writable) ==
  LET outcome(o, e) == [object |-> o, error |-> e]
      removed == IF replace THEN None ELSE old
  IN IF ~writable THEN {outcome(old, "readonly")}
     ELSE {outcome(old, "status"), outcome(removed, "status")}
          \cup (IF removed # None THEN {}
                ELSE {outcome(object, None)}
                     \cup (IF object.range = Empty THEN {}
                           ELSE {outcome([object EXCEPT !.value = "partial"], "status")}))

WriteOne ==
  /\ pc = "write" /\ todo # <<>>
  /\ LET item == Head(todo)
     IN \E o \in Outcomes(stored[item.name], item.object, call.replace,
                          call.mode # "readonly") :
          /\ stored' = [stored EXCEPT ![item.name] = o.object]
          /\ IF o.error = None
               THEN /\ written' = Append(written, item.name)
                    /\ todo' = Tail(todo)
                    /\ UNCHANGED <<pc, failures, error>>
               ELSE Contain(item.name, o.error) /\ UNCHANGED written
  /\ UNCHANGED <<posted, call, opened, resolved, converted, current, placed, changes,
                 original>>

\* A path is posted when something was written, a handle is not.
Post ==
  /\ pc = "write" /\ todo = <<>>
  /\ IF call.owned /\ written # <<>>
       THEN \/ posted' = stored /\ Leave(None)
            \/ Leave("status") /\ UNCHANGED posted
       ELSE Leave(None) /\ UNCHANGED posted
  /\ UNCHANGED <<stored, call, opened, job, changes, original>>

-----------------------------------------------------------------------------

\* An exception from outside: KeyboardInterrupt, or a handle that another thread
\* closed.  It strikes between two steps, or inside write_raw.
Interrupt ==
  /\ Interrupts
  /\ pc \notin {"close", "done"}
  /\ Leave("interrupt")
  /\ IF pc = "write" /\ todo # <<>>
       THEN \E o \in Outcomes(stored[Head(todo).name], Head(todo).object, call.replace,
                             call.mode # "readonly") :
              stored' = [stored EXCEPT ![Head(todo).name] = o.object]
       ELSE UNCHANGED stored
  /\ UNCHANGED <<posted, call, opened, job, changes, original>>

Step ==
  \/ BeginRead \/ ResolveOne \/ ResolveFails \/ Destinations
  \/ DoRead \/ DoReadFails \/ Convert \/ CalendarFails \/ ReadEnds
  \/ Flattened \/ PrepareOne \/ Prepared \/ BeginWrite \/ WriteOne \/ Post
  \/ Close \/ Interrupt

\* do_write and delete_object of other threads, with the handle the call was given.
Other(n) ==
  /\ ~call.owned /\ call.mode # "readonly" /\ pc # "done" /\ changes < MaxChanges
  /\ \E o \in {[object |-> None, error |-> None]} \cup
              UNION {Outcomes(stored[n], object, TRUE, TRUE) : object \in Objects} :
       /\ o.object # stored[n]
       /\ stored' = [stored EXCEPT ![n] = o.object]
  /\ changes' = changes + 1
  /\ UNCHANGED <<posted, call, pc, opened, job, error, original>>

\* The call is over.
Done == pc = "done" /\ UNCHANGED vars

Next == Step \/ (\E n \in Names : Other(n)) \/ Done
Spec == Init /\ [][Next]_vars
-----------------------------------------------------------------------------

Entries == [name : Names, key : {Key[n] : n \in Names}, object : {c.object : c \in placed},
            raw : BOOLEAN]
Errors == Raised \cup {None}

\* The variables have their types; a handle of the call's own is open only while
\* the call runs (the `finally` of readfame and writefame).
TypeOK ==
  /\ DOMAIN stored = Names /\ DOMAIN posted = Names
  /\ call \in Calls
  /\ pc \in {"begin", "resolve", "read", "convert", "prepare", "open", "write", "close",
             "done"}
  /\ opened \in BOOLEAN /\ (opened => call.owned /\ pc # "done")
  /\ \A i \in DOMAIN resolved : resolved[i].name \in Names
  /\ placed \subseteq Entries
  /\ failures \subseteq Names /\ ToSet(written) \subseteq Names
  /\ error \in Errors
  /\ changes \in 0..MaxChanges

\* An object that was read and placed stays in the workspace as it is, and the walk to
\* a key never comes to a value: that is what the check of all keys before the first
\* read is for (`_place` itself checks nothing).
EntriesKept == [][placed \subseteq placed' /\ error' # "value"]_vars

\* What readfame returns under a key is what its listing said would be there: the
\* class, type and frequency, and the range unless the series was empty then,
\* whatever other threads did since (do_read).
ReadAsListed ==
  \A e \in placed : \E i \in DOMAIN resolved :
    /\ resolved[i].name = e.name
    /\ resolved[i].object.meta = e.object.meta
    /\ resolved[i].object.range \in {Empty, e.object.range}

\* Nothing is dropped silently: while a call has not raised, every object found or
\* item given is in exactly one of the result, the failures and what is left, and
\* only a report has failures (ReadReport, WriteReport).
Accounted ==
  error = None /\ pc \in {"read", "convert", "write", "close", "done"} =>
    /\ failures # {} => call.report
    /\ IF call.op = "read"
         THEN /\ {e.name : e \in placed} \cup failures \cup ItemNames(todo) = ResolvedNames
              /\ Cardinality(placed) + Cardinality(failures) + Len(todo) = Len(resolved)
         ELSE /\ ToSet(written) \cup failures \cup ItemNames(todo) = ItemNames(call.items)
              /\ Len(written) + Cardinality(failures) + Len(todo) = Len(call.items)

\* What a write to a path leaves for later opens: what was there before (nothing,
\* after an open in overwrite mode), or else every name that was written with its
\* new object, and a name that lost its object or has a part of it only when the
\* report lists its failure (writefame, writefame_report).
PostedWholeOrReported ==
  call.op = "write" /\ call.owned =>
    LET before == IF call.mode = "overwrite" THEN NoDatabase ELSE original
    IN posted \in {original, before} \/
       \A n \in Names :
         IF n \in ToSet(written)
           THEN \E i \in DOMAIN call.items : /\ call.items[i].name = n
                                            /\ posted[n] = call.items[i].object
           ELSE posted[n] = before[n] \/ n \in failures

\* A call that refuses its input has not opened, truncated, deleted or created
\* anything ("before the first create, replace or delete").
RefusedUntouched ==
  call.op = "write" /\ error \in {"conversion", "collision"} /\ changes = 0 =>
    stored = original /\ posted = original

\* readfame_report "contains per-object read and conversion failures"
\* (docs/contracts.md): once the names are resolved it raises none of them.
ReportContainsFailures ==
  call.op = "read" /\ call.report =>
    error \notin {"object", "conversion", "calendar"}
=============================================================================
