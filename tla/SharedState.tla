----------------------------- MODULE SharedState -----------------------------
(***************************************************************************)
(* Operations that are sequences of native calls on state the library      *)
(* keeps for the whole process: listdb() with the ITEM options and a       *)
(* cursor (_wildcard.py), fame() with the output redirection (_command.py).*)
(*                                                                         *)
(* A call holds LOCK from its first native call to its last (Session.tla   *)
(* has the calls before that).  Every native call may fail with a status,  *)
(* and be struck by an interrupt, with or without its effect.              *)
(*                                                                         *)
(* A definition marked "Mutant" is not part of the model: it is the next   *)
(* one with a plausible bug, and shows that a property can fail.           *)
(***************************************************************************)
EXTENDS Naturals, Sequences, FiniteSets

CONSTANTS
  Threads,
  Catalog,     \* what may be in the database, records of ObjectRecords
  Types,       \* data types of objects
  Dated,       \* date-indexed frequencies
  Families,    \* words of ITEM FREQUENCY
  Family,      \* family of each date-indexed frequency
  Filters,     \* the filters listings are called with
  None

Classes == {"SERIES", "SCALAR"}
Frequencies == Dated \cup {"CASE", "UNDEFINED"}
ObjectRecords == [name : Nat, class : Classes, type : Types, freq : Frequencies,
                  alias : BOOLEAN, long : BOOLEAN]
FilterRecords == [class : SUBSET Classes, type : SUBSET Types,
                  freq : SUBSET Frequencies, alias : BOOLEAN]

Options == {"ALIAS", "CLASS", "TYPE", "FREQUENCY", "INDEX"}
\* What ON selects.
WordsOf(o) ==
  CASE o = "ALIAS" -> {"ALIAS"} [] o = "CLASS" -> Classes [] o = "TYPE" -> Types
    [] o = "FREQUENCY" -> Families [] o = "INDEX" -> {"CASE", "DATE"}
Words == [o \in Options |-> WordsOf(o)]

ASSUME CatalogOK ==
  /\ Catalog \subseteq ObjectRecords
  /\ \A x \in Catalog : x.class = "SCALAR" <=> x.freq = "UNDEFINED"
  /\ Family \in [Dated -> Families]
  /\ Dated \cap {"CASE", "UNDEFINED"} = {}
  /\ Filters \subseteq FilterRecords

ListingCalls == {"set", "init", "next", "query", "free", "reset"}
CommandCalls == {"redirect", "payload", "restore"}
NativeCalls == ListingCalls \cup CommandCalls
\* What an error is about: a native call that failed, an option that could not be
\* reset, or something that is no native call.
FailedCalls == (NativeCalls \ {"reset"}) \cup Options
OtherErrors == {"interrupt", "truncated", "directory", "output"}
ErrorRecords == [by : FailedCalls \cup OtherErrors, text : FailedCalls \cup {None}]

ASSUME NoneDistinct ==
  None \notin Threads /\ None \notin ErrorRecords /\ None \notin FailedCalls

VARIABLES
  lock,    \* holder of LOCK, or None
  pc,      \* the native call each thread makes next
  job,     \* local variables of its call
  db,      \* the objects in the database
  option,  \* native: what each ITEM option selects
  output,  \* native: where commands write
  text     \* native: the failed call the extended error text is about

vars == <<lock, pc, job, db, option, output, text>>
native == <<option, output, text>>

SetOrder == <<"ALIAS", "CLASS", "TYPE", "FREQUENCY", "INDEX">>
ResetOrder == <<"CLASS", "TYPE", "FREQUENCY", "INDEX", "ALIAS">>
NoFilter == [class |-> {}, type |-> {}, freq |-> {}, alias |-> TRUE]
\* error: the failed call the exception is about, and the text attached to it.
\* first, struck, freeFailed, restoreFailed only observe the call.
NewJob == [call |-> "none", filter |-> NoFilter, todo |-> <<>>, cursor |-> None, entry |-> None,
           results |-> {}, error |-> None, resetFailed |-> <<>>, first |-> None,
           struck |-> {}, freeFailed |-> FALSE, redirected |-> FALSE, restoreFailed |-> FALSE]

-----------------------------------------------------------------------------
(* Selections *)

\* Mutant: the families of the dated codes, although other codes are wanted too.
ChosenByAny(f, o) ==
  CASE o = "CLASS" -> f.class
    [] o = "TYPE"  -> f.type
    [] o = "FREQUENCY" -> {Family[x] : x \in f.freq \cap Dated}
    [] o = "INDEX" -> IF f.freq = {"CASE"} THEN {"CASE"} ELSE {}
    [] OTHER -> {}

\* The words a filter narrows an option to; none leaves it ON (native_selectors).
Chosen(f, o) ==
  CASE o = "CLASS" -> f.class
    [] o = "TYPE"  -> f.type
    [] o = "FREQUENCY" -> IF f.freq \subseteq Dated THEN {Family[x] : x \in f.freq} ELSE {}
    [] o = "INDEX" -> IF f.freq = {"CASE"} THEN {"CASE"} ELSE {}
    [] OTHER -> {}

Setting(f, o) ==
  IF o = "ALIAS" THEN (IF f.alias THEN Words[o] ELSE {})
  ELSE IF Chosen(f, o) = {} THEN Words[o] ELSE Chosen(f, o)

\* What a setting leaves that fails at one of its calls: OFF first, then word by word.
Unfinished(f, o) == {option[o]} \cup (SUBSET Chosen(f, o) \ {Chosen(f, o)})

\* The library's own selection.  Frequency words are about dated series and index
\* words about series; whether a narrowed option also leaves out what its words are
\* not about is not specified (strict).
Admits(x, strict) ==
  LET narrowed == {o \in {"FREQUENCY", "INDEX"} : option[o] # Words[o]} IN
  /\ x.class \in option["CLASS"] /\ x.type \in option["TYPE"]
  /\ x.alias => option["ALIAS"] # {}
  /\ x.freq \in Dated => "DATE" \in option["INDEX"] /\ Family[x.freq] \in option["FREQUENCY"]
  /\ x.freq = "CASE" => "CASE" \in option["INDEX"] /\ (strict => "FREQUENCY" \notin narrowed)
  /\ x.freq = "UNDEFINED" => (strict => narrowed = {})

\* What the caller asked for.
Wanted(f, x) ==
  /\ f.class # {} => x.class \in f.class
  /\ f.type # {} => x.type \in f.type
  /\ f.freq # {} => x.freq \in f.freq
  /\ x.alias => f.alias

-----------------------------------------------------------------------------
(* Errors *)

\* j after its call's native call `by` failed: the text is fetched at once.
Failing(j, by) ==
  [j EXCEPT !.error = [by |-> by, text |-> by],
            !.first = IF @ = None THEN by ELSE @]

\* An exception without a native text replaces whatever was on its way.
Raising(j, by) == [j EXCEPT !.error = [by |-> by, text |-> None]]

\* j after an error that its call remembers, or drops for an earlier one.
Noting(j, by) == [j EXCEPT !.first = IF @ = None THEN by ELSE @]

\* t goes on to a step with new local variables; the library notes what failed.
Continue(t, where, j) ==
  /\ pc' = [pc EXCEPT ![t] = where]
  /\ job' = [job EXCEPT ![t] = j]
  /\ UNCHANGED <<lock, db>>
Succeeds(t, where, j) == Continue(t, where, j) /\ UNCHANGED text
Fails(t, where, j, by) == Continue(t, where, j) /\ text' = by

\* The clean-up of a listing.
Cleaning(j) == [j EXCEPT !.todo = ResetOrder]

-----------------------------------------------------------------------------
(* listdb *)

\* Mutant: the lock is not asked for.
EnterUnlocked(t, call, where, f) ==
  /\ pc[t] = "idle"
  /\ lock' = t
  /\ pc' = [pc EXCEPT ![t] = where]
  /\ job' = [job EXCEPT ![t] = [NewJob EXCEPT !.call = call, !.filter = f, !.todo = SetOrder]]
  /\ UNCHANGED <<db, native>>

\* Session.operation: the call has the lock to its end.
Enter(t, call, where, f) ==
  /\ pc[t] = "idle"
  /\ lock = None
  /\ lock' = t
  /\ pc' = [pc EXCEPT ![t] = where]
  /\ job' = [job EXCEPT ![t] = [NewJob EXCEPT !.call = call, !.filter = f, !.todo = SetOrder]]
  /\ UNCHANGED <<db, native>>

Listing(t) == \E f \in Filters : Enter(t, "listing", "set", f)

SetOption(t) ==
  LET o == Head(job[t].todo)
      j == [job[t] EXCEPT !.todo = Tail(@)]
  IN  /\ pc[t] = "set"
      /\ \/ /\ option' = [option EXCEPT ![o] = Setting(job[t].filter, o)]
            /\ Succeeds(t, IF j.todo = <<>> THEN "init" ELSE "set", j)
         \/ /\ \E words \in Unfinished(job[t].filter, o) : option' = [option EXCEPT ![o] = words]
            /\ Fails(t, "reset", Cleaning(Failing(j, "set")), "set")
      /\ UNCHANGED output

InitWildcard(t) ==
  /\ pc[t] = "init"
  /\ \/ \E strict \in BOOLEAN :
          Succeeds(t, "next", [job[t] EXCEPT !.cursor = {x \in db : Admits(x, strict)}])
     \/ Fails(t, "reset", Cleaning(Failing(job[t], "init")), "init")
  /\ UNCHANGED <<option, output>>

\* The filter on metadata: kept only with a frequency that was asked for.
Collected(j, x) ==
  [j EXCEPT !.entry = None, !.cursor = @ \ {x},
            !.results = IF j.filter.freq = {} \/ x.freq \in j.filter.freq THEN @ \cup {x} ELSE @]

NextEntry(t) ==
  /\ pc[t] = "next"
  /\ \E x \in job[t].cursor :
       IF x.long THEN Succeeds(t, "free", Raising(job[t], "truncated"))
       ELSE IF x.class = "SCALAR" THEN Succeeds(t, "query", [job[t] EXCEPT !.entry = x])
       ELSE Succeeds(t, "next", Collected(job[t], x))
  /\ UNCHANGED <<option, output>>

NextEnds(t) ==
  /\ pc[t] = "next"
  /\ job[t].cursor = {}
  /\ Succeeds(t, "free", job[t])
  /\ UNCHANGED <<option, output>>

\* Mutant: the cursor is left open.
NextFailsUnfreed(t) ==
  /\ pc[t] = "next"
  /\ Fails(t, "reset", Cleaning(Failing(job[t], "next")), "next")
  /\ UNCHANGED <<option, output>>

NextFails(t) ==
  /\ pc[t] = "next"
  /\ Fails(t, "free", Failing(job[t], "next"), "next")
  /\ UNCHANGED <<option, output>>

QueryScalar(t) ==
  /\ pc[t] = "query"
  /\ \/ Succeeds(t, "next", Collected(job[t], job[t].entry))
     \/ Fails(t, "free", Failing(job[t], "query"), "query")
  /\ UNCHANGED <<option, output>>

\* Mutant: the failure of the clean-up hides the one before it.
FreeWildcardHides(t) ==
  /\ pc[t] = "free"
  /\ \/ Succeeds(t, "reset", Cleaning([job[t] EXCEPT !.cursor = None]))
     \/ Fails(t, "reset", Cleaning([Failing(job[t], "free") EXCEPT !.freeFailed = TRUE]), "free")
  /\ UNCHANGED <<option, output>>

\* A failure to free it is raised only when nothing failed before.
FreeWildcard(t) ==
  LET failed == IF job[t].error = None THEN Failing(job[t], "free") ELSE Noting(job[t], "free")
  IN  /\ pc[t] = "free"
      /\ \/ Succeeds(t, "reset", Cleaning([job[t] EXCEPT !.cursor = None]))
         \/ Fails(t, "reset", Cleaning([failed EXCEPT !.freeFailed = TRUE]), "free")
      /\ UNCHANGED <<option, output>>

\* Mutant: the first option that cannot be reset ends the clean-up.
ResetOptionGivesUp(t) ==
  LET o == Head(job[t].todo)
      j == [job[t] EXCEPT !.todo = Tail(@)]
  IN  /\ pc[t] = "reset"
      /\ job[t].todo # <<>>
      /\ \/ option' = [option EXCEPT ![o] = Words[o]] /\ Succeeds(t, "reset", j)
         \/ /\ UNCHANGED option
            /\ Fails(t, "reset",
                     [Noting(j, o) EXCEPT !.resetFailed = Append(@, o), !.todo = <<>>], o)
      /\ UNCHANGED output

\* _normalize_options: every option is attempted, the failures are collected.
ResetOption(t) ==
  LET o == Head(job[t].todo)
      j == [job[t] EXCEPT !.todo = Tail(@)]
  IN  /\ pc[t] = "reset"
      /\ job[t].todo # <<>>
      /\ \/ option' = [option EXCEPT ![o] = Words[o]] /\ Succeeds(t, "reset", j)
         \/ UNCHANGED option
            /\ Fails(t, "reset", [Noting(j, o) EXCEPT !.resetFailed = Append(@, o)], o)
      /\ UNCHANGED output

\* The first of them is raised when nothing else was; only now is its text fetched.
Conclude(t) ==
  LET j == job[t] IN
  /\ pc[t] = "reset"
  /\ j.todo = <<>>
  /\ Succeeds(t, "end", IF j.error = None /\ j.resetFailed # <<>>
                        THEN [j EXCEPT !.error = [by |-> Head(j.resetFailed), text |-> text]]
                        ELSE j)
  /\ UNCHANGED <<option, output>>

-----------------------------------------------------------------------------
(* fame *)

Command(t) == Enter(t, "command", "redirect", NoFilter)

Redirect(t) ==
  /\ pc[t] = "redirect"
  /\ \/ /\ output' = "file"
        /\ Succeeds(t, "payload", [job[t] EXCEPT !.redirected = TRUE])
     \/ /\ UNCHANGED output
        /\ \/ Fails(t, "end", Failing(job[t], "redirect"), "redirect")
           \/ Succeeds(t, "end", Raising(job[t], "directory"))
  /\ UNCHANGED option

\* Mutant: a failed command is reported at once.
PayloadUnrestored(t) ==
  /\ pc[t] = "payload"
  /\ UNCHANGED <<option, output>>
  /\ \/ Succeeds(t, "restore", job[t])
     \/ Fails(t, "end", Failing(job[t], "payload"), "payload")

\* A command may set ITEM options and end the redirection itself.
Effects ==
  /\ \/ UNCHANGED option
     \/ \E o \in Options : \E words \in SUBSET Words[o] : option' = [option EXCEPT ![o] = words]
  /\ output' \in {output, "terminal"}

Payload(t) ==
  /\ pc[t] = "payload"
  /\ Effects
  /\ \/ Succeeds(t, "restore", job[t])
     \/ Fails(t, "restore", Failing(job[t], "payload"), "payload")

\* Mutant: the text of a failed command is fetched after the restoration.
RestoreThenFetch(t) ==
  LET j == [job[t] EXCEPT !.restoreFailed = TRUE] IN
  /\ pc[t] = "restore"
  /\ \/ output' = "terminal" /\ Succeeds(t, "output", job[t])
     \/ /\ UNCHANGED output
        /\ Fails(t, "output", IF j.error = None THEN Failing(j, "restore")
                              ELSE [j EXCEPT !.error.text = "restore"], "restore")
  /\ UNCHANGED option

\* Attempted after whatever the command did; its failure is second to the command's.
Restore(t) ==
  LET j == [job[t] EXCEPT !.restoreFailed = TRUE] IN
  /\ pc[t] = "restore"
  /\ \/ output' = "terminal" /\ Succeeds(t, "output", job[t])
     \/ /\ UNCHANGED output
        /\ Fails(t, "output", IF j.error = None THEN Failing(j, "restore")
                              ELSE Noting(j, "restore"), "restore")
  /\ UNCHANGED option

\* The captured output is read, or cannot be, which hides any failed call.
ReadOutput(t) ==
  /\ pc[t] = "output"
  /\ \/ Succeeds(t, "end", job[t])
     \/ Succeeds(t, "end", Raising(job[t], "output"))
  /\ UNCHANGED <<option, output>>

-----------------------------------------------------------------------------
(* Interrupts, the end of a call, and other operations *)

Struck(t) == [Raising(job[t], "interrupt") EXCEPT !.struck = @ \cup {pc[t]}]

\* Where the exception goes from each native call, after its effect or before it.
Interrupted(t) ==
  LET j == Struck(t) IN
  \/ /\ pc[t] = "set"
     /\ LET o == Head(j.todo) IN
        \E words \in Unfinished(j.filter, o) \cup {Setting(j.filter, o)} :
          option' = [option EXCEPT ![o] = words]
     /\ Succeeds(t, "reset", Cleaning(j)) /\ UNCHANGED output
  \/ /\ pc[t] = "init"
     \* a cursor whose key did not arrive cannot be freed
     /\ \E c \in {None, {}} : Succeeds(t, "reset", Cleaning([j EXCEPT !.cursor = c]))
     /\ UNCHANGED <<option, output>>
  \/ /\ pc[t] \in {"next", "query"}
     /\ Succeeds(t, "free", j)
     /\ UNCHANGED <<option, output>>
  \/ /\ pc[t] = "free"
     /\ \E c \in {None, j.cursor} : Succeeds(t, "reset", Cleaning([j EXCEPT !.cursor = c]))
     /\ UNCHANGED <<option, output>>
  \/ /\ pc[t] = "reset"
     /\ j.todo # <<>>
     /\ option' \in {option, [option EXCEPT ![Head(j.todo)] = Words[Head(j.todo)]]}
     /\ Succeeds(t, "end", j) /\ UNCHANGED output
  \/ /\ pc[t] = "redirect"
     /\ output' \in {output, "file"}
     /\ Succeeds(t, "end", [j EXCEPT !.redirected = TRUE]) /\ UNCHANGED option
  \/ /\ pc[t] = "payload"
     /\ Effects
     /\ Succeeds(t, "restore", j)
  \/ /\ pc[t] = "restore"
     /\ output' \in {output, "terminal"}
     /\ Succeeds(t, "end", j) /\ UNCHANGED option

Return(t) ==
  /\ pc[t] = "end"
  /\ lock' = None
  /\ pc' = [pc EXCEPT ![t] = "idle"]
  /\ job' = [job EXCEPT ![t] = NewJob]
  /\ UNCHANGED <<db, native>>

\* Any other operation, in one step: it may write or delete objects.
Operation(t) ==
  /\ pc[t] = "idle"
  /\ lock = None
  /\ \E x \in Catalog : db' = IF x \in db THEN db \ {x} ELSE db \cup {x}
  /\ UNCHANGED <<lock, pc, job, native>>

Init ==
  /\ lock = None
  /\ pc = [t \in Threads |-> "idle"]
  /\ job = [t \in Threads |-> NewJob]
  /\ db = {}
  /\ option = Words
  /\ output = "terminal"
  /\ text = None

ListingStep(t) ==
  \/ Listing(t) \/ SetOption(t) \/ InitWildcard(t)
  \/ NextEntry(t) \/ NextEnds(t) \/ NextFails(t) \/ QueryScalar(t)
  \/ FreeWildcard(t) \/ ResetOption(t) \/ Conclude(t)

CommandStep(t) ==
  Command(t) \/ Redirect(t) \/ Payload(t) \/ Restore(t) \/ ReadOutput(t)

Next ==
  \E t \in Threads :
    ListingStep(t) \/ CommandStep(t) \/ Interrupted(t) \/ Return(t) \/ Operation(t)

Spec == Init /\ [][Next]_vars

-----------------------------------------------------------------------------
(* Properties *)

PCs == NativeCalls \cup {"idle", "output", "end"}

TypeOK ==
  /\ lock \in Threads \cup {None}
  /\ pc \in [Threads -> PCs]
  /\ \A t \in Threads : lock = t <=> pc[t] # "idle"
  /\ db \subseteq Catalog
  /\ option \in [Options -> SUBSET UNION {Words[o] : o \in Options}]
  /\ \A o \in Options : option[o] \subseteq Words[o]
  /\ output \in {"terminal", "file"}
  /\ text \in FailedCalls \cup {None}
  /\ \A t \in Threads : job[t].results \subseteq Catalog

Ends(t, call) == pc[t] = "end" /\ job[t].call = call

\* A listing that returns has found exactly the objects asked for that are in the
\* database, whatever earlier commands, or listings that failed, left selected,
\* and although the native selection is narrowed by family or index (listdb).
ListingExact ==
  \A t \in Threads : Ends(t, "listing") /\ job[t].error = None
    => job[t].results = {x \in db : Wanted(job[t].filter, x)}

\* A listing, failed or not, leaves no option selected but those it could not
\* reset, and raises when there are any (_normalize_options); only an interrupt of
\* the resets themselves ends them.
OptionsNormalized ==
  \A t \in Threads : Ends(t, "listing") =>
    /\ "reset" \notin job[t].struck => \A o \in Options :
         option[o] # Words[o] => \E i \in DOMAIN job[t].resetFailed : job[t].resetFailed[i] = o
    /\ job[t].resetFailed # <<>> => job[t].error # None

\* Its cursor is freed on every path, unless the library refused, or an interrupt
\* struck the call that makes it or frees it.
CursorFreed ==
  \A t \in Threads : Ends(t, "listing") /\ job[t].cursor # None =>
    job[t].freeFailed \/ job[t].struck \cap {"init", "free"} # {}

\* The exception of a call is about its first failed native call, and there is one
\* whenever a call failed.  Interrupts, a name too long and unreadable output are
\* not failed native calls.
FirstFailureRaised ==
  \A t \in Threads : pc[t] = "end" /\ job[t].first # None =>
    /\ job[t].error # None
    /\ job[t].error.by \in {job[t].first, "interrupt", "truncated", "output"}

\* A command that redirected the output leaves it at the terminal, unless its
\* restoration failed, and an exception says that something did, or an interrupt
\* struck the call that redirects or restores it.
RedirectionRestored ==
  \A t \in Threads :
    Ends(t, "command") /\ job[t].redirected /\ output = "file" =>
      /\ job[t].error # None
      /\ job[t].restoreFailed \/ job[t].struck \cap {"redirect", "restore"} # {}

\* The text attached to an exception is about the call it is for, when that is not
\* an option reset.
TextOfFailure ==
  \A t \in Threads : pc[t] = "end" /\ job[t].error # None =>
    (job[t].error.by \notin Options => job[t].error.text \in {job[t].error.by, None})

\* "A HLIError raised inside gets the opt-in extended text attached before the lock
\* is released and before any other native call" (_runtime.py:378-379).
TextBeforeOtherCalls ==
  \A t \in Threads : pc[t] = "end" /\ job[t].error # None =>
    job[t].error.text \in {job[t].error.by, None}
=============================================================================
