-------------------------- MODULE SharedStateProofs --------------------------
(***************************************************************************)
(* Proofs about SharedState, for every catalogue, set of filters and set   *)
(* of threads.                                                             *)
(*                                                                         *)
(* The properties speak of the end of a call.  Inv says for each of its    *)
(* steps what is settled by then; a thread that is idle says nothing, so a *)
(* step of the holder of the lock has to keep only its own part.           *)
(***************************************************************************)
EXTENDS SharedState, TLAPS

JobRecords ==
  [call : {"none", "listing", "command"}, filter : FilterRecords, todo : Seq(Options),
   cursor : (SUBSET Catalog) \cup {None}, entry : Catalog \cup {None},
   results : SUBSET Catalog, error : ErrorRecords \cup {None}, resetFailed : Seq(Options),
   first : FailedCalls \cup {None}, struck : SUBSET NativeCalls, freeFailed : BOOLEAN,
   redirected : BOOLEAN, restoreFailed : BOOLEAN]

Selection == {w \in [Options -> SUBSET UNION {Words[o] : o \in Options}] :
                \A o \in Options : w[o] \subseteq Words[o]}

In(s, o) == \E i \in DOMAIN s : s[i] = o

\* What is known of a call with local variables j at step w.
Begun(w, j) ==
  /\ w \in ListingCalls => j.call = "listing"
  /\ w \in CommandCalls \cup {"output"} => j.call = "command"
  /\ w = "set" => j.todo # <<>>
  /\ w \in {"set", "init", "next", "query"} \cup {"redirect", "payload"} => j.error = None
  /\ w \in PCs \ {"reset", "end", "idle"} => j.resetFailed = <<>>
  /\ w \in {"set", "init"} => j.cursor = None
  /\ w = "redirect" => ~ j.redirected

Reset(w, j, opt) ==
  /\ w = "reset" => \A o \in Options : opt[o] # Words[o] => In(j.todo, o) \/ In(j.resetFailed, o)
  /\ w = "end" /\ j.call = "listing" =>
       /\ "reset" \notin j.struck =>
            \A o \in Options : opt[o] # Words[o] => In(j.resetFailed, o)
       /\ j.resetFailed # <<>> => j.error # None

Freed(w, j) ==
  w = "reset" \/ (w = "end" /\ j.call = "listing") =>
    j.cursor = None \/ j.freeFailed \/ j.struck \cap {"init", "free"} # {}

Noticed(w, j) ==
  /\ j.error # None /\ j.first # None =>
       j.error.by \in {j.first, "interrupt", "truncated", "output"}
  /\ j.error # None /\ w # "end" =>
       \/ j.error.by \in {"interrupt", "truncated"}
       \/ j.first # None /\ j.error.by = j.first
  /\ j.error = None /\ j.first # None =>
       w = "reset" /\ j.resetFailed # <<>> /\ j.first = Head(j.resetFailed)
  /\ j.error = None /\ j.resetFailed # <<>> => j.first = Head(j.resetFailed)

Restored(w, j, out) ==
  w \in {"output", "end"} /\ j.call = "command" /\ j.redirected /\ out = "file" =>
    /\ j.error # None
    /\ j.restoreFailed \/ j.struck \cap {"redirect", "restore"} # {}

Told(j) ==
  j.error # None => (j.error.by \notin Options => j.error.text \in {j.error.by, None})

\* The metadata filter.
Dating(f, x) == f.freq = {} \/ x.freq \in f.freq

Listed(w, j, opt, d) ==
  /\ w = "set" => \A o \in Options : In(j.todo, o) \/ opt[o] = Setting(j.filter, o)
  /\ w = "init" => \A o \in Options : opt[o] = Setting(j.filter, o)
  /\ w \in {"set", "init"} => j.results = {}
  /\ w \in {"next", "query"} =>
       /\ j.cursor \subseteq d
       /\ j.results \subseteq d
       /\ \A x \in j.cursor : Dating(j.filter, x) => Wanted(j.filter, x)
       /\ \A x \in j.results : Wanted(j.filter, x)
       /\ \A x \in d : Wanted(j.filter, x) => x \in j.cursor \cup j.results
  /\ w = "query" => j.entry \in j.cursor
  /\ w \in {"free", "reset"} \/ (w = "end" /\ j.call = "listing") =>
       (j.error = None => j.results = {x \in d : Wanted(j.filter, x)})

Known(w, j, opt, out, d) ==
  /\ Begun(w, j) /\ Reset(w, j, opt) /\ Freed(w, j) /\ Noticed(w, j)
  /\ Restored(w, j, out) /\ Told(j) /\ Listed(w, j, opt, d)

TypeInv ==
  /\ TypeOK
  /\ job \in [Threads -> JobRecords]

Inv ==
  /\ TypeInv
  /\ \A t \in Threads : pc[t] # "idle" => Known(pc[t], job[t], option, output, db)

-----------------------------------------------------------------------------
(* The native selection *)

\* Narrowed by a filter, it never leaves out an object that is asked for, and
\* with the filter on metadata it is exact, however strict the library is.
LEMMA NarrowingIsExact ==
  ASSUME NEW f \in FilterRecords, NEW x \in Catalog, NEW strict \in BOOLEAN,
         \A o \in Options : option[o] = Setting(f, o)
  PROVE  Admits(x, strict) /\ Dating(f, x) <=> Wanted(f, x)
<1>1. /\ x.class \in Classes /\ x.type \in Types /\ x.freq \in Frequencies /\ x.alias \in BOOLEAN
      /\ x.class = "SCALAR" <=> x.freq = "UNDEFINED"
  BY CatalogOK DEF ObjectRecords
<1>2. /\ f.class \subseteq Classes /\ f.type \subseteq Types /\ f.freq \subseteq Frequencies
      /\ f.alias \in BOOLEAN
  BY DEF FilterRecords
<1>3. /\ Words["CLASS"] = Classes /\ Words["TYPE"] = Types /\ Words["ALIAS"] = {"ALIAS"}
      /\ Words["FREQUENCY"] = Families /\ Words["INDEX"] = {"CASE", "DATE"}
  BY DEF Words, WordsOf, Options
<1>4. /\ option["ALIAS"] = IF f.alias THEN {"ALIAS"} ELSE {}
      /\ option["CLASS"] = IF f.class = {} THEN Classes ELSE f.class
      /\ option["TYPE"] = IF f.type = {} THEN Types ELSE f.type
  BY <1>3 DEF Setting, Chosen, Options
<1>5. option["INDEX"] = IF f.freq = {"CASE"} THEN {"CASE"} ELSE {"CASE", "DATE"}
  BY <1>3 DEF Setting, Chosen, Options
<1>6. option["FREQUENCY"] = IF f.freq \subseteq Dated /\ f.freq # {}
                            THEN {Family[y] : y \in f.freq} ELSE Families
  BY <1>3 DEF Setting, Chosen, Options
<1>7. (x.class \in option["CLASS"] /\ x.type \in option["TYPE"]
         /\ (x.alias => option["ALIAS"] # {}))
      <=> ((f.class # {} => x.class \in f.class) /\ (f.type # {} => x.type \in f.type)
             /\ (x.alias => f.alias))
  BY <1>1, <1>2, <1>4
<1> DEFINE narrowed == {o \in {"FREQUENCY", "INDEX"} : option[o] # Words[o]}
           ByDate == /\ x.freq \in Dated => "DATE" \in option["INDEX"]
                                             /\ Family[x.freq] \in option["FREQUENCY"]
                     /\ x.freq = "CASE" => "CASE" \in option["INDEX"]
                                           /\ (strict => "FREQUENCY" \notin narrowed)
                     /\ x.freq = "UNDEFINED" => (strict => narrowed = {})
<1>8. ASSUME Dating(f, x) PROVE ByDate
  <2>1. CASE f.freq = {}
    <3>1. option["FREQUENCY"] = Families /\ option["INDEX"] = {"CASE", "DATE"}
      BY <2>1, <1>5, <1>6
    <3>2. narrowed = {}
      BY <3>1, <1>3
    <3> QED BY <3>1, <3>2, CatalogOK
  <2>2. CASE x.freq \in f.freq
    <3>1. CASE x.freq \in Dated
      <4>1. f.freq # {"CASE"}
        BY <2>2, <3>1, CatalogOK
      <4>2. Family[x.freq] \in option["FREQUENCY"]
        BY <2>2, <3>1, <1>6, CatalogOK
      <4>3. x.freq \notin {"CASE", "UNDEFINED"}
        BY <3>1, CatalogOK
      <4> QED BY <4>1, <4>2, <4>3, <1>5
    <3>2. CASE x.freq = "CASE"
      <4>1. x.freq \notin Dated
        BY <3>2, CatalogOK
      <4>2. option["FREQUENCY"] = Families
        BY <2>2, <4>1, <1>6
      <4>3. "FREQUENCY" \notin narrowed
        BY <4>2, <1>3
      <4> QED BY <4>1, <4>3, <3>2, <1>5
    <3>3. CASE x.freq = "UNDEFINED"
      <4>1. x.freq \notin Dated
        BY <3>3, CatalogOK
      <4>2. option["FREQUENCY"] = Families /\ f.freq # {"CASE"}
        BY <2>2, <3>3, <4>1, <1>6
      <4>3. narrowed = {}
        BY <4>2, <1>3, <1>5
      <4> QED BY <4>1, <4>3, <3>3
    <3> QED BY <1>1, <3>1, <3>2, <3>3 DEF Frequencies
  <2> QED BY <2>1, <2>2, <1>8 DEF Dating
<1>9. Admits(x, strict) <=> /\ x.class \in option["CLASS"] /\ x.type \in option["TYPE"]
                            /\ x.alias => option["ALIAS"] # {}
                            /\ ByDate
  BY DEF Admits
<1>10. Wanted(f, x) <=> /\ f.class # {} => x.class \in f.class
                        /\ f.type # {} => x.type \in f.type
                        /\ x.alias => f.alias
                        /\ Dating(f, x)
  BY DEF Wanted, Dating
<1> HIDE DEF ByDate
<1> QED BY <1>7, <1>8, <1>9, <1>10

LEMMA SettingIsSelection ==
  ASSUME NEW f \in FilterRecords, NEW o \in Options
  PROVE  Setting(f, o) \subseteq Words[o] /\ Chosen(f, o) \subseteq Words[o]
<1>1. f.class \subseteq Classes /\ f.type \subseteq Types
  BY DEF FilterRecords
<1>2. /\ Words["CLASS"] = Classes /\ Words["TYPE"] = Types /\ Words["ALIAS"] = {"ALIAS"}
      /\ Words["FREQUENCY"] = Families /\ Words["INDEX"] = {"CASE", "DATE"}
  BY DEF Words, WordsOf, Options
<1>3. f.freq \subseteq Dated => {Family[y] : y \in f.freq} \subseteq Families
  BY CatalogOK
<1>4. Chosen(f, o) \subseteq Words[o]
  BY <1>1, <1>2, <1>3 DEF Chosen, Options
<1> QED BY <1>4 DEF Setting

\* An option is set without leaving the selections.
LEMMA SelectionKept ==
  ASSUME NEW w \in Selection, NEW o \in Options, NEW words \in SUBSET Words[o]
  PROVE  [w EXCEPT ![o] = words] \in Selection
<1>1. words \in SUBSET UNION {Words[p] : p \in Options}
  OBVIOUS
<1> QED BY <1>1 DEF Selection

LEMMA UnfinishedIsSelection ==
  ASSUME option \in Selection, NEW f \in FilterRecords, NEW o \in Options,
         NEW words \in Unfinished(f, o)
  PROVE  words \in SUBSET Words[o]
BY SettingIsSelection DEF Unfinished, Selection

-----------------------------------------------------------------------------
(* Local variables *)

\* All fields but the errors and the list of what is left to do are the same.
Kept(j, k) ==
  /\ k.call = j.call /\ k.filter = j.filter /\ k.cursor = j.cursor /\ k.entry = j.entry
  /\ k.results = j.results /\ k.resetFailed = j.resetFailed /\ k.struck = j.struck
  /\ k.freeFailed = j.freeFailed /\ k.redirected = j.redirected
  /\ k.restoreFailed = j.restoreFailed

LEMMA ErrorNotNone ==
  ASSUME NEW by \in FailedCalls \cup OtherErrors, NEW tx \in FailedCalls \cup {None}
  PROVE  /\ [by |-> by, text |-> tx] \in ErrorRecords
         /\ [by |-> by, text |-> tx] # None
BY NoneDistinct DEF ErrorRecords

LEMMA NewJobFields ==
  /\ NewJob \in JobRecords
  /\ NewJob.error = None /\ NewJob.first = None /\ NewJob.cursor = None
  /\ NewJob.resetFailed = <<>> /\ NewJob.results = {} /\ ~ NewJob.redirected
<1>1. NoFilter \in FilterRecords
  BY DEF NoFilter, FilterRecords
<1>2. <<>> \in Seq(Options)
  OBVIOUS
<1> HIDE DEF NoFilter
<1> QED BY <1>1, <1>2 DEF NewJob, JobRecords

LEMMA FailingFields ==
  ASSUME NEW j \in JobRecords, NEW by \in FailedCalls
  PROVE  /\ Failing(j, by) \in JobRecords
         /\ Failing(j, by).error # None
         /\ Failing(j, by).error.by = by /\ Failing(j, by).error.text = by
         /\ Failing(j, by).first = IF j.first = None THEN by ELSE j.first
         /\ Failing(j, by).todo = j.todo
         /\ Kept(j, Failing(j, by))
BY ErrorNotNone DEF Failing, JobRecords, Kept

LEMMA RaisingFields ==
  ASSUME NEW j \in JobRecords, NEW by \in OtherErrors
  PROVE  /\ Raising(j, by) \in JobRecords
         /\ Raising(j, by).error # None
         /\ Raising(j, by).error.by = by /\ Raising(j, by).error.text = None
         /\ Raising(j, by).first = j.first
         /\ Raising(j, by).todo = j.todo
         /\ Kept(j, Raising(j, by))
BY ErrorNotNone DEF Raising, JobRecords, Kept

LEMMA NotingFields ==
  ASSUME NEW j \in JobRecords, NEW by \in FailedCalls
  PROVE  /\ Noting(j, by) \in JobRecords
         /\ Noting(j, by).error = j.error
         /\ Noting(j, by).first = IF j.first = None THEN by ELSE j.first
         /\ Noting(j, by).todo = j.todo
         /\ Kept(j, Noting(j, by))
BY DEF Noting, JobRecords, Kept

LEMMA CleaningFields ==
  ASSUME NEW j \in JobRecords
  PROVE  /\ Cleaning(j) \in JobRecords
         /\ Cleaning(j).error = j.error /\ Cleaning(j).first = j.first
         /\ \A o \in Options : In(Cleaning(j).todo, o)
         /\ Kept(j, Cleaning(j))
<1>1. ResetOrder \in Seq(Options)
  BY DEF ResetOrder, Options
<1>2. \A o \in Options : In(ResetOrder, o)
  <2>1. /\ DOMAIN ResetOrder = 1 .. 5
        /\ ResetOrder[1] = "CLASS" /\ ResetOrder[2] = "TYPE" /\ ResetOrder[3] = "FREQUENCY"
        /\ ResetOrder[4] = "INDEX" /\ ResetOrder[5] = "ALIAS"
    BY DEF ResetOrder
  <2> QED BY <2>1 DEF In, Options
<1>3. Cleaning(j).todo = ResetOrder
  BY DEF Cleaning, JobRecords
<1>4. Cleaning(j) \in JobRecords
  BY <1>1 DEF Cleaning, JobRecords
<1> QED BY <1>2, <1>3, <1>4 DEF Cleaning, JobRecords, Kept

-----------------------------------------------------------------------------
(* Steps *)

\* Only the holder of the lock is not idle.
LEMMA Alone ==
  ASSUME Inv, NEW t \in Threads, pc[t] # "idle"
  PROVE  lock = t /\ \A q \in Threads \ {t} : pc[q] = "idle"
BY DEF Inv, TypeInv, TypeOK

\* A step of the holder keeps Inv when it keeps the holder's own part.
LEMMA Continues ==
  ASSUME Inv, NEW t \in Threads, pc[t] # "idle", NEW w \in PCs \ {"idle"},
         NEW j \in JobRecords, Continue(t, w, j), option' \in Selection,
         output' \in {"terminal", "file"}, text' \in FailedCalls \cup {None},
         Known(w, j, option', output', db)
  PROVE  Inv'
<1>1. lock = t /\ \A q \in Threads \ {t} : pc[q] = "idle"
  BY Alone
<1>2. /\ pc' \in [Threads -> PCs] /\ pc'[t] = w /\ \A q \in Threads \ {t} : pc'[q] = pc[q]
      /\ job' \in [Threads -> JobRecords] /\ job'[t] = j
      /\ lock' = lock /\ db' = db
  BY DEF Continue, Inv, TypeInv, TypeOK
<1>3. \A q \in Threads : job'[q].results \subseteq Catalog
  BY <1>2 DEF JobRecords
<1>4. TypeOK'
  BY <1>1, <1>2, <1>3 DEF TypeOK, Inv, TypeInv, Selection
<1>5. \A q \in Threads : pc'[q] # "idle" => q = t
  BY <1>1, <1>2
<1>6. Known(pc'[t], job'[t], option', output', db')
  BY <1>2
<1> QED BY <1>2, <1>4, <1>5, <1>6 DEF Inv, TypeInv

LEMMA HolderKnows ==
  ASSUME Inv, NEW t \in Threads, pc[t] # "idle"
  PROVE  /\ job[t] \in JobRecords /\ Known(pc[t], job[t], option, output, db)
         /\ option \in Selection /\ output \in {"terminal", "file"}
         /\ text \in FailedCalls \cup {None} /\ db \subseteq Catalog
BY DEF Inv, TypeInv, TypeOK, Selection

LEMMA HeadAndTail ==
  ASSUME NEW s \in Seq(Options), s # <<>>
  PROVE  /\ Head(s) \in Options /\ Tail(s) \in Seq(Options)
         /\ \A o \in Options : In(s, o) => o = Head(s) \/ In(Tail(s), o)
<1>1. Head(s) \in Options /\ Tail(s) \in Seq(Options) /\ Head(s) = s[1]
      /\ Len(s) \in Nat /\ Len(s) > 0 /\ Len(Tail(s)) = Len(s) - 1
      /\ DOMAIN s = 1 .. Len(s) /\ DOMAIN Tail(s) = 1 .. Len(s) - 1
  OBVIOUS
<1>2. ASSUME NEW o \in Options, NEW i \in DOMAIN s, s[i] = o, i # 1 PROVE In(Tail(s), o)
  <2>1. i - 1 \in DOMAIN Tail(s) /\ Tail(s)[i - 1] = s[i]
    BY <1>1, <1>2
  <2> QED BY <2>1, <1>2 DEF In
<1> QED BY <1>1, <1>2 DEF In

\* A call begins.
LEMMA EnterStep ==
  ASSUME Inv, NEW t \in Threads, NEW f \in FilterRecords,
         \/ Enter(t, "listing", "set", f)
         \/ Enter(t, "command", "redirect", f)
  PROVE  Inv'
<1>1. /\ pc[t] = "idle" /\ lock = None /\ lock' = t
      /\ UNCHANGED <<db, option, output, text>>
  BY DEF Enter, native
<1>2. PICK call \in {"listing", "command"} :
        /\ pc' = [pc EXCEPT ![t] = IF call = "listing" THEN "set" ELSE "redirect"]
        /\ job' = [job EXCEPT ![t] = [NewJob EXCEPT !.call = call, !.filter = f,
                                                    !.todo = SetOrder]]
  BY DEF Enter
<1> DEFINE w == IF call = "listing" THEN "set" ELSE "redirect"
           j == [NewJob EXCEPT !.call = call, !.filter = f, !.todo = SetOrder]
<1>3. SetOrder \in Seq(Options) /\ SetOrder # <<>>
  BY DEF SetOrder, Options
<1>4. /\ j \in JobRecords
      /\ j.call = call /\ j.todo = SetOrder /\ j.error = None /\ j.first = None
      /\ j.cursor = None /\ j.resetFailed = <<>> /\ j.results = {} /\ ~ j.redirected
      /\ j.filter = f
  BY <1>3, NewJobFields DEF JobRecords
<1>5. \A o \in Options : In(SetOrder, o)
  <2>1. /\ DOMAIN SetOrder = 1 .. 5
        /\ SetOrder[1] = "ALIAS" /\ SetOrder[2] = "CLASS" /\ SetOrder[3] = "TYPE"
        /\ SetOrder[4] = "FREQUENCY" /\ SetOrder[5] = "INDEX"
    BY DEF SetOrder
  <2> QED BY <2>1 DEF In, Options
<1>6. \A q \in Threads : pc[q] = "idle"
  BY <1>1, NoneDistinct DEF Inv, TypeInv, TypeOK
<1>7. /\ pc' \in [Threads -> PCs] /\ pc'[t] = w /\ \A q \in Threads \ {t} : pc'[q] = "idle"
      /\ job' \in [Threads -> JobRecords] /\ job'[t] = j
  BY <1>2, <1>4, <1>6 DEF Inv, TypeInv, TypeOK, PCs, NativeCalls, ListingCalls, CommandCalls
<1>8. \A q \in Threads : job'[q].results \subseteq Catalog
  BY <1>7 DEF JobRecords
<1>9. TypeOK'
  BY <1>1, <1>7, <1>8 DEF TypeOK, Inv, TypeInv
<1>10. Known(w, j, option, output, db)
  <2>1. Begun(w, j) /\ Reset(w, j, option) /\ Freed(w, j) /\ Noticed(w, j)
        /\ Restored(w, j, output) /\ Told(j)
    BY <1>3, <1>4 DEF PCs, NativeCalls, Begun, Reset, Freed, Noticed, Restored, Told, ListingCalls, CommandCalls
  <2>2. Listed(w, j, option, db)
    BY <1>4, <1>5 DEF Listed
  <2> QED BY <2>1, <2>2 DEF Known
<1> QED BY <1>1, <1>7, <1>9, <1>10 DEF Inv, TypeInv

\* The call fails, or is interrupted, before it has set all options: clean-up.
LEMMA ToReset ==
  ASSUME NEW j \in JobRecords, j.call = "listing", j.error # None, j.resetFailed = <<>>,
         j.error.by \in {"interrupt", "truncated"} \/ (j.first # None /\ j.error.by = j.first),
         j.cursor = None \/ j.freeFailed \/ j.struck \cap {"init", "free"} # {},
         Told(j), NEW opt \in Selection, NEW out \in {"terminal", "file"}
  PROVE  Cleaning(j) \in JobRecords /\ Known("reset", Cleaning(j), opt, out, db)
<1> DEFINE k == Cleaning(j)
<1>1. /\ k \in JobRecords /\ k.error = j.error /\ k.first = j.first
      /\ \A o \in Options : In(k.todo, o)
      /\ Kept(j, k)
  BY CleaningFields
<1>2. /\ k.call = "listing" /\ k.resetFailed = <<>> /\ k.cursor = j.cursor
      /\ k.freeFailed = j.freeFailed /\ k.struck = j.struck
  BY <1>1 DEF Kept
<1> HIDE DEF k
<1>3. Begun("reset", k) /\ Reset("reset", k, opt) /\ Freed("reset", k)
  BY <1>1, <1>2 DEF PCs, NativeCalls, Begun, Reset, Freed, ListingCalls, CommandCalls
<1>4. Noticed("reset", k)
  BY <1>1 DEF Noticed
<1>5. Restored("reset", k, out) /\ Told(k) /\ Listed("reset", k, opt, db)
  BY <1>1 DEF Restored, Told, Listed
<1> QED BY <1>1, <1>3, <1>4, <1>5 DEF Known, k

LEMMA SetOptionStep ==
  ASSUME Inv, NEW t \in Threads, SetOption(t)
  PROVE  Inv'
<1> DEFINE o == Head(job[t].todo)
           j == [job[t] EXCEPT !.todo = Tail(@)]
<1>1. pc[t] = "set" /\ UNCHANGED output
  BY DEF SetOption
<1>2. /\ job[t] \in JobRecords /\ Known("set", job[t], option, output, db)
      /\ option \in Selection /\ output \in {"terminal", "file"}
      /\ text \in FailedCalls \cup {None}
  BY <1>1, HolderKnows
<1>3. /\ job[t].todo # <<>> /\ job[t].call = "listing" /\ job[t].error = None
      /\ job[t].resetFailed = <<>> /\ job[t].cursor = None /\ job[t].results = {}
      /\ \A p \in Options : In(job[t].todo, p) \/ option[p] = Setting(job[t].filter, p)
  BY <1>2 DEF Known, PCs, NativeCalls, Begun, Listed, ListingCalls
<1>4. job[t].first = None
  BY <1>2, <1>3 DEF Known, Noticed
<1>5. /\ o \in Options /\ Tail(job[t].todo) \in Seq(Options)
      /\ \A p \in Options : In(job[t].todo, p) => p = o \/ In(Tail(job[t].todo), p)
      /\ job[t].todo \in Seq(Options) /\ job[t].filter \in FilterRecords
  <2>1. job[t].todo \in Seq(Options) /\ job[t].filter \in FilterRecords
    BY <1>2 DEF JobRecords
  <2> QED BY <2>1, <1>3, HeadAndTail
<1>6. /\ j \in JobRecords /\ j.todo = Tail(job[t].todo) /\ Kept(job[t], j)
      /\ j.error = None /\ j.first = None
  BY <1>2, <1>3, <1>4, <1>5 DEF JobRecords, Kept
<1>7. /\ j.call = "listing" /\ j.resetFailed = <<>> /\ j.cursor = None /\ j.results = {}
      /\ j.filter = job[t].filter
  BY <1>3, <1>6 DEF Kept
<1>8. /\ {"init", "set", "reset"} \subseteq PCs \ {"idle"} /\ "set" \in FailedCalls
  BY DEF PCs, NativeCalls, ListingCalls, CommandCalls, FailedCalls
<1>9. ASSUME option' = [option EXCEPT ![o] = Setting(job[t].filter, o)],
             Succeeds(t, IF j.todo = <<>> THEN "init" ELSE "set", j)
      PROVE  Inv'
  <2> DEFINE w == IF j.todo = <<>> THEN "init" ELSE "set"
  <2>1. option' \in Selection
    BY <1>2, <1>5, <1>9, SettingIsSelection, SelectionKept
  <2>2. \A p \in Options : In(j.todo, p) \/ option'[p] = Setting(j.filter, p)
    BY <1>2, <1>3, <1>5, <1>6, <1>7, <1>9 DEF Selection
  <2>3. j.todo = <<>> => \A p \in Options : ~ In(j.todo, p)
    BY DEF In
  <2> HIDE DEF j, o
  <2>4. Listed(w, j, option', db)
    BY <1>7, <2>2, <2>3 DEF Listed
  <2>5. /\ Begun(w, j) /\ Reset(w, j, option') /\ Freed(w, j) /\ Noticed(w, j)
        /\ Restored(w, j, output) /\ Told(j)
    BY <1>6, <1>7 DEF PCs, NativeCalls, Begun, Reset, Freed, Noticed, Restored, Told, ListingCalls, CommandCalls
  <2>6. Known(w, j, option', output', db)
    BY <1>1, <2>4, <2>5 DEF Known
  <2>7. Continue(t, w, j) /\ text' = text
    BY <1>9 DEF Succeeds
  <2> QED BY <1>1, <1>2, <1>6, <1>8, <2>1, <2>6, <2>7, Continues
<1>10. ASSUME NEW words \in Unfinished(job[t].filter, o), option' = [option EXCEPT ![o] = words],
              Fails(t, "reset", Cleaning(Failing(j, "set")), "set")
       PROVE  Inv'
  <2> DEFINE k == Failing(j, "set")
  <2>1. option' \in Selection
    BY <1>2, <1>5, <1>10, UnfinishedIsSelection, SelectionKept
  <2> HIDE DEF j, o
  <2>2. /\ k \in JobRecords /\ k.error # None /\ k.error.by = "set" /\ k.error.text = "set"
        /\ k.first = "set" /\ "set" # None /\ Kept(j, k)
    BY <1>6, <1>8, FailingFields, NoneDistinct
  <2>3. k.call = "listing" /\ k.resetFailed = <<>> /\ k.cursor = None
    BY <1>7, <2>2 DEF Kept
  <2>4. Told(k)
    BY <2>2 DEF Told
  <2> HIDE DEF k
  <2>5. Cleaning(k) \in JobRecords /\ Known("reset", Cleaning(k), option', output', db)
    BY <1>1, <1>2, <2>1, <2>2, <2>3, <2>4, ToReset
  <2>6. Continue(t, "reset", Cleaning(k)) /\ text' = "set"
    BY <1>10 DEF Fails, k
  <2> QED BY <1>1, <1>2, <1>8, <2>1, <2>5, <2>6, Continues
<1> QED BY <1>9, <1>10 DEF SetOption

LEMMA StepNames ==
  /\ {"set", "init", "next", "query", "free", "reset", "redirect", "payload", "restore",
      "output", "end"} \subseteq PCs \ {"idle"}
  /\ {"set", "init", "next", "query", "free", "redirect", "payload", "restore"}
       \cup Options \subseteq FailedCalls
BY DEF PCs, NativeCalls, ListingCalls, CommandCalls, FailedCalls

\* A step of a listing that leaves options, output and text.
LEMMA QuietStep ==
  ASSUME Inv, NEW t \in Threads, pc[t] # "idle", NEW w \in PCs \ {"idle"},
         NEW j \in JobRecords, Succeeds(t, w, j), UNCHANGED <<option, output>>,
         Known(w, j, option, output, db)
  PROVE  Inv'
BY HolderKnows, Continues DEF Succeeds

\* The same with a failed native call.
LEMMA FailingStep ==
  ASSUME Inv, NEW t \in Threads, pc[t] # "idle", NEW w \in PCs \ {"idle"},
         NEW j \in JobRecords, NEW by \in FailedCalls, Fails(t, w, j, by),
         UNCHANGED <<option, output>>, Known(w, j, option, output, db)
  PROVE  Inv'
BY HolderKnows, Continues DEF Fails

LEMMA InitWildcardStep ==
  ASSUME Inv, NEW t \in Threads, InitWildcard(t)
  PROVE  Inv'
<1>1. pc[t] = "init" /\ UNCHANGED <<option, output>>
  BY DEF InitWildcard
<1>2. /\ job[t] \in JobRecords /\ Known("init", job[t], option, output, db)
      /\ option \in Selection /\ output \in {"terminal", "file"} /\ db \subseteq Catalog
  BY <1>1, HolderKnows
<1>3. /\ job[t].call = "listing" /\ job[t].error = None /\ job[t].resetFailed = <<>>
      /\ job[t].cursor = None /\ job[t].results = {}
      /\ \A o \in Options : option[o] = Setting(job[t].filter, o)
  BY <1>2 DEF Known, PCs, NativeCalls, Begun, Listed, ListingCalls
<1>4. job[t].first = None
  BY <1>2, <1>3 DEF Known, Noticed
<1>5. ASSUME NEW strict \in BOOLEAN,
             Succeeds(t, "next", [job[t] EXCEPT !.cursor = {x \in db : Admits(x, strict)}])
      PROVE  Inv'
  <2> DEFINE found == {x \in db : Admits(x, strict)}
             j == [job[t] EXCEPT !.cursor = found]
  <2>1. found \in SUBSET Catalog
    BY <1>2
  <2>2. \A x \in db : Admits(x, strict) /\ Dating(job[t].filter, x) <=> Wanted(job[t].filter, x)
    <3>1. job[t].filter \in FilterRecords
      BY <1>2 DEF JobRecords
    <3> QED BY <1>2, <1>3, <3>1, NarrowingIsExact
  <2>3. /\ \A x \in found : Dating(job[t].filter, x) => Wanted(job[t].filter, x)
        /\ \A x \in db : Wanted(job[t].filter, x) => x \in found
    BY <2>2
  <2> HIDE DEF found
  <2>4. /\ j \in JobRecords /\ j.cursor = found /\ j.filter = job[t].filter
        /\ j.call = "listing" /\ j.error = None /\ j.first = None /\ j.resetFailed = <<>>
        /\ j.results = {}
    BY <1>2, <1>3, <1>4, <2>1 DEF JobRecords
  <2>5. found \subseteq db
    BY DEF found
  <2> HIDE DEF j
  <2>6. Listed("next", j, option, db)
    BY <2>3, <2>4, <2>5 DEF Listed
  <2>7. Known("next", j, option, output, db)
    BY <2>4, <2>6 DEF Known, PCs, NativeCalls, Begun, Reset, Freed, Noticed, Restored, Told, ListingCalls,
                      CommandCalls
  <2>8. Succeeds(t, "next", j)
    BY <1>5 DEF j, found
  <2> QED BY <1>1, <2>4, <2>7, <2>8, StepNames, QuietStep
<1>6. ASSUME Fails(t, "reset", Cleaning(Failing(job[t], "init")), "init")
      PROVE  Inv'
  <2> DEFINE k == Failing(job[t], "init")
  <2>1. /\ k \in JobRecords /\ k.error # None /\ k.error.by = "init" /\ k.error.text = "init"
        /\ k.first = "init" /\ "init" # None /\ Kept(job[t], k)
    BY <1>2, <1>4, StepNames, FailingFields, NoneDistinct
  <2>2. k.call = "listing" /\ k.resetFailed = <<>> /\ k.cursor = None
    BY <1>3, <2>1 DEF Kept
  <2>3. Told(k)
    BY <2>1 DEF Told
  <2> HIDE DEF k
  <2>4. Cleaning(k) \in JobRecords /\ Known("reset", Cleaning(k), option, output, db)
    BY <1>2, <2>1, <2>2, <2>3, ToReset
  <2>5. Fails(t, "reset", Cleaning(k), "init")
    BY <1>6 DEF k
  <2> QED BY <1>1, <2>4, <2>5, StepNames, FailingStep
<1> QED BY <1>5, <1>6 DEF InitWildcard

\* What is known while the cursor is open.
LEMMA Walking ==
  ASSUME Inv, NEW t \in Threads, pc[t] \in {"next", "query"}
  PROVE  /\ job[t] \in JobRecords /\ job[t].call = "listing" /\ job[t].error = None
         /\ job[t].first = None /\ job[t].resetFailed = <<>>
         /\ job[t].cursor \subseteq db /\ job[t].results \subseteq db /\ db \subseteq Catalog
         /\ \A x \in job[t].cursor : Dating(job[t].filter, x) => Wanted(job[t].filter, x)
         /\ \A x \in job[t].results : Wanted(job[t].filter, x)
         /\ \A x \in db : Wanted(job[t].filter, x) => x \in job[t].cursor \cup job[t].results
         /\ pc[t] = "query" => job[t].entry \in job[t].cursor
<1>1. /\ job[t] \in JobRecords /\ Known(pc[t], job[t], option, output, db)
      /\ db \subseteq Catalog
  BY HolderKnows
<1>2. job[t].call = "listing" /\ job[t].error = None /\ job[t].resetFailed = <<>>
  BY <1>1 DEF Known, PCs, NativeCalls, Begun, ListingCalls
<1>3. job[t].first = None
  BY <1>1, <1>2 DEF Known, Noticed
<1> QED BY <1>1, <1>2, <1>3 DEF Known, Listed

\* The listing stops with an error and frees its cursor.
LEMMA ToFree ==
  ASSUME NEW j \in JobRecords, j.call = "listing", j.error # None, j.resetFailed = <<>>,
         j.error.by \in {"interrupt", "truncated"} \/ (j.first # None /\ j.error.by = j.first),
         Told(j)
  PROVE  Known("free", j, option, output, db)
BY DEF Known, PCs, NativeCalls, Begun, Reset, Freed, Noticed, Restored, Listed, ListingCalls, CommandCalls

\* An entry is collected, or left out by its metadata.
LEMMA CollectedStep ==
  ASSUME Inv, NEW t \in Threads, pc[t] \in {"next", "query"}, NEW x \in job[t].cursor,
         UNCHANGED <<option, output>>, Succeeds(t, "next", Collected(job[t], x))
  PROVE  Inv'
<1> DEFINE j == Collected(job[t], x)
<1>1. /\ job[t] \in JobRecords /\ job[t].call = "listing" /\ job[t].error = None
      /\ job[t].first = None /\ job[t].resetFailed = <<>>
      /\ job[t].cursor \subseteq db /\ job[t].results \subseteq db /\ db \subseteq Catalog
      /\ \A y \in job[t].cursor : Dating(job[t].filter, y) => Wanted(job[t].filter, y)
      /\ \A y \in job[t].results : Wanted(job[t].filter, y)
      /\ \A y \in db : Wanted(job[t].filter, y) => y \in job[t].cursor \cup job[t].results
  BY Walking
<1>2. /\ j \in JobRecords /\ j.call = "listing" /\ j.error = None /\ j.first = None
      /\ j.resetFailed = <<>> /\ j.filter = job[t].filter
      /\ j.cursor = job[t].cursor \ {x}
      /\ j.results = IF Dating(job[t].filter, x) THEN job[t].results \cup {x}
                     ELSE job[t].results
  BY <1>1 DEF JobRecords, Collected, Dating
<1> HIDE DEF j
<1>3. ~ Dating(job[t].filter, x) => ~ Wanted(job[t].filter, x)
  BY DEF Dating, Wanted
<1>4. Listed("next", j, option, db)
  <2>1. j.cursor \subseteq db /\ j.results \subseteq db
    BY <1>1, <1>2
  <2>2. /\ \A y \in j.cursor : Dating(j.filter, y) => Wanted(j.filter, y)
        /\ \A y \in j.results : Wanted(j.filter, y)
    BY <1>1, <1>2
  <2>3. \A y \in db : Wanted(j.filter, y) => y \in j.cursor \cup j.results
    BY <1>1, <1>2, <1>3
  <2> QED BY <2>1, <2>2, <2>3 DEF Listed
<1>5. Known("next", j, option, output, db)
  BY <1>2, <1>4 DEF Known, PCs, NativeCalls, Begun, Reset, Freed, Noticed, Restored, Told, ListingCalls,
                    CommandCalls
<1> QED BY <1>2, <1>5, StepNames, QuietStep DEF j

LEMMA NextEntryStep ==
  ASSUME Inv, NEW t \in Threads, NextEntry(t)
  PROVE  Inv'
<1>1. pc[t] = "next" /\ UNCHANGED <<option, output>>
  BY DEF NextEntry
<1>2. PICK x \in job[t].cursor :
        IF x.long THEN Succeeds(t, "free", Raising(job[t], "truncated"))
        ELSE IF x.class = "SCALAR" THEN Succeeds(t, "query", [job[t] EXCEPT !.entry = x])
        ELSE Succeeds(t, "next", Collected(job[t], x))
  BY DEF NextEntry
<1>3. job[t] \in JobRecords /\ job[t].call = "listing" /\ job[t].resetFailed = <<>>
  BY <1>1, Walking
<1>4. CASE Succeeds(t, "free", Raising(job[t], "truncated"))
  <2> DEFINE k == Raising(job[t], "truncated")
  <2>1. /\ k \in JobRecords /\ k.error # None /\ k.error.by = "truncated"
        /\ k.error.text = None /\ Kept(job[t], k)
    BY <1>3, RaisingFields DEF OtherErrors
  <2>2. k.call = "listing" /\ k.resetFailed = <<>> /\ Told(k)
    BY <1>3, <2>1 DEF Kept, Told
  <2> HIDE DEF k
  <2>3. Known("free", k, option, output, db)
    BY <2>1, <2>2, ToFree
  <2> QED BY <1>1, <1>4, <2>1, <2>3, StepNames, QuietStep DEF k
<1>5. CASE Succeeds(t, "query", [job[t] EXCEPT !.entry = x])
  <2> DEFINE j == [job[t] EXCEPT !.entry = x]
  <2>1. /\ job[t].error = None /\ job[t].first = None
        /\ job[t].cursor \subseteq db /\ job[t].results \subseteq db /\ db \subseteq Catalog
        /\ \A y \in job[t].cursor : Dating(job[t].filter, y) => Wanted(job[t].filter, y)
        /\ \A y \in job[t].results : Wanted(job[t].filter, y)
        /\ \A y \in db : Wanted(job[t].filter, y) => y \in job[t].cursor \cup job[t].results
    BY <1>1, Walking
  <2>2. /\ j \in JobRecords /\ j.call = "listing" /\ j.error = None /\ j.first = None
        /\ j.resetFailed = <<>> /\ j.filter = job[t].filter /\ j.cursor = job[t].cursor
        /\ j.results = job[t].results /\ j.entry = x
    BY <1>3, <2>1 DEF JobRecords
  <2> HIDE DEF j
  <2>3. Listed("query", j, option, db)
    BY <2>1, <2>2 DEF Listed
  <2>4. Known("query", j, option, output, db)
    BY <2>2, <2>3 DEF Known, PCs, NativeCalls, Begun, Reset, Freed, Noticed, Restored, Told, ListingCalls,
                      CommandCalls
  <2> QED BY <1>1, <1>5, <2>2, <2>4, StepNames, QuietStep DEF j
<1>6. CASE Succeeds(t, "next", Collected(job[t], x))
  BY <1>1, <1>6, CollectedStep
<1> QED BY <1>2, <1>4, <1>5, <1>6

LEMMA NextEndsStep ==
  ASSUME Inv, NEW t \in Threads, NextEnds(t)
  PROVE  Inv'
<1>1. /\ pc[t] = "next" /\ job[t].cursor = {} /\ UNCHANGED <<option, output>>
      /\ Succeeds(t, "free", job[t])
  BY DEF NextEnds
<1>2. /\ job[t] \in JobRecords /\ job[t].call = "listing" /\ job[t].error = None
      /\ job[t].first = None /\ job[t].resetFailed = <<>>
      /\ job[t].results = {x \in db : Wanted(job[t].filter, x)}
  BY <1>1, Walking
<1>3. Known("free", job[t], option, output, db)
  BY <1>2 DEF Known, PCs, NativeCalls, Begun, Reset, Freed, Noticed, Restored, Told, Listed, ListingCalls,
              CommandCalls
<1> QED BY <1>1, <1>2, <1>3, StepNames, QuietStep

\* A failed call of the walk leads to the clean-up.
LEMMA WalkFails ==
  ASSUME Inv, NEW t \in Threads, pc[t] \in {"next", "query"}, NEW by \in {"next", "query"},
         UNCHANGED <<option, output>>, Fails(t, "free", Failing(job[t], by), by)
  PROVE  Inv'
<1> DEFINE k == Failing(job[t], by)
<1>1. /\ job[t] \in JobRecords /\ job[t].call = "listing" /\ job[t].first = None
      /\ job[t].resetFailed = <<>>
  BY Walking
<1>2. /\ k \in JobRecords /\ k.error # None /\ k.error.by = by /\ k.error.text = by
      /\ k.first = by /\ by # None /\ Kept(job[t], k)
  BY <1>1, StepNames, FailingFields, NoneDistinct
<1>3. k.call = "listing" /\ k.resetFailed = <<>> /\ Told(k)
  BY <1>1, <1>2 DEF Kept, Told
<1> HIDE DEF k
<1>4. Known("free", k, option, output, db)
  BY <1>2, <1>3, ToFree
<1> QED BY <1>2, <1>4, StepNames, FailingStep DEF k

LEMMA QueryScalarStep ==
  ASSUME Inv, NEW t \in Threads, QueryScalar(t)
  PROVE  Inv'
<1>1. pc[t] = "query" /\ UNCHANGED <<option, output>>
  BY DEF QueryScalar
<1>2. job[t].entry \in job[t].cursor
  BY <1>1, Walking
<1>3. CASE Succeeds(t, "next", Collected(job[t], job[t].entry))
  BY <1>1, <1>2, <1>3, CollectedStep
<1>4. CASE Fails(t, "free", Failing(job[t], "query"), "query")
  BY <1>1, <1>4, WalkFails
<1> QED BY <1>3, <1>4 DEF QueryScalar

LEMMA NextFailsStep ==
  ASSUME Inv, NEW t \in Threads, NextFails(t)
  PROVE  Inv'
BY WalkFails DEF NextFails

\* The clean-up of a call that has an error or all its results.
LEMMA FreeToReset ==
  ASSUME Inv, NEW t \in Threads, pc[t] = "free", NEW j \in JobRecords,
         j.call = "listing", j.resetFailed = <<>>, j.filter = job[t].filter,
         j.results = job[t].results,
         j.cursor = None \/ j.freeFailed \/ j.struck \cap {"init", "free"} # {},
         j.error = None => j.first = None /\ job[t].error = None,
         j.error # None => \/ j.error.by \in {"interrupt", "truncated"}
                           \/ j.first # None /\ j.error.by = j.first,
         Told(j)
  PROVE  Cleaning(j) \in JobRecords /\ Known("reset", Cleaning(j), option, output, db)
<1> DEFINE k == Cleaning(j)
<1>1. /\ k \in JobRecords /\ k.error = j.error /\ k.first = j.first
      /\ \A o \in Options : In(k.todo, o)
      /\ Kept(j, k)
  BY CleaningFields
<1>2. /\ k.call = "listing" /\ k.resetFailed = <<>> /\ k.cursor = j.cursor
      /\ k.freeFailed = j.freeFailed /\ k.struck = j.struck /\ k.filter = j.filter
      /\ k.results = j.results
  BY <1>1 DEF Kept
<1> HIDE DEF k
<1>3. job[t].error = None => job[t].results = {x \in db : Wanted(job[t].filter, x)}
  BY HolderKnows DEF Known, Listed
<1>4. Begun("reset", k) /\ Reset("reset", k, option) /\ Freed("reset", k) /\ Noticed("reset", k)
  BY <1>1, <1>2 DEF PCs, NativeCalls, Begun, Reset, Freed, Noticed, ListingCalls, CommandCalls
<1>5. Restored("reset", k, output) /\ Told(k) /\ Listed("reset", k, option, db)
  BY <1>1, <1>2, <1>3 DEF Restored, Told, Listed
<1> QED BY <1>1, <1>4, <1>5 DEF Known, k

LEMMA FreeWildcardStep ==
  ASSUME Inv, NEW t \in Threads, FreeWildcard(t)
  PROVE  Inv'
<1>1. pc[t] = "free" /\ UNCHANGED <<option, output>>
  BY DEF FreeWildcard
<1>2. job[t] \in JobRecords /\ Known("free", job[t], option, output, db)
  BY <1>1, HolderKnows
<1>3. /\ job[t].call = "listing" /\ job[t].resetFailed = <<>> /\ Told(job[t])
      /\ job[t].error = None => job[t].first = None
      /\ job[t].error # None => \/ job[t].error.by \in {"interrupt", "truncated"}
                                \/ job[t].first # None /\ job[t].error.by = job[t].first
  BY <1>2 DEF Known, PCs, NativeCalls, Begun, Noticed, ListingCalls
<1>4. CASE Succeeds(t, "reset", Cleaning([job[t] EXCEPT !.cursor = None]))
  <2> DEFINE j == [job[t] EXCEPT !.cursor = None]
  <2>1. /\ j \in JobRecords /\ j.call = "listing" /\ j.resetFailed = <<>> /\ j.cursor = None
        /\ j.filter = job[t].filter /\ j.results = job[t].results
        /\ j.error = job[t].error /\ j.first = job[t].first
    BY <1>2, <1>3 DEF JobRecords
  <2> HIDE DEF j
  <2>2. Told(j)
    BY <1>3, <2>1 DEF Told
  <2>3. Cleaning(j) \in JobRecords /\ Known("reset", Cleaning(j), option, output, db)
    BY <1>1, <1>3, <2>1, <2>2, FreeToReset
  <2> QED BY <1>1, <1>4, <2>3, StepNames, QuietStep DEF j
<1>5. ASSUME Fails(t, "reset",
                   Cleaning([IF job[t].error = None THEN Failing(job[t], "free")
                             ELSE Noting(job[t], "free") EXCEPT !.freeFailed = TRUE]), "free")
      PROVE  Inv'
  <2> DEFINE k == IF job[t].error = None THEN Failing(job[t], "free") ELSE Noting(job[t], "free")
             j == [k EXCEPT !.freeFailed = TRUE]
  <2>1. /\ k \in JobRecords /\ k.error # None /\ Kept(job[t], k) /\ Told(k)
        /\ k.error.by \in {"interrupt", "truncated"} \/ (k.first # None /\ k.error.by = k.first)
    <3>1. CASE job[t].error = None
      BY <1>2, <1>3, <3>1, StepNames, FailingFields, NoneDistinct DEF Told
    <3>2. CASE job[t].error # None
      BY <1>2, <1>3, <3>2, StepNames, NotingFields DEF Told
    <3> QED BY <3>1, <3>2
  <2> HIDE DEF k
  <2>2. /\ j \in JobRecords /\ j.error = k.error /\ j.first = k.first /\ j.freeFailed
        /\ j.call = k.call /\ j.resetFailed = k.resetFailed /\ j.filter = k.filter
        /\ j.results = k.results
    BY <2>1 DEF JobRecords
  <2>3. /\ k.call = "listing" /\ k.resetFailed = <<>> /\ k.filter = job[t].filter
        /\ k.results = job[t].results
    BY <1>3, <2>1 DEF Kept
  <2> HIDE DEF j
  <2>4. Told(j)
    BY <2>1, <2>2 DEF Told
  <2>5. Cleaning(j) \in JobRecords /\ Known("reset", Cleaning(j), option, output, db)
    BY <1>1, <2>1, <2>2, <2>3, <2>4, FreeToReset
  <2>6. Fails(t, "reset", Cleaning(j), "free")
    BY <1>5 DEF j, k
  <2> QED BY <1>1, <2>5, <2>6, StepNames, FailingStep
<1> QED BY <1>4, <1>5 DEF FreeWildcard

\* What is known during the clean-up.
LEMMA Resetting ==
  ASSUME Inv, NEW t \in Threads, pc[t] = "reset"
  PROVE  /\ job[t] \in JobRecords /\ job[t].call = "listing"
         /\ job[t].todo \in Seq(Options) /\ job[t].resetFailed \in Seq(Options)
         /\ \A o \in Options :
              option[o] # Words[o] => In(job[t].todo, o) \/ In(job[t].resetFailed, o)
         /\ Freed("reset", job[t]) /\ Noticed("reset", job[t]) /\ Told(job[t])
         /\ job[t].error = None => job[t].results = {x \in db : Wanted(job[t].filter, x)}
<1>1. job[t] \in JobRecords /\ Known("reset", job[t], option, output, db)
  BY HolderKnows
<1> QED BY <1>1 DEF Known, PCs, NativeCalls, Begun, Reset, Listed, JobRecords, ListingCalls

LEMMA AppendIn ==
  ASSUME NEW s \in Seq(Options), NEW o \in Options
  PROVE  /\ Append(s, o) \in Seq(Options) /\ Append(s, o) # <<>>
         /\ In(Append(s, o), o)
         /\ \A p \in Options : In(s, p) => In(Append(s, o), p)
         /\ Head(Append(s, o)) = IF s = <<>> THEN o ELSE Head(s)
<1>1. /\ DOMAIN s = 1 .. Len(s) /\ Len(s) \in Nat
      /\ DOMAIN Append(s, o) = 1 .. Len(s) + 1
      /\ Append(s, o)[Len(s) + 1] = o /\ \A i \in 1 .. Len(s) : Append(s, o)[i] = s[i]
  OBVIOUS
<1>2. In(Append(s, o), o) /\ \A p \in Options : In(s, p) => In(Append(s, o), p)
  BY <1>1 DEF In
<1>3. s = <<>> <=> Len(s) = 0
  OBVIOUS
<1> QED BY <1>1, <1>2, <1>3

LEMMA ResetOptionStep ==
  ASSUME Inv, NEW t \in Threads, ResetOption(t)
  PROVE  Inv'
<1> DEFINE o == Head(job[t].todo)
           j == [job[t] EXCEPT !.todo = Tail(@)]
<1>1. pc[t] = "reset" /\ job[t].todo # <<>> /\ UNCHANGED output
  BY DEF ResetOption
<1>2. /\ job[t] \in JobRecords /\ job[t].call = "listing"
      /\ job[t].todo \in Seq(Options) /\ job[t].resetFailed \in Seq(Options)
      /\ \A p \in Options :
           option[p] # Words[p] => In(job[t].todo, p) \/ In(job[t].resetFailed, p)
      /\ Freed("reset", job[t]) /\ Noticed("reset", job[t]) /\ Told(job[t])
      /\ job[t].error = None => job[t].results = {x \in db : Wanted(job[t].filter, x)}
  BY <1>1, Resetting
<1>3. /\ o \in Options /\ Tail(job[t].todo) \in Seq(Options)
      /\ \A p \in Options : In(job[t].todo, p) => p = o \/ In(Tail(job[t].todo), p)
  BY <1>1, <1>2, HeadAndTail
<1>4. /\ j \in JobRecords /\ j.todo = Tail(job[t].todo) /\ Kept(job[t], j)
      /\ j.error = job[t].error /\ j.first = job[t].first
  BY <1>2, <1>3 DEF JobRecords, Kept
<1>5. /\ j.call = "listing" /\ j.resetFailed = job[t].resetFailed /\ j.filter = job[t].filter
      /\ j.results = job[t].results /\ j.cursor = job[t].cursor /\ j.struck = job[t].struck
      /\ j.freeFailed = job[t].freeFailed
  BY <1>2, <1>4 DEF Kept
<1>6. /\ option \in Selection /\ output \in {"terminal", "file"}
      /\ text \in FailedCalls \cup {None}
  BY <1>1, HolderKnows
<1> HIDE DEF o, j
<1>7. ASSUME option' = [option EXCEPT ![o] = Words[o]], Succeeds(t, "reset", j)
      PROVE  Inv'
  <2>1. option' \in Selection
    BY <1>3, <1>6, <1>7, SelectionKept
  <2>2. \A p \in Options : option'[p] # Words[p] => In(j.todo, p) \/ In(j.resetFailed, p)
    BY <1>2, <1>3, <1>4, <1>5, <1>6, <1>7 DEF Selection
  <2>3. Known("reset", j, option', output, db)
    BY <1>2, <1>4, <1>5, <2>2 DEF Known, PCs, NativeCalls, Begun, Reset, Freed, Noticed, Restored, Told, Listed,
                                  ListingCalls, CommandCalls
  <2> QED BY <1>1, <1>4, <1>6, <1>7, <2>1, <2>3, StepNames, Continues DEF Succeeds
<1>8. ASSUME UNCHANGED option,
             Fails(t, "reset", [Noting(j, o) EXCEPT !.resetFailed = Append(@, o)], o)
      PROVE  Inv'
  <2> DEFINE n == Noting(j, o)
             k == [n EXCEPT !.resetFailed = Append(@, o)]
  <2>1. /\ n \in JobRecords /\ n.error = j.error
        /\ n.first = IF j.first = None THEN o ELSE j.first
        /\ n.todo = j.todo /\ Kept(j, n)
    BY <1>3, <1>4, StepNames, NotingFields
  <2>2. /\ n.call = "listing" /\ n.resetFailed = job[t].resetFailed
        /\ n.filter = job[t].filter /\ n.results = job[t].results
        /\ n.cursor = job[t].cursor /\ n.struck = job[t].struck
        /\ n.freeFailed = job[t].freeFailed
    BY <1>5, <2>1 DEF Kept
  <2> HIDE DEF n
  <2>3. /\ Append(job[t].resetFailed, o) \in Seq(Options)
        /\ Append(job[t].resetFailed, o) # <<>>
        /\ In(Append(job[t].resetFailed, o), o)
        /\ \A p \in Options :
             In(job[t].resetFailed, p) => In(Append(job[t].resetFailed, o), p)
        /\ Head(Append(job[t].resetFailed, o))
             = IF job[t].resetFailed = <<>> THEN o ELSE Head(job[t].resetFailed)
    BY <1>2, <1>3, AppendIn
  <2>4. /\ k \in JobRecords /\ k.resetFailed = Append(job[t].resetFailed, o)
        /\ k.error = job[t].error /\ k.first = n.first /\ k.todo = j.todo
        /\ k.call = "listing" /\ k.filter = job[t].filter /\ k.results = job[t].results
        /\ k.cursor = job[t].cursor /\ k.struck = job[t].struck
        /\ k.freeFailed = job[t].freeFailed
    BY <1>4, <2>1, <2>2, <2>3 DEF JobRecords
  <2> HIDE DEF k
  <2>5. \A p \in Options : option[p] # Words[p] => In(k.todo, p) \/ In(k.resetFailed, p)
    BY <1>2, <1>3, <1>4, <2>3, <2>4
  <2>6. Noticed("reset", k)
    <3>1. o # None
      BY <1>3, StepNames, NoneDistinct
    <3>2. k.first = IF job[t].first = None THEN o ELSE job[t].first
      BY <1>4, <2>1, <2>4
    <3>3. k.resetFailed # <<>> /\ k.error = job[t].error
      BY <2>3, <2>4
    <3>4. CASE job[t].error # None
      BY <1>2, <3>2, <3>3, <3>4 DEF Noticed
    <3>5. CASE job[t].error = None
      <4>1. k.first = Head(k.resetFailed)
        <5>1. CASE job[t].resetFailed = <<>>
          BY <1>2, <2>3, <2>4, <3>2, <3>5, <5>1 DEF Noticed
        <5>2. CASE job[t].resetFailed # <<>>
          <6>1. job[t].first = Head(job[t].resetFailed)
            BY <1>2, <3>5, <5>2 DEF Noticed
          <6>2. Head(job[t].resetFailed) # None
            BY <1>2, <5>2, StepNames, NoneDistinct
          <6> QED BY <2>3, <2>4, <3>2, <5>2, <6>1, <6>2
        <5> QED BY <5>1, <5>2
      <4> QED BY <3>3, <3>5, <4>1 DEF Noticed
    <3> QED BY <3>4, <3>5
  <2>7. Known("reset", k, option, output, db)
    BY <1>2, <2>4, <2>5, <2>6 DEF Known, PCs, NativeCalls, Begun, Reset, Freed, Restored, Told, Listed,
                                  ListingCalls, CommandCalls
  <2>8. Fails(t, "reset", k, o)
    BY <1>8 DEF k, n
  <2> QED BY <1>1, <1>3, <1>8, <2>4, <2>7, <2>8, StepNames, FailingStep
<1> QED BY <1>7, <1>8 DEF ResetOption, o, j

LEMMA ConcludeStep ==
  ASSUME Inv, NEW t \in Threads, Conclude(t)
  PROVE  Inv'
<1> DEFINE j == job[t]
           k == [j EXCEPT !.error = [by |-> Head(j.resetFailed), text |-> text]]
<1>1. pc[t] = "reset" /\ j.todo = <<>> /\ UNCHANGED <<option, output>>
  BY DEF Conclude
<1>2. /\ j \in JobRecords /\ j.call = "listing" /\ j.resetFailed \in Seq(Options)
      /\ \A o \in Options : option[o] # Words[o] => In(j.todo, o) \/ In(j.resetFailed, o)
      /\ Freed("reset", j) /\ Noticed("reset", j) /\ Told(j)
      /\ j.error = None => j.results = {x \in db : Wanted(j.filter, x)}
  BY <1>1, Resetting
<1>3. \A o \in Options : option[o] # Words[o] => In(j.resetFailed, o)
  BY <1>1, <1>2 DEF In
<1>4. ASSUME j.error = None, j.resetFailed # <<>>, Succeeds(t, "end", k)
      PROVE  Inv'
  <2>1. Head(j.resetFailed) \in Options
    BY <1>2, <1>4
  <2>2. text \in FailedCalls \cup {None}
    BY <1>1, HolderKnows
  <2>3. /\ [by |-> Head(j.resetFailed), text |-> text] \in ErrorRecords
        /\ [by |-> Head(j.resetFailed), text |-> text] # None
    BY <2>1, <2>2, StepNames, ErrorNotNone
  <2>4. /\ k \in JobRecords /\ k.error # None /\ k.error.by = Head(j.resetFailed)
        /\ k.first = j.first /\ k.call = "listing" /\ k.resetFailed = j.resetFailed
        /\ k.cursor = j.cursor /\ k.struck = j.struck /\ k.freeFailed = j.freeFailed
    BY <1>2, <2>3 DEF JobRecords
  <2>5. j.first = Head(j.resetFailed)
    BY <1>2, <1>4 DEF Noticed
  <2> HIDE DEF k, j
  <2>6. Begun("end", k) /\ Reset("end", k, option) /\ Freed("end", k) /\ Noticed("end", k)
    BY <1>2, <1>3, <2>4, <2>5 DEF PCs, NativeCalls, Begun, Reset, Freed, Noticed, ListingCalls, CommandCalls
  <2>7. Restored("end", k, output) /\ Told(k) /\ Listed("end", k, option, db)
    BY <2>1, <2>4 DEF Restored, Told, Listed
  <2> QED BY <1>1, <1>4, <2>4, <2>6, <2>7, StepNames, QuietStep DEF Known
<1>5. ASSUME j.error # None \/ j.resetFailed = <<>>, Succeeds(t, "end", j)
      PROVE  Inv'
  <2> HIDE DEF j
  <2>1. Begun("end", j) /\ Reset("end", j, option) /\ Freed("end", j) /\ Noticed("end", j)
    BY <1>2, <1>3, <1>5 DEF PCs, NativeCalls, Begun, Reset, Freed, Noticed, ListingCalls, CommandCalls
  <2>2. Restored("end", j, output) /\ Listed("end", j, option, db)
    BY <1>2 DEF Restored, Listed
  <2> QED BY <1>1, <1>2, <1>5, <2>1, <2>2, StepNames, QuietStep DEF Known
<1> QED BY <1>4, <1>5 DEF Conclude

-----------------------------------------------------------------------------
(* fame *)

LEMMA CommandKnown ==
  ASSUME NEW w \in {"payload", "restore", "output", "end"}, NEW j \in JobRecords,
         j.call = "command", w = "payload" => j.error = None /\ j.first = None,
         j.error = None => j.first = None, j.resetFailed = <<>>,
         j.error # None /\ j.first # None =>
           j.error.by \in {j.first, "interrupt", "truncated", "output"},
         j.error # None /\ w # "end" =>
           j.error.by \in {"interrupt", "truncated"} \/ (j.first # None /\ j.error.by = j.first),
         Told(j), NEW opt \in Selection, NEW out \in {"terminal", "file"}, Restored(w, j, out)
  PROVE  Known(w, j, opt, out, db)
<1>1. Begun(w, j) /\ Reset(w, j, opt) /\ Freed(w, j) /\ Noticed(w, j)
  BY DEF Begun, Reset, Freed, Noticed, ListingCalls, CommandCalls
<1>2. Listed(w, j, opt, db)
  BY DEF Listed
<1> QED BY <1>1, <1>2 DEF Known

\* What is known during a command.
LEMMA Commanding ==
  ASSUME Inv, NEW t \in Threads, pc[t] \in CommandCalls \cup {"output"}
  PROVE  /\ job[t] \in JobRecords /\ job[t].call = "command" /\ job[t].resetFailed = <<>>
         /\ pc[t] \in {"redirect", "payload"} => job[t].error = None
         /\ pc[t] = "redirect" => ~ job[t].redirected
         /\ job[t].error = None => job[t].first = None
         /\ job[t].error # None => \/ job[t].error.by \in {"interrupt", "truncated"}
                                   \/ job[t].first # None /\ job[t].error.by = job[t].first
         /\ Restored(pc[t], job[t], output) /\ Told(job[t])
         /\ option \in Selection /\ output \in {"terminal", "file"}
         /\ text \in FailedCalls \cup {None}
         /\ pc[t] # "idle"
<1>1. pc[t] \in PCs \ {"idle", "reset", "end"}
  BY DEF PCs, NativeCalls, CommandCalls
<1>2. /\ job[t] \in JobRecords /\ Known(pc[t], job[t], option, output, db)
      /\ option \in Selection /\ output \in {"terminal", "file"}
      /\ text \in FailedCalls \cup {None}
  BY <1>1, HolderKnows
<1>3. Begun(pc[t], job[t]) /\ Noticed(pc[t], job[t])
  BY <1>2 DEF Known
<1>4. /\ job[t].call = "command" /\ job[t].resetFailed = <<>>
      /\ pc[t] \in {"redirect", "payload"} => job[t].error = None
      /\ pc[t] = "redirect" => ~ job[t].redirected
  BY <1>1, <1>3 DEF Begun
<1>5. /\ job[t].error = None => job[t].first = None
      /\ job[t].error # None => \/ job[t].error.by \in {"interrupt", "truncated"}
                                \/ job[t].first # None /\ job[t].error.by = job[t].first
  BY <1>1, <1>3 DEF Noticed
<1> QED BY <1>1, <1>2, <1>4, <1>5 DEF Known

LEMMA RedirectStep ==
  ASSUME Inv, NEW t \in Threads, Redirect(t)
  PROVE  Inv'
<1>1. pc[t] = "redirect" /\ UNCHANGED option
  BY DEF Redirect
<1>2. /\ job[t] \in JobRecords /\ job[t].call = "command" /\ job[t].resetFailed = <<>>
      /\ job[t].error = None /\ job[t].first = None /\ ~ job[t].redirected
      /\ option \in Selection /\ output \in {"terminal", "file"}
      /\ text \in FailedCalls \cup {None}
  BY <1>1, Commanding DEF CommandCalls
<1>3. CASE output' = "file" /\ Succeeds(t, "payload", [job[t] EXCEPT !.redirected = TRUE])
  <2> DEFINE j == [job[t] EXCEPT !.redirected = TRUE]
  <2>1. /\ j \in JobRecords /\ j.call = "command" /\ j.resetFailed = <<>>
        /\ j.error = None /\ j.first = None
    BY <1>2 DEF JobRecords
  <2> HIDE DEF j
  <2>2. Told(j) /\ Restored("payload", j, output')
    BY <2>1 DEF Told, Restored
  <2>3. Known("payload", j, option', output', db)
    BY <1>1, <1>2, <1>3, <2>1, <2>2, CommandKnown
  <2> QED BY <1>1, <1>2, <1>3, <2>1, <2>3, StepNames, Continues DEF Succeeds, j
<1>4. CASE UNCHANGED output /\ Fails(t, "end", Failing(job[t], "redirect"), "redirect")
  <2> DEFINE j == Failing(job[t], "redirect")
  <2>1. /\ j \in JobRecords /\ j.error # None /\ j.error.by = "redirect"
        /\ j.error.text = "redirect" /\ j.first = "redirect" /\ Kept(job[t], j)
    BY <1>2, StepNames, FailingFields
  <2>2. j.call = "command" /\ j.resetFailed = <<>> /\ ~ j.redirected /\ Told(j)
    BY <1>2, <2>1 DEF Kept, Told
  <2> HIDE DEF j
  <2>3. Known("end", j, option, output, db)
    BY <1>2, <2>1, <2>2, CommandKnown DEF Restored
  <2> QED BY <1>1, <1>4, <2>1, <2>3, StepNames, FailingStep DEF j
<1>5. CASE UNCHANGED output /\ Succeeds(t, "end", Raising(job[t], "directory"))
  <2> DEFINE j == Raising(job[t], "directory")
  <2>1. /\ j \in JobRecords /\ j.error # None /\ j.error.by = "directory"
        /\ j.error.text = None /\ j.first = None /\ Kept(job[t], j)
    BY <1>2, RaisingFields DEF OtherErrors
  <2>2. j.call = "command" /\ j.resetFailed = <<>> /\ ~ j.redirected /\ Told(j)
    BY <1>2, <2>1 DEF Kept, Told
  <2> HIDE DEF j
  <2>3. Known("end", j, option, output, db)
    BY <1>2, <2>1, <2>2, CommandKnown DEF Restored
  <2> QED BY <1>1, <1>5, <2>1, <2>3, StepNames, QuietStep DEF j
<1> QED BY <1>3, <1>4, <1>5 DEF Redirect

LEMMA EffectsKept ==
  ASSUME option \in Selection, output \in {"terminal", "file"}, Effects
  PROVE  option' \in Selection /\ output' \in {"terminal", "file"}
<1>1. output' \in {"terminal", "file"}
  BY DEF Effects
<1>2. ASSUME NEW o \in Options, NEW words \in SUBSET Words[o],
             option' = [option EXCEPT ![o] = words]
      PROVE  option' \in Selection
  BY <1>2, SelectionKept
<1> QED BY <1>1, <1>2 DEF Effects

LEMMA PayloadStep ==
  ASSUME Inv, NEW t \in Threads, Payload(t)
  PROVE  Inv'
<1>1. pc[t] = "payload" /\ Effects
  BY DEF Payload
<1>2. /\ job[t] \in JobRecords /\ job[t].call = "command" /\ job[t].resetFailed = <<>>
      /\ job[t].error = None /\ job[t].first = None /\ Told(job[t])
      /\ option \in Selection /\ output \in {"terminal", "file"}
      /\ text \in FailedCalls \cup {None}
  BY <1>1, Commanding DEF CommandCalls
<1>3. option' \in Selection /\ output' \in {"terminal", "file"}
  BY <1>1, <1>2, EffectsKept
<1>4. CASE Succeeds(t, "restore", job[t])
  <2>1. Known("restore", job[t], option', output', db)
    BY <1>2, <1>3, CommandKnown DEF Restored
  <2> QED BY <1>1, <1>2, <1>3, <1>4, <2>1, StepNames, Continues DEF Succeeds
<1>5. CASE Fails(t, "restore", Failing(job[t], "payload"), "payload")
  <2> DEFINE j == Failing(job[t], "payload")
  <2>1. /\ j \in JobRecords /\ j.error # None /\ j.error.by = "payload"
        /\ j.error.text = "payload" /\ j.first = "payload" /\ "payload" # None
        /\ Kept(job[t], j)
    BY <1>2, StepNames, FailingFields, NoneDistinct
  <2>2. j.call = "command" /\ j.resetFailed = <<>> /\ Told(j)
    BY <1>2, <2>1 DEF Kept, Told
  <2> HIDE DEF j
  <2>3. Known("restore", j, option', output', db)
    BY <1>3, <2>1, <2>2, CommandKnown DEF Restored
  <2> QED BY <1>1, <1>2, <1>3, <1>5, <2>1, <2>3, StepNames, Continues DEF Fails, j
<1> QED BY <1>4, <1>5 DEF Payload

LEMMA RestoreStep ==
  ASSUME Inv, NEW t \in Threads, Restore(t)
  PROVE  Inv'
<1> DEFINE j == [job[t] EXCEPT !.restoreFailed = TRUE]
<1>1. pc[t] = "restore" /\ UNCHANGED option
  BY DEF Restore
<1>2. /\ job[t] \in JobRecords /\ job[t].call = "command" /\ job[t].resetFailed = <<>>
      /\ job[t].error = None => job[t].first = None
      /\ job[t].error # None => \/ job[t].error.by \in {"interrupt", "truncated"}
                                \/ job[t].first # None /\ job[t].error.by = job[t].first
      /\ Told(job[t]) /\ option \in Selection /\ output \in {"terminal", "file"}
      /\ text \in FailedCalls \cup {None}
  BY <1>1, Commanding DEF CommandCalls
<1>3. /\ j \in JobRecords /\ j.call = "command" /\ j.resetFailed = <<>> /\ j.restoreFailed
      /\ j.error = job[t].error /\ j.first = job[t].first
  BY <1>2 DEF JobRecords
<1> HIDE DEF j
<1>4. ASSUME output' = "terminal", Succeeds(t, "output", job[t])
      PROVE  Inv'
  <2>1. Known("output", job[t], option, output', db)
    BY <1>2, <1>4, CommandKnown DEF Restored
  <2> QED BY <1>1, <1>2, <1>4, <2>1, StepNames, Continues DEF Succeeds
<1>5. ASSUME UNCHANGED output,
             Fails(t, "output", IF j.error = None THEN Failing(j, "restore")
                                ELSE Noting(j, "restore"), "restore")
      PROVE  Inv'
  <2> DEFINE k == IF j.error = None THEN Failing(j, "restore") ELSE Noting(j, "restore")
  <2>1. /\ k \in JobRecords /\ k.error # None /\ Told(k) /\ Kept(j, k)
        /\ k.error.by \in {"interrupt", "truncated"} \/ (k.first # None /\ k.error.by = k.first)
    <3>1. CASE j.error = None
      BY <1>2, <1>3, <3>1, StepNames, FailingFields, NoneDistinct DEF Told
    <3>2. CASE j.error # None
      BY <1>2, <1>3, <3>2, StepNames, NotingFields DEF Told
    <3> QED BY <3>1, <3>2
  <2> HIDE DEF k
  <2>2. k.call = "command" /\ k.resetFailed = <<>> /\ k.restoreFailed
    BY <1>3, <2>1 DEF Kept
  <2>3. Known("output", k, option, output, db)
    BY <1>2, <2>1, <2>2, CommandKnown DEF Restored
  <2> QED BY <1>1, <1>5, <2>1, <2>3, StepNames, FailingStep DEF k
<1> QED BY <1>4, <1>5 DEF Restore, j

LEMMA ReadOutputStep ==
  ASSUME Inv, NEW t \in Threads, ReadOutput(t)
  PROVE  Inv'
<1>1. pc[t] = "output" /\ UNCHANGED <<option, output>>
  BY DEF ReadOutput
<1>2. /\ job[t] \in JobRecords /\ job[t].call = "command" /\ job[t].resetFailed = <<>>
      /\ job[t].error = None => job[t].first = None
      /\ job[t].error # None => \/ job[t].error.by \in {"interrupt", "truncated"}
                                \/ job[t].first # None /\ job[t].error.by = job[t].first
      /\ Restored("output", job[t], output) /\ Told(job[t])
      /\ option \in Selection /\ output \in {"terminal", "file"}
  BY <1>1, Commanding
<1>3. CASE Succeeds(t, "end", job[t])
  <2>1. Restored("end", job[t], output)
    BY <1>2 DEF Restored
  <2>2. Known("end", job[t], option, output, db)
    BY <1>2, <2>1, CommandKnown
  <2> QED BY <1>1, <1>2, <1>3, <2>2, StepNames, QuietStep
<1>4. CASE Succeeds(t, "end", Raising(job[t], "output"))
  <2> DEFINE j == Raising(job[t], "output")
  <2>1. /\ j \in JobRecords /\ j.error # None /\ j.error.by = "output" /\ j.error.text = None
        /\ Kept(job[t], j)
    BY <1>2, RaisingFields DEF OtherErrors
  <2>2. /\ j.call = "command" /\ j.resetFailed = <<>> /\ Told(j)
        /\ j.redirected = job[t].redirected /\ j.restoreFailed = job[t].restoreFailed
        /\ j.struck = job[t].struck
    BY <1>2, <2>1 DEF Kept, Told
  <2> HIDE DEF j
  <2>3. Restored("end", j, output)
    BY <1>2, <2>1, <2>2 DEF Restored
  <2>4. Known("end", j, option, output, db)
    BY <1>2, <2>1, <2>2, <2>3, CommandKnown
  <2> QED BY <1>1, <1>4, <2>1, <2>4, StepNames, QuietStep DEF j
<1> QED BY <1>3, <1>4 DEF ReadOutput

-----------------------------------------------------------------------------
(* Interrupts *)

LEMMA StruckFields ==
  ASSUME NEW t \in Threads, job[t] \in JobRecords, pc[t] \in NativeCalls
  PROVE  /\ Struck(t) \in JobRecords
         /\ Struck(t).error # None
         /\ Struck(t).error.by = "interrupt" /\ Struck(t).error.text = None
         /\ Struck(t).first = job[t].first /\ Struck(t).todo = job[t].todo
         /\ Struck(t).call = job[t].call /\ Struck(t).filter = job[t].filter
         /\ Struck(t).cursor = job[t].cursor /\ Struck(t).results = job[t].results
         /\ Struck(t).resetFailed = job[t].resetFailed
         /\ Struck(t).freeFailed = job[t].freeFailed
         /\ Struck(t).redirected = job[t].redirected
         /\ Struck(t).restoreFailed = job[t].restoreFailed
         /\ pc[t] \in Struck(t).struck /\ job[t].struck \subseteq Struck(t).struck
         /\ Told(Struck(t))
<1> DEFINE k == Raising(job[t], "interrupt")
<1>1. /\ k \in JobRecords /\ k.error # None /\ k.error.by = "interrupt" /\ k.error.text = None
      /\ k.first = job[t].first /\ k.todo = job[t].todo /\ Kept(job[t], k)
  BY RaisingFields DEF OtherErrors
<1>2. Struck(t) = [k EXCEPT !.struck = @ \cup {pc[t]}]
  BY DEF Struck
<1> HIDE DEF k
<1> QED BY <1>1, <1>2 DEF JobRecords, Kept, Told

\* The effect on an option of a call that is struck.
LEMMA StruckOption ==
  ASSUME option \in Selection, NEW f \in FilterRecords, NEW o \in Options,
         NEW words \in Unfinished(f, o) \cup {Setting(f, o)}
  PROVE  [option EXCEPT ![o] = words] \in Selection
BY UnfinishedIsSelection, SettingIsSelection, SelectionKept

LEMMA ListingStruck ==
  ASSUME Inv, NEW t \in Threads, pc[t] \in {"set", "init", "next", "query", "free"},
         Interrupted(t)
  PROVE  Inv'
<1> DEFINE j == Struck(t)
<1>1. /\ job[t] \in JobRecords /\ Known(pc[t], job[t], option, output, db)
      /\ option \in Selection /\ output \in {"terminal", "file"}
      /\ text \in FailedCalls \cup {None}
  BY HolderKnows
<1>2. pc[t] \in NativeCalls /\ pc[t] \in PCs \ {"reset", "end", "idle"}
  BY DEF NativeCalls, ListingCalls, PCs
<1>3. /\ job[t].call = "listing" /\ job[t].resetFailed = <<>>
      /\ pc[t] \in {"set", "init"} => job[t].cursor = None
      /\ pc[t] = "set" => job[t].todo # <<>>
  BY <1>1, <1>2 DEF Known, Begun, ListingCalls
<1>4. /\ j \in JobRecords /\ j.error # None /\ j.error.by = "interrupt" /\ Told(j)
      /\ j.call = "listing" /\ j.resetFailed = <<>> /\ j.cursor = job[t].cursor
      /\ j.todo = job[t].todo /\ j.filter = job[t].filter /\ pc[t] \in j.struck
  BY <1>1, <1>2, <1>3, StruckFields
<1> HIDE DEF j
<1>5. CASE pc[t] = "set"
  <2>1. /\ Succeeds(t, "reset", Cleaning(j)) /\ UNCHANGED output
        /\ \E words \in Unfinished(j.filter, Head(j.todo)) \cup {Setting(j.filter, Head(j.todo))} :
             option' = [option EXCEPT ![Head(j.todo)] = words]
    BY <1>5 DEF Interrupted, j
  <2>2. Head(j.todo) \in Options /\ j.filter \in FilterRecords
    <3>1. j.todo \in Seq(Options) /\ j.todo # <<>> /\ j.filter \in FilterRecords
      BY <1>3, <1>4, <1>5 DEF JobRecords
    <3> QED BY <3>1, HeadAndTail
  <2>3. option' \in Selection
    BY <1>1, <2>1, <2>2, StruckOption
  <2>4. Cleaning(j) \in JobRecords /\ Known("reset", Cleaning(j), option', output, db)
    BY <1>1, <1>3, <1>4, <1>5, <2>3, ToReset
  <2> QED BY <1>1, <1>5, <2>1, <2>3, <2>4, StepNames, Continues DEF Succeeds
<1>6. CASE pc[t] \in {"init", "free"}
  <2>1. UNCHANGED <<option, output>>
    BY <1>6 DEF Interrupted
  <2>2. PICK c \in {None, {}, j.cursor} : Succeeds(t, "reset", Cleaning([j EXCEPT !.cursor = c]))
    BY <1>6 DEF Interrupted, j
  <2> DEFINE k == [j EXCEPT !.cursor = c]
  <2>3. /\ k \in JobRecords /\ k.error = j.error /\ k.first = j.first /\ k.call = "listing"
        /\ k.resetFailed = <<>> /\ k.struck = j.struck
    BY <1>4 DEF JobRecords
  <2> HIDE DEF k
  <2>4. Told(k) /\ k.struck \cap {"init", "free"} # {}
    BY <1>4, <1>6, <2>3 DEF Told
  <2>5. Cleaning(k) \in JobRecords /\ Known("reset", Cleaning(k), option, output, db)
    BY <1>1, <1>4, <2>3, <2>4, ToReset
  <2> QED BY <1>6, <2>1, <2>2, <2>5, StepNames, QuietStep DEF k
<1>7. CASE pc[t] \in {"next", "query"}
  <2>1. Succeeds(t, "free", j) /\ UNCHANGED <<option, output>>
    BY <1>7 DEF Interrupted, j
  <2>2. Known("free", j, option, output, db)
    BY <1>4, ToFree
  <2> QED BY <1>4, <1>7, <2>1, <2>2, StepNames, QuietStep
<1> QED BY <1>5, <1>6, <1>7

LEMMA ResetStruck ==
  ASSUME Inv, NEW t \in Threads, pc[t] = "reset", Interrupted(t)
  PROVE  Inv'
<1> DEFINE j == Struck(t)
<1>1. /\ job[t] \in JobRecords /\ job[t].call = "listing"
      /\ job[t].todo \in Seq(Options) /\ Freed("reset", job[t]) /\ Noticed("reset", job[t])
  BY Resetting
<1>2. option \in Selection /\ output \in {"terminal", "file"} /\ text \in FailedCalls \cup {None}
  BY HolderKnows
<1>3. pc[t] \in NativeCalls
  BY DEF NativeCalls, ListingCalls
<1>4. /\ j \in JobRecords /\ j.error # None /\ j.error.by = "interrupt" /\ Told(j)
      /\ j.call = "listing" /\ "reset" \in j.struck /\ j.cursor = job[t].cursor
      /\ j.freeFailed = job[t].freeFailed /\ job[t].struck \subseteq j.struck
      /\ j.todo = job[t].todo
  BY <1>1, <1>3, StruckFields
<1> HIDE DEF j
<1>5. /\ job[t].todo # <<>> /\ Succeeds(t, "end", j) /\ UNCHANGED output
      /\ option' \in {option, [option EXCEPT ![Head(j.todo)] = Words[Head(j.todo)]]}
  BY <1>4 DEF Interrupted, j
<1>6. Head(j.todo) \in Options
  BY <1>1, <1>4, <1>5, HeadAndTail
<1>7. option' \in Selection
  <2>1. [option EXCEPT ![Head(j.todo)] = Words[Head(j.todo)]] \in Selection
    BY <1>2, <1>6, SelectionKept
  <2> QED BY <1>2, <1>5, <2>1
<1>8. Freed("end", j)
  BY <1>1, <1>4 DEF Freed
<1>9. Known("end", j, option', output, db)
  BY <1>4, <1>8 DEF Known, Begun, Reset, Noticed, Restored, Listed, PCs, ListingCalls,
                    CommandCalls
<1> QED BY <1>2, <1>4, <1>5, <1>7, <1>9, StepNames, Continues DEF Succeeds

LEMMA CommandStruck ==
  ASSUME Inv, NEW t \in Threads, pc[t] \in CommandCalls, Interrupted(t)
  PROVE  Inv'
<1> DEFINE j == Struck(t)
<1>1. /\ job[t] \in JobRecords /\ job[t].call = "command" /\ job[t].resetFailed = <<>>
      /\ option \in Selection /\ output \in {"terminal", "file"}
      /\ text \in FailedCalls \cup {None} /\ pc[t] # "idle"
  BY Commanding
<1>2. pc[t] \in NativeCalls
  BY DEF NativeCalls
<1>3. /\ j \in JobRecords /\ j.error # None /\ j.error.by = "interrupt" /\ Told(j)
      /\ j.call = "command" /\ j.resetFailed = <<>> /\ pc[t] \in j.struck
  BY <1>1, <1>2, StruckFields
<1> HIDE DEF j
<1>4. CASE pc[t] = "redirect"
  <2> DEFINE k == [j EXCEPT !.redirected = TRUE]
  <2>1. Succeeds(t, "end", k) /\ output' \in {output, "file"} /\ UNCHANGED option
    BY <1>4 DEF Interrupted, j
  <2>2. /\ k \in JobRecords /\ k.error = j.error /\ k.call = "command" /\ k.resetFailed = <<>>
        /\ k.struck = j.struck /\ k.first = j.first
    BY <1>3 DEF JobRecords
  <2> HIDE DEF k
  <2>3. Restored("end", k, output') /\ Told(k)
    BY <1>3, <1>4, <2>2 DEF Restored, Told
  <2>4. Known("end", k, option, output', db)
    BY <1>1, <1>3, <2>1, <2>2, <2>3, CommandKnown
  <2> QED BY <1>1, <2>1, <2>2, <2>4, StepNames, Continues DEF Succeeds
<1>5. CASE pc[t] = "payload"
  <2>1. Succeeds(t, "restore", j) /\ Effects
    BY <1>5 DEF Interrupted, j
  <2>2. option' \in Selection /\ output' \in {"terminal", "file"}
    BY <1>1, <2>1, EffectsKept
  <2>3. Known("restore", j, option', output', db)
    BY <1>3, <2>2, CommandKnown DEF Restored
  <2> QED BY <1>1, <1>3, <2>1, <2>2, <2>3, StepNames, Continues DEF Succeeds
<1>6. CASE pc[t] = "restore"
  <2>1. Succeeds(t, "end", j) /\ output' \in {output, "terminal"} /\ UNCHANGED option
    BY <1>6 DEF Interrupted, j
  <2>2. Restored("end", j, output')
    BY <1>3, <1>6 DEF Restored
  <2>3. Known("end", j, option, output', db)
    BY <1>1, <1>3, <2>1, <2>2, CommandKnown
  <2> QED BY <1>1, <1>3, <2>1, <2>3, StepNames, Continues DEF Succeeds
<1> QED BY <1>4, <1>5, <1>6 DEF CommandCalls

LEMMA InterruptedStep ==
  ASSUME Inv, NEW t \in Threads, Interrupted(t)
  PROVE  Inv'
<1>1. pc[t] \in {"set", "init", "next", "query", "free", "reset"} \cup CommandCalls
  BY DEF Interrupted, CommandCalls
<1> QED BY <1>1, ListingStruck, ResetStruck, CommandStruck

-----------------------------------------------------------------------------
(* The theorems *)

LEMMA ReturnStep ==
  ASSUME Inv, NEW t \in Threads, Return(t)
  PROVE  Inv'
<1>1. /\ pc[t] = "end" /\ lock' = None /\ pc' = [pc EXCEPT ![t] = "idle"]
      /\ job' = [job EXCEPT ![t] = NewJob] /\ UNCHANGED <<db, option, output, text>>
  BY DEF Return, native
<1>2. lock = t /\ \A q \in Threads \ {t} : pc[q] = "idle"
  BY <1>1, Alone
<1>3. /\ pc' \in [Threads -> PCs] /\ \A q \in Threads : pc'[q] = "idle"
      /\ job' \in [Threads -> JobRecords]
  BY <1>1, <1>2, NewJobFields DEF Inv, TypeInv, TypeOK, PCs
<1>4. \A q \in Threads : job'[q].results \subseteq Catalog
  BY <1>3 DEF JobRecords
<1>5. TypeOK'
  BY <1>1, <1>3, <1>4, NoneDistinct DEF TypeOK, Inv, TypeInv
<1> QED BY <1>3, <1>5 DEF Inv, TypeInv

LEMMA OperationStep ==
  ASSUME Inv, NEW t \in Threads, Operation(t)
  PROVE  Inv'
<1>1. lock = None /\ UNCHANGED <<lock, pc, job, option, output, text>>
      /\ \E x \in Catalog : db' = IF x \in db THEN db \ {x} ELSE db \cup {x}
  BY DEF Operation, native
<1>2. \A q \in Threads : pc[q] = "idle"
  BY <1>1, NoneDistinct DEF Inv, TypeInv, TypeOK
<1>3. TypeOK'
  BY <1>1 DEF Inv, TypeInv, TypeOK
<1> QED BY <1>1, <1>2, <1>3 DEF Inv, TypeInv

LEMMA InvInit == ASSUME Init PROVE Inv
<1>1. /\ lock = None /\ \A t \in Threads : pc[t] = "idle" /\ job[t] = NewJob
      /\ pc \in [Threads -> PCs] /\ job \in [Threads -> JobRecords]
      /\ db = {} /\ option = Words /\ output = "terminal" /\ text = None
  BY NewJobFields DEF Init, PCs
<1>2. \A t \in Threads : job[t].results \subseteq Catalog
  BY <1>1 DEF JobRecords
<1>3. /\ Words \in [Options -> SUBSET UNION {Words[o] : o \in Options}]
      /\ \A o \in Options : Words[o] \subseteq Words[o]
  <2>1. Words = [o \in Options |-> Words[o]]
    BY DEF Words
  <2> QED BY <2>1
<1>4. TypeOK
  BY <1>1, <1>2, <1>3, NoneDistinct DEF TypeOK
<1> QED BY <1>1, <1>4 DEF Inv, TypeInv

LEMMA InvStep == ASSUME Inv, [Next]_vars PROVE Inv'
<1>1. CASE UNCHANGED vars
  BY <1>1 DEF vars, Inv, TypeInv, TypeOK
<1>2. ASSUME NEW t \in Threads, ListingStep(t) PROVE Inv'
  <2>1. ASSUME Listing(t) PROVE Inv'
    <3>1. PICK f \in Filters : Enter(t, "listing", "set", f)
      BY <2>1 DEF Listing
    <3>2. f \in FilterRecords
      BY CatalogOK
    <3> QED BY <3>1, <3>2, EnterStep
  <2> QED BY <1>2, <2>1, SetOptionStep, InitWildcardStep, NextEntryStep, NextEndsStep,
             NextFailsStep, QueryScalarStep, FreeWildcardStep, ResetOptionStep, ConcludeStep
          DEF ListingStep
<1>3. ASSUME NEW t \in Threads, CommandStep(t) PROVE Inv'
  <2>1. ASSUME Command(t) PROVE Inv'
    <3>1. NoFilter \in FilterRecords
      BY DEF NoFilter, FilterRecords
    <3> QED BY <2>1, <3>1, EnterStep DEF Command
  <2> QED BY <1>3, <2>1, RedirectStep, PayloadStep, RestoreStep, ReadOutputStep
          DEF CommandStep
<1> QED BY <1>1, <1>2, <1>3, InterruptedStep, ReturnStep, OperationStep DEF Next

LEMMA InvAlways == Spec => []Inv
BY InvInit, InvStep, PTL DEF Spec

\* What is known of a call that ends.
LEMMA AtTheEnd ==
  ASSUME Inv, NEW t \in Threads, pc[t] = "end"
  PROVE  Known("end", job[t], option, output, db)
BY DEF Inv

\* Variables keep their types, and the lock has the one holder that is not idle.
THEOREM SharedTypes == Spec => []TypeOK
BY InvAlways, PTL DEF Inv, TypeInv

\* A listing that returns has found exactly what was asked for, for every catalogue,
\* filter and history of the options (listdb, native_selectors).
THEOREM ListingsAreExact == Spec => []ListingExact
<1>1. Inv => ListingExact
  BY AtTheEnd DEF ListingExact, Ends, Known, Listed
<1> QED BY <1>1, InvAlways, PTL

\* Every path out of a listing resets what it can (_normalize_options) and reports
\* what it cannot.
THEOREM OptionsAlwaysNormalized == Spec => []OptionsNormalized
<1>1. Inv => OptionsNormalized
  BY AtTheEnd DEF OptionsNormalized, Ends, Known, Reset, In
<1> QED BY <1>1, InvAlways, PTL

\* Every path out of a listing frees its cursor (listdb).
THEOREM CursorAlwaysFreed == Spec => []CursorFreed
<1>1. Inv => CursorFreed
  BY AtTheEnd DEF CursorFreed, Ends, Known, Freed
<1> QED BY <1>1, InvAlways, PTL

\* The first failed call is the one a listing or a command raises (listdb, fame).
THEOREM FirstFailureAlwaysRaised == Spec => []FirstFailureRaised
<1>1. Inv => FirstFailureRaised
  BY AtTheEnd DEF FirstFailureRaised, Known, Noticed
<1> QED BY <1>1, InvAlways, PTL

\* Every path out of a command restores the output (fame).
THEOREM RedirectionAlwaysRestored == Spec => []RedirectionRestored
<1>1. Inv => RedirectionRestored
  BY AtTheEnd DEF RedirectionRestored, Ends, Known, Restored
<1> QED BY <1>1, InvAlways, PTL

\* The text of an error is its own, option resets excepted (Session.operation).
THEOREM TextAlwaysOwn == Spec => []TextOfFailure
<1>1. Inv => TextOfFailure
  BY AtTheEnd DEF TextOfFailure, Known, Told
<1> QED BY <1>1, InvAlways, PTL

==============================================================================
