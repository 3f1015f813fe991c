------------------------------- MODULE Session -------------------------------
(***************************************************************************)
(* The one-shot CHLI runtime of a process (_runtime.py) and the database   *)
(* handles it owns (_database.py), as threads use them.                    *)
(*                                                                         *)
(* A public call is invoked without the lock (its session or handle is     *)
(* chosen then, and may be stale by the time it runs), then takes the      *)
(* process-wide reentrant lock, checks, crosses into the native library,   *)
(* returns from it and releases the lock.  One step per native call and    *)
(* one per return from it, because a status or an interrupt arrives there. *)
(*                                                                         *)
(* A definition marked "Mutant" is not part of the model: it is the next   *)
(* one with a plausible bug, and shows that a property can fail.           *)
(***************************************************************************)
EXTENDS Naturals, FiniteSets

CONSTANTS
  Threads,     \* threads of the process
  Sessions,    \* Session objects the process may create
  Libraries,   \* library candidates (path and root)
  Handles,     \* FameDatabase objects the process may create
  Keys,        \* native database keys; the library may reuse a freed one
  Retrieval,   \* the sessions that opted in to extended error text
  Interrupts,  \* the native calls an interrupt (KeyboardInterrupt) may strike
  Orphan,      \* a database opened natively whose handle was never created
  None

NativeCalls == {"cfmini", "sentinels", "teardown", "cfmcldb", "cfmfin",
                "cfmopdb", "cfmopwk", "call", "closing", "capture"}

\* The FameDatabase objects.
HandleRecords == [session : Sessions, key : Keys, open : BOOLEAN,
                  generation : {0, 1}, work : BOOLEAN]

ASSUME ConstantsOK ==
  /\ Retrieval \subseteq Sessions
  /\ Interrupts \subseteq NativeCalls
  /\ None \notin Threads \cup Sessions \cup Libraries \cup Handles \cup Keys
  /\ None \notin HandleRecords
  /\ Orphan \notin Handles \cup {None}

VARIABLES
  \* the threads and the lock
  lock,            \* holder of LOCK, or None
  pc,              \* what each thread is doing
  sess,            \* the session its current call acts on
  hdl,             \* the handle its current call acts on
  todo,            \* databases finalize() has still to close
  \* module globals and Session objects
  owner,           \* _OWNER
  dflt,            \* _DEFAULT
  candidate,       \* the library of each session; None: not created yet
  state,           \* Session._state
  generation,      \* Session._generation
  sentinels,       \* Session._sentinels was read
  finalizeStatus,  \* Session.finalize_status
  databases,       \* Session._databases: key -> handle
  work,            \* Session._work
  lastText,        \* Session._last_extended_error, as the thread that failed
  handle,          \* FameDatabase objects; None: not created yet
  \* the native library
  loaded,          \* libraries loaded into the process
  iniCalls,        \* number of cfmini calls entered
  finCalls,        \* number of cfmfin calls entered
  nativeDb,        \* the database open under each key, as the handle it was opened for
  nativeError      \* the thread whose failing call was the last native call

threadVars == <<lock, pc, sess, hdl, todo>>
objectVars == <<owner, dflt, candidate, state, generation, sentinels,
                finalizeStatus, databases, work, lastText>>
nativeVars == <<loaded, iniCalls, finCalls, nativeDb, nativeError>>
vars == <<threadVars, objectVars, handle, nativeVars>>

-----------------------------------------------------------------------------
(* Shared vocabulary *)

TerminalStates == {"finalized", "broken", "failed"}
States == {"unborn", "created", "loaded", "initialized"} \cup TerminalStates
Waiting == {"initialize", "finalize", "opendb", "workdb", "operation", "closedb"}
PCs == {"idle", "cleanup"} \cup Waiting \cup NativeCalls

Born(s) == candidate[s] # None
Terminal(s) == state[s] \in TerminalStates
Alive(h) == handle[h] # None
FreeKeys == {k \in Keys : nativeDb[k] = None}
\* Mutant: the empty slots are iterated over too.
TrackedSlots(s) == {databases[s][k] : k \in Keys}
Tracked(s) == {h \in Handles : \E k \in Keys : databases[s][k] = h}

\* FameDatabase._check_open, in its two halves.
Stale(h) ==
  LET s == handle[h].session
  IN  handle[h].generation # generation[s] \/ Terminal(s)
IsOpen(h) == handle[h].open /\ ~Stale(h)

\* Mutant: calls do not take the lock.
MayEnterUnlocked(t) == TRUE

\* LOCK is reentrant: a thread that holds it already may enter again.
MayEnter(t) == lock \in {None, t}

\* The outermost frame of t's call returns or raises: the lock is released.
Return(t) ==
  /\ lock' = None
  /\ pc' = [pc EXCEPT ![t] = "idle"]
  /\ sess' = [sess EXCEPT ![t] = None]
  /\ hdl' = [hdl EXCEPT ![t] = None]
  /\ todo' = {}

\* t, with the lock, goes on to a native call.
Goto(t, where) ==
  /\ lock' = t
  /\ pc' = [pc EXCEPT ![t] = where]

\* A native call of t returned zero, or raised HLIError.
Succeeds == nativeError' = None
Fails(t) == nativeError' = t

-----------------------------------------------------------------------------
(* Creating sessions, and the default one *)

NewSession(s, l) ==
  /\ ~Born(s)
  /\ candidate' = [candidate EXCEPT ![s] = l]
  /\ state' = [state EXCEPT ![s] = "created"]
  /\ UNCHANGED <<threadVars, owner, dflt, generation, sentinels, finalizeStatus,
                 databases, work, lastText, handle, nativeVars>>

Consumed == owner # None /\ Terminal(owner)
DefaultLoaded == dflt # None /\ state[dflt] # "created"

\* default_session(): s is the session it returns, l the explicit library or None.
ChooseDefault(s, l) ==
  \/ /\ dflt = s
     /\ l = None
     /\ UNCHANGED <<dflt, candidate, state>>
  \/ /\ ~Consumed
     /\ dflt = None \/ (l # None /\ ~DefaultLoaded)
     /\ ~Born(s)
     /\ dflt' = s
     /\ \E c \in Libraries : /\ l \in {None, c}
                             /\ candidate' = [candidate EXCEPT ![s] = c]
     /\ state' = [state EXCEPT ![s] = "created"]

DefaultSession(s, l) ==
  /\ lock = None
  /\ ChooseDefault(s, l)
  /\ UNCHANGED <<threadVars, owner, generation, sentinels, finalizeStatus,
                 databases, work, lastText, handle, nativeVars>>

\* Session.load(): the library is loaded, CHLI is not initialized.
Load(s) ==
  /\ lock = None
  /\ state[s] = "created"
  /\ state' = [state EXCEPT ![s] = "loaded"]
  /\ loaded' = loaded \cup {candidate[s]}
  /\ UNCHANGED <<threadVars, owner, dflt, candidate, generation, sentinels, finalizeStatus,
                 databases, work, lastText, handle, iniCalls, finCalls, nativeDb, nativeError>>

-----------------------------------------------------------------------------
(* Invoking a call: no lock is held yet *)

Invoke(t, call, s, h) ==
  /\ pc[t] = "idle"
  /\ pc' = [pc EXCEPT ![t] = call]
  /\ sess' = [sess EXCEPT ![t] = s]
  /\ hdl' = [hdl EXCEPT ![t] = h]

InvokeSession(t, s) ==
  /\ Born(s)
  /\ \E call \in {"initialize", "finalize", "opendb", "workdb", "operation"} :
       Invoke(t, call, s, None)
  /\ UNCHANGED <<lock, todo, objectVars, handle, nativeVars>>

InvokeHandle(t, h) ==
  /\ Alive(h)
  /\ \E call \in {"operation", "closedb"} : Invoke(t, call, handle[h].session, h)
  /\ UNCHANGED <<lock, todo, objectVars, handle, nativeVars>>

\* current_session() for a call without a session: the lock is released before use.
InvokeCurrent(t) ==
  /\ lock = None
  /\ owner # None
  /\ ~Terminal(owner)
  /\ \E call \in {"opendb", "workdb", "operation"} : Invoke(t, call, owner, None)
  /\ UNCHANGED <<lock, todo, objectVars, handle, nativeVars>>

\* init_chli(): the lock is kept from the choice of the session to the end.
InitChli(t, s, l) ==
  /\ lock = None
  /\ ~Consumed
  /\ owner # None => dflt = owner
  /\ (dflt # None /\ state[dflt] = "initialized") => l = None
  /\ ChooseDefault(s, l)
  /\ Invoke(t, "initialize", s, None)
  /\ lock' = t
  /\ UNCHANGED <<todo, owner, generation, sentinels, finalizeStatus,
                 databases, work, lastText, handle, nativeVars>>

\* close_chli(): finalizes the owner within one hold of the lock.
CloseChli(t) ==
  /\ lock = None
  /\ owner # None
  /\ Invoke(t, "finalize", owner, None)
  /\ lock' = t
  /\ UNCHANGED <<todo, objectVars, handle, nativeVars>>

-----------------------------------------------------------------------------
(* Session.initialize *)

\* Refused or already done: no native call, nothing consumed.
InitializeReturns(t) ==
  /\ pc[t] = "initialize"
  /\ MayEnter(t)
  /\ \/ state[sess[t]] = "initialized" \/ Terminal(sess[t])
     \/ owner \notin {None, sess[t]}
  /\ Return(t)
  /\ UNCHANGED <<objectVars, handle, nativeVars>>

MayInitialize(t) ==
  /\ pc[t] = "initialize"
  /\ MayEnter(t)
  /\ state[sess[t]] \in {"created", "loaded"}
  /\ owner \in {None, sess[t]}

\* The library cannot be loaded, or is loaded but FAME is not set: retryable.
InitializeGivesUp(t) ==
  /\ MayInitialize(t)
  /\ \/ /\ state[sess[t]] = "created"
        /\ UNCHANGED <<state, loaded>>
     \/ /\ state' = [state EXCEPT ![sess[t]] = "loaded"]
        /\ loaded' = loaded \cup {candidate[sess[t]]}
  /\ Return(t)
  /\ UNCHANGED <<owner, dflt, candidate, generation, sentinels, finalizeStatus, databases,
                 work, lastText, handle, iniCalls, finCalls, nativeDb, nativeError>>

\* Ownership and the attempt are recorded before cfmini is entered.
InitializeEnters(t) ==
  /\ MayInitialize(t)
  /\ owner' = sess[t]
  /\ state' = [state EXCEPT ![sess[t]] = "failed"]
  /\ loaded' = loaded \cup {candidate[sess[t]]}
  /\ iniCalls' = iniCalls + 1
  /\ Goto(t, "cfmini")
  /\ UNCHANGED <<sess, hdl, todo, dflt, candidate, generation, sentinels, finalizeStatus,
                 databases, work, lastText, handle, finCalls, nativeDb, nativeError>>

CfminiReturns(t) ==
  /\ pc[t] = "cfmini"
  /\ generation' = [generation EXCEPT ![sess[t]] = 1]
  /\ state' = [state EXCEPT ![sess[t]] = "initialized"]
  /\ Succeeds
  /\ Goto(t, "sentinels")
  /\ UNCHANGED <<sess, hdl, todo, owner, dflt, candidate, sentinels, finalizeStatus,
                 databases, work, lastText, handle, loaded, iniCalls, finCalls, nativeDb>>

\* Mutant: a failed cfmini is given up as if nothing had been consumed.
CfminiRaisesRetryable(t) ==
  /\ pc[t] = "cfmini"
  /\ Fails(t)
  /\ owner' = None
  /\ state' = [state EXCEPT ![sess[t]] = "loaded"]
  /\ Return(t)
  /\ UNCHANGED <<dflt, candidate, generation, sentinels, finalizeStatus, databases, work,
                 lastText, handle, loaded, iniCalls, finCalls, nativeDb>>

\* A status, or an interrupt whether or not the library had come up.
CfminiRaises(t) ==
  /\ pc[t] = "cfmini"
  /\ \/ Fails(t)
     \/ "cfmini" \in Interrupts /\ Succeeds
  /\ Return(t)
  /\ UNCHANGED <<objectVars, handle, loaded, iniCalls, finCalls, nativeDb>>

SentinelsRead(t) ==
  /\ pc[t] = "sentinels"
  /\ sentinels' = [sentinels EXCEPT ![sess[t]] = TRUE]
  /\ Return(t)
  /\ UNCHANGED <<owner, dflt, candidate, state, generation, finalizeStatus, databases,
                 work, lastText, handle, nativeVars>>

\* Mutant: the failure propagates without a tear-down.
SentinelsFailUnhandled(t) ==
  /\ pc[t] = "sentinels"
  /\ Return(t)
  /\ UNCHANGED <<objectVars, handle, nativeVars>>

\* Any exception, interrupts included: _teardown attempts the one cfmfin.
SentinelsFail(t) ==
  /\ pc[t] = "sentinels"
  /\ state' = [state EXCEPT ![sess[t]] = "broken"]
  /\ finCalls' = finCalls + 1
  /\ Goto(t, "teardown")
  /\ UNCHANGED <<sess, hdl, todo, owner, dflt, candidate, generation, sentinels,
                 finalizeStatus, databases, work, lastText, handle, loaded, iniCalls,
                 nativeDb, nativeError>>

-----------------------------------------------------------------------------
(* Session.finalize *)

FinalizeReturns(t) ==
  /\ pc[t] = "finalize"
  /\ MayEnter(t)
  /\ state[sess[t]] # "initialized"
  /\ Return(t)
  /\ UNCHANGED <<objectVars, handle, nativeVars>>

FinalizeEnters(t) ==
  /\ pc[t] = "finalize"
  /\ MayEnter(t)
  /\ state[sess[t]] = "initialized"
  /\ todo' = Tracked(sess[t])
  /\ Goto(t, "cleanup")
  /\ UNCHANGED <<sess, hdl, objectVars, handle, nativeVars>>

\* Mutant: a database is closed over and over.
CleanupNextForever(t) ==
  /\ pc[t] = "cleanup"
  /\ \E h \in todo : hdl' = [hdl EXCEPT ![t] = h]
  /\ Goto(t, "cfmcldb")
  /\ UNCHANGED <<sess, todo, objectVars, handle, nativeVars>>

CleanupNext(t) ==
  /\ pc[t] = "cleanup"
  /\ \E h \in todo :
       /\ hdl' = [hdl EXCEPT ![t] = h]
       /\ todo' = todo \ {h}
  /\ Goto(t, "cfmcldb")
  /\ UNCHANGED <<sess, objectVars, handle, nativeVars>>

\* The library closes a key it has open, and refuses any other with a status.
ClosesNatively(k) ==
  /\ nativeDb[k] # None
  /\ nativeDb' = [nativeDb EXCEPT ![k] = None]

\* Mutant: only a database that closed natively is invalidated.
CleanupClosesSome(t) ==
  /\ pc[t] = "cfmcldb"
  /\ \/ /\ ClosesNatively(handle[hdl[t]].key)
        /\ handle' = [handle EXCEPT ![hdl[t]].open = FALSE]
        /\ Succeeds
     \/ UNCHANGED <<nativeDb, handle>> /\ Fails(t)
  /\ hdl' = [hdl EXCEPT ![t] = None]
  /\ Goto(t, "cleanup")
  /\ UNCHANGED <<sess, todo, objectVars, loaded, iniCalls, finCalls>>

\* Closed, or a status that is only recorded: the handle is invalidated anyway.
CleanupCloses(t) ==
  /\ pc[t] = "cfmcldb"
  /\ \/ ClosesNatively(handle[hdl[t]].key) /\ Succeeds
     \/ UNCHANGED nativeDb /\ Fails(t)
  /\ handle' = [handle EXCEPT ![hdl[t]].open = FALSE]
  /\ hdl' = [hdl EXCEPT ![t] = None]
  /\ Goto(t, "cleanup")
  /\ UNCHANGED <<sess, todo, objectVars, loaded, iniCalls, finCalls>>

CleanupInterrupted(t) ==
  /\ pc[t] = "cfmcldb"
  /\ "cfmcldb" \in Interrupts
  /\ ClosesNatively(handle[hdl[t]].key) \/ UNCHANGED nativeDb
  /\ Succeeds
  /\ Return(t)
  /\ UNCHANGED <<objectVars, handle, loaded, iniCalls, finCalls>>

CleanupDone(t) ==
  /\ pc[t] = "cleanup"
  /\ todo = {}
  /\ databases' = [databases EXCEPT ![sess[t]] = [k \in Keys |-> None]]
  /\ work' = [work EXCEPT ![sess[t]] = None]
  /\ sentinels' = [sentinels EXCEPT ![sess[t]] = FALSE]
  /\ state' = [state EXCEPT ![sess[t]] = "broken"]
  /\ finCalls' = finCalls + 1
  /\ Goto(t, "cfmfin")
  /\ UNCHANGED <<sess, hdl, todo, owner, dflt, candidate, generation, finalizeStatus,
                 lastText, handle, loaded, iniCalls, nativeDb, nativeError>>

\* cfmfin ends, in finalize() or in _teardown(); it frees every native database.
CfmfinReturns(t) ==
  /\ pc[t] \in {"cfmfin", "teardown"}
  /\ finalizeStatus' = [finalizeStatus EXCEPT ![sess[t]] = "zero"]
  /\ state' = [state EXCEPT ![sess[t]] = "finalized"]
  /\ nativeDb' = [k \in Keys |-> None]
  /\ Succeeds
  /\ Return(t)
  /\ UNCHANGED <<owner, dflt, candidate, generation, sentinels, databases, work,
                 lastText, handle, loaded, iniCalls, finCalls>>

\* Mutant: the error path keeps the lock.
CfmfinRaisesLocked(t) ==
  /\ pc[t] \in {"cfmfin", "teardown"}
  /\ finalizeStatus' = [finalizeStatus EXCEPT ![sess[t]] = "error"]
  /\ Fails(t)
  /\ pc' = [pc EXCEPT ![t] = "idle"]
  /\ UNCHANGED <<lock, sess, hdl, todo, owner, dflt, candidate, state, generation, sentinels,
                 databases, work, lastText, handle, loaded, iniCalls, finCalls, nativeDb>>

CfmfinRaises(t) ==
  /\ pc[t] \in {"cfmfin", "teardown"}
  /\ \/ /\ finalizeStatus' = [finalizeStatus EXCEPT ![sess[t]] = "error"]
        /\ Fails(t)
     \/ /\ pc[t] \in Interrupts
        /\ UNCHANGED finalizeStatus
        /\ Succeeds
  /\ Return(t)
  /\ UNCHANGED <<owner, dflt, candidate, state, generation, sentinels, databases, work,
                 lastText, handle, loaded, iniCalls, finCalls, nativeDb>>

-----------------------------------------------------------------------------
(* Session.operation around one native call, and its extended error text *)

\* operation() refuses: the runtime is not initialized (or no longer).
OperationRefused(t) ==
  /\ pc[t] \in {"opendb", "workdb", "operation"}
  /\ MayEnter(t)
  /\ \/ state[sess[t]] # "initialized"
     \/ hdl[t] # None /\ ~IsOpen(hdl[t])
  /\ Return(t)
  /\ UNCHANGED <<objectVars, handle, nativeVars>>

\* Mutant: the handle is validated before the lock is taken only.
OperationEntersStale(t) ==
  /\ pc[t] = "operation"
  /\ MayEnter(t)
  /\ state[sess[t]] = "initialized"
  /\ Goto(t, "call")
  /\ UNCHANGED <<sess, hdl, todo, objectVars, handle, nativeVars>>

\* An operation of a session or on a handle, validated under the lock.
OperationEnters(t) ==
  /\ pc[t] = "operation"
  /\ MayEnter(t)
  /\ hdl[t] # None => IsOpen(hdl[t])
  /\ state[sess[t]] = "initialized"
  /\ Goto(t, "call")
  /\ UNCHANGED <<sess, hdl, todo, objectVars, handle, nativeVars>>

CallReturns(t) ==
  /\ pc[t] = "call"
  /\ hdl[t] # None => nativeDb[handle[hdl[t]].key] # None
  /\ Succeeds
  /\ Return(t)
  /\ UNCHANGED <<objectVars, handle, loaded, iniCalls, finCalls, nativeDb>>

\* Mutant: the lock is released before the text is fetched.
OperationFailsUnlocked(t) ==
  /\ pc[t] = "call"
  /\ Fails(t)
  /\ lock' = None
  /\ pc' = [pc EXCEPT ![t] = "capture"]
  /\ UNCHANGED <<sess, hdl, todo, objectVars, handle, loaded, iniCalls, finCalls, nativeDb>>

\* Mutant: a handle whose native close failed is given up.
OperationFailsForgetful(t) ==
  /\ pc[t] = "closing"
  /\ Fails(t)
  /\ handle' = [handle EXCEPT ![hdl[t]].open = FALSE]
  /\ databases' = [databases EXCEPT ![sess[t]][handle[hdl[t]].key] = None]
  /\ Return(t)
  /\ UNCHANGED <<owner, dflt, candidate, state, generation, sentinels, finalizeStatus, work,
                 lastText, loaded, iniCalls, finCalls, nativeDb>>

\* An HLIError leaves operation(): the text is fetched first if opted in.
OperationFails(t) ==
  /\ pc[t] \in {"call", "closing", "cfmopdb", "cfmopwk"}
  /\ Fails(t)
  /\ IF sess[t] \in Retrieval
     THEN Goto(t, "capture") /\ UNCHANGED <<sess, hdl, todo>>
     ELSE Return(t)
  /\ UNCHANGED <<objectVars, handle, loaded, iniCalls, finCalls, nativeDb>>

\* _capture_extended_error reads the text of the last failure, or fails itself.
Captures(t) ==
  /\ pc[t] = "capture"
  /\ \/ lastText' = [lastText EXCEPT ![sess[t]] = nativeError]
     \/ lastText' = [lastText EXCEPT ![sess[t]] = None]
     \/ "capture" \in Interrupts /\ UNCHANGED lastText
  /\ Succeeds
  /\ Return(t)
  /\ UNCHANGED <<owner, dflt, candidate, state, generation, sentinels, finalizeStatus,
                 databases, work, handle, loaded, iniCalls, finCalls, nativeDb>>

CallInterrupted(t) ==
  /\ pc[t] = "call"
  /\ "call" \in Interrupts
  /\ Succeeds
  /\ Return(t)
  /\ UNCHANGED <<objectVars, handle, loaded, iniCalls, finCalls, nativeDb>>

-----------------------------------------------------------------------------
(* opendb and workdb *)

OpendbEnters(t) ==
  /\ pc[t] = "opendb"
  /\ MayEnter(t)
  /\ state[sess[t]] = "initialized"
  /\ Goto(t, "cfmopdb")
  /\ UNCHANGED <<sess, hdl, todo, objectVars, handle, nativeVars>>

WorkIsOpen(s) == work[s] # None /\ IsOpen(work[s])

WorkdbReturnsExisting(t) ==
  /\ pc[t] = "workdb"
  /\ MayEnter(t)
  /\ state[sess[t]] = "initialized"
  /\ WorkIsOpen(sess[t])
  /\ Return(t)
  /\ UNCHANGED <<objectVars, handle, nativeVars>>

WorkdbEnters(t) ==
  /\ pc[t] = "workdb"
  /\ MayEnter(t)
  /\ state[sess[t]] = "initialized"
  /\ ~WorkIsOpen(sess[t])
  /\ Goto(t, "cfmopwk")
  /\ UNCHANGED <<sess, hdl, todo, objectVars, handle, nativeVars>>

\* The library returns a free key; FameDatabase.__init__ registers it.
OpenReturns(t, h, k) ==
  /\ pc[t] \in {"cfmopdb", "cfmopwk"}
  /\ ~Alive(h)
  /\ k \in FreeKeys
  /\ nativeDb' = [nativeDb EXCEPT ![k] = h]
  /\ handle' = [handle EXCEPT ![h] = [session |-> sess[t], key |-> k, open |-> TRUE,
                                      generation |-> generation[sess[t]],
                                      work |-> pc[t] = "cfmopwk"]]
  /\ databases' = [databases EXCEPT ![sess[t]][k] = h]
  /\ work' = IF pc[t] = "cfmopwk" THEN [work EXCEPT ![sess[t]] = h] ELSE work
  /\ Succeeds
  /\ Return(t)
  /\ UNCHANGED <<owner, dflt, candidate, state, generation, sentinels, finalizeStatus,
                 lastText, loaded, iniCalls, finCalls>>

\* Interrupted in the native open: the library may have opened it already.
OpenInterrupted(t) ==
  /\ pc[t] \in {"cfmopdb", "cfmopwk"}
  /\ pc[t] \in Interrupts
  /\ \/ \E k \in FreeKeys : nativeDb' = [nativeDb EXCEPT ![k] = Orphan]
     \/ UNCHANGED nativeDb
  /\ Succeeds
  /\ Return(t)
  /\ UNCHANGED <<objectVars, handle, loaded, iniCalls, finCalls>>

-----------------------------------------------------------------------------
(* closedb *)

\* Session._unregister: the entry is dropped by key, the work slot by identity.
Unregister(s, h) ==
  /\ databases' = [databases EXCEPT ![s][handle[h].key] = None]
  /\ work' = IF work[s] = h THEN [work EXCEPT ![s] = None] ELSE work

\* Closed before: nothing to do.  Its runtime is gone: forgotten, no native call.
ClosedbReturns(t) ==
  /\ pc[t] = "closedb"
  /\ MayEnter(t)
  /\ \/ /\ ~handle[hdl[t]].open
        /\ UNCHANGED <<handle, databases, work>>
     \/ /\ handle[hdl[t]].open
        /\ Stale(hdl[t])
        /\ handle' = [handle EXCEPT ![hdl[t]].open = FALSE]
        /\ Unregister(sess[t], hdl[t])
  /\ Return(t)
  /\ UNCHANGED <<owner, dflt, candidate, state, generation, sentinels, finalizeStatus,
                 lastText, nativeVars>>

ClosedbEnters(t) ==
  /\ pc[t] = "closedb"
  /\ MayEnter(t)
  /\ IsOpen(hdl[t])
  /\ state[sess[t]] = "initialized"
  /\ Goto(t, "closing")
  /\ UNCHANGED <<sess, hdl, todo, objectVars, handle, nativeVars>>

ClosingReturns(t) ==
  /\ pc[t] = "closing"
  /\ ClosesNatively(handle[hdl[t]].key)
  /\ Succeeds
  /\ handle' = [handle EXCEPT ![hdl[t]].open = FALSE]
  /\ Unregister(sess[t], hdl[t])
  /\ Return(t)
  /\ UNCHANGED <<owner, dflt, candidate, state, generation, sentinels, finalizeStatus,
                 lastText, loaded, iniCalls, finCalls>>

ClosingInterrupted(t) ==
  /\ pc[t] = "closing"
  /\ "closing" \in Interrupts
  /\ ClosesNatively(handle[hdl[t]].key) \/ UNCHANGED nativeDb
  /\ Succeeds
  /\ Return(t)
  /\ UNCHANGED <<objectVars, handle, loaded, iniCalls, finCalls>>

-----------------------------------------------------------------------------
Init ==
  /\ lock = None
  /\ pc = [t \in Threads |-> "idle"]
  /\ sess = [t \in Threads |-> None]
  /\ hdl = [t \in Threads |-> None]
  /\ todo = {}
  /\ owner = None
  /\ dflt = None
  /\ candidate = [s \in Sessions |-> None]
  /\ state = [s \in Sessions |-> "unborn"]
  /\ generation = [s \in Sessions |-> 0]
  /\ sentinels = [s \in Sessions |-> FALSE]
  /\ finalizeStatus = [s \in Sessions |-> "none"]
  /\ databases = [s \in Sessions |-> [k \in Keys |-> None]]
  /\ work = [s \in Sessions |-> None]
  /\ lastText = [s \in Sessions |-> None]
  /\ handle = [h \in Handles |-> None]
  /\ loaded = {}
  /\ iniCalls = 0
  /\ finCalls = 0
  /\ nativeDb = [k \in Keys |-> None]
  /\ nativeError = None

\* The steps of a call that was invoked.
InitializeStep(t) ==
  \/ InitializeReturns(t) \/ InitializeGivesUp(t) \/ InitializeEnters(t)
  \/ CfminiReturns(t) \/ CfminiRaises(t)
  \/ SentinelsRead(t) \/ SentinelsFail(t)

FinalizeStep(t) ==
  \/ FinalizeReturns(t) \/ FinalizeEnters(t)
  \/ CleanupNext(t) \/ CleanupCloses(t) \/ CleanupInterrupted(t) \/ CleanupDone(t)
  \/ CfmfinReturns(t) \/ CfmfinRaises(t)

OperationStep(t) ==
  \/ OperationRefused(t) \/ OperationEnters(t) \/ CallReturns(t) \/ CallInterrupted(t)
  \/ OperationFails(t) \/ Captures(t)
  \/ OpendbEnters(t) \/ WorkdbReturnsExisting(t) \/ WorkdbEnters(t) \/ OpenInterrupted(t)
  \/ \E h \in Handles, k \in Keys : OpenReturns(t, h, k)
  \/ ClosedbReturns(t) \/ ClosedbEnters(t) \/ ClosingReturns(t) \/ ClosingInterrupted(t)

Step(t) == InitializeStep(t) \/ FinalizeStep(t) \/ OperationStep(t)

InvokeStep(t) ==
  \/ \E s \in Sessions : InvokeSession(t, s)
  \/ \E h \in Handles : InvokeHandle(t, h)
  \/ InvokeCurrent(t) \/ CloseChli(t)
  \/ \E s \in Sessions, l \in Libraries \cup {None} : InitChli(t, s, l)

Next ==
  \/ \E s \in Sessions : Load(s) \/ \E l \in Libraries : NewSession(s, l)
  \/ \E s \in Sessions, l \in Libraries \cup {None} : DefaultSession(s, l)
  \/ \E t \in Threads : InvokeStep(t) \/ Step(t)

Spec == Init /\ [][Next]_vars

\* Native calls return: the thread inside the lock is not suspended forever.
FairSpec == Spec /\ \A t \in Threads : WF_vars(lock = t /\ Step(t))

-----------------------------------------------------------------------------
(* Type correctness *)

TypeOK ==
  /\ lock \in Threads \cup {None}
  /\ pc \in [Threads -> PCs]
  /\ sess \in [Threads -> Sessions \cup {None}]
  /\ hdl \in [Threads -> Handles \cup {None}]
  /\ todo \in SUBSET Handles
  /\ owner \in Sessions \cup {None}
  /\ dflt \in Sessions \cup {None}
  /\ candidate \in [Sessions -> Libraries \cup {None}]
  /\ state \in [Sessions -> States]
  /\ generation \in [Sessions -> {0, 1}]
  /\ sentinels \in [Sessions -> BOOLEAN]
  /\ finalizeStatus \in [Sessions -> {"none", "zero", "error"}]
  /\ databases \in [Sessions -> [Keys -> Handles \cup {None}]]
  /\ work \in [Sessions -> Handles \cup {None}]
  /\ lastText \in [Sessions -> Threads \cup {None}]
  /\ handle \in [Handles -> HandleRecords \cup {None}]
  /\ loaded \in SUBSET Libraries
  /\ iniCalls \in Nat
  /\ finCalls \in Nat
  /\ nativeDb \in [Keys -> Handles \cup {None, Orphan}]
  /\ nativeError \in Threads \cup {None}

-----------------------------------------------------------------------------
(* What the code promises of the native library *)

\* Only the holder of LOCK is inside the library, or between two calls of a
\* finalization: work databases, ITEM options, cursors, redirection and the
\* error text are process-global there.
Serialized == \A t \in Threads : pc[t] \in NativeCalls \cup {"cleanup"} => lock = t

\* However many sessions, threads and retries there are, cfmini and cfmfin are
\* entered at most once in the process, and every other native call happens
\* after the one and before the other.
OneLifecycle ==
  /\ iniCalls <= 1
  /\ finCalls <= iniCalls
  /\ \A t \in Threads : pc[t] \in NativeCalls \ {"cfmini", "teardown", "cfmfin"}
                          => iniCalls = 1 /\ finCalls = 0

\* The one session that crossed into cfmini owns the runtime for good, and a
\* session left terminal by a finished call never changes state again.
TerminalForGood ==
  [][/\ owner # None => owner' = owner
     /\ \A s \in Sessions : Terminal(s) /\ lock = None => state'[s] = state[s]]_vars

\* A caller that finds a session initialized while nobody is inside a call
\* finds its missing-value sentinels too: a failed or interrupted set-up never
\* leaves a half-initialized session.
UsableIsComplete ==
  \A s \in Sessions : lock = None /\ state[s] = "initialized" => sentinels[s]

\* The extended error text a failure fetches is its own: no native call of any
\* thread comes between the failing call and the fetch.
CaptureReadsOwnFailure == \A t \in Threads : pc[t] = "capture" => nativeError = t

\* Why OneLifecycle holds: which session a thread inside a call is working for,
\* in which state, and how often cfmini and cfmfin were entered by then.
UpCalls == NativeCalls \ {"cfmini", "teardown", "cfmfin"}

LifecycleInv ==
  /\ Serialized
  /\ \A s \in Sessions : s # owner => state[s] \in {"unborn", "created", "loaded"}
  /\ IF owner = None
     THEN iniCalls = 0 /\ finCalls = 0
     ELSE /\ iniCalls = 1
          /\ \/ state[owner] \in {"initialized", "failed"} /\ finCalls = 0
             \/ state[owner] \in {"broken", "finalized"} /\ finCalls = 1
  /\ \A t \in Threads :
       /\ pc[t] = "cfmini" => sess[t] = owner /\ owner # None /\ state[owner] = "failed"
       /\ pc[t] \in UpCalls \cup {"cleanup"}
            => sess[t] = owner /\ owner # None /\ state[owner] = "initialized"
       /\ pc[t] \in {"teardown", "cfmfin"}
            => sess[t] = owner /\ owner # None /\ state[owner] = "broken"

\* Every call in progress acts on objects that exist.
CallsOK ==
  /\ \A s \in Sessions : Born(s) <=> state[s] # "unborn"
  /\ dflt # None => state[dflt] # "unborn"
  /\ \A h \in Handles : Alive(h) => state[handle[h].session] # "unborn"
  /\ \A t \in Threads :
       /\ pc[t] # "idle" => sess[t] \in Sessions /\ state[sess[t]] # "unborn"
       /\ hdl[t] # None => Alive(hdl[t])
       /\ pc[t] \in {"closedb", "closing", "cfmcldb"} => hdl[t] # None
       /\ pc[t] = "closedb" => handle[hdl[t]].session = sess[t]
  /\ \A h \in todo : Alive(h)
  /\ \A s \in Sessions, k \in Keys : databases[s][k] # None => Alive(databases[s][k])
  /\ \A s \in Sessions : work[s] # None => Alive(work[s])

(* What the code promises of the database handles *)

\* A native call made through a handle acts on the database that was opened for
\* that handle, although the library reuses keys and the handle may have been
\* closed, or the runtime finalized, after the call was invoked.
HandleReachesItsDatabase ==
  \A t \in Threads :
    pc[t] \in {"call", "closing", "cfmcldb"} /\ hdl[t] # None
      => nativeDb[handle[hdl[t]].key] = hdl[t]

\* While the runtime is up, every database open in the library is open in a
\* handle its owner tracks, so that finalize() will close it; the work database
\* is that of the work slot, so that it is never opened twice.
EveryDatabaseTracked ==
  \A k \in Keys :
    owner # None /\ state[owner] = "initialized" /\ nativeDb[k] # None
    /\ (\A t \in Threads : pc[t] \notin {"cleanup", "cfmcldb"})
      => /\ databases[owner][k] = nativeDb[k]
         /\ IsOpen(nativeDb[k])
         /\ handle[nativeDb[k]].work => work[owner] = nativeDb[k]

\* Once finalization closed the databases, no handle is open and none is kept.
AllInvalidated ==
  \A s \in Sessions : Terminal(s) =>
    /\ Tracked(s) = {}
    /\ work[s] = None
    /\ \A h \in Handles : Alive(h) /\ handle[h].session = s => ~handle[h].open

\* Why HandleReachesItsDatabase holds when no interrupt strikes a native close:
\* an open handle of the running runtime is bound to the database of its key.
HandleInv ==
  /\ \A h \in Handles :
       Alive(h) /\ handle[h].open =>
         /\ handle[h].session = owner
         /\ state[owner] # "failed"
         /\ state[owner] = "initialized" => nativeDb[handle[h].key] = h
  /\ \A s \in Sessions, k \in Keys :
       databases[s][k] # None =>
         s = owner /\ handle[databases[s][k]].session = s /\ handle[databases[s][k]].key = k
  /\ (\A t \in Threads : pc[t] \notin {"cleanup", "cfmcldb"})
       => \A s \in Sessions, k \in Keys :
            databases[s][k] # None => handle[databases[s][k]].open
  /\ \A h \in todo : handle[h].open
  /\ \A t \in Threads :
       /\ pc[t] \in {"call", "closing", "cfmcldb"} /\ hdl[t] # None => handle[hdl[t]].open
       /\ pc[t] = "cfmcldb" => hdl[t] \notin todo

(* The lock *)

\* Every path out of a call, error paths included, releases the lock.
LockReleased == \A t \in Threads : (lock = t) ~> (lock # t)

\* A finalization that begins reaches a terminal state, whatever fails in it
\* (unless one of its closes is interrupted).
FinalizationEnds ==
  \A s \in Sessions :
    (\E t \in Threads : pc[t] = "cleanup" /\ sess[t] = s) ~> Terminal(s)

(* A statement of the documentation the code does not keep *)

\* "The library is fixed for the process lifetime once loaded; a different
\* library can only be chosen while nothing has been loaded yet"
\* (_runtime.py:478-479): default_session() never settles on a library when a
\* different one is loaded in the process.
LibraryFixedOnceLoaded ==
  [][dflt' # dflt => loaded \subseteq {candidate'[dflt']}]_vars

-----------------------------------------------------------------------------
(* Refinement of OneShotLibrary *)

\* "sentinels" reads exported variables, it calls no function.
Functions == NativeCalls \ {"sentinels"}

Inside ==
  IF lock # None /\ pc[lock] \in Functions
  THEN [thread |-> lock,
        kind |-> IF pc[lock] = "cfmini" THEN "cfmini"
                 ELSE IF pc[lock] \in {"cfmfin", "teardown"} THEN "cfmfin"
                 ELSE "call"]
  ELSE [thread |-> None, kind |-> "none"]

Phase ==
  IF owner = None THEN "fresh"
  ELSE IF Inside.kind = "cfmini" THEN "starting"
  ELSE IF Inside.kind = "cfmfin" THEN "stopping"
  ELSE IF state[owner] = "initialized" THEN "up"
  ELSE "spent"

Library == INSTANCE OneShotLibrary WITH phase <- Phase, inside <- Inside

\* Seen from the library, the package is a one-shot, serialized user.
ImplementsOneShotLibrary == Library!Spec
=============================================================================
