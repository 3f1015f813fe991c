---------------------------- MODULE SessionProofs ----------------------------
(***************************************************************************)
(* Proofs about Session, for every number of threads, sessions, libraries, *)
(* handles and keys.                                                       *)
(*                                                                         *)
(* TypeOK, CallsOK and LifecycleInv are inductive together: a call acts on *)
(* objects that exist, and a thread inside the library works for the one   *)
(* owner, in the state its call requires.  OneLifecycle, the refinement of *)
(* OneShotLibrary and, with SentinelsInv, UsableIsComplete follow.         *)
(* HandleInv and ClosedInv are inductive relative to them when no          *)
(* interrupt strikes a native close, and TrackedInv when none strikes a    *)
(* native open or close.                                                   *)
(***************************************************************************)
EXTENDS Session, TLAPS

\* What closing one handle leaves alone.
LEMMA CloseFrame ==
  ASSUME TypeOK, NEW h \in Handles, handle[h] # None, handle' = [handle EXCEPT ![h].open = FALSE]
  PROVE  /\ handle' \in [Handles -> HandleRecords \cup {None}]
         /\ \A x \in Handles : handle'[x] # None <=> handle[x] # None
         /\ \A x \in Handles :
              handle[x] # None => /\ handle'[x].session = handle[x].session
                                  /\ handle'[x].key = handle[x].key
                                  /\ handle'[x].generation = handle[x].generation
                                  /\ handle'[x].open <=> handle[x].open /\ x # h
<1>1. handle \in [Handles -> HandleRecords \cup {None}] /\ None \notin HandleRecords
  BY ConstantsOK DEF TypeOK
<1>2. handle[h] \in HandleRecords
  BY <1>1
<1>3. /\ handle'[h] = [handle[h] EXCEPT !.open = FALSE]
      /\ \A x \in Handles : x # h => handle'[x] = handle[x]
  BY <1>1
<1>4. handle'[h] \in HandleRecords
  <2>1. [handle[h] EXCEPT !.open = FALSE] \in HandleRecords
    BY <1>2, Zenon DEF HandleRecords
  <2> QED BY <2>1, <1>3
<1>5. /\ handle'[h].session = handle[h].session
      /\ handle'[h].key = handle[h].key
      /\ handle'[h].generation = handle[h].generation
  BY <1>2, <1>3 DEF HandleRecords
<1>6. handle'[h].open = FALSE
  BY <1>2, <1>3 DEF HandleRecords
<1>7. handle' \in [Handles -> HandleRecords \cup {None}]
  BY <1>1, <1>3, <1>4
<1>8. \A x \in Handles : handle'[x] # None <=> handle[x] # None
  BY <1>1, <1>3, <1>4
<1>9. \A x \in Handles : handle[x] # None =>
                                  (handle'[x].open <=> handle[x].open /\ x # h)
  BY <1>3, <1>6
<1> QED BY <1>3, <1>5, <1>7, <1>8, <1>9

\* Every step keeps the types, given that calls act on objects that exist.
LEMMA TypeStep ==
  ASSUME TypeOK, CallsOK, [Next]_vars
  PROVE  TypeOK'
<1> USE ConstantsOK DEF TypeOK, CallsOK, Alive, Born, PCs, States, TerminalStates,
         NativeCalls, Waiting, MayEnter, Succeeds, Fails, threadVars, objectVars, nativeVars
<1>1. ASSUME NEW s \in Sessions, NEW l \in Libraries, NewSession(s, l) PROVE TypeOK'
  BY <1>1 DEF NewSession
<1>2. ASSUME NEW s \in Sessions, NEW l \in Libraries \cup {None}, DefaultSession(s, l)
      PROVE  TypeOK'
  <2>1. CASE dflt = s /\ l = None /\ UNCHANGED <<dflt, candidate, state>>
    BY <1>2, <2>1 DEF DefaultSession
  <2>2. ASSUME NEW c \in Libraries, dflt' = s, candidate' = [candidate EXCEPT ![s] = c],
               state' = [state EXCEPT ![s] = "created"]
        PROVE  TypeOK'
    BY <1>2, <2>2 DEF DefaultSession
  <2> QED BY <1>2, <2>1, <2>2 DEF DefaultSession, ChooseDefault
<1>3. ASSUME NEW s \in Sessions, Load(s) PROVE TypeOK'
  BY <1>3 DEF Load
<1>4. ASSUME NEW t \in Threads, NEW s \in Sessions, InvokeSession(t, s) PROVE TypeOK'
  BY <1>4 DEF InvokeSession, Invoke
<1>5. ASSUME NEW t \in Threads, NEW h \in Handles, InvokeHandle(t, h) PROVE TypeOK'
  BY <1>5 DEF InvokeHandle, Invoke, HandleRecords
<1>6. ASSUME NEW t \in Threads, InvokeCurrent(t) PROVE TypeOK'
  BY <1>6 DEF InvokeCurrent, Invoke
<1>7. ASSUME NEW t \in Threads, CloseChli(t) PROVE TypeOK'
  BY <1>7 DEF CloseChli, Invoke
<1>8. ASSUME NEW t \in Threads, NEW s \in Sessions, NEW l \in Libraries \cup {None}, InitChli(t, s, l)
      PROVE  TypeOK'
  <2>1. CASE dflt = s /\ l = None /\ UNCHANGED <<dflt, candidate, state>>
    BY <1>8, <2>1 DEF InitChli, Invoke
  <2>2. ASSUME NEW c \in Libraries, dflt' = s, candidate' = [candidate EXCEPT ![s] = c],
               state' = [state EXCEPT ![s] = "created"]
        PROVE  TypeOK'
    BY <1>8, <2>2 DEF InitChli, Invoke
  <2> QED BY <1>8, <2>1, <2>2 DEF InitChli, ChooseDefault
<1>9. ASSUME NEW t \in Threads, InitializeReturns(t) PROVE TypeOK'
  BY <1>9 DEF InitializeReturns, Return
<1>10. ASSUME NEW t \in Threads, InitializeGivesUp(t) PROVE TypeOK'
  BY <1>10 DEF InitializeGivesUp, MayInitialize, Return
<1>11. ASSUME NEW t \in Threads, InitializeEnters(t) PROVE TypeOK'
  BY <1>11 DEF InitializeEnters, MayInitialize, Goto
<1>12. ASSUME NEW t \in Threads, CfminiReturns(t) PROVE TypeOK'
  BY <1>12 DEF CfminiReturns, Goto
<1>13. ASSUME NEW t \in Threads, CfminiRaises(t) PROVE TypeOK'
  BY <1>13 DEF CfminiRaises, Return
<1>14. ASSUME NEW t \in Threads, SentinelsRead(t) PROVE TypeOK'
  BY <1>14 DEF SentinelsRead, Return
<1>15. ASSUME NEW t \in Threads, SentinelsFail(t) PROVE TypeOK'
  BY <1>15 DEF SentinelsFail, Goto
<1>16. ASSUME NEW t \in Threads, FinalizeReturns(t) PROVE TypeOK'
  BY <1>16 DEF FinalizeReturns, Return
<1>17. ASSUME NEW t \in Threads, FinalizeEnters(t) PROVE TypeOK'
  BY <1>17 DEF FinalizeEnters, Goto, Tracked
<1>18. ASSUME NEW t \in Threads, CleanupNext(t) PROVE TypeOK'
  BY <1>18 DEF CleanupNext, Goto
<1>19. ASSUME NEW t \in Threads, CleanupCloses(t) PROVE TypeOK'
  <2>1. handle' \in [Handles -> HandleRecords \cup {None}]
    <3>1. hdl[t] \in Handles /\ handle[hdl[t]] # None /\ handle' = [handle EXCEPT ![hdl[t]].open = FALSE]
      BY <1>19 DEF CleanupCloses
    <3> QED BY <3>1, CloseFrame
  <2>2. nativeDb' \in [Keys -> Handles \cup {None, Orphan}]
    <3>1. CASE ClosesNatively(handle[hdl[t]].key)
      BY <3>1 DEF ClosesNatively
    <3>2. CASE UNCHANGED nativeDb
      BY <3>2
    <3> QED BY <1>19, <3>1, <3>2 DEF CleanupCloses
  <2>3. nativeError' \in Threads \cup {None}
    BY <1>19 DEF CleanupCloses
  <2> QED BY <1>19, <2>1, <2>2, <2>3 DEF CleanupCloses, Goto
<1>20. ASSUME NEW t \in Threads, CleanupInterrupted(t) PROVE TypeOK'
  <2>1. nativeDb' \in [Keys -> Handles \cup {None, Orphan}]
    <3>1. CASE ClosesNatively(handle[hdl[t]].key)
      BY <3>1 DEF ClosesNatively
    <3>2. CASE UNCHANGED nativeDb
      BY <3>2
    <3> QED BY <1>20, <3>1, <3>2 DEF CleanupInterrupted
  <2> QED BY <1>20, <2>1 DEF CleanupInterrupted, Return
<1>21. ASSUME NEW t \in Threads, CleanupDone(t) PROVE TypeOK'
  BY <1>21 DEF CleanupDone, Goto
<1>22. ASSUME NEW t \in Threads, CfmfinReturns(t) PROVE TypeOK'
  BY <1>22 DEF CfmfinReturns, Return
<1>23. ASSUME NEW t \in Threads, CfmfinRaises(t) PROVE TypeOK'
  BY <1>23 DEF CfmfinRaises, Return
<1>24. ASSUME NEW t \in Threads, OperationRefused(t) PROVE TypeOK'
  BY <1>24 DEF OperationRefused, Return
<1>25. ASSUME NEW t \in Threads, OperationEnters(t) PROVE TypeOK'
  BY <1>25 DEF OperationEnters, Goto
<1>26. ASSUME NEW t \in Threads, CallReturns(t) PROVE TypeOK'
  BY <1>26 DEF CallReturns, Return
<1>27. ASSUME NEW t \in Threads, CallInterrupted(t) PROVE TypeOK'
  BY <1>27 DEF CallInterrupted, Return
<1>28. ASSUME NEW t \in Threads, OperationFails(t) PROVE TypeOK'
  <2>1. CASE Goto(t, "capture") /\ UNCHANGED <<sess, hdl, todo>>
    BY <1>28, <2>1 DEF OperationFails, Goto
  <2>2. CASE Return(t)
    BY <1>28, <2>2 DEF OperationFails, Return
  <2> QED BY <1>28, <2>1, <2>2 DEF OperationFails
<1>29. ASSUME NEW t \in Threads, Captures(t) PROVE TypeOK'
  <2>1. CASE lastText' = [lastText EXCEPT ![sess[t]] = nativeError]
    BY <1>29, <2>1 DEF Captures, Return
  <2>2. CASE lastText' = [lastText EXCEPT ![sess[t]] = None]
    BY <1>29, <2>2 DEF Captures, Return
  <2>3. CASE UNCHANGED lastText
    BY <1>29, <2>3 DEF Captures, Return
  <2> QED BY <1>29, <2>1, <2>2, <2>3 DEF Captures
<1>30. ASSUME NEW t \in Threads, OpendbEnters(t) PROVE TypeOK'
  BY <1>30 DEF OpendbEnters, Goto
<1>31. ASSUME NEW t \in Threads, WorkdbReturnsExisting(t) PROVE TypeOK'
  BY <1>31 DEF WorkdbReturnsExisting, Return
<1>32. ASSUME NEW t \in Threads, WorkdbEnters(t) PROVE TypeOK'
  BY <1>32 DEF WorkdbEnters, Goto
<1>33. ASSUME NEW t \in Threads, OpenInterrupted(t) PROVE TypeOK'
  <2>1. nativeDb' \in [Keys -> Handles \cup {None, Orphan}]
    <3>1. ASSUME NEW k \in Keys, nativeDb' = [nativeDb EXCEPT ![k] = Orphan]
          PROVE  nativeDb' \in [Keys -> Handles \cup {None, Orphan}]
      BY <3>1
    <3> QED BY <1>33, <3>1 DEF OpenInterrupted, FreeKeys
  <2> QED BY <1>33, <2>1 DEF OpenInterrupted, Return
<1>34. ASSUME NEW t \in Threads, NEW h \in Handles, NEW k \in Keys, OpenReturns(t, h, k)
      PROVE  TypeOK'
  BY <1>34 DEF OpenReturns, Return, HandleRecords, FreeKeys
<1>35. ASSUME NEW t \in Threads, ClosedbReturns(t) PROVE TypeOK'
  <2>1. CASE UNCHANGED <<handle, databases, work>>
    BY <1>35, <2>1 DEF ClosedbReturns, Return
  <2>2. CASE /\ handle' = [handle EXCEPT ![hdl[t]].open = FALSE]
             /\ Unregister(sess[t], hdl[t])
    <3>1. handle' \in [Handles -> HandleRecords \cup {None}]
      <4>1. hdl[t] \in Handles /\ handle[hdl[t]] # None
        BY <1>35 DEF ClosedbReturns
      <4> QED BY <2>2, <4>1, CloseFrame
    <3>2. /\ databases' \in [Sessions -> [Keys -> Handles \cup {None}]]
          /\ work' \in [Sessions -> Handles \cup {None}]
      BY <2>2 DEF Unregister
    <3> QED BY <1>35, <3>1, <3>2 DEF ClosedbReturns, Return
  <2> QED BY <1>35, <2>1, <2>2 DEF ClosedbReturns
<1>36. ASSUME NEW t \in Threads, ClosedbEnters(t) PROVE TypeOK'
  BY <1>36 DEF ClosedbEnters, Goto
<1>37. ASSUME NEW t \in Threads, ClosingReturns(t) PROVE TypeOK'
  <2>1. handle' \in [Handles -> HandleRecords \cup {None}]
    <3>1. hdl[t] \in Handles /\ handle[hdl[t]] # None /\ handle' = [handle EXCEPT ![hdl[t]].open = FALSE]
      BY <1>37 DEF ClosingReturns
    <3> QED BY <3>1, CloseFrame
  <2>2. nativeDb' \in [Keys -> Handles \cup {None, Orphan}]
    BY <1>37 DEF ClosingReturns, ClosesNatively
  <2>3. /\ databases' \in [Sessions -> [Keys -> Handles \cup {None}]]
        /\ work' \in [Sessions -> Handles \cup {None}]
    BY <1>37 DEF ClosingReturns, Unregister
  <2> QED BY <1>37, <2>1, <2>2, <2>3 DEF ClosingReturns, Return
<1>38. ASSUME NEW t \in Threads, ClosingInterrupted(t) PROVE TypeOK'
  <2>1. nativeDb' \in [Keys -> Handles \cup {None, Orphan}]
    <3>1. CASE ClosesNatively(handle[hdl[t]].key)
      BY <3>1 DEF ClosesNatively
    <3>2. CASE UNCHANGED nativeDb
      BY <3>2
    <3> QED BY <1>38, <3>1, <3>2 DEF ClosingInterrupted
  <2> QED BY <1>38, <2>1 DEF ClosingInterrupted, Return
<1>39. CASE UNCHANGED vars
  BY <1>39 DEF vars
<1> QED
  BY <1>1, <1>2, <1>3, <1>4, <1>5, <1>6, <1>7, <1>8, <1>9, <1>10, <1>11, <1>12, <1>13,
     <1>14, <1>15, <1>16, <1>17, <1>18, <1>19, <1>20, <1>21, <1>22, <1>23, <1>24, <1>25,
     <1>26, <1>27, <1>28, <1>29, <1>30, <1>31, <1>32, <1>33, <1>34, <1>35, <1>36, <1>37,
     <1>38, <1>39
     DEF Next, InvokeStep, Step, InitializeStep, FinalizeStep, OperationStep

\* Every step keeps the objects of the calls in progress alive.
LEMMA CallsStep ==
  ASSUME TypeOK, CallsOK, LifecycleInv, [Next]_vars
  PROVE  CallsOK'
<1> USE ConstantsOK DEF TypeOK, CallsOK, LifecycleInv, Alive, Born, PCs, States, TerminalStates,
         NativeCalls, Waiting, MayEnter, Succeeds, Fails, threadVars, objectVars, nativeVars
<1>1. ASSUME NEW s \in Sessions, NEW l \in Libraries, NewSession(s, l) PROVE CallsOK'
  BY <1>1 DEF NewSession
<1>2. ASSUME NEW s \in Sessions, NEW l \in Libraries \cup {None}, DefaultSession(s, l)
      PROVE  CallsOK'
  <2>1. CASE dflt = s /\ l = None /\ UNCHANGED <<dflt, candidate, state>>
    BY <1>2, <2>1 DEF DefaultSession
  <2>2. ASSUME NEW c \in Libraries, dflt' = s, candidate' = [candidate EXCEPT ![s] = c],
               state' = [state EXCEPT ![s] = "created"]
        PROVE  CallsOK'
    BY <1>2, <2>2 DEF DefaultSession
  <2> QED BY <1>2, <2>1, <2>2 DEF DefaultSession, ChooseDefault
<1>3. ASSUME NEW s \in Sessions, Load(s) PROVE CallsOK'
  BY <1>3 DEF Load
<1>4. ASSUME NEW t \in Threads, NEW s \in Sessions, InvokeSession(t, s) PROVE CallsOK'
  BY <1>4 DEF InvokeSession, Invoke
<1>5. ASSUME NEW t \in Threads, NEW h \in Handles, InvokeHandle(t, h) PROVE CallsOK'
  BY <1>5 DEF InvokeHandle, Invoke, HandleRecords
<1>6. ASSUME NEW t \in Threads, InvokeCurrent(t) PROVE CallsOK'
  BY <1>6 DEF InvokeCurrent, Invoke
<1>7. ASSUME NEW t \in Threads, CloseChli(t) PROVE CallsOK'
  BY <1>7 DEF CloseChli, Invoke
<1>8. ASSUME NEW t \in Threads, NEW s \in Sessions, NEW l \in Libraries \cup {None}, InitChli(t, s, l)
      PROVE  CallsOK'
  <2>1. CASE dflt = s /\ l = None /\ UNCHANGED <<dflt, candidate, state>>
    BY <1>8, <2>1 DEF InitChli, Invoke
  <2>2. ASSUME NEW c \in Libraries, dflt' = s, candidate' = [candidate EXCEPT ![s] = c],
               state' = [state EXCEPT ![s] = "created"]
        PROVE  CallsOK'
    BY <1>8, <2>2 DEF InitChli, Invoke
  <2> QED BY <1>8, <2>1, <2>2 DEF InitChli, ChooseDefault
<1>9. ASSUME NEW t \in Threads, InitializeReturns(t) PROVE CallsOK'
  BY <1>9 DEF InitializeReturns, Return
<1>10. ASSUME NEW t \in Threads, InitializeGivesUp(t) PROVE CallsOK'
  <2>1. sess[t] \in Sessions /\ Born(sess[t])
    BY <1>10 DEF MayInitialize, InitializeGivesUp
  <2>2. CASE UNCHANGED state
    BY <1>10, <2>2 DEF InitializeGivesUp, Return
  <2>3. CASE state' = [state EXCEPT ![sess[t]] = "loaded"]
    BY <1>10, <2>1, <2>3 DEF InitializeGivesUp, Return
  <2> QED BY <1>10, <2>2, <2>3 DEF InitializeGivesUp
<1>11. ASSUME NEW t \in Threads, InitializeEnters(t) PROVE CallsOK'
  BY <1>11 DEF InitializeEnters, MayInitialize, Goto
<1>12. ASSUME NEW t \in Threads, CfminiReturns(t) PROVE CallsOK'
  BY <1>12 DEF CfminiReturns, Goto
<1>13. ASSUME NEW t \in Threads, CfminiRaises(t) PROVE CallsOK'
  BY <1>13 DEF CfminiRaises, Return
<1>14. ASSUME NEW t \in Threads, SentinelsRead(t) PROVE CallsOK'
  BY <1>14 DEF SentinelsRead, Return
<1>15. ASSUME NEW t \in Threads, SentinelsFail(t) PROVE CallsOK'
  BY <1>15 DEF SentinelsFail, Goto
<1>16. ASSUME NEW t \in Threads, FinalizeReturns(t) PROVE CallsOK'
  BY <1>16 DEF FinalizeReturns, Return
<1>17. ASSUME NEW t \in Threads, FinalizeEnters(t) PROVE CallsOK'
  BY <1>17 DEF FinalizeEnters, Goto, Tracked
<1>18. ASSUME NEW t \in Threads, CleanupNext(t) PROVE CallsOK'
  BY <1>18 DEF CleanupNext, Goto
<1>19. ASSUME NEW t \in Threads, CleanupCloses(t) PROVE CallsOK'
  <2>1. /\ \A x \in Handles : handle'[x] # None <=> handle[x] # None
        /\ \A x \in Handles : handle[x] # None => handle'[x].session = handle[x].session
    <3>1. hdl[t] \in Handles /\ handle[hdl[t]] # None /\ handle' = [handle EXCEPT ![hdl[t]].open = FALSE]
      BY <1>19 DEF CleanupCloses
    <3> QED BY <3>1, CloseFrame
  <2> QED BY <1>19, <2>1 DEF CleanupCloses, Goto
<1>20. ASSUME NEW t \in Threads, CleanupInterrupted(t) PROVE CallsOK'
  BY <1>20 DEF CleanupInterrupted, Return, ClosesNatively
<1>21. ASSUME NEW t \in Threads, CleanupDone(t) PROVE CallsOK'
  BY <1>21 DEF CleanupDone, Goto
<1>22. ASSUME NEW t \in Threads, CfmfinReturns(t) PROVE CallsOK'
  BY <1>22 DEF CfmfinReturns, Return
<1>23. ASSUME NEW t \in Threads, CfmfinRaises(t) PROVE CallsOK'
  BY <1>23 DEF CfmfinRaises, Return
<1>24. ASSUME NEW t \in Threads, OperationRefused(t) PROVE CallsOK'
  BY <1>24 DEF OperationRefused, Return
<1>25. ASSUME NEW t \in Threads, OperationEnters(t) PROVE CallsOK'
  BY <1>25 DEF OperationEnters, Goto
<1>26. ASSUME NEW t \in Threads, CallReturns(t) PROVE CallsOK'
  BY <1>26 DEF CallReturns, Return
<1>27. ASSUME NEW t \in Threads, CallInterrupted(t) PROVE CallsOK'
  BY <1>27 DEF CallInterrupted, Return
<1>28. ASSUME NEW t \in Threads, OperationFails(t) PROVE CallsOK'
  <2>1. CASE Goto(t, "capture") /\ UNCHANGED <<sess, hdl, todo>>
    BY <1>28, <2>1 DEF OperationFails, Goto
  <2>2. CASE Return(t)
    BY <1>28, <2>2 DEF OperationFails, Return
  <2> QED BY <1>28, <2>1, <2>2 DEF OperationFails
<1>29. ASSUME NEW t \in Threads, Captures(t) PROVE CallsOK'
  BY <1>29 DEF Captures, Return
<1>30. ASSUME NEW t \in Threads, OpendbEnters(t) PROVE CallsOK'
  BY <1>30 DEF OpendbEnters, Goto
<1>31. ASSUME NEW t \in Threads, WorkdbReturnsExisting(t) PROVE CallsOK'
  BY <1>31 DEF WorkdbReturnsExisting, Return
<1>32. ASSUME NEW t \in Threads, WorkdbEnters(t) PROVE CallsOK'
  BY <1>32 DEF WorkdbEnters, Goto
<1>33. ASSUME NEW t \in Threads, OpenInterrupted(t) PROVE CallsOK'
  BY <1>33 DEF OpenInterrupted, Return, FreeKeys
<1>34. ASSUME NEW t \in Threads, NEW h \in Handles, NEW k \in Keys, OpenReturns(t, h, k)
      PROVE  CallsOK'
  <2>1. sess[t] \in Sessions /\ state[sess[t]] # "unborn"
    BY <1>34 DEF OpenReturns
  <2>2. /\ handle'[h] \in HandleRecords /\ handle'[h].session = sess[t]
        /\ \A x \in Handles : x # h => handle'[x] = handle[x]
    BY <1>34, <2>1 DEF OpenReturns, HandleRecords
  <2>3. \A x \in Handles : handle'[x] # None <=> handle[x] # None \/ x = h
    BY <2>2
  <2>4. /\ \A s \in Sessions, j \in Keys :
             databases'[s][j] \in {databases[s][j], h}
        /\ \A s \in Sessions : work'[s] \in {work[s], h}
    BY <1>34, <2>1 DEF OpenReturns
  <2>5. \A x \in Handles : Alive(x)' => state'[handle'[x].session] # "unborn"
    BY <1>34, <2>1, <2>2 DEF OpenReturns
  <2>6. ASSUME NEW s \in Sessions, NEW j \in Keys, databases'[s][j] # None
        PROVE  handle'[databases'[s][j]] # None
    <3>1. databases[s][j] # None => databases[s][j] \in Handles /\ handle[databases[s][j]] # None
      OBVIOUS
    <3> QED BY <2>3, <2>4, <2>6, <3>1
  <2>7. ASSUME NEW s \in Sessions, work'[s] # None
        PROVE  handle'[work'[s]] # None
    <3>1. work[s] # None => work[s] \in Handles /\ handle[work[s]] # None
      OBVIOUS
    <3> QED BY <2>3, <2>4, <2>7, <3>1
  <2> QED BY <1>34, <2>3, <2>5, <2>6, <2>7 DEF OpenReturns, Return
<1>35. ASSUME NEW t \in Threads, ClosedbReturns(t) PROVE CallsOK'
  <2>1. CASE UNCHANGED <<handle, databases, work>>
    BY <1>35, <2>1 DEF ClosedbReturns, Return
  <2>2. CASE /\ handle' = [handle EXCEPT ![hdl[t]].open = FALSE]
             /\ Unregister(sess[t], hdl[t])
    <3>1. /\ \A x \in Handles : handle'[x] # None <=> handle[x] # None
          /\ \A x \in Handles : handle[x] # None => handle'[x].session = handle[x].session
      <4>1. hdl[t] \in Handles /\ handle[hdl[t]] # None
        BY <1>35 DEF ClosedbReturns
      <4> QED BY <2>2, <4>1, CloseFrame
    <3>2. /\ \A s \in Sessions, k \in Keys : databases'[s][k] \in {None, databases[s][k]}
          /\ \A s \in Sessions : work'[s] \in {None, work[s]}
      BY <2>2 DEF Unregister
    <3>3. \A u \in Threads : /\ hdl'[u] # None => hdl'[u] = hdl[u]
                             /\ pc'[u] # "idle" => /\ pc'[u] = pc[u] /\ sess'[u] = sess[u]
                                                   /\ hdl'[u] = hdl[u]
      BY <1>35 DEF ClosedbReturns, Return
    <3>4. UNCHANGED <<candidate, state, dflt>> /\ todo' = {}
      BY <1>35 DEF ClosedbReturns, Return
    <3>5. ASSUME NEW u \in Threads
          PROVE  /\ pc'[u] # "idle" => sess'[u] \in Sessions /\ state'[sess'[u]] # "unborn"
                 /\ hdl'[u] # None => handle'[hdl'[u]] # None
                 /\ pc'[u] \in {"closedb", "closing", "cfmcldb"} => hdl'[u] # None
                 /\ pc'[u] = "closedb" => handle'[hdl'[u]].session = sess'[u]
      BY <3>1, <3>3, <3>4
    <3>6. ASSUME NEW s \in Sessions, NEW k \in Keys, databases'[s][k] # None
          PROVE  handle'[databases'[s][k]] # None
      <4>1. databases[s][k] # None => databases[s][k] \in Handles /\ handle[databases[s][k]] # None
        OBVIOUS
      <4> QED BY <3>1, <3>2, <3>6, <4>1
    <3>7. ASSUME NEW s \in Sessions, work'[s] # None
          PROVE  handle'[work'[s]] # None
      <4>1. work[s] # None => work[s] \in Handles /\ handle[work[s]] # None
        OBVIOUS
      <4> QED BY <3>1, <3>2, <3>7, <4>1
    <3> QED BY <3>1, <3>4, <3>5, <3>6, <3>7
  <2> QED BY <1>35, <2>1, <2>2 DEF ClosedbReturns
<1>36. ASSUME NEW t \in Threads, ClosedbEnters(t) PROVE CallsOK'
  BY <1>36 DEF ClosedbEnters, Goto
<1>37. ASSUME NEW t \in Threads, ClosingReturns(t) PROVE CallsOK'
  <2>1. /\ \A x \in Handles : handle'[x] # None <=> handle[x] # None
        /\ \A x \in Handles : handle[x] # None => handle'[x].session = handle[x].session
    <3>1. hdl[t] \in Handles /\ handle[hdl[t]] # None /\ handle' = [handle EXCEPT ![hdl[t]].open = FALSE]
      BY <1>37 DEF ClosingReturns
    <3> QED BY <3>1, CloseFrame
  <2>2. /\ \A s \in Sessions, k \in Keys : databases'[s][k] \in {None, databases[s][k]}
        /\ \A s \in Sessions : work'[s] \in {None, work[s]}
    BY <1>37 DEF ClosingReturns, Unregister
  <2> QED BY <1>37, <2>1, <2>2 DEF ClosingReturns, Return
<1>38. ASSUME NEW t \in Threads, ClosingInterrupted(t) PROVE CallsOK'
  BY <1>38 DEF ClosingInterrupted, Return, ClosesNatively
<1>39. CASE UNCHANGED vars
  BY <1>39 DEF vars
<1> QED
  BY <1>1, <1>2, <1>3, <1>4, <1>5, <1>6, <1>7, <1>8, <1>9, <1>10, <1>11, <1>12, <1>13,
     <1>14, <1>15, <1>16, <1>17, <1>18, <1>19, <1>20, <1>21, <1>22, <1>23, <1>24, <1>25,
     <1>26, <1>27, <1>28, <1>29, <1>30, <1>31, <1>32, <1>33, <1>34, <1>35, <1>36, <1>37,
     <1>38, <1>39
     DEF Next, InvokeStep, Step, InitializeStep, FinalizeStep, OperationStep

\* Every step keeps the account of who is inside the library, in which state of
\* which session.
LEMMA LifecycleStep ==
  ASSUME TypeOK, CallsOK, LifecycleInv, [Next]_vars
  PROVE  LifecycleInv'
<1> USE ConstantsOK DEF TypeOK, CallsOK, LifecycleInv, Serialized, UpCalls, Alive, Born, Terminal, PCs, States, TerminalStates,
         NativeCalls, Waiting, MayEnter, Succeeds, Fails, threadVars, objectVars, nativeVars
<1>1. ASSUME NEW s \in Sessions, NEW l \in Libraries, NewSession(s, l) PROVE LifecycleInv'
  BY <1>1 DEF NewSession
<1>2. ASSUME NEW s \in Sessions, NEW l \in Libraries \cup {None}, DefaultSession(s, l)
      PROVE  LifecycleInv'
  <2>1. CASE dflt = s /\ l = None /\ UNCHANGED <<dflt, candidate, state>>
    BY <1>2, <2>1 DEF DefaultSession
  <2>2. ASSUME NEW c \in Libraries, ~Born(s), dflt' = s, candidate' = [candidate EXCEPT ![s] = c],
               state' = [state EXCEPT ![s] = "created"]
        PROVE  LifecycleInv'
    <3>1. state[s] = "unborn" /\ s # owner
      BY <2>2
    <3>2. /\ owner # None => state'[owner] = state[owner]
          /\ \A x \in Sessions : state'[x] \in {state[x], "created"}
      BY <2>2, <3>1
    <3> QED BY <1>2, <3>1, <3>2 DEF DefaultSession
  <2> QED BY <1>2, <2>1, <2>2 DEF DefaultSession, ChooseDefault
<1>3. ASSUME NEW s \in Sessions, Load(s) PROVE LifecycleInv'
  BY <1>3 DEF Load
<1>4. ASSUME NEW t \in Threads, NEW s \in Sessions, InvokeSession(t, s) PROVE LifecycleInv'
  BY <1>4 DEF InvokeSession, Invoke
<1>5. ASSUME NEW t \in Threads, NEW h \in Handles, InvokeHandle(t, h) PROVE LifecycleInv'
  BY <1>5 DEF InvokeHandle, Invoke, HandleRecords
<1>6. ASSUME NEW t \in Threads, InvokeCurrent(t) PROVE LifecycleInv'
  BY <1>6 DEF InvokeCurrent, Invoke
<1>7. ASSUME NEW t \in Threads, CloseChli(t) PROVE LifecycleInv'
  BY <1>7 DEF CloseChli, Invoke
<1>8. ASSUME NEW t \in Threads, NEW s \in Sessions, NEW l \in Libraries \cup {None}, InitChli(t, s, l)
      PROVE  LifecycleInv'
  <2>1. CASE dflt = s /\ l = None /\ UNCHANGED <<dflt, candidate, state>>
    BY <1>8, <2>1 DEF InitChli, Invoke
  <2>2. ASSUME NEW c \in Libraries, ~Born(s), dflt' = s, candidate' = [candidate EXCEPT ![s] = c],
               state' = [state EXCEPT ![s] = "created"]
        PROVE  LifecycleInv'
    <3>1. state[s] = "unborn" /\ s # owner
      BY <2>2
    <3>2. /\ owner # None => state'[owner] = state[owner]
          /\ \A x \in Sessions : state'[x] \in {state[x], "created"}
      BY <2>2, <3>1
    <3> QED BY <1>8, <3>1, <3>2 DEF InitChli, Invoke
  <2> QED BY <1>8, <2>1, <2>2 DEF InitChli, ChooseDefault
<1>9. ASSUME NEW t \in Threads, InitializeReturns(t) PROVE LifecycleInv'
  BY <1>9 DEF InitializeReturns, Return
<1>10. ASSUME NEW t \in Threads, InitializeGivesUp(t) PROVE LifecycleInv'
  <2>1. CASE UNCHANGED state
    BY <1>10, <2>1 DEF InitializeGivesUp, MayInitialize, Return
  <2>2. CASE state' = [state EXCEPT ![sess[t]] = "loaded"]
    <3>1. sess[t] \in Sessions /\ owner # sess[t]
      BY <1>10 DEF InitializeGivesUp, MayInitialize
    <3>2. /\ owner # None => state'[owner] = state[owner]
          /\ \A x \in Sessions : state'[x] \in {state[x], "loaded"}
      BY <2>2, <3>1
    <3>3. \A u \in Threads : pc'[u] \notin NativeCalls \cup {"cleanup"}
      BY <1>10 DEF InitializeGivesUp, MayInitialize, Return
    <3> QED BY <1>10, <3>1, <3>2, <3>3 DEF InitializeGivesUp, Return
  <2> QED BY <1>10, <2>1, <2>2 DEF InitializeGivesUp
<1>11. ASSUME NEW t \in Threads, InitializeEnters(t) PROVE LifecycleInv'
  BY <1>11 DEF InitializeEnters, MayInitialize, Goto
<1>12. ASSUME NEW t \in Threads, CfminiReturns(t) PROVE LifecycleInv'
  BY <1>12 DEF CfminiReturns, Goto
<1>13. ASSUME NEW t \in Threads, CfminiRaises(t) PROVE LifecycleInv'
  BY <1>13 DEF CfminiRaises, Return
<1>14. ASSUME NEW t \in Threads, SentinelsRead(t) PROVE LifecycleInv'
  BY <1>14 DEF SentinelsRead, Return
<1>15. ASSUME NEW t \in Threads, SentinelsFail(t) PROVE LifecycleInv'
  BY <1>15 DEF SentinelsFail, Goto
<1>16. ASSUME NEW t \in Threads, FinalizeReturns(t) PROVE LifecycleInv'
  BY <1>16 DEF FinalizeReturns, Return
<1>17. ASSUME NEW t \in Threads, FinalizeEnters(t) PROVE LifecycleInv'
  <2>1. sess[t] \in Sessions /\ state[sess[t]] = "initialized"
    BY <1>17 DEF FinalizeEnters
  <2>2. sess[t] = owner
    BY <2>1
  <2>3. owner # None
    BY <2>1, <2>2
  <2> QED BY <1>17, <2>1, <2>2, <2>3 DEF FinalizeEnters, Goto
<1>18. ASSUME NEW t \in Threads, CleanupNext(t) PROVE LifecycleInv'
  BY <1>18 DEF CleanupNext, Goto
<1>19. ASSUME NEW t \in Threads, CleanupCloses(t) PROVE LifecycleInv'
  BY <1>19 DEF CleanupCloses, Goto, ClosesNatively, HandleRecords
<1>20. ASSUME NEW t \in Threads, CleanupInterrupted(t) PROVE LifecycleInv'
  BY <1>20 DEF CleanupInterrupted, Return, ClosesNatively
<1>21. ASSUME NEW t \in Threads, CleanupDone(t) PROVE LifecycleInv'
  BY <1>21 DEF CleanupDone, Goto
<1>22. ASSUME NEW t \in Threads, CfmfinReturns(t) PROVE LifecycleInv'
  BY <1>22 DEF CfmfinReturns, Return
<1>23. ASSUME NEW t \in Threads, CfmfinRaises(t) PROVE LifecycleInv'
  BY <1>23 DEF CfmfinRaises, Return
<1>24. ASSUME NEW t \in Threads, OperationRefused(t) PROVE LifecycleInv'
  BY <1>24 DEF OperationRefused, Return
<1>25. ASSUME NEW t \in Threads, OperationEnters(t) PROVE LifecycleInv'
  <2>1. sess[t] \in Sessions /\ state[sess[t]] = "initialized"
    BY <1>25 DEF OperationEnters
  <2>2. sess[t] = owner
    BY <2>1
  <2>3. owner # None
    BY <2>1, <2>2
  <2> QED BY <1>25, <2>1, <2>2, <2>3 DEF OperationEnters, Goto
<1>26. ASSUME NEW t \in Threads, CallReturns(t) PROVE LifecycleInv'
  BY <1>26 DEF CallReturns, Return
<1>27. ASSUME NEW t \in Threads, CallInterrupted(t) PROVE LifecycleInv'
  BY <1>27 DEF CallInterrupted, Return
<1>28. ASSUME NEW t \in Threads, OperationFails(t) PROVE LifecycleInv'
  BY <1>28 DEF OperationFails, Return, Goto
<1>29. ASSUME NEW t \in Threads, Captures(t) PROVE LifecycleInv'
  BY <1>29 DEF Captures, Return
<1>30. ASSUME NEW t \in Threads, OpendbEnters(t) PROVE LifecycleInv'
  <2>1. sess[t] \in Sessions /\ state[sess[t]] = "initialized"
    BY <1>30 DEF OpendbEnters
  <2>2. sess[t] = owner
    BY <2>1
  <2>3. owner # None
    BY <2>1, <2>2
  <2> QED BY <1>30, <2>1, <2>2, <2>3 DEF OpendbEnters, Goto
<1>31. ASSUME NEW t \in Threads, WorkdbReturnsExisting(t) PROVE LifecycleInv'
  BY <1>31 DEF WorkdbReturnsExisting, Return
<1>32. ASSUME NEW t \in Threads, WorkdbEnters(t) PROVE LifecycleInv'
  <2>1. sess[t] \in Sessions /\ state[sess[t]] = "initialized"
    BY <1>32 DEF WorkdbEnters
  <2>2. sess[t] = owner
    BY <2>1
  <2>3. owner # None
    BY <2>1, <2>2
  <2> QED BY <1>32, <2>1, <2>2, <2>3 DEF WorkdbEnters, Goto
<1>33. ASSUME NEW t \in Threads, OpenInterrupted(t) PROVE LifecycleInv'
  BY <1>33 DEF OpenInterrupted, Return, FreeKeys
<1>34. ASSUME NEW t \in Threads, NEW h \in Handles, NEW k \in Keys, OpenReturns(t, h, k)
      PROVE  LifecycleInv'
  BY <1>34 DEF OpenReturns, Return, HandleRecords, FreeKeys
<1>35. ASSUME NEW t \in Threads, ClosedbReturns(t) PROVE LifecycleInv'
  BY <1>35 DEF ClosedbReturns, Return, Unregister, HandleRecords
<1>36. ASSUME NEW t \in Threads, ClosedbEnters(t) PROVE LifecycleInv'
  <2>1. sess[t] \in Sessions /\ state[sess[t]] = "initialized"
    BY <1>36 DEF ClosedbEnters
  <2>2. sess[t] = owner
    BY <2>1
  <2>3. owner # None
    BY <2>1, <2>2
  <2> QED BY <1>36, <2>1, <2>2, <2>3 DEF ClosedbEnters, Goto
<1>37. ASSUME NEW t \in Threads, ClosingReturns(t) PROVE LifecycleInv'
  BY <1>37 DEF ClosingReturns, Return, Unregister, ClosesNatively, HandleRecords
<1>38. ASSUME NEW t \in Threads, ClosingInterrupted(t) PROVE LifecycleInv'
  BY <1>38 DEF ClosingInterrupted, Return, ClosesNatively
<1>39. CASE UNCHANGED vars
  BY <1>39 DEF vars
<1> QED
  BY <1>1, <1>2, <1>3, <1>4, <1>5, <1>6, <1>7, <1>8, <1>9, <1>10, <1>11, <1>12, <1>13,
     <1>14, <1>15, <1>16, <1>17, <1>18, <1>19, <1>20, <1>21, <1>22, <1>23, <1>24, <1>25,
     <1>26, <1>27, <1>28, <1>29, <1>30, <1>31, <1>32, <1>33, <1>34, <1>35, <1>36, <1>37,
     <1>38, <1>39
     DEF Next, InvokeStep, Step, InitializeStep, FinalizeStep, OperationStep

\* Why UsableIsComplete holds: an initialized session without its sentinels is
\* being set up, by the thread that reads them.
SentinelsInv ==
  \A s \in Sessions : state[s] = "initialized" /\ ~sentinels[s]
    => \E t \in Threads : pc[t] = "sentinels" /\ sess[t] = s

\* Every step keeps the sentinels of an initialized session read or being read.
LEMMA SentinelsStep ==
  ASSUME TypeOK, SentinelsInv, [Next]_vars
  PROVE  SentinelsInv'
<1> USE ConstantsOK DEF TypeOK, SentinelsInv, Born, PCs, States, TerminalStates,
         NativeCalls, Waiting, threadVars, objectVars, nativeVars
<1>1. ASSUME NEW s \in Sessions, NEW l \in Libraries, NewSession(s, l) PROVE SentinelsInv'
  BY <1>1 DEF NewSession
<1>2. ASSUME NEW s \in Sessions, NEW l \in Libraries \cup {None}, DefaultSession(s, l)
      PROVE  SentinelsInv'
  BY <1>2 DEF DefaultSession, ChooseDefault
<1>3. ASSUME NEW s \in Sessions, Load(s) PROVE SentinelsInv'
  BY <1>3 DEF Load
<1>4. ASSUME NEW t \in Threads, NEW s \in Sessions, InvokeSession(t, s) PROVE SentinelsInv'
  BY <1>4 DEF InvokeSession, Invoke
<1>5. ASSUME NEW t \in Threads, NEW h \in Handles, InvokeHandle(t, h) PROVE SentinelsInv'
  BY <1>5 DEF InvokeHandle, Invoke
<1>6. ASSUME NEW t \in Threads, InvokeCurrent(t) PROVE SentinelsInv'
  BY <1>6 DEF InvokeCurrent, Invoke
<1>7. ASSUME NEW t \in Threads, CloseChli(t) PROVE SentinelsInv'
  BY <1>7 DEF CloseChli, Invoke
<1>8. ASSUME NEW t \in Threads, NEW s \in Sessions, NEW l \in Libraries \cup {None}, InitChli(t, s, l)
      PROVE  SentinelsInv'
  BY <1>8 DEF InitChli, ChooseDefault, Invoke
<1>9. ASSUME NEW t \in Threads, InitializeReturns(t) PROVE SentinelsInv'
  BY <1>9 DEF InitializeReturns, Return
<1>10. ASSUME NEW t \in Threads, InitializeGivesUp(t) PROVE SentinelsInv'
  BY <1>10 DEF InitializeGivesUp, MayInitialize, Return
<1>11. ASSUME NEW t \in Threads, InitializeEnters(t) PROVE SentinelsInv'
  BY <1>11 DEF InitializeEnters, MayInitialize, Goto
<1>12. ASSUME NEW t \in Threads, CfminiReturns(t) PROVE SentinelsInv'
  BY <1>12 DEF CfminiReturns, Goto
<1>13. ASSUME NEW t \in Threads, CfminiRaises(t) PROVE SentinelsInv'
  BY <1>13 DEF CfminiRaises, Return
<1>14. ASSUME NEW t \in Threads, SentinelsRead(t) PROVE SentinelsInv'
  BY <1>14 DEF SentinelsRead, Return
<1>15. ASSUME NEW t \in Threads, SentinelsFail(t) PROVE SentinelsInv'
  BY <1>15 DEF SentinelsFail, Goto
<1>16. ASSUME NEW t \in Threads, FinalizeReturns(t) PROVE SentinelsInv'
  BY <1>16 DEF FinalizeReturns, Return
<1>17. ASSUME NEW t \in Threads, FinalizeEnters(t) PROVE SentinelsInv'
  BY <1>17 DEF FinalizeEnters, Goto
<1>18. ASSUME NEW t \in Threads, CleanupNext(t) PROVE SentinelsInv'
  BY <1>18 DEF CleanupNext, Goto
<1>19. ASSUME NEW t \in Threads, CleanupCloses(t) PROVE SentinelsInv'
  BY <1>19 DEF CleanupCloses, Goto
<1>20. ASSUME NEW t \in Threads, CleanupInterrupted(t) PROVE SentinelsInv'
  BY <1>20 DEF CleanupInterrupted, Return
<1>21. ASSUME NEW t \in Threads, CleanupDone(t) PROVE SentinelsInv'
  BY <1>21 DEF CleanupDone, Goto
<1>22. ASSUME NEW t \in Threads, CfmfinReturns(t) PROVE SentinelsInv'
  BY <1>22 DEF CfmfinReturns, Return
<1>23. ASSUME NEW t \in Threads, CfmfinRaises(t) PROVE SentinelsInv'
  BY <1>23 DEF CfmfinRaises, Return
<1>24. ASSUME NEW t \in Threads, OperationRefused(t) PROVE SentinelsInv'
  BY <1>24 DEF OperationRefused, Return
<1>25. ASSUME NEW t \in Threads, OperationEnters(t) PROVE SentinelsInv'
  BY <1>25 DEF OperationEnters, Goto
<1>26. ASSUME NEW t \in Threads, CallReturns(t) PROVE SentinelsInv'
  BY <1>26 DEF CallReturns, Return
<1>27. ASSUME NEW t \in Threads, CallInterrupted(t) PROVE SentinelsInv'
  BY <1>27 DEF CallInterrupted, Return
<1>28. ASSUME NEW t \in Threads, OperationFails(t) PROVE SentinelsInv'
  BY <1>28 DEF OperationFails, Return, Goto
<1>29. ASSUME NEW t \in Threads, Captures(t) PROVE SentinelsInv'
  BY <1>29 DEF Captures, Return
<1>30. ASSUME NEW t \in Threads, OpendbEnters(t) PROVE SentinelsInv'
  BY <1>30 DEF OpendbEnters, Goto
<1>31. ASSUME NEW t \in Threads, WorkdbReturnsExisting(t) PROVE SentinelsInv'
  BY <1>31 DEF WorkdbReturnsExisting, Return
<1>32. ASSUME NEW t \in Threads, WorkdbEnters(t) PROVE SentinelsInv'
  BY <1>32 DEF WorkdbEnters, Goto
<1>33. ASSUME NEW t \in Threads, OpenInterrupted(t) PROVE SentinelsInv'
  BY <1>33 DEF OpenInterrupted, Return
<1>34. ASSUME NEW t \in Threads, NEW h \in Handles, NEW k \in Keys, OpenReturns(t, h, k)
      PROVE  SentinelsInv'
  BY <1>34 DEF OpenReturns, Return
<1>35. ASSUME NEW t \in Threads, ClosedbReturns(t) PROVE SentinelsInv'
  BY <1>35 DEF ClosedbReturns, Return
<1>36. ASSUME NEW t \in Threads, ClosedbEnters(t) PROVE SentinelsInv'
  BY <1>36 DEF ClosedbEnters, Goto
<1>37. ASSUME NEW t \in Threads, ClosingReturns(t) PROVE SentinelsInv'
  BY <1>37 DEF ClosingReturns, Return
<1>38. ASSUME NEW t \in Threads, ClosingInterrupted(t) PROVE SentinelsInv'
  BY <1>38 DEF ClosingInterrupted, Return
<1>39. CASE UNCHANGED vars
  BY <1>39 DEF vars
<1> QED
  BY <1>1, <1>2, <1>3, <1>4, <1>5, <1>6, <1>7, <1>8, <1>9, <1>10, <1>11, <1>12, <1>13,
     <1>14, <1>15, <1>16, <1>17, <1>18, <1>19, <1>20, <1>21, <1>22, <1>23, <1>24, <1>25,
     <1>26, <1>27, <1>28, <1>29, <1>30, <1>31, <1>32, <1>33, <1>34, <1>35, <1>36, <1>37,
     <1>38, <1>39
     DEF Next, InvokeStep, Step, InitializeStep, FinalizeStep, OperationStep

\* Between a failing call and the fetch of its text there is no other native call.
LEMMA CaptureStep ==
  ASSUME TypeOK, Serialized, CaptureReadsOwnFailure, [Next]_vars
  PROVE  CaptureReadsOwnFailure'
<1> USE ConstantsOK DEF TypeOK, Serialized, CaptureReadsOwnFailure, MayEnter, Succeeds, Fails,
         PCs, States, TerminalStates, NativeCalls, Waiting, threadVars, objectVars, nativeVars
<1>1. ASSUME NEW s \in Sessions, NEW l \in Libraries, NewSession(s, l) PROVE CaptureReadsOwnFailure'
  BY <1>1 DEF NewSession
<1>2. ASSUME NEW s \in Sessions, NEW l \in Libraries \cup {None}, DefaultSession(s, l)
      PROVE  CaptureReadsOwnFailure'
  BY <1>2 DEF DefaultSession, ChooseDefault
<1>3. ASSUME NEW s \in Sessions, Load(s) PROVE CaptureReadsOwnFailure'
  BY <1>3 DEF Load
<1>4. ASSUME NEW t \in Threads, NEW s \in Sessions, InvokeSession(t, s) PROVE CaptureReadsOwnFailure'
  BY <1>4 DEF InvokeSession, Invoke
<1>5. ASSUME NEW t \in Threads, NEW h \in Handles, InvokeHandle(t, h) PROVE CaptureReadsOwnFailure'
  BY <1>5 DEF InvokeHandle, Invoke
<1>6. ASSUME NEW t \in Threads, InvokeCurrent(t) PROVE CaptureReadsOwnFailure'
  BY <1>6 DEF InvokeCurrent, Invoke
<1>7. ASSUME NEW t \in Threads, CloseChli(t) PROVE CaptureReadsOwnFailure'
  BY <1>7 DEF CloseChli, Invoke
<1>8. ASSUME NEW t \in Threads, NEW s \in Sessions, NEW l \in Libraries \cup {None}, InitChli(t, s, l)
      PROVE  CaptureReadsOwnFailure'
  BY <1>8 DEF InitChli, ChooseDefault, Invoke
<1>9. ASSUME NEW t \in Threads, InitializeReturns(t) PROVE CaptureReadsOwnFailure'
  BY <1>9 DEF InitializeReturns, Return
<1>10. ASSUME NEW t \in Threads, InitializeGivesUp(t) PROVE CaptureReadsOwnFailure'
  BY <1>10 DEF InitializeGivesUp, MayInitialize, Return
<1>11. ASSUME NEW t \in Threads, InitializeEnters(t) PROVE CaptureReadsOwnFailure'
  BY <1>11 DEF InitializeEnters, MayInitialize, Goto
<1>12. ASSUME NEW t \in Threads, CfminiReturns(t) PROVE CaptureReadsOwnFailure'
  BY <1>12 DEF CfminiReturns, Goto
<1>13. ASSUME NEW t \in Threads, CfminiRaises(t) PROVE CaptureReadsOwnFailure'
  BY <1>13 DEF CfminiRaises, Return
<1>14. ASSUME NEW t \in Threads, SentinelsRead(t) PROVE CaptureReadsOwnFailure'
  BY <1>14 DEF SentinelsRead, Return
<1>15. ASSUME NEW t \in Threads, SentinelsFail(t) PROVE CaptureReadsOwnFailure'
  BY <1>15 DEF SentinelsFail, Goto
<1>16. ASSUME NEW t \in Threads, FinalizeReturns(t) PROVE CaptureReadsOwnFailure'
  BY <1>16 DEF FinalizeReturns, Return
<1>17. ASSUME NEW t \in Threads, FinalizeEnters(t) PROVE CaptureReadsOwnFailure'
  BY <1>17 DEF FinalizeEnters, Goto
<1>18. ASSUME NEW t \in Threads, CleanupNext(t) PROVE CaptureReadsOwnFailure'
  BY <1>18 DEF CleanupNext, Goto
<1>19. ASSUME NEW t \in Threads, CleanupCloses(t) PROVE CaptureReadsOwnFailure'
  BY <1>19 DEF CleanupCloses, Goto
<1>20. ASSUME NEW t \in Threads, CleanupInterrupted(t) PROVE CaptureReadsOwnFailure'
  BY <1>20 DEF CleanupInterrupted, Return
<1>21. ASSUME NEW t \in Threads, CleanupDone(t) PROVE CaptureReadsOwnFailure'
  BY <1>21 DEF CleanupDone, Goto
<1>22. ASSUME NEW t \in Threads, CfmfinReturns(t) PROVE CaptureReadsOwnFailure'
  BY <1>22 DEF CfmfinReturns, Return
<1>23. ASSUME NEW t \in Threads, CfmfinRaises(t) PROVE CaptureReadsOwnFailure'
  BY <1>23 DEF CfmfinRaises, Return
<1>24. ASSUME NEW t \in Threads, OperationRefused(t) PROVE CaptureReadsOwnFailure'
  BY <1>24 DEF OperationRefused, Return
<1>25. ASSUME NEW t \in Threads, OperationEnters(t) PROVE CaptureReadsOwnFailure'
  BY <1>25 DEF OperationEnters, Goto
<1>26. ASSUME NEW t \in Threads, CallReturns(t) PROVE CaptureReadsOwnFailure'
  BY <1>26 DEF CallReturns, Return
<1>27. ASSUME NEW t \in Threads, CallInterrupted(t) PROVE CaptureReadsOwnFailure'
  BY <1>27 DEF CallInterrupted, Return
<1>28. ASSUME NEW t \in Threads, OperationFails(t) PROVE CaptureReadsOwnFailure'
  BY <1>28 DEF OperationFails, Return, Goto
<1>29. ASSUME NEW t \in Threads, Captures(t) PROVE CaptureReadsOwnFailure'
  BY <1>29 DEF Captures, Return
<1>30. ASSUME NEW t \in Threads, OpendbEnters(t) PROVE CaptureReadsOwnFailure'
  BY <1>30 DEF OpendbEnters, Goto
<1>31. ASSUME NEW t \in Threads, WorkdbReturnsExisting(t) PROVE CaptureReadsOwnFailure'
  BY <1>31 DEF WorkdbReturnsExisting, Return
<1>32. ASSUME NEW t \in Threads, WorkdbEnters(t) PROVE CaptureReadsOwnFailure'
  BY <1>32 DEF WorkdbEnters, Goto
<1>33. ASSUME NEW t \in Threads, OpenInterrupted(t) PROVE CaptureReadsOwnFailure'
  BY <1>33 DEF OpenInterrupted, Return
<1>34. ASSUME NEW t \in Threads, NEW h \in Handles, NEW k \in Keys, OpenReturns(t, h, k)
      PROVE  CaptureReadsOwnFailure'
  BY <1>34 DEF OpenReturns, Return
<1>35. ASSUME NEW t \in Threads, ClosedbReturns(t) PROVE CaptureReadsOwnFailure'
  BY <1>35 DEF ClosedbReturns, Return
<1>36. ASSUME NEW t \in Threads, ClosedbEnters(t) PROVE CaptureReadsOwnFailure'
  BY <1>36 DEF ClosedbEnters, Goto
<1>37. ASSUME NEW t \in Threads, ClosingReturns(t) PROVE CaptureReadsOwnFailure'
  BY <1>37 DEF ClosingReturns, Return
<1>38. ASSUME NEW t \in Threads, ClosingInterrupted(t) PROVE CaptureReadsOwnFailure'
  BY <1>38 DEF ClosingInterrupted, Return
<1>39. CASE UNCHANGED vars
  BY <1>39 DEF vars
<1> QED
  BY <1>1, <1>2, <1>3, <1>4, <1>5, <1>6, <1>7, <1>8, <1>9, <1>10, <1>11, <1>12, <1>13,
     <1>14, <1>15, <1>16, <1>17, <1>18, <1>19, <1>20, <1>21, <1>22, <1>23, <1>24, <1>25,
     <1>26, <1>27, <1>28, <1>29, <1>30, <1>31, <1>32, <1>33, <1>34, <1>35, <1>36, <1>37,
     <1>38, <1>39
     DEF Next, InvokeStep, Step, InitializeStep, FinalizeStep, OperationStep

\* Unless an interrupt strikes a native close, every step keeps each open handle
\* bound to its own database.
LEMMA HandleStep ==
  ASSUME TypeOK, CallsOK, LifecycleInv, HandleInv, [Next]_vars,
         Interrupts \cap {"closing", "cfmcldb"} = {}
  PROVE  HandleInv'
<1> USE ConstantsOK DEF TypeOK, CallsOK, LifecycleInv, HandleInv, Serialized, UpCalls, Alive, Born, HandleRecords, PCs, States, TerminalStates,
         NativeCalls, Waiting, MayEnter, Succeeds, Fails, threadVars, objectVars, nativeVars
<1>1. ASSUME NEW s \in Sessions, NEW l \in Libraries, NewSession(s, l) PROVE HandleInv'
  BY <1>1 DEF NewSession
<1>2. ASSUME NEW s \in Sessions, NEW l \in Libraries \cup {None}, DefaultSession(s, l)
      PROVE  HandleInv'
  BY <1>2 DEF DefaultSession, ChooseDefault
<1>3. ASSUME NEW s \in Sessions, Load(s) PROVE HandleInv'
  BY <1>3 DEF Load
<1>4. ASSUME NEW t \in Threads, NEW s \in Sessions, InvokeSession(t, s) PROVE HandleInv'
  BY <1>4 DEF InvokeSession, Invoke
<1>5. ASSUME NEW t \in Threads, NEW h \in Handles, InvokeHandle(t, h) PROVE HandleInv'
  BY <1>5 DEF InvokeHandle, Invoke, HandleRecords
<1>6. ASSUME NEW t \in Threads, InvokeCurrent(t) PROVE HandleInv'
  BY <1>6 DEF InvokeCurrent, Invoke
<1>7. ASSUME NEW t \in Threads, CloseChli(t) PROVE HandleInv'
  BY <1>7 DEF CloseChli, Invoke
<1>8. ASSUME NEW t \in Threads, NEW s \in Sessions, NEW l \in Libraries \cup {None}, InitChli(t, s, l)
      PROVE  HandleInv'
  BY <1>8 DEF InitChli, Invoke, ChooseDefault
<1>9. ASSUME NEW t \in Threads, InitializeReturns(t) PROVE HandleInv'
  BY <1>9 DEF InitializeReturns, Return
<1>10. ASSUME NEW t \in Threads, InitializeGivesUp(t) PROVE HandleInv'
  BY <1>10 DEF InitializeGivesUp, MayInitialize, Return
<1>11. ASSUME NEW t \in Threads, InitializeEnters(t) PROVE HandleInv'
  BY <1>11 DEF InitializeEnters, MayInitialize, Goto
<1>12. ASSUME NEW t \in Threads, CfminiReturns(t) PROVE HandleInv'
  BY <1>12 DEF CfminiReturns, Goto
<1>13. ASSUME NEW t \in Threads, CfminiRaises(t) PROVE HandleInv'
  BY <1>13 DEF CfminiRaises, Return
<1>14. ASSUME NEW t \in Threads, SentinelsRead(t) PROVE HandleInv'
  BY <1>14 DEF SentinelsRead, Return
<1>15. ASSUME NEW t \in Threads, SentinelsFail(t) PROVE HandleInv'
  BY <1>15 DEF SentinelsFail, Goto
<1>16. ASSUME NEW t \in Threads, FinalizeReturns(t) PROVE HandleInv'
  BY <1>16 DEF FinalizeReturns, Return
<1>17. ASSUME NEW t \in Threads, FinalizeEnters(t) PROVE HandleInv'
  BY <1>17 DEF FinalizeEnters, Goto, Tracked
<1>18. ASSUME NEW t \in Threads, CleanupNext(t) PROVE HandleInv'
  BY <1>18 DEF CleanupNext, Goto
<1>19. ASSUME NEW t \in Threads, CleanupCloses(t) PROVE HandleInv'
  BY <1>19 DEF CleanupCloses, Goto, ClosesNatively, HandleRecords
<1>20. ASSUME NEW t \in Threads, CleanupInterrupted(t) PROVE HandleInv'
  BY <1>20 DEF CleanupInterrupted, Return, ClosesNatively
<1>21. ASSUME NEW t \in Threads, CleanupDone(t) PROVE HandleInv'
  BY <1>21 DEF CleanupDone, Goto
<1>22. ASSUME NEW t \in Threads, CfmfinReturns(t) PROVE HandleInv'
  BY <1>22 DEF CfmfinReturns, Return
<1>23. ASSUME NEW t \in Threads, CfmfinRaises(t) PROVE HandleInv'
  BY <1>23 DEF CfmfinRaises, Return
<1>24. ASSUME NEW t \in Threads, OperationRefused(t) PROVE HandleInv'
  BY <1>24 DEF OperationRefused, Return
<1>25. ASSUME NEW t \in Threads, OperationEnters(t) PROVE HandleInv'
  BY <1>25 DEF OperationEnters, Goto, IsOpen
<1>26. ASSUME NEW t \in Threads, CallReturns(t) PROVE HandleInv'
  BY <1>26 DEF CallReturns, Return
<1>27. ASSUME NEW t \in Threads, CallInterrupted(t) PROVE HandleInv'
  BY <1>27 DEF CallInterrupted, Return
<1>28. ASSUME NEW t \in Threads, OperationFails(t) PROVE HandleInv'
  <2>1. CASE Goto(t, "capture") /\ UNCHANGED <<sess, hdl, todo>>
    BY <1>28, <2>1 DEF OperationFails, Goto
  <2>2. CASE Return(t)
    BY <1>28, <2>2 DEF OperationFails, Return
  <2> QED BY <1>28, <2>1, <2>2 DEF OperationFails
<1>29. ASSUME NEW t \in Threads, Captures(t) PROVE HandleInv'
  BY <1>29 DEF Captures, Return
<1>30. ASSUME NEW t \in Threads, OpendbEnters(t) PROVE HandleInv'
  BY <1>30 DEF OpendbEnters, Goto
<1>31. ASSUME NEW t \in Threads, WorkdbReturnsExisting(t) PROVE HandleInv'
  BY <1>31 DEF WorkdbReturnsExisting, Return
<1>32. ASSUME NEW t \in Threads, WorkdbEnters(t) PROVE HandleInv'
  BY <1>32 DEF WorkdbEnters, Goto
<1>33. ASSUME NEW t \in Threads, OpenInterrupted(t) PROVE HandleInv'
  BY <1>33 DEF OpenInterrupted, Return, FreeKeys
<1>34. ASSUME NEW t \in Threads, NEW h \in Handles, NEW k \in Keys, OpenReturns(t, h, k)
      PROVE  HandleInv'
  BY <1>34 DEF OpenReturns, Return, HandleRecords, FreeKeys
<1>35. ASSUME NEW t \in Threads, ClosedbReturns(t) PROVE HandleInv'
  <2>1. CASE UNCHANGED <<handle, databases, work>>
    BY <1>35, <2>1 DEF ClosedbReturns, Return
  <2>2. CASE /\ handle[hdl[t]].open
             /\ Stale(hdl[t])
             /\ handle' = [handle EXCEPT ![hdl[t]].open = FALSE]
             /\ Unregister(sess[t], hdl[t])
    <3>1. hdl[t] \in Handles /\ handle[hdl[t]] # None
      BY <1>35 DEF ClosedbReturns
    <3>2. /\ \A x \in Handles : handle'[x] # None <=> handle[x] # None
          /\ \A x \in Handles :
               handle[x] # None => /\ handle'[x].session = handle[x].session
                                   /\ handle'[x].key = handle[x].key
                                   /\ handle'[x].open <=> handle[x].open /\ x # hdl[t]
      <4> HIDE DEF TypeOK, CallsOK, LifecycleInv, HandleInv, HandleRecords
      <4> QED BY <2>2, <3>1, CloseFrame
    <3>3. \A s \in Sessions, k \in Keys : databases'[s][k] \in {None, databases[s][k]}
      BY <2>2 DEF Unregister
    <3>4. sess[t] \in Sessions /\ handle[hdl[t]].session = sess[t]
      BY <1>35 DEF ClosedbReturns
    <3>5. databases'[sess[t]] = [databases[sess[t]] EXCEPT ![handle[hdl[t]].key] = None]
      BY <2>2, <3>4 DEF Unregister
    <3>6. \A s \in Sessions, k \in Keys :
            databases'[s][k] # None => databases'[s][k] # hdl[t]
      BY <3>1, <3>3, <3>4, <3>5
    <3> QED BY <1>35, <3>2, <3>3, <3>6 DEF ClosedbReturns, Return
  <2> QED BY <1>35, <2>1, <2>2 DEF ClosedbReturns
<1>36. ASSUME NEW t \in Threads, ClosedbEnters(t) PROVE HandleInv'
  BY <1>36 DEF ClosedbEnters, Goto, IsOpen
<1>37. ASSUME NEW t \in Threads, ClosingReturns(t) PROVE HandleInv'
  BY <1>37 DEF ClosingReturns, Return, Unregister, ClosesNatively, HandleRecords
<1>38. ASSUME NEW t \in Threads, ClosingInterrupted(t) PROVE HandleInv'
  BY <1>38 DEF ClosingInterrupted, Return, ClosesNatively
<1>39. CASE UNCHANGED vars
  BY <1>39 DEF vars
<1> QED
  BY <1>1, <1>2, <1>3, <1>4, <1>5, <1>6, <1>7, <1>8, <1>9, <1>10, <1>11, <1>12, <1>13,
     <1>14, <1>15, <1>16, <1>17, <1>18, <1>19, <1>20, <1>21, <1>22, <1>23, <1>24, <1>25,
     <1>26, <1>27, <1>28, <1>29, <1>30, <1>31, <1>32, <1>33, <1>34, <1>35, <1>36, <1>37,
     <1>38, <1>39
     DEF Next, InvokeStep, Step, InitializeStep, FinalizeStep, OperationStep

\* Why AllInvalidated holds when no interrupt strikes a native close: an open handle
\* is one of the running session, under its key, and a finalization has yet to
\* close it; a session that is not running tracks none.
ClosedInv ==
  /\ \A s \in Sessions :
       state[s] # "initialized" \/ (\E t \in Threads : pc[t] = "sentinels") =>
         /\ \A k \in Keys : databases[s][k] = None
         /\ work[s] = None
  /\ \A h \in Handles : Alive(h) /\ handle[h].open =>
       /\ state[owner] = "initialized"
       /\ databases[owner][handle[h].key] = h
  /\ \A t \in Threads : pc[t] \in {"cleanup", "cfmcldb"} =>
       \A h \in Handles : Alive(h) /\ handle[h].open =>
         h \in todo \/ (pc[t] = "cfmcldb" /\ hdl[t] = h)

\* Unless an interrupt strikes a native close, every step keeps open handles and
\* tracked databases those of a running session.
LEMMA ClosedStep ==
  ASSUME TypeOK, CallsOK, LifecycleInv, HandleInv, ClosedInv, [Next]_vars,
         Interrupts \cap {"closing", "cfmcldb"} = {}
  PROVE  ClosedInv'
<1> USE ConstantsOK DEF TypeOK, CallsOK, LifecycleInv, HandleInv, ClosedInv, Serialized, UpCalls,
         Alive, Born, HandleRecords, PCs, States, TerminalStates,
         NativeCalls, Waiting, MayEnter, Succeeds, Fails, threadVars, objectVars, nativeVars
<1>1. ASSUME NEW s \in Sessions, NEW l \in Libraries, NewSession(s, l) PROVE ClosedInv'
  BY <1>1 DEF NewSession
<1>2. ASSUME NEW s \in Sessions, NEW l \in Libraries \cup {None}, DefaultSession(s, l)
      PROVE  ClosedInv'
  BY <1>2 DEF DefaultSession, ChooseDefault
<1>3. ASSUME NEW s \in Sessions, Load(s) PROVE ClosedInv'
  BY <1>3 DEF Load
<1>4. ASSUME NEW t \in Threads, NEW s \in Sessions, InvokeSession(t, s) PROVE ClosedInv'
  BY <1>4 DEF InvokeSession, Invoke
<1>5. ASSUME NEW t \in Threads, NEW h \in Handles, InvokeHandle(t, h) PROVE ClosedInv'
  BY <1>5 DEF InvokeHandle, Invoke, HandleRecords
<1>6. ASSUME NEW t \in Threads, InvokeCurrent(t) PROVE ClosedInv'
  BY <1>6 DEF InvokeCurrent, Invoke
<1>7. ASSUME NEW t \in Threads, CloseChli(t) PROVE ClosedInv'
  BY <1>7 DEF CloseChli, Invoke
<1>8. ASSUME NEW t \in Threads, NEW s \in Sessions, NEW l \in Libraries \cup {None}, InitChli(t, s, l)
      PROVE  ClosedInv'
  BY <1>8 DEF InitChli, Invoke, ChooseDefault
<1>9. ASSUME NEW t \in Threads, InitializeReturns(t) PROVE ClosedInv'
  BY <1>9 DEF InitializeReturns, Return
<1>10. ASSUME NEW t \in Threads, InitializeGivesUp(t) PROVE ClosedInv'
  BY <1>10 DEF InitializeGivesUp, MayInitialize, Return
<1>11. ASSUME NEW t \in Threads, InitializeEnters(t) PROVE ClosedInv'
  BY <1>11 DEF InitializeEnters, MayInitialize, Goto
<1>12. ASSUME NEW t \in Threads, CfminiReturns(t) PROVE ClosedInv'
  <2>1. \A s \in Sessions : state[s] # "initialized"
    BY <1>12 DEF CfminiReturns
  <2>2. \A s \in Sessions : work[s] = None /\ \A k \in Keys : databases[s][k] = None
    BY <2>1
  <2>3. \A h \in Handles : Alive(h) => ~handle[h].open
    BY <1>12, <2>1, <2>2 DEF CfminiReturns
  <2> QED BY <1>12, <2>2, <2>3 DEF CfminiReturns, Goto
<1>13. ASSUME NEW t \in Threads, CfminiRaises(t) PROVE ClosedInv'
  BY <1>13 DEF CfminiRaises, Return
<1>14. ASSUME NEW t \in Threads, SentinelsRead(t) PROVE ClosedInv'
  BY <1>14 DEF SentinelsRead, Return
<1>15. ASSUME NEW t \in Threads, SentinelsFail(t) PROVE ClosedInv'
  BY <1>15 DEF SentinelsFail, Goto
<1>16. ASSUME NEW t \in Threads, FinalizeReturns(t) PROVE ClosedInv'
  BY <1>16 DEF FinalizeReturns, Return
<1>17. ASSUME NEW t \in Threads, FinalizeEnters(t) PROVE ClosedInv'
  <2>1. sess[t] \in Sessions /\ sess[t] = owner
    BY <1>17 DEF FinalizeEnters
  <2>2. \A h \in Handles : Alive(h) /\ handle[h].open => handle[h].key \in Keys
    OBVIOUS
  <2>3. \A h \in Handles : Alive(h) /\ handle[h].open => h \in todo'
    BY <1>17, <2>1, <2>2 DEF FinalizeEnters, Tracked
  <2> QED BY <1>17, <2>3 DEF FinalizeEnters, Goto
<1>18. ASSUME NEW t \in Threads, CleanupNext(t) PROVE ClosedInv'
  BY <1>18 DEF CleanupNext, Goto
<1>19. ASSUME NEW t \in Threads, CleanupCloses(t) PROVE ClosedInv'
  BY <1>19 DEF CleanupCloses, Goto, ClosesNatively, HandleRecords
<1>20. ASSUME NEW t \in Threads, CleanupInterrupted(t) PROVE ClosedInv'
  BY <1>20 DEF CleanupInterrupted, Return, ClosesNatively
<1>21. ASSUME NEW t \in Threads, CleanupDone(t) PROVE ClosedInv'
  BY <1>21 DEF CleanupDone, Goto
<1>22. ASSUME NEW t \in Threads, CfmfinReturns(t) PROVE ClosedInv'
  BY <1>22 DEF CfmfinReturns, Return
<1>23. ASSUME NEW t \in Threads, CfmfinRaises(t) PROVE ClosedInv'
  BY <1>23 DEF CfmfinRaises, Return
<1>24. ASSUME NEW t \in Threads, OperationRefused(t) PROVE ClosedInv'
  BY <1>24 DEF OperationRefused, Return
<1>25. ASSUME NEW t \in Threads, OperationEnters(t) PROVE ClosedInv'
  BY <1>25 DEF OperationEnters, Goto, IsOpen
<1>26. ASSUME NEW t \in Threads, CallReturns(t) PROVE ClosedInv'
  BY <1>26 DEF CallReturns, Return
<1>27. ASSUME NEW t \in Threads, CallInterrupted(t) PROVE ClosedInv'
  BY <1>27 DEF CallInterrupted, Return
<1>28. ASSUME NEW t \in Threads, OperationFails(t) PROVE ClosedInv'
  <2>1. CASE Goto(t, "capture") /\ UNCHANGED <<sess, hdl, todo>>
    BY <1>28, <2>1 DEF OperationFails, Goto
  <2>2. CASE Return(t)
    BY <1>28, <2>2 DEF OperationFails, Return
  <2> QED BY <1>28, <2>1, <2>2 DEF OperationFails
<1>29. ASSUME NEW t \in Threads, Captures(t) PROVE ClosedInv'
  BY <1>29 DEF Captures, Return
<1>30. ASSUME NEW t \in Threads, OpendbEnters(t) PROVE ClosedInv'
  BY <1>30 DEF OpendbEnters, Goto
<1>31. ASSUME NEW t \in Threads, WorkdbReturnsExisting(t) PROVE ClosedInv'
  BY <1>31 DEF WorkdbReturnsExisting, Return
<1>32. ASSUME NEW t \in Threads, WorkdbEnters(t) PROVE ClosedInv'
  BY <1>32 DEF WorkdbEnters, Goto
<1>33. ASSUME NEW t \in Threads, OpenInterrupted(t) PROVE ClosedInv'
  BY <1>33 DEF OpenInterrupted, Return, FreeKeys
<1>34. ASSUME NEW t \in Threads, NEW h \in Handles, NEW k \in Keys, OpenReturns(t, h, k)
      PROVE  ClosedInv'
  BY <1>34 DEF OpenReturns, Return, HandleRecords, FreeKeys
<1>35. ASSUME NEW t \in Threads, ClosedbReturns(t) PROVE ClosedInv'
  <2>1. CASE UNCHANGED <<handle, databases, work>>
    BY <1>35, <2>1 DEF ClosedbReturns, Return
  <2>2. CASE /\ handle[hdl[t]].open
             /\ Stale(hdl[t])
             /\ handle' = [handle EXCEPT ![hdl[t]].open = FALSE]
             /\ Unregister(sess[t], hdl[t])
    <3>1. hdl[t] \in Handles /\ handle[hdl[t]] # None
      BY <1>35 DEF ClosedbReturns
    <3>2. /\ \A x \in Handles : handle'[x] # None <=> handle[x] # None
          /\ \A x \in Handles :
               handle[x] # None => /\ handle'[x].session = handle[x].session
                                   /\ handle'[x].key = handle[x].key
                                   /\ handle'[x].open <=> handle[x].open /\ x # hdl[t]
      <4> HIDE DEF TypeOK, CallsOK, LifecycleInv, HandleInv, ClosedInv, HandleRecords
      <4> QED BY <2>2, <3>1, CloseFrame
    <3>3. \A s \in Sessions, k \in Keys : databases'[s][k] \in {None, databases[s][k]}
      BY <2>2 DEF Unregister
    <3>4. sess[t] \in Sessions /\ handle[hdl[t]].session = sess[t]
      BY <1>35 DEF ClosedbReturns
    <3>5. databases'[sess[t]] = [databases[sess[t]] EXCEPT ![handle[hdl[t]].key] = None]
      BY <2>2, <3>4 DEF Unregister
    <3>6. databases[sess[t]][handle[hdl[t]].key] = hdl[t]
      BY <2>2, <3>1, <3>4
    <3>7. \A s \in Sessions, k \in Keys :
            databases[s][k] # hdl[t] => databases'[s][k] = databases[s][k]
      BY <2>2, <3>1, <3>4, <3>6 DEF Unregister
    <3>8. \A s \in Sessions : work'[s] \in {None, work[s]}
      BY <2>2 DEF Unregister
    <3>9. UNCHANGED <<state, owner>> /\ \A u \in Threads : pc'[u] \in {pc[u], "idle"}
      BY <1>35 DEF ClosedbReturns, Return
    <3>10. \A u \in Threads : pc'[u] \notin {"cleanup", "cfmcldb"}
      BY <1>35 DEF ClosedbReturns, Return
    <3> QED BY <3>2, <3>3, <3>7, <3>8, <3>9, <3>10
  <2> QED BY <1>35, <2>1, <2>2 DEF ClosedbReturns
<1>36. ASSUME NEW t \in Threads, ClosedbEnters(t) PROVE ClosedInv'
  BY <1>36 DEF ClosedbEnters, Goto, IsOpen
<1>37. ASSUME NEW t \in Threads, ClosingReturns(t) PROVE ClosedInv'
  BY <1>37 DEF ClosingReturns, Return, Unregister, ClosesNatively, HandleRecords
<1>38. ASSUME NEW t \in Threads, ClosingInterrupted(t) PROVE ClosedInv'
  BY <1>38 DEF ClosingInterrupted, Return, ClosesNatively
<1>39. CASE UNCHANGED vars
  BY <1>39 DEF vars
<1> QED
  BY <1>1, <1>2, <1>3, <1>4, <1>5, <1>6, <1>7, <1>8, <1>9, <1>10, <1>11, <1>12, <1>13,
     <1>14, <1>15, <1>16, <1>17, <1>18, <1>19, <1>20, <1>21, <1>22, <1>23, <1>24, <1>25,
     <1>26, <1>27, <1>28, <1>29, <1>30, <1>31, <1>32, <1>33, <1>34, <1>35, <1>36, <1>37,
     <1>38, <1>39
     DEF Next, InvokeStep, Step, InitializeStep, FinalizeStep, OperationStep

\* Why EveryDatabaseTracked holds when no interrupt strikes a native open or close:
\* the library has nothing open before it is up, and what it has open then is open
\* in a handle of this runtime, the work database in that of the work slot.
TrackedInv ==
  /\ \A s \in Sessions : state[s] = "initialized" => generation[s] = 1
  /\ \A h \in Handles : Alive(h) /\ handle[h].open =>
       /\ handle[h].generation = 1
       /\ handle[h].work => work[owner] = h
  /\ \A t \in Threads : pc[t] = "cfmopwk" =>
       \A h \in Handles : Alive(h) /\ handle[h].open => ~handle[h].work
  /\ owner = None \/ state[owner] = "failed" => \A k \in Keys : nativeDb[k] = None
  /\ owner # None /\ state[owner] = "initialized"
     /\ (\A t \in Threads : pc[t] \notin {"cleanup", "cfmcldb"}) =>
       \A k \in Keys : nativeDb[k] # None =>
         /\ nativeDb[k] \in Handles
         /\ Alive(nativeDb[k])
         /\ handle[nativeDb[k]].open
         /\ handle[nativeDb[k]].key = k

\* A session found initialized is the owner.
LEMMA RunningIsOwner ==
  ASSUME TypeOK, LifecycleInv, NEW s \in Sessions, state[s] = "initialized"
  PROVE  s = owner /\ owner # None
<1>1. s = owner
  BY DEF LifecycleInv
<1> QED BY <1>1, ConstantsOK

\* Unless an interrupt strikes a native open or close, every step keeps each open
\* database that of an open handle.
LEMMA TrackedStep ==
  ASSUME TypeOK, CallsOK, LifecycleInv, HandleInv, ClosedInv, TrackedInv, [Next]_vars,
         Interrupts \cap {"closing", "cfmcldb", "cfmopdb", "cfmopwk"} = {}
  PROVE  TrackedInv'
<1> USE ConstantsOK DEF TypeOK, CallsOK, LifecycleInv, HandleInv, ClosedInv, TrackedInv, Serialized,
         UpCalls, Alive, Born, HandleRecords, PCs, States, TerminalStates,
         NativeCalls, Waiting, MayEnter, Succeeds, Fails, threadVars, objectVars, nativeVars
<1>1. ASSUME NEW s \in Sessions, NEW l \in Libraries, NewSession(s, l) PROVE TrackedInv'
  BY <1>1 DEF NewSession
<1>2. ASSUME NEW s \in Sessions, NEW l \in Libraries \cup {None}, DefaultSession(s, l)
      PROVE  TrackedInv'
  BY <1>2 DEF DefaultSession, ChooseDefault
<1>3. ASSUME NEW s \in Sessions, Load(s) PROVE TrackedInv'
  BY <1>3 DEF Load
<1>4. ASSUME NEW t \in Threads, NEW s \in Sessions, InvokeSession(t, s) PROVE TrackedInv'
  BY <1>4 DEF InvokeSession, Invoke
<1>5. ASSUME NEW t \in Threads, NEW h \in Handles, InvokeHandle(t, h) PROVE TrackedInv'
  BY <1>5 DEF InvokeHandle, Invoke, HandleRecords
<1>6. ASSUME NEW t \in Threads, InvokeCurrent(t) PROVE TrackedInv'
  BY <1>6 DEF InvokeCurrent, Invoke
<1>7. ASSUME NEW t \in Threads, CloseChli(t) PROVE TrackedInv'
  BY <1>7 DEF CloseChli, Invoke
<1>8. ASSUME NEW t \in Threads, NEW s \in Sessions, NEW l \in Libraries \cup {None}, InitChli(t, s, l)
      PROVE  TrackedInv'
  BY <1>8 DEF InitChli, Invoke, ChooseDefault
<1>9. ASSUME NEW t \in Threads, InitializeReturns(t) PROVE TrackedInv'
  BY <1>9 DEF InitializeReturns, Return
<1>10. ASSUME NEW t \in Threads, InitializeGivesUp(t) PROVE TrackedInv'
  BY <1>10 DEF InitializeGivesUp, MayInitialize, Return
<1>11. ASSUME NEW t \in Threads, InitializeEnters(t) PROVE TrackedInv'
  BY <1>11 DEF InitializeEnters, MayInitialize, Goto
<1>12. ASSUME NEW t \in Threads, CfminiReturns(t) PROVE TrackedInv'
  BY <1>12 DEF CfminiReturns, Goto
<1>13. ASSUME NEW t \in Threads, CfminiRaises(t) PROVE TrackedInv'
  BY <1>13 DEF CfminiRaises, Return
<1>14. ASSUME NEW t \in Threads, SentinelsRead(t) PROVE TrackedInv'
  BY <1>14 DEF SentinelsRead, Return
<1>15. ASSUME NEW t \in Threads, SentinelsFail(t) PROVE TrackedInv'
  BY <1>15 DEF SentinelsFail, Goto
<1>16. ASSUME NEW t \in Threads, FinalizeReturns(t) PROVE TrackedInv'
  BY <1>16 DEF FinalizeReturns, Return
<1>17. ASSUME NEW t \in Threads, FinalizeEnters(t) PROVE TrackedInv'
  BY <1>17 DEF FinalizeEnters, Goto, Tracked
<1>18. ASSUME NEW t \in Threads, CleanupNext(t) PROVE TrackedInv'
  BY <1>18 DEF CleanupNext, Goto
<1>19. ASSUME NEW t \in Threads, CleanupCloses(t) PROVE TrackedInv'
  BY <1>19 DEF CleanupCloses, Goto, ClosesNatively, HandleRecords
<1>20. ASSUME NEW t \in Threads, CleanupInterrupted(t) PROVE TrackedInv'
  BY <1>20 DEF CleanupInterrupted, Return, ClosesNatively
<1>21. ASSUME NEW t \in Threads, CleanupDone(t) PROVE TrackedInv'
  BY <1>21 DEF CleanupDone, Goto
<1>22. ASSUME NEW t \in Threads, CfmfinReturns(t) PROVE TrackedInv'
  BY <1>22 DEF CfmfinReturns, Return
<1>23. ASSUME NEW t \in Threads, CfmfinRaises(t) PROVE TrackedInv'
  BY <1>23 DEF CfmfinRaises, Return
<1>24. ASSUME NEW t \in Threads, OperationRefused(t) PROVE TrackedInv'
  BY <1>24 DEF OperationRefused, Return
<1>25. ASSUME NEW t \in Threads, OperationEnters(t) PROVE TrackedInv'
  BY <1>25 DEF OperationEnters, Goto, IsOpen
<1>26. ASSUME NEW t \in Threads, CallReturns(t) PROVE TrackedInv'
  BY <1>26 DEF CallReturns, Return
<1>27. ASSUME NEW t \in Threads, CallInterrupted(t) PROVE TrackedInv'
  BY <1>27 DEF CallInterrupted, Return
<1>28. ASSUME NEW t \in Threads, OperationFails(t) PROVE TrackedInv'
  <2>1. CASE Goto(t, "capture") /\ UNCHANGED <<sess, hdl, todo>>
    BY <1>28, <2>1 DEF OperationFails, Goto
  <2>2. CASE Return(t)
    BY <1>28, <2>2 DEF OperationFails, Return
  <2> QED BY <1>28, <2>1, <2>2 DEF OperationFails
<1>29. ASSUME NEW t \in Threads, Captures(t) PROVE TrackedInv'
  BY <1>29 DEF Captures, Return
<1>30. ASSUME NEW t \in Threads, OpendbEnters(t) PROVE TrackedInv'
  BY <1>30 DEF OpendbEnters, Goto
<1>31. ASSUME NEW t \in Threads, WorkdbReturnsExisting(t) PROVE TrackedInv'
  BY <1>31 DEF WorkdbReturnsExisting, Return
<1>32. ASSUME NEW t \in Threads, WorkdbEnters(t) PROVE TrackedInv'
  <2>1. sess[t] = owner /\ owner \in Sessions /\ state[owner] = "initialized"
    <3>1. sess[t] \in Sessions /\ state[sess[t]] = "initialized"
      BY <1>32 DEF WorkdbEnters
    <3> HIDE DEF TypeOK, LifecycleInv
    <3> QED BY <3>1, RunningIsOwner
  <2>2. ASSUME NEW h \in Handles, Alive(h), handle[h].open, handle[h].work PROVE FALSE
    <3>1. work[owner] = h /\ handle[h].session = owner /\ handle[h].generation = generation[owner]
      BY <2>1, <2>2
    <3>2. WorkIsOpen(owner)
      BY <2>1, <2>2, <3>1 DEF WorkIsOpen, IsOpen, Stale, Terminal
    <3> QED BY <1>32, <2>1, <3>2 DEF WorkdbEnters
  <2>3. UNCHANGED <<handle, nativeDb, work, owner, state, generation>>
    BY <1>32 DEF WorkdbEnters
  <2>4. \A u \in Threads : pc'[u] = pc[u] \/ pc'[u] = "cfmopwk"
    BY <1>32 DEF WorkdbEnters, Goto
  <2>5. \A u \in Threads : pc[u] \notin {"cleanup", "cfmcldb"}
    BY <1>32 DEF WorkdbEnters
  <2> QED BY <2>2, <2>3, <2>4, <2>5
<1>33. ASSUME NEW t \in Threads, OpenInterrupted(t) PROVE TrackedInv'
  BY <1>33 DEF OpenInterrupted, Return, FreeKeys
<1>34. ASSUME NEW t \in Threads, NEW h \in Handles, NEW k \in Keys, OpenReturns(t, h, k)
      PROVE  TrackedInv'
  <2> DEFINE opened == [session |-> sess[t], key |-> k, open |-> TRUE,
                        generation |-> generation[sess[t]], work |-> pc[t] = "cfmopwk"]
  <2>1. sess[t] = owner /\ owner \in Sessions /\ owner # None /\ state[owner] = "initialized"
    <3>1. sess[t] \in Sessions /\ state[sess[t]] = "initialized"
      BY <1>34 DEF OpenReturns
    <3> HIDE DEF TypeOK, LifecycleInv
    <3> QED BY <3>1, RunningIsOwner
  <2>2. generation[owner] = 1
    BY <2>1
  <2>3. handle'[h] = opened /\ \A x \in Handles : x # h => handle'[x] = handle[x]
    BY <1>34 DEF OpenReturns
  <2>4. opened \in HandleRecords
    BY <2>1, <2>2
  <2>5. opened # None
    BY <2>4
  <2>6. nativeDb'[k] = h /\ \A x \in Keys : x # k => nativeDb'[x] = nativeDb[x]
    BY <1>34 DEF OpenReturns
  <2>7. \A u \in Threads : pc'[u] # "cfmopwk" /\ pc[u] \notin {"cleanup", "cfmcldb"}
    BY <1>34 DEF OpenReturns, Return
  <2>8. IF pc[t] = "cfmopwk" THEN work'[owner] = h ELSE work' = work
    BY <1>34, <2>1 DEF OpenReturns
  <2>9. UNCHANGED <<owner, state, generation>> /\ handle[h] = None
    BY <1>34 DEF OpenReturns
  <2>10. \A x \in Keys : nativeDb[x] # None =>
           /\ nativeDb[x] \in Handles /\ handle[nativeDb[x]] # None
           /\ handle[nativeDb[x]].open /\ handle[nativeDb[x]].key = x
    BY <2>1, <2>7
  <2>11. \A x \in Handles : handle[x] # None /\ handle[x].open =>
           /\ handle[x].generation = 1
           /\ handle[x].work => work[owner] = x
           /\ pc[t] = "cfmopwk" => ~handle[x].work
    OBVIOUS
  <2>12. \A x \in Handles : handle'[x] # None /\ handle'[x].open =>
           /\ handle'[x].generation = 1
           /\ handle'[x].work => work'[owner] = x
    <3>1. opened.generation = 1 /\ (opened.work <=> pc[t] = "cfmopwk")
      BY <2>1, <2>2
    <3> HIDE DEF TypeOK, CallsOK, LifecycleInv, HandleInv, ClosedInv, TrackedInv, opened
    <3>2. handle'[h].generation = 1 /\ (handle'[h].work <=> pc[t] = "cfmopwk")
      BY <2>3, <3>1
    <3>3. CASE pc[t] = "cfmopwk"
      BY <2>3, <2>8, <2>11, <3>2, <3>3
    <3>4. CASE pc[t] # "cfmopwk"
      BY <2>3, <2>8, <2>11, <3>2, <3>4
    <3> QED BY <3>3, <3>4
  <2>13. \A x \in Keys : nativeDb'[x] # None =>
           /\ nativeDb'[x] \in Handles
           /\ handle'[nativeDb'[x]] # None
           /\ handle'[nativeDb'[x]].open
           /\ handle'[nativeDb'[x]].key = x
    <3> HIDE DEF TypeOK, CallsOK, LifecycleInv, HandleInv, ClosedInv, TrackedInv
    <3> QED BY <2>3, <2>5, <2>6, <2>9, <2>10
  <2> QED BY <2>1, <2>7, <2>9, <2>12, <2>13
<1>35. ASSUME NEW t \in Threads, ClosedbReturns(t) PROVE TrackedInv'
  <2>1. hdl[t] # None /\ handle[hdl[t]].open => ~Stale(hdl[t])
    <3>1. CASE hdl[t] # None /\ handle[hdl[t]].open
      <4>1. handle[hdl[t]].session = owner /\ owner \in Sessions /\ state[owner] = "initialized"
        BY <1>35, <3>1 DEF ClosedbReturns
      <4>2. handle[hdl[t]].generation = 1 /\ generation[owner] = 1
        BY <1>35, <3>1, <4>1 DEF ClosedbReturns
      <4> QED BY <4>1, <4>2 DEF Stale, Terminal
    <3> QED BY <3>1
  <2>2. UNCHANGED <<handle, databases, work>>
    BY <1>35, <2>1 DEF ClosedbReturns
  <2> QED BY <1>35, <2>2 DEF ClosedbReturns, Return
<1>36. ASSUME NEW t \in Threads, ClosedbEnters(t) PROVE TrackedInv'
  BY <1>36 DEF ClosedbEnters, Goto, IsOpen
<1>37. ASSUME NEW t \in Threads, ClosingReturns(t) PROVE TrackedInv'
  BY <1>37 DEF ClosingReturns, Return, Unregister, ClosesNatively, HandleRecords
<1>38. ASSUME NEW t \in Threads, ClosingInterrupted(t) PROVE TrackedInv'
  BY <1>38 DEF ClosingInterrupted, Return, ClosesNatively
<1>39. CASE UNCHANGED vars
  BY <1>39 DEF vars
<1> QED
  BY <1>1, <1>2, <1>3, <1>4, <1>5, <1>6, <1>7, <1>8, <1>9, <1>10, <1>11, <1>12, <1>13,
     <1>14, <1>15, <1>16, <1>17, <1>18, <1>19, <1>20, <1>21, <1>22, <1>23, <1>24, <1>25,
     <1>26, <1>27, <1>28, <1>29, <1>30, <1>31, <1>32, <1>33, <1>34, <1>35, <1>36, <1>37,
     <1>38, <1>39
     DEF Next, InvokeStep, Step, InitializeStep, FinalizeStep, OperationStep

\* Every step is, seen from the library, a step of OneShotLibrary or no step.
LEMMA RefinementStep ==
  ASSUME TypeOK, CallsOK, LifecycleInv, [Next]_vars
  PROVE  [Library!Next]_(Library!vars)
<1> USE ConstantsOK DEF TypeOK, CallsOK, LifecycleInv, Serialized, UpCalls, Alive, Born, Terminal, Inside, Phase, Functions, PCs, States, TerminalStates,
         NativeCalls, Waiting, MayEnter, Succeeds, Fails, threadVars, objectVars, nativeVars,
         Library!Next, Library!vars, Library!Initialize, Library!Call, Library!Finalize,
         Library!Enter, Library!Leave, Library!Nobody
<1>1. ASSUME NEW s \in Sessions, NEW l \in Libraries, NewSession(s, l)
      PROVE  [Library!Next]_(Library!vars)
  BY <1>1 DEF NewSession
<1>2. ASSUME NEW s \in Sessions, NEW l \in Libraries \cup {None}, DefaultSession(s, l)
      PROVE  [Library!Next]_(Library!vars)
  BY <1>2 DEF DefaultSession, ChooseDefault
<1>3. ASSUME NEW s \in Sessions, Load(s) PROVE [Library!Next]_(Library!vars)
  BY <1>3 DEF Load
<1>4. ASSUME NEW t \in Threads, NEW s \in Sessions, InvokeSession(t, s)
      PROVE  [Library!Next]_(Library!vars)
  BY <1>4 DEF InvokeSession, Invoke
<1>5. ASSUME NEW t \in Threads, NEW h \in Handles, InvokeHandle(t, h)
      PROVE  [Library!Next]_(Library!vars)
  BY <1>5 DEF InvokeHandle, Invoke, HandleRecords
<1>6. ASSUME NEW t \in Threads, InvokeCurrent(t) PROVE [Library!Next]_(Library!vars)
  BY <1>6 DEF InvokeCurrent, Invoke
<1>7. ASSUME NEW t \in Threads, CloseChli(t) PROVE [Library!Next]_(Library!vars)
  BY <1>7 DEF CloseChli, Invoke
<1>8. ASSUME NEW t \in Threads, NEW s \in Sessions, NEW l \in Libraries \cup {None}, InitChli(t, s, l)
      PROVE  [Library!Next]_(Library!vars)
  BY <1>8 DEF InitChli, Invoke, ChooseDefault
<1>9. ASSUME NEW t \in Threads, InitializeReturns(t) PROVE [Library!Next]_(Library!vars)
  BY <1>9 DEF InitializeReturns, Return
<1>10. ASSUME NEW t \in Threads, InitializeGivesUp(t) PROVE [Library!Next]_(Library!vars)
  BY <1>10 DEF InitializeGivesUp, MayInitialize, Return
<1>11. ASSUME NEW t \in Threads, InitializeEnters(t) PROVE [Library!Next]_(Library!vars)
  BY <1>11 DEF InitializeEnters, MayInitialize, Goto
<1>12. ASSUME NEW t \in Threads, CfminiReturns(t) PROVE [Library!Next]_(Library!vars)
  BY <1>12 DEF CfminiReturns, Goto
<1>13. ASSUME NEW t \in Threads, CfminiRaises(t) PROVE [Library!Next]_(Library!vars)
  BY <1>13 DEF CfminiRaises, Return
<1>14. ASSUME NEW t \in Threads, SentinelsRead(t) PROVE [Library!Next]_(Library!vars)
  BY <1>14 DEF SentinelsRead, Return
<1>15. ASSUME NEW t \in Threads, SentinelsFail(t) PROVE [Library!Next]_(Library!vars)
  BY <1>15 DEF SentinelsFail, Goto
<1>16. ASSUME NEW t \in Threads, FinalizeReturns(t) PROVE [Library!Next]_(Library!vars)
  BY <1>16 DEF FinalizeReturns, Return
<1>17. ASSUME NEW t \in Threads, FinalizeEnters(t) PROVE [Library!Next]_(Library!vars)
  BY <1>17 DEF FinalizeEnters, Goto, Tracked
<1>18. ASSUME NEW t \in Threads, CleanupNext(t) PROVE [Library!Next]_(Library!vars)
  BY <1>18 DEF CleanupNext, Goto
<1>19. ASSUME NEW t \in Threads, CleanupCloses(t) PROVE [Library!Next]_(Library!vars)
  BY <1>19 DEF CleanupCloses, Goto, ClosesNatively, HandleRecords
<1>20. ASSUME NEW t \in Threads, CleanupInterrupted(t) PROVE [Library!Next]_(Library!vars)
  BY <1>20 DEF CleanupInterrupted, Return, ClosesNatively
<1>21. ASSUME NEW t \in Threads, CleanupDone(t) PROVE [Library!Next]_(Library!vars)
  BY <1>21 DEF CleanupDone, Goto
<1>22. ASSUME NEW t \in Threads, CfmfinReturns(t) PROVE [Library!Next]_(Library!vars)
  BY <1>22 DEF CfmfinReturns, Return
<1>23. ASSUME NEW t \in Threads, CfmfinRaises(t) PROVE [Library!Next]_(Library!vars)
  BY <1>23 DEF CfmfinRaises, Return
<1>24. ASSUME NEW t \in Threads, OperationRefused(t) PROVE [Library!Next]_(Library!vars)
  BY <1>24 DEF OperationRefused, Return
<1>25. ASSUME NEW t \in Threads, OperationEnters(t) PROVE [Library!Next]_(Library!vars)
  <2>1. sess[t] \in Sessions /\ state[sess[t]] = "initialized"
    BY <1>25 DEF OperationEnters
  <2>2. sess[t] = owner /\ owner # None
    BY <2>1
  <2> QED BY <1>25, <2>1, <2>2 DEF OperationEnters, Goto
<1>26. ASSUME NEW t \in Threads, CallReturns(t) PROVE [Library!Next]_(Library!vars)
  BY <1>26 DEF CallReturns, Return
<1>27. ASSUME NEW t \in Threads, CallInterrupted(t) PROVE [Library!Next]_(Library!vars)
  BY <1>27 DEF CallInterrupted, Return
<1>28. ASSUME NEW t \in Threads, OperationFails(t) PROVE [Library!Next]_(Library!vars)
  BY <1>28 DEF OperationFails, Return, Goto
<1>29. ASSUME NEW t \in Threads, Captures(t) PROVE [Library!Next]_(Library!vars)
  BY <1>29 DEF Captures, Return
<1>30. ASSUME NEW t \in Threads, OpendbEnters(t) PROVE [Library!Next]_(Library!vars)
  <2>1. sess[t] \in Sessions /\ state[sess[t]] = "initialized"
    BY <1>30 DEF OpendbEnters
  <2>2. sess[t] = owner /\ owner # None
    BY <2>1
  <2> QED BY <1>30, <2>1, <2>2 DEF OpendbEnters, Goto
<1>31. ASSUME NEW t \in Threads, WorkdbReturnsExisting(t) PROVE [Library!Next]_(Library!vars)
  BY <1>31 DEF WorkdbReturnsExisting, Return
<1>32. ASSUME NEW t \in Threads, WorkdbEnters(t) PROVE [Library!Next]_(Library!vars)
  <2>1. sess[t] \in Sessions /\ state[sess[t]] = "initialized"
    BY <1>32 DEF WorkdbEnters
  <2>2. sess[t] = owner /\ owner # None
    BY <2>1
  <2> QED BY <1>32, <2>1, <2>2 DEF WorkdbEnters, Goto
<1>33. ASSUME NEW t \in Threads, OpenInterrupted(t) PROVE [Library!Next]_(Library!vars)
  BY <1>33 DEF OpenInterrupted, Return, FreeKeys
<1>34. ASSUME NEW t \in Threads, NEW h \in Handles, NEW k \in Keys, OpenReturns(t, h, k)
      PROVE  [Library!Next]_(Library!vars)
  BY <1>34 DEF OpenReturns, Return, HandleRecords, FreeKeys
<1>35. ASSUME NEW t \in Threads, ClosedbReturns(t) PROVE [Library!Next]_(Library!vars)
  BY <1>35 DEF ClosedbReturns, Return, Unregister, HandleRecords
<1>36. ASSUME NEW t \in Threads, ClosedbEnters(t) PROVE [Library!Next]_(Library!vars)
  <2>1. sess[t] \in Sessions /\ state[sess[t]] = "initialized"
    BY <1>36 DEF ClosedbEnters
  <2>2. sess[t] = owner /\ owner # None
    BY <2>1
  <2> QED BY <1>36, <2>1, <2>2 DEF ClosedbEnters, Goto
<1>37. ASSUME NEW t \in Threads, ClosingReturns(t) PROVE [Library!Next]_(Library!vars)
  BY <1>37 DEF ClosingReturns, Return, Unregister, ClosesNatively, HandleRecords
<1>38. ASSUME NEW t \in Threads, ClosingInterrupted(t) PROVE [Library!Next]_(Library!vars)
  BY <1>38 DEF ClosingInterrupted, Return, ClosesNatively
<1>39. CASE UNCHANGED vars
  BY <1>39 DEF vars
<1> QED
  BY <1>1, <1>2, <1>3, <1>4, <1>5, <1>6, <1>7, <1>8, <1>9, <1>10, <1>11, <1>12, <1>13,
     <1>14, <1>15, <1>16, <1>17, <1>18, <1>19, <1>20, <1>21, <1>22, <1>23, <1>24, <1>25,
     <1>26, <1>27, <1>28, <1>29, <1>30, <1>31, <1>32, <1>33, <1>34, <1>35, <1>36, <1>37,
     <1>38, <1>39
     DEF Next, InvokeStep, Step, InitializeStep, FinalizeStep, OperationStep

\* The initial state satisfies all the invariants.
LEMMA InitOK == Init => TypeOK /\ CallsOK /\ LifecycleInv /\ HandleInv
  BY ConstantsOK
  DEF Init, TypeOK, CallsOK, LifecycleInv, HandleInv, Serialized, UpCalls, Alive, Born, PCs,
      States, TerminalStates, NativeCalls, Waiting

-----------------------------------------------------------------------------
\* The three invariants that carry the rest.
LEMMA Invariance == Spec => [](TypeOK /\ CallsOK /\ LifecycleInv)
<1>1. TypeOK /\ CallsOK /\ LifecycleInv /\ [Next]_vars
        => (TypeOK /\ CallsOK /\ LifecycleInv)'
  BY TypeStep, CallsStep, LifecycleStep
<1> QED BY <1>1, InitOK, PTL DEF Spec

\* Every variable keeps its type, through every call, failure and interrupt.
THEOREM TypeCorrect == Spec => []TypeOK
  BY Invariance, PTL

\* Only the holder of the lock is inside the library: no two native calls of
\* different threads overlap (LOCK, Session.operation).
THEOREM NativeCallsSerialized == Spec => []Serialized
<1>1. LifecycleInv => Serialized
  BY DEF LifecycleInv
<1> QED BY <1>1, Invariance, PTL

\* cfmini and cfmfin are entered at most once per process, and every other native
\* call lies between them, for any number of sessions, threads and interrupts
\* (Session.initialize, _teardown, finalize, operation).
THEOREM LifecycleOnce == Spec => []OneLifecycle
<1>1. TypeOK /\ LifecycleInv => OneLifecycle
  BY DEF TypeOK, LifecycleInv, OneLifecycle, UpCalls
<1> QED BY <1>1, Invariance, PTL

\* A session found initialized while nobody is inside a call has its sentinels,
\* whatever failed or was interrupted in its set-up (Session.initialize, _teardown).
THEOREM SetUpIsWhole == Spec => []UsableIsComplete
<1>1. Init => SentinelsInv
  BY DEF Init, SentinelsInv
<1>2. TypeOK /\ SentinelsInv /\ [Next]_vars => SentinelsInv'
  BY SentinelsStep
<1>3. TypeOK /\ Serialized /\ SentinelsInv => UsableIsComplete
  BY ConstantsOK DEF TypeOK, Serialized, SentinelsInv, UsableIsComplete, NativeCalls
<1> QED BY <1>1, <1>2, <1>3, TypeCorrect, NativeCallsSerialized, PTL DEF Spec

\* A failure fetches the text of its own native call, whatever other threads do
\* meanwhile (Session.operation, _capture_extended_error).
THEOREM TextIsOwn == Spec => []CaptureReadsOwnFailure
<1>1. Init => CaptureReadsOwnFailure
  BY DEF Init, CaptureReadsOwnFailure
<1>2. TypeOK /\ Serialized /\ CaptureReadsOwnFailure /\ [Next]_vars => CaptureReadsOwnFailure'
  BY CaptureStep
<1> QED BY <1>1, <1>2, TypeCorrect, NativeCallsSerialized, PTL DEF Spec

\* The owner is never replaced, and a session left terminal stays as it is
\* (_OWNER, TERMINAL_STATES).
THEOREM TerminalStays == Spec => TerminalForGood
<1>1. TypeOK /\ CallsOK /\ LifecycleInv /\ [Next]_vars =>
        [/\ owner # None => owner' = owner
         /\ \A s \in Sessions : Terminal(s) /\ lock = None => state'[s] = state[s]]_vars
  <2> SUFFICES ASSUME TypeOK, CallsOK, LifecycleInv, Next
               PROVE  /\ owner # None => owner' = owner
                      /\ \A s \in Sessions : Terminal(s) /\ lock = None => state'[s] = state[s]
    OBVIOUS
  <2> USE DEF TypeOK, CallsOK, LifecycleInv, Serialized, UpCalls, Terminal, TerminalStates, Born,
              NativeCalls, objectVars
  <2>1. ASSUME NEW s \in Sessions, NEW l \in Libraries \cup {None}, ChooseDefault(s, l)
        PROVE  \A x \in Sessions : Terminal(x) => state'[x] = state[x]
    BY <2>1 DEF ChooseDefault
  <2>2. CASE \E s \in Sessions : Load(s) \/ \E l \in Libraries : NewSession(s, l)
    BY <2>2 DEF Load, NewSession
  <2>3. CASE \E s \in Sessions, l \in Libraries \cup {None} : DefaultSession(s, l)
    BY <2>1, <2>3 DEF DefaultSession
  <2>4. ASSUME NEW t \in Threads, InvokeStep(t)
        PROVE  /\ owner # None => owner' = owner
               /\ \A s \in Sessions : Terminal(s) => state'[s] = state[s]
    BY <2>1, <2>4 DEF InvokeStep, InvokeSession, InvokeHandle, InvokeCurrent, CloseChli, InitChli
  <2>5. ASSUME NEW t \in Threads, InitializeStep(t)
        PROVE  /\ owner # None => owner' = owner
               /\ \A s \in Sessions : Terminal(s) /\ lock = None => state'[s] = state[s]
    <3>1. CASE InitializeReturns(t) \/ CfminiRaises(t) \/ SentinelsRead(t)
      BY <3>1 DEF InitializeReturns, CfminiRaises, SentinelsRead
    <3>2. CASE InitializeGivesUp(t)
      <4>1. state[sess[t]] \notin TerminalStates /\ UNCHANGED owner
        BY <3>2 DEF InitializeGivesUp, MayInitialize
      <4>2. CASE UNCHANGED state
        BY <4>1, <4>2
      <4>3. CASE state' = [state EXCEPT ![sess[t]] = "loaded"]
        BY <4>1, <4>3
      <4> QED BY <3>2, <4>2, <4>3 DEF InitializeGivesUp
    <3>3. CASE InitializeEnters(t)
      <4>1. /\ state[sess[t]] \notin TerminalStates
            /\ owner # None => owner' = owner
            /\ state' = [state EXCEPT ![sess[t]] = "failed"]
        BY <3>3 DEF InitializeEnters, MayInitialize
      <4> QED BY <4>1
    <3>4. CASE CfminiReturns(t)
      BY <3>4, ConstantsOK DEF CfminiReturns
    <3>5. CASE SentinelsFail(t)
      BY <3>5, ConstantsOK DEF SentinelsFail
    <3> QED BY <2>5, <3>1, <3>2, <3>3, <3>4, <3>5 DEF InitializeStep
  <2>6. ASSUME NEW t \in Threads, FinalizeStep(t)
        PROVE  /\ owner # None => owner' = owner
               /\ \A s \in Sessions : Terminal(s) /\ lock = None => state'[s] = state[s]
    <3>1. CASE FinalizeReturns(t) \/ FinalizeEnters(t) \/ CleanupNext(t) \/ CleanupCloses(t)
               \/ CleanupInterrupted(t)
      BY <3>1 DEF FinalizeReturns, FinalizeEnters, CleanupNext, CleanupCloses, CleanupInterrupted
    <3>2. CASE CleanupDone(t)
      BY <3>2, ConstantsOK DEF CleanupDone
    <3>3. CASE CfmfinReturns(t)
      BY <3>3, ConstantsOK DEF CfmfinReturns
    <3>4. CASE CfmfinRaises(t)
      BY <3>4, ConstantsOK DEF CfmfinRaises
    <3> QED BY <2>6, <3>1, <3>2, <3>3, <3>4 DEF FinalizeStep
  <2>7. ASSUME NEW t \in Threads, OperationStep(t)
        PROVE  UNCHANGED <<owner, state>>
    BY <2>7 DEF OperationStep, OperationRefused, OperationEnters, CallReturns, CallInterrupted,
                OperationFails, Captures, OpendbEnters, WorkdbReturnsExisting, WorkdbEnters,
                OpenInterrupted, OpenReturns, ClosedbReturns, ClosedbEnters, ClosingReturns,
                ClosingInterrupted
  <2> QED BY <2>2, <2>3, <2>4, <2>5, <2>6, <2>7 DEF Next, Step
<1> QED BY <1>1, Invariance, PTL DEF Spec, TerminalForGood

\* Seen from the library, the package is the serialized, one-shot user that
\* OneShotLibrary describes.
THEOREM Refinement == Spec => ImplementsOneShotLibrary
<1>1. Init => Library!Init
  BY ConstantsOK DEF Init, Library!Init, Library!Nobody, Inside, Phase
<1>2. TypeOK /\ CallsOK /\ LifecycleInv /\ [Next]_vars => [Library!Next]_(Library!vars)
  BY RefinementStep
<1> QED BY <1>1, <1>2, Invariance, PTL DEF Spec, ImplementsOneShotLibrary, Library!Spec

\* A native call made through a handle acts on the database opened for that
\* handle, although keys are reused and calls are invoked on stale handles, as
\* long as no interrupt strikes a native close (FameDatabase.operation, closedb,
\* Session.finalize).
THEOREM HandlesNeverAlias ==
  ASSUME Interrupts \cap {"closing", "cfmcldb"} = {}
  PROVE  Spec => []HandleReachesItsDatabase
<1>1. TypeOK /\ CallsOK /\ LifecycleInv /\ HandleInv /\ [Next]_vars => HandleInv'
  BY HandleStep
<1>2. TypeOK /\ CallsOK /\ LifecycleInv /\ HandleInv => HandleReachesItsDatabase
  BY DEF TypeOK, CallsOK, LifecycleInv, HandleInv, HandleReachesItsDatabase, UpCalls,
         NativeCalls, Alive
<1> QED BY <1>1, <1>2, InitOK, Invariance, PTL DEF Spec

\* Once a runtime is gone no handle of it is open and none is kept, whatever failed
\* while it was finalized, as long as no interrupt strikes a native close
\* (Session.finalize, _register, _unregister, closedb).
THEOREM FinalizationInvalidates ==
  ASSUME Interrupts \cap {"closing", "cfmcldb"} = {}
  PROVE  Spec => []AllInvalidated
<1>1. Init => ClosedInv
  BY ConstantsOK DEF Init, ClosedInv, Alive
<1>2. TypeOK /\ CallsOK /\ LifecycleInv /\ HandleInv /\ ClosedInv /\ [Next]_vars
        => HandleInv' /\ ClosedInv'
  BY HandleStep, ClosedStep
<1>3. TypeOK /\ LifecycleInv /\ HandleInv /\ ClosedInv => AllInvalidated
  BY ConstantsOK DEF TypeOK, LifecycleInv, HandleInv, ClosedInv, AllInvalidated, Alive, Tracked,
                     Terminal, TerminalStates
<1> QED BY <1>1, <1>2, <1>3, InitOK, Invariance, PTL DEF Spec

\* While the runtime is up, every database open in the library is open in a handle
\* the session tracks under its key, and the work database in the work slot, as
\* long as no interrupt strikes a native open or close (FameDatabase.__init__,
\* _register, workdb, closedb).
THEOREM NoDatabaseIsLost ==
  ASSUME Interrupts \cap {"closing", "cfmcldb", "cfmopdb", "cfmopwk"} = {}
  PROVE  Spec => []EveryDatabaseTracked
<1>1. Init => ClosedInv /\ TrackedInv
  BY ConstantsOK DEF Init, ClosedInv, TrackedInv, Alive
<1>2. TypeOK /\ CallsOK /\ LifecycleInv /\ HandleInv /\ ClosedInv /\ TrackedInv /\ [Next]_vars
        => HandleInv' /\ ClosedInv' /\ TrackedInv'
  BY HandleStep, ClosedStep, TrackedStep
<1>3. TypeOK /\ HandleInv /\ ClosedInv /\ TrackedInv => EveryDatabaseTracked
  BY ConstantsOK DEF TypeOK, HandleInv, ClosedInv, TrackedInv, EveryDatabaseTracked, Alive,
                     IsOpen, Stale, Terminal, TerminalStates
<1> QED BY <1>1, <1>2, <1>3, InitOK, Invariance, PTL DEF Spec
=============================================================================
