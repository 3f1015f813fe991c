--------------------------- MODULE OneShotLibrary ---------------------------
(***************************************************************************)
(* What the package promises about the native library of a process, as the *)
(* library would see it: initialized once, called by one thread at a time, *)
(* finalized once, and never entered again after that.  Sessions, handles  *)
(* and the lock do not appear; Session.tla implements this specification.  *)
(***************************************************************************)
CONSTANTS
  Threads,  \* the threads of the process
  None      \* nobody

VARIABLES
  phase,    \* what the library went through
  inside    \* the thread executing a CHLI function, and which kind of one

vars == <<phase, inside>>

Phases == {"fresh", "starting", "up", "stopping", "spent"}
Kinds == {"cfmini", "call", "cfmfin"}
Nobody == [thread |-> None, kind |-> "none"]

TypeOK ==
  /\ phase \in Phases
  /\ inside \in [thread : Threads, kind : Kinds] \cup {Nobody}

Init ==
  /\ phase = "fresh"
  /\ inside = Nobody

\* Thread t enters a CHLI function of the given kind.
Enter(t, kind, from, to) ==
  /\ inside = Nobody
  /\ phase = from
  /\ phase' = to
  /\ inside' = [thread |-> t, kind |-> kind]

\* Thread t returns from it, normally, with a status or by an interrupt.
Leave(t, kind, outcomes) ==
  /\ inside = [thread |-> t, kind |-> kind]
  /\ phase' \in outcomes
  /\ inside' = Nobody

Initialize(t) ==
  \/ Enter(t, "cfmini", "fresh", "starting")
  \/ Leave(t, "cfmini", {"up", "spent"})

Call(t) ==
  \/ Enter(t, "call", "up", "up")
  \/ Leave(t, "call", {"up"})

Finalize(t) ==
  \/ Enter(t, "cfmfin", "up", "stopping")
  \/ Leave(t, "cfmfin", {"spent"})

Next == \E t \in Threads : Initialize(t) \/ Call(t) \/ Finalize(t)

Spec == Init /\ [][Next]_vars

-----------------------------------------------------------------------------
(***************************************************************************)
(* The library is only ever inside a function its phase allows, and never  *)
(* entered once it is spent.                                               *)
(***************************************************************************)
Discipline ==
  /\ inside.kind = "cfmini" <=> phase = "starting"
  /\ inside.kind = "cfmfin" <=> phase = "stopping"
  /\ inside.kind = "call" => phase = "up"
=============================================================================
