----------------------------- MODULE MCSession -----------------------------
(* Instances of Session for TLC. *)
EXTENDS Session, TLC

AllInterrupts == NativeCalls

\* Interrupts that cannot leave a native close half recorded.
NoCloseInterrupts == NativeCalls \ {"closing", "cfmcldb"}

\* Interrupts that leave neither an open nor a close half recorded.
NoHandleInterrupts == NoCloseInterrupts \ {"cfmopdb", "cfmopwk"}

NoInterrupts == {}

Symmetry == Permutations(Threads) \cup Permutations(Handles)
            \cup Permutations(Keys) \cup Permutations(Libraries)
=============================================================================
