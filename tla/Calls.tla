-------------------------------- MODULE Calls --------------------------------
(* A function of the package is called once, with one of the inputs; the      *)
(* output is kept.                                                            *)
EXTENDS Naturals, Sequences

CONSTANTS
  Inputs,   \* sets of inputs, in a sequence; each says which function it is about
  None

VARIABLES input, output
vars == <<input, output>>

Init == (\E i \in DOMAIN Inputs : input \in Inputs[i]) /\ output = None

Call(about, result) ==
  /\ output = None /\ input.about = about
  /\ output' = result
  /\ UNCHANGED input

Done == output # None /\ UNCHANGED vars

After(about) == output # None /\ input.about = about
=============================================================================
