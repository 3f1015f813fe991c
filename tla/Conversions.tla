---------------------------- MODULE Conversions ----------------------------
(* The conversions of the bridge and of commands that need no library: those  *)
(* of DataConversions, nested workspaces to names and back, and the expansion *)
(* of INPUT statements.                                                       *)
EXTENDS DataConversions, Include, Flatten

Next == DataNext \/ IncludeNext \/ FlattenNext
Spec == Init /\ [][Next]_vars
=============================================================================
