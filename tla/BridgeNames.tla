---------------------------- MODULE BridgeNames ----------------------------
(* How bridge/_workspace.py turns the names of a database into the keys of    *)
(* nested workspaces (`_destination`).                                        *)
(*                                                                            *)
(* A name is the sequence of its parts, with the glue between them.  A part   *)
(* has an upper-case form; the library's names consist of upper-case parts.   *)
(*                                                                            *)
(* A definition marked "Mutant" is not part of the model: it is the next one  *)
(* with a plausible bug, and shows that a property can fail.                  *)
EXTENDS Naturals, Sequences

Blank == ""   \* a part without a letter

CONSTANT Uppers   \* the upper-case forms of the parts that have lower-case letters

\* Letters have one form in each case.
ASSUME CaseAssumption ==
  \A part \in DOMAIN Uppers :
    /\ part \in STRING /\ Uppers[part] \in STRING /\ Uppers[part] # Blank
    /\ Uppers[part] \notin DOMAIN Uppers
    /\ \A other \in DOMAIN Uppers : Uppers[part] = Uppers[other] => part = other

\* The upper-case form of a part, and what `namecase` makes of one: str.lower.
UpperPart(part) == IF part \in DOMAIN Uppers THEN Uppers[part] ELSE part
LowerPart(part) ==
  IF \E l \in DOMAIN Uppers : Uppers[l] = part
    THEN CHOOSE l \in DOMAIN Uppers : Uppers[l] = part ELSE part

Upper(name) == [i \in DOMAIN name |-> UpperPart(name[i])]
NameCase(name) == [i \in DOMAIN name |-> LowerPart(name[i])]

\* A collect specification consists of lists of entries, which have identities: an
\* entry is the name as given, which may be a wildcard, and the identity of the list
\* for what is left of the names it matches.
Wildcards == {<<"?">>, <<"*">>}
CollectEntry(name, nested) == [name |-> name, nested |-> nested]

\* A name starts with the prefix and the glue, and the rest is not empty.
Begins(name, prefix) ==
  /\ Len(prefix) < Len(name)
  /\ SubSeq(name, 1, Len(prefix)) = prefix

Rest(name, prefix) == SubSeq(name, Len(prefix) + 1, Len(name))

\* The prefix is removed when it is there, even if nothing is left.
Strip(name, prefix) ==
  IF prefix # <<>> /\ Begins(name, Upper(prefix)) THEN Rest(name, prefix) ELSE name

\* Mutant: the name of an entry is matched as it is spelled.
MutTaken(entry, name) == IF entry.name \in Wildcards THEN SubSeq(name, 1, 1) ELSE entry.name

\* How an entry matches: the parts it takes and the key it makes of them.
Taken(entry, name) == IF entry.name \in Wildcards THEN SubSeq(name, 1, 1) ELSE Upper(entry.name)

Collected(entry, name) ==
  IF entry.name \in Wildcards THEN NameCase(Taken(entry, name)) ELSE entry.name

EntryMatches(entry, name) ==
  /\ Begins(name, Taken(entry, name))
  /\ Rest(name, Taken(entry, name)) # <<Blank>>
  /\ entry.name \in Wildcards => name[1] # Blank

\* One turn of the loop: the first entry that matches takes its parts.
Turn(collects, walk) ==
  LET fits == {i \in DOMAIN walk.pending : EntryMatches(walk.pending[i], walk.name)}
      entry == walk.pending[CHOOSE i \in fits : \A j \in fits : i <= j]
  IN IF fits = {} THEN [walk EXCEPT !.pending = <<>>]
     ELSE [path |-> Append(walk.path, Collected(entry, walk.name)),
           name |-> Rest(walk.name, Taken(entry, walk.name)),
           pending |-> collects[entry.nested]]

\* `_destination`: the keys of the workspaces, then the key of the value, under the
\* specification whose lists are `collects`, the outermost one the first.  The name
\* gets shorter with every turn that matches.
Walked(name, collects, turns) ==
  LET walks[i \in 0..turns] ==
        IF i = 0 THEN [path |-> <<>>, name |-> name, pending |-> collects[1]]
                 ELSE Turn(collects, walks[i - 1])
  IN walks[turns]
Destination(name, prefix, collects) ==
  LET last == Walked(Strip(name, prefix), collects, Len(name))
  IN Append(last.path, NameCase(last.name))
=============================================================================
