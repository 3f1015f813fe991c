------------------------------ MODULE Flatten ------------------------------
(* The flattening of nested workspaces to the names of a database             *)
(* (`flatten_names`, `_flatten_into` in bridge/_workspace.py), member by       *)
(* member.                                                                    *)
(*                                                                            *)
(* Containers are in a heap: a function from their identities to sequences of *)
(* members, a key with a value or with the identity of another container, so  *)
(* that one may hold another twice or hold itself.                            *)
(*                                                                            *)
(* A definition marked "Mutant" is not part of the model: it is the next one  *)
(* with a plausible bug, and shows that a property can fail.                  *)
EXTENDS Calls, SequencesExt, BridgeNames

Leaf(key, value) == [key |-> key, value |-> value, node |-> 0]
Node(key, id) == [key |-> key, value |-> 0, node |-> id]

ASSUME FlattenAssumption ==
  \A i \in DOMAIN Inputs : \A x \in Inputs[i] :
    x.about = "tree" =>
      /\ x.prefix \in Seq(STRING)
      /\ 1 \in DOMAIN x.heap /\ 0 \notin DOMAIN x.heap
      /\ \A id \in DOMAIN x.heap :
           x.heap[id] \in Seq([key : STRING, value : Nat, node : DOMAIN x.heap \cup {0}])

\* A call of `_flatten_into`: its container, the prefix of its names, and how many
\* members are done.
Opened(id, prefix) == [id |-> id, prefix |-> prefix, done |-> 0]

\* What a flattening has come to: the calls inside each other, the names with their
\* values, and an error: "open" until the end, "none" when all is well.
Flattened(calls, flat, error) == [calls |-> calls, flat |-> flat, error |-> error]

Innermost == Last(output.calls)
Members == input.heap[Innermost.id]
Member == Members[Innermost.done + 1]
MemberName == Innermost.prefix \o <<Member.key>>
Containing == {output.calls[i].id : i \in DOMAIN output.calls}

\* `flatten_names` of one container.
Flattens == Call("tree", Flattened(<<Opened(1, input.prefix)>>, <<>>, "open"))

\* The innermost call goes on.
Flattening == After("tree") /\ output.calls # <<>> /\ output.error = "open"
Continues == Flattening /\ Innermost.done < Len(Members) /\ UNCHANGED input
Advanced == [output.calls EXCEPT ![Len(output.calls)].done = @ + 1]

\* A value gets its name.
Places ==
  /\ Continues
  /\ Member.node = 0
  /\ output' = Flattened(Advanced, Append(output.flat, [name |-> MemberName, value |-> Member.value]),
                         "open")

\* A container is refused inside itself, and is flattened otherwise.
Cycles ==
  /\ Continues
  /\ Member.node # 0 /\ Member.node \in Containing
  /\ output' = [output EXCEPT !.error = "cycle"]

Descends ==
  /\ Continues
  /\ Member.node # 0 /\ Member.node \notin Containing
  /\ output' = [output EXCEPT !.calls = Append(Advanced, Opened(Member.node, MemberName))]

Ascends ==
  /\ Flattening /\ Innermost.done = Len(Members)
  /\ output' = [output EXCEPT !.calls = Front(@)]
  /\ UNCHANGED input

\* Two names that the library would take for one are refused at the end.
SameName(flat) ==
  \E i, j \in DOMAIN flat : i # j /\ Upper(flat[i].name) = Upper(flat[j].name)

Compares ==
  /\ After("tree") /\ output.calls = <<>> /\ output.error = "open"
  /\ output' = [output EXCEPT !.error = IF SameName(output.flat) THEN "collision" ELSE "none"]
  /\ UNCHANGED input

FlattenNext == Flattens \/ Places \/ Cycles \/ Descends \/ Ascends \/ Compares \/ Done
FlattenSpec == Init /\ [][FlattenNext]_vars

-----------------------------------------------------------------------------

\* The containers inside one, those reachable from one, and whether one of those that
\* are reachable from the first can be reached from a container inside it.
Inside(heap, id) == {heap[id][i].node : i \in DOMAIN heap[id]} \ {0}
Closed(heap, ids) == \A id \in ids : Inside(heap, id) \subseteq ids
Reachable(heap, id) ==
  {other \in DOMAIN heap :
     \A ids \in SUBSET DOMAIN heap : id \in ids /\ Closed(heap, ids) => other \in ids}
Circular(heap) ==
  \E id \in Reachable(heap, 1) : \E next \in Inside(heap, id) : id \in Reachable(heap, next)

\* The collect specifications that list the containers of each container by their
\* keys, in any order.
Listed(heap, id) ==
  {CollectEntry(<<heap[id][i].key>>, heap[id][i].node) :
     i \in {j \in DOMAIN heap[id] : heap[id][j].node # 0}}
Orders(entries, n) == {list \in [1..n -> entries] : ToSet(list) = entries}
Lists(heap, id) == UNION {Orders(Listed(heap, id), n) : n \in 0..Len(heap[id])}
Mirrors(heap) ==
  {collects \in [DOMAIN heap -> UNION {Lists(heap, id) : id \in DOMAIN heap}] :
     \A id \in DOMAIN heap : collects[id] \in Lists(heap, id)}

\* Keys a name can be made of and taken apart again: of some letters and no wildcard,
\* and no two containers' keys that differ by their case only.
Legible(heap) ==
  \A id \in DOMAIN heap : \A i \in DOMAIN heap[id] :
    /\ heap[id][i].key # Blank /\ <<heap[id][i].key>> \notin Wildcards
    /\ \A j \in DOMAIN heap[id] :
         i # j /\ heap[id][i].node # 0 /\ heap[id][j].node # 0 =>
           UpperPart(heap[id][i].key) # UpperPart(heap[id][j].key)

\* The keys under which a value was before: those of the containers as they are
\* spelled, its own in the case of `namecase`.
WasUnder(path) ==
  [i \in DOMAIN path |-> IF i = Len(path) THEN NameCase(<<path[i]>>) ELSE <<path[i]>>]

\* A workspace is refused for a cycle exactly when it has one, not for containing
\* another twice; and what writefame flattens, readfame finds under the keys it had,
\* each under its own, with the same prefix and the containers as the collect
\* specification.
FlattenReadsBack ==
  After("tree") =>
    /\ output.error = "cycle" => Circular(input.heap)
    /\ output.calls = <<>> => ~Circular(input.heap)
    /\ output.error = "none" /\ Legible(input.heap) =>
         LET Name(i) == output.flat[i].name
             Path(i) == SubSeq(Name(i), Len(input.prefix) + 1, Len(Name(i)))
             Found(i, collects) == Destination(Upper(Name(i)), input.prefix, collects)
         IN \A collects \in Mirrors(input.heap) : \A i \in DOMAIN output.flat :
              /\ Found(i, collects) = WasUnder(Path(i))
              /\ \A j \in DOMAIN output.flat : i # j => Found(i, collects) # Found(j, collects)
=============================================================================
