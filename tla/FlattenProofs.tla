--------------------------- MODULE FlattenProofs ---------------------------
(***************************************************************************)
(* What writefame flattens readfame finds again, and a cycle is all that   *)
(* the flattening refuses a workspace for, whatever the containers, the    *)
(* letters and the prefix.                                                 *)
(*                                                                         *)
(* Each name is spelled by the keys on a way from the first container to a *)
(* value (NamedBy), and a walk down a collect specification takes that way *)
(* back (RouteReadsBack): both are followed turn by turn (Successors).     *)
(* That what is flattened has no cycle is kept as a set of the containers  *)
(* that are done, closed and with nothing inside itself, which the         *)
(* container of an innermost call joins when all its members are done      *)
(* (Clear, Settled).                                                       *)
(***************************************************************************)
EXTENDS Flatten, SequenceTheorems, WellFoundedInduction, TLAPS

LEMMA Least ==
  ASSUME NEW T, T \subseteq Nat, T # {}
  PROVE  \E m \in T : \A n \in T : m <= n
<1>1. PICK m \in T : \A n \in T : <<n, m>> \notin OpToRel(<, Nat)
  BY NatLessThanWellFounded, WFMin
<1>2. ASSUME NEW n \in T, n < m PROVE FALSE
  <2>1. <<n, m>> \in OpToRel(<, Nat)
    BY <1>2 DEF OpToRel
  <2> QED BY <1>1, <2>1
<1> QED BY <1>2

\* A set of numbers with 0 and the successor of each of its members has them all.
LEMMA Successors ==
  ASSUME NEW T, 0 \in T, \A n \in Nat : n \in T => n + 1 \in T
  PROVE  Nat \subseteq T
<1> SUFFICES ASSUME Nat \ T # {} PROVE FALSE
  OBVIOUS
<1>1. PICK m \in Nat \ T : \A n \in Nat \ T : m <= n
  BY Least
<1>2. m - 1 \in Nat /\ m - 1 \in T
  BY <1>1
<1> QED BY <1>1, <1>2

-----------------------------------------------------------------------------
(* Parts and names *)

\* The two forms of a part determine each other.
LEMMA CaseFacts ==
  ASSUME NEW part \in STRING
  PROVE  /\ UpperPart(part) \in STRING /\ LowerPart(part) \in STRING
         /\ LowerPart(UpperPart(part)) = LowerPart(part)
         /\ UpperPart(LowerPart(part)) = UpperPart(part)
         /\ part # Blank => UpperPart(part) # Blank
<1>1. ASSUME NEW l \in DOMAIN Uppers PROVE LowerPart(Uppers[l]) = l
  BY CaseAssumption DEF LowerPart
<1>2. CASE part \in DOMAIN Uppers
  <2>1. LowerPart(part) = part
    BY <1>2, CaseAssumption DEF LowerPart
  <2> QED BY <1>1, <1>2, <2>1, CaseAssumption DEF UpperPart
<1>3. CASE part \notin DOMAIN Uppers
  <2>1. UpperPart(part) = part
    BY <1>3 DEF UpperPart
  <2>2. CASE \E l \in DOMAIN Uppers : Uppers[l] = part
    <3>1. PICK l \in DOMAIN Uppers : Uppers[l] = part
      BY <2>2
    <3>2. LowerPart(part) = l
      BY <1>1, <3>1
    <3> QED BY <2>1, <3>1, <3>2, CaseAssumption DEF UpperPart
  <2>3. CASE ~ \E l \in DOMAIN Uppers : Uppers[l] = part
    <3>1. LowerPart(part) = part
      BY <2>3 DEF LowerPart
    <3> QED BY <2>1, <3>1
  <2> QED BY <2>2, <2>3
<1> QED BY <1>2, <1>3

\* A function over the first numbers is a sequence.
LEMMA IsSequence ==
  ASSUME NEW S, NEW n \in Nat, NEW f, f = [j \in 1..n |-> f[j]], \A j \in 1..n : f[j] \in S
  PROVE  f \in Seq(S) /\ Len(f) = n /\ DOMAIN f = 1..n
<1>1. f \in [1..n -> S] /\ DOMAIN f = 1..n
  OBVIOUS
<1> QED BY <1>1

LEMMA AppendFacts ==
  ASSUME NEW S, NEW n \in Nat, NEW f \in Seq(S), Len(f) = n, NEW e
  PROVE  Append(f, e) = [j \in 1..(n + 1) |-> IF j = n + 1 THEN e ELSE f[j]]
<1> DEFINE T == S \cup {e}
           g == Append(f, e)
<1>1. e \in T /\ f \in Seq(T)
  BY SeqMonotonic
<1> HIDE DEF T
<1>2. g \in Seq(T) /\ Len(g) = n + 1 /\ (\A i \in 1..n : g[i] = f[i]) /\ g[n + 1] = e
  BY <1>1, AppendProperties
<1> HIDE DEF g
<1>3. g = [j \in 1..(n + 1) |-> g[j]]
  BY <1>2
<1>4. \A j \in 1..(n + 1) : g[j] = IF j = n + 1 THEN e ELSE f[j]
  BY <1>2
<1> QED BY <1>3, <1>4 DEF g

LEMMA UpperFacts ==
  ASSUME NEW name \in Seq(STRING)
  PROVE  /\ Upper(name) \in Seq(STRING) /\ Len(Upper(name)) = Len(name)
         /\ DOMAIN Upper(name) = 1..Len(name)
         /\ \A i \in 1..Len(name) : Upper(name)[i] = UpperPart(name[i])
<1>1. Len(name) \in Nat /\ DOMAIN name = 1..Len(name) /\ \A i \in 1..Len(name) : name[i] \in STRING
  OBVIOUS
<1>2. Upper(name) = [i \in 1..Len(name) |-> UpperPart(name[i])]
  BY <1>1 DEF Upper
<1>3. \A i \in 1..Len(name) : UpperPart(name[i]) \in STRING
  BY <1>1, CaseFacts
<1> QED BY <1>1, <1>2, <1>3

\* A prefix that was glued before keys is removed as a whole.
LEMMA StripFacts ==
  ASSUME NEW prefix \in Seq(STRING), NEW keys \in Seq(STRING), keys # <<>>
  PROVE  Strip(Upper(prefix \o keys), prefix) = Upper(keys)
<1> DEFINE whole == prefix \o keys
           name == Upper(whole)
           p == Len(prefix)
           n == Len(keys)
<1>1. p \in Nat /\ n \in Nat /\ n # 0 /\ DOMAIN prefix = 1..p /\ DOMAIN keys = 1..n
  BY EmptySeq
<1>2. /\ whole \in Seq(STRING) /\ Len(whole) = p + n
      /\ \A i \in 1..p : whole[i] = prefix[i]
      /\ \A i \in 1..n : whole[p + i] = keys[i]
  BY <1>1
<1> HIDE DEF whole
<1>3. /\ name \in Seq(STRING) /\ Len(name) = p + n
      /\ \A i \in 1..p : name[i] = UpperPart(prefix[i])
      /\ \A i \in 1..n : name[p + i] = UpperPart(keys[i])
  <2>1. \A i \in 1..(p + n) : name[i] = UpperPart(whole[i])
    BY <1>2, UpperFacts
  <2>2. /\ \A i \in 1..p : i \in 1..(p + n)
        /\ \A i \in 1..n : p + i \in 1..(p + n)
    BY <1>1
  <2>3. name \in Seq(STRING) /\ Len(name) = p + n
    BY <1>2, UpperFacts
  <2> QED BY <1>2, <2>1, <2>2, <2>3
<1>4. /\ Upper(prefix) \in Seq(STRING) /\ Len(Upper(prefix)) = p
      /\ \A i \in 1..p : Upper(prefix)[i] = UpperPart(prefix[i])
  BY <1>1, UpperFacts
<1>5. Upper(keys) = [i \in 1..n |-> UpperPart(keys[i])]
  BY <1>1 DEF Upper
<1> HIDE DEF name
<1>6. SubSeq(name, 1, p) = Upper(prefix)
  <2>1. SubSeq(name, 1, p) = [i \in 1..p |-> name[i]]
    BY <1>1, <1>3
  <2>2. Upper(prefix) = [i \in 1..p |-> UpperPart(prefix[i])]
    BY <1>1 DEF Upper
  <2> QED BY <1>3, <2>1, <2>2
<1>7. SubSeq(name, p + 1, Len(name)) = Upper(keys)
  <2>1. SubSeq(name, p + 1, p + n) = [i \in 1..n |-> name[p + i]]
    <3>1. SubSeq(name, p + 1, p + n) = [i \in 1..(1 + (p + n) - (p + 1)) |-> name[i + (p + 1) - 1]]
      OBVIOUS
    <3>2. 1 + (p + n) - (p + 1) = n /\ \A i \in 1..n : i + (p + 1) - 1 = p + i
      BY <1>1
    <3> QED BY <3>1, <3>2
  <2> QED BY <1>3, <1>5, <2>1
<1>8. CASE prefix = <<>>
  <2>1. p = 0
    BY <1>8
  <2>2. prefix \o keys = keys
    BY <1>8
  <2> QED BY <1>8, <2>2 DEF Strip, name, whole
<1>9. CASE prefix # <<>>
  <2>1. Begins(name, Upper(prefix))
    BY <1>1, <1>3, <1>4, <1>6 DEF Begins
  <2> QED BY <1>4, <1>7, <1>9, <2>1 DEF Strip, Rest, name, whole
<1> QED BY <1>8, <1>9

-----------------------------------------------------------------------------
(* Walks down a collect specification *)

IsHeap(heap) ==
  /\ 1 \in DOMAIN heap /\ 0 \notin DOMAIN heap
  /\ \A id \in DOMAIN heap :
       heap[id] \in Seq([key : STRING, value : Nat, node : DOMAIN heap \cup {0}])

LEMMA MemberFacts ==
  ASSUME NEW heap, IsHeap(heap), NEW id \in DOMAIN heap
  PROVE  /\ Len(heap[id]) \in Nat /\ DOMAIN heap[id] = 1..Len(heap[id])
         /\ \A i \in DOMAIN heap[id] :
              /\ heap[id][i].key \in STRING /\ heap[id][i].value \in Nat
              /\ heap[id][i].node \in DOMAIN heap \cup {0}
<1> DEFINE Entries == [key : STRING, value : Nat, node : DOMAIN heap \cup {0}]
<1>1. heap[id] \in Seq(Entries)
  BY DEF IsHeap
<1>2. ASSUME NEW e \in Entries
      PROVE  e.key \in STRING /\ e.value \in Nat /\ e.node \in DOMAIN heap \cup {0}
  OBVIOUS
<1> HIDE DEF Entries
<1>3. /\ Len(heap[id]) \in Nat /\ DOMAIN heap[id] = 1..Len(heap[id])
      /\ \A i \in DOMAIN heap[id] : heap[id][i] \in Entries
  BY <1>1
<1> QED BY <1>2, <1>3

\* Names of one part.
LEMMA OnePart ==
  ASSUME NEW part
  PROVE  /\ <<part>> = [i \in 1..1 |-> part] /\ Upper(<<part>>) = <<UpperPart(part)>>
         /\ NameCase(<<part>>) = <<LowerPart(part)>>
         /\ part \in STRING => <<part>> \in Seq(STRING)
<1>1. DOMAIN <<part>> = 1..1 /\ \A i \in 1..1 : <<part>>[i] = part
  OBVIOUS
<1>2. \A x : <<x>> = [i \in 1..1 |-> x]
  OBVIOUS
<1>3. ASSUME part \in STRING PROVE <<part>> \in Seq(STRING)
  <2> DEFINE f == <<part>>
  <2>1. f = [i \in 1..1 |-> f[i]] /\ \A i \in 1..1 : f[i] \in STRING
    BY <1>2, <1>3
  <2> HIDE DEF f
  <2>2. f \in Seq(STRING)
    BY <2>1, IsSequence
  <2> QED BY <2>2 DEF f
<1> QED BY <1>1, <1>2, <1>3 DEF Upper, NameCase

\* What a turn starts from, and a name without its first part.
Walk(path, name, pending) == [path |-> path, name |-> name, pending |-> pending]
Behind(name) == [j \in 1..(Len(name) - 1) |-> name[j + 1]]

\* The recursion has a solution: each turn starts where the one before ended.
LEMMA WalkSteps ==
  ASSUME NEW name, NEW collects, NEW turns \in Nat
  PROVE  \E walks : /\ Walked(name, collects, turns) = walks[turns]
                    /\ walks[0] = Walk(<<>>, name, collects[1])
                    /\ \A i \in 1..turns : walks[i] = Turn(collects, walks[i - 1])
<1> DEFINE Start == [path |-> <<>>, name |-> name, pending |-> collects[1]]
           Prefix(g, n) == g = [i \in 0..n |-> IF i = 0 THEN Start ELSE Turn(collects, g[i - 1])]
           Known == {n \in Nat : \E g : Prefix(g, n)}
<1>1. 0 \in Known
  <2>1. Prefix([i \in 0..0 |-> Start], 0)
    OBVIOUS
  <2> QED BY <2>1
<1>2. ASSUME NEW n \in Nat, n \in Known PROVE n + 1 \in Known
  <2>1. PICK g : Prefix(g, n)
    BY <1>2
  <2> DEFINE h == [i \in 0..(n + 1) |-> IF i <= n THEN g[i] ELSE Turn(collects, g[n])]
  <2> HIDE DEF Start
  <2>2. \A i \in 0..n : g[i] = IF i = 0 THEN Start ELSE Turn(collects, g[i - 1])
    BY <2>1
  <2>3. h[0] = Start /\ \A i \in 0..(n + 1) : i # 0 => h[i] = Turn(collects, h[i - 1])
    BY <2>2
  <2>4. \A i \in 0..(n + 1) : h[i] = IF i = 0 THEN Start ELSE Turn(collects, h[i - 1])
    BY <2>3
  <2>5. Prefix(h, n + 1)
    <3>1. h = [i \in 0..(n + 1) |-> h[i]]
      OBVIOUS
    <3> HIDE DEF h
    <3> QED BY <2>4, <3>1
  <2> HIDE DEF h, Prefix
  <2> QED BY <2>5
<1>3. \E g : Prefix(g, turns)
  <2> HIDE DEF Prefix
  <2> QED BY <1>1, <1>2, Successors
<1> DEFINE Walks == CHOOSE g : Prefix(g, turns)
<1>4. Walked(name, collects, turns) = Walks[turns]
  BY DEF Walked
<1>5. Prefix(Walks, turns)
  BY <1>3
<1> HIDE DEF Walks, Start
<1>6. \A i \in 0..turns : Walks[i] = IF i = 0 THEN Start ELSE Turn(collects, Walks[i - 1])
  BY <1>5
<1>7. \A i \in 1..turns : i \in 0..turns /\ i # 0
  OBVIOUS
<1>8. Walks[0] = Start /\ \A i \in 1..turns : Walks[i] = Turn(collects, Walks[i - 1])
  BY <1>6, <1>7
<1> QED BY <1>4, <1>8 DEF Start, Walk

\* A list of the containers of a container has an entry for each, and nothing else.
ListsAll(list, heap, id, n) ==
  /\ DOMAIN list = 1..n
  /\ \A i \in 1..n : \E j \in DOMAIN heap[id] :
       heap[id][j].node # 0 /\ list[i] = CollectEntry(<<heap[id][j].key>>, heap[id][j].node)
  /\ \A j \in DOMAIN heap[id] : heap[id][j].node # 0 =>
       \E i \in 1..n : list[i] = CollectEntry(<<heap[id][j].key>>, heap[id][j].node)

LEMMA ListFacts ==
  ASSUME NEW heap, NEW id, NEW list \in Lists(heap, id)
  PROVE  \E n \in Nat : ListsAll(list, heap, id, n)
<1>1. PICK n \in 0..Len(heap[id]) : list \in Orders(Listed(heap, id), n)
  BY DEF Lists
<1>2. list \in [1..n -> Listed(heap, id)] /\ {list[i] : i \in 1..n} = Listed(heap, id)
  BY <1>1 DEF Orders, ToSet
<1>3. \A e \in Listed(heap, id) : \E j \in DOMAIN heap[id] :
        heap[id][j].node # 0 /\ e = CollectEntry(<<heap[id][j].key>>, heap[id][j].node)
  BY DEF Listed
<1>4. \A j \in DOMAIN heap[id] : heap[id][j].node # 0 =>
        CollectEntry(<<heap[id][j].key>>, heap[id][j].node) \in Listed(heap, id)
  BY DEF Listed
<1>5. n \in Nat
  BY <1>1
<1> QED BY <1>2, <1>3, <1>4, <1>5 DEF ListsAll

\* What is left of a name when its first part is taken.
LEMMA RestFacts ==
  ASSUME NEW name \in Seq(STRING), Len(name) >= 2, NEW part \in STRING, name[1] = part
  PROVE  /\ Begins(name, <<part>>)
         /\ Rest(name, <<part>>) = Behind(name)
<1>1. Len(name) \in Nat /\ Len(<<part>>) = 1
  OBVIOUS
<1>2. SubSeq(name, 1, 1) = <<part>>
  <2>1. SubSeq(name, 1, 1) = [i \in 1..(1 + 1 - 1) |-> name[i + 1 - 1]]
    OBVIOUS
  <2>2. 1 + 1 - 1 = 1 /\ \A i \in 1..1 : i + 1 - 1 = 1
    OBVIOUS
  <2>3. \A i \in 1..1 : name[i + 1 - 1] = part
    BY <2>2
  <2>4. SubSeq(name, 1, 1) = [i \in 1..1 |-> part]
    BY <2>1, <2>2, <2>3
  <2>5. <<part>> = [i \in 1..1 |-> part]
    BY OnePart
  <2> QED BY <2>4, <2>5, Zenon
<1>3. SubSeq(name, 2, Len(name)) = [j \in 1..(Len(name) - 1) |-> name[j + 1]]
  <2>1. SubSeq(name, 2, Len(name)) = [i \in 1..(1 + Len(name) - 2) |-> name[i + 2 - 1]]
    OBVIOUS
  <2>2. 1 + Len(name) - 2 = Len(name) - 1 /\ \A i \in 1..(Len(name) - 1) : i + 2 - 1 = i + 1
    BY <1>1
  <2> QED BY <2>1, <2>2
<1>4. 1 + 1 = 2 /\ 1 < Len(name)
  BY <1>1
<1> QED BY <1>1, <1>2, <1>3, <1>4 DEF Begins, Rest, Behind

Legibly(heap) == IsHeap(heap) /\ Legible(heap)
\* A name that goes into the container at a place of another.
GoesInto(heap, id, at, list, name) ==
  /\ id \in DOMAIN heap /\ at \in DOMAIN heap[id] /\ heap[id][at].node # 0
  /\ list \in Lists(heap, id)
  /\ name \in Seq(STRING) /\ Len(name) >= 2
  /\ name[1] = UpperPart(heap[id][at].key) /\ name[2] # Blank

\* With the key of a container in front and more behind it, the turn goes into that
\* container.
LEMMA TurnGoesOn ==
  ASSUME NEW heap, Legibly(heap), NEW id, NEW at, NEW list, NEW name,
         GoesInto(heap, id, at, list, name), NEW collects, NEW path
  PROVE  Turn(collects, Walk(path, name, list)) =
           Walk(Append(path, <<heap[id][at].key>>), Behind(name), collects[heap[id][at].node])
<1> DEFINE walk == [path |-> path, name |-> name, pending |-> list]
           key == heap[id][at].key
           rest == Behind(name)
           right == CollectEntry(<<key>>, heap[id][at].node)
           fits == {i \in DOMAIN list : EntryMatches(list[i], name)}
           first == CHOOSE i \in fits : \A j \in fits : i <= j
<1> /\ IsHeap(heap) /\ Legible(heap)
    /\ id \in DOMAIN heap /\ at \in DOMAIN heap[id] /\ heap[id][at].node # 0
    /\ list \in Lists(heap, id)
    /\ name \in Seq(STRING) /\ Len(name) >= 2
    /\ name[1] = UpperPart(heap[id][at].key) /\ name[2] # Blank
  BY DEF Legibly, GoesInto
<1> PICK n \in Nat : ListsAll(list, heap, id, n)
  BY ListFacts
<1>1. /\ DOMAIN list = 1..n
      /\ \A i \in 1..n : \E j \in DOMAIN heap[id] :
           heap[id][j].node # 0 /\ list[i] = CollectEntry(<<heap[id][j].key>>, heap[id][j].node)
      /\ \A j \in DOMAIN heap[id] : heap[id][j].node # 0 =>
           \E i \in 1..n : list[i] = CollectEntry(<<heap[id][j].key>>, heap[id][j].node)
  BY DEF ListsAll
<1>2. ASSUME NEW j \in DOMAIN heap[id]
      PROVE  LET entry == CollectEntry(<<heap[id][j].key>>, heap[id][j].node)
             IN  /\ heap[id][j].key \in STRING
                 /\ entry.name = <<heap[id][j].key>> /\ entry.nested = heap[id][j].node
                 /\ entry.name \notin Wildcards
                 /\ Taken(entry, name) = <<UpperPart(heap[id][j].key)>>
  <2> DEFINE entry == CollectEntry(<<heap[id][j].key>>, heap[id][j].node)
  <2>1. heap[id][j].key \in STRING /\ entry.name = <<heap[id][j].key>>
        /\ entry.nested = heap[id][j].node
    BY MemberFacts DEF CollectEntry
  <2>2. entry.name \notin Wildcards
    BY <2>1 DEF Legible
  <2>3. Upper(<<heap[id][j].key>>) = <<UpperPart(heap[id][j].key)>>
    BY OnePart
  <2> HIDE DEF entry
  <2>4. Taken(entry, name) = <<UpperPart(heap[id][j].key)>>
    BY <2>1, <2>2, <2>3 DEF Taken
  <2> QED BY <2>1, <2>2, <2>4 DEF entry
<1>3. UpperPart(key) \in STRING /\ name[1] = UpperPart(key)
  BY MemberFacts, CaseFacts
<1>4. Begins(name, <<UpperPart(key)>>) /\ Rest(name, <<UpperPart(key)>>) = rest
  BY <1>3, RestFacts
<1>5. rest # <<Blank>>
  <2>1. Len(name) \in Nat
    OBVIOUS
  <2>2. 1 \in 1..(Len(name) - 1) /\ 1 + 1 = 2
    BY <2>1
  <2>3. rest[1] = name[2]
    BY <2>2 DEF Behind
  <2> HIDE DEF rest
  <2> QED BY <2>3
<1>6. EntryMatches(right, name)
  BY <1>2, <1>4, <1>5 DEF EntryMatches
<1>7. ASSUME NEW i \in fits PROVE list[i] = right
  <2>1. PICK j \in DOMAIN heap[id] : heap[id][j].node # 0
          /\ list[i] = CollectEntry(<<heap[id][j].key>>, heap[id][j].node)
    BY <1>1
  <2>2. Begins(name, <<UpperPart(heap[id][j].key)>>)
    BY <1>2, <2>1 DEF EntryMatches
  <2>3. UpperPart(heap[id][j].key) = name[1]
    <3> DEFINE part == UpperPart(heap[id][j].key)
    <3>1. Len(<<part>>) = 1 /\ SubSeq(name, 1, 1) = <<part>>
      BY <2>2 DEF Begins
    <3>2. SubSeq(name, 1, 1) = [k \in 1..(1 + 1 - 1) |-> name[k + 1 - 1]]
      OBVIOUS
    <3>3. 1 \in 1..(1 + 1 - 1) /\ 1 + 1 - 1 = 1 /\ <<part>>[1] = part
      OBVIOUS
    <3> HIDE DEF part
    <3>4. SubSeq(name, 1, 1)[1] = name[1]
      BY <3>2, <3>3
    <3> QED BY <3>1, <3>3, <3>4 DEF part
  <2>4. j = at
    BY <1>3, <2>1, <2>3 DEF Legible
  <2> QED BY <2>1, <2>4
<1>8. first \in fits
  <2>1. fits # {} /\ fits \subseteq Nat
    BY <1>1, <1>6
  <2>2. \E i \in fits : \A j \in fits : i <= j
    BY <2>1, Least
  <2> QED BY <2>2
<1>9. list[first] = right
  BY <1>7, <1>8
<1>10. Turn(collects, walk) =
         [path |-> Append(path, Collected(right, name)), name |-> Rest(name, Taken(right, name)),
          pending |-> collects[right.nested]]
  <2>1. fits # {}
    BY <1>8
  <2> QED BY <1>9, <2>1 DEF Turn
<1>11. Collected(right, name) = <<key>> /\ Rest(name, Taken(right, name)) = rest
       /\ right.nested = heap[id][at].node
  BY <1>2, <1>4 DEF Collected
<1> QED BY <1>10, <1>11 DEF Walk

\* A name of one part is the key of the value.
LEMMA TurnEnds ==
  ASSUME NEW heap, IsHeap(heap), Legible(heap), NEW id \in DOMAIN heap, NEW list,
         list \in Lists(heap, id) \/ list = <<>>,
         NEW collects, NEW path, NEW name \in Seq(STRING), Len(name) = 1
  PROVE  Turn(collects, Walk(path, name, list)) = Walk(path, name, <<>>)
<1> DEFINE walk == [path |-> path, name |-> name, pending |-> list]
           fits == {i \in DOMAIN list : EntryMatches(list[i], name)}
<1>1. ASSUME NEW i \in fits PROVE FALSE
  <2>1. list # <<>>
    BY <1>1
  <2>2. PICK j \in DOMAIN heap[id] : list[i] = CollectEntry(<<heap[id][j].key>>, heap[id][j].node)
    <3>1. list \in Lists(heap, id) /\ i \in DOMAIN list
      BY <1>1, <2>1
    <3>2. PICK n \in Nat : ListsAll(list, heap, id, n)
      BY <3>1, ListFacts
    <3> QED BY <3>1, <3>2 DEF ListsAll
  <2>3. list[i].name = <<heap[id][j].key>> /\ list[i].name \notin Wildcards
    BY <2>2 DEF CollectEntry, Legible
  <2>4. Taken(list[i], name) = <<UpperPart(heap[id][j].key)>>
    <3>1. Upper(<<heap[id][j].key>>) = <<UpperPart(heap[id][j].key)>>
      BY OnePart
    <3> QED BY <2>3, <3>1 DEF Taken
  <2>5. Len(Taken(list[i], name)) = 1
    BY <2>4
  <2> QED BY <1>1, <2>5 DEF EntryMatches, Begins
<1> QED BY <1>1 DEF Turn, Walk

-----------------------------------------------------------------------------
(* Routes to values *)

\* A way of n members from the first container to a value.
IsRoute(heap, ids, at, n) ==
  /\ n \in Nat \ {0}
  /\ ids \in [1..n -> DOMAIN heap] /\ ids[1] = 1
  /\ \A i \in 1..n : at[i] \in DOMAIN heap[ids[i]]
  /\ \A i \in 1..n : heap[ids[i]][at[i]].node = IF i = n THEN 0 ELSE ids[i + 1]
KeysOf(heap, ids, at, n) == [i \in 1..n |-> heap[ids[i]][at[i]].key]

LEMMA RouteFacts ==
  ASSUME NEW heap, NEW ids, NEW at, NEW n, IsRoute(heap, ids, at, n)
  PROVE  /\ n \in Nat /\ n >= 1 /\ ids[1] = 1
         /\ \A i \in 1..n : ids[i] \in DOMAIN heap /\ at[i] \in DOMAIN heap[ids[i]]
<1>1. n \in Nat /\ n >= 1 /\ ids[1] = 1 /\ ids \in [1..n -> DOMAIN heap]
      /\ \A i \in 1..n : at[i] \in DOMAIN heap[ids[i]]
  BY DEF IsRoute
<1> QED BY <1>1

LEMMA KeysFacts ==
  ASSUME NEW heap, IsHeap(heap), NEW ids, NEW at, NEW n, IsRoute(heap, ids, at, n)
  PROVE  /\ KeysOf(heap, ids, at, n) \in Seq(STRING) /\ Len(KeysOf(heap, ids, at, n)) = n
         /\ \A i \in 1..n : KeysOf(heap, ids, at, n)[i] = heap[ids[i]][at[i]].key
<1>1. n \in Nat /\ \A i \in 1..n : heap[ids[i]][at[i]].key \in STRING
  BY MemberFacts DEF IsRoute
<1> QED BY <1>1 DEF KeysOf

Takes(walks, name, collects, n, turns) ==
  /\ turns \in Nat /\ turns >= n
  /\ walks[0] = Walk(<<>>, name, collects[1])
  /\ \A i \in 1..turns : walks[i] = Turn(collects, walks[i - 1])

Along(heap, ids, at, n, collects, keys, turns, walks) ==
  /\ Legibly(heap) /\ IsRoute(heap, ids, at, n) /\ collects \in Mirrors(heap)
  /\ keys \in Seq(STRING) /\ Len(keys) = n
  /\ \A i \in 1..n : keys[i] = heap[ids[i]][at[i]].key
  /\ Takes(walks, Upper(keys), collects, n, turns)

\* The turns go along the route: each takes a key of a container, up to the last one.
LEMMA WalkAlong ==
  ASSUME NEW heap, NEW ids, NEW at, NEW n, NEW collects, NEW keys, NEW turns, NEW walks,
         Along(heap, ids, at, n, collects, keys, turns, walks)
  PROVE  walks[n - 1] = Walk([j \in 1..(n - 1) |-> <<keys[j]>>], <<UpperPart(keys[n])>>,
                             collects[ids[n]])
<1> DEFINE Path(i) == [j \in 1..i |-> <<keys[j]>>]
           Left(i) == [j \in 1..(n - i) |-> UpperPart(keys[i + j])]
           At(i) == Walk(Path(i), Left(i), collects[ids[i + 1]])
           T == {i \in Nat : i <= n - 1 => walks[i] = At(i)}
<1>0. /\ IsHeap(heap) /\ Legible(heap) /\ IsRoute(heap, ids, at, n) /\ collects \in Mirrors(heap)
      /\ keys \in Seq(STRING) /\ Len(keys) = n
      /\ \A i \in 1..n : keys[i] = heap[ids[i]][at[i]].key
      /\ turns \in Nat /\ turns >= n
      /\ walks[0] = Walk(<<>>, Upper(keys), collects[1])
      /\ \A i \in 1..turns : walks[i] = Turn(collects, walks[i - 1])
  BY DEF Along, Legibly, Takes
<1>1. /\ n \in Nat /\ n >= 1 /\ ids[1] = 1 /\ DOMAIN keys = 1..n
      /\ \A i \in 1..n : keys[i] \in STRING /\ ids[i] \in DOMAIN heap
      /\ \A i \in 1..n : UpperPart(keys[i]) \in STRING
  <2>1. /\ n \in Nat /\ n >= 1 /\ ids[1] = 1 /\ \A i \in 1..n : ids[i] \in DOMAIN heap
    BY <1>0, RouteFacts
  <2>2. DOMAIN keys = 1..n /\ \A i \in 1..n : keys[i] \in STRING
    BY <1>0
  <2> QED BY <2>1, <2>2, CaseFacts
<1>2. 0 \in T
  <2>1. Path(0) = <<>>
    <3>1. 1..0 = {}
      OBVIOUS
    <3> QED BY <3>1
  <2>2. Left(0) = Upper(keys)
    <3>1. n - 0 = n /\ \A j \in 1..n : 0 + j = j
      BY <1>1
    <3> QED BY <1>1, <3>1 DEF Upper
  <2>3. 0 + 1 = 1
    OBVIOUS
  <2> HIDE DEF Path, Left
  <2> QED BY <1>0, <1>1, <2>1, <2>2, <2>3
<1>3. ASSUME NEW i \in Nat, i \in T PROVE i + 1 \in T
  <2> SUFFICES ASSUME i + 1 <= n - 1 PROVE walks[i + 1] = At(i + 1)
    OBVIOUS
  <2> DEFINE id == ids[i + 1]
             here == at[i + 1]
             name == Left(i)
  <2>1. /\ i + 1 \in 1..n /\ i + 2 \in 1..n /\ i + 1 # n /\ i + 1 \in 1..turns
        /\ (i + 1) - 1 = i /\ i <= n - 1 /\ (i + 1) + 1 = i + 2 /\ n - i \in Nat /\ n - i >= 2
    <3>1. \A k, m, t \in Nat : k + 1 <= m - 1 /\ t >= m =>
            /\ k + 1 \in 1..m /\ k + 2 \in 1..m /\ k + 1 # m /\ k + 1 \in 1..t
            /\ (k + 1) - 1 = k /\ k <= m - 1 /\ (k + 1) + 1 = k + 2 /\ m - k \in Nat /\ m - k >= 2
      OBVIOUS
    <3> QED BY <1>0, <1>1, <3>1
  <2>2. walks[i] = At(i) /\ walks[i + 1] = Turn(collects, walks[i])
    BY <1>0, <1>3, <2>1
  <2>3. /\ id \in DOMAIN heap /\ here \in DOMAIN heap[id]
        /\ heap[id][here].node = ids[i + 2] /\ ids[i + 2] \in DOMAIN heap
        /\ heap[id][here].key = keys[i + 1]
    BY <1>0, <1>1, <2>1 DEF IsRoute
  <2>4. heap[id][here].node # 0
    BY <1>0, <2>3 DEF IsHeap
  <2>5. collects[id] \in Lists(heap, id)
    BY <1>0, <2>3 DEF Mirrors
  <2>6. name \in Seq(STRING) /\ Len(name) = n - i /\ Len(name) >= 2
    <3>1. \A j \in 1..(n - i) : i + j \in 1..n
      BY <1>1, <2>1
    <3>2. \A j \in 1..(n - i) : UpperPart(keys[i + j]) \in STRING
      BY <1>1, <3>1
    <3>3. name = [j \in 1..(n - i) |-> name[j]] /\ \A j \in 1..(n - i) : name[j] \in STRING
      BY <3>2
    <3> HIDE DEF name
    <3> QED BY <2>1, <3>3, IsSequence
  <2>7. name[1] = UpperPart(heap[id][here].key) /\ name[2] = UpperPart(keys[i + 2])
    BY <2>1, <2>3
  <2>8. UpperPart(keys[i + 2]) # Blank
    <3>1. at[i + 2] \in DOMAIN heap[ids[i + 2]] /\ keys[i + 2] = heap[ids[i + 2]][at[i + 2]].key
      BY <1>0, <2>1 DEF IsRoute
    <3>2. keys[i + 2] # Blank
      BY <1>0, <2>3, <3>1, ZenonT(30) DEF Legible
    <3> QED BY <1>1, <2>1, <3>2, CaseFacts
  <2>14. name[2] # Blank
    BY <2>7, <2>8
  <2>9. Append(Path(i), <<keys[i + 1]>>) = Path(i + 1)
    <3> DEFINE P == Path(i)
    <3>1. P \in Seq({<<keys[j]>> : j \in 1..n}) /\ Len(P) = i
      <4>1. \A j \in 1..i : j \in 1..n
        BY <1>1, <2>1
      <4>2. P = [j \in 1..i |-> P[j]] /\ \A j \in 1..i : P[j] \in {<<keys[k]>> : k \in 1..n}
        BY <4>1
      <4> HIDE DEF P
      <4> QED BY <4>2, IsSequence
    <3>2. Append(P, <<keys[i + 1]>>) =
            [j \in 1..(i + 1) |-> IF j = i + 1 THEN <<keys[i + 1]>> ELSE P[j]]
      <4> HIDE DEF P
      <4> QED BY <3>1, AppendFacts
    <3>3. \A j \in 1..(i + 1) : j # i + 1 => j \in 1..i
      OBVIOUS
    <3>4. \A j \in 1..(i + 1) : j # i + 1 => P[j] = <<keys[j]>>
      BY <3>3
    <3> HIDE DEF P
    <3> QED BY <3>2, <3>4 DEF P
  <2>10. Behind(name) = Left(i + 1)
    <3>1. \A j \in 1..(n - (i + 1)) :
            /\ j \in 1..((n - i) - 1) /\ j + 1 \in 1..(n - i) /\ i + (j + 1) = (i + 1) + j
      BY <1>1
    <3>2. (n - i) - 1 = n - (i + 1)
      BY <1>1
    <3>3. \A j \in 1..(n - (i + 1)) : name[j + 1] = UpperPart(keys[(i + 1) + j])
      BY <3>1
    <3> HIDE DEF name
    <3> QED BY <2>6, <3>2, <3>3 DEF Behind
  <2> HIDE DEF Path, Left, id, here, name
  <2>11. Turn(collects, Walk(Path(i), name, collects[id])) =
           Walk(Append(Path(i), <<heap[id][here].key>>), Behind(name),
                collects[heap[id][here].node])
    <3>1. GoesInto(heap, id, here, collects[id], name)
      BY <2>3, <2>4, <2>5, <2>6, <2>7, <2>14 DEF GoesInto
    <3>2. Legibly(heap)
      BY <1>0 DEF Legibly
    <3> QED BY <3>1, <3>2, TurnGoesOn
  <2>12. At(i) = Walk(Path(i), name, collects[id])
    BY DEF name, id
  <2>13. At(i + 1) = Walk(Path(i + 1), Left(i + 1), collects[ids[i + 2]])
    BY <2>1
  <2> HIDE DEF At
  <2> QED BY <2>2, <2>3, <2>9, <2>10, <2>11, <2>12, <2>13
<1>4. n - 1 \in T
  <2> HIDE DEF T
  <2>1. n - 1 \in Nat
    BY <1>1
  <2> QED BY <1>2, <1>3, <2>1, Successors
<1>5. Left(n - 1) = <<UpperPart(keys[n])>>
  <2>1. n - (n - 1) = 1 /\ (n - 1) + 1 = n /\ \A j \in 1..1 : (n - 1) + j = n
    BY <1>1
  <2>2. Left(n - 1) = [j \in 1..1 |-> UpperPart(keys[n])]
    BY <2>1
  <2> QED BY <2>2, OnePart
<1>6. (n - 1) + 1 = n /\ n - 1 <= n - 1
  BY <1>1
<1> HIDE DEF Path, Left
<1>7. walks[n - 1] = At(n - 1)
  BY <1>4, <1>6
<1> QED BY <1>5, <1>6, <1>7 DEF Path

Ending(heap, id, collects, path, name, n, turns, walks) ==
  /\ Legibly(heap) /\ id \in DOMAIN heap /\ collects[id] \in Lists(heap, id)
  /\ n \in Nat /\ n >= 1 /\ name \in Seq(STRING) /\ Len(name) = 1
  /\ turns \in Nat /\ turns >= n
  /\ walks[n - 1] = Walk(path, name, collects[id])
  /\ \A i \in 1..turns : walks[i] = Turn(collects, walks[i - 1])

\* The turns after that change nothing but the list, which is empty.
LEMMA WalkStays ==
  ASSUME NEW heap, NEW id, NEW collects, NEW path, NEW name, NEW n, NEW turns, NEW walks,
         Ending(heap, id, collects, path, name, n, turns, walks)
  PROVE  walks[turns].path = path /\ walks[turns].name = name
<1> DEFINE Rested == Walk(path, name, <<>>)
           T == {i \in Nat : n <= i /\ i <= turns => walks[i] = Rested}
<1> /\ IsHeap(heap) /\ Legible(heap) /\ id \in DOMAIN heap /\ collects[id] \in Lists(heap, id)
    /\ n \in Nat /\ n >= 1 /\ name \in Seq(STRING) /\ Len(name) = 1
    /\ turns \in Nat /\ turns >= n
    /\ walks[n - 1] = Walk(path, name, collects[id])
    /\ \A i \in 1..turns : walks[i] = Turn(collects, walks[i - 1])
  BY DEF Ending, Legibly
<1>1. 0 \in T
  OBVIOUS
<1>2. ASSUME NEW i \in Nat, i \in T PROVE i + 1 \in T
  <2> SUFFICES ASSUME n <= i + 1, i + 1 <= turns PROVE walks[i + 1] = Rested
    OBVIOUS
  <2>1. i + 1 \in 1..turns /\ (i + 1) - 1 = i
    OBVIOUS
  <2>2. walks[i + 1] = Turn(collects, walks[i])
    BY <2>1
  <2>3. CASE n = i + 1
    <3>1. n - 1 = i
      BY <2>3
    <3>2. walks[i] = Walk(path, name, collects[id])
      BY <3>1
    <3>3. Turn(collects, Walk(path, name, collects[id])) = Rested
      BY TurnEnds
    <3> QED BY <2>2, <3>2, <3>3
  <2>4. CASE n # i + 1
    <3>1. n <= i /\ i <= turns
      BY <2>4
    <3>2. walks[i] = Rested
      BY <1>2, <3>1
    <3>3. Turn(collects, Walk(path, name, <<>>)) = Rested
      BY TurnEnds, ZenonT(30)
    <3> QED BY <2>2, <3>2, <3>3
  <2> QED BY <2>3, <2>4
<1>3. turns \in T
  <2> HIDE DEF T
  <2> QED BY <1>1, <1>2, Successors
<1>4. walks[turns] = Rested
  BY <1>3
<1> QED BY <1>4 DEF Walk

\* A value is found again at the keys of its route.
LEMMA RouteReadsBack ==
  ASSUME NEW heap, IsHeap(heap), Legible(heap), NEW ids, NEW at, NEW n,
         IsRoute(heap, ids, at, n), NEW collects \in Mirrors(heap), NEW prefix \in Seq(STRING)
  PROVE  Destination(Upper(prefix \o KeysOf(heap, ids, at, n)), prefix, collects) =
           WasUnder(KeysOf(heap, ids, at, n))
<1> DEFINE keys == KeysOf(heap, ids, at, n)
           p == Len(prefix)
           full == Upper(prefix \o keys)
           last == Walked(Strip(full, prefix), collects, Len(full))
           path == [j \in 1..(n - 1) |-> <<keys[j]>>]
           name == <<UpperPart(keys[n])>>
<1>1. /\ keys \in Seq(STRING) /\ Len(keys) = n
      /\ \A i \in 1..n : keys[i] = heap[ids[i]][at[i]].key
  BY KeysFacts
<1>2. n \in Nat /\ n >= 1 /\ n \in 1..n /\ ids[n] \in DOMAIN heap
  BY DEF IsRoute
<1> HIDE DEF keys
<1>3. DOMAIN keys = 1..n /\ keys[n] \in STRING /\ keys # <<>> /\ p \in Nat
  BY <1>1, <1>2
<1>4. Len(full) = p + n /\ p + n \in Nat /\ p + n >= n
  <2>1. prefix \o keys \in Seq(STRING) /\ Len(prefix \o keys) = p + n
    BY <1>1
  <2>2. Len(full) = p + n
    <3> HIDE DEF p
    <3> QED BY <2>1, UpperFacts
  <2> QED BY <1>2, <1>3, <2>2
<1>5. Strip(full, prefix) = Upper(keys)
  BY <1>1, <1>3, StripFacts
<1>6. last = Walked(Upper(keys), collects, p + n)
  BY <1>4, <1>5
<1>7. PICK walks : /\ Walked(Upper(keys), collects, p + n) = walks[p + n]
                   /\ walks[0] = Walk(<<>>, Upper(keys), collects[1])
                   /\ \A i \in 1..(p + n) : walks[i] = Turn(collects, walks[i - 1])
  <2> HIDE DEF p
  <2> QED BY <1>4, WalkSteps
<1>14. Takes(walks, Upper(keys), collects, n, p + n)
  BY <1>4, <1>7 DEF Takes
<1> HIDE DEF p, full, last
<1>8. walks[n - 1] = Walk(path, name, collects[ids[n]])
  <2>1. Along(heap, ids, at, n, collects, keys, Len(prefix) + n, walks)
    BY <1>1, <1>14 DEF Along, Legibly, p
  <2> QED BY <2>1, WalkAlong DEF path, name
<1>9. collects[ids[n]] \in Lists(heap, ids[n])
  BY <1>2 DEF Mirrors
<1>10. name \in Seq(STRING) /\ Len(name) = 1
  <2>1. UpperPart(keys[n]) \in STRING
    BY <1>3, CaseFacts
  <2> QED BY <2>1
<1> HIDE DEF path, name
<1>11. last.path = path /\ last.name = name
  <2>1. walks[p + n].path = path /\ walks[p + n].name = name
    <3>1. Ending(heap, ids[n], collects, path, name, n, p + n, walks)
      BY <1>2, <1>8, <1>9, <1>10, <1>14 DEF Ending, Legibly, Takes
    <3> QED BY <3>1, WalkStays
  <2> QED BY <1>6, <1>7, <2>1
<1>12. NameCase(name) = NameCase(<<keys[n]>>)
  BY <1>3, CaseFacts, OnePart DEF name
<1>13. Append(path, NameCase(<<keys[n]>>)) = WasUnder(keys)
  <2> DEFINE end == NameCase(<<keys[n]>>)
  <2>1. path \in Seq({<<keys[j]>> : j \in 1..n}) /\ Len(path) = n - 1
    <3>1. n - 1 \in Nat /\ \A j \in 1..(n - 1) : j \in 1..n
      BY <1>2
    <3>2. /\ path = [j \in 1..(n - 1) |-> path[j]]
          /\ \A j \in 1..(n - 1) : path[j] \in {<<keys[k]>> : k \in 1..n}
      BY <3>1 DEF path
    <3> QED BY <3>1, <3>2, IsSequence, SMTT(30)
  <2> HIDE DEF end
  <2>2. Append(path, end) = [j \in 1..((n - 1) + 1) |-> IF j = (n - 1) + 1 THEN end ELSE path[j]]
    BY <1>2, <2>1, AppendFacts
  <2>3. (n - 1) + 1 = n /\ \A j \in 1..n : j # n => j \in 1..(n - 1)
    BY <1>2
  <2>4. \A j \in 1..n : j # n => path[j] = <<keys[j]>>
    BY <2>3 DEF path
  <2>5. \A j \in 1..n : j = n => NameCase(<<keys[j]>>) = end
    BY DEF end
  <2>8. \A j \in 1..((n - 1) + 1) : (j = (n - 1) + 1) <=> (j = n)
    BY <2>3
  <2>9. Append(path, end) = [j \in 1..n |-> IF j = n THEN end ELSE path[j]]
    BY <2>2, <2>3, <2>8
  <2>6. WasUnder(keys) = [j \in 1..n |-> IF j = n THEN NameCase(<<keys[j]>>) ELSE <<keys[j]>>]
    BY <1>1, <1>3 DEF WasUnder
  <2>7. \A j \in 1..n : (IF j = n THEN end ELSE path[j]) =
                           IF j = n THEN NameCase(<<keys[j]>>) ELSE <<keys[j]>>
    BY <2>4, <2>5
  <2>10. [j \in 1..n |-> IF j = n THEN end ELSE path[j]] =
           [j \in 1..n |-> IF j = n THEN NameCase(<<keys[j]>>) ELSE <<keys[j]>>]
    BY <2>7
  <2> QED BY <2>6, <2>9, <2>10 DEF end
<1> QED BY <1>11, <1>12, <1>13 DEF Destination, full, last, keys

-----------------------------------------------------------------------------
(* Containers that can be reached *)

LEMMA ReachFacts ==
  ASSUME NEW heap, NEW id \in DOMAIN heap
  PROVE  /\ id \in Reachable(heap, id)
         /\ \A x \in Reachable(heap, id) : \A y \in Inside(heap, x) :
              y \in DOMAIN heap => y \in Reachable(heap, id)
<1>1. id \in Reachable(heap, id)
  BY DEF Reachable
<1>2. ASSUME NEW x \in Reachable(heap, id), NEW y \in Inside(heap, x), y \in DOMAIN heap
      PROVE  y \in Reachable(heap, id)
  <2>1. ASSUME NEW ids \in SUBSET DOMAIN heap, id \in ids, Closed(heap, ids) PROVE y \in ids
    <3>1. x \in ids
      BY <2>1 DEF Reachable
    <3> QED BY <2>1, <3>1 DEF Closed
  <2> QED BY <1>2, <2>1 DEF Reachable
<1> QED BY <1>1, <1>2

LEMMA ReachClosed ==
  ASSUME NEW heap, NEW ids \in SUBSET DOMAIN heap, Closed(heap, ids), NEW id \in ids
  PROVE  Reachable(heap, id) \subseteq ids
BY DEF Reachable

LEMMA InsideFacts ==
  ASSUME NEW heap, IsHeap(heap), NEW id \in DOMAIN heap
  PROVE  /\ Inside(heap, id) \subseteq DOMAIN heap
         /\ \A i \in DOMAIN heap[id] : heap[id][i].node # 0 => heap[id][i].node \in Inside(heap, id)
         /\ \A x \in Inside(heap, id) : \E i \in DOMAIN heap[id] : x = heap[id][i].node
BY MemberFacts DEF Inside

-----------------------------------------------------------------------------
(* Ways to containers and values *)

\* A way of n members from the first container to another one, or to a value (0).
Leads(heap, ids, at, n, end) ==
  /\ ids \in [1..n -> DOMAIN heap]
  /\ \A i \in 1..n : at[i] \in DOMAIN heap[ids[i]]
  /\ \A i \in 1..n : heap[ids[i]][at[i]].node = IF i = n THEN end ELSE ids[i + 1]
  /\ (IF n = 0 THEN end ELSE ids[1]) = 1

NamedBy(heap, prefix, name, end) ==
  \E n \in Nat : \E ids \in [1..n -> DOMAIN heap], at \in [1..n -> Nat] :
    Leads(heap, ids, at, n, end) /\ name = prefix \o KeysOf(heap, ids, at, n)

-----------------------------------------------------------------------------
(* The invariant *)

Frames(heap) == [id : DOMAIN heap, prefix : Seq(STRING), done : Nat]
Entries == [name : Seq(STRING), value : Nat]

\* Each call is for the container that the one outside it came to, under the name of
\* the way there, and can be reached from all of them.
GoodCalls(heap, prefix, calls) ==
  /\ calls \in Seq(Frames(heap))
  /\ calls # <<>> => calls[1].id = 1
  /\ \A i \in DOMAIN calls :
       /\ calls[i].done <= Len(heap[calls[i].id])
       /\ NamedBy(heap, prefix, calls[i].prefix, calls[i].id)
       /\ i < Len(calls) => /\ calls[i].done \in DOMAIN heap[calls[i].id]
                            /\ heap[calls[i].id][calls[i].done].node = calls[i + 1].id
       /\ \A j \in DOMAIN calls : i <= j => calls[j].id \in Reachable(heap, calls[i].id)

\* No container in a closed set is inside itself.
Clear(heap, ids) ==
  /\ ids \subseteq DOMAIN heap /\ Closed(heap, ids)
  /\ \A id \in ids : \A next \in Inside(heap, id) : id \notin Reachable(heap, next)

\* Each container that a call is done with, all but the one it is in, is in a set.
Settled(heap, calls, ids) ==
  \A i \in DOMAIN calls : \A m \in 1..calls[i].done :
    m < calls[i].done \/ i = Len(calls) => heap[calls[i].id][m].node \in ids \cup {0}

\* There is such a set without cycles, and the first container is in it at the end.
Sound(heap, calls) ==
  \E ids \in SUBSET DOMAIN heap :
    Clear(heap, ids) /\ Settled(heap, calls, ids) /\ (calls = <<>> => 1 \in ids)

GoodFlat(heap, prefix, flat) ==
  /\ flat \in Seq(Entries)
  /\ \A i \in DOMAIN flat : NamedBy(heap, prefix, flat[i].name, 0)

Good(x, o) ==
  /\ o = Flattened(o.calls, o.flat, o.error)
  /\ o.error \in {"open", "none", "cycle", "collision"}
  /\ GoodCalls(x.heap, x.prefix, o.calls)
  /\ GoodFlat(x.heap, x.prefix, o.flat)
  /\ Sound(x.heap, o.calls)
  /\ o.error = "none" => o.calls = <<>> /\ ~SameName(o.flat)
  /\ o.error = "cycle" => Circular(x.heap)

FlattenInv ==
  /\ \E i \in DOMAIN Inputs : input \in Inputs[i]
  /\ After("tree") => Good(input, output)

-----------------------------------------------------------------------------
(* Names *)

LEMMA LeadKeys ==
  ASSUME NEW heap, IsHeap(heap), NEW n \in Nat, NEW ids, NEW at, NEW end,
         Leads(heap, ids, at, n, end)
  PROVE  KeysOf(heap, ids, at, n) \in Seq(STRING) /\ Len(KeysOf(heap, ids, at, n)) = n
<1> DEFINE keys == KeysOf(heap, ids, at, n)
<1>1. \A i \in 1..n : ids[i] \in DOMAIN heap /\ at[i] \in DOMAIN heap[ids[i]]
  BY DEF Leads
<1>2. \A i \in 1..n : heap[ids[i]][at[i]].key \in STRING
  BY <1>1, MemberFacts
<1>3. keys = [i \in 1..n |-> keys[i]] /\ \A i \in 1..n : keys[i] \in STRING
  BY <1>2 DEF KeysOf
<1> HIDE DEF keys
<1>4. keys \in Seq(STRING) /\ Len(keys) = n
  BY <1>3, IsSequence
<1> QED BY <1>4 DEF keys

\* A way to a container goes on to each of its members.
LEMMA NamedGoesOn ==
  ASSUME NEW heap, IsHeap(heap), NEW prefix \in Seq(STRING), NEW name, NEW id \in DOMAIN heap,
         NamedBy(heap, prefix, name, id), NEW m \in DOMAIN heap[id]
  PROVE  /\ name \in Seq(STRING) /\ name \o <<heap[id][m].key>> \in Seq(STRING)
         /\ NamedBy(heap, prefix, name \o <<heap[id][m].key>>, heap[id][m].node)
<1> PICK n \in Nat : \E ids \in [1..n -> DOMAIN heap], at \in [1..n -> Nat] :
      Leads(heap, ids, at, n, id) /\ name = prefix \o KeysOf(heap, ids, at, n)
  BY DEF NamedBy
<1>1. PICK ids \in [1..n -> DOMAIN heap], at \in [1..n -> Nat] :
        Leads(heap, ids, at, n, id) /\ name = prefix \o KeysOf(heap, ids, at, n)
  OBVIOUS
<1> DEFINE key == heap[id][m].key
           end == heap[id][m].node
           keys == KeysOf(heap, ids, at, n)
           ids2 == [i \in 1..(n + 1) |-> IF i = n + 1 THEN id ELSE ids[i]]
           at2 == [i \in 1..(n + 1) |-> IF i = n + 1 THEN m ELSE at[i]]
           keys2 == KeysOf(heap, ids2, at2, n + 1)
<1>2. key \in STRING /\ m \in Nat
  BY MemberFacts
<1>3. keys \in Seq(STRING) /\ Len(keys) = n
  BY <1>1, LeadKeys
<1>4. /\ \A i \in 1..n : ids[i] \in DOMAIN heap /\ at[i] \in DOMAIN heap[ids[i]] /\ at[i] \in Nat
      /\ \A i \in 1..n : heap[ids[i]][at[i]].node = IF i = n THEN id ELSE ids[i + 1]
      /\ (IF n = 0 THEN id ELSE ids[1]) = 1
  BY <1>1 DEF Leads
<1>5. /\ ids2 \in [1..(n + 1) -> DOMAIN heap] /\ at2 \in [1..(n + 1) -> Nat]
      /\ ids2[n + 1] = id /\ at2[n + 1] = m
      /\ \A i \in 1..n : ids2[i] = ids[i] /\ at2[i] = at[i]
      /\ \A i \in 1..(n + 1) : i = n + 1 \/ i \in 1..n
  BY <1>2, <1>4
<1> HIDE DEF ids2, at2
<1>6. Leads(heap, ids2, at2, n + 1, end)
  <2>1. \A i \in 1..(n + 1) : at2[i] \in DOMAIN heap[ids2[i]]
    BY <1>4, <1>5
  <2>2. ASSUME NEW i \in 1..(n + 1)
        PROVE  heap[ids2[i]][at2[i]].node = IF i = n + 1 THEN end ELSE ids2[i + 1]
    <3>1. CASE i = n + 1
      BY <1>5, <3>1
    <3>2. CASE i = n /\ i # n + 1
      BY <1>4, <1>5, <3>2
    <3>3. CASE i # n /\ i # n + 1
      <4>1. i \in 1..n /\ i + 1 \in 1..n
        BY <3>3
      <4> QED BY <1>4, <1>5, <3>3, <4>1
    <3> QED BY <3>1, <3>2, <3>3
  <2>3. n + 1 # 0 /\ ids2[1] = 1
    <3>1. CASE n = 0
      BY <1>4, <1>5, <3>1
    <3>2. CASE n # 0
      <4>1. 1 \in 1..n
        BY <3>2
      <4> QED BY <1>4, <1>5, <3>2, <4>1
    <3> QED BY <3>1, <3>2
  <2> QED BY <1>5, <2>1, <2>2, <2>3 DEF Leads
<1>7. keys2 = Append(keys, key)
  <2>1. keys2 = [i \in 1..(n + 1) |-> heap[ids2[i]][at2[i]].key]
    BY DEF KeysOf
  <2>2. \A i \in 1..n : keys[i] = heap[ids[i]][at[i]].key
    BY DEF KeysOf
  <2>3. \A i \in 1..(n + 1) :
          heap[ids2[i]][at2[i]].key = IF i = n + 1 THEN key ELSE keys[i]
    BY <1>5, <2>2
  <2> HIDE DEF keys, keys2, key
  <2>4. Append(keys, key) = [i \in 1..(n + 1) |-> IF i = n + 1 THEN key ELSE keys[i]]
    BY <1>3, AppendFacts
  <2> QED BY <2>1, <2>3, <2>4
<1> HIDE DEF keys, keys2, key, end
<1>8. <<key>> \in Seq(STRING) /\ Append(keys, key) = keys \o <<key>>
  <2>1. <<key>> \in Seq(STRING)
    BY <1>2, OnePart
  <2>2. Append(keys, key) = keys \o <<key>>
    BY <1>2, <1>3, AppendIsConcat
  <2> QED BY <2>1, <2>2
<1>9. name \o <<key>> = prefix \o keys2
  <2>1. keys \in Seq(STRING) /\ name = prefix \o keys /\ keys2 = keys \o <<key>>
    BY <1>1, <1>3, <1>7, <1>8 DEF keys
  <2>2. (prefix \o keys) \o <<key>> = prefix \o (keys \o <<key>>)
    BY <1>8, <2>1, ConcatAssociative
  <2> QED BY <2>1, <2>2, Zenon
<1>10. name \in Seq(STRING) /\ name \o <<key>> \in Seq(STRING)
  BY <1>1, <1>3, <1>8, ConcatProperties DEF keys
<1>11. NamedBy(heap, prefix, name \o <<key>>, end)
  <2>1. n + 1 \in Nat
    OBVIOUS
  <2> QED BY <1>5, <1>6, <1>9, <2>1 DEF NamedBy, keys2
<1> QED BY <1>10, <1>11 DEF key, end

-----------------------------------------------------------------------------
(* Calls *)

LEMMA FrameFacts ==
  ASSUME NEW heap, NEW calls \in Seq(Frames(heap))
  PROVE  /\ Len(calls) \in Nat /\ DOMAIN calls = 1..Len(calls)
         /\ \A i \in DOMAIN calls : /\ calls[i] \in Frames(heap)
                                    /\ calls[i].id \in DOMAIN heap /\ calls[i].prefix \in Seq(STRING)
                                    /\ calls[i].done \in Nat
         /\ calls # <<>> => Len(calls) \in DOMAIN calls /\ 1 \in DOMAIN calls
                           /\ Len(calls) >= 1 /\ Last(calls) = calls[Len(calls)]
<1>1. Len(calls) \in Nat /\ DOMAIN calls = 1..Len(calls)
      /\ \A i \in DOMAIN calls : calls[i] \in Frames(heap)
  OBVIOUS
<1>2. ASSUME NEW f \in Frames(heap)
      PROVE  f.id \in DOMAIN heap /\ f.prefix \in Seq(STRING) /\ f.done \in Nat
  BY DEF Frames
<1>3. calls # <<>> => Len(calls) >= 1
  BY <1>1, EmptySeq
<1> QED BY <1>1, <1>2, <1>3 DEF Last

Step(calls) == [calls EXCEPT ![Len(calls)].done = @ + 1]

LEMMA StepFacts ==
  ASSUME NEW heap, NEW calls \in Seq(Frames(heap)), calls # <<>>
  PROVE  /\ Step(calls) \in Seq(Frames(heap)) /\ Len(Step(calls)) = Len(calls)
         /\ DOMAIN Step(calls) = 1..Len(calls)
         /\ \A i \in 1..Len(calls) :
              /\ Step(calls)[i].id = calls[i].id /\ Step(calls)[i].prefix = calls[i].prefix
              /\ Step(calls)[i].done =
                   IF i = Len(calls) THEN calls[i].done + 1 ELSE calls[i].done
<1> DEFINE n == Len(calls)
           s == Step(calls)
<1>1. /\ n \in Nat /\ n >= 1 /\ DOMAIN calls = 1..n /\ n \in 1..n
      /\ \A i \in 1..n : calls[i] \in Frames(heap)
  BY FrameFacts
<1>2. s = [i \in 1..n |-> IF i = n THEN [calls[n] EXCEPT !.done = @ + 1] ELSE calls[i]]
  BY <1>1 DEF Step
<1>3. ASSUME NEW f \in Frames(heap)
      PROVE  LET g == [f EXCEPT !.done = @ + 1]
             IN  g \in Frames(heap) /\ g.id = f.id /\ g.prefix = f.prefix /\ g.done = f.done + 1
  <2>1. /\ f = [id |-> f.id, prefix |-> f.prefix, done |-> f.done]
        /\ f.id \in DOMAIN heap /\ f.prefix \in Seq(STRING) /\ f.done \in Nat
    BY DEF Frames
  <2>2. [f EXCEPT !.done = @ + 1] = [id |-> f.id, prefix |-> f.prefix, done |-> f.done + 1]
    BY <2>1
  <2>3. f.done + 1 \in Nat
    BY <2>1
  <2>4. [id |-> f.id, prefix |-> f.prefix, done |-> f.done + 1] \in Frames(heap)
    BY <2>1, <2>3 DEF Frames
  <2> QED BY <2>2, <2>4
<1> DEFINE g == [calls[n] EXCEPT !.done = @ + 1]
<1>4. /\ g \in Frames(heap) /\ g.id = calls[n].id /\ g.prefix = calls[n].prefix
      /\ g.done = calls[n].done + 1
  BY <1>1, <1>3
<1> HIDE DEF g, n, s
<1>5. s = [i \in 1..n |-> s[i]] /\ \A i \in 1..n : s[i] = IF i = n THEN g ELSE calls[i]
  BY <1>2 DEF g
<1>6. \A i \in 1..n : s[i] \in Frames(heap)
  BY <1>1, <1>4, <1>5
<1>7. s \in Seq(Frames(heap)) /\ Len(s) = n /\ DOMAIN s = 1..n
  BY <1>1, <1>5, <1>6, IsSequence
<1>8. \A i \in 1..n : /\ s[i].id = calls[i].id /\ s[i].prefix = calls[i].prefix
                       /\ s[i].done = IF i = n THEN calls[i].done + 1 ELSE calls[i].done
  BY <1>4, <1>5
<1> QED BY <1>7, <1>8, Zenon DEF n, s

LEMMA StepGood ==
  ASSUME NEW heap, IsHeap(heap), NEW prefix, NEW calls, GoodCalls(heap, prefix, calls),
         calls # <<>>, Last(calls).done < Len(heap[Last(calls).id])
  PROVE  GoodCalls(heap, prefix, Step(calls))
<1> DEFINE n == Len(calls)
           s == Step(calls)
<1>1. calls \in Seq(Frames(heap)) /\ calls[1].id = 1
  BY DEF GoodCalls
<1>2. /\ n \in Nat /\ n >= 1 /\ 1 \in 1..n /\ DOMAIN calls = 1..n
      /\ Last(calls) = calls[n] /\ calls[n].done \in Nat /\ calls[n].id \in DOMAIN heap
      /\ Len(heap[calls[n].id]) \in Nat
  BY <1>1, FrameFacts, MemberFacts
<1>3. /\ s \in Seq(Frames(heap)) /\ Len(s) = n /\ DOMAIN s = 1..n
      /\ \A i \in 1..n : /\ s[i].id = calls[i].id /\ s[i].prefix = calls[i].prefix
                           /\ s[i].done = IF i = n THEN calls[i].done + 1 ELSE calls[i].done
  BY <1>1, StepFacts
<1> HIDE DEF n, s
<1>4. ASSUME NEW i \in 1..n
      PROVE  /\ s[i].done <= Len(heap[s[i].id])
             /\ NamedBy(heap, prefix, s[i].prefix, s[i].id)
             /\ i < n => /\ s[i].done \in DOMAIN heap[s[i].id]
                         /\ heap[s[i].id][s[i].done].node = s[i + 1].id
             /\ \A j \in 1..n : i <= j => s[j].id \in Reachable(heap, s[i].id)
  <2>1. /\ calls[i].done <= Len(heap[calls[i].id])
        /\ NamedBy(heap, prefix, calls[i].prefix, calls[i].id)
        /\ i < n => /\ calls[i].done \in DOMAIN heap[calls[i].id]
                    /\ heap[calls[i].id][calls[i].done].node = calls[i + 1].id
        /\ \A j \in 1..n : i <= j => calls[j].id \in Reachable(heap, calls[i].id)
    BY <1>2 DEF GoodCalls, n
  <2>2. i = n => calls[i].done + 1 <= Len(heap[calls[i].id])
    BY <1>2
  <2>3. i < n => i # n /\ i + 1 \in 1..n
    BY <1>2
  <2> QED BY <1>3, <2>1, <2>2, <2>3
<1> QED BY <1>1, <1>2, <1>3, <1>4, Zenon DEF GoodCalls, n, s

LEMMA AppendGood ==
  ASSUME NEW heap, IsHeap(heap), NEW prefix, NEW calls, GoodCalls(heap, prefix, calls),
         calls # <<>>, Last(calls).done \in DOMAIN heap[Last(calls).id],
         NEW id \in DOMAIN heap, heap[Last(calls).id][Last(calls).done].node = id,
         NEW name \in Seq(STRING), NamedBy(heap, prefix, name, id)
  PROVE  GoodCalls(heap, prefix, Append(calls, Opened(id, name)))
<1> DEFINE n == Len(calls)
           e == Opened(id, name)
           s == Append(calls, e)
<1>1. calls \in Seq(Frames(heap)) /\ calls[1].id = 1
  BY DEF GoodCalls
<1>2. /\ n \in Nat /\ n >= 1 /\ 1 \in 1..n /\ DOMAIN calls = 1..n /\ Last(calls) = calls[n]
      /\ \A i \in 1..n : calls[i].id \in DOMAIN heap
      /\ Len(heap[id]) \in Nat
  BY <1>1, FrameFacts, MemberFacts
<1>3. e \in Frames(heap) /\ e.id = id /\ e.prefix = name /\ e.done = 0
  BY DEF Opened, Frames
<1> HIDE DEF n, e
<1>4. /\ s \in Seq(Frames(heap)) /\ Len(s) = n + 1 /\ DOMAIN s = 1..(n + 1)
      /\ (\A i \in 1..n : s[i] = calls[i]) /\ s[n + 1] = e
  <2>1. /\ s \in Seq(Frames(heap)) /\ Len(s) = n + 1
        /\ (\A i \in 1..n : s[i] = calls[i]) /\ s[n + 1] = e
    BY <1>1, <1>3, AppendProperties DEF n
  <2> HIDE DEF s
  <2> QED BY <2>1
<1> HIDE DEF s
<1>5. id \in Inside(heap, calls[n].id)
  <2>1. /\ calls[n].done \in DOMAIN heap[calls[n].id] /\ calls[n].id \in DOMAIN heap
        /\ heap[calls[n].id][calls[n].done].node = id /\ id # 0
    BY <1>2 DEF IsHeap
  <2> QED BY <2>1, InsideFacts
<1>6. \A i \in 1..n :
        /\ calls[i].done <= Len(heap[calls[i].id])
        /\ NamedBy(heap, prefix, calls[i].prefix, calls[i].id)
        /\ i < n => /\ calls[i].done \in DOMAIN heap[calls[i].id]
                    /\ heap[calls[i].id][calls[i].done].node = calls[i + 1].id
        /\ \A j \in 1..n : i <= j => calls[j].id \in Reachable(heap, calls[i].id)
  BY <1>2 DEF GoodCalls, n
<1>7. ASSUME NEW i \in 1..n
      PROVE  /\ s[i].done <= Len(heap[s[i].id])
             /\ NamedBy(heap, prefix, s[i].prefix, s[i].id)
             /\ i < n + 1 => /\ s[i].done \in DOMAIN heap[s[i].id]
                             /\ heap[s[i].id][s[i].done].node = s[i + 1].id
             /\ \A j \in 1..(n + 1) : i <= j => s[j].id \in Reachable(heap, s[i].id)
  <2>1. s[i] = calls[i]
    BY <1>4
  <2>2. s[i].done \in DOMAIN heap[s[i].id] /\ heap[s[i].id][s[i].done].node = s[i + 1].id
    <3>1. CASE i = n
      BY <1>2, <1>3, <1>4, <2>1, <3>1
    <3>2. CASE i # n
      <4>1. i < n /\ i + 1 \in 1..n
        BY <1>2, <3>2
      <4> QED BY <1>4, <1>6, <2>1, <4>1
    <3> QED BY <3>1, <3>2
  <2>3. calls[n].id \in Reachable(heap, calls[i].id)
    BY <1>2, <1>6
  <2>4. id \in Reachable(heap, calls[i].id)
    BY <1>2, <1>5, <2>3, ReachFacts
  <2>5. ASSUME NEW j \in 1..(n + 1), i <= j PROVE s[j].id \in Reachable(heap, s[i].id)
    <3>1. CASE j = n + 1
      BY <1>3, <1>4, <2>1, <2>4, <3>1
    <3>2. CASE j # n + 1
      <4>1. j \in 1..n
        BY <1>2, <3>2
      <4> QED BY <1>4, <1>6, <2>1, <2>5, <4>1
    <3> QED BY <3>1, <3>2
  <2> QED BY <1>6, <2>1, <2>2, <2>5
<1>8. /\ s[n + 1].done <= Len(heap[s[n + 1].id])
      /\ NamedBy(heap, prefix, s[n + 1].prefix, s[n + 1].id)
      /\ s[n + 1].id \in Reachable(heap, s[n + 1].id)
  BY <1>2, <1>3, <1>4, ReachFacts
<1>9. ASSUME NEW i \in 1..(n + 1)
      PROVE  /\ s[i].done <= Len(heap[s[i].id])
             /\ NamedBy(heap, prefix, s[i].prefix, s[i].id)
             /\ i < n + 1 => /\ s[i].done \in DOMAIN heap[s[i].id]
                             /\ heap[s[i].id][s[i].done].node = s[i + 1].id
             /\ \A j \in 1..(n + 1) : i <= j => s[j].id \in Reachable(heap, s[i].id)
  <2>1. CASE i \in 1..n
    BY <1>7, <2>1
  <2>2. CASE i \notin 1..n
    <3>1. i = n + 1 /\ ~(i < n + 1) /\ \A j \in 1..(n + 1) : i <= j => j = i
      BY <1>2, <2>2
    <3> QED BY <1>8, <3>1
  <2> QED BY <2>1, <2>2
<1>10. s[1].id = 1
  BY <1>1, <1>2, <1>4
<1>11. GoodCalls(heap, prefix, s)
  BY <1>4, <1>9, <1>10 DEF GoodCalls
<1> QED BY <1>11 DEF s, e

LEMMA FrontFacts ==
  ASSUME NEW S, NEW s \in Seq(S), s # <<>>
  PROVE  /\ Front(s) \in Seq(S) /\ Len(Front(s)) = Len(s) - 1 /\ DOMAIN Front(s) = 1..(Len(s) - 1)
         /\ \A i \in 1..(Len(s) - 1) : Front(s)[i] = s[i]
<1> DEFINE n == Len(s)
           f == SubSeq(s, 1, n - 1)
<1>1. n \in Nat /\ n >= 1 /\ n - 1 \in Nat /\ \A i \in 1..n : s[i] \in S
  BY EmptySeq
<1>2. f = [i \in 1..(n - 1) |-> s[i]]
  <2>1. f = [i \in 1..(1 + (n - 1) - 1) |-> s[i + 1 - 1]]
    OBVIOUS
  <2>2. 1 + (n - 1) - 1 = n - 1 /\ \A i \in 1..(n - 1) : i + 1 - 1 = i
    BY <1>1
  <2> HIDE DEF f, n
  <2> QED BY <2>1, <2>2
<1>3. \A i \in 1..(n - 1) : i \in 1..n
  BY <1>1
<1> HIDE DEF f, n
<1>4. f = [i \in 1..(n - 1) |-> f[i]] /\ \A i \in 1..(n - 1) : f[i] \in S /\ f[i] = s[i]
  BY <1>1, <1>2, <1>3
<1>5. f \in Seq(S) /\ Len(f) = n - 1 /\ DOMAIN f = 1..(n - 1)
  BY <1>1, <1>4, IsSequence
<1> QED BY <1>4, <1>5 DEF Front, f, n

LEMMA FrontGood ==
  ASSUME NEW heap, IsHeap(heap), NEW prefix, NEW calls, GoodCalls(heap, prefix, calls),
         calls # <<>>
  PROVE  GoodCalls(heap, prefix, Front(calls))
<1> DEFINE n == Len(calls)
           s == Front(calls)
<1>1. calls \in Seq(Frames(heap)) /\ calls[1].id = 1
  BY DEF GoodCalls
<1>2. n \in Nat /\ n >= 1 /\ DOMAIN calls = 1..n
  BY <1>1, FrameFacts
<1>3. /\ s \in Seq(Frames(heap)) /\ Len(s) = n - 1 /\ DOMAIN s = 1..(n - 1)
      /\ \A i \in 1..(n - 1) : s[i] = calls[i]
  BY <1>1, FrontFacts
<1>4. \A i \in 1..n :
        /\ calls[i].done <= Len(heap[calls[i].id])
        /\ NamedBy(heap, prefix, calls[i].prefix, calls[i].id)
        /\ i < n => /\ calls[i].done \in DOMAIN heap[calls[i].id]
                    /\ heap[calls[i].id][calls[i].done].node = calls[i + 1].id
        /\ \A j \in 1..n : i <= j => calls[j].id \in Reachable(heap, calls[i].id)
  BY <1>2 DEF GoodCalls
<1> HIDE DEF n, s
<1>5. s # <<>> => 1 \in 1..(n - 1)
  BY <1>2, <1>3, EmptySeq
<1>6. \A i \in 1..(n - 1) : i \in 1..n /\ i < n /\ (i < n - 1 => i + 1 \in 1..(n - 1))
  BY <1>2
<1>7. ASSUME NEW i \in 1..(n - 1)
      PROVE  /\ s[i].done <= Len(heap[s[i].id])
             /\ NamedBy(heap, prefix, s[i].prefix, s[i].id)
             /\ i < n - 1 => /\ s[i].done \in DOMAIN heap[s[i].id]
                             /\ heap[s[i].id][s[i].done].node = s[i + 1].id
             /\ \A j \in 1..(n - 1) : i <= j => s[j].id \in Reachable(heap, s[i].id)
  BY <1>3, <1>4, <1>6
<1>8. s # <<>> => s[1].id = 1
  BY <1>1, <1>3, <1>5
<1>9. GoodCalls(heap, prefix, s)
  BY <1>3, <1>7, <1>8 DEF GoodCalls
<1> QED BY <1>9 DEF s

-----------------------------------------------------------------------------
(* Containers that are done *)

\* What the lemmas below take from GoodCalls.
LEMMA CallFacts ==
  ASSUME NEW heap, IsHeap(heap), NEW prefix, NEW calls, GoodCalls(heap, prefix, calls)
  PROVE  /\ calls \in Seq(Frames(heap)) /\ Len(calls) \in Nat /\ DOMAIN calls = 1..Len(calls)
         /\ \A i \in 1..Len(calls) :
              /\ calls[i].id \in DOMAIN heap /\ calls[i].done \in Nat
              /\ Len(heap[calls[i].id]) \in Nat /\ DOMAIN heap[calls[i].id] = 1..Len(heap[calls[i].id])
              /\ calls[i].done <= Len(heap[calls[i].id])
              /\ i < Len(calls) => /\ calls[i].done \in DOMAIN heap[calls[i].id]
                                  /\ heap[calls[i].id][calls[i].done].node = calls[i + 1].id
              /\ \A j \in 1..Len(calls) : i <= j => calls[j].id \in Reachable(heap, calls[i].id)
         /\ calls # <<>> => /\ Len(calls) >= 1 /\ Last(calls) = calls[Len(calls)]
                           /\ calls[1].id = 1
<1>1. calls \in Seq(Frames(heap))
  BY DEF GoodCalls
<1>2. Len(calls) \in Nat /\ DOMAIN calls = 1..Len(calls)
  BY <1>1, FrameFacts
<1>3. \A i \in 1..Len(calls) : calls[i].id \in DOMAIN heap /\ calls[i].done \in Nat
  BY <1>1, <1>2, FrameFacts
<1>4. \A i \in 1..Len(calls) :
        Len(heap[calls[i].id]) \in Nat /\ DOMAIN heap[calls[i].id] = 1..Len(heap[calls[i].id])
  BY <1>3, MemberFacts
<1>5. \A i \in 1..Len(calls) :
        /\ calls[i].done <= Len(heap[calls[i].id])
        /\ i < Len(calls) => /\ calls[i].done \in DOMAIN heap[calls[i].id]
                            /\ heap[calls[i].id][calls[i].done].node = calls[i + 1].id
        /\ \A j \in 1..Len(calls) : i <= j => calls[j].id \in Reachable(heap, calls[i].id)
  BY <1>2 DEF GoodCalls
<1>6. calls # <<>> => Len(calls) >= 1 /\ Last(calls) = calls[Len(calls)] /\ calls[1].id = 1
  BY <1>1, FrameFacts DEF GoodCalls
<1> QED BY <1>1, <1>2, <1>3, <1>4, <1>5, <1>6

\* After a value.
LEMMA StepSettled ==
  ASSUME NEW heap, IsHeap(heap), NEW prefix, NEW calls, GoodCalls(heap, prefix, calls),
         calls # <<>>, Last(calls).done < Len(heap[Last(calls).id]),
         heap[Last(calls).id][Last(calls).done + 1].node = 0, NEW ids, Settled(heap, calls, ids)
  PROVE  Settled(heap, Step(calls), ids)
<1> DEFINE n == Len(calls)
           s == Step(calls)
<1>1. n \in Nat /\ n >= 1 /\ DOMAIN calls = 1..n /\ Last(calls) = calls[n] /\ n \in 1..n
      /\ \A i \in 1..n : calls[i].done \in Nat
  BY CallFacts
<1>2. /\ Len(s) = n /\ DOMAIN s = 1..n
      /\ \A i \in 1..n : /\ s[i].id = calls[i].id
                           /\ s[i].done = IF i = n THEN calls[i].done + 1 ELSE calls[i].done
  BY CallFacts, StepFacts
<1>3. \A i \in 1..n : \A m \in 1..calls[i].done :
        m < calls[i].done \/ i = n => heap[calls[i].id][m].node \in ids \cup {0}
  BY <1>1, Zenon DEF Settled
<1> HIDE DEF n, s
<1>4. ASSUME NEW i \in 1..n, NEW m \in 1..s[i].done, m < s[i].done \/ i = n
      PROVE  heap[s[i].id][m].node \in ids \cup {0}
  <2>1. CASE i = n /\ m = calls[n].done + 1
    BY <1>1, <1>2, <2>1
  <2>2. CASE ~(i = n /\ m = calls[n].done + 1)
    <3>1. m \in 1..calls[i].done /\ (m < calls[i].done \/ i = n)
      BY <1>1, <1>2, <1>4, <2>2
    <3> QED BY <1>2, <1>3, <3>1
  <2> QED BY <2>1, <2>2
<1>5. Settled(heap, s, ids)
  BY <1>2, <1>4 DEF Settled
<1> QED BY <1>5 DEF s

\* After a container is opened.
LEMMA DescendSettled ==
  ASSUME NEW heap, IsHeap(heap), NEW prefix, NEW calls, GoodCalls(heap, prefix, calls),
         calls # <<>>, Last(calls).done < Len(heap[Last(calls).id]),
         NEW e \in Frames(heap), e.done = 0, NEW ids, Settled(heap, calls, ids)
  PROVE  Settled(heap, Append(Step(calls), e), ids)
<1> DEFINE n == Len(calls)
           t == Step(calls)
           s == Append(t, e)
<1>1. n \in Nat /\ n >= 1 /\ DOMAIN calls = 1..n /\ n \in 1..n
      /\ \A i \in 1..n : calls[i].done \in Nat
  BY CallFacts
<1>2. /\ t \in Seq(Frames(heap)) /\ Len(t) = n /\ DOMAIN t = 1..n
      /\ \A i \in 1..n : /\ t[i].id = calls[i].id
                           /\ t[i].done = IF i = n THEN calls[i].done + 1 ELSE calls[i].done
  BY CallFacts, StepFacts
<1>3. \A i \in 1..n : \A m \in 1..calls[i].done :
        m < calls[i].done \/ i = n => heap[calls[i].id][m].node \in ids \cup {0}
  BY <1>1, Zenon DEF Settled
<1> HIDE DEF n, t
<1>4. /\ s \in Seq(Frames(heap)) /\ Len(s) = n + 1
      /\ (\A i \in 1..n : s[i] = t[i]) /\ s[n + 1] = e
  BY <1>2, AppendProperties
<1> HIDE DEF s
<1>5. DOMAIN s = 1..(n + 1)
  BY <1>4
<1>6. ASSUME NEW i \in 1..(n + 1), NEW m \in 1..s[i].done, m < s[i].done \/ i = n + 1
      PROVE  heap[s[i].id][m].node \in ids \cup {0}
  <2>1. i # n + 1
    <3>1. i = n + 1 => s[i].done = 0
      BY <1>4
    <3>2. s[i].done # 0
      BY <1>6
    <3> QED BY <3>1, <3>2
  <2>2. i \in 1..n
    BY <1>1, <2>1
  <2>3. s[i].id = calls[i].id
        /\ s[i].done = IF i = n THEN calls[i].done + 1 ELSE calls[i].done
    BY <1>2, <1>4, <2>2
  <2>4. m \in 1..calls[i].done /\ (m < calls[i].done \/ i = n)
    BY <1>1, <1>6, <2>1, <2>2, <2>3
  <2> QED BY <1>3, <2>2, <2>3, <2>4
<1>7. Settled(heap, s, ids)
  BY <1>4, <1>5, <1>6 DEF Settled
<1> QED BY <1>7 DEF s, t

\* A container whose members are done is not inside itself: it joins the set.
LEMMA ClearJoins ==
  ASSUME NEW heap, IsHeap(heap), NEW ids \in SUBSET DOMAIN heap, Clear(heap, ids),
         NEW x \in DOMAIN heap, \A i \in DOMAIN heap[x] : heap[x][i].node \in ids \cup {0}
  PROVE  Clear(heap, ids \cup {x})
<1>1. Inside(heap, x) \subseteq ids
  BY DEF Inside
<1>2. Closed(heap, ids \cup {x})
  BY <1>1 DEF Closed, Clear
<1>3. ASSUME NEW id \in ids \cup {x}, NEW next \in Inside(heap, id)
      PROVE  id \notin Reachable(heap, next)
  <2>1. CASE id \in ids
    BY <1>3, <2>1 DEF Clear
  <2>2. CASE id \notin ids
    <3>1. next \in ids
      BY <1>1, <1>3, <2>2
    <3>2. Reachable(heap, next) \subseteq ids
      BY <3>1, ReachClosed DEF Clear
    <3> QED BY <2>2, <3>2
  <2> QED BY <2>1, <2>2
<1> QED BY <1>2, <1>3 DEF Clear

LEMMA FrontSound ==
  ASSUME NEW heap, IsHeap(heap), NEW prefix, NEW calls, GoodCalls(heap, prefix, calls),
         calls # <<>>, Last(calls).done = Len(heap[Last(calls).id]), Sound(heap, calls)
  PROVE  Sound(heap, Front(calls))
<1> DEFINE n == Len(calls)
           s == Front(calls)
           x == calls[n].id
<1>1. PICK ids \in SUBSET DOMAIN heap : Clear(heap, ids) /\ Settled(heap, calls, ids)
  BY DEF Sound
<1>2. /\ n \in Nat /\ n >= 1 /\ n \in 1..n /\ DOMAIN calls = 1..n
      /\ x \in DOMAIN heap /\ calls[n].done = Len(heap[x]) /\ DOMAIN heap[x] = 1..Len(heap[x])
      /\ \A i \in 1..n : calls[i].done \in Nat
      /\ \A i \in 1..n : i < n => heap[calls[i].id][calls[i].done].node = calls[i + 1].id
      /\ calls[1].id = 1
  BY CallFacts
<1>3. /\ s \in Seq(Frames(heap)) /\ Len(s) = n - 1 /\ DOMAIN s = 1..(n - 1)
      /\ \A i \in 1..(n - 1) : s[i] = calls[i]
  BY CallFacts, FrontFacts
<1>4. \A i \in 1..n : \A m \in 1..calls[i].done :
        m < calls[i].done \/ i = n => heap[calls[i].id][m].node \in ids \cup {0}
  BY <1>1, <1>2, Zenon DEF Settled
<1> HIDE DEF n, s
<1>5. Clear(heap, ids \cup {x})
  <2>1. \A i \in DOMAIN heap[x] : heap[x][i].node \in ids \cup {0}
    BY <1>2, <1>4
  <2> HIDE DEF x
  <2> QED BY <1>1, <1>2, <2>1, ClearJoins
<1>6. Settled(heap, s, ids \cup {x})
  <2>1. ASSUME NEW i \in 1..(n - 1), NEW m \in 1..s[i].done, m < s[i].done \/ i = n - 1
        PROVE  heap[s[i].id][m].node \in (ids \cup {x}) \cup {0}
    <3>1. s[i] = calls[i] /\ i \in 1..n /\ i < n
      BY <1>2, <1>3
    <3>2. CASE m < s[i].done
      BY <1>4, <3>1, <3>2
    <3>3. CASE ~(m < s[i].done)
      <4>1. i = n - 1 /\ i + 1 = n
        BY <1>2, <2>1, <3>3
      <4>2. m = calls[i].done
        BY <1>2, <2>1, <3>1, <3>3
      <4> QED BY <1>2, <3>1, <4>1, <4>2
    <3> QED BY <3>2, <3>3
  <2> QED BY <1>3, <2>1 DEF Settled
<1>7. s = <<>> => 1 \in ids \cup {x}
  <2>1. s = <<>> => n = 1
    BY <1>2, <1>3
  <2> QED BY <1>2, <2>1
<1>8. ids \cup {x} \in SUBSET DOMAIN heap
  BY <1>2
<1>9. Sound(heap, s)
  <2> HIDE DEF x
  <2> QED BY <1>5, <1>6, <1>7, <1>8 DEF Sound
<1> QED BY <1>9 DEF s

\* At the end nothing that can be reached from the first container is inside itself.
LEMMA SoundEnds ==
  ASSUME NEW heap, IsHeap(heap), NEW calls, calls = <<>>, Sound(heap, calls)
  PROVE  ~Circular(heap)
<1>1. PICK ids \in SUBSET DOMAIN heap : Clear(heap, ids) /\ 1 \in ids
  BY DEF Sound
<1>2. Reachable(heap, 1) \subseteq ids
  BY <1>1, ReachClosed DEF Clear
<1> QED BY <1>1, <1>2 DEF Circular, Clear

\* A container inside itself is a cycle, through the calls up to the innermost one.
LEMMA CycleFound ==
  ASSUME NEW heap, IsHeap(heap), NEW prefix, NEW calls, GoodCalls(heap, prefix, calls),
         calls # <<>>, NEW m \in DOMAIN heap[Last(calls).id],
         NEW k \in DOMAIN calls, heap[Last(calls).id][m].node = calls[k].id
  PROVE  Circular(heap)
<1> DEFINE n == Len(calls)
           x == calls[k].id
           z == calls[n].id
<1>1. /\ n \in Nat /\ n >= 1 /\ k \in 1..n /\ n \in 1..n /\ 1 \in 1..n /\ Last(calls) = calls[n]
      /\ calls[1].id = 1
      /\ \A i \in 1..n : calls[i].id \in DOMAIN heap
      /\ \A i \in 1..n : i < n => /\ calls[i].done \in DOMAIN heap[calls[i].id]
                                  /\ heap[calls[i].id][calls[i].done].node = calls[i + 1].id
      /\ \A i, j \in 1..n : i <= j => calls[j].id \in Reachable(heap, calls[i].id)
  BY CallFacts
<1> HIDE DEF n
<1>2. x \in Reachable(heap, 1) /\ x \in DOMAIN heap /\ z \in DOMAIN heap /\ x # 0
  BY <1>1 DEF IsHeap
<1>3. x \in Inside(heap, z)
  BY <1>1, <1>2, InsideFacts
<1>4. CASE k = n
  <2>1. x \in Inside(heap, x)
    BY <1>3, <1>4
  <2> QED BY <1>2, <2>1, ReachFacts DEF Circular
<1>5. CASE k # n
  <2> DEFINE y == calls[k + 1].id
  <2>1. k < n /\ k + 1 \in 1..n /\ k + 1 <= n
    BY <1>1, <1>5
  <2>2. y \in DOMAIN heap /\ y # 0
    BY <1>1, <2>1 DEF IsHeap
  <2>3. y \in Inside(heap, x)
    BY <1>1, <1>2, <2>1, <2>2, InsideFacts
  <2>4. z \in Reachable(heap, y)
    BY <1>1, <2>1
  <2>5. x \in Reachable(heap, y)
    BY <1>2, <1>3, <2>2, <2>4, ReachFacts
  <2> QED BY <1>2, <2>3, <2>5 DEF Circular
<1> QED BY <1>4, <1>5

-----------------------------------------------------------------------------
(* The steps *)

LEMMA InputFacts ==
  ASSUME NEW i \in DOMAIN Inputs, NEW x \in Inputs[i], x.about = "tree"
  PROVE  IsHeap(x.heap) /\ x.prefix \in Seq(STRING)
BY FlattenAssumption DEF IsHeap

LEMMA OutputFacts ==
  ASSUME NEW calls, NEW flat, NEW error
  PROVE  /\ Flattened(calls, flat, error).calls = calls
         /\ Flattened(calls, flat, error).flat = flat
         /\ Flattened(calls, flat, error).error = error
BY DEF Flattened

\* The name of a value joins the others.
LEMMA FlatGrows ==
  ASSUME NEW heap, NEW prefix, NEW flat, GoodFlat(heap, prefix, flat), NEW name \in Seq(STRING),
         NEW value \in Nat, NamedBy(heap, prefix, name, 0)
  PROVE  GoodFlat(heap, prefix, Append(flat, [name |-> name, value |-> value]))
<1> DEFINE e == [name |-> name, value |-> value]
           s == Append(flat, e)
           n == Len(flat)
<1>1. e \in Entries /\ e.name = name
  BY DEF Entries
<1>2. flat \in Seq(Entries) /\ n \in Nat /\ DOMAIN flat = 1..n
      /\ \A i \in 1..n : NamedBy(heap, prefix, flat[i].name, 0)
  BY DEF GoodFlat
<1> HIDE DEF e, n
<1>3. s \in Seq(Entries) /\ Len(s) = n + 1 /\ (\A i \in 1..n : s[i] = flat[i]) /\ s[n + 1] = e
  BY <1>1, <1>2, AppendProperties DEF n
<1> HIDE DEF s
<1>4. DOMAIN s = 1..(n + 1)
  BY <1>3
<1>5. ASSUME NEW i \in 1..(n + 1) PROVE NamedBy(heap, prefix, s[i].name, 0)
  <2>1. CASE i = n + 1
    BY <1>1, <1>3, <2>1
  <2>2. CASE i # n + 1
    <3>1. i \in 1..n
      BY <1>2, <2>2
    <3> QED BY <1>2, <1>3, <3>1
  <2> QED BY <2>1, <2>2
<1>6. GoodFlat(heap, prefix, s)
  BY <1>3, <1>4, <1>5 DEF GoodFlat
<1> QED BY <1>6 DEF s, e

LEMMA InitGood == Init => FlattenInv
BY DEF Init, FlattenInv, After

LEMMA FlattensGood == FlattenInv /\ Flattens => FlattenInv'
<1> SUFFICES ASSUME FlattenInv, Flattens PROVE FlattenInv'
  OBVIOUS
<1> DEFINE e == Opened(1, input.prefix)
           calls == <<e>>
           heap == input.heap
           prefix == input.prefix
<1>1. /\ input' = input /\ input.about = "tree"
      /\ output' = Flattened(calls, <<>>, "open")
  BY DEF Flattens, Call
<1>2. IsHeap(heap) /\ prefix \in Seq(STRING) /\ 1 \in DOMAIN heap
  BY <1>1, InputFacts DEF FlattenInv, IsHeap
<1>3. e \in Frames(heap) /\ e.id = 1 /\ e.done = 0 /\ e.prefix = prefix
  BY <1>2 DEF Opened, Frames
<1> HIDE DEF heap, prefix, e
<1>4. calls = [i \in 1..1 |-> e]
  OBVIOUS
<1>5. calls \in Seq(Frames(heap)) /\ Len(calls) = 1 /\ DOMAIN calls = 1..1 /\ calls[1] = e
  <2>1. calls = [i \in 1..1 |-> calls[i]] /\ \A i \in 1..1 : calls[i] \in Frames(heap)
    BY <1>3, <1>4
  <2> HIDE DEF calls
  <2>2. calls \in Seq(Frames(heap)) /\ Len(calls) = 1 /\ DOMAIN calls = 1..1
    BY <2>1, IsSequence
  <2> QED BY <1>4, <2>2
<1> HIDE DEF calls
<1>6. NamedBy(heap, prefix, prefix, 1)
  <2> DEFINE none == [i \in 1..0 |-> 1]
  <2>1. none \in [1..0 -> DOMAIN heap] /\ none \in [1..0 -> Nat]
    BY <1>2
  <2>2. KeysOf(heap, none, none, 0) = <<>>
    BY DEF KeysOf
  <2> HIDE DEF none
  <2>3. Leads(heap, none, none, 0, 1)
    BY <2>1 DEF Leads
  <2>4. prefix = prefix \o KeysOf(heap, none, none, 0)
    BY <1>2, <2>2, ConcatEmptySeq
  <2>5. 0 \in Nat
    OBVIOUS
  <2> QED BY <2>1, <2>3, <2>4, <2>5 DEF NamedBy
<1>7. GoodCalls(heap, prefix, calls)
  <2>1. \A i \in 1..1 : i = 1 /\ ~(i < 1)
    OBVIOUS
  <2>2. 1 \in Reachable(heap, 1)
    BY <1>2, ReachFacts
  <2>3. 0 <= Len(heap[1])
    BY <1>2, MemberFacts
  <2> QED BY <1>3, <1>5, <1>6, <2>1, <2>2, <2>3 DEF GoodCalls
<1>8. Sound(heap, calls)
  <2>1. Clear(heap, {})
    BY DEF Clear, Closed
  <2>2. Settled(heap, calls, {})
    BY <1>3, <1>5 DEF Settled
  <2>3. calls # <<>>
    BY <1>5, EmptySeq
  <2> QED BY <2>1, <2>2, <2>3 DEF Sound
<1>9. GoodFlat(heap, prefix, <<>>)
  <2>1. <<>> \in Seq(Entries) /\ DOMAIN <<>> = {}
    OBVIOUS
  <2> QED BY <2>1 DEF GoodFlat
<1>10. Good(input', output')
  <2>1. /\ output'.calls = calls /\ output'.flat = <<>> /\ output'.error = "open"
        /\ output' = Flattened(output'.calls, output'.flat, output'.error)
    BY <1>1, OutputFacts
  <2> QED BY <1>1, <1>7, <1>8, <1>9, <2>1 DEF Good, heap, prefix
<1> QED BY <1>1, <1>10 DEF FlattenInv, After

\* What the steps of a call start from.
LEMMA GoingOn ==
  ASSUME FlattenInv, Flattening
  PROVE  /\ input.about = "tree" /\ IsHeap(input.heap) /\ input.prefix \in Seq(STRING)
         /\ Good(input, output) /\ output.calls # <<>> /\ output.error = "open"
         /\ GoodCalls(input.heap, input.prefix, output.calls)
         /\ GoodFlat(input.heap, input.prefix, output.flat)
         /\ Sound(input.heap, output.calls)
         /\ Innermost.id \in DOMAIN input.heap /\ Innermost.done \in Nat
         /\ NamedBy(input.heap, input.prefix, Innermost.prefix, Innermost.id)
         /\ Members = input.heap[Innermost.id] /\ Advanced = Step(output.calls)
         /\ Len(Members) \in Nat /\ DOMAIN Members = 1..Len(Members)
<1>1. After("tree") /\ output.calls # <<>> /\ output.error = "open" /\ input.about = "tree"
  BY DEF Flattening, After
<1>2. IsHeap(input.heap) /\ input.prefix \in Seq(STRING) /\ Good(input, output)
  BY <1>1, InputFacts DEF FlattenInv
<1>3. /\ GoodCalls(input.heap, input.prefix, output.calls)
      /\ GoodFlat(input.heap, input.prefix, output.flat)
      /\ Sound(input.heap, output.calls)
  BY <1>2 DEF Good
<1>4. /\ Innermost = output.calls[Len(output.calls)] /\ Len(output.calls) \in DOMAIN output.calls
      /\ Innermost.id \in DOMAIN input.heap /\ Innermost.done \in Nat
  <2>1. output.calls \in Seq(Frames(input.heap))
    BY <1>3 DEF GoodCalls
  <2> QED BY <1>1, <2>1, FrameFacts DEF Innermost
<1>5. NamedBy(input.heap, input.prefix, Innermost.prefix, Innermost.id)
  BY <1>3, <1>4 DEF GoodCalls
<1>6. Len(Members) \in Nat /\ DOMAIN Members = 1..Len(Members)
  BY <1>2, <1>4, MemberFacts DEF Members
<1> QED BY <1>1, <1>2, <1>3, <1>4, <1>5, <1>6 DEF Members, Advanced, Step

LEMMA MemberGood ==
  ASSUME FlattenInv, Continues
  PROVE  /\ Flattening /\ input' = input
         /\ Innermost.done < Len(input.heap[Innermost.id])
         /\ Innermost.done + 1 \in DOMAIN input.heap[Innermost.id]
         /\ Member = input.heap[Innermost.id][Innermost.done + 1]
         /\ Member.value \in Nat /\ Member.node \in DOMAIN input.heap \cup {0}
         /\ MemberName \in Seq(STRING)
         /\ NamedBy(input.heap, input.prefix, MemberName, Member.node)
<1>1. Flattening /\ input' = input /\ Innermost.done < Len(Members)
  BY DEF Continues
<1>2. /\ IsHeap(input.heap) /\ input.prefix \in Seq(STRING)
      /\ Innermost.id \in DOMAIN input.heap /\ Innermost.done \in Nat
      /\ NamedBy(input.heap, input.prefix, Innermost.prefix, Innermost.id)
      /\ Members = input.heap[Innermost.id]
      /\ Len(Members) \in Nat /\ DOMAIN Members = 1..Len(Members)
  BY <1>1, GoingOn
<1>3. Innermost.done + 1 \in DOMAIN Members
  BY <1>1, <1>2
<1>4. Member = input.heap[Innermost.id][Innermost.done + 1]
  BY <1>2 DEF Member
<1>5. Member.value \in Nat /\ Member.node \in DOMAIN input.heap \cup {0}
  BY <1>2, <1>3, <1>4, MemberFacts
<1>6. MemberName \in Seq(STRING) /\ NamedBy(input.heap, input.prefix, MemberName, Member.node)
  BY <1>2, <1>3, <1>4, NamedGoesOn DEF MemberName
<1> QED BY <1>1, <1>2, <1>3, <1>4, <1>5, <1>6

LEMMA PlacesGood == FlattenInv /\ Places => FlattenInv'
<1> SUFFICES ASSUME FlattenInv, Places PROVE FlattenInv'
  OBVIOUS
<1> DEFINE heap == input.heap
           calls == output.calls
           flat2 == Append(output.flat, [name |-> MemberName, value |-> Member.value])
<1>1. /\ Continues /\ Member.node = 0
      /\ output' = Flattened(Advanced, flat2, "open")
  BY DEF Places
<1>2. /\ Flattening /\ input' = input
      /\ Innermost.done < Len(heap[Innermost.id])
      /\ Member = heap[Innermost.id][Innermost.done + 1]
      /\ Member.value \in Nat /\ MemberName \in Seq(STRING)
      /\ NamedBy(heap, input.prefix, MemberName, 0)
  BY <1>1, MemberGood
<1>3. /\ input.about = "tree" /\ IsHeap(heap) /\ calls # <<>>
      /\ GoodCalls(heap, input.prefix, calls) /\ GoodFlat(heap, input.prefix, output.flat)
      /\ Sound(heap, calls) /\ Advanced = Step(calls)
  BY <1>2, GoingOn
<1>4. GoodCalls(heap, input.prefix, Step(calls))
  BY <1>2, <1>3, StepGood DEF Innermost
<1>5. GoodFlat(heap, input.prefix, flat2)
  BY <1>2, <1>3, FlatGrows
<1>6. Sound(heap, Step(calls))
  <2>1. PICK ids \in SUBSET DOMAIN heap : Clear(heap, ids) /\ Settled(heap, calls, ids)
    BY <1>3 DEF Sound
  <2>2. Settled(heap, Step(calls), ids)
    BY <1>1, <1>2, <1>3, <2>1, StepSettled DEF Innermost
  <2>3. Step(calls) # <<>>
    BY <1>3, CallFacts, StepFacts, EmptySeq
  <2> QED BY <2>1, <2>2, <2>3 DEF Sound
<1> HIDE DEF heap, calls, flat2
<1>7. Good(input', output')
  <2>1. /\ output'.calls = Step(calls) /\ output'.flat = flat2 /\ output'.error = "open"
        /\ output' = Flattened(output'.calls, output'.flat, output'.error)
    BY <1>1, <1>3, OutputFacts
  <2> QED BY <1>2, <1>4, <1>5, <1>6, <2>1 DEF Good, heap
<1> QED BY <1>2, <1>7 DEF FlattenInv, After

LEMMA CyclesGood == FlattenInv /\ Cycles => FlattenInv'
<1> SUFFICES ASSUME FlattenInv, Cycles PROVE FlattenInv'
  OBVIOUS
<1> DEFINE heap == input.heap
           calls == output.calls
<1>1. /\ Continues /\ Member.node \in Containing
      /\ output' = [output EXCEPT !.error = "cycle"]
  BY DEF Cycles
<1>2. /\ Flattening /\ input' = input
      /\ Innermost.done + 1 \in DOMAIN heap[Innermost.id]
      /\ Member = heap[Innermost.id][Innermost.done + 1]
  BY <1>1, MemberGood
<1>3. /\ input.about = "tree" /\ IsHeap(heap) /\ calls # <<>> /\ Good(input, output)
      /\ GoodCalls(heap, input.prefix, calls)
  BY <1>2, GoingOn
<1>4. PICK k \in DOMAIN calls : Member.node = calls[k].id
  BY <1>1 DEF Containing
<1>5. Circular(heap)
  BY <1>2, <1>3, <1>4, CycleFound DEF Innermost
<1>6. /\ output'.calls = calls /\ output'.flat = output.flat /\ output'.error = "cycle"
      /\ output' = Flattened(output'.calls, output'.flat, output'.error)
  <2>1. output = Flattened(output.calls, output.flat, output.error)
    BY <1>3 DEF Good
  <2>2. output' = Flattened(output.calls, output.flat, "cycle")
    BY <1>1, <2>1 DEF Flattened
  <2> QED BY <2>2, OutputFacts
<1>7. Good(input', output')
  BY <1>2, <1>3, <1>5, <1>6 DEF Good
<1> QED BY <1>2, <1>7 DEF FlattenInv, After

LEMMA DescendsGood == FlattenInv /\ Descends => FlattenInv'
<1> SUFFICES ASSUME FlattenInv, Descends PROVE FlattenInv'
  OBVIOUS
<1> DEFINE heap == input.heap
           calls == output.calls
           e == Opened(Member.node, MemberName)
           calls2 == Append(Step(calls), e)
<1>1. /\ Continues /\ Member.node # 0
      /\ output' = [output EXCEPT !.calls = Append(Advanced, e)]
  BY DEF Descends
<1>2. /\ Flattening /\ input' = input
      /\ Innermost.done < Len(heap[Innermost.id])
      /\ Innermost.done + 1 \in DOMAIN heap[Innermost.id]
      /\ Member = heap[Innermost.id][Innermost.done + 1]
      /\ Member.node \in DOMAIN heap /\ MemberName \in Seq(STRING)
      /\ NamedBy(heap, input.prefix, MemberName, Member.node)
  BY <1>1, MemberGood
<1>3. /\ input.about = "tree" /\ IsHeap(heap) /\ calls # <<>> /\ Good(input, output)
      /\ GoodCalls(heap, input.prefix, calls) /\ GoodFlat(heap, input.prefix, output.flat)
      /\ Sound(heap, calls) /\ Advanced = Step(calls) /\ output.error = "open"
  BY <1>2, GoingOn
<1>4. GoodCalls(heap, input.prefix, Step(calls))
  BY <1>2, <1>3, StepGood DEF Innermost
<1>5. /\ Step(calls) # <<>> /\ Step(calls) \in Seq(Frames(heap))
      /\ Last(Step(calls)).id = Innermost.id /\ Last(Step(calls)).done = Innermost.done + 1
  <2>1. calls \in Seq(Frames(heap)) /\ Len(calls) \in Nat /\ Len(calls) >= 1
        /\ Len(calls) \in 1..Len(calls) /\ Innermost = calls[Len(calls)]
    BY <1>3, CallFacts DEF Innermost
  <2>2. Step(calls) \in Seq(Frames(heap)) /\ Len(Step(calls)) = Len(calls)
    BY <1>3, <2>1, StepFacts
  <2>3. Step(calls) # <<>> /\ Last(Step(calls)) = Step(calls)[Len(calls)]
    BY <2>1, <2>2, EmptySeq DEF Last
  <2>4. /\ Step(calls)[Len(calls)].id = calls[Len(calls)].id
        /\ Step(calls)[Len(calls)].done = calls[Len(calls)].done + 1
    BY <1>3, <2>1, StepFacts
  <2> QED BY <2>1, <2>2, <2>3, <2>4
<1>6. GoodCalls(heap, input.prefix, calls2)
  BY <1>2, <1>3, <1>4, <1>5, AppendGood
<1>7. Sound(heap, calls2)
  <2>1. PICK ids \in SUBSET DOMAIN heap : Clear(heap, ids) /\ Settled(heap, calls, ids)
    BY <1>3 DEF Sound
  <2>2. e \in Frames(heap) /\ e.done = 0
    BY <1>2 DEF Opened, Frames
  <2> HIDE DEF e
  <2>3. Settled(heap, calls2, ids)
    BY <1>2, <1>3, <2>1, <2>2, DescendSettled DEF Innermost
  <2>4. calls2 # <<>>
    BY <1>5, <2>2, AppendProperties
  <2> QED BY <2>1, <2>3, <2>4 DEF Sound
<1> HIDE DEF heap, calls, calls2, e
<1>8. /\ output'.calls = calls2 /\ output'.flat = output.flat /\ output'.error = "open"
      /\ output' = Flattened(output'.calls, output'.flat, output'.error)
  <2>1. output = Flattened(output.calls, output.flat, "open")
    BY <1>3 DEF Good
  <2>2. output' = Flattened(calls2, output.flat, "open")
    BY <1>1, <1>3, <2>1 DEF Flattened, calls2
  <2> QED BY <2>2, OutputFacts
<1>9. Good(input', output')
  BY <1>2, <1>3, <1>6, <1>7, <1>8 DEF Good, heap
<1> QED BY <1>2, <1>9 DEF FlattenInv, After

LEMMA AscendsGood == FlattenInv /\ Ascends => FlattenInv'
<1> SUFFICES ASSUME FlattenInv, Ascends PROVE FlattenInv'
  OBVIOUS
<1> DEFINE heap == input.heap
           calls == output.calls
<1>1. /\ Flattening /\ Innermost.done = Len(Members) /\ input' = input
      /\ output' = [output EXCEPT !.calls = Front(calls)]
  BY DEF Ascends
<1>2. /\ input.about = "tree" /\ IsHeap(heap) /\ calls # <<>> /\ Good(input, output)
      /\ GoodCalls(heap, input.prefix, calls) /\ GoodFlat(heap, input.prefix, output.flat)
      /\ Sound(heap, calls) /\ output.error = "open" /\ Members = heap[Innermost.id]
  BY <1>1, GoingOn
<1>3. GoodCalls(heap, input.prefix, Front(calls))
  BY <1>2, FrontGood
<1>4. Sound(heap, Front(calls))
  BY <1>1, <1>2, FrontSound DEF Innermost
<1>5. /\ output'.calls = Front(calls) /\ output'.flat = output.flat /\ output'.error = "open"
      /\ output' = Flattened(output'.calls, output'.flat, output'.error)
  <2>1. output = Flattened(output.calls, output.flat, "open")
    BY <1>2 DEF Good
  <2>2. output' = Flattened(Front(calls), output.flat, "open")
    BY <1>1, <2>1 DEF Flattened
  <2> QED BY <2>2, OutputFacts
<1>6. Good(input', output')
  BY <1>1, <1>2, <1>3, <1>4, <1>5 DEF Good
<1> QED BY <1>1, <1>6 DEF FlattenInv, After

LEMMA ComparesGood == FlattenInv /\ Compares => FlattenInv'
<1> SUFFICES ASSUME FlattenInv, Compares PROVE FlattenInv'
  OBVIOUS
<1> DEFINE found == IF SameName(output.flat) THEN "collision" ELSE "none"
<1>1. /\ After("tree") /\ output.calls = <<>> /\ output.error = "open" /\ input' = input
      /\ output' = [output EXCEPT !.error = found]
  BY DEF Compares
<1>2. Good(input, output)
  BY <1>1 DEF FlattenInv
<1>3. /\ output'.calls = output.calls /\ output'.flat = output.flat /\ output'.error = found
      /\ output' = Flattened(output'.calls, output'.flat, output'.error)
  <2> HIDE DEF found
  <2>1. output = Flattened(output.calls, output.flat, output.error)
    BY <1>2 DEF Good
  <2>2. output' = Flattened(output.calls, output.flat, found)
    BY <1>1, <2>1 DEF Flattened
  <2> QED BY <2>2, OutputFacts
<1>4. Good(input', output')
  BY <1>1, <1>2, <1>3 DEF Good
<1> QED BY <1>1, <1>4 DEF FlattenInv, After

THEOREM FlattenInductive == FlattenSpec => []FlattenInv
<1>1. FlattenInv /\ [FlattenNext]_vars => FlattenInv'
  <2> SUFFICES ASSUME FlattenInv, [FlattenNext]_vars PROVE FlattenInv'
    OBVIOUS
  <2>1. CASE Flattens
    BY <2>1, FlattensGood
  <2>2. CASE Places
    BY <2>2, PlacesGood
  <2>3. CASE Cycles
    BY <2>3, CyclesGood
  <2>4. CASE Descends
    BY <2>4, DescendsGood
  <2>5. CASE Ascends
    BY <2>5, AscendsGood
  <2>6. CASE Compares
    BY <2>6, ComparesGood
  <2>7. CASE Done
    BY <2>7 DEF Done, vars, FlattenInv, After
  <2>8. CASE UNCHANGED vars
    BY <2>8 DEF vars, FlattenInv, After
  <2> QED BY <2>1, <2>2, <2>3, <2>4, <2>5, <2>6, <2>7, <2>8 DEF FlattenNext
<1> QED BY <1>1, InitGood, PTL DEF FlattenSpec

-----------------------------------------------------------------------------
(* What the flattening promises *)

\* A name consists of the prefix and the keys on a route to a value.
Splits(heap, prefix, name) ==
  \E n \in Nat : \E ids \in [1..n -> DOMAIN heap], at \in [1..n -> Nat] :
    /\ IsRoute(heap, ids, at, n) /\ name = prefix \o KeysOf(heap, ids, at, n)
    /\ SubSeq(name, Len(prefix) + 1, Len(name)) = KeysOf(heap, ids, at, n)

LEMMA NameSplits ==
  ASSUME NEW heap, IsHeap(heap), NEW prefix \in Seq(STRING), NEW name,
         NamedBy(heap, prefix, name, 0)
  PROVE  Splits(heap, prefix, name)
<1> PICK n \in Nat : \E ids \in [1..n -> DOMAIN heap], at \in [1..n -> Nat] :
      Leads(heap, ids, at, n, 0) /\ name = prefix \o KeysOf(heap, ids, at, n)
  BY DEF NamedBy
<1>1. PICK ids \in [1..n -> DOMAIN heap], at \in [1..n -> Nat] :
        Leads(heap, ids, at, n, 0) /\ name = prefix \o KeysOf(heap, ids, at, n)
  OBVIOUS
<1> DEFINE keys == KeysOf(heap, ids, at, n)
           p == Len(prefix)
<1>2. n # 0 /\ ids[1] = 1
  BY <1>1 DEF Leads
<1>3. IsRoute(heap, ids, at, n)
  BY <1>1, <1>2 DEF Leads, IsRoute
<1>4. keys \in Seq(STRING) /\ Len(keys) = n
  BY <1>1, LeadKeys
<1> HIDE DEF keys
<1>5. /\ p \in Nat /\ name \in Seq(STRING) /\ Len(name) = p + n
      /\ \A i \in 1..n : name[p + i] = keys[i]
  <2>1. p \in Nat
    OBVIOUS
  <2>2. /\ name \in Seq(STRING) /\ Len(name) = p + n
        /\ \A i \in 1..(p + n) : name[i] = IF i <= p THEN prefix[i] ELSE keys[i - p]
    <3>1. name = prefix \o keys
      BY <1>1 DEF keys
    <3>2. /\ prefix \o keys \in Seq(STRING) /\ Len(prefix \o keys) = p + n
          /\ \A i \in 1..(p + n) : (prefix \o keys)[i] = IF i <= p THEN prefix[i] ELSE keys[i - p]
      BY <1>4, ConcatProperties
    <3> QED BY <3>1, <3>2, Zenon
  <2>3. \A i \in 1..n : p + i \in 1..(p + n) /\ ~(p + i <= p) /\ (p + i) - p = i
    BY <2>1
  <2> QED BY <2>1, <2>2, <2>3
<1>6. SubSeq(name, p + 1, Len(name)) = keys
  <2> HIDE DEF p
  <2>1. SubSeq(name, p + 1, p + n) = [i \in 1..(1 + (p + n) - (p + 1)) |-> name[i + (p + 1) - 1]]
    BY <1>5
  <2>2. 1 + (p + n) - (p + 1) = n /\ \A i \in 1..n : i + (p + 1) - 1 = p + i
    BY <1>5
  <2>3. SubSeq(name, p + 1, p + n) = [i \in 1..n |-> name[p + i]]
    BY <2>1, <2>2
  <2>4. keys = [i \in 1..n |-> keys[i]]
    BY <1>4
  <2> QED BY <1>5, <2>3, <2>4
<1> QED BY <1>1, <1>3, <1>6 DEF keys, p, Splits

\* Names that are found under the same keys are the same for the library.
LEMMA SameKeys ==
  ASSUME NEW prefix \in Seq(STRING), NEW keys \in Seq(STRING), NEW others \in Seq(STRING),
         WasUnder(keys) = WasUnder(others)
  PROVE  Upper(prefix \o keys) = Upper(prefix \o others)
<1> DEFINE n == Len(keys)
           p == Len(prefix)
           w == WasUnder(keys)
           v == WasUnder(others)
<1>1. n \in Nat /\ p \in Nat /\ Len(others) \in Nat
      /\ DOMAIN keys = 1..n /\ DOMAIN others = 1..Len(others)
  OBVIOUS
<1>2. \A i \in 1..n : keys[i] \in STRING
  BY <1>1
<1>3. \A i \in 1..Len(others) : others[i] \in STRING
  BY <1>1
<1>4. /\ w = [i \in 1..n |-> w[i]]
      /\ \A i \in 1..n : w[i] = IF i = n THEN NameCase(<<keys[i]>>) ELSE <<keys[i]>>
  BY <1>1, Zenon DEF WasUnder
<1>5. /\ v = [i \in 1..Len(others) |-> v[i]]
      /\ \A i \in 1..Len(others) :
           v[i] = IF i = Len(others) THEN NameCase(<<others[i]>>) ELSE <<others[i]>>
  BY <1>1, Zenon DEF WasUnder
<1>6. Len(others) = n
  <2> DEFINE V == {v[i] : i \in DOMAIN v}
  <2> HIDE DEF n, w, v
  <2>1. Len(v) = Len(others)
    <3>1. DOMAIN v = 1..Len(others)
      BY <1>5
    <3>2. \A j \in 1..Len(others) : v[j] \in V
      BY <3>1
    <3> HIDE DEF V
    <3> QED BY <1>1, <1>5, <3>2, IsSequence
  <2> DEFINE W == {w[i] : i \in DOMAIN w}
  <2>2. Len(w) = n
    <3>1. DOMAIN w = 1..n
      BY <1>4
    <3>2. \A j \in 1..n : w[j] \in W
      BY <3>1
    <3> HIDE DEF W
    <3> QED BY <1>1, <1>4, <3>2, IsSequence
  <2> QED BY <2>1, <2>2 DEF v, w
<1>7. ASSUME NEW i \in 1..n PROVE UpperPart(keys[i]) = UpperPart(others[i])
  <2>1. keys[i] \in STRING /\ others[i] \in STRING /\ w[i] = v[i]
    BY <1>2, <1>3, <1>6
  <2> HIDE DEF w, v
  <2>2. CASE i = n
    <3>1. <<LowerPart(keys[i])>> = <<LowerPart(others[i])>>
      <4>1. w[i] = NameCase(<<keys[i]>>) /\ v[i] = NameCase(<<others[i]>>)
        BY <1>4, <1>5, <1>6, <2>2
      <4>2. /\ NameCase(<<keys[i]>>) = <<LowerPart(keys[i])>>
            /\ NameCase(<<others[i]>>) = <<LowerPart(others[i])>>
        BY OnePart
      <4> QED BY <2>1, <4>1, <4>2
    <3>2. LowerPart(keys[i]) = LowerPart(others[i])
      BY <3>1
    <3> QED BY <2>1, <3>2, CaseFacts
  <2>3. CASE i # n
    <3>1. <<keys[i]>> = <<others[i]>>
      BY <1>4, <1>5, <1>6, <2>1, <2>3
    <3>2. keys[i] = others[i]
      BY <3>1
    <3> QED BY <3>2
  <2> QED BY <2>2, <2>3
<1> DEFINE a == prefix \o keys
           b == prefix \o others
<1>8. /\ a \in Seq(STRING) /\ Len(a) = p + n
      /\ \A i \in 1..(p + n) : a[i] = IF i <= p THEN prefix[i] ELSE keys[i - p]
  BY ConcatProperties
<1>9. /\ b \in Seq(STRING) /\ Len(b) = p + n
      /\ \A i \in 1..(p + n) : b[i] = IF i <= p THEN prefix[i] ELSE others[i - p]
  <2>1. /\ b \in Seq(STRING) /\ Len(b) = p + Len(others)
        /\ \A i \in 1..(p + Len(others)) : b[i] = IF i <= p THEN prefix[i] ELSE others[i - p]
    BY ConcatProperties
  <2> HIDE DEF b, p, n
  <2> QED BY <1>6, <2>1
<1>10. \A i \in 1..(p + n) : ~(i <= p) => i - p \in 1..n
  BY <1>1
<1> HIDE DEF a, b, p, n
<1>11. \A i \in 1..(p + n) : UpperPart(a[i]) = UpperPart(b[i])
  BY <1>7, <1>8, <1>9, <1>10
<1>12. DOMAIN a = 1..(p + n) /\ DOMAIN b = 1..(p + n)
  BY <1>8, <1>9
<1>13. Upper(a) = Upper(b)
  BY <1>11, <1>12 DEF Upper
<1> QED BY <1>13 DEF a, b

\* What the theorem says of one name.
ReadsBack(x, o, collects, i) ==
  LET Name(k) == o.flat[k].name
      Path(k) == SubSeq(Name(k), Len(x.prefix) + 1, Len(Name(k)))
      Found(k) == Destination(Upper(Name(k)), x.prefix, collects)
  IN  /\ Found(i) = WasUnder(Path(i))
      /\ \A j \in DOMAIN o.flat : i # j => Found(i) # Found(j)

LEMMA GoodReadsBack ==
  ASSUME NEW x, NEW o, IsHeap(x.heap), x.prefix \in Seq(STRING), Good(x, o),
         Legible(x.heap), o.error = "none", NEW collects \in Mirrors(x.heap),
         NEW i \in DOMAIN o.flat
  PROVE  ReadsBack(x, o, collects, i)
<1> DEFINE Name(k) == o.flat[k].name
           Path(k) == SubSeq(Name(k), Len(x.prefix) + 1, Len(Name(k)))
           Found(k) == Destination(Upper(Name(k)), x.prefix, collects)
<1>1. ~SameName(o.flat) /\ \A k \in DOMAIN o.flat : NamedBy(x.heap, x.prefix, Name(k), 0)
  BY DEF Good, GoodFlat
<1>2. ASSUME NEW k \in DOMAIN o.flat
      PROVE  /\ Path(k) \in Seq(STRING) /\ Name(k) = x.prefix \o Path(k)
             /\ Found(k) = WasUnder(Path(k))
  <2> DEFINE heap == x.heap
             prefix == x.prefix
             name == Name(k)
             path == Path(k)
  <2>1. NamedBy(heap, prefix, name, 0) /\ IsHeap(heap) /\ prefix \in Seq(STRING)
        /\ Legible(heap) /\ collects \in Mirrors(heap)
    BY <1>1
  <2> HIDE DEF heap, prefix, name
  <2>2. PICK n \in Nat : \E ids \in [1..n -> DOMAIN heap], at \in [1..n -> Nat] :
          /\ IsRoute(heap, ids, at, n) /\ name = prefix \o KeysOf(heap, ids, at, n)
          /\ SubSeq(name, Len(prefix) + 1, Len(name)) = KeysOf(heap, ids, at, n)
    <3>1. Splits(heap, prefix, name)
      BY <2>1, NameSplits
    <3> QED BY <3>1 DEF Splits
  <2>3. PICK ids \in [1..n -> DOMAIN heap], at \in [1..n -> Nat] :
          /\ IsRoute(heap, ids, at, n) /\ name = prefix \o KeysOf(heap, ids, at, n)
          /\ SubSeq(name, Len(prefix) + 1, Len(name)) = KeysOf(heap, ids, at, n)
    BY <2>2
  <2>4. path = KeysOf(heap, ids, at, n)
    BY <2>3 DEF name, prefix
  <2>5. path \in Seq(STRING)
    <3> HIDE DEF path
    <3>1. KeysOf(heap, ids, at, n) \in Seq(STRING)
      BY <2>1, <2>3, KeysFacts
    <3> QED BY <2>4, <3>1
  <2>6. Destination(Upper(prefix \o KeysOf(heap, ids, at, n)), prefix, collects) =
          WasUnder(KeysOf(heap, ids, at, n))
    BY <2>1, <2>3, RouteReadsBack
  <2> QED BY <2>3, <2>4, <2>5, <2>6 DEF name, prefix
<1>3. ASSUME NEW j \in DOMAIN o.flat, i # j, Found(i) = Found(j) PROVE FALSE
  <2>1. WasUnder(Path(i)) = WasUnder(Path(j))
    BY <1>2, <1>3
  <2>2. /\ Path(i) \in Seq(STRING) /\ Name(i) = x.prefix \o Path(i)
        /\ Path(j) \in Seq(STRING) /\ Name(j) = x.prefix \o Path(j)
    BY <1>2
  <2> HIDE DEF Path, Name
  <2>3. Upper(Name(i)) = Upper(Name(j))
    BY <2>1, <2>2, SameKeys
  <2> QED BY <1>1, <1>3, <2>3 DEF SameName, Name
<1> QED BY <1>2, <1>3 DEF ReadsBack

\* A workspace is refused for a cycle exactly when it has one, and what writefame
\* flattens readfame finds under the keys it had, each value under its own, in every
\* state, for every heap of containers, every prefix and every collect specification
\* that mirrors the containers (`_flatten_into`, `_destination`).
THEOREM FlattenReadsBackAlways == FlattenSpec => []FlattenReadsBack
<1>1. FlattenInv => FlattenReadsBack
  <2> SUFFICES ASSUME FlattenInv, After("tree") PROVE FlattenReadsBack
    BY DEF FlattenReadsBack
  <2>1. input.about = "tree" /\ Good(input, output)
    BY DEF FlattenInv, After
  <2>2. IsHeap(input.heap) /\ input.prefix \in Seq(STRING)
    BY <2>1, InputFacts DEF FlattenInv
  <2>3. output.error = "cycle" => Circular(input.heap)
    BY <2>1 DEF Good
  <2>4. output.calls = <<>> => ~Circular(input.heap)
    BY <2>1, <2>2, SoundEnds DEF Good
  <2>5. ASSUME output.error = "none", Legible(input.heap),
               NEW collects \in Mirrors(input.heap), NEW i \in DOMAIN output.flat
        PROVE  ReadsBack(input, output, collects, i)
    BY <2>1, <2>2, <2>5, GoodReadsBack
  <2> QED BY <2>3, <2>4, <2>5, Zenon DEF FlattenReadsBack, ReadsBack
<1> QED BY <1>1, FlattenInductive, PTL
=============================================================================
