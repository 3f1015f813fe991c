--------------------------- MODULE WorkspaceProofs ---------------------------
(***************************************************************************)
(* Proofs about Workspace, for every database, every call, every other     *)
(* thread's objects and any number of changes.                             *)
(*                                                                         *)
(* TypeInv, ReadInv, WriteInv and StoreInv are inductive one after the     *)
(* other: what a call has still to do, what it has done and what it failed *)
(* have no name in common, and while a path is written the database behind *)
(* the handle differs from what was there only where that account says so. *)
(***************************************************************************)
EXTENDS Workspace, FiniteSetTheorems, SequenceTheorems, WellFoundedInduction, TLAPS

IsDatabase(d) ==
  /\ d = [n \in Names |-> d[n]]
  /\ \A n \in Names : d[n] # None => IsObject(d[n])

\* An object as a listing or a query found it.
IsFound(f) == f.name \in Names /\ f.object # None /\ IsObject(f.object)

\* A key that two objects would have, or that would be a value and a workspace.
Clash(names) == \E m, n \in names : m # n /\ IsPrefix(Key[m], Key[n])

NamesApart(s) == \A i, j \in DOMAIN s : i # j => s[i].name # s[j].name

Items == ToSet(call.items)
PlacedNames == {e.name : e \in placed}

\* Types, and where a call can be with what it has open and what it has raised.
Stores == IsDatabase(stored) /\ IsDatabase(posted) /\ IsDatabase(original)

Lists ==
  /\ resolved \in Seq(ToSet(resolved)) /\ \A i \in DOMAIN resolved : IsFound(resolved[i])
  /\ written \in Seq(Names)
  /\ call.op = "read" /\ pc \in {"begin", "resolve"} => todo \in Seq(ToSet(call.args))
  /\ pc \in {"read", "convert"} => todo \in Seq(ToSet(resolved))
  /\ call.op = "write" => todo \in Seq(Items) /\ converted \in Seq(Items)

Control ==
  /\ call \in Calls
  /\ pc \in {"begin", "resolve", "read", "convert", "prepare", "open", "write", "close", "done"}
  /\ opened \in BOOLEAN /\ (opened => call.owned /\ pc # "done")
  /\ error \in Errors
  /\ changes \in 0..MaxChanges
  /\ pc \in {"resolve", "read", "convert"} => call.op = "read"
  /\ pc \in {"prepare", "open", "write"} => call.op = "write"
  /\ pc \in {"begin", "prepare", "open"} => ~opened
  /\ pc \notin {"close", "done"} => error = None
  /\ pc = "convert" => todo # <<>>

Results == placed \subseteq Entries /\ failures \subseteq Names

TypeInv == Stores /\ Lists /\ Control /\ Results

\* Nothing is read twice, nothing that was found is forgotten.
ReadCount ==
  /\ NamesApart(todo)
  /\ PlacedNames \cup failures \cup ItemNames(todo) = ResolvedNames
  /\ (PlacedNames \cup failures) \cap ItemNames(todo) = {}
  /\ IsFiniteSet(placed) /\ IsFiniteSet(failures)
  /\ Cardinality(placed) + Cardinality(failures) + Len(todo) = Len(resolved)
  /\ failures # {} => call.report

\* An entry says what the listing said.
AsListed(object, listed) ==
  /\ listed.meta = object.meta
  /\ listed.range \in {Empty, object.range}

ReadInv ==
  call.op = "read" =>
  /\ NamesApart(resolved)
  /\ pc \in {"begin", "resolve"} => placed = {} /\ failures = {}
  /\ pc \in {"read", "convert"} \/ placed # {} => ~Clash(ResolvedNames)
  /\ pc \in {"read", "convert"} \/ (pc \in {"close", "done"} /\ error = None) => ReadCount
  /\ pc = "convert" => AsListed(current, Head(todo).object)
  /\ \A e \in placed : /\ e.name \in ResolvedNames /\ e.key = Key[e.name]
                       /\ \E i \in DOMAIN resolved :
                            resolved[i].name = e.name /\ AsListed(e.object, resolved[i].object)

\* The same for the items of the write c: k of them are in D, F failed, T are left.
Account(D, k, T, F, c) ==
  /\ NamesApart(T)
  /\ D \cup F \cup ItemNames(T) = ItemNames(c.items)
  /\ (D \cup F) \cap ItemNames(T) = {}
  /\ IsFiniteSet(F)
  /\ k + Cardinality(F) + Len(T) = Len(c.items)
  /\ F # {} => c.report

WriteCount == Account(ToSet(written), Len(written), todo, failures, call)

WriteInv ==
  call.op = "write" =>
  /\ placed = {}
  /\ pc \in {"begin", "prepare", "open"} => written = <<>>
  /\ pc = "begin" => todo = call.items /\ failures = {} /\ converted = <<>>
  /\ pc = "prepare" => /\ Account(ItemNames(converted), Len(converted), todo, failures, call)
                       /\ NamesApart(converted)
                       /\ ItemNames(converted) \cap failures = {}
  /\ pc \in {"open", "write"} \/ (pc \in {"close", "done"} /\ error = None) => WriteCount

\* The database that the writes to a path start from.
AtOpen == IF call.mode = "overwrite" THEN NoDatabase ELSE original

\* What is in the database is what was there, what was written, or reported.
Differs(d) ==
  \A n \in Names :
    IF n \in ToSet(written)
      THEN \E i \in DOMAIN call.items : /\ call.items[i].name = n
                                       /\ d[n] = call.items[i].object
      ELSE d[n] = AtOpen[n] \/ n \in failures

StoreInv ==
  call.op = "write" =>
  /\ pc \in {"begin", "prepare", "open"} /\ (call.owned \/ changes = 0) =>
       stored = original /\ posted = original
  /\ call.owned /\ pc = "write" => posted = AtOpen /\ Differs(stored)
  /\ call.owned => posted \in {original, AtOpen} \/ Differs(posted)
  /\ error \in {"conversion", "collision"} =>
       pc = "done" /\ (changes = 0 => stored = original /\ posted = original)

-----------------------------------------------------------------------------
(* Sequences of named things *)

LEMMA TailFacts ==
  ASSUME NEW S, NEW s \in Seq(S), s # <<>>
  PROVE  /\ Tail(s) \in Seq(S) /\ Head(s) \in S /\ Head(s) = s[1] /\ 1 \in DOMAIN s
         /\ Len(s) \in Nat /\ Len(Tail(s)) \in Nat /\ Len(s) = Len(Tail(s)) + 1
         /\ ItemNames(s) = ItemNames(Tail(s)) \cup {Head(s).name}
         /\ NamesApart(s) => NamesApart(Tail(s)) /\ Head(s).name \notin ItemNames(Tail(s))
<1>1. /\ Tail(s) \in Seq(S) /\ Len(Tail(s)) = Len(s) - 1 /\ Len(s) \in Nat \ {0}
      /\ Head(s) \in S /\ Head(s) = s[1]
      /\ \A i \in 1..Len(Tail(s)) : Tail(s)[i] = s[i + 1]
  BY HeadTailProperties, EmptySeq, LenProperties
<1>2. DOMAIN s = 1..Len(s) /\ DOMAIN Tail(s) = 1..Len(Tail(s))
  BY <1>1, LenProperties
<1>3. \A i \in DOMAIN Tail(s) : i + 1 \in DOMAIN s /\ Tail(s)[i] = s[i + 1]
  BY <1>1, <1>2
<1>4. \A j \in DOMAIN s : j = 1 \/ (j - 1 \in DOMAIN Tail(s) /\ s[j] = Tail(s)[j - 1])
  <2> TAKE j \in DOMAIN s
  <2>1. j \in 1..Len(s)
    BY <1>2
  <2>2. j # 1 => j - 1 \in 1..Len(Tail(s)) /\ (j - 1) + 1 = j
    BY <1>1, <2>1
  <2> QED BY <1>1, <1>2, <2>2
<1>5. ItemNames(s) = ItemNames(Tail(s)) \cup {Head(s).name}
  <2>1. \A i \in DOMAIN s : s[i].name \in ItemNames(Tail(s)) \cup {Head(s).name}
    BY <1>1, <1>4 DEF ItemNames
  <2>2. 1 \in DOMAIN s
    BY <1>1, <1>2
  <2>3. \A i \in DOMAIN Tail(s) : Tail(s)[i].name \in ItemNames(s)
    BY <1>3 DEF ItemNames
  <2>4. Head(s).name \in ItemNames(s)
    BY <1>1, <2>2 DEF ItemNames
  <2> QED BY <2>1, <2>3, <2>4 DEF ItemNames
<1>6. ASSUME NamesApart(s)
      PROVE  NamesApart(Tail(s)) /\ Head(s).name \notin ItemNames(Tail(s))
  <2>1. \A i \in DOMAIN Tail(s) : i \in Nat /\ i + 1 # 1
    BY <1>1, <1>2
  <2>2. 1 \in DOMAIN s
    BY <1>1, <1>2
  <2>3. \A i, j \in DOMAIN Tail(s) : i # j => i + 1 # j + 1
    BY <2>1
  <2>4. NamesApart(Tail(s))
    BY <1>3, <1>6, <2>3 DEF NamesApart
  <2>5. \A i \in DOMAIN Tail(s) : Tail(s)[i].name # Head(s).name
    BY <1>1, <1>3, <1>6, <2>1, <2>2 DEF NamesApart
  <2> QED BY <2>4, <2>5 DEF ItemNames
<1> QED BY <1>1, <1>2, <1>5, <1>6

LEMMA AppendFacts ==
  ASSUME NEW S, NEW s \in Seq(S), NEW x \in S
  PROVE  /\ Append(s, x) \in Seq(S) /\ Len(Append(s, x)) = Len(s) + 1 /\ Len(s) \in Nat
         /\ ToSet(Append(s, x)) = ToSet(s) \cup {x}
         /\ ItemNames(Append(s, x)) = ItemNames(s) \cup {x.name}
         /\ NamesApart(s) /\ x.name \notin ItemNames(s) => NamesApart(Append(s, x))
<1> DEFINE t == Append(s, x)
<1>1. /\ t \in Seq(S) /\ Len(t) = Len(s) + 1 /\ Len(s) \in Nat
      /\ \A i \in 1..Len(s) : t[i] = s[i]
      /\ t[Len(s) + 1] = x
  BY AppendProperties, LenProperties
<1>2. DOMAIN s = 1..Len(s) /\ DOMAIN t = 1..(Len(s) + 1)
  BY <1>1, LenProperties
<1> HIDE DEF t
<1>3. DOMAIN t = DOMAIN s \cup {Len(s) + 1} /\ Len(s) + 1 \notin DOMAIN s
  BY <1>1, <1>2
<1>4. ToSet(t) = ToSet(s) \cup {x}
  BY <1>1, <1>2, <1>3 DEF ToSet
<1>5. ItemNames(t) = ItemNames(s) \cup {x.name}
  BY <1>1, <1>2, <1>3 DEF ItemNames
<1>6. NamesApart(s) /\ x.name \notin ItemNames(s) => NamesApart(t)
  BY <1>1, <1>2, <1>3 DEF ItemNames, NamesApart
<1> QED BY <1>1, <1>4, <1>5, <1>6 DEF t

\* A longer sequence: the things of one, then others.
LEMMA ConcatFacts ==
  ASSUME NEW S, NEW s \in Seq(S), NEW t \in Seq(S)
  PROVE  /\ s \o t \in Seq(ToSet(s \o t))
         /\ \A i \in DOMAIN (s \o t) : (s \o t)[i] \in ToSet(s) \cup ToSet(t)
         /\ NamesApart(s) /\ NamesApart(t) /\ ItemNames(s) \cap ItemNames(t) = {}
              => NamesApart(s \o t)
<1> DEFINE u == s \o t
<1>1. /\ u \in Seq(S) /\ Len(u) = Len(s) + Len(t) /\ Len(s) \in Nat /\ Len(t) \in Nat
      /\ \A i \in 1..Len(u) : u[i] = IF i <= Len(s) THEN s[i] ELSE t[i - Len(s)]
  BY ConcatProperties, LenProperties
<1>2. DOMAIN s = 1..Len(s) /\ DOMAIN t = 1..Len(t) /\ DOMAIN u = 1..Len(u)
  BY <1>1, LenProperties
<1> HIDE DEF u
<1>3. ASSUME NEW i \in DOMAIN u
      PROVE  \/ i \in DOMAIN s /\ u[i] = s[i]
             \/ i - Len(s) \in DOMAIN t /\ u[i] = t[i - Len(s)] /\ i \notin DOMAIN s
  BY <1>1, <1>2
<1>4. u \in Seq(ToSet(u))
  <2>1. \A i \in 1..Len(u) : u[i] \in ToSet(u)
    BY <1>2 DEF ToSet
  <2>2. u \in [1..Len(u) -> ToSet(u)] /\ Len(u) \in Nat
    <3>1. u = [i \in 1..Len(u) |-> u[i]]
      BY <1>1, LenProperties
    <3> QED BY <1>1, <2>1, <3>1
  <2> QED BY <2>2, SeqDef
<1>5. \A i \in DOMAIN u : u[i] \in ToSet(s) \cup ToSet(t)
  BY <1>3 DEF ToSet
<1>6. ASSUME NamesApart(s), NamesApart(t), ItemNames(s) \cap ItemNames(t) = {}
      PROVE  NamesApart(u)
  <2> SUFFICES ASSUME NEW i \in DOMAIN u, NEW j \in DOMAIN u, i # j
               PROVE  u[i].name # u[j].name
    BY DEF NamesApart
  <2>1. i \in Nat /\ j \in Nat
    BY <1>1, <1>2
  <2>2. i - Len(s) # j - Len(s)
    BY <1>1, <2>1
  <2>3. CASE i \in DOMAIN s /\ j \in DOMAIN s
    BY <1>3, <1>6, <2>3 DEF NamesApart
  <2>4. CASE i \notin DOMAIN s /\ j \notin DOMAIN s
    BY <1>3, <1>6, <2>2, <2>4 DEF NamesApart
  <2>5. ASSUME NEW k \in DOMAIN u, NEW l \in DOMAIN u, k \in DOMAIN s, l \notin DOMAIN s
        PROVE  u[k].name # u[l].name
    <3>1. u[k].name \in ItemNames(s)
      BY <1>3, <2>5 DEF ItemNames
    <3>2. u[l].name \in ItemNames(t)
      BY <1>3, <2>5 DEF ItemNames
    <3> QED BY <1>6, <3>1, <3>2
  <2> QED BY <2>3, <2>4, <2>5
<1> QED BY <1>4, <1>5, <1>6 DEF u

-----------------------------------------------------------------------------
(* The keys *)

LEMMA Least ==
  ASSUME NEW T, T \subseteq Nat, T # {}
  PROVE  \E m \in T : \A n \in T : m <= n
<1>1. PICK m \in T : \A n \in T : <<n, m>> \notin OpToRel(<, Nat)
  BY NatLessThanWellFounded, WFMin
<1>2. ASSUME NEW n \in T, n < m PROVE FALSE
  <2>1. <<n, m>> \in OpToRel(<, Nat)
    BY <1>2 DEF OpToRel
  <2> QED BY <1>1, <2>1
<1> QED BY <1>2

\* A set of numbers with 0 and the successor of each of its members has them all.
LEMMA Successors ==
  ASSUME NEW T, 0 \in T, \A n \in Nat : n \in T => n + 1 \in T
  PROVE  Nat \subseteq T
<1> SUFFICES ASSUME Nat \ T # {} PROVE FALSE
  OBVIOUS
<1>1. PICK m \in Nat \ T : \A n \in Nat \ T : m <= n
  BY Least
<1>2. m - 1 \in Nat /\ m - 1 \in T
  BY <1>1
<1> QED BY <1>1, <1>2

\* The recursion has a solution, so that Met returns what its equation says.
LEMMA MetStep ==
  ASSUME NEW found
  PROVE  /\ Met(found, 0) = NoKeys
         /\ \A n \in Nat : Met(found, n + 1) = Meet(Met(found, n), Key[found[n + 1].name])
<1> DEFINE Step1(acc, k) == Meet(acc, Key[found[k].name])
<1> DEFINE Prefix(g, n) ==
             g = [k \in 0..n |-> IF k = 0 THEN NoKeys ELSE Step1(g[k - 1], k)]
           Known == {n \in Nat : \E g : Prefix(g, n)}
<1>1. 0 \in Known
  <2>1. Prefix([k \in 0..0 |-> NoKeys], 0)
    OBVIOUS
  <2> QED BY <2>1
<1>2. ASSUME NEW n \in Nat, n \in Known PROVE n + 1 \in Known
  <2>1. PICK g : Prefix(g, n)
    BY <1>2
  <2> DEFINE h == [k \in 0..(n + 1) |-> IF k <= n THEN g[k] ELSE Step1(g[n], n + 1)]
  <2>2. \A k \in 0..n : g[k] = IF k = 0 THEN NoKeys ELSE Step1(g[k - 1], k)
    BY <2>1
  <2>5. h[0] = NoKeys /\ \A k \in 0..(n + 1) : k # 0 => h[k] = Step1(h[k - 1], k)
    BY <2>2
  <2>3. \A k \in 0..(n + 1) : h[k] = IF k = 0 THEN NoKeys ELSE Step1(h[k - 1], k)
    BY <2>5
  <2>4. Prefix(h, n + 1)
    <3>1. h = [k \in 0..(n + 1) |-> h[k]]
      OBVIOUS
    <3> HIDE DEF h
    <3> QED BY <2>3, <3>1
  <2> HIDE DEF h, Prefix
  <2> QED BY <2>4
<1>3. \A n \in Nat : \E g : Prefix(g, n)
  BY <1>1, <1>2, Successors
<1> DEFINE Of(n) == CHOOSE g : Prefix(g, n)
           F == [n \in Nat |-> Of(n)[n]]
<1>4. ASSUME NEW n \in Nat, NEW k \in 0..n
      PROVE  Of(n)[k] = IF k = 0 THEN NoKeys ELSE Step1(Of(n)[k - 1], k)
  <2>1. Prefix(Of(n), n)
    BY <1>3
  <2> HIDE DEF Of
  <2> QED BY <2>1
<1> HIDE DEF Of
<1>5. ASSUME NEW n \in Nat PROVE \A k \in 0..n : Of(n)[k] = Of(k)[k]
  <2> DEFINE T == {k \in Nat : k <= n => \A m \in Nat : k <= m => Of(m)[k] = Of(n)[k]}
  <2>1. 0 \in T
    BY <1>4
  <2>2. ASSUME NEW k \in Nat, k \in T PROVE k + 1 \in T
    <3> SUFFICES ASSUME k + 1 <= n, NEW m \in Nat, k + 1 <= m PROVE Of(m)[k + 1] = Of(n)[k + 1]
      OBVIOUS
    <3>1. Of(m)[k] = Of(n)[k]
      BY <2>2
    <3>2. Of(m)[k + 1] = Step1(Of(m)[k], k + 1) /\ Of(n)[k + 1] = Step1(Of(n)[k], k + 1)
      BY <1>4
    <3> QED BY <3>1, <3>2
  <2>3. \A k \in Nat : k \in T
    BY <2>1, <2>2, Successors
  <2> QED BY <2>3
<1>6. \A n \in Nat : F[n] = IF n = 0 THEN NoKeys ELSE Step1(F[n - 1], n)
  <2> TAKE n \in Nat
  <2>1. n # 0 => n - 1 \in Nat /\ n - 1 \in 0..n
    OBVIOUS
  <2>2. n # 0 => Of(n)[n - 1] = Of(n - 1)[n - 1]
    BY <1>5, <2>1
  <2> QED BY <1>4, <2>1, <2>2
<1> DEFINE Solves(g) == g = [n \in Nat |-> IF n = 0 THEN NoKeys ELSE Step1(g[n - 1], n)]
           Scan == CHOOSE g : Solves(g)
<1>7. Solves(F)
  BY <1>6
<1>8. Solves(Scan)
  BY <1>7
<1>9. \A n : Met(found, n) = Scan[n]
  BY DEF Met
<1> HIDE DEF Scan
<1>10. \A n \in Nat : Scan[n] = IF n = 0 THEN NoKeys ELSE Step1(Scan[n - 1], n)
  BY <1>8
<1> HIDE DEF Solves
<1>11. \A n \in Nat : n + 1 \in Nat /\ n + 1 # 0 /\ (n + 1) - 1 = n
  OBVIOUS
<1>12. \A n \in Nat : Scan[n + 1] = Step1(Scan[n], n + 1)
  BY <1>10, <1>11
<1> QED BY <1>9, <1>10, <1>12

LEMMA KeyFacts ==
  ASSUME NEW k \in Names, NEW l \in Names, IsPrefix(Key[k], Key[l]), Key[k] # Key[l]
  PROVE  Key[k] \in Branches(Key[l])
<1>1. \A n \in Names : Key[n] \in Seq(ToSet(Key[n])) /\ Key[n] # <<>>
  BY CallsAssumption
<1> DEFINE s == Key[k]
           t == Key[l]
           S == ToSet(Key[k])
           T == ToSet(Key[l])
<1>2. s \in Seq(S) /\ s # <<>> /\ t \in Seq(T) /\ IsPrefix(s, t) /\ s # t
  BY <1>1
<1> HIDE DEF s, t, S, T
<1>3. /\ Len(s) \in Nat \ {0} /\ Len(t) \in Nat
  BY <1>2, EmptySeq, LenProperties
<1>4. SubSeq(s, 1, Len(s)) = s /\ SubSeq(t, 1, Len(t)) = t
  BY <1>2
<1>5. Len(s) <= Len(t) /\ s = SubSeq(t, 1, Len(s))
  BY <1>2, <1>4 DEF IsPrefix
<1>6. Len(s) # Len(t)
  BY <1>2, <1>4, <1>5
<1>7. Len(s) \in 1..(Len(t) - 1)
  BY <1>3, <1>5, <1>6
<1> QED BY <1>5, <1>7 DEF Branches, s, t

\* What the loop knows after n objects, unless it met a key twice.
Knows(found, acc, n) ==
  /\ acc = [leaves |-> acc.leaves, branches |-> acc.branches, twice |-> acc.twice]
  /\ ~acc.twice =>
       /\ acc.leaves = {Key[found[i].name] : i \in 1..n}
       /\ \A i \in 1..n : Branches(Key[found[i].name]) \subseteq acc.branches
       /\ \A i, j \in 1..n : i # j => Key[found[i].name] # Key[found[j].name]

LEMMA MeetKnows ==
  ASSUME NEW found, NEW acc, NEW n \in Nat, Knows(found, acc, n)
  PROVE  Knows(found, Meet(acc, Key[found[n + 1].name]), n + 1)
<1> DEFINE key(i) == Key[found[i].name]
           next == Meet(acc, key(n + 1))
<1>1. acc = [leaves |-> acc.leaves, branches |-> acc.branches, twice |-> acc.twice]
  BY DEF Knows
<1>2. 1..(n + 1) = 1..n \cup {n + 1} /\ n + 1 \notin 1..n
  OBVIOUS
<1>3. CASE key(n + 1) \in acc.leaves
  <2>1. next = [leaves |-> acc.leaves, branches |-> acc.branches, twice |-> TRUE]
    BY <1>1, <1>3 DEF Meet
  <2> HIDE DEF next
  <2> QED BY <2>1 DEF Knows, next
<1>4. CASE key(n + 1) \notin acc.leaves
  <2>1. next = [leaves |-> acc.leaves \cup {key(n + 1)},
                branches |-> acc.branches \cup Branches(key(n + 1)), twice |-> acc.twice]
    BY <1>1, <1>4 DEF Meet
  <2>2. /\ next = [leaves |-> next.leaves, branches |-> next.branches, twice |-> next.twice]
        /\ next.leaves = acc.leaves \cup {key(n + 1)} /\ next.twice = acc.twice
        /\ next.branches = acc.branches \cup Branches(key(n + 1))
    BY <2>1
  <2> HIDE DEF next
  <2>3. ASSUME ~next.twice
        PROVE  /\ next.leaves = {key(i) : i \in 1..(n + 1)}
               /\ \A i \in 1..(n + 1) : Branches(key(i)) \subseteq next.branches
               /\ \A i, j \in 1..(n + 1) : i # j => key(i) # key(j)
    <3>1. /\ acc.leaves = {key(i) : i \in 1..n}
          /\ \A i \in 1..n : Branches(key(i)) \subseteq acc.branches
          /\ \A i, j \in 1..n : i # j => key(i) # key(j)
      BY <2>2, <2>3 DEF Knows
    <3> HIDE DEF key
    <3>2. \A i \in 1..n : key(i) # key(n + 1)
      BY <1>4, <3>1
    <3> QED BY <1>2, <2>2, <3>1, <3>2
  <2> QED BY <2>2, <2>3 DEF Knows, next
<1> QED BY <1>3, <1>4

\* The loop finds every key that is another's, or on the way to another's.
LEMMA CollideFinds ==
  ASSUME NEW S, NEW found \in Seq(S), NamesApart(found), \A i \in DOMAIN found : found[i].name \in Names,
         ~Collide(found)
  PROVE  ~Clash({found[i].name : i \in DOMAIN found})
<1> DEFINE acc(n) == Met(found, n)
           Right(n) == Knows(found, acc(n), n)
           T == {n \in Nat : Right(n)}
           end == acc(Len(found))
<1>1. 0 \in T
  <2>1. acc(0) = NoKeys
    BY MetStep
  <2>2. Knows(found, NoKeys, 0)
    BY DEF Knows, NoKeys
  <2> HIDE DEF acc
  <2> QED BY <2>1, <2>2
<1>2. ASSUME NEW n \in Nat, n \in T PROVE n + 1 \in T
  <2>1. acc(n + 1) = Meet(acc(n), Key[found[n + 1].name])
    BY MetStep
  <2>2. Knows(found, acc(n), n)
    BY <1>2
  <2> HIDE DEF acc
  <2> QED BY <2>1, <2>2, MeetKnows
<1>3. Knows(found, end, Len(found))
  <2>1. \A n \in Nat : n \in T
    <3> HIDE DEF T
    <3> QED BY <1>1, <1>2, Successors
  <2>2. Len(found) \in Nat
    BY LenProperties
  <2> QED BY <2>1, <2>2
<1>4. ~end.twice /\ end.branches \cap end.leaves = {}
  BY DEF Collide
<1> HIDE DEF end
<1>5. SUFFICES ASSUME NEW i \in DOMAIN found, NEW j \in DOMAIN found,
                      found[i].name # found[j].name,
                      IsPrefix(Key[found[i].name], Key[found[j].name])
               PROVE  FALSE
  BY DEF Clash
<1>6. i \in 1..Len(found) /\ j \in 1..Len(found) /\ i # j
  BY <1>5, LenProperties
<1>7. Key[found[i].name] # Key[found[j].name]
  BY <1>3, <1>4, <1>6 DEF Knows
<1>8. Key[found[i].name] \in Branches(Key[found[j].name])
  BY <1>5, <1>7, KeyFacts
<1>9. Key[found[i].name] \in end.leaves /\ Key[found[i].name] \in end.branches
  BY <1>3, <1>4, <1>6, <1>8 DEF Knows
<1> QED BY <1>4, <1>9

-----------------------------------------------------------------------------
(* Types *)

\* What a write of one object leaves, and what it raises.
LEMMA OutcomeFacts ==
  ASSUME NEW old, old # None => IsObject(old), NEW object, object # None, IsObject(object),
         NEW replace, NEW writable, NEW o \in Outcomes(old, object, replace, writable)
  PROVE  /\ o.object # None => IsObject(o.object)
         /\ o.error \in {None, "readonly", "status"}
         /\ o.error = None => o.object = object
<1> DEFINE removed == IF replace THEN None ELSE old
           part == [object EXCEPT !.value = "partial"]
<1>1. object = Object(object.meta, object.range, object.value, object.fits)
  BY DEF IsObject
<1>2. /\ part = Object(object.meta, object.range, "partial", object.fits)
      /\ part.meta = object.meta /\ part.range = object.range
  BY <1>1 DEF Object
<1>3. IsObject(part)
  BY <1>2 DEF Object, IsObject
<1> HIDE DEF part
<1>4. removed # None => IsObject(removed)
  OBVIOUS
<1> HIDE DEF removed
<1>5. /\ o.object \in {old, removed, object, part}
      /\ o.error \in {None, "readonly", "status"}
      /\ o.error = None => o.object = object
  BY CallsAssumption DEF Outcomes, removed, part, Raised
<1> QED BY <1>3, <1>4, <1>5

LEMMA DatabaseUpdate ==
  ASSUME NEW d, IsDatabase(d), NEW n, NEW o, o # None => IsObject(o)
  PROVE  IsDatabase([d EXCEPT ![n] = o])
BY DEF IsDatabase

\* What the calls are.
LEMMA CallFacts ==
  ASSUME call \in Calls
  PROVE  /\ call.op \in {"read", "write"} /\ call.report \in BOOLEAN /\ call.owned \in BOOLEAN
         /\ call.args \in Seq(ToSet(call.args)) /\ call.items \in Seq(Items)
         /\ \A i \in DOMAIN call.args : call.args[i].names \subseteq Names
         /\ \A item \in Items : item.name \in Names /\ item.object # None /\ IsObject(item.object)
BY CallsAssumption DEF Items, IsItem, ToSet

\* An item in hand is an item of the call.
LEMMA HeadItem ==
  ASSUME TypeInv, call.op = "write", todo # <<>>
  PROVE  /\ Head(todo) \in Items /\ Tail(todo) \in Seq(Items)
         /\ Head(todo).name \in Names /\ Head(todo).object # None /\ IsObject(Head(todo).object)
<1>1. todo \in Seq(Items) /\ call \in Calls
  BY DEF TypeInv, Lists, Control
<1> QED BY <1>1, TailFacts, CallFacts

\* A listed object in hand is one that was found.
LEMMA HeadFound ==
  ASSUME TypeInv, pc \in {"read", "convert"}, todo # <<>>
  PROVE  /\ Head(todo) \in ToSet(resolved) /\ Tail(todo) \in Seq(ToSet(resolved))
         /\ IsFound(Head(todo)) /\ Head(todo).name \in ResolvedNames
<1>1. todo \in Seq(ToSet(resolved)) /\ \A i \in DOMAIN resolved : IsFound(resolved[i])
  BY DEF TypeInv, Lists
<1>2. Head(todo) \in ToSet(resolved) /\ Tail(todo) \in Seq(ToSet(resolved))
  BY <1>1, TailFacts
<1> QED BY <1>1, <1>2 DEF ToSet, ResolvedNames

\* The names are finitely many.
LEMMA FiniteNames == IsFiniteSet(Names)
<1>1. Order \in Seq(Names) /\ Names = ToSet(Order)
  BY CallsAssumption DEF Names
<1>2. Len(Order) \in Nat /\ DOMAIN Order = 1..Len(Order)
  BY <1>1, LenProperties
<1>3. IsFiniteSet(DOMAIN Order)
  BY <1>2, FS_Interval
<1>4. Order \in Surjection(DOMAIN Order, Names)
  <2>1. Order = [i \in DOMAIN Order |-> Order[i]]
    BY <1>1, <1>2, SeqDef
  <2>2. \A i \in DOMAIN Order : Order[i] \in Names
    BY <1>1 DEF ToSet
  <2> QED BY <1>1, <2>1, <2>2 DEF Surjection, ToSet
<1> QED BY <1>3, <1>4, FS_Surjection

LEMMA TypeInit == Init => TypeInv
<1> SUFFICES ASSUME Init PROVE TypeInv
  OBVIOUS
<1>1. /\ IsDatabase(posted)
  BY CallsAssumption DEF Init, IsDatabase
<1>2. Stores
  BY <1>1 DEF Init, Stores
<1>3. call \in Calls
  BY DEF Init
<1>4. Lists
  <2>1. <<>> \in Seq(ToSet(<<>>)) /\ <<>> \in Seq(Names) /\ <<>> \in Seq(Items)
    BY EmptySeq
  <2>2. DOMAIN resolved = {}
    BY DEF Init
  <2> QED BY <1>3, <2>1, <2>2, CallFacts DEF Init, Lists
<1>5. Control
  <2>1. MaxChanges \in Nat
    BY CallsAssumption
  <2>2. changes = 0 /\ 0 \in 0..MaxChanges
    BY <2>1 DEF Init
  <2>3. opened = FALSE /\ error = None /\ pc = "begin"
    BY DEF Init
  <2> QED BY <1>3, <2>2, <2>3 DEF Control, Errors
<1>6. Results
  BY DEF Init, Results
<1> QED BY <1>2, <1>4, <1>5, <1>6 DEF TypeInv

LEMMA EmptyDatabase == IsDatabase(NoDatabase)
BY DEF IsDatabase, NoDatabase

\* What the write of the item in hand leaves, and what it raises.
LEMMA HeadOutcome ==
  ASSUME TypeInv, call.op = "write", todo # <<>>,
         NEW o \in Outcomes(stored[Head(todo).name], Head(todo).object, call.replace,
                            call.mode # "readonly")
  PROVE  /\ o.object # None => IsObject(o.object)
         /\ o.error \in {None, "readonly", "status"}
         /\ o.error = None => o.object = Head(todo).object
<1> DEFINE old == stored[Head(todo).name]
           object == Head(todo).object
           replace == call.replace
           writable == call.mode # "readonly"
<1>1. Head(todo).name \in Names /\ object # None /\ IsObject(object)
  BY HeadItem
<1>2. old # None => IsObject(old)
  BY <1>1 DEF TypeInv, Stores, IsDatabase
<1>3. o \in Outcomes(old, object, replace, writable)
  OBVIOUS
<1> HIDE DEF old, object, replace, writable
<1>4. /\ o.object # None => IsObject(o.object)
      /\ o.error \in {None, "readonly", "status"}
      /\ o.error = None => o.object = object
  BY ONLY <1>1, <1>2, <1>3, OutcomeFacts
<1> QED BY <1>4 DEF object

LEMMA WrittenDatabase ==
  ASSUME TypeInv, call.op = "write", todo # <<>>, UNCHANGED <<posted, original>>,
         NEW o \in Outcomes(stored[Head(todo).name], Head(todo).object, call.replace,
                            call.mode # "readonly"),
         stored' = [stored EXCEPT ![Head(todo).name] = o.object]
  PROVE  Stores'
<1>1. o.object # None => IsObject(o.object)
  BY HeadOutcome
<1> QED BY <1>1, DatabaseUpdate DEF TypeInv, Stores

LEMMA StoresStep ==
  ASSUME TypeInv, [Next]_vars
  PROVE  Stores'
<1>1. CASE BeginRead
  BY <1>1, EmptyDatabase DEF BeginRead, Open, TypeInv, Stores
<1>2. CASE ResolveOne
  BY <1>2 DEF ResolveOne, TypeInv, Stores
<1>3. CASE ResolveFails
  BY <1>3 DEF ResolveFails, TypeInv, Stores
<1>4. CASE Destinations
  BY <1>4 DEF Destinations, TypeInv, Stores
<1>5. CASE DoRead
  BY <1>5 DEF DoRead, TypeInv, Stores
<1>6. CASE DoReadFails
  BY <1>6 DEF DoReadFails, TypeInv, Stores
<1>7. CASE Convert
  BY <1>7 DEF Convert, TypeInv, Stores
<1>8. CASE CalendarFails
  BY <1>8 DEF CalendarFails, TypeInv, Stores
<1>9. CASE ReadEnds
  BY <1>9 DEF ReadEnds, TypeInv, Stores
<1>10. CASE Flattened
  BY <1>10 DEF Flattened, TypeInv, Stores
<1>11. CASE PrepareOne
  BY <1>11 DEF PrepareOne, TypeInv, Stores
<1>12. CASE Prepared
  BY <1>12 DEF Prepared, TypeInv, Stores
<1>13. CASE BeginWrite
  BY <1>13, EmptyDatabase DEF BeginWrite, Open, TypeInv, Stores
<1>14. CASE WriteOne
  <2>1. PICK o \in Outcomes(stored[Head(todo).name], Head(todo).object, call.replace,
                             call.mode # "readonly") :
               stored' = [stored EXCEPT ![Head(todo).name] = o.object]
    BY <1>14 DEF WriteOne
  <2>2. UNCHANGED <<posted, original>> /\ call.op = "write" /\ todo # <<>>
    BY <1>14 DEF WriteOne, TypeInv, Control
  <2> QED BY <2>1, <2>2, WrittenDatabase
<1>15. CASE Post
  BY <1>15 DEF Post, TypeInv, Stores
<1>16. CASE Close
  BY <1>16 DEF Close, TypeInv, Stores
<1>17. CASE Interrupt
  <2>1. UNCHANGED <<posted, original>>
    BY <1>17 DEF Interrupt
  <2>2. CASE UNCHANGED stored
    BY <2>1, <2>2 DEF TypeInv, Stores
  <2>3. CASE pc = "write" /\ todo # <<>>
    <3>1. PICK o \in Outcomes(stored[Head(todo).name], Head(todo).object, call.replace,
                              call.mode # "readonly") :
                stored' = [stored EXCEPT ![Head(todo).name] = o.object]
      BY <1>17, <2>3 DEF Interrupt
    <3>2. call.op = "write"
      BY <2>3 DEF TypeInv, Control
    <3> QED BY <2>1, <2>3, <3>1, <3>2, WrittenDatabase
  <2> QED BY <1>17, <2>2, <2>3 DEF Interrupt
<1>18. ASSUME NEW n \in Names, Other(n) PROVE Stores'
  <2>1. PICK o \in {[object |-> None, error |-> None]} \cup
                   UNION {Outcomes(stored[n], object, TRUE, TRUE) : object \in Objects} :
               stored' = [stored EXCEPT ![n] = o.object]
    BY <1>18 DEF Other
  <2>2. UNCHANGED <<posted, original>> /\ (stored[n] # None => IsObject(stored[n]))
    BY <1>18 DEF Other, TypeInv, Stores, IsDatabase
  <2>3. o.object # None => IsObject(o.object)
    <3>1. CASE o \in {[object |-> None, error |-> None]}
      BY <3>1
    <3>2. ASSUME NEW object \in Objects, o \in Outcomes(stored[n], object, TRUE, TRUE)
          PROVE  <2>3
      <4>1. object # None /\ IsObject(object)
        BY CallsAssumption
      <4> QED BY <2>2, <3>2, <4>1, OutcomeFacts
    <3> QED BY <3>1, <3>2
  <2> QED BY <2>1, <2>2, <2>3, DatabaseUpdate DEF TypeInv, Stores
<1>19. CASE UNCHANGED vars
  BY <1>19 DEF vars, TypeInv, Stores
<1> QED BY <1>1, <1>2, <1>3, <1>4, <1>5, <1>6, <1>7, <1>8, <1>9, <1>10, <1>11, <1>12, <1>13, <1>14, <1>15, <1>16, <1>17, <1>18, <1>19 DEF Next, Step, Done

\* What was found, written and given stays as it is, and the call does not come
\* to another place that uses what is left.
LEMMA ListsKept ==
  ASSUME TypeInv, UNCHANGED <<resolved, written, converted, call, todo>>,
         pc' \in {pc, "prepare", "close", "done", "write"} \/ (pc = "read" /\ pc' = "convert")
           \/ (pc = "begin" /\ pc' = "resolve")
  PROVE  Lists'
BY DEF TypeInv, Lists, Items

\* One object or item less to do.
LEMMA ListsTail ==
  ASSUME TypeInv, UNCHANGED <<resolved, written, converted, call>>, todo' = Tail(todo),
         todo # <<>>, pc' = pc \/ (pc = "convert" /\ pc' = "read")
  PROVE  Lists'
<1>1. call.op = "write" => Tail(todo) \in Seq(Items)
  BY HeadItem
<1>2. pc \in {"read", "convert"} => Tail(todo) \in Seq(ToSet(resolved))
  BY HeadFound
<1>3. call.op = "read" /\ pc \in {"begin", "resolve"} => Tail(todo) \in Seq(ToSet(call.args))
  BY TailFacts DEF TypeInv, Lists
<1> QED BY <1>1, <1>2, <1>3 DEF TypeInv, Lists, Items

\* A failure is contained, or the call is left.
LEMMA ListsContain ==
  ASSUME TypeInv, NEW n, NEW e, Contain(n, e), UNCHANGED <<resolved, written, converted, call>>,
         todo # <<>>, pc \in {"read", "convert", "write"}
  PROVE  Lists'
<1>1. CASE call.report
  <2>1. todo' = Tail(todo) /\ pc' = call.op
    BY <1>1 DEF Contain
  <2>2. pc' = pc \/ (pc = "convert" /\ pc' = "read")
    BY <2>1, CallFacts DEF TypeInv, Control
  <2> QED BY <2>1, <2>2, ListsTail
<1>2. CASE ~call.report
  BY <1>2, ListsKept DEF Contain, Leave
<1> QED BY <1>1, <1>2

\* What one argument adds to the objects found.
LEMMA Resolved ==
  ASSUME TypeInv, pc = "resolve", todo # <<>>,
         NEW new \in Listings(Matches(Head(todo)) \ ResolvedNames)
  PROVE  LET u == resolved \o [i \in DOMAIN new |-> Found(new[i])] IN
         /\ u \in Seq(ToSet(u)) /\ \A i \in DOMAIN u : IsFound(u[i])
         /\ NamesApart(resolved) => NamesApart(u)
<1> DEFINE fresh == Matches(Head(todo)) \ ResolvedNames
           k == Cardinality(fresh)
           t == [i \in DOMAIN new |-> Found(new[i])]
           S == ToSet(resolved) \cup ToSet(t)
<1>1. Head(todo).names \subseteq Names
  <2>1. Head(todo) \in ToSet(call.args) /\ call \in Calls
    BY TailFacts DEF TypeInv, Lists, Control
  <2> QED BY <2>1, CallFacts DEF ToSet
<1>2. /\ \A n \in fresh : n \in Names /\ stored[n] # None /\ n \notin ResolvedNames
      /\ IsFiniteSet(fresh)
  <2>1. IsFiniteSet(Names)
    BY FiniteNames
  <2>2. fresh \subseteq Names
    BY <1>1 DEF Matches
  <2> QED BY <2>1, <2>2, FS_Subset DEF Matches
<1>3. k \in Nat
  BY <1>2, FS_CardinalityType
<1> HIDE DEF fresh, k
<1>4. /\ new \in [1..k -> fresh] /\ \A i, j \in 1..k : i < j => Before(new[i], new[j])
  BY DEF Listings, fresh, k
<1>5. \A n : ~Before(n, n)
  <2>1. IsInjective(Order)
    BY CallsAssumption
  <2>2. \A i, j \in DOMAIN Order : i < j => Order[i] # Order[j]
    <3>1. \A i, j \in DOMAIN Order : Order[i] = Order[j] => i = j
      BY <2>1 DEF IsInjective
    <3>2. Len(Order) \in Nat /\ DOMAIN Order = 1..Len(Order)
      BY CallsAssumption, LenProperties
    <3>3. \A i, j \in DOMAIN Order : i < j => i # j
      BY <3>2
    <3> QED BY <3>1, <3>3
  <2> QED BY <2>2 DEF Before
<1>6. \A i, j \in 1..k : i # j => new[i] # new[j]
  <2>1. \A i, j \in 1..k : i # j => i < j \/ j < i
    BY <1>3
  <2> QED BY <1>4, <1>5, <2>1
<1>7. DOMAIN t = 1..k /\ \A i \in 1..k : t[i] = Found(new[i]) /\ new[i] \in fresh
  BY <1>4
<1> HIDE DEF t
<1>8. \A i \in DOMAIN t : IsFound(t[i]) /\ t[i].name \notin ResolvedNames /\ t[i].name = new[i]
  BY <1>2, <1>7 DEF Found, IsFound, TypeInv, Stores, IsDatabase
<1>9. t \in Seq(S)
  <2>1. \A i \in 1..k : t[i] \in S
    BY <1>7 DEF ToSet
  <2>2. t = [i \in 1..k |-> t[i]]
    BY <1>7 DEF t
  <2>3. t \in [1..k -> S]
    BY <2>1, <2>2
  <2> QED BY <1>3, <2>3, SeqDef
<1>10. resolved \in Seq(S)
  <2>1. resolved \in Seq(ToSet(resolved)) /\ ToSet(resolved) \subseteq S
    BY DEF TypeInv, Lists
  <2> QED BY <2>1, SeqMonotonic
<1>11. NamesApart(t)
  BY <1>6, <1>7, <1>8 DEF NamesApart
<1>12. ItemNames(resolved) \cap ItemNames(t) = {}
  BY <1>8 DEF ItemNames, ResolvedNames
<1>13. \A x \in ToSet(resolved) \cup ToSet(t) : IsFound(x)
  BY <1>8 DEF ToSet, TypeInv, Lists
<1> QED BY <1>9, <1>10, <1>11, <1>12, <1>13, ConcatFacts DEF t

LEMMA ListsStep ==
  ASSUME TypeInv, [Next]_vars
  PROVE  Lists'
<1>1. CASE BeginRead
  <2>1. UNCHANGED <<resolved, written, converted, call, todo>> /\ pc' \in {"resolve", "close", "done"}
        /\ pc = "begin"
    BY <1>1 DEF BeginRead, Open, Leave, job
  <2> QED BY <2>1, ListsKept
<1>2. CASE ResolveOne
  <2>1. pc = "resolve" /\ todo # <<>> /\ UNCHANGED <<written, converted, call>>
    BY <1>2 DEF ResolveOne
  <2>2. CASE UNCHANGED <<resolved, todo>> /\ pc' \in {"close", "done"}
    BY <2>1, <2>2, ListsKept
  <2>3. ASSUME NEW new \in Listings(Matches(Head(todo)) \ ResolvedNames),
               resolved' = resolved \o [i \in DOMAIN new |-> Found(new[i])],
               todo' = Tail(todo), UNCHANGED pc
        PROVE  Lists'
    <3>1. /\ resolved' \in Seq(ToSet(resolved'))
          /\ \A i \in DOMAIN resolved' : IsFound(resolved'[i])
      BY <2>1, <2>3, Resolved
    <3>2. todo' \in Seq(ToSet(call.args))
      BY <2>1, <2>3, TailFacts DEF TypeInv, Lists, Control
    <3> QED BY <2>1, <2>3, <3>1, <3>2 DEF TypeInv, Lists, Items, Control
  <2>4. \/ UNCHANGED <<resolved, todo>> /\ pc' \in {"close", "done"}
        \/ /\ \E new \in Listings(Matches(Head(todo)) \ ResolvedNames) :
                resolved' = resolved \o [i \in DOMAIN new |-> Found(new[i])]
           /\ todo' = Tail(todo) /\ UNCHANGED pc
    BY <1>2 DEF ResolveOne, Leave
  <2> QED BY <2>2, <2>3, <2>4
<1>3. CASE ResolveFails
  BY <1>3, ListsKept DEF ResolveFails, Open, Leave, job
<1>4. CASE Destinations
  <2>1. UNCHANGED <<resolved, written, converted, call>> /\ call.op = "read"
    BY <1>4 DEF Destinations, TypeInv, Control
  <2>2. CASE UNCHANGED todo /\ pc' \in {"close", "done"}
    BY <2>1, <2>2, ListsKept
  <2>3. CASE todo' = resolved /\ pc' = "read"
    BY <2>1, <2>3 DEF TypeInv, Lists
  <2> QED BY <1>4, <2>2, <2>3 DEF Destinations, Leave
<1>5. CASE DoRead
  <2>1. CASE pc' = "convert" /\ UNCHANGED todo
    BY <1>5, <2>1, ListsKept DEF DoRead
  <2>2. ASSUME NEW n, Contain(n, "object") PROVE Lists'
    BY <1>5, <2>2, ListsContain DEF DoRead
  <2> QED BY <1>5, <2>1, <2>2 DEF DoRead
<1>6. CASE DoReadFails
  BY <1>6, ListsContain DEF DoReadFails
<1>7. CASE Convert
  <2>1. /\ UNCHANGED <<resolved, written, converted, call>> /\ pc = "convert" /\ todo # <<>>
    BY <1>7 DEF Convert, TypeInv, Control
  <2>2. ASSUME NEW n, NEW raw, Place(n, raw) PROVE Lists'
    BY <2>1, <2>2, ListsTail, ListsKept DEF Place, Leave
  <2>3. ASSUME NEW n, Contain(n, "conversion") PROVE Lists'
    BY <2>1, <2>3, ListsContain
  <2> QED BY <1>7, <2>2, <2>3 DEF Convert
<1>8. CASE CalendarFails
  BY <1>8, ListsKept DEF CalendarFails, Open, Leave, job
<1>9. CASE ReadEnds
  BY <1>9, ListsKept DEF ReadEnds, Open, Leave, job
<1>10. CASE Flattened
  BY <1>10, ListsKept DEF Flattened, Open, Leave, job
<1>11. CASE PrepareOne
  <2>1. UNCHANGED <<resolved, written, call>> /\ call.op = "write" /\ todo # <<>> /\ pc = "prepare"
    BY <1>11 DEF PrepareOne, TypeInv, Control
  <2>2. CASE UNCHANGED converted
    BY <1>11, <2>1, <2>2, ListsKept, ListsTail DEF PrepareOne, Leave
  <2>3. CASE converted' = Append(converted, Head(todo)) /\ todo' = Tail(todo) /\ pc' = pc
    <3>1. converted \in Seq(Items)
      BY <2>1 DEF TypeInv, Lists
    <3>2. converted' \in Seq(Items) /\ todo' \in Seq(Items)
      BY <2>1, <2>3, <3>1, HeadItem, AppendFacts
    <3> QED BY <2>1, <2>3, <3>2 DEF TypeInv, Lists, Items
  <2> QED BY <1>11, <2>2, <2>3 DEF PrepareOne
<1>12. CASE Prepared
  <2>1. /\ UNCHANGED <<resolved, written, converted, call>> /\ call.op = "write"
        /\ todo' = converted /\ pc' \in {"done", "open"}
    BY <1>12 DEF Prepared, TypeInv, Control
  <2> QED BY <2>1 DEF TypeInv, Lists, Items
<1>13. CASE BeginWrite
  <2>1. UNCHANGED <<resolved, written, converted, call, todo>> /\ pc' \in {"write", "close", "done"}
    BY <1>13 DEF BeginWrite, Open, Leave, job
  <2> QED BY <2>1, ListsKept
<1>14. CASE WriteOne
  <2>1. UNCHANGED <<resolved, converted, call>> /\ call.op = "write" /\ todo # <<>> /\ pc = "write"
    BY <1>14 DEF WriteOne, TypeInv, Control
  <2>2. CASE written' = Append(written, Head(todo).name) /\ todo' = Tail(todo) /\ pc' = pc
    <3>1. written \in Seq(Names)
      BY DEF TypeInv, Lists
    <3>2. written' \in Seq(Names) /\ todo' \in Seq(Items)
      BY <2>1, <2>2, <3>1, HeadItem, AppendFacts
    <3> QED BY <2>1, <2>2, <3>2 DEF TypeInv, Lists, Items
  <2>3. ASSUME NEW n, NEW e, Contain(n, e), UNCHANGED written PROVE Lists'
    BY <2>1, <2>3, ListsContain
  <2> QED BY <1>14, <2>2, <2>3 DEF WriteOne
<1>15. CASE Post
  BY <1>15, ListsKept DEF Post, Open, Leave, job
<1>16. CASE Close
  BY <1>16, ListsKept DEF Close, Open, Leave, job
<1>17. CASE Interrupt
  BY <1>17, ListsKept DEF Interrupt, Open, Leave, job
<1>18. ASSUME NEW n \in Names, Other(n) PROVE Lists'
  BY <1>18, ListsKept DEF Other, job
<1>19. CASE UNCHANGED vars
  BY <1>19, ListsKept DEF vars, job
<1> QED BY <1>1, <1>2, <1>3, <1>4, <1>5, <1>6, <1>7, <1>8, <1>9, <1>10, <1>11, <1>12, <1>13, <1>14, <1>15, <1>16, <1>17, <1>18, <1>19 DEF Next, Step, Done

LEMMA ControlStep ==
  ASSUME TypeInv, [Next]_vars
  PROVE  Control'
<1>1. CASE BeginRead
  BY <1>1, CallFacts DEF BeginRead, Open, Leave, job, TypeInv, Control, Errors, Raised
<1>2. CASE ResolveOne
  BY <1>2, CallFacts DEF ResolveOne, Open, Leave, job, TypeInv, Control, Errors, Raised
<1>3. CASE ResolveFails
  BY <1>3, CallFacts DEF ResolveFails, Open, Leave, job, TypeInv, Control, Errors, Raised
<1>4. CASE Destinations
  BY <1>4, CallFacts DEF Destinations, Open, Leave, job, TypeInv, Control, Errors, Raised
<1>5. CASE DoRead
  BY <1>5, CallFacts DEF DoRead, Contain, Leave, TypeInv, Control, Errors, Raised
<1>6. CASE DoReadFails
  BY <1>6, CallFacts DEF DoReadFails, Contain, Leave, TypeInv, Control, Errors, Raised
<1>7. CASE Convert
  BY <1>7, CallFacts DEF Convert, Place, Contain, Leave, TypeInv, Control, Errors, Raised
<1>8. CASE CalendarFails
  BY <1>8, CallFacts DEF CalendarFails, Open, Leave, job, TypeInv, Control, Errors, Raised
<1>9. CASE ReadEnds
  BY <1>9, CallFacts DEF ReadEnds, Open, Leave, job, TypeInv, Control, Errors, Raised
<1>10. CASE Flattened
  BY <1>10, CallFacts DEF Flattened, Open, Leave, job, TypeInv, Control, Errors, Raised
<1>11. CASE PrepareOne
  BY <1>11, CallFacts DEF PrepareOne, Open, Leave, job, TypeInv, Control, Errors, Raised
<1>12. CASE Prepared
  BY <1>12, CallFacts DEF Prepared, Open, Leave, job, TypeInv, Control, Errors, Raised
<1>13. CASE BeginWrite
  BY <1>13, CallFacts DEF BeginWrite, Open, Leave, job, TypeInv, Control, Errors, Raised
<1>14. CASE WriteOne
  <2>1. PICK o \in Outcomes(stored[Head(todo).name], Head(todo).object, call.replace,
                             call.mode # "readonly") :
               \/ o.error = None /\ UNCHANGED <<pc, error>>
               \/ o.error # None /\ Contain(Head(todo).name, o.error)
    BY <1>14 DEF WriteOne
  <2>2. /\ UNCHANGED <<call, opened, changes>> /\ call.op = "write" /\ todo # <<>> /\ pc = "write"
    BY <1>14 DEF WriteOne, TypeInv, Control
  <2>3. o.error \in {None, "readonly", "status"}
    BY <2>2, HeadOutcome
  <2> QED BY <2>1, <2>2, <2>3, CallFacts DEF Contain, Leave, TypeInv, Control, Errors, Raised
<1>15. CASE Post
  BY <1>15, CallFacts DEF Post, Open, Leave, job, TypeInv, Control, Errors, Raised
<1>16. CASE Close
  BY <1>16, CallFacts DEF Close, Open, Leave, job, TypeInv, Control, Errors, Raised
<1>17. CASE Interrupt
  BY <1>17, CallFacts DEF Interrupt, Open, Leave, job, TypeInv, Control, Errors, Raised
<1>18. ASSUME NEW n \in Names, Other(n) PROVE Control'
  <2>1. MaxChanges \in Nat /\ changes' = changes + 1 /\ changes < MaxChanges
        /\ UNCHANGED <<call, pc, opened, error, todo>>
    BY <1>18, CallsAssumption DEF Other, job
  <2>2. changes' \in 0..MaxChanges
    BY <2>1 DEF TypeInv, Control
  <2> QED BY <2>1, <2>2 DEF TypeInv, Control
<1>19. CASE UNCHANGED vars
  BY <1>19 DEF vars, job, TypeInv, Control, Errors, Raised
<1> QED BY <1>1, <1>2, <1>3, <1>4, <1>5, <1>6, <1>7, <1>8, <1>9, <1>10, <1>11, <1>12, <1>13, <1>14, <1>15, <1>16, <1>17, <1>18, <1>19 DEF Next, Step, Done

\* A failure is contained: the name in hand is added.
LEMMA ResultsContain ==
  ASSUME TypeInv, NEW n \in Names, NEW e, Contain(n, e), UNCHANGED placed
  PROVE  Results'
BY DEF Contain, TypeInv, Results, Entries

LEMMA ResultsStep ==
  ASSUME TypeInv, [Next]_vars
  PROVE  Results'
<1>1. CASE BeginRead
  BY <1>1 DEF BeginRead, job, TypeInv, Results, Entries
<1>2. CASE ResolveOne
  BY <1>2 DEF ResolveOne, job, TypeInv, Results, Entries
<1>3. CASE ResolveFails
  BY <1>3 DEF ResolveFails, job, TypeInv, Results, Entries
<1>4. CASE Destinations
  BY <1>4 DEF Destinations, job, TypeInv, Results, Entries
<1>5. CASE DoRead
  <2>1. UNCHANGED placed /\ Head(todo).name \in Names
    BY <1>5, HeadFound DEF DoRead, IsFound
  <2>2. CASE UNCHANGED failures
    BY <2>1, <2>2 DEF TypeInv, Results, Entries
  <2> QED BY <1>5, <2>1, <2>2, ResultsContain DEF DoRead
<1>6. CASE DoReadFails
  <2>1. UNCHANGED placed /\ Head(todo).name \in Names
    BY <1>6, HeadFound DEF DoReadFails, IsFound
  <2> QED BY <1>6, <2>1, ResultsContain DEF DoReadFails
<1>7. CASE Convert
  <2>1. todo # <<>> /\ Head(todo).name \in Names
    BY <1>7, HeadFound DEF Convert, IsFound, TypeInv, Control
  <2>2. ASSUME NEW raw \in BOOLEAN, Place(Head(todo).name, raw) PROVE Results'
    BY <2>1, <2>2 DEF Place, TypeInv, Results, Entries
  <2> QED BY <1>7, <2>1, <2>2, ResultsContain DEF Convert
<1>8. CASE CalendarFails
  BY <1>8 DEF CalendarFails, job, TypeInv, Results, Entries
<1>9. CASE ReadEnds
  BY <1>9 DEF ReadEnds, job, TypeInv, Results, Entries
<1>10. CASE Flattened
  BY <1>10 DEF Flattened, job, TypeInv, Results, Entries
<1>11. CASE PrepareOne
  <2>1. Head(todo).name \in Names /\ UNCHANGED placed
    BY <1>11, HeadItem DEF PrepareOne, TypeInv, Control
  <2> QED BY <1>11, <2>1 DEF PrepareOne, Leave, TypeInv, Results, Entries
<1>12. CASE Prepared
  BY <1>12 DEF Prepared, job, TypeInv, Results, Entries
<1>13. CASE BeginWrite
  BY <1>13 DEF BeginWrite, job, TypeInv, Results, Entries
<1>14. CASE WriteOne
  <2>1. UNCHANGED placed /\ Head(todo).name \in Names
    BY <1>14, HeadItem DEF WriteOne, TypeInv, Control
  <2>2. CASE UNCHANGED failures
    BY <2>1, <2>2 DEF TypeInv, Results, Entries
  <2> QED BY <1>14, <2>1, <2>2, ResultsContain DEF WriteOne
<1>15. CASE Post
  BY <1>15 DEF Post, job, TypeInv, Results, Entries
<1>16. CASE Close
  BY <1>16 DEF Close, job, TypeInv, Results, Entries
<1>17. CASE Interrupt
  BY <1>17 DEF Interrupt, job, TypeInv, Results, Entries
<1>18. ASSUME NEW n \in Names, Other(n) PROVE Results'
  BY <1>18 DEF Other, job, TypeInv, Results, Entries
<1>19. CASE UNCHANGED vars
  BY <1>19 DEF vars, job, TypeInv, Results, Entries
<1> QED BY <1>1, <1>2, <1>3, <1>4, <1>5, <1>6, <1>7, <1>8, <1>9, <1>10, <1>11, <1>12, <1>13, <1>14, <1>15, <1>16, <1>17, <1>18, <1>19 DEF Next, Step, Done

LEMMA TypeStep == TypeInv /\ [Next]_vars => TypeInv'
BY StoresStep, ListsStep, ControlStep, ResultsStep DEF TypeInv

\* Every variable has its type, and a handle of the call's own is open only
\* while the call runs.
THEOREM WorkspaceTypes == Spec => []TypeOK
<1>1. TypeInv => TypeOK
  <2> SUFFICES ASSUME TypeInv PROVE TypeOK
    OBVIOUS
  <2>1. DOMAIN stored = Names /\ DOMAIN posted = Names
    BY DEF TypeInv, Stores, IsDatabase
  <2>2. ToSet(written) \subseteq Names
    <3>1. \A i \in DOMAIN written : written[i] \in Names
      BY ElementOfSeq, LenProperties DEF TypeInv, Lists
    <3> QED BY <3>1 DEF ToSet
  <2>3. \A i \in DOMAIN resolved : resolved[i].name \in Names
    BY DEF TypeInv, Lists, IsFound
  <2> QED BY <2>1, <2>2, <2>3 DEF TypeInv, Control, Results, TypeOK
<1> QED BY <1>1, TypeInit, TypeStep, PTL DEF Spec

-----------------------------------------------------------------------------
(* Reading *)

LEMMA ReadInit == Init => ReadInv
<1> SUFFICES ASSUME Init PROVE ReadInv
  OBVIOUS
<1>1. /\ resolved = <<>> /\ placed = {} /\ failures = {} /\ pc = "begin" /\ DOMAIN resolved = {}
  BY DEF Init
<1> QED BY <1>1 DEF ReadInv, NamesApart

\* Nothing of a read changes.
LEMMA ReadSame ==
  ASSUME ReadInv, UNCHANGED <<resolved, todo, placed, failures, current, call, pc, error>>
  PROVE  ReadInv'
BY DEF ReadInv, ReadCount, ResolvedNames, PlacedNames, ItemNames, NamesApart, Clash, AsListed

\* The account of a read is about these variables alone.
LEMMA ReadCountSame ==
  ASSUME ReadCount, UNCHANGED <<resolved, todo, placed, failures, call>>
  PROVE  ReadCount'
<1>1. /\ ResolvedNames' = ResolvedNames /\ PlacedNames' = PlacedNames
      /\ ItemNames(todo)' = ItemNames(todo) /\ NamesApart(todo)' = NamesApart(todo)
  BY DEF ResolvedNames, PlacedNames, ItemNames, NamesApart
<1> QED BY <1>1 DEF ReadCount

\* The call is left, with an error or with its account complete.
LEMMA ReadLeaves ==
  ASSUME ReadInv, UNCHANGED <<resolved, todo, placed, failures, call>>,
         pc' \in {"close", "done"}, error' # None \/ ReadCount
  PROVE  ReadInv'
<1>1. error' = None => ReadCount'
  BY ReadCountSame
<1> QED BY <1>1 DEF ReadInv, ResolvedNames, NamesApart, Clash, AsListed

\* One object less to do: the others are accounted for as before.
LEMMA OneLess ==
  ASSUME TypeInv, ReadCount, todo # <<>>, pc \in {"read", "convert"}
  PROVE  LET n == Head(todo).name IN
         /\ NamesApart(Tail(todo)) /\ n \notin ItemNames(Tail(todo))
         /\ n \notin PlacedNames \cup failures
         /\ ItemNames(todo) = ItemNames(Tail(todo)) \cup {n}
         /\ Len(todo) = Len(Tail(todo)) + 1 /\ Len(Tail(todo)) \in Nat
<1>1. todo \in Seq(ToSet(resolved))
  BY DEF TypeInv, Lists
<1> QED BY <1>1, TailFacts DEF ReadCount

\* The object in hand fails: a report lists it, any other call raises.
LEMMA ReadContains ==
  ASSUME TypeInv, ReadInv, call.op = "read", todo # <<>>, pc \in {"read", "convert"},
         NEW e, e # None, Contain(Head(todo).name, e), UNCHANGED <<resolved, placed, call>>
  PROVE  ReadInv'
<1>1. CASE ~call.report
  <2>1. pc' \in {"close", "done"} /\ error' # None /\ UNCHANGED <<todo, failures>>
    BY <1>1 DEF Contain, Leave
  <2> QED BY <2>1, ReadLeaves
<1>2. CASE call.report
  <2> DEFINE n == Head(todo).name
  <2>1. failures' = failures \cup {n} /\ todo' = Tail(todo) /\ pc' = "read"
    BY <1>2 DEF Contain
  <2>2. ReadCount
    BY DEF ReadInv
  <2>3. /\ NamesApart(Tail(todo)) /\ n \notin ItemNames(Tail(todo))
        /\ n \notin PlacedNames \cup failures
        /\ ItemNames(todo) = ItemNames(Tail(todo)) \cup {n}
        /\ Len(todo) = Len(Tail(todo)) + 1 /\ Len(Tail(todo)) \in Nat
    BY <2>2, OneLess
  <2>4. /\ Cardinality(failures \cup {n}) = Cardinality(failures) + 1
        /\ IsFiniteSet(failures \cup {n}) /\ Cardinality(failures) \in Nat
        /\ Cardinality(placed) \in Nat
    BY <2>2, <2>3, FS_AddElement, FS_CardinalityType DEF ReadCount
  <2>5. PlacedNames' = PlacedNames /\ ResolvedNames' = ResolvedNames
    BY DEF PlacedNames, ResolvedNames
  <2> HIDE DEF n
  <2>6. Cardinality(placed) + Cardinality(failures \cup {n}) + Len(Tail(todo)) = Len(resolved)
    BY <2>2, <2>3, <2>4 DEF ReadCount
  <2>7. NamesApart(todo') /\ ItemNames(todo') = ItemNames(Tail(todo))
    BY <2>1, <2>3 DEF NamesApart, ItemNames
  <2>8. ReadCount'
    BY <1>2, <2>1, <2>2, <2>3, <2>4, <2>5, <2>6, <2>7 DEF ReadCount
  <2> QED BY <2>1, <2>8 DEF ReadInv, ResolvedNames, NamesApart, Clash, AsListed
<1> QED BY <1>1, <1>2

\* Nothing is under the key of the object in hand or on its way: an entry is added.
LEMMA PlaceAdds ==
  ASSUME TypeInv, ReadInv, call.op = "read", pc = "convert", NEW raw,
         Place(Head(todo).name, raw)
  PROVE  /\ placed' = placed \cup {[name |-> Head(todo).name, key |-> Key[Head(todo).name],
                                    object |-> current, raw |-> raw]}
         /\ pc' = "read" /\ todo' = Tail(todo) /\ UNCHANGED <<failures, error>>
<1> DEFINE n == Head(todo).name
<1>1. ReadCount /\ todo # <<>> /\ ~Clash(ResolvedNames)
  BY DEF ReadInv, TypeInv, Control
<1>2. n \in ResolvedNames /\ n \notin PlacedNames
  BY <1>1, HeadFound, OneLess
<1>3. ASSUME NEW e \in placed PROVE ~IsPrefix(e.key, Key[n]) /\ ~IsPrefix(Key[n], e.key)
  <2>1. e.name \in ResolvedNames /\ e.key = Key[e.name] /\ e.name # n
    BY <1>2 DEF ReadInv, PlacedNames
  <2> QED BY <1>1, <1>2, <2>1 DEF Clash
<1>4. {e \in placed : ~IsPrefix(Key[n], e.key)} = placed
  BY <1>3
<1>5. ~\E e \in placed : IsStrictPrefix(e.key, Key[n])
  BY <1>3 DEF IsStrictPrefix
<1> QED BY <1>4, <1>5 DEF Place

\* The object in hand is placed under its key.
LEMMA ReadPlaces ==
  ASSUME TypeInv, ReadInv, call.op = "read", pc = "convert", NEW raw,
         Place(Head(todo).name, raw), UNCHANGED <<resolved, call>>
  PROVE  ReadInv'
<1> DEFINE n == Head(todo).name
           entry == [name |-> n, key |-> Key[n], object |-> current, raw |-> raw]
<1>1. /\ placed' = placed \cup {entry} /\ todo' = Tail(todo) /\ pc' = "read"
      /\ failures' = failures
  BY PlaceAdds
<1>2. ReadCount /\ todo # <<>> /\ AsListed(current, Head(todo).object) /\ ~Clash(ResolvedNames)
  BY DEF ReadInv, TypeInv, Control
<1>3. /\ NamesApart(Tail(todo)) /\ n \notin ItemNames(Tail(todo))
      /\ n \notin PlacedNames \cup failures
      /\ ItemNames(todo) = ItemNames(Tail(todo)) \cup {n}
      /\ Len(todo) = Len(Tail(todo)) + 1 /\ Len(Tail(todo)) \in Nat
  BY <1>2, OneLess
<1>4. Head(todo) \in ToSet(resolved) /\ n \in ResolvedNames
  BY <1>2, HeadFound
<1>5. entry.name = n /\ entry.key = Key[n] /\ entry.object = current
  OBVIOUS
<1>6. \E i \in DOMAIN resolved : resolved[i].name = n /\ AsListed(current, resolved[i].object)
  BY <1>2, <1>4 DEF ToSet
<1> HIDE DEF n, entry
<1>7. entry \notin placed
  BY <1>3, <1>5 DEF PlacedNames
<1>8. /\ Cardinality(placed \cup {entry}) = Cardinality(placed) + 1
      /\ IsFiniteSet(placed \cup {entry}) /\ Cardinality(placed) \in Nat
      /\ Cardinality(failures) \in Nat
  BY <1>2, <1>7, FS_AddElement, FS_CardinalityType DEF ReadCount
<1>9. PlacedNames' = PlacedNames \cup {n} /\ ResolvedNames' = ResolvedNames
  BY <1>1, <1>5 DEF PlacedNames, ResolvedNames
<1>10. Cardinality(placed \cup {entry}) + Cardinality(failures) + Len(Tail(todo)) = Len(resolved)
  BY <1>2, <1>3, <1>8 DEF ReadCount
<1>11. NamesApart(todo') /\ ItemNames(todo') = ItemNames(Tail(todo))
  BY <1>1, <1>3 DEF NamesApart, ItemNames
<1>12. ReadCount'
  BY <1>1, <1>2, <1>3, <1>8, <1>9, <1>10, <1>11 DEF ReadCount
<1>13. \A x \in placed' : /\ x.name \in ResolvedNames /\ x.key = Key[x.name]
                          /\ \E i \in DOMAIN resolved :
                               resolved[i].name = x.name /\ AsListed(x.object, resolved[i].object)
  BY <1>1, <1>4, <1>5, <1>6 DEF ReadInv
<1>14. NamesApart(resolved') /\ ~Clash(ResolvedNames)'
  BY <1>2, <1>9 DEF ReadInv, NamesApart, Clash
<1> QED BY <1>1, <1>9, <1>12, <1>13, <1>14 DEF ReadInv, AsListed

\* What do_read accepts is what the listing said.
LEMMA ReadableAsListed ==
  ASSUME NEW listed, IsObject(listed), NEW object, IsObject(object), Readable(listed, object)
  PROVE  AsListed([object EXCEPT !.range = IF object.meta \in Scalars THEN @
                                           ELSE Asked(listed, object)], listed)
<1> DEFINE read == [object EXCEPT !.range = IF object.meta \in Scalars THEN @
                                            ELSE Asked(listed, object)]
<1>1. object = Object(object.meta, object.range, object.value, object.fits)
  BY DEF IsObject
<1>2. /\ read.meta = object.meta
      /\ read.range = IF object.meta \in Scalars THEN object.range ELSE Asked(listed, object)
  BY <1>1 DEF Object
<1> HIDE DEF read
<1>3. object.meta = listed.meta
  BY DEF Readable
<1>4. CASE object.meta \in Scalars
  BY <1>2, <1>3, <1>4 DEF IsObject, AsListed
<1>5. CASE object.meta \notin Scalars
  <2>1. object.range = Empty => listed.range = Empty
    BY <1>5 DEF Readable
  <2> QED BY <1>2, <1>3, <1>5, <2>1 DEF Asked, AsListed
<1> QED BY <1>4, <1>5 DEF read

LEMMA ReadStep ==
  ASSUME TypeInv, ReadInv, [Next]_vars
  PROVE  ReadInv'
<1>1. CASE BeginRead
  <2>1. UNCHANGED <<resolved, todo, placed, failures, call>> /\ pc = "begin"
    BY <1>1 DEF BeginRead, job
  <2>2. CASE pc' = "resolve"
    BY <2>1, <2>2 DEF ReadInv, ResolvedNames, NamesApart, Clash
  <2>3. CASE pc' \in {"close", "done"} /\ error' = "status"
    BY <2>1, <2>3, ReadLeaves, CallsAssumption DEF Raised
  <2> QED BY <1>1, <2>2, <2>3 DEF BeginRead, Open, Leave
<1>2. CASE ResolveOne
  <2>1. UNCHANGED <<placed, failures, call>> /\ pc = "resolve" /\ todo # <<>>
    BY <1>2 DEF ResolveOne
  <2>2. CASE UNCHANGED <<resolved, todo>> /\ pc' \in {"close", "done"} /\ error' = "status"
    BY <2>1, <2>2, ReadLeaves, CallsAssumption DEF Raised
  <2>3. ASSUME NEW new \in Listings(Matches(Head(todo)) \ ResolvedNames),
               resolved' = resolved \o [i \in DOMAIN new |-> Found(new[i])],
               UNCHANGED <<pc, error>>
        PROVE  ReadInv'
    <3>1. NamesApart(resolved) => NamesApart(resolved')
      BY <2>1, <2>3, Resolved
    <3> QED BY <2>1, <2>3, <3>1 DEF ReadInv, NamesApart
  <2> QED BY <1>2, <2>2, <2>3 DEF ResolveOne, Leave
<1>3. CASE ResolveFails
  <2>1. UNCHANGED <<resolved, todo, placed, failures, call>> /\ pc' \in {"close", "done"}
        /\ error' \in Raised
    BY <1>3 DEF ResolveFails, Leave, job, Raised
  <2> QED BY <2>1, ReadLeaves, CallsAssumption
<1>4. CASE Destinations
  <2>1. UNCHANGED <<resolved, placed, failures, call>> /\ pc = "resolve" /\ call.op = "read"
    BY <1>4 DEF Destinations, TypeInv, Control
  <2>2. CASE UNCHANGED todo /\ pc' \in {"close", "done"} /\ error' = "collision"
    BY <2>1, <2>2, ReadLeaves, CallsAssumption DEF Raised
  <2>3. CASE ~Collide(resolved) /\ todo' = resolved /\ pc' = "read"
    <3>1. placed = {} /\ failures = {} /\ NamesApart(resolved)
      BY <2>1 DEF ReadInv
    <3>2. Cardinality({}) = 0 /\ IsFiniteSet({}) /\ Len(resolved) \in Nat
      BY FS_EmptySet, LenProperties DEF TypeInv, Lists
    <3>3. PlacedNames' = {} /\ ResolvedNames' = ResolvedNames /\ ItemNames(todo') = ResolvedNames
      BY <2>1, <2>3, <3>1 DEF PlacedNames, ResolvedNames, ItemNames
    <3>4. ReadCount'
      BY <2>1, <2>3, <3>1, <3>2, <3>3 DEF ReadCount, NamesApart
    <3>5. ~Clash(ResolvedNames)
      BY <2>3, <3>1, CollideFinds DEF TypeInv, Lists, IsFound, ResolvedNames
    <3> QED BY <2>1, <2>3, <3>1, <3>3, <3>4, <3>5 DEF ReadInv, NamesApart, Clash
  <2> QED BY <1>4, <2>2, <2>3 DEF Destinations, Leave
<1>5. CASE DoRead
  <2>1. UNCHANGED <<resolved, placed, call>> /\ pc = "read" /\ todo # <<>> /\ call.op = "read"
    BY <1>5 DEF DoRead, TypeInv, Control
  <2> DEFINE object == stored[Head(todo).name]
             listed == Head(todo).object
  <2>2. CASE /\ Readable(listed, object) /\ pc' = "convert" /\ UNCHANGED <<todo, failures, error>>
             /\ current' = [object EXCEPT !.range = IF object.meta \in Scalars THEN @
                                                     ELSE Asked(listed, object)]
    <3>1. IsFound(Head(todo))
      BY <2>1, HeadFound
    <3>2. object # None /\ IsObject(object) /\ IsObject(listed)
      BY <2>2, <3>1 DEF Readable, IsFound, TypeInv, Stores, IsDatabase
    <3>3. AsListed(current', listed)
      BY <2>2, <3>2, ReadableAsListed
    <3>4. ReadCount' /\ ~Clash(ResolvedNames)
      BY <2>1, <2>2, ReadCountSame DEF ReadInv
    <3> QED BY <2>1, <2>2, <3>3, <3>4 DEF ReadInv, ResolvedNames, NamesApart, Clash, AsListed
  <2>3. CASE Contain(Head(todo).name, "object")
    BY <2>1, <2>3, ReadContains, CallsAssumption DEF Raised
  <2> QED BY <1>5, <2>2, <2>3 DEF DoRead
<1>6. CASE DoReadFails
  <2>1. UNCHANGED <<resolved, placed, call>> /\ pc = "read" /\ todo # <<>> /\ call.op = "read"
    BY <1>6 DEF DoReadFails, TypeInv, Control
  <2> QED BY <1>6, <2>1, ReadContains, CallsAssumption DEF DoReadFails, Raised
<1>7. CASE Convert
  <2>1. UNCHANGED <<resolved, call>> /\ pc = "convert" /\ todo # <<>> /\ call.op = "read"
    BY <1>7 DEF Convert, TypeInv, Control
  <2>2. ASSUME NEW raw, Place(Head(todo).name, raw) PROVE ReadInv'
    BY <2>1, <2>2, ReadPlaces
  <2>3. CASE Contain(Head(todo).name, "conversion") /\ UNCHANGED placed
    BY <2>1, <2>3, ReadContains, CallsAssumption DEF Raised
  <2> QED BY <1>7, <2>2, <2>3 DEF Convert
<1>8. CASE CalendarFails
  <2>1. UNCHANGED <<resolved, todo, placed, failures, call>> /\ pc' \in {"close", "done"}
        /\ error' \in Raised
    BY <1>8 DEF CalendarFails, Leave, job, Raised
  <2> QED BY <2>1, ReadLeaves, CallsAssumption
<1>9. CASE ReadEnds
  <2>1. UNCHANGED <<resolved, todo, placed, failures, call>> /\ pc' \in {"close", "done"}
        /\ pc = "read" /\ call.op = "read"
    BY <1>9 DEF ReadEnds, Leave, job, TypeInv, Control
  <2>2. ReadCount
    BY <2>1 DEF ReadInv
  <2> QED BY <2>1, <2>2, ReadLeaves
<1>10. CASE Flattened
  <2>1. call'.op = "write"
    BY <1>10 DEF Flattened, TypeInv, Control, job
  <2> QED BY <2>1 DEF ReadInv
<1>11. CASE PrepareOne
  <2>1. call'.op = "write"
    BY <1>11 DEF PrepareOne, TypeInv, Control, job
  <2> QED BY <2>1 DEF ReadInv
<1>12. CASE Prepared
  <2>1. call'.op = "write"
    BY <1>12 DEF Prepared, TypeInv, Control, job
  <2> QED BY <2>1 DEF ReadInv
<1>13. CASE BeginWrite
  <2>1. call'.op = "write"
    BY <1>13 DEF BeginWrite, TypeInv, Control, job
  <2> QED BY <2>1 DEF ReadInv
<1>14. CASE WriteOne
  <2>1. call'.op = "write"
    BY <1>14 DEF WriteOne, TypeInv, Control, job
  <2> QED BY <2>1 DEF ReadInv
<1>15. CASE Post
  <2>1. call'.op = "write"
    BY <1>15 DEF Post, TypeInv, Control, job
  <2> QED BY <2>1 DEF ReadInv
<1>16. CASE Close
  <2>1. UNCHANGED <<resolved, todo, placed, failures, call>> /\ pc' = "done" /\ pc = "close"
    BY <1>16 DEF Close, job
  <2>2. CASE error' = "close"
    BY <2>1, <2>2, ReadLeaves, CallsAssumption DEF Raised
  <2>3. CASE UNCHANGED error /\ error # None
    BY <2>1, <2>3, ReadLeaves
  <2>4. CASE UNCHANGED error /\ error = None /\ call.op = "read"
    BY <2>1, <2>4, ReadLeaves DEF ReadInv
  <2>5. CASE call.op # "read"
    BY <2>1, <2>5 DEF ReadInv
  <2> QED BY <1>16, <2>2, <2>3, <2>4, <2>5 DEF Close
<1>17. CASE Interrupt
  <2>1. UNCHANGED <<resolved, todo, placed, failures, call>> /\ pc' \in {"close", "done"}
        /\ error' \in Raised
    BY <1>17 DEF Interrupt, Leave, job, Raised
  <2> QED BY <2>1, ReadLeaves, CallsAssumption
<1>18. ASSUME NEW n \in Names, Other(n) PROVE ReadInv'
  BY <1>18, ReadSame DEF Other, job
<1>19. CASE UNCHANGED vars
  BY <1>19, ReadSame DEF vars, job
<1> QED BY <1>1, <1>2, <1>3, <1>4, <1>5, <1>6, <1>7, <1>8, <1>9, <1>10, <1>11, <1>12, <1>13, <1>14, <1>15, <1>16, <1>17, <1>18, <1>19 DEF Next, Step, Done

-----------------------------------------------------------------------------
(* Writing *)

\* As many names as items: they differ.
LEMMA NamesDiffer ==
  ASSUME NEW S, NEW s \in Seq(S), Cardinality(ItemNames(s)) = Len(s)
  PROVE  NamesApart(s)
<1> DEFINE f == [i \in DOMAIN s |-> s[i].name]
<1>1. DOMAIN s = 1..Len(s) /\ Len(s) \in Nat
  BY LenProperties
<1>2. IsFiniteSet(DOMAIN s) /\ Cardinality(DOMAIN s) = Len(s)
  <2>1. 1 \in Int /\ Len(s) \in Int
    BY <1>1
  <2>2. IsFiniteSet(1..Len(s)) /\ Cardinality(1..Len(s)) = IF 1 > Len(s) THEN 0 ELSE Len(s) - 1 + 1
    BY <2>1, FS_Interval, Zenon
  <2> QED BY <1>1, <2>2
<1>3. f \in Surjection(DOMAIN s, ItemNames(s))
  <2>1. f \in [DOMAIN s -> ItemNames(s)]
    BY DEF ItemNames
  <2>2. \A n \in ItemNames(s) : \E i \in DOMAIN s : f[i] = n
    BY DEF ItemNames
  <2> QED BY <2>1, <2>2 DEF Surjection
<1> HIDE DEF f
<1>4. f \in Injection(DOMAIN s, ItemNames(s))
  BY <1>2, <1>3, FS_SurjSameCardinalityImpliesInj
<1>5. \A i, j \in DOMAIN s : f[i] = f[j] => i = j
  BY <1>4 DEF Injection, IsInjective
<1> QED BY <1>5 DEF f, NamesApart

\* The item in hand is done.
LEMMA AccountDone ==
  ASSUME NEW S, NEW T \in Seq(S), T # <<>>, NEW D, NEW k \in Nat, NEW F, NEW c,
         Account(D, k, T, F, c)
  PROVE  Account(D \cup {Head(T).name}, k + 1, Tail(T), F, c)
<1>1. /\ ItemNames(T) = ItemNames(Tail(T)) \cup {Head(T).name}
      /\ NamesApart(Tail(T)) /\ Head(T).name \notin ItemNames(Tail(T))
      /\ Len(T) = Len(Tail(T)) + 1 /\ Len(Tail(T)) \in Nat
  BY TailFacts DEF Account
<1>2. Cardinality(F) \in Nat
  BY FS_CardinalityType DEF Account
<1>3. k + 1 + Cardinality(F) + Len(Tail(T)) = Len(c.items)
  BY <1>1, <1>2 DEF Account
<1> QED BY <1>1, <1>3 DEF Account

\* The item in hand fails, and is listed.
LEMMA AccountFails ==
  ASSUME NEW S, NEW T \in Seq(S), T # <<>>, NEW D, NEW k \in Nat, NEW F, NEW c,
         Account(D, k, T, F, c), c.report
  PROVE  Account(D, k, Tail(T), F \cup {Head(T).name}, c)
<1>1. /\ ItemNames(T) = ItemNames(Tail(T)) \cup {Head(T).name}
      /\ NamesApart(Tail(T)) /\ Head(T).name \notin ItemNames(Tail(T))
      /\ Len(T) = Len(Tail(T)) + 1 /\ Len(Tail(T)) \in Nat
  BY TailFacts DEF Account
<1>2. Head(T).name \notin F
  BY <1>1 DEF Account
<1>3. /\ IsFiniteSet(F \cup {Head(T).name}) /\ Cardinality(F) \in Nat
      /\ Cardinality(F \cup {Head(T).name}) = Cardinality(F) + 1
  BY <1>2, FS_AddElement, FS_CardinalityType DEF Account
<1>4. k + Cardinality(F \cup {Head(T).name}) + Len(Tail(T)) = Len(c.items)
  BY <1>1, <1>3 DEF Account
<1> QED BY <1>1, <1>3, <1>4 DEF Account

LEMMA WriteInit == Init => WriteInv
<1> SUFFICES ASSUME Init, call.op = "write" PROVE WriteInv
  BY DEF WriteInv
<1> QED BY DEF Init, WriteInv

\* Nothing of a write changes.
LEMMA WriteSame ==
  ASSUME WriteInv, UNCHANGED <<todo, placed, written, converted, failures, call, pc, error>>
  PROVE  WriteInv'
<1>1. ItemNames(converted)' = ItemNames(converted) /\ NamesApart(converted)' = NamesApart(converted)
  BY DEF ItemNames, NamesApart
<1> QED BY <1>1 DEF WriteInv, WriteCount

\* The call is left, with an error or with its account complete.
LEMMA WriteLeaves ==
  ASSUME WriteInv, UNCHANGED <<todo, placed, written, failures, call>>,
         pc' \in {"close", "done"}, error' # None \/ WriteCount
  PROVE  WriteInv'
BY DEF WriteInv, WriteCount

\* A write that fails: a report lists the name, any other call raises.
LEMMA WriteContains ==
  ASSUME TypeInv, WriteInv, pc = "write", todo # <<>>, NEW e, e # None,
         Contain(Head(todo).name, e), UNCHANGED <<placed, written, call>>
  PROVE  WriteInv'
<1>1. CASE ~call.report
  <2>1. pc' \in {"close", "done"} /\ error' # None /\ UNCHANGED <<todo, failures>>
    BY <1>1 DEF Contain, Leave
  <2> QED BY <2>1, WriteLeaves
<1>2. CASE call.report
  <2>1. /\ failures' = failures \cup {Head(todo).name} /\ todo' = Tail(todo) /\ pc' = "write"
        /\ call.op = "write"
    BY <1>2 DEF Contain, TypeInv, Control
  <2>2. WriteCount /\ todo \in Seq(Items) /\ Len(written) \in Nat
    BY <2>1, LenProperties DEF WriteInv, TypeInv, Lists
  <2>3. Account(ToSet(written), Len(written), todo', failures', call)
    BY <1>2, <2>1, <2>2, AccountFails DEF WriteCount
  <2> QED BY <2>1, <2>3 DEF WriteInv, WriteCount
<1> QED BY <1>1, <1>2

LEMMA WriteStep ==
  ASSUME TypeInv, WriteInv, [Next]_vars
  PROVE  WriteInv'
<1>1. CASE BeginRead
  <2>1. call'.op # "write"
    BY <1>1 DEF BeginRead, TypeInv, Control, job
  <2> QED BY <2>1 DEF WriteInv
<1>2. CASE ResolveOne
  <2>1. call'.op # "write"
    BY <1>2 DEF ResolveOne, TypeInv, Control, job
  <2> QED BY <2>1 DEF WriteInv
<1>3. CASE ResolveFails
  <2>1. call'.op # "write"
    BY <1>3 DEF ResolveFails, TypeInv, Control, job
  <2> QED BY <2>1 DEF WriteInv
<1>4. CASE Destinations
  <2>1. call'.op # "write"
    BY <1>4 DEF Destinations, TypeInv, Control, job
  <2> QED BY <2>1 DEF WriteInv
<1>5. CASE DoRead
  <2>1. call'.op # "write"
    BY <1>5 DEF DoRead, TypeInv, Control, job
  <2> QED BY <2>1 DEF WriteInv
<1>6. CASE DoReadFails
  <2>1. call'.op # "write"
    BY <1>6 DEF DoReadFails, TypeInv, Control, job
  <2> QED BY <2>1 DEF WriteInv
<1>7. CASE Convert
  <2>1. call'.op # "write"
    BY <1>7 DEF Convert, TypeInv, Control, job
  <2> QED BY <2>1 DEF WriteInv
<1>8. CASE CalendarFails
  <2>1. call'.op # "write"
    BY <1>8 DEF CalendarFails, TypeInv, Control, job
  <2> QED BY <2>1 DEF WriteInv
<1>9. CASE ReadEnds
  <2>1. call'.op # "write"
    BY <1>9 DEF ReadEnds, TypeInv, Control, job
  <2> QED BY <2>1 DEF WriteInv
<1>10. CASE Flattened
  <2>1. /\ UNCHANGED <<todo, placed, written, converted, failures, call>> /\ pc = "begin"
        /\ call.op = "write" /\ todo = call.items /\ failures = {} /\ converted = <<>>
    BY <1>10 DEF Flattened, job, WriteInv
  <2>2. CASE pc' \in {"close", "done"} /\ error' = "collision"
    BY <2>1, <2>2, WriteLeaves, CallsAssumption DEF Raised
  <2>3. CASE Cardinality(ItemNames(call.items)) = Len(call.items) /\ pc' = "prepare"
    <3>1. call.items \in Seq(Items) /\ todo \in Seq(Items) /\ Len(todo) \in Nat
      BY <2>1, CallFacts, LenProperties DEF TypeInv, Control
    <3>2. NamesApart(todo)
      BY <2>1, <2>3, <3>1, NamesDiffer
    <3>3. ItemNames(<<>>) = {} /\ Len(<<>>) = 0 /\ NamesApart(<<>>)
      BY DEF ItemNames, NamesApart
    <3>4. Account({}, 0, todo, {}, call)
      BY <2>1, <3>1, <3>2, FS_EmptySet DEF Account
    <3> QED BY <2>1, <2>3, <3>3, <3>4 DEF WriteInv
  <2> QED BY <1>10, <2>2, <2>3 DEF Flattened, Leave
<1>11. CASE PrepareOne
  <2>1. /\ UNCHANGED <<placed, written, call>> /\ pc = "prepare" /\ todo # <<>> /\ call.op = "write"
        /\ Head(todo).name \in Names
    BY <1>11, HeadItem DEF PrepareOne, TypeInv, Control
  <2> DEFINE n == Head(todo).name
             done == ItemNames(converted)
  <2>2. /\ todo \in Seq(Items) /\ converted \in Seq(Items) /\ Head(todo) \in Items
        /\ Len(converted) \in Nat
    BY <2>1, HeadItem, LenProperties DEF TypeInv, Lists
  <2>3. /\ Account(done, Len(converted), todo, failures, call) /\ NamesApart(converted)
        /\ done \cap failures = {} /\ written = <<>> /\ placed = {}
    BY <2>1 DEF WriteInv
  <2>4. n \notin done \cup failures
    BY <2>1, <2>2, <2>3, TailFacts DEF Account
  <2>5. CASE UNCHANGED <<todo, failures, converted>> /\ pc' \in {"close", "done"} /\ error' = "conversion"
    BY <2>1, <2>5, WriteLeaves, CallsAssumption DEF Raised
  <2>6. CASE /\ converted' = Append(converted, Head(todo)) /\ todo' = Tail(todo)
             /\ UNCHANGED <<pc, failures>>
    <3>1. /\ ItemNames(converted') = done \cup {n} /\ Len(converted') = Len(converted) + 1
          /\ NamesApart(converted')
      BY <2>2, <2>3, <2>4, <2>6, AppendFacts
    <3>2. Account(done \cup {n}, Len(converted) + 1, Tail(todo), failures, call)
      BY <2>1, <2>2, <2>3, AccountDone
    <3> QED BY <2>1, <2>3, <2>4, <2>6, <3>1, <3>2 DEF WriteInv
  <2>7. CASE /\ call.report /\ failures' = failures \cup {n} /\ todo' = Tail(todo)
             /\ UNCHANGED <<pc, converted>>
    <3>1. Account(done, Len(converted), Tail(todo), failures \cup {n}, call)
      BY <2>1, <2>2, <2>3, <2>7, AccountFails
    <3>2. ItemNames(converted)' = done /\ NamesApart(converted)' /\ Len(converted)' = Len(converted)
      BY <2>3, <2>7 DEF ItemNames, NamesApart
    <3> QED BY <2>1, <2>3, <2>4, <2>7, <3>1, <3>2 DEF WriteInv
  <2> QED BY <1>11, <2>5, <2>6, <2>7 DEF PrepareOne, Leave
<1>12. CASE Prepared
  <2>1. /\ UNCHANGED <<placed, written, failures, call>> /\ pc = "prepare" /\ call.op = "write"
        /\ todo = <<>> /\ todo' = converted /\ pc' \in {"done", "open"}
    BY <1>12 DEF Prepared, TypeInv, Control
  <2>2. /\ Account(ItemNames(converted), Len(converted), <<>>, failures, call)
        /\ NamesApart(converted) /\ ItemNames(converted) \cap failures = {}
        /\ written = <<>> /\ placed = {}
    BY <2>1 DEF WriteInv
  <2>3. ToSet(<<>>) = {} /\ ItemNames(<<>>) = {} /\ Len(<<>>) = 0
    BY DEF ToSet, ItemNames
  <2>4. /\ Len(converted) \in Nat /\ IsFiniteSet(failures) /\ Cardinality(failures) \in Nat
    BY <2>1, <2>2, FS_CardinalityType, LenProperties DEF TypeInv, Lists, Account
  <2>5. Account({}, 0, converted, failures, call)
    BY <2>2, <2>3, <2>4 DEF Account
  <2> QED BY <2>1, <2>2, <2>3, <2>5 DEF WriteInv, WriteCount
<1>13. CASE BeginWrite
  <2>1. UNCHANGED <<todo, placed, written, failures, call>> /\ pc = "open" /\ call.op = "write"
    BY <1>13 DEF BeginWrite, job, TypeInv, Control
  <2>2. CASE pc' = "write"
    BY <2>1, <2>2 DEF WriteInv, WriteCount
  <2>3. CASE pc' \in {"close", "done"} /\ error' = "status"
    BY <2>1, <2>3, WriteLeaves, CallsAssumption DEF Raised
  <2> QED BY <1>13, <2>2, <2>3 DEF BeginWrite, Open, Leave
<1>14. CASE WriteOne
  <2>1. /\ UNCHANGED <<placed, call>> /\ pc = "write" /\ todo # <<>> /\ call.op = "write"
        /\ todo \in Seq(Items) /\ written \in Seq(Names) /\ Head(todo).name \in Names
    BY <1>14, HeadItem DEF WriteOne, TypeInv, Lists, Control
  <2>2. CASE /\ written' = Append(written, Head(todo).name) /\ todo' = Tail(todo)
             /\ UNCHANGED <<pc, failures>>
    <3>1. /\ ToSet(written') = ToSet(written) \cup {Head(todo).name}
          /\ Len(written') = Len(written) + 1 /\ Len(written) \in Nat
      BY <2>1, <2>2, AppendFacts
    <3>2. WriteCount
      BY <2>1 DEF WriteInv
    <3>3. Account(ToSet(written) \cup {Head(todo).name}, Len(written) + 1, Tail(todo), failures, call)
      BY <2>1, <3>1, <3>2, AccountDone DEF WriteCount
    <3>4. WriteCount'
      BY <2>1, <2>2, <3>1, <3>3 DEF WriteCount
    <3> QED BY <2>1, <2>2, <3>4 DEF WriteInv
  <2>3. ASSUME NEW e, e # None, Contain(Head(todo).name, e), UNCHANGED written PROVE WriteInv'
    BY <2>1, <2>3, WriteContains
  <2> QED BY <1>14, <2>2, <2>3 DEF WriteOne
<1>15. CASE Post
  <2>1. UNCHANGED <<todo, placed, written, failures, call>> /\ pc' \in {"close", "done"}
        /\ pc = "write" /\ call.op = "write"
    BY <1>15 DEF Post, Leave, job, TypeInv, Control
  <2>2. WriteCount
    BY <2>1 DEF WriteInv
  <2> QED BY <2>1, <2>2, WriteLeaves
<1>16. CASE Close
  <2>1. UNCHANGED <<todo, placed, written, failures, call>> /\ pc' = "done" /\ pc = "close"
    BY <1>16 DEF Close, job
  <2>2. CASE error' = "close"
    BY <2>1, <2>2, WriteLeaves, CallsAssumption DEF Raised
  <2>3. CASE UNCHANGED error /\ error # None
    BY <2>1, <2>3, WriteLeaves
  <2>4. CASE UNCHANGED error /\ error = None /\ call.op = "write"
    BY <2>1, <2>4, WriteLeaves DEF WriteInv
  <2>5. CASE call.op # "write"
    BY <2>1, <2>5 DEF WriteInv
  <2> QED BY <1>16, <2>2, <2>3, <2>4, <2>5 DEF Close
<1>17. CASE Interrupt
  <2>1. UNCHANGED <<todo, placed, written, failures, call>> /\ pc' \in {"close", "done"}
        /\ error' \in Raised
    BY <1>17 DEF Interrupt, Leave, job, Raised
  <2> QED BY <2>1, WriteLeaves, CallsAssumption
<1>18. ASSUME NEW n \in Names, Other(n) PROVE WriteInv'
  BY <1>18, WriteSame DEF Other, job
<1>19. CASE UNCHANGED vars
  BY <1>19, WriteSame DEF vars, job
<1> QED BY <1>1, <1>2, <1>3, <1>4, <1>5, <1>6, <1>7, <1>8, <1>9, <1>10, <1>11, <1>12, <1>13, <1>14, <1>15, <1>16, <1>17, <1>18, <1>19 DEF Next, Step, Done

-----------------------------------------------------------------------------
(* What is in the database *)

LEMMA StoreInit == Init => StoreInv
<1> SUFFICES ASSUME Init PROVE StoreInv
  OBVIOUS
<1>1. stored = original /\ posted = original /\ pc = "begin" /\ error = None
  BY DEF Init
<1> QED BY <1>1, CallsAssumption DEF StoreInv, Raised

\* Nothing is written while the items are checked and converted.
LEMMA StoreKept ==
  ASSUME TypeInv, StoreInv, UNCHANGED <<stored, posted, original, call, changes>>,
         call.op = "write", pc \in {"begin", "prepare"}, pc' \in {"prepare", "open", "done"},
         error' # None => pc' = "done"
  PROVE  StoreInv'
<1>1. error' \in {"conversion", "collision"} => pc' = "done"
  BY CallsAssumption DEF Raised
<1> QED BY <1>1 DEF StoreInv

LEMMA StoreStep ==
  ASSUME TypeInv, WriteInv, StoreInv, [Next]_vars
  PROVE  StoreInv'
<1>1. CASE BeginRead
  <2>1. call'.op # "write"
    BY <1>1 DEF BeginRead, TypeInv, Control, job
  <2> QED BY <2>1 DEF StoreInv
<1>2. CASE ResolveOne
  <2>1. call'.op # "write"
    BY <1>2 DEF ResolveOne, TypeInv, Control, job
  <2> QED BY <2>1 DEF StoreInv
<1>3. CASE ResolveFails
  <2>1. call'.op # "write"
    BY <1>3 DEF ResolveFails, TypeInv, Control, job
  <2> QED BY <2>1 DEF StoreInv
<1>4. CASE Destinations
  <2>1. call'.op # "write"
    BY <1>4 DEF Destinations, TypeInv, Control, job
  <2> QED BY <2>1 DEF StoreInv
<1>5. CASE DoRead
  <2>1. call'.op # "write"
    BY <1>5 DEF DoRead, TypeInv, Control, job
  <2> QED BY <2>1 DEF StoreInv
<1>6. CASE DoReadFails
  <2>1. call'.op # "write"
    BY <1>6 DEF DoReadFails, TypeInv, Control, job
  <2> QED BY <2>1 DEF StoreInv
<1>7. CASE Convert
  <2>1. call'.op # "write"
    BY <1>7 DEF Convert, TypeInv, Control, job
  <2> QED BY <2>1 DEF StoreInv
<1>8. CASE CalendarFails
  <2>1. call'.op # "write"
    BY <1>8 DEF CalendarFails, TypeInv, Control, job
  <2> QED BY <2>1 DEF StoreInv
<1>9. CASE ReadEnds
  <2>1. call'.op # "write"
    BY <1>9 DEF ReadEnds, TypeInv, Control, job
  <2> QED BY <2>1 DEF StoreInv
<1>10. CASE Flattened
  <2>1. /\ UNCHANGED <<stored, posted, original, call, written, failures, changes>> /\ pc = "begin"
        /\ call.op = "write" /\ ~opened /\ pc' \in {"prepare", "done"}
        /\ (error' # None => pc' = "done")
    BY <1>10 DEF Flattened, Leave, job, TypeInv, Control
  <2> QED BY <2>1, StoreKept
<1>11. CASE PrepareOne
  <2>1. /\ UNCHANGED <<stored, posted, original, call, written, changes>> /\ pc = "prepare"
        /\ call.op = "write" /\ ~opened /\ pc' \in {"prepare", "done"}
        /\ (error' # None => pc' = "done")
    BY <1>11 DEF PrepareOne, Leave, TypeInv, Control
  <2> QED BY <2>1, StoreKept
<1>12. CASE Prepared
  <2>1. /\ UNCHANGED <<stored, posted, original, call, written, changes>> /\ pc = "prepare"
        /\ call.op = "write" /\ pc' \in {"open", "done"} /\ error' = None
    BY <1>12 DEF Prepared, TypeInv, Control
  <2> QED BY <2>1, StoreKept
<1>13. CASE BeginWrite
  <2>1. /\ UNCHANGED <<original, call, written, failures, changes>> /\ pc = "open" /\ call.op = "write"
        /\ error = None /\ written = <<>>
    BY <1>13 DEF BeginWrite, job, TypeInv, Control, WriteInv
  <2>2. call.owned => stored = original /\ posted = original
    BY <2>1 DEF StoreInv
  <2>3. CASE error' = "status" /\ pc' \in {"close", "done"} /\ UNCHANGED <<stored, posted>>
    BY <2>1, <2>2, <2>3 DEF StoreInv, AtOpen
  <2>4. CASE ~call.owned /\ pc' = "write" /\ UNCHANGED error
    BY <2>1, <2>4, CallsAssumption DEF StoreInv, Raised
  <2>5. CASE /\ call.owned /\ pc' = "write" /\ posted' = stored' /\ UNCHANGED error
             /\ stored' = IF call.mode = "overwrite" THEN NoDatabase ELSE posted
    <3>1. posted' = AtOpen /\ stored' = AtOpen /\ AtOpen' = AtOpen
      BY <2>1, <2>2, <2>5 DEF AtOpen
    <3>2. ToSet(written') = {}
      BY <2>1 DEF ToSet
    <3>3. Differs(stored)'
      BY <3>1, <3>2 DEF Differs
    <3> QED BY <2>1, <2>5, <3>1, <3>3, CallsAssumption DEF StoreInv, Raised
  <2> QED BY <1>13, <2>3, <2>4, <2>5 DEF BeginWrite, Open, Leave
<1>14. CASE WriteOne
  <2> DEFINE n == Head(todo).name
  <2>1. /\ UNCHANGED <<posted, original, call, changes>> /\ pc = "write" /\ todo # <<>>
        /\ call.op = "write" /\ error = None
        /\ todo \in Seq(Items) /\ written \in Seq(Names) /\ n \in Names
        /\ WriteCount /\ IsDatabase(stored)
    BY <1>14, HeadItem DEF WriteOne, TypeInv, Stores, Lists, Control, WriteInv
  <2>2. n \notin ToSet(written)
    BY <2>1, TailFacts DEF WriteCount, Account
  <2>3. AtOpen' = AtOpen
    BY <2>1 DEF AtOpen
  <2>4. PICK o \in Outcomes(stored[n], Head(todo).object, call.replace, call.mode # "readonly") :
               /\ stored' = [stored EXCEPT ![n] = o.object]
               /\ \/ /\ o.error = None /\ written' = Append(written, n)
                     /\ UNCHANGED <<pc, failures, error>>
                  \/ o.error # None /\ Contain(n, o.error) /\ UNCHANGED written
    BY <1>14 DEF WriteOne
  <2>5. /\ o.error \in {None, "readonly", "status"}
        /\ o.error = None => o.object = Head(todo).object
    BY <2>1, HeadOutcome
  <2>6. stored'[n] = o.object /\ \A m \in Names : m # n => stored'[m] = stored[m]
    BY <2>1, <2>4 DEF IsDatabase
  <2>7. CASE o.error = None /\ written' = Append(written, n) /\ UNCHANGED <<pc, failures, error>>
    <3>1. ToSet(written') = ToSet(written) \cup {n}
      BY <2>1, <2>7, AppendFacts
    <3>2. \E i \in DOMAIN call.items : call.items[i].name = n /\ o.object = call.items[i].object
      BY <2>1, <2>5, <2>7, HeadItem DEF Items, ToSet
    <3>3. Differs(stored) => Differs(stored)'
      BY <2>1, <2>2, <2>3, <2>6, <2>7, <3>1, <3>2 DEF Differs
    <3> QED BY <2>1, <2>3, <2>7, <3>3, CallsAssumption DEF StoreInv, Raised
  <2>8. CASE o.error # None /\ Contain(n, o.error) /\ UNCHANGED written
    <3>1. CASE call.report
      <4>1. failures' = failures \cup {n} /\ pc' = "write" /\ UNCHANGED error
        BY <2>1, <2>8, <3>1 DEF Contain
      <4>2. Differs(stored) => Differs(stored)'
        BY <2>1, <2>2, <2>3, <2>6, <2>8, <4>1 DEF Differs
      <4> QED BY <2>1, <2>3, <4>1, <4>2, CallsAssumption DEF StoreInv, Raised
    <3>2. CASE ~call.report
      <4>1. pc' \in {"close", "done"} /\ error' \in {"readonly", "status"}
        BY <2>5, <2>8, <3>2 DEF Contain, Leave
      <4> QED BY <2>1, <2>3, <4>1 DEF StoreInv
    <3> QED BY <3>1, <3>2
  <2> QED BY <2>4, <2>7, <2>8
<1>15. CASE Post
  <2>1. /\ UNCHANGED <<stored, original, call, written, failures, changes>> /\ pc = "write"
        /\ call.op = "write" /\ pc' \in {"close", "done"} /\ error' \in {None, "status"}
    BY <1>15 DEF Post, Leave, job, TypeInv, Control
  <2>2. error' \notin {"conversion", "collision"}
    BY <2>1, CallsAssumption DEF Raised
  <2>3. CASE UNCHANGED posted
    BY <2>1, <2>2, <2>3 DEF StoreInv, AtOpen, Differs
  <2>4. CASE posted' = stored
    BY <2>1, <2>2, <2>4 DEF StoreInv, AtOpen, Differs
  <2> QED BY <1>15, <2>3, <2>4 DEF Post
<1>16. CASE Close
  <2>1. /\ UNCHANGED <<posted, original, call, written, failures, changes>> /\ pc = "close"
        /\ pc' = "done" /\ error' \in {error, "close"}
    BY <1>16 DEF Close, job
  <2> QED BY <2>1 DEF StoreInv, AtOpen, Differs
<1>17. CASE Interrupt
  <2>1. /\ UNCHANGED <<posted, original, call, written, failures, changes>>
        /\ pc' \in {"close", "done"} /\ error' = "interrupt"
    BY <1>17 DEF Interrupt, Leave, job
  <2>2. call.op = "write" /\ call.owned => posted \in {original, AtOpen} \/ Differs(posted)
    BY DEF StoreInv
  <2> QED BY <2>1, <2>2 DEF StoreInv, AtOpen, Differs
<1>18. ASSUME NEW n \in Names, Other(n) PROVE StoreInv'
  <2>1. /\ UNCHANGED <<call, pc, error>> /\ ~call.owned /\ pc # "done" /\ changes' = changes + 1
        /\ changes \in 0..MaxChanges /\ MaxChanges \in Nat
    BY <1>18, CallsAssumption DEF Other, TypeInv, Control
  <2>2. changes' # 0
    BY <2>1
  <2> QED BY <2>1, <2>2 DEF StoreInv
<1>19. CASE UNCHANGED vars
  BY <1>19 DEF vars, job, StoreInv, AtOpen, Differs
<1> QED BY <1>1, <1>2, <1>3, <1>4, <1>5, <1>6, <1>7, <1>8, <1>9, <1>10, <1>11, <1>12, <1>13, <1>14, <1>15, <1>16, <1>17, <1>18, <1>19 DEF Next, Step, Done

-----------------------------------------------------------------------------
(* The properties *)

\* Every step keeps the entries, and none comes to a value on the way to a key.
LEMMA KeptStep ==
  ASSUME TypeInv, ReadInv, [Next]_vars, error # "value"
  PROVE  placed \subseteq placed' /\ error' # "value"
<1>1. CASE Convert
  <2>1. pc = "convert" /\ call.op = "read"
    BY <1>1 DEF Convert, TypeInv, Control
  <2>2. ASSUME NEW raw, Place(Head(todo).name, raw)
        PROVE  placed \subseteq placed' /\ error' # "value"
    BY <2>1, <2>2, PlaceAdds
  <2>3. ASSUME Contain(Head(todo).name, "conversion"), UNCHANGED placed
        PROVE  placed \subseteq placed' /\ error' # "value"
    BY <2>3 DEF Contain, Leave
  <2> QED BY <1>1, <2>2, <2>3 DEF Convert
<1>2. CASE WriteOne
  <2>1. todo # <<>> /\ call.op = "write" /\ UNCHANGED placed
    BY <1>2 DEF WriteOne, TypeInv, Control
  <2>2. PICK o \in Outcomes(stored[Head(todo).name], Head(todo).object, call.replace,
                            call.mode # "readonly") :
               UNCHANGED error \/ Contain(Head(todo).name, o.error)
    BY <1>2 DEF WriteOne
  <2>3. o.error \in {None, "readonly", "status"}
    BY <2>1, HeadOutcome
  <2> QED BY <2>1, <2>2, <2>3, CallsAssumption DEF Contain, Leave, Raised
<1>3. ASSUME \/ BeginRead \/ ResolveOne \/ ResolveFails \/ Destinations \/ DoRead \/ DoReadFails
             \/ CalendarFails \/ ReadEnds \/ Flattened \/ PrepareOne \/ Prepared \/ BeginWrite
             \/ Post \/ Close \/ Interrupt
      PROVE  placed \subseteq placed' /\ error' # "value"
  <2>1. UNCHANGED placed
    BY <1>3 DEF BeginRead, ResolveOne, ResolveFails, Destinations, DoRead, DoReadFails,
         CalendarFails, ReadEnds, Flattened, PrepareOne, Prepared, BeginWrite, Post, Close,
         Interrupt, job
  <2>2. error' \in {error, None, "status", "collision", "object", "calendar", "conversion",
                    "close", "interrupt"}
    BY <1>3 DEF BeginRead, ResolveOne, ResolveFails, Destinations, DoRead, DoReadFails,
         CalendarFails, ReadEnds, Flattened, PrepareOne, Prepared, BeginWrite, Post, Close,
         Interrupt, Open, Contain, Leave
  <2> QED BY <2>1, <2>2, CallsAssumption DEF Raised
<1>4. ASSUME UNCHANGED vars \/ \E n \in Names : Other(n)
      PROVE  placed \subseteq placed' /\ error' # "value"
  BY <1>4 DEF Other, vars, job
<1> QED BY <1>1, <1>2, <1>3, <1>4 DEF Next, Step, Done

\* What was read and placed in a workspace stays there, and `_place` never takes a value
\* for a workspace: the check of resolve_names over all keys is enough for that.
THEOREM EntriesKeptAlways == Spec => EntriesKept
<1> DEFINE Walks == error # "value"
<1>1. Init => Walks
  BY CallsAssumption DEF Init, Raised
<1>2. TypeInv /\ ReadInv /\ Walks /\ [Next]_vars => Walks'
  BY KeptStep
<1>3. TypeInv /\ ReadInv /\ Walks /\ [Next]_vars
        => [placed \subseteq placed' /\ error' # "value"]_vars
  BY KeptStep
<1>4. TypeInv /\ ReadInv /\ [Next]_vars => ReadInv'
  BY ReadStep
<1> QED BY <1>1, <1>2, <1>3, <1>4, TypeInit, TypeStep, ReadInit, PTL DEF Spec, EntriesKept

\* What readfame returns is what its listing said: class, type and frequency, and
\* the range unless the series was empty then, whatever other threads do.
THEOREM ReadAsListedAlways == Spec => []ReadAsListed
<1>1. TypeInv /\ ReadInv /\ WriteInv => ReadAsListed
  <2> SUFFICES ASSUME TypeInv, ReadInv, WriteInv, NEW e \in placed
               PROVE  \E i \in DOMAIN resolved :
                        /\ resolved[i].name = e.name
                        /\ resolved[i].object.meta = e.object.meta
                        /\ resolved[i].object.range \in {Empty, e.object.range}
    BY DEF ReadAsListed
  <2>1. call.op = "read"
    BY CallFacts DEF WriteInv, TypeInv, Control
  <2> QED BY <2>1 DEF ReadInv, AsListed
<1>2. TypeInv /\ ReadInv /\ [Next]_vars => ReadInv'
  BY ReadStep
<1>3. TypeInv /\ WriteInv /\ [Next]_vars => WriteInv'
  BY WriteStep
<1> QED BY <1>1, <1>2, <1>3, TypeInit, TypeStep, ReadInit, WriteInit, PTL DEF Spec

\* Nothing is dropped silently: until a call raises, every object found and every
\* item given is in exactly one of the result, the failures and what is left
\* (the loops of readfame, writefame and their reports).
THEOREM AccountedAlways == Spec => []Accounted
<1>1. TypeInv /\ ReadInv /\ WriteInv => Accounted
  <2> SUFFICES ASSUME TypeInv, ReadInv, WriteInv, error = None,
                      pc \in {"read", "convert", "write", "close", "done"}
               PROVE  /\ failures # {} => call.report
                      /\ IF call.op = "read"
                           THEN /\ PlacedNames \cup failures \cup ItemNames(todo) = ResolvedNames
                                /\ Cardinality(placed) + Cardinality(failures) + Len(todo)
                                     = Len(resolved)
                           ELSE /\ ToSet(written) \cup failures \cup ItemNames(todo)
                                     = ItemNames(call.items)
                                /\ Len(written) + Cardinality(failures) + Len(todo)
                                     = Len(call.items)
    BY DEF Accounted, PlacedNames
  <2>1. CASE call.op = "read"
    <3>1. ReadCount
      BY <2>1 DEF ReadInv, TypeInv, Control
    <3> QED BY <2>1, <3>1 DEF ReadCount
  <2>2. CASE call.op = "write"
    <3>1. WriteCount
      BY <2>2 DEF WriteInv, TypeInv, Control
    <3> QED BY <2>2, <3>1 DEF WriteCount, Account
  <2> QED BY <2>1, <2>2, CallFacts DEF TypeInv, Control
<1>2. TypeInv /\ ReadInv /\ [Next]_vars => ReadInv'
  BY ReadStep
<1>3. TypeInv /\ WriteInv /\ [Next]_vars => WriteInv'
  BY WriteStep
<1> QED BY <1>1, <1>2, <1>3, TypeInit, TypeStep, ReadInit, WriteInit, PTL DEF Spec

\* A write to a path leaves for later opens what it started from, or every name
\* it wrote with its new object and no other difference it does not report
\* (writefame posts once, at the end, and only when something was written).
THEOREM PostedWholeOrReportedAlways == Spec => []PostedWholeOrReported
<1>1. StoreInv => PostedWholeOrReported
  BY DEF StoreInv, PostedWholeOrReported, AtOpen, Differs
<1>2. TypeInv /\ WriteInv /\ [Next]_vars => WriteInv'
  BY WriteStep
<1>3. TypeInv /\ WriteInv /\ StoreInv /\ [Next]_vars => StoreInv'
  BY StoreStep
<1> QED BY <1>1, <1>2, <1>3, TypeInit, TypeStep, WriteInit, StoreInit, PTL DEF Spec

\* A write that refuses its input has touched nothing: names and values are
\* checked before the destination is opened (writefame, writefame_report).
THEOREM RefusedUntouchedAlways == Spec => []RefusedUntouched
<1>1. StoreInv => RefusedUntouched
  BY DEF StoreInv, RefusedUntouched
<1>2. TypeInv /\ WriteInv /\ [Next]_vars => WriteInv'
  BY WriteStep
<1>3. TypeInv /\ WriteInv /\ StoreInv /\ [Next]_vars => StoreInv'
  BY StoreStep
<1> QED BY <1>1, <1>2, <1>3, TypeInit, TypeStep, WriteInit, StoreInit, PTL DEF Spec

=============================================================================
