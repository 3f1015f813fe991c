--------------------------- MODULE IncludeProofs ---------------------------
(***************************************************************************)
(* The expansion of INPUT statements stays within its limits at every      *)
(* step, for all texts, files and limits.                                  *)
(*                                                                         *)
(* The bytes that are in place and those that the calls of _expand still   *)
(* owe are the bytes of the command and of what was read, and what was     *)
(* read is what was counted.  Sums of bytes are recursive functions; what  *)
(* is needed of them is shown by least counterexample (Successors).        *)
(***************************************************************************)
EXTENDS Include, SequenceTheorems, WellFoundedInduction, TLAPS

LEMMA Least ==
  ASSUME NEW T, T \subseteq Nat, T # {}
  PROVE  \E m \in T : \A n \in T : m <= n
<1>1. PICK m \in T : \A n \in T : <<n, m>> \notin OpToRel(<, Nat)
  BY NatLessThanWellFounded, WFMin
<1>2. ASSUME NEW n \in T, n < m PROVE FALSE
  <2>1. <<n, m>> \in OpToRel(<, Nat)
    BY <1>2 DEF OpToRel
  <2> QED BY <1>1, <2>1
<1> QED BY <1>2

\* A set of numbers with 0 and the successor of each of its members has them all.
LEMMA Successors ==
  ASSUME NEW T, 0 \in T, \A n \in Nat : n \in T => n + 1 \in T
  PROVE  Nat \subseteq T
<1> SUFFICES ASSUME Nat \ T # {} PROVE FALSE
  OBVIOUS
<1>1. PICK m \in Nat \ T : \A n \in Nat \ T : m <= n
  BY Least
<1>2. m - 1 \in Nat /\ m - 1 \in T
  BY <1>1
<1> QED BY <1>1, <1>2

-----------------------------------------------------------------------------
(* Sums *)

\* The recursion has a solution, so that Total is what its equation says.
LEMMA TotalStep ==
  ASSUME NEW s
  PROVE  /\ Total(s, 0) = 0
         /\ \A n \in Nat : Total(s, n + 1) = Total(s, n) + s[n + 1]
<1> DEFINE Prefix(g, n) == g = [k \in 0..n |-> IF k = 0 THEN 0 ELSE g[k - 1] + s[k]]
           Known == {n \in Nat : \E g : Prefix(g, n)}
<1>1. 0 \in Known
  <2>1. Prefix([k \in 0..0 |-> 0], 0)
    OBVIOUS
  <2> QED BY <2>1
<1>2. ASSUME NEW n \in Nat, n \in Known PROVE n + 1 \in Known
  <2>1. PICK g : Prefix(g, n)
    BY <1>2
  <2> DEFINE h == [k \in 0..(n + 1) |-> IF k <= n THEN g[k] ELSE g[n] + s[k]]
  <2>2. \A k \in 0..n : g[k] = IF k = 0 THEN 0 ELSE g[k - 1] + s[k]
    BY <2>1
  <2>3. h[0] = 0 /\ \A k \in 0..(n + 1) : k # 0 => h[k] = h[k - 1] + s[k]
    BY <2>2
  <2>4. \A k \in 0..(n + 1) : h[k] = IF k = 0 THEN 0 ELSE h[k - 1] + s[k]
    BY <2>3
  <2>5. Prefix(h, n + 1)
    <3>1. h = [k \in 0..(n + 1) |-> h[k]]
      OBVIOUS
    <3> HIDE DEF h
    <3> QED BY <2>4, <3>1
  <2> HIDE DEF h, Prefix
  <2> QED BY <2>5
<1>3. \A n \in Nat : \E g : Prefix(g, n)
  BY <1>1, <1>2, Successors
<1> DEFINE Of(n) == CHOOSE g : Prefix(g, n)
           F == [n \in Nat |-> Of(n)[n]]
<1>4. ASSUME NEW n \in Nat, NEW k \in 0..n
      PROVE  Of(n)[k] = IF k = 0 THEN 0 ELSE Of(n)[k - 1] + s[k]
  <2>1. Prefix(Of(n), n)
    BY <1>3
  <2> HIDE DEF Of
  <2> QED BY <2>1
<1> HIDE DEF Of
<1>5. ASSUME NEW n \in Nat PROVE \A k \in 0..n : Of(n)[k] = Of(k)[k]
  <2> DEFINE T == {k \in Nat : k <= n => \A m \in Nat : k <= m => Of(m)[k] = Of(n)[k]}
  <2>1. 0 \in T
    BY <1>4
  <2>2. ASSUME NEW k \in Nat, k \in T PROVE k + 1 \in T
    <3> SUFFICES ASSUME k + 1 <= n, NEW m \in Nat, k + 1 <= m PROVE Of(m)[k + 1] = Of(n)[k + 1]
      OBVIOUS
    <3>1. Of(m)[k] = Of(n)[k]
      BY <2>2
    <3>2. Of(m)[k + 1] = Of(m)[k] + s[k + 1] /\ Of(n)[k + 1] = Of(n)[k] + s[k + 1]
      BY <1>4
    <3> QED BY <3>1, <3>2
  <2>3. \A k \in Nat : k \in T
    BY <2>1, <2>2, Successors
  <2> QED BY <2>3
<1>6. \A n \in Nat : F[n] = IF n = 0 THEN 0 ELSE F[n - 1] + s[n]
  <2> TAKE n \in Nat
  <2>1. n # 0 => n - 1 \in Nat /\ n - 1 \in 0..n
    OBVIOUS
  <2>2. n # 0 => Of(n)[n - 1] = Of(n - 1)[n - 1]
    BY <1>5, <2>1
  <2> QED BY <1>4, <2>1, <2>2
<1> DEFINE Solves(g) == g = [n \in Nat |-> IF n = 0 THEN 0 ELSE g[n - 1] + s[n]]
           Sum == CHOOSE g : Solves(g)
<1>7. Solves(F)
  BY <1>6
<1>8. Solves(Sum)
  BY <1>7
<1>9. \A n : Total(s, n) = Sum[n]
  BY DEF Total
<1> HIDE DEF Sum
<1>10. \A n \in Nat : Sum[n] = IF n = 0 THEN 0 ELSE Sum[n - 1] + s[n]
  BY <1>8
<1> HIDE DEF Solves
<1>11. \A n \in Nat : n + 1 \in Nat /\ n + 1 # 0 /\ (n + 1) - 1 = n
  OBVIOUS
<1>12. \A n \in Nat : Sum[n + 1] = Sum[n] + s[n + 1]
  BY <1>10, <1>11
<1> QED BY <1>9, <1>10, <1>12

\* Sums of numbers grow.
LEMMA TotalGrows ==
  ASSUME NEW n \in Nat, NEW s, \A k \in 1..n : s[k] \in Nat
  PROVE  /\ Total(s, n) \in Nat
         /\ \A m \in 0..n : Total(s, m) \in Nat /\ Total(s, m) <= Total(s, n)
<1> DEFINE T == {k \in Nat : k <= n =>
                   Total(s, k) \in Nat /\ \A m \in 0..k : Total(s, m) \in Nat /\ Total(s, m) <= Total(s, k)}
<1>1. 0 \in T
  <2>1. Total(s, 0) = 0 /\ \A m \in 0..0 : m = 0
    BY TotalStep
  <2> QED BY <2>1
<1>2. ASSUME NEW k \in Nat, k \in T PROVE k + 1 \in T
  <2> SUFFICES ASSUME k + 1 <= n
               PROVE  /\ Total(s, k + 1) \in Nat
                      /\ \A m \in 0..(k + 1) : Total(s, m) \in Nat /\ Total(s, m) <= Total(s, k + 1)
    OBVIOUS
  <2>1. /\ Total(s, k) \in Nat
        /\ \A m \in 0..k : Total(s, m) \in Nat /\ Total(s, m) <= Total(s, k)
    BY <1>2
  <2>2. Total(s, k + 1) = Total(s, k) + s[k + 1] /\ s[k + 1] \in Nat
    BY TotalStep
  <2>3. \A m \in 0..(k + 1) : m \in 0..k \/ m = k + 1
    OBVIOUS
  <2> QED BY <2>1, <2>2, <2>3
<1>3. \A k \in Nat : k \in T
  <2> HIDE DEF T
  <2> QED BY <1>1, <1>2, Successors
<1>4. n <= n
  OBVIOUS
<1> QED BY <1>3, <1>4

\* A sum depends on what is summed only.
LEMMA TotalSame ==
  ASSUME NEW n \in Nat, NEW s, NEW t, \A k \in 1..n : s[k] = t[k]
  PROVE  Total(s, n) = Total(t, n)
<1> DEFINE T == {k \in Nat : k <= n => Total(s, k) = Total(t, k)}
<1>1. 0 \in T
  BY TotalStep
<1>2. ASSUME NEW k \in Nat, k \in T PROVE k + 1 \in T
  <2> SUFFICES ASSUME k + 1 <= n PROVE Total(s, k + 1) = Total(t, k + 1)
    OBVIOUS
  <2>1. Total(s, k) = Total(t, k) /\ s[k + 1] = t[k + 1]
    BY <1>2
  <2> QED BY <2>1, TotalStep
<1>3. \A k \in Nat : k \in T
  <2> HIDE DEF T
  <2> QED BY <1>1, <1>2, Successors
<1> QED BY <1>3

-----------------------------------------------------------------------------
(* Texts and frames *)

Statements == [kind : {"text"}, bytes : Nat, file : {""}]
              \cup [kind : {"input", "computed"}, bytes : {0}, file : STRING]
Texts == Seq(Statements)
Sizes(text) == [i \in DOMAIN text |-> text[i].bytes]

LEMMA BytesAreNumbers == \A x \in Statements : x.bytes \in Nat
<1> SUFFICES ASSUME NEW x \in Statements PROVE x.bytes \in Nat
  OBVIOUS
<1>1. CASE x \in [kind : {"text"}, bytes : Nat, file : {""}]
  BY <1>1
<1>2. CASE x \in [kind : {"input", "computed"}, bytes : {0}, file : STRING]
  BY <1>2
<1> QED BY <1>1, <1>2 DEF Statements

LEMMA SizeFacts ==
  ASSUME NEW text \in Texts
  PROVE  /\ Size(text) = Total(Sizes(text), Len(text)) /\ Size(text) \in Nat
         /\ Len(text) \in Nat /\ DOMAIN text = 1..Len(text)
         /\ \A i \in 1..Len(text) : Sizes(text)[i] = text[i].bytes /\ text[i].bytes \in Nat
                                    /\ text[i] \in Statements
         /\ \A n \in 0..Len(text) : /\ Total(Sizes(text), n) \in Nat
                                    /\ Total(Sizes(text), n) <= Size(text)
<1>1. /\ Len(text) \in Nat /\ DOMAIN text = 1..Len(text)
      /\ \A i \in 1..Len(text) : text[i] \in Statements
  BY DEF Texts
<1>2. \A i \in 1..Len(text) : Sizes(text)[i] = text[i].bytes /\ text[i].bytes \in Nat
  BY <1>1, BytesAreNumbers DEF Sizes
<1>3. Size(text) = Total(Sizes(text), Len(text))
  BY DEF Size, Sizes
<1>4. \A i \in 1..Len(text) : Sizes(text)[i] \in Nat
  BY <1>2
<1> QED BY <1>1, <1>2, <1>3, <1>4, TotalGrows

LEMMA SizeOfMore ==
  ASSUME NEW text \in Texts, NEW statement \in Statements
  PROVE  /\ Append(text, statement) \in Texts
         /\ Size(Append(text, statement)) = Size(text) + statement.bytes
<1> DEFINE more == Append(text, statement)
           n == Len(text)
<1>1. /\ more \in Texts /\ Len(more) = n + 1 /\ n \in Nat
      /\ \A i \in 1..n : more[i] = text[i]
      /\ more[n + 1] = statement
  BY DEF Texts
<1> HIDE DEF more
<1>2. Size(more) = Total(Sizes(more), n + 1)
  BY <1>1, SizeFacts
<1>3. ASSUME NEW i \in 1..n PROVE Sizes(more)[i] = Sizes(text)[i]
  <2>1. i \in 1..Len(more) /\ more[i] = text[i]
    BY <1>1
  <2>2. Sizes(more)[i] = more[i].bytes
    BY <1>1, <2>1, SizeFacts
  <2>3. Sizes(text)[i] = text[i].bytes
    BY SizeFacts
  <2> QED BY <2>1, <2>2, <2>3
<1>4. Total(Sizes(more), n) = Total(Sizes(text), n)
  BY <1>1, <1>3, TotalSame
<1>5. Sizes(more)[n + 1] = statement.bytes
  <2>1. n + 1 \in 1..Len(more)
    BY <1>1
  <2>2. Sizes(more)[n + 1] = more[n + 1].bytes
    BY <1>1, <2>1, SizeFacts
  <2> QED BY <1>1, <2>2
<1>6. Total(Sizes(more), n + 1) = Total(Sizes(more), n) + Sizes(more)[n + 1]
  BY <1>1, TotalStep
<1> QED BY <1>1, <1>2, <1>4, <1>5, <1>6, SizeFacts DEF more

Files == STRING \cup {None}
Frames == {f \in [file : Files, text : Texts, done : Nat] : f.done <= Len(f.text)}

\* What a call has still to put in place.
Owes(f) == Size(f.text) - Total(Sizes(f.text), f.done)
Debts(frames) == [i \in DOMAIN frames |-> Owes(frames[i])]
Owed(frames) == Total(Debts(frames), Len(frames))

LEMMA OwesFacts ==
  ASSUME NEW f \in Frames
  PROVE  /\ Owes(f) \in Nat
         /\ f.done = Len(f.text) => Owes(f) = 0
         /\ f.done = 0 => Owes(f) = Size(f.text)
         /\ f.done < Len(f.text) =>
              LET g == [f EXCEPT !.done = @ + 1]
              IN  g \in Frames /\ g.file = f.file /\ Owes(f) = Owes(g) + f.text[f.done + 1].bytes
<1>1. f.text \in Texts /\ f.done \in 0..Len(f.text) /\ f.done \in Nat /\ Len(f.text) \in Nat
  BY SizeFacts DEF Frames
<1>2. Size(f.text) \in Nat /\ Total(Sizes(f.text), f.done) \in Nat
      /\ Total(Sizes(f.text), f.done) <= Size(f.text)
      /\ Size(f.text) = Total(Sizes(f.text), Len(f.text))
  BY <1>1, SizeFacts
<1>3. Total(Sizes(f.text), 0) = 0
  BY TotalStep
<1>4. ASSUME f.done < Len(f.text)
      PROVE  LET g == [f EXCEPT !.done = @ + 1]
             IN  g \in Frames /\ g.file = f.file /\ Owes(f) = Owes(g) + f.text[f.done + 1].bytes
  <2> DEFINE g == [f EXCEPT !.done = @ + 1]
  <2>1. g.file = f.file /\ g.text = f.text /\ g.done = f.done + 1
        /\ g \in [file : Files, text : Texts, done : Nat]
    BY DEF Frames
  <2>2. f.done + 1 \in 1..Len(f.text) /\ f.done + 1 \in 0..Len(f.text)
    BY <1>1, <1>4
  <2>3. Total(Sizes(f.text), f.done + 1) = Total(Sizes(f.text), f.done) + Sizes(f.text)[f.done + 1]
    BY <1>1, TotalStep
  <2>4. Sizes(f.text)[f.done + 1] = f.text[f.done + 1].bytes /\ f.text[f.done + 1].bytes \in Nat
    BY <1>1, <2>2, SizeFacts
  <2>5. Total(Sizes(f.text), f.done + 1) \in Nat
    BY <1>1, <2>2, SizeFacts
  <2> HIDE DEF g
  <2>6. g \in Frames
    BY <2>1, <2>2 DEF Frames
  <2>7. Owes(f) = Owes(g) + f.text[f.done + 1].bytes
    BY <1>2, <2>1, <2>3, <2>4, <2>5 DEF Owes
  <2> QED BY <2>1, <2>6, <2>7 DEF g
<1> QED BY <1>1, <1>2, <1>3, <1>4 DEF Owes

\* What all calls owe is a number, also when there is none.
LEMMA OwedNumber ==
  ASSUME NEW frames \in Seq(Frames)
  PROVE  Owed(frames) \in Nat
<1>1. Len(frames) \in Nat /\ DOMAIN frames = 1..Len(frames)
      /\ \A i \in 1..Len(frames) : frames[i] \in Frames
  OBVIOUS
<1>2. \A i \in 1..Len(frames) : Debts(frames)[i] \in Nat
  BY <1>1, OwesFacts DEF Debts
<1> QED BY <1>1, <1>2, TotalGrows DEF Owed

\* How the debt of all calls changes with the innermost one, when one is added, and
\* when the innermost has none and ends.
LEMMA OwedFacts ==
  ASSUME NEW frames \in Seq(Frames), frames # <<>>, NEW g \in Frames
  PROVE  LET n == Len(frames)
             passed == [frames EXCEPT ![n] = g]
         IN  /\ n \in Nat /\ n >= 1 /\ frames[n] \in Frames /\ Last(frames) = frames[n]
             /\ Owed(frames) \in Nat
             /\ passed \in Seq(Frames) /\ Len(passed) = n
             /\ \A i \in 1..n : passed[i] = IF i = n THEN g ELSE frames[i]
             /\ Owed(passed) + Owes(frames[n]) = Owed(frames) + Owes(g)
             /\ Append(frames, g) \in Seq(Frames) /\ Len(Append(frames, g)) = n + 1
             /\ \A i \in 1..(n + 1) : Append(frames, g)[i] = IF i = n + 1 THEN g ELSE frames[i]
             /\ Owed(Append(frames, g)) = Owed(frames) + Owes(g)
             /\ Front(frames) \in Seq(Frames) /\ Len(Front(frames)) = n - 1
             /\ \A i \in 1..(n - 1) : Front(frames)[i] = frames[i]
             /\ Owed(frames) = Owed(Front(frames)) + Owes(frames[n])
<1> DEFINE n == Len(frames)
           passed == [frames EXCEPT ![n] = g]
           more == Append(frames, g)
           less == Front(frames)
<1>1. /\ n \in Nat /\ n >= 1 /\ DOMAIN frames = 1..n /\ Last(frames) = frames[n]
      /\ \A i \in 1..n : frames[i] \in Frames
  <2>1. n \in Nat /\ n # 0 /\ DOMAIN frames = 1..n /\ \A i \in 1..n : frames[i] \in Frames
    BY EmptySeq
  <2> QED BY <2>1 DEF Last
<1>2. /\ passed \in Seq(Frames) /\ Len(passed) = n /\ DOMAIN passed = 1..n
      /\ \A i \in 1..n : passed[i] = IF i = n THEN g ELSE frames[i]
  BY <1>1
<1>3. /\ more \in Seq(Frames) /\ Len(more) = n + 1 /\ DOMAIN more = 1..(n + 1)
      /\ \A i \in 1..(n + 1) : more[i] = IF i = n + 1 THEN g ELSE frames[i]
  BY <1>1
<1>4. /\ less \in Seq(Frames) /\ Len(less) = n - 1 /\ DOMAIN less = 1..(n - 1)
      /\ \A i \in 1..(n - 1) : less[i] = frames[i]
  <2>1. less = [i \in 1..(n - 1) |-> frames[i]]
    BY <1>1 DEF Front
  <2> QED BY <1>1, <2>1
<1>5. \A f \in Frames : Owes(f) \in Nat
  BY OwesFacts
<1> HIDE DEF n, passed, more, less
<1>6. /\ \A i \in 1..n : Debts(frames)[i] = Owes(frames[i])
      /\ \A i \in 1..n : Debts(passed)[i] = Owes(passed[i])
      /\ \A i \in 1..(n + 1) : Debts(more)[i] = Owes(more[i])
      /\ \A i \in 1..(n - 1) : Debts(less)[i] = Owes(less[i])
  BY <1>1, <1>2, <1>3, <1>4 DEF Debts
<1>7. /\ Owed(frames) = Total(Debts(frames), n)
      /\ Owed(passed) = Total(Debts(passed), n)
      /\ Owed(more) = Total(Debts(more), n + 1)
      /\ Owed(less) = Total(Debts(less), n - 1)
  BY <1>2, <1>3, <1>4 DEF Owed, n
<1> DEFINE m == n - 1
<1>8. /\ m \in Nat /\ n = m + 1 /\ n \in 1..n /\ n + 1 \in 1..(n + 1)
      /\ \A i \in 1..m : i \in 1..n /\ i # n
      /\ \A i \in 1..n : i \in 1..(n + 1) /\ i # n + 1
  BY <1>1
<1>9. Total(Debts(frames), m) \in Nat /\ Owed(frames) \in Nat
  <2>1. \A i \in 1..n : Debts(frames)[i] \in Nat
    BY <1>1, <1>5, <1>6
  <2>2. m \in 0..n
    BY <1>8
  <2>3. Total(Debts(frames), n) \in Nat /\ Total(Debts(frames), m) \in Nat
    BY <1>1, <2>1, <2>2, TotalGrows
  <2> QED BY <1>7, <2>3
<1>10. Total(Debts(passed), m) = Total(Debts(frames), m)
  <2>1. ASSUME NEW i \in 1..m PROVE Debts(passed)[i] = Debts(frames)[i]
    <3>1. i \in 1..n /\ i # n
      BY <1>8
    <3>2. passed[i] = frames[i]
      BY <1>2, <3>1
    <3> QED BY <1>6, <3>1, <3>2
  <2> QED BY <1>8, <2>1, TotalSame
<1>11. Total(Debts(less), m) = Total(Debts(frames), m)
  <2>1. \A i \in 1..m : Debts(less)[i] = Debts(frames)[i]
    BY <1>4, <1>6, <1>8
  <2> QED BY <1>8, <2>1, TotalSame
<1>12. Total(Debts(more), n) = Total(Debts(frames), n)
  <2>1. \A i \in 1..n : Debts(more)[i] = Debts(frames)[i]
    BY <1>3, <1>6, <1>8
  <2> QED BY <1>1, <2>1, TotalSame
<1>13. /\ Total(Debts(frames), n) = Total(Debts(frames), m) + Owes(frames[n])
       /\ Total(Debts(passed), n) = Total(Debts(passed), m) + Owes(g)
       /\ Total(Debts(more), n + 1) = Total(Debts(more), n) + Owes(g)
  <2>1. \A s : Total(s, n) = Total(s, m) + s[n]
    BY <1>8, TotalStep
  <2>2. \A s : Total(s, n + 1) = Total(s, n) + s[n + 1]
    BY <1>1, TotalStep
  <2>3. Debts(frames)[n] = Owes(frames[n]) /\ Debts(passed)[n] = Owes(g) /\ Debts(more)[n + 1] = Owes(g)
    BY <1>2, <1>3, <1>6, <1>8
  <2> QED BY <2>1, <2>2, <2>3
<1>14. Owes(g) \in Nat /\ Owes(frames[n]) \in Nat
  BY <1>1, <1>5
<1>15. Owed(passed) + Owes(frames[n]) = Owed(frames) + Owes(g)
  BY <1>7, <1>9, <1>10, <1>13, <1>14
<1>16. Owed(more) = Owed(frames) + Owes(g) /\ Owed(frames) = Owed(less) + Owes(frames[n])
  BY <1>7, <1>11, <1>12, <1>13
<1> QED BY <1>1, <1>2, <1>3, <1>4, <1>8, <1>9, <1>15, <1>16 DEF n, passed, more, less

LEMMA OwedOfMore ==
  ASSUME NEW frames \in Seq(Frames), frames # <<>>, NEW g \in Frames, NEW n, n = Len(frames)
  PROVE  /\ Append(frames, g) \in Seq(Frames) /\ Len(Append(frames, g)) = n + 1
         /\ \A i \in 1..(n + 1) : Append(frames, g)[i] = IF i = n + 1 THEN g ELSE frames[i]
         /\ Owed(Append(frames, g)) = Owed(frames) + Owes(g)
<1>1. Append(frames, g) \in Seq(Frames) /\ Len(Append(frames, g)) = n + 1
  OBVIOUS
<1>2. \A i \in 1..(n + 1) : Append(frames, g)[i] = IF i = n + 1 THEN g ELSE frames[i]
  OBVIOUS
<1>3. Owed(Append(frames, g)) = Owed(frames) + Owes(g)
  BY OwedFacts
<1> QED BY <1>1, <1>2, <1>3

-----------------------------------------------------------------------------
(* The expansion *)

Honest == \A f \in DOMAIN input.files : input.files[f].size = Size(input.files[f].text)

\* The calls that are inside each other, and how many bytes went where.
Expansion ==
  /\ output = [frames |-> output.frames, out |-> output.out, total |-> output.total,
               read |-> output.read, error |-> output.error]
  /\ output.frames \in Seq(Frames) /\ output.out \in Texts
  /\ output.total \in Nat /\ output.read \in Nat
  /\ \A i, j \in 2..Len(output.frames) :
       i # j => output.frames[i].file # output.frames[j].file
  /\ Len(output.frames) <= input.limits.depth + 1
  /\ output.total <= input.limits.bytes
  /\ Honest => output.read = output.total
  /\ Size(output.out) + Owed(output.frames) = Size(input.text) + output.read

IncludeInv ==
  /\ \E i \in DOMAIN Inputs : input \in Inputs[i]
  /\ After("include") => Expansion

LEMMA InputFacts ==
  ASSUME IncludeInv, input.about = "include"
  PROVE  /\ input.text \in Texts /\ input.limits.depth \in Nat /\ input.limits.bytes \in Nat
         /\ \A f \in DOMAIN input.files :
              input.files[f].size \in Nat /\ input.files[f].text \in Texts
BY IncludeAssumption DEF IncludeInv, IsText, IsFile, Texts, Statements

\* What a step of a call meets.
LEMMA MeetsFacts ==
  ASSUME IncludeInv, NEW kinds, Meets(kinds)
  PROVE  LET n == Len(output.frames)
             top == output.frames[n]
             passed == [top EXCEPT !.done = @ + 1]
         IN  /\ input.about = "include" /\ Expansion /\ UNCHANGED input /\ output.frames # <<>>
             /\ Top = top /\ top \in Frames /\ n \in Nat /\ n >= 1
             /\ Statement \in Statements /\ Statement.kind \in kinds
             /\ Passed = [output.frames EXCEPT ![n] = passed]
             /\ passed \in Frames /\ passed.file = top.file
             /\ Owes(top) = Owes(passed) + Statement.bytes
<1> DEFINE frames == output.frames
           n == Len(frames)
           top == frames[n]
           passed == [top EXCEPT !.done = @ + 1]
<1>1. /\ input.about = "include" /\ Expansion /\ UNCHANGED input /\ frames # <<>>
      /\ Top.done < Len(Top.text) /\ Statement.kind \in kinds
  BY DEF IncludeInv, Meets, Expanding, After
<1>2. frames \in Seq(Frames)
  BY <1>1 DEF Expansion
<1>3. n \in Nat /\ n >= 1 /\ top \in Frames /\ Last(frames) = top
  <2>1. n \in Nat /\ n # 0 /\ \A i \in 1..n : frames[i] \in Frames
    BY <1>1, <1>2, EmptySeq
  <2> QED BY <2>1 DEF Last
<1>4. Top = top
  BY <1>3 DEF Top
<1>5. Statement = top.text[top.done + 1]
  BY <1>4 DEF Statement
<1>6. top.text \in Texts /\ top.done \in Nat /\ top.done < Len(top.text) /\ Len(top.text) \in Nat
  BY <1>1, <1>3, <1>4, SizeFacts DEF Frames
<1>7. Statement \in Statements
  <2>1. top.done + 1 \in 1..Len(top.text)
    BY <1>6
  <2> QED BY <1>5, <1>6, <2>1, SizeFacts
<1>8. passed \in Frames /\ passed.file = top.file /\ Owes(top) = Owes(passed) + Statement.bytes
  BY <1>3, <1>5, <1>6, OwesFacts
<1>9. Passed = [frames EXCEPT ![n] = passed]
  BY DEF Passed
<1> QED BY <1>1, <1>3, <1>4, <1>7, <1>8, <1>9

\* The innermost call with one statement more behind it, the others as they were.
LEMMA PassedFacts ==
  ASSUME IncludeInv, NEW kinds, Meets(kinds)
  PROVE  /\ Passed \in Seq(Frames) /\ Passed # <<>> /\ Len(Passed) = Len(output.frames)
         /\ \A i \in 1..Len(output.frames) : Passed[i].file = output.frames[i].file
         /\ Owed(Passed) \in Nat /\ Statement.bytes \in Nat
         /\ Owed(Passed) + Statement.bytes = Owed(output.frames)
<1> DEFINE frames == output.frames
           n == Len(frames)
           passed == [frames[n] EXCEPT !.done = @ + 1]
<1>1. /\ Expansion /\ frames # <<>> /\ n \in Nat /\ n >= 1 /\ Statement \in Statements
      /\ Passed = [frames EXCEPT ![n] = passed] /\ passed \in Frames /\ passed.file = frames[n].file
      /\ Owes(frames[n]) = Owes(passed) + Statement.bytes
  BY MeetsFacts
<1> HIDE DEF passed
<1>2. /\ Passed \in Seq(Frames) /\ Len(Passed) = n
      /\ \A i \in 1..n : Passed[i].file = frames[i].file
      /\ Owed(Passed) + Owes(frames[n]) = Owed(frames) + Owes(passed)
      /\ Owed(frames) \in Nat /\ frames[n] \in Frames
  BY <1>1, OwedFacts DEF Expansion
<1>3. Passed # <<>>
  BY <1>1, <1>2, EmptySeq
<1>4. Owed(Passed) \in Nat /\ Owes(passed) \in Nat /\ Owes(frames[n]) \in Nat
      /\ Statement.bytes \in Nat
  BY <1>1, <1>2, <1>3, OwedFacts, OwesFacts, BytesAreNumbers
<1>5. Owed(Passed) + Statement.bytes = Owed(frames)
  <2> DEFINE was == Owes(frames[n])
             is == Owes(passed)
             bytes == Statement.bytes
             before == Owed(frames)
             after == Owed(Passed)
  <2>1. was \in Nat /\ is \in Nat /\ bytes \in Nat /\ before \in Nat /\ after \in Nat
    BY <1>2, <1>4
  <2>2. after + was = before + is /\ was = is + bytes
    BY <1>1, <1>2
  <2> HIDE DEF was, is, bytes, before, after
  <2>3. after + bytes = before
    BY <2>1, <2>2
  <2> QED BY <2>3 DEF bytes, before, after
<1> QED BY <1>2, <1>3, <1>4, <1>5

LEMMA BeginStep ==
  ASSUME IncludeInv, Expands
  PROVE  IncludeInv'
<1> DEFINE first == Frame(None, input.text)
<1>1. input.about = "include" /\ UNCHANGED input /\ output' = Begun(input.text)
  BY DEF Expands, Call
<1>2. input.text \in Texts /\ input.limits.depth \in Nat /\ input.limits.bytes \in Nat
  BY <1>1, InputFacts
<1>3. output' = [frames |-> <<first>>, out |-> <<>>, total |-> 0, read |-> 0, error |-> "none"]
  BY <1>1 DEF Begun
<1>4. first \in Frames /\ Owes(first) = Size(input.text)
  <2>1. first.text = input.text /\ first.done = 0
    BY DEF Frame
  <2>2. first \in [file : Files, text : Texts, done : Nat]
    BY <1>2 DEF Frame, Files
  <2>3. 0 <= Len(input.text)
    BY <1>2, SizeFacts
  <2>4. first \in Frames
    BY <2>1, <2>2, <2>3 DEF Frames
  <2> QED BY <2>1, <2>4, OwesFacts
<1> HIDE DEF first
<1>5. Size(<<>>) = 0 /\ <<>> \in Texts
  <2>1. <<>> \in Texts /\ Len(<<>>) = 0
    BY DEF Texts
  <2> QED BY <2>1, TotalStep DEF Size
<1>6. Owed(<<first>>) = Owes(first)
  <2>1. Debts(<<first>>)[1] = Owes(first) /\ Len(<<first>>) = 1
    BY DEF Debts
  <2>2. Total(Debts(<<first>>), 0 + 1) = Total(Debts(<<first>>), 0) + Debts(<<first>>)[0 + 1]
        /\ Total(Debts(<<first>>), 0) = 0
    BY TotalStep
  <2>3. Owes(first) \in Nat
    BY <1>4, OwesFacts
  <2> QED BY <2>1, <2>2, <2>3 DEF Owed
<1>7. <<first>> \in Seq(Frames) /\ Len(<<first>>) = 1
  BY <1>4
<1>8. /\ output'.frames = <<first>> /\ output'.out = <<>> /\ output'.total = 0
      /\ output'.read = 0 /\ output'.error = "none"
  BY <1>3
<1>9. Size(input.text) \in Nat
  BY <1>2, SizeFacts
<1>10. Expansion'
  BY <1>1, <1>2, <1>3, <1>4, <1>5, <1>6, <1>7, <1>8, <1>9 DEF Expansion, Honest
<1> QED BY <1>1, <1>10 DEF IncludeInv

LEMMA CopyStep ==
  ASSUME IncludeInv, Copies
  PROVE  IncludeInv'
<1> DEFINE frames == output.frames
           out == Append(output.out, Statement)
<1>1. /\ input.about = "include" /\ Expansion /\ UNCHANGED input /\ Len(frames) \in Nat
      /\ Statement \in Statements
  BY MeetsFacts DEF Copies
<1>2. /\ Passed \in Seq(Frames) /\ Len(Passed) = Len(frames)
      /\ \A i \in 1..Len(frames) : Passed[i].file = frames[i].file
      /\ Owed(Passed) \in Nat /\ Statement.bytes \in Nat
      /\ Owed(Passed) + Statement.bytes = Owed(frames)
  BY PassedFacts DEF Copies
<1>3. /\ out \in Texts /\ Size(out) = Size(output.out) + Statement.bytes
      /\ Size(output.out) \in Nat
  BY <1>1, SizeOfMore, SizeFacts DEF Expansion
<1> HIDE DEF out
<1>4. /\ output' = [frames |-> Passed, out |-> out, total |-> output.total,
                    read |-> output.read, error |-> output.error]
      /\ output'.frames = Passed /\ output'.out = out
      /\ output'.total = output.total /\ output'.read = output.read /\ output'.error = output.error
  BY <1>1 DEF Copies, Expansion, out
<1>5. Size(out) + Owed(Passed) = Size(input.text) + output.read
  <2>1. Size(output.out) + Owed(frames) = Size(input.text) + output.read
    BY <1>1 DEF Expansion
  <2>2. Size(input.text) \in Nat /\ output.read \in Nat
    BY <1>1, InputFacts, SizeFacts DEF Expansion
  <2> DEFINE put == Size(output.out)
             begun == Size(input.text)
             bytes == Statement.bytes
             before == Owed(frames)
             after == Owed(Passed)
             read == output.read
  <2>3. /\ put \in Nat /\ begun \in Nat /\ bytes \in Nat /\ after \in Nat /\ read \in Nat
        /\ put + before = begun + read /\ after + bytes = before /\ Size(out) = put + bytes
    BY <1>2, <1>3, <2>1, <2>2
  <2> HIDE DEF put, begun, bytes, before, after, read
  <2>4. Size(out) + after = begun + read
    BY <2>3
  <2> QED BY <2>4 DEF begun, after, read
<1>6. \A i, j \in 2..Len(Passed) : i # j => Passed[i].file # Passed[j].file
  <2>1. \A i \in 2..Len(frames) : i \in 1..Len(frames)
    BY <1>1
  <2>2. \A i, j \in 2..Len(frames) : i # j => frames[i].file # frames[j].file
    BY <1>1 DEF Expansion
  <2> QED BY <1>2, <2>1, <2>2
<1>7. Expansion'
  BY <1>1, <1>2, <1>3, <1>4, <1>5, <1>6 DEF Expansion, Honest
<1> QED BY <1>1, <1>7 DEF IncludeInv

LEMMA RefuseStep ==
  ASSUME IncludeInv, Refuses
  PROVE  IncludeInv'
<1>1. input.about = "include" /\ Expansion /\ UNCHANGED input
  BY MeetsFacts DEF Refuses
<1>2. output' = [output EXCEPT !.error = Denied(Statement.file)]
  BY DEF Refuses
<1>3. /\ output'.frames = output.frames /\ output'.out = output.out
      /\ output'.total = output.total /\ output'.read = output.read
      /\ output' = [frames |-> output.frames, out |-> output.out, total |-> output.total,
                    read |-> output.read, error |-> Denied(Statement.file)]
      /\ output'.error = Denied(Statement.file)
  BY <1>1, <1>2 DEF Expansion
<1>4. Expansion'
  BY <1>1, <1>3 DEF Expansion, Honest
<1> QED BY <1>1, <1>4 DEF IncludeInv

LEMMA EnterStep ==
  ASSUME IncludeInv, Enters
  PROVE  IncludeInv'
<1> DEFINE frames == output.frames
           n == Len(frames)
           file == input.files[Statement.file]
           new == Frame(Statement.file, file.text)
           more == Append(Passed, new)
<1>1. /\ input.about = "include" /\ Expansion /\ UNCHANGED input /\ n \in Nat /\ n >= 1
      /\ Statement \in Statements /\ Statement.kind \in {"input", "computed"}
  BY MeetsFacts DEF Enters
<1>2. /\ Passed \in Seq(Frames) /\ Passed # <<>> /\ Len(Passed) = n
      /\ \A i \in 1..n : Passed[i].file = frames[i].file
      /\ Owed(Passed) \in Nat /\ Statement.bytes \in Nat
      /\ Owed(Passed) + Statement.bytes = Owed(frames)
  BY PassedFacts DEF Enters
<1>3. /\ Statement.file \in DOMAIN input.files /\ Statement.file \notin Stack
      /\ ~(n > input.limits.depth) /\ ~(output.total + file.size > input.limits.bytes)
  BY DEF Enters, Denied
<1>4. /\ input.text \in Texts /\ input.limits.depth \in Nat /\ input.limits.bytes \in Nat
      /\ file.size \in Nat /\ file.text \in Texts
  BY <1>1, <1>3, InputFacts
<1>5. Statement.bytes = 0 /\ Statement.file \in STRING
  BY <1>1 DEF Statements
<1>6. Size(file.text) \in Nat /\ Size(input.text) \in Nat /\ 0 <= Len(file.text)
  BY <1>4, SizeFacts
<1>7. new \in Frames /\ Owes(new) = Size(file.text) /\ new.file = Statement.file
  <2>1. /\ new.text = file.text /\ new.done = 0 /\ new.file = Statement.file
        /\ new \in [file : Files, text : Texts, done : Nat]
    BY <1>4, <1>5 DEF Frame, Files
  <2>2. new \in Frames
    BY <1>6, <2>1 DEF Frames
  <2> QED BY <2>1, <2>2, OwesFacts
<1>8. output' = [output EXCEPT !.frames = more, !.total = @ + file.size,
                               !.read = @ + Size(file.text)]
  BY DEF Enters
<1> HIDE DEF new
<1>9. /\ more \in Seq(Frames) /\ Len(more) = n + 1
      /\ \A i \in 1..(n + 1) : more[i] = IF i = n + 1 THEN new ELSE Passed[i]
      /\ Owed(more) = Owed(Passed) + Owes(new)
  BY <1>2, <1>7, OwedOfMore
<1> HIDE DEF more
<1>10. /\ output' = [frames |-> more, out |-> output.out, total |-> output.total + file.size,
                     read |-> output.read + Size(file.text), error |-> output.error]
       /\ output'.frames = more /\ output'.out = output.out
       /\ output'.total = output.total + file.size
       /\ output'.read = output.read + Size(file.text) /\ output'.error = output.error
  BY <1>1, <1>8 DEF Expansion
<1>11. \A i, j \in 2..Len(more) : i # j => more[i].file # more[j].file
  <2>1. \A i \in 2..n : more[i].file = frames[i].file /\ frames[i].file # Statement.file
    <3> SUFFICES ASSUME NEW i \in 2..n
                 PROVE  more[i].file = frames[i].file /\ frames[i].file # Statement.file
      OBVIOUS
    <3>1. i \in 1..n /\ i \in 1..(n + 1) /\ i # n + 1
      BY <1>1
    <3>2. frames[i].file \in Stack
      BY DEF Stack
    <3> QED BY <1>2, <1>3, <1>9, <3>1, <3>2
  <2>2. more[n + 1].file = Statement.file
    BY <1>1, <1>7, <1>9
  <2>3. \A i \in 2..Len(more) : i \in 2..n \/ i = n + 1
    BY <1>1, <1>9
  <2>4. \A i, j \in 2..n : i # j => frames[i].file # frames[j].file
    BY <1>1 DEF Expansion
  <2> QED BY <2>1, <2>2, <2>3, <2>4
<1>12. Len(more) <= input.limits.depth + 1
  BY <1>1, <1>3, <1>4, <1>9
<1>13. /\ output.total + file.size \in Nat /\ output.total + file.size <= input.limits.bytes
       /\ output.read + Size(file.text) \in Nat
  <2>1. output.total \in Nat /\ output.read \in Nat
    BY <1>1 DEF Expansion
  <2> DEFINE size == file.size
             body == Size(file.text)
             limit == input.limits.bytes
             total == output.total
             read == output.read
  <2>2. /\ size \in Nat /\ body \in Nat /\ limit \in Nat /\ total \in Nat /\ read \in Nat
        /\ ~(total + size > limit)
    BY <1>3, <1>4, <1>6, <2>1
  <2> HIDE DEF size, body, limit, total, read
  <2>3. total + size \in Nat /\ total + size <= limit /\ read + body \in Nat
    BY <2>2
  <2> QED BY <2>3 DEF size, body, limit, total, read
<1>14. Honest => output.read + Size(file.text) = output.total + file.size
  BY <1>1, <1>3 DEF Expansion, Honest
<1>15. Size(output.out) + Owed(more) = Size(input.text) + (output.read + Size(file.text))
  <2>1. /\ Size(output.out) + Owed(frames) = Size(input.text) + output.read
        /\ Size(output.out) \in Nat /\ output.read \in Nat
    BY <1>1, SizeFacts DEF Expansion
  <2>2. Owed(more) = Owed(frames) + Size(file.text) /\ Owed(frames) \in Nat
    BY <1>2, <1>5, <1>7, <1>9
  <2> DEFINE out == Size(output.out)
             begun == Size(input.text)
             body == Size(file.text)
             before == Owed(frames)
             after == Owed(more)
             read == output.read
  <2>3. /\ out \in Nat /\ begun \in Nat /\ body \in Nat /\ before \in Nat /\ read \in Nat
        /\ out + before = begun + read /\ after = before + body
    BY <1>6, <2>1, <2>2
  <2> HIDE DEF out, begun, body, before, after, read
  <2>4. out + after = begun + (read + body)
    BY <2>3
  <2> QED BY <2>4 DEF out, begun, body, after, read
<1> HIDE DEF file
<1>16. Expansion'
  BY <1>1, <1>9, <1>10, <1>11, <1>12, <1>13, <1>14, <1>15 DEF Expansion, Honest
<1> QED BY <1>1, <1>16 DEF IncludeInv

LEMMA LeaveStep ==
  ASSUME IncludeInv, Leaves
  PROVE  IncludeInv'
<1> DEFINE frames == output.frames
           n == Len(frames)
           less == Front(frames)
<1>1. /\ input.about = "include" /\ Expansion /\ UNCHANGED input /\ frames # <<>>
      /\ Top.done = Len(Top.text)
  BY DEF IncludeInv, Leaves, Expanding, After
<1>2. frames \in Seq(Frames)
  BY <1>1 DEF Expansion
<1>3. n \in Nat /\ n >= 1 /\ frames[n] \in Frames
  BY <1>1, <1>2, EmptySeq
<1>4. /\ Last(frames) = frames[n]
      /\ less \in Seq(Frames) /\ Len(less) = n - 1
      /\ \A i \in 1..(n - 1) : less[i] = frames[i]
      /\ Owed(frames) = Owed(less) + Owes(frames[n])
  <2>1. PICK g \in Frames : TRUE
    BY <1>3
  <2> QED BY <1>1, <1>2, <2>1, OwedFacts
<1>5. Owes(frames[n]) = 0
  BY <1>1, <1>3, <1>4, OwesFacts DEF Top
<1>6. output' = [output EXCEPT !.frames = less]
  BY DEF Leaves
<1>7. Owed(less) = Owed(frames)
  <2>1. Owed(less) \in Nat
    BY <1>4, OwedNumber
  <2> QED BY <1>4, <1>5, <2>1
<1> HIDE DEF less
<1>8. /\ output' = [frames |-> less, out |-> output.out, total |-> output.total,
                    read |-> output.read, error |-> output.error]
      /\ output'.frames = less /\ output'.out = output.out
      /\ output'.total = output.total /\ output'.read = output.read /\ output'.error = output.error
  BY <1>1, <1>6 DEF Expansion
<1>9. \A i, j \in 2..Len(less) : i # j => less[i].file # less[j].file
  <2>1. \A i \in 2..(n - 1) : i \in 2..n /\ less[i] = frames[i]
    BY <1>3, <1>4
  <2>2. Len(less) = n - 1
    BY <1>4
  <2>3. \A i, j \in 2..n : i # j => frames[i].file # frames[j].file
    BY <1>1 DEF Expansion
  <2> QED BY <2>1, <2>2, <2>3
<1>10. Len(less) <= input.limits.depth + 1
  <2>1. input.limits.depth \in Nat /\ n <= input.limits.depth + 1
    BY <1>1, InputFacts DEF Expansion
  <2>2. Len(less) = n - 1 /\ n \in Nat
    BY <1>3, <1>4
  <2> DEFINE size == Len(less)
             depth == input.limits.depth
  <2>3. size = n - 1 /\ depth \in Nat /\ n <= depth + 1 /\ n \in Nat
    BY <2>1, <2>2
  <2> HIDE DEF n, size, depth
  <2>4. size <= depth + 1
    BY <2>3
  <2> QED BY <2>4 DEF size, depth
<1>11. Expansion'
  <2>1. /\ output.out \in Texts /\ output.total \in Nat /\ output.read \in Nat
        /\ output.total <= input.limits.bytes
        /\ Honest => output.read = output.total
        /\ Size(output.out) + Owed(less) = Size(input.text) + output.read
    BY <1>1, <1>7 DEF Expansion
  <2>2. Honest' = Honest
    BY <1>1 DEF Honest
  <2> QED BY <1>1, <1>4, <1>8, <1>9, <1>10, <2>1, <2>2 DEF Expansion
<1> QED BY <1>1, <1>11 DEF IncludeInv

\* At every step the calls of _expand are of different files, no deeper than the
\* limit, and have read and put in place no more bytes than the limit allows when
\* files are as large as stat said (expand_input: "Cycles, excessive depth and
\* excessive expanded size are refused before anything is executed").
THEOREM IncludeBoundedAlways == IncludeSpec => []IncludeBounded
<1>1. Init => IncludeInv
  BY DEF Init, IncludeInv, After
<1>2. IncludeInv /\ [IncludeNext]_vars => IncludeInv'
  <2> SUFFICES ASSUME IncludeInv, [IncludeNext]_vars PROVE IncludeInv'
    OBVIOUS
  <2>1. CASE UNCHANGED vars
    <3>1. input' = input /\ output' = output
      BY <2>1 DEF vars
    <3> QED BY <3>1 DEF IncludeInv, After, Expansion, Honest
  <2>2. CASE Expands
    BY <2>2, BeginStep
  <2>3. CASE Copies
    BY <2>3, CopyStep
  <2>4. CASE Refuses
    BY <2>4, RefuseStep
  <2>5. CASE Enters
    BY <2>5, EnterStep
  <2>6. CASE Leaves
    BY <2>6, LeaveStep
  <2> QED BY <2>1, <2>2, <2>3, <2>4, <2>5, <2>6 DEF IncludeNext, Done
<1>3. IncludeInv => IncludeBounded
  <2> SUFFICES ASSUME IncludeInv, After("include") PROVE IncludeBounded
    BY DEF IncludeBounded
  <2>1. Expansion /\ input.about = "include"
    BY DEF IncludeInv, After
  <2>2. /\ Owed(output.frames) \in Nat /\ Size(output.out) \in Nat /\ Size(input.text) \in Nat
        /\ input.limits.bytes \in Nat
    BY <2>1, OwedNumber, SizeFacts, InputFacts DEF Expansion
  <2>3. ASSUME Honest
        PROVE  /\ output.read <= input.limits.bytes
               /\ Size(output.out) <= Size(input.text) + input.limits.bytes
    <3>1. /\ output.read \in Nat /\ output.read <= input.limits.bytes
          /\ Size(output.out) + Owed(output.frames) = Size(input.text) + output.read
      BY <2>1, <2>3 DEF Expansion
    <3> QED BY <2>2, <3>1
  <2> QED BY <2>1, <2>3 DEF IncludeBounded, Expansion, Honest
<1> QED BY <1>1, <1>2, <1>3, PTL DEF IncludeSpec
=============================================================================
