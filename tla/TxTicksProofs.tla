--------------------------- MODULE TxTicksProofs ---------------------------
(***************************************************************************)
(* Proofs about TxTicks: find_tx_ticks gives every transaction the tick    *)
(* that the reference gives it, for blocks of any length.                  *)
(*                                                                         *)
(* The statements are inductions over the entries of a block.  Each is     *)
(* carried out on the set of the numbers for which it holds (NatSet).      *)
(***************************************************************************)
EXTENDS TxTicks, Integers, SequenceTheorems, FiniteSetTheorems, TLAPS

\* A set of numbers that has 0 and the successor of each of its elements has
\* every number: there is no least one that it lacks.
LEMMA NatSet ==
  ASSUME NEW S \in SUBSET Nat, 0 \in S, \A n \in S : n + 1 \in S
  PROVE  \A n \in Nat : n \in S
<1> DEFINE less == OpToRel(<, Nat)
           rest == {n \in Nat : n \notin S}
<1>1. SUFFICES ASSUME rest # {} PROVE FALSE
  OBVIOUS
<1>2. PICK x \in rest : \A y \in rest : <<y, x>> \notin less
  <2> HIDE DEF less
  <2>1. IsWellFoundedOn(less, Nat)
    BY NatLessThanWellFounded DEF less
  <2> QED
    BY <1>1, <2>1, WFMin
<1>3. x \in Nat /\ x \notin S
  OBVIOUS
<1>4. x - 1 \in Nat /\ x - 1 + 1 = x /\ x - 1 < x
  BY <1>3
<1>5. x - 1 \in rest
  BY <1>3, <1>4
<1>6. <<x - 1, x>> \in less
  BY <1>3, <1>4 DEF OpToRel
<1> QED
  BY <1>2, <1>5, <1>6

-----------------------------------------------------------------------------
(* Sums. *)

\* The recursion that defines Sums has a solution.
LEMMA SumsRecursion ==
  ASSUME NEW counts, NEW k \in Nat
  PROVE  \E g : g = [i \in 0 .. k |-> IF i = 0 THEN 0 ELSE g[i - 1] + counts[i]]
<1> DEFINE S == {n \in Nat : \E g :
                   g = [i \in 0 .. n |-> IF i = 0 THEN 0 ELSE g[i - 1] + counts[i]]}
<1>1. 0 \in S
  <2> DEFINE h == [i \in 0 .. 0 |-> 0]
  <2>1. h = [i \in 0 .. 0 |-> IF i = 0 THEN 0 ELSE h[i - 1] + counts[i]]
    OBVIOUS
  <2> QED
    BY <2>1
<1>2. ASSUME NEW n \in Nat, n \in S PROVE n + 1 \in S
  <2>1. PICK g : g = [i \in 0 .. n |-> IF i = 0 THEN 0 ELSE g[i - 1] + counts[i]]
    BY <1>2
  <2> DEFINE h == [i \in 0 .. n + 1 |-> IF i = 0 THEN 0 ELSE g[i - 1] + counts[i]]
  <2>2. \A i \in 0 .. n : h[i] = g[i]
    BY <2>1
  <2>3. \A i \in 0 .. n + 1 : i # 0 => i - 1 \in 0 .. n
    OBVIOUS
  <2>4. h = [i \in 0 .. n + 1 |-> IF i = 0 THEN 0 ELSE h[i - 1] + counts[i]]
    BY <2>2, <2>3
  <2>5. \E f : f = [i \in 0 .. n + 1 |-> IF i = 0 THEN 0 ELSE f[i - 1] + counts[i]]
    <3> HIDE DEF h
    <3> QED
      BY <2>4
  <2> QED
    BY <2>5
<1>3. S \subseteq Nat
  OBVIOUS
<1> HIDE DEF S
<1>4. k \in S
  BY <1>1, <1>2, <1>3, NatSet
<1> QED
  BY <1>4 DEF S

\* The sums of a sequence of numbers are numbers, each the one before it and
\* the number at its place.
LEMMA SumsDef ==
  ASSUME NEW counts \in Seq(Nat)
  PROVE  /\ SumTo(counts, 0) = 0
         /\ \A i \in 1 .. Len(counts) :
              SumTo(counts, i) = SumTo(counts, i - 1) + counts[i]
<1> DEFINE g == Sums(counts)
<1>1. Len(counts) \in Nat
  OBVIOUS
<1>2. g = [i \in 0 .. Len(counts) |-> IF i = 0 THEN 0 ELSE g[i - 1] + counts[i]]
  BY <1>1, SumsRecursion DEF Sums
<1> HIDE DEF g
<1>3. g[0] = 0 /\ \A i \in 1 .. Len(counts) : g[i] = g[i - 1] + counts[i]
  BY <1>1, <1>2
<1> QED
  BY <1>3 DEF SumTo, g

\* Sums of numbers are numbers.
LEMMA SumsType ==
  ASSUME NEW counts \in Seq(Nat)
  PROVE  \A k \in 0 .. Len(counts) : SumTo(counts, k) \in Nat
<1> DEFINE S == {k \in Nat : k <= Len(counts) => SumTo(counts, k) \in Nat}
<1>1. 0 \in S
  BY SumsDef
<1>2. ASSUME NEW k \in Nat, k \in S PROVE k + 1 \in S
  <2>1. CASE k + 1 <= Len(counts)
    <3>1. k + 1 \in 1 .. Len(counts) /\ k + 1 - 1 = k
      BY <2>1
    <3>2. SumTo(counts, k + 1) = SumTo(counts, k) + counts[k + 1] /\ counts[k + 1] \in Nat
      BY <3>1, SumsDef
    <3>3. SumTo(counts, k) \in Nat
      BY <1>2, <2>1
    <3> QED
      BY <3>2, <3>3
  <2> QED
    BY <2>1
<1>3. S \subseteq Nat
  OBVIOUS
<1> HIDE DEF S
<1>4. \A k \in Nat : k \in S
  BY <1>1, <1>2, <1>3, NatSet
<1> QED
  BY <1>4 DEF S

\* They do not decrease.
LEMMA SumsGrow ==
  ASSUME NEW counts \in Seq(Nat), NEW j \in Nat, NEW k \in Nat,
         j <= k, k <= Len(counts)
  PROVE  SumTo(counts, j) <= SumTo(counts, k)
<1> DEFINE S == {d \in Nat : j + d <= Len(counts) =>
                   SumTo(counts, j) <= SumTo(counts, j + d)}
<1>1. 0 \in S
  BY SumsType
<1>2. ASSUME NEW d \in Nat, d \in S PROVE d + 1 \in S
  <2>1. CASE j + (d + 1) <= Len(counts)
    <3>1. j + (d + 1) \in 1 .. Len(counts) /\ j + (d + 1) - 1 = j + d
          /\ j \in 0 .. Len(counts) /\ j + d \in 0 .. Len(counts)
      BY <2>1
    <3>2. SumTo(counts, j + (d + 1)) = SumTo(counts, j + d) + counts[j + (d + 1)]
          /\ counts[j + (d + 1)] \in Nat
      BY <3>1, SumsDef
    <3>3. SumTo(counts, j) \in Nat /\ SumTo(counts, j + d) \in Nat
      BY <3>1, SumsType
    <3>4. SumTo(counts, j) <= SumTo(counts, j + d)
      BY <1>2, <2>1
    <3> QED
      BY <3>2, <3>3, <3>4
  <2> QED
    BY <2>1
<1>3. S \subseteq Nat
  OBVIOUS
<1> HIDE DEF S
<1>4. \A d \in Nat : d \in S
  BY <1>1, <1>2, <1>3, NatSet
<1>5. k - j \in Nat /\ j + (k - j) = k
  OBVIOUS
<1>6. k - j \in S
  BY <1>4, <1>5
<1> QED
  BY <1>5, <1>6 DEF S

\* They depend only on the numbers that are summed.
LEMMA SumsAgree ==
  ASSUME NEW s \in Seq(Nat), NEW t \in Seq(Nat), NEW n \in Nat,
         n <= Len(s), n <= Len(t), \A i \in 1 .. n : s[i] = t[i]
  PROVE  SumTo(s, n) = SumTo(t, n)
<1> DEFINE S == {k \in Nat : k <= n => SumTo(s, k) = SumTo(t, k)}
<1>1. 0 \in S
  BY SumsDef
<1>2. ASSUME NEW k \in Nat, k \in S PROVE k + 1 \in S
  <2>1. CASE k + 1 <= n
    <3>1. /\ k + 1 \in 1 .. Len(s) /\ k + 1 \in 1 .. Len(t) /\ k + 1 \in 1 .. n
          /\ k + 1 - 1 = k
      BY <2>1
    <3>2. /\ SumTo(s, k + 1) = SumTo(s, k) + s[k + 1]
          /\ SumTo(t, k + 1) = SumTo(t, k) + t[k + 1]
      BY <3>1, SumsDef
    <3>3. SumTo(s, k) = SumTo(t, k) /\ s[k + 1] = t[k + 1]
      BY <1>2, <2>1, <3>1
    <3> QED
      BY <3>2, <3>3
  <2> QED
    BY <2>1
<1>3. S \subseteq Nat
  OBVIOUS
<1> HIDE DEF S
<1>4. n \in S
  BY <1>1, <1>2, <1>3, NatSet
<1> QED
  BY <1>4 DEF S

\* A number below the total lies between two neighbouring sums.
LEMMA SumsCover ==
  ASSUME NEW counts \in Seq(Nat), NEW index \in Nat, index < Total(counts)
  PROVE  \E e \in 1 .. Len(counts) :
            SumTo(counts, e - 1) <= index /\ index < SumTo(counts, e)
<1> SUFFICES ASSUME \A e \in 1 .. Len(counts) :
                       SumTo(counts, e - 1) <= index => ~(index < SumTo(counts, e))
             PROVE  FALSE
  OBVIOUS
<1> DEFINE S == {k \in Nat : k <= Len(counts) => SumTo(counts, k) <= index}
<1>1. 0 \in S
  BY SumsDef
<1>2. ASSUME NEW k \in Nat, k \in S PROVE k + 1 \in S
  <2>1. CASE k + 1 <= Len(counts)
    <3>1. k + 1 \in 1 .. Len(counts) /\ k + 1 - 1 = k /\ k + 1 \in 0 .. Len(counts)
      BY <2>1
    <3>2. SumTo(counts, k) <= index
      BY <1>2, <2>1
    <3>3. ~(index < SumTo(counts, k + 1))
      BY <3>1, <3>2
    <3>4. SumTo(counts, k + 1) \in Nat
      BY <3>1, SumsType
    <3> QED
      BY <3>3, <3>4
  <2> QED
    BY <2>1
<1>3. S \subseteq Nat
  OBVIOUS
<1> HIDE DEF S
<1>4. \A k \in Nat : k \in S
  BY <1>1, <1>2, <1>3, NatSet
<1>5. SumTo(counts, Len(counts)) <= index
  BY <1>4 DEF S
<1> QED
  BY <1>5, SumsType DEF Total

-----------------------------------------------------------------------------
(* The loop over the entries. *)

Entry == [index: Nat, count: Nat]

\* The state of the loop after an entry, from that before it.
Step(last, e) ==
    IF e.count = 0 THEN [per |-> Append(last.per, last.cur), cur |-> 0]
                   ELSE [last EXCEPT !.cur = @ + e.count]

Start == [per |-> <<>>, cur |-> 0]

\* The recursion that defines Counted has a solution.
LEMMA CountedRecursion ==
  ASSUME NEW entries, NEW k \in Nat
  PROVE  \E g : g = [n \in 0 .. k |-> IF n = 0 THEN Start ELSE Step(g[n - 1], entries[n])]
<1> DEFINE S == {m \in Nat : \E g :
                   g = [n \in 0 .. m |-> IF n = 0 THEN Start ELSE Step(g[n - 1], entries[n])]}
<1>1. 0 \in S
  <2> DEFINE h == [n \in 0 .. 0 |-> Start]
  <2>1. h = [n \in 0 .. 0 |-> IF n = 0 THEN Start ELSE Step(h[n - 1], entries[n])]
    OBVIOUS
  <2> QED
    BY <2>1
<1>2. ASSUME NEW m \in Nat, m \in S PROVE m + 1 \in S
  <2>1. PICK g : g = [n \in 0 .. m |->
                        IF n = 0 THEN Start ELSE Step(g[n - 1], entries[n])]
    BY <1>2
  <2> DEFINE h == [n \in 0 .. m + 1 |->
                     IF n = 0 THEN Start ELSE Step(g[n - 1], entries[n])]
  <2>2. \A n \in 0 .. m : h[n] = g[n]
    BY <2>1
  <2>3. \A n \in 0 .. m + 1 : n # 0 => n - 1 \in 0 .. m
    OBVIOUS
  <2>4. h = [n \in 0 .. m + 1 |->
               IF n = 0 THEN Start ELSE Step(h[n - 1], entries[n])]
    BY <2>2, <2>3
  <2>5. \E f : f = [n \in 0 .. m + 1 |->
                      IF n = 0 THEN Start ELSE Step(f[n - 1], entries[n])]
    <3> HIDE DEF h
    <3> QED
      BY <2>4
  <2> QED
    BY <2>5
<1>3. S \subseteq Nat
  OBVIOUS
<1> HIDE DEF S
<1>4. k \in S
  BY <1>1, <1>2, <1>3, NatSet
<1> QED
  BY <1>4 DEF S

\* The loop over the entries starts with nothing counted and takes one Step
\* for each entry.
LEMMA CountedDef ==
  ASSUME NEW entries \in Seq(Entry)
  PROVE  /\ Counted(entries)[0] = Start
         /\ \A n \in 1 .. Len(entries) :
              Counted(entries)[n] = Step(Counted(entries)[n - 1], entries[n])
<1> DEFINE g == Counted(entries)
<1>1. Len(entries) \in Nat
  OBVIOUS
<1>2. g = [n \in 0 .. Len(entries) |->
             IF n = 0 THEN Start ELSE Step(g[n - 1], entries[n])]
  BY <1>1, CountedRecursion DEF Counted, Step, Start
<1> HIDE DEF g
<1>3. g[0] = Start /\ \A n \in 1 .. Len(entries) : g[n] = Step(g[n - 1], entries[n])
  BY <1>1, <1>2
<1> QED
  BY <1>3 DEF g

\* Appending a number adds it to the total, and leaves the other sums.
LEMMA AppendSum ==
  ASSUME NEW s \in Seq(Nat), NEW x \in Nat
  PROVE  /\ Total(Append(s, x)) = Total(s) + x
         /\ \A k \in 0 .. Len(s) : SumTo(Append(s, x), k) = SumTo(s, k)
<1> DEFINE t == Append(s, x)
<1>1. /\ t \in Seq(Nat) /\ Len(t) = Len(s) + 1 /\ t[Len(s) + 1] = x
      /\ \A i \in 1 .. Len(s) : t[i] = s[i]
  BY AppendProperties
<1> HIDE DEF t
<1>2. Len(s) \in Nat
  OBVIOUS
<1>3. ASSUME NEW k \in 0 .. Len(s) PROVE SumTo(t, k) = SumTo(s, k)
  <2>1. k \in Nat /\ k <= Len(s) /\ k <= Len(t)
    BY <1>1, <1>2
  <2>2. \A i \in 1 .. k : s[i] = t[i]
    BY <1>1, <1>2, <2>1
  <2> QED
    BY <1>1, <2>1, <2>2, SumsAgree
<1>4. Len(t) \in 1 .. Len(t) /\ Len(t) - 1 = Len(s) /\ Len(s) \in 0 .. Len(s)
  BY <1>1, <1>2
<1>5. SumTo(t, Len(t)) = SumTo(t, Len(s)) + x
  BY <1>1, <1>4, SumsDef
<1>6. SumTo(t, Len(t)) = SumTo(s, Len(s)) + x
  BY <1>3, <1>4, <1>5
<1> QED
  BY <1>3, <1>6 DEF Total, t

\* The numbers of transactions in the entries.
Counts(entries) == [i \in 1 .. Len(entries) |-> entries[i].count]

\* There is one of them for each entry.
LEMMA CountsType ==
  ASSUME NEW entries \in Seq(Entry)
  PROVE  /\ Counts(entries) \in Seq(Nat) /\ Len(Counts(entries)) = Len(entries)
         /\ \A i \in 1 .. Len(entries) : Counts(entries)[i] = entries[i].count
<1>1. ASSUME NEW i \in 1 .. Len(entries) PROVE entries[i].count \in Nat
  <2>1. entries[i] \in Entry
    OBVIOUS
  <2> QED
    BY <2>1 DEF Entry
<1>2. Len(entries) \in Nat
  OBVIOUS
<1> QED
  BY <1>1, <1>2 DEF Counts

\* How many of the first n entries are ticks.
Zeros(counts, n) == Cardinality({t \in 1 .. n : counts[t] = 0})

\* One more entry is one more tick if it has no transactions.
LEMMA ZerosStep ==
  ASSUME NEW counts, NEW n \in Nat
  PROVE  /\ Zeros(counts, 0) = 0 /\ Zeros(counts, n) \in Nat
         /\ Zeros(counts, n + 1) = IF counts[n + 1] = 0 THEN Zeros(counts, n) + 1
                                   ELSE Zeros(counts, n)
<1> DEFINE Z(m) == {t \in 1 .. m : counts[t] = 0}
<1>1. Z(0) = {}
  OBVIOUS
<1>2. IsFiniteSet(Z(n))
  <2>1. IsFiniteSet(1 .. n)
    BY FS_Interval
  <2> QED
    BY <2>1, FS_Subset
<1>3. Z(n + 1) = IF counts[n + 1] = 0 THEN Z(n) \cup {n + 1} ELSE Z(n)
  OBVIOUS
<1>4. n + 1 \notin Z(n)
  OBVIOUS
<1>5. \A m : Zeros(counts, m) = Cardinality(Z(m))
  BY DEF Zeros
<1> HIDE DEF Z
<1>6. Cardinality(Z(n) \cup {n + 1}) = Cardinality(Z(n)) + 1
  BY <1>2, <1>4, FS_AddElement
<1>7. Cardinality(Z(0)) = 0
  BY <1>1, FS_EmptySet
<1>8. Cardinality(Z(n)) \in Nat
  BY <1>2, FS_CardinalityType
<1> QED
  BY <1>3, <1>5, <1>6, <1>7, <1>8

\* After n entries: what has been counted is in a tick or in cur, and there
\* are as many ticks as entries without transactions.
LEMMA CountedState ==
  ASSUME NEW entries \in Seq(Entry)
  PROVE  \A n \in 0 .. Len(entries) :
           /\ Counted(entries)[n] \in [per: Seq(Nat), cur: Nat]
           /\ Total(Counted(entries)[n].per) + Counted(entries)[n].cur
                = SumTo(Counts(entries), n)
           /\ Len(Counted(entries)[n].per) = Zeros(Counts(entries), n)
<1> DEFINE c == Counted(entries)
           b == Counts(entries)
           Holds(n) == /\ c[n] \in [per: Seq(Nat), cur: Nat]
                       /\ Total(c[n].per) + c[n].cur = SumTo(b, n)
                       /\ Len(c[n].per) = Zeros(b, n)
           S == {n \in Nat : n <= Len(entries) => Holds(n)}
<1>1. b \in Seq(Nat) /\ Len(b) = Len(entries)
      /\ \A i \in 1 .. Len(entries) : b[i] = entries[i].count
  BY CountsType
<1>2. c[0] = Start /\ \A n \in 1 .. Len(entries) : c[n] = Step(c[n - 1], entries[n])
  BY CountedDef
<1> HIDE DEF c, b
<1>3. Holds(0)
  <2>1. <<>> \in Seq(Nat) /\ Len(<<>>) = 0
    OBVIOUS
  <2>2. Total(<<>>) = 0
    BY <2>1, SumsDef DEF Total
  <2>3. c[0] = [per |-> <<>>, cur |-> 0]
    BY <1>2 DEF Start
  <2>4. SumTo(b, 0) = 0 /\ Zeros(b, 0) = 0
    BY <1>1, SumsDef, ZerosStep
  <2> QED
    BY <2>1, <2>2, <2>3, <2>4
<1>4. ASSUME NEW n \in Nat, n \in S PROVE n + 1 \in S
  <2> SUFFICES ASSUME n + 1 <= Len(entries) PROVE Holds(n + 1)
    OBVIOUS
  <2>1. Holds(n)
    BY <1>4
  <2>2. n + 1 \in 1 .. Len(entries) /\ n + 1 - 1 = n /\ n + 1 \in 1 .. Len(b)
    BY <1>1
  <2>3. c[n + 1] = Step(c[n], entries[n + 1])
    BY <1>2, <2>2
  <2>4. SumTo(b, n + 1) = SumTo(b, n) + b[n + 1] /\ b[n + 1] = entries[n + 1].count
    BY <1>1, <2>2, SumsDef
  <2>5. Zeros(b, n + 1) = IF b[n + 1] = 0 THEN Zeros(b, n) + 1 ELSE Zeros(b, n)
    BY ZerosStep
  <2>6. PICK per \in Seq(Nat), cur \in Nat : c[n] = [per |-> per, cur |-> cur]
    BY <2>1
  <2>7. /\ Total(per) + cur = SumTo(b, n) /\ Len(per) = Zeros(b, n)
        /\ Total(per) \in Nat /\ b[n + 1] \in Nat
    BY <1>1, <2>1, <2>2, <2>6, SumsType DEF Total
  <2>8. CASE b[n + 1] = 0
    <3>1. c[n + 1] = [per |-> Append(per, cur), cur |-> 0]
      BY <2>3, <2>4, <2>6, <2>8 DEF Step
    <3>2. Append(per, cur) \in Seq(Nat) /\ Len(Append(per, cur)) = Len(per) + 1
      BY AppendProperties
    <3>3. Total(Append(per, cur)) = Total(per) + cur
      BY AppendSum
    <3>4. c[n + 1].per = Append(per, cur) /\ c[n + 1].cur = 0
          /\ c[n + 1] \in [per: Seq(Nat), cur: Nat]
      BY <3>1, <3>2
    <3> QED
      BY <2>4, <2>5, <2>7, <2>8, <3>2, <3>3, <3>4
  <2>9. CASE b[n + 1] # 0
    <3>1. c[n + 1] = [per |-> per, cur |-> cur + b[n + 1]]
      BY <2>3, <2>4, <2>6, <2>9 DEF Step
    <3>2. c[n + 1].per = per /\ c[n + 1].cur = cur + b[n + 1]
          /\ c[n + 1] \in [per: Seq(Nat), cur: Nat]
      BY <2>7, <3>1
    <3> QED
      BY <2>4, <2>5, <2>7, <2>9, <3>2
  <2> QED
    BY <2>8, <2>9
<1>5. S \subseteq Nat
  OBVIOUS
<1>6. 0 \in S
  BY <1>3
<1> HIDE DEF S
<1>7. \A n \in Nat : n \in S
  BY <1>4, <1>5, <1>6, NatSet
<1>8. \A n \in 0 .. Len(entries) : Holds(n)
  BY <1>7 DEF S
<1> QED
  BY <1>8 DEF c, b

\* What one state of the loop keeps of another.
Extends(to, from) ==
    /\ Len(from.per) <= Len(to.per)
    /\ \A i \in 1 .. Len(from.per) : to.per[i] = from.per[i]
    /\ IF Len(to.per) = Len(from.per) THEN to.cur >= from.cur
       ELSE to.per[Len(from.per) + 1] >= from.cur

\* As the loop goes on, the ticks it has closed stay, and what cur has counted
\* goes into the next one.
LEMMA CountedGrows ==
  ASSUME NEW entries \in Seq(Entry), NEW e \in Nat, NEW n \in Nat,
         e <= n, n <= Len(entries)
  PROVE  Extends(Counted(entries)[n], Counted(entries)[e])
<1> DEFINE c == Counted(entries)
           from == c[e]
           Holds(m) == /\ Len(from.per) <= Len(c[m].per)
                       /\ \A i \in 1 .. Len(from.per) : c[m].per[i] = from.per[i]
                       /\ IF Len(c[m].per) = Len(from.per) THEN c[m].cur >= from.cur
                          ELSE c[m].per[Len(from.per) + 1] >= from.cur
           S == {d \in Nat : e + d <= Len(entries) => Holds(e + d)}
<1>1. /\ \A m \in 0 .. Len(entries) : c[m] \in [per: Seq(Nat), cur: Nat]
      /\ \A m \in 1 .. Len(entries) : c[m] = Step(c[m - 1], entries[m])
  BY CountedState, CountedDef
<1>2. \A m \in 1 .. Len(entries) : entries[m].count \in Nat
  <2>1. \A m \in 1 .. Len(entries) : entries[m] \in Entry
    OBVIOUS
  <2> QED
    BY <2>1 DEF Entry
<1>3. from.per \in Seq(Nat) /\ from.cur \in Nat
  BY <1>1
<1> HIDE DEF c
<1>4. 0 \in S
  BY <1>3
<1>step. ASSUME NEW m \in Nat, m + 1 <= Len(entries), Holds(m) PROVE Holds(m + 1)
  <2>2. m \in 0 .. Len(entries) /\ m + 1 \in 1 .. Len(entries) /\ m + 1 - 1 = m
    BY <1>step
  <2>3. PICK per \in Seq(Nat), cur \in Nat : c[m] = [per |-> per, cur |-> cur]
    BY <1>1, <2>2
  <2>4. c[m + 1] = Step(c[m], entries[m + 1]) /\ entries[m + 1].count \in Nat
    BY <1>1, <1>2, <2>2
  <2> DEFINE z == Len(from.per)
  <2>1. /\ z <= Len(per) /\ \A i \in 1 .. z : per[i] = from.per[i]
        /\ IF Len(per) = z THEN cur >= from.cur ELSE per[z + 1] >= from.cur
        /\ z \in Nat /\ Len(per) \in Nat
    BY <1>step, <1>3, <2>3
  <2> HIDE DEF from
  <2>5. CASE entries[m + 1].count = 0
    <3>1. c[m + 1] = [per |-> Append(per, cur), cur |-> 0]
      BY <2>3, <2>4, <2>5 DEF Step
    <3>2. /\ Append(per, cur) \in Seq(Nat) /\ Len(Append(per, cur)) = Len(per) + 1
          /\ \A i \in 1 .. Len(per) : Append(per, cur)[i] = per[i]
          /\ Append(per, cur)[Len(per) + 1] = cur
      BY AppendProperties
    <3>3. c[m + 1].per = Append(per, cur) /\ c[m + 1].cur = 0
      BY <3>1
    <3>4. /\ z <= Len(Append(per, cur))
          /\ \A i \in 1 .. z : Append(per, cur)[i] = from.per[i]
          /\ Len(Append(per, cur)) # z
          /\ Append(per, cur)[z + 1] >= from.cur
      <4> HIDE DEF z
      <4> QED
        BY <2>1, <3>2
    <3> QED
      BY <3>3, <3>4
  <2>6. CASE entries[m + 1].count # 0
    <3>1. c[m + 1] = [per |-> per, cur |-> cur + entries[m + 1].count]
      BY <2>3, <2>4, <2>6 DEF Step
    <3>2. c[m + 1].per = per /\ c[m + 1].cur = cur + entries[m + 1].count
      BY <3>1
    <3>3. cur >= from.cur => cur + entries[m + 1].count >= from.cur
      BY <1>3, <2>4
    <3> QED
      BY <2>1, <3>2, <3>3
  <2> QED
    BY <2>5, <2>6
<1> HIDE DEF Holds
<1>5. ASSUME NEW d \in Nat, d \in S PROVE d + 1 \in S
  <2>1. e + (d + 1) = (e + d) + 1 /\ e + d \in Nat
    OBVIOUS
  <2>2. CASE e + (d + 1) <= Len(entries)
    BY <1>5, <1>step, <2>1, <2>2
  <2> QED
    BY <2>2
<1>6. S \subseteq Nat
  OBVIOUS
<1> HIDE DEF S
<1>7. \A d \in Nat : d \in S
  BY <1>4, <1>5, <1>6, NatSet
<1>8. n - e \in Nat /\ e + (n - e) = n
  OBVIOUS
<1>9. n - e \in S
  BY <1>7, <1>8
<1>10. Holds(n)
  BY <1>8, <1>9 DEF S
<1> QED
  BY <1>10 DEF c, Holds, from, Extends

-----------------------------------------------------------------------------
(* The ticks. *)

\* No transaction is lost or counted twice.
LEMMA PerTick ==
  ASSUME NEW entries \in Seq(Entry)
  PROVE  /\ NumTxsPerTick(entries) \in Seq(Nat)
         /\ Total(NumTxsPerTick(entries)) = Total(Counts(entries))
<1> DEFINE c == Counted(entries)[Len(entries)]
<1>1. /\ c \in [per: Seq(Nat), cur: Nat]
      /\ Total(c.per) + c.cur = SumTo(Counts(entries), Len(entries))
  <2>1. Len(entries) \in 0 .. Len(entries)
    OBVIOUS
  <2> QED
    BY <2>1, CountedState
<1>2. Total(Counts(entries)) = Total(c.per) + c.cur
  BY <1>1, CountsType DEF Total
<1>3. Total(c.per) \in Nat /\ c.per \in Seq(Nat) /\ c.cur \in Nat
  BY <1>1, SumsType DEF Total
<1>4. NumTxsPerTick(entries) = IF c.cur > 0 THEN Append(c.per, c.cur) ELSE c.per
  BY DEF NumTxsPerTick
<1> HIDE DEF c
<1>5. Append(c.per, c.cur) \in Seq(Nat) /\ Total(Append(c.per, c.cur)) = Total(c.per) + c.cur
  BY <1>3, AppendSum, AppendProperties
<1> QED
  BY <1>2, <1>3, <1>4, <1>5

\* There is a tick for every transaction that is counted, whatever entries
\* have been recorded.
LEMMA TicksType ==
  ASSUME NEW entries \in Seq(Entry)
  PROVE  /\ FindTxTicks(entries) \in Seq(Nat)
         /\ Len(FindTxTicks(entries)) = Total(Counts(entries))
<1> DEFINE per == NumTxsPerTick(entries)
           In(i, k) == SumTo(per, k - 1) < i /\ i <= SumTo(per, k)
           tick(i) == (CHOOSE k \in DOMAIN per : In(i, k)) - 1
<1>1. per \in Seq(Nat) /\ Total(per) = Total(Counts(entries)) /\ Total(per) \in Nat
  BY PerTick, SumsType DEF Total
<1>2. FindTxTicks(entries) = [i \in 1 .. Total(per) |-> tick(i)]
  BY DEF FindTxTicks
<1> HIDE DEF per
<1>3. ASSUME NEW i \in 1 .. Total(per) PROVE tick(i) \in Nat
  <2>1. i - 1 \in Nat /\ i - 1 < Total(per)
    BY <1>1
  <2>2. PICK k \in 1 .. Len(per) : SumTo(per, k - 1) <= i - 1 /\ i - 1 < SumTo(per, k)
    BY <1>1, <2>1, SumsCover
  <2>3. SumTo(per, k - 1) \in Nat /\ SumTo(per, k) \in Nat
    <3>1. k - 1 \in 0 .. Len(per) /\ k \in 0 .. Len(per)
      BY <1>1
    <3> QED
      BY <1>1, <3>1, SumsType
  <2>4. k \in DOMAIN per /\ In(i, k)
    BY <1>1, <2>2, <2>3
  <2>5. (CHOOSE j \in DOMAIN per : In(i, j)) \in DOMAIN per
    BY <2>4
  <2> QED
    BY <1>1, <2>5
<1> HIDE DEF tick
<1>4. [i \in 1 .. Total(per) |-> tick(i)] \in Seq(Nat)
  BY <1>1, <1>3
<1> QED
  BY <1>1, <1>2, <1>4

\* A search by the sums finds the one place where the index lies.
LEMMA SearchFinds ==
  ASSUME NEW per \in Seq(Nat), NEW z \in Nat, z + 1 <= Len(per), NEW index \in Nat,
         SumTo(per, z) <= index, index < SumTo(per, z) + per[z + 1]
  PROVE  (CHOOSE k \in DOMAIN per :
            SumTo(per, k - 1) < index + 1 /\ index + 1 <= SumTo(per, k)) = z + 1
<1> DEFINE In(k) == SumTo(per, k - 1) < index + 1 /\ index + 1 <= SumTo(per, k)
<1>1. z + 1 \in 1 .. Len(per) /\ z + 1 - 1 = z /\ z \in 0 .. Len(per) /\ Len(per) \in Nat
      /\ z + 1 \in 0 .. Len(per) /\ DOMAIN per = 1 .. Len(per)
  OBVIOUS
<1>2. SumTo(per, z + 1) = SumTo(per, z) + per[z + 1]
      /\ SumTo(per, z + 1) \in Nat /\ SumTo(per, z) \in Nat
  BY <1>1, SumsDef, SumsType
<1>3. In(z + 1)
  BY <1>1, <1>2
<1>4. ASSUME NEW k \in DOMAIN per, In(k) PROVE k = z + 1
  <2>1. k \in 1 .. Len(per) /\ k - 1 \in 0 .. Len(per) /\ k \in 0 .. Len(per)
    BY <1>1
  <2>2. SumTo(per, k) \in Nat /\ SumTo(per, k - 1) \in Nat
    BY <2>1, SumsType
  <2>3. CASE k < z + 1
    <3>1. k \in Nat /\ k <= z /\ z <= Len(per)
      BY <1>1, <2>1, <2>3
    <3>2. SumTo(per, k) <= SumTo(per, z)
      BY <3>1, SumsGrow
    <3> QED
      BY <1>2, <1>4, <2>2, <3>2
  <2>4. CASE k > z + 1
    <3>1. k - 1 \in Nat /\ z + 1 \in Nat /\ z + 1 <= k - 1 /\ k - 1 <= Len(per)
      BY <1>1, <2>1, <2>4
    <3>2. SumTo(per, z + 1) <= SumTo(per, k - 1)
      BY <3>1, SumsGrow
    <3> QED
      BY <1>2, <1>4, <2>2, <3>2
  <2> QED
    BY <1>1, <2>1, <2>3, <2>4
<1> QED
  BY <1>1, <1>3, <1>4

\* find_tx_ticks: the tick of a transaction is the number of ticks of the block
\* before the entry that holds it, for blocks of any length.
THEOREM TicksCorrect ==
  ASSUME NEW entries \in Seq(Entry), NEW index \in Nat, index < Total(Counts(entries))
  PROVE  FindTxTicks(entries)[index + 1] = TickOf(Counts(entries), index)
<1> DEFINE b == Counts(entries)
           c == Counted(entries)
           n == Len(entries)
           per == NumTxsPerTick(entries)
<1>1. b \in Seq(Nat) /\ Len(b) = n /\ n \in Nat
      /\ \A i \in 1 .. n : b[i] = entries[i].count
  BY CountsType
<1>2. per \in Seq(Nat) /\ Total(per) = Total(b)
  BY PerTick
\* The entry e holds the transaction.
<1>3. PICK e \in 1 .. n : /\ e = EntryOf(b, index)
                          /\ SumTo(b, e - 1) <= index /\ index < SumTo(b, e)
  <2>1. \E j \in 1 .. n : SumTo(b, j - 1) <= index /\ index < SumTo(b, j)
    BY <1>1, SumsCover
  <2>2. DOMAIN b = 1 .. n
    BY <1>1
  <2>3. /\ EntryOf(b, index) \in 1 .. n
        /\ SumTo(b, EntryOf(b, index) - 1) <= index
        /\ index < SumTo(b, EntryOf(b, index))
    <3> HIDE DEF b, n
    <3> QED
      BY <2>1, <2>2 DEF EntryOf
  <2> QED
    BY <2>3
<1>4. TickOf(b, index) = Zeros(b, e)
  BY <1>3 DEF TickOf, Zeros
<1>5. e \in 0 .. n /\ e - 1 \in 0 .. n /\ n \in 0 .. n /\ e \in Nat /\ e <= n
  BY <1>1, <1>3
<1>6. /\ \A m \in 0 .. n : /\ c[m] \in [per: Seq(Nat), cur: Nat]
                           /\ Total(c[m].per) + c[m].cur = SumTo(b, m)
                           /\ Len(c[m].per) = Zeros(b, m)
      /\ \A m \in 1 .. n : c[m] = Step(c[m - 1], entries[m])
  BY CountedState, CountedDef
<1> HIDE DEF c
<1>7. PICK p \in Seq(Nat), x \in Nat : c[e] = [per |-> p, cur |-> x]
  BY <1>5, <1>6
<1>8. PICK q \in Seq(Nat), y \in Nat : c[n] = [per |-> q, cur |-> y]
  BY <1>5, <1>6
<1>9. PICK r \in Seq(Nat), w \in Nat : c[e - 1] = [per |-> r, cur |-> w]
  BY <1>5, <1>6
<1>10. /\ Len(p) <= Len(q) /\ \A i \in 1 .. Len(p) : q[i] = p[i]
       /\ IF Len(q) = Len(p) THEN y >= x ELSE q[Len(p) + 1] >= x
  <2>1. Extends(c[n], c[e])
    <3>1. n \in Nat /\ e \in Nat /\ e <= n /\ n <= n
      BY <1>1, <1>5
    <3>2. n = Len(entries)
      OBVIOUS
    <3> HIDE DEF n, b, per
    <3>3. Extends(Counted(entries)[n], Counted(entries)[e])
      BY <3>1, <3>2, CountedGrows
    <3> QED
      BY <3>3 DEF c
  <2>2. c[e].per = p /\ c[e].cur = x /\ c[n].per = q /\ c[n].cur = y
    BY <1>7, <1>8
  <2> QED
    BY <2>1, <2>2 DEF Extends
<1>11. per = IF y > 0 THEN Append(q, y) ELSE q
  <2>1. c[n].per = q /\ c[n].cur = y
    BY <1>8
  <2> QED
    BY <2>1 DEF NumTxsPerTick, c
<1> DEFINE first == CHOOSE k \in DOMAIN per :
                      SumTo(per, k - 1) < index + 1 /\ index + 1 <= SumTo(per, k)
<1>12. FindTxTicks(entries)[index + 1] = first - 1
  <2>1. Total(b) \in Nat
    BY <1>1, SumsType DEF Total
  <2>2. index + 1 \in 1 .. Total(per)
    BY <1>2, <2>1
  <2> QED
    BY <2>2 DEF FindTxTicks
<1>13. Total(p) + x = SumTo(b, e) /\ Total(r) + w = SumTo(b, e - 1)
       /\ Len(p) = Zeros(b, e)
  <2>1. c[e].per = p /\ c[e].cur = x /\ c[e - 1].per = r /\ c[e - 1].cur = w
    BY <1>7, <1>9
  <2> HIDE DEF b, n
  <2> QED
    BY <1>5, <1>6, <2>1
<1>14. TickOf(b, index) = Len(p)
  BY <1>4, <1>13
<1>15. SumTo(b, e) = SumTo(b, e - 1) + b[e] /\ b[e] = entries[e].count
       /\ SumTo(b, e) \in Nat /\ SumTo(b, e - 1) \in Nat /\ b[e] \in Nat
  BY <1>1, <1>3, <1>5, SumsDef, SumsType
<1> HIDE DEF b, c, n, per
<1>16. b[e] # 0
  BY <1>3, <1>15
<1>17. p = r /\ x = w + b[e]
  <2>1. c[e] = [per |-> r, cur |-> w + b[e]]
    <3>1. c[e] = Step(c[e - 1], entries[e]) /\ entries[e].count # 0
      BY <1>3, <1>6, <1>15, <1>16
    <3>2. c[e] = [[per |-> r, cur |-> w] EXCEPT !.cur = @ + entries[e].count]
      BY <1>9, <3>1 DEF Step
    <3> QED
      BY <1>15, <3>2
  <2> QED
    BY <1>7, <2>1
<1>18. Total(p) \in Nat
  BY SumsType DEF Total
<1>19. Total(p) <= index /\ index < Total(p) + x /\ x > 0
  <2>1. Total(r) = Total(p)
    BY <1>17
  <2> QED
    <3>1. Total(p) + w = SumTo(b, e - 1) /\ Total(p) + x = SumTo(b, e)
      BY <1>13, <2>1
    <3>2. SumTo(b, e - 1) <= index /\ index < SumTo(b, e)
      BY <1>3
    <3>3. x > 0 /\ SumTo(b, e) = SumTo(b, e - 1) + b[e] /\ x = w + b[e]
          /\ SumTo(b, e - 1) \in Nat /\ b[e] \in Nat
      BY <1>15, <1>16, <1>17
    <3> HIDE DEF b
    <3> QED
      BY <1>18, <3>1, <3>2, <3>3
\* Its tick is in the list, after those that the loop has closed before, ...
<1>20. Len(p) + 1 <= Len(per) /\ per[Len(p) + 1] >= x
       /\ \A i \in 1 .. Len(p) : per[i] = p[i]
  <2>1. /\ Append(q, y) \in Seq(Nat) /\ Len(Append(q, y)) = Len(q) + 1
        /\ Append(q, y)[Len(q) + 1] = y
        /\ \A i \in 1 .. Len(q) : Append(q, y)[i] = q[i]
    BY AppendProperties
  <2>2. Len(p) \in Nat /\ Len(q) \in Nat
    OBVIOUS
  <2>3. CASE Len(q) = Len(p)
    BY <1>10, <1>11, <1>19, <2>1, <2>2, <2>3
  <2>4. CASE Len(q) # Len(p)
    <3>1. Len(p) + 1 \in 1 .. Len(q)
      BY <1>10, <2>2, <2>4
    <3>2. \A i \in 1 .. Len(q) : per[i] = q[i]
      BY <1>11, <2>1
    <3>3. Len(per) >= Len(q)
      BY <1>11, <2>1, <2>2
    <3> QED
      BY <1>10, <2>2, <2>4, <3>1, <3>2, <3>3
  <2> QED
    BY <2>3, <2>4
\* ... and begins where they end.
<1>21. SumTo(per, Len(p)) = Total(p)
  <2>1. Len(p) \in Nat /\ Len(p) <= Len(per) /\ Len(p) <= Len(p)
    BY <1>2, <1>20
  <2>2. SumTo(per, Len(p)) = SumTo(p, Len(p))
    BY <1>2, <1>20, <2>1, SumsAgree
  <2> QED
    BY <2>2 DEF Total
<1>22. index < SumTo(per, Len(p)) + per[Len(p) + 1]
  <2>1. per[Len(p) + 1] \in Nat
    BY <1>2, <1>20
  <2> QED
    BY <1>18, <1>19, <1>20, <1>21, <2>1
<1>23. first = Len(p) + 1
  <2>1. Len(p) \in Nat /\ SumTo(per, Len(p)) <= index
    BY <1>19, <1>21
  <2> QED
    BY <1>2, <1>20, <1>22, <2>1, SearchFinds
<1> HIDE DEF first
<1>24. TickOf(b, index) = FindTxTicks(entries)[index + 1]
  <2>1. Len(p) \in Nat /\ Len(p) + 1 - 1 = Len(p)
    OBVIOUS
  <2> QED
    BY <1>12, <1>14, <1>23, <2>1
<1> QED
  BY <1>24 DEF b
=============================================================================
