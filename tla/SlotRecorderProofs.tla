------------------------- MODULE SlotRecorderProofs -------------------------
(***************************************************************************)
(* Proofs about SlotRecorder, for any blocks and any order in which the    *)
(* stream delivers their parts: the rows tell the right ticks, in the      *)
(* order of the block, and a task neither panics nor drops a row as long   *)
(* as the entries of its block have been recorded.                         *)
(***************************************************************************)
EXTENDS SlotRecorder, TxTicksProofs, FunctionTheorems

-----------------------------------------------------------------------------
(* sort_by_key. *)

\* The numbers from one and those below n are n.
LEMMA IntervalCount ==
  ASSUME NEW n \in Nat
  PROVE  /\ IsFiniteSet(1 .. n) /\ Cardinality(1 .. n) = n
         /\ IsFiniteSet(0 .. n - 1) /\ Cardinality(0 .. n - 1) = n
<1>1. 1 \in Int /\ n \in Int /\ 0 \in Int /\ n - 1 \in Int
  OBVIOUS
<1>2. IsFiniteSet(1 .. n) /\ Cardinality(1 .. n) = IF 1 > n THEN 0 ELSE n - 1 + 1
  BY <1>1, FS_Interval
<1>3. /\ IsFiniteSet(0 .. n - 1)
      /\ Cardinality(0 .. n - 1) = IF 0 > n - 1 THEN 0 ELSE n - 1 - 0 + 1
  BY <1>1, FS_Interval
<1> QED
  BY <1>2, <1>3

\* An injection of n numbers into n numbers takes every one of them.
LEMMA InjectionOnto ==
  ASSUME NEW n \in Nat, NEW f \in [1 .. n -> 0 .. n - 1],
         \A i, j \in 1 .. n : f[i] = f[j] => i = j
  PROVE  \A k \in 0 .. n - 1 : \E i \in 1 .. n : f[i] = k
<1>1. IsFiniteSet(1 .. n) /\ Cardinality(1 .. n) = n
      /\ IsFiniteSet(0 .. n - 1) /\ Cardinality(0 .. n - 1) = n
  BY IntervalCount
<1>2. f \in Injection(1 .. n, 0 .. n - 1)
  BY Fun_IsInj
<1>3. f \in Surjection(1 .. n, 0 .. n - 1)
  BY <1>1, <1>2, FS_Injection
<1> QED
  <2>1. \A k \in 0 .. n - 1 : \E i \in 1 .. n : f[i] = k
    BY <1>3 DEF Surjection
  <2> QED
    BY <2>1

\* What the sort needs to know of a sequence.
Indexed(seq) == /\ Len(seq) \in Nat /\ DOMAIN seq = 1 .. Len(seq)
                /\ \A i \in 1 .. Len(seq) : seq[i].index \in Nat

\* How many elements come before one of them, and before that which follows.
LEMMA BeforeCounts ==
  ASSUME NEW seq, Indexed(seq), NEW i \in 1 .. Len(seq)
  PROVE  /\ IsFiniteSet(Before(seq, i))
         /\ Cardinality(Before(seq, i)) \in 0 .. Len(seq) - 1
         /\ \A j \in 1 .. Len(seq) :
              i \in Before(seq, j) =>
                Cardinality(Before(seq, i)) < Cardinality(Before(seq, j))
<1> DEFINE n == Len(seq)
<1>1. n \in Nat \ {0} /\ IsFiniteSet(1 .. n) /\ Cardinality(1 .. n) = n
  BY FS_Interval DEF Indexed
<1>2. \A k \in 1 .. n : Before(seq, k) \subseteq (1 .. n) \ {k}
  BY DEF Before, Indexed
<1>3. \A k \in 1 .. n : IsFiniteSet(Before(seq, k)) /\ Cardinality(Before(seq, k)) \in Nat
  BY <1>1, <1>2, FS_Subset, FS_CardinalityType
<1>4. Cardinality(Before(seq, i)) <= n - 1
  <2>1. IsFiniteSet((1 .. n) \ {i}) /\ Cardinality((1 .. n) \ {i}) = n - 1
    <3> HIDE DEF n
    <3>1. i \in 1 .. n
      BY DEF n
    <3> QED
      BY <1>1, <3>1, FS_RemoveElement
  <2> QED
    BY <1>2, <2>1, FS_Subset
<1>5. ASSUME NEW j \in 1 .. n, i \in Before(seq, j)
      PROVE  Cardinality(Before(seq, i)) < Cardinality(Before(seq, j))
  <2>1. Before(seq, i) \subseteq Before(seq, j)
    BY <1>5 DEF Before, Indexed
  <2>2. i \notin Before(seq, i)
    BY <1>2
  <2>3. /\ Cardinality(Before(seq, i)) <= Cardinality(Before(seq, j))
        /\ Cardinality(Before(seq, i)) # Cardinality(Before(seq, j))
    BY <1>3, <1>5, <2>1, <2>2, FS_Subset
  <2> QED
    BY <1>3, <2>3
<1> QED
  BY <1>1, <1>3, <1>4, <1>5

\* The place from which the sort takes its k-th element.
Place(seq, k) == CHOOSE i \in DOMAIN seq : Cardinality(Before(seq, i)) = k - 1

\* Each place holds one element, and each element gets one place.
LEMMA PlaceCounts ==
  ASSUME NEW seq, Indexed(seq)
  PROVE  /\ \A k \in 1 .. Len(seq) :
              /\ Place(seq, k) \in 1 .. Len(seq)
              /\ Cardinality(Before(seq, Place(seq, k))) = k - 1
         /\ \A i \in 1 .. Len(seq) : \E k \in 1 .. Len(seq) : Place(seq, k) = i
<1> DEFINE n == Len(seq)
           f == [i \in 1 .. n |-> Cardinality(Before(seq, i))]
<1>1. n \in Nat /\ DOMAIN seq = 1 .. n
  BY DEF Indexed
<1>2. f \in [1 .. n -> 0 .. n - 1]
  BY BeforeCounts
<1>3. ASSUME NEW i \in 1 .. n, NEW j \in 1 .. n, f[i] = f[j] PROVE i = j
  <2>1. i = j \/ i \in Before(seq, j) \/ j \in Before(seq, i)
    BY DEF Before, Indexed
  <2>2. /\ i \in Before(seq, j) => f[i] < f[j]
        /\ j \in Before(seq, i) => f[j] < f[i]
    BY BeforeCounts
  <2>3. f[i] \in Nat /\ f[j] \in Nat
    BY <1>2
  <2> QED
    BY <1>3, <2>1, <2>2, <2>3
<1>4. \A k \in 0 .. n - 1 : \E i \in 1 .. n : f[i] = k
  <2> HIDE DEF f, n
  <2> QED
    BY <1>1, <1>2, <1>3, InjectionOnto
<1>5. ASSUME NEW k \in 1 .. n
      PROVE  Place(seq, k) \in 1 .. n /\ f[Place(seq, k)] = k - 1
  <2>1. k - 1 \in 0 .. n - 1
    BY <1>1
  <2>2. PICK i \in 1 .. n : f[i] = k - 1
    BY <1>4, <2>1
  <2>3. i \in DOMAIN seq /\ Cardinality(Before(seq, i)) = k - 1
    BY <1>1, <2>2
  <2>4. Place(seq, k) \in DOMAIN seq /\ Cardinality(Before(seq, Place(seq, k))) = k - 1
    BY <2>3 DEF Place
  <2> QED
    BY <1>1, <2>4
<1>6. ASSUME NEW i \in 1 .. n PROVE \E k \in 1 .. n : Place(seq, k) = i
  <2>1. PICK x \in 0 .. n - 1 : x = f[i]
    BY <1>2
  <2> DEFINE k == x + 1
  <2>2. Place(seq, k) \in 1 .. n /\ f[Place(seq, k)] = f[i]
    <3>1. k \in 1 .. n /\ k - 1 = x
      BY <1>1
    <3> HIDE DEF k, f, n
    <3> QED
      BY <1>5, <2>1, <3>1
  <2>3. Place(seq, k) = i
    BY <1>3, <2>2
  <2>4. k \in 1 .. n
    BY <1>1
  <2> HIDE DEF k, f, n
  <2> QED
    BY <2>3, <2>4
<1> QED
  BY <1>5, <1>6

\* The sort keeps the elements and puts them in the order of their indices.
LEMMA ByIndexSorts ==
  ASSUME NEW S, NEW seq \in Seq(S), Indexed(seq)
  PROVE  /\ ByIndex(seq) \in Seq(S) /\ Len(ByIndex(seq)) = Len(seq)
         /\ \A k \in 1 .. Len(seq) : ByIndex(seq)[k] = seq[Place(seq, k)]
         /\ \A j, k \in 1 .. Len(seq) :
              j < k => /\ Place(seq, j) # Place(seq, k)
                       /\ ByIndex(seq)[j].index <= ByIndex(seq)[k].index
<1>1. Len(seq) \in Nat /\ DOMAIN seq = 1 .. Len(seq)
  BY DEF Indexed
<1>2. ByIndex(seq) = [k \in 1 .. Len(seq) |-> seq[Place(seq, k)]]
  BY <1>1 DEF ByIndex, Place
<1>3. \A k \in 1 .. Len(seq) : seq[Place(seq, k)] \in S
  <2>1. \A k \in 1 .. Len(seq) : Place(seq, k) \in 1 .. Len(seq)
    BY PlaceCounts
  <2>2. \A i \in 1 .. Len(seq) : seq[i] \in S
    OBVIOUS
  <2> QED
    BY <2>1, <2>2
<1>4. ByIndex(seq) \in Seq(S) /\ Len(ByIndex(seq)) = Len(seq)
  BY <1>1, <1>2, <1>3
<1>5. \A k \in 1 .. Len(seq) : ByIndex(seq)[k] = seq[Place(seq, k)]
  BY <1>2
<1>6. ASSUME NEW j \in 1 .. Len(seq), NEW k \in 1 .. Len(seq), j < k
      PROVE  /\ Place(seq, j) # Place(seq, k)
             /\ ByIndex(seq)[j].index <= ByIndex(seq)[k].index
  <2> DEFINE p == Place(seq, j)
             q == Place(seq, k)
  <2>1. /\ p \in 1 .. Len(seq) /\ Cardinality(Before(seq, p)) = j - 1
        /\ q \in 1 .. Len(seq) /\ Cardinality(Before(seq, q)) = k - 1
    BY PlaceCounts
  <2>2. seq[p].index \in Nat /\ seq[q].index \in Nat
    BY <2>1 DEF Indexed
  <2>3. j \in Nat /\ k \in Nat /\ j - 1 < k - 1
    BY <1>6
  <2>4. p # q /\ q \notin Before(seq, p)
    <3> HIDE DEF p, q
    <3>1. q \in Before(seq, p) =>
            Cardinality(Before(seq, q)) < Cardinality(Before(seq, p))
      BY <2>1, BeforeCounts
    <3> QED
      BY <2>1, <2>3, <3>1
  <2>5. seq[p].index <= seq[q].index
    <3> HIDE DEF p, q
    <3> QED
      BY <1>1, <2>1, <2>2, <2>4 DEF Before
  <2> QED
    BY <1>5, <2>4, <2>5
<1> QED
  BY <1>4, <1>5, <1>6

\* No index twice.
Distinct(seq) == \A i, j \in DOMAIN seq : seq[i].index = seq[j].index => i = j

\* With different indices the order is strict.
LEMMA ByIndexStrict ==
  ASSUME NEW S, NEW seq \in Seq(S), Indexed(seq), Distinct(seq)
  PROVE  \A j, k \in 1 .. Len(seq) :
           j < k => ByIndex(seq)[j].index < ByIndex(seq)[k].index
<1> TAKE j, k \in 1 .. Len(seq)
<1> HAVE j < k
<1>1. Place(seq, j) \in 1 .. Len(seq) /\ Place(seq, k) \in 1 .. Len(seq)
  BY PlaceCounts
<1>2. /\ Place(seq, j) # Place(seq, k)
      /\ ByIndex(seq)[j].index <= ByIndex(seq)[k].index
      /\ ByIndex(seq)[j] = seq[Place(seq, j)]
      /\ ByIndex(seq)[k] = seq[Place(seq, k)]
  BY ByIndexSorts
<1>3. /\ seq[Place(seq, j)].index # seq[Place(seq, k)].index
      /\ seq[Place(seq, j)].index \in Nat /\ seq[Place(seq, k)].index \in Nat
  BY <1>1, <1>2 DEF Distinct, Indexed
<1> QED
  BY <1>2, <1>3

\* If every entry of a block is there, and once, the sort restores the block.
LEMMA ByIndexRestores ==
  ASSUME NEW b \in Seq(Nat), NEW seq \in Seq(Entry), Distinct(seq),
         \A i \in 1 .. Len(seq) : /\ seq[i].index \in 0 .. Len(b) - 1
                                  /\ seq[i].count = b[seq[i].index + 1],
         \A x \in 0 .. Len(b) - 1 : \E i \in 1 .. Len(seq) : seq[i].index = x
  PROVE  Counts(ByIndex(seq)) = b
<1> DEFINE n == Len(seq)
           f == [i \in 1 .. n |-> seq[i].index]
<1>1. n \in Nat /\ DOMAIN seq = 1 .. n /\ Len(b) \in Nat
  OBVIOUS
<1>2. \A i \in 1 .. n : seq[i].index \in Nat
  BY <1>1
<1>3. Indexed(seq)
  BY <1>1, <1>2 DEF Indexed
<1>4. f \in Bijection(1 .. n, 0 .. Len(b) - 1)
  <2>1. f \in [1 .. n -> 0 .. Len(b) - 1]
    OBVIOUS
  <2>2. \A i, j \in 1 .. n : f[i] = f[j] => i = j
    BY <1>1 DEF Distinct
  <2>3. \A x \in 0 .. Len(b) - 1 : \E i \in 1 .. n : f[i] = x
    OBVIOUS
  <2> HIDE DEF f, n
  <2> QED
    BY <2>1, <2>2, <2>3, Fun_IsBij
<1>5. n = Len(b)
  <2> HIDE DEF n
  <2>1. IsFiniteSet(1 .. n) /\ Cardinality(1 .. n) = n
    BY <1>1, IntervalCount
  <2>2. Cardinality(0 .. Len(b) - 1) = Len(b)
    BY <1>1, IntervalCount
  <2>3. ExistsBijection(1 .. n, 0 .. Len(b) - 1)
    BY <1>4 DEF ExistsBijection
  <2> QED
    BY <2>1, <2>2, <2>3, FS_Bijection
\* As many elements come before one as its index says.
<1>6. ASSUME NEW i \in 1 .. n PROVE Cardinality(Before(seq, i)) = seq[i].index
  <2> DEFINE B == Before(seq, i)
             g == [j \in B |-> seq[j].index]
             T == 0 .. seq[i].index - 1
  <2>1. \A j \in B : j \in 1 .. n /\ seq[j].index < seq[i].index
    <3>1. i \in DOMAIN seq /\ i \in Nat
      BY <1>1
    <3>2. \A j \in DOMAIN seq : seq[j].index = seq[i].index => ~(j < i)
      BY <3>1 DEF Distinct
    <3> QED
      BY <1>1, <3>2 DEF Before
  <2>2. \A j \in 1 .. n : seq[j].index < seq[i].index => j \in B
    BY <1>1 DEF Before
  <2> HIDE DEF B
  <2>3. g \in [B -> T]
    BY <1>2, <2>1
  <2>4. \A j, k \in B : g[j] = g[k] => j = k
    BY <1>1, <2>1 DEF Distinct
  <2>5. \A x \in T : \E j \in B : g[j] = x
    <3> TAKE x \in T
    <3>1. x \in 0 .. Len(b) - 1 /\ x < seq[i].index
      BY <1>1, <1>2
    <3>2. PICK j \in 1 .. n : seq[j].index = x
      BY <3>1
    <3> QED
      BY <2>2, <3>1, <3>2
  <2> HIDE DEF g
  <2>6. ExistsBijection(B, T)
    BY <2>3, <2>4, <2>5, Fun_IsBij DEF ExistsBijection
  <2>7. IsFiniteSet(B)
    BY <1>3, BeforeCounts DEF B
  <2>8. Cardinality(T) = Cardinality(B)
    <3> HIDE DEF T
    <3> QED
      BY <2>6, <2>7, FS_Bijection
  <2>9. Cardinality(T) = seq[i].index
    BY <1>2, IntervalCount
  <2> QED
    BY <2>8, <2>9 DEF B
<1>7. ASSUME NEW k \in 1 .. n PROVE ByIndex(seq)[k].count = b[k]
  <2>1. /\ Place(seq, k) \in 1 .. n
        /\ Cardinality(Before(seq, Place(seq, k))) = k - 1
    BY <1>3, PlaceCounts
  <2>2. seq[Place(seq, k)].index = k - 1
    BY <1>6, <2>1
  <2>3. ByIndex(seq)[k] = seq[Place(seq, k)]
    BY <1>3, ByIndexSorts
  <2>4. seq[Place(seq, k)].count = b[k - 1 + 1] /\ k - 1 + 1 = k
    BY <1>1, <2>1, <2>2
  <2> QED
    BY <2>3, <2>4
<1>8. Len(ByIndex(seq)) = n
  BY <1>3, ByIndexSorts
<1>9. Counts(ByIndex(seq)) = [k \in 1 .. n |-> ByIndex(seq)[k].count]
  BY <1>8 DEF Counts
<1> HIDE DEF n
<1>10. Counts(ByIndex(seq)) = [k \in 1 .. n |-> b[k]]
  BY <1>7, <1>9
<1> QED
  BY <1>5, <1>10

-----------------------------------------------------------------------------
(* The inductive invariant. *)

Msg(kind, s, x) == [kind |-> kind, slot |-> s, index |-> x]
Indices(b) == 0 .. Len(b) - 1

TypeInv ==
    /\ block \in Blocks
    /\ unseen \subseteq Messages
    /\ stream \in {"run", "ok", "err"}
    /\ gaps \subseteq Slots
    /\ rxOpen \in BOOLEAN
    /\ rows \in Seq(Row)
    /\ recvd \in 0 .. Len(rows) /\ Len(rows) - recvd <= ChannelSize

\* A recording holds parts of the block b, each once.
Recorded(b, rec) ==
    /\ rec \in Recording
    /\ \A i \in DOMAIN rec.entries :
         /\ rec.entries[i].index \in Indices(b)
         /\ rec.entries[i].count = b[rec.entries[i].index + 1]
    /\ \A i \in DOMAIN rec.txs : rec.txs[i].index \in 0 .. Total(b) - 1
    /\ Distinct(rec.entries) /\ Distinct(rec.txs)

Holds(rec, x) == \E i \in DOMAIN rec.entries : rec.entries[i].index = x

\* What the main loop records has been delivered.
RecordingsInv ==
    /\ DOMAIN recordings \subseteq Slots
    /\ \A s \in DOMAIN recordings :
         /\ Recorded(block[s], recordings[s])
         /\ \A i \in DOMAIN recordings[s].entries :
              Msg("entry", s, recordings[s].entries[i].index) \notin unseen
         /\ \A i \in DOMAIN recordings[s].txs :
              Msg("tx", s, recordings[s].txs[i].index) \notin unseen

\* Until the block's meta data: what has been delivered of its entries is in
\* the recording, if none was discarded.
CompleteInv ==
    stream = "run" =>
        \A s \in Slots :
            Msg("meta", s, 0) \in unseen /\ s \notin gaps =>
                \A x \in Indices(block[s]) :
                    Msg("entry", s, x) \notin unseen =>
                        s \in DOMAIN recordings /\ Holds(recordings[s], x)

\* collect_ticks and sort_txs have brought the transactions in order and, if
\* all entries of the block b are there, found the right ticks.
Collected(b, task, gap) ==
    /\ \A j, k \in DOMAIN task.rec.txs :
         j < k => task.rec.txs[j].index < task.rec.txs[k].index
    /\ ~gap => /\ Len(task.ticks) = Total(b)
               /\ \A x \in 0 .. Total(b) - 1 : task.ticks[x + 1] = TickOf(b, x)

\* The task of a block b.
TaskInv(b, task, gap) ==
    /\ task \in Task
    /\ task.next \in 1 .. Len(task.rec.txs) + 1
    /\ Recorded(b, task.rec)
    /\ IF task.stage = "spawned"
       THEN ~gap => \A x \in Indices(b) : Holds(task.rec, x)
       ELSE Collected(b, task, gap)
    /\ task.stage = "ended" => task.next = Len(task.rec.txs) + 1
    /\ task.stage = "panicked" => gap

TasksInv ==
    /\ DOMAIN tasks \subseteq Slots
    /\ \A s \in DOMAIN tasks :
         /\ TaskInv(block[s], tasks[s], s \in gaps)
         /\ Msg("meta", s, 0) \notin unseen

\* The task has passed a transaction with this index.
Passed(task, index) ==
    /\ task.stage # "spawned"
    /\ \E k \in DOMAIN task.rec.txs : k < task.next /\ task.rec.txs[k].index = index

\* A row is that of a transaction its task has passed.
RowsInv ==
    \A i \in DOMAIN rows :
        /\ rows[i].slot \in DOMAIN tasks
        /\ Passed(tasks[rows[i].slot], rows[i].index)
        /\ rows[i].slot \notin gaps =>
             rows[i].tick = TickOf(block[rows[i].slot], rows[i].index)

\* As long as somebody receives, each usable one it has passed has its row.
SentInv ==
    rxOpen =>
        \A s \in DOMAIN tasks : \A k \in DOMAIN tasks[s].rec.txs :
            /\ tasks[s].stage # "spawned" /\ k < tasks[s].next
            /\ tasks[s].rec.txs[k].whole
            => \E i \in DOMAIN rows :
                 rows[i].slot = s /\ rows[i].index = tasks[s].rec.txs[k].index

IInv ==
    /\ TypeInv /\ RecordingsInv /\ CompleteInv /\ TasksInv
    /\ RowsInv /\ SentInv /\ BlockOrder

-----------------------------------------------------------------------------
(* Lemmas about what is recorded. *)

\* The blocks of a run are sequences of numbers.
LEMMA BlockType ==
  ASSUME TypeInv, NEW s \in Slots
  PROVE  /\ block[s] \in Seq(Nat) /\ Len(block[s]) \in Nat
         /\ Total(block[s]) \in Nat
<1>1. block[s] \in Seq(Nat)
  BY BlocksAssumption DEF TypeInv
<1>2. Len(block[s]) \in Nat /\ Len(block[s]) \in 0 .. Len(block[s])
  BY <1>1
<1> QED
  BY <1>1, <1>2, SumsType DEF Total

\* What a message of the stream carries.
LEMMA MessageForm ==
  ASSUME NEW m \in Messages
  PROVE  /\ m.slot \in Slots
         /\ m.kind = "entry" => /\ m.index \in Indices(block[m.slot])
                                /\ m = Msg("entry", m.slot, m.index)
         /\ m.kind = "tx" => /\ m.index \in 0 .. Total(block[m.slot]) - 1
                             /\ m = Msg("tx", m.slot, m.index)
         /\ m.kind = "meta" => m = Msg("meta", m.slot, 0)
<1>1. PICK s \in Slots :
        m \in [kind : SlotUpdates \cup {"meta"}, slot : {s}, index : {0}]
              \cup [kind : {"entry"}, slot : {s}, index : 0 .. Len(block[s]) - 1]
              \cup [kind : {"tx"}, slot : {s}, index : TxsOf(s)]
  BY DEF Messages
<1>2. CASE m \in [kind : SlotUpdates \cup {"meta"}, slot : {s}, index : {0}]
  BY <1>2 DEF SlotUpdates, Msg
<1>3. CASE m \in [kind : {"entry"}, slot : {s}, index : 0 .. Len(block[s]) - 1]
  BY <1>3 DEF Msg, Indices
<1>4. CASE m \in [kind : {"tx"}, slot : {s}, index : TxsOf(s)]
  BY <1>4 DEF Msg, TxsOf, NumTxs
<1> QED
  BY <1>1, <1>2, <1>3, <1>4

\* A new recording holds nothing.
LEMMA EmptyRecorded ==
  ASSUME NEW b PROVE Recorded(b, EmptyRecording)
<1>1. EmptyRecording \in Recording
  BY DEF EmptyRecording, Recording
<1>2. DOMAIN EmptyRecording.entries = {} /\ DOMAIN EmptyRecording.txs = {}
  BY DEF EmptyRecording
<1> QED
  BY <1>1, <1>2 DEF Recorded, Distinct

\* A sequence with one more element has no index twice, if its index is new.
LEMMA AppendDistinct ==
  ASSUME NEW S, NEW seq \in Seq(S), NEW e \in S, Distinct(seq),
         \A i \in DOMAIN seq : seq[i].index # e.index
  PROVE  Distinct(Append(seq, e))
<1>1. /\ DOMAIN seq = 1 .. Len(seq) /\ Len(seq) \in Nat
      /\ DOMAIN Append(seq, e) = 1 .. Len(seq) + 1
      /\ \A i \in 1 .. Len(seq) : Append(seq, e)[i] = seq[i]
      /\ Append(seq, e)[Len(seq) + 1] = e
  BY AppendProperties
<1>2. \A i \in 1 .. Len(seq) + 1 : i \in 1 .. Len(seq) \/ i = Len(seq) + 1
  BY <1>1
<1> QED
  BY <1>1, <1>2 DEF Distinct

\* An entry that is not there yet can be added to a recording.
LEMMA AddEntry ==
  ASSUME NEW b \in Seq(Nat), NEW rec, Recorded(b, rec), NEW x \in Indices(b), ~Holds(rec, x)
  PROVE  LET new == [rec EXCEPT !.entries = Append(@, [index |-> x, count |-> b[x + 1]])]
         IN  /\ Recorded(b, new) /\ new.txs = rec.txs
             /\ \A y : Holds(new, y) <=> Holds(rec, y) \/ y = x
<1> DEFINE e == [index |-> x, count |-> b[x + 1]]
           seq == Append(rec.entries, e)
           new == [rec EXCEPT !.entries = seq]
<1>1. rec \in Recording /\ rec.entries \in Seq([index: Nat, count: Nat])
  BY DEF Recorded, Recording
<1>2. e \in [index: Nat, count: Nat]
  <2>1. x \in Nat /\ x + 1 \in 1 .. Len(b)
    BY DEF Indices
  <2> QED
    BY <2>1
<1>3. /\ seq \in Seq([index: Nat, count: Nat]) /\ DOMAIN seq = 1 .. Len(rec.entries) + 1
      /\ \A i \in 1 .. Len(rec.entries) : seq[i] = rec.entries[i]
      /\ seq[Len(rec.entries) + 1] = e
      /\ Len(rec.entries) \in Nat /\ DOMAIN rec.entries = 1 .. Len(rec.entries)
  <2> HIDE DEF e
  <2> QED
    BY <1>1, <1>2, AppendProperties
<1>4. Distinct(seq)
  <2>1. \A i \in DOMAIN rec.entries : rec.entries[i].index # e.index
    BY DEF Holds
  <2>2. Distinct(rec.entries)
    BY DEF Recorded
  <2> HIDE DEF e
  <2> QED
    BY <1>1, <1>2, <2>1, <2>2, AppendDistinct
<1>5. \A i \in DOMAIN seq : i \in DOMAIN rec.entries \/ i = Len(rec.entries) + 1
  BY <1>3
<1>6. e.index = x /\ e.count = b[x + 1]
  OBVIOUS
<1> HIDE DEF e, seq
<1>7. new \in Recording /\ new.entries = seq /\ new.txs = rec.txs
  BY <1>1, <1>3 DEF Recording
<1>8. Recorded(b, new)
  <2>1. ASSUME NEW i \in DOMAIN seq
        PROVE  seq[i].index \in Indices(b) /\ seq[i].count = b[seq[i].index + 1]
    BY <1>3, <1>5, <1>6 DEF Recorded
  <2> HIDE DEF new
  <2> QED
    BY <1>4, <1>7, <2>1 DEF Recorded
<1>9. \A y : Holds(new, y) <=> Holds(rec, y) \/ y = x
  <2> HIDE DEF new
  <2>1. ASSUME NEW y, Holds(new, y) PROVE Holds(rec, y) \/ y = x
    <3>1. PICK i \in DOMAIN seq : seq[i].index = y
      BY <1>7, <2>1 DEF Holds
    <3> QED
      BY <1>3, <1>5, <1>6, <3>1 DEF Holds
  <2>2. ASSUME NEW y, Holds(rec, y) PROVE Holds(new, y)
    <3>1. PICK i \in DOMAIN rec.entries : rec.entries[i].index = y
      BY <2>2 DEF Holds
    <3>2. i \in DOMAIN seq /\ seq[i] = rec.entries[i]
      BY <1>3
    <3> QED
      BY <1>7, <3>1, <3>2 DEF Holds
  <2>3. Holds(new, x)
    <3>1. Len(rec.entries) + 1 \in DOMAIN seq
      BY <1>3
    <3> QED
      BY <1>3, <1>6, <1>7, <3>1 DEF Holds
  <2> QED
    BY <2>1, <2>2, <2>3
<1> QED
  BY <1>7, <1>8, <1>9 DEF seq, e

\* And so can a transaction.
LEMMA AddTx ==
  ASSUME NEW b, NEW rec, Recorded(b, rec), NEW x \in 0 .. Total(b) - 1, Total(b) \in Nat,
         NEW whole \in BOOLEAN,
         \A i \in DOMAIN rec.txs : rec.txs[i].index # x
  PROVE  LET new == [rec EXCEPT !.txs = Append(@, [index |-> x, whole |-> whole])]
         IN  /\ Recorded(b, new) /\ new.entries = rec.entries
             /\ \A i \in DOMAIN new.txs :
                  new.txs[i].index = x
                  \/ \E j \in DOMAIN rec.txs : new.txs[i].index = rec.txs[j].index
<1> DEFINE e == [index |-> x, whole |-> whole]
           seq == Append(rec.txs, e)
           new == [rec EXCEPT !.txs = seq]
<1>1. rec \in Recording /\ rec.txs \in Seq(Tx)
  BY DEF Recorded, Recording
<1>2. e \in Tx
  BY DEF Tx
<1>3. /\ seq \in Seq(Tx) /\ DOMAIN seq = 1 .. Len(rec.txs) + 1
      /\ \A i \in 1 .. Len(rec.txs) : seq[i] = rec.txs[i]
      /\ seq[Len(rec.txs) + 1] = e
      /\ Len(rec.txs) \in Nat /\ DOMAIN rec.txs = 1 .. Len(rec.txs)
  <2> HIDE DEF e
  <2> QED
    BY <1>1, <1>2, AppendProperties
<1>4. Distinct(seq)
  <2>1. \A i \in DOMAIN rec.txs : rec.txs[i].index # e.index
    OBVIOUS
  <2>2. Distinct(rec.txs)
    BY DEF Recorded
  <2> HIDE DEF e
  <2> QED
    BY <1>1, <1>2, <2>1, <2>2, AppendDistinct
<1>5. \A i \in DOMAIN seq : i \in DOMAIN rec.txs \/ i = Len(rec.txs) + 1
  BY <1>3
<1>6. e.index = x
  OBVIOUS
<1> HIDE DEF e, seq
<1>7. new \in Recording /\ new.txs = seq /\ new.entries = rec.entries
  BY <1>1, <1>3 DEF Recording
<1>8. Recorded(b, new)
  <2>1. ASSUME NEW i \in DOMAIN seq PROVE seq[i].index \in 0 .. Total(b) - 1
    BY <1>3, <1>5, <1>6 DEF Recorded
  <2> HIDE DEF new
  <2> QED
    BY <1>4, <1>7, <2>1 DEF Recorded
<1>9. ASSUME NEW i \in DOMAIN seq
      PROVE  seq[i].index = x \/ \E j \in DOMAIN rec.txs : seq[i].index = rec.txs[j].index
  BY <1>3, <1>5, <1>6
<1> QED
  BY <1>7, <1>8, <1>9 DEF seq, e

\* Sorting keeps a recording, puts its transactions in order and, if every
\* entry of the block is there, makes find_tx_ticks find the right ticks.
LEMMA SortRecorded ==
  ASSUME NEW b \in Seq(Nat), Total(b) \in Nat, NEW rec, Recorded(b, rec)
  PROVE  LET txs     == ByIndex(rec.txs)
             entries == ByIndex(rec.entries)
         IN  /\ Recorded(b, [txs |-> txs, entries |-> entries])
             /\ Len(txs) \in Nat
             /\ \A j, k \in DOMAIN txs : j < k => txs[j].index < txs[k].index
             /\ FindTxTicks(entries) \in Seq(Nat)
             /\ (\A x \in Indices(b) : Holds(rec, x)) =>
                  /\ Len(FindTxTicks(entries)) = Total(b)
                  /\ \A x \in 0 .. Total(b) - 1 :
                       FindTxTicks(entries)[x + 1] = TickOf(b, x)
<1> DEFINE txs == ByIndex(rec.txs)
           entries == ByIndex(rec.entries)
           es == rec.entries
           ts == rec.txs
<1>1. rec \in Recording /\ es \in Seq(Entry) /\ ts \in Seq(Tx)
  BY DEF Recorded, Recording, Entry
<1>2. Indexed(es) /\ Indexed(ts)
  <2>1. \A i \in 1 .. Len(es) : es[i] \in Entry
    BY <1>1
  <2>2. \A i \in 1 .. Len(ts) : ts[i] \in Tx
    BY <1>1
  <2>3. Len(es) \in Nat /\ DOMAIN es = 1 .. Len(es)
        /\ Len(ts) \in Nat /\ DOMAIN ts = 1 .. Len(ts)
    BY <1>1
  <2> HIDE DEF es, ts
  <2> QED
    BY <2>1, <2>2, <2>3 DEF Indexed, Entry, Tx
<1>3. /\ \A i \in DOMAIN es : /\ es[i].index \in Indices(b)
                              /\ es[i].count = b[es[i].index + 1]
      /\ \A i \in DOMAIN ts : ts[i].index \in 0 .. Total(b) - 1
      /\ Distinct(es) /\ Distinct(ts)
  BY DEF Recorded
<1>4. /\ entries \in Seq(Entry) /\ Len(entries) = Len(es)
      /\ \A k \in 1 .. Len(es) : entries[k] = es[Place(es, k)] /\ Place(es, k) \in 1 .. Len(es)
      /\ \A j, k \in 1 .. Len(es) : j < k => entries[j].index < entries[k].index
  <2> HIDE DEF es
  <2> QED
    BY <1>1, <1>2, <1>3, ByIndexSorts, ByIndexStrict, PlaceCounts DEF es
<1>5. /\ txs \in Seq(Tx) /\ Len(txs) = Len(ts)
      /\ \A k \in 1 .. Len(ts) : txs[k] = ts[Place(ts, k)] /\ Place(ts, k) \in 1 .. Len(ts)
      /\ \A j, k \in 1 .. Len(ts) : j < k => txs[j].index < txs[k].index
  BY <1>1, <1>2, <1>3, ByIndexSorts, ByIndexStrict, PlaceCounts
<1>6. /\ DOMAIN es = 1 .. Len(es) /\ DOMAIN ts = 1 .. Len(ts)
      /\ Len(es) \in Nat /\ Len(ts) \in Nat
      /\ DOMAIN entries = 1 .. Len(es) /\ DOMAIN txs = 1 .. Len(ts)
  BY <1>1, <1>4, <1>5
<1> HIDE DEF txs, entries, es, ts
<1>7. Recorded(b, [txs |-> txs, entries |-> entries])
  <2> DEFINE new == [txs |-> txs, entries |-> entries]
  <2>1. new \in Recording /\ new.txs = txs /\ new.entries = entries
    BY <1>4, <1>5 DEF Recording, Entry
  <2>2. ASSUME NEW i \in DOMAIN entries
        PROVE  entries[i].index \in Indices(b)
               /\ entries[i].count = b[entries[i].index + 1]
    BY <1>3, <1>4, <1>6
  <2>3. ASSUME NEW i \in DOMAIN txs PROVE txs[i].index \in 0 .. Total(b) - 1
    BY <1>3, <1>5, <1>6
  <2>4. Distinct(entries)
    <3>1. ASSUME NEW i \in 1 .. Len(es), NEW j \in 1 .. Len(es),
                 entries[i].index = entries[j].index
          PROVE  i = j
      <4>1. entries[i].index \in Nat /\ entries[j].index \in Nat
        <5>1. i \in DOMAIN entries /\ j \in DOMAIN entries
          BY <1>6
        <5>2. entries[i].index \in Indices(b) /\ entries[j].index \in Indices(b)
          BY <2>2, <5>1
        <5> QED
          BY <5>2 DEF Indices
      <4>2. i < j \/ i = j \/ j < i
        BY <1>6
      <4> QED
        BY <1>4, <3>1, <4>1, <4>2
    <3> QED
      BY <1>6, <3>1 DEF Distinct
  <2>5. Distinct(txs)
    <3>1. ASSUME NEW i \in 1 .. Len(ts), NEW j \in 1 .. Len(ts),
                 txs[i].index = txs[j].index
          PROVE  i = j
      <4>1. txs[i].index \in Nat /\ txs[j].index \in Nat
        BY <1>6, <2>3
      <4>2. i < j \/ i = j \/ j < i
        BY <1>6
      <4> QED
        BY <1>5, <3>1, <4>1, <4>2
    <3> QED
      BY <1>6, <3>1 DEF Distinct
  <2> HIDE DEF new
  <2>6. Recorded(b, new)
    BY <2>1, <2>2, <2>3, <2>4, <2>5 DEF Recorded
  <2> QED
    BY <2>6 DEF new
<1>8. FindTxTicks(entries) \in Seq(Nat)
      /\ Len(FindTxTicks(entries)) = Total(Counts(entries))
  BY <1>4, TicksType
<1>9. ASSUME \A x \in Indices(b) : Holds(rec, x)
      PROVE  /\ Len(FindTxTicks(entries)) = Total(b)
             /\ \A x \in 0 .. Total(b) - 1 : FindTxTicks(entries)[x + 1] = TickOf(b, x)
  <2>1. \A x \in 0 .. Len(b) - 1 : \E i \in 1 .. Len(es) : es[i].index = x
    BY <1>6, <1>9 DEF Indices, Holds, es
  <2>2. \A i \in 1 .. Len(es) : /\ es[i].index \in 0 .. Len(b) - 1
                                /\ es[i].count = b[es[i].index + 1]
    BY <1>3, <1>6 DEF Indices
  <2>3. Counts(entries) = b
    BY <1>1, <1>3, <2>1, <2>2, ByIndexRestores DEF entries, es
  <2>4. ASSUME NEW x \in 0 .. Total(b) - 1
        PROVE  FindTxTicks(entries)[x + 1] = TickOf(b, x)
    <3>1. x \in Nat /\ x < Total(Counts(entries))
      BY <2>3
    <3>2. FindTxTicks(entries)[x + 1] = TickOf(Counts(entries), x)
      BY <1>4, <3>1, TicksCorrect
    <3> QED
      BY <2>3, <3>2
  <2> QED
    BY <1>8, <2>3, <2>4
<1>10. /\ Len(txs) \in Nat
       /\ \A j, k \in DOMAIN txs : j < k => txs[j].index < txs[k].index
  BY <1>5, <1>6
<1> QED
  BY <1>7, <1>8, <1>9, <1>10 DEF txs, entries

-----------------------------------------------------------------------------
(* The main loop. *)

\* At first nothing is recorded, sent or lost.
LEMMA InitInv == Init => IInv
<1> SUFFICES ASSUME Init PROVE IInv
  OBVIOUS
<1>1. DOMAIN recordings = {} /\ DOMAIN tasks = {}
  BY DEF Init, EmptyMap
<1>2. TypeInv
  <2>1. rows = <<>> /\ recvd = 0 /\ rows \in Seq(Row) /\ Len(rows) = 0
    BY DEF Init
  <2> QED
    BY <2>1, ChannelAssumption DEF Init, TypeInv
<1>3. CompleteInv
  <2>1. ASSUME NEW s \in Slots, NEW x \in Indices(block[s])
        PROVE  Msg("entry", s, x) \in unseen
    <3>1. Msg("entry", s, x)
            \in [kind : {"entry"}, slot : {s}, index : 0 .. Len(block[s]) - 1]
      BY DEF Msg, Indices
    <3> QED
      BY <3>1 DEF Init, Messages
  <2> QED
    BY <2>1 DEF CompleteInv
<1>4. RecordingsInv /\ TasksInv
  BY <1>1 DEF RecordingsInv, TasksInv
<1>5. DOMAIN rows = {}
  BY DEF Init
<1>6. RowsInv /\ SentInv /\ BlockOrder
  BY <1>1, <1>5 DEF RowsInv, SentInv, BlockOrder
<1> QED
  BY <1>2, <1>3, <1>4, <1>6 DEF IInv

\* A task that is right stays so when more is known to have been lost.
LEMMA TaskMonotone ==
  ASSUME NEW b, NEW task, NEW gap \in BOOLEAN, NEW gap2 \in BOOLEAN,
         gap => gap2, TaskInv(b, task, gap)
  PROVE  TaskInv(b, task, gap2)
BY DEF TaskInv, Collected

\* The main loop leaves the tasks and their rows alone.
LEMMA MainKeeps ==
  ASSUME IInv, UNCHANGED <<block, tasks, rows, recvd, rxOpen>>,
         unseen' \subseteq unseen, gaps \subseteq gaps', gaps' \subseteq Slots,
         stream' \in {"run", "ok", "err"}
  PROVE  TypeInv' /\ TasksInv' /\ RowsInv' /\ SentInv' /\ BlockOrder'
<1>1. TypeInv'
  <2>1. Messages' = Messages
    BY DEF Messages, TxsOf, NumTxs
  <2> QED
    BY <2>1 DEF IInv, TypeInv
<1>2. TasksInv'
  <2>1. ASSUME NEW s \in DOMAIN tasks
        PROVE  TaskInv(block[s], tasks[s], s \in gaps')
               /\ Msg("meta", s, 0) \notin unseen'
    <3>1. TaskInv(block[s], tasks[s], s \in gaps) /\ Msg("meta", s, 0) \notin unseen
      BY DEF IInv, TasksInv
    <3>2. (s \in gaps) \in BOOLEAN /\ (s \in gaps') \in BOOLEAN /\ (s \in gaps => s \in gaps')
      OBVIOUS
    <3>3. TaskInv(block[s], tasks[s], s \in gaps')
      BY <3>1, <3>2, TaskMonotone
    <3> QED
      BY <3>1, <3>3
  <2> QED
    BY <2>1 DEF IInv, TasksInv
<1>3. RowsInv'
  BY DEF IInv, RowsInv
<1>4. SentInv' /\ BlockOrder'
  BY DEF IInv, SentInv, BlockOrder
<1> QED
  BY <1>1, <1>2, <1>3, <1>4

\* A recording is begun or extended, and what it holds has been delivered.
LEMMA OneRecording ==
  ASSUME IInv, NEW s \in Slots, NEW rec, Recorded(block[s], rec),
         block' = block, unseen' \subseteq unseen,
         DOMAIN recordings' = DOMAIN recordings \cup {s}, recordings'[s] = rec,
         \A t \in DOMAIN recordings \ {s} : recordings'[t] = recordings[t],
         \A i \in DOMAIN rec.entries : Msg("entry", s, rec.entries[i].index) \notin unseen',
         \A i \in DOMAIN rec.txs : Msg("tx", s, rec.txs[i].index) \notin unseen'
  PROVE  RecordingsInv'
<1>1. DOMAIN recordings' \subseteq Slots
  BY DEF IInv, RecordingsInv
<1>2. ASSUME NEW t \in DOMAIN recordings'
      PROVE  /\ Recorded(block[t], recordings'[t])
             /\ \A i \in DOMAIN recordings'[t].entries :
                  Msg("entry", t, recordings'[t].entries[i].index) \notin unseen'
             /\ \A i \in DOMAIN recordings'[t].txs :
                  Msg("tx", t, recordings'[t].txs[i].index) \notin unseen'
  <2>1. CASE t = s
    BY <2>1
  <2>2. CASE t # s
    <3>1. t \in DOMAIN recordings /\ recordings'[t] = recordings[t]
      BY <2>2
    <3> QED
      BY <3>1 DEF IInv, RecordingsInv
  <2> QED
    BY <2>1, <2>2
<1> QED
  BY <1>1, <1>2 DEF RecordingsInv

\* A transaction is added to the recording of its slot, or dropped with it.
LEMMA TransactionStep ==
  ASSUME IInv, NEW m \in unseen, NEW whole \in BOOLEAN, OnTransaction(m, whole)
  PROVE  IInv'
<1>1. /\ m.kind = "tx" /\ unseen' = unseen \ {m} /\ stream = "run"
      /\ UNCHANGED <<block, stream, tasks, rows, recvd, rxOpen, gaps>>
  BY DEF OnTransaction, Delivered
<1> DEFINE s == m.slot
<1>2. /\ s \in Slots /\ m = Msg("tx", s, m.index)
      /\ m.index \in 0 .. Total(block[s]) - 1
  BY <1>1, MessageForm DEF IInv, TypeInv
<1>3. TypeInv' /\ TasksInv' /\ RowsInv' /\ SentInv' /\ BlockOrder'
  BY <1>1, MainKeeps DEF IInv, TypeInv
<1>4. \A t, x : Msg("entry", t, x) \in unseen => Msg("entry", t, x) \in unseen'
  BY <1>1 DEF Msg
<1>5. \A t : Msg("meta", t, 0) \in unseen' => Msg("meta", t, 0) \in unseen
  BY <1>1
<1>6. CASE s \in DOMAIN recordings
  <2> DEFINE rec == recordings[s]
             new == [rec EXCEPT !.txs = Append(@, [index |-> m.index, whole |-> whole])]
  <2>1. recordings' = [recordings EXCEPT ![s] = new]
    BY <1>6 DEF OnTransaction
  <2>2. /\ Recorded(block[s], rec)
        /\ \A i \in DOMAIN rec.txs : Msg("tx", s, rec.txs[i].index) \notin unseen
        /\ \A i \in DOMAIN rec.entries : Msg("entry", s, rec.entries[i].index) \notin unseen
    BY <1>6 DEF IInv, RecordingsInv
  <2>3. \A i \in DOMAIN rec.txs : rec.txs[i].index # m.index
    BY <1>2, <2>2
  <2>4. Total(block[s]) \in Nat
    BY <1>2, BlockType DEF IInv
  <2>5. /\ Recorded(block[s], new) /\ new.entries = rec.entries
        /\ \A i \in DOMAIN new.txs :
             new.txs[i].index = m.index
             \/ \E j \in DOMAIN rec.txs : new.txs[i].index = rec.txs[j].index
    <3> HIDE DEF s, rec
    <3> QED
      BY <1>2, <2>2, <2>3, <2>4, AddTx
  <2>6. /\ DOMAIN recordings' = DOMAIN recordings \cup {s} /\ recordings'[s] = new
        /\ \A t \in DOMAIN recordings \ {s} : recordings'[t] = recordings[t]
    <3> HIDE DEF new
    <3> QED
      BY <1>6, <2>1
  <2>7. \A i \in DOMAIN new.txs : Msg("tx", s, new.txs[i].index) \notin unseen'
    <3> HIDE DEF new, rec
    <3> QED
      BY <1>1, <1>2, <2>2, <2>5
  <2> HIDE DEF new
  <2>8. RecordingsInv'
    <3>1. unseen' \subseteq unseen /\ block' = block
      BY <1>1
    <3>2. \A i \in DOMAIN new.entries : Msg("entry", s, new.entries[i].index) \notin unseen'
      BY <2>2, <2>5, <3>1
    <3> QED
      BY <1>2, <2>5, <2>6, <2>7, <3>1, <3>2, OneRecording
  <2>9. CompleteInv'
    <3>1. \A t \in DOMAIN recordings : \A x :
            Holds(recordings[t], x) => t \in DOMAIN recordings' /\ Holds(recordings'[t], x)
      BY <2>5, <2>6 DEF Holds
    <3> QED
      BY <1>1, <1>4, <1>5, <3>1 DEF IInv, CompleteInv
  <2> QED
    BY <1>3, <2>8, <2>9 DEF IInv
<1>7. CASE s \notin DOMAIN recordings
  <2>1. recordings' = recordings
    BY <1>7 DEF OnTransaction
  <2>2. RecordingsInv'
    BY <1>1, <2>1 DEF IInv, RecordingsInv
  <2>3. CompleteInv'
    BY <1>1, <1>4, <1>5, <2>1 DEF IInv, CompleteInv
  <2> QED
    BY <1>3, <2>2, <2>3 DEF IInv
<1> QED
  BY <1>6, <1>7

\* An entry is added to the recording of its slot; if there is none, the slot
\* has a gap.
LEMMA EntryStep ==
  ASSUME IInv, NEW m \in unseen, OnEntry(m)
  PROVE  IInv'
<1>1. /\ m.kind = "entry" /\ unseen' = unseen \ {m} /\ stream = "run"
      /\ UNCHANGED <<block, stream, tasks, rows, recvd, rxOpen>>
      /\ gaps' = IF m.slot \in DOMAIN recordings THEN gaps ELSE gaps \cup {m.slot}
  BY DEF OnEntry, Delivered
<1> DEFINE s == m.slot
           x == m.index
<1>2. s \in Slots /\ m = Msg("entry", s, x) /\ x \in Indices(block[s])
  BY <1>1, MessageForm DEF IInv, TypeInv
<1>3. TypeInv' /\ TasksInv' /\ RowsInv' /\ SentInv' /\ BlockOrder'
  <2>1. unseen' \subseteq unseen /\ gaps \subseteq gaps' /\ gaps' \subseteq Slots
        /\ stream' \in {"run", "ok", "err"}
    BY <1>1, <1>2 DEF IInv, TypeInv
  <2> QED
    BY <1>1, <2>1, MainKeeps
<1>4. \A t, y : Msg("entry", t, y) \notin unseen' =>
                  Msg("entry", t, y) \notin unseen \/ (t = s /\ y = x)
  BY <1>1, <1>2 DEF Msg
<1>5. \A t : Msg("meta", t, 0) \in unseen' => Msg("meta", t, 0) \in unseen
  BY <1>1
<1>6. CASE s \in DOMAIN recordings
  <2> DEFINE rec == recordings[s]
             new == [rec EXCEPT !.entries =
                       Append(@, [index |-> x, count |-> block[s][x + 1]])]
  <2>1. recordings' = [recordings EXCEPT ![s] = new] /\ gaps' = gaps
    BY <1>6 DEF OnEntry
  <2>2. /\ Recorded(block[s], rec)
        /\ \A i \in DOMAIN rec.txs : Msg("tx", s, rec.txs[i].index) \notin unseen
        /\ \A i \in DOMAIN rec.entries : Msg("entry", s, rec.entries[i].index) \notin unseen
    BY <1>6 DEF IInv, RecordingsInv
  <2>3. ~Holds(rec, x)
    BY <1>2, <2>2 DEF Holds
  <2>4. block[s] \in Seq(Nat)
    BY <1>2, BlockType DEF IInv
  <2>5. /\ Recorded(block[s], new) /\ new.txs = rec.txs
        /\ \A y : Holds(new, y) <=> Holds(rec, y) \/ y = x
    <3> HIDE DEF s, rec, x
    <3> QED
      BY <1>2, <2>2, <2>3, <2>4, AddEntry
  <2>6. /\ DOMAIN recordings' = DOMAIN recordings \cup {s} /\ recordings'[s] = new
        /\ \A t \in DOMAIN recordings \ {s} : recordings'[t] = recordings[t]
    <3> HIDE DEF new
    <3> QED
      BY <1>6, <2>1
  <2>7. \A i \in DOMAIN new.entries : Msg("entry", s, new.entries[i].index) \notin unseen'
    <3> HIDE DEF new, rec, x
    <3> TAKE i \in DOMAIN new.entries
    <3>1. Holds(new, new.entries[i].index)
      BY DEF Holds
    <3>2. Holds(rec, new.entries[i].index) \/ new.entries[i].index = x
      BY <2>5, <3>1
    <3> QED
      BY <1>1, <1>2, <2>2, <3>2 DEF Holds
  <2> HIDE DEF new
  <2>8. RecordingsInv'
    <3>1. unseen' \subseteq unseen /\ block' = block
      BY <1>1
    <3>2. \A i \in DOMAIN new.txs : Msg("tx", s, new.txs[i].index) \notin unseen'
      BY <2>2, <2>5, <3>1
    <3> QED
      BY <1>2, <2>5, <2>6, <2>7, <3>1, <3>2, OneRecording
  <2>9. CompleteInv'
    <3>1. \A t \in DOMAIN recordings : \A y :
            Holds(recordings[t], y) => t \in DOMAIN recordings' /\ Holds(recordings'[t], y)
      BY <2>5, <2>6
    <3>2. s \in DOMAIN recordings' /\ Holds(recordings'[s], x)
      BY <2>5, <2>6
    <3> QED
      BY <1>1, <1>4, <1>5, <2>1, <3>1, <3>2 DEF IInv, CompleteInv
  <2> QED
    BY <1>3, <2>8, <2>9 DEF IInv
<1>7. CASE s \notin DOMAIN recordings
  <2>1. recordings' = recordings /\ gaps' = gaps \cup {s}
    BY <1>7 DEF OnEntry
  <2>2. RecordingsInv'
    BY <1>1, <2>1 DEF IInv, RecordingsInv
  <2>3. CompleteInv'
    BY <1>1, <1>4, <1>5, <2>1 DEF IInv, CompleteInv
  <2> QED
    BY <1>3, <2>2, <2>3 DEF IInv
<1> QED
  BY <1>6, <1>7

\* A slot that is forgotten, or whose recording goes to a task, leaves the
\* other recordings as they are.
LEMMA RemovedKeeps ==
  ASSUME IInv, NEW s, block' = block, unseen' \subseteq unseen,
         recordings' = Removed(recordings, s)
  PROVE  RecordingsInv'
<1>1. DOMAIN recordings' = DOMAIN recordings \ {s}
      /\ \A t \in DOMAIN recordings' : recordings'[t] = recordings[t]
  BY DEF Removed
<1> QED
  BY <1>1 DEF IInv, RecordingsInv

\* A slot update starts a recording that is not there yet, or drops one.
LEMMA SlotStep ==
  ASSUME IInv, NEW m \in unseen, OnSlot(m)
  PROVE  IInv'
<1>1. /\ m.kind \in SlotUpdates /\ unseen' = unseen \ {m} /\ stream = "run"
      /\ UNCHANGED <<block, stream, tasks, rows, recvd, rxOpen>>
      /\ gaps' = IF m.kind = "Dead" THEN gaps \cup ({m.slot} \cap DOMAIN recordings)
                 ELSE gaps
      /\ recordings' = IF m.kind = "Dead" THEN Removed(recordings, m.slot)
                       ELSE Started(m.slot)
  BY DEF OnSlot, Delivered
<1> DEFINE s == m.slot
<1>2. s \in Slots
  BY <1>1, MessageForm DEF IInv, TypeInv
<1>3. TypeInv' /\ TasksInv' /\ RowsInv' /\ SentInv' /\ BlockOrder'
  <2>1. unseen' \subseteq unseen /\ gaps \subseteq gaps' /\ gaps' \subseteq Slots
        /\ stream' \in {"run", "ok", "err"}
    BY <1>1, <1>2 DEF IInv, TypeInv
  <2> QED
    BY <1>1, <2>1, MainKeeps
<1>4. \A t, y : Msg("entry", t, y) \in unseen => Msg("entry", t, y) \in unseen'
  BY <1>1 DEF Msg, SlotUpdates
<1>5. \A t : Msg("meta", t, 0) \in unseen' => Msg("meta", t, 0) \in unseen
  BY <1>1
<1>6. CASE m.kind = "Dead"
  <2>1. recordings' = Removed(recordings, s)
        /\ gaps' = gaps \cup ({s} \cap DOMAIN recordings)
    BY <1>1, <1>6
  <2>2. RecordingsInv'
    BY <1>1, <2>1, RemovedKeeps
  <2>3. CompleteInv'
    <3>1. \A t \in DOMAIN recordings :
            t = s \/ (t \in DOMAIN recordings' /\ recordings'[t] = recordings[t])
      BY <2>1 DEF Removed
    <3> QED
      BY <1>1, <1>4, <1>5, <2>1, <3>1 DEF IInv, CompleteInv
  <2> QED
    BY <1>3, <2>2, <2>3 DEF IInv
<1>7. CASE m.kind # "Dead" /\ s \in DOMAIN recordings
  <2>1. recordings' = recordings /\ gaps' = gaps
    BY <1>1, <1>7 DEF Started
  <2>2. RecordingsInv'
    BY <1>1, <2>1 DEF IInv, RecordingsInv
  <2>3. CompleteInv'
    BY <1>1, <1>4, <1>5, <2>1 DEF IInv, CompleteInv
  <2> QED
    BY <1>3, <2>2, <2>3 DEF IInv
<1>8. CASE m.kind # "Dead" /\ s \notin DOMAIN recordings
  <2>1. recordings' = Inserted(recordings, s, EmptyRecording) /\ gaps' = gaps
    BY <1>1, <1>8 DEF Started
  <2>2. /\ DOMAIN recordings' = DOMAIN recordings \cup {s}
        /\ recordings'[s] = EmptyRecording
        /\ \A t \in DOMAIN recordings \ {s} : recordings'[t] = recordings[t]
    BY <2>1 DEF Inserted
  <2>3. RecordingsInv'
    <3>1. DOMAIN EmptyRecording.entries = {} /\ DOMAIN EmptyRecording.txs = {}
      BY DEF EmptyRecording
    <3>2. unseen' \subseteq unseen /\ block' = block /\ Recorded(block[s], EmptyRecording)
      BY <1>1, EmptyRecorded
    <3> HIDE DEF s
    <3> QED
      BY <1>2, <2>2, <3>1, <3>2, OneRecording
  <2>4. CompleteInv'
    <3>1. \A t \in DOMAIN recordings :
            t \in DOMAIN recordings' /\ recordings'[t] = recordings[t]
      BY <1>8, <2>2
    <3> QED
      BY <1>1, <1>4, <1>5, <2>1, <3>1 DEF IInv, CompleteInv
  <2> QED
    BY <1>3, <2>3, <2>4 DEF IInv
<1> QED
  BY <1>6, <1>7, <1>8

\* The end of a slot: if no entry of the block is outstanding or discarded,
\* its task gets them all.
LEMMA BlockMetaStep ==
  ASSUME IInv, NEW m \in unseen, OnBlockMeta(m)
  PROVE  IInv'
<1> DEFINE s == m.slot
<1>1. /\ m.kind = "meta" /\ unseen' = unseen \ {m} /\ stream = "run"
      /\ UNCHANGED <<block, stream, rows, recvd, rxOpen>>
      /\ gaps' = IF \E e \in unseen : e.kind = "entry" /\ e.slot = s
                 THEN gaps \cup {s} ELSE gaps
  BY DEF OnBlockMeta, Delivered
<1>2. s \in Slots /\ m = Msg("meta", s, 0)
  BY <1>1, MessageForm DEF IInv, TypeInv
<1>3. unseen' \subseteq unseen /\ gaps \subseteq gaps' /\ gaps' \subseteq Slots
      /\ stream' \in {"run", "ok", "err"}
  BY <1>1, <1>2 DEF IInv, TypeInv
<1>4. \A t, y : Msg("entry", t, y) \in unseen => Msg("entry", t, y) \in unseen'
  BY <1>1, <1>2 DEF Msg
<1>5. \A t : Msg("meta", t, 0) \in unseen' => Msg("meta", t, 0) \in unseen /\ t # s
  BY <1>1, <1>2
<1>6. CASE s \notin DOMAIN recordings
  <2>1. recordings' = recordings /\ tasks' = tasks
    BY <1>6 DEF OnBlockMeta
  <2>2. TypeInv' /\ TasksInv' /\ RowsInv' /\ SentInv' /\ BlockOrder'
    BY <1>1, <1>3, <2>1, MainKeeps
  <2>3. RecordingsInv'
    BY <1>1, <2>1 DEF IInv, RecordingsInv
  <2>4. CompleteInv'
    BY <1>1, <1>3, <1>4, <1>5, <2>1 DEF IInv, CompleteInv
  <2> QED
    BY <2>2, <2>3, <2>4 DEF IInv
<1>7. CASE s \in DOMAIN recordings
  <2> DEFINE rec == recordings[s]
             new == [stage |-> "spawned", rec |-> rec, ticks |-> <<>>, next |-> 1]
  <2>1. recordings' = Removed(recordings, s) /\ tasks' = Inserted(tasks, s, new)
    BY <1>7 DEF OnBlockMeta
  <2>2. RecordingsInv'
    BY <1>1, <1>3, <2>1, RemovedKeeps
  <2>3. CompleteInv'
    <3>1. \A t \in DOMAIN recordings :
            t = s \/ (t \in DOMAIN recordings' /\ recordings'[t] = recordings[t])
      BY <2>1 DEF Removed
    <3> QED
      BY <1>1, <1>3, <1>4, <1>5, <3>1 DEF IInv, CompleteInv
  <2>4. s \notin DOMAIN tasks
    BY <1>2 DEF IInv, TasksInv
  <2>5. /\ DOMAIN tasks' = DOMAIN tasks \cup {s} /\ tasks'[s] = new
        /\ \A t \in DOMAIN tasks : t # s /\ tasks'[t] = tasks[t]
    <3> HIDE DEF new
    <3> QED
      BY <2>1, <2>4 DEF Inserted
  <2>6. TypeInv'
    <3>1. Messages' = Messages
      BY <1>1 DEF Messages, TxsOf, NumTxs
    <3> QED
      BY <1>1, <1>3, <3>1 DEF IInv, TypeInv
  <2>7. Recorded(block[s], rec)
    BY <1>7 DEF IInv, RecordingsInv
  <2>8. s \notin gaps' => \A x \in Indices(block[s]) : Holds(rec, x)
    <3> SUFFICES ASSUME s \notin gaps', NEW x \in Indices(block[s]) PROVE Holds(rec, x)
      OBVIOUS
    <3>1. s \notin gaps /\ ~\E e \in unseen : e.kind = "entry" /\ e.slot = s
      BY <1>1
    <3>2. Msg("entry", s, x) \notin unseen
      BY <3>1 DEF Msg
    <3> QED
      BY <1>1, <1>2, <3>1, <3>2 DEF IInv, CompleteInv
  <2>9. TaskInv(block[s], new, s \in gaps')
    <3>1. /\ new.stage = "spawned" /\ new.rec = rec /\ new.ticks = <<>> /\ new.next = 1
          /\ rec \in Recording
      BY <2>7 DEF Recorded
    <3>2. new \in Task
      <4>1. <<>> \in Seq(Nat)
        OBVIOUS
      <4> HIDE DEF rec
      <4> QED
        BY <3>1, <4>1 DEF Task
    <3>3. Len(rec.txs) \in Nat
      BY <3>1 DEF Recording
    <3> HIDE DEF new, rec
    <3> QED
      BY <2>7, <2>8, <3>1, <3>2, <3>3 DEF TaskInv
  <2> HIDE DEF new
  <2>10. TasksInv'
    <3>1. ASSUME NEW t \in DOMAIN tasks'
          PROVE  TaskInv(block[t], tasks'[t], t \in gaps') /\ Msg("meta", t, 0) \notin unseen'
      <4>1. CASE t = s
        BY <1>5, <2>5, <2>9, <4>1
      <4>2. CASE t # s
        <5>1. /\ t \in DOMAIN tasks /\ tasks'[t] = tasks[t]
              /\ TaskInv(block[t], tasks[t], t \in gaps) /\ Msg("meta", t, 0) \notin unseen
          BY <2>5, <4>2 DEF IInv, TasksInv
        <5>2. /\ (t \in gaps) \in BOOLEAN /\ (t \in gaps') \in BOOLEAN
              /\ t \in gaps => t \in gaps'
          BY <1>3
        <5>3. TaskInv(block[t], tasks[t], t \in gaps')
          BY <5>1, <5>2, TaskMonotone
        <5> QED
          BY <1>3, <5>1, <5>3
      <4> QED
        BY <4>1, <4>2
    <3>2. DOMAIN tasks' \subseteq Slots
      BY <1>2, <2>5 DEF IInv, TasksInv
    <3> QED
      BY <1>1, <3>1, <3>2 DEF TasksInv
  <2>11. RowsInv'
    BY <1>1, <1>3, <2>5 DEF IInv, RowsInv
  <2>12. SentInv'
    <3>1. tasks'[s].stage = "spawned"
      BY <2>5 DEF new
    <3> QED
      BY <1>1, <2>5, <3>1 DEF IInv, SentInv
  <2>13. BlockOrder'
    BY <1>1 DEF IInv, BlockOrder
  <2> QED
    BY <2>2, <2>3, <2>6, <2>10, <2>11, <2>12, <2>13 DEF IInv
<1> QED
  BY <1>6, <1>7

\* The stream ends, and with it the recordings.
LEMMA StreamStep ==
  ASSUME IInv, NEW how \in {"ok", "err"}, StreamEnds(how)
  PROVE  IInv'
<1>1. /\ UNCHANGED <<block, unseen, tasks, rows, recvd, rxOpen, gaps>>
      /\ stream' = how /\ recordings' = EmptyMap
  BY DEF StreamEnds
<1>2. TypeInv' /\ TasksInv' /\ RowsInv' /\ SentInv' /\ BlockOrder'
  BY <1>1, MainKeeps DEF IInv, TypeInv
<1>3. RecordingsInv' /\ CompleteInv'
  BY <1>1 DEF RecordingsInv, CompleteInv, EmptyMap
<1> QED
  BY <1>2, <1>3 DEF IInv

-----------------------------------------------------------------------------
(* The tasks. *)

\* A step of one task leaves the main loop and the other tasks alone.
LEMMA OneTask ==
  ASSUME IInv, NEW s \in DOMAIN tasks, NEW t, TaskInv(block[s], t, s \in gaps),
         tasks' = [tasks EXCEPT ![s] = t],
         UNCHANGED <<block, unseen, stream, recordings, gaps>>
  PROVE  /\ RecordingsInv' /\ CompleteInv' /\ TasksInv'
         /\ DOMAIN tasks' = DOMAIN tasks /\ tasks'[s] = t
         /\ \A r \in DOMAIN tasks \ {s} : tasks'[r] = tasks[r]
<1>1. /\ DOMAIN tasks' = DOMAIN tasks /\ tasks'[s] = t
      /\ \A r \in DOMAIN tasks \ {s} : tasks'[r] = tasks[r]
  OBVIOUS
<1>2. RecordingsInv' /\ CompleteInv'
  BY DEF IInv, RecordingsInv, CompleteInv
<1>3. ASSUME NEW r \in DOMAIN tasks'
      PROVE  TaskInv(block[r], tasks'[r], r \in gaps) /\ Msg("meta", r, 0) \notin unseen
  <2>1. CASE r = s
    BY <1>1, <2>1 DEF IInv, TasksInv
  <2>2. CASE r # s
    BY <1>1, <2>2 DEF IInv, TasksInv
  <2> QED
    BY <2>1, <2>2
<1>4. TasksInv'
  BY <1>1, <1>3 DEF IInv, TasksInv
<1> QED
  BY <1>1, <1>2, <1>4

\* Nor does one that sends nothing disturb the rows, if the task goes on with
\* the same transactions and does not pass a usable one.
LEMMA NoRow ==
  ASSUME IInv, NEW s \in DOMAIN tasks, NEW t, tasks' = [tasks EXCEPT ![s] = t],
         UNCHANGED <<block, unseen, stream, recordings, rows, recvd, rxOpen, gaps>>,
         tasks[s].stage = "run", t.rec = tasks[s].rec, t.stage # "spawned",
         t.next \in Nat, tasks[s].next <= t.next,
         \A k \in DOMAIN tasks[s].rec.txs :
            tasks[s].next <= k /\ k < t.next => ~tasks[s].rec.txs[k].whole
  PROVE  TypeInv' /\ RowsInv' /\ SentInv' /\ BlockOrder'
<1>1. tasks[s].rec \in Recording /\ tasks[s].next \in Nat
  BY DEF IInv, TasksInv, TaskInv, Task
<1>2. DOMAIN tasks[s].rec.txs = 1 .. Len(tasks[s].rec.txs) /\ Len(tasks[s].rec.txs) \in Nat
  BY <1>1 DEF Recording
<1>3. TypeInv'
  <2>1. Messages' = Messages
    BY DEF Messages, TxsOf, NumTxs
  <2> QED
    BY <2>1 DEF IInv, TypeInv
<1>4. /\ DOMAIN tasks' = DOMAIN tasks /\ tasks'[s] = t
      /\ \A r \in DOMAIN tasks : r # s => tasks'[r] = tasks[r]
  OBVIOUS
<1>5. \A x : Passed(tasks[s], x) => Passed(t, x)
  BY <1>1, <1>2 DEF Passed
<1>6. RowsInv'
  <2> SUFFICES ASSUME NEW i \in DOMAIN rows
               PROVE  /\ rows[i].slot \in DOMAIN tasks'
                      /\ Passed(tasks'[rows[i].slot], rows[i].index)
                      /\ rows[i].slot \notin gaps =>
                           rows[i].tick = TickOf(block[rows[i].slot], rows[i].index)
    BY DEF RowsInv
  <2>1. /\ rows[i].slot \in DOMAIN tasks
        /\ Passed(tasks[rows[i].slot], rows[i].index)
        /\ rows[i].slot \notin gaps =>
             rows[i].tick = TickOf(block[rows[i].slot], rows[i].index)
    BY DEF IInv, RowsInv
  <2> QED
    BY <1>4, <1>5, <2>1
<1>7. SentInv'
  <2> SUFFICES ASSUME rxOpen, NEW r \in DOMAIN tasks, NEW k \in DOMAIN tasks'[r].rec.txs,
                      tasks'[r].stage # "spawned", k < tasks'[r].next,
                      tasks'[r].rec.txs[k].whole
               PROVE  \E i \in DOMAIN rows :
                        rows[i].slot = r /\ rows[i].index = tasks'[r].rec.txs[k].index
    BY <1>4 DEF SentInv
  <2>1. CASE r = s
    <3>1. k \in DOMAIN tasks[s].rec.txs /\ k < t.next /\ tasks[s].rec.txs[k].whole
      BY <1>4, <2>1
    <3>2. k < tasks[s].next
      BY <1>1, <1>2, <3>1
    <3>3. \E i \in DOMAIN rows :
            rows[i].slot = s /\ rows[i].index = tasks[s].rec.txs[k].index
      BY <3>1, <3>2 DEF IInv, SentInv
    <3> QED
      BY <1>4, <2>1, <3>3
  <2>2. CASE r # s
    BY <1>4, <2>2 DEF IInv, SentInv
  <2> QED
    BY <2>1, <2>2
<1>8. BlockOrder'
  BY DEF IInv, BlockOrder
<1> QED
  BY <1>3, <1>6, <1>7, <1>8

\* What a task is while it goes through its transactions.
LEMMA RunningTask ==
  ASSUME IInv, NEW s \in DOMAIN tasks, tasks[s].stage = "run"
  PROVE  /\ s \in Slots /\ tasks[s] \in Task
         /\ tasks[s].rec \in Recording /\ tasks[s].next \in Nat \ {0}
         /\ Len(tasks[s].rec.txs) \in Nat
         /\ DOMAIN tasks[s].rec.txs = 1 .. Len(tasks[s].rec.txs)
         /\ tasks[s].next <= Len(tasks[s].rec.txs) + 1
         /\ TaskInv(block[s], tasks[s], s \in gaps)
         /\ Collected(block[s], tasks[s], s \in gaps)
<1>1. s \in Slots /\ TaskInv(block[s], tasks[s], s \in gaps)
  BY DEF IInv, TasksInv
<1>2. /\ tasks[s] \in Task /\ tasks[s].rec \in Recording
      /\ tasks[s].next \in 1 .. Len(tasks[s].rec.txs) + 1
  BY <1>1 DEF TaskInv, Task
<1>3. Len(tasks[s].rec.txs) \in Nat /\ DOMAIN tasks[s].rec.txs = 1 .. Len(tasks[s].rec.txs)
  BY <1>2 DEF Recording
<1> QED
  BY <1>1, <1>2, <1>3 DEF TaskInv

\* A spawned task sorts what it was given and finds the ticks.
LEMMA CollectStep ==
  ASSUME IInv, NEW s \in Slots, Collect(s)
  PROVE  IInv'
<1> DEFINE rec == [txs |-> ByIndex(tasks[s].rec.txs),
                   entries |-> ByIndex(tasks[s].rec.entries)]
           t == [stage |-> "run", rec |-> rec, next |-> 1,
                 ticks |-> FindTxTicks(rec.entries)]
<1>1. /\ s \in DOMAIN tasks /\ tasks[s].stage = "spawned"
      /\ tasks' = [tasks EXCEPT ![s] = t]
      /\ UNCHANGED <<block, unseen, stream, recordings, rows, recvd, rxOpen, gaps>>
  BY DEF Collect
<1>2. /\ tasks[s].rec \in Recording /\ Recorded(block[s], tasks[s].rec)
      /\ s \notin gaps => \A x \in Indices(block[s]) : Holds(tasks[s].rec, x)
  BY <1>1 DEF IInv, TasksInv, TaskInv, Task
<1>3. block[s] \in Seq(Nat) /\ Total(block[s]) \in Nat
  BY BlockType DEF IInv
<1>4. /\ Recorded(block[s], rec) /\ Len(rec.txs) \in Nat
      /\ \A j, k \in DOMAIN rec.txs : j < k => rec.txs[j].index < rec.txs[k].index
      /\ FindTxTicks(rec.entries) \in Seq(Nat)
      /\ s \notin gaps =>
           /\ Len(FindTxTicks(rec.entries)) = Total(block[s])
           /\ \A x \in 0 .. Total(block[s]) - 1 :
                FindTxTicks(rec.entries)[x + 1] = TickOf(block[s], x)
  <2>1. rec.txs = ByIndex(tasks[s].rec.txs) /\ rec.entries = ByIndex(tasks[s].rec.entries)
    OBVIOUS
  <2> QED
    BY <1>2, <1>3, <2>1, SortRecorded
<1> HIDE DEF rec
<1>5. /\ t.stage = "run" /\ t.rec = rec /\ t.next = 1 /\ t.ticks = FindTxTicks(rec.entries)
      /\ rec \in Recording
  BY <1>4 DEF Recorded
<1>6. t \in Task
  BY <1>4, <1>5 DEF Task
<1> HIDE DEF t
<1>7. TaskInv(block[s], t, s \in gaps)
  BY <1>4, <1>5, <1>6 DEF TaskInv, Collected
<1>8. /\ RecordingsInv' /\ CompleteInv' /\ TasksInv'
      /\ DOMAIN tasks' = DOMAIN tasks /\ tasks'[s] = t
      /\ \A r \in DOMAIN tasks \ {s} : tasks'[r] = tasks[r]
  BY <1>1, <1>7, OneTask
<1>9. TypeInv'
  <2>1. Messages' = Messages
    BY <1>1 DEF Messages, TxsOf, NumTxs
  <2> QED
    BY <1>1, <2>1 DEF IInv, TypeInv
<1>10. RowsInv'
  <2>1. \A i \in DOMAIN rows : rows[i].slot # s
    BY <1>1 DEF IInv, RowsInv, Passed
  <2> QED
    BY <1>1, <1>8, <2>1 DEF IInv, RowsInv
<1>11. SentInv'
  <2>1. \A k \in DOMAIN t.rec.txs : ~(k < t.next)
    BY <1>4, <1>5 DEF Recording
  <2> QED
    BY <1>1, <1>8, <2>1 DEF IInv, SentInv
<1>12. BlockOrder'
  BY <1>1 DEF IInv, BlockOrder
<1> QED
  BY <1>8, <1>9, <1>10, <1>11, <1>12 DEF IInv

\* A task that goes on with what it has collected.
LEMMA GoesOn ==
  ASSUME NEW b, NEW task, NEW gap \in BOOLEAN, TaskInv(b, task, gap), task.stage = "run",
         NEW t \in Task, t.rec = task.rec, t.ticks = task.ticks,
         t.next \in 1 .. Len(task.rec.txs) + 1, t.stage # "spawned",
         t.stage = "ended" => t.next = Len(task.rec.txs) + 1,
         t.stage = "panicked" => gap
  PROVE  TaskInv(b, t, gap)
<1>1. Recorded(b, task.rec) /\ Collected(b, task, gap)
  BY DEF TaskInv
<1>2. Collected(b, t, gap)
  BY <1>1 DEF Collected
<1> QED
  BY <1>1, <1>2 DEF TaskInv

\* A task passes over a transaction without data.
LEMMA SkipStep ==
  ASSUME IInv, NEW s \in Slots, SkipTx(s)
  PROVE  IInv'
<1> DEFINE t == [tasks[s] EXCEPT !.next = @ + 1]
<1>1. /\ s \in DOMAIN tasks /\ tasks[s].stage = "run"
      /\ tasks[s].next <= Len(tasks[s].rec.txs)
      /\ ~tasks[s].rec.txs[tasks[s].next].whole
      /\ tasks' = [tasks EXCEPT ![s] = t]
      /\ UNCHANGED <<block, unseen, stream, recordings, rows, recvd, rxOpen, gaps>>
  BY DEF SkipTx, InLoop, Current, Advance
<1>2. /\ tasks[s] \in Task /\ tasks[s].rec \in Recording /\ tasks[s].next \in Nat \ {0}
      /\ Len(tasks[s].rec.txs) \in Nat
      /\ DOMAIN tasks[s].rec.txs = 1 .. Len(tasks[s].rec.txs)
      /\ TaskInv(block[s], tasks[s], s \in gaps)
  BY <1>1, RunningTask
<1>3. /\ t \in Task /\ t.stage = "run" /\ t.rec = tasks[s].rec
      /\ t.ticks = tasks[s].ticks /\ t.next = tasks[s].next + 1
  BY <1>1, <1>2 DEF Task
<1> HIDE DEF t
<1>4. TaskInv(block[s], t, s \in gaps)
  <2>1. t.next \in 1 .. Len(tasks[s].rec.txs) + 1
    BY <1>1, <1>2, <1>3
  <2>2. (s \in gaps) \in BOOLEAN
    OBVIOUS
  <2> QED
    BY <1>1, <1>2, <1>3, <2>1, <2>2, GoesOn
<1>5. RecordingsInv' /\ CompleteInv' /\ TasksInv'
  BY <1>1, <1>4, OneTask
<1>6. TypeInv' /\ RowsInv' /\ SentInv' /\ BlockOrder'
  <2>1. /\ t.next \in Nat /\ tasks[s].next <= t.next
        /\ \A k \in DOMAIN tasks[s].rec.txs :
             tasks[s].next <= k /\ k < t.next => k = tasks[s].next
    BY <1>2, <1>3
  <2>2. \A k \in DOMAIN tasks[s].rec.txs :
          tasks[s].next <= k /\ k < t.next => ~tasks[s].rec.txs[k].whole
    BY <1>1, <2>1
  <2>3. t.rec = tasks[s].rec /\ t.stage # "spawned"
    BY <1>3
  <2> QED
    BY <1>1, <2>1, <2>2, <2>3, NoRow
<1> QED
  BY <1>5, <1>6 DEF IInv

\* The index of a transaction lies beyond the ticks only if an entry is missing.
LEMMA PanicStep ==
  ASSUME IInv, NEW s \in Slots, Panic(s)
  PROVE  IInv'
<1> DEFINE t == [tasks[s] EXCEPT !.stage = "panicked"]
           tx == tasks[s].rec.txs[tasks[s].next]
<1>1. /\ s \in DOMAIN tasks /\ tasks[s].stage = "run"
      /\ tasks[s].next <= Len(tasks[s].rec.txs)
      /\ ~(tx.index < Len(tasks[s].ticks))
      /\ tasks' = [tasks EXCEPT ![s] = t]
      /\ UNCHANGED <<block, unseen, stream, recordings, rows, recvd, rxOpen, gaps>>
  BY DEF Panic, InLoop, Current, HasTick
<1>2. /\ tasks[s] \in Task /\ tasks[s].rec \in Recording /\ tasks[s].next \in Nat \ {0}
      /\ Len(tasks[s].rec.txs) \in Nat
      /\ DOMAIN tasks[s].rec.txs = 1 .. Len(tasks[s].rec.txs)
      /\ TaskInv(block[s], tasks[s], s \in gaps)
      /\ Collected(block[s], tasks[s], s \in gaps)
  BY <1>1, RunningTask
<1>3. /\ t \in Task /\ t.stage = "panicked" /\ t.rec = tasks[s].rec
      /\ t.ticks = tasks[s].ticks /\ t.next = tasks[s].next
  BY <1>1, <1>2 DEF Task
<1>4. s \in gaps
  <2>1. tx.index \in 0 .. Total(block[s]) - 1
    BY <1>1, <1>2 DEF TaskInv, Recorded
  <2>2. Total(block[s]) \in Nat
    BY BlockType DEF IInv
  <2>3. s \notin gaps => Len(tasks[s].ticks) = Total(block[s])
    BY <1>2 DEF Collected
  <2> HIDE DEF tx
  <2> QED
    BY <1>1, <2>1, <2>2, <2>3
<1> HIDE DEF t
<1>5. TaskInv(block[s], t, s \in gaps)
  <2>1. t.next \in 1 .. Len(tasks[s].rec.txs) + 1
    BY <1>1, <1>2, <1>3
  <2>2. (s \in gaps) \in BOOLEAN
    OBVIOUS
  <2> QED
    BY <1>1, <1>2, <1>3, <1>4, <2>1, <2>2, GoesOn
<1>6. RecordingsInv' /\ CompleteInv' /\ TasksInv'
  BY <1>1, <1>5, OneTask
<1>7. TypeInv' /\ RowsInv' /\ SentInv' /\ BlockOrder'
  <2>1. /\ t.next \in Nat /\ tasks[s].next <= t.next
        /\ \A k \in DOMAIN tasks[s].rec.txs : ~(tasks[s].next <= k /\ k < t.next)
    BY <1>2, <1>3
  <2>2. t.rec = tasks[s].rec /\ t.stage # "spawned"
    BY <1>3
  <2> QED
    BY <1>1, <2>1, <2>2, NoRow
<1> QED
  BY <1>6, <1>7 DEF IInv

\* A task ends after its last transaction.
LEMMA EndStep ==
  ASSUME IInv, NEW s \in Slots, TaskEnds(s)
  PROVE  IInv'
<1> DEFINE t == [tasks[s] EXCEPT !.stage = "ended"]
<1>1. /\ s \in DOMAIN tasks /\ tasks[s].stage = "run"
      /\ ~(tasks[s].next <= Len(tasks[s].rec.txs))
      /\ tasks' = [tasks EXCEPT ![s] = t]
      /\ UNCHANGED <<block, unseen, stream, recordings, rows, recvd, rxOpen, gaps>>
  BY DEF TaskEnds, InLoop
<1>2. /\ tasks[s] \in Task /\ tasks[s].rec \in Recording /\ tasks[s].next \in Nat \ {0}
      /\ Len(tasks[s].rec.txs) \in Nat /\ tasks[s].next <= Len(tasks[s].rec.txs) + 1
      /\ DOMAIN tasks[s].rec.txs = 1 .. Len(tasks[s].rec.txs)
      /\ TaskInv(block[s], tasks[s], s \in gaps)
  BY <1>1, RunningTask
<1>3. /\ t \in Task /\ t.stage = "ended" /\ t.rec = tasks[s].rec
      /\ t.ticks = tasks[s].ticks /\ t.next = tasks[s].next
  BY <1>1, <1>2 DEF Task
<1> HIDE DEF t
<1>4. TaskInv(block[s], t, s \in gaps)
  <2>1. t.next = Len(tasks[s].rec.txs) + 1 /\ t.next \in 1 .. Len(tasks[s].rec.txs) + 1
    BY <1>1, <1>2, <1>3
  <2>2. (s \in gaps) \in BOOLEAN
    OBVIOUS
  <2> QED
    BY <1>1, <1>2, <1>3, <2>1, <2>2, GoesOn
<1>5. RecordingsInv' /\ CompleteInv' /\ TasksInv'
  BY <1>1, <1>4, OneTask
<1>6. TypeInv' /\ RowsInv' /\ SentInv' /\ BlockOrder'
  <2>1. /\ t.next \in Nat /\ tasks[s].next <= t.next
        /\ \A k \in DOMAIN tasks[s].rec.txs : ~(tasks[s].next <= k /\ k < t.next)
    BY <1>2, <1>3
  <2>2. t.rec = tasks[s].rec /\ t.stage # "spawned"
    BY <1>3
  <2> QED
    BY <1>1, <2>1, <2>2, NoRow
<1> QED
  BY <1>5, <1>6 DEF IInv

\* The row of a transaction comes after those of the ones before it, with the
\* tick that has been found for it.
LEMMA SendStep ==
  ASSUME IInv, NEW s \in Slots, SendRow(s)
  PROVE  IInv'
<1> DEFINE t == [tasks[s] EXCEPT !.next = @ + 1]
           tx == tasks[s].rec.txs[tasks[s].next]
           row == [slot |-> s, index |-> tx.index, tick |-> tasks[s].ticks[tx.index + 1]]
<1>1. /\ s \in DOMAIN tasks /\ tasks[s].stage = "run"
      /\ tasks[s].next <= Len(tasks[s].rec.txs)
      /\ tx.index < Len(tasks[s].ticks)
      /\ rxOpen => Len(rows) - recvd < ChannelSize
      /\ rows' = IF rxOpen THEN Append(rows, row) ELSE rows
      /\ tasks' = [tasks EXCEPT ![s] = t]
      /\ UNCHANGED <<block, unseen, stream, recordings, recvd, rxOpen, gaps>>
  BY DEF SendRow, InLoop, Current, HasTick, Advance, Sends, HasRoom
<1>2. /\ tasks[s] \in Task /\ tasks[s].rec \in Recording /\ tasks[s].next \in Nat \ {0}
      /\ Len(tasks[s].rec.txs) \in Nat
      /\ DOMAIN tasks[s].rec.txs = 1 .. Len(tasks[s].rec.txs)
      /\ TaskInv(block[s], tasks[s], s \in gaps)
      /\ Collected(block[s], tasks[s], s \in gaps)
  BY <1>1, RunningTask
<1>3. /\ t \in Task /\ t.stage = "run" /\ t.rec = tasks[s].rec
      /\ t.ticks = tasks[s].ticks /\ t.next = tasks[s].next + 1
  <2>1. tasks[s] \in Task /\ tasks[s].stage = "run" /\ tasks[s].next + 1 \in Nat
    BY <1>1, <1>2
  <2> QED
    BY <2>1 DEF Task
<1>4. tasks[s].next \in DOMAIN tasks[s].rec.txs /\ tasks[s].next < t.next
  BY <1>1, <1>2, <1>3
<1>5. tx.index \in 0 .. Total(block[s]) - 1
  BY <1>2, <1>4 DEF TaskInv, Recorded
<1>6. Total(block[s]) \in Nat
  BY BlockType DEF IInv
<1> HIDE DEF t, tx
<1>7. row \in Row /\ row.slot = s /\ row.index = tx.index
      /\ row.tick = tasks[s].ticks[tx.index + 1]
  <2>1. tasks[s].ticks \in Seq(Nat)
    BY <1>2 DEF Task
  <2>2. tx.index \in Nat /\ tx.index + 1 \in 1 .. Len(tasks[s].ticks)
    BY <1>1, <1>5, <1>6, <2>1
  <2>3. tasks[s].ticks[tx.index + 1] \in Nat
    BY <2>1, <2>2
  <2> QED
    BY <2>2, <2>3 DEF Row
<1>8. s \notin gaps => row.tick = TickOf(block[s], row.index)
  BY <1>2, <1>5, <1>7 DEF Collected
<1>9. TaskInv(block[s], t, s \in gaps)
  <2>1. t.next \in 1 .. Len(tasks[s].rec.txs) + 1
    BY <1>1, <1>2, <1>3
  <2>2. (s \in gaps) \in BOOLEAN
    OBVIOUS
  <2> QED
    BY <1>1, <1>2, <1>3, <2>1, <2>2, GoesOn
<1>10. /\ RecordingsInv' /\ CompleteInv' /\ TasksInv'
       /\ DOMAIN tasks' = DOMAIN tasks /\ tasks'[s] = t
       /\ \A r \in DOMAIN tasks \ {s} : tasks'[r] = tasks[r]
  BY <1>1, <1>9, OneTask
<1>11. \A x : Passed(tasks[s], x) => Passed(t, x)
  BY <1>2, <1>3 DEF Passed
<1>12. Passed(t, tx.index)
  BY <1>3, <1>4 DEF Passed, tx
\* What the rows of s say is before the transaction that is sent.
<1>13. \A i \in DOMAIN rows : rows[i].slot = s => rows[i].index < tx.index
  <2> TAKE i \in DOMAIN rows
  <2> HAVE rows[i].slot = s
  <2>1. PICK k \in DOMAIN tasks[s].rec.txs :
          k < tasks[s].next /\ tasks[s].rec.txs[k].index = rows[i].index
    BY DEF IInv, RowsInv, Passed
  <2> QED
    BY <1>2, <1>4, <2>1 DEF Collected, tx
<1>14. /\ rows \in Seq(Row) /\ Len(rows) \in Nat /\ DOMAIN rows = 1 .. Len(rows)
       /\ recvd \in 0 .. Len(rows) /\ Len(rows) - recvd <= ChannelSize
       /\ ChannelSize \in Nat
  BY ChannelAssumption DEF IInv, TypeInv
<1> HIDE DEF row
<1>15. CASE rxOpen
  <2>1. /\ rows' \in Seq(Row) /\ Len(rows') = Len(rows) + 1
        /\ DOMAIN rows' = 1 .. Len(rows) + 1
        /\ \A i \in DOMAIN rows : i \in DOMAIN rows' /\ rows'[i] = rows[i]
        /\ rows'[Len(rows) + 1] = row /\ Len(rows) + 1 \in DOMAIN rows'
    BY <1>1, <1>7, <1>14, <1>15, AppendProperties
  <2>2. \A i \in DOMAIN rows' : i \in DOMAIN rows \/ i = Len(rows) + 1
    BY <1>14, <2>1
  <2>3. TypeInv'
    <3>1. Messages' = Messages
      BY <1>1 DEF Messages, TxsOf, NumTxs
    <3>2. recvd \in 0 .. Len(rows') /\ Len(rows') - recvd <= ChannelSize
      BY <1>1, <1>14, <1>15, <2>1
    <3> QED
      BY <1>1, <2>1, <3>1, <3>2 DEF IInv, TypeInv
  <2>4. RowsInv'
    <3> SUFFICES ASSUME NEW i \in DOMAIN rows'
                 PROVE  /\ rows'[i].slot \in DOMAIN tasks'
                        /\ Passed(tasks'[rows'[i].slot], rows'[i].index)
                        /\ rows'[i].slot \notin gaps =>
                             rows'[i].tick = TickOf(block[rows'[i].slot], rows'[i].index)
      BY <1>1 DEF RowsInv
    <3>1. CASE i \in DOMAIN rows
      <4>1. /\ rows'[i] = rows[i] /\ rows[i].slot \in DOMAIN tasks
            /\ Passed(tasks[rows[i].slot], rows[i].index)
            /\ rows[i].slot \notin gaps =>
                 rows[i].tick = TickOf(block[rows[i].slot], rows[i].index)
        BY <2>1, <3>1 DEF IInv, RowsInv
      <4> QED
        BY <1>10, <1>11, <4>1
    <3>2. CASE i = Len(rows) + 1
      BY <1>1, <1>7, <1>8, <1>10, <1>12, <2>1, <3>2
    <3> QED
      BY <2>2, <3>1, <3>2
  <2>5. SentInv'
    <3> SUFFICES ASSUME NEW r \in DOMAIN tasks, NEW k \in DOMAIN tasks'[r].rec.txs,
                        tasks'[r].stage # "spawned", k < tasks'[r].next,
                        tasks'[r].rec.txs[k].whole
                 PROVE  \E i \in DOMAIN rows' :
                          rows'[i].slot = r /\ rows'[i].index = tasks'[r].rec.txs[k].index
      BY <1>10 DEF SentInv
    <3>1. CASE r = s /\ k = tasks[s].next
      <4>1. tasks'[r].rec.txs[k].index = tx.index
        BY <1>3, <1>10, <3>1 DEF tx
      <4> QED
        BY <1>7, <2>1, <3>1, <4>1
    <3>2. CASE r = s /\ k # tasks[s].next
      <4>1. /\ k \in DOMAIN tasks[s].rec.txs /\ k < tasks[s].next
            /\ tasks[s].rec.txs[k].whole /\ tasks'[r].rec = tasks[s].rec
        BY <1>2, <1>3, <1>10, <3>2
      <4>2. \E i \in DOMAIN rows :
              rows[i].slot = s /\ rows[i].index = tasks[s].rec.txs[k].index
        BY <1>1, <1>15, <4>1 DEF IInv, SentInv
      <4> QED
        BY <2>1, <3>2, <4>1, <4>2
    <3>3. CASE r # s
      <4>1. \E i \in DOMAIN rows :
              rows[i].slot = r /\ rows[i].index = tasks[r].rec.txs[k].index
        BY <1>10, <1>15, <3>3 DEF IInv, SentInv
      <4> QED
        BY <1>10, <2>1, <3>3, <4>1
    <3> QED
      BY <3>1, <3>2, <3>3
  <2>6. BlockOrder'
    <3> SUFFICES ASSUME NEW i \in DOMAIN rows', NEW j \in DOMAIN rows',
                        i < j, rows'[i].slot = rows'[j].slot
                 PROVE  rows'[i].index < rows'[j].index
      BY DEF BlockOrder
    <3>1. i \in DOMAIN rows
      BY <1>14, <2>1
    <3>2. CASE j \in DOMAIN rows
      BY <2>1, <3>1, <3>2 DEF IInv, BlockOrder
    <3>3. CASE j = Len(rows) + 1
      BY <1>7, <1>13, <2>1, <3>1, <3>3
    <3> QED
      BY <2>2, <3>2, <3>3
  <2> QED
    BY <1>10, <2>3, <2>4, <2>5, <2>6 DEF IInv
<1>16. CASE ~rxOpen
  <2>1. rows' = rows /\ ~rxOpen'
    BY <1>1, <1>16
  <2>2. TypeInv'
    <3>1. Messages' = Messages
      BY <1>1 DEF Messages, TxsOf, NumTxs
    <3> QED
      BY <1>1, <2>1, <3>1 DEF IInv, TypeInv
  <2>3. RowsInv'
    <3> SUFFICES ASSUME NEW i \in DOMAIN rows
                 PROVE  /\ rows[i].slot \in DOMAIN tasks'
                        /\ Passed(tasks'[rows[i].slot], rows[i].index)
                        /\ rows[i].slot \notin gaps =>
                             rows[i].tick = TickOf(block[rows[i].slot], rows[i].index)
      BY <1>1, <2>1 DEF RowsInv
    <3>1. /\ rows[i].slot \in DOMAIN tasks
          /\ Passed(tasks[rows[i].slot], rows[i].index)
          /\ rows[i].slot \notin gaps =>
               rows[i].tick = TickOf(block[rows[i].slot], rows[i].index)
      BY DEF IInv, RowsInv
    <3> QED
      BY <1>10, <1>11, <3>1
  <2>4. SentInv' /\ BlockOrder'
    BY <2>1 DEF IInv, SentInv, BlockOrder
  <2> QED
    BY <1>10, <2>2, <2>3, <2>4 DEF IInv
<1> QED
  BY <1>15, <1>16

-----------------------------------------------------------------------------
(* The receiver, and the results. *)

\* Rows are received, or the receiver is dropped.
LEMMA ReceiverStep ==
  ASSUME IInv, Receive \/ CloseRx
  PROVE  IInv'
<1>1. /\ UNCHANGED <<block, unseen, stream, recordings, tasks, rows, gaps>>
      /\ \/ recvd' = recvd + 1 /\ recvd < Len(rows)
         \/ recvd' = recvd
  BY DEF Receive, CloseRx
<1>2. rxOpen' \in BOOLEAN /\ (rxOpen' => rxOpen)
  <2>1. CASE Receive
    BY <2>1, Zenon DEF Receive, IInv, TypeInv
  <2>2. CASE CloseRx
    BY <2>2, Zenon DEF CloseRx
  <2> QED
    BY <2>1, <2>2
<1>3. TypeInv'
  <2>1. Messages' = Messages
    BY <1>1 DEF Messages, TxsOf, NumTxs
  <2>2. Len(rows) \in Nat /\ recvd \in Nat /\ recvd <= Len(rows) /\ ChannelSize \in Nat
        /\ Len(rows) - recvd <= ChannelSize
    BY ChannelAssumption DEF IInv, TypeInv
  <2>3. recvd' \in 0 .. Len(rows) /\ Len(rows) - recvd' <= ChannelSize
    BY <1>1, <2>2
  <2> QED
    BY <1>1, <1>2, <2>1, <2>3 DEF IInv, TypeInv
<1>4. RecordingsInv' /\ CompleteInv' /\ TasksInv' /\ RowsInv' /\ BlockOrder'
  BY <1>1 DEF IInv, RecordingsInv, CompleteInv, TasksInv, RowsInv, BlockOrder
<1>5. SentInv'
  BY <1>1, <1>2 DEF IInv, SentInv
<1> QED
  BY <1>3, <1>4, <1>5 DEF IInv

\* Every step keeps the inductive invariant.
LEMMA NextInv == IInv /\ [Next]_vars => IInv'
<1> SUFFICES ASSUME IInv, [Next]_vars PROVE IInv'
  OBVIOUS
<1>1. ASSUME NEW m \in unseen, NEW whole \in BOOLEAN, OnTransaction(m, whole) PROVE IInv'
  BY <1>1, TransactionStep
<1>2. ASSUME NEW m \in unseen, OnEntry(m) PROVE IInv'
  BY <1>2, EntryStep
<1>3. ASSUME NEW m \in unseen, OnSlot(m) PROVE IInv'
  BY <1>3, SlotStep
<1>4. ASSUME NEW m \in unseen, OnBlockMeta(m) PROVE IInv'
  BY <1>4, BlockMetaStep
<1>5. ASSUME NEW how \in {"ok", "err"}, StreamEnds(how) PROVE IInv'
  BY <1>5, StreamStep
<1>6. ASSUME NEW s \in Slots, TaskStep(s) PROVE IInv'
  BY <1>6, CollectStep, SkipStep, SendStep, PanicStep, EndStep DEF TaskStep
<1>7. CASE UNCHANGED vars
  <2>1. Messages' = Messages
    BY <1>7 DEF Messages, TxsOf, NumTxs, vars
  <2>2. TypeInv'
    BY <1>7, <2>1 DEF IInv, TypeInv, vars
  <2>3. RecordingsInv' /\ CompleteInv' /\ TasksInv'
    BY <1>7 DEF IInv, RecordingsInv, CompleteInv, TasksInv, vars
  <2>4. RowsInv' /\ SentInv' /\ BlockOrder'
    BY <1>7 DEF IInv, RowsInv, SentInv, BlockOrder, vars
  <2> QED
    BY <2>2, <2>3, <2>4 DEF IInv
<1> QED
  BY <1>1, <1>2, <1>3, <1>4, <1>5, <1>6, <1>7, ReceiverStep DEF Next, MainLoop

\* The inductive invariant holds in every state.
THEOREM Invariant == Spec => []IInv
<1>1. Init => IInv
  BY InitInv
<1>2. IInv /\ [Next]_vars => IInv'
  BY NextInv
<1> QED
  BY <1>1, <1>2, PTL DEF Spec

\* Every variable keeps its type, and the block channel its bound.
THEOREM TypeCorrect == Spec => []TypeOK
<1>1. IInv => TypeOK
  <2> SUFFICES ASSUME IInv PROVE TypeOK
    OBVIOUS
  <2>1. \A s \in DOMAIN recordings : recordings[s] \in Recording
    BY DEF IInv, RecordingsInv, Recorded
  <2>2. \A s \in DOMAIN tasks : tasks[s] \in Task
    BY DEF IInv, TasksInv, TaskInv
  <2> QED
    BY <2>1, <2>2 DEF IInv, TypeInv, RecordingsInv, TasksInv, TypeOK
<1> QED
  BY <1>1, Invariant, PTL

\* Ticks: if no entry of the block was discarded or late, a row tells the tick
\* in which its transaction was executed, for blocks of any size and any
\* order in which the stream delivers their parts.
THEOREM TicksAreRight == Spec => []TickRight
<1>1. IInv => TickRight
  BY DEF IInv, RowsInv, TickRight
<1> QED
  BY <1>1, Invariant, PTL

\* Panics: the index of a transaction is out of range only if an entry of its
\* block was discarded or late.
THEOREM PanicsNeedGaps == Spec => []PanicNeedsGap
<1>1. IInv => PanicNeedsGap
  BY DEF IInv, TasksInv, TaskInv, PanicNeedsGap
<1> QED
  BY <1>1, Invariant, PTL

\* Rows: a task that ends while the channel is open has sent one for each
\* usable transaction it has recorded.
THEOREM RowsAreSent == Spec => []AllRowsSent
<1>1. IInv => AllRowsSent
  <2> SUFFICES ASSUME IInv, NEW s \in DOMAIN tasks, tasks[s].stage = "ended", rxOpen,
                      NEW k \in DOMAIN tasks[s].rec.txs, tasks[s].rec.txs[k].whole
               PROVE  \E i \in DOMAIN rows :
                        rows[i].slot = s /\ rows[i].index = tasks[s].rec.txs[k].index
    BY DEF AllRowsSent
  <2>1. tasks[s].rec \in Recording /\ tasks[s].next = Len(tasks[s].rec.txs) + 1
    BY DEF IInv, TasksInv, TaskInv, Recorded
  <2>2. k \in 1 .. Len(tasks[s].rec.txs) /\ Len(tasks[s].rec.txs) \in Nat
    BY <2>1 DEF Recording
  <2>3. k < tasks[s].next
    BY <2>1, <2>2
  <2> QED
    BY <2>3 DEF IInv, SentInv
<1> QED
  BY <1>1, Invariant, PTL

\* Order: the rows of a block are sent in the order of the block, and none
\* twice.
THEOREM RowsInOrder == Spec => []BlockOrder
<1>1. IInv => BlockOrder
  BY DEF IInv
<1> QED
  BY <1>1, Invariant, PTL
=============================================================================
