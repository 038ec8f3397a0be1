-------------------------- MODULE ContentionProofs --------------------------
(***************************************************************************)
(* Proofs about the analysis, for every set of accounts and every block:   *)
(* the two numbers kept per account give each transaction the earliest     *)
(* step its conflicts allow; the depth is the length of the longest chain  *)
(* of conflicts; widths and delays count every transaction; leaving votes  *)
(* out delays nothing. The last part is about messages: resolve gives what *)
(* their sender meant, so all of it holds for the blocks that are fetched. *)
(***************************************************************************)
EXTENDS Blocks, TLAPS, FiniteSetTheorems, SequenceTheorems, WellFoundedInduction

-----------------------------------------------------------------------------
(* Maxima                                                                  *)

\* A non-empty set of naturals with a bound has a greatest element.
LEMMA GreatestExists ==
  ASSUME NEW n \in Nat, NEW S \in SUBSET (0 .. n), S # {}
  PROVE  \E x \in S : \A y \in S : x >= y
<1> DEFINE Bounds == {k \in Nat : \A y \in S : y <= k}
<1>1. n \in Bounds
  OBVIOUS
<1>2. PICK k \in Bounds : \A j \in Bounds : <<j, k>> \notin OpToRel(<, Nat)
  <2>1. IsWellFoundedOn(OpToRel(<, Nat), Nat)
    BY NatLessThanWellFounded
  <2>2. Bounds \subseteq Nat /\ Bounds # {}
    BY <1>1
  <2>. QED
    BY <2>1, <2>2, WFMin
<1>0. k \in Nat /\ \A y \in S : y \in Nat /\ y <= k
  OBVIOUS
<1>3. \A j \in Bounds : ~(j < k)
  BY <1>2 DEF OpToRel
<1>4. k \in S
  <2>1. CASE k = 0
    <3>1. PICK y \in S : TRUE
      OBVIOUS
    <3>2. y \in Nat /\ y <= k
      BY <1>0
    <3>. QED
      BY <2>1, <3>1, <3>2
  <2>2. CASE k # 0
    <3>1. k - 1 \in Nat /\ k - 1 < k
      BY <1>0, <2>2
    <3>2. PICK y \in S : ~(y <= k - 1)
      BY <1>3, <3>1
    <3>3. y \in Nat /\ y <= k
      BY <1>0
    <3>. QED
      BY <3>1, <3>2, <3>3
  <2>. QED
    BY <2>1, <2>2
<1>5. \A y \in S : k >= y
  BY <1>0
<1>. QED
  BY <1>4, <1>5

\* What Max returns on such a set.
LEMMA MaxProperties ==
  ASSUME NEW n \in Nat, NEW S \in SUBSET (0 .. n), S # {}
  PROVE  Max(S) \in S /\ \A y \in S : y <= Max(S)
<1>1. PICK x \in S : \A y \in S : x >= y
  BY GreatestExists
<1>2. Max(S) \in S /\ \A y \in S : Max(S) >= y
  BY <1>1 DEF Max
<1>. QED
  BY <1>2

LEMMA MaxOfTwo ==
  ASSUME NEW x \in Nat, NEW y \in Nat
  PROVE  /\ Max({x, y}) \in {x, y}
         /\ x <= Max({x, y}) /\ y <= Max({x, y})
<1>1. {x, y} \in SUBSET (0 .. (x + y)) /\ {x, y} # {} /\ x + y \in Nat
  OBVIOUS
<1>. QED
  BY <1>1, MaxProperties
-----------------------------------------------------------------------------
(* Where a transaction goes                                                *)

LockSteps(b, n) ==
  /\ b.lastWriter \in [Accounts -> 0 .. n]
  /\ b.maxReader \in [Accounts -> 0 .. n]

\* The step is after every lock the transaction waits for, and directly after
\* one of them unless it is the first.
LEMMA StepProperties ==
  ASSUME NEW n \in Nat, NEW b, LockSteps(b, n), NEW tx \in Tx
  PROVE  LET s == StepOf(b, tx)
         IN  /\ s \in 1 .. (n + 1)
             /\ \A a \in tx.readonly \cup tx.writable : b.lastWriter[a] < s
             /\ \A a \in tx.writable : b.maxReader[a] < s
             /\ \/ s = 1
                \/ \E a \in tx.readonly \cup tx.writable : b.lastWriter[a] = s - 1
                \/ \E a \in tx.writable : b.maxReader[a] = s - 1
<1> DEFINE W == WriterSteps(b, tx.readonly \cup tx.writable)
           R == ReaderSteps(b, tx.writable)
           S == {0} \cup W \cup R
<1>1. tx.readonly \subseteq Accounts /\ tx.writable \subseteq Accounts
  BY DEF Tx
<1>2. S \in SUBSET (0 .. n) /\ S # {}
  BY <1>1 DEF WriterSteps, ReaderSteps, LockSteps
<1>3. Max(S) \in S /\ \A y \in S : y <= Max(S)
  BY <1>2, MaxProperties
<1>4. StepOf(b, tx) = 1 + Max(S) /\ Max(S) \in 0 .. n
  BY <1>2, <1>3 DEF StepOf
<1>5. \A a \in tx.readonly \cup tx.writable : b.lastWriter[a] \in S
  BY DEF WriterSteps
<1>6. \A a \in tx.writable : b.maxReader[a] \in S
  BY DEF ReaderSteps
<1>7. \/ Max(S) = 0
      \/ \E a \in tx.readonly \cup tx.writable : b.lastWriter[a] = Max(S)
      \/ \E a \in tx.writable : b.maxReader[a] = Max(S)
  BY <1>3 DEF WriterSteps, ReaderSteps
<1> HIDE DEF S
<1>8. StepOf(b, tx) - 1 = Max(S)
  BY <1>4
<1>9. \A y \in S : y < StepOf(b, tx)
  BY <1>2, <1>3, <1>4
<1>. QED
  BY <1>4, <1>5, <1>6, <1>7, <1>8, <1>9
-----------------------------------------------------------------------------
(* A schedule under construction                                           *)

\* A schedule of the transactions of `block`.
Built(b, block) ==
  b \in ScheduleType(Len(block)) /\ Len(b.steps) = Len(block)

\* lastWriter and maxReader are the latest steps at which an account is locked
\* for writing and for reading.
LocksKnown(b, block) ==
  \A a \in Accounts :
    /\ \A i \in DOMAIN block :
         /\ a \in block[i].writable => b.steps[i] <= b.lastWriter[a]
         /\ a \in block[i].readonly => b.steps[i] <= b.maxReader[a]
    /\ b.lastWriter[a] # 0 => \E i \in DOMAIN block :
         a \in block[i].writable /\ b.steps[i] = b.lastWriter[a]
    /\ b.maxReader[a] # 0 => \E i \in DOMAIN block :
         a \in block[i].readonly /\ b.steps[i] = b.maxReader[a]

Scheduled(b, block) ==
  Built(b, block) /\ LocksKnown(b, block) /\ Earliest(b.steps, block)

\* A schedule of a block, taken apart.
LEMMA ScheduleFacts ==
  ASSUME NEW block \in Seq(Tx), NEW b, Built(b, block)
  PROVE  /\ Len(block) \in Nat /\ DOMAIN block = 1 .. Len(block)
         /\ b.lastWriter \in [Accounts -> 0 .. Len(block)]
         /\ b.maxReader \in [Accounts -> 0 .. Len(block)]
         /\ \A i \in 1 .. Len(block) : b.steps[i] \in Nat /\ b.steps[i] >= 1
<1> DEFINE n == Len(block)
<1>1. n \in Nat /\ DOMAIN block = 1 .. n
  BY LenProperties
<1>2. /\ b.lastWriter \in [Accounts -> 0 .. n] /\ b.maxReader \in [Accounts -> 0 .. n]
      /\ b.steps \in Seq(1 .. n) /\ Len(b.steps) = n
  BY DEF Built, ScheduleType
<1>. HIDE DEF n
<1>3. \A i \in 1 .. n : b.steps[i] \in 1 .. n
  BY <1>2, ElementOfSeq
<1>4. \A i \in 1 .. n : b.steps[i] \in Nat /\ b.steps[i] >= 1
  BY <1>1, <1>3
<1>. QED
  BY <1>1, <1>2, <1>4 DEF n

LEMMA BlockFacts ==
  ASSUME NEW S, NEW block \in Seq(S), NEW tx \in S
  PROVE  /\ Append(block, tx) \in Seq(S) /\ Len(block) \in Nat
         /\ Len(Append(block, tx)) = Len(block) + 1
         /\ DOMAIN block = 1 .. Len(block)
         /\ DOMAIN Append(block, tx) = 1 .. (Len(block) + 1)
         /\ \A i \in 1 .. Len(block) : Append(block, tx)[i] = block[i]
         /\ Append(block, tx)[Len(block) + 1] = tx
BY AppendProperties

LEMMA WidenedType ==
  ASSUME NEW n \in Nat, NEW w \in Seq(0 .. n), NEW s \in 1 .. (n + 1)
  PROVE  /\ Widened(w, s) \in Seq(0 .. (n + 1))
         /\ Len(Widened(w, s)) \in {s, Len(w)}
         /\ s <= Len(Widened(w, s)) /\ Len(w) <= Len(Widened(w, s))
<1>1. /\ Max({s, Len(w)}) \in {s, Len(w)} /\ Max({s, Len(w)}) \in Nat
      /\ s <= Max({s, Len(w)}) /\ Len(w) <= Max({s, Len(w)})
  BY MaxOfTwo
<1>2. \A k \in 1 .. Max({s, Len(w)}) :
        (IF k <= Len(w) THEN w[k] ELSE 0) + (IF k = s THEN 1 ELSE 0) \in 0 .. (n + 1)
  <2>. TAKE k \in 1 .. Max({s, Len(w)})
  <2>1. (IF k <= Len(w) THEN w[k] ELSE 0) \in 0 .. n
    BY <1>1, ElementOfSeq
  <2>. QED
    BY <2>1
<1>3. Widened(w, s) \in [1 .. Max({s, Len(w)}) -> 0 .. (n + 1)]
  BY <1>2 DEF Widened
<1>4. Widened(w, s) \in Seq(0 .. (n + 1))
  <2>1. \E k \in Nat : Widened(w, s) \in [1 .. k -> 0 .. (n + 1)]
    BY <1>1, <1>3
  <2>. QED
    BY <2>1, SeqDef
<1>5. Len(Widened(w, s)) = Max({s, Len(w)})
  BY <1>1, <1>3, <1>4, LenProperties
<1>. QED
  BY <1>1, <1>4, <1>5

\* Placing a transaction keeps all of that.
LEMMA PlacedBuilt ==
  ASSUME NEW block \in Seq(Tx), NEW tx \in Tx, NEW b, Built(b, block)
  PROVE  /\ Built(Placed(b, tx), Append(block, tx))
         /\ StepOf(b, tx) \in 1 .. (Len(block) + 1)
         /\ \A i \in 1 .. Len(block) : Placed(b, tx).steps[i] = b.steps[i]
         /\ Placed(b, tx).steps[Len(block) + 1] = StepOf(b, tx)
<1> DEFINE n == Len(block)
           s == StepOf(b, tx)
<1>1. /\ n \in Nat /\ b.lastWriter \in [Accounts -> 0 .. n]
      /\ b.maxReader \in [Accounts -> 0 .. n]
      /\ b.steps \in Seq(1 .. n) /\ b.widths \in Seq(0 .. n) /\ Len(b.steps) = n
  BY DEF Built, ScheduleType
<1>2. s \in 1 .. (n + 1)
  BY <1>1, StepProperties DEF LockSteps
<1>. HIDE DEF s
<1>3. /\ Placed(b, tx).lastWriter
           = [a \in Accounts |-> IF a \in tx.writable THEN s ELSE b.lastWriter[a]]
      /\ Placed(b, tx).maxReader
           = [a \in Accounts |-> IF a \in tx.readonly THEN Max({b.maxReader[a], s})
                                                     ELSE b.maxReader[a]]
      /\ Placed(b, tx).steps = Append(b.steps, s)
      /\ Placed(b, tx).widths = Widened(b.widths, s)
  BY DEF Placed, s
<1>4. Placed(b, tx).lastWriter \in [Accounts -> 0 .. (n + 1)]
  BY <1>1, <1>2, <1>3
<1>5. Placed(b, tx).maxReader \in [Accounts -> 0 .. (n + 1)]
  <2>1. ASSUME NEW a \in Accounts
        PROVE  Max({b.maxReader[a], s}) \in 0 .. (n + 1)
    <3>1. b.maxReader[a] \in 0 .. n /\ s \in Nat
      BY <1>1, <1>2
    <3>2. Max({b.maxReader[a], s}) \in {b.maxReader[a], s}
      BY <3>1, MaxOfTwo
    <3>. QED
      BY <1>1, <1>2, <3>1, <3>2
  <2>2. \A a \in Accounts : b.maxReader[a] \in 0 .. (n + 1)
    BY <1>1
  <2>. QED
    BY <1>3, <2>1, <2>2
<1>6. /\ Append(b.steps, s) \in Seq(1 .. (n + 1)) /\ Len(Append(b.steps, s)) = n + 1
      /\ \A i \in 1 .. n : Append(b.steps, s)[i] = b.steps[i]
      /\ Append(b.steps, s)[n + 1] = s
  <2>1. b.steps \in Seq(1 .. (n + 1))
    <3>1. \A i \in 1 .. n : b.steps[i] \in 1 .. (n + 1)
      BY <1>1, ElementOfSeq
    <3>2. b.steps \in [1 .. n -> 1 .. (n + 1)]
      BY <1>1, <3>1, LenProperties
    <3>. QED
      BY <1>1, <3>2, SeqDef
  <2>. QED
    BY <1>1, <1>2, <2>1, AppendProperties
<1>7. Widened(b.widths, s) \in Seq(0 .. (n + 1))
  BY <1>1, <1>2, WidenedType
<1>8. Placed(b, tx) = [lastWriter |-> Placed(b, tx).lastWriter,
                       maxReader |-> Placed(b, tx).maxReader,
                       steps |-> Placed(b, tx).steps, widths |-> Placed(b, tx).widths]
  BY DEF Placed
<1>9. Len(Append(block, tx)) = n + 1
  BY BlockFacts
<1>10. Placed(b, tx) \in ScheduleType(n + 1)
  BY <1>3, <1>4, <1>5, <1>6, <1>7, <1>8 DEF ScheduleType
<1>. QED
  BY <1>2, <1>3, <1>6, <1>9, <1>10 DEF Built, s

LEMMA PlacedLocksKnown ==
  ASSUME NEW block \in Seq(Tx), NEW tx \in Tx, NEW b,
         Built(b, block), LocksKnown(b, block)
  PROVE  LocksKnown(Placed(b, tx), Append(block, tx))
<1> DEFINE n == Len(block)
           s == StepOf(b, tx)
           next == Placed(b, tx)
           longer == Append(block, tx)
<1>1. /\ n \in Nat /\ b.lastWriter \in [Accounts -> 0 .. n]
      /\ b.maxReader \in [Accounts -> 0 .. n]
      /\ b.steps \in Seq(1 .. n) /\ Len(b.steps) = n
  BY DEF Built, ScheduleType
<1>2. /\ s \in 1 .. (n + 1)
      /\ \A a \in tx.writable : b.lastWriter[a] < s
  BY <1>1, StepProperties DEF LockSteps
<1>3. /\ \A i \in 1 .. n : next.steps[i] = b.steps[i] /\ longer[i] = block[i]
      /\ next.steps[n + 1] = s /\ longer[n + 1] = tx
      /\ DOMAIN block = 1 .. n /\ DOMAIN longer = 1 .. (n + 1)
  BY PlacedBuilt, BlockFacts
<1>4. \A i \in 1 .. n : b.steps[i] \in Nat
  BY <1>1, ElementOfSeq
<1>5. ASSUME NEW a \in Accounts
      PROVE  /\ a \in tx.writable => next.lastWriter[a] = s
             /\ a \notin tx.writable => next.lastWriter[a] = b.lastWriter[a]
             /\ a \in tx.readonly => next.maxReader[a] = Max({b.maxReader[a], s})
             /\ a \notin tx.readonly => next.maxReader[a] = b.maxReader[a]
  BY DEF Placed
<1>6. ASSUME NEW a \in Accounts
      PROVE  /\ Max({b.maxReader[a], s}) \in {b.maxReader[a], s}
             /\ b.maxReader[a] <= Max({b.maxReader[a], s})
             /\ s <= Max({b.maxReader[a], s})
  <2>1. b.maxReader[a] \in Nat /\ s \in Nat
    BY <1>1, <1>2
  <2>. QED
    BY <2>1, MaxOfTwo
<1>. HIDE DEF s, next, longer, n
<1>7. ASSUME NEW a \in Accounts
      PROVE  /\ \A i \in DOMAIN longer :
                  /\ a \in longer[i].writable => next.steps[i] <= next.lastWriter[a]
                  /\ a \in longer[i].readonly => next.steps[i] <= next.maxReader[a]
             /\ next.lastWriter[a] # 0 => \E i \in DOMAIN longer :
                  a \in longer[i].writable /\ next.steps[i] = next.lastWriter[a]
             /\ next.maxReader[a] # 0 => \E i \in DOMAIN longer :
                  a \in longer[i].readonly /\ next.steps[i] = next.maxReader[a]
  <2>1. /\ \A i \in 1 .. n :
             /\ a \in block[i].writable => b.steps[i] <= b.lastWriter[a]
             /\ a \in block[i].readonly => b.steps[i] <= b.maxReader[a]
        /\ b.lastWriter[a] # 0 => \E i \in 1 .. n :
             a \in block[i].writable /\ b.steps[i] = b.lastWriter[a]
        /\ b.maxReader[a] # 0 => \E i \in 1 .. n :
             a \in block[i].readonly /\ b.steps[i] = b.maxReader[a]
    BY <1>3 DEF LocksKnown
  <2>2. b.lastWriter[a] \in Nat /\ b.maxReader[a] \in Nat /\ s \in Nat
    BY <1>1, <1>2
  <2>0. /\ next.lastWriter[a] \in Nat /\ next.maxReader[a] \in Nat
        /\ b.lastWriter[a] <= next.lastWriter[a]
        /\ b.maxReader[a] <= next.maxReader[a]
        /\ a \in tx.writable => s <= next.lastWriter[a]
        /\ a \in tx.readonly => s <= next.maxReader[a]
    <3>1. CASE a \in tx.writable
      <4>1. next.lastWriter[a] = s /\ b.lastWriter[a] < s
        BY <1>2, <1>5, <3>1
      <4>2. a \notin tx.readonly
        BY <3>1 DEF Tx
      <4>3. next.maxReader[a] = b.maxReader[a]
        BY <1>5, <4>2
      <4>. QED
        BY <2>2, <3>1, <4>1, <4>2, <4>3
    <3>2. CASE a \in tx.readonly
      <4>1. a \notin tx.writable
        BY <3>2 DEF Tx
      <4>2. next.lastWriter[a] = b.lastWriter[a]
        BY <1>5, <4>1
      <4>3. /\ next.maxReader[a] \in {b.maxReader[a], s}
            /\ b.maxReader[a] <= next.maxReader[a] /\ s <= next.maxReader[a]
        BY <1>5, <1>6, <3>2
      <4>. QED
        BY <2>2, <3>2, <4>1, <4>2, <4>3
    <3>3. CASE a \notin tx.writable /\ a \notin tx.readonly
      <4>1. next.lastWriter[a] = b.lastWriter[a] /\ next.maxReader[a] = b.maxReader[a]
        BY <1>5, <3>3
      <4>. QED
        BY <2>2, <3>3, <4>1
    <3>. QED
      BY <3>1, <3>2, <3>3
  <2>3. \A i \in 1 .. n : a \in longer[i].writable => next.steps[i] <= next.lastWriter[a]
    BY <1>3, <1>4, <2>0, <2>1, <2>2
  <2>4. \A i \in 1 .. n : a \in longer[i].readonly => next.steps[i] <= next.maxReader[a]
    BY <1>3, <1>4, <2>0, <2>1, <2>2
  <2>5. /\ a \in longer[n + 1].writable => next.steps[n + 1] <= next.lastWriter[a]
        /\ a \in longer[n + 1].readonly => next.steps[n + 1] <= next.maxReader[a]
    BY <1>3, <2>0
  <2>6. n \in Nat
    BY <1>1 DEF n
  <2>7. \A i \in DOMAIN longer : i \in 1 .. n \/ i = n + 1
    BY <1>3, <2>6
  <2>8. 1 .. n \subseteq DOMAIN longer /\ n + 1 \in DOMAIN longer
    BY <1>3, <2>6
  <2>9. next.lastWriter[a] # 0 => \E i \in DOMAIN longer :
          a \in longer[i].writable /\ next.steps[i] = next.lastWriter[a]
    BY <1>3, <1>5, <2>1, <2>8
  <2>10. next.maxReader[a] # 0 => \E i \in DOMAIN longer :
          a \in longer[i].readonly /\ next.steps[i] = next.maxReader[a]
    BY <1>3, <1>5, <1>6, <2>1, <2>8
  <2>. QED
    BY <2>3, <2>4, <2>5, <2>7, <2>9, <2>10
<1>. QED
  BY <1>7 DEF LocksKnown, next, longer

LEMMA PlacedEarliest ==
  ASSUME NEW block \in Seq(Tx), NEW tx \in Tx, NEW b, Scheduled(b, block)
  PROVE  Earliest(Placed(b, tx).steps, Append(block, tx))
<1> DEFINE n == Len(block)
           s == StepOf(b, tx)
           steps == Placed(b, tx).steps
           longer == Append(block, tx)
<1>1. /\ n \in Nat /\ b.lastWriter \in [Accounts -> 0 .. n]
      /\ b.maxReader \in [Accounts -> 0 .. n]
      /\ b.steps \in Seq(1 .. n) /\ Len(b.steps) = n
  BY DEF Scheduled, Built, ScheduleType
<1>2. /\ s \in 1 .. (n + 1)
      /\ \A a \in tx.readonly \cup tx.writable : b.lastWriter[a] < s
      /\ \A a \in tx.writable : b.maxReader[a] < s
      /\ \/ s = 1
         \/ \E a \in tx.readonly \cup tx.writable : b.lastWriter[a] = s - 1
         \/ \E a \in tx.writable : b.maxReader[a] = s - 1
  BY <1>1, StepProperties DEF LockSteps
<1>3. /\ \A i \in 1 .. n : steps[i] = b.steps[i] /\ longer[i] = block[i]
      /\ steps[n + 1] = s /\ longer[n + 1] = tx
      /\ DOMAIN block = 1 .. n /\ DOMAIN longer = 1 .. (n + 1)
  BY PlacedBuilt, BlockFacts DEF Scheduled
<1>4. \A i \in 1 .. n : b.steps[i] \in Nat
  BY <1>1, ElementOfSeq
<1>5. tx.readonly \subseteq Accounts /\ tx.writable \subseteq Accounts
  BY DEF Tx
<1>6. \A a \in Accounts : b.lastWriter[a] \in Nat /\ b.maxReader[a] \in Nat
  BY <1>1
<1>7. LocksKnown(b, block) /\ Earliest(b.steps, block)
  BY DEF Scheduled
<1>. HIDE DEF s, steps, longer, n
<1>8. ASSUME NEW i \in 1 .. n, Conflict(block[i], tx)
      PROVE  b.steps[i] < s
  <2>1. PICK a \in Accounts : ConflictOn(block[i], tx, a)
    BY <1>8 DEF Conflict
  <2>2. CASE a \in block[i].writable /\ a \in tx.writable \cup tx.readonly
    <3>1. b.steps[i] <= b.lastWriter[a]
      BY <1>3, <1>7, <2>2 DEF LocksKnown
    <3>. QED
      BY <1>2, <1>4, <1>6, <2>2, <3>1
  <2>3. CASE a \in tx.writable /\ a \in block[i].readonly
    <3>1. b.steps[i] <= b.maxReader[a]
      BY <1>3, <1>7, <2>3 DEF LocksKnown
    <3>. QED
      BY <1>2, <1>4, <1>6, <2>3, <3>1
  <2>. QED
    BY <2>1, <2>2, <2>3 DEF ConflictOn
<1>9. s > 1 => \E i \in 1 .. n : Conflict(block[i], tx) /\ b.steps[i] = s - 1
  <2>1. ASSUME NEW a \in tx.readonly \cup tx.writable, s > 1, b.lastWriter[a] = s - 1
        PROVE  \E i \in 1 .. n : Conflict(block[i], tx) /\ b.steps[i] = s - 1
    <3>1. a \in Accounts /\ b.lastWriter[a] # 0
      BY <1>2, <1>5, <2>1
    <3>2. PICK i \in 1 .. n : a \in block[i].writable /\ b.steps[i] = b.lastWriter[a]
      BY <1>3, <1>7, <3>1 DEF LocksKnown
    <3>3. Conflict(block[i], tx)
      BY <3>1, <3>2 DEF Conflict, ConflictOn
    <3>. QED
      BY <2>1, <3>2, <3>3
  <2>2. ASSUME NEW a \in tx.writable, s > 1, b.maxReader[a] = s - 1
        PROVE  \E i \in 1 .. n : Conflict(block[i], tx) /\ b.steps[i] = s - 1
    <3>1. a \in Accounts /\ b.maxReader[a] # 0
      BY <1>2, <1>5, <2>2
    <3>2. PICK i \in 1 .. n : a \in block[i].readonly /\ b.steps[i] = b.maxReader[a]
      BY <1>3, <1>7, <3>1 DEF LocksKnown
    <3>3. Conflict(block[i], tx)
      BY <3>1, <3>2 DEF Conflict, ConflictOn
    <3>. QED
      BY <2>2, <3>2, <3>3
  <2>. QED
    BY <1>2, <2>1, <2>2
<1>10. n \in Nat
  BY <1>1 DEF n
<1>11. ASSUME NEW j \in DOMAIN longer
       PROVE  LET before == {i \in 1 .. (j - 1) : Conflict(longer[i], longer[j])}
              IN  /\ \A i \in before : steps[i] < steps[j]
                  /\ steps[j] > 1 => \E i \in before : steps[i] = steps[j] - 1
  <2>1. CASE j \in 1 .. n
    <3>1. \A i \in 1 .. (j - 1) : i \in 1 .. n
      BY <1>10, <2>1
    <3>2. /\ \A i \in {k \in 1 .. (j - 1) : Conflict(block[k], block[j])} :
                b.steps[i] < b.steps[j]
          /\ b.steps[j] > 1 =>
                \E i \in {k \in 1 .. (j - 1) : Conflict(block[k], block[j])} :
                  b.steps[i] = b.steps[j] - 1
      BY <1>3, <1>7, <2>1 DEF Earliest
    <3>. QED
      BY <1>3, <2>1, <3>1, <3>2
  <2>2. CASE j = n + 1
    <3>1. 1 .. (j - 1) = 1 .. n
      BY <1>10, <2>2
    <3>. QED
      BY <1>3, <1>8, <1>9, <2>2, <3>1
  <2>. QED
    BY <1>3, <1>10, <2>1, <2>2
<1>. QED
  BY <1>11 DEF Earliest, steps, longer

LEMMA PlacedScheduled ==
  ASSUME NEW block \in Seq(Tx), NEW tx \in Tx, NEW b, Scheduled(b, block)
  PROVE  Scheduled(Placed(b, tx), Append(block, tx))
BY PlacedBuilt, PlacedLocksKnown, PlacedEarliest DEF Scheduled
-----------------------------------------------------------------------------
(* The two schedules of a block                                            *)

\* No account is locked later in the schedule without votes.
LocksNoLater ==
  \A a \in Accounts : /\ nonVote.lastWriter[a] <= all.lastWriter[a]
                      /\ nonVote.maxReader[a] <= all.maxReader[a]

IInv ==
  /\ TypeOK
  /\ Scheduled(all, txs)
  /\ Scheduled(nonVote, NonVoteBlock)
  /\ LocksNoLater
  /\ VotesNeverHelp

\* Locks at later steps never give a transaction an earlier one.
LEMMA StepMonotone ==
  ASSUME NEW n \in Nat, NEW k \in Nat, NEW b, NEW c,
         LockSteps(b, n), LockSteps(c, k), NEW tx \in Tx,
         \A a \in Accounts : /\ b.lastWriter[a] <= c.lastWriter[a]
                            /\ b.maxReader[a] <= c.maxReader[a]
  PROVE  /\ StepOf(b, tx) <= StepOf(c, tx)
         /\ \A a \in Accounts :
              /\ Placed(b, tx).lastWriter[a] <= Placed(c, tx).lastWriter[a]
              /\ Placed(b, tx).maxReader[a] <= Placed(c, tx).maxReader[a]
<1> DEFINE s == StepOf(b, tx)
           t == StepOf(c, tx)
<1>1. /\ s \in 1 .. (n + 1)
      /\ \/ s = 1
         \/ \E a \in tx.readonly \cup tx.writable : b.lastWriter[a] = s - 1
         \/ \E a \in tx.writable : b.maxReader[a] = s - 1
  BY StepProperties
<1>2. /\ t \in 1 .. (k + 1)
      /\ \A a \in tx.readonly \cup tx.writable : c.lastWriter[a] < t
      /\ \A a \in tx.writable : c.maxReader[a] < t
  BY StepProperties
<1>3. tx.readonly \subseteq Accounts /\ tx.writable \subseteq Accounts
  BY DEF Tx
<1>4. \A a \in Accounts : /\ b.lastWriter[a] \in Nat /\ c.lastWriter[a] \in Nat
                          /\ b.maxReader[a] \in Nat /\ c.maxReader[a] \in Nat
  BY DEF LockSteps
<1>. HIDE DEF s, t
<1>5. s <= t
  BY <1>1, <1>2, <1>3, <1>4
<1>6. ASSUME NEW a \in Accounts
      PROVE  /\ Placed(b, tx).lastWriter[a] <= Placed(c, tx).lastWriter[a]
             /\ Placed(b, tx).maxReader[a] <= Placed(c, tx).maxReader[a]
  <2>1. /\ Placed(b, tx).lastWriter[a] = IF a \in tx.writable THEN s ELSE b.lastWriter[a]
        /\ Placed(c, tx).lastWriter[a] = IF a \in tx.writable THEN t ELSE c.lastWriter[a]
        /\ Placed(b, tx).maxReader[a]
             = IF a \in tx.readonly THEN Max({b.maxReader[a], s}) ELSE b.maxReader[a]
        /\ Placed(c, tx).maxReader[a]
             = IF a \in tx.readonly THEN Max({c.maxReader[a], t}) ELSE c.maxReader[a]
    BY DEF Placed, s, t
  <2>2. s \in Nat /\ t \in Nat
    BY <1>1, <1>2
  <2>3. Max({b.maxReader[a], s}) \in {b.maxReader[a], s}
    BY <1>4, <2>2, MaxOfTwo
  <2>4. /\ c.maxReader[a] <= Max({c.maxReader[a], t}) /\ t <= Max({c.maxReader[a], t})
        /\ Max({c.maxReader[a], t}) \in {c.maxReader[a], t}
    BY <1>4, <2>2, MaxOfTwo
  <2>5. Max({b.maxReader[a], s}) <= Max({c.maxReader[a], t})
    BY <1>4, <1>5, <2>2, <2>3, <2>4
  <2>. QED
    BY <1>4, <1>5, <2>1, <2>5
<1>. QED
  BY <1>5, <1>6 DEF s, t

\* The block without votes and the positions it came from.
LEMMA NonVoteBlockFacts ==
  ASSUME TypeOK
  PROVE  /\ NonVoteBlock \in Seq(Tx)
         /\ Len(NonVoteBlock) = Len(nonVoteTxs) /\ Len(nonVoteTxs) \in Nat
         /\ DOMAIN nonVoteTxs = 1 .. Len(nonVoteTxs)
         /\ DOMAIN txs = 1 .. Len(txs) /\ Len(txs) \in Nat
         /\ \A i \in 1 .. Len(nonVoteTxs) :
              nonVoteTxs[i] \in 1 .. Len(txs) /\ NonVoteBlock[i] = txs[nonVoteTxs[i]]
<1>1. /\ DOMAIN nonVoteTxs = 1 .. Len(nonVoteTxs) /\ Len(nonVoteTxs) \in Nat
      /\ DOMAIN txs = 1 .. Len(txs) /\ Len(txs) \in Nat
  BY LenProperties DEF TypeOK
<1>2. \A i \in 1 .. Len(nonVoteTxs) : nonVoteTxs[i] \in 1 .. Len(txs)
  BY <1>1, ElementOfSeq DEF TypeOK
<1>3. \A k \in 1 .. Len(txs) : txs[k] \in Tx
  BY ElementOfSeq DEF TypeOK
<1>4. NonVoteBlock \in [1 .. Len(nonVoteTxs) -> Tx]
  BY <1>1, <1>2, <1>3 DEF NonVoteBlock
<1>5. NonVoteBlock \in Seq(Tx)
  <2>1. \E k \in Nat : NonVoteBlock \in [1 .. k -> Tx]
    BY <1>1, <1>4
  <2>. QED
    BY <2>1, SeqDef
<1>6. Len(NonVoteBlock) = Len(nonVoteTxs)
  BY <1>1, <1>4, <1>5, LenProperties
<1>. QED
  BY <1>1, <1>2, <1>5, <1>6 DEF NonVoteBlock

\* A block with no transaction yet.
LEMMA EmptyFacts ==
  /\ <<>> \in Seq(Tx) /\ Len(<<>>) = 0 /\ DOMAIN <<>> = {}
  /\ Scheduled(EmptySchedule, <<>>)
  /\ EmptySchedule \in ScheduleType(0) /\ Len(EmptySchedule.steps) = 0
  /\ Len(EmptySchedule.widths) = 0
<1>1. Len(<<>>) = 0 /\ DOMAIN <<>> = {} /\ \A S : <<>> \in Seq(S)
  BY EmptySeq
<1>2. EmptySchedule \in ScheduleType(0)
  <2>1. 0 \in 0 .. 0
    OBVIOUS
  <2>. QED
    BY <1>1, <2>1 DEF EmptySchedule, ScheduleType
<1>3. EmptySchedule.steps = <<>> /\ EmptySchedule.widths = <<>>
  BY DEF EmptySchedule
<1>4. LocksKnown(EmptySchedule, <<>>)
  BY <1>1 DEF LocksKnown, EmptySchedule
<1>5. Earliest(<<>>, <<>>)
  BY <1>1 DEF Earliest
<1>. QED
  BY <1>1, <1>2, <1>3, <1>4, <1>5 DEF Scheduled, Built

LEMMA EmptyBlock ==
  Init => IInv
<1>. SUFFICES ASSUME Init
              PROVE  IInv
  OBVIOUS
<1>1. /\ txs = <<>> /\ nonVoteTxs = <<>> /\ all = EmptySchedule
      /\ nonVote = EmptySchedule /\ stats = NoStats
  BY DEF Init
<1>2. \A S : <<>> \in Seq(S)
  BY EmptySeq
<1>3. stats \in [Accounts -> [writeLocks : 0 .. 0, readLocks : 0 .. 0, delays : 0 .. 0,
                             programs : SUBSET UNION ProgramSets]]
  BY <1>1 DEF NoStats
<1>4. TypeOK
  BY <1>1, <1>2, <1>3, EmptyFacts, BoundsAssumption DEF TypeOK
<1>5. NonVoteBlock = <<>>
  <2>1. NonVoteBlock \in Seq(Tx) /\ Len(NonVoteBlock) = 0
    BY <1>1, <1>4, NonVoteBlockFacts, EmptyFacts
  <2>. QED
    BY <2>1, EmptySeq
<1>6. Scheduled(all, txs) /\ Scheduled(nonVote, NonVoteBlock)
  BY <1>1, <1>5, EmptyFacts
<1>7. LocksNoLater
  BY <1>1 DEF LocksNoLater, EmptySchedule
<1>8. VotesNeverHelp
  BY <1>1, EmptyFacts DEF VotesNeverHelp
<1>. QED
  BY <1>4, <1>6, <1>7, <1>8 DEF IInv

\* The counters of an account grow by at most one a transaction.
LEMMA StatsType ==
  ASSUME TypeOK, NEW tx \in Tx, Place(tx)
  PROVE  stats' \in [Accounts -> [writeLocks : 0 .. Len(txs'), readLocks : 0 .. Len(txs'),
                                 delays : 0 .. Len(txs'),
                                 programs : SUBSET UNION ProgramSets]]
<1>1. Len(txs) \in Nat /\ Len(txs') = Len(txs) + 1
  BY BlockFacts DEF TypeOK, Place
<1>2. \A p : One(p) \in {0, 1}
  BY DEF One
<1>3. tx.programs \subseteq UNION ProgramSets
  BY DEF Tx
<1>4. stats' = Attributed(tx)
  BY DEF Place
<1>5. ASSUME NEW a \in Accounts
      PROVE  /\ stats[a].writeLocks \in 0 .. Len(txs)
             /\ stats[a].readLocks \in 0 .. Len(txs)
             /\ stats[a].delays \in 0 .. Len(txs)
             /\ stats[a].programs \in SUBSET UNION ProgramSets
  BY DEF TypeOK
<1>6. \A x \in 0 .. Len(txs) : \A p : x + One(p) \in 0 .. Len(txs')
  BY <1>1, <1>2
<1>7. ASSUME NEW a \in Accounts
      PROVE  Attributed(tx)[a] \in [writeLocks : 0 .. Len(txs'), readLocks : 0 .. Len(txs'),
                                    delays : 0 .. Len(txs'),
                                    programs : SUBSET UNION ProgramSets]
  <2>. DEFINE delayed == CriticalAccounts(all, tx)
  <2>1. Attributed(tx)[a] =
         [writeLocks |-> stats[a].writeLocks + One(a \in tx.writable),
          readLocks  |-> stats[a].readLocks + One(a \in tx.readonly),
          delays     |-> stats[a].delays + One(a \in delayed),
          programs   |-> stats[a].programs
                           \cup (IF a \in delayed THEN tx.programs ELSE {})]
    BY DEF Attributed
  <2>. HIDE DEF delayed
  <2>2. /\ stats[a].writeLocks + One(a \in tx.writable) \in 0 .. Len(txs')
        /\ stats[a].readLocks + One(a \in tx.readonly) \in 0 .. Len(txs')
        /\ stats[a].delays + One(a \in delayed) \in 0 .. Len(txs')
    BY <1>5, <1>6
  <2>3. stats[a].programs \cup (IF a \in delayed THEN tx.programs ELSE {})
          \in SUBSET UNION ProgramSets
    BY <1>3, <1>5
  <2>. QED
    BY <2>1, <2>2, <2>3
<1>8. Attributed(tx) = [a \in Accounts |-> Attributed(tx)[a]]
  BY DEF Attributed
<1>. QED
  BY <1>4, <1>7, <1>8

\* The schedule with votes after one more transaction.
LEMMA PlaceAllTxs ==
  ASSUME IInv, NEW tx \in Tx, Place(tx)
  PROVE  /\ txs' \in Seq(Tx) /\ Len(txs') = Len(txs) + 1 /\ Len(txs') <= MaxTxs
         /\ Scheduled(all', txs')
         /\ \A i \in 1 .. Len(txs) : txs'[i] = txs[i] /\ all'.steps[i] = all.steps[i]
         /\ txs'[Len(txs) + 1] = tx /\ all'.steps[Len(txs) + 1] = StepOf(all, tx)
         /\ DOMAIN txs' = 1 .. (Len(txs) + 1)
<1>1. /\ txs \in Seq(Tx) /\ Len(txs) \in Nat /\ Len(txs) < MaxTxs
      /\ txs' = Append(txs, tx) /\ all' = Placed(all, tx) /\ Scheduled(all, txs)
  BY LenProperties DEF IInv, TypeOK, Place
<1>. QED
  BY <1>1, BlockFacts, PlacedScheduled, PlacedBuilt, BoundsAssumption DEF Scheduled

\* The schedule without them after one that is no vote.
LEMMA PlaceNonVote ==
  ASSUME IInv, NEW tx \in Tx, Place(tx), ~IsVote(tx)
  PROVE  /\ nonVoteTxs' \in Seq(DOMAIN txs')
         /\ Len(nonVoteTxs') = Len(nonVoteTxs) + 1
         /\ DOMAIN nonVoteTxs' = 1 .. (Len(nonVoteTxs) + 1)
         /\ \A i \in 1 .. Len(nonVoteTxs) : nonVoteTxs'[i] = nonVoteTxs[i]
         /\ nonVoteTxs'[Len(nonVoteTxs) + 1] = Len(txs) + 1
         /\ NonVoteBlock' = Append(NonVoteBlock, tx)
         /\ Scheduled(nonVote', NonVoteBlock')
         /\ \A i \in 1 .. Len(nonVoteTxs) : nonVote'.steps[i] = nonVote.steps[i]
         /\ nonVote'.steps[Len(nonVoteTxs) + 1] = StepOf(nonVote, tx)
<1>1. /\ nonVoteTxs' = Append(nonVoteTxs, Len(txs) + 1)
      /\ nonVote' = Placed(nonVote, tx)
  BY DEF Place
<1>2. /\ NonVoteBlock \in Seq(Tx)
      /\ Len(NonVoteBlock) = Len(nonVoteTxs) /\ Len(nonVoteTxs) \in Nat
      /\ DOMAIN nonVoteTxs = 1 .. Len(nonVoteTxs)
      /\ DOMAIN txs = 1 .. Len(txs) /\ Len(txs) \in Nat
      /\ \A i \in 1 .. Len(nonVoteTxs) :
           nonVoteTxs[i] \in 1 .. Len(txs) /\ NonVoteBlock[i] = txs[nonVoteTxs[i]]
  BY NonVoteBlockFacts DEF IInv
<1>3. /\ DOMAIN txs' = 1 .. (Len(txs) + 1)
      /\ \A i \in 1 .. Len(txs) : txs'[i] = txs[i]
      /\ txs'[Len(txs) + 1] = tx
  BY PlaceAllTxs
<1>4. nonVoteTxs \in Seq(DOMAIN txs') /\ Len(txs) + 1 \in DOMAIN txs'
  <2>1. DOMAIN txs \subseteq DOMAIN txs'
    BY <1>2, <1>3
  <2>. QED
    BY <1>2, <1>3, <2>1, SeqMonotonic DEF IInv, TypeOK
<1>5. /\ nonVoteTxs' \in Seq(DOMAIN txs')
      /\ Len(nonVoteTxs') = Len(nonVoteTxs) + 1
      /\ DOMAIN nonVoteTxs' = 1 .. (Len(nonVoteTxs) + 1)
      /\ \A i \in 1 .. Len(nonVoteTxs) : nonVoteTxs'[i] = nonVoteTxs[i]
      /\ nonVoteTxs'[Len(nonVoteTxs) + 1] = Len(txs) + 1
  BY <1>1, <1>4, BlockFacts
<1>6. NonVoteBlock' = Append(NonVoteBlock, tx)
  <2>1. NonVoteBlock' = [k \in 1 .. (Len(nonVoteTxs) + 1) |-> txs'[nonVoteTxs'[k]]]
    BY <1>5 DEF NonVoteBlock
  <2>2. \A k \in 1 .. (Len(nonVoteTxs) + 1) :
          txs'[nonVoteTxs'[k]] = IF k \in 1 .. Len(nonVoteTxs) THEN NonVoteBlock[k] ELSE tx
    BY <1>2, <1>3, <1>5
  <2>3. Append(NonVoteBlock, tx)
          = [k \in 1 .. (Len(nonVoteTxs) + 1) |->
               IF k \in 1 .. Len(nonVoteTxs) THEN NonVoteBlock[k] ELSE tx]
    <3>1. /\ Append(NonVoteBlock, tx) \in Seq(Tx)
          /\ Len(Append(NonVoteBlock, tx)) = Len(nonVoteTxs) + 1
          /\ \A k \in 1 .. Len(nonVoteTxs) : Append(NonVoteBlock, tx)[k] = NonVoteBlock[k]
          /\ Append(NonVoteBlock, tx)[Len(nonVoteTxs) + 1] = tx
      BY <1>2, BlockFacts
    <3>2. Append(NonVoteBlock, tx)
            = [k \in 1 .. (Len(nonVoteTxs) + 1) |-> Append(NonVoteBlock, tx)[k]]
      BY <3>1, LenProperties
    <3>3. \A k \in 1 .. (Len(nonVoteTxs) + 1) :
            Append(NonVoteBlock, tx)[k]
              = IF k \in 1 .. Len(nonVoteTxs) THEN NonVoteBlock[k] ELSE tx
      BY <1>2, <3>1
    <3>. QED
      BY <3>2, <3>3
  <2>. QED
    BY <2>1, <2>2, <2>3
<1>7. /\ Scheduled(nonVote', NonVoteBlock')
      /\ \A i \in 1 .. Len(nonVoteTxs) : nonVote'.steps[i] = nonVote.steps[i]
      /\ nonVote'.steps[Len(nonVoteTxs) + 1] = StepOf(nonVote, tx)
  <2>1. Scheduled(nonVote, NonVoteBlock) /\ Built(nonVote, NonVoteBlock)
    BY DEF IInv, Scheduled
  <2>. QED
    BY <1>1, <1>2, <1>6, <2>1, PlacedScheduled, PlacedBuilt
<1>. QED
  BY <1>5, <1>6, <1>7

\* Placing a transaction moves no lock back and drops no step.
LEMMA PlacedGrows ==
  ASSUME NEW block \in Seq(Tx), NEW tx \in Tx, NEW b, Built(b, block)
  PROVE  /\ \A a \in Accounts : /\ b.lastWriter[a] <= Placed(b, tx).lastWriter[a]
                                /\ b.maxReader[a] <= Placed(b, tx).maxReader[a]
         /\ Len(b.widths) \in Nat
         /\ Len(Placed(b, tx).widths) \in {StepOf(b, tx), Len(b.widths)}
         /\ StepOf(b, tx) <= Len(Placed(b, tx).widths)
         /\ Len(b.widths) <= Len(Placed(b, tx).widths)
<1> DEFINE n == Len(block)
           s == StepOf(b, tx)
<1>1. /\ n \in Nat /\ b.lastWriter \in [Accounts -> 0 .. n]
      /\ b.maxReader \in [Accounts -> 0 .. n] /\ b.widths \in Seq(0 .. n)
  BY DEF Built, ScheduleType
<1>2. s \in 1 .. (n + 1) /\ \A a \in tx.writable : b.lastWriter[a] < s
  BY <1>1, StepProperties DEF LockSteps
<1>. HIDE DEF s, n
<1>3. /\ \A a \in Accounts :
           /\ Placed(b, tx).lastWriter[a] = IF a \in tx.writable THEN s ELSE b.lastWriter[a]
           /\ Placed(b, tx).maxReader[a]
                = IF a \in tx.readonly THEN Max({b.maxReader[a], s}) ELSE b.maxReader[a]
      /\ Placed(b, tx).widths = Widened(b.widths, s)
  BY DEF Placed, s
<1>4. ASSUME NEW a \in Accounts
      PROVE  /\ b.lastWriter[a] <= Placed(b, tx).lastWriter[a]
             /\ b.maxReader[a] <= Placed(b, tx).maxReader[a]
  <2>1. b.lastWriter[a] \in Nat /\ b.maxReader[a] \in Nat /\ s \in Nat
    BY <1>1, <1>2
  <2>2. b.maxReader[a] <= Max({b.maxReader[a], s})
    BY <2>1, MaxOfTwo
  <2>. QED
    BY <1>2, <1>3, <2>1, <2>2
<1>5. /\ Len(Widened(b.widths, s)) \in {s, Len(b.widths)}
      /\ s <= Len(Widened(b.widths, s)) /\ Len(b.widths) <= Len(Widened(b.widths, s))
  BY <1>1, <1>2, WidenedType
<1>6. Len(b.widths) \in Nat
  BY <1>1, LenProperties
<1>. QED
  BY <1>3, <1>4, <1>5, <1>6 DEF s

\* The schedule without votes after a vote.
LEMMA PlaceVote ==
  ASSUME IInv, NEW tx \in Tx, Place(tx), IsVote(tx)
  PROVE  /\ nonVoteTxs' = nonVoteTxs /\ nonVote' = nonVote
         /\ nonVoteTxs' \in Seq(DOMAIN txs')
         /\ NonVoteBlock' = NonVoteBlock
<1>1. nonVoteTxs' = nonVoteTxs /\ nonVote' = nonVote
  BY DEF Place
<1>2. /\ DOMAIN nonVoteTxs = 1 .. Len(nonVoteTxs)
      /\ DOMAIN txs = 1 .. Len(txs) /\ Len(txs) \in Nat
      /\ \A i \in 1 .. Len(nonVoteTxs) : nonVoteTxs[i] \in 1 .. Len(txs)
  BY NonVoteBlockFacts DEF IInv
<1>3. /\ DOMAIN txs' = 1 .. (Len(txs) + 1)
      /\ \A i \in 1 .. Len(txs) : txs'[i] = txs[i]
  BY PlaceAllTxs
<1>4. nonVoteTxs \in Seq(DOMAIN txs')
  <2>1. DOMAIN txs \subseteq DOMAIN txs'
    BY <1>2, <1>3
  <2>. QED
    BY <2>1, SeqMonotonic DEF IInv, TypeOK
<1>5. NonVoteBlock' = NonVoteBlock
  BY <1>1, <1>2, <1>3 DEF NonVoteBlock
<1>. QED
  BY <1>1, <1>4, <1>5

LEMMA PlaceType ==
  ASSUME IInv, NEW tx \in Tx, Place(tx)
  PROVE  TypeOK' /\ Scheduled(all', txs') /\ Scheduled(nonVote', NonVoteBlock')
<1>1. /\ txs' \in Seq(Tx) /\ Len(txs') <= MaxTxs /\ Scheduled(all', txs')
  BY PlaceAllTxs
<1>2. stats' \in [Accounts -> [writeLocks : 0 .. Len(txs'), readLocks : 0 .. Len(txs'),
                              delays : 0 .. Len(txs'),
                              programs : SUBSET UNION ProgramSets]]
  BY StatsType DEF IInv
<1>3. /\ nonVoteTxs' \in Seq(DOMAIN txs') /\ Scheduled(nonVote', NonVoteBlock')
      /\ Len(NonVoteBlock') = Len(nonVoteTxs')
  <2>1. Len(NonVoteBlock) = Len(nonVoteTxs) /\ NonVoteBlock \in Seq(Tx)
    BY NonVoteBlockFacts DEF IInv
  <2>2. CASE IsVote(tx)
    BY <2>1, <2>2, PlaceVote DEF IInv
  <2>3. CASE ~IsVote(tx)
    <3>1. Len(Append(NonVoteBlock, tx)) = Len(NonVoteBlock) + 1
      BY <2>1, BlockFacts
    <3>. QED
      BY <2>1, <2>3, <3>1, PlaceNonVote
  <2>. QED
    BY <2>2, <2>3
<1>4. /\ all' \in ScheduleType(Len(txs')) /\ Len(all'.steps) = Len(txs')
      /\ nonVote' \in ScheduleType(Len(nonVoteTxs'))
      /\ Len(nonVote'.steps) = Len(nonVoteTxs')
  BY <1>1, <1>3 DEF Scheduled, Built
<1>. QED
  BY <1>1, <1>2, <1>3, <1>4 DEF TypeOK

LEMMA PlaceLocks ==
  ASSUME IInv, NEW tx \in Tx, Place(tx)
  PROVE  LocksNoLater'
<1>1. /\ txs \in Seq(Tx) /\ NonVoteBlock \in Seq(Tx)
      /\ Built(all, txs) /\ Built(nonVote, NonVoteBlock)
  BY NonVoteBlockFacts DEF IInv, TypeOK, Scheduled
<1>2. /\ Len(txs) \in Nat /\ Len(NonVoteBlock) \in Nat
      /\ LockSteps(all, Len(txs)) /\ LockSteps(nonVote, Len(NonVoteBlock))
  BY <1>1, LenProperties DEF Built, ScheduleType, LockSteps
<1>3. all' = Placed(all, tx)
  BY DEF Place
<1>4. CASE ~IsVote(tx)
  <2>1. nonVote' = Placed(nonVote, tx)
    BY <1>4 DEF Place
  <2>. QED
    BY <1>2, <1>3, <2>1, StepMonotone DEF IInv, LocksNoLater
<1>5. CASE IsVote(tx)
  <2>1. nonVote' = nonVote
    BY <1>5 DEF Place
  <2>2. ASSUME NEW a \in Accounts
        PROVE  /\ nonVote.lastWriter[a] <= Placed(all, tx).lastWriter[a]
               /\ nonVote.maxReader[a] <= Placed(all, tx).maxReader[a]
    <3>1. /\ nonVote.lastWriter[a] <= all.lastWriter[a]
          /\ nonVote.maxReader[a] <= all.maxReader[a]
      BY DEF IInv, LocksNoLater
    <3>2. /\ all.lastWriter[a] <= Placed(all, tx).lastWriter[a]
          /\ all.maxReader[a] <= Placed(all, tx).maxReader[a]
      BY <1>1, PlacedGrows
    <3>3. Built(Placed(all, tx), Append(txs, tx)) /\ Len(Append(txs, tx)) \in Nat
      BY <1>1, <1>2, PlacedBuilt, BlockFacts
    <3>4. /\ Placed(all, tx).lastWriter[a] \in Nat /\ Placed(all, tx).maxReader[a] \in Nat
      BY <3>3 DEF Built, ScheduleType
    <3>5. /\ all.lastWriter[a] \in Nat /\ all.maxReader[a] \in Nat
          /\ nonVote.lastWriter[a] \in Nat /\ nonVote.maxReader[a] \in Nat
      BY <1>2 DEF LockSteps
    <3>. QED
      BY <3>1, <3>2, <3>4, <3>5
  <2>. QED
    BY <1>3, <2>1, <2>2 DEF LocksNoLater
<1>. QED
  BY <1>4, <1>5

LEMMA PlaceVotesNeverHelp ==
  ASSUME IInv, NEW tx \in Tx, Place(tx)
  PROVE  VotesNeverHelp'
<1>1. /\ txs \in Seq(Tx) /\ NonVoteBlock \in Seq(Tx)
      /\ Built(all, txs) /\ Built(nonVote, NonVoteBlock)
  BY NonVoteBlockFacts DEF IInv, TypeOK, Scheduled
<1>2. /\ Len(NonVoteBlock) = Len(nonVoteTxs) /\ Len(nonVoteTxs) \in Nat
      /\ DOMAIN nonVoteTxs = 1 .. Len(nonVoteTxs)
      /\ DOMAIN txs = 1 .. Len(txs) /\ Len(txs) \in Nat
      /\ \A i \in 1 .. Len(nonVoteTxs) : nonVoteTxs[i] \in 1 .. Len(txs)
  BY NonVoteBlockFacts DEF IInv
<1>3. /\ \A i \in 1 .. Len(txs) : txs'[i] = txs[i] /\ all'.steps[i] = all.steps[i]
      /\ txs'[Len(txs) + 1] = tx /\ all'.steps[Len(txs) + 1] = StepOf(all, tx)
      /\ DOMAIN txs' = 1 .. (Len(txs) + 1)
  BY PlaceAllTxs
<1>4. /\ \A k \in 1 .. Len(txs) :
           ~IsVote(txs[k]) <=> \E i \in 1 .. Len(nonVoteTxs) : nonVoteTxs[i] = k
      /\ \A i \in 1 .. Len(nonVoteTxs) :
           /\ ~IsVote(txs[nonVoteTxs[i]])
           /\ nonVote.steps[i] <= all.steps[nonVoteTxs[i]]
      /\ Len(nonVote.widths) <= Len(all.widths)
  BY <1>2 DEF IInv, VotesNeverHelp
<1>5. /\ Len(all.widths) \in Nat /\ Len(nonVote.widths) \in Nat
      /\ Len(all'.widths) \in {StepOf(all, tx), Len(all.widths)}
      /\ StepOf(all, tx) <= Len(all'.widths)
      /\ Len(all.widths) <= Len(all'.widths)
      /\ StepOf(all, tx) \in Nat
  BY <1>1, <1>2, PlacedGrows, PlacedBuilt DEF Place
<1>6. CASE IsVote(tx)
  <2>1. nonVoteTxs' = nonVoteTxs /\ nonVote' = nonVote
    BY <1>6, PlaceVote
  <2>2. \A k \in 1 .. (Len(txs) + 1) :
          ~IsVote(txs'[k]) <=> \E i \in 1 .. Len(nonVoteTxs) : nonVoteTxs[i] = k
    <3>1. \A k \in 1 .. (Len(txs) + 1) : k \in 1 .. Len(txs) \/ k = Len(txs) + 1
      BY <1>2
    <3>2. \A i \in 1 .. Len(nonVoteTxs) : nonVoteTxs[i] # Len(txs) + 1
      BY <1>2
    <3>. QED
      BY <1>3, <1>4, <1>6, <3>1, <3>2
  <2>3. \A i \in 1 .. Len(nonVoteTxs) :
          /\ ~IsVote(txs'[nonVoteTxs[i]])
          /\ nonVote.steps[i] <= all'.steps[nonVoteTxs[i]]
    BY <1>2, <1>3, <1>4
  <2>4. Len(nonVote.widths) <= Len(all'.widths)
    BY <1>4, <1>5
  <2>. QED
    BY <1>2, <1>3, <2>1, <2>2, <2>3, <2>4 DEF VotesNeverHelp, IsVote
<1>7. CASE ~IsVote(tx)
  <2>. DEFINE last == Len(nonVoteTxs) + 1
  <2>1. /\ DOMAIN nonVoteTxs' = 1 .. last
        /\ \A i \in 1 .. Len(nonVoteTxs) : nonVoteTxs'[i] = nonVoteTxs[i]
        /\ nonVoteTxs'[last] = Len(txs) + 1
        /\ \A i \in 1 .. Len(nonVoteTxs) : nonVote'.steps[i] = nonVote.steps[i]
        /\ nonVote'.steps[last] = StepOf(nonVote, tx)
    BY <1>7, PlaceNonVote
  <2>2. \A i \in 1 .. last : i \in 1 .. Len(nonVoteTxs) \/ i = last
    BY <1>2
  <2>3. 1 .. Len(nonVoteTxs) \subseteq 1 .. last /\ last \in 1 .. last
    BY <1>2
  <2>4. StepOf(nonVote, tx) <= StepOf(all, tx)
    <3>1. /\ LockSteps(all, Len(txs)) /\ LockSteps(nonVote, Len(NonVoteBlock))
      BY <1>1 DEF Built, ScheduleType, LockSteps
    <3>. QED
      BY <1>2, <3>1, StepMonotone DEF IInv, LocksNoLater
  <2>5. \A k \in 1 .. (Len(txs) + 1) :
          ~IsVote(txs'[k]) <=> \E i \in 1 .. last : nonVoteTxs'[i] = k
    <3>. TAKE k \in 1 .. (Len(txs) + 1)
    <3>1. CASE k \in 1 .. Len(txs)
      <4>1. nonVoteTxs'[last] # k
        BY <1>2, <2>1, <3>1
      <4>2. (\E i \in 1 .. last : nonVoteTxs'[i] = k)
              <=> \E i \in 1 .. Len(nonVoteTxs) : nonVoteTxs[i] = k
        BY <2>1, <2>2, <2>3, <4>1
      <4>. QED
        BY <1>3, <1>4, <3>1, <4>2
    <3>2. CASE k = Len(txs) + 1
      BY <1>3, <1>7, <2>1, <2>3, <3>2
    <3>. QED
      BY <1>2, <3>1, <3>2
  <2>6. \A i \in 1 .. last :
          /\ ~IsVote(txs'[nonVoteTxs'[i]])
          /\ nonVote'.steps[i] <= all'.steps[nonVoteTxs'[i]]
    <3>. TAKE i \in 1 .. last
    <3>1. CASE i = last
      BY <1>2, <1>3, <1>7, <2>1, <2>4, <3>1
    <3>2. CASE i \in 1 .. Len(nonVoteTxs)
      BY <1>2, <1>3, <1>4, <2>1, <3>2
    <3>. QED
      BY <2>2, <3>1, <3>2
  <2>7. Len(nonVote'.widths) <= Len(all'.widths)
    <3>1. Len(nonVote'.widths) \in {StepOf(nonVote, tx), Len(nonVote.widths)}
      BY <1>1, <1>7, PlacedGrows DEF Place
    <3>2. StepOf(nonVote, tx) \in Nat
      BY <1>1, <1>2, PlacedBuilt
    <3>. QED
      BY <1>4, <1>5, <2>4, <3>1, <3>2
  <2>. HIDE DEF last
  <2>. QED
    BY <1>3, <2>1, <2>5, <2>6, <2>7 DEF VotesNeverHelp, IsVote
<1>. QED
  BY <1>6, <1>7
-----------------------------------------------------------------------------
(* The theorems                                                            *)

LEMMA IInvInvariant ==
  Spec => []IInv
<1>1. Init => IInv
  BY EmptyBlock
<1>2. IInv /\ [Next]_vars => IInv'
  <2>. SUFFICES ASSUME IInv, [Next]_vars
                PROVE  IInv'
    OBVIOUS
  <2>1. ASSUME NEW tx \in Tx, Place(tx)
        PROVE  IInv'
    BY <2>1, PlaceType, PlaceLocks, PlaceVotesNeverHelp DEF IInv
  <2>2. CASE NextBlock
    <3>1. NextBlock => Init'
      BY DEF NextBlock, Init
    <3>2. Init' => IInv'
      BY EmptyBlock, PTL
    <3>. QED
      BY <2>2, <3>1, <3>2
  <2>3. CASE UNCHANGED vars
    BY <2>3 DEF vars, IInv, TypeOK, LocksNoLater, VotesNeverHelp, NonVoteBlock
  <2>. QED
    BY <2>1, <2>2, <2>3 DEF Next
<1>. QED
  BY <1>1, <1>2, PTL DEF Spec

\* No block of n transactions needs more than n steps, and every counter of
\* the analysis is bounded by n.
THEOREM ContentionTypeCorrect ==
  Spec => []TypeOK
<1>1. IInv => TypeOK
  BY DEF IInv
<1>. QED
  BY <1>1, IInvInvariant, PTL

\* For every set of accounts and every block, `build` gives each transaction
\* the earliest step its conflicts with earlier transactions allow: no two
\* transactions of a step conflict and none waits without a cause.
THEOREM EarliestSteps ==
  Spec => []StepsAreEarliest
<1>1. IInv => StepsAreEarliest
  BY DEF IInv, Scheduled, StepsAreEarliest
<1>. QED
  BY <1>1, IInvInvariant, PTL

\* The schedule without votes is never deeper, and delays no transaction, for
\* every block.
THEOREM VotesNeverHelpAnyone ==
  Spec => []VotesNeverHelp
<1>1. IInv => VotesNeverHelp
  BY DEF IInv
<1>. QED
  BY <1>1, IInvInvariant, PTL
-----------------------------------------------------------------------------
(* The conflict rows                                                       *)

\* Hotter accounts come in one order: whoever is hotter than a hotter account
\* is hotter too, and no account is hotter than itself.
LEMMA HotterIsAnOrder ==
  ASSUME TypeOK, NEW a \in Accounts, NEW c \in Accounts
  PROVE  /\ ~HotterThan(a, a)
         /\ \A d \in Accounts : HotterThan(d, c) /\ HotterThan(c, a) => HotterThan(d, a)
<1>1. \A x \in Accounts : /\ stats[x].delays \in Nat /\ Locks(x) \in Nat /\ x \in Nat
  <2>. TAKE x \in Accounts
  <2>1. stats[x].delays \in Nat /\ stats[x].writeLocks \in Nat /\ stats[x].readLocks \in Nat
    BY LenProperties DEF TypeOK
  <2>. QED
    BY <2>1, AccountsAssumption DEF Locks
<1>2. ~HotterThan(a, a)
  BY <1>1 DEF HotterThan
<1>3. ASSUME NEW d \in Accounts, HotterThan(d, c), HotterThan(c, a)
      PROVE  HotterThan(d, a)
  <2>1. /\ stats[d].delays \in Nat /\ stats[c].delays \in Nat /\ stats[a].delays \in Nat
        /\ Locks(d) \in Nat /\ Locks(c) \in Nat /\ Locks(a) \in Nat
        /\ d \in Nat /\ c \in Nat /\ a \in Nat
    BY <1>1
  <2>. QED
    BY <1>3, <2>1 DEF HotterThan
<1>. QED
  BY <1>2, <1>3

\* A row that is left out has at least MaxConflictRows hotter ones; were one of
\* the rows kept less hot than it, these would all be hotter than that too.
LEMMA TableIsCutAtTheEnd ==
  TypeOK => RowsAreTheHottest
<1>. SUFFICES ASSUME TypeOK, NEW a \in ConflictRows, NEW c \in Accounts \ ConflictRows
              PROVE  stats[c].delays <= stats[a].delays
  BY DEF RowsAreTheHottest
<1> DEFINE hot == {x \in Accounts : stats[x].delays > 0}
           Above(x) == {d \in hot : HotterThan(d, x)}
<1>1. a \in hot /\ Cardinality(Above(a)) < MaxConflictRows /\ a \in Accounts /\ c \in Accounts
  BY DEF ConflictRows
<1>2. c \in hot => ~(Cardinality(Above(c)) < MaxConflictRows)
  BY DEF ConflictRows
<1>3. stats[a].delays \in Nat /\ stats[c].delays \in Nat
  BY <1>1, LenProperties DEF TypeOK
<1>4. ASSUME stats[c].delays > stats[a].delays
      PROVE  FALSE
  <2>1. c \in hot /\ HotterThan(c, a)
    BY <1>1, <1>3, <1>4 DEF HotterThan
  <2>2. Above(c) \subseteq Above(a)
    BY <1>1, <2>1, HotterIsAnOrder
  <2>3. IsFiniteSet(Above(a)) /\ IsFiniteSet(Above(c))
    BY AccountsAssumption, FS_Subset
  <2>4. Cardinality(Above(c)) <= Cardinality(Above(a))
    BY <2>2, <2>3, FS_Subset
  <2>5. Cardinality(Above(c)) \in Nat /\ Cardinality(Above(a)) \in Nat
    BY <2>3, FS_CardinalityType
  <2>. QED
    BY <1>1, <1>2, <2>1, <2>4, <2>5, BoundsAssumption
<1>. QED
  BY <1>3, <1>4

\* For every number of accounts and rows, whatever delayed the block most is in
\* the table: `truncate` only drops accounts that delayed no more than each one
\* it keeps.
THEOREM RowsKeepTheHottest ==
  Spec => []RowsAreTheHottest
BY ContentionTypeCorrect, TableIsCutAtTheEnd, PTL
-----------------------------------------------------------------------------
(* The widths of the steps                                                 *)

\* A transaction takes a step there is or the next one: what it waits for is a
\* lock, and a lock is held at the step of a transaction.
LEMMA StepIsNotFar ==
  ASSUME NEW block \in Seq(Tx), NEW tx \in Tx, NEW b,
         Built(b, block), LocksKnown(b, block), WidthsPartition(b)
  PROVE  StepOf(b, tx) \in 1 .. (Len(b.widths) + 1)
<1> DEFINE n == Len(block)
           s == StepOf(b, tx)
<1>1. /\ n \in Nat /\ b.lastWriter \in [Accounts -> 0 .. n]
      /\ b.maxReader \in [Accounts -> 0 .. n]
      /\ b.steps \in Seq(1 .. n) /\ Len(b.steps) = n /\ DOMAIN b.steps = 1 .. n
      /\ DOMAIN block = 1 .. n
      /\ DOMAIN b.widths = 1 .. Len(b.widths) /\ Len(b.widths) \in Nat
  BY LenProperties DEF Built, ScheduleType
<1>2. /\ s \in 1 .. (n + 1)
      /\ \/ s = 1
         \/ \E a \in tx.readonly \cup tx.writable : b.lastWriter[a] = s - 1
         \/ \E a \in tx.writable : b.maxReader[a] = s - 1
  BY <1>1, StepProperties DEF LockSteps
<1>3. tx.readonly \subseteq Accounts /\ tx.writable \subseteq Accounts
  BY DEF Tx
<1>. HIDE DEF s, n
<1>4. s # 1 => \E i \in 1 .. n : b.steps[i] = s - 1
  <2>. SUFFICES ASSUME s # 1
                PROVE  \E i \in 1 .. n : b.steps[i] = s - 1
    OBVIOUS
  <2>1. s - 1 # 0
    BY <1>1, <1>2
  <2>2. CASE \E a \in tx.readonly \cup tx.writable : b.lastWriter[a] = s - 1
    BY <1>1, <1>3, <2>1, <2>2 DEF LocksKnown
  <2>3. CASE \E a \in tx.writable : b.maxReader[a] = s - 1
    BY <1>1, <1>3, <2>1, <2>3 DEF LocksKnown
  <2>. QED
    BY <1>2, <2>2, <2>3
<1>5. s # 1 => s - 1 \in 1 .. Len(b.widths)
  BY <1>1, <1>4 DEF WidthsPartition
<1>6. s \in Nat /\ s >= 1
  BY <1>1, <1>2
<1>7. s \in 1 .. (Len(b.widths) + 1)
  BY <1>1, <1>5, <1>6
<1>. QED
  BY <1>7 DEF s

\* One transaction more in its step, and every other step as it was.
LEMMA PlacedWidths ==
  ASSUME NEW block \in Seq(Tx), NEW tx \in Tx, NEW b,
         Built(b, block), LocksKnown(b, block), WidthsPartition(b)
  PROVE  WidthsPartition(Placed(b, tx))
<1> DEFINE n == Len(block)
           s == StepOf(b, tx)
           L == Len(b.widths)
           next == Placed(b, tx)
           At(k) == {i \in 1 .. n : b.steps[i] = k}
           NextAt(k) == {i \in 1 .. (n + 1) : next.steps[i] = k}
<1>1. /\ n \in Nat /\ DOMAIN b.steps = 1 .. n /\ DOMAIN b.widths = 1 .. L /\ L \in Nat
      /\ b.widths \in Seq(0 .. n)
  BY LenProperties DEF Built, ScheduleType
<1>2. s \in 1 .. (L + 1)
  BY StepIsNotFar
<1>3. /\ next.steps \in Seq(1 .. (n + 1)) /\ Len(next.steps) = n + 1
      /\ \A i \in 1 .. n : next.steps[i] = b.steps[i]
      /\ next.steps[n + 1] = s
  <2>1. /\ Built(next, Append(block, tx)) /\ Len(Append(block, tx)) = n + 1
        /\ \A i \in 1 .. n : next.steps[i] = b.steps[i]
        /\ next.steps[n + 1] = s
    BY PlacedBuilt, BlockFacts
  <2>. HIDE DEF n, s, next
  <2>2. next.steps \in Seq(1 .. (n + 1)) /\ Len(next.steps) = n + 1
    BY <2>1 DEF Built, ScheduleType
  <2>. QED
    BY <2>1, <2>2
<1>4. DOMAIN next.steps = 1 .. (n + 1)
  BY <1>1, <1>3, LenProperties
<1>5. /\ Max({s, L}) \in {s, L} /\ s <= Max({s, L}) /\ L <= Max({s, L})
  BY <1>1, <1>2, MaxOfTwo
<1>6. next.widths = [k \in 1 .. Max({s, L}) |->
                       (IF k <= L THEN b.widths[k] ELSE 0) + (IF k = s THEN 1 ELSE 0)]
  BY DEF Placed, Widened
<1>7. \A i \in 1 .. n : b.steps[i] \in 1 .. L
  BY <1>1 DEF WidthsPartition
<1>8. \A k \in 1 .. L : b.widths[k] = Cardinality(At(k)) /\ b.widths[k] > 0
  BY <1>1 DEF WidthsPartition
<1>. HIDE DEF n, s, L, next
<1>9. \A i \in 1 .. (n + 1) : next.steps[i] \in 1 .. Max({s, L})
  <2>1. \A i \in 1 .. (n + 1) : i \in 1 .. n \/ i = n + 1
    BY <1>1
  <2>2. Max({s, L}) \in Nat /\ s \in 1 .. Max({s, L})
    BY <1>1, <1>2, <1>5
  <2>3. \A k \in 1 .. L : k \in 1 .. Max({s, L})
    BY <1>1, <1>5, <2>2
  <2>. QED
    BY <1>3, <1>7, <2>1, <2>2, <2>3
<1>10. ASSUME NEW k \in 1 .. Max({s, L})
       PROVE  next.widths[k] = Cardinality(NextAt(k)) /\ next.widths[k] > 0
  <2>1. /\ (k \in Nat /\ k >= 1 /\ k <= L) \/ k = s
        /\ next.widths[k] = (IF k <= L THEN b.widths[k] ELSE 0) + (IF k = s THEN 1 ELSE 0)
    BY <1>1, <1>2, <1>5, <1>6
  <2>2. IsFiniteSet(At(k)) /\ Cardinality(At(k)) \in Nat
    <3>1. IsFiniteSet(1 .. n)
      BY <1>1, FS_Interval
    <3>2. IsFiniteSet(At(k))
      BY <3>1, FS_Subset
    <3>. QED
      BY <3>2, FS_CardinalityType
  <2>3. NextAt(k) = IF k = s THEN At(k) \cup {n + 1} ELSE At(k)
    <3>1. \A i : i \in 1 .. (n + 1) <=> i \in 1 .. n \/ i = n + 1
      BY <1>1
    <3>. QED
      BY <1>3, <3>1
  <2>4. n + 1 \notin At(k)
    BY <1>1
  <2>5. Cardinality(At(k) \cup {n + 1}) = Cardinality(At(k)) + 1
    BY <2>2, <2>4, FS_AddElement
  <2>6. Cardinality(NextAt(k)) = Cardinality(At(k)) + (IF k = s THEN 1 ELSE 0)
    <3>. HIDE DEF At, NextAt
    <3>1. CASE k = s
      BY <2>3, <2>5, <3>1
    <3>2. CASE k # s
      BY <2>2, <2>3, <3>2
    <3>. QED
      BY <3>1, <3>2
  <2>7. CASE k <= L
    <3>1. k \in 1 .. L
      BY <1>1, <2>7
    <3>2. b.widths[k] = Cardinality(At(k)) /\ b.widths[k] > 0
      BY <1>8, <3>1
    <3>. HIDE DEF At, NextAt
    <3>. QED
      BY <2>1, <2>2, <2>6, <2>7, <3>2
  <2>8. CASE ~(k <= L)
    <3>1. k = s /\ next.widths[k] = 1
      BY <2>1, <2>8
    <3>2. At(k) = {}
      BY <1>1, <1>7, <2>8
    <3>3. Cardinality(At(k)) = 0
      BY <3>2, FS_EmptySet
    <3>. QED
      BY <2>6, <3>1, <3>3
  <2>. QED
    BY <2>7, <2>8
<1>11. DOMAIN next.widths = 1 .. Max({s, L})
  BY <1>6
<1>12. WidthsPartition(next)
  BY <1>4, <1>9, <1>10, <1>11 DEF WidthsPartition
<1>. QED
  BY <1>12 DEF next
-----------------------------------------------------------------------------
(* The depth of a schedule                                                 *)

LEMMA SmallestExists ==
  ASSUME NEW S \in SUBSET Nat, S # {}
  PROVE  \E x \in S : \A y \in S : x <= y
<1>1. IsWellFoundedOn(OpToRel(<, Nat), Nat)
  BY NatLessThanWellFounded
<1>2. PICK x \in S : \A y \in S : <<y, x>> \notin OpToRel(<, Nat)
  BY <1>1, WFMin
<1>3. \A y \in S : ~(y < x)
  BY <1>2 DEF OpToRel
<1>4. x \in Nat /\ \A y \in S : y \in Nat
  OBVIOUS
<1>5. \A y \in S : x <= y
  BY <1>3, <1>4
<1>. QED
  BY <1>5

\* The steps climb along a chain, although only neighbours are known to conflict:
\* a first member that did not climb would have a neighbour that did.
LEMMA ChainsClimb ==
  ASSUME NEW block \in Seq(Tx), NEW b, Scheduled(b, block), NEW S \in Chains(block)
  PROVE  \A i, j \in S : i < j => b.steps[i] < b.steps[j]
<1> DEFINE n == Len(block)
           Bad == {j \in S : \E i \in S : i < j /\ ~(b.steps[i] < b.steps[j])}
<1>1. /\ n \in Nat /\ DOMAIN block = 1 .. n /\ S \subseteq 1 .. n
      /\ \A i \in 1 .. n : b.steps[i] \in Nat
  BY ScheduleFacts DEF Scheduled, Chains
<1>2. \A i, j \in S : i < j /\ (\A k \in S : k <= i \/ k >= j)
                         => Conflict(block[i], block[j])
  BY DEF Chains
<1>3. \A j \in 1 .. n : \A i \in 1 .. (j - 1) :
        Conflict(block[i], block[j]) => b.steps[i] < b.steps[j]
  BY <1>1 DEF Scheduled, Earliest
<1>. HIDE DEF n
<1>4. ASSUME Bad # {}
      PROVE  FALSE
  <2>1. Bad \in SUBSET Nat
    <3>1. S \subseteq Nat
      BY <1>1
    <3>2. Bad \subseteq S
      OBVIOUS
    <3>. HIDE DEF Bad
    <3>. QED
      BY <3>1, <3>2
  <2>2. PICK j \in Bad : \A k \in Bad : j <= k
    BY <1>4, <2>1, SmallestExists
  <2>3. PICK i \in S : i < j /\ ~(b.steps[i] < b.steps[j])
    BY <2>2
  <2>4. j \in S /\ j \in Nat /\ i \in Nat /\ \A k \in S : k \in Nat
    BY <1>1, <2>2, <2>3
  <2>. DEFINE Before == {k \in S : k < j}
  <2>5. Before \in SUBSET (0 .. j) /\ i \in Before
    <3>1. \A k \in Before : k \in Nat /\ k < j
      BY <2>4
    <3>2. \A k \in Before : k \in 0 .. j
      BY <2>4, <3>1
    <3>. QED
      BY <2>3, <3>2
  <2>6. PICK p \in Before : \A k \in Before : p >= k
    BY <2>4, <2>5, GreatestExists
  <2>7. p \in S /\ p < j /\ p \in Nat /\ i <= p
    BY <2>4, <2>5, <2>6
  <2>8. \A k \in S : k <= p \/ k >= j
    BY <2>4, <2>6, <2>7
  <2>9. Conflict(block[p], block[j])
    BY <1>2, <2>4, <2>7, <2>8
  <2>10. p \in 1 .. (j - 1) /\ j \in 1 .. n
    BY <1>1, <2>4, <2>7
  <2>11. b.steps[p] < b.steps[j]
    BY <1>3, <2>9, <2>10
  <2>12. i # p
    BY <2>3, <2>11
  <2>13. i < p
    BY <2>4, <2>7, <2>12
  <2>14. p \notin Bad
    BY <2>2, <2>4, <2>7
  <2>15. b.steps[i] < b.steps[p]
    BY <2>7, <2>13, <2>14
  <2>16. b.steps[i] \in Nat /\ b.steps[p] \in Nat /\ b.steps[j] \in Nat
    BY <1>1, <2>4, <2>7
  <2>. QED
    BY <2>3, <2>11, <2>15, <2>16
<1>. QED
  BY <1>4

\* A chain as long as its step leads to every transaction: a first transaction
\* without one would wait for an earlier one that has one.
LEMMA ChainToEach ==
  ASSUME NEW block \in Seq(Tx), NEW b, Scheduled(b, block), NEW t \in DOMAIN block
  PROVE  \E S \in Chains(block) : Cardinality(S) = b.steps[t]
<1> DEFINE n == Len(block)
           Ends(S, j) == /\ S \in Chains(block) /\ j \in S /\ \A i \in S : i <= j
                         /\ Cardinality(S) = b.steps[j]
           Bad == {j \in 1 .. n : ~\E S \in Chains(block) : Ends(S, j)}
<1>1. /\ n \in Nat /\ DOMAIN block = 1 .. n
      /\ \A i \in 1 .. n : b.steps[i] \in Nat /\ b.steps[i] >= 1
  BY ScheduleFacts DEF Scheduled
<1>2. \A j \in 1 .. n : b.steps[j] > 1 =>
        \E i \in 1 .. (j - 1) : Conflict(block[i], block[j]) /\ b.steps[i] = b.steps[j] - 1
  BY <1>1 DEF Scheduled, Earliest
<1>. HIDE DEF n
<1>3. ASSUME Bad # {}
      PROVE  FALSE
  <2>1. Bad \in SUBSET Nat
    OBVIOUS
  <2>2. PICK j \in Bad : \A k \in Bad : j <= k
    BY <1>3, <2>1, SmallestExists
  <2>3. j \in 1 .. n /\ j \in Nat /\ b.steps[j] \in Nat /\ b.steps[j] >= 1
    BY <1>1, <2>2
  <2>4. CASE b.steps[j] = 1
    <3>1. {j} \in Chains(block)
      BY <1>1, <2>3 DEF Chains
    <3>2. Cardinality({j}) = 1
      BY FS_Singleton
    <3>3. Ends({j}, j)
      BY <2>3, <2>4, <3>1, <3>2
    <3>. QED
      BY <2>2, <3>1, <3>3
  <2>5. CASE b.steps[j] > 1
    <3>1. PICK i \in 1 .. (j - 1) : /\ Conflict(block[i], block[j])
                                    /\ b.steps[i] = b.steps[j] - 1
      BY <1>2, <2>3, <2>5
    <3>2. i \in 1 .. n /\ i < j /\ i \in Nat
      BY <1>1, <2>3, <3>1
    <3>3. i \notin Bad
      BY <2>2, <2>3, <3>2
    <3>4. PICK S \in Chains(block) : Ends(S, i)
      BY <3>2, <3>3
    <3>5. S \subseteq 1 .. n /\ (\A k \in S : k \in Nat /\ k <= i) /\ i \in S /\ j \notin S
      BY <1>1, <2>3, <3>2, <3>4 DEF Chains
    <3>6. ASSUME NEW x \in S \cup {j}, NEW y \in S \cup {j}, x < y,
                 \A k \in S \cup {j} : k <= x \/ k >= y
          PROVE  Conflict(block[x], block[y])
      <4>1. CASE y = j
        <5>1. x \in S /\ x \in Nat /\ x <= i
          BY <2>3, <3>5, <3>6, <4>1
        <5>2. i <= x
          BY <2>3, <3>2, <3>5, <3>6, <4>1
        <5>3. x = i
          BY <3>2, <5>1, <5>2
        <5>. QED
          BY <3>1, <4>1, <5>3
      <4>2. CASE y \in S
        <5>1. x \in S
          BY <2>3, <3>2, <3>5, <3>6, <4>2
        <5>2. \A k \in S : k <= x \/ k >= y
          BY <3>6
        <5>. QED
          BY <3>6, <4>2, <5>1, <5>2 DEF Chains
      <4>. QED
        BY <4>1, <4>2
    <3>7. S \cup {j} \in Chains(block)
      BY <1>1, <2>3, <3>5, <3>6 DEF Chains
    <3>8. IsFiniteSet(S)
      <4>1. IsFiniteSet(1 .. n)
        BY <1>1, FS_Interval
      <4>. QED
        BY <3>5, <4>1, FS_Subset
    <3>9. Cardinality(S \cup {j}) = Cardinality(S) + 1
      BY <3>5, <3>8, FS_AddElement
    <3>10. Cardinality(S \cup {j}) = b.steps[j]
      BY <2>3, <3>1, <3>4, <3>9
    <3>11. Ends(S \cup {j}, j)
      BY <2>3, <3>2, <3>5, <3>7, <3>10
    <3>. QED
      BY <2>2, <3>7, <3>11
  <2>. QED
    BY <2>3, <2>4, <2>5
<1>4. t \in 1 .. n /\ t \notin Bad
  BY <1>1, <1>3
<1>. QED
  BY <1>4

LEMMA DepthOfSchedule ==
  ASSUME NEW block \in Seq(Tx), NEW b, Scheduled(b, block), WidthsPartition(b)
  PROVE  Len(b.widths) = Max({Cardinality(S) : S \in Chains(block)})
<1> DEFINE n == Len(block)
           L == Len(b.widths)
           D == {Cardinality(S) : S \in Chains(block)}
<1>1. /\ n \in Nat /\ DOMAIN block = 1 .. n /\ L \in Nat /\ DOMAIN b.widths = 1 .. L
      /\ DOMAIN b.steps = 1 .. n
      /\ \A i \in 1 .. n : b.steps[i] \in 1 .. L
  BY LenProperties DEF Scheduled, Built, ScheduleType, WidthsPartition
<1>2. \A s \in 1 .. L : Cardinality({i \in 1 .. n : b.steps[i] = s}) > 0
  BY <1>1 DEF WidthsPartition
<1>. HIDE DEF n, L
<1>3. ASSUME NEW S \in Chains(block)
      PROVE  Cardinality(S) \in Nat /\ Cardinality(S) <= L /\ Cardinality(S) <= n
  <2>1. S \subseteq 1 .. n
    BY <1>1 DEF Chains
  <2>2. IsFiniteSet(1 .. n) /\ Cardinality(1 .. n) = n
    BY <1>1, FS_Interval
  <2>3. IsFiniteSet(1 .. L) /\ Cardinality(1 .. L) = L
    BY <1>1, FS_Interval
  <2>4. /\ IsFiniteSet(S) /\ Cardinality(S) <= n
    BY <2>1, <2>2, FS_Subset
  <2>5. \A i, j \in S : i < j => b.steps[i] < b.steps[j]
    BY ChainsClimb
  <2>6. \A i, j \in S : i # j => b.steps[i] # b.steps[j]
    <3>1. \A i, j \in S : i \in Nat /\ j \in Nat /\ b.steps[i] \in Nat /\ b.steps[j] \in Nat
      BY <1>1, <2>1
    <3>. QED
      BY <2>5, <3>1
  <2>7. [i \in S |-> b.steps[i]] \in Injection(S, 1 .. L)
    BY <1>1, <2>1, <2>6 DEF Injection, IsInjective
  <2>8. Cardinality(S) <= L
    BY <2>3, <2>7, FS_Injection
  <2>. QED
    BY <2>4, <2>8, FS_CardinalityType
<1>4. {} \in Chains(block) /\ Cardinality({}) = 0
  BY FS_EmptySet DEF Chains
<1>5. D \in SUBSET (0 .. n) /\ D # {}
  BY <1>1, <1>3, <1>4
<1>6. Max(D) \in D /\ \A y \in D : y <= Max(D)
  BY <1>1, <1>5, MaxProperties
<1>7. Max(D) <= L /\ Max(D) \in Nat
  BY <1>3, <1>6
<1>8. L \in D
  <2>1. CASE L = 0
    BY <1>4, <2>1
  <2>2. CASE L # 0
    <3>1. L \in 1 .. L
      BY <1>1, <2>2
    <3>2. {i \in 1 .. n : b.steps[i] = L} # {}
      BY <1>2, <3>1, FS_EmptySet
    <3>3. PICK i \in 1 .. n : b.steps[i] = L
      BY <3>2
    <3>. QED
      BY <1>1, <3>3, ChainToEach
  <2>. QED
    BY <2>1, <2>2
<1>9. L = Max(D)
  BY <1>1, <1>6, <1>7, <1>8
<1>. QED
  BY <1>9 DEF L
-----------------------------------------------------------------------------
(* Who delayed what                                                        *)

\* What the two numbers of an account tell of it is what the block tells: the
\* accounts blamed for a delay are those a transaction of the step before
\* conflicts over.
LEMMA CriticalAreInConflict ==
  ASSUME NEW block \in Seq(Tx), NEW tx \in Tx, NEW b,
         Built(b, block), LocksKnown(b, block), NEW a \in Accounts
  PROVE  a \in CriticalAccounts(b, tx) <=>
           \E i \in 1 .. Len(block) : /\ b.steps[i] = StepOf(b, tx) - 1
                                      /\ ConflictOn(block[i], tx, a)
<1> DEFINE n == Len(block)
           s == StepOf(b, tx)
<1>1. /\ n \in Nat /\ DOMAIN block = 1 .. n
      /\ b.lastWriter \in [Accounts -> 0 .. n] /\ b.maxReader \in [Accounts -> 0 .. n]
      /\ \A i \in 1 .. n : b.steps[i] \in Nat /\ b.steps[i] >= 1
  BY ScheduleFacts
<1>2. /\ s \in 1 .. (n + 1)
      /\ \A c \in tx.readonly \cup tx.writable : b.lastWriter[c] < s
      /\ \A c \in tx.writable : b.maxReader[c] < s
  BY <1>1, StepProperties DEF LockSteps
<1>3. a \in CriticalAccounts(b, tx) <=>
        \/ a \in tx.readonly /\ s - 1 > 0 /\ b.lastWriter[a] = s - 1
        \/ a \in tx.writable /\ s - 1 > 0 /\ s - 1 \in {b.lastWriter[a], b.maxReader[a]}
  BY DEF CriticalAccounts
<1>4. /\ \A i \in 1 .. n :
           /\ a \in block[i].writable => b.steps[i] <= b.lastWriter[a]
           /\ a \in block[i].readonly => b.steps[i] <= b.maxReader[a]
      /\ b.lastWriter[a] # 0 => \E i \in 1 .. n :
           a \in block[i].writable /\ b.steps[i] = b.lastWriter[a]
      /\ b.maxReader[a] # 0 => \E i \in 1 .. n :
           a \in block[i].readonly /\ b.steps[i] = b.maxReader[a]
  BY <1>1 DEF LocksKnown
<1>5. b.lastWriter[a] \in Nat /\ b.maxReader[a] \in Nat
  BY <1>1
<1>. HIDE DEF n, s
<1>6. ASSUME NEW i \in 1 .. n, b.steps[i] = s - 1, ConflictOn(block[i], tx, a)
      PROVE  a \in CriticalAccounts(b, tx)
  <2>1. s - 1 > 0 /\ s \in Nat
    BY <1>1, <1>2, <1>6
  <2>2. CASE a \in block[i].writable /\ a \in tx.writable \cup tx.readonly
    <3>1. s - 1 <= b.lastWriter[a] /\ b.lastWriter[a] < s
      BY <1>2, <1>4, <1>6, <2>2
    <3>2. b.lastWriter[a] = s - 1
      BY <1>5, <2>1, <3>1
    <3>. QED
      BY <1>3, <2>1, <2>2, <3>2
  <2>3. CASE a \in tx.writable /\ a \in block[i].readonly
    <3>1. s - 1 <= b.maxReader[a] /\ b.maxReader[a] < s
      BY <1>2, <1>4, <1>6, <2>3
    <3>2. b.maxReader[a] = s - 1
      BY <1>5, <2>1, <3>1
    <3>. QED
      BY <1>3, <2>1, <2>3, <3>2
  <2>. QED
    BY <1>6, <2>2, <2>3 DEF ConflictOn
<1>7. ASSUME a \in CriticalAccounts(b, tx)
      PROVE  \E i \in 1 .. n : b.steps[i] = s - 1 /\ ConflictOn(block[i], tx, a)
  <2>1. s - 1 # 0
    BY <1>2, <1>3, <1>7
  <2>2. CASE a \in tx.readonly \cup tx.writable /\ b.lastWriter[a] = s - 1
    BY <1>4, <2>1, <2>2 DEF ConflictOn
  <2>3. CASE a \in tx.writable /\ b.maxReader[a] = s - 1
    BY <1>4, <2>1, <2>3 DEF ConflictOn
  <2>. QED
    BY <1>3, <1>7, <2>2, <2>3
<1>8. a \in CriticalAccounts(b, tx) <=>
        \E i \in 1 .. n : b.steps[i] = s - 1 /\ ConflictOn(block[i], tx, a)
  BY <1>6, <1>7
<1>. QED
  BY <1>8 DEF n, s

\* The next transaction joins those an account delayed exactly if the account
\* is blamed for it; those before it stay.
LEMMA DelayedGrows ==
  ASSUME IInv, NEW tx \in Tx, Place(tx), NEW a \in Accounts
  PROVE  /\ DelayedBy(a) \subseteq 1 .. Len(txs)
         /\ DelayedBy(a)' = IF a \in CriticalAccounts(all, tx)
                            THEN DelayedBy(a) \cup {Len(txs) + 1} ELSE DelayedBy(a)
<1> DEFINE n == Len(txs)
           Holds(i, j) == all.steps[i] = all.steps[j] - 1 /\ ConflictOn(txs[i], txs[j], a)
           HoldsNext(i, j) == /\ all'.steps[i] = all'.steps[j] - 1
                              /\ ConflictOn(txs'[i], txs'[j], a)
<1>1. /\ n \in Nat /\ DOMAIN txs = 1 .. n /\ DOMAIN txs' = 1 .. (n + 1)
      /\ \A i \in 1 .. n : txs'[i] = txs[i] /\ all'.steps[i] = all.steps[i]
      /\ txs'[n + 1] = tx /\ all'.steps[n + 1] = StepOf(all, tx)
  BY PlaceAllTxs, NonVoteBlockFacts DEF IInv
<1>2. a \in CriticalAccounts(all, tx) <=>
        \E i \in 1 .. n : all.steps[i] = StepOf(all, tx) - 1 /\ ConflictOn(txs[i], tx, a)
  BY CriticalAreInConflict DEF IInv, TypeOK, Scheduled
<1>3. /\ DelayedBy(a) = {j \in 1 .. n : \E i \in 1 .. (j - 1) : Holds(i, j)}
      /\ DelayedBy(a)' = {j \in 1 .. (n + 1) : \E i \in 1 .. (j - 1) : HoldsNext(i, j)}
  BY <1>1 DEF DelayedBy
<1>. HIDE DEF n
<1>4. ASSUME NEW j \in 1 .. n, NEW i \in 1 .. (j - 1)
      PROVE  HoldsNext(i, j) <=> Holds(i, j)
  <2>1. i \in 1 .. n
    BY <1>1
  <2>. QED
    BY <1>1, <2>1
<1>5. (\E i \in 1 .. n : HoldsNext(i, n + 1)) <=> a \in CriticalAccounts(all, tx)
  BY <1>1, <1>2
<1>. HIDE DEF Holds, HoldsNext
<1>6. /\ \A j : j \in 1 .. (n + 1) <=> j \in 1 .. n \/ j = n + 1
      /\ (n + 1) - 1 = n
  BY <1>1
<1>7. {j \in 1 .. (n + 1) : \E i \in 1 .. (j - 1) : HoldsNext(i, j)}
        = {j \in 1 .. n : \E i \in 1 .. (j - 1) : Holds(i, j)}
            \cup (IF a \in CriticalAccounts(all, tx) THEN {n + 1} ELSE {})
  BY <1>4, <1>5, <1>6
<1>. QED
  BY <1>3, <1>7 DEF n

\* Whatever was delayed is put down to somebody.
LEMMA NoDelayUnexplained ==
  ASSUME IInv
  PROVE  \A j \in DOMAIN txs : all.steps[j] > 1 => \E a \in Accounts : j \in DelayedBy(a)
<1>. SUFFICES ASSUME NEW j \in DOMAIN txs, all.steps[j] > 1
              PROVE  \E a \in Accounts : j \in DelayedBy(a)
  OBVIOUS
<1>1. PICK i \in 1 .. (j - 1) : /\ Conflict(txs[i], txs[j])
                                /\ all.steps[i] = all.steps[j] - 1
  BY DEF IInv, Scheduled, Earliest
<1>2. PICK a \in Accounts : ConflictOn(txs[i], txs[j], a)
  BY <1>1 DEF Conflict
<1>. QED
  BY <1>1, <1>2 DEF DelayedBy

LEMMA PlaceAttribution ==
  ASSUME IInv, AttributionExact, NEW tx \in Tx, Place(tx), IInv'
  PROVE  AttributionExact'
<1> DEFINE n == Len(txs)
           Blamed(a) == a \in CriticalAccounts(all, tx)
<1>1. /\ n \in Nat /\ \A i \in 1 .. n : txs'[i] = txs[i]
      /\ txs'[n + 1] = tx
  BY PlaceAllTxs, NonVoteBlockFacts DEF IInv
<1>2. ASSUME NEW a \in Accounts
      PROVE  /\ stats'[a].delays = stats[a].delays + (IF Blamed(a) THEN 1 ELSE 0)
             /\ stats'[a].programs
                  = stats[a].programs \cup (IF Blamed(a) THEN tx.programs ELSE {})
  BY DEF Place, Attributed, One
<1>3. ASSUME NEW a \in Accounts
      PROVE  /\ DelayedBy(a) \subseteq 1 .. n
             /\ DelayedBy(a)' = IF Blamed(a) THEN DelayedBy(a) \cup {n + 1} ELSE DelayedBy(a)
  BY DelayedGrows
<1>. HIDE DEF n, Blamed
<1>4. ASSUME NEW a \in Accounts
      PROVE  stats'[a].delays = Cardinality(DelayedBy(a)')
  <2>1. stats[a].delays = Cardinality(DelayedBy(a))
    BY DEF AttributionExact
  <2>2. IsFiniteSet(DelayedBy(a)) /\ n + 1 \notin DelayedBy(a)
    <3>1. IsFiniteSet(1 .. n) /\ n + 1 \notin 1 .. n
      BY <1>1, FS_Interval
    <3>. QED
      BY <1>3, <3>1, FS_Subset
  <2>3. /\ Cardinality(DelayedBy(a) \cup {n + 1}) = Cardinality(DelayedBy(a)) + 1
        /\ Cardinality(DelayedBy(a)) \in Nat
    BY <2>2, FS_AddElement, FS_CardinalityType
  <2>4. CASE Blamed(a)
    <3>1. stats'[a].delays = stats[a].delays + 1
      BY <1>2, <2>4
    <3>2. DelayedBy(a)' = DelayedBy(a) \cup {n + 1}
      BY <1>3, <2>4
    <3>. QED
      BY <2>1, <2>3, <3>1, <3>2
  <2>5. CASE ~Blamed(a)
    <3>1. stats'[a].delays = stats[a].delays + 0
      BY <1>2, <2>5
    <3>2. DelayedBy(a)' = DelayedBy(a)
      BY <1>3, <2>5
    <3>. QED
      BY <2>1, <2>3, <3>1, <3>2
  <2>. QED
    BY <2>4, <2>5
<1>5. ASSUME NEW a \in Accounts
      PROVE  stats'[a].programs = UNION {txs'[j].programs : j \in DelayedBy(a)'}
  <2>1. stats[a].programs = UNION {txs[j].programs : j \in DelayedBy(a)}
    BY DEF AttributionExact
  <2>2. {txs'[j].programs : j \in DelayedBy(a)} = {txs[j].programs : j \in DelayedBy(a)}
    BY <1>1, <1>3
  <2>3. CASE Blamed(a)
    <3>1. {txs'[j].programs : j \in DelayedBy(a) \cup {n + 1}}
            = {txs[j].programs : j \in DelayedBy(a)} \cup {tx.programs}
      BY <1>1, <2>2
    <3>2. stats'[a].programs = stats[a].programs \cup tx.programs
      BY <1>2, <2>3
    <3>3. DelayedBy(a)' = DelayedBy(a) \cup {n + 1}
      BY <1>3, <2>3
    <3>4. UNION ({txs[j].programs : j \in DelayedBy(a)} \cup {tx.programs})
            = (UNION {txs[j].programs : j \in DelayedBy(a)}) \cup tx.programs
      OBVIOUS
    <3>. QED
      BY <2>1, <3>1, <3>2, <3>3, <3>4
  <2>4. CASE ~Blamed(a)
    <3>1. stats'[a].programs = stats[a].programs
      BY <1>2, <2>4
    <3>2. DelayedBy(a)' = DelayedBy(a)
      BY <1>3, <2>4
    <3>. QED
      BY <2>1, <2>2, <3>1, <3>2
  <2>. QED
    BY <2>3, <2>4
<1>6. IInv' => (\A j \in DOMAIN txs : all.steps[j] > 1
                   => \E a \in Accounts : j \in DelayedBy(a))'
  BY NoDelayUnexplained, PTL
<1>. QED
  BY <1>4, <1>5, <1>6 DEF AttributionExact
-----------------------------------------------------------------------------
(* The rest of the analysis, for every block                               *)

AnalysisInv == IInv /\ WidthsPartitionBlock /\ AttributionExact

LEMMA EmptyAnalysis ==
  Init => AnalysisInv
<1>. SUFFICES ASSUME Init
              PROVE  AnalysisInv
  OBVIOUS
<1>1. /\ txs = <<>> /\ all = EmptySchedule /\ nonVote = EmptySchedule /\ stats = NoStats
      /\ DOMAIN <<>> = {}
  BY EmptySeq DEF Init
<1>2. WidthsPartitionBlock
  BY <1>1 DEF WidthsPartitionBlock, WidthsPartition, EmptySchedule
<1>3. ASSUME NEW a \in Accounts
      PROVE  DelayedBy(a) = {} /\ stats[a].delays = 0 /\ stats[a].programs = {}
  BY <1>1 DEF DelayedBy, NoStats
<1>4. Cardinality({}) = 0
  BY FS_EmptySet
<1>5. ASSUME NEW a \in Accounts
      PROVE  /\ stats[a].delays = Cardinality(DelayedBy(a))
             /\ stats[a].programs = UNION {txs[j].programs : j \in DelayedBy(a)}
  BY <1>3, <1>4
<1>6. AttributionExact
  BY <1>1, <1>5 DEF AttributionExact
<1>. QED
  BY <1>2, <1>6, EmptyBlock DEF AnalysisInv

LEMMA PlaceWidths ==
  ASSUME IInv, WidthsPartitionBlock, NEW tx \in Tx, Place(tx)
  PROVE  WidthsPartitionBlock'
<1>1. /\ txs \in Seq(Tx) /\ NonVoteBlock \in Seq(Tx)
      /\ Built(all, txs) /\ LocksKnown(all, txs) /\ WidthsPartition(all)
      /\ Built(nonVote, NonVoteBlock) /\ LocksKnown(nonVote, NonVoteBlock)
      /\ WidthsPartition(nonVote)
  BY NonVoteBlockFacts DEF IInv, TypeOK, Scheduled, WidthsPartitionBlock
<1>2. /\ WidthsPartition(Placed(all, tx)) /\ WidthsPartition(Placed(nonVote, tx))
  BY <1>1, PlacedWidths
<1>3. /\ all' = Placed(all, tx)
      /\ nonVote' = Placed(nonVote, tx) \/ nonVote' = nonVote
  BY DEF Place
<1>. QED
  BY <1>1, <1>2, <1>3 DEF WidthsPartitionBlock

LEMMA AnalysisInvariant ==
  Spec => []AnalysisInv
<1>1. Init => AnalysisInv
  BY EmptyAnalysis
<1>2. AnalysisInv /\ IInv' /\ [Next]_vars => AnalysisInv'
  <2>. SUFFICES ASSUME AnalysisInv, IInv', [Next]_vars
                PROVE  AnalysisInv'
    OBVIOUS
  <2>1. ASSUME NEW tx \in Tx, Place(tx)
        PROVE  AnalysisInv'
    BY <2>1, PlaceWidths, PlaceAttribution DEF AnalysisInv
  <2>2. CASE NextBlock
    <3>1. NextBlock => Init'
      BY DEF NextBlock, Init
    <3>2. Init' => AnalysisInv'
      BY EmptyAnalysis, PTL
    <3>. QED
      BY <2>2, <3>1, <3>2
  <2>3. CASE UNCHANGED vars
    BY <2>3 DEF vars, AnalysisInv, WidthsPartitionBlock, AttributionExact, DelayedBy
  <2>. QED
    BY <2>1, <2>2, <2>3 DEF Next
<1>. QED
  BY <1>1, <1>2, IInvInvariant, PTL DEF Spec

\* For every block, the widths `build` reports are those of its steps: no step
\* is empty and every transaction is counted in one.
THEOREM WidthsCountEveryTransaction ==
  Spec => []WidthsPartitionBlock
<1>1. AnalysisInv => WidthsPartitionBlock
  BY DEF AnalysisInv
<1>. QED
  BY <1>1, AnalysisInvariant, PTL

\* For every block, the depth is the length of the longest chain of transactions
\* each in conflict with the next, with the votes and without them: the critical
\* path that the comments of contention.rs promise.
THEOREM DepthIsTheCriticalPath ==
  Spec => []DepthIsLongestChain
<1>1. AnalysisInv => DepthIsLongestChain
  <2>. SUFFICES ASSUME AnalysisInv
                PROVE  DepthIsLongestChain
    OBVIOUS
  <2>1. /\ txs \in Seq(Tx) /\ NonVoteBlock \in Seq(Tx)
        /\ Scheduled(all, txs) /\ WidthsPartition(all)
        /\ Scheduled(nonVote, NonVoteBlock) /\ WidthsPartition(nonVote)
    BY NonVoteBlockFacts DEF AnalysisInv, IInv, TypeOK, WidthsPartitionBlock
  <2>. QED
    BY <2>1, DepthOfSchedule DEF DepthIsLongestChain
<1>. QED
  BY <1>1, AnalysisInvariant, PTL

\* For every block, the delays an account is charged with and the programs it
\* is said to have delayed are those of the transactions that waited for it,
\* and nothing that waited is charged to nobody.
THEOREM DelaysChargedRightly ==
  Spec => []AttributionExact
<1>1. AnalysisInv => AttributionExact
  BY DEF AnalysisInv
<1>. QED
  BY <1>1, AnalysisInvariant, PTL
-----------------------------------------------------------------------------
(* Messages                                                                *)

\* s has the elements of S and no others.
Lists(s, S) == s \in Seq(S) /\ \A x \in S : \E i \in 1 .. Len(s) : s[i] = x

LEMMA SeqOfSet ==
  ASSUME NEW S, IsFiniteSet(S)
  PROVE  Lists(SetToSeq(S), S) /\ Len(SetToSeq(S)) = Cardinality(S)
<1> DEFINE n == Cardinality(S)
           s == SetToSeq(S)
<1>1. n \in Nat /\ IsFiniteSet(1 .. n) /\ Cardinality(1 .. n) = n
  <2>1. n \in Nat
    BY FS_CardinalityType
  <2>. QED
    BY <2>1, FS_Interval
<1>2. \E f \in [1 .. n -> S] : IsInjective(f)
  <2>1. PICK k \in Nat : ExistsBijection(1 .. k, S)
    BY FS_NatBijection
  <2>2. k = n
    BY <2>1, FS_CountingElements
  <2>3. PICK f \in Bijection(1 .. n, S) : TRUE
    BY <2>1, <2>2 DEF ExistsBijection
  <2>. QED
    BY <2>3 DEF Bijection, Injection
<1>3. s \in [1 .. n -> S] /\ IsInjective(s)
  BY <1>2 DEF SetToSeq
<1>. HIDE DEF n, s
<1>4. s \in Surjection(1 .. n, S)
  BY <1>1, <1>3, FS_Injection DEF Injection, n
<1>5. s \in Seq(S) /\ Len(s) = n
  BY <1>1, <1>3
<1>6. \A x \in S : \E i \in 1 .. Len(s) : s[i] = x
  BY <1>4, <1>5 DEF Surjection
<1>. QED
  BY <1>5, <1>6 DEF Lists, n, s

LEMMA ListSet ==
  ASSUME NEW S, NEW s, Lists(s, S)
  PROVE  ToSet(s) = S /\ Len(s) \in Nat /\ DOMAIN s = 1 .. Len(s)
BY DEF Lists, ToSet

\* The payer and then the others are what is there of them all.
LEMMA ListOfOneMore ==
  ASSUME NEW S, NEW x \in S, NEW s, Lists(s, S \ {x})
  PROVE  Lists(<<x>> \o s, S) /\ Len(<<x>> \o s) = 1 + Len(s)
<1> DEFINE t == <<x>> \o s
<1>1. s \in Seq(S \ {x}) /\ s \in Seq(S) /\ Len(s) \in Nat /\ <<x>> \in Seq(S) /\ Len(<<x>>) = 1
  BY DEF Lists
<1>2. /\ t \in Seq(S) /\ Len(t) = 1 + Len(s) /\ t[1] = x
      /\ \A i \in 1 .. Len(s) : t[i + 1] = s[i]
  BY <1>1
<1>. HIDE DEF t
<1>3. ASSUME NEW y \in S
      PROVE  \E i \in 1 .. Len(t) : t[i] = y
  <2>1. CASE y = x
    BY <1>1, <1>2, <2>1
  <2>2. CASE y # x
    <3>1. PICK i \in 1 .. Len(s) : s[i] = y
      BY <2>2 DEF Lists
    <3>2. i + 1 \in 1 .. Len(t) /\ t[i + 1] = y
      BY <1>1, <1>2, <3>1
    <3>. QED
      BY <3>2
  <2>. QED
    BY <2>1, <2>2
<1>. QED
  BY <1>2, <1>3 DEF Lists, t

LEMMA OneAfterTheOther ==
  ASSUME NEW U, NEW x \in Seq(U), NEW y \in Seq(U)
  PROVE  /\ x \o y \in Seq(U) /\ Len(x \o y) = Len(x) + Len(y)
         /\ \A i \in 1 .. Len(x) : (x \o y)[i] = x[i]
         /\ \A i \in 1 .. Len(y) : (x \o y)[Len(x) + i] = y[i]
<1> DEFINE z == x \o y
           m == Len(x)
           n == Len(y)
<1>1. /\ z \in Seq(U) /\ Len(z) = m + n /\ m \in Nat /\ n \in Nat
      /\ \A i \in 1 .. m + n : z[i] = IF i <= m THEN x[i] ELSE y[i - m]
  BY ConcatProperties
<1>. HIDE DEF z, m, n
<1>2. \A i \in 1 .. m : z[i] = x[i]
  BY <1>1
<1>3. ASSUME NEW i \in 1 .. n
      PROVE  z[m + i] = y[i]
  <2>1. m + i \in 1 .. m + n /\ ~(m + i <= m) /\ (m + i) - m = i
    BY <1>1
  <2>. QED
    BY <1>1, <2>1
<1>. QED
  BY <1>1, <1>2, <1>3 DEF z, m, n

ListsOf(s, S, U) == Lists(s, S) /\ S \subseteq U

\* The elements of keys at the positions I.
At(keys, I) == {keys[i] : i \in I}

Four(p, q, r, s) == (p \o q) \o (r \o s)

FirstAndThird(p, q, r, s) ==
  {i \in 1 .. (Len(p) + Len(q) + Len(r) + Len(s)) :
     i <= Len(p) \/ (Len(p) + Len(q) < i /\ i <= Len(p) + Len(q) + Len(r))}

AtTheirPlaces(U, A, B, C, D, p, q, r, s) ==
  /\ Four(p, q, r, s) \in Seq(U)
  /\ Len(Four(p, q, r, s)) = Len(p) + Len(q) + Len(r) + Len(s)
  /\ At(Four(p, q, r, s), FirstAndThird(p, q, r, s)) = A \cup C
  /\ At(Four(p, q, r, s), (1 .. Len(Four(p, q, r, s))) \ FirstAndThird(p, q, r, s))
       = B \cup D

\* Four lists one after the other: the elements of the first and the third are
\* at these positions.
LEMMA FourLists ==
  ASSUME NEW U, NEW A, NEW B, NEW C, NEW D, NEW p, NEW q, NEW r, NEW s,
         ListsOf(p, A, U), ListsOf(q, B, U), ListsOf(r, C, U), ListsOf(s, D, U)
  PROVE  AtTheirPlaces(U, A, B, C, D, p, q, r, s)
<1>0. \A x, y \in Seq(U) :
        /\ x \o y \in Seq(U) /\ Len(x \o y) = Len(x) + Len(y)
        /\ \A i \in 1 .. Len(x) : (x \o y)[i] = x[i]
        /\ \A i \in 1 .. Len(y) : (x \o y)[Len(x) + i] = y[i]
  BY OneAfterTheOther
<1> DEFINE keys == (p \o q) \o (r \o s)
           a == Len(p)
           b == Len(q)
           c == Len(r)
           e == Len(s)
<1>1. /\ p \in Seq(U) /\ q \in Seq(U) /\ r \in Seq(U) /\ s \in Seq(U)
      /\ p \in Seq(A) /\ q \in Seq(B) /\ r \in Seq(C) /\ s \in Seq(D)
  BY DEF Lists, ListsOf
<1>2. a \in Nat /\ b \in Nat /\ c \in Nat /\ e \in Nat
  BY <1>1
<1>3. /\ keys \in Seq(U) /\ Len(keys) = a + b + c + e
      /\ \A i \in 1 .. a : keys[i] = p[i]
      /\ \A i \in 1 .. b : keys[a + i] = q[i]
      /\ \A i \in 1 .. c : keys[a + b + i] = r[i]
      /\ \A i \in 1 .. e : keys[a + b + c + i] = s[i]
  <2> DEFINE x == p \o q
             y == r \o s
  <2>1. /\ x \in Seq(U) /\ Len(x) = a + b
        /\ \A i \in 1 .. a : x[i] = p[i]
        /\ \A i \in 1 .. b : x[a + i] = q[i]
    BY <1>1, OneAfterTheOther
  <2>2. /\ y \in Seq(U) /\ Len(y) = c + e
        /\ \A i \in 1 .. c : y[i] = r[i]
        /\ \A i \in 1 .. e : y[c + i] = s[i]
    BY <1>1, OneAfterTheOther
  <2>. HIDE DEF x, y, a, b, c, e
  <2>3. /\ x \o y \in Seq(U) /\ Len(x \o y) = (a + b) + (c + e)
        /\ \A i \in 1 .. (a + b) : (x \o y)[i] = x[i]
        /\ \A i \in 1 .. (c + e) : (x \o y)[(a + b) + i] = y[i]
    <3>1. x \in Seq(U) /\ y \in Seq(U) /\ Len(x) = a + b /\ Len(y) = c + e
      BY <2>1, <2>2
    <3>2. /\ x \o y \in Seq(U) /\ Len(x \o y) = Len(x) + Len(y)
          /\ \A i \in 1 .. Len(x) : (x \o y)[i] = x[i]
          /\ \A i \in 1 .. Len(y) : (x \o y)[Len(x) + i] = y[i]
      BY <1>0, <3>1
    <3>. QED
      BY <3>1, <3>2
  <2>. HIDE DEF keys
  <2>4. keys = x \o y
    BY DEF keys, x, y
  <2>5. /\ \A i \in 1 .. a : i \in 1 .. (a + b)
        /\ \A i \in 1 .. b : a + i \in 1 .. (a + b)
        /\ \A i \in 1 .. c : i \in 1 .. (c + e) /\ (a + b) + i = a + b + i
        /\ \A i \in 1 .. e : c + i \in 1 .. (c + e) /\ (a + b) + (c + i) = a + b + c + i
        /\ (a + b) + (c + e) = a + b + c + e
    BY <1>2
  <2>6. \A i \in 1 .. a : keys[i] = p[i]
    BY <2>1, <2>3, <2>4, <2>5
  <2>7. \A i \in 1 .. b : keys[a + i] = q[i]
    BY <2>1, <2>3, <2>4, <2>5
  <2>8. \A i \in 1 .. c : keys[a + b + i] = r[i]
    BY <2>2, <2>3, <2>4, <2>5
  <2>9. \A i \in 1 .. e : keys[a + b + c + i] = s[i]
    BY <2>2, <2>3, <2>4, <2>5
  <2>. QED
    BY <2>3, <2>4, <2>5, <2>6, <2>7, <2>8, <2>9
<1>4. /\ \A i \in 1 .. a : p[i] \in A
      /\ \A i \in 1 .. b : q[i] \in B
      /\ \A i \in 1 .. c : r[i] \in C
      /\ \A i \in 1 .. e : s[i] \in D
  BY <1>1
<1>5. /\ \A x \in A : \E i \in 1 .. a : p[i] = x
      /\ \A x \in B : \E i \in 1 .. b : q[i] = x
      /\ \A x \in C : \E i \in 1 .. c : r[i] = x
      /\ \A x \in D : \E i \in 1 .. e : s[i] = x
  BY DEF Lists, ListsOf
<1> DEFINE N == 1 .. (a + b + c + e)
           First == {i \in N : i <= a \/ (a + b < i /\ i <= a + b + c)}
<1>. HIDE DEF keys, a, b, c, e
<1>6. /\ \A i \in 1 .. a : i \in First
      /\ \A i \in 1 .. b : a + i \in N \ First
      /\ \A i \in 1 .. c : a + b + i \in First
      /\ \A i \in 1 .. e : a + b + c + i \in N \ First
  BY <1>2
<1>7. ASSUME NEW i \in First
      PROVE  i \in 1 .. a \/ \E j \in 1 .. c : i = a + b + j
  <2>1. CASE i <= a
    BY <1>2, <2>1
  <2>2. CASE a + b < i /\ i <= a + b + c
    <3>1. i - (a + b) \in 1 .. c /\ i = a + b + (i - (a + b))
      BY <1>2, <2>2
    <3>. QED
      BY <3>1
  <2>. QED
    BY <2>1, <2>2
<1>8. ASSUME NEW i \in N \ First
      PROVE  (\E j \in 1 .. b : i = a + j) \/ \E j \in 1 .. e : i = a + b + c + j
  <2>1. CASE i <= a + b
    <3>1. i - a \in 1 .. b /\ i = a + (i - a)
      BY <1>2, <2>1
    <3>. QED
      BY <3>1
  <2>2. CASE ~(i <= a + b)
    <3>1. i - (a + b + c) \in 1 .. e /\ i = a + b + c + (i - (a + b + c))
      BY <1>2, <2>2
    <3>. QED
      BY <3>1
  <2>. QED
    BY <2>1, <2>2
<1>. HIDE DEF First, N
<1>9. At(keys, First) = A \cup C
  <2>1. \A i \in First : keys[i] \in A \cup C
    BY <1>3, <1>4, <1>7
  <2>2. \A x \in A \cup C : \E i \in First : keys[i] = x
    BY <1>3, <1>5, <1>6
  <2>. QED
    BY <2>1, <2>2 DEF At
<1>10. At(keys, N \ First) = B \cup D
  <2>1. \A i \in N \ First : keys[i] \in B \cup D
    BY <1>3, <1>4, <1>8
  <2>2. \A x \in B \cup D : \E i \in N \ First : keys[i] = x
    BY <1>3, <1>5, <1>6
  <2>. QED
    BY <2>1, <2>2 DEF At
<1>11. keys = Four(p, q, r, s)
  BY DEF keys, Four
<1>12. First = FirstAndThird(p, q, r, s) /\ N = 1 .. Len(keys)
  BY <1>3 DEF First, N, FirstAndThird, a, b, c, e
<1>. QED
  BY <1>3, <1>9, <1>10, <1>11, <1>12 DEF AtTheirPlaces, a, b, c, e
LEMMA WritableByCount ==
  ASSUME NEW a \in Nat, a > 0, NEW b \in Nat, NEW c \in Nat, NEW e \in Nat, NEW h,
         h.signatures = a + b, h.readonlySigned = b, h.readonlyUnsigned = e,
         NEW i \in 1 .. (a + b + c + e)
  PROVE  StaticKeyIsWritable(i - 1, a + b + c + e, h)
           <=> i <= a \/ (a + b < i /\ i <= a + b + c)
<1>1. SaturatingSub(h.signatures, h.readonlySigned) = a
  BY DEF SaturatingSub
<1>2. SaturatingSub(a + b + c + e, h.readonlyUnsigned) = a + b + c
  BY DEF SaturatingSub
<1>3. StaticKeyIsWritable(i - 1, a + b + c + e, h)
        <=> IF i - 1 < a + b THEN i - 1 < a ELSE i - 1 < a + b + c
  BY <1>1, <1>2 DEF StaticKeyIsWritable
<1>. QED
  BY <1>3

LEMMA DeclarationFacts ==
  ASSUME NEW d \in Declarations
  PROVE  /\ d.payer \in Accounts /\ d.use[d.payer] = "writableSigner"
         /\ d.calls \in ProgramSets /\ d.calls \subseteq AccountsUsed(d, "readonly")
         /\ d.use \in [Accounts -> Use]
         /\ \A u : AccountsUsed(d, u) \subseteq Accounts /\ IsFiniteSet(AccountsUsed(d, u))
<1>1. /\ d.payer \in Accounts /\ d.use[d.payer] = "writableSigner"
      /\ d.calls \in ProgramSets /\ d.calls = {p \in Programs : d.use[p] = "readonly"}
      /\ d.use \in [Accounts -> Use]
  BY DEF Declarations
<1>2. d.calls \subseteq AccountsUsed(d, "readonly")
  BY <1>1, ProgramsAssumption DEF AccountsUsed
<1>3. \A u : AccountsUsed(d, u) \subseteq Accounts /\ IsFiniteSet(AccountsUsed(d, u))
  <2>1. \A u : AccountsUsed(d, u) \in SUBSET Accounts
    BY DEF AccountsUsed
  <2>. QED
    BY <2>1, FS_Subset, AccountsAssumption
<1>. QED
  BY <1>1, <1>2, <1>3

\* What a sender means by each account is what resolve makes of its message.
LEMMA ResolveOfMessage ==
  ASSUME NEW d \in Declarations
  PROVE  LET tx == Resolve(Message(d))
         IN  /\ tx.writable = {a \in Accounts : d.use[a] \in Writes}
             /\ tx.readonly = {a \in Accounts : d.use[a] \in Reads}
             /\ tx.programs = d.calls
             /\ tx = [writable |-> tx.writable, readonly |-> tx.readonly,
                      programs |-> tx.programs]
<1> DEFINE Used(u) == AccountsUsed(d, u)
           rest == SetToSeq(Used("writableSigner") \ {d.payer})
           p == <<d.payer>> \o rest
           q == SetToSeq(Used("readonlySigner"))
           r == SetToSeq(Used("writable"))
           s == SetToSeq(Used("readonly"))
           lw == SetToSeq(Used("loadedWritable"))
           lr == SetToSeq(Used("loadedReadonly"))
           calls == SetToSeq(d.calls)
           msg == Message(d)
           h == msg.header
           keys == Four(p, q, r, s)
           N == 1 .. Len(keys)
           First == FirstAndThird(p, q, r, s)
<1>1. /\ d.payer \in Used("writableSigner")
      /\ \A u : Used(u) \subseteq Accounts /\ IsFiniteSet(Used(u))
      /\ IsFiniteSet(Used("writableSigner") \ {d.payer})
      /\ d.calls \subseteq Used("readonly") /\ IsFiniteSet(d.calls)
  <2>1. \A u : Used(u) \subseteq Accounts /\ IsFiniteSet(Used(u))
    BY DeclarationFacts
  <2>2. Used("writableSigner") \ {d.payer} \in SUBSET Accounts /\ d.calls \in SUBSET Accounts
    BY <2>1, DeclarationFacts
  <2>. QED
    BY <2>1, <2>2, DeclarationFacts, FS_Subset, AccountsAssumption DEF AccountsUsed
<1>2. /\ msg.keys = keys
      /\ h.signatures = Len(p \o q)
      /\ h.readonlySigned = Cardinality(Used("readonlySigner"))
      /\ h.readonlyUnsigned = Cardinality(Used("readonly"))
      /\ msg.loadedWritable = lw /\ msg.loadedReadonly = lr
      /\ msg.instructions =
           [k \in DOMAIN calls |-> (CHOOSE i \in DOMAIN keys : keys[i] = calls[k]) - 1]
  BY DEF Message, Four
<1>. HIDE DEF Used
<1>3. /\ Lists(q, Used("readonlySigner")) /\ Len(q) = Cardinality(Used("readonlySigner"))
      /\ Lists(r, Used("writable"))
      /\ Lists(s, Used("readonly")) /\ Len(s) = Cardinality(Used("readonly"))
      /\ Lists(lw, Used("loadedWritable")) /\ Lists(lr, Used("loadedReadonly"))
      /\ Lists(calls, d.calls)
      /\ Lists(rest, Used("writableSigner") \ {d.payer})
  BY <1>1, SeqOfSet
<1>. HIDE DEF q, r, s, lw, lr, calls, rest, msg
<1>4. Lists(p, Used("writableSigner")) /\ Len(p) = 1 + Len(rest)
  BY <1>1, <1>3, ListOfOneMore
<1>. HIDE DEF p
<1>5. Len(p) \in Nat /\ Len(p) > 0 /\ Len(q) \in Nat /\ Len(r) \in Nat /\ Len(s) \in Nat
      /\ p \in Seq(Accounts) /\ q \in Seq(Accounts)
  BY <1>1, <1>3, <1>4 DEF Lists
<1>6. /\ keys \in Seq(Accounts) /\ Len(keys) = Len(p) + Len(q) + Len(r) + Len(s)
      /\ {keys[i] : i \in First} = Used("writableSigner") \cup Used("writable")
      /\ {keys[i] : i \in N \ First} = Used("readonlySigner") \cup Used("readonly")
  <2> DEFINE A == Used("writableSigner")
             B == Used("readonlySigner")
             C == Used("writable")
             D == Used("readonly")
  <2>1. /\ ListsOf(p, A, Accounts) /\ ListsOf(q, B, Accounts)
        /\ ListsOf(r, C, Accounts) /\ ListsOf(s, D, Accounts)
    BY <1>1, <1>3, <1>4 DEF ListsOf
  <2>. HIDE DEF A, B, C, D
  <2>2. AtTheirPlaces(Accounts, A, B, C, D, p, q, r, s)
    BY <2>1, FourLists
  <2>. QED
    BY <2>2 DEF AtTheirPlaces, A, B, C, D, At
<1>7. Len(p \o q) = Len(p) + Len(q)
  BY <1>5
<1>. HIDE DEF keys
<1>8. DOMAIN keys = N /\ Len(keys) \in Nat
  BY <1>6
<1>9. \A i \in N : StaticKeyIsWritable(i - 1, Len(keys), h) <=> i \in First
  <2>1. h.signatures = Len(p) + Len(q) /\ h.readonlySigned = Len(q) /\ h.readonlyUnsigned = Len(s)
    BY <1>2, <1>3, <1>7
  <2>. HIDE DEF h
  <2>2. \A i \in 1 .. (Len(p) + Len(q) + Len(r) + Len(s)) :
          StaticKeyIsWritable(i - 1, Len(p) + Len(q) + Len(r) + Len(s), h)
            <=> i <= Len(p) \/ (Len(p) + Len(q) < i /\ i <= Len(p) + Len(q) + Len(r))
    BY <1>5, <2>1, WritableByCount
  <2>. QED
    BY <1>6, <2>2 DEF FirstAndThird
<1>. HIDE DEF First, N, h
<1> DEFINE W == {j \in DOMAIN keys : StaticKeyIsWritable(j - 1, Len(keys), h)}
           R == {j \in DOMAIN keys : ~StaticKeyIsWritable(j - 1, Len(keys), h)}
<1>10. W = First /\ R = N \ First
  BY <1>6, <1>8, <1>9 DEF First, FirstAndThird, N
<1>11. ToSet(lw) = Used("loadedWritable") /\ ToSet(lr) = Used("loadedReadonly")
  BY <1>3, ListSet
<1> DEFINE tx == Resolve(msg)
           all_ == CombinedAccountKeys(msg)
<1>12. /\ tx.writable = {keys[i] : i \in W} \cup ToSet(lw)
       /\ tx.readonly = {keys[i] : i \in R} \cup ToSet(lr)
       /\ tx.programs = {all_[ix + 1] : ix \in {n \in ToSet(msg.instructions) : n < Len(all_)}}
       /\ tx = [writable |-> tx.writable, readonly |-> tx.readonly, programs |-> tx.programs]
  BY <1>2 DEF Resolve, h
<1>. HIDE DEF tx, all_, W, R
<1>13. tx.writable = {a \in Accounts : d.use[a] \in Writes}
  <2>1. tx.writable = (Used("writableSigner") \cup Used("writable")) \cup Used("loadedWritable")
    BY <1>6, <1>10, <1>11, <1>12
  <2>. QED
    BY <2>1 DEF Used, AccountsUsed, Writes
<1>14. tx.readonly = {a \in Accounts : d.use[a] \in Reads}
  <2>1. tx.readonly = (Used("readonlySigner") \cup Used("readonly")) \cup Used("loadedReadonly")
    BY <1>6, <1>10, <1>11, <1>12
  <2>. QED
    BY <2>1 DEF Used, AccountsUsed, Reads
<1>15. tx.programs = d.calls
  <2> DEFINE Index(a) == (CHOOSE i \in DOMAIN keys : keys[i] = a) - 1
  <2>1. \A a \in d.calls : \E i \in DOMAIN keys : keys[i] = a
    <3>1. d.calls \subseteq {keys[i] : i \in N \ First}
      BY <1>1, <1>6
    <3>. QED
      BY <1>8, <3>1
  <2>2. \A a \in d.calls : Index(a) + 1 \in N /\ keys[Index(a) + 1] = a
    <3>. TAKE a \in d.calls
    <3> DEFINE i == CHOOSE i \in DOMAIN keys : keys[i] = a
    <3>1. i \in N /\ keys[i] = a
      BY <1>8, <2>1
    <3>2. i \in Nat
      BY <1>8, <3>1 DEF N
    <3>3. (i - 1) + 1 = i
      BY <3>2
    <3>. QED
      BY <3>1, <3>3
  <2>3. /\ Len(all_) \in Nat /\ Len(keys) <= Len(all_)
        /\ \A i \in N : all_[i] = keys[i]
    <3>1. lw \in Seq(Accounts) /\ lr \in Seq(Accounts) /\ keys \in Seq(Accounts)
      BY <1>1, <1>3, <1>6 DEF Lists
    <3>2. all_ = (keys \o lw) \o lr
      BY <1>2 DEF all_, CombinedAccountKeys
    <3>3. /\ keys \o lw \in Seq(Accounts) /\ Len(keys \o lw) = Len(keys) + Len(lw)
          /\ \A i \in 1 .. Len(keys) : (keys \o lw)[i] = keys[i]
      BY <3>1, OneAfterTheOther
    <3>4. /\ Len(all_) = Len(keys \o lw) + Len(lr)
          /\ \A i \in 1 .. Len(keys \o lw) : all_[i] = (keys \o lw)[i]
      BY <3>1, <3>2, <3>3, OneAfterTheOther
    <3>5. Len(lw) \in Nat /\ Len(lr) \in Nat
      BY <3>1
    <3>. QED
      BY <1>8, <3>3, <3>4, <3>5 DEF N
  <2>4. ToSet(msg.instructions) = {Index(a) : a \in d.calls}
    <3>1. ToSet(msg.instructions) = {Index(calls[k]) : k \in DOMAIN calls}
      BY <1>2 DEF ToSet
    <3>2. {calls[k] : k \in DOMAIN calls} = d.calls
      BY <1>3, ListSet DEF ToSet
    <3>. QED
      BY <3>1, <3>2
  <2>5. \A a \in d.calls : Index(a) < Len(all_) /\ all_[Index(a) + 1] = a
    <3>. TAKE a \in d.calls
    <3>1. Index(a) + 1 \in N /\ keys[Index(a) + 1] = a
      BY <2>2
    <3>2. PICK j \in N : j = Index(a) + 1
      BY <3>1
    <3>3. Index(a) \in Int
      <4>1. \E i \in N : i = CHOOSE k \in DOMAIN keys : keys[k] = a
        BY <1>8, <2>1
      <4>. QED
        BY <4>1 DEF N
    <3>. HIDE DEF Index
    <3>. QED
      BY <1>8, <2>3, <3>1, <3>3 DEF N
  <2>. HIDE DEF Index
  <2>. QED
    BY <1>12, <2>4, <2>5
<1>. QED
  BY <1>12, <1>13, <1>14, <1>15 DEF tx, msg
\* No account is locked twice by a message, and no other account passes for a
\* program: what resolve makes of one is a transaction as Contention has them.
LEMMA ResolvedIsTx ==
  ASSUME NEW d \in Declarations
  PROVE  Resolve(Message(d)) \in Tx
<1> DEFINE tx == Resolve(Message(d))
<1>1. /\ tx.writable = {a \in Accounts : d.use[a] \in Writes}
      /\ tx.readonly = {a \in Accounts : d.use[a] \in Reads}
      /\ tx.programs = d.calls /\ d.calls \in ProgramSets
      /\ tx = [writable |-> tx.writable, readonly |-> tx.readonly, programs |-> tx.programs]
  BY ResolveOfMessage, DeclarationFacts
<1>. HIDE DEF tx
<1>2. tx.readonly \cap tx.writable = {}
  BY <1>1 DEF Reads, Writes
<1>3. tx.readonly \in SUBSET Accounts /\ tx.writable \in SUBSET Accounts
  BY <1>1
<1>4. tx \in [readonly : SUBSET Accounts, writable : SUBSET Accounts, programs : ProgramSets]
  BY <1>1, <1>3
<1>. QED
  BY <1>2, <1>4 DEF Tx, tx

\* The last transaction is the last message, resolved.
MessageInv ==
  /\ txs \in Seq(Tx)
  /\ txs # <<>> => declared \in Declarations /\ Last(txs) = Resolve(Message(declared))

LEMMA MessageStep ==
  ASSUME txs \in Seq(Tx), NEW d \in Declarations, ResolveNext(d)
  PROVE  /\ Last(txs') \in Tx /\ Place(Last(txs'))
         /\ txs' \in Seq(Tx) /\ Last(txs') = Resolve(Message(d)) /\ declared' = d
<1> DEFINE tx == Resolve(Message(d))
<1>1. tx \in Tx
  BY ResolvedIsTx
<1>2. Place(tx) /\ declared' = d
  BY DEF ResolveNext
<1>. HIDE DEF tx
<1>3. txs' = Append(txs, tx)
  BY <1>2 DEF Place
<1>4. txs' \in Seq(Tx) /\ Last(txs') = tx
  BY <1>1, <1>3 DEF Last
<1>. QED
  BY <1>1, <1>2, <1>4 DEF tx

LEMMA MessageInvariant ==
  BlocksSpec => []MessageInv
<1>1. BlocksInit => MessageInv
  BY DEF BlocksInit, Init, MessageInv
<1>2. MessageInv /\ [BlocksNext]_blockVars => MessageInv'
  <2>. SUFFICES ASSUME MessageInv, [BlocksNext]_blockVars
                PROVE  MessageInv'
    OBVIOUS
  <2>1. ASSUME NEW d \in Declarations, ResolveNext(d)
        PROVE  MessageInv'
    BY <2>1, MessageStep DEF MessageInv
  <2>2. CASE AnotherBlock
    BY <2>2 DEF AnotherBlock, NextBlock, MessageInv
  <2>3. CASE UNCHANGED blockVars
    BY <2>3 DEF blockVars, vars, MessageInv
  <2>. QED
    BY <2>1, <2>2, <2>3 DEF BlocksNext
<1>. QED
  BY <1>1, <1>2, PTL DEF BlocksSpec

\* For any accounts and any message a sender may compile, the counts of its
\* header and the positions of its keys give resolve what the sender meant: the
\* locks, the programs called, and whether it is a vote.
THEOREM ResolutionLosesNothing ==
  BlocksSpec => []ResolvedAsDeclared
<1>1. MessageInv => ResolvedAsDeclared
  <2>. SUFFICES ASSUME MessageInv, txs # <<>>
                PROVE  LET tx == Last(txs)
                       IN  /\ tx.writable = {a \in Accounts : declared.use[a] \in Writes}
                           /\ tx.readonly = {a \in Accounts : declared.use[a] \in Reads}
                           /\ tx.programs = declared.calls
                           /\ IsVote(tx) <=> declared.calls = {VoteProgram}
    BY DEF ResolvedAsDeclared
  <2>1. declared \in Declarations /\ Last(txs) = Resolve(Message(declared))
    BY DEF MessageInv
  <2>. QED
    BY <2>1, ResolveOfMessage DEF IsVote
<1>. QED
  BY <1>1, MessageInvariant, PTL

\* Whatever messages a block holds, analysing what they resolve to is a
\* behaviour of the analysis of transactions.
THEOREM BlocksImplementContention ==
  BlocksSpec => AnalysedAsContention
<1>1. BlocksInit => Init
  BY DEF BlocksInit
<1>2. MessageInv /\ [BlocksNext]_blockVars
        => [NextBlock \/ (Last(txs') \in Tx /\ Place(Last(txs')))]_vars
  <2>. SUFFICES ASSUME MessageInv, [BlocksNext]_blockVars
                PROVE  [NextBlock \/ (Last(txs') \in Tx /\ Place(Last(txs')))]_vars
    OBVIOUS
  <2>1. ASSUME NEW d \in Declarations, ResolveNext(d)
        PROVE  Last(txs') \in Tx /\ Place(Last(txs'))
    BY <2>1, MessageStep DEF MessageInv
  <2>2. AnotherBlock => NextBlock
    BY DEF AnotherBlock
  <2>3. UNCHANGED blockVars => UNCHANGED vars
    BY DEF blockVars
  <2>. QED
    BY <2>1, <2>2, <2>3 DEF BlocksNext
<1>. QED
  BY <1>1, <1>2, MessageInvariant, PTL DEF BlocksSpec, AnalysedAsContention

\* So the theorems about the analysis of transactions are theorems about the
\* analysis of messages.
THEOREM BlocksAreAnalysedRightly ==
  BlocksSpec => /\ []TypeOK /\ []StepsAreEarliest /\ []DepthIsLongestChain
                /\ []WidthsPartitionBlock /\ []AttributionExact /\ []VotesNeverHelp
                /\ []RowsAreTheHottest
<1>1. [NextBlock \/ (Last(txs') \in Tx /\ Place(Last(txs')))]_vars => [Next]_vars
  BY DEF Next
<1>2. AnalysedAsContention => Spec
  BY <1>1, PTL DEF AnalysedAsContention, Spec
<1>. QED
  BY <1>2, BlocksImplementContention, ContentionTypeCorrect, EarliestSteps,
     DepthIsTheCriticalPath, WidthsCountEveryTransaction, DelaysChargedRightly,
     VotesNeverHelpAnyone, RowsKeepTheHottest, PTL
=============================================================================
