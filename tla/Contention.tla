----------------------------- MODULE Contention -----------------------------
(***************************************************************************)
(* The contention analysis of a block: contention::analyze, one transaction *)
(* at a time. The code runs `build` over the whole block and then, with     *)
(* fresh state, over its non-vote transactions; the two passes share        *)
(* nothing, so here they advance together and each state is the analysis of *)
(* a block that ends there.                                                 *)
(*                                                                         *)
(* An account is locked once by a transaction, for reading or for writing:  *)
(* the chain rejects a transaction that lists an account twice.             *)
(***************************************************************************)
EXTENDS Naturals, Sequences, FiniteSets, FiniteSetsExt

CONSTANTS
  Accounts,         \* numbers, ordered as the code orders account names
  ProgramSets,      \* what a transaction may invoke
  VoteProgram,
  MaxConflictRows,  \* MAX_CONFLICT_ROWS_PER_SLOT
  MaxTxs            \* bound: transactions in a block

ASSUME AccountsAssumption == Accounts \subseteq Nat /\ IsFiniteSet(Accounts)
ASSUME BoundsAssumption   == MaxConflictRows \in Nat /\ MaxTxs \in Nat

VARIABLES
  txs,         \* the block's transactions so far
  nonVoteTxs,  \* non_vote_txs: the positions in txs of those that are no votes
  all,         \* the schedule being built over every transaction
  nonVote,     \* the one built without the votes
  stats        \* per account: locks taken, delays caused, programs delayed

vars == <<txs, nonVoteTxs, all, nonVote, stats>>

Tx == {t \in [readonly : SUBSET Accounts, writable : SUBSET Accounts,
              programs : ProgramSets] : t.readonly \cap t.writable = {}}

\* A vote invokes the vote program and nothing else.
IsVote(tx) == tx.programs = {VoteProgram}

EmptySchedule ==
  [lastWriter |-> [a \in Accounts |-> 0],  \* step of the latest write lock
   maxReader  |-> [a \in Accounts |-> 0],  \* latest step of a read lock
   steps      |-> <<>>,                    \* step of each transaction
   widths     |-> <<>>]                    \* transactions in each step

NoStats ==
  [a \in Accounts |-> [writeLocks |-> 0, readLocks |-> 0, delays |-> 0,
                       programs |-> {}]]

Init ==
  /\ txs = <<>> /\ nonVoteTxs = <<>>
  /\ all = EmptySchedule /\ nonVote = EmptySchedule
  /\ stats = NoStats
-----------------------------------------------------------------------------
WriterSteps(b, as) == {b.lastWriter[a] : a \in as}
ReaderSteps(b, as) == {b.maxReader[a] : a \in as}

LateStepOf(b, tx) ==                                   \* mutants of StepOf
  2 + Max({0} \cup WriterSteps(b, tx.readonly \cup tx.writable)
              \cup ReaderSteps(b, tx.writable))
ReadersIgnored(b, tx) ==
  1 + Max({0} \cup WriterSteps(b, tx.readonly \cup tx.writable))
ReadersWaitForReaders(b, tx) ==
  1 + Max({0} \cup WriterSteps(b, tx.readonly \cup tx.writable)
              \cup ReaderSteps(b, tx.readonly \cup tx.writable))

\* A read waits for the preceding write, a write for reads and writes alike.
StepOf(b, tx) ==
  1 + Max({0} \cup WriterSteps(b, tx.readonly \cup tx.writable)
              \cup ReaderSteps(b, tx.writable))

WidenedOnly(widths, step) ==                           \* mutant of Widened
  [s \in 1 .. Max({step, Len(widths)}) |->
     IF s > Len(widths) THEN 1 ELSE widths[s]]

\* widths, grown to the step if it is new, with one transaction more in it.
Widened(widths, step) ==
  [s \in 1 .. Max({step, Len(widths)}) |->
     (IF s <= Len(widths) THEN widths[s] ELSE 0) + (IF s = step THEN 1 ELSE 0)]

\* The transaction takes its step and publishes its locks.
Placed(b, tx) ==
  LET step == StepOf(b, tx)
  IN  [lastWriter |-> [a \in Accounts |->
                         IF a \in tx.writable THEN step ELSE b.lastWriter[a]],
       maxReader  |-> [a \in Accounts |->
                         IF a \in tx.readonly THEN Max({b.maxReader[a], step})
                                              ELSE b.maxReader[a]],
       steps      |-> Append(b.steps, step),
       widths     |-> Widened(b.widths, step)]

\* The accounts that held the transaction back from an earlier step.
WritersOnly(b, tx) ==                                  \* mutant of CriticalAccounts
  LET prev == StepOf(b, tx) - 1
  IN  {a \in tx.readonly \cup tx.writable : prev > 0 /\ b.lastWriter[a] = prev}

CriticalAccounts(b, tx) ==
  LET prev == StepOf(b, tx) - 1
  IN  {a \in tx.readonly : prev > 0 /\ b.lastWriter[a] = prev}
        \cup {a \in tx.writable :
                prev > 0 /\ prev \in {b.lastWriter[a], b.maxReader[a]}}

One(p) == IF p THEN 1 ELSE 0

Attributed(tx) ==
  LET delayedBy == CriticalAccounts(all, tx)
  IN  [a \in Accounts |->
         [writeLocks |-> stats[a].writeLocks + One(a \in tx.writable),
          readLocks  |-> stats[a].readLocks + One(a \in tx.readonly),
          delays     |-> stats[a].delays + One(a \in delayedBy),
          programs   |-> stats[a].programs
                           \cup (IF a \in delayedBy THEN tx.programs ELSE {})]]

PlaceAll(tx) ==                                        \* mutant of Place
  /\ Len(txs) < MaxTxs
  /\ txs' = Append(txs, tx)
  /\ all' = Placed(all, tx)
  /\ stats' = Attributed(tx)
  /\ nonVoteTxs' = Append(nonVoteTxs, Len(txs) + 1)
  /\ nonVote' = Placed(nonVote, tx)

\* The next transaction of the block, in block order.
Place(tx) ==
  /\ Len(txs) < MaxTxs
  /\ txs' = Append(txs, tx)
  /\ all' = Placed(all, tx)
  /\ stats' = Attributed(tx)
  /\ IF IsVote(tx)
     THEN UNCHANGED <<nonVoteTxs, nonVote>>
     ELSE /\ nonVoteTxs' = Append(nonVoteTxs, Len(txs) + 1)
          /\ nonVote' = Placed(nonVote, tx)

\* analyze is called for another block.
NextBlock ==
  /\ txs # <<>>
  /\ txs' = <<>> /\ nonVoteTxs' = <<>>
  /\ all' = EmptySchedule /\ nonVote' = EmptySchedule
  /\ stats' = NoStats

Next == NextBlock \/ \E tx \in Tx : Place(tx)

Spec == Init /\ [][Next]_vars
-----------------------------------------------------------------------------
(* The conflict rows `analyze` returns                                     *)

Locks(a) == stats[a].writeLocks + stats[a].readLocks

ColderFirst(a, c) == stats[a].delays < stats[c].delays   \* mutant of HotterThan

\* Most delays first, then most locks, then by name.
HotterThan(a, c) ==
  \/ stats[a].delays > stats[c].delays
  \/ stats[a].delays = stats[c].delays /\ Locks(a) > Locks(c)
  \/ stats[a].delays = stats[c].delays /\ Locks(a) = Locks(c) /\ a < c

\* The accounts that delayed anything, as many of them as the table keeps.
ConflictRows ==
  LET hot == {a \in Accounts : stats[a].delays > 0}
  IN  {a \in hot : Cardinality({c \in hot : HotterThan(c, a)}) < MaxConflictRows}
-----------------------------------------------------------------------------
(* Properties                                                              *)

ScheduleType(n) ==
  [lastWriter : [Accounts -> 0 .. n], maxReader : [Accounts -> 0 .. n],
   steps : Seq(1 .. n), widths : Seq(0 .. n)]

\* Every step is at most the position of its transaction: a block of n
\* transactions never needs more than n steps.
TypeOK ==
  /\ txs \in Seq(Tx) /\ Len(txs) <= MaxTxs
  /\ nonVoteTxs \in Seq(DOMAIN txs)
  /\ all \in ScheduleType(Len(txs)) /\ Len(all.steps) = Len(txs)
  /\ nonVote \in ScheduleType(Len(nonVoteTxs))
  /\ Len(nonVote.steps) = Len(nonVoteTxs)
  /\ stats \in [Accounts -> [writeLocks : 0 .. Len(txs), readLocks : 0 .. Len(txs),
                             delays : 0 .. Len(txs),
                             programs : SUBSET UNION ProgramSets]]

ConflictOn(t, u, a) ==
  \/ a \in t.writable /\ a \in u.writable \cup u.readonly
  \/ a \in u.writable /\ a \in t.readonly

Conflict(t, u) == \E a \in Accounts : ConflictOn(t, u, a)

NonVoteBlock == [k \in DOMAIN nonVoteTxs |-> txs[nonVoteTxs[k]]]

\* steps[j] is one more than the latest step of an earlier transaction that
\* conflicts with the j-th, or the first step if there is none.
Earliest(steps, block) ==
  \A j \in DOMAIN block :
    LET before == {i \in 1 .. (j - 1) : Conflict(block[i], block[j])}
    IN  /\ \A i \in before : steps[i] < steps[j]
        /\ steps[j] > 1 => \E i \in before : steps[i] = steps[j] - 1

\* What two numbers per account remember is enough: no transaction shares a
\* step with one it conflicts with or overtakes one, and none waits longer
\* than the conflict graph of the block makes it wait.
StepsAreEarliest ==
  /\ Earliest(all.steps, txs)
  /\ Earliest(nonVote.steps, NonVoteBlock)

\* A set of transactions each of which conflicts with the next of the set.
Chains(block) ==
  {S \in SUBSET DOMAIN block :
     \A i, j \in S : i < j /\ (\A k \in S : k <= i \/ k >= j)
                       => Conflict(block[i], block[j])}

\* The depth is the length of the longest chain of conflicts: "the critical
\* path of the conflict DAG induced by block order".
DepthIsLongestChain ==
  /\ Len(all.widths) = Max({Cardinality(S) : S \in Chains(txs)})
  /\ Len(nonVote.widths) = Max({Cardinality(S) : S \in Chains(NonVoteBlock)})

\* The widths are those of the steps: none is empty, and together they count
\* every transaction once.
WidthsPartition(b) ==
  /\ \A i \in DOMAIN b.steps : b.steps[i] \in DOMAIN b.widths
  /\ \A s \in DOMAIN b.widths :
       /\ b.widths[s] = Cardinality({i \in DOMAIN b.steps : b.steps[i] = s})
       /\ b.widths[s] > 0

WidthsPartitionBlock == WidthsPartition(all) /\ WidthsPartition(nonVote)

\* The transactions a delayed: those that conflict over a with one of the step
\* just before theirs.
DelayedBy(a) ==
  {j \in DOMAIN txs : \E i \in 1 .. (j - 1) :
     /\ all.steps[i] = all.steps[j] - 1
     /\ ConflictOn(txs[i], txs[j], a)}

\* The delay counters and program sets are exactly those of the transactions
\* the account delayed, and no delayed transaction is left unattributed.
AttributionExact ==
  /\ \A a \in Accounts :
       /\ stats[a].delays = Cardinality(DelayedBy(a))
       /\ stats[a].programs = UNION {txs[j].programs : j \in DelayedBy(a)}
  /\ \A j \in DOMAIN txs : all.steps[j] > 1 => \E a \in Accounts : j \in DelayedBy(a)

\* The schedule without votes has every other transaction and puts none of
\* them later: leaving votes out cannot make a block look more contended.
VotesNeverHelp ==
  /\ \A k \in DOMAIN txs : ~IsVote(txs[k]) <=> \E i \in DOMAIN nonVoteTxs : nonVoteTxs[i] = k
  /\ \A i \in DOMAIN nonVoteTxs :
       /\ ~IsVote(txs[nonVoteTxs[i]])
       /\ nonVote.steps[i] <= all.steps[nonVoteTxs[i]]
  /\ Len(nonVote.widths) <= Len(all.widths)

\* The cap drops no account that delayed more than one it keeps.
RowsAreTheHottest ==
  \A a \in ConflictRows : \A c \in Accounts \ ConflictRows :
    stats[c].delays <= stats[a].delays
=============================================================================
