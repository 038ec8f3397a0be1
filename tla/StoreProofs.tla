---------------------------- MODULE StoreProofs ----------------------------
(***************************************************************************)
(* For any number of processes, slots and runs: the tables are well formed,  *)
(* and every committed state has the rows its slots' statuses promise.       *)
(***************************************************************************)
EXTENDS Store, SequenceTheorems, TLAPS

\* The open transaction starts from the committed tables and belongs to the one
\* process that is writing, so its draft keeps the promise block by block.
TransactionOwned ==
  /\ OneWriter
  /\ holder # NoProcess => RowsFollow(draft)

StoreInv == WellTyped /\ TransactionOwned /\ RowsFollowStatus

LEMMA EmptyTables == Empty \in Tables /\ RowsFollow(Empty)
BY DEF Empty, Tables, RowsFollow, DoneSlots

\* write_block replaces a slot's rows by those of its new status, and touches no
\* other slot.
LEMMA RewrittenFollows ==
  ASSUME NEW t \in Tables, RowsFollow(t), NEW b \in BlockWrite
  PROVE  Rewritten(t, b) \in Tables /\ RowsFollow(Rewritten(t, b))
<1> DEFINE u == Rewritten(t, b)
<1>1. b.slot \in Slots /\ b.status \in Outcome
  BY DEF BlockWrite
<1>2. RowsOf(b) \subseteq Slots /\ (RowsOf(b) = {b.slot} <=> b.status = "done")
      /\ (b.status # "done" => RowsOf(b) = {})
  BY <1>1 DEF RowsOf
<1>3. /\ u.status = [t.status EXCEPT ![b.slot] = b.status]
      /\ u.transactions = (t.transactions \ {b.slot}) \cup RowsOf(b)
      /\ u.contention = t.contention \cup RowsOf(b)
      /\ u.conflicts = (t.conflicts \ {b.slot}) \cup RowsOf(b)
      /\ u.trades = (t.trades \ {b.slot}) \cup RowsOf(b)
      /\ u.candles = t.candles
  BY DEF Rewritten, Tables
<1>4. u \in Tables
  BY <1>1, <1>2 DEF Rewritten, Tables
<1>5. DoneSlots(u) = (DoneSlots(t) \ {b.slot}) \cup RowsOf(b)
  <2>1. t.status \in [Slots -> Outcome \cup {"none"}]
    BY DEF Tables
  <2>2. \A s \in Slots : u.status[s] = IF s = b.slot THEN b.status ELSE t.status[s]
    BY <1>1, <1>3, <2>1
  <2> HIDE DEF u
  <2> QED  BY <1>1, <1>2, <2>2 DEF DoneSlots
<1>6. RowsFollow(u)
  <2> HIDE DEF u
  <2> QED  BY <1>3, <1>5 DEF RowsFollow
<1> QED  BY <1>4, <1>6

\* The candles are no business of the statuses.
LEMMA CandlesApart ==
  ASSUME NEW t \in Tables, RowsFollow(t), NEW c \in SUBSET Slots
  PROVE  [t EXCEPT !.candles = c] \in Tables /\ RowsFollow([t EXCEPT !.candles = c])
BY DEF Tables, RowsFollow, DoneSlots

Proc == [pc : Phase, todo : SUBSET Slots, batch : Seq(BlockWrite), at : Nat \ {0},
         read : SUBSET Slots]

LEMMA NoBatch == <<>> \in Seq(BlockWrite)
OBVIOUS

LEMMA OffIsProc == Off \in Proc
<1> DEFINE none == <<>>
<1>1. none \in Seq(BlockWrite)  BY NoBatch
<1>2. Off = [pc |-> "off", todo |-> {}, batch |-> none, at |-> 1, read |-> {}]
  BY DEF Off
<1> HIDE DEF none
<1> QED  BY <1>1, <1>2 DEF Proc, Phase

LEMMA StoreInit == Init => StoreInv
<1> SUFFICES ASSUME Init PROVE StoreInv
  OBVIOUS
<1>1. WellTyped
  BY EmptyTables, StoreAssumption DEF Init, WellTyped, Off, Phase
<1>2. TransactionOwned
  BY DEF Init, TransactionOwned, OneWriter, Off
<1>3. RowsFollowStatus
  BY EmptyTables DEF Init, RowsFollowStatus
<1> QED  BY <1>1, <1>2, <1>3 DEF StoreInv

\* A step that changes the state of p alone.
LEMMA ProcUpdated ==
  ASSUME NEW p \in Processes, NEW r \in Proc, proc \in [Processes -> Proc],
         proc' = [proc EXCEPT ![p] = r]
  PROVE  /\ proc' \in [Processes -> Proc]
         /\ proc'[p] = r
         /\ \A q \in Processes \ {p} : proc'[q] = proc[q]
OBVIOUS

\* A process goes to a phase, and has read what the rebuild reads or nothing.
LEMMA PhaseAndRead ==
  ASSUME NEW r \in Proc, NEW phase \in Phase, NEW seen \in SUBSET Slots
  PROVE  /\ [r EXCEPT !.pc = phase] \in Proc
         /\ [r EXCEPT !.pc = phase, !.read = seen] \in Proc
BY DEF Proc

\* A rollback leaves no transaction, or that of another process.
LEMMA RollBackOwned ==
  ASSUME StoreInv, NEW p \in Processes, RollBack(p)
  PROVE  /\ draft' \in Tables /\ holder' \in Processes \cup {NoProcess}
         /\ holder' # NoProcess => RowsFollow(draft')
         /\ \A q \in Processes \ {p} : holder = q => holder' = q
BY EmptyTables, StoreAssumption DEF StoreInv, WellTyped, TransactionOwned, OneWriter, RollBack

LEMMA StoreStep == StoreInv /\ [Next]_vars => StoreInv'
<1> SUFFICES ASSUME StoreInv, [Next]_vars PROVE StoreInv'
  OBVIOUS
<1> USE DEF StoreInv
<1>0. proc \in [Processes -> Proc] /\ db \in Tables /\ draft \in Tables
      /\ runs \in Nat /\ log \in Seq(Seq(BlockWrite))
  BY StoreAssumption DEF WellTyped, Proc
<1>1. ASSUME NEW p \in Processes, Start(p) PROVE StoreInv'
  <2>1. proc' = [proc EXCEPT ![p] = [Off EXCEPT !.pc = "ingest", !.todo = Slots \ Completed]]
        /\ UNCHANGED <<db, draft, holder, log>> /\ runs' = runs + 1 /\ runs < MaxRuns
        /\ alone' \in BOOLEAN
    BY <1>1 DEF Start
  <2> DEFINE r == [Off EXCEPT !.pc = "ingest", !.todo = Slots \ Completed]
  <2>a. r \in Proc
    BY OffIsProc DEF Proc, Phase
  <2>b. proc' \in [Processes -> Proc]
    BY <1>0, <2>1, <2>a, ProcUpdated
  <2>2. WellTyped'
    BY <1>0, <2>1, <2>b, StoreAssumption DEF WellTyped, Proc
  <2>3. TransactionOwned'
    BY <1>0, <2>1 DEF TransactionOwned, OneWriter, Off
  <2> QED  BY <2>1, <2>2, <2>3 DEF RowsFollowStatus
<1>2. ASSUME NEW p \in Processes, BeginBatch(p) PROVE StoreInv'
  <2>1. /\ holder = NoProcess /\ holder' = p /\ draft' = db
        /\ UNCHANGED <<db, runs, log, alone>> /\ proc[p].pc = "ingest"
    BY <1>2 DEF BeginBatch
  <2>2. PICK k \in 1 .. BatchBlocks : \E batch \in [1 .. k -> BlockWrite] :
          proc' = [proc EXCEPT ![p].pc = "write", ![p].batch = batch,
                               ![p].todo = @ \ {batch[i].slot : i \in 1 .. k}]
    BY <1>2 DEF BeginBatch
  <2>3. PICK batch \in [1 .. k -> BlockWrite] :
          proc' = [proc EXCEPT ![p].pc = "write", ![p].batch = batch,
                               ![p].todo = @ \ {batch[i].slot : i \in 1 .. k}]
    BY <2>2
  <2>4. batch \in Seq(BlockWrite)
    BY <2>2, StoreAssumption, SeqDef
  <2>5. proc' \in [Processes -> Proc]
    <3> DEFINE rest == proc[p].todo \ {batch[i].slot : i \in 1 .. k}
               r == [proc[p] EXCEPT !.pc = "write", !.batch = batch, !.todo = rest]
    <3>1. rest \in SUBSET Slots  BY <1>0 DEF Proc
    <3>2. proc' = [proc EXCEPT ![p] = r]  BY <1>0, <2>3
    <3> HIDE DEF rest
    <3>3. r \in Proc  BY <1>0, <2>4, <3>1 DEF Proc, Phase
    <3> QED  BY <1>0, <3>2, <3>3, ProcUpdated
  <2>6. WellTyped'
    BY <1>0, <2>1, <2>5 DEF WellTyped, Proc
  <2>7. \A q \in Processes \ {p} : proc'[q] = proc[q]
    BY <1>0, <2>3
  <2>8. TransactionOwned'
    BY <2>1, <2>7, StoreAssumption DEF TransactionOwned, OneWriter, RowsFollowStatus
  <2> QED  BY <2>1, <2>6, <2>8 DEF RowsFollowStatus
<1>3. ASSUME NEW p \in Processes, WriteBlock(p) PROVE StoreInv'
  <2> DEFINE b == proc[p].batch[proc[p].at]
  <2>1. /\ proc[p].pc = "write" /\ proc[p].at <= Len(proc[p].batch)
        /\ draft' = Rewritten(draft, b)
        /\ proc' = [proc EXCEPT ![p].at = @ + 1]
        /\ UNCHANGED <<db, holder, runs, log, alone>>
    BY <1>3 DEF WriteBlock
  <2>2. holder = p /\ RowsFollow(draft)
    BY <2>1, StoreAssumption DEF TransactionOwned, OneWriter
  <2>3. b \in BlockWrite
    BY <1>0, <2>1 DEF Proc
  <2>4. draft' \in Tables /\ RowsFollow(draft')
    <3> HIDE DEF b
    <3> QED  BY <1>0, <2>1, <2>2, <2>3, RewrittenFollows
  <2>5. proc' \in [Processes -> Proc]
    <3> DEFINE next == proc[p].at + 1
               r == [proc[p] EXCEPT !.at = next]
    <3>1. proc' = [proc EXCEPT ![p] = r]  BY <1>0, <2>1
    <3>2. next \in Nat \ {0}  BY <1>0 DEF Proc
    <3>3. r \in Proc
      <4> HIDE DEF next
      <4> QED  BY <1>0, <3>2 DEF Proc
    <3> QED  BY <1>0, <3>1, <3>3, ProcUpdated
  <2>6. WellTyped'
    BY <1>0, <2>1, <2>4, <2>5 DEF WellTyped, Proc
  <2>7. \A q \in Processes : proc'[q].pc = proc[q].pc
    BY <1>0, <2>1 DEF Proc
  <2>8. TransactionOwned'
    BY <2>1, <2>4, <2>7 DEF TransactionOwned, OneWriter
  <2> QED  BY <2>1, <2>6, <2>8 DEF RowsFollowStatus
<1>4. ASSUME NEW p \in Processes, Commit(p) PROVE StoreInv'
  <2>1. /\ proc[p].pc = "write" /\ db' = draft /\ draft' = Empty /\ holder' = NoProcess
        /\ log' = Append(log, proc[p].batch) /\ UNCHANGED <<runs, alone>>
        /\ proc' = [proc EXCEPT ![p].pc = "ingest", ![p].batch = <<>>, ![p].at = 1]
    BY <1>4 DEF Commit
  <2>2. holder = p /\ RowsFollow(draft)
    BY <2>1, StoreAssumption DEF TransactionOwned, OneWriter
  <2>3. proc' \in [Processes -> Proc]
    <3> DEFINE r == [proc[p] EXCEPT !.pc = "ingest", !.batch = <<>>, !.at = 1]
    <3>1. proc' = [proc EXCEPT ![p] = r]  BY <1>0, <2>1
    <3> DEFINE none == <<>>
    <3>2. none \in Seq(BlockWrite)  BY NoBatch
    <3>3. ASSUME NEW b \in Seq(BlockWrite), NEW n \in Nat \ {0}, NEW q \in Proc
          PROVE  [q EXCEPT !.pc = "ingest", !.batch = b, !.at = n] \in Proc
      BY DEF Proc, Phase
    <3>4. r = [proc[p] EXCEPT !.pc = "ingest", !.batch = none, !.at = 1]
      OBVIOUS
    <3> HIDE DEF none, r
    <3>5. r \in Proc
      <4>1. 1 \in Nat \ {0} /\ proc[p] \in Proc  BY <1>0
      <4>2. [proc[p] EXCEPT !.pc = "ingest", !.batch = none, !.at = 1] \in Proc
        BY <4>1, <3>2, <3>3, Zenon
      <4> QED  BY <3>4, <4>2
    <3> QED  BY <1>0, <3>1, <3>5, ProcUpdated
  <2>4. log' \in Seq(Seq(BlockWrite))
    BY <1>0, <2>1 DEF Proc
  <2>5. WellTyped'
    BY <1>0, <2>1, <2>3, <2>4, EmptyTables DEF WellTyped, Proc
  <2>6. \A q \in Processes : proc'[q].pc \notin {"write", "commitCandles"}
    BY <1>0, <2>1, <2>2 DEF TransactionOwned, OneWriter, Proc
  <2>7. TransactionOwned'
    BY <2>1, <2>6 DEF TransactionOwned, OneWriter
  <2> QED  BY <2>1, <2>2, <2>5, <2>7 DEF RowsFollowStatus
<1>5. ASSUME NEW p \in Processes, ReadTrades(p) PROVE StoreInv'
  <2>1. /\ proc' = [proc EXCEPT ![p].pc = "build", ![p].read = db.trades]
        /\ UNCHANGED <<db, draft, holder, runs, log, alone>>
    BY <1>5 DEF ReadTrades
  <2>2. db.trades \in SUBSET Slots
    BY <1>0 DEF Tables
  <2>3. proc' \in [Processes -> Proc]
    <3> DEFINE r == [proc[p] EXCEPT !.pc = "build", !.read = db.trades]
    <3>1. r \in Proc  BY <1>0, <2>2, PhaseAndRead DEF Phase
    <3>2. proc' = [proc EXCEPT ![p] = r]  BY <1>0, <2>1
    <3> HIDE DEF r
    <3> QED  BY <1>0, <3>1, <3>2, ProcUpdated
  <2>4. WellTyped'
    BY <1>0, <2>1, <2>3 DEF WellTyped, Proc
  <2>5. TransactionOwned'
    BY <1>0, <2>1 DEF TransactionOwned, OneWriter, Proc
  <2> QED  BY <2>1, <2>4, <2>5 DEF RowsFollowStatus
<1>6. ASSUME NEW p \in Processes, BeginRebuild(p) PROVE StoreInv'
  <2>1. /\ holder = NoProcess /\ holder' = p /\ draft' = [db EXCEPT !.candles = proc[p].read]
        /\ proc' = [proc EXCEPT ![p].pc = "commitCandles"]
        /\ UNCHANGED <<db, runs, log, alone>>
    BY <1>6 DEF BeginRebuild
  <2>2. draft' \in Tables /\ RowsFollow(draft')
    BY <1>0, <2>1, CandlesApart DEF Proc, RowsFollowStatus
  <2>3. proc' \in [Processes -> Proc]
    <3> DEFINE r == [proc[p] EXCEPT !.pc = "commitCandles"]
    <3>1. r \in Proc  BY <1>0, PhaseAndRead DEF Phase
    <3>2. proc' = [proc EXCEPT ![p] = r]  BY <1>0, <2>1
    <3> HIDE DEF r
    <3> QED  BY <1>0, <3>1, <3>2, ProcUpdated
  <2>4. WellTyped'
    BY <1>0, <2>1, <2>2, <2>3 DEF WellTyped, Proc
  <2>5. \A q \in Processes \ {p} : proc'[q] = proc[q]
    BY <1>0, <2>1
  <2>6. TransactionOwned'
    BY <2>1, <2>2, <2>5, StoreAssumption DEF TransactionOwned, OneWriter
  <2> QED  BY <2>1, <2>4, <2>6 DEF RowsFollowStatus
<1>7. ASSUME NEW p \in Processes, CommitRebuild(p) PROVE StoreInv'
  <2>1. /\ proc[p].pc = "commitCandles" /\ db' = draft /\ draft' = Empty
        /\ holder' = NoProcess /\ UNCHANGED <<runs, log, alone>>
        /\ proc' = [proc EXCEPT ![p].pc = "serve", ![p].read = {}]
    BY <1>7 DEF CommitRebuild
  <2>2. holder = p /\ RowsFollow(draft)
    BY <2>1, StoreAssumption DEF TransactionOwned, OneWriter
  <2>3. proc' \in [Processes -> Proc]
    <3> DEFINE r == [proc[p] EXCEPT !.pc = "serve", !.read = {}]
    <3>1. r \in Proc  BY <1>0, PhaseAndRead DEF Phase
    <3>2. proc' = [proc EXCEPT ![p] = r]  BY <1>0, <2>1
    <3> HIDE DEF r
    <3> QED  BY <1>0, <3>1, <3>2, ProcUpdated
  <2>4. WellTyped'
    BY <1>0, <2>1, <2>3, EmptyTables DEF WellTyped, Proc
  <2>5. \A q \in Processes : proc'[q].pc \notin {"write", "commitCandles"}
    BY <1>0, <2>1, <2>2 DEF TransactionOwned, OneWriter, Proc
  <2>6. TransactionOwned'
    BY <2>1, <2>5 DEF TransactionOwned, OneWriter
  <2> QED  BY <2>1, <2>2, <2>4, <2>6 DEF RowsFollowStatus
<1>8. ASSUME NEW p \in Processes, Stop(p) \/ Fail(p) PROVE StoreInv'
  <2>1. RollBack(p) /\ UNCHANGED <<db, runs, log, alone>>
    BY <1>8 DEF Stop, Fail
  <2> DEFINE Ended(pc) == [Off EXCEPT !.pc = pc]
  <2>2. \E pc \in {"off", "stale", "stuck"} : proc' = [proc EXCEPT ![p] = Ended(pc)]
    <3>1. CASE Stop(p)
      <4>1. Off = Ended("off")  BY DEF Off
      <4>2. proc' = [proc EXCEPT ![p] = Off]  BY <3>1 DEF Stop
      <4> QED  BY <4>1, <4>2
    <3>2. CASE Fail(p)
      <4>1. CASE proc[p].pc \in {"build", "commitCandles"}
        <5>1. proc' = [proc EXCEPT ![p] = Ended("stale")]  BY <3>2, <4>1 DEF Fail
        <5> QED  BY <5>1
      <4>2. CASE proc[p].pc \notin {"build", "commitCandles"}
        <5>1. proc' = [proc EXCEPT ![p] = Ended("stuck")]  BY <3>2, <4>2 DEF Fail
        <5> QED  BY <5>1
      <4> QED  BY <4>1, <4>2
    <3> QED  BY <1>8, <3>1, <3>2
  <2>3. PICK pc \in {"off", "stale", "stuck"} : proc' = [proc EXCEPT ![p] = Ended(pc)]
    BY <2>2
  <2>a. Ended(pc) \in Proc
    BY OffIsProc DEF Proc, Phase
  <2>4. proc' \in [Processes -> Proc]
    <3> HIDE DEF Ended
    <3> QED  BY <1>0, <2>3, <2>a, ProcUpdated
  <2>5. WellTyped'
    BY <1>0, <2>1, <2>4, RollBackOwned DEF WellTyped, Proc
  <2>6. proc'[p].pc \notin {"write", "commitCandles"}
        /\ \A q \in Processes \ {p} : proc'[q] = proc[q]
    BY <1>0, <2>3 DEF Off
  <2>7. TransactionOwned'
    BY <2>1, <2>6, RollBackOwned DEF TransactionOwned, OneWriter
  <2> QED  BY <2>1, <2>5, <2>7 DEF RowsFollowStatus
<1>9. CASE UNCHANGED vars \/ NoMoreRuns
  <2>1. UNCHANGED vars
    BY <1>9 DEF NoMoreRuns
  <2> QED
    BY <2>1 DEF vars, WellTyped, TransactionOwned, OneWriter, RowsFollowStatus
<1> QED
  BY <1>1, <1>2, <1>3, <1>4, <1>5, <1>6, <1>7, <1>8, <1>9 DEF Next, Step

\* The tables are well formed, and one transaction writes at a time.
THEOREM StoreTypeCorrect == Spec => []TypeOK
<1>1. StoreInv => TypeOK
  BY DEF StoreInv, TypeOK, TransactionOwned
<1> QED  BY StoreInit, StoreStep, <1>1, PTL DEF Spec

\* However many processes write the same slots and wherever they are stopped, a
\* slot has transactions, conflicts and trades exactly when it is done.
THEOREM RowsFollowStatuses == Spec => []RowsFollowStatus
<1>1. StoreInv => RowsFollowStatus
  BY DEF StoreInv
<1> QED  BY StoreInit, StoreStep, <1>1, PTL DEF Spec
-----------------------------------------------------------------------------
(* What the open transaction holds                                          *)

DistinctSlots(b) == \A i, j \in DOMAIN b : b[i].slot = b[j].slot => i = j

\* d is what is left of the tables t after the first n - 1 blocks of b.
Drafted(d, t, b, n) ==
  /\ \A s \in Slots : (\A i \in 1 .. (n - 1) : b[i].slot # s) => d.status[s] = t.status[s]
  /\ \A i \in 1 .. (n - 1) : d.status[b[i].slot] = b[i].status
  /\ d.candles = t.candles

BatchInHand(p) ==
  IF proc[p].pc = "write"
  THEN /\ proc[p].at <= Len(proc[p].batch) + 1
       /\ DistinctSlots(proc[p].batch)
       /\ Drafted(draft, db, proc[p].batch, proc[p].at)
  ELSE proc[p].at = 1

CandlesInHand(p) ==
  proc[p].pc = "commitCandles" => draft = [db EXCEPT !.candles = proc[p].read]

TransactionInv == \A p \in Processes : BatchInHand(p) /\ CandlesInHand(p)

\* What the invariant says of the process that takes a step.
LEMMA ProcTyped ==
  ASSUME StoreInv, NEW p \in Processes
  PROVE  /\ proc \in [Processes -> Proc] /\ proc[p] \in Proc
         /\ proc[p].pc \in Phase /\ proc[p].todo \subseteq Slots
         /\ proc[p].batch \in Seq(BlockWrite) /\ proc[p].at \in Nat \ {0}
         /\ proc[p].read \subseteq Slots
BY DEF StoreInv, WellTyped, Proc

\* A step of one process leaves the others where they are, and a transaction of
\* theirs alone.
LEMMA OthersApart ==
  ASSUME StoreInv, NEW p \in Processes, Step(p), NEW q \in Processes, q # p
  PROVE  /\ proc'[q] = proc[q]
         /\ holder = q => UNCHANGED <<db, draft>>
<1>1. proc \in [Processes -> Proc]
  BY ProcTyped
<1>2. proc'[q] = proc[q]
  BY <1>1 DEF Step, Start, BeginBatch, WriteBlock, Commit, ReadTrades, BeginRebuild,
              CommitRebuild, Stop, Fail
<1>3. ASSUME holder = q
      PROVE  UNCHANGED <<db, draft>>
  <2>1. holder # NoProcess /\ holder # p
    BY <1>3, StoreAssumption
  <2>2. proc[p].pc \notin {"write", "commitCandles"}
    BY <2>1 DEF StoreInv, TransactionOwned, OneWriter
  <2> QED
    BY <2>1, <2>2 DEF Step, Start, BeginBatch, WriteBlock, Commit, ReadTrades, BeginRebuild,
                      CommitRebuild, Stop, Fail, RollBack
<1> QED  BY <1>2, <1>3

\* A process that is started, stopped or fails has nothing in hand.
LEMMA Restarted ==
  ASSUME StoreInv, NEW p \in Processes, Start(p) \/ Stop(p) \/ Fail(p)
  PROVE  /\ proc'[p].pc \in {"ingest", "off", "stale", "stuck"} /\ proc'[p].at = 1
         /\ IF proc'[p].pc = "ingest" THEN Start(p) /\ proc'[p].todo = Slots \ Completed
                                      ELSE proc'[p].todo = {}
<1>1. proc \in [Processes -> Proc]
  BY ProcTyped
<1>2. CASE Start(p)
  <2>1. proc'[p] = [Off EXCEPT !.pc = "ingest", !.todo = Slots \ Completed]
    BY <1>1, <1>2 DEF Start
  <2> QED  BY <1>2, <2>1 DEF Off
<1>3. CASE Stop(p)
  <2>1. proc'[p] = Off
    BY <1>1, <1>3 DEF Stop
  <2> QED  BY <2>1 DEF Off
<1>4. CASE Fail(p)
  <2>1. proc'[p] = [Off EXCEPT !.pc = "stale"] \/ proc'[p] = [Off EXCEPT !.pc = "stuck"]
    BY <1>1, <1>4 DEF Fail
  <2> QED  BY <2>1 DEF Off
<1> QED  BY <1>2, <1>3, <1>4

\* One more block of the batch.
LEMMA DraftedNext ==
  ASSUME NEW d \in Tables, NEW t \in Tables, NEW b \in Seq(BlockWrite), DistinctSlots(b),
         NEW n \in Nat \ {0}, n <= Len(b), Drafted(d, t, b, n)
  PROVE  Drafted(Rewritten(d, b[n]), t, b, n + 1)
<1> DEFINE u == Rewritten(d, b[n])
<1>1. b[n] \in BlockWrite /\ n \in DOMAIN b /\ b[n].slot \in Slots
  <2>1. b[n] \in BlockWrite /\ n \in DOMAIN b
    OBVIOUS
  <2> QED  BY <2>1 DEF BlockWrite
<1>2. /\ u.candles = d.candles
      /\ \A s \in Slots : u.status[s] = IF s = b[n].slot THEN b[n].status ELSE d.status[s]
  BY <1>1 DEF Rewritten, Tables
<1>3. \A i \in 1 .. (n - 1) : i \in DOMAIN b /\ i # n /\ b[i] \in BlockWrite
  OBVIOUS
<1>4. \A i \in 1 .. (n - 1) : b[i].slot # b[n].slot /\ b[i].slot \in Slots
  BY <1>1, <1>3 DEF DistinctSlots, BlockWrite
<1>5. 1 .. ((n + 1) - 1) = (1 .. (n - 1)) \cup {n}
  OBVIOUS
<1> HIDE DEF u
<1>6. \A s \in Slots : (\A i \in 1 .. ((n + 1) - 1) : b[i].slot # s) => u.status[s] = t.status[s]
  BY <1>2, <1>5 DEF Drafted
<1>7. \A i \in 1 .. ((n + 1) - 1) : u.status[b[i].slot] = b[i].status
  BY <1>1, <1>2, <1>4, <1>5 DEF Drafted
<1>8. u.candles = t.candles
  BY <1>2 DEF Drafted
<1> QED  BY <1>6, <1>7, <1>8 DEF Drafted, u

LEMMA TransactionInit == Init => TransactionInv
BY DEF Init, TransactionInv, BatchInHand, CandlesInHand, Off

LEMMA TransactionStep ==
  ASSUME StoreInv, TransactionInv, [Next]_vars
  PROVE  TransactionInv'
<1>1. ASSUME NEW p \in Processes, Step(p)
      PROVE  TransactionInv'
  <2>1. proc \in [Processes -> Proc] /\ proc[p] \in Proc /\ db \in Tables /\ draft \in Tables
        /\ proc[p].batch \in Seq(BlockWrite) /\ proc[p].at \in Nat \ {0}
    BY ProcTyped DEF StoreInv, WellTyped
  <2>2. ASSUME NEW q \in Processes, q # p
        PROVE  BatchInHand(q)' /\ CandlesInHand(q)'
    <3>1. proc'[q] = proc[q] /\ (holder = q => UNCHANGED <<db, draft>>)
      BY <1>1, <2>2, OthersApart
    <3>2. proc[q].pc \in {"write", "commitCandles"} => holder = q
      BY DEF StoreInv, TransactionOwned, OneWriter
    <3>3. BatchInHand(q) /\ CandlesInHand(q)
      BY DEF TransactionInv
    <3> QED  BY <3>1, <3>2, <3>3 DEF BatchInHand, CandlesInHand
  <2>3. BatchInHand(p)' /\ CandlesInHand(p)'
    <3>1. CASE BeginBatch(p)
      <4>1. PICK k \in 1 .. BatchBlocks : \E batch \in [1 .. k -> BlockWrite] :
              /\ \A i, j \in 1 .. k : i # j => batch[i].slot # batch[j].slot
              /\ proc' = [proc EXCEPT ![p].pc = "write", ![p].batch = batch,
                                      ![p].todo = @ \ {batch[i].slot : i \in 1 .. k}]
        BY <3>1 DEF BeginBatch
      <4>2. PICK batch \in [1 .. k -> BlockWrite] :
              /\ \A i, j \in 1 .. k : i # j => batch[i].slot # batch[j].slot
              /\ proc' = [proc EXCEPT ![p].pc = "write", ![p].batch = batch,
                                      ![p].todo = @ \ {batch[i].slot : i \in 1 .. k}]
        BY <4>1
      <4>3. proc[p].at = 1
        BY <3>1 DEF BeginBatch, TransactionInv, BatchInHand
      <4>4. batch \in Seq(BlockWrite) /\ DOMAIN batch = 1 .. k
        BY <4>1, StoreAssumption, SeqDef
      <4>5. /\ proc'[p].pc = "write" /\ proc'[p].batch = batch /\ proc'[p].at = 1
            /\ draft' = db /\ db' = db
        BY <2>1, <3>1, <4>2, <4>3 DEF BeginBatch, Proc
      <4>6. DistinctSlots(batch)
        BY <4>2, <4>4 DEF DistinctSlots
      <4>7. Drafted(db, db, batch, 1)
        BY DEF Drafted
      <4>8. 1 <= Len(batch) + 1
        BY <4>4
      <4> QED
        BY <4>5, <4>6, <4>7, <4>8 DEF BatchInHand, CandlesInHand
    <3>2. CASE WriteBlock(p)
      <4> DEFINE b == proc[p].batch
                 n == proc[p].at
      <4>1. /\ proc[p].pc = "write" /\ n <= Len(b) /\ draft' = Rewritten(draft, b[n])
            /\ proc' = [proc EXCEPT ![p].at = @ + 1] /\ db' = db
        BY <3>2 DEF WriteBlock
      <4>2. /\ proc'[p].pc = "write" /\ proc'[p].batch = b /\ proc'[p].at = n + 1
        BY <2>1, <4>1 DEF Proc
      <4>3. DistinctSlots(b) /\ Drafted(draft, db, b, n)
        BY <4>1 DEF TransactionInv, BatchInHand
      <4>4. b \in Seq(BlockWrite) /\ n \in Nat \ {0}
        BY <2>1
      <4>5. Drafted(draft', db, b, n + 1) /\ n + 1 <= Len(b) + 1
        <5> HIDE DEF b, n
        <5> QED  BY <2>1, <4>1, <4>3, <4>4, DraftedNext
      <4> QED
        BY <4>1, <4>2, <4>3, <4>5 DEF BatchInHand, CandlesInHand
    <3>3. CASE Commit(p)
      <4>1. proc' = [proc EXCEPT ![p].pc = "ingest", ![p].batch = <<>>, ![p].at = 1]
        BY <3>3 DEF Commit
      <4>2. proc'[p].pc = "ingest" /\ proc'[p].at = 1
        BY <2>1, <4>1 DEF Proc
      <4> QED  BY <4>2 DEF BatchInHand, CandlesInHand
    <3>4. CASE ReadTrades(p) \/ CommitRebuild(p)
      <4>1. proc'[p].pc \in {"build", "serve"} /\ proc'[p].at = proc[p].at
            /\ proc[p].pc # "write"
        BY <2>1, <3>4 DEF ReadTrades, CommitRebuild, Proc
      <4> QED  BY <4>1 DEF TransactionInv, BatchInHand, CandlesInHand
    <3>5. CASE BeginRebuild(p)
      <4>1. /\ proc'[p].pc = "commitCandles" /\ proc'[p].at = proc[p].at
            /\ proc'[p].read = proc[p].read /\ proc[p].pc = "build"
            /\ draft' = [db EXCEPT !.candles = proc[p].read] /\ db' = db
        BY <2>1, <3>5 DEF BeginRebuild, Proc
      <4> QED  BY <4>1 DEF TransactionInv, BatchInHand, CandlesInHand
    <3>6. CASE Start(p) \/ Stop(p) \/ Fail(p)
      <4>1. proc'[p].pc \in {"ingest", "off", "stale", "stuck"} /\ proc'[p].at = 1
        BY <1>1, <3>6, Restarted
      <4> QED  BY <4>1 DEF BatchInHand, CandlesInHand
    <3> QED
      BY <1>1, <3>1, <3>2, <3>3, <3>4, <3>5, <3>6 DEF Step
  <2> QED  BY <2>2, <2>3 DEF TransactionInv
<1>2. CASE UNCHANGED vars \/ NoMoreRuns
  BY <1>2 DEF NoMoreRuns, vars, TransactionInv, BatchInHand, CandlesInHand
<1> QED  BY <1>1, <1>2 DEF Next
-----------------------------------------------------------------------------
(* The log of the batches committed                                         *)

\* A commit puts the batch in the place of what was there, and touches no slot
\* outside it.
LEMMA Committed ==
  ASSUME StoreInv, TransactionInv, NEW p \in Processes, Commit(p)
  PROVE  /\ proc[p].batch \in Seq(BlockWrite) /\ DistinctSlots(proc[p].batch)
         /\ log' = Append(log, proc[p].batch)
         /\ \A s \in Slots :
              (\A i \in DOMAIN proc[p].batch : proc[p].batch[i].slot # s)
                => db'.status[s] = db.status[s]
         /\ \A i \in DOMAIN proc[p].batch :
              db'.status[proc[p].batch[i].slot] = proc[p].batch[i].status
         /\ db'.candles = db.candles
<1> DEFINE b == proc[p].batch
           n == proc[p].at
<1>1. /\ proc[p].pc = "write" /\ n > Len(b) /\ db' = draft
      /\ log' = Append(log, b)
  BY DEF Commit
<1>2. b \in Seq(BlockWrite) /\ n \in Nat \ {0}
  BY ProcTyped
<1>3. n <= Len(b) + 1 /\ DistinctSlots(b) /\ Drafted(draft, db, b, n)
  BY <1>1 DEF TransactionInv, BatchInHand
<1> HIDE DEF b, n
<1>4. 1 .. (n - 1) = DOMAIN b
  BY <1>1, <1>2, <1>3
<1>5. /\ \A s \in Slots : (\A i \in DOMAIN b : b[i].slot # s) => db'.status[s] = db.status[s]
      /\ \A i \in DOMAIN b : db'.status[b[i].slot] = b[i].status
      /\ db'.candles = db.candles
  BY <1>1, <1>3, <1>4 DEF Drafted
<1> QED  BY <1>1, <1>2, <1>3, <1>5 DEF b

\* A step that is not a commit leaves the statuses and the log.
LEMMA OnlyCommitsRecord ==
  ASSUME StoreInv, TransactionInv, NEW p \in Processes, Step(p), ~Commit(p)
  PROVE  /\ log' = log /\ db'.status = db.status
         /\ db'.contention = db.contention /\ db'.trades = db.trades
         /\ \/ db' = db
            \/ CommitRebuild(p) /\ db'.candles = proc[p].read
<1>1. CASE CommitRebuild(p)
  <2>1. db' = [db EXCEPT !.candles = proc[p].read]
    BY <1>1 DEF CommitRebuild, TransactionInv, CandlesInHand
  <2>2. db \in Tables
    BY DEF StoreInv, WellTyped
  <2>3. UNCHANGED log
    BY <1>1 DEF CommitRebuild
  <2> QED  BY <1>1, <2>1, <2>2, <2>3 DEF Tables
<1>2. CASE ~CommitRebuild(p)
  BY <1>2 DEF Step, Start, BeginBatch, WriteBlock, ReadTrades, BeginRebuild, Stop, Fail
<1> QED  BY <1>1, <1>2

\* What an appended batch means for the entries before it.
LEMMA LogAppended ==
  ASSUME NEW b \in Seq(BlockWrite), log \in Seq(Seq(BlockWrite)), log' = Append(log, b)
  PROVE  /\ Len(log) \in Nat /\ DOMAIN log = 1 .. Len(log)
         /\ DOMAIN log' = 1 .. (Len(log) + 1) /\ Len(log') = Len(log) + 1
         /\ \A k \in DOMAIN log : log'[k] = log[k]
         /\ log'[Len(log) + 1] = b
BY AppendProperties

LEMMA BatchesInit == Init => OnlyWholeBatches
BY DEF Init, OnlyWholeBatches, Empty

LEMMA BatchesStep ==
  ASSUME StoreInv, TransactionInv, OnlyWholeBatches, [Next]_vars
  PROVE  OnlyWholeBatches'
<1>1. ASSUME NEW p \in Processes, Commit(p)
      PROVE  OnlyWholeBatches'
  <2> DEFINE b == proc[p].batch
  <2>0. PICK n : n = Len(log) + 1
    OBVIOUS
  <2>1. /\ b \in Seq(BlockWrite) /\ log' = Append(log, b)
        /\ \A s \in Slots : (\A i \in DOMAIN b : b[i].slot # s) => db'.status[s] = db.status[s]
        /\ \A i \in DOMAIN b : db'.status[b[i].slot] = b[i].status
    BY <1>1, Committed
  <2>2. log \in Seq(Seq(BlockWrite))
    BY DEF StoreInv, WellTyped
  <2> HIDE DEF b
  <2>3. /\ Len(log) \in Nat /\ DOMAIN log = 1 .. Len(log) /\ DOMAIN log' = 1 .. n
        /\ Len(log') = n /\ \A k \in DOMAIN log : log'[k] = log[k]
        /\ log'[n] = b
    BY <2>0, <2>1, <2>2, LogAppended
  <2>4. SUFFICES ASSUME NEW s \in Slots
                 PROVE  \/ /\ db'.status[s] = "none"
                           /\ \A k \in DOMAIN log' : \A i \in DOMAIN log'[k] :
                                log'[k][i].slot # s
                        \/ \E k \in DOMAIN log' : \E i \in DOMAIN log'[k] :
                             /\ WritesLast(k, s)'
                             /\ log'[k][i] = [slot |-> s, status |-> db'.status[s]]
    BY DEF OnlyWholeBatches
  <2>5. CASE \E i \in DOMAIN b : b[i].slot = s
    <3>1. PICK i \in DOMAIN b : b[i].slot = s
      BY <2>5
    <3>2. b[i] \in BlockWrite
      BY <2>1
    <3>3. b[i] = [slot |-> s, status |-> db'.status[s]]
      BY <2>1, <3>1, <3>2 DEF BlockWrite
    <3>4. n \in DOMAIN log' /\ i \in DOMAIN log'[n] /\ log'[n][i].slot = s
      BY <2>0, <2>3, <3>1
    <3>5. WritesLast(n, s)'
      <4>1. (n + 1) .. Len(log') = {}
        BY <2>0, <2>3
      <4>2. \E j \in DOMAIN log'[n] : log'[n][j].slot = s
        BY <3>4
      <4> QED  BY <4>1, <4>2 DEF WritesLast
    <3>6. log'[n][i] = [slot |-> s, status |-> db'.status[s]]
      BY <2>3, <3>3
    <3> QED  BY <3>4, <3>5, <3>6
  <2>6. CASE \A i \in DOMAIN b : b[i].slot # s
    <3>1. db'.status[s] = db.status[s]
      BY <2>1, <2>6
    <3>2. CASE db.status[s] = "none" /\ \A k \in DOMAIN log : \A i \in DOMAIN log[k] : log[k][i].slot # s
      <4>1. \A k \in DOMAIN log' : \A i \in DOMAIN log'[k] : log'[k][i].slot # s
        BY <2>0, <2>3, <2>6, <3>2
      <4> QED  BY <3>1, <3>2, <4>1
    <3>3. CASE \E k \in DOMAIN log : \E i \in DOMAIN log[k] :
                 WritesLast(k, s) /\ log[k][i] = [slot |-> s, status |-> db.status[s]]
      <4>0. PICK k \in DOMAIN log : \E i \in DOMAIN log[k] :
                   WritesLast(k, s) /\ log[k][i] = [slot |-> s, status |-> db.status[s]]
        BY <3>3
      <4>1. PICK i \in DOMAIN log[k] :
                   WritesLast(k, s) /\ log[k][i] = [slot |-> s, status |-> db.status[s]]
        BY <4>0
      <4>2. k \in DOMAIN log' /\ log'[k] = log[k]
        BY <2>0, <2>3, <4>1
      <4>3. ASSUME NEW l \in (k + 1) .. n, NEW j \in DOMAIN log'[l]
            PROVE  log'[l][j].slot # s
        <5>1. CASE l = n
          BY <2>3, <2>6, <4>3, <5>1
        <5>2. CASE l \in (k + 1) .. Len(log)
          <6>1. l \in DOMAIN log
            BY <2>3, <4>1, <5>2
          <6> QED  BY <2>3, <4>1, <4>3, <5>2, <6>1 DEF WritesLast
        <5> QED  BY <2>0, <2>3, <4>1, <5>1, <5>2
      <4>4. WritesLast(k, s)'
        BY <2>3, <4>1, <4>2, <4>3 DEF WritesLast
      <4> QED  BY <3>1, <4>1, <4>2, <4>4
    <3> QED  BY <3>2, <3>3 DEF OnlyWholeBatches
  <2> QED  BY <2>5, <2>6
<1>2. ASSUME NEW p \in Processes, Step(p), ~Commit(p)
      PROVE  OnlyWholeBatches'
  <2>1. log' = log /\ db'.status = db.status
    BY <1>2, OnlyCommitsRecord
  <2>2. \A k, s : WritesLast(k, s)' <=> WritesLast(k, s)
    BY <2>1 DEF WritesLast
  <2> QED  BY <2>1, <2>2 DEF OnlyWholeBatches
<1>3. CASE UNCHANGED vars \/ NoMoreRuns
  BY <1>3 DEF NoMoreRuns, vars, OnlyWholeBatches, WritesLast
<1> QED  BY <1>1, <1>2, <1>3 DEF Next

\* A crash, a failed statement or a second writer loses no committed outcome and
\* exposes no part of a batch: what is committed is what whole batches left.
THEOREM WholeBatchesOnly == Spec => []OnlyWholeBatches
<1> DEFINE Inv == StoreInv /\ TransactionInv /\ OnlyWholeBatches
<1>1. Init => Inv
  BY StoreInit, TransactionInit, BatchesInit
<1>2. Inv /\ [Next]_vars => Inv'
  BY StoreStep, TransactionStep, BatchesStep
<1>3. Inv => OnlyWholeBatches
  OBVIOUS
<1> QED  BY <1>1, <1>2, <1>3, PTL DEF Spec
-----------------------------------------------------------------------------
(* One process at a time                                                    *)

OnlyOneUp ==
  \A p, q \in Processes : proc[p].pc # "off" /\ proc[q].pc # "off" => p = q

\* What a lone process has in hand agrees with the file: nobody else writes it.
Fresh(p) ==
  proc[p].pc # "off" =>
    /\ proc[p].todo \cap Completed = {}
    /\ proc[p].pc = "write" =>
         /\ \A i \in DOMAIN proc[p].batch :
              proc[p].batch[i].slot \notin Completed \cup proc[p].todo
         /\ draft.contention = DoneSlots(draft)
    /\ proc[p].pc \in {"build", "commitCandles"} => proc[p].read = db.trades
    /\ proc[p].pc = "serve" => db.candles = db.trades

\* What the log calls settled, the table still does.
LogStands ==
  \A k \in DOMAIN log : \A i \in DOMAIN log[k] :
    log[k][i].status # "failed" => db.status[log[k][i].slot] = log[k][i].status

LoneInv ==
  alone => /\ OnlyOneUp
           /\ \A p \in Processes : Fresh(p)
           /\ LogStands
           /\ db.contention = DoneSlots(db)
           /\ SettledOnce

LEMMA LoneInit == Init => LoneInv
BY DEF Init, LoneInv, OnlyOneUp, Fresh, Off, LogStands, SettledOnce, Empty, DoneSlots

\* A run that is alone after a step was alone before it, and the process that
\* took the step is the only one up.
LEMMA StaysAlone ==
  ASSUME StoreInv, LoneInv, NEW p \in Processes, Step(p), alone'
  PROVE  /\ alone
         /\ \A q \in Processes \ {p} : proc[q].pc = "off" /\ proc'[q] = proc[q]
<1>1. alone /\ (Start(p) => \A q \in Processes : proc[q].pc = "off")
  BY DEF Step, Start, BeginBatch, WriteBlock, Commit, ReadTrades, BeginRebuild,
         CommitRebuild, Stop, Fail
<1>2. ~Start(p) => proc[p].pc # "off"
  BY DEF Step, BeginBatch, WriteBlock, Commit, ReadTrades, BeginRebuild, CommitRebuild,
         Stop, Fail
<1>3. OnlyOneUp
  BY <1>1 DEF LoneInv
<1>4. \A q \in Processes \ {p} : proc[q].pc = "off"
  BY <1>1, <1>2, <1>3 DEF OnlyOneUp
<1> QED  BY <1>1, <1>4, OthersApart

\* A lone commit writes no completed slot.
LEMMA LoneCommit ==
  ASSUME StoreInv, TransactionInv, LoneInv, alone, NEW p \in Processes, Commit(p)
  PROVE  /\ \A i \in DOMAIN proc[p].batch :
              proc[p].batch[i].slot \notin Completed \cup proc[p].todo
         /\ \A s \in Slots : s \in Completed => db'.status[s] = db.status[s]
         /\ \A s \in Slots :
              db'.status[s] # db.status[s] => s \notin Completed /\ db'.status[s] \in Outcome
         /\ Completed' \cap proc[p].todo \subseteq Completed
<1> DEFINE b == proc[p].batch
<1>1. \A i \in DOMAIN b : b[i].slot \notin Completed \cup proc[p].todo
  BY DEF LoneInv, Fresh, Commit
<1>2. /\ b \in Seq(BlockWrite)
      /\ \A s \in Slots : (\A i \in DOMAIN b : b[i].slot # s) => db'.status[s] = db.status[s]
      /\ \A i \in DOMAIN b : db'.status[b[i].slot] = b[i].status
  BY Committed
<1> HIDE DEF b
<1>3. ASSUME NEW i \in DOMAIN b
      PROVE  b[i].status \in Outcome
  <2>1. b[i] \in BlockWrite
    BY <1>2
  <2> QED  BY <2>1 DEF BlockWrite
<1>4. \A s \in Slots : s \in Completed \cup proc[p].todo => db'.status[s] = db.status[s]
  BY <1>1, <1>2
<1>5. \A s \in Slots :
        db'.status[s] # db.status[s] => s \notin Completed /\ db'.status[s] \in Outcome
  BY <1>1, <1>2, <1>3
<1>6. Completed' \cap proc[p].todo \subseteq Completed
  BY <1>4 DEF Completed
<1> QED  BY <1>1, <1>4, <1>5, <1>6 DEF b

\* A lone batch writes only slots that have no contention rows yet, which is why
\* leaving the old ones in place does no harm.
LEMMA LoneWrite ==
  ASSUME NEW d \in Tables, d.contention = DoneSlots(d), NEW b \in BlockWrite,
         d.status[b.slot] # "done"
  PROVE  Rewritten(d, b).contention = DoneSlots(Rewritten(d, b))
<1> DEFINE u == Rewritten(d, b)
<1>1. b.slot \in Slots /\ b.status \in Outcome
  BY DEF BlockWrite
<1>2. /\ u.contention = d.contention \cup RowsOf(b)
      /\ \A s \in Slots : u.status[s] = IF s = b.slot THEN b.status ELSE d.status[s]
  BY <1>1 DEF Rewritten, Tables
<1> HIDE DEF u
<1>3. DoneSlots(u) = DoneSlots(d) \cup RowsOf(b)
  BY <1>1, <1>2 DEF DoneSlots, RowsOf
<1> QED  BY <1>2, <1>3 DEF u

LEMMA LoneCommitKeeps ==
  ASSUME StoreInv, TransactionInv, LoneInv, alone, NEW p \in Processes, Commit(p)
  PROVE  /\ Fresh(p)' /\ LogStands' /\ SettledOnce'
         /\ db'.contention = DoneSlots(db')
<1> DEFINE b == proc[p].batch
<1>0. PICK n : n = Len(log) + 1
  OBVIOUS
<1>1. /\ \A i \in DOMAIN b : b[i].slot \notin Completed \cup proc[p].todo
      /\ \A s \in Slots : s \in Completed => db'.status[s] = db.status[s]
      /\ Completed' \cap proc[p].todo \subseteq Completed
  BY LoneCommit
<1>2. /\ b \in Seq(BlockWrite) /\ log' = Append(log, b)
      /\ \A i \in DOMAIN b : db'.status[b[i].slot] = b[i].status
  BY Committed
<1>3. log \in Seq(Seq(BlockWrite)) /\ proc \in [Processes -> Proc]
  BY DEF StoreInv, WellTyped, Proc
<1>4. /\ proc[p].pc = "write" /\ db' = draft
      /\ proc' = [proc EXCEPT ![p].pc = "ingest", ![p].batch = <<>>, ![p].at = 1]
  BY DEF Commit
<1>5. Fresh(p) /\ LogStands /\ SettledOnce
  BY DEF LoneInv
<1>6. Fresh(p)'
  <2>1. proc'[p].pc = "ingest" /\ proc'[p].todo = proc[p].todo
    BY <1>3, <1>4 DEF Proc
  <2>2. proc[p].todo \cap Completed = {}
    BY <1>4, <1>5 DEF Fresh
  <2> QED  BY <1>1, <2>1, <2>2 DEF Fresh
<1>7. db'.contention = DoneSlots(db')
  BY <1>4, <1>5 DEF Fresh
<1> HIDE DEF b
<1>8. /\ Len(log) \in Nat /\ DOMAIN log = 1 .. Len(log) /\ DOMAIN log' = 1 .. n
      /\ Len(log') = n /\ \A k \in DOMAIN log : log'[k] = log[k]
      /\ log'[n] = b
  BY <1>0, <1>2, <1>3, LogAppended
\* What the log already calls settled is completed.
<1>9. ASSUME NEW k \in DOMAIN log, NEW i \in DOMAIN log[k], log[k][i].status # "failed"
      PROVE  log[k][i].slot \in Completed
  <2>1. log[k] \in Seq(BlockWrite)
    BY <1>3
  <2>2. log[k][i] \in BlockWrite
    BY <2>1
  <2>3. log[k][i].slot \in Slots /\ log[k][i].status \in {"done", "skipped"}
    BY <1>9, <2>2 DEF BlockWrite, Outcome
  <2>4. db.status[log[k][i].slot] = log[k][i].status
    BY <1>5, <1>9 DEF LogStands
  <2> QED  BY <2>3, <2>4 DEF Completed
<1>10. LogStands'
  <2>1. SUFFICES ASSUME NEW k \in 1 .. n, NEW i \in DOMAIN log'[k],
                        log'[k][i].status # "failed"
                 PROVE  db'.status[log'[k][i].slot] = log'[k][i].status
    BY <1>8 DEF LogStands
  <2>2. CASE k = n
    BY <1>2, <1>8, <2>2
  <2>3. CASE k # n
    <3>1. k \in DOMAIN log /\ log'[k] = log[k]
      BY <1>0, <1>8, <2>3
    <3>2. log[k][i].slot \in Completed
      BY <1>9, <2>1, <3>1
    <3>3. db'.status[log[k][i].slot] = db.status[log[k][i].slot]
      BY <1>1, <3>2 DEF Completed
    <3> QED  BY <1>5, <2>1, <3>1, <3>3 DEF LogStands
  <2> QED  BY <2>2, <2>3
<1>11. SettledOnce'
  <2>1. SUFFICES ASSUME NEW k \in 1 .. n, NEW i \in DOMAIN log'[k],
                        log'[k][i].status # "failed",
                        NEW l \in (k + 1) .. n, NEW j \in DOMAIN log'[l]
                 PROVE  log'[l][j].slot # log'[k][i].slot
    BY <1>8 DEF SettledOnce
  <2>2. k \in DOMAIN log /\ log'[k] = log[k]
    BY <1>0, <1>8
  <2>3. CASE l = n
    BY <1>1, <1>8, <1>9, <2>1, <2>2, <2>3 DEF b
  <2>4. CASE l # n
    <3>1. l \in (k + 1) .. Len(log) /\ log'[l] = log[l]
      BY <1>0, <1>8, <2>4
    <3> QED  BY <1>5, <2>1, <2>2, <3>1 DEF SettledOnce
  <2> QED  BY <2>3, <2>4
<1> QED  BY <1>6, <1>7, <1>10, <1>11

LEMMA LoneStepFresh ==
  ASSUME StoreInv, StoreInv', TransactionInv, LoneInv, alone,
         NEW p \in Processes, Step(p), ~Commit(p)
  PROVE  Fresh(p)'
<1>1. /\ proc \in [Processes -> Proc] /\ proc[p] \in Proc
      /\ db \in Tables /\ draft \in Tables
  BY ProcTyped DEF StoreInv, WellTyped
<1>2. /\ db'.status = db.status /\ db'.trades = db.trades
      /\ db'.contention = db.contention /\ Completed' = Completed
  BY OnlyCommitsRecord DEF Completed
<1>3. Fresh(p)
  BY DEF LoneInv
<1>4. CASE Start(p) \/ Stop(p) \/ Fail(p)
  <2>1. /\ proc'[p].pc \in {"ingest", "off", "stale", "stuck"}
        /\ proc'[p].todo = {} \/ proc'[p].todo = Slots \ Completed
    BY <1>4, Restarted
  <2> QED  BY <1>2, <2>1 DEF Fresh
<1>5. CASE BeginBatch(p)
  <2>1. PICK k \in 1 .. BatchBlocks : \E batch \in [1 .. k -> BlockWrite] :
          /\ \A i \in 1 .. k : batch[i].slot \in proc[p].todo
          /\ proc' = [proc EXCEPT ![p].pc = "write", ![p].batch = batch,
                                  ![p].todo = @ \ {batch[i].slot : i \in 1 .. k}]
    BY <1>5 DEF BeginBatch
  <2>2. PICK batch \in [1 .. k -> BlockWrite] :
          /\ \A i \in 1 .. k : batch[i].slot \in proc[p].todo
          /\ proc' = [proc EXCEPT ![p].pc = "write", ![p].batch = batch,
                                  ![p].todo = @ \ {batch[i].slot : i \in 1 .. k}]
    BY <2>1
  <2>3. /\ proc'[p].pc = "write" /\ proc'[p].batch = batch /\ DOMAIN batch = 1 .. k
        /\ proc'[p].todo = proc[p].todo \ {batch[i].slot : i \in 1 .. k}
    BY <1>1, <2>2 DEF Proc
  <2>4. proc[p].todo \cap Completed = {}
    BY <1>3, <1>5 DEF Fresh, BeginBatch
  <2>5. draft'.contention = DoneSlots(draft')
    BY <1>5 DEF BeginBatch, LoneInv
  <2>6. \A i \in 1 .. k : batch[i].slot \notin Completed \cup proc'[p].todo
    BY <2>2, <2>3, <2>4
  <2> QED  BY <1>2, <2>3, <2>4, <2>5, <2>6 DEF Fresh
<1>6. CASE WriteBlock(p)
  <2> DEFINE b == proc[p].batch
             n == proc[p].at
  <2>1. /\ proc[p].pc = "write" /\ n <= Len(b) /\ draft' = Rewritten(draft, b[n])
        /\ proc' = [proc EXCEPT ![p].at = @ + 1]
    BY <1>6 DEF WriteBlock
  <2>2. proc'[p].pc = "write" /\ proc'[p].batch = b /\ proc'[p].todo = proc[p].todo
    BY <1>1, <2>1 DEF Proc
  <2>3. /\ b \in Seq(BlockWrite) /\ n \in Nat \ {0}
        /\ DistinctSlots(b) /\ Drafted(draft, db, b, n)
    BY <2>1, ProcTyped DEF TransactionInv, BatchInHand
  <2>4. /\ proc[p].todo \cap Completed = {}
        /\ \A i \in DOMAIN b : b[i].slot \notin Completed \cup proc[p].todo
        /\ draft.contention = DoneSlots(draft)
    BY <1>3, <2>1 DEF Fresh
  <2>5. draft'.contention = DoneSlots(draft')
    <3> HIDE DEF b, n
    <3>1. n \in DOMAIN b /\ b[n] \in BlockWrite
      BY <2>1, <2>3
    <3>2. b[n].slot \in Slots /\ b[n].slot \notin Completed
      BY <2>4, <3>1 DEF BlockWrite
    <3>3. \A i \in 1 .. (n - 1) : i \in DOMAIN b /\ i # n
      BY <2>1, <2>3
    <3>4. \A i \in 1 .. (n - 1) : b[i].slot # b[n].slot
      BY <2>3, <3>1, <3>3 DEF DistinctSlots
    <3>5. draft.status[b[n].slot] = db.status[b[n].slot]
      BY <2>3, <3>2, <3>4 DEF Drafted
    <3>6. draft.status[b[n].slot] # "done"
      BY <3>2, <3>5 DEF Completed
    <3> QED  BY <1>1, <2>1, <2>4, <3>1, <3>6, LoneWrite
  <2> QED  BY <1>2, <2>2, <2>4, <2>5 DEF Fresh
<1>7. CASE ReadTrades(p)
  <2>1. /\ proc'[p].pc = "build" /\ proc'[p].todo = proc[p].todo
        /\ proc'[p].read = db.trades /\ proc[p].pc = "ingest"
    BY <1>1, <1>7 DEF ReadTrades, Proc
  <2> QED  BY <1>2, <1>3, <2>1 DEF Fresh
<1>8. CASE BeginRebuild(p)
  <2>1. /\ proc'[p].pc = "commitCandles" /\ proc'[p].todo = proc[p].todo
        /\ proc'[p].read = proc[p].read /\ proc[p].pc = "build"
    BY <1>1, <1>8 DEF BeginRebuild, Proc
  <2> QED  BY <1>2, <1>3, <2>1 DEF Fresh
<1>9. CASE CommitRebuild(p)
  <2>1. /\ proc'[p].pc = "serve" /\ proc'[p].todo = proc[p].todo
        /\ proc[p].pc = "commitCandles"
    BY <1>1, <1>9 DEF CommitRebuild, Proc
  <2>2. db' = [db EXCEPT !.candles = proc[p].read]
    BY <1>9, <2>1 DEF CommitRebuild, TransactionInv, CandlesInHand
  <2>3. db'.candles = proc[p].read
    BY <1>1, <2>2 DEF Tables
  <2> QED  BY <1>2, <1>3, <2>1, <2>3 DEF Fresh
<1> QED  BY <1>4, <1>5, <1>6, <1>7, <1>8, <1>9 DEF Step

LEMMA LoneStep ==
  ASSUME StoreInv, StoreInv', TransactionInv, LoneInv, [Next]_vars
  PROVE  LoneInv'
<1>1. ASSUME NEW p \in Processes, Step(p), alone'
      PROVE  LoneInv'
  <2>1. alone /\ \A q \in Processes \ {p} : proc[q].pc = "off" /\ proc'[q] = proc[q]
    BY <1>1, StaysAlone
  <2>2. OnlyOneUp'
    BY <2>1 DEF OnlyOneUp
  <2>3. \A q \in Processes \ {p} : Fresh(q)'
    BY <2>1 DEF Fresh
  <2>4. CASE Commit(p)
    <3>1. Fresh(p)' /\ LogStands' /\ SettledOnce' /\ db'.contention = DoneSlots(db')
      BY <2>1, <2>4, LoneCommitKeeps
    <3> QED  BY <2>2, <2>3, <3>1 DEF LoneInv, DoneSlots
  <2>5. CASE ~Commit(p)
    <3>1. Fresh(p)'
      BY <1>1, <2>1, <2>5, LoneStepFresh
    <3>2. log' = log /\ db'.status = db.status /\ db'.contention = db.contention
      BY <1>1, <2>5, OnlyCommitsRecord
    <3>3. LogStands' /\ SettledOnce' /\ db'.contention = DoneSlots(db)'
      BY <2>1, <3>2 DEF LoneInv, LogStands, SettledOnce, DoneSlots
    <3> QED  BY <2>2, <2>3, <3>1, <3>3 DEF LoneInv
  <2> QED  BY <2>4, <2>5
<1>2. CASE UNCHANGED vars \/ NoMoreRuns
  <2>1. UNCHANGED vars
    BY <1>2 DEF NoMoreRuns
  <2> QED
    BY <2>1 DEF vars, LoneInv, OnlyOneUp, Fresh, LogStands, SettledOnce, DoneSlots, Completed
<1>3. CASE ~alone'
  BY <1>3 DEF LoneInv
<1> QED  BY <1>1, <1>2, <1>3 DEF Next

FullInv == StoreInv /\ TransactionInv /\ LoneInv

LEMMA FullInit == Init => FullInv
BY StoreInit, TransactionInit, LoneInit DEF FullInv

LEMMA FullStep == FullInv /\ [Next]_vars => FullInv'
<1> SUFFICES ASSUME FullInv, [Next]_vars PROVE FullInv'
  OBVIOUS
<1>1. StoreInv'
  BY StoreStep DEF FullInv
<1>2. TransactionInv'
  BY TransactionStep DEF FullInv
<1>3. LoneInv'
  BY <1>1, LoneStep DEF FullInv
<1> QED  BY <1>1, <1>2, <1>3 DEF FullInv

\* Processes that come one after another complete a slot once, in one batch of one
\* run, wherever they are stopped: a re-run writes only what is not settled.
THEOREM SettledByOneBatch == Spec => []SettledOnce
<1>1. FullInv => SettledOnce
  BY DEF FullInv, LoneInv, SettledOnce
<1> QED  BY FullInit, FullStep, <1>1, PTL DEF Spec

\* A lone process that has come to serve has the candles of the trades it serves,
\* although it read them before its transaction began.
THEOREM CandlesOfTheTrades == Spec => []CandlesCurrent
<1>1. FullInv => CandlesCurrent
  BY DEF FullInv, LoneInv, Fresh, CandlesCurrent
<1> QED  BY FullInit, FullStep, <1>1, PTL DEF Spec

\* The contention rows write_block never clears are those of done slots, as long
\* as processes come one after another.
THEOREM NoStaleContention == Spec => []NoRowOutlivesItsSlot
<1>1. FullInv => NoRowOutlivesItsSlot
  BY DEF FullInv, LoneInv, NoRowOutlivesItsSlot
<1> QED  BY FullInit, FullStep, <1>1, PTL DEF Spec

LEMMA LedgerBegins == Init => Ledger!Init
BY DEF Init, Empty, Ledger!Init

\* A commit records slots that were not settled, a rebuild replaces all candles;
\* no other step shows.
LEMMA LedgerStep ==
  FullInv /\ [Next]_vars => [alone' => Ledger!Next \/ UNCHANGED Ledger!vars]_vars
<1> SUFFICES ASSUME FullInv, NEW p \in Processes, Step(p), alone'
             PROVE  Ledger!Next \/ UNCHANGED Ledger!vars
  BY DEF Next, NoMoreRuns
<1>1. StoreInv /\ TransactionInv /\ LoneInv /\ db \in Tables /\ draft \in Tables
  BY DEF FullInv, StoreInv, WellTyped
<1>2. alone
  BY <1>1, StaysAlone
<1>3. CASE Commit(p)
  <2>1. \A s \in Slots :
          db'.status[s] # db.status[s] => s \notin Completed /\ db'.status[s] \in Outcome
    BY <1>1, <1>2, <1>3, LoneCommit
  <2>2. db'.candles = db.candles
    BY <1>1, <1>3, Committed
  <2>3. db'.status \in [Slots -> Outcome \cup {"none"}]
    BY <1>1, <1>3 DEF Commit, Tables
  <2>4. Ledger!Record
    BY <2>1, <2>2, <2>3 DEF Ledger!Record, Ledger!Settled, Ledger!Outcome, Ledger!Status,
                            Completed, Outcome
  <2> QED  BY <2>4 DEF Ledger!Next
<1>4. CASE ~Commit(p)
  <2>1. /\ db'.status = db.status
        /\ \/ db' = db
           \/ CommitRebuild(p) /\ db'.candles = proc[p].read
    BY <1>1, <1>4, OnlyCommitsRecord
  <2>2. CASE db' = db
    BY <2>2 DEF Ledger!vars
  <2>3. CASE CommitRebuild(p) /\ db'.candles = proc[p].read
    <3>1. proc[p].read = db.trades
      BY <1>1, <1>2, <2>3 DEF LoneInv, Fresh, CommitRebuild
    <3>2. db.trades = {s \in Slots : db.status[s] = "done"}
      BY <1>1 DEF StoreInv, RowsFollowStatus, RowsFollow, DoneSlots
    <3> QED  BY <2>1, <2>3, <3>1, <3>2 DEF Ledger!Next, Ledger!Rebuild
  <2> QED  BY <2>1, <2>2, <2>3
<1> QED  BY <1>3, <1>4

\* Statement by statement, crash by crash, processes that come one after another
\* keep the promise of the ledger.
THEOREM LoneProcessesKeepLedger == Spec => LedgerWhileAlone
BY FullInit, FullStep, LedgerBegins, LedgerStep, PTL DEF Spec, LedgerWhileAlone
=============================================================================
