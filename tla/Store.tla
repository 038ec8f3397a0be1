------------------------------- MODULE Store -------------------------------
(***************************************************************************)
(* The tables of one database file, and the solscope processes that write   *)
(* them: what each finds already completed, the transaction that replaces   *)
(* the rows of a batch of slots, the candle rebuild, and failures between   *)
(* any two of these steps. SQLite is external: one transaction writes at a  *)
(* time, a commit is atomic and a transaction cut short leaves no trace.    *)
(*                                                                         *)
(* A table is the set of the slots it holds rows of; a finalized block is   *)
(* the same on every fetch. Pipeline models the inside of one process.      *)
(***************************************************************************)
EXTENDS Integers, Sequences, FiniteSets

CONSTANTS
  Processes,    \* solscope processes over the file
  NoProcess,    \* not one of them
  Slots,        \* the range each of them is asked for
  BatchBlocks,  \* --batch-blocks
  MaxRuns       \* bound: times a process is started

ASSUME StoreAssumption == /\ NoProcess \notin Processes
                          /\ IsFiniteSet(Processes) /\ IsFiniteSet(Slots)
                          /\ BatchBlocks \in Nat \ {0} /\ MaxRuns \in Nat

VARIABLES
  db,       \* the committed tables
  draft,    \* the tables as the open write transaction sees them, or Empty
  holder,   \* the process whose write transaction is open, or NoProcess
  proc,     \* per process: where its run is, and what it holds
  runs,     \* bounded by MaxRuns
  log,      \* history: the batches whose commit returned
  alone     \* history: no process was ever started while another was up

vars == <<db, draft, holder, proc, runs, log, alone>>

Outcome == {"done", "skipped", "failed"}
BlockWrite == [slot : Slots, status : Outcome]

Tables == [status : [Slots -> Outcome \cup {"none"}],
           transactions : SUBSET Slots, contention : SUBSET Slots,
           conflicts : SUBSET Slots, trades : SUBSET Slots, candles : SUBSET Slots]

Empty == [status |-> [s \in Slots |-> "none"],
          transactions |-> {}, contention |-> {}, conflicts |-> {}, trades |-> {},
          candles |-> {}]

\* Rows a block brings: only an analysed block has any.
RowsOf(b) == IF b.status = "done" THEN {b.slot} ELSE {}

AppendsRows(t, b) ==                                   \* mutant of Rewritten
  [t EXCEPT !.status[b.slot] = b.status,
            !.transactions = @ \cup RowsOf(b),
            !.contention   = @ \cup RowsOf(b),
            !.conflicts    = @ \cup RowsOf(b),
            !.trades       = @ \cup RowsOf(b)]

\* write_block: three tables are cleared of the slot, `contention` is not.
Rewritten(t, b) ==
  [t EXCEPT !.status[b.slot] = b.status,
            !.transactions = (@ \ {b.slot}) \cup RowsOf(b),
            !.contention   = @ \cup RowsOf(b),
            !.conflicts    = (@ \ {b.slot}) \cup RowsOf(b),
            !.trades       = (@ \ {b.slot}) \cup RowsOf(b)]

\* completed_slots
Completed == {s \in Slots : db.status[s] \in {"done", "skipped"}}

Off == [pc |-> "off", todo |-> {}, batch |-> <<>>, at |-> 1, read |-> {}]

Init ==
  /\ db = Empty /\ draft = Empty
  /\ holder = NoProcess
  /\ proc = [p \in Processes |-> Off]
  /\ runs = 0
  /\ log = <<>>
  /\ alone = TRUE
-----------------------------------------------------------------------------
StartAll(p) ==                                         \* mutant of Start
  /\ proc[p].pc = "off" /\ runs < MaxRuns
  /\ proc' = [proc EXCEPT ![p] = [Off EXCEPT !.pc = "ingest", !.todo = Slots]]
  /\ runs' = runs + 1
  /\ alone' = (alone /\ \A q \in Processes : proc[q].pc = "off")
  /\ UNCHANGED <<db, draft, holder, log>>

\* A run fetches the slots that were not completed when it looked.
Start(p) ==
  /\ proc[p].pc = "off" /\ runs < MaxRuns
  /\ proc' = [proc EXCEPT ![p] = [Off EXCEPT !.pc = "ingest", !.todo = Slots \ Completed]]
  /\ runs' = runs + 1
  /\ alone' = (alone /\ \A q \in Processes : proc[q].pc = "off")
  /\ UNCHANGED <<db, draft, holder, log>>

\* The writer has a batch of fetched slots, each with its outcome, and opens a
\* transaction. It waits while another process writes.
BeginBatch(p) ==
  /\ proc[p].pc = "ingest" /\ holder = NoProcess
  /\ \E k \in 1 .. BatchBlocks : \E batch \in [1 .. k -> BlockWrite] :
       /\ \A i \in 1 .. k : batch[i].slot \in proc[p].todo
       /\ \A i, j \in 1 .. k : i # j => batch[i].slot # batch[j].slot
       /\ proc' = [proc EXCEPT ![p].pc = "write", ![p].batch = batch,
                               ![p].todo = @ \ {batch[i].slot : i \in 1 .. k}]
  /\ holder' = p
  /\ draft' = db
  /\ UNCHANGED <<db, runs, log, alone>>

\* write_block for the next block of the batch.
WriteBlock(p) ==
  /\ proc[p].pc = "write" /\ proc[p].at <= Len(proc[p].batch)
  /\ draft' = Rewritten(draft, proc[p].batch[proc[p].at])
  /\ proc' = [proc EXCEPT ![p].at = @ + 1]
  /\ UNCHANGED <<db, holder, runs, log, alone>>

Commit(p) ==
  /\ proc[p].pc = "write" /\ proc[p].at > Len(proc[p].batch)
  /\ db' = draft /\ draft' = Empty
  /\ log' = Append(log, proc[p].batch)
  /\ holder' = NoProcess
  /\ proc' = [proc EXCEPT ![p].pc = "ingest", ![p].batch = <<>>, ![p].at = 1]
  /\ UNCHANGED <<runs, alone>>
-----------------------------------------------------------------------------
(* Candles                                                                 *)

\* The run is over: the slots still to do are those whose analysis panicked. The
\* trades are read before the transaction opens.
ReadTrades(p) ==
  /\ proc[p].pc = "ingest"
  /\ proc' = [proc EXCEPT ![p].pc = "build", ![p].read = db.trades]
  /\ UNCHANGED <<db, draft, holder, runs, log, alone>>

RebuildOnce(p) ==                                      \* mutants of BeginRebuild
  /\ proc[p].pc = "build" /\ holder = NoProcess
  /\ holder' = p
  /\ draft' = [db EXCEPT !.candles = IF @ = {} THEN proc[p].read ELSE @]
  /\ proc' = [proc EXCEPT ![p].pc = "commitCandles"]
  /\ UNCHANGED <<db, runs, log, alone>>

RebuildUnlocked(p) ==
  /\ proc[p].pc = "build"
  /\ holder' = p
  /\ draft' = [db EXCEPT !.candles = proc[p].read]
  /\ proc' = [proc EXCEPT ![p].pc = "commitCandles"]
  /\ UNCHANGED <<db, runs, log, alone>>

\* The table is emptied and filled from the trades read before.
BeginRebuild(p) ==
  /\ proc[p].pc = "build" /\ holder = NoProcess
  /\ holder' = p
  /\ draft' = [db EXCEPT !.candles = proc[p].read]
  /\ proc' = [proc EXCEPT ![p].pc = "commitCandles"]
  /\ UNCHANGED <<db, runs, log, alone>>

CommitRebuild(p) ==
  /\ proc[p].pc = "commitCandles"
  /\ db' = draft /\ draft' = Empty
  /\ holder' = NoProcess
  /\ proc' = [proc EXCEPT ![p].pc = "serve", ![p].read = {}]
  /\ UNCHANGED <<runs, log, alone>>
-----------------------------------------------------------------------------
(* Failures                                                                *)

\* The write transaction of p, if it has one, is rolled back.
RollBack(p) ==
  IF holder = p THEN holder' = NoProcess /\ draft' = Empty ELSE UNCHANGED <<holder, draft>>

TornStop(p) ==                                         \* mutant of Stop
  /\ proc[p].pc # "off"
  /\ proc' = [proc EXCEPT ![p] = Off]
  /\ RollBack(p)
  /\ db' = IF holder = p THEN draft ELSE db
  /\ UNCHANGED <<runs, log, alone>>

\* The process crashes, is interrupted, or ends: its transaction is rolled back.
Stop(p) ==
  /\ proc[p].pc # "off"
  /\ proc' = [proc EXCEPT ![p] = Off]
  /\ RollBack(p)
  /\ UNCHANGED <<db, runs, log, alone>>

\* A statement fails, or the other process writes for longer than busy_timeout.
\* A failed batch ends the writer; a failed rebuild is logged, and the process
\* serves what there is.
Fail(p) ==
  /\ \/ proc[p].pc \in {"write", "build", "commitCandles"}
     \/ proc[p].pc = "ingest" /\ proc[p].todo # {} /\ holder # NoProcess
  /\ proc' = [proc EXCEPT ![p] =
                [Off EXCEPT !.pc = IF proc[p].pc \in {"build", "commitCandles"}
                                   THEN "stale" ELSE "stuck"]]
  /\ RollBack(p)
  /\ UNCHANGED <<db, runs, log, alone>>

Step(p) ==
  \/ Start(p) \/ BeginBatch(p) \/ WriteBlock(p) \/ Commit(p)
  \/ ReadTrades(p) \/ BeginRebuild(p) \/ CommitRebuild(p)
  \/ Stop(p) \/ Fail(p)

\* Bound: no run is left to start.
NoMoreRuns ==
  /\ runs = MaxRuns /\ \A p \in Processes : proc[p].pc = "off"
  /\ UNCHANGED vars

Next == NoMoreRuns \/ \E p \in Processes : Step(p)

Spec == Init /\ [][Next]_vars
-----------------------------------------------------------------------------
(* Properties                                                              *)

Phase == {"off", "ingest", "write", "build", "commitCandles", "serve", "stale", "stuck"}

WellTyped ==
  /\ db \in Tables /\ draft \in Tables
  /\ holder \in Processes \cup {NoProcess}
  /\ proc \in [Processes -> [pc : Phase, todo : SUBSET Slots, batch : Seq(BlockWrite),
                             at : Nat \ {0}, read : SUBSET Slots]]
  /\ runs \in 0 .. MaxRuns
  /\ log \in Seq(Seq(BlockWrite))
  /\ alone \in BOOLEAN

OneWriter == \A p \in Processes : proc[p].pc \in {"write", "commitCandles"} => holder = p

\* The state is well formed, and the open transaction is that of the one process
\* between its first statement and its commit.
TypeOK == WellTyped /\ OneWriter

DoneSlots(t) == {s \in Slots : t.status[s] = "done"}

RowsFollow(t) ==
  t.transactions = DoneSlots(t) /\ t.conflicts = DoneSlots(t) /\ t.trades = DoneSlots(t)

\* A slot has transactions, conflicts and trades exactly when its row says done,
\* whoever writes it last and whatever it overwrites.
RowsFollowStatus == RowsFollow(db)

\* Entry k of the log is the last that writes slot s.
WritesLast(k, s) ==
  /\ \E i \in DOMAIN log[k] : log[k][i].slot = s
  /\ \A l \in (k + 1) .. Len(log) : \A i \in DOMAIN log[l] : log[l][i].slot # s

\* What is committed is what the batches committed so far leave, each of them
\* whole: a crash, a failed statement or a second writer loses no committed
\* outcome and exposes no part of a batch.
OnlyWholeBatches ==
  \A s \in Slots :
    \/ db.status[s] = "none" /\ \A k \in DOMAIN log : \A i \in DOMAIN log[k] : log[k][i].slot # s
    \/ \E k \in DOMAIN log : \E i \in DOMAIN log[k] :
         WritesLast(k, s) /\ log[k][i] = [slot |-> s, status |-> db.status[s]]

\* One process at a time, restarted at any point: a slot is completed by one
\* batch of one run, and written no more. "A re-run fetches only slots that are
\* not already done or skipped."
SettledOnce ==
  alone =>
    \A k \in DOMAIN log : \A i \in DOMAIN log[k] :
      log[k][i].status # "failed" =>
        \A l \in (k + 1) .. Len(log) : \A j \in DOMAIN log[l] : log[l][j].slot # log[k][i].slot

\* One process at a time: once it has finished its ingestion and its rebuild, the
\* candles are those of the trades: "the trade rows are replaced, then the
\* candles are rebuilt from whatever the table now holds". The trades were read
\* outside the transaction: two processes at a time break this.
CandlesCurrent ==
  alone => \A p \in Processes : proc[p].pc = "serve" => db.candles = db.trades

\* "Every per-slot table is cleared for that slot inside the same transaction
\* that rewrites it": write_block clears three of the four. With one process at a
\* time the fourth, `contention`, still keeps no row of a slot that is not done,
\* because no slot that has one is written again; with two it does.
NoRowOutlivesItsSlot == alone => db.contention = DoneSlots(db)

Ledger == INSTANCE SlotLedger WITH db <- db.status, candles <- db.candles

\* As long as processes come one after another, the statuses and the candles are
\* a SlotLedger: every transaction records slots that were not settled, or puts
\* all candles in the place of all candles.
LedgerWhileAlone ==
  /\ Ledger!Init
  /\ [][alone' => Ledger!Next \/ UNCHANGED Ledger!vars]_vars
=============================================================================
