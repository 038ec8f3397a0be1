------------------------------ MODULE Pipeline ------------------------------
(***************************************************************************)
(* One solscope process and the database file it leaves behind: main's     *)
(* `run`, the ingestion pipeline it drives (a feeder, fetch workers,       *)
(* analysis workers and the database writer, joined by three bounded       *)
(* channels), candle rebuilds, the debug pause, shutdown, and any number   *)
(* of crashes and restarts over the same file.                             *)
(*                                                                         *)
(* A block is its slot: what the analysis stores about it is the business  *)
(* of other modules. `db` and `candles` survive a crash, the rest does not.*)
(***************************************************************************)
EXTENDS Integers, Sequences, FiniteSets

CONSTANTS
  Slots,              \* the slots any run may be asked to ingest
  Ranges,             \* the slot ranges a run may select, subsets of Slots
  Fetchers,           \* --fetch-workers
  Analysers,          \* --analyze-workers
  RawCap,             \* --fetch-channel-capacity
  WriteCap,           \* --channel-capacity
  BatchBlocks,        \* --batch-blocks
  ExitAfterIngest,    \* --exit-after-ingest
  AnalyseOnRuntime,   \* --analyze-on-runtime
  Faults,             \* what may go wrong: see FaultKind
  MaxRuns,            \* bound: processes started over the same file
  MaxPauses           \* bound: calls of the pause endpoint

FaultKind == {"crash", "commit", "rebuild", "panic"}

ASSUME SlotsAssumption   == Slots \subseteq Nat /\ IsFiniteSet(Slots)
                         /\ Ranges \subseteq SUBSET Slots
ASSUME WorkersAssumption == IsFiniteSet(Fetchers) /\ Fetchers # {}
                         /\ IsFiniteSet(Analysers) /\ Analysers # {}
ASSUME CapsAssumption    == {RawCap, WriteCap, BatchBlocks} \subseteq Nat \ {0}
ASSUME FlagsAssumption   == {ExitAfterIngest, AnalyseOnRuntime} \subseteq BOOLEAN
                         /\ Faults \subseteq FaultKind
                         /\ MaxRuns \in Nat /\ MaxPauses \in Nat

SlotCap == 2 * Cardinality(Fetchers)
NoSlot  == -1

VARIABLES
  db,         \* the status of each slot's row in `slots`, "none" without one
  candles,    \* the slots whose trades the `candles` table was built from
  main,       \* where main's run (and ingest::run inside it) is
  range,      \* the range this run selected
  todo,       \* slots the feeder has still to send; it sends the least first
  slotQ,      \* feeder -> fetchers, slots
  rawQ,       \* fetchers -> analysers, slots of fetched blocks
  writeQ,     \* everyone -> writer, messages
  fetcher,    \* per fetch worker: where it is and the slot it holds
  analyser,   \* per analysis worker: likewise
  writer,     \* where the writer thread is
  pending,    \* blocks the writer has taken and not committed
  deferred,   \* the control message that ended the batch, or "none"
  rebuild,    \* the writer's answer to this run's candle rebuild
  m,          \* the metrics /api/status shows
  lost,       \* history: slots whose analysis panicked in this run
  runs,       \* bounded by MaxRuns
  pauses      \* bounded by MaxPauses

persistent == <<db, candles>>
queues  == <<slotQ, rawQ, writeQ>>
workers == <<fetcher, analyser>>
thread  == <<writer, pending, deferred>>
bounds  == <<runs, pauses>>
vars == <<persistent, main, range, todo, queues, workers, thread, rebuild,
          m, lost, bounds>>

-----------------------------------------------------------------------------
(* Messages and rows                                                       *)

DoneOnly == {"done"}                               \* mutant of CompletedStatuses
CompletedStatuses == {"done", "skipped"}
Outcome == {"done", "skipped", "failed"}

Block(s, st) == [type |-> "block", slot |-> s, status |-> st]
Control(t)   == [type |-> t, slot |-> NoSlot, status |-> "none"]

BlockMsg   == [type : {"block"}, slot : Slots, status : Outcome]
ControlMsg == {Control(t) : t \in {"pause", "rebuild", "shutdown"}}

CompletedDoneOnly(r) == {s \in r : db[s] = "done"}          \* mutant of Completed

\* completed_slots: what a restarted run does not fetch again.
Completed(r) == {s \in r : db[s] \in CompletedStatuses}

\* The rows after one transaction that upserts a batch in its order.
Applied(batch) ==
  [s \in Slots |->
     IF \E i \in DOMAIN batch : batch[i].slot = s
     THEN LET last == CHOOSE i \in DOMAIN batch :
                        /\ batch[i].slot = s
                        /\ \A j \in DOMAIN batch : batch[j].slot = s => j <= i
          IN  batch[last].status
     ELSE db[s]]

DoneSlots == {s \in Slots : db[s] = "done"}

-----------------------------------------------------------------------------
(* Process life: starting, ending, crashing                                *)

Idle == [pc |-> "off", slot |-> NoSlot, status |-> "none"]

ZeroMetrics ==
  [total |-> 0, already |-> 0, done |-> 0, skipped |-> 0, failed |-> 0,
   fetchQueue |-> 0, writeQueue |-> 0, written |-> 0, ingestDone |-> FALSE]

NoWorker(W) == [w \in W |-> Idle]

Init ==
  /\ db = [s \in Slots |-> "none"]
  /\ candles = {}
  /\ main = "down"
  /\ range = {} /\ todo = {} /\ lost = {}
  /\ slotQ = <<>> /\ rawQ = <<>> /\ writeQ = <<>>
  /\ fetcher = NoWorker(Fetchers) /\ analyser = NoWorker(Analysers)
  /\ writer = "recv" /\ pending = <<>> /\ deferred = "none"
  /\ rebuild = "none"
  /\ m = ZeroMetrics
  /\ runs = 0 /\ pauses = 0

\* The process is gone, with everything it held in memory.
ProcessEnds ==
  /\ main' = "down"
  /\ range' = {} /\ todo' = {} /\ lost' = {}
  /\ slotQ' = <<>> /\ rawQ' = <<>> /\ writeQ' = <<>>
  /\ fetcher' = NoWorker(Fetchers) /\ analyser' = NoWorker(Analysers)
  /\ writer' = "recv" /\ pending' = <<>> /\ deferred' = "none"
  /\ rebuild' = "none"
  /\ m' = ZeroMetrics
  /\ UNCHANGED <<persistent, bounds>>

\* A full run: open the writer, start serving, resolve the slot range.
Start ==
  /\ main = "down" /\ runs < MaxRuns
  /\ main' = "resolve"
  /\ runs' = runs + 1
  /\ UNCHANGED <<persistent, range, todo, queues, workers, thread, rebuild,
                 m, lost, pauses>>

AfterIngest == IF ExitAfterIngest THEN "sendShutdown" ELSE "serve"

\* --serve-only, over a file some earlier run created: the counters come
\* from the stored rows and ingestion is skipped.
StoredStats ==
  [ZeroMetrics EXCEPT
     !.total   = Cardinality({s \in Slots : db[s] # "none"}),
     !.done    = Cardinality(DoneSlots),
     !.skipped = Cardinality({s \in Slots : db[s] = "skipped"}),
     !.failed  = Cardinality({s \in Slots : db[s] = "failed"}),
     !.ingestDone = TRUE]

StartServeOnly ==
  /\ main = "down" /\ runs \in 1..(MaxRuns - 1)
  /\ main' = AfterIngest
  /\ runs' = runs + 1
  /\ m' = StoredStats
  /\ UNCHANGED <<persistent, range, todo, queues, workers, thread, rebuild,
                 lost, pauses>>

\* The tip cannot be fetched, or the reader not opened: run returns an
\* error before any worker exists, and the process exits.
RunFails ==
  /\ main = "resolve"
  /\ ProcessEnds

\* SIGKILL, a power cut, or SIGINT while ingesting: the ctrl-c handler is
\* only installed once ingestion is over. An open transaction rolls back.
Crash ==
  /\ "crash" \in Faults /\ main # "down"
  /\ ProcessEnds

-----------------------------------------------------------------------------
(* ingest::run and the rest of main                                        *)

SpawnedWorker == [Idle EXCEPT !.pc = "recv"]

\* Slots a previous run completed are left out; the others are queued and
\* the workers spawned, unless nothing is left to do.
SelectRange ==
  /\ main = "resolve"
  /\ \E r \in Ranges :
       /\ range' = r
       /\ todo' = r \ Completed(r)
       /\ m' = [m EXCEPT !.total = Cardinality(r),
                         !.already = Cardinality(Completed(r)),
                         !.ingestDone = (r \ Completed(r) = {})]
  /\ IF todo' = {}
     THEN /\ main' = "sendRebuild"
          /\ UNCHANGED workers
     ELSE /\ main' = "feed"
          /\ fetcher' = [f \in Fetchers |-> SpawnedWorker]
          /\ analyser' = [a \in Analysers |-> SpawnedWorker]
  /\ UNCHANGED <<persistent, queues, thread, rebuild, lost, bounds>>

\* slot_tx.send: blocks while the queue is full. It cannot fail, because run
\* itself still owns a handle on slot_rx.
Feed ==
  /\ main = "feed"
  /\ Len(slotQ) < SlotCap
  /\ \E s \in todo :
       /\ \A other \in todo : s <= other
       /\ slotQ' = Append(slotQ, s)
       /\ todo' = todo \ {s}
  /\ UNCHANGED <<persistent, main, range, rawQ, writeQ, workers, thread,
                 rebuild, m, lost, bounds>>

\* drop(slot_tx)
CloseSlots ==
  /\ main = "feed" /\ todo = {}
  /\ main' = "join"
  /\ UNCHANGED <<persistent, range, todo, queues, workers, thread, rebuild,
                 m, lost, bounds>>

FetchersGone  == \A f \in Fetchers : fetcher[f].pc = "off"
AnalysersGone == \A a \in Analysers : analyser[a].pc = "off"
WriterGone    == writer \in {"stopped", "failed"}

\* Every worker has been joined.
FinishRun ==
  /\ main = "join"
  /\ FetchersGone /\ AnalysersGone
  /\ main' = "sendRebuild"
  /\ m' = [m EXCEPT !.ingestDone = TRUE]
  /\ UNCHANGED <<persistent, range, todo, queues, workers, thread, rebuild,
                 lost, bounds>>

\* writes.send of a control message: blocks while the channel is full.
SendControl(t) ==
  /\ ~WriterGone
  /\ Len(writeQ) < WriteCap
  /\ writeQ' = Append(writeQ, Control(t))

SendRebuild ==
  /\ main = "sendRebuild"
  /\ SendControl("rebuild")
  /\ main' = "awaitRebuild"
  /\ UNCHANGED <<persistent, range, todo, slotQ, rawQ, workers, thread,
                 rebuild, m, lost, bounds>>

\* The reply, an error reply, or a writer that is gone: main logs it and
\* goes on in every case.
RebuildReturns ==
  /\ \/ main = "awaitRebuild" /\ rebuild # "none"
     \/ main \in {"sendRebuild", "awaitRebuild"} /\ WriterGone
  /\ main' = AfterIngest
  /\ UNCHANGED <<persistent, range, todo, queues, workers, thread, rebuild,
                 m, lost, bounds>>

CtrlC ==
  /\ main = "serve"
  /\ main' = "sendShutdown"
  /\ UNCHANGED <<persistent, range, todo, queues, workers, thread, rebuild,
                 m, lost, bounds>>

SendShutdown ==
  /\ main = "sendShutdown"
  /\ SendControl("shutdown")
  /\ main' = "awaitShutdown"
  /\ UNCHANGED <<persistent, range, todo, slotQ, rawQ, workers, thread,
                 rebuild, m, lost, bounds>>

\* The writer has answered (or is gone) and its thread is joined.
Exit ==
  /\ main \in {"sendShutdown", "awaitShutdown"} /\ WriterGone
  /\ ProcessEnds

\* POST /api/debug/pause while the server runs.
ApiPause ==
  /\ main # "down" /\ pauses < MaxPauses
  /\ SendControl("pause")
  /\ pauses' = pauses + 1
  /\ UNCHANGED <<persistent, main, range, todo, slotQ, rawQ, workers, thread,
                 rebuild, m, lost, runs>>

-----------------------------------------------------------------------------
(* Fetch workers                                                           *)

CountAsDone(c, n) == m' = [m EXCEPT !.done = @ + 1, !.writeQueue = @ + n] \* mutants of Count
Uncounted(c, n)   == m' = [m EXCEPT !.writeQueue = @ + n]
\* Entering or leaving a queue's gauge; a worker counts its outcome and enters
\* the gauge of the write queue.
Gauge(q, n)  == m' = [m EXCEPT ![q] = @ + n]
Count(c, n)  == m' = [m EXCEPT ![c] = @ + 1, !.writeQueue = @ + n]
Goto(pc)     == [pc |-> pc, slot |-> NoSlot, status |-> "none"]
At(w, pc)    == w.pc = pc
Sending(w, st) == [w EXCEPT !.pc = "sendWrite", !.status = st]

FetcherPeeks(f) ==                                 \* mutant of FetcherRecv
  /\ At(fetcher[f], "recv") /\ slotQ # <<>>
  /\ fetcher' = [fetcher EXCEPT ![f].pc = "fetch", ![f].slot = Head(slotQ)]
  /\ UNCHANGED <<persistent, main, range, todo, queues, analyser, thread,
                 rebuild, m, lost, bounds>>

FetcherRecv(f) ==
  /\ At(fetcher[f], "recv") /\ slotQ # <<>>
  /\ fetcher' = [fetcher EXCEPT ![f].pc = "fetch", ![f].slot = Head(slotQ)]
  /\ slotQ' = Tail(slotQ)
  /\ UNCHANGED <<persistent, main, range, todo, rawQ, writeQ, analyser,
                 thread, rebuild, m, lost, bounds>>

FetcherStopsWhenIdle(f) ==                         \* mutant of FetcherStops
  /\ At(fetcher[f], "recv") /\ slotQ = <<>>
  /\ fetcher' = [fetcher EXCEPT ![f] = Goto("off")]
  /\ UNCHANGED <<persistent, main, range, todo, queues, analyser, thread,
                 rebuild, m, lost, bounds>>

\* run has dropped slot_tx and nothing is queued.
FetcherStops(f) ==
  /\ At(fetcher[f], "recv") /\ slotQ = <<>> /\ main # "feed"
  /\ fetcher' = [fetcher EXCEPT ![f] = Goto("off")]
  /\ UNCHANGED <<persistent, main, range, todo, queues, analyser, thread,
                 rebuild, m, lost, bounds>>

\* get_block returned a block: the gauge counts it before the channel has
\* room for it.
FetchedBlock(f) ==
  /\ At(fetcher[f], "fetch")
  /\ fetcher' = [fetcher EXCEPT ![f].pc = "sendRaw"]
  /\ Gauge("fetchQueue", 1)
  /\ UNCHANGED <<persistent, main, range, todo, queues, analyser, thread,
                 rebuild, lost, bounds>>

\* get_block says the slot was skipped, or gave up on it: the fetcher itself
\* sends the row, past the analysers.
FetchedNoBlock(f, st) ==
  /\ At(fetcher[f], "fetch")
  /\ fetcher' = [fetcher EXCEPT ![f] = Sending(@, st)]
  /\ Count(st, 1)
  /\ UNCHANGED <<persistent, main, range, todo, queues, analyser, thread,
                 rebuild, lost, bounds>>

\* raw.send: cannot fail while run holds a handle on raw_rx.
SendRaw(f) ==
  /\ At(fetcher[f], "sendRaw") /\ Len(rawQ) < RawCap
  /\ rawQ' = Append(rawQ, fetcher[f].slot)
  /\ fetcher' = [fetcher EXCEPT ![f] = Goto("recv")]
  /\ UNCHANGED <<persistent, main, range, todo, slotQ, writeQ, analyser,
                 thread, rebuild, m, lost, bounds>>

\* writes.send of a worker's row.
CanOverfill(w)  ==                                 \* mutant of CanSendBlock
  At(w, "sendWrite") /\ ~WriterGone /\ Len(writeQ) <= WriteCap
CanSendBlock(w) == At(w, "sendWrite") /\ ~WriterGone /\ Len(writeQ) < WriteCap

FetcherSends(f) ==
  /\ CanSendBlock(fetcher[f])
  /\ writeQ' = Append(writeQ, Block(fetcher[f].slot, fetcher[f].status))
  /\ fetcher' = [fetcher EXCEPT ![f] = Goto("recv")]
  /\ UNCHANGED <<persistent, main, range, todo, slotQ, rawQ, analyser, thread,
                 rebuild, m, lost, bounds>>

\* The writer is gone: the worker leaves the gauge and returns.
FetcherGivesUp(f) ==
  /\ At(fetcher[f], "sendWrite") /\ WriterGone
  /\ fetcher' = [fetcher EXCEPT ![f] = Goto("off")]
  /\ Gauge("writeQueue", -1)
  /\ UNCHANGED <<persistent, main, range, todo, queues, analyser, thread,
                 rebuild, lost, bounds>>

-----------------------------------------------------------------------------
(* Analysis workers                                                        *)

\* The block is out of the channel and still in the gauge.
AnalyserRecv(a) ==
  /\ At(analyser[a], "recv") /\ rawQ # <<>>
  /\ analyser' = [analyser EXCEPT ![a].pc = "leave", ![a].slot = Head(rawQ)]
  /\ rawQ' = Tail(rawQ)
  /\ UNCHANGED <<persistent, main, range, todo, slotQ, writeQ, fetcher,
                 thread, rebuild, m, lost, bounds>>

\* leave_fetch_queue
AnalyserLeaves(a) ==
  /\ At(analyser[a], "leave")
  /\ analyser' = [analyser EXCEPT ![a].pc = "analyse"]
  /\ Gauge("fetchQueue", -1)
  /\ UNCHANGED <<persistent, main, range, todo, queues, fetcher, thread,
                 rebuild, lost, bounds>>

RawClosedAfterRun == main \notin {"feed", "join"}   \* mutant of RawClosed

\* run drops its own sender at once, so the channel closes with the fetchers.
RawClosed == FetchersGone

\* The channel is closed and empty.
AnalyserStops(a) ==
  /\ At(analyser[a], "recv") /\ rawQ = <<>> /\ RawClosed
  /\ analyser' = [analyser EXCEPT ![a] = Goto("off")]
  /\ UNCHANGED <<persistent, main, range, todo, queues, fetcher, thread,
                 rebuild, m, lost, bounds>>

Analysed(a) ==
  /\ At(analyser[a], "analyse")
  /\ analyser' = [analyser EXCEPT ![a] = Sending(@, "done")]
  /\ Count("done", 1)
  /\ UNCHANGED <<persistent, main, range, todo, queues, fetcher, thread,
                 rebuild, lost, bounds>>

\* analyse panics: on the blocking pool the worker logs it and goes on, on
\* the runtime the panic takes the worker's task with it. The slot leaves no
\* row and no counter.
AnalysisPanics(a) ==
  /\ "panic" \in Faults /\ At(analyser[a], "analyse")
  /\ analyser' = [analyser EXCEPT
                    ![a] = Goto(IF AnalyseOnRuntime THEN "off" ELSE "recv")]
  /\ lost' = lost \cup {analyser[a].slot}
  /\ UNCHANGED <<persistent, main, range, todo, queues, fetcher, thread,
                 rebuild, m, bounds>>

AnalyserSends(a) ==
  /\ CanSendBlock(analyser[a])
  /\ writeQ' = Append(writeQ, Block(analyser[a].slot, analyser[a].status))
  /\ analyser' = [analyser EXCEPT ![a] = Goto("recv")]
  /\ UNCHANGED <<persistent, main, range, todo, slotQ, rawQ, fetcher, thread,
                 rebuild, m, lost, bounds>>

AnalyserGivesUp(a) ==
  /\ At(analyser[a], "sendWrite") /\ WriterGone
  /\ analyser' = [analyser EXCEPT ![a] = Goto("off")]
  /\ Gauge("writeQueue", -1)
  /\ UNCHANGED <<persistent, main, range, todo, queues, fetcher, thread,
                 rebuild, lost, bounds>>

-----------------------------------------------------------------------------
(* The writer thread                                                       *)

IsBlock(msg) == msg.type = "block"

\* blocking_recv: a block opens a batch, anything else is dealt with alone. The
\* block in the writer's hand is the last of `pending`, and still in the gauge.
WriterRecv ==
  /\ writer = "recv" /\ main # "down" /\ writeQ # <<>>
  /\ writeQ' = Tail(writeQ)
  /\ IF IsBlock(Head(writeQ))
     THEN /\ writer' = "leave"
          /\ pending' = Append(pending, Head(writeQ))
          /\ UNCHANGED deferred
     ELSE /\ writer' = "deferred"
          /\ deferred' = Head(writeQ).type
          /\ UNCHANGED pending
  /\ UNCHANGED <<persistent, main, range, todo, slotQ, rawQ, workers, rebuild,
                 m, lost, bounds>>

\* leave_write_queue, after either receive.
WriterLeaves ==
  /\ writer = "leave"
  /\ writer' = "batch"
  /\ Gauge("writeQueue", -1)
  /\ UNCHANGED <<persistent, main, range, todo, queues, workers, pending,
                 deferred, rebuild, lost, bounds>>

TakesMoreUngauged ==                                   \* mutant of WriterTakesMore
  /\ writer = "batch" /\ Len(pending) < BatchBlocks /\ writeQ # <<>>
  /\ writeQ' = Tail(writeQ)
  /\ IF IsBlock(Head(writeQ))
     THEN pending' = Append(pending, Head(writeQ)) /\ UNCHANGED <<writer, deferred>>
     ELSE writer' = "commit" /\ deferred' = Head(writeQ).type /\ UNCHANGED pending
  /\ UNCHANGED <<persistent, main, range, todo, slotQ, rawQ, workers, rebuild,
                 m, lost, bounds>>

\* try_recv: the batch takes what is already queued, up to its size; the
\* first control message ends it and waits for the commit.
WriterTakesMore ==
  /\ writer = "batch" /\ Len(pending) < BatchBlocks /\ writeQ # <<>>
  /\ writeQ' = Tail(writeQ)
  /\ IF IsBlock(Head(writeQ))
     THEN /\ writer' = "leave"
          /\ pending' = Append(pending, Head(writeQ))
          /\ UNCHANGED deferred
     ELSE /\ writer' = "commit"
          /\ deferred' = Head(writeQ).type
          /\ UNCHANGED pending
  /\ UNCHANGED <<persistent, main, range, todo, slotQ, rawQ, workers, rebuild,
                 m, lost, bounds>>

WriterEndsBatch ==
  /\ writer = "batch" /\ (Len(pending) >= BatchBlocks \/ writeQ = <<>>)
  /\ writer' = "commit"
  /\ UNCHANGED <<persistent, main, range, todo, queues, workers, pending,
                 deferred, rebuild, m, lost, bounds>>

\* One transaction for the whole batch.
Commit ==
  /\ writer = "commit"
  /\ db' = Applied(pending)
  /\ pending' = <<>>
  /\ m' = [m EXCEPT !.written = @ + Len(pending)]
  /\ writer' = IF deferred = "none" THEN "recv" ELSE "deferred"
  /\ UNCHANGED <<candles, main, range, todo, queues, workers, deferred,
                 rebuild, lost, bounds>>

\* The transaction fails: it rolls back, the thread returns the error, and
\* its receiver goes with everything still queued.
CommitFails ==
  /\ "commit" \in Faults /\ writer = "commit"
  /\ writer' = "failed"
  /\ pending' = <<>> /\ writeQ' = <<>> /\ deferred' = "none"
  /\ UNCHANGED <<persistent, main, range, todo, slotQ, rawQ, workers, rebuild,
                 m, lost, bounds>>

WriterPauses ==
  /\ writer = "deferred" /\ deferred = "pause"
  /\ writer' = "paused" /\ deferred' = "none"
  /\ UNCHANGED <<persistent, main, range, todo, queues, workers, pending,
                 rebuild, m, lost, bounds>>

WriterResumes ==
  /\ writer = "paused"
  /\ writer' = "recv"
  /\ UNCHANGED <<persistent, main, range, todo, queues, workers, pending,
                 deferred, rebuild, m, lost, bounds>>

\* One transaction that empties `candles` and fills it from the stored
\* trades; if it fails the old candles stay.
RebuildCandles ==
  /\ writer = "deferred" /\ deferred = "rebuild"
  /\ writer' = "recv" /\ deferred' = "none"
  /\ \/ candles' = DoneSlots /\ rebuild' = "ok"
     \/ "rebuild" \in Faults /\ rebuild' = "err" /\ UNCHANGED candles
  /\ UNCHANGED <<db, main, range, todo, queues, workers, pending, m, lost,
                 bounds>>

WriterStops ==
  /\ writer = "deferred" /\ deferred = "shutdown"
  /\ writer' = "stopped" /\ deferred' = "none"
  /\ writeQ' = <<>>
  /\ UNCHANGED <<persistent, main, range, todo, slotQ, rawQ, workers, pending,
                 rebuild, m, lost, bounds>>

-----------------------------------------------------------------------------
\* Nothing is running and the bound on runs is reached.
Terminated == main = "down" /\ runs = MaxRuns /\ UNCHANGED vars

MainStep ==
  SelectRange \/ Feed \/ CloseSlots \/ FinishRun \/ SendRebuild
    \/ RebuildReturns \/ SendShutdown \/ Exit

FetcherStep(f) ==
  FetcherRecv(f) \/ FetcherStops(f) \/ FetchedBlock(f)
    \/ FetchedNoBlock(f, "skipped") \/ FetchedNoBlock(f, "failed")
    \/ SendRaw(f) \/ FetcherSends(f) \/ FetcherGivesUp(f)

AnalyserStep(a) ==
  AnalyserRecv(a) \/ AnalyserLeaves(a) \/ AnalyserStops(a) \/ Analysed(a)
    \/ AnalysisPanics(a) \/ AnalyserSends(a) \/ AnalyserGivesUp(a)

WriterStep ==
  WriterRecv \/ WriterLeaves \/ WriterTakesMore \/ WriterEndsBatch \/ Commit
    \/ CommitFails \/ WriterPauses \/ WriterResumes \/ RebuildCandles \/ WriterStops

EnvironmentStep == Start \/ StartServeOnly \/ RunFails \/ Crash \/ CtrlC \/ ApiPause

Next ==
  \/ MainStep
  \/ \E f \in Fetchers : FetcherStep(f)
  \/ \E a \in Analysers : AnalyserStep(a)
  \/ WriterStep
  \/ EnvironmentStep
  \/ Terminated

Spec == Init /\ [][Next]_vars

\* Every task that can run eventually does: the runtime and the OS schedule
\* all of them, and get_block, an analysis, a commit and a pause all end.
\* Whether and when a process is started, interrupted or killed, or the pause
\* endpoint is called, is nobody's duty.
Fairness ==
  /\ WF_vars(MainStep)
  /\ \A f \in Fetchers : WF_vars(FetcherStep(f))
  /\ \A a \in Analysers : WF_vars(AnalyserStep(a))
  /\ WF_vars(WriterStep)

FairSpec == Spec /\ Fairness
-----------------------------------------------------------------------------
(* Where a slot of the running range can be                                *)

MetricsType ==
  [total : Nat, already : Nat, done : Nat, skipped : Nat, failed : Nat,
   fetchQueue : Int, writeQueue : Int, written : Nat, ingestDone : BOOLEAN]

WorkerState == [pc : {"off", "recv", "fetch", "sendRaw", "leave", "analyse", "sendWrite"},
                slot : Slots \cup {NoSlot}, status : Outcome \cup {"none"}]

Place == {<<"queue", q>> : q \in {"todo", "slotQ", "rawQ", "writeQ", "pending"}}
           \cup {<<"fetcher", f>> : f \in Fetchers}
           \cup {<<"analyser", a>> : a \in Analysers}

Elems(q)    == {q[i] : i \in DOMAIN q}
BlocksIn(q) == {q[i].slot : i \in DOMAIN q} \ {NoSlot}

Held(p) ==
  CASE p = <<"queue", "todo">>    -> todo
    [] p = <<"queue", "slotQ">>   -> Elems(slotQ)
    [] p = <<"queue", "rawQ">>    -> Elems(rawQ)
    [] p = <<"queue", "writeQ">>  -> BlocksIn(writeQ)
    [] p = <<"queue", "pending">> -> BlocksIn(pending)
    [] p[1] = "fetcher"           -> {fetcher[p[2]].slot} \ {NoSlot}
    [] OTHER                      -> {analyser[p[2]].slot} \ {NoSlot}

Distinct(q) == \A i, j \in DOMAIN q : q[i] = q[j] => i = j
DistinctBlocks(q) ==
  \A i, j \in DOMAIN q : q[i].slot = q[j].slot /\ q[i].slot # NoSlot => i = j

InFlight == UNION {Held(p) : p \in Place}

\* The workers that hold a slot at one of the given places in their code.
WorkersAt(ws, pcs) == {w \in DOMAIN ws : ws[w].pc \in pcs}
Busy(ws, pcs)      == Cardinality(WorkersAt(ws, pcs))

BlocksQueued == Cardinality({i \in DOMAIN writeQ : IsBlock(writeQ[i])})
InHand       == IF writer = "leave" THEN 1 ELSE 0

-----------------------------------------------------------------------------
(* Properties                                                              *)

\* Every variable stays in its range, and no channel ever holds more than its
\* capacity.
TypeOK ==
  /\ db \in [Slots -> Outcome \cup {"none"}]
  /\ candles \subseteq Slots
  /\ main \in {"down", "resolve", "feed", "join", "sendRebuild", "awaitRebuild",
               "serve", "sendShutdown", "awaitShutdown"}
  /\ range \subseteq Slots /\ todo \subseteq range /\ lost \subseteq Slots
  /\ slotQ \in Seq(Slots) /\ Len(slotQ) <= SlotCap
  /\ rawQ \in Seq(Slots) /\ Len(rawQ) <= RawCap
  /\ writeQ \in Seq(BlockMsg \cup ControlMsg) /\ Len(writeQ) <= WriteCap
  /\ fetcher \in [Fetchers -> WorkerState]
  /\ analyser \in [Analysers -> WorkerState]
  /\ writer \in {"recv", "leave", "batch", "commit", "deferred", "paused", "stopped",
                 "failed"}
  /\ pending \in Seq(BlockMsg) /\ Len(pending) <= BatchBlocks
  /\ deferred \in {"none", "pause", "rebuild", "shutdown"}
  /\ rebuild \in {"none", "ok", "err"}
  /\ m \in MetricsType
  /\ runs \in 0..MaxRuns /\ pauses \in 0..MaxPauses

\* Between the feeder and the commit a slot is in exactly one place: no two
\* workers fetch it, no channel holds it twice, and it is never both still to
\* be fetched and on its way to the writer.
SlotHeldOnce ==
  /\ Distinct(slotQ) /\ Distinct(rawQ)
  /\ DistinctBlocks(writeQ) /\ DistinctBlocks(pending)
  /\ \A p, q \in Place : p # q => Held(p) \cap Held(q) = {}

\* No slot an earlier run or this one has stored as done or skipped is in
\* flight: a row that is settled cannot be overwritten by a late answer.
InFlightNotCompleted ==
  \A s \in InFlight : db[s] \notin CompletedStatuses

\* Whoever reads the two queue gauges, at any moment, finds the queued blocks, the
\* workers blocked sending one, and the consumers that have taken one and not yet
\* lowered the gauge: a gauge is ahead of its queue by that much and never drifts.
QueueGaugesExact ==
  /\ m.fetchQueue = Len(rawQ) + Busy(fetcher, {"sendRaw"}) + Busy(analyser, {"leave"})
  /\ ~WriterGone => m.writeQueue = BlocksQueued + Busy(fetcher, {"sendWrite"})
                                     + Busy(analyser, {"sendWrite"}) + InHand

\* Conservation of the run's slots: what the counters have not counted yet is
\* still ahead of them in the pipeline, and what they have counted and the
\* writer has not committed is queued behind them. A panicked analysis is the
\* only way out, and a writer that failed the only way to lose a row.
EverySlotAccountedFor ==
  main # "down" =>
    /\ m.total = m.already + m.done + m.skipped + m.failed
                   + Cardinality(todo) + Len(slotQ) + Len(rawQ)
                   + Busy(fetcher, {"fetch", "sendRaw"})
                   + Busy(analyser, {"leave", "analyse"}) + Cardinality(lost)
    /\ range # {} /\ ~WriterGone =>
         m.done + m.skipped + m.failed
           = m.written + Len(pending) + BlocksQueued
               + Busy(fetcher, {"sendWrite"}) + Busy(analyser, {"sendWrite"})

\* When the writer has answered the rebuild that follows ingestion, every row
\* of the run was committed before it: each slot of the range has a row unless
\* its analysis panicked, or the panics left no analyser to take it, the counters
\* agree with the rows, and after a rebuild that succeeded the candles are those
\* of the done slots.
RebuildFollowsEveryRow ==
  LET Rows(sts) == {s \in range \ (lost \cup Elems(rawQ)) : db[s] \in sts}
  IN  rebuild # "none" =>
        /\ Rows({"none"}) = {}
        /\ m.already + m.done + m.skipped = Cardinality(Rows(CompletedStatuses))
        /\ m.failed = Cardinality(Rows({"failed"}))
        /\ rebuild = "ok" => candles = DoneSlots

\* A sender is blocked on a full channel only while somebody is left to take
\* from it: the feeder waits for a live fetcher, a fetcher for a live analyser
\* ("the point at which backpressure has reached the top of the pipeline").
BlockedOnlyByLiveConsumer ==
  /\ main = "feed" /\ Len(slotQ) >= SlotCap => ~FetchersGone
  /\ (\E f \in Fetchers : At(fetcher[f], "sendRaw")) /\ Len(rawQ) >= RawCap
       => ~AnalysersGone

\* The pipeline keeps the promise of the ledger: no batch, restart or late
\* answer touches a row that is done or skipped, and candles are only replaced
\* by those of the slots stored as done.
Ledger == INSTANCE SlotLedger WITH Slots <- Slots, db <- db, candles <- candles
LedgerSpec == Ledger!Spec

\* An ingestion that has started ends, or its process does.
RunReturns == main \in {"feed", "join"} ~> main \notin {"feed", "join"}

\* A shutdown, once begun, ends the process, whatever is queued before it.
ExitCompletes == main \in {"sendShutdown", "awaitShutdown"} ~> main = "down"
=============================================================================
