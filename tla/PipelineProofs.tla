--------------------------- MODULE PipelineProofs ---------------------------
(***************************************************************************)
(* Proofs about the pipeline, for every number of slots, workers, runs and *)
(* every capacity, in three parts. The slots: the pipeline is type         *)
(* correct, a slot is held in one place only, and the pipeline implements  *)
(* the ledger. What it counts: the gauges and counters agree with the      *)
(* slots in the channels and in the workers' hands, no slot is forgotten   *)
(* and none is counted twice. A run as a whole: nobody waits on a channel  *)
(* whose readers have left, and whoever sees the answer to the rebuild     *)
(* sees every row of the run, counted once.                                *)
(***************************************************************************)
EXTENDS Pipeline, TLAPS, FiniteSetTheorems, FunctionTheorems, SequenceTheorems

\* What a worker's place in its code says about the slot it holds.
Consistent(w) ==
  /\ w.slot = NoSlot <=> w.pc \in {"off", "recv"}
  /\ w.pc = "sendWrite" => w.status \in Outcome

WorkersConsistent ==
  /\ \A f \in Fetchers : Consistent(fetcher[f])
  /\ \A a \in Analysers : Consistent(analyser[a])

\* The writer holds a batch only while it is taking or committing one, and the
\* block it has just received is in it.
BatchConsistent ==
  /\ writer \notin {"leave", "batch", "commit"} => pending = <<>>
  /\ writer = "leave" => pending # <<>>

\* Nothing is in flight until the range is selected.
Quiet == main \in {"down", "resolve"} => InFlight = {}

IInv ==
  /\ TypeOK
  /\ WorkersConsistent
  /\ BatchConsistent
  /\ SlotHeldOnce
  /\ InFlightNotCompleted
  /\ Quiet
-----------------------------------------------------------------------------
(* Receiving from and sending to a channel                                 *)

\* Receiving the head of a queue of distinct slots takes exactly that slot
\* out of it.
LEMMA SlotReceived ==
  ASSUME NEW S, NEW q \in Seq(S), q # <<>>
  PROVE  /\ Head(q) \in S /\ Head(q) \in Elems(q)
         /\ Tail(q) \in Seq(S) /\ Len(Tail(q)) < Len(q)
         /\ Elems(Tail(q)) \subseteq Elems(q)
         /\ Distinct(q) => Distinct(Tail(q)) /\ Head(q) \notin Elems(Tail(q))
<1>1. /\ Head(q) \in S /\ Tail(q) \in Seq(S) /\ Len(Tail(q)) = Len(q) - 1
      /\ \A i \in 1 .. Len(Tail(q)) : Tail(q)[i] = q[i + 1]
  BY HeadTailProperties
<1>2. /\ Len(q) \in Nat /\ Len(q) > 0 /\ Head(q) = q[1]
      /\ DOMAIN q = 1 .. Len(q) /\ DOMAIN Tail(q) = 1 .. Len(Tail(q))
  BY <1>1
<1>3. Head(q) \in Elems(q)
  BY <1>2 DEF Elems
<1>4. \A i \in DOMAIN Tail(q) : i + 1 \in DOMAIN q /\ i + 1 # 1
  BY <1>1, <1>2
<1>5. Elems(Tail(q)) \subseteq Elems(q)
  BY <1>1, <1>2, <1>4 DEF Elems
<1>6. ASSUME Distinct(q)
      PROVE  Distinct(Tail(q)) /\ Head(q) \notin Elems(Tail(q))
  BY <1>1, <1>2, <1>4, <1>6 DEF Distinct, Elems
<1>. QED
  BY <1>1, <1>2, <1>3, <1>5, <1>6

\* Sending a slot a queue does not hold adds it once.
LEMMA SlotSent ==
  ASSUME NEW S, NEW q \in Seq(S), NEW x \in S
  PROVE  /\ Append(q, x) \in Seq(S) /\ Len(Append(q, x)) = Len(q) + 1
         /\ Elems(Append(q, x)) = Elems(q) \cup {x}
         /\ Distinct(q) /\ x \notin Elems(q) => Distinct(Append(q, x))
<1>1. /\ Append(q, x) \in Seq(S) /\ Len(Append(q, x)) = Len(q) + 1
      /\ \A i \in 1 .. Len(q) : Append(q, x)[i] = q[i]
      /\ Append(q, x)[Len(q) + 1] = x
  BY AppendProperties
<1>2. /\ Len(q) \in Nat /\ DOMAIN q = 1 .. Len(q)
      /\ DOMAIN Append(q, x) = 1 .. Len(q) + 1
  BY <1>1
<1>3. DOMAIN Append(q, x) = DOMAIN q \cup {Len(q) + 1}
  BY <1>2
<1>4. Elems(Append(q, x)) = Elems(q) \cup {x}
  BY <1>1, <1>2, <1>3 DEF Elems
<1>5. ASSUME Distinct(q), x \notin Elems(q)
      PROVE  Distinct(Append(q, x))
  BY <1>1, <1>2, <1>3, <1>5 DEF Distinct, Elems
<1>. QED
  BY <1>1, <1>4, <1>5

\* The same two facts for the blocks in a queue of messages.
LEMMA MessageReceived ==
  ASSUME NEW S, NEW q \in Seq(S), q # <<>>
  PROVE  /\ Head(q) \in S /\ Tail(q) \in Seq(S) /\ Len(Tail(q)) < Len(q)
         /\ BlocksIn(Tail(q)) \subseteq BlocksIn(q)
         /\ Head(q).slot # NoSlot => Head(q).slot \in BlocksIn(q)
         /\ DistinctBlocks(q) => /\ DistinctBlocks(Tail(q))
                                 /\ Head(q).slot \notin BlocksIn(Tail(q))
<1>1. /\ Head(q) \in S /\ Tail(q) \in Seq(S) /\ Len(Tail(q)) = Len(q) - 1
      /\ \A i \in 1 .. Len(Tail(q)) : Tail(q)[i] = q[i + 1]
  BY HeadTailProperties
<1>2. /\ Len(q) \in Nat /\ Len(q) > 0 /\ Head(q) = q[1]
      /\ DOMAIN q = 1 .. Len(q) /\ DOMAIN Tail(q) = 1 .. Len(Tail(q))
  BY <1>1
<1>3. Head(q).slot # NoSlot => Head(q).slot \in BlocksIn(q)
  BY <1>2 DEF BlocksIn
<1>4. \A i \in DOMAIN Tail(q) : i + 1 \in DOMAIN q /\ i + 1 # 1
  BY <1>1, <1>2
<1>5. BlocksIn(Tail(q)) \subseteq BlocksIn(q)
  BY <1>1, <1>2, <1>4 DEF BlocksIn
<1>6. ASSUME DistinctBlocks(q)
      PROVE  DistinctBlocks(Tail(q)) /\ Head(q).slot \notin BlocksIn(Tail(q))
  BY <1>1, <1>2, <1>4, <1>6 DEF DistinctBlocks, BlocksIn
<1>. QED
  BY <1>1, <1>2, <1>3, <1>5, <1>6

LEMMA MessageSent ==
  ASSUME NEW S, NEW q \in Seq(S), NEW x \in S
  PROVE  /\ Append(q, x) \in Seq(S) /\ Len(Append(q, x)) = Len(q) + 1
         /\ BlocksIn(Append(q, x)) = BlocksIn(q) \cup ({x.slot} \ {NoSlot})
         /\ DistinctBlocks(q) /\ x.slot \notin BlocksIn(q)
              => DistinctBlocks(Append(q, x))
<1>1. /\ Append(q, x) \in Seq(S) /\ Len(Append(q, x)) = Len(q) + 1
      /\ \A i \in 1 .. Len(q) : Append(q, x)[i] = q[i]
      /\ Append(q, x)[Len(q) + 1] = x
  BY AppendProperties
<1>2. /\ Len(q) \in Nat /\ DOMAIN q = 1 .. Len(q)
      /\ DOMAIN Append(q, x) = 1 .. Len(q) + 1
  BY <1>1
<1>3. DOMAIN Append(q, x) = DOMAIN q \cup {Len(q) + 1}
  BY <1>2
<1>4. BlocksIn(Append(q, x)) = BlocksIn(q) \cup ({x.slot} \ {NoSlot})
  BY <1>1, <1>2, <1>3 DEF BlocksIn
<1>5. ASSUME DistinctBlocks(q), x.slot \notin BlocksIn(q)
      PROVE  DistinctBlocks(Append(q, x))
  BY <1>1, <1>2, <1>3, <1>5 DEF DistinctBlocks, BlocksIn
<1>. QED
  BY <1>1, <1>4, <1>5
-----------------------------------------------------------------------------
(* Moving a slot from one place to another                                 *)

\* Each place, named, with what it holds.
PlaceTable ==
  /\ <<"queue", "todo">> \in Place /\ Held(<<"queue", "todo">>) = todo
  /\ <<"queue", "slotQ">> \in Place /\ Held(<<"queue", "slotQ">>) = Elems(slotQ)
  /\ <<"queue", "rawQ">> \in Place /\ Held(<<"queue", "rawQ">>) = Elems(rawQ)
  /\ <<"queue", "writeQ">> \in Place
  /\ Held(<<"queue", "writeQ">>) = BlocksIn(writeQ)
  /\ <<"queue", "pending">> \in Place
  /\ Held(<<"queue", "pending">>) = BlocksIn(pending)
  /\ \A f \in Fetchers : /\ <<"fetcher", f>> \in Place
                        /\ Held(<<"fetcher", f>>) = {fetcher[f].slot} \ {NoSlot}
  /\ \A a \in Analysers : /\ <<"analyser", a>> \in Place
                         /\ Held(<<"analyser", a>>) = {analyser[a].slot} \ {NoSlot}

LEMMA Places == PlaceTable
<1>1. \A f \in Fetchers : <<"fetcher", f>> \in Place
  BY DEF Place
<1>2. \A a \in Analysers : <<"analyser", a>> \in Place
  BY DEF Place
<1>3. \A q \in {"todo", "slotQ", "rawQ", "writeQ", "pending"} :
         <<"queue", q>> \in Place
  BY DEF Place
<1>4. \A f \in Fetchers : Held(<<"fetcher", f>>) = {fetcher[f].slot} \ {NoSlot}
  BY DEF Held
<1>5. \A a \in Analysers :
         Held(<<"analyser", a>>) = {analyser[a].slot} \ {NoSlot}
  BY DEF Held
<1>6. /\ Held(<<"queue", "todo">>) = todo
      /\ Held(<<"queue", "slotQ">>) = Elems(slotQ)
      /\ Held(<<"queue", "rawQ">>) = Elems(rawQ)
      /\ Held(<<"queue", "writeQ">>) = BlocksIn(writeQ)
      /\ Held(<<"queue", "pending">>) = BlocksIn(pending)
  BY DEF Held
<1>. QED
  BY <1>1, <1>2, <1>3, <1>4, <1>5, <1>6 DEF PlaceTable

LEMMA PlacesNext == PlaceTable'
  BY Places, PTL

Exclusive == \A p, q \in Place : p # q => Held(p) \cap Held(q) = {}

\* A step that takes one slot out of a place into another, and adds no other
\* slot anywhere, keeps the places exclusive and puts nothing new in flight.
LEMMA Transfer ==
  ASSUME Exclusive,
         NEW src \in Place, NEW dst \in Place, src # dst,
         NEW s \in Held(src), s \notin Held(src)',
         Held(dst)' \subseteq Held(dst) \cup {s},
         \A p \in Place \ {dst} : Held(p)' \subseteq Held(p)
  PROVE  Exclusive' /\ InFlight' \subseteq InFlight
<1>1. Place' = Place
  BY DEF Place
<1>2. ASSUME NEW p \in Place, p # dst
      PROVE  s \notin Held(p)'
  <2>1. CASE p = src
    BY <2>1
  <2>2. CASE p # src
    <3>1. Held(p) \cap Held(src) = {}
      BY <2>2 DEF Exclusive
    <3>. QED
      BY <1>2, <3>1
  <2>. QED
    BY <2>1, <2>2
<1>3. ASSUME NEW p \in Place, NEW q \in Place, p # q
      PROVE  Held(p)' \cap Held(q)' = {}
  <2>1. Held(p) \cap Held(q) = {}
    BY <1>3 DEF Exclusive
  <2>. QED
    BY <1>2, <1>3, <2>1
<1>4. Exclusive'
  BY <1>1, <1>3 DEF Exclusive
<1>5. InFlight' \subseteq InFlight
  BY <1>1 DEF InFlight
<1>. QED
  BY <1>4, <1>5

\* A step that only takes slots out of places keeps them exclusive too.
LEMMA Shrink ==
  ASSUME Exclusive, \A p \in Place : Held(p)' \subseteq Held(p)
  PROVE  Exclusive' /\ InFlight' \subseteq InFlight
<1>1. Place' = Place
  BY DEF Place
<1>2. Exclusive'
  BY <1>1 DEF Exclusive
<1>3. InFlight' \subseteq InFlight
  BY <1>1 DEF InFlight
<1>. QED
  BY <1>2, <1>3
\* What every place but one must satisfy, place by place.
Keeps(dst) ==
  /\ dst # <<"queue", "todo">> => todo' \subseteq todo
  /\ dst # <<"queue", "slotQ">> => Elems(slotQ)' \subseteq Elems(slotQ)
  /\ dst # <<"queue", "rawQ">> => Elems(rawQ)' \subseteq Elems(rawQ)
  /\ dst # <<"queue", "writeQ">> => BlocksIn(writeQ)' \subseteq BlocksIn(writeQ)
  /\ dst # <<"queue", "pending">> => BlocksIn(pending)' \subseteq BlocksIn(pending)
  /\ \A f \in Fetchers : dst # <<"fetcher", f>> =>
        fetcher'[f].slot \in {fetcher[f].slot, NoSlot}
  /\ \A a \in Analysers : dst # <<"analyser", a>> =>
        analyser'[a].slot \in {analyser[a].slot, NoSlot}

LEMMA KeepsPlaces ==
  ASSUME NEW dst, Keeps(dst)
  PROVE  \A p \in Place \ {dst} : Held(p)' \subseteq Held(p)
<1>1. SUFFICES ASSUME NEW p \in Place, p # dst
               PROVE  Held(p)' \subseteq Held(p)
  OBVIOUS
<1>2. CASE p \in {<<"queue", q>> : q \in {"todo", "slotQ", "rawQ", "writeQ", "pending"}}
  BY <1>1, <1>2, Places, PlacesNext DEF Keeps, PlaceTable
<1>3. CASE p \in {<<"fetcher", f>> : f \in Fetchers}
  <2>1. PICK f \in Fetchers : p = <<"fetcher", f>>
    BY <1>3
  <2>2. fetcher'[f].slot \in {fetcher[f].slot, NoSlot}
    BY <1>1, <2>1 DEF Keeps
  <2>3. Held(p) = {fetcher[f].slot} \ {NoSlot}
    BY <2>1, Places DEF PlaceTable
  <2>4. Held(p)' = {fetcher'[f].slot} \ {NoSlot}
    BY <2>1, PlacesNext DEF PlaceTable, NoSlot
  <2>. QED
    BY <2>2, <2>3, <2>4
<1>4. CASE p \in {<<"analyser", a>> : a \in Analysers}
  <2>1. PICK a \in Analysers : p = <<"analyser", a>>
    BY <1>4
  <2>2. analyser'[a].slot \in {analyser[a].slot, NoSlot}
    BY <1>1, <2>1 DEF Keeps
  <2>3. Held(p) = {analyser[a].slot} \ {NoSlot}
    BY <2>1, Places DEF PlaceTable
  <2>4. Held(p)' = {analyser'[a].slot} \ {NoSlot}
    BY <2>1, PlacesNext DEF PlaceTable, NoSlot
  <2>. QED
    BY <2>2, <2>3, <2>4
<1>. QED
  BY <1>2, <1>3, <1>4 DEF Place

-----------------------------------------------------------------------------
(* Type correctness                                                        *)

\* The parts of the invariant that say what the variables look like.
Shape == TypeOK /\ WorkersConsistent /\ BatchConsistent

LEMMA ShapeInit == Init => Shape
<1>. SUFFICES ASSUME Init PROVE Shape
  OBVIOUS
<1>. USE SlotsAssumption, CapsAssumption, FlagsAssumption DEF Init
<1>1. ZeroMetrics \in MetricsType
  BY DEF ZeroMetrics, MetricsType
<1>2. Idle \in WorkerState /\ Consistent(Idle)
  BY DEF Idle, WorkerState, Consistent, NoSlot
<1>3. fetcher \in [Fetchers -> WorkerState] /\ analyser \in [Analysers -> WorkerState]
  BY <1>2 DEF NoWorker
<1>4. WorkersConsistent
  BY <1>2 DEF NoWorker, WorkersConsistent
<1>5. SlotCap \in Nat
  BY WorkersAssumption, FS_CardinalityType DEF SlotCap
<1>6. db \in [Slots -> Outcome \cup {"none"}]
  OBVIOUS
<1>7. /\ slotQ \in Seq(Slots) /\ rawQ \in Seq(Slots)
      /\ writeQ \in Seq(BlockMsg \cup ControlMsg) /\ pending \in Seq(BlockMsg)
      /\ Len(slotQ) = 0 /\ Len(rawQ) = 0 /\ Len(writeQ) = 0 /\ Len(pending) = 0
  OBVIOUS
<1>. QED
  BY <1>1, <1>3, <1>4, <1>5, <1>6, <1>7 DEF Shape, TypeOK, BatchConsistent
LEMMA ShapeMain ==
  ASSUME Shape, MainStep \/ EnvironmentStep \/ UNCHANGED vars
  PROVE  Shape'
<1>. USE SlotsAssumption, CapsAssumption, FlagsAssumption
     DEF Shape, TypeOK, persistent, queues, workers, thread, bounds
<1>1. Idle \in WorkerState /\ Consistent(Idle)
  BY DEF Idle, WorkerState, Consistent, NoSlot
<1>2. SpawnedWorker \in WorkerState /\ Consistent(SpawnedWorker)
  BY DEF Idle, SpawnedWorker, WorkerState, Consistent, NoSlot
<1>3. \A S \in SUBSET Slots : Cardinality(S) \in Nat
  BY FS_Subset, FS_CardinalityType
<1>4. SlotCap \in Nat
  BY WorkersAssumption, FS_CardinalityType DEF SlotCap
<1>5. CASE ProcessEnds
  <2>1. ZeroMetrics \in MetricsType
    BY DEF ZeroMetrics, MetricsType
  <2>2. fetcher' \in [Fetchers -> WorkerState] /\ analyser' \in [Analysers -> WorkerState]
    BY <1>1, <1>5 DEF ProcessEnds, NoWorker
  <2>3. WorkersConsistent'
    BY <1>1, <1>5 DEF ProcessEnds, NoWorker, WorkersConsistent
  <2>4. /\ slotQ' \in Seq(Slots) /\ rawQ' \in Seq(Slots)
        /\ writeQ' \in Seq(BlockMsg \cup ControlMsg) /\ pending' \in Seq(BlockMsg)
        /\ Len(slotQ') = 0 /\ Len(rawQ') = 0 /\ Len(writeQ') = 0 /\ Len(pending') = 0
    BY <1>5 DEF ProcessEnds
  <2>. QED
    BY <1>4, <1>5, <2>1, <2>2, <2>3, <2>4 DEF ProcessEnds, BatchConsistent
<1>6. CASE SelectRange
  <2>1. PICK r \in Ranges :
          /\ range' = r
          /\ todo' = r \ Completed(r)
          /\ m' = [m EXCEPT !.total = Cardinality(r),
                            !.already = Cardinality(Completed(r)),
                            !.ingestDone = (r \ Completed(r) = {})]
    BY <1>6 DEF SelectRange
  <2>2. r \subseteq Slots /\ Completed(r) \subseteq Slots
    BY DEF Completed
  <2>3. m' \in MetricsType
    BY <1>3, <2>1, <2>2 DEF MetricsType
  <2>4. /\ fetcher' \in [Fetchers -> WorkerState]
        /\ analyser' \in [Analysers -> WorkerState]
        /\ WorkersConsistent'
    BY <1>2, <1>6 DEF SelectRange, WorkersConsistent
  <2>. QED
    BY <1>6, <2>1, <2>2, <2>3, <2>4 DEF SelectRange, BatchConsistent
<1>7. CASE Feed
  <2>1. PICK s \in todo : slotQ' = Append(slotQ, s) /\ todo' = todo \ {s}
    BY <1>7 DEF Feed
  <2>2. s \in Slots
    OBVIOUS
  <2>3. slotQ' \in Seq(Slots) /\ Len(slotQ') <= SlotCap
    BY <1>4, <1>7, <2>1, <2>2, SlotSent DEF Feed
  <2>. QED
    BY <1>7, <2>1, <2>3 DEF Feed, BatchConsistent, WorkersConsistent
<1>8. ASSUME NEW t \in {"pause", "rebuild", "shutdown"}, SendControl(t)
      PROVE  writeQ' \in Seq(BlockMsg \cup ControlMsg) /\ Len(writeQ') <= WriteCap
  <2>1. Control(t) \in BlockMsg \cup ControlMsg
    BY DEF ControlMsg
  <2>. QED
    BY <1>8, <2>1, MessageSent DEF SendControl
<1>9. CASE SendRebuild
  BY <1>8, <1>9 DEF SendRebuild, BatchConsistent, WorkersConsistent
<1>10. CASE SendShutdown
  BY <1>8, <1>10 DEF SendShutdown, BatchConsistent, WorkersConsistent
<1>11. CASE ApiPause
  BY <1>8, <1>11 DEF ApiPause, BatchConsistent, WorkersConsistent
<1>12. CASE CloseSlots \/ RebuildReturns \/ CtrlC
  <2>1. /\ UNCHANGED <<persistent, range, todo, queues, workers, thread, rebuild, m,
                       lost, bounds>>
        /\ main' \in {"join", "sendShutdown", "serve"}
    BY <1>12 DEF CloseSlots, RebuildReturns, CtrlC, AfterIngest
  <2>2. BatchConsistent' /\ WorkersConsistent'
    BY <2>1 DEF BatchConsistent, WorkersConsistent
  <2>. QED
    BY <2>1, <2>2
<1>13. CASE FinishRun
  BY <1>13 DEF FinishRun, MetricsType, BatchConsistent, WorkersConsistent
<1>14. CASE Start
  BY <1>14 DEF Start, BatchConsistent, WorkersConsistent
<1>15. CASE StartServeOnly
  <2>1. m' \in MetricsType
    <3>1. /\ Cardinality({s \in Slots : db[s] # "none"}) \in Nat
          /\ Cardinality(DoneSlots) \in Nat
          /\ Cardinality({s \in Slots : db[s] = "skipped"}) \in Nat
          /\ Cardinality({s \in Slots : db[s] = "failed"}) \in Nat
      BY <1>3 DEF DoneSlots
    <3>. HIDE DEF DoneSlots
    <3>2. ZeroMetrics \in MetricsType
      BY DEF ZeroMetrics, MetricsType
    <3>3. StoredStats \in MetricsType
      BY <3>1, <3>2 DEF StoredStats, MetricsType
    <3>. QED
      BY <1>15, <3>3 DEF StartServeOnly
  <2>. QED
    BY <1>15, <2>1 DEF StartServeOnly, AfterIngest, BatchConsistent, WorkersConsistent
<1>16. CASE UNCHANGED vars
  BY <1>16 DEF vars, BatchConsistent, WorkersConsistent
<1>. QED
  BY <1>5, <1>6, <1>7, <1>9, <1>10, <1>11, <1>12, <1>13, <1>14, <1>15, <1>16
     DEF MainStep, EnvironmentStep, Exit, RunFails, Crash
\* The records the workers and the metrics are updated to.
LEMMA GaugeType ==
  ASSUME m \in MetricsType, NEW n \in Int,
         Gauge("fetchQueue", n) \/ Gauge("writeQueue", n)
  PROVE  m' \in MetricsType
  BY DEF MetricsType, Gauge

LEMMA CountType ==
  ASSUME m \in MetricsType, NEW n \in Int,
         Count("done", n) \/ Count("skipped", n) \/ Count("failed", n)
  PROVE  m' \in MetricsType
<1>1. \A x \in Nat, y \in Int :
        /\ [m EXCEPT !.done = x, !.writeQueue = y] \in MetricsType
        /\ [m EXCEPT !.skipped = x, !.writeQueue = y] \in MetricsType
        /\ [m EXCEPT !.failed = x, !.writeQueue = y] \in MetricsType
  BY DEF MetricsType
<1>2. /\ m.done + 1 \in Nat /\ m.skipped + 1 \in Nat /\ m.failed + 1 \in Nat
      /\ m.writeQueue + n \in Int
  BY DEF MetricsType
<1>. QED
  BY <1>1, <1>2 DEF Count

LEMMA WrittenType ==
  ASSUME m \in MetricsType, NEW n \in Nat, m' = [m EXCEPT !.written = @ + n]
  PROVE  m' \in MetricsType
<1>1. m.written + n \in Nat
  BY DEF MetricsType
<1>2. \A x \in Nat : [m EXCEPT !.written = x] \in MetricsType
  BY DEF MetricsType
<1>. QED
  BY <1>1, <1>2

LEMMA HoldingType ==
  ASSUME NEW v \in WorkerState, NEW s \in Slots
  PROVE  /\ [v EXCEPT !.pc = "fetch", !.slot = s] \in WorkerState
         /\ Consistent([v EXCEPT !.pc = "fetch", !.slot = s])
         /\ [v EXCEPT !.pc = "leave", !.slot = s] \in WorkerState
         /\ Consistent([v EXCEPT !.pc = "leave", !.slot = s])
<1>1. [v EXCEPT !.pc = "fetch", !.slot = s] \in WorkerState
  BY DEF WorkerState
<1>2. Consistent([v EXCEPT !.pc = "fetch", !.slot = s])
  BY SlotsAssumption DEF WorkerState, Consistent, NoSlot
<1>3. [v EXCEPT !.pc = "leave", !.slot = s] \in WorkerState
  BY DEF WorkerState
<1>4. Consistent([v EXCEPT !.pc = "leave", !.slot = s])
  BY SlotsAssumption DEF WorkerState, Consistent, NoSlot
<1>. QED
  BY <1>1, <1>2, <1>3, <1>4

\* The channels and the workers, and what a worker's step leaves alone.
ChannelsOK ==
  /\ slotQ \in Seq(Slots) /\ Len(slotQ) <= SlotCap
  /\ rawQ \in Seq(Slots) /\ Len(rawQ) <= RawCap
  /\ writeQ \in Seq(BlockMsg \cup ControlMsg) /\ Len(writeQ) <= WriteCap

WorkersOK ==
  /\ fetcher \in [Fetchers -> WorkerState]
  /\ analyser \in [Analysers -> WorkerState]
  /\ WorkersConsistent

LEMMA WorkerFrame ==
  ASSUME Shape, UNCHANGED <<persistent, main, range, todo, thread, rebuild, bounds>>,
         ChannelsOK', WorkersOK', lost' \subseteq Slots, m' \in MetricsType
  PROVE  Shape'
<1>. USE DEF persistent, thread, bounds
<1>1. BatchConsistent'
  BY DEF Shape, BatchConsistent
<1>2. TypeOK'
  BY DEF Shape, TypeOK, ChannelsOK, WorkersOK
<1>. QED
  BY <1>1, <1>2 DEF Shape, WorkersOK

LEMMA ShapeFetcher ==
  ASSUME Shape, NEW f \in Fetchers, FetcherStep(f)
  PROVE  Shape'
<1>. USE SlotsAssumption, CapsAssumption
     DEF persistent, queues, workers, thread, bounds, At
<1>0. ChannelsOK /\ WorkersOK /\ lost \subseteq Slots /\ m \in MetricsType
  BY DEF Shape, TypeOK, ChannelsOK, WorkersOK
<1>1. fetcher[f] \in WorkerState /\ Consistent(fetcher[f])
  BY <1>0 DEF WorkersOK, WorkersConsistent
<1>2. Goto("recv") \in WorkerState /\ Consistent(Goto("recv"))
  BY DEF Goto, WorkerState, Consistent, NoSlot
<1>3. Goto("off") \in WorkerState /\ Consistent(Goto("off"))
  BY DEF Goto, WorkerState, Consistent, NoSlot
<1>4. ASSUME NEW w \in WorkerState, Consistent(w), fetcher' = [fetcher EXCEPT ![f] = w],
             analyser' = analyser
      PROVE  WorkersOK'
  BY <1>0, <1>4 DEF WorkersOK, WorkersConsistent
<1>5. CASE FetcherRecv(f)
  <2>1. Head(slotQ) \in Slots /\ slotQ' \in Seq(Slots) /\ Len(slotQ') <= SlotCap
    <3>1. SlotCap \in Nat
      BY WorkersAssumption, FS_CardinalityType DEF SlotCap
    <3>. QED
      BY <1>0, <1>5, <3>1, SlotReceived DEF FetcherRecv, ChannelsOK
  <2>2. PICK w : w = [fetcher[f] EXCEPT !.pc = "fetch", !.slot = Head(slotQ)]
    OBVIOUS
  <2>3. w \in WorkerState /\ Consistent(w)
    BY <1>1, <2>1, <2>2, HoldingType
  <2>4. fetcher' = [fetcher EXCEPT ![f] = w]
    BY <1>5, <2>2 DEF FetcherRecv
  <2>. QED
    BY <1>0, <1>4, <1>5, <2>1, <2>3, <2>4, WorkerFrame DEF FetcherRecv, ChannelsOK
<1>6. CASE FetcherStops(f)
  BY <1>0, <1>3, <1>4, <1>6, WorkerFrame DEF FetcherStops, ChannelsOK
<1>7. CASE FetchedBlock(f)
  <2>1. PICK w : w = [fetcher[f] EXCEPT !.pc = "sendRaw"]
    OBVIOUS
  <2>2. w \in WorkerState /\ Consistent(w)
    BY <1>1, <1>7, <2>1 DEF FetchedBlock, WorkerState, Consistent
  <2>3. fetcher' = [fetcher EXCEPT ![f] = w]
    BY <1>7, <2>1 DEF FetchedBlock
  <2>4. m' \in MetricsType
    BY <1>0, <1>7, GaugeType DEF FetchedBlock, ChannelsOK
  <2>. QED
    BY <1>0, <1>4, <1>7, <2>2, <2>3, <2>4, WorkerFrame DEF FetchedBlock, ChannelsOK
<1>8. ASSUME NEW st \in {"skipped", "failed"}, FetchedNoBlock(f, st)
      PROVE  Shape'
  <2>1. PICK w : w = Sending(fetcher[f], st)
    OBVIOUS
  <2>2. w \in WorkerState /\ Consistent(w)
    BY <1>1, <1>8, <2>1 DEF FetchedNoBlock, Sending, WorkerState, Consistent, Outcome
  <2>3. fetcher' = [fetcher EXCEPT ![f] = w]
    BY <1>8, <2>1 DEF FetchedNoBlock
  <2>4. m' \in MetricsType
    BY <1>0, <1>8, CountType DEF FetchedNoBlock, ChannelsOK
  <2>. QED
    BY <1>0, <1>4, <1>8, <2>2, <2>3, <2>4, WorkerFrame DEF FetchedNoBlock, ChannelsOK
<1>9. CASE SendRaw(f)
  <2>1. fetcher[f].slot \in Slots
    BY <1>1, <1>9 DEF SendRaw, WorkerState, Consistent
  <2>2. rawQ' \in Seq(Slots) /\ Len(rawQ') <= RawCap
    BY <1>0, <1>9, <2>1, SlotSent DEF SendRaw, ChannelsOK
  <2>. QED
    BY <1>0, <1>2, <1>4, <1>9, <2>2, WorkerFrame DEF SendRaw, ChannelsOK
<1>10. CASE FetcherSends(f)
  <2>1. Block(fetcher[f].slot, fetcher[f].status) \in BlockMsg
    BY <1>1, <1>10 DEF FetcherSends, CanSendBlock, WorkerState, Consistent, Block, BlockMsg
  <2>2. writeQ' \in Seq(BlockMsg \cup ControlMsg) /\ Len(writeQ') <= WriteCap
    BY <1>0, <1>10, <2>1, MessageSent DEF FetcherSends, CanSendBlock, ChannelsOK
  <2>. QED
    BY <1>0, <1>2, <1>4, <1>10, <2>2, WorkerFrame DEF FetcherSends, ChannelsOK
<1>11. CASE FetcherGivesUp(f)
  <2>1. m' \in MetricsType
    BY <1>0, <1>11, GaugeType DEF FetcherGivesUp, ChannelsOK
  <2>. QED
    BY <1>0, <1>3, <1>4, <1>11, <2>1, WorkerFrame DEF FetcherGivesUp, ChannelsOK
<1>. QED
  BY <1>5, <1>6, <1>7, <1>8, <1>9, <1>10, <1>11 DEF FetcherStep
LEMMA ShapeAnalyser ==
  ASSUME Shape, NEW a \in Analysers, AnalyserStep(a)
  PROVE  Shape'
<1>. USE SlotsAssumption, CapsAssumption
     DEF persistent, queues, workers, thread, bounds, At
<1>0. ChannelsOK /\ WorkersOK /\ lost \subseteq Slots /\ m \in MetricsType
  BY DEF Shape, TypeOK, ChannelsOK, WorkersOK
<1>1. analyser[a] \in WorkerState /\ Consistent(analyser[a])
  BY <1>0 DEF WorkersOK, WorkersConsistent
<1>2. Goto("recv") \in WorkerState /\ Consistent(Goto("recv"))
  BY DEF Goto, WorkerState, Consistent, NoSlot
<1>3. Goto("off") \in WorkerState /\ Consistent(Goto("off"))
  BY DEF Goto, WorkerState, Consistent, NoSlot
<1>4. ASSUME NEW w \in WorkerState, Consistent(w),
             analyser' = [analyser EXCEPT ![a] = w], fetcher' = fetcher
      PROVE  WorkersOK'
  BY <1>0, <1>4 DEF WorkersOK, WorkersConsistent
<1>5. CASE AnalyserRecv(a)
  <2>1. Head(rawQ) \in Slots /\ rawQ' \in Seq(Slots) /\ Len(rawQ') <= RawCap
    BY <1>0, <1>5, SlotReceived DEF AnalyserRecv, ChannelsOK
  <2>2. PICK w : w = [analyser[a] EXCEPT !.pc = "leave", !.slot = Head(rawQ)]
    OBVIOUS
  <2>3. w \in WorkerState /\ Consistent(w)
    BY <1>1, <2>1, <2>2, HoldingType
  <2>4. analyser' = [analyser EXCEPT ![a] = w]
    BY <1>5, <2>2 DEF AnalyserRecv
  <2>. QED
    BY <1>0, <1>4, <1>5, <2>1, <2>3, <2>4, WorkerFrame DEF AnalyserRecv, ChannelsOK
<1>6. CASE AnalyserStops(a)
  BY <1>0, <1>3, <1>4, <1>6, WorkerFrame DEF AnalyserStops, ChannelsOK
<1>7. CASE Analysed(a)
  <2>1. PICK w : w = Sending(analyser[a], "done")
    OBVIOUS
  <2>2. w \in WorkerState /\ Consistent(w)
    BY <1>1, <1>7, <2>1 DEF Analysed, Sending, WorkerState, Consistent, Outcome
  <2>3. analyser' = [analyser EXCEPT ![a] = w]
    BY <1>7, <2>1 DEF Analysed
  <2>4. m' \in MetricsType
    BY <1>0, <1>7, CountType DEF Analysed, ChannelsOK
  <2>. QED
    BY <1>0, <1>4, <1>7, <2>2, <2>3, <2>4, WorkerFrame DEF Analysed, ChannelsOK
<1>8. CASE AnalysisPanics(a)
  <2>1. lost' \subseteq Slots
    BY <1>0, <1>1, <1>8 DEF AnalysisPanics, WorkerState, Consistent
  <2>2. PICK w : w = Goto(IF AnalyseOnRuntime THEN "off" ELSE "recv")
    OBVIOUS
  <2>3. w \in WorkerState /\ Consistent(w)
    BY <1>2, <1>3, <2>2
  <2>4. analyser' = [analyser EXCEPT ![a] = w]
    BY <1>8, <2>2 DEF AnalysisPanics
  <2>. QED
    BY <1>0, <1>4, <1>8, <2>1, <2>3, <2>4, WorkerFrame DEF AnalysisPanics, ChannelsOK
<1>9. CASE AnalyserSends(a)
  <2>1. Block(analyser[a].slot, analyser[a].status) \in BlockMsg
    BY <1>1, <1>9 DEF AnalyserSends, CanSendBlock, WorkerState, Consistent, Block, BlockMsg
  <2>2. writeQ' \in Seq(BlockMsg \cup ControlMsg) /\ Len(writeQ') <= WriteCap
    BY <1>0, <1>9, <2>1, MessageSent DEF AnalyserSends, CanSendBlock, ChannelsOK
  <2>. QED
    BY <1>0, <1>2, <1>4, <1>9, <2>2, WorkerFrame DEF AnalyserSends, ChannelsOK
<1>10. CASE AnalyserGivesUp(a)
  <2>1. m' \in MetricsType
    BY <1>0, <1>10, GaugeType DEF AnalyserGivesUp, ChannelsOK
  <2>. QED
    BY <1>0, <1>3, <1>4, <1>10, <2>1, WorkerFrame DEF AnalyserGivesUp, ChannelsOK
<1>11. CASE AnalyserLeaves(a)
  <2>1. PICK w : w = [analyser[a] EXCEPT !.pc = "analyse"]
    OBVIOUS
  <2>2. w \in WorkerState /\ Consistent(w)
    BY <1>1, <1>11, <2>1 DEF AnalyserLeaves, WorkerState, Consistent
  <2>3. analyser' = [analyser EXCEPT ![a] = w]
    BY <1>11, <2>1 DEF AnalyserLeaves
  <2>4. m' \in MetricsType
    BY <1>0, <1>11, GaugeType DEF AnalyserLeaves, ChannelsOK
  <2>. QED
    BY <1>0, <1>4, <1>11, <2>2, <2>3, <2>4, WorkerFrame DEF AnalyserLeaves, ChannelsOK
<1>. QED
  BY <1>5, <1>6, <1>7, <1>8, <1>9, <1>10, <1>11 DEF AnalyserStep

\* A transaction leaves each slot with its old row or that of the one block
\* the batch holds for it.
LEMMA AppliedRows ==
  ASSUME db \in [Slots -> Outcome \cup {"none"}],
         NEW batch \in Seq(BlockMsg), DistinctBlocks(batch)
  PROVE  /\ Applied(batch) \in [Slots -> Outcome \cup {"none"}]
         /\ \A s \in Slots :
              IF s \in BlocksIn(batch) THEN Applied(batch)[s] \in Outcome
                                       ELSE Applied(batch)[s] = db[s]
<1>1. \A i \in DOMAIN batch : batch[i] \in BlockMsg
  BY ElementOfSeq
<1>2. ASSUME NEW s \in Slots, NEW i \in DOMAIN batch, batch[i].slot = s
      PROVE  \A j \in DOMAIN batch : batch[j].slot = s => j = i
  BY <1>1, <1>2, SlotsAssumption DEF DistinctBlocks, NoSlot
<1>3. \A i \in DOMAIN batch : i \in Int
  OBVIOUS
<1>4. ASSUME NEW s \in Slots
      PROVE  IF s \in BlocksIn(batch) THEN Applied(batch)[s] \in Outcome
                                      ELSE Applied(batch)[s] = db[s]
  <2>1. CASE \E i \in DOMAIN batch : batch[i].slot = s
    <3>1. PICK i \in DOMAIN batch : batch[i].slot = s
      BY <2>1
    <3>2. \A j \in DOMAIN batch : batch[j].slot = s => j <= i
      BY <1>2, <1>3, <3>1
    <3>3. \A k \in DOMAIN batch :
             (/\ batch[k].slot = s
              /\ \A j \in DOMAIN batch : batch[j].slot = s => j <= k) => k = i
      BY <1>2, <3>1
    <3>4. Applied(batch)[s] = batch[i].status
      BY <2>1, <3>1, <3>2, <3>3 DEF Applied
    <3>5. batch[i].status \in Outcome /\ s \in BlocksIn(batch)
      BY <1>1, <3>1, SlotsAssumption DEF BlockMsg, BlocksIn, NoSlot
    <3>. QED
      BY <3>4, <3>5
  <2>2. CASE ~ \E i \in DOMAIN batch : batch[i].slot = s
    BY <2>2 DEF Applied, BlocksIn
  <2>. QED
    BY <2>1, <2>2
<1>5. Applied(batch) \in [Slots -> Outcome \cup {"none"}]
  <2>1. Applied(batch) = [s \in Slots |-> Applied(batch)[s]]
    BY DEF Applied
  <2>. QED
    BY <1>4, <2>1
<1>. QED
  BY <1>4, <1>5
LEMMA ShapeWriter ==
  ASSUME Shape, DistinctBlocks(pending), WriterStep
  PROVE  Shape'
<1>. USE SlotsAssumption, CapsAssumption
     DEF Shape, TypeOK, persistent, queues, workers, thread, bounds
<1>1. ASSUME writeQ # <<>>, IsBlock(Head(writeQ)),
             Len(pending) < BatchBlocks, pending' = Append(pending, Head(writeQ))
      PROVE  pending' \in Seq(BlockMsg) /\ Len(pending') <= BatchBlocks
  <2>1. Head(writeQ) \in BlockMsg \cup ControlMsg
    BY <1>1, MessageReceived
  <2>2. \A c \in ControlMsg : ~IsBlock(c)
    BY DEF ControlMsg, Control, IsBlock
  <2>3. Head(writeQ) \in BlockMsg
    BY <1>1, <2>1, <2>2
  <2>. QED
    BY <1>1, <2>3, MessageSent
<1>2. ASSUME writeQ # <<>>, ~IsBlock(Head(writeQ))
      PROVE  Head(writeQ).type \in {"pause", "rebuild", "shutdown"}
  <2>1. Head(writeQ) \in BlockMsg \cup ControlMsg
    BY <1>2, MessageReceived
  <2>2. \A b \in BlockMsg : IsBlock(b)
    BY DEF BlockMsg, IsBlock
  <2>3. Head(writeQ) \in ControlMsg
    BY <1>2, <2>1, <2>2
  <2>. QED
    BY <2>3 DEF ControlMsg, Control
<1>3. ASSUME writeQ # <<>>, writeQ' = Tail(writeQ)
      PROVE  writeQ' \in Seq(BlockMsg \cup ControlMsg) /\ Len(writeQ') <= WriteCap
  BY <1>3, MessageReceived
<1>4. ASSUME UNCHANGED workers
      PROVE  WorkersConsistent' /\ fetcher' = fetcher /\ analyser' = analyser
  BY <1>4 DEF WorkersConsistent
<1>5. CASE WriterRecv
  <2>1. pending = <<>>
    BY <1>5 DEF WriterRecv, BatchConsistent
  <2>2. Len(pending) < BatchBlocks
    BY <2>1
  <2>3. CASE IsBlock(Head(writeQ))
    <3>1. /\ pending' \in Seq(BlockMsg) /\ Len(pending') <= BatchBlocks
          /\ pending' # <<>> /\ writer' = "leave"
      BY <1>1, <1>5, <2>2, <2>3 DEF WriterRecv
    <3>. QED
      BY <1>3, <1>4, <1>5, <2>3, <3>1 DEF WriterRecv, BatchConsistent
  <2>4. CASE ~IsBlock(Head(writeQ))
    BY <1>2, <1>3, <1>4, <1>5, <2>1, <2>4 DEF WriterRecv, BatchConsistent
  <2>. QED
    BY <2>3, <2>4
<1>6. CASE WriterTakesMore
  <2>1. CASE IsBlock(Head(writeQ))
    <3>1. /\ writeQ # <<>> /\ Len(pending) < BatchBlocks /\ writeQ' = Tail(writeQ)
          /\ writer' = "leave" /\ pending' = Append(pending, Head(writeQ))
          /\ UNCHANGED <<persistent, main, range, todo, slotQ, rawQ, workers,
                         deferred, rebuild, m, lost, bounds>>
      BY <1>6, <2>1 DEF WriterTakesMore
    <3>2. pending' \in Seq(BlockMsg) /\ Len(pending') <= BatchBlocks /\ pending' # <<>>
      BY <1>1, <2>1, <3>1
    <3>3. writeQ' \in Seq(BlockMsg \cup ControlMsg) /\ Len(writeQ') <= WriteCap
      BY <1>3, <3>1
    <3>4. WorkersConsistent'
      BY <1>4, <3>1
    <3>5. BatchConsistent'
      BY <3>1, <3>2 DEF BatchConsistent
    <3>. QED
      BY <3>1, <3>2, <3>3, <3>4, <3>5
  <2>2. CASE ~IsBlock(Head(writeQ))
    <3>1. /\ writeQ # <<>> /\ writeQ' = Tail(writeQ)
          /\ writer' = "commit" /\ pending' = pending
          /\ deferred' = Head(writeQ).type
          /\ UNCHANGED <<persistent, main, range, todo, slotQ, rawQ, workers,
                         rebuild, m, lost, bounds>>
      BY <1>6, <2>2 DEF WriterTakesMore
    <3>2. deferred' \in {"pause", "rebuild", "shutdown"}
      BY <1>2, <2>2, <3>1
    <3>3. writeQ' \in Seq(BlockMsg \cup ControlMsg) /\ Len(writeQ') <= WriteCap
      BY <1>3, <3>1
    <3>4. WorkersConsistent'
      BY <1>4, <3>1
    <3>5. BatchConsistent'
      BY <3>1 DEF BatchConsistent
    <3>. QED
      BY <3>1, <3>2, <3>3, <3>4, <3>5
  <2>. QED
    BY <2>1, <2>2
<1>7. CASE WriterEndsBatch
  BY <1>4, <1>7 DEF WriterEndsBatch, BatchConsistent
<1>8. CASE Commit
  <2>1. db' \in [Slots -> Outcome \cup {"none"}]
    BY <1>8, AppliedRows DEF Commit
  <2>2. m' \in MetricsType
    <3>1. m' = [m EXCEPT !.written = @ + Len(pending)] /\ Len(pending) \in Nat
      BY <1>8 DEF Commit
    <3>. QED
      BY <3>1, WrittenType
  <2>3. pending' \in Seq(BlockMsg) /\ Len(pending') = 0 /\ pending' = <<>>
    BY <1>8 DEF Commit
  <2>. QED
    BY <1>4, <1>8, <2>1, <2>2, <2>3 DEF Commit, BatchConsistent
<1>9. CASE CommitFails
  <2>1. /\ pending' \in Seq(BlockMsg) /\ Len(pending') = 0 /\ pending' = <<>>
        /\ writeQ' \in Seq(BlockMsg \cup ControlMsg) /\ Len(writeQ') = 0
    BY <1>9 DEF CommitFails
  <2>. QED
    BY <1>4, <1>9, <2>1 DEF CommitFails, BatchConsistent
<1>10. CASE WriterPauses
  BY <1>4, <1>10 DEF WriterPauses, BatchConsistent
<1>11. CASE WriterResumes
  BY <1>4, <1>11 DEF WriterResumes, BatchConsistent
<1>12. CASE RebuildCandles
  <2>1. DoneSlots \subseteq Slots
    BY DEF DoneSlots
  <2>. QED
    BY <1>4, <1>12, <2>1 DEF RebuildCandles, BatchConsistent
<1>13. CASE WriterStops
  <2>1. writeQ' \in Seq(BlockMsg \cup ControlMsg) /\ Len(writeQ') = 0
    BY <1>13 DEF WriterStops
  <2>. QED
    BY <1>4, <1>13, <2>1 DEF WriterStops, BatchConsistent
<1>14. CASE WriterLeaves
  <2>1. m' \in MetricsType
    BY <1>14, GaugeType DEF WriterLeaves
  <2>. QED
    BY <1>4, <1>14, <2>1 DEF WriterLeaves, BatchConsistent
<1>. QED
  BY <1>5, <1>6, <1>7, <1>8, <1>9, <1>10, <1>11, <1>12, <1>13, <1>14 DEF WriterStep

LEMMA ShapeNext ==
  ASSUME Shape, DistinctBlocks(pending), [Next]_vars
  PROVE  Shape'
<1>1. CASE Terminated
  BY <1>1, ShapeMain DEF Terminated
<1>. QED
  BY <1>1, ShapeMain, ShapeFetcher, ShapeAnalyser, ShapeWriter DEF Next
-----------------------------------------------------------------------------
(* A slot is held in one place                                             *)

DistinctQueues ==
  /\ Distinct(slotQ) /\ Distinct(rawQ)
  /\ DistinctBlocks(writeQ) /\ DistinctBlocks(pending)

\* What a step that selects no range does to the slots in flight.
HeldStep == SlotHeldOnce' /\ InFlight' \subseteq InFlight

LEMMA HeldOnceParts == SlotHeldOnce <=> DistinctQueues /\ Exclusive
  BY DEF SlotHeldOnce, DistinctQueues, Exclusive

LEMMA HeldOncePartsNext == SlotHeldOnce' <=> DistinctQueues' /\ Exclusive'
  BY DEF SlotHeldOnce, DistinctQueues, Exclusive

\* A step that moves nothing, or only drops slots.
Nowhere == <<"nowhere", NoSlot>>

LEMMA Dropped ==
  ASSUME SlotHeldOnce, DistinctQueues', Keeps(Nowhere)
  PROVE  HeldStep
<1>1. \A p \in Place : p # Nowhere
  BY DEF Place, Nowhere
<1>2. \A p \in Place : Held(p)' \subseteq Held(p)
  BY <1>1, KeepsPlaces
<1>. QED
  BY <1>2, HeldOnceParts, HeldOncePartsNext, Shrink DEF HeldStep

\* A step that moves one slot.
LEMMA Moved ==
  ASSUME SlotHeldOnce, DistinctQueues',
         NEW src \in Place, NEW dst \in Place, src # dst,
         NEW s \in Held(src), s \notin Held(src)',
         Held(dst)' \subseteq Held(dst) \cup {s}, Keeps(dst)
  PROVE  HeldStep
<1>1. \A p \in Place \ {dst} : Held(p)' \subseteq Held(p)
  BY KeepsPlaces
<1>2. Exclusive
  BY HeldOnceParts
<1>3. Exclusive' /\ InFlight' \subseteq InFlight
  BY <1>1, <1>2, Transfer
<1>. QED
  BY <1>3, HeldOncePartsNext DEF HeldStep

\* A slot held in one place is not in another.
LEMMA NotElsewhere ==
  ASSUME SlotHeldOnce, NEW p \in Place, NEW q \in Place, p # q, NEW s \in Held(p)
  PROVE  s \notin Held(q)
  BY DEF SlotHeldOnce

\* Sending a control message moves no slot.
LEMMA ControlSent ==
  ASSUME Shape, DistinctQueues, NEW t \in {"pause", "rebuild", "shutdown"},
         writeQ' = Append(writeQ, Control(t))
  PROVE  DistinctBlocks(writeQ)' /\ BlocksIn(writeQ)' = BlocksIn(writeQ)
<1>1. Control(t) \in BlockMsg \cup ControlMsg /\ Control(t).slot = NoSlot
  BY DEF Control, ControlMsg
<1>2. writeQ \in Seq(BlockMsg \cup ControlMsg) /\ DistinctBlocks(writeQ)
  BY DEF Shape, TypeOK, DistinctQueues
<1>3. NoSlot \notin BlocksIn(writeQ)
  BY DEF BlocksIn
<1>4. /\ BlocksIn(Append(writeQ, Control(t)))
           = BlocksIn(writeQ) \cup ({Control(t).slot} \ {NoSlot})
      /\ DistinctBlocks(Append(writeQ, Control(t)))
  BY <1>1, <1>2, <1>3, MessageSent
<1>. QED
  BY <1>1, <1>4

LEMMA HeldMain ==
  ASSUME Shape, SlotHeldOnce, (MainStep /\ ~SelectRange) \/ EnvironmentStep \/ UNCHANGED vars
  PROVE  HeldStep
<1>. USE DEF persistent, queues, workers, thread, bounds
<1>1. DistinctQueues
  BY HeldOnceParts
<1>2. CASE ProcessEnds
  <2>1. DistinctQueues'
    BY <1>2 DEF ProcessEnds, DistinctQueues, Distinct, DistinctBlocks
  <2>2. Keeps(Nowhere)
    BY <1>2 DEF ProcessEnds, Keeps, NoWorker, Idle, Elems, BlocksIn
  <2>. QED
    BY <2>1, <2>2, Dropped
<1>3. ASSUME UNCHANGED <<todo, queues, workers, pending>>
      PROVE  HeldStep
  <2>1. DistinctQueues' /\ Keeps(Nowhere)
    BY <1>1, <1>3 DEF DistinctQueues, Keeps
  <2>. QED
    BY <2>1, Dropped
<1>4. ASSUME NEW t \in {"pause", "rebuild", "shutdown"}, SendControl(t),
             UNCHANGED <<todo, slotQ, rawQ, workers, pending>>
      PROVE  HeldStep
  <2>1. DistinctBlocks(writeQ)' /\ BlocksIn(writeQ)' = BlocksIn(writeQ)
    BY <1>1, <1>4, ControlSent DEF SendControl
  <2>2. DistinctQueues' /\ Keeps(Nowhere)
    BY <1>1, <1>4, <2>1 DEF DistinctQueues, Keeps
  <2>. QED
    BY <2>2, Dropped
<1>5. CASE Feed
  <2>1. PICK s \in todo : slotQ' = Append(slotQ, s) /\ todo' = todo \ {s}
    BY <1>5 DEF Feed
  <2>2. s \in Slots /\ slotQ \in Seq(Slots)
    BY DEF Shape, TypeOK
  <2>3. /\ <<"queue", "todo">> \in Place /\ <<"queue", "slotQ">> \in Place
        /\ Held(<<"queue", "todo">>) = todo
        /\ Held(<<"queue", "slotQ">>) = Elems(slotQ)
        /\ Held(<<"queue", "todo">>)' = todo'
        /\ Held(<<"queue", "slotQ">>)' = Elems(slotQ)'
    BY Places, PlacesNext DEF PlaceTable
  <2>4. <<"queue", "todo">> # <<"queue", "slotQ">>
    OBVIOUS
  <2>5. s \notin Elems(slotQ)
    BY <2>3, <2>4, NotElsewhere
  <2>6. Elems(slotQ)' = Elems(slotQ) \cup {s} /\ Distinct(slotQ)'
    BY <1>1, <2>1, <2>2, <2>5, SlotSent DEF DistinctQueues
  <2>7. DistinctQueues' /\ Keeps(<<"queue", "slotQ">>)
    BY <1>1, <1>5, <2>1, <2>6 DEF Feed, DistinctQueues, Keeps
  <2>. QED
    BY <2>1, <2>3, <2>4, <2>6, <2>7, Moved
<1>6. CASE SendRebuild \/ SendShutdown \/ ApiPause
  BY <1>4, <1>6 DEF SendRebuild, SendShutdown, ApiPause
<1>7. CASE \/ CloseSlots \/ FinishRun \/ RebuildReturns \/ Start
           \/ StartServeOnly \/ CtrlC \/ UNCHANGED vars
  BY <1>3, <1>7 DEF CloseSlots, FinishRun, RebuildReturns, Start, StartServeOnly,
                    CtrlC, vars
<1>. QED
  BY <1>2, <1>5, <1>6, <1>7 DEF MainStep, EnvironmentStep, Exit, RunFails, Crash
LEMMA HeldFetcher ==
  ASSUME Shape, SlotHeldOnce, NEW f \in Fetchers, FetcherStep(f)
  PROVE  HeldStep
<1>. USE DEF persistent, queues, workers, thread, bounds, At
<1>. DEFINE me == <<"fetcher", f>>
<1>1. DistinctQueues
  BY HeldOnceParts
<1>2. /\ fetcher \in [Fetchers -> WorkerState] /\ Consistent(fetcher[f])
      /\ fetcher[f] \in WorkerState /\ slotQ \in Seq(Slots) /\ rawQ \in Seq(Slots)
      /\ writeQ \in Seq(BlockMsg \cup ControlMsg)
  BY DEF Shape, TypeOK, WorkersConsistent
<1>3. /\ <<"queue", "slotQ">> \in Place /\ Held(<<"queue", "slotQ">>) = Elems(slotQ)
      /\ Held(<<"queue", "slotQ">>)' = Elems(slotQ)'
      /\ <<"queue", "rawQ">> \in Place /\ Held(<<"queue", "rawQ">>) = Elems(rawQ)
      /\ Held(<<"queue", "rawQ">>)' = Elems(rawQ)'
      /\ <<"queue", "writeQ">> \in Place /\ Held(<<"queue", "writeQ">>) = BlocksIn(writeQ)
      /\ Held(<<"queue", "writeQ">>)' = BlocksIn(writeQ)'
      /\ me \in Place /\ Held(me) = {fetcher[f].slot} \ {NoSlot}
      /\ Held(me)' = {fetcher'[f].slot} \ {NoSlot}
  BY Places, PlacesNext DEF PlaceTable, NoSlot
<1>4. \A q \in {"slotQ", "rawQ", "writeQ"} : <<"queue", q>> # me
  OBVIOUS
<1>5. ASSUME NEW w, fetcher' = [fetcher EXCEPT ![f] = w], w.slot \in {fetcher[f].slot, NoSlot},
             UNCHANGED <<todo, queues, analyser, pending>>
      PROVE  HeldStep
  <2>1. DistinctQueues' /\ Keeps(Nowhere)
    BY <1>1, <1>2, <1>5 DEF DistinctQueues, Keeps
  <2>. QED
    BY <2>1, Dropped
<1>6. CASE FetcherRecv(f)
  <2>. DEFINE s == Head(slotQ)
  <2>1. /\ s \in Elems(slotQ) /\ s \in Slots /\ Elems(slotQ)' \subseteq Elems(slotQ)
        /\ Distinct(slotQ)' /\ s \notin Elems(slotQ)'
    BY <1>1, <1>2, <1>6, SlotReceived DEF FetcherRecv, DistinctQueues
  <2>2. fetcher'[f].slot = s /\ \A g \in Fetchers \ {f} : fetcher'[g] = fetcher[g]
    BY <1>2, <1>6 DEF FetcherRecv, WorkerState
  <2>3. DistinctQueues' /\ Keeps(me)
    BY <1>1, <1>6, <2>1, <2>2 DEF FetcherRecv, DistinctQueues, Keeps
  <2>4. Held(me)' \subseteq Held(me) \cup {s}
    BY <1>3, <2>2
  <2>. QED
    BY <1>3, <1>4, <2>1, <2>3, <2>4, Moved
<1>7. CASE FetcherStops(f)
  BY <1>5, <1>7 DEF FetcherStops, Goto
<1>8. CASE FetchedBlock(f)
  <2>1. PICK w : w = [fetcher[f] EXCEPT !.pc = "sendRaw"]
    OBVIOUS
  <2>2. fetcher' = [fetcher EXCEPT ![f] = w] /\ w.slot = fetcher[f].slot
    BY <1>2, <1>8, <2>1 DEF FetchedBlock, WorkerState
  <2>. QED
    BY <1>5, <1>8, <2>2 DEF FetchedBlock
<1>9. ASSUME NEW st, FetchedNoBlock(f, st)
      PROVE  HeldStep
  <2>1. PICK w : w = Sending(fetcher[f], st)
    OBVIOUS
  <2>2. fetcher' = [fetcher EXCEPT ![f] = w] /\ w.slot = fetcher[f].slot
    BY <1>2, <1>9, <2>1 DEF FetchedNoBlock, Sending, WorkerState
  <2>. QED
    BY <1>5, <1>9, <2>2 DEF FetchedNoBlock
<1>10. ASSUME At(fetcher[f], "sendRaw") \/ At(fetcher[f], "sendWrite")
       PROVE  fetcher[f].slot \in Slots /\ fetcher[f].slot \in Held(me)
  BY <1>2, <1>3, <1>10 DEF WorkerState, Consistent
<1>11. ASSUME fetcher' = [fetcher EXCEPT ![f] = Goto("recv")]
       PROVE  /\ Held(me)' = {}
              /\ \A g \in Fetchers : fetcher'[g].slot \in {fetcher[g].slot, NoSlot}
  BY <1>2, <1>3, <1>11 DEF Goto
<1>12. CASE SendRaw(f)
  <2>. DEFINE s == fetcher[f].slot
  <2>1. s \in Slots /\ s \in Held(me) /\ s \notin Elems(rawQ)
    BY <1>3, <1>4, <1>10, <1>12, NotElsewhere DEF SendRaw
  <2>2. Elems(rawQ)' = Elems(rawQ) \cup {s} /\ Distinct(rawQ)'
    BY <1>1, <1>2, <1>12, <2>1, SlotSent DEF SendRaw, DistinctQueues
  <2>3. Held(me)' = {} /\ DistinctQueues' /\ Keeps(<<"queue", "rawQ">>)
    BY <1>1, <1>11, <1>12, <2>2 DEF SendRaw, DistinctQueues, Keeps
  <2>. QED
    BY <1>3, <1>4, <2>1, <2>2, <2>3, Moved
<1>13. CASE FetcherSends(f)
  <2>. DEFINE s == fetcher[f].slot
  <2>1. s \in Slots /\ s \in Held(me) /\ s \notin BlocksIn(writeQ)
    BY <1>3, <1>4, <1>10, <1>13, NotElsewhere DEF FetcherSends, CanSendBlock
  <2>2. Block(s, fetcher[f].status) \in BlockMsg
    BY <1>2, <1>13, <2>1 DEF FetcherSends, CanSendBlock, Consistent, Block, BlockMsg
  <2>3. Block(s, fetcher[f].status).slot = s
    BY DEF Block
  <2>4. BlocksIn(writeQ)' \subseteq BlocksIn(writeQ) \cup {s} /\ DistinctBlocks(writeQ)'
    BY <1>1, <1>2, <1>13, <2>1, <2>2, <2>3, MessageSent DEF FetcherSends, DistinctQueues
  <2>5. Held(me)' = {} /\ DistinctQueues' /\ Keeps(<<"queue", "writeQ">>)
    BY <1>1, <1>11, <1>13, <2>4 DEF FetcherSends, DistinctQueues, Keeps
  <2>. QED
    BY <1>3, <1>4, <2>1, <2>4, <2>5, Moved
<1>14. CASE FetcherGivesUp(f)
  BY <1>5, <1>14 DEF FetcherGivesUp, Goto
<1>. QED
  BY <1>6, <1>7, <1>8, <1>9, <1>12, <1>13, <1>14 DEF FetcherStep

LEMMA HeldAnalyser ==
  ASSUME Shape, SlotHeldOnce, NEW a \in Analysers, AnalyserStep(a)
  PROVE  HeldStep
<1>. USE DEF persistent, queues, workers, thread, bounds, At
<1>. DEFINE me == <<"analyser", a>>
<1>1. DistinctQueues
  BY HeldOnceParts
<1>2. /\ analyser \in [Analysers -> WorkerState] /\ Consistent(analyser[a])
      /\ analyser[a] \in WorkerState /\ rawQ \in Seq(Slots)
      /\ writeQ \in Seq(BlockMsg \cup ControlMsg)
  BY DEF Shape, TypeOK, WorkersConsistent
<1>3. /\ <<"queue", "rawQ">> \in Place /\ Held(<<"queue", "rawQ">>) = Elems(rawQ)
      /\ Held(<<"queue", "rawQ">>)' = Elems(rawQ)'
      /\ <<"queue", "writeQ">> \in Place /\ Held(<<"queue", "writeQ">>) = BlocksIn(writeQ)
      /\ Held(<<"queue", "writeQ">>)' = BlocksIn(writeQ)'
      /\ me \in Place /\ Held(me) = {analyser[a].slot} \ {NoSlot}
      /\ Held(me)' = {analyser'[a].slot} \ {NoSlot}
  BY Places, PlacesNext DEF PlaceTable, NoSlot
<1>4. \A q \in {"rawQ", "writeQ"} : <<"queue", q>> # me
  OBVIOUS
<1>5. ASSUME NEW w, analyser' = [analyser EXCEPT ![a] = w],
             w.slot \in {analyser[a].slot, NoSlot},
             UNCHANGED <<todo, queues, fetcher, pending>>
      PROVE  HeldStep
  <2>1. DistinctQueues' /\ Keeps(Nowhere)
    BY <1>1, <1>2, <1>5 DEF DistinctQueues, Keeps
  <2>. QED
    BY <2>1, Dropped
<1>6. CASE AnalyserRecv(a)
  <2>. DEFINE s == Head(rawQ)
  <2>1. /\ s \in Elems(rawQ) /\ s \in Slots /\ Elems(rawQ)' \subseteq Elems(rawQ)
        /\ Distinct(rawQ)' /\ s \notin Elems(rawQ)'
    BY <1>1, <1>2, <1>6, SlotReceived DEF AnalyserRecv, DistinctQueues
  <2>2. analyser'[a].slot = s /\ \A b \in Analysers \ {a} : analyser'[b] = analyser[b]
    BY <1>2, <1>6 DEF AnalyserRecv, WorkerState
  <2>3. DistinctQueues' /\ Keeps(me)
    BY <1>1, <1>6, <2>1, <2>2 DEF AnalyserRecv, DistinctQueues, Keeps
  <2>4. Held(me)' \subseteq Held(me) \cup {s}
    BY <1>3, <2>2
  <2>. QED
    BY <1>3, <1>4, <2>1, <2>3, <2>4, Moved
<1>7. CASE AnalyserStops(a)
  BY <1>5, <1>7 DEF AnalyserStops, Goto
<1>8. CASE Analysed(a)
  <2>1. PICK w : w = Sending(analyser[a], "done")
    OBVIOUS
  <2>2. analyser' = [analyser EXCEPT ![a] = w] /\ w.slot = analyser[a].slot
    BY <1>2, <1>8, <2>1 DEF Analysed, Sending, WorkerState
  <2>. QED
    BY <1>5, <1>8, <2>2 DEF Analysed
<1>9. CASE AnalysisPanics(a)
  BY <1>5, <1>9 DEF AnalysisPanics, Goto
<1>10. CASE AnalyserSends(a)
  <2>. DEFINE s == analyser[a].slot
  <2>1. s \in Slots /\ s \in Held(me)
    BY <1>2, <1>3, <1>10 DEF AnalyserSends, CanSendBlock, WorkerState, Consistent
  <2>2. s \notin BlocksIn(writeQ)
    BY <1>3, <1>4, <2>1, NotElsewhere
  <2>3. Block(s, analyser[a].status) \in BlockMsg
    BY <1>2, <1>10, <2>1 DEF AnalyserSends, CanSendBlock, Consistent, Block, BlockMsg
  <2>4. Block(s, analyser[a].status).slot = s
    BY DEF Block
  <2>5. BlocksIn(writeQ)' \subseteq BlocksIn(writeQ) \cup {s} /\ DistinctBlocks(writeQ)'
    BY <1>1, <1>2, <1>10, <2>2, <2>3, <2>4, MessageSent DEF AnalyserSends, DistinctQueues
  <2>6. /\ Held(me)' = {}
        /\ \A b \in Analysers : analyser'[b].slot \in {analyser[b].slot, NoSlot}
    BY <1>2, <1>3, <1>10 DEF AnalyserSends, Goto
  <2>7. DistinctQueues' /\ Keeps(<<"queue", "writeQ">>)
    BY <1>1, <1>10, <2>5, <2>6 DEF AnalyserSends, DistinctQueues, Keeps
  <2>. QED
    BY <1>3, <1>4, <2>1, <2>5, <2>6, <2>7, Moved
<1>11. CASE AnalyserGivesUp(a)
  BY <1>5, <1>11 DEF AnalyserGivesUp, Goto
<1>12. CASE AnalyserLeaves(a)
  <2>1. PICK w : w = [analyser[a] EXCEPT !.pc = "analyse"]
    OBVIOUS
  <2>2. analyser' = [analyser EXCEPT ![a] = w] /\ w.slot = analyser[a].slot
    BY <1>2, <1>12, <2>1 DEF AnalyserLeaves, WorkerState
  <2>. QED
    BY <1>5, <1>12, <2>2 DEF AnalyserLeaves
<1>. QED
  BY <1>6, <1>7, <1>8, <1>9, <1>10, <1>11, <1>12 DEF AnalyserStep
LEMMA HeldWriter ==
  ASSUME Shape, SlotHeldOnce, WriterStep
  PROVE  HeldStep
<1>. USE DEF persistent, queues, workers, thread, bounds
<1>. DEFINE wq == <<"queue", "writeQ">>
            pd == <<"queue", "pending">>
<1>1. DistinctQueues
  BY HeldOnceParts
<1>2. /\ writeQ \in Seq(BlockMsg \cup ControlMsg) /\ pending \in Seq(BlockMsg)
      /\ fetcher \in [Fetchers -> WorkerState]
  BY DEF Shape, TypeOK
<1>3. /\ wq \in Place /\ Held(wq) = BlocksIn(writeQ) /\ Held(wq)' = BlocksIn(writeQ)'
      /\ pd \in Place /\ Held(pd) = BlocksIn(pending) /\ Held(pd)' = BlocksIn(pending)'
      /\ wq # pd
  BY Places, PlacesNext DEF PlaceTable
<1>4. ASSUME writeQ # <<>>, writeQ' = Tail(writeQ), IsBlock(Head(writeQ)),
             pending' = Append(pending, Head(writeQ)),
             UNCHANGED <<todo, slotQ, rawQ, workers>>
      PROVE  HeldStep
  <2>. DEFINE msg == Head(writeQ)
              s == msg.slot
  <2>1. /\ msg \in BlockMsg \cup ControlMsg /\ BlocksIn(writeQ)' \subseteq BlocksIn(writeQ)
        /\ s # NoSlot => s \in BlocksIn(writeQ)
        /\ DistinctBlocks(writeQ)' /\ s \notin BlocksIn(writeQ)'
    BY <1>1, <1>2, <1>4, MessageReceived DEF DistinctQueues
  <2>2. \A c \in ControlMsg : ~IsBlock(c)
    BY DEF ControlMsg, Control, IsBlock
  <2>3. msg \in BlockMsg /\ s \in Slots
    BY <1>4, <2>1, <2>2 DEF BlockMsg
  <2>4. s # NoSlot
    BY <2>3, SlotsAssumption DEF NoSlot
  <2>5. s \in Held(wq) /\ s \notin BlocksIn(pending)
    BY <1>3, <2>1, <2>4, NotElsewhere
  <2>6. BlocksIn(pending)' \subseteq BlocksIn(pending) \cup {s} /\ DistinctBlocks(pending)'
    BY <1>1, <1>2, <1>4, <2>3, <2>5, MessageSent DEF DistinctQueues
  <2>7. DistinctQueues' /\ Keeps(pd)
    BY <1>1, <1>4, <2>1, <2>6 DEF DistinctQueues, Keeps
  <2>. QED
    BY <1>3, <2>1, <2>5, <2>6, <2>7, Moved
<1>5. ASSUME writeQ # <<>>, writeQ' = Tail(writeQ),
             UNCHANGED <<todo, slotQ, rawQ, workers, pending>>
      PROVE  HeldStep
  <2>1. BlocksIn(writeQ)' \subseteq BlocksIn(writeQ) /\ DistinctBlocks(writeQ)'
    BY <1>1, <1>2, <1>5, MessageReceived DEF DistinctQueues
  <2>2. DistinctQueues' /\ Keeps(Nowhere)
    BY <1>1, <1>5, <2>1 DEF DistinctQueues, Keeps
  <2>. QED
    BY <2>2, Dropped
<1>6. CASE WriterRecv
  BY <1>4, <1>5, <1>6 DEF WriterRecv
<1>7. CASE WriterTakesMore
  BY <1>4, <1>5, <1>7 DEF WriterTakesMore
<1>8. ASSUME \/ pending' = <<>> /\ writeQ' = <<>>
             \/ pending' = <<>> /\ UNCHANGED writeQ
             \/ UNCHANGED pending /\ writeQ' = <<>>
             \/ UNCHANGED <<pending, writeQ>>,
             UNCHANGED <<todo, slotQ, rawQ, workers>>
      PROVE  HeldStep
  <2>1. DistinctQueues'
    BY <1>1, <1>8 DEF DistinctQueues, DistinctBlocks
  <2>2. Keeps(Nowhere)
    BY <1>8 DEF Keeps, BlocksIn
  <2>. QED
    BY <2>1, <2>2, Dropped
<1>9. CASE WriterEndsBatch \/ Commit \/ CommitFails \/ WriterPauses \/ WriterResumes
             \/ RebuildCandles \/ WriterStops \/ WriterLeaves
  BY <1>8, <1>9 DEF WriterEndsBatch, Commit, CommitFails, WriterPauses, WriterResumes,
                    RebuildCandles, WriterStops, WriterLeaves
<1>. QED
  BY <1>6, <1>7, <1>9 DEF WriterStep

\* Only the selection of a range puts slots in flight, and nothing else is
\* when it does.
LEMMA HeldSelect ==
  ASSUME Shape, SlotHeldOnce, Quiet, SelectRange
  PROVE  SlotHeldOnce' /\ InFlight' \subseteq todo'
<1>. USE DEF persistent, queues, workers, thread, bounds
<1>. DEFINE td == <<"queue", "todo">>
<1>1. InFlight = {} /\ DistinctQueues
  BY HeldOnceParts DEF Quiet, SelectRange
<1>2. DistinctQueues' /\ Keeps(td)
  BY <1>1 DEF SelectRange, DistinctQueues, Keeps, SpawnedWorker, Idle
<1>3. \A p \in Place : Held(p) = {}
  BY <1>1 DEF InFlight
<1>4. \A p \in Place \ {td} : Held(p)' = {}
  BY <1>2, <1>3, KeepsPlaces
<1>5. Held(td)' = todo'
  BY PlacesNext DEF PlaceTable
<1>6. Place' = Place
  BY DEF Place
<1>7. Exclusive'
  BY <1>4, <1>6 DEF Exclusive
<1>8. InFlight' \subseteq todo'
  BY <1>4, <1>5, <1>6 DEF InFlight
<1>. QED
  BY <1>2, <1>7, <1>8, HeldOncePartsNext

LEMMA HeldNext ==
  ASSUME Shape, SlotHeldOnce, [Next]_vars, ~SelectRange
  PROVE  HeldStep
<1>1. CASE Terminated
  BY <1>1, HeldMain DEF Terminated
<1>. QED
  BY <1>1, HeldMain, HeldFetcher, HeldAnalyser, HeldWriter DEF Next

-----------------------------------------------------------------------------
(* The inductive invariant                                                 *)

\* Only a commit writes rows, and only those of the batch it commits.
LEMMA RowsWritten ==
  ASSUME Shape, SlotHeldOnce, [Next]_vars
  PROVE  \/ UNCHANGED db
         \/ /\ Commit
            /\ db' \in [Slots -> Outcome \cup {"none"}]
            /\ \A s \in Slots : IF s \in BlocksIn(pending) THEN db'[s] \in Outcome
                                                          ELSE db'[s] = db[s]
<1>1. CASE Commit
  <2>1. db \in [Slots -> Outcome \cup {"none"}] /\ pending \in Seq(BlockMsg)
    BY DEF Shape, TypeOK
  <2>2. DistinctBlocks(pending)
    BY DEF SlotHeldOnce
  <2>. QED
    BY <1>1, <2>1, <2>2, AppliedRows DEF Commit
<1>2. CASE ~Commit
  <2>. USE DEF persistent
  <2>1. CASE MainStep
    BY <2>1 DEF MainStep, SelectRange, Feed, CloseSlots, FinishRun, SendRebuild,
                RebuildReturns, SendShutdown, Exit, ProcessEnds
  <2>2. CASE \E f \in Fetchers : FetcherStep(f)
    BY <2>2 DEF FetcherStep, FetcherRecv, FetcherStops, FetchedBlock, FetchedNoBlock,
                SendRaw, FetcherSends, FetcherGivesUp
  <2>3. CASE \E a \in Analysers : AnalyserStep(a)
    BY <2>3 DEF AnalyserStep, AnalyserRecv, AnalyserLeaves, AnalyserStops, Analysed, AnalysisPanics,
                AnalyserSends, AnalyserGivesUp
  <2>4. CASE WriterStep
    BY <1>2, <2>4 DEF WriterStep, WriterRecv, WriterLeaves, WriterTakesMore, WriterEndsBatch, CommitFails,
                WriterPauses, WriterResumes, RebuildCandles, WriterStops
  <2>5. CASE EnvironmentStep
    BY <2>5 DEF EnvironmentStep, Start, StartServeOnly, RunFails, Crash, CtrlC, ApiPause,
                ProcessEnds
  <2>6. CASE UNCHANGED vars
    BY <2>6 DEF vars
  <2>. QED
    BY <2>1, <2>2, <2>3, <2>4, <2>5, <2>6 DEF Next, Terminated
<1>. QED
  BY <1>1, <1>2

\* What is in flight is a slot.
LEMMA FlightSlots ==
  ASSUME Shape
  PROVE  InFlight \subseteq Slots
<1>1. /\ todo \subseteq Slots /\ slotQ \in Seq(Slots) /\ rawQ \in Seq(Slots)
      /\ writeQ \in Seq(BlockMsg \cup ControlMsg) /\ pending \in Seq(BlockMsg)
      /\ fetcher \in [Fetchers -> WorkerState] /\ analyser \in [Analysers -> WorkerState]
  BY DEF Shape, TypeOK
<1>2. Elems(slotQ) \subseteq Slots /\ Elems(rawQ) \subseteq Slots
  BY <1>1 DEF Elems
<1>3. \A msg \in BlockMsg \cup ControlMsg : msg.slot \in Slots \cup {NoSlot}
  BY DEF BlockMsg, ControlMsg, Control
<1>4. BlocksIn(writeQ) \subseteq Slots /\ BlocksIn(pending) \subseteq Slots
  BY <1>1, <1>3 DEF BlocksIn
<1>5. /\ \A f \in Fetchers : fetcher[f].slot \in Slots \cup {NoSlot}
      /\ \A a \in Analysers : analyser[a].slot \in Slots \cup {NoSlot}
  BY <1>1 DEF WorkerState
<1>6. ASSUME NEW p \in Place
      PROVE  Held(p) \subseteq Slots
  <2>1. CASE p \in {<<"queue", q>> : q \in {"todo", "slotQ", "rawQ", "writeQ", "pending"}}
    <3>1. /\ Held(<<"queue", "todo">>) \subseteq Slots
          /\ Held(<<"queue", "slotQ">>) \subseteq Slots
          /\ Held(<<"queue", "rawQ">>) \subseteq Slots
          /\ Held(<<"queue", "writeQ">>) \subseteq Slots
          /\ Held(<<"queue", "pending">>) \subseteq Slots
      BY <1>1, <1>2, <1>4, Places DEF PlaceTable
    <3>. QED
      BY <2>1, <3>1
  <2>2. CASE p \in {<<"fetcher", f>> : f \in Fetchers}
    BY <1>5, <2>2, Places DEF PlaceTable
  <2>3. CASE p \in {<<"analyser", a>> : a \in Analysers}
    BY <1>5, <2>3, Places DEF PlaceTable
  <2>. QED
    BY <2>1, <2>2, <2>3 DEF Place
<1>. QED
  BY <1>6 DEF InFlight

\* Slots that are stored and slots that are in flight stay apart.
LEMMA NotCompletedNext ==
  ASSUME Shape, SlotHeldOnce, InFlightNotCompleted, [Next]_vars,
         InFlight' \subseteq InFlight \/ (SelectRange /\ InFlight' \subseteq todo')
  PROVE  InFlightNotCompleted'
<1>1. CASE Commit
  <2>1. /\ \A s \in Slots : s \notin BlocksIn(pending) => db'[s] = db[s]
        /\ InFlight' \subseteq InFlight
    BY <1>1, RowsWritten DEF Commit, SelectRange
  <2>2. /\ <<"queue", "pending">> \in Place
        /\ Held(<<"queue", "pending">>) = BlocksIn(pending)
        /\ Held(<<"queue", "pending">>)' = BlocksIn(pending')
    BY Places, PlacesNext DEF PlaceTable
  <2>3. BlocksIn(pending') = {}
    BY <1>1 DEF Commit, BlocksIn
  <2>4. ASSUME NEW s \in InFlight'
        PROVE  s \notin BlocksIn(pending)
    <3>1. PICK p \in Place : s \in Held(p)'
      BY <2>4 DEF InFlight, Place
    <3>2. p # <<"queue", "pending">>
      BY <2>2, <2>3, <3>1
    <3>3. Keeps(Nowhere)
      BY <1>1 DEF Commit, Keeps, BlocksIn, queues, workers
    <3>4. s \in Held(p)
      <4>1. p # Nowhere
        BY <3>1 DEF Place, Nowhere
      <4>. QED
        BY <3>1, <3>3, <4>1, KeepsPlaces
    <3>. QED
      BY <2>2, <3>2, <3>4, NotElsewhere
  <2>5. ASSUME NEW s \in InFlight'
        PROVE  db'[s] \notin CompletedStatuses
    <3>1. s \in Slots /\ s \in InFlight
      BY <2>1, <2>5, FlightSlots
    <3>. QED
      BY <2>1, <2>4, <2>5, <3>1 DEF InFlightNotCompleted
  <2>. QED
    BY <2>5 DEF InFlightNotCompleted, CompletedStatuses
<1>2. CASE SelectRange /\ InFlight' \subseteq todo'
  BY <1>2 DEF SelectRange, Completed, InFlightNotCompleted, persistent, CompletedStatuses,
              Shape, TypeOK
<1>3. CASE ~Commit /\ InFlight' \subseteq InFlight
  BY <1>3, RowsWritten DEF InFlightNotCompleted, CompletedStatuses
<1>. QED
  BY <1>1, <1>2, <1>3 DEF Commit, SelectRange
LEMMA QuietNext ==
  ASSUME Shape, SlotHeldOnce, Quiet, [Next]_vars
  PROVE  Quiet'
<1>1. CASE ProcessEnds
  <2>1. \A p \in Place : Held(p)' = {}
    <3>1. /\ todo' = {} /\ Elems(slotQ)' = {} /\ Elems(rawQ)' = {}
          /\ BlocksIn(writeQ)' = {} /\ BlocksIn(pending)' = {}
      BY <1>1 DEF ProcessEnds, Elems, BlocksIn
    <3>2. /\ \A f \in Fetchers : fetcher'[f].slot = NoSlot
          /\ \A a \in Analysers : analyser'[a].slot = NoSlot
      BY <1>1 DEF ProcessEnds, NoWorker, Idle
    <3>3. ASSUME NEW p \in Place
          PROVE  Held(p)' = {}
      <4>1. CASE p \in {<<"queue", q>> :
                          q \in {"todo", "slotQ", "rawQ", "writeQ", "pending"}}
        BY <3>1, <4>1, PlacesNext DEF PlaceTable
      <4>2. CASE p \in {<<"fetcher", f>> : f \in Fetchers}
        BY <3>2, <4>2, PlacesNext DEF PlaceTable, NoSlot
      <4>3. CASE p \in {<<"analyser", a>> : a \in Analysers}
        BY <3>2, <4>3, PlacesNext DEF PlaceTable, NoSlot
      <4>. QED
        BY <4>1, <4>2, <4>3 DEF Place
    <3>. QED
      BY <3>3
  <2>. QED
    BY <2>1 DEF Quiet, InFlight, Place
<1>2. CASE ~ProcessEnds
  <2>1. main' \in {"down", "resolve"} => main \in {"down", "resolve"} /\ ~SelectRange
    <3>1. CASE MainStep
      BY <1>2, <3>1 DEF MainStep, SelectRange, Feed, CloseSlots, FinishRun, SendRebuild,
                        RebuildReturns, SendShutdown, Exit, AfterIngest
    <3>2. CASE \E f \in Fetchers : FetcherStep(f)
      BY <3>2 DEF FetcherStep, FetcherRecv, FetcherStops, FetchedBlock, FetchedNoBlock,
                  SendRaw, FetcherSends, FetcherGivesUp, SelectRange
    <3>3. CASE \E a \in Analysers : AnalyserStep(a)
      BY <3>3 DEF AnalyserStep, AnalyserRecv, AnalyserLeaves, AnalyserStops, Analysed, AnalysisPanics,
                  AnalyserSends, AnalyserGivesUp, SelectRange
    <3>4. CASE WriterStep
      BY <3>4 DEF WriterStep, WriterRecv, WriterLeaves, WriterTakesMore, WriterEndsBatch, Commit,
                  CommitFails, WriterPauses, WriterResumes, RebuildCandles, WriterStops,
                  SelectRange
    <3>5. CASE EnvironmentStep
      BY <1>2, <3>5 DEF EnvironmentStep, Start, StartServeOnly, RunFails, Crash, CtrlC,
                        ApiPause, AfterIngest, SelectRange
    <3>6. CASE UNCHANGED vars
      BY <3>6 DEF vars, SelectRange
    <3>. QED
      BY <3>1, <3>2, <3>3, <3>4, <3>5, <3>6 DEF Next, Terminated
  <2>. QED
    BY <2>1, HeldNext DEF Quiet, HeldStep
<1>. QED
  BY <1>1, <1>2

LEMMA InvInit == Init => IInv
<1>. SUFFICES ASSUME Init PROVE IInv
  OBVIOUS
<1>1. Shape
  BY ShapeInit
<1>2. /\ todo = {} /\ Elems(slotQ) = {} /\ Elems(rawQ) = {}
      /\ BlocksIn(writeQ) = {} /\ BlocksIn(pending) = {}
  BY DEF Init, Elems, BlocksIn
<1>3. /\ \A f \in Fetchers : fetcher[f].slot = NoSlot
      /\ \A a \in Analysers : analyser[a].slot = NoSlot
  BY DEF Init, NoWorker, Idle
<1>4. ASSUME NEW p \in Place
      PROVE  Held(p) = {}
  <2>1. CASE p \in {<<"queue", q>> : q \in {"todo", "slotQ", "rawQ", "writeQ", "pending"}}
    BY <1>2, <2>1, Places DEF PlaceTable
  <2>2. CASE p \in {<<"fetcher", f>> : f \in Fetchers}
    BY <1>3, <2>2, Places DEF PlaceTable
  <2>3. CASE p \in {<<"analyser", a>> : a \in Analysers}
    BY <1>3, <2>3, Places DEF PlaceTable
  <2>. QED
    BY <2>1, <2>2, <2>3 DEF Place
<1>5. InFlight = {} /\ Exclusive
  BY <1>4 DEF InFlight, Exclusive
<1>6. DistinctQueues
  BY DEF Init, DistinctQueues, Distinct, DistinctBlocks
<1>. QED
  BY <1>1, <1>5, <1>6, HeldOnceParts DEF IInv, Shape, InFlightNotCompleted, Quiet

LEMMA InvNext == IInv /\ [Next]_vars => IInv'
<1>. SUFFICES ASSUME IInv, [Next]_vars PROVE IInv'
  OBVIOUS
<1>1. Shape /\ SlotHeldOnce /\ Quiet /\ InFlightNotCompleted
  BY DEF IInv, Shape
<1>2. Shape'
  BY <1>1, ShapeNext DEF SlotHeldOnce
<1>3. /\ SlotHeldOnce'
      /\ InFlight' \subseteq InFlight \/ (SelectRange /\ InFlight' \subseteq todo')
  <2>1. CASE SelectRange
    BY <1>1, <2>1, HeldSelect
  <2>2. CASE ~SelectRange
    BY <1>1, <2>2, HeldNext DEF HeldStep
  <2>. QED
    BY <2>1, <2>2
<1>4. InFlightNotCompleted'
  BY <1>1, <1>3, NotCompletedNext
<1>5. Quiet'
  BY <1>1, QuietNext
<1>. QED
  BY <1>2, <1>3, <1>4, <1>5 DEF IInv, Shape

\* The pipeline keeps every variable in its range and every channel within its
\* capacity, in every interleaving and across every crash.
THEOREM TypeCorrect == Spec => []TypeOK
<1>1. IInv => TypeOK
  BY DEF IInv
<1>. QED
  BY <1>1, InvInit, InvNext, PTL DEF Spec

\* From the feeder to the commit, a slot is in one place only.
THEOREM HeldOnce == Spec => []SlotHeldOnce
<1>1. IInv => SlotHeldOnce
  BY DEF IInv
<1>. QED
  BY <1>1, InvInit, InvNext, PTL DEF Spec

\* A slot stored as done or skipped is never in flight again.
THEOREM NotInFlightTwice == Spec => []InFlightNotCompleted
<1>1. IInv => InFlightNotCompleted
  BY DEF IInv
<1>. QED
  BY <1>1, InvInit, InvNext, PTL DEF Spec
-----------------------------------------------------------------------------
(* The pipeline implements the ledger                                      *)

\* Only a successful rebuild replaces the candles.
LEMMA CandlesReplaced ==
  ASSUME [Next]_vars
  PROVE  UNCHANGED candles \/ (candles' = DoneSlots /\ UNCHANGED db)
<1>. USE DEF persistent
<1>1. CASE MainStep
  BY <1>1 DEF MainStep, SelectRange, Feed, CloseSlots, FinishRun, SendRebuild,
              RebuildReturns, SendShutdown, Exit, ProcessEnds
<1>2. CASE \E f \in Fetchers : FetcherStep(f)
  BY <1>2 DEF FetcherStep, FetcherRecv, FetcherStops, FetchedBlock, FetchedNoBlock,
              SendRaw, FetcherSends, FetcherGivesUp
<1>3. CASE \E a \in Analysers : AnalyserStep(a)
  BY <1>3 DEF AnalyserStep, AnalyserRecv, AnalyserLeaves, AnalyserStops, Analysed, AnalysisPanics,
              AnalyserSends, AnalyserGivesUp
<1>4. CASE WriterStep
  BY <1>4 DEF WriterStep, WriterRecv, WriterLeaves, WriterTakesMore, WriterEndsBatch, Commit,
              CommitFails, WriterPauses, WriterResumes, RebuildCandles, WriterStops
<1>5. CASE EnvironmentStep
  BY <1>5 DEF EnvironmentStep, Start, StartServeOnly, RunFails, Crash, CtrlC, ApiPause,
              ProcessEnds
<1>6. CASE UNCHANGED vars
  BY <1>6 DEF vars
<1>. QED
  BY <1>1, <1>2, <1>3, <1>4, <1>5, <1>6 DEF Next, Terminated

LEMMA LedgerInit == Init => Ledger!Init
  BY DEF Init, Ledger!Init

LEMMA LedgerStep == IInv /\ [Next]_vars => [Ledger!Next]_(Ledger!vars)
<1>. SUFFICES ASSUME IInv, [Next]_vars
              PROVE  [Ledger!Next]_(Ledger!vars)
  OBVIOUS
<1>. USE DEF Ledger!vars
<1>1. Shape /\ SlotHeldOnce /\ InFlightNotCompleted
  BY DEF IInv, Shape
<1>2. CASE UNCHANGED db
  BY <1>2, CandlesReplaced DEF Ledger!Next, Ledger!Rebuild, DoneSlots
<1>3. CASE ~UNCHANGED db
  <2>1. /\ Commit
        /\ db' \in [Slots -> Outcome \cup {"none"}]
        /\ \A s \in Slots : IF s \in BlocksIn(pending) THEN db'[s] \in Outcome
                                                      ELSE db'[s] = db[s]
    BY <1>1, <1>3, RowsWritten
  <2>2. UNCHANGED candles
    BY <2>1 DEF Commit
  <2>3. BlocksIn(pending) \subseteq InFlight
    BY Places DEF PlaceTable, InFlight
  <2>4. ASSUME NEW s \in Slots, db'[s] # db[s]
        PROVE  db[s] \notin CompletedStatuses /\ db'[s] \in Outcome
    BY <1>1, <2>1, <2>3, <2>4 DEF InFlightNotCompleted
  <2>5. Ledger!Record
    BY <2>1, <2>2, <2>4 DEF Ledger!Record, Ledger!Status, Ledger!Outcome, Ledger!Settled,
                            CompletedStatuses, Outcome
  <2>. QED
    BY <2>5 DEF Ledger!Next
<1>. QED
  BY <1>2, <1>3

\* Every behaviour of the pipeline is one of the ledger: no interleaving, crash,
\* restart or failing write ever rewrites a row that is done or skipped, and
\* candles are only replaced as a whole, from the slots stored as done.
THEOREM ImplementsLedger == Spec => LedgerSpec
<1>1. IInv /\ [Next]_vars => [Ledger!Next]_(Ledger!vars)
  BY LedgerStep
<1>. QED
  BY <1>1, InvInit, InvNext, LedgerInit, PTL DEF Spec, LedgerSpec, Ledger!Spec

-----------------------------------------------------------------------------
(* Counting                                                                *)

\* What one worker adds to the number of those at some places, and one message
\* to the number of queued blocks.
Share(w, pcs) == IF w.pc \in pcs THEN 1 ELSE 0
Weight(msg)   == IF IsBlock(msg) THEN 1 ELSE 0

\* The positions of the blocks in a queue of messages.
BlockPlaces(q) == {i \in DOMAIN q : IsBlock(q[i])}

\* One worker goes elsewhere: the others are counted as before.
LEMMA BusyMoves ==
  ASSUME NEW W, IsFiniteSet(W), NEW ws, DOMAIN ws = W, NEW next, DOMAIN next = W,
         NEW w \in W, \A u \in W \ {w} : next[u] = ws[u], NEW pcs
  PROVE  Busy(next, pcs) = Busy(ws, pcs) - Share(ws[w], pcs) + Share(next[w], pcs)
<1>. DEFINE A == WorkersAt(ws, pcs)
            B == WorkersAt(next, pcs)
<1>1. /\ A \subseteq W /\ B \subseteq W
      /\ w \in A <=> ws[w].pc \in pcs
      /\ w \in B <=> next[w].pc \in pcs
      /\ A \ {w} = B \ {w}
  BY DEF WorkersAt
<1>2. IsFiniteSet(A) /\ IsFiniteSet(B)
  BY <1>1, FS_Subset
<1>3. Cardinality(A) \in Nat /\ Cardinality(B) \in Nat
  BY <1>2, FS_CardinalityType
<1>. HIDE DEF A, B
<1>4. /\ Cardinality(A \ {w}) = Cardinality(A) - Share(ws[w], pcs)
      /\ Cardinality(B \ {w}) = Cardinality(B) - Share(next[w], pcs)
  <2>1. /\ Cardinality(A \ {w}) = IF w \in A THEN Cardinality(A) - 1 ELSE Cardinality(A)
        /\ Cardinality(B \ {w}) = IF w \in B THEN Cardinality(B) - 1 ELSE Cardinality(B)
    BY <1>2, FS_RemoveElement
  <2>. QED
    BY <1>1, <1>3, <2>1 DEF Share
<1>5. Share(ws[w], pcs) \in {0, 1} /\ Share(next[w], pcs) \in {0, 1}
  BY DEF Share
<1>6. Cardinality(B) = Cardinality(A) - Share(ws[w], pcs) + Share(next[w], pcs)
  <2>1. Cardinality(A) - Share(ws[w], pcs) = Cardinality(B) - Share(next[w], pcs)
    BY <1>1, <1>4
  <2>. HIDE DEF Share
  <2>. QED
    BY <1>3, <1>5, <2>1
<1>. QED
  BY <1>3, <1>6 DEF Busy, A, B

\* Nobody is at a place.
LEMMA BusyNone ==
  ASSUME NEW ws, NEW pcs, \A w \in DOMAIN ws : ws[w].pc \notin pcs
  PROVE  Busy(ws, pcs) = 0
<1>1. WorkersAt(ws, pcs) = {}
  BY DEF WorkersAt
<1>. QED
  BY <1>1, FS_EmptySet DEF Busy

LEMMA BlocksFinite ==
  ASSUME NEW S, NEW q \in Seq(S)
  PROVE  IsFiniteSet(BlockPlaces(q)) /\ Cardinality(BlockPlaces(q)) \in Nat
<1>1. IsFiniteSet(1 .. Len(q)) /\ BlockPlaces(q) \subseteq 1 .. Len(q)
  BY FS_Interval DEF BlockPlaces
<1>. QED
  BY <1>1, FS_Subset, FS_CardinalityType

\* Sending a message and receiving one change the number of blocks by what the
\* message weighs.
LEMMA BlocksSent ==
  ASSUME NEW S, NEW q \in Seq(S), NEW x \in S
  PROVE  Cardinality(BlockPlaces(Append(q, x))) = Cardinality(BlockPlaces(q)) + Weight(x)
<1>1. /\ DOMAIN q = 1 .. Len(q) /\ DOMAIN Append(q, x) = 1 .. Len(q) + 1
      /\ Len(q) \in Nat
      /\ \A i \in 1 .. Len(q) : Append(q, x)[i] = q[i]
      /\ Append(q, x)[Len(q) + 1] = x
  BY AppendProperties
<1>2. /\ Len(q) + 1 \notin BlockPlaces(q)
      /\ BlockPlaces(Append(q, x))
           = IF IsBlock(x) THEN BlockPlaces(q) \cup {Len(q) + 1} ELSE BlockPlaces(q)
  BY <1>1 DEF BlockPlaces
<1>3. IsFiniteSet(BlockPlaces(q)) /\ Cardinality(BlockPlaces(q)) \in Nat
  BY BlocksFinite
<1>4. Cardinality(BlockPlaces(q) \cup {Len(q) + 1}) = Cardinality(BlockPlaces(q)) + 1
  BY <1>2, <1>3, FS_AddElement
<1>. QED
  BY <1>2, <1>3, <1>4 DEF Weight

LEMMA BlocksReceived ==
  ASSUME NEW S, NEW q \in Seq(S), q # <<>>
  PROVE  Cardinality(BlockPlaces(Tail(q))) = Cardinality(BlockPlaces(q)) - Weight(Head(q))
<1>1. /\ Tail(q) \in Seq(S) /\ Len(Tail(q)) = Len(q) - 1
      /\ \A i \in 1 .. Len(Tail(q)) : Tail(q)[i] = q[i + 1]
  BY HeadTailProperties
<1>2. /\ Len(q) \in Nat /\ Len(q) > 0 /\ Head(q) = q[1]
      /\ DOMAIN q = 1 .. Len(q) /\ DOMAIN Tail(q) = 1 .. Len(q) - 1
  BY <1>1
<1>. DEFINE A == BlockPlaces(Tail(q))
            B == BlockPlaces(q) \ {1}
            shift == [i \in A |-> i + 1]
<1>3. /\ A = {i \in 1 .. Len(q) - 1 : IsBlock(q[i + 1])}
      /\ B = {i \in 2 .. Len(q) : IsBlock(q[i])}
  BY <1>1, <1>2 DEF BlockPlaces
<1>4. shift \in Bijection(A, B)
  <2>1. shift \in [A -> B]
    BY <1>2, <1>3
  <2>2. \A i, j \in A : shift[i] = shift[j] => i = j
    BY <1>2, <1>3
  <2>3. ASSUME NEW j \in B
        PROVE  \E i \in A : shift[i] = j
    <3>1. j - 1 \in A /\ (j - 1) + 1 = j
      BY <1>2, <1>3, <2>3
    <3>. QED
      BY <3>1
  <2>. QED
    BY <2>1, <2>2, <2>3, Fun_IsBij
<1>5. IsFiniteSet(A) /\ IsFiniteSet(BlockPlaces(q)) /\ Cardinality(BlockPlaces(q)) \in Nat
  BY <1>1, BlocksFinite
<1>6. Cardinality(B) = Cardinality(A)
  BY <1>4, <1>5, FS_Bijection DEF ExistsBijection
<1>7. 1 \in BlockPlaces(q) <=> IsBlock(Head(q))
  BY <1>2 DEF BlockPlaces
<1>8. Cardinality(B) = Cardinality(BlockPlaces(q)) - Weight(Head(q))
  <2>1. Cardinality(B) = IF 1 \in BlockPlaces(q) THEN Cardinality(BlockPlaces(q)) - 1
                                                 ELSE Cardinality(BlockPlaces(q))
    BY <1>5, FS_RemoveElement
  <2>. QED
    BY <1>5, <1>7, <2>1 DEF Weight
<1>. QED
  BY <1>6, <1>8

\* A queue of distinct slots has as many slots as it has places.
LEMMA DistinctCount ==
  ASSUME NEW S, NEW q \in Seq(S), Distinct(q)
  PROVE  IsFiniteSet(Elems(q)) /\ Cardinality(Elems(q)) = Len(q)
<1>1. Len(q) \in Nat /\ DOMAIN q = 1 .. Len(q)
  OBVIOUS
<1>2. q \in Bijection(1 .. Len(q), Elems(q))
  <2>1. q \in [1 .. Len(q) -> Elems(q)]
    BY <1>1 DEF Elems
  <2>. QED
    BY <1>1, <2>1, Fun_IsBij, SMTT(20) DEF Distinct, Elems
<1>3. IsFiniteSet(1 .. Len(q)) /\ Cardinality(1 .. Len(q)) = Len(q)
  BY <1>1, FS_Interval, SMTT(20)
<1>. QED
  BY <1>2, <1>3, FS_Bijection DEF ExistsBijection
-----------------------------------------------------------------------------
(* The balance of the counters                                             *)

\* The workers that hold a slot the run has not counted, a block the gauge of
\* the fetch queue counts, or a row that of the write queue counts.
Fetching     == Busy(fetcher, {"fetch", "sendRaw"})
SendingRaw   == Busy(fetcher, {"sendRaw"})
Leaving      == Busy(analyser, {"leave"})
Analysing    == Busy(analyser, {"leave", "analyse"})
FetcherRows  == Busy(fetcher, {"sendWrite"})
AnalyserRows == Busy(analyser, {"sendWrite"})

\* The slots a run has not counted yet, the rows it has counted that the writer
\* has not taken, and the blocks the fetch queue and its senders hold. A gauge
\* stands for those and for what a consumer has taken and not yet announced:
\* Leaving for the fetch queue, InHand for the write queue.
Upstream   == Cardinality(todo) + Len(slotQ) + Len(rawQ) + Fetching + Analysing
                + Cardinality(lost)
Downstream == BlocksQueued + FetcherRows + AnalyserRows
InGauge    == Len(rawQ) + SendingRaw
Verdicts   == m.done + m.skipped + m.failed

\* QueueGaugesExact and EverySlotAccountedFor, over those numbers.
Balance ==
  /\ m.fetchQueue = InGauge + Leaving
  /\ ~WriterGone => m.writeQueue = Downstream + InHand
  /\ main # "down" => m.total = m.already + Verdicts + Upstream
  /\ main # "down" /\ range # {} /\ ~WriterGone
       => Verdicts = m.written + Len(pending) + Downstream

LEMMA SlotSetsFinite == \A S \in SUBSET Slots : IsFiniteSet(S) /\ Cardinality(S) \in Nat
  BY SlotsAssumption, FS_Subset, FS_CardinalityType

LEMMA BusyType ==
  ASSUME Shape
  PROVE  \A pcs : Busy(fetcher, pcs) \in Nat /\ Busy(analyser, pcs) \in Nat
<1>. TAKE pcs
<1>1. WorkersAt(fetcher, pcs) \subseteq Fetchers /\ WorkersAt(analyser, pcs) \subseteq Analysers
  BY DEF Shape, TypeOK, WorkersAt
<1>. QED
  BY <1>1, WorkersAssumption, FS_Subset, FS_CardinalityType DEF Busy

QuantitiesOK ==
  /\ Upstream \in Nat /\ Downstream \in Nat /\ InGauge \in Nat /\ Verdicts \in Nat
  /\ Fetching \in Nat /\ SendingRaw \in Nat /\ Analysing \in Nat
  /\ FetcherRows \in Nat /\ AnalyserRows \in Nat /\ Leaving \in Nat /\ InHand \in Nat
  /\ Cardinality(todo) \in Nat /\ Cardinality(lost) \in Nat /\ BlocksQueued \in Nat
  /\ m.fetchQueue \in Int /\ m.writeQueue \in Int /\ m.total \in Nat
  /\ m.already \in Nat /\ m.written \in Nat /\ Len(pending) \in Nat
  /\ Len(slotQ) \in Nat /\ Len(rawQ) \in Nat

LEMMA QuantityTypes == Shape => QuantitiesOK
<1>. SUFFICES ASSUME Shape PROVE QuantitiesOK
  OBVIOUS
<1>1. /\ todo \subseteq Slots /\ lost \subseteq Slots /\ m \in MetricsType
      /\ slotQ \in Seq(Slots) /\ rawQ \in Seq(Slots) /\ pending \in Seq(BlockMsg)
      /\ writeQ \in Seq(BlockMsg \cup ControlMsg)
  BY DEF Shape, TypeOK
<1>2. Cardinality(todo) \in Nat /\ Cardinality(lost) \in Nat
  BY <1>1, SlotSetsFinite
<1>3. BlocksQueued \in Nat
  BY <1>1, BlocksFinite DEF BlocksQueued, BlockPlaces
<1>4. Len(slotQ) \in Nat /\ Len(rawQ) \in Nat /\ Len(pending) \in Nat
  BY <1>1
<1>5. /\ m.fetchQueue \in Int /\ m.writeQueue \in Int /\ m.total \in Nat
      /\ m.already \in Nat /\ m.written \in Nat
      /\ m.done \in Nat /\ m.skipped \in Nat /\ m.failed \in Nat
  BY <1>1 DEF MetricsType
<1>6. /\ Fetching \in Nat /\ SendingRaw \in Nat /\ Analysing \in Nat
      /\ FetcherRows \in Nat /\ AnalyserRows \in Nat /\ Leaving \in Nat
  BY BusyType, Zenon DEF Fetching, SendingRaw, Analysing, FetcherRows, AnalyserRows, Leaving
<1>7. Upstream \in Nat
  BY <1>2, <1>4, <1>6 DEF Upstream
<1>8. Downstream \in Nat /\ InGauge \in Nat
  BY <1>3, <1>4, <1>6 DEF Downstream, InGauge
<1>9. Verdicts \in Nat
  BY <1>5 DEF Verdicts
<1>10. InHand \in Nat
  BY DEF InHand
<1>. QED
  BY <1>2, <1>3, <1>4, <1>5, <1>6, <1>7, <1>8, <1>9, <1>10 DEF QuantitiesOK

LEMMA QuantityTypesNext == Shape' => QuantitiesOK'
  BY QuantityTypes, PTL

\* What the workers' steps do to the counters.
LEMMA GaugeEffect ==
  ASSUME m \in MetricsType, NEW n \in Int
  PROVE  /\ Gauge("fetchQueue", n) =>
              /\ m'.fetchQueue = m.fetchQueue + n /\ m'.writeQueue = m.writeQueue
              /\ m'.total = m.total /\ m'.already = m.already /\ m'.written = m.written
              /\ Verdicts' = Verdicts
         /\ Gauge("writeQueue", n) =>
              /\ m'.writeQueue = m.writeQueue + n /\ m'.fetchQueue = m.fetchQueue
              /\ m'.total = m.total /\ m'.already = m.already /\ m'.written = m.written
              /\ Verdicts' = Verdicts
  BY DEF MetricsType, Gauge, Verdicts

LEMMA CountEffect ==
  ASSUME m \in MetricsType, NEW c \in Outcome, Count(c, 1)
  PROVE  /\ m'.writeQueue = m.writeQueue + 1 /\ m'.fetchQueue = m.fetchQueue
         /\ m'.total = m.total /\ m'.already = m.already /\ m'.written = m.written
         /\ Verdicts' = Verdicts + 1
<1>1. m'.total = m.total /\ m'.already = m.already /\ m'.written = m.written
  BY DEF MetricsType, Count, Outcome
<1>2. m'.writeQueue = m.writeQueue + 1 /\ m'.fetchQueue = m.fetchQueue
  BY DEF MetricsType, Count, Outcome
<1>3. Verdicts' = Verdicts + 1
  <2>1. m.done \in Nat /\ m.skipped \in Nat /\ m.failed \in Nat
    BY DEF MetricsType
  <2>2. CASE c = "done"
    <3>1. m'.done = m.done + 1 /\ m'.skipped = m.skipped /\ m'.failed = m.failed
      BY <2>2 DEF MetricsType, Count
    <3>. QED
      BY <2>1, <3>1 DEF Verdicts
  <2>3. CASE c = "skipped"
    <3>1. m'.done = m.done /\ m'.skipped = m.skipped + 1 /\ m'.failed = m.failed
      BY <2>3 DEF MetricsType, Count
    <3>. QED
      BY <2>1, <3>1 DEF Verdicts
  <2>4. CASE c = "failed"
    <3>1. m'.done = m.done /\ m'.skipped = m.skipped /\ m'.failed = m.failed + 1
      BY <2>4 DEF MetricsType, Count
    <3>. QED
      BY <2>1, <3>1 DEF Verdicts
  <2>. QED
    BY <2>2, <2>3, <2>4 DEF Outcome
<1>. QED
  BY <1>1, <1>2, <1>3

\* What a worker's step from one place in its code to another does to the
\* numbers of workers.
LEMMA FetcherCounts ==
  ASSUME Shape, NEW f \in Fetchers, NEW v, fetcher' = [fetcher EXCEPT ![f] = v]
  PROVE  \A pcs : Busy(fetcher, pcs)' = Busy(fetcher, pcs) - Share(fetcher[f], pcs)
                                          + Share(v, pcs)
<1>. TAKE pcs
<1>1. /\ fetcher \in [Fetchers -> WorkerState] /\ IsFiniteSet(Fetchers)
      /\ DOMAIN fetcher = Fetchers /\ DOMAIN fetcher' = Fetchers
      /\ fetcher'[f] = v /\ \A u \in Fetchers \ {f} : fetcher'[u] = fetcher[u]
  BY WorkersAssumption DEF Shape, TypeOK
<1>2. \A ws, next :
         /\ DOMAIN ws = Fetchers /\ DOMAIN next = Fetchers
         /\ \A u \in Fetchers \ {f} : next[u] = ws[u]
         => Busy(next, pcs) = Busy(ws, pcs) - Share(ws[f], pcs) + Share(next[f], pcs)
  BY WorkersAssumption, BusyMoves
<1>3. Busy(fetcher', pcs) = Busy(fetcher, pcs) - Share(fetcher[f], pcs) + Share(fetcher'[f], pcs)
  BY <1>1, <1>2
<1>. QED
  BY <1>1, <1>3

LEMMA AnalyserCounts ==
  ASSUME Shape, NEW a \in Analysers, NEW v, analyser' = [analyser EXCEPT ![a] = v]
  PROVE  \A pcs : Busy(analyser, pcs)' = Busy(analyser, pcs) - Share(analyser[a], pcs)
                                           + Share(v, pcs)
<1>. TAKE pcs
<1>1. /\ analyser \in [Analysers -> WorkerState] /\ IsFiniteSet(Analysers)
      /\ DOMAIN analyser = Analysers /\ DOMAIN analyser' = Analysers
      /\ analyser'[a] = v /\ \A u \in Analysers \ {a} : analyser'[u] = analyser[u]
  BY WorkersAssumption DEF Shape, TypeOK
<1>2. \A ws, next :
         /\ DOMAIN ws = Analysers /\ DOMAIN next = Analysers
         /\ \A u \in Analysers \ {a} : next[u] = ws[u]
         => Busy(next, pcs) = Busy(ws, pcs) - Share(ws[a], pcs) + Share(next[a], pcs)
  BY WorkersAssumption, BusyMoves
<1>3. Busy(analyser', pcs) = Busy(analyser, pcs) - Share(analyser[a], pcs) + Share(analyser'[a], pcs)
  BY <1>1, <1>2
<1>. QED
  BY <1>1, <1>3

LEMMA FetcherKinds ==
  ASSUME Shape, NEW f \in Fetchers, NEW v, fetcher' = [fetcher EXCEPT ![f] = v]
  PROVE  /\ Fetching' = Fetching - (IF fetcher[f].pc \in {"fetch", "sendRaw"} THEN 1 ELSE 0)
                       + (IF v.pc \in {"fetch", "sendRaw"} THEN 1 ELSE 0)
         /\ SendingRaw' = SendingRaw - (IF fetcher[f].pc \in {"sendRaw"} THEN 1 ELSE 0)
                         + (IF v.pc \in {"sendRaw"} THEN 1 ELSE 0)
         /\ FetcherRows' = FetcherRows - (IF fetcher[f].pc \in {"sendWrite"} THEN 1 ELSE 0)
                          + (IF v.pc \in {"sendWrite"} THEN 1 ELSE 0)
<1>1. Fetching' = Fetching - (IF fetcher[f].pc \in {"fetch", "sendRaw"} THEN 1 ELSE 0)
                + (IF v.pc \in {"fetch", "sendRaw"} THEN 1 ELSE 0)
  <2>1. PICK pcs : pcs = {"fetch", "sendRaw"}
    OBVIOUS
  <2>2. Busy(fetcher, pcs)' = Busy(fetcher, pcs) - Share(fetcher[f], pcs) + Share(v, pcs)
    BY FetcherCounts
  <2>. QED
    BY <2>1, <2>2 DEF Fetching, Share
<1>2. SendingRaw' = SendingRaw - (IF fetcher[f].pc \in {"sendRaw"} THEN 1 ELSE 0)
                  + (IF v.pc \in {"sendRaw"} THEN 1 ELSE 0)
  <2>1. PICK pcs : pcs = {"sendRaw"}
    OBVIOUS
  <2>2. Busy(fetcher, pcs)' = Busy(fetcher, pcs) - Share(fetcher[f], pcs) + Share(v, pcs)
    BY FetcherCounts
  <2>. QED
    BY <2>1, <2>2 DEF SendingRaw, Share
<1>3. FetcherRows' = FetcherRows - (IF fetcher[f].pc \in {"sendWrite"} THEN 1 ELSE 0)
                   + (IF v.pc \in {"sendWrite"} THEN 1 ELSE 0)
  <2>1. PICK pcs : pcs = {"sendWrite"}
    OBVIOUS
  <2>2. Busy(fetcher, pcs)' = Busy(fetcher, pcs) - Share(fetcher[f], pcs) + Share(v, pcs)
    BY FetcherCounts
  <2>. QED
    BY <2>1, <2>2 DEF FetcherRows, Share
<1>. QED
  BY <1>1, <1>2, <1>3

LEMMA AnalyserKinds ==
  ASSUME Shape, NEW a \in Analysers, NEW v, analyser' = [analyser EXCEPT ![a] = v]
  PROVE  /\ Analysing' = Analysing - (IF analyser[a].pc \in {"leave", "analyse"} THEN 1 ELSE 0)
                        + (IF v.pc \in {"leave", "analyse"} THEN 1 ELSE 0)
         /\ AnalyserRows' = AnalyserRows - (IF analyser[a].pc \in {"sendWrite"} THEN 1 ELSE 0)
                           + (IF v.pc \in {"sendWrite"} THEN 1 ELSE 0)
         /\ Leaving' = Leaving - (IF analyser[a].pc \in {"leave"} THEN 1 ELSE 0)
                      + (IF v.pc \in {"leave"} THEN 1 ELSE 0)
<1>1. Analysing' = Analysing - (IF analyser[a].pc \in {"leave", "analyse"} THEN 1 ELSE 0)
                 + (IF v.pc \in {"leave", "analyse"} THEN 1 ELSE 0)
  <2>1. PICK pcs : pcs = {"leave", "analyse"}
    OBVIOUS
  <2>2. Busy(analyser, pcs)' = Busy(analyser, pcs) - Share(analyser[a], pcs) + Share(v, pcs)
    BY AnalyserCounts
  <2>. QED
    BY <2>1, <2>2 DEF Analysing, Share
<1>2. AnalyserRows' = AnalyserRows - (IF analyser[a].pc \in {"sendWrite"} THEN 1 ELSE 0)
                    + (IF v.pc \in {"sendWrite"} THEN 1 ELSE 0)
  <2>1. PICK pcs : pcs = {"sendWrite"}
    OBVIOUS
  <2>2. Busy(analyser, pcs)' = Busy(analyser, pcs) - Share(analyser[a], pcs) + Share(v, pcs)
    BY AnalyserCounts
  <2>. QED
    BY <2>1, <2>2 DEF AnalyserRows, Share
<1>3. Leaving' = Leaving - (IF analyser[a].pc \in {"leave"} THEN 1 ELSE 0)
               + (IF v.pc \in {"leave"} THEN 1 ELSE 0)
  <2>1. PICK pcs : pcs = {"leave"}
    OBVIOUS
  <2>2. Busy(analyser, pcs)' = Busy(analyser, pcs) - Share(analyser[a], pcs) + Share(v, pcs)
    BY AnalyserCounts
  <2>. QED
    BY <2>1, <2>2 DEF Leaving, Share
<1>. QED
  BY <1>1, <1>2, <1>3

\* The counters balance after every step of a fetch worker.
LEMMA BalanceFetcher ==
  ASSUME Shape, Balance, NEW f \in Fetchers, FetcherStep(f)
  PROVE  Balance'
<1>. USE DEF persistent, queues, thread, bounds, At
<1>1. QuantitiesOK /\ m \in MetricsType /\ fetcher[f] \in WorkerState
  BY QuantityTypes DEF Shape, TypeOK
<1>2. /\ slotQ \in Seq(Slots) /\ rawQ \in Seq(Slots)
      /\ writeQ \in Seq(BlockMsg \cup ControlMsg)
  BY DEF Shape, TypeOK
<1>3. /\ Fetching \in Nat /\ SendingRaw \in Nat /\ FetcherRows \in Nat
      /\ Len(slotQ) \in Nat /\ Len(rawQ) \in Nat /\ BlocksQueued \in Nat
  BY <1>1 DEF QuantitiesOK
<1>hands. Leaving' = Leaving /\ InHand' = InHand
  BY DEF FetcherStep, FetcherRecv, FetcherStops, FetchedBlock, FetchedNoBlock, SendRaw,
         FetcherSends, FetcherGivesUp, Leaving, InHand
<1>types. /\ Upstream \in Nat /\ Downstream \in Nat /\ InGauge \in Nat /\ Verdicts \in Nat
          /\ m.already \in Nat /\ m.written \in Nat /\ Len(pending) \in Nat
          /\ Leaving \in Nat /\ InHand \in Nat /\ Leaving' = Leaving /\ InHand' = InHand
  BY <1>1, <1>hands DEF QuantitiesOK
<1>sums. /\ Analysing \in Nat /\ AnalyserRows \in Nat
         /\ Cardinality(todo) \in Nat /\ Cardinality(lost) \in Nat
  BY <1>1 DEF QuantitiesOK
<1>4. Goto("recv").pc = "recv" /\ Goto("off").pc = "off"
  BY DEF Goto
<1>5. ASSUME UNCHANGED <<todo, analyser, lost>>
      PROVE  /\ Analysing' = Analysing /\ AnalyserRows' = AnalyserRows
             /\ Cardinality(todo)' = Cardinality(todo)
             /\ Cardinality(lost)' = Cardinality(lost)
  BY <1>5 DEF Analysing, AnalyserRows
<1>6. CASE FetcherRecv(f)
  <2>1. PICK v : v = [fetcher[f] EXCEPT !.pc = "fetch", !.slot = Head(slotQ)]
    OBVIOUS
  <2>2. fetcher' = [fetcher EXCEPT ![f] = v] /\ v.pc = "fetch"
    BY <1>1, <1>4, <1>6, <2>1 DEF FetcherRecv, WorkerState
  <2>3. /\ Fetching' = Fetching + 1 /\ SendingRaw' = SendingRaw
        /\ FetcherRows' = FetcherRows
    <3>1. fetcher[f].pc = "recv"
      BY <1>6 DEF FetcherRecv, CanSendBlock
    <3>2. /\ Fetching' = Fetching - (IF fetcher[f].pc \in {"fetch", "sendRaw"} THEN 1 ELSE 0)
                    + (IF v.pc \in {"fetch", "sendRaw"} THEN 1 ELSE 0)
          /\ SendingRaw' = SendingRaw - (IF fetcher[f].pc \in {"sendRaw"} THEN 1 ELSE 0)
                      + (IF v.pc \in {"sendRaw"} THEN 1 ELSE 0)
          /\ FetcherRows' = FetcherRows - (IF fetcher[f].pc \in {"sendWrite"} THEN 1 ELSE 0)
                       + (IF v.pc \in {"sendWrite"} THEN 1 ELSE 0)
      BY <2>2, FetcherKinds
    <3>. QED
      BY <1>3, <2>2, <3>1, <3>2
  <2>4. Len(slotQ)' = Len(slotQ) - 1
    BY <1>2, <1>6, HeadTailProperties DEF FetcherRecv
  <2>5. UNCHANGED <<todo, analyser, lost, main, range, writer, pending, WriterGone, m, rawQ, BlocksQueued, Verdicts>>
    BY <1>6 DEF FetcherRecv, BlocksQueued, Verdicts, WriterGone
  <2>6. InGauge' = InGauge /\ Upstream' = Upstream /\ Downstream' = Downstream
    <3>1. InGauge' = InGauge
      BY <1>3, <2>3, <2>4, <2>5 DEF InGauge
    <3>2. Upstream' = Upstream
      <4>1. Upstream' = Cardinality(todo) + (Len(slotQ) - 1) + Len(rawQ) + (Fetching + 1)
                          + Analysing + Cardinality(lost)
        BY <1>5, <2>3, <2>4, <2>5 DEF Upstream
      <4>. QED
        <5>1. \A t, q, r, g, h, l \in Nat :
                 t + (q - 1) + r + (g + 1) + h + l = t + q + r + g + h + l
          OBVIOUS
        <5>. QED
          BY <1>3, <1>sums, <4>1, <5>1, SMTT(60) DEF Upstream
    <3>3. Downstream' = Downstream
      BY <1>3, <1>5, <1>sums, <2>3, <2>4, <2>5 DEF Downstream
    <3>. QED
      BY <3>1, <3>2, <3>3
  <2>. QED
    BY <1>types, <2>3, <2>4, <2>5, <2>6 DEF Balance
<1>7. CASE FetcherStops(f)
  <2>1. PICK v : v = Goto("off")
    OBVIOUS
  <2>2. fetcher' = [fetcher EXCEPT ![f] = v] /\ v.pc = "off"
    BY <1>1, <1>4, <1>7, <2>1 DEF FetcherStops, WorkerState
  <2>3. /\ Fetching' = Fetching /\ SendingRaw' = SendingRaw
        /\ FetcherRows' = FetcherRows
    <3>1. fetcher[f].pc = "recv"
      BY <1>7 DEF FetcherStops, CanSendBlock
    <3>2. /\ Fetching' = Fetching - (IF fetcher[f].pc \in {"fetch", "sendRaw"} THEN 1 ELSE 0)
                    + (IF v.pc \in {"fetch", "sendRaw"} THEN 1 ELSE 0)
          /\ SendingRaw' = SendingRaw - (IF fetcher[f].pc \in {"sendRaw"} THEN 1 ELSE 0)
                      + (IF v.pc \in {"sendRaw"} THEN 1 ELSE 0)
          /\ FetcherRows' = FetcherRows - (IF fetcher[f].pc \in {"sendWrite"} THEN 1 ELSE 0)
                       + (IF v.pc \in {"sendWrite"} THEN 1 ELSE 0)
      BY <2>2, FetcherKinds
    <3>. QED
      BY <1>3, <2>2, <3>1, <3>2
  <2>4. UNCHANGED <<todo, analyser, lost, main, range, writer, pending, WriterGone, m, slotQ, rawQ, BlocksQueued, Verdicts>>
    BY <1>7 DEF FetcherStops, BlocksQueued, Verdicts, WriterGone
  <2>5. InGauge' = InGauge /\ Upstream' = Upstream /\ Downstream' = Downstream
    <3>1. InGauge' = InGauge
      BY <1>3, <2>3, <2>4 DEF InGauge
    <3>2. Upstream' = Upstream
      BY <1>3, <1>5, <1>sums, <2>3, <2>4 DEF Upstream
    <3>3. Downstream' = Downstream
      BY <1>3, <1>5, <1>sums, <2>3, <2>4 DEF Downstream
    <3>. QED
      BY <3>1, <3>2, <3>3
  <2>. QED
    BY <1>types, <2>3, <2>4, <2>5 DEF Balance
<1>8. CASE FetchedBlock(f)
  <2>1. PICK v : v = [fetcher[f] EXCEPT !.pc = "sendRaw"]
    OBVIOUS
  <2>2. fetcher' = [fetcher EXCEPT ![f] = v] /\ v.pc = "sendRaw"
    BY <1>1, <1>4, <1>8, <2>1 DEF FetchedBlock, WorkerState
  <2>3. /\ Fetching' = Fetching /\ SendingRaw' = SendingRaw + 1
        /\ FetcherRows' = FetcherRows
    <3>1. fetcher[f].pc = "fetch"
      BY <1>8 DEF FetchedBlock, CanSendBlock
    <3>2. /\ Fetching' = Fetching - (IF fetcher[f].pc \in {"fetch", "sendRaw"} THEN 1 ELSE 0)
                    + (IF v.pc \in {"fetch", "sendRaw"} THEN 1 ELSE 0)
          /\ SendingRaw' = SendingRaw - (IF fetcher[f].pc \in {"sendRaw"} THEN 1 ELSE 0)
                      + (IF v.pc \in {"sendRaw"} THEN 1 ELSE 0)
          /\ FetcherRows' = FetcherRows - (IF fetcher[f].pc \in {"sendWrite"} THEN 1 ELSE 0)
                       + (IF v.pc \in {"sendWrite"} THEN 1 ELSE 0)
      BY <2>2, FetcherKinds
    <3>. QED
      BY <1>3, <2>2, <3>1, <3>2
  <2>4. /\ m'.fetchQueue = m.fetchQueue + 1 /\ m'.writeQueue = m.writeQueue
        /\ m'.total = m.total /\ m'.already = m.already /\ m'.written = m.written
        /\ Verdicts' = Verdicts
    BY <1>1, <1>8, GaugeEffect DEF FetchedBlock
  <2>5. UNCHANGED <<todo, analyser, lost, main, range, writer, pending, WriterGone, slotQ, rawQ, BlocksQueued>>
    BY <1>8 DEF FetchedBlock, BlocksQueued, Verdicts, WriterGone
  <2>6. InGauge' = InGauge + 1 /\ Upstream' = Upstream /\ Downstream' = Downstream
    <3>1. InGauge' = InGauge + 1
      BY <1>3, <2>3, <2>4, <2>5 DEF InGauge
    <3>2. Upstream' = Upstream
      BY <1>3, <1>5, <1>sums, <2>3, <2>4, <2>5 DEF Upstream
    <3>3. Downstream' = Downstream
      BY <1>3, <1>5, <1>sums, <2>3, <2>4, <2>5 DEF Downstream
    <3>. QED
      BY <3>1, <3>2, <3>3
  <2>. QED
    BY <1>types, <2>3, <2>4, <2>5, <2>6 DEF Balance
<1>9. ASSUME NEW st \in {"skipped", "failed"}, FetchedNoBlock(f, st)
      PROVE  Balance'
  <2>1. PICK v : v = Sending(fetcher[f], st)
    OBVIOUS
  <2>2. fetcher' = [fetcher EXCEPT ![f] = v] /\ v.pc = "sendWrite"
    BY <1>1, <1>4, <1>9, <2>1 DEF FetchedNoBlock, WorkerState, Sending
  <2>3. /\ Fetching' = Fetching - 1 /\ SendingRaw' = SendingRaw
        /\ FetcherRows' = FetcherRows + 1
    <3>1. fetcher[f].pc = "fetch"
      BY <1>9 DEF FetchedNoBlock, CanSendBlock
    <3>2. /\ Fetching' = Fetching - (IF fetcher[f].pc \in {"fetch", "sendRaw"} THEN 1 ELSE 0)
                    + (IF v.pc \in {"fetch", "sendRaw"} THEN 1 ELSE 0)
          /\ SendingRaw' = SendingRaw - (IF fetcher[f].pc \in {"sendRaw"} THEN 1 ELSE 0)
                      + (IF v.pc \in {"sendRaw"} THEN 1 ELSE 0)
          /\ FetcherRows' = FetcherRows - (IF fetcher[f].pc \in {"sendWrite"} THEN 1 ELSE 0)
                       + (IF v.pc \in {"sendWrite"} THEN 1 ELSE 0)
      BY <2>2, FetcherKinds
    <3>. QED
      BY <1>3, <2>2, <3>1, <3>2
  <2>4. /\ m'.writeQueue = m.writeQueue + 1 /\ m'.fetchQueue = m.fetchQueue
        /\ m'.total = m.total /\ m'.already = m.already /\ m'.written = m.written
        /\ Verdicts' = Verdicts + 1
    BY <1>1, <1>9, CountEffect DEF FetchedNoBlock, Outcome
  <2>5. UNCHANGED <<todo, analyser, lost, main, range, writer, pending, WriterGone, slotQ, rawQ, BlocksQueued>>
    BY <1>9 DEF FetchedNoBlock, BlocksQueued, Verdicts, WriterGone
  <2>6. InGauge' = InGauge /\ Upstream' = Upstream - 1 /\ Downstream' = Downstream + 1
    <3>1. InGauge' = InGauge
      BY <1>3, <2>3, <2>4, <2>5 DEF InGauge
    <3>2. Upstream' = Upstream - 1
      <4>1. Upstream' = Cardinality(todo) + Len(slotQ) + Len(rawQ) + (Fetching - 1)
                          + Analysing + Cardinality(lost)
        BY <1>5, <2>3, <2>4, <2>5 DEF Upstream
      <4>. QED
        BY <1>3, <1>sums, <4>1, SMTT(20) DEF Upstream
    <3>3. Downstream' = Downstream + 1
      BY <1>3, <1>5, <1>sums, <2>3, <2>4, <2>5 DEF Downstream
    <3>. QED
      BY <3>1, <3>2, <3>3
  <2>7. /\ main # "down" => m'.total = m'.already + Verdicts' + Upstream'
        /\ main # "down" /\ range # {} /\ ~WriterGone
             => Verdicts' = m'.written + Len(pending) + Downstream'
    <3>1. \A x, y, z \in Nat : x + (y + 1) + (z - 1) = x + y + z
      OBVIOUS
    <3>2. main # "down" => m.total = m.already + Verdicts + Upstream
      BY DEF Balance
    <3>3. main # "down" => m'.total = m'.already + Verdicts' + Upstream'
      <4>1. PICK a \in Nat : a = m.already
        BY <1>types
      <4>2. Verdicts \in Nat /\ Upstream \in Nat
        BY <1>types
      <4>3. a + (Verdicts + 1) + (Upstream - 1) = a + Verdicts + Upstream
        BY <3>1, <4>2
      <4>4. /\ m'.total = m.total /\ m'.already = m.already
            /\ Verdicts' = Verdicts + 1 /\ Upstream' = Upstream - 1
        BY <2>4, <2>6, Zenon
      <4>. QED
        BY <3>2, <4>1, <4>3, <4>4, Zenon
    <3>4. main # "down" /\ range # {} /\ ~WriterGone
            => Verdicts' = m'.written + Len(pending) + Downstream'
      <4>1. m'.written = m.written /\ Verdicts' = Verdicts + 1 /\ Downstream' = Downstream + 1
        BY <2>4, <2>6
      <4>2. main # "down" /\ range # {} /\ ~WriterGone
              => Verdicts = m.written + Len(pending) + Downstream
        BY DEF Balance
      <4>3. \A x, y, z \in Nat : x + y + (z + 1) = (x + y + z) + 1
        OBVIOUS
      <4>4. m.written \in Nat /\ Len(pending) \in Nat /\ Downstream \in Nat
        BY <1>types
      <4>5. m.written + Len(pending) + (Downstream + 1) = (m.written + Len(pending) + Downstream) + 1
        BY <4>3, <4>4
      <4>. QED
        BY <4>1, <4>2, <4>5, Zenon
    <3>. QED
      BY <3>3, <3>4
  <2>8. /\ m'.fetchQueue = InGauge' + Leaving'
        /\ ~WriterGone => m'.writeQueue = Downstream' + InHand'
    BY <1>types, <2>3, <2>4, <2>6 DEF Balance
  <2>. QED
    BY <2>5, <2>7, <2>8 DEF Balance
<1>10. CASE SendRaw(f)
  <2>1. PICK v : v = Goto("recv")
    OBVIOUS
  <2>2. fetcher' = [fetcher EXCEPT ![f] = v] /\ v.pc = "recv"
    BY <1>1, <1>4, <1>10, <2>1 DEF SendRaw, WorkerState
  <2>3. /\ Fetching' = Fetching - 1 /\ SendingRaw' = SendingRaw - 1
        /\ FetcherRows' = FetcherRows
    <3>1. fetcher[f].pc = "sendRaw"
      BY <1>10 DEF SendRaw, CanSendBlock
    <3>2. /\ Fetching' = Fetching - (IF fetcher[f].pc \in {"fetch", "sendRaw"} THEN 1 ELSE 0)
                    + (IF v.pc \in {"fetch", "sendRaw"} THEN 1 ELSE 0)
          /\ SendingRaw' = SendingRaw - (IF fetcher[f].pc \in {"sendRaw"} THEN 1 ELSE 0)
                      + (IF v.pc \in {"sendRaw"} THEN 1 ELSE 0)
          /\ FetcherRows' = FetcherRows - (IF fetcher[f].pc \in {"sendWrite"} THEN 1 ELSE 0)
                       + (IF v.pc \in {"sendWrite"} THEN 1 ELSE 0)
      BY <2>2, FetcherKinds
    <3>. QED
      BY <1>3, <2>2, <3>1, <3>2
  <2>4. Len(rawQ)' = Len(rawQ) + 1
    BY <1>2, <1>10 DEF SendRaw
  <2>5. UNCHANGED <<todo, analyser, lost, main, range, writer, pending, WriterGone, m, slotQ, BlocksQueued, Verdicts>>
    BY <1>10 DEF SendRaw, BlocksQueued, Verdicts, WriterGone
  <2>6. InGauge' = InGauge /\ Upstream' = Upstream /\ Downstream' = Downstream
    <3>1. InGauge' = InGauge
      BY <1>3, <2>3, <2>4, <2>5 DEF InGauge
    <3>2. Upstream' = Upstream
      <4>1. Upstream' = Cardinality(todo) + Len(slotQ) + (Len(rawQ) + 1) + (Fetching - 1)
                          + Analysing + Cardinality(lost)
        BY <1>5, <2>3, <2>4, <2>5 DEF Upstream
      <4>. QED
        BY <1>3, <1>sums, <4>1, SMTT(20) DEF Upstream
    <3>3. Downstream' = Downstream
      BY <1>3, <1>5, <1>sums, <2>3, <2>4, <2>5 DEF Downstream
    <3>. QED
      BY <3>1, <3>2, <3>3
  <2>. QED
    BY <1>types, <2>3, <2>4, <2>5, <2>6 DEF Balance
<1>11. CASE FetcherSends(f)
  <2>1. PICK v : v = Goto("recv")
    OBVIOUS
  <2>2. fetcher' = [fetcher EXCEPT ![f] = v] /\ v.pc = "recv"
    BY <1>1, <1>4, <1>11, <2>1 DEF FetcherSends, WorkerState
  <2>3. /\ Fetching' = Fetching /\ SendingRaw' = SendingRaw
        /\ FetcherRows' = FetcherRows - 1
    <3>1. fetcher[f].pc = "sendWrite"
      BY <1>11 DEF FetcherSends, CanSendBlock
    <3>2. /\ Fetching' = Fetching - (IF fetcher[f].pc \in {"fetch", "sendRaw"} THEN 1 ELSE 0)
                    + (IF v.pc \in {"fetch", "sendRaw"} THEN 1 ELSE 0)
          /\ SendingRaw' = SendingRaw - (IF fetcher[f].pc \in {"sendRaw"} THEN 1 ELSE 0)
                      + (IF v.pc \in {"sendRaw"} THEN 1 ELSE 0)
          /\ FetcherRows' = FetcherRows - (IF fetcher[f].pc \in {"sendWrite"} THEN 1 ELSE 0)
                       + (IF v.pc \in {"sendWrite"} THEN 1 ELSE 0)
      BY <2>2, FetcherKinds
    <3>. QED
      BY <1>3, <2>2, <3>1, <3>2
  <2>4. BlocksQueued' = BlocksQueued + 1
    <3>1. Block(fetcher[f].slot, fetcher[f].status) \in BlockMsg
      BY <1>1, <1>11 DEF FetcherSends, CanSendBlock, WorkerState, Shape, WorkersConsistent,
                         Consistent, Block, BlockMsg
    <3>2. Weight(Block(fetcher[f].slot, fetcher[f].status)) = 1
      BY DEF Weight, IsBlock, Block
    <3>. QED
      <4>1. writeQ' = Append(writeQ, Block(fetcher[f].slot, fetcher[f].status))
        BY <1>11 DEF FetcherSends
      <4>2. Cardinality(BlockPlaces(writeQ')) = Cardinality(BlockPlaces(writeQ)) + 1
        BY <1>2, <3>1, <3>2, <4>1, BlocksSent
      <4>. QED
        BY <4>2 DEF BlocksQueued, BlockPlaces
  <2>5. UNCHANGED <<todo, analyser, lost, main, range, writer, pending, WriterGone, m, slotQ, rawQ, Verdicts>>
    BY <1>11 DEF FetcherSends, BlocksQueued, Verdicts, WriterGone
  <2>6. InGauge' = InGauge /\ Upstream' = Upstream /\ Downstream' = Downstream
    <3>1. InGauge' = InGauge
      BY <1>3, <2>3, <2>4, <2>5 DEF InGauge
    <3>2. Upstream' = Upstream
      BY <1>3, <1>5, <1>sums, <2>3, <2>4, <2>5 DEF Upstream
    <3>3. Downstream' = Downstream
      BY <1>3, <1>5, <1>sums, <2>3, <2>4, <2>5 DEF Downstream
    <3>. QED
      BY <3>1, <3>2, <3>3
  <2>. QED
    BY <1>types, <2>3, <2>4, <2>5, <2>6 DEF Balance
<1>12. CASE FetcherGivesUp(f)
  <2>1. PICK v : v = Goto("off")
    OBVIOUS
  <2>2. fetcher' = [fetcher EXCEPT ![f] = v] /\ v.pc = "off"
    BY <1>1, <1>4, <1>12, <2>1 DEF FetcherGivesUp, WorkerState
  <2>3. /\ Fetching' = Fetching /\ SendingRaw' = SendingRaw
        /\ FetcherRows' = FetcherRows - 1
    <3>1. fetcher[f].pc = "sendWrite"
      BY <1>12 DEF FetcherGivesUp, CanSendBlock
    <3>2. /\ Fetching' = Fetching - (IF fetcher[f].pc \in {"fetch", "sendRaw"} THEN 1 ELSE 0)
                    + (IF v.pc \in {"fetch", "sendRaw"} THEN 1 ELSE 0)
          /\ SendingRaw' = SendingRaw - (IF fetcher[f].pc \in {"sendRaw"} THEN 1 ELSE 0)
                      + (IF v.pc \in {"sendRaw"} THEN 1 ELSE 0)
          /\ FetcherRows' = FetcherRows - (IF fetcher[f].pc \in {"sendWrite"} THEN 1 ELSE 0)
                       + (IF v.pc \in {"sendWrite"} THEN 1 ELSE 0)
      BY <2>2, FetcherKinds
    <3>. QED
      BY <1>3, <2>2, <3>1, <3>2
  <2>4. /\ m'.writeQueue = m.writeQueue - 1 /\ m'.fetchQueue = m.fetchQueue
        /\ m'.total = m.total /\ m'.already = m.already /\ m'.written = m.written
        /\ Verdicts' = Verdicts /\ WriterGone
    <3>1. m \in MetricsType /\ -1 \in Int /\ Gauge("writeQueue", -1) /\ WriterGone
      BY <1>1, <1>12 DEF FetcherGivesUp
    <3>2. m.writeQueue + -1 = m.writeQueue - 1
      BY <1>1 DEF QuantitiesOK
    <3>. QED
      BY <3>1, <3>2, GaugeEffect
  <2>5. UNCHANGED <<todo, analyser, lost, main, range, writer, pending, WriterGone, slotQ, rawQ, BlocksQueued>>
    BY <1>12 DEF FetcherGivesUp, BlocksQueued, Verdicts, WriterGone
  <2>6. InGauge' = InGauge /\ Upstream' = Upstream /\ Downstream' = Downstream - 1
    <3>1. InGauge' = InGauge
      BY <1>3, <2>3, <2>4, <2>5 DEF InGauge
    <3>2. Upstream' = Upstream
      BY <1>3, <1>5, <1>sums, <2>3, <2>4, <2>5 DEF Upstream
    <3>3. Downstream' = Downstream - 1
      BY <1>3, <1>5, <1>sums, <2>3, <2>4, <2>5 DEF Downstream
    <3>. QED
      BY <3>1, <3>2, <3>3
  <2>. QED
    BY <1>types, <2>3, <2>4, <2>5, <2>6 DEF Balance
<1>. QED
  BY <1>6, <1>7, <1>8, <1>9, <1>10, <1>11, <1>12 DEF FetcherStep

\* The counters balance after every step of an analysis worker. A panic moves a
\* slot from the worker's hands to the lost ones, where it must not be yet.
LEMMA BalanceAnalyser ==
  ASSUME Shape, Balance, NEW a \in Analysers, AnalyserStep(a),
         analyser[a].slot # NoSlot => analyser[a].slot \notin lost
  PROVE  Balance'
<1>. USE DEF persistent, queues, thread, bounds, At
<1>1. QuantitiesOK /\ m \in MetricsType /\ analyser[a] \in WorkerState
  BY QuantityTypes DEF Shape, TypeOK
<1>2. /\ rawQ \in Seq(Slots) /\ writeQ \in Seq(BlockMsg \cup ControlMsg)
      /\ lost \subseteq Slots
  BY DEF Shape, TypeOK
<1>3. /\ Analysing \in Nat /\ AnalyserRows \in Nat /\ Leaving \in Nat
      /\ Len(slotQ) \in Nat /\ Len(rawQ) \in Nat /\ BlocksQueued \in Nat
  BY <1>1 DEF QuantitiesOK
<1>hands. InHand' = InHand
  BY DEF AnalyserStep, AnalyserRecv, AnalyserLeaves, AnalyserStops, Analysed, AnalysisPanics,
         AnalyserSends, AnalyserGivesUp, InHand
<1>types. /\ Upstream \in Nat /\ Downstream \in Nat /\ InGauge \in Nat /\ Verdicts \in Nat
          /\ m.already \in Nat /\ m.written \in Nat /\ Len(pending) \in Nat
          /\ Leaving \in Nat /\ InHand \in Nat /\ InHand' = InHand
  BY <1>1, <1>hands DEF QuantitiesOK
<1>sums. /\ Fetching \in Nat /\ SendingRaw \in Nat /\ FetcherRows \in Nat
         /\ Cardinality(todo) \in Nat /\ Cardinality(lost) \in Nat
  BY <1>1 DEF QuantitiesOK
<1>4. Goto("recv").pc = "recv" /\ Goto("off").pc = "off"
  BY DEF Goto
<1>5. ASSUME UNCHANGED <<todo, fetcher>>
      PROVE  /\ Fetching' = Fetching /\ SendingRaw' = SendingRaw
             /\ FetcherRows' = FetcherRows /\ Cardinality(todo)' = Cardinality(todo)
  BY <1>5 DEF Fetching, SendingRaw, FetcherRows
<1>6. CASE AnalyserRecv(a)
  <2>1. PICK v : v = [analyser[a] EXCEPT !.pc = "leave", !.slot = Head(rawQ)]
    OBVIOUS
  <2>2. analyser' = [analyser EXCEPT ![a] = v] /\ v.pc = "leave"
    BY <1>1, <1>4, <1>6, <2>1 DEF AnalyserRecv, WorkerState
  <2>3. Analysing' = Analysing + 1 /\ AnalyserRows' = AnalyserRows /\ Leaving' = Leaving + 1
    <3>1. analyser[a].pc = "recv"
      BY <1>6 DEF AnalyserRecv, CanSendBlock
    <3>2. /\ Analysing' = Analysing - (IF analyser[a].pc \in {"leave", "analyse"} THEN 1 ELSE 0)
                           + (IF v.pc \in {"leave", "analyse"} THEN 1 ELSE 0)
          /\ AnalyserRows' = AnalyserRows - (IF analyser[a].pc \in {"sendWrite"} THEN 1 ELSE 0)
                              + (IF v.pc \in {"sendWrite"} THEN 1 ELSE 0)
          /\ Leaving' = Leaving - (IF analyser[a].pc \in {"leave"} THEN 1 ELSE 0)
                         + (IF v.pc \in {"leave"} THEN 1 ELSE 0)
      BY <2>2, AnalyserKinds
    <3>. QED
      BY <1>3, <2>2, <3>1, <3>2
  <2>4. Len(rawQ)' = Len(rawQ) - 1
    BY <1>2, <1>6, HeadTailProperties DEF AnalyserRecv
  <2>5. UNCHANGED <<todo, fetcher, main, range, writer, pending, WriterGone, m, slotQ, lost, BlocksQueued, Verdicts>>
    BY <1>6 DEF AnalyserRecv, BlocksQueued, Verdicts, WriterGone
  <2>6. InGauge' = InGauge - 1 /\ Upstream' = Upstream /\ Downstream' = Downstream
    <3>1. InGauge' = InGauge - 1
      BY <1>3, <1>5, <1>sums, <2>3, <2>4, <2>5 DEF InGauge
    <3>2. Upstream' = Upstream
      <4>1. Upstream' = Cardinality(todo) + Len(slotQ) + (Len(rawQ) - 1) + Fetching
                          + (Analysing + 1) + Cardinality(lost)
        BY <1>5, <2>3, <2>4, <2>5 DEF Upstream
      <4>. QED
        BY <1>3, <1>sums, <4>1, SMTT(20) DEF Upstream
    <3>3. Downstream' = Downstream
      BY <1>3, <1>5, <1>sums, <2>3, <2>4, <2>5 DEF Downstream
    <3>. QED
      BY <3>1, <3>2, <3>3
  <2>. QED
    BY <1>types, <2>3, <2>4, <2>5, <2>6 DEF Balance
<1>7. CASE AnalyserStops(a)
  <2>1. PICK v : v = Goto("off")
    OBVIOUS
  <2>2. analyser' = [analyser EXCEPT ![a] = v] /\ v.pc = "off"
    BY <1>1, <1>4, <1>7, <2>1 DEF AnalyserStops, WorkerState
  <2>3. Analysing' = Analysing /\ AnalyserRows' = AnalyserRows /\ Leaving' = Leaving
    <3>1. analyser[a].pc = "recv"
      BY <1>7 DEF AnalyserStops, CanSendBlock
    <3>2. /\ Analysing' = Analysing - (IF analyser[a].pc \in {"leave", "analyse"} THEN 1 ELSE 0)
                           + (IF v.pc \in {"leave", "analyse"} THEN 1 ELSE 0)
          /\ AnalyserRows' = AnalyserRows - (IF analyser[a].pc \in {"sendWrite"} THEN 1 ELSE 0)
                              + (IF v.pc \in {"sendWrite"} THEN 1 ELSE 0)
          /\ Leaving' = Leaving - (IF analyser[a].pc \in {"leave"} THEN 1 ELSE 0)
                         + (IF v.pc \in {"leave"} THEN 1 ELSE 0)
      BY <2>2, AnalyserKinds
    <3>. QED
      BY <1>3, <2>2, <3>1, <3>2
  <2>4. UNCHANGED <<todo, fetcher, main, range, writer, pending, WriterGone, m, slotQ, rawQ, lost, BlocksQueued, Verdicts>>
    BY <1>7 DEF AnalyserStops, BlocksQueued, Verdicts, WriterGone
  <2>5. InGauge' = InGauge /\ Upstream' = Upstream /\ Downstream' = Downstream
    <3>1. InGauge' = InGauge
      BY <1>3, <1>5, <1>sums, <2>3, <2>4 DEF InGauge
    <3>2. Upstream' = Upstream
      <4>1. Upstream' = Cardinality(todo) + Len(slotQ) + Len(rawQ) + Fetching
                          + Analysing + Cardinality(lost)
        BY <1>5, <2>3, <2>4 DEF Upstream
      <4>. QED
        BY <1>3, <1>sums, <4>1, SMTT(20) DEF Upstream
    <3>3. Downstream' = Downstream
      BY <1>3, <1>5, <1>sums, <2>3, <2>4 DEF Downstream
    <3>. QED
      BY <3>1, <3>2, <3>3
  <2>. QED
    BY <1>types, <2>3, <2>4, <2>5 DEF Balance
<1>8. CASE Analysed(a)
  <2>1. PICK v : v = Sending(analyser[a], "done")
    OBVIOUS
  <2>2. analyser' = [analyser EXCEPT ![a] = v] /\ v.pc = "sendWrite"
    BY <1>1, <1>4, <1>8, <2>1 DEF Analysed, WorkerState, Sending
  <2>3. Analysing' = Analysing - 1 /\ AnalyserRows' = AnalyserRows + 1 /\ Leaving' = Leaving
    <3>1. analyser[a].pc = "analyse"
      BY <1>8 DEF Analysed, CanSendBlock
    <3>2. /\ Analysing' = Analysing - (IF analyser[a].pc \in {"leave", "analyse"} THEN 1 ELSE 0)
                           + (IF v.pc \in {"leave", "analyse"} THEN 1 ELSE 0)
          /\ AnalyserRows' = AnalyserRows - (IF analyser[a].pc \in {"sendWrite"} THEN 1 ELSE 0)
                              + (IF v.pc \in {"sendWrite"} THEN 1 ELSE 0)
          /\ Leaving' = Leaving - (IF analyser[a].pc \in {"leave"} THEN 1 ELSE 0)
                         + (IF v.pc \in {"leave"} THEN 1 ELSE 0)
      BY <2>2, AnalyserKinds
    <3>. QED
      BY <1>3, <2>2, <3>1, <3>2
  <2>4. /\ m'.writeQueue = m.writeQueue + 1 /\ m'.fetchQueue = m.fetchQueue
        /\ m'.total = m.total /\ m'.already = m.already /\ m'.written = m.written
        /\ Verdicts' = Verdicts + 1
    BY <1>1, <1>8, CountEffect DEF Analysed, Outcome
  <2>5. UNCHANGED <<todo, fetcher, main, range, writer, pending, WriterGone, slotQ, rawQ, lost, BlocksQueued>>
    BY <1>8 DEF Analysed, BlocksQueued, Verdicts, WriterGone
  <2>6. InGauge' = InGauge /\ Upstream' = Upstream - 1 /\ Downstream' = Downstream + 1
    <3>1. InGauge' = InGauge
      BY <1>3, <1>5, <1>sums, <2>3, <2>4, <2>5 DEF InGauge
    <3>2. Upstream' = Upstream - 1
      <4>1. Upstream' = Cardinality(todo) + Len(slotQ) + Len(rawQ) + Fetching
                          + (Analysing - 1) + Cardinality(lost)
        BY <1>5, <2>3, <2>4, <2>5 DEF Upstream
      <4>. QED
        BY <1>3, <1>sums, <4>1, SMTT(20) DEF Upstream
    <3>3. Downstream' = Downstream + 1
      BY <1>3, <1>5, <1>sums, <2>3, <2>4, <2>5 DEF Downstream
    <3>. QED
      BY <3>1, <3>2, <3>3
  <2>7. /\ main # "down" => m'.total = m'.already + Verdicts' + Upstream'
        /\ main # "down" /\ range # {} /\ ~WriterGone
             => Verdicts' = m'.written + Len(pending) + Downstream'
    <3>1. \A x, y, z \in Nat : x + (y + 1) + (z - 1) = x + y + z
      OBVIOUS
    <3>2. main # "down" => m.total = m.already + Verdicts + Upstream
      BY DEF Balance
    <3>3. main # "down" => m'.total = m'.already + Verdicts' + Upstream'
      <4>1. PICK before \in Nat : before = m.already
        BY <1>types
      <4>2. Verdicts \in Nat /\ Upstream \in Nat
        BY <1>types
      <4>3. before + (Verdicts + 1) + (Upstream - 1) = before + Verdicts + Upstream
        BY <3>1, <4>2
      <4>4. /\ m'.total = m.total /\ m'.already = m.already
            /\ Verdicts' = Verdicts + 1 /\ Upstream' = Upstream - 1
        BY <2>4, <2>6, Zenon
      <4>. QED
        BY <3>2, <4>1, <4>3, <4>4, Zenon
    <3>4. main # "down" /\ range # {} /\ ~WriterGone
            => Verdicts' = m'.written + Len(pending) + Downstream'
      <4>1. m'.written = m.written /\ Verdicts' = Verdicts + 1 /\ Downstream' = Downstream + 1
        BY <2>4, <2>6
      <4>2. main # "down" /\ range # {} /\ ~WriterGone
              => Verdicts = m.written + Len(pending) + Downstream
        BY DEF Balance
      <4>3. \A x, y, z \in Nat : x + y + (z + 1) = (x + y + z) + 1
        OBVIOUS
      <4>4. m.written \in Nat /\ Len(pending) \in Nat /\ Downstream \in Nat
        BY <1>types
      <4>5. m.written + Len(pending) + (Downstream + 1) = (m.written + Len(pending) + Downstream) + 1
        BY <4>3, <4>4
      <4>. QED
        BY <4>1, <4>2, <4>5, Zenon
    <3>. QED
      BY <3>3, <3>4
  <2>8. /\ m'.fetchQueue = InGauge' + Leaving'
        /\ ~WriterGone => m'.writeQueue = Downstream' + InHand'
    BY <1>types, <2>3, <2>4, <2>6 DEF Balance
  <2>. QED
    BY <2>5, <2>7, <2>8 DEF Balance
<1>9. CASE AnalysisPanics(a)
  <2>1. PICK v : v = Goto(IF AnalyseOnRuntime THEN "off" ELSE "recv")
    OBVIOUS
  <2>2. analyser' = [analyser EXCEPT ![a] = v] /\ v.pc \in {"off", "recv"}
    BY <1>1, <1>4, <1>9, <2>1 DEF AnalysisPanics, WorkerState
  <2>3. Analysing' = Analysing - 1 /\ AnalyserRows' = AnalyserRows /\ Leaving' = Leaving
    <3>1. analyser[a].pc = "analyse"
      BY <1>9 DEF AnalysisPanics, CanSendBlock
    <3>2. /\ Analysing' = Analysing - (IF analyser[a].pc \in {"leave", "analyse"} THEN 1 ELSE 0)
                           + (IF v.pc \in {"leave", "analyse"} THEN 1 ELSE 0)
          /\ AnalyserRows' = AnalyserRows - (IF analyser[a].pc \in {"sendWrite"} THEN 1 ELSE 0)
                              + (IF v.pc \in {"sendWrite"} THEN 1 ELSE 0)
          /\ Leaving' = Leaving - (IF analyser[a].pc \in {"leave"} THEN 1 ELSE 0)
                         + (IF v.pc \in {"leave"} THEN 1 ELSE 0)
      BY <2>2, AnalyserKinds
    <3>. QED
      BY <1>3, <2>2, <3>1, <3>2
  <2>4. Cardinality(lost)' = Cardinality(lost) + 1
    <3>1. lost' = lost \cup {analyser[a].slot} /\ analyser[a].pc = "analyse"
      BY <1>9 DEF AnalysisPanics
    <3>2. analyser[a].slot \notin lost
      BY <3>1 DEF Shape, WorkersConsistent, Consistent
    <3>3. IsFiniteSet(lost)
      BY <1>2, SlotSetsFinite
    <3>. QED
      BY <3>1, <3>2, <3>3, FS_AddElement
  <2>5. UNCHANGED <<todo, fetcher, main, range, writer, pending, WriterGone, m, slotQ, rawQ, BlocksQueued, Verdicts>>
    BY <1>9 DEF AnalysisPanics, BlocksQueued, Verdicts, WriterGone
  <2>6. InGauge' = InGauge /\ Upstream' = Upstream /\ Downstream' = Downstream
    <3>1. InGauge' = InGauge
      BY <1>3, <1>5, <1>sums, <2>3, <2>4, <2>5 DEF InGauge
    <3>2. Upstream' = Upstream
      <4>1. Upstream' = Cardinality(todo) + Len(slotQ) + Len(rawQ) + Fetching
                          + (Analysing - 1) + (Cardinality(lost) + 1)
        BY <1>5, <2>3, <2>4, <2>5 DEF Upstream
      <4>. QED
        BY <1>3, <1>sums, <4>1, SMTT(20) DEF Upstream
    <3>3. Downstream' = Downstream
      BY <1>3, <1>5, <1>sums, <2>3, <2>4, <2>5 DEF Downstream
    <3>. QED
      BY <3>1, <3>2, <3>3
  <2>. QED
    BY <1>types, <2>3, <2>4, <2>5, <2>6 DEF Balance
<1>10. CASE AnalyserSends(a)
  <2>1. PICK v : v = Goto("recv")
    OBVIOUS
  <2>2. analyser' = [analyser EXCEPT ![a] = v] /\ v.pc = "recv"
    BY <1>1, <1>4, <1>10, <2>1 DEF AnalyserSends, WorkerState
  <2>3. Analysing' = Analysing /\ AnalyserRows' = AnalyserRows - 1 /\ Leaving' = Leaving
    <3>1. analyser[a].pc = "sendWrite"
      BY <1>10 DEF AnalyserSends, CanSendBlock
    <3>2. /\ Analysing' = Analysing - (IF analyser[a].pc \in {"leave", "analyse"} THEN 1 ELSE 0)
                           + (IF v.pc \in {"leave", "analyse"} THEN 1 ELSE 0)
          /\ AnalyserRows' = AnalyserRows - (IF analyser[a].pc \in {"sendWrite"} THEN 1 ELSE 0)
                              + (IF v.pc \in {"sendWrite"} THEN 1 ELSE 0)
          /\ Leaving' = Leaving - (IF analyser[a].pc \in {"leave"} THEN 1 ELSE 0)
                         + (IF v.pc \in {"leave"} THEN 1 ELSE 0)
      BY <2>2, AnalyserKinds
    <3>. QED
      BY <1>3, <2>2, <3>1, <3>2
  <2>4. BlocksQueued' = BlocksQueued + 1
    <3>1. Block(analyser[a].slot, analyser[a].status) \in BlockMsg
      BY <1>1, <1>10 DEF AnalyserSends, CanSendBlock, WorkerState, Shape, WorkersConsistent,
                         Consistent, Block, BlockMsg
    <3>2. Weight(Block(analyser[a].slot, analyser[a].status)) = 1
      BY DEF Weight, IsBlock, Block
    <3>. QED
      <4>1. writeQ' = Append(writeQ, Block(analyser[a].slot, analyser[a].status))
        BY <1>10 DEF AnalyserSends
      <4>2. Cardinality(BlockPlaces(writeQ')) = Cardinality(BlockPlaces(writeQ)) + 1
        BY <1>2, <3>1, <3>2, <4>1, BlocksSent
      <4>. QED
        BY <4>2 DEF BlocksQueued, BlockPlaces
  <2>5. UNCHANGED <<todo, fetcher, main, range, writer, pending, WriterGone, m, slotQ, rawQ, lost, Verdicts>>
    BY <1>10 DEF AnalyserSends, BlocksQueued, Verdicts, WriterGone
  <2>6. InGauge' = InGauge /\ Upstream' = Upstream /\ Downstream' = Downstream
    <3>1. InGauge' = InGauge
      BY <1>3, <1>5, <1>sums, <2>3, <2>4, <2>5 DEF InGauge
    <3>2. Upstream' = Upstream
      <4>1. Upstream' = Cardinality(todo) + Len(slotQ) + Len(rawQ) + Fetching
                          + Analysing + Cardinality(lost)
        BY <1>5, <2>3, <2>4, <2>5 DEF Upstream
      <4>. QED
        BY <1>3, <1>sums, <4>1, SMTT(20) DEF Upstream
    <3>3. Downstream' = Downstream
      BY <1>3, <1>5, <1>sums, <2>3, <2>4, <2>5 DEF Downstream
    <3>. QED
      BY <3>1, <3>2, <3>3
  <2>. QED
    BY <1>types, <2>3, <2>4, <2>5, <2>6 DEF Balance
<1>11. CASE AnalyserGivesUp(a)
  <2>1. PICK v : v = Goto("off")
    OBVIOUS
  <2>2. analyser' = [analyser EXCEPT ![a] = v] /\ v.pc = "off"
    BY <1>1, <1>4, <1>11, <2>1 DEF AnalyserGivesUp, WorkerState
  <2>3. Analysing' = Analysing /\ AnalyserRows' = AnalyserRows - 1 /\ Leaving' = Leaving
    <3>1. analyser[a].pc = "sendWrite"
      BY <1>11 DEF AnalyserGivesUp, CanSendBlock
    <3>2. /\ Analysing' = Analysing - (IF analyser[a].pc \in {"leave", "analyse"} THEN 1 ELSE 0)
                           + (IF v.pc \in {"leave", "analyse"} THEN 1 ELSE 0)
          /\ AnalyserRows' = AnalyserRows - (IF analyser[a].pc \in {"sendWrite"} THEN 1 ELSE 0)
                              + (IF v.pc \in {"sendWrite"} THEN 1 ELSE 0)
          /\ Leaving' = Leaving - (IF analyser[a].pc \in {"leave"} THEN 1 ELSE 0)
                         + (IF v.pc \in {"leave"} THEN 1 ELSE 0)
      BY <2>2, AnalyserKinds
    <3>. QED
      BY <1>3, <2>2, <3>1, <3>2
  <2>4. /\ m'.writeQueue = m.writeQueue - 1 /\ m'.fetchQueue = m.fetchQueue
        /\ m'.total = m.total /\ m'.already = m.already /\ m'.written = m.written
        /\ Verdicts' = Verdicts /\ WriterGone
    <3>1. m \in MetricsType /\ -1 \in Int /\ Gauge("writeQueue", -1) /\ WriterGone
      BY <1>1, <1>11 DEF AnalyserGivesUp
    <3>2. m.writeQueue + -1 = m.writeQueue - 1
      BY <1>1 DEF QuantitiesOK
    <3>. QED
      BY <3>1, <3>2, GaugeEffect
  <2>5. UNCHANGED <<todo, fetcher, main, range, writer, pending, WriterGone, slotQ, rawQ, lost, BlocksQueued>>
    BY <1>11 DEF AnalyserGivesUp, BlocksQueued, Verdicts, WriterGone
  <2>6. InGauge' = InGauge /\ Upstream' = Upstream /\ Downstream' = Downstream - 1
    <3>1. InGauge' = InGauge
      BY <1>3, <1>5, <1>sums, <2>3, <2>4, <2>5 DEF InGauge
    <3>2. Upstream' = Upstream
      <4>1. Upstream' = Cardinality(todo) + Len(slotQ) + Len(rawQ) + Fetching
                          + Analysing + Cardinality(lost)
        BY <1>5, <2>3, <2>4, <2>5 DEF Upstream
      <4>. QED
        BY <1>3, <1>sums, <4>1, SMTT(20) DEF Upstream
    <3>3. Downstream' = Downstream - 1
      BY <1>3, <1>5, <1>sums, <2>3, <2>4, <2>5 DEF Downstream
    <3>. QED
      BY <3>1, <3>2, <3>3
  <2>. QED
    BY <1>types, <2>3, <2>4, <2>5, <2>6 DEF Balance
<1>12. CASE AnalyserLeaves(a)
  <2>1. PICK v : v = [analyser[a] EXCEPT !.pc = "analyse"]
    OBVIOUS
  <2>2. analyser' = [analyser EXCEPT ![a] = v] /\ v.pc = "analyse"
    BY <1>1, <1>12, <2>1 DEF AnalyserLeaves, WorkerState
  <2>3. Analysing' = Analysing /\ AnalyserRows' = AnalyserRows /\ Leaving' = Leaving - 1
    <3>1. analyser[a].pc = "leave"
      BY <1>12 DEF AnalyserLeaves
    <3>2. /\ Analysing' = Analysing - (IF analyser[a].pc \in {"leave", "analyse"} THEN 1 ELSE 0)
                           + (IF v.pc \in {"leave", "analyse"} THEN 1 ELSE 0)
          /\ AnalyserRows' = AnalyserRows - (IF analyser[a].pc \in {"sendWrite"} THEN 1 ELSE 0)
                              + (IF v.pc \in {"sendWrite"} THEN 1 ELSE 0)
          /\ Leaving' = Leaving - (IF analyser[a].pc \in {"leave"} THEN 1 ELSE 0)
                         + (IF v.pc \in {"leave"} THEN 1 ELSE 0)
      BY <2>2, AnalyserKinds
    <3>. QED
      BY <1>3, <2>2, <3>1, <3>2
  <2>4. /\ m'.fetchQueue = m.fetchQueue - 1 /\ m'.writeQueue = m.writeQueue
        /\ m'.total = m.total /\ m'.already = m.already /\ m'.written = m.written
        /\ Verdicts' = Verdicts
    <3>1. m \in MetricsType /\ -1 \in Int /\ Gauge("fetchQueue", -1)
      BY <1>1, <1>12 DEF AnalyserLeaves
    <3>2. m.fetchQueue + -1 = m.fetchQueue - 1
      BY <1>1 DEF QuantitiesOK
    <3>. QED
      BY <3>1, <3>2, GaugeEffect
  <2>5. UNCHANGED <<todo, fetcher, main, range, writer, pending, WriterGone, slotQ, rawQ, lost, BlocksQueued>>
    BY <1>12 DEF AnalyserLeaves, BlocksQueued, WriterGone
  <2>6. InGauge' = InGauge /\ Upstream' = Upstream /\ Downstream' = Downstream
    <3>1. InGauge' = InGauge
      BY <1>5, <2>5 DEF InGauge
    <3>2. Upstream' = Upstream
      BY <1>5, <2>3, <2>5 DEF Upstream
    <3>3. Downstream' = Downstream
      BY <1>5, <2>3, <2>5 DEF Downstream
    <3>. QED
      BY <3>1, <3>2, <3>3
  <2>. QED
    BY <1>types, <2>3, <2>4, <2>5, <2>6 DEF Balance
<1>. QED
  BY <1>6, <1>7, <1>8, <1>9, <1>10, <1>11, <1>12 DEF AnalyserStep
-----------------------------------------------------------------------------
(* Before the range is selected                                            *)

\* A process that has not selected a range has counted nothing.
Untouched == main \in {"down", "resolve"} => range = {} /\ lost = {} /\ m = ZeroMetrics

\* Nothing in flight means empty channels, an empty batch and idle workers.
NothingQueued ==
  /\ slotQ = <<>> /\ rawQ = <<>> /\ pending = <<>>
  /\ BlockPlaces(writeQ) = {}
  /\ \A f \in Fetchers : fetcher[f].pc \in {"off", "recv"}
  /\ \A a \in Analysers : analyser[a].pc \in {"off", "recv"}

Still == todo = {} /\ NothingQueued

LEMMA NothingInFlight ==
  ASSUME Shape, InFlight = {}
  PROVE  Still
<1>1. /\ slotQ \in Seq(Slots) /\ rawQ \in Seq(Slots) /\ pending \in Seq(BlockMsg)
      /\ writeQ \in Seq(BlockMsg \cup ControlMsg)
  BY DEF Shape, TypeOK
<1>2. \A p \in Place : Held(p) = {}
  BY DEF InFlight
<1>3. /\ todo = {} /\ Elems(slotQ) = {} /\ Elems(rawQ) = {}
      /\ BlocksIn(writeQ) = {} /\ BlocksIn(pending) = {}
  BY <1>2, Places DEF PlaceTable
<1>4. slotQ = <<>> /\ rawQ = <<>>
  <2>1. \A q \in Seq(Slots) : q # <<>> => Head(q) \in Elems(q)
    BY SlotReceived
  <2>. QED
    BY <1>1, <1>3, <2>1
<1>5. \A b \in BlockMsg : b.slot # NoSlot
  BY SlotsAssumption DEF BlockMsg, NoSlot
<1>6. pending = <<>>
  <2>1. pending # <<>> => Head(pending).slot \in BlocksIn(pending)
    <3>1. pending # <<>> => Head(pending) \in BlockMsg
      BY <1>1
    <3>. QED
      BY <1>1, <1>5, <3>1, MessageReceived
  <2>. QED
    BY <1>3, <2>1
<1>7. ASSUME NEW i \in BlockPlaces(writeQ)
      PROVE  FALSE
  <2>1. i \in DOMAIN writeQ /\ writeQ[i] \in BlockMsg \cup ControlMsg /\ IsBlock(writeQ[i])
    BY <1>1, <1>7 DEF BlockPlaces
  <2>2. writeQ[i] \in BlockMsg
    BY <2>1 DEF IsBlock, ControlMsg, Control
  <2>3. writeQ[i].slot \in BlocksIn(writeQ)
    BY <1>5, <2>1, <2>2 DEF BlocksIn
  <2>. QED
    BY <1>3, <2>3
<1>8. /\ \A f \in Fetchers : fetcher[f].slot = NoSlot
      /\ \A a \in Analysers : analyser[a].slot = NoSlot
  BY <1>2, Places DEF PlaceTable
<1>9. /\ \A f \in Fetchers : fetcher[f].pc \in {"off", "recv"}
      /\ \A a \in Analysers : analyser[a].pc \in {"off", "recv"}
  BY <1>8 DEF Shape, WorkersConsistent, Consistent
<1>. QED
  BY <1>3, <1>4, <1>6, <1>7, <1>9 DEF Still, NothingQueued

\* Then nothing counts.
Zeroes ==
  /\ Upstream = Cardinality(todo) + Cardinality(lost) /\ Downstream = 0 /\ InGauge = 0
  /\ Len(pending) = 0 /\ Leaving = 0 /\ InHand = 0

LEMMA NothingCounted == Shape /\ NothingQueued => Zeroes
<1>. SUFFICES ASSUME Shape, NothingQueued PROVE Zeroes
  OBVIOUS
<1>. USE DEF NothingQueued
<1>1. DOMAIN fetcher = Fetchers /\ DOMAIN analyser = Analysers
  BY DEF Shape, TypeOK
<1>2. /\ Fetching = 0 /\ SendingRaw = 0 /\ Analysing = 0
      /\ FetcherRows = 0 /\ AnalyserRows = 0 /\ Leaving = 0
  <2>1. /\ \A w \in DOMAIN fetcher : /\ fetcher[w].pc \notin {"fetch", "sendRaw"}
                                     /\ fetcher[w].pc \notin {"sendRaw"}
                                     /\ fetcher[w].pc \notin {"sendWrite"}
        /\ \A w \in DOMAIN analyser : /\ analyser[w].pc \notin {"leave"}
                                      /\ analyser[w].pc \notin {"leave", "analyse"}
                                      /\ analyser[w].pc \notin {"sendWrite"}
    BY <1>1
  <2>2. Fetching = 0
    BY <2>1, BusyNone DEF Fetching
  <2>3. SendingRaw = 0
    BY <2>1, BusyNone DEF SendingRaw
  <2>4. FetcherRows = 0
    BY <2>1, BusyNone DEF FetcherRows
  <2>5. Analysing = 0
    BY <2>1, BusyNone DEF Analysing
  <2>6. AnalyserRows = 0
    BY <2>1, BusyNone DEF AnalyserRows
  <2>7. Leaving = 0
    BY <2>1, BusyNone DEF Leaving
  <2>. QED
    BY <2>2, <2>3, <2>4, <2>5, <2>6, <2>7
<1>3. BlocksQueued = 0
  BY FS_EmptySet DEF BlocksQueued, BlockPlaces
<1>4. Len(slotQ) = 0 /\ Len(rawQ) = 0 /\ Len(pending) = 0
  OBVIOUS
<1>5. Cardinality(todo) \in Nat /\ Cardinality(lost) \in Nat
  BY QuantityTypes DEF QuantitiesOK
<1>6. InHand = 0
  BY DEF InHand, Shape, BatchConsistent
<1>. QED
  BY <1>2, <1>3, <1>4, <1>5, <1>6 DEF Zeroes, Upstream, Downstream, InGauge

LEMMA NothingCountedNext == Shape' /\ NothingQueued' => Zeroes'
  BY NothingCounted, PTL

LEMMA UntouchedNext ==
  ASSUME Shape, Quiet, Untouched, [Next]_vars
  PROVE  Untouched'
<1>. USE DEF Untouched, persistent, queues, workers, thread, bounds
<1>1. CASE ProcessEnds
  BY <1>1 DEF ProcessEnds
<1>2. CASE MainStep
  BY <1>1, <1>2 DEF MainStep, SelectRange, Feed, CloseSlots, FinishRun, SendRebuild,
                    RebuildReturns, SendShutdown, Exit, AfterIngest
<1>3. CASE EnvironmentStep
  BY <1>1, <1>3 DEF EnvironmentStep, Start, StartServeOnly, RunFails, Crash, CtrlC, ApiPause,
                    AfterIngest
<1>4. main \in {"down", "resolve"} => Still
  BY NothingInFlight DEF Quiet
<1>5. ASSUME NEW f \in Fetchers, FetcherStep(f)
      PROVE  Untouched'
  BY <1>4, <1>5 DEF FetcherStep, FetcherRecv, FetcherStops, FetchedBlock, FetchedNoBlock,
                    SendRaw, FetcherSends, FetcherGivesUp, At, CanSendBlock, Still, NothingQueued
<1>6. ASSUME NEW a \in Analysers, AnalyserStep(a)
      PROVE  Untouched'
  BY <1>4, <1>6 DEF AnalyserStep, AnalyserRecv, AnalyserLeaves, AnalyserStops, Analysed, AnalysisPanics,
                    AnalyserSends, AnalyserGivesUp, At, CanSendBlock, Still, NothingQueued
<1>7. CASE WriterStep
  <2>1. writeQ \in Seq(BlockMsg \cup ControlMsg)
    BY DEF Shape, TypeOK
  <2>2. BlockPlaces(writeQ) = {} /\ writeQ # <<>> => ~IsBlock(Head(writeQ))
    <3>1. writeQ # <<>> => 1 \in DOMAIN writeQ /\ Head(writeQ) = writeQ[1]
      BY <2>1
    <3>. QED
      BY <3>1 DEF BlockPlaces
  <2>3. CASE Commit
    <3>1. [ZeroMetrics EXCEPT !.written = 0] = ZeroMetrics /\ ZeroMetrics.written = 0
      BY DEF ZeroMetrics
    <3>2. main \in {"down", "resolve"} => [m EXCEPT !.written = @ + Len(pending)] = ZeroMetrics
      <4>1. ASSUME main \in {"down", "resolve"}
            PROVE  m.written + Len(pending) = 0 /\ m = ZeroMetrics
        BY <1>4, <3>1, <4>1 DEF Still, NothingQueued
      <4>. QED
        BY <3>1, <4>1
    <3>. QED
      BY <2>3, <3>2 DEF Commit
  <2>4. CASE WriterStep /\ ~Commit
    <3>1. main \in {"down", "resolve"} => writer # "leave"
      BY <1>4 DEF Still, NothingQueued, Shape, BatchConsistent
    <3>. QED
      BY <1>4, <2>2, <2>4, <3>1 DEF WriterStep, WriterRecv, WriterLeaves, WriterTakesMore,
           WriterEndsBatch, CommitFails, WriterPauses, WriterResumes, RebuildCandles,
           WriterStops, Still, NothingQueued
  <2>. QED
    BY <1>7, <2>3, <2>4
<1>8. CASE UNCHANGED vars
  BY <1>8 DEF vars
<1>. QED
  BY <1>2, <1>3, <1>5, <1>6, <1>7, <1>8 DEF Next, Terminated

\* A step that moves nothing the balance is made of.
LEMMA BalanceKept ==
  ASSUME Balance, UNCHANGED <<todo, queues, workers, lost, range, pending>>,
         main' # "down" => main # "down", ~WriterGone' => ~WriterGone,
         UNCHANGED InHand,
         m' = m \/ m' = [m EXCEPT !.ingestDone = TRUE], m \in MetricsType
  PROVE  Balance'
<1>. USE DEF queues, workers
<1>1. UNCHANGED <<Upstream, Downstream, InGauge, Leaving>>
  BY DEF Upstream, Downstream, InGauge, Fetching, SendingRaw, Analysing, FetcherRows,
         AnalyserRows, BlocksQueued, Leaving
<1>2. /\ m'.fetchQueue = m.fetchQueue /\ m'.writeQueue = m.writeQueue
      /\ m'.total = m.total /\ m'.already = m.already /\ m'.written = m.written
      /\ Verdicts' = Verdicts
  BY DEF MetricsType, Verdicts
<1>. QED
  BY <1>1, <1>2 DEF Balance

\* So does one that sends a control message.
LEMMA BalanceControl ==
  ASSUME Shape, Balance, NEW t \in {"pause", "rebuild", "shutdown"}, SendControl(t),
         UNCHANGED <<todo, slotQ, rawQ, workers, lost, range, pending, m, writer>>,
         main # "down"
  PROVE  Balance'
<1>. USE DEF workers
<1>1. writeQ \in Seq(BlockMsg \cup ControlMsg) /\ Control(t) \in BlockMsg \cup ControlMsg
  BY DEF Shape, TypeOK, ControlMsg
<1>2. Weight(Control(t)) = 0
  BY DEF Weight, IsBlock, Control
<1>3. BlocksQueued' = BlocksQueued
  <2>1. Cardinality(BlockPlaces(Append(writeQ, Control(t))))
          = Cardinality(BlockPlaces(writeQ)) + Weight(Control(t))
    BY <1>1, BlocksSent
  <2>2. Cardinality(BlockPlaces(writeQ)) \in Nat
    BY <1>1, BlocksFinite
  <2>3. BlocksQueued = Cardinality(BlockPlaces(writeQ))
    BY DEF BlocksQueued, BlockPlaces
  <2>4. BlocksQueued' = Cardinality(BlockPlaces(Append(writeQ, Control(t))))
    BY DEF BlocksQueued, BlockPlaces, SendControl
  <2>. QED
    BY <1>2, <2>1, <2>2, <2>3, <2>4
<1>4. UNCHANGED <<Upstream, Downstream, InGauge, Leaving, InHand, Verdicts, WriterGone>>
  BY <1>3 DEF Upstream, Downstream, InGauge, Fetching, SendingRaw, Analysing, FetcherRows,
         AnalyserRows, Leaving, InHand, Verdicts, WriterGone
<1>. QED
  BY <1>4 DEF Balance

\* The sizes of two disjoint sets of slots add up.
LEMMA DisjointUnion ==
  ASSUME NEW S \in SUBSET Slots, NEW T \in SUBSET Slots, S \cap T = {}
  PROVE  Cardinality(S \cup T) = Cardinality(S) + Cardinality(T)
<1>1. /\ IsFiniteSet(S) /\ IsFiniteSet(T)
      /\ Cardinality(S) \in Nat /\ Cardinality(T) \in Nat
  BY SlotSetsFinite
<1>2. Cardinality(S \cup T) = Cardinality(S) + Cardinality(T) - Cardinality(S \cap T)
  BY <1>1, FS_Union
<1>3. Cardinality(S \cap T) = 0
  BY FS_EmptySet
<1>. QED
  BY <1>1, <1>2, <1>3

\* The counters of a --serve-only process are those of the stored rows, each of
\* which has one status.
LEMMA StoredStatsBalance ==
  ASSUME db \in [Slots -> Outcome \cup {"none"}]
  PROVE  StoredStats.total = StoredStats.done + StoredStats.skipped + StoredStats.failed
<1>. DEFINE Rows(st) == {s \in Slots : db[s] = st}
<1>1. /\ {s \in Slots : db[s] # "none"} = Rows("done") \cup (Rows("skipped") \cup Rows("failed"))
      /\ Rows("skipped") \cap Rows("failed") = {}
      /\ Rows("done") \cap (Rows("skipped") \cup Rows("failed")) = {}
      /\ DoneSlots = Rows("done")
  BY DEF Outcome, DoneSlots
<1>2. /\ Rows("done") \in SUBSET Slots /\ Rows("skipped") \in SUBSET Slots
      /\ Rows("failed") \in SUBSET Slots
      /\ Rows("skipped") \cup Rows("failed") \in SUBSET Slots
  OBVIOUS
<1>3. /\ StoredStats.total = Cardinality({s \in Slots : db[s] # "none"})
      /\ StoredStats.done = Cardinality(DoneSlots)
      /\ StoredStats.skipped = Cardinality(Rows("skipped"))
      /\ StoredStats.failed = Cardinality(Rows("failed"))
  BY DEF StoredStats, ZeroMetrics
<1>. HIDE DEF Rows
<1>4. /\ Cardinality(Rows("done")) \in Nat /\ Cardinality(Rows("skipped")) \in Nat
      /\ Cardinality(Rows("failed")) \in Nat
  BY <1>2, SlotSetsFinite
<1>5. Cardinality(Rows("skipped") \cup Rows("failed"))
        = Cardinality(Rows("skipped")) + Cardinality(Rows("failed"))
  BY <1>1, <1>2, DisjointUnion
<1>6. Cardinality(Rows("done") \cup (Rows("skipped") \cup Rows("failed")))
        = Cardinality(Rows("done")) + Cardinality(Rows("skipped") \cup Rows("failed"))
  BY <1>1, <1>2, DisjointUnion
<1>7. StoredStats.total = Cardinality(Rows("done"))
                            + (Cardinality(Rows("skipped")) + Cardinality(Rows("failed")))
  BY <1>1, <1>3, <1>5, <1>6
<1>8. StoredStats.done = Cardinality(Rows("done"))
  BY <1>1, <1>3
<1>. QED
  BY <1>3, <1>4, <1>7, <1>8

\* The counters balance after every step of main and of the environment.
LEMMA BalanceMain ==
  ASSUME Shape, Shape', Quiet, Untouched, Balance,
         MainStep \/ EnvironmentStep \/ UNCHANGED vars
  PROVE  Balance'
<1>. USE DEF persistent, queues, workers, thread, bounds
<1>1. QuantitiesOK /\ QuantitiesOK' /\ m \in MetricsType
  BY QuantityTypes, QuantityTypesNext DEF Shape, TypeOK
<1>2. main \in {"down", "resolve"} => Still /\ Zeroes
  BY NothingInFlight, NothingCounted DEF Quiet, Still
<1>3. ZeroMetrics \in MetricsType
  BY DEF ZeroMetrics, MetricsType
<1>4. CASE ProcessEnds
  <2>1. NothingQueued'
    BY <1>4 DEF ProcessEnds, NothingQueued, NoWorker, Idle, BlockPlaces
  <2>2. Zeroes' /\ main' = "down" /\ m' = ZeroMetrics /\ writer' = "recv"
    BY <1>4, <2>1, NothingCountedNext DEF ProcessEnds
  <2>. QED
    BY <2>2 DEF Balance, Zeroes, ZeroMetrics
<1>5. CASE SelectRange
  <2>1. PICK r \in Ranges :
          /\ todo' = r \ Completed(r)
          /\ m' = [m EXCEPT !.total = Cardinality(r),
                            !.already = Cardinality(Completed(r)),
                            !.ingestDone = (r \ Completed(r) = {})]
    BY <1>5 DEF SelectRange
  <2>2. Still /\ range = {} /\ lost = {} /\ m = ZeroMetrics
    BY <1>2, <1>5 DEF SelectRange, Untouched
  <2>3. Zeroes'
    <3>1. /\ slotQ' = <<>> /\ rawQ' = <<>> /\ pending' = <<>> /\ BlockPlaces(writeQ)' = {}
          /\ \A f \in Fetchers : fetcher'[f].pc \in {"off", "recv"}
          /\ \A a \in Analysers : analyser'[a].pc \in {"off", "recv"}
      BY <1>5, <2>2 DEF SelectRange, Still, NothingQueued, SpawnedWorker, Idle, BlockPlaces
    <3>. QED
      BY <3>1, NothingCountedNext DEF NothingQueued
  <2>4. Cardinality(lost') = 0
    BY <1>5, <2>2, FS_EmptySet DEF SelectRange
  <2>5. Cardinality(r) = Cardinality(Completed(r)) + Cardinality(todo')
    <3>1. /\ Completed(r) \in SUBSET Slots /\ todo' \in SUBSET Slots
          /\ Completed(r) \cap todo' = {} /\ Completed(r) \cup todo' = r
      BY <2>1, SlotsAssumption DEF Completed
    <3>. QED
      BY <3>1, DisjointUnion
  <2>6. /\ m'.fetchQueue = 0 /\ m'.writeQueue = 0 /\ m'.total = Cardinality(r)
        /\ m'.already = Cardinality(Completed(r)) /\ m'.written = 0
        /\ m'.done = 0 /\ m'.skipped = 0 /\ m'.failed = 0
    BY <2>1, <2>2 DEF ZeroMetrics
  <2>7. Verdicts' = 0
    BY <2>6 DEF Verdicts
  <2>8. Upstream' = Cardinality(todo')
    <3>1. Upstream' = Cardinality(todo') + Cardinality(lost')
      BY <2>3 DEF Zeroes
    <3>2. Cardinality(todo') \in Nat
      BY <1>1 DEF QuantitiesOK
    <3>. QED
      BY <2>4, <3>1, <3>2
  <2>9. m'.total = m'.already + Verdicts' + Upstream'
    <3>1. Cardinality(todo') \in Nat /\ m'.already \in Nat
      BY <1>1 DEF QuantitiesOK
    <3>2. m'.total = m'.already + Cardinality(todo')
      BY <2>5, <2>6
    <3>. QED
      BY <2>7, <2>8, <3>1, <3>2
  <2>. QED
    BY <2>3, <2>6, <2>7, <2>9 DEF Balance, Zeroes
<1>6. CASE Feed
  <2>1. PICK s \in todo : slotQ' = Append(slotQ, s) /\ todo' = todo \ {s}
    BY <1>6 DEF Feed
  <2>2. slotQ \in Seq(Slots) /\ s \in Slots /\ IsFiniteSet(todo)
    BY SlotSetsFinite DEF Shape, TypeOK
  <2>3. Len(slotQ') = Len(slotQ) + 1
    BY <2>1, <2>2
  <2>4. Cardinality(todo') = Cardinality(todo) - 1
    BY <2>1, <2>2, FS_RemoveElement
  <2>5. /\ UNCHANGED <<Fetching, SendingRaw, Analysing, FetcherRows, AnalyserRows,
                       Leaving, InHand, BlocksQueued, Verdicts, WriterGone>>
        /\ UNCHANGED <<rawQ, m, range, main, pending, lost>>
    BY <1>6 DEF Feed, Fetching, SendingRaw, Analysing, FetcherRows, AnalyserRows,
                Leaving, InHand, BlocksQueued, Verdicts, WriterGone
  <2>6. UNCHANGED <<Downstream, InGauge>>
    BY <2>5 DEF Downstream, InGauge
  <2>7. Upstream' = Upstream
    <3>1. Upstream' = (Cardinality(todo) - 1) + (Len(slotQ) + 1) + Len(rawQ) + Fetching
                        + Analysing + Cardinality(lost)
      BY <2>3, <2>4, <2>5 DEF Upstream
    <3>2. /\ Cardinality(todo) \in Nat /\ Len(slotQ) \in Nat /\ Len(rawQ) \in Nat
          /\ Fetching \in Nat /\ Analysing \in Nat /\ Cardinality(lost) \in Nat
      BY <1>1 DEF QuantitiesOK
    <3>. QED
      BY <3>1, <3>2 DEF Upstream
  <2>. QED
    BY <2>5, <2>6, <2>7 DEF Balance
<1>7. CASE CloseSlots \/ RebuildReturns \/ CtrlC \/ FinishRun
  <2>1. /\ UNCHANGED <<todo, queues, workers, lost, range, pending>>
        /\ main # "down" /\ UNCHANGED <<WriterGone, InHand>>
        /\ m' = m \/ m' = [m EXCEPT !.ingestDone = TRUE]
    BY <1>7 DEF CloseSlots, RebuildReturns, CtrlC, FinishRun, WriterGone, InHand
  <2>. QED
    BY <1>1, <2>1, BalanceKept
<1>8. CASE UNCHANGED vars
  BY <1>1, <1>8, BalanceKept DEF vars, WriterGone, InHand
<1>9. CASE SendRebuild \/ SendShutdown \/ ApiPause
  <2>1. /\ UNCHANGED <<todo, slotQ, rawQ, workers, lost, range, pending, m, writer>>
        /\ main # "down"
        /\ \E t \in {"pause", "rebuild", "shutdown"} : SendControl(t)
    BY <1>9 DEF SendRebuild, SendShutdown, ApiPause
  <2>. QED
    BY <2>1, BalanceControl
<1>10. CASE Start
  <2>1. /\ UNCHANGED <<Upstream, Downstream, InGauge, Leaving, InHand, Verdicts>>
        /\ UNCHANGED <<m, range, pending>>
    BY <1>10 DEF Start, Upstream, Downstream, InGauge, Fetching, SendingRaw, Analysing,
                 FetcherRows, AnalyserRows, Leaving, InHand, BlocksQueued, Verdicts
  <2>2. Still /\ Zeroes /\ range = {} /\ lost = {} /\ m = ZeroMetrics
    BY <1>2, <1>10 DEF Start, Untouched
  <2>3. Upstream = 0
    BY <2>2, FS_EmptySet DEF Still, Zeroes
  <2>. QED
    BY <2>1, <2>2, <2>3 DEF Balance, Zeroes, ZeroMetrics, Verdicts
<1>11. CASE StartServeOnly
  <2>1. /\ UNCHANGED <<Upstream, Downstream, InGauge, Leaving, InHand>>
        /\ UNCHANGED <<range, pending>> /\ m' = StoredStats
    BY <1>11 DEF StartServeOnly, Upstream, Downstream, InGauge, Fetching, SendingRaw,
                 Analysing, FetcherRows, AnalyserRows, Leaving, InHand, BlocksQueued
  <2>2. Still /\ Zeroes /\ range = {} /\ lost = {}
    BY <1>2, <1>11 DEF StartServeOnly, Untouched
  <2>3. Upstream = 0 /\ Downstream = 0 /\ InGauge = 0 /\ Leaving = 0 /\ InHand = 0
    BY <2>2, FS_EmptySet DEF Still, Zeroes
  <2>4. /\ m'.fetchQueue = 0 /\ m'.writeQueue = 0 /\ m'.already = 0
    BY <2>1 DEF StoredStats, ZeroMetrics
  <2>5. m'.total = Verdicts'
    <3>1. db \in [Slots -> Outcome \cup {"none"}]
      BY DEF Shape, TypeOK
    <3>. QED
      BY <2>1, <3>1, StoredStatsBalance DEF Verdicts
  <2>6. m'.total = m'.already + Verdicts' + Upstream'
    <3>1. Verdicts' \in Nat
      BY <1>1 DEF QuantitiesOK
    <3>2. Upstream' = 0
      BY <2>1, <2>3
    <3>3. \A n \in Nat : n = 0 + n + 0
      OBVIOUS
    <3>4. Verdicts' = 0 + Verdicts' + 0
      BY <3>1, <3>3
    <3>. QED
      BY <2>4, <2>5, <3>2, <3>4
  <2>7. /\ range' = {} /\ m'.fetchQueue = InGauge' + Leaving'
        /\ m'.writeQueue = Downstream' + InHand'
    BY <2>1, <2>2, <2>3, <2>4
  <2>. QED
    BY <2>6, <2>7 DEF Balance
<1>. QED
  BY <1>4, <1>5, <1>6, <1>7, <1>8, <1>9, <1>10, <1>11
     DEF MainStep, EnvironmentStep, Exit, RunFails, Crash

\* The counters balance after every step of the writer.
LEMMA BalanceWriter ==
  ASSUME Shape, Balance, WriterStep
  PROVE  Balance'
<1>. USE DEF persistent, queues, workers, thread, bounds
<1>1. QuantitiesOK /\ m \in MetricsType
  BY QuantityTypes DEF Shape, TypeOK
<1>2. writeQ \in Seq(BlockMsg \cup ControlMsg) /\ pending \in Seq(BlockMsg)
  BY DEF Shape, TypeOK
<1>types. /\ Upstream \in Nat /\ Downstream \in Nat /\ InGauge \in Nat /\ Verdicts \in Nat
          /\ m.already \in Nat /\ m.written \in Nat /\ Len(pending) \in Nat
          /\ m.writeQueue \in Int /\ Leaving \in Nat /\ InHand \in Nat
  BY <1>1 DEF QuantitiesOK
<1>3. ASSUME WriterRecv \/ WriterTakesMore
      PROVE  Balance'
  <2>1. /\ writeQ # <<>> /\ writeQ' = Tail(writeQ) /\ ~WriterGone /\ ~WriterGone'
        /\ UNCHANGED <<main, range, todo, slotQ, rawQ, workers, lost>>
        /\ IF IsBlock(Head(writeQ))
           THEN pending' = Append(pending, Head(writeQ)) /\ InHand' = 1
           ELSE pending' = pending /\ InHand' = 0
        /\ UNCHANGED <<m, Verdicts>> /\ InHand = 0
    BY <1>2, <1>3 DEF WriterRecv, WriterTakesMore, WriterGone, InHand, Verdicts
  <2>2. UNCHANGED <<Fetching, SendingRaw, Analysing, Leaving, FetcherRows, AnalyserRows>>
    BY <2>1 DEF Fetching, SendingRaw, Analysing, Leaving, FetcherRows, AnalyserRows
  <2>3. UNCHANGED <<Upstream, InGauge>>
    BY <2>1, <2>2 DEF Upstream, InGauge
  <2>4. BlocksQueued' = BlocksQueued - Weight(Head(writeQ))
    <3>1. Cardinality(BlockPlaces(Tail(writeQ)))
            = Cardinality(BlockPlaces(writeQ)) - Weight(Head(writeQ))
      BY <1>2, <2>1, BlocksReceived
    <3>2. BlocksQueued = Cardinality(BlockPlaces(writeQ))
      BY DEF BlocksQueued, BlockPlaces
    <3>3. BlocksQueued' = Cardinality(BlockPlaces(Tail(writeQ)))
      BY <2>1 DEF BlocksQueued, BlockPlaces
    <3>. QED
      BY <3>1, <3>2, <3>3
  <2>5. Weight(Head(writeQ)) \in {0, 1}
    BY DEF Weight
  <2>6. Downstream' = Downstream - Weight(Head(writeQ))
    <3>1. Downstream' = BlocksQueued - Weight(Head(writeQ)) + FetcherRows + AnalyserRows
      BY <2>2, <2>4 DEF Downstream
    <3>2. BlocksQueued \in Nat /\ FetcherRows \in Nat /\ AnalyserRows \in Nat
      BY <1>1 DEF QuantitiesOK
    <3>. QED
      BY <2>5, <3>1, <3>2 DEF Downstream
  <2>7. CASE IsBlock(Head(writeQ))
    <3>1. Weight(Head(writeQ)) = 1
      BY <2>7 DEF Weight
    <3>3. Len(pending') = Len(pending) + 1
      <4>1. Head(writeQ) \in BlockMsg
        <5>1. Head(writeQ) \in BlockMsg \cup ControlMsg
          BY <1>2, <2>1
        <5>. QED
          BY <2>7, <5>1 DEF IsBlock, ControlMsg, Control
      <4>. QED
        BY <1>2, <2>1, <2>7, <4>1, AppendProperties
    <3>4. Downstream' = Downstream - 1
      BY <2>6, <3>1
    <3>5. m'.fetchQueue = InGauge' + Leaving'
      BY <2>1, <2>2, <2>3 DEF Balance
    <3>6. m'.writeQueue = Downstream' + InHand'
      BY <1>types, <2>1, <2>7, <3>4 DEF Balance
    <3>7. main' # "down" => m'.total = m'.already + Verdicts' + Upstream'
      BY <2>1, <2>3 DEF Balance
    <3>8. main' # "down" /\ range' # {} => Verdicts' = m'.written + Len(pending') + Downstream'
      <4>1. \A x, y, z \in Nat : x + (y + 1) + (z - 1) = x + y + z
        OBVIOUS
      <4>2. main' # "down" /\ range' # {} => Verdicts = m.written + Len(pending) + Downstream
        BY <2>1 DEF Balance
      <4>. QED
        BY <1>types, <2>1, <3>3, <3>4, <4>1, <4>2
    <3>. QED
      BY <3>5, <3>6, <3>7, <3>8 DEF Balance
  <2>8. CASE ~IsBlock(Head(writeQ))
    <3>1. Weight(Head(writeQ)) = 0
      BY <2>8 DEF Weight
    <3>2. Downstream' = Downstream
      BY <1>types, <2>6, <3>1
    <3>3. UNCHANGED <<m, pending, Verdicts, InHand>>
      BY <2>1, <2>8
    <3>. QED
      BY <2>1, <2>2, <2>3, <3>2, <3>3 DEF Balance
  <2>. QED
    BY <2>7, <2>8
<1>4. CASE WriterEndsBatch \/ WriterPauses \/ WriterResumes \/ RebuildCandles
  <2>1. /\ UNCHANGED <<todo, queues, workers, lost, range, pending, main, m>>
        /\ ~WriterGone /\ UNCHANGED InHand
    BY <1>4 DEF WriterEndsBatch, WriterPauses, WriterResumes, RebuildCandles, WriterGone, InHand
  <2>. QED
    BY <1>1, <2>1, BalanceKept
<1>5. CASE Commit
  <2>1. /\ UNCHANGED <<Upstream, Downstream, InGauge, Leaving, InHand>>
        /\ UNCHANGED <<main, range>> /\ pending' = <<>> /\ ~WriterGone
        /\ m' = [m EXCEPT !.written = @ + Len(pending)]
    BY <1>5 DEF Commit, Upstream, Downstream, InGauge, Fetching, SendingRaw, Analysing,
                FetcherRows, AnalyserRows, Leaving, InHand, BlocksQueued, WriterGone
  <2>2. /\ m'.fetchQueue = m.fetchQueue /\ m'.writeQueue = m.writeQueue
        /\ m'.total = m.total /\ m'.already = m.already
        /\ m'.written = m.written + Len(pending) /\ Verdicts' = Verdicts
    BY <1>1, <2>1 DEF MetricsType, Verdicts
  <2>3. Len(pending') = 0
    BY <2>1
  <2>4. m'.written + Len(pending') = m.written + Len(pending)
    BY <1>types, <2>2, <2>3
  <2>. QED
    BY <2>1, <2>2, <2>4 DEF Balance
<1>6. CASE CommitFails \/ WriterStops
  <2>1. /\ WriterGone' /\ UNCHANGED <<todo, slotQ, rawQ, workers, lost, range, main, m>>
    BY <1>6 DEF CommitFails, WriterStops, WriterGone
  <2>2. UNCHANGED <<Upstream, InGauge, Leaving, Verdicts>>
    BY <2>1 DEF Upstream, InGauge, Leaving, Fetching, SendingRaw, Analysing, Verdicts
  <2>. QED
    BY <2>1, <2>2 DEF Balance
<1>7. CASE WriterLeaves
  <2>1. /\ UNCHANGED <<Upstream, Downstream, InGauge, Leaving>>
        /\ UNCHANGED <<main, range, pending>> /\ ~WriterGone /\ ~WriterGone'
        /\ InHand = 1 /\ InHand' = 0 /\ Gauge("writeQueue", -1)
    BY <1>7 DEF WriterLeaves, Upstream, Downstream, InGauge, Fetching, SendingRaw, Analysing,
                FetcherRows, AnalyserRows, Leaving, InHand, BlocksQueued, WriterGone
  <2>2. /\ m'.writeQueue = m.writeQueue - 1 /\ m'.fetchQueue = m.fetchQueue
        /\ m'.total = m.total /\ m'.already = m.already /\ m'.written = m.written
        /\ Verdicts' = Verdicts
    <3>1. m \in MetricsType /\ -1 \in Int
      BY <1>1
    <3>2. m.writeQueue + -1 = m.writeQueue - 1
      BY <1>types
    <3>. QED
      BY <2>1, <3>1, <3>2, GaugeEffect
  <2>. QED
    BY <1>types, <2>1, <2>2 DEF Balance
<1>. QED
  BY <1>3, <1>4, <1>5, <1>6, <1>7 DEF WriterStep

\* What a panicked analysis drops is not anywhere else.
LostApart == lost \cap InFlight = {}

LEMMA LostApartNext ==
  ASSUME IInv, Untouched, LostApart, [Next]_vars
  PROVE  LostApart'
<1>. USE DEF persistent, queues, workers, thread, bounds
<1>1. Shape /\ SlotHeldOnce /\ Quiet
  BY DEF IInv, Shape
<1>2. CASE lost' = {}
  BY <1>2 DEF LostApart
<1>3. CASE SelectRange
  BY <1>2, <1>3 DEF SelectRange, Untouched
<1>4. CASE ~SelectRange /\ UNCHANGED lost
  BY <1>1, <1>4, HeldNext DEF LostApart, HeldStep
<1>5. ASSUME NEW a \in Analysers, AnalysisPanics(a)
      PROVE  LostApart'
  <2>. DEFINE mine == <<"analyser", a>>
  <2>1. /\ analyser \in [Analysers -> WorkerState]
        /\ analyser[a].slot # NoSlot /\ analyser'[a].slot = NoSlot
        /\ lost' = lost \cup {analyser[a].slot}
    BY <1>1, <1>5 DEF AnalysisPanics, At, Goto, Shape, TypeOK, WorkersConsistent, Consistent
  <2>2. Keeps(Nowhere)
    BY <1>5, <2>1 DEF AnalysisPanics, Keeps, Elems, BlocksIn
  <2>3. \A p \in Place : Held(p)' \subseteq Held(p)
    <3>1. \A p \in Place : p # Nowhere
      BY DEF Place, Nowhere
    <3>. QED
      BY <2>2, <3>1, KeepsPlaces
  <2>4. /\ mine \in Place /\ analyser[a].slot \in Held(mine)
        /\ Held(mine)' = {analyser'[a].slot} \ {NoSlot}
    BY <2>1, Places, PlacesNext DEF PlaceTable, NoSlot
  <2>5. Held(mine)' = {}
    BY <2>1, <2>4
  <2>6. \A p \in Place : analyser[a].slot \notin Held(p)'
    BY <1>1, <2>3, <2>4, <2>5, NotElsewhere
  <2>7. \A p \in Place : Held(p)' \cap lost' = {}
    BY <2>1, <2>3, <2>6 DEF LostApart, InFlight
  <2>. QED
    BY <2>7 DEF LostApart, InFlight, Place
<1>6. SelectRange \/ UNCHANGED lost \/ lost' = {} \/ \E a \in Analysers : AnalysisPanics(a)
  <2>1. CASE MainStep
    BY <2>1 DEF MainStep, Feed, CloseSlots, FinishRun, SendRebuild, RebuildReturns,
                SendShutdown, Exit, ProcessEnds
  <2>2. CASE EnvironmentStep
    BY <2>2 DEF EnvironmentStep, Start, StartServeOnly, RunFails, Crash, CtrlC, ApiPause,
                ProcessEnds
  <2>3. CASE \E f \in Fetchers : FetcherStep(f)
    BY <2>3 DEF FetcherStep, FetcherRecv, FetcherStops, FetchedBlock, FetchedNoBlock,
                SendRaw, FetcherSends, FetcherGivesUp
  <2>4. CASE \E a \in Analysers : AnalyserStep(a)
    BY <2>4 DEF AnalyserStep, AnalyserRecv, AnalyserLeaves, AnalyserStops, Analysed, AnalyserSends,
                AnalyserGivesUp
  <2>5. CASE WriterStep
    BY <2>5 DEF WriterStep, WriterRecv, WriterLeaves, WriterTakesMore, WriterEndsBatch, Commit, CommitFails,
                WriterPauses, WriterResumes, RebuildCandles, WriterStops
  <2>6. CASE UNCHANGED vars
    BY <2>6 DEF vars
  <2>. QED
    BY <2>1, <2>2, <2>3, <2>4, <2>5, <2>6 DEF Next, Terminated
<1>. QED
  BY <1>2, <1>3, <1>4, <1>5, <1>6

CountInv == IInv /\ Untouched /\ LostApart /\ Balance

LEMMA CountInit == Init => CountInv
<1>. SUFFICES ASSUME Init PROVE CountInv
  OBVIOUS
<1>1. IInv /\ Shape
  BY InvInit, ShapeInit
<1>2. Untouched /\ LostApart
  BY DEF Init, Untouched, LostApart
<1>3. NothingQueued
  BY DEF Init, NothingQueued, NoWorker, Idle, BlockPlaces
<1>4. Zeroes
  BY <1>1, <1>3, NothingCounted
<1>5. Balance
  BY <1>4 DEF Init, Balance, Zeroes, ZeroMetrics
<1>. QED
  BY <1>1, <1>2, <1>5 DEF CountInv

LEMMA CountNext == CountInv /\ [Next]_vars => CountInv'
<1>. SUFFICES ASSUME CountInv, [Next]_vars PROVE CountInv'
  OBVIOUS
<1>1. /\ IInv /\ Shape /\ Quiet /\ Untouched /\ LostApart /\ Balance
      /\ DistinctBlocks(pending)
  BY DEF CountInv, IInv, Shape, SlotHeldOnce
<1>2. IInv' /\ Shape'
  BY <1>1, InvNext, ShapeNext
<1>3. Untouched' /\ LostApart'
  BY <1>1, UntouchedNext, LostApartNext
<1>4. Balance'
  <2>1. ASSUME NEW a \in Analysers, AnalyserStep(a)
        PROVE  Balance'
    <3>1. analyser[a].slot # NoSlot => analyser[a].slot \in InFlight
      BY Places DEF PlaceTable, InFlight
    <3>. QED
      BY <1>1, <2>1, <3>1, BalanceAnalyser DEF LostApart
  <2>2. CASE MainStep \/ EnvironmentStep \/ UNCHANGED vars
    BY <1>1, <1>2, <2>2, BalanceMain
  <2>3. CASE WriterStep
    BY <1>1, <2>3, BalanceWriter
  <2>. QED
    BY <1>1, <2>1, <2>2, <2>3, BalanceFetcher DEF Next, Terminated
<1>. QED
  BY <1>2, <1>3, <1>4 DEF CountInv

\* At every moment the gauges of the two queues count what is in them, who is
\* blocked on them, and the consumers between a receipt and its decrement, as
\* long as the writer lives: nothing is counted twice and nothing stays counted.
THEOREM GaugesExact == Spec => []QueueGaugesExact
<1>1. CountInv => QueueGaugesExact
  BY QuantityTypes DEF CountInv, IInv, Shape, Balance, QueueGaugesExact, InGauge, Downstream,
     SendingRaw, Leaving, FetcherRows, AnalyserRows
<1>. QED
  BY <1>1, CountInit, CountNext, PTL DEF Spec

\* No slot of a run is forgotten and none is counted twice: what the counters
\* have not counted is ahead of them, what they have counted is committed or on
\* its way, whatever crashes, panics or fails in between.
THEOREM SlotsAccountedFor == Spec => []EverySlotAccountedFor
<1>1. CountInv => EverySlotAccountedFor
  <2>. SUFFICES ASSUME CountInv, main # "down" PROVE EverySlotAccountedFor
    BY DEF EverySlotAccountedFor
  <2>1. QuantitiesOK /\ Balance
    BY QuantityTypes DEF CountInv, IInv, Shape
  <2>2. /\ Cardinality(todo) \in Nat /\ Cardinality(lost) \in Nat /\ BlocksQueued \in Nat
        /\ Fetching \in Nat /\ Analysing \in Nat /\ FetcherRows \in Nat /\ AnalyserRows \in Nat
        /\ Len(slotQ) \in Nat /\ Len(rawQ) \in Nat /\ m.already \in Nat
        /\ m.written \in Nat /\ Len(pending) \in Nat
    BY <2>1 DEF QuantitiesOK
  <2>3. m.done \in Nat /\ m.skipped \in Nat /\ m.failed \in Nat
    BY DEF CountInv, IInv, TypeOK, MetricsType
  <2>4. m.total = m.already + m.done + m.skipped + m.failed
                    + Cardinality(todo) + Len(slotQ) + Len(rawQ) + Fetching + Analysing
                    + Cardinality(lost)
    <3>1. m.total = m.already + (m.done + m.skipped + m.failed)
                      + (Cardinality(todo) + Len(slotQ) + Len(rawQ) + Fetching + Analysing
                         + Cardinality(lost))
      BY <2>1 DEF Balance, Verdicts, Upstream
    <3>2. /\ m.already + (m.done + m.skipped + m.failed) \in Nat
          /\ m.already + (m.done + m.skipped + m.failed)
               = m.already + m.done + m.skipped + m.failed
      <4>1. \A n, x, y, z \in Nat : n + (x + y + z) \in Nat /\ n + (x + y + z) = n + x + y + z
        OBVIOUS
      <4>2. m.already \in Nat
        BY <2>2
      <4>. QED
        BY <2>3, <4>1, <4>2, SMTT(20)
    <3>3. m.total = m.already + (m.done + m.skipped + m.failed)
                      + Cardinality(todo) + Len(slotQ) + Len(rawQ) + Fetching + Analysing
                      + Cardinality(lost)
      <4>1. PICK n \in Nat : n = m.already + (m.done + m.skipped + m.failed)
        BY <3>2
      <4>2. m.total = n + (Cardinality(todo) + Len(slotQ) + Len(rawQ) + Fetching + Analysing
                           + Cardinality(lost))
        BY <3>1, <4>1, Zenon
      <4>3. m.total = n + Cardinality(todo) + Len(slotQ) + Len(rawQ) + Fetching + Analysing
                        + Cardinality(lost)
        BY <2>2, <4>2, SMTT(60)
      <4>. QED
        BY <4>1, <4>3, Zenon
    <3>. QED
      BY <3>2, <3>3, Zenon
  <2>5. range # {} /\ ~WriterGone =>
          m.done + m.skipped + m.failed
            = m.written + Len(pending) + BlocksQueued + FetcherRows + AnalyserRows
    <3>1. range # {} /\ ~WriterGone =>
            m.done + m.skipped + m.failed
              = m.written + Len(pending) + (BlocksQueued + FetcherRows + AnalyserRows)
      BY <2>1 DEF Balance, Verdicts, Downstream
    <3>. QED
      BY <2>2, <2>3, <3>1
  <2>. QED
    BY <2>4, <2>5 DEF EverySlotAccountedFor, Fetching, Analysing, FetcherRows, AnalyserRows
<1>. QED
  BY <1>1, CountInit, CountNext, PTL DEF Spec

-----------------------------------------------------------------------------
(* The life of the workers                                                 *)

WriterFailed == writer = "failed"

\* After the join nobody works; only the feeder has slots to send; and slots
\* wait in the channel only for fetchers that are all there.
Joined == main \notin {"feed", "join"} => FetchersGone /\ AnalysersGone
Fed    == main # "feed" => todo = {}
SlotsTaken ==
  \/ WriterFailed
  \/ main # "feed" /\ slotQ = <<>>
  \/ \A f \in Fetchers : fetcher[f].pc # "off"

\* Only the last message of a process stops its writer.
TypesIn(q) == {q[i].type : i \in DOMAIN q}

ShutdownLast ==
  main # "awaitShutdown" =>
    /\ "shutdown" \notin TypesIn(writeQ)
    /\ deferred # "shutdown" /\ writer # "stopped"

WorkLife == Joined /\ Fed /\ SlotsTaken /\ ShutdownLast

LEMMA TypesSent ==
  ASSUME NEW S, NEW q \in Seq(S), NEW x \in S
  PROVE  TypesIn(Append(q, x)) = TypesIn(q) \cup {x.type}
<1>1. /\ DOMAIN q = 1 .. Len(q) /\ DOMAIN Append(q, x) = 1 .. Len(q) + 1
      /\ Len(q) \in Nat
      /\ \A i \in 1 .. Len(q) : Append(q, x)[i] = q[i]
      /\ Append(q, x)[Len(q) + 1] = x
  BY AppendProperties
<1>2. DOMAIN Append(q, x) = DOMAIN q \cup {Len(q) + 1}
  BY <1>1
<1>. QED
  BY <1>1, <1>2 DEF TypesIn

LEMMA TypesReceived ==
  ASSUME NEW S, NEW q \in Seq(S), q # <<>>
  PROVE  TypesIn(q) = TypesIn(Tail(q)) \cup {Head(q).type}
<1>1. /\ Len(Tail(q)) = Len(q) - 1 /\ Len(q) \in Nat /\ Len(q) > 0 /\ Head(q) = q[1]
      /\ DOMAIN q = 1 .. Len(q) /\ DOMAIN Tail(q) = 1 .. Len(Tail(q))
      /\ \A i \in 1 .. Len(Tail(q)) : Tail(q)[i] = q[i + 1]
  BY HeadTailProperties
<1>2. /\ \A i \in DOMAIN Tail(q) : i + 1 \in DOMAIN q
      /\ \A i \in DOMAIN q : i # 1 => i - 1 \in DOMAIN Tail(q) /\ (i - 1) + 1 = i
      /\ 1 \in DOMAIN q
  BY <1>1
<1>3. ASSUME NEW t \in TypesIn(q)
      PROVE  t \in TypesIn(Tail(q)) \cup {Head(q).type}
  <2>1. PICK i \in DOMAIN q : t = q[i].type
    BY <1>3 DEF TypesIn
  <2>2. CASE i = 1
    BY <1>1, <2>1, <2>2
  <2>3. CASE i # 1
    <3>1. i - 1 \in DOMAIN Tail(q) /\ Tail(q)[i - 1] = q[i]
      BY <1>1, <1>2, <2>3
    <3>. QED
      BY <2>1, <3>1 DEF TypesIn
  <2>. QED
    BY <2>2, <2>3
<1>4. TypesIn(Tail(q)) \cup {Head(q).type} \subseteq TypesIn(q)
  BY <1>1, <1>2 DEF TypesIn
<1>. QED
  BY <1>3, <1>4

\* What a step does to the types of the queued messages.
LEMMA ControlTypes ==
  ASSUME Shape, NEW t \in {"pause", "rebuild", "shutdown"}, SendControl(t)
  PROVE  TypesIn(writeQ)' = TypesIn(writeQ) \cup {t}
<1>1. writeQ \in Seq(BlockMsg \cup ControlMsg) /\ Control(t) \in BlockMsg \cup ControlMsg
  BY DEF Shape, TypeOK, ControlMsg
<1>2. TypesIn(Append(writeQ, Control(t))) = TypesIn(writeQ) \cup {Control(t).type}
  BY <1>1, TypesSent
<1>. QED
  BY <1>2 DEF SendControl, Control, TypesIn

LEMMA RowTypes ==
  ASSUME Shape
  PROVE  /\ \A f \in Fetchers : FetcherSends(f) => TypesIn(writeQ)' = TypesIn(writeQ) \cup {"block"}
         /\ \A a \in Analysers : AnalyserSends(a) => TypesIn(writeQ)' = TypesIn(writeQ) \cup {"block"}
<1>1. /\ writeQ \in Seq(BlockMsg \cup ControlMsg)
      /\ fetcher \in [Fetchers -> WorkerState] /\ analyser \in [Analysers -> WorkerState]
  BY DEF Shape, TypeOK
<1>2. \A s, st : writeQ' = Append(writeQ, Block(s, st)) /\ Block(s, st) \in BlockMsg
                   => TypesIn(writeQ)' = TypesIn(writeQ) \cup {"block"}
  <2>. TAKE s, st
  <2>. HAVE writeQ' = Append(writeQ, Block(s, st)) /\ Block(s, st) \in BlockMsg
  <2>1. TypesIn(Append(writeQ, Block(s, st))) = TypesIn(writeQ) \cup {Block(s, st).type}
    BY <1>1, TypesSent
  <2>. QED
    BY <2>1 DEF Block, TypesIn
<1>3. ASSUME NEW f \in Fetchers, FetcherSends(f)
      PROVE  TypesIn(writeQ)' = TypesIn(writeQ) \cup {"block"}
  <2>1. Block(fetcher[f].slot, fetcher[f].status) \in BlockMsg
    BY <1>1, <1>3 DEF FetcherSends, CanSendBlock, At, WorkerState, Shape, WorkersConsistent,
                       Consistent, Block, BlockMsg
  <2>. QED
    BY <1>2, <1>3, <2>1 DEF FetcherSends
<1>4. ASSUME NEW a \in Analysers, AnalyserSends(a)
      PROVE  TypesIn(writeQ)' = TypesIn(writeQ) \cup {"block"}
  <2>1. Block(analyser[a].slot, analyser[a].status) \in BlockMsg
    BY <1>1, <1>4 DEF AnalyserSends, CanSendBlock, At, WorkerState, Shape, WorkersConsistent,
                       Consistent, Block, BlockMsg
  <2>. QED
    BY <1>2, <1>4, <2>1 DEF AnalyserSends
<1>. QED
  BY <1>3, <1>4

LEMMA WorkLifeMain ==
  ASSUME Shape, Quiet, WorkLife, MainStep \/ EnvironmentStep \/ UNCHANGED vars
  PROVE  WorkLife'
<1>. USE DEF persistent, queues, workers, thread, bounds
<1>1. main \in {"down", "resolve"} => Still
  BY NothingInFlight DEF Quiet
<1>2. CASE ProcessEnds
  BY <1>2 DEF ProcessEnds, WorkLife, Joined, Fed, SlotsTaken, ShutdownLast, NoWorker, Idle,
              FetchersGone, AnalysersGone, TypesIn
<1>3. CASE SelectRange
  BY <1>1, <1>3 DEF SelectRange, WorkLife, Joined, Fed, SlotsTaken, ShutdownLast, SpawnedWorker,
                    Idle, FetchersGone, AnalysersGone, TypesIn, Still, NothingQueued
<1>4. CASE Feed \/ CloseSlots \/ FinishRun \/ RebuildReturns \/ CtrlC \/ Start \/ StartServeOnly
             \/ UNCHANGED vars
  <2>1. UNCHANGED <<TypesIn(writeQ), deferred, writer, fetcher, analyser>>
    BY <1>4 DEF Feed, CloseSlots, FinishRun, RebuildReturns, CtrlC, Start, StartServeOnly, vars,
                TypesIn
  <2>2. ShutdownLast'
    BY <1>4, <2>1 DEF Feed, CloseSlots, FinishRun, RebuildReturns, CtrlC, Start, StartServeOnly,
                      vars, ShutdownLast, WorkLife, AfterIngest
  <2>3. Joined'
    BY <1>4, <2>1 DEF Feed, CloseSlots, FinishRun, RebuildReturns, CtrlC, Start, StartServeOnly,
                      vars, WorkLife, Joined, FetchersGone, AnalysersGone, AfterIngest
  <2>4. Fed' /\ SlotsTaken'
    BY <1>1, <1>4, <2>1 DEF Feed, CloseSlots, FinishRun, RebuildReturns, CtrlC, Start,
             StartServeOnly, vars, WorkLife, Fed, SlotsTaken, WriterFailed, AfterIngest, Still,
             NothingQueued
  <2>. QED
    BY <2>2, <2>3, <2>4 DEF WorkLife
<1>5. CASE SendRebuild \/ SendShutdown \/ ApiPause
  <2>1. /\ UNCHANGED <<deferred, writer, fetcher, analyser, todo, slotQ>>
        /\ main = "feed" <=> main' = "feed"
        /\ main \in {"feed", "join"} <=> main' \in {"feed", "join"}
    BY <1>5 DEF SendRebuild, SendShutdown, ApiPause, SendControl
  <2>2. Joined' /\ Fed' /\ SlotsTaken'
    BY <2>1 DEF WorkLife, Joined, Fed, SlotsTaken, WriterFailed, FetchersGone, AnalysersGone
  <2>3. ShutdownLast'
    <3>1. CASE SendShutdown
      BY <3>1 DEF SendShutdown, ShutdownLast
    <3>2. CASE SendRebuild
      <4>1. TypesIn(writeQ)' = TypesIn(writeQ) \cup {"rebuild"}
        BY <3>2, ControlTypes DEF SendRebuild
      <4>. QED
        BY <2>1, <3>2, <4>1 DEF SendRebuild, ShutdownLast, WorkLife
    <3>3. CASE ApiPause
      <4>1. TypesIn(writeQ)' = TypesIn(writeQ) \cup {"pause"}
        BY <3>3, ControlTypes DEF ApiPause
      <4>. QED
        BY <2>1, <3>3, <4>1 DEF ApiPause, ShutdownLast, WorkLife
    <3>. QED
      BY <1>5, <3>1, <3>2, <3>3
  <2>. QED
    BY <2>2, <2>3 DEF WorkLife
<1>. QED
  BY <1>2, <1>3, <1>4, <1>5 DEF MainStep, EnvironmentStep, Exit, RunFails, Crash

\* A writer that is gone while somebody works has failed.
LEMMA GoneMeansFailed ==
  ASSUME WorkLife, WriterGone, ~FetchersGone \/ ~AnalysersGone
  PROVE  WriterFailed
  BY DEF WorkLife, Joined, ShutdownLast, WriterGone, WriterFailed

LEMMA WorkLifeFetcher ==
  ASSUME Shape, WorkLife, NEW f \in Fetchers, FetcherStep(f)
  PROVE  WorkLife'
<1>. USE DEF persistent, queues, workers, thread, bounds
<1>1. fetcher \in [Fetchers -> WorkerState]
  BY DEF Shape, TypeOK
<1>2. /\ UNCHANGED <<main, todo, deferred, writer, analyser>>
      /\ fetcher[f].pc # "off"
      /\ slotQ' = slotQ \/ (FetcherRecv(f) /\ slotQ # <<>>)
      /\ \A u \in Fetchers \ {f} : fetcher'[u] = fetcher[u]
      /\ DOMAIN fetcher' = Fetchers
  BY <1>1 DEF FetcherStep, FetcherRecv, FetcherStops, FetchedBlock, FetchedNoBlock,
              SendRaw, FetcherSends, FetcherGivesUp, At, CanSendBlock
<1>3. Joined' /\ Fed'
  BY <1>2 DEF WorkLife, Joined, Fed, FetchersGone, AnalysersGone
<1>4. ShutdownLast'
  <2>1. TypesIn(writeQ)' \subseteq TypesIn(writeQ) \cup {"block"}
    BY RowTypes DEF FetcherStep, FetcherRecv, FetcherStops, FetchedBlock, FetchedNoBlock,
                    SendRaw, FetcherGivesUp, TypesIn
  <2>. QED
    BY <1>2, <2>1 DEF WorkLife, ShutdownLast
<1>5. SlotsTaken'
  <2>1. CASE FetcherStops(f)
    BY <1>2, <2>1 DEF FetcherStops, SlotsTaken
  <2>2. CASE FetcherGivesUp(f)
    <3>1. WriterFailed
      BY <1>2, <2>2, GoneMeansFailed DEF FetcherGivesUp, FetchersGone
    <3>. QED
      BY <1>2, <3>1 DEF SlotsTaken, WriterFailed
  <2>3. CASE ~FetcherStops(f) /\ ~FetcherGivesUp(f)
    <3>1. fetcher'[f].pc # "off"
      <4>1. FetcherRecv(f) => fetcher'[f].pc = "fetch"
        BY <1>1 DEF FetcherRecv, WorkerState
      <4>2. FetchedBlock(f) => fetcher'[f].pc = "sendRaw"
        BY <1>1 DEF FetchedBlock, WorkerState
      <4>3. ASSUME NEW st, FetchedNoBlock(f, st)
            PROVE  fetcher'[f].pc = "sendWrite"
        <5>1. fetcher'[f] = Sending(fetcher[f], st)
          BY <1>1, <4>3 DEF FetchedNoBlock, WorkerState
        <5>. QED
          BY <1>1, <5>1 DEF Sending, WorkerState
      <4>4. SendRaw(f) \/ FetcherSends(f) => fetcher'[f].pc = "recv"
        BY <1>1 DEF SendRaw, FetcherSends, Goto
      <4>. QED
        BY <2>3, <4>1, <4>2, <4>3, <4>4 DEF FetcherStep
    <3>2. slotQ = <<>> => slotQ' = <<>>
      BY <1>2
    <3>. QED
      BY <1>2, <3>1, <3>2 DEF WorkLife, SlotsTaken, WriterFailed
  <2>. QED
    BY <2>1, <2>2, <2>3
<1>. QED
  BY <1>3, <1>4, <1>5 DEF WorkLife

LEMMA WorkLifeAnalyser ==
  ASSUME Shape, WorkLife, NEW a \in Analysers, AnalyserStep(a)
  PROVE  WorkLife'
<1>. USE DEF persistent, queues, workers, thread, bounds
<1>1. /\ UNCHANGED <<main, todo, slotQ, deferred, writer, fetcher>>
      /\ analyser[a].pc # "off"
  BY DEF AnalyserStep, AnalyserRecv, AnalyserLeaves, AnalyserStops, Analysed, AnalysisPanics,
         AnalyserSends, AnalyserGivesUp, At, CanSendBlock
<1>2. Joined' /\ Fed' /\ SlotsTaken'
  BY <1>1 DEF WorkLife, Joined, Fed, SlotsTaken, WriterFailed, FetchersGone, AnalysersGone
<1>3. ShutdownLast'
  <2>1. TypesIn(writeQ)' \subseteq TypesIn(writeQ) \cup {"block"}
    BY RowTypes DEF AnalyserStep, AnalyserRecv, AnalyserLeaves, AnalyserStops, Analysed, AnalysisPanics,
                    AnalyserGivesUp, TypesIn
  <2>. QED
    BY <1>1, <2>1 DEF WorkLife, ShutdownLast
<1>. QED
  BY <1>2, <1>3 DEF WorkLife

\* The writer takes from its channel; what it defers is a message it took.
LEMMA WriterTakes ==
  ASSUME Shape, WriterRecv \/ WriterTakesMore
  PROVE  /\ TypesIn(writeQ) = TypesIn(writeQ)' \cup {Head(writeQ).type}
         /\ IF IsBlock(Head(writeQ)) THEN deferred' = deferred
                                     ELSE deferred' = Head(writeQ).type
<1>1. writeQ \in Seq(BlockMsg \cup ControlMsg)
  BY DEF Shape, TypeOK
<1>2. writeQ # <<>> /\ writeQ' = Tail(writeQ)
  BY DEF WriterRecv, WriterTakesMore
<1>3. TypesIn(writeQ) = TypesIn(Tail(writeQ)) \cup {Head(writeQ).type}
  BY <1>1, <1>2, TypesReceived
<1>4. IF IsBlock(Head(writeQ)) THEN deferred' = deferred ELSE deferred' = Head(writeQ).type
  BY DEF WriterRecv, WriterTakesMore
<1>. QED
  BY <1>2, <1>3, <1>4 DEF TypesIn

LEMMA WorkLifeWriter ==
  ASSUME Shape, WorkLife, WriterStep
  PROVE  WorkLife'
<1>. USE DEF persistent, queues, workers, thread, bounds
<1>1. UNCHANGED <<main, todo, slotQ, fetcher, analyser>> /\ writer # "failed"
  BY DEF WriterStep, WriterRecv, WriterLeaves, WriterTakesMore, WriterEndsBatch, Commit, CommitFails,
         WriterPauses, WriterResumes, RebuildCandles, WriterStops
<1>2. Joined' /\ Fed' /\ SlotsTaken'
  BY <1>1 DEF WorkLife, Joined, Fed, SlotsTaken, WriterFailed, FetchersGone, AnalysersGone
<1>3. ShutdownLast'
  <2>1. CASE WriterRecv \/ WriterTakesMore
    <3>1. writer' # "stopped"
      BY <2>1 DEF WriterRecv, WriterTakesMore
    <3>. QED
      BY <1>1, <2>1, <3>1, WriterTakes DEF WorkLife, ShutdownLast
  <2>2. CASE WriterEndsBatch \/ Commit \/ WriterPauses \/ WriterResumes \/ RebuildCandles
               \/ WriterLeaves
    <3>1. /\ UNCHANGED TypesIn(writeQ)
          /\ deferred' \in {deferred, "none"} /\ writer' # "stopped"
      BY <2>2 DEF WriterEndsBatch, Commit, WriterPauses, WriterResumes, RebuildCandles,
                  WriterLeaves, TypesIn
    <3>. QED
      BY <1>1, <3>1 DEF WorkLife, ShutdownLast
  <2>3. CASE CommitFails \/ WriterStops
    BY <1>1, <2>3 DEF CommitFails, WriterStops, WorkLife, ShutdownLast, TypesIn
  <2>. QED
    BY <2>1, <2>2, <2>3 DEF WriterStep
<1>. QED
  BY <1>2, <1>3 DEF WorkLife

LEMMA WorkLifeNext ==
  ASSUME Shape, Quiet, WorkLife, [Next]_vars
  PROVE  WorkLife'
  BY WorkLifeMain, WorkLifeFetcher, WorkLifeAnalyser, WorkLifeWriter DEF Next, Terminated

LEMMA WorkLifeInit == Init => WorkLife
  BY DEF Init, WorkLife, Joined, Fed, SlotsTaken, ShutdownLast, TypesIn, FetchersGone,
         AnalysersGone, NoWorker, Idle
-----------------------------------------------------------------------------
(* Nobody waits on a channel whose readers have left                       *)

\* When analyses run on the blocking pool, or none panics, an analyser leaves
\* only after the fetchers have left and the channel between them is empty.
LastToLeave ==
  \/ WriterFailed \/ main \in {"down", "resolve"}
  \/ \A a \in Analysers : analyser[a].pc # "off"
  \/ FetchersGone /\ rawQ = <<>>

LEMMA LastToLeaveNext ==
  ASSUME ~AnalyseOnRuntime \/ "panic" \notin Faults,
         Shape, Quiet, WorkLife, LastToLeave, [Next]_vars
  PROVE  LastToLeave'
<1>. USE DEF persistent, queues, workers, thread, bounds
<1>1. main \in {"down", "resolve"} => Still /\ FetchersGone
  BY NothingInFlight DEF Quiet, WorkLife, Joined
<1>2. CASE MainStep \/ EnvironmentStep \/ UNCHANGED vars
  <2>1. CASE ProcessEnds
    BY <2>1 DEF ProcessEnds, LastToLeave
  <2>2. CASE SelectRange
    BY <1>1, <2>2 DEF SelectRange, LastToLeave, SpawnedWorker, Idle, Still, NothingQueued,
                      FetchersGone
  <2>3. CASE ~ProcessEnds /\ ~SelectRange
    <3>1. UNCHANGED <<rawQ, fetcher, analyser, writer>>
      BY <1>2, <2>3 DEF MainStep, EnvironmentStep, Feed, CloseSlots, FinishRun, SendRebuild,
           RebuildReturns, SendShutdown, Exit, Start, StartServeOnly, RunFails, Crash, CtrlC,
           ApiPause, vars
    <3>. QED
      BY <1>1, <3>1 DEF LastToLeave, FetchersGone, WriterFailed, Still, NothingQueued
  <2>. QED
    BY <2>1, <2>2, <2>3
<1>3. ASSUME NEW f \in Fetchers, FetcherStep(f)
      PROVE  LastToLeave'
  <2>1. ~FetchersGone /\ UNCHANGED <<analyser, writer, main>>
    BY <1>3 DEF FetcherStep, FetcherRecv, FetcherStops, FetchedBlock, FetchedNoBlock,
                SendRaw, FetcherSends, FetcherGivesUp, At, CanSendBlock, FetchersGone
  <2>. QED
    BY <2>1 DEF LastToLeave, WriterFailed
<1>4. ASSUME NEW a \in Analysers, AnalyserStep(a)
      PROVE  LastToLeave'
  <2>1. analyser \in [Analysers -> WorkerState] /\ rawQ \in Seq(Slots)
    BY DEF Shape, TypeOK
  <2>2. UNCHANGED <<fetcher, writer, main>> /\ analyser[a].pc # "off"
    BY <1>4 DEF AnalyserStep, AnalyserRecv, AnalyserLeaves, AnalyserStops, Analysed, AnalysisPanics,
                AnalyserSends, AnalyserGivesUp, At, CanSendBlock
  <2>3. CASE AnalyserStops(a)
    BY <2>2, <2>3 DEF AnalyserStops, RawClosed, LastToLeave, FetchersGone
  <2>4. CASE AnalyserGivesUp(a)
    <3>1. WriterFailed
      BY <2>2, <2>4, GoneMeansFailed DEF AnalyserGivesUp, AnalysersGone
    <3>. QED
      BY <2>2, <3>1 DEF LastToLeave, WriterFailed
  <2>5. CASE ~AnalyserStops(a) /\ ~AnalyserGivesUp(a)
    <3>1. analyser'[a].pc # "off"
      <4>1. AnalyserRecv(a) => analyser'[a].pc = "leave"
        BY <2>1 DEF AnalyserRecv, WorkerState
      <4>5. AnalyserLeaves(a) => analyser'[a].pc = "analyse"
        BY <2>1 DEF AnalyserLeaves, WorkerState
      <4>2. Analysed(a) => analyser'[a].pc = "sendWrite"
        BY <2>1 DEF Analysed, Sending, WorkerState
      <4>3. AnalysisPanics(a) => analyser'[a].pc = "recv"
        BY <2>1 DEF AnalysisPanics, Goto
      <4>4. AnalyserSends(a) => analyser'[a].pc = "recv"
        BY <2>1 DEF AnalyserSends, Goto
      <4>. QED
        BY <1>4, <2>5, <4>1, <4>2, <4>3, <4>4, <4>5 DEF AnalyserStep
    <3>2. /\ \A u \in Analysers \ {a} : analyser'[u] = analyser[u]
          /\ rawQ' = rawQ \/ rawQ # <<>>
      BY <1>4, <2>1 DEF AnalyserStep, AnalyserRecv, AnalyserLeaves, AnalyserStops, Analysed, AnalysisPanics,
                        AnalyserSends, AnalyserGivesUp
    <3>. QED
      BY <2>2, <3>1, <3>2 DEF LastToLeave, FetchersGone, WriterFailed
  <2>. QED
    BY <2>3, <2>4, <2>5
<1>5. CASE WriterStep
  <2>1. UNCHANGED <<main, rawQ, fetcher, analyser>> /\ writer # "failed"
    BY <1>5 DEF WriterStep, WriterRecv, WriterLeaves, WriterTakesMore, WriterEndsBatch, Commit, CommitFails,
                WriterPauses, WriterResumes, RebuildCandles, WriterStops
  <2>. QED
    BY <2>1 DEF LastToLeave, FetchersGone, WriterFailed
<1>. QED
  BY <1>2, <1>3, <1>4, <1>5 DEF Next, Terminated

\* Only a failing commit makes the writer fail.
LEMMA NeverFailedNext ==
  ASSUME "commit" \notin Faults, ~WriterFailed, [Next]_vars
  PROVE  ~WriterFailed'
<1>. USE DEF persistent, queues, workers, thread, bounds, WriterFailed
<1>1. CASE MainStep
  BY <1>1 DEF MainStep, SelectRange, Feed, CloseSlots, FinishRun, SendRebuild,
              RebuildReturns, SendShutdown, Exit, ProcessEnds
<1>2. CASE EnvironmentStep
  BY <1>2 DEF EnvironmentStep, Start, StartServeOnly, RunFails, Crash, CtrlC, ApiPause,
              ProcessEnds
<1>3. CASE \E f \in Fetchers : FetcherStep(f)
  BY <1>3 DEF FetcherStep, FetcherRecv, FetcherStops, FetchedBlock, FetchedNoBlock,
              SendRaw, FetcherSends, FetcherGivesUp
<1>4. CASE \E a \in Analysers : AnalyserStep(a)
  BY <1>4 DEF AnalyserStep, AnalyserRecv, AnalyserLeaves, AnalyserStops, Analysed, AnalysisPanics,
              AnalyserSends, AnalyserGivesUp
<1>5. CASE WriterStep
  BY <1>5 DEF WriterStep, WriterRecv, WriterLeaves, WriterTakesMore, WriterEndsBatch, Commit, CommitFails,
              WriterPauses, WriterResumes, RebuildCandles, WriterStops
<1>6. CASE UNCHANGED vars
  BY <1>6 DEF vars
<1>. QED
  BY <1>1, <1>2, <1>3, <1>4, <1>5, <1>6 DEF Next, Terminated

LiveInv == IInv /\ WorkLife /\ LastToLeave /\ ~WriterFailed

\* As long as commits succeed and no panic takes an analyser's task with it,
\* whoever is blocked on a full channel has a reader left: the backpressure that
\* reaches the feeder is never that of a dead pipeline. (With failing commits the
\* run of MCPipelineHang shows the opposite.)
THEOREM BackpressureIsLive ==
  ASSUME "commit" \notin Faults, ~AnalyseOnRuntime \/ "panic" \notin Faults
  PROVE  Spec => []BlockedOnlyByLiveConsumer
<1>1. Init => LiveInv
  <2>. SUFFICES ASSUME Init PROVE LiveInv
    OBVIOUS
  <2>1. LastToLeave /\ ~WriterFailed
    BY DEF Init, LastToLeave, WriterFailed
  <2>. QED
    BY <2>1, InvInit, WorkLifeInit DEF LiveInv
<1>2. LiveInv /\ [Next]_vars => LiveInv'
  <2>. SUFFICES ASSUME LiveInv, [Next]_vars PROVE LiveInv'
    OBVIOUS
  <2>1. IInv /\ Shape /\ Quiet /\ WorkLife /\ LastToLeave /\ ~WriterFailed
    BY DEF LiveInv, IInv, Shape
  <2>2. IInv' /\ WorkLife' /\ ~WriterFailed'
    BY <2>1, InvNext, WorkLifeNext, NeverFailedNext
  <2>3. LastToLeave'
    BY <2>1, LastToLeaveNext
  <2>. QED
    BY <2>2, <2>3 DEF LiveInv
<1>3. LiveInv => BlockedOnlyByLiveConsumer
  <2>. SUFFICES ASSUME LiveInv PROVE BlockedOnlyByLiveConsumer
    OBVIOUS
  <2>1. Shape /\ Quiet /\ WorkLife /\ LastToLeave /\ ~WriterFailed
    BY DEF LiveInv, IInv, Shape
  <2>2. main = "feed" /\ Len(slotQ) >= SlotCap => ~FetchersGone
    BY <2>1, WorkersAssumption DEF WorkLife, SlotsTaken, FetchersGone
  <2>3. ASSUME NEW f \in Fetchers, At(fetcher[f], "sendRaw"), Len(rawQ) >= RawCap
        PROVE  ~AnalysersGone
    <3>1. ~FetchersGone
      BY <2>3 DEF At, FetchersGone
    <3>2. main \notin {"down", "resolve"}
      BY <2>1, <3>1 DEF WorkLife, Joined
    <3>. QED
      BY <2>1, <3>1, <3>2, WorkersAssumption DEF LastToLeave, AnalysersGone
  <2>. QED
    BY <2>2, <2>3 DEF BlockedOnlyByLiveConsumer
<1>. QED
  BY <1>1, <1>2, <1>3, PTL DEF Spec
-----------------------------------------------------------------------------
(* The rebuild comes after the rows                                        *)

\* The writer starts a batch with a block.
BatchFilled == writer \in {"leave", "batch", "commit"} => pending # <<>>

RebuildAsked ==
  deferred = "rebuild" \/ rebuild # "none" \/ "rebuild" \in TypesIn(writeQ)

\* In a channel, no row is behind the request to rebuild.
RebuildBehind(q) ==
  \A i, j \in DOMAIN q : q[i].type = "rebuild" /\ q[j].type = "block" => j < i

\* The rebuild is asked for once the workers have been joined, it is behind every
\* row in the channel, and the writer takes and answers it with no row left in
\* the channel or in its batch.
RebuildLast ==
  /\ RebuildAsked => main \in {"awaitRebuild", "serve", "sendShutdown", "awaitShutdown"}
  /\ RebuildBehind(writeQ)
  /\ deferred = "rebuild" \/ rebuild # "none" => "block" \notin TypesIn(writeQ)
  /\ rebuild # "none" => pending = <<>> /\ ~WriterFailed

LEMMA BehindSent ==
  ASSUME NEW S, NEW q \in Seq(S), NEW x \in S, RebuildBehind(q),
         x.type = "block" => "rebuild" \notin TypesIn(q)
  PROVE  RebuildBehind(Append(q, x))
<1>1. /\ DOMAIN q = 1 .. Len(q) /\ DOMAIN Append(q, x) = 1 .. Len(q) + 1
      /\ Len(q) \in Nat
      /\ \A i \in 1 .. Len(q) : Append(q, x)[i] = q[i]
      /\ Append(q, x)[Len(q) + 1] = x
  BY AppendProperties
<1>2. ASSUME NEW i \in DOMAIN Append(q, x), NEW j \in DOMAIN Append(q, x),
             Append(q, x)[i].type = "rebuild", Append(q, x)[j].type = "block"
      PROVE  j < i
  <2>1. CASE i = Len(q) + 1
    <3>1. j # i
      BY <1>2
    <3>. QED
      BY <1>1, <2>1, <3>1
  <2>2. CASE i # Len(q) + 1
    <3>1. i \in DOMAIN q /\ q[i].type = "rebuild"
      BY <1>1, <1>2, <2>2
    <3>2. "rebuild" \in TypesIn(q)
      BY <3>1 DEF TypesIn
    <3>3. j # Len(q) + 1
      BY <1>1, <1>2, <3>2
    <3>4. j \in DOMAIN q /\ q[j].type = "block"
      BY <1>1, <1>2, <3>3
    <3>. QED
      BY <3>1, <3>4 DEF RebuildBehind
  <2>. QED
    BY <2>1, <2>2
<1>. QED
  BY <1>2 DEF RebuildBehind

LEMMA BehindReceived ==
  ASSUME NEW S, NEW q \in Seq(S), q # <<>>, RebuildBehind(q)
  PROVE  /\ RebuildBehind(Tail(q))
         /\ Head(q).type = "rebuild" => "block" \notin TypesIn(Tail(q))
<1>1. /\ Len(Tail(q)) = Len(q) - 1 /\ Len(q) \in Nat /\ Len(q) > 0 /\ Head(q) = q[1]
      /\ DOMAIN q = 1 .. Len(q) /\ DOMAIN Tail(q) = 1 .. Len(Tail(q))
      /\ \A i \in 1 .. Len(Tail(q)) : Tail(q)[i] = q[i + 1]
  BY HeadTailProperties
<1>2. /\ \A i \in DOMAIN Tail(q) : i \in Nat /\ i > 0 /\ i + 1 \in DOMAIN q /\ Tail(q)[i] = q[i + 1]
      /\ 1 \in DOMAIN q
  BY <1>1
<1>3. ASSUME NEW i \in DOMAIN Tail(q), NEW j \in DOMAIN Tail(q),
             Tail(q)[i].type = "rebuild", Tail(q)[j].type = "block"
      PROVE  j < i
  <2>1. j + 1 < i + 1
    BY <1>2, <1>3 DEF RebuildBehind
  <2>. QED
    BY <1>2, <2>1
<1>4. ASSUME Head(q).type = "rebuild", NEW j \in DOMAIN Tail(q), Tail(q)[j].type = "block"
      PROVE  FALSE
  <2>1. j + 1 < 1
    BY <1>1, <1>2, <1>4 DEF RebuildBehind
  <2>. QED
    BY <1>2, <2>1
<1>. QED
  BY <1>3, <1>4 DEF RebuildBehind, TypesIn

RebuildLife == BatchFilled /\ RebuildLast

\* A step that leaves the writer and its channel alone.
LEMMA RebuildKept ==
  ASSUME RebuildLife, UNCHANGED <<writeQ, writer, pending, deferred, rebuild>>,
         \/ main' = main
         \/ main \notin {"awaitRebuild", "serve", "sendShutdown", "awaitShutdown"}
         \/ main' \in {"awaitRebuild", "serve", "sendShutdown", "awaitShutdown"}
  PROVE  RebuildLife'
  BY DEF RebuildLife, BatchFilled, RebuildLast, RebuildAsked, WriterFailed, TypesIn, RebuildBehind

LEMMA RebuildMain ==
  ASSUME Shape, WorkLife, RebuildLife, MainStep \/ EnvironmentStep \/ UNCHANGED vars
  PROVE  RebuildLife'
<1>. USE DEF persistent, queues, workers, thread, bounds
<1>1. CASE ProcessEnds
  BY <1>1 DEF ProcessEnds, RebuildLife, BatchFilled, RebuildLast, RebuildAsked, WriterFailed,
              TypesIn, RebuildBehind
<1>2. CASE SelectRange \/ Feed \/ CloseSlots \/ FinishRun \/ RebuildReturns \/ CtrlC \/ Start
             \/ StartServeOnly \/ UNCHANGED vars
  BY <1>2, RebuildKept DEF SelectRange, Feed, CloseSlots, FinishRun, RebuildReturns, CtrlC, Start,
                           StartServeOnly, vars, AfterIngest
<1>3. ASSUME NEW t \in {"pause", "rebuild", "shutdown"}, SendControl(t),
             UNCHANGED <<writer, pending, deferred, rebuild>>,
             main' = main \/ main' \in {"awaitRebuild", "awaitShutdown"},
             t = "rebuild" => main' = "awaitRebuild"
      PROVE  RebuildLife'
  <2>1. writeQ \in Seq(BlockMsg \cup ControlMsg) /\ Control(t) \in BlockMsg \cup ControlMsg
    BY DEF Shape, TypeOK, ControlMsg
  <2>2. TypesIn(writeQ)' = TypesIn(writeQ) \cup {t}
    BY <1>3, ControlTypes
  <2>3. RebuildBehind(writeQ')
    <3>1. Control(t).type # "block"
      BY DEF Control
    <3>2. RebuildBehind(Append(writeQ, Control(t)))
      BY <2>1, <3>1, BehindSent DEF RebuildLife, RebuildLast
    <3>. QED
      BY <1>3, <3>2 DEF SendControl
  <2>4. BatchFilled'
    BY <1>3 DEF RebuildLife, BatchFilled
  <2>5. RebuildLast'
    <3>1. RebuildAsked' => main' \in {"awaitRebuild", "serve", "sendShutdown", "awaitShutdown"}
      BY <1>3, <2>2 DEF RebuildLife, RebuildLast, RebuildAsked
    <3>. QED
      BY <1>3, <2>2, <2>3, <3>1 DEF RebuildLife, RebuildLast, WriterFailed, RebuildBehind
  <2>. QED
    BY <2>4, <2>5 DEF RebuildLife
<1>4. CASE SendRebuild
  BY <1>3, <1>4 DEF SendRebuild, SendControl
<1>5. CASE SendShutdown
  BY <1>3, <1>5 DEF SendShutdown, SendControl
<1>6. CASE ApiPause
  BY <1>3, <1>6 DEF ApiPause, SendControl
<1>. QED
  BY <1>1, <1>2, <1>4, <1>5, <1>6 DEF MainStep, EnvironmentStep, Exit, RunFails, Crash

\* A worker that has a row to send runs before the rebuild is asked for.
LEMMA RowSent ==
  ASSUME Shape, WorkLife, RebuildLife, ~FetchersGone \/ ~AnalysersGone,
         NEW s, NEW st, Block(s, st) \in BlockMsg, writeQ' = Append(writeQ, Block(s, st)),
         TypesIn(writeQ)' = TypesIn(writeQ) \cup {"block"},
         UNCHANGED <<main, writer, pending, deferred, rebuild>>
  PROVE  RebuildLife'
<1>1. writeQ \in Seq(BlockMsg \cup ControlMsg) /\ Block(s, st) \in BlockMsg \cup ControlMsg
  BY DEF Shape, TypeOK
<1>2. ~RebuildAsked
  BY DEF WorkLife, Joined, RebuildLife, RebuildLast
<1>3. RebuildBehind(Append(writeQ, Block(s, st)))
  BY <1>1, <1>2, BehindSent DEF RebuildLife, RebuildLast, RebuildAsked
<1>4. RebuildLast'
  BY <1>2, <1>3 DEF RebuildLast, RebuildAsked, RebuildBehind
<1>5. BatchFilled'
  BY DEF RebuildLife, BatchFilled
<1>. QED
  BY <1>4, <1>5 DEF RebuildLife

LEMMA RebuildFetcher ==
  ASSUME Shape, WorkLife, RebuildLife, NEW f \in Fetchers, FetcherStep(f)
  PROVE  RebuildLife'
<1>. USE DEF persistent, queues, workers, thread, bounds
<1>1. CASE FetcherSends(f)
  <2>1. fetcher[f] \in WorkerState
    BY DEF Shape, TypeOK
  <2>2. Block(fetcher[f].slot, fetcher[f].status) \in BlockMsg /\ ~FetchersGone
    BY <1>1, <2>1 DEF FetcherSends, CanSendBlock, At, WorkerState, Shape, WorkersConsistent,
                      Consistent, Block, BlockMsg, FetchersGone
  <2>3. /\ writeQ' = Append(writeQ, Block(fetcher[f].slot, fetcher[f].status))
        /\ TypesIn(writeQ)' = TypesIn(writeQ) \cup {"block"}
        /\ UNCHANGED <<main, writer, pending, deferred, rebuild>>
    BY <1>1, RowTypes DEF FetcherSends
  <2>. QED
    BY <2>2, <2>3, RowSent
<1>2. CASE ~FetcherSends(f)
  BY <1>2, RebuildKept DEF FetcherStep, FetcherRecv, FetcherStops, FetchedBlock, FetchedNoBlock,
                           SendRaw, FetcherGivesUp
<1>. QED
  BY <1>1, <1>2

LEMMA RebuildAnalyser ==
  ASSUME Shape, WorkLife, RebuildLife, NEW a \in Analysers, AnalyserStep(a)
  PROVE  RebuildLife'
<1>. USE DEF persistent, queues, workers, thread, bounds
<1>1. CASE AnalyserSends(a)
  <2>1. analyser[a] \in WorkerState
    BY DEF Shape, TypeOK
  <2>2. Block(analyser[a].slot, analyser[a].status) \in BlockMsg /\ ~AnalysersGone
    BY <1>1, <2>1 DEF AnalyserSends, CanSendBlock, At, WorkerState, Shape, WorkersConsistent,
                      Consistent, Block, BlockMsg, AnalysersGone
  <2>3. /\ writeQ' = Append(writeQ, Block(analyser[a].slot, analyser[a].status))
        /\ TypesIn(writeQ)' = TypesIn(writeQ) \cup {"block"}
        /\ UNCHANGED <<main, writer, pending, deferred, rebuild>>
    BY <1>1, RowTypes DEF AnalyserSends
  <2>. QED
    BY <2>2, <2>3, RowSent
<1>2. CASE ~AnalyserSends(a)
  BY <1>2, RebuildKept DEF AnalyserStep, AnalyserRecv, AnalyserLeaves, AnalyserStops, Analysed, AnalysisPanics,
                           AnalyserGivesUp
<1>. QED
  BY <1>1, <1>2

LEMMA RebuildWriter ==
  ASSUME Shape, RebuildLife, WriterStep
  PROVE  RebuildLife'
<1>. USE DEF persistent, queues, workers, thread, bounds
<1>1. writeQ \in Seq(BlockMsg \cup ControlMsg) /\ pending \in Seq(BlockMsg)
  BY DEF Shape, TypeOK
<1>2. ASSUME WriterRecv \/ WriterTakesMore
      PROVE  RebuildLife'
  <2>1. /\ writeQ # <<>> /\ writeQ' = Tail(writeQ) /\ UNCHANGED <<main, rebuild>>
        /\ writer # "failed" /\ writer' # "failed"
        /\ IF IsBlock(Head(writeQ)) THEN pending' = Append(pending, Head(writeQ))
                                    ELSE UNCHANGED pending
    BY <1>2 DEF WriterRecv, WriterTakesMore
  <2>2. /\ TypesIn(writeQ) = TypesIn(writeQ)' \cup {Head(writeQ).type}
        /\ IF IsBlock(Head(writeQ)) THEN deferred' = deferred ELSE deferred' = Head(writeQ).type
    BY <1>2, WriterTakes
  <2>3. /\ RebuildBehind(Tail(writeQ))
        /\ Head(writeQ).type = "rebuild" => "block" \notin TypesIn(Tail(writeQ))
    BY <1>1, <2>1, BehindReceived DEF RebuildLife, RebuildLast
  <2>4. IsBlock(Head(writeQ)) => pending' # <<>>
    <3>1. IsBlock(Head(writeQ)) => Len(pending') = Len(pending) + 1 /\ Len(pending) \in Nat
      <4>1. IsBlock(Head(writeQ)) => Head(writeQ) \in BlockMsg
        <5>1. Head(writeQ) \in BlockMsg \cup ControlMsg
          BY <1>1, <2>1
        <5>. QED
          BY <5>1 DEF IsBlock, ControlMsg, Control
      <4>. QED
        BY <1>1, <2>1, <4>1, AppendProperties
    <3>. QED
      BY <3>1
  <2>5. BatchFilled'
    BY <1>2, <2>1, <2>4 DEF WriterRecv, WriterTakesMore, RebuildLife, BatchFilled
  <2>6. RebuildAsked' => RebuildAsked
    BY <2>1, <2>2 DEF RebuildAsked, IsBlock
  <2>7. /\ RebuildBehind(writeQ)'
        /\ deferred' = "rebuild" \/ rebuild' # "none" => "block" \notin TypesIn(writeQ)'
    BY <2>1, <2>2, <2>3 DEF RebuildLife, RebuildLast, RebuildBehind, TypesIn, IsBlock
  <2>8. rebuild' # "none" => pending' = <<>> /\ ~WriterFailed'
    BY <2>1, <2>2 DEF RebuildLife, RebuildLast, IsBlock, WriterFailed
  <2>9. RebuildLast'
    BY <2>1, <2>6, <2>7, <2>8 DEF RebuildLife, RebuildLast
  <2>. QED
    BY <2>5, <2>9 DEF RebuildLife
<1>3. CASE WriterLeaves \/ WriterEndsBatch \/ Commit \/ WriterPauses \/ WriterResumes
  <2>1. /\ UNCHANGED <<main, writeQ, rebuild>> /\ deferred' \in {deferred, "none"}
        /\ writer # "failed" /\ writer' # "failed" /\ pending' \in {pending, <<>>}
        /\ writer' \in {"leave", "batch", "commit"}
             => writer \in {"leave", "batch"} /\ pending' = pending
    BY <1>3 DEF WriterLeaves, WriterEndsBatch, Commit, WriterPauses, WriterResumes
  <2>. QED
    BY <2>1 DEF RebuildLife, BatchFilled, RebuildLast, RebuildAsked, WriterFailed, TypesIn,
                RebuildBehind
<1>4. CASE CommitFails
  <2>1. rebuild = "none"
    BY <1>4 DEF CommitFails, RebuildLife, BatchFilled, RebuildLast
  <2>. QED
    BY <1>4, <2>1 DEF CommitFails, RebuildLife, BatchFilled, RebuildLast, RebuildAsked, TypesIn,
                      RebuildBehind
<1>5. CASE RebuildCandles
  <2>1. pending = <<>>
    BY <1>5 DEF RebuildCandles, Shape, BatchConsistent
  <2>. QED
    BY <1>5, <2>1 DEF RebuildCandles, RebuildLife, BatchFilled, RebuildLast, RebuildAsked,
                      TypesIn, RebuildBehind, WriterFailed
<1>6. CASE WriterStops
  BY <1>6 DEF WriterStops, RebuildLife, BatchFilled, RebuildLast, RebuildAsked, TypesIn,
              RebuildBehind, WriterFailed
<1>. QED
  BY <1>2, <1>3, <1>4, <1>5, <1>6 DEF WriterStep

LEMMA RebuildLifeNext ==
  ASSUME Shape, WorkLife, RebuildLife, [Next]_vars
  PROVE  RebuildLife'
  BY RebuildMain, RebuildFetcher, RebuildAnalyser, RebuildWriter DEF Next, Terminated

LEMMA RebuildLifeInit == Init => RebuildLife
  BY DEF Init, RebuildLife, BatchFilled, RebuildLast, RebuildAsked, TypesIn, RebuildBehind
-----------------------------------------------------------------------------
(* Where the slots and the rows of a run are                               *)

\* What is in flight, place by place.
SlotsOf(ws) == {ws[w].slot : w \in DOMAIN ws} \ {NoSlot}

Flight == todo \cup Elems(slotQ) \cup Elems(rawQ) \cup BlocksIn(writeQ) \cup BlocksIn(pending)
            \cup SlotsOf(fetcher) \cup SlotsOf(analyser)

FlightOK == InFlight = Flight

LEMMA FlightIs == Shape => FlightOK
<1>. SUFFICES ASSUME Shape PROVE InFlight = Flight
  BY DEF FlightOK
<1>1. DOMAIN fetcher = Fetchers /\ DOMAIN analyser = Analysers
  BY DEF Shape, TypeOK
<1>2. Flight \subseteq InFlight
  <2>1. \A p \in Place : Held(p) \subseteq InFlight
    BY DEF InFlight
  <2>2. /\ todo \subseteq InFlight /\ Elems(slotQ) \subseteq InFlight
        /\ Elems(rawQ) \subseteq InFlight /\ BlocksIn(writeQ) \subseteq InFlight
        /\ BlocksIn(pending) \subseteq InFlight
    BY <2>1, Places DEF PlaceTable
  <2>3. /\ \A f \in Fetchers : {fetcher[f].slot} \ {NoSlot} \subseteq InFlight
        /\ \A a \in Analysers : {analyser[a].slot} \ {NoSlot} \subseteq InFlight
    BY <2>1, Places DEF PlaceTable
  <2>4. SlotsOf(fetcher) \subseteq InFlight /\ SlotsOf(analyser) \subseteq InFlight
    BY <1>1, <2>3 DEF SlotsOf
  <2>. QED
    BY <2>2, <2>4 DEF Flight
<1>3. ASSUME NEW p \in Place
      PROVE  Held(p) \subseteq Flight
  <2>1. CASE p \in {<<"queue", q>> : q \in {"todo", "slotQ", "rawQ", "writeQ", "pending"}}
    BY <2>1, Places DEF PlaceTable, Flight
  <2>2. CASE p \in {<<"fetcher", f>> : f \in Fetchers}
    BY <1>1, <2>2, Places DEF PlaceTable, Flight, SlotsOf
  <2>3. CASE p \in {<<"analyser", a>> : a \in Analysers}
    BY <1>1, <2>3, Places DEF PlaceTable, Flight, SlotsOf
  <2>. QED
    BY <2>1, <2>2, <2>3 DEF Place
<1>. QED
  BY <1>2, <1>3 DEF InFlight

LEMMA FlightIsNext == Shape' => FlightOK'
  BY FlightIs, PTL

\* A row from the worker that counted it to the commit that stores it.
Row(w)   == IF w.pc = "sendWrite" THEN {Block(w.slot, w.status)} ELSE {}
Rows(ws) == UNION {Row(ws[w]) : w \in DOMAIN ws}

QueuedRows == {b \in Elems(writeQ) : IsBlock(b)}
OnTheWay   == QueuedRows \cup Elems(pending) \cup Rows(fetcher) \cup Rows(analyser)

\* The elements of a queue that is sent to and received from.
LEMMA ElemsSent ==
  ASSUME NEW S, NEW q \in Seq(S), NEW x \in S
  PROVE  Elems(Append(q, x)) = Elems(q) \cup {x}
  BY SlotSent

LEMMA ElemsReceived ==
  ASSUME NEW S, NEW q \in Seq(S), q # <<>>
  PROVE  Elems(q) = Elems(Tail(q)) \cup {Head(q)}
<1>1. /\ Len(Tail(q)) = Len(q) - 1 /\ Len(q) \in Nat /\ Len(q) > 0 /\ Head(q) = q[1]
      /\ DOMAIN q = 1 .. Len(q) /\ DOMAIN Tail(q) = 1 .. Len(Tail(q))
      /\ \A i \in 1 .. Len(Tail(q)) : Tail(q)[i] = q[i + 1]
  BY HeadTailProperties
<1>2. /\ \A i \in DOMAIN Tail(q) : i + 1 \in DOMAIN q
      /\ \A i \in DOMAIN q : i # 1 => i - 1 \in DOMAIN Tail(q) /\ (i - 1) + 1 = i
      /\ 1 \in DOMAIN q
  BY <1>1
<1>3. ASSUME NEW i \in DOMAIN q, i # 1
      PROVE  q[i] \in Elems(Tail(q))
  <2>1. i - 1 \in DOMAIN Tail(q) /\ Tail(q)[i - 1] = q[i]
    BY <1>1, <1>2, <1>3
  <2>. QED
    BY <2>1 DEF Elems
<1>4. Elems(Tail(q)) \cup {Head(q)} \subseteq Elems(q)
  BY <1>1, <1>2 DEF Elems
<1>5. Elems(q) \subseteq Elems(Tail(q)) \cup {Head(q)}
  BY <1>1, <1>3 DEF Elems
<1>. QED
  BY <1>4, <1>5

\* The blocks of a queue, from its elements.
LEMMA BlocksFromElems ==
  \A q : BlocksIn(q) = {x.slot : x \in Elems(q)} \ {NoSlot}
  BY DEF BlocksIn, Elems

\* A step of one worker: what the others hold and send stays.
OtherRows(ws, w)  == UNION {Row(ws[u]) : u \in DOMAIN ws \ {w}}
OtherSlots(ws, w) == {ws[u].slot : u \in DOMAIN ws \ {w}} \ {NoSlot}

LEMMA OtherWorkers ==
  ASSUME NEW ws, NEW next, NEW w \in DOMAIN ws, DOMAIN next = DOMAIN ws,
         \A u \in DOMAIN ws \ {w} : next[u] = ws[u]
  PROVE  /\ Rows(ws) = OtherRows(ws, w) \cup Row(ws[w])
         /\ Rows(next) = OtherRows(ws, w) \cup Row(next[w])
         /\ SlotsOf(ws) = OtherSlots(ws, w) \cup ({ws[w].slot} \ {NoSlot})
         /\ SlotsOf(next) = OtherSlots(ws, w) \cup ({next[w].slot} \ {NoSlot})
<1>1. Rows(ws) = OtherRows(ws, w) \cup Row(ws[w])
  BY DEF Rows, OtherRows
<1>2. OtherRows(ws, w) = OtherRows(next, w)
  BY DEF OtherRows
<1>3. Rows(next) = OtherRows(ws, w) \cup Row(next[w])
  BY <1>2 DEF Rows, OtherRows
<1>4. SlotsOf(ws) = OtherSlots(ws, w) \cup ({ws[w].slot} \ {NoSlot})
  BY DEF SlotsOf, OtherSlots
<1>5. OtherSlots(ws, w) = OtherSlots(next, w)
  BY DEF OtherSlots
<1>6. SlotsOf(next) = OtherSlots(ws, w) \cup ({next[w].slot} \ {NoSlot})
  BY <1>5 DEF SlotsOf, OtherSlots
<1>. QED
  BY <1>1, <1>3, <1>4, <1>6

LEMMA OtherFetchers ==
  ASSUME Shape, NEW f \in Fetchers, NEW v, fetcher' = [fetcher EXCEPT ![f] = v]
  PROVE  \E R, H :
           /\ Rows(fetcher) = R \cup Row(fetcher[f]) /\ Rows(fetcher)' = R \cup Row(v)
           /\ SlotsOf(fetcher) = H \cup ({fetcher[f].slot} \ {NoSlot})
           /\ SlotsOf(fetcher)' = H \cup ({v.slot} \ {NoSlot})
<1>1. /\ DOMAIN fetcher = Fetchers /\ DOMAIN fetcher' = Fetchers
      /\ fetcher'[f] = v /\ \A u \in Fetchers \ {f} : fetcher'[u] = fetcher[u]
  BY DEF Shape, TypeOK
<1>2. \A ws, next : /\ DOMAIN ws = Fetchers /\ DOMAIN next = Fetchers
                    /\ \A u \in Fetchers \ {f} : next[u] = ws[u]
        => /\ Rows(ws) = OtherRows(ws, f) \cup Row(ws[f])
           /\ Rows(next) = OtherRows(ws, f) \cup Row(next[f])
           /\ SlotsOf(ws) = OtherSlots(ws, f) \cup ({ws[f].slot} \ {NoSlot})
           /\ SlotsOf(next) = OtherSlots(ws, f) \cup ({next[f].slot} \ {NoSlot})
  BY OtherWorkers
<1>3. /\ Rows(fetcher) = OtherRows(fetcher, f) \cup Row(fetcher[f])
      /\ Rows(fetcher') = OtherRows(fetcher, f) \cup Row(fetcher'[f])
      /\ SlotsOf(fetcher) = OtherSlots(fetcher, f) \cup ({fetcher[f].slot} \ {NoSlot})
      /\ SlotsOf(fetcher') = OtherSlots(fetcher, f) \cup ({fetcher'[f].slot} \ {NoSlot})
  BY <1>1, <1>2
<1>. QED
  BY <1>1, <1>3

LEMMA OtherAnalysers ==
  ASSUME Shape, NEW a \in Analysers, NEW v, analyser' = [analyser EXCEPT ![a] = v]
  PROVE  \E R, H :
           /\ Rows(analyser) = R \cup Row(analyser[a]) /\ Rows(analyser)' = R \cup Row(v)
           /\ SlotsOf(analyser) = H \cup ({analyser[a].slot} \ {NoSlot})
           /\ SlotsOf(analyser)' = H \cup ({v.slot} \ {NoSlot})
<1>1. /\ DOMAIN analyser = Analysers /\ DOMAIN analyser' = Analysers
      /\ analyser'[a] = v /\ \A u \in Analysers \ {a} : analyser'[u] = analyser[u]
  BY DEF Shape, TypeOK
<1>2. \A ws, next : /\ DOMAIN ws = Analysers /\ DOMAIN next = Analysers
                    /\ \A u \in Analysers \ {a} : next[u] = ws[u]
        => /\ Rows(ws) = OtherRows(ws, a) \cup Row(ws[a])
           /\ Rows(next) = OtherRows(ws, a) \cup Row(next[a])
           /\ SlotsOf(ws) = OtherSlots(ws, a) \cup ({ws[a].slot} \ {NoSlot})
           /\ SlotsOf(next) = OtherSlots(ws, a) \cup ({next[a].slot} \ {NoSlot})
  BY OtherWorkers
<1>3. /\ Rows(analyser) = OtherRows(analyser, a) \cup Row(analyser[a])
      /\ Rows(analyser') = OtherRows(analyser, a) \cup Row(analyser'[a])
      /\ SlotsOf(analyser) = OtherSlots(analyser, a) \cup ({analyser[a].slot} \ {NoSlot})
      /\ SlotsOf(analyser') = OtherSlots(analyser, a) \cup ({analyser'[a].slot} \ {NoSlot})
  BY <1>1, <1>2
<1>. QED
  BY <1>1, <1>3

\* A worker's step carries its slot on and its row with it: nothing in flight is
\* dropped, and a row appears only where an outcome is counted. A worker that
\* gives up on a writer that is gone drops both.
Carried == Flight' = Flight /\ OnTheWay' = OnTheWay


LEMMA CarriedFetcher ==
  ASSUME Shape, NEW f \in Fetchers, FetcherStep(f)
  PROVE  /\ FetcherRecv(f) \/ FetcherStops(f) \/ FetchedBlock(f) \/ SendRaw(f) \/ FetcherSends(f) => Carried
         /\ \A st \in {"skipped", "failed"} : FetchedNoBlock(f, st) =>
              Flight' = Flight /\ OnTheWay' = OnTheWay \cup {Block(fetcher[f].slot, st)}
<1>. USE DEF persistent, queues, workers, thread, bounds, At
<1>1. /\ fetcher[f] \in WorkerState /\ Consistent(fetcher[f])
      /\ slotQ \in Seq(Slots) /\ rawQ \in Seq(Slots)
      /\ writeQ \in Seq(BlockMsg \cup ControlMsg)
  BY DEF Shape, TypeOK, WorkersConsistent
<1>2. \A s \in Slots : s # NoSlot
  BY SlotsAssumption DEF NoSlot
<1>3. ASSUME NEW v, fetcher' = [fetcher EXCEPT ![f] = v]
      PROVE  \E R, H :
           /\ Rows(fetcher) = R \cup Row(fetcher[f]) /\ Rows(fetcher)' = R \cup Row(v)
           /\ SlotsOf(fetcher) = H \cup ({fetcher[f].slot} \ {NoSlot})
           /\ SlotsOf(fetcher)' = H \cup ({v.slot} \ {NoSlot})
  BY <1>3, OtherFetchers
<1>4. Goto("recv").slot = NoSlot /\ Goto("off").slot = NoSlot
      /\ Row(Goto("recv")) = {} /\ Row(Goto("off")) = {}
  BY DEF Goto, Row
<1>rest. UNCHANGED <<todo, pending, analyser>>
  BY DEF FetcherStep, FetcherRecv, FetcherStops, FetchedBlock, FetchedNoBlock, SendRaw, FetcherSends,
         FetcherGivesUp
<1>others. UNCHANGED <<Elems(pending), BlocksIn(pending), Rows(analyser), SlotsOf(analyser)>>
  BY <1>rest DEF Elems, BlocksIn, Rows, SlotsOf
<1>5. ASSUME FetcherRecv(f)
      PROVE  Carried
  <2>1. PICK v : v = [fetcher[f] EXCEPT !.pc = "fetch", !.slot = Head(slotQ)]
    OBVIOUS
  <2>2. fetcher' = [fetcher EXCEPT ![f] = v]
    BY <1>1, <1>5, <2>1 DEF FetcherRecv, WorkerState
  <2>3. PICK R, H :
           /\ Rows(fetcher) = R \cup Row(fetcher[f]) /\ Rows(fetcher)' = R \cup Row(v)
           /\ SlotsOf(fetcher) = H \cup ({fetcher[f].slot} \ {NoSlot})
           /\ SlotsOf(fetcher)' = H \cup ({v.slot} \ {NoSlot})
    BY <1>3, <2>2
  <2>4. /\ Head(slotQ) \in Slots /\ Elems(slotQ) = Elems(slotQ') \cup {Head(slotQ)}
        /\ UNCHANGED <<rawQ, writeQ>>
    BY <1>1, <1>5, ElemsReceived, HeadTailProperties DEF FetcherRecv
  <2>5. /\ fetcher[f].slot = NoSlot /\ v.slot = Head(slotQ)
        /\ Row(fetcher[f]) = {} /\ Row(v) = {}
    BY <1>1, <1>5, <2>1 DEF FetcherRecv, Consistent, Row, WorkerState
  <2>6. SlotsOf(fetcher) = H /\ SlotsOf(fetcher)' = H \cup {Head(slotQ)}
    BY <1>2, <2>3, <2>4, <2>5
  <2>7. Rows(fetcher)' = Rows(fetcher)
    BY <2>3, <2>5
  <2>8. UNCHANGED <<Elems(rawQ), BlocksIn(writeQ), QueuedRows>>
    BY <2>4 DEF Elems, BlocksIn, QueuedRows
  <2>9. Flight' = Flight
    BY <1>rest, <1>others, <2>4, <2>6, <2>8 DEF Flight
  <2>10. OnTheWay' = OnTheWay
    BY <1>others, <2>7, <2>8 DEF OnTheWay
  <2>. QED
    BY <2>9, <2>10 DEF Carried
<1>6. ASSUME FetcherStops(f)
      PROVE  Carried
  <2>1. PICK v : v = Goto("off")
    OBVIOUS
  <2>2. fetcher' = [fetcher EXCEPT ![f] = v]
    BY <1>1, <1>6, <2>1 DEF FetcherStops, WorkerState
  <2>3. PICK R, H :
           /\ Rows(fetcher) = R \cup Row(fetcher[f]) /\ Rows(fetcher)' = R \cup Row(v)
           /\ SlotsOf(fetcher) = H \cup ({fetcher[f].slot} \ {NoSlot})
           /\ SlotsOf(fetcher)' = H \cup ({v.slot} \ {NoSlot})
    BY <1>3, <2>2
  <2>4. UNCHANGED <<slotQ, rawQ, writeQ>>
    BY <1>6 DEF FetcherStops
  <2>5. fetcher[f].slot = NoSlot /\ v.slot = NoSlot /\ Row(fetcher[f]) = {} /\ Row(v) = {}
    BY <1>1, <1>4, <1>6, <2>1 DEF FetcherStops, Consistent, Row
  <2>6. Rows(fetcher)' = Rows(fetcher) /\ SlotsOf(fetcher)' = SlotsOf(fetcher)
    BY <2>3, <2>5
  <2>7. UNCHANGED <<Elems(slotQ), Elems(rawQ), BlocksIn(writeQ), QueuedRows>>
    BY <2>4 DEF Elems, BlocksIn, QueuedRows
  <2>8. Flight' = Flight
    BY <1>rest, <1>others, <2>6, <2>7 DEF Flight
  <2>9. OnTheWay' = OnTheWay
    BY <1>others, <2>6, <2>7 DEF OnTheWay
  <2>. QED
    BY <2>8, <2>9 DEF Carried
<1>7. ASSUME FetcherSends(f)
      PROVE  Carried
  <2>1. PICK v : v = Goto("recv")
    OBVIOUS
  <2>2. fetcher' = [fetcher EXCEPT ![f] = v]
    BY <1>1, <1>7, <2>1 DEF FetcherSends, WorkerState
  <2>3. PICK R, H :
           /\ Rows(fetcher) = R \cup Row(fetcher[f]) /\ Rows(fetcher)' = R \cup Row(v)
           /\ SlotsOf(fetcher) = H \cup ({fetcher[f].slot} \ {NoSlot})
           /\ SlotsOf(fetcher)' = H \cup ({v.slot} \ {NoSlot})
    BY <1>3, <2>2
  <2>. DEFINE b == Block(fetcher[f].slot, fetcher[f].status)
  <2>4. /\ b \in BlockMsg /\ b.slot = fetcher[f].slot /\ b.slot # NoSlot /\ IsBlock(b)
        /\ Row(fetcher[f]) = {b} /\ v.slot = NoSlot /\ Row(v) = {}
    <3>1. fetcher[f].pc = "sendWrite"
      BY <1>7 DEF FetcherSends, CanSendBlock
    <3>2. fetcher[f].slot \in Slots /\ fetcher[f].status \in Outcome
      BY <1>1, <3>1 DEF WorkerState, Consistent
    <3>3. b \in BlockMsg /\ b.slot = fetcher[f].slot /\ b.slot # NoSlot /\ IsBlock(b)
      BY <1>2, <3>2 DEF Block, BlockMsg, IsBlock
    <3>4. Row(fetcher[f]) = {b} /\ v.slot = NoSlot /\ Row(v) = {}
      BY <1>4, <2>1, <3>1 DEF Row
    <3>. QED
      BY <3>3, <3>4
  <2>. HIDE DEF b
  <2>5. writeQ' = Append(writeQ, b) /\ UNCHANGED <<slotQ, rawQ>>
    BY <1>7 DEF FetcherSends, b
  <2>6. Elems(writeQ)' = Elems(writeQ) \cup {b} /\ BlocksIn(writeQ)' = BlocksIn(writeQ) \cup {b.slot}
    <3>1. Elems(Append(writeQ, b)) = Elems(writeQ) \cup {b}
      BY <1>1, <2>4, ElemsSent
    <3>2. BlocksIn(Append(writeQ, b)) = BlocksIn(writeQ) \cup ({b.slot} \ {NoSlot})
      BY <1>1, <2>4, MessageSent
    <3>3. Elems(writeQ') = Elems(writeQ) \cup {b}
      BY <2>5, <3>1
    <3>4. BlocksIn(writeQ') = BlocksIn(writeQ) \cup ({b.slot} \ {NoSlot})
      BY <2>5, <3>2
    <3>5. {b.slot} \ {NoSlot} = {b.slot}
      BY <2>4
    <3>. QED
      BY <3>3, <3>4, <3>5
  <2>7. QueuedRows' = QueuedRows \cup {b}
    BY <2>4, <2>6 DEF QueuedRows
  <2>8. UNCHANGED <<Elems(slotQ), Elems(rawQ)>>
    BY <2>5 DEF Elems
  <2>9. SlotsOf(fetcher) = H \cup {b.slot} /\ SlotsOf(fetcher)' = H
    BY <2>3, <2>4
  <2>10. Rows(fetcher) = R \cup {b} /\ Rows(fetcher)' = R
    BY <2>3, <2>4
  <2>11. Flight' = Flight
    BY <1>rest, <1>others, <2>6, <2>8, <2>9 DEF Flight
  <2>12. OnTheWay' = OnTheWay
    BY <1>others, <2>7, <2>10 DEF OnTheWay
  <2>. QED
    BY <2>11, <2>12 DEF Carried
<1>8. ASSUME FetchedBlock(f)
      PROVE  Carried
  <2>1. PICK v : v = [fetcher[f] EXCEPT !.pc = "sendRaw"]
    OBVIOUS
  <2>2. fetcher' = [fetcher EXCEPT ![f] = v]
    BY <1>1, <1>8, <2>1 DEF FetchedBlock, WorkerState
  <2>3. PICK R, H :
           /\ Rows(fetcher) = R \cup Row(fetcher[f]) /\ Rows(fetcher)' = R \cup Row(v)
           /\ SlotsOf(fetcher) = H \cup ({fetcher[f].slot} \ {NoSlot})
           /\ SlotsOf(fetcher)' = H \cup ({v.slot} \ {NoSlot})
    BY <1>3, <2>2
  <2>4. UNCHANGED <<slotQ, rawQ, writeQ>>
    BY <1>8 DEF FetchedBlock
  <2>5. v.slot = fetcher[f].slot /\ Row(fetcher[f]) = {} /\ Row(v) = {}
    BY <1>1, <1>8, <2>1 DEF FetchedBlock, WorkerState, Row
  <2>6. Rows(fetcher)' = Rows(fetcher) /\ SlotsOf(fetcher)' = SlotsOf(fetcher)
    BY <2>3, <2>5
  <2>7. UNCHANGED <<Elems(slotQ), Elems(rawQ), BlocksIn(writeQ), QueuedRows>>
    BY <2>4 DEF Elems, BlocksIn, QueuedRows
  <2>8. Flight' = Flight
    BY <1>rest, <1>others, <2>6, <2>7 DEF Flight
  <2>9. OnTheWay' = OnTheWay
    BY <1>others, <2>6, <2>7 DEF OnTheWay
  <2>. QED
    BY <2>8, <2>9 DEF Carried
<1>9. ASSUME SendRaw(f)
      PROVE  Carried
  <2>1. PICK v : v = Goto("recv")
    OBVIOUS
  <2>2. fetcher' = [fetcher EXCEPT ![f] = v]
    BY <1>1, <1>9, <2>1 DEF SendRaw, WorkerState
  <2>3. PICK R, H :
           /\ Rows(fetcher) = R \cup Row(fetcher[f]) /\ Rows(fetcher)' = R \cup Row(v)
           /\ SlotsOf(fetcher) = H \cup ({fetcher[f].slot} \ {NoSlot})
           /\ SlotsOf(fetcher)' = H \cup ({v.slot} \ {NoSlot})
    BY <1>3, <2>2
  <2>4. fetcher[f].slot \in Slots /\ Row(fetcher[f]) = {} /\ v.slot = NoSlot /\ Row(v) = {}
    BY <1>1, <1>4, <1>9, <2>1 DEF SendRaw, WorkerState, Consistent, Row
  <2>5. Elems(rawQ') = Elems(rawQ) \cup {fetcher[f].slot} /\ UNCHANGED <<slotQ, writeQ>>
    BY <1>1, <1>9, <2>4, ElemsSent DEF SendRaw
  <2>6. SlotsOf(fetcher) = H \cup {fetcher[f].slot} /\ SlotsOf(fetcher)' = H
    BY <1>2, <2>3, <2>4
  <2>7. Rows(fetcher)' = Rows(fetcher)
    BY <2>3, <2>4
  <2>8. UNCHANGED <<Elems(slotQ), BlocksIn(writeQ), QueuedRows>>
    BY <2>5 DEF Elems, BlocksIn, QueuedRows
  <2>9. Flight' = Flight
    BY <1>rest, <1>others, <2>5, <2>6, <2>8 DEF Flight
  <2>10. OnTheWay' = OnTheWay
    BY <1>others, <2>7, <2>8 DEF OnTheWay
  <2>. QED
    BY <2>9, <2>10 DEF Carried
<1>10. ASSUME NEW st \in {"skipped", "failed"}, FetchedNoBlock(f, st)
      PROVE  Flight' = Flight /\ OnTheWay' = OnTheWay \cup {Block(fetcher[f].slot, st)}
  <2>1. PICK v : v = Sending(fetcher[f], st)
    OBVIOUS
  <2>2. fetcher' = [fetcher EXCEPT ![f] = v]
    BY <1>1, <1>10, <2>1 DEF FetchedNoBlock, WorkerState
  <2>3. PICK R, H :
           /\ Rows(fetcher) = R \cup Row(fetcher[f]) /\ Rows(fetcher)' = R \cup Row(v)
           /\ SlotsOf(fetcher) = H \cup ({fetcher[f].slot} \ {NoSlot})
           /\ SlotsOf(fetcher)' = H \cup ({v.slot} \ {NoSlot})
    BY <1>3, <2>2
  <2>4. UNCHANGED <<slotQ, rawQ, writeQ>>
    BY <1>10 DEF FetchedNoBlock
  <2>5. /\ v.slot = fetcher[f].slot /\ Row(fetcher[f]) = {}
        /\ Row(v) = {Block(fetcher[f].slot, st)}
    BY <1>1, <1>10, <2>1 DEF FetchedNoBlock, WorkerState, Sending, Row
  <2>6. /\ Rows(fetcher)' = Rows(fetcher) \cup {Block(fetcher[f].slot, st)}
        /\ SlotsOf(fetcher)' = SlotsOf(fetcher)
    BY <2>3, <2>5
  <2>7. UNCHANGED <<Elems(slotQ), Elems(rawQ), BlocksIn(writeQ), QueuedRows>>
    BY <2>4 DEF Elems, BlocksIn, QueuedRows
  <2>8. Flight' = Flight
    BY <1>rest, <1>others, <2>6, <2>7 DEF Flight
  <2>9. OnTheWay' = OnTheWay \cup {Block(fetcher[f].slot, st)}
    BY <1>others, <2>6, <2>7 DEF OnTheWay
  <2>. QED
    BY <2>8, <2>9
<1>. QED
  BY <1>5, <1>6, <1>7, <1>8, <1>9, <1>10

LEMMA CarriedAnalyser ==
  ASSUME Shape, NEW a \in Analysers, AnalyserStep(a)
  PROVE  /\ AnalyserRecv(a) \/ AnalyserLeaves(a) \/ AnalyserStops(a) \/ AnalyserSends(a)
              => Carried
         /\ Analysed(a) =>
              Flight' = Flight /\ OnTheWay' = OnTheWay \cup {Block(analyser[a].slot, "done")}
         /\ AnalysisPanics(a) =>
              Flight \subseteq Flight' \cup {analyser[a].slot} /\ OnTheWay' = OnTheWay
<1>. USE DEF persistent, queues, workers, thread, bounds, At
<1>1. /\ analyser[a] \in WorkerState /\ Consistent(analyser[a])
      /\ slotQ \in Seq(Slots) /\ rawQ \in Seq(Slots)
      /\ writeQ \in Seq(BlockMsg \cup ControlMsg)
  BY DEF Shape, TypeOK, WorkersConsistent
<1>2. \A s \in Slots : s # NoSlot
  BY SlotsAssumption DEF NoSlot
<1>3. ASSUME NEW v, analyser' = [analyser EXCEPT ![a] = v]
      PROVE  \E R, H :
           /\ Rows(analyser) = R \cup Row(analyser[a]) /\ Rows(analyser)' = R \cup Row(v)
           /\ SlotsOf(analyser) = H \cup ({analyser[a].slot} \ {NoSlot})
           /\ SlotsOf(analyser)' = H \cup ({v.slot} \ {NoSlot})
  BY <1>3, OtherAnalysers
<1>4. Goto("recv").slot = NoSlot /\ Goto("off").slot = NoSlot
      /\ Row(Goto("recv")) = {} /\ Row(Goto("off")) = {}
  BY DEF Goto, Row
<1>rest. UNCHANGED <<todo, pending, fetcher>>
  BY DEF AnalyserStep, AnalyserRecv, AnalyserLeaves, AnalyserStops, Analysed, AnalysisPanics, AnalyserSends,
         AnalyserGivesUp
<1>others. UNCHANGED <<Elems(pending), BlocksIn(pending), Rows(fetcher), SlotsOf(fetcher)>>
  BY <1>rest DEF Elems, BlocksIn, Rows, SlotsOf
<1>5. ASSUME AnalyserRecv(a)
      PROVE  Carried
  <2>1. PICK v : v = [analyser[a] EXCEPT !.pc = "leave", !.slot = Head(rawQ)]
    OBVIOUS
  <2>2. analyser' = [analyser EXCEPT ![a] = v]
    BY <1>1, <1>5, <2>1 DEF AnalyserRecv, WorkerState
  <2>3. PICK R, H :
           /\ Rows(analyser) = R \cup Row(analyser[a]) /\ Rows(analyser)' = R \cup Row(v)
           /\ SlotsOf(analyser) = H \cup ({analyser[a].slot} \ {NoSlot})
           /\ SlotsOf(analyser)' = H \cup ({v.slot} \ {NoSlot})
    BY <1>3, <2>2
  <2>4. /\ Head(rawQ) \in Slots /\ Elems(rawQ) = Elems(rawQ') \cup {Head(rawQ)}
        /\ UNCHANGED <<slotQ, writeQ>>
    BY <1>1, <1>5, ElemsReceived, HeadTailProperties DEF AnalyserRecv
  <2>5. /\ analyser[a].slot = NoSlot /\ v.slot = Head(rawQ)
        /\ Row(analyser[a]) = {} /\ Row(v) = {}
    BY <1>1, <1>5, <2>1 DEF AnalyserRecv, Consistent, Row, WorkerState
  <2>6. SlotsOf(analyser) = H /\ SlotsOf(analyser)' = H \cup {Head(rawQ)}
    BY <1>2, <2>3, <2>4, <2>5
  <2>7. Rows(analyser)' = Rows(analyser)
    BY <2>3, <2>5
  <2>8. UNCHANGED <<Elems(slotQ), BlocksIn(writeQ), QueuedRows>>
    BY <2>4 DEF Elems, BlocksIn, QueuedRows
  <2>9. Flight' = Flight
    BY <1>rest, <1>others, <2>4, <2>6, <2>8 DEF Flight
  <2>10. OnTheWay' = OnTheWay
    BY <1>others, <2>7, <2>8 DEF OnTheWay
  <2>. QED
    BY <2>9, <2>10 DEF Carried
<1>6. ASSUME AnalyserStops(a)
      PROVE  Carried
  <2>1. PICK v : v = Goto("off")
    OBVIOUS
  <2>2. analyser' = [analyser EXCEPT ![a] = v]
    BY <1>1, <1>6, <2>1 DEF AnalyserStops, WorkerState
  <2>3. PICK R, H :
           /\ Rows(analyser) = R \cup Row(analyser[a]) /\ Rows(analyser)' = R \cup Row(v)
           /\ SlotsOf(analyser) = H \cup ({analyser[a].slot} \ {NoSlot})
           /\ SlotsOf(analyser)' = H \cup ({v.slot} \ {NoSlot})
    BY <1>3, <2>2
  <2>4. UNCHANGED <<slotQ, rawQ, writeQ>>
    BY <1>6 DEF AnalyserStops
  <2>5. analyser[a].slot = NoSlot /\ v.slot = NoSlot /\ Row(analyser[a]) = {} /\ Row(v) = {}
    BY <1>1, <1>4, <1>6, <2>1 DEF AnalyserStops, Consistent, Row
  <2>6. Rows(analyser)' = Rows(analyser) /\ SlotsOf(analyser)' = SlotsOf(analyser)
    BY <2>3, <2>5
  <2>7. UNCHANGED <<Elems(slotQ), Elems(rawQ), BlocksIn(writeQ), QueuedRows>>
    BY <2>4 DEF Elems, BlocksIn, QueuedRows
  <2>8. Flight' = Flight
    BY <1>rest, <1>others, <2>6, <2>7 DEF Flight
  <2>9. OnTheWay' = OnTheWay
    BY <1>others, <2>6, <2>7 DEF OnTheWay
  <2>. QED
    BY <2>8, <2>9 DEF Carried
<1>7. ASSUME AnalyserSends(a)
      PROVE  Carried
  <2>1. PICK v : v = Goto("recv")
    OBVIOUS
  <2>2. analyser' = [analyser EXCEPT ![a] = v]
    BY <1>1, <1>7, <2>1 DEF AnalyserSends, WorkerState
  <2>3. PICK R, H :
           /\ Rows(analyser) = R \cup Row(analyser[a]) /\ Rows(analyser)' = R \cup Row(v)
           /\ SlotsOf(analyser) = H \cup ({analyser[a].slot} \ {NoSlot})
           /\ SlotsOf(analyser)' = H \cup ({v.slot} \ {NoSlot})
    BY <1>3, <2>2
  <2>. DEFINE b == Block(analyser[a].slot, analyser[a].status)
  <2>4. /\ b \in BlockMsg /\ b.slot = analyser[a].slot /\ b.slot # NoSlot /\ IsBlock(b)
        /\ Row(analyser[a]) = {b} /\ v.slot = NoSlot /\ Row(v) = {}
    <3>1. analyser[a].pc = "sendWrite"
      BY <1>7 DEF AnalyserSends, CanSendBlock
    <3>2. analyser[a].slot \in Slots /\ analyser[a].status \in Outcome
      BY <1>1, <3>1 DEF WorkerState, Consistent
    <3>3. b \in BlockMsg /\ b.slot = analyser[a].slot /\ b.slot # NoSlot /\ IsBlock(b)
      BY <1>2, <3>2 DEF Block, BlockMsg, IsBlock
    <3>4. Row(analyser[a]) = {b} /\ v.slot = NoSlot /\ Row(v) = {}
      BY <1>4, <2>1, <3>1 DEF Row
    <3>. QED
      BY <3>3, <3>4
  <2>. HIDE DEF b
  <2>5. writeQ' = Append(writeQ, b) /\ UNCHANGED <<slotQ, rawQ>>
    BY <1>7 DEF AnalyserSends, b
  <2>6. Elems(writeQ)' = Elems(writeQ) \cup {b} /\ BlocksIn(writeQ)' = BlocksIn(writeQ) \cup {b.slot}
    <3>1. Elems(Append(writeQ, b)) = Elems(writeQ) \cup {b}
      BY <1>1, <2>4, ElemsSent
    <3>2. BlocksIn(Append(writeQ, b)) = BlocksIn(writeQ) \cup ({b.slot} \ {NoSlot})
      BY <1>1, <2>4, MessageSent
    <3>3. Elems(writeQ') = Elems(writeQ) \cup {b}
      BY <2>5, <3>1
    <3>4. BlocksIn(writeQ') = BlocksIn(writeQ) \cup ({b.slot} \ {NoSlot})
      BY <2>5, <3>2
    <3>5. {b.slot} \ {NoSlot} = {b.slot}
      BY <2>4
    <3>. QED
      BY <3>3, <3>4, <3>5
  <2>7. QueuedRows' = QueuedRows \cup {b}
    BY <2>4, <2>6 DEF QueuedRows
  <2>8. UNCHANGED <<Elems(slotQ), Elems(rawQ)>>
    BY <2>5 DEF Elems
  <2>9. SlotsOf(analyser) = H \cup {b.slot} /\ SlotsOf(analyser)' = H
    BY <2>3, <2>4
  <2>10. Rows(analyser) = R \cup {b} /\ Rows(analyser)' = R
    BY <2>3, <2>4
  <2>11. Flight' = Flight
    BY <1>rest, <1>others, <2>6, <2>8, <2>9 DEF Flight
  <2>12. OnTheWay' = OnTheWay
    BY <1>others, <2>7, <2>10 DEF OnTheWay
  <2>. QED
    BY <2>11, <2>12 DEF Carried
<1>8. ASSUME Analysed(a)
      PROVE  Flight' = Flight /\ OnTheWay' = OnTheWay \cup {Block(analyser[a].slot, "done")}
  <2>1. PICK v : v = Sending(analyser[a], "done")
    OBVIOUS
  <2>2. analyser' = [analyser EXCEPT ![a] = v]
    BY <1>1, <1>8, <2>1 DEF Analysed, WorkerState
  <2>3. PICK R, H :
           /\ Rows(analyser) = R \cup Row(analyser[a]) /\ Rows(analyser)' = R \cup Row(v)
           /\ SlotsOf(analyser) = H \cup ({analyser[a].slot} \ {NoSlot})
           /\ SlotsOf(analyser)' = H \cup ({v.slot} \ {NoSlot})
    BY <1>3, <2>2
  <2>4. UNCHANGED <<slotQ, rawQ, writeQ>>
    BY <1>8 DEF Analysed
  <2>5. /\ v.slot = analyser[a].slot /\ Row(analyser[a]) = {}
        /\ Row(v) = {Block(analyser[a].slot, "done")}
    BY <1>1, <1>8, <2>1 DEF Analysed, WorkerState, Sending, Row
  <2>6. /\ Rows(analyser)' = Rows(analyser) \cup {Block(analyser[a].slot, "done")}
        /\ SlotsOf(analyser)' = SlotsOf(analyser)
    BY <2>3, <2>5
  <2>7. UNCHANGED <<Elems(slotQ), Elems(rawQ), BlocksIn(writeQ), QueuedRows>>
    BY <2>4 DEF Elems, BlocksIn, QueuedRows
  <2>8. Flight' = Flight
    BY <1>rest, <1>others, <2>6, <2>7 DEF Flight
  <2>9. OnTheWay' = OnTheWay \cup {Block(analyser[a].slot, "done")}
    BY <1>others, <2>6, <2>7 DEF OnTheWay
  <2>. QED
    BY <2>8, <2>9
<1>9. ASSUME AnalysisPanics(a)
      PROVE  Flight \subseteq Flight' \cup {analyser[a].slot} /\ OnTheWay' = OnTheWay
  <2>1. PICK v : v = Goto(IF AnalyseOnRuntime THEN "off" ELSE "recv")
    OBVIOUS
  <2>2. analyser' = [analyser EXCEPT ![a] = v]
    BY <1>1, <1>9, <2>1 DEF AnalysisPanics, WorkerState
  <2>3. PICK R, H :
           /\ Rows(analyser) = R \cup Row(analyser[a]) /\ Rows(analyser)' = R \cup Row(v)
           /\ SlotsOf(analyser) = H \cup ({analyser[a].slot} \ {NoSlot})
           /\ SlotsOf(analyser)' = H \cup ({v.slot} \ {NoSlot})
    BY <1>3, <2>2
  <2>4. UNCHANGED <<slotQ, rawQ, writeQ>>
    BY <1>9 DEF AnalysisPanics
  <2>5. Row(analyser[a]) = {} /\ Row(v) = {}
    BY <1>4, <1>9, <2>1 DEF AnalysisPanics, Row
  <2>6. Rows(analyser)' = Rows(analyser) /\ SlotsOf(analyser) \subseteq SlotsOf(analyser)' \cup {analyser[a].slot}
    BY <2>3, <2>5
  <2>7. UNCHANGED <<Elems(slotQ), Elems(rawQ), BlocksIn(writeQ), QueuedRows>>
    BY <2>4 DEF Elems, BlocksIn, QueuedRows
  <2>8. Flight \subseteq Flight' \cup {analyser[a].slot}
    BY <1>rest, <1>others, <2>6, <2>7 DEF Flight
  <2>9. OnTheWay' = OnTheWay
    BY <1>others, <2>6, <2>7 DEF OnTheWay
  <2>. QED
    BY <2>8, <2>9
<1>10. ASSUME AnalyserLeaves(a)
       PROVE  Carried
  <2>1. PICK v : v = [analyser[a] EXCEPT !.pc = "analyse"]
    OBVIOUS
  <2>2. analyser' = [analyser EXCEPT ![a] = v]
    BY <1>10, <2>1 DEF AnalyserLeaves
  <2>3. PICK R, H :
           /\ Rows(analyser) = R \cup Row(analyser[a]) /\ Rows(analyser)' = R \cup Row(v)
           /\ SlotsOf(analyser) = H \cup ({analyser[a].slot} \ {NoSlot})
           /\ SlotsOf(analyser)' = H \cup ({v.slot} \ {NoSlot})
    BY <1>3, <2>2
  <2>4. UNCHANGED <<slotQ, rawQ, writeQ>>
    BY <1>10 DEF AnalyserLeaves
  <2>5. v.slot = analyser[a].slot /\ Row(analyser[a]) = {} /\ Row(v) = {}
    BY <1>1, <1>10, <2>1 DEF AnalyserLeaves, WorkerState, Row
  <2>6. Rows(analyser)' = Rows(analyser) /\ SlotsOf(analyser)' = SlotsOf(analyser)
    BY <2>3, <2>5
  <2>7. UNCHANGED <<Elems(slotQ), Elems(rawQ), BlocksIn(writeQ), QueuedRows>>
    BY <2>4 DEF Elems, BlocksIn, QueuedRows
  <2>8. Flight' = Flight
    BY <1>rest, <1>others, <2>6, <2>7 DEF Flight
  <2>9. OnTheWay' = OnTheWay
    BY <1>others, <2>6, <2>7 DEF OnTheWay
  <2>. QED
    BY <2>8, <2>9 DEF Carried
<1>. QED
  BY <1>5, <1>6, <1>7, <1>8, <1>9, <1>10
-----------------------------------------------------------------------------
(* What becomes of the slots of a run                                      *)

\* A run ingests until its rebuild is asked for; a process that only serves
\* does not ingest at all.
Ingesting == main \notin {"serve", "sendShutdown", "awaitShutdown"} \/ RebuildAsked

\* The slots of the range that are stored, or counted and on their way, as done
\* or skipped.
Settled == {b \in OnTheWay : b.status \in CompletedStatuses}
Counted == Completed(range) \cup {b.slot : b \in Settled}

\* Nothing but the range is in flight or lost; a lost slot has no completed
\* row; as long as the writer works, a slot of the range that is neither in
\* flight nor lost has a row, and each slot that counts as done or skipped was
\* counted once; candles once rebuilt are those of the done slots.
InRange     == lost \cup Flight \subseteq range
LostOpen    == \A s \in lost : db[s] \notin CompletedStatuses
Tracked     == Ingesting /\ ~WriterFailed =>
                 \A s \in range : db[s] # "none" \/ s \in lost \cup Flight
TotalKept   == Ingesting => m.total = Cardinality(range)
CountedOnce == Ingesting /\ ~WriterFailed =>
                 m.already + m.done + m.skipped = Cardinality(Counted)
Rebuilt     == rebuild = "ok" => candles = DoneSlots

RunInv == InRange /\ LostOpen /\ Tracked /\ TotalKept /\ CountedOnce /\ Rebuilt

LEMMA RowsInFlight ==
  ASSUME Shape
  PROVE  \A b \in OnTheWay : b \in BlockMsg /\ b.slot \in Flight /\ b.slot # NoSlot
<1>1. /\ writeQ \in Seq(BlockMsg \cup ControlMsg) /\ pending \in Seq(BlockMsg)
      /\ fetcher \in [Fetchers -> WorkerState] /\ analyser \in [Analysers -> WorkerState]
  BY DEF Shape, TypeOK
<1>2. \A b \in BlockMsg : b.slot # NoSlot
  BY SlotsAssumption DEF BlockMsg, NoSlot
<1>3. ASSUME NEW b \in QueuedRows
      PROVE  b \in BlockMsg /\ b.slot \in Flight
  <2>1. b \in BlockMsg
    BY <1>1, <1>3 DEF QueuedRows, Elems, IsBlock, ControlMsg, Control
  <2>2. b.slot \in BlocksIn(writeQ)
    BY <1>2, <1>3, <2>1 DEF QueuedRows, Elems, BlocksIn
  <2>. QED
    BY <2>1, <2>2 DEF Flight
<1>4. ASSUME NEW b \in Elems(pending)
      PROVE  b \in BlockMsg /\ b.slot \in Flight
  <2>1. b \in BlockMsg
    BY <1>1, <1>4 DEF Elems
  <2>2. b.slot \in BlocksIn(pending)
    BY <1>2, <1>4, <2>1 DEF Elems, BlocksIn
  <2>. QED
    BY <2>1, <2>2 DEF Flight
<1>5. ASSUME NEW b \in Rows(fetcher)
      PROVE  b \in BlockMsg /\ b.slot \in Flight
  <2>1. PICK f \in Fetchers : fetcher[f].pc = "sendWrite"
                              /\ b = Block(fetcher[f].slot, fetcher[f].status)
    BY <1>1, <1>5 DEF Rows, Row
  <2>2. b.slot = fetcher[f].slot /\ fetcher[f].slot \in Slots /\ fetcher[f].status \in Outcome
    BY <1>1, <2>1 DEF Block, Shape, WorkersConsistent, Consistent, WorkerState
  <2>3. b \in BlockMsg
    BY <2>1, <2>2 DEF Block, BlockMsg
  <2>4. b.slot \in SlotsOf(fetcher)
    BY <1>1, <1>2, <2>2, <2>3 DEF SlotsOf
  <2>. QED
    BY <2>3, <2>4 DEF Flight
<1>6. ASSUME NEW b \in Rows(analyser)
      PROVE  b \in BlockMsg /\ b.slot \in Flight
  <2>1. PICK a \in Analysers : analyser[a].pc = "sendWrite"
                              /\ b = Block(analyser[a].slot, analyser[a].status)
    BY <1>1, <1>6 DEF Rows, Row
  <2>2. b.slot = analyser[a].slot /\ analyser[a].slot \in Slots /\ analyser[a].status \in Outcome
    BY <1>1, <2>1 DEF Block, Shape, WorkersConsistent, Consistent, WorkerState
  <2>3. b \in BlockMsg
    BY <2>1, <2>2 DEF Block, BlockMsg
  <2>4. b.slot \in SlotsOf(analyser)
    BY <1>1, <1>2, <2>2, <2>3 DEF SlotsOf
  <2>. QED
    BY <2>3, <2>4 DEF Flight
<1>. QED
  BY <1>2, <1>3, <1>4, <1>5, <1>6 DEF OnTheWay

LEMMA RowsInFlightNext ==
  Shape' => (\A b \in OnTheWay : b \in BlockMsg /\ b.slot \in Flight /\ b.slot # NoSlot)'
  BY RowsInFlight, PTL

\* What a step must leave alone to keep the invariant of the run.
Outcomes == <<db, candles, range, lost, rebuild>>
Tally    == <<m.total, m.already, m.done, m.skipped>>

LEMMA RunKept ==
  ASSUME RunInv, UNCHANGED <<Outcomes, Tally>>, Carried,
         Ingesting' => Ingesting, WriterFailed => WriterFailed'
  PROVE  RunInv'
<1>. USE DEF Outcomes, Tally, Carried
<1>1. InRange' /\ LostOpen' /\ Rebuilt'
  BY DEF RunInv, InRange, LostOpen, Rebuilt, DoneSlots
<1>2. Tracked' /\ TotalKept'
  BY DEF RunInv, Tracked, TotalKept
<1>3. CountedOnce'
  <2>1. Counted' = Counted
    BY DEF Counted, Settled, Completed
  <2>. QED
    BY <2>1 DEF RunInv, CountedOnce
<1>. QED
  BY <1>1, <1>2, <1>3 DEF RunInv

\* A step that fails the writer, or that only a failed writer allows, may drop rows.
LEMMA RunDropped ==
  ASSUME RunInv, UNCHANGED <<Outcomes, m.total>>, Flight' \subseteq Flight,
         Ingesting' => Ingesting, WriterFailed'
  PROVE  RunInv'
  BY DEF Outcomes, RunInv, InRange, LostOpen, Rebuilt, DoneSlots, Tracked, TotalKept, CountedOnce

\* Rebuilds are asked for by a run that ingests.
LEMMA AskedMain ==
  ASSUME Shape, RebuildLife, ~ProcessEnds, MainStep \/ EnvironmentStep \/ UNCHANGED vars
  PROVE  (Ingesting' => Ingesting) /\ (WriterFailed => WriterFailed')
<1>. USE DEF persistent, queues, workers, thread, bounds
<1>1. CASE SendRebuild
  BY <1>1 DEF SendRebuild, Ingesting, WriterFailed
<1>2. CASE SelectRange \/ Feed \/ CloseSlots \/ FinishRun
  BY <1>2 DEF SelectRange, Feed, CloseSlots, FinishRun, Ingesting, WriterFailed
<1>3. CASE RebuildReturns \/ CtrlC \/ UNCHANGED vars
  BY <1>3 DEF RebuildReturns, CtrlC, vars, Ingesting, RebuildAsked, AfterIngest, TypesIn,
              WriterFailed
<1>4. CASE SendShutdown \/ ApiPause
  <2>1. PICK t \in {"pause", "shutdown"} : SendControl(t)
    BY <1>4 DEF SendShutdown, ApiPause
  <2>2. TypesIn(writeQ)' = TypesIn(writeQ) \cup {t}
    BY <2>1, ControlTypes
  <2>. QED
    BY <1>4, <2>2 DEF SendShutdown, ApiPause, Ingesting, RebuildAsked, WriterFailed
<1>5. CASE Start \/ StartServeOnly
  BY <1>5 DEF Start, StartServeOnly, Ingesting, WriterFailed
<1>. QED
  BY <1>1, <1>2, <1>3, <1>4, <1>5 DEF MainStep, EnvironmentStep, Exit, RunFails, Crash

LEMMA RunMain ==
  ASSUME Shape, Shape', Quiet, Untouched, RebuildLife, RunInv, MainStep \/ EnvironmentStep \/ UNCHANGED vars
  PROVE  RunInv'
<1>. USE DEF persistent, queues, workers, thread, bounds
<1>1. CASE ProcessEnds
  <2>1. Flight' = {}
    BY <1>1 DEF ProcessEnds, Flight, Elems, BlocksIn, SlotsOf, NoWorker, Idle
  <2>2. OnTheWay' = {}
    BY <2>1, RowsInFlightNext
  <2>3. InRange' /\ LostOpen' /\ Tracked' /\ Rebuilt'
    BY <1>1, <2>1 DEF ProcessEnds, InRange, LostOpen, Tracked, Rebuilt
  <2>4. Counted' = {}
    BY <1>1, <2>2 DEF ProcessEnds, Counted, Settled, Completed
  <2>5. TotalKept' /\ CountedOnce'
    BY <1>1, <2>4, FS_EmptySet DEF ProcessEnds, TotalKept, CountedOnce, ZeroMetrics
  <2>. QED
    BY <2>3, <2>5 DEF RunInv
<1>2. CASE ~ProcessEnds /\ main \in {"down", "resolve"} /\ (SelectRange \/ StartServeOnly)
  <2>1. range = {} /\ lost = {} /\ m = ZeroMetrics /\ InFlight = {}
    BY <1>2 DEF Quiet, Untouched
  <2>2. Flight = {}
    BY <2>1, FlightIs DEF FlightOK
  <2>3. OnTheWay = {}
    BY <2>2, RowsInFlight
  <2>4. CASE SelectRange
    <3>1. /\ range' \in Ranges /\ todo' = range' \ Completed(range')
          /\ m' = [m EXCEPT !.total = Cardinality(range'), !.already = Cardinality(Completed(range')),
                            !.ingestDone = (range' \ Completed(range') = {})]
          /\ UNCHANGED <<db, candles, slotQ, rawQ, writeQ, writer, pending, deferred, rebuild, lost>>
      BY <2>4 DEF SelectRange
    <3>2. Flight' = todo'
      <4>1. SlotsOf(fetcher)' = {} /\ SlotsOf(analyser)' = {}
        BY <2>2, <2>4 DEF SelectRange, SlotsOf, SpawnedWorker, Idle, Flight
      <4>. QED
        BY <2>2, <3>1, <4>1 DEF Flight, Elems, BlocksIn
    <3>3. OnTheWay' = {}
      <4>1. Rows(fetcher)' = {} /\ Rows(analyser)' = {}
        BY <2>3, <2>4 DEF SelectRange, Rows, Row, SpawnedWorker, Idle, OnTheWay
      <4>. QED
        BY <2>3, <3>1, <4>1 DEF OnTheWay, QueuedRows, Elems
    <3>4. InRange' /\ LostOpen' /\ Rebuilt'
      BY <2>1, <3>1, <3>2 DEF InRange, LostOpen, Rebuilt, RunInv, DoneSlots
    <3>5. Tracked'
      BY <3>1, <3>2 DEF Tracked, Completed, CompletedStatuses
    <3>6. Counted' = Completed(range')
      BY <3>1, <3>3 DEF Counted, Settled, Completed
    <3>7. m'.total = Cardinality(range') /\ m'.already = Cardinality(Completed(range'))
          /\ m'.done = 0 /\ m'.skipped = 0
      BY <2>1, <3>1 DEF ZeroMetrics
    <3>8. Cardinality(Completed(range')) \in Nat
      <4>1. Completed(range') \subseteq Slots
        BY <3>1, SlotsAssumption DEF Completed
      <4>. QED
        BY <4>1, SlotSetsFinite
    <3>9. TotalKept' /\ CountedOnce'
      BY <3>6, <3>7, <3>8 DEF TotalKept, CountedOnce
    <3>. QED
      BY <3>4, <3>5, <3>9 DEF RunInv
  <2>5. CASE StartServeOnly
    <3>1. ~RebuildAsked
      BY <2>5 DEF StartServeOnly, RebuildLife, RebuildLast
    <3>2. ~Ingesting'
      BY <2>5, <3>1 DEF StartServeOnly, Ingesting, AfterIngest, RebuildAsked, TypesIn
    <3>3. UNCHANGED <<db, candles, range, lost, rebuild, Flight>>
      BY <2>5 DEF StartServeOnly, Flight, Elems, BlocksIn, SlotsOf
    <3>. QED
      BY <3>2, <3>3 DEF RunInv, InRange, LostOpen, Tracked, TotalKept, CountedOnce, Rebuilt,
                        DoneSlots
  <2>. QED
    BY <1>2, <2>4, <2>5
<1>3. CASE ~ProcessEnds /\ ~SelectRange /\ ~StartServeOnly
  <2>1. (Ingesting' => Ingesting) /\ (WriterFailed => WriterFailed')
    BY <1>3, AskedMain
  <2>2. UNCHANGED <<Outcomes, Tally>>
    BY <1>3 DEF MainStep, EnvironmentStep, Feed, CloseSlots, FinishRun, SendRebuild,
                RebuildReturns, SendShutdown, Exit, Start, RunFails, Crash, CtrlC, ApiPause,
                SendControl, vars, Outcomes, Tally, Shape, TypeOK, MetricsType
  <2>3. CASE Feed
    <3>1. PICK s \in todo : slotQ' = Append(slotQ, s) /\ todo' = todo \ {s}
      BY <2>3 DEF Feed
    <3>2. slotQ \in Seq(Slots) /\ s \in Slots
      BY DEF Shape, TypeOK
    <3>3. Elems(Append(slotQ, s)) = Elems(slotQ) \cup {s}
      BY <3>2, ElemsSent
    <3>4. Elems(slotQ') = Elems(slotQ) \cup {s}
      BY <3>1, <3>3
    <3>5. UNCHANGED <<Elems(rawQ), BlocksIn(writeQ), BlocksIn(pending), SlotsOf(fetcher),
                      SlotsOf(analyser), OnTheWay>>
      BY <2>3 DEF Feed, Elems, BlocksIn, SlotsOf, OnTheWay, QueuedRows, Rows
    <3>6. Flight' = Flight
      BY <3>1, <3>4, <3>5 DEF Flight
    <3>. QED
      BY <2>1, <2>2, <3>5, <3>6, RunKept DEF Carried
  <2>4. CASE SendRebuild \/ SendShutdown \/ ApiPause
    <3>1. PICK t \in {"pause", "rebuild", "shutdown"} : SendControl(t)
      BY <2>4 DEF SendRebuild, SendShutdown, ApiPause
    <3>2. /\ writeQ' = Append(writeQ, Control(t)) /\ writeQ \in Seq(BlockMsg \cup ControlMsg)
          /\ Control(t) \in ControlMsg /\ ~IsBlock(Control(t)) /\ Control(t).slot = NoSlot
      BY <3>1 DEF SendControl, Shape, TypeOK, ControlMsg, Control, IsBlock
    <3>3. Elems(Append(writeQ, Control(t))) = Elems(writeQ) \cup {Control(t)}
      BY <3>2, ElemsSent
    <3>4. Elems(writeQ') = Elems(writeQ) \cup {Control(t)}
      BY <3>2, <3>3
    <3>5. QueuedRows' = QueuedRows
      BY <3>2, <3>4 DEF QueuedRows
    <3>6. BlocksIn(writeQ') = BlocksIn(writeQ)
      BY <3>2, <3>4, BlocksFromElems
    <3>7. UNCHANGED <<todo, Elems(slotQ), Elems(rawQ), BlocksIn(pending), Elems(pending),
                      SlotsOf(fetcher), SlotsOf(analyser), Rows(fetcher), Rows(analyser)>>
      BY <2>4 DEF SendRebuild, SendShutdown, ApiPause, Elems, BlocksIn, SlotsOf, Rows
    <3>8. Flight' = Flight /\ OnTheWay' = OnTheWay
      BY <3>5, <3>6, <3>7 DEF Flight, OnTheWay
    <3>. QED
      BY <2>1, <2>2, <3>8, RunKept DEF Carried
  <2>5. CASE CloseSlots \/ FinishRun \/ RebuildReturns \/ CtrlC \/ Start \/ UNCHANGED vars
    <3>1. UNCHANGED <<todo, slotQ, rawQ, writeQ, pending, fetcher, analyser>>
      BY <2>5 DEF CloseSlots, FinishRun, RebuildReturns, CtrlC, Start, vars
    <3>2. Carried
      BY <3>1 DEF Carried, Flight, OnTheWay, QueuedRows, Elems, BlocksIn, SlotsOf, Rows
    <3>. QED
      BY <2>1, <2>2, <3>2, RunKept
  <2>. QED
    BY <1>3, <2>3, <2>4, <2>5 DEF MainStep, EnvironmentStep, Exit, RunFails, Crash
<1>4. SelectRange \/ StartServeOnly => main \in {"down", "resolve"}
  BY DEF SelectRange, StartServeOnly
<1>. QED
  BY <1>1, <1>2, <1>3, <1>4

\* A slot held anywhere but by the writer, its channel or a worker that sends has
\* no row on the way.
LEMMA NoRowYet ==
  ASSUME Shape, SlotHeldOnce, NEW p \in Place, NEW s \in Held(p),
         p \notin {<<"queue", "writeQ">>, <<"queue", "pending">>},
         \A f \in Fetchers : p = <<"fetcher", f>> => fetcher[f].pc # "sendWrite",
         \A a \in Analysers : p = <<"analyser", a>> => analyser[a].pc # "sendWrite"
  PROVE  \A b \in OnTheWay : b.slot # s
<1>1. DOMAIN fetcher = Fetchers /\ DOMAIN analyser = Analysers
  BY DEF Shape, TypeOK
<1>2. ASSUME NEW b \in OnTheWay, NEW q \in Place, b.slot \in Held(q), q # p
      PROVE  b.slot # s
  BY <1>2, NotElsewhere
<1>3. ASSUME NEW b \in OnTheWay
      PROVE  b.slot # s
  <2>1. b.slot # NoSlot
    BY <1>3, RowsInFlight
  <2>2. CASE b \in QueuedRows
    <3>1. b.slot \in Held(<<"queue", "writeQ">>)
      BY <2>1, <2>2, Places DEF QueuedRows, Elems, BlocksIn, PlaceTable
    <3>. QED
      BY <1>2, <3>1, Places DEF PlaceTable
  <2>3. CASE b \in Elems(pending)
    <3>1. b.slot \in Held(<<"queue", "pending">>)
      BY <2>1, <2>3, Places DEF Elems, BlocksIn, PlaceTable
    <3>. QED
      BY <1>2, <3>1, Places DEF PlaceTable
  <2>4. CASE b \in Rows(fetcher)
    <3>1. PICK f \in Fetchers : fetcher[f].pc = "sendWrite" /\ b.slot = fetcher[f].slot
      BY <1>1, <2>4 DEF Rows, Row, Block
    <3>2. b.slot \in Held(<<"fetcher", f>>) /\ <<"fetcher", f>> \in Place
      BY <2>1, <3>1, Places DEF PlaceTable
    <3>. QED
      BY <1>2, <3>1, <3>2
  <2>5. CASE b \in Rows(analyser)
    <3>1. PICK a \in Analysers : analyser[a].pc = "sendWrite" /\ b.slot = analyser[a].slot
      BY <1>1, <2>5 DEF Rows, Row, Block
    <3>2. b.slot \in Held(<<"analyser", a>>) /\ <<"analyser", a>> \in Place
      BY <2>1, <3>1, Places DEF PlaceTable
    <3>. QED
      BY <1>2, <3>1, <3>2
  <2>. QED
    BY <1>3, <2>2, <2>3, <2>4, <2>5 DEF OnTheWay
<1>. QED
  BY <1>3

\* Counting an outcome adds its slot to those that count as settled.
LEMMA RowCounted ==
  ASSUME Shape, InFlightNotCompleted, RunInv,
         NEW s \in Flight, NEW st \in Outcome, Count(st, 1),
         \A b \in OnTheWay : b.slot # s,
         Flight' = Flight, OnTheWay' = OnTheWay \cup {Block(s, st)},
         UNCHANGED Outcomes, Ingesting' => Ingesting, WriterFailed => WriterFailed'
  PROVE  RunInv'
<1>. USE DEF Outcomes
<1>1. s \in Slots /\ db[s] \notin CompletedStatuses
  BY FlightIs, FlightSlots DEF FlightOK, InFlightNotCompleted
<1>2. InRange' /\ LostOpen' /\ Rebuilt'
  BY DEF RunInv, InRange, LostOpen, Rebuilt, DoneSlots
<1>3. /\ m \in MetricsType
      /\ m.total \in Nat /\ m.already \in Nat /\ m.done \in Nat /\ m.skipped \in Nat
  BY DEF Shape, TypeOK, MetricsType
<1>4. m'.total = m.total
  BY <1>3, CountEffect
<1>5. Tracked' /\ TotalKept'
  BY <1>4 DEF RunInv, Tracked, TotalKept
<1>6. s \notin Counted
  BY <1>1 DEF Counted, Settled, Completed
<1>7. IsFiniteSet(Counted) /\ Cardinality(Counted) \in Nat
  <2>1. Counted \subseteq Slots
    <3>1. Completed(range) \subseteq Slots
      BY DEF Completed, Shape, TypeOK
    <3>2. \A b \in Settled : b.slot \in Slots
      BY RowsInFlight DEF Settled, BlockMsg
    <3>. QED
      BY <3>1, <3>2 DEF Counted
  <2>. QED
    BY <2>1, SlotSetsFinite
<1>8. Completed(range)' = Completed(range)
  BY DEF Completed
<1>9. Block(s, st).slot = s /\ Block(s, st).status = st
  BY DEF Block
<1>10. CountedOnce'
  <2>1. CASE st = "failed"
    <3>1. Settled' = Settled
      BY <1>9, <2>1 DEF Settled, CompletedStatuses
    <3>2. Counted' = Counted
      BY <1>8, <3>1 DEF Counted
    <3>3. m'.already = m.already /\ m'.done = m.done /\ m'.skipped = m.skipped
      BY <1>3, <2>1 DEF Count, MetricsType
    <3>. QED
      BY <3>2, <3>3 DEF RunInv, CountedOnce
  <2>2. CASE st # "failed"
    <3>1. Settled' = Settled \cup {Block(s, st)}
      BY <1>9, <2>2 DEF Settled, CompletedStatuses, Outcome
    <3>2. Counted' = Counted \cup {s}
      BY <1>8, <1>9, <3>1 DEF Counted
    <3>3. Cardinality(Counted') = Cardinality(Counted) + 1
      BY <1>6, <1>7, <3>2, FS_AddElement
    <3>4. CASE st = "done"
      <4>1. m'.already = m.already /\ m'.done = m.done + 1 /\ m'.skipped = m.skipped
        BY <1>3, <3>4 DEF Count, MetricsType
      <4>. QED
        BY <1>3, <1>7, <3>3, <4>1 DEF RunInv, CountedOnce
    <3>5. CASE st = "skipped"
      <4>1. m'.already = m.already /\ m'.done = m.done /\ m'.skipped = m.skipped + 1
        BY <1>3, <3>5 DEF Count, MetricsType
      <4>. QED
        BY <1>3, <1>7, <3>3, <4>1 DEF RunInv, CountedOnce
    <3>. QED
      BY <2>2, <3>4, <3>5 DEF Outcome
  <2>. QED
    BY <2>1, <2>2
<1>. QED
  BY <1>2, <1>5, <1>10 DEF RunInv

LEMMA RunFetcher ==
  ASSUME Shape, Shape', SlotHeldOnce, InFlightNotCompleted, WorkLife, RunInv,
         NEW f \in Fetchers, FetcherStep(f)
  PROVE  RunInv'
<1>. USE DEF persistent, queues, workers, thread, bounds
<1>1. /\ m \in MetricsType /\ UNCHANGED <<db, candles, range, lost, rebuild, main, deferred, writer>>
  BY DEF Shape, TypeOK, FetcherStep, FetcherRecv, FetcherStops, FetchedBlock, FetchedNoBlock,
         SendRaw, FetcherSends, FetcherGivesUp
<1>2. (Ingesting' => Ingesting) /\ (WriterFailed => WriterFailed')
  <2>1. TypesIn(writeQ)' \subseteq TypesIn(writeQ) \cup {"block"}
    BY RowTypes DEF FetcherStep, FetcherRecv, FetcherStops, FetchedBlock, FetchedNoBlock,
                    SendRaw, FetcherGivesUp, TypesIn
  <2>. QED
    BY <1>1, <2>1 DEF Ingesting, RebuildAsked, WriterFailed
<1>3. CASE FetcherRecv(f) \/ FetcherStops(f) \/ FetchedBlock(f) \/ SendRaw(f) \/ FetcherSends(f)
  <2>1. UNCHANGED Tally
    BY <1>1, <1>3 DEF FetcherRecv, FetcherStops, FetchedBlock, SendRaw, FetcherSends, Gauge,
                      MetricsType, Tally
  <2>. QED
    BY <1>1, <1>2, <1>3, <2>1, CarriedFetcher, RunKept DEF Outcomes
<1>4. ASSUME NEW st \in {"skipped", "failed"}, FetchedNoBlock(f, st)
      PROVE  RunInv'
  <2>1. /\ <<"fetcher", f>> \in Place /\ fetcher[f].slot \in Held(<<"fetcher", f>>)
        /\ fetcher[f].pc = "fetch" /\ Count(st, 1) /\ fetcher[f].slot # NoSlot
    BY <1>4, Places DEF PlaceTable, FetchedNoBlock, At, Shape, WorkersConsistent, Consistent
  <2>2. \A b \in OnTheWay : b.slot # fetcher[f].slot
    BY <2>1, NoRowYet
  <2>3. fetcher[f].slot \in Flight
    BY <2>1, FlightIs DEF FlightOK, InFlight
  <2>4. Flight' = Flight /\ OnTheWay' = OnTheWay \cup {Block(fetcher[f].slot, st)}
    BY <1>4, CarriedFetcher
  <2>5. st \in Outcome
    BY DEF Outcome
  <2>. QED
    BY <1>1, <1>2, <2>1, <2>2, <2>3, <2>4, <2>5, RowCounted DEF Outcomes
<1>5. CASE FetcherGivesUp(f)
  <2>1. WriterFailed
    BY <1>5, GoneMeansFailed DEF FetcherGivesUp, FetchersGone, At
  <2>2. Flight' \subseteq Flight
    BY HeldFetcher, FlightIs, FlightIsNext DEF HeldStep, FlightOK
  <2>3. m'.total = m.total
    BY <1>1, <1>5 DEF FetcherGivesUp, Gauge, MetricsType
  <2>. QED
    BY <1>1, <1>2, <2>1, <2>2, <2>3, RunDropped DEF Outcomes
<1>. QED
  BY <1>3, <1>4, <1>5 DEF FetcherStep

LEMMA RunAnalyser ==
  ASSUME Shape, Shape', SlotHeldOnce, InFlightNotCompleted, WorkLife, RunInv,
         NEW a \in Analysers, AnalyserStep(a)
  PROVE  RunInv'
<1>. USE DEF persistent, queues, workers, thread, bounds
<1>1. /\ m \in MetricsType /\ UNCHANGED <<db, candles, range, rebuild, main, deferred, writer>>
  BY DEF Shape, TypeOK, AnalyserStep, AnalyserRecv, AnalyserLeaves, AnalyserStops, Analysed, AnalysisPanics,
         AnalyserSends, AnalyserGivesUp
<1>2. (Ingesting' => Ingesting) /\ (WriterFailed => WriterFailed') /\ (WriterFailed' => WriterFailed)
  <2>1. TypesIn(writeQ)' \subseteq TypesIn(writeQ) \cup {"block"}
    BY RowTypes DEF AnalyserStep, AnalyserRecv, AnalyserLeaves, AnalyserStops, Analysed, AnalysisPanics,
                    AnalyserGivesUp, TypesIn
  <2>. QED
    BY <1>1, <2>1 DEF Ingesting, RebuildAsked, WriterFailed
<1>3. CASE AnalyserRecv(a) \/ AnalyserLeaves(a) \/ AnalyserStops(a) \/ AnalyserSends(a)
  <2>1. UNCHANGED <<Tally, lost>>
    BY <1>1, <1>3 DEF AnalyserRecv, AnalyserLeaves, AnalyserStops, AnalyserSends, Gauge,
                      MetricsType, Tally
  <2>. QED
    BY <1>1, <1>2, <1>3, <2>1, CarriedAnalyser, RunKept DEF Outcomes
<1>4. ASSUME Analysed(a) \/ AnalysisPanics(a)
      PROVE  /\ <<"analyser", a>> \in Place /\ analyser[a].slot \in Held(<<"analyser", a>>)
             /\ analyser[a].pc = "analyse" /\ analyser[a].slot \in Flight
  <2>1. /\ <<"analyser", a>> \in Place /\ analyser[a].slot \in Held(<<"analyser", a>>)
        /\ analyser[a].pc = "analyse"
    BY <1>4, Places DEF PlaceTable, Analysed, AnalysisPanics, At, Shape, WorkersConsistent,
                        Consistent
  <2>. QED
    BY <2>1, FlightIs DEF FlightOK, InFlight
<1>5. CASE Analysed(a)
  <2>1. Count("done", 1) /\ UNCHANGED lost
    BY <1>5 DEF Analysed
  <2>2. \A b \in OnTheWay : b.slot # analyser[a].slot
    BY <1>4, <1>5, NoRowYet
  <2>3. Flight' = Flight /\ OnTheWay' = OnTheWay \cup {Block(analyser[a].slot, "done")}
    BY <1>5, CarriedAnalyser
  <2>4. "done" \in Outcome
    BY DEF Outcome
  <2>. QED
    BY <1>1, <1>2, <1>4, <1>5, <2>1, <2>2, <2>3, <2>4, RowCounted DEF Outcomes
<1>6. CASE AnalysisPanics(a)
  <2>1. lost' = lost \cup {analyser[a].slot} /\ UNCHANGED m
    BY <1>6 DEF AnalysisPanics
  <2>2. Flight \subseteq Flight' \cup {analyser[a].slot} /\ OnTheWay' = OnTheWay
    BY <1>6, CarriedAnalyser
  <2>3. Flight' \subseteq Flight
    BY HeldAnalyser, FlightIs, FlightIsNext DEF HeldStep, FlightOK
  <2>4. db[analyser[a].slot] \notin CompletedStatuses
    BY <1>4, <1>6, FlightIs DEF FlightOK, InFlightNotCompleted
  <2>5. InRange' /\ LostOpen' /\ Rebuilt'
    BY <1>1, <1>4, <1>6, <2>1, <2>3, <2>4 DEF RunInv, InRange, LostOpen, Rebuilt, DoneSlots
  <2>6. Tracked'
    BY <1>1, <1>2, <2>1, <2>2 DEF RunInv, Tracked
  <2>7. Counted' = Counted
    BY <1>1, <2>2 DEF Counted, Settled, Completed
  <2>8. TotalKept' /\ CountedOnce'
    BY <1>1, <1>2, <2>1, <2>7 DEF RunInv, TotalKept, CountedOnce
  <2>. QED
    BY <2>5, <2>6, <2>8 DEF RunInv
<1>7. CASE AnalyserGivesUp(a)
  <2>1. WriterFailed
    BY <1>7, GoneMeansFailed DEF AnalyserGivesUp, AnalysersGone, At
  <2>2. Flight' \subseteq Flight
    BY HeldAnalyser, FlightIs, FlightIsNext DEF HeldStep, FlightOK
  <2>3. m'.total = m.total /\ UNCHANGED lost
    BY <1>1, <1>7 DEF AnalyserGivesUp, Gauge, MetricsType
  <2>. QED
    BY <1>1, <1>2, <2>1, <2>2, <2>3, RunDropped DEF Outcomes
<1>. QED
  BY <1>3, <1>5, <1>6, <1>7 DEF AnalyserStep

\* A transaction writes the row of each block of its batch, with its status.
LEMMA AppliedExactly ==
  ASSUME NEW batch \in Seq(BlockMsg), DistinctBlocks(batch), NEW b \in Elems(batch)
  PROVE  b.slot \in Slots /\ Applied(batch)[b.slot] = b.status
<1>1. \A i \in DOMAIN batch : batch[i] \in BlockMsg /\ i \in Int
  BY ElementOfSeq
<1>2. PICK i \in DOMAIN batch : b = batch[i]
  BY DEF Elems
<1>3. b.slot \in Slots /\ b.slot # NoSlot
  BY <1>1, <1>2, SlotsAssumption DEF BlockMsg, NoSlot
<1>4. \A j \in DOMAIN batch : batch[j].slot = b.slot => j = i
  BY <1>2, <1>3 DEF DistinctBlocks
<1>5. \A k \in DOMAIN batch :
        (/\ batch[k].slot = b.slot
         /\ \A j \in DOMAIN batch : batch[j].slot = b.slot => j <= k) => k = i
  BY <1>4
<1>6. \A j \in DOMAIN batch : batch[j].slot = b.slot => j <= i
  BY <1>1, <1>4
<1>7. Applied(batch)[b.slot] = batch[i].status
  BY <1>2, <1>3, <1>5, <1>6 DEF Applied
<1>. QED
  BY <1>2, <1>3, <1>7

\* A message the writer takes from its channel goes to its batch, or is no row.
LEMMA CarriedWriter ==
  ASSUME Shape, WriterRecv \/ WriterTakesMore
  PROVE  Carried
<1>. USE DEF persistent, queues, workers, thread, bounds
<1>1. /\ writeQ \in Seq(BlockMsg \cup ControlMsg) /\ pending \in Seq(BlockMsg)
      /\ writeQ # <<>> /\ writeQ' = Tail(writeQ)
      /\ UNCHANGED <<todo, slotQ, rawQ, fetcher, analyser>>
      /\ IF IsBlock(Head(writeQ)) THEN pending' = Append(pending, Head(writeQ))
                                  ELSE UNCHANGED pending
  BY DEF Shape, TypeOK, WriterRecv, WriterTakesMore
<1>2. UNCHANGED <<Elems(slotQ), Elems(rawQ), SlotsOf(fetcher), SlotsOf(analyser), Rows(fetcher),
                  Rows(analyser)>>
  BY <1>1 DEF Elems, SlotsOf, Rows
<1>3. PICK msg \in BlockMsg \cup ControlMsg : msg = Head(writeQ)
  BY <1>1
<1>4. Elems(writeQ) = Elems(writeQ') \cup {msg}
  BY <1>1, <1>3, ElemsReceived
<1>5. CASE IsBlock(msg)
  <2>1. msg \in BlockMsg
    BY <1>3, <1>5 DEF IsBlock, ControlMsg, Control
  <2>2. Elems(Append(pending, msg)) = Elems(pending) \cup {msg}
    BY <1>1, <2>1, ElemsSent
  <2>3. Elems(pending') = Elems(pending) \cup {msg}
    BY <1>1, <1>3, <1>5, <2>2
  <2>4. /\ BlocksIn(writeQ) = BlocksIn(writeQ') \cup ({msg.slot} \ {NoSlot})
        /\ BlocksIn(pending') = BlocksIn(pending) \cup ({msg.slot} \ {NoSlot})
    BY <1>4, <2>3, BlocksFromElems
  <2>5. Flight' = Flight
    BY <1>1, <1>2, <2>4 DEF Flight
  <2>6. QueuedRows = QueuedRows' \cup {msg}
    BY <1>4, <1>5 DEF QueuedRows
  <2>7. OnTheWay' = OnTheWay
    BY <1>2, <2>3, <2>6 DEF OnTheWay
  <2>. QED
    BY <2>5, <2>7 DEF Carried
<1>6. CASE ~IsBlock(msg)
  <2>1. msg.slot = NoSlot
    BY <1>3, <1>6 DEF IsBlock, BlockMsg, ControlMsg, Control
  <2>2. BlocksIn(writeQ') = BlocksIn(writeQ) /\ UNCHANGED <<BlocksIn(pending), Elems(pending)>>
    BY <1>1, <1>3, <1>4, <1>6, <2>1, BlocksFromElems
  <2>3. QueuedRows' = QueuedRows
    BY <1>4, <1>6 DEF QueuedRows
  <2>. QED
    BY <1>1, <1>2, <2>2, <2>3 DEF Carried, Flight, OnTheWay
<1>. QED
  BY <1>5, <1>6

LEMMA RunCommit ==
  ASSUME Shape, SlotHeldOnce, InFlightNotCompleted, LostApart, RebuildLife, RunInv, Commit
  PROVE  RunInv'
<1>. USE DEF persistent, queues, workers, thread, bounds
<1>1. /\ db \in [Slots -> Outcome \cup {"none"}] /\ pending \in Seq(BlockMsg)
      /\ DistinctBlocks(pending) /\ m \in MetricsType /\ range \subseteq Slots
  BY DEF Shape, TypeOK, SlotHeldOnce
<1>2. /\ db' = Applied(pending) /\ pending' = <<>>
      /\ UNCHANGED <<candles, main, range, todo, slotQ, rawQ, writeQ, fetcher, analyser,
                     deferred, rebuild, lost, Tally>>
      /\ writer # "failed" /\ writer' # "failed"
  BY <1>1 DEF Commit, Tally, MetricsType
<1>3. /\ UNCHANGED <<Elems(slotQ), Elems(rawQ), SlotsOf(fetcher), SlotsOf(analyser), Rows(fetcher),
                     Rows(analyser), QueuedRows, BlocksIn(writeQ), RebuildAsked>>
      /\ Elems(pending)' = {} /\ BlocksIn(pending)' = {}
  BY <1>2 DEF Elems, SlotsOf, Rows, QueuedRows, BlocksIn, RebuildAsked, TypesIn
<1>4. Flight = Flight' \cup BlocksIn(pending)
  BY <1>2, <1>3 DEF Flight
<1>5. OnTheWay = OnTheWay' \cup Elems(pending)
  BY <1>3 DEF OnTheWay
<1>6. \A s \in Slots : IF s \in BlocksIn(pending) THEN db'[s] \in Outcome ELSE db'[s] = db[s]
  BY <1>1, <1>2, AppliedRows
<1>7. \A b \in Elems(pending) : db'[b.slot] = b.status /\ b.slot \in Slots
  BY <1>1, <1>2, AppliedExactly
<1>8. /\ BlocksIn(pending) \subseteq Flight /\ Flight \subseteq range
      /\ \A s \in Flight : db[s] \notin CompletedStatuses
      /\ lost \cap Flight = {} /\ lost \subseteq range
  BY <1>4, FlightIs DEF FlightOK, InFlightNotCompleted, LostApart, RunInv, InRange
<1>9. InRange' /\ LostOpen'
  BY <1>1, <1>2, <1>4, <1>6, <1>8 DEF InRange, LostOpen, RunInv
<1>10. Rebuilt'
  BY <1>2 DEF Rebuilt, Commit, RebuildLife, RebuildLast, BatchFilled
<1>11. Ingesting' = Ingesting /\ ~WriterFailed
  BY <1>2, <1>3 DEF Ingesting, WriterFailed
<1>12. Tracked'
  <2>1. \A o \in Outcome : o # "none"
    BY DEF Outcome
  <2>. QED
    BY <1>1, <1>2, <1>4, <1>6, <1>11, <2>1 DEF RunInv, Tracked
<1>13. Counted' = Counted
  <2>1. ASSUME NEW s \in Completed(range)
        PROVE  s \in Counted'
    <3>1. s \in range /\ db[s] \in CompletedStatuses /\ s \notin BlocksIn(pending)
      BY <1>8, <2>1 DEF Completed
    <3>2. db'[s] \in CompletedStatuses
      BY <1>1, <1>6, <3>1
    <3>. QED
      BY <1>2, <3>1, <3>2 DEF Counted, Completed
  <2>2. ASSUME NEW b \in Settled
        PROVE  b.slot \in Counted'
    <3>1. CASE b \in OnTheWay'
      BY <2>2, <3>1 DEF Counted, Settled
    <3>2. CASE b \in Elems(pending)
      <4>1. b.slot \in range
        BY <1>8, <2>2, RowsInFlight DEF Settled
      <4>2. db'[b.slot] \in CompletedStatuses
        BY <1>7, <2>2, <3>2 DEF Settled
      <4>. QED
        BY <1>2, <4>1, <4>2 DEF Counted, Completed
    <3>. QED
      BY <1>5, <2>2, <3>1, <3>2 DEF Settled
  <2>3. ASSUME NEW s \in Completed(range)'
        PROVE  s \in Counted
    <3>1. s \in range /\ db'[s] \in CompletedStatuses
      BY <1>2, <2>3 DEF Completed
    <3>2. CASE s \in BlocksIn(pending)
      <4>1. PICK b \in Elems(pending) : b.slot = s
        BY <3>2, BlocksFromElems
      <4>2. b \in Settled
        BY <1>5, <1>7, <3>1, <4>1 DEF Settled
      <4>. QED
        BY <4>1, <4>2 DEF Counted
    <3>3. CASE s \notin BlocksIn(pending)
      BY <1>1, <1>6, <3>1, <3>3 DEF Counted, Completed
    <3>. QED
      BY <3>2, <3>3
  <2>4. Settled' \subseteq Settled
    BY <1>5 DEF Settled
  <2>5. Counted \subseteq Counted'
    BY <2>1, <2>2 DEF Counted
  <2>6. Counted' \subseteq Counted
    BY <2>3, <2>4 DEF Counted
  <2>. QED
    BY <2>5, <2>6
<1>14. TotalKept' /\ CountedOnce'
  BY <1>2, <1>11, <1>13 DEF RunInv, TotalKept, CountedOnce, Tally
<1>. QED
  BY <1>9, <1>10, <1>12, <1>14 DEF RunInv

LEMMA RunWriter ==
  ASSUME Shape, Shape', SlotHeldOnce, InFlightNotCompleted, LostApart, WorkLife, RebuildLife,
         RunInv, WriterStep
  PROVE  RunInv'
<1>. USE DEF persistent, queues, workers, thread, bounds
<1>1. UNCHANGED <<main, range, lost>> /\ writer # "failed" /\ m \in MetricsType
  BY DEF Shape, TypeOK, WriterStep, WriterRecv, WriterLeaves, WriterTakesMore, WriterEndsBatch, Commit,
         CommitFails, WriterPauses, WriterResumes, RebuildCandles, WriterStops
<1>2. CASE WriterRecv \/ WriterTakesMore
  <2>1. RebuildAsked' => RebuildAsked
    BY <1>2, WriterTakes DEF RebuildAsked, IsBlock, WriterRecv, WriterTakesMore
  <2>2. UNCHANGED <<Outcomes, Tally>>
    BY <1>1, <1>2 DEF WriterRecv, WriterTakesMore, Outcomes, Tally
  <2>. QED
    BY <1>1, <1>2, <2>1, <2>2, CarriedWriter, RunKept DEF Ingesting, WriterFailed
<1>3. CASE WriterLeaves \/ WriterEndsBatch \/ WriterPauses \/ WriterResumes
  <2>1. /\ UNCHANGED <<todo, slotQ, rawQ, writeQ, pending, fetcher, analyser, Outcomes>>
        /\ deferred' \in {deferred, "none"}
    BY <1>3 DEF WriterLeaves, WriterEndsBatch, WriterPauses, WriterResumes, Outcomes
  <2>4. UNCHANGED Tally
    BY <1>1, <1>3 DEF WriterLeaves, WriterEndsBatch, WriterPauses, WriterResumes, Gauge,
                      MetricsType, Tally
  <2>2. Carried
    BY <2>1 DEF Carried, Flight, OnTheWay, QueuedRows, Elems, BlocksIn, SlotsOf, Rows
  <2>3. Ingesting' => Ingesting
    BY <1>1, <2>1 DEF Ingesting, RebuildAsked, TypesIn, Outcomes
  <2>. QED
    BY <1>1, <2>1, <2>2, <2>3, <2>4, RunKept DEF WriterFailed
<1>4. CASE CommitFails
  <2>1. Flight' \subseteq Flight
    BY HeldWriter, FlightIs, FlightIsNext DEF HeldStep, FlightOK
  <2>2. UNCHANGED <<Outcomes, m.total>> /\ WriterFailed'
    BY <1>4 DEF CommitFails, Outcomes, WriterFailed
  <2>3. Ingesting' => Ingesting
    BY <1>4 DEF CommitFails, Ingesting, RebuildAsked, TypesIn
  <2>. QED
    BY <2>1, <2>2, <2>3, RunDropped
<1>5. CASE RebuildCandles
  <2>1. UNCHANGED <<db, todo, slotQ, rawQ, writeQ, pending, fetcher, analyser, Tally>>
    BY <1>5 DEF RebuildCandles, Tally
  <2>2. Carried
    BY <2>1 DEF Carried, Flight, OnTheWay, QueuedRows, Elems, BlocksIn, SlotsOf, Rows
  <2>3. Ingesting
    BY <1>5 DEF RebuildCandles, Ingesting, RebuildAsked
  <2>4. Rebuilt'
    BY <1>5, <2>1 DEF RebuildCandles, Rebuilt, DoneSlots
  <2>5. Counted' = Counted
    BY <1>1, <2>1, <2>2 DEF Carried, Counted, Settled, Completed
  <2>. QED
    BY <1>1, <2>1, <2>2, <2>3, <2>4, <2>5 DEF RunInv, InRange, LostOpen, Tracked, TotalKept,
                                    CountedOnce, Carried, WriterFailed, Tally
<1>6. CASE WriterStops
  <2>1. /\ writeQ' = <<>> /\ deferred' = "none" /\ main = "awaitShutdown"
        /\ UNCHANGED <<db, candles, todo, slotQ, rawQ, pending, fetcher, analyser, rebuild, Tally>>
    BY <1>6 DEF WriterStops, WorkLife, ShutdownLast, Tally
  <2>2. CASE rebuild = "none"
    <3>1. ~Ingesting'
      BY <1>1, <2>1, <2>2 DEF Ingesting, RebuildAsked, TypesIn
    <3>2. Flight' \subseteq Flight
      BY HeldWriter, FlightIs, FlightIsNext DEF HeldStep, FlightOK
    <3>. QED
      BY <1>1, <2>1, <2>2, <3>1, <3>2 DEF RunInv, InRange, LostOpen, Tracked, TotalKept,
                                    CountedOnce, Rebuilt
  <2>3. CASE rebuild # "none"
    <3>1. "block" \notin TypesIn(writeQ)
      BY <2>3 DEF RebuildLife, RebuildLast
    <3>2. QueuedRows = {} /\ BlocksIn(writeQ) = {}
      <4>1. writeQ \in Seq(BlockMsg \cup ControlMsg)
        BY DEF Shape, TypeOK
      <4>2. \A i \in DOMAIN writeQ : writeQ[i].type # "block" /\ writeQ[i] \in BlockMsg \cup ControlMsg
        BY <3>1, <4>1 DEF TypesIn
      <4>3. \A i \in DOMAIN writeQ : writeQ[i].slot = NoSlot
        BY <4>2 DEF BlockMsg, ControlMsg, Control
      <4>. QED
        BY <4>2, <4>3 DEF QueuedRows, Elems, BlocksIn, IsBlock
    <3>3. Elems(writeQ') = {} /\ BlocksIn(writeQ') = {}
      BY <2>1 DEF Elems, BlocksIn
    <3>4. UNCHANGED <<QueuedRows, BlocksIn(writeQ), Elems(slotQ), Elems(rawQ), Elems(pending),
                      BlocksIn(pending), SlotsOf(fetcher), SlotsOf(analyser), Rows(fetcher), Rows(analyser)>>
      BY <2>1, <3>2, <3>3 DEF QueuedRows, Elems, BlocksIn, SlotsOf, Rows
    <3>5. Carried
      BY <2>1, <3>4 DEF Carried, Flight, OnTheWay
    <3>6. Ingesting
      BY <2>3 DEF Ingesting, RebuildAsked
    <3>. QED
      BY <1>1, <2>1, <3>5, <3>6, RunKept DEF WriterFailed, Outcomes
  <2>. QED
    BY <2>2, <2>3
<1>. QED
  BY <1>2, <1>3, <1>4, <1>5, <1>6, RunCommit DEF WriterStep

\* The inductive invariant of a run.
FollowInv == CountInv /\ WorkLife /\ RebuildLife /\ RunInv

LEMMA FollowInit == Init => FollowInv
<1>. SUFFICES ASSUME Init PROVE FollowInv
  OBVIOUS
<1>1. CountInv /\ Shape
  BY CountInit, ShapeInit
<1>2. WorkLife /\ RebuildLife
  BY WorkLifeInit, RebuildLifeInit
<1>3. Flight = {}
  BY DEF Init, Flight, Elems, BlocksIn, SlotsOf, NoWorker, Idle
<1>4. OnTheWay = {}
  BY <1>1, <1>3, RowsInFlight
<1>5. Counted = {}
  BY <1>4 DEF Init, Counted, Settled, Completed
<1>6. RunInv
  BY <1>3, <1>5, FS_EmptySet DEF Init, RunInv, InRange, LostOpen, Tracked, TotalKept, CountedOnce,
                                 Rebuilt, ZeroMetrics
<1>. QED
  BY <1>1, <1>2, <1>6 DEF FollowInv

LEMMA FollowNext == FollowInv /\ [Next]_vars => FollowInv'
<1>. SUFFICES ASSUME FollowInv, [Next]_vars PROVE FollowInv'
  OBVIOUS
<1>1. /\ CountInv /\ IInv /\ Shape /\ Quiet /\ SlotHeldOnce /\ InFlightNotCompleted
      /\ Untouched /\ LostApart /\ WorkLife /\ RebuildLife /\ RunInv
  BY DEF FollowInv, CountInv, IInv, Shape
<1>2. CountInv' /\ Shape'
  <2>1. CountInv'
    BY <1>1, CountNext
  <2>2. Shape'
    BY <1>1, ShapeNext DEF SlotHeldOnce
  <2>. QED
    BY <2>1, <2>2
<1>3. WorkLife' /\ RebuildLife'
  BY <1>1, WorkLifeNext, RebuildLifeNext
<1>4. RunInv'
  BY <1>1, <1>2, RunMain, RunFetcher, RunAnalyser, RunWriter DEF Next, Terminated
<1>. QED
  BY <1>2, <1>3, <1>4 DEF FollowInv

\* When the rebuild has been answered, nothing of the run is left but blocks no
\* analyser was left to take.
OnlyRawLeft == Flight = Elems(rawQ) /\ OnTheWay = {} /\ todo = {} /\ slotQ = <<>>
                 /\ FetchersGone /\ AnalysersGone

LEMMA RawLeft ==
  ASSUME Shape, WorkLife, RebuildLife, rebuild # "none"
  PROVE  OnlyRawLeft
<1>1. /\ main \in {"awaitRebuild", "serve", "sendShutdown", "awaitShutdown"}
      /\ "block" \notin TypesIn(writeQ) /\ pending = <<>> /\ ~WriterFailed
  BY DEF RebuildLife, RebuildLast, RebuildAsked
<1>2. FetchersGone /\ AnalysersGone /\ todo = {} /\ slotQ = <<>>
  BY <1>1, WorkersAssumption DEF WorkLife, Joined, Fed, SlotsTaken, FetchersGone
<1>3. /\ writeQ \in Seq(BlockMsg \cup ControlMsg)
      /\ DOMAIN fetcher = Fetchers /\ DOMAIN analyser = Analysers
  BY DEF Shape, TypeOK
<1>4. \A i \in DOMAIN writeQ : writeQ[i].slot = NoSlot
  BY <1>1, <1>3 DEF TypesIn, BlockMsg, ControlMsg, Control
<1>5. BlocksIn(writeQ) = {} /\ BlocksIn(pending) = {} /\ Elems(slotQ) = {}
  BY <1>1, <1>2, <1>4 DEF BlocksIn, Elems
<1>6. SlotsOf(fetcher) = {} /\ SlotsOf(analyser) = {}
  BY <1>2, <1>3 DEF SlotsOf, FetchersGone, AnalysersGone, Shape, WorkersConsistent, Consistent
<1>7. Flight = Elems(rawQ)
  BY <1>2, <1>5, <1>6 DEF Flight
<1>8. OnTheWay = {}
  <2>1. QueuedRows = {} /\ Elems(pending) = {}
    BY <1>1, <1>3 DEF QueuedRows, Elems, IsBlock, TypesIn
  <2>2. Rows(fetcher) = {} /\ Rows(analyser) = {}
    BY <1>2, <1>3 DEF Rows, Row, FetchersGone, AnalysersGone
  <2>. QED
    BY <2>1, <2>2 DEF OnTheWay
<1>. QED
  BY <1>2, <1>7, <1>8 DEF OnlyRawLeft

\* Whoever sees the answer to the rebuild of a run sees all its rows: each slot of
\* the range is stored unless its analysis panicked or the panics left nobody to
\* analyse it, the counters are the numbers of stored rows, and the candles of a
\* rebuild that succeeded are those of the done slots.
THEOREM RebuildAfterRows == Spec => []RebuildFollowsEveryRow
<1>1. FollowInv => RebuildFollowsEveryRow
  <2>. SUFFICES ASSUME FollowInv, rebuild # "none" PROVE RebuildFollowsEveryRow
    BY DEF RebuildFollowsEveryRow
  <2>. DEFINE left      == range \ (lost \cup Elems(rawQ))
              stored(sts) == {s \in left : db[s] \in sts}
  <2>1. /\ Shape /\ SlotHeldOnce /\ InFlightNotCompleted /\ LostApart /\ Balance
        /\ WorkLife /\ RebuildLife /\ RunInv
    BY DEF FollowInv, CountInv, IInv, Shape
  <2>2. OnlyRawLeft /\ ~WriterFailed /\ main # "down"
    BY <2>1, RawLeft DEF RebuildLife, RebuildLast, RebuildAsked
  <2>3. InFlight = Elems(rawQ)
    BY <2>1, <2>2, FlightIs DEF FlightOK, OnlyRawLeft
  <2>4. Ingesting
    BY DEF Ingesting, RebuildAsked
  <2>5. /\ db \in [Slots -> Outcome \cup {"none"}] /\ range \subseteq Slots /\ lost \subseteq Slots
        /\ Elems(rawQ) \subseteq Slots /\ rawQ \in Seq(Slots) /\ Distinct(rawQ)
    BY <2>1, <2>3, FlightSlots DEF Shape, TypeOK, SlotHeldOnce
  <2>6. stored({"none"}) = {}
    BY <2>1, <2>2, <2>4 DEF RunInv, Tracked, OnlyRawLeft
  <2>7. stored(CompletedStatuses) = Completed(range) /\ Counted = Completed(range)
    <3>1. \A s \in lost \cup Elems(rawQ) : db[s] \notin CompletedStatuses
      BY <2>1, <2>3 DEF InFlightNotCompleted, RunInv, LostOpen
    <3>. QED
      BY <2>2, <3>1 DEF Completed, Counted, Settled, OnlyRawLeft
  <2>8. m.already + m.done + m.skipped = Cardinality(stored(CompletedStatuses))
    BY <2>1, <2>2, <2>4, <2>7 DEF RunInv, CountedOnce
  <2>9. m.failed = Cardinality(stored({"failed"}))
    <3>1. /\ stored(CompletedStatuses) \cap stored({"failed"}) = {}
          /\ left = stored(CompletedStatuses) \cup stored({"failed"})
      BY <2>5, <2>6 DEF Outcome, CompletedStatuses
    <3>2. Cardinality(left) = Cardinality(stored(CompletedStatuses)) + Cardinality(stored({"failed"}))
      <4>1. stored(CompletedStatuses) \in SUBSET Slots /\ stored({"failed"}) \in SUBSET Slots
        BY <2>5
      <4>. HIDE DEF stored, left
      <4>. QED
        BY <3>1, <4>1, DisjointUnion
    <3>3. /\ range = left \cup (lost \cup Elems(rawQ)) /\ left \cap (lost \cup Elems(rawQ)) = {}
          /\ lost \cap Elems(rawQ) = {}
      BY <2>1, <2>2, <2>3 DEF RunInv, InRange, LostApart, OnlyRawLeft
    <3>4. Cardinality(range) = Cardinality(left) + Cardinality(lost \cup Elems(rawQ))
      <4>1. left \in SUBSET Slots /\ lost \cup Elems(rawQ) \in SUBSET Slots
        BY <2>5
      <4>. HIDE DEF left
      <4>. QED
        BY <3>3, <4>1, DisjointUnion
    <3>5. Cardinality(lost \cup Elems(rawQ)) = Cardinality(lost) + Len(rawQ)
      <4>1. Cardinality(lost \cup Elems(rawQ)) = Cardinality(lost) + Cardinality(Elems(rawQ))
        BY <2>5, <3>3, DisjointUnion
      <4>. QED
        BY <2>5, <4>1, DistinctCount
    <3>6. m.total = m.already + Verdicts + Upstream /\ m.total = Cardinality(range)
      BY <2>1, <2>2, <2>4 DEF Balance, RunInv, TotalKept
    <3>7. Upstream = Cardinality(lost) + Len(rawQ)
      <4>1. Cardinality(todo) = 0 /\ Len(slotQ) = 0
        BY <2>2, FS_EmptySet DEF OnlyRawLeft
      <4>2. Fetching = 0 /\ Analysing = 0
        <5>1. DOMAIN fetcher = Fetchers /\ DOMAIN analyser = Analysers
          BY <2>1 DEF Shape, TypeOK
        <5>2. /\ \A w \in DOMAIN fetcher : fetcher[w].pc \notin {"fetch", "sendRaw"}
              /\ \A w \in DOMAIN analyser : analyser[w].pc \notin {"leave", "analyse"}
          BY <2>2, <5>1 DEF OnlyRawLeft, FetchersGone, AnalysersGone
        <5>3. Fetching = 0
          BY <5>2, BusyNone DEF Fetching
        <5>4. Analysing = 0
          BY <5>2, BusyNone DEF Analysing
        <5>. QED
          BY <5>3, <5>4
      <4>3. Cardinality(lost) \in Nat /\ Len(rawQ) \in Nat
        BY <2>1, QuantityTypes DEF QuantitiesOK
      <4>. QED
        BY <4>1, <4>2, <4>3 DEF Upstream
    <3>8. /\ m.already \in Nat /\ m.done \in Nat /\ m.skipped \in Nat /\ m.failed \in Nat
          /\ m.total \in Nat
      BY <2>1 DEF Shape, TypeOK, MetricsType
    <3>9. /\ Cardinality(lost) \in Nat /\ Len(rawQ) \in Nat
          /\ Cardinality(stored(CompletedStatuses)) \in Nat
          /\ Cardinality(stored({"failed"})) \in Nat
      <4>1. stored(CompletedStatuses) \subseteq Slots /\ stored({"failed"}) \subseteq Slots
        BY <2>5
      <4>2. \A S \in SUBSET Slots : Cardinality(S) \in Nat
        BY SlotSetsFinite
      <4>3. Cardinality(lost) \in Nat /\ Len(rawQ) \in Nat
        BY <2>1, QuantityTypes DEF QuantitiesOK
      <4>. QED
        BY <4>1, <4>2, <4>3
    <3>10. Cardinality(range) = Cardinality(stored(CompletedStatuses)) + Cardinality(stored({"failed"}))
                                  + (Cardinality(lost) + Len(rawQ))
      <4>. HIDE DEF stored, left
      <4>. QED
        BY <3>2, <3>4, <3>5
    <3>11. Cardinality(range) = m.already + (m.done + m.skipped + m.failed)
                                  + (Cardinality(lost) + Len(rawQ))
      BY <3>6, <3>7 DEF Verdicts
    <3>12. Cardinality(lost) + Len(rawQ) \in Nat
      BY <3>9
    <3>13. PICK c, f, x \in Nat : /\ c = Cardinality(stored(CompletedStatuses))
                                  /\ f = Cardinality(stored({"failed"}))
                                  /\ x = Cardinality(lost) + Len(rawQ)
      BY <3>9, <3>12
    <3>14. /\ c + f + x = m.already + (m.done + m.skipped + m.failed) + x
           /\ m.already + m.done + m.skipped = c
      <4>. HIDE DEF stored, left
      <4>. QED
        BY <2>8, <3>10, <3>11, <3>13
    <3>15. m.failed = f
      <4>1. \A u, v, w, a, d, k, e \in Nat :
              u + v + w = a + (d + k + e) + w /\ a + d + k = u => e = v
        OBVIOUS
      <4>2. /\ c + f + x = m.already + (m.done + m.skipped + m.failed) + x
            /\ m.already + m.done + m.skipped = c
        BY <3>14
      <4>3. /\ m.already \in Nat /\ m.done \in Nat /\ m.skipped \in Nat /\ m.failed \in Nat
            /\ c \in Nat /\ f \in Nat /\ x \in Nat
        BY <3>8
      <4>. QED
        BY <4>1, <4>2, <4>3
    <3>. QED
      BY <3>13, <3>15
  <2>10. rebuild = "ok" => candles = DoneSlots
    BY <2>1 DEF RunInv, Rebuilt
  <2>. QED
    BY <2>6, <2>8, <2>9, <2>10 DEF RebuildFollowsEveryRow
<1>. QED
  BY <1>1, FollowInit, FollowNext, PTL DEF Spec
=============================================================================
