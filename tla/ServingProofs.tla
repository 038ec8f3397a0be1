--------------------------- MODULE ServingProofs ---------------------------
(***************************************************************************)
(* For any number of requests, connections and slots: a connection serves   *)
(* one request at a time and is always given back, no answer is older than  *)
(* its request, and no part of an answer is older than the one before.      *)
(***************************************************************************)
EXTENDS Serving, TLAPS

Req == [pc : {"idle", "try", "wait", "read"}, kind : Kind,
        start : Pool, tried : 0 .. Connections, conn : Pool, part : 1 .. 6,
        asked : View, seen : View]

\* What a request knew when it was made, and what it has seen, is committed.
Current(q) == /\ Within(q.asked, Committed(q.kind))
              /\ Within(q.seen, Committed(q.kind))

\* AnswersAreFresh, of one request.
Fresh(q) ==
  q.pc = "read" /\ q.part > 1 =>
    /\ \/ Within(q.asked, q.seen)
       \/ q.kind = "contention" /\ q.part = 6 /\ q.seen = NoView
    /\ q.kind = "tokens" => q.seen.candles \subseteq q.seen.slots

\* A round over the connections is not over while the request tries.
InRound(q) == q.pc = "try" => q.tried < Connections

\* Before it has a connection it has run no statement.
Unread(q) == q.pc # "read" => q.part = 1

GoodRequest(q) == Current(q) /\ Fresh(q) /\ InRound(q) /\ Unread(q)

\* Only rebuilds fill the candles, from slots that stay done.
CandlesOfDone == candles \subseteq DoneSlots

ServingInv == TypeOK /\ CandlesOfDone /\ \A r \in Requests : GoodRequest(req[r])

-----------------------------------------------------------------------------
(* Facts about the pieces                                                  *)

LEMMA PoolFacts == /\ 0 \in Pool
                   /\ \A n \in Nat : n % Connections \in Pool
<1>1. Connections \in Nat /\ Connections > 0
  BY ServingAssumption
<1> QED  BY <1>1 DEF Pool

LEMMA StatementFacts ==
  /\ Kind = {"contention", "tokens", "ohlcv"}
  /\ Len(Statements["contention"]) = 5
  /\ Len(Statements["tokens"]) = 1 /\ Len(Statements["ohlcv"]) = 1
  /\ \A k \in Kind : Len(Statements[k]) \in 1 .. 5
<1>1. Kind = {"contention", "tokens", "ohlcv"}
  BY DEF Kind, Statements
<1>2. /\ Len(Statements["contention"]) = 5
      /\ Len(Statements["tokens"]) = 1 /\ Len(Statements["ohlcv"]) = 1
  BY DEF Statements
<1> QED  BY <1>1, <1>2

\* Of the statements, only the fifth of a contention response is forgiven.
LEMMA ForgivenStatement ==
  ASSUME NEW k \in Kind, NEW n \in 1 .. 6, n <= Len(Statements[k]),
         Statements[k][n] = "programs"
  PROVE  k = "contention" /\ n = 5
<1>1. CASE k = "contention"
  BY <1>1 DEF Statements
<1>2. CASE k = "tokens"
  BY <1>2 DEF Statements
<1>3. CASE k = "ohlcv"
  BY <1>3 DEF Statements
<1> QED  BY <1>1, <1>2, <1>3, StatementFacts

LEMMA IdleIsGood == Idle \in Req /\ GoodRequest(Idle)
<1>1. Idle \in Req
  BY PoolFacts, StatementFacts, ServingAssumption DEF Idle, Req, View, NoView
<1>2. Current(Idle)
  BY DEF Current, Within, Idle, NoView
<1>3. Fresh(Idle) /\ InRound(Idle) /\ Unread(Idle)
  BY DEF Fresh, InRound, Unread, Idle
<1> QED  BY <1>1, <1>2, <1>3 DEF GoodRequest

LEMMA CommittedIsView ==
  ASSUME WellTyped, NEW k
  PROVE  Committed(k) \in View
BY DEF WellTyped, Committed, View, DoneSlots

\* What is committed never shrinks: done is settled, and a rebuild replaces the
\* candles by those of the done slots.
LEMMA LedgerGrows ==
  ASSUME WellTyped, CandlesOfDone, Ledger!Next
  PROVE  /\ DoneSlots \subseteq DoneSlots' /\ candles \subseteq candles'
         /\ CandlesOfDone'
<1>1. CASE Ledger!Record
  <2>1. \A s \in Slots : db[s] = "done" => db'[s] = "done"
    BY <1>1 DEF Ledger!Record, Ledger!Settled
  <2> QED  BY <1>1, <2>1 DEF Ledger!Record, CandlesOfDone, DoneSlots
<1>2. CASE Ledger!Rebuild
  BY <1>2 DEF Ledger!Rebuild, CandlesOfDone, DoneSlots
<1> QED  BY <1>1, <1>2 DEF Ledger!Next

LEMMA CommittedGrows ==
  ASSUME DoneSlots \subseteq DoneSlots', candles \subseteq candles',
         NEW v, NEW k, Within(v, Committed(k))
  PROVE  Within(v, Committed(k)')
BY DEF Within, Committed

-----------------------------------------------------------------------------
(* One request moves on                                                    *)

\* The ledger stays and one request changes to a good one.
LEMMA RequestChanges ==
  ASSUME ServingInv, NEW r \in Requests, NEW q \in Req, GoodRequest(q),
         req' = [req EXCEPT ![r] = q], UNCHANGED ledger
  PROVE  /\ req' \in [Requests -> Req]
         /\ req'[r] = q /\ \A x \in Requests \ {r} : req'[x] = req[x]
         /\ CandlesOfDone' /\ \A x \in Requests : GoodRequest(req[x])'
<1>1. req \in [Requests -> Req]
  BY DEF ServingInv, TypeOK, WellTyped, Req
<1>2. req'[r] = q /\ \A x \in Requests \ {r} : req'[x] = req[x]
  BY <1>1
<1>3. db' = db /\ candles' = candles
  BY DEF ledger
<1>4. CandlesOfDone'
  BY <1>3 DEF ServingInv, CandlesOfDone, DoneSlots
<1>5. ASSUME NEW x \in Requests PROVE GoodRequest(req[x])'
  <2>1. GoodRequest(req'[x])
    BY <1>2 DEF ServingInv
  <2> QED
    BY <1>3, <2>1 DEF GoodRequest, Current, Fresh, InRound, Unread, Committed, DoneSlots
<1> QED  BY <1>1, <1>2, <1>4, <1>5

\* It holds a connection afterwards exactly if it did before.
LEMMA ConnectionKept ==
  ASSUME ServingInv, NEW r \in Requests, NEW q \in Req, GoodRequest(q),
         req' = [req EXCEPT ![r] = q], UNCHANGED <<ledger, conns>>,
         next' \in Pool, asks' \in 0 .. MaxAsks,
         q.pc = "read" <=> Reading(r), Reading(r) => q.conn = req[r].conn
  PROVE  ServingInv'
<1>1. /\ req' \in [Requests -> Req]
      /\ req'[r] = q /\ \A x \in Requests \ {r} : req'[x] = req[x]
      /\ CandlesOfDone' /\ \A x \in Requests : GoodRequest(req[x])'
  BY RequestChanges
<1>2. WellTyped'
  BY <1>1 DEF ServingInv, TypeOK, WellTyped, ledger, Req
<1>3. OneRequestEach'
  BY <1>1, ServingAssumption
     DEF ServingInv, TypeOK, WellTyped, OneRequestEach, Reading
<1> QED  BY <1>1, <1>2, <1>3 DEF ServingInv, TypeOK

\* It takes a free connection.
LEMMA ConnectionTaken ==
  ASSUME ServingInv, NEW r \in Requests, NEW q \in Req, GoodRequest(q),
         NEW c \in Pool, conns[c] = Nobody, ~Reading(r), q.pc = "read", q.conn = c,
         req' = [req EXCEPT ![r] = q], conns' = [conns EXCEPT ![c] = r],
         UNCHANGED <<ledger, next, asks>>
  PROVE  ServingInv'
<1>1. /\ req' \in [Requests -> Req]
      /\ req'[r] = q /\ \A x \in Requests \ {r} : req'[x] = req[x]
      /\ CandlesOfDone' /\ \A x \in Requests : GoodRequest(req[x])'
  BY RequestChanges
<1>2. conns \in [Pool -> Requests \cup {Nobody}] /\ Nobody \notin Requests
  BY ServingAssumption DEF ServingInv, TypeOK, WellTyped
<1>3. conns'[c] = r /\ \A d \in Pool \ {c} : conns'[d] = conns[d]
  BY <1>2
<1>4. WellTyped'
  BY <1>1, <1>2 DEF ServingInv, TypeOK, WellTyped, ledger, Req
<1>5. OneRequestEach'
  <2>1. ASSUME NEW x \in Requests, Reading(x)' PROVE conns'[req'[x].conn] = x
    <3>1. CASE x = r
      BY <1>1, <1>3, <3>1
    <3>2. CASE x # r
      BY <1>1, <1>2, <1>3, <2>1, <3>2
         DEF ServingInv, TypeOK, WellTyped, OneRequestEach, Reading, Req
    <3> QED  BY <3>1, <3>2
  <2>2. ASSUME NEW d \in Pool, conns'[d] # Nobody
        PROVE  Reading(conns[d])' /\ req'[conns'[d]].conn = d
    <3>1. CASE d = c
      BY <1>1, <1>3, <3>1 DEF Reading
    <3>2. CASE d # c
      BY <1>1, <1>2, <1>3, <2>2, <3>2
         DEF ServingInv, TypeOK, WellTyped, OneRequestEach, Reading
    <3> QED  BY <3>1, <3>2
  <2> QED  BY <2>1, <2>2 DEF OneRequestEach
<1> QED  BY <1>1, <1>4, <1>5 DEF ServingInv, TypeOK

\* It gives its connection back and is idle.
LEMMA ConnectionGivenBack ==
  ASSUME ServingInv, NEW r \in Requests, Reading(r), Finish(r),
         UNCHANGED <<ledger, next, asks>>
  PROVE  ServingInv'
<1>1. /\ req' \in [Requests -> Req]
      /\ req'[r] = Idle /\ \A x \in Requests \ {r} : req'[x] = req[x]
      /\ CandlesOfDone' /\ \A x \in Requests : GoodRequest(req[x])'
  BY RequestChanges, IdleIsGood DEF Finish
<1> DEFINE c == req[r].conn
<1>2. /\ conns \in [Pool -> Requests \cup {Nobody}] /\ Nobody \notin Requests
      /\ c \in Pool
  BY ServingAssumption DEF ServingInv, TypeOK, WellTyped
<1>3. conns'[c] = Nobody /\ \A d \in Pool \ {c} : conns'[d] = conns[d]
  BY <1>2 DEF Finish
<1>4. WellTyped'
  BY <1>1, <1>2 DEF ServingInv, TypeOK, WellTyped, ledger, Req, Finish
<1>5. OneRequestEach'
  <2>1. ASSUME NEW x \in Requests, Reading(x)' PROVE conns'[req'[x].conn] = x
    <3>1. x # r
      BY <1>1, <2>1 DEF Reading, Idle
    <3> QED
      BY <1>1, <1>2, <1>3, <2>1, <3>1
         DEF ServingInv, TypeOK, WellTyped, OneRequestEach, Reading
  <2>2. ASSUME NEW d \in Pool, conns'[d] # Nobody
        PROVE  Reading(conns[d])' /\ req'[conns'[d]].conn = d
    <3>1. d # c
      BY <1>3, <2>2
    <3> QED
      BY <1>1, <1>2, <1>3, <2>2, <3>1
         DEF ServingInv, TypeOK, WellTyped, OneRequestEach, Reading
  <2> QED  BY <2>1, <2>2 DEF OneRequestEach
<1> QED  BY <1>1, <1>4, <1>5 DEF ServingInv, TypeOK

-----------------------------------------------------------------------------
(* The actions                                                             *)

LEMMA ServingInit == Init => ServingInv
<1> SUFFICES ASSUME Init PROVE ServingInv
  OBVIOUS
<1>1. \A r \in Requests : req[r] = Idle /\ req[r] \in Req /\ GoodRequest(req[r])
  BY IdleIsGood DEF Init
<1>2. WellTyped
  BY <1>1, PoolFacts, IdleIsGood, ServingAssumption
     DEF Init, WellTyped, Ledger!Init, Ledger!Status, Req
<1>3. OneRequestEach
  BY <1>1 DEF Init, OneRequestEach, Reading, Idle
<1>4. CandlesOfDone
  BY DEF Init, Ledger!Init, CandlesOfDone
<1> QED  BY <1>1, <1>2, <1>3, <1>4 DEF ServingInv, TypeOK

LEMMA AskStep ==
  ASSUME ServingInv, NEW r \in Requests, NEW kind \in KindsOf[r], Ask(r, kind)
  PROVE  ServingInv'
<1> DEFINE q == [Idle EXCEPT !.pc = "try", !.kind = kind, !.start = next,
                             !.asked = Committed(kind)]
<1>1. kind \in Kind /\ next \in Pool
  BY StatementFacts, ServingAssumption DEF ServingInv, TypeOK, WellTyped
<1>2. Committed(kind) \in View
  BY CommittedIsView DEF ServingInv, TypeOK
<1>3. q \in Req /\ q.pc = "try" /\ q.kind = kind /\ q.asked = Committed(kind)
      /\ q.seen = NoView /\ q.tried = 0 /\ q.part = 1
  BY <1>1, <1>2, IdleIsGood DEF Idle, Req
<1>4. GoodRequest(q)
  <2>1. Current(q)
    BY <1>3 DEF Current, Within, NoView
  <2>2. Fresh(q) /\ InRound(q) /\ Unread(q)
    BY <1>3, ServingAssumption DEF Fresh, InRound, Unread
  <2> QED  BY <2>1, <2>2 DEF GoodRequest
<1>5. req' = [req EXCEPT ![r] = q] /\ UNCHANGED <<ledger, conns>>
  BY DEF Ask
<1>6. next' \in Pool /\ asks' \in 0 .. MaxAsks
  <2>1. next + 1 \in Nat
    BY <1>1 DEF Pool
  <2>2. next' \in Pool
    BY <2>1, PoolFacts DEF Ask
  <2> QED  BY <2>2, ServingAssumption DEF Ask, ServingInv, TypeOK, WellTyped
<1>7. ~Reading(r)
  BY DEF Ask, Reading
<1> HIDE DEF q
<1> QED  BY <1>3, <1>4, <1>5, <1>6, <1>7, ConnectionKept

LEMMA HoldStep ==
  ASSUME ServingInv, NEW r \in Requests, req[r].pc \in {"try", "wait"},
         NEW c \in Pool, conns[c] = Nobody, Hold(r, c), UNCHANGED <<ledger, next, asks>>
  PROVE  ServingInv'
<1> DEFINE q == [req[r] EXCEPT !.pc = "read", !.conn = c, !.start = 0, !.tried = 0]
<1>1. req[r] \in Req /\ GoodRequest(req[r])
  BY DEF ServingInv, TypeOK, WellTyped, Req
<1>2. req' = [req EXCEPT ![r] = q]
  BY <1>1 DEF Hold, Req
<1>3. 0 \in Pool /\ 0 \in 0 .. Connections
  BY PoolFacts, ServingAssumption
<1>4. q \in Req
  BY <1>1, <1>3 DEF Req
<1>5. /\ q.pc = "read" /\ q.conn = c /\ q.part = req[r].part
      /\ q.kind = req[r].kind /\ q.asked = req[r].asked /\ q.seen = req[r].seen
  BY <1>1 DEF Req
<1>6. ~Reading(r) /\ req[r].part = 1
  BY <1>1 DEF Reading, GoodRequest, Unread
<1>7. GoodRequest(q)
  BY <1>1, <1>5, <1>6 DEF GoodRequest, Current, Fresh, InRound, Unread
<1>8. conns' = [conns EXCEPT ![c] = r]
  BY DEF Hold
<1> HIDE DEF q
<1> QED  BY <1>2, <1>4, <1>5, <1>6, <1>7, <1>8, ConnectionTaken

LEMMA TryLockStep ==
  ASSUME ServingInv, NEW r \in Requests, TryLock(r)
  PROVE  ServingInv'
<1>1. req[r] \in Req /\ GoodRequest(req[r]) /\ req[r].pc = "try"
  BY DEF ServingInv, TypeOK, WellTyped, Req, TryLock
<1>2. Candidate(r) \in Pool
  <2>1. req[r].start + req[r].tried \in Nat
    BY <1>1, ServingAssumption DEF Req, Pool
  <2> QED  BY <2>1, PoolFacts DEF Candidate
<1>3. CASE conns[Candidate(r)] = Nobody
  BY <1>1, <1>2, <1>3, HoldStep DEF TryLock
<1>4. CASE conns[Candidate(r)] # Nobody
  <2> DEFINE pc == IF req[r].tried + 1 < Connections THEN "try" ELSE "wait"
             q  == [req[r] EXCEPT !.tried = @ + 1, !.pc = pc]
  <2>1. req' = [req EXCEPT ![r] = q] /\ UNCHANGED <<ledger, conns, next, asks>>
    BY <1>1, <1>4 DEF TryLock, Req
  <2>2. req[r].tried + 1 \in 0 .. Connections
    BY <1>1, ServingAssumption DEF Req, GoodRequest, InRound
  <2>3. q \in Req
    BY <1>1, <2>2 DEF Req
  <2>4. /\ q.pc = pc /\ q.tried = req[r].tried + 1 /\ q.part = req[r].part
        /\ q.kind = req[r].kind /\ q.asked = req[r].asked /\ q.seen = req[r].seen
    BY <1>1 DEF Req
  <2>5. pc # "read" /\ (pc = "try" => req[r].tried + 1 < Connections)
    OBVIOUS
  <2>6. GoodRequest(q)
    <3> HIDE DEF pc, q
    <3> QED  BY <1>1, <2>4, <2>5 DEF GoodRequest, Current, Fresh, InRound, Unread
  <2>7. q.pc # "read" /\ ~Reading(r)
    BY <1>1, <2>4, <2>5 DEF Reading
  <2>8. next' \in Pool /\ asks' \in 0 .. MaxAsks
    BY <2>1 DEF ServingInv, TypeOK, WellTyped
  <2> HIDE DEF pc, q
  <2> QED  BY <2>1, <2>3, <2>6, <2>7, <2>8, ConnectionKept
<1> QED  BY <1>3, <1>4

LEMMA LockStep ==
  ASSUME ServingInv, NEW r \in Requests, Lock(r)
  PROVE  ServingInv'
<1>1. req[r].start \in Pool
  BY DEF ServingInv, TypeOK, WellTyped
<1> QED  BY <1>1, HoldStep DEF Lock

\* The next statement of r is done and r has seen a view.
LEMMA SawStep ==
  ASSUME ServingInv, NEW r \in Requests, Reading(r),
         req[r].part <= Len(Statements[req[r].kind]),
         NEW view \in View, Saw(r, view), UNCHANGED <<ledger, conns, next, asks>>,
         \/ view = Committed(req[r].kind)
         \/ view = NoView /\ req[r].kind = "contention" /\ req[r].part = 5
  PROVE  ServingInv'
<1> DEFINE q == [req[r] EXCEPT !.part = @ + 1, !.seen = view]
<1>1. req[r] \in Req /\ GoodRequest(req[r]) /\ req[r].pc = "read"
  BY DEF ServingInv, TypeOK, WellTyped, Req, Reading
<1>2. req' = [req EXCEPT ![r] = q]
  BY <1>1 DEF Saw, Req
<1>3. req[r].part + 1 \in 1 .. 6
  <2> DEFINE n == Len(Statements[req[r].kind])
  <2>1. n \in 1 .. 5 /\ req[r].part \in 1 .. 6 /\ req[r].part <= n
    BY <1>1, StatementFacts DEF Req
  <2> HIDE DEF n
  <2> QED  BY <2>1
<1>4. q \in Req
  BY <1>1, <1>3 DEF Req
<1>5. /\ q.pc = "read" /\ q.conn = req[r].conn /\ q.part = req[r].part + 1
      /\ q.kind = req[r].kind /\ q.asked = req[r].asked /\ q.seen = view
  BY <1>1 DEF Req
<1>6. GoodRequest(q)
  <2>1. Current(q)
    BY <1>1, <1>5 DEF GoodRequest, Current, Within, NoView
  <2>2. Within(q.asked, Committed(q.kind))
    BY <2>1 DEF Current
  <2>3. Fresh(q)
    <3>1. CASE view = Committed(req[r].kind)
      <4>1. q.kind = "tokens" => q.seen.candles \subseteq q.seen.slots
        BY <1>5, <3>1 DEF ServingInv, CandlesOfDone, Committed
      <4> QED  BY <1>5, <2>2, <3>1, <4>1 DEF Fresh
    <3>2. CASE view = NoView /\ req[r].kind = "contention" /\ req[r].part = 5
      BY <1>5, <3>2 DEF Fresh
    <3> QED  BY <3>1, <3>2
  <2>4. InRound(q) /\ Unread(q)
    BY <1>5 DEF InRound, Unread
  <2> QED  BY <2>1, <2>3, <2>4 DEF GoodRequest
<1>7. next' \in Pool /\ asks' \in 0 .. MaxAsks
  BY DEF ServingInv, TypeOK, WellTyped
<1> HIDE DEF q
<1> QED  BY <1>2, <1>4, <1>5, <1>6, <1>7, ConnectionKept

LEMMA RunStatementStep ==
  ASSUME ServingInv, NEW r \in Requests, RunStatement(r)
  PROVE  ServingInv'
<1>1. Snapshot(r) = Committed(req[r].kind) /\ Snapshot(r) \in View
  BY CommittedIsView DEF ServingInv, TypeOK, Snapshot
<1> QED  BY <1>1, SawStep DEF RunStatement

LEMMA StatementFailsStep ==
  ASSUME ServingInv, NEW r \in Requests, StatementFails(r)
  PROVE  ServingInv'
<1>1. CASE Swallowed(NextStatement(r))
  <2>1. req[r].kind \in Kind /\ req[r].part \in 1 .. 6
    BY DEF ServingInv, TypeOK, WellTyped
  <2>2. Statements[req[r].kind][req[r].part] = "programs"
    BY <1>1 DEF Swallowed, NextStatement
  <2>3. req[r].kind = "contention" /\ req[r].part = 5
    BY <2>1, <2>2, ForgivenStatement DEF StatementFails
  <2>4. NoView \in View
    BY DEF NoView, View
  <2> QED  BY <1>1, <2>3, <2>4, SawStep DEF StatementFails
<1>2. CASE ~Swallowed(NextStatement(r))
  BY <1>2, ConnectionGivenBack DEF StatementFails
<1> QED  BY <1>1, <1>2

LEMMA AnswerStep ==
  ASSUME ServingInv, NEW r \in Requests, Answer(r)
  PROVE  ServingInv'
BY ConnectionGivenBack DEF Answer

LEMMA WriteStep ==
  ASSUME ServingInv, Write
  PROVE  ServingInv'
<1>1. DoneSlots \subseteq DoneSlots' /\ candles \subseteq candles' /\ CandlesOfDone'
  BY LedgerGrows DEF ServingInv, TypeOK, Write
<1>2. UNCHANGED <<conns, next, req, asks>>
  BY DEF Write
<1>3. db' \in [Slots -> Ledger!Status] /\ candles' \subseteq Slots
  BY DEF Write, Ledger!Next, Ledger!Record, Ledger!Rebuild, ServingInv, TypeOK, WellTyped
<1>4. TypeOK'
  BY <1>2, <1>3 DEF ServingInv, TypeOK, WellTyped, OneRequestEach, Reading
<1>5. ASSUME NEW r \in Requests PROVE GoodRequest(req[r])'
  <2>1. GoodRequest(req[r]) /\ req'[r] = req[r]
    BY <1>2 DEF ServingInv
  <2>2. Current(req[r])'
    BY <1>1, <2>1, CommittedGrows DEF GoodRequest, Current
  <2> QED  BY <2>1, <2>2 DEF GoodRequest, Fresh, InRound, Unread
<1> QED  BY <1>1, <1>4, <1>5 DEF ServingInv

LEMMA RestartStep ==
  ASSUME ServingInv, Restart
  PROVE  ServingInv'
<1>1. UNCHANGED <<db, candles, asks>>
  BY DEF Restart, ledger
<1>2. \A r \in Requests : req'[r] = Idle /\ req'[r] \in Req
  BY IdleIsGood DEF Restart
<1>3. WellTyped'
  BY <1>1, <1>2, PoolFacts, IdleIsGood
     DEF Restart, ServingInv, TypeOK, WellTyped, Req
<1>4. OneRequestEach'
  BY <1>2 DEF Restart, OneRequestEach, Reading, Idle
<1>5. CandlesOfDone'
  BY <1>1 DEF ServingInv, CandlesOfDone, DoneSlots
<1>6. ASSUME NEW r \in Requests PROVE GoodRequest(req[r])'
  <2>1. GoodRequest(req'[r])
    BY <1>2, IdleIsGood
  <2> QED
    BY <1>1, <2>1 DEF GoodRequest, Current, Fresh, InRound, Unread, Committed, DoneSlots
<1> QED  BY <1>3, <1>4, <1>5, <1>6 DEF ServingInv, TypeOK

LEMMA ServingStep ==
  ASSUME ServingInv, [Next]_vars
  PROVE  ServingInv'
<1>1. ASSUME NEW r \in Requests, Progress(r) PROVE ServingInv'
  BY <1>1, TryLockStep, LockStep, RunStatementStep, StatementFailsStep, AnswerStep
     DEF Progress
<1>2. ASSUME NEW r \in Requests, NEW kind \in KindsOf[r], Ask(r, kind) PROVE ServingInv'
  BY <1>2, AskStep
<1>3. CASE UNCHANGED vars
  BY <1>3 DEF vars, ledger, ServingInv, TypeOK, WellTyped, OneRequestEach, Reading,
              CandlesOfDone, DoneSlots, GoodRequest, Current, Fresh, InRound, Unread,
              Committed
<1> QED  BY <1>1, <1>2, <1>3, WriteStep, RestartStep DEF Next

LEMMA ServingInvariant == Spec => []ServingInv
<1>1. Init => ServingInv
  BY ServingInit
<1>2. ServingInv /\ [Next]_vars => ServingInv'
  BY ServingStep
<1> QED  BY <1>1, <1>2, PTL DEF Spec

-----------------------------------------------------------------------------
(* Theorems                                                                *)

\* For any requests, connections and slots: a connection runs the statements of
\* one request, and whatever way a request ends its connection is free again.
THEOREM ServingTypeCorrect == Spec => []TypeOK
<1>1. ServingInv => TypeOK
  BY DEF ServingInv
<1> QED  BY <1>1, ServingInvariant, PTL

\* For any interleaving of writers and readers: an answer shows at least what was
\* committed when its request was made, and /api/tokens no price of trades it
\* does not count.
THEOREM FreshAnswers == Spec => []AnswersAreFresh
<1>1. ServingInv => AnswersAreFresh
  BY DEF ServingInv, GoodRequest, Fresh, AnswersAreFresh, HasRead, Reading
<1> QED  BY <1>1, ServingInvariant, PTL

\* For any interleaving of writers and readers: a later part of an answer shows
\* all that an earlier part showed, the programs excepted if they fail.
THEOREM PartsInOrder == Spec => PartsNeverGoBack
<1> DEFINE Ordered(r) ==
      Reading(r) /\ req'[r].part = req[r].part + 1 =>
        \/ Within(req[r].seen, req'[r].seen)
        \/ NextStatement(r) = "programs" /\ req'[r].seen = NoView
<1>1. ASSUME ServingInv, [Next]_vars, NEW r \in Requests PROVE Ordered(r)
  <2>1. req[r] \in Req /\ GoodRequest(req[r]) /\ req \in [Requests -> Req]
    BY <1>1 DEF ServingInv, TypeOK, WellTyped, Req
  <2>2. req'[r] = req[r] => Ordered(r)
    BY <2>1 DEF Req
  <2>3. req'[r].part = 1 => Ordered(r)
    BY <2>1 DEF Req
  <2>4. Idle.part = 1
    BY DEF Idle
  <2>5. ASSUME NEW x \in Requests, Progress(x) PROVE Ordered(r)
    <3>1. CASE x # r
      <4>1. req'[r] = req[r]
        BY <2>1, <2>5, <3>1
           DEF Progress, TryLock, Lock, Hold, RunStatement, StatementFails, Answer,
               Saw, Finish
      <4> QED  BY <2>2, <4>1
    <3>2. CASE TryLock(r) \/ Lock(r)
      BY <3>2 DEF TryLock, Lock, Reading
    <3>3. CASE RunStatement(r)
      <4>1. req'[r].seen = Committed(req[r].kind)
        BY <2>1, <3>3 DEF RunStatement, Saw, Snapshot, Req
      <4> QED  BY <2>1, <4>1 DEF GoodRequest, Current
    <3>4. CASE StatementFails(r) /\ Swallowed(NextStatement(r))
      <4>1. req'[r].seen = NoView
        BY <2>1, <3>4 DEF StatementFails, Saw, Req
      <4> QED  BY <3>4, <4>1 DEF Swallowed
    <3>5. CASE (StatementFails(r) /\ ~Swallowed(NextStatement(r))) \/ Answer(r)
      <4>1. req'[r] = Idle
        BY <2>1, <3>5 DEF StatementFails, Answer, Finish
      <4> QED  BY <2>3, <2>4, <4>1
    <3> QED  BY <2>5, <3>1, <3>2, <3>3, <3>4, <3>5 DEF Progress
  <2>6. ASSUME NEW x \in Requests, NEW kind \in KindsOf[x], Ask(x, kind) PROVE Ordered(r)
    <3>1. CASE x = r
      BY <2>6, <3>1 DEF Ask, Reading
    <3>2. CASE x # r
      BY <2>1, <2>2, <2>6, <3>2 DEF Ask
    <3> QED  BY <3>1, <3>2
  <2>7. CASE Write
    BY <2>2, <2>7 DEF Write
  <2>8. CASE Restart
    BY <2>3, <2>4, <2>8 DEF Restart
  <2>9. CASE UNCHANGED vars
    BY <2>2, <2>9 DEF vars
  <2> QED  BY <1>1, <2>5, <2>6, <2>7, <2>8, <2>9 DEF Next
<1>2. ServingInv /\ [Next]_vars
        => [\A r \in Requests : Ordered(r)]_vars
  BY <1>1
<1> QED  BY <1>2, ServingInvariant, PTL DEF Spec, PartsNeverGoBack

=============================================================================
