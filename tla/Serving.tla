------------------------------ MODULE Serving ------------------------------
(***************************************************************************)
(* What the clients of the API see while a writer commits: the pool of     *)
(* read-only connections, and responses made of one statement or of five,  *)
(* each of which sees the database as it is when the statement starts.     *)
(*                                                                         *)
(* The database is the SlotLedger that Store and Pipeline implement; the   *)
(* trades, conflict and contention rows are those of the done slots. The   *)
(* statements run on SQLite connections in WAL mode, outside a transaction.*)
(* A request that is refused for its parameters reads nothing and is left  *)
(* out; no closure given to the pool panics, so no mutex is poisoned.      *)
(***************************************************************************)
EXTENDS Integers, Sequences, FiniteSets

CONSTANTS
  Slots,
  Requests,     \* threads of the blocking pool that answer requests
  KindsOf,      \* what each of them may be asked
  Nobody,       \* not one of them
  Connections,  \* the size of the ReadPool
  MaxAsks       \* bound: requests ever made

ASSUME ServingAssumption == /\ IsFiniteSet(Slots) /\ IsFiniteSet(Requests)
                            /\ Nobody \notin Requests
                            /\ KindsOf \in [Requests -> SUBSET {"contention", "tokens", "ohlcv"}]
                            /\ Connections \in Nat \ {0} /\ MaxAsks \in Nat

VARIABLES
  db, candles,  \* the committed ledger
  conns,        \* per connection: the request that holds its mutex, or Nobody
  next,         \* where the next request starts looking, modulo Connections
  req,          \* per request: where it is, and what it has read
  asks          \* bounded by MaxAsks

ledger == <<db, candles>>
vars == <<ledger, conns, next, req, asks>>

Ledger == INSTANCE SlotLedger WITH Slots <- Slots, db <- db, candles <- candles

Pool == 0 .. (Connections - 1)

\* The statements of each response, in the order they are run.
Statements ==
  [contention |-> <<"summary", "slots", "histogram", "accounts", "programs">>,
   tokens     |-> <<"tokens">>,
   ohlcv      |-> <<"candles">>]

Kind == DOMAIN Statements

DoneSlots == {s \in Slots : db[s] = "done"}

\* What statements see: the slots whose rows they count, the candles they show.
View == [slots : SUBSET Slots, candles : SUBSET Slots]
NoView == [slots |-> {}, candles |-> {}]
Committed(kind) == [slots   |-> IF kind = "ohlcv" THEN {} ELSE DoneSlots,
                    candles |-> IF kind = "contention" THEN {} ELSE candles]

Idle == [pc |-> "idle", kind |-> "tokens", start |-> 0, tried |-> 0, conn |-> 0,
         part |-> 1, asked |-> NoView, seen |-> NoView]

Init ==
  /\ Ledger!Init
  /\ conns = [c \in Pool |-> Nobody]
  /\ next = 0
  /\ req = [r \in Requests |-> Idle]
  /\ asks = 0
-----------------------------------------------------------------------------
(* ReadPool::with                                                          *)

\* A handler starts `read`, and fetches and raises the pool's counter.
Ask(r, kind) ==
  /\ req[r].pc = "idle" /\ asks < MaxAsks
  /\ req' = [req EXCEPT ![r] = [Idle EXCEPT !.pc = "try", !.kind = kind, !.start = next,
                                            !.asked = Committed(kind)]]
  /\ next' = (next + 1) % Connections
  /\ asks' = asks + 1
  /\ UNCHANGED <<ledger, conns>>

Candidate(r) == (req[r].start + req[r].tried) % Connections

Hold(r, c) ==
  /\ conns' = [conns EXCEPT ![c] = r]
  /\ req' = [req EXCEPT ![r].pc = "read", ![r].conn = c, ![r].start = 0, ![r].tried = 0]

\* try_lock of the next connection of the round; after a full round the request
\* settles for the connection it started from.
TryLock(r) ==
  /\ req[r].pc = "try"
  /\ IF conns[Candidate(r)] = Nobody
     THEN Hold(r, Candidate(r))
     ELSE /\ req' = [req EXCEPT ![r].tried = @ + 1,
                                ![r].pc = IF req[r].tried + 1 < Connections
                                          THEN "try" ELSE "wait"]
          /\ UNCHANGED conns
  /\ UNCHANGED <<ledger, next, asks>>

LockAnyway(r) ==                                       \* mutant of Lock
  /\ req[r].pc = "wait"
  /\ Hold(r, req[r].start)
  /\ UNCHANGED <<ledger, next, asks>>

\* lock(): whoever of those that wait comes first when the mutex is free.
Lock(r) ==
  /\ req[r].pc = "wait" /\ conns[req[r].start] = Nobody
  /\ Hold(r, req[r].start)
  /\ UNCHANGED <<ledger, next, asks>>
-----------------------------------------------------------------------------
(* The statements of a response                                            *)

AtTheAsk(r) ==                                         \* mutant of Snapshot
  [slots |-> req[r].asked.slots, candles |-> candles]

\* The statement that starts now sees everything committed, and nothing else.
Snapshot(r) == Committed(req[r].kind)

SwallowsAccounts(stmt) == stmt \in {"accounts", "programs"}   \* mutant of Swallowed

\* The programs are collected with unwrap_or_default: an error reads as none.
Swallowed(stmt) == stmt = "programs"

NextStatement(r) == Statements[req[r].kind][req[r].part]

KeepsIfCutShort(r) ==                                  \* mutant of Finish
  /\ conns' = IF req[r].part <= Len(Statements[req[r].kind]) THEN conns
              ELSE [conns EXCEPT ![req[r].conn] = Nobody]
  /\ req' = [req EXCEPT ![r] = Idle]

\* The guard of the mutex is dropped when the closure returns, whatever it
\* returns, and the answer or the error is sent.
Finish(r) ==
  /\ conns' = [conns EXCEPT ![req[r].conn] = Nobody]
  /\ req' = [req EXCEPT ![r] = Idle]

Reading(r) == req[r].pc = "read"

Saw(r, view) == req' = [req EXCEPT ![r].part = @ + 1, ![r].seen = view]

RunStatement(r) ==
  /\ Reading(r) /\ req[r].part <= Len(Statements[req[r].kind])
  /\ Saw(r, Snapshot(r))
  /\ UNCHANGED <<ledger, conns, next, asks>>

\* An error ends the response, unless the handler reads it as an empty result.
StatementFails(r) ==
  /\ Reading(r) /\ req[r].part <= Len(Statements[req[r].kind])
  /\ IF Swallowed(NextStatement(r))
     THEN Saw(r, NoView) /\ UNCHANGED conns
     ELSE Finish(r)
  /\ UNCHANGED <<ledger, next, asks>>

Answer(r) ==
  /\ Reading(r) /\ req[r].part > Len(Statements[req[r].kind])
  /\ Finish(r)
  /\ UNCHANGED <<ledger, next, asks>>
-----------------------------------------------------------------------------
\* The writer commits a batch or rebuilds the candles.
Write == Ledger!Next /\ UNCHANGED <<conns, next, req, asks>>

\* The process dies, with its pool and its requests, and another is started.
Restart ==
  /\ conns' = [c \in Pool |-> Nobody] /\ next' = 0
  /\ req' = [r \in Requests |-> Idle]
  /\ UNCHANGED <<ledger, asks>>

Progress(r) ==
  TryLock(r) \/ Lock(r) \/ RunStatement(r) \/ StatementFails(r) \/ Answer(r)

Next ==
  \/ \E r \in Requests : Progress(r) \/ \E kind \in KindsOf[r] : Ask(r, kind)
  \/ Write
  \/ Restart

\* The threads of the blocking pool run, and statements end. Nothing is assumed
\* of the order in which a mutex is given to those that wait for it.
Spec == Init /\ [][Next]_vars /\ \A r \in Requests : WF_vars(Progress(r))
-----------------------------------------------------------------------------
(* Properties                                                              *)

WellTyped ==
  /\ db \in [Slots -> Ledger!Status] /\ candles \subseteq Slots
  /\ conns \in [Pool -> Requests \cup {Nobody}]
  /\ next \in Pool /\ asks \in 0 .. MaxAsks
  /\ req \in [Requests ->
       [pc : {"idle", "try", "wait", "read"}, kind : Kind,
        start : Pool, tried : 0 .. Connections, conn : Pool, part : 1 .. 6,
        asked : View, seen : View]]

\* A connection runs the statements of one request at a time, and is given back
\* on every way out of it: the requests that read and the connections taken are
\* one and the same.
OneRequestEach ==
  /\ \A r \in Requests : Reading(r) => conns[req[r].conn] = r
  /\ \A c \in Pool : conns[c] # Nobody => Reading(conns[c]) /\ req[conns[c]].conn = c

TypeOK == WellTyped /\ OneRequestEach

HasRead(r) == Reading(r) /\ req[r].part > 1

Within(v, w) == v.slots \subseteq w.slots /\ v.candles \subseteq w.candles

\* Whatever a response shows was not older than the request: a client that saw a
\* slot, or a candle, sees it again in every later answer, unless the statement
\* failed unnoticed. And every candle behind a price of /api/tokens is made of
\* trades the same answer counts.
AnswersAreFresh ==
  \A r \in Requests : HasRead(r) =>
    /\ \/ Within(req[r].asked, req[r].seen)
       \/ req[r].kind = "contention" /\ req[r].part = 6 /\ req[r].seen = NoView
    /\ req[r].kind = "tokens" => req[r].seen.candles \subseteq req[r].seen.slots

\* The five parts of a contention response are not of one moment, but none of
\* them is older than the one before it: every slot the summary counts is listed,
\* and every slot listed has its conflicts in the tables below. Only the programs
\* may be missing, when their statement fails.
PartsNeverGoBack ==
  [][\A r \in Requests :
       Reading(r) /\ req'[r].part = req[r].part + 1 =>
         \/ Within(req[r].seen, req'[r].seen)
         \/ NextStatement(r) = "programs" /\ req'[r].seen = NoView]_vars

\* Under the bound on requests: every request is answered, or dies with its
\* process. A request that waits for the connection it started from, though others
\* are free, can be overtaken there: the mutex keeps no order, and only the number
\* of requests bounds how often.
RequestsAnswered ==
  \A r \in Requests : req[r].pc # "idle" ~> req[r].pc = "idle"
=============================================================================
