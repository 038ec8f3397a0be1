----------------------------- MODULE RpcClient -----------------------------
(***************************************************************************)
(* The RPC client the fetch workers share: a token bucket in front of every *)
(* request, the retry loop with its back-off, and what becomes of a slot    *)
(* for each answer of the node.                                             *)
(*                                                                         *)
(* Time is counted in ticks and tokens in units: a tick refills Rate units, *)
(* a token is Cost units, so that a bucket may hold a fraction of a token.  *)
(***************************************************************************)
EXTENDS Integers, Sequences

CONSTANTS
  Workers,      \* the tasks that call get_block
  Rate,         \* units refilled per tick: --rps is Rate * Second / Cost
  Cost,         \* units of one token
  Second,       \* ticks in a second
  MaxAttempts,  \* max_attempts
  Base, Cap,    \* back-off: BASE_MS and CAP_MS, in ticks
  MaxTime       \* bound: ticks

ASSUME RatesAssumption   == {Rate, Cost, Second} \subseteq Nat \ {0}
ASSUME BackoffAssumption == MaxAttempts \in Nat \ {0} /\ {Base, Cap} \subseteq Nat
ASSUME TimeAssumption    == MaxTime \in Nat

Smaller(x, y) == IF x <= y THEN x ELSE y

\* rps.max(1.0) tokens.
Capacity == IF Rate * Second >= Cost THEN Rate * Second ELSE Cost

VARIABLES
  now,      \* the clock
  tokens,   \* the bucket, in units, as of `last`
  last,     \* when the bucket was last refilled
  caller,   \* per worker: where it is in call_retrying, and until when it sleeps
  attempt,  \* per worker: the attempt of its call, from 0
  answer,   \* per worker: the node's last answer to its call
  outcome,  \* per worker: what its last call returned
  sent,     \* history: when each request was issued
  tries     \* history, per worker: when each request of its call was issued

bucket == <<tokens, last>>
calls  == <<caller, attempt, answer, outcome>>
vars   == <<now, bucket, calls, sent, tries>>

\* HTTP 429 and 5xx, timeouts and broken connections, -32004 and -32005.
Transient == {"busy", "transport", "notYet"}
\* -32007 and -32009.
SlotSkipped == {"skipped"}
\* Other RPC errors, other HTTP statuses, bodies that do not parse; and a null
\* result, which parses as a response without one.
Permanent == {"rpcError", "httpError", "malformed", "null"}
Answers == {"block"} \cup Transient \cup SlotSkipped \cup Permanent

Awake(pc) == [pc |-> pc, until |-> 0]
Asleep(pc, t) == [pc |-> pc, until |-> t]

Init ==
  /\ now = 0 /\ tokens = Capacity /\ last = 0
  /\ caller = [w \in Workers |-> Awake("idle")]
  /\ attempt = [w \in Workers |-> 0]
  /\ answer = [w \in Workers |-> "none"]
  /\ outcome = [w \in Workers |-> "none"]
  /\ sent = <<>>
  /\ tries = [w \in Workers |-> <<>>]
-----------------------------------------------------------------------------
(* The token bucket                                                        *)

Tick ==
  /\ now < MaxTime
  /\ now' = now + 1
  /\ UNCHANGED <<bucket, calls, sent, tries>>

\* Bound: the clock stands at MaxTime.
TimeUp == now = MaxTime /\ UNCHANGED vars

Uncapped == tokens + (now - last) * Rate             \* mutant of Refilled
Refilled == Smaller(tokens + (now - last) * Rate, Capacity)

\* Ticks until the bucket holds a whole token.
TokenWait(units) == (Cost - units + Rate - 1) \div Rate

TakeToken(w) ==
  /\ caller[w].pc = "acquire" /\ Refilled >= Cost
  /\ tokens' = Refilled - Cost
  /\ last' = now
  /\ caller' = [caller EXCEPT ![w] = Awake("inFlight")]
  /\ sent' = Append(sent, now)
  /\ tries' = [tries EXCEPT ![w] = Append(@, now)]
  /\ UNCHANGED <<now, attempt, answer, outcome>>

AwaitToken(w) ==
  /\ caller[w].pc = "acquire" /\ Refilled < Cost
  /\ tokens' = Refilled
  /\ last' = now
  /\ caller' = [caller EXCEPT ![w] = Asleep("sleep", now + TokenWait(Refilled))]
  /\ UNCHANGED <<now, attempt, answer, outcome, sent, tries>>

\* A sleep is over: of the bucket's, or of the back-off. The bucket is asked
\* again in both cases, and the token may be gone by then.
WakesEarly(w) ==                                       \* mutant of Wake
  /\ caller[w].pc = "sleep"
  /\ caller' = [caller EXCEPT ![w] = Awake("acquire")]
  /\ UNCHANGED <<now, bucket, attempt, answer, outcome, sent, tries>>

Wake(w) ==
  /\ caller[w].pc = "sleep" /\ caller[w].until <= now
  /\ caller' = [caller EXCEPT ![w] = Awake("acquire")]
  /\ UNCHANGED <<now, bucket, attempt, answer, outcome, sent, tries>>
-----------------------------------------------------------------------------
(* The retry loop                                                          *)

Call(w) ==
  /\ caller[w].pc = "idle"
  /\ caller' = [caller EXCEPT ![w] = Awake("acquire")]
  /\ attempt' = [attempt EXCEPT ![w] = 0]
  /\ answer' = [answer EXCEPT ![w] = "none"]
  /\ outcome' = [outcome EXCEPT ![w] = "none"]
  /\ tries' = [tries EXCEPT ![w] = <<>>]
  /\ UNCHANGED <<now, bucket, sent>>

Exp(k) == Smaller(Base * 2 ^ Smaller(k, 6), Cap)

\* Half of it is certain, the other half is jitter.
Backoff(k) == (Exp(k) \div 2) .. (Exp(k) \div 2 + Exp(k) \div 2)

\* call_retrying returns.
Return(w, result) ==
  /\ caller' = [caller EXCEPT ![w] = Awake("idle")]
  /\ outcome' = [outcome EXCEPT ![w] = result]
  /\ UNCHANGED attempt

RetryOneLess(w) ==                                     \* mutants of Retry
  IF attempt[w] + 2 < MaxAttempts
  THEN \E d \in Backoff(attempt[w] + 1) :
         /\ attempt' = [attempt EXCEPT ![w] = @ + 1]
         /\ caller' = [caller EXCEPT ![w] = Asleep("sleep", now + d)]
         /\ UNCHANGED outcome
  ELSE Return(w, "failed")
RetryAtOnce(w) ==
  IF attempt[w] + 1 < MaxAttempts
  THEN /\ attempt' = [attempt EXCEPT ![w] = @ + 1]
       /\ caller' = [caller EXCEPT ![w] = Awake("acquire")]
       /\ UNCHANGED outcome
  ELSE Return(w, "failed")

\* The next attempt after its back-off, or none left.
Retry(w) ==
  IF attempt[w] + 1 < MaxAttempts
  THEN \E d \in Backoff(attempt[w] + 1) :
         /\ attempt' = [attempt EXCEPT ![w] = @ + 1]
         /\ caller' = [caller EXCEPT ![w] = Asleep("sleep", now + d)]
         /\ UNCHANGED outcome
  ELSE Return(w, "failed")

Answered(w, a) ==
  /\ caller[w].pc = "inFlight"
  /\ answer' = [answer EXCEPT ![w] = a]
  /\ CASE a \in Transient    -> Retry(w)
       [] a \in SlotSkipped  -> Return(w, "skipped")
       [] a \in Permanent    -> Return(w, "failed")
       [] OTHER              -> Return(w, "block")
  /\ UNCHANGED <<now, bucket, sent, tries>>

Step(w) ==
  \/ Call(w) \/ TakeToken(w) \/ AwaitToken(w) \/ Wake(w)
  \/ \E a \in Answers : Answered(w, a)

Next == Tick \/ TimeUp \/ \E w \in Workers : Step(w)

Spec == Init /\ [][Next]_vars
-----------------------------------------------------------------------------
(* Properties                                                              *)

BucketTypeOK ==
  /\ now \in Nat /\ last \in 0 .. now
  /\ tokens \in 0 .. Capacity
  /\ sent \in Seq(0 .. last)

CallsTypeOK ==
  /\ caller \in [Workers -> [pc : {"idle", "acquire", "sleep", "inFlight"}, until : Nat]]
  /\ attempt \in [Workers -> 0 .. (MaxAttempts - 1)]
  /\ answer \in [Workers -> Answers \cup {"none"}]
  /\ outcome \in [Workers -> {"none", "block", "skipped", "failed"}]
  /\ tries \in [Workers -> Seq(0 .. now)]

\* The bucket never holds more than its capacity nor less than nothing, it is
\* never refilled for a time still to come, and no request is issued after the
\* refill that paid for it.
TypeOK == BucketTypeOK /\ CallsTypeOK /\ now <= MaxTime

\* However the workers interleave, any stretch of time sees at most a burst of
\* the bucket's capacity and what the rate refills meanwhile, retries included:
\* "Nothing reaches the network without a token."
RateRespected ==
  \A i, j \in DOMAIN sent :
    i <= j => (j - i + 1) * Cost <= Capacity + (sent[j] - sent[i]) * Rate

\* A call sends its requests one at a time, at most MaxAttempts of them, and
\* each at least the certain half of its back-off after the one before.
RetriesSpaced ==
  \A w \in Workers :
    /\ Len(tries[w]) <= MaxAttempts
    /\ \A k \in 1 .. (Len(tries[w]) - 1) :
         tries[w][k + 1] - tries[w][k] >= Exp(k) \div 2

\* A call that fails has an answer that says so, or was refused MaxAttempts
\* times: a node that is busy or behind costs no slot before that.
FailureExplained ==
  \A w \in Workers :
    outcome[w] = "failed" =>
      answer[w] \in Permanent \/ Len(tries[w]) = MaxAttempts

\* "RPC codes -32007 and -32009, and a null result, mark the slot skipped".
NullMeansSkipped ==
  \A w \in Workers :
    answer[w] = "null" /\ caller[w].pc = "idle" => outcome[w] = "skipped"
=============================================================================
