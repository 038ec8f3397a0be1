-------------------------- MODULE RpcClientProofs --------------------------
(***************************************************************************)
(* The rate bound of the shared token bucket, and what the retry loop makes *)
(* of a call, for any number of workers, any rate and any answers.          *)
(***************************************************************************)
EXTENDS RpcClient, FiniteSetTheorems, SequenceTheorems, TLAPS

\* Every stretch that ends now: what it sent and what the bucket still holds is
\* at most a burst and what the rate refilled. RateRespected says nothing of the
\* tokens left, and is not inductive without them.
TokensAccounted ==
  \A i \in DOMAIN sent :
    (Len(sent) - i + 1) * Cost + tokens <= Capacity + (last - sent[i]) * Rate

RateInv == BucketTypeOK /\ TokensAccounted /\ RateRespected

\* The bucket is at least one token deep: --rps below 1 still lets a request by.
LEMMA CapacityHoldsAToken == Capacity \in Nat /\ Capacity >= Cost /\ Cost > 0 /\ Rate > 0
BY RatesAssumption DEF Capacity

\* A refill never exceeds what the elapsed time is worth.
LEMMA RefillBounded ==
  ASSUME BucketTypeOK
  PROVE  /\ (now - last) * Rate \in Nat
         /\ Refilled \in 0 .. Capacity
         /\ Refilled <= tokens + (now - last) * Rate
<1>1. (now - last) * Rate \in Nat
  <2>1. now - last \in Nat  BY DEF BucketTypeOK
  <2>2. Rate \in Nat  BY RatesAssumption
  <2> QED  BY <2>1, <2>2
<1> QED  BY <1>1, CapacityHoldsAToken DEF Refilled, Smaller, BucketTypeOK

\* The refill keeps the account: the stretch is longer by now - last ticks.
LEMMA RefillAccounted ==
  ASSUME BucketTypeOK, TokensAccounted, NEW i \in DOMAIN sent
  PROVE  (Len(sent) - i + 1) * Cost + Refilled <= Capacity + (now - sent[i]) * Rate
<1> DEFINE s == sent[i]
           spent == (Len(sent) - i + 1) * Cost
<1>1. s \in Nat /\ last \in Nat /\ now \in Nat /\ Rate \in Nat
  BY RatesAssumption DEF BucketTypeOK
<1>2. i \in Nat /\ Len(sent) \in Nat /\ spent \in Int
  BY RatesAssumption DEF BucketTypeOK
<1>3. (now - s) * Rate = (last - s) * Rate + (now - last) * Rate
  <2>1. \A x, y, z, r \in Nat : (z - x) * r = (y - x) * r + (z - y) * r
    OBVIOUS
  <2> HIDE DEF s
  <2> QED  BY <1>1, <2>1
<1>4. spent + tokens <= Capacity + (last - s) * Rate
  BY DEF TokensAccounted
<1>5. (last - s) * Rate \in Int
  <2> HIDE DEF s
  <2> QED  BY <1>1
<1>6. tokens \in Int /\ Capacity \in Int
  BY CapacityHoldsAToken DEF BucketTypeOK
<1>7. spent + Refilled <= Capacity + (now - s) * Rate
  <2> HIDE DEF s, spent
  <2> QED  BY <1>2, <1>3, <1>4, <1>5, <1>6, RefillBounded
<1> QED  BY <1>7

\* What a stretch costs, and what it earns, are numbers.
LEMMA StretchCosts ==
  ASSUME NEW n \in Nat, NEW i \in Nat, NEW s \in Nat, NEW t \in Nat
  PROVE  (n - i + 1) * Cost \in Int /\ (t - s) * Rate \in Int
<1>1. Cost \in Int /\ Rate \in Int /\ n - i + 1 \in Int /\ t - s \in Int
  BY RatesAssumption
<1>2. \A x, y \in Int : x * y \in Int
  OBVIOUS
<1> QED  BY <1>1, <1>2

LEMMA RateInit == Init => RateInv
BY CapacityHoldsAToken DEF Init, RateInv, BucketTypeOK, TokensAccounted, RateRespected

LEMMA TickKeepsRate == RateInv /\ (Tick \/ TimeUp) => RateInv'
BY TimeAssumption DEF Tick, TimeUp, RateInv, BucketTypeOK, TokensAccounted, RateRespected,
   bucket, calls, vars

LEMMA AwaitKeepsRate == ASSUME NEW w \in Workers PROVE RateInv /\ AwaitToken(w) => RateInv'
<1> SUFFICES ASSUME RateInv, AwaitToken(w) PROVE RateInv'
  OBVIOUS
<1> USE DEF RateInv
<1>1. tokens' = Refilled /\ last' = now /\ now' = now /\ sent' = sent
  BY DEF AwaitToken
<1>2. BucketTypeOK'
  BY <1>1, RefillBounded DEF BucketTypeOK
<1>3. TokensAccounted'
  BY <1>1, RefillAccounted DEF TokensAccounted
<1>4. RateRespected'
  BY <1>1 DEF RateRespected
<1> QED  BY <1>2, <1>3, <1>4

LEMMA TakeKeepsRate == ASSUME NEW w \in Workers PROVE RateInv /\ TakeToken(w) => RateInv'
<1> SUFFICES ASSUME RateInv, TakeToken(w) PROVE RateInv'
  OBVIOUS
<1> USE DEF RateInv
<1> DEFINE n == Len(sent)
<1>1. /\ tokens' = Refilled - Cost /\ Refilled >= Cost
      /\ last' = now /\ now' = now /\ sent' = Append(sent, now)
  BY DEF TakeToken
<1>2. /\ sent \in Seq(Nat) /\ n \in Nat /\ now \in Nat
      /\ Cost \in Nat /\ Rate \in Nat /\ Capacity \in Nat /\ Refilled \in Nat
  BY RatesAssumption, CapacityHoldsAToken, RefillBounded DEF BucketTypeOK
<1>3. /\ Len(sent') = n + 1 /\ DOMAIN sent' = 1 .. (n + 1)
      /\ sent'[n + 1] = now
      /\ \A i \in 1 .. n : sent'[i] = sent[i]
  BY <1>1, <1>2
<1>4. BucketTypeOK'
  <2>1. sent' \in Seq(0 .. now)
    BY <1>1 DEF BucketTypeOK
  <2>2. tokens' \in 0 .. Capacity
    BY <1>1, <1>2, CapacityHoldsAToken, RefillBounded
  <2> QED  BY <1>1, <1>2, <2>1, <2>2 DEF BucketTypeOK
<1>5. ASSUME NEW i \in DOMAIN sent'
      PROVE  (n + 1 - i + 1) * Cost + tokens' <= Capacity + (now - sent'[i]) * Rate
  <2>1. CASE i = n + 1
    <3>1. (now - sent'[i]) * Rate = 0  BY <1>2, <1>3, <2>1
    <3>2. (n + 1 - i + 1) * Cost = Cost  BY <1>2, <2>1
    <3>3. Cost + tokens' <= Capacity
      <4>1. Refilled <= Capacity  BY RefillBounded
      <4>2. Refilled \in Nat /\ Cost \in Nat /\ Capacity \in Nat  BY <1>2
      <4> QED  BY <1>1, <4>1, <4>2
    <3>4. Capacity + 0 = Capacity  BY <1>2
    <3> QED  BY <3>1, <3>2, <3>3, <3>4
  <2>2. CASE i \in 1 .. n
    <3>1. (n - i + 1) * Cost + Refilled <= Capacity + (now - sent[i]) * Rate
      BY <2>2, <1>2, RefillAccounted
    <3>2. (n + 1 - i + 1) * Cost = (n - i + 1) * Cost + Cost
      <4> HIDE DEF n
      <4> QED  BY <1>2, <2>2
    <3>3. (n - i + 1) * Cost \in Int /\ (now - sent[i]) * Rate \in Int
      <4>1. sent[i] \in Nat /\ i \in Nat  BY <1>2, <2>2
      <4> HIDE DEF n
      <4> QED  BY <1>2, <4>1, StretchCosts
    <3>4. sent'[i] = sent[i]  BY <1>3, <2>2
    <3>5. tokens' = Refilled - Cost  BY <1>1
    <3>6. Cost \in Int /\ Capacity \in Int /\ Refilled \in Int  BY <1>2
    <3> DEFINE old == (n - i + 1) * Cost
               new == (n + 1 - i + 1) * Cost
               refill == (now - sent[i]) * Rate
    <3>7. new + tokens' <= Capacity + refill
      <4> HIDE DEF old, new, refill
      <4> SUFFICES new = old + Cost /\ old + Refilled <= Capacity + refill
                   /\ old \in Int /\ refill \in Int
        BY <3>5, <3>6
      <4> QED  BY <3>1, <3>2, <3>3 DEF old, new, refill
    <3> QED  BY <3>4, <3>7
  <2> QED  BY <1>2, <1>3, <2>1, <2>2
<1>6. TokensAccounted'
  BY <1>1, <1>3, <1>5 DEF TokensAccounted
<1>7. RateRespected'
  <2> SUFFICES ASSUME NEW i \in DOMAIN sent', NEW j \in DOMAIN sent', i <= j
               PROVE  (j - i + 1) * Cost <= Capacity + (sent'[j] - sent'[i]) * Rate
    BY CapacityHoldsAToken DEF RateRespected
  <2>1. CASE j = n + 1
    <3>1. (n + 1 - i + 1) * Cost + tokens' <= Capacity + (now - sent'[i]) * Rate
      BY <1>5
    <3>2. (n + 1 - i + 1) * Cost \in Int /\ (now - sent'[i]) * Rate \in Int
      <4>1. sent'[i] \in Nat /\ i \in Nat  BY <1>2, <1>3
      <4>2. n + 1 \in Nat  BY <1>2
      <4> HIDE DEF n
      <4> QED  BY <1>2, <4>1, <4>2, StretchCosts
    <3>3. tokens' >= 0 /\ tokens' \in Int  BY <1>1, <1>2
    <3> DEFINE spent == (n + 1 - i + 1) * Cost
               earned == (now - sent'[i]) * Rate
    <3>4. spent <= Capacity + earned
      <4>1. spent + tokens' <= Capacity + earned /\ spent \in Int /\ earned \in Int
        BY <3>1, <3>2
      <4>2. \A x, y, t, c \in Int : t >= 0 /\ x + t <= c + y => x <= c + y
        OBVIOUS
      <4>3. Capacity \in Int  BY <1>2
      <4> HIDE DEF spent, earned
      <4> QED  BY <3>3, <4>1, <4>2, <4>3
    <3>5. sent'[j] = now  BY <1>3, <2>1
    <3>6. (j - i + 1) * Cost = spent /\ (sent'[j] - sent'[i]) * Rate = earned
      <4>1. (j - i + 1) * Cost = spent
        <5>1. i \in Nat /\ n \in Nat  BY <1>2, <1>3
        <5> HIDE DEF n
        <5>2. j - i + 1 = n + 1 - i + 1  BY <2>1, <5>1
        <5> QED  BY <5>2, Zenon
      <4>2. (sent'[j] - sent'[i]) * Rate = earned
        BY <3>5, Zenon
      <4> QED  BY <4>1, <4>2
    <3> HIDE DEF spent, earned
    <3> QED  BY <3>4, <3>6
  <2>2. CASE j \in 1 .. n
    <3>1. i \in 1 .. n  BY <1>2, <1>3, <2>2
    <3>2. sent'[i] = sent[i] /\ sent'[j] = sent[j] /\ DOMAIN sent = 1 .. n
      BY <1>2, <1>3, <2>2, <3>1
    <3>3. (j - i + 1) * Cost <= Capacity + (sent[j] - sent[i]) * Rate
      BY <2>2, <3>1, <3>2 DEF RateRespected
    <3> QED  BY <3>2, <3>3
  <2> QED  BY <1>2, <1>3, <2>1, <2>2
<1> QED  BY <1>4, <1>6, <1>7

LEMMA RateStep == RateInv /\ [Next]_vars => RateInv'
<1> SUFFICES ASSUME RateInv, [Next]_vars PROVE RateInv'
  OBVIOUS
<1>1. CASE Tick \/ TimeUp
  BY <1>1, TickKeepsRate
<1>2. ASSUME NEW w \in Workers, Step(w) PROVE RateInv'
  <2>1. CASE TakeToken(w)  BY <2>1, TakeKeepsRate
  <2>2. CASE AwaitToken(w)  BY <2>2, AwaitKeepsRate
  <2>3. CASE Call(w) \/ Wake(w) \/ \E a \in Answers : Answered(w, a)
    <3>1. UNCHANGED <<now, bucket, sent>>
      BY <2>3 DEF Call, Wake, Answered
    <3> QED
      BY <3>1 DEF RateInv, BucketTypeOK, TokensAccounted, RateRespected, bucket
  <2> QED  BY <1>2, <2>1, <2>2, <2>3 DEF Step
<1>3. CASE UNCHANGED vars
  BY <1>3 DEF vars, RateInv, BucketTypeOK, TokensAccounted, RateRespected, bucket
<1> QED  BY <1>1, <1>2, <1>3 DEF Next

\* Whatever the number of workers and however they retry, no stretch of time
\* sees more requests than a burst and the rate allow (RateLimiter::acquire).
THEOREM RateNeverExceeded == Spec => []RateRespected
<1>1. RateInv => RateRespected
  BY DEF RateInv
<1> QED  BY RateInit, RateStep, <1>1, PTL DEF Spec
-----------------------------------------------------------------------------
(* Type correctness                                                         *)

\* 1 << n, counted as the subsets of n things.
LEMMA PowerOfTwo == ASSUME NEW n \in Nat PROVE 2 ^ n \in Nat
<1>1. IsFiniteSet(1 .. n) /\ Cardinality(1 .. n) = n
  BY FS_Interval
<1>2. IsFiniteSet(SUBSET (1 .. n)) /\ Cardinality(SUBSET (1 .. n)) = 2 ^ n
  BY <1>1, FS_SUBSET
<1> QED  BY <1>2, FS_CardinalityType

\* A back-off is a time, and at least its certain half.
LEMMA BackoffBounded ==
  ASSUME NEW k \in Nat
  PROVE  /\ Exp(k) \div 2 \in Nat
         /\ \A d \in Backoff(k) : d \in Nat /\ d >= Exp(k) \div 2
<1>1. Smaller(k, 6) \in Nat
  BY DEF Smaller
<1>2. 2 ^ Smaller(k, 6) \in Nat
  BY <1>1, PowerOfTwo
<1>3. Base * (2 ^ Smaller(k, 6)) \in Nat
  BY <1>2, BackoffAssumption
<1>4. Exp(k) \in Nat
  BY <1>3, BackoffAssumption DEF Exp, Smaller
<1>5. ASSUME NEW x \in Nat
      PROVE  x \div 2 \in Nat
  OBVIOUS
<1>6. Exp(k) \div 2 \in Nat
  BY <1>4, <1>5
<1> QED  BY <1>6 DEF Backoff

\* A worker that finds no token sleeps for a time.
LEMMA WaitIsATime ==
  ASSUME BucketTypeOK, Refilled < Cost
  PROVE  TokenWait(Refilled) \in Nat
<1>1. Refilled \in Nat /\ Cost \in Nat /\ Rate \in Nat \ {0}
  BY RefillBounded, CapacityHoldsAToken, RatesAssumption
<1>2. Cost - Refilled + Rate - 1 \in Nat
  BY <1>1
<1>3. ASSUME NEW x \in Nat, NEW r \in Nat \ {0}
      PROVE  x \div r \in Nat
  OBVIOUS
<1> QED  BY <1>1, <1>2, <1>3 DEF TokenWait

CallerState == [pc : {"idle", "acquire", "sleep", "inFlight"}, until : Nat]

LEMMA TypeInit == Init => TypeOK
<1> SUFFICES ASSUME Init PROVE TypeOK
  OBVIOUS
<1>1. BucketTypeOK
  BY RateInit DEF RateInv
<1>2. now <= MaxTime
  BY TimeAssumption DEF Init
<1>3. CallsTypeOK
  BY BackoffAssumption DEF Init, CallsTypeOK, Awake
<1> QED  BY <1>1, <1>2, <1>3 DEF TypeOK

\* A worker whose call goes on or ends: what Retry and Return leave.
LEMMA AnswerTaken ==
  ASSUME BucketTypeOK, CallsTypeOK, NEW w \in Workers, NEW a \in Answers, Answered(w, a)
  PROVE  \/ /\ a \in Transient /\ attempt[w] + 1 < MaxAttempts
            /\ \E d \in Backoff(attempt[w] + 1) :
                 caller' = [caller EXCEPT ![w] = Asleep("sleep", now + d)]
            /\ attempt' = [attempt EXCEPT ![w] = @ + 1]
            /\ outcome' = outcome
         \/ \E r \in {"block", "skipped", "failed"} :
              /\ caller' = [caller EXCEPT ![w] = Awake("idle")]
              /\ attempt' = attempt
              /\ outcome' = [outcome EXCEPT ![w] = r]
              /\ r = "failed" => a \in Permanent \/ attempt[w] + 1 >= MaxAttempts
<1>1. CASE a \in Transient
  <2>1. Retry(w)
    BY <1>1 DEF Answered, Transient, SlotSkipped, Permanent
  <2>2. CASE attempt[w] + 1 < MaxAttempts
    BY <1>1, <2>1, <2>2 DEF Retry
  <2>3. CASE ~(attempt[w] + 1 < MaxAttempts)
    <3>1. Return(w, "failed")
      BY <2>1, <2>3 DEF Retry
    <3>2. attempt[w] + 1 >= MaxAttempts
      BY <2>3, BackoffAssumption DEF CallsTypeOK
    <3> QED  BY <3>1, <3>2 DEF Return
  <2> QED  BY <2>2, <2>3
<1>2. CASE a \in SlotSkipped
  <2>1. Return(w, "skipped")
    BY <1>2 DEF Answered, Transient, SlotSkipped, Permanent
  <2> QED  BY <2>1 DEF Return
<1>3. CASE a \in Permanent
  <2>1. Return(w, "failed")
    BY <1>3 DEF Answered, Transient, SlotSkipped, Permanent
  <2> QED  BY <1>3, <2>1 DEF Return
<1>4. CASE a = "block"
  <2>1. Return(w, "block")
    BY <1>4 DEF Answered, Transient, SlotSkipped, Permanent
  <2> QED  BY <2>1 DEF Return
<1> QED  BY <1>1, <1>2, <1>3, <1>4 DEF Answers

LEMMA CallsStep ==
  ASSUME RateInv, TypeOK, NEW w \in Workers, Step(w)
  PROVE  CallsTypeOK'
<1> USE DEF TypeOK
<1>1. BucketTypeOK /\ CallsTypeOK /\ now \in Nat
  BY DEF BucketTypeOK
<1>2. /\ caller \in [Workers -> CallerState]
      /\ attempt \in [Workers -> 0 .. (MaxAttempts - 1)]
      /\ answer \in [Workers -> Answers \cup {"none"}]
      /\ outcome \in [Workers -> {"none", "block", "skipped", "failed"}]
      /\ tries \in [Workers -> Seq(0 .. now)]
  BY <1>1 DEF CallsTypeOK, CallerState
<1>3. /\ \A pc \in {"idle", "acquire", "inFlight"} : Awake(pc) \in CallerState
      /\ \A t \in Nat : Asleep("sleep", t) \in CallerState
  BY DEF Awake, Asleep, CallerState
<1>4. now' = now
  BY DEF Step, Call, TakeToken, AwaitToken, Wake, Answered
<1>5. CASE Call(w)
  <2>1. caller' \in [Workers -> CallerState]
    BY <1>2, <1>3, <1>5 DEF Call
  <2>2. attempt' \in [Workers -> 0 .. (MaxAttempts - 1)]
    BY <1>2, <1>5, BackoffAssumption DEF Call
  <2>3. /\ answer' \in [Workers -> Answers \cup {"none"}]
        /\ outcome' \in [Workers -> {"none", "block", "skipped", "failed"}]
    BY <1>2, <1>5 DEF Call
  <2>4. tries' \in [Workers -> Seq(0 .. now)]
    <3> DEFINE none == <<>>
    <3>1. none \in Seq(0 .. now)
      OBVIOUS
    <3>2. tries' = [tries EXCEPT ![w] = none]
      BY <1>5 DEF Call
    <3> HIDE DEF none
    <3> QED  BY <1>2, <3>1, <3>2
  <2> QED  BY <1>4, <2>1, <2>2, <2>3, <2>4 DEF CallsTypeOK, CallerState
<1>6. CASE TakeToken(w)
  <2>1. tries[w] \in Seq(0 .. now) /\ now \in 0 .. now
    BY <1>1, <1>2
  <2>2. Append(tries[w], now) \in Seq(0 .. now)
    BY <2>1
  <2>3. tries' \in [Workers -> Seq(0 .. now)]
    BY <1>2, <1>6, <2>2 DEF TakeToken
  <2> QED  BY <1>2, <1>3, <1>4, <1>6, <2>3 DEF TakeToken, CallsTypeOK, CallerState
<1>7. CASE AwaitToken(w)
  <2>1. now + TokenWait(Refilled) \in Nat
    BY <1>1, <1>7, WaitIsATime DEF AwaitToken
  <2> QED  BY <1>2, <1>3, <1>4, <1>7, <2>1 DEF AwaitToken, CallsTypeOK, CallerState
<1>8. CASE Wake(w)
  BY <1>2, <1>3, <1>4, <1>8 DEF Wake, CallsTypeOK, CallerState
<1>9. ASSUME NEW a \in Answers, Answered(w, a)
      PROVE  CallsTypeOK'
  <2>1. answer' \in [Workers -> Answers \cup {"none"}] /\ tries' = tries
    BY <1>2, <1>9 DEF Answered
  <2>2. CASE /\ attempt[w] + 1 < MaxAttempts
             /\ \E d \in Backoff(attempt[w] + 1) :
                  caller' = [caller EXCEPT ![w] = Asleep("sleep", now + d)]
             /\ attempt' = [attempt EXCEPT ![w] = @ + 1]
             /\ outcome' = outcome
    <3>1. attempt[w] + 1 \in 0 .. (MaxAttempts - 1) /\ attempt[w] + 1 \in Nat
      BY <1>2, <2>2, BackoffAssumption
    <3>2. attempt' \in [Workers -> 0 .. (MaxAttempts - 1)]
      BY <1>2, <2>2, <3>1
    <3>3. PICK d \in Backoff(attempt[w] + 1) :
             caller' = [caller EXCEPT ![w] = Asleep("sleep", now + d)]
      BY <2>2
    <3>4. now + d \in Nat
      BY <1>1, <3>1, <3>3, BackoffBounded
    <3>5. caller' \in [Workers -> CallerState]
      BY <1>2, <1>3, <3>3, <3>4
    <3> QED  BY <1>2, <1>4, <2>1, <2>2, <3>2, <3>5 DEF CallsTypeOK, CallerState
  <2>3. CASE \E r \in {"block", "skipped", "failed"} :
               /\ caller' = [caller EXCEPT ![w] = Awake("idle")]
               /\ attempt' = attempt
               /\ outcome' = [outcome EXCEPT ![w] = r]
    <3>1. caller' \in [Workers -> CallerState]
      BY <1>2, <1>3, <2>3
    <3>2. outcome' \in [Workers -> {"none", "block", "skipped", "failed"}]
      BY <1>2, <2>3
    <3>3. attempt' = attempt
      BY <2>3
    <3> QED  BY <1>2, <1>4, <2>1, <3>1, <3>2, <3>3 DEF CallsTypeOK, CallerState
  <2> QED  BY <1>1, <1>9, <2>2, <2>3, AnswerTaken
<1> QED  BY <1>5, <1>6, <1>7, <1>8, <1>9 DEF Step

LEMMA TypeStep == RateInv /\ TypeOK /\ [Next]_vars => TypeOK'
<1> SUFFICES ASSUME RateInv, TypeOK, [Next]_vars PROVE TypeOK'
  OBVIOUS
<1>1. BucketTypeOK'
  BY RateStep DEF RateInv
<1>2. CASE Tick
  <2>1. now \in Nat /\ now' = now + 1 /\ now' <= MaxTime
    BY <1>2, TimeAssumption DEF Tick, TypeOK, BucketTypeOK
  <2>2. tries' \in [Workers -> Seq(0 .. now')]
    <3>1. 0 .. now \subseteq 0 .. now'
      BY <2>1
    <3>2. ASSUME NEW s \in Seq(0 .. now)
          PROVE  s \in Seq(0 .. now')
      BY <3>1, SeqMonotonic
    <3>3. tries' = tries /\ tries \in [Workers -> Seq(0 .. now)]
      BY <1>2 DEF Tick, TypeOK, CallsTypeOK
    <3> QED  BY <3>2, <3>3
  <2> QED  BY <1>1, <1>2, <2>1, <2>2 DEF Tick, TypeOK, CallsTypeOK, calls
<1>3. ASSUME NEW w \in Workers, Step(w)
      PROVE  TypeOK'
  <2>1. now' = now
    BY <1>3 DEF Step, Call, TakeToken, AwaitToken, Wake, Answered
  <2> QED  BY <1>1, <1>3, <2>1, CallsStep DEF TypeOK
<1>4. CASE TimeUp \/ UNCHANGED vars
  BY <1>1, <1>4 DEF TimeUp, vars, calls, TypeOK, CallsTypeOK
<1> QED  BY <1>2, <1>3, <1>4 DEF Next

\* The bucket is never overfilled or overdrawn, and every call stays within its
\* attempts, however the workers interleave.
THEOREM RpcTypeCorrect == Spec => []TypeOK
<1>1. Init => RateInv /\ TypeOK
  BY RateInit, TypeInit
<1>2. RateInv /\ TypeOK /\ [Next]_vars => (RateInv /\ TypeOK)'
  BY RateStep, TypeStep
<1> QED  BY <1>1, <1>2, PTL DEF Spec
-----------------------------------------------------------------------------
(* The requests of a call                                                   *)

\* A call has sent a request for every attempt it has behind it, and one more
\* while it waits for an answer; it has no result before it returns.
InCall(w) ==
  /\ caller[w].pc \in {"acquire", "sleep"} => Len(tries[w]) = attempt[w]
  /\ caller[w].pc = "inFlight" => Len(tries[w]) = attempt[w] + 1
  /\ caller[w].pc # "idle" => outcome[w] = "none"
  /\ Len(tries[w]) <= MaxAttempts

\* When w may ask for its next token.
ReadyAt(w) == IF caller[w].pc = "sleep" THEN caller[w].until ELSE now

\* Whatever it sleeps for, it is not ready before its back-off is over.
BackedOff(w) ==
  caller[w].pc \in {"acquire", "sleep"} /\ attempt[w] > 0 =>
    ReadyAt(w) - tries[w][attempt[w]] >= Exp(attempt[w]) \div 2

Spaced(w) ==
  \A k \in 1 .. (Len(tries[w]) - 1) : tries[w][k + 1] - tries[w][k] >= Exp(k) \div 2

Explained(w) ==
  outcome[w] = "failed" => answer[w] \in Permanent \/ Len(tries[w]) = MaxAttempts

CallInv(w) == InCall(w) /\ BackedOff(w) /\ Spaced(w) /\ Explained(w)

CallsInv == \A w \in Workers : CallInv(w)

LEMMA CallsInvInit == Init => CallsInv
<1> SUFFICES ASSUME Init, NEW w \in Workers PROVE CallInv(w)
  BY DEF CallsInv
<1>1. /\ caller[w].pc = "idle" /\ outcome[w] = "none" /\ tries[w] = <<>>
      /\ attempt[w] = 0
  BY DEF Init, Awake
<1>2. Len(tries[w]) = 0 /\ MaxAttempts \in Nat \ {0}
  BY <1>1, BackoffAssumption
<1> QED  BY <1>1, <1>2 DEF CallInv, InCall, BackedOff, Spaced, Explained

\* What a step of one worker leaves of another's call.
LEMMA OtherCalls ==
  ASSUME TypeOK, NEW w \in Workers, Step(w), NEW v \in Workers, v # w
  PROVE  /\ now' = now /\ caller'[v] = caller[v] /\ attempt'[v] = attempt[v]
         /\ answer'[v] = answer[v] /\ outcome'[v] = outcome[v] /\ tries'[v] = tries[v]
<1>1. /\ caller \in [Workers -> CallerState] /\ DOMAIN attempt = Workers
      /\ DOMAIN answer = Workers /\ DOMAIN outcome = Workers /\ DOMAIN tries = Workers
  BY DEF TypeOK, CallsTypeOK, CallerState
<1>2. CASE Call(w) \/ TakeToken(w) \/ AwaitToken(w) \/ Wake(w)
  BY <1>1, <1>2 DEF Call, TakeToken, AwaitToken, Wake
<1>3. ASSUME NEW a \in Answers, Answered(w, a)
      PROVE  /\ now' = now /\ caller'[v] = caller[v] /\ attempt'[v] = attempt[v]
             /\ answer'[v] = answer[v] /\ outcome'[v] = outcome[v] /\ tries'[v] = tries[v]
  <2>1. now' = now /\ answer'[v] = answer[v] /\ tries'[v] = tries[v]
    BY <1>1, <1>3 DEF Answered
  <2> QED  BY <1>1, <1>3, <2>1, AnswerTaken DEF TypeOK
<1> QED  BY <1>2, <1>3 DEF Step

LEMMA OwnCall ==
  ASSUME TypeOK, TypeOK', CallsInv, NEW w \in Workers, Step(w)
  PROVE  CallInv(w)'
<1>1. /\ caller \in [Workers -> CallerState]
      /\ attempt \in [Workers -> 0 .. (MaxAttempts - 1)]
      /\ DOMAIN answer = Workers /\ DOMAIN outcome = Workers
      /\ tries \in [Workers -> Seq(0 .. now)] /\ tries[w] \in Seq(0 .. now)
      /\ now \in Nat /\ MaxAttempts \in Nat \ {0}
  BY BackoffAssumption DEF TypeOK, BucketTypeOK, CallsTypeOK, CallerState
<1> DEFINE n == Len(tries[w])
           a == attempt[w]
<1>2. n \in Nat /\ a \in Nat /\ a + 1 <= MaxAttempts
      /\ \A k \in 1 .. n : tries[w][k] \in 0 .. now
  BY <1>1
<1>3. InCall(w) /\ BackedOff(w) /\ Spaced(w) /\ Explained(w)
  BY DEF CallsInv, CallInv
<1>4. CASE Call(w)
  <2>1. /\ caller'[w].pc = "acquire" /\ attempt'[w] = 0 /\ outcome'[w] = "none"
        /\ tries'[w] = <<>>
    BY <1>1, <1>4 DEF Call, Awake
  <2>2. Len(tries'[w]) = 0
    BY <2>1
  <2> QED
    BY <1>1, <2>1, <2>2 DEF CallInv, InCall, BackedOff, Spaced, Explained
<1>5. CASE TakeToken(w)
  <2>1. /\ caller[w].pc = "acquire" /\ caller'[w].pc = "inFlight"
        /\ attempt'[w] = a /\ outcome'[w] = outcome[w]
        /\ tries'[w] = Append(tries[w], now)
    BY <1>1, <1>5 DEF TakeToken, Awake
  <2>2. n = a /\ outcome[w] = "none"
    BY <1>3, <2>1 DEF InCall
  <2>3. /\ Len(tries'[w]) = n + 1 /\ tries'[w][n + 1] = now
        /\ \A k \in 1 .. n : tries'[w][k] = tries[w][k]
    BY <1>1, <2>1
  <2>4. ASSUME NEW k \in 1 .. n
        PROVE  tries'[w][k + 1] - tries'[w][k] >= Exp(k) \div 2
    <3>1. CASE k = n
      <4>1. now - tries[w][n] >= Exp(n) \div 2
        BY <1>2, <1>3, <2>1, <2>2, <3>1 DEF BackedOff, ReadyAt
      <4> QED  BY <2>3, <3>1, <4>1
    <3>2. CASE k # n
      <4>1. k \in 1 .. (n - 1) /\ k + 1 \in 1 .. n
        BY <1>2, <3>2
      <4> QED  BY <1>3, <2>3, <4>1 DEF Spaced
    <3> QED  BY <3>1, <3>2
  <2>5. Spaced(w)'
    BY <1>2, <2>3, <2>4 DEF Spaced
  <2> HIDE DEF n, a
  <2> QED
    BY <1>2, <2>1, <2>2, <2>3, <2>5 DEF CallInv, InCall, BackedOff, Explained
<1>6. CASE AwaitToken(w)
  <2>1. TokenWait(Refilled) \in Nat
    BY <1>6, WaitIsATime DEF AwaitToken, TypeOK
  <2>2. /\ caller[w].pc = "acquire" /\ caller'[w].pc = "sleep"
        /\ caller'[w].until = now + TokenWait(Refilled)
        /\ attempt'[w] = a /\ outcome'[w] = outcome[w] /\ tries'[w] = tries[w]
        /\ answer'[w] = answer[w]
    BY <1>1, <1>6 DEF AwaitToken, Asleep
  <2>3. BackedOff(w)'
    <3>1. SUFFICES ASSUME a > 0
                   PROVE  caller'[w].until - tries[w][a] >= Exp(a) \div 2
      BY <2>2 DEF BackedOff, ReadyAt
    <3>2. now - tries[w][a] >= Exp(a) \div 2
      BY <1>3, <2>2, <3>1 DEF BackedOff, ReadyAt
    <3>3. tries[w][a] \in Nat /\ Exp(a) \div 2 \in Nat
      <4>1. a = n
        BY <1>3, <2>2 DEF InCall
      <4> HIDE DEF n, a
      <4> QED  BY <1>2, <3>1, <4>1, BackoffBounded
    <3> QED  BY <1>1, <2>1, <2>2, <3>2, <3>3
  <2> QED
    BY <1>3, <2>2, <2>3 DEF CallInv, InCall, Spaced, Explained
<1>7. CASE Wake(w)
  <2>1. /\ caller[w].pc = "sleep" /\ caller'[w].pc = "acquire" /\ caller[w].until <= now
        /\ attempt'[w] = a /\ outcome'[w] = outcome[w] /\ tries'[w] = tries[w]
        /\ answer'[w] = answer[w] /\ now' = now
    BY <1>1, <1>7 DEF Wake, Awake
  <2>2. BackedOff(w)'
    <3>1. SUFFICES ASSUME a > 0
                   PROVE  now - tries[w][a] >= Exp(a) \div 2
      BY <2>1 DEF BackedOff, ReadyAt
    <3>2. caller[w].until - tries[w][a] >= Exp(a) \div 2
      BY <1>3, <2>1, <3>1 DEF BackedOff, ReadyAt
    <3>3. tries[w][a] \in Nat /\ Exp(a) \div 2 \in Nat /\ caller[w].until \in Nat
      <4>1. a = n
        BY <1>3, <2>1 DEF InCall
      <4> QED  BY <1>1, <1>2, <3>1, <4>1, BackoffBounded DEF CallerState
    <3> QED  BY <1>1, <2>1, <3>2, <3>3
  <2> QED
    BY <1>3, <2>1, <2>2 DEF CallInv, InCall, Spaced, Explained
<1>8. ASSUME NEW ans \in Answers, Answered(w, ans)
      PROVE  CallInv(w)'
  <2>1. /\ caller[w].pc = "inFlight" /\ answer'[w] = ans /\ tries' = tries /\ now' = now
    BY <1>1, <1>8 DEF Answered
  <2>2. n = a + 1 /\ outcome[w] = "none"
    BY <1>3, <2>1 DEF InCall
  <2>3. CASE /\ ans \in Transient /\ a + 1 < MaxAttempts
             /\ \E d \in Backoff(a + 1) :
                  caller' = [caller EXCEPT ![w] = Asleep("sleep", now + d)]
             /\ attempt' = [attempt EXCEPT ![w] = @ + 1]
             /\ outcome' = outcome
    <3>1. PICK d \in Backoff(a + 1) :
             caller' = [caller EXCEPT ![w] = Asleep("sleep", now + d)]
      BY <2>3
    <3>2. /\ caller'[w].pc = "sleep" /\ caller'[w].until = now + d
          /\ attempt'[w] = a + 1 /\ outcome'[w] = "none"
      BY <1>1, <2>2, <2>3, <3>1 DEF Asleep
    <3>3. d \in Nat /\ d >= Exp(a + 1) \div 2 /\ Exp(a + 1) \div 2 \in Nat
      BY <1>2, <3>1, BackoffBounded
    <3>4. tries[w][a + 1] \in Nat /\ tries[w][a + 1] <= now
      BY <1>2, <2>2
    <3>5. (now + d) - tries[w][a + 1] >= Exp(a + 1) \div 2
      BY <1>1, <3>3, <3>4
    <3>6. BackedOff(w)'
      BY <2>1, <3>2, <3>5 DEF BackedOff, ReadyAt
    <3> QED
      BY <1>2, <1>3, <2>1, <2>2, <3>2, <3>6 DEF CallInv, InCall, Spaced, Explained
  <2>4. CASE \E r \in {"block", "skipped", "failed"} :
               /\ caller' = [caller EXCEPT ![w] = Awake("idle")]
               /\ attempt' = attempt
               /\ outcome' = [outcome EXCEPT ![w] = r]
               /\ r = "failed" => ans \in Permanent \/ a + 1 >= MaxAttempts
    <3>1. caller'[w].pc = "idle"
      BY <1>1, <2>4 DEF Awake
    <3>2. outcome'[w] = "failed" => ans \in Permanent \/ a + 1 >= MaxAttempts
      BY <1>1, <2>4
    <3>3. n <= MaxAttempts /\ (a + 1 >= MaxAttempts => n = MaxAttempts)
      BY <1>1, <1>2, <2>2
    <3> QED
      BY <1>3, <2>1, <3>1, <3>2, <3>3 DEF CallInv, InCall, BackedOff, Spaced, Explained
  <2> QED  BY <1>8, <2>3, <2>4, AnswerTaken DEF TypeOK
<1> QED  BY <1>4, <1>5, <1>6, <1>7, <1>8 DEF Step

LEMMA CallsInvStep ==
  ASSUME TypeOK, TypeOK', CallsInv, [Next]_vars
  PROVE  CallsInv'
<1>1. ASSUME NEW w \in Workers, Step(w)
      PROVE  CallsInv'
  <2>1. ASSUME NEW v \in Workers, v # w
        PROVE  CallInv(v)'
    <3>1. CallInv(v)
      BY DEF CallsInv
    <3>2. /\ now' = now /\ caller'[v] = caller[v] /\ attempt'[v] = attempt[v]
          /\ answer'[v] = answer[v] /\ outcome'[v] = outcome[v] /\ tries'[v] = tries[v]
      BY <1>1, <2>1, OtherCalls
    <3> QED
      BY <3>1, <3>2 DEF CallInv, InCall, BackedOff, ReadyAt, Spaced, Explained
  <2> QED  BY <1>1, <2>1, OwnCall DEF CallsInv
<1>2. CASE Tick
  <2>1. SUFFICES ASSUME NEW w \in Workers PROVE CallInv(w)'
    BY DEF CallsInv
  <2>2. /\ now' = now + 1 /\ now \in Nat /\ caller' = caller /\ attempt' = attempt
        /\ answer' = answer /\ outcome' = outcome /\ tries' = tries
    BY <1>2 DEF Tick, calls, TypeOK, BucketTypeOK
  <2>3. CallInv(w)
    BY DEF CallsInv
  <2>4. BackedOff(w)'
    <3>1. CASE caller[w].pc = "acquire" /\ attempt[w] > 0
      <4>1. now - tries[w][attempt[w]] >= Exp(attempt[w]) \div 2
        BY <2>3, <3>1 DEF CallInv, BackedOff, ReadyAt
      <4>2. tries[w][attempt[w]] \in Nat /\ attempt[w] \in Nat
        <5>1. Len(tries[w]) = attempt[w]
          BY <2>3, <3>1 DEF CallInv, InCall
        <5>2. tries[w] \in Seq(0 .. now)
          BY DEF TypeOK, CallsTypeOK
        <5> QED  BY <2>2, <3>1, <5>1, <5>2
      <4>3. Exp(attempt[w]) \div 2 \in Nat
        BY <4>2, BackoffBounded
      <4>4. (now + 1) - tries[w][attempt[w]] >= Exp(attempt[w]) \div 2
        BY <2>2, <4>1, <4>2, <4>3
      <4> QED  BY <2>2, <3>1, <4>4 DEF BackedOff, ReadyAt
    <3>2. CASE ~(caller[w].pc = "acquire" /\ attempt[w] > 0)
      BY <2>2, <2>3, <3>2 DEF CallInv, BackedOff, ReadyAt
    <3> QED  BY <3>1, <3>2
  <2> QED  BY <2>2, <2>3, <2>4 DEF CallInv, InCall, Spaced, Explained
<1>3. CASE TimeUp \/ UNCHANGED vars
  BY <1>3 DEF TimeUp, vars, calls, CallsInv, CallInv, InCall, BackedOff, ReadyAt, Spaced, Explained
<1> QED  BY <1>1, <1>2, <1>3 DEF Next

RpcInv == RateInv /\ TypeOK /\ CallsInv

LEMMA RpcInit == Init => RpcInv
BY RateInit, TypeInit, CallsInvInit DEF RpcInv

LEMMA RpcStep == RpcInv /\ [Next]_vars => RpcInv'
BY RateStep, TypeStep, CallsInvStep DEF RpcInv

\* However long a worker waits for tokens in between, the requests of a call are at
\* most MaxAttempts and each comes after the back-off of the one before.
THEOREM RetriesBackOff == Spec => []RetriesSpaced
<1>1. RpcInv => RetriesSpaced
  BY DEF RpcInv, CallsInv, CallInv, InCall, Spaced, RetriesSpaced
<1> QED  BY RpcInit, RpcStep, <1>1, PTL DEF Spec

\* No call fails but for an answer that says so or for having asked MaxAttempts
\* times.
THEOREM NoFailureWithoutReason == Spec => []FailureExplained
<1>1. RpcInv => FailureExplained
  BY DEF RpcInv, CallsInv, CallInv, Explained, FailureExplained
<1> QED  BY RpcInit, RpcStep, <1>1, PTL DEF Spec
=============================================================================
