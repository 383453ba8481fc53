-------------------------- MODULE RateLimiterProof --------------------------
(***************************************************************************)
(* The limit of RateLimiter holds for any callers, rate and request sizes. *)
(*                                                                         *)
(* While something is owed (debt > 0), a unit of time lowers the debt and  *)
(* raises what the bucket is due by the same amount, and a grant moves     *)
(* tokens into debt: their sum never exceeds the largest bucket.           *)
(***************************************************************************)
EXTENDS RateLimiter, TLAPS

Ledger ==
  /\ tokens <= maxTokens /\ maxTokens <= Biggest
  /\ debt > 0 => debt + tokens + idle <= Biggest

LInv == TypeOK /\ Ledger

\* No request, and not the bucket itself, is larger than Biggest.
LEMMA SizesBounded ==
  /\ Biggest \in Nat /\ Burst \in Nat /\ Burst <= Biggest
  /\ \A n \in Sizes : n \in Nat /\ n <= Biggest
  BY LimiterOK

\* What a caller finds in the bucket when it has the lock.
LEMMA BucketFacts ==
  ASSUME LInv, NEW c \in Callers
  PROVE  /\ need[c] \in Nat /\ Capacity(c) \in Nat /\ Replenished(c) \in Nat
         /\ Capacity(c) <= Biggest
         /\ Replenished(c) <= Capacity(c) /\ Replenished(c) <= tokens + idle
<1>1. need[c] \in Sizes \cup {0} /\ maxTokens \in Nat /\ maxTokens <= Biggest
      /\ tokens \in Nat /\ idle \in Nat
  BY DEF LInv, TypeOK, Ledger
<1>2. need[c] \in Nat /\ need[c] <= Biggest
  BY <1>1, SizesBounded
<1>3. Capacity(c) \in Nat /\ Capacity(c) <= Biggest
  BY <1>1, <1>2 DEF Capacity
<1> QED BY <1>1, <1>2, <1>3 DEF Replenished, AtMost

\* Every step of a caller and of the clock keeps the books balanced.
LEMMA LedgerStep == LInv /\ [Next]_limVars => LInv'
<1> SUFFICES ASSUME LInv, [Next]_limVars PROVE LInv'
  OBVIOUS
<1>1. tokens \in Nat /\ maxTokens \in Nat /\ idle \in Nat /\ debt \in Nat
  BY DEF LInv, TypeOK
<1>2. CASE UNCHANGED limVars
  BY <1>2 DEF limVars, LInv, TypeOK, Ledger
<1>3. CASE Tick
  <2>1. idle' \in Nat /\ idle' <= idle + 1 /\ tokens' = tokens /\ maxTokens' = maxTokens
    BY <1>1, <1>3, LimiterOK DEF Tick, AtMost
  <2>2. debt' \in Nat /\ (debt' > 0 => debt' = debt - 1)
    BY <1>1, <1>3 DEF Tick
  <2>3. Ledger'
    <3>1. debt > 0 => debt + tokens + idle <= Biggest
      BY DEF LInv, Ledger
    <3>2. debt' > 0 => debt' + tokens' + idle' <= Biggest
      <4> SUFFICES ASSUME debt' > 0 PROVE debt' + tokens' + idle' <= Biggest
        OBVIOUS
      <4>1. debt' \in Nat /\ debt' = debt - 1
        BY <2>2
      <4>2. debt + tokens + idle <= Biggest /\ Biggest \in Nat
        BY <1>1, <3>1, <4>1, SizesBounded
      <4>3. ASSUME NEW j \in Nat, j <= idle + 1
            PROVE  (debt - 1) + tokens + j <= Biggest
        BY <1>1, <4>2, <4>3
      <4> QED BY <2>1, <4>1, <4>3
    <3> QED BY <2>1, <3>2 DEF LInv, Ledger
  <2>4. timer' \in [Callers -> Nat]
    BY <1>3 DEF Tick, LInv, TypeOK
  <2> QED BY <1>1, <1>3, <2>1, <2>2, <2>3, <2>4 DEF Tick, LInv, TypeOK
<1>4. ASSUME NEW c \in Callers, Grant(c)
      PROVE  LInv'
  <2>1. /\ need[c] \in Nat /\ Capacity(c) \in Nat /\ Replenished(c) \in Nat
        /\ Capacity(c) <= Biggest
        /\ Replenished(c) <= Capacity(c) /\ Replenished(c) <= tokens + idle
    BY BucketFacts
  <2>2. /\ tokens' \in Nat /\ tokens' + need[c] = Replenished(c)
        /\ idle' = 0 /\ debt' = debt + need[c]
    BY <1>4, <2>1 DEF Grant
  <2>3. /\ maxTokens' = Capacity(c) \/ (maxTokens' = Burst /\ tokens' < Burst)
    BY <1>4 DEF Grant
  <2>4. tokens' <= maxTokens' /\ maxTokens' \in Nat /\ maxTokens' <= Biggest
    BY <2>1, <2>2, <2>3, SizesBounded
  <2>5. debt' + tokens' + idle' <= Biggest
    <3>1. debt' + tokens' + idle' = debt + Replenished(c)
      BY <1>1, <2>1, <2>2
    <3>2. CASE debt = 0
      BY <2>1, <3>1, <3>2, SizesBounded
    <3>3. CASE debt > 0
      BY <1>1, <2>1, <3>1, <3>3, SizesBounded DEF LInv, Ledger
    <3> QED BY <1>1, <3>2, <3>3
  <2>6. /\ pc' \in [Callers -> {"out", "enter", "again", "sleep"}]
        /\ UNCHANGED <<need, timer, calls>>
    BY <1>4 DEF Grant, LInv, TypeOK
  <2> QED BY <1>1, <2>1, <2>2, <2>4, <2>5, <2>6 DEF LInv, TypeOK, Ledger
<1>5. ASSUME NEW c \in Callers, FallAsleep(c)
      PROVE  LInv'
  <2>1. /\ need[c] \in Nat /\ Capacity(c) \in Nat /\ Replenished(c) \in Nat
        /\ Capacity(c) <= Biggest
        /\ Replenished(c) <= Capacity(c) /\ Replenished(c) <= tokens + idle
    BY BucketFacts
  <2>2. /\ tokens' = Replenished(c) /\ maxTokens' = Capacity(c) /\ idle' = 0
        /\ UNCHANGED <<debt, need, calls>>
    BY <1>5 DEF FallAsleep
  <2>3. Ledger'
    BY <1>1, <2>1, <2>2, SizesBounded DEF LInv, Ledger
  <2>4. need[c] - Replenished(c) \in Nat
    BY <1>5, <2>1 DEF FallAsleep
  <2>5. /\ timer' \in [Callers -> Nat]
        /\ pc' \in [Callers -> {"out", "enter", "again", "sleep"}]
    BY <1>5, <2>4 DEF FallAsleep, LInv, TypeOK
  <2> QED BY <2>1, <2>2, <2>3, <2>5 DEF LInv, TypeOK
<1>6. ASSUME NEW c \in Callers, Call(c)
      PROVE  LInv'
  <2>1. calls[c] \in 0 .. MaxCalls /\ calls[c] < MaxCalls
    BY <1>6 DEF Call, LInv, TypeOK
  <2>2. calls[c] + 1 \in 0 .. MaxCalls
    BY <2>1, LimiterOK
  <2> QED BY <1>6, <2>2 DEF Call, LInv, TypeOK, Ledger
<1>7. ASSUME NEW c \in Callers, Wake(c) \/ Cancel(c)
      PROVE  LInv'
  BY <1>7 DEF Wake, Cancel, LInv, TypeOK, Ledger
<1> QED BY <1>2, <1>3, <1>4, <1>5, <1>6, <1>7 DEF Next, Step

\* Neither the bucket nor a timer ever goes below zero, for any number of
\* concurrent readers and writers.
THEOREM LimiterTypeCorrect == Spec => []TypeOK
<1>1. Init => LInv
  BY SizesBounded, LimiterOK DEF Init, LInv, TypeOK, Ledger
<1>2. LInv => TypeOK
  BY DEF LInv
<1> QED BY <1>1, <1>2, LedgerStep, PTL DEF Spec

\* The bandwidth limit of --bwlimit holds over every interval, for any number
\* of concurrent readers and writers and any sizes of their requests.
THEOREM LimitHolds == Spec => []RateRespected
<1>1. Init => LInv
  BY SizesBounded, LimiterOK DEF Init, LInv, TypeOK, Ledger
<1>2. LInv => RateRespected
  BY SizesBounded DEF LInv, TypeOK, Ledger, RateRespected
<1> QED BY <1>1, <1>2, LedgerStep, PTL DEF Spec
=============================================================================
