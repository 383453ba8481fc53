----------------------------- MODULE RateLimiter -----------------------------
(***************************************************************************)
(* The token bucket of --bwlimit (rsyncwire/ratelimit.go), shared by the   *)
(* reader and the writer of the client's connection.                       *)
(*                                                                         *)
(* The unit of time is the one in which one token is added, so that the    *)
(* bytes per second are both the rate and the capacity of the bucket       *)
(* (Burst).  What Wait does between Lock and Unlock is one step: nothing   *)
(* in it blocks.  Beyond MaxIdle units the time since the last replenish   *)
(* makes no difference, because the bucket is full.                        *)
(***************************************************************************)
EXTENDS Integers

CONSTANTS
  Callers,   \* who shares the limiter: the reader and the writer
  Burst,     \* bytesPerSec
  Sizes,     \* the sizes of their reads and writes
  MaxIdle,   \* bound: time since the last replenish that is told apart
  MaxCalls,  \* bound: calls of each caller
  Cancels    \* a context is passed, and it may be cancelled

Biggest == CHOOSE m \in Sizes \cup {Burst} : \A n \in Sizes \cup {Burst} : n <= m

ASSUME LimiterOK ==
  /\ Burst \in Nat \ {0}
  /\ Sizes \subseteq Nat \ {0}
  /\ Biggest \in Sizes \cup {Burst} /\ \A n \in Sizes \cup {Burst} : n <= Biggest
  /\ MaxIdle \in Nat /\ MaxIdle >= Biggest
  /\ MaxCalls \in Nat
  /\ Cancels \in BOOLEAN

VARIABLES
  tokens, maxTokens,
  idle,    \* time since lastReplenish
  pc,      \* of each caller: "out", "enter" (before Lock), "again" (woken), "sleep"
  need,    \* n, the bytes it waits for
  timer,   \* time until its timer fires
  calls,   \* calls it has made
  debt     \* what was granted, less one per unit of time (history)

limVars == <<tokens, maxTokens, idle, pc, need, timer, calls, debt>>

Init ==
  /\ tokens = Burst /\ maxTokens = Burst /\ idle = 0 /\ debt = 0
  /\ pc = [c \in Callers |-> "out"]
  /\ need = [c \in Callers |-> 0]
  /\ timer = [c \in Callers |-> 0]
  /\ calls = [c \in Callers |-> 0]

AtMost(n, m) == IF n > m THEN m ELSE n

\* A caller has n bytes to account for.
Call(c) ==
  /\ pc[c] = "out"
  /\ calls[c] < MaxCalls
  /\ \E n \in Sizes : need' = [need EXCEPT ![c] = n]
  /\ pc' = [pc EXCEPT ![c] = "enter"]
  /\ calls' = [calls EXCEPT ![c] = @ + 1]
  /\ UNCHANGED <<tokens, maxTokens, idle, timer, debt>>

\* A mistake to be caught: the bucket gets the size of the request, larger or
\* not.
CapacityOfLast(c) == IF pc[c] = "enter" THEN need[c] ELSE maxTokens

\* A request larger than the bucket makes it larger, when it comes in.
Capacity(c) ==
  IF pc[c] = "enter" /\ need[c] > maxTokens THEN need[c] ELSE maxTokens

Replenished(c) == AtMost(tokens + idle, Capacity(c))

Ready(c) == pc[c] \in {"enter", "again"}

\* A mistake to be caught: who was woken takes its tokens without a look.
GrantUnchecked(c) ==
  /\ Ready(c)
  /\ Replenished(c) >= need[c] \/ pc[c] = "again"
  /\ tokens' = Replenished(c) - need[c]
  /\ maxTokens' = IF Capacity(c) > Burst /\ tokens' < Burst THEN Burst ELSE Capacity(c)
  /\ idle' = 0
  /\ debt' = debt + need[c]
  /\ pc' = [pc EXCEPT ![c] = "out"]
  /\ UNCHANGED <<need, timer, calls>>

\* Enough tokens: they are taken, and the bucket gets its size back.
Grant(c) ==
  /\ Ready(c)
  /\ Replenished(c) >= need[c]
  /\ tokens' = Replenished(c) - need[c]
  /\ maxTokens' = IF Capacity(c) > Burst /\ tokens' < Burst THEN Burst ELSE Capacity(c)
  /\ idle' = 0
  /\ debt' = debt + need[c]
  /\ pc' = [pc EXCEPT ![c] = "out"]
  /\ UNCHANGED <<need, timer, calls>>

\* A mistake to be caught: lastReplenish is set only when tokens are taken.
FallAsleepUnstamped(c) ==
  /\ Ready(c)
  /\ Replenished(c) < need[c]
  /\ tokens' = Replenished(c)
  /\ maxTokens' = Capacity(c)
  /\ timer' = [timer EXCEPT ![c] = need[c] - Replenished(c)]
  /\ pc' = [pc EXCEPT ![c] = "sleep"]
  /\ UNCHANGED <<idle, need, calls, debt>>

\* Too few: it sleeps, unlocked, until there should be enough.
FallAsleep(c) ==
  /\ Ready(c)
  /\ Replenished(c) < need[c]
  /\ tokens' = Replenished(c)
  /\ maxTokens' = Capacity(c)
  /\ idle' = 0
  /\ timer' = [timer EXCEPT ![c] = need[c] - Replenished(c)]
  /\ pc' = [pc EXCEPT ![c] = "sleep"]
  /\ UNCHANGED <<need, calls, debt>>

Wake(c) ==
  /\ pc[c] = "sleep" /\ timer[c] = 0
  /\ pc' = [pc EXCEPT ![c] = "again"]
  /\ UNCHANGED <<tokens, maxTokens, idle, need, timer, calls, debt>>

\* ctx.Done: Wait returns without tokens, and leaves the bucket as large.
Cancel(c) ==
  /\ Cancels
  /\ pc[c] = "sleep"
  /\ pc' = [pc EXCEPT ![c] = "out"]
  /\ UNCHANGED <<tokens, maxTokens, idle, need, timer, calls, debt>>

Tick ==
  /\ idle' = AtMost(idle + 1, MaxIdle)
  /\ timer' = [c \in Callers |-> IF timer[c] = 0 THEN 0 ELSE timer[c] - 1]
  /\ debt' = IF debt = 0 THEN 0 ELSE debt - 1
  /\ UNCHANGED <<tokens, maxTokens, pc, need, calls>>

Step(c) == Call(c) \/ Grant(c) \/ FallAsleep(c) \/ Wake(c) \/ Cancel(c)

Next == Tick \/ \E c \in Callers : Step(c)

Spec == Init /\ [][Next]_limVars

\* Time passes, goroutines run, timers fire.
Fairness ==
  /\ WF_limVars(Tick)
  /\ \A c \in Callers :
       WF_limVars(Grant(c)) /\ WF_limVars(FallAsleep(c)) /\ WF_limVars(Wake(c))

FairSpec == Spec /\ Fairness
-----------------------------------------------------------------------------
\* The types: above all, that the bucket and the timers never go below zero.
TypeOK ==
  /\ {tokens, maxTokens, idle, debt} \subseteq Nat
  /\ pc \in [Callers -> {"out", "enter", "again", "sleep"}]
  /\ need \in [Callers -> Sizes \cup {0}]
  /\ timer \in [Callers -> Nat]
  /\ calls \in [Callers -> 0 .. MaxCalls]

\* The limit holds over every interval, not only from the start: in t units
\* of time the callers together get at most t tokens more than one bucket, of
\* the configured size or of the size of the largest single request.
RateRespected == debt <= Biggest

\* Nobody but c uses the limiter any more.
Alone(c) == \A d \in Callers \ {c} : pc[d] = "out" /\ calls[d] = MaxCalls

\* A Wait returns if its request fits the configured bucket, whatever the
\* other one asks for, and if nobody else uses the limiter, whatever its size:
\* the bucket grows for it, and who sleeps for missing tokens finds them, or
\* sleeps again.
WaitReturns ==
  \A c \in Callers :
    pc[c] = "enter" /\ (need[c] <= Burst \/ Alone(c)) ~> pc[c] = "out"

\* TESTING.md: a transfer under --bwlimit completes; so every Wait returns.
\* (The other caller's grant takes back the size the bucket was given.)
EveryWaitReturns == \A c \in Callers : pc[c] = "enter" ~> pc[c] = "out"
=============================================================================
