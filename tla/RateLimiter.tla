---------------------------- MODULE RateLimiter ----------------------------
(***************************************************************************)
(* The token buckets of one gateway, one for each remote address with its  *)
(* port (router.go wraps the limiter around authentication), and the       *)
(* goroutine that forgets buckets nobody used.                             *)
(***************************************************************************)
EXTENDS Naturals, Sequences

CONSTANTS Keys,
          Rate, Burst,  \* tokens for each unit of time; the size of a bucket
          Cleanup,      \* how long a bucket may rest, and how long cleanup sleeps
          MaxClock      \* bound: the units of time

\* router.go takes 100 and 200, and cleanup is a minute: a bucket is full when
\* it is forgotten.
ASSUME LimiterAssumption ==
  Rate \in Nat \ {0} /\ Burst \in Nat \ {0} /\ Cleanup \in Nat /\ Rate * Cleanup >= Burst

VARIABLES clock,
          visitors,  \* tokens and lastCheck of each key, if it is known
          swept,     \* when cleanup last ran
          admitted   \* history: when requests of each key were admitted

limiterVars == <<clock, visitors, swept, admitted>>

Visitor == [known : BOOLEAN, tokens : 0..Burst, lastCheck : 0..MaxClock]
Stranger == [known |-> FALSE, tokens |-> 0, lastCheck |-> 0]

LimiterInit ==
  /\ clock = 0 /\ swept = 0
  /\ visitors = [k \in Keys |-> Stranger]
  /\ admitted = [k \in Keys |-> <<>>]

Elapse ==
  /\ clock < MaxClock
  /\ clock' = clock + 1
  /\ UNCHANGED <<visitors, swept, admitted>>

\* Mutant: a bucket has no limit.
Unlimited(v) == v.tokens + (clock - v.lastCheck) * Rate

Refilled(v) ==
  LET tokens == v.tokens + (clock - v.lastCheck) * Rate IN
  IF tokens > Burst THEN Burst ELSE tokens

\* allow, under the mutex: a refused request refills the bucket as well.
Allow(k) ==
  LET tokens == IF visitors[k].known THEN Refilled(visitors[k]) ELSE Burst
      admits == tokens >= 1
  IN /\ visitors' = [visitors EXCEPT ![k] =
          [known |-> TRUE, tokens |-> IF admits THEN tokens - 1 ELSE tokens, lastCheck |-> clock]]
     /\ admitted' = [admitted EXCEPT ![k] = IF admits THEN Append(@, clock) ELSE @]
     /\ UNCHANGED <<clock, swept>>

CleanupVisitors ==
  /\ clock - swept >= Cleanup
  /\ swept' = clock
  /\ visitors' = [k \in Keys |-> IF clock - visitors[k].lastCheck > Cleanup
                                THEN Stranger ELSE visitors[k]]
  /\ UNCHANGED <<clock, admitted>>

LimiterNext == Elapse \/ CleanupVisitors \/ \E k \in Keys : Allow(k)

LimiterSpec == LimiterInit /\ [][LimiterNext]_limiterVars

\* Between any two admitted requests of a key no more were admitted than one
\* full bucket and what flowed in meanwhile, although buckets are forgotten.
WithinRate ==
  \A k \in Keys : \A i, j \in DOMAIN admitted[k] :
    i < j => j - i + 1 <= Burst + Rate * (admitted[k][j] - admitted[k][i])
=============================================================================
