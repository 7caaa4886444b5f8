----------------------------- MODULE RetryDelay -----------------------------
(***************************************************************************)
(* crates/jobs/src/job.rs, RetryPolicy::delay_for: how long a failed job   *)
(* waits, in milliseconds, given the bottom byte of its id.                *)
(***************************************************************************)
EXTENDS Integers, FiniteSets, FiniteSetsExt

Seeds == 0..255

\* JobKind::policy
Policies ==
  [analysis   |-> [max_attempts |-> 3, base |-> 30000, max_backoff |-> 900000],
   extraction |-> [max_attempts |-> 5, base |-> 5000,  max_backoff |-> 300000],
   simulation |-> [max_attempts |-> 2, base |-> 15000, max_backoff |-> 300000],
   retention  |-> [max_attempts |-> 2, base |-> 60000, max_backoff |-> 3600000]]

\* The doubling stops at 2^16 and the delay at the ceiling: the smaller of
\* base * 2^exponent and max_backoff, without multiplying past the ceiling.
Scaled(policy, attempt) ==
  LET exponent == Min({IF attempt = 0 THEN 0 ELSE attempt - 1, 16}) IN
  IF 2 ^ exponent > policy.max_backoff \div policy.base THEN policy.max_backoff
  ELSE policy.base * (2 ^ exponent)

delay_for(policy, attempt, seed) ==
  LET millis == Scaled(policy, attempt)
      spread == millis \div 2
      offset == (seed * spread) \div 256
  IN Max({millis - (spread \div 2) + (offset \div 2), 1})

-----------------------------------------------------------------------------
InUse == {Policies[kind] : kind \in DOMAIN Policies}
\* One without a whole number of quarters, and one shorter than the jitter.
Small == {[max_attempts |-> 3, base |-> b, max_backoff |-> 7] : b \in {1, 3}}

(* A delay never leaves the quarter below its step, so it is never zero and  *)
(* never past the ceiling: the jitter only ever shortens a delay (the        *)
(* comment on delay_for promises a quarter to either side).                  *)
ASSUME JitterOnlyShortens ==
  \A policy \in InUse \cup Small, attempt \in 0..20, seed \in Seeds :
    LET step == Scaled(policy, attempt) IN
    /\ delay_for(policy, attempt, seed) \in 1..policy.max_backoff
    /\ delay_for(policy, attempt, seed) <= step
    /\ 4 * (delay_for(policy, attempt, seed) + 1) >= 3 * step

(* The same job waits at least as long after each further failure, and twice *)
(* as long as its shortest earlier wait until the ceiling is reached.        *)
ASSUME DelaysGrow ==
  \A policy \in InUse, attempt \in 1..19, seed \in Seeds :
    /\ delay_for(policy, attempt, seed) <= delay_for(policy, attempt + 1, seed)
    /\ Scaled(policy, attempt + 1) < policy.max_backoff
         => delay_for(policy, attempt + 1, seed) >= 2 * delay_for(policy, attempt, seed) - 2

(* Jobs that fail together do not come back together: two jobs whose ids     *)
(* differ in the last byte wait differently, after every attempt.            *)
ASSUME HerdIsBroken ==
  \A policy \in InUse, attempt \in 1..20 :
    Cardinality({delay_for(policy, attempt, seed) : seed \in Seeds}) = Cardinality(Seeds)
=============================================================================
