----------------------------- MODULE RateLimit -----------------------------
(***************************************************************************)
(* rateLimit: a fixed window per key, in the memory of one process.  The   *)
(* code runs to its end without interruption, so a call is one action; a   *)
(* bucket stays until a call of its key finds its window over.             *)
(***************************************************************************)
EXTENDS Integers, Sequences

CONSTANTS
  Key,         \* what is limited: one use case and one user
  MaxCalls,    \* max: calls allowed in a window
  WindowMs,    \* windowMs
  MaxNow       \* bound: the last instant

ASSUME RateAssumption == MaxCalls \in Nat \ {0} /\ WindowMs \in Nat \ {0}

VARIABLES
  now,
  buckets,  \* buckets
  allowed   \* history: when the calls of each key went through

rateVars == <<now, buckets, allowed>>

NoBucket == [count |-> 0, resetAt |-> -1]

RateInit ==
  /\ now = 0
  /\ buckets = [k \in Key |-> NoBucket]
  /\ allowed = [k \in Key |-> <<>>]

(* Mutant: a bucket starts empty, as if its first call did not count.      *)
EmptyBucket == [count |-> 0, resetAt |-> now + WindowMs]

FreshBucket == [count |-> 1, resetAt |-> now + WindowMs]

Over(bucket) == bucket.resetAt < now

CallInNewWindow(k) ==
  /\ Over(buckets[k])
  /\ buckets' = [buckets EXCEPT ![k] = FreshBucket]
  /\ allowed' = [allowed EXCEPT ![k] = Append(@, now)]
  /\ UNCHANGED now

(* The counter goes up before it is compared.                              *)
CallInWindow(k) ==
  /\ ~Over(buckets[k])
  /\ buckets[k].count < MaxCalls
  /\ buckets' = [buckets EXCEPT ![k].count = @ + 1]
  /\ allowed' = [allowed EXCEPT ![k] = Append(@, now)]
  /\ UNCHANGED now

(* SPX-LIC-904; that the refused calls count too changes nothing.          *)
CallRefused(k) ==
  /\ ~Over(buckets[k])
  /\ buckets[k].count = MaxCalls
  /\ buckets' = [buckets EXCEPT ![k].count = @ + 1]
  /\ UNCHANGED <<now, allowed>>

Later == now < MaxNow /\ now' = now + 1 /\ UNCHANGED <<buckets, allowed>>

RateNext == (\E k \in Key : CallInNewWindow(k) \/ CallInWindow(k) \/ CallRefused(k)) \/ Later

RateSpec == RateInit /\ [][RateNext]_rateVars

-----------------------------------------------------------------------------
(* Of MaxCalls + 1 calls that went through one after the other, the last   *)
(* came more than a window after the one that opened the bucket of the     *)
(* first: among any 2 * MaxCalls + 1 calls, two are more than a window     *)
(* apart.  The fixed window lets twice the maximum through, never more.    *)
TwiceAtMost ==
  \A k \in Key : \A i, j \in DOMAIN allowed[k] :
    j - i >= 2 * MaxCalls => allowed[k][j] - allowed[k][i] > WindowMs

-----------------------------------------------------------------------------
(* "5 tentatives / minute": refuted, the end of a window and the start of  *)
(* the next one let through twice as many.                                 *)
OnceAtMost ==
  \A k \in Key : \A i, j \in DOMAIN allowed[k] :
    j - i >= MaxCalls => allowed[k][j] - allowed[k][i] > WindowMs
=============================================================================
