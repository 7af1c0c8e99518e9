------------------------------ MODULE RateLimit ------------------------------
(***************************************************************************)
(* The rate limit of src/HttpServer.hpp: one token bucket for each value   *)
(* of the header X-API-Key, created at the first request and never         *)
(* removed.  A bucket is read and changed under rate_mutex_, the clock is  *)
(* read there too, so that a request is one step.                          *)
(*                                                                         *)
(* The code counts in doubles: 100 tokens at most, one for a request,      *)
(* 100/60 for a second.  Here all three are whole numbers of a smaller     *)
(* unit, and time is a whole number of ticks; rounding is left out.        *)
(***************************************************************************)
EXTENDS Integers, Sequences

CONSTANTS
    HeaderKeys, \* values of the header X-API-Key
    ApiKey,     \* api_key_, the key of the single-tenant routes
    Burst,      \* MAX_TOKENS
    Cost,       \* what a request takes
    Rate,       \* REFILL_PER_SECOND, for a tick
    MaxTime     \* bound: the last tick

ASSUME RateAssumption ==
    /\ ApiKey \in HeaderKeys
    /\ {Cost, Burst, Rate, MaxTime} \subseteq Nat
    /\ Cost > 0 /\ Cost <= Burst

VARIABLES
    now,        \* the clock
    bucket,     \* rate_buckets_
    passed      \* history: when the requests with each key got through

rateVars == <<now, bucket, passed>>

\* A bucket that was not used yet.
Fresh == [tokens |-> Burst, last |-> 0]

RateInit ==
    /\ now = 1
    /\ bucket = [k \in HeaderKeys |-> Fresh]
    /\ passed = [k \in HeaderKeys |-> <<>>]

Lesser(a, b) == IF a <= b THEN a ELSE b

\* Mutant: a bucket grows without limit.
RefilledFreely(b) == IF b.last > 0 THEN b.tokens + Rate * (now - b.last) ELSE b.tokens

\* The tokens in a bucket by now.
Refilled(b) ==
    IF b.last > 0 THEN Lesser(Burst, b.tokens + Rate * (now - b.last)) ELSE b.tokens

\* consume: the time is kept in any case, a token is taken if there is one.
Consume(k) ==
    LET t == Refilled(bucket[k])
    IN  \/ /\ t < Cost
           /\ bucket' = [bucket EXCEPT ![k] = [tokens |-> t, last |-> now]]
           /\ UNCHANGED passed
        \/ /\ t >= Cost
           /\ bucket' = [bucket EXCEPT ![k] = [tokens |-> t - Cost, last |-> now]]
           /\ passed' = [passed EXCEPT ![k] = Append(@, now)]

\* authenticate, with which the single-tenant routes begin: a wrong key is refused
\* before it gets a bucket.
Authenticate(k) == k = ApiKey /\ Consume(k) /\ UNCHANGED now

\* The limit in handle_ingest, which comes before the key is looked up: any key.
LimitIngest(k) == Consume(k) /\ UNCHANGED now

Tick == now < MaxTime /\ now' = now + 1 /\ UNCHANGED <<bucket, passed>>

RateNext == (\E k \in HeaderKeys : Authenticate(k) \/ LimitIngest(k)) \/ Tick

RateSpec == RateInit /\ [][RateNext]_rateVars

-----------------------------------------------------------------------------
(* Properties *)

RateTypeOK ==
    /\ now \in Nat \ {0}
    /\ bucket \in [HeaderKeys -> [tokens : 0..Burst, last : Nat]]
    /\ passed \in [HeaderKeys -> Seq(Nat)]

\* Between any two requests with one key that got through, no more got through than
\* a full bucket and what has flowed in since the first of them pay for.  In the minute
\* in which an empty bucket fills that is twice what a full one pays for, 200 requests,
\* where the code's comment says "100 req/min" (HttpServer.hpp:71).
RateBound ==
    \A k \in HeaderKeys : \A i, j \in DOMAIN passed[k] :
        i <= j => (j - i + 1) * Cost <= Burst + Rate * (passed[k][j] - passed[k][i])
=============================================================================
