---------------------------- MODULE RateLimiter ----------------------------
(***************************************************************************)
(* PostgresRateLimiter.check for one (route, client) key: the row is read, *)
(* the refill and the verdict are computed, and the row is created or      *)
(* written back, in three steps between which other requests, on this or   *)
(* another instance, and the clock go on.                                  *)
(***************************************************************************)
EXTENDS Naturals, FiniteSetsExt

CONSTANTS
    Requests,  \* the requests that can be in progress at once
    Capacity,  \* the bucket's size, in units
    Rate,      \* units added per second
    Cost,      \* units in a token
    MaxTime,   \* bound: seconds that are explored
    MaxGranted \* bound: grants that are explored

ASSUME RateLimiterAssumption ==
    /\ Cost \in Nat \ {0} /\ Rate \in Nat \ {0}
    /\ Capacity \in Nat /\ Capacity >= Cost
    /\ MaxTime \in Nat /\ MaxGranted \in Nat

VARIABLES
    bucket,  \* the rate_limit_buckets row, or NoRow
    now,     \* the clock
    req,     \* each request: the row it read and the row it will write
    \* What follows is only observed: no guard reads it.
    granted, \* requests let through
    promise, \* the last refusal: when to retry, and the grants it knew of
    overlap, \* a request began while another was in progress
    raced    \* an update replaced a row other than the one it was computed from

observed == <<granted, promise, overlap, raced>>
vars == <<bucket, now, req, observed>>

NoRow == [units |-> 0, lastRefill |-> MaxTime + 1]
Row == [units : 0..Capacity, lastRefill : 0..(MaxTime + 1)]

TypeOK ==
    /\ bucket \in Row
    /\ now \in 0..MaxTime
    /\ req \in [Requests -> [pc : {"idle", "decide", "create", "update"},
                             row : Row, next : Row, seen : Nat]]
    /\ granted \in Nat
    /\ promise \in [retryAt : Nat, granted : Nat]
    /\ {overlap, raced} \subseteq BOOLEAN

Idle == [pc |-> "idle", row |-> NoRow, next |-> NoRow, seen |-> 0]
Reading == [pc |-> "decide", row |-> bucket, next |-> NoRow, seen |-> granted]

Init ==
    /\ bucket = NoRow
    /\ now = 0
    /\ req = [r \in Requests |-> Idle]
    /\ granted = 0
    /\ promise = [retryAt |-> MaxTime + 1, granted |-> 0]
    /\ overlap = FALSE
    /\ raced = FALSE

Tick ==
    /\ now < MaxTime
    /\ now' = now + 1
    /\ UNCHANGED <<bucket, req, observed>>

\* find_unique
FindUnique(r) ==
    /\ req[r].pc = "idle"
    /\ granted < MaxGranted
    /\ req' = [req EXCEPT ![r] = Reading]
    /\ overlap' = (overlap \/ \E q \in Requests : req[q].pc # "idle")
    /\ UNCHANGED <<bucket, now, granted, promise, raced>>

\* min(capacity, tokens + elapsed * refill_per_second)
Refilled(units, elapsed) == Min({Capacity, units + elapsed * Rate})
Level(row, t) == IF row = NoRow THEN Capacity ELSE Refilled(row.units, t - row.lastRefill)

ConsumedKeepingClock(row) ==
    [units |-> Level(row, now) - Cost,
     lastRefill |-> IF row = NoRow THEN now ELSE row.lastRefill]

\* What is left after a token has been taken now.
Consumed(row) == [units |-> Level(row, now) - Cost, lastRefill |-> now]

\* tokens >= 1: the request will be let through once the row is written.
Admit(r) ==
    /\ req[r].pc = "decide"
    /\ Level(req[r].row, now) >= Cost
    /\ req' = [req EXCEPT ![r].pc = IF req[r].row = NoRow THEN "create" ELSE "update",
                          ![r].next = Consumed(req[r].row)]
    /\ UNCHANGED <<bucket, now, observed>>

RetryAfterTruncated(missing) == missing \div Rate

\* The Retry-After header: int(missing / refill_per_second) + 1.
RetryAfter(missing) == (missing \div Rate) + 1

\* The refusal writes nothing.
Deny(r) ==
    /\ req[r].pc = "decide"
    /\ Level(req[r].row, now) < Cost
    /\ req' = [req EXCEPT ![r] = Idle]
    /\ promise' = [retryAt |-> now + RetryAfter(Cost - Level(req[r].row, now)),
                   granted |-> req[r].seen]
    /\ UNCHANGED <<bucket, now, granted, overlap, raced>>

CreateRowOrAllow(r) ==
    /\ req[r].pc = "create"
    /\ bucket' = IF bucket = NoRow THEN req[r].next ELSE bucket
    /\ req' = [req EXCEPT ![r] = Idle]
    /\ granted' = granted + 1
    /\ UNCHANGED <<now, promise, overlap, raced>>

\* The first request creates the row.  A concurrent first request violates
\* the unique key, reads the row that now exists and consumes from that.
CreateRow(r) ==
    /\ req[r].pc = "create"
    /\ IF bucket = NoRow
       THEN /\ bucket' = req[r].next
            /\ req' = [req EXCEPT ![r] = Idle]
            /\ granted' = granted + 1
       ELSE /\ req' = [req EXCEPT ![r] = Reading]
            /\ UNCHANGED <<bucket, granted>>
    /\ UNCHANGED <<now, promise, overlap, raced>>

\* The update by key, whatever the row is by now.
UpdateRow(r) ==
    /\ req[r].pc = "update"
    /\ bucket' = req[r].next
    /\ req' = [req EXCEPT ![r] = Idle]
    /\ granted' = granted + 1
    /\ raced' = (raced \/ bucket # req[r].row)
    /\ UNCHANGED <<now, promise, overlap>>

Next ==
    \/ Tick
    \/ \E r \in Requests : FindUnique(r) \/ Admit(r) \/ Deny(r) \/ CreateRow(r) \/ UpdateRow(r)

Spec == Init /\ [][Next]_vars

---------------------------------------------------------------------------
(* Properties.                                                             *)

\* No more requests get through than the bucket held at first and has been
\* refilled with since, first requests that race to create the row included,
\* until an update replaces a row it had not read.  decisions.md:937 promises
\* an "inherently atomic" update, under which that could not happen.
WithinRate == ~raced => granted * Cost <= Capacity + Rate * now

\* Until two requests overlap, check() is the token bucket of rate_limit.py,
\* although a refusal writes nothing back ("No partial-refill progress is
\* lost").  A token is taken when the verdict is computed, not when it is
\* written.
Deciding == {r \in Requests : req[r].pc \in {"create", "update"}}
Latest == IF Deciding = {} THEN bucket ELSE req[CHOOSE r \in Deciding : TRUE].next
Bucket == INSTANCE TokenBucket
            WITH level <- Level(Latest, now), granted <- granted + Cardinality(Deciding)
ImplementsTokenBucket == Bucket!Init /\ [][overlap' \/ Bucket!Next]_(Bucket!bucketVars)

\* A client that waits as long as Retry-After says is let through, unless a
\* token was given to another request between the read behind the refusal and
\* the read of the retry: whatever else overlaps them, the time the header
\* names is enough to refill the row that both of them saw.
RetryAfterIsEnough ==
    [][\A r \in Requests :
         Deny(r) /\ now >= promise.retryAt => req[r].seen # promise.granted]_vars
===========================================================================
