---------------------------- MODULE TokenBucket ----------------------------
(***************************************************************************)
(* What a rate limiter promises: the token bucket of rate_limit.py, whose  *)
(* check-and-consume is one step under a lock.  A token is Cost units and  *)
(* Rate units are added per second, so that per_minute_config(m) is        *)
(* Cost = 60, Rate = m, Capacity = 60 * m.                                 *)
(***************************************************************************)
EXTENDS Naturals, FiniteSetsExt

CONSTANTS
    Capacity, \* the bucket's size, in units
    Rate,     \* units added per second
    Cost      \* units in a token

VARIABLES
    level,   \* the units in the bucket, refilled up to now
    now,     \* seconds since the bucket was first used
    granted  \* requests let through so far

bucketVars == <<level, now, granted>>

\* min(capacity, tokens + elapsed * refill_per_second)
Refilled(units, elapsed) == Min({Capacity, units + elapsed * Rate})

Init == level = Capacity /\ now = 0 /\ granted = 0

Tick ==
    /\ now' = now + 1
    /\ level' = Refilled(level, 1)
    /\ UNCHANGED granted

\* try_consume; a request that is refused leaves the level as it is.
TryConsume ==
    /\ level >= Cost
    /\ level' = level - Cost
    /\ granted' = granted + 1
    /\ UNCHANGED now

Next == Tick \/ TryConsume

Spec == Init /\ [][Next]_bucketVars
===========================================================================
