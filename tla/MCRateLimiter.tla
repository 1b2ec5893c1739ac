--------------------------- MODULE MCRateLimiter ---------------------------
(* Small instances of RateLimiter for TLC: a token is 5 units and a second *)
(* adds 2, so that refills do not come in whole tokens.                    *)
EXTENDS RateLimiter
===========================================================================
