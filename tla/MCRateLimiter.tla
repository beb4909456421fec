--------------------------- MODULE MCRateLimiter ---------------------------
(* An instance of RateLimiter for TLC: two addresses of one /24 (one of     *)
(* them written as IPv6) and one of a /64; a bucket of two tokens.          *)
EXTENDS RateLimiter

MCAddrs == { [form |-> "v4",     net |-> 1, host |-> 7],
             [form |-> "mapped", net |-> 1, host |-> 8],
             [form |-> "v6",     net |-> 1, host |-> 9] }

\* The last two days share their day of the year.
MCDays == { [yd |-> 1, year |-> 1], [yd |-> 2, year |-> 1], [yd |-> 1, year |-> 2] }
=============================================================================
