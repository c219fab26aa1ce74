---------------------------- MODULE MCRateLimiter ----------------------------
(* Instances of the rate limiter for TLC. *)
EXTENDS RateLimiter, TLC

Inherit == [rate |-> Unset, burst |-> 0]

Inheriting == {Inherit}

\* A key of its own rate and burst next to one that inherits.
Mixed == {Inherit, [rate |-> 1, burst |-> 2]}

ZeroRate == {[rate |-> 0, burst |-> 0]}

Symmetric == Permutations(Requests) \cup Permutations(IPs)
=============================================================================
