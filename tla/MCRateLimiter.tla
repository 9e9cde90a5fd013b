---------------------------- MODULE MCRateLimiter ----------------------------
(* A small instance of RateLimiter for TLC: one user of one tenant, and an *)
(* address behind a trusted proxy.                                         *)
EXTENDS RateLimiter, TLC

CONSTANTS a1, a2, u1, t1

MCTenantOf == [u \in {u1} |-> t1]
MCChains == {<<>>, <<a1, a2>>, <<"unknown", a2>>}

(* Bursts of one request or two, with prices that round up to different    *)
(* numbers of seconds.                                                     *)
MCLimit ==
    [p \in Limited |->
        IF p[1] = "ip" THEN [capacity |-> 2, price |-> 1]
        ELSE IF p[1] = "user" THEN [capacity |-> 2, price |-> 2]
        ELSE [capacity |-> 3, price |-> 3]]
=============================================================================
