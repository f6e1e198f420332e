---------------------------- MODULE MCReports ----------------------------
(* An instance of Reports for TLC.                                          *)
EXTENDS Reports, TLC

CONSTANTS a, b, u, r, NULL

Default == [max_attempts |-> 2, retryable |-> {"transient"}, terminal |-> {}]
Policies == {Default}
Errors == {[failure_class |-> "transient", retryable |-> "unset"]}
NoDelay(policy, attempt) == {0}

I(digest, category) == [digest |-> digest, category |-> category]
\* Nothing, one input, both in either order, and a repeated one between.
Requests ==
    {<<>>, <<I(a, "easy")>>, <<I(b, "hard"), I(a, "hard")>>,
     <<I(a, NULL), I(b, "easy"), I(a, "easy")>>}

=============================================================================
