--------------------------- MODULE MCRetryClock ---------------------------
(* An instance of RetryClock for TLC.                                       *)
EXTENDS RetryClock

Powers == [n \in 0..MaxExponent |-> 2 ^ n]
Delays(base, max, jitter) == [base_delay_ms |-> base, max_delay_ms |-> max, jitter |-> jitter]

\* No backoff; a capped and an uncapped one; one of more than half the word.
SomePolicies ==
    {Delays(0, 5, TRUE), Delays(3, 13, FALSE), Delays(5, 0, TRUE), Delays(20, 0, FALSE)}

=============================================================================
