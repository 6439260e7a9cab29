--------------------------- MODULE MCIdempotency ---------------------------
(***************************************************************************)
(* Five requests: a client that sends one guarded command twice and its    *)
(* key once more with another body, a rival with a key of its own for the  *)
(* same version of the record, and a follower that expects the version     *)
(* after it.                                                               *)
(***************************************************************************)
EXTENDS Idempotency

CONSTANTS first, resend, reused, rival, follower, k1, k2, k3, x, body, other

MCRequests == {first, resend, reused, rival, follower}

Ask(k, p, rec, v) == [key |-> k, print |-> p, record |-> rec, expects |-> v]

MCAsks == [r \in MCRequests |->
             CASE r \in {first, resend} -> Ask(k1, body, x, 1)
               [] r = reused -> Ask(k1, other, None, 0)
               [] r = rival -> Ask(k2, body, x, 1)
               [] r = follower -> Ask(k3, body, x, 2)]
=============================================================================
