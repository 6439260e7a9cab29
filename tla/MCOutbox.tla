----------------------------- MODULE MCOutbox -----------------------------
(* Small instances of Outbox for TLC.                                      *)
EXTENDS Outbox, TLC

CONSTANTS e1, e2, w1, w2, c1, c2, k1, k2

\* One WORKER_ID per process, and the default one shared by both.
DistinctClaimants == [w \in Workers |-> IF w = w1 THEN k1 ELSE k2]
SharedClaimant    == [w \in Workers |-> k1]

\* One or two subscribers for every event.
OneConsumer  == [e \in Events |-> <<c1>>]
TwoConsumers == [e \in Events |-> <<c1, c2>>]
\* e1 has both subscribers, e2 none at all: it is completed unread.
MixedConsumers == [e \in Events |-> IF e = e1 THEN <<c1, c2>> ELSE <<>>]

AllSupported == {}
SecondUnsupported == {<<c2, e1>>}

AllFaults == {"crash", "stop", "slow", "db", "ack", "record"}
UniqueViolations == AllFaults \cup {"unique"}
=============================================================================
