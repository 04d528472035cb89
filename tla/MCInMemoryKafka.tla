-------------------------- MODULE MCInMemoryKafka --------------------------
(* An instance of InMemoryKafka for TLC.                                    *)
EXTENDS InMemoryKafka

CONSTANTS s1, s2

TwoSubscribers == {s1, s2}
============================================================================
