-------------------------- MODULE MCKafkaConsumer --------------------------
(* Instances of KafkaConsumer for TLC: partition <<t, i>> is partition i of  *)
(* topic t.                                                                  *)
EXTENDS KafkaConsumer

OneProcess == {"a"}
TwoProcesses == {"a", "b"}
OneTopic == {"orders"}
SinglePartition == {<<"orders", 0>>}
SingleTopicOf == [p \in SinglePartition |-> p[1]]
============================================================================
