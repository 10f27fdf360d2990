---------------------------- MODULE MCKafkaRecycle ----------------------------
EXTENDS KafkaRecycle
CONSTANTS t1, t2
MCTopic == {t1, t2}
MCFirstTopic == {t1}
=============================================================================
