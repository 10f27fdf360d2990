---------------------------- MODULE MCKafkaOffsets ----------------------------
EXTENDS KafkaOffsets, TLC
MCGarbage  == {1}
MCSlot     == 1..2
MCSymmetry == Permutations(Mgmt)
=============================================================================
