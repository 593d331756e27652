---------------------------- MODULE TaskQueueMC -----------------------------
(* Instances of TaskQueue: two tasks that compete for one target.          *)
EXTENDS TaskQueue, TLC

CONSTANTS t1, t2, s1, s2

MCTaskIds == {t1, t2}
MCOneTask == {t1}
MCSlots == {s1, s2}
MCOneSlot == {s1}
MCSymmetry == Permutations(MCTaskIds) \cup Permutations(MCSlots)
MCSlotSymmetry == Permutations(MCSlots)
=============================================================================
