---------------------------- MODULE ConversionMC ----------------------------
(* One task, and two files on either side of the conversion.               *)
EXTENDS Conversion, TLC

CONSTANTS t1, o1, o2, n1, n2

MCTaskIds == {t1}
MCOld == {o1, o2}
MCNew == {n1, n2}
MCSymmetry == Permutations(MCOld) \cup Permutations(MCNew)
=============================================================================
