---------------------------- MODULE MCToolLedger ----------------------------
EXTENDS ToolLedger, TLC

CallSymmetry == Permutations(Calls)
=============================================================================
