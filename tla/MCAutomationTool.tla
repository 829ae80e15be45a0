-------------------------- MODULE MCAutomationTool --------------------------
(* Small instances of AutomationTool.                                       *)
EXTENDS AutomationTool, TLC

CONSTANTS o, b, n1, n2, d1, d2, c1, c2

MCNone == {}
MCBetas == {b}
MCOneName == {n1}
MCTwoNames == {n1, n2}
MCOneDef == {d1}
MCCalls == {c1, c2}
MCSymmetry == Permutations(MCCalls)
=============================================================================
