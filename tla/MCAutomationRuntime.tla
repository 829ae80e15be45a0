------------------------ MODULE MCAutomationRuntime ------------------------
(* Small instances of AutomationRuntime.                                    *)
EXTENDS AutomationRuntime, TLC

CONSTANTS o, b, n, d1, d2, d3, d4, m1, j1, r1, r2, r3, t1, t2

MCNone == {}
MCOneBeta == {b}
MCNames == {n}
MCPaces == {d3, d4}
MCMessageDefs == {d1, d3}
MCEveryKind == {d1, d2}
MCOneMessage == {m1}
MCLeavesAndMessage == {m1, r1, r2}
MCEachKind == {m1, j1, r1}
MCOneTask == {t1}
MCTwoTasks == {t1, t2}
MCTaskSymmetry == Permutations(MCTwoTasks)
MCKind == [k \in Keys |-> CASE k = j1 -> "member_join"
                            [] k \in {r1, r2, r3} -> "member_remove"
                            [] OTHER -> "message_create"]

\* d1 answers a message and then changes a role; d2 greets a member and gives a
\* role, and says goodbye; d3 changes a role for a message and says goodbye,
\* and so does d4 at a shorter distance.
MCSteps == [d \in Defs |-> [k \in Keys |->
  CASE d = d1 /\ k = m1 -> <<"send_message", "role">>
    [] d = d2 /\ k = j1 -> <<"send_message", "role">>
    [] d = d2 /\ k = r1 -> <<"send_message">>
    [] d \in {d3, d4} /\ k = m1 -> <<"role">>
    [] d \in {d3, d4} /\ k \in {r1, r2, r3} -> <<"send_message">>
    [] OTHER -> <<>>]]
MCCooldown == [d \in Defs |-> CASE d = d2 -> 0 [] d = d4 -> 1 [] OTHER -> 2]
=============================================================================
