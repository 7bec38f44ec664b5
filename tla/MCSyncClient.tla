---------------------------- MODULE MCSyncClient ----------------------------
(* One device enters two things, another one, about one record: a report the *)
(* first makes itself, or a task the server has.                             *)
EXTENDS SyncClient

CONSTANTS phone, tablet, task, report, text, a, b

MCDevice   == {phone, tablet}
Report     == {report}
Task       == {task}
TwoTexts   == {Null, a}
ThreeTexts == {Null, a, b}

MCPolicyOf ==
    [r \in Record |->
       [create |-> TRUE, change |-> "merge", reserved |-> {}, onlyWhile |-> NoGate,
        gateFrom |-> NoGate, start |-> [f \in Field |-> Null]]]

MCInitialRow ==
    [r \in Record |->
       IF r = report THEN NoRow
       ELSE [data |-> [f \in Field |-> Null], version |-> 1, deleted |-> FALSE]]

MCMakerOf   == [r \in Record \ {task} |-> phone]
MCMaxOps    == [d \in MCDevice |-> IF d = phone THEN 2 ELSE 1]
MCRefusable == {<<phone, 1>>}
=============================================================================
