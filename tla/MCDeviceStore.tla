--------------------------- MODULE MCDeviceStore ----------------------------
(* Tasks are narrowed to the person, suppliers are not; the older version   *)
(* of the application does not know suppliers.                              *)
EXTENDS DeviceStore

CONSTANTS k1, s1, tasks, suppliers, old, new, t1, t2, x, y, z

MCRow       == {k1, s1}
MCEntity    == {tasks, suppliers}
MCEntityOf  == [r \in MCRow |-> IF r = s1 THEN suppliers ELSE tasks]
MCNarrowed  == {tasks}
MCScope     == [MCNarrowed -> Text]
MCStandsFor == [u \in Text |-> CASE u = x -> {{}, {k1}} [] u = y -> {{}} [] u = z -> {{k1}}]
MCKnows     == [b \in Build |-> IF b = old THEN {tasks} ELSE {tasks, suppliers}]
=============================================================================
