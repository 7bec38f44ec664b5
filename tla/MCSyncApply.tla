----------------------------- MODULE MCSyncApply ----------------------------
(* A device makes a line under a draft, changes it and takes it back, and    *)
(* sends all of it twice; another changes a task, then makes a line under    *)
(* the same draft; a third changes the draft itself and another field of the *)
(* task, while the office fixes the draft.  `retitle` is a second change of  *)
(* what `edit` changes.                                                      *)
EXTENDS SyncApply

CONSTANTS text, note, status, a, b, c, draftState, fixedState,
          doc, line1, line2, task,
          make, change, erase, edit, add, remark, head, retitle,
          first, again, other, third

MCField  == {text, note, status}
MCValue  == {a, b, c, draftState, fixedState}
MCRecord == {doc, line1, line2, task}

Plain == [data |-> [f \in MCField |-> IF f = status THEN draftState ELSE a],
          version |-> 1, deleted |-> FALSE]

Draft == [field |-> status, values |-> {draftState}]

MCPolicyOf ==
    [r \in MCRecord |->
       [create |-> TRUE, change |-> "merge", reserved |-> {status},
        onlyWhile |-> IF r = doc THEN Draft ELSE NoGate,
        gateFrom  |-> IF r \in {line1, line2} THEN Draft ELSE NoGate,
        start |-> Plain.data]]

MCParentOf   == [r \in MCRecord |-> IF r \in {line1, line2} THEN doc ELSE NoRow]
MCInitialRow == [r \in MCRecord |-> IF r \in {line1, line2} THEN NoRow ELSE Plain]

Sets(field, value) == [f \in {field} |-> [from |-> a, to |-> value]]

Says(record, kind, base, patches) ==
    [rec |-> record, kind |-> kind, base |-> base, patches |-> patches]

MCOp == {make, change, erase, edit, add, remark, head}

MCOperation == [o \in MCOp \cup {retitle} |->
    CASE o = make    -> Says(line1, "create", NoVersion, Sets(text, a))
      [] o = change  -> Says(line1, "update", NoVersion, Sets(text, b))
      [] o = erase   -> Says(line1, "delete", NoVersion, <<>>)
      [] o = edit    -> Says(task, "update", 1, Sets(text, b))
      [] o = add     -> Says(line2, "create", NoVersion, Sets(text, b))
      [] o = remark  -> Says(task, "update", 1, Sets(note, b))
      [] o = head    -> Says(doc, "update", 1, Sets(text, b))
      [] o = retitle -> Says(task, "update", 1, Sets(text, c))]

MCSending == {first, again, other, third}
MCQueue   == [t \in MCSending |->
                CASE t = other -> <<edit, add>>
                  [] t = third -> <<head, remark>>
                  [] OTHER     -> <<make, change, erase>>]

\* Two devices that saw the same text and want different ones.
RacingOp      == {edit, retitle}
RacingSending == {other, third}
RacingQueue   == [t \in RacingSending |-> IF t = other THEN <<edit>> ELSE <<retitle>>]
=============================================================================
