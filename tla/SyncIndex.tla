------------------------------- MODULE SyncIndex -------------------------------
(***************************************************************************)
(* What an index promises, whatever maintains it: one step of a statement  *)
(* writes the row and its member together.  A member is <<value, pk,       *)
(* stamp>>, the stamp being the version that wrote the value.  A row that  *)
(* expires leaves its member behind (the read path filters it).  Neither   *)
(* NULL nor the empty string has a member: the log does not tell them      *)
(* apart.  Once sound is FALSE nothing is promised.                        *)
(***************************************************************************)
EXTENDS Naturals

CONSTANTS Pks, Values, None, Empty

VARIABLES row, idx, sound

NoRow == [ver |-> 0, val |-> None, iv |-> 0]
MemberOf(p, r) == IF r.val \in {None, Empty} THEN {} ELSE {<<r.val, p, r.iv>>}

Init == row = [p \in Pks |-> NoRow] /\ idx = {} /\ sound = TRUE

\* v = None: the column is NULL.
Write(p, v) ==
    /\ row' = [row EXCEPT ![p] = [ver |-> @.ver + 1, val |-> v, iv |-> IF @.val = v THEN @.iv ELSE @.ver + 1]]
    /\ idx' = (idx \ MemberOf(p, row[p])) \cup MemberOf(p, row'[p])

Delete(p) ==
    /\ row' = [row EXCEPT ![p] = NoRow]
    /\ idx' = idx \ MemberOf(p, row[p])

Expire(p) == row' = [row EXCEPT ![p] = NoRow] /\ UNCHANGED idx

Next ==
    \/ sound /\ sound' /\ \E p \in Pks : Delete(p) \/ Expire(p) \/ \E v \in Values \cup {None} : Write(p, v)
    \/ ~sound'

Spec == Init /\ [][Next]_<<row, idx, sound>>
=============================================================================
