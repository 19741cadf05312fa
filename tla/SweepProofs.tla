----------------------------- MODULE SweepProofs -----------------------------
(***************************************************************************)
(* For any number of writers, sweepers, values and calls: the two-segment  *)
(* write protocol keeps a clean incarnation of a row indexed, registered   *)
(* and covered by its receipt; the sweepers never hurt a live row, and a   *)
(* pk that the register has forgotten has no member left in the index.     *)
(* The first part is about RowWrite, the second about Sweep.               *)
(***************************************************************************)
EXTENDS Sweep

(***************************************************************************)
(* The write protocol.                                                     *)
(***************************************************************************)
\* What buildIndexOps returns is made of members.
LEMMA OpsType ==
    ASSUME NEW s \in Row, NEW r \in SUBSET Member, NEW v \in Values \cup {Null},
           NEW m \in TTLModes
    PROVE  /\ Undos(s, r, v) \in SUBSET Member
           /\ Redos(s, v) \in SUBSET Member
           /\ Receipts(s, v) \in SUBSET Member
           /\ RegCmd(s, m) \in RegCmds \ {"rem"}
           /\ IvOf(s) \in Nat
BY NullAssumption DEF Undos, Redos, Receipts, RegCmd, MemberOf, IvOf, Row, Member, TTLModes, RegCmds

LEMMA ListsType ==
    ASSUME TypeOK, NEW c \in Clients
    PROVE  /\ UndoList(c) \in SUBSET Member
           /\ RedoList(c) \in SUBSET Member
           /\ RegOf(c) \in RegCmds
<1>1. /\ snap[c] \in Row /\ rsnap[c] \in SUBSET Member
      /\ req[c].val \in Values \cup {Null} /\ req[c].mode \in TTLModes
  BY DEF TypeOK, Req
<1>2. /\ Undos(snap[c], {}, Null) \in SUBSET Member
      /\ Undos(snap[c], rsnap[c], req[c].val) \in SUBSET Member
      /\ Redos(snap[c], req[c].val) \in SUBSET Member
      /\ RegCmd(snap[c], req[c].mode) \in RegCmds
  <2>1. {} \in SUBSET Member /\ Null \in Values \cup {Null}
    OBVIOUS
  <2>2. Undos(snap[c], {}, Null) \in SUBSET Member
    BY <1>1, <2>1, OpsType
  <2>3. QED BY <1>1, <2>2, OpsType
<1>3. QED BY <1>2 DEF UndoList, RedoList, RegOf, RegCmds

LEMMA NoRowType == NoRow \in Row /\ NoReq \in Req
BY CasAssumption DEF NoRow, Row, NoReq, Req, TTLModes

\* Every variable keeps its type.
LEMMA TypeStep == TypeOK /\ [Next]_vars => TypeOK'
<1> SUFFICES ASSUME TypeOK, [Next]_vars PROVE TypeOK'
  OBVIOUS
<1> USE NoRowType DEF TypeOK
<1>R. ASSUME NEW c \in Clients, NEW r \in {"zero", "ok", "err"}, Return(c, r)
      PROVE  /\ pc' \in [Clients -> {"idle", "row", "rcpt", "lua", "index"}]
             /\ req' \in [Clients -> Req] /\ tries' \in [Clients -> Nat] /\ sends' \in [Clients -> Nat]
             /\ snap' \in [Clients -> Row] /\ rsnap' \in [Clients -> SUBSET Member]
             /\ rem' \in [Clients -> SUBSET Member] /\ add' \in [Clients -> SUBSET Member]
             /\ reg' \in [Clients -> RegCmds] /\ res' \in [Clients -> {"none", "ok", "zero", "err"}]
             /\ started' \in Nat /\ seen' \in [Clients -> Nat]
  BY <1>R DEF Return, RegCmds
<1>C. ASSUME NEW c \in Clients, NEW f \in {"none", "reply"}, Commit(c, f)
      PROVE  row' \in Row /\ rcpt' \in SUBSET Member /\ inc' \in Nat /\ overlap' \in BOOLEAN
             /\ fault' \in {"none", "segment", "reply"}
  <2>1. CASE req[c].op = "W"
    <3>1. LuaW(c) /\ HistW(c, f)
      BY <1>C, <2>1 DEF Commit
    <3>2. Receipts(snap[c], req[c].val) \in SUBSET Member
      BY OpsType DEF Req, TTLModes
    <3>3. rcpt' \in SUBSET Member
      BY <3>1, <3>2 DEF LuaW
    <3>4. row' \in Row
      <4> DEFINE t == IF req[c].mode = "keep" THEN row.ttl ELSE req[c].mode = "set"
                 v == IF req[c].val # Null THEN req[c].val
                      ELSE IF snap[c].val # Null THEN Null ELSE row.val
                 i == IF Redos(snap[c], req[c].val) # {} THEN snap[c].ver + 1 ELSE row.iv
      <4>1. row' = [ver |-> row.ver + 1, val |-> v, iv |-> i, ttl |-> t]
        BY <3>1 DEF LuaW
      <4>2. t \in BOOLEAN
        BY Zenon DEF Row
      <4>3. v \in Values \cup {Null} /\ i \in Nat /\ row.ver + 1 \in Nat
        BY DEF Row, Req
      <4> HIDE DEF t, v, i
      <4>4. QED BY <4>1, <4>2, <4>3 DEF Row
    <3>5. inc' \in Nat /\ fault' \in {"none", "segment", "reply"}
      <4>1. CASE row.ver = 0 BY <3>1, <4>1 DEF HistW
      <4>2. CASE row.ver # 0 BY <3>1, <4>2 DEF HistW
      <4>3. QED BY <4>1, <4>2
    <3>6. overlap' \in BOOLEAN
      BY <3>1 DEF HistW
    <3>7. QED BY <3>3, <3>4, <3>5, <3>6
  <2>2. CASE req[c].op # "W"
    BY <1>C, <2>2 DEF Commit, LuaD, HistD
  <2>3. QED BY <2>1, <2>2
<1>1. ASSUME NEW c \in Clients, Start(c) PROVE TypeOK'
  <2>1. ASSUME NEW v \in Values \cup {Null}, NEW mode \in Modes, NEW cas \in CasVers \cup {NoCas},
               StartWrite(c, v, mode, cas)
        PROVE TypeOK'
    <3>1. [op |-> "W", val |-> v, mode |-> mode, cas |-> cas] \in Req
      BY EnvAssumption DEF Req, TTLModes
    <3>2. QED BY <2>1, <3>1 DEF StartWrite, store, hist
  <2>2. ASSUME StartDelete(c) PROVE TypeOK'
    <3>1. [op |-> "D", val |-> Null, mode |-> "none", cas |-> NoCas] \in Req
      BY DEF Req, TTLModes
    <3>2. QED BY <2>2, <3>1 DEF StartDelete, store, hist
  <2>3. QED BY <1>1, <2>1, <2>2 DEF Start
<1>2. ASSUME NEW c \in Clients, ClientStep(c) PROVE TypeOK'
  <2>1. CASE Preread(c) BY <2>1 DEF Preread, store
  <2>2. CASE DeleteNothing(c) BY <2>2, <1>R DEF DeleteNothing, store
  <2>3. CASE ReadReceipt(c) BY <2>3 DEF ReadReceipt, store, hist
  <2>4. CASE CasMismatch(c) BY <2>4, <1>R DEF CasMismatch, store
  <2>5. CASE RowLua(c)
    <3>1. /\ row' \in Row /\ rcpt' \in SUBSET Member /\ inc' \in Nat /\ overlap' \in BOOLEAN
          /\ fault' \in {"none", "segment", "reply"}
      BY <2>5, <1>C DEF RowLua
    <3>2. seen' \in [Clients -> Nat]
      BY <2>5 DEF RowLua
    <3>3. QED BY <2>5, <3>1, <3>2, ListsType DEF RowLua
  <2>6. CASE Stale(c)
    <3>1. CASE tries[c] + 1 < StaleRetries
      BY <2>6, <3>1 DEF Stale, store
    <3>2. CASE ~(tries[c] + 1 < StaleRetries)
      BY <2>6, <3>2, <1>R DEF Stale, store
    <3>3. QED BY <3>1, <3>2
  <2>7. ASSUME NEW m \in rem[c], Zrem(c, m) PROVE TypeOK' BY <2>7 DEF Zrem, hist
  <2>8. ASSUME NEW m \in add[c], Zadd(c, m) PROVE TypeOK' BY <2>8 DEF Zadd, hist
  <2>9. CASE Register(c) BY <2>9 DEF Register, hist, RegCmds
  <2>10. CASE Done(c) BY <2>10, <1>R DEF Done, store
  <2>11. QED BY <1>2, <2>1, <2>2, <2>3, <2>4, <2>5, <2>6, <2>7, <2>8, <2>9, <2>10 DEF ClientStep
<1>3. ASSUME NEW c \in Clients, Fault(c) PROVE TypeOK'
  <2>1. CASE GiveUp(c) BY <2>1, <1>R DEF GiveUp, store
  <2>2. CASE RowLuaReplyLost(c)
    <3>1. /\ row' \in Row /\ rcpt' \in SUBSET Member /\ inc' \in Nat /\ overlap' \in BOOLEAN
          /\ fault' \in {"none", "segment", "reply"}
      BY <2>2, <1>C DEF RowLuaReplyLost
    <3>2. QED BY <2>2, <3>1 DEF RowLuaReplyLost
  <2>3. CASE Resend(c) BY <2>3, ListsType DEF Resend, store, hist
  <2>4. CASE SegmentLost(c) BY <2>4, <1>R DEF SegmentLost, store
  <2>5. QED BY <1>3, <2>1, <2>2, <2>3, <2>4 DEF Fault
<1>4. CASE ExpireRow BY <1>4 DEF ExpireRow, calls, hist
<1>5. CASE ExpireReceipt BY <1>5 DEF ExpireReceipt, calls, hist
<1>6. CASE UNCHANGED vars BY <1>6 DEF vars, store, calls, hist
<1>7. QED BY <1>1, <1>2, <1>3, <1>4, <1>5, <1>6 DEF Next

(***************************************************************************)
(* The inductive invariant.                                                *)
(***************************************************************************)

\* A step of another client leaves client d's call alone.
Same(d) ==
    /\ pc'[d] = pc[d] /\ req'[d] = req[d] /\ snap'[d] = snap[d]
    /\ rsnap'[d] = rsnap[d] /\ rem'[d] = rem[d] /\ add'[d] = add[d]
    /\ reg'[d] = reg[d] /\ seen'[d] = seen[d]

LEMMA SameLists ==
    ASSUME NEW d \in Clients, Same(d)
    PROVE  UndoList(d)' = UndoList(d) /\ RedoList(d)' = RedoList(d) /\ RegOf(d)' = RegOf(d)
BY DEF Same, UndoList, RedoList, RegOf

\* A step keeps the base, and the index and the register as good as they were.
Keeps == Base' /\ (NoMiss => NoMiss') /\ (Registered => Registered')

\* A step of c outside the index segment that leaves the stored keys alone only
\* has to establish what c now knows about the row.
LEMMA LocalStep ==
    ASSUME Base, TypeOK', NEW c \in Clients,
           UNCHANGED <<row, rcpt, idx, exp, inc, overlap, fault>>,
           \A d \in Clients \ {c} : Same(d),
           pc[c] # "index", pc'[c] # "index",
           rem'[c] = {}, add'[c] = {}, reg'[c] = "skip",
           SnapOK(c)'
    PROVE  Keeps
<1> USE DEF Keeps, Base
<1>1. RowShape'
  BY DEF RowShape
<1>2. SnapShape'
  <2>1. ASSUME NEW d \in Clients, d # c PROVE SnapOK(d)'
    BY <2>1 DEF SnapShape, SnapOK, Same
  <2>2. QED BY <2>1 DEF SnapShape
<1>3. SegmentShape'
  <2>1. ASSUME NEW d \in Clients, d # c PROVE SegmentOK(d)'
    BY <2>1, SameLists DEF SegmentShape, SegmentOK, Same, Drained
  <2>2. SegmentOK(c)'
    BY DEF SegmentOK, Drained
  <2>3. QED BY <2>1, <2>2 DEF SegmentShape
<1>4. UndoIsOlder'
  <2>1. ASSUME NEW d \in Clients, d # c PROVE UndoOK(d)'
    BY <2>1, SameLists DEF UndoIsOlder, UndoOK, Same, Live, MemberOf, IvOf
  <2>2. UndoOK(c)'
    BY DEF UndoOK
  <2>3. QED BY <2>1, <2>2 DEF UndoIsOlder
<1>5. add[c] = {} /\ reg[c] = "skip"
  BY DEF SegmentShape, SegmentOK, Drained
<1>6. NoMiss => NoMiss'
  BY <1>5 DEF NoMiss, Indexed, Same, MemberOf, IvOf
<1>7. Registered => Registered'
  BY <1>5 DEF Registered, Same, Live
<1>8. ReceiptCoversRow'
  BY DEF ReceiptCoversRow, MemberOf, IvOf
<1>9. QED BY <1>1, <1>2, <1>3, <1>4, <1>6, <1>7, <1>8

\* Returning before the commit changes nothing but the caller.
LEMMA ReturnEarly ==
    ASSUME Base, TypeOK', NEW c \in Clients, NEW r, Return(c, r), pc[c] # "index",
           UNCHANGED <<store, inc, overlap, fault>>
    PROVE  Keeps
<1>1. \A d \in Clients \ {c} : Same(d)
  BY DEF Base, TypeOK, Return, Same
<1>2. /\ pc'[c] = "idle" /\ rem'[c] = {} /\ add'[c] = {} /\ reg'[c] = "skip"
      /\ snap'[c] = NoRow /\ rsnap'[c] = {} /\ seen'[c] = 0
  BY DEF Base, TypeOK, Return
<1>3. SnapOK(c)'
  <2>1. inc \in Nat /\ inc' = inc
    BY DEF Base, TypeOK
  <2>2. QED BY <1>2, <2>1 DEF SnapOK, NoRow
<1>4. UNCHANGED <<row, rcpt, idx, exp, inc, overlap, fault>>
  BY DEF store
<1>5. QED BY <1>1, <1>2, <1>3, <1>4, LocalStep

\* The member of a clean live row carries its _iv stamp.
LEMMA LiveMember ==
    ASSUME TypeOK, RowShape, ~overlap, row.val # Null
    PROVE  Live /\ row.iv > 0 /\ MemberOf(row) = <<row.val, row.iv>>
BY DEF TypeOK, Row, RowShape, NoRow, Live, MemberOf, IvOf

\* An index-segment step of c that leaves the row, the receipt and the lists
\* alone keeps everything but the segment and what the segment provides.
LEMMA IndexFrame ==
    ASSUME Base, TypeOK', NEW c \in Clients,
           UNCHANGED <<row, rcpt, pc, req, snap, rsnap, seen, inc, overlap, fault>>,
           SegmentOK(c)', \A d \in Clients \ {c} : Same(d), NoMiss => NoMiss', Registered => Registered'
    PROVE  Keeps
<1> USE DEF Keeps, Base
<1>1. RowShape' /\ ReceiptCoversRow'
  BY DEF RowShape, ReceiptCoversRow, MemberOf, IvOf
<1>2. SnapShape'
  BY DEF SnapShape, SnapOK
<1>3. SegmentShape'
  <2>1. ASSUME NEW d \in Clients, d # c PROVE SegmentOK(d)'
    BY <2>1, SameLists DEF SegmentShape, SegmentOK, Same, Drained
  <2>2. QED BY <2>1 DEF SegmentShape
<1>4. UndoIsOlder'
  BY DEF UndoIsOlder, UndoOK, UndoList, RedoList, Live, MemberOf, IvOf
<1>5. QED BY <1>1, <1>2, <1>3, <1>4

\* A ZREM never takes away the member of a clean live row: what is removed is
\* stamped lower, or is added back by the same pipeline.
LEMMA ZremStep ==
    ASSUME Base, TypeOK', NEW c \in Clients, NEW m \in rem[c], Zrem(c, m)
    PROVE  Keeps
<1>1. /\ UNCHANGED <<row, rcpt, exp, pc, req, snap, rsnap, add, reg, seen, inc, overlap, fault>>
      /\ idx' = idx \ {m} /\ rem'[c] = rem[c] \ {m} /\ pc[c] = "index"
      /\ \A d \in Clients \ {c} : Same(d)
  BY DEF Zrem, hist, Same, Base, TypeOK
<1>2. UndoList(c)' = UndoList(c) /\ RedoList(c)' = RedoList(c) /\ RegOf(c)' = RegOf(c)
  BY <1>1 DEF UndoList, RedoList, RegOf
<1>3. SegmentOK(c)'
  BY <1>1, <1>2 DEF Base, SegmentShape, SegmentOK, Drained
<1>4. NoMiss => NoMiss'
  <2> SUFFICES ASSUME NoMiss, ~overlap, fault = "none", row.val # Null PROVE Indexed'
    BY <1>1 DEF NoMiss, Indexed
  <2>1. Live /\ row.iv > 0 /\ MemberOf(row) = <<row.val, row.iv>>
    BY LiveMember DEF Base
  <2>2. m \in UndoList(c)
    BY DEF Base, SegmentShape, SegmentOK
  <2>3. CASE m # MemberOf(row)
    <3>1. \/ MemberOf(row) \in idx
          \/ \E d \in Clients : MemberOf(row) \in add[d]
      BY DEF Base, NoMiss, Indexed
    <3>2. MemberOf(row)' = MemberOf(row)
      BY <1>1 DEF MemberOf, IvOf
    <3>3. QED BY <1>1, <2>3, <3>1, <3>2 DEF Indexed
  <2>4. CASE m = MemberOf(row)
    <3>1. rsnap[c] # {}
      <4>1. rsnap[c] = {} => m[2] < row.iv
        BY <1>1, <2>1, <2>2 DEF Base, UndoIsOlder, UndoOK
      <4>2. ~(m[2] < row.iv)
        BY <2>1, <2>4 DEF Base, TypeOK, Row
      <4>3. QED BY <4>1, <4>2
    <3>2. RedoList(c) = {MemberOf(row)}
      BY <1>1, <2>1, <3>1 DEF Base, UndoIsOlder, UndoOK
    <3>3. MemberOf(row) \in add[c]
      BY <1>1, <2>4, <3>2 DEF Base, SegmentShape, SegmentOK
    <3>4. MemberOf(row)' = MemberOf(row)
      BY <1>1 DEF MemberOf, IvOf
    <3>5. QED BY <1>1, <3>3, <3>4 DEF Indexed
  <2>5. QED BY <2>3, <2>4
<1>5. Registered => Registered'
  BY <1>1 DEF Base, Registered, Live
<1>6. QED BY <1>1, <1>3, <1>4, <1>5, IndexFrame

LEMMA ZaddStep ==
    ASSUME Base, TypeOK', NEW c \in Clients, NEW m \in add[c], Zadd(c, m)
    PROVE  Keeps
<1>1. /\ UNCHANGED <<row, rcpt, exp, pc, req, snap, rsnap, rem, reg, seen, inc, overlap, fault>>
      /\ idx' = idx \cup {m} /\ add'[c] = add[c] \ {m} /\ pc[c] = "index"
      /\ \A u \in rem[c] : u[1] # m[1]
      /\ \A d \in Clients \ {c} : Same(d)
  BY DEF Zadd, hist, Same, Base, TypeOK
<1>2. UndoList(c)' = UndoList(c) /\ RedoList(c)' = RedoList(c) /\ RegOf(c)' = RegOf(c)
  BY <1>1 DEF UndoList, RedoList, RegOf
<1>3. SegmentOK(c)'
  BY <1>1, <1>2 DEF Base, SegmentShape, SegmentOK, Drained
<1>4. MemberOf(row)' = MemberOf(row)
  BY <1>1 DEF MemberOf, IvOf
<1>5. NoMiss => NoMiss'
  BY <1>1, <1>4 DEF Base, NoMiss, Indexed, Same
<1>6. Registered => Registered'
  BY <1>1 DEF Base, Registered, Live
<1>7. QED BY <1>1, <1>3, <1>5, <1>6, IndexFrame

LEMMA RegisterStep ==
    ASSUME Base, TypeOK', NEW c \in Clients, Register(c)
    PROVE  Keeps
<1>1. /\ UNCHANGED <<row, rcpt, idx, pc, req, snap, rsnap, rem, add, seen, inc, overlap, fault>>
      /\ exp' = (IF reg[c] = "rem" THEN "none" ELSE reg[c]) /\ reg'[c] = "skip"
      /\ reg[c] # "skip" /\ pc[c] = "index"
      /\ \A d \in Clients \ {c} : Same(d)
  BY DEF Register, hist, Same, Base, TypeOK
<1>2. UndoList(c)' = UndoList(c) /\ RedoList(c)' = RedoList(c) /\ RegOf(c)' = RegOf(c)
  BY <1>1 DEF UndoList, RedoList, RegOf
<1>3. SegmentOK(c)'
  BY <1>1, <1>2 DEF Base, SegmentShape, SegmentOK, Drained
<1>4. NoMiss => NoMiss'
  BY <1>1 DEF Base, NoMiss, Indexed, MemberOf, IvOf
<1>5. Registered => Registered'
  <2> SUFFICES ASSUME Live, ~overlap, fault = "none" PROVE exp' # "none"
    BY <1>1 DEF Registered, Live
  <2>1. req[c].op = "W" /\ reg[c] = RegOf(c)
    BY <1>1 DEF Base, UndoIsOlder, UndoOK, SegmentShape, SegmentOK
  <2>2. RegCmd(snap[c], req[c].mode) # "rem"
    BY OpsType DEF Base, TypeOK, Req
  <2>3. reg[c] # "rem" /\ reg[c] # "none"
    BY <2>1, <2>2 DEF RegOf, Base, TypeOK, RegCmds
  <2>4. QED BY <1>1, <2>3
<1>6. QED BY <1>1, <1>3, <1>4, <1>5, IndexFrame

\* Sending the batch again asks for nothing the first sending did not.
LEMMA ResendStep ==
    ASSUME Base, TypeOK', NEW c \in Clients, Resend(c)
    PROVE  Keeps
<1>1. /\ UNCHANGED <<row, rcpt, idx, exp, pc, req, snap, rsnap, seen, inc, overlap, fault>>
      /\ rem'[c] = UndoList(c) /\ add'[c] = RedoList(c) /\ reg'[c] = RegOf(c) /\ pc[c] = "index"
      /\ \A d \in Clients \ {c} : Same(d)
  BY DEF Resend, store, hist, Same, Base, TypeOK
<1>2. UndoList(c)' = UndoList(c) /\ RedoList(c)' = RedoList(c) /\ RegOf(c)' = RegOf(c)
  BY <1>1 DEF UndoList, RedoList, RegOf
<1>3. SegmentOK(c)'
  BY <1>1, <1>2 DEF Base, SegmentShape, SegmentOK, Drained
<1>4. MemberOf(row)' = MemberOf(row) /\ add[c] \subseteq add'[c]
  BY <1>1 DEF MemberOf, IvOf, Base, SegmentShape, SegmentOK
<1>5. NoMiss => NoMiss'
  BY <1>1, <1>4 DEF Base, NoMiss, Indexed, Same
<1>6. Registered => Registered'
  BY <1>1 DEF Base, Registered, Live, SegmentShape, SegmentOK, Same
<1>7. QED BY <1>1, <1>3, <1>5, <1>6, IndexFrame

\* The segment ends: everything was executed, or the loss is on record.
LEMMA SegmentEnd ==
    ASSUME Base, TypeOK', NEW c \in Clients, NEW r, Return(c, r), pc[c] = "index",
           UNCHANGED <<store, inc, overlap>>,
           (Drained(c) /\ fault' = fault) \/ fault' = "segment"
    PROVE  Keeps
<1>1. \A d \in Clients \ {c} : Same(d)
  BY DEF Base, TypeOK, Return, Same
<1>2. /\ pc'[c] = "idle" /\ rem'[c] = {} /\ add'[c] = {} /\ reg'[c] = "skip"
      /\ snap'[c] = NoRow /\ rsnap'[c] = {} /\ seen'[c] = 0
  BY DEF Base, TypeOK, Return
<1>3. UNCHANGED <<row, rcpt, idx, exp, inc, overlap>>
  BY DEF store
<1>4. RowShape' /\ ReceiptCoversRow'
  BY <1>3 DEF Base, RowShape, ReceiptCoversRow, MemberOf, IvOf
<1>5. SnapShape'
  <2>1. ASSUME NEW d \in Clients, d # c PROVE SnapOK(d)'
    BY <1>1, <1>3, <2>1 DEF Base, SnapShape, SnapOK, Same
  <2>2. SnapOK(c)'
    <3>1. inc \in Nat BY DEF Base, TypeOK
    <3>2. QED BY <1>2, <1>3, <3>1 DEF SnapOK, NoRow
  <2>3. QED BY <2>1, <2>2 DEF SnapShape
<1>6. SegmentShape'
  <2>1. ASSUME NEW d \in Clients, d # c PROVE SegmentOK(d)'
    BY <1>1, <2>1, SameLists DEF Base, SegmentShape, SegmentOK, Same, Drained
  <2>2. SegmentOK(c)'
    BY <1>2 DEF SegmentOK, Drained
  <2>3. QED BY <2>1, <2>2 DEF SegmentShape
<1>7. UndoIsOlder'
  <2>1. ASSUME NEW d \in Clients, d # c PROVE UndoOK(d)'
    BY <1>1, <1>3, <2>1, SameLists DEF Base, UndoIsOlder, UndoOK, Same, Live, MemberOf, IvOf
  <2>2. UndoOK(c)'
    BY <1>2 DEF UndoOK
  <2>3. QED BY <2>1, <2>2 DEF UndoIsOlder
<1>8. MemberOf(row)' = MemberOf(row)
  BY <1>3 DEF MemberOf, IvOf
<1>9. NoMiss => NoMiss'
  BY <1>1, <1>3, <1>8 DEF Base, NoMiss, Indexed, Same, Drained
<1>10. Registered => Registered'
  BY <1>1, <1>3 DEF Base, Registered, Live, Same, Drained
<1>11. QED BY <1>4, <1>5, <1>6, <1>7, <1>9, <1>10 DEF Keeps, Base

(***************************************************************************)
(* The row commit.                                                         *)
(***************************************************************************)

\* A commit that leaves the incarnation clean was prepared from the row as it
\* stands, and no other call has commands of another incarnation in flight.
LEMMA CleanCommit ==
    ASSUME Base, NEW c \in Clients, NEW f, CommitEnabled(c), HistW(c, f), ~overlap'
    PROVE  /\ row = snap[c]
           /\ row.ver = 0 => \A d \in Clients \ {c} : pc[d] # "index"
           /\ row.ver # 0 => /\ ~overlap /\ seen[c] = inc /\ inc' = inc
                            /\ \A d \in Clients \ {c} :
                                  pc[d] = "index" => seen[d] = inc /\ rsnap[d] = {}
<1>1. CASE row.ver = 0
  <2>1. snap[c] = NoRow /\ row = NoRow
    BY <1>1 DEF Base, SnapShape, SnapOK, RowShape, CommitEnabled
  <2>2. \A d \in Clients \ {c} : pc[d] # "index"
    BY <1>1 DEF HistW
  <2>3. QED BY <1>1, <2>1, <2>2
<1>2. CASE row.ver # 0
  <2>1. ~overlap /\ seen[c] = inc /\ inc' = inc /\ \A d \in Clients \ {c} : ~Foreign(d)
    BY <1>2 DEF HistW
  <2>2. row = snap[c]
    BY <2>1 DEF Base, SnapShape, SnapOK, CommitEnabled
  <2>3. QED BY <1>2, <2>1, <2>2 DEF Foreign
<1>3. QED BY <1>1, <1>2

\* What the row Lua makes of a clean row: the requested value, stamped with the
\* new version when it changed.
LEMMA CleanRow ==
    ASSUME Base, TypeOK', NEW c \in Clients, NEW f, CommitEnabled(c), LuaW(c), HistW(c, f), ~overlap'
    PROVE  /\ row'.val = req[c].val
           /\ (req[c].val # Null /\ req[c].val # row.val) => row'.iv = row.ver + 1
           /\ (req[c].val = Null \/ req[c].val = row.val) => row'.iv = row.iv
           /\ row'.val # Null => row'.iv > 0 /\ MemberOf(row)' = <<row'.val, row'.iv>>
<1>1. row = snap[c]
  BY CleanCommit
<1>2. row'.val = req[c].val
  BY <1>1 DEF LuaW
<1>3. (req[c].val # Null /\ req[c].val # row.val) => row'.iv = row.ver + 1
  BY <1>1 DEF LuaW, Redos
<1>4. (req[c].val = Null \/ req[c].val = row.val) => row'.iv = row.iv
  BY <1>1 DEF LuaW, Redos
<1>5. row.val # Null => row.iv > 0
  <2>1. row.ver = 0 => row.val = Null
    BY DEF Base, RowShape, NoRow
  <2>2. QED BY <2>1, CleanCommit DEF Base, RowShape
<1>6. row'.val # Null => row'.iv > 0
  BY <1>2, <1>3, <1>4, <1>5 DEF Base, TypeOK, Row
<1>7. QED BY <1>2, <1>3, <1>4, <1>6 DEF MemberOf, IvOf

\* The parts of the invariant about the row and the pre-read rows.
LEMMA CommitShapes ==
    ASSUME Base, TypeOK', NEW c \in Clients, NEW f, CommitEnabled(c), Commit(c, f),
           UNCHANGED <<req, snap, rsnap>>, \A d \in Clients \ {c} : Same(d),
           \/ pc'[c] = "lua" /\ seen'[c] = seen[c]
           \/ pc'[c] = "index" /\ seen'[c] = IF row.ver = 0 THEN inc + 1 ELSE seen[c]
    PROVE  RowShape' /\ SnapShape' /\ ReceiptCoversRow'
<1>0. TypeOK /\ row \in Row /\ snap[c] \in Row /\ req[c] \in Req /\ row.ver = snap[c].ver
      /\ inc \in Nat /\ pc[c] = "lua" /\ \A d \in Clients : seen[d] \in Nat /\ snap[d] \in Row
  BY DEF Base, TypeOK, CommitEnabled
<1>1. CASE req[c].op = "W"
  <2>0. LuaW(c) /\ HistW(c, f)
    BY <1>1 DEF Commit
  <2>1. row'.ver = row.ver + 1 /\ row'.iv \in {row.ver + 1, row.iv}
    BY <1>0, <2>0 DEF LuaW
  <2>2. RowShape'
    <3>1. row'.ver # 0 /\ row'.iv <= row'.ver
      BY <1>0, <2>1 DEF Base, RowShape, Row
    <3>2. (~overlap' /\ row'.val # Null) => row'.iv > 0
      BY <2>0, CleanRow
    <3>3. QED BY <3>1, <3>2 DEF RowShape
  <2>3. inc' = (IF row.ver = 0 THEN inc + 1 ELSE inc)
    BY <2>0 DEF HistW
  <2>4. ASSUME NEW d \in Clients PROVE SnapOK(d)'
    <3>1. SnapOK(d) /\ snap'[d] = snap[d] /\ rsnap'[d] = rsnap[d] /\ req'[d] = req[d]
      BY DEF Base, SnapShape
    <3>2. CASE row.ver = 0
      <4>1. seen[d] <= inc /\ inc' = inc + 1
        BY <2>3, <3>1, <3>2 DEF SnapOK
      <4>2. CASE d = c /\ pc'[c] = "index"
        BY <1>0, <3>1, <3>2, <4>1, <4>2 DEF SnapOK, Base, SnapShape
      <4>3. CASE ~(d = c /\ pc'[c] = "index")
        <5>1. seen'[d] = seen[d] /\ pc'[d] = pc[d]
          BY <1>0, <4>3 DEF Same
        <5>2. QED BY <1>0, <3>1, <4>1, <5>1 DEF SnapOK
      <4>4. QED BY <4>2, <4>3
    <3>3. CASE row.ver # 0
      <4>1. inc' = inc /\ seen'[d] = seen[d] /\ (pc'[d] = pc[d] \/ pc'[d] = "index")
        BY <1>0, <2>3, <3>3 DEF Same
      <4>2. (pc[d] \in {"rcpt", "lua"} /\ seen[d] = inc) => snap[d].ver # 0 /\ snap[d].ver <= row.ver
        BY <3>1, <3>3 DEF SnapOK
      <4>3. row.ver \in Nat /\ snap[d].ver \in Nat
        BY <1>0 DEF Row
      <4>4. QED BY <1>0, <2>1, <3>1, <4>1, <4>2, <4>3 DEF SnapOK
    <3>4. QED BY <3>2, <3>3
  <2>5. ReceiptCoversRow'
    <3> SUFFICES ASSUME row'.ttl, ~overlap'
                 PROVE rcpt' = IF row'.val = Null THEN {} ELSE {MemberOf(row)'}
      BY DEF ReceiptCoversRow
    <3>1. req[c].mode # "none"
      BY <2>0 DEF LuaW
    <3>2. rcpt' = Receipts(snap[c], req[c].val)
      BY <2>0, <3>1 DEF LuaW
    <3>3. row = snap[c]
      BY <2>0, CleanCommit
    <3>4. (req[c].val # Null /\ req[c].val = row.val) => IvOf(row) = row.iv
      BY <2>0, CleanRow DEF IvOf
    <3>5. QED BY <2>0, <3>2, <3>3, <3>4, CleanRow DEF Receipts
  <2>6. QED BY <2>2, <2>4, <2>5 DEF SnapShape
<1>2. CASE req[c].op # "W"
  <2>0. row' = NoRow /\ inc' = inc /\ overlap' = overlap
    BY <1>2 DEF Commit, LuaD, HistD
  <2>1. RowShape' /\ ReceiptCoversRow'
    BY <2>0 DEF RowShape, ReceiptCoversRow, NoRow
  <2>2. row.ver # 0
    BY <1>0, <1>2 DEF Base, SnapShape, SnapOK, Req
  <2>3. ASSUME NEW d \in Clients PROVE SnapOK(d)'
    <3>1. SnapOK(d) /\ snap'[d] = snap[d] /\ rsnap'[d] = rsnap[d] /\ req'[d] = req[d]
      BY DEF Base, SnapShape
    <3>2. seen'[d] = seen[d] /\ (pc'[d] = pc[d] \/ pc'[d] = "index")
      BY <1>0, <2>2 DEF Same
    <3>3. QED BY <2>0, <3>1, <3>2 DEF SnapOK, NoRow
  <2>4. QED BY <2>1, <2>3 DEF SnapShape
<1>3. QED BY <1>1, <1>2

\* The older calls' undo lists stay below the stamp of the new row.
LEMMA CommitOthers ==
    ASSUME Base, TypeOK', NEW c \in Clients, NEW f, CommitEnabled(c), Commit(c, f),
           \A d \in Clients \ {c} : Same(d)
    PROVE  \A d \in Clients \ {c} : SegmentOK(d)' /\ UndoOK(d)'
<1> TAKE d \in Clients \ {c}
<1>1. /\ UndoList(d)' = UndoList(d) /\ RedoList(d)' = RedoList(d) /\ RegOf(d)' = RegOf(d)
      /\ Same(d)
  BY SameLists
<1>2. SegmentOK(d)'
  BY <1>1 DEF Base, SegmentShape, SegmentOK, Same, Drained
<1>3. UndoOK(d)'
  <2> SUFFICES ASSUME pc'[d] = "index", Live', ~overlap' PROVE UndoOK(d)'
    BY DEF UndoOK
  <2>1. req[c].op = "W" /\ LuaW(c) /\ HistW(c, f)
    BY DEF Commit, LuaD, Live, NoRow
  <2>2. pc[d] = "index"
    BY <1>1 DEF Same
  <2>3. row.ver # 0 /\ ~overlap /\ inc' = inc /\ seen[d] = inc /\ rsnap[d] = {}
    BY <2>1, <2>2, CleanCommit
  <2>4. Live
    BY <2>3 DEF Live, Base, TypeOK, Row
  <2>5. /\ req[d].op = "W"
        /\ \A u \in UndoList(d) : u[2] <= row.ver /\ (row.val = Null \/ u[2] < row.iv)
    BY <2>2, <2>3, <2>4 DEF Base, UndoIsOlder, UndoOK
  <2>6. row'.ver = row.ver + 1
    BY <2>1 DEF LuaW
  <2>7. ASSUME NEW u \in UndoList(d)
        PROVE u[2] <= row'.ver /\ (row'.val = Null \/ u[2] < row'.iv)
    <3>1. UndoList(d) \subseteq Member
      BY ListsType DEF Base
    <3>2. u[2] \in Nat /\ row.ver \in Nat /\ row.iv \in Nat
      BY <3>1, <2>7 DEF Member, Base, TypeOK, Row
    <3>3. u[2] <= row.ver /\ (row.val = Null \/ u[2] < row.iv)
      BY <2>5
    <3>4. /\ row'.val = req[c].val
          /\ (req[c].val # Null /\ req[c].val # row.val) => row'.iv = row.ver + 1
          /\ (req[c].val = Null \/ req[c].val = row.val) => row'.iv = row.iv
      BY <2>1, CleanRow
    <3>5. QED BY <2>6, <3>2, <3>3, <3>4
  <2>8. seen'[d] = inc' /\ req'[d].op = "W" /\ rsnap'[d] = {}
    BY <1>1, <2>3, <2>5 DEF Same
  <2>9. QED BY <1>1, <2>7, <2>8 DEF UndoOK
<1>4. QED BY <1>2, <1>3

\* The commit of a call that goes on to its index segment.
LEMMA RowLuaStep ==
    ASSUME Base, TypeOK', NEW c \in Clients, RowLua(c)
    PROVE  Keeps
<1>0. /\ CommitEnabled(c) /\ Commit(c, "none") /\ UNCHANGED <<idx, exp, req, snap, rsnap>>
      /\ pc'[c] = "index" /\ seen'[c] = (IF row.ver = 0 THEN inc + 1 ELSE seen[c])
      /\ rem'[c] = UndoList(c) /\ add'[c] = RedoList(c) /\ reg'[c] = RegOf(c)
      /\ \A d \in Clients \ {c} : Same(d)
  BY DEF RowLua, Same, Base, TypeOK
<1>1. RowShape' /\ SnapShape' /\ ReceiptCoversRow'
  BY <1>0, CommitShapes
<1>2. \A d \in Clients \ {c} : SegmentOK(d)' /\ UndoOK(d)'
  BY <1>0, CommitOthers
<1>3. UndoList(c)' = UndoList(c) /\ RedoList(c)' = RedoList(c) /\ RegOf(c)' = RegOf(c)
  BY <1>0 DEF UndoList, RedoList, RegOf
<1>4. SegmentOK(c)'
  BY <1>0, <1>3 DEF SegmentOK
<1>5. pc[c] = "lua" /\ row.ver = snap[c].ver /\ add[c] = {} /\ reg[c] = "skip"
  BY <1>0 DEF CommitEnabled, Base, SegmentShape, SegmentOK, Drained
<1>6. CASE req[c].op = "W"
  <2>0. LuaW(c) /\ HistW(c, "none")
    BY <1>0, <1>6 DEF Commit
  <2>1. row \in Row /\ snap[c] \in Row /\ req[c] \in Req /\ row' \in Row /\ inc \in Nat
    BY DEF Base, TypeOK
  <2>2. UndoOK(c)'
    <3> SUFFICES ASSUME ~overlap' PROVE UndoOK(c)'
      BY DEF UndoOK
    <3>1. row = snap[c]
      BY <1>0, <2>0, CleanCommit
    <3>2. seen'[c] = inc'
      BY <1>0, <2>0, CleanCommit DEF HistW
    <3>3. rsnap[c] # {} => row.ver = 0 /\ row = NoRow
      BY <1>5 DEF Base, SnapShape, SnapOK, RowShape
    <3>4. /\ row'.val = req[c].val
          /\ (req[c].val # Null /\ req[c].val # row.val) => row'.iv = row.ver + 1
          /\ row'.val # Null => MemberOf(row)' = <<row'.val, row'.iv>>
      BY <1>0, <2>0, CleanRow
    <3>5. ASSUME rsnap[c] = {}, NEW u \in UndoList(c)
          PROVE u[2] <= row'.ver /\ (row'.val = Null \/ u[2] < row'.iv)
      <4>1. row.val # Null /\ req[c].val # row.val /\ u = MemberOf(row)
        BY <1>6, <3>1, <3>5 DEF UndoList, Undos
      <4>2. row.iv > 0 /\ row.iv <= row.ver
        BY <1>0, <2>0, <4>1, CleanCommit DEF Base, RowShape, NoRow
      <4>3. u[2] = row.iv
        BY <4>1, <4>2 DEF MemberOf, IvOf
      <4>4. row'.ver = row.ver + 1
        BY <2>0 DEF LuaW
      <4>5. QED BY <2>1, <3>4, <4>1, <4>2, <4>3, <4>4 DEF Row
    <3>6. ASSUME rsnap[c] # {} PROVE row'.val = Null \/ RedoList(c) = {MemberOf(row)'}
      <4>1. row.val = Null /\ row.ver = 0
        BY <3>3, <3>6 DEF NoRow
      <4>2. QED BY <1>6, <3>1, <3>4, <4>1 DEF RedoList, Redos
    <3>7. QED BY <1>0, <1>3, <1>6, <3>2, <3>5, <3>6 DEF UndoOK
  <2>3. NoMiss => NoMiss'
    <3> SUFFICES ASSUME NoMiss, ~overlap', fault' = "none", row'.val # Null PROVE Indexed'
      BY DEF NoMiss, Indexed
    <3>1. row = snap[c]
      BY <1>0, <2>0, CleanCommit
    <3>2. /\ row'.val = req[c].val
          /\ (req[c].val # Null /\ req[c].val # row.val) => row'.iv = row.ver + 1
          /\ (req[c].val = Null \/ req[c].val = row.val) => row'.iv = row.iv
          /\ MemberOf(row)' = <<row'.val, row'.iv>>
      BY <1>0, <2>0, CleanRow
    <3>3. CASE req[c].val # row.val
      <4>1. RedoList(c) = {MemberOf(row)'}
        BY <1>6, <3>1, <3>2, <3>3 DEF RedoList, Redos
      <4>2. QED BY <1>0, <4>1 DEF Indexed
    <3>4. CASE req[c].val = row.val
      <4>1. row.ver # 0
        BY <3>2, <3>4 DEF Base, RowShape, NoRow
      <4>2. ~overlap /\ fault = "none"
        BY <1>0, <2>0, <4>1, CleanCommit DEF HistW
      <4>3. MemberOf(row)' = MemberOf(row)
        <5>1. row.val # Null BY <3>2, <3>4
        <5>2. QED BY <3>2, <3>4, <4>2, <5>1, LiveMember DEF Base
      <4>4. MemberOf(row) \in idx \/ \E d \in Clients : MemberOf(row) \in add[d]
        BY <3>2, <3>4, <4>2 DEF Base, NoMiss, Indexed
      <4>5. QED BY <1>0, <1>5, <4>3, <4>4 DEF Indexed, Same
    <3>5. QED BY <3>3, <3>4
  <2>4. Registered => Registered'
    <3> SUFFICES ASSUME Registered, ~overlap', fault' = "none" PROVE Registered'
      BY DEF Registered
    <3>1. CASE RegOf(c) = "skip"
      <4>1. row.ver # 0
        BY <1>5, <1>6, <2>1, <3>1 DEF RegOf, RegCmd, Req, TTLModes
      <4>2. ~overlap /\ fault = "none" /\ Live
        BY <1>0, <2>0, <2>1, <4>1, CleanCommit DEF HistW, Live, Row
      <4>3. QED BY <1>0, <1>5, <4>2 DEF Base, Registered, Same
    <3>2. CASE RegOf(c) # "skip"
      <4>1. RegOf(c) \in {"inf", "due"}
        BY <1>6, <2>1, <3>2, OpsType DEF RegOf, RegCmds, Req
      <4>2. QED BY <1>0, <4>1 DEF Registered
    <3>3. QED BY <3>1, <3>2
  <2>5. QED BY <1>1, <1>2, <1>4, <2>2, <2>3, <2>4 DEF Keeps, Base, SegmentShape, UndoIsOlder
<1>7. CASE req[c].op # "W"
  <2>1. row' = NoRow
    BY <1>0, <1>7 DEF Commit, LuaD
  <2>2. UndoOK(c)' /\ NoMiss' /\ Registered'
    BY <2>1 DEF UndoOK, NoMiss, Indexed, Registered, Live, NoRow
  <2>3. QED BY <1>1, <1>2, <1>4, <2>2 DEF Keeps, Base, SegmentShape, UndoIsOlder
<1>8. QED BY <1>6, <1>7

\* The commit whose reply is lost: the loss is on record.
LEMMA ReplyLostStep ==
    ASSUME Base, TypeOK', NEW c \in Clients, RowLuaReplyLost(c)
    PROVE  Keeps
<1>0. /\ CommitEnabled(c) /\ Commit(c, "reply") /\ UNCHANGED <<idx, exp, req, snap, rsnap, rem, add, reg, pc, seen>>
      /\ pc'[c] = "lua" /\ pc[c] = "lua" /\ \A d \in Clients \ {c} : Same(d)
  BY DEF RowLuaReplyLost, Same, Base, TypeOK, CommitEnabled
<1>1. RowShape' /\ SnapShape' /\ ReceiptCoversRow'
  BY <1>0, CommitShapes
<1>2. \A d \in Clients \ {c} : SegmentOK(d)' /\ UndoOK(d)'
  BY <1>0, CommitOthers
<1>3. SegmentOK(c)' /\ UndoOK(c)'
  <2>1. Drained(c)'
    BY <1>0 DEF Base, SegmentShape, SegmentOK, Drained
  <2>2. QED BY <1>0, <2>1 DEF SegmentOK, UndoOK, Drained
<1>4. fault' = "reply"
  BY <1>0 DEF Commit, HistW, HistD
<1>5. (NoMiss => NoMiss') /\ (Registered => Registered')
  BY <1>4 DEF NoMiss, Registered
<1>6. QED BY <1>1, <1>2, <1>3, <1>5 DEF Keeps, Base, SegmentShape, UndoIsOlder

\* The row disappears (expiry): nothing is promised about it any more.
LEMMA ExpireRowStep ==
    ASSUME Base, TypeOK', ExpireRow PROVE Keeps
<1>1. row' = NoRow /\ UNCHANGED <<rcpt, idx, exp, pc, req, snap, rsnap, rem, add, reg, seen, inc, overlap, fault>>
  BY DEF ExpireRow, calls, hist
<1>2. RowShape' /\ NoMiss' /\ Registered' /\ ReceiptCoversRow'
  BY <1>1 DEF RowShape, NoMiss, Indexed, Registered, ReceiptCoversRow, Live, NoRow
<1>3. SnapShape'
  BY <1>1 DEF Base, SnapShape, SnapOK, NoRow
<1>4. SegmentShape'
  BY <1>1 DEF Base, SegmentShape, SegmentOK, Drained, UndoList, RedoList, RegOf
<1>5. UndoIsOlder'
  BY <1>1 DEF UndoIsOlder, UndoOK, Live, NoRow
<1>6. QED BY <1>2, <1>3, <1>4, <1>5 DEF Keeps, Base

LEMMA ExpireReceiptStep ==
    ASSUME Base, TypeOK', ExpireReceipt PROVE Keeps
<1>1. row.ver = 0 /\ UNCHANGED <<row, idx, exp, pc, req, snap, rsnap, rem, add, reg, seen, inc, overlap, fault>>
  BY DEF ExpireReceipt, calls, hist
<1>2. ReceiptCoversRow'
  BY <1>1 DEF Base, RowShape, ReceiptCoversRow, NoRow
<1>3. RowShape' /\ SnapShape'
  BY <1>1 DEF Base, RowShape, SnapShape, SnapOK
<1>4. SegmentShape'
  BY <1>1 DEF Base, SegmentShape, SegmentOK, Drained, UndoList, RedoList, RegOf
<1>5. UndoIsOlder'
  BY <1>1 DEF Base, UndoIsOlder, UndoOK, UndoList, RedoList, Live, MemberOf, IvOf
<1>6. (NoMiss => NoMiss') /\ (Registered => Registered')
  BY <1>1 DEF Base, NoMiss, Indexed, Registered, Live, MemberOf, IvOf
<1>7. QED BY <1>2, <1>3, <1>4, <1>5, <1>6 DEF Keeps, Base

(***************************************************************************)
(* The invariant is inductive.                                             *)
(***************************************************************************)
LEMMA InitInv == Init => IInv
<1> SUFFICES ASSUME Init PROVE IInv
  OBVIOUS
<1> USE DEF Init
<1>1. TypeOK
  BY NoRowType DEF TypeOK, RegCmds
<1>2. RowShape /\ ReceiptCoversRow /\ NoMiss /\ Registered
  BY DEF RowShape, ReceiptCoversRow, NoMiss, Indexed, Registered, Live, NoRow
<1>3. SnapShape
  BY DEF SnapShape, SnapOK, NoRow
<1>4. SegmentShape /\ UndoIsOlder
  BY DEF SegmentShape, SegmentOK, UndoIsOlder, UndoOK, Drained
<1>5. QED BY <1>1, <1>2, <1>3, <1>4 DEF IInv, Base

\* Preparing a call: request, pre-reads, stale retry, early returns.
LEMMA PrepareStep ==
    ASSUME Base, TypeOK', NEW c \in Clients,
           \/ Start(c) \/ Preread(c) \/ DeleteNothing(c) \/ ReadReceipt(c)
           \/ CasMismatch(c) \/ Stale(c) \/ GiveUp(c)
    PROVE  Keeps
<1>0. /\ TypeOK /\ inc \in Nat /\ SnapOK(c) /\ RowShape /\ row \in Row
      /\ pc[c] # "index" => rem[c] = {} /\ add[c] = {} /\ reg[c] = "skip"
  BY DEF Base, SnapShape, SegmentShape, SegmentOK, Drained, TypeOK
<1>1. CASE Start(c)
  <2>1. /\ pc[c] = "idle" /\ pc'[c] = "row"
        /\ UNCHANGED <<row, rcpt, idx, exp, inc, overlap, fault, snap, rsnap, rem, add, reg, seen>>
        /\ \A d \in Clients \ {c} : Same(d)
    BY <1>0, <1>1 DEF Start, StartWrite, StartDelete, store, hist, Same, TypeOK
  <2>2. SnapOK(c)'
    BY <1>0, <2>1 DEF SnapOK
  <2>3. QED BY <1>0, <2>1, <2>2, LocalStep
<1>2. CASE Preread(c)
  <2>1. /\ pc[c] = "row" /\ pc'[c] = (IF row.ver = 0 THEN "rcpt" ELSE "lua")
        /\ snap'[c] = row /\ rsnap'[c] = {} /\ seen'[c] = inc /\ req'[c] = req[c]
        /\ ~(req[c].op = "D" /\ row.ver = 0) /\ req[c].op \in {"W", "D"}
        /\ UNCHANGED <<row, rcpt, idx, exp, inc, overlap, fault, rem, add, reg>>
        /\ \A d \in Clients \ {c} : Same(d)
    BY <1>0, <1>2 DEF Preread, store, Same, TypeOK, Req
  <2>2. SnapOK(c)'
    BY <1>0, <2>1 DEF SnapOK, RowShape, Row
  <2>3. QED BY <1>0, <2>1, <2>2, LocalStep
<1>3. CASE ReadReceipt(c)
  <2>1. /\ pc[c] = "rcpt" /\ pc'[c] = "lua"
        /\ UNCHANGED <<row, rcpt, idx, exp, inc, overlap, fault, rem, add, reg, snap, seen, req>>
        /\ \A d \in Clients \ {c} : Same(d)
    BY <1>0, <1>3 DEF ReadReceipt, store, hist, Same, TypeOK
  <2>2. snap[c].ver = 0 /\ req[c].op = "W"
    BY <2>1 DEF Base, SnapShape, SnapOK
  <2>3. SnapOK(c)'
    BY <1>0, <2>1, <2>2 DEF SnapOK
  <2>4. QED BY <1>0, <2>1, <2>3, LocalStep
<1>4. CASE Stale(c) /\ tries[c] + 1 < StaleRetries
  <2>1. /\ pc[c] = "lua" /\ pc'[c] = "row"
        /\ snap'[c] = NoRow /\ rsnap'[c] = {} /\ seen'[c] = 0
        /\ UNCHANGED <<row, rcpt, idx, exp, inc, overlap, fault, rem, add, reg>>
        /\ \A d \in Clients \ {c} : Same(d)
    BY <1>0, <1>4 DEF Stale, store, Same, TypeOK
  <2>2. SnapOK(c)'
    BY <1>0, <2>1 DEF SnapOK, NoRow
  <2>3. QED BY <1>0, <2>1, <2>2, LocalStep
<1>5. CASE Stale(c) /\ ~(tries[c] + 1 < StaleRetries)
  BY <1>5, ReturnEarly DEF Stale
<1>6. CASE DeleteNothing(c) BY <1>6, ReturnEarly DEF DeleteNothing
<1>7. CASE CasMismatch(c) BY <1>7, ReturnEarly DEF CasMismatch
<1>8. CASE GiveUp(c) BY <1>8, ReturnEarly DEF GiveUp
<1>9. QED BY <1>1, <1>2, <1>3, <1>4, <1>5, <1>6, <1>7, <1>8

LEMMA BaseStep == Base /\ [Next]_vars => Keeps
<1> SUFFICES ASSUME Base, [Next]_vars PROVE Keeps
  OBVIOUS
<1>0. TypeOK'
  BY TypeStep DEF Base
<1>1. ASSUME NEW c \in Clients, Start(c) \/ ClientStep(c) \/ Fault(c) PROVE Keeps
  <2>1. CASE Start(c) \/ Preread(c) \/ DeleteNothing(c) \/ ReadReceipt(c)
             \/ CasMismatch(c) \/ Stale(c) \/ GiveUp(c)
    BY <1>0, <2>1, PrepareStep
  <2>2. CASE RowLua(c) BY <1>0, <2>2, RowLuaStep
  <2>3. CASE RowLuaReplyLost(c) BY <1>0, <2>3, ReplyLostStep
  <2>4. ASSUME NEW m \in rem[c], Zrem(c, m) PROVE Keeps
    BY <1>0, <2>4, ZremStep
  <2>5. ASSUME NEW m \in add[c], Zadd(c, m) PROVE Keeps
    BY <1>0, <2>5, ZaddStep
  <2>6. CASE Register(c) BY <1>0, <2>6, RegisterStep
  <2>7. CASE Resend(c) BY <1>0, <2>7, ResendStep
  <2>8. CASE Done(c) BY <1>0, <2>8, SegmentEnd DEF Done
  <2>9. CASE SegmentLost(c) BY <1>0, <2>9, SegmentEnd DEF SegmentLost
  <2>10. QED BY <1>1, <2>1, <2>2, <2>3, <2>4, <2>5, <2>6, <2>7, <2>8, <2>9 DEF ClientStep, Fault
<1>2. CASE ExpireRow BY <1>0, <1>2, ExpireRowStep
<1>3. CASE ExpireReceipt BY <1>0, <1>3, ExpireReceiptStep
<1>4. CASE UNCHANGED vars
  <2>1. UNCHANGED <<row, rcpt, idx, exp, pc, req, snap, rsnap, rem, add, reg, seen, inc, overlap, fault>>
    BY <1>4 DEF vars, store, calls, hist
  <2>2. RowShape' /\ SnapShape' /\ ReceiptCoversRow'
    BY <2>1 DEF Base, RowShape, SnapShape, SnapOK, ReceiptCoversRow, MemberOf, IvOf
  <2>3. SegmentShape'
    BY <2>1 DEF Base, SegmentShape, SegmentOK, Drained, UndoList, RedoList, RegOf
  <2>4. UndoIsOlder'
    BY <2>1 DEF Base, UndoIsOlder, UndoOK, UndoList, RedoList, Live, MemberOf, IvOf
  <2>5. (NoMiss => NoMiss') /\ (Registered => Registered')
    BY <2>1 DEF Base, NoMiss, Indexed, Registered, Live, MemberOf, IvOf
  <2>6. QED BY <1>0, <2>2, <2>3, <2>4, <2>5 DEF Keeps, Base
<1>5. QED BY <1>1, <1>2, <1>3, <1>4 DEF Next

LEMMA InvStep == IInv /\ [Next]_vars => IInv'
BY BaseStep DEF IInv, Keeps

\* The protocol's inductive invariant holds for every number of clients, values,
\* retries and calls, with every failure the environment may produce.
THEOREM Invariance == Spec => []IInv
<1>1. QED BY InitInv, InvStep, PTL DEF Spec

\* Every variable of the write protocol keeps its type.
THEOREM TypeCorrect == Spec => []TypeOK
<1>1. IInv => TypeOK BY DEF IInv, Base
<1>2. QED BY <1>1, Invariance, PTL

\* No interleaving of the index segments of concurrent writers removes the
\* member of a clean live row: the row stays findable (docs/05 5.1).
THEOREM RowsStayIndexed == Spec => []NoMiss
<1>1. IInv => NoMiss BY DEF IInv
<1>2. QED BY <1>1, Invariance, PTL

\* A clean live row never loses its entry in the expiry register.
THEOREM RowsStayRegistered == Spec => []Registered
<1>1. IInv => Registered BY DEF IInv
<1>2. QED BY <1>1, Invariance, PTL

\* The receipt of a clean row that can expire names exactly its member.
THEOREM ReceiptsCoverRows == Spec => []ReceiptCoversRow
<1>1. IInv => ReceiptCoversRow BY DEF IInv, Base
<1>2. QED BY <1>1, Invariance, PTL

\* A version check that passes within one incarnation passes on the row that
\* was pre-read: no update is lost between the pre-read and the commit.
THEOREM NoUpdateIsLost == Spec => []NoLostUpdate
<1>1. IInv => NoLostUpdate BY DEF IInv, Base, SnapShape, SnapOK, NoLostUpdate
<1>2. QED BY <1>1, Invariance, PTL

\* Within a clean incarnation a step moves the version by at most one, and a new
\* value takes a stamp above every earlier one.
THEOREM StampsGrow == Spec => VersionsGrow
<1> DEFINE A == (row'.ver # 0 /\ row.ver # 0 /\ ~overlap') =>
                    /\ row'.ver \in {row.ver, row.ver + 1}
                    /\ row'.val # row.val /\ row'.val # Null
                         => row'.iv = row'.ver /\ row'.iv > row.iv
<1>1. ASSUME IInv, TypeOK', NEW c \in Clients, NEW f, CommitEnabled(c), Commit(c, f) PROVE A
  <2> SUFFICES ASSUME row'.ver # 0, row.ver # 0, ~overlap' PROVE A
    OBVIOUS
  <2>1. LuaW(c) /\ HistW(c, f)
    BY <1>1 DEF Commit, LuaD, NoRow
  <2>2. row'.ver = row.ver + 1
    BY <2>1 DEF LuaW
  <2>3. /\ row'.val = req[c].val
        /\ (req[c].val # Null /\ req[c].val # row.val) => row'.iv = row.ver + 1
    BY <1>1, <2>1, CleanRow DEF IInv
  <2>4. row.iv <= row.ver /\ row.iv \in Nat /\ row.ver \in Nat
    BY <1>1 DEF IInv, Base, RowShape, TypeOK, Row
  <2>5. QED BY <2>2, <2>3, <2>4
<1>2. ASSUME IInv, TypeOK', [Next]_vars PROVE [A]_vars
  <2>1. ASSUME NEW c \in Clients, Start(c) \/ ClientStep(c) \/ Fault(c) PROVE row' = row \/ A
    <3>1. CASE RowLua(c) \/ RowLuaReplyLost(c)
      BY <1>1, <1>2, <3>1 DEF RowLua, RowLuaReplyLost
    <3>2. CASE ~(RowLua(c) \/ RowLuaReplyLost(c))
      BY <2>1, <3>2 DEF Start, StartWrite, StartDelete, ClientStep, Fault, Preread, DeleteNothing,
         ReadReceipt, CasMismatch, Stale, Zrem, Zadd, Register, Done, GiveUp, Resend, SegmentLost, store
    <3>3. QED BY <3>1, <3>2
  <2>2. CASE ExpireRow \/ ExpireReceipt
    BY <2>2 DEF ExpireRow, ExpireReceipt, NoRow
  <2>3. CASE UNCHANGED vars
    BY <2>3
  <2>4. QED BY <1>2, <2>1, <2>2, <2>3 DEF Next
<1>3. QED BY <1>2, Invariance, TypeCorrect, PTL DEF Spec, VersionsGrow

(***************************************************************************)
(* The sweepers beside it.                                                 *)
(***************************************************************************)
(***************************************************************************)
(* The inductive invariant.                                                *)
(***************************************************************************)
\* A row that was born clear of the sweeps meets none in its client segment.
SweepersAway == (Live /\ ~late) => \A s \in Sweepers : spc[s] # "clean"

\* What a sweep still has to remove is among what it read.
SweeperShape ==
    \A s \in Sweepers : IF spc[s] = "clean" THEN srem[s] \subseteq srcpt[s] ELSE srem[s] = {} /\ ~sreg[s]

\* The row's own member.
Current == IF row.val = Null THEN {} ELSE {MemberOf(row)}

\* The members whose removal somebody has taken on.
Pending == (UNION {rem[c] : c \in Clients}) \cup (UNION {srem[s] : s \in Sweepers})

\* An index segment is that of the commit that made the row what it is.
SegmentsCurrent ==
    /\ \A c, d \in Clients : pc[c] = "index" /\ pc[d] = "index" => c = d
    /\ \A c \in Clients : pc[c] = "index" =>
          IF req[c].op = "W" THEN Live /\ RedoList(c) \subseteq Current ELSE ~Live /\ rcpt = {}

\* A sweep cleans up after a row that is dead and whose receipt is gone.
SweepsCurrent == \A s \in Sweepers : spc[s] = "clean" => ~Live /\ rcpt = {}

\* The stamp and the receipt are those of the row.
RowCurrent ==
    /\ row.val # Null => row.iv > 0
    /\ row.ttl => rcpt = Current

\* Every member in the index is the row's, or on the receipt of the dead row, or about to go.
Accounted == idx \subseteq Current \cup (IF Live THEN {} ELSE rcpt) \cup Pending

\* A live row and a receipt that nobody has read are known to the register.
Known ==
    /\ Live => exp # "none" \/ \E c \in Clients : reg[c] \in {"inf", "due"}
    /\ ~Live /\ rcpt # {} => exp # "none"

Tidy == SegmentsCurrent /\ SweepsCurrent /\ RowCurrent /\ Accounted /\ Known

SInv ==
    /\ STypeOK /\ Base /\ SweeperShape /\ SweepersAway /\ SweepSpares
    /\ raced \/ orphaned \/ Tidy

(***************************************************************************)
(* The sweepers' own steps.                                                *)
(***************************************************************************)
SweepPcs == {"idle", "find", "read", "lua", "clean"}

LEMMA RestType ==
    ASSUME STypeOK, NEW s \in Sweepers, Rest(s)
    PROVE  /\ spc' \in [Sweepers -> SweepPcs] /\ srcpt' \in [Sweepers -> SUBSET Member]
           /\ srem' \in [Sweepers -> SUBSET Member] /\ sreg' \in [Sweepers -> BOOLEAN]
           /\ ssent' \in [Sweepers -> Nat]
           /\ spc'[s] = "idle" /\ srem'[s] = {} /\ ~sreg'[s]
           /\ \A t \in Sweepers : t # s => spc'[t] = spc[t] /\ srem'[t] = srem[t]
                                         /\ sreg'[t] = sreg[t] /\ srcpt'[t] = srcpt[t]
BY DEF STypeOK, Rest, SweepPcs

\* What a step of the sweepers does to the store: it never touches the row or the
\* calls, a receipt goes when the row is dead, members and the register entry go
\* when a sweep is in its client segment, which it enters on a dead row.
SweepEffect ==
    /\ UNCHANGED <<row, calls, hist, late, raced>>
    /\ rcpt' = rcpt \/ (~Live /\ rcpt' = {})
    /\ (idx' = idx /\ exp' = exp) \/ \E s \in Sweepers : spc[s] = "clean"
    /\ idx' \subseteq idx /\ exp' \in {exp, "none"}
    /\ \A s \in Sweepers : spc'[s] = "clean" => spc[s] = "clean" \/ (~Live /\ rcpt' = {})

LEMMA SweeperSteps ==
    ASSUME STypeOK, SweeperShape, NEW s \in Sweepers, SweeperStep(s) \/ SweepResend(s) \/ SweepFails(s)
    PROVE  STypeOK' /\ SweeperShape' /\ SweepEffect
<1> USE DEF vars, store, calls, hist, SweepPcs
<1>T. /\ TypeOK /\ spc \in [Sweepers -> SweepPcs] /\ srcpt \in [Sweepers -> SUBSET Member]
      /\ srem \in [Sweepers -> SUBSET Member] /\ sreg \in [Sweepers -> BOOLEAN]
      /\ ssent \in [Sweepers -> Nat] /\ rcpt \in SUBSET Member
  BY DEF STypeOK, TypeOK
<1>V. ASSUME UNCHANGED vars PROVE TypeOK' BY <1>T, <1>V DEF TypeOK
<1>R. ASSUME Rest(s), UNCHANGED <<vars, lock, late, raced>>, orphaned' \in BOOLEAN
      PROVE  STypeOK' /\ SweeperShape' /\ SweepEffect
  <2>1. STypeOK' BY <1>R, <1>V, RestType DEF STypeOK
  <2>2. SweeperShape' BY <1>R, RestType DEF SweeperShape
  <2>3. SweepEffect BY <1>R, RestType DEF SweepEffect
  <2>4. QED BY <2>1, <2>2, <2>3
<1>1. CASE TakeLock(s)
  <2>1. STypeOK' BY <1>1, <1>T, <1>V DEF TakeLock, STypeOK
  <2>2. SweeperShape' BY <1>1, <1>T DEF TakeLock, SweeperShape
  <2>3. SweepEffect BY <1>1, <1>T DEF TakeLock, SweepEffect
  <2>4. QED BY <2>1, <2>2, <2>3
<1>2. CASE Find(s)
  <2>1. STypeOK' BY <1>2, <1>T, <1>V DEF Find, STypeOK
  <2>2. SweeperShape' BY <1>2, <1>T DEF Find, SweeperShape
  <2>3. SweepEffect BY <1>2, <1>T DEF Find, SweepEffect
  <2>4. QED BY <2>1, <2>2, <2>3
<1>3. CASE FindNothing(s) BY <1>3, <1>R DEF FindNothing, STypeOK
<1>4. CASE ReadRcpt(s)
  <2>1. STypeOK' BY <1>4, <1>T, <1>V DEF ReadRcpt, STypeOK
  <2>2. SweeperShape' BY <1>4, <1>T DEF ReadRcpt, SweeperShape
  <2>3. SweepEffect BY <1>4, <1>T DEF ReadRcpt, SweepEffect
  <2>4. QED BY <2>1, <2>2, <2>3
<1>5. CASE SweepBatch(s)
  <2>0. orphaned' \in BOOLEAN BY <1>5 DEF SweepBatch, STypeOK
  <2>1. CASE Live
    BY <1>5, <2>0, <2>1, <1>R DEF SweepBatch
  <2>2. CASE ~Live
    <3>1. /\ rcpt' = {} /\ spc' = [spc EXCEPT ![s] = "clean"] /\ srem' = [srem EXCEPT ![s] = srcpt[s]]
          /\ sreg' = [sreg EXCEPT ![s] = TRUE]
          /\ UNCHANGED <<srcpt, ssent, row, idx, exp, calls, hist, lock, late, raced>>
      BY <1>5, <2>2 DEF SweepBatch
    <3>2. TypeOK' BY <1>T, <3>1 DEF TypeOK
    <3>3. STypeOK' BY <1>T, <2>0, <3>1, <3>2 DEF STypeOK
    <3>4. SweeperShape' BY <1>T, <3>1 DEF SweeperShape
    <3>5. SweepEffect BY <1>T, <2>2, <3>1 DEF SweepEffect
    <3>6. QED BY <3>3, <3>4, <3>5
  <2>3. QED BY <2>1, <2>2
<1>6. ASSUME NEW m \in srem[s], CleanMember(s, m) PROVE STypeOK' /\ SweeperShape' /\ SweepEffect
  <2>1. TypeOK' BY <1>6, <1>T DEF CleanMember, TypeOK
  <2>2. STypeOK' BY <1>6, <1>T, <2>1 DEF CleanMember, STypeOK
  <2>3. SweeperShape' BY <1>6, <1>T DEF CleanMember, SweeperShape
  <2>4. SweepEffect BY <1>6, <1>T DEF CleanMember, SweepEffect
  <2>5. QED BY <2>2, <2>3, <2>4
<1>7. CASE CleanRegister(s)
  <2>1. TypeOK' BY <1>7, <1>T DEF CleanRegister, TypeOK
  <2>2. STypeOK' BY <1>7, <1>T, <2>1 DEF CleanRegister, STypeOK
  <2>3. SweeperShape' BY <1>7, <1>T DEF CleanRegister, SweeperShape
  <2>4. SweepEffect BY <1>7, <1>T DEF CleanRegister, SweepEffect
  <2>5. QED BY <2>2, <2>3, <2>4
<1>8. CASE SweepDone(s) BY <1>8, <1>R DEF SweepDone, STypeOK
<1>9. CASE SweepResend(s)
  <2>1. STypeOK' BY <1>9, <1>T, <1>V DEF SweepResend, STypeOK
  <2>2. SweeperShape' BY <1>9, <1>T DEF SweepResend, SweeperShape
  <2>3. SweepEffect BY <1>9, <1>T DEF SweepResend, SweepEffect
  <2>4. QED BY <2>1, <2>2, <2>3
<1>10. CASE SweepFails(s)
  <2>1. orphaned' \in BOOLEAN BY <1>10 DEF SweepFails, STypeOK
  <2>2. QED BY <1>10, <2>1, <1>R DEF SweepFails
<1>11. QED
  BY <1>1, <1>2, <1>3, <1>4, <1>5, <1>6, <1>7, <1>8, <1>9, <1>10 DEF SweeperStep

\* The writers' base invariant does not see the sweepers.
LEMMA BaseUnderSweep ==
    ASSUME Base, TypeOK', SweepEffect
    PROVE  Base'
<1>1. /\ UNCHANGED <<row, pc, req, snap, rsnap, rem, add, reg, seen, inc, overlap, fault>>
      /\ rcpt' = rcpt \/ ~Live
  BY DEF SweepEffect, calls, hist
<1>2. RowShape' /\ SnapShape'
  BY <1>1 DEF Base, RowShape, SnapShape, SnapOK
<1>3. SegmentShape'
  BY <1>1 DEF Base, SegmentShape, SegmentOK, Drained, UndoList, RedoList, RegOf
<1>4. UndoIsOlder'
  BY <1>1 DEF Base, UndoIsOlder, UndoOK, UndoList, RedoList, Live, MemberOf, IvOf
<1>5. ReceiptCoversRow'
  <2>1. CASE rcpt' = rcpt BY <1>1, <2>1 DEF Base, ReceiptCoversRow, MemberOf, IvOf
  <2>2. CASE ~Live
    <3>1. row = NoRow BY <2>2 DEF Live, Base, RowShape, TypeOK, Row
    <3>2. QED BY <1>1, <3>1 DEF ReceiptCoversRow, NoRow
  <2>3. QED BY <1>1, <2>1, <2>2
<1>6. QED BY <1>2, <1>3, <1>4, <1>5 DEF Base

LEMMA DeadRow ==
    ASSUME Base, ~Live
    PROVE  row = NoRow /\ row.val = Null /\ ~row.ttl /\ Current = {}
<1>1. row = NoRow BY DEF Live, Base, RowShape, TypeOK, Row
<1>2. QED BY <1>1 DEF NoRow, Current

\* A sweep in its client segment works on a dead row, or on one that is on record as late.
LEMMA SparesUnderSweep ==
    ASSUME Base, STypeOK, SweepersAway, SweepSpares, SweepEffect
    PROVE  SweepersAway' /\ SweepSpares'
<1>1. UNCHANGED <<row, pc, add, reg, overlap, fault, late>>
  BY DEF SweepEffect, calls, hist
<1>2. SweepersAway' BY <1>1 DEF SweepEffect, SweepersAway, Live
<1>3. CASE idx' = idx /\ exp' = exp
  BY <1>1, <1>2, <1>3 DEF SweepSpares, Indexed, Live, MemberOf, IvOf
<1>4. CASE \E s \in Sweepers : spc[s] = "clean"
  <2>1. ~Live \/ late BY <1>4 DEF SweepersAway
  <2>2. CASE late BY <1>1, <1>2, <2>2 DEF SweepSpares
  <2>3. CASE ~Live
    <3>1. row.val = Null BY <2>3, DeadRow
    <3>2. QED BY <1>1, <1>2, <2>3, <3>1 DEF SweepSpares, Indexed, Live
  <2>4. QED BY <2>1, <2>2, <2>3
<1>5. QED BY <1>3, <1>4 DEF SweepEffect

\* A writer's step: what holds of the index and the register without sweepers holds
\* here of every row that is not late.
LEMMA SparesUnderWriter ==
    ASSUME STypeOK, Base, SweepersAway, SweepSpares, WriterStep
    PROVE  STypeOK' /\ Base' /\ SweepersAway' /\ SweepSpares'
<1>1. Keeps BY BaseStep DEF WriterStep
<1>2. TypeOK' /\ Base' BY <1>1 DEF Keeps, Base
<1>3. STypeOK'
  <2>1. late' \in BOOLEAN BY DEF WriterStep, STypeOK
  <2>2. raced' \in BOOLEAN /\ orphaned' \in BOOLEAN BY DEF WriterStep, STypeOK
  <2>3. QED BY <1>2, <2>1, <2>2 DEF WriterStep, STypeOK
<1>4. row \in Row /\ row' \in Row BY <1>2 DEF STypeOK, TypeOK
<1>5. late' = (IF row.ver = 0 /\ row'.ver # 0 THEN \E s \in Sweepers : spc[s] = "clean" ELSE late)
      /\ spc' = spc
  BY DEF WriterStep
<1>6. SweepersAway'
  BY <1>4, <1>5 DEF SweepersAway, Live, Row
<1>7. SweepSpares'
  <2> SUFFICES ASSUME ~overlap', ~late', fault' = "none"
               PROVE  Indexed' /\ (Live' => \/ exp' # "none"
                                            \/ \E c \in Clients : reg'[c] \in {"inf", "due"})
    BY DEF SweepSpares
  <2>1. NoMiss /\ Registered
    <3>1. CASE ~Live
      <4>1. row.val = Null BY <3>1, DeadRow
      <4>2. QED BY <3>1, <4>1 DEF NoMiss, Registered, Indexed
    <3>2. CASE Live
      <4>1. ~late BY <1>4, <1>5, <3>2 DEF Live, Row
      <4>2. QED BY <4>1 DEF SweepSpares, NoMiss, Registered
    <3>3. QED BY <3>1, <3>2
  <2>2. NoMiss' /\ Registered' BY <1>1, <2>1 DEF Keeps
  <2>3. QED BY <2>2 DEF NoMiss, Registered
<1>8. QED BY <1>2, <1>3, <1>6, <1>7

(***************************************************************************)
(* Nothing is left behind: the steps of the sweepers.                      *)
(***************************************************************************)
LEMMA PendingMember ==
    \A m : m \in Pending <=> (\E c \in Clients : m \in rem[c]) \/ (\E s \in Sweepers : m \in srem[s])
<1>1. \A m : m \in UNION {rem[c] : c \in Clients} <=> \E c \in Clients : m \in rem[c] BY Zenon
<1>2. \A m : m \in UNION {srem[s] : s \in Sweepers} <=> \E s \in Sweepers : m \in srem[s] BY Zenon
<1>3. \A m, A, B : m \in A \cup B <=> m \in A \/ m \in B OBVIOUS
<1>4. QED BY <1>1, <1>2, <1>3, Zenon DEF Pending

LEMMA PendingMemberPrime ==
    \A m : m \in Pending' <=> (\E c \in Clients : m \in rem'[c]) \/ (\E s \in Sweepers : m \in srem'[s])
<1>1. \A m : m \in UNION {rem'[c] : c \in Clients} <=> \E c \in Clients : m \in rem'[c] BY Zenon
<1>2. \A m : m \in UNION {srem'[s] : s \in Sweepers} <=> \E s \in Sweepers : m \in srem'[s] BY Zenon
<1>3. \A m, A, B : m \in A \cup B <=> m \in A \/ m \in B OBVIOUS
<1>4. QED BY <1>1, <1>2, <1>3, Zenon DEF Pending

\* The members a sweep lets go of are gone from the index, or were on the receipt.
LEMMA AccountedUnderSweep ==
    ASSUME STypeOK, SweeperShape, Accounted, NEW s \in Sweepers, ~orphaned',
           SweeperStep(s) \/ SweepResend(s) \/ SweepFails(s), SweepEffect
    PROVE  Accounted'
<1>0. /\ UNCHANGED <<row, rem>> /\ idx' \subseteq idx /\ (rcpt' = rcpt \/ (~Live /\ rcpt' = {}))
      /\ Current' = Current /\ (Live' <=> Live)
  BY DEF SweepEffect, calls, hist, Current, MemberOf, IvOf, Live
<1>1. ASSUME NEW m \in idx', m \notin Current, ~(~Live /\ m \in rcpt')
      PROVE  m \in Pending'
  <2>0. (~Live /\ m \in rcpt) \/ m \in Pending BY <1>0, <1>1 DEF Accounted
  <2>1. ASSUME UNCHANGED <<rcpt, srem>> PROVE m \in Pending'
    BY <1>0, <1>1, <2>0, <2>1, PendingMember, PendingMemberPrime
  <2>2. ASSUME Rest(s), UNCHANGED rcpt, srem[s] = {} PROVE m \in Pending'
    <3>1. \A t \in Sweepers : srem'[t] = srem[t] BY <2>2, RestType
    <3>2. QED BY <1>0, <1>1, <2>0, <2>2, <3>1, PendingMember, PendingMemberPrime
  <2>3. CASE TakeLock(s) \/ Find(s) \/ ReadRcpt(s) \/ CleanRegister(s)
    BY <2>1, <2>3 DEF TakeLock, Find, ReadRcpt, CleanRegister, vars, store
  <2>4. CASE FindNothing(s)
    BY <2>2, <2>4 DEF FindNothing, vars, store, SweeperShape
  <2>5. CASE SweepBatch(s)
    <3>1. CASE Live
      BY <2>2, <2>5, <3>1 DEF SweepBatch, SweeperShape
    <3>2. CASE ~Live
      <4>1. rcpt = srcpt[s] /\ srem' = [srem EXCEPT ![s] = srcpt[s]] /\ srem[s] = {}
        BY <2>5, <3>2 DEF SweepBatch, SweeperShape
      <4>2. srem'[s] = rcpt /\ \A t \in Sweepers : t # s => srem'[t] = srem[t]
        BY <4>1 DEF STypeOK
      <4>3. QED BY <1>0, <2>0, <4>1, <4>2, PendingMember, PendingMemberPrime
    <3>3. QED BY <3>1, <3>2
  <2>6. ASSUME NEW u \in srem[s], CleanMember(s, u) PROVE m \in Pending'
    <3>1. /\ idx' = idx \ {u} /\ UNCHANGED rcpt /\ srem'[s] = srem[s] \ {u}
          /\ \A t \in Sweepers : t # s => srem'[t] = srem[t]
      BY <2>6 DEF CleanMember, STypeOK
    <3>2. m # u BY <1>1, <3>1
    <3>3. QED BY <1>0, <1>1, <2>0, <3>1, <3>2, PendingMember, PendingMemberPrime
  <2>7. CASE SweepDone(s)
    BY <2>2, <2>7 DEF SweepDone, vars, store
  <2>8. CASE SweepResend(s)
    <3>1. /\ UNCHANGED rcpt /\ srem'[s] = srcpt[s] /\ spc[s] = "clean"
          /\ \A t \in Sweepers : t # s => srem'[t] = srem[t]
      BY <2>8 DEF SweepResend, STypeOK, vars, store
    <3>2. srem[s] \subseteq srem'[s] BY <3>1 DEF SweeperShape
    <3>3. QED BY <1>0, <1>1, <2>0, <3>1, <3>2, PendingMember, PendingMemberPrime
  <2>9. CASE SweepFails(s)
    BY <2>2, <2>9 DEF SweepFails, vars, store
  <2>10. QED
    BY <2>3, <2>4, <2>5, <2>6, <2>7, <2>8, <2>9 DEF SweeperStep
<1>2. QED BY <1>0, <1>1 DEF Accounted

LEMMA TidyUnderSweep ==
    ASSUME STypeOK, Base, SweeperShape, Tidy, NEW s \in Sweepers, ~orphaned',
           SweeperStep(s) \/ SweepResend(s) \/ SweepFails(s), SweepEffect
    PROVE  Tidy'
<1>0. UNCHANGED <<row, pc, req, snap, rsnap, rem, reg>> /\ (rcpt' = rcpt \/ (~Live /\ rcpt' = {}))
  BY DEF SweepEffect, calls, hist
<1>1. Current' = Current /\ (Live' <=> Live) /\ \A c \in Clients : RedoList(c)' = RedoList(c)
  BY <1>0 DEF Current, MemberOf, IvOf, Live, RedoList
<1>2. SegmentsCurrent' BY <1>0, <1>1 DEF Tidy, SegmentsCurrent
<1>3. SweepsCurrent' BY <1>0, <1>1 DEF Tidy, SweepsCurrent, SweepEffect
<1>4. RowCurrent'
  <2>1. ~Live => ~row.ttl BY DeadRow
  <2>2. QED BY <1>0, <1>1, <2>1 DEF Tidy, RowCurrent
<1>5. Accounted' BY AccountedUnderSweep DEF Tidy
<1>6. Known'
  <2>1. CASE exp' = exp BY <1>0, <1>1, <2>1 DEF Tidy, Known
  <2>2. CASE exp' # exp
    <3>1. ~Live /\ rcpt = {} BY <2>2 DEF SweepEffect, Tidy, SweepsCurrent
    <3>2. QED BY <1>0, <1>1, <3>1 DEF Known
  <2>3. QED BY <2>1, <2>2
<1>7. QED BY <1>2, <1>3, <1>4, <1>5, <1>6 DEF Tidy

(***************************************************************************)
(* Nothing is left behind: the steps of the writers.                       *)
(***************************************************************************)
\* A step that leaves the row and the receipt alone and drops no command.
LEMMA TidyLocal ==
    ASSUME Base, Tidy, NEW c \in Clients, UNCHANGED <<row, rcpt, spc, srem>>,
           \A d \in Clients \ {c} : Same(d),
           pc'[c] = "index" => pc[c] = "index" /\ UNCHANGED <<req, snap, rsnap>>,
           \A m \in idx' : m \in Current \/ (m \in idx /\ (m \in rem[c] => m \in rem'[c])),
           Live => exp' # "none" \/ \E d \in Clients : reg'[d] \in {"inf", "due"},
           ~Live /\ rcpt # {} => exp' # "none"
    PROVE  Tidy'
<1>1. Current' = Current /\ (Live' <=> Live) BY DEF Current, MemberOf, IvOf, Live
<1>2. \A d \in Clients : pc'[d] = "index" => pc[d] = "index" /\ req'[d] = req[d] /\ RedoList(d)' = RedoList(d)
  <2>1. ASSUME NEW d \in Clients, d # c PROVE pc'[d] = pc[d] /\ req'[d] = req[d] /\ RedoList(d)' = RedoList(d)
    BY <2>1, SameLists DEF Same
  <2>2. pc'[c] = "index" => pc[c] = "index" /\ req'[c] = req[c] /\ RedoList(c)' = RedoList(c)
    BY DEF RedoList
  <2>3. QED BY <2>1, <2>2
<1>3. SegmentsCurrent' BY <1>1, <1>2 DEF Tidy, SegmentsCurrent
<1>4. SweepsCurrent' BY <1>1 DEF Tidy, SweepsCurrent
<1>5. RowCurrent' BY <1>1 DEF Tidy, RowCurrent
<1>6. Accounted'
  <2>1. ASSUME NEW m \in idx', m \notin Current PROVE (~Live /\ m \in rcpt) \/ m \in Pending'
    <3>1. (~Live /\ m \in rcpt) \/ m \in Pending BY <2>1 DEF Tidy, Accounted
    <3>2. \A d \in Clients : m \in rem[d] => m \in rem'[d] BY <2>1 DEF Same
    <3>3. QED BY <3>1, <3>2, PendingMember, PendingMemberPrime
  <2>2. QED BY <1>1, <2>1 DEF Accounted
<1>7. Known' BY <1>1 DEF Known
<1>8. QED BY <1>3, <1>4, <1>5, <1>6, <1>7 DEF Tidy

\* Outside the index segment a call has no commands.
LEMMA PrepareFacts ==
    ASSUME Base, NEW c \in Clients,
           \/ Start(c) \/ Preread(c) \/ DeleteNothing(c) \/ ReadReceipt(c)
           \/ CasMismatch(c) \/ Stale(c) \/ GiveUp(c)
    PROVE  /\ UNCHANGED <<row, rcpt, idx, exp>> /\ pc[c] # "index" /\ pc'[c] # "index"
           /\ \A d \in Clients \ {c} : Same(d)
           /\ rem[c] = {} /\ reg[c] = "skip"
<1>0. TypeOK /\ (pc[c] # "index" => rem[c] = {} /\ reg[c] = "skip")
  BY DEF Base, SegmentShape, SegmentOK, Drained
<1> USE <1>0 DEF store, hist, Same, TypeOK
<1>1. CASE Start(c) BY <1>1 DEF Start, StartWrite, StartDelete
<1>2. CASE Preread(c) BY <1>2 DEF Preread
<1>3. CASE ReadReceipt(c) BY <1>3 DEF ReadReceipt
<1>4. CASE DeleteNothing(c) BY <1>4 DEF DeleteNothing, Return
<1>5. CASE CasMismatch(c) BY <1>5 DEF CasMismatch, Return
<1>6. CASE GiveUp(c) BY <1>6 DEF GiveUp, Return
<1>7. CASE Stale(c)
  <2>1. CASE tries[c] + 1 < StaleRetries BY <1>7, <2>1 DEF Stale
  <2>2. CASE ~(tries[c] + 1 < StaleRetries) BY <1>7, <2>2 DEF Stale, Return
  <2>3. QED BY <2>1, <2>2
<1>8. QED BY <1>1, <1>2, <1>3, <1>4, <1>5, <1>6, <1>7

\* A commit that was prepared from the row and the receipt as they are, while no index
\* segment and no sweep's client segment runs: the old members are on its list.
LEMMA TidyCommit ==
    ASSUME STypeOK, Base, Base', SweeperShape, Tidy, NEW c \in Clients, RowLua(c), UNCHANGED <<spc, srem>>,
           \A d \in Clients : pc[d] # "index",
           row = snap[c], ~Live => rsnap[c] = rcpt,
           \/ Live \/ row'.ver = 0 \/ \A s \in Sweepers : spc[s] # "clean"
    PROVE  Tidy'
<1>0. /\ CommitEnabled(c) /\ Commit(c, "none") /\ UNCHANGED <<idx, exp, req, snap, rsnap>>
      /\ pc'[c] = "index" /\ rem'[c] = UndoList(c) /\ add'[c] = RedoList(c) /\ reg'[c] = RegOf(c)
      /\ \A d \in Clients \ {c} : Same(d)
  BY DEF RowLua, Same, Base, TypeOK
<1>1. \A d \in Clients : rem[d] = {} /\ reg[d] = "skip"
  BY DEF Base, SegmentShape, SegmentOK, Drained
<1>2. row \in Row /\ row' \in Row /\ req[c] \in Req /\ row.ver \in Nat
  BY DEF Base, TypeOK, Row
<1>3. RedoList(c)' = RedoList(c) BY <1>0 DEF RedoList
<1>4. \A d \in Clients : pc'[d] = "index" => d = c BY <1>0 DEF Same
<1>5. CASE req[c].op = "W"
  <2>0. LuaW(c) BY <1>0, <1>5 DEF Commit
  <2>1. /\ row'.ver = row.ver + 1 /\ row'.val = req[c].val
        /\ row'.iv = IF Redos(row, req[c].val) # {} THEN row.ver + 1 ELSE row.iv
        /\ row'.ttl = (IF req[c].mode = "keep" THEN row.ttl ELSE req[c].mode = "set")
        /\ rcpt' = IF req[c].mode = "none" THEN {} ELSE Receipts(row, req[c].val)
    BY <2>0 DEF LuaW
  <2>2. Live' /\ row'.ver # 0 BY <1>2, <2>1 DEF Live
  <2>3. \A s \in Sweepers : spc[s] # "clean"
    <3>1. CASE Live BY <3>1 DEF Tidy, SweepsCurrent
    <3>2. CASE ~Live BY <2>2, <3>2
    <3>3. QED BY <3>1, <3>2
  <2>4. row'.val # Null => row'.iv > 0
    <3>1. CASE req[c].val # row.val
      <4>1. req[c].val # Null => Redos(row, req[c].val) = {<<req[c].val, row.ver + 1>>} BY <3>1 DEF Redos
      <4>2. req[c].val # Null => row'.iv = row.ver + 1 BY <2>1, <4>1
      <4>3. QED BY <1>2, <2>1, <4>2
    <3>2. CASE req[c].val = row.val
      <4>1. row'.iv = row.iv BY <2>1, <3>2 DEF Redos
      <4>2. QED BY <2>1, <3>2, <4>1 DEF Tidy, RowCurrent
    <3>3. QED BY <3>1, <3>2
  <2>5. Current' = IF req[c].val = Null THEN {} ELSE {<<req[c].val, row'.iv>>}
    BY <2>1, <2>4 DEF Current, MemberOf, IvOf
  <2>6. RowCurrent'
    <3>1. row'.ttl => rcpt' = Receipts(row, req[c].val) BY <2>1
    <3>2. req[c].val # Null /\ req[c].val = row.val => IvOf(row) = row.iv
      BY DEF IvOf, Tidy, RowCurrent
    <3>3. Receipts(row, req[c].val) = Current'
      BY <2>1, <2>5, <3>2 DEF Receipts, Redos
    <3>4. QED BY <2>4, <3>1, <3>3 DEF RowCurrent
  <2>7. RedoList(c) \subseteq Current'
    BY <1>5, <2>1, <2>5 DEF RedoList, Redos
  <2>8. SegmentsCurrent' BY <1>0, <1>3, <1>4, <1>5, <2>2, <2>7 DEF SegmentsCurrent
  <2>9. SweepsCurrent' BY <2>3 DEF SweepsCurrent
  <2>10. Accounted'
    <3>1. \A s \in Sweepers : srem[s] = {} BY <2>3 DEF SweeperShape
    <3>2. \A m : m \notin Pending BY <1>1, <3>1, PendingMember
    <3>3. UndoList(c) = Undos(row, rsnap[c], req[c].val) BY <1>2, <1>5 DEF UndoList, Req
    <3>4. ASSUME NEW m \in idx' PROVE m \in Current' \/ m \in rem'[c]
      <4>1. m \in Current \/ (~Live /\ m \in rcpt) BY <1>0, <3>2, <3>4 DEF Tidy, Accounted
      <4>2. CASE ~Live /\ m \in rcpt BY <1>0, <3>3, <4>2 DEF Undos
      <4>3. CASE m \in Current
        <5>1. row.val # Null /\ m = MemberOf(row) BY <4>3 DEF Current
        <5>2. CASE req[c].val # row.val BY <1>0, <3>3, <5>1, <5>2 DEF Undos
        <5>3. CASE req[c].val = row.val
          <6>1. MemberOf(row) = <<row.val, row.iv>> BY <5>1 DEF MemberOf, IvOf, Tidy, RowCurrent
          <6>2. row'.iv = row.iv BY <2>1, <5>3 DEF Redos
          <6>3. QED BY <2>5, <5>1, <5>3, <6>1, <6>2
        <5>4. QED BY <5>2, <5>3
      <4>4. QED BY <4>1, <4>2, <4>3
    <3>5. QED BY <3>4, PendingMemberPrime DEF Accounted
  <2>11. Known'
    <3>1. CASE RegOf(c) = "skip"
      <4>1. Live BY <1>2, <1>5, <3>1 DEF RegOf, RegCmd, Req, TTLModes, Live, Row
      <4>2. exp # "none" BY <1>1, <4>1 DEF Tidy, Known
      <4>3. QED BY <1>0, <2>2, <4>2 DEF Known
    <3>2. CASE RegOf(c) # "skip"
      <4>1. RegOf(c) \in {"inf", "due"}
        <5>1. RegOf(c) = RegCmd(row, req[c].mode) /\ req[c].mode \in TTLModes
          BY <1>2, <1>5 DEF RegOf, Req
        <5>2. QED BY <3>2, <5>1 DEF RegCmd, TTLModes
      <4>2. QED BY <1>0, <2>2, <4>1 DEF Known
    <3>3. QED BY <3>1, <3>2
  <2>12. QED BY <2>6, <2>8, <2>9, <2>10, <2>11 DEF Tidy
<1>6. CASE req[c].op # "W"
  <2>1. row' = NoRow /\ rcpt' = {} BY <1>0, <1>6 DEF Commit, LuaD
  <2>2. ~Live' /\ Current' = {} /\ row'.val = Null /\ ~row'.ttl BY <2>1 DEF Live, NoRow, Current
  <2>3. req[c].op = "D" BY <1>2, <1>6 DEF Req
  <2>4. Live
    <3>1. snap[c].ver # 0 BY <1>0, <2>3 DEF Base, SnapShape, SnapOK, CommitEnabled
    <3>2. QED BY <1>2, <3>1 DEF Live
  <2>5. \A s \in Sweepers : spc[s] # "clean" BY <2>4 DEF Tidy, SweepsCurrent
  <2>6. SegmentsCurrent' BY <1>0, <1>4, <1>6, <2>1, <2>2 DEF SegmentsCurrent
  <2>7. SweepsCurrent' BY <2>5 DEF SweepsCurrent
  <2>8. RowCurrent' BY <2>2 DEF RowCurrent
  <2>9. Accounted'
    <3>1. \A s \in Sweepers : srem[s] = {} BY <2>5 DEF SweeperShape
    <3>2. \A m : m \notin Pending BY <1>1, <3>1, PendingMember
    <3>3. UndoList(c) = Undos(row, {}, Null) BY <2>3 DEF UndoList
    <3>4. ASSUME NEW m \in idx' PROVE m \in rem'[c]
      <4>1. m \in Current BY <1>0, <2>4, <3>2, <3>4 DEF Tidy, Accounted
      <4>2. QED BY <1>0, <3>3, <4>1 DEF Undos, Current
    <3>5. QED BY <3>4, PendingMemberPrime DEF Accounted
  <2>10. Known' BY <2>1, <2>2 DEF Known
  <2>11. QED BY <2>6, <2>7, <2>8, <2>9, <2>10 DEF Tidy
<1>7. QED BY <1>5, <1>6

\* The row expires: its receipt has its member, and nobody else has work on it.
LEMMA TidyExpire ==
    ASSUME Base, SweeperShape, Tidy, ExpireRow, UNCHANGED <<spc, srem>>, \A d \in Clients : pc[d] # "index"
    PROVE  Tidy'
<1>0. row.ttl /\ row' = NoRow /\ UNCHANGED <<rcpt, idx, exp, pc, req, snap, rsnap, rem, add, reg>>
  BY DEF ExpireRow, calls
<1>1. Live BY <1>0, DeadRow
<1>2. ~Live' /\ Current' = {} /\ row'.val = Null /\ ~row'.ttl BY <1>0 DEF Live, NoRow, Current
<1>3. rcpt = Current BY <1>0 DEF Tidy, RowCurrent
<1>4. \A d \in Clients : rem[d] = {} /\ reg[d] = "skip"
  BY DEF Base, SegmentShape, SegmentOK, Drained
<1>5. \A s \in Sweepers : spc[s] # "clean" BY <1>1 DEF Tidy, SweepsCurrent
<1>6. \A s \in Sweepers : srem[s] = {} BY <1>5 DEF SweeperShape
<1>7. \A m : m \notin Pending BY <1>4, <1>6, PendingMember
<1>8. Accounted' BY <1>0, <1>1, <1>2, <1>3, <1>7 DEF Tidy, Accounted
<1>9. Known' BY <1>0, <1>1, <1>2, <1>4 DEF Tidy, Known
<1>10. SegmentsCurrent' /\ SweepsCurrent' /\ RowCurrent'
  BY <1>0, <1>2, <1>5 DEF SegmentsCurrent, SweepsCurrent, RowCurrent
<1>11. QED BY <1>8, <1>9, <1>10 DEF Tidy

LEMMA TidyUnderWriter ==
    ASSUME STypeOK, Base, Base', SweeperShape, Tidy, WriterStep, ~raced', ~orphaned'
    PROVE  Tidy'
<1>0. /\ UNCHANGED <<spc, srem>> /\ fault' = "none"
      /\ row' # row => \A d \in Clients : pc[d] # "index"
      /\ Live \/ row'.ver = 0 \/ \A s \in Sweepers : spc[s] # "clean"
      /\ ~(~Live /\ row'.ver = 0 /\ rcpt' # rcpt)
      /\ \A d \in Clients : pc'[d] = "index" => ~Misread(d)
  BY DEF WriterStep
<1>T. TypeOK BY DEF Base
<1>K. /\ Live => exp # "none" \/ \E d \in Clients : reg[d] \in {"inf", "due"}
      /\ ~Live /\ rcpt # {} => exp # "none"
  BY DEF Tidy, Known
<1>1. ASSUME NEW c \in Clients,
             \/ Start(c) \/ Preread(c) \/ DeleteNothing(c) \/ ReadReceipt(c)
             \/ CasMismatch(c) \/ Stale(c) \/ GiveUp(c)
      PROVE  Tidy'
  <2>1. /\ UNCHANGED <<row, rcpt, idx, exp>> /\ pc'[c] # "index" /\ rem[c] = {} /\ reg[c] = "skip"
        /\ \A d \in Clients \ {c} : Same(d)
    BY <1>1, PrepareFacts
  <2>2. Live => exp' # "none" \/ \E d \in Clients : reg'[d] \in {"inf", "due"}
    BY <1>K, <2>1 DEF Same
  <2>3. \A m \in idx' : m \in Current \/ (m \in idx /\ (m \in rem[c] => m \in rem'[c])) BY <2>1
  <2>4. QED BY <1>0, <1>K, <2>1, <2>2, <2>3, TidyLocal
<1>2. ASSUME NEW c \in Clients, RowLua(c) PROVE Tidy'
  <2>1. /\ row' # row /\ pc[c] = "lua" /\ pc'[c] = "index"
    <3>1. /\ pc[c] = "lua" /\ pc'[c] = "index" /\ row.ver = snap[c].ver
          /\ Commit(c, "none")
      BY <1>2, <1>T DEF RowLua, CommitEnabled, TypeOK
    <3>2. CASE req[c].op = "W"
      BY <1>T, <3>1, <3>2 DEF Commit, LuaW, TypeOK, Row
    <3>3. CASE req[c].op # "W"
      <4>1. req[c].op = "D" BY <1>T, <3>3 DEF TypeOK, Req
      <4>2. row.ver # 0 BY <3>1, <4>1 DEF Base, SnapShape, SnapOK
      <4>3. row' = NoRow BY <3>1, <3>3 DEF Commit, LuaD
      <4>4. QED BY <3>1, <4>2, <4>3 DEF NoRow
    <3>4. QED BY <3>1, <3>2, <3>3
  <2>2. row = snap[c] /\ (~Live => rsnap[c] = rcpt) BY <1>0, <2>1 DEF Misread
  <2>3. QED BY <1>0, <1>2, <2>1, <2>2, TidyCommit
<1>3. ASSUME NEW c \in Clients, NEW m \in rem[c], Zrem(c, m) PROVE Tidy'
  <2>1. /\ pc' = pc /\ idx' = idx \ {m} /\ rem'[c] = rem[c] \ {m} /\ reg' = reg
        /\ UNCHANGED <<row, rcpt, exp, req, snap, rsnap>>
        /\ pc[c] = "index" /\ \A d \in Clients \ {c} : Same(d)
    BY <1>3, <1>T DEF Zrem, TypeOK, Same, hist
  <2>2. \A u \in idx' : u \in Current \/ (u \in idx /\ (u \in rem[c] => u \in rem'[c])) BY <2>1
  <2>3. QED BY <1>0, <1>K, <2>1, <2>2, TidyLocal
<1>4. ASSUME NEW c \in Clients, NEW m \in add[c], Zadd(c, m) PROVE Tidy'
  <2>1. /\ pc' = pc /\ idx' = idx \cup {m} /\ rem' = rem /\ reg' = reg
        /\ UNCHANGED <<row, rcpt, exp, req, snap, rsnap>>
        /\ pc[c] = "index" /\ \A d \in Clients \ {c} : Same(d)
    BY <1>4, <1>T DEF Zadd, TypeOK, Same, hist
  <2>2. m \in RedoList(c) BY DEF Base, SegmentShape, SegmentOK
  <2>3. req[c].op = "W" BY <1>T, <2>2 DEF RedoList, TypeOK, Req
  <2>4. m \in Current BY <2>1, <2>2, <2>3 DEF Tidy, SegmentsCurrent
  <2>5. \A u \in idx' : u \in Current \/ (u \in idx /\ (u \in rem[c] => u \in rem'[c])) BY <2>1, <2>4
  <2>6. QED BY <1>0, <1>K, <2>1, <2>5, TidyLocal
<1>5. ASSUME NEW c \in Clients, Register(c) PROVE Tidy'
  <2>1. /\ pc' = pc /\ idx' = idx /\ rem' = rem /\ reg[c] # "skip"
        /\ exp' = (IF reg[c] = "rem" THEN "none" ELSE reg[c])
        /\ UNCHANGED <<row, rcpt, req, snap, rsnap>>
        /\ pc[c] = "index" /\ \A d \in Clients \ {c} : Same(d)
    BY <1>5, <1>T DEF Register, TypeOK, Same, hist
  <2>2. CASE req[c].op = "W"
    <3>1. Live BY <2>1, <2>2 DEF Tidy, SegmentsCurrent
    <3>2. reg[c] = RegCmd(snap[c], req[c].mode)
      BY <2>1, <2>2 DEF Base, SegmentShape, SegmentOK, RegOf
    <3>3. req[c].mode \in TTLModes BY <1>T DEF TypeOK, Req
    <3>4. reg[c] \in {"inf", "due"} BY <2>1, <3>2, <3>3 DEF RegCmd, TTLModes
    <3>5. exp' # "none" BY <2>1, <3>4
    <3>6. QED BY <1>0, <2>1, <3>5, TidyLocal
  <2>3. CASE req[c].op # "W"
    <3>1. ~Live /\ rcpt = {} BY <2>1, <2>3 DEF Tidy, SegmentsCurrent
    <3>2. QED BY <1>0, <2>1, <3>1, TidyLocal
  <2>4. QED BY <2>2, <2>3
<1>6. ASSUME NEW c \in Clients, Resend(c) PROVE Tidy'
  <2>1. /\ pc' = pc /\ rem'[c] = UndoList(c) /\ reg'[c] = RegOf(c)
        /\ UNCHANGED <<row, rcpt, idx, exp, req, snap, rsnap>>
        /\ pc[c] = "index" /\ \A d \in Clients \ {c} : Same(d)
    BY <1>6, <1>T DEF Resend, TypeOK, Same, hist, store
  <2>2. rem[c] \subseteq rem'[c] /\ reg[c] \in {"skip", reg'[c]}
    BY <2>1 DEF Base, SegmentShape, SegmentOK
  <2>3. \A d \in Clients : reg[d] \in {"inf", "due"} => reg'[d] \in {"inf", "due"}
    BY <2>1, <2>2 DEF Same
  <2>4. QED BY <1>0, <1>K, <2>1, <2>2, <2>3, TidyLocal
<1>7. ASSUME NEW c \in Clients, Done(c) PROVE Tidy'
  <2>1. /\ pc'[c] = "idle" /\ rem[c] = {} /\ reg[c] = "skip"
        /\ UNCHANGED <<row, rcpt, idx, exp>> /\ \A d \in Clients \ {c} : Same(d)
    BY <1>7, <1>T DEF Done, Return, Drained, TypeOK, Same, store
  <2>2. Live => exp' # "none" \/ \E d \in Clients : reg'[d] \in {"inf", "due"}
    BY <1>K, <2>1 DEF Same
  <2>3. QED BY <1>0, <1>K, <2>1, <2>2, TidyLocal
<1>8. ASSUME NEW c \in Clients, SegmentLost(c) \/ RowLuaReplyLost(c) PROVE FALSE
  <2>1. CASE SegmentLost(c) BY <1>0, <2>1 DEF SegmentLost
  <2>2. CASE RowLuaReplyLost(c)
    <3>1. HistW(c, "reply") \/ HistD("reply") BY <2>2 DEF RowLuaReplyLost, Commit
    <3>2. QED BY <1>0, <3>1 DEF HistW, HistD
  <2>3. QED BY <1>8, <2>1, <2>2
<1>9. CASE ExpireRow
  <2>1. Live BY <1>9, DeadRow DEF ExpireRow
  <2>2. row' # row BY <1>9, <2>1 DEF ExpireRow, Live, NoRow
  <2>3. QED BY <1>0, <1>9, <2>2, TidyExpire
<1>10. CASE ExpireReceipt
  BY <1>0, <1>10 DEF ExpireReceipt, Live
<1>11. QED
  BY <1>1, <1>2, <1>3, <1>4, <1>5, <1>6, <1>7, <1>8, <1>9, <1>10 DEF WriterStep, Next, ClientStep, Fault

(***************************************************************************)
(* The invariant.                                                          *)
(***************************************************************************)
LEMMA SInvInit == SInit => SInv
<1> SUFFICES ASSUME SInit PROVE SInv OBVIOUS
<1>1. Init BY DEF SInit
<1>2. IInv BY <1>1, InitInv
<1>3. Base BY <1>2 DEF IInv
<1>4. STypeOK BY <1>3 DEF SInit, STypeOK, Base
<1>5. row = NoRow /\ row.ver = 0 /\ row.val = Null /\ ~row.ttl /\ ~Live BY <1>1 DEF Init, NoRow, Live
<1>6. SweeperShape /\ SweepersAway BY <1>5 DEF SInit, SweeperShape, SweepersAway
<1>7. SweepSpares BY <1>5 DEF SweepSpares, Indexed
<1>8. Tidy
  <2>1. SegmentsCurrent /\ SweepsCurrent BY <1>1 DEF SInit, Init, SegmentsCurrent, SweepsCurrent
  <2>2. RowCurrent /\ Known BY <1>1, <1>5 DEF Init, RowCurrent, Known
  <2>3. Accounted BY <1>1 DEF Init, Accounted
  <2>4. QED BY <2>1, <2>2, <2>3 DEF Tidy
<1>9. QED BY <1>3, <1>4, <1>6, <1>7, <1>8 DEF SInv

\* A step that leaves the store, the calls and the sweeps alone.
LEMMA SInvStutter ==
    ASSUME SInv, UNCHANGED <<vars, spc, srcpt, srem, sreg, ssent, late, raced, orphaned>>, lock' \in BOOLEAN
    PROVE  SInv'
<1> USE DEF vars, store, calls, hist
<1>1. Base'
  <2>1. UNCHANGED vars BY DEF vars
  <2>2. QED BY <2>1, BaseStep DEF SInv, Keeps
<1>2. STypeOK' BY <1>1 DEF SInv, STypeOK, Base
<1>3. SweeperShape' BY DEF SInv, SweeperShape
<1>4. SweepersAway' BY DEF SInv, SweepersAway, Live
<1>5. SweepSpares' BY DEF SInv, SweepSpares, Indexed, Live, MemberOf, IvOf
<1>6. Current' = Current /\ (Live' <=> Live) /\ Pending' = Pending
      /\ \A c \in Clients : RedoList(c)' = RedoList(c)
  BY DEF Current, Pending, MemberOf, IvOf, Live, RedoList
<1>7. Tidy => Tidy'
  <2> SUFFICES ASSUME Tidy PROVE Tidy' OBVIOUS
  <2>1. SegmentsCurrent' BY <1>6 DEF Tidy, SegmentsCurrent
  <2>2. SweepsCurrent' BY <1>6 DEF Tidy, SweepsCurrent
  <2>3. RowCurrent' BY <1>6 DEF Tidy, RowCurrent
  <2>4. Accounted' BY <1>6 DEF Tidy, Accounted
  <2>5. Known' BY <1>6 DEF Tidy, Known
  <2>6. QED BY <2>1, <2>2, <2>3, <2>4, <2>5 DEF Tidy
<1>8. QED BY <1>1, <1>2, <1>3, <1>4, <1>5, <1>7 DEF SInv

LEMMA SInvStep == SInv /\ [SNext]_allvars => SInv'
<1> SUFFICES ASSUME SInv, [SNext]_allvars PROVE SInv' OBVIOUS
<1>0. /\ STypeOK /\ Base /\ SweeperShape /\ SweepersAway /\ SweepSpares
      /\ (raced \/ orphaned \/ Tidy) /\ raced \in BOOLEAN /\ orphaned \in BOOLEAN
  BY DEF SInv, STypeOK
<1>1. CASE WriterStep
  <2>1. STypeOK' /\ Base' /\ SweepersAway' /\ SweepSpares' BY <1>0, <1>1, SparesUnderWriter
  <2>2. SweeperShape' BY <1>0, <1>1 DEF WriterStep, SweeperShape
  <2>3. raced' \/ orphaned' \/ Tidy'
    <3> SUFFICES ASSUME ~raced', ~orphaned' PROVE Tidy' OBVIOUS
    <3>1. ~raced /\ ~orphaned BY <1>1 DEF WriterStep
    <3>2. QED BY <1>0, <1>1, <2>1, <3>1, TidyUnderWriter
  <2>4. QED BY <2>1, <2>2, <2>3 DEF SInv
<1>2. CASE LockLapses
  <2>1. lock' \in BOOLEAN BY <1>2 DEF LockLapses
  <2>2. QED BY <1>2, <2>1, SInvStutter DEF LockLapses
<1>3. ASSUME NEW s \in Sweepers, SweeperStep(s) \/ SweepResend(s) \/ SweepFails(s) PROVE SInv'
  <2>1. STypeOK' /\ SweeperShape' /\ SweepEffect BY <1>0, <1>3, SweeperSteps
  <2>2. Base' BY <1>0, <2>1, BaseUnderSweep DEF STypeOK
  <2>3. SweepersAway' /\ SweepSpares' BY <1>0, <2>1, SparesUnderSweep
  <2>4. raced' \/ orphaned' \/ Tidy'
    <3> SUFFICES ASSUME ~raced', ~orphaned' PROVE Tidy' OBVIOUS
    <3>1. ~raced BY <2>1 DEF SweepEffect
    <3>2. ~orphaned
      BY <1>3 DEF SweeperStep, SweepResend, SweepFails, TakeLock, Find, FindNothing, ReadRcpt,
                  SweepBatch, CleanMember, CleanRegister, SweepDone
    <3>3. QED BY <1>0, <1>3, <2>1, <3>1, <3>2, TidyUnderSweep
  <2>5. QED BY <2>1, <2>2, <2>3, <2>4 DEF SInv
<1>4. CASE UNCHANGED allvars
  <2>1. lock' \in BOOLEAN /\ UNCHANGED <<vars, spc, srcpt, srem, sreg, ssent, late, raced, orphaned>>
    BY <1>0, <1>4 DEF allvars, svars, STypeOK
  <2>2. QED BY <2>1, SInvStutter
<1>5. QED BY <1>1, <1>2, <1>3, <1>4 DEF SNext

LEMMA SInvAlways == SSpec => []SInv
<1>1. SInit => SInv BY SInvInit
<1>2. SInv /\ [SNext]_allvars => SInv' BY SInvStep
<1>3. QED BY <1>1, <1>2, PTL DEF SSpec

(***************************************************************************)
(* The theorems.                                                           *)
(***************************************************************************)
\* The state of writers and sweepers keeps its types: whatever a sweep read from a
\* receipt, and sends as ZREMs, is a set of index members.
THEOREM SweepTypeCorrect == SSpec => []STypeOK
<1>1. SInv => STypeOK BY DEF SInv
<1>2. QED BY <1>1, SInvAlways, PTL

\* sweep_batch.lua and the client segment behind it never hurt a live row: for any
\* number of writers and sweepers, a row that was born while no sweep of its dead
\* predecessor was in its client segment keeps its index member and its register entry.
THEOREM SweepSparesLiveRows == SSpec => []SweepSpares
<1>1. SInv => SweepSpares BY DEF SInv
<1>2. QED BY <1>1, SInvAlways, PTL

\* Nothing else leaks: when all calls and sweeps have ended and the register has
\* forgotten the dead pk, the index has none of its members, unless a receipt was lost
\* or the row was written or died in the middle of another write.
THEOREM SweepLeavesNothing == SSpec => []SweptClean
<1>1. SInv => SweptClean
  <2> SUFFICES ASSUME SInv, Forgotten, ~orphaned PROVE idx = {} BY DEF SweptClean
  <2>1. Tidy /\ ~Live /\ exp = "none" /\ Base /\ SweeperShape
        /\ (\A c \in Clients : pc[c] = "idle") /\ (\A s \in Sweepers : spc[s] = "idle")
    BY DEF SInv, Forgotten, AtRest
  <2>2. rcpt = {} /\ Current = {} BY <2>1, DeadRow DEF Tidy, Known
  <2>3. \A c \in Clients : rem[c] = {} BY <2>1 DEF Base, SegmentShape, SegmentOK, Drained
  <2>4. \A s \in Sweepers : srem[s] = {} BY <2>1 DEF SweeperShape
  <2>5. \A m : m \notin Pending BY <2>3, <2>4, PendingMember
  <2>6. QED BY <2>1, <2>2, <2>5 DEF Tidy, Accounted
<1>2. QED BY <1>1, SInvAlways, PTL
=============================================================================
