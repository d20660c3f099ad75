------------------------ MODULE DecisionLedger_proofs ------------------------
(***************************************************************************)
(* Proofs about DecisionLedger for every set of calls, requests and builds.*)
(* LedgerInv is the inductive invariant.  Its parts say what the open      *)
(* transactions exclude (Claims), that a snapshot's id is the call that    *)
(* committed it (Owners), and what a call has already established at each  *)
(* statement (CallInv).  Everything CallInv says of the tables is positive *)
(* ("such a row exists"), hence stable, as rows are only ever added.       *)
(***************************************************************************)
EXTENDS DecisionLedger, TLAPS

Claims ==
  /\ \A c, d \in Call : c # d /\ HoldsSnapshot(c) /\ HoldsSnapshot(d)
                        => req[c].biz # req[d].biz
  /\ \A c, d \in Call : c # d /\ HoldsReceipt(c) /\ HoldsReceipt(d)
                        => req[c].key # req[d].key
  /\ \A c \in Call : HoldsSnapshot(c) => \A s \in snapshots : s.biz # req[c].biz
  /\ \A c \in Call : HoldsReceipt(c) => \A r \in receipts : r.key # req[c].key

Owners ==
  /\ \A s \in snapshots : pc[s.id] \in {"reply", "done", "crashed"}
  /\ \A s, t \in snapshots : s.id = t.id => s = t

(* A receipt for the key of call c, with its snapshot, that does or does not *)
(* resolve the request.                                                      *)
Granted(c, i) ==
  \E r \in receipts, s \in snapshots :
    r.key = req[c].key /\ Resolves(r, s, req[c]) /\ s.id = i
Contradicted(c) ==
  \E r \in receipts, s \in snapshots :
    r.key = req[c].key /\ r.id = s.id /\ ~Resolves(r, s, req[c])
Decided(c, i) ==
  \E s \in snapshots : s.id = i /\ s.biz = req[c].biz /\ s.hash = req[c].hash
KeyTaken(c) == \E r \in receipts : r.key = req[c].key
BizTaken(c) == \E s \in snapshots : s.biz = req[c].biz

CallInv(c) ==
  /\ pc[c] \in {"attachAlias", "reloadAlias"} => Decided(c, target[c])
  /\ pc[c] = "reply" => Granted(c, target[c])
  /\ pc[c] = "reloadAlias" => KeyTaken(c)
  /\ pc[c] = "reconcileReceipt" => KeyTaken(c) \/ BizTaken(c)
  /\ pc[c] = "reconcileBusiness" => BizTaken(c)
  /\ pc[c] \in {"insertSnapshot", "insertReceipt", "commit"} =>
       <<ver[c], req[c].hash>> \in Accepts
  /\ attempt[c] = 0
  /\ answer[c].kind # "InvariantError"
  /\ answer[c].kind = "Ok" => Granted(c, answer[c].id)
  /\ answer[c].kind = "IdempotencyConflict" => Contradicted(c)
  /\ answer[c].kind = "BusinessConflict" =>
       \E s \in snapshots : s.biz = req[c].biz /\ s.hash # req[c].hash
  /\ owed[c] # NoCall =>
       /\ Granted(c, owed[c])
       /\ pc[c] \in {"findReceipt", "done", "crashed"}
       /\ pc[c] = "done" => answer[c] = Ok(owed[c])

LedgerInv ==
  /\ TypeOK
  /\ OneDecision
  /\ Linked
  /\ Claims
  /\ Owners
  /\ \A c \in Call : CallInv(c)
-----------------------------------------------------------------------------
(* Type correctness, from the definition of each action.                    *)
LEMMA RequestType ==
  ASSUME TypeOK, NEW c \in Call
  PROVE  /\ req[c] \in [key : Key, biz : Biz, hash : Hash]
         /\ \A v \in Version : ver[c] = v =>
              MySnapshot(c) \in [id : Call, biz : Biz, hash : Hash, ver : Version]
         /\ ver[c] \in Version
         /\ \A i \in Call : MyReceipt(c, i) \in ReceiptRow
  BY LedgerAssumption DEF TypeOK, MySnapshot, MyReceipt, ReceiptRow

LEMMA FinishType ==
  ASSUME TypeOK, NEW c \in Call, NEW a \in Answer, Finish(c, a)
  PROVE  TypeOK'
  BY DEF TypeOK, Finish, Goto, Label, input, rows

LEMMA ProceedType ==
  ASSUME TypeOK, NEW c \in Call, NEW l \in Label, Proceed(c, l)
  PROVE  TypeOK'
  BY DEF TypeOK, Proceed, Goto, input, rows

-----------------------------------------------------------------------------
(* What is known of a call stays true while it does not move: the tables    *)
(* only gain rows.                                                          *)
LEMMA CallStable ==
  ASSUME NEW d \in Call, CallInv(d), req' = req, ver' = ver,
         snapshots \subseteq snapshots', receipts \subseteq receipts',
         pc'[d] = pc[d], target'[d] = target[d], attempt'[d] = attempt[d],
         answer'[d] = answer[d], owed'[d] = owed[d]
  PROVE  CallInv(d)'
  <1>1. \A i : Granted(d, i) => Granted(d, i)'
    BY DEF Granted, Resolves
  <1>2. Contradicted(d) => Contradicted(d)'
    BY DEF Contradicted, Resolves
  <1>3. \A i : Decided(d, i) => Decided(d, i)'
    BY DEF Decided
  <1>4. (KeyTaken(d) => KeyTaken(d)') /\ (BizTaken(d) => BizTaken(d)')
    BY DEF KeyTaken, BizTaken
  <1>5. QED
    BY <1>1, <1>2, <1>3, <1>4 DEF CallInv, Ok

(* A call that returns without writing keeps the invariant when its answer  *)
(* is one the tables justify.                                               *)
LEMMA FinishInv ==
  ASSUME LedgerInv, NEW c \in Call, NEW a \in Answer, Finish(c, a),
         a.kind # "InvariantError",
         a.kind = "Ok" => Granted(c, a.id),
         a.kind = "IdempotencyConflict" => Contradicted(c),
         a.kind = "BusinessConflict" =>
           \E s \in snapshots : s.biz = req[c].biz /\ s.hash # req[c].hash,
         owed[c] # NoCall => a = Ok(owed[c])
  PROVE  LedgerInv'
  <1>1. TypeOK'
    BY FinishType DEF LedgerInv
  <1>2. OneDecision' /\ Linked'
    BY DEF LedgerInv, OneDecision, Linked, Finish, rows
  <1>3. Claims' /\ Owners'
    BY DEF LedgerInv, Claims, Owners, HoldsSnapshot, HoldsReceipt, Finish, Goto,
           rows, input, TypeOK
  <1>4. ASSUME NEW d \in Call PROVE CallInv(d)'
    <2>1. CASE d = c
      <3>1. pc'[c] = "done" /\ answer'[c] = a /\ UNCHANGED <<input, attempt, rows>>
        BY DEF Finish, Goto, LedgerInv, TypeOK
      <3>2. CallInv(c)
        BY DEF LedgerInv
      <3>3. QED
        BY <2>1, <3>1, <3>2 DEF CallInv, Granted, Contradicted, Resolves, input, rows
    <2>2. CASE d # c
      BY <2>2, CallStable DEF LedgerInv, Finish, Goto, rows, input, TypeOK
    <2>3. QED
      BY <2>1, <2>2
  <1>5. QED
    BY <1>1, <1>2, <1>3, <1>4 DEF LedgerInv

(* A call that moves to another statement and holds nothing there.          *)
LEMMA ProceedInv ==
  ASSUME LedgerInv, NEW c \in Call, NEW l \in Label, Proceed(c, l), Claims',
         pc[c] \notin {"reply", "done", "crashed"} \/ l = "crashed",
         CallInv(c)'
  PROVE  LedgerInv'
  <1>1. TypeOK'
    BY ProceedType DEF LedgerInv
  <1>2. OneDecision' /\ Linked'
    BY DEF LedgerInv, OneDecision, Linked, Proceed, rows
  <1>3. Owners'
    BY DEF LedgerInv, Owners, Proceed, Goto, rows, TypeOK
  <1>4. ASSUME NEW d \in Call, d # c PROVE CallInv(d)'
    BY <1>4, CallStable DEF LedgerInv, Proceed, Goto, rows, input, TypeOK
  <1>5. QED
    BY <1>1, <1>2, <1>3, <1>4 DEF LedgerInv

(* What a call that moves on must have established for its next statement.  *)
LEMMA ProceedCall ==
  ASSUME LedgerInv, NEW c \in Call, NEW l \in Label, Proceed(c, l),
         owed[c] = NoCall \/ l = "crashed",
         l \notin {"attachAlias", "reply"},
         l = "reloadAlias" => Decided(c, target[c]) /\ KeyTaken(c),
         l = "reconcileReceipt" => KeyTaken(c) \/ BizTaken(c),
         l = "reconcileBusiness" => BizTaken(c),
         l \in {"insertSnapshot", "insertReceipt", "commit"} =>
           <<ver[c], req[c].hash>> \in Accepts
  PROVE  CallInv(c)'
  <1>1. CallInv(c) /\ pc'[c] = l
    BY DEF LedgerInv, TypeOK, Proceed, Goto
  <1>2. UNCHANGED <<req, ver, owed, target, attempt, answer, snapshots, receipts>>
    BY DEF Proceed, rows, input
  <1>3. /\ \A i : Granted(c, i)' = Granted(c, i)
        /\ Contradicted(c)' = Contradicted(c)
        /\ Decided(c, target[c])' = Decided(c, target[c])
        /\ KeyTaken(c)' = KeyTaken(c) /\ BizTaken(c)' = BizTaken(c)
    BY <1>2 DEF Granted, Contradicted, Decided, KeyTaken, BizTaken, Resolves
  <1>4. QED
    BY <1>1, <1>2, <1>3 DEF CallInv

(* Moving to a statement at which no uncommitted row is held cannot break   *)
(* an exclusion.                                                            *)
LEMMA ProceedClaims ==
  ASSUME LedgerInv, NEW c \in Call, NEW l \in Label \ {"insertReceipt", "commit"},
         Proceed(c, l)
  PROVE  Claims'
  BY DEF LedgerInv, Claims, HoldsSnapshot, HoldsReceipt, Proceed, Goto, rows,
         input, TypeOK

(* The answers derived from a receipt found for the key.                    *)
LEMMA ResolveReceiptInv ==
  ASSUME LedgerInv, NEW c \in Call, NEW r \in ReceiptsOf(req[c].key),
         NEW i \in Call, ResolveReceipt(c, r, i),
         \A s \in snapshots : Resolves(r, s, req[c]) => s.id = i
  PROVE  LedgerInv'
  <1>0. r \in receipts /\ r.key = req[c].key
    BY DEF ReceiptsOf
  <1>1. PICK s \in snapshots :
          /\ s.id = r.id
          /\ Finish(c, IF Resolves(r, s, req[c]) THEN Ok(i)
                       ELSE Refusal("IdempotencyConflict"))
    BY <1>0 DEF ResolveReceipt, LedgerInv, Linked
  <1>2. CallInv(c) /\ OneDecision /\ Owners
    BY DEF LedgerInv
  <1>3. owed[c] # NoCall => Resolves(r, s, req[c]) /\ i = owed[c]
    <2>1. SUFFICES ASSUME owed[c] # NoCall
                   PROVE  Resolves(r, s, req[c]) /\ i = owed[c]
      OBVIOUS
    <2>2. PICK r0 \in receipts, s0 \in snapshots :
            r0.key = req[c].key /\ Resolves(r0, s0, req[c]) /\ s0.id = owed[c]
      BY <1>2, <2>1 DEF CallInv, Granted
    <2>3. r0 = r
      BY <1>0, <1>2, <2>2 DEF OneDecision
    <2>4. s0 = s
      BY <1>1, <1>2, <2>2, <2>3 DEF Owners, Resolves
    <2>5. QED
      BY <2>2, <2>3, <2>4
  <1>4. CASE Resolves(r, s, req[c])
    <2>1. Ok(i) \in Answer /\ Ok(i).kind = "Ok" /\ Ok(i).id = i
      BY DEF Answer, Ok
    <2>2. Granted(c, i)
      BY <1>0, <1>4 DEF Granted
    <2>3. Finish(c, Ok(i))
      BY <1>1, <1>4
    <2>4. QED
      BY <1>3, <2>1, <2>2, <2>3, FinishInv
  <1>5. CASE ~Resolves(r, s, req[c])
    <2> DEFINE a == Refusal("IdempotencyConflict")
    <2>1. a \in Answer /\ a.kind = "IdempotencyConflict"
      BY DEF Answer, Refusal, Refused
    <2>2. Contradicted(c)
      BY <1>0, <1>1, <1>5 DEF Contradicted
    <2>3. Finish(c, a)
      BY <1>1, <1>5
    <2>4. owed[c] = NoCall
      BY <1>3, <1>5
    <2> HIDE DEF a
    <2>5. QED
      BY <2>1, <2>2, <2>3, <2>4, FinishInv
  <1>6. QED
    BY <1>4, <1>5

(* The outcomes of finding a snapshot for the business key.                 *)
LEMMA ResolveBusinessInv ==
  ASSUME LedgerInv, NEW c \in Call, NEW s \in SnapshotsOf(req[c].biz),
         ResolveBusiness(c, s), pc[c] \in {"findBusiness", "reconcileBusiness"}
  PROVE  LedgerInv'
  <1>0. s \in snapshots /\ s.biz = req[c].biz /\ s.id \in Call
    BY DEF SnapshotsOf, LedgerInv, TypeOK, SnapshotRow
  <1>1. CallInv(c) /\ owed[c] = NoCall
    BY DEF LedgerInv, CallInv
  <1>2. CASE s.hash = req[c].hash
    <2>1. /\ target' = [target EXCEPT ![c] = s.id]
          /\ pc' = [pc EXCEPT ![c] = "attachAlias"]
          /\ UNCHANGED <<req, ver, owed, attempt, answer, snapshots, receipts>>
      BY <1>2 DEF ResolveBusiness, Goto, input, rows
    <2>2. TypeOK'
      BY <1>0, <2>1 DEF LedgerInv, TypeOK, Label
    <2>3. OneDecision' /\ Linked'
      BY <2>1 DEF LedgerInv, OneDecision, Linked
    <2>4. Claims' /\ Owners'
      BY <2>1 DEF LedgerInv, Claims, Owners, HoldsSnapshot, HoldsReceipt, TypeOK
    <2>5. CallInv(c)'
      <3>1. pc'[c] = "attachAlias" /\ target'[c] = s.id
        BY <2>1 DEF LedgerInv, TypeOK
      <3>2. Decided(c, target[c])'
        BY <1>0, <1>2, <2>1, <3>1 DEF Decided
      <3>3. QED
        BY <1>1, <2>1, <3>1, <3>2 DEF CallInv, Granted, Contradicted, Resolves
    <2>6. ASSUME NEW d \in Call, d # c PROVE CallInv(d)'
      BY <2>1, <2>6, CallStable DEF LedgerInv, TypeOK
    <2>7. QED
      BY <2>2, <2>3, <2>4, <2>5, <2>6 DEF LedgerInv
  <1>3. CASE s.hash # req[c].hash
    <2> DEFINE a == Refusal("BusinessConflict")
    <2>1. a \in Answer /\ a.kind = "BusinessConflict"
      BY DEF Answer, Refusal, Refused
    <2>2. Finish(c, a)
      BY <1>3 DEF ResolveBusiness
    <2> HIDE DEF a
    <2>3. QED
      BY <1>0, <1>1, <1>3, <2>1, <2>2, FinishInv
  <1>4. QED
    BY <1>2, <1>3
-----------------------------------------------------------------------------
LEMMA InitInv == Init => LedgerInv
  <1> SUFFICES ASSUME Init PROVE LedgerInv
    OBVIOUS
  <1>1. TypeOK
    BY DEF Init, TypeOK, Label, Answer
  <1>2. OneDecision /\ Linked /\ Owners
    BY DEF Init, OneDecision, Linked, Owners
  <1>3. Claims
    BY DEF Init, Claims, HoldsSnapshot, HoldsReceipt
  <1>4. \A c \in Call : CallInv(c)
    BY DEF Init, CallInv, NoAnswer
  <1>5. QED
    BY <1>1, <1>2, <1>3, <1>4 DEF LedgerInv

LEMMA BeginInv ==
  ASSUME LedgerInv, NEW c \in Call, Begin(c)
  PROVE  LedgerInv'
  <1> DEFINE q == req[c]
  <1>1. Store!OwedFor(q) = NoCall
        \/ \E s \in ReceiptedFor(q) : s.id = Store!OwedFor(q)
    BY DEF Store!OwedFor, Store!ReceiptedFor, Store!ReceiptsOf, Store!Resolves,
           ReceiptedFor, ReceiptsOf, Resolves
  <1>2. Store!OwedFor(q) \in Call \cup {NoCall}
    BY <1>1 DEF LedgerInv, TypeOK, SnapshotRow, ReceiptedFor
  <1>3. /\ pc' = [pc EXCEPT ![c] = "findReceipt"]
        /\ owed' = [owed EXCEPT ![c] = Store!OwedFor(q)]
        /\ UNCHANGED <<req, ver, target, attempt, answer, snapshots, receipts>>
    BY DEF Begin, Goto, rows
  <1> HIDE DEF q
  <1>4. TypeOK'
    BY <1>2, <1>3 DEF LedgerInv, TypeOK, Label
  <1>5. OneDecision' /\ Linked'
    BY <1>3 DEF LedgerInv, OneDecision, Linked
  <1>6. Claims' /\ Owners'
    BY <1>3 DEF LedgerInv, Claims, Owners, HoldsSnapshot, HoldsReceipt, TypeOK, Begin
  <1>7. CallInv(c)'
    <2>1. pc'[c] = "findReceipt" /\ owed'[c] = Store!OwedFor(q)
      BY <1>3 DEF LedgerInv, TypeOK
    <2>2. Store!OwedFor(q) # NoCall => Granted(c, Store!OwedFor(q))
      BY <1>1 DEF Granted, ReceiptedFor, ReceiptsOf, q
    <2>3. CallInv(c)
      BY DEF LedgerInv
    <2>4. QED
      BY <1>3, <2>1, <2>2, <2>3 DEF CallInv, Granted, Contradicted, Resolves
  <1>8. ASSUME NEW d \in Call, d # c PROVE CallInv(d)'
    BY <1>3, <1>8, CallStable DEF LedgerInv, TypeOK
  <1>9. QED
    BY <1>4, <1>5, <1>6, <1>7, <1>8 DEF LedgerInv

LEMMA FindReceiptInv ==
  ASSUME LedgerInv, NEW c \in Call, FindReceipt(c)
  PROVE  LedgerInv'
  <1>1. CASE \E r \in ReceiptsOf(req[c].key) : ResolveReceipt(c, r, r.id)
    <2>1. PICK r \in ReceiptsOf(req[c].key) : ResolveReceipt(c, r, r.id)
      BY <1>1
    <2>2. r.id \in Call
      BY DEF ReceiptsOf, LedgerInv, TypeOK, ReceiptRow
    <2>3. QED
      BY <2>1, <2>2, ResolveReceiptInv DEF Resolves
  <1>2. CASE ReceiptsOf(req[c].key) = {} /\ Proceed(c, "findBusiness")
    <2>1. owed[c] = NoCall
      BY <1>2 DEF LedgerInv, CallInv, Granted, ReceiptsOf
    <2>2. CallInv(c)'
      BY <1>2, <2>1, ProceedCall DEF Label
    <2>3. "findBusiness" \in Label \ {"insertReceipt", "commit"}
      BY DEF Label
    <2>4. QED
      BY <1>2, <2>2, <2>3, ProceedClaims, ProceedInv DEF FindReceipt
  <1>3. QED
    BY <1>1, <1>2 DEF FindReceipt

LEMMA FindBusinessInv ==
  ASSUME LedgerInv, NEW c \in Call, FindBusiness(c)
  PROVE  LedgerInv'
  <1>1. CASE \E s \in SnapshotsOf(req[c].biz) : ResolveBusiness(c, s)
    BY <1>1, ResolveBusinessInv DEF FindBusiness
  <1>2. CASE Proceed(c, "decide")
    <2>1. owed[c] = NoCall
      BY DEF LedgerInv, CallInv, FindBusiness
    <2>2. CallInv(c)'
      BY <1>2, <2>1, ProceedCall DEF Label
    <2>3. "decide" \in Label \ {"insertReceipt", "commit"}
      BY DEF Label
    <2>4. QED
      BY <1>2, <2>2, <2>3, ProceedClaims, ProceedInv DEF FindBusiness
  <1>3. QED
    BY <1>1, <1>2 DEF FindBusiness

LEMMA DecideInv ==
  ASSUME LedgerInv, NEW c \in Call, Decide(c)
  PROVE  LedgerInv'
  <1>1. CASE <<ver[c], req[c].hash>> \in Accepts /\ Proceed(c, "insertSnapshot")
    <2>1. CallInv(c)'
      <3>1. owed[c] = NoCall
        BY DEF LedgerInv, CallInv, Decide
      <3>2. QED
        BY <1>1, <3>1, ProceedCall DEF Label
    <2>2. "insertSnapshot" \in Label \ {"insertReceipt", "commit"}
      BY DEF Label
    <2>3. QED
      BY <1>1, <2>1, <2>2, ProceedClaims, ProceedInv DEF Decide
  <1>2. CASE Finish(c, Refusal("ProvenanceRejected"))
    <2> DEFINE a == Refusal("ProvenanceRejected")
    <2>1. a \in Answer /\ a.kind = "ProvenanceRejected"
      BY DEF Answer, Refusal, Refused
    <2>2. owed[c] = NoCall
      BY DEF LedgerInv, CallInv, Decide
    <2>3. Finish(c, a)
      BY <1>2
    <2> HIDE DEF a
    <2>4. QED
      BY <2>1, <2>2, <2>3, FinishInv
  <1>3. QED
    BY <1>1, <1>2 DEF Decide

(* The insert is granted only when neither an open transaction nor a        *)
(* committed snapshot holds the business key.                               *)
LEMMA InsertSnapshotInv ==
  ASSUME LedgerInv, NEW c \in Call, InsertSnapshot(c)
  PROVE  LedgerInv'
  <1>0. CallInv(c) /\ pc[c] = "insertSnapshot" /\ owed[c] = NoCall
    BY DEF LedgerInv, InsertSnapshot, CallInv
  <1>1. CASE SnapshotsOf(req[c].biz) = {}
    <2>1. Proceed(c, "insertReceipt")
      BY <1>1 DEF InsertSnapshot
    <2>2. Claims'
      BY <1>1, <2>1 DEF LedgerInv, Claims, HoldsSnapshot, HoldsReceipt, Proceed,
                        Goto, rows, input, TypeOK, SnapshotsOf, InsertSnapshot
    <2>3. CallInv(c)'
      BY <1>0, <2>1, ProceedCall DEF Label, CallInv
    <2>4. "insertReceipt" \in Label
      BY DEF Label
    <2>5. QED
      BY <1>0, <2>1, <2>2, <2>3, <2>4, ProceedInv
  <1>2. CASE SnapshotsOf(req[c].biz) # {}
    <2>1. Proceed(c, "reconcileReceipt")
      BY <1>2 DEF InsertSnapshot
    <2>2. BizTaken(c)
      BY <1>2 DEF BizTaken, SnapshotsOf
    <2>3. CallInv(c)'
      BY <1>0, <2>1, <2>2, ProceedCall DEF Label
    <2>4. "reconcileReceipt" \in Label \ {"insertReceipt", "commit"}
      BY DEF Label
    <2>5. QED
      BY <1>0, <2>1, <2>3, <2>4, ProceedClaims, ProceedInv
  <1>3. QED
    BY <1>1, <1>2

LEMMA InsertReceiptInv ==
  ASSUME LedgerInv, NEW c \in Call, InsertReceipt(c)
  PROVE  LedgerInv'
  <1>0. CallInv(c) /\ pc[c] = "insertReceipt" /\ owed[c] = NoCall
    BY DEF LedgerInv, InsertReceipt, CallInv
  <1>1. CASE ReceiptsOf(req[c].key) = {}
    <2>1. Proceed(c, "commit")
      BY <1>1 DEF InsertReceipt
    <2>2. Claims'
      BY <1>0, <1>1, <2>1 DEF LedgerInv, Claims, HoldsSnapshot, HoldsReceipt,
            Proceed, Goto, rows, input, TypeOK, ReceiptsOf, InsertReceipt
    <2>3. CallInv(c)'
      BY <1>0, <2>1, ProceedCall DEF Label, CallInv
    <2>4. "commit" \in Label
      BY DEF Label
    <2>5. QED
      BY <1>0, <2>1, <2>2, <2>3, <2>4, ProceedInv
  <1>2. CASE ReceiptsOf(req[c].key) # {}
    <2>1. Proceed(c, "reconcileReceipt")
      BY <1>2 DEF InsertReceipt
    <2>2. KeyTaken(c)
      BY <1>2 DEF KeyTaken, ReceiptsOf
    <2>3. CallInv(c)'
      BY <1>0, <2>1, <2>2, ProceedCall DEF Label
    <2>4. "reconcileReceipt" \in Label \ {"insertReceipt", "commit"}
      BY DEF Label
    <2>5. QED
      BY <1>0, <2>1, <2>3, <2>4, ProceedClaims, ProceedInv
  <1>3. QED
    BY <1>1, <1>2

(* Both rows appear at once; the claims the call held make them unique.     *)
LEMMA CommitInv ==
  ASSUME LedgerInv, NEW c \in Call, Commit(c)
  PROVE  LedgerInv'
  <1> DEFINE m == MySnapshot(c)
             n == MyReceipt(c, c)
  <1>1. /\ snapshots' = snapshots \cup {m}
        /\ receipts' = receipts \cup {n}
        /\ target' = [target EXCEPT ![c] = c]
        /\ pc' = [pc EXCEPT ![c] = "reply"]
        /\ UNCHANGED <<req, ver, owed, attempt, answer>>
        /\ pc[c] = "commit"
    BY DEF Commit, Goto, input
  <1>2. /\ m \in SnapshotRow /\ m.id = c /\ m.biz = req[c].biz /\ m.hash = req[c].hash
        /\ n \in ReceiptRow /\ n.id = c /\ n.key = req[c].key /\ n.hash = req[c].hash
    BY RequestType DEF LedgerInv, MySnapshot, MyReceipt, SnapshotRow, ReceiptRow
  <1> HIDE DEF m, n
  <1>3. TypeOK'
    BY <1>1, <1>2 DEF LedgerInv, TypeOK, Label
  <1>4. OneDecision'
    BY <1>1, <1>2 DEF LedgerInv, OneDecision, Claims, HoldsSnapshot, HoldsReceipt
  <1>5. Linked'
    BY <1>1, <1>2 DEF LedgerInv, Linked
  <1>6. Claims'
    BY <1>1, <1>2 DEF LedgerInv, TypeOK, Claims, HoldsSnapshot, HoldsReceipt
  <1>7. Owners'
    BY <1>1, <1>2 DEF LedgerInv, TypeOK, Owners
  <1>8. CallInv(c)'
    <2>1. Granted(c, c)'
      BY <1>1, <1>2 DEF Granted, Resolves
    <2>2. CallInv(c) /\ owed[c] = NoCall /\ pc'[c] = "reply" /\ target'[c] = c
      BY <1>1 DEF LedgerInv, CallInv, TypeOK
    <2>3. answer[c].kind = "Ok" => Granted(c, answer[c].id)'
      BY <1>1, <2>2 DEF CallInv, Granted, Resolves
    <2>4. QED
      BY <1>1, <2>1, <2>2, <2>3 DEF CallInv, Contradicted, Resolves
  <1>9. ASSUME NEW d \in Call, d # c PROVE CallInv(d)'
    BY <1>1, <1>9, CallStable DEF LedgerInv, TypeOK
  <1>10. QED
    BY <1>3, <1>4, <1>5, <1>6, <1>7, <1>8, <1>9 DEF LedgerInv

LEMMA ReconcileReceiptInv ==
  ASSUME LedgerInv, NEW c \in Call, ReconcileReceipt(c)
  PROVE  LedgerInv'
  <1>1. CASE \E r \in ReceiptsOf(req[c].key) : ResolveReceipt(c, r, r.id)
    <2>1. PICK r \in ReceiptsOf(req[c].key) : ResolveReceipt(c, r, r.id)
      BY <1>1
    <2>2. r.id \in Call
      BY DEF ReceiptsOf, LedgerInv, TypeOK, ReceiptRow
    <2>3. QED
      BY <2>1, <2>2, ResolveReceiptInv DEF Resolves
  <1>2. CASE ReceiptsOf(req[c].key) = {} /\ Proceed(c, "reconcileBusiness")
    <2>1. BizTaken(c)
      BY <1>2 DEF LedgerInv, CallInv, KeyTaken, ReceiptsOf, ReconcileReceipt
    <2>2. CallInv(c)'
      <3>1. owed[c] = NoCall
        BY DEF LedgerInv, CallInv, ReconcileReceipt
      <3>2. QED
        BY <1>2, <2>1, <3>1, ProceedCall DEF Label
    <2>3. "reconcileBusiness" \in Label \ {"insertReceipt", "commit"}
      BY DEF Label
    <2>4. QED
      BY <1>2, <2>2, <2>3, ProceedClaims, ProceedInv DEF ReconcileReceipt
  <1>3. QED
    BY <1>1, <1>2 DEF ReconcileReceipt

(* Its last two alternatives are dead: a snapshot for the key is there.     *)
LEMMA ReconcileBusinessInv ==
  ASSUME LedgerInv, NEW c \in Call, ReconcileBusiness(c)
  PROVE  LedgerInv'
  <1>1. SnapshotsOf(req[c].biz) # {}
    BY DEF LedgerInv, CallInv, BizTaken, SnapshotsOf, ReconcileBusiness
  <1>2. QED
    BY <1>1, ResolveBusinessInv DEF ReconcileBusiness

LEMMA AttachAliasInv ==
  ASSUME LedgerInv, NEW c \in Call, AttachAlias(c)
  PROVE  LedgerInv'
  <1>0. /\ pc[c] = "attachAlias" /\ owed[c] = NoCall /\ CallInv(c)
        /\ Decided(c, target[c]) /\ target[c] \in Call
    BY DEF AttachAlias, LedgerInv, CallInv, Decided, TypeOK, SnapshotRow
  <1>1. CASE ReceiptsOf(req[c].key) # {}
    <2>1. Proceed(c, "reloadAlias")
      BY <1>1 DEF AttachAlias
    <2>2. KeyTaken(c)
      BY <1>1 DEF KeyTaken, ReceiptsOf
    <2>3. CallInv(c)'
      BY <1>0, <2>1, <2>2, ProceedCall DEF Label
    <2>4. "reloadAlias" \in Label \ {"insertReceipt", "commit"}
      BY DEF Label
    <2>5. QED
      BY <1>0, <2>1, <2>3, <2>4, ProceedClaims, ProceedInv
  <1>2. CASE ReceiptsOf(req[c].key) = {}
    <2> DEFINE n == MyReceipt(c, target[c])
    <2>1. /\ receipts' = receipts \cup {n}
          /\ pc' = [pc EXCEPT ![c] = "reply"]
          /\ UNCHANGED <<req, ver, owed, target, attempt, answer, snapshots>>
      BY <1>2 DEF AttachAlias, Goto, input
    <2>2. /\ n \in ReceiptRow
          /\ n.id = target[c] /\ n.key = req[c].key /\ n.hash = req[c].hash
      BY <1>0, RequestType DEF LedgerInv, MyReceipt, ReceiptRow
    <2> HIDE DEF n
    <2>3. TypeOK'
      BY <2>1, <2>2 DEF LedgerInv, TypeOK, Label
    <2>4. OneDecision' /\ Linked'
      BY <1>0, <1>2, <2>1, <2>2 DEF LedgerInv, OneDecision, Linked, ReceiptsOf, Decided
    <2>5. Claims' /\ Owners'
      BY <2>1, <2>2 DEF LedgerInv, TypeOK, Claims, Owners, HoldsSnapshot,
                        HoldsReceipt, AttachAlias
    <2>6. CallInv(c)'
      <3>1. pc'[c] = "reply" /\ target'[c] = target[c]
        BY <2>1 DEF LedgerInv, TypeOK
      <3>2. Granted(c, target[c])'
        BY <1>0, <2>1, <2>2 DEF Granted, Decided, Resolves
      <3>3. answer[c].kind = "Ok" => Granted(c, answer[c].id)'
        BY <1>0, <2>1 DEF CallInv, Granted, Resolves
      <3>4. QED
        BY <1>0, <2>1, <3>1, <3>2, <3>3 DEF CallInv, Contradicted, Resolves
    <2>7. ASSUME NEW d \in Call, d # c PROVE CallInv(d)'
      BY <2>1, <2>7, CallStable DEF LedgerInv, TypeOK
    <2>8. QED
      BY <2>3, <2>4, <2>5, <2>6, <2>7 DEF LedgerInv
  <1>3. QED
    BY <1>1, <1>2

LEMMA ReloadAliasInv ==
  ASSUME LedgerInv, NEW c \in Call, ReloadAlias(c)
  PROVE  LedgerInv'
  <1>1. /\ Decided(c, target[c]) /\ target[c] \in Call
        /\ ReceiptsOf(req[c].key) # {}
    BY DEF ReloadAlias, LedgerInv, CallInv, Decided, TypeOK, SnapshotRow,
           KeyTaken, ReceiptsOf
  <1>2. PICK r \in ReceiptsOf(req[c].key) : ResolveReceipt(c, r, target[c])
    BY <1>1 DEF ReloadAlias
  <1>3. \A s \in snapshots : Resolves(r, s, req[c]) => s.id = target[c]
    BY <1>1 DEF LedgerInv, OneDecision, Decided, Resolves
  <1>4. QED
    BY <1>1, <1>2, <1>3, ResolveReceiptInv

LEMMA ReplyInv ==
  ASSUME LedgerInv, NEW c \in Call, Reply(c)
  PROVE  LedgerInv'
  <1>1. Granted(c, target[c]) /\ target[c] \in Call /\ owed[c] = NoCall
    BY DEF LedgerInv, CallInv, Granted, Reply, TypeOK, SnapshotRow
  <1>2. /\ Ok(target[c]) \in Answer
        /\ Ok(target[c]).kind = "Ok" /\ Ok(target[c]).id = target[c]
    BY <1>1 DEF Answer, Ok
  <1>3. QED
    BY <1>1, <1>2, FinishInv DEF Reply

LEMMA CrashInv ==
  ASSUME LedgerInv, NEW c \in Call, Crash(c)
  PROVE  LedgerInv'
  <1>1. Proceed(c, "crashed")
    BY DEF Crash
  <1>2. CallInv(c)'
    BY <1>1, ProceedCall DEF Label
  <1>3. "crashed" \in Label \ {"insertReceipt", "commit"}
    BY DEF Label
  <1>4. QED
    BY <1>1, <1>2, <1>3, ProceedClaims, ProceedInv

LEMMA NextInv == LedgerInv /\ [Next]_vars => LedgerInv'
  <1> SUFFICES ASSUME LedgerInv, [Next]_vars PROVE LedgerInv'
    OBVIOUS
  <1>1. ASSUME NEW c \in Call, Begin(c) \/ Step(c) \/ Crash(c) PROVE LedgerInv'
    BY <1>1, BeginInv, FindReceiptInv, FindBusinessInv, DecideInv,
       InsertSnapshotInv, InsertReceiptInv, CommitInv, ReconcileReceiptInv,
       ReconcileBusinessInv, AttachAliasInv, ReloadAliasInv, ReplyInv, CrashInv
    DEF Step
  <1>2. CASE UNCHANGED vars
    <2>1. TypeOK' /\ OneDecision' /\ Linked' /\ Claims' /\ Owners'
      BY <1>2 DEF vars, LedgerInv, TypeOK, OneDecision, Linked, Claims, Owners,
                  HoldsSnapshot, HoldsReceipt
    <2>2. ASSUME NEW d \in Call PROVE CallInv(d)'
      BY <1>2, CallStable DEF vars, LedgerInv
    <2>3. QED
      BY <2>1, <2>2 DEF LedgerInv
  <1>3. QED
    BY <1>1, <1>2 DEF Next, Terminated

(* The inductive invariant holds of every reachable state.                  *)
THEOREM LedgerInvariant == Spec => []LedgerInv
  BY InitInv, NextInv, PTL DEF Spec

(* The state of decideAndPersist and of its two tables is well typed.       *)
THEOREM LedgerTypeOK == Spec => []TypeOK
  BY LedgerInvariant, PTL DEF LedgerInv

(* decision_snapshots and decision_idempotency_receipts keep their unique   *)
(* keys, and a decision and its receipts are never seen apart, whatever     *)
(* calls race or die.                                                       *)
THEOREM LedgerCoherent == Spec => []Coherent
  BY LedgerInvariant, PTL DEF LedgerInv, Coherent

(* A caller of decideAndPersist that is told Ok holds a durable receipt for *)
(* its own request.                                                         *)
THEOREM LedgerOkIsDurable == Spec => []OkIsDurable
  <1>1. LedgerInv => OkIsDurable
    BY DEF LedgerInv, CallInv, OkIsDurable, Granted, ReceiptedFor, ReceiptsOf
  <1>2. QED
    BY <1>1, LedgerInvariant, PTL

(* Racing copies of one request never get contradictory verdicts.           *)
THEOREM LedgerVerdictsAgree == Spec => []VerdictsAgree
  <1>1. LedgerInv => VerdictsAgree
    <2> SUFFICES ASSUME LedgerInv, NEW c \in Call, NEW d \in Call,
                        req[c] = req[d], answer[c].kind = "Ok"
                 PROVE  /\ answer[d].kind \notin {"IdempotencyConflict", "BusinessConflict"}
                        /\ answer[d].kind = "Ok" => answer[d].id = answer[c].id
      BY DEF VerdictsAgree
    <2>1. PICK r \in receipts, s \in snapshots :
            r.key = req[c].key /\ Resolves(r, s, req[c]) /\ s.id = answer[c].id
      BY DEF LedgerInv, CallInv, Granted
    <2>2. answer[d].kind = "Ok" => answer[d].id = answer[c].id
      <3>1. SUFFICES ASSUME answer[d].kind = "Ok"
                     PROVE  answer[d].id = answer[c].id
        OBVIOUS
      <3>2. PICK r1 \in receipts, s1 \in snapshots :
              r1.key = req[d].key /\ Resolves(r1, s1, req[d]) /\ s1.id = answer[d].id
        BY <3>1 DEF LedgerInv, CallInv, Granted
      <3>3. r1 = r
        BY <2>1, <3>2 DEF LedgerInv, OneDecision
      <3>4. QED
        BY <2>1, <3>2, <3>3 DEF Resolves
    <2>3. ~Contradicted(d)
      BY <2>1 DEF LedgerInv, OneDecision, Owners, Contradicted, Resolves
    <2>4. \A t \in snapshots : t.biz = req[d].biz => t.hash = req[d].hash
      BY <2>1 DEF LedgerInv, OneDecision, Linked, Owners, Resolves
    <2>5. QED
      BY <2>2, <2>3, <2>4 DEF LedgerInv, CallInv
  <1>2. QED
    BY <1>1, LedgerInvariant, PTL

(* A retry of a receipted request is answered from history.                 *)
THEOREM LedgerRetryIsReplay == Spec => []RetryIsReplay
  <1>1. LedgerInv => RetryIsReplay
    BY DEF LedgerInv, CallInv, RetryIsReplay
  <1>2. QED
    BY <1>1, LedgerInvariant, PTL

(* createDecision never needs its second attempt, nor either invariant error.*)
THEOREM LedgerNoUnresolvedViolation == Spec => []NoUnresolvedViolation
  <1>1. LedgerInv => NoUnresolvedViolation
    BY DEF LedgerInv, CallInv, NoUnresolvedViolation
  <1>2. QED
    BY <1>1, LedgerInvariant, PTL
-----------------------------------------------------------------------------
(* The refinement.  A move between statements is invisible to the store; a  *)
(* return is a Reply the tables justify; the two inserts are its Record and *)
(* its Alias.                                                               *)
Stat(p) ==
  IF p = "idle" THEN "idle"
  ELSE IF p = "done" THEN "answered"
  ELSE IF p = "crashed" THEN "lost" ELSE "pending"
Status == [c \in Call |-> Stat(pc[c])]

LEMMA ProceedStutters ==
  ASSUME LedgerInv, NEW c \in Call, NEW l \in Label, Proceed(c, l),
         Stat(l) = Stat(pc[c])
  PROVE  UNCHANGED Store!svars
  <1>1. pc' = [pc EXCEPT ![c] = l]
    BY DEF Proceed, Goto
  <1>2. ASSUME NEW d \in Call PROVE Stat(pc'[d]) = Stat(pc[d])
    BY <1>1 DEF LedgerInv, TypeOK
  <1>3. Status' = Status
    BY <1>2 DEF Status
  <1>4. QED
    BY <1>3 DEF Store!svars, Proceed, input, rows, Status, Stat

LEMMA FinishReplies ==
  ASSUME LedgerInv, NEW c \in Call, Finish(c, answer'[c]), Stat(pc[c]) = "pending",
         answer'[c] \in Answer, Store!Justified(c, answer'[c])
  PROVE  Store!Reply(c)
  <1> DEFINE a == answer'[c]
  <1>1. /\ pc' = [pc EXCEPT ![c] = "done"]
        /\ answer' = [answer EXCEPT ![c] = a]
        /\ UNCHANGED <<req, owed, snapshots, receipts>>
    BY DEF Finish, Goto, input, rows
  <1>2. Status' = [Status EXCEPT ![c] = "answered"] /\ Status[c] = "pending"
    BY <1>1 DEF LedgerInv, TypeOK, Status, Stat
  <1>3. a \in {Store!Ok(i) : i \in Call}
              \cup {Store!Refusal(k) : k \in {"IdempotencyConflict",
                                              "BusinessConflict", "ProvenanceRejected"}}
    BY DEF Store!Justified, Store!Ok, Store!Refusal, LedgerInv, TypeOK, SnapshotRow,
           Store!ReceiptedFor
  <1>4. QED
    BY <1>1, <1>2, <1>3 DEF Store!Reply, Status, Stat

LEMMA FinishAnswer ==
  ASSUME LedgerInv, NEW c \in Call, NEW a, Finish(c, a)
  PROVE  answer'[c] = a
  BY DEF LedgerInv, TypeOK, Finish

LEMMA ResolveReceiptReplies ==
  ASSUME LedgerInv, NEW c \in Call, NEW r \in ReceiptsOf(req[c].key),
         NEW i \in Call, ResolveReceipt(c, r, i), Stat(pc[c]) = "pending",
         \A s \in snapshots : Resolves(r, s, req[c]) => s.id = i
  PROVE  Store!Reply(c)
  <1>0. r \in receipts /\ r.key = req[c].key
    BY DEF ReceiptsOf
  <1>1. PICK s \in snapshots :
          /\ s.id = r.id
          /\ Finish(c, IF Resolves(r, s, req[c]) THEN Ok(i)
                       ELSE Refusal("IdempotencyConflict"))
    BY <1>0 DEF ResolveReceipt, LedgerInv, Linked
  <1>2. CASE Resolves(r, s, req[c])
    <2>1. Finish(c, Ok(i)) /\ answer'[c] = Ok(i) /\ Ok(i) \in Answer
      BY <1>1, <1>2, FinishAnswer DEF Answer
    <2>2. Store!Justified(c, Ok(i))
      BY <1>0, <1>2 DEF Store!Justified, Store!ReceiptedFor, Store!ReceiptsOf,
         Store!Resolves, Store!Ok, Ok, Resolves
    <2>3. QED
      BY <2>1, <2>2, FinishReplies
  <1>3. CASE ~Resolves(r, s, req[c])
    <2> DEFINE a == Refusal("IdempotencyConflict")
    <2>1. Finish(c, a) /\ a \in Answer
      BY <1>1, <1>3 DEF Answer, Refused
    <2>2. answer'[c] = a
      BY <2>1, FinishAnswer
    <2>3. Store!Justified(c, a)
      <3>1. Store!ReceiptedFor(req[c]) = {}
        BY <1>0, <1>1, <1>3 DEF Store!ReceiptedFor, Store!ReceiptsOf,
           Store!Resolves, Resolves, LedgerInv, OneDecision, Owners
      <3>2. Store!ReceiptsOf(req[c].key) # {}
        BY <1>0 DEF Store!ReceiptsOf
      <3>3. QED
        BY <3>1, <3>2 DEF Store!Justified, Store!Refusal, Refusal
    <2> HIDE DEF a
    <2>4. QED
      BY <2>1, <2>2, <2>3, FinishReplies
  <1>4. QED
    BY <1>2, <1>3

LEMMA ResolveBusinessMaps ==
  ASSUME LedgerInv, NEW c \in Call, NEW s \in SnapshotsOf(req[c].biz),
         ResolveBusiness(c, s), Stat(pc[c]) = "pending"
  PROVE  Store!Reply(c) \/ UNCHANGED Store!svars
  <1>1. CASE s.hash = req[c].hash
    <2>1. /\ pc' = [pc EXCEPT ![c] = "attachAlias"]
          /\ UNCHANGED <<req, owed, answer, snapshots, receipts>>
      BY <1>1 DEF ResolveBusiness, Goto, input, rows
    <2>2. ASSUME NEW d \in Call PROVE Stat(pc'[d]) = Stat(pc[d])
      BY <2>1 DEF LedgerInv, TypeOK, Stat
    <2>3. Status' = Status
      BY <2>2 DEF Status
    <2>4. QED
      BY <2>1, <2>3 DEF Store!svars, Status, Stat
  <1>2. CASE s.hash # req[c].hash
    <2> DEFINE a == Refusal("BusinessConflict")
    <2>1. Finish(c, a) /\ a \in Answer
      BY <1>2 DEF ResolveBusiness, Answer, Refused
    <2>2. answer'[c] = a
      BY <2>1, FinishAnswer
    <2>3. Store!Justified(c, a)
      BY <1>2 DEF Store!Justified, Store!Refusal, Refusal, Store!SnapshotsOf, SnapshotsOf
    <2> HIDE DEF a
    <2>4. QED
      BY <2>1, <2>2, <2>3, FinishReplies
  <1>3. QED
    BY <1>1, <1>2

LEMMA DecideMaps ==
  ASSUME LedgerInv, NEW c \in Call, Decide(c)
  PROVE  Store!Reply(c) \/ UNCHANGED Store!svars
  <1>1. Stat(pc[c]) = "pending" /\ owed[c] = NoCall
    BY DEF Decide, Stat, LedgerInv, CallInv
  <1>2. CASE Proceed(c, "insertSnapshot")
    BY <1>1, <1>2, ProceedStutters DEF Label, Stat
  <1>3. CASE Finish(c, Refusal("ProvenanceRejected"))
             /\ <<ver[c], req[c].hash>> \notin Accepts
    <2> DEFINE a == Refusal("ProvenanceRejected")
    <2>1. Finish(c, a) /\ a \in Answer
      BY <1>3 DEF Answer, Refused
    <2>2. answer'[c] = a
      BY <2>1, FinishAnswer
    <2>3. Store!Justified(c, a)
      BY <1>1, <1>3 DEF Store!Justified, Store!Refusal, Refusal, LedgerInv, TypeOK
    <2> HIDE DEF a
    <2>4. QED
      BY <1>1, <2>1, <2>2, <2>3, FinishReplies
  <1>4. QED
    BY <1>2, <1>3 DEF Decide

LEMMA ReplyMaps ==
  ASSUME LedgerInv, NEW c \in Call, Reply(c)
  PROVE  Store!Reply(c)
  <1>1. Granted(c, target[c]) /\ target[c] \in Call
    BY DEF LedgerInv, CallInv, Granted, Reply, TypeOK, SnapshotRow
  <1>2. Finish(c, Ok(target[c])) /\ answer'[c] = Ok(target[c])
    BY FinishAnswer DEF Reply
  <1>3. Ok(target[c]) \in Answer /\ Stat(pc[c]) = "pending"
    BY <1>1 DEF Answer, Reply, Stat
  <1>4. Store!Justified(c, Ok(target[c]))
    BY <1>1 DEF Store!Justified, Store!ReceiptedFor, Store!ReceiptsOf,
       Store!Resolves, Store!Ok, Ok, Resolves, Granted
  <1>5. QED
    BY <1>2, <1>3, <1>4, FinishReplies

(* The linearization points: the commit of the pair, and the alias insert.  *)
LEMMA CommitMaps ==
  ASSUME LedgerInv, NEW c \in Call, Commit(c)
  PROVE  Store!Record(c)
  <1>1. /\ pc' = [pc EXCEPT ![c] = "reply"] /\ pc[c] = "commit"
        /\ UNCHANGED <<req, owed, answer>>
    BY DEF Commit, Goto, input
  <1>2. Status' = Status /\ Status[c] = "pending"
    <2>1. ASSUME NEW d \in Call PROVE Stat(pc'[d]) = Stat(pc[d])
      BY <1>1 DEF LedgerInv, TypeOK, Stat
    <2>2. QED
      BY <1>1, <2>1 DEF Status, Stat
  <1>3. <<ver[c], req[c].hash>> \in Accepts /\ ver[c] \in Version
    BY RequestType DEF LedgerInv, CallInv, Commit
  <1>4. QED
    BY <1>1, <1>2, <1>3 DEF Commit, MySnapshot, MyReceipt, Store!Record,
       Store!SnapshotsOf, Store!ReceiptsOf, Status, Stat, LedgerInv, Claims,
       HoldsSnapshot, HoldsReceipt

LEMMA AttachAliasMaps ==
  ASSUME LedgerInv, NEW c \in Call, AttachAlias(c)
  PROVE  Store!Alias(c) \/ UNCHANGED Store!svars
  <1>0. pc[c] = "attachAlias" /\ Decided(c, target[c])
    BY DEF AttachAlias, LedgerInv, CallInv
  <1>1. CASE Proceed(c, "reloadAlias")
    BY <1>0, <1>1, ProceedStutters DEF Label, Stat
  <1>2. CASE /\ ReceiptsOf(req[c].key) = {}
             /\ receipts' = receipts \cup {MyReceipt(c, target[c])}
             /\ Goto(c, "reply")
             /\ UNCHANGED <<input, target, attempt, answer, snapshots>>
    <2>1. ASSUME NEW d \in Call PROVE Stat(pc'[d]) = Stat(pc[d])
      BY <1>0, <1>2 DEF LedgerInv, TypeOK, Stat, Goto
    <2>2. Status' = Status /\ Status[c] = "pending"
      BY <1>0, <2>1 DEF Status, Stat
    <2>3. PICK s \in snapshots : s.id = target[c] /\ s.biz = req[c].biz
                                 /\ s.hash = req[c].hash
      BY <1>0 DEF Decided
    <2>4. QED
      BY <1>2, <2>2, <2>3 DEF input, MyReceipt, Store!Alias, Store!SnapshotsOf,
         Store!ReceiptsOf, ReceiptsOf, Status, Stat
  <1>3. QED
    BY <1>1, <1>2 DEF AttachAlias

LEMMA BeginMaps ==
  ASSUME LedgerInv, NEW c \in Call, Begin(c)
  PROVE  Store!Submit(c)
  <1>1. Status' = [Status EXCEPT ![c] = "pending"] /\ Status[c] = "idle"
    BY DEF Begin, Goto, Status, Stat, LedgerInv, TypeOK
  <1>2. QED
    BY <1>1 DEF Begin, Goto, rows, Store!Submit, Status, Stat

LEMMA CrashMaps ==
  ASSUME LedgerInv, NEW c \in Call, Crash(c)
  PROVE  Store!Lose(c)
  <1>1. Status' = [Status EXCEPT ![c] = "lost"] /\ Status[c] = "pending"
    BY DEF Crash, Proceed, Goto, Status, Stat, LedgerInv, TypeOK
  <1>2. QED
    BY <1>1 DEF Crash, Proceed, rows, input, Store!Lose, Status, Stat

LEMMA NextMaps == LedgerInv /\ [Next]_vars => [Store!Next]_(Store!svars)
  <1> SUFFICES ASSUME LedgerInv, [Next]_vars
               PROVE  Store!Next \/ UNCHANGED Store!svars
    OBVIOUS
  <1>1. ASSUME NEW c \in Call, FindReceipt(c) \/ ReconcileReceipt(c)
        PROVE  Store!Reply(c) \/ UNCHANGED Store!svars
    <2>1. Stat(pc[c]) = "pending"
      BY <1>1 DEF FindReceipt, ReconcileReceipt, Stat
    <2>2. CASE \E r \in ReceiptsOf(req[c].key) : ResolveReceipt(c, r, r.id)
      <3>1. PICK r \in ReceiptsOf(req[c].key) : ResolveReceipt(c, r, r.id)
        BY <2>2
      <3>2. r.id \in Call
        BY DEF ReceiptsOf, LedgerInv, TypeOK, ReceiptRow
      <3>3. QED
        BY <2>1, <3>1, <3>2, ResolveReceiptReplies DEF Resolves
    <2>3. CASE Proceed(c, "findBusiness") \/ Proceed(c, "reconcileBusiness")
      BY <2>1, <2>3, ProceedStutters DEF Label, Stat
    <2>4. QED
      BY <1>1, <2>2, <2>3 DEF FindReceipt, ReconcileReceipt
  <1>2. ASSUME NEW c \in Call, FindBusiness(c) \/ ReconcileBusiness(c)
        PROVE  Store!Reply(c) \/ UNCHANGED Store!svars
    <2>1. Stat(pc[c]) = "pending"
      BY <1>2 DEF FindBusiness, ReconcileBusiness, Stat
    <2>2. CASE \E s \in SnapshotsOf(req[c].biz) : ResolveBusiness(c, s)
      BY <2>1, <2>2, ResolveBusinessMaps
    <2>3. CASE FindBusiness(c) /\ Proceed(c, "decide")
      BY <2>1, <2>3, ProceedStutters DEF Label, Stat
    <2>4. pc[c] = "reconcileBusiness" => SnapshotsOf(req[c].biz) # {}
      BY DEF LedgerInv, CallInv, BizTaken, SnapshotsOf
    <2>5. QED
      BY <1>2, <2>2, <2>3, <2>4 DEF FindBusiness, ReconcileBusiness
  <1>3. ASSUME NEW c \in Call, InsertSnapshot(c) \/ InsertReceipt(c)
        PROVE  UNCHANGED Store!svars
    <2>1. /\ pc[c] \in {"insertSnapshot", "insertReceipt"}
          /\ \E l \in {"insertReceipt", "commit", "reconcileReceipt"} : Proceed(c, l)
      BY <1>3 DEF InsertSnapshot, InsertReceipt
    <2>2. QED
      BY <2>1, ProceedStutters DEF Label, Stat
  <1>4. ASSUME NEW c \in Call, ReloadAlias(c)
        PROVE  Store!Reply(c)
    <2>1. /\ Decided(c, target[c]) /\ target[c] \in Call
          /\ ReceiptsOf(req[c].key) # {}
      BY <1>4 DEF ReloadAlias, LedgerInv, CallInv, Decided, TypeOK, SnapshotRow,
             KeyTaken, ReceiptsOf
    <2>2. PICK r \in ReceiptsOf(req[c].key) : ResolveReceipt(c, r, target[c])
      BY <1>4, <2>1 DEF ReloadAlias
    <2>3. \A s \in snapshots : Resolves(r, s, req[c]) => s.id = target[c]
      BY <2>1 DEF LedgerInv, OneDecision, Decided, Resolves
    <2>4. Stat(pc[c]) = "pending"
      BY <1>4 DEF ReloadAlias, Stat
    <2>5. QED
      BY <2>1, <2>2, <2>3, <2>4, ResolveReceiptReplies
  <1>5. ASSUME NEW c \in Call, Begin(c) \/ Step(c) \/ Crash(c)
        PROVE  Store!Next \/ UNCHANGED Store!svars
    BY <1>1, <1>2, <1>3, <1>4, <1>5, DecideMaps, ReplyMaps, CommitMaps,
       AttachAliasMaps, BeginMaps, CrashMaps DEF Step, Store!Next
  <1>6. CASE UNCHANGED vars
    BY <1>6 DEF vars, Store!svars
  <1>7. QED
    BY <1>5, <1>6 DEF Next, Terminated

LEMMA InitMaps == Init => Store!Init
  BY DEF Init, Store!Init, NoAnswer, Store!NoAnswer

(* decideAndPersist, statement by statement and with crashes, implements    *)
(* the atomic decision store.                                               *)
THEOREM LedgerImplementsStore == Spec => ImplementsStore
  <1>1. LedgerInv /\ [Next]_vars => [Store!Next]_(Store!svars)
    BY NextMaps
  <1>2. QED
    BY <1>1, InitMaps, LedgerInvariant, PTL DEF Spec, ImplementsStore, Store!Spec
=============================================================================
