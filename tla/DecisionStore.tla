--------------------------- MODULE DecisionStore ---------------------------
(***************************************************************************)
(* What the M3.5A decision store promises to its callers, stated over its  *)
(* two append-only tables and nothing else: a decision and the receipt of  *)
(* the request that made it appear together, a further idempotency key is  *)
(* attached to a decision it agrees with, and an answer is always one the  *)
(* tables justify.  DecisionLedger, which follows the statements of        *)
(* decideAndPersist one by one, implements it.                             *)
(***************************************************************************)
EXTENDS Naturals, FiniteSets

CONSTANTS
  Call,       \* invocations of decideAndPersist; a retry is another call
  Request,    \* [key, biz, hash] triples a caller may submit
  Version,    \* corpus-and-engine builds a process may be running
  Accepts,    \* <<version, hash>> pairs the corpus provenance check accepts
  NoCall      \* no snapshot id

VARIABLES
  req,        \* the request of each call
  status,     \* idle, pending, answered or lost, for each call
  owed,       \* the snapshot already receipted for the request at submission
  snapshots,  \* committed DecisionSnapshot rows
  receipts,   \* committed DecisionIdempotencyReceipt rows
  answer      \* what each call was answered

svars == <<req, status, owed, snapshots, receipts, answer>>

-----------------------------------------------------------------------------
NoAnswer == [kind |-> "none", id |-> NoCall]
Ok(i) == [kind |-> "Ok", id |-> i]
Refusal(k) == [kind |-> k, id |-> NoCall]

ReceiptsOf(k) == {r \in receipts : r.key = k}
SnapshotsOf(b) == {s \in snapshots : s.biz = b}

(* A receipt resolves a request when its hash and the business key of the   *)
(* snapshot it links to are both the requested ones.                        *)
Resolves(r, s, q) == r.id = s.id /\ r.hash = q.hash /\ s.biz = q.biz

(* The snapshots that a receipt already held for request q.                 *)
ReceiptedFor(q) ==
  {s \in snapshots : \E r \in ReceiptsOf(q.key) : Resolves(r, s, q)}

OwedFor(q) ==
  IF ReceiptedFor(q) = {} THEN NoCall ELSE (CHOOSE s \in ReceiptedFor(q) : TRUE).id

-----------------------------------------------------------------------------
Init ==
  /\ req \in [Call -> Request]
  /\ status = [c \in Call |-> "idle"]
  /\ owed = [c \in Call |-> NoCall]
  /\ snapshots = {}
  /\ receipts = {}
  /\ answer = [c \in Call |-> NoAnswer]

Submit(c) ==
  /\ status[c] = "idle"
  /\ status' = [status EXCEPT ![c] = "pending"]
  /\ owed' = [owed EXCEPT ![c] = OwedFor(req[c])]
  /\ UNCHANGED <<req, snapshots, receipts, answer>>

(* A decision nobody made: the snapshot and its receipt, in one step.       *)
Record(c) ==
  /\ status[c] = "pending"
  /\ SnapshotsOf(req[c].biz) = {} /\ ReceiptsOf(req[c].key) = {}
  /\ \E v \in Version :
       /\ <<v, req[c].hash>> \in Accepts
       /\ snapshots' = snapshots \cup
            {[id |-> c, biz |-> req[c].biz, hash |-> req[c].hash, ver |-> v]}
  /\ receipts' = receipts \cup
       {[key |-> req[c].key, hash |-> req[c].hash, id |-> c]}
  /\ UNCHANGED <<req, status, owed, answer>>

(* A new key for a decision already made on the same input.                 *)
Alias(c) ==
  /\ status[c] = "pending"
  /\ ReceiptsOf(req[c].key) = {}
  /\ \E s \in SnapshotsOf(req[c].biz) :
       /\ s.hash = req[c].hash
       /\ receipts' = receipts \cup
            {[key |-> req[c].key, hash |-> req[c].hash, id |-> s.id]}
  /\ UNCHANGED <<req, status, owed, snapshots, answer>>

(* The answers the tables justify.                                          *)
Justified(c, a) ==
  \/ \E s \in ReceiptedFor(req[c]) : a = Ok(s.id)
  \/ /\ a = Refusal("IdempotencyConflict")
     /\ ReceiptsOf(req[c].key) # {} /\ ReceiptedFor(req[c]) = {}
  \/ /\ a = Refusal("BusinessConflict")
     /\ \E s \in SnapshotsOf(req[c].biz) : s.hash # req[c].hash
  \/ /\ a = Refusal("ProvenanceRejected")
     /\ owed[c] = NoCall
     /\ \E v \in Version : <<v, req[c].hash>> \notin Accepts

Reply(c) ==
  /\ status[c] = "pending"
  /\ \E a \in {Ok(i) : i \in Call}
              \cup {Refusal(k) : k \in {"IdempotencyConflict", "BusinessConflict",
                                        "ProvenanceRejected"}} :
       /\ Justified(c, a)
       /\ answer' = [answer EXCEPT ![c] = a]
  /\ status' = [status EXCEPT ![c] = "answered"]
  /\ UNCHANGED <<req, owed, snapshots, receipts>>

(* The caller's process dies; what it had recorded stays.                   *)
Lose(c) ==
  /\ status[c] = "pending"
  /\ status' = [status EXCEPT ![c] = "lost"]
  /\ UNCHANGED <<req, owed, snapshots, receipts, answer>>

Next ==
  \E c \in Call : Submit(c) \/ Record(c) \/ Alias(c) \/ Reply(c) \/ Lose(c)

Spec == Init /\ [][Next]_svars
=============================================================================
