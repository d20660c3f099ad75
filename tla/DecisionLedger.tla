--------------------------- MODULE DecisionLedger ---------------------------
(***************************************************************************)
(* decideAndPersist (services/decide-and-persist.ts) over the              *)
(* DecisionSnapshotRepository, one action per database statement.  A call  *)
(* reads the receipt of its key, then the snapshot of its business key,    *)
(* and only then decides and inserts snapshot and receipt in one           *)
(* transaction; a unique violation sends it through reconcileCreate.       *)
(* Calls interleave between any two statements and may die at any of them. *)
(*                                                                         *)
(* PostgreSQL: a row inserted by an open transaction is invisible to other *)
(* readers, an insert that collides with it waits for that transaction,    *)
(* and an insert that collides with a committed row fails (P2002) and      *)
(* rolls its own transaction back.  The rows of the open transaction of a  *)
(* call follow from its pc, see HoldsSnapshot and HoldsReceipt.            *)
(***************************************************************************)
EXTENDS Naturals, FiniteSets

CONSTANTS
  Call,       \* invocations of decideAndPersist; a retry is another call
  Request,    \* [key, biz, hash] triples, parsed: hash stands for the input
  Version,    \* corpus-and-engine builds; a rolling deploy runs several
  Accepts,    \* <<version, hash>> pairs the corpus provenance check accepts
  NoCall      \* no snapshot id

Key == {q.key : q \in Request}
Biz == {q.biz : q \in Request}
Hash == {q.hash : q \in Request}

ASSUME LedgerAssumption ==
  /\ NoCall \notin Call
  /\ Request \subseteq [key : Key, biz : Biz, hash : Hash]

VARIABLES
  req,        \* the request of each call
  ver,        \* the build of the process that serves the call
  pc,         \* the statement the call executes next
  target,     \* the snapshot id a call is about to alias or return
  attempt,    \* the loop counter of createDecision
  answer,     \* what the call returned or threw
  snapshots,  \* committed DecisionSnapshot rows
  receipts,   \* committed DecisionIdempotencyReceipt rows
  owed        \* history: the snapshot receipted for the request at the start

vars == <<req, ver, pc, target, attempt, answer, snapshots, receipts, owed>>
rows == <<snapshots, receipts>>
input == <<req, ver, owed>>

Store == INSTANCE DecisionStore WITH
  status <- [c \in Call |-> IF pc[c] = "idle" THEN "idle"
                            ELSE IF pc[c] = "done" THEN "answered"
                            ELSE IF pc[c] = "crashed" THEN "lost" ELSE "pending"]

-----------------------------------------------------------------------------
SnapshotRow == [id : Call, biz : Biz, hash : Hash, ver : Version]
ReceiptRow == [key : Key, hash : Hash, id : Call]

Refused == {"IdempotencyConflict", "BusinessConflict", "ProvenanceRejected",
            "InvariantError"}
NoAnswer == [kind |-> "none", id |-> NoCall]
Ok(i) == [kind |-> "Ok", id |-> i]
Refusal(k) == [kind |-> k, id |-> NoCall]
Answer == {NoAnswer} \cup {Ok(i) : i \in Call} \cup {Refusal(k) : k \in Refused}

Label ==
  {"idle", "findReceipt", "findBusiness", "decide", "insertSnapshot",
   "insertReceipt", "commit", "reconcileReceipt", "reconcileBusiness",
   "attachAlias", "reloadAlias", "reply", "done", "crashed"}

ReceiptsOf(k) == {r \in receipts : r.key = k}
SnapshotsOf(b) == {s \in snapshots : s.biz = b}

(* assertReceiptMatchesRequest, with the link from receipt to snapshot.     *)
Resolves(r, s, q) == r.id = s.id /\ r.hash = q.hash /\ s.biz = q.biz
ReceiptedFor(q) ==
  {s \in snapshots : \E r \in ReceiptsOf(q.key) : Resolves(r, s, q)}

(* The uncommitted rows: a transaction that has inserted its snapshot, and  *)
(* one that has inserted its receipt too.                                   *)
HoldsSnapshot(c) == pc[c] \in {"insertReceipt", "commit"}
HoldsReceipt(c) == pc[c] = "commit"

MySnapshot(c) ==
  [id |-> c, biz |-> req[c].biz, hash |-> req[c].hash, ver |-> ver[c]]
MyReceipt(c, i) == [key |-> req[c].key, hash |-> req[c].hash, id |-> i]

Goto(c, label) == pc' = [pc EXCEPT ![c] = label]

(* The call returns or throws without writing.                              *)
Finish(c, a) ==
  /\ answer' = [answer EXCEPT ![c] = a]
  /\ Goto(c, "done")
  /\ UNCHANGED <<input, target, attempt, rows>>

(* The call proceeds to another statement and leaves the rest as it is.     *)
Proceed(c, label) ==
  /\ Goto(c, label)
  /\ UNCHANGED <<input, target, attempt, answer, rows>>

(* A receipt found for the key: load the snapshot it links to and prove     *)
(* that it is this request's, else the key was used for another one.        *)
ResolveReceipt(c, r, found) ==
  \/ \E s \in snapshots :
       /\ s.id = r.id
       /\ Finish(c, IF Resolves(r, s, req[c]) THEN Ok(found)
                    ELSE Refusal("IdempotencyConflict"))
  \/ /\ \A s \in snapshots : s.id # r.id
     /\ Finish(c, Refusal("InvariantError"))

(* Mutant: a second key for a decision already made is always a conflict.   *)
ResolveBusinessNeverAliases(c, s) ==
  s.biz = req[c].biz /\ Finish(c, Refusal("BusinessConflict"))

(* A snapshot found for the business key: the same input is aliased, a      *)
(* different one is a conflict.                                             *)
ResolveBusiness(c, s) ==
  \/ /\ s.hash = req[c].hash
     /\ target' = [target EXCEPT ![c] = s.id]
     /\ Goto(c, "attachAlias")
     /\ UNCHANGED <<input, attempt, answer, rows>>
  \/ /\ s.hash # req[c].hash
     /\ Finish(c, Refusal("BusinessConflict"))

-----------------------------------------------------------------------------
Init ==
  /\ req \in [Call -> Request]
  /\ ver \in [Call -> Version]
  /\ pc = [c \in Call |-> "idle"]
  /\ target = [c \in Call |-> NoCall]
  /\ attempt = [c \in Call |-> 0]
  /\ answer = [c \in Call |-> NoAnswer]
  /\ snapshots = {}
  /\ receipts = {}
  /\ owed = [c \in Call |-> NoCall]

Begin(c) ==
  /\ pc[c] = "idle"
  /\ Goto(c, "findReceipt")
  /\ owed' = [owed EXCEPT ![c] = Store!OwedFor(req[c])]
  /\ UNCHANGED <<req, ver, target, attempt, answer, rows>>

(* Mutant: the provenance of the input is examined before the idempotency.  *)
DecideFirst(c) ==
  /\ pc[c] = "findReceipt"
  /\ Proceed(c, "decide")

(* Step 2: an exact retry is answered from its receipt, without deciding.   *)
FindReceipt(c) ==
  /\ pc[c] = "findReceipt"
  /\ \/ \E r \in ReceiptsOf(req[c].key) : ResolveReceipt(c, r, r.id)
     \/ /\ ReceiptsOf(req[c].key) = {}
        /\ Proceed(c, "findBusiness")

(* Step 3: a business decision already made is aliased, not recomputed.     *)
FindBusiness(c) ==
  /\ pc[c] = "findBusiness"
  /\ \/ \E s \in SnapshotsOf(req[c].biz) : ResolveBusiness(c, s)
     \/ /\ SnapshotsOf(req[c].biz) = {}
        /\ Proceed(c, "decide")

(* Mutant: the engine runs on an input the corpus does not authenticate.    *)
DecideUnchecked(c) ==
  /\ pc[c] = "decide"
  /\ Proceed(c, "insertSnapshot")

(* Step 4: provenance, build and engine, under this process's build.        *)
Decide(c) ==
  /\ pc[c] = "decide"
  /\ \/ /\ <<ver[c], req[c].hash>> \in Accepts
        /\ Proceed(c, "insertSnapshot")
     \/ /\ <<ver[c], req[c].hash>> \notin Accepts
        /\ Finish(c, Refusal("ProvenanceRejected"))

(* Mutant: an insert that fails on a row that is not yet committed.         *)
InsertSnapshotNoWait(c) ==
  /\ pc[c] = "insertSnapshot"
  /\ Proceed(c, IF /\ SnapshotsOf(req[c].biz) = {}
                   /\ \A d \in Call \ {c} : HoldsSnapshot(d) => req[d].biz # req[c].biz
                THEN "insertReceipt" ELSE "reconcileReceipt")

(* createDecision, first insert: waits for an open transaction on the       *)
(* business key, fails on a committed snapshot.                             *)
InsertSnapshot(c) ==
  /\ pc[c] = "insertSnapshot"
  /\ \A d \in Call \ {c} : HoldsSnapshot(d) => req[d].biz # req[c].biz
  /\ Proceed(c, IF SnapshotsOf(req[c].biz) = {} THEN "insertReceipt"
                ELSE "reconcileReceipt")

(* createDecision, second insert: as above for the idempotency key; the     *)
(* failure rolls the snapshot back.                                         *)
InsertReceipt(c) ==
  /\ pc[c] = "insertReceipt"
  /\ \A d \in Call \ {c} : HoldsReceipt(d) => req[d].key # req[c].key
  /\ Proceed(c, IF ReceiptsOf(req[c].key) = {} THEN "commit"
                ELSE "reconcileReceipt")

(* Mutants: the receipt is written before the snapshot has its id, and the  *)
(* snapshot is committed by itself.                                         *)
CommitUnlinked(c) ==
  /\ pc[c] = "commit"
  /\ snapshots' = snapshots \cup {MySnapshot(c)}
  /\ receipts' = receipts \cup {MyReceipt(c, target[c])}
  /\ target' = [target EXCEPT ![c] = c]
  /\ Goto(c, "reply")
  /\ UNCHANGED <<input, attempt, answer>>

CommitSnapshotAlone(c) ==
  /\ pc[c] = "commit"
  /\ snapshots' = snapshots \cup {MySnapshot(c)}
  /\ target' = [target EXCEPT ![c] = c]
  /\ Goto(c, "reply")
  /\ UNCHANGED <<input, attempt, answer, receipts>>

Commit(c) ==
  /\ pc[c] = "commit"
  /\ snapshots' = snapshots \cup {MySnapshot(c)}
  /\ receipts' = receipts \cup {MyReceipt(c, c)}
  /\ target' = [target EXCEPT ![c] = c]
  /\ Goto(c, "reply")
  /\ UNCHANGED <<input, attempt, answer>>

(* reconcileCreate, the receipt first ...                                   *)
ReconcileReceipt(c) ==
  /\ pc[c] = "reconcileReceipt"
  /\ \/ \E r \in ReceiptsOf(req[c].key) : ResolveReceipt(c, r, r.id)
     \/ /\ ReceiptsOf(req[c].key) = {}
        /\ Proceed(c, "reconcileBusiness")

(* ... then the business key; with neither the insert is tried once more.   *)
ReconcileBusiness(c) ==
  /\ pc[c] = "reconcileBusiness"
  /\ \/ \E s \in SnapshotsOf(req[c].biz) : ResolveBusiness(c, s)
     \/ /\ SnapshotsOf(req[c].biz) = {}
        /\ attempt[c] = 0
        /\ attempt' = [attempt EXCEPT ![c] = 1]
        /\ Goto(c, "insertSnapshot")
        /\ UNCHANGED <<input, target, answer, rows>>
     \/ /\ SnapshotsOf(req[c].biz) = {}
        /\ attempt[c] = 1
        /\ Finish(c, Refusal("InvariantError"))

(* Mutants: the alias is not recorded, and a taken key is tried again.      *)
AttachAliasUnrecorded(c) ==
  /\ pc[c] = "attachAlias"
  /\ Proceed(c, "reply")

AttachAliasAgain(c) ==
  /\ pc[c] = "attachAlias"
  /\ ReceiptsOf(req[c].key) = {}
  /\ receipts' = receipts \cup {MyReceipt(c, target[c])}
  /\ Goto(c, "reply")
  /\ UNCHANGED <<input, target, attempt, answer, snapshots>>

(* attachAliasReceipt: one insert, committed by itself.                     *)
AttachAlias(c) ==
  /\ pc[c] = "attachAlias"
  /\ \A d \in Call \ {c} : HoldsReceipt(d) => req[d].key # req[c].key
  /\ \/ /\ ReceiptsOf(req[c].key) = {}
        /\ receipts' = receipts \cup {MyReceipt(c, target[c])}
        /\ Goto(c, "reply")
        /\ UNCHANGED <<input, target, attempt, answer, snapshots>>
     \/ /\ ReceiptsOf(req[c].key) # {}
        /\ Proceed(c, "reloadAlias")

(* The key was taken meanwhile: prove the winner's receipt equivalent, and  *)
(* return the snapshot the call meant to alias.                             *)
ReloadAlias(c) ==
  /\ pc[c] = "reloadAlias"
  /\ \/ \E r \in ReceiptsOf(req[c].key) : ResolveReceipt(c, r, target[c])
     \/ /\ ReceiptsOf(req[c].key) = {}
        /\ Finish(c, Refusal("InvariantError"))

Reply(c) ==
  /\ pc[c] = "reply"
  /\ Finish(c, Ok(target[c]))

(* The process, its connection or its transaction's time dies: an open      *)
(* transaction rolls back, committed rows stay, the caller learns nothing.  *)
Crash(c) ==
  /\ pc[c] \notin {"idle", "done", "crashed"}
  /\ Proceed(c, "crashed")

Step(c) ==
  \/ FindReceipt(c) \/ FindBusiness(c) \/ Decide(c)
  \/ InsertSnapshot(c) \/ InsertReceipt(c) \/ Commit(c)
  \/ ReconcileReceipt(c) \/ ReconcileBusiness(c)
  \/ AttachAlias(c) \/ ReloadAlias(c) \/ Reply(c)

Terminated ==
  /\ \A c \in Call : pc[c] \in {"done", "crashed"}
  /\ UNCHANGED vars

Next ==
  \/ \E c \in Call : Begin(c) \/ Step(c) \/ Crash(c)
  \/ Terminated

Spec == Init /\ [][Next]_vars

(* A promise continuation runs and a statement that waits for nobody        *)
(* completes; nothing obliges a caller to begin.                            *)
Fairness == \A c \in Call : WF_vars(Step(c))
FairSpec == Spec /\ Fairness

-----------------------------------------------------------------------------
TypeOK ==
  /\ req \in [Call -> Request]
  /\ ver \in [Call -> Version]
  /\ pc \in [Call -> Label]
  /\ target \in [Call -> Call \cup {NoCall}]
  /\ attempt \in [Call -> {0, 1}]
  /\ answer \in [Call -> Answer]
  /\ snapshots \subseteq SnapshotRow
  /\ receipts \subseteq ReceiptRow
  /\ owed \in [Call -> Call \cup {NoCall}]

(* The two unique constraints hold of what is committed, so a business      *)
(* decision is made once however many callers raced to make it.             *)
OneDecision ==
  /\ \A s, t \in snapshots : s.biz = t.biz => s = t
  /\ \A r, t \in receipts : r.key = t.key => r = t

(* Snapshot and initial receipt commit together, and a receipt only ever    *)
(* links a key to a snapshot taken on the hash it records: a half-written   *)
(* decision is never visible.                                               *)
Linked ==
  /\ \A s \in snapshots : \E r \in receipts : r.id = s.id
  /\ \A r \in receipts : \E s \in snapshots : r.id = s.id /\ r.hash = s.hash

(* One decision per business key, whole or not at all, however many callers *)
(* of decideAndPersist race or die between its statements.                  *)
Coherent == OneDecision /\ Linked

(* A caller told Ok holds a durable receipt for its own key, hash and       *)
(* business decision; callers of one key, or of one business decision, that *)
(* are told Ok hold the same snapshot, whatever order they raced in.        *)
OkIsDurable ==
  \A c \in Call : answer[c].kind = "Ok" =>
    \E s \in ReceiptedFor(req[c]) : s.id = answer[c].id

(* One request is never both granted and refused as a conflict: the verdict *)
(* does not depend on which statement of which racer ran first.             *)
VerdictsAgree ==
  \A c, d \in Call :
    /\ req[c] = req[d]
    /\ answer[c].kind = "Ok"
    => /\ answer[d].kind \notin {"IdempotencyConflict", "BusinessConflict"}
       /\ answer[d].kind = "Ok" => answer[d].id = answer[c].id

(* A call begun when its request was already receipted is answered with     *)
(* that very snapshot, also by a process whose corpus would now reject the  *)
(* input: a retry replays history, it never decides again.                  *)
RetryIsReplay ==
  \A c \in Call : pc[c] = "done" /\ owed[c] # NoCall => answer[c] = Ok(owed[c])

(* A unique violation always finds the row it collided with: the second     *)
(* attempt of createDecision and its closing invariant error, and the       *)
(* "missing after conflict" failure of an alias, are never needed.          *)
NoUnresolvedViolation ==
  \A c \in Call : attempt[c] = 0 /\ answer[c].kind # "InvariantError"

(* No cycle of transactions waiting for each other's uncommitted rows, and  *)
(* no endless reconciliation: a call that has begun returns, throws or dies.*)
EveryCallAnswers ==
  \A c \in Call : pc[c] = "findReceipt" ~> pc[c] \in {"done", "crashed"}

(* The statement-level protocol implements the atomic decision store.       *)
ImplementsStore == Store!Spec
=============================================================================
