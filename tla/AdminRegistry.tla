--------------------------- MODULE AdminRegistry ---------------------------
(***************************************************************************)
(* The study's administration: protocols, experiments, participants and    *)
(* assignments registered under a domain key by four repositories of one   *)
(* shape, the freezing of a protocol, and the recruitment identities that  *)
(* turn a credential into a participant's domain key.                      *)
(*                                                                         *)
(* A registration inserts first: row and receipt in one transaction.  A    *)
(* unique violation rolls both back and is then resolved by the receipt of *)
(* the key, else by the row of the domain key, which gets an alias receipt.*)
(* The indexes are PostgreSQL's: an insert waits for an open transaction   *)
(* that holds its key and fails on a committed row.                        *)
(***************************************************************************)
EXTENDS Naturals, FiniteSets

CONSTANTS
  Call,         \* service calls, in the order they begin
  Menus,        \* sets of commands whose calls may meet
  Code,         \* what the participant code generator may draw
  Version,      \* default key versions of the processes
  SeedRows, SeedReceipts, SeedFrozen, SeedLinks,  \* committed before
  None          \* null

(* Calls, seeded rows and codes have names of their own, and commands are    *)
(* those of the seven repository methods.                                    *)
ASSUME RegistryAssumption ==
  /\ Call \subseteq Nat /\ None \notin Call /\ None \notin Code
  /\ \A r \in SeedRows : r.id \notin Call
  /\ \A menu \in Menus : \A q \in menu :
       q.op \in {"protocol", "experiment", "participant", "assignment", "freeze", "link"}

(* What is committed before was written by the same repositories: an id     *)
(* names one row, participants alone have a code, a credential has one      *)
(* anchor.                                                                  *)
ASSUME SeedAssumption ==
  /\ \A r \in SeedRows : /\ r.kind \in {"protocol", "experiment", "participant", "assignment"}
                          /\ r.code = None <=> r.kind # "participant"
  /\ \A r, s \in SeedRows : r.id = s.id => r = s
  /\ \A l \in SeedLinks : l = [credential |-> l.credential, anchor |-> l.anchor]
  /\ \A l, m \in SeedLinks : l.credential = m.credential => l = m

VARIABLES
  cmd,        \* the command of each call
  what,       \* the domain key and content its request hash covers
  pc,         \* its next step
  attempt,    \* failed inserts so far
  code,       \* the participant code it drew last
  target,     \* the row it means to alias
  answer,     \* what it returned or threw
  rows,       \* protocol, experiment, participant and assignment rows
  receipts,   \* the rows of their receipt tables
  frozen,     \* the protocols whose lifecycleStatus is FROZEN
  links,      \* RecruitmentCredentialLink rows
  identities  \* RecruitmentSubjectIdentity rows

tables == <<rows, receipts, frozen, links, identities>>
vars == <<cmd, what, pc, attempt, code, target, answer, tables>>

-----------------------------------------------------------------------------
(* A command names what it registers by dom and content: version and digest *)
(* of a protocol, code and protocol of an experiment, the pair of an        *)
(* assignment, key and key version of a participant; a participant without  *)
(* content comes with a credential instead, a freeze with a protocol and    *)
(* the digest it expects, a link with a credential and its anchor.          *)
Registered == {"protocol", "experiment", "participant", "assignment"}
Nothing == [dom |-> None, content |-> None]

NoAnswer == [kind |-> "none", row |-> None]
Ok(id) == [kind |-> "Ok", row |-> id]
Refusal(k) == [kind |-> k, row |-> None]
Refused == {"IdempotencyConflict", "DomainConflict", "NotFrozen", "UnknownRow",
            "Unprovisioned", "Reassigned", "AlreadyFrozen", "InvariantError"}

Rows(kind) == {r \in rows : r.kind = kind}
ById(id) == {r \in rows : r.id = id}
ReceiptsFor(c) == {r \in receipts : r.op = cmd[c].op /\ r.key = cmd[c].key}
AnchorsOf(credential) == {l.anchor : l \in {m \in links : m.credential = credential}}
IdentityOf(anchor) == {i \in identities : i.anchor = anchor}

(* Uncommitted rows and the locked protocol of an open transaction.         *)
HoldsRow(c) == pc[c] \in {"insertReceipt", "commit"}
HoldsReceipt(c, op, k) ==
  pc[c] \in {"commit", "commitFreeze"} /\ cmd[c].op = op /\ cmd[c].key = k
HoldsProtocol(c, p) ==
  pc[c] \in {"freeze", "freezeReceipt", "commitFreeze"} /\ cmd[c].dom = p

MyRow(c) == [kind |-> cmd[c].op, id |-> c, dom |-> what[c].dom,
             content |-> what[c].content, code |-> code[c]]
MyReceipt(c, id) == [op |-> cmd[c].op, key |-> cmd[c].key, hash |-> what[c], row |-> id]

Others(c) == Call \ {c}
Goto(c, label) == pc' = [pc EXCEPT ![c] = label]
Proceed(c, label) ==
  Goto(c, label) /\ UNCHANGED <<cmd, what, attempt, code, target, answer, tables>>
Finish(c, a) ==
  /\ Goto(c, "done")
  /\ answer' = [answer EXCEPT ![c] = a]
  /\ UNCHANGED <<cmd, what, attempt, code, target, tables>>
(* The call knows what its request hash covers.                             *)
Know(c, dom, content, label) ==
  /\ what' = [what EXCEPT ![c] = [dom |-> dom, content |-> content]]
  /\ Goto(c, label)
  /\ UNCHANGED <<cmd, attempt, code, target, answer, tables>>

(* assertReceiptRequestHash, and the row the receipt links to.              *)
Replay(c, r) ==
  Finish(c, IF r.hash = what[c] THEN Ok(r.row) ELSE Refusal("IdempotencyConflict"))

-----------------------------------------------------------------------------
Init ==
  /\ \E menu \in Menus : cmd \in [Call -> menu]
  /\ what = [c \in Call |-> Nothing]
  /\ pc = [c \in Call |-> "idle"]
  /\ attempt = [c \in Call |-> 0]
  /\ code = [c \in Call |-> None]
  /\ target = [c \in Call |-> None]
  /\ answer = [c \in Call |-> NoAnswer]
  /\ rows = SeedRows /\ receipts = SeedReceipts /\ frozen = SeedFrozen
  /\ links = SeedLinks /\ identities = {}

Start(q) ==
  CASE q.op = "experiment" -> "checkProtocol"
    [] q.op = "freeze" -> "readProtocol"
    [] q.op = "link" -> "findLink"
    [] q.op = "participant" /\ q.content = None -> "findCredential"
    [] OTHER -> "insertRow"

Begin(c) ==
  /\ pc[c] = "idle"
  /\ \A d \in Call : d < c => pc[d] # "idle"
  /\ Know(c, cmd[c].dom, cmd[c].content, Start(cmd[c]))

(* assertProtocolFrozen, before the transaction (the insert trigger that    *)
(* repeats it is not modelled).                                             *)
CheckProtocol(c) ==
  /\ pc[c] = "checkProtocol"
  /\ IF \A p \in Rows("protocol") : p.id # cmd[c].content
     THEN Finish(c, Refusal("UnknownRow"))
     ELSE IF cmd[c].content \notin frozen THEN Finish(c, Refusal("NotFrozen"))
     ELSE Proceed(c, "insertRow")

(* resolveCredential: the anchor the credential was provisioned for.        *)
FindCredential(c) ==
  /\ pc[c] = "findCredential"
  /\ \/ \E a \in AnchorsOf(cmd[c].dom) : Know(c, a, None, "findIdentity")
     \/ AnchorsOf(cmd[c].dom) = {} /\ Finish(c, Refusal("Unprovisioned"))

(* resolveDurableIdentity: what was issued before derivation, else a key    *)
(* derived under this process's version ...                                 *)
FindIdentity(c) ==
  /\ pc[c] = "findIdentity"
  /\ \/ \E i \in IdentityOf(what[c].dom) : Know(c, i.key, i.version, "insertRow")
     \/ IdentityOf(what[c].dom) = {} /\ Proceed(c, "issueIdentity")

(* ... which issueSubjectIdentity inserts, or finds issued by another.      *)
IssueIdentity(c) ==
  /\ pc[c] = "issueIdentity"
  /\ IF IdentityOf(what[c].dom) # {} THEN Proceed(c, "reloadIdentity")
     ELSE \E v \in Version :
       LET k == [anchor |-> what[c].dom, version |-> v] IN
       /\ identities' = identities \cup {[anchor |-> what[c].dom, key |-> k, version |-> v]}
       /\ what' = [what EXCEPT ![c] = [dom |-> k, content |-> v]]
       /\ Goto(c, "insertRow")
       /\ UNCHANGED <<cmd, attempt, code, target, answer, rows, receipts, frozen, links>>

ReloadIdentity(c) ==
  /\ pc[c] = "reloadIdentity"
  /\ \E i \in IdentityOf(what[c].dom) : Know(c, i.key, i.version, "insertRow")

-----------------------------------------------------------------------------
(* The rows an insert with code k would collide with: the domain key, and   *)
(* for a participant the code too.                                          *)
Codes(c) == IF cmd[c].op = "participant" THEN Code ELSE {None}
Collides(c, dom, k, l) == dom = what[c].dom \/ (k # None /\ k = l)
Taken(c, k) == {r \in Rows(cmd[c].op) : Collides(c, r.dom, k, r.code)}
Free(c, k) ==
  /\ Taken(c, k) = {}
  /\ \A d \in Others(c) : HoldsRow(d) /\ cmd[d].op = cmd[c].op
                           => ~Collides(c, what[d].dom, k, code[d])

(* The foreign keys of an assignment; the share lock an experiment takes on *)
(* its protocol.                                                            *)
Refers(c) ==
  CASE cmd[c].op = "assignment" ->
         /\ \E e \in Rows("experiment") : e.id = what[c].dom.experiment
         /\ \E p \in Rows("participant") : p.id = what[c].dom.participant
    [] cmd[c].op = "experiment" ->
         \A d \in Others(c) : ~HoldsProtocol(d, what[c].content)
    [] OTHER -> TRUE

(* The first insert of the transaction, with a code drawn for this attempt. *)
InsertRow(c) ==
  /\ pc[c] = "insertRow"
  /\ \E k \in Codes(c) :
       /\ code' = [code EXCEPT ![c] = k]
       /\ \/ Taken(c, k) # {} /\ Goto(c, "reconcileReceipt")
          \/ Free(c, k) /\ Refers(c) /\ Goto(c, "insertReceipt")
       /\ UNCHANGED <<cmd, what, attempt, target, answer, tables>>

(* A foreign key violation is wrapped as it is.                             *)
RefuseReference(c) ==
  /\ pc[c] = "insertRow" /\ cmd[c].op = "assignment"
  /\ Free(c, None) /\ ~Refers(c)
  /\ Finish(c, Refusal("UnknownRow"))

(* The second insert; a key that is taken rolls the row back.               *)
InsertReceipt(c) ==
  /\ pc[c] = "insertReceipt"
  /\ \A d \in Others(c) : ~HoldsReceipt(d, cmd[c].op, cmd[c].key)
  /\ Proceed(c, IF ReceiptsFor(c) = {} THEN "commit" ELSE "reconcileReceipt")

(* Mutant: a participant is stored without its code.                        *)
CommitUncoded(c) ==
  /\ pc[c] = "commit"
  /\ rows' = rows \cup {[MyRow(c) EXCEPT !.code = None]}
  /\ receipts' = receipts \cup {MyReceipt(c, c)}
  /\ answer' = [answer EXCEPT ![c] = Ok(c)]
  /\ Goto(c, "done")
  /\ UNCHANGED <<cmd, what, attempt, code, target, frozen, links, identities>>

Commit(c) ==
  /\ pc[c] = "commit"
  /\ rows' = rows \cup {MyRow(c)}
  /\ receipts' = receipts \cup {MyReceipt(c, c)}
  /\ answer' = [answer EXCEPT ![c] = Ok(c)]
  /\ Goto(c, "done")
  /\ UNCHANGED <<cmd, what, attempt, code, target, frozen, links, identities>>

(* reconcile: the receipt of the key first ...                              *)
ReconcileReceipt(c) ==
  /\ pc[c] = "reconcileReceipt"
  /\ \/ \E r \in ReceiptsFor(c) : Replay(c, r)
     \/ ReceiptsFor(c) = {} /\ Proceed(c, "reconcileDomain")

(* ... then the domain key: the same content is aliased, another is a       *)
(* conflict; with neither the insert is tried again, three times for a      *)
(* participant, whose code may be what collided, else twice.                *)
Attempts(c) == IF cmd[c].op = "participant" THEN 3 ELSE 2
RowsOfDomain(c) == {r \in Rows(cmd[c].op) : r.dom = what[c].dom}

(* Mutants: an alias whatever the content, and a retry without a bound.     *)
ReconcileDomainUnchecked(c) ==
  /\ pc[c] = "reconcileDomain"
  /\ \E r \in RowsOfDomain(c) :
       /\ target' = [target EXCEPT ![c] = r.id]
       /\ Goto(c, "attachAlias")
       /\ UNCHANGED <<cmd, what, attempt, code, answer, tables>>

ReconcileDomainUnbounded(c) ==
  /\ pc[c] = "reconcileDomain"
  /\ \/ RowsOfDomain(c) = {} /\ Proceed(c, "insertRow")
     \/ ReconcileDomainUnchecked(c)

ReconcileDomain(c) ==
  /\ pc[c] = "reconcileDomain"
  /\ \/ \E r \in RowsOfDomain(c) :
          \/ r.content # what[c].content /\ Finish(c, Refusal("DomainConflict"))
          \/ /\ r.content = what[c].content
             /\ target' = [target EXCEPT ![c] = r.id]
             /\ Goto(c, "attachAlias")
             /\ UNCHANGED <<cmd, what, attempt, code, answer, tables>>
     \/ /\ RowsOfDomain(c) = {}
        /\ IF attempt[c] + 1 = Attempts(c) THEN Finish(c, Refusal("InvariantError"))
           ELSE /\ attempt' = [attempt EXCEPT ![c] = @ + 1]
                /\ Goto(c, "insertRow")
                /\ UNCHANGED <<cmd, what, code, target, answer, tables>>

(* attachAlias: one insert, committed by itself; it waits for the key and   *)
(* for a freeze that holds the row it refers to.                            *)
AttachAlias(c) ==
  /\ pc[c] = "attachAlias"
  /\ \A d \in Others(c) : /\ ~HoldsReceipt(d, cmd[c].op, cmd[c].key)
                           /\ ~HoldsProtocol(d, target[c])
  /\ IF ReceiptsFor(c) # {} THEN Proceed(c, "reloadAlias")
     ELSE /\ receipts' = receipts \cup {MyReceipt(c, target[c])}
          /\ answer' = [answer EXCEPT ![c] = Ok(target[c])]
          /\ Goto(c, "done")
          /\ UNCHANGED <<cmd, what, attempt, code, target, rows, frozen, links, identities>>

(* Mutant: the key's new owner is not asked what it was used for.           *)
ReloadAliasUnproved(c) ==
  /\ pc[c] = "reloadAlias"
  /\ \E r \in ReceiptsFor(c) : Finish(c, Ok(r.row))

ReloadAlias(c) ==
  /\ pc[c] = "reloadAlias"
  /\ \E r \in ReceiptsFor(c) : Replay(c, r)

-----------------------------------------------------------------------------
(* freezeAnalysisProtocol: the service reads the protocol for its request   *)
(* hash and the caller's expectation ...                                    *)
ReadProtocol(c) ==
  /\ pc[c] = "readProtocol"
  /\ \/ /\ \A p \in Rows("protocol") : p.id # cmd[c].dom
        /\ Finish(c, Refusal("UnknownRow"))
     \/ \E p \in Rows("protocol") :
          /\ p.id = cmd[c].dom
          /\ IF cmd[c].content \notin {None, p.content}
             THEN Finish(c, Refusal("DomainConflict"))
             ELSE Know(c, p.dom, p.content, "lockProtocol")

(* ... and freeze locks its row, once no open experiment shares it, ...      *)
LockProtocol(c) ==
  /\ pc[c] = "lockProtocol"
  /\ \A d \in Others(c) :
       /\ ~HoldsProtocol(d, cmd[c].dom)
       /\ ~(cmd[d].op = "experiment" /\ HoldsRow(d) /\ what[d].content = cmd[c].dom)
  /\ Proceed(c, "freeze")

(* ... replays its key, aliases the freeze of a frozen protocol, or freezes *)
(* a draft: the last two go on to insert a receipt.                         *)
FreezesOf(p) == {r \in receipts : r.op = "freeze" /\ r.row = p}

Freeze(c) ==
  /\ pc[c] = "freeze"
  /\ \/ \E r \in ReceiptsFor(c) : Replay(c, r)
     \/ /\ ReceiptsFor(c) = {}
        /\ IF cmd[c].dom \in frozen /\ FreezesOf(cmd[c].dom) = {}
           THEN Finish(c, Refusal("AlreadyFrozen"))
           ELSE IF \E r \in FreezesOf(cmd[c].dom) : r.hash # what[c]
           THEN Finish(c, Refusal("IdempotencyConflict"))
           ELSE Proceed(c, "freezeReceipt")

(* Nothing reconciles a freeze key that another protocol's freeze took.     *)
InsertFreezeReceipt(c) ==
  /\ pc[c] = "freezeReceipt"
  /\ \A d \in Others(c) : ~HoldsReceipt(d, "freeze", cmd[c].key)
  /\ IF ReceiptsFor(c) = {} THEN Proceed(c, "commitFreeze")
     ELSE Finish(c, Refusal("InvariantError"))

CommitFreeze(c) ==
  /\ pc[c] = "commitFreeze"
  /\ frozen' = frozen \cup {cmd[c].dom}
  /\ receipts' = receipts \cup {MyReceipt(c, cmd[c].dom)}
  /\ answer' = [answer EXCEPT ![c] = Ok(cmd[c].dom)]
  /\ Goto(c, "done")
  /\ UNCHANGED <<cmd, what, attempt, code, target, rows, links, identities>>

-----------------------------------------------------------------------------
(* linkCredential: look, insert, and look again after a violation.          *)
ResolveLink(c, anchor) ==
  Finish(c, IF anchor = cmd[c].content THEN Ok(None) ELSE Refusal("Reassigned"))

FindLink(c) ==
  /\ pc[c] = "findLink"
  /\ \/ \E a \in AnchorsOf(cmd[c].dom) : ResolveLink(c, a)
     \/ AnchorsOf(cmd[c].dom) = {} /\ Proceed(c, "insertLink")

InsertLink(c) ==
  /\ pc[c] = "insertLink"
  /\ IF AnchorsOf(cmd[c].dom) # {} THEN Proceed(c, "reloadLink")
     ELSE /\ links' = links \cup {[credential |-> cmd[c].dom, anchor |-> cmd[c].content]}
          /\ answer' = [answer EXCEPT ![c] = Ok(None)]
          /\ Goto(c, "done")
          /\ UNCHANGED <<cmd, what, attempt, code, target, rows, receipts, frozen, identities>>

ReloadLink(c) ==
  /\ pc[c] = "reloadLink"
  /\ \E a \in AnchorsOf(cmd[c].dom) : ResolveLink(c, a)

Crash(c) ==
  /\ pc[c] \notin {"idle", "done", "crashed"}
  /\ Proceed(c, "crashed")

Step(c) ==
  \/ CheckProtocol(c) \/ FindCredential(c) \/ FindIdentity(c) \/ IssueIdentity(c)
  \/ ReloadIdentity(c) \/ InsertRow(c) \/ RefuseReference(c) \/ InsertReceipt(c)
  \/ Commit(c) \/ ReconcileReceipt(c) \/ ReconcileDomain(c) \/ AttachAlias(c)
  \/ ReloadAlias(c) \/ ReadProtocol(c) \/ LockProtocol(c) \/ Freeze(c)
  \/ InsertFreezeReceipt(c) \/ CommitFreeze(c) \/ FindLink(c) \/ InsertLink(c)
  \/ ReloadLink(c)

Terminated ==
  /\ \A c \in Call : pc[c] \in {"done", "crashed"}
  /\ UNCHANGED vars

Next ==
  \/ \E c \in Call : Begin(c) \/ Step(c) \/ Crash(c)
  \/ Terminated

Spec == Init /\ [][Next]_vars

(* While some statement waits for nobody, one of them completes: the server *)
(* does not stop, but need not be fair to any call.                         *)
Fairness == WF_vars(\E c \in Call : Step(c))
FairSpec == Spec /\ Fairness

-----------------------------------------------------------------------------
Id == Call \cup {r.id : r \in SeedRows}

TypeOK ==
  /\ \E menu \in Menus : cmd \in [Call -> menu]
  /\ \A c \in Call : /\ DOMAIN what[c] = {"dom", "content"}
                      /\ attempt[c] < 3
                      /\ code[c] \in Code \cup {None}
                      /\ target[c] \in Id \cup {None}
                      /\ answer[c].kind \in Refused \cup {"none", "Ok"}
                      /\ answer[c].row \in Id \cup {None}
  /\ \A r \in rows : /\ r.kind \in Registered /\ r.id \in Id
                      /\ r.code = None <=> r.kind # "participant"
  /\ \A r \in receipts : r.op \in Registered \cup {"freeze"} /\ r.row \in Id
  /\ frozen \subseteq Id
  /\ \A i \in identities : i.version \in Version

(* Insert-first with its two look-ups, aliases outside any lock, retries,   *)
(* identities issued by racing processes and the lock of a freeze come to   *)
(* what AdminStore says in one step each: rows, receipts and frozen         *)
(* protocols stay coherent, a key answers for ever what it answered first,  *)
(* the subject behind a credential is one participant, and every refusal    *)
(* is one that the tables justify at the moment it is given.                *)
Status(c) == CASE pc[c] = "idle" -> "idle" [] pc[c] = "done" -> "answered"
               [] pc[c] = "crashed" -> "lost" [] OTHER -> "pending"

Store == INSTANCE AdminStore WITH status <- [c \in Call |-> Status(c)]

ImplementsRegistry == Store!Spec

(* No cycle of waits on rows, keys and locked protocols, and no endless     *)
(* retry: a call that has begun returns, throws or dies.                    *)
EveryCallAnswers ==
  \A c \in Call : pc[c] # "idle" ~> pc[c] \in {"done", "crashed"}
=============================================================================
