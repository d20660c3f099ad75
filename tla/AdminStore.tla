------------------------------ MODULE AdminStore ------------------------------
(***************************************************************************)
(* What the study's administration promises to its callers, stated over    *)
(* its tables and nothing else.  A row appears together with the receipt   *)
(* of the call that made it; a further key is attached to a row it agrees  *)
(* with; a protocol is frozen together with a receipt that says so; a      *)
(* subject is one participant key for ever, whatever credentials and key   *)
(* versions come later; and a refusal is one that the tables justify.      *)
(* AdminRegistry, which follows the statements of the repositories one by  *)
(* one, implements it.                                                     *)
(***************************************************************************)
EXTENDS Naturals, FiniteSets

CONSTANTS
  Call,     \* service calls; a retry is another call
  Code,     \* participant codes
  Version,  \* default key versions of the processes
  None      \* null

VARIABLES
  cmd,         \* the command of each call
  status,      \* idle, pending, answered or lost, for each call
  answer,      \* what each call was answered
  rows, receipts, frozen, links, identities

tables == <<rows, receipts, frozen, links, identities>>
svars == <<cmd, status, answer, tables>>

-----------------------------------------------------------------------------
NoAnswer == [kind |-> "none", row |-> None]
Ok(id) == [kind |-> "Ok", row |-> id]

Rows(kind) == {r \in rows : r.kind = kind}
ReceiptsFor(c) == {r \in receipts : r.op = cmd[c].op /\ r.key = cmd[c].key}
AnchorsOf(credential) == {l.anchor : l \in {m \in links : m.credential = credential}}
IdentityOf(anchor) == {i \in identities : i.anchor = anchor}
FreezesOf(p) == {r \in receipts : r.op = "freeze" /\ r.row = p}

(* What command c means: the protocol to be frozen, the identity issued to  *)
(* the subject of a credential, or the domain key and content it brings.    *)
ByCredential(c) == cmd[c].op = "participant" /\ cmd[c].content = None
Subjects(c) == UNION {IdentityOf(a) : a \in AnchorsOf(cmd[c].dom)}
Means(c) ==
  CASE cmd[c].op = "freeze" ->
         {[dom |-> p.dom, content |-> p.content] : p \in {r \in Rows("protocol") : r.id = cmd[c].dom}}
    [] ByCredential(c) -> {[dom |-> i.key, content |-> i.version] : i \in Subjects(c)}
    [] OTHER -> {[dom |-> cmd[c].dom, content |-> cmd[c].content]}

SameDomain(c, m) == {r \in Rows(cmd[c].op) : r.dom = m.dom}

(* A protocol is frozen when it is to be frozen, or to be experimented on.  *)
Expected(c, m) == cmd[c].content \in {None, m.content}
Grounded(c, m) ==
  CASE cmd[c].op = "experiment" -> m.content \in frozen
    [] cmd[c].op = "assignment" -> /\ \E e \in Rows("experiment") : e.id = m.dom.experiment
                                   /\ \E p \in Rows("participant") : p.id = m.dom.participant
    [] OTHER -> TRUE

(* No row without a receipt that describes it, no protocol frozen without   *)
(* one, nothing held twice, and no experiment on a draft.                   *)
Coherent ==
  /\ \A r \in rows : \E k \in receipts : k.op = r.kind /\ k.row = r.id
  /\ \A k \in receipts : \E r \in rows :
       /\ r.id = k.row /\ k.op \in {r.kind, "freeze"}
       /\ k.hash = [dom |-> r.dom, content |-> r.content]
  /\ frozen = {k.row : k \in {l \in receipts : l.op = "freeze"}}
  /\ \A r, s \in rows :
       r.kind = s.kind /\ (r.dom = s.dom \/ (r.code = s.code /\ r.code # None)) => r = s
  /\ \A k, l \in receipts : k.op = l.op /\ k.key = l.key => k = l
  /\ \A e \in Rows("experiment") : e.content \in frozen

-----------------------------------------------------------------------------
Init ==
  /\ status = [c \in Call |-> "idle"]
  /\ answer = [c \in Call |-> NoAnswer]
  /\ Coherent
  /\ \A l, m \in links : l.credential = m.credential => l = m
  /\ identities = {}

Submit(c) ==
  /\ status[c] = "idle"
  /\ status' = [status EXCEPT ![c] = "pending"]
  /\ UNCHANGED <<cmd, answer, tables>>

Reply(c, a) ==
  /\ status[c] = "pending"
  /\ status' = [status EXCEPT ![c] = "answered"]
  /\ answer' = [answer EXCEPT ![c] = a]
  /\ UNCHANGED cmd

(* The subject of a credential gets its one key.                            *)
Issue(c) ==
  /\ status[c] = "pending" /\ ByCredential(c)
  /\ \E a \in AnchorsOf(cmd[c].dom), v \in Version :
       /\ IdentityOf(a) = {}
       /\ identities' = identities \cup
            {[anchor |-> a, key |-> [anchor |-> a, version |-> v], version |-> v]}
  /\ UNCHANGED <<cmd, status, answer, rows, receipts, frozen, links>>

Receipted(c, m, id) ==
  /\ ReceiptsFor(c) = {}
  /\ receipts' = receipts \cup {[op |-> cmd[c].op, key |-> cmd[c].key, hash |-> m, row |-> id]}

(* A row that nothing collides with, on ground that will not give way.      *)
Register(c) ==
  /\ cmd[c].op \notin {"freeze", "link"}
  /\ \E m \in Means(c), k \in Code \cup {None} :
       /\ k = None <=> cmd[c].op # "participant"
       /\ SameDomain(c, m) = {} /\ Grounded(c, m)
       /\ \A r \in Rows(cmd[c].op) : r.code = k => k = None
       /\ rows' = rows \cup {[kind |-> cmd[c].op, id |-> c, dom |-> m.dom,
                              content |-> m.content, code |-> k]}
       /\ Receipted(c, m, c)
  /\ Reply(c, Ok(c))
  /\ UNCHANGED <<frozen, links, identities>>

(* A further key for a row that is what the command means.                  *)
Alias(c) ==
  /\ \E m \in Means(c) : \E r \in SameDomain(c, m) :
       /\ r.content = m.content
       /\ Receipted(c, m, r.id)
       /\ Reply(c, Ok(r.id))
  /\ UNCHANGED <<rows, frozen, links, identities>>

(* A protocol is frozen, or known to be, as it was expected to read.        *)
Freeze(c) ==
  /\ cmd[c].op = "freeze"
  /\ \E m \in Means(c) : Expected(c, m) /\ Receipted(c, m, cmd[c].dom)
  /\ frozen' = frozen \cup {cmd[c].dom}
  /\ Reply(c, Ok(cmd[c].dom))
  /\ UNCHANGED <<rows, links, identities>>

(* A key answers what it answered first.                                    *)
Replay(c) ==
  /\ \E r \in ReceiptsFor(c) : r.hash \in Means(c) /\ Reply(c, Ok(r.row))
  /\ UNCHANGED tables

Link(c) ==
  /\ cmd[c].op = "link"
  /\ AnchorsOf(cmd[c].dom) \subseteq {cmd[c].content}
  /\ links' = links \cup {[credential |-> cmd[c].dom, anchor |-> cmd[c].content]}
  /\ Reply(c, Ok(None))
  /\ UNCHANGED <<rows, receipts, frozen, identities>>

(* The refusals the tables justify.  A protocol that cannot be frozen any   *)
(* more is not among them, and an error that nothing explains only where a  *)
(* participant's code meets another participant's, or a freeze's key        *)
(* another protocol's freeze.                                               *)
Justified(c, kind) ==
  CASE kind = "IdempotencyConflict" ->
         \E r \in ReceiptsFor(c), m \in Means(c) : r.hash # m
    [] kind = "DomainConflict" ->
         \E m \in Means(c) : \/ \E r \in SameDomain(c, m) : r.content # m.content
                             \/ cmd[c].op = "freeze" /\ ~Expected(c, m)
    [] kind = "NotFrozen" ->
         cmd[c].op = "experiment" /\ \E p \in Rows("protocol") : p.id = cmd[c].content /\ p.id \notin frozen
    [] kind = "UnknownRow" ->
         \/ cmd[c].op = "freeze" /\ Means(c) = {}
         \/ cmd[c].op = "experiment" /\ \A p \in Rows("protocol") : p.id # cmd[c].content
         \/ cmd[c].op = "assignment" /\ \E m \in Means(c) : ~Grounded(c, m)
    [] kind = "Unprovisioned" -> ByCredential(c) /\ AnchorsOf(cmd[c].dom) = {}
    [] kind = "Reassigned" ->
         cmd[c].op = "link" /\ \E a \in AnchorsOf(cmd[c].dom) : a # cmd[c].content
    [] kind = "InvariantError" ->
         \/ /\ cmd[c].op = "participant"
            /\ \E m \in Means(c) : \E r \in Rows("participant") : r.dom # m.dom
         \/ cmd[c].op = "freeze" /\ \E r \in ReceiptsFor(c) : r.row # cmd[c].dom
    [] OTHER -> FALSE

Refuse(c) ==
  /\ answer[c] = NoAnswer
  /\ \E kind \in {"IdempotencyConflict", "DomainConflict", "NotFrozen", "UnknownRow",
                  "Unprovisioned", "Reassigned", "InvariantError"} :
       Justified(c, kind) /\ Reply(c, [kind |-> kind, row |-> None])
  /\ UNCHANGED tables

(* The process dies; what it had written stays.                             *)
Lose(c) ==
  /\ status[c] = "pending"
  /\ status' = [status EXCEPT ![c] = "lost"]
  /\ UNCHANGED <<cmd, answer, tables>>

Next ==
  \E c \in Call :
    \/ Submit(c) \/ Issue(c) \/ Register(c) \/ Alias(c) \/ Freeze(c)
    \/ Replay(c) \/ Link(c) \/ Refuse(c) \/ Lose(c)

Spec == Init /\ [][Next]_svars
=============================================================================
