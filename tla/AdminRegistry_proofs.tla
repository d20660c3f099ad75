------------------------ MODULE AdminRegistry_proofs ------------------------
(* Proofs about AdminRegistry, for every set of calls, commands, codes and   *)
(* key versions, from tables that are Coherent as AdminStore says.           *)
(*                                                                           *)
(* RegistryInv is the inductive invariant.  CallInv says what a call has     *)
(* established at each statement, and only of rows that are there: rows are  *)
(* only ever added, so it is stable.  What is not there is what open         *)
(* transactions hold: Alone says what the holder has found absent, and Apart *)
(* that two of them hold different things, so that neither adds it.          *)
EXTENDS AdminRegistry, TLAPS

Registering == {"insertRow", "insertReceipt", "commit", "reconcileReceipt", "reconcileDomain",
                "attachAlias", "reloadAlias"}
Freezing == {"readProtocol", "lockProtocol", "freeze", "freezeReceipt", "commitFreeze"}
Identifying == {"findIdentity", "issueIdentity", "reloadIdentity"}
Linking == {"findLink", "insertLink", "reloadLink"}
Holding == {"insertReceipt", "commit", "freeze", "freezeReceipt", "commitFreeze"}
Label == {"idle", "checkProtocol", "findCredential", "done", "crashed"} \cup Registering
           \cup Freezing \cup Identifying \cup Linking
Command == UNION Menus
Answers == {"none", "Ok"} \cup (Refused \ {"AlreadyFrozen"})

Shaped ==
  /\ \E menu \in Menus : cmd \in [Call -> menu]
  /\ pc \in [Call -> Label]
  /\ attempt \in [Call -> Nat]
  /\ code \in [Call -> Code \cup {None}]
  /\ target \in [Call -> Id \cup {None}]
  /\ DOMAIN what = Call /\ DOMAIN answer = Call

(* A row by its id, a link by its credential, and identities of a version.   *)
Named ==
  /\ \A r \in rows : /\ r.kind \in Registered /\ r.id \in Id
                     /\ r.code = None <=> r.kind # "participant"
  /\ \A r, s \in rows : r.id = s.id => r = s
  /\ \A l \in links : l = [credential |-> l.credential, anchor |-> l.anchor]
  /\ \A l, m \in links : l.credential = m.credential => l = m
  /\ \A i \in identities : i.version \in Version

Tables == Named /\ Store!Coherent

-----------------------------------------------------------------------------
(* What made an insert fail: for a participant it may be the code.           *)
Met(c) == IF cmd[c].op = "participant" THEN Rows("participant") # {} ELSE RowsOfDomain(c) # {}

Aimed(c) == \E r \in RowsOfDomain(c) : r.id = target[c] /\ r.content = what[c].content

CallInv(c) ==
  /\ DOMAIN what[c] = {"dom", "content"}
  /\ attempt[c] < Attempts(c)
  /\ answer[c].kind \in Answers /\ answer[c].row \in Id \cup {None}
  /\ pc[c] # "done" => answer[c] = NoAnswer
  /\ pc[c] = "checkProtocol" => cmd[c].op = "experiment"
  /\ pc[c] \in Identifying \cup {"findCredential"} => Store!ByCredential(c)
  /\ pc[c] \in Identifying => what[c].dom \in AnchorsOf(cmd[c].dom)
  /\ pc[c] \in Linking => cmd[c].op = "link"
  /\ pc[c] \in Freezing => cmd[c].op = "freeze"
  /\ pc[c] \in Freezing \ {"readProtocol"} =>
       /\ Store!Expected(c, what[c])
       /\ \E p \in Rows("protocol") :
            p.id = cmd[c].dom /\ what[c] = [dom |-> p.dom, content |-> p.content]
  /\ pc[c] \in Registering \cup {"checkProtocol"} =>
       cmd[c].op \in Registered /\ what[c] \in Store!Means(c)
  /\ pc[c] \in Registering /\ cmd[c].op = "experiment" => what[c].content \in frozen
  /\ HoldsRow(c) =>
       /\ code[c] = None <=> cmd[c].op # "participant"
       /\ Store!Grounded(c, what[c])
  /\ pc[c] = "reconcileReceipt" => ReceiptsFor(c) # {} \/ Met(c)
  /\ pc[c] = "reconcileDomain" => Met(c)
  /\ pc[c] \in {"attachAlias", "reloadAlias"} => Aimed(c)

(* What an open transaction has found absent ...                             *)
Alone(c) ==
  /\ pc[c] # "done" => \A r \in rows : r.id # c
  /\ HoldsRow(c) => Taken(c, code[c]) = {}
  /\ pc[c] \in {"commit", "commitFreeze"} => ReceiptsFor(c) = {}
  /\ pc[c] = "freezeReceipt" => \A r \in ReceiptsFor(c) : r.row # cmd[c].dom

(* ... and two of them not both hold.                                        *)
Apart(c, d) ==
  /\ HoldsRow(c) /\ HoldsRow(d) /\ cmd[c].op = cmd[d].op
       => ~Collides(c, what[d].dom, code[c], code[d])
  /\ pc[c] \in {"commit", "commitFreeze"} => ~HoldsReceipt(d, cmd[c].op, cmd[c].key)
  /\ pc[c] \in {"freeze", "freezeReceipt", "commitFreeze"} => ~HoldsProtocol(d, cmd[c].dom)

RegistryInv ==
  /\ Shaped /\ Tables
  /\ \A c \in Call : CallInv(c) /\ Alone(c)
  /\ \A c, d \in Call : c # d => Apart(c, d)

-----------------------------------------------------------------------------
(* A step of call c touches no other call, and rows are only ever added.     *)
Elsewhere(c) ==
  /\ cmd' = cmd
  /\ \A d \in Call : d # c =>
       /\ what'[d] = what[d] /\ pc'[d] = pc[d] /\ attempt'[d] = attempt[d]
       /\ code'[d] = code[d] /\ target'[d] = target[d] /\ answer'[d] = answer[d]

Grow ==
  /\ rows \subseteq rows' /\ receipts \subseteq receipts' /\ frozen \subseteq frozen'
  /\ links \subseteq links' /\ identities \subseteq identities'

LEMMA CommandType ==
  ASSUME RegistryInv, NEW c \in Call
  PROVE  cmd[c].op \in Registered \cup {"freeze", "link"}
BY RegistryAssumption DEF RegistryInv, Shaped, Registered

LEMMA MeansFreeze ==
  ASSUME NEW d, cmd[d].op = "freeze"
  PROVE  Store!Means(d) = {[dom |-> p.dom, content |-> p.content] :
                             p \in {r \in Store!Rows("protocol") : r.id = cmd[d].dom}}
<1>1. ~Store!ByCredential(d)
  BY DEF Store!ByCredential
<1>2. QED
  BY <1>1, Zenon DEF Store!Means

LEMMA MeansGrow ==
  ASSUME NEW d, cmd' = cmd, Grow
  PROVE  Store!Means(d) \subseteq Store!Means(d)'
<1>1. Store!ByCredential(d)' <=> Store!ByCredential(d)
  BY DEF Store!ByCredential
<1>2. Store!Subjects(d) \subseteq Store!Subjects(d)'
  BY DEF Grow, Store!Subjects, Store!IdentityOf, Store!AnchorsOf
<1>3. Store!Rows("protocol") \subseteq Store!Rows("protocol")'
  BY DEF Grow, Store!Rows
<1>4. CASE cmd[d].op = "freeze"
  <2>1. ASSUME NEW m \in Store!Means(d)
        PROVE  m \in Store!Means(d)'
    <3>1. PICK p \in Store!Rows("protocol") :
            p.id = cmd[d].dom /\ m = [dom |-> p.dom, content |-> p.content]
      BY <1>4, <2>1, MeansFreeze
    <3>2. p \in Store!Rows("protocol")' /\ cmd'[d].op = "freeze" /\ p.id = cmd'[d].dom
      BY <1>3, <1>4, <3>1
    <3>3. ~Store!ByCredential(d)'
      BY <3>2 DEF Store!ByCredential
    <3>4. Store!Means(d)' = {[dom |-> q.dom, content |-> q.content] :
                               q \in {r \in Store!Rows("protocol")' : r.id = cmd'[d].dom}}
      BY <3>2, <3>3, Zenon DEF Store!Means
    <3>5. QED
      BY <3>1, <3>2, <3>4
  <2>2. QED
    BY <2>1
<1>5. CASE cmd[d].op # "freeze" /\ Store!ByCredential(d)
  BY <1>1, <1>2, <1>5 DEF Store!Means
<1>6. CASE cmd[d].op # "freeze" /\ ~Store!ByCredential(d)
  BY <1>1, <1>6 DEF Store!Means
<1>7. QED
  BY <1>4, <1>5, <1>6

LEMMA GroundStays ==
  ASSUME NEW d, cmd' = cmd, Grow, what'[d] = what[d], Store!Grounded(d, what[d])
  PROVE  Store!Grounded(d, what[d])'
BY DEF Store!Grounded, Grow, Store!Rows

LEMMA OthersStand ==
  ASSUME RegistryInv, NEW c \in Call, Elsewhere(c), Grow, NEW d \in Call, d # c
  PROVE  CallInv(d)'
<1>1. CallInv(d)
  BY DEF RegistryInv
<1>2. /\ cmd' = cmd /\ what'[d] = what[d] /\ pc'[d] = pc[d] /\ attempt'[d] = attempt[d]
      /\ code'[d] = code[d] /\ target'[d] = target[d] /\ answer'[d] = answer[d]
  BY DEF Elsewhere
<1>3. /\ Store!Means(d) \subseteq Store!Means(d)'
      /\ Store!Grounded(d, what[d]) => Store!Grounded(d, what[d])'
  BY <1>2, MeansGrow, GroundStays
<1>4. /\ AnchorsOf(cmd[d].dom) \subseteq AnchorsOf(cmd[d].dom)'
      /\ Rows("protocol") \subseteq Rows("protocol")' /\ Rows("participant") \subseteq Rows("participant")'
      /\ RowsOfDomain(d) \subseteq RowsOfDomain(d)' /\ ReceiptsFor(d) \subseteq ReceiptsFor(d)'
      /\ frozen \subseteq frozen'
  BY <1>2 DEF Grow, AnchorsOf, Rows, RowsOfDomain, ReceiptsFor
<1>5. /\ Met(d) => Met(d)'
      /\ Aimed(d) => Aimed(d)'
      /\ Attempts(d)' = Attempts(d) /\ HoldsRow(d)' = HoldsRow(d)
      /\ Store!ByCredential(d)' = Store!ByCredential(d)
      /\ Store!Expected(d, what[d])' = Store!Expected(d, what[d])
  BY <1>2, <1>4 DEF Met, Aimed, Attempts, HoldsRow, Store!ByCredential, Store!Expected
<1>6. ASSUME pc[d] \in Freezing \ {"readProtocol"}
      PROVE  \E p \in Rows("protocol")' :
               p.id = cmd[d].dom /\ what[d] = [dom |-> p.dom, content |-> p.content]
  BY <1>1, <1>4, <1>6 DEF CallInv
<1>7. QED
  BY <1>1, <1>2, <1>3, <1>4, <1>5, <1>6 DEF CallInv

-----------------------------------------------------------------------------
(* A step that adds no row.                                                  *)
LEMMA TablesStand ==
  ASSUME UNCHANGED tables, cmd' = cmd
  PROVE  /\ Tables' <=> Tables
         /\ \A l : Rows(l)' = Rows(l) /\ AnchorsOf(l)' = AnchorsOf(l) /\ IdentityOf(l)' = IdentityOf(l)
         /\ \A d : ReceiptsFor(d)' = ReceiptsFor(d) /\ Store!Means(d)' = Store!Means(d)
<1>1. /\ rows' = rows /\ receipts' = receipts /\ frozen' = frozen
      /\ links' = links /\ identities' = identities
  BY DEF tables
<1>2. Tables' <=> Tables
  BY <1>1 DEF Tables, Named, Store!Coherent, Store!Rows
<1>3. \A l : Rows(l)' = Rows(l) /\ AnchorsOf(l)' = AnchorsOf(l) /\ IdentityOf(l)' = IdentityOf(l)
  BY <1>1 DEF Rows, AnchorsOf, IdentityOf
<1>4. ASSUME NEW d
      PROVE  ReceiptsFor(d)' = ReceiptsFor(d) /\ Store!Means(d)' = Store!Means(d)
  <2>1. ReceiptsFor(d)' = ReceiptsFor(d)
    BY <1>1 DEF ReceiptsFor
  <2>2. /\ Store!Rows("protocol")' = Store!Rows("protocol")
        /\ Store!ByCredential(d)' = Store!ByCredential(d)
        /\ Store!Subjects(d)' = Store!Subjects(d)
    BY <1>1 DEF Store!Rows, Store!ByCredential, Store!Subjects, Store!IdentityOf, Store!AnchorsOf
  <2>3. QED
    BY <2>1, <2>2 DEF Store!Means
<1>5. QED
  BY <1>2, <1>3, <1>4

LEMMA Held ==
  ASSUME RegistryInv, NEW c \in Call, Shaped', Elsewhere(c), UNCHANGED tables, CallInv(c)', Alone(c)',
         \A d \in Call : d # c => Apart(c, d)'
  PROVE  RegistryInv'
<1>1. Tables' /\ Grow
  BY TablesStand DEF RegistryInv, Grow, tables, Elsewhere
<1>2. ASSUME NEW d \in Call
      PROVE  CallInv(d)' /\ Alone(d)'
  <2>1. CASE d = c
    BY <2>1
  <2>2. CASE d # c
    <3>1. CallInv(d)'
      BY <1>1, <2>2, OthersStand
    <3>2. /\ cmd' = cmd /\ what'[d] = what[d] /\ pc'[d] = pc[d] /\ code'[d] = code[d]
          /\ rows' = rows /\ receipts' = receipts
      BY <2>2 DEF Elsewhere, tables
    <3>3. Alone(d)'
      BY <3>2 DEF RegistryInv, Alone, HoldsRow, Taken, Rows, Collides, ReceiptsFor
    <3>4. QED
      BY <3>1, <3>3
  <2>3. QED
    BY <2>1, <2>2
<1>3. ASSUME NEW d \in Call, NEW e \in Call, d # e
      PROVE  Apart(d, e)'
  <2>1. CASE d = c
    BY <1>3, <2>1
  <2>2. CASE e = c
    <3>1. Apart(e, d)'
      BY <1>3, <2>2
    <3>2. QED
      BY <3>1 DEF Apart, HoldsRow, HoldsReceipt, HoldsProtocol, Collides
  <2>3. CASE d # c /\ e # c
    <3>1. /\ cmd' = cmd /\ what'[d] = what[d] /\ pc'[d] = pc[d] /\ code'[d] = code[d]
          /\ what'[e] = what[e] /\ pc'[e] = pc[e] /\ code'[e] = code[e]
      BY <2>3 DEF Elsewhere
    <3>2. Apart(d, e)
      BY <1>3 DEF RegistryInv
    <3>3. QED
      BY <3>1, <3>2 DEF Apart, HoldsRow, HoldsReceipt, HoldsProtocol, Collides
  <2>4. QED
    BY <2>1, <2>2, <2>3
<1>4. QED
  BY <1>1, <1>2, <1>3 DEF RegistryInv

(* ... and goes where it holds nothing.                                      *)
LEMMA Released ==
  ASSUME RegistryInv, NEW c \in Call, Shaped', Elsewhere(c), UNCHANGED tables, CallInv(c)',
         pc'[c] \notin Holding, pc[c] # "done"
  PROVE  RegistryInv'
<1>1. Alone(c)'
  <2>1. \A r \in rows' : r.id # c
    BY DEF RegistryInv, Alone, tables
  <2>2. QED
    BY <2>1 DEF Alone, HoldsRow, Holding
<1>2. \A d \in Call : d # c => Apart(c, d)'
  BY DEF Apart, HoldsRow, HoldsReceipt, HoldsProtocol, Holding
<1>3. QED
  BY <1>1, <1>2, Held

-----------------------------------------------------------------------------
(* The three ways to move on.                                                *)
LEMMA ProceedShape ==
  ASSUME RegistryInv, NEW c \in Call, NEW l \in Label, Proceed(c, l)
  PROVE  /\ Shaped' /\ Elsewhere(c) /\ UNCHANGED tables /\ pc'[c] = l
         /\ what'[c] = what[c] /\ attempt'[c] = attempt[c] /\ code'[c] = code[c]
         /\ target'[c] = target[c] /\ answer'[c] = answer[c]
BY DEF RegistryInv, Shaped, Proceed, Goto, Elsewhere, tables

LEMMA FinishShape ==
  ASSUME RegistryInv, NEW c \in Call, NEW a, Finish(c, a)
  PROVE  /\ Shaped' /\ Elsewhere(c) /\ UNCHANGED tables /\ pc'[c] = "done"
         /\ what'[c] = what[c] /\ attempt'[c] = attempt[c] /\ code'[c] = code[c]
         /\ target'[c] = target[c] /\ answer'[c] = a
BY DEF RegistryInv, Shaped, Finish, Goto, Elsewhere, tables, Label

LEMMA KnowShape ==
  ASSUME RegistryInv, NEW c \in Call, NEW dom, NEW content, NEW l \in Label,
         Know(c, dom, content, l)
  PROVE  /\ Shaped' /\ Elsewhere(c) /\ UNCHANGED tables /\ pc'[c] = l
         /\ what'[c] = [dom |-> dom, content |-> content]
         /\ attempt'[c] = attempt[c] /\ code'[c] = code[c]
         /\ target'[c] = target[c] /\ answer'[c] = answer[c]
BY DEF RegistryInv, Shaped, Know, Goto, Elsewhere, tables

LEMMA FinishInv ==
  ASSUME RegistryInv, NEW c \in Call, NEW a, a.kind \in Answers, a.row \in Id \cup {None},
         pc[c] # "done", Finish(c, a)
  PROVE  RegistryInv'
<1>1. /\ Shaped' /\ Elsewhere(c) /\ UNCHANGED tables /\ pc'[c] = "done" /\ answer'[c] = a
      /\ what'[c] = what[c] /\ attempt'[c] = attempt[c] /\ cmd' = cmd
  BY FinishShape DEF Elsewhere
<1>2. CallInv(c)'
  BY <1>1 DEF RegistryInv, CallInv, Attempts, Registering, Freezing, Identifying, Linking, HoldsRow
<1>3. pc'[c] \notin Holding
  BY <1>1 DEF Holding
<1>4. QED
  BY <1>1, <1>2, <1>3, Released

LEMMA RefusalInv ==
  ASSUME RegistryInv, NEW c \in Call, NEW k \in Refused \ {"AlreadyFrozen"}, pc[c] # "done",
         Finish(c, Refusal(k))
  PROVE  RegistryInv'
<1>1. Refusal(k).kind \in Answers /\ Refusal(k).row \in Id \cup {None}
  BY DEF Refusal, Answers
<1>2. QED
  BY <1>1, FinishInv

(* A receipt describes a row that is there.                                  *)
LEMMA ReceiptType ==
  ASSUME RegistryInv, NEW r \in receipts
  PROVE  r.row \in Id /\ r.op \in Registered \cup {"freeze"}
BY DEF RegistryInv, Tables, Named, Store!Coherent

LEMMA ReplayInv ==
  ASSUME RegistryInv, NEW c \in Call, NEW r \in ReceiptsFor(c), pc[c] # "done", Replay(c, r)
  PROVE  RegistryInv'
<1>1. r \in receipts
  BY DEF ReceiptsFor
<1>2. CASE r.hash = what[c]
  <2>1. Ok(r.row).kind \in Answers /\ Ok(r.row).row \in Id \cup {None}
    BY <1>1, ReceiptType DEF Ok, Answers
  <2>2. Finish(c, Ok(r.row))
    BY <1>2 DEF Replay
  <2>3. QED
    BY <2>1, <2>2, FinishInv
<1>3. CASE r.hash # what[c]
  <2>1. Finish(c, Refusal("IdempotencyConflict"))
    BY <1>3 DEF Replay
  <2>2. QED
    BY <2>1, RefusalInv DEF Refused
<1>4. QED
  BY <1>2, <1>3

(* A call that goes on to a statement where nothing more need be known.      *)
LEMMA ProceedInv ==
  ASSUME RegistryInv, NEW c \in Call, NEW l \in Label \ (Holding \cup {"idle", "done"}),
         pc[c] # "done", Proceed(c, l),
         \/ l = "crashed"
         \/ l \in Registering /\ pc[c] \in Registering
         \/ l = "insertRow" /\ pc[c] = "checkProtocol" /\ what[c].content \in frozen
         \/ l \in Identifying /\ pc[c] \in Identifying
         \/ l \in Linking /\ pc[c] \in Linking,
         l = "reconcileReceipt" => ReceiptsFor(c) # {} \/ Met(c),
         l = "reconcileDomain" => Met(c),
         l \in {"attachAlias", "reloadAlias"} => Aimed(c)
  PROVE  RegistryInv'
<1>1. /\ Shaped' /\ Elsewhere(c) /\ UNCHANGED tables /\ pc'[c] = l /\ cmd' = cmd
      /\ what'[c] = what[c] /\ attempt'[c] = attempt[c] /\ code'[c] = code[c]
      /\ target'[c] = target[c] /\ answer'[c] = answer[c]
  BY ProceedShape DEF Elsewhere
<1>2. /\ AnchorsOf(cmd[c].dom)' = AnchorsOf(cmd[c].dom) /\ frozen' = frozen
      /\ ReceiptsFor(c)' = ReceiptsFor(c) /\ Store!Means(c)' = Store!Means(c)
      /\ Met(c)' = Met(c) /\ Aimed(c)' = Aimed(c)
      /\ Store!ByCredential(c)' = Store!ByCredential(c)
  <2>1. /\ \A k : Rows(k)' = Rows(k)
        /\ AnchorsOf(cmd[c].dom)' = AnchorsOf(cmd[c].dom) /\ frozen' = frozen
        /\ ReceiptsFor(c)' = ReceiptsFor(c) /\ Store!Means(c)' = Store!Means(c)
    BY <1>1, TablesStand DEF tables
  <2>2. Store!ByCredential(c)' = Store!ByCredential(c)
    BY <1>1 DEF Store!ByCredential
  <2>3. QED
    BY <1>1, <2>1, <2>2 DEF Met, Aimed, RowsOfDomain
<1>3. CallInv(c)
  BY DEF RegistryInv
<1>4. CallInv(c)'
  <2>1. CASE l = "crashed"
    BY <1>1, <1>3, <2>1 DEF CallInv, Registering, Freezing, Identifying, Linking, HoldsRow, Attempts
  <2>2. CASE l \in Registering /\ pc[c] \in Registering
    BY <1>1, <1>2, <1>3, <2>2
       DEF CallInv, Registering, Freezing, Identifying, Linking, HoldsRow, Attempts, Holding
  <2>3. CASE l = "insertRow" /\ pc[c] = "checkProtocol" /\ what[c].content \in frozen
    BY <1>1, <1>2, <1>3, <2>3
       DEF CallInv, Registering, Freezing, Identifying, Linking, HoldsRow, Attempts
  <2>4. CASE l \in Identifying /\ pc[c] \in Identifying
    BY <1>1, <1>2, <1>3, <2>4
       DEF CallInv, Registering, Freezing, Identifying, Linking, HoldsRow, Attempts
  <2>5. CASE l \in Linking /\ pc[c] \in Linking
    BY <1>1, <1>2, <1>3, <2>5
       DEF CallInv, Registering, Freezing, Identifying, Linking, HoldsRow, Attempts
  <2>6. QED
    BY <2>1, <2>2, <2>3, <2>4, <2>5
<1>5. QED
  BY <1>1, <1>4, Released

(* ... or to one where it holds something, which is then its own.            *)
LEMMA ProceedHeld ==
  ASSUME RegistryInv, NEW c \in Call, NEW l \in Holding \ {"insertReceipt"}, Proceed(c, l),
         IF l = "commit" THEN pc[c] = "insertReceipt" ELSE pc[c] \in Freezing \ {"readProtocol"},
         l # "freeze" => ReceiptsFor(c) = {},
         l \in {"commit", "commitFreeze"} =>
           \A d \in Others(c) : ~HoldsReceipt(d, cmd[c].op, cmd[c].key),
         l # "commit" => \A d \in Others(c) : ~HoldsProtocol(d, cmd[c].dom)
  PROVE  RegistryInv'
<1>1. /\ Shaped' /\ Elsewhere(c) /\ UNCHANGED tables /\ pc'[c] = l /\ cmd' = cmd
      /\ what'[c] = what[c] /\ attempt'[c] = attempt[c] /\ code'[c] = code[c]
      /\ target'[c] = target[c] /\ answer'[c] = answer[c]
  BY ProceedShape DEF Elsewhere, Holding, Label, Registering, Freezing
<1>2. /\ rows' = rows /\ frozen' = frozen /\ \A k : Rows(k)' = Rows(k)
      /\ ReceiptsFor(c)' = ReceiptsFor(c) /\ Store!Means(c)' = Store!Means(c)
      /\ Store!Expected(c, what[c])' = Store!Expected(c, what[c])
      /\ Store!Grounded(c, what[c]) => Store!Grounded(c, what[c])'
  <2>1. Grow
    BY <1>1 DEF Grow, tables
  <2>2. QED
    BY <1>1, <2>1, TablesStand, GroundStays DEF tables, Store!Expected
<1>3. CallInv(c)'
  <2>1. CallInv(c)
    BY DEF RegistryInv
  <2>2. CASE l = "commit"
    BY <1>1, <1>2, <2>1, <2>2
       DEF CallInv, Registering, Freezing, Identifying, Linking, HoldsRow, Attempts
  <2>3. CASE l # "commit"
    <3>1. l \in {"freeze", "freezeReceipt", "commitFreeze"} /\ pc[c] # "done"
      BY <2>3 DEF Holding, Freezing
    <3>2. /\ cmd[c].op = "freeze" /\ Store!Expected(c, what[c])'
          /\ \E p \in Rows("protocol")' :
               p.id = cmd[c].dom /\ what[c] = [dom |-> p.dom, content |-> p.content]
      BY <1>2, <2>1, <2>3, <3>1 DEF CallInv, Freezing
    <3>3. QED
      BY <1>1, <2>1, <3>1, <3>2
         DEF CallInv, Registering, Freezing, Identifying, Linking, HoldsRow, Attempts
  <2>4. QED
    BY <2>2, <2>3
<1>4. Alone(c)'
  <2>1. Alone(c) /\ Taken(c, code[c])' = Taken(c, code[c])
    BY <1>1, <1>2 DEF RegistryInv, Taken, Collides
  <2>2. QED
    BY <1>1, <1>2, <2>1 DEF Alone, HoldsRow, Freezing, Holding
<1>5. ASSUME NEW d \in Call, d # c
      PROVE  Apart(c, d)'
  <2>1. /\ d \in Others(c) /\ Apart(c, d)
        /\ what'[d] = what[d] /\ pc'[d] = pc[d] /\ code'[d] = code[d]
    BY <1>1, <1>5 DEF Others, Elsewhere, RegistryInv
  <2>2. QED
    BY <1>1, <2>1 DEF Apart, HoldsRow, HoldsReceipt, HoldsProtocol, Collides, Holding
<1>6. QED
  BY <1>1, <1>3, <1>4, <1>5, Held

-----------------------------------------------------------------------------
(* What a command means, by its kind.                                        *)
LEMMA MeansPlain ==
  ASSUME NEW d, cmd[d].op # "freeze", ~Store!ByCredential(d)
  PROVE  Store!Means(d) = {[dom |-> cmd[d].dom, content |-> cmd[d].content]}
BY Zenon DEF Store!Means

LEMMA MeansIdentity ==
  ASSUME NEW d, Store!ByCredential(d), NEW a \in AnchorsOf(cmd[d].dom), NEW i \in IdentityOf(a)
  PROVE  [dom |-> i.key, content |-> i.version] \in Store!Means(d)
<1>1. cmd[d].op # "freeze"
  BY DEF Store!ByCredential
<1>2. Store!Means(d) = {[dom |-> j.key, content |-> j.version] : j \in Store!Subjects(d)}
  BY <1>1, Zenon DEF Store!Means
<1>3. i \in Store!Subjects(d)
  BY DEF Store!Subjects, AnchorsOf, IdentityOf, Store!AnchorsOf, Store!IdentityOf
<1>4. QED
  BY <1>2, <1>3

LEMMA MeansRecord ==
  ASSUME NEW d, NEW m \in Store!Means(d)
  PROVE  m = [dom |-> m.dom, content |-> m.content]
<1>1. CASE cmd[d].op = "freeze"
  BY <1>1, MeansFreeze
<1>2. CASE cmd[d].op # "freeze" /\ ~Store!ByCredential(d)
  BY <1>2, MeansPlain
<1>3. CASE cmd[d].op # "freeze" /\ Store!ByCredential(d)
  <2>1. Store!Means(d) = {[dom |-> j.key, content |-> j.version] : j \in Store!Subjects(d)}
    BY <1>3, Zenon DEF Store!Means
  <2>2. QED
    BY <2>1
<1>4. QED
  BY <1>1, <1>2, <1>3

LEMMA StartShape ==
  ASSUME RegistryInv, NEW c \in Call
  PROVE  LET l == Start(cmd[c]) IN
         \/ l = "checkProtocol" /\ cmd[c].op = "experiment"
         \/ l = "readProtocol" /\ cmd[c].op = "freeze"
         \/ l = "findLink" /\ cmd[c].op = "link"
         \/ l = "findCredential" /\ Store!ByCredential(c)
         \/ l = "insertRow" /\ cmd[c].op \in Registered \ {"experiment"} /\ ~Store!ByCredential(c)
<1>1. CASE cmd[c].op = "experiment"
  BY <1>1, SMT DEF Start
<1>2. CASE cmd[c].op = "freeze"
  BY <1>2, SMT DEF Start
<1>3. CASE cmd[c].op = "link"
  BY <1>3, SMT DEF Start
<1>4. CASE Store!ByCredential(c)
  <2>1. cmd[c].op = "participant" /\ cmd[c].content = None
    BY <1>4 DEF Store!ByCredential
  <2>2. Start(cmd[c]) = "findCredential"
    BY <2>1, SMT DEF Start
  <2>3. QED
    BY <1>4, <2>2
<1>5. CASE cmd[c].op \notin {"experiment", "freeze", "link"} /\ ~Store!ByCredential(c)
  <2>1. ~(cmd[c].op = "participant" /\ cmd[c].content = None)
    BY <1>5 DEF Store!ByCredential
  <2>2. Start(cmd[c]) = "insertRow"
    BY <1>5, <2>1, Zenon DEF Start
  <2>3. QED
    BY <1>5, <2>2, CommandType DEF Registered
<1>6. QED
  BY <1>1, <1>2, <1>3, <1>4, <1>5

LEMMA BeginInv ==
  ASSUME RegistryInv, NEW c \in Call, Begin(c)
  PROVE  RegistryInv'
<1> DEFINE l == Start(cmd[c])
<1>1. Know(c, cmd[c].dom, cmd[c].content, l) /\ pc[c] = "idle"
  BY DEF Begin
<1>2. \/ l = "checkProtocol" /\ cmd[c].op = "experiment"
      \/ l = "readProtocol" /\ cmd[c].op = "freeze"
      \/ l = "findLink" /\ cmd[c].op = "link"
      \/ l = "findCredential" /\ Store!ByCredential(c)
      \/ l = "insertRow" /\ cmd[c].op \in Registered \ {"experiment"} /\ ~Store!ByCredential(c)
  BY StartShape
<1>3. l \in Label /\ l \notin Holding
  BY <1>2 DEF Label, Registering, Freezing, Linking, Holding
<1> HIDE DEF l
<1>4. /\ Shaped' /\ Elsewhere(c) /\ UNCHANGED tables /\ pc'[c] = l /\ cmd' = cmd
      /\ what'[c] = [dom |-> cmd[c].dom, content |-> cmd[c].content]
      /\ attempt'[c] = attempt[c] /\ answer'[c] = answer[c]
  BY <1>1, <1>3, KnowShape DEF Elsewhere
<1>5. CallInv(c)
  BY DEF RegistryInv
<1>6. /\ Store!Means(c)' = Store!Means(c)
      /\ Store!ByCredential(c)' = Store!ByCredential(c)
  BY <1>4, TablesStand DEF Store!ByCredential
<1>7. l \in {"insertRow", "checkProtocol"} => what'[c] \in Store!Means(c)
  BY <1>2, <1>4, MeansPlain DEF Registered, Store!ByCredential
<1>8. CallInv(c)'
  <2>1. DOMAIN what'[c] = {"dom", "content"}
    BY <1>4
  <2>2. QED
    BY <1>1, <1>2, <1>4, <1>5, <1>6, <1>7, <2>1
       DEF CallInv, Registering, Freezing, Identifying, Linking, HoldsRow, Attempts, Registered
<1>9. QED
  BY <1>1, <1>3, <1>4, <1>8, Released

LEMMA InitInv ==
  ASSUME Init, Store!Coherent
  PROVE  RegistryInv
<1>1. Shaped
  BY DEF Init, Shaped, Label
<1>2. Tables
  BY SeedAssumption DEF Init, Tables, Named, Id, Registered
<1>3. ASSUME NEW c \in Call
      PROVE  CallInv(c) /\ Alone(c)
  <2>1. /\ pc[c] = "idle" /\ what[c] = Nothing /\ attempt[c] = 0 /\ answer[c] = NoAnswer
        /\ \A r \in rows : r.id # c
    BY RegistryAssumption DEF Init
  <2>2. QED
    BY <2>1 DEF CallInv, Alone, Nothing, NoAnswer, Attempts, Answers, HoldsRow, Registering,
                Freezing, Identifying, Linking
<1>4. \A c, d \in Call : c # d => Apart(c, d)
  BY DEF Init, Apart, HoldsRow
<1>5. QED
  BY <1>1, <1>2, <1>3, <1>4 DEF RegistryInv

-----------------------------------------------------------------------------
(* The steps that add no row.                                                *)
LEMMA CheckProtocolInv ==
  ASSUME RegistryInv, NEW c \in Call, CheckProtocol(c)
  PROVE  RegistryInv'
<1>1. pc[c] = "checkProtocol" /\ CallInv(c)
  BY DEF CheckProtocol, RegistryInv
<1>2. what[c].content = cmd[c].content
  <2>1. cmd[c].op = "experiment" /\ what[c] \in Store!Means(c)
    BY <1>1 DEF CallInv
  <2>2. QED
    BY <2>1, MeansPlain DEF Store!ByCredential
<1>3. CASE Finish(c, Refusal("UnknownRow")) \/ Finish(c, Refusal("NotFrozen"))
  BY <1>1, <1>3, RefusalInv DEF Refused
<1>4. CASE cmd[c].content \in frozen /\ Proceed(c, "insertRow")
  BY <1>1, <1>2, <1>4, ProceedInv DEF Label, Registering, Holding
<1>5. QED
  BY <1>3, <1>4 DEF CheckProtocol

(* The identity of a subject is known.                                       *)
LEMMA KnowIdentityInv ==
  ASSUME RegistryInv, NEW c \in Call, NEW i \in IdentityOf(what[c].dom),
         pc[c] \in Identifying, Know(c, i.key, i.version, "insertRow")
  PROVE  RegistryInv'
<1>1. /\ Shaped' /\ Elsewhere(c) /\ UNCHANGED tables /\ pc'[c] = "insertRow" /\ cmd' = cmd
      /\ what'[c] = [dom |-> i.key, content |-> i.version]
      /\ attempt'[c] = attempt[c] /\ answer'[c] = answer[c]
  BY KnowShape DEF Elsewhere, Label, Registering
<1>2. CallInv(c) /\ Store!ByCredential(c) /\ what[c].dom \in AnchorsOf(cmd[c].dom)
  BY DEF RegistryInv, CallInv
<1>3. what'[c] \in Store!Means(c)'
  BY <1>1, <1>2, MeansIdentity, TablesStand
<1>4. cmd[c].op = "participant" /\ pc[c] # "done"
  BY <1>2 DEF Store!ByCredential, Identifying
<1>5. CallInv(c)'
  BY <1>1, <1>2, <1>3, <1>4
     DEF CallInv, Registering, Freezing, Identifying, Linking, HoldsRow, Attempts, Registered
<1>6. QED
  BY <1>1, <1>4, <1>5, Released DEF Holding

LEMMA IdentifyInv ==
  ASSUME RegistryInv, NEW c \in Call, FindCredential(c) \/ FindIdentity(c) \/ ReloadIdentity(c)
  PROVE  RegistryInv'
<1>1. CASE FindCredential(c)
  <2>1. pc[c] = "findCredential" /\ CallInv(c) /\ Store!ByCredential(c)
    BY <1>1 DEF FindCredential, RegistryInv, CallInv
  <2>2. CASE Finish(c, Refusal("Unprovisioned"))
    BY <2>1, <2>2, RefusalInv DEF Refused
  <2>3. ASSUME NEW a \in AnchorsOf(cmd[c].dom), Know(c, a, None, "findIdentity")
        PROVE  RegistryInv'
    <3>1. /\ Shaped' /\ Elsewhere(c) /\ UNCHANGED tables /\ pc'[c] = "findIdentity" /\ cmd' = cmd
          /\ what'[c] = [dom |-> a, content |-> None]
          /\ attempt'[c] = attempt[c] /\ answer'[c] = answer[c]
      BY <2>3, KnowShape DEF Elsewhere, Label, Identifying
    <3>2. /\ AnchorsOf(cmd[c].dom)' = AnchorsOf(cmd[c].dom)
          /\ Store!ByCredential(c)' = Store!ByCredential(c)
      BY <3>1, TablesStand DEF Store!ByCredential
    <3>3. CallInv(c)'
      BY <2>1, <2>3, <3>1, <3>2
         DEF CallInv, Registering, Freezing, Identifying, Linking, HoldsRow, Attempts
    <3>4. QED
      BY <2>1, <3>1, <3>3, Released DEF Holding
  <2>4. QED
    BY <1>1, <2>2, <2>3 DEF FindCredential
<1>2. CASE FindIdentity(c)
  <2>1. pc[c] = "findIdentity" /\ pc[c] \in Identifying
    BY <1>2 DEF FindIdentity, Identifying
  <2>2. CASE Proceed(c, "issueIdentity")
    BY <2>1, <2>2, ProceedInv DEF Label, Identifying, Holding
  <2>3. QED
    BY <1>2, <2>1, <2>2, KnowIdentityInv DEF FindIdentity
<1>3. CASE ReloadIdentity(c)
  <2>1. pc[c] \in Identifying
    BY <1>3 DEF ReloadIdentity, Identifying
  <2>2. QED
    BY <1>3, <2>1, KnowIdentityInv DEF ReloadIdentity
<1>4. QED
  BY <1>1, <1>2, <1>3

LEMMA RefersGrounds ==
  ASSUME NEW c, cmd[c].op \in Registered, Refers(c),
         cmd[c].op = "experiment" => what[c].content \in frozen
  PROVE  Store!Grounded(c, what[c])
<1>1. CASE cmd[c].op = "assignment"
  <2>1. /\ \E e \in Rows("experiment") : e.id = what[c].dom.experiment
        /\ \E p \in Rows("participant") : p.id = what[c].dom.participant
    BY <1>1 DEF Refers
  <2>2. QED
    BY <1>1, <2>1 DEF Store!Grounded, Rows, Store!Rows
<1>2. CASE cmd[c].op = "experiment"
  BY <1>2 DEF Store!Grounded
<1>3. CASE cmd[c].op \in {"protocol", "participant"}
  BY <1>3 DEF Store!Grounded
<1>4. QED
  BY <1>1, <1>2, <1>3 DEF Registered

LEMMA InsertRowInv ==
  ASSUME RegistryInv, NEW c \in Call, InsertRow(c)
  PROVE  RegistryInv'
<1>1. PICK k \in Codes(c) :
        /\ code' = [code EXCEPT ![c] = k]
        /\ \/ Taken(c, k) # {} /\ Goto(c, "reconcileReceipt")
           \/ Free(c, k) /\ Refers(c) /\ Goto(c, "insertReceipt")
        /\ UNCHANGED <<cmd, what, attempt, target, answer, tables>>
  BY DEF InsertRow
<1>2. pc[c] = "insertRow" /\ CallInv(c)
  BY DEF InsertRow, RegistryInv
<1>3. /\ cmd[c].op \in Registered /\ what[c] \in Store!Means(c)
      /\ cmd[c].op = "experiment" => what[c].content \in frozen
  BY <1>2 DEF CallInv, Registering
<1>4. k \in Code \cup {None} /\ (k = None <=> cmd[c].op # "participant")
  BY RegistryAssumption DEF Codes
<1>5. PICK l \in {"reconcileReceipt", "insertReceipt"} :
        /\ Goto(c, l)
        /\ IF l = "insertReceipt" THEN Free(c, k) /\ Refers(c) ELSE Taken(c, k) # {}
  BY <1>1
<1>6. /\ Shaped' /\ Elsewhere(c) /\ UNCHANGED tables /\ pc'[c] = l /\ code'[c] = k /\ cmd' = cmd
      /\ what' = what /\ attempt'[c] = attempt[c] /\ answer'[c] = answer[c]
  BY <1>1, <1>4, <1>5 DEF RegistryInv, Shaped, Goto, Elsewhere, tables, Label, Registering
<1>7. /\ \A kind : Rows(kind)' = Rows(kind)
      /\ ReceiptsFor(c)' = ReceiptsFor(c) /\ Store!Means(c)' = Store!Means(c)
      /\ frozen' = frozen /\ rows' = rows
      /\ RowsOfDomain(c)' = RowsOfDomain(c) /\ Met(c)' = Met(c)
  <2>1. /\ \A kind : Rows(kind)' = Rows(kind)
        /\ ReceiptsFor(c)' = ReceiptsFor(c) /\ Store!Means(c)' = Store!Means(c)
        /\ frozen' = frozen /\ rows' = rows
    BY <1>6, TablesStand DEF tables
  <2>2. QED
    BY <1>6, <2>1 DEF RowsOfDomain, Met
<1>8. l = "reconcileReceipt" => Met(c)
  BY <1>4, <1>5 DEF Taken, Collides, Met, RowsOfDomain
<1>9. l = "insertReceipt" => Store!Grounded(c, what[c])'
  <2>1. Grow
    BY <1>6 DEF Grow, tables
  <2>2. QED
    BY <1>3, <1>5, <1>6, <2>1, RefersGrounds, GroundStays
<1>10. CallInv(c)'
  BY <1>2, <1>3, <1>4, <1>6, <1>7, <1>8, <1>9
     DEF CallInv, Registering, Freezing, Identifying, Linking, HoldsRow, Attempts
<1>11. CASE l = "reconcileReceipt"
  BY <1>2, <1>6, <1>10, <1>11, Released DEF Holding
<1>12. CASE l = "insertReceipt"
  <2>1. Alone(c) /\ Free(c, k)
    BY <1>5, <1>12 DEF RegistryInv
  <2>2. Taken(c, code[c])' = {}
    BY <1>6, <1>7, <2>1 DEF Free, Taken, Collides
  <2>3. Alone(c)'
    BY <1>2, <1>6, <1>7, <1>12, <2>1, <2>2 DEF Alone, HoldsRow
  <2>4. ASSUME NEW d \in Call, d # c
        PROVE  Apart(c, d)'
    <3>1. /\ pc'[d] = pc[d] /\ code'[d] = code[d]
          /\ HoldsRow(d) /\ cmd[d].op = cmd[c].op => ~Collides(c, what[d].dom, k, code[d])
      BY <1>6, <2>1, <2>4 DEF Elsewhere, Free, Others
    <3>2. QED
      BY <1>6, <1>12, <3>1 DEF Apart, HoldsRow, Collides
  <2>5. QED
    BY <1>6, <1>10, <2>3, <2>4, Held
<1>13. QED
  BY <1>11, <1>12

LEMMA InsertReceiptInv ==
  ASSUME RegistryInv, NEW c \in Call, InsertReceipt(c)
  PROVE  RegistryInv'
<1>1. CASE ReceiptsFor(c) = {} /\ Proceed(c, "commit")
  BY <1>1, ProceedHeld DEF InsertReceipt, Holding
<1>2. CASE ReceiptsFor(c) # {} /\ Proceed(c, "reconcileReceipt")
  BY <1>2, ProceedInv DEF InsertReceipt, Label, Registering, Holding
<1>3. QED
  BY <1>1, <1>2 DEF InsertReceipt

LEMMA ReconcileReceiptInv ==
  ASSUME RegistryInv, NEW c \in Call, ReconcileReceipt(c)
  PROVE  RegistryInv'
<1>1. pc[c] = "reconcileReceipt" /\ CallInv(c)
  BY DEF ReconcileReceipt, RegistryInv
<1>2. CASE ReceiptsFor(c) = {} /\ Proceed(c, "reconcileDomain")
  <2>1. Met(c)
    BY <1>1, <1>2 DEF CallInv
  <2>2. QED
    BY <1>1, <1>2, <2>1, ProceedInv DEF Label, Registering, Holding
<1>3. QED
  BY <1>1, <1>2, ReplayInv DEF ReconcileReceipt

LEMMA ReconcileDomainInv ==
  ASSUME RegistryInv, NEW c \in Call, ReconcileDomain(c)
  PROVE  RegistryInv'
<1>1. pc[c] = "reconcileDomain" /\ CallInv(c)
  BY DEF ReconcileDomain, RegistryInv
<1>2. CASE Finish(c, Refusal("DomainConflict")) \/ Finish(c, Refusal("InvariantError"))
  BY <1>1, <1>2, RefusalInv DEF Refused
<1>3. ASSUME NEW r \in RowsOfDomain(c), r.content = what[c].content,
             target' = [target EXCEPT ![c] = r.id], Goto(c, "attachAlias"),
             UNCHANGED <<cmd, what, attempt, code, answer, tables>>
      PROVE  RegistryInv'
  <2>1. r.id \in Id
    BY <1>3 DEF RowsOfDomain, Rows, RegistryInv, Tables, Named
  <2>2. /\ Shaped' /\ Elsewhere(c) /\ UNCHANGED tables /\ pc'[c] = "attachAlias" /\ cmd' = cmd
        /\ what' = what /\ attempt'[c] = attempt[c] /\ answer'[c] = answer[c] /\ target'[c] = r.id
    BY <1>3, <2>1 DEF RegistryInv, Shaped, Goto, Elsewhere, tables, Label, Registering
  <2>3. /\ Store!Means(c)' = Store!Means(c) /\ frozen' = frozen
        /\ RowsOfDomain(c)' = RowsOfDomain(c)
    BY <2>2, TablesStand DEF tables, RowsOfDomain
  <2>4. Aimed(c)'
    BY <1>3, <2>2, <2>3 DEF Aimed
  <2>5. CallInv(c)'
    BY <1>1, <2>2, <2>3, <2>4
       DEF CallInv, Registering, Freezing, Identifying, Linking, HoldsRow, Attempts
  <2>6. QED
    BY <1>1, <2>2, <2>5, Released DEF Holding
<1>4. ASSUME attempt[c] + 1 # Attempts(c), attempt' = [attempt EXCEPT ![c] = @ + 1],
             Goto(c, "insertRow"), UNCHANGED <<cmd, what, code, target, answer, tables>>
      PROVE  RegistryInv'
  <2>1. /\ Shaped' /\ Elsewhere(c) /\ UNCHANGED tables /\ pc'[c] = "insertRow" /\ cmd' = cmd
        /\ what' = what /\ attempt'[c] = attempt[c] + 1 /\ answer'[c] = answer[c]
    BY <1>4 DEF RegistryInv, Shaped, Goto, Elsewhere, tables, Label, Registering
  <2>2. Store!Means(c)' = Store!Means(c) /\ frozen' = frozen
    BY <2>1, TablesStand DEF tables
  <2>3. attempt'[c] < Attempts(c)' /\ Attempts(c)' = Attempts(c)
    <3>1. attempt[c] \in Nat /\ attempt[c] < Attempts(c) /\ Attempts(c) \in Nat
      BY <1>1 DEF RegistryInv, Shaped, CallInv, Attempts
    <3>2. Attempts(c)' = Attempts(c)
      BY <2>1 DEF Attempts
    <3>3. QED
      BY <1>4, <2>1, <3>1, <3>2
  <2>4. CallInv(c)'
    BY <1>1, <2>1, <2>2, <2>3
       DEF CallInv, Registering, Freezing, Identifying, Linking, HoldsRow
  <2>5. QED
    BY <1>1, <2>1, <2>4, Released DEF Holding
<1>5. QED
  BY <1>2, <1>3, <1>4 DEF ReconcileDomain

LEMMA ReloadAliasInv ==
  ASSUME RegistryInv, NEW c \in Call, ReloadAlias(c)
  PROVE  RegistryInv'
BY ReplayInv DEF ReloadAlias

LEMMA ReadProtocolInv ==
  ASSUME RegistryInv, NEW c \in Call, ReadProtocol(c)
  PROVE  RegistryInv'
<1>1. pc[c] = "readProtocol" /\ CallInv(c)
  BY DEF ReadProtocol, RegistryInv
<1>2. CASE Finish(c, Refusal("UnknownRow")) \/ Finish(c, Refusal("DomainConflict"))
  BY <1>1, <1>2, RefusalInv DEF Refused
<1>3. ASSUME NEW p \in Rows("protocol"), p.id = cmd[c].dom, cmd[c].content \in {None, p.content},
             Know(c, p.dom, p.content, "lockProtocol")
      PROVE  RegistryInv'
  <2>1. /\ Shaped' /\ Elsewhere(c) /\ UNCHANGED tables /\ pc'[c] = "lockProtocol" /\ cmd' = cmd
        /\ what'[c] = [dom |-> p.dom, content |-> p.content]
        /\ attempt'[c] = attempt[c] /\ answer'[c] = answer[c]
    BY <1>3, KnowShape DEF Elsewhere, Label, Freezing
  <2>2. Store!Expected(c, what[c])' /\ p \in Rows("protocol")'
    BY <1>3, <2>1, TablesStand DEF Store!Expected
  <2>3. CallInv(c)'
    BY <1>1, <1>3, <2>1, <2>2
       DEF CallInv, Registering, Freezing, Identifying, Linking, HoldsRow, Attempts
  <2>4. QED
    BY <1>1, <2>1, <2>3, Released DEF Holding
<1>4. QED
  BY <1>2, <1>3 DEF ReadProtocol

LEMMA FreezeStepsInv ==
  ASSUME RegistryInv, NEW c \in Call, LockProtocol(c) \/ Freeze(c) \/ InsertFreezeReceipt(c)
  PROVE  RegistryInv'
<1>1. CASE LockProtocol(c)
  BY <1>1, ProceedHeld DEF LockProtocol, Holding, Freezing
<1>2. CASE Freeze(c)
  <2>1. pc[c] = "freeze" /\ \A d \in Others(c) : ~HoldsProtocol(d, cmd[c].dom)
    BY <1>2 DEF Freeze, RegistryInv, Apart, Others
  <2>2. CASE ReceiptsFor(c) = {} /\ Proceed(c, "freezeReceipt")
    BY <2>1, <2>2, ProceedHeld DEF Holding, Freezing
  <2>3. ~(cmd[c].dom \in frozen /\ FreezesOf(cmd[c].dom) = {})
    BY DEF RegistryInv, Tables, Store!Coherent, FreezesOf
  <2>4. QED
    BY <1>2, <2>1, <2>2, <2>3, ReplayInv, RefusalInv DEF Freeze, Refused
<1>3. CASE InsertFreezeReceipt(c)
  <2>1. /\ pc[c] = "freezeReceipt" /\ cmd[c].op = "freeze"
        /\ \A d \in Others(c) : ~HoldsProtocol(d, cmd[c].dom)
    BY <1>3 DEF InsertFreezeReceipt, RegistryInv, Apart, Others, CallInv, Freezing
  <2>2. CASE ReceiptsFor(c) = {} /\ Proceed(c, "commitFreeze")
    BY <1>3, <2>1, <2>2, ProceedHeld DEF InsertFreezeReceipt, Holding, Freezing
  <2>3. QED
    BY <1>3, <2>1, <2>2, RefusalInv DEF InsertFreezeReceipt, Refused
<1>4. QED
  BY <1>1, <1>2, <1>3

LEMMA LinkStepsInv ==
  ASSUME RegistryInv, NEW c \in Call, FindLink(c) \/ ReloadLink(c)
  PROVE  RegistryInv'
<1>1. pc[c] \in Linking /\ pc[c] # "done"
  BY DEF FindLink, ReloadLink, Linking
<1>2. ASSUME NEW a, ResolveLink(c, a)
      PROVE  RegistryInv'
  <2>1. Ok(None).kind \in Answers /\ Ok(None).row \in Id \cup {None}
    BY DEF Ok, Answers
  <2>2. QED
    BY <1>1, <1>2, <2>1, FinishInv, RefusalInv DEF ResolveLink, Refused
<1>3. CASE Proceed(c, "insertLink")
  BY <1>1, <1>3, ProceedInv DEF Label, Linking, Holding
<1>4. QED
  BY <1>2, <1>3 DEF FindLink, ReloadLink

-----------------------------------------------------------------------------
(* The steps that add rows.                                                  *)
LEMMA Added ==
  ASSUME RegistryInv, NEW c \in Call, Shaped', Elsewhere(c), Grow, Tables', CallInv(c)', Alone(c)',
         pc'[c] \notin Holding,
         \A d \in Call : d # c => Alone(d)'
  PROVE  RegistryInv'
<1>1. ASSUME NEW d \in Call
      PROVE  CallInv(d)' /\ Alone(d)'
  BY OthersStand
<1>2. ASSUME NEW d \in Call, NEW e \in Call, d # e
      PROVE  Apart(d, e)'
  <2>1. CASE d = c \/ e = c
    BY <2>1 DEF Apart, HoldsRow, HoldsReceipt, HoldsProtocol, Holding
  <2>2. CASE d # c /\ e # c
    <3>1. /\ cmd' = cmd /\ what'[d] = what[d] /\ pc'[d] = pc[d] /\ code'[d] = code[d]
          /\ what'[e] = what[e] /\ pc'[e] = pc[e] /\ code'[e] = code[e]
      BY <2>2 DEF Elsewhere
    <3>2. Apart(d, e)
      BY <1>2 DEF RegistryInv
    <3>3. QED
      BY <3>1, <3>2 DEF Apart, HoldsRow, HoldsReceipt, HoldsProtocol, Collides
  <2>3. QED
    BY <2>1, <2>2
<1>3. QED
  BY <1>1, <1>2 DEF RegistryInv

LEMMA AddedAside ==
  ASSUME RegistryInv, NEW c \in Call, Shaped', Elsewhere(c), Grow, Tables', CallInv(c)',
         pc'[c] \notin Holding, pc[c] # "done", rows' = rows, receipts' = receipts
  PROVE  RegistryInv'
<1>1. Alone(c)'
  BY DEF RegistryInv, Alone, HoldsRow, Holding
<1>2. ASSUME NEW d \in Call, d # c
      PROVE  Alone(d)'
  <2>1. /\ cmd' = cmd /\ what'[d] = what[d] /\ pc'[d] = pc[d] /\ code'[d] = code[d]
    BY <1>2 DEF Elsewhere
  <2>2. QED
    BY <2>1 DEF RegistryInv, Alone, HoldsRow, Taken, Rows, Collides, ReceiptsFor
<1>3. QED
  BY <1>1, <1>2, Added

(* What a call that is answered and done still has to keep.                  *)
LEMMA DoneInv ==
  ASSUME RegistryInv, NEW c \in Call, NEW id \in Id \cup {None},
         pc'[c] = "done", cmd' = cmd, what' = what, attempt' = attempt, answer'[c] = Ok(id)
  PROVE  CallInv(c)' /\ Alone(c)'
<1>1. Ok(id)' = Ok(id) /\ Ok(id).kind \in Answers /\ Ok(id).row = id
  BY DEF Ok, Answers
<1>2. CallInv(c)
  BY DEF RegistryInv
<1>3. CallInv(c)'
  BY <1>1, <1>2 DEF CallInv, Attempts, Registering, Freezing, Identifying, Linking, HoldsRow
<1>4. QED
  BY <1>3 DEF Alone, HoldsRow

LEMMA IssueIdentityInv ==
  ASSUME RegistryInv, NEW c \in Call, IssueIdentity(c)
  PROVE  RegistryInv'
<1>1. pc[c] = "issueIdentity" /\ CallInv(c) /\ Store!ByCredential(c) /\ what[c].dom \in AnchorsOf(cmd[c].dom)
  BY DEF IssueIdentity, RegistryInv, CallInv, Identifying
<1>2. CASE Proceed(c, "reloadIdentity")
  BY <1>1, <1>2, ProceedInv DEF Label, Identifying, Holding
<1>3. CASE IdentityOf(what[c].dom) = {}
  <2> DEFINE key(v) == [anchor |-> what[c].dom, version |-> v]
  <2>1. PICK v \in Version :
          /\ identities' = identities \cup {[anchor |-> what[c].dom, key |-> key(v), version |-> v]}
          /\ what' = [what EXCEPT ![c] = [dom |-> key(v), content |-> v]]
          /\ Goto(c, "insertRow")
          /\ UNCHANGED <<cmd, attempt, code, target, answer, rows, receipts, frozen, links>>
    BY <1>3 DEF IssueIdentity
  <2>2. PICK i \in identities' : i = [anchor |-> what[c].dom, key |-> key(v), version |-> v]
    BY <2>1
  <2> HIDE DEF key
  <2>3. /\ Shaped' /\ Elsewhere(c) /\ Grow /\ pc'[c] = "insertRow" /\ cmd' = cmd
        /\ what'[c] = [dom |-> i.key, content |-> i.version]
        /\ attempt'[c] = attempt[c] /\ answer'[c] = answer[c]
        /\ rows' = rows /\ receipts' = receipts /\ frozen' = frozen /\ links' = links
    BY <2>1, <2>2 DEF RegistryInv, Shaped, Goto, Elsewhere, Grow, Label, Registering
  <2>4. Tables'
    BY <2>1, <2>3 DEF RegistryInv, Tables, Named, Store!Coherent, Store!Rows
  <2>5. what'[c] \in Store!Means(c)'
    <3>1. Store!ByCredential(c)' /\ cmd'[c].op # "freeze"
      BY <1>1, <2>3 DEF Store!ByCredential
    <3>2. Store!Means(c)' = {[dom |-> j.key, content |-> j.version] : j \in Store!Subjects(c)'}
      BY <3>1, Zenon DEF Store!Means
    <3>3. i \in Store!Subjects(c)'
      BY <1>1, <2>2, <2>3 DEF Store!Subjects, AnchorsOf, Store!AnchorsOf, Store!IdentityOf
    <3>4. QED
      BY <2>3, <3>2, <3>3
  <2>6. cmd[c].op = "participant"
    BY <1>1 DEF Store!ByCredential
  <2>7. CallInv(c)'
    BY <1>1, <2>3, <2>5, <2>6
       DEF CallInv, Registering, Freezing, Identifying, Linking, HoldsRow, Attempts, Registered
  <2>8. QED
    BY <1>1, <2>3, <2>4, <2>7, AddedAside DEF Holding
<1>4. QED
  BY <1>2, <1>3 DEF IssueIdentity

LEMMA InsertLinkInv ==
  ASSUME RegistryInv, NEW c \in Call, InsertLink(c)
  PROVE  RegistryInv'
<1>1. pc[c] = "insertLink"
  BY DEF InsertLink
<1>2. CASE Proceed(c, "reloadLink")
  BY <1>1, <1>2, ProceedInv DEF Label, Linking, Holding
<1>3. CASE AnchorsOf(cmd[c].dom) = {}
  <2>1. PICK l : l = [credential |-> cmd[c].dom, anchor |-> cmd[c].content]
    OBVIOUS
  <2>2. /\ links' = links \cup {l}
        /\ answer' = [answer EXCEPT ![c] = Ok(None)]
        /\ Goto(c, "done")
        /\ UNCHANGED <<cmd, what, attempt, code, target, rows, receipts, frozen, identities>>
    BY <1>3, <2>1 DEF InsertLink
  <2>3. /\ Shaped' /\ Elsewhere(c) /\ Grow /\ pc'[c] = "done" /\ answer'[c] = Ok(None)
        /\ rows' = rows /\ receipts' = receipts /\ frozen' = frozen /\ identities' = identities
    BY <2>2 DEF RegistryInv, Shaped, Goto, Elsewhere, Grow, Label
  <2>4. \A m \in links : m.credential # l.credential
    BY <1>3, <2>1 DEF AnchorsOf
  <2>5. Tables'
    BY <2>1, <2>2, <2>3, <2>4 DEF RegistryInv, Tables, Named, Store!Coherent, Store!Rows
  <2>6. CallInv(c)'
    BY <2>2, <2>3, DoneInv
  <2>7. QED
    BY <1>1, <2>3, <2>5, <2>6, AddedAside DEF Holding
<1>4. QED
  BY <1>2, <1>3 DEF InsertLink

(* A receipt that call c adds takes nothing that others hold.                *)
LEMMA ReceiptAside ==
  ASSUME RegistryInv, NEW c \in Call, NEW d \in Call, d # c, Elsewhere(c), NEW id,
         receipts' = receipts \cup {MyReceipt(c, id)},
         ~HoldsReceipt(d, cmd[c].op, cmd[c].key),
         cmd[c].op = "freeze" => id = cmd[c].dom /\ ~HoldsProtocol(d, cmd[c].dom)
  PROVE  /\ pc'[d] \in {"commit", "commitFreeze"} => ReceiptsFor(d)' = {}
         /\ pc'[d] = "freezeReceipt" => \A r \in ReceiptsFor(d)' : r.row # cmd'[d].dom
<1>1. /\ pc'[d] = pc[d] /\ cmd' = cmd /\ Alone(d) /\ CallInv(d)
      /\ pc[d] = "freezeReceipt" => cmd[d].op = "freeze"
  BY DEF Elsewhere, RegistryInv, CallInv, Freezing
<1>2. PICK n : n = MyReceipt(c, id)
  OBVIOUS
<1>3. n.op = cmd[c].op /\ n.key = cmd[c].key /\ n.row = id /\ receipts' = receipts \cup {n}
  BY <1>2 DEF MyReceipt
<1>4. QED
  BY <1>1, <1>3 DEF Alone, ReceiptsFor, HoldsReceipt, HoldsProtocol

(* The row a command means is described by the receipt of its command.       *)
LEMMA CommitInv ==
  ASSUME RegistryInv, NEW c \in Call, Commit(c)
  PROVE  RegistryInv'
<1>1. /\ pc[c] = "commit" /\ CallInv(c) /\ Alone(c) /\ cmd[c].op \in Registered
      /\ cmd[c].op = "experiment" => what[c].content \in frozen
      /\ code[c] = None <=> cmd[c].op # "participant"
      /\ Taken(c, code[c]) = {} /\ ReceiptsFor(c) = {} /\ \A r \in rows : r.id # c
      /\ what[c] = [dom |-> what[c].dom, content |-> what[c].content]
  BY MeansRecord DEF Commit, RegistryInv, CallInv, Alone, Registering, HoldsRow
<1>2. PICK n : n = MyRow(c)
  OBVIOUS
<1>3. PICK k : k = MyReceipt(c, c)
  OBVIOUS
<1>4. /\ n.kind = cmd[c].op /\ n.id = c /\ n.dom = what[c].dom /\ n.content = what[c].content
      /\ n.code = code[c]
      /\ k.op = cmd[c].op /\ k.key = cmd[c].key /\ k.hash = what[c] /\ k.row = c
  BY <1>2, <1>3 DEF MyRow, MyReceipt
<1>5. /\ rows' = rows \cup {n} /\ receipts' = receipts \cup {k} /\ answer' = [answer EXCEPT ![c] = Ok(c)]
      /\ Goto(c, "done") /\ UNCHANGED <<cmd, what, attempt, code, target, frozen, links, identities>>
  BY <1>2, <1>3 DEF Commit
<1>6. /\ Shaped' /\ Elsewhere(c) /\ Grow /\ pc'[c] = "done" /\ answer'[c] = Ok(c)
  BY <1>5 DEF RegistryInv, Shaped, Goto, Elsewhere, Grow, Label
<1>7. ASSUME NEW r \in rows, r.kind = n.kind
      PROVE  r.dom # n.dom /\ ~(r.code = n.code /\ r.code # None)
  BY <1>1, <1>4, <1>7 DEF Taken, Collides, Rows
<1>8. \A r \in receipts : ~(r.op = k.op /\ r.key = k.key)
  BY <1>1, <1>4 DEF ReceiptsFor
<1>9. Named'
  BY <1>1, <1>4, <1>5 DEF RegistryInv, Tables, Named, Id
<1>10. Store!Coherent'
  <2>1. Store!Coherent
    BY DEF RegistryInv, Tables
  <2>2. \A r \in rows' : \E l \in receipts' : l.op = r.kind /\ l.row = r.id
    BY <1>4, <1>5, <2>1 DEF Store!Coherent
  <2>3. \A l \in receipts' : \E r \in rows' :
          /\ r.id = l.row /\ l.op \in {r.kind, "freeze"}
          /\ l.hash = [dom |-> r.dom, content |-> r.content]
    BY <1>1, <1>4, <1>5, <2>1 DEF Store!Coherent
  <2>4. frozen' = {l.row : l \in {m \in receipts' : m.op = "freeze"}}
    BY <1>1, <1>4, <1>5, <2>1 DEF Store!Coherent, Registered
  <2>5. \A r, s \in rows' :
          r.kind = s.kind /\ (r.dom = s.dom \/ (r.code = s.code /\ r.code # None)) => r = s
    BY <1>5, <1>7, <2>1 DEF Store!Coherent
  <2>6. \A l, m \in receipts' : l.op = m.op /\ l.key = m.key => l = m
    BY <1>5, <1>8, <2>1 DEF Store!Coherent
  <2>7. \A e \in Store!Rows("experiment")' : e.content \in frozen'
    BY <1>1, <1>4, <1>5, <2>1 DEF Store!Coherent, Store!Rows
  <2>8. QED
    BY <2>2, <2>3, <2>4, <2>5, <2>6, <2>7 DEF Store!Coherent
<1>11. ASSUME NEW d \in Call, d # c
       PROVE  Alone(d)'
  <2>1. /\ Alone(d) /\ Apart(c, d) /\ Apart(d, c)
        /\ cmd' = cmd /\ what'[d] = what[d] /\ pc'[d] = pc[d] /\ code'[d] = code[d]
    BY <1>6, <1>11 DEF RegistryInv, Elsewhere
  <2>2. /\ pc'[d] \in {"commit", "commitFreeze"} => ReceiptsFor(d)' = {}
        /\ pc'[d] = "freezeReceipt" => \A r \in ReceiptsFor(d)' : r.row # cmd'[d].dom
    <3>1. ~HoldsReceipt(d, cmd[c].op, cmd[c].key) /\ cmd[c].op # "freeze"
      BY <1>1, <2>1 DEF Apart, Registered
    <3>2. QED
      BY <1>3, <1>5, <1>6, <1>11, <3>1, ReceiptAside
  <2>3. HoldsRow(d) => Taken(d, code[d])' = {}
    <3>1. HoldsRow(d) /\ cmd[d].op = cmd[c].op => ~Collides(d, n.dom, code[d], n.code)
      BY <1>1, <1>4, <2>1 DEF Apart, HoldsRow
    <3>2. QED
      BY <1>4, <1>5, <2>1, <3>1 DEF Alone, Taken, Rows, Collides
  <2>4. QED
    BY <1>4, <1>5, <1>11, <2>1, <2>2, <2>3 DEF Alone, HoldsRow
<1>12. CallInv(c)' /\ Alone(c)'
  BY <1>5, <1>6, DoneInv DEF Id
<1>13. QED
  BY <1>6, <1>9, <1>10, <1>11, <1>12, Added DEF Tables, Holding

LEMMA AttachAliasInv ==
  ASSUME RegistryInv, NEW c \in Call, AttachAlias(c)
  PROVE  RegistryInv'
<1>1. /\ pc[c] = "attachAlias" /\ CallInv(c) /\ Aimed(c) /\ cmd[c].op \in Registered
      /\ what[c] = [dom |-> what[c].dom, content |-> what[c].content]
      /\ \A d \in Others(c) : ~HoldsReceipt(d, cmd[c].op, cmd[c].key)
  BY MeansRecord DEF AttachAlias, RegistryInv, CallInv, Registering
<1>2. CASE Proceed(c, "reloadAlias")
  BY <1>1, <1>2, ProceedInv DEF Label, Registering, Holding
<1>3. CASE ReceiptsFor(c) = {}
  <2>1. PICK k : k = MyReceipt(c, target[c])
    OBVIOUS
  <2>2. k.op = cmd[c].op /\ k.key = cmd[c].key /\ k.hash = what[c] /\ k.row = target[c]
    BY <2>1 DEF MyReceipt
  <2>3. /\ receipts' = receipts \cup {k} /\ answer' = [answer EXCEPT ![c] = Ok(target[c])]
        /\ Goto(c, "done")
        /\ UNCHANGED <<cmd, what, attempt, code, target, rows, frozen, links, identities>>
    BY <1>3, <2>1 DEF AttachAlias
  <2>4. /\ Shaped' /\ Elsewhere(c) /\ Grow /\ pc'[c] = "done" /\ answer'[c] = Ok(target[c])
        /\ target[c] \in Id \cup {None}
    BY <2>3 DEF RegistryInv, Shaped, Goto, Elsewhere, Grow, Label
  <2>5. Tables'
    <3>1. Named /\ Store!Coherent
      BY DEF RegistryInv, Tables
    <3>2. PICK r \in rows : /\ r.kind = cmd[c].op /\ r.id = target[c] /\ r.dom = what[c].dom
                            /\ r.content = what[c].content
      BY <1>1 DEF Aimed, RowsOfDomain, Rows
    <3>3. \A l \in receipts' : \E s \in rows' :
            /\ s.id = l.row /\ l.op \in {s.kind, "freeze"}
            /\ l.hash = [dom |-> s.dom, content |-> s.content]
      BY <1>1, <2>2, <2>3, <3>1, <3>2 DEF Store!Coherent
    <3>4. \A l, m \in receipts' : l.op = m.op /\ l.key = m.key => l = m
      BY <1>3, <2>2, <2>3, <3>1 DEF Store!Coherent, ReceiptsFor
    <3>5. frozen' = {l.row : l \in {m \in receipts' : m.op = "freeze"}}
      BY <1>1, <2>2, <2>3, <3>1 DEF Store!Coherent, Registered
    <3>6. /\ \A s \in rows' : \E l \in receipts' : l.op = s.kind /\ l.row = s.id
          /\ \A e \in Store!Rows("experiment")' : e.content \in frozen'
          /\ Named'
      BY <2>3, <3>1 DEF Store!Coherent, Named, Store!Rows
    <3>7. \A s, t \in rows' :
            s.kind = t.kind /\ (s.dom = t.dom \/ (s.code = t.code /\ s.code # None)) => s = t
      BY <2>3, <3>1 DEF Store!Coherent
    <3>8. QED
      BY <3>3, <3>4, <3>5, <3>6, <3>7 DEF Tables, Store!Coherent
  <2>6. ASSUME NEW d \in Call, d # c
        PROVE  Alone(d)'
    <3>1. /\ Alone(d) /\ ~HoldsReceipt(d, cmd[c].op, cmd[c].key) /\ cmd[c].op # "freeze"
          /\ cmd' = cmd /\ what'[d] = what[d] /\ pc'[d] = pc[d] /\ code'[d] = code[d]
      BY <1>1, <2>4, <2>6 DEF RegistryInv, Elsewhere, Others, Registered
    <3>2. /\ pc'[d] \in {"commit", "commitFreeze"} => ReceiptsFor(d)' = {}
          /\ pc'[d] = "freezeReceipt" => \A r \in ReceiptsFor(d)' : r.row # cmd'[d].dom
      BY <2>1, <2>3, <2>4, <2>6, <3>1, ReceiptAside
    <3>3. QED
      BY <2>3, <3>1, <3>2 DEF Alone, HoldsRow, Taken, Rows, Collides
  <2>7. CallInv(c)' /\ Alone(c)'
    BY <2>3, <2>4, DoneInv
  <2>8. QED
    BY <2>4, <2>5, <2>6, <2>7, Added DEF Holding
<1>4. QED
  BY <1>2, <1>3 DEF AttachAlias

LEMMA CommitFreezeInv ==
  ASSUME RegistryInv, NEW c \in Call, CommitFreeze(c)
  PROVE  RegistryInv'
<1>1. /\ pc[c] = "commitFreeze" /\ cmd[c].op = "freeze" /\ ReceiptsFor(c) = {}
  BY DEF CommitFreeze, RegistryInv, CallInv, Alone, Freezing
<1>2. PICK p \in rows : /\ p.kind = "protocol" /\ p.id = cmd[c].dom
                        /\ what[c] = [dom |-> p.dom, content |-> p.content]
  BY <1>1 DEF RegistryInv, CallInv, Freezing, Rows
<1>3. PICK k : k = MyReceipt(c, cmd[c].dom)
  OBVIOUS
<1>4. k.op = "freeze" /\ k.key = cmd[c].key /\ k.hash = what[c] /\ k.row = cmd[c].dom
  BY <1>1, <1>3 DEF MyReceipt
<1>5. /\ frozen' = frozen \cup {cmd[c].dom} /\ receipts' = receipts \cup {k}
      /\ answer' = [answer EXCEPT ![c] = Ok(cmd[c].dom)] /\ Goto(c, "done")
      /\ UNCHANGED <<cmd, what, attempt, code, target, rows, links, identities>>
  BY <1>3 DEF CommitFreeze
<1>6. /\ Shaped' /\ Elsewhere(c) /\ Grow /\ pc'[c] = "done" /\ answer'[c] = Ok(cmd[c].dom)
  BY <1>5 DEF RegistryInv, Shaped, Goto, Elsewhere, Grow, Label
<1>7. Tables'
  <2>1. Named /\ Store!Coherent
    BY DEF RegistryInv, Tables
  <2>2. \A l \in receipts' : \E s \in rows' :
          /\ s.id = l.row /\ l.op \in {s.kind, "freeze"}
          /\ l.hash = [dom |-> s.dom, content |-> s.content]
    BY <1>2, <1>4, <1>5, <2>1 DEF Store!Coherent
  <2>3. \A l, m \in receipts' : l.op = m.op /\ l.key = m.key => l = m
    BY <1>1, <1>4, <1>5, <2>1 DEF Store!Coherent, ReceiptsFor
  <2>4. frozen' = {l.row : l \in {m \in receipts' : m.op = "freeze"}}
    BY <1>4, <1>5, <2>1 DEF Store!Coherent
  <2>5. /\ \A s \in rows' : \E l \in receipts' : l.op = s.kind /\ l.row = s.id
        /\ \A e \in Store!Rows("experiment")' : e.content \in frozen'
        /\ Named'
    BY <1>5, <2>1 DEF Store!Coherent, Named, Store!Rows
  <2>6. \A s, t \in rows' :
          s.kind = t.kind /\ (s.dom = t.dom \/ (s.code = t.code /\ s.code # None)) => s = t
    BY <1>5, <2>1 DEF Store!Coherent
  <2>7. QED
    BY <2>2, <2>3, <2>4, <2>5, <2>6 DEF Tables, Store!Coherent
<1>8. ASSUME NEW d \in Call, d # c
      PROVE  Alone(d)'
  <2>1. /\ Alone(d) /\ Apart(c, d)
        /\ cmd' = cmd /\ what'[d] = what[d] /\ pc'[d] = pc[d] /\ code'[d] = code[d]
    BY <1>6, <1>8 DEF RegistryInv, Elsewhere
  <2>2. ~HoldsReceipt(d, cmd[c].op, cmd[c].key) /\ ~HoldsProtocol(d, cmd[c].dom)
    BY <1>1, <2>1 DEF Apart
  <2>3. /\ pc'[d] \in {"commit", "commitFreeze"} => ReceiptsFor(d)' = {}
        /\ pc'[d] = "freezeReceipt" => \A r \in ReceiptsFor(d)' : r.row # cmd'[d].dom
    BY <1>3, <1>5, <1>6, <1>8, <2>2, ReceiptAside
  <2>4. QED
    BY <1>5, <2>1, <2>3 DEF Alone, HoldsRow, Taken, Rows, Collides
<1>9. CallInv(c)' /\ Alone(c)'
  <2>1. cmd[c].dom \in Id
    BY <1>2 DEF RegistryInv, Tables, Named
  <2>2. QED
    BY <1>5, <1>6, <2>1, DoneInv
<1>10. QED
  BY <1>6, <1>7, <1>8, <1>9, Added DEF Holding

LEMMA NextInv == RegistryInv /\ [Next]_vars => RegistryInv'
<1> SUFFICES ASSUME RegistryInv, [Next]_vars
             PROVE  RegistryInv'
  OBVIOUS
<1>1. ASSUME NEW c \in Call, Step(c)
      PROVE  RegistryInv'
  BY <1>1, CheckProtocolInv, IdentifyInv, IssueIdentityInv, InsertRowInv, InsertReceiptInv,
     CommitInv, ReconcileReceiptInv, ReconcileDomainInv, AttachAliasInv, ReloadAliasInv,
     ReadProtocolInv, FreezeStepsInv, CommitFreezeInv, LinkStepsInv, InsertLinkInv,
     RefusalInv DEF Step, RefuseReference, Refused
<1>2. ASSUME NEW c \in Call, Crash(c)
      PROVE  RegistryInv'
  BY <1>2, ProceedInv DEF Crash, Label, Registering, Holding
<1>3. CASE UNCHANGED vars
  <2>1. /\ UNCHANGED tables /\ cmd' = cmd /\ what' = what /\ pc' = pc /\ attempt' = attempt
        /\ code' = code /\ target' = target /\ answer' = answer
    BY <1>3 DEF vars
  <2>2. Shaped' /\ Tables' /\ Grow
    BY <2>1, TablesStand DEF RegistryInv, Shaped, Grow, tables
  <2>3. ASSUME NEW c \in Call
        PROVE  CallInv(c)' /\ Alone(c)' /\ \A d \in Call : c # d => Apart(c, d)'
    <3>1. rows' = rows /\ receipts' = receipts /\ frozen' = frozen /\ \A k : Rows(k)' = Rows(k)
      BY <2>1, TablesStand DEF tables
    <3>2. /\ AnchorsOf(cmd[c].dom)' = AnchorsOf(cmd[c].dom)
          /\ ReceiptsFor(c)' = ReceiptsFor(c) /\ Store!Means(c)' = Store!Means(c)
          /\ Store!Grounded(c, what[c]) => Store!Grounded(c, what[c])'
      BY <2>1, <2>2, TablesStand, GroundStays
    <3>3. CallInv(c)'
      BY <2>1, <3>1, <3>2
         DEF RegistryInv, CallInv, Met, Aimed, RowsOfDomain, Attempts, HoldsRow,
             Store!ByCredential, Store!Expected
    <3>4. Alone(c)' /\ \A d \in Call : c # d => Apart(c, d)'
      BY <2>1, <3>1, <3>2 DEF RegistryInv, Alone, Apart, HoldsRow, HoldsReceipt, HoldsProtocol,
                              Collides, Taken
    <3>5. QED
      BY <3>3, <3>4
  <2>4. QED
    BY <2>2, <2>3 DEF RegistryInv
<1>4. QED
  BY <1>1, <1>2, <1>3, BeginInv DEF Next, Terminated

LEMMA Invariance == Spec /\ Store!Coherent => []RegistryInv
<1>1. Init /\ Store!Coherent => RegistryInv
  BY InitInv
<1>2. QED
  BY <1>1, NextInv, PTL DEF Spec
(* Whatever the calls, their menus and the codes drawn: tables, labels and   *)
(* answers are what the repositories' types say, no call tries more often    *)
(* than MAX attempts, and a result names a row that is there.                *)
THEOREM TypeCorrect == Spec /\ Store!Coherent => []TypeOK
<1>1. RegistryInv => TypeOK
  <2> SUFFICES ASSUME RegistryInv
               PROVE  TypeOK
    OBVIOUS
  <2>1. ASSUME NEW c \in Call
        PROVE  /\ DOMAIN what[c] = {"dom", "content"}
               /\ attempt[c] < 3
               /\ code[c] \in Code \cup {None}
               /\ target[c] \in Id \cup {None}
               /\ answer[c].kind \in Refused \cup {"none", "Ok"}
               /\ answer[c].row \in Id \cup {None}
    BY DEF RegistryInv, Shaped, CallInv, Attempts, Answers
  <2>2. \A r \in receipts : r.op \in Registered \cup {"freeze"} /\ r.row \in Id
    BY ReceiptType
  <2>3. frozen \subseteq Id
    BY <2>2 DEF RegistryInv, Tables, Store!Coherent
  <2>4. QED
    BY <2>1, <2>2, <2>3 DEF RegistryInv, Shaped, Tables, Named, TypeOK
<1>2. QED
  BY <1>1, Invariance, PTL

(* The tables stay coherent: no row without a receipt that describes it, no  *)
(* protocol frozen without one, nothing registered twice, no experiment on a *)
(* draft.                                                                    *)
THEOREM StaysCoherent == Spec /\ Store!Coherent => []Store!Coherent
<1>1. RegistryInv => Store!Coherent
  BY DEF RegistryInv, Tables
<1>2. QED
  BY <1>1, Invariance, PTL

-----------------------------------------------------------------------------
(* The refinement: what a step is, seen by its caller.                       *)
Stat(p) ==
  IF p = "idle" THEN "idle"
  ELSE IF p = "done" THEN "answered"
  ELSE IF p = "crashed" THEN "lost" ELSE "pending"
Statuses == [c \in Call |-> Status(c)]

LEMMA StatusIs ==
  ASSUME NEW c
  PROVE  Status(c) = Stat(pc[c]) /\ Status(c)' = Stat(pc'[c])
BY Zenon DEF Status, Stat

LEMMA StatusMoves ==
  ASSUME RegistryInv, NEW c \in Call, Elsewhere(c)
  PROVE  /\ Statuses[c] = Stat(pc[c])
         /\ Statuses' = [Statuses EXCEPT ![c] = Stat(pc'[c])]
<1>1. ASSUME NEW d \in Call, d # c
      PROVE  Status(d)' = Status(d)
  BY <1>1, StatusIs DEF Elsewhere
<1>2. Statuses[c] = Stat(pc[c])
  BY StatusIs DEF Statuses
<1>3. QED
  BY <1>1, <1>2, StatusIs DEF Statuses

(* A call goes on, and only it knows.                                        *)
LEMMA Unseen ==
  ASSUME RegistryInv, NEW c \in Call, Elsewhere(c), UNCHANGED tables, answer' = answer,
         Stat(pc'[c]) = Stat(pc[c])
  PROVE  UNCHANGED Store!svars
<1>1. \A d \in Call : Status(d)' = Status(d)
  BY StatusIs DEF Elsewhere
<1>2. QED
  BY <1>1 DEF Store!svars, Store!tables, tables, Elsewhere

LEMMA ProceedUnseen ==
  ASSUME RegistryInv, NEW c \in Call, NEW l \in Label, Proceed(c, l), Stat(l) = Stat(pc[c])
  PROVE  UNCHANGED Store!svars
<1>1. Elsewhere(c) /\ UNCHANGED tables /\ pc'[c] = l /\ answer' = answer
  BY ProceedShape DEF Proceed
<1>2. QED
  BY <1>1, Unseen

LEMMA KnowUnseen ==
  ASSUME RegistryInv, NEW c \in Call, NEW dom, NEW content, NEW l \in Label,
         Know(c, dom, content, l), Stat(l) = Stat(pc[c])
  PROVE  UNCHANGED Store!svars
<1>1. Elsewhere(c) /\ UNCHANGED tables /\ pc'[c] = l /\ answer' = answer
  BY KnowShape DEF Know
<1>2. QED
  BY <1>1, Unseen

(* A call returns, or throws what the tables justify.                        *)
LEMMA FinishReplies ==
  ASSUME RegistryInv, NEW c \in Call, NEW a, Finish(c, a), Stat(pc[c]) = "pending"
  PROVE  Store!Reply(c, a) /\ UNCHANGED Store!tables
<1>1. Elsewhere(c) /\ pc'[c] = "done" /\ UNCHANGED tables /\ cmd' = cmd
      /\ answer' = [answer EXCEPT ![c] = a]
  BY FinishShape DEF Finish
<1>2. Statuses[c] = "pending" /\ Statuses' = [Statuses EXCEPT ![c] = "answered"]
  BY <1>1, StatusMoves DEF Stat
<1>3. QED
  BY <1>1, <1>2 DEF Store!Reply, Store!tables, tables, Statuses

Throwable == {"IdempotencyConflict", "DomainConflict", "NotFrozen", "UnknownRow",
              "Unprovisioned", "Reassigned", "InvariantError"}

LEMMA RefusalRefuses ==
  ASSUME RegistryInv, NEW c \in Call, NEW k \in Throwable, Finish(c, Refusal(k)),
         Stat(pc[c]) = "pending", Store!Justified(c, k)
  PROVE  Store!Refuse(c)
<1>1. answer[c] = Store!NoAnswer
  BY DEF RegistryInv, CallInv, Stat, NoAnswer, Store!NoAnswer
<1>2. Store!Reply(c, [kind |-> k, row |-> None]) /\ UNCHANGED Store!tables
  BY FinishReplies DEF Refusal
<1>3. QED
  BY <1>1, <1>2 DEF Store!Refuse, Throwable

LEMMA Pending ==
  ASSUME NEW c, pc[c] \in Label \ {"idle", "done", "crashed"}
  PROVE  Stat(pc[c]) = "pending"
BY DEF Stat

LEMMA BeginMaps ==
  ASSUME RegistryInv, NEW c \in Call, Begin(c)
  PROVE  Store!Submit(c)
<1> DEFINE l == Start(cmd[c])
<1>1. l \in Label /\ Stat(l) = "pending"
  BY StartShape DEF Label, Registering, Freezing, Linking, Stat
<1>2. Know(c, cmd[c].dom, cmd[c].content, l) /\ pc[c] = "idle"
  BY DEF Begin
<1> HIDE DEF l
<1>3. Elsewhere(c) /\ UNCHANGED tables /\ pc'[c] = l /\ cmd' = cmd /\ answer' = answer
  BY <1>1, <1>2, KnowShape DEF Know
<1>4. Statuses[c] = "idle" /\ Statuses' = [Statuses EXCEPT ![c] = "pending"]
  BY <1>1, <1>2, <1>3, StatusMoves DEF Stat
<1>5. QED
  BY <1>3, <1>4 DEF Store!Submit, Store!tables, tables, Statuses

LEMMA CrashMaps ==
  ASSUME RegistryInv, NEW c \in Call, Crash(c)
  PROVE  Store!Lose(c)
<1>1. Proceed(c, "crashed") /\ pc[c] \notin {"idle", "done", "crashed"}
  BY DEF Crash
<1>2. Elsewhere(c) /\ UNCHANGED tables /\ pc'[c] = "crashed" /\ cmd' = cmd /\ answer' = answer
  BY <1>1, ProceedShape DEF Proceed, Label
<1>3. Statuses[c] = "pending" /\ Statuses' = [Statuses EXCEPT ![c] = "lost"]
  BY <1>1, <1>2, StatusMoves DEF Stat
<1>4. QED
  BY <1>2, <1>3 DEF Store!Lose, Store!tables, tables, Statuses

(* What a registration or a freeze has hashed is what its command means.     *)
LEMMA WhatIsMeant ==
  ASSUME RegistryInv, NEW c \in Call, pc[c] \in Registering \cup (Freezing \ {"readProtocol"})
  PROVE  what[c] \in Store!Means(c)
<1>1. CASE pc[c] \in Registering
  BY <1>1 DEF RegistryInv, CallInv
<1>2. CASE pc[c] \in Freezing \ {"readProtocol"}
  <2>1. cmd[c].op = "freeze"
    BY <1>2 DEF RegistryInv, CallInv
  <2>2. PICK p \in Rows("protocol") :
          p.id = cmd[c].dom /\ what[c] = [dom |-> p.dom, content |-> p.content]
    BY <1>2 DEF RegistryInv, CallInv
  <2>3. QED
    BY <2>1, <2>2, MeansFreeze DEF Rows, Store!Rows
<1>3. QED
  BY <1>1, <1>2

(* A key's receipt answers, or convicts the call of another use of it.       *)
LEMMA ReplayMaps ==
  ASSUME RegistryInv, NEW c \in Call, NEW r \in ReceiptsFor(c), Replay(c, r),
         pc[c] \in Registering \cup (Freezing \ {"readProtocol"})
  PROVE  Store!Replay(c) \/ Store!Refuse(c)
<1>1. what[c] \in Store!Means(c) /\ r \in Store!ReceiptsFor(c)
  BY WhatIsMeant DEF ReceiptsFor, Store!ReceiptsFor
<1>2. Stat(pc[c]) = "pending"
  BY DEF Stat, Registering, Freezing
<1>3. CASE r.hash = what[c]
  <2>1. Finish(c, Ok(r.row))
    BY <1>3 DEF Replay
  <2>2. Store!Reply(c, Ok(r.row)) /\ UNCHANGED Store!tables
    BY <1>2, <2>1, FinishReplies
  <2>3. QED
    BY <1>1, <1>3, <2>2 DEF Store!Replay, Ok, Store!Ok
<1>4. CASE r.hash # what[c]
  <2>1. Finish(c, Refusal("IdempotencyConflict"))
    BY <1>4 DEF Replay
  <2>2. Store!Justified(c, "IdempotencyConflict")
    BY <1>1, <1>4 DEF Store!Justified
  <2>3. QED
    BY <1>2, <2>1, <2>2, RefusalRefuses DEF Throwable
<1>5. QED
  BY <1>3, <1>4

LEMMA CheckProtocolMaps ==
  ASSUME RegistryInv, NEW c \in Call, CheckProtocol(c)
  PROVE  Store!Refuse(c) \/ UNCHANGED Store!svars
<1>1. pc[c] = "checkProtocol" /\ cmd[c].op = "experiment" /\ Stat(pc[c]) = "pending"
  BY DEF CheckProtocol, RegistryInv, CallInv, Stat
<1>2. CASE Finish(c, Refusal("UnknownRow")) /\ \A p \in Rows("protocol") : p.id # cmd[c].content
  <2>1. Store!Justified(c, "UnknownRow")
    BY <1>1, <1>2 DEF Store!Justified, Rows, Store!Rows
  <2>2. QED
    BY <1>1, <1>2, <2>1, RefusalRefuses DEF Throwable
<1>3. CASE /\ Finish(c, Refusal("NotFrozen")) /\ cmd[c].content \notin frozen
           /\ \E p \in Rows("protocol") : p.id = cmd[c].content
  <2>1. Store!Justified(c, "NotFrozen")
    BY <1>1, <1>3 DEF Store!Justified, Rows, Store!Rows
  <2>2. QED
    BY <1>1, <1>3, <2>1, RefusalRefuses DEF Throwable
<1>4. CASE Proceed(c, "insertRow")
  BY <1>1, <1>4, ProceedUnseen DEF Label, Registering, Stat
<1>5. QED
  BY <1>2, <1>3, <1>4 DEF CheckProtocol

LEMMA IdentifyMaps ==
  ASSUME RegistryInv, NEW c \in Call, FindCredential(c) \/ FindIdentity(c) \/ ReloadIdentity(c)
  PROVE  Store!Refuse(c) \/ UNCHANGED Store!svars
<1>1. pc[c] \in Identifying \cup {"findCredential"} /\ Stat(pc[c]) = "pending"
  BY DEF FindCredential, FindIdentity, ReloadIdentity, Identifying, Stat
<1>2. CASE Finish(c, Refusal("Unprovisioned")) /\ AnchorsOf(cmd[c].dom) = {}
  <2>1. Store!Justified(c, "Unprovisioned")
    BY <1>1, <1>2 DEF Store!Justified, RegistryInv, CallInv, AnchorsOf, Store!AnchorsOf
  <2>2. QED
    BY <1>1, <1>2, <2>1, RefusalRefuses DEF Throwable
<1>3. ASSUME NEW dom, NEW content, NEW l \in {"findIdentity", "insertRow"}, Know(c, dom, content, l)
      PROVE  UNCHANGED Store!svars
  BY <1>1, <1>3, KnowUnseen DEF Label, Identifying, Registering, Stat
<1>4. CASE Proceed(c, "issueIdentity")
  BY <1>1, <1>4, ProceedUnseen DEF Label, Identifying, Stat
<1>5. QED
  BY <1>2, <1>3, <1>4 DEF FindCredential, FindIdentity, ReloadIdentity

(* A step that changes the tables, and returns or goes on.                   *)
LEMMA Returns ==
  ASSUME RegistryInv, NEW c \in Call, NEW a, Elsewhere(c), pc'[c] = "done",
         answer' = [answer EXCEPT ![c] = a], Stat(pc[c]) = "pending"
  PROVE  Store!Reply(c, a)
<1>1. Statuses[c] = "pending" /\ Statuses' = [Statuses EXCEPT ![c] = "answered"]
  BY StatusMoves DEF Stat
<1>2. QED
  BY <1>1 DEF Store!Reply, Elsewhere, Statuses

LEMMA IssueIdentityMaps ==
  ASSUME RegistryInv, NEW c \in Call, IssueIdentity(c)
  PROVE  Store!Issue(c) \/ UNCHANGED Store!svars
<1>1. /\ pc[c] = "issueIdentity" /\ Store!ByCredential(c) /\ Stat(pc[c]) = "pending"
      /\ what[c].dom \in AnchorsOf(cmd[c].dom)
  BY DEF IssueIdentity, RegistryInv, CallInv, Identifying, Stat
<1>2. CASE Proceed(c, "reloadIdentity")
  BY <1>1, <1>2, ProceedUnseen DEF Label, Identifying, Stat
<1>3. CASE IdentityOf(what[c].dom) = {}
  <2> DEFINE key(v) == [anchor |-> what[c].dom, version |-> v]
  <2>1. PICK v \in Version :
          /\ identities' = identities \cup {[anchor |-> what[c].dom, key |-> key(v), version |-> v]}
          /\ Goto(c, "insertRow")
          /\ what' = [what EXCEPT ![c] = [dom |-> key(v), content |-> v]]
          /\ UNCHANGED <<cmd, attempt, code, target, answer, rows, receipts, frozen, links>>
    BY <1>3 DEF IssueIdentity
  <2>2. Elsewhere(c) /\ pc'[c] = "insertRow"
    BY <2>1 DEF RegistryInv, Shaped, Goto, Elsewhere
  <2>3. Statuses[c] = "pending" /\ \A d \in Call : Status(d)' = Status(d)
    BY <1>1, <2>2, StatusIs, StatusMoves DEF Stat, Elsewhere
  <2>4. what[c].dom \in Store!AnchorsOf(cmd[c].dom) /\ Store!IdentityOf(what[c].dom) = {}
    BY <1>1, <1>3 DEF AnchorsOf, Store!AnchorsOf, IdentityOf, Store!IdentityOf
  <2>5. QED
    BY <1>1, <2>1, <2>3, <2>4 DEF Store!Issue, Statuses
<1>4. QED
  BY <1>2, <1>3 DEF IssueIdentity

LEMMA InsertMaps ==
  ASSUME RegistryInv, NEW c \in Call, InsertRow(c) \/ InsertReceipt(c)
  PROVE  UNCHANGED Store!svars
<1>1. CASE InsertRow(c)
  <2>1. PICK l \in {"reconcileReceipt", "insertReceipt"} :
          /\ pc[c] = "insertRow" /\ Goto(c, l) /\ \E k : code' = [code EXCEPT ![c] = k]
          /\ UNCHANGED <<cmd, what, attempt, target, answer, tables>>
    BY <1>1 DEF InsertRow
  <2>2. Elsewhere(c) /\ pc'[c] = l
    BY <2>1 DEF RegistryInv, Shaped, Goto, Elsewhere
  <2>3. QED
    BY <2>1, <2>2, Unseen DEF Stat
<1>2. CASE InsertReceipt(c)
  <2>1. pc[c] = "insertReceipt" /\ \E l \in {"commit", "reconcileReceipt"} : Proceed(c, l)
    BY <1>2 DEF InsertReceipt
  <2>2. QED
    BY <2>1, ProceedUnseen DEF Label, Registering, Stat
<1>3. QED
  BY <1>1, <1>2

LEMMA RefuseReferenceMaps ==
  ASSUME RegistryInv, NEW c \in Call, RefuseReference(c)
  PROVE  Store!Refuse(c)
<1>1. /\ pc[c] = "insertRow" /\ cmd[c].op = "assignment" /\ ~Refers(c)
      /\ Finish(c, Refusal("UnknownRow")) /\ Stat(pc[c]) = "pending"
  BY DEF RefuseReference, Stat
<1>2. what[c] \in Store!Means(c)
  BY <1>1, WhatIsMeant DEF Registering
<1>3. ~Store!Grounded(c, what[c])
  <2>1. ~(/\ \E e \in Rows("experiment") : e.id = what[c].dom.experiment
          /\ \E p \in Rows("participant") : p.id = what[c].dom.participant)
    BY <1>1, Zenon DEF Refers
  <2>2. QED
    BY <1>1, <2>1 DEF Store!Grounded, Rows, Store!Rows
<1>4. Store!Justified(c, "UnknownRow")
  BY <1>1, <1>2, <1>3 DEF Store!Justified
<1>5. QED
  BY <1>1, <1>4, RefusalRefuses DEF Throwable

(* The linearization point of a registration: the commit of row and receipt. *)
LEMMA CommitMaps ==
  ASSUME RegistryInv, NEW c \in Call, Commit(c)
  PROVE  Store!Register(c)
<1>1. /\ pc[c] = "commit" /\ Stat(pc[c]) = "pending" /\ cmd[c].op \in Registered
      /\ code[c] \in Code \cup {None} /\ (code[c] = None <=> cmd[c].op # "participant")
      /\ Store!Grounded(c, what[c]) /\ Taken(c, code[c]) = {} /\ ReceiptsFor(c) = {}
  BY DEF Commit, RegistryInv, Shaped, CallInv, Alone, Registering, HoldsRow, Stat
<1>2. what[c] \in Store!Means(c)
  BY <1>1, WhatIsMeant DEF Registering
<1>3. /\ rows' = rows \cup {MyRow(c)} /\ receipts' = receipts \cup {MyReceipt(c, c)}
      /\ answer' = [answer EXCEPT ![c] = Ok(c)] /\ Goto(c, "done")
      /\ UNCHANGED <<cmd, what, attempt, code, target, frozen, links, identities>>
  BY DEF Commit
<1>4. Elsewhere(c) /\ pc'[c] = "done"
  BY <1>3 DEF RegistryInv, Shaped, Goto, Elsewhere
<1>5. Store!Reply(c, Store!Ok(c))
  BY <1>1, <1>3, <1>4, Returns DEF Ok, Store!Ok
<1>6. /\ Store!SameDomain(c, what[c]) = {}
      /\ \A r \in Store!Rows(cmd[c].op) : r.code = code[c] => code[c] = None
  BY <1>1 DEF Taken, Collides, Rows, Store!SameDomain, Store!Rows
<1>7. Store!Receipted(c, what[c], c)
  BY <1>1, <1>3 DEF Store!Receipted, Store!ReceiptsFor, ReceiptsFor, MyReceipt
<1>8. cmd[c].op \notin {"freeze", "link"}
  BY <1>1 DEF Registered
<1>9. rows' = rows \cup {[kind |-> cmd[c].op, id |-> c, dom |-> what[c].dom,
                          content |-> what[c].content, code |-> code[c]]}
  BY <1>3 DEF MyRow
<1>10. QED
  BY <1>1, <1>2, <1>3, <1>5, <1>6, <1>7, <1>8, <1>9 DEF Store!Register

LEMMA ReconcileMaps ==
  ASSUME RegistryInv, NEW c \in Call, ReconcileReceipt(c) \/ ReloadAlias(c)
  PROVE  Store!Replay(c) \/ Store!Refuse(c) \/ UNCHANGED Store!svars
<1>1. pc[c] \in {"reconcileReceipt", "reloadAlias"}
  BY DEF ReconcileReceipt, ReloadAlias
<1>2. CASE Proceed(c, "reconcileDomain")
  BY <1>1, <1>2, ProceedUnseen DEF Label, Registering, Stat
<1>3. CASE \E r \in ReceiptsFor(c) : Replay(c, r)
  BY <1>1, <1>3, ReplayMaps DEF Registering
<1>4. QED
  BY <1>2, <1>3 DEF ReconcileReceipt, ReloadAlias

(* Only a participant's insert fails for something else than its domain key. *)
LEMMA ReconcileDomainMaps ==
  ASSUME RegistryInv, NEW c \in Call, ReconcileDomain(c)
  PROVE  Store!Refuse(c) \/ UNCHANGED Store!svars
<1>1. pc[c] = "reconcileDomain" /\ Met(c) /\ Stat(pc[c]) = "pending"
  BY DEF ReconcileDomain, RegistryInv, CallInv, Stat
<1>2. what[c] \in Store!Means(c)
  BY <1>1, WhatIsMeant DEF Registering
<1>3. CASE \E r \in RowsOfDomain(c) : r.content # what[c].content /\ Finish(c, Refusal("DomainConflict"))
  <2>1. Store!Justified(c, "DomainConflict")
    BY <1>2, <1>3 DEF Store!Justified, RowsOfDomain, Rows, Store!SameDomain, Store!Rows
  <2>2. QED
    BY <1>1, <1>3, <2>1, RefusalRefuses DEF Throwable
<1>4. CASE RowsOfDomain(c) = {} /\ Finish(c, Refusal("InvariantError"))
  <2>1. cmd[c].op = "participant" /\ \E r \in Store!Rows("participant") : r.dom # what[c].dom
    BY <1>1, <1>4 DEF Met, RowsOfDomain, Rows, Store!Rows
  <2>2. Store!Justified(c, "InvariantError")
    BY <1>2, <2>1 DEF Store!Justified
  <2>3. QED
    BY <1>1, <1>4, <2>2, RefusalRefuses DEF Throwable
<1>5. ASSUME NEW l \in {"attachAlias", "insertRow"}, Goto(c, l), UNCHANGED <<cmd, what, code, answer, tables>>,
             \/ attempt' = attempt /\ \E id : target' = [target EXCEPT ![c] = id]
             \/ target' = target /\ attempt' = [attempt EXCEPT ![c] = @ + 1]
      PROVE  UNCHANGED Store!svars
  <2>1. Elsewhere(c) /\ pc'[c] = l
    BY <1>5 DEF RegistryInv, Shaped, Goto, Elsewhere
  <2>2. QED
    BY <1>1, <1>5, <2>1, Unseen DEF Stat
<1>6. QED
  BY <1>3, <1>4, <1>5 DEF ReconcileDomain

(* The other one: an alias, outside any lock, for a row that stays.          *)
LEMMA AttachAliasMaps ==
  ASSUME RegistryInv, NEW c \in Call, AttachAlias(c)
  PROVE  Store!Alias(c) \/ UNCHANGED Store!svars
<1>1. pc[c] = "attachAlias" /\ Aimed(c) /\ Stat(pc[c]) = "pending"
  BY DEF AttachAlias, RegistryInv, CallInv, Stat
<1>2. CASE Proceed(c, "reloadAlias")
  BY <1>1, <1>2, ProceedUnseen DEF Label, Registering, Stat
<1>3. CASE ReceiptsFor(c) = {}
  <2>1. /\ receipts' = receipts \cup {MyReceipt(c, target[c])}
        /\ answer' = [answer EXCEPT ![c] = Ok(target[c])]
        /\ Goto(c, "done")
        /\ UNCHANGED <<cmd, what, attempt, code, target, rows, frozen, links, identities>>
    BY <1>3 DEF AttachAlias
  <2>2. Elsewhere(c) /\ pc'[c] = "done"
    BY <2>1 DEF RegistryInv, Shaped, Goto, Elsewhere
  <2>3. Store!Reply(c, Store!Ok(target[c]))
    BY <1>1, <2>1, <2>2, Returns DEF Ok, Store!Ok
  <2>4. Store!Receipted(c, what[c], target[c])
    BY <1>3, <2>1 DEF Store!Receipted, Store!ReceiptsFor, ReceiptsFor, MyReceipt
  <2>5. PICK r \in Store!SameDomain(c, what[c]) : r.id = target[c] /\ r.content = what[c].content
    BY <1>1 DEF Aimed, RowsOfDomain, Rows, Store!SameDomain, Store!Rows
  <2>6. what[c] \in Store!Means(c)
    BY <1>1, WhatIsMeant DEF Registering
  <2>7. QED
    BY <2>1, <2>3, <2>4, <2>5, <2>6 DEF Store!Alias
<1>4. QED
  BY <1>2, <1>3 DEF AttachAlias

LEMMA ReadProtocolMaps ==
  ASSUME RegistryInv, NEW c \in Call, ReadProtocol(c)
  PROVE  Store!Refuse(c) \/ UNCHANGED Store!svars
<1>1. pc[c] = "readProtocol" /\ cmd[c].op = "freeze" /\ Stat(pc[c]) = "pending"
  BY DEF ReadProtocol, RegistryInv, CallInv, Freezing, Stat
<1>2. CASE Finish(c, Refusal("UnknownRow")) /\ \A p \in Rows("protocol") : p.id # cmd[c].dom
  <2>1. Store!Means(c) = {}
    BY <1>1, <1>2, MeansFreeze DEF Rows, Store!Rows
  <2>2. Store!Justified(c, "UnknownRow")
    BY <1>1, <2>1 DEF Store!Justified
  <2>3. QED
    BY <1>1, <1>2, <2>2, RefusalRefuses DEF Throwable
<1>3. ASSUME NEW p \in Rows("protocol"), p.id = cmd[c].dom, cmd[c].content \notin {None, p.content},
             Finish(c, Refusal("DomainConflict"))
      PROVE  Store!Refuse(c)
  <2>1. PICK m \in Store!Means(c) : m = [dom |-> p.dom, content |-> p.content]
    BY <1>1, <1>3, MeansFreeze DEF Rows, Store!Rows
  <2>2. Store!Justified(c, "DomainConflict")
    BY <1>1, <1>3, <2>1 DEF Store!Justified, Store!Expected
  <2>3. QED
    BY <1>1, <1>3, <2>2, RefusalRefuses DEF Throwable
<1>4. ASSUME NEW dom, NEW content, Know(c, dom, content, "lockProtocol")
      PROVE  UNCHANGED Store!svars
  BY <1>1, <1>4, KnowUnseen DEF Label, Freezing, Stat
<1>5. QED
  BY <1>2, <1>3, <1>4 DEF ReadProtocol

(* Under the lock a frozen protocol has a receipt that says so, and the      *)
(* receipts of one protocol say the same.                                    *)
LEMMA FreezeMaps ==
  ASSUME RegistryInv, NEW c \in Call, Freeze(c)
  PROVE  Store!Replay(c) \/ Store!Refuse(c) \/ UNCHANGED Store!svars
<1>1. pc[c] = "freeze"
  BY DEF Freeze
<1>2. ~(cmd[c].dom \in frozen /\ FreezesOf(cmd[c].dom) = {})
  BY DEF RegistryInv, Tables, Store!Coherent, FreezesOf
<1>3. ASSUME NEW r \in FreezesOf(cmd[c].dom)
      PROVE  r.hash = what[c]
  <2>1. PICK p \in rows : p.id = cmd[c].dom /\ what[c] = [dom |-> p.dom, content |-> p.content]
    BY <1>1 DEF RegistryInv, CallInv, Freezing, Rows
  <2>2. PICK s \in rows : s.id = cmd[c].dom /\ r.hash = [dom |-> s.dom, content |-> s.content]
    BY <1>3 DEF FreezesOf, RegistryInv, Tables, Store!Coherent
  <2>3. s = p
    BY <2>1, <2>2 DEF RegistryInv, Tables, Named
  <2>4. QED
    BY <2>1, <2>2, <2>3
<1>4. CASE Proceed(c, "freezeReceipt")
  BY <1>1, <1>4, ProceedUnseen DEF Label, Freezing, Stat
<1>5. CASE \E r \in ReceiptsFor(c) : Replay(c, r)
  BY <1>1, <1>5, ReplayMaps DEF Freezing
<1>6. QED
  BY <1>2, <1>3, <1>4, <1>5 DEF Freeze

LEMMA InsertFreezeReceiptMaps ==
  ASSUME RegistryInv, NEW c \in Call, InsertFreezeReceipt(c)
  PROVE  Store!Refuse(c) \/ UNCHANGED Store!svars
<1>1. /\ pc[c] = "freezeReceipt" /\ cmd[c].op = "freeze" /\ Stat(pc[c]) = "pending"
      /\ \A r \in ReceiptsFor(c) : r.row # cmd[c].dom
  BY DEF InsertFreezeReceipt, RegistryInv, CallInv, Alone, Freezing, Stat
<1>2. CASE Proceed(c, "commitFreeze")
  BY <1>1, <1>2, ProceedUnseen DEF Label, Freezing, Stat
<1>3. CASE ReceiptsFor(c) # {} /\ Finish(c, Refusal("InvariantError"))
  <2>1. Store!Justified(c, "InvariantError")
    BY <1>1, <1>3 DEF Store!Justified, ReceiptsFor, Store!ReceiptsFor
  <2>2. QED
    BY <1>1, <1>3, <2>1, RefusalRefuses DEF Throwable
<1>4. QED
  BY <1>2, <1>3 DEF InsertFreezeReceipt

(* The last: status and receipt of a frozen protocol in one commit.          *)
LEMMA CommitFreezeMaps ==
  ASSUME RegistryInv, NEW c \in Call, CommitFreeze(c)
  PROVE  Store!Freeze(c)
<1>1. /\ pc[c] = "commitFreeze" /\ cmd[c].op = "freeze" /\ ReceiptsFor(c) = {}
      /\ Store!Expected(c, what[c]) /\ Stat(pc[c]) = "pending"
  BY DEF CommitFreeze, RegistryInv, CallInv, Alone, Freezing, Stat
<1>2. what[c] \in Store!Means(c)
  BY <1>1, WhatIsMeant DEF Freezing
<1>3. /\ frozen' = frozen \cup {cmd[c].dom} /\ receipts' = receipts \cup {MyReceipt(c, cmd[c].dom)}
      /\ answer' = [answer EXCEPT ![c] = Ok(cmd[c].dom)] /\ Goto(c, "done")
      /\ UNCHANGED <<cmd, what, attempt, code, target, rows, links, identities>>
  BY DEF CommitFreeze
<1>4. Elsewhere(c) /\ pc'[c] = "done"
  BY <1>3 DEF RegistryInv, Shaped, Goto, Elsewhere
<1>5. Store!Reply(c, Store!Ok(cmd[c].dom))
  BY <1>1, <1>3, <1>4, Returns DEF Ok, Store!Ok
<1>6. Store!Receipted(c, what[c], cmd[c].dom)
  BY <1>1, <1>3 DEF Store!Receipted, Store!ReceiptsFor, ReceiptsFor, MyReceipt
<1>7. QED
  BY <1>1, <1>2, <1>3, <1>5, <1>6 DEF Store!Freeze

(* A credential that already has the anchor is linked by a step that adds    *)
(* nothing.                                                                  *)
LEMMA ResolveLinkMaps ==
  ASSUME RegistryInv, NEW c \in Call, NEW a \in AnchorsOf(cmd[c].dom), ResolveLink(c, a),
         pc[c] \in Linking
  PROVE  Store!Link(c) \/ Store!Refuse(c)
<1>1. cmd[c].op = "link" /\ Stat(pc[c]) = "pending"
  BY DEF RegistryInv, CallInv, Linking, Stat
<1>2. CASE a = cmd[c].content
  <2>1. PICK l \in links : l.credential = cmd[c].dom /\ l.anchor = a
    BY DEF AnchorsOf
  <2>2. l = [credential |-> cmd[c].dom, anchor |-> cmd[c].content]
    BY <1>2, <2>1 DEF RegistryInv, Tables, Named
  <2>3. Store!AnchorsOf(cmd[c].dom) \subseteq {cmd[c].content}
    BY <1>2, <2>1 DEF Store!AnchorsOf, RegistryInv, Tables, Named
  <2>4. Finish(c, Ok(None))
    BY <1>2 DEF ResolveLink
  <2>5. Store!Reply(c, Store!Ok(None)) /\ UNCHANGED Store!tables
    BY <1>1, <2>4, FinishReplies DEF Ok, Store!Ok
  <2>6. links' = links \cup {[credential |-> cmd[c].dom, anchor |-> cmd[c].content]}
    BY <2>1, <2>2, <2>5 DEF Store!tables
  <2>7. QED
    BY <1>1, <2>3, <2>5, <2>6 DEF Store!Link, Store!tables
<1>3. CASE a # cmd[c].content
  <2>1. Finish(c, Refusal("Reassigned"))
    BY <1>3 DEF ResolveLink
  <2>2. Store!Justified(c, "Reassigned")
    BY <1>1, <1>3 DEF Store!Justified, AnchorsOf, Store!AnchorsOf
  <2>3. QED
    BY <1>1, <2>1, <2>2, RefusalRefuses DEF Throwable
<1>4. QED
  BY <1>2, <1>3

LEMMA LinkMaps ==
  ASSUME RegistryInv, NEW c \in Call, FindLink(c) \/ InsertLink(c) \/ ReloadLink(c)
  PROVE  Store!Link(c) \/ Store!Refuse(c) \/ UNCHANGED Store!svars
<1>1. pc[c] \in Linking /\ cmd[c].op = "link" /\ Stat(pc[c]) = "pending"
  BY DEF FindLink, InsertLink, ReloadLink, RegistryInv, CallInv, Linking, Stat
<1>2. CASE \E a \in AnchorsOf(cmd[c].dom) : ResolveLink(c, a)
  BY <1>1, <1>2, ResolveLinkMaps
<1>3. CASE Proceed(c, "insertLink") \/ Proceed(c, "reloadLink")
  BY <1>1, <1>3, ProceedUnseen DEF Label, Linking, Stat
<1>4. CASE InsertLink(c) /\ AnchorsOf(cmd[c].dom) = {}
  <2>1. /\ links' = links \cup {[credential |-> cmd[c].dom, anchor |-> cmd[c].content]}
        /\ answer' = [answer EXCEPT ![c] = Ok(None)]
        /\ Goto(c, "done")
        /\ UNCHANGED <<cmd, what, attempt, code, target, rows, receipts, frozen, identities>>
    BY <1>4 DEF InsertLink
  <2>2. Elsewhere(c) /\ pc'[c] = "done"
    BY <2>1 DEF RegistryInv, Shaped, Goto, Elsewhere
  <2>3. Store!Reply(c, Store!Ok(None))
    BY <1>1, <2>1, <2>2, Returns DEF Ok, Store!Ok
  <2>4. QED
    BY <1>1, <1>4, <2>1, <2>3 DEF Store!Link, AnchorsOf, Store!AnchorsOf
<1>5. QED
  BY <1>2, <1>3, <1>4 DEF FindLink, InsertLink, ReloadLink

LEMMA InitMaps == Init /\ Store!Coherent => Store!Init
BY StatusIs, SeedAssumption DEF Init, Store!Init, NoAnswer, Store!NoAnswer, Stat

LEMMA NextMaps == RegistryInv /\ [Next]_vars => [Store!Next]_(Store!svars)
<1> SUFFICES ASSUME RegistryInv, [Next]_vars
             PROVE  Store!Next \/ UNCHANGED Store!svars
  OBVIOUS
<1>1. ASSUME NEW c \in Call, Begin(c) \/ Step(c) \/ Crash(c)
      PROVE  Store!Next \/ UNCHANGED Store!svars
  <2>1. \/ Store!Submit(c) \/ Store!Issue(c) \/ Store!Register(c) \/ Store!Alias(c)
        \/ Store!Freeze(c) \/ Store!Replay(c) \/ Store!Link(c) \/ Store!Refuse(c)
        \/ Store!Lose(c) \/ UNCHANGED Store!svars
    <3>1. CASE Begin(c) \/ Crash(c)
      BY <3>1, BeginMaps, CrashMaps
    <3>2. CASE LockProtocol(c)
      BY <3>2, ProceedUnseen DEF LockProtocol, Label, Freezing, Stat
    <3>3. CASE Step(c) /\ ~LockProtocol(c)
      BY <3>3, CheckProtocolMaps, IdentifyMaps, IssueIdentityMaps, InsertMaps,
         RefuseReferenceMaps, CommitMaps, ReconcileMaps, ReconcileDomainMaps, AttachAliasMaps,
         ReadProtocolMaps, FreezeMaps, InsertFreezeReceiptMaps, CommitFreezeMaps, LinkMaps DEF Step
    <3>4. QED
      BY <1>1, <3>1, <3>2, <3>3
  <2>2. QED
    BY <2>1 DEF Store!Next
<1>2. CASE UNCHANGED vars
  BY <1>2, StatusIs DEF vars, tables, Store!svars, Store!tables
<1>3. QED
  BY <1>1, <1>2 DEF Next, Terminated

(* The four repositories and the recruitment service, statement by statement *)
(* and with crashes, implement the one-step registry: each commit is one of  *)
(* its steps, each answer one that the tables justify when it is given, and  *)
(* everything between them is invisible.                                     *)
THEOREM RegistryImplementsStore == Spec /\ Store!Coherent => ImplementsRegistry
<1>1. Init /\ Store!Coherent => Store!Init
  BY InitMaps
<1>2. RegistryInv /\ [Next]_vars => [Store!Next]_(Store!svars)
  BY NextMaps
<1>3. QED
  BY <1>1, <1>2, Invariance, PTL DEF Spec, ImplementsRegistry, Store!Spec
=============================================================================
