------------------------ MODULE IntentLifecycle_proofs ------------------------
(* Proofs about IntentLifecycle, for every set of calls, assignments, keys   *)
(* and commands, over every database that is Coherent.                       *)
(*                                                                           *)
(* LifecycleInv is the inductive invariant. Coherent is what it says of the  *)
(* committed rows. Exclusive says what the row locks and the receipt index   *)
(* exclude, and Ready what an open transaction has found true under the lock *)
(* of its assignment: nobody else writes a row of that assignment, so even   *)
(* what it found absent stays so. Told is what a call was told: of rows,     *)
(* which are only ever added.                                                *)
EXTENDS IntentLifecycle, ConsentState_proofs

AllOps == FactOps \cup ConsentOps
SubjectOps == {"create", "context", "finalize", "invalidate"}

(* The facts that stand where the command, or the fact, q would be put.      *)
Prior(q) ==
  {f \in Facts(q.op) :
     /\ q.op \notin ConsentOps
     /\ q.op \in {"token", "profile"} => f.asg = q.asg
     /\ q.op \in SubjectOps => f.subject = q.subject
     /\ q.op \in {"token", "profile", "context"} => f.cap = q.cap}

(* A fact that stands there and is not the one meant.                        *)
Same(f, q) == IF q.op = "finalize" THEN f.value = q.value ELSE OriginOf(f) = {Material(q)}
Blocked(q) == \E f \in Prior(q) : ~Same(f, q)

Describes(f, q, result) ==
  /\ f.op = q.op /\ f.asg = q.asg /\ f.subject = q.subject /\ f.cap = q.cap
  /\ f.value = q.value \/ (f.op = "withdraw" /\ result = "ALIAS")

(* A set of intents of an assignment that no replacement leads out of.       *)
Closed(K, a) ==
  /\ K \subseteq {i.id : i \in InAssignment("create", a)}
  /\ \A f \in Facts("invalidate") :
       f.subject \in K => f.value.replacement = None \/ f.value.replacement \in K

-----------------------------------------------------------------------------
Columns == {"op", "id", "asg", "subject", "cap", "value", "seq", "at", "recorded"}
ReceiptColumns == {"op", "key", "material", "fact", "result"}

Named ==
  /\ IsFiniteSet(facts)
  /\ \A f, g \in facts : f.id = g.id => f = g
  /\ \A f \in facts :
       /\ DOMAIN f = Columns
       /\ f.op \in AllOps /\ f.id \in Ids /\ f.asg \in Assignment /\ f.seq \in Nat
       /\ f.op \notin SubjectOps => f.subject = None
       /\ f.op \notin {"token", "context", "profile"} => f.cap = None

Placed ==
  /\ \A f \in Facts("create") : \E t \in Facts("token") : t.id = f.subject /\ t.asg = f.asg
  /\ \A f \in facts : f.op \in IntentOps =>
       \E i \in Facts("create") : i.id = f.subject /\ i.asg = f.asg
  /\ \A f, g \in facts : f \in Prior(g) => f = g

Sequences ==
  /\ \A a \in Assignment : Numbered(InAssignment("profile", a))
  /\ \A i \in Ids : Numbered(On("context", i))

Consented ==
  /\ \A a \in Assignment : History(EventsOf(a))
  /\ \A f \in facts : f.op \in CollectionOps => EventsOf(f.asg) # {}

Receipted ==
  /\ \A r, s \in receipts : r.op = s.op /\ r.key = s.key => r = s
  /\ \A r, s \in receipts : r.fact = s.fact /\ r.result = "NEW" /\ s.result = "NEW" => r = s
  /\ \A f \in facts : f.op # "token" => \E r \in receipts : r.fact = f.id /\ r.result = "NEW"
  /\ \A r \in receipts :
       /\ DOMAIN r = ReceiptColumns /\ r.key \in Key /\ r.result \in {"NEW", "ALIAS"}
       /\ r.op = r.material.op
       /\ \E f \in facts : f.id = r.fact /\ Describes(f, r.material, r.result)

Acyclic(replacing) ==
  \A circle \in SUBSET {f.subject : f \in replacing} :
    circle # {} => \E f \in replacing : f.subject \in circle /\ f.value.replacement \notin circle

Quoted ==
  /\ \A f \in Facts("finalize") : PinsBelong(f)
  /\ \A f \in Facts("invalidate") : f.value.replacement # None =>
       \E i \in Facts("create") : i.id = f.value.replacement /\ i.asg = f.asg
  /\ Acyclic(Facts("invalidate"))

Dated ==
  \A f \in facts :
    /\ f.at \in 0..(clock + Skew)
    /\ IF f.op \in ConsentOps THEN f.recorded \in 0..(clock + Skew) ELSE f.recorded = None

Rows == Named /\ Placed /\ Sequences /\ Consented /\ Receipted /\ Quoted
Coherent == Rows /\ Dated

-----------------------------------------------------------------------------
(* The calls.                                                                *)
Pending == {"insertEvent", "insertReceipt", "commit"}

Shaped ==
  /\ scene \in DOMAIN Scenario
  /\ clock \in 1..Scenario[scene].until
  /\ cmd \in [Call -> Scenario[scene].commands \cup {NoCommand}]
  /\ lead \in [Call -> 0..Skew]
  /\ began \in [Call -> Nat]
  /\ pc \in [Call -> Open \cup {"idle", "lockAssignment", "reconcile", "done", "crashed"}]
  /\ DOMAIN staged = Call /\ DOMAIN answer = Call

Exclusive ==
  /\ \A c, d \in Call : pc[c] \in Open /\ pc[d] \in Open /\ cmd[c].asg = cmd[d].asg => c = d
  /\ \A c, d \in Call :
       pc[c] = "commit" /\ pc[d] = "commit" /\ cmd[c].op = cmd[d].op /\ cmd[c].op # "token"
         /\ cmd[c].key = cmd[d].key => c = d

(* A fact that call c may add: where it goes is free, what it quotes is      *)
(* there, its number is the next and its collection is authorized.           *)
NewFact(c, seq, at, recorded) ==
  [op |-> cmd[c].op, id |-> c, asg |-> cmd[c].asg, subject |-> cmd[c].subject,
   cap |-> cmd[c].cap, value |-> cmd[c].value, seq |-> seq, at |-> at, recorded |-> recorded]

Authorizing(events, at) ==
  /\ Meant(Visible(events, at), at)
  /\ \A e \in events : e.captured <= at + Skew /\ e.recorded <= at + Skew

Unreplaced(q) ==
  q.value.replacement = None \/ \E K \in SUBSET {i.id : i \in InAssignment("create", q.asg)} :
    Closed(K, q.asg) /\ q.value.replacement \in K /\ q.subject \notin K

Addable(c, seq, at) ==
  LET q == cmd[c] IN
  /\ Prior(q) = {}
  /\ q.op = "profile" => seq = Cardinality(InAssignment("profile", q.asg)) + 1
  /\ q.op = "context" => seq = Cardinality(On("context", q.subject)) + 1
  /\ q.op \in ConsentOps => seq = Cardinality(EventsOf(q.asg)) + 1
  /\ q.op = "grant" => EffectiveConsentState(EventsOf(q.asg)) = "NO_CONSENT"
  /\ q.op = "withdraw" => EffectiveConsentState(EventsOf(q.asg)) = "GRANTED"
  /\ q.op \in CollectionOps => Authorizing(EventsOf(q.asg), at)
  /\ q.op = "context" => On("finalize", q.subject) = {}
  /\ q.op \in {"context", "finalize"} => On("invalidate", q.subject) = {}
  /\ q.op = "finalize" => PinsBelong(q)
  /\ q.op = "invalidate" => Unreplaced(q)

(* A call at step p with the rows s to insert: a new fact and its receipt, or*)
(* the receipt of a fact that is there.                                      *)
StagesNew(c, p, s) ==
  \E seq \in Nat, at \in 0..(clock + Skew), recorded \in 0..(clock + Skew) \cup {None} :
    /\ s = [facts |-> {NewFact(c, seq, at, recorded)},
            receipts |-> IF cmd[c].op = "token" THEN {} ELSE {MyReceipt(c, c, "NEW")}]
    /\ Addable(c, seq, at)
    /\ recorded = None <=> (cmd[c].op \notin ConsentOps \/ p = "insertEvent")

StagesAlias(c, s) ==
  /\ cmd[c].op # "token"
  /\ ~Blocked(cmd[c])
  /\ \E f \in facts : /\ Describes(f, cmd[c], "ALIAS")
                      /\ s = [facts |-> {}, receipts |-> {MyReceipt(c, f.id, "ALIAS")}]

Ready(c, p, s) ==
  /\ Owned(c)
  /\ p = "insertEvent" => cmd[c].op \in ConsentOps
  /\ p = "insertReceipt" => cmd[c].op # "token"
  /\ cmd[c].op # "token" =>
       \A r \in ReceiptsFor(cmd[c]) : p # "commit" /\ r.material.asg # cmd[c].asg
  /\ StagesNew(c, p, s) \/ (p # "insertEvent" /\ StagesAlias(c, s))

(* What a call was told.                                                     *)
Refused == {"CaptureConflict", "ContextConflict", "EligibilityProfileConflict",
            "FinalizationConflict", "InvalidationConflict"}
Told(c, a) ==
  /\ a.kind = "Ok" =>
       IF cmd[c].op = "token" THEN a.fact \in Ids
       ELSE \E r \in ReceiptsFor(cmd[c]) : r.material = Material(cmd[c]) /\ r.fact = a.fact
  /\ a.kind # "Ok" => a.fact = None
  /\ a.kind \in {"IdempotencyConflict", "UnexpectedRace"} =>
       \E r \in ReceiptsFor(cmd[c]) : r.material # Material(cmd[c])
  /\ a.kind \in Refused =>
       Blocked(cmd[c]) /\ \A r \in ReceiptsFor(cmd[c]) : r.material # Material(cmd[c])

CallInv(c) ==
  /\ pc[c] # "idle" => cmd[c] \in Scenario[scene].commands
  /\ began[c] <= clock + lead[c]
  /\ pc[c] # "done" => \A f \in facts : f.id # c
  /\ IF pc[c] \in Pending THEN Ready(c, pc[c], staged[c]) ELSE staged[c] = NoRows
  /\ IF pc[c] = "done" THEN Told(c, answer[c]) ELSE answer[c] = NoAnswer

LifecycleInv == Shaped /\ Rows /\ Dated /\ Exclusive /\ \A c \in Call : CallInv(c)

-----------------------------------------------------------------------------
(* What a step that changes no row, command or clock leaves true.            *)
Still == UNCHANGED <<scene, cmd, lead, began, facts, receipts, clock>>

LEMMA RowsStill ==
  ASSUME UNCHANGED rows
  PROVE  (Rows <=> Rows') /\ (UNCHANGED clock => (Dated <=> Dated'))
<1>1. facts' = facts /\ receipts' = receipts
  BY DEF rows
<1>2. QED
  BY <1>1 DEF Rows, Dated, Named, Placed, Sequences, Consented, Receipted, Quoted, Facts, On,
              InAssignment, EventsOf, Prior, Acyclic, PinsBelong, Numbered

LEMMA CallsStill ==
  ASSUME Still, NEW d
  PROVE  /\ \A p, s : Ready(d, p, s)' <=> Ready(d, p, s)
         /\ \A a : Told(d, a)' <=> Told(d, a)
<1>1. facts' = facts /\ receipts' = receipts /\ clock' = clock /\ cmd' = cmd
  BY DEF Still
<1>2. ASSUME NEW p, NEW s
      PROVE  Ready(d, p, s)' <=> Ready(d, p, s)
  <2>1. StagesNew(d, p, s)' <=> StagesNew(d, p, s)
    BY <1>1 DEF StagesNew, NewFact, MyReceipt, Addable, Prior, Facts, InAssignment, On, EventsOf,
                PinsBelong, Unreplaced, Closed
  <2>2. StagesAlias(d, s)' <=> StagesAlias(d, s)
    BY <1>1 DEF StagesAlias, Blocked, Same, OriginOf, MyReceipt, Prior, Facts
  <2>3. QED
    BY <1>1, <2>1, <2>2 DEF Ready, Owned, SubjectOf, Facts, ReceiptsFor
<1>3. ASSUME NEW a
      PROVE  Told(d, a)' <=> Told(d, a)
  BY <1>1 DEF Told, ReceiptsFor, Blocked, Same, OriginOf, Prior, Facts, Ids
<1>4. QED
  BY <1>2, <1>3

(* A step of call c alone that changes no row.                               *)
Local(c) ==
  /\ Still
  /\ \A d \in Call \ {c} : UNCHANGED <<pc[d], staged[d], answer[d]>>
  /\ pc' \in [Call -> Open \cup {"idle", "lockAssignment", "reconcile", "done", "crashed"}]
  /\ DOMAIN staged' = Call /\ DOMAIN answer' = Call

LEMMA LocalStep ==
  ASSUME LifecycleInv, NEW c \in Call, Local(c), pc[c] \notin {"idle", "done"},
         Exclusive',
         IF pc'[c] \in Pending THEN Ready(c, pc'[c], staged'[c]) ELSE staged'[c] = NoRows,
         IF pc'[c] = "done" THEN Told(c, answer'[c]) ELSE answer'[c] = NoAnswer
  PROVE  LifecycleInv'
<1>1. Still
  BY DEF Local
<1>2. Rows' /\ Dated'
  BY <1>1, RowsStill DEF LifecycleInv, Still, rows
<1>3. Shaped'
  BY <1>1 DEF LifecycleInv, Shaped, Local, Still
<1>4. CallInv(c)'
  <2>1. IF pc'[c] \in Pending THEN Ready(c, pc[c], staged[c])' ELSE staged'[c] = NoRows
    BY <1>1, CallsStill
  <2>2. IF pc'[c] = "done" THEN Told(c, answer[c])' ELSE answer'[c] = NoAnswer
    BY <1>1, CallsStill
  <2>3. pc'[c] # "idle" => cmd'[c] \in Scenario[scene'].commands
    BY <1>1 DEF LifecycleInv, CallInv, Still
  <2>4. began'[c] <= clock' + lead'[c] /\ \A f \in facts' : f.id # c
    BY <1>1 DEF LifecycleInv, CallInv, Still
  <2>5. QED
    BY <2>1, <2>2, <2>3, <2>4 DEF CallInv, NoRows, NoAnswer
<1>5. ASSUME NEW d \in Call \ {c}
      PROVE  CallInv(d)'
  <2>1. pc'[d] = pc[d] /\ staged'[d] = staged[d] /\ answer'[d] = answer[d]
    BY DEF Local
  <2>2. CallInv(d)
    BY DEF LifecycleInv
  <2>3. pc'[d] \in Pending => Ready(d, pc[d], staged[d])'
    BY <1>1, <2>1, <2>2, CallsStill DEF CallInv
  <2>4. pc'[d] = "done" => Told(d, answer[d])'
    BY <1>1, <2>1, <2>2, CallsStill DEF CallInv
  <2>5. /\ pc'[d] \notin Pending => staged'[d] = NoRows
        /\ pc'[d] # "done" => answer'[d] = NoAnswer
    BY <2>1, <2>2 DEF CallInv
  <2>6. pc'[d] # "idle" => cmd'[d] \in Scenario[scene'].commands
    BY <1>1, <2>1, <2>2 DEF CallInv, Still
  <2>7. began'[d] <= clock' + lead'[d]
    BY <1>1, <2>1, <2>2 DEF CallInv, Still
  <2>8. pc'[d] # "done" => \A f \in facts' : f.id # d
    BY <1>1, <2>1, <2>2 DEF CallInv, Still
  <2>9. QED
    BY <2>3, <2>4, <2>5, <2>6, <2>7, <2>8 DEF CallInv, NoRows, NoAnswer
<1>6. QED
  BY <1>2, <1>3, <1>4, <1>5 DEF LifecycleInv

LEMMA ExclusiveKept ==
  ASSUME LifecycleInv, NEW c \in Call, Local(c),
         pc'[c] \in Open =>
           pc[c] \in Open \/ \A d \in Call \ {c} : ~HoldsAssignment(d, cmd[c].asg),
         pc'[c] = "commit" => \A d \in Call \ {c} :
           pc[d] = "commit" /\ cmd[d].op = cmd[c].op /\ cmd[c].op # "token" => cmd[d].key # cmd[c].key
  PROVE  Exclusive'
<1>1. cmd' = cmd /\ \A d \in Call \ {c} : pc'[d] = pc[d]
  BY DEF Local, Still
<1>2. \A d \in Call \ {c} : pc'[c] \in Open /\ pc[d] \in Open => cmd[c].asg # cmd[d].asg
  BY DEF LifecycleInv, Exclusive, HoldsAssignment
<1>3. QED
  BY <1>1, <1>2 DEF LifecycleInv, Exclusive

LEMMA FinishKeeps ==
  ASSUME LifecycleInv, NEW c \in Call, pc[c] \notin {"idle", "done"},
         NEW a, Told(c, a), Finish(c, a)
  PROVE  LifecycleInv'
<1>1. pc'[c] = "done" /\ answer'[c] = a /\ staged'[c] = NoRows
  BY DEF Finish, Goto, LifecycleInv, Shaped
<1>2. Local(c)
  BY DEF Finish, Goto, LifecycleInv, Shaped, Local, Still, input, rows
<1>3. Exclusive'
  BY <1>1, <1>2, ExclusiveKept DEF Open
<1>4. QED
  BY <1>1, <1>2, <1>3, LocalStep DEF Pending

LEMMA StageKeeps ==
  ASSUME LifecycleInv, NEW c \in Call, pc[c] \in Open, NEW l \in Pending,
         NEW fs, NEW rs, Ready(c, l, [facts |-> fs, receipts |-> rs]), Stage(c, fs, rs, l),
         l = "commit" => cmd[c].op = "token"
  PROVE  LifecycleInv'
<1>1. pc'[c] = l /\ staged'[c] = [facts |-> fs, receipts |-> rs] /\ answer' = answer
  BY DEF Stage, Goto, LifecycleInv, Shaped
<1>2. Local(c)
  BY DEF Stage, Goto, LifecycleInv, Shaped, Local, Still, input, rows, Pending, Open
<1>3. Exclusive'
  BY <1>1, <1>2, ExclusiveKept DEF Open
<1>4. pc[c] \notin {"idle", "done"} /\ l # "done" /\ answer'[c] = NoAnswer
  BY <1>1 DEF Open, Pending, LifecycleInv, CallInv
<1>5. QED
  BY <1>1, <1>2, <1>3, <1>4, LocalStep

LEMMA AbandonKeeps ==
  ASSUME LifecycleInv, NEW c \in Call, pc[c] \notin {"idle", "done"},
         NEW l \in {"crashed", "reconcile"}, Stage(c, {}, {}, l)
  PROVE  LifecycleInv'
<1>1. pc'[c] = l /\ staged'[c] = NoRows /\ answer' = answer
  BY DEF Stage, Goto, LifecycleInv, Shaped, NoRows
<1>2. Local(c)
  BY DEF Stage, Goto, LifecycleInv, Shaped, Local, Still, input, rows
<1>3. Exclusive'
  BY <1>1, <1>2, ExclusiveKept DEF Open
<1>4. l \notin Pending /\ l # "done" /\ answer'[c] = NoAnswer
  BY <1>1 DEF Pending, LifecycleInv, CallInv
<1>5. QED
  BY <1>1, <1>2, <1>3, <1>4, LocalStep

LEMMA ProceedKeeps ==
  ASSUME LifecycleInv, NEW c \in Call, pc[c] \notin {"idle", "done"},
         NEW l \in Open \ {"insertEvent"}, Proceed(c, l),
         pc[c] \in Open \/ \A d \in Call \ {c} : ~HoldsAssignment(d, cmd[c].asg),
         IF l \in Pending THEN Ready(c, l, staged[c]) ELSE pc[c] \notin Pending,
         l = "commit" => \A d \in Call \ {c} :
           pc[d] = "commit" /\ cmd[d].op = cmd[c].op /\ cmd[c].op # "token" => cmd[d].key # cmd[c].key
  PROVE  LifecycleInv'
<1>1. pc'[c] = l /\ staged' = staged /\ answer' = answer
  BY DEF Proceed, Goto, LifecycleInv, Shaped
<1>2. Local(c)
  BY DEF Proceed, Goto, LifecycleInv, Shaped, Local, Still, input, rows
<1>3. Exclusive'
  BY <1>1, <1>2, ExclusiveKept
<1>4. CallInv(c) /\ l # "done"
  BY DEF LifecycleInv, Open
<1>5. IF l \in Pending THEN Ready(c, l, staged[c]) ELSE staged[c] = NoRows
  BY <1>4 DEF CallInv
<1>6. answer[c] = NoAnswer
  BY <1>4 DEF CallInv
<1>7. QED
  BY <1>1, <1>2, <1>3, <1>4, <1>5, <1>6, LocalStep

-----------------------------------------------------------------------------
(* Facts about rows and streams.                                             *)
LEMMA NoneIsNoId == None \notin Ids
  BY LifecycleAssumption DEF Ids

LEMMA OfCommand ==
  ASSUME LifecycleInv, NEW c \in Call, pc[c] # "idle"
  PROVE  /\ cmd[c].op \in AllOps /\ cmd[c].asg \in Assignment /\ cmd[c].key \in Key
         /\ cmd[c].op \notin SubjectOps <=> cmd[c].subject = None
         /\ cmd[c].op \notin {"token", "context", "profile"} => cmd[c].cap = None
         /\ cmd[c].op = "withdraw" => cmd[c].value \in Nat \cup {None}
<1>1. scene \in DOMAIN Scenario /\ cmd[c] \in Scenario[scene].commands
  BY DEF LifecycleInv, Shaped, CallInv
<1>2. QED
  BY <1>1, LifecycleAssumption DEF AllOps, FactOps, ConsentOps, SubjectOps

LEMMA NextNumber ==
  ASSUME NEW S, IsFiniteSet(S), Numbered(S)
  PROVE  NextSeq(S) = Cardinality(S) + 1
<1>1. CASE S = {}
  BY <1>1, FS_EmptySet DEF NextSeq
<1>2. CASE S # {}
  <2>1. Cardinality(S) \in Nat
    BY FS_CardinalityType
  <2>2. \A f \in S : f.seq \in 1..Cardinality(S)
    BY DEF Numbered
  <2>3. 1 <= Cardinality(S)
    BY <1>2, <2>1, <2>2
  <2>4. PICK f \in S : f.seq = Cardinality(S)
    BY <2>1, <2>3 DEF Numbered
  <2>5. \A g \in S : g.seq <= f.seq
    BY <2>1, <2>2, <2>4
  <2> DEFINE last == CHOOSE g \in S : \A h \in S : h.seq <= g.seq
  <2>6. last \in S /\ \A h \in S : h.seq <= last.seq
    BY <2>5
  <2> HIDE DEF last
  <2>7. last.seq = Cardinality(S)
    BY <2>1, <2>2, <2>4, <2>6
  <2>8. NextSeq(S) = 1 + last.seq
    BY <1>2 DEF NextSeq, last
  <2>9. QED
    BY <2>1, <2>7, <2>8
<1>3. QED
  BY <1>1, <1>2

LEMMA NumberedGrows ==
  ASSUME NEW S, IsFiniteSet(S), Numbered(S), NEW n, n \notin S, n.seq = Cardinality(S) + 1
  PROVE  Numbered(S \cup {n})
<1>1. Cardinality(S) \in Nat /\ Cardinality(S \cup {n}) = Cardinality(S) + 1
  BY FS_CardinalityType, FS_AddElement
<1>2. {f.seq : f \in S} = 1..Cardinality(S)
  BY DEF Numbered
<1>3. \A f \in S : f.seq # n.seq
  BY <1>1, <1>2
<1>4. {f.seq : f \in S \cup {n}} = {f.seq : f \in S} \cup {n.seq}
  OBVIOUS
<1>5. 1..(Cardinality(S) + 1) = (1..Cardinality(S)) \cup {Cardinality(S) + 1}
  BY <1>1
<1>6. {f.seq : f \in S \cup {n}} = 1..Cardinality(S \cup {n})
  BY <1>1, <1>2, <1>4, <1>5
<1>7. \A f, g \in S \cup {n} : f.seq = g.seq => f = g
  BY <1>3 DEF Numbered
<1>8. QED
  BY <1>6, <1>7 DEF Numbered

LEMMA HistoryCounts ==
  ASSUME NEW events, History(events)
  PROVE  /\ IsFiniteSet(events) /\ Numbered(events)
         /\ events = {} => Cardinality(events) = 0
         /\ \A g : IsGrant(g) /\ events = {g} => Cardinality(events) = 1
<1>1. CASE events = {}
  <2>1. IsFiniteSet(events) /\ Cardinality(events) = 0 /\ 1..0 = {}
    BY <1>1, FS_EmptySet
  <2>2. QED
    BY <1>1, <2>1 DEF Numbered
<1>2. ASSUME NEW g, IsGrant(g), events = {g}
      PROVE  IsFiniteSet(events) /\ Numbered(events) /\ Cardinality(events) = 1
  <2>1. IsFiniteSet(events) /\ Cardinality(events) = 1
    BY <1>2, FS_Singleton
  <2>2. {f.seq : f \in events} = 1..1
    BY <1>2 DEF IsGrant
  <2>3. QED
    BY <1>2, <2>1, <2>2 DEF Numbered
<1>3. ASSUME NEW g, NEW w, IsGrant(g), IsWithdrawal(w), events = {g, w}
      PROVE  IsFiniteSet(events) /\ Numbered(events)
  <2>1. IsFiniteSet({g}) /\ Numbered({g}) /\ Cardinality({g}) = 1
    <3>1. IsFiniteSet({g}) /\ Cardinality({g}) = 1
      BY FS_Singleton
    <3>2. {f.seq : f \in {g}} = 1..1
      BY <1>3 DEF IsGrant
    <3>3. QED
      BY <3>1, <3>2 DEF Numbered
  <2>2. w \notin {g} /\ w.seq = Cardinality({g}) + 1
    BY <1>3, <2>1 DEF IsGrant, IsWithdrawal
  <2>3. Numbered({g} \cup {w}) /\ IsFiniteSet({g} \cup {w})
    BY <2>1, <2>2, NumberedGrows, FS_AddElement
  <2>4. {g} \cup {w} = events
    BY <1>3
  <2>5. QED
    BY <2>3, <2>4
<1>4. QED
  BY <1>1, <1>2, <1>3 DEF History

LEMMA OneStands ==
  ASSUME Rows, NEW q, NEW f \in Prior(q), NEW g \in Prior(q)
  PROVE  f = g
<1>1. f \in Prior(g)
  BY DEF Prior, Facts
<1>2. QED
  BY <1>1 DEF Rows, Placed, Prior, Facts

LEMMA OriginDescribes ==
  ASSUME Rows, NEW f \in facts, NEW m, OriginOf(f) = {m}
  PROVE  Describes(f, m, "NEW")
<1>1. PICK r \in receipts : r.fact = f.id /\ r.result = "NEW" /\ r.material = m
  BY DEF OriginOf
<1>2. PICK g \in facts : g.id = r.fact /\ Describes(g, r.material, r.result)
  BY DEF Rows, Receipted
<1>3. g = f
  BY <1>1, <1>2 DEF Rows, Named
<1>4. QED
  BY <1>1, <1>2, <1>3

LEMMA StreamsFinite ==
  ASSUME Rows
  PROVE  /\ \A op, a : IsFiniteSet(InAssignment(op, a))
         /\ \A op, i : IsFiniteSet(On(op, i))
<1>1. IsFiniteSet(facts)
  BY DEF Rows, Named
<1>2. \A op, a : InAssignment(op, a) \subseteq facts
  BY DEF InAssignment
<1>3. \A op, i : On(op, i) \subseteq facts
  BY DEF On
<1>4. QED
  BY <1>1, <1>2, <1>3, FS_Subset

LEMMA RefusalTold ==
  ASSUME NEW c, NEW k, k \notin Refused \cup {"Ok", "IdempotencyConflict", "UnexpectedRace"}
  PROVE  Told(c, Refusal(k))
  BY DEF Told, Refusal

LEMMA ConflictTold ==
  ASSUME NEW c, NEW k \in Refused, Blocked(cmd[c]), ReceiptsFor(cmd[c]) = {}
  PROVE  Told(c, Refusal(k))
  BY DEF Told, Refusal, Refused

(* The time of a call is not before anything recorded, but for the skew.     *)
LEMMA TimeOfCall ==
  ASSUME LifecycleInv, NEW c \in Call
  PROVE  /\ Now(c) \in 0..(clock + Skew) /\ clock <= Now(c) /\ clock \in Nat
         /\ began[c] \in Nat /\ began[c] <= Now(c)
<1>1. clock \in 1..Scenario[scene].until /\ Scenario[scene].until \in Nat /\ Skew \in Nat
  BY LifecycleAssumption DEF LifecycleInv, Shaped
<1>2. lead[c] \in 0..Skew /\ began[c] \in Nat /\ began[c] <= clock + lead[c]
  BY DEF LifecycleInv, Shaped, CallInv
<1>3. QED
  BY <1>1, <1>2 DEF Now

LEMMA EventsDated ==
  ASSUME LifecycleInv, NEW a, NEW e \in EventsOf(a)
  PROVE  e.captured \in 0..(clock + Skew) /\ e.recorded \in 0..(clock + Skew)
  BY DEF LifecycleInv, Dated, EventsOf, ConsentEvent

LEMMA CollectionIsAuthorized ==
  ASSUME LifecycleInv, NEW c \in Call, NEW a \in Assignment,
         WasCollectionAuthorized(EventsOf(a), Now(c), Now(c))
  PROVE  Authorizing(EventsOf(a), Now(c))
<1>1. History(EventsOf(a))
  BY DEF LifecycleInv, Rows, Consented
<1>2. Now(c) \in Nat /\ Skew \in Nat /\ clock \in Nat /\ clock <= Now(c)
  BY TimeOfCall, LifecycleAssumption
<1>3. Visible(EventsOf(a), Now(c)) \in SUBSET EventsOf(a)
  BY DEF Visible
<1>4. Authorized(Visible(EventsOf(a), Now(c)), Now(c))
  BY DEF WasCollectionAuthorized, Authorized
<1>5. Meant(Visible(EventsOf(a), Now(c)), Now(c))
  BY <1>1, <1>2, <1>3, <1>4, AuthorizedIsMeant, LifecycleAssumption
<1>6. \A e \in EventsOf(a) : e.captured <= Now(c) + Skew /\ e.recorded <= Now(c) + Skew
  BY <1>2, EventsDated
<1>7. QED
  BY <1>5, <1>6 DEF Authorizing

LEMMA CollectKeeps ==
  ASSUME LifecycleInv, NEW c \in Call, pc[c] = "execute", cmd[c].op \in CollectionOps, Fresh(c),
         NEW seq \in Nat, Collect(c, seq), Prior(cmd[c]) = {},
         cmd[c].op = "profile" => seq = Cardinality(InAssignment("profile", cmd[c].asg)) + 1,
         cmd[c].op = "context" => seq = Cardinality(On("context", cmd[c].subject)) + 1,
         cmd[c].op = "context" => On("finalize", cmd[c].subject) = {},
         cmd[c].op \in {"context", "finalize"} => On("invalidate", cmd[c].subject) = {},
         cmd[c].op = "finalize" => PinsBelong(cmd[c]),
         cmd[c].op = "invalidate" => Unreplaced(cmd[c])
  PROVE  LifecycleInv'
<1> DEFINE events == EventsOf(cmd[c].asg)
<1>1. ASSUME NEW k \in {"InvalidHistory", "ConsentNotAuthorized"}, Finish(c, Refusal(k))
      PROVE  LifecycleInv'
  <2>1. Told(c, Refusal(k))
    BY RefusalTold DEF Refused
  <2>2. QED
    BY <1>1, <2>1, FinishKeeps
<1>2. ASSUME WasCollectionAuthorized(events, Now(c), Now(c)),
             Stage(c, {MyFact(c, seq)}, {MyReceipt(c, c, "NEW")}, "insertReceipt")
      PROVE  LifecycleInv'
  <2>1. Authorizing(events, Now(c))
    BY <1>2, CollectionIsAuthorized, OfCommand
  <2>2. Addable(c, seq, Now(c))
    BY <2>1 DEF Addable, CollectionOps, FactOps, ConsentOps
  <2>3. MyFact(c, seq) = NewFact(c, seq, Now(c), None)
    BY DEF MyFact, NewFact
  <2>4. Now(c) \in 0..(clock + Skew) /\ cmd[c].op \notin ConsentOps /\ cmd[c].op # "token"
    BY TimeOfCall DEF CollectionOps, FactOps, ConsentOps
  <2>5. StagesNew(c, "insertReceipt", [facts |-> {MyFact(c, seq)},
                                      receipts |-> {MyReceipt(c, c, "NEW")}])
    BY <2>2, <2>3, <2>4 DEF StagesNew
  <2>6. Ready(c, "insertReceipt", [facts |-> {MyFact(c, seq)},
                                  receipts |-> {MyReceipt(c, c, "NEW")}])
    BY <2>4, <2>5 DEF Ready, Fresh
  <2>7. QED
    BY <1>2, <2>6, StageKeeps DEF Open, Pending
<1>3. QED
  BY <1>1, <1>2 DEF Collect

(* The row found where the new one would stand is the one meant, or the call *)
(* is told of the conflict.                                                  *)
LEMMA AcknowledgeKeeps ==
  ASSUME LifecycleInv, NEW c \in Call, pc[c] = "execute", cmd[c].op # "token", Fresh(c),
         NEW f \in Prior(cmd[c]), NEW k \in Refused, Acknowledge(c, f, Same(f, cmd[c]), k)
  PROVE  LifecycleInv'
<1>1. CASE ~Same(f, cmd[c])
  <2>1. Told(c, Refusal(k))
    BY <1>1, ConflictTold DEF Blocked, Fresh
  <2>2. QED
    BY <1>1, <2>1, FinishKeeps DEF Acknowledge
<1>2. CASE Same(f, cmd[c])
  <2>1. ~Blocked(cmd[c])
    BY <1>2, OneStands DEF Blocked, LifecycleInv
  <2>2. Describes(f, cmd[c], "ALIAS")
    <3>1. CASE cmd[c].op # "finalize"
      <4>1. Describes(f, Material(cmd[c]), "NEW")
        BY <1>2, <3>1, OriginDescribes DEF Same, Prior, Facts, LifecycleInv
      <4>2. QED
        BY <4>1 DEF Describes, Material
    <3>2. CASE cmd[c].op = "finalize"
      <4>1. f.op = "finalize" /\ f \in facts /\ f.subject = cmd[c].subject /\ f.value = cmd[c].value
        BY <1>2, <3>2 DEF Same, Prior, Facts, SubjectOps
      <4>2. f.cap = None /\ cmd[c].cap = None
        BY <3>2, <4>1, OfCommand DEF LifecycleInv, Rows, Named
      <4>3. PICK i \in Facts("create") : i.id = f.subject /\ i.asg = f.asg
        BY <4>1 DEF LifecycleInv, Rows, Placed, IntentOps
      <4>4. PICK j \in Facts("create") : j.id = cmd[c].subject /\ j.asg = cmd[c].asg
        BY <3>2, OfCommand DEF Fresh, Owned, SubjectOf, SubjectOps
      <4>5. i = j
        BY <4>1, <4>3, <4>4 DEF LifecycleInv, Rows, Named, Facts
      <4>6. QED
        BY <3>2, <4>1, <4>2, <4>3, <4>4, <4>5 DEF Describes
    <3>3. QED
      BY <3>1, <3>2
  <2>3. StagesAlias(c, [facts |-> {}, receipts |-> {MyReceipt(c, f.id, "ALIAS")}])
    BY <2>1, <2>2 DEF StagesAlias, Prior, Facts
  <2>4. Ready(c, "insertReceipt", [facts |-> {}, receipts |-> {MyReceipt(c, f.id, "ALIAS")}])
    BY <2>3 DEF Ready, Fresh
  <2>5. QED
    BY <1>2, <2>4, StageKeeps DEF Acknowledge, Open, Pending
<1>3. QED
  BY <1>1, <1>2

-----------------------------------------------------------------------------
(* The actions one by one.                                                   *)
LEMMA BeginKeeps ==
  ASSUME LifecycleInv, NEW c \in Call, Begin(c)
  PROVE  LifecycleInv'
<1>1. /\ facts' = facts /\ receipts' = receipts /\ clock' = clock /\ scene' = scene /\ lead' = lead
      /\ staged' = staged /\ answer' = answer
  BY DEF Begin, rows
<1>2. PICK q \in Scenario[scene].commands : cmd' = [cmd EXCEPT ![c] = q]
  BY DEF Begin
<1>3. /\ pc[c] = "idle" /\ pc' = [pc EXCEPT ![c] = "lockAssignment"]
      /\ began' = [began EXCEPT ![c] = Now(c)]
  BY DEF Begin, Goto
<1>4. Rows' /\ Dated'
  BY <1>1, RowsStill DEF LifecycleInv, rows
<1>5. Now(c) \in Nat
  BY TimeOfCall, LifecycleAssumption
<1>6. Shaped'
  BY <1>1, <1>2, <1>3, <1>5 DEF LifecycleInv, Shaped
<1>7. Exclusive'
  BY <1>2, <1>3 DEF LifecycleInv, Shaped, Exclusive, Open
<1>8. CallInv(c)'
  <2>1. cmd'[c] = q /\ began'[c] = Now(c) /\ pc'[c] = "lockAssignment" /\ CallInv(c)
    BY <1>2, <1>3 DEF LifecycleInv, Shaped
  <2>2. staged[c] = NoRows /\ answer[c] = NoAnswer
    BY <1>3, <2>1 DEF CallInv, Pending
  <2>3. Now(c) <= clock + lead[c]
    BY <1>5 DEF Now
  <2>4. QED
    BY <1>1, <1>3, <2>1, <2>2, <2>3 DEF CallInv, Pending, NoRows, NoAnswer
<1>9. ASSUME NEW d \in Call \ {c}
      PROVE  CallInv(d)'
  <2>1. pc'[d] = pc[d] /\ cmd'[d] = cmd[d] /\ began'[d] = began[d] /\ CallInv(d)
    BY <1>2, <1>3 DEF LifecycleInv, Shaped
  <2>2. \A p, s : Ready(d, p, s)' <=> Ready(d, p, s)
    <3>1. ASSUME NEW p, NEW s
          PROVE  Ready(d, p, s)' <=> Ready(d, p, s)
      <4>1. StagesNew(d, p, s)' <=> StagesNew(d, p, s)
        BY <1>1, <2>1 DEF StagesNew, NewFact, MyReceipt, Addable, Prior, Facts, InAssignment, On,
                          EventsOf, PinsBelong, Unreplaced, Closed
      <4>2. StagesAlias(d, s)' <=> StagesAlias(d, s)
        BY <1>1, <2>1 DEF StagesAlias, Blocked, Same, OriginOf, MyReceipt, Prior, Facts
      <4>3. QED
        BY <1>1, <2>1, <4>1, <4>2 DEF Ready, Owned, SubjectOf, Facts, ReceiptsFor
    <3>2. QED
      BY <3>1
  <2>3. \A a : Told(d, a)' <=> Told(d, a)
    BY <1>1, <2>1 DEF Told, ReceiptsFor, Blocked, Same, OriginOf, Prior, Facts, Ids
  <2>4. pc'[d] \in Pending => Ready(d, pc[d], staged[d])'
    BY <1>1, <2>1, <2>2 DEF CallInv
  <2>5. pc'[d] = "done" => Told(d, answer[d])'
    BY <1>1, <2>1, <2>3 DEF CallInv
  <2>6. QED
    BY <1>1, <2>1, <2>4, <2>5 DEF CallInv, NoRows, NoAnswer
<1>10. QED
  BY <1>4, <1>6, <1>7, <1>8, <1>9 DEF LifecycleInv

LEMMA LockAssignmentKeeps ==
  ASSUME LifecycleInv, NEW c \in Call, LockAssignment(c)
  PROVE  LifecycleInv'
<1>1. PICK l \in {"lockIntent", "execute"} : Proceed(c, l)
  BY DEF LockAssignment
<1>2. QED
  BY <1>1, ProceedKeeps DEF LockAssignment, Open, Pending

LEMMA LockIntentKeeps ==
  ASSUME LifecycleInv, NEW c \in Call, LockIntent(c)
  PROVE  LifecycleInv'
<1>1. CASE Proceed(c, "execute")
  BY <1>1, ProceedKeeps DEF LockIntent, Open, Pending
<1>2. CASE Finish(c, Refusal("UnknownRow"))
  BY <1>2, FinishKeeps, RefusalTold DEF LockIntent, Refused
<1>3. QED
  BY <1>1, <1>2 DEF LockIntent

LEMMA RefuseForeignKeeps ==
  ASSUME LifecycleInv, NEW c \in Call, RefuseForeign(c)
  PROVE  LifecycleInv'
<1>1. PICK k \in {"UnknownRow", "OwnershipError"} : Finish(c, Refusal(k))
  BY DEF RefuseForeign
<1>2. QED
  BY <1>1, FinishKeeps, RefusalTold DEF RefuseForeign, Refused

LEMMA ReplayKeeps ==
  ASSUME LifecycleInv, NEW c \in Call, pc[c] \notin {"idle", "done"}, Replay(c)
  PROVE  LifecycleInv'
<1>1. PICK r \in ReceiptsFor(cmd[c]) :
        Finish(c, IF r.material = Material(cmd[c]) THEN Ok(r.fact) ELSE Refusal("IdempotencyConflict"))
  BY DEF Replay
<1>2. CASE r.material = Material(cmd[c])
  <2>1. r.fact \in Ids
    BY DEF ReceiptsFor, LifecycleInv, Rows, Receipted, Named
  <2>2. Told(c, Ok(r.fact))
    BY <1>2, <2>1 DEF Told, Ok, Refused
  <2>3. QED
    BY <1>1, <1>2, <2>2, FinishKeeps
<1>3. CASE r.material # Material(cmd[c])
  <2>1. Told(c, Refusal("IdempotencyConflict"))
    BY <1>3 DEF Told, Refusal, Refused
  <2>2. QED
    BY <1>1, <1>3, <2>1, FinishKeeps
<1>4. QED
  BY <1>2, <1>3

LEMMA IssueCaptureTokenKeeps ==
  ASSUME LifecycleInv, NEW c \in Call, IssueCaptureToken(c)
  PROVE  LifecycleInv'
<1>1. pc[c] = "execute" /\ cmd[c].op = "token"
  BY DEF IssueCaptureToken, Executing
<1> DEFINE issued == {t \in InAssignment("token", cmd[c].asg) : t.cap = cmd[c].cap}
<1>2. ASSUME NEW t \in issued, Finish(c, Ok(t.id))
      PROVE  LifecycleInv'
  <2>1. t.id \in Ids
    BY DEF InAssignment, LifecycleInv, Rows, Named
  <2>2. Told(c, Ok(t.id))
    BY <1>1, <2>1 DEF Told, Ok, Refused
  <2>3. QED
    BY <1>1, <1>2, <2>2, FinishKeeps
<1>3. ASSUME issued = {}, Stage(c, {MyFact(c, 0)}, {}, "commit")
      PROVE  LifecycleInv'
  <2>1. Prior(cmd[c]) = {}
    BY <1>1, <1>3 DEF Prior, Facts, InAssignment, SubjectOps
  <2>2. Addable(c, 0, Now(c))
    BY <1>1, <2>1 DEF Addable, CollectionOps, FactOps, ConsentOps
  <2>3. MyFact(c, 0) = NewFact(c, 0, Now(c), None)
    BY DEF MyFact, NewFact
  <2>4. StagesNew(c, "commit", [facts |-> {MyFact(c, 0)}, receipts |-> {}])
    BY <1>1, <2>2, <2>3, TimeOfCall DEF StagesNew, ConsentOps
  <2>5. cmd[c].subject = None
    BY <1>1, OfCommand DEF SubjectOps
  <2>6. Ready(c, "commit", [facts |-> {MyFact(c, 0)}, receipts |-> {}])
    BY <1>1, <2>4, <2>5 DEF Ready, Owned
  <2>7. QED
    BY <1>1, <1>3, <2>6, StageKeeps DEF Open, Pending
<1>4. QED
  BY <1>2, <1>3 DEF IssueCaptureToken

LEMMA CreatePurchaseIntentKeeps ==
  ASSUME LifecycleInv, NEW c \in Call, CreatePurchaseIntent(c)
  PROVE  LifecycleInv'
<1>1. pc[c] = "execute" /\ cmd[c].op = "create" /\ Fresh(c)
  BY DEF CreatePurchaseIntent, Executing
<1>2. On("create", cmd[c].subject) = Prior(cmd[c])
  BY <1>1 DEF On, Prior, Facts, ConsentOps, SubjectOps
<1>3. ASSUME NEW i \in Prior(cmd[c]),
             Acknowledge(c, i, OriginOf(i) = {Material(cmd[c])}, "CaptureConflict")
      PROVE  LifecycleInv'
  <2>1. Acknowledge(c, i, Same(i, cmd[c]), "CaptureConflict")
    BY <1>1, <1>3 DEF Same
  <2>2. QED
    BY <1>1, <2>1, AcknowledgeKeeps DEF Refused
<1>4. ASSUME Prior(cmd[c]) = {}, Collect(c, 0)
      PROVE  LifecycleInv'
  BY <1>1, <1>4, CollectKeeps DEF CollectionOps, FactOps
<1>5. QED
  BY <1>2, <1>3, <1>4 DEF CreatePurchaseIntent

LEMMA AppendContextKeeps ==
  ASSUME LifecycleInv, NEW c \in Call, AppendContext(c)
  PROVE  LifecycleInv'
<1> DEFINE intent == cmd[c].subject
<1>1. pc[c] = "execute" /\ cmd[c].op = "context" /\ Fresh(c)
  BY DEF AppendContext, Executing
<1>2. {x \in On("context", intent) : x.cap = cmd[c].cap} = Prior(cmd[c])
  BY <1>1 DEF On, Prior, Facts, ConsentOps, SubjectOps
<1>3. ASSUME NEW k \in {"ContextAfterFinalization", "Invalidated"}, Finish(c, Refusal(k))
      PROVE  LifecycleInv'
  BY <1>1, <1>3, FinishKeeps, RefusalTold DEF Refused
<1>4. ASSUME NEW x \in Prior(cmd[c]),
             Acknowledge(c, x, OriginOf(x) = {Material(cmd[c])}, "ContextConflict")
      PROVE  LifecycleInv'
  <2>1. Acknowledge(c, x, Same(x, cmd[c]), "ContextConflict")
    BY <1>1, <1>4 DEF Same
  <2>2. QED
    BY <1>1, <2>1, AcknowledgeKeeps DEF Refused
<1>5. ASSUME Prior(cmd[c]) = {}, On("finalize", intent) = {}, On("invalidate", intent) = {},
             Collect(c, NextSeq(On("context", intent)))
      PROVE  LifecycleInv'
  <2>1. PICK i \in facts : i.id = intent
    BY <1>1, OfCommand DEF Fresh, Owned, SubjectOf, Facts, SubjectOps
  <2>2. intent \in Ids
    BY <2>1 DEF LifecycleInv, Rows, Named
  <2>3. IsFiniteSet(On("context", intent)) /\ Numbered(On("context", intent))
    BY <2>2, StreamsFinite DEF LifecycleInv, Rows, Sequences
  <2>4. NextSeq(On("context", intent)) = Cardinality(On("context", intent)) + 1
    BY <2>3, NextNumber
  <2>5. NextSeq(On("context", intent)) \in Nat
    BY <2>3, <2>4, FS_CardinalityType
  <2>6. QED
    BY <1>1, <1>5, <2>4, <2>5, CollectKeeps DEF CollectionOps, FactOps
<1>6. QED
  BY <1>2, <1>3, <1>4, <1>5 DEF AppendContext

LEMMA AppendEligibilityProfileKeeps ==
  ASSUME LifecycleInv, NEW c \in Call, AppendEligibilityProfile(c)
  PROVE  LifecycleInv'
<1> DEFINE profiles == InAssignment("profile", cmd[c].asg)
<1>1. pc[c] = "execute" /\ cmd[c].op = "profile" /\ Fresh(c)
  BY DEF AppendEligibilityProfile, Executing
<1>2. {p \in profiles : p.cap = cmd[c].cap} = Prior(cmd[c])
  BY <1>1 DEF InAssignment, Prior, Facts, ConsentOps, SubjectOps
<1>3. ASSUME NEW p \in Prior(cmd[c]),
             Acknowledge(c, p, OriginOf(p) = {Material(cmd[c])}, "EligibilityProfileConflict")
      PROVE  LifecycleInv'
  <2>1. Acknowledge(c, p, Same(p, cmd[c]), "EligibilityProfileConflict")
    BY <1>1, <1>3 DEF Same
  <2>2. QED
    BY <1>1, <2>1, AcknowledgeKeeps DEF Refused
<1>4. ASSUME Prior(cmd[c]) = {}, Collect(c, NextSeq(profiles))
      PROVE  LifecycleInv'
  <2>1. cmd[c].asg \in Assignment
    BY <1>1, OfCommand
  <2>2. IsFiniteSet(profiles) /\ Numbered(profiles)
    BY <2>1, StreamsFinite DEF LifecycleInv, Rows, Sequences
  <2>3. NextSeq(profiles) = Cardinality(profiles) + 1
    BY <2>2, NextNumber
  <2>4. NextSeq(profiles) \in Nat
    BY <2>2, <2>3, FS_CardinalityType
  <2>5. QED
    BY <1>1, <1>4, <2>3, <2>4, CollectKeeps DEF CollectionOps, FactOps
<1>5. QED
  BY <1>2, <1>3, <1>4 DEF AppendEligibilityProfile

LEMMA FinalizeKeeps ==
  ASSUME LifecycleInv, NEW c \in Call, Finalize(c)
  PROVE  LifecycleInv'
<1>1. pc[c] = "execute" /\ cmd[c].op = "finalize" /\ Fresh(c)
  BY DEF Finalize, Executing
<1>2. On("finalize", cmd[c].subject) = Prior(cmd[c])
  BY <1>1 DEF On, Prior, Facts, ConsentOps, SubjectOps
<1>3. ASSUME NEW k \in {"Invalidated", "PinNotOwned"}, Finish(c, Refusal(k))
      PROVE  LifecycleInv'
  BY <1>1, <1>3, FinishKeeps, RefusalTold DEF Refused
<1>4. ASSUME NEW f \in Prior(cmd[c]),
             Acknowledge(c, f, f.value = cmd[c].value, "FinalizationConflict")
      PROVE  LifecycleInv'
  <2>1. Acknowledge(c, f, Same(f, cmd[c]), "FinalizationConflict")
    BY <1>1, <1>4 DEF Same
  <2>2. QED
    BY <1>1, <2>1, AcknowledgeKeeps DEF Refused
<1>5. ASSUME Prior(cmd[c]) = {}, On("invalidate", cmd[c].subject) = {}, PinsBelong(cmd[c]),
             Collect(c, 0)
      PROVE  LifecycleInv'
  BY <1>1, <1>5, CollectKeeps DEF CollectionOps, FactOps
<1>6. QED
  BY <1>2, <1>3, <1>4, <1>5 DEF Finalize

(* The walk from a replacement stays in its assignment, and whatever it      *)
(* reaches is replaced by what it reaches.                                   *)
LEMMA ChainIsClosed ==
  ASSUME Rows, NEW a, NEW i \in InAssignment("create", a)
  PROVE  i.id \in Chain(i.id) /\ Closed(Chain(i.id), a)
<1> DEFINE reach == {i.id} \cup Replacements({f.subject : f \in Facts("invalidate")})
           walked == {S \in SUBSET reach : i.id \in S /\ Replacements(S) \subseteq S}
           own == {j.id : j \in InAssignment("create", a)}
<1>1. \A S \in SUBSET reach : Replacements(S) \subseteq reach
  BY DEF Replacements, Facts
<1>2. reach \in walked
  BY <1>1
<1>3. i.id \in own
  OBVIOUS
<1>4. ASSUME NEW f \in Facts("invalidate"), f.subject \in own, f.value.replacement # None
      PROVE  f.value.replacement \in own
  <2>1. PICK j \in facts : j.op = "create" /\ j.asg = a /\ j.id = f.subject
    BY <1>4 DEF InAssignment
  <2>2. PICK g \in Facts("create") : g.id = f.subject /\ g.asg = f.asg
    BY DEF Rows, Placed, Facts, IntentOps
  <2>3. g = j
    BY <2>1, <2>2 DEF Rows, Named, Facts
  <2>4. PICK h \in Facts("create") : h.id = f.value.replacement /\ h.asg = f.asg
    BY <1>4 DEF Rows, Quoted
  <2>5. QED
    BY <2>1, <2>2, <2>3, <2>4 DEF InAssignment, Facts
<1>5. reach \cap own \in walked
  <2>1. ASSUME NEW r \in Replacements(reach \cap own)
        PROVE  r \in reach \cap own
    <3>1. PICK f \in Facts("invalidate") :
            f.subject \in reach \cap own /\ r = f.value.replacement /\ r # None
      BY DEF Replacements
    <3>2. r \in own
      BY <1>4, <3>1
    <3>3. r \in reach
      BY <1>1
    <3>4. QED
      BY <3>2, <3>3
  <2>2. QED
    BY <1>3, <2>1
<1>6. Chain(i.id) = {j \in UNION walked : \A S \in walked : j \in S}
  BY DEF Chain
<1> HIDE DEF reach, walked, own
<1>7. Chain(i.id) \subseteq own
  BY <1>5, <1>6
<1>8. i.id \in Chain(i.id)
  BY <1>2, <1>6 DEF walked
<1>9. ASSUME NEW f \in Facts("invalidate"), f.subject \in Chain(i.id), f.value.replacement # None
      PROVE  f.value.replacement \in Chain(i.id)
  <2>1. \A S \in walked : f.value.replacement \in Replacements(S)
    BY <1>6, <1>9 DEF Replacements
  <2>2. \A S \in walked : f.value.replacement \in S
    BY <2>1 DEF walked
  <2>3. QED
    BY <1>2, <1>6, <2>2
<1>10. QED
  BY <1>7, <1>8, <1>9 DEF Closed, own

LEMMA InvalidateKeeps ==
  ASSUME LifecycleInv, NEW c \in Call, Invalidate(c)
  PROVE  LifecycleInv'
<1> DEFINE q == cmd[c]
           by == q.value.replacement
           named == {i \in Facts("create") : i.id = by}
<1>1. pc[c] = "execute" /\ q.op = "invalidate" /\ Fresh(c)
  BY DEF Invalidate, Executing
<1>2. On("invalidate", q.subject) = Prior(q)
  BY <1>1 DEF On, Prior, Facts, ConsentOps, SubjectOps
<1>3. ASSUME NEW f \in Prior(q), Acknowledge(c, f, OriginOf(f) = {Material(q)}, "InvalidationConflict")
      PROVE  LifecycleInv'
  <2>1. Acknowledge(c, f, Same(f, cmd[c]), "InvalidationConflict")
    BY <1>1, <1>3 DEF Same
  <2>2. QED
    BY <1>1, <2>1, AcknowledgeKeeps DEF Refused
<1>4. ASSUME NEW k \in {"UnknownRow", "InvalidationCycle"}, Finish(c, Refusal(k))
      PROVE  LifecycleInv'
  BY <1>1, <1>4, FinishKeeps, RefusalTold DEF Refused
<1>5. ASSUME Prior(q) = {}, Unreplaced(q), Collect(c, 0)
      PROVE  LifecycleInv'
  BY <1>1, <1>5, CollectKeeps DEF CollectionOps, FactOps
<1>6. ASSUME by # None, by # q.subject, named # {}, \A i \in named : i.asg = q.asg,
             q.subject \notin Chain(by)
      PROVE  Unreplaced(q)
  <2>1. PICK i \in InAssignment("create", q.asg) : i.id = by
    BY <1>6 DEF InAssignment, Facts
  <2>2. by \in Chain(by) /\ Closed(Chain(by), q.asg)
    BY <2>1, ChainIsClosed DEF LifecycleInv
  <2>3. QED
    BY <1>6, <2>2 DEF Unreplaced, Closed
<1>7. by = None => Unreplaced(q)
  BY DEF Unreplaced
<1>8. QED
  BY <1>2, <1>3, <1>4, <1>5, <1>6, <1>7 DEF Invalidate

LEMMA HistoryStates ==
  ASSUME NEW events, History(events)
  PROVE  /\ EffectiveConsentState(events) \in {"NO_CONSENT", "GRANTED", "WITHDRAWN"}
         /\ EffectiveConsentState(events) = "NO_CONSENT" <=> events = {}
         /\ EffectiveConsentState(events) # "NO_CONSENT" =>
              /\ EffectiveEvent(events) \in events
              /\ EffectiveEvent(events).action = EffectiveConsentState(events)
              /\ \A e \in events : e.seq = EffectiveEvent(events).seq => e = EffectiveEvent(events)
         /\ EffectiveConsentState(events) = "GRANTED" <=> \E g : IsGrant(g) /\ events = {g}
<1>1. CASE events = {}
  BY <1>1, StateOfHistory
<1>2. ASSUME NEW g, IsGrant(g), events = {g}
      PROVE  /\ EffectiveConsentState(events) = "GRANTED"
             /\ EffectiveEvent(events) = g /\ g.action = "GRANTED" /\ events # {}
  BY <1>2, StateOfHistory DEF IsGrant
<1>3. ASSUME NEW g, NEW w, IsGrant(g), IsWithdrawal(w), events = {g, w}
      PROVE  /\ EffectiveConsentState(events) = "WITHDRAWN"
             /\ EffectiveEvent(events) = w /\ w.action = "WITHDRAWN" /\ events # {}
             /\ \A e \in events : e.seq = w.seq => e = w
             /\ ~\E h : IsGrant(h) /\ events = {h}
  BY <1>3, StateOfHistory DEF IsGrant, IsWithdrawal
<1>4. QED
  BY <1>1, <1>2, <1>3 DEF History

LEMMA Evaluated ==
  ASSUME NEW events, History(events), NEW v
  PROVE  /\ EvaluateGrant(events, v) \in
              {"APPEND", "INVALID_TRANSITION", "NO_OP_EFFECTIVE_STATE", "UPDATE_NOT_SUPPORTED"}
         /\ EvaluateGrant(events, v) = "APPEND" => EffectiveConsentState(events) = "NO_CONSENT"
         /\ EvaluateGrant(events, v) = "NO_OP_EFFECTIVE_STATE" =>
              EffectiveConsentState(events) = "GRANTED" /\ EffectiveEvent(events).provenance = v
         /\ EvaluateWithdraw(events, v) \in
              {"APPEND", "INVALID_TRANSITION", "NO_OP_EFFECTIVE_STATE", "CORRECTION_NOT_APPLIED"}
         /\ EvaluateWithdraw(events, v) = "APPEND" => EffectiveConsentState(events) = "GRANTED"
         /\ EvaluateWithdraw(events, v) \in {"NO_OP_EFFECTIVE_STATE", "CORRECTION_NOT_APPLIED"} =>
              EffectiveConsentState(events) = "WITHDRAWN"
<1>1. CASE EffectiveConsentState(events) = "NO_CONSENT"
  BY <1>1 DEF EvaluateGrant, EvaluateWithdraw
<1>2. CASE EffectiveConsentState(events) = "WITHDRAWN"
  BY <1>2 DEF EvaluateGrant, EvaluateWithdraw
<1>3. CASE EffectiveConsentState(events) = "GRANTED"
  BY <1>3 DEF EvaluateGrant, EvaluateWithdraw
<1>4. QED
  BY <1>1, <1>2, <1>3, HistoryStates

(* The row of the effective event is the one that EffectiveId names.         *)
LEMMA EffectiveRow ==
  ASSUME LifecycleInv, NEW a \in Assignment, EventsOf(a) # {}
  PROVE  \E f \in facts : /\ f.id = EffectiveId(a) /\ f.asg = a /\ f.op \in ConsentOps
                          /\ ConsentEvent(f) = EffectiveEvent(EventsOf(a))
                          /\ f.op = "grant" <=> EffectiveConsentState(EventsOf(a)) = "GRANTED"
<1> DEFINE events == EventsOf(a)
           Row(f) == f.asg = a /\ f.op \in ConsentOps /\ f.seq = EffectiveEvent(events).seq
           row == CHOOSE f \in facts : Row(f)
<1>1. History(events) /\ EffectiveConsentState(events) # "NO_CONSENT"
  BY HistoryStates DEF LifecycleInv, Rows, Consented
<1>2. /\ EffectiveEvent(events) \in events
      /\ EffectiveEvent(events).action = EffectiveConsentState(events)
      /\ \A e \in events : e.seq = EffectiveEvent(events).seq => e = EffectiveEvent(events)
  BY <1>1, HistoryStates
<1>3. PICK f \in facts : Row(f)
  <2>1. PICK f \in {g \in facts : g.asg = a /\ g.op \in ConsentOps} :
          ConsentEvent(f) = EffectiveEvent(events)
    BY <1>2 DEF EventsOf
  <2>2. f.seq = EffectiveEvent(events).seq
    BY <2>1 DEF ConsentEvent
  <2>3. QED
    BY <2>1, <2>2
<1>4. row \in facts /\ Row(row)
  BY <1>3
<1>5. row.id = EffectiveId(a)
  BY DEF EffectiveId
<1> HIDE DEF row
<1>6. ConsentEvent(row) \in events /\ ConsentEvent(row).seq = row.seq
  BY <1>4 DEF EventsOf, ConsentEvent
<1>7. ConsentEvent(row) = EffectiveEvent(events)
  BY <1>2, <1>4, <1>6
<1>8. ConsentEvent(row).action = "GRANTED" <=> row.op = "grant"
  BY DEF ConsentEvent
<1>9. QED
  BY <1>2, <1>4, <1>5, <1>7, <1>8

(* What recordConsentCommand does, by the outcome of the evaluation.         *)
LEMMA ConsentOutcomes ==
  ASSUME LifecycleInv, NEW c \in Call, RecordConsentCommand(c)
  PROVE  LET events == EventsOf(cmd[c].asg)
             decision == IF cmd[c].op = "grant" THEN EvaluateGrant(events, cmd[c].value)
                         ELSE EvaluateWithdraw(events, cmd[c].value)
         IN  \/ decision = "APPEND"
                /\ Stage(c, {MyFact(c, NextSeq(events))}, {MyReceipt(c, c, "NEW")}, "insertEvent")
             \/ decision \in {"NO_OP_EFFECTIVE_STATE", "CORRECTION_NOT_APPLIED"}
                /\ Stage(c, {}, {MyReceipt(c, EffectiveId(cmd[c].asg), "ALIAS")}, "insertReceipt")
             \/ decision \in {"INVALID_TRANSITION", "UPDATE_NOT_SUPPORTED"}
                /\ Finish(c, Refusal(decision))
<1> DEFINE events == EventsOf(cmd[c].asg)
           decision == IF cmd[c].op = "grant" THEN EvaluateGrant(events, cmd[c].value)
                       ELSE EvaluateWithdraw(events, cmd[c].value)
           Cased ==
      CASE decision = "APPEND" ->
             Stage(c, {MyFact(c, NextSeq(events))}, {MyReceipt(c, c, "NEW")}, "insertEvent")
        [] decision \in {"NO_OP_EFFECTIVE_STATE", "CORRECTION_NOT_APPLIED"} ->
             Stage(c, {}, {MyReceipt(c, EffectiveId(cmd[c].asg), "ALIAS")}, "insertReceipt")
        [] decision \in {"INVALID_TRANSITION", "UPDATE_NOT_SUPPORTED"} ->
             Finish(c, Refusal(decision))
<1>1. cmd[c].asg \in Assignment /\ History(events)
  BY OfCommand DEF RecordConsentCommand, LifecycleInv, Rows, Consented
<1>2. decision \in {"APPEND", "NO_OP_EFFECTIVE_STATE", "CORRECTION_NOT_APPLIED",
                    "INVALID_TRANSITION", "UPDATE_NOT_SUPPORTED"}
  BY <1>1, Evaluated
<1>3. Cased
  BY DEF RecordConsentCommand
<1> HIDE DEF decision, events
<1>4. \/ decision = "APPEND"
         /\ Stage(c, {MyFact(c, NextSeq(events))}, {MyReceipt(c, c, "NEW")}, "insertEvent")
      \/ decision \in {"NO_OP_EFFECTIVE_STATE", "CORRECTION_NOT_APPLIED"}
         /\ Stage(c, {}, {MyReceipt(c, EffectiveId(cmd[c].asg), "ALIAS")}, "insertReceipt")
      \/ decision \in {"INVALID_TRANSITION", "UPDATE_NOT_SUPPORTED"} /\ Finish(c, Refusal(decision))
  BY <1>2, <1>3
<1>5. QED
  BY <1>4 DEF decision, events

LEMMA RecordConsentCommandKeeps ==
  ASSUME LifecycleInv, NEW c \in Call, RecordConsentCommand(c)
  PROVE  LifecycleInv'
<1> DEFINE q == cmd[c]
           events == EventsOf(q.asg)
           decision == IF q.op = "grant" THEN EvaluateGrant(events, q.value)
                       ELSE EvaluateWithdraw(events, q.value)
<1>1. pc[c] = "execute" /\ q.op \in ConsentOps /\ Fresh(c)
  BY DEF RecordConsentCommand
<1>2. q.asg \in Assignment /\ q.subject = None /\ q.cap = None /\ History(events)
  BY <1>1, OfCommand DEF SubjectOps, ConsentOps, LifecycleInv, Rows, Consented
<1>3. Prior(q) = {}
  BY <1>1 DEF Prior
<1>4. ASSUME decision = "APPEND",
             Stage(c, {MyFact(c, NextSeq(events))}, {MyReceipt(c, c, "NEW")}, "insertEvent")
      PROVE  LifecycleInv'
  <2>1. NextSeq(events) = Cardinality(events) + 1 /\ Cardinality(events) \in Nat
    BY <1>2, HistoryCounts, NextNumber, FS_CardinalityType
  <2>2. /\ q.op = "grant" => EffectiveConsentState(events) = "NO_CONSENT"
        /\ q.op = "withdraw" => EffectiveConsentState(events) = "GRANTED"
    BY <1>1, <1>2, <1>4, Evaluated DEF ConsentOps
  <2>3. Addable(c, NextSeq(events), Now(c))
    BY <1>1, <1>3, <2>1, <2>2 DEF Addable, ConsentOps, CollectionOps, FactOps
  <2>4. MyFact(c, NextSeq(events)) = NewFact(c, NextSeq(events), Now(c), None)
    BY DEF MyFact, NewFact
  <2>5. NextSeq(events) \in Nat /\ Now(c) \in 0..(clock + Skew) /\ q.op # "token"
    BY <1>1, <2>1, TimeOfCall DEF ConsentOps
  <2>6. StagesNew(c, "insertEvent", [facts |-> {MyFact(c, NextSeq(events))},
                                    receipts |-> {MyReceipt(c, c, "NEW")}])
    BY <2>3, <2>4, <2>5 DEF StagesNew
  <2>7. Ready(c, "insertEvent", [facts |-> {MyFact(c, NextSeq(events))},
                                receipts |-> {MyReceipt(c, c, "NEW")}])
    BY <1>1, <2>6 DEF Ready, Fresh
  <2>8. QED
    BY <1>1, <1>4, <2>7, StageKeeps DEF Open, Pending
<1>5. ASSUME decision \in {"NO_OP_EFFECTIVE_STATE", "CORRECTION_NOT_APPLIED"},
             Stage(c, {}, {MyReceipt(c, EffectiveId(q.asg), "ALIAS")}, "insertReceipt")
      PROVE  LifecycleInv'
  <2>1. /\ q.op = "grant" => /\ EffectiveConsentState(events) = "GRANTED"
                             /\ EffectiveEvent(events).provenance = q.value
        /\ q.op = "withdraw" => EffectiveConsentState(events) = "WITHDRAWN"
    BY <1>1, <1>2, <1>5, Evaluated DEF ConsentOps
  <2>2. events # {}
    BY <1>1, <1>2, <2>1, HistoryStates DEF ConsentOps
  <2>3. PICK f \in facts : /\ f.id = EffectiveId(q.asg) /\ f.asg = q.asg /\ f.op \in ConsentOps
                           /\ ConsentEvent(f) = EffectiveEvent(events)
                           /\ f.op = "grant" <=> EffectiveConsentState(events) = "GRANTED"
    BY <1>2, <2>2, EffectiveRow
  <2>4. f.op = q.op
    BY <1>1, <2>1, <2>3 DEF ConsentOps
  <2>5. q.op = "grant" => f.value = q.value
    BY <2>1, <2>3, <2>4 DEF ConsentEvent
  <2>6. f.subject = None /\ f.cap = None
    BY <2>3 DEF LifecycleInv, Rows, Named, ConsentOps, SubjectOps
  <2>7. Describes(f, q, "ALIAS")
    BY <1>1, <1>2, <2>3, <2>4, <2>5, <2>6 DEF Describes, ConsentOps
  <2>8. StagesAlias(c, [facts |-> {}, receipts |-> {MyReceipt(c, EffectiveId(q.asg), "ALIAS")}])
    BY <1>1, <1>3, <2>3, <2>7 DEF StagesAlias, Blocked, ConsentOps
  <2>9. Ready(c, "insertReceipt",
              [facts |-> {}, receipts |-> {MyReceipt(c, EffectiveId(q.asg), "ALIAS")}])
    BY <1>1, <2>8 DEF Ready, Fresh, ConsentOps
  <2>10. QED
    BY <1>1, <1>5, <2>9, StageKeeps DEF Open, Pending
<1>6. ASSUME NEW k \in {"INVALID_TRANSITION", "UPDATE_NOT_SUPPORTED"}, Finish(c, Refusal(k))
      PROVE  LifecycleInv'
  BY <1>1, <1>6, FinishKeeps, RefusalTold DEF Refused
<1>7. QED
  BY <1>4, <1>5, <1>6, ConsentOutcomes

LEMMA InsertEventKeeps ==
  ASSUME LifecycleInv, NEW c \in Call, InsertEvent(c)
  PROVE  LifecycleInv'
<1>1. pc[c] = "insertEvent" /\ Ready(c, "insertEvent", staged[c])
  BY DEF InsertEvent, LifecycleInv, CallInv, Pending
<1>2. PICK t \in began[c]..Now(c) :
        Stage(c, {[f EXCEPT !.recorded = t] : f \in staged[c].facts}, staged[c].receipts, "insertReceipt")
  BY DEF InsertEvent
<1>3. t \in 0..(clock + Skew) /\ t # None
  BY TimeOfCall, LifecycleAssumption
<1>4. cmd[c].op \in ConsentOps /\ cmd[c].op # "token"
  BY <1>1 DEF Ready, ConsentOps
<1>5. PICK seq \in Nat, at \in 0..(clock + Skew), recorded \in 0..(clock + Skew) \cup {None} :
        /\ staged[c] = [facts |-> {NewFact(c, seq, at, recorded)}, receipts |-> {MyReceipt(c, c, "NEW")}]
        /\ Addable(c, seq, at)
  BY <1>1, <1>4 DEF Ready, StagesNew
<1>6. [NewFact(c, seq, at, recorded) EXCEPT !.recorded = t] = NewFact(c, seq, at, t)
  BY DEF NewFact
<1>7. {[f EXCEPT !.recorded = t] : f \in staged[c].facts} = {NewFact(c, seq, at, t)}
  BY <1>5, <1>6
<1>8. staged[c].receipts = {MyReceipt(c, c, "NEW")}
  BY <1>5
<1>9. StagesNew(c, "insertReceipt", [facts |-> {NewFact(c, seq, at, t)},
                                    receipts |-> {MyReceipt(c, c, "NEW")}])
  <2>1. t \in 0..(clock + Skew) \cup {None}
    BY <1>3
  <2>2. t = None <=> (cmd[c].op \notin ConsentOps \/ "insertReceipt" = "insertEvent")
    BY <1>3, <1>4
  <2>3. {MyReceipt(c, c, "NEW")} = IF cmd[c].op = "token" THEN {} ELSE {MyReceipt(c, c, "NEW")}
    BY <1>4
  <2>4. QED
    BY <1>5, <2>1, <2>2, <2>3, Zenon DEF StagesNew
<1>10. Ready(c, "insertReceipt", [facts |-> {NewFact(c, seq, at, t)},
                                 receipts |-> {MyReceipt(c, c, "NEW")}])
  BY <1>1, <1>4, <1>9 DEF Ready
<1>11. QED
  BY <1>1, <1>2, <1>7, <1>8, <1>10, StageKeeps DEF Open, Pending

(* A transaction at its commit holds the receipt of its operation and key.   *)
LEMMA CommitHoldsReceipt ==
  ASSUME LifecycleInv, NEW d \in Call, pc[d] = "commit", cmd[d].op # "token"
  PROVE  HoldsReceipt(d, cmd[d].op, cmd[d].key)
<1>1. Ready(d, "commit", staged[d])
  BY DEF LifecycleInv, CallInv, Pending
<1>2. PICK id, result : staged[d].receipts = {MyReceipt(d, id, result)}
  <2>1. CASE StagesNew(d, "commit", staged[d])
    <3>1. staged[d].receipts = {MyReceipt(d, d, "NEW")}
      BY <2>1 DEF StagesNew
    <3>2. QED
      BY <3>1
  <2>2. CASE StagesAlias(d, staged[d])
    <3>1. PICK f \in facts : staged[d] = [facts |-> {}, receipts |-> {MyReceipt(d, f.id, "ALIAS")}]
      BY <2>2 DEF StagesAlias
    <3>2. staged[d].receipts = {MyReceipt(d, f.id, "ALIAS")}
      BY <3>1
    <3>3. QED
      BY <3>2
  <2>3. QED
    BY <1>1, <2>1, <2>2 DEF Ready
<1>3. QED
  BY <1>2 DEF HoldsReceipt, MyReceipt

LEMMA InsertReceiptKeeps ==
  ASSUME LifecycleInv, NEW c \in Call, InsertReceipt(c)
  PROVE  LifecycleInv'
<1>1. pc[c] = "insertReceipt" /\ Ready(c, "insertReceipt", staged[c])
  BY DEF InsertReceipt, LifecycleInv, CallInv, Pending
<1>2. CASE ReceiptsFor(cmd[c]) = {} /\ Proceed(c, "commit")
  <2>1. Ready(c, "commit", staged[c])
    BY <1>1, <1>2 DEF Ready, StagesNew
  <2>2. \A d \in Call \ {c} :
          pc[d] = "commit" /\ cmd[d].op = cmd[c].op /\ cmd[c].op # "token" => cmd[d].key # cmd[c].key
    BY CommitHoldsReceipt DEF InsertReceipt
  <2>3. QED
    BY <1>1, <1>2, <2>1, <2>2, ProceedKeeps DEF Open, Pending
<1>3. CASE Stage(c, {}, {}, "reconcile")
  BY <1>1, <1>3, AbandonKeeps
<1>4. CASE ReceiptsFor(cmd[c]) # {} /\ Finish(c, Refusal("UnexpectedRace"))
  <2>1. \E r \in ReceiptsFor(cmd[c]) : r.material # Material(cmd[c])
    BY <1>1, <1>4 DEF Ready, Material
  <2>2. Told(c, Refusal("UnexpectedRace"))
    BY <2>1 DEF Told, Refusal, Refused
  <2>3. QED
    BY <1>1, <1>4, <2>2, FinishKeeps
<1>5. QED
  BY <1>2, <1>3, <1>4 DEF InsertReceipt

LEMMA TickKeeps ==
  ASSUME LifecycleInv, Tick
  PROVE  LifecycleInv'
<1>1. /\ clock' = clock + 1 /\ clock < Scenario[scene].until
      /\ facts' = facts /\ receipts' = receipts /\ cmd' = cmd /\ scene' = scene /\ lead' = lead
      /\ pc' = pc /\ began' = began /\ staged' = staged /\ answer' = answer
  BY DEF Tick, input, rows
<1>2. clock \in Nat /\ Skew \in Nat /\ Scenario[scene].until \in Nat
  BY LifecycleAssumption DEF LifecycleInv, Shaped
<1>3. Rows'
  BY <1>1, RowsStill DEF LifecycleInv, rows
<1>4. Dated'
  BY <1>1, <1>2 DEF LifecycleInv, Dated
<1>5. Shaped'
  BY <1>1, <1>2 DEF LifecycleInv, Shaped
<1>6. Exclusive'
  BY <1>1 DEF LifecycleInv, Exclusive
<1>7. ASSUME NEW d \in Call
      PROVE  CallInv(d)'
  <2>1. CallInv(d) /\ lead[d] \in Nat /\ began[d] \in Nat
    BY <1>2 DEF LifecycleInv, Shaped
  <2>2. ASSUME NEW p, NEW s, Ready(d, p, s)
        PROVE  Ready(d, p, s)'
    <3>1. (\A seq, at : Addable(d, seq, at) <=> Addable(d, seq, at)')
      BY <1>1 DEF Addable, Prior, Facts, InAssignment, On, EventsOf, PinsBelong, Unreplaced, Closed
    <3>2. ASSUME StagesNew(d, p, s)
          PROVE  StagesNew(d, p, s)'
      <4>1. 0..(clock + Skew) \subseteq 0..(clock' + Skew)
        BY <1>1, <1>2
      <4>2. PICK seq \in Nat, at \in 0..(clock + Skew), recorded \in 0..(clock + Skew) \cup {None} :
              /\ s = [facts |-> {NewFact(d, seq, at, recorded)},
                      receipts |-> IF cmd[d].op = "token" THEN {} ELSE {MyReceipt(d, d, "NEW")}]
              /\ Addable(d, seq, at)
              /\ recorded = None <=> (cmd[d].op \notin ConsentOps \/ p = "insertEvent")
        BY <3>2 DEF StagesNew
      <4>3. NewFact(d, seq, at, recorded)' = NewFact(d, seq, at, recorded)
        BY <1>1 DEF NewFact
      <4>4. MyReceipt(d, d, "NEW")' = MyReceipt(d, d, "NEW")
        BY <1>1 DEF MyReceipt
      <4>5. Addable(d, seq, at)'
        BY <3>1, <4>2
      <4>6. at \in 0..(clock' + Skew) /\ recorded \in 0..(clock' + Skew) \cup {None}
        BY <4>1, <4>2
      <4>7. cmd'[d].op = cmd[d].op
        BY <1>1
      <4>8. QED
        BY <4>2, <4>3, <4>4, <4>5, <4>6, <4>7, Zenon DEF StagesNew
    <3>3. StagesAlias(d, s) <=> StagesAlias(d, s)'
      <4>1. facts' = facts /\ receipts' = receipts /\ cmd' = cmd
        BY <1>1
      <4>2. QED
        BY <4>1 DEF StagesAlias, Blocked, Same, OriginOf, MyReceipt, Prior, Facts
    <3>4. QED
      BY <1>1, <2>2, <3>2, <3>3 DEF Ready, Owned, SubjectOf, Facts, ReceiptsFor
  <2>3. \A a : Told(d, a)' <=> Told(d, a)
    BY <1>1 DEF Told, ReceiptsFor, Blocked, Same, OriginOf, Prior, Facts, Ids
  <2>4. pc'[d] \in Pending => Ready(d, pc[d], staged[d])'
    BY <1>1, <2>1, <2>2 DEF CallInv
  <2>5. pc'[d] = "done" => Told(d, answer[d])'
    BY <1>1, <2>1, <2>3 DEF CallInv
  <2>6. began'[d] <= clock' + lead'[d]
    BY <1>1, <1>2, <2>1 DEF CallInv
  <2>7. QED
    BY <1>1, <2>1, <2>4, <2>5, <2>6 DEF CallInv, NoRows, NoAnswer
<1>8. QED
  BY <1>3, <1>4, <1>5, <1>6, <1>7 DEF LifecycleInv

-----------------------------------------------------------------------------
(* The commit: of a new fact n with its receipt, or of an alias of f.        *)
Ends(c) ==
  /\ pc[c] = "commit" /\ pc' = [pc EXCEPT ![c] = "done"] /\ staged' = [staged EXCEPT ![c] = NoRows]
  /\ UNCHANGED <<scene, cmd, lead, began, clock>>

Adds(c, n) ==
  /\ DOMAIN n = Columns
  /\ n.op = cmd[c].op /\ n.id = c /\ n.asg = cmd[c].asg /\ n.subject = cmd[c].subject
  /\ n.cap = cmd[c].cap /\ n.value = cmd[c].value
  /\ n.seq \in Nat /\ n.at \in 0..(clock + Skew)
  /\ IF n.op \in ConsentOps THEN n.recorded \in 0..(clock + Skew) ELSE n.recorded = None
  /\ Addable(c, n.seq, n.at)
  /\ facts' = facts \cup {n}
  /\ receipts' = receipts \cup IF cmd[c].op = "token" THEN {} ELSE {MyReceipt(c, c, "NEW")}
  /\ answer' = [answer EXCEPT ![c] = Ok(c)]

Aliases(c, f) ==
  /\ cmd[c].op # "token" /\ ~Blocked(cmd[c]) /\ f \in facts /\ Describes(f, cmd[c], "ALIAS")
  /\ facts' = facts
  /\ receipts' = receipts \cup {MyReceipt(c, f.id, "ALIAS")}
  /\ answer' = [answer EXCEPT ![c] = Ok(f.id)]

LEMMA CommitShape ==
  ASSUME LifecycleInv, NEW c \in Call, Commit(c)
  PROVE  /\ Ends(c) /\ Owned(c)
         /\ cmd[c].op # "token" => ReceiptsFor(cmd[c]) = {}
         /\ (\E n : Adds(c, n)) \/ (\E f \in facts : Aliases(c, f))
<1>1. Ready(c, "commit", staged[c]) /\ pc[c] = "commit"
  BY DEF Commit, LifecycleInv, CallInv, Pending
<1>2. Ends(c)
  BY DEF Commit, Ends, Goto, input
<1>3. Owned(c) /\ (cmd[c].op # "token" => ReceiptsFor(cmd[c]) = {})
  BY <1>1 DEF Ready
<1>4. CASE StagesNew(c, "commit", staged[c])
  <2>1. PICK seq \in Nat, at \in 0..(clock + Skew), recorded \in 0..(clock + Skew) \cup {None} :
          /\ staged[c] = [facts |-> {NewFact(c, seq, at, recorded)},
                          receipts |-> IF cmd[c].op = "token" THEN {} ELSE {MyReceipt(c, c, "NEW")}]
          /\ Addable(c, seq, at)
          /\ recorded = None <=> (cmd[c].op \notin ConsentOps \/ "commit" = "insertEvent")
    BY <1>4 DEF StagesNew
  <2> DEFINE n == NewFact(c, seq, at, recorded)
  <2>2. staged[c].facts = {n}
        /\ staged[c].receipts = IF cmd[c].op = "token" THEN {} ELSE {MyReceipt(c, c, "NEW")}
    BY <2>1
  <2>3. /\ DOMAIN n = Columns
        /\ n.op = cmd[c].op /\ n.id = c /\ n.asg = cmd[c].asg /\ n.subject = cmd[c].subject
        /\ n.cap = cmd[c].cap /\ n.value = cmd[c].value
        /\ n.seq = seq /\ n.at = at /\ n.recorded = recorded
    BY DEF NewFact, Columns
  <2> HIDE DEF n
  <2>4. answer' = [answer EXCEPT ![c] = Ok(c)]
    <3>1. CASE cmd[c].op = "token"
      BY <2>2, <3>1 DEF Commit
    <3>2. CASE cmd[c].op # "token"
      <4>1. (CHOOSE r \in {MyReceipt(c, c, "NEW")} : TRUE) = MyReceipt(c, c, "NEW")
        OBVIOUS
      <4>2. MyReceipt(c, c, "NEW").fact = c
        BY DEF MyReceipt
      <4>3. staged[c].receipts = {MyReceipt(c, c, "NEW")} /\ staged[c].receipts # {}
        BY <2>2, <3>2
      <4>4. QED
        BY <4>1, <4>2, <4>3 DEF Commit
    <3>3. QED
      BY <3>1, <3>2
  <2>5. facts' = facts \cup {n}
        /\ receipts' = receipts \cup IF cmd[c].op = "token" THEN {} ELSE {MyReceipt(c, c, "NEW")}
    BY <2>2 DEF Commit
  <2>6. IF n.op \in ConsentOps THEN n.recorded \in 0..(clock + Skew) ELSE n.recorded = None
    BY <2>1, <2>3
  <2>7. n.seq \in Nat /\ n.at \in 0..(clock + Skew) /\ Addable(c, n.seq, n.at)
    BY <2>1, <2>3
  <2>8. Adds(c, n)
    BY <2>3, <2>4, <2>5, <2>6, <2>7 DEF Adds
  <2>9. QED
    BY <1>2, <1>3, <2>8
<1>5. CASE StagesAlias(c, staged[c])
  <2>1. PICK f \in facts : Describes(f, cmd[c], "ALIAS")
          /\ staged[c] = [facts |-> {}, receipts |-> {MyReceipt(c, f.id, "ALIAS")}]
    BY <1>5 DEF StagesAlias
  <2>2. staged[c].facts = {} /\ staged[c].receipts = {MyReceipt(c, f.id, "ALIAS")}
    BY <2>1
  <2>3. (CHOOSE r \in {MyReceipt(c, f.id, "ALIAS")} : TRUE) = MyReceipt(c, f.id, "ALIAS")
    OBVIOUS
  <2>4. MyReceipt(c, f.id, "ALIAS").fact = f.id
    BY DEF MyReceipt
  <2>5. answer' = [answer EXCEPT ![c] = Ok(f.id)]
    BY <2>2, <2>3, <2>4 DEF Commit
  <2>6. Aliases(c, f)
    BY <1>5, <2>1, <2>2, <2>5 DEF Commit, Aliases, StagesAlias
  <2>7. QED
    BY <1>2, <1>3, <2>6
<1>6. QED
  BY <1>1, <1>4, <1>5 DEF Ready

(* What the streams are after a fact is added.                               *)
LEMMA AddsTo ==
  ASSUME LifecycleInv, NEW c \in Call, Ends(c), NEW n, Adds(c, n)
  PROVE  /\ n \notin facts /\ \A f \in facts : f.id # c
         /\ \A op : Facts(op)' = IF n.op = op THEN Facts(op) \cup {n} ELSE Facts(op)
         /\ \A op, s : On(op, s)' =
              IF n.op = op /\ n.subject = s THEN On(op, s) \cup {n} ELSE On(op, s)
         /\ \A op, a : InAssignment(op, a)' =
              IF n.op = op /\ n.asg = a THEN InAssignment(op, a) \cup {n} ELSE InAssignment(op, a)
         /\ \A a : EventsOf(a)' =
              IF n.op \in ConsentOps /\ n.asg = a THEN EventsOf(a) \cup {ConsentEvent(n)} ELSE EventsOf(a)
<1>1. facts' = facts \cup {n} /\ n.id = c
  BY DEF Adds
<1>2. \A f \in facts : f.id # c
  BY DEF LifecycleInv, CallInv, Ends
<1>3. \A op : Facts(op)' = IF n.op = op THEN Facts(op) \cup {n} ELSE Facts(op)
  BY <1>1 DEF Facts
<1>4. \A op, s : On(op, s)' = IF n.op = op /\ n.subject = s THEN On(op, s) \cup {n} ELSE On(op, s)
  BY <1>1 DEF On
<1>5. \A op, a : InAssignment(op, a)' =
        IF n.op = op /\ n.asg = a THEN InAssignment(op, a) \cup {n} ELSE InAssignment(op, a)
  BY <1>1 DEF InAssignment
<1>6. ASSUME NEW a
      PROVE  EventsOf(a)' =
        IF n.op \in ConsentOps /\ n.asg = a THEN EventsOf(a) \cup {ConsentEvent(n)} ELSE EventsOf(a)
  <2> DEFINE rs == {g \in facts : g.asg = a /\ g.op \in ConsentOps}
  <2>1. {g \in facts' : g.asg = a /\ g.op \in ConsentOps} =
          IF n.op \in ConsentOps /\ n.asg = a THEN rs \cup {n} ELSE rs
    BY <1>1
  <2>2. {ConsentEvent(f) : f \in rs \cup {n}} = {ConsentEvent(f) : f \in rs} \cup {ConsentEvent(n)}
    OBVIOUS
  <2>3. EventsOf(a)' = {ConsentEvent(f) : f \in {g \in facts' : g.asg = a /\ g.op \in ConsentOps}}
    BY DEF EventsOf
  <2>4. EventsOf(a) = {ConsentEvent(f) : f \in rs}
    BY DEF EventsOf
  <2> HIDE DEF rs
  <2>5. QED
    BY <2>1, <2>2, <2>3, <2>4
<1>7. QED
  BY <1>1, <1>2, <1>3, <1>4, <1>5, <1>6

LEMMA AddedRow ==
  ASSUME LifecycleInv, NEW c \in Call, Ends(c), NEW n, Adds(c, n)
  PROVE  /\ n.op \in AllOps /\ n.asg \in Assignment /\ n.id = c /\ n.id \in Ids
         /\ n.op \notin SubjectOps <=> n.subject = None
         /\ n.op \notin {"token", "context", "profile"} => n.cap = None
         /\ n.op = "withdraw" => n.value \in Nat \cup {None}
<1>1. pc[c] # "idle" /\ c \in Ids
  BY DEF Ends, Ids
<1>2. QED
  BY <1>1, OfCommand DEF Adds

LEMMA AddKeepsNamed ==
  ASSUME LifecycleInv, NEW c \in Call, Ends(c), NEW n, Adds(c, n)
  PROVE  Named'
<1>1. facts' = facts \cup {n} /\ n.seq \in Nat /\ DOMAIN n = Columns
  BY DEF Adds
<1>2. Named
  BY DEF LifecycleInv, Rows
<1>3. IsFiniteSet(facts')
  BY <1>1, <1>2, FS_AddElement DEF Named
<1>4. \A f \in facts : f.id # n.id
  BY AddsTo DEF Adds
<1>5. \A f, g \in facts' : f.id = g.id => f = g
  BY <1>1, <1>2, <1>4 DEF Named
<1>6. QED
  BY <1>1, <1>2, <1>3, <1>5, AddedRow DEF Named, Ids

(* What the call hangs its row from is there, in its assignment.             *)
LEMMA OwnedSubject ==
  ASSUME LifecycleInv, NEW d \in Call, pc[d] # "idle", Owned(d), cmd[d].op \in SubjectOps
  PROVE  \E f \in facts : /\ f.op = IF cmd[d].op = "create" THEN "token" ELSE "create"
                          /\ f.id = cmd[d].subject /\ f.asg = cmd[d].asg
<1>1. cmd[d].subject # None
  BY OfCommand
<1>2. QED
  BY <1>1 DEF Owned, SubjectOf, Facts

LEMMA AddKeepsPlaced ==
  ASSUME LifecycleInv, NEW c \in Call, Ends(c), Owned(c), NEW n, Adds(c, n)
  PROVE  Placed'
<1>1. /\ facts' = facts \cup {n} /\ n.op = cmd[c].op /\ n.subject = cmd[c].subject
      /\ n.asg = cmd[c].asg /\ n.cap = cmd[c].cap
  BY DEF Adds
<1>2. Placed /\ Named
  BY DEF LifecycleInv, Rows
<1>3. \A op : Facts(op) \subseteq Facts(op)'
  BY AddsTo
<1>4. n.op \in SubjectOps =>
        \E f \in Facts(IF n.op = "create" THEN "token" ELSE "create") : f.id = n.subject /\ f.asg = n.asg
  BY <1>1, OwnedSubject DEF Facts, Ends
<1>5. \A f \in Facts("create")' : \E t \in Facts("token")' : t.id = f.subject /\ t.asg = f.asg
  BY <1>2, <1>3, <1>4, AddsTo DEF Placed, SubjectOps
<1>6. \A f \in facts' : f.op \in IntentOps =>
        \E i \in Facts("create")' : i.id = f.subject /\ i.asg = f.asg
  BY <1>1, <1>2, <1>3, <1>4 DEF Placed, SubjectOps, IntentOps
<1>7. ASSUME NEW f \in facts', NEW g \in facts', f \in Prior(g)'
      PROVE  f = g
  <2>1. \A h \in facts : h \notin Prior(cmd[c])
    BY DEF Adds, Addable
  <2>2. \A h \in facts : h \notin Prior(n)
    BY <1>1, <2>1 DEF Prior
  <2>3. \A h \in facts : n \in Prior(h)' => h \in Prior(n)
    BY DEF Prior, Facts
  <2>4. CASE f \in facts /\ g \in facts
    <3>1. f \in Prior(g)
      BY <1>7, <2>4 DEF Prior, Facts
    <3>2. QED
      BY <1>2, <2>4, <3>1 DEF Placed
  <2>5. CASE f \in facts /\ g = n
    <3>1. f \in Prior(n)
      BY <1>7, <2>5 DEF Prior, Facts
    <3>2. QED
      BY <2>2, <2>5, <3>1
  <2>6. CASE f = n /\ g \in facts
    BY <1>7, <2>2, <2>3, <2>6
  <2>7. QED
    BY <1>1, <2>4, <2>5, <2>6
<1>8. QED
  BY <1>5, <1>6, <1>7 DEF Placed

LEMMA AddKeepsSequences ==
  ASSUME LifecycleInv, NEW c \in Call, Ends(c), NEW n, Adds(c, n)
  PROVE  Sequences'
<1>1. n \notin facts /\ n.op = cmd[c].op /\ n.asg = cmd[c].asg /\ n.subject = cmd[c].subject
  BY AddsTo DEF Adds
<1>2. ASSUME NEW a \in Assignment
      PROVE  Numbered(InAssignment("profile", a))'
  <2>1. Numbered(InAssignment("profile", a)) /\ IsFiniteSet(InAssignment("profile", a))
    BY StreamsFinite DEF LifecycleInv, Rows, Sequences
  <2>2. CASE n.op = "profile" /\ n.asg = a
    <3>1. n \notin InAssignment("profile", a)
      BY <1>1 DEF InAssignment
    <3>2. n.seq = Cardinality(InAssignment("profile", a)) + 1
      BY <1>1, <2>2 DEF Adds, Addable
    <3>3. Numbered(InAssignment("profile", a) \cup {n})
      BY <2>1, <3>1, <3>2, NumberedGrows
    <3>4. InAssignment("profile", a)' = InAssignment("profile", a) \cup {n}
      BY <2>2, AddsTo
    <3>5. QED
      BY <3>3, <3>4 DEF Numbered
  <2>3. CASE ~(n.op = "profile" /\ n.asg = a)
    <3>1. InAssignment("profile", a)' = InAssignment("profile", a)
      BY <2>3, AddsTo
    <3>2. QED
      BY <2>1, <3>1 DEF Numbered
  <2>4. QED
    BY <2>2, <2>3
<1>3. ASSUME NEW i \in Ids
      PROVE  Numbered(On("context", i))'
  <2>1. Numbered(On("context", i)) /\ IsFiniteSet(On("context", i))
    BY StreamsFinite DEF LifecycleInv, Rows, Sequences
  <2>2. CASE n.op = "context" /\ n.subject = i
    <3>1. n \notin On("context", i)
      BY <1>1 DEF On
    <3>2. n.seq = Cardinality(On("context", i)) + 1
      BY <1>1, <2>2 DEF Adds, Addable
    <3>3. Numbered(On("context", i) \cup {n})
      BY <2>1, <3>1, <3>2, NumberedGrows
    <3>4. On("context", i)' = On("context", i) \cup {n}
      BY <2>2, AddsTo
    <3>5. QED
      BY <3>3, <3>4 DEF Numbered
  <2>3. CASE ~(n.op = "context" /\ n.subject = i)
    <3>1. On("context", i)' = On("context", i)
      BY <2>3, AddsTo
    <3>2. QED
      BY <2>1, <3>1 DEF Numbered
  <2>4. QED
    BY <2>2, <2>3
<1>4. QED
  BY <1>2, <1>3 DEF Sequences, Ids

LEMMA AddKeepsConsented ==
  ASSUME LifecycleInv, NEW c \in Call, Ends(c), NEW n, Adds(c, n)
  PROVE  Consented'
<1>1. /\ n.op = cmd[c].op /\ n.asg = cmd[c].asg /\ n.seq \in Nat /\ facts' = facts \cup {n}
      /\ n.at \in 0..(clock + Skew)
      /\ n.op \in ConsentOps => n.recorded \in 0..(clock + Skew)
  BY DEF Adds
<1>2. Consented /\ n.asg \in Assignment
  BY AddedRow DEF LifecycleInv, Rows
<1>3. clock + Skew \in Nat
  BY TimeOfCall, LifecycleAssumption
<1>4. ASSUME NEW a \in Assignment
      PROVE  History(EventsOf(a))'
  <2> DEFINE events == EventsOf(a)
             e == ConsentEvent(n)
  <2>1. History(events)
    BY <1>2 DEF Consented
  <2>2. /\ e.seq = n.seq /\ e.captured = n.at /\ e.recorded = n.recorded
        /\ e.action = IF n.op = "grant" THEN "GRANTED" ELSE "WITHDRAWN"
        /\ e.asserted = IF n.op = "grant" THEN None ELSE n.value
    BY DEF ConsentEvent
  <2> HIDE DEF e
  <2>3. CASE n.op = "grant" /\ n.asg = a
    <3>1. n.seq = Cardinality(events) + 1 /\ EffectiveConsentState(events) = "NO_CONSENT"
      BY <1>1, <2>3 DEF Adds, Addable, ConsentOps
    <3>2. events = {} /\ n.seq = 1
      BY <2>1, <3>1, HistoryStates, HistoryCounts
    <3>3. IsGrant(e)
      BY <1>1, <1>3, <2>2, <2>3, <3>2 DEF IsGrant, ConsentOps
    <3>4. EventsOf(a)' = {e}
      BY <2>3, <3>2, AddsTo DEF ConsentOps, e
    <3>5. QED
      BY <3>3, <3>4 DEF History
  <2>4. CASE n.op = "withdraw" /\ n.asg = a
    <3>1. n.seq = Cardinality(events) + 1 /\ EffectiveConsentState(events) = "GRANTED"
      BY <1>1, <2>4 DEF Adds, Addable, ConsentOps
    <3>2. PICK g : IsGrant(g) /\ events = {g}
      BY <2>1, <3>1, HistoryStates
    <3>3. n.seq = 2
      BY <2>1, <3>1, <3>2, HistoryCounts
    <3>4. n.value \in Nat \cup {None}
      BY <2>4, AddedRow
    <3>5. IsWithdrawal(e)
      BY <1>1, <1>3, <2>2, <2>4, <3>3, <3>4 DEF IsWithdrawal, ConsentOps
    <3>6. EventsOf(a)' = {g, e}
      <4>1. EventsOf(a)' = events \cup {e}
        BY <2>4, AddsTo DEF ConsentOps, e
      <4>2. QED
        BY <3>2, <4>1
    <3>7. QED
      BY <3>2, <3>5, <3>6 DEF History
  <2>5. CASE ~(n.op \in ConsentOps /\ n.asg = a)
    <3>1. EventsOf(a)' = EventsOf(a)
      BY <2>5, AddsTo
    <3>2. QED
      BY <2>1, <3>1
  <2>6. QED
    BY <2>3, <2>4, <2>5 DEF ConsentOps
<1>5. \A a : EventsOf(a) # {} => EventsOf(a)' # {}
  BY AddsTo
<1>6. n.op \in CollectionOps => EventsOf(n.asg) # {}
  BY <1>1 DEF Adds, Addable, Authorizing, Meant, Visible
<1>7. \A f \in facts' : f.op \in CollectionOps => EventsOf(f.asg)' # {}
  BY <1>1, <1>2, <1>5, <1>6 DEF Consented
<1>8. QED
  BY <1>4, <1>7 DEF Consented

LEMMA ReceiptOf ==
  ASSUME NEW c, NEW id, NEW result
  PROVE  LET r == MyReceipt(c, id, result) IN
         /\ DOMAIN r = ReceiptColumns /\ r.op = cmd[c].op /\ r.key = cmd[c].key /\ r.fact = id
         /\ r.result = result /\ r.material = Material(cmd[c]) /\ r.material.op = cmd[c].op
         /\ r.material.asg = cmd[c].asg /\ r.material.subject = cmd[c].subject
         /\ r.material.cap = cmd[c].cap /\ r.material.value = cmd[c].value
  BY DEF MyReceipt, Material, ReceiptColumns

LEMMA AddKeepsReceipted ==
  ASSUME LifecycleInv, NEW c \in Call, Ends(c), NEW n, Adds(c, n),
         cmd[c].op # "token" => ReceiptsFor(cmd[c]) = {}
  PROVE  Receipted'
<1> DEFINE R == MyReceipt(c, c, "NEW")
<1>1. /\ n.op = cmd[c].op /\ n.asg = cmd[c].asg /\ n.subject = cmd[c].subject
      /\ n.cap = cmd[c].cap /\ n.value = cmd[c].value /\ n.id = c
      /\ facts' = facts \cup {n}
      /\ receipts' = receipts \cup IF cmd[c].op = "token" THEN {} ELSE {R}
  BY DEF Adds
<1>2. /\ DOMAIN R = ReceiptColumns /\ R.op = cmd[c].op /\ R.key = cmd[c].key /\ R.fact = c
      /\ R.result = "NEW" /\ R.material.op = cmd[c].op
      /\ R.material.asg = cmd[c].asg /\ R.material.subject = cmd[c].subject
      /\ R.material.cap = cmd[c].cap /\ R.material.value = cmd[c].value
  BY ReceiptOf
<1> HIDE DEF R
<1>3. Receipted
  BY DEF LifecycleInv, Rows
<1>4. \A r \in receipts : r.fact # c
  BY <1>3, AddsTo DEF Receipted
<1>5. cmd[c].op # "token" => \A r \in receipts : ~(r.op = R.op /\ r.key = R.key)
  BY <1>2 DEF ReceiptsFor
<1>6. Describes(n, R.material, R.result)
  BY <1>1, <1>2 DEF Describes
<1>7. \A r, s \in receipts' : r.op = s.op /\ r.key = s.key => r = s
  BY <1>1, <1>3, <1>5 DEF Receipted
<1>8. \A r, s \in receipts' : r.fact = s.fact /\ r.result = "NEW" /\ s.result = "NEW" => r = s
  BY <1>1, <1>2, <1>3, <1>4 DEF Receipted
<1>9. \A f \in facts' : f.op # "token" => \E r \in receipts' : r.fact = f.id /\ r.result = "NEW"
  BY <1>1, <1>2, <1>3 DEF Receipted
<1>10. R.key \in Key
  BY <1>2, OfCommand DEF Ends
<1>11. \A r \in receipts' :
         /\ DOMAIN r = ReceiptColumns /\ r.key \in Key /\ r.result \in {"NEW", "ALIAS"}
         /\ r.op = r.material.op
         /\ \E f \in facts' : f.id = r.fact /\ Describes(f, r.material, r.result)
  BY <1>1, <1>2, <1>3, <1>6, <1>10 DEF Receipted
<1>12. QED
  BY <1>7, <1>8, <1>9, <1>11 DEF Receipted

LEMMA AddKeepsQuoted ==
  ASSUME LifecycleInv, NEW c \in Call, Ends(c), Owned(c), NEW n, Adds(c, n)
  PROVE  Quoted'
<1>1. /\ facts' = facts \cup {n} /\ n.op = cmd[c].op /\ n.subject = cmd[c].subject
      /\ n.asg = cmd[c].asg /\ n.value = cmd[c].value
  BY DEF Adds
<1>2. Quoted /\ Placed /\ Named
  BY DEF LifecycleInv, Rows
<1>3. \A f \in Facts("finalize")' : PinsBelong(f)'
  <2>1. \A op, s : On(op, s) \subseteq On(op, s)' /\ InAssignment(op, s) \subseteq InAssignment(op, s)'
    BY AddsTo
  <2>2. n.op = "finalize" => PinsBelong(n)
    BY <1>1 DEF Adds, Addable, PinsBelong
  <2>3. \A f \in Facts("finalize")' : PinsBelong(f)
    BY <1>2, <2>2, AddsTo DEF Quoted
  <2>4. QED
    BY <2>1, <2>3 DEF PinsBelong
<1>4. n.op = "invalidate" => Unreplaced(cmd[c])
  BY <1>1 DEF Adds, Addable
<1>5. ASSUME NEW f \in Facts("invalidate")', f.value.replacement # None
      PROVE  \E i \in Facts("create")' : i.id = f.value.replacement /\ i.asg = f.asg
  <2>1. CASE f \in Facts("invalidate")
    BY <1>2, <1>5, <2>1, AddsTo DEF Quoted
  <2>2. CASE f = n /\ n.op = "invalidate"
    <3>1. \E i \in InAssignment("create", n.asg) : i.id = n.value.replacement
      BY <1>1, <1>4, <1>5, <2>2 DEF Unreplaced
    <3>2. QED
      BY <2>2, <3>1, AddsTo DEF InAssignment, Facts
  <2>3. QED
    BY <2>1, <2>2, AddsTo
<1>6. ASSUME NEW circle \in SUBSET {f.subject : f \in Facts("invalidate")'}, circle # {}
      PROVE  \E f \in Facts("invalidate")' : f.subject \in circle /\ f.value.replacement \notin circle
  <2>1. Facts("invalidate") \subseteq Facts("invalidate")'
    BY AddsTo
  <2>2. CASE circle \in SUBSET {f.subject : f \in Facts("invalidate")}
    BY <1>2, <1>6, <2>1, <2>2 DEF Quoted, Acyclic
  <2>3. CASE n.op = "invalidate" /\ n.subject \in circle
    <3>1. None \notin circle
      <4>1. \A f \in facts' : f.op = "invalidate" => f.subject # None
        BY <1>1, AddKeepsPlaced, AddKeepsNamed, NoneIsNoId DEF Placed, Named, IntentOps, Facts, Ids
      <4>2. QED
        BY <4>1 DEF Facts
    <3>2. n \in Facts("invalidate")'
      BY <2>3, AddsTo
    <3>3. CASE n.value.replacement \notin circle
      BY <2>3, <3>2, <3>3
    <3>4. CASE n.value.replacement \in circle
      <4>1. PICK K : /\ Closed(K, n.asg) /\ n.value.replacement \in K /\ n.subject \notin K
        BY <1>1, <1>4, <2>3, <3>1, <3>4 DEF Unreplaced
      <4>2. circle \cap K # {}
        BY <3>4, <4>1
      <4>3. circle \cap K \in SUBSET {f.subject : f \in Facts("invalidate")}
        <5>1. \A s \in circle : \E f \in Facts("invalidate")' : s = f.subject
          OBVIOUS
        <5>2. \A s \in circle \cap K : \E f \in Facts("invalidate") : s = f.subject
          BY <4>1, <5>1, AddsTo
        <5>3. QED
          BY <5>2
      <4>4. PICK f \in Facts("invalidate") :
              f.subject \in circle \cap K /\ f.value.replacement \notin circle \cap K
        BY <1>2, <4>2, <4>3 DEF Quoted, Acyclic
      <4>5. f.value.replacement \notin circle
        BY <3>1, <4>1, <4>4 DEF Closed
      <4>6. QED
        BY <2>1, <4>4, <4>5
    <3>5. QED
      BY <3>3, <3>4
  <2>4. QED
    <3>1. \A s \in circle : \E f \in Facts("invalidate")' : s = f.subject
      OBVIOUS
    <3>2. CASE ~(n.op = "invalidate" /\ n.subject \in circle)
      <4>1. \A s \in circle : \E f \in Facts("invalidate") : s = f.subject
        BY <3>1, <3>2, AddsTo
      <4>2. QED
        BY <2>2, <4>1
    <3>3. QED
      BY <2>3, <3>2
<1>7. Acyclic(Facts("invalidate"))'
  BY <1>6 DEF Acyclic
<1>8. QED
  BY <1>3, <1>5, <1>7 DEF Quoted

LEMMA AddKeepsRows ==
  ASSUME LifecycleInv, NEW c \in Call, Ends(c), Owned(c), NEW n, Adds(c, n),
         cmd[c].op # "token" => ReceiptsFor(cmd[c]) = {}
  PROVE  Rows' /\ Dated'
<1>1. Dated'
  BY DEF LifecycleInv, Dated, Adds, Ends
<1>2. QED
  BY <1>1, AddKeepsNamed, AddKeepsPlaced, AddKeepsSequences, AddKeepsConsented, AddKeepsReceipted,
     AddKeepsQuoted DEF Rows

LEMMA AliasKeepsRows ==
  ASSUME LifecycleInv, NEW c \in Call, Ends(c), NEW f \in facts, Aliases(c, f),
         ReceiptsFor(cmd[c]) = {}
  PROVE  Rows' /\ Dated'
<1> DEFINE R == MyReceipt(c, f.id, "ALIAS")
<1>1. facts' = facts /\ receipts' = receipts \cup {R} /\ Describes(f, cmd[c], "ALIAS") /\ clock' = clock
  BY DEF Aliases, Ends
<1>2. /\ DOMAIN R = ReceiptColumns /\ R.op = cmd[c].op /\ R.key = cmd[c].key /\ R.fact = f.id
      /\ R.result = "ALIAS" /\ R.material.op = cmd[c].op
      /\ R.material.asg = cmd[c].asg /\ R.material.subject = cmd[c].subject
      /\ R.material.cap = cmd[c].cap /\ R.material.value = cmd[c].value
  BY ReceiptOf
<1> HIDE DEF R
<1>3. Receipted
  BY DEF LifecycleInv, Rows
<1>4. \A r \in receipts : ~(r.op = R.op /\ r.key = R.key)
  BY <1>2 DEF ReceiptsFor
<1>5. Describes(f, R.material, R.result)
  BY <1>1, <1>2 DEF Describes
<1>6. R.key \in Key
  BY <1>2, OfCommand DEF Ends
<1>7. \A r, s \in receipts' : r.op = s.op /\ r.key = s.key => r = s
  BY <1>1, <1>3, <1>4 DEF Receipted
<1>8. \A r, s \in receipts' : r.fact = s.fact /\ r.result = "NEW" /\ s.result = "NEW" => r = s
  BY <1>1, <1>2, <1>3 DEF Receipted
<1>9. \A g \in facts' : g.op # "token" => \E r \in receipts' : r.fact = g.id /\ r.result = "NEW"
  BY <1>1, <1>3 DEF Receipted
<1>10. \A r \in receipts' :
         /\ DOMAIN r = ReceiptColumns /\ r.key \in Key /\ r.result \in {"NEW", "ALIAS"}
         /\ r.op = r.material.op
         /\ \E g \in facts' : g.id = r.fact /\ Describes(g, r.material, r.result)
  BY <1>1, <1>2, <1>3, <1>5, <1>6 DEF Receipted
<1>11. Receipted'
  BY <1>7, <1>8, <1>9, <1>10 DEF Receipted
<1>12. Named' /\ Placed' /\ Sequences' /\ Consented' /\ Quoted' /\ Dated'
  <2>1. facts' = facts /\ clock' = clock
    BY <1>1
  <2>2. /\ Named <=> Named'
        /\ Placed <=> Placed'
        /\ Sequences <=> Sequences'
        /\ Consented <=> Consented'
        /\ Quoted <=> Quoted'
        /\ Dated <=> Dated'
    BY <2>1 DEF Dated, Named, Placed, Sequences, Consented, Quoted, Facts, On, InAssignment,
                EventsOf, Prior, Acyclic, PinsBelong, Numbered
  <2>3. QED
    BY <2>2 DEF LifecycleInv, Rows
<1>13. QED
  BY <1>11, <1>12 DEF Rows

(* An open transaction of another assignment finds what it found before.     *)
LEMMA Apart ==
  ASSUME LifecycleInv, NEW c \in Call, Ends(c), Owned(c), NEW n, Adds(c, n),
         NEW d \in Call \ {c}, pc[d] \in Pending, Owned(d), NEW q, q = cmd[d]
  PROVE  /\ n.asg # q.asg
         /\ Prior(q)' = Prior(q)
         /\ \A op : InAssignment(op, q.asg)' = InAssignment(op, q.asg)
         /\ EventsOf(q.asg)' = EventsOf(q.asg)
         /\ \A op \in IntentOps : q.op \in IntentOps => On(op, q.subject)' = On(op, q.subject)
         /\ Unreplaced(q) => Unreplaced(q)'
<1>1. n.op = cmd[c].op /\ n.asg = cmd[c].asg /\ n.subject = cmd[c].subject /\ facts' = facts \cup {n}
  BY DEF Adds
<1>2. n.asg # q.asg
  BY <1>1 DEF Ends, LifecycleInv, Exclusive, Pending, Open
<1>3. pc[c] # "idle" /\ pc[d] # "idle"
  BY DEF Ends, Pending
<1>4. Named /\ Placed
  BY DEF LifecycleInv, Rows
<1>5. n.op \in SubjectOps /\ q.op \in SubjectOps /\ (n.op = "create" <=> q.op = "create")
        => n.subject # q.subject
  BY <1>1, <1>2, <1>3, <1>4, OwnedSubject DEF Named
<1>6. Prior(q)' = Prior(q)
  <2>1. n \notin Prior(q)'
    <3>1. n.op \in AllOps
      BY AddedRow
    <3>2. ASSUME n \in Prior(q)'
          PROVE  FALSE
      <4>1. /\ n.op = q.op /\ n.op \notin ConsentOps
            /\ q.op \in {"token", "profile"} => n.asg = q.asg
            /\ q.op \in SubjectOps => n.subject = q.subject
        BY <3>2 DEF Prior, Facts
      <4>2. n.op \in {"token", "profile"} \/ n.op \in SubjectOps
        BY <3>1, <4>1 DEF AllOps, FactOps, SubjectOps
      <4>3. QED
        BY <1>2, <1>5, <4>1, <4>2
    <3>3. QED
      BY <3>2
  <2>2. \A f \in facts : f \in Prior(q)' <=> f \in Prior(q)
    BY <1>1 DEF Prior, Facts
  <2>3. Prior(q)' \subseteq facts' /\ Prior(q) \subseteq facts
    BY DEF Prior, Facts
  <2>4. QED
    BY <1>1, <2>1, <2>2, <2>3
<1>7. \A op : InAssignment(op, q.asg)' = InAssignment(op, q.asg)
  BY <1>2, AddsTo
<1>8. EventsOf(q.asg)' = EventsOf(q.asg)
  BY <1>2, AddsTo
<1>9. \A op \in IntentOps : q.op \in IntentOps => On(op, q.subject)' = On(op, q.subject)
  BY <1>5, AddsTo DEF IntentOps, SubjectOps
<1>10. ASSUME NEW K, Closed(K, q.asg)
       PROVE  Closed(K, q.asg)'
  <2>1. n.op = "invalidate" => n.subject \notin K
    <3>1. ASSUME n.op = "invalidate", n.subject \in K
          PROVE  FALSE
      <4>1. PICK i \in facts : i.op = "create" /\ i.id = n.subject /\ i.asg = n.asg
        BY <1>1, <1>3, <3>1, OwnedSubject DEF SubjectOps
      <4>2. PICK j \in facts : j.id = n.subject /\ j.asg = q.asg
        BY <1>10, <3>1 DEF Closed, InAssignment
      <4>3. QED
        BY <1>2, <1>4, <4>1, <4>2 DEF Named
    <3>2. QED
      BY <3>1
  <2>2. \A f \in Facts("invalidate")' :
          f.subject \in K => f.value.replacement = None \/ f.value.replacement \in K
    BY <1>10, <2>1, AddsTo DEF Closed
  <2>3. K \subseteq {i.id : i \in InAssignment("create", q.asg)'}
    BY <1>7, <1>10 DEF Closed
  <2>4. QED
    BY <2>2, <2>3 DEF Closed
<1>11. Unreplaced(q) => Unreplaced(q)'
  BY <1>7, <1>10 DEF Unreplaced
<1>12. QED
  BY <1>2, <1>6, <1>7, <1>8, <1>9, <1>11

(* Whatever stood in a call's way stands, and so does what did not.          *)
LEMMA BlockedStands ==
  ASSUME LifecycleInv, NEW c \in Call, Ends(c), NEW q,
         \/ \E n : Adds(c, n)
         \/ \E f \in facts : Aliases(c, f)
  PROVE  /\ Blocked(q) => Blocked(q)'
         /\ Prior(q)' = Prior(q) => (Blocked(q)' => Blocked(q))
<1>1. \A f \in facts : f.id # c
  BY DEF LifecycleInv, CallInv, Ends
<1>2. \A f \in facts : OriginOf(f)' = OriginOf(f)
  <2>1. ASSUME NEW f \in facts, NEW n, Adds(c, n)
        PROVE  OriginOf(f)' = OriginOf(f)
    <3>1. receipts' = receipts \cup IF cmd[c].op = "token" THEN {} ELSE {MyReceipt(c, c, "NEW")}
      BY <2>1 DEF Adds
    <3>2. MyReceipt(c, c, "NEW").fact # f.id
      BY <1>1 DEF MyReceipt
    <3>3. {s \in receipts' : s.fact = f.id /\ s.result = "NEW"} =
          {s \in receipts : s.fact = f.id /\ s.result = "NEW"}
      BY <3>1, <3>2
    <3>4. QED
      BY <3>3 DEF OriginOf
  <2>2. ASSUME NEW f \in facts, NEW g \in facts, Aliases(c, g)
        PROVE  OriginOf(f)' = OriginOf(f)
    <3>1. receipts' = receipts \cup {MyReceipt(c, g.id, "ALIAS")}
      BY <2>2 DEF Aliases
    <3>2. MyReceipt(c, g.id, "ALIAS").result # "NEW"
      BY DEF MyReceipt
    <3>3. {s \in receipts' : s.fact = f.id /\ s.result = "NEW"} =
          {s \in receipts : s.fact = f.id /\ s.result = "NEW"}
      BY <3>1, <3>2
    <3>4. QED
      BY <3>3 DEF OriginOf
  <2>3. QED
    BY <2>1, <2>2
<1>3. facts \subseteq facts'
  BY DEF Adds, Aliases
<1>4. Prior(q) \subseteq facts /\ Prior(q) \subseteq Prior(q)'
  BY <1>3 DEF Prior, Facts
<1>5. \A f \in facts : Same(f, q)' <=> Same(f, q)
  BY <1>2 DEF Same
<1>6. QED
  BY <1>4, <1>5 DEF Blocked

LEMMA ReceiptsGrow ==
  ASSUME NEW c, NEW q, NEW id, NEW result,
         receipts' = receipts \/ receipts' = receipts \cup {MyReceipt(c, id, result)}
  PROVE  /\ ReceiptsFor(q) \subseteq ReceiptsFor(q)'
         /\ \A r \in ReceiptsFor(q)' \ ReceiptsFor(q) :
              r = MyReceipt(c, id, result) /\ cmd[c].op = q.op /\ cmd[c].key = q.key
  BY DEF ReceiptsFor, MyReceipt

LEMMA BlockedAlike ==
  ASSUME NEW p, NEW q, Material(p) = Material(q)
  PROVE  Blocked(p) <=> Blocked(q)
<1>1. /\ p.op = q.op /\ p.asg = q.asg /\ p.subject = q.subject /\ p.cap = q.cap
      /\ p.value = q.value
  <2>1. /\ Material(p).op = p.op /\ Material(p).asg = p.asg /\ Material(p).subject = p.subject
        /\ Material(p).cap = p.cap /\ Material(p).value = p.value
    BY DEF Material
  <2>2. /\ Material(q).op = q.op /\ Material(q).asg = q.asg /\ Material(q).subject = q.subject
        /\ Material(q).cap = q.cap /\ Material(q).value = q.value
    BY DEF Material
  <2>3. QED
    BY <2>1, <2>2
<1>2. Prior(p) = Prior(q)
  BY <1>1 DEF Prior
<1>3. \A f : Same(f, p) <=> Same(f, q)
  BY <1>1 DEF Same
<1>4. QED
  BY <1>2, <1>3 DEF Blocked

(* What any commit does to the receipts.                                     *)
LEMMA CommittedReceipts ==
  ASSUME LifecycleInv, NEW c \in Call, Ends(c), NEW q,
         (\E n : Adds(c, n)) \/ (\E f \in facts : Aliases(c, f))
  PROVE  /\ ReceiptsFor(q) \subseteq ReceiptsFor(q)'
         /\ \A r \in ReceiptsFor(q)' \ ReceiptsFor(q) :
              /\ cmd[c].op # "token" /\ cmd[c].op = q.op /\ cmd[c].key = q.key
              /\ r.material = Material(cmd[c]) /\ r.material.asg = cmd[c].asg
         /\ ~Blocked(cmd[c])
         /\ facts \subseteq facts' /\ \A f \in facts' \ facts : f.id = c
<1>1. ASSUME NEW n, Adds(c, n)
      PROVE  /\ \/ cmd[c].op = "token" /\ receipts' = receipts
                \/ cmd[c].op # "token" /\ receipts' = receipts \cup {MyReceipt(c, c, "NEW")}
             /\ ~Blocked(cmd[c])
             /\ facts \subseteq facts' /\ \A f \in facts' \ facts : f.id = c
  BY <1>1 DEF Adds, Addable, Blocked
<1>2. ASSUME NEW f \in facts, Aliases(c, f)
      PROVE  /\ cmd[c].op # "token" /\ receipts' = receipts \cup {MyReceipt(c, f.id, "ALIAS")}
             /\ ~Blocked(cmd[c])
             /\ facts \subseteq facts' /\ \A g \in facts' \ facts : g.id = c
  BY <1>2 DEF Aliases
<1>3. PICK id, result :
        \/ receipts' = receipts
        \/ cmd[c].op # "token" /\ receipts' = receipts \cup {MyReceipt(c, id, result)}
  BY <1>1, <1>2
<1>4. receipts' = receipts \/ receipts' = receipts \cup {MyReceipt(c, id, result)}
  BY <1>3
<1>5. ReceiptsFor(q) \subseteq ReceiptsFor(q)'
  BY <1>4, ReceiptsGrow
<1>6. ASSUME NEW r \in ReceiptsFor(q)' \ ReceiptsFor(q)
      PROVE  /\ cmd[c].op # "token" /\ cmd[c].op = q.op /\ cmd[c].key = q.key
             /\ r.material = Material(cmd[c]) /\ r.material.asg = cmd[c].asg
  <2>1. r = MyReceipt(c, id, result) /\ cmd[c].op = q.op /\ cmd[c].key = q.key
    BY <1>4, <1>6, ReceiptsGrow
  <2>2. receipts' # receipts
    BY <1>6 DEF ReceiptsFor
  <2>3. r.material = Material(cmd[c]) /\ r.material.asg = cmd[c].asg
    BY <2>1, ReceiptOf
  <2>4. QED
    BY <1>3, <2>1, <2>2, <2>3
<1>7. QED
  BY <1>1, <1>2, <1>5, <1>6

LEMMA ToldStands ==
  ASSUME LifecycleInv, NEW c \in Call, Ends(c), NEW d, NEW a, Told(d, a),
         (\E n : Adds(c, n)) \/ (\E f \in facts : Aliases(c, f))
  PROVE  Told(d, a)'
<1> SUFFICES ASSUME NEW q, q = cmd[d]
             PROVE  Told(d, a)'
  OBVIOUS
<1>1. cmd' = cmd /\ cmd'[d] = q
  BY DEF Ends
<1>2. a.kind = "Ok" =>
        IF q.op = "token" THEN a.fact \in Ids
        ELSE \E r \in ReceiptsFor(q)' : r.material = Material(q) /\ r.fact = a.fact
  BY CommittedReceipts DEF Told
<1>3. a.kind \in {"IdempotencyConflict", "UnexpectedRace"} =>
        \E r \in ReceiptsFor(q)' : r.material # Material(q)
  BY CommittedReceipts DEF Told
<1>4. ASSUME a.kind \in Refused
      PROVE  Blocked(q)' /\ \A r \in ReceiptsFor(q)' : r.material # Material(q)
  <2>1. Blocked(q) /\ \A r \in ReceiptsFor(q) : r.material # Material(q)
    BY <1>4 DEF Told
  <2>2. Blocked(q)'
    BY <2>1, BlockedStands
  <2>3. ASSUME NEW r \in ReceiptsFor(q)', r.material = Material(q)
        PROVE  FALSE
    <3>1. r.material = Material(cmd[c]) /\ ~Blocked(cmd[c])
      <4>1. r \in ReceiptsFor(q)' \ ReceiptsFor(q)
        BY <2>1, <2>3
      <4>2. QED
        BY <4>1, CommittedReceipts
    <3>2. QED
      BY <2>1, <2>3, <3>1, BlockedAlike
  <2>4. QED
    BY <2>2, <2>3
<1>5. a.kind # "Ok" => a.fact = None
  BY DEF Told
<1>6. QED
  BY <1>1, <1>2, <1>3, <1>4, <1>5 DEF Told, Ids

(* Nothing that an open transaction has found true under its locks is undone *)
(* by the commit of another.                                                 *)
LEMMA ReadyStands ==
  ASSUME LifecycleInv, NEW c \in Call, Ends(c), Owned(c), NEW d \in Call \ {c}, pc[d] \in Pending,
         NEW s, Ready(d, pc[d], s), (\E n : Adds(c, n)) \/ (\E f \in facts : Aliases(c, f))
  PROVE  Ready(d, pc[d], s)'
<1> SUFFICES ASSUME NEW q, q = cmd[d], NEW p, p = pc[d]
             PROVE  Ready(d, pc[d], s)'
  OBVIOUS
<1>1. cmd' = cmd /\ cmd'[d] = q /\ clock' = clock /\ pc'[d] = p
  BY DEF Ends, LifecycleInv, Shaped
<1>2. cmd[c].asg # q.asg
  BY DEF Ends, LifecycleInv, Exclusive, Pending, Open
<1>3. Owned(d)'
  <2>1. CASE q.subject = None
    BY <1>1, <2>1 DEF Owned
  <2>2. CASE \E f \in SubjectOf(q) : f.asg = q.asg
    <3>1. SubjectOf(q) \subseteq SubjectOf(q)'
      <4>1. facts \subseteq facts'
        BY CommittedReceipts
      <4>2. QED
        BY <4>1 DEF SubjectOf, Facts
    <3>2. \E f \in SubjectOf(q)' : f.asg = q.asg
      BY <2>2, <3>1
    <3>3. QED
      BY <1>1, <3>2 DEF Owned
  <2>3. QED
    BY <2>1, <2>2 DEF Ready, Owned
<1>4. ASSUME q.op # "token", NEW r \in ReceiptsFor(q)'
      PROVE  p # "commit" /\ r.material.asg # q.asg
  <2>1. CASE r \in ReceiptsFor(q)
    BY <1>4, <2>1 DEF Ready
  <2>2. CASE r \in ReceiptsFor(q)' \ ReceiptsFor(q)
    <3>1. /\ cmd[c].op # "token" /\ cmd[c].op = q.op /\ cmd[c].key = q.key
          /\ r.material.asg = cmd[c].asg
      BY <2>2, CommittedReceipts
    <3>2. p # "commit"
      BY <3>1 DEF Ends, LifecycleInv, Exclusive
    <3>3. QED
      BY <1>2, <3>1, <3>2
  <2>3. QED
    BY <1>4, <2>1, <2>2
<1>5. /\ \A seq, at : Addable(d, seq, at) => Addable(d, seq, at)'
      /\ Prior(q)' = Prior(q)
  <2>1. ASSUME NEW n, Adds(c, n)
        PROVE  /\ \A seq, at : Addable(d, seq, at) => Addable(d, seq, at)'
               /\ Prior(q)' = Prior(q)
    <3>1. /\ Prior(q)' = Prior(q)
          /\ \A op : InAssignment(op, q.asg)' = InAssignment(op, q.asg)
          /\ EventsOf(q.asg)' = EventsOf(q.asg)
          /\ \A op \in IntentOps : q.op \in IntentOps => On(op, q.subject)' = On(op, q.subject)
          /\ Unreplaced(q) => Unreplaced(q)'
      <4>1. Owned(d)
        BY DEF Ready
      <4>2. QED
        BY <2>1, <4>1, Apart
    <3>2. PinsBelong(q) /\ q.op = "finalize" => PinsBelong(q)'
      BY <3>1 DEF PinsBelong, IntentOps
    <3>3. ASSUME NEW seq, NEW at, Addable(d, seq, at)
          PROVE  Addable(d, seq, at)'
      <4>1. /\ Prior(q)' = {}
            /\ q.op = "profile" => seq = Cardinality(InAssignment("profile", q.asg)') + 1
            /\ q.op \in ConsentOps => seq = Cardinality(EventsOf(q.asg)') + 1
            /\ q.op = "grant" => EffectiveConsentState(EventsOf(q.asg)') = "NO_CONSENT"
            /\ q.op = "withdraw" => EffectiveConsentState(EventsOf(q.asg)') = "GRANTED"
            /\ q.op \in CollectionOps => Authorizing(EventsOf(q.asg)', at)
        BY <3>1, <3>3 DEF Addable
      <4>2. /\ q.op = "context" => seq = Cardinality(On("context", q.subject)') + 1
            /\ q.op = "context" => On("finalize", q.subject)' = {}
            /\ q.op \in {"context", "finalize"} => On("invalidate", q.subject)' = {}
        BY <3>1, <3>3 DEF Addable, IntentOps
      <4>3. /\ q.op = "finalize" => PinsBelong(q)'
            /\ q.op = "invalidate" => Unreplaced(q)'
        BY <3>1, <3>2, <3>3 DEF Addable
      <4>4. QED
        BY <1>1, <4>1, <4>2, <4>3 DEF Addable
    <3>4. QED
      BY <3>1, <3>3
  <2>2. ASSUME NEW f \in facts, Aliases(c, f)
        PROVE  /\ \A seq, at : Addable(d, seq, at) => Addable(d, seq, at)'
               /\ Prior(q)' = Prior(q)
    <3>1. facts' = facts /\ cmd' = cmd
      BY <1>1, <2>2 DEF Aliases
    <3>2. QED
      BY <3>1 DEF Addable, Prior, Facts, InAssignment, On, EventsOf, PinsBelong, Unreplaced, Closed
  <2>3. QED
    BY <2>1, <2>2
<1>6. ASSUME StagesNew(d, p, s)
      PROVE  StagesNew(d, p, s)'
  <2>1. PICK seq \in Nat, at \in 0..(clock + Skew), recorded \in 0..(clock + Skew) \cup {None} :
          /\ s = [facts |-> {NewFact(d, seq, at, recorded)},
                  receipts |-> IF cmd[d].op = "token" THEN {} ELSE {MyReceipt(d, d, "NEW")}]
          /\ Addable(d, seq, at)
          /\ recorded = None <=> (cmd[d].op \notin ConsentOps \/ p = "insertEvent")
    BY <1>6 DEF StagesNew
  <2>2. NewFact(d, seq, at, recorded)' = NewFact(d, seq, at, recorded)
        /\ MyReceipt(d, d, "NEW")' = MyReceipt(d, d, "NEW")
    BY <1>1 DEF NewFact, MyReceipt
  <2>3. Addable(d, seq, at)'
    BY <1>5, <2>1
  <2>4. QED
    BY <1>1, <2>1, <2>2, <2>3, Zenon DEF StagesNew
<1>7. ASSUME StagesAlias(d, s)
      PROVE  StagesAlias(d, s)'
  <2>1. PICK f \in facts : Describes(f, q, "ALIAS")
          /\ s = [facts |-> {}, receipts |-> {MyReceipt(d, f.id, "ALIAS")}]
    BY <1>7 DEF StagesAlias
  <2>2. f \in facts'
    BY CommittedReceipts
  <2>3. MyReceipt(d, f.id, "ALIAS")' = MyReceipt(d, f.id, "ALIAS")
    BY <1>1 DEF MyReceipt
  <2>4. ~Blocked(q)'
    BY <1>5, <1>7, BlockedStands DEF StagesAlias
  <2>5. cmd'[d].op # "token" /\ Describes(f, cmd'[d], "ALIAS")
    BY <1>1, <1>7, <2>1 DEF StagesAlias
  <2>6. QED
    BY <1>1, <2>1, <2>2, <2>3, <2>4, <2>5 DEF StagesAlias
<1>8. /\ p = "insertEvent" => q.op \in ConsentOps
      /\ p = "insertReceipt" => q.op # "token"
      /\ StagesNew(d, p, s) \/ (p # "insertEvent" /\ StagesAlias(d, s))
  BY DEF Ready
<1>9. Ready(d, p, s)'
  BY <1>1, <1>3, <1>4, <1>6, <1>7, <1>8 DEF Ready
<1>10. QED
  BY <1>1, <1>9

LEMMA CommitKeeps ==
  ASSUME LifecycleInv, NEW c \in Call, Commit(c)
  PROVE  LifecycleInv'
<1>1. /\ Ends(c) /\ Owned(c)
      /\ cmd[c].op # "token" => ReceiptsFor(cmd[c]) = {}
      /\ (\E n : Adds(c, n)) \/ (\E f \in facts : Aliases(c, f))
  BY CommitShape
<1>2. /\ pc[c] = "commit" /\ pc' = [pc EXCEPT ![c] = "done"]
      /\ staged' = [staged EXCEPT ![c] = NoRows]
      /\ scene' = scene /\ cmd' = cmd /\ lead' = lead /\ began' = began /\ clock' = clock
  BY <1>1 DEF Ends
<1>3. PICK id : /\ answer' = [answer EXCEPT ![c] = Ok(id)]
                /\ IF cmd[c].op = "token" THEN id \in Ids
                   ELSE \E result : MyReceipt(c, id, result) \in receipts'
  <2>1. ASSUME NEW n, Adds(c, n)
        PROVE  /\ answer' = [answer EXCEPT ![c] = Ok(c)] /\ c \in Ids
               /\ cmd[c].op # "token" => MyReceipt(c, c, "NEW") \in receipts'
    BY <2>1 DEF Adds, Ids
  <2>2. ASSUME NEW f \in facts, Aliases(c, f)
        PROVE  /\ answer' = [answer EXCEPT ![c] = Ok(f.id)] /\ cmd[c].op # "token"
               /\ MyReceipt(c, f.id, "ALIAS") \in receipts'
    BY <2>2 DEF Aliases
  <2>3. QED
    BY <1>1, <2>1, <2>2
<1>4. Rows' /\ Dated'
  BY <1>1, AddKeepsRows, AliasKeepsRows DEF Aliases
<1>5. Shaped'
  BY <1>2, <1>3 DEF LifecycleInv, Shaped
<1>6. Exclusive'
  BY <1>2 DEF LifecycleInv, Shaped, Exclusive, Open
<1>7. CallInv(c)'
  <2>1. pc'[c] = "done" /\ staged'[c] = NoRows /\ answer'[c] = Ok(id) /\ CallInv(c)
    BY <1>2, <1>3 DEF LifecycleInv, Shaped
  <2>2. Told(c, Ok(id))'
    <3>1. Ok(id).kind = "Ok" /\ Ok(id).fact = id
      BY DEF Ok
    <3>2. CASE cmd[c].op = "token"
      BY <1>2, <1>3, <3>1, <3>2 DEF Told, Refused, Ids
    <3>3. CASE cmd[c].op # "token"
      <4>1. PICK result : MyReceipt(c, id, result) \in receipts'
        BY <1>3, <3>3
      <4>2. PICK q : q = cmd[c]
        OBVIOUS
      <4>3. /\ MyReceipt(c, id, result) \in ReceiptsFor(q)'
            /\ MyReceipt(c, id, result).material = Material(q)
            /\ MyReceipt(c, id, result).fact = id
        BY <4>1, <4>2, ReceiptOf DEF ReceiptsFor
      <4>4. \E r \in ReceiptsFor(q)' : r.material = Material(q) /\ r.fact = id
        BY <4>3
      <4>5. cmd'[c] = q /\ q.op # "token"
        BY <1>2, <3>3, <4>2
      <4>6. QED
        BY <3>1, <4>4, <4>5 DEF Told, Refused
    <3>4. QED
      BY <3>2, <3>3
  <2>3. Told(c, answer[c])'
    BY <2>1, <2>2
  <2>4. cmd'[c] \in Scenario[scene'].commands /\ began'[c] <= clock' + lead'[c]
    BY <1>2, <2>1 DEF CallInv
  <2>5. QED
    BY <2>1, <2>3, <2>4 DEF CallInv, Pending, NoRows
<1>8. ASSUME NEW d \in Call \ {c}
      PROVE  CallInv(d)'
  <2>1. /\ pc'[d] = pc[d] /\ staged'[d] = staged[d] /\ answer'[d] = answer[d] /\ CallInv(d)
    BY <1>2, <1>3 DEF LifecycleInv, Shaped
  <2>2. pc'[d] \in Pending => Ready(d, pc[d], staged[d])'
    <3>1. ASSUME pc[d] \in Pending
          PROVE  Ready(d, pc[d], staged[d])'
      <4>1. PICK s : s = staged[d]
        OBVIOUS
      <4>2. Ready(d, pc[d], s)
        BY <2>1, <3>1, <4>1 DEF CallInv
      <4>3. Ready(d, pc[d], s)'
        BY <1>1, <3>1, <4>2, ReadyStands
      <4>4. QED
        BY <2>1, <4>1, <4>3
    <3>2. QED
      BY <2>1, <3>1
  <2>3. pc'[d] = "done" => Told(d, answer[d])'
    <3>1. ASSUME pc[d] = "done"
          PROVE  Told(d, answer[d])'
      <4>1. PICK a : a = answer[d]
        OBVIOUS
      <4>2. Told(d, a)
        BY <2>1, <3>1, <4>1 DEF CallInv
      <4>3. Told(d, a)'
        BY <1>1, <4>2, ToldStands
      <4>4. QED
        BY <2>1, <4>1, <4>3
    <3>2. QED
      BY <2>1, <3>1
  <2>4. pc'[d] # "done" => \A f \in facts' : f.id # d
    <3>1. \A f \in facts' \ facts : f.id = c
      BY <1>1, CommittedReceipts
    <3>2. QED
      BY <2>1, <3>1 DEF CallInv
  <2>5. /\ pc'[d] # "idle" => cmd'[d] \in Scenario[scene'].commands
        /\ began'[d] <= clock' + lead'[d]
    BY <1>2, <2>1 DEF CallInv
  <2>6. QED
    BY <2>1, <2>2, <2>3, <2>4, <2>5 DEF CallInv, NoRows, NoAnswer
<1>9. QED
  BY <1>4, <1>5, <1>6, <1>7, <1>8 DEF LifecycleInv

-----------------------------------------------------------------------------
LEMMA InitInv == Init /\ Coherent => LifecycleInv
<1> SUFFICES ASSUME Init, Coherent
             PROVE  LifecycleInv
  OBVIOUS
<1>1. Shaped
  BY LifecycleAssumption DEF Init, Shaped
<1>2. Exclusive
  BY DEF Init, Exclusive, Open
<1>3. ASSUME NEW c \in Call
      PROVE  CallInv(c)
  <2>1. pc[c] = "idle" /\ began[c] = 0 /\ staged[c] = NoRows /\ answer[c] = NoAnswer
    BY DEF Init
  <2>2. lead[c] \in Nat /\ clock = 1
    BY LifecycleAssumption DEF Init
  <2>3. \A f \in facts : f.id # c
    BY LifecycleAssumption DEF Init
  <2>4. QED
    BY <2>1, <2>2, <2>3 DEF CallInv, Pending
<1>4. QED
  BY <1>1, <1>2, <1>3 DEF LifecycleInv, Coherent

LEMMA NextInv == LifecycleInv /\ [Next]_vars => LifecycleInv'
<1> SUFFICES ASSUME LifecycleInv, [Next]_vars
             PROVE  LifecycleInv'
  OBVIOUS
<1>1. ASSUME NEW c \in Call, Step(c)
      PROVE  LifecycleInv'
  <2>1. CASE ReplayReceipt(c)
    BY <2>1, ReplayKeeps DEF ReplayReceipt
  <2>2. CASE Reconcile(c)
    BY <2>2, ReplayKeeps DEF Reconcile
  <2>3. QED
    BY <1>1, <2>1, <2>2, LockAssignmentKeeps, LockIntentKeeps, RefuseForeignKeeps,
       IssueCaptureTokenKeeps, CreatePurchaseIntentKeeps, AppendContextKeeps,
       AppendEligibilityProfileKeeps, FinalizeKeeps, InvalidateKeeps,
       RecordConsentCommandKeeps, InsertEventKeeps, InsertReceiptKeeps, CommitKeeps DEF Step
<1>2. ASSUME NEW c \in Call, Crash(c)
      PROVE  LifecycleInv'
  BY <1>2, AbandonKeeps DEF Crash, Open
<1>3. ASSUME UNCHANGED vars
      PROVE  LifecycleInv'
  <2>1. Still /\ UNCHANGED <<pc, staged, answer>>
    BY <1>3 DEF vars, Still
  <2>2. Rows' /\ Dated'
    BY <2>1, RowsStill DEF LifecycleInv, Still, rows
  <2>3. Shaped' /\ Exclusive'
    BY <2>1 DEF LifecycleInv, Shaped, Exclusive, Still
  <2>4. ASSUME NEW d \in Call
        PROVE  CallInv(d)'
    <3>1. CallInv(d) /\ pc'[d] = pc[d] /\ staged'[d] = staged[d] /\ answer'[d] = answer[d]
      BY <2>1 DEF LifecycleInv
    <3>2. pc'[d] \in Pending => Ready(d, pc[d], staged[d])'
      BY <2>1, <3>1, CallsStill DEF CallInv
    <3>3. pc'[d] = "done" => Told(d, answer[d])'
      BY <2>1, <3>1, CallsStill DEF CallInv
    <3>4. QED
      BY <2>1, <3>1, <3>2, <3>3 DEF CallInv, Still, NoRows, NoAnswer
  <2>5. QED
    BY <2>2, <2>3, <2>4 DEF LifecycleInv
<1>4. QED
  BY <1>1, <1>2, <1>3, BeginKeeps, TickKeeps DEF Next, Terminated

LEMMA Invariance == Spec /\ Coherent => []LifecycleInv
<1>1. Init /\ Coherent => LifecycleInv
  BY InitInv
<1>2. LifecycleInv /\ [Next]_vars => LifecycleInv'
  BY NextInv
<1>3. QED
  BY <1>1, <1>2, PTL DEF Spec

-----------------------------------------------------------------------------
(* The hypothesis on the rows is met, at the least, by those of a new study. *)
LEMMA NothingIsCoherent ==
  ASSUME facts = {}, receipts = {}
  PROVE  Coherent
<1>1. /\ \A op : Facts(op) = {}
      /\ \A op, x : On(op, x) = {} /\ InAssignment(op, x) = {}
      /\ \A a : EventsOf(a) = {}
  BY DEF Facts, On, InAssignment, EventsOf
<1>2. Numbered({}) /\ History({}) /\ IsFiniteSet({})
  BY HistoryCounts, FS_EmptySet DEF History
<1>3. Acyclic({})
  BY DEF Acyclic
<1>4. QED
  BY <1>1, <1>2, <1>3 DEF Coherent, Rows, Dated, Named, Placed, Sequences, Consented, Receipted, Quoted

(* Every state the transactions reach is well typed.                         *)
THEOREM TypeCorrect == Spec /\ Coherent => []TypeOK
<1> DEFINE Bound == 0..(Scenario[scene].until + Skew)
           FactOK(f) ==
             /\ DOMAIN f = {"op", "id", "asg", "subject", "cap", "value", "seq", "at", "recorded"}
             /\ f.op \in FactOps \cup ConsentOps /\ f.id \in Ids /\ f.asg \in Assignment
             /\ f.seq \in Nat /\ f.at \in Bound /\ f.recorded \in Bound \cup {None}
           ReceiptOK(r) ==
             /\ DOMAIN r = {"op", "key", "material", "fact", "result"}
             /\ r.key \in Key /\ r.fact \in Ids /\ r.result \in {"NEW", "ALIAS"}
             /\ r.op = r.material.op
<1>1. ASSUME LifecycleInv
      PROVE  TypeOK
  <2>1. /\ Scenario[scene].until \in Nat /\ Skew \in Nat /\ clock \in 1..Scenario[scene].until
        /\ 0..(clock + Skew) \subseteq Bound
    BY <1>1, LifecycleAssumption DEF LifecycleInv, Shaped
  <2>2. began \in [Call -> Bound]
    <3>1. \A c \in Call : began[c] \in Bound
      BY <1>1, <2>1, TimeOfCall
    <3>2. QED
      BY <1>1, <3>1 DEF LifecycleInv, Shaped
  <2>3. ASSUME NEW f \in facts
        PROVE  /\ FactOK(f)
               /\ (f.recorded = None <=> f.op \notin ConsentOps)
    <3>1. /\ f.at \in 0..(clock + Skew)
          /\ IF f.op \in ConsentOps THEN f.recorded \in 0..(clock + Skew) ELSE f.recorded = None
      BY <1>1 DEF LifecycleInv, Dated
    <3>2. \A x \in 0..(clock + Skew) : x \in Bound /\ x # None
      BY <2>1, LifecycleAssumption
    <3>3. QED
      BY <1>1, <3>1, <3>2 DEF LifecycleInv, Rows, Named, Columns, AllOps
  <2>4. ASSUME NEW r \in receipts
        PROVE  ReceiptOK(r)
    BY <1>1 DEF LifecycleInv, Rows, Receipted, Named, ReceiptColumns
  <2>5. ASSUME NEW c \in Call
        PROVE  /\ \A f \in staged[c].facts : FactOK(f)
               /\ \A r \in staged[c].receipts : ReceiptOK(r)
    <3>1. CASE pc[c] \notin Pending
      <4>1. staged[c] = NoRows
        BY <1>1, <3>1 DEF LifecycleInv, CallInv
      <4>2. staged[c].facts = {} /\ staged[c].receipts = {}
        BY <4>1 DEF NoRows
      <4>3. QED
        BY <4>2
    <3>2. ASSUME StagesNew(c, pc[c], staged[c]), pc[c] # "idle"
          PROVE  /\ \A f \in staged[c].facts :
                      \E seq \in Nat, at \in Bound, recorded \in Bound \cup {None} :
                        f = NewFact(c, seq, at, recorded)
                 /\ \A r \in staged[c].receipts : r = MyReceipt(c, c, "NEW")
      <4>1. PICK seq \in Nat, at \in 0..(clock + Skew), recorded \in 0..(clock + Skew) \cup {None} :
              staged[c] = [facts |-> {NewFact(c, seq, at, recorded)},
                           receipts |-> IF cmd[c].op = "token" THEN {} ELSE {MyReceipt(c, c, "NEW")}]
        BY <3>2 DEF StagesNew
      <4>2. at \in Bound /\ recorded \in Bound \cup {None}
        BY <2>1
      <4>3. /\ staged[c].facts = {NewFact(c, seq, at, recorded)}
            /\ staged[c].receipts = IF cmd[c].op = "token" THEN {} ELSE {MyReceipt(c, c, "NEW")}
        BY <4>1
      <4>4. QED
        BY <4>2, <4>3
    <3>3. ASSUME StagesAlias(c, staged[c]), pc[c] # "idle"
          PROVE  /\ staged[c].facts = {}
                 /\ \A r \in staged[c].receipts : \E f \in facts : r = MyReceipt(c, f.id, "ALIAS")
      BY <3>3 DEF StagesAlias
    <3>4. ASSUME pc[c] # "idle", NEW seq \in Nat, NEW at \in Bound, NEW recorded \in Bound \cup {None},
                 NEW f, f = NewFact(c, seq, at, recorded)
          PROVE  FactOK(f)
      BY <1>1, <3>4, OfCommand DEF NewFact, AllOps, Ids
    <3>5. ASSUME pc[c] # "idle", NEW id \in Ids, NEW result \in {"NEW", "ALIAS"},
                 NEW r, r = MyReceipt(c, id, result)
          PROVE  ReceiptOK(r)
      BY <1>1, <3>5, OfCommand, ReceiptOf DEF ReceiptColumns
    <3> HIDE DEF FactOK, ReceiptOK, Bound
    <3>6. CASE pc[c] \in Pending
      <4>1. pc[c] # "idle" /\ Ready(c, pc[c], staged[c])
        BY <1>1, <3>6 DEF LifecycleInv, CallInv, Pending
      <4>2. c \in Ids /\ \A f \in facts : f.id \in Ids
        BY <1>1 DEF Ids, LifecycleInv, Rows, Named
      <4>3. CASE StagesNew(c, pc[c], staged[c])
        BY <3>2, <3>4, <3>5, <4>1, <4>2, <4>3
      <4>4. CASE StagesAlias(c, staged[c])
        BY <3>3, <3>5, <4>1, <4>2, <4>4
      <4>5. QED
        BY <4>1, <4>3, <4>4 DEF Ready
    <3>7. QED
      BY <3>1, <3>6
  <2>6. ASSUME NEW c \in Call
        PROVE  answer[c].fact \in Ids \cup {None}
    <3>1. CASE pc[c] # "done"
      BY <1>1, <3>1 DEF LifecycleInv, CallInv, NoAnswer
    <3>2. CASE pc[c] = "done"
      <4>1. Told(c, answer[c])
        BY <1>1, <3>2 DEF LifecycleInv, CallInv
      <4>2. \A r \in receipts : r.fact \in Ids
        BY <2>4
      <4>3. QED
        BY <4>1, <4>2 DEF Told, ReceiptsFor
    <3>3. QED
      BY <3>1, <3>2
  <2>7. QED
    BY <1>1, <2>2, <2>3, <2>4, <2>5, <2>6 DEF TypeOK, LifecycleInv, Shaped
<1>2. QED
  BY <1>1, Invariance, PTL

LEMMA AtMostOne ==
  ASSUME NEW S, \A x, y \in S : x = y
  PROVE  Cardinality(S) <= 1
<1>1. CASE S = {}
  BY <1>1, FS_EmptySet
<1>2. ASSUME NEW x \in S
      PROVE  Cardinality(S) <= 1
  <2>1. S = {x}
    BY <1>2
  <2>2. Cardinality({x}) = 1
    BY FS_Singleton
  <2>3. QED
    BY <2>1, <2>2
<1>3. QED
  BY <1>1, <1>2

(* The two row locks keep every unique index inside an assignment idle, and  *)
(* every stream numbered from 1 without a gap.                               *)
THEOREM LocksSuffice == Spec /\ Coherent => []LocksSerialize
<1>1. ASSUME LifecycleInv
      PROVE  LocksSerialize
  <2>1. Named /\ Placed /\ Sequences /\ Consented
    BY <1>1 DEF LifecycleInv, Rows
  <2>2. ASSUME NEW a \in Assignment
        PROVE  /\ Once(InAssignment("token", a)) /\ Once(InAssignment("profile", a))
               /\ Numbered(InAssignment("profile", a)) /\ Numbered(EventsOf(a))
    <3>1. Numbered(EventsOf(a)) /\ Numbered(InAssignment("profile", a))
      BY <2>1, HistoryCounts DEF Consented, Sequences
    <3>2. ASSUME NEW op \in {"token", "profile"}, NEW f \in InAssignment(op, a),
                 NEW g \in InAssignment(op, a), f.cap = g.cap
          PROVE  f = g
      <4>1. f \in Prior(g)
        BY <3>2 DEF InAssignment, Prior, Facts, ConsentOps, SubjectOps
      <4>2. QED
        BY <2>1, <4>1 DEF Placed, InAssignment
    <3>3. QED
      BY <3>1, <3>2 DEF Once
  <2>3. ASSUME NEW op \in {"create", "finalize", "invalidate"}, NEW s
        PROVE  Cardinality(On(op, s)) <= 1
    <3>1. ASSUME NEW f \in On(op, s), NEW g \in On(op, s)
          PROVE  f = g
      <4>1. f \in Prior(g)
        BY DEF On, Prior, Facts, ConsentOps
      <4>2. QED
        BY <2>1, <4>1 DEF Placed, On
    <3>2. QED
      BY <3>1, AtMostOne
  <2>4. ASSUME NEW i \in Facts("create")
        PROVE  Once(On("context", i.id)) /\ Numbered(On("context", i.id))
    <3>1. ASSUME NEW f \in On("context", i.id), NEW g \in On("context", i.id), f.cap = g.cap
          PROVE  f = g
      <4>1. f \in Prior(g)
        BY <3>1 DEF On, Prior, Facts, ConsentOps
      <4>2. QED
        BY <2>1, <4>1 DEF Placed, On
    <3>2. i.id \in Ids
      BY <2>1 DEF Named, Facts
    <3>3. QED
      BY <2>1, <3>1, <3>2 DEF Once, Sequences
  <2>5. QED
    BY <2>2, <2>3, <2>4 DEF LocksSerialize
<1>2. QED
  BY <1>1, Invariance, PTL

(* Fact and origin receipt are one commit, and a receipt never acknowledges  *)
(* another fact than the one its material describes.                         *)
THEOREM ReceiptsTrue == Spec /\ Coherent => []ReceiptsCoherent
<1>1. ASSUME LifecycleInv
      PROVE  ReceiptsCoherent
  <2>1. Receipted
    BY <1>1 DEF LifecycleInv, Rows
  <2>2. ASSUME NEW f \in facts, f.op # "token"
        PROVE  \E r \in receipts : /\ r.fact = f.id /\ r.result = "NEW"
                 /\ \A s \in receipts : s.fact = f.id /\ s.result = "NEW" => s = r
    <3>1. PICK r \in receipts : r.fact = f.id /\ r.result = "NEW"
      BY <2>1, <2>2 DEF Receipted
    <3>2. \A s \in receipts : s.fact = f.id /\ s.result = "NEW" => s = r
      BY <2>1, <3>1 DEF Receipted
    <3>3. QED
      BY <3>1, <3>2
  <2>3. ASSUME NEW r \in receipts
        PROVE  \E f \in ById(r.fact) :
                 /\ f.op = r.op /\ f.asg = r.material.asg
                 /\ f.subject = r.material.subject /\ f.cap = r.material.cap
                 /\ f.value = r.material.value \/ (f.op = "withdraw" /\ r.result = "ALIAS")
    BY <2>1 DEF Receipted, Describes, ById
  <2>4. QED
    BY <2>2, <2>3 DEF ReceiptsCoherent
<1>2. QED
  BY <1>1, Invariance, PTL

(* A key names one result for ever, and of two identical calls one is never  *)
(* acknowledged while the other is told that it conflicts.                   *)
THEOREM OneResultPerKey == Spec /\ Coherent => []KeysName
<1>1. ASSUME LifecycleInv
      PROVE  KeysName
  <2>1. Receipted
    BY <1>1 DEF LifecycleInv, Rows
  <2>2. ASSUME NEW c \in Call, answer[c].kind # "none"
        PROVE  Told(c, answer[c])
    <3>1. pc[c] = "done"
      BY <1>1, <2>2 DEF LifecycleInv, CallInv, NoAnswer
    <3>2. QED
      BY <1>1, <3>1 DEF LifecycleInv, CallInv
  <2>3. ASSUME NEW c \in Call, NEW d \in Call, answer[c].kind = "Ok",
               cmd[c].op = cmd[d].op, cmd[c].key = cmd[d].key, cmd[c].op # "token"
        PROVE  /\ \E f \in ById(answer[c].fact) :
                    /\ f.asg = cmd[c].asg /\ f.subject = cmd[c].subject /\ f.cap = cmd[c].cap
                    /\ f.value = cmd[c].value \/ f.op = "withdraw"
               /\ answer[d].kind = "Ok" => answer[d].fact = answer[c].fact
               /\ cmd[c] = cmd[d] => answer[d].kind \notin Conflicts
    <3>1. PICK r \in ReceiptsFor(cmd[c]) : r.material = Material(cmd[c]) /\ r.fact = answer[c].fact
      BY <2>2, <2>3 DEF Told
    <3>2. r \in receipts /\ \A s \in ReceiptsFor(cmd[d]) : s = r
      BY <2>1, <2>3, <3>1 DEF ReceiptsFor, Receipted
    <3>3. PICK f \in facts : f.id = r.fact /\ Describes(f, r.material, r.result)
      BY <2>1, <3>2 DEF Receipted
    <3>4. /\ f.asg = cmd[c].asg /\ f.subject = cmd[c].subject /\ f.cap = cmd[c].cap
          /\ f.value = cmd[c].value \/ f.op = "withdraw"
      BY <3>1, <3>3 DEF Describes, Material
    <3>5. answer[d].kind = "Ok" => answer[d].fact = answer[c].fact
      BY <2>2, <2>3, <3>1, <3>2 DEF Told
    <3>6. ASSUME cmd[c] = cmd[d], answer[d].kind \in Conflicts
          PROVE  FALSE
      <4>1. Told(d, answer[d])
        BY <2>2, <3>6 DEF Conflicts
      <4>2. r \in ReceiptsFor(cmd[d]) /\ r.material = Material(cmd[d])
        BY <3>1, <3>6
      <4>3. QED
        BY <3>2, <3>6, <4>1, <4>2 DEF Told, Conflicts, Refused
    <3>7. QED
      BY <3>1, <3>3, <3>4, <3>5, <3>6 DEF ById
  <2>4. QED
    BY <2>3 DEF KeysName
<1>2. QED
  BY <1>1, Invariance, PTL

(* Pins and replacements stay within their intent and their assignment, and  *)
(* chains of replacements end, in whatever order the intents were replaced.  *)
THEOREM QuotesStay == Spec /\ Coherent => []QuotesCoherent
<1>1. ASSUME LifecycleInv
      PROVE  QuotesCoherent
  <2> DEFINE replaced == {f \in Facts("invalidate") : f.value.replacement # None}
  <2>1. Named /\ Placed /\ Quoted
    BY <1>1 DEF LifecycleInv, Rows
  <2>2. ASSUME NEW f \in Facts("finalize")
        PROVE  /\ \E x \in On("context", f.subject) : x.id = f.value.context
               /\ \E p \in InAssignment("profile", f.asg) : p.id = f.value.profile
               /\ \E i \in Facts("create") : i.id = f.subject /\ i.asg = f.asg
    BY <2>1 DEF Quoted, PinsBelong, Placed, Facts, IntentOps
  <2>3. ASSUME NEW f \in replaced, NEW i \in ById(f.value.replacement)
        PROVE  i.asg = f.asg
    BY <2>1 DEF Quoted, ById, Named, Facts
  <2>4. ASSUME NEW circle \in (SUBSET {f.subject : f \in replaced}) \ {{}}
        PROVE  \E f \in replaced : f.subject \in circle /\ f.value.replacement \notin circle
    <3>1. \A s \in circle : \E f \in replaced : s = f.subject
      OBVIOUS
    <3>2. circle \in SUBSET {f.subject : f \in Facts("invalidate")}
      BY <3>1
    <3>3. PICK f \in Facts("invalidate") : f.subject \in circle /\ f.value.replacement \notin circle
      <4>1. circle # {} /\ Acyclic(Facts("invalidate"))
        BY <2>1, <2>4 DEF Quoted
      <4> HIDE DEF replaced
      <4>2. QED
        BY <3>2, <4>1 DEF Acyclic
    <3>4. PICK g \in replaced : g.subject = f.subject
      BY <3>1, <3>3
    <3>5. f \in Prior(g)
      BY <3>4 DEF Prior, Facts, ConsentOps
    <3>6. f = g
      BY <2>1, <3>5 DEF Placed, Facts
    <3>7. QED
      BY <3>3, <3>6
  <2>5. QED
    BY <2>2, <2>3, <2>4 DEF QuotesCoherent
<1>2. QED
  BY <1>1, Invariance, PTL

-----------------------------------------------------------------------------
(* A fact that becomes visible is one that a commit adds.                    *)
LEMMA OnlyCommitsAdd ==
  ASSUME LifecycleInv, [Next]_vars
  PROVE  \/ UNCHANGED facts
         \/ \E c \in Call : \E n : Ends(c) /\ Owned(c) /\ Adds(c, n)
<1>1. ASSUME NEW c \in Call, Step(c), facts' # facts
      PROVE  Commit(c)
  <2>1. /\ \A a : ~Finish(c, a)
        /\ \A l : ~Proceed(c, l)
        /\ \A fs, rs, l : ~Stage(c, fs, rs, l)
    BY <1>1 DEF Finish, Proceed, Stage, rows
  <2>2. ~Replay(c)
    BY <2>1 DEF Replay
  <2>3. \A seq : ~Collect(c, seq)
    BY <2>1, Zenon DEF Collect
  <2>4. \A f, same, k : ~Acknowledge(c, f, same, k)
    BY <2>1, Zenon DEF Acknowledge
  <2>5. /\ ~LockAssignment(c) /\ ~LockIntent(c) /\ ~RefuseForeign(c) /\ ~ReplayReceipt(c)
        /\ ~Reconcile(c) /\ ~InsertEvent(c) /\ ~InsertReceipt(c)
    BY <2>1, <2>2, Zenon DEF LockAssignment, LockIntent, RefuseForeign, ReplayReceipt, Reconcile,
                             InsertEvent, InsertReceipt
  <2>6. ~IssueCaptureToken(c) /\ ~CreatePurchaseIntent(c) /\ ~AppendEligibilityProfile(c)
    BY <2>1, <2>3, <2>4, Zenon DEF IssueCaptureToken, CreatePurchaseIntent, AppendEligibilityProfile
  <2>7. ~AppendContext(c) /\ ~Finalize(c) /\ ~Invalidate(c)
    BY <2>1, <2>3, <2>4, Zenon DEF AppendContext, Finalize, Invalidate
  <2>8. ~RecordConsentCommand(c)
    BY <1>1, <2>1, ConsentOutcomes
  <2>9. QED
    BY <1>1, <2>5, <2>6, <2>7, <2>8 DEF Step
<1>2. ASSUME NEW c \in Call, Commit(c), facts' # facts
      PROVE  \E n : Ends(c) /\ Owned(c) /\ Adds(c, n)
  BY <1>2, CommitShape DEF Aliases
<1>3. ASSUME facts' # facts
      PROVE  \E c \in Call : Step(c)
  BY <1>3 DEF Next, Begin, Crash, Tick, Terminated, Stage, rows, vars
<1>4. QED
  BY <1>1, <1>2, <1>3

(* When clocks agree, who may collect at an instant does so under a grant    *)
(* that stands: the withdrawal of it would have been seen, and not be later. *)
LEMMA AuthorizedStands ==
  ASSUME Skew = 0, NEW events, History(events), NEW at \in Nat, Authorizing(events, at)
  PROVE  EffectiveConsentState(events) = "GRANTED" /\ EffectiveEvent(events).captured <= at
<1>1. \A e \in events : e.captured <= at /\ e.recorded <= at
  <2>1. at + Skew = at
    OBVIOUS
  <2>2. QED
    BY <2>1 DEF Authorizing
<1>2. Visible(events, at) = events
  BY <1>1 DEF Visible
<1>3. PICK g \in events : /\ g.action = "GRANTED" /\ g.captured <= at
                          /\ \A w \in events : w.seq = g.seq + 1 => at < w.captured
  BY <1>2 DEF Authorizing, Meant
<1>4. ASSUME NEW h, IsGrant(h), events = {h}
      PROVE  EffectiveConsentState(events) = "GRANTED" /\ EffectiveEvent(events).captured <= at
  BY <1>3, <1>4, StateOfHistory
<1>5. ASSUME NEW h, NEW w, IsGrant(h), IsWithdrawal(w), events = {h, w}
      PROVE  FALSE
  <2>1. g = h
    BY <1>3, <1>5 DEF IsWithdrawal
  <2>2. w.seq = g.seq + 1 /\ w.captured \in Nat
    BY <1>5, <2>1 DEF IsGrant, IsWithdrawal
  <2>3. QED
    BY <1>1, <1>3, <1>5, <2>2
<1>6. QED
  BY <1>3, <1>4, <1>5 DEF History

LEMMA CollectedUnderGrant ==
  ASSUME Skew = 0, LifecycleInv, NEW c \in Call, Ends(c), NEW n, Adds(c, n), n.op \in CollectionOps
  PROVE  /\ EffectiveConsentState(EventsOf(n.asg)) = "GRANTED"
         /\ EffectiveEvent(EventsOf(n.asg)).captured <= n.at
<1>1. Authorizing(EventsOf(n.asg), n.at) /\ n.at \in 0..(clock + Skew)
  BY DEF Adds, Addable
<1>2. History(EventsOf(n.asg))
  BY AddedRow DEF LifecycleInv, Rows, Consented
<1>3. QED
  BY <1>1, <1>2, AuthorizedStands

(* Consent Model A, where the clocks of the processes agree (the run         *)
(* IntentClockLead shows that it needs them to): no fact is committed once   *)
(* the withdrawal is, nor at a time before the grant.                        *)
THEOREM CollectionEnds ==
  ASSUME Skew = 0
  PROVE  Spec /\ Coherent => NoCollectionAfterWithdrawal
<1> DEFINE Gated == \A f \in facts' \ facts : f.op \in CollectionOps =>
                      /\ EffectiveConsentState(EventsOf(f.asg)) = "GRANTED"
                      /\ EffectiveEvent(EventsOf(f.asg)).captured <= f.at
<1>1. ASSUME LifecycleInv, [Next]_vars
      PROVE  Gated
  <2>1. ASSUME NEW c \in Call, NEW n, Ends(c), Adds(c, n)
        PROVE  Gated
    <3>1. facts' = facts \cup {n}
      BY <2>1 DEF Adds
    <3>2. QED
      BY <1>1, <2>1, <3>1, CollectedUnderGrant
  <2>2. QED
    BY <1>1, <2>1, OnlyCommitsAdd
<1>2. LifecycleInv /\ [Next]_vars => [Gated]_vars
  BY <1>1
<1>3. QED
  BY <1>2, Invariance, PTL DEF Spec, NoCollectionAfterWithdrawal

-----------------------------------------------------------------------------
(* The transactions implement the atomic record: what a commit adds is one   *)
(* step of it, and nothing else shows.                                       *)
IntentOf(i) ==
  [id |-> i.id, asg |-> i.asg, versions |-> Cardinality(On("context", i.id)),
   pinned |-> On("finalize", i.id) # {}, void |-> On("invalidate", i.id) # {}]
Consents == [a \in Assignment |-> EffectiveConsentState(EventsOf(a))]
Profiles == [a \in Assignment |-> Cardinality(InAssignment("profile", a))]
Intents == {IntentOf(i) : i \in Facts("create")}

LEMMA StepShape ==
  ASSUME LifecycleInv, NEW c \in Call, Ends(c), NEW n, Adds(c, n)
  PROVE  /\ n.op \notin ConsentOps => Consents' = Consents
         /\ n.op # "profile" => Profiles' = Profiles
         /\ n.op \notin IntentOps \cup {"create"} => Intents' = Intents
<1>1. n.op \notin ConsentOps => \A a : EventsOf(a)' = EventsOf(a)
  BY AddsTo
<1>2. n.op # "profile" => \A a : InAssignment("profile", a)' = InAssignment("profile", a)
  BY AddsTo
<1>3. n.op \notin IntentOps \cup {"create"} =>
        /\ Facts("create")' = Facts("create")
        /\ \A op \in IntentOps : \A i : On(op, i)' = On(op, i)
  BY AddsTo
<1>4. ASSUME n.op \notin IntentOps \cup {"create"}
      PROVE  \A i : IntentOf(i)' = IntentOf(i)
  BY <1>3, <1>4 DEF IntentOf, IntentOps
<1>5. QED
  BY <1>1, <1>2, <1>3, <1>4 DEF Consents, Profiles, Intents

LEMMA ConsentMaps ==
  ASSUME LifecycleInv, NEW c \in Call, Ends(c), NEW n, Adds(c, n), n.op \in ConsentOps
  PROVE  Record!Next
<1> DEFINE a == n.asg
           events == EventsOf(a)
<1>1. a \in Assignment /\ History(events) /\ History(events)'
  BY AddedRow, AddKeepsConsented DEF LifecycleInv, Rows, Consented
<1>2. events' = events \cup {ConsentEvent(n)} /\ \A b : b # a => EventsOf(b)' = EventsOf(b)
  BY AddsTo
<1>3. EffectiveConsentState(events) = IF n.op = "grant" THEN "NO_CONSENT" ELSE "GRANTED"
  BY DEF Adds, Addable, ConsentOps
<1>4. ConsentEvent(n).action = IF n.op = "grant" THEN "GRANTED" ELSE "WITHDRAWN"
  BY DEF ConsentEvent
<1>5. EffectiveConsentState(events') = IF n.op = "grant" THEN "GRANTED" ELSE "WITHDRAWN"
  <2>1. CASE n.op = "grant"
    <3>1. events' = {ConsentEvent(n)}
      BY <1>1, <1>2, <1>3, <2>1, HistoryStates
    <3>2. QED
      BY <1>1, <1>4, <2>1, <3>1, StateOfHistory DEF History, IsWithdrawal
  <2>2. CASE n.op # "grant"
    <3>1. PICK g : IsGrant(g) /\ events = {g}
      BY <1>1, <1>3, <2>2, HistoryStates
    <3>2. events' = {g, ConsentEvent(n)} /\ ConsentEvent(n) # g
      BY <1>2, <1>4, <2>2, <3>1 DEF IsGrant
    <3>3. QED
      BY <1>1, <1>4, <2>2, <3>1, <3>2, StateOfHistory DEF History, IsGrant, IsWithdrawal
  <2>3. QED
    BY <2>1, <2>2
<1>6. Consents' = [Consents EXCEPT ![a] = IF n.op = "grant" THEN "GRANTED" ELSE "WITHDRAWN"]
  BY <1>1, <1>2, <1>5 DEF Consents
<1>7. Profiles' = Profiles /\ Intents' = Intents
  BY StepShape DEF ConsentOps, IntentOps
<1>8. Consents[a] = IF n.op = "grant" THEN "NO_CONSENT" ELSE "GRANTED"
  BY <1>1, <1>3 DEF Consents
<1>9. CASE n.op = "grant"
  <2>1. Record!Grant(a)
    BY <1>6, <1>7, <1>8, <1>9 DEF Record!Grant, Consents, Profiles, Intents, IntentOf
  <2>2. QED
    BY <1>1, <2>1 DEF Record!Next
<1>10. CASE n.op # "grant"
  <2>1. Record!Withdraw(a)
    BY <1>6, <1>7, <1>8, <1>10 DEF Record!Withdraw, Consents, Profiles, Intents, IntentOf
  <2>2. QED
    BY <1>1, <2>1 DEF Record!Next
<1>11. QED
  BY <1>9, <1>10

LEMMA ProfileMaps ==
  ASSUME Skew = 0, LifecycleInv, NEW c \in Call, Ends(c), NEW n, Adds(c, n), n.op = "profile"
  PROVE  Record!Next
<1> DEFINE a == n.asg
           S == InAssignment("profile", a)
<1>1. a \in Assignment /\ IsFiniteSet(S) /\ n \notin S
  <2>1. Rows
    BY DEF LifecycleInv
  <2>2. a \in Assignment /\ n \notin facts
    BY AddedRow, AddsTo
  <2>3. QED
    BY <2>1, <2>2, StreamsFinite DEF InAssignment
<1>2. S' = S \cup {n} /\ \A b : b # a => InAssignment("profile", b)' = InAssignment("profile", b)
  BY AddsTo
<1>3. Cardinality(S)' = Cardinality(S) + 1
  BY <1>1, <1>2, FS_AddElement
<1>4. Profiles' = [Profiles EXCEPT ![a] = @ + 1]
  BY <1>1, <1>2, <1>3 DEF Profiles
<1>5. Consents[a] = "GRANTED" /\ Consents' = Consents /\ Intents' = Intents
  BY <1>1, CollectedUnderGrant, StepShape DEF Consents, CollectionOps, FactOps, ConsentOps, IntentOps
<1>6. Record!Describe(a)
  BY <1>4, <1>5 DEF Record!Describe, Consents, Profiles, Intents, IntentOf
<1>7. QED
  BY <1>1, <1>6 DEF Record!Next

LEMMA CreateMaps ==
  ASSUME Skew = 0, LifecycleInv, NEW c \in Call, Ends(c), NEW n, Adds(c, n), n.op = "create"
  PROVE  Record!Next
<1> DEFINE a == n.asg
           new == [id |-> c, asg |-> a, versions |-> 0, pinned |-> FALSE, void |-> FALSE]
<1>1. a \in Assignment /\ n.id = c /\ c \in Ids /\ \A f \in facts : f.id # c
  BY AddedRow, AddsTo
<1>2. Facts("create")' = Facts("create") \cup {n}
  BY AddsTo
<1>3. \A op \in IntentOps : \A i : On(op, i)' = On(op, i)
  BY AddsTo DEF IntentOps
<1>4. \A op \in IntentOps : On(op, c) = {}
  BY <1>1 DEF On, LifecycleInv, Rows, Placed, Facts
<1>5. \A i : IntentOf(i)' = IntentOf(i)
  BY <1>3 DEF IntentOf, IntentOps
<1>6. IntentOf(n) = new
  BY <1>1, <1>4, FS_EmptySet DEF IntentOf, IntentOps
<1>7. Intents' = Intents \cup {new}
  <2>1. Intents' = {IntentOf(i)' : i \in Facts("create")'}
    BY DEF Intents
  <2>2. Intents' = {IntentOf(i) : i \in Facts("create") \cup {n}}
    BY <1>2, <1>5, <2>1
  <2> HIDE DEF new
  <2>3. QED
    BY <1>6, <2>2 DEF Intents
<1>8. \A i \in Intents : i.id # c
  BY <1>1 DEF Intents, IntentOf, Facts
<1>9. Consents[a] = "GRANTED" /\ Consents' = Consents /\ Profiles' = Profiles
  BY <1>1, CollectedUnderGrant, StepShape DEF Consents, CollectionOps, FactOps, ConsentOps, IntentOps
<1>10. Record!Create(a, c)
  BY <1>7, <1>8, <1>9 DEF Record!Create, Consents, Profiles, Intents, IntentOf
<1>11. QED
  BY <1>1, <1>10 DEF Record!Next

(* A fact that hangs from an intent changes that intent and no other.        *)
LEMMA IntentBecomes ==
  ASSUME Skew = 0, LifecycleInv, NEW c \in Call, Ends(c), Owned(c), NEW n, Adds(c, n), n.op \in IntentOps
  PROVE  \E i \in Facts("create") :
           /\ i.id = n.subject /\ i.asg = n.asg /\ IntentOf(i) \in Intents
           /\ Intents' = (Intents \ {IntentOf(i)}) \cup {IntentOf(i)'}
           /\ Consents[i.asg] = "GRANTED" /\ Consents' = Consents /\ Profiles' = Profiles
<1>1. n.op = cmd[c].op /\ n.subject = cmd[c].subject /\ n.asg = cmd[c].asg /\ n.asg \in Assignment
  BY AddedRow DEF Adds
<1>2. PICK i \in Facts("create") : i.id = n.subject /\ i.asg = n.asg
  BY <1>1, OwnedSubject DEF Ends, SubjectOps, IntentOps, Facts
<1>3. Facts("create")' = Facts("create")
  BY AddsTo DEF IntentOps
<1>4. ASSUME NEW j \in Facts("create"), j # i
      PROVE  IntentOf(j)' = IntentOf(j) /\ IntentOf(j) # IntentOf(i)
  <2>1. j.id # i.id
    BY <1>2, <1>4 DEF LifecycleInv, Rows, Named, Facts
  <2>2. \A op : On(op, j.id)' = On(op, j.id)
    BY <1>2, <2>1, AddsTo
  <2>3. QED
    BY <2>1, <2>2 DEF IntentOf
<1>5. Intents' = {IntentOf(j)' : j \in Facts("create")}
  BY <1>3 DEF Intents
<1>6. Intents' = (Intents \ {IntentOf(i)}) \cup {IntentOf(i)'}
  BY <1>2, <1>4, <1>5 DEF Intents
<1>7. Consents' = Consents /\ Profiles' = Profiles
  BY StepShape DEF IntentOps, ConsentOps
<1>8. Consents[i.asg] = "GRANTED"
  BY <1>1, <1>2, CollectedUnderGrant DEF Consents, CollectionOps, FactOps, IntentOps
<1>9. IntentOf(i) \in Intents
  BY <1>2 DEF Intents
<1>10. QED
  BY <1>2, <1>6, <1>7, <1>8, <1>9

LEMMA IntentMaps ==
  ASSUME Skew = 0, LifecycleInv, NEW c \in Call, Ends(c), Owned(c), NEW n, Adds(c, n), n.op \in IntentOps
  PROVE  Record!Next
<1> DEFINE Image(i, versions, pinned, void) ==
             [id |-> i.id, asg |-> i.asg, versions |-> versions, pinned |-> pinned, void |-> void]
<1>1. PICK i \in Facts("create") :
        /\ i.id = n.subject /\ i.asg = n.asg /\ IntentOf(i) \in Intents
        /\ Intents' = (Intents \ {IntentOf(i)}) \cup {IntentOf(i)'}
        /\ Consents[i.asg] = "GRANTED" /\ Consents' = Consents /\ Profiles' = Profiles
  BY IntentBecomes
<1>2. /\ n.op = cmd[c].op /\ n.subject = cmd[c].subject /\ n.asg = cmd[c].asg
      /\ n.asg \in Assignment /\ Addable(c, n.seq, n.at)
  BY AddedRow DEF Adds
<1>3. \A op : On(op, n.subject)' = IF n.op = op THEN On(op, n.subject) \cup {n} ELSE On(op, n.subject)
  BY AddsTo
<1>4. /\ IsFiniteSet(On("context", n.subject)) /\ n \notin On("context", n.subject)
      /\ IsFiniteSet(InAssignment("profile", n.asg))
  <2>1. Rows
    BY DEF LifecycleInv
  <2>2. n \notin On("context", n.subject)
    BY AddsTo DEF On
  <2>3. QED
    BY <2>1, <2>2, StreamsFinite
<1> DEFINE versions == Cardinality(On("context", n.subject))
<1>5. PICK m, m1 : m = IntentOf(i) /\ m1 = IntentOf(i)'
  OBVIOUS
<1>6. /\ m = Image(i, versions, On("finalize", n.subject) # {}, On("invalidate", n.subject) # {})
       /\ m1 = Image(i, Cardinality(On("context", n.subject)'),
                     On("finalize", n.subject)' # {}, On("invalidate", n.subject)' # {})
  BY <1>1, <1>5 DEF IntentOf
<1>7. ASSUME NEW r \in Intents, Record!Revise(r) \/ Record!Pin(r) \/ Record!Void(r)
      PROVE  Record!Next
  BY <1>7 DEF Record!Next, Intents, IntentOf
<1>8. /\ Consents[m.asg] = "GRANTED" /\ m.asg = i.asg /\ m \in Intents
      /\ Intents' = (Intents \ {m}) \cup {m1} /\ Consents' = Consents /\ Profiles' = Profiles
  <2>1. m.asg = i.asg
    BY <1>6
  <2>2. QED
    BY <1>1, <1>5, <2>1
<1>9. CASE n.op = "context"
  <2>1. Cardinality(On("context", n.subject)') = versions + 1
    BY <1>3, <1>4, <1>9, FS_AddElement
  <2>2. On("finalize", n.subject) = {} /\ On("invalidate", n.subject) = {}
    BY <1>2, <1>9 DEF Addable
  <2>3. m = Image(i, versions, FALSE, FALSE) /\ m1 = Image(i, versions + 1, FALSE, FALSE)
    BY <1>3, <1>6, <1>9, <2>1, <2>2
  <2>4. ~m.pinned /\ ~m.void /\ m1 = Image(m, m.versions + 1, FALSE, FALSE)
    BY <2>3
  <2>5. Record!Revise(m)
    BY <1>8, <2>4 DEF Record!Revise, Record!Become, Consents, Profiles, Intents, IntentOf
  <2>6. QED
    BY <1>7, <1>8, <2>5
<1>10. CASE n.op = "finalize"
  <2>1. On("finalize", n.subject) = {} /\ On("invalidate", n.subject) = {} /\ PinsBelong(cmd[c])
    BY <1>2, <1>10 DEF Addable, Prior, Facts, On, ConsentOps, SubjectOps
  <2>2. On("context", n.subject) # {} /\ InAssignment("profile", n.asg) # {}
    BY <1>2, <2>1 DEF PinsBelong
  <2>3. versions > 0 /\ Cardinality(InAssignment("profile", n.asg)) > 0
    BY <1>4, <2>2, FS_CardinalityType, FS_EmptySet
  <2>4. m = Image(i, versions, FALSE, FALSE) /\ m1 = Image(i, versions, TRUE, FALSE)
    BY <1>3, <1>6, <1>10, <2>1
  <2>5. Profiles[m.asg] > 0
    BY <1>1, <1>2, <1>8, <2>3 DEF Profiles
  <2>6. ~m.pinned /\ ~m.void /\ m.versions > 0 /\ m1 = Image(m, m.versions, TRUE, FALSE)
    BY <2>3, <2>4
  <2>7. Record!Pin(m)
    BY <1>8, <2>5, <2>6 DEF Record!Pin, Record!Become, Consents, Profiles, Intents, IntentOf
  <2>8. QED
    BY <1>7, <1>8, <2>7
<1>11. CASE n.op = "invalidate"
  <2>1. On("invalidate", n.subject) = {}
    BY <1>2, <1>11 DEF Addable, Prior, Facts, On, ConsentOps, SubjectOps
  <2>2. /\ m = Image(i, versions, On("finalize", n.subject) # {}, FALSE)
        /\ m1 = Image(i, versions, On("finalize", n.subject) # {}, TRUE)
    BY <1>3, <1>6, <1>11, <2>1
  <2>3. ~m.void /\ m1 = Image(m, m.versions, m.pinned, TRUE)
    BY <2>2
  <2>4. Record!Void(m)
    BY <1>8, <2>3 DEF Record!Void, Record!Become, Consents, Profiles, Intents, IntentOf
  <2>5. QED
    BY <1>7, <1>8, <2>4
<1>12. QED
  BY <1>9, <1>10, <1>11 DEF IntentOps

LEMMA RecordInit == Init /\ Coherent => Record!Init
<1> SUFFICES ASSUME Init, Coherent
             PROVE  Record!Init
  OBVIOUS
<1>1. Rows
  BY DEF Coherent
<1>2. Consents \in [Assignment -> Record!ConsentStates]
  BY <1>1, HistoryStates DEF Rows, Consented, Consents, Record!ConsentStates
<1>3. \A op, x : Cardinality(On(op, x)) \in Nat /\ Cardinality(InAssignment(op, x)) \in Nat
  BY <1>1, StreamsFinite, FS_CardinalityType
<1>4. Profiles \in [Assignment -> Nat]
  BY <1>3 DEF Profiles
<1>5. ASSUME NEW i \in Facts("create")
      PROVE  IntentOf(i) \in Record!Intent /\ Consents[IntentOf(i).asg] # "NO_CONSENT"
  <2>1. i.id \in Ids /\ i.asg \in Assignment /\ EventsOf(i.asg) # {}
    BY <1>1 DEF Rows, Named, Consented, Facts, CollectionOps, FactOps
  <2>2. IntentOf(i) \in Record!Intent /\ IntentOf(i).asg = i.asg
    BY <1>3, <2>1 DEF IntentOf, Record!Intent
  <2>3. EffectiveConsentState(EventsOf(i.asg)) # "NO_CONSENT"
    BY <1>1, <2>1, HistoryStates DEF Rows, Consented
  <2>4. QED
    BY <2>1, <2>2, <2>3 DEF Consents
<1>6. Intents \subseteq Record!Intent /\ \A i \in Intents : Consents[i.asg] # "NO_CONSENT"
  BY <1>5 DEF Intents
<1>7. QED
  BY <1>2, <1>4, <1>6 DEF Record!Init, Consents, Profiles, Intents, IntentOf

LEMMA RecordNext ==
  ASSUME Skew = 0
  PROVE  LifecycleInv /\ [Next]_vars => [Record!Next]_(Record!rvars)
<1> SUFFICES ASSUME LifecycleInv, [Next]_vars
             PROVE  Record!Next \/ UNCHANGED Record!rvars
  OBVIOUS
<1>1. CASE UNCHANGED facts
  BY <1>1 DEF Record!rvars, Facts, On, InAssignment, EventsOf
<1>2. ASSUME NEW c \in Call, NEW n, Ends(c), Owned(c), Adds(c, n)
      PROVE  Record!Next \/ UNCHANGED Record!rvars
  <2>1. n.op \in AllOps
    BY <1>2, AddedRow
  <2>2. CASE n.op = "token"
    <3>1. Consents' = Consents /\ Profiles' = Profiles /\ Intents' = Intents
      BY <1>2, <2>2, StepShape DEF ConsentOps, IntentOps
    <3>2. QED
      BY <3>1 DEF Record!rvars, Consents, Profiles, Intents, IntentOf
  <2>3. QED
    BY <1>2, <2>1, <2>2, ConsentMaps, ProfileMaps, CreateMaps, IntentMaps
       DEF AllOps, FactOps, ConsentOps, IntentOps
<1>3. QED
  BY <1>1, <1>2, OnlyCommitsAdd

(* Where clocks agree, the locked transactions implement the atomic record:  *)
(* consent is granted and withdrawn once, facts are collected while it       *)
(* stands, intents are revised while open, pinned once and never when void.  *)
THEOREM LifecycleImplementsRecord ==
  ASSUME Skew = 0
  PROVE  Spec /\ Coherent => ImplementsRecord
<1>1. LifecycleInv /\ [Next]_vars => [Record!Next]_(Record!rvars)
  BY RecordNext
<1>2. QED
  BY <1>1, RecordInit, Invariance, PTL DEF Spec, ImplementsRecord, Record!Spec
=============================================================================
