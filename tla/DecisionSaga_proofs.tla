------------------------- MODULE DecisionSaga_proofs -------------------------
(* Proofs about DecisionSaga for every set of calls, intents and builds,     *)
(* however many calls race and whatever corpora the builds carry.  SagaInv   *)
(* is the inductive invariant.  A row is known by its id: it says what the   *)
(* call of that name did (Rows).  What a call has established is said        *)
(* positively of rows that are only ever added (CallInv), except under the   *)
(* intent's lock (Locks).  What the builds compare, the digest of            *)
(* CorpusAuthority, is shown first to be the meaning of a corpus.            *)
EXTENDS DecisionSaga, FiniteSetTheorems, TLAPS

(* The builds agree on all that the drift gate compares.                     *)
Alike(a, b) == Version[a] = Version[b] /\ Digest[a] = Digest[b]

Rows ==
  /\ \A r \in requests : r.intent = intent[r.id] /\ r.by = build[r.id] /\ r.intent \in finalized
  /\ \A s \in snapshots :
       /\ s.intent = intent[s.id]
       /\ \E r \in requests : r.id = s.request /\ r.intent = s.intent /\ Alike(s.by, r.by)
  /\ \A r, q \in requests : r.intent = q.intent => r = q
  /\ \A s, t \in snapshots : s.intent = t.intent => s = t
  /\ \A b \in bindings : \E s \in snapshots : b = [request |-> s.request, snapshot |-> s.id]

Locks == \A c, d \in Call : \A i \in Intent : HoldsIntent(c, i) /\ HoldsIntent(d, i) => c = d

Working == {"findBinding", "find", "persist", "bind", "insertBinding", "reloadBinding"}

Aimed(c) == \E s \in SnapshotsOf(intent[c]) : s.id = target[c] /\ Exact(s, frozen[c])
BoundTo(c, s) == \E r \in RequestsOf(intent[c]) : [request |-> r.id, snapshot |-> s] \in bindings
Decidable(c) ==
  \E r \in RequestsOf(intent[c]) :
    /\ Readable(c, r)
    /\ \/ SnapshotsOf(intent[c]) # {}
       \/ Contract[r.by] = Contract[build[c]] /\ SameText(Corpus[r.by], Corpus[build[c]])

CallInv(c) ==
  /\ pc[c] = "commitFreeze" =>
       /\ frozen[c] = OwnRequest(c)
       /\ RequestsOf(intent[c]) = {}
       /\ intent[c] \in finalized /\ intent[c] \notin invalidated
  /\ pc[c] \in Working => frozen[c] \in RequestsOf(intent[c])
  /\ pc[c] = "persist" => ~Drifted(c, frozen[c])
  /\ pc[c] \in {"bind", "insertBinding", "reloadBinding"} => Aimed(c)
  /\ pc[c] = "reloadBinding" => \E b \in bindings : b.request = frozen[c].id \/ b.snapshot = target[c]
  /\ pc[c] # "done" => answer[c] = NoAnswer
  /\ answer[c].kind \notin {"HistoricalConflict", "DecisionConflict", "BindingIncoherent"}
  /\ answer[c].kind = "Ok" => BoundTo(c, answer[c].snapshot)
  /\ answer[c].kind = "SemanticDrift" =>
       frozen[c] \in RequestsOf(intent[c]) /\ Drifted(c, frozen[c])
  /\ due[c] =>
       /\ pc[c] \notin {"idle", "lockIntent", "freeze", "commitFreeze"}
       /\ Decidable(c)
       /\ pc[c] = "done" => answer[c].kind = "Ok"

SagaInv == TypeOK /\ Rows /\ Locks /\ \A c \in Call : CallInv(c)
-----------------------------------------------------------------------------
(* What the semantic digest says of two corpora, whatever they hold: it is   *)
(* the meaning of the corpus, no less and, as corpora are authored, no more. *)

(* A sort loses no element ...                                               *)
LEMMA SortedKeepsElements ==
  ASSUME NEW key, NEW array
  PROVE  {p[2] : p \in SortedBy(key, array)} = ToSet(array)
<1>1. ASSUME NEW i \in DOMAIN array
      PROVE  array[i] \in {p[2] : p \in SortedBy(key, array)}
  <2> DEFINE p == <<Cardinality({j \in DOMAIN array : j <= i /\ key[j] = key[i]}), array[i]>>
  <2>1. p \in SortedBy(key, array) /\ p[2] = array[i]
    BY DEF SortedBy
  <2>2. QED
    BY <2>1
<1>2. ASSUME NEW p \in SortedBy(key, array)
      PROVE  p[2] \in ToSet(array)
  <2>1. PICK i \in DOMAIN array :
          p = <<Cardinality({j \in DOMAIN array : j <= i /\ key[j] = key[i]}), array[i]>>
    BY <1>2 DEF SortedBy
  <2>2. p[2] = array[i]
    BY <2>1
  <2>3. QED
    BY <2>2 DEF ToSet
<1>3. QED
  BY <1>1, <1>2 DEF ToSet

(* ... and under keys that do not repeat nothing is left of the order.       *)
LEMMA SortedForgetsOrder ==
  ASSUME NEW key, NEW array, Array(array), DOMAIN key = DOMAIN array, IsInjective(key)
  PROVE  SortedBy(key, array) = {<<1, x>> : x \in ToSet(array)}
<1>1. ASSUME NEW i \in DOMAIN array
      PROVE  Cardinality({j \in DOMAIN array : j <= i /\ key[j] = key[i]}) = 1
  <2>1. i \in Int /\ i <= i
    BY DEF Array
  <2>2. {j \in DOMAIN array : j <= i /\ key[j] = key[i]} = {i}
    BY <2>1 DEF IsInjective
  <2>3. QED
    BY <2>2, FS_Singleton
<1>2. SortedBy(key, array) = {<<1, array[i]>> : i \in DOMAIN array}
  BY <1>1 DEF SortedBy
<1>3. QED
  BY <1>2 DEF ToSet

(* So two such arrays sort alike when they hold the same elements.           *)
LEMMA SortedAlike ==
  ASSUME NEW k, NEW a, Array(a), DOMAIN k = DOMAIN a, IsInjective(k),
         NEW l, NEW b, Array(b), DOMAIN l = DOMAIN b, IsInjective(l)
  PROVE  SortedBy(k, a) = SortedBy(l, b) <=> ToSet(a) = ToSet(b)
<1>1. ToSet(a) = ToSet(b) => SortedBy(k, a) = SortedBy(l, b)
  BY SortedForgetsOrder
<1>2. SortedBy(k, a) = SortedBy(l, b) => ToSet(a) = ToSet(b)
  <2>1. ToSet(a) = {p[2] : p \in SortedBy(k, a)} /\ ToSet(b) = {p[2] : p \in SortedBy(l, b)}
    BY SortedKeepsElements
  <2>2. QED
    BY <2>1
<1>3. QED
  BY <1>1, <1>2

(* The projection of an entry tells apart what its meaning does.             *)
LEMMA ProjectionIsMeaning ==
  ASSUME NEW e, WellFormed(e), NEW f, WellFormed(f)
  PROVE  ProjectEntry(e) = ProjectEntry(f) <=> MeaningOf(e) = MeaningOf(f)
<1>1. /\ SortedBy(KeysOf(e.items), e.items) = SortedBy(KeysOf(f.items), f.items)
           <=> ToSet(e.items) = ToSet(f.items)
      /\ SortedBy(e.weekdays, e.weekdays) = SortedBy(f.weekdays, f.weekdays)
           <=> ToSet(e.weekdays) = ToSet(f.weekdays)
  <2>1. DOMAIN KeysOf(e.items) = DOMAIN e.items /\ DOMAIN KeysOf(f.items) = DOMAIN f.items
    BY DEF KeysOf
  <2>2. QED
    BY <2>1, SortedAlike DEF WellFormed, Keyed
<1>2. ProjectEntry(e) = ProjectEntry(f) <=>
        /\ e.key = f.key /\ e.terms = f.terms
        /\ [n \in DOMAIN e.sets |-> ToSet(e.sets[n])] = [n \in DOMAIN f.sets |-> ToSet(f.sets[n])]
        /\ SortedBy(KeysOf(e.items), e.items) = SortedBy(KeysOf(f.items), f.items)
        /\ SortedBy(e.weekdays, e.weekdays) = SortedBy(f.weekdays, f.weekdays)
  BY DEF ProjectEntry
<1>3. QED
  BY <1>1, <1>2 DEF MeaningOf

(* Part by part: the digests agree exactly when the entries mean the same.   *)
LEMMA PartDigestIsMeaning ==
  ASSUME NEW c, Authored(c), NEW d, Authored(d), NEW part \in Parts
  PROVE  NormalizeCorpusSemanticProjection(c)[part] = NormalizeCorpusSemanticProjection(d)[part]
         <=> {MeaningOf(e) : e \in ToSet(c[part])} = {MeaningOf(e) : e \in ToSet(d[part])}
<1> DEFINE a == [i \in DOMAIN c[part] |-> ProjectEntry(c[part][i])]
           b == [i \in DOMAIN d[part] |-> ProjectEntry(d[part][i])]
<1>1. SortedBy(KeysOf(c[part]), a) = SortedBy(KeysOf(d[part]), b) <=> ToSet(a) = ToSet(b)
  <2>1. /\ Array(c[part]) /\ IsInjective(KeysOf(c[part])) /\ DOMAIN KeysOf(c[part]) = DOMAIN c[part]
        /\ Array(d[part]) /\ IsInjective(KeysOf(d[part])) /\ DOMAIN KeysOf(d[part]) = DOMAIN d[part]
    BY DEF Authored, Keyed, KeysOf
  <2>2. Array(a) /\ Array(b)
    BY <2>1 DEF Array
  <2>3. QED
    BY <2>1, <2>2, SortedAlike
<1>2. /\ ToSet(a) = {ProjectEntry(e) : e \in ToSet(c[part])}
      /\ ToSet(b) = {ProjectEntry(e) : e \in ToSet(d[part])}
  BY DEF ToSet
<1>3. \A e \in ToSet(c[part]) : WellFormed(e)
  BY DEF Authored, ToSet
<1>4. \A e \in ToSet(d[part]) : WellFormed(e)
  BY DEF Authored, ToSet
<1>5. \A e \in ToSet(c[part]), f \in ToSet(d[part]) :
         ProjectEntry(e) = ProjectEntry(f) <=> MeaningOf(e) = MeaningOf(f)
  BY <1>3, <1>4, ProjectionIsMeaning
<1>6. ToSet(a) = ToSet(b)
      <=> {MeaningOf(e) : e \in ToSet(c[part])} = {MeaningOf(e) : e \in ToSet(d[part])}
  <2> DEFINE S == ToSet(c[part])
             T == ToSet(d[part])
  <2> HIDE DEF S, T, a, b
  <2>1. {ProjectEntry(e) : e \in S} = {ProjectEntry(e) : e \in T}
        <=> /\ \A e \in S : \E f \in T : ProjectEntry(e) = ProjectEntry(f)
            /\ \A f \in T : \E e \in S : ProjectEntry(e) = ProjectEntry(f)
    OBVIOUS
  <2>2. {MeaningOf(e) : e \in S} = {MeaningOf(e) : e \in T}
        <=> /\ \A e \in S : \E f \in T : MeaningOf(e) = MeaningOf(f)
            /\ \A f \in T : \E e \in S : MeaningOf(e) = MeaningOf(f)
    OBVIOUS
  <2>3. \A e \in S, f \in T : ProjectEntry(e) = ProjectEntry(f) <=> MeaningOf(e) = MeaningOf(f)
    BY <1>5 DEF S, T
  <2>4. {ProjectEntry(e) : e \in S} = {ProjectEntry(e) : e \in T}
        <=> {MeaningOf(e) : e \in S} = {MeaningOf(e) : e \in T}
    BY <2>1, <2>2, <2>3
  <2>5. QED
    BY <1>2, <2>4 DEF S, T
<1>7. QED
  BY <1>1, <1>6 DEF NormalizeCorpusSemanticProjection

(* As corpora are authored the digest of normalizeCorpusSemanticProjection   *)
(* is their meaning: it passes over no change of it, and no reordering of    *)
(* what is a set changes it.                                                 *)
THEOREM DigestIsMeaning ==
  ASSUME NEW c, Authored(c), NEW d, Authored(d)
  PROVE  c.id = d.id /\ NormalizeCorpusSemanticProjection(c) = NormalizeCorpusSemanticProjection(d)
         <=> SameMeaning(c, d)
<1>1. NormalizeCorpusSemanticProjection(c) = NormalizeCorpusSemanticProjection(d)
      <=> \A part \in Parts :
            NormalizeCorpusSemanticProjection(c)[part] = NormalizeCorpusSemanticProjection(d)[part]
  BY DEF NormalizeCorpusSemanticProjection
<1>2. QED
  BY <1>1, PartDigestIsMeaning DEF SameMeaning

(* Two corpora of one text have one meaning, and each vouches for an input   *)
(* that the other froze.                                                     *)
LEMMA SameTextSameMeaning ==
  ASSUME NEW c, NEW d, SameText(c, d)
  PROVE  SameMeaning(c, d) /\ VerifyProvenance(c, d)
  BY DEF SameText, SameMeaning, VerifyProvenance, Parts
-----------------------------------------------------------------------------
(* What the gate compares is the engine and the meaning of the corpus.       *)
LEMMA StartsAreBuilds == Starts \subseteq Build
  BY DEF Starts

LEMMA AlikeIsMeaning ==
  ASSUME NEW a \in Build, NEW b \in Build
  PROVE  Alike(a, b) <=> Contract[a] = Contract[b] /\ SameMeaning(Corpus[a], Corpus[b])
<1>1. Version[a] = Version[b] <=> Contract[a] = Contract[b] /\ Corpus[a].id = Corpus[b].id
  BY DEF Version
<1>2. Digest[a] = Digest[b] <=>
        NormalizeCorpusSemanticProjection(Corpus[a]) = NormalizeCorpusSemanticProjection(Corpus[b])
  BY DEF Digest
<1>3. QED
  BY <1>1, <1>2, CorporaAssumption, DigestIsMeaning DEF Alike

LEMMA OneTextAlike ==
  ASSUME NEW a \in Build, NEW b \in Build,
         Contract[a] = Contract[b], SameText(Corpus[a], Corpus[b])
  PROVE  Alike(b, a) /\ <<b, a>> \in Verified
<1>1. SameText(Corpus[b], Corpus[a])
  BY DEF SameText
<1>2. SameMeaning(Corpus[b], Corpus[a]) /\ VerifyProvenance(Corpus[b], Corpus[a])
  BY <1>1, SameTextSameMeaning
<1>3. QED
  BY <1>2, AlikeIsMeaning DEF Verified

LEMMA DriftedIsUnlike ==
  ASSUME NEW c, NEW r
  PROVE  Drifted(c, r) <=> ~Alike(build[c], r.by)
  BY DEF Drifted, Alike
-----------------------------------------------------------------------------
(* Type correctness of the four shapes of a step.                            *)
Answers == [kind : {"none", "Ok", "Invalidated", "NotFinalized", "HistoricalConflict",
                    "SemanticDrift", "NotAdmitted", "DecisionConflict", "Unsupported",
                    "NotProvenanced", "BindingIncoherent"},
            snapshot : Call \cup {None}]

LEMMA FinishType ==
  ASSUME TypeOK, NEW c \in Call, NEW a \in Answers, Finish(c, a)
  PROVE  TypeOK'
  BY DEF TypeOK, Finish, Goto, Label, Answers, world, tables, input

LEMMA ProceedType ==
  ASSUME TypeOK, NEW c \in Call, NEW l \in Label, Proceed(c, l)
  PROVE  TypeOK'
  BY DEF TypeOK, Proceed, Goto, world, tables, input

LEMMA ResumeType ==
  ASSUME TypeOK, NEW c \in Call, NEW l \in Label, NEW r \in RequestRow, Resume(c, r, l)
  PROVE  TypeOK'
  BY DEF TypeOK, Resume, Goto, world, tables, input

LEMMA AimType ==
  ASSUME TypeOK, NEW c \in Call, NEW l \in Label, NEW s \in Call, Aim(c, s, l)
  PROVE  TypeOK'
  BY DEF TypeOK, Aim, Goto, world, tables, input

LEMMA InitType == Init => TypeOK
  BY DEF Init, TypeOK, Label, NoAnswer

(* What holds of a call is kept by the steps of the others, as they only add *)
(* rows, and none on an intent that the call has under its lock.             *)
Grows ==
  /\ finalized \subseteq finalized'
  /\ requests \subseteq requests' /\ snapshots \subseteq snapshots' /\ bindings \subseteq bindings'
  /\ UNCHANGED <<intent, build>>
SameCall(d) == UNCHANGED <<pc[d], frozen[d], target[d], answer[d], due[d]>>

LEMMA CallKept ==
  ASSUME NEW d \in Call, CallInv(d), Grows, SameCall(d),
         pc[d] = "commitFreeze" => RequestsOf(intent[d])' = {} /\ intent[d] \notin invalidated'
  PROVE  CallInv(d)'
<1>1. RequestsOf(intent[d]) \subseteq RequestsOf(intent[d])'
  BY DEF Grows, RequestsOf
<1>2. SnapshotsOf(intent[d]) \subseteq SnapshotsOf(intent[d])'
  BY DEF Grows, SnapshotsOf
<1>3. Aimed(d) => Aimed(d)'
  BY <1>2 DEF Aimed, Exact, Grows, SameCall
<1>4. \A s : BoundTo(d, s) => BoundTo(d, s)'
  BY <1>1 DEF BoundTo, Grows, SameCall
<1>5. Decidable(d) => Decidable(d)'
  BY <1>1, <1>2 DEF Decidable, Readable, Grows, SameCall
<1>6. OwnRequest(d)' = OwnRequest(d) /\ (Drifted(d, frozen[d]) <=> Drifted(d, frozen[d])')
  BY DEF OwnRequest, Drifted, Grows, SameCall
<1>7. QED
  BY <1>1, <1>3, <1>4, <1>5, <1>6 DEF CallInv, Grows, SameCall

LEMMA RowsKept ==
  ASSUME Rows, finalized \subseteq finalized', UNCHANGED <<tables, intent, build>>
  PROVE  Rows'
  BY DEF Rows, tables, Alike

(* A step of call c in which no row changes and no lock is taken.            *)
Local(c) ==
  /\ UNCHANGED <<world, tables, intent, build>>
  /\ \A d \in Call \ {c} : SameCall(d)
  /\ pc'[c] \in {"freeze", "commitFreeze"} => pc[c] = "freeze"

LEMMA LocalKeeps ==
  ASSUME SagaInv, NEW c \in Call, Local(c)
  PROVE  Rows' /\ Locks' /\ \A d \in Call \ {c} : CallInv(d)'
<1>1. Grows
  BY DEF Local, Grows, tables, world
<1>2. Rows'
  BY RowsKept DEF SagaInv, Local, world
<1>3. Locks'
  BY DEF SagaInv, Locks, Local, HoldsIntent, SameCall
<1>4. ASSUME NEW d \in Call \ {c}
      PROVE  CallInv(d)'
  <2>1. pc[d] = "commitFreeze" => RequestsOf(intent[d])' = {} /\ intent[d] \notin invalidated'
    BY DEF SagaInv, CallInv, Local, RequestsOf, world, tables
  <2>2. SameCall(d)
    BY DEF Local
  <2>3. QED
    BY <1>1, <2>1, <2>2, CallKept DEF SagaInv
<1>5. QED
  BY <1>2, <1>3, <1>4

LEMMA LocalStep ==
  ASSUME SagaInv, NEW c \in Call, Local(c), TypeOK', CallInv(c)'
  PROVE  SagaInv'
  BY LocalKeeps DEF SagaInv

(* What the call knows is unchanged while the rows are.                      *)
LEMMA FactsKept ==
  ASSUME NEW c \in Call, UNCHANGED <<world, tables, intent, build>>
  PROVE  /\ RequestsOf(intent[c])' = RequestsOf(intent[c])
         /\ SnapshotsOf(intent[c])' = SnapshotsOf(intent[c])
         /\ \A s : BoundTo(c, s)' <=> BoundTo(c, s)
         /\ \A r : Drifted(c, r)' <=> Drifted(c, r)
         /\ Decidable(c)' <=> Decidable(c)
<1>1. /\ RequestsOf(intent[c])' = RequestsOf(intent[c])
      /\ SnapshotsOf(intent[c])' = SnapshotsOf(intent[c])
  BY DEF RequestsOf, SnapshotsOf, tables
<1>2. QED
  BY <1>1 DEF BoundTo, Drifted, Decidable, Readable, tables

(* A call may give an answer that its rows justify, and must not give up     *)
(* when it began with all it needs.                                          *)
LEMMA FinishKeeps ==
  ASSUME SagaInv, NEW c \in Call, NEW a \in Answers, Finish(c, a), pc[c] # "idle",
         a.kind \notin {"HistoricalConflict", "DecisionConflict", "BindingIncoherent"},
         a.kind = "Ok" => BoundTo(c, a.snapshot),
         a.kind = "SemanticDrift" =>
           frozen[c] \in RequestsOf(intent[c]) /\ Drifted(c, frozen[c]),
         due[c] => a.kind = "Ok"
  PROVE  SagaInv'
<1>1. UNCHANGED <<world, tables, intent, build, frozen, due>>
  BY DEF Finish, input
<1>2. pc'[c] = "done" /\ answer'[c] = a
  BY DEF Finish, Goto, SagaInv, TypeOK
<1>3. Local(c)
  BY <1>1 DEF Finish, Goto, Local, SameCall, SagaInv, TypeOK
<1>4. CallInv(c)'
  BY <1>1, <1>2, FactsKept DEF SagaInv, CallInv, Working
<1>5. QED
  BY <1>3, <1>4, LocalStep, FinishType DEF SagaInv

(* A call that goes on with what it has must have what its next step needs.  *)
LEMMA ProceedKeeps ==
  ASSUME SagaInv, NEW c \in Call, pc[c] \notin {"idle", "done"},
         NEW l \in Label \ {"idle", "freeze", "commitFreeze", "done"}, Proceed(c, l),
         l \in Working => frozen[c] \in RequestsOf(intent[c]),
         l = "persist" => ~Drifted(c, frozen[c]),
         l \in {"bind", "insertBinding", "reloadBinding"} => Aimed(c),
         l = "reloadBinding" => \E b \in bindings : b.request = frozen[c].id \/ b.snapshot = target[c],
         l = "lockIntent" => ~due[c]
  PROVE  SagaInv'
<1>1. UNCHANGED <<world, tables, intent, build, frozen, target, answer, due>>
  BY DEF Proceed, input
<1>2. pc'[c] = l
  BY DEF Proceed, Goto, SagaInv, TypeOK
<1>3. Local(c)
  BY <1>1 DEF Proceed, Goto, Local, SameCall, SagaInv, TypeOK
<1>4. Aimed(c)' <=> Aimed(c)
  BY <1>1 DEF Aimed, Exact, SnapshotsOf, tables
<1>5. CallInv(c)'
  BY <1>1, <1>2, <1>4, FactsKept DEF SagaInv, CallInv, Working, tables
<1>6. QED
  BY <1>3, <1>5, LocalStep, ProceedType DEF SagaInv

LEMMA ResumeKeeps ==
  ASSUME SagaInv, NEW c \in Call, pc[c] \in {"findRequest", "freeze"},
         NEW r \in RequestsOf(intent[c]), NEW l \in {"findBinding", "find"}, Resume(c, r, l)
  PROVE  SagaInv'
<1>1. UNCHANGED <<world, tables, intent, build, target, answer, due>>
  BY DEF Resume, input
<1>2. pc'[c] = l /\ frozen'[c] = r
  BY DEF Resume, Goto, SagaInv, TypeOK
<1>3. Local(c)
  BY <1>1 DEF Resume, Goto, Local, SameCall, SagaInv, TypeOK
<1>4. CallInv(c)'
  BY <1>1, <1>2, FactsKept DEF SagaInv, CallInv, NoAnswer
<1>5. r \in RequestRow
  BY DEF RequestsOf, SagaInv, TypeOK
<1>6. QED
  BY <1>3, <1>4, <1>5, LocalStep, ResumeType DEF SagaInv, Label

LEMMA AimKeeps ==
  ASSUME SagaInv, NEW c \in Call, pc[c] \in {"findBinding", "find", "persist"},
         NEW s \in SnapshotsOf(intent[c]), Exact(s, frozen[c]), Aim(c, s.id, "bind")
  PROVE  SagaInv'
<1>1. UNCHANGED <<world, tables, intent, build, frozen, answer, due>>
  BY DEF Aim, input
<1>2. pc'[c] = "bind" /\ target'[c] = s.id
  BY DEF Aim, Goto, SagaInv, TypeOK
<1>3. Local(c)
  BY <1>1 DEF Aim, Goto, Local, SameCall, SagaInv, TypeOK
<1>4. Aimed(c)'
  BY <1>1, <1>2 DEF Aimed, Exact, SnapshotsOf, tables
<1>5. CallInv(c)'
  BY <1>1, <1>2, <1>4, FactsKept DEF SagaInv, CallInv, Working
<1>6. s.id \in Call
  BY DEF SnapshotsOf, SagaInv, TypeOK
<1>7. QED
  BY <1>3, <1>5, <1>6, LocalStep, AimType DEF SagaInv, Label

(* The decision of an intent is the decision of its one request.             *)
LEMMA DecisionOfRequest ==
  ASSUME SagaInv, NEW r \in requests, NEW s \in snapshots
  PROVE  /\ s.intent = r.intent <=> s.request = r.id
         /\ s.intent = r.intent => Exact(s, r) /\ Alike(s.by, r.by)
<1>1. PICK q \in requests : q.id = s.request /\ q.intent = s.intent /\ Alike(s.by, q.by)
  BY DEF SagaInv, Rows
<1>2. q.id = r.id => q.intent = r.intent
  BY DEF SagaInv, Rows
<1>3. q.intent = r.intent => q = r
  BY DEF SagaInv, Rows
<1>4. QED
  BY <1>1, <1>2, <1>3 DEF Exact, Alike

LEMMA RequestOfCall ==
  ASSUME SagaInv, NEW c \in Call, pc[c] \in Working
  PROVE  /\ frozen[c] \in requests /\ frozen[c].intent = intent[c]
         /\ frozen[c] \in RequestsOf(intent[c])
         /\ \A r \in RequestsOf(intent[c]) : r = frozen[c]
         /\ frozen[c].by \in Build /\ build[c] \in Build
         /\ answer[c] = NoAnswer
<1>1. frozen[c] \in RequestsOf(intent[c]) /\ answer[c] = NoAnswer
  BY DEF SagaInv, CallInv, Working
<1>2. frozen[c].by \in Starts /\ build[c] \in Starts
  BY <1>1 DEF SagaInv, TypeOK, RequestRow, RequestsOf
<1>3. QED
  BY <1>1, <1>2, StartsAreBuilds DEF SagaInv, Rows, RequestsOf

LEMMA RefusalType ==
  ASSUME NEW k \in {"Invalidated", "NotFinalized", "HistoricalConflict", "SemanticDrift",
                    "NotAdmitted", "DecisionConflict", "Unsupported", "NotProvenanced",
                    "BindingIncoherent"}
  PROVE  Refusal(k) \in Answers /\ Refusal(k).kind = k
  BY DEF Refusal, Answers

(* The actions one by one.                                                   *)
LEMMA LoadKeeps ==
  ASSUME SagaInv, NEW c \in Call, Load(c)
  PROVE  SagaInv'
<1>1. UNCHANGED <<world, tables, intent, build, frozen, target, answer, due>>
  BY DEF Load, input
<1>2. pc[c] = "load" /\ pc'[c] = "findRequest"
  BY DEF Load, Goto, SagaInv, TypeOK
<1>3. Local(c)
  BY <1>1 DEF Load, Goto, Local, SameCall, SagaInv, TypeOK
<1>4. CallInv(c)'
  BY <1>1, <1>2, FactsKept DEF SagaInv, CallInv, Working
<1>5. TypeOK'
  BY DEF SagaInv, TypeOK, Load, Goto, Label, world, tables, input
<1>6. QED
  BY <1>3, <1>4, <1>5, LocalStep

LEMMA BeginKeeps ==
  ASSUME SagaInv, NEW c \in Call, Begin(c)
  PROVE  SagaInv'
<1>1. UNCHANGED <<world, tables, intent, build, frozen, target, answer>>
  BY DEF Begin
<1>2. pc[c] = "idle" /\ pc'[c] = "load"
  BY DEF Begin, Goto, SagaInv, TypeOK
<1>3. Local(c)
  BY <1>1 DEF Begin, Goto, Local, SameCall, SagaInv, TypeOK
<1>4. due'[c] => Decidable(c)
  BY DEF Begin, Decidable, Readable, SagaInv, TypeOK
<1>5. CallInv(c)'
  BY <1>1, <1>2, <1>4, FactsKept DEF SagaInv, CallInv, Working
<1>6. TypeOK'
  BY DEF SagaInv, TypeOK, Begin, Goto, Label, world, tables
<1>7. QED
  BY <1>3, <1>5, <1>6, LocalStep

LEMMA CrashKeeps ==
  ASSUME SagaInv, NEW c \in Call, Crash(c)
  PROVE  SagaInv'
  BY ProceedKeeps DEF Crash, Label, Working

(* A readable request is resumed; a due call finds it readable.              *)
LEMMA ReadKeeps ==
  ASSUME SagaInv, NEW c \in Call, pc[c] \in {"findRequest", "freeze"},
         NEW r \in RequestsOf(intent[c]), NEW l \in {"findBinding", "find"}, ReadThen(c, r, l)
  PROVE  SagaInv'
<1>1. CASE Readable(c, r)
  BY <1>1, ResumeKeeps DEF ReadThen
<1>2. CASE ~Readable(c, r)
  <2>1. ~due[c]
    BY <1>2 DEF SagaInv, Rows, CallInv, Decidable, RequestsOf
  <2>2. Finish(c, Refusal("Unsupported"))
    BY <1>2 DEF ReadThen
  <2>3. QED
    BY <2>1, <2>2, FinishKeeps, RefusalType
<1>3. QED
  BY <1>1, <1>2

LEMMA FindRequestKeeps ==
  ASSUME SagaInv, NEW c \in Call, FindRequest(c)
  PROVE  SagaInv'
<1>1. pc[c] = "findRequest"
  BY DEF FindRequest
<1>2. CASE \E r \in RequestsOf(intent[c]) : ReadThen(c, r, "findBinding")
  BY <1>1, <1>2, ReadKeeps
<1>3. CASE RequestsOf(intent[c]) = {} /\ ~\E r \in RequestsOf(intent[c]) : ReadThen(c, r, "findBinding")
  <2>1. ~due[c]
    BY <1>3 DEF SagaInv, CallInv, Decidable
  <2>2. \/ \E k \in {"Invalidated", "NotFinalized", "NotAdmitted"} : Finish(c, Refusal(k))
        \/ Proceed(c, "lockIntent")
    BY <1>3 DEF FindRequest
  <2>3. ASSUME NEW k \in {"Invalidated", "NotFinalized", "NotAdmitted"}, Finish(c, Refusal(k))
        PROVE  SagaInv'
    BY <1>1, <2>1, <2>3, FinishKeeps, RefusalType
  <2>4. CASE Proceed(c, "lockIntent")
    BY <1>1, <2>1, <2>4, ProceedKeeps DEF Label, Working
  <2>5. QED
    BY <2>2, <2>3, <2>4
<1>4. QED
  BY <1>2, <1>3 DEF FindRequest

LEMMA FindBindingKeeps ==
  ASSUME SagaInv, NEW c \in Call, FindBinding(c)
  PROVE  SagaInv'
<1>1. pc[c] = "findBinding"
  BY DEF FindBinding
<1>2. frozen[c] \in requests /\ frozen[c].intent = intent[c] /\ frozen[c] \in RequestsOf(intent[c])
  BY <1>1, RequestOfCall DEF Working
<1>3. ASSUME NEW b \in BindingsOf(frozen[c].id), Aim(c, b.snapshot, "bind")
      PROVE  SagaInv'
  <2>1. PICK s \in snapshots : b = [request |-> s.request, snapshot |-> s.id]
    BY <1>3 DEF BindingsOf, SagaInv, Rows
  <2>2. s.request = frozen[c].id /\ s.id = b.snapshot
    BY <2>1 DEF BindingsOf
  <2>3. s \in SnapshotsOf(intent[c]) /\ Exact(s, frozen[c])
    BY <1>2, <2>2, DecisionOfRequest DEF SnapshotsOf
  <2>4. Aim(c, s.id, "bind")
    BY <1>3, <2>2
  <2>5. QED
    BY <1>1, <2>3, <2>4, AimKeeps
<1>4. CASE Proceed(c, "find")
  BY <1>1, <1>2, <1>4, ProceedKeeps DEF Label
<1>5. QED
  BY <1>3, <1>4 DEF FindBinding

(* The lock keeps every other call out.                                      *)
LEMMA LockIntentKeeps ==
  ASSUME SagaInv, NEW c \in Call, LockIntent(c)
  PROVE  SagaInv'
<1>1. /\ pc[c] = "lockIntent" /\ pc' = [pc EXCEPT ![c] = "freeze"]
      /\ UNCHANGED <<world, tables, intent, build, frozen, target, answer, due>>
  BY DEF LockIntent, Proceed, Goto, input
<1>2. pc'[c] = "freeze" /\ \A d \in Call \ {c} : SameCall(d)
  BY <1>1 DEF SameCall, SagaInv, TypeOK
<1>3. Rows'
  BY <1>1, RowsKept DEF SagaInv, world
<1>4. Locks'
  <2>1. \A d \in Call \ {c} : pc[d] \in {"freeze", "commitFreeze"} => intent[d] # intent[c]
    BY DEF LockIntent, HoldsIntent
  <2>2. QED
    BY <1>1, <1>2, <2>1 DEF SagaInv, Locks, HoldsIntent, SameCall
<1>5. CallInv(c)'
  BY <1>1, <1>2, FactsKept DEF SagaInv, CallInv, Working
<1>6. ASSUME NEW d \in Call \ {c}
      PROVE  CallInv(d)'
  <2>1. Grows
    BY <1>1 DEF Grows, world, tables
  <2>2. pc[d] = "commitFreeze" => RequestsOf(intent[d])' = {} /\ intent[d] \notin invalidated'
    BY <1>1 DEF SagaInv, CallInv, RequestsOf, world, tables
  <2>3. QED
    BY <1>2, <2>1, <2>2, CallKept DEF SagaInv
<1>7. TypeOK'
  BY ProceedType DEF LockIntent, SagaInv, Label
<1>8. QED
  BY <1>3, <1>4, <1>5, <1>6, <1>7 DEF SagaInv

LEMMA FreezeKeeps ==
  ASSUME SagaInv, NEW c \in Call, Freeze(c)
  PROVE  SagaInv'
<1>1. pc[c] = "freeze"
  BY DEF Freeze
<1>2. ~due[c]
  BY <1>1 DEF SagaInv, CallInv
<1>3. ASSUME NEW k \in {"Invalidated", "NotFinalized"}, Finish(c, Refusal(k))
      PROVE  SagaInv'
  BY <1>1, <1>2, <1>3, FinishKeeps, RefusalType
<1>4. ASSUME NEW r \in RequestsOf(intent[c]), ReadThen(c, r, "find")
      PROVE  SagaInv'
  BY <1>1, <1>4, ReadKeeps
<1>5. ASSUME intent[c] \notin invalidated, intent[c] \in finalized,
             RequestsOf(intent[c]) = {}, Resume(c, OwnRequest(c), "commitFreeze")
      PROVE  SagaInv'
  <2>1. UNCHANGED <<world, tables, intent, build, target, answer, due>>
    BY <1>5 DEF Resume, input
  <2>2. pc'[c] = "commitFreeze" /\ frozen'[c] = OwnRequest(c)
    BY <1>5 DEF Resume, Goto, SagaInv, TypeOK
  <2>3. Local(c)
    BY <1>1, <1>5, <2>1 DEF Resume, Goto, Local, SameCall, SagaInv, TypeOK
  <2>4. CallInv(c)'
    BY <1>1, <1>2, <1>5, <2>1, <2>2, FactsKept
       DEF SagaInv, CallInv, NoAnswer, Working, OwnRequest, world
  <2>5. OwnRequest(c) \in RequestRow
    BY DEF OwnRequest, RequestRow, SagaInv, TypeOK
  <2>6. QED
    BY <1>5, <2>3, <2>4, <2>5, LocalStep, ResumeType DEF SagaInv, Label
<1>6. QED
  BY <1>3, <1>4, <1>5 DEF Freeze

(* A request commits under the lock, on an intent that has none.             *)
LEMMA CommitFreezeKeeps ==
  ASSUME SagaInv, NEW c \in Call, CommitFreeze(c)
  PROVE  SagaInv'
<1>1. /\ pc[c] = "commitFreeze" /\ frozen[c] = OwnRequest(c) /\ RequestsOf(intent[c]) = {}
      /\ intent[c] \in finalized /\ intent[c] \notin invalidated /\ ~due[c]
      /\ answer[c] = NoAnswer
  BY DEF CommitFreeze, SagaInv, CallInv
<1>2. /\ requests' = requests \cup {OwnRequest(c)} /\ pc' = [pc EXCEPT ![c] = "find"]
      /\ UNCHANGED <<world, snapshots, bindings, intent, build, frozen, target, answer, due>>
  BY <1>1 DEF CommitFreeze, Goto, input
<1>3. /\ OwnRequest(c) \in RequestRow /\ OwnRequest(c).id = c
      /\ OwnRequest(c).intent = intent[c] /\ OwnRequest(c).by = build[c]
  BY DEF OwnRequest, RequestRow, SagaInv, TypeOK
<1>4. TypeOK'
  <2>1. requests' \subseteq RequestRow
    BY <1>2, <1>3 DEF SagaInv, TypeOK
  <2>2. QED
    BY <1>2, <2>1 DEF SagaInv, TypeOK, Label, world, CommitFreeze, input
<1>5. pc'[c] = "find" /\ \A d \in Call \ {c} : SameCall(d)
  BY <1>2 DEF SameCall, SagaInv, TypeOK
<1>6. Grows
  BY <1>2 DEF Grows, world
<1>7. Rows'
  <2>1. \A r \in requests' : r.intent = intent[r.id] /\ r.by = build[r.id] /\ r.intent \in finalized
    BY <1>1, <1>2, <1>3 DEF SagaInv, Rows
  <2>2. \A r, q \in requests' : r.intent = q.intent => r = q
    BY <1>1, <1>2, <1>3 DEF SagaInv, Rows, RequestsOf
  <2>3. \A s \in snapshots : s.intent = intent[s.id] /\
          \E r \in requests' : r.id = s.request /\ r.intent = s.intent /\ Alike(s.by, r.by)
    BY <1>2 DEF SagaInv, Rows
  <2>4. QED
    BY <1>2, <2>1, <2>2, <2>3 DEF SagaInv, Rows, world, Alike
<1>8. Locks'
  BY <1>2, <1>5 DEF SagaInv, Locks, HoldsIntent, SameCall
<1>9. CallInv(c)'
  <2>1. frozen[c] \in RequestsOf(intent[c])'
    BY <1>1, <1>2, <1>3 DEF RequestsOf
  <2>2. QED
    BY <1>1, <1>2, <1>5, <2>1 DEF CallInv, NoAnswer
<1>10. ASSUME NEW d \in Call \ {c}
       PROVE  CallInv(d)'
  <2>1. ASSUME pc[d] = "commitFreeze"
        PROVE  RequestsOf(intent[d])' = {} /\ intent[d] \notin invalidated'
    <3>1. intent[d] # intent[c]
      BY <1>1, <2>1 DEF SagaInv, TypeOK, Locks, HoldsIntent
    <3>2. RequestsOf(intent[d]) = {} /\ intent[d] \notin invalidated
      BY <2>1 DEF SagaInv, CallInv
    <3>3. QED
      BY <1>2, <1>3, <3>1, <3>2 DEF RequestsOf, world
  <2>2. QED
    BY <1>5, <1>6, <2>1, CallKept DEF SagaInv
<1>11. QED
  BY <1>4, <1>7, <1>8, <1>9, <1>10 DEF SagaInv

(* A decision that is found is that of the request; with none, the gate      *)
(* holds back a build that would not compute what the request pins.          *)
LEMMA FindKeeps ==
  ASSUME SagaInv, NEW c \in Call, Find(c)
  PROVE  SagaInv'
<1>1. pc[c] = "find"
  BY DEF Find
<1>2. /\ frozen[c] \in requests /\ frozen[c].intent = intent[c] /\ frozen[c] \in RequestsOf(intent[c])
      /\ \A r \in RequestsOf(intent[c]) : r = frozen[c]
      /\ frozen[c].by \in Build /\ build[c] \in Build
  BY <1>1, RequestOfCall DEF Working
<1>3. ASSUME NEW s \in SnapshotsOf(intent[c])
      PROVE  Exact(s, frozen[c])
  BY <1>2, DecisionOfRequest DEF SnapshotsOf
<1>4. ASSUME NEW s \in SnapshotsOf(intent[c]), Aim(c, s.id, "bind")
      PROVE  SagaInv'
  BY <1>1, <1>3, <1>4, AimKeeps
<1>5. ASSUME SnapshotsOf(intent[c]) = {}, Drifted(c, frozen[c]), Finish(c, Refusal("SemanticDrift"))
      PROVE  SagaInv'
  <2>1. ~due[c]
    <3>1. ~Alike(build[c], frozen[c].by)
      BY <1>5, DriftedIsUnlike
    <3>2. ~(/\ Contract[frozen[c].by] = Contract[build[c]]
            /\ SameText(Corpus[frozen[c].by], Corpus[build[c]]))
      BY <1>2, <3>1, OneTextAlike
    <3>3. QED
      BY <1>2, <1>5, <3>2 DEF SagaInv, CallInv, Decidable
  <2>2. QED
    BY <1>1, <1>2, <1>5, <2>1, FinishKeeps, RefusalType
<1>6. ASSUME ~Drifted(c, frozen[c]), Proceed(c, "persist")
      PROVE  SagaInv'
  BY <1>1, <1>2, <1>6, ProceedKeeps DEF Label
<1>7. QED
  BY <1>3, <1>4, <1>5, <1>6 DEF Find

(* A step of call c that adds a decision or a binding.                       *)
LEMMA OthersKept ==
  ASSUME SagaInv, NEW c \in Call, Grows, UNCHANGED <<world, requests>>,
         \A d \in Call \ {c} : SameCall(d), pc'[c] \notin {"freeze", "commitFreeze"}
  PROVE  Locks' /\ \A d \in Call \ {c} : CallInv(d)'
<1>1. Locks'
  BY DEF SagaInv, Locks, HoldsIntent, SameCall, Grows
<1>2. ASSUME NEW d \in Call \ {c}
      PROVE  CallInv(d)'
  <2>1. pc[d] = "commitFreeze" => RequestsOf(intent[d])' = {} /\ intent[d] \notin invalidated'
    BY DEF SagaInv, CallInv, RequestsOf, world, Grows
  <2>2. QED
    BY <2>1, CallKept DEF SagaInv
<1>3. QED
  BY <1>1, <1>2

LEMMA DecideKeeps ==
  ASSUME SagaInv, NEW c \in Call, Persist(c), SnapshotsOf(intent[c]) = {},
         <<build[c], frozen[c].by>> \in Verified
  PROVE  SagaInv'
<1> DEFINE new == [id |-> c, intent |-> intent[c], request |-> frozen[c].id, by |-> build[c]]
<1>1. pc[c] = "persist"
  BY DEF Persist
<1>2. /\ frozen[c] \in requests /\ frozen[c].intent = intent[c] /\ frozen[c] \in RequestsOf(intent[c])
      /\ answer[c] = NoAnswer
  BY <1>1, RequestOfCall DEF Working
<1>3. Alike(build[c], frozen[c].by) /\ (due[c] => Decidable(c))
  BY <1>1, DriftedIsUnlike DEF SagaInv, CallInv
<1>4. /\ snapshots' = snapshots \cup {new} /\ target' = [target EXCEPT ![c] = c]
      /\ pc' = [pc EXCEPT ![c] = "bind"]
      /\ UNCHANGED <<world, requests, bindings, intent, build, frozen, answer, due>>
  BY DEF Persist, Goto, input
<1>5. /\ new \in [id : Call, intent : Intent, request : Call, by : Starts]
      /\ new.id = c /\ new.intent = intent[c] /\ new.request = frozen[c].id /\ new.by = build[c]
  BY <1>2 DEF SagaInv, TypeOK, RequestRow
<1> HIDE DEF new
<1>6. TypeOK'
  <2>1. snapshots' \subseteq [id : Call, intent : Intent, request : Call, by : Starts]
    BY <1>4, <1>5 DEF SagaInv, TypeOK
  <2>2. pc' \in [Call -> Label] /\ target' \in [Call -> Call \cup {None}]
    BY <1>4 DEF SagaInv, TypeOK, Label
  <2>3. UNCHANGED authorities
    BY DEF Persist
  <2>4. QED
    BY <1>4, <2>1, <2>2, <2>3 DEF SagaInv, TypeOK, world
<1>7. pc'[c] = "bind" /\ target'[c] = c /\ \A d \in Call \ {c} : SameCall(d)
  BY <1>4 DEF SameCall, SagaInv, TypeOK
<1>8. Grows
  BY <1>4 DEF Grows, world
<1>9. Rows'
  <2>1. \A s \in snapshots' : s.intent = intent[s.id] /\
          \E r \in requests : r.id = s.request /\ r.intent = s.intent /\ Alike(s.by, r.by)
    BY <1>2, <1>3, <1>4, <1>5 DEF SagaInv, Rows
  <2>2. \A s, t \in snapshots' : s.intent = t.intent => s = t
    BY <1>4, <1>5 DEF SagaInv, Rows, SnapshotsOf
  <2>3. \A b \in bindings : \E s \in snapshots' : b = [request |-> s.request, snapshot |-> s.id]
    BY <1>4 DEF SagaInv, Rows
  <2>4. QED
    BY <1>4, <2>1, <2>2, <2>3 DEF SagaInv, Rows, world, Alike
<1>10. CallInv(c)'
  <2>1. new \in SnapshotsOf(intent[c])'
    BY <1>4, <1>5 DEF SnapshotsOf
  <2>2. Exact(new, frozen[c])
    BY <1>2, <1>3, <1>5 DEF Exact, Alike
  <2>3. Aimed(c)'
    BY <1>4, <1>5, <1>7, <2>1, <2>2 DEF Aimed, Exact
  <2>4. RequestsOf(intent[c])' = RequestsOf(intent[c])
    BY <1>4 DEF RequestsOf
  <2>5. due[c] => Decidable(c)'
    BY <1>3, <1>4, <2>1, <2>4 DEF Decidable, Readable
  <2>6. QED
    BY <1>2, <1>4, <1>7, <2>3, <2>4, <2>5 DEF CallInv, NoAnswer
<1>11. QED
  BY <1>4, <1>6, <1>7, <1>8, <1>9, <1>10, OthersKept DEF SagaInv

LEMMA PersistKeeps ==
  ASSUME SagaInv, NEW c \in Call, Persist(c)
  PROVE  SagaInv'
<1>1. pc[c] = "persist"
  BY DEF Persist
<1>2. /\ frozen[c] \in requests /\ frozen[c].intent = intent[c] /\ frozen[c] \in RequestsOf(intent[c])
      /\ \A r \in RequestsOf(intent[c]) : r = frozen[c]
      /\ frozen[c].by \in Build /\ build[c] \in Build
  BY <1>1, RequestOfCall DEF Working
<1>3. ASSUME NEW s \in SnapshotsOf(intent[c])
      PROVE  Exact(s, frozen[c]) /\ s.request = frozen[c].id
  BY <1>2, DecisionOfRequest DEF SnapshotsOf
<1>4. ASSUME NEW s \in SnapshotsOf(intent[c]), Aim(c, s.id, "bind")
      PROVE  SagaInv'
  BY <1>1, <1>3, <1>4, AimKeeps
<1>5. ASSUME SnapshotsOf(intent[c]) = {}, <<build[c], frozen[c].by>> \notin Verified,
             Finish(c, Refusal("NotProvenanced"))
      PROVE  SagaInv'
  <2>1. ~due[c]
    BY <1>2, <1>5, OneTextAlike DEF SagaInv, CallInv, Decidable
  <2>2. QED
    BY <1>1, <1>5, <2>1, FinishKeeps, RefusalType
<1>6. CASE SnapshotsOf(intent[c]) = {} /\ <<build[c], frozen[c].by>> \in Verified
  BY <1>6, DecideKeeps
<1>7. QED
  BY <1>3, <1>4, <1>5, <1>6 DEF Persist

(* What a working call aims at, its rows prove.                              *)
LEMMA AimedIsCoherent ==
  ASSUME SagaInv, NEW c \in Call, pc[c] \in {"bind", "insertBinding", "reloadBinding"}
  PROVE  frozen[c] \in requests /\ Coherent(c)
<1>1. /\ frozen[c] \in requests /\ frozen[c].intent = intent[c] /\ frozen[c] \in RequestsOf(intent[c])
  BY RequestOfCall DEF Working
<1>2. Aimed(c)
  BY DEF SagaInv, CallInv
<1>3. QED
  BY <1>1, <1>2 DEF Aimed, Coherent, SagaInv, Rows

LEMMA BindKeeps ==
  ASSUME SagaInv, NEW c \in Call, Bind(c)
  PROVE  SagaInv'
<1>1. pc[c] = "bind"
  BY DEF Bind
<1>2. Proceed(c, "insertBinding")
  BY <1>1, AimedIsCoherent DEF Bind
<1>3. frozen[c] \in RequestsOf(intent[c]) /\ Aimed(c)
  BY <1>1, RequestOfCall DEF SagaInv, CallInv, Working
<1>4. QED
  BY <1>1, <1>2, <1>3, ProceedKeeps DEF Label

LEMMA BindingAddsKeeps ==
  ASSUME SagaInv, NEW c \in Call, InsertBinding(c),
         ~\E b \in bindings : b.request = frozen[c].id \/ b.snapshot = target[c]
  PROVE  SagaInv'
<1> DEFINE new == [request |-> frozen[c].id, snapshot |-> target[c]]
<1>1. pc[c] = "insertBinding"
  BY DEF InsertBinding
<1>2. /\ frozen[c] \in requests /\ frozen[c].intent = intent[c] /\ frozen[c] \in RequestsOf(intent[c])
  BY <1>1, RequestOfCall DEF Working
<1>3. PICK s \in SnapshotsOf(intent[c]) : s.id = target[c] /\ Exact(s, frozen[c])
  BY <1>1 DEF SagaInv, CallInv, Aimed
<1>4. /\ bindings' = bindings \cup {new} /\ answer' = [answer EXCEPT ![c] = Ok(target[c])]
      /\ pc' = [pc EXCEPT ![c] = "done"]
      /\ UNCHANGED <<world, requests, snapshots, intent, build, authorities, frozen, target, due>>
  BY DEF InsertBinding, Goto, input
<1>5. /\ s \in snapshots /\ s.request = frozen[c].id
      /\ new = [request |-> s.request, snapshot |-> s.id]
      /\ target[c] \in Call /\ frozen[c].id \in Call
  BY <1>2, <1>3 DEF SnapshotsOf, Exact, SagaInv, TypeOK, RequestRow
<1>6. new \in [request : Call, snapshot : Call]
  BY <1>5
<1> HIDE DEF new
<1>7. Ok(target[c]) \in Answers /\ Ok(target[c]).kind = "Ok" /\ Ok(target[c]).snapshot = target[c]
  BY <1>5 DEF Ok, Answers
<1>8. TypeOK'
  <2>1. answer' \in [Call -> Answers] /\ pc' \in [Call -> Label]
    BY <1>4, <1>7 DEF SagaInv, TypeOK, Label, Answers
  <2>2. bindings' \subseteq [request : Call, snapshot : Call]
    BY <1>4, <1>6 DEF SagaInv, TypeOK
  <2>3. QED
    BY <1>4, <2>1, <2>2 DEF SagaInv, TypeOK, world, Answers
<1>9. pc'[c] = "done" /\ answer'[c] = Ok(target[c]) /\ \A d \in Call \ {c} : SameCall(d)
  BY <1>4 DEF SameCall, SagaInv, TypeOK
<1>10. Grows
  BY <1>4 DEF Grows, world
<1>11. Rows'
  <2>1. \A b \in bindings' : \E t \in snapshots : b = [request |-> t.request, snapshot |-> t.id]
    BY <1>4, <1>5 DEF SagaInv, Rows
  <2>2. QED
    BY <1>4, <2>1 DEF SagaInv, Rows, world, Alike
<1>12. CallInv(c)'
  <2>1. /\ RequestsOf(intent[c])' = RequestsOf(intent[c])
        /\ SnapshotsOf(intent[c])' = SnapshotsOf(intent[c])
    BY <1>4 DEF RequestsOf, SnapshotsOf
  <2>2. due[c] => Decidable(c)'
    BY <1>4, <2>1 DEF SagaInv, CallInv, Decidable, Readable
  <2>3. BoundTo(c, target[c])'
    BY <1>2, <1>4, <2>1 DEF BoundTo, new
  <2>4. BoundTo(c, answer[c].snapshot)'
    BY <1>4, <1>7, <1>9, <2>3 DEF BoundTo
  <2>5. QED
    BY <1>4, <1>7, <1>9, <2>2, <2>4 DEF CallInv, Working
<1>13. QED
  BY <1>4, <1>8, <1>9, <1>10, <1>11, <1>12, OthersKept DEF SagaInv

LEMMA InsertBindingKeeps ==
  ASSUME SagaInv, NEW c \in Call, InsertBinding(c)
  PROVE  SagaInv'
<1>1. CASE \E b \in bindings : b.request = frozen[c].id \/ b.snapshot = target[c]
  <2>1. pc[c] = "insertBinding" /\ Proceed(c, "reloadBinding")
    BY <1>1 DEF InsertBinding
  <2>2. frozen[c] \in RequestsOf(intent[c]) /\ Aimed(c)
    BY <2>1, RequestOfCall DEF SagaInv, CallInv, Working
  <2>3. QED
    BY <1>1, <2>1, <2>2, ProceedKeeps DEF Label
<1>2. QED
  BY <1>1, BindingAddsKeeps

(* The winner of the race for a binding bound the same decision.             *)
LEMMA ReloadBindingKeeps ==
  ASSUME SagaInv, NEW c \in Call, ReloadBinding(c)
  PROVE  SagaInv'
<1>1. pc[c] = "reloadBinding"
  BY DEF ReloadBinding
<1>2. /\ frozen[c] \in requests /\ frozen[c].intent = intent[c] /\ frozen[c] \in RequestsOf(intent[c])
  BY <1>1, RequestOfCall DEF Working
<1>3. PICK s \in SnapshotsOf(intent[c]) : s.id = target[c] /\ Exact(s, frozen[c])
  BY <1>1 DEF SagaInv, CallInv, Aimed
<1>4. PICK b \in bindings : b.request = frozen[c].id \/ b.snapshot = target[c]
  BY <1>1 DEF SagaInv, CallInv
<1>5. PICK t \in snapshots : b = [request |-> t.request, snapshot |-> t.id]
  BY <1>4 DEF SagaInv, Rows
<1>6. s \in snapshots /\ s.intent = intent[c]
  BY <1>3 DEF SnapshotsOf
<1>7. t.intent = intent[c]
  <2>1. CASE b.request = frozen[c].id
    BY <1>2, <1>5, <2>1, DecisionOfRequest
  <2>2. CASE b.snapshot = target[c]
    <3>1. t.id = s.id
      BY <1>3, <1>5, <2>2
    <3>2. QED
      BY <1>6, <3>1 DEF SagaInv, Rows
  <2>3. QED
    BY <1>4, <2>1, <2>2
<1>8. t = s
  BY <1>6, <1>7 DEF SagaInv, Rows
<1>9. b.snapshot = target[c] /\ b.request = frozen[c].id
      /\ b = [request |-> frozen[c].id, snapshot |-> target[c]]
  BY <1>3, <1>5, <1>8 DEF Exact
<1>10. Finish(c, Ok(target[c]))
  BY <1>1, <1>4, <1>9, AimedIsCoherent DEF ReloadBinding, BindingsOf
<1>11. BoundTo(c, target[c])
  BY <1>2, <1>4, <1>9 DEF BoundTo
<1>12. Ok(target[c]) \in Answers /\ Ok(target[c]).kind = "Ok" /\ Ok(target[c]).snapshot = target[c]
  BY <1>3, <1>6 DEF Ok, Answers, SagaInv, TypeOK
<1>13. QED
  BY <1>1, <1>10, <1>11, <1>12, FinishKeeps

(* The participant's transactions wait for the lock of a call.               *)
LEMMA ParticipantKeeps ==
  ASSUME SagaInv, NEW i \in Intent, FinalizeIntent(i) \/ InvalidateIntent(i)
  PROVE  SagaInv'
<1>1. /\ UNCHANGED <<tables, intent, build, pc, frozen, target, answer, due>>
      /\ finalized \subseteq finalized'
      /\ \A c \in Call : pc[c] = "commitFreeze" => intent[c] # i
      /\ invalidated' \subseteq invalidated \cup {i}
  BY DEF FinalizeIntent, InvalidateIntent, HoldsIntent, input
<1>2. TypeOK'
  BY DEF SagaInv, TypeOK, FinalizeIntent, InvalidateIntent, input, tables
<1>3. Rows' /\ Locks'
  BY <1>1, RowsKept DEF SagaInv, Locks, HoldsIntent
<1>4. ASSUME NEW c \in Call
      PROVE  CallInv(c)'
  <2>1. Grows /\ SameCall(c)
    BY <1>1 DEF Grows, SameCall, tables
  <2>2. pc[c] = "commitFreeze" => RequestsOf(intent[c])' = {} /\ intent[c] \notin invalidated'
    BY <1>1 DEF SagaInv, CallInv, RequestsOf, tables
  <2>3. QED
    BY <2>1, <2>2, CallKept DEF SagaInv
<1>5. QED
  BY <1>2, <1>3, <1>4 DEF SagaInv

LEMMA InitInv == Init => SagaInv
<1> SUFFICES ASSUME Init PROVE Rows /\ Locks /\ \A c \in Call : CallInv(c)
  BY InitType DEF SagaInv
<1>2. Rows /\ Locks
  BY DEF Init, Rows, Locks, HoldsIntent
<1>3. ASSUME NEW c \in Call
      PROVE  CallInv(c)
  BY DEF Init, CallInv, NoAnswer, Working
<1>4. QED
  BY <1>2, <1>3

LEMMA NextInv == SagaInv /\ [Next]_vars => SagaInv'
<1> SUFFICES ASSUME SagaInv, [Next]_vars PROVE SagaInv'
  OBVIOUS
<1>2. ASSUME NEW c \in Call, Step(c)
      PROVE  SagaInv'
  BY <1>2, LoadKeeps, FindRequestKeeps, FindBindingKeeps, LockIntentKeeps, FreezeKeeps,
     CommitFreezeKeeps, FindKeeps, PersistKeeps, BindKeeps, InsertBindingKeeps,
     ReloadBindingKeeps DEF Step
<1>3. ASSUME UNCHANGED vars
      PROVE  SagaInv'
  <2>1. UNCHANGED <<world, tables, intent, build, pc, authorities, frozen, target, answer, due>>
    BY <1>3 DEF vars, input
  <2>2. TypeOK' /\ Rows' /\ Locks'
    BY <2>1, RowsKept DEF SagaInv, TypeOK, Locks, HoldsIntent, world, tables
  <2>3. \A c \in Call : CallInv(c)'
    <3>1. Grows /\ \A c \in Call : SameCall(c)
      BY <2>1 DEF Grows, SameCall, world, tables
    <3>2. \A c \in Call : pc[c] = "commitFreeze" =>
            RequestsOf(intent[c])' = {} /\ intent[c] \notin invalidated'
      BY <2>1 DEF SagaInv, CallInv, RequestsOf, world, tables
    <3>3. QED
      BY <3>1, <3>2, CallKept DEF SagaInv
  <2>4. QED
    BY <2>2, <2>3 DEF SagaInv
<1>4. QED
  BY <1>2, <1>3, BeginKeeps, CrashKeeps, ParticipantKeeps DEF Next, Terminated

LEMMA Invariance == Spec => []SagaInv
  BY InitInv, NextInv, PTL DEF Spec
-----------------------------------------------------------------------------
(* Every row, every call's position and everything it holds stay of their    *)
(* type, under every interleaving of sagas, crashes and the participant.     *)
THEOREM TypeCorrect == Spec => []TypeOK
<1>1. SagaInv => TypeOK
  BY DEF SagaInv
<1>2. QED
  BY <1>1, Invariance, PTL

(* However many sagas of whatever builds race and resume, an intent has one  *)
(* frozen request, one decision and one binding, about each other, and what  *)
(* requestPurchaseIntentDecision returned as Ok is that decision, bound.     *)
THEOREM OneDecision == Spec => []OneDecisionPerIntent
<1>1. ASSUME SagaInv
      PROVE  OneDecisionPerIntent
  <2>1. ASSUME NEW b \in bindings, NEW d \in bindings,
               d.request = b.request \/ d.snapshot = b.snapshot
        PROVE  d = b
    <3>1. PICK s \in snapshots : b = [request |-> s.request, snapshot |-> s.id]
      BY <1>1 DEF SagaInv, Rows
    <3>2. PICK t \in snapshots : d = [request |-> t.request, snapshot |-> t.id]
      BY <1>1 DEF SagaInv, Rows
    <3>3. PICK r \in requests : r.id = s.request /\ r.intent = s.intent
      BY <1>1 DEF SagaInv, Rows
    <3>4. s.intent = t.intent
      <4>1. CASE s.request = t.request
        BY <1>1, <3>3, <4>1, DecisionOfRequest
      <4>2. CASE s.id = t.id
        BY <1>1, <4>2 DEF SagaInv, Rows
      <4>3. QED
        BY <2>1, <3>1, <3>2, <4>1, <4>2
    <3>5. QED
      BY <1>1, <3>1, <3>2, <3>4 DEF SagaInv, Rows
  <2>2. \A b \in bindings : \E s \in snapshots : b.snapshot = s.id /\ b.request = s.request
    BY <1>1 DEF SagaInv, Rows
  <2>3. \A c \in Call : answer[c].kind = "Ok" => BoundTo(c, answer[c].snapshot)
    BY <1>1 DEF SagaInv, CallInv
  <2>4. QED
    BY <1>1, <2>1, <2>2, <2>3 DEF OneDecisionPerIntent, SagaInv, Rows, BoundTo
<1>2. QED
  BY <1>1, Invariance, PTL

(* A decision is computed under the engine, and a corpus of the meaning, its *)
(* request was frozen with: the gate's digest is enough, though no snapshot  *)
(* records it and provenance looks at no operational state.                  *)
THEOREM PinnedDecisions == Spec => []DecidedAsPinned
<1>1. ASSUME SagaInv
      PROVE  DecidedAsPinned
  <2>1. ASSUME NEW s \in snapshots, NEW r \in requests, s.request = r.id
        PROVE  Contract[s.by] = Contract[r.by] /\ SameMeaning(Corpus[s.by], Corpus[r.by])
    <3>1. Alike(s.by, r.by)
      BY <1>1, <2>1, DecisionOfRequest
    <3>2. s.by \in Build /\ r.by \in Build
      BY <1>1, StartsAreBuilds DEF SagaInv, TypeOK, RequestRow
    <3>3. QED
      BY <3>1, <3>2, AlikeIsMeaning
  <2>2. QED
    BY <2>1 DEF DecidedAsPinned
<1>2. QED
  BY <1>1, Invariance, PTL

(* A call that begins when its intent is decided, or frozen under its own    *)
(* engine and text in a format its build retains, and does not die, returns  *)
(* the decision: no invalidation, build, calendar or order takes it away.    *)
THEOREM RepairNeverFails == Spec => []RepairSucceeds
<1>1. SagaInv => RepairSucceeds
  BY DEF SagaInv, CallInv, RepairSucceeds
<1>2. QED
  BY <1>1, Invariance, PTL

(* No race manufactures a conflict or an incoherent binding, and a refusal   *)
(* as drift is a change of engine or of the meaning of the corpus.           *)
THEOREM AlarmsAreTrue == Spec => []NoFalseConflict
<1>1. ASSUME SagaInv
      PROVE  NoFalseConflict
  <2>1. ASSUME NEW c \in Call, answer[c].kind = "SemanticDrift"
        PROVE  \/ Contract[build[c]] # Contract[frozen[c].by]
               \/ ~SameMeaning(Corpus[build[c]], Corpus[frozen[c].by])
    <3>1. frozen[c] \in requests /\ ~Alike(build[c], frozen[c].by)
      BY <1>1, <2>1, DriftedIsUnlike DEF SagaInv, CallInv, RequestsOf
    <3>2. build[c] \in Build /\ frozen[c].by \in Build
      BY <1>1, <3>1, StartsAreBuilds DEF SagaInv, TypeOK, RequestRow
    <3>3. QED
      BY <3>1, <3>2, AlikeIsMeaning
  <2>2. QED
    BY <1>1, <2>1 DEF NoFalseConflict, SagaInv, CallInv
<1>2. QED
  BY <1>1, Invariance, PTL

(* A request commits only on an intent that is finalized and not invalidated *)
(* at that moment, whatever the saga read before it had the lock.            *)
THEOREM FrozenInTime == Spec => FrozenWhileOpen
<1> DEFINE A == \A r \in requests' \ requests :
                  r.intent \in finalized /\ r.intent \notin invalidated'
<1>1. ASSUME SagaInv, NEW c \in Call, CommitFreeze(c)
      PROVE  A
  <2>1. /\ frozen[c] = OwnRequest(c) /\ intent[c] \in finalized /\ intent[c] \notin invalidated
    BY <1>1 DEF CommitFreeze, SagaInv, CallInv
  <2>2. requests' = requests \cup {frozen[c]} /\ invalidated' = invalidated
    BY <1>1 DEF CommitFreeze, world
  <2>3. QED
    BY <2>1, <2>2 DEF OwnRequest
<1>2. ASSUME SagaInv, Next
      PROVE  A
  <2>1. ASSUME NEW c \in Call, Begin(c) \/ Step(c) \/ Crash(c), ~CommitFreeze(c)
        PROVE  UNCHANGED requests
    BY <2>1 DEF Begin, Step, Crash, Load, FindRequest, FindBinding, LockIntent, Freeze, Find,
       Persist, Bind, InsertBinding, ReloadBinding, ReadThen, Resume, Aim, Finish, Proceed, tables
  <2>2. ASSUME NEW i \in Intent, FinalizeIntent(i) \/ InvalidateIntent(i)
        PROVE  UNCHANGED requests
    BY <2>2 DEF FinalizeIntent, InvalidateIntent, tables
  <2>3. Terminated => UNCHANGED requests
    BY DEF Terminated, vars, tables
  <2>4. QED
    BY <1>1, <1>2, <2>1, <2>2, <2>3 DEF Next
<1>3. SagaInv /\ [Next]_vars => [A]_vars
  BY <1>2
<1>4. QED
  BY <1>3, Invariance, PTL DEF Spec, FrozenWhileOpen
=============================================================================
