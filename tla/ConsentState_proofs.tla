------------------------- MODULE ConsentState_proofs -------------------------
(* What the loop of deriveConsentAuthorizationIntervals computes of every    *)
(* history that recordConsentCommand can write: nothing, a grant, or a grant *)
(* and its withdrawal; and of every part of one that can be visible.         *)
EXTENDS ConsentState, FiniteSetTheorems, TLAPS

IsGrant(e) == e.seq = 1 /\ e.action = "GRANTED" /\ e.captured \in Nat /\ e.recorded \in Nat
IsWithdrawal(e) ==
  /\ e.seq = 2 /\ e.action = "WITHDRAWN" /\ e.captured \in Nat /\ e.recorded \in Nat
  /\ e.asserted \in Nat \cup {None}
History(events) ==
  \/ events = {}
  \/ \E g \in events : IsGrant(g) /\ events = {g}
  \/ \E g, w \in events : IsGrant(g) /\ IsWithdrawal(w) /\ events = {g, w}

Start == [open |-> None, intervals |-> {}, threw |-> FALSE]

(* A function defined by recursion over 0 .. n, for the n there are.         *)
LEMMA DeriveNone == Derive({}) = Start
<1> DEFINE order == OrderBySeq({})
           Rec(f) == f = [n \in 0..0 |-> IF n = 0 THEN Start ELSE DeriveStep(f[n - 1], order[n])]
           acc == CHOOSE f : Rec(f)
<1>1. Cardinality({}) = 0
  BY FS_EmptySet
<1>2. Rec([n \in 0..0 |-> Start])
  OBVIOUS
<1>3. Rec(acc)
  BY <1>2
<1>4. acc[0] = Start
  BY <1>3
<1>5. QED
  BY <1>1, <1>4 DEF Derive, Start

LEMMA DeriveOne ==
  ASSUME NEW e
  PROVE  Derive({e}) = DeriveStep(Start, e)
<1> DEFINE order == OrderBySeq({e})
           Rec(f) == f = [n \in 0..1 |-> IF n = 0 THEN Start ELSE DeriveStep(f[n - 1], order[n])]
           acc == CHOOSE f : Rec(f)
<1>1. Cardinality({e}) = 1
  BY FS_Singleton
<1>2. order \in [1..1 -> {e}]
  <2>1. PICK q \in [1..1 -> {e}] : q = [i \in 1..1 |-> e]
    OBVIOUS
  <2>2. IsInjective(q) /\ \A i, j \in DOMAIN q : i < j => q[i].seq <= q[j].seq
    BY <2>1 DEF IsInjective
  <2>3. QED
    BY <1>1, <2>2 DEF OrderBySeq
<1>3. order[1] = e
  BY <1>2
<1> HIDE DEF order
<1>4. Rec([n \in 0..1 |-> IF n = 0 THEN Start ELSE DeriveStep(Start, order[n])])
  OBVIOUS
<1>5. Rec(acc)
  BY <1>4
<1> HIDE DEF acc
<1>6. acc[0] = Start /\ acc[1] = DeriveStep(acc[0], order[1])
  <2>1. acc[0] = Start
    BY <1>5
  <2>2. acc[1] = DeriveStep(acc[1 - 1], order[1])
    BY <1>5, 1 \in 0..1, 1 # 0
  <2>3. QED
    BY <2>1, <2>2, 1 - 1 = 0
<1>7. Derive({e}) = acc[1]
  BY <1>1 DEF Derive, Start, order, acc
<1>8. QED
  BY <1>3, <1>6, <1>7

LEMMA DeriveTwo ==
  ASSUME NEW d, NEW e, d # e, d.seq \in Nat, e.seq \in Nat, d.seq < e.seq
  PROVE  Derive({d, e}) = DeriveStep(DeriveStep(Start, d), e)
<1> DEFINE order == OrderBySeq({d, e})
           Rec(f) == f = [n \in 0..2 |-> IF n = 0 THEN Start ELSE DeriveStep(f[n - 1], order[n])]
           acc == CHOOSE f : Rec(f)
<1>1. Cardinality({d, e}) = 2
  <2>1. IsFiniteSet({d}) /\ Cardinality({d}) = 1 /\ e \notin {d} /\ {d, e} = {d} \cup {e}
    BY FS_Singleton
  <2>2. QED
    BY <2>1, FS_AddElement
<1>2. /\ order \in [1..2 -> {d, e}] /\ IsInjective(order)
      /\ \A i, j \in DOMAIN order : i < j => order[i].seq <= order[j].seq
  <2>1. PICK q \in [1..2 -> {d, e}] : q = [i \in 1..2 |-> IF i = 1 THEN d ELSE e]
    OBVIOUS
  <2>2. IsInjective(q) /\ \A i, j \in DOMAIN q : i < j => q[i].seq <= q[j].seq
    BY <2>1 DEF IsInjective
  <2>3. QED
    BY <1>1, <2>2 DEF OrderBySeq
<1>3. order[1] = d /\ order[2] = e
  <2>1. order[1] \in {d, e} /\ order[2] \in {d, e} /\ order[1] # order[2]
    BY <1>2 DEF IsInjective
  <2>2. order[1].seq <= order[2].seq
    BY <1>2
  <2>3. QED
    BY <2>1, <2>2
<1> HIDE DEF order
<1>4. Rec([n \in 0..2 |-> IF n = 0 THEN Start
                         ELSE IF n = 1 THEN DeriveStep(Start, order[1])
                         ELSE DeriveStep(DeriveStep(Start, order[1]), order[2])])
  OBVIOUS
<1>5. Rec(acc)
  BY <1>4
<1> HIDE DEF acc
<1>6. acc[0] = Start /\ acc[1] = DeriveStep(acc[0], order[1]) /\ acc[2] = DeriveStep(acc[1], order[2])
  <2>1. acc[0] = Start
    BY <1>5
  <2>2. acc[1] = DeriveStep(acc[1 - 1], order[1])
    BY <1>5, 1 \in 0..2, 1 # 0
  <2>3. acc[2] = DeriveStep(acc[2 - 1], order[2])
    BY <1>5, 2 \in 0..2, 2 # 0
  <2>4. QED
    BY <2>1, <2>2, <2>3, 1 - 1 = 0, 2 - 1 = 1
<1>7. Derive({d, e}) = acc[2]
  BY <1>1 DEF Derive, Start, order, acc
<1>8. QED
  BY <1>3, <1>6, <1>7

(* The question asked of the events visible at an instant.                   *)
Authorized(known, t) ==
  \E i \in DeriveConsentAuthorizationIntervals(known) : i.start <= t /\ (i.end = None \/ t < i.end)

LEMMA OneInterval ==
  ASSUME NEW known, NEW t, NEW from, NEW to,
         DeriveConsentAuthorizationIntervals(known) = {[start |-> from, end |-> to]}
  PROVE  Authorized(known, t) <=> from <= t /\ (to = None \/ t < to)
<1> DEFINE i == [start |-> from, end |-> to]
<1>1. i.start = from /\ i.end = to
  OBVIOUS
<1> HIDE DEF i
<1>2. Authorized(known, t) <=> i.start <= t /\ (i.end = None \/ t < i.end)
  BY DEF Authorized, i
<1>3. QED
  BY <1>1, <1>2

LEMMA AuthorizedIsMeant ==
  ASSUME None \notin Nat, NEW events, History(events), NEW known \in SUBSET events, NEW t \in Nat
  PROVE  Authorized(known, t) <=> Meant(known, t)
<1>1. CASE known = {}
  BY <1>1, DeriveNone DEF Authorized, Meant, DeriveConsentAuthorizationIntervals, Start
<1>2. ASSUME NEW g, IsGrant(g), known = {g}
      PROVE  Authorized(known, t) <=> Meant(known, t)
  <2>1. Derive(known) = [open |-> g.captured, intervals |-> {}, threw |-> FALSE]
    BY <1>2, DeriveOne DEF DeriveStep, Start, IsGrant
  <2>2. DeriveConsentAuthorizationIntervals(known) = {[start |-> g.captured, end |-> None]}
    BY <1>2, <2>1 DEF DeriveConsentAuthorizationIntervals, IsGrant
  <2>3. Authorized(known, t) <=> g.captured <= t
    BY <2>2, OneInterval
  <2>4. Meant(known, t) <=> g.captured <= t
    BY <1>2 DEF Meant, IsGrant
  <2>5. QED
    BY <2>3, <2>4
<1>3. ASSUME NEW w, IsWithdrawal(w), known = {w}
      PROVE  Authorized(known, t) <=> Meant(known, t)
  <2>1. Derive(known) = [open |-> None, intervals |-> {}, threw |-> TRUE]
    BY <1>3, DeriveOne DEF DeriveStep, Start, IsWithdrawal
  <2>2. DeriveConsentAuthorizationIntervals(known) = {}
    BY <2>1 DEF DeriveConsentAuthorizationIntervals
  <2>3. QED
    BY <1>3, <2>2 DEF Authorized, Meant, IsWithdrawal
<1>4. ASSUME NEW g, IsGrant(g), NEW w, IsWithdrawal(w), known = {g, w}
      PROVE  Authorized(known, t) <=> Meant(known, t)
  <2>1. Derive(known) = DeriveStep(DeriveStep(Start, g), w)
    BY <1>4, DeriveTwo DEF IsGrant, IsWithdrawal
  <2>2. DeriveStep(Start, g) = [open |-> g.captured, intervals |-> {}, threw |-> FALSE]
    BY <1>4 DEF DeriveStep, Start, IsGrant
  <2>3. /\ Derive(known).open = None
        /\ Derive(known).intervals =
             IF CloseAt(w) > g.captured THEN {[start |-> g.captured, end |-> CloseAt(w)]} ELSE {}
    BY <1>4, <2>1, <2>2 DEF DeriveStep, IsGrant, IsWithdrawal
  <2>4. Authorized(known, t) <=> CloseAt(w) > g.captured /\ g.captured <= t /\ t < CloseAt(w)
    <3>1. CloseAt(w) \in Nat
      BY <1>4 DEF CloseAt, IsWithdrawal
    <3>2. DeriveConsentAuthorizationIntervals(known) =
            IF CloseAt(w) > g.captured THEN {[start |-> g.captured, end |-> CloseAt(w)]} ELSE {}
      BY <2>3 DEF DeriveConsentAuthorizationIntervals
    <3>3. CASE CloseAt(w) > g.captured
      <4>1. Authorized(known, t) <=> g.captured <= t /\ (CloseAt(w) = None \/ t < CloseAt(w))
        BY <3>2, <3>3, OneInterval
      <4>2. QED
        BY <3>1, <3>3, <4>1
    <3>4. CASE ~(CloseAt(w) > g.captured)
      BY <3>2, <3>4 DEF Authorized
    <3>5. QED
      BY <3>3, <3>4
  <2>5. Meant(known, t) <=> /\ g.captured <= t
                            /\ t < w.captured /\ (w.asserted # None => t < w.asserted)
    BY <1>4 DEF Meant, IsGrant, IsWithdrawal
  <2>6. QED
    BY <1>4, <2>4, <2>5 DEF CloseAt, IsGrant, IsWithdrawal
<1>5. QED
  BY <1>1, <1>2, <1>3, <1>4 DEF History

LEMMA HistoryIsDerivable ==
  ASSUME None \notin Nat, NEW events, History(events)
  PROVE  Derivable(events)
<1>1. CASE events = {}
  BY <1>1, DeriveNone DEF Derivable, Start
<1>2. ASSUME NEW g, IsGrant(g), events = {g}
      PROVE  Derivable(events)
  BY <1>2, DeriveOne DEF DeriveStep, Start, IsGrant, Derivable
<1>3. ASSUME NEW g, IsGrant(g), NEW w, IsWithdrawal(w), events = {g, w}
      PROVE  Derivable(events)
  <2>1. Derive(events) = DeriveStep(DeriveStep(Start, g), w)
    BY <1>3, DeriveTwo DEF IsGrant, IsWithdrawal
  <2>2. DeriveStep(Start, g) = [open |-> g.captured, intervals |-> {}, threw |-> FALSE]
    BY <1>3 DEF DeriveStep, Start, IsGrant
  <2>3. QED
    BY <1>3, <2>1, <2>2 DEF DeriveStep, Derivable, IsGrant, IsWithdrawal
<1>4. QED
  BY <1>1, <1>2, <1>3 DEF History

(* The state of a history is that of its last event.                         *)
LEMMA StateOfHistory ==
  ASSUME NEW events, History(events)
  PROVE  /\ events = {} => EffectiveConsentState(events) = "NO_CONSENT"
         /\ \A g : IsGrant(g) /\ events = {g} =>
              EffectiveEvent(events) = g /\ EffectiveConsentState(events) = "GRANTED"
         /\ \A g, w : IsGrant(g) /\ IsWithdrawal(w) /\ events = {g, w} =>
              EffectiveEvent(events) = w /\ EffectiveConsentState(events) = "WITHDRAWN"
<1>1. ASSUME NEW g, IsGrant(g), events = {g}
      PROVE  EffectiveEvent(events) = g
  BY <1>1 DEF EffectiveEvent, IsGrant
<1>2. ASSUME NEW g, NEW w, IsGrant(g), IsWithdrawal(w), events = {g, w}
      PROVE  EffectiveEvent(events) = w
  <2>1. \A e \in events : (\A d \in events : d.seq <= e.seq) <=> e = w
    BY <1>2 DEF IsGrant, IsWithdrawal
  <2>2. QED
    BY <1>2, <2>1 DEF EffectiveEvent
<1>3. QED
  BY <1>1, <1>2 DEF EffectiveConsentState, IsGrant, IsWithdrawal
=============================================================================
