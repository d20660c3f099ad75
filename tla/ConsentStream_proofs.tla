------------------------- MODULE ConsentStream_proofs -------------------------
(* Proofs about ConsentStream for every instant and provenance: a stream is  *)
(* a history (ConsentState_proofs), and of those the derivation is proved.   *)
EXTENDS ConsentStream, ConsentState_proofs

LEMMA InitHistory == Init => History(events)
  BY DEF Init, History

(* The one event a command appends: a grant first, a withdrawal after it.    *)
LEMMA GrantAppends ==
  ASSUME History(events), NEW p \in Provenance, Grant(p)
  PROVE  History(events')
<1>1. events = {}
  BY StateOfHistory DEF Grant, EvaluateGrant, History
<1>2. PICK captured \in Instant, recorded \in Instant :
        events' = {[seq |-> Cardinality({}) + 1, action |-> "GRANTED", provenance |-> p,
                    asserted |-> None, captured |-> captured, recorded |-> recorded]}
  BY <1>1 DEF Grant, AppendEvent
<1>3. QED
  BY <1>2, FS_EmptySet, StreamAssumption DEF History, IsGrant, Instant

LEMMA WithdrawAppends ==
  ASSUME History(events), NEW asserted \in Instant \cup {None}, Withdraw(asserted)
  PROVE  History(events')
<1>1. PICK g \in events : IsGrant(g) /\ events = {g}
  BY StateOfHistory DEF Withdraw, EvaluateWithdraw, History
<1>2. PICK captured \in Instant, recorded \in Instant :
        events' = {g} \cup {[seq |-> Cardinality({g}) + 1, action |-> "WITHDRAWN", provenance |-> None,
                             asserted |-> asserted, captured |-> captured, recorded |-> recorded]}
  BY <1>1 DEF Withdraw, AppendEvent
<1> DEFINE w == [seq |-> 2, action |-> "WITHDRAWN", provenance |-> None,
                 asserted |-> asserted, captured |-> captured, recorded |-> recorded]
<1>3. events' = {g, w}
  <2>1. Cardinality({g}) = 1
    BY FS_Singleton
  <2>2. Cardinality({g}) + 1 = 2
    BY <2>1
  <2>3. QED
    BY <1>2, <2>2
<1>4. IsWithdrawal(w)
  BY StreamAssumption DEF IsWithdrawal, Instant
<1>5. QED
  BY <1>1, <1>3, <1>4 DEF History

LEMMA StreamIsHistory == Spec => []History(events)
<1>1. History(events) /\ [Next]_events => History(events)'
  BY GrantAppends, WithdrawAppends DEF Next
<1>2. QED
  BY <1>1, InitHistory, PTL DEF Spec

(* On every stream that recordConsentCommand can write, at every instant and *)
(* for whoever knows a part of it, the loop over the ordered events computes *)
(* what the intervals mean, and a stream known in full is never rejected.    *)
THEOREM DerivationCorrect == Spec => []DerivationIsMeant
<1>1. ASSUME History(events)
      PROVE  DerivationIsMeant
  <2>1. ASSUME NEW t \in Instant, NEW asOf \in Instant
        PROVE  WasCollectionAuthorized(events, t, asOf) <=> Meant(Visible(events, asOf), t)
    <3>1. t \in Nat /\ Visible(events, asOf) \in SUBSET events
      BY StreamAssumption DEF Instant, Visible
    <3>2. Authorized(Visible(events, asOf), t) <=> Meant(Visible(events, asOf), t)
      BY <1>1, <3>1, StreamAssumption, AuthorizedIsMeant
    <3>3. QED
      BY <3>2 DEF Authorized, WasCollectionAuthorized
  <2>2. QED
    BY <1>1, <2>1, StreamAssumption, HistoryIsDerivable DEF DerivationIsMeant
<1>2. QED
  BY <1>1, StreamIsHistory, PTL

(* Hindsight only narrows: what deriveConsentAuthorizationIntervals          *)
(* authorizes to who knows more, it authorized to whoever knew of the grant. *)
THEOREM HindsightOnlyNarrows == Spec => []HindsightNarrows
<1>1. ASSUME History(events), DerivationIsMeant
      PROVE  HindsightNarrows
  <2>1. SUFFICES
          ASSUME NEW t \in Instant, NEW known \in Instant, NEW later \in Instant, known <= later,
                 NEW g \in Visible(events, known), g.action = "GRANTED",
                 WasCollectionAuthorized(events, t, later)
          PROVE  WasCollectionAuthorized(events, t, known)
    BY DEF HindsightNarrows
  <2>2. Meant(Visible(events, later), t)
    BY <1>1, <2>1 DEF DerivationIsMeant
  <2>3. PICK h \in Visible(events, later) :
          /\ h.action = "GRANTED" /\ h.captured <= t
          /\ \A w \in Visible(events, later) : w.seq = h.seq + 1 =>
               t < w.captured /\ (w.asserted # None => t < w.asserted)
    BY <2>2 DEF Meant
  <2>4. h = g
    BY <1>1, <2>1, <2>3 DEF History, Visible, IsWithdrawal
  <2>5. Visible(events, known) \subseteq Visible(events, later)
    BY <1>1, <2>1, StreamAssumption DEF Visible, Instant, History, IsGrant, IsWithdrawal
  <2>6. Meant(Visible(events, known), t)
    BY <2>1, <2>3, <2>4, <2>5 DEF Meant
  <2>7. QED
    BY <1>1, <2>1, <2>6 DEF DerivationIsMeant
<1>2. QED
  BY <1>1, StreamIsHistory, DerivationCorrect, PTL
=============================================================================
