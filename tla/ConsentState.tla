---------------------------- MODULE ConsentState ----------------------------
(***************************************************************************)
(* The pure consent domain of study/consent-state.ts: the as-of state, the *)
(* evaluation of a GRANT and of a WITHDRAW command, the derivation of      *)
(* authorization intervals and the collection-time question.  An event is  *)
(*   [seq, action, provenance, asserted, captured, recorded]               *)
(* with instants as naturals, one unit standing for one millisecond; a     *)
(* history is a set of events, ordered by seq alone.                       *)
(***************************************************************************)
EXTENDS Integers, FiniteSets, SequencesExt

CONSTANT None   \* null: no asserted instant, no end, no open grant

(* orderBySeq, effectiveEvent and effectiveConsentState.                    *)
OrderBySeq(events) ==
  CHOOSE q \in [1..Cardinality(events) -> events] :
    IsInjective(q) /\ \A i, j \in DOMAIN q : i < j => q[i].seq <= q[j].seq
EffectiveEvent(events) ==
  CHOOSE e \in events : \A d \in events : d.seq <= e.seq
EffectiveConsentState(events) ==
  IF events = {} THEN "NO_CONSENT" ELSE EffectiveEvent(events).action

-----------------------------------------------------------------------------
(* evaluateGrant: no re-consent, and a repeated grant changes nothing.      *)
EvaluateGrant(events, provenance) ==
  LET state == EffectiveConsentState(events) IN
  CASE state = "NO_CONSENT" -> "APPEND"
    [] state = "WITHDRAWN"  -> "INVALID_TRANSITION"
    [] state = "GRANTED"    ->
         IF EffectiveEvent(events).provenance = provenance
         THEN "NO_OP_EFFECTIVE_STATE" ELSE "UPDATE_NOT_SUPPORTED"

(* evaluateWithdraw: a legal withdrawal always appends; a second one with   *)
(* another asserted instant is acknowledged and not applied.                *)
EvaluateWithdraw(events, asserted) ==
  LET state == EffectiveConsentState(events) IN
  CASE state = "NO_CONSENT" -> "INVALID_TRANSITION"
    [] state = "GRANTED"    -> "APPEND"
    [] state = "WITHDRAWN"  ->
         IF EffectiveEvent(events).asserted = asserted
         THEN "NO_OP_EFFECTIVE_STATE" ELSE "CORRECTION_NOT_APPLIED"

-----------------------------------------------------------------------------
(* Mutant: the asserted instant of a withdrawal is ignored.                 *)
CloseAtCapture(w) == w.captured

(* closeAt: an asserted instant can only bring the end forward.               *)
CloseAt(w) ==
  IF w.asserted # None /\ w.asserted < w.captured THEN w.asserted ELSE w.captured

(* deriveConsentAuthorizationIntervals: the loop over the ordered events,   *)
(* with the open grant, the intervals so far and whether it has thrown.     *)
DeriveStep(acc, e) ==
  IF acc.threw \/ (e.action = "GRANTED" <=> acc.open # None)
  THEN [acc EXCEPT !.threw = TRUE]
  ELSE IF e.action = "GRANTED"
  THEN [acc EXCEPT !.open = e.captured]
  ELSE [open |-> None, threw |-> FALSE,
        intervals |-> acc.intervals \cup (IF CloseAt(e) > acc.open
                                         THEN {[start |-> acc.open, end |-> CloseAt(e)]} ELSE {})]

Derive(events) ==
  LET order == OrderBySeq(events)
      acc[n \in 0..Cardinality(events)] ==
        IF n = 0 THEN [open |-> None, intervals |-> {}, threw |-> FALSE]
        ELSE DeriveStep(acc[n - 1], order[n])
  IN  acc[Cardinality(events)]

(* Mutant: a grant that is still open authorizes nothing.                   *)
ClosedIntervals(events) == Derive(events).intervals

(* The derivation fails closed on a history that no command could write.    *)
Derivable(events) == ~Derive(events).threw

DeriveConsentAuthorizationIntervals(events) ==
  LET d == Derive(events)
  IN  d.intervals \cup
        (IF d.open = None THEN {} ELSE {[start |-> d.open, end |-> None]})

-----------------------------------------------------------------------------
(* wasCollectionAuthorizedAtKnownTime: only what was recorded by asOf is    *)
(* visible; an interval is half-open.                                       *)
Visible(events, asOf) == {e \in events : e.recorded <= asOf}

WasCollectionAuthorized(events, collectionAt, asOf) ==
  \E i \in DeriveConsentAuthorizationIntervals(Visible(events, asOf)) :
    /\ i.start <= collectionAt
    /\ i.end = None \/ collectionAt < i.end

(* What that question means to who knows of these events: some grant was     *)
(* captured by the instant, and the withdrawal after it, if any, neither     *)
(* captured nor asserted by then.                                            *)
Meant(known, t) ==
  \E g \in known :
    /\ g.action = "GRANTED" /\ g.captured <= t
    /\ \A w \in known : w.seq = g.seq + 1 =>
         t < w.captured /\ (w.asserted # None => t < w.asserted)
=============================================================================
