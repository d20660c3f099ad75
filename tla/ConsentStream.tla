--------------------------- MODULE ConsentStream ---------------------------
(***************************************************************************)
(* One assignment's consent stream as recordConsentCommand grows it, taken *)
(* by itself to compare the interval derivation of ConsentState with what  *)
(* the intervals mean.  Commands are serialized by the row lock, and the   *)
(* instants are those of one clock.                                        *)
(***************************************************************************)
EXTENDS ConsentState

CONSTANTS
  Provenance, \* what a grant consents to
  LastInstant \* bound on the clock

ASSUME StreamAssumption == None \notin Nat /\ LastInstant \in Nat

VARIABLE events

Instant == 0..LastInstant

Init == events = {}

(* capturedAt is sampled under the lock, after all that was inserted before *)
(* it.  recordedAt is a column default, taken at the insert or when the     *)
(* transaction began, which may be before an earlier event was recorded.    *)
AppendEvent(action, provenance, asserted) ==
  \E captured, recorded \in Instant :
    /\ \A e \in events : e.recorded <= captured /\ e.captured <= captured
    /\ events' = events \cup
         {[seq |-> Cardinality(events) + 1, action |-> action, provenance |-> provenance,
           asserted |-> asserted, captured |-> captured, recorded |-> recorded]}

Grant(p) ==
  EvaluateGrant(events, p) = "APPEND" /\ AppendEvent("GRANTED", p, None)
Withdraw(asserted) ==
  EvaluateWithdraw(events, asserted) = "APPEND" /\ AppendEvent("WITHDRAWN", None, asserted)

Next ==
  \/ \E p \in Provenance : Grant(p)
  \/ \E asserted \in Instant \cup {None} : Withdraw(asserted)

Spec == Init /\ [][Next]_events

-----------------------------------------------------------------------------
(* The loop over the ordered events computes what the intervals mean, on    *)
(* every history and for whoever knows a part of it; and a history known in *)
(* full is never rejected.                                                  *)
DerivationIsMeant ==
  /\ Derivable(events)
  /\ \A t, asOf \in Instant :
       WasCollectionAuthorized(events, t, asOf) <=> Meant(Visible(events, asOf), t)

(* Knowing more only narrows: what is authorized in hindsight was           *)
(* authorized for whoever already knew of the grant, so a fact accepted in  *)
(* ignorance of a withdrawal may fall, but one refused then never rises.    *)
HindsightNarrows ==
  \A t, known, later \in Instant :
    /\ known <= later
    /\ \E g \in Visible(events, known) : g.action = "GRANTED"
    /\ WasCollectionAuthorized(events, t, later)
    => WasCollectionAuthorized(events, t, known)
=============================================================================
