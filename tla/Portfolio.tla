------------------------------ MODULE Portfolio ------------------------------
(* The eligibility portfolio as a participant's client writes it, and the    *)
(* canonical form that alone is stored, hashed and decided on                *)
(* (src/src/study/eligibility-portfolio.ts).                                 *)
(*                                                                           *)
(* A text is [token, padded]: what is left of it without the white space     *)
(* around it, None of a blank one, and whether there is any. A written       *)
(* portfolio is [instruments, privateStates, declarations]: a sequence of    *)
(* [family, network, tier, memberships], the tier a text, the memberships a  *)
(* sequence of texts, and two maps from texts to YES, NO and UNKNOWN; what   *)
(* is optional may be None. In the canonical form tokens stand for texts.    *)
EXTENDS Applicability, SequencesExt, TLC

CONSTANT Alphabet  \* the families, networks, tiers and memberships by code points

Tokens == ToSet(Alphabet)
Text(token) == [token |-> token, padded |-> FALSE]
Texts == [token : Tokens \cup {None}, padded : BOOLEAN]

(* A token has one place, and nothing that is given is None.                 *)
ASSUME AlphabetAssumption ==
  /\ Alphabet \in Seq(Tokens)
  /\ \A i, j \in DOMAIN Alphabet : Alphabet[i] = Alphabet[j] => i = j
  /\ None \notin Tokens \cup Texts /\ None \notin Seq(Tokens) /\ None \notin Seq(Texts)

WrittenCard(i) ==
  i \in [family : Tokens, network : {None} \cup Tokens, tier : {None} \cup Texts,
         memberships : {None} \cup Seq(Texts)]

WrittenMap(map) ==
  map # None =>
    /\ map \in [DOMAIN map -> {"YES", "NO", "UNKNOWN"}]
    /\ LET keys == {x.token : x \in DOMAIN map}
       IN /\ None \notin [keys -> {"YES", "NO", "UNKNOWN"}]
          /\ None \notin [{Text(key) : key \in keys} -> {"YES", "NO", "UNKNOWN"}]
-----------------------------------------------------------------------------
Rank(token) == IF token = None THEN 0 ELSE CHOOSE i \in DOMAIN Alphabet : Alphabet[i] = token

(* A sequence without its repetitions, in the order of some pairs of values; *)
(* what they leave open stays in the order in which it came.                 *)
FirstPlaces(s) == {i \in DOMAIN s : \A j \in 1 .. i - 1 : s[j] # s[i]}
SortedDistinct(s, before) ==
  LET places == FirstPlaces(s)
      Ahead(i) == {j \in places : <<s[j], s[i]>> \in before \/ (<<s[i], s[j]>> \notin before /\ j < i)}
  IN [n \in 1 .. Cardinality(places) |-> s[CHOOSE i \in places : Cardinality(Ahead(i)) = n - 1]]

(* The lists of memberships, serialized, are in the order of their tokens,   *)
(* and a list comes after the longer ones it begins: the bracket that closes *)
(* it is above the comma and the quote.                                      *)
CanonicalMembershipsSerialized(memberships) ==
  (IF memberships = None THEN <<>> ELSE [i \in DOMAIN memberships |-> Rank(memberships[i])])
  \o <<Len(Alphabet) + 1>>

InstrumentSortTuple(i) ==
  <<Rank(i.family), Rank(i.network), Rank(i.tier)>>
  \o CanonicalMembershipsSerialized(i.memberships)

LexicographicallyBefore(a, b) ==
  \E n \in DOMAIN a \cap DOMAIN b : a[n] < b[n] /\ \A k \in 1 .. n - 1 : a[k] = b[k]

(* Mutant: cards are told apart by family, network and tier only.            *)
CompareWithoutMemberships(a, b) ==
  LexicographicallyBefore(SubSeq(InstrumentSortTuple(a), 1, 3), SubSeq(InstrumentSortTuple(b), 1, 3))

CompareInstrument(a, b) ==
  LexicographicallyBefore(InstrumentSortTuple(a), InstrumentSortTuple(b))
-----------------------------------------------------------------------------
(* No memberships are the same as none given.                                *)
NormalizeMemberships(texts) ==
  IF texts \in {None, <<>>} THEN None
  ELSE LET tokens == [i \in DOMAIN texts |-> texts[i].token]
           before == {p \in ToSet(tokens) \X ToSet(tokens) : Rank(p[1]) < Rank(p[2])}
       IN SortedDistinct(tokens, before)

NormalizeInstrument(i) ==
  [family |-> i.family, network |-> i.network,
   tier |-> IF i.tier = None THEN None ELSE i.tier.token,
   memberships |-> NormalizeMemberships(i.memberships)]

(* The texts of a map that come to the same key must be one text.            *)
KeysCollide(map) ==
  map # None /\ \E x, y \in DOMAIN map : x.token = y.token /\ x # y

NormalizeTriMap(map) ==
  IF map = None \/ DOMAIN map = {} THEN None
  ELSE [key \in {x.token : x \in DOMAIN map} |->
          LET text == CHOOSE x \in DOMAIN map : x.token = key IN map[text]]

KeysOf(map) == IF map = None THEN {} ELSE DOMAIN map
TierOf(i) == When(i.tier # None, i.tier)
MembershipsOf(i) == IF i.memberships = None THEN {} ELSE ToSet(i.memberships)

(* A blank text and a collision of keys are refused, never dropped.          *)
Filled(texts) == \A text \in texts : text.token # None
Acceptable(written) ==
  /\ \A i \in ToSet(written.instruments) : Filled(TierOf(i) \cup MembershipsOf(i))
  /\ Filled(KeysOf(written.privateStates)) /\ ~KeysCollide(written.privateStates)
  /\ Filled(KeysOf(written.declarations)) /\ ~KeysCollide(written.declarations)

NormalizeEligibilityPortfolio(written) ==
  LET cards == [i \in DOMAIN written.instruments |-> NormalizeInstrument(written.instruments[i])]
      before == {p \in ToSet(cards) \X ToSet(cards) : CompareInstrument(p[1], p[2])}
  IN [instruments |-> SortedDistinct(cards, before),
      privateStates |-> NormalizeTriMap(written.privateStates),
      declarations |-> NormalizeTriMap(written.declarations)]
-----------------------------------------------------------------------------
(* The stored form is read back, and normalized again, for a decision.       *)
Keyed(map) ==
  IF map = None THEN None ELSE [text \in {Text(key) : key \in DOMAIN map} |-> map[text.token]]
ReadBack(stored) ==
  [instruments |->
     [n \in DOMAIN stored.instruments |->
        LET i == stored.instruments[n]
        IN [i EXCEPT !.tier = IF @ = None THEN None ELSE Text(@),
                     !.memberships = IF @ = None THEN None ELSE [k \in DOMAIN @ |-> Text(@[k])]]],
   privateStates |-> Keyed(stored.privateStates),
   declarations |-> Keyed(stored.declarations)]

(* What the engine makes of it, see Applicability.                           *)
Entries(map) == IF map = None THEN <<>> ELSE map
AsPortfolio(stored) ==
  [instruments |->
     {[i EXCEPT !.memberships = IF @ = None THEN {} ELSE ToSet(@)] : i \in ToSet(stored.instruments)},
   privateStates |-> Entries(stored.privateStates),
   declarations |-> Entries(stored.declarations)]
=============================================================================
