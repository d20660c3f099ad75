----------------------------- MODULE CorpusSchema -----------------------------
(* The shape of a serialized corpus (src/src/corpus/schema.ts): an object is *)
(* strict, a choice is closed, and money is a safe integer that is not       *)
(* negative. Fields the engine does not read are left out, as in Offer, and  *)
(* names are anything but None.                                              *)
EXTENDS Settlement

(* An optional field that is absent is None, and None is no value.           *)
Optional(schema) == schema \cup {None}

Centimos == 0 .. MaxSafe
Positive == Nat \ {0}

SelectorNames ==
  GeneralBillSelectors \cup {"EXACT_SKU_BUNDLE", "TICKET_UNIT", "NON_EQUIVALENT_PURCHASE"}
SourceQualityStates == {"FRESH", "STALE", "INACCESSIBLE", "CONFLICTED", "UNKNOWN"}

CapSchema ==
  [kind : {"AMOUNT"}, centimos : Centimos] \cup [kind : {"UNKNOWN_NOT_STATED"}]
ASSUME CapAssumption == None \notin CapSchema

(* The cost of acquiring a benefit in kind is optional.                      *)
BenefitSchema(b) ==
  \/ b \in [type : {"PERCENT"}, bps : Positive,
            rounding : {"FLOOR_TO_CENT", "ROUND_HALF_UP_TO_CENT", "EXACT_FIXED", "UNKNOWN"}]
  \/ b \in [type : {"FIXED_DISCOUNT"}, discount : Centimos, amountDependent : BOOLEAN]
  \/ b \in [type : {"FIXED_PRICE", "FIXED_BUNDLE"}, price : Centimos]
  \/ b \in [type : {"TWO_FOR_ONE"}, pay : Positive, of : Positive]
  \/ b \in [type : {"CASHBACK"}]
  \/ /\ DOMAIN b = {"type", "value", "unit", "acquisition"}
     /\ b.type = "NON_CASH_NOMINAL" /\ b.value \in Centimos \ {0}
     /\ b.acquisition \in Optional(Centimos)

(* The constraints of a rule are fields of the rule. Nothing reads its stock.*)
RuleFields ==
  {"merchants", "family", "benefit", "selector", "items", "ticket", "temporal", "weekdays",
   "window", "holiday", "blackout", "minimum", "cap", "channels", "include", "exclude",
   "products", "network", "tier", "membership", "privateKey", "verifiable", "combinability",
   "class", "confidence", "scopes", "signatureKind"}

ConstraintsSchema(rule) ==
  /\ rule.temporal.kind \in {"LOCAL_DATE_RANGE", "LOCAL_DATETIME_RANGE", "OBSERVED_ACTIVE_UNTIL"}
  /\ rule.weekdays \subseteq 0 .. 6
  /\ rule.holiday \in {"NONE", "EXCLUDED", "SPECIFIC_DATES", "UNKNOWN"}
  /\ rule.minimum \in Optional([centimos : Centimos, basis : SelectorNames])
  /\ rule.cap \in Optional(CapSchema)
  /\ rule.verifiable \in BOOLEAN
  /\ rule.combinability \in {"NO", "UNKNOWN", "YES"}

SignatureKinds == {"EXACT_BUNDLE", "ELIGIBLE_BILL", "TICKETS", "NOMINAL_PACKAGE"}

RuleSchema(rule) ==
  /\ DOMAIN rule \ {"stock"} = RuleFields
  /\ rule.merchants # {} /\ rule.scopes # {}
  /\ BenefitSchema(rule.benefit)
  /\ rule.selector \in SelectorNames
  /\ rule.items # <<>>
  /\ ConstraintsSchema(rule)
  /\ rule.confidence \in {"HIGH", "MEDIUM", "LOW"}
  /\ rule.signatureKind \in SignatureKinds

OperationalSchema ==
  [publication : {"ACTIVE", "FUTURE", "EXPIRED", "QUARANTINED"}, source : SourceQualityStates,
   availability : {"CONFIRMED_AVAILABLE", "CONFIRMED_UNAVAILABLE", "UNKNOWN", "NOT_APPLICABLE"}]

SignatureSchema(sig) ==
  /\ sig.kind \in SignatureKinds
  /\ DOMAIN sig = {"kind", "merchant"} \cup
       CASE sig.kind = "EXACT_BUNDLE" -> {"items"}
         [] sig.kind = "ELIGIBLE_BILL" -> {"domain"}
         [] sig.kind = "TICKETS" -> {"count", "class"}
         [] sig.kind = "NOMINAL_PACKAGE" -> {"unit", "acquisition"}
  /\ sig.kind = "EXACT_BUNDLE" => sig.items # <<>>
  /\ sig.kind = "TICKETS" => sig.count \in Positive
  /\ sig.kind = "NOMINAL_PACKAGE" => sig.acquisition \in Centimos

ScopeSchema(scope) ==
  /\ DOMAIN scope = {"merchant", "basis", "selectors", "requiredContext", "signature"}
  /\ scope.basis \in {"COST", "NOMINAL", "NON_COMPARABLE"}
  /\ scope.selectors \subseteq SelectorNames /\ scope.selectors # {}
  /\ scope.requiredContext \subseteq {"AMOUNT", "BASKET", "TICKET_PRICE", "CHANNEL",
                                      "LOCATION_OR_BRANCH", "DATE_TIME"}
  /\ SignatureSchema(scope.signature)

ParseCorpus(corpus) ==
  /\ DOMAIN corpus = {"rules", "ops", "scopes"}
  /\ \A r \in DOMAIN corpus.rules : RuleSchema(corpus.rules[r])
  /\ corpus.ops \in [DOMAIN corpus.ops -> OperationalSchema]
  /\ \A s \in DOMAIN corpus.scopes : ScopeSchema(corpus.scopes[s])

ParseExcluded(excluded) ==
  \A ex \in excluded : RuleSchema(ex.rule) /\ ex.operational \in OperationalSchema
=============================================================================
