-------------------------------- MODULE Offer --------------------------------
(* The offer corpus: what a rule and a purchase scope are, what follows from *)
(* a rule's semantics (src/src/corpus/derive.ts), and the linter that admits *)
(* a corpus (src/src/corpus/lint.ts).                                        *)
(*                                                                           *)
(* A rule is a record of the fields the engine reads; an optional field that *)
(* is absent is None, an optional list that is absent or empty is {}. Texts, *)
(* urls and the registries of merchants and sources are left out. A corpus   *)
(* is [rules, ops, scopes]: functions from rule ids to rules and operational *)
(* states, and from scope ids to scopes, so that ids are unique.             *)
EXTENDS Integers, Sequences, FiniteSets

CONSTANT None
ASSUME NoneAssumption ==
  /\ None \notin Int
  /\ None \notin {"STALE", "CONFLICTED", "UNKNOWN", "STRUCTURE", "SETTLEMENT", "(none)"}

When(condition, element) == IF condition THEN {element} ELSE {}

GeneralBillSelectors == {"WHOLE_BILL", "FOOD_ONLY", "FOOD_PLUS_NONALCOHOLIC"}

(* A benefit in kind is compared by its nominal value, any other by the cost *)
(* that is paid.                                                             *)
ExpectedBasis(rule) ==
  IF rule.benefit.type = "NON_CASH_NOMINAL" THEN "NOMINAL" ELSE "COST"

DeriveRequiredSignatureKind(rule) ==
  LET type == rule.benefit.type
      bundle == rule.selector = "EXACT_SKU_BUNDLE" \/ type \in {"FIXED_BUNDLE", "FIXED_PRICE"}
      bill == /\ rule.selector \in GeneralBillSelectors
              /\ type \in {"PERCENT", "FIXED_DISCOUNT", "CASHBACK"}
  IN IF type = "NON_CASH_NOMINAL" THEN "NOMINAL_PACKAGE"
     ELSE IF rule.selector = "TICKET_UNIT" THEN "TICKETS"
     ELSE IF bundle THEN "EXACT_BUNDLE"
     ELSE IF bill THEN "ELIGIBLE_BILL"
     ELSE None

DeriveRequiredContext(rule) ==
  LET type == rule.benefit.type
      amount == \/ type = "PERCENT"
                \/ type = "FIXED_DISCOUNT" /\ rule.benefit.amountDependent
                \/ rule.minimum # None \/ rule.cap # None
                \/ rule.selector \in GeneralBillSelectors
      basket == \/ rule.selector \in {"EXACT_SKU_BUNDLE", "FOOD_ONLY", "FOOD_PLUS_NONALCOHOLIC"}
                \/ rule.products # {}
  IN {"DATE_TIME"}
     \cup When(rule.channels # {}, "CHANNEL")
     \cup When(rule.include \cup rule.exclude # {}, "LOCATION_OR_BRANCH")
     \cup IF type = "NON_CASH_NOMINAL" THEN {}
          ELSE When(amount, "AMOUNT") \cup When(basket, "BASKET")
               \cup When(rule.selector = "TICKET_UNIT", "TICKET_PRICE")

(* Item lists are sequences of [key, qty]: normalization refuses a repeated  *)
(* key and a quantity that is not positive, and forgets the order.           *)
WellFormedItems(items) ==
  /\ \A i \in DOMAIN items : items[i].qty > 0
  /\ \A i, j \in DOMAIN items : items[i].key = items[j].key => i = j

(* Where the code throws on a list that is not well formed, nothing equals   *)
(* it: the linter refuses the corpus either way, and the lists of a captured *)
(* purchase are well formed.                                                 *)
CanonicalItemsEqual(a, b) ==
  /\ WellFormedItems(a) /\ WellFormedItems(b)
  /\ {a[i] : i \in DOMAIN a} = {b[i] : i \in DOMAIN b}
-----------------------------------------------------------------------------
(* The linter, as the predicate "no error".                                  *)
LintTemporal(range) ==
  IF range.kind = "LOCAL_DATETIME_RANGE" THEN range.from < range.to ELSE range.from <= range.to

LintSignature(rule, scope) ==
  LET sig == scope.signature
  IN /\ sig.merchant = scope.merchant
     /\ sig.kind = "EXACT_BUNDLE" =>
          /\ rule.items # None
          /\ CanonicalItemsEqual(rule.items, sig.items)
     /\ sig.kind = "TICKETS" => rule.ticket = [count |-> sig.count, class |-> sig.class]
     /\ sig.kind = "NOMINAL_PACKAGE" =>
          /\ rule.benefit.type = "NON_CASH_NOMINAL"
          /\ rule.benefit.unit = sig.unit
          /\ rule.benefit.acquisition = sig.acquisition

(* Mutant: the merchant of the scope is not compared with the rule's.        *)
LintRuleScopePairAnywhere(rule, scope) ==
  /\ scope.basis = ExpectedBasis(rule)
  /\ scope.signature.kind = rule.signatureKind
  /\ LintSignature(rule, scope)

LintRuleScopePair(rule, scope) ==
  /\ scope.merchant \in rule.merchants
  /\ scope.basis = ExpectedBasis(rule)
  /\ scope.signature.kind = rule.signatureKind
  /\ rule.selector \in scope.selectors
  /\ DeriveRequiredContext(rule) \subseteq scope.requiredContext
  /\ rule.selector # "NON_EQUIVALENT_PURCHASE"
  /\ LintSignature(rule, scope)

LintRule(rule) ==
  /\ rule.merchants # {}
  /\ rule.scopes # {}
  /\ rule.class = "PROVIDER_PRIVATE" => rule.privateKey # None
  /\ rule.signatureKind = DeriveRequiredSignatureKind(rule)
  /\ rule.items # None => WellFormedItems(rule.items)
  /\ LintTemporal(rule.temporal)

(* A rule is published, with an operational state that says so, over known   *)
(* scopes that are its own.                                                  *)
LintPublished(corpus, r) ==
  /\ r \in DOMAIN corpus.ops
  /\ corpus.ops[r].publication = "ACTIVE"
  /\ \A s \in corpus.rules[r].scopes :
       /\ s \in DOMAIN corpus.scopes
       /\ LintRuleScopePair(corpus.rules[r], corpus.scopes[s])

LintCorpus(corpus) ==
  /\ \A s \in DOMAIN corpus.scopes :
       /\ corpus.scopes[s].selectors # {}
       /\ corpus.scopes[s].basis = "NOMINAL" => corpus.scopes[s].signature.kind = "NOMINAL_PACKAGE"
  /\ \A r \in DOMAIN corpus.rules : LintRule(corpus.rules[r]) /\ LintPublished(corpus, r)

(* What a corpus keeps as excluded history, rules with their ids and states, *)
(* has the id of none of its rules and a state that says why.                *)
LintExcluded(corpus, excluded) ==
  \A ex \in excluded :
    /\ ex.id \notin DOMAIN corpus.rules
    /\ \/ ex.operational.publication \in {"QUARANTINED", "EXPIRED"}
       \/ ex.operational.source \in {"CONFLICTED", "STALE"}
=============================================================================
