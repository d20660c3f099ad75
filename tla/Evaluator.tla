------------------------------ MODULE Evaluator ------------------------------
(* The decision engine (src/src/engine/decide.ts), the assembly of its input *)
(* (src/src/study/purchase-intent-decide-input.ts) and the provenance check  *)
(* that the input passes on its way to the ledger                            *)
(* (src/src/persistence/provenance.ts): a captured purchase, a portfolio and *)
(* the corpus go in, a decision per purchase scope comes out.                *)
(*                                                                           *)
(* A request is [signature, portfolio, at, holidays]. Rule ids are integers, *)
(* compared as the strings are. A candidate is a rule with what was found    *)
(* about it; its doubts are the axes on which it is uncertain. The scores of *)
(* both bases are minimized: a cost, or a nominal value with its sign        *)
(* changed. Rejection reasons, advisories, explanations and the saving       *)
(* against a baseline are display and left out, and so is selectedScopeId,   *)
(* which no caller sets.                                                     *)
EXTENDS Applicability, FiniteSetsExt
-----------------------------------------------------------------------------
(* The capture accepts one complete purchase signature of one family: the    *)
(* fields of its kind, and no other.                                         *)
SignatureFields ==
  [BILL |-> {"bill", "food", "beverage", "domain"},
   TICKETS |-> {"ticketPrice", "ticketCount", "ticketClass"},
   EXACT_ITEMS |-> {"items"}, NOMINAL_PACKAGE |-> {"package"}]

NormalizeSignature(sig) ==
  /\ sig.kind \in DOMAIN SignatureFields
  /\ DOMAIN sig = {"kind", "merchant", "channel", "branch"} \cup SignatureFields[sig.kind]
  /\ CASE sig.kind = "BILL" ->
            /\ Safe(sig.bill)
            /\ \A v \in {sig.food, sig.beverage} \ {None} : Safe(v)
            /\ None \notin {sig.food, sig.beverage} => sig.food + sig.beverage <= sig.bill
       [] sig.kind = "TICKETS" ->
            Safe(sig.ticketPrice) /\ Safe(sig.ticketCount) /\ sig.ticketCount > 0
       [] sig.kind = "EXACT_ITEMS" -> sig.items # <<>> /\ WellFormedItems(sig.items)
       [] sig.kind = "NOMINAL_PACKAGE" -> Safe(sig.package.acquisition)

ContextFields == {"merchant", "channel", "branch", "bill", "food", "beverage", "ticketPrice",
                  "ticketCount", "ticketClass", "items", "domain", "package"}

FlattenToPurchaseContext(sig) ==
  [f \in ContextFields |-> IF f \in DOMAIN sig THEN sig[f] ELSE None]

(* Mutant: a scope must be proved to be the one of this purchase.            *)
SignatureProved(sig, ctx) ==
  /\ sig.kind \in {"ELIGIBLE_BILL", "NOMINAL_PACKAGE"} => sig.merchant = ctx.merchant
  /\ (\A f \in SignatureFacts(sig) : ctx[f] # None) /\ SamePurchase(sig, ctx)

(* The scopes this purchase could belong to: a scope about facts that the    *)
(* purchase does not state stays in.                                         *)
SignatureRelevant(sig, ctx) ==
  /\ sig.kind \in {"ELIGIBLE_BILL", "NOMINAL_PACKAGE"} => sig.merchant = ctx.merchant
  /\ (\A f \in SignatureFacts(sig) : ctx[f] # None) => SamePurchase(sig, ctx)

MembersOf(c, s) == {r \in DOMAIN c.rules : s \in c.rules[r].scopes}

(* The input: the relevant scopes, every rule of theirs, its one operational *)
(* state.                                                                    *)
BuildDecideInput(c, q) ==
  LET ctx == FlattenToPurchaseContext(q.signature)
      scopes == {s \in DOMAIN c.scopes : /\ c.scopes[s].merchant = ctx.merchant
                                        /\ SignatureRelevant(c.scopes[s].signature, ctx)}
      rules == UNION {MembersOf(c, s) : s \in scopes}
  IN [rules |-> [r \in rules |-> c.rules[r]],
      ops |-> [r \in rules \cap DOMAIN c.ops |-> c.ops[r]],
      scopes |-> [s \in scopes |-> c.scopes[s]],
      context |-> ctx, portfolio |-> q.portfolio, at |-> q.at, holidays |-> q.holidays]
-----------------------------------------------------------------------------
(* One candidate: the gates in their order, then its economics.              *)
Candidate(r, in, state, econ, doubts) ==
  [rule |-> r, state |-> state, econ |-> econ, doubts |-> doubts, source |-> None,
   fresh |-> in.ops[r].source = "FRESH", verifiable |-> in.rules[r].verifiable,
   confidence |-> in.rules[r].confidence]

(* A source that cannot be read counts as stale.                             *)
SourceUncertainty(op) ==
  CASE op.source = "FRESH" -> None
    [] op.source \in {"STALE", "INACCESSIBLE"} -> "STALE"
    [] op.source = "CONFLICTED" -> "CONFLICTED"
    [] op.source = "UNKNOWN" -> "UNKNOWN"

Excluded(rule, op, in) ==
  \/ op.publication # "ACTIVE"
  \/ ~WithinTemporalRange(rule.temporal, in.at)
  \/ ~WithinWeekdays(rule.weekdays, in.at)
  \/ ~WithinTimeWindow(rule.window, in.at)
  \/ EvaluateHoliday(rule, in.at, in.holidays) = "BLOCKED"
  \/ EvaluateEligibility(rule, in.portfolio) \in {"INELIGIBLE", "UNKNOWN"}
  \/ rule.confidence = "LOW"
  \/ op.availability = "CONFIRMED_UNAVAILABLE"

DoubtsOf(rule, op, in) ==
  When(EvaluateHoliday(rule, in.at, in.holidays) = "UNCERTAIN", "HOLIDAY")
  \cup When(EvaluateEligibility(rule, in.portfolio) = "PRIVATE", "PRIVATE")
  \cup When(op.availability = "UNKNOWN", "AVAILABILITY")
  \cup When(rule.combinability = "UNKNOWN", "COMBINABILITY")

(* A candidate without its context or its cap is uncertain before its source *)
(* is looked at; a settled one is ranked only without any doubt.             *)
Weigh(r, in, econ, doubts, source) ==
  LET settled == IF doubts = {} /\ source = None THEN "RANKABLE" ELSE "UNCERTAIN"
  IN CASE econ.state \in {"REJECTED", "THROWN"} -> Candidate(r, in, econ.state, econ, {})
       [] econ.state = "MISSING_CONTEXT" ->
            Candidate(r, in, "UNCERTAIN", econ, doubts \cup {"CONTEXT"})
       [] econ.state = "UNKNOWN_CAP" -> Candidate(r, in, "UNCERTAIN", econ, doubts \cup {"CAP"})
       [] econ.state = "RANKABLE" ->
            [Candidate(r, in, settled, econ, doubts) EXCEPT !.source = source]

Assess(r, scope, in) ==
  LET match == MatchPurchaseSignature(scope.signature, in.context)
  IN IF match = "MISSING"
     THEN Candidate(r, in, "UNCERTAIN", Outcome("MISSING_CONTEXT"), {"CONTEXT"})
     ELSE IF match = "NO_MATCH" \/ Excluded(in.rules[r], in.ops[r], in)
     THEN Candidate(r, in, "REJECTED", Outcome("REJECTED"), {})
     ELSE Weigh(r, in, ComputeEconomics(in.rules[r], in.context),
                DoubtsOf(in.rules[r], in.ops[r], in), SourceUncertainty(in.ops[r]))
-----------------------------------------------------------------------------
(* What an uncertain candidate could turn out to be, on current evidence.    *)
Bounded(w, basis) ==
  /\ w.fresh
  /\ w.doubts \cap {"CONTEXT", "COMBINABILITY", "PRIVATE", "HOLIDAY"} = {}
  /\ IF basis = "COST" THEN w.doubts \cap {"CAP", "AVAILABILITY"} # {} ELSE "AVAILABILITY" \in w.doubts

Score(w, basis) == IF basis = "COST" THEN w.econ.cost ELSE -w.econ.value

(* With an unknown cap, the uncapped cost; with only the availability open,  *)
(* the price itself.                                                         *)
Bound(w, basis) == IF "CAP" \in w.doubts THEN w.econ.lowest ELSE Score(w, basis)

CouldImprove(w, basis, best) == Bounded(w, basis) /\ best # None => Bound(w, basis) < best

(* Mutants: a tie changes nothing; what has no bound is harmless.            *)
CouldChangeTopStrictly(w, basis, best) == CouldImprove(w, basis, best)
CouldChangeTopIfBounded(w, basis, best) ==
  Bounded(w, basis) /\ (best # None => Bound(w, basis) <= best)

CouldChangeTop(w, basis, best) == Bounded(w, basis) /\ best # None => Bound(w, basis) <= best

(* The participant can settle every doubt before paying.                     *)
UserResolvable(w) ==
  /\ w.source = None
  /\ w.doubts \subseteq {"PRIVATE", "AVAILABILITY"}
  /\ "AVAILABILITY" \in w.doubts => w.verifiable

(* Benefits in kind are compared only in one unit, bought for one known      *)
(* amount.                                                                   *)
Comparable(basis, ws) ==
  basis = "COST" \/ \E unit \in {w.econ.unit : w \in ws}, paid \in {w.econ.acquisition : w \in ws} :
                      paid # None /\ \A w \in ws : w.econ.unit = unit /\ w.econ.acquisition = paid

RulesOf(ws) == {w.rule : w \in ws}
First(ws) == CHOOSE w \in ws : w.rule = Min(RulesOf(ws))

(* The standing of the candidates W of a scope before a status is chosen.    *)
(* A rounding that could go either way is looked at for every ranked         *)
(* candidate but the first of the ranking.                                   *)
StandingOf(settled, uncertain, basis) ==
  LET rankable == IF Comparable(basis, settled) THEN settled ELSE {}
      best == IF rankable = {} THEN None ELSE Min({Score(w, basis) : w \in rankable})
      top == {w \in rankable : Score(w, basis) = best}
      material == {w \in uncertain : CouldChangeTop(w, basis, best)}
      blocking == {w \in material : ~UserResolvable(w)}
      rounding == IF basis = "COST" /\ top # {}
                  THEN {w \in rankable \ {First(top)} : /\ w.econ.lowest # w.econ.cost
                                                       /\ w.econ.lowest <= best}
                  ELSE {}
      better == {w \in blocking : CouldImprove(w, basis, best)}
                \cup {w \in rounding : w.econ.lowest < best}
  IN [settled |-> settled, rankable |-> rankable, best |-> best, top |-> top,
      uncertain |-> uncertain, material |-> material \cup rounding,
      better |-> better, equal |-> (blocking \cup rounding) \ better,
      resolvable |-> material \ blocking]

Standing(W, basis) ==
  StandingOf({w \in W : w.state = "RANKABLE"}, {w \in W : w.state = "UNCERTAIN"}, basis)

(* Among several candidates a tie may widen, a single winner must be safe    *)
(* from every other; without any candidate the worst doubt is reported.      *)
StatusRanked(st) ==
  LET tie == Cardinality(st.top) > 1
  IN IF st.better # {} \/ (st.equal # {} /\ ~tie) THEN "NO_SAFE_WINNER"
     ELSE IF tie THEN "CONFIRMED_TIE"
     ELSE IF First(st.top).confidence = "MEDIUM" THEN "LIKELY"
     ELSE "BEST_CONFIRMED"

(* Mutant: one private path among others.                                    *)
SomePrivate(st) ==
  /\ st.better \cup st.equal = {}
  /\ \E w \in st.resolvable : "PRIVATE" \in w.doubts

OnlyPrivate(st) ==
  /\ st.better \cup st.equal = {} /\ st.resolvable # {}
  /\ \A w \in st.resolvable : "PRIVATE" \in w.doubts

StatusUnranked(st) ==
  LET sources == {w.source : w \in st.uncertain}
  IN IF "CONFLICTED" \in sources THEN "SOURCE_CONFLICT"
     ELSE IF "STALE" \in sources THEN "SOURCE_STALE"
     ELSE IF OnlyPrivate(st) THEN "VERIFY_FIRST"
     ELSE IF st.uncertain \cup st.settled # {} THEN "NO_SAFE_WINNER"
     ELSE "NO_APPLICABLE_BENEFIT"

Confirmed == {"BEST_CONFIRMED", "LIKELY", "CONFIRMED_TIE"}

(* Mutant: nominal values are subtracted in the order of costs.              *)
DeltaBackwards(st, basis) ==
  LET others == {Score(w, basis) : w \in st.rankable \ st.top}
  IN IF Cardinality(st.top) > 1 THEN 0 ELSE IF others = {} THEN None
     ELSE IF basis = "COST" THEN Min(others) - st.best ELSE st.best - Min(others)

(* The distance to the next best score, 0 among the tied.                    *)
Delta(st, basis) ==
  LET others == {Score(w, basis) : w \in st.rankable \ st.top}
  IN IF Cardinality(st.top) > 1 THEN 0 ELSE IF others = {} THEN None ELSE Min(others) - st.best

(* Mutant: only what the participant cannot settle is named.                 *)
PossibleBlocking(st) == RulesOf((st.better \cup st.equal) \ st.top)

(* The rules that could still join the top set.                              *)
Possible(st) == RulesOf(st.material \ st.top)

(* The decision of scope s, over its candidates W, in their standing st.     *)
Resolved(s, W, basis, st, status) ==
  LET stands == status \in Confirmed
  IN [scope |-> s, candidates |-> W, status |-> status,
      winner |-> IF stands /\ status # "CONFIRMED_TIE" THEN First(st.top).rule ELSE None,
      delta |-> IF stands THEN Delta(st, basis) ELSE None,
      top |-> IF stands THEN RulesOf(st.top) ELSE {},
      possible |-> IF stands THEN Possible(st) ELSE {},
      complete |-> stands /\ Possible(st) = {},
      matched |-> status # "NO_APPLICABLE_BENEFIT" /\ st.settled \cup st.material # {}]

StatusOf(st) == IF st.rankable # {} THEN StatusRanked(st) ELSE StatusUnranked(st)

ResolveDecision(s, W, basis) ==
  LET ByStanding(st) == Resolved(s, W, basis, st, StatusOf(st))
  IN ByStanding(Standing(W, basis))
-----------------------------------------------------------------------------
(* What makes decide() throw: members that are no members, a missing state,  *)
(* or money that makes no sense. A throw loses every scope's decision; which *)
(* of two errors is thrown first is left out.                                *)
Evaluated(in) == {s \in DOMAIN in.scopes : /\ in.scopes[s].merchant = in.context.merchant
                                          /\ MembersOf(in, s) # {}}

Malformed(in, s) ==
  \E r \in MembersOf(in, s) : \/ r \notin DOMAIN in.ops
                              \/ in.scopes[s].merchant \notin in.rules[r].merchants
                              \/ in.scopes[s].basis # ExpectedBasis(in.rules[r])

Unsettled(in, decision) ==
  \E w \in decision.candidates :
    \/ w.state = "THROWN"
    \/ in.scopes[decision.scope].basis = "NOMINAL" /\ w.state = "RANKABLE" /\ ~NominalValid(w.econ)

Thrown(error) == [error |-> error, results |-> {}, final |-> None]

(* One decision per scope; a final one only when a single scope matched, or  *)
(* none did.                                                                 *)
Matched(results) == {d.scope : d \in {e \in results : e.matched}}

Conclude(in, results) ==
  LET matched == Matched(results)
  IN IF \E d \in results : Unsettled(in, d) THEN Thrown("SETTLEMENT")
     ELSE [error |-> None, results |-> results,
           final |-> CASE matched = {} -> "(none)"
                       [] Cardinality(matched) = 1 -> CHOOSE s \in matched : TRUE
                       [] OTHER -> None]

EvaluateScope(s, in) ==
  ResolveDecision(s, {Assess(r, in.scopes[s], in) : r \in MembersOf(in, s)}, in.scopes[s].basis)

Decide(in) ==
  IF ~ContextMoneyValid(in.context) THEN Thrown("SETTLEMENT")
  ELSE IF \E s \in Evaluated(in) : Malformed(in, s) THEN Thrown("STRUCTURE")
  ELSE Conclude(in, {EvaluateScope(s, in) : s \in Evaluated(in)})
-----------------------------------------------------------------------------
(* Provenance: the input of a new decision is checked against the corpus     *)
(* once more, by a relevance test of its own. A kind whose facts the         *)
(* purchase does not state is relevant.                                      *)
(* Mutant: what the purchase does not say makes a scope irrelevant.          *)
DecisionRelevantIfStated(sig, ctx) ==
  CASE sig.kind = "EXACT_BUNDLE" -> ctx.items # None /\ CanonicalItemsEqual(ctx.items, sig.items)
    [] sig.kind = "TICKETS" -> ctx.ticketCount = sig.count /\ ctx.ticketClass = sig.class
    [] sig.kind = "ELIGIBLE_BILL" -> sig.merchant = ctx.merchant /\ ctx.domain = sig.domain
    [] sig.kind = "NOMINAL_PACKAGE" ->
         /\ sig.merchant = ctx.merchant
         /\ ctx.package = [acquisition |-> sig.acquisition, unit |-> sig.unit]

DecisionRelevant(sig, ctx) ==
  CASE sig.kind = "EXACT_BUNDLE" -> ctx.items = None \/ CanonicalItemsEqual(ctx.items, sig.items)
    [] sig.kind = "TICKETS" ->
         \/ None \in {ctx.ticketCount, ctx.ticketClass}
         \/ ctx.ticketCount = sig.count /\ ctx.ticketClass = sig.class
    [] sig.kind = "ELIGIBLE_BILL" ->
         sig.merchant = ctx.merchant /\ ctx.domain \in {None, sig.domain}
    [] sig.kind = "NOMINAL_PACKAGE" ->
         /\ sig.merchant = ctx.merchant
         /\ ctx.package \in {None, [acquisition |-> sig.acquisition, unit |-> sig.unit]}

(* What is supplied is exactly what the corpus holds.                        *)
Authentic(c, in) ==
  /\ \A r \in DOMAIN in.rules : r \in DOMAIN c.rules /\ in.rules[r] = c.rules[r]
  /\ \A s \in DOMAIN in.scopes : s \in DOMAIN c.scopes /\ in.scopes[s] = c.scopes[s]

(* Every scope that this purchase could belong to is supplied, with exactly  *)
(* the rules that the corpus has for it.                                     *)
CompleteSet(c, in) ==
  \A s \in DOMAIN c.scopes :
    c.scopes[s].merchant = in.context.merchant /\ DecisionRelevant(c.scopes[s].signature, in.context)
      => s \in DOMAIN in.scopes /\ MembersOf(c, s) = MembersOf(in, s)

VerifyProvenance(c, in) == Authentic(c, in) /\ CompleteSet(c, in)
-----------------------------------------------------------------------------
Evaluation(c, q) == Decide(BuildDecideInput(c, q))
=============================================================================
