-------------------------------- MODULE Engine -------------------------------
(* The decision taken again as more becomes known: the corpus is released    *)
(* anew with an open question settled or a source lost, the participant      *)
(* answers, and every decision follows. See Evaluator for the decision.      *)
EXTENDS Evaluator, CorpusSchema, Functions

CONSTANTS
  Cases,       \* the [corpus, request] that may come to the linter and the capture
  Caps,        \* the amounts that a cap may turn out to be
  Channels,    \* the channels that a participant may name
  Losses,      \* what a fresh source may become
  MaxLost      \* a bound: the sources that are not fresh at one time

(* Neither the schema nor the linter refuses a malformed list of items in a  *)
(* scope without rules; the assembly and provenance would throw on it.       *)
ASSUME CasesAssumption ==
  \A case \in Cases :
    /\ IsFiniteSet(DOMAIN case.corpus.rules) /\ DOMAIN case.corpus.rules \subseteq Int
    /\ IsFiniteSet(DOMAIN case.corpus.scopes) /\ None \notin DOMAIN case.corpus.scopes
    /\ \A s \in DOMAIN case.corpus.scopes :
         LET sig == case.corpus.scopes[s].signature
         IN sig.kind = "EXACT_BUNDLE" => WellFormedItems(sig.items)
    /\ DOMAIN case.request = {"signature", "portfolio", "at", "holidays"}
    /\ DOMAIN case.request.portfolio = {"instruments", "privateStates", "declarations"}
ASSUME CapsAssumption == Caps \subseteq Centimos

VARIABLES
  corpus,      \* [rules, ops, scopes], see Offer
  request,     \* see Evaluator
  evaluation   \* what decide() returned for them

vars == <<corpus, request, evaluation>>
-----------------------------------------------------------------------------
Init ==
  \E case \in Cases :
    /\ ParseCorpus(case.corpus) /\ LintCorpus(case.corpus)
    /\ NormalizeSignature(case.request.signature)
    /\ corpus = case.corpus
    /\ request = case.request
    /\ evaluation = Evaluation(case.corpus, case.request)

(* A corpus that the schema and the linter admit is released, or the participant says more.*)
Release(c) ==
  /\ ParseCorpus(c) /\ LintCorpus(c)
  /\ corpus' = c
  /\ evaluation' = Evaluation(c, request)
  /\ UNCHANGED request

Say(q) ==
  /\ request' = q
  /\ evaluation' = Evaluation(corpus, q)
  /\ UNCHANGED corpus

Rules == DOMAIN corpus.rules

(* A corpus release settles one open question about a rule.                  *)
ConfirmAvailability(r) ==
  /\ corpus.ops[r].availability = "UNKNOWN"
  /\ \E a \in {"CONFIRMED_AVAILABLE", "CONFIRMED_UNAVAILABLE"} :
       Release([corpus EXCEPT !.ops[r].availability = a])

RecheckSource(r) ==
  /\ corpus.ops[r].source # "FRESH"
  /\ Release([corpus EXCEPT !.ops[r].source = "FRESH"])

CapOpen(rule) == rule.cap # None /\ rule.cap.kind = "UNKNOWN_NOT_STATED"

StateCap(r) ==
  /\ CapOpen(corpus.rules[r])
  /\ \E c \in Caps :
       Release([corpus EXCEPT !.rules[r].cap = [kind |-> "AMOUNT", centimos |-> c]])

StateCombinability(r) ==
  /\ corpus.rules[r].combinability = "UNKNOWN"
  /\ \E v \in {"NO", "YES"} : Release([corpus EXCEPT !.rules[r].combinability = v])

StateHolidayPolicy(r) ==
  /\ corpus.rules[r].holiday = "UNKNOWN"
  /\ \E p \in {"NONE", "EXCLUDED"} : Release([corpus EXCEPT !.rules[r].holiday = p])

(* The participant answers: the channel, a private key, a fact.              *)
Answered(answers, question, a) ==
  [k \in DOMAIN answers \cup {question} |-> IF k = question THEN a ELSE answers[k]]

NameChannel ==
  /\ request.signature.channel = None
  /\ \E c \in Channels : Say([request EXCEPT !.signature.channel = c])

AnswerPrivate(r) ==
  /\ corpus.rules[r].class = "PROVIDER_PRIVATE"
  /\ PrivateState(corpus.rules[r], request.portfolio) = "UNKNOWN"
  /\ \E a \in {"YES", "NO"} :
       Say([request EXCEPT !.portfolio.privateStates =
                             Answered(@, corpus.rules[r].privateKey, a)])

DeclareFact(r) ==
  LET fact == <<"membership", corpus.rules[r].membership>>
  IN /\ corpus.rules[r].membership # None
     /\ Declared(request.portfolio, fact) = "UNKNOWN"
     /\ \E a \in {"YES", "NO"} :
          Say([request EXCEPT !.portfolio.declarations = Answered(@, fact, a)])

(* A source that was fresh no longer is.                                     *)
LoseSource(r) ==
  /\ corpus.ops[r].source = "FRESH"
  /\ Cardinality({o \in Rules : corpus.ops[o].source # "FRESH"}) < MaxLost
  /\ \E s \in Losses :
       Release([corpus EXCEPT !.ops[r].source = s])

Next ==
  \/ NameChannel
  \/ \E r \in Rules : \/ ConfirmAvailability(r) \/ RecheckSource(r) \/ StateCap(r)
                      \/ StateCombinability(r) \/ StateHolidayPolicy(r)
                      \/ AnswerPrivate(r) \/ DeclareFact(r) \/ LoseSource(r)

Spec == Init /\ [][Next]_vars
-----------------------------------------------------------------------------
Statuses == Confirmed \cup {"VERIFY_FIRST", "NO_SAFE_WINNER", "NO_APPLICABLE_BENEFIT",
                            "SOURCE_STALE", "SOURCE_CONFLICT"}

(* A result that stands names its top set and says what could still join it; *)
(* any other names nobody. A final decision is missing only over several     *)
(* matches, and an error leaves nothing.                                     *)
ResultOK(d) ==
  /\ d.status \in Statuses
  /\ d.top \cup d.possible \subseteq MembersOf(corpus, d.scope)
  /\ d.top \cap d.possible = {}
  /\ d.status \in Confirmed <=> d.top # {}
  /\ d.status = "CONFIRMED_TIE" <=> Cardinality(d.top) > 1
  /\ d.winner # None => d.top = {d.winner}
  /\ d.delta # None => d.delta >= 0 /\ (d.delta = 0 <=> d.winner = None)
  /\ d.complete <=> d.top # {} /\ d.possible = {}

TypeOK ==
  /\ evaluation.error \in {None, "STRUCTURE", "SETTLEMENT"}
  /\ \A d \in evaluation.results : ResultOK(d)
  /\ evaluation.error # None => evaluation.results = {} /\ evaluation.final = None
  /\ evaluation.error = None =>
       LET matched == Matched(evaluation.results)
       IN IF evaluation.final = None THEN Cardinality(matched) > 1
          ELSE matched \ {evaluation.final} = {}

(* What happened in a step: something became known about the offers or the   *)
(* purchase, or a source was lost. A declaration is neither: the engine says *)
(* of an undeclared fact that it is never a blocker, and leaves its rule out.*)
Lost == \E r \in Rules : corpus.ops[r].source = "FRESH" /\ corpus'.ops[r].source # "FRESH"
Learned == ~Lost /\ request'.portfolio.declarations = request.portfolio.declarations

(* What open offers cost is weighed, but for two: a rounding that nobody     *)
(* knows, and the unstated cap of a fixed discount, which decide() ranks as  *)
(* if it had none, so that it can fall from the top when the cap is stated.  *)
PricesWeighed ==
  \A r \in Rules :
    LET rule == corpus.rules[r]
    IN /\ rule.benefit.type = "PERCENT" => rule.benefit.rounding # "UNKNOWN"
       /\ rule.benefit.type = "FIXED_DISCOUNT" => ~CapOpen(rule)

TopAt(e, s) == UNION {d.top : d \in {x \in e.results : x.scope = s}}

(* A top set that is called complete is final: whatever is learnt about the  *)
(* other offers, the same rules stay at the top, unless decide() throws over *)
(* what it settles now, which loses every decision. This is what             *)
(* "topSetComplete" promises (src/src/engine/types.ts).                      *)
CompleteIsFinal ==
  [][Learned /\ PricesWeighed /\ evaluation'.error = None =>
       \A d \in evaluation.results : d.complete => TopAt(evaluation', d.scope) = d.top]_vars

(* A decision that stands names beforehand every rule that learning can put  *)
(* at the top, if it puts anything there.                                    *)
NewcomersAreAnnounced ==
  [][Learned /\ PricesWeighed =>
       \A d \in evaluation.results :
         d.top # {} => TopAt(evaluation', d.scope) \subseteq d.top \cup d.possible]_vars

(* A bound that the engine derives for an uncertain candidate is one: when   *)
(* the candidate becomes rankable it scores no better than its bound.        *)
BoundsHold ==
  [][Learned =>
       \A d \in evaluation.results, e \in evaluation'.results : d.scope = e.scope =>
         \A before \in d.candidates, after \in e.candidates :
           LET basis == corpus.scopes[d.scope].basis
           IN /\ before.rule = after.rule
              /\ before.state = "UNCERTAIN" /\ Bounded(before, basis) /\ after.state = "RANKABLE"
              => Score(after, basis) >= Bound(before, basis)]_vars

(* Losing evidence never makes a decision: what stands after a source was    *)
(* lost stood before it, with the same top set.                              *)
LossNeverConfirms ==
  [][Lost => \A d \in evaluation'.results : d.top # {} => TopAt(evaluation, d.scope) = d.top]_vars

(* VERIFY_FIRST means that private benefits are the only path: were every    *)
(* private state NO, nothing would apply.                                    *)
AllPrivateNo ==
  [request EXCEPT !.portfolio.privateStates =
     [k \in {corpus.rules[r].privateKey : r \in Rules} |-> "NO"]]
VerifyFirstIsSolePath ==
  \A d \in {x \in evaluation.results : x.status = "VERIFY_FIRST"} :
    \E e \in Evaluation(corpus, AllPrivateNo).results :
      e.scope = d.scope /\ e.status = "NO_APPLICABLE_BENEFIT"

(* What the capture service assembles from a linted corpus is taken by       *)
(* everything it meets: the provenance check, which has a relevance test of  *)
(* its own, and the engine, which throws over money only, never over the     *)
(* structure. Were a single rule or scope left out, provenance would refuse  *)
(* it: the two tests of relevance agree.                                     *)
LeavingOut(in) ==
  {[in EXCEPT !.rules = Restrict(in.rules, DOMAIN in.rules \ {r})] : r \in DOMAIN in.rules}
  \cup {[in EXCEPT !.scopes = Restrict(in.scopes, DOMAIN in.scopes \ {s})] : s \in DOMAIN in.scopes}
AssembledIsAccepted ==
  LET Accepted(in) ==
        VerifyProvenance(corpus, in) /\ \A less \in LeavingOut(in) : ~CompleteSet(corpus, less)
  IN Accepted(BuildDecideInput(corpus, request)) /\ evaluation.error # "STRUCTURE"

(* The assembly leaves out only scopes that the engine would not have        *)
(* matched: with every scope of the merchant the same ones match.            *)
WholeInput ==
  [BuildDecideInput(corpus, request) EXCEPT
     !.rules = corpus.rules, !.ops = corpus.ops,
     !.scopes = [s \in {t \in DOMAIN corpus.scopes :
                          corpus.scopes[t].merchant = request.signature.merchant} |-> corpus.scopes[s]]]
SameMatches(a, b) ==
  a.error = None /\ b.error = None =>
    Matched(a.results) = Matched(b.results) /\ a.final = b.final
AssemblyLosesNothing == SameMatches(Decide(WholeInput), evaluation)

(* A cost is what the offer says: the percentage to the nearest or lower     *)
(* centimo and within its cap, the tickets that are paid counted one by one, *)
(* and never more than one centimo of doubt.                                 *)
PaidOneByOne(count, pay, of) ==
  Cardinality({k \in 0 .. count - 1 : (k % of) < pay \/ k >= count - (count % of)})
PercentAsSaid(rule, ctx, econ) ==
  LET exact == SelectorQuantity(rule.selector, ctx) * rule.benefit.bps
      capped == IF rule.cap = None THEN {} ELSE {rule.cap.centimos}
      given == ctx.bill - econ.cost
      Says(d) == CASE rule.benefit.rounding = "ROUND_HALF_UP_TO_CENT" ->
                        exact - 5000 < 10000 * d /\ 10000 * d <= exact + 5000
                   [] OTHER -> exact - 10000 < 10000 * d /\ 10000 * d <= exact
  IN /\ Says(given) \/ (given \in capped /\ 10000 * given <= exact)
     /\ \A c \in capped : given <= c
     /\ ctx.bill - econ.lowest \in given .. given + 1
CostsAreAsSaid ==
  LET ctx == FlattenToPurchaseContext(request.signature)
  IN \A d \in evaluation.results : \A w \in {x \in d.candidates : x.state = "RANKABLE"} :
       LET rule == corpus.rules[w.rule]
       IN /\ rule.benefit.type = "PERCENT" => PercentAsSaid(rule, ctx, w.econ)
          /\ rule.benefit.type = "TWO_FOR_ONE" =>
               w.econ.cost = ctx.ticketPrice *
                               PaidOneByOne(ctx.ticketCount, rule.benefit.pay, rule.benefit.of)
-----------------------------------------------------------------------------
(* The capture is "a stricter A2 capture contract than the generic engine    *)
(* PurchaseContext" (src/src/study/purchase-intent-decide-input.ts): what it *)
(* accepts, the engine agrees to reason about.                               *)
CaptureIsStricter == ContextMoneyValid(FlattenToPurchaseContext(request.signature))
=============================================================================
