--------------------------- MODULE Engine_proofs -----------------------------
(* What Engine keeps for every menu of offers and purchases, proved.         *)
EXTENDS Engine, TLAPS, FiniteSetTheorems, WellFoundedInduction
-----------------------------------------------------------------------------
(* The invariant. The corpus has passed the schema and the linter, the       *)
(* purchase the capture, and what is shown is what decide() makes of them.   *)
RequestShape(q) ==
  /\ DOMAIN q = {"signature", "portfolio", "at", "holidays"}
  /\ DOMAIN q.portfolio = {"instruments", "privateStates", "declarations"}
  /\ NormalizeSignature(q.signature)

CorpusShape(c) ==
  /\ IsFiniteSet(DOMAIN c.rules) /\ DOMAIN c.rules \subseteq Int
  /\ IsFiniteSet(DOMAIN c.scopes) /\ None \notin DOMAIN c.scopes

EngineInv ==
  /\ ParseCorpus(corpus) /\ LintCorpus(corpus) /\ CorpusShape(corpus)
  /\ RequestShape(request)
  /\ evaluation = Evaluation(corpus, request)

LEMMA InitInvariant == ASSUME Init PROVE EngineInv
BY CasesAssumption DEF Init, EngineInv, RequestShape, CorpusShape

(* Naming the channel leaves a captured signature a captured one.            *)
LEMMA ChannelIsFree ==
  ASSUME NEW sig, NormalizeSignature(sig), NEW new, DOMAIN new = DOMAIN sig,
         \A f \in DOMAIN sig : f # "channel" => new[f] = sig[f]
  PROVE  NormalizeSignature(new)
PROOF
<1>1. /\ sig.kind \in DOMAIN SignatureFields
      /\ DOMAIN sig = {"kind", "merchant", "channel", "branch"} \cup SignatureFields[sig.kind]
  BY DEF NormalizeSignature
<1>2. new.kind = sig.kind
  BY <1>1
<1>3. CASE sig.kind = "BILL"
  <2>1. new.bill = sig.bill /\ new.food = sig.food /\ new.beverage = sig.beverage
    BY <1>1, <1>3 DEF SignatureFields
  <2> QED
    BY <2>1, <1>2, <1>3 DEF NormalizeSignature
<1>4. CASE sig.kind = "TICKETS"
  <2>1. new.ticketPrice = sig.ticketPrice /\ new.ticketCount = sig.ticketCount
    BY <1>1, <1>4 DEF SignatureFields
  <2> QED
    BY <2>1, <1>2, <1>4 DEF NormalizeSignature
<1>5. CASE sig.kind = "EXACT_ITEMS"
  <2>1. new.items = sig.items
    BY <1>1, <1>5 DEF SignatureFields
  <2> QED
    BY <2>1, <1>2, <1>5 DEF NormalizeSignature
<1>6. CASE sig.kind = "NOMINAL_PACKAGE"
  <2>1. new.package = sig.package
    BY <1>1, <1>6 DEF SignatureFields
  <2> QED
    BY <2>1, <1>2, <1>6 DEF NormalizeSignature
<1> QED
  BY <1>1, <1>3, <1>4, <1>5, <1>6 DEF SignatureFields

LEMMA ChannelNamed ==
  ASSUME NEW q, RequestShape(q), NEW c
  PROVE  RequestShape([q EXCEPT !.signature.channel = c])
PROOF
<1> DEFINE sig == q.signature
           new == [sig EXCEPT !.channel = c]
           next == [q EXCEPT !.signature.channel = c]
<1>1. /\ next.signature = new /\ next.portfolio = q.portfolio
      /\ DOMAIN next = DOMAIN q /\ DOMAIN new = DOMAIN sig
      /\ \A f \in DOMAIN sig : f # "channel" => new[f] = sig[f]
  BY DEF RequestShape
<1>2. NormalizeSignature(new)
  BY <1>1, ChannelIsFree DEF RequestShape
<1> QED
  BY <1>1, <1>2 DEF RequestShape

LEMMA StepKeepsInvariant == ASSUME EngineInv, [Next]_vars PROVE EngineInv'
PROOF
<1> USE DEF EngineInv
<1>1. CASE NameChannel
  BY <1>1, ChannelNamed DEF NameChannel, Say
<1>2. ASSUME NEW r \in Rules, AnswerPrivate(r) PROVE EngineInv'
  BY <1>2 DEF AnswerPrivate, Say, RequestShape
<1>3. ASSUME NEW r \in Rules, DeclareFact(r) PROVE EngineInv'
  BY <1>3 DEF DeclareFact, Say, RequestShape
<1>4. ASSUME NEW r \in Rules,
             \/ ConfirmAvailability(r) \/ RecheckSource(r) \/ StateCap(r)
             \/ StateCombinability(r) \/ StateHolidayPolicy(r) \/ LoseSource(r)
      PROVE  EngineInv'
  <2>1. \E c : Release(c)
    BY <1>4 DEF ConfirmAvailability, RecheckSource, StateCap, StateCombinability,
                StateHolidayPolicy, LoseSource
  <2>2. DOMAIN corpus = {"rules", "ops", "scopes"}
    BY DEF ParseCorpus
  <2>3. DOMAIN corpus'.rules = DOMAIN corpus.rules /\ corpus'.scopes = corpus.scopes
    BY <1>4, <2>2 DEF Release, ConfirmAvailability, RecheckSource, StateCap, StateCombinability,
                      StateHolidayPolicy, LoseSource
  <2>4. CorpusShape(corpus')
    BY <2>3 DEF CorpusShape
  <2> QED
    BY <2>1, <2>4 DEF Release
<1>5. CASE UNCHANGED vars
  BY <1>5 DEF vars
<1> QED
  BY <1>1, <1>2, <1>3, <1>4, <1>5 DEF Next

(* The corpus stays one the schema and the linter admit, the purchase one the*)
(* capture accepts, and what is shown what decide() returns for them.        *)
THEOREM EngineInvariant == Spec => []EngineInv
BY InitInvariant, StepKeepsInvariant, PTL DEF Spec
-----------------------------------------------------------------------------
(* An input is a part of a corpus with a request. What is assessed in it     *)
(* depends on the corpus and the request only, not on the part.              *)
Input(c, q) ==
  [rules |-> c.rules, ops |-> c.ops, scopes |-> c.scopes,
   context |-> FlattenToPurchaseContext(q.signature),
   portfolio |-> q.portfolio, at |-> q.at, holidays |-> q.holidays]

IsInput(in, c, q, S) ==
  /\ in.context = FlattenToPurchaseContext(q.signature)
  /\ in.portfolio = q.portfolio /\ in.at = q.at /\ in.holidays = q.holidays
  /\ DOMAIN in.scopes = S /\ S \subseteq DOMAIN c.scopes
  /\ \A s \in S : /\ c.scopes[s].merchant = in.context.merchant
                  /\ in.scopes[s] = c.scopes[s]
                  /\ MembersOf(in, s) = MembersOf(c, s)
                  /\ \A r \in MembersOf(c, s) :
                       in.rules[r] = c.rules[r] /\ r \in DOMAIN in.ops /\ in.ops[r] = c.ops[r]

OfMerchant(c, q) ==
  {s \in DOMAIN c.scopes : c.scopes[s].merchant = FlattenToPurchaseContext(q.signature).merchant}
Relevant(c, q) ==
  {s \in OfMerchant(c, q) :
     SignatureRelevant(c.scopes[s].signature, FlattenToPurchaseContext(q.signature))}

LEMMA InputFields ==
  ASSUME NEW c, NEW q, NEW in, in = BuildDecideInput(c, q)
  PROVE  /\ in.context = FlattenToPurchaseContext(q.signature)
         /\ in.portfolio = q.portfolio /\ in.at = q.at /\ in.holidays = q.holidays
         /\ DOMAIN in.scopes = Relevant(c, q)
         /\ \A s \in Relevant(c, q) : in.scopes[s] = c.scopes[s]
         /\ \A r : r \in DOMAIN in.rules <=> \E s \in Relevant(c, q) : r \in MembersOf(c, s)
         /\ \A r \in DOMAIN in.rules : in.rules[r] = c.rules[r]
         /\ DOMAIN in.ops = (DOMAIN in.rules) \cap DOMAIN c.ops
         /\ \A r \in DOMAIN in.ops : in.ops[r] = c.ops[r]
BY DEF BuildDecideInput, Relevant, OfMerchant

LEMMA AssembledIsInput ==
  ASSUME NEW c, NEW q, LintCorpus(c)
  PROVE  IsInput(BuildDecideInput(c, q), c, q, Relevant(c, q))
PROOF
<1> PICK in : in = BuildDecideInput(c, q)
  OBVIOUS
<1>1. /\ in.context = FlattenToPurchaseContext(q.signature)
      /\ in.portfolio = q.portfolio /\ in.at = q.at /\ in.holidays = q.holidays
      /\ DOMAIN in.scopes = Relevant(c, q)
      /\ \A s \in Relevant(c, q) : in.scopes[s] = c.scopes[s]
  BY InputFields
<1>2. /\ \A r : r \in DOMAIN in.rules <=> \E s \in Relevant(c, q) : r \in MembersOf(c, s)
      /\ \A r \in DOMAIN in.rules : in.rules[r] = c.rules[r]
      /\ DOMAIN in.ops = (DOMAIN in.rules) \cap DOMAIN c.ops
      /\ \A r \in DOMAIN in.ops : in.ops[r] = c.ops[r]
  BY InputFields
<1>3. \A s \in Relevant(c, q) : MembersOf(in, s) = MembersOf(c, s)
  BY <1>2 DEF MembersOf
<1>4. \A s \in Relevant(c, q) : \A r \in MembersOf(c, s) : r \in DOMAIN c.ops
  BY DEF MembersOf, LintCorpus, LintPublished
<1> QED
  BY <1>1, <1>2, <1>3, <1>4 DEF IsInput, Relevant, OfMerchant

LEMMA AssessedAlike ==
  ASSUME NEW in, NEW c, NEW q, NEW S, IsInput(in, c, q, S), NEW s \in S, NEW r \in MembersOf(c, s)
  PROVE  Assess(r, in.scopes[s], in) = Assess(r, c.scopes[s], Input(c, q))
PROOF
<1> PICK all : all = Input(c, q)
  OBVIOUS
<1>1. /\ in.rules[r] = all.rules[r] /\ in.ops[r] = all.ops[r] /\ in.scopes[s] = c.scopes[s]
      /\ in.context = all.context /\ in.portfolio = all.portfolio
      /\ in.at = all.at /\ in.holidays = all.holidays
  BY DEF IsInput, Input
<1>2. \A state, econ, doubts :
        Candidate(r, in, state, econ, doubts) = Candidate(r, all, state, econ, doubts)
  BY <1>1 DEF Candidate
<1>3. \A rule, op : /\ Excluded(rule, op, in) <=> Excluded(rule, op, all)
                    /\ DoubtsOf(rule, op, in) = DoubtsOf(rule, op, all)
  BY <1>1 DEF Excluded, DoubtsOf
<1>4. \A econ, doubts, source : Weigh(r, in, econ, doubts, source) = Weigh(r, all, econ, doubts, source)
  BY <1>2, Zenon DEF Weigh
<1> QED
  BY <1>1, <1>2, <1>3, <1>4 DEF Assess
-----------------------------------------------------------------------------
(* The capture's test of relevance and the one of provenance are the same,   *)
(* so that what is assembled is complete, and nothing in it is superfluous.  *)
LEMMA RelevanceAgrees ==
  ASSUME NEW sig, NEW ctx, sig.kind \in SignatureKinds
  PROVE  DecisionRelevant(sig, ctx) <=> SignatureRelevant(sig, ctx)
PROOF
<1>1. CASE sig.kind = "EXACT_BUNDLE"
  BY <1>1 DEF DecisionRelevant, SignatureRelevant, SignatureFacts, SamePurchase
<1>2. CASE sig.kind = "TICKETS"
  BY <1>2 DEF DecisionRelevant, SignatureRelevant, SignatureFacts, SamePurchase
<1>3. CASE sig.kind = "ELIGIBLE_BILL"
  BY <1>3 DEF DecisionRelevant, SignatureRelevant, SignatureFacts, SamePurchase
<1>4. CASE sig.kind = "NOMINAL_PACKAGE"
  BY <1>4 DEF DecisionRelevant, SignatureRelevant, SignatureFacts, SamePurchase
<1> QED
  BY <1>1, <1>2, <1>3, <1>4 DEF SignatureKinds

LEMMA RelevantByProvenance ==
  ASSUME NEW c, NEW q, ParseCorpus(c), NEW s \in DOMAIN c.scopes
  PROVE  LET ctx == FlattenToPurchaseContext(q.signature)
         IN s \in Relevant(c, q) <=>
              c.scopes[s].merchant = ctx.merchant /\ DecisionRelevant(c.scopes[s].signature, ctx)
PROOF
<1>1. c.scopes[s].signature.kind \in SignatureKinds
  BY DEF ParseCorpus, ScopeSchema, SignatureSchema
<1> QED
  BY <1>1, RelevanceAgrees DEF Relevant, OfMerchant

LEMMA AssembledIsComplete ==
  ASSUME NEW c, NEW q, ParseCorpus(c), LintCorpus(c), NEW in, in = BuildDecideInput(c, q)
  PROVE  /\ VerifyProvenance(c, in)
         /\ \A less \in LeavingOut(in) : ~CompleteSet(c, less)
PROOF
<1> DEFINE ctx == FlattenToPurchaseContext(q.signature)
<1>1. IsInput(in, c, q, Relevant(c, q))
  BY AssembledIsInput
<1>2. \A s \in DOMAIN c.scopes :
        s \in Relevant(c, q) <=>
          c.scopes[s].merchant = ctx.merchant /\ DecisionRelevant(c.scopes[s].signature, ctx)
  BY RelevantByProvenance
<1>3. VerifyProvenance(c, in)
  <2>1. Authentic(c, in)
    BY InputFields DEF Authentic, Relevant, OfMerchant, MembersOf
  <2>2. CompleteSet(c, in)
    BY <1>1, <1>2 DEF CompleteSet, IsInput
  <2> QED
    BY <2>1, <2>2 DEF VerifyProvenance
<1>4. ASSUME NEW r \in DOMAIN in.rules, NEW less,
             less = [in EXCEPT !.rules = Restrict(in.rules, DOMAIN in.rules \ {r})]
      PROVE  ~CompleteSet(c, less)
  <2>1. PICK s \in Relevant(c, q) : r \in MembersOf(c, s)
    BY InputFields
  <2>2. DOMAIN less.rules = DOMAIN in.rules \ {r} /\ less.context = in.context
    BY <1>4 DEF BuildDecideInput, Restrict
  <2>3. r \notin MembersOf(less, s)
    BY <2>2 DEF MembersOf
  <2> QED
    BY <1>1, <1>2, <2>1, <2>2, <2>3 DEF CompleteSet, IsInput, Relevant, OfMerchant
<1>5. ASSUME NEW s \in DOMAIN in.scopes, NEW less,
             less = [in EXCEPT !.scopes = Restrict(in.scopes, DOMAIN in.scopes \ {s})]
      PROVE  ~CompleteSet(c, less)
  <2>1. s \in Relevant(c, q)
    BY InputFields
  <2>2. DOMAIN less.scopes = DOMAIN in.scopes \ {s} /\ less.context = in.context
    BY <1>5 DEF BuildDecideInput, Restrict
  <2> QED
    BY <1>1, <1>2, <2>1, <2>2 DEF CompleteSet, IsInput, Relevant, OfMerchant
<1> QED
  BY <1>3, <1>4, <1>5 DEF LeavingOut

(* What the linter admits has the structure that decide() demands.           *)
LEMMA LintedIsWellFormed ==
  ASSUME NEW c, NEW q, LintCorpus(c), NEW in, NEW S, IsInput(in, c, q, S), NEW s \in Evaluated(in)
  PROVE  ~Malformed(in, s)
PROOF
<1>1. s \in S /\ in.scopes[s] = c.scopes[s] /\ MembersOf(in, s) = MembersOf(c, s)
  BY DEF Evaluated, IsInput
<1>2. ASSUME NEW r \in MembersOf(in, s)
      PROVE  /\ r \in DOMAIN in.ops
             /\ in.scopes[s].merchant \in in.rules[r].merchants
             /\ in.scopes[s].basis = ExpectedBasis(in.rules[r])
  <2>1. r \in DOMAIN c.rules /\ s \in c.rules[r].scopes
    BY <1>1 DEF MembersOf
  <2>2. LintRuleScopePair(c.rules[r], c.scopes[s])
    BY <2>1 DEF LintCorpus, LintPublished
  <2> QED
    BY <1>1, <2>2 DEF LintRuleScopePair, IsInput
<1> QED
  BY <1>2 DEF Malformed
-----------------------------------------------------------------------------
(* What decide() returns, of a corpus and a request.                         *)
Candidates(c, q, s) == {Assess(r, c.scopes[s], Input(c, q)) : r \in MembersOf(c, s)}
DecisionAt(c, q, s) == ResolveDecision(s, Candidates(c, q, s), c.scopes[s].basis)
Peopled(c, S) == {s \in S : MembersOf(c, s) # {}}

(* No candidate of the scope makes the evaluation throw.                     *)
Settles(c, q, s) ==
  \A w \in Candidates(c, q, s) :
    /\ w.state # "THROWN"
    /\ c.scopes[s].basis = "NOMINAL" /\ w.state = "RANKABLE" => NominalValid(w.econ)

FinalOf(matched) ==
  CASE matched = {} -> "(none)"
    [] Cardinality(matched) = 1 -> CHOOSE s \in matched : TRUE
    [] OTHER -> None

LEMMA Resolution ==
  ASSUME NEW s, NEW W, NEW basis, NEW d, d = ResolveDecision(s, W, basis),
         NEW st, st = Standing(W, basis)
  PROVE  /\ d = Resolved(s, W, basis, st, StatusOf(st))
         /\ d.scope = s /\ d.candidates = W /\ d.status = StatusOf(st)
         /\ d.top = IF d.status \in Confirmed THEN RulesOf(st.top) ELSE {}
         /\ d.possible = IF d.status \in Confirmed THEN Possible(st) ELSE {}
         /\ d.complete <=> d.status \in Confirmed /\ Possible(st) = {}
         /\ d.matched <=> d.status # "NO_APPLICABLE_BENEFIT" /\ st.settled \cup st.material # {}
BY DEF ResolveDecision, Resolved

LEMMA EvaluatedAlike ==
  ASSUME NEW in, NEW c, NEW q, NEW S, IsInput(in, c, q, S)
  PROVE  /\ Evaluated(in) = Peopled(c, S)
         /\ \A s \in S : EvaluateScope(s, in) = DecisionAt(c, q, s)
PROOF
<1>1. Evaluated(in) = Peopled(c, S)
  BY DEF Evaluated, Peopled, IsInput
<1>2. ASSUME NEW s \in S PROVE EvaluateScope(s, in) = DecisionAt(c, q, s)
  <2>1. /\ MembersOf(in, s) = MembersOf(c, s) /\ in.scopes[s] = c.scopes[s]
        /\ \A r \in MembersOf(c, s) : Assess(r, in.scopes[s], in) = Assess(r, c.scopes[s], Input(c, q))
    BY AssessedAlike DEF IsInput
  <2>2. {Assess(r, in.scopes[s], in) : r \in MembersOf(in, s)} = Candidates(c, q, s)
    BY <2>1 DEF Candidates
  <2> QED
    BY <2>1, <2>2 DEF EvaluateScope, DecisionAt
<1> QED
  BY <1>1, <1>2

LEMMA DecideOutcome ==
  ASSUME NEW c, NEW q, LintCorpus(c), NEW in, NEW S, IsInput(in, c, q, S),
         NEW e, e = Decide(in)
  PROVE  /\ e.error \in {None, "SETTLEMENT"}
         /\ e.error = None <=> /\ ContextMoneyValid(FlattenToPurchaseContext(q.signature))
                               /\ \A s \in Peopled(c, S) : Settles(c, q, s)
         /\ e.error = None => /\ \A d : d \in e.results <=> \E s \in Peopled(c, S) : d = DecisionAt(c, q, s)
                              /\ e.final = FinalOf(Matched(e.results))
         /\ e.error # None => e.results = {} /\ e.final = None
PROOF
<1> DEFINE results == {EvaluateScope(s, in) : s \in Evaluated(in)}
<1>1. /\ \A s \in Evaluated(in) : ~Malformed(in, s)
      /\ in.context = FlattenToPurchaseContext(q.signature)
  BY LintedIsWellFormed DEF IsInput
<1>2. \A d : d \in results <=> \E s \in Peopled(c, S) : d = DecisionAt(c, q, s)
  BY EvaluatedAlike DEF Peopled
<1>3. ASSUME NEW s \in Peopled(c, S)
      PROVE  Unsettled(in, DecisionAt(c, q, s)) <=> ~Settles(c, q, s)
  <2>1. DecisionAt(c, q, s).scope = s /\ DecisionAt(c, q, s).candidates = Candidates(c, q, s)
    BY Resolution DEF DecisionAt
  <2>2. in.scopes[s] = c.scopes[s]
    BY DEF IsInput, Peopled
  <2> QED
    BY <2>1, <2>2 DEF Unsettled, Settles
<1>4. e = IF ContextMoneyValid(in.context) THEN Conclude(in, results) ELSE Thrown("SETTLEMENT")
  BY <1>1 DEF Decide
<1>5. (\E d \in results : Unsettled(in, d)) <=> \E s \in Peopled(c, S) : ~Settles(c, q, s)
  BY <1>2, <1>3
<1>6. None # "SETTLEMENT"
  BY NoneAssumption
<1>7. Conclude(in, results) =
        IF \E d \in results : Unsettled(in, d) THEN Thrown("SETTLEMENT")
        ELSE [error |-> None, results |-> results, final |-> FinalOf(Matched(results))]
  BY Zenon DEF Conclude, FinalOf
<1> HIDE DEF results
<1> QED
  BY <1>1, <1>2, <1>4, <1>5, <1>6, <1>7 DEF Thrown

(* What is shown of a state of the engine.                                   *)
LEMMA Shown ==
  ASSUME NEW c, NEW q, LintCorpus(c), NEW e, e = Evaluation(c, q),
         NEW asked, asked = Peopled(c, Relevant(c, q))
  PROVE  /\ e.error \in {None, "SETTLEMENT"}
         /\ e.error = None <=> /\ ContextMoneyValid(FlattenToPurchaseContext(q.signature))
                               /\ \A s \in asked : Settles(c, q, s)
         /\ e.error = None => /\ \A d : d \in e.results <=> \E s \in asked : d = DecisionAt(c, q, s)
                              /\ e.final = FinalOf(Matched(e.results))
         /\ e.error # None => e.results = {} /\ e.final = None
PROOF
<1> DEFINE in == BuildDecideInput(c, q)
           S == Relevant(c, q)
<1>1. IsInput(in, c, q, S) /\ e = Decide(in)
  BY AssembledIsInput DEF Evaluation
<1>2. IsInput(in, c, q, S) /\ LintCorpus(c) /\ e = Decide(in) =>
         /\ e.error \in {None, "SETTLEMENT"}
         /\ e.error = None <=> /\ ContextMoneyValid(FlattenToPurchaseContext(q.signature))
                               /\ \A s \in Peopled(c, S) : Settles(c, q, s)
         /\ e.error = None => /\ \A d : d \in e.results <=> \E s \in Peopled(c, S) : d = DecisionAt(c, q, s)
                              /\ e.final = FinalOf(Matched(e.results))
         /\ e.error # None => e.results = {} /\ e.final = None
  <2> HIDE DEF in, S
  <2> QED BY ONLY DecideOutcome, Zenon
<1> QED
  BY <1>1, <1>2

LEMMA AcceptedInvariant == ASSUME EngineInv PROVE AssembledIsAccepted
PROOF
<1> PICK in : in = BuildDecideInput(corpus, request)
  OBVIOUS
<1>1. VerifyProvenance(corpus, in) /\ \A less \in LeavingOut(in) : ~CompleteSet(corpus, less)
  BY AssembledIsComplete DEF EngineInv
<1>2. evaluation.error # "STRUCTURE"
  BY Shown, NoneAssumption DEF EngineInv
<1> QED
  BY <1>1, <1>2 DEF AssembledIsAccepted

(* What the capture service assembles passes the provenance check, holds no  *)
(* rule or scope too many, and never makes decide() throw over its structure.*)
THEOREM AssembledAccepted == Spec => []AssembledIsAccepted
BY EngineInvariant, AcceptedInvariant, PTL
-----------------------------------------------------------------------------
(* What a candidate can be.                                                  *)
EconStates == {"RANKABLE", "REJECTED", "MISSING_CONTEXT", "UNKNOWN_CAP", "THROWN"}
States == {"RANKABLE", "UNCERTAIN", "REJECTED", "THROWN"}

LEMMA SettledStates ==
  ASSUME NEW rule, NEW ctx, BenefitSchema(rule.benefit)
  PROVE  /\ Settle(rule, ctx).state \in EconStates
         /\ rule.benefit.type = "NON_CASH_NOMINAL" =>
              Settle(rule, ctx) = SettleNominal(rule.benefit)
PROOF
<1> DEFINE b == rule.benefit
<1>1. \A cost, lowest : Cost(cost, lowest).state \in EconStates
  BY DEF Cost, Outcome, EconStates
<1>2. CASE b.type = "NON_CASH_NOMINAL"
  BY <1>2 DEF Settle, SettleNominal, Outcome, EconStates
<1>3. CASE b.type = "PERCENT"
  <2>1. SettlePercent(rule, ctx).state \in EconStates
    BY <1>1 DEF SettlePercent, Outcome, EconStates
  <2> QED
    BY <1>3, <2>1 DEF Settle
<1>4. CASE b.type = "FIXED_DISCOUNT"
  <2>1. SettleFixedDiscount(rule, ctx).state \in EconStates
    BY <1>1 DEF SettleFixedDiscount, Outcome, EconStates
  <2> QED
    BY <1>4, <2>1 DEF Settle
<1>5. CASE b.type = "FIXED_PRICE"
  <2>1. SettleFixedPrice(rule, ctx).state \in EconStates
    BY <1>1 DEF SettleFixedPrice, SettleTickets, Outcome, EconStates
  <2> QED
    BY <1>5, <2>1 DEF Settle
<1>6. CASE b.type = "FIXED_BUNDLE"
  BY <1>1, <1>6 DEF Settle
<1>7. CASE b.type = "TWO_FOR_ONE"
  <2>1. SettleTwoForOne(rule, ctx).state \in EconStates
    BY <1>1 DEF SettleTwoForOne, SettleTickets, Outcome, EconStates
  <2> QED
    BY <1>7, <2>1 DEF Settle
<1>8. CASE b.type = "CASHBACK"
  BY <1>1, <1>8 DEF Settle, Outcome, EconStates
<1> QED
  BY <1>2, <1>3, <1>4, <1>5, <1>6, <1>7, <1>8 DEF BenefitSchema

LEMMA EconomicsStates ==
  ASSUME NEW rule, NEW ctx, BenefitSchema(rule.benefit), NEW econ, econ = ComputeEconomics(rule, ctx)
  PROVE  /\ econ.state \in EconStates
         /\ rule.benefit.type = "NON_CASH_NOMINAL" /\ econ.state \in {"RANKABLE", "UNKNOWN_CAP", "THROWN"}
              => econ = SettleNominal(rule.benefit)
BY SettledStates DEF ComputeEconomics, Outcome, EconStates

(* How a candidate comes about, from the gates to its state.                 *)
LEMMA CandidateCases ==
  ASSUME NEW r, NEW scope, NEW in, BenefitSchema(in.rules[r].benefit),
         in.ops[r].source \in SourceQualityStates,
         NEW w, w = Assess(r, scope, in),
         NEW match, match = MatchPurchaseSignature(scope.signature, in.context),
         NEW econ, econ = ComputeEconomics(in.rules[r], in.context),
         NEW doubts, doubts = DoubtsOf(in.rules[r], in.ops[r], in),
         NEW source, source = SourceUncertainty(in.ops[r])
  PROVE  /\ w.rule = r /\ w.state \in States
         /\ w.fresh <=> in.ops[r].source = "FRESH"
         /\ w.verifiable = in.rules[r].verifiable /\ w.confidence = in.rules[r].confidence
         /\ source = None <=> in.ops[r].source = "FRESH"
         /\ w.source \in {None, source}
         /\ \/ /\ match = "MISSING"
               /\ w.state = "UNCERTAIN" /\ w.doubts = {"CONTEXT"} /\ w.econ = Outcome("MISSING_CONTEXT")
            \/ /\ match # "MISSING" /\ (match = "NO_MATCH" \/ Excluded(in.rules[r], in.ops[r], in))
               /\ w.state = "REJECTED"
            \/ /\ match \notin {"MISSING", "NO_MATCH"} /\ ~Excluded(in.rules[r], in.ops[r], in)
               /\ w.econ = econ
               /\ \/ econ.state \in {"REJECTED", "THROWN"} /\ w.state = econ.state
                  \/ /\ econ.state = "MISSING_CONTEXT"
                     /\ w.state = "UNCERTAIN" /\ w.doubts = doubts \cup {"CONTEXT"}
                  \/ /\ econ.state = "UNKNOWN_CAP"
                     /\ w.state = "UNCERTAIN" /\ w.doubts = doubts \cup {"CAP"}
                  \/ /\ econ.state = "RANKABLE" /\ w.doubts = doubts /\ w.source = source
                     /\ w.state = IF doubts = {} /\ source = None THEN "RANKABLE" ELSE "UNCERTAIN"
PROOF
<1>1. /\ source = None <=> in.ops[r].source = "FRESH"
      /\ econ.state \in EconStates
  BY EconomicsStates, NoneAssumption DEF SourceUncertainty, SourceQualityStates
<1>2. ASSUME NEW state, NEW x, NEW ds, NEW v, v = Candidate(r, in, state, x, ds)
      PROVE  /\ v = [rule |-> r, state |-> state, econ |-> x, doubts |-> ds, source |-> None,
                     fresh |-> in.ops[r].source = "FRESH", verifiable |-> in.rules[r].verifiable,
                     confidence |-> in.rules[r].confidence]
             /\ v.rule = r /\ v.state = state /\ v.econ = x /\ v.doubts = ds /\ v.source = None
             /\ v.fresh <=> in.ops[r].source = "FRESH"
             /\ v.verifiable = in.rules[r].verifiable /\ v.confidence = in.rules[r].confidence
  BY <1>2 DEF Candidate
<1>3. CASE match = "MISSING"
  BY <1>1, <1>2, <1>3 DEF Assess, States
<1>4. CASE match # "MISSING" /\ (match = "NO_MATCH" \/ Excluded(in.rules[r], in.ops[r], in))
  BY <1>1, <1>2, <1>4 DEF Assess, States
<1>5. CASE match # "MISSING" /\ match # "NO_MATCH" /\ ~Excluded(in.rules[r], in.ops[r], in)
  <2>1. w = Weigh(r, in, econ, doubts, source)
    BY <1>5 DEF Assess
  <2>2. CASE econ.state \in {"REJECTED", "THROWN"}
    <3>1. w = Candidate(r, in, econ.state, econ, {})
      BY <2>1, <2>2 DEF Weigh
    <3> QED
      BY <1>1, <1>2, <1>5, <2>2, <3>1 DEF States
  <2>3. CASE econ.state = "MISSING_CONTEXT"
    BY <1>1, <1>2, <1>5, <2>1, <2>3 DEF Weigh, States
  <2>4. CASE econ.state = "UNKNOWN_CAP"
    BY <1>1, <1>2, <1>5, <2>1, <2>4 DEF Weigh, States
  <2>5. CASE econ.state = "RANKABLE"
    <3>1. PICK settled : settled = IF doubts = {} /\ source = None THEN "RANKABLE" ELSE "UNCERTAIN"
      OBVIOUS
    <3>2. PICK v : v = Candidate(r, in, settled, econ, doubts)
      OBVIOUS
    <3>3. w = [v EXCEPT !.source = source]
      BY <2>1, <2>5, <3>1, <3>2 DEF Weigh
    <3>4. w = [rule |-> r, state |-> settled, econ |-> econ, doubts |-> doubts, source |-> source,
               fresh |-> in.ops[r].source = "FRESH", verifiable |-> in.rules[r].verifiable,
               confidence |-> in.rules[r].confidence]
      BY <1>2, <3>2, <3>3
    <3>5. /\ w.rule = r /\ w.state = settled /\ w.econ = econ /\ w.doubts = doubts
          /\ w.source = source /\ w.fresh = (in.ops[r].source = "FRESH")
          /\ w.verifiable = in.rules[r].verifiable /\ w.confidence = in.rules[r].confidence
      BY ONLY <3>4
    <3>6. settled \in States
      BY <3>1 DEF States
    <3> QED
      BY <1>1, <1>5, <2>5, <3>1, <3>5, <3>6
  <2> QED
    BY <1>1, <2>2, <2>3, <2>4, <2>5 DEF EconStates
<1> QED
  BY <1>3, <1>4, <1>5
-----------------------------------------------------------------------------
(* What the schema and the linter say of a member of a scope.                *)
LEMMA MemberFacts ==
  ASSUME NEW c, NEW q, ParseCorpus(c), LintCorpus(c), NEW s \in DOMAIN c.scopes,
         NEW r \in MembersOf(c, s), NEW in, in = Input(c, q)
  PROVE  /\ r \in DOMAIN c.rules /\ r \in DOMAIN c.ops
         /\ in.rules[r] = c.rules[r] /\ in.ops[r] = c.ops[r]
         /\ in.context = FlattenToPurchaseContext(q.signature)
         /\ in.portfolio = q.portfolio /\ in.at = q.at /\ in.holidays = q.holidays
         /\ RuleSchema(c.rules[r]) /\ BenefitSchema(c.rules[r].benefit)
         /\ c.ops[r] \in OperationalSchema /\ c.ops[r].source \in SourceQualityStates
         /\ LintRule(c.rules[r]) /\ LintRuleScopePair(c.rules[r], c.scopes[s])
         /\ ScopeSchema(c.scopes[s]) /\ SignatureSchema(c.scopes[s].signature)
         /\ c.scopes[s].basis = "NOMINAL" => c.scopes[s].signature.kind = "NOMINAL_PACKAGE"
PROOF
<1>1. r \in DOMAIN c.rules /\ s \in c.rules[r].scopes
  BY DEF MembersOf
<1>2. LintRule(c.rules[r]) /\ r \in DOMAIN c.ops /\ LintRuleScopePair(c.rules[r], c.scopes[s])
  BY <1>1 DEF LintCorpus, LintPublished
<1>3. c.ops[r] \in OperationalSchema
  <2>1. c.ops \in [DOMAIN c.ops -> OperationalSchema]
    BY Zenon DEF ParseCorpus
  <2> QED
    BY <1>2, <2>1
<1>4. c.ops[r].source \in SourceQualityStates
  BY <1>3 DEF OperationalSchema
<1>5. RuleSchema(c.rules[r]) /\ BenefitSchema(c.rules[r].benefit)
  BY <1>1 DEF ParseCorpus, RuleSchema
<1>6. ScopeSchema(c.scopes[s]) /\ SignatureSchema(c.scopes[s].signature)
  BY DEF ParseCorpus, ScopeSchema
<1>7. c.scopes[s].basis = "NOMINAL" => c.scopes[s].signature.kind = "NOMINAL_PACKAGE"
  BY DEF LintCorpus
<1> QED
  BY <1>1, <1>2, <1>3, <1>4, <1>5, <1>6, <1>7 DEF Input

(* A benefit in kind of a linted corpus is worth a safe, positive amount.    *)
LEMMA NominalIsValid ==
  ASSUME NEW c, NEW q, ParseCorpus(c), LintCorpus(c), NEW s \in DOMAIN c.scopes,
         c.scopes[s].basis = "NOMINAL",
         NEW r \in MembersOf(c, s), NEW w, w = Assess(r, c.scopes[s], Input(c, q)),
         w.state = "RANKABLE"
  PROVE  /\ w.econ = SettleNominal(c.rules[r].benefit)
         /\ w.econ.unit = c.scopes[s].signature.unit
         /\ w.econ.acquisition = c.scopes[s].signature.acquisition
         /\ w.econ.acquisition \in Centimos
         /\ NominalValid(w.econ)
PROOF
<1> PICK in : in = Input(c, q)
  OBVIOUS
<1> DEFINE b == c.rules[r].benefit
           sig == c.scopes[s].signature
<1>1. /\ in.rules[r] = c.rules[r] /\ in.ops[r] = c.ops[r] /\ BenefitSchema(b)
      /\ c.ops[r].source \in SourceQualityStates
      /\ LintRuleScopePair(c.rules[r], c.scopes[s]) /\ SignatureSchema(sig)
      /\ sig.kind = "NOMINAL_PACKAGE"
  BY MemberFacts
<1>2. /\ b.type = "NON_CASH_NOMINAL" /\ b.unit = sig.unit /\ b.acquisition = sig.acquisition
  BY <1>1 DEF LintRuleScopePair, LintSignature
<1>3. sig.acquisition \in Centimos
  BY <1>1 DEF SignatureSchema
<1>4. b.value \in Centimos \ {0}
  BY <1>1, <1>2 DEF BenefitSchema
<1>5. PICK econ : econ = ComputeEconomics(c.rules[r], in.context)
  OBVIOUS
<1>6. w.econ = econ /\ econ.state = "RANKABLE"
  BY <1>1, <1>5, CandidateCases
<1>7. econ = SettleNominal(b)
  BY <1>1, <1>2, <1>5, <1>6, EconomicsStates
<1>8. /\ SettleNominal(b).value = b.value /\ SettleNominal(b).unit = b.unit
      /\ SettleNominal(b).acquisition = b.acquisition
  BY DEF SettleNominal, Outcome
<1> QED
  BY <1>2, <1>3, <1>4, <1>6, <1>7, <1>8, MaxSafeAssumption DEF NominalValid, Safe, Centimos

(* So a scope settles when none of its candidates is thrown over.            *)
LEMMA SettlesUnlessThrown ==
  ASSUME NEW c, NEW q, ParseCorpus(c), LintCorpus(c), NEW s \in DOMAIN c.scopes
  PROVE  Settles(c, q, s) <=> \A w \in Candidates(c, q, s) : w.state # "THROWN"
BY NominalIsValid DEF Settles, Candidates

LEMMA ConfirmedMeans ==
  ASSUME NEW st, StatusOf(st) \in Confirmed
  PROVE  st.rankable # {} /\ st.better = {}
BY DEF StatusOf, StatusRanked, StatusUnranked, Confirmed

LEMMA StandingDepends ==
  ASSUME NEW V, NEW W, NEW basis,
         {w \in V : w.state = "RANKABLE"} = {w \in W : w.state = "RANKABLE"},
         {w \in V : w.state = "UNCERTAIN"} = {w \in W : w.state = "UNCERTAIN"}
  PROVE  Standing(V, basis) = Standing(W, basis)
BY DEF Standing

LEMMA TopAtScope ==
  ASSUME NEW c, NEW q, NEW e, NEW asked, NEW s \in asked,
         \A d : d \in e.results <=> \E t \in asked : d = DecisionAt(c, q, t)
  PROVE  TopAt(e, s) = DecisionAt(c, q, s).top
PROOF
<1>1. \A t : DecisionAt(c, q, t).scope = t
  BY Resolution DEF DecisionAt
<1>2. {x \in e.results : x.scope = s} = {DecisionAt(c, q, s)}
  BY <1>1
<1>3. TopAt(e, s) = UNION {d.top : d \in {DecisionAt(c, q, s)}}
  BY <1>2 DEF TopAt
<1> QED
  BY <1>3
-----------------------------------------------------------------------------
(* Losing the source of rule r: whatever is not excluded then could turn out *)
(* to be anything, and stands in the way of a winner.                        *)
SourceLost(c, after, r) ==
  /\ after.rules = c.rules /\ after.scopes = c.scopes /\ DOMAIN after.ops = DOMAIN c.ops
  /\ \A o \in DOMAIN c.ops \ {r} : after.ops[o] = c.ops[o]
  /\ r \in DOMAIN c.ops /\ c.ops[r].source = "FRESH" /\ after.ops[r].source # "FRESH"
  /\ after.ops[r].publication = c.ops[r].publication
  /\ after.ops[r].availability = c.ops[r].availability

LEMMA OthersUnmoved ==
  ASSUME NEW c, NEW after, NEW q, NEW r, SourceLost(c, after, r),
         NEW s \in DOMAIN c.scopes, NEW o \in MembersOf(c, s), o \in DOMAIN c.ops, o # r
  PROVE  Assess(o, c.scopes[s], Input(after, q)) = Assess(o, c.scopes[s], Input(c, q))
PROOF
<1> PICK in, all : in = Input(after, q) /\ all = Input(c, q)
  OBVIOUS
<1>1. /\ in.rules[o] = all.rules[o] /\ in.ops[o] = all.ops[o]
      /\ in.context = all.context /\ in.portfolio = all.portfolio
      /\ in.at = all.at /\ in.holidays = all.holidays
  BY DEF Input, SourceLost
<1>2. \A state, econ, doubts :
        Candidate(o, in, state, econ, doubts) = Candidate(o, all, state, econ, doubts)
  BY <1>1 DEF Candidate
<1>3. \A rule, op : /\ Excluded(rule, op, in) <=> Excluded(rule, op, all)
                    /\ DoubtsOf(rule, op, in) = DoubtsOf(rule, op, all)
  BY <1>1 DEF Excluded, DoubtsOf
<1>4. \A econ, doubts, source : Weigh(o, in, econ, doubts, source) = Weigh(o, all, econ, doubts, source)
  BY <1>2, Zenon DEF Weigh
<1> QED
  BY <1>1, <1>2, <1>3, <1>4 DEF Assess

LEMMA LoserDoubted ==
  ASSUME NEW c, NEW after, NEW q, ParseCorpus(c), LintCorpus(c), ParseCorpus(after), LintCorpus(after),
         NEW r, SourceLost(c, after, r),
         NEW s \in DOMAIN c.scopes, r \in MembersOf(c, s),
         NEW v, v = Assess(r, c.scopes[s], Input(c, q)),
         NEW w, w = Assess(r, c.scopes[s], Input(after, q))
  PROVE  /\ v.state \in {"REJECTED", "THROWN"} <=> w.state \in {"REJECTED", "THROWN"}
         /\ v.state = "THROWN" <=> w.state = "THROWN"
         /\ w.state \in {"REJECTED", "THROWN", "UNCERTAIN"}
         /\ w.state = "UNCERTAIN" => ~w.fresh /\ ~UserResolvable(w)
PROOF
<1> PICK in, all : in = Input(after, q) /\ all = Input(c, q)
  OBVIOUS
<1>1. s \in DOMAIN after.scopes /\ after.scopes[s] = c.scopes[s] /\ r \in MembersOf(after, s)
  BY DEF SourceLost, MembersOf
<1>2. /\ all.rules[r] = c.rules[r] /\ all.ops[r] = c.ops[r]
      /\ BenefitSchema(c.rules[r].benefit) /\ c.ops[r].source \in SourceQualityStates
  BY MemberFacts
<1>3. /\ in.rules[r] = after.rules[r] /\ in.ops[r] = after.ops[r]
      /\ after.ops[r].source \in SourceQualityStates
  BY <1>1, MemberFacts
<1>4. /\ in.rules[r] = all.rules[r] /\ in.context = all.context /\ in.portfolio = all.portfolio
      /\ in.at = all.at /\ in.holidays = all.holidays
  BY <1>2, <1>3 DEF Input, SourceLost
<1>5. /\ Excluded(in.rules[r], in.ops[r], in) <=> Excluded(all.rules[r], all.ops[r], all)
      /\ DoubtsOf(in.rules[r], in.ops[r], in) = DoubtsOf(all.rules[r], all.ops[r], all)
  BY <1>2, <1>3, <1>4 DEF Excluded, DoubtsOf, SourceLost
<1>6. PICK match, econ, doubts : /\ match = MatchPurchaseSignature(c.scopes[s].signature, all.context)
                                 /\ econ = ComputeEconomics(all.rules[r], all.context)
                                 /\ doubts = DoubtsOf(all.rules[r], all.ops[r], all)
  OBVIOUS
<1>7. PICK before, lost : before = SourceUncertainty(all.ops[r]) /\ lost = SourceUncertainty(in.ops[r])
  OBVIOUS
<1>8. /\ v.state \in States
      /\ \/ match = "MISSING" /\ v.state = "UNCERTAIN"
         \/ /\ match # "MISSING" /\ (match = "NO_MATCH" \/ Excluded(all.rules[r], all.ops[r], all))
            /\ v.state = "REJECTED"
         \/ /\ match \notin {"MISSING", "NO_MATCH"} /\ ~Excluded(all.rules[r], all.ops[r], all)
            /\ \/ econ.state \in {"REJECTED", "THROWN"} /\ v.state = econ.state
               \/ /\ econ.state \in {"MISSING_CONTEXT", "UNKNOWN_CAP", "RANKABLE"}
                  /\ v.state \in {"UNCERTAIN", "RANKABLE"}
  BY <1>2, <1>6, <1>7, CandidateCases
<1>9. /\ w.state \in States /\ ~w.fresh /\ lost # None
      /\ \/ match = "MISSING" /\ w.state = "UNCERTAIN" /\ "CONTEXT" \in w.doubts
         \/ /\ match # "MISSING" /\ (match = "NO_MATCH" \/ Excluded(all.rules[r], all.ops[r], all))
            /\ w.state = "REJECTED"
         \/ /\ match \notin {"MISSING", "NO_MATCH"} /\ ~Excluded(all.rules[r], all.ops[r], all)
            /\ \/ econ.state \in {"REJECTED", "THROWN"} /\ w.state = econ.state
               \/ /\ econ.state \in {"MISSING_CONTEXT", "UNKNOWN_CAP", "RANKABLE"}
                  /\ w.state = "UNCERTAIN"
                  /\ w.doubts \cap {"CONTEXT", "CAP"} # {} \/ w.source = lost
  BY <1>2, <1>3, <1>4, <1>5, <1>6, <1>7, CandidateCases DEF SourceLost
<1> QED
  BY <1>8, <1>9, NoneAssumption DEF UserResolvable, States

(* A top set that is there without the source was there with it.             *)
LEMMA LossKeepsTop ==
  ASSUME NEW c, NEW after, NEW q, ParseCorpus(c), LintCorpus(c), ParseCorpus(after), LintCorpus(after),
         NEW r, SourceLost(c, after, r), NEW s \in DOMAIN c.scopes,
         Settles(after, q, s), DecisionAt(after, q, s).top # {}
  PROVE  DecisionAt(c, q, s).top = DecisionAt(after, q, s).top
PROOF
<1> DEFINE W == Candidates(after, q, s)
           V == Candidates(c, q, s)
           basis == c.scopes[s].basis
<1>1. /\ MembersOf(after, s) = MembersOf(c, s) /\ after.scopes[s] = c.scopes[s]
      /\ s \in DOMAIN after.scopes
  BY DEF SourceLost, MembersOf
<1>2. PICK st : st = Standing(W, basis)
  OBVIOUS
<1>3. DecisionAt(after, q, s) = ResolveDecision(s, W, basis)
  BY <1>1 DEF DecisionAt
<1>4. st.better = {}
  BY <1>2, <1>3, Resolution, ConfirmedMeans
<1>5. \A w \in W : w.state = "UNCERTAIN" /\ ~w.fresh => UserResolvable(w)
  BY <1>2, <1>4 DEF Standing, StandingOf, CouldChangeTop, CouldImprove, Bounded
<1>6. \A w \in W : w.state # "THROWN"
  BY <1>1, SettlesUnlessThrown
<1>7. \A o \in MembersOf(c, s) \ {r} :
        Assess(o, c.scopes[s], Input(after, q)) = Assess(o, c.scopes[s], Input(c, q))
  BY OthersUnmoved, MemberFacts
<1>8. r \in MembersOf(c, s) => /\ Assess(r, c.scopes[s], Input(after, q)).state = "REJECTED"
                               /\ Assess(r, c.scopes[s], Input(c, q)).state = "REJECTED"
  <2> SUFFICES ASSUME r \in MembersOf(c, s)
               PROVE  /\ Assess(r, c.scopes[s], Input(after, q)).state = "REJECTED"
                      /\ Assess(r, c.scopes[s], Input(c, q)).state = "REJECTED"
    OBVIOUS
  <2>1. PICK v, w : /\ v = Assess(r, c.scopes[s], Input(c, q))
                    /\ w = Assess(r, c.scopes[s], Input(after, q))
    OBVIOUS
  <2>2. w \in W
    BY <1>1, <2>1 DEF Candidates
  <2>3. /\ v.state \in {"REJECTED", "THROWN"} <=> w.state \in {"REJECTED", "THROWN"}
        /\ v.state = "THROWN" <=> w.state = "THROWN"
        /\ w.state \in {"REJECTED", "THROWN", "UNCERTAIN"}
        /\ w.state = "UNCERTAIN" => ~w.fresh /\ ~UserResolvable(w)
    BY <2>1, LoserDoubted
  <2> HIDE DEF W
  <2> QED
    BY <1>5, <1>6, <2>1, <2>2, <2>3
<1>9. \A w : w.state # "REJECTED" => (w \in W <=> w \in V)
  BY <1>1, <1>7, <1>8 DEF Candidates
<1>10. /\ {w \in V : w.state = "RANKABLE"} = {w \in W : w.state = "RANKABLE"}
       /\ {w \in V : w.state = "UNCERTAIN"} = {w \in W : w.state = "UNCERTAIN"}
  BY <1>9
<1>11. Standing(V, basis) = st
  BY <1>2, <1>10, StandingDepends
<1>12. DecisionAt(c, q, s) = ResolveDecision(s, V, basis)
  BY DEF DecisionAt
<1> HIDE DEF V, W
<1> QED
  BY <1>2, <1>3, <1>11, <1>12, Resolution

LEMMA LostIsSourceLost ==
  ASSUME EngineInv, [Next]_vars, Lost
  PROVE  /\ request' = request /\ ParseCorpus(corpus') /\ LintCorpus(corpus')
         /\ evaluation' = Evaluation(corpus', request)
         /\ \E r : SourceLost(corpus, corpus', r)
PROOF
<1>1. PICK o \in Rules : corpus.ops[o].source = "FRESH" /\ corpus'.ops[o].source # "FRESH"
  BY DEF Lost
<1>2. o \in DOMAIN corpus.ops
  BY DEF EngineInv, LintCorpus, LintPublished, Rules
<1>3. DOMAIN corpus = {"rules", "ops", "scopes"} /\ corpus.ops \in [DOMAIN corpus.ops -> OperationalSchema]
  BY Zenon DEF EngineInv, ParseCorpus
<1>4. \A p \in DOMAIN corpus.ops : DOMAIN corpus.ops[p] = {"publication", "source", "availability"}
  BY <1>3 DEF OperationalSchema
<1>5. PICK r \in Rules : LoseSource(r)
  <2>1. ASSUME corpus'.ops = corpus.ops PROVE FALSE
    BY <1>1, <2>1
  <2>2. ~UNCHANGED vars /\ ~NameChannel
    BY <2>1 DEF vars, NameChannel, Say
  <2>3. ASSUME NEW r \in Rules, AnswerPrivate(r) \/ DeclareFact(r) PROVE FALSE
    BY <2>1, <2>3 DEF AnswerPrivate, DeclareFact, Say
  <2>4. ASSUME NEW r \in Rules, StateCap(r) \/ StateCombinability(r) \/ StateHolidayPolicy(r) PROVE FALSE
    BY <1>3, <2>1, <2>4 DEF StateCap, StateCombinability, StateHolidayPolicy, Release
  <2>5. ASSUME NEW r \in Rules, ConfirmAvailability(r) PROVE FALSE
    <3>1. PICK a : corpus' = [corpus EXCEPT !.ops[r].availability = a]
      BY <2>5 DEF ConfirmAvailability, Release
    <3>2. corpus'.ops[o].source = corpus.ops[o].source
      BY <1>2, <1>3, <1>4, <3>1
    <3> QED
      BY <1>1, <3>2
  <2>6. ASSUME NEW r \in Rules, RecheckSource(r) PROVE FALSE
    <3>1. corpus' = [corpus EXCEPT !.ops[r].source = "FRESH"]
      BY <2>6 DEF RecheckSource, Release
    <3>2. corpus'.ops[o].source \in {"FRESH", corpus.ops[o].source}
      BY <1>2, <1>3, <1>4, <3>1
    <3> QED
      BY <1>1, <3>2
  <2> QED
    BY <2>2, <2>3, <2>4, <2>5, <2>6 DEF Next
<1>6. PICK x : corpus' = [corpus EXCEPT !.ops[r].source = x]
  BY <1>5 DEF LoseSource, Release
<1>7. /\ request' = request /\ ParseCorpus(corpus') /\ LintCorpus(corpus')
      /\ evaluation' = Evaluation(corpus', request)
      /\ corpus.ops[r].source = "FRESH"
  BY <1>5 DEF LoseSource, Release
<1>8. SourceLost(corpus, corpus', r)
  <2>1. r \in DOMAIN corpus.ops
    BY DEF EngineInv, LintCorpus, LintPublished, Rules
  <2>2. /\ corpus'.rules = corpus.rules /\ corpus'.scopes = corpus.scopes
        /\ corpus'.ops = [corpus.ops EXCEPT ![r].source = x]
    BY <1>3, <1>6
  <2>3. /\ DOMAIN corpus'.ops = DOMAIN corpus.ops
        /\ \A p \in DOMAIN corpus.ops \ {r} : corpus'.ops[p] = corpus.ops[p]
        /\ corpus'.ops[r] = [corpus.ops[r] EXCEPT !.source = x]
    BY <2>1, <2>2
  <2>4. o = r
    BY <1>1, <1>2, <2>3
  <2>5. /\ corpus'.ops[r].publication = corpus.ops[r].publication
        /\ corpus'.ops[r].availability = corpus.ops[r].availability
    BY <1>4, <2>1, <2>3
  <2> QED
    BY <1>1, <2>1, <2>2, <2>3, <2>4, <2>5 DEF SourceLost
<1> QED
  BY <1>7, <1>8

LEMMA LossStep ==
  ASSUME EngineInv, [Next]_vars, Lost, NEW d \in evaluation'.results, d.top # {}
  PROVE  TopAt(evaluation, d.scope) = d.top
PROOF
<1>1. PICK c, after, q, e, f : /\ c = corpus /\ after = corpus' /\ q = request
                               /\ e = evaluation /\ f = evaluation'
  OBVIOUS
<1>2. /\ ParseCorpus(c) /\ LintCorpus(c) /\ e = Evaluation(c, q)
      /\ ParseCorpus(after) /\ LintCorpus(after) /\ f = Evaluation(after, q)
      /\ \E r : SourceLost(c, after, r)
  BY <1>1, LostIsSourceLost DEF EngineInv
<1>3. PICK r : SourceLost(c, after, r)
  BY <1>2
<1>4. PICK asked : asked = Peopled(c, Relevant(c, q))
  OBVIOUS
<1>5. asked = Peopled(after, Relevant(after, q)) /\ asked \subseteq DOMAIN c.scopes
  BY <1>3, <1>4 DEF SourceLost, Peopled, Relevant, OfMerchant, MembersOf
<1>6. /\ f.error = None
      /\ \A s \in asked : Settles(after, q, s)
      /\ ContextMoneyValid(FlattenToPurchaseContext(q.signature))
      /\ \A x : x \in f.results <=> \E s \in asked : x = DecisionAt(after, q, s)
  BY <1>1, <1>2, <1>5, Shown
<1>7. PICK s \in asked : d = DecisionAt(after, q, s)
  BY <1>1, <1>6
<1>8. d.scope = s
  BY <1>7, Resolution DEF DecisionAt
<1>9. \A t \in asked : Settles(c, q, t)
  <2> SUFFICES ASSUME NEW t \in asked, NEW o \in MembersOf(c, t)
               PROVE  Assess(o, c.scopes[t], Input(c, q)).state # "THROWN"
    BY <1>2, <1>5, SettlesUnlessThrown DEF Candidates
  <2>1. /\ MembersOf(after, t) = MembersOf(c, t) /\ after.scopes[t] = c.scopes[t]
        /\ t \in DOMAIN after.scopes /\ t \in DOMAIN c.scopes
    BY <1>3, <1>5 DEF SourceLost, MembersOf
  <2>2. Assess(o, c.scopes[t], Input(after, q)).state # "THROWN"
    BY <1>2, <1>6, <2>1, SettlesUnlessThrown DEF Candidates
  <2>3. CASE o # r
    BY <1>2, <1>3, <2>1, <2>2, <2>3, OthersUnmoved, MemberFacts
  <2>4. CASE o = r
    <3>1. PICK v, w : /\ v = Assess(r, c.scopes[t], Input(c, q))
                      /\ w = Assess(r, c.scopes[t], Input(after, q))
      OBVIOUS
    <3>2. v.state = "THROWN" <=> w.state = "THROWN"
      BY <1>2, <1>3, <2>1, <2>4, <3>1, LoserDoubted
    <3> QED
      BY <2>2, <2>4, <3>1, <3>2
  <2> QED
    BY <2>3, <2>4
<1>10. \A x : x \in e.results <=> \E t \in asked : x = DecisionAt(c, q, t)
  BY <1>2, <1>4, <1>6, <1>9, Shown
<1>11. TopAt(e, s) = DecisionAt(c, q, s).top
  BY <1>10, TopAtScope
<1>12. DecisionAt(c, q, s).top = DecisionAt(after, q, s).top
  <2>1. s \in DOMAIN c.scopes /\ Settles(after, q, s) /\ DecisionAt(after, q, s).top # {}
    BY <1>5, <1>6, <1>7
  <2> QED
    BY <1>2, <1>3, <2>1, LossKeepsTop, Zenon
<1> QED
  BY <1>1, <1>7, <1>8, <1>11, <1>12

(* Losing evidence never makes decide() confirm anything: what stands after a*)
(* source was lost stood before, with the same top set.                      *)
THEOREM LossConfirmsNothing == Spec => LossNeverConfirms
PROOF
<1>1. ASSUME EngineInv, [Next]_vars
      PROVE  [Lost => \A d \in evaluation'.results : d.top # {} => TopAt(evaluation, d.scope) = d.top]_vars
  BY <1>1, LossStep
<1> QED
  BY <1>1, EngineInvariant, PTL DEF Spec, LossNeverConfirms
-----------------------------------------------------------------------------
(* A scope all of whose candidates are rejected has no applicable benefit.   *)
LEMMA NothingApplies ==
  ASSUME NEW s, NEW W, NEW basis, \A w \in W : w.state = "REJECTED",
         NEW d, d = ResolveDecision(s, W, basis)
  PROVE  d.status = "NO_APPLICABLE_BENEFIT" /\ ~d.matched
PROOF
<1>1. PICK st : st = Standing(W, basis)
  OBVIOUS
<1>2. st.settled = {} /\ st.rankable = {} /\ st.uncertain = {} /\ st.material = {} /\ st.resolvable = {}
  <2>1. {w \in W : w.state = "RANKABLE"} = {} /\ {w \in W : w.state = "UNCERTAIN"} = {}
    OBVIOUS
  <2>2. st = StandingOf({}, {}, basis)
    BY <1>1, <2>1 DEF Standing
  <2> QED
    BY <2>2 DEF StandingOf
<1>3. StatusOf(st) = "NO_APPLICABLE_BENEFIT"
  BY <1>2 DEF StatusOf, StatusUnranked, OnlyPrivate
<1> QED
  BY <1>1, <1>3, Resolution

(* The candidates of one scope of a linted corpus can always be compared.    *)
LEMMA SettledAreComparable ==
  ASSUME NEW c, NEW q, ParseCorpus(c), LintCorpus(c), NEW s \in DOMAIN c.scopes,
         NEW settled, settled = {w \in Candidates(c, q, s) : w.state = "RANKABLE"}, settled # {}
  PROVE  Comparable(c.scopes[s].basis, settled)
PROOF
<1> DEFINE sig == c.scopes[s].signature
<1>1. PICK r \in MembersOf(c, s) : TRUE
  BY DEF Candidates
<1>2. c.scopes[s].basis \in {"COST", "NOMINAL"}
  BY <1>1, MemberFacts DEF LintRuleScopePair, ExpectedBasis
<1>3. CASE c.scopes[s].basis = "NOMINAL"
  <2>1. \A w \in settled : /\ w.econ.unit = sig.unit /\ w.econ.acquisition = sig.acquisition
                           /\ w.econ.acquisition \in Centimos
    BY <1>3, NominalIsValid DEF Candidates
  <2>2. \A w \in settled : w.econ.acquisition # None
    BY <2>1, NoneAssumption, MaxSafeAssumption DEF Centimos
  <2> HIDE DEF sig
  <2> QED
    BY <2>1, <2>2 DEF Comparable
<1> QED
  BY <1>2, <1>3 DEF Comparable

(* What VERIFY_FIRST says of a scope: a private doubt, and none that the     *)
(* participant cannot settle, is on every candidate that is not rejected.    *)
LEMMA VerifyFirstMeans ==
  ASSUME NEW c, NEW q, ParseCorpus(c), LintCorpus(c), NEW s \in DOMAIN c.scopes,
         Settles(c, q, s), DecisionAt(c, q, s).status = "VERIFY_FIRST",
         NEW w \in Candidates(c, q, s), w.state \in States
  PROVE  \/ w.state = "REJECTED"
         \/ /\ w.state = "UNCERTAIN"
            /\ "PRIVATE" \in w.doubts /\ w.doubts \subseteq {"PRIVATE", "AVAILABILITY"}
PROOF
<1> DEFINE W == Candidates(c, q, s)
           basis == c.scopes[s].basis
<1>1. PICK st : st = Standing(W, basis)
  OBVIOUS
<1>2. PICK settled, uncertain : /\ settled = {v \in W : v.state = "RANKABLE"}
                                /\ uncertain = {v \in W : v.state = "UNCERTAIN"}
  OBVIOUS
<1>3. st = StandingOf(settled, uncertain, basis)
  BY <1>1, <1>2 DEF Standing
<1>4. StatusOf(st) = "VERIFY_FIRST"
  BY <1>1, Resolution DEF DecisionAt
<1>5. st.rankable = {} /\ OnlyPrivate(st)
  BY <1>4 DEF StatusOf, StatusRanked, StatusUnranked
<1>6. settled = {}
  <2>1. st.rankable = IF Comparable(basis, settled) THEN settled ELSE {}
    BY <1>3 DEF StandingOf
  <2>2. settled # {} => Comparable(basis, settled)
    BY <1>2, SettledAreComparable
  <2> QED
    BY <1>5, <2>1, <2>2
<1>7. st.better = {} /\ \A v \in st.resolvable : "PRIVATE" \in v.doubts
  BY <1>5 DEF OnlyPrivate
<1>8. /\ st.best = None /\ st.rankable = {}
      /\ \A v \in uncertain : ~UserResolvable(v) => v \in st.better
      /\ \A v \in uncertain : UserResolvable(v) => v \in st.resolvable
  BY <1>3, <1>6 DEF StandingOf, CouldChangeTop, CouldImprove
<1>9. w \in uncertain => /\ "PRIVATE" \in w.doubts
                         /\ w.doubts \subseteq {"PRIVATE", "AVAILABILITY"}
  BY <1>7, <1>8 DEF UserResolvable
<1>10. w.state # "THROWN" /\ w.state # "RANKABLE"
  BY <1>2, <1>6 DEF Settles
<1> QED
  BY <1>2, <1>9, <1>10 DEF States

(* Were every private state NO, no private rule would apply, and any other   *)
(* would be what it is.                                                      *)
PrivateDenied(c, q, n) ==
  /\ n.signature = q.signature /\ n.at = q.at /\ n.holidays = q.holidays
  /\ n.portfolio.instruments = q.portfolio.instruments
  /\ n.portfolio.declarations = q.portfolio.declarations
  /\ \A r \in DOMAIN c.rules :
       /\ c.rules[r].privateKey \in DOMAIN n.portfolio.privateStates
       /\ n.portfolio.privateStates[c.rules[r].privateKey] = "NO"

LEMMA EligibleAlike ==
  ASSUME NEW c, NEW q, NEW n, PrivateDenied(c, q, n), NEW r \in DOMAIN c.rules
  PROVE  /\ c.rules[r].class # "PROVIDER_PRIVATE" =>
              EvaluateEligibility(c.rules[r], n.portfolio) = EvaluateEligibility(c.rules[r], q.portfolio)
         /\ c.rules[r].class = "PROVIDER_PRIVATE" =>
              EvaluateEligibility(c.rules[r], n.portfolio) = "INELIGIBLE"
         /\ EvaluateEligibility(c.rules[r], q.portfolio) = "PRIVATE" =>
              c.rules[r].class = "PROVIDER_PRIVATE"
PROOF
<1>1. /\ n.portfolio.instruments = q.portfolio.instruments
      /\ \A fact : Declared(n.portfolio, fact) = Declared(q.portfolio, fact)
  BY DEF PrivateDenied, Declared
<1>2. /\ \A family, field, required : ResolveCard(n.portfolio, family, field, required)
                                      = ResolveCard(q.portfolio, family, field, required)
      /\ \A required : ResolveMembership(n.portfolio, required) = ResolveMembership(q.portfolio, required)
  BY <1>1 DEF ResolveCard, ResolveMembership
<1>3. RequiredFacts(c.rules[r], n.portfolio) = RequiredFacts(c.rules[r], q.portfolio)
  BY <1>2 DEF RequiredFacts
<1>4. PrivateState(c.rules[r], n.portfolio) = "NO"
  BY DEF PrivateDenied, PrivateState
<1> QED
  BY <1>1, <1>3, <1>4 DEF EvaluateEligibility

LEMMA DeniedCandidate ==
  ASSUME NEW c, NEW q, NEW n, ParseCorpus(c), LintCorpus(c), PrivateDenied(c, q, n),
         NEW s \in DOMAIN c.scopes, NEW r \in MembersOf(c, s),
         NEW v, v = Assess(r, c.scopes[s], Input(c, q)),
         NEW w, w = Assess(r, c.scopes[s], Input(c, n))
  PROVE  /\ c.rules[r].class # "PROVIDER_PRIVATE" =>
              w = v /\ (v.state = "UNCERTAIN" => "PRIVATE" \notin v.doubts)
         /\ c.rules[r].class = "PROVIDER_PRIVATE" =>
              \/ w.state = "REJECTED"
              \/ w.state = "UNCERTAIN" /\ v.state = "UNCERTAIN" /\ "CONTEXT" \in v.doubts
         /\ v.state \in States
PROOF
<1> PICK in, all : in = Input(c, n) /\ all = Input(c, q)
  OBVIOUS
<1>1. /\ r \in DOMAIN c.rules
      /\ all.rules[r] = c.rules[r] /\ all.ops[r] = c.ops[r] /\ in.rules[r] = c.rules[r]
      /\ BenefitSchema(c.rules[r].benefit) /\ c.ops[r].source \in SourceQualityStates
      /\ in.ops[r] = c.ops[r] /\ all.portfolio = q.portfolio /\ in.portfolio = n.portfolio
      /\ in.context = all.context /\ in.at = all.at /\ in.holidays = all.holidays
  BY MemberFacts DEF PrivateDenied
<1>2. PICK match : match = MatchPurchaseSignature(c.scopes[s].signature, all.context)
  OBVIOUS
<1>3. v.state \in States
  BY <1>1, CandidateCases
<1>4. CASE c.rules[r].class # "PROVIDER_PRIVATE"
  <2>1. EvaluateEligibility(c.rules[r], in.portfolio) = EvaluateEligibility(c.rules[r], all.portfolio)
    BY <1>1, <1>4, EligibleAlike
  <2>2. /\ Excluded(c.rules[r], c.ops[r], in) <=> Excluded(c.rules[r], c.ops[r], all)
        /\ DoubtsOf(c.rules[r], c.ops[r], in) = DoubtsOf(c.rules[r], c.ops[r], all)
    BY <1>1, <2>1 DEF Excluded, DoubtsOf
  <2>3. \A state, econ, doubts :
          Candidate(r, in, state, econ, doubts) = Candidate(r, all, state, econ, doubts)
    BY <1>1 DEF Candidate
  <2>4. \A econ, doubts, source : Weigh(r, in, econ, doubts, source) = Weigh(r, all, econ, doubts, source)
    BY <2>3, Zenon DEF Weigh
  <2>5. w = v
    BY <1>1, <2>2, <2>3, <2>4 DEF Assess
  <2>6. "PRIVATE" \notin DoubtsOf(c.rules[r], c.ops[r], all)
    BY <1>1, <1>4, EligibleAlike DEF DoubtsOf, When
  <2>7. v.state = "UNCERTAIN" => "PRIVATE" \notin v.doubts
    BY <1>1, <2>6, CandidateCases
  <2> QED
    BY <1>3, <1>4, <2>5, <2>7
<1>5. CASE c.rules[r].class = "PROVIDER_PRIVATE"
  <2>1. EvaluateEligibility(c.rules[r], in.portfolio) = "INELIGIBLE"
    BY <1>1, <1>5, EligibleAlike
  <2>2. Excluded(in.rules[r], in.ops[r], in)
    BY <1>1, <2>1 DEF Excluded
  <2>3. CASE match = "MISSING"
    <3>1. v.state = "UNCERTAIN" /\ v.doubts = {"CONTEXT"}
      BY <1>1, <1>2, <2>3 DEF Assess, Candidate
    <3>2. w.state = "UNCERTAIN"
      BY <1>1, <1>2, <2>3 DEF Assess, Candidate
    <3> QED
      BY <1>3, <1>5, <3>1, <3>2
  <2>4. CASE match # "MISSING"
    <3>1. w.state = "REJECTED"
      BY <1>1, <1>2, <2>2, <2>4, CandidateCases
    <3> QED
      BY <1>3, <1>5, <3>1
  <2> QED
    BY <2>3, <2>4
<1> QED
  BY <1>4, <1>5

LEMMA SolePath ==
  ASSUME NEW c, NEW q, NEW n, ParseCorpus(c), LintCorpus(c), PrivateDenied(c, q, n),
         NEW d \in Evaluation(c, q).results, d.status = "VERIFY_FIRST"
  PROVE  \E e \in Evaluation(c, n).results : e.scope = d.scope /\ e.status = "NO_APPLICABLE_BENEFIT"
PROOF
<1>1. PICK e, f : e = Evaluation(c, q) /\ f = Evaluation(c, n)
  OBVIOUS
<1>2. PICK asked : asked = Peopled(c, Relevant(c, q))
  OBVIOUS
<1>3. asked = Peopled(c, Relevant(c, n)) /\ asked \subseteq DOMAIN c.scopes
  BY <1>2 DEF PrivateDenied, Peopled, Relevant, OfMerchant
<1>4. /\ e.error = None
      /\ \A s \in asked : Settles(c, q, s)
      /\ ContextMoneyValid(FlattenToPurchaseContext(q.signature))
      /\ \A x : x \in e.results <=> \E s \in asked : x = DecisionAt(c, q, s)
  BY <1>1, <1>2, Shown
<1>5. PICK s \in asked : d = DecisionAt(c, q, s)
  BY <1>1, <1>4
<1>6. \A t \in asked : Settles(c, n, t)
  <2> SUFFICES ASSUME NEW t \in asked, NEW r \in MembersOf(c, t)
               PROVE  Assess(r, c.scopes[t], Input(c, n)).state # "THROWN"
    BY <1>3, SettlesUnlessThrown DEF Candidates
  <2>1. Assess(r, c.scopes[t], Input(c, q)).state # "THROWN"
    BY <1>3, <1>4 DEF Settles, Candidates
  <2> QED
    BY <1>3, <2>1, DeniedCandidate
<1>7. f.error = None /\ \A x : x \in f.results <=> \E t \in asked : x = DecisionAt(c, n, t)
  BY <1>1, <1>3, <1>4, <1>6, Shown DEF PrivateDenied
<1>8. \A w \in Candidates(c, n, s) : w.state = "REJECTED"
  <2> SUFFICES ASSUME NEW r \in MembersOf(c, s)
               PROVE  Assess(r, c.scopes[s], Input(c, n)).state = "REJECTED"
    BY DEF Candidates
  <2>1. PICK v, w : /\ v = Assess(r, c.scopes[s], Input(c, q))
                    /\ w = Assess(r, c.scopes[s], Input(c, n))
    OBVIOUS
  <2>2. /\ c.rules[r].class # "PROVIDER_PRIVATE" =>
              w = v /\ (v.state = "UNCERTAIN" => "PRIVATE" \notin v.doubts)
        /\ c.rules[r].class = "PROVIDER_PRIVATE" =>
              \/ w.state = "REJECTED"
              \/ w.state = "UNCERTAIN" /\ v.state = "UNCERTAIN" /\ "CONTEXT" \in v.doubts
        /\ v.state \in States
    BY <1>3, <2>1, DeniedCandidate
  <2>3. v \in Candidates(c, q, s) /\ Settles(c, q, s) /\ s \in DOMAIN c.scopes
    BY <1>3, <1>4, <2>1 DEF Candidates
  <2>4. \/ v.state = "REJECTED"
        \/ /\ v.state = "UNCERTAIN"
           /\ "PRIVATE" \in v.doubts /\ v.doubts \subseteq {"PRIVATE", "AVAILABILITY"}
    BY <1>5, <2>2, <2>3, VerifyFirstMeans
  <2> QED
    BY <2>1, <2>2, <2>4
<1>9. DecisionAt(c, n, s).status = "NO_APPLICABLE_BENEFIT"
  BY <1>8, NothingApplies DEF DecisionAt
<1>10. d.scope = s /\ DecisionAt(c, n, s).scope = s
  BY <1>5, Resolution DEF DecisionAt
<1> QED
  BY <1>1, <1>5, <1>7, <1>9, <1>10

LEMMA SolePathInvariant == ASSUME EngineInv PROVE VerifyFirstIsSolePath
PROOF
<1>1. PICK n : n = AllPrivateNo
  OBVIOUS
<1>2. PrivateDenied(corpus, request, n)
  BY <1>1 DEF AllPrivateNo, PrivateDenied, EngineInv, RequestShape, Rules
<1> QED
  BY <1>1, <1>2, SolePath DEF VerifyFirstIsSolePath, EngineInv

(* VERIFY_FIRST of resolveDecision means that private benefits are the only  *)
(* path: were every private state NO, nothing would apply.                   *)
THEOREM VerifyFirstSolePath == Spec => []VerifyFirstIsSolePath
BY EngineInvariant, SolePathInvariant, PTL
-----------------------------------------------------------------------------
(* The assembly leaves out only what the engine would not have matched.      *)
LEMMA IrrelevantIsUnmatched ==
  ASSUME NEW c, NEW q, NEW s \in OfMerchant(c, q) \ Relevant(c, q)
  PROVE  ~DecisionAt(c, q, s).matched
PROOF
<1> PICK in : in = Input(c, q)
  OBVIOUS
<1>1. in.context = FlattenToPurchaseContext(q.signature)
  BY DEF Input
<1>2. MatchPurchaseSignature(c.scopes[s].signature, in.context) = "NO_MATCH"
  BY <1>1 DEF Relevant, SignatureRelevant, MatchPurchaseSignature
<1>3. \A r : Assess(r, c.scopes[s], in).state = "REJECTED"
  BY <1>2 DEF Assess, Candidate
<1>4. \A w \in Candidates(c, q, s) : w.state = "REJECTED"
  BY <1>3 DEF Candidates
<1> QED
  BY <1>4, NothingApplies DEF DecisionAt

LEMMA MatchedScopes ==
  ASSUME NEW c, NEW q, NEW results, NEW asked,
         \A d : d \in results <=> \E s \in asked : d = DecisionAt(c, q, s)
  PROVE  \A s : s \in Matched(results) <=> s \in asked /\ DecisionAt(c, q, s).matched
PROOF
<1>1. \A s : DecisionAt(c, q, s).scope = s
  BY Resolution DEF DecisionAt
<1> QED
  BY <1>1 DEF Matched

LEMMA WholeIsInput ==
  ASSUME EngineInv
  PROVE  IsInput(WholeInput, corpus, request, OfMerchant(corpus, request))
PROOF
<1> PICK in, ctx : in = WholeInput /\ ctx = FlattenToPurchaseContext(request.signature)
  OBVIOUS
<1>1. ctx.merchant = request.signature.merchant
  <2>1. "merchant" \in DOMAIN request.signature
    BY DEF EngineInv, RequestShape, NormalizeSignature
  <2> QED
    BY <2>1 DEF FlattenToPurchaseContext, ContextFields
<1>2. /\ in.context = ctx
      /\ in.portfolio = request.portfolio /\ in.at = request.at /\ in.holidays = request.holidays
      /\ in.rules = corpus.rules /\ in.ops = corpus.ops
      /\ in.scopes = [s \in {t \in DOMAIN corpus.scopes :
                               corpus.scopes[t].merchant = request.signature.merchant}
                        |-> corpus.scopes[s]]
  BY DEF WholeInput, BuildDecideInput
<1>3. DOMAIN in.scopes = OfMerchant(corpus, request)
  BY <1>1, <1>2 DEF OfMerchant
<1>4. \A s \in OfMerchant(corpus, request) : in.scopes[s] = corpus.scopes[s]
  BY <1>1, <1>2 DEF OfMerchant
<1>5. \A s : MembersOf(in, s) = MembersOf(corpus, s)
  BY <1>2 DEF MembersOf
<1>6. \A s : \A r \in MembersOf(corpus, s) : r \in DOMAIN in.ops
  BY <1>2 DEF MembersOf, EngineInv, LintCorpus, LintPublished
<1> QED
  BY <1>2, <1>3, <1>4, <1>5, <1>6 DEF IsInput, OfMerchant

LEMMA SameMatchesOf ==
  ASSUME NEW c, NEW q, LintCorpus(c), NEW whole, IsInput(whole, c, q, OfMerchant(c, q)),
         NEW a, a = Decide(whole), NEW b, b = Evaluation(c, q), a.error = None, b.error = None
  PROVE  Matched(a.results) = Matched(b.results) /\ a.final = b.final
PROOF
<1> PICK all, asked : all = Peopled(c, OfMerchant(c, q)) /\ asked = Peopled(c, Relevant(c, q))
  OBVIOUS
<1>1. /\ \A d : d \in a.results <=> \E s \in all : d = DecisionAt(c, q, s)
      /\ a.final = FinalOf(Matched(a.results))
  <2> DEFINE S == OfMerchant(c, q)
  <2>1. IsInput(whole, c, q, S) /\ LintCorpus(c) /\ a = Decide(whole) =>
          (a.error = None => /\ \A d : d \in a.results <=> \E s \in Peopled(c, S) : d = DecisionAt(c, q, s)
                             /\ a.final = FinalOf(Matched(a.results)))
    <3> HIDE DEF S
    <3> QED BY ONLY DecideOutcome, Zenon
  <2> QED
    BY <2>1
<1>2. /\ \A d : d \in b.results <=> \E s \in asked : d = DecisionAt(c, q, s)
      /\ b.final = FinalOf(Matched(b.results))
  BY Shown
<1>3. asked \subseteq all /\ all \ asked \subseteq OfMerchant(c, q) \ Relevant(c, q)
  BY DEF Peopled, Relevant
<1>4. \A s \in all \ asked : ~DecisionAt(c, q, s).matched
  BY <1>3, IrrelevantIsUnmatched
<1>5. \A s : s \in Matched(a.results) <=> s \in all /\ DecisionAt(c, q, s).matched
  BY <1>1, MatchedScopes
<1>6. \A s : s \in Matched(b.results) <=> s \in asked /\ DecisionAt(c, q, s).matched
  BY <1>2, MatchedScopes
<1>7. Matched(a.results) = Matched(b.results)
  BY <1>3, <1>4, <1>5, <1>6
<1> QED
  BY <1>1, <1>2, <1>7

LEMMA LosslessInvariant == ASSUME EngineInv PROVE AssemblyLosesNothing
PROOF
<1> PICK whole : whole = WholeInput
  OBVIOUS
<1>1. IsInput(whole, corpus, request, OfMerchant(corpus, request))
  BY WholeIsInput
<1> QED
  BY <1>1, SameMatchesOf DEF AssemblyLosesNothing, SameMatches, EngineInv

(* The scopes that the assembly leaves out would not have matched: decide()  *)
(* matches the same ones, and concludes the same, over all of the merchant's.*)
THEOREM AssemblyLossless == Spec => []AssemblyLosesNothing
BY EngineInvariant, LosslessInvariant, PTL
-----------------------------------------------------------------------------
(* The arithmetic of a percentage.                                           *)
LEMMA FloorBelowHalfUp ==
  ASSUME NEW eligible \in Nat, NEW bps \in Nat
  PROVE  /\ Floor(eligible, bps) \in Nat /\ HalfUp(eligible, bps) \in Nat
         /\ Floor(eligible, bps) <= HalfUp(eligible, bps)
         /\ HalfUp(eligible, bps) <= Floor(eligible, bps) + 1
PROOF
<1>1. PICK p \in Nat : p = eligible * bps
  OBVIOUS
<1>2. /\ p \div 10000 \in Nat /\ (p + 5000) \div 10000 \in Nat
      /\ p \div 10000 <= (p + 5000) \div 10000
      /\ (p + 5000) \div 10000 <= p \div 10000 + 1
  BY ONLY p \in Nat
<1> QED
  BY <1>1, <1>2 DEF Floor, HalfUp

LEMMA PercentFields ==
  ASSUME NEW eligible, NEW benefit, PercentValid(eligible, benefit)
  PROVE  eligible \in Nat /\ benefit.bps \in Nat
PROOF
<1>1. eligible \in 0 .. MaxSafe /\ benefit.bps \in BasisPoints
  BY Zenon DEF PercentValid, Safe
<1>2. 0 .. MaxSafe \subseteq Nat
  BY MaxSafeAssumption
<1>3. BasisPoints \subseteq Nat
  BY DEF BasisPoints
<1> QED
  BY ONLY <1>1, <1>2, <1>3, Zenon

(* The discount of a valid percentage, its rounding either way.              *)
LEMMA PercentBand ==
  ASSUME NEW eligible, NEW benefit, benefit.type = "PERCENT", BenefitSchema(benefit),
         PercentValid(eligible, benefit), NEW band, band = PercentDiscount(eligible, benefit)
  PROVE  /\ band.value \in Nat /\ band.upper \in Nat /\ band.value <= band.upper
         /\ benefit.rounding # "UNKNOWN" => band.value = band.upper
PROOF
<1>1. eligible \in Nat /\ benefit.bps \in Nat
  BY PercentFields
<1>2. PICK low, high \in Nat : /\ low = Floor(eligible, benefit.bps) /\ high = HalfUp(eligible, benefit.bps)
                               /\ low \in Nat /\ low <= high
  BY <1>1, FloorBelowHalfUp
<1>3. benefit.rounding \in {"FLOOR_TO_CENT", "ROUND_HALF_UP_TO_CENT", "UNKNOWN"}
  BY DEF BenefitSchema, PercentValid
<1>4. CASE benefit.rounding = "FLOOR_TO_CENT"
  BY <1>2, <1>4 DEF PercentDiscount
<1>5. CASE benefit.rounding = "ROUND_HALF_UP_TO_CENT"
  BY <1>2, <1>5 DEF PercentDiscount
<1>6. CASE benefit.rounding = "UNKNOWN"
  BY <1>2, <1>6 DEF PercentDiscount
<1> QED
  BY <1>3, <1>4, <1>5, <1>6

LEMMA CostFields ==
  ASSUME NEW cost, NEW lowest, NEW econ, econ = Cost(cost, lowest)
  PROVE  /\ econ.state \in {"RANKABLE", "THROWN"}
         /\ econ.state = "RANKABLE" => /\ econ.cost = cost /\ econ.lowest = lowest
                                       /\ econ.cost \in 0 .. MaxSafe
BY DEF Cost, Outcome, Safe

(* What a settlement says of money. The bill is an amount, if there is one.  *)
MoneySound(rule, econ) ==
  /\ econ.state = "RANKABLE" => /\ econ.cost \in 0 .. MaxSafe
                                /\ \/ econ.lowest = econ.cost
                                   \/ rule.benefit.type = "PERCENT" /\ rule.benefit.rounding = "UNKNOWN"
                                /\ econ.lowest \in Int /\ econ.lowest <= econ.cost
  /\ econ.state = "UNKNOWN_CAP" => /\ econ.lowest \in Int
                                   /\ rule.benefit.type = "PERCENT" /\ CapOpen(rule)

LEMMA CostSound ==
  ASSUME NEW rule, NEW cost, NEW econ, econ = Cost(cost, cost)
  PROVE  MoneySound(rule, econ)
PROOF
<1>1. /\ econ.state \in {"RANKABLE", "THROWN"}
      /\ econ.state = "RANKABLE" => econ.lowest = econ.cost /\ econ.cost \in 0 .. MaxSafe
  BY CostFields
<1> QED
  BY <1>1, MaxSafeAssumption DEF MoneySound

LEMMA PercentSound ==
  ASSUME NEW rule, NEW ctx, rule.benefit.type = "PERCENT", BenefitSchema(rule.benefit),
         ctx.bill \in Optional(Centimos), rule.cap \in Optional(CapSchema),
         NEW econ, econ = SettlePercent(rule, ctx)
  PROVE  MoneySound(rule, econ)
PROOF
<1>1. PICK eligible : eligible = SelectorQuantity(rule.selector, ctx)
  OBVIOUS
<1>2. PICK band : band = PercentDiscount(eligible, rule.benefit)
  OBVIOUS
<1>3. CASE None \in {eligible, ctx.bill} \/ ~PercentValid(eligible, rule.benefit)
  BY <1>1, <1>3 DEF SettlePercent, Outcome, MoneySound
<1>4. CASE None \notin {eligible, ctx.bill} /\ PercentValid(eligible, rule.benefit)
  <2>1. /\ band.value \in Nat /\ band.upper \in Nat /\ band.value <= band.upper
        /\ rule.benefit.rounding # "UNKNOWN" => band.value = band.upper
    BY <1>2, <1>4, PercentBand
  <2>2. ctx.bill \in Int
    BY <1>4, MaxSafeAssumption DEF Optional, Centimos
  <2>3. CASE CapOpen(rule)
    <3>1. econ = [Outcome("UNKNOWN_CAP") EXCEPT !.lowest = ctx.bill - band.upper]
      BY <1>1, <1>2, <1>4, <2>3 DEF SettlePercent, CapOpen
    <3>2. econ.state = "UNKNOWN_CAP" /\ econ.lowest = ctx.bill - band.upper
      BY <3>1 DEF Outcome
    <3> QED
      BY <2>1, <2>2, <2>3, <3>2 DEF MoneySound
  <2>4. CASE ~CapOpen(rule)
    <3>1. PICK a, b : a = ApplyKnownCap(band.value, rule.cap) /\ b = ApplyKnownCap(band.upper, rule.cap)
      OBVIOUS
    <3>2. econ = Cost(ctx.bill - a, ctx.bill - b)
      BY <1>1, <1>2, <1>4, <2>4, <3>1 DEF SettlePercent, CapOpen
    <3>3. rule.cap = None \/ rule.cap.kind # "AMOUNT" \/ rule.cap.centimos \in Int
      BY MaxSafeAssumption DEF Optional, CapSchema, Centimos
    <3>4. a \in Int /\ b \in Int /\ a <= b /\ (band.value = band.upper => a = b)
      BY <2>1, <3>1, <3>3 DEF ApplyKnownCap, Lesser
    <3>5. /\ econ.state \in {"RANKABLE", "THROWN"}
          /\ econ.state = "RANKABLE" => /\ econ.cost = ctx.bill - a /\ econ.lowest = ctx.bill - b
                                        /\ econ.cost \in 0 .. MaxSafe
      BY <3>2, CostFields
    <3> QED
      BY <2>1, <2>2, <3>4, <3>5 DEF MoneySound
  <2> QED
    BY <2>3, <2>4
<1> QED
  BY <1>3, <1>4

LEMMA SettleSound ==
  ASSUME NEW rule, NEW ctx, BenefitSchema(rule.benefit), rule.benefit.type # "NON_CASH_NOMINAL",
         ctx.bill \in Optional(Centimos), rule.cap \in Optional(CapSchema),
         NEW econ, econ = ComputeEconomics(rule, ctx)
  PROVE  MoneySound(rule, econ)
PROOF
<1> DEFINE type == rule.benefit.type
<1>1. \A state : state \notin {"RANKABLE", "UNKNOWN_CAP"} => MoneySound(rule, Outcome(state))
  BY DEF MoneySound, Outcome
<1>2. \A cost : MoneySound(rule, Cost(cost, cost))
  BY CostSound
<1>3. MoneySound(rule, Settle(rule, ctx))
  <2>1. CASE type = "PERCENT"
    <3>1. Settle(rule, ctx) = SettlePercent(rule, ctx)
      BY <2>1 DEF Settle
    <3> QED
      BY <2>1, <3>1, PercentSound
  <2>2. CASE type = "FIXED_DISCOUNT"
    BY <1>1, <1>2, <2>2 DEF Settle, SettleFixedDiscount
  <2>3. CASE type = "FIXED_PRICE"
    BY <1>1, <1>2, <2>3 DEF Settle, SettleFixedPrice, SettleTickets
  <2>4. CASE type = "FIXED_BUNDLE"
    BY <1>1, <1>2, <2>4 DEF Settle
  <2>5. CASE type = "TWO_FOR_ONE"
    BY <1>1, <1>2, <2>5 DEF Settle, SettleTwoForOne, SettleTickets
  <2>6. CASE type = "CASHBACK"
    BY <1>1, <1>2, <2>6 DEF Settle
  <2> QED
    BY <2>1, <2>2, <2>3, <2>4, <2>5, <2>6 DEF BenefitSchema
<1> QED
  BY <1>1, <1>3 DEF ComputeEconomics
-----------------------------------------------------------------------------
(* What a step of learning does to the economics of a rule. Naming the       *)
(* channel changes them only where context was missing.                      *)
LEMMA SettleIgnoresChannel ==
  ASSUME NEW rule, NEW ctx, NEW after, BenefitSchema(rule.benefit),
         \A f \in ContextFields \ {"channel"} : after[f] = ctx[f]
  PROVE  Settle(rule, after) = Settle(rule, ctx)
PROOF
<1> DEFINE type == rule.benefit.type
<1>1. /\ after.bill = ctx.bill /\ after.food = ctx.food /\ after.beverage = ctx.beverage
      /\ after.ticketPrice = ctx.ticketPrice /\ after.ticketCount = ctx.ticketCount
  BY DEF ContextFields
<1>2. \A selector : SelectorQuantity(selector, after) = SelectorQuantity(selector, ctx)
  BY <1>1, Zenon DEF SelectorQuantity
<1>3. CASE type = "PERCENT"
  <2>1. SettlePercent(rule, after) = SettlePercent(rule, ctx)
    BY <1>1, <1>2, Zenon DEF SettlePercent
  <2> QED
    BY <1>3, <2>1 DEF Settle
<1>4. CASE type = "FIXED_DISCOUNT"
  BY <1>1, <1>4 DEF Settle, SettleFixedDiscount
<1>5. CASE type = "FIXED_PRICE"
  BY <1>1, <1>5 DEF Settle, SettleFixedPrice
<1>6. CASE type = "FIXED_BUNDLE"
  BY <1>6 DEF Settle
<1>7. CASE type = "TWO_FOR_ONE"
  BY <1>1, <1>7 DEF Settle, SettleTwoForOne
<1>8. CASE type = "CASHBACK"
  BY <1>1, <1>8 DEF Settle
<1>9. CASE type = "NON_CASH_NOMINAL"
  BY <1>9 DEF Settle
<1> QED
  BY <1>3, <1>4, <1>5, <1>6, <1>7, <1>8, <1>9 DEF BenefitSchema

LEMMA ChannelEconomics ==
  ASSUME NEW rule, NEW ctx, NEW after, BenefitSchema(rule.benefit), ctx.channel = None,
         \A f \in ContextFields \ {"channel"} : after[f] = ctx[f],
         NEW econ, econ = ComputeEconomics(rule, ctx),
         NEW named, named = ComputeEconomics(rule, after)
  PROVE  named = econ \/ econ.state = "MISSING_CONTEXT"
PROOF
<1>1. /\ after.bill = ctx.bill /\ after.food = ctx.food /\ after.beverage = ctx.beverage
      /\ after.ticketPrice = ctx.ticketPrice /\ after.ticketCount = ctx.ticketCount
      /\ after.branch = ctx.branch
  BY DEF ContextFields
<1>2. \A selector : SelectorQuantity(selector, after) = SelectorQuantity(selector, ctx)
  BY <1>1, Zenon DEF SelectorQuantity
<1>3. Settle(rule, after) = Settle(rule, ctx)
  BY SettleIgnoresChannel
<1>4. CASE rule.channels = {}
  <2>1. ContextMismatch(rule, after) <=> ContextMismatch(rule, ctx)
    BY <1>1, <1>4 DEF ContextMismatch
  <2>2. "CHANNEL" \notin DeriveRequiredContext(rule)
    BY <1>4 DEF DeriveRequiredContext, When
  <2>3. MissingContextFor(rule, after) = MissingContextFor(rule, ctx)
    BY <1>1, <1>2, <2>2 DEF MissingContextFor, When
  <2>4. MinimumSpendMet(rule, after) <=> MinimumSpendMet(rule, ctx)
    BY <1>2 DEF MinimumSpendMet
  <2> QED
    BY <1>2, <1>3, <2>1, <2>3, <2>4 DEF ComputeEconomics
<1>5. CASE rule.channels # {}
  <2>1. "CHANNEL" \in MissingContextFor(rule, ctx)
    BY <1>5 DEF MissingContextFor, DeriveRequiredContext, When
  <2>2. econ = IF rule.selector = "NON_EQUIVALENT_PURCHASE" \/ ContextMismatch(rule, ctx)
               THEN Outcome("REJECTED") ELSE Outcome("MISSING_CONTEXT")
    BY <2>1 DEF ComputeEconomics
  <2>3. ContextMismatch(rule, ctx) => ContextMismatch(rule, after)
    BY <1>1 DEF ContextMismatch
  <2>4. rule.selector = "NON_EQUIVALENT_PURCHASE" \/ ContextMismatch(rule, ctx) =>
          named = Outcome("REJECTED")
    BY <2>3 DEF ComputeEconomics
  <2> QED
    BY <2>2, <2>4 DEF Outcome
<1> QED
  BY <1>4, <1>5

(* Stating a cap makes a percentage dearer than its bound, a fixed discount  *)
(* dearer than it was, and is nothing to any other benefit.                  *)
CapStated(rule, stated) ==
  /\ CapOpen(rule) /\ stated.cap # None /\ stated.cap.kind = "AMOUNT" /\ stated.cap.centimos \in Int
  /\ stated.benefit = rule.benefit /\ stated.selector = rule.selector
  /\ stated.minimum = rule.minimum /\ stated.channels = rule.channels
  /\ stated.include = rule.include /\ stated.exclude = rule.exclude
  /\ stated.products = rule.products

Dearer(rule, econ, capped) ==
  /\ econ.state \in {"UNKNOWN_CAP", "RANKABLE", "THROWN"} /\ capped.state \in {"RANKABLE", "THROWN"}
  /\ econ.state # "UNKNOWN_CAP" => rule.benefit.type = "FIXED_DISCOUNT"
  /\ econ.state = "UNKNOWN_CAP" /\ capped.state = "RANKABLE" =>
       capped.cost \in Int /\ capped.cost >= econ.lowest

LEMMA SettleCapped ==
  ASSUME NEW rule, NEW stated, CapStated(rule, stated), NEW ctx,
         BenefitSchema(rule.benefit), ctx.bill \in Optional(Centimos),
         NEW econ, econ = Settle(rule, ctx), NEW capped, capped = Settle(stated, ctx)
  PROVE  capped = econ \/ Dearer(rule, econ, capped)
PROOF
<1> DEFINE type == rule.benefit.type
<1>1. /\ CapOpen(rule) /\ stated.benefit = rule.benefit /\ stated.selector = rule.selector
      /\ stated.cap # None /\ stated.cap.kind = "AMOUNT" /\ stated.cap.centimos \in Int
  BY DEF CapStated
<1>2. CASE type = "PERCENT"
  <2>1. econ = SettlePercent(rule, ctx) /\ capped = SettlePercent(stated, ctx)
    BY <1>1, <1>2 DEF Settle
  <2>2. PICK eligible : eligible = SelectorQuantity(rule.selector, ctx)
    OBVIOUS
  <2>3. PICK band : band = PercentDiscount(eligible, rule.benefit)
    OBVIOUS
  <2>4. CASE None \in {eligible, ctx.bill} \/ ~PercentValid(eligible, rule.benefit)
    BY <1>1, <2>1, <2>2, <2>4 DEF SettlePercent
  <2>5. CASE None \notin {eligible, ctx.bill} /\ PercentValid(eligible, rule.benefit)
    <3>1. band.value \in Nat /\ band.upper \in Nat /\ band.value <= band.upper
      BY <1>2, <2>3, <2>5, PercentBand
    <3>2. ctx.bill \in Int
      BY <2>5, MaxSafeAssumption DEF Optional, Centimos
    <3>3. econ.state = "UNKNOWN_CAP" /\ econ.lowest = ctx.bill - band.upper
      BY <1>1, <2>1, <2>2, <2>3, <2>5 DEF SettlePercent, CapOpen, Outcome
    <3>4. PICK a, b : a = ApplyKnownCap(band.value, stated.cap) /\ b = ApplyKnownCap(band.upper, stated.cap)
      OBVIOUS
    <3>5. capped = Cost(ctx.bill - a, ctx.bill - b)
      BY <1>1, <2>1, <2>2, <2>3, <2>5, <3>4 DEF SettlePercent
    <3>6. a \in Int /\ a <= band.upper
      BY <1>1, <3>1, <3>4 DEF ApplyKnownCap, Lesser
    <3>7. /\ capped.state \in {"RANKABLE", "THROWN"}
          /\ capped.state = "RANKABLE" => capped.cost = ctx.bill - a
      BY <3>5, CostFields
    <3> QED
      BY <3>1, <3>2, <3>3, <3>6, <3>7 DEF Dearer
  <2> QED
    BY <2>4, <2>5
<1>3. CASE type = "FIXED_DISCOUNT"
  <2>1. econ = SettleFixedDiscount(rule, ctx) /\ capped = SettleFixedDiscount(stated, ctx)
    BY <1>1, <1>3 DEF Settle
  <2>2. CASE ctx.bill = None
    BY <2>1, <2>2 DEF SettleFixedDiscount
  <2>3. CASE ctx.bill # None
    <3>1. econ.state \in {"RANKABLE", "THROWN"} /\ capped.state \in {"RANKABLE", "THROWN"}
      BY <2>1, <2>3, CostFields DEF SettleFixedDiscount
    <3> QED
      BY <1>3, <3>1 DEF Dearer
  <2> QED
    BY <2>2, <2>3
<1>4. CASE type \in {"FIXED_PRICE", "FIXED_BUNDLE", "TWO_FOR_ONE", "CASHBACK", "NON_CASH_NOMINAL"}
  <2>1. capped = econ
    BY <1>1, <1>4 DEF Settle, SettleFixedPrice, SettleTwoForOne
  <2> QED
    BY <2>1
<1> QED
  BY <1>2, <1>3, <1>4 DEF BenefitSchema

LEMMA CapEconomics ==
  ASSUME NEW rule, NEW stated, CapStated(rule, stated), NEW ctx,
         BenefitSchema(rule.benefit), ctx.bill \in Optional(Centimos),
         NEW econ, econ = ComputeEconomics(rule, ctx),
         NEW capped, capped = ComputeEconomics(stated, ctx)
  PROVE  capped = econ \/ Dearer(rule, econ, capped)
PROOF
<1>1. /\ stated.selector = rule.selector /\ stated.minimum = rule.minimum
      /\ ContextMismatch(stated, ctx) <=> ContextMismatch(rule, ctx)
  BY DEF CapStated, ContextMismatch
<1>2. DeriveRequiredContext(stated) = DeriveRequiredContext(rule)
  <2>1. rule.cap # None /\ stated.cap # None
    BY DEF CapStated, CapOpen
  <2> QED
    BY <2>1 DEF CapStated, DeriveRequiredContext
<1>3. MissingContextFor(stated, ctx) = MissingContextFor(rule, ctx)
  BY <1>1, <1>2 DEF MissingContextFor
<1>4. MinimumSpendMet(stated, ctx) <=> MinimumSpendMet(rule, ctx)
  BY <1>1 DEF MinimumSpendMet
<1>5. PICK a, b : a = Settle(rule, ctx) /\ b = Settle(stated, ctx)
  OBVIOUS
<1>6. b = a \/ Dearer(rule, a, b)
  BY <1>5, SettleCapped
<1> QED
  BY <1>1, <1>3, <1>4, <1>5, <1>6 DEF ComputeEconomics
-----------------------------------------------------------------------------
(* What learning can make of a candidate. One that is rejected stays so, one *)
(* with a bound scores no better than the bound. Where prices are weighed, a *)
(* ranked one stays as it is and a bound never sinks.                        *)
Evolved(v, w, basis) ==
  /\ v.state = "REJECTED" => w.state = "REJECTED"
  /\ v.state = "UNCERTAIN" /\ Bounded(v, basis) /\ w.state = "RANKABLE" =>
       Score(w, basis) \in Int /\ Bound(v, basis) \in Int /\ Score(w, basis) >= Bound(v, basis)

Steady(v, w, basis) ==
  /\ Evolved(v, w, basis)
  /\ v.state = "RANKABLE" => w.state = "RANKABLE" /\ w.econ = v.econ
  /\ v.state = "UNCERTAIN" /\ Bounded(v, basis) /\ w.state = "UNCERTAIN" =>
       /\ Bounded(w, basis)
       /\ Bound(w, basis) \in Int /\ Bound(v, basis) \in Int /\ Bound(w, basis) >= Bound(v, basis)

(* The numbers of a candidate's economics, by the basis of its scope.        *)
ScoreSound(econ, basis) ==
  /\ basis = "COST" /\ econ.state = "RANKABLE" => econ.cost \in Int
  /\ basis = "NOMINAL" /\ econ.state = "RANKABLE" => econ.value \in Int
  /\ econ.state = "UNKNOWN_CAP" => basis = "COST" /\ econ.lowest \in Int

(* What is learnt about rule r between two inputs: whether a gate opens or   *)
(* closes, which doubts are lifted, how its economics change.                *)
Learnt(r, scope, in, out, basis) ==
  LET X == Excluded(in.rules[r], in.ops[r], in)
      Y == Excluded(out.rules[r], out.ops[r], out)
      D == DoubtsOf(in.rules[r], in.ops[r], in)
      F == DoubtsOf(out.rules[r], out.ops[r], out)
      econ == ComputeEconomics(in.rules[r], in.context)
      next == ComputeEconomics(out.rules[r], out.context)
  IN /\ BenefitSchema(in.rules[r].benefit) /\ BenefitSchema(out.rules[r].benefit)
     /\ in.ops[r].source \in SourceQualityStates /\ out.ops[r].source \in SourceQualityStates
     /\ in.ops[r].source = "FRESH" => out.ops[r].source = "FRESH"
     /\ MatchPurchaseSignature(scope.signature, out.context)
          = MatchPurchaseSignature(scope.signature, in.context)
     /\ X => Y
     /\ Y /\ ~X => D \cap {"AVAILABILITY", "HOLIDAY", "PRIVATE"} # {}
     /\ ~Y => F \subseteq D /\ D \ F \subseteq {"AVAILABILITY", "COMBINABILITY", "HOLIDAY"}
     /\ next = econ \/ econ.state = "MISSING_CONTEXT" \/ (Dearer(in.rules[r], econ, next) /\ F = D)
     /\ basis \in {"COST", "NOMINAL"} /\ ScoreSound(econ, basis) /\ ScoreSound(next, basis)

LEMMA Evolution ==
  ASSUME NEW r, NEW scope, NEW in, NEW out, NEW basis, Learnt(r, scope, in, out, basis),
         NEW econ, econ = ComputeEconomics(in.rules[r], in.context),
         NEW next, next = ComputeEconomics(out.rules[r], out.context),
         NEW v, v = Assess(r, scope, in), NEW w, w = Assess(r, scope, out)
  PROVE  /\ Evolved(v, w, basis)
         /\ next = econ \/ in.rules[r].benefit.type # "FIXED_DISCOUNT" \/ econ.state # "RANKABLE" =>
              Steady(v, w, basis)
PROOF
<1> PICK X, Y, D, F : /\ X <=> Excluded(in.rules[r], in.ops[r], in)
                      /\ Y <=> Excluded(out.rules[r], out.ops[r], out)
                      /\ D = DoubtsOf(in.rules[r], in.ops[r], in)
                      /\ F = DoubtsOf(out.rules[r], out.ops[r], out)
  OBVIOUS
<1>0. /\ BenefitSchema(in.rules[r].benefit) /\ BenefitSchema(out.rules[r].benefit)
      /\ in.ops[r].source \in SourceQualityStates /\ out.ops[r].source \in SourceQualityStates
      /\ in.ops[r].source = "FRESH" => out.ops[r].source = "FRESH"
      /\ X => Y
      /\ Y /\ ~X => D \cap {"AVAILABILITY", "HOLIDAY", "PRIVATE"} # {}
      /\ ~Y => F \subseteq D /\ D \ F \subseteq {"AVAILABILITY", "COMBINABILITY", "HOLIDAY"}
      /\ next = econ \/ econ.state = "MISSING_CONTEXT" \/ (Dearer(in.rules[r], econ, next) /\ F = D)
      /\ basis \in {"COST", "NOMINAL"} /\ ScoreSound(econ, basis) /\ ScoreSound(next, basis)
  BY DEF Learnt
<1>1. PICK match : /\ match = MatchPurchaseSignature(scope.signature, in.context)
                   /\ match = MatchPurchaseSignature(scope.signature, out.context)
  BY DEF Learnt
<1>2. PICK a, b : a = SourceUncertainty(in.ops[r]) /\ b = SourceUncertainty(out.ops[r])
  OBVIOUS
<1>3. /\ v.state \in States
      /\ v.fresh <=> in.ops[r].source = "FRESH"
      /\ a = None <=> in.ops[r].source = "FRESH"
      /\ \/ /\ match = "MISSING"
            /\ v.state = "UNCERTAIN" /\ v.doubts = {"CONTEXT"}
         \/ /\ match # "MISSING" /\ (match = "NO_MATCH" \/ X) /\ v.state = "REJECTED"
         \/ /\ match \notin {"MISSING", "NO_MATCH"} /\ ~X /\ v.econ = econ
            /\ \/ econ.state \in {"REJECTED", "THROWN"} /\ v.state = econ.state
               \/ /\ econ.state = "MISSING_CONTEXT"
                  /\ v.state = "UNCERTAIN" /\ v.doubts = D \cup {"CONTEXT"}
               \/ /\ econ.state = "UNKNOWN_CAP"
                  /\ v.state = "UNCERTAIN" /\ v.doubts = D \cup {"CAP"}
               \/ /\ econ.state = "RANKABLE" /\ v.doubts = D
                  /\ v.state = IF D = {} /\ a = None THEN "RANKABLE" ELSE "UNCERTAIN"
  <2>1. /\ BenefitSchema(in.rules[r].benefit) /\ in.ops[r].source \in SourceQualityStates
        /\ match = MatchPurchaseSignature(scope.signature, in.context)
        /\ X <=> Excluded(in.rules[r], in.ops[r], in)
        /\ D = DoubtsOf(in.rules[r], in.ops[r], in)
        /\ econ = ComputeEconomics(in.rules[r], in.context)
        /\ a = SourceUncertainty(in.ops[r]) /\ v = Assess(r, scope, in)
    BY <1>0, <1>1, <1>2
  <2> QED
    BY ONLY <2>1, CandidateCases
<1>4. /\ w.state \in States
      /\ w.fresh <=> out.ops[r].source = "FRESH"
      /\ b = None <=> out.ops[r].source = "FRESH"
      /\ \/ /\ match = "MISSING"
            /\ w.state = "UNCERTAIN" /\ w.doubts = {"CONTEXT"}
         \/ /\ match # "MISSING" /\ (match = "NO_MATCH" \/ Y) /\ w.state = "REJECTED"
         \/ /\ match \notin {"MISSING", "NO_MATCH"} /\ ~Y /\ w.econ = next
            /\ \/ next.state \in {"REJECTED", "THROWN"} /\ w.state = next.state
               \/ /\ next.state = "MISSING_CONTEXT"
                  /\ w.state = "UNCERTAIN" /\ w.doubts = F \cup {"CONTEXT"}
               \/ /\ next.state = "UNKNOWN_CAP"
                  /\ w.state = "UNCERTAIN" /\ w.doubts = F \cup {"CAP"}
               \/ /\ next.state = "RANKABLE" /\ w.doubts = F
                  /\ w.state = IF F = {} /\ b = None THEN "RANKABLE" ELSE "UNCERTAIN"
  <2>1. /\ BenefitSchema(out.rules[r].benefit) /\ out.ops[r].source \in SourceQualityStates
        /\ match = MatchPurchaseSignature(scope.signature, out.context)
        /\ Y <=> Excluded(out.rules[r], out.ops[r], out)
        /\ F = DoubtsOf(out.rules[r], out.ops[r], out)
        /\ next = ComputeEconomics(out.rules[r], out.context)
        /\ b = SourceUncertainty(out.ops[r]) /\ w = Assess(r, scope, out)
    BY <1>0, <1>1, <1>2
  <2> QED
    BY ONLY <2>1, CandidateCases
<1>5. /\ D \subseteq {"HOLIDAY", "PRIVATE", "AVAILABILITY", "COMBINABILITY"}
      /\ a = None => b = None
  BY <1>0, <1>3, <1>4 DEF DoubtsOf, When
<1>6. v.state = "REJECTED" => w.state = "REJECTED"
  BY <1>0, <1>3, <1>4 DEF Dearer, States
<1>7. CASE v.state = "RANKABLE"
  <2>1. /\ match \notin {"MISSING", "NO_MATCH"} /\ ~X /\ v.econ = econ
        /\ econ.state = "RANKABLE" /\ D = {} /\ a = None
    BY <1>3, <1>7 DEF States
  <2>2. ~Y /\ F = {} /\ b = None
    BY <1>0, <1>5, <2>1
  <2>3. next = econ \/ in.rules[r].benefit.type = "FIXED_DISCOUNT"
    BY <1>0, <2>1 DEF Dearer
  <2>4. next = econ => w.state = "RANKABLE" /\ w.econ = v.econ
    BY <1>4, <2>1, <2>2
  <2> QED
    BY <1>7, <2>1, <2>3, <2>4 DEF Evolved, Steady
<1>8. CASE v.state = "UNCERTAIN" /\ Bounded(v, basis) /\ w.state \in {"RANKABLE", "UNCERTAIN"}
  <2>1. /\ v.fresh /\ v.doubts \cap {"CONTEXT", "COMBINABILITY", "PRIVATE", "HOLIDAY"} = {}
        /\ basis = "COST" => v.doubts \cap {"CAP", "AVAILABILITY"} # {}
        /\ basis = "NOMINAL" => "AVAILABILITY" \in v.doubts
    BY <1>0, <1>8 DEF Bounded
  <2>2. /\ match \notin {"MISSING", "NO_MATCH"} /\ ~X /\ v.econ = econ /\ ~Y /\ w.econ = next
        /\ a = None /\ b = None /\ w.fresh /\ D \subseteq {"AVAILABILITY"} /\ F \subseteq D
        /\ \/ econ.state = "UNKNOWN_CAP" /\ v.doubts = D \cup {"CAP"}
           \/ econ.state = "RANKABLE" /\ v.doubts = D /\ D = {"AVAILABILITY"}
    BY <1>0, <1>3, <1>4, <1>5, <1>8, <2>1 DEF States
  <2>3. CASE econ.state = "UNKNOWN_CAP" /\ next = econ
    <3>1. /\ basis = "COST" /\ econ.lowest \in Int /\ v.doubts = D \cup {"CAP"}
          /\ w.state = "UNCERTAIN" /\ w.doubts = F \cup {"CAP"}
      BY <1>0, <1>4, <2>2, <2>3 DEF ScoreSound
    <3>2. Bounded(w, basis) /\ Bound(w, basis) = econ.lowest /\ Bound(v, basis) = econ.lowest
      BY <2>2, <2>3, <3>1 DEF Bounded, Bound
    <3> QED
      BY <1>8, <3>1, <3>2 DEF Evolved, Steady
  <2>4. CASE econ.state = "RANKABLE" /\ next = econ
    <3>1. w.doubts = F /\ Score(w, basis) = Score(v, basis) /\ Score(v, basis) \in Int
      BY <1>0, <1>4, <2>2, <2>4 DEF Score, ScoreSound
    <3>2. Bound(v, basis) = Score(v, basis) /\ Bound(w, basis) = Score(w, basis)
      BY <2>2, <2>4, <3>1 DEF Bound
    <3>3. w.state = "UNCERTAIN" => Bounded(w, basis)
      <4>1. w.state = "UNCERTAIN" => F = {"AVAILABILITY"}
        BY <1>4, <2>2, <2>4
      <4> QED
        BY <2>2, <3>1, <4>1 DEF Bounded
    <3> QED
      BY <1>8, <3>1, <3>2, <3>3 DEF Evolved, Steady
  <2>5. CASE econ.state = "UNKNOWN_CAP" /\ Dearer(in.rules[r], econ, next) /\ F = D
    <3>1. /\ basis = "COST" /\ econ.lowest \in Int /\ v.doubts = D \cup {"CAP"}
          /\ next.state = "RANKABLE" /\ w.doubts = D
      BY <1>0, <1>4, <1>8, <2>2, <2>5 DEF ScoreSound, Dearer
    <3>2. next.cost \in Int /\ next.cost >= econ.lowest
      BY <2>5, <3>1 DEF Dearer
    <3>3. /\ Bound(v, basis) = econ.lowest
          /\ Score(w, basis) = next.cost /\ Bound(w, basis) = next.cost
      BY <2>2, <3>1 DEF Bound, Score
    <3>4. w.state = "UNCERTAIN" => Bounded(w, basis)
      <4>1. w.state = "UNCERTAIN" => D = {"AVAILABILITY"}
        BY <1>4, <2>2, <2>5, <3>1
      <4> QED
        BY <2>2, <3>1, <4>1 DEF Bounded
    <3> QED
      BY <1>8, <3>1, <3>2, <3>3, <3>4 DEF Evolved, Steady
  <2>6. CASE econ.state = "RANKABLE" /\ Dearer(in.rules[r], econ, next) /\ F = D
    <3>1. w.state # "RANKABLE" /\ in.rules[r].benefit.type = "FIXED_DISCOUNT"
      BY <1>4, <2>2, <2>6 DEF Dearer
    <3> QED
      BY <1>8, <2>4, <2>6, <3>1 DEF Evolved
  <2> QED
    BY <1>0, <2>2, <2>3, <2>4, <2>5, <2>6
<1> QED
  BY <1>6, <1>7, <1>8, <1>4 DEF Evolved, Steady, States
-----------------------------------------------------------------------------
(* What a step of learning changes: an open question about a rule gets its   *)
(* answer, a source becomes fresh, a channel or a private state gets known.  *)
Context(q) == FlattenToPurchaseContext(q.signature)

RuleLearns(rule, next) ==
  /\ \A f \in RuleFields \ {"cap", "holiday", "combinability"} : next[f] = rule[f]
  /\ next.holiday = rule.holiday \/ (rule.holiday = "UNKNOWN" /\ next.holiday \in {"NONE", "EXCLUDED"})
  /\ next.combinability = rule.combinability \/ rule.combinability = "UNKNOWN"

StateLearns(op, next) ==
  /\ next.publication = op.publication
  /\ op.source = "FRESH" => next.source = "FRESH"
  /\ next.availability = op.availability \/ op.availability = "UNKNOWN"

RequestLearns(q, p) ==
  /\ p.at = q.at /\ p.holidays = q.holidays
  /\ p.portfolio.instruments = q.portfolio.instruments
  /\ p.portfolio.declarations = q.portfolio.declarations
  /\ \A f \in ContextFields \ {"channel"} : Context(p)[f] = Context(q)[f]
  /\ Context(q).channel = None \/ Context(p) = Context(q)
  /\ \A rule : PrivateState(rule, q.portfolio) = "UNKNOWN"
               \/ PrivateState(rule, p.portfolio) = PrivateState(rule, q.portfolio)

Learns(c, q, d, p) ==
  /\ d.scopes = c.scopes /\ DOMAIN d.rules = DOMAIN c.rules
  /\ RequestLearns(q, p)
  /\ \A r \in DOMAIN c.rules :
       /\ RuleLearns(c.rules[r], d.rules[r]) /\ StateLearns(c.ops[r], d.ops[r])
       /\ \/ d.rules[r].cap = c.rules[r].cap
          \/ /\ CapStated(c.rules[r], d.rules[r]) /\ p = q /\ d.ops[r] = c.ops[r]
             /\ d.rules[r].holiday = c.rules[r].holiday
             /\ d.rules[r].combinability = c.rules[r].combinability

LEMMA RuleLearnsFields ==
  ASSUME NEW rule, NEW next, RuleLearns(rule, next)
  PROVE  /\ next.benefit = rule.benefit /\ next.selector = rule.selector
         /\ next.minimum = rule.minimum /\ next.channels = rule.channels
         /\ next.include = rule.include /\ next.exclude = rule.exclude
         /\ next.products = rule.products /\ next.temporal = rule.temporal
         /\ next.weekdays = rule.weekdays /\ next.window = rule.window
         /\ next.blackout = rule.blackout /\ next.confidence = rule.confidence
         /\ next.family = rule.family /\ next.class = rule.class
         /\ next.network = rule.network /\ next.tier = rule.tier
         /\ next.membership = rule.membership /\ next.privateKey = rule.privateKey
         /\ next.scopes = rule.scopes /\ next.verifiable = rule.verifiable
BY DEF RuleLearns, RuleFields

LEMMA EligibilityLearns ==
  ASSUME NEW rule, NEW next, RuleLearns(rule, next), NEW q, NEW p, RequestLearns(q, p),
         NEW e, e = EvaluateEligibility(rule, q.portfolio),
         NEW f, f = EvaluateEligibility(next, p.portfolio)
  PROVE  f = e \/ (e = "PRIVATE" /\ f = "INELIGIBLE")
PROOF
<1>1. /\ next.family = rule.family /\ next.class = rule.class
      /\ next.network = rule.network /\ next.tier = rule.tier
      /\ next.membership = rule.membership /\ next.privateKey = rule.privateKey
  BY RuleLearnsFields
<1>2. /\ p.portfolio.instruments = q.portfolio.instruments
      /\ \A fact : Declared(p.portfolio, fact) = Declared(q.portfolio, fact)
  BY DEF RequestLearns, Declared
<1>3. /\ \A family, field, required : ResolveCard(p.portfolio, family, field, required)
                                      = ResolveCard(q.portfolio, family, field, required)
      /\ \A required : ResolveMembership(p.portfolio, required) = ResolveMembership(q.portfolio, required)
  BY <1>2 DEF ResolveCard, ResolveMembership
<1>4. RequiredFacts(next, p.portfolio) = RequiredFacts(rule, q.portfolio)
  BY <1>1, <1>3 DEF RequiredFacts
<1>5. PrivateState(next, p.portfolio) = PrivateState(rule, p.portfolio)
  BY <1>1 DEF PrivateState
<1>6. PrivateState(rule, q.portfolio) = "NO" => PrivateState(rule, p.portfolio) = "NO"
  BY DEF RequestLearns
<1> QED
  BY <1>1, <1>2, <1>4, <1>5, <1>6 DEF EvaluateEligibility

LEMMA HolidayLearns ==
  ASSUME NEW rule, NEW next, RuleLearns(rule, next), NEW t, NEW holidays,
         NEW e, e = EvaluateHoliday(rule, t, holidays),
         NEW f, f = EvaluateHoliday(next, t, holidays)
  PROVE  f = e \/ (e = "UNCERTAIN" /\ f \in {"ALLOWED", "BLOCKED"})
PROOF
<1>1. next.blackout = rule.blackout
  BY RuleLearnsFields
<1> QED
  BY <1>1 DEF RuleLearns, EvaluateHoliday

LEMMA GatesLearn ==
  ASSUME NEW rule, NEW next, RuleLearns(rule, next), NEW op, NEW nop, StateLearns(op, nop),
         NEW q, NEW p, RequestLearns(q, p),
         NEW in, in.portfolio = q.portfolio, in.at = q.at, in.holidays = q.holidays,
         NEW out, out.portfolio = p.portfolio, out.at = p.at, out.holidays = p.holidays,
         NEW D, D = DoubtsOf(rule, op, in), NEW F, F = DoubtsOf(next, nop, out)
  PROVE  /\ Excluded(rule, op, in) => Excluded(next, nop, out)
         /\ Excluded(next, nop, out) /\ ~Excluded(rule, op, in) =>
              D \cap {"AVAILABILITY", "HOLIDAY", "PRIVATE"} # {}
         /\ ~Excluded(next, nop, out) =>
              F \subseteq D /\ D \ F \subseteq {"AVAILABILITY", "COMBINABILITY", "HOLIDAY"}
PROOF
<1>1. /\ next.temporal = rule.temporal /\ next.weekdays = rule.weekdays
      /\ next.window = rule.window /\ next.confidence = rule.confidence
  BY RuleLearnsFields
<1>2. PICK e, f : /\ e = EvaluateEligibility(rule, in.portfolio)
                  /\ f = EvaluateEligibility(next, out.portfolio)
  OBVIOUS
<1>3. f = e \/ (e = "PRIVATE" /\ f = "INELIGIBLE")
  BY <1>2, EligibilityLearns
<1>4. PICK h, k : /\ h = EvaluateHoliday(rule, in.at, in.holidays)
                  /\ k = EvaluateHoliday(next, out.at, out.holidays)
  OBVIOUS
<1>5. out.at = in.at /\ out.holidays = in.holidays
  BY DEF RequestLearns
<1>6. k = h \/ (h = "UNCERTAIN" /\ k \in {"ALLOWED", "BLOCKED"})
  BY <1>4, <1>5, HolidayLearns
<1>7. PICK rest : rest <=> \/ ~WithinTemporalRange(rule.temporal, in.at)
                           \/ ~WithinWeekdays(rule.weekdays, in.at)
                           \/ ~WithinTimeWindow(rule.window, in.at)
                           \/ rule.confidence = "LOW"
  OBVIOUS
<1>8. Excluded(rule, op, in) <=> \/ rest \/ op.publication # "ACTIVE" \/ h = "BLOCKED"
                                 \/ e \in {"INELIGIBLE", "UNKNOWN"}
                                 \/ op.availability = "CONFIRMED_UNAVAILABLE"
  BY <1>2, <1>4, <1>7 DEF Excluded
<1>9. Excluded(next, nop, out) <=> \/ rest \/ nop.publication # "ACTIVE" \/ k = "BLOCKED"
                                   \/ f \in {"INELIGIBLE", "UNKNOWN"}
                                   \/ nop.availability = "CONFIRMED_UNAVAILABLE"
  BY <1>1, <1>2, <1>4, <1>5, <1>7 DEF Excluded
<1>10. D = When(h = "UNCERTAIN", "HOLIDAY") \cup When(e = "PRIVATE", "PRIVATE")
           \cup When(op.availability = "UNKNOWN", "AVAILABILITY")
           \cup When(rule.combinability = "UNKNOWN", "COMBINABILITY")
  BY <1>2, <1>4 DEF DoubtsOf
<1>11. F = When(k = "UNCERTAIN", "HOLIDAY") \cup When(f = "PRIVATE", "PRIVATE")
           \cup When(nop.availability = "UNKNOWN", "AVAILABILITY")
           \cup When(next.combinability = "UNKNOWN", "COMBINABILITY")
  BY <1>2, <1>4 DEF DoubtsOf
<1>12. /\ nop.publication = op.publication
       /\ nop.availability = op.availability \/ op.availability = "UNKNOWN"
       /\ next.combinability = rule.combinability \/ rule.combinability = "UNKNOWN"
  BY DEF StateLearns, RuleLearns
<1> QED
  BY <1>3, <1>6, <1>8, <1>9, <1>10, <1>11, <1>12 DEF When

LEMMA BillIsAmount ==
  ASSUME NEW q, RequestShape(q)
  PROVE  Context(q).bill \in Optional(Centimos)
PROOF
<1> DEFINE sig == q.signature
<1>1. /\ sig.kind \in DOMAIN SignatureFields
      /\ DOMAIN sig = {"kind", "merchant", "channel", "branch"} \cup SignatureFields[sig.kind]
  BY DEF RequestShape, NormalizeSignature
<1>2. Context(q).bill = IF "bill" \in DOMAIN sig THEN sig.bill ELSE None
  BY DEF Context, FlattenToPurchaseContext, ContextFields
<1>3. "bill" \in DOMAIN sig => sig.kind = "BILL"
  BY <1>1 DEF SignatureFields
<1>4. sig.kind = "BILL" => Safe(sig.bill)
  BY DEF RequestShape, NormalizeSignature
<1> QED
  BY <1>2, <1>3, <1>4 DEF Optional, Centimos, Safe

LEMMA EconomicsSound ==
  ASSUME NEW rule, BenefitSchema(rule.benefit), rule.cap \in Optional(CapSchema),
         NEW ctx, ctx.bill \in Optional(Centimos), NEW econ, econ = ComputeEconomics(rule, ctx),
         NEW basis, basis = ExpectedBasis(rule)
  PROVE  /\ basis \in {"COST", "NOMINAL"} /\ ScoreSound(econ, basis)
         /\ basis = "COST" => MoneySound(rule, econ)
         /\ basis = "NOMINAL" /\ econ.state = "RANKABLE" => econ.value \in 1 .. MaxSafe
PROOF
<1>1. CASE rule.benefit.type = "NON_CASH_NOMINAL"
  <2>1. basis = "NOMINAL"
    BY <1>1 DEF ExpectedBasis
  <2>2. econ.state \in {"RANKABLE", "UNKNOWN_CAP"} => econ = SettleNominal(rule.benefit)
    BY <1>1, EconomicsStates
  <2>3. /\ SettleNominal(rule.benefit).state = "RANKABLE"
        /\ SettleNominal(rule.benefit).value = rule.benefit.value
    BY DEF SettleNominal, Outcome
  <2>4. rule.benefit.value \in Centimos \ {0}
    BY <1>1 DEF BenefitSchema
  <2>5. rule.benefit.value \in 1 .. MaxSafe
    BY <2>4, MaxSafeAssumption DEF Centimos
  <2>6. rule.benefit.value \in Int
    BY <2>5, MaxSafeAssumption
  <2> QED
    BY <2>1, <2>2, <2>3, <2>5, <2>6 DEF ScoreSound
<1>2. CASE rule.benefit.type # "NON_CASH_NOMINAL"
  <2>1. basis = "COST"
    BY <1>2 DEF ExpectedBasis
  <2>2. MoneySound(rule, econ)
    BY <1>2, SettleSound
  <2>3. econ.state = "RANKABLE" => econ.cost \in Int
    BY <2>2, MaxSafeAssumption DEF MoneySound
  <2> QED
    BY <2>1, <2>2, <2>3 DEF ScoreSound, MoneySound
<1> QED
  BY <1>1, <1>2

LEMMA MatchLearns ==
  ASSUME NEW sig, sig.kind \in SignatureKinds, NEW ctx, NEW after,
         \A f \in ContextFields \ {"channel"} : after[f] = ctx[f]
  PROVE  MatchPurchaseSignature(sig, after) = MatchPurchaseSignature(sig, ctx)
PROOF
<1>1. /\ after.items = ctx.items /\ after.ticketCount = ctx.ticketCount
      /\ after.ticketClass = ctx.ticketClass /\ after.domain = ctx.domain
      /\ after.package = ctx.package /\ after.merchant = ctx.merchant
  BY DEF ContextFields
<1>2. CASE sig.kind = "EXACT_BUNDLE"
  BY <1>1, <1>2 DEF MatchPurchaseSignature, SignatureFacts, SamePurchase
<1>3. CASE sig.kind = "TICKETS"
  BY <1>1, <1>3 DEF MatchPurchaseSignature, SignatureFacts, SamePurchase
<1>4. CASE sig.kind = "ELIGIBLE_BILL"
  BY <1>1, <1>4 DEF MatchPurchaseSignature, SignatureFacts, SamePurchase
<1>5. CASE sig.kind = "NOMINAL_PACKAGE"
  BY <1>1, <1>5 DEF MatchPurchaseSignature, SignatureFacts, SamePurchase
<1> QED
  BY <1>2, <1>3, <1>4, <1>5 DEF SignatureKinds

(* The economics do not read the holiday policy or the combinability.        *)
LEMMA EconomicsLearn ==
  ASSUME NEW rule, NEW next, RuleLearns(rule, next), BenefitSchema(rule.benefit),
         NEW q, NEW p, RequestShape(q), RequestLearns(q, p),
         \/ next.cap = rule.cap
         \/ CapStated(rule, next) /\ p = q,
         NEW econ, econ = ComputeEconomics(rule, Context(q)),
         NEW after, after = ComputeEconomics(next, Context(p))
  PROVE  \/ after = econ \/ econ.state = "MISSING_CONTEXT"
         \/ CapStated(rule, next) /\ Dearer(rule, econ, after)
PROOF
<1>1. /\ next.benefit = rule.benefit /\ next.selector = rule.selector
      /\ next.minimum = rule.minimum /\ next.channels = rule.channels
      /\ next.include = rule.include /\ next.exclude = rule.exclude
      /\ next.products = rule.products
  BY RuleLearnsFields
<1>2. CASE next.cap = rule.cap
  <2>1. \A ctx : ComputeEconomics(next, ctx) = ComputeEconomics(rule, ctx)
    <3> TAKE ctx
    <3>1. ContextMismatch(next, ctx) <=> ContextMismatch(rule, ctx)
      BY <1>1 DEF ContextMismatch
    <3>2. DeriveRequiredContext(next) = DeriveRequiredContext(rule)
      BY <1>1, <1>2 DEF DeriveRequiredContext
    <3>3. MissingContextFor(next, ctx) = MissingContextFor(rule, ctx)
      BY <1>1, <3>2 DEF MissingContextFor
    <3>4. MinimumSpendMet(next, ctx) <=> MinimumSpendMet(rule, ctx)
      BY <1>1 DEF MinimumSpendMet
    <3>5. /\ SettlePercent(next, ctx) = SettlePercent(rule, ctx)
          /\ SettleFixedDiscount(next, ctx) = SettleFixedDiscount(rule, ctx)
          /\ SettleFixedPrice(next, ctx) = SettleFixedPrice(rule, ctx)
          /\ SettleTwoForOne(next, ctx) = SettleTwoForOne(rule, ctx)
      BY <1>1, <1>2 DEF SettlePercent, SettleFixedDiscount, SettleFixedPrice, SettleTwoForOne
    <3>6. Settle(next, ctx) = Settle(rule, ctx)
      BY <1>1, <3>5, Zenon DEF Settle
    <3> QED
      BY <1>1, <3>1, <3>3, <3>4, <3>6 DEF ComputeEconomics
  <2>2. PICK x, y : x = Context(q) /\ y = Context(p)
    OBVIOUS
  <2>3. y = x \/ (x.channel = None /\ \A f \in ContextFields \ {"channel"} : y[f] = x[f])
    BY <2>2 DEF RequestLearns
  <2>4. after = ComputeEconomics(rule, y) /\ econ = ComputeEconomics(rule, x)
    BY <2>1, <2>2
  <2> QED
    BY <2>3, <2>4, ChannelEconomics
<1>3. CASE CapStated(rule, next) /\ p = q
  <2>1. Context(q).bill \in Optional(Centimos)
    BY BillIsAmount
  <2> QED
    BY <1>3, <2>1, CapEconomics
<1> QED
  BY <1>2, <1>3

LEMMA CandidateLearns ==
  ASSUME NEW c, NEW q, NEW d, NEW p, Learns(c, q, d, p),
         ParseCorpus(c), LintCorpus(c), ParseCorpus(d), LintCorpus(d),
         RequestShape(q), RequestShape(p),
         NEW s \in DOMAIN c.scopes, NEW r \in MembersOf(c, s),
         NEW v, v = Assess(r, c.scopes[s], Input(c, q)),
         NEW w, w = Assess(r, d.scopes[s], Input(d, p)),
         NEW basis, basis = c.scopes[s].basis
  PROVE  /\ basis \in {"COST", "NOMINAL"} /\ v.rule = r /\ w.rule = r
         /\ v.state \in States /\ w.state \in States
         /\ Evolved(v, w, basis)
         /\ c.rules[r].benefit.type # "FIXED_DISCOUNT" \/ ~CapOpen(c.rules[r]) => Steady(v, w, basis)
PROOF
<1> PICK in, out : in = Input(c, q) /\ out = Input(d, p)
  OBVIOUS
<1> PICK rule, next, op, nop : /\ rule = c.rules[r] /\ next = d.rules[r]
                               /\ op = c.ops[r] /\ nop = d.ops[r]
  OBVIOUS
<1>1. /\ r \in DOMAIN c.rules /\ RuleLearns(rule, next) /\ StateLearns(op, nop) /\ RequestLearns(q, p)
      /\ d.scopes[s] = c.scopes[s] /\ s \in DOMAIN d.scopes
      /\ \/ next.cap = rule.cap
         \/ /\ CapStated(rule, next) /\ p = q /\ nop = op
            /\ next.holiday = rule.holiday /\ next.combinability = rule.combinability
  BY DEF Learns, MembersOf
<1>2. r \in MembersOf(d, s)
  BY <1>1, RuleLearnsFields DEF Learns, MembersOf
<1>3. /\ in.rules[r] = rule /\ in.ops[r] = op /\ in.context = Context(q)
      /\ in.portfolio = q.portfolio /\ in.at = q.at /\ in.holidays = q.holidays
      /\ RuleSchema(rule) /\ BenefitSchema(rule.benefit) /\ op.source \in SourceQualityStates
      /\ LintRuleScopePair(rule, c.scopes[s]) /\ SignatureSchema(c.scopes[s].signature)
  BY MemberFacts DEF Context
<1>4. /\ out.rules[r] = next /\ out.ops[r] = nop /\ out.context = Context(p)
      /\ out.portfolio = p.portfolio /\ out.at = p.at /\ out.holidays = p.holidays
      /\ RuleSchema(next) /\ BenefitSchema(next.benefit) /\ nop.source \in SourceQualityStates
      /\ LintRuleScopePair(next, c.scopes[s])
  BY <1>1, <1>2, MemberFacts DEF Context
<1>5. PICK D, F : D = DoubtsOf(rule, op, in) /\ F = DoubtsOf(next, nop, out)
  OBVIOUS
<1>6. PICK X, Y : (X <=> Excluded(rule, op, in)) /\ (Y <=> Excluded(next, nop, out))
  OBVIOUS
<1>7. /\ X => Y
      /\ Y /\ ~X => D \cap {"AVAILABILITY", "HOLIDAY", "PRIVATE"} # {}
      /\ ~Y => F \subseteq D /\ D \ F \subseteq {"AVAILABILITY", "COMBINABILITY", "HOLIDAY"}
  BY <1>1, <1>3, <1>4, <1>5, <1>6, GatesLearn
<1>8. PICK econ, after : /\ econ = ComputeEconomics(rule, Context(q))
                         /\ after = ComputeEconomics(next, Context(p))
  OBVIOUS
<1>9. \/ after = econ \/ econ.state = "MISSING_CONTEXT"
      \/ CapStated(rule, next) /\ Dearer(rule, econ, after)
  BY <1>1, <1>3, <1>8, EconomicsLearn
<1>10. ASSUME after # econ, econ.state # "MISSING_CONTEXT"
       PROVE  Dearer(rule, econ, after) /\ F = D
  <2>1. CapStated(rule, next) /\ Dearer(rule, econ, after) /\ CapOpen(rule)
    BY <1>9, <1>10 DEF CapStated
  <2>2. next.cap # rule.cap
    BY <2>1 DEF CapStated, CapOpen
  <2>3. /\ p = q /\ nop = op /\ next.holiday = rule.holiday
        /\ next.combinability = rule.combinability
    BY <1>1, <2>2
  <2>4. F = D
    <3>1. EvaluateEligibility(next, q.portfolio) = EvaluateEligibility(rule, q.portfolio)
      BY <1>1, RuleLearnsFields DEF EvaluateEligibility, RequiredFacts, PrivateState
    <3>2. EvaluateHoliday(next, q.at, q.holidays) = EvaluateHoliday(rule, q.at, q.holidays)
      BY <1>1, <2>3, RuleLearnsFields DEF EvaluateHoliday
    <3> QED
      BY <1>3, <1>4, <1>5, <2>3, <3>1, <3>2 DEF DoubtsOf
  <2> QED
    BY <2>1, <2>4
<1>11. after = econ \/ econ.state = "MISSING_CONTEXT" \/ (Dearer(rule, econ, after) /\ F = D)
  BY <1>10
<1>12. /\ basis = ExpectedBasis(rule) /\ basis = ExpectedBasis(next)
       /\ rule.cap \in Optional(CapSchema) /\ next.cap \in Optional(CapSchema)
       /\ Context(q).bill \in Optional(Centimos) /\ Context(p).bill \in Optional(Centimos)
  BY <1>3, <1>4, BillIsAmount DEF LintRuleScopePair, RuleSchema, ConstraintsSchema
<1>13. /\ basis \in {"COST", "NOMINAL"} /\ ScoreSound(econ, basis) /\ ScoreSound(after, basis)
  BY <1>3, <1>4, <1>8, <1>12, EconomicsSound
<1>14. MatchPurchaseSignature(c.scopes[s].signature, out.context)
         = MatchPurchaseSignature(c.scopes[s].signature, in.context)
  BY <1>1, <1>3, <1>4, MatchLearns DEF SignatureSchema, RequestLearns
<1>15. op.source = "FRESH" => nop.source = "FRESH"
  BY <1>1 DEF StateLearns
<1>16. /\ Evolved(v, w, basis)
       /\ after = econ \/ rule.benefit.type # "FIXED_DISCOUNT" \/ econ.state # "RANKABLE" =>
            Steady(v, w, basis)
  <2>1. PICK scope : scope = c.scopes[s]
    OBVIOUS
  <2>2. Learnt(r, scope, in, out, basis)
    BY <1>3, <1>4, <1>5, <1>6, <1>7, <1>8, <1>11, <1>13, <1>14, <1>15, <2>1 DEF Learnt
  <2>3. /\ econ = ComputeEconomics(in.rules[r], in.context)
        /\ after = ComputeEconomics(out.rules[r], out.context)
        /\ v = Assess(r, scope, in) /\ w = Assess(r, scope, out)
    BY <1>1, <1>3, <1>4, <1>8, <2>1
  <2>4. /\ Evolved(v, w, basis)
        /\ after = econ \/ in.rules[r].benefit.type # "FIXED_DISCOUNT" \/ econ.state # "RANKABLE" =>
             Steady(v, w, basis)
    BY ONLY <2>2, <2>3, Evolution
  <2> QED
    BY <1>3, <2>4
<1>17. v.rule = r /\ w.rule = r /\ v.state \in States /\ w.state \in States
  BY <1>1, <1>3, <1>4, CandidateCases
<1>18. rule.benefit.type = "FIXED_DISCOUNT" /\ ~CapOpen(rule) /\ econ.state = "RANKABLE" => after = econ
  BY <1>9 DEF CapStated
<1> QED
  BY <1>13, <1>16, <1>17, <1>18
-----------------------------------------------------------------------------
(* Every step that learns is one.                                            *)
LEMMA NothingLearnt ==
  /\ \A rule : RuleLearns(rule, rule)
  /\ \A op : StateLearns(op, op)
  /\ \A q : RequestLearns(q, q)
BY DEF RuleLearns, StateLearns, RequestLearns

LEMMA AnswerLearns ==
  ASSUME NEW q, RequestShape(q), NEW key, NEW a,
         key \in DOMAIN q.portfolio.privateStates => q.portfolio.privateStates[key] = "UNKNOWN",
         NEW p, p = [q EXCEPT !.portfolio.privateStates = Answered(@, key, a)]
  PROVE  RequestLearns(q, p)
PROOF
<1>1. /\ p.at = q.at /\ p.holidays = q.holidays /\ p.signature = q.signature
      /\ p.portfolio = [q.portfolio EXCEPT !.privateStates = Answered(@, key, a)]
  BY DEF RequestShape
<1>2. /\ p.portfolio.instruments = q.portfolio.instruments
      /\ p.portfolio.declarations = q.portfolio.declarations
      /\ p.portfolio.privateStates = Answered(q.portfolio.privateStates, key, a)
  BY <1>1 DEF RequestShape
<1>3. \A rule : PrivateState(rule, q.portfolio) = "UNKNOWN"
                \/ PrivateState(rule, p.portfolio) = PrivateState(rule, q.portfolio)
  <2> TAKE rule
  <2>1. CASE rule.privateKey = key
    BY <2>1 DEF PrivateState
  <2>2. CASE rule.privateKey # key
    BY <1>2, <2>2 DEF PrivateState, Answered
  <2> QED
    BY <2>1, <2>2
<1>4. Context(p) = Context(q)
  BY <1>1 DEF Context
<1> QED
  BY <1>1, <1>2, <1>3, <1>4 DEF RequestLearns

LEMMA NamingLearns ==
  ASSUME NEW q, RequestShape(q), q.signature.channel = None, NEW channel,
         NEW p, p = [q EXCEPT !.signature.channel = channel]
  PROVE  RequestLearns(q, p)
PROOF
<1> PICK sig, new : sig = q.signature /\ new = p.signature
  OBVIOUS
<1>1. /\ p.at = q.at /\ p.holidays = q.holidays /\ p.portfolio = q.portfolio
      /\ new = [sig EXCEPT !.channel = channel]
  BY DEF RequestShape
<1>2. /\ DOMAIN new = DOMAIN sig
      /\ \A f \in DOMAIN sig : f # "channel" => new[f] = sig[f]
  BY <1>1
<1>3. \A f \in ContextFields \ {"channel"} : Context(p)[f] = Context(q)[f]
  BY <1>2 DEF Context, FlattenToPurchaseContext
<1>4. Context(q).channel = None
  BY DEF Context, FlattenToPurchaseContext, ContextFields
<1> QED
  BY <1>1, <1>3, <1>4 DEF RequestLearns

(* A release that changes the operational state of one rule, or its terms.   *)
LEMMA StateReleaseLearns ==
  ASSUME NEW c, NEW d, NEW r \in DOMAIN c.rules, DOMAIN c = {"rules", "ops", "scopes"},
         NEW op, d = [c EXCEPT !.ops = [c.ops EXCEPT ![r] = op]],
         r \in DOMAIN c.ops, StateLearns(c.ops[r], op), NEW q
  PROVE  Learns(c, q, d, q)
PROOF
<1>1. d.rules = c.rules /\ d.scopes = c.scopes /\ d.ops = [c.ops EXCEPT ![r] = op]
  OBVIOUS
<1>2. \A o : d.ops[o] = c.ops[o] \/ (o = r /\ d.ops[o] = op) \/ o \notin DOMAIN c.ops
  BY <1>1
<1> QED
  BY <1>1, <1>2, NothingLearnt DEF Learns

LEMMA RuleReleaseLearns ==
  ASSUME NEW c, NEW d, NEW r \in DOMAIN c.rules, DOMAIN c = {"rules", "ops", "scopes"},
         NEW next, d = [c EXCEPT !.rules = [c.rules EXCEPT ![r] = next]],
         RuleLearns(c.rules[r], next),
         \/ next.cap = c.rules[r].cap
         \/ /\ CapStated(c.rules[r], next)
            /\ next.holiday = c.rules[r].holiday /\ next.combinability = c.rules[r].combinability,
         NEW q
  PROVE  Learns(c, q, d, q)
PROOF
<1>1. d.ops = c.ops /\ d.scopes = c.scopes /\ d.rules = [c.rules EXCEPT ![r] = next]
  OBVIOUS
<1>2. /\ DOMAIN d.rules = DOMAIN c.rules /\ d.rules[r] = next
      /\ \A o \in DOMAIN c.rules \ {r} : d.rules[o] = c.rules[o]
  BY <1>1
<1> QED
  BY <1>1, <1>2, NothingLearnt DEF Learns

(* One field of a rule is replaced.                                          *)
LEMMA FieldReplaced ==
  ASSUME NEW rule, RuleSchema(rule), NEW f \in {"cap", "holiday", "combinability"}, NEW value,
         NEW next, next = [rule EXCEPT ![f] = value]
  PROVE  /\ \A g \in RuleFields \ {f} : next[g] = rule[g]
         /\ next[f] = value
         /\ RuleLearns(rule, next) <=>
              /\ f = "holiday" => value = rule.holiday
                                  \/ (rule.holiday = "UNKNOWN" /\ value \in {"NONE", "EXCLUDED"})
              /\ f = "combinability" => value = rule.combinability \/ rule.combinability = "UNKNOWN"
PROOF
<1>1. DOMAIN rule \ {"stock"} = RuleFields
  BY DEF RuleSchema
<1>2. RuleFields \subseteq DOMAIN rule /\ f \in RuleFields
  BY <1>1 DEF RuleFields
<1>3. /\ \A g \in RuleFields \ {f} : next[g] = rule[g]
      /\ next[f] = value
  BY <1>2
<1>4. "holiday" \in RuleFields /\ "combinability" \in RuleFields /\ "cap" \in RuleFields
  BY DEF RuleFields
<1> QED
  BY <1>3, <1>4 DEF RuleLearns

LEMMA LearnedLearns ==
  ASSUME EngineInv, [Next]_vars, Learned
  PROVE  Learns(corpus, request, corpus', request')
PROOF
<1>1. /\ DOMAIN corpus = {"rules", "ops", "scopes"} /\ RequestShape(request)
      /\ corpus.ops \in [DOMAIN corpus.ops -> OperationalSchema]
  BY Zenon DEF EngineInv, ParseCorpus
<1>2. \A r \in Rules : /\ r \in DOMAIN corpus.rules /\ r \in DOMAIN corpus.ops
                       /\ RuleSchema(corpus.rules[r])
                       /\ DOMAIN corpus.ops[r] = {"publication", "source", "availability"}
  <2>1. \A p \in DOMAIN corpus.ops : DOMAIN corpus.ops[p] = {"publication", "source", "availability"}
    BY <1>1 DEF OperationalSchema
  <2> QED
    BY <2>1 DEF EngineInv, ParseCorpus, LintCorpus, LintPublished, Rules
<1>3. CASE UNCHANGED vars
  BY <1>3, NothingLearnt DEF vars, Learns
<1>4. CASE NameChannel
  <2>1. PICK c : request' = [request EXCEPT !.signature.channel = c]
    BY <1>4 DEF NameChannel, Say
  <2>2. RequestLearns(request, request')
    BY <1>1, <1>4, <2>1, NamingLearns DEF NameChannel
  <2>3. corpus' = corpus
    BY <1>4 DEF NameChannel, Say
  <2> QED
    BY <2>2, <2>3, NothingLearnt DEF Learns
<1>5. ASSUME NEW r \in Rules, AnswerPrivate(r)
      PROVE  Learns(corpus, request, corpus', request')
  <2>1. PICK key, a :
          /\ key \in DOMAIN request.portfolio.privateStates =>
               request.portfolio.privateStates[key] = "UNKNOWN"
          /\ request' = [request EXCEPT !.portfolio.privateStates = Answered(@, key, a)]
          /\ corpus' = corpus
    BY <1>5 DEF AnswerPrivate, Say, PrivateState
  <2>2. RequestLearns(request, request')
    BY <1>1, <2>1, AnswerLearns
  <2> QED
    BY <2>1, <2>2, NothingLearnt DEF Learns
<1>6. ASSUME NEW r \in Rules, DeclareFact(r) PROVE FALSE
  <2>1. PICK fact : fact = <<"membership", corpus.rules[r].membership>>
    OBVIOUS
  <2>2. /\ Declared(request.portfolio, fact) = "UNKNOWN"
        /\ \E a \in {"YES", "NO"} :
             Say([request EXCEPT !.portfolio.declarations = Answered(@, fact, a)])
    BY <1>6, <2>1 DEF DeclareFact
  <2>3. PICK a \in {"YES", "NO"} :
          Say([request EXCEPT !.portfolio.declarations = Answered(@, fact, a)])
    BY <2>2
  <2>4. request'.portfolio.declarations = Answered(request.portfolio.declarations, fact, a)
    BY <1>1, <2>3 DEF RequestShape, Say
  <2>5. Declared(request'.portfolio, fact) = a
    BY <2>4 DEF Declared, Answered
  <2> QED
    BY <2>2, <2>5 DEF Learned, Declared
<1>7. ASSUME NEW r \in Rules, ConfirmAvailability(r) \/ RecheckSource(r) \/ LoseSource(r)
      PROVE  Learns(corpus, request, corpus', request')
  <2>1. PICK op : /\ corpus' = [corpus EXCEPT !.ops = [corpus.ops EXCEPT ![r] = op]]
                  /\ StateLearns(corpus.ops[r], op) /\ request' = request
    <3>1. CASE ConfirmAvailability(r)
      <4>1. PICK a : /\ corpus' = [corpus EXCEPT !.ops[r].availability = a] /\ request' = request
                     /\ corpus.ops[r].availability = "UNKNOWN"
        BY <3>1 DEF ConfirmAvailability, Release
      <4>2. PICK op : op = [corpus.ops[r] EXCEPT !.availability = a]
        OBVIOUS
      <4>3. corpus' = [corpus EXCEPT !.ops = [corpus.ops EXCEPT ![r] = op]]
        BY <4>1, <4>2
      <4>4. StateLearns(corpus.ops[r], op)
        BY <1>2, <4>1, <4>2 DEF StateLearns
      <4> QED
        BY <4>1, <4>3, <4>4
    <3>2. CASE RecheckSource(r)
      <4>1. corpus' = [corpus EXCEPT !.ops[r].source = "FRESH"] /\ request' = request
        BY <3>2 DEF RecheckSource, Release
      <4>2. PICK op : op = [corpus.ops[r] EXCEPT !.source = "FRESH"]
        OBVIOUS
      <4>3. corpus' = [corpus EXCEPT !.ops = [corpus.ops EXCEPT ![r] = op]]
        BY <4>1, <4>2
      <4>4. StateLearns(corpus.ops[r], op)
        BY <1>2, <4>2 DEF StateLearns
      <4> QED
        BY <4>1, <4>3, <4>4
    <3>3. CASE LoseSource(r)
      <4>1. PICK s : /\ corpus' = [corpus EXCEPT !.ops[r].source = s] /\ request' = request
                     /\ corpus.ops[r].source = "FRESH"
        BY <3>3 DEF LoseSource, Release
      <4>2. PICK op : op = [corpus.ops[r] EXCEPT !.source = s]
        OBVIOUS
      <4>3. corpus' = [corpus EXCEPT !.ops = [corpus.ops EXCEPT ![r] = op]]
        BY <4>1, <4>2
      <4>4. corpus'.ops[r] = op
        BY <1>1, <1>2, <4>3
      <4>5. op.source = "FRESH"
        BY <4>1, <4>4 DEF Learned, Lost
      <4>6. StateLearns(corpus.ops[r], op)
        BY <1>2, <4>2, <4>5 DEF StateLearns
      <4> QED
        BY <4>1, <4>3, <4>6
    <3> QED
      BY <1>7, <3>1, <3>2, <3>3
  <2> QED
    BY <1>1, <1>2, <2>1, StateReleaseLearns
<1>8. ASSUME NEW r \in Rules, StateCap(r) \/ StateCombinability(r) \/ StateHolidayPolicy(r)
      PROVE  Learns(corpus, request, corpus', request')
  <2>1. PICK rule : rule = corpus.rules[r] /\ RuleSchema(rule)
    BY <1>2
  <2>2. PICK next : /\ corpus' = [corpus EXCEPT !.rules = [corpus.rules EXCEPT ![r] = next]]
                    /\ RuleLearns(rule, next) /\ request' = request
                    /\ \/ next.cap = rule.cap
                       \/ /\ CapStated(rule, next)
                          /\ next.holiday = rule.holiday /\ next.combinability = rule.combinability
    <3>1. CASE StateCap(r)
      <4>0. PICK c \in Caps : Release([corpus EXCEPT !.rules[r].cap = [kind |-> "AMOUNT", centimos |-> c]])
        BY <3>1 DEF StateCap
      <4>1. PICK cap : /\ corpus' = [corpus EXCEPT !.rules[r].cap = cap] /\ request' = request
                       /\ CapOpen(rule) /\ cap = [kind |-> "AMOUNT", centimos |-> c]
        BY <2>1, <3>1, <4>0 DEF StateCap, Release
      <4>2. PICK next : next = [rule EXCEPT !["cap"] = cap]
        OBVIOUS
      <4>3. corpus' = [corpus EXCEPT !.rules = [corpus.rules EXCEPT ![r] = next]]
        BY <2>1, <4>1, <4>2
      <4>4. /\ \A g \in RuleFields \ {"cap"} : next[g] = rule[g]
            /\ next.cap = cap /\ RuleLearns(rule, next)
        BY <2>1, <4>2, FieldReplaced
      <4>5. cap \in CapSchema /\ c \in Int
        BY <4>1, CapsAssumption, MaxSafeAssumption DEF CapSchema, Centimos
      <4>6. CapStated(rule, next)
        BY <4>1, <4>4, <4>5, CapAssumption DEF CapStated, RuleFields
      <4>7. next.holiday = rule.holiday /\ next.combinability = rule.combinability
        BY <4>4 DEF RuleFields
      <4> QED
        BY <4>1, <4>3, <4>4, <4>6, <4>7
    <3>2. CASE StateCombinability(r)
      <4>1. PICK value : /\ corpus' = [corpus EXCEPT !.rules[r].combinability = value]
                         /\ request' = request /\ rule.combinability = "UNKNOWN"
        BY <2>1, <3>2 DEF StateCombinability, Release
      <4>2. PICK next : next = [rule EXCEPT !["combinability"] = value]
        OBVIOUS
      <4>3. corpus' = [corpus EXCEPT !.rules = [corpus.rules EXCEPT ![r] = next]]
        BY <2>1, <4>1, <4>2
      <4>4. /\ \A g \in RuleFields \ {"combinability"} : next[g] = rule[g]
            /\ RuleLearns(rule, next)
        BY <2>1, <4>1, <4>2, FieldReplaced
      <4> QED
        BY <4>1, <4>3, <4>4 DEF RuleFields
    <3>3. CASE StateHolidayPolicy(r)
      <4>1. PICK value \in {"NONE", "EXCLUDED"} :
                         /\ corpus' = [corpus EXCEPT !.rules[r].holiday = value]
                         /\ request' = request /\ rule.holiday = "UNKNOWN"
        BY <2>1, <3>3 DEF StateHolidayPolicy, Release
      <4>2. PICK next : next = [rule EXCEPT !["holiday"] = value]
        OBVIOUS
      <4>3. corpus' = [corpus EXCEPT !.rules = [corpus.rules EXCEPT ![r] = next]]
        BY <2>1, <4>1, <4>2
      <4>4. /\ \A g \in RuleFields \ {"holiday"} : next[g] = rule[g]
            /\ RuleLearns(rule, next)
        BY <2>1, <4>1, <4>2, FieldReplaced
      <4> QED
        BY <4>1, <4>3, <4>4 DEF RuleFields
    <3> QED
      BY <1>8, <3>1, <3>2, <3>3
  <2> QED
    BY <1>1, <1>2, <2>1, <2>2, RuleReleaseLearns
<1> QED
  BY <1>3, <1>4, <1>5, <1>6, <1>7, <1>8 DEF Next

(* Learning leaves the scopes that are asked and their members alone.        *)
LEMMA AskedAlike ==
  ASSUME NEW c, NEW q, NEW d, NEW p, Learns(c, q, d, p), ParseCorpus(c)
  PROVE  /\ \A s : MembersOf(d, s) = MembersOf(c, s)
         /\ Peopled(d, Relevant(d, p)) = Peopled(c, Relevant(c, q))
PROOF
<1>1. \A s : MembersOf(d, s) = MembersOf(c, s)
  <2>1. \A r \in DOMAIN c.rules : d.rules[r].scopes = c.rules[r].scopes
    BY RuleLearnsFields DEF Learns
  <2> QED
    BY <2>1 DEF Learns, MembersOf
<1>2. PICK x, y : x = Context(q) /\ y = Context(p)
  OBVIOUS
<1>3. \A f \in ContextFields \ {"channel"} : y[f] = x[f]
  BY <1>2 DEF Learns, RequestLearns
<1>4. y.merchant = x.merchant /\ y.items = x.items /\ y.ticketCount = x.ticketCount
      /\ y.ticketClass = x.ticketClass /\ y.domain = x.domain /\ y.package = x.package
  BY <1>3 DEF ContextFields
<1>5. ASSUME NEW sig, sig.kind \in SignatureKinds
      PROVE  SignatureRelevant(sig, y) <=> SignatureRelevant(sig, x)
  <2>1. CASE sig.kind = "EXACT_BUNDLE"
    BY <1>4, <2>1 DEF SignatureRelevant, SignatureFacts, SamePurchase
  <2>2. CASE sig.kind = "TICKETS"
    BY <1>4, <2>2 DEF SignatureRelevant, SignatureFacts, SamePurchase
  <2>3. CASE sig.kind = "ELIGIBLE_BILL"
    BY <1>4, <2>3 DEF SignatureRelevant, SignatureFacts, SamePurchase
  <2>4. CASE sig.kind = "NOMINAL_PACKAGE"
    BY <1>4, <2>4 DEF SignatureRelevant, SignatureFacts, SamePurchase
  <2> QED
    BY <1>5, <2>1, <2>2, <2>3, <2>4 DEF SignatureKinds
<1>6. d.scopes = c.scopes /\ \A s \in DOMAIN c.scopes : c.scopes[s].signature.kind \in SignatureKinds
  BY DEF Learns, ParseCorpus, ScopeSchema, SignatureSchema
<1>7. Relevant(d, p) = Relevant(c, q)
  <2>1. \A s \in DOMAIN c.scopes : SignatureRelevant(c.scopes[s].signature, y)
                                   <=> SignatureRelevant(c.scopes[s].signature, x)
    BY <1>5, <1>6
  <2>2. /\ Relevant(c, q) = {s \in DOMAIN c.scopes : c.scopes[s].merchant = x.merchant
                                                     /\ SignatureRelevant(c.scopes[s].signature, x)}
        /\ Relevant(d, p) = {s \in DOMAIN c.scopes : c.scopes[s].merchant = y.merchant
                                                     /\ SignatureRelevant(c.scopes[s].signature, y)}
    BY <1>2, <1>6 DEF Relevant, OfMerchant, Context
  <2> QED
    BY <1>4, <2>1, <2>2
<1> QED
  BY <1>1, <1>7 DEF Peopled

(* A ranked candidate has a score, and its cost is not in doubt unless a     *)
(* percentage is rounded nobody knows how.                                   *)
LEMMA RankedSound ==
  ASSUME NEW c, NEW q, ParseCorpus(c), LintCorpus(c), RequestShape(q),
         NEW s \in DOMAIN c.scopes, NEW r \in MembersOf(c, s),
         NEW w, w = Assess(r, c.scopes[s], Input(c, q)), w.state = "RANKABLE",
         NEW basis, basis = c.scopes[s].basis
  PROVE  /\ Score(w, basis) \in Int /\ Score(w, basis) >= -MaxSafe
         /\ basis = "COST" /\ w.econ.lowest # w.econ.cost =>
              c.rules[r].benefit.type = "PERCENT" /\ c.rules[r].benefit.rounding = "UNKNOWN"
PROOF
<1> PICK in, rule : in = Input(c, q) /\ rule = c.rules[r]
  OBVIOUS
<1>1. /\ in.rules[r] = rule /\ in.ops[r] = c.ops[r] /\ in.context = Context(q)
      /\ RuleSchema(rule) /\ BenefitSchema(rule.benefit) /\ c.ops[r].source \in SourceQualityStates
      /\ LintRuleScopePair(rule, c.scopes[s])
  BY MemberFacts DEF Context
<1>2. PICK econ : econ = ComputeEconomics(rule, Context(q))
  OBVIOUS
<1>3. w.econ = econ /\ econ.state = "RANKABLE"
  BY <1>1, <1>2, CandidateCases
<1>4. /\ basis = ExpectedBasis(rule) /\ rule.cap \in Optional(CapSchema)
      /\ Context(q).bill \in Optional(Centimos)
  BY <1>1, BillIsAmount DEF LintRuleScopePair, RuleSchema, ConstraintsSchema
<1>5. /\ basis \in {"COST", "NOMINAL"}
      /\ basis = "COST" => MoneySound(rule, econ)
      /\ basis = "NOMINAL" => econ.value \in 1 .. MaxSafe
  BY <1>1, <1>2, <1>3, <1>4, EconomicsSound
<1>6. CASE basis = "COST"
  <2>1. /\ econ.cost \in 0 .. MaxSafe
        /\ econ.lowest # econ.cost =>
             rule.benefit.type = "PERCENT" /\ rule.benefit.rounding = "UNKNOWN"
    BY <1>3, <1>5, <1>6 DEF MoneySound
  <2>2. Score(w, basis) = econ.cost
    BY <1>3, <1>6 DEF Score
  <2> QED
    BY <1>3, <1>6, <2>1, <2>2, MaxSafeAssumption
<1>7. CASE basis = "NOMINAL"
  <2>1. PICK value : value = econ.value
    OBVIOUS
  <2>2. value \in 1 .. MaxSafe
    BY <1>5, <1>7, <2>1
  <2>3. Score(w, basis) = -value
    BY <1>3, <1>7, <2>1 DEF Score
  <2> QED
    BY <1>7, <2>2, <2>3, MaxSafeAssumption
<1> QED
  BY <1>5, <1>6, <1>7

LEMMA MinExists ==
  ASSUME NEW S, S # {}, NEW low \in Int, \A x \in S : x \in Int /\ x >= low
  PROVE  Min(S) \in S /\ \A x \in S : Min(S) <= x
PROOF
<1> DEFINE T == {x - low : x \in S}
<1>1. T \subseteq Nat /\ T # {}
  OBVIOUS
<1>2. \E m \in T : \A y \in T : ~(<<y, m>> \in OpToRel(<, Nat))
  <2> HIDE DEF T
  <2> QED BY <1>1, NatLessThanWellFounded, WFMin
<1>3. PICK m \in T : \A y \in T : ~(<<y, m>> \in OpToRel(<, Nat))
  BY <1>2
<1>4. \A y \in T : ~(y < m)
  <2> SUFFICES ASSUME NEW y \in T, y < m PROVE FALSE
    OBVIOUS
  <2>1. <<y, m>> \in OpToRel(<, Nat)
    <3>1. y \in Nat /\ m \in Nat /\ y < m
      BY <1>1
    <3> HIDE DEF T
    <3> QED BY <3>1, Zenon DEF OpToRel
  <2> QED
    BY <1>3, <2>1
<1>5. PICK k \in S : m = k - low
  OBVIOUS
<1>6. ASSUME NEW y \in S PROVE k <= y
  <2>1. y \in Int /\ k \in Int /\ ~(y - low < k - low)
    BY <1>4, <1>5
  <2> QED
    BY <2>1
<1> QED
  BY <1>5, <1>6 DEF Min
-----------------------------------------------------------------------------
(* What is shown before and after a step of learning.                        *)
LEMMA LearningStep ==
  ASSUME EngineInv, [Next]_vars, Learned
  PROVE  /\ ParseCorpus(corpus) /\ LintCorpus(corpus) /\ RequestShape(request)
         /\ ParseCorpus(corpus') /\ LintCorpus(corpus') /\ RequestShape(request')
         /\ evaluation = Evaluation(corpus, request)
         /\ evaluation' = Evaluation(corpus', request')
         /\ Learns(corpus, request, corpus', request')
PROOF
<1>1. EngineInv' /\ Learns(corpus, request, corpus', request')
  BY StepKeepsInvariant, LearnedLearns
<1> QED
  BY <1>1 DEF EngineInv

LEMMA BoundsStep ==
  ASSUME NEW c, NEW q, NEW d, NEW p, Learns(c, q, d, p),
         ParseCorpus(c), LintCorpus(c), ParseCorpus(d), LintCorpus(d),
         RequestShape(q), RequestShape(p),
         NEW before \in Evaluation(c, q).results, NEW after \in Evaluation(d, p).results,
         before.scope = after.scope,
         NEW v \in before.candidates, NEW w \in after.candidates, v.rule = w.rule,
         NEW basis, basis = c.scopes[before.scope].basis
  PROVE  Evolved(v, w, basis)
PROOF
<1>1. PICK asked : asked = Peopled(c, Relevant(c, q))
  OBVIOUS
<1>2. asked = Peopled(d, Relevant(d, p)) /\ asked \subseteq DOMAIN c.scopes
      /\ \A s : MembersOf(d, s) = MembersOf(c, s)
  BY <1>1, AskedAlike DEF Peopled, Relevant, OfMerchant
<1>3. PICK s \in asked : before = DecisionAt(c, q, s)
  BY <1>1, Shown
<1>4. PICK t \in asked : after = DecisionAt(d, p, t)
  BY <1>2, Shown
<1>5. /\ before.scope = s /\ before.candidates = Candidates(c, q, s)
      /\ after.scope = t /\ after.candidates = Candidates(d, p, t)
  BY <1>3, <1>4, Resolution DEF DecisionAt
<1>6. PICK r \in MembersOf(c, s) : v = Assess(r, c.scopes[s], Input(c, q))
  BY <1>5 DEF Candidates
<1>7. PICK o \in MembersOf(c, s) : w = Assess(o, d.scopes[s], Input(d, p))
  BY <1>2, <1>5 DEF Candidates
<1>8. v.rule = r /\ w.rule = o
  <2>1. s \in DOMAIN c.scopes
    BY <1>2
  <2>2. v.rule = r
    <3>1. PICK x : x = Assess(r, d.scopes[s], Input(d, p))
      OBVIOUS
    <3> QED
      BY <1>6, <2>1, <3>1, CandidateLearns
  <2>3. w.rule = o
    <3>1. PICK x : x = Assess(o, c.scopes[s], Input(c, q))
      OBVIOUS
    <3> QED
      BY <1>7, <2>1, <3>1, CandidateLearns
  <2> QED
    BY <2>2, <2>3
<1> QED
  BY <1>2, <1>5, <1>6, <1>7, <1>8, CandidateLearns

(* A bound that decide() derives for an uncertain candidate is one: when     *)
(* learning makes the candidate rankable, it scores no better.               *)
THEOREM BoundsAreSound == Spec => BoundsHold
PROOF
<1>1. ASSUME EngineInv, [Next]_vars
      PROVE  [Learned =>
                \A d \in evaluation.results, e \in evaluation'.results : d.scope = e.scope =>
                  \A before \in d.candidates, after \in e.candidates :
                    LET basis == corpus.scopes[d.scope].basis
                    IN /\ before.rule = after.rule
                       /\ before.state = "UNCERTAIN" /\ Bounded(before, basis) /\ after.state = "RANKABLE"
                       => Score(after, basis) >= Bound(before, basis)]_vars
  <2> SUFFICES ASSUME Learned, NEW d \in evaluation.results, NEW e \in evaluation'.results,
                      d.scope = e.scope, NEW v \in d.candidates, NEW w \in e.candidates,
                      v.rule = w.rule, NEW basis, basis = corpus.scopes[d.scope].basis,
                      v.state = "UNCERTAIN", Bounded(v, basis), w.state = "RANKABLE"
               PROVE  Score(w, basis) >= Bound(v, basis)
    OBVIOUS
  <2>1. Evolved(v, w, basis)
    <3>1. PICK a, b, x, y : a = corpus /\ b = request /\ x = corpus' /\ y = request'
      OBVIOUS
    <3>2. /\ ParseCorpus(a) /\ LintCorpus(a) /\ RequestShape(b)
          /\ ParseCorpus(x) /\ LintCorpus(x) /\ RequestShape(y)
          /\ d \in Evaluation(a, b).results /\ e \in Evaluation(x, y).results
          /\ Learns(a, b, x, y) /\ basis = a.scopes[d.scope].basis
      BY <1>1, <3>1, LearningStep
    <3> QED
      BY <3>2, BoundsStep
  <2> QED
    BY <2>1 DEF Evolved
<1> QED
  BY <1>1, EngineInvariant, PTL DEF Spec, BoundsHold
-----------------------------------------------------------------------------
(* The candidates of a scope: they have scores and can be compared. V and W, *)
(* what learning makes of them, when the prices of the open ones are weighed.*)
Sound(V, basis) ==
  /\ \A v \in V : v.state \in {"RANKABLE", "UNCERTAIN", "REJECTED"}
  /\ \A v \in V : v.state = "RANKABLE" =>
       Score(v, basis) \in Int /\ Score(v, basis) >= -MaxSafe
  /\ {v \in V : v.state = "RANKABLE"} # {} =>
       Comparable(basis, {v \in V : v.state = "RANKABLE"})

Paired(V, W, basis) ==
  /\ Sound(V, basis) /\ Sound(W, basis)
  /\ \A v \in V : \E w \in W : w.rule = v.rule /\ Steady(v, w, basis)
  /\ \A w \in W : \E v \in V : w.rule = v.rule /\ Steady(v, w, basis)
  /\ \A w \in W : basis = "COST" /\ w.state = "RANKABLE" => w.econ.lowest = w.econ.cost

(* The best score of a sound set is reached, and is a least one.             *)
LEMMA BestOf ==
  ASSUME NEW V, NEW basis, Sound(V, basis), NEW st, st = Standing(V, basis)
  PROVE  /\ \A v : v \in st.rankable <=> v \in V /\ v.state = "RANKABLE"
         /\ st.rankable # {} =>
              /\ st.best \in Int /\ st.best # None
              /\ \E v \in V : v.state = "RANKABLE" /\ Score(v, basis) = st.best
              /\ \A v \in V : v.state = "RANKABLE" => st.best <= Score(v, basis)
         /\ \A v : v \in st.top <=> v \in V /\ v.state = "RANKABLE" /\ Score(v, basis) = st.best
PROOF
<1>1. PICK settled, uncertain : /\ settled = {v \in V : v.state = "RANKABLE"}
                                /\ uncertain = {v \in V : v.state = "UNCERTAIN"}
  OBVIOUS
<1>2. st = StandingOf(settled, uncertain, basis)
  BY <1>1 DEF Standing
<1>3. settled # {} => Comparable(basis, settled)
  BY <1>1 DEF Sound
<1>4. /\ st.rankable = settled
      /\ st.best = IF settled = {} THEN None ELSE Min({Score(w, basis) : w \in settled})
      /\ st.top = {w \in settled : Score(w, basis) = st.best}
  <2>1. st.rankable = IF Comparable(basis, settled) THEN settled ELSE {}
    BY <1>2 DEF StandingOf
  <2>2. st.rankable = settled
    BY <1>3, <2>1
  <2>3. PICK best : best = IF settled = {} THEN None ELSE Min({Score(w, basis) : w \in settled})
    OBVIOUS
  <2>4. PICK top : top = {w \in settled : Score(w, basis) = best}
    OBVIOUS
  <2>5. st.best = best
    <3>1. {Score(w, basis) : w \in IF Comparable(basis, settled) THEN settled ELSE {}}
            = {Score(w, basis) : w \in settled}
      BY <1>3
    <3>2. CASE settled = {}
      BY <1>2, <2>3, <3>2 DEF StandingOf
    <3>3. CASE settled # {}
      <4>1. Comparable(basis, settled)
        BY <1>3, <3>3
      <4> QED
        BY <1>2, <2>3, <3>1, <3>3, <4>1 DEF StandingOf
    <3> QED
      BY <3>2, <3>3
  <2>6. st.top = top
    BY <1>2, <1>3, <2>3, <2>4 DEF StandingOf
  <2> QED
    BY <2>2, <2>3, <2>4, <2>5, <2>6
<1>5. ASSUME settled # {}
      PROVE  /\ st.best \in {Score(w, basis) : w \in settled}
             /\ \A x \in {Score(w, basis) : w \in settled} : st.best <= x
  <2>1. PICK S : S = {Score(w, basis) : w \in settled}
    OBVIOUS
  <2>2. S # {} /\ \A x \in S : x \in Int /\ x >= -MaxSafe
    BY <1>1, <1>5, <2>1 DEF Sound
  <2>3. -MaxSafe \in Int
    BY MaxSafeAssumption
  <2>4. Min(S) \in S /\ \A x \in S : Min(S) <= x
    BY <2>2, <2>3, MinExists
  <2> QED
    BY <1>4, <1>5, <2>1, <2>4
<1>6. st.rankable # {} => st.best \in Int /\ st.best # None
  BY <1>1, <1>4, <1>5, NoneAssumption DEF Sound
<1> QED
  BY <1>1, <1>4, <1>5, <1>6

(* The standing of what could still change the top.                          *)
LEMMA MaterialOf ==
  ASSUME NEW V, NEW basis, NEW st, st = Standing(V, basis)
  PROVE  /\ \A v \in V : v.state = "UNCERTAIN" /\ CouldChangeTop(v, basis, st.best) =>
                           v \in st.material
         /\ \A v \in st.better \cup st.equal :
              \/ v \in V /\ v.state = "UNCERTAIN" /\ CouldChangeTop(v, basis, st.best)
              \/ basis = "COST" /\ v \in st.rankable /\ v.econ.lowest # v.econ.cost
PROOF
<1>1. PICK settled, uncertain : /\ settled = {v \in V : v.state = "RANKABLE"}
                                /\ uncertain = {v \in V : v.state = "UNCERTAIN"}
  OBVIOUS
<1>2. st = StandingOf(settled, uncertain, basis)
  BY <1>1 DEF Standing
<1> QED
  BY <1>1, <1>2 DEF StandingOf

(* A rule that learning puts at the top was at the top, or could change it.  *)
LEMMA TopLearns ==
  ASSUME NEW V, NEW W, NEW basis, Paired(V, W, basis),
         NEW st, st = Standing(V, basis), NEW su, su = Standing(W, basis), st.rankable # {},
         NEW w \in su.top
  PROVE  \E v \in V : /\ w.rule = v.rule
                      /\ v \in st.top \/ (v \in st.material /\ v \notin st.top)
PROOF
<1>1. /\ Sound(V, basis) /\ Sound(W, basis)
      /\ \A v \in V : \E x \in W : x.rule = v.rule /\ Steady(v, x, basis)
      /\ \A x \in W : \E v \in V : x.rule = v.rule /\ Steady(v, x, basis)
  BY DEF Paired
<1>2. /\ w \in W /\ w.state = "RANKABLE" /\ Score(w, basis) = su.best
      /\ \A x \in W : x.state = "RANKABLE" => su.best <= Score(x, basis)
      /\ su.best \in Int
  BY <1>1, BestOf
<1>3. PICK v \in V : w.rule = v.rule /\ Steady(v, w, basis)
  BY <1>1, <1>2
<1>4. PICK t \in V : t.state = "RANKABLE" /\ Score(t, basis) = st.best
  BY <1>1, BestOf
<1>5. PICK u \in W : Steady(t, u, basis)
  BY <1>1
<1>6. u.state = "RANKABLE" /\ Score(u, basis) = st.best
  BY <1>4, <1>5 DEF Steady, Score
<1>7. su.best <= st.best /\ st.best \in Int /\ st.best # None
  BY <1>1, <1>2, <1>6, BestOf
<1>8. CASE v.state = "RANKABLE"
  <2>1. Score(v, basis) = su.best
    BY <1>2, <1>3, <1>8 DEF Steady, Score
  <2>2. st.best <= Score(v, basis)
    BY <1>1, <1>8, BestOf
  <2>3. Score(v, basis) = st.best
    BY <1>2, <1>7, <2>1, <2>2
  <2>4. v \in st.top
    BY <1>1, <1>8, <2>3, BestOf
  <2> QED
    BY <1>3, <2>4
<1>9. CASE v.state = "UNCERTAIN"
  <2>1. CouldChangeTop(v, basis, st.best)
    <3> SUFFICES ASSUME Bounded(v, basis), ~(Bound(v, basis) <= st.best) PROVE FALSE
      BY DEF CouldChangeTop
    <3>1. /\ Score(w, basis) \in Int /\ Bound(v, basis) \in Int
          /\ Score(w, basis) >= Bound(v, basis)
      BY <1>2, <1>3, <1>9 DEF Steady, Evolved
    <3> QED
      BY <1>2, <1>7, <3>1
  <2>2. v \in st.material
    BY <1>9, <2>1, MaterialOf
  <2>3. v \notin st.top
    BY <1>1, <1>9, BestOf
  <2> QED
    BY <1>3, <2>2, <2>3
<1>10. v.state # "REJECTED"
  BY <1>2, <1>3 DEF Steady, Evolved
<1> QED
  BY <1>1, <1>8, <1>9, <1>10 DEF Sound

(* Where nothing could change the top, it stays, and nothing could later.    *)
LEMMA SettledTopStays ==
  ASSUME NEW V, NEW W, NEW basis, Paired(V, W, basis),
         NEW st, st = Standing(V, basis), NEW su, su = Standing(W, basis), st.rankable # {},
         Possible(st) = {}
  PROVE  RulesOf(su.top) = RulesOf(st.top) /\ StatusOf(su) \in Confirmed
PROOF
<1>1. /\ Sound(V, basis) /\ Sound(W, basis)
      /\ \A v \in V : \E w \in W : w.rule = v.rule /\ Steady(v, w, basis)
      /\ \A w \in W : \E v \in V : w.rule = v.rule /\ Steady(v, w, basis)
  BY DEF Paired
<1>2. st.material \subseteq st.top
  BY DEF Possible, RulesOf
<1>3. /\ st.best \in Int /\ st.best # None
      /\ \A v \in V : v.state = "RANKABLE" => st.best <= Score(v, basis)
      /\ \A v : v \in st.top <=> v \in V /\ v.state = "RANKABLE" /\ Score(v, basis) = st.best
  BY <1>1, BestOf
<1>4. \A v \in V : v.state = "UNCERTAIN" => Bounded(v, basis) /\ ~(Bound(v, basis) <= st.best)
  BY <1>2, <1>3, MaterialOf DEF CouldChangeTop
<1>5. PICK t \in V : t.state = "RANKABLE" /\ Score(t, basis) = st.best
  BY <1>1, BestOf
<1>6. PICK u \in W : Steady(t, u, basis)
  BY <1>1
<1>7. u.state = "RANKABLE" /\ Score(u, basis) = st.best
  BY <1>5, <1>6 DEF Steady, Score
<1>8. su.rankable # {}
  BY <1>1, <1>7, BestOf
<1>9. /\ su.best \in Int /\ su.best # None
      /\ \E w \in W : w.state = "RANKABLE" /\ Score(w, basis) = su.best
      /\ \A w \in W : w.state = "RANKABLE" => su.best <= Score(w, basis)
      /\ \A w : w \in su.top <=> w \in W /\ w.state = "RANKABLE" /\ Score(w, basis) = su.best
  BY <1>1, <1>8, BestOf
<1>10. ASSUME NEW w \in W, w.state = "RANKABLE"
       PROVE  \E v \in V : /\ w.rule = v.rule /\ st.best <= Score(w, basis)
                           /\ Score(w, basis) = st.best => v \in st.top
  <2>1. PICK v \in V : w.rule = v.rule /\ Steady(v, w, basis)
    BY <1>1
  <2>2. CASE v.state = "RANKABLE"
    <3>1. Score(w, basis) = Score(v, basis)
      BY <2>1, <2>2 DEF Steady, Score
    <3> QED
      BY <1>3, <2>1, <2>2, <3>1
  <2>3. CASE v.state = "UNCERTAIN"
    <3>1. /\ Score(w, basis) \in Int /\ Bound(v, basis) \in Int
          /\ Score(w, basis) >= Bound(v, basis) /\ ~(Bound(v, basis) <= st.best)
      BY <1>4, <1>10, <2>1, <2>3 DEF Steady, Evolved
    <3> QED
      BY <1>3, <2>1, <3>1
  <2>4. v.state # "REJECTED"
    BY <1>10, <2>1 DEF Steady, Evolved
  <2> QED
    BY <1>1, <2>2, <2>3, <2>4 DEF Sound
<1>11. su.best = st.best
  BY <1>3, <1>7, <1>9, <1>10
<1>12. RulesOf(su.top) = RulesOf(st.top)
  <2>1. ASSUME NEW w \in su.top PROVE \E v \in st.top : v.rule = w.rule
    BY <1>9, <1>10, <1>11
  <2>2. ASSUME NEW v \in st.top PROVE \E w \in su.top : w.rule = v.rule
    <3>1. PICK w \in W : w.rule = v.rule /\ Steady(v, w, basis)
      BY <1>1, <1>3
    <3>2. w.state = "RANKABLE" /\ Score(w, basis) = su.best
      BY <1>3, <1>11, <3>1 DEF Steady, Score
    <3> QED
      BY <1>9, <3>1, <3>2
  <2> QED
    BY <2>1, <2>2 DEF RulesOf
<1>13. ASSUME NEW w \in W, w.state = "UNCERTAIN" PROVE ~CouldChangeTop(w, basis, su.best)
  <2>1. PICK v \in V : Steady(v, w, basis)
    BY <1>1
  <2>2. v.state = "UNCERTAIN"
    BY <1>1, <1>13, <2>1 DEF Sound, Steady, Evolved
  <2>3. Bounded(v, basis) /\ ~(Bound(v, basis) <= st.best)
    BY <1>4, <2>2
  <2>4. /\ Bounded(w, basis) /\ Bound(w, basis) \in Int /\ Bound(v, basis) \in Int
        /\ Bound(w, basis) >= Bound(v, basis)
    BY <1>13, <2>1, <2>2, <2>3 DEF Steady
  <2> QED
    BY <1>3, <1>9, <1>11, <2>3, <2>4 DEF CouldChangeTop
<1>14. su.better = {} /\ su.equal = {}
  <2>1. \A w \in su.rankable : basis = "COST" => w.econ.lowest = w.econ.cost
    <3>1. \A w \in su.rankable : w \in W /\ w.state = "RANKABLE"
      BY <1>1, BestOf
    <3> QED
      BY <3>1 DEF Paired
  <2> QED
    BY <1>13, <2>1, MaterialOf
<1>15. StatusOf(su) \in Confirmed
  BY <1>8, <1>14 DEF StatusOf, StatusRanked, Confirmed
<1> QED
  BY <1>12, <1>15

LEMMA ScopeSound ==
  ASSUME NEW c, NEW q, ParseCorpus(c), LintCorpus(c), RequestShape(q),
         NEW s \in DOMAIN c.scopes, Settles(c, q, s)
  PROVE  Sound(Candidates(c, q, s), c.scopes[s].basis)
PROOF
<1> PICK V, basis : V = Candidates(c, q, s) /\ basis = c.scopes[s].basis
  OBVIOUS
<1>1. \A v \in V : v.state \in {"RANKABLE", "UNCERTAIN", "REJECTED"}
  <2> SUFFICES ASSUME NEW r \in MembersOf(c, s), NEW v, v = Assess(r, c.scopes[s], Input(c, q)),
                      v.state # "THROWN"
               PROVE  v.state \in {"RANKABLE", "UNCERTAIN", "REJECTED"}
    BY DEF Candidates, Settles
  <2>1. v.state \in States
    BY MemberFacts, CandidateCases
  <2> QED
    BY <2>1 DEF States
<1>2. ASSUME NEW v \in V, v.state = "RANKABLE"
      PROVE  Score(v, basis) \in Int /\ Score(v, basis) >= -MaxSafe
  <2>1. PICK r \in MembersOf(c, s) : v = Assess(r, c.scopes[s], Input(c, q))
    BY DEF Candidates
  <2> QED
    BY <1>2, <2>1, RankedSound
<1>3. {v \in V : v.state = "RANKABLE"} # {} =>
        Comparable(basis, {v \in V : v.state = "RANKABLE"})
  BY SettledAreComparable
<1>4. Sound(V, basis)
  BY <1>1, <1>2, <1>3 DEF Sound
<1> QED
  BY <1>4

LEMMA ScopePaired ==
  ASSUME NEW c, NEW q, NEW d, NEW p, Learns(c, q, d, p),
         ParseCorpus(c), LintCorpus(c), ParseCorpus(d), LintCorpus(d),
         RequestShape(q), RequestShape(p), NEW s \in DOMAIN c.scopes, MembersOf(c, s) # {},
         \A r \in DOMAIN c.rules :
           /\ c.rules[r].benefit.type = "PERCENT" => c.rules[r].benefit.rounding # "UNKNOWN"
           /\ c.rules[r].benefit.type = "FIXED_DISCOUNT" => ~CapOpen(c.rules[r]),
         Settles(c, q, s), Settles(d, p, s)
  PROVE  Paired(Candidates(c, q, s), Candidates(d, p, s), c.scopes[s].basis)
PROOF
<1> PICK V, W, basis : V = Candidates(c, q, s) /\ W = Candidates(d, p, s) /\ basis = c.scopes[s].basis
  OBVIOUS
<1>1. /\ \A t : MembersOf(d, t) = MembersOf(c, t)
      /\ s \in DOMAIN d.scopes /\ d.scopes[s] = c.scopes[s]
  <2>1. \A t : MembersOf(d, t) = MembersOf(c, t)
    BY AskedAlike
  <2>2. d.scopes = c.scopes
    BY DEF Learns
  <2> QED
    BY <2>1, <2>2
<1>2. \A r \in MembersOf(c, s) : r \in DOMAIN c.rules /\ d.rules[r].benefit = c.rules[r].benefit
  BY RuleLearnsFields DEF Learns, MembersOf
<1>3. ASSUME NEW r \in MembersOf(c, s), NEW v, v = Assess(r, c.scopes[s], Input(c, q)),
             NEW w, w = Assess(r, d.scopes[s], Input(d, p))
      PROVE  /\ v \in V /\ w \in W /\ w.rule = v.rule /\ Steady(v, w, basis)
             /\ v.state \in {"RANKABLE", "UNCERTAIN", "REJECTED"}
             /\ w.state \in {"RANKABLE", "UNCERTAIN", "REJECTED"}
  <2>1. v.rule = r /\ w.rule = r /\ v.state \in States /\ w.state \in States /\ Steady(v, w, basis)
    BY <1>2, <1>3, CandidateLearns
  <2>2. v \in V /\ w \in W
    BY <1>1, <1>3 DEF Candidates
  <2>3. v.state # "THROWN" /\ w.state # "THROWN"
    BY <2>2 DEF Settles
  <2> QED
    BY <2>1, <2>2, <2>3 DEF States
<1>4. Sound(V, basis)
  BY ScopeSound
<1>5. Sound(W, basis)
  BY <1>1, ScopeSound
<1>6. \A v \in V : \E w \in W : w.rule = v.rule /\ Steady(v, w, basis)
  <2> SUFFICES ASSUME NEW v \in V PROVE \E w \in W : w.rule = v.rule /\ Steady(v, w, basis)
    OBVIOUS
  <2>1. PICK r \in MembersOf(c, s) : v = Assess(r, c.scopes[s], Input(c, q))
    BY DEF Candidates
  <2>2. PICK w : w = Assess(r, d.scopes[s], Input(d, p))
    OBVIOUS
  <2> QED
    BY <1>3, <2>1, <2>2
<1>7. \A w \in W : \E v \in V : w.rule = v.rule /\ Steady(v, w, basis)
  <2> SUFFICES ASSUME NEW w \in W PROVE \E v \in V : w.rule = v.rule /\ Steady(v, w, basis)
    OBVIOUS
  <2>1. PICK r \in MembersOf(c, s) : w = Assess(r, d.scopes[s], Input(d, p))
    BY <1>1 DEF Candidates
  <2>2. PICK v : v = Assess(r, c.scopes[s], Input(c, q))
    OBVIOUS
  <2> QED
    BY <1>3, <2>1, <2>2
<1>8. ASSUME NEW w \in W, basis = "COST", w.state = "RANKABLE" PROVE w.econ.lowest = w.econ.cost
  <2>1. PICK r \in MembersOf(c, s) : w = Assess(r, d.scopes[s], Input(d, p))
    BY <1>1 DEF Candidates
  <2>2. basis = "COST" /\ w.econ.lowest # w.econ.cost =>
          d.rules[r].benefit.type = "PERCENT" /\ d.rules[r].benefit.rounding = "UNKNOWN"
    <3>1. /\ ParseCorpus(d) /\ LintCorpus(d) /\ RequestShape(p) /\ s \in DOMAIN d.scopes
          /\ r \in MembersOf(d, s) /\ w = Assess(r, d.scopes[s], Input(d, p)) /\ w.state = "RANKABLE"
          /\ basis = d.scopes[s].basis
      BY <1>1, <1>8, <2>1
    <3> QED
      BY ONLY <3>1, RankedSound
  <2>3. d.rules[r].benefit = c.rules[r].benefit /\ r \in DOMAIN c.rules
    BY <1>2
  <2> QED
    BY <1>8, <2>2, <2>3
<1>9. Paired(V, W, basis)
  BY <1>4, <1>5, <1>6, <1>7, <1>8 DEF Paired
<1> QED
  BY <1>9

(* What learning makes of a decision that stands.                            *)
LEMMA DecisionLearns ==
  ASSUME NEW c, NEW q, NEW d, NEW p, Learns(c, q, d, p),
         ParseCorpus(c), LintCorpus(c), ParseCorpus(d), LintCorpus(d),
         RequestShape(q), RequestShape(p),
         \A r \in DOMAIN c.rules :
           /\ c.rules[r].benefit.type = "PERCENT" => c.rules[r].benefit.rounding # "UNKNOWN"
           /\ c.rules[r].benefit.type = "FIXED_DISCOUNT" => ~CapOpen(c.rules[r]),
         NEW e, e = Evaluation(c, q), NEW f, f = Evaluation(d, p),
         NEW before \in e.results, before.top # {} \/ before.complete
  PROVE  /\ TopAt(f, before.scope) \subseteq before.top \cup before.possible
         /\ before.complete /\ f.error = None => TopAt(f, before.scope) = before.top
PROOF
<1>1. PICK asked : asked = Peopled(c, Relevant(c, q))
  OBVIOUS
<1>2. asked = Peopled(d, Relevant(d, p)) /\ asked \subseteq DOMAIN c.scopes
  BY <1>1, AskedAlike DEF Peopled, Relevant, OfMerchant
<1>3. /\ e.error = None
      /\ \A s \in asked : Settles(c, q, s)
      /\ \A x : x \in e.results <=> \E s \in asked : x = DecisionAt(c, q, s)
  BY <1>1, Shown
<1>4. PICK s \in asked : before = DecisionAt(c, q, s)
  BY <1>3
<1>5. CASE f.error # None
  <2>1. f.results = {}
    BY <1>2, <1>5, Shown
  <2> QED
    BY <1>5, <2>1 DEF TopAt
<1>6. CASE f.error = None
  <2>1. /\ \A t \in asked : Settles(d, p, t)
        /\ \A x : x \in f.results <=> \E t \in asked : x = DecisionAt(d, p, t)
    BY <1>2, <1>6, Shown
  <2>2. before.scope = s /\ TopAt(f, s) = DecisionAt(d, p, s).top
    BY <1>4, <2>1, Resolution, TopAtScope DEF DecisionAt
  <2>3. PICK V, W, basis : V = Candidates(c, q, s) /\ W = Candidates(d, p, s) /\ basis = c.scopes[s].basis
    OBVIOUS
  <2>4. s \in DOMAIN c.scopes /\ MembersOf(c, s) # {} /\ d.scopes[s] = c.scopes[s]
    BY <1>1, <1>2 DEF Peopled, Learns
  <2>5. Paired(V, W, basis)
    BY <1>3, <2>1, <2>3, <2>4, ScopePaired
  <2>6. PICK after : after = DecisionAt(d, p, s)
    OBVIOUS
  <2>7. before = ResolveDecision(s, V, basis) /\ after = ResolveDecision(s, W, basis)
    BY <1>4, <2>3, <2>4, <2>6 DEF DecisionAt
  <2>8. PICK st, su : st = Standing(V, basis) /\ su = Standing(W, basis)
    OBVIOUS
  <2>9. /\ before.status = StatusOf(st)
        /\ before.top = IF before.status \in Confirmed THEN RulesOf(st.top) ELSE {}
        /\ before.possible = IF before.status \in Confirmed THEN Possible(st) ELSE {}
        /\ before.complete <=> before.status \in Confirmed /\ Possible(st) = {}
    BY <2>7, <2>8, Resolution
  <2>10. /\ after.status = StatusOf(su)
         /\ after.top = IF after.status \in Confirmed THEN RulesOf(su.top) ELSE {}
    BY <2>7, <2>8, Resolution
  <2>11. before.status \in Confirmed /\ st.rankable # {}
    BY <2>9, ConfirmedMeans
  <2>12. RulesOf(su.top) \subseteq RulesOf(st.top) \cup Possible(st)
    <3> SUFFICES ASSUME NEW w \in su.top PROVE w.rule \in RulesOf(st.top) \cup Possible(st)
      BY DEF RulesOf
    <3>1. \E v \in V : /\ w.rule = v.rule
                       /\ v \in st.top \/ (v \in st.material /\ v \notin st.top)
      BY <2>5, <2>8, <2>11, TopLearns
    <3> QED
      BY <3>1 DEF RulesOf, Possible
  <2>13. before.complete => RulesOf(su.top) = RulesOf(st.top) /\ StatusOf(su) \in Confirmed
    BY <2>5, <2>8, <2>9, <2>11, SettledTopStays
  <2> QED
    BY <2>2, <2>6, <2>9, <2>10, <2>11, <2>12, <2>13
<1> QED
  BY <1>5, <1>6

LEMMA LearningKeepsTop ==
  ASSUME EngineInv, [Next]_vars, Learned, PricesWeighed,
         NEW d \in evaluation.results, d.top # {} \/ d.complete
  PROVE  /\ TopAt(evaluation', d.scope) \subseteq d.top \cup d.possible
         /\ d.complete /\ evaluation'.error = None => TopAt(evaluation', d.scope) = d.top
PROOF
<1>1. PICK a, b, x, y, e, f : /\ a = corpus /\ b = request /\ x = corpus' /\ y = request'
                              /\ e = evaluation /\ f = evaluation'
  OBVIOUS
<1>2. /\ ParseCorpus(a) /\ LintCorpus(a) /\ RequestShape(b)
      /\ ParseCorpus(x) /\ LintCorpus(x) /\ RequestShape(y)
      /\ e = Evaluation(a, b) /\ f = Evaluation(x, y) /\ Learns(a, b, x, y)
  BY <1>1, LearningStep
<1>3. \A r \in DOMAIN a.rules :
        /\ a.rules[r].benefit.type = "PERCENT" => a.rules[r].benefit.rounding # "UNKNOWN"
        /\ a.rules[r].benefit.type = "FIXED_DISCOUNT" => ~CapOpen(a.rules[r])
  BY <1>1 DEF PricesWeighed, Rules
<1>4. /\ TopAt(f, d.scope) \subseteq d.top \cup d.possible
      /\ d.complete /\ f.error = None => TopAt(f, d.scope) = d.top
  <2>1. d \in e.results
    BY <1>1
  <2> QED
    BY <1>2, <1>3, <2>1, DecisionLearns
<1> QED
  BY <1>1, <1>4

(* A decision that stands names beforehand every rule that learning can put  *)
(* at the top of its scope (possibleAdditionalTopRuleRefs).                  *)
THEOREM NewcomersAnnounced == Spec => NewcomersAreAnnounced
PROOF
<1>1. ASSUME EngineInv, [Next]_vars
      PROVE  [Learned /\ PricesWeighed =>
                \A d \in evaluation.results :
                  d.top # {} => TopAt(evaluation', d.scope) \subseteq d.top \cup d.possible]_vars
  BY <1>1, LearningKeepsTop
<1> QED
  BY <1>1, EngineInvariant, PTL DEF Spec, NewcomersAreAnnounced

(* A top set that decide() calls complete (topSetComplete) stays the same,   *)
(* whatever is learnt, unless decide() throws.                               *)
THEOREM CompleteStays == Spec => CompleteIsFinal
PROOF
<1>1. ASSUME EngineInv, [Next]_vars
      PROVE  [Learned /\ PricesWeighed /\ evaluation'.error = None =>
                \A d \in evaluation.results : d.complete => TopAt(evaluation', d.scope) = d.top]_vars
  BY <1>1, LearningKeepsTop
<1> QED
  BY <1>1, EngineInvariant, PTL DEF Spec, CompleteIsFinal
-----------------------------------------------------------------------------
(* What the decision of a scope looks like. A rule is one candidate of it.   *)
Ruled(V) ==
  /\ IsFiniteSet(V) /\ \A v \in V : v.rule \in Int
  /\ \A u, v \in V : u.rule = v.rule => u = v

LEMMA RulesCount ==
  ASSUME NEW V, Ruled(V), NEW T, T \subseteq V
  PROVE  IsFiniteSet(T) /\ Cardinality(RulesOf(T)) = Cardinality(T)
PROOF
<1> DEFINE f == [w \in T |-> w.rule]
<1>1. IsFiniteSet(T)
  BY FS_Subset DEF Ruled
<1>2. f \in Injection(T, RulesOf(T)) /\ f \in Surjection(T, RulesOf(T))
  BY DEF Ruled, RulesOf, Injection, Surjection, IsInjective
<1> QED
  BY <1>1, <1>2, FS_Surjection

LEMMA MinOfOne == ASSUME NEW x \in Int PROVE Min({x}) = x
BY DEF Min

LEMMA RankedMeans ==
  ASSUME NEW V, NEW basis, Sound(V, basis), Ruled(V), NEW st, st = Standing(V, basis),
         StatusOf(st) \in Confirmed
  PROVE  /\ st.top # {} /\ IsFiniteSet(st.top)
         /\ StatusOf(st) = "CONFIRMED_TIE" <=> Cardinality(st.top) > 1
         /\ StatusOf(st) # "CONFIRMED_TIE" =>
              /\ First(st.top) \in st.top /\ st.top = {First(st.top)}
              /\ First(st.top).rule \in Int
PROOF
<1>1. /\ \A v : v \in st.top <=> v \in V /\ v.state = "RANKABLE" /\ Score(v, basis) = st.best
      /\ st.rankable # {} =>
           \E v \in V : v.state = "RANKABLE" /\ Score(v, basis) = st.best
  BY BestOf
<1>2. st.rankable # {}
  BY ConfirmedMeans
<1>3. st.top # {} /\ st.top \subseteq V
  BY <1>1, <1>2
<1>4. IsFiniteSet(st.top)
  BY <1>3, RulesCount
<1>5. StatusOf(st) = "CONFIRMED_TIE" <=> Cardinality(st.top) > 1
  BY <1>2 DEF StatusOf, StatusRanked, Confirmed
<1>6. ASSUME StatusOf(st) # "CONFIRMED_TIE"
      PROVE  /\ First(st.top) \in st.top /\ st.top = {First(st.top)}
             /\ First(st.top).rule \in Int
  <2>1. Cardinality(st.top) \in Nat /\ Cardinality(st.top) # 0 /\ ~(Cardinality(st.top) > 1)
    BY <1>3, <1>4, <1>5, <1>6, FS_CardinalityType, FS_EmptySet
  <2>2. Cardinality(st.top) = 1
    BY <2>1
  <2>3. PICK w : st.top = {w}
    BY <1>4, <2>2, FS_Singleton
  <2>4. w.rule \in Int
    BY <1>3, <2>3 DEF Ruled
  <2>5. RulesOf(st.top) = {w.rule} /\ Min({w.rule}) = w.rule
    BY <2>3, <2>4, MinOfOne DEF RulesOf
  <2>6. First(st.top) = w
    BY <2>3, <2>5 DEF First
  <2> QED
    BY <2>3, <2>4, <2>6
<1> QED
  BY <1>3, <1>4, <1>5, <1>6

(* The next best score is worse than the best.                               *)
LEMMA DeltaMeans ==
  ASSUME NEW V, NEW basis, Sound(V, basis), NEW st, st = Standing(V, basis), st.rankable # {}
  PROVE  /\ Cardinality(st.top) > 1 => Delta(st, basis) = 0
         /\ ~(Cardinality(st.top) > 1) =>
              Delta(st, basis) = None \/ (Delta(st, basis) \in Int /\ Delta(st, basis) > 0)
PROOF
<1> PICK others : others = {Score(w, basis) : w \in st.rankable \ st.top}
  OBVIOUS
<1>1. Delta(st, basis) = IF Cardinality(st.top) > 1 THEN 0
                         ELSE IF others = {} THEN None ELSE Min(others) - st.best
  BY DEF Delta
<1>2. /\ \A v : v \in st.rankable <=> v \in V /\ v.state = "RANKABLE"
      /\ st.best \in Int
      /\ \A v \in V : v.state = "RANKABLE" => st.best <= Score(v, basis)
      /\ \A v : v \in st.top <=> v \in V /\ v.state = "RANKABLE" /\ Score(v, basis) = st.best
  BY BestOf
<1>3. \A x \in others : x \in Int /\ x >= -MaxSafe /\ x > st.best
  <2> SUFFICES ASSUME NEW w \in st.rankable \ st.top
               PROVE  /\ Score(w, basis) \in Int /\ Score(w, basis) >= -MaxSafe
                      /\ Score(w, basis) > st.best
    OBVIOUS
  <2>1. Score(w, basis) \in Int /\ Score(w, basis) >= -MaxSafe
    BY <1>2 DEF Sound
  <2>2. st.best <= Score(w, basis) /\ Score(w, basis) # st.best
    BY <1>2
  <2> QED
    BY <1>2, <2>1, <2>2
<1>4. others # {} => Min(others) \in others
  <2>1. -MaxSafe \in Int
    BY MaxSafeAssumption
  <2> QED
    BY <1>3, <2>1, MinExists
<1> QED
  BY <1>1, <1>2, <1>3, <1>4

LEMMA DecisionSound ==
  ASSUME NEW s, NEW V, NEW basis, Sound(V, basis), Ruled(V),
         NEW d, d = ResolveDecision(s, V, basis)
  PROVE  /\ d.scope = s /\ d.status \in Statuses
         /\ d.top \cup d.possible \subseteq RulesOf(V)
         /\ d.top \cap d.possible = {}
         /\ d.status \in Confirmed <=> d.top # {}
         /\ d.status = "CONFIRMED_TIE" <=> Cardinality(d.top) > 1
         /\ d.winner # None => d.top = {d.winner}
         /\ d.delta # None => d.delta >= 0 /\ (d.delta = 0 <=> d.winner = None)
         /\ d.complete <=> d.top # {} /\ d.possible = {}
PROOF
<1>1. PICK st : st = Standing(V, basis)
  OBVIOUS
<1>2. PICK status : status = StatusOf(st)
  OBVIOUS
<1>3. /\ d.scope = s /\ d.status = status
      /\ d.winner = IF status \in Confirmed /\ status # "CONFIRMED_TIE" THEN First(st.top).rule ELSE None
      /\ d.delta = IF status \in Confirmed THEN Delta(st, basis) ELSE None
      /\ d.top = IF status \in Confirmed THEN RulesOf(st.top) ELSE {}
      /\ d.possible = IF status \in Confirmed THEN Possible(st) ELSE {}
      /\ d.complete <=> status \in Confirmed /\ Possible(st) = {}
  <2>1. d = Resolved(s, V, basis, st, status)
    BY <1>1, <1>2, Resolution
  <2>2. PICK w, delta, top, possible :
          /\ w = First(st.top).rule /\ delta = Delta(st, basis)
          /\ top = RulesOf(st.top) /\ possible = Possible(st)
    OBVIOUS
  <2>3. PICK stands, tie : /\ stands = (status \in Confirmed) /\ tie = (status = "CONFIRMED_TIE")
    OBVIOUS
  <2>4. d = [scope |-> s, candidates |-> V, status |-> status,
             winner |-> IF status \in Confirmed /\ status # "CONFIRMED_TIE" THEN w ELSE None,
             delta |-> IF status \in Confirmed THEN delta ELSE None,
             top |-> IF status \in Confirmed THEN top ELSE {},
             possible |-> IF status \in Confirmed THEN possible ELSE {},
             complete |-> status \in Confirmed /\ possible = {},
             matched |-> /\ status # "NO_APPLICABLE_BENEFIT"
                         /\ st.settled \cup st.material # {}]
    BY <2>1, <2>2 DEF Resolved
  <2>5. /\ d.scope = s /\ d.status = status
        /\ d.winner = IF status \in Confirmed /\ status # "CONFIRMED_TIE" THEN w ELSE None
        /\ d.delta = IF status \in Confirmed THEN delta ELSE None
        /\ d.top = IF status \in Confirmed THEN top ELSE {}
        /\ d.possible = IF status \in Confirmed THEN possible ELSE {}
        /\ d.complete <=> status \in Confirmed /\ possible = {}
    BY ONLY <2>4
  <2> QED
    BY ONLY <2>2, <2>5
<1>4. status \in Statuses
  BY <1>2 DEF StatusOf, StatusRanked, StatusUnranked, Statuses, Confirmed
<1>5. CASE status \notin Confirmed
  <2>1. Cardinality({}) = 0 /\ status # "CONFIRMED_TIE"
    BY <1>5, FS_EmptySet DEF Confirmed
  <2> QED
    BY <1>3, <1>4, <1>5, <2>1
<1>6. CASE status \in Confirmed
  <2>1. /\ st.top # {} /\ IsFiniteSet(st.top)
        /\ status = "CONFIRMED_TIE" <=> Cardinality(st.top) > 1
        /\ status # "CONFIRMED_TIE" =>
              /\ First(st.top) \in st.top /\ st.top = {First(st.top)}
              /\ First(st.top).rule \in Int
    BY <1>1, <1>2, <1>6, RankedMeans
  <2>2. st.top \subseteq V /\ st.material \subseteq V /\ st.rankable # {}
    <3>1. st.top \subseteq V /\ st.rankable \subseteq V
      BY <1>1, BestOf
    <3>2. st.material \subseteq V
      BY <1>1 DEF Standing, StandingOf
    <3>3. st.rankable # {}
      BY <1>2, <1>6, ConfirmedMeans
    <3> QED
      BY <3>1, <3>2, <3>3
  <2>3. RulesOf(st.top) # {} /\ RulesOf(st.top) \cup Possible(st) \subseteq RulesOf(V)
    BY <2>1, <2>2 DEF RulesOf, Possible
  <2>4. RulesOf(st.top) \cap Possible(st) = {}
    BY <2>2 DEF RulesOf, Possible, Ruled
  <2>5. Cardinality(RulesOf(st.top)) = Cardinality(st.top)
    BY <2>2, RulesCount
  <2>6. CASE status = "CONFIRMED_TIE"
    <3>1. Delta(st, basis) = 0
      BY <1>1, <2>1, <2>2, <2>6, DeltaMeans
    <3> QED
      BY <1>3, <1>4, <1>6, <2>1, <2>3, <2>4, <2>5, <2>6, <3>1
  <2>7. CASE status # "CONFIRMED_TIE"
    <3>1. Delta(st, basis) = None \/ (Delta(st, basis) \in Int /\ Delta(st, basis) > 0)
      BY <1>1, <2>1, <2>2, <2>7, DeltaMeans
    <3>2. PICK w : w = First(st.top) /\ st.top = {w} /\ w.rule \in Int
      BY <2>1, <2>7
    <3>3. RulesOf(st.top) = {w.rule} /\ w.rule # None
      BY <3>2, NoneAssumption DEF RulesOf
    <3>4. d.winner = w.rule /\ d.delta = Delta(st, basis)
      BY <1>3, <1>6, <2>7, <3>2
    <3> QED
      BY <1>3, <1>4, <1>6, <2>1, <2>3, <2>4, <2>5, <2>7, <3>1, <3>3, <3>4
  <2> QED
    BY <2>6, <2>7
<1> QED
  BY <1>5, <1>6

LEMMA CandidatesRuled ==
  ASSUME NEW c, NEW q, ParseCorpus(c), LintCorpus(c), CorpusShape(c), NEW s \in DOMAIN c.scopes
  PROVE  Ruled(Candidates(c, q, s)) /\ RulesOf(Candidates(c, q, s)) \subseteq MembersOf(c, s)
PROOF
<1> PICK V, M : V = Candidates(c, q, s) /\ M = MembersOf(c, s)
  OBVIOUS
<1> DEFINE f == [r \in M |-> Assess(r, c.scopes[s], Input(c, q))]
<1>1. \A r \in M : f[r].rule = r /\ r \in Int
  <2> SUFFICES ASSUME NEW r \in M
               PROVE  Assess(r, c.scopes[s], Input(c, q)).rule = r /\ r \in Int
    OBVIOUS
  <2>1. PICK in : in = Input(c, q)
    OBVIOUS
  <2>2. BenefitSchema(in.rules[r].benefit) /\ in.ops[r].source \in SourceQualityStates
    BY <2>1, MemberFacts
  <2>3. Assess(r, c.scopes[s], in).rule = r
    BY <2>2, CandidateCases
  <2> QED
    BY <2>1, <2>3 DEF CorpusShape, MembersOf
<1>2. IsFiniteSet(M)
  BY FS_Subset DEF CorpusShape, MembersOf
<1>3. V = {f[r] : r \in M}
  BY DEF Candidates
<1>4. f \in Surjection(M, V)
  BY <1>3 DEF Surjection
<1>5. IsFiniteSet(V)
  BY <1>2, <1>4, FS_Surjection
<1> HIDE DEF f
<1> QED
  BY <1>1, <1>3, <1>5 DEF Ruled, RulesOf

(* What is final of finitely many matches.                                   *)
LEMMA FinalMeans ==
  ASSUME NEW matched, IsFiniteSet(matched), None \notin matched
  PROVE  IF FinalOf(matched) = None THEN Cardinality(matched) > 1
         ELSE matched \ {FinalOf(matched)} = {}
PROOF
<1>1. Cardinality(matched) \in Nat
  BY FS_CardinalityType
<1>2. CASE matched = {}
  <2>0. Cardinality(matched) # 1
    BY <1>2, FS_EmptySet
  <2>1. FinalOf(matched) = "(none)"
    BY <1>2, <2>0 DEF FinalOf
  <2> QED
    BY <1>2, <2>1, NoneAssumption
<1>3. CASE matched # {} /\ Cardinality(matched) = 1
  <2>1. PICK s : matched = {s}
    BY <1>3, FS_Singleton
  <2>2. Cardinality({}) = 0
    BY FS_EmptySet
  <2>3. FinalOf(matched) = CHOOSE x \in matched : TRUE
    BY <1>3, Zenon DEF FinalOf
  <2>4. FinalOf(matched) = s
    BY <2>1, <2>3
  <2> QED
    BY <2>1, <2>4
<1>4. CASE matched # {} /\ Cardinality(matched) # 1
  <2>1. FinalOf(matched) = None
    BY <1>4, Zenon DEF FinalOf
  <2>2. Cardinality(matched) # 0
    BY <1>4, FS_EmptySet
  <2> QED
    BY <1>1, <1>4, <2>1, <2>2
<1> QED
  BY <1>2, <1>3, <1>4

LEMMA TypeInvariant == ASSUME EngineInv PROVE TypeOK
PROOF
<1> PICK asked : asked = Peopled(corpus, Relevant(corpus, request))
  OBVIOUS
<1>1. /\ evaluation.error \in {None, "SETTLEMENT"}
      /\ evaluation.error = None =>
           /\ \A s \in asked : Settles(corpus, request, s)
           /\ \A d : d \in evaluation.results <=>
                       \E s \in asked : d = DecisionAt(corpus, request, s)
           /\ evaluation.final = FinalOf(Matched(evaluation.results))
      /\ evaluation.error # None => evaluation.results = {} /\ evaluation.final = None
  BY Shown DEF EngineInv
<1>2. asked \subseteq DOMAIN corpus.scopes
  BY DEF Peopled, Relevant, OfMerchant
<1>3. ASSUME NEW d \in evaluation.results PROVE ResultOK(d)
  <2>1. PICK s \in asked : Settles(corpus, request, s) /\ d = DecisionAt(corpus, request, s)
    BY <1>1
  <2>2. PICK V, basis : V = Candidates(corpus, request, s) /\ basis = corpus.scopes[s].basis
    OBVIOUS
  <2>3. s \in DOMAIN corpus.scopes /\ ParseCorpus(corpus) /\ LintCorpus(corpus)
        /\ CorpusShape(corpus) /\ RequestShape(request)
    BY <1>2 DEF EngineInv
  <2>4. Ruled(V) /\ RulesOf(V) \subseteq MembersOf(corpus, s)
    BY <2>2, <2>3, CandidatesRuled
  <2>5. Sound(V, basis)
    BY <2>1, <2>2, <2>3, ScopeSound
  <2>6. d = ResolveDecision(s, V, basis)
    BY <2>1, <2>2 DEF DecisionAt
  <2>7. /\ d.scope = s /\ d.status \in Statuses
        /\ d.top \cup d.possible \subseteq RulesOf(V)
        /\ d.top \cap d.possible = {}
        /\ d.status \in Confirmed <=> d.top # {}
        /\ d.status = "CONFIRMED_TIE" <=> Cardinality(d.top) > 1
        /\ d.winner # None => d.top = {d.winner}
        /\ d.delta # None => d.delta >= 0 /\ (d.delta = 0 <=> d.winner = None)
        /\ d.complete <=> d.top # {} /\ d.possible = {}
    BY <2>4, <2>5, <2>6, DecisionSound
  <2> QED
    BY <2>4, <2>7 DEF ResultOK
<1>4. CASE evaluation.error = None
  <2>1. PICK matched : matched = Matched(evaluation.results)
    OBVIOUS
  <2>2. matched \subseteq DOMAIN corpus.scopes
    <3>1. \A d \in evaluation.results : d.scope \in DOMAIN corpus.scopes
      <4> SUFFICES ASSUME NEW s \in asked PROVE DecisionAt(corpus, request, s).scope = s
        BY <1>1, <1>2, <1>4
      <4> QED
        BY Resolution DEF DecisionAt
    <3> QED
      BY <2>1, <3>1 DEF Matched
  <2>3. IsFiniteSet(matched) /\ None \notin matched
    BY <2>2, FS_Subset DEF EngineInv, CorpusShape
  <2>4. IF evaluation.final = None THEN Cardinality(matched) > 1
        ELSE matched \ {evaluation.final} = {}
    BY <1>1, <1>4, <2>1, <2>3, FinalMeans
  <2> QED
    BY <1>1, <1>3, <1>4, <2>1, <2>4 DEF TypeOK
<1>5. CASE evaluation.error # None
  BY <1>1, <1>3, <1>5 DEF TypeOK
<1> QED
  BY <1>4, <1>5

(* Every decision names its top set and what could still join it, a winner is*)
(* the whole of it, the distance to the next is 0 only in a tie, and decide()*)
(* is final when at most one scope matched.                                  *)
THEOREM EngineType == Spec => []TypeOK
BY EngineInvariant, TypeInvariant, PTL
-----------------------------------------------------------------------------
(* Groups of "of": what the division of the tickets says.                    *)
LEMMA Divided ==
  ASSUME NEW of \in Nat, of > 0, NEW k \in Nat
  PROVE  /\ (k \div of) \in Nat /\ (k % of) \in Nat /\ k % of < of
         /\ k = ((k \div of) * of) + (k % of)
OBVIOUS

LEMMA Multiples ==
  ASSUME NEW of \in Nat, of > 0, NEW m \in Nat, NEW n \in Nat, m < n
  PROVE  m * of \in Nat /\ n * of \in Nat /\ m * of + of <= n * of
PROOF
<1>1. PICK e \in Nat : n = m + 1 + e
  <2>1. n - m - 1 \in Nat /\ n = m + 1 + (n - m - 1)
    OBVIOUS
  <2> QED
    BY <2>1
<1>2. n * of = (m * of) + of + (e * of) /\ e * of \in Nat /\ m * of \in Nat
  BY <1>1
<1> QED
  BY <1>2

LEMMA Remainder ==
  ASSUME NEW of \in Nat, of > 0, NEW n \in Nat, NEW j \in Nat, j < of
  PROVE  (n * of + j) % of = j
PROOF
<1>1. n * of \in Nat
  OBVIOUS
<1>2. PICK k \in Nat : k = n * of + j
  BY <1>1
<1>3. PICK g, r \in Nat : g = k \div of /\ r = k % of /\ r < of /\ k = (g * of) + r
  BY Divided
<1>4. ~(g < n)
  <2> SUFFICES ASSUME g < n PROVE FALSE
    OBVIOUS
  <2>1. PICK a, b \in Nat : a = g * of /\ b = n * of /\ a + of <= b
    BY Multiples
  <2> QED
    BY <1>2, <1>3, <2>1
<1>5. ~(n < g)
  <2> SUFFICES ASSUME n < g PROVE FALSE
    OBVIOUS
  <2>1. PICK a, b \in Nat : a = n * of /\ b = g * of /\ a + of <= b
    BY Multiples
  <2> QED
    BY <1>2, <1>3, <2>1
<1>6. g = n
  BY <1>4, <1>5
<1> QED
  BY <1>1, <1>2, <1>3, <1>6

LEMMA DisjointUnion ==
  ASSUME NEW A, NEW B, IsFiniteSet(A), IsFiniteSet(B), A \cap B = {}
  PROVE  /\ IsFiniteSet(A \cup B)
         /\ Cardinality(A \cup B) = Cardinality(A) + Cardinality(B)
PROOF
<1>1. Cardinality(A \cap B) = 0
  BY FS_EmptySet
<1>2. PICK a, b \in Nat : Cardinality(A) = a /\ Cardinality(B) = b
  BY FS_CardinalityType
<1>3. /\ IsFiniteSet(A \cup B)
      /\ Cardinality(A \cup B) = Cardinality(A) + Cardinality(B) - Cardinality(A \cap B)
  BY FS_Union, Zenon
<1> QED
  BY <1>1, <1>2, <1>3

(* The paid tickets of the first n groups, and of the whole purchase.        *)
PaidOf(n, pay, of) == {k \in 0 .. n * of - 1 : k % of < pay}

LEMMA NextGroup ==
  ASSUME NEW of \in Nat, NEW pay \in Nat, 0 < pay, pay <= of, NEW n \in Nat
  PROVE  /\ PaidOf(0, pay, of) = {}
         /\ PaidOf(n + 1, pay, of) = PaidOf(n, pay, of) \cup n * of .. n * of + pay - 1
         /\ PaidOf(n, pay, of) \cap n * of .. n * of + pay - 1 = {}
PROOF
<1>1. PICK m \in Nat : m = n * of /\ (n + 1) * of = m + of
  <2>1. n * of \in Nat /\ (n + 1) * of = n * of + of
    OBVIOUS
  <2> QED
    BY <2>1
<1>2. ASSUME NEW k \in m .. m + of - 1 PROVE k % of = k - m
  <2>1. PICK j \in Nat : k = m + j /\ j < of
    <3>1. k - m \in Nat /\ k = m + (k - m) /\ k - m < of
      OBVIOUS
    <3> QED
      BY <3>1
  <2>2. (n * of + j) % of = j
    BY <2>1, Remainder
  <2> QED
    BY <1>1, <2>1, <2>2
<1>3. \A k : k \in PaidOf(n + 1, pay, of) <=> k \in 0 .. m - 1 \cup m .. m + of - 1 /\ k % of < pay
  BY <1>1 DEF PaidOf
<1>4. \A k : k \in m .. m + of - 1 /\ k % of < pay <=> k \in m .. m + pay - 1
  <2> SUFFICES ASSUME NEW k \in m .. m + of - 1 PROVE k % of < pay <=> k \in m .. m + pay - 1
    OBVIOUS
  <2>1. k % of = k - m
    BY <1>2
  <2> QED
    BY <2>1
<1>5. \A k : k \in PaidOf(n, pay, of) <=> k \in 0 .. m - 1 /\ k % of < pay
  BY <1>1 DEF PaidOf
<1>6. PaidOf(n + 1, pay, of) = PaidOf(n, pay, of) \cup m .. m + pay - 1
  BY <1>3, <1>4, <1>5
<1>7. PaidOf(n, pay, of) \cap m .. m + pay - 1 = {}
  BY <1>5
<1>8. PaidOf(0, pay, of) = {}
  BY DEF PaidOf
<1> QED
  BY <1>1, <1>6, <1>7, <1>8

LEMMA PaidOfGroups ==
  ASSUME NEW of \in Nat, NEW pay \in Nat, 0 < pay, pay <= of, NEW n \in Nat
  PROVE  IsFiniteSet(PaidOf(n, pay, of)) /\ Cardinality(PaidOf(n, pay, of)) = n * pay
PROOF
<1> DEFINE Right(m) == /\ IsFiniteSet(PaidOf(m, pay, of))
                       /\ Cardinality(PaidOf(m, pay, of)) = m * pay
           wrong == {m \in Nat : ~Right(m)}
<1>1. Right(0)
  BY NextGroup, FS_EmptySet
<1>2. ASSUME NEW m \in Nat, Right(m) PROVE Right(m + 1)
  <2>1. PICK low \in Nat, paid \in Nat : low = m * of /\ paid = m * pay /\ (m + 1) * pay = paid + pay
    <3>1. m * of \in Nat /\ m * pay \in Nat /\ (m + 1) * pay = m * pay + pay
      OBVIOUS
    <3> QED
      BY <3>1
  <2>2. /\ PaidOf(m + 1, pay, of) = PaidOf(m, pay, of) \cup low .. low + pay - 1
        /\ PaidOf(m, pay, of) \cap low .. low + pay - 1 = {}
    BY <2>1, NextGroup
  <2>3. IsFiniteSet(low .. low + pay - 1) /\ Cardinality(low .. low + pay - 1) = pay
    <3>1. low \in Int /\ low + pay - 1 \in Int /\ ~(low > low + pay - 1)
          /\ (low + pay - 1) - low + 1 = pay
      OBVIOUS
    <3> QED
      BY <3>1, FS_Interval
  <2>4. /\ IsFiniteSet(PaidOf(m + 1, pay, of))
        /\ Cardinality(PaidOf(m + 1, pay, of)) = paid + pay
    <3>1. IsFiniteSet(PaidOf(m, pay, of)) /\ Cardinality(PaidOf(m, pay, of)) = paid
      BY <1>2, <2>1
    <3>2. PICK A, B : A = PaidOf(m, pay, of) /\ B = low .. low + pay - 1
      OBVIOUS
    <3>3. /\ PaidOf(m + 1, pay, of) = A \cup B /\ A \cap B = {}
          /\ IsFiniteSet(A) /\ Cardinality(A) = paid /\ IsFiniteSet(B) /\ Cardinality(B) = pay
      BY <2>2, <2>3, <3>1, <3>2
    <3> QED
      BY <3>3, DisjointUnion
  <2> QED
    BY <2>1, <2>4
<1> HIDE DEF Right
<1>3. wrong = {}
  <2> SUFFICES ASSUME wrong # {} PROVE FALSE
    OBVIOUS
  <2>1. \A x \in wrong : x \in Int /\ x >= 0
    OBVIOUS
  <2>2. PICK m \in wrong : \A x \in wrong : m <= x
    <3> HIDE DEF wrong
    <3> QED BY <2>1, MinExists
  <2>3. m \in Nat /\ m # 0 /\ ~Right(m)
    BY <1>1
  <2>4. m - 1 \in Nat /\ (m - 1) + 1 = m
    BY <2>3
  <2>5. Right(m - 1)
    BY <2>2, <2>4
  <2> QED
    BY <1>2, <2>3, <2>4, <2>5
<1>4. Right(n)
  BY <1>3
<1> QED
  BY <1>4 DEF Right

LEMMA TicketsAreCounted ==
  ASSUME NEW of \in Nat, NEW pay \in Nat, 0 < pay, pay <= of, NEW count \in Nat
  PROVE  PaidOneByOne(count, pay, of) = PaidTickets(count, pay, of)
PROOF
<1>1. PICK n, t \in Nat : n = count \div of /\ t = count % of /\ t < of /\ count = (n * of) + t
  BY Divided
<1>2. PICK m \in Nat, paid \in Nat : m = n * of /\ paid = n * pay
  <2>1. n * of \in Nat /\ n * pay \in Nat
    OBVIOUS
  <2> QED
    BY <2>1
<1>3. count = m + t /\ count - (count % of) = m
  BY <1>1, <1>2
<1>4. PICK all : all = {k \in 0 .. count - 1 : (k % of) < pay \/ k >= count - (count % of)}
  OBVIOUS
<1>5. \A k : k \in all <=> k \in 0 .. count - 1 /\ ((k % of) < pay \/ k >= m)
  BY <1>3, <1>4
<1>6. \A k : k \in PaidOf(n, pay, of) <=> k \in 0 .. m - 1 /\ k % of < pay
  BY <1>2 DEF PaidOf
<1>7. all = PaidOf(n, pay, of) \cup m .. count - 1 /\ PaidOf(n, pay, of) \cap m .. count - 1 = {}
  BY <1>3, <1>5, <1>6
<1>8. IsFiniteSet(m .. count - 1) /\ Cardinality(m .. count - 1) = t
  <2>1. m \in Int /\ count - 1 \in Int /\ (m > count - 1 => t = 0) /\ (count - 1) - m + 1 = t
    BY <1>3
  <2> QED
    BY <2>1, FS_Interval
<1>9. IsFiniteSet(PaidOf(n, pay, of)) /\ Cardinality(PaidOf(n, pay, of)) = paid
  BY <1>2, PaidOfGroups
<1>10. Cardinality(all) = paid + t
  <2>1. PICK A, B : A = PaidOf(n, pay, of) /\ B = m .. count - 1
    OBVIOUS
  <2>2. /\ A \cap B = {} /\ IsFiniteSet(A) /\ Cardinality(A) = paid
        /\ IsFiniteSet(B) /\ Cardinality(B) = t
    BY <1>7, <1>8, <1>9, <2>1
  <2>3. IsFiniteSet(A \cup B) /\ Cardinality(A \cup B) = paid + t
    BY <2>2, DisjointUnion
  <2>4. all = A \cup B
    BY <1>7, <2>1
  <2> QED
    BY ONLY <2>3, <2>4, Zenon
<1>11. PaidOneByOne(count, pay, of) = Cardinality(all)
  BY <1>4 DEF PaidOneByOne
<1>12. PaidTickets(count, pay, of) = paid + t
  BY <1>1, <1>2 DEF PaidTickets
<1> QED
  BY <1>10, <1>11, <1>12

(* A percentage is given to the nearest or to the lower centimo.             *)
LEMMA Rounded ==
  ASSUME NEW x \in Nat
  PROVE  \E l, h \in Nat : /\ l = x \div 10000 /\ h = (x + 5000) \div 10000
                           /\ l <= h /\ h <= l + 1 /\ x - 10000 < 10000 * l /\ 10000 * l <= x
                           /\ x - 5000 < 10000 * h /\ 10000 * h <= x + 5000
PROOF
<1>1. ASSUME NEW e \in Nat
      PROVE  e \div 10000 \in Nat /\ 10000 * (e \div 10000) <= e /\ e < 10000 * (e \div 10000) + 10000
  BY Z3
<1>2. PICK l \in Nat : l = x \div 10000 /\ 10000 * l <= x /\ x < 10000 * l + 10000
  BY <1>1
<1>3. PICK h \in Nat : /\ h = (x + 5000) \div 10000
                      /\ 10000 * h <= x + 5000 /\ x + 5000 < 10000 * h + 10000
  BY <1>1
<1>4. /\ l <= h /\ h <= l + 1 /\ x - 10000 < 10000 * l /\ 10000 * l <= x
      /\ x - 5000 < 10000 * h /\ 10000 * h <= x + 5000
  BY <1>2, <1>3
<1> QED
  BY <1>2, <1>3, <1>4

Says(rounding, exact, d) ==
  CASE rounding = "ROUND_HALF_UP_TO_CENT" -> exact - 5000 < 10000 * d /\ 10000 * d <= exact + 5000
    [] OTHER -> exact - 10000 < 10000 * d /\ 10000 * d <= exact

LEMMA BandSays ==
  ASSUME NEW eligible, NEW benefit, benefit.type = "PERCENT", BenefitSchema(benefit),
         PercentValid(eligible, benefit), NEW band, band = PercentDiscount(eligible, benefit),
         NEW exact, exact = eligible * benefit.bps
  PROVE  /\ exact \in Nat /\ band.value \in Nat /\ band.upper \in Nat
         /\ band.value <= band.upper /\ band.upper <= band.value + 1
         /\ Says(benefit.rounding, exact, band.value)
         /\ 10000 * band.value <= exact + 5000
PROOF
<1>1. PICK bps : bps = benefit.bps
  OBVIOUS
<1>2. eligible \in Nat /\ bps \in Nat
  BY <1>1, PercentFields
<1>3. exact \in Nat /\ exact = eligible * bps
  BY <1>1, <1>2
<1>4. PICK low, high \in Nat :
        /\ low = exact \div 10000 /\ high = (exact + 5000) \div 10000
        /\ low <= high /\ high <= low + 1
        /\ exact - 10000 < 10000 * low /\ 10000 * low <= exact
        /\ exact - 5000 < 10000 * high /\ 10000 * high <= exact + 5000
  BY <1>3, Rounded
<1>5. benefit.rounding \in {"FLOOR_TO_CENT", "ROUND_HALF_UP_TO_CENT", "UNKNOWN"}
  BY DEF BenefitSchema, PercentValid
<1>6. CASE benefit.rounding = "FLOOR_TO_CENT"
  <2>1. band.value = low /\ band.upper = low
    BY <1>1, <1>3, <1>4, <1>6 DEF PercentDiscount, Floor, HalfUp
  <2> QED
    BY <1>3, <1>4, <1>6, <2>1 DEF Says
<1>7. CASE benefit.rounding = "ROUND_HALF_UP_TO_CENT"
  <2>1. band.value = high /\ band.upper = high
    BY <1>1, <1>3, <1>4, <1>7 DEF PercentDiscount, Floor, HalfUp
  <2> QED
    BY <1>3, <1>4, <1>7, <2>1 DEF Says
<1>8. CASE benefit.rounding = "UNKNOWN"
  <2>1. band.value = low /\ band.upper = high
    BY <1>1, <1>3, <1>4, <1>8 DEF PercentDiscount, Floor, HalfUp
  <2> QED
    BY <1>3, <1>4, <1>8, <2>1 DEF Says
<1> QED
  BY <1>5, <1>6, <1>7, <1>8

LEMMA PercentIsAsSaid ==
  ASSUME NEW rule, NEW ctx, rule.benefit.type = "PERCENT", BenefitSchema(rule.benefit),
         ctx.bill \in Optional(Centimos), rule.cap \in Optional(CapSchema),
         NEW econ, econ = SettlePercent(rule, ctx), econ.state = "RANKABLE"
  PROVE  PercentAsSaid(rule, ctx, econ)
PROOF
<1>1. PICK eligible : eligible = SelectorQuantity(rule.selector, ctx)
  OBVIOUS
<1>2. PICK band : band = PercentDiscount(eligible, rule.benefit)
  OBVIOUS
<1>3. None \notin {eligible, ctx.bill} /\ PercentValid(eligible, rule.benefit)
  BY <1>1 DEF SettlePercent, Outcome
<1>4. ~CapOpen(rule)
  BY <1>1, <1>3 DEF SettlePercent, Outcome, CapOpen
<1>5. PICK value, upper, exact, rounding :
        /\ value = band.value /\ upper = band.upper /\ exact = eligible * rule.benefit.bps
        /\ rounding = rule.benefit.rounding
  OBVIOUS
<1>6. /\ exact \in Nat /\ value \in Nat /\ upper \in Nat
      /\ value <= upper /\ upper <= value + 1
      /\ Says(rounding, exact, value) /\ 10000 * value <= exact + 5000
  BY <1>2, <1>3, <1>5, BandSays
<1>7. PICK bill : bill = ctx.bill /\ bill \in Int
  BY <1>3, MaxSafeAssumption DEF Optional, Centimos
<1>8. PICK a, b : a = ApplyKnownCap(value, rule.cap) /\ b = ApplyKnownCap(upper, rule.cap)
  OBVIOUS
<1>9. econ = Cost(bill - a, bill - b)
  BY <1>1, <1>2, <1>3, <1>4, <1>5, <1>7, <1>8 DEF SettlePercent, CapOpen
<1>10. econ.cost = bill - a /\ econ.lowest = bill - b
  BY <1>9, CostFields
<1>11. /\ a \in Int /\ b \in Int /\ a <= b /\ b <= a + 1
       /\ Says(rounding, exact, a) \/ (rule.cap # None /\ a = rule.cap.centimos /\ 10000 * a <= exact)
       /\ rule.cap # None => a <= rule.cap.centimos
  <2>1. CASE rule.cap = None
    BY <1>6, <1>8, <2>1 DEF ApplyKnownCap
  <2>2. CASE rule.cap # None
    <3>1. PICK cap : cap = rule.cap.centimos /\ cap \in Int /\ rule.cap.kind = "AMOUNT"
      BY <1>4, <2>2, MaxSafeAssumption DEF CapOpen, Optional, CapSchema, Centimos
    <3>2. a = Lesser(value, cap) /\ b = Lesser(upper, cap)
      BY <1>8, <2>2, <3>1 DEF ApplyKnownCap
    <3>3. a \in Int /\ b \in Int /\ a <= b /\ b <= a + 1 /\ a <= cap
      BY <1>6, <3>1, <3>2 DEF Lesser
    <3>4. a = value \/ (a = cap /\ 10000 * a <= exact)
      BY <1>6, <3>1, <3>2 DEF Lesser
    <3> QED
      BY <1>6, <2>2, <3>1, <3>3, <3>4
  <2> QED
    BY <2>1, <2>2
<1>12. ctx.bill - econ.cost = a /\ ctx.bill - econ.lowest = b
  BY <1>7, <1>10, <1>11
<1>13. b \in a .. a + 1
  BY <1>11
<1>14. PICK capped : capped = IF rule.cap = None THEN {} ELSE {rule.cap.centimos}
  OBVIOUS
<1>15. /\ Says(rounding, exact, a) \/ (a \in capped /\ 10000 * a <= exact)
       /\ \A c \in capped : a <= c
  BY <1>11, <1>14
<1>16. exact = SelectorQuantity(rule.selector, ctx) * rule.benefit.bps
  BY <1>1, <1>5
<1>17. CASE rounding = "ROUND_HALF_UP_TO_CENT"
  <2>1. \/ exact - 5000 < 10000 * a /\ 10000 * a <= exact + 5000
        \/ a \in capped /\ 10000 * a <= exact
    BY <1>15, <1>17 DEF Says
  <2> QED
    BY <1>5, <1>12, <1>13, <1>14, <1>15, <1>16, <1>17, <2>1 DEF PercentAsSaid
<1>18. CASE rounding # "ROUND_HALF_UP_TO_CENT"
  <2>1. \/ exact - 10000 < 10000 * a /\ 10000 * a <= exact
        \/ a \in capped /\ 10000 * a <= exact
    BY <1>15, <1>18 DEF Says
  <2> QED
    BY <1>5, <1>12, <1>13, <1>14, <1>15, <1>16, <1>18, <2>1 DEF PercentAsSaid
<1> QED
  BY <1>17, <1>18

LEMMA CountIsNumber ==
  ASSUME NEW q, RequestShape(q)
  PROVE  Context(q).ticketCount \in Nat \cup {None}
PROOF
<1> DEFINE sig == q.signature
<1>1. /\ sig.kind \in DOMAIN SignatureFields
      /\ DOMAIN sig = {"kind", "merchant", "channel", "branch"} \cup SignatureFields[sig.kind]
  BY DEF RequestShape, NormalizeSignature
<1>2. Context(q).ticketCount = IF "ticketCount" \in DOMAIN sig THEN sig.ticketCount ELSE None
  BY DEF Context, FlattenToPurchaseContext, ContextFields
<1>3. "ticketCount" \in DOMAIN sig => sig.kind = "TICKETS"
  BY <1>1 DEF SignatureFields
<1>4. sig.kind = "TICKETS" => Safe(sig.ticketCount)
  BY DEF RequestShape, NormalizeSignature
<1> QED
  BY <1>2, <1>3, <1>4, MaxSafeAssumption DEF Safe

LEMMA TicketsAsSaid ==
  ASSUME NEW rule, NEW ctx, rule.benefit.type = "TWO_FOR_ONE", BenefitSchema(rule.benefit),
         ctx.ticketCount \in Nat \cup {None},
         NEW econ, econ = SettleTwoForOne(rule, ctx), econ.state = "RANKABLE"
  PROVE  econ.cost = ctx.ticketPrice *
                       PaidOneByOne(ctx.ticketCount, rule.benefit.pay, rule.benefit.of)
PROOF
<1>1. PICK price, count, pay, of :
        /\ price = ctx.ticketPrice /\ count = ctx.ticketCount
        /\ pay = rule.benefit.pay /\ of = rule.benefit.of
  OBVIOUS
<1>2. None \notin {price, count} /\ 0 < pay /\ pay <= of
  BY <1>1 DEF SettleTwoForOne, Outcome
<1>3. pay \in Nat /\ of \in Nat /\ count \in Nat
  BY <1>1, <1>2 DEF BenefitSchema, Positive
<1>4. PaidOneByOne(count, pay, of) = PaidTickets(count, pay, of)
  BY <1>2, <1>3, TicketsAreCounted
<1>5. PICK due : due = price * PaidTickets(count, pay, of)
  OBVIOUS
<1>6. econ = Cost(due, due)
  BY <1>1, <1>2, <1>5 DEF SettleTwoForOne, SettleTickets
<1>7. econ.cost = due
  BY <1>6, CostFields
<1> QED
  BY <1>1, <1>4, <1>5, <1>7

LEMMA RankedIsSettled ==
  ASSUME NEW rule, NEW ctx, NEW econ, econ = ComputeEconomics(rule, ctx), econ.state = "RANKABLE"
  PROVE  /\ rule.benefit.type = "PERCENT" => econ = SettlePercent(rule, ctx)
         /\ rule.benefit.type = "TWO_FOR_ONE" => econ = SettleTwoForOne(rule, ctx)
PROOF
<1>1. econ = Settle(rule, ctx)
  BY DEF ComputeEconomics, Outcome
<1> QED
  BY <1>1 DEF Settle

LEMMA CostsInvariant == ASSUME EngineInv PROVE CostsAreAsSaid
PROOF
<1>1. PICK c, q, ctx : c = corpus /\ q = request /\ ctx = Context(q)
  OBVIOUS
<1>2. ParseCorpus(c) /\ LintCorpus(c) /\ RequestShape(q) /\ evaluation = Evaluation(c, q)
  BY <1>1 DEF EngineInv
<1>3. ASSUME NEW d \in evaluation.results, NEW w \in d.candidates, w.state = "RANKABLE"
      PROVE  /\ c.rules[w.rule].benefit.type = "PERCENT" =>
                  PercentAsSaid(c.rules[w.rule], ctx, w.econ)
             /\ c.rules[w.rule].benefit.type = "TWO_FOR_ONE" =>
                  w.econ.cost = ctx.ticketPrice *
                    PaidOneByOne(ctx.ticketCount, c.rules[w.rule].benefit.pay,
                                 c.rules[w.rule].benefit.of)
  <2>1. PICK s \in Peopled(c, Relevant(c, q)) : d = DecisionAt(c, q, s)
    BY <1>2, Shown
  <2>2. s \in DOMAIN c.scopes /\ w \in Candidates(c, q, s)
    BY <2>1, Resolution DEF DecisionAt, Peopled, Relevant, OfMerchant
  <2>3. PICK in : in = Input(c, q)
    OBVIOUS
  <2>4. PICK r \in MembersOf(c, s) : w = Assess(r, c.scopes[s], in)
    BY <2>2, <2>3 DEF Candidates
  <2>5. PICK rule : rule = c.rules[r]
    OBVIOUS
  <2>6. /\ in.rules[r] = rule /\ in.context = ctx /\ RuleSchema(rule) /\ BenefitSchema(rule.benefit)
        /\ in.ops[r].source \in SourceQualityStates
    BY <1>1, <1>2, <2>2, <2>3, <2>5, MemberFacts DEF Context
  <2>7. PICK econ : econ = ComputeEconomics(rule, ctx)
    OBVIOUS
  <2>8. w.rule = r /\ w.econ = econ /\ econ.state = "RANKABLE"
    BY <1>3, <2>4, <2>6, <2>7, CandidateCases
  <2>9. rule.cap \in Optional(CapSchema)
    BY <2>6 DEF RuleSchema, ConstraintsSchema
  <2>10. ctx.bill \in Optional(Centimos) /\ ctx.ticketCount \in Nat \cup {None}
    BY <1>1, <1>2, BillIsAmount, CountIsNumber
  <2>11. ASSUME rule.benefit.type = "PERCENT" PROVE PercentAsSaid(rule, ctx, econ)
    BY <2>6, <2>7, <2>8, <2>9, <2>10, <2>11, RankedIsSettled, PercentIsAsSaid
  <2>12. ASSUME rule.benefit.type = "TWO_FOR_ONE"
         PROVE  econ.cost = ctx.ticketPrice *
                  PaidOneByOne(ctx.ticketCount, rule.benefit.pay, rule.benefit.of)
    BY <2>6, <2>7, <2>8, <2>10, <2>12, RankedIsSettled, TicketsAsSaid
  <2> QED
    BY <2>5, <2>8, <2>11, <2>12
<1> QED
  BY <1>1, <1>3 DEF CostsAreAsSaid, Context

(* A ranked cost of decide() is what the offer says: the percentage rounded  *)
(* as stated and within its cap, and the paid tickets as many as counting    *)
(* them one by one finds.                                                    *)
THEOREM CostsSaid == Spec => []CostsAreAsSaid
BY EngineInvariant, CostsInvariant, PTL
=============================================================================
