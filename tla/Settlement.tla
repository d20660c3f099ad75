----------------------------- MODULE Settlement ------------------------------
(* What a rule makes a purchase cost: src/src/engine/money.ts and the        *)
(* economics of src/src/engine/decide.ts. Money is integer centimos.         *)
(*                                                                           *)
(* A purchase context is a record of merchant, channel, branch, bill, food,  *)
(* beverage, ticketPrice, ticketCount, ticketClass, items, domain and        *)
(* package, each None when it was not supplied. The outcome of economics is  *)
(* a record with a state: RANKABLE, REJECTED, MISSING_CONTEXT, UNKNOWN_CAP   *)
(* or THROWN (a SettlementInvariantError).                                   *)
EXTENDS Offer

(* MaxSafe stands for Number.MAX_SAFE_INTEGER.                               *)
CONSTANT MaxSafe
ASSUME MaxSafeAssumption == MaxSafe \in Nat

Safe(v) == v \in 0 .. MaxSafe

(* RoundHalfUp and Floor differ by at most one centimo; an UNKNOWN rounding  *)
(* is settled at the smaller discount and could be the larger one.           *)
Floor(eligible, bps) == (eligible * bps) \div 10000
HalfUp(eligible, bps) == (eligible * bps + 5000) \div 10000

BasisPoints == 1 .. 10000
PercentValid(eligible, benefit) ==
  /\ Safe(eligible)
  /\ benefit.bps \in BasisPoints
  /\ benefit.rounding # "EXACT_FIXED"

PercentDiscount(eligible, benefit) ==
  LET low == Floor(eligible, benefit.bps)
      high == HalfUp(eligible, benefit.bps)
  IN CASE benefit.rounding = "FLOOR_TO_CENT" -> [value |-> low, upper |-> low]
       [] benefit.rounding = "ROUND_HALF_UP_TO_CENT" -> [value |-> high, upper |-> high]
       [] benefit.rounding = "UNKNOWN" -> [value |-> low, upper |-> high]

Lesser(a, b) == IF a <= b THEN a ELSE b

(* Mutant: the cap is taken for the discount.                                *)
ApplyCapOutright(discount, cap) ==
  IF cap # None /\ cap.kind = "AMOUNT" THEN cap.centimos ELSE discount

ApplyKnownCap(discount, cap) ==
  IF cap # None /\ cap.kind = "AMOUNT" THEN Lesser(discount, cap.centimos) ELSE discount

(* Mutant: the tickets left over are free.                                   *)
PaidGroups(count, pay, of) == (count \div of) * pay

(* Of every "of" tickets "pay" are paid, what is left over is paid in full.  *)
PaidTickets(count, pay, of) == ((count \div of) * pay) + (count % of)
-----------------------------------------------------------------------------
SelectorQuantity(selector, ctx) ==
  CASE selector \in {"WHOLE_BILL", "EXACT_SKU_BUNDLE"} -> ctx.bill
    [] selector = "FOOD_ONLY" -> ctx.food
    [] selector = "FOOD_PLUS_NONALCOHOLIC" ->
         IF None \in {ctx.food, ctx.beverage} THEN None ELSE ctx.food + ctx.beverage
    [] selector = "TICKET_UNIT" ->
         IF None \in {ctx.ticketPrice, ctx.ticketCount} THEN None
         ELSE ctx.ticketPrice * ctx.ticketCount
    [] selector = "NON_EQUIVALENT_PURCHASE" -> None

(* The required context of the rule that this purchase does not supply. The  *)
(* items of a bundle are the business of the signature gate.                 *)
MissingContextFor(rule, ctx) ==
  LET quantity == SelectorQuantity(rule.selector, ctx)
  IN DeriveRequiredContext(rule) \cap
       (When(quantity = None /\ ctx.bill = None, "AMOUNT")
        \cup When(rule.selector # "EXACT_SKU_BUNDLE" /\ quantity = None, "BASKET")
        \cup When(None \in {ctx.ticketPrice, ctx.ticketCount}, "TICKET_PRICE")
        \cup When(ctx.channel = None, "CHANNEL")
        \cup When(ctx.branch = None, "LOCATION_OR_BRANCH"))

ContextMismatch(rule, ctx) ==
  \/ rule.channels # {} /\ ctx.channel # None /\ ctx.channel \notin rule.channels
  \/ rule.include # {} /\ ctx.branch # None /\ ctx.branch \notin rule.include
  \/ ctx.branch # None /\ ctx.branch \in rule.exclude

Outcome(state) ==
  [state |-> state, cost |-> None, lowest |-> None, value |-> None, unit |-> None,
   acquisition |-> None]

(* A cost that is not a safe amount is never ranked: the engine throws.      *)
Cost(cost, lowest) ==
  IF Safe(cost) THEN [Outcome("RANKABLE") EXCEPT !.cost = cost, !.lowest = lowest]
  ELSE Outcome("THROWN")

SettlePercent(rule, ctx) ==
  LET eligible == SelectorQuantity(rule.selector, ctx)
      band == PercentDiscount(eligible, rule.benefit)
  IN IF None \in {eligible, ctx.bill} THEN Outcome("MISSING_CONTEXT")
     ELSE IF ~PercentValid(eligible, rule.benefit) THEN Outcome("THROWN")
     ELSE IF rule.cap # None /\ rule.cap.kind = "UNKNOWN_NOT_STATED"
          THEN [Outcome("UNKNOWN_CAP") EXCEPT !.lowest = ctx.bill - band.upper]
     ELSE Cost(ctx.bill - ApplyKnownCap(band.value, rule.cap),
               ctx.bill - ApplyKnownCap(band.upper, rule.cap))

SettleFixedDiscount(rule, ctx) ==
  LET cost == ctx.bill - ApplyKnownCap(rule.benefit.discount, rule.cap)
  IN IF ctx.bill = None THEN Outcome("MISSING_CONTEXT") ELSE Cost(cost, cost)

SettleTickets(price, tickets) == Cost(price * tickets, price * tickets)

(* A fixed price is per ticket in a ticket scope, else of the whole bundle.  *)
SettleFixedPrice(rule, ctx) ==
  IF rule.selector # "TICKET_UNIT" THEN Cost(rule.benefit.price, rule.benefit.price)
  ELSE IF ctx.ticketCount = None THEN Outcome("MISSING_CONTEXT")
  ELSE SettleTickets(rule.benefit.price, ctx.ticketCount)

SettleTwoForOne(rule, ctx) ==
  LET b == rule.benefit
  IN IF None \in {ctx.ticketPrice, ctx.ticketCount} THEN Outcome("MISSING_CONTEXT")
     ELSE IF ~(0 < b.pay /\ b.pay <= b.of) THEN Outcome("THROWN")
     ELSE SettleTickets(ctx.ticketPrice, PaidTickets(ctx.ticketCount, b.pay, b.of))

(* A benefit in kind is not settled here: its value is compared, and checked *)
(* when it is ranked.                                                        *)
SettleNominal(b) ==
  [Outcome("RANKABLE") EXCEPT !.value = b.value, !.unit = b.unit, !.acquisition = b.acquisition]

NominalValid(econ) ==
  /\ econ.value > 0 /\ Safe(econ.value)
  /\ econ.acquisition # None => Safe(econ.acquisition)

(* Cashback comes later: it never lowers what is paid now.                   *)
Settle(rule, ctx) ==
  LET type == rule.benefit.type
  IN CASE type = "NON_CASH_NOMINAL" -> SettleNominal(rule.benefit)
       [] type = "PERCENT" -> SettlePercent(rule, ctx)
       [] type = "FIXED_DISCOUNT" -> SettleFixedDiscount(rule, ctx)
       [] type = "FIXED_PRICE" -> SettleFixedPrice(rule, ctx)
       [] type = "FIXED_BUNDLE" -> Cost(rule.benefit.price, rule.benefit.price)
       [] type = "TWO_FOR_ONE" -> SettleTwoForOne(rule, ctx)
       [] type = "CASHBACK" -> IF ctx.bill = None THEN Outcome("MISSING_CONTEXT")
                               ELSE Cost(ctx.bill, ctx.bill)

MinimumSpendMet(rule, ctx) ==
  SelectorQuantity(rule.minimum.basis, ctx) >= rule.minimum.centimos

ComputeEconomics(rule, ctx) ==
  IF rule.selector = "NON_EQUIVALENT_PURCHASE" \/ ContextMismatch(rule, ctx)
  THEN Outcome("REJECTED")
  ELSE IF \/ MissingContextFor(rule, ctx) # {}
          \/ rule.minimum # None /\ SelectorQuantity(rule.minimum.basis, ctx) = None
       THEN Outcome("MISSING_CONTEXT")
  ELSE IF rule.minimum # None /\ ~MinimumSpendMet(rule, ctx) THEN Outcome("REJECTED")
  ELSE Settle(rule, ctx)

(* The amounts of a context that the engine agrees to reason about.          *)
ContextMoneyValid(ctx) ==
  /\ \A v \in {ctx.bill, ctx.food, ctx.beverage, ctx.ticketPrice} \ {None} : Safe(v)
  /\ ctx.ticketCount # None => ctx.ticketCount > 0 /\ Safe(ctx.ticketCount)
  /\ ctx.package # None => Safe(ctx.package.acquisition)
  /\ ctx.bill # None =>
       /\ \A v \in {ctx.food, ctx.beverage} \ {None} : v <= ctx.bill
       /\ None \notin {ctx.food, ctx.beverage} => ctx.food + ctx.beverage <= ctx.bill
=============================================================================
