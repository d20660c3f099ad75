------------------------------ MODULE MCEngine -------------------------------
(* An instance of Engine for TLC: one merchant with a bill, a ticket, a      *)
(* bundle and a play-balance scope, a menu of offers that pose one question  *)
(* each, and every corpus of three of them.                                  *)
EXTENDS Engine, TLC

(* Noon in Lima on the first of September of 2026.                           *)
Noon == 20697 * 86400 + 17 * 3600
Today == 20260901
Always == [kind |-> "OBSERVED_ACTIVE_UNTIL", from |-> 20260830, to |-> Today]

Scope(kind, basis, selectors, facts) ==
  [merchant |-> "uvk", basis |-> basis, selectors |-> selectors,
   requiredContext |-> {"AMOUNT", "BASKET", "TICKET_PRICE", "CHANNEL", "LOCATION_OR_BRANCH", "DATE_TIME"},
   signature |-> [kind |-> kind, merchant |-> "uvk"] @@ facts]
Bundle == <<[key |-> "pizza", qty |-> 1], [key |-> "soda", qty |-> 2]>>
MCScopes ==
  [bill |-> Scope("ELIGIBLE_BILL", "COST", {"WHOLE_BILL", "FOOD_ONLY"}, [domain |-> "combos"]),
   tickets |-> Scope("TICKETS", "COST", {"TICKET_UNIT"}, [count |-> 3, class |-> "2D"]),
   bundle |-> Scope("EXACT_BUNDLE", "COST", {"EXACT_SKU_BUNDLE"}, [items |-> Bundle]),
   play |-> Scope("NOMINAL_PACKAGE", "NOMINAL", {"WHOLE_BILL"}, [unit |-> "play", acquisition |-> 500])]

(* The base of the menu: a public rule without any restriction.              *)
Rule(scope, kind, selector, benefit) ==
  [merchants |-> {"uvk"}, family |-> "IBK", benefit |-> benefit, selector |-> selector,
   items |-> None, ticket |-> None, temporal |-> Always, weekdays |-> {}, window |-> None,
   holiday |-> "NONE", blackout |-> {}, minimum |-> None, cap |-> None, channels |-> {},
   include |-> {}, exclude |-> {}, products |-> {}, network |-> None, tier |-> None,
   membership |-> None, privateKey |-> None, verifiable |-> FALSE, combinability |-> "NO",
   class |-> "PUBLIC", confidence |-> "HIGH", scopes |-> {scope}, signatureKind |-> kind]
Op == [publication |-> "ACTIVE", source |-> "FRESH", availability |-> "NOT_APPLICABLE"]
Live(rule) == [rule |-> rule, op |-> Op]
Unsure(rule) == [rule |-> rule, op |-> [Op EXCEPT !.availability = "UNKNOWN"]]

Bill(benefit) == Rule("bill", "ELIGIBLE_BILL", "WHOLE_BILL", benefit)
Ticket(benefit) ==
  [Rule("tickets", "TICKETS", "TICKET_UNIT", benefit) EXCEPT !.ticket = [count |-> 3, class |-> "2D"]]
Percent(bps, rounding) == [type |-> "PERCENT", bps |-> bps, rounding |-> rounding]
Off(amount) == [type |-> "FIXED_DISCOUNT", discount |-> amount, amountDependent |-> FALSE]
Play(value) ==
  Rule("play", "NOMINAL_PACKAGE", "WHOLE_BILL",
       [type |-> "NON_CASH_NOMINAL", value |-> value, unit |-> "play", acquisition |-> 500])
Unstated == [kind |-> "UNKNOWN_NOT_STATED"]

(* On a bill of 1003 a fifth is 200.6: 803 by the floor, 802 rounded half up.*)
(* The last of the bill offers is one that the linter refuses.               *)
BillMenu == <<
  Live(Bill(Percent(2000, "UNKNOWN"))),
  Live([Bill(Percent(2000, "FLOOR_TO_CENT")) EXCEPT !.holiday = "EXCLUDED"]),
  Live([Bill(Percent(2000, "ROUND_HALF_UP_TO_CENT")) EXCEPT !.confidence = "MEDIUM"]),
  Unsure([Bill(Off(200)) EXCEPT !.verifiable = TRUE]),
  Unsure(Bill(Off(201))),
  Live([Bill(Percent(3000, "FLOOR_TO_CENT")) EXCEPT !.cap = Unstated]),
  Unsure([Bill(Percent(1000, "FLOOR_TO_CENT")) EXCEPT !.cap = Unstated]),
  Live([Bill(Off(300)) EXCEPT !.class = "PROVIDER_PRIVATE", !.privateKey = "qore"]),
  Live([Bill(Percent(5000, "FLOOR_TO_CENT")) EXCEPT
          !.selector = "FOOD_ONLY", !.channels = {"SALON"},
          !.minimum = [centimos |-> 400, basis |-> "FOOD_ONLY"]]),
  Live([Bill(Off(250)) EXCEPT !.membership = "socio"]),
  Live([Bill(Percent(2000, "FLOOR_TO_CENT")) EXCEPT !.holiday = "UNKNOWN", !.combinability = "UNKNOWN"]),
  Live([Bill(Off(2000)) EXCEPT !.channels = {"SALON"}]),
  Live([Bill(Off(300)) EXCEPT !.cap = Unstated]),
  Live([Bill(Off(200)) EXCEPT !.merchants = {"cineplanet"}]) >>

OtherMenu == <<
  Live(Ticket([type |-> "TWO_FOR_ONE", pay |-> 1, of |-> 2])),
  Unsure(Ticket([type |-> "FIXED_PRICE", price |-> 400])),
  Live(Play(900)),
  [Unsure(Play(800)) EXCEPT !.op.source = "CONFLICTED"],
  Live([Rule("bundle", "EXACT_BUNDLE", "EXACT_SKU_BUNDLE", [type |-> "FIXED_BUNDLE", price |-> 700])
          EXCEPT !.items = <<Bundle[2], Bundle[1]>>]),
  Live([Bill(Off(100)) EXCEPT !.channels = {"SALON"}]) >>

CorporaOf(menu) ==
  {[rules |-> [r \in 1 .. 3 |-> menu[pick[r]].rule], ops |-> [r \in 1 .. 3 |-> menu[pick[r]].op],
    scopes |-> MCScopes] :
     pick \in {p \in [1 .. 3 -> DOMAIN menu] : p[1] < p[2] /\ p[2] < p[3]}}

Card == [family |-> "IBK", network |-> "VISA", tier |-> None, memberships |-> {}]
Ask(signature, holidays) ==
  [signature |-> signature, at |-> Noon, holidays |-> holidays,
   portfolio |-> [instruments |-> {Card}, privateStates |-> <<>>, declarations |-> <<>>]]
Purchase(kind, facts) ==
  [kind |-> kind, merchant |-> "uvk", channel |-> None, branch |-> None] @@ facts
BillOf(food) == Purchase("BILL", [bill |-> 1003, food |-> food, beverage |-> None, domain |-> "combos"])
BillRequests ==
  {Ask(BillOf(500), {}), Ask([BillOf(300) EXCEPT !.channel = "SALON"], {Today})}
OtherRequests ==
  {Ask([BillOf(None) EXCEPT !.channel = "DELIVERY"], {}),
   Ask([BillOf(1200) EXCEPT !.channel = "SALON"], {}),
   Ask(Purchase("TICKETS", [ticketPrice |-> 650, ticketCount |-> 3, ticketClass |-> "2D"]), {}),
   Ask(Purchase("EXACT_ITEMS", [items |-> Bundle]), {}),
   Ask(Purchase("NOMINAL_PACKAGE", [package |-> [acquisition |-> 500, unit |-> "play"]]), {})}
MCCases ==
  [corpus : CorporaOf(BillMenu), request : BillRequests]
  \cup [corpus : CorporaOf(OtherMenu), request : OtherRequests]
=============================================================================
