------------------------------ MODULE CorpusV1 -------------------------------
(* The corpus that is released: its 46 active rules, their operational       *)
(* states, its 30 purchase scopes and its merchants (src/src/corpus/data),   *)
(* the counts it must reconcile with (src/src/corpus/index.ts), and the      *)
(* holidays of Lima (src/src/study/holiday-fixture.ts).                      *)
(*                                                                           *)
(* Every row is the record of Offer. Rules are numbered in the order of      *)
(* their ids. Names lose the prefixes m_ and sc_; campaigns, versions,       *)
(* urls, reference prices and texts are left out, and of the eligibility     *)
(* classes only PROVIDER_PRIVATE is told apart, as in the engine.            *)
EXTENDS Offer, SequencesExt, TLC

dr(start, end) == [kind |-> "LOCAL_DATE_RANGE", from |-> start, to |-> end]

(* Only the end is stated: observed active on the day of the freeze, and no  *)
(* earlier start is invented.                                                *)
oau(observed, end) == [kind |-> "OBSERVED_ACTIVE_UNTIL", from |-> observed, to |-> end]

cap(centimos) == [kind |-> "AMOUNT", centimos |-> centimos]
CapUnknown == [kind |-> "UNKNOWN_NOT_STATED"]
pct(bps) == [type |-> "PERCENT", bps |-> bps, rounding |-> "FLOOR_TO_CENT"]
fprice(price) == [type |-> "FIXED_PRICE", price |-> price]
fbundle(price) == [type |-> "FIXED_BUNDLE", price |-> price]
twoForOne(pay, of) == [type |-> "TWO_FOR_ONE", pay |-> pay, of |-> of]
nominal(value, cash) ==
  [type |-> "NON_CASH_NOMINAL", value |-> value, unit |-> "CONEY_PLAY_BALANCE",
   acquisition |-> cash]
Item(key, qty) == [key |-> key, qty |-> qty]

(* What a row says unless it says otherwise, and what no row says.           *)
Unstated ==
  [cap |-> None, weekdays |-> {}, include |-> {}, exclude |-> {}, stock |-> FALSE,
   network |-> None, membership |-> None, privateKey |-> None, class |-> "PUBLIC",
   confidence |-> "HIGH", combinability |-> "NO", items |-> None, ticket |-> None,
   window |-> None, blackout |-> {}, minimum |-> None, products |-> {}, tier |-> None,
   verifiable |-> FALSE]
mk(i) == i @@ Unstated

(* A rule without known stock awaits a word on its availability.             *)
Operational(rule) ==
  [publication |-> "ACTIVE", source |-> "FRESH",
   availability |-> IF rule.stock THEN "UNKNOWN" ELSE "NOT_APPLICABLE"]

(* The purchases that rows are about.                                        *)
Purchase(merchants, scopes, kind, selector) ==
  [merchants |-> merchants, scopes |-> scopes, signatureKind |-> kind, selector |-> selector]
Sku(merchant, scope, items) ==
  Purchase({merchant}, {scope}, "EXACT_BUNDLE", "EXACT_SKU_BUNDLE") @@ [items |-> items]
Tickets(merchant, scope, count, class) ==
  Purchase({merchant}, {scope}, "TICKETS", "TICKET_UNIT")
  @@ [ticket |-> [count |-> count, class |-> class]]
Bill(merchant, scope, selector) == Purchase({merchant}, {scope}, "ELIGIBLE_BILL", selector)
Play(merchants, scopes) == Purchase(merchants, scopes, "NOMINAL_PACKAGE", "EXACT_SKU_BUNDLE")

(* Mutant: a year mistyped.                                                  *)
ThirdQuarterMistyped == dr(20280701, 20280930)

ThirdQuarter == dr(20260701, 20260930)
Salon == {"SALON"}
SalonOrTakeaway == {"SALON", "TAKEAWAY"}
-----------------------------------------------------------------------------
BacoYVacaRules == <<
  \* BV-BCP-01
  mk([family |-> "BCP_QORE", benefit |-> pct(2000), cap |-> cap(10000),
      temporal |-> ThirdQuarter, holiday |-> "EXCLUDED", channels |-> Salon]
     @@ Bill("baco_y_vaca", "baco_bill", "WHOLE_BILL")),
  \* BV-DIN-01
  mk([family |-> "DINERS", benefit |-> pct(2000), cap |-> cap(10000),
      temporal |-> dr(20260101, 20261230), holiday |-> "SPECIFIC_DATES",
      channels |-> {"SALON", "TAKEAWAY", "DELIVERY"}]
     @@ Bill("baco_y_vaca", "baco_bill", "WHOLE_BILL")),
  \* BV-IBK-01
  mk([family |-> "IBK_PLIN", benefit |-> pct(2000), cap |-> CapUnknown,
      temporal |-> dr(20260701, 20261231), holiday |-> "UNKNOWN",
      channels |-> {"SALON", "PICKUP", "DELIVERY"}, include |-> {"listed"},
      confidence |-> "MEDIUM"] @@ Bill("baco_y_vaca", "baco_bill", "WHOLE_BILL")),
  \* BV-SIP-01
  mk([family |-> "SIP_OH", benefit |-> pct(2000), cap |-> cap(10000),
      temporal |-> dr(20260101, 20260930), holiday |-> "UNKNOWN", channels |-> Salon]
     @@ Bill("baco_y_vaca", "baco_bill", "WHOLE_BILL")) >>

CineplanetRules == <<
  \* CIN-BCP-01
  mk([family |-> "BCP_QORE", benefit |-> pct(5000), temporal |-> dr(20260815, 20270815),
      holiday |-> "SPECIFIC_DATES", channels |-> {"WEB_APP"}, network |-> "AMEX",
      membership |-> "socio_cineplanet"]
     @@ Tickets("cineplanet", "cineplanet_ticket", 1, "ELIGIBLE_FORMAT")),
  \* CIN-IBK-01
  mk([family |-> "IBK_PLIN", benefit |-> pct(5000), temporal |-> dr(20260815, 20270815),
      holiday |-> "UNKNOWN", channels |-> {"WEB_APP"}, network |-> "AMEX",
      membership |-> "socio_cineplanet"]
     @@ Tickets("cineplanet", "cineplanet_ticket", 1, "ELIGIBLE_FORMAT")) >>

ConeyRules == <<
  \* CON-DIN-A-01
  mk([family |-> "DINERS", benefit |-> nominal(8600, 4500), temporal |-> dr(20260512, 20261231),
      holiday |-> "UNKNOWN", channels |-> {"PICKUP"}, weekdays |-> {1, 2, 3, 4, 5}]
     @@ Play({"coney_active"}, {"coney_active_play"})),
  \* CON-DIN-P-01
  mk([family |-> "DINERS", benefit |-> nominal(8500, 4500), temporal |-> dr(20260512, 20261231),
      holiday |-> "UNKNOWN", channels |-> {"PICKUP"}, weekdays |-> {1, 2, 3, 4, 5}]
     @@ Play({"coney_park"}, {"coney_park_play"})),
  \* CON-SIP-01
  mk([family |-> "SIP_OH", benefit |-> nominal(8500, 4500), temporal |-> dr(20260101, 20260930),
      holiday |-> "EXCLUDED", channels |-> {"PICKUP"}, weekdays |-> {1, 2, 3, 4, 5}]
     @@ Play({"coney_park", "coney_active"}, {"coney_park_play", "coney_active_play"})) >>

ChinawokRules == <<
  \* CW-BCP-01
  mk([family |-> "BCP_QORE", benefit |-> fbundle(2990), temporal |-> ThirdQuarter,
      holiday |-> "EXCLUDED", channels |-> Salon, exclude |-> {"airport", "jesus_maria"},
      stock |-> TRUE] @@ Sku("chinawok", "cw_2_mostrazos", <<Item("cw_mostrazo", 2)>>)),
  \* CW-BCP-02
  mk([family |-> "BCP_QORE", benefit |-> fbundle(1290), temporal |-> ThirdQuarter,
      holiday |-> "UNKNOWN", channels |-> Salon, stock |-> TRUE]
     @@ Sku("chinawok", "cw_encajate_2wantanes",
         <<Item("cw_encajate", 1), Item("cw_wantan", 2)>>)),
  \* CW-PLIN-01
  mk([family |-> "IBK_PLIN", benefit |-> fbundle(1590), temporal |-> ThirdQuarter,
      holiday |-> "UNKNOWN", channels |-> SalonOrTakeaway, exclude |-> {"selected"},
      stock |-> TRUE]
     @@ Sku("chinawok", "cw_chijaukay_alopobre",
         <<Item("cw_chijaukay_alopobre", 1), Item("cw_drink", 1)>>)),
  \* CW-PLIN-02
  mk([family |-> "IBK_PLIN", benefit |-> fbundle(1090), temporal |-> ThirdQuarter,
      holiday |-> "UNKNOWN", channels |-> SalonOrTakeaway, stock |-> TRUE]
     @@ Sku("chinawok", "cw_encajate_drink_wantan",
         <<Item("cw_encajate", 1), Item("cw_drink", 1), Item("cw_wantan", 1)>>)),
  \* CW-PLIN-03
  mk([family |-> "IBK_PLIN", benefit |-> fbundle(1990), temporal |-> ThirdQuarter,
      holiday |-> "UNKNOWN", channels |-> SalonOrTakeaway, stock |-> TRUE]
     @@ Sku("chinawok", "cw_tallarin_taypa",
         <<Item("cw_tallarin_taypa", 1), Item("cw_chaufa", 1), Item("cw_drink", 2)>>)),
  \* CW-SIP-01
  mk([family |-> "SIP_OH", benefit |-> fbundle(1690), temporal |-> oau(20260830, 20260930),
      holiday |-> "UNKNOWN", channels |-> Salon, exclude |-> {"selected"}, stock |-> TRUE]
     @@ Sku("chinawok", "cw_chijaukay_alopobre",
         <<Item("cw_chijaukay_alopobre", 1), Item("cw_drink", 1)>>)) >>

Embarcadero41Rules == <<
  \* EMB-DIN-01
  mk([family |-> "DINERS", benefit |-> pct(2000), cap |-> cap(10000),
      temporal |-> dr(20260128, 20261230), holiday |-> "EXCLUDED", channels |-> Salon,
      weekdays |-> {1, 2, 3, 4, 5}] @@ Bill("embarcadero_41", "embarcadero_food", "FOOD_ONLY")),
  \* EMB-IBK-01
  mk([family |-> "IBK_PLIN", benefit |-> pct(1500), cap |-> cap(10000),
      temporal |-> oau(20260830, 20261231), holiday |-> "NONE",
      channels |-> {"SALON", "PICKUP"}]
     @@ Bill("embarcadero_41", "embarcadero_food", "FOOD_ONLY")) >>

FridaysRules == <<
  \* FR-IBK-01
  mk([family |-> "IBK_PLIN", benefit |-> pct(2500), cap |-> cap(10000),
      temporal |-> dr(20260701, 20261231), holiday |-> "EXCLUDED", channels |-> SalonOrTakeaway,
      stock |-> TRUE] @@ Bill("fridays", "fridays_food", "FOOD_ONLY")),
  \* FR-QORE-01
  mk([family |-> "BCP_QORE", benefit |-> pct(5000), cap |-> cap(10000),
      temporal |-> ThirdQuarter, holiday |-> "UNKNOWN", channels |-> SalonOrTakeaway,
      class |-> "PROVIDER_PRIVATE", privateKey |-> "qore_active"]
     @@ Bill("fridays", "fridays_food", "FOOD_ONLY")),
  \* FR-SIP-01
  mk([family |-> "SIP_OH", benefit |-> pct(2500), cap |-> cap(10000),
      temporal |-> dr(20260101, 20260930), holiday |-> "NONE", channels |-> SalonOrTakeaway,
      exclude |-> {"airport"}] @@ Bill("fridays", "fridays_food", "FOOD_ONLY")) >>

GranjaAzulRules == <<
  \* GA-BCP-01
  mk([family |-> "BCP_QORE", benefit |-> pct(2000), cap |-> cap(7000),
      temporal |-> ThirdQuarter, holiday |-> "SPECIFIC_DATES", channels |-> Salon,
      include |-> {"selected"}] @@ Bill("granja_azul", "granja_bill", "WHOLE_BILL")),
  \* GA-DIN-01
  mk([family |-> "DINERS", benefit |-> pct(2000), cap |-> cap(7000),
      temporal |-> dr(20260504, 20261231), holiday |-> "EXCLUDED", channels |-> Salon,
      weekdays |-> {1, 2, 3, 4, 5, 6}, include |-> {"selected"}]
     @@ Bill("granja_azul", "granja_bill", "WHOLE_BILL")),
  \* GA-IBK-01
  mk([family |-> "IBK_PLIN", benefit |-> pct(2000), cap |-> cap(7000),
      temporal |-> dr(20260701, 20261231), holiday |-> "UNKNOWN", channels |-> Salon,
      include |-> {"selected"}] @@ Bill("granja_azul", "granja_bill", "WHOLE_BILL")) >>

IsseiRules == <<
  \* ISS-DIN-01
  mk([family |-> "DINERS", benefit |-> pct(5000), temporal |-> dr(20260101, 20261231),
      holiday |-> "UNKNOWN", channels |-> SalonOrTakeaway, include |-> {"la_rotonda"}]
     @@ Bill("issei", "issei_menu", "FOOD_ONLY")),
  \* ISS-SIP-01
  mk([family |-> "SIP_OH", benefit |-> pct(5000), temporal |-> dr(20260101, 20260930),
      holiday |-> "UNKNOWN", channels |-> {"SALON", "TAKEAWAY", "DELIVERY"},
      include |-> {"la_rotonda"}] @@ Bill("issei", "issei_menu", "FOOD_ONLY")) >>

PerroquetRules == <<
  \* PER-BCP-01
  mk([family |-> "BCP_QORE", benefit |-> pct(2000), cap |-> cap(10000),
      temporal |-> ThirdQuarter, holiday |-> "EXCLUDED", channels |-> Salon]
     @@ Bill("perroquet", "perroquet_meal", "FOOD_PLUS_NONALCOHOLIC")),
  \* PER-DIN-01
  mk([family |-> "DINERS", benefit |-> pct(3000), cap |-> cap(10000),
      temporal |-> dr(20260123, 20261220), holiday |-> "EXCLUDED", channels |-> Salon]
     @@ Bill("perroquet", "perroquet_meal", "FOOD_ONLY")) >>

PapaJohnsRules == <<
  \* PJ-BCP-01
  mk([family |-> "BCP_QORE", benefit |-> fprice(2090), temporal |-> ThirdQuarter,
      holiday |-> "EXCLUDED", channels |-> SalonOrTakeaway, stock |-> TRUE]
     @@ Sku("papa_johns", "pj_large_classic", <<Item("pj_large_classic", 1)>>)),
  \* PJ-PLIN-01
  mk([family |-> "IBK_PLIN", benefit |-> fprice(1390), temporal |-> ThirdQuarter,
      holiday |-> "EXCLUDED", channels |-> SalonOrTakeaway, exclude |-> {"airport"},
      stock |-> TRUE]
     @@ Sku("papa_johns", "pj_large_americana", <<Item("pj_large_americana", 1)>>)),
  \* PJ-PLIN-02
  mk([family |-> "IBK_PLIN", benefit |-> fbundle(1590), temporal |-> ThirdQuarter,
      holiday |-> "UNKNOWN", channels |-> SalonOrTakeaway, stock |-> TRUE]
     @@ Sku("papa_johns", "pj_papabox", <<Item("pj_papabox", 1)>>)),
  \* PJ-PLIN-03
  mk([family |-> "IBK_PLIN", benefit |-> fprice(890), temporal |-> ThirdQuarter,
      holiday |-> "UNKNOWN", channels |-> SalonOrTakeaway, stock |-> TRUE]
     @@ Sku("papa_johns", "pj_medium_hawaiian", <<Item("pj_medium_hawaiian", 1)>>)),
  \* PJ-SIP-01
  mk([family |-> "SIP_OH", benefit |-> fbundle(990), temporal |-> oau(20260830, 20260930),
      holiday |-> "UNKNOWN", channels |-> SalonOrTakeaway, stock |-> TRUE]
     @@ Sku("papa_johns", "pj_medium_bundle", <<Item("pj_medium_sides_bundle", 1)>>)) >>

PopeyesRules == <<
  \* POP-BCP-01
  mk([family |-> "BCP_QORE", benefit |-> fbundle(3990), temporal |-> ThirdQuarter,
      holiday |-> "EXCLUDED", channels |-> SalonOrTakeaway, stock |-> TRUE]
     @@ Sku("popeyes", "pop_6pcs_family_potato",
         <<Item("pop_chicken_piece", 6), Item("pop_family_potato", 1)>>)),
  \* POP-IBK-01
  mk([family |-> "IBK_PLIN", benefit |-> fbundle(3990), temporal |-> oau(20260830, 20260930),
      holiday |-> "UNKNOWN", channels |-> SalonOrTakeaway, exclude |-> {"selected"},
      stock |-> TRUE]
     @@ Sku("popeyes", "pop_5pcs_family_potato",
         <<Item("pop_chicken_piece", 5), Item("pop_family_potato", 1)>>)),
  \* POP-SIP-01
  mk([family |-> "SIP_OH", benefit |-> fbundle(1290), temporal |-> dr(20260301, 20260930),
      holiday |-> "UNKNOWN", channels |-> SalonOrTakeaway, stock |-> TRUE]
     @@ Sku("popeyes", "pop_2pcs_nuggets_potato",
         <<Item("pop_chicken_piece", 2), Item("pop_nuggets", 1), Item("pop_potato", 1)>>)),
  \* POP-SIP-02
  mk([family |-> "SIP_OH", benefit |-> fbundle(2990), temporal |-> dr(20260301, 20260930),
      holiday |-> "UNKNOWN", channels |-> SalonOrTakeaway, stock |-> TRUE]
     @@ Sku("popeyes", "pop_6pcs_family_potato",
         <<Item("pop_chicken_piece", 6), Item("pop_family_potato", 1)>>)) >>

UvkRules == <<
  \* UVK-DIN-01
  mk([family |-> "DINERS", benefit |-> fprice(990), temporal |-> dr(20260201, 20261231),
      holiday |-> "EXCLUDED", channels |-> {"BOX_OFFICE"}, weekdays |-> {1, 3, 4, 5},
      include |-> {"selected"}] @@ Tickets("uvk", "uvk_2tickets", 2, "STANDARD")),
  \* UVK-DIN-02
  mk([family |-> "DINERS", benefit |-> pct(2000), temporal |-> dr(20260201, 20261231),
      holiday |-> "UNKNOWN", channels |-> Salon, include |-> {"uvk_panorama"}]
     @@ Bill("uvk", "uvk_restobar", "WHOLE_BILL")),
  \* UVK-DIN-03
  mk([family |-> "DINERS", benefit |-> pct(2000), temporal |-> dr(20260201, 20261231),
      holiday |-> "EXCLUDED", channels |-> {"BOX_OFFICE"}, weekdays |-> {3, 6},
      include |-> {"selected"}] @@ Bill("uvk", "uvk_opera", "WHOLE_BILL")),
  \* UVK-IBK-01
  mk([family |-> "IBK_PLIN", benefit |-> twoForOne(1, 2), temporal |-> dr(20260715, 20261231),
      holiday |-> "EXCLUDED", channels |-> {"BOX_OFFICE"}, weekdays |-> {0, 1, 3, 4, 5, 6},
      include |-> {"selected"}] @@ Tickets("uvk", "uvk_2tickets", 2, "STANDARD")),
  \* UVK-IBK-02
  mk([family |-> "IBK_PLIN", benefit |-> pct(2000), temporal |-> dr(20260715, 20261231),
      holiday |-> "EXCLUDED", channels |-> {"BOX_OFFICE"}, weekdays |-> {0, 1, 3, 4, 5, 6}]
     @@ Bill("uvk", "uvk_combos", "WHOLE_BILL")) >>

VillaChickenRules == <<
  \* VC-DIN-01
  mk([family |-> "DINERS", benefit |-> fbundle(8090), temporal |-> dr(20260101, 20261231),
      holiday |-> "SPECIFIC_DATES", channels |-> Salon]
     @@ Sku("villa_chicken", "villa_whole_chicken",
         <<Item("vc_whole_chicken", 1), Item("vc_fries", 1), Item("vc_natural_drink", 1)>>)),
  \* VC-DIN-02
  mk([family |-> "DINERS", benefit |-> fbundle(8490), temporal |-> dr(20260101, 20261231),
      holiday |-> "UNKNOWN", channels |-> {"TAKEAWAY", "DELIVERY"}]
     @@ Sku("villa_chicken", "villa_chicken_soda_takeaway",
         <<Item("vc_whole_chicken", 1), Item("vc_fries", 1), Item("vc_soda_1_5l", 1)>>)),
  \* VC-IBK-01
  mk([family |-> "IBK_PLIN", benefit |-> fbundle(7590), temporal |-> dr(20260701, 20261230),
      holiday |-> "EXCLUDED", channels |-> Salon, include |-> {"selected"},
      confidence |-> "MEDIUM"]
     @@ Sku("villa_chicken", "villa_whole_chicken",
         <<Item("vc_whole_chicken", 1), Item("vc_fries", 1), Item("vc_natural_drink", 1)>>)),
  \* VC-IBK-02
  mk([family |-> "IBK_PLIN", benefit |-> fbundle(9390), temporal |-> dr(20260701, 20261230),
      holiday |-> "EXCLUDED", channels |-> Salon, include |-> {"selected"},
      confidence |-> "MEDIUM"]
     @@ Sku("villa_chicken", "villa_chicken_anticuchos",
         <<Item("vc_whole_chicken", 1), Item("vc_fries", 1), Item("vc_anticuchos", 1),
           Item("vc_drink", 1)>>)),
  \* VC-QORE-01
  mk([family |-> "BCP_QORE", benefit |-> pct(5000), cap |-> cap(10000),
      temporal |-> ThirdQuarter, holiday |-> "SPECIFIC_DATES", channels |-> Salon,
      class |-> "PROVIDER_PRIVATE", privateKey |-> "qore_active"]
     @@ Bill("villa_chicken", "villa_alacarte", "WHOLE_BILL")) >>

BuiltV1 ==
  BacoYVacaRules \o CineplanetRules \o ConeyRules \o ChinawokRules \o Embarcadero41Rules
  \o FridaysRules \o GranjaAzulRules \o IsseiRules \o PerroquetRules \o PapaJohnsRules
  \o PopeyesRules \o UvkRules \o VillaChickenRules

(* Excluded history, which is no candidate: the Sip offer for Cineplanet     *)
(* that ended while the corpus was written. Its id, CIN-SIP-STALE, is none   *)
(* of those that are numbered: 0.                                            *)
StaleCineplanetSip ==
  mk([family |-> "SIP_OH", benefit |-> fprice(990), temporal |-> dr(20260101, 20260826),
      holiday |-> "UNKNOWN", channels |-> {"WEB_APP"}]
     @@ Tickets("cineplanet", "cineplanet_ticket", 1, "ELIGIBLE_FORMAT"))
ExcludedRules ==
  {[id |-> 0, rule |-> StaleCineplanetSip,
    operational |-> [Operational(StaleCineplanetSip) EXCEPT
                       !.publication = "QUARANTINED", !.source = "CONFLICTED"]]}
-----------------------------------------------------------------------------
Scope(merchant, kind, selectors, context, facts) ==
  [merchant |-> merchant, selectors |-> selectors,
   basis |-> IF kind = "NOMINAL_PACKAGE" THEN "NOMINAL" ELSE "COST",
   requiredContext |-> context \cup {"DATE_TIME"},
   signature |-> [kind |-> kind, merchant |-> merchant] @@ facts]
BundleScope(merchant, context, items) ==
  Scope(merchant, "EXACT_BUNDLE", {"EXACT_SKU_BUNDLE"}, context, [items |-> items])
TicketScope(merchant, count, class, context) ==
  Scope(merchant, "TICKETS", {"TICKET_UNIT"}, context, [count |-> count, class |-> class])
BillScope(merchant, domain, selectors, context) ==
  Scope(merchant, "ELIGIBLE_BILL", selectors, context, [domain |-> domain])
PlayScope(merchant, cash) ==
  Scope(merchant, "NOMINAL_PACKAGE", {"EXACT_SKU_BUNDLE"}, {"CHANNEL"},
        [acquisition |-> cash, unit |-> "CONEY_PLAY_BALANCE"])

PapaJohnsScopes == [
  pj_large_classic |-> BundleScope("papa_johns", {"BASKET", "CHANNEL"},
    <<Item("pj_large_classic", 1)>>),
  pj_large_americana |-> BundleScope("papa_johns", {"BASKET", "CHANNEL", "LOCATION_OR_BRANCH"},
    <<Item("pj_large_americana", 1)>>),
  pj_papabox |-> BundleScope("papa_johns", {"BASKET", "CHANNEL"}, <<Item("pj_papabox", 1)>>),
  pj_medium_hawaiian |-> BundleScope("papa_johns", {"BASKET", "CHANNEL"},
    <<Item("pj_medium_hawaiian", 1)>>),
  pj_medium_bundle |-> BundleScope("papa_johns", {"BASKET", "CHANNEL"},
    <<Item("pj_medium_sides_bundle", 1)>>)]

ChinawokScopes == [
  cw_chijaukay_alopobre |-> BundleScope("chinawok", {"BASKET", "CHANNEL", "LOCATION_OR_BRANCH"},
    <<Item("cw_chijaukay_alopobre", 1), Item("cw_drink", 1)>>),
  cw_2_mostrazos |-> BundleScope("chinawok", {"BASKET", "CHANNEL", "LOCATION_OR_BRANCH"},
    <<Item("cw_mostrazo", 2)>>),
  cw_encajate_2wantanes |-> BundleScope("chinawok", {"BASKET", "CHANNEL"},
    <<Item("cw_encajate", 1), Item("cw_wantan", 2)>>),
  cw_encajate_drink_wantan |-> BundleScope("chinawok", {"BASKET", "CHANNEL"},
    <<Item("cw_encajate", 1), Item("cw_drink", 1), Item("cw_wantan", 1)>>),
  cw_tallarin_taypa |-> BundleScope("chinawok", {"BASKET", "CHANNEL"},
    <<Item("cw_tallarin_taypa", 1), Item("cw_chaufa", 1), Item("cw_drink", 2)>>)]

PopeyesScopes == [
  pop_6pcs_family_potato |-> BundleScope("popeyes", {"BASKET", "CHANNEL"},
    <<Item("pop_chicken_piece", 6), Item("pop_family_potato", 1)>>),
  pop_5pcs_family_potato |-> BundleScope("popeyes", {"BASKET", "CHANNEL", "LOCATION_OR_BRANCH"},
    <<Item("pop_chicken_piece", 5), Item("pop_family_potato", 1)>>),
  pop_2pcs_nuggets_potato |-> BundleScope("popeyes", {"BASKET", "CHANNEL"},
    <<Item("pop_chicken_piece", 2), Item("pop_nuggets", 1), Item("pop_potato", 1)>>)]

VillaChickenScopes == [
  villa_whole_chicken |-> BundleScope("villa_chicken",
    {"BASKET", "CHANNEL", "LOCATION_OR_BRANCH"},
    <<Item("vc_whole_chicken", 1), Item("vc_fries", 1), Item("vc_natural_drink", 1)>>),
  villa_chicken_anticuchos |-> BundleScope("villa_chicken",
    {"BASKET", "CHANNEL", "LOCATION_OR_BRANCH"},
    <<Item("vc_whole_chicken", 1), Item("vc_fries", 1), Item("vc_anticuchos", 1),
      Item("vc_drink", 1)>>),
  villa_chicken_soda_takeaway |-> BundleScope("villa_chicken", {"BASKET", "CHANNEL"},
    <<Item("vc_whole_chicken", 1), Item("vc_fries", 1), Item("vc_soda_1_5l", 1)>>)]

TicketScopes == [
  uvk_2tickets |-> TicketScope("uvk", 2, "STANDARD",
    {"TICKET_PRICE", "CHANNEL", "LOCATION_OR_BRANCH"}),
  cineplanet_ticket |-> TicketScope("cineplanet", 1, "ELIGIBLE_FORMAT",
    {"AMOUNT", "TICKET_PRICE", "CHANNEL"})]

PlayScopes == [
  coney_park_play |-> PlayScope("coney_park", 4500),
  coney_active_play |-> PlayScope("coney_active", 4500)]

BillScopes == [
  baco_bill |-> BillScope("baco_y_vaca", "RESTAURANT_BILL", {"WHOLE_BILL"},
    {"AMOUNT", "CHANNEL", "LOCATION_OR_BRANCH"}),
  granja_bill |-> BillScope("granja_azul", "RESTAURANT_BILL", {"WHOLE_BILL"},
    {"AMOUNT", "CHANNEL", "LOCATION_OR_BRANCH"}),
  fridays_food |-> BillScope("fridays", "RESTAURANT_FOOD", {"FOOD_ONLY"},
    {"AMOUNT", "BASKET", "CHANNEL", "LOCATION_OR_BRANCH"}),
  embarcadero_food |-> BillScope("embarcadero_41", "RESTAURANT_FOOD", {"FOOD_ONLY"},
    {"AMOUNT", "BASKET", "CHANNEL"}),
  issei_menu |-> BillScope("issei", "RESTAURANT_FOOD", {"FOOD_ONLY"},
    {"AMOUNT", "BASKET", "CHANNEL", "LOCATION_OR_BRANCH"}),
  perroquet_meal |-> BillScope("perroquet", "SIT_DOWN_MEAL",
    {"FOOD_ONLY", "FOOD_PLUS_NONALCOHOLIC"},
    {"AMOUNT", "BASKET", "CHANNEL"}),
  uvk_combos |-> BillScope("uvk", "CINEMA_CANDYBAR", {"WHOLE_BILL"}, {"AMOUNT", "CHANNEL"}),
  uvk_restobar |-> BillScope("uvk", "UVK_RESTOBAR", {"WHOLE_BILL"},
    {"AMOUNT", "CHANNEL", "LOCATION_OR_BRANCH"}),
  uvk_opera |-> BillScope("uvk", "UVK_OPERA", {"WHOLE_BILL"},
    {"AMOUNT", "CHANNEL", "LOCATION_OR_BRANCH"}),
  villa_alacarte |-> BillScope("villa_chicken", "VILLA_A_LA_CARTE", {"WHOLE_BILL"},
    {"AMOUNT", "CHANNEL"})]

ScopesV1 ==
  PapaJohnsScopes @@ ChinawokScopes @@ PopeyesScopes @@ VillaChickenScopes @@ TicketScopes
  @@ PlayScopes @@ BillScopes

FoodMerchants ==
  {"papa_johns", "chinawok", "baco_y_vaca", "granja_azul", "fridays",
   "popeyes", "embarcadero_41", "issei", "perroquet", "villa_chicken"}
EntertainmentMerchants == {"uvk", "cineplanet", "coney_park", "coney_active"}

ActiveRules == DOMAIN BuiltV1
LoadCorpus ==
  [rules |-> BuiltV1, ops |-> [r \in ActiveRules |-> Operational(BuiltV1[r])], scopes |-> ScopesV1]

(* The counts that the corpus was frozen with, but for those of the research *)
(* notes, and no excluded row in it.                                         *)
OfFamily(family) == {r \in ActiveRules : BuiltV1[r].family = family}
Private == {r \in ActiveRules : BuiltV1[r].class = "PROVIDER_PRIVATE"}
ReconcileCorpus ==
  /\ Len(BuiltV1) = 46
  /\ Cardinality(FoodMerchants) = 10 /\ Cardinality(EntertainmentMerchants) = 4
  /\ [f \in {"IBK_PLIN", "DINERS", "BCP_QORE", "SIP_OH"} |-> Cardinality(OfFamily(f))]
       = [IBK_PLIN |-> 16, DINERS |-> 12, BCP_QORE |-> 10, SIP_OH |-> 8]
  /\ Cardinality(Private) = 2
  /\ StaleCineplanetSip \notin {BuiltV1[r] : r \in ActiveRules}
-----------------------------------------------------------------------------
(* The holidays of the fixture, and the dates it covers.                     *)
HolidaysV1 ==
  {20260101, 20260402, 20260403, 20260501, 20260607, 20260629, 20260723,
   20260728, 20260729, 20260806, 20260830, 20261008, 20261101, 20261208,
   20261209, 20261225, 20270101, 20270325, 20270326, 20270501, 20270607,
   20270629, 20270723, 20270728, 20270729, 20270806, 20270830, 20271008,
   20271101, 20271208, 20271209, 20271225}
CoverageV1 == [from |-> 20260101, to |-> 20271231]
=============================================================================
