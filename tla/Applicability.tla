--------------------------- MODULE Applicability -----------------------------
(* Whether a rule applies to a purchase at all: the Lima calendar and the    *)
(* holiday policy (src/src/engine/time.ts), the tri-state eligibility of the *)
(* participant (src/src/engine/eligibility.ts), and whether the purchase is  *)
(* the one a scope compares (the signature gate of src/src/engine/decide.ts).*)
(*                                                                           *)
(* An instant is a number of seconds since the epoch, a civil date the       *)
(* number yyyymmdd, ordered as the strings are, a time of day a number of    *)
(* minutes.                                                                  *)
EXTENDS Settlement

LimaOffset == 5 * 3600
DayOf(t) == t \div 86400

(* What Date's UTC fields say of the day that many days after the epoch:     *)
(* the years counted from March, in eras of 400 years, so that the leap day  *)
(* is the last of its year.                                                  *)
CivilDate(days) ==
  LET era == (days + 719468) \div 146097
      day == (days + 719468) % 146097
      year == (day - day \div 1460 + day \div 36524 - day \div 146096) \div 365
      ofYear == day - (365 * year + year \div 4 - year \div 100)
      month == (5 * ofYear + 2) \div 153
      ofMonth == ofYear - (153 * month + 2) \div 5 + 1
  IN IF month < 10 THEN (era * 400 + year) * 10000 + (month + 3) * 100 + ofMonth
     ELSE (era * 400 + year + 1) * 10000 + (month - 9) * 100 + ofMonth

(* Mutant: the date of the instant itself, in UTC.                           *)
UtcDate(t) == CivilDate(DayOf(t))

LimaDate(t) == CivilDate(DayOf(t - LimaOffset))
LimaTime(t) == ((t - LimaOffset) % 86400) \div 60

(* The epoch was a Thursday; 0 is Sunday.                                    *)
LimaWeekday(t) == (DayOf(t - LimaOffset) + 4) % 7

(* Mutant: a range of dates ends when its last day begins.                   *)
WithinTemporalRangeExclusive(range, t) ==
  IF range.kind = "LOCAL_DATETIME_RANGE" THEN range.from <= t /\ t < range.to
  ELSE range.from <= LimaDate(t) /\ LimaDate(t) < range.to

(* A range of dates, stated or observed, includes its last Lima day; a range *)
(* of instants excludes its end.                                             *)
WithinTemporalRange(range, t) ==
  IF range.kind = "LOCAL_DATETIME_RANGE" THEN range.from <= t /\ t < range.to
  ELSE LimaDate(t) \in range.from .. range.to

WithinWeekdays(weekdays, t) == weekdays = {} \/ LimaWeekday(t) \in weekdays

WithinTimeWindow(window, t) == window # None => LimaTime(t) \in window.from .. window.to

(* An unknown holiday policy matters only on a holiday.                      *)
EvaluateHoliday(rule, t, holidays) ==
  LET date == LimaDate(t)
      holiday == date \in holidays
      blocked == \/ rule.holiday = "EXCLUDED" /\ holiday
                 \/ rule.holiday = "SPECIFIC_DATES" /\ date \in rule.blackout
  IN IF blocked THEN "BLOCKED"
     ELSE IF rule.holiday = "UNKNOWN" /\ holiday THEN "UNCERTAIN"
     ELSE "ALLOWED"
-----------------------------------------------------------------------------
(* A portfolio is [instruments, privateStates, declarations]: a set of cards *)
(* [family, network, tier, memberships] and two partial functions to YES, NO *)
(* and UNKNOWN. Facts are scoped to the provider: a card that contradicts a  *)
(* declaration wins, another provider's card proves nothing.                 *)
Declared(portfolio, fact) ==
  IF fact \in DOMAIN portfolio.declarations THEN portfolio.declarations[fact] ELSE "UNKNOWN"

ResolveCard(portfolio, family, field, required) ==
  LET cards == {i \in portfolio.instruments : i.family = family}
  IN IF \E i \in cards : i[field] = required THEN "YES"
     ELSE IF cards # {} /\ \A i \in cards : i[field] # None THEN "NO"
     ELSE Declared(portfolio, <<field, family, required>>)

ResolveMembership(portfolio, required) ==
  IF \E i \in portfolio.instruments : required \in i.memberships THEN "YES"
  ELSE Declared(portfolio, <<"membership", required>>)

PrivateState(rule, portfolio) ==
  IF rule.privateKey \in DOMAIN portfolio.privateStates
  THEN portfolio.privateStates[rule.privateKey] ELSE "UNKNOWN"

RequiredFacts(rule, portfolio) ==
  (IF rule.network \in {None, "ANY"} THEN {}
   ELSE {ResolveCard(portfolio, rule.family, "network", rule.network)})
  \cup (IF rule.tier = None THEN {}
        ELSE {ResolveCard(portfolio, rule.family, "tier", rule.tier)})
  \cup (IF rule.membership = None THEN {}
        ELSE {ResolveMembership(portfolio, rule.membership)})

(* A provider-private benefit is never better than something to verify; an   *)
(* undeclared fact is never taken for a yes.                                 *)
EvaluateEligibility(rule, portfolio) ==
  IF ~\E i \in portfolio.instruments : i.family = rule.family THEN "INELIGIBLE"
  ELSE IF rule.class = "PROVIDER_PRIVATE"
       THEN IF PrivateState(rule, portfolio) = "NO" THEN "INELIGIBLE" ELSE "PRIVATE"
  ELSE IF "NO" \in RequiredFacts(rule, portfolio) THEN "INELIGIBLE"
  ELSE IF "UNKNOWN" \in RequiredFacts(rule, portfolio) THEN "UNKNOWN"
  ELSE "ELIGIBLE"
-----------------------------------------------------------------------------
(* The purchase must be the one the scope compares, before any rule ranks:   *)
(* MISSING when it does not say enough to know.                              *)
SignatureFacts(sig) ==
  CASE sig.kind = "EXACT_BUNDLE" -> {"items"}
    [] sig.kind = "TICKETS" -> {"ticketCount", "ticketClass"}
    [] sig.kind = "ELIGIBLE_BILL" -> {"domain"}
    [] sig.kind = "NOMINAL_PACKAGE" -> {"package"}

SamePurchase(sig, ctx) ==
  CASE sig.kind = "EXACT_BUNDLE" -> CanonicalItemsEqual(ctx.items, sig.items)
    [] sig.kind = "TICKETS" -> ctx.ticketCount = sig.count /\ ctx.ticketClass = sig.class
    [] sig.kind = "ELIGIBLE_BILL" -> ctx.domain = sig.domain
    [] sig.kind = "NOMINAL_PACKAGE" ->
         ctx.package = [acquisition |-> sig.acquisition, unit |-> sig.unit]

MatchPurchaseSignature(sig, ctx) ==
  IF sig.kind \in {"ELIGIBLE_BILL", "NOMINAL_PACKAGE"} /\ sig.merchant # ctx.merchant
  THEN "NO_MATCH"
  ELSE IF \E f \in SignatureFacts(sig) : ctx[f] = None THEN "MISSING"
  ELSE IF SamePurchase(sig, ctx) THEN "MATCH"
  ELSE "NO_MATCH"
=============================================================================
