---------------------------- MODULE CorpusSeason -----------------------------
(* The released corpus lives through the seasons: time passes in Lima, the   *)
(* participant writes the eligibility portfolio in ever new ways, and every  *)
(* purchase that a scope describes is decided on what is stored, at the time *)
(* it is (src/src/services/study-intent-decision.ts).                        *)
(*                                                                           *)
(* The wall calendar counts days as people do, by the lengths of months, and *)
(* knows nothing of the arithmetic of Applicability.                         *)
EXTENDS Evaluator, CorpusSchema, Portfolio, CorpusV1

CONSTANTS
  Scenes,          \* the [calendar, until, asked, draft] that behaviours start from
  Cards,           \* the cards a participant writes, as they may be written
  PrivateMaps,     \* the private states, as they may be written
  DeclarationMaps, \* the declarations, as they may be written
  MaxCards         \* a bound: the cards that are written

(* The corpus that is released has the shape that its schema demands.        *)
ASSUME CorpusAssumption == ParseCorpus(LoadCorpus) /\ ParseExcluded(ExcludedRules)

VARIABLES
  scene,       \* where the behaviour started from
  calendar,    \* the wall calendar in Lima
  draft,       \* the portfolio as it was last written
  stored,      \* the portfolio as it was last accepted
  evaluation,  \* the decisions of the purchases asked for, as far as they are decided
  applied      \* history: the rules that have applied

vars == <<scene, calendar, draft, stored, evaluation, applied>>
-----------------------------------------------------------------------------
Leap(year) == year % 4 = 0 /\ (year % 100 = 0 => year % 400 = 0)
LastOf(month, year) ==
  IF month = 2 THEN IF Leap(year) THEN 29 ELSE 28 ELSE IF month \in {4, 6, 9, 11} THEN 30 ELSE 31

(* A day is looked at in its first and its last second.                      *)
NextDay(c) ==
  LET tomorrow == [c EXCEPT !.second = 0, !.instant = @ + 1, !.weekday = (@ + 1) % 7]
  IN IF c.day < LastOf(c.month, c.year) THEN [tomorrow EXCEPT !.day = @ + 1]
     ELSE IF c.month < 12 THEN [tomorrow EXCEPT !.day = 1, !.month = @ + 1]
     ELSE [tomorrow EXCEPT !.day = 1, !.month = 1, !.year = @ + 1]

Later(c) ==
  IF c.second = 0 THEN [c EXCEPT !.second = 86399, !.instant = @ + 86399] ELSE NextDay(c)

Date(c) == c.year * 10000 + c.month * 100 + c.day

(* The wall calendar is set right where a scene begins, and left to itself.  *)
SetRight(c) ==
  /\ c \in [year : Int, month : 1 .. 12, day : 1 .. 31, weekday : 0 .. 6, second : {0, 86399},
            instant : Int]
  /\ LimaDate(c.instant) = Date(c)
  /\ LimaWeekday(c.instant) = c.weekday
  /\ (c.instant - LimaOffset) % 86400 = c.second
ASSUME ScenesAssumption == \A s \in Scenes : SetRight(s.calendar) /\ s.until \in Int

(* What is written.                                                          *)
Drafts ==
  [instruments : Seq(Cards \cup UNION {ToSet(s.draft.instruments) : s \in Scenes}),
   privateStates : PrivateMaps \cup {s.draft.privateStates : s \in Scenes},
   declarations : DeclarationMaps \cup {s.draft.declarations : s \in Scenes}]
ASSUME DraftsAssumption ==
  \A s \in Scenes :
    /\ s.draft \in Drafts
    /\ \A i \in Cards \cup ToSet(s.draft.instruments) : WrittenCard(i)
    /\ \A m \in PrivateMaps \cup {s.draft.privateStates} : WrittenMap(m)
    /\ \A m \in DeclarationMaps \cup {s.draft.declarations} : WrittenMap(m)
-----------------------------------------------------------------------------
(* The purchase that a scope describes, through a channel and at a place     *)
(* that every offer in it admits.                                            *)
Offers(s) == {LoadCorpus.rules[r] : r \in MembersOf(LoadCorpus, s)}
ChannelOf(s) ==
  CHOOSE c \in UNION {o.channels : o \in Offers(s)} : \A o \in Offers(s) : c \in o.channels
BranchOf(s) ==
  LET named == UNION {o.include : o \in Offers(s)}
  IN IF named = {} THEN "elsewhere" ELSE CHOOSE b \in named : TRUE

FactsOf(sig) ==
  CASE sig.kind = "EXACT_BUNDLE" -> [kind |-> "EXACT_ITEMS", items |-> sig.items]
    [] sig.kind = "TICKETS" ->
         [kind |-> "TICKETS", ticketPrice |-> 2000, ticketCount |-> sig.count,
          ticketClass |-> sig.class]
    [] sig.kind = "ELIGIBLE_BILL" ->
         [kind |-> "BILL", bill |-> 10000, food |-> 6000, beverage |-> 1000, domain |-> sig.domain]
    [] sig.kind = "NOMINAL_PACKAGE" ->
         [kind |-> "NOMINAL_PACKAGE",
          package |-> [acquisition |-> sig.acquisition, unit |-> sig.unit]]

PurchaseOf(s) ==
  FactsOf(ScopesV1[s].signature)
  @@ [merchant |-> ScopesV1[s].merchant, channel |-> ChannelOf(s), branch |-> BranchOf(s)]

(* The second reading of the civil date asks the time zone data of the       *)
(* platform, which is external: that Lima is five hours behind UTC all the   *)
(* year, and the two readings therefore one, is assumed and not checked.     *)
LimaLocalDateOf(t) == CivilDate(DayOf(t - LimaOffset))

WithinCoverage(t) == LimaLocalDateOf(t) \in CoverageV1.from .. CoverageV1.to

Attempt(s, portfolio, t) ==
  Evaluation(LoadCorpus,
    [signature |-> PurchaseOf(s), at |-> t, holidays |-> HolidaysV1, portfolio |-> portfolio])

(* What is stored is read back for every decision. Nothing is frozen, and    *)
(* nothing decided, outside the fixture's coverage.                          *)
Attempts(profile, t) ==
  LET portfolio == AsPortfolio(NormalizeEligibilityPortfolio(ReadBack(profile)))
  IN [s \in {x \in scene.asked : WithinCoverage(t)} |-> Attempt(s, portfolio, t)]

Applying(attempts) ==
  LET decisions == UNION {attempts[s].results : s \in DOMAIN attempts}
  IN RulesOf({w \in UNION {d.candidates : d \in decisions} : w.state # "REJECTED"})
-----------------------------------------------------------------------------
(* Nothing is released unless corpus-validate finds the corpus linted and    *)
(* its counts reconciled, and nothing begins with a portfolio that is        *)
(* refused.                                                                  *)
Beginnings ==
  {s \in Scenes : /\ LintCorpus(LoadCorpus) /\ LintExcluded(LoadCorpus, ExcludedRules)
                  /\ ReconcileCorpus
                  /\ Acceptable(s.draft)}

Init ==
  /\ scene \in Beginnings
  /\ calendar = scene.calendar
  /\ draft = scene.draft
  /\ stored = NormalizeEligibilityPortfolio(scene.draft)
  /\ evaluation = Attempts(stored, calendar.instant)
  /\ applied = Applying(evaluation)

(* A bound: in a scene either time passes or the portfolio is written.       *)
Passing == scene.calendar.instant < scene.until

TimePasses == calendar.instant < scene.until /\ calendar' = Later(calendar)

Tick ==
  /\ TimePasses
  /\ evaluation' = Attempts(stored, calendar'.instant)
  /\ applied' = applied \cup Applying(evaluation')
  /\ UNCHANGED <<scene, draft, stored>>

(* What is written is refused, or replaces what is stored.                   *)
Write(written) ==
  /\ draft' = written
  /\ stored' = IF Acceptable(written) THEN NormalizeEligibilityPortfolio(written) ELSE stored
  /\ evaluation' = Attempts(stored', calendar.instant)
  /\ UNCHANGED <<scene, calendar, applied>>

AddCard ==
  /\ ~Passing /\ Len(draft.instruments) < MaxCards
  /\ \E i \in Cards : Write([draft EXCEPT !.instruments = Append(@, i)])

DropCard ==
  /\ ~Passing /\ draft.instruments # <<>>
  /\ Write([draft EXCEPT !.instruments = Front(@)])

ExchangeCards ==
  /\ ~Passing /\ Len(draft.instruments) > 1
  /\ Write([draft EXCEPT !.instruments = <<@[2], @[1]>> \o SubSeq(@, 3, Len(@))])

RewriteCard ==
  /\ ~Passing
  /\ \E n \in DOMAIN draft.instruments, i \in Cards :
       draft.instruments[n] # i /\ Write([draft EXCEPT !.instruments[n] = i])

RewritePrivateStates ==
  /\ ~Passing
  /\ \E m \in PrivateMaps \ {draft.privateStates} : Write([draft EXCEPT !.privateStates = m])

RewriteDeclarations ==
  /\ ~Passing
  /\ \E m \in DeclarationMaps \ {draft.declarations} : Write([draft EXCEPT !.declarations = m])

Next ==
  \/ Tick
  \/ AddCard \/ DropCard \/ ExchangeCards \/ RewriteCard
  \/ RewritePrivateStates \/ RewriteDeclarations

(* Time passes; nobody has to write.                                         *)
Spec == Init /\ [][Next]_vars /\ WF_calendar(TimePasses)
-----------------------------------------------------------------------------
(* The arithmetic of the engine agrees with the wall calendar, in its first  *)
(* and its last second of every day, across months, years and a leap day;    *)
(* and exactly the days of the years that the holiday fixture knows are      *)
(* decided.                                                                  *)
CalendarIsCivil ==
  /\ LimaDate(calendar.instant) = Date(calendar)
  /\ LimaWeekday(calendar.instant) = calendar.weekday
  /\ LimaTime(calendar.instant) = calendar.second \div 60
  /\ DOMAIN evaluation = IF calendar.year \in {2026, 2027} THEN scene.asked ELSE {}

(* Every row of the corpus applies when it was published to: the purchase    *)
(* that its scope describes, by somebody who holds every card, is refused it *)
(* on the wrong days only, and is in doubt over nothing but what the row     *)
(* leaves open. The Cineplanet rows are a percentage of a bill that a ticket *)
(* purchase never states, and so in doubt on every day. No other scope that  *)
(* tells purchases apart by the same facts takes the purchase for its own.   *)
OnItsDays(rule) ==
  /\ rule.temporal.from <= Date(calendar) /\ Date(calendar) <= rule.temporal.to
  /\ rule.weekdays = {} \/ calendar.weekday \in rule.weekdays
  /\ rule.holiday = "EXCLUDED" => Date(calendar) \notin HolidaysV1

LeftOpen(rule) ==
  When(rule.stock, "AVAILABILITY")
  \cup When(rule.class = "PROVIDER_PRIVATE", "PRIVATE")
  \cup When(rule.cap # None /\ rule.cap.kind = "UNKNOWN_NOT_STATED", "CAP")
  \cup When(rule.holiday = "UNKNOWN" /\ Date(calendar) \in HolidaysV1, "HOLIDAY")
  \cup When(rule.benefit.type = "PERCENT" /\ rule.selector = "TICKET_UNIT", "CONTEXT")

DecisionOf(s) == CHOOSE d \in evaluation[s].results : d.scope = s
RowsApplyAsPublished ==
  Passing =>
    \A s \in DOMAIN evaluation :
      /\ evaluation[s].error = None
      /\ RulesOf(DecisionOf(s).candidates) = {r \in ActiveRules : s \in BuiltV1[r].scopes}
      /\ \A w \in DecisionOf(s).candidates :
           IF OnItsDays(BuiltV1[w.rule])
           THEN /\ w.doubts = LeftOpen(BuiltV1[w.rule])
                /\ w.state = IF w.doubts = {} THEN "RANKABLE" ELSE "UNCERTAIN"
           ELSE w.state = "REJECTED"
      /\ \A d \in evaluation[s].results :
           d.matched /\ ScopesV1[d.scope].signature.kind = ScopesV1[s].signature.kind => d.scope = s

(* No row is dead: within the years that are decided each has its day.       *)
EveryRowApplies == Passing => <>(applied = ActiveRules)

(* What is stored stands for what was meant, and for nothing of how it was   *)
(* written: two portfolios that are accepted in a row are stored alike       *)
(* exactly when they mean the same. What is refused changes nothing, and     *)
(* what is stored is not changed by being read back.                         *)
Meaning(written) ==
  [cards |-> {<<i.family, i.network, {x.token : x \in TierOf(i)}, {x.token : x \in MembershipsOf(i)}>> :
                i \in ToSet(written.instruments)},
   private |-> {<<x.token, written.privateStates[x]>> : x \in KeysOf(written.privateStates)},
   declared |-> {<<x.token, written.declarations[x]>> : x \in KeysOf(written.declarations)}]
RewritingIsInvisible ==
  [][/\ NormalizeEligibilityPortfolio(ReadBack(stored')) = stored'
     /\ Acceptable(draft) /\ Acceptable(draft') =>
          (stored = stored' <=> Meaning(draft) = Meaning(draft'))
     /\ ~Acceptable(draft') => stored' = stored /\ evaluation' = evaluation]_vars
=============================================================================
