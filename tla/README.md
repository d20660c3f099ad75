# PagaMenos: formal models of the decision store and the study protocol

PagaMenos computes, for a purchase in Lima, which card offer is best (the
*engine* over an authored *corpus*), keeps the decisions it made as immutable
history (the *decision store*, M3.5A), and runs a study in which participants
consent, state purchase intents and receive decisions (M3.5B, A1 and A2).
These modules model what is concurrent and stateful in it, the engine, and the
corpus it is released with. Paths below are relative to the repository root
(`src/db/...` is the code under `src/`).

## Inventory

| Component | State | Operations | What is hard |
|---|---|---|---|
| Decision ledger (`services/decide-and-persist.ts`, `db/decision-snapshot-repository.ts`, `persistence/snapshot.ts`) | `DecisionSnapshot`, `DecisionIdempotencyReceipt` rows, append-only | `decideAndPersist`: look up the receipt, the business key, decide, insert both, reconcile, alias | reads and inserts are separate statements; two unique indexes; crash between them; retries after a deploy |
| Purchase intent lifecycle (`db/purchase-intent-repository.ts`, `services/study-purchase-intent.ts`) | tokens, intents, context versions, profiles, finalizations, invalidations, one receipt table per command | issue token, create, append context, append profile, finalize, invalidate | row locks in a fixed order, receipt keys that are not under those locks, a consent gate, clocks |
| Consent stream (`db/study-consent-repository.ts`, `services/study-consent.ts`, `study/consent-state.ts`) | `StudyConsentEvent` rows per assignment, receipts | grant, withdraw; derive intervals; "was collection authorized at" | races with collection; withdrawals that assert an earlier instant; timestamps of several processes |
| Intent decision saga (`services/study-intent-decision.ts`, `db/purchase-intent-decision-repository.ts`) | decision requests, bindings | freeze the request, find or make the decision, bind | three transactions, crash and resumption between them by other calls on other builds |
| Study administration (`db/study-{protocol,experiment,participant,assignment}-repository.ts` and services) | protocols (DRAFT/FROZEN), experiments, participants, assignments, receipts | insert first, then reconcile by receipt and domain key; freeze | unique-violation reconciliation; freeze under a row lock; retries with a new participant code |
| Recruitment (`db/study-recruitment-repository.ts`, `services/study-recruitment.ts`) | subject identities, credential links | issue, link, resolve a session | insert or reload, interrupted between the two |
| Engine (`engine/*.ts`) | none | per purchase scope: signature gate, calendar, eligibility, cost, ranking, bounds of what is uncertain, status | rounding and caps; what an open question can still change; ties; one throw loses every scope |
| Corpus (`corpus/*.ts`, `corpus/data/*.ts`) | static data | derivations, linter, 46 rows over 30 scopes | the linter must exclude what the engine throws over; a mistyped row that never applies, or applies on the wrong days, breaks no test |
| Persistence core (`persistence/*.ts`) | none | strict parsing, canonical hash, provenance | one input, one hash; provenance decides relevance a third time, beside the assembly and the engine |
| Request assembly (`study/purchase-intent-decide-input.ts`, `eligibility-portfolio.ts`, `holiday-fixture.ts`) | none | check the captured signature, normalize the portfolio, select scopes, rules and states, freeze | a relevance test beside the engine's own; a sort over what normalization may leave equal; civil dates computed twice |
| Corpus authority (`study/corpus-authority.ts`) | none | semantic digest, self-check at load and before a freeze | a digest that forgets order beside a provenance check that does not; versions that agree while the content differs |
| Schema and triggers (`prisma/`) | all tables | unique indexes, immutability, freeze guards | rules the code relies on |
| App, logger, environment, scripts, trusted harness | none of the protocol's | I/O and tooling | not modelled |

The components meet in the database. The saga calls the ledger through
`decideAndPersist`, and reads the finalized intent, its pins and its owner. The
intent repository reads the consent events inside its own transaction, and the
consent repository locks the same `ExperimentAssignment` row. Processes share
no memory: every interleaving is one of database statements.

## Modules

* `DecisionStore` is the atomic promise of the decision store: `Record` a
  snapshot with its receipt, `Alias` another key, `Reply` only what the tables
  justify.
* `DecisionLedger` is `decideAndPersist` with the repository, one action per
  statement, and implements `DecisionStore` (`ImplementsStore`).
  `MCDecisionLedger` instantiates it.
* `ConsentState` holds the pure consent domain as operators (a recursive
  function over the ordered events for the derivation). `ConsentStream` grows one stream to
  compare the derivation with what an interval means.
* `IntentLifecycle` extends `ConsentState` with every writing operation of the
  intent and consent repositories, and implements `StudyRecord`, where each
  command is atomic and consent is a state (`ImplementsRecord`).
  `MCIntentLifecycle` instantiates it.
* `CorpusAuthority` says which corpora a build loads with, what the semantic digest
  forgets and what provenance compares. `DecisionSaga` extends it: the saga over
  its three transactions by builds that differ in engine, corpus, order of the
  corpus and calendar, with the participant's finalize and invalidate beside it.
  `MCDecisionSaga` instantiates it.
* `AdminRegistry` is the study administration and recruitment: four
  repositories of one shape, the freeze, identities and credentials. It
  implements `AdminStore`, the atomic registry: a row with its receipt, an alias,
  a freeze, one identity per subject, and only the refusals the tables justify
  (`ImplementsRegistry`). `MCAdminRegistry` instantiates it with menus of
  colliding commands.
* `Offer` (rules, scopes, derivations, linter), `Settlement` (money and the
  cost of a purchase), `CorpusSchema` (the shapes that parsing a corpus admits, which
  `Engine` and `CorpusSeason` extend), `Applicability` (calendar, eligibility, signature
  gate) and `Evaluator` (the assembly of the input, the provenance check and
  `decide`) are operators, each module but the schema extending the one before. `Engine` adds
  the actions that change what is known. `MCEngine` instantiates it with menus of
  offers.
* `CorpusV1` is the released corpus, row by row, with its reconciliation counts and
  the holiday fixture; `Portfolio` the normalization of an eligibility portfolio.
  `CorpusSeason` composes both with `Evaluator`: time passes on a wall calendar, the
  participant rewrites the portfolio, and every purchase is decided anew.
  `MCCorpusSeason` instantiates it.

* `DecisionLedger_proofs`, `IntentLifecycle_proofs`, `DecisionSaga_proofs`,
  `ConsentState_proofs`, `ConsentStream_proofs`, `AdminRegistry_proofs`, `Engine_proofs`
  and `CorpusSeason_proofs` hold the proofs about the modules they are named after and
  about those they extend (see Proofs).

Operators named as mutants in a comment (`CommitSnapshotAlone`,
`FreezeUnchecked`, ...) are not used by any specification. Each is a plausible
bug in the definition it precedes, and TLC finds the property broken when it is
put in that definition's place.

### How the model corresponds to the code

*PostgreSQL.* Transactions run at READ COMMITTED. What an open transaction
inserts is invisible to others and vanishes when it dies. An insert whose
unique key is held by an open transaction waits for it. An insert that meets
a committed row fails (P2002) and rolls back its own transaction. `SELECT ...
FOR UPDATE` waits for the holder. In `DecisionLedger` the uncommitted rows of a
call follow from its `pc`; in `IntentLifecycle` they are its `staged` rows.
The share lock a foreign key takes on the referenced row can wait only for a
holder of that row's `FOR UPDATE` lock. `AdminRegistry` has these waits, for the
protocol a freeze locks. The intent and saga modules leave them out: the rows
their inserts refer to are locked by the same transaction, except the
replacement an invalidation names (of its own assignment, so only a freeze of a
decision request, which waits for nothing, can hold it) and rows that no
operation locks. The decision request refers to the intent and its
finalization, not to the assignment, so the saga, which locks the intent alone,
never waits for an assignment row.

*Ledger.* `Begin`, `FindReceipt`, `FindBusiness`, `Decide` are steps 1 to 4 of
`decideAndPersistWithDeps`; `InsertSnapshot`, `InsertReceipt`, `Commit` the
transaction of `createDecision`; `ReconcileReceipt` and `ReconcileBusiness` are
`reconcileCreate`; `AttachAlias`, `ReloadAlias` are `attachAliasReceipt`. The
input with its canonical hash is `hash`, the provenance verdict of a build on
an input is the relation `Accepts`, and the serving process's build is `ver`.

*Intents and consent.* Each command takes `LockAssignment`, `LockIntent` (only
context, finalize and invalidate), then one action that is the whole body of
the handler after the locks, up to the receipt insert; this body sees no
change of its assignment's rows, which its locks protect. `InsertReceipt` is a step of its own because
the receipt index spans assignments. `RefuseForeign` and `ReplayReceipt` are
the common prefix of all handlers. `InsertEvent` gives a consent event its
`recordedAt`, which is a column default and may be any instant from the start
of the transaction to the insert. The request hash is `Material`; the subject
determines the assignment, so `asg` stands for whichever identity the hash
holds. `PinNotOwned` is the code's `FinalizationConflict`; `UnknownRow` and
`UnexpectedRace` both are its `PurchaseIntentInvariantError`. The unique
indexes that lie within one assignment are *not* in the model: `LocksSerialize`
shows the locks alone keep them. The P2002 fallback of the token issue is
unreachable for the same reason.

*Saga.* `Load` is `loadFinalizedDecisionAuthorities`; although several queries,
its outcome only uses whether the intent was invalidated or finalized. `Freeze`
and `CommitFreeze` are `freezeDecisionRequestUnderLock`, `Find` is
`findExactHistoricalDecision` with the drift gate, `Persist` is
`decideAndPersist` as one step (justified by `ImplementsStore`: both of its
keys are functions of the intent), and `Bind` to `ReloadBinding` are
`bindSnapshot`. What depends on immutable rows alone, ownership and parsing, is
left out. Each call runs on a build, and a build that does not pass its self-check
(`Starts`) serves nothing. A request pins what its build is made of: contract,
corpus version, digest, and the format of its schemas and holiday calendar. It is
read by the parsers the reading build retains (`Readable`), compared with the
reader's own pins (`Drifted`), and its scopes and rules are looked up in the
reader's corpus as they are written (`Verified`). `SortedBy` is a stable sort: what it
keeps of an order is the order among equal keys.
A request holds the name of its build, from which all of this follows, as rows
are immutable.

*Administration.* A call's `cmd` is its command; `what` is the domain key and
content its request hash covers, known at once for most and after resolution
for a participant that comes with a credential, or after the service has read the
protocol for a freeze. `InsertRow`, `InsertReceipt`, `Commit` are the transaction of
`registerDraft`, `create`, `register` and `assign`; `ReconcileReceipt` and
`ReconcileDomain` are the two look-ups of their `reconcile`; `AttachAlias` and
`ReloadAlias` are `attachAlias`. What differs between the four is in the
operators `Start`, `Codes`, `Collides`, `Refers` and `Attempts`. `LockProtocol` to
`CommitFreeze` are `freeze`; `FindLink` to `ReloadLink` are `linkCredential`, and
`FindCredential` to `ReloadIdentity` the durable resolver with
`issueSubjectIdentity`. Frozen is a set of protocols, not a column. Left out: the trigger
that repeats `assertProtocolFrozen` at the insert (nothing unfreezes a
protocol), the digest re-verification of a draft (its columns cannot change), and
direct keys of an unsupported version. `UnknownRow` and `InvariantError` are kinds
of the model; the code wraps both, some as `StudyInvariantError`, some as an
unexpected storage failure. In `AdminStore` a lost race leaves no trace: the
statements of a call that loses map to stutters until its reply, a rolled-back
participant code included.

*Engine.* `Evaluation(corpus, request)` is `decide` of the input that the capture
service assembles. `Assess` is the loop body of `evaluateScope`: its gates in
order, where `Excluded` joins those that reject and `DoubtsOf` what the later ones
leave open, and then the economics (`Weigh`). `Standing` partitions the candidates
as `resolveDecision` does, `StatusRanked` and `StatusUnranked` choose the status.
A nominal value is scored by its negative, so one comparison serves both bases.
`Init` is any case the schema, the linter and the capture accept. The actions are not code:
they are how the inputs of a later decision differ from an earlier one, one
answered question (`ConfirmAvailability`, `StateCap`, `NameChannel`, ...) or one
lost source at a time, over the values the types allow; a corpus is released
only when schema and linter admit it. So an action property speaks of two decisions
about one purchase. In the study a finalized intent is decided once; the
comparison is what gives `topSetComplete`, `possibleAdditionalTopRuleRefs` and the
bounds their meaning. Instants are seconds, dates day numbers, rule ids integers
in the order of the strings. A product that is not a safe integer, which the
code throws over, is any cost above `MaxSafe`. `Evaluation` also asks the provenance
provider about the input it assembled, as `decideAndPersist` does
(`VerifyProvenance`): whether the entries are the corpus's own and whether any
relevant one is missing.

*Corpus and season.* `CorpusV1` has one record per row of `data/rules.ts` and
`data/scopes.ts`, built by operators named like the code's (`mk`, `dr`, `oau`, `pct`, ...);
rules are numbered in the order of their ids and dates are written as numbers
(20260930). The wall calendar of `CorpusSeason` counts days by the lengths of months
and knows nothing of the engine's arithmetic, which `CivilDate` in `Applicability`
models from instants (`Date.getUTC*` is external). The coverage gate reads the date a second
time, through `Intl` (`LimaLocalDateOf`); the time zone data is external, taken to put Lima
five hours behind UTC all the year, so that the two readings agree by assumption.
What is "published" is read from the same rows that are evaluated: the season checks what
the engine makes of a row, not the row against its provider. `PurchaseOf(s)` is a purchase that
scope `s` describes. In `Portfolio` a text is a token, padded with spaces or not, of a
finite ordered alphabet (`Rank` is the comparison by code points); sequences keep
the order in which a participant wrote the cards. `SortedDistinct` is the removal of
repetitions with the stable sort after it, said at once: the value at a place is the
one with so many ahead of it.

*Failures.* `Crash` ends a call at any step: process death, connection loss,
transaction timeout. A lost reply is a call whose client sends the same command
again, which is another member of `Call`.

## Runs

| Run | Question | Instance |
|---|---|---|
| `DecisionLedger` | Is a decision made once, coherent and answered consistently (`Coherent`, `OkIsDurable`, `VerdictsAgree`, `RetryIsReplay`, `NoUnresolvedViolation`)? Do the statements implement the atomic store, and does every call end? | 3 calls, 2 keys, 2 business keys, 2 inputs, 2 builds: every combination |
| `IntentClosing` | Can anything be collected after a withdrawal; do the transactions implement `StudyRecord`? | 3 calls, one open intent, revision, finalize, invalidate, withdraw |
| `IntentRaces` | Do the row locks alone keep every at-most-once rule and gapless numbering? Are receipts coherent, also if participants share keys? Do pins stay within their intent and assignment and do chains of replacements end, even where clients quote each other's rows and replace intents in a circle (`QuotesCoherent`)? | three scenarios of 3 calls: from an empty record; creates racing for one token; 2 assignments with 3 intents |
| `IntentLive` | Is there a cycle of waits over assignment rows, intent rows and the receipt index? | 3 calls of 2 assignments |
| `IntentBothCommit`, `IntentClockLead` | Statements of comments the code does not keep, see below | as above; the second with a clock skew of 1 |
| `DecisionSaga` | One request, decision and binding per intent; decided under the meaning that was frozen; repaired after any crash by any build that retains the format and has the same text; no false integrity alarm; frozen only while open | 3 calls, 5 builds that start and 2 that must not, 1 intent |
| `AdminRegistry` | Do the statements implement the atomic registry, which refuses nothing without a reason? Does every call end? | 3 calls, nine menus of colliding commands, 2 free participant codes, 2 key versions |
| `Engine` | Is a complete top set final, and every newcomer announced? Are bounds bounds? Does losing a source ever confirm? Is `VERIFY_FIRST` the only path? Is what is assembled from a linted corpus accepted by provenance, and free of structural throws? Does the assembly lose a scope? Are costs what the offer says? | every 3 of 13 bill offers (and one the linter refuses) and of 6 others, over 7 purchases |
| `Season` | Does the engine's arithmetic know what day it is in Lima? Does each released row apply on exactly the days it was published for, to the purchase its scope describes, with nothing open but what the row leaves open? Does every row have its day? Is what is stored of a portfolio what was meant? | the released corpus over 30 December 2025 to 2 March 2028, the first and last second of each day; a participant with a card of every family; then, on one day, up to 2 of 7 cards, with 3 maps of private states and 4 of declarations, in any order of writing |
| `EngineCapture` | A statement of a comment the code does not keep, see below | as `Engine` |
| `ConsentStream` | Does the derivation compute what consent means, at every time of knowledge? | all streams over six instants |

Menus in `AdminRegistry` bring together the commands that share a table, a key
or a lock: same key, same domain key with the same and with other content,
drafts and frozen protocols, two credentials of one subject and one of
another, a direct key that equals a derived one, and rows that do not exist.
Two free participant codes make collisions likely enough for the third failed
attempt to occur. Calls are numbered in the order they begin, which leaves out
only renamings, as any call may have any command of the menu; and where a menu's
two commands are exchanged by renaming keys and credentials, the first call is
given the first (`Unrenamed` in `MCAdminRegistry`).

Bounds. Three calls are enough for a writer, a rival and a retry or repair of
either; the locks and indexes are pairwise, and the longest reconciliation
meets one other call. A cycle of replacements needs as many invalidations as
it has intents: three calls reach the cycles of one, two and, through the third
intent, the refused ones. One intent suffices in the saga, since nothing of it
is shared between intents. Its builds are the base and one that differs in each
respect: `b2` in engine and corpus version, `b3` in an operational state under the
same version (and its calendar does not reach the intended dates), `b4` in the
order of the rules and in the format it freezes, reading also the former one, `b5`
in the order within a rule; `b6` repeats an element of a set, `b7` declares another
digest. A clock `until` 2 with equal instants allowed gives before, at and
after; `Skew` is the most a process's clock can lead another. A consent stream
has at most two events, as consent cannot be granted again. Call identities are
interchangeable and symmetric in the runs without liveness; in `DecisionLedger`, which
checks liveness, one initial state of each class of renamings is taken instead
(`OneOfEachClass`), with the calls in the order of their inputs. Commands that name
a call as a row id name all of them. Seeded rows are rows that earlier commands
of the same specification commit. Three offers are a winner,
a rival that could tie or beat it, and a third that widens a tie or blocks. The
amounts meet where it matters: a fifth of 1003 is 803 or 802 by its rounding,
and fixed discounts of 200 and 201 meet both. `MaxLost` 1 lets one source at a
time be lost, to a kind that counts as stale (`Losses`); one offer begins with a
conflicting source, and a source that is `UNKNOWN` is handled as neither and only
falls through to `NO_SAFE_WINNER`. `MaxSafe` is above every amount of the instance.
In `Season` a scene is either about time or about writing (`Passing`): the two are
independent, as a decision depends on the day and on what is stored alone. The
days go from before the fixture's first to after its last, over a leap day; the
first and the last second of a day are where an offset of five hours or an
exclusive end would show. `MaxCards` 2 in any order of writing is enough for a sort
and a refusal of duplicates, which look at pairs. `ConsentStream`, `Season` and the two
engine runs do without the deadlock check: a stream ends with its
withdrawal, a season with its last day, and in the engine nothing may be left to ask.

Fairness. `FairSpec` asks weak fairness of each begun call's steps in
`DecisionLedger` and `IntentLifecycle`: a promise continuation runs, PostgreSQL
wakes the waiter of a released lock, and calls are finitely many. `AdminRegistry`
needs less, that some call that can take a step does. In `CorpusSeason` time
passes, weakly fairly; nobody has to write. Nothing obliges a caller to begin, a
process to survive or a process's clock to tick.

### What the code does not keep of its comments

* `IntentBothCommit`: the header of `src/db/purchase-intent-repository.ts`
  (lines 11-12) says finalize and invalidate "can never both commit against one
  intent". `invalidate` does not look at finalizations, so an intent finalized
  first is then invalidated. What holds is that nothing is finalized after an
  invalidation (`ImplementsRecord`); the saga handles the rest (`FrozenWhileOpen`).
* `IntentClockLead`: lines 15-18 say a withdrawal either commits before, "A2
  sees closed consent", or after. The gate compares the collecting process's
  clock with the event's `recordedAt`, so a process whose clock lags does not
  see a committed withdrawal. With equal clocks the property holds
  (`IntentClosing`).

* `EngineCapture`: the header of `src/study/purchase-intent-decide-input.ts`
  (lines 4-6) calls its contract "stricter" than the engine's `PurchaseContext`.
  It compares the food and beverage subtotals with the bill only when both are
  given; `validateContextMoney` compares each. A bill of 10.03 with 12.00 of food
  is captured and finalized, and `decide` throws over it ever after.

Things seen while modelling, without a run of their own. "A candidate that
could STRICTLY beat the best is a hard block" (`engine/decide.ts`, line 1054)
fails in a tie whose first member has an UNKNOWN rounding: only the others'
roundings are questioned. It fails again for a fixed discount with a cap that is
`UNKNOWN_NOT_STATED`, though `corpus/types.ts` (line 32) has the cap "on a
percentage/fixed-discount benefit": `decide` (lines 402-405) ranks it as if it had
none, so it may lead as complete and fall when its cap is stated. The properties
about open offers therefore suppose that neither occurs (`PricesWeighed`); the active
corpus has neither. And a complete decision is lost altogether when what is
settled later makes `decide` throw over another offer, as one throw loses every
scope: `CompleteIsFinal` excepts it. A purchase
of tickets or of a bundle leaves the bill scopes of the merchant undetermined, so
several scopes match, and as the assembly omits `selectedScopeId` there is no
final decision. An undeclared fact silently leaves its rule out, by design
(`Learned` excepts declarations). A time window across midnight never matches. A
withdrawal recorded in the very millisecond of a committed fact makes the same
authorization question about that fact answer no afterwards (`consent-state.ts`,
line 199, `<=`). Two participants that send one idempotency key at the same
time are not serialized by any lock: one of them gets the invariant error that
lines 62-65 of the intent repository reserve for races the lock did not
serialize.

From the released corpus. The two Cineplanet rows are percentages and need an
amount that a captured ticket purchase never states: they are in doubt on every
day, and no offer is ever confirmed for Cineplanet (`LeftOpen` says so). Five rows have the
holiday policy `SPECIFIC_DATES` and list no dates (BV-DIN-01, GA-BCP-01,
CIN-BCP-01, VC-DIN-01, VC-QORE-01), so no day blacks them out. Nine rows include, and three exclude,
a branch named "selected" or "listed", a placeholder for a list that is not in the
repository. Only a purchase that states that word matches it, and `BranchOf` states
it where an offer asks for it. A purchase of UVK or Villa Chicken that matches several scopes of different
signature kinds leaves the others undetermined, which is why
`RowsApplyAsPublished` compares scopes of the same kind. The unlisted dates and the doubt
about Cineplanet are part of what it expects: it would catch neither going wrong,
and no property covers them.

From the builds. The header of `src/db/purchase-intent-decision-repository.ts`
(lines 13-16) says that a historical version stays loadable after the current one
advances. Its parsers of the engine input are keyed by the constant that the build
creates (line 98), so that a build which moves on must add the former version by
hand; no build of the repository has done so yet. In the model each build is
given the formats it retains (`Reads`). Arrays that are sets may be
reordered without a new digest, as the drift gate intends, but provenance compares
them as written: such a build refuses to decide what another froze, and another
build must repair it. `RepairSucceeds` therefore promises repair only where the
format is retained and the text the same, and `NoFalseConflict` excuses builds of another
text: neither mistake would violate them, and no property covers it.

## Proofs

TLAPS proves, for every value of the constants that meets the named assumptions,
every invariant of the runs `DecisionLedger`, `IntentRaces`, `DecisionSaga`,
`ConsentStream`, `AdminRegistry` and `Engine` and their action properties, the type
invariant and the two properties of `IntentClosing`, the calendar and the stored
portfolio of `Season`, and the refinements of `DecisionStore`, `StudyRecord` and
`AdminStore`. Each `X_proofs` module extends `X` and holds an inductive invariant,
lemmas for the operators it is made of, one step per action, and the theorems that
follow. Each invariant was an invariant of a TLC run before it was proved.

`DecisionLedger_proofs`, for any set of calls, requests and builds and any relation
`Accepts`. `LedgerAssumption` says that `NoCall` is not a call and requests are records.
That the loser of a race always finds the row it collided with depends on what a
program point knows: a call at `insertReceipt` holds the only uncommitted snapshot
of its business key and none is committed; a call at `reconcileReceipt` has met a
committed row of its key or of its business key, so `reconcileBusiness` finds a
snapshot; a call at `attachAlias` aims at a committed snapshot on its own input; and
a call whose request was receipted when it began never leaves `findReceipt` but for
an answer. `LedgerInv` is the conjunction of the types, the tables' invariants and
this knowledge (`CallInv`). For the refinement each step is mapped to a step of the
store or a stutter: `Commit` to `Record`, the insert of `AttachAlias` to `Alias`, every
return to `Reply`, `Crash` to `Lose`.

`IntentLifecycle_proofs`, for any calls, assignments, keys and scenarios of commands.
`LifecycleAssumption` says that a command has the subject and the capture key its
operation takes, that nulls, ids and calls are distinct, and that instants are
numbers. The theorems begin from any database that is `Coherent`, of which the empty
one is an instance (`NothingIsCoherent`), and show that it stays so. `LifecycleInv` says
of the committed rows that ids name one row each (`Named`), rows hang from rows of
their assignment and nothing stands twice in one place (`Placed`), numbering is
gapless (`Sequences`), each consent stream is a `History` and facts only exist beside one
(`Consented`), receipts and facts tell of each other (`Receipted`), pins and
replacements stay in the assignment and replacements end (`Quoted`), and instants are
not ahead of every clock (`Dated`). Of the calls it says that an assignment has one
open transaction (`Exclusive`), what such a transaction found true, or absent, under
the lock (`Ready`: nobody else writes a row of its assignment, so it stays true), and
what a call that has returned was told (`Told`: of rows that are only ever added). Only
commits add rows (`OnlyCommitsAdd`), so the other steps preserve the rows by one
lemma. A cycle of replacements is excluded by what the walk in `Invalidate` left behind: a
set of intents that no replacement leads out of, has the replacement in it and the
replaced intent not (`Unreplaced`); `Chain` is stated as the least closed set for that.
`CollectionEnds` and `LifecycleImplementsRecord` assume `Skew = 0`: without it they are
false, as `IntentClockLead` shows. In the refinement `Commit` maps to `Describe`, `Create`,
`Revise`, `Pin`, `Void`, `Grant` or `Withdraw` by the kind of fact, a commit that only acknowledges
to a stutter, and all other steps to stutters.

`DecisionSaga_proofs`, for any builds, with any engines, corpora, formats and
readers. `SagaAssumption` says that a build reads what it freezes, `CorporaAssumption`
that corpora are as they are authored and linted (`Authored`). That no weekday is
repeated in a rule is not linted; it holds of the released rows
(`src/corpus/data/rules.ts`). `SagaInv` says that requests, snapshots and bindings are functions of the
intent and of each other, which saga holds the intent's lock, and what each point
of the saga has read or written; that a call which began decidable is on its way
to `Ok` (`Decidable`) is part of it. Whether two builds are alike follows from
`DigestIsMeaning`, about `CorpusAuthority`: the digest of an authored corpus
determines its meaning and nothing more, since a stable sort of distinct keys
forgets the order.

`ConsentState_proofs` and `ConsentStream_proofs`. `StreamAssumption` says that instants
are numbers and none of them is null. A stream the commands can write has no event,
a grant, or a grant and its withdrawal (`History`); on these the recursive function of
the derivation is unfolded and compared with `Meant`, for every time of knowledge.
`IntentLifecycle_proofs` uses the same lemmas for its consent gate.

`AdminRegistry_proofs`, for any calls, menus of commands, codes and key versions.
`RegistryAssumption` says that calls, seeded rows and null are distinct and that a
command is of one of the six operations; `SeedAssumption` that what was committed
before is as the same repositories write it: ids are unique, participants alone
have a code, and a credential has one anchor. The theorems begin from tables that
are `Coherent`, as `AdminStore` does. Rows are only ever added, so what a call has found *present*
stays (`CallInv`): a call that reconciles has met the row that made its insert
fail (`Met`), one that aliases aims at a row of its domain key and content, one
under a protocol's lock knows which protocol it has hashed. What a call has found
*absent* stays only because its transaction holds it: `Alone` says what the holder
of an uncommitted row, receipt or lock found absent, and `Apart` that two holders
hold different things, which the waits of the inserts establish; so a commit
breaks no `Alone` but its own. `RegistryInv` is the conjunction with types and tables. In
the refinement `Commit` maps to `Register`, the insert of `AttachAlias` to `Alias`,
`CommitFreeze` to `Freeze`, the insert of `IssueIdentity` to `Issue`; a return maps to
`Replay`, `Link` or `Refuse`, and that the refusal is justified is what `CallInv` is for:
`AlreadyFrozen`, a freeze receipt of another hash, and an unexplained violation of
anything but a participant's code are shown to be unreachable.

`Engine_proofs`, for any menu of corpora and purchases of any size, any amounts and any
channels. `CasesAssumption` says that a corpus is finite, its rule ids numbers, and
that a request has its fields; `CapsAssumption` that a cap is stated as an amount;
`NoneAssumption` and `CapAssumption` that null is no value. `CasesAssumption` also says
that the bundle of a scope is a well-formed list of items, which nothing in the code
demands of a scope without rules (the assembly would throw on it, and the model does
not). That corpora are otherwise well formed is not assumed: `Init` and `Release` let pass what `ParseCorpus` and `LintCorpus`
admit, and the proofs use only that. `EngineInv` says that the corpus has passed both,
the purchase the capture, and that what is shown is what `decide` makes of them; what
it takes to prove the rest is said of `decide`. The argument has four parts.

1. *Alike.* A candidate depends on its own rule, state and scope and on the
   purchase (`AssessedAlike`), so that decisions are functions of corpus, request and scope
   (`DecisionAt`), whatever else an input holds. From this, and from the agreement of the
   assembly's relevance with that of provenance (`RelevanceAgrees`) and with the
   signature gate (`IrrelevantIsUnmatched`), follow `AssembledIsAccepted` and
   `AssemblyLosesNothing`; and `VerifyFirstIsSolePath`, by comparing each candidate
   with itself after every private state is NO (`DeniedCandidate`).
2. *Money.* `Rounded` and `PercentBand` bound both roundings by linear arithmetic.
   `PaidOfGroups` counts the tickets of n groups: a least n with a wrong count would
   follow a right one. What is ranked has an integer score (`RankedSound`), so the best
   exists (`MinExists`), and `DecisionSound` gives `TypeOK`.
3. *Loss.* A lost source puts its own candidate in doubt and leaves the others
   (`OthersUnmoved`, `LoserDoubted`). If the scope is still decided, what blocked it
   before blocks it now, and the loser was not at the top (`LossKeepsTop`).
4. *Learning.* An answer settles one field of one rule, one operational state or one
   fact of the purchase (`LearnedLearns`). Hence every candidate is as before, or had a
   doubt that is now settled, its score no better than its bound (`Evolution`), which
   gives `BoundsHold`. A ranked candidate keeps its score (`Steady`), and one that becomes
   ranked was material if it can reach the best: `TopLearns` gives `NewcomersAreAnnounced`, and
   `SettledTopStays` gives `CompleteIsFinal`.

The attempt to prove these corrected the model: the schema had been left out, and
without it the linter alone admits corpora over which they fail; and two exceptions of
`CompleteIsFinal` came to light that no menu of the run had contained (see above). The
menu now has the offer that shows them.

`CorpusSeason_proofs`, for any scenes, cards and maps, any alphabet and any length of a
portfolio. `ScenesAssumption` says that the wall calendar is set right where a scene
begins, `AlphabetAssumption` that a token has one place in the order and that what is
given is not null, `DraftsAssumption` that cards and maps have the shape that the
schema of a request lets pass. There are three arguments.

1. *Calendar* (`CalendarRight`). `CivilDate` reckons in years that begin in March, in eras
   of 400 of them. A day has one such reckoning (`Unique`), which `CivilDate` finds
   (`CivilDateReckons`), and the reckoning moves on by a day as the wall calendar does, over
   the ends of months, years, centuries and eras (`Successor`, `NextDate`). So once right,
   the calendar stays right (`StaysRight`), in every year there is. The fixture's two
   years are the years decided (`CoverageIsTwoYears`). `SeasonInv` adds that what is shown
   is what `Attempts` makes of what is stored, at the time it is.
2. *Comparator* (`ComparatorTellsCardsApart`). The tuples that cards are compared by end
   with a bracket above every token (`Terminated`), so none begins another and the
   lexicographic order is total on them; and a tuple stands for one card (`TupleInjective`).
   The error that `eligibility-portfolio.ts` keeps for a tie between different cards
   (lines 143 to 146) is unreachable.
3. *Portfolio* (`RewritingInvisible`). To drop repetitions and sort, under a strict order,
   gives a sequence that depends on the set of values alone (`SortedDistinctSorts`, by
   counting those ahead of each). Hence memberships are normalized to a function of their
   tokens, cards of what they mean (`CardByMeaning`), maps of their pairs (`MapByMeaning`), and
   none of these functions takes two meanings to one form. A form read back means
   what it meant (`PortfolioReadBack`). `PortfolioInv` says that what is stored is the form of
   a draft that was accepted, of the last one unless that was refused, and that nothing
   is written while time passes. TLC checked it with `stored` read back for the draft that
   it speaks of, as the drafts cannot be enumerated.

The attempt to prove `RewritingIsInvisible` corrected the property: it had compared a
card's tier and memberships as one set of texts, so that a tier and a membership of the
same name would have meant the same, which they do not and are not stored as. The
cards of the run now have one such pair. To be reasoned about, the sort is stated by
counting (`SortedDistinct`) and not by the library's recursive one.

With TLC only: liveness (`EveryCallAnswers` of three modules, `EveryRowApplies`), which is
outside the prover's reach, as is ENABLED; and `RowsApplyAsPublished`, which is about one
table and one participant, where a run over all the days is complete.

## Plan

1. Done: ledger and store, consent, intent lifecycle and record, saga with builds
   and corpora, administration and recruitment with their abstract registry;
   engine, linter, assembly and provenance; the released corpus over its season,
   portfolios and holidays; the proofs of the ledger, the consent stream, the
   intent lifecycle, the corpus authority, the saga, the administration, the
   engine, the calendar and the stored portfolio.
2. Possible extensions: the sources and research notes of the corpus, if the
   linter's checks of them ever come to bear on decisions; `selectedScopeId`, when a
   caller sets it.

## Not modelled

* Canonical JSON, hashing and strict parsing: a hash is an injective name of what
  it covers. The zod schema of the corpus is `CorpusSchema`; those of
  `persistence/schema.ts` admit shapes, which every record of a model has.
* Display: explanations, advisories, savings, names, urls, the sources and the
  research notes of the corpus. No decision depends on them.
* Participant and entry context: capability objects minted from a session and two
  read-only services, without state. Ownership of what is read depends on immutable
  rows alone and is left out of the saga; in `IntentLifecycle` it is modelled.
* `freezeDecisionRequest`, which only a test calls.
* The app (a static page), the logger and environment checks, the CI gate of the
  corpus authority, the other scripts and the trusted harness
  (`scripts-trusted/`): they build, test or inspect the program and hold no protocol
  state.
* A database that loses committed rows, or is restored from a backup: the code
  relies on PostgreSQL's durability.
