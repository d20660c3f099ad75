-------------------------- MODULE IntentLifecycle --------------------------
(***************************************************************************)
(* PurchaseIntentRepository and StudyConsentRepository: the intent facts   *)
(* and the consent stream of an assignment, written by transactions that   *)
(* lock the assignment row, then the intent row, look their idempotency    *)
(* receipt up, decide, and insert one fact and one receipt.  The steps of  *)
(* a transaction are where it can wait: for either row lock, and for the   *)
(* receipt's unique index, which is not scoped to the assignment and so is *)
(* not covered by the locks.                                               *)
(*                                                                         *)
(* PostgreSQL, READ COMMITTED: what a transaction inserts is invisible to  *)
(* the others until it commits and vanishes if it dies; an insert waits    *)
(* for an open transaction that holds its unique key and fails (P2002) on  *)
(* a committed one.  The unique indexes that lie inside one assignment are *)
(* deliberately not modelled: LocksSerialize shows them idle.              *)
(***************************************************************************)
EXTENDS ConsentState

CONSTANTS
  Call,         \* repository calls; a client's retry is another call
  Assignment,   \* experiment assignments
  Key,          \* client idempotency keys
  Scenario,     \* by name: the facts and receipts committed before the calls
                \* start, the commands clients may send, and until, a bound
                \* on the clock
  Skew          \* how far ahead of another a process's clock can run

(* A command has the subject and the capture key its operation takes, rows  *)
(* have ids that no call will give, and instants are numbers.               *)
ASSUME LifecycleAssumption ==
  /\ None \notin Nat /\ None \notin Call /\ Skew \in Nat
  /\ \A s \in DOMAIN Scenario :
       /\ Scenario[s].until \in Nat \ {0}
       /\ \A f \in Scenario[s].facts : f.id # None /\ f.id \notin Call
       /\ \A q \in Scenario[s].commands :
            /\ q.op \in {"token", "create", "context", "profile", "finalize", "invalidate",
                        "grant", "withdraw"}
            /\ q.asg \in Assignment /\ q.key \in Key
            /\ q.subject # None <=> q.op \in {"create", "context", "finalize", "invalidate"}
            /\ q.cap # None => q.op \in {"token", "context", "profile"}
            /\ q.op = "withdraw" => q.value \in Nat \cup {None}

VARIABLES
  scene,    \* the name of the scenario that is played
  cmd,      \* the command of each call, once it is sent
  lead,     \* the lead of the clock of the process that serves the call
  pc,       \* the step the call executes next
  began,    \* when its transaction started
  staged,   \* the rows its open transaction inserts
  answer,   \* what it returned or threw
  facts,    \* committed fact rows, all tables
  receipts, \* committed idempotency receipts, all tables
  clock

vars == <<scene, cmd, lead, pc, began, staged, answer, facts, receipts, clock>>
rows == <<facts, receipts>>
input == <<scene, cmd, lead>>

-----------------------------------------------------------------------------
(* A fact row.  subject is the row it hangs from: the token of an intent,   *)
(* the intent of a context, finalization or invalidation; cap its client    *)
(* capture key; value its payload, the pins [context, profile] of a         *)
(* finalization, the [replacement, reason] of an invalidation, the asserted *)
(* instant of a withdrawal; seq its number in its stream; at the sampled    *)
(* time and recorded the column default of a consent event.                 *)
FactOps == {"token", "create", "context", "profile", "finalize", "invalidate"}
ConsentOps == {"grant", "withdraw"}
CollectionOps == FactOps \ {"token"}
IntentOps == {"context", "finalize", "invalidate"}

Facts(op) == {f \in facts : f.op = op}
On(op, subject) == {f \in facts : f.op = op /\ f.subject = subject}
InAssignment(op, a) == {f \in facts : f.op = op /\ f.asg = a}
ById(id) == {f \in facts : f.id = id}

(* Mutant: the request hash without the actor.                              *)
MaterialOfAnyone(q) == [op |-> q.op, asg |-> None, subject |-> q.subject,
                        cap |-> q.cap, value |-> q.value]

(* The request hash covers the operation, the trusted actor and every       *)
(* argument except the key.                                                 *)
Material(q) == [op |-> q.op, asg |-> q.asg, subject |-> q.subject,
                cap |-> q.cap, value |-> q.value]

(* The row a command hangs from: its token or its intent.                   *)
SubjectOf(q) ==
  {f \in Facts(IF q.op = "create" THEN "token" ELSE "create") : f.id = q.subject}

ReceiptsFor(q) == {r \in receipts : r.op = q.op /\ r.key = q.key}
OriginOf(f) == {r.material : r \in {s \in receipts : s.fact = f.id /\ s.result = "NEW"}}

(* rowToFact and readConsentAuthorizationFacts.                             *)
ConsentEvent(f) ==
  [seq |-> f.seq, captured |-> f.at, recorded |-> f.recorded,
   action |-> IF f.op = "grant" THEN "GRANTED" ELSE "WITHDRAWN",
   provenance |-> IF f.op = "grant" THEN f.value ELSE None,
   asserted |-> IF f.op = "grant" THEN None ELSE f.value]
EventsOf(a) ==
  {ConsentEvent(f) : f \in {g \in facts : g.asg = a /\ g.op \in ConsentOps}}
EffectiveId(a) ==
  (CHOOSE f \in facts : /\ f.asg = a /\ f.op \in ConsentOps
                        /\ f.seq = EffectiveEvent(EventsOf(a)).seq).id

NextSeq(stream) ==
  1 + (IF stream = {} THEN 0
       ELSE (CHOOSE f \in stream : \A g \in stream : g.seq <= f.seq).seq)

-----------------------------------------------------------------------------
NoAnswer == [kind |-> "none", fact |-> None]
Ok(id) == [kind |-> "Ok", fact |-> id]
Refusal(k) == [kind |-> k, fact |-> None]
NoRows == [facts |-> {}, receipts |-> {}]
NoCommand == [op |-> "none", asg |-> None, key |-> None, subject |-> None,
              cap |-> None, value |-> None]

Now(c) == clock + lead[c]

(* The row locks a call holds, and the uncommitted receipt of its           *)
(* transaction.                                                             *)
Open == {"lockIntent", "execute", "insertEvent", "insertReceipt", "commit"}
HoldsAssignment(c, a) == pc[c] \in Open /\ cmd[c].asg = a
HoldsIntent(c, i) ==
  pc[c] \in Open \ {"lockIntent"} /\ cmd[c].op \in IntentOps /\ cmd[c].subject = i
HoldsReceipt(c, op, k) ==
  pc[c] = "commit" /\ \E r \in staged[c].receipts : r.op = op /\ r.key = k

Goto(c, label) == pc' = [pc EXCEPT ![c] = label]

(* The call returns or throws, and an open transaction ends with nothing    *)
(* written.                                                                 *)
Finish(c, a) ==
  /\ Goto(c, "done")
  /\ answer' = [answer EXCEPT ![c] = a]
  /\ staged' = [staged EXCEPT ![c] = NoRows]
  /\ UNCHANGED <<input, began, rows, clock>>

Proceed(c, label) ==
  /\ Goto(c, label)
  /\ UNCHANGED <<input, began, staged, answer, rows, clock>>

Stage(c, fs, rs, label) ==
  /\ staged' = [staged EXCEPT ![c] = [facts |-> fs, receipts |-> rs]]
  /\ Goto(c, label)
  /\ UNCHANGED <<input, began, answer, rows, clock>>

MyFact(c, seq) ==
  [op |-> cmd[c].op, id |-> c, asg |-> cmd[c].asg, subject |-> cmd[c].subject,
   cap |-> cmd[c].cap, value |-> cmd[c].value, seq |-> seq, at |-> Now(c),
   recorded |-> None]
MyReceipt(c, id, result) ==
  [op |-> cmd[c].op, key |-> cmd[c].key, material |-> Material(cmd[c]),
   fact |-> id, result |-> result]

(* A receipt found: the same material replays its result, other material is *)
(* a conflict.                                                              *)
Replay(c) ==
  \E r \in ReceiptsFor(cmd[c]) :
    Finish(c, IF r.material = Material(cmd[c]) THEN Ok(r.fact)
              ELSE Refusal("IdempotencyConflict"))

(* The fact is already there under another key: acknowledge it with an      *)
(* alias receipt if it is the one meant.                                    *)
Acknowledge(c, f, same, conflict) ==
  IF same THEN Stage(c, {}, {MyReceipt(c, f.id, "ALIAS")}, "insertReceipt")
  ELSE Finish(c, Refusal(conflict))

(* Mutant: the collection time is taken before the lock is.                 *)
CollectStale(c, seq) ==
  IF WasCollectionAuthorized(EventsOf(cmd[c].asg), began[c], began[c])
  THEN Stage(c, {[MyFact(c, seq) EXCEPT !.at = began[c]]}, {MyReceipt(c, c, "NEW")},
             "insertReceipt")
  ELSE Finish(c, Refusal("ConsentNotAuthorized"))

(* assertCollectionAuthorized at a time sampled now, under the lock, and    *)
(* then the insert of the fact.                                             *)
Collect(c, seq) ==
  LET events == EventsOf(cmd[c].asg) IN
  IF ~Derivable(Visible(events, Now(c))) THEN Finish(c, Refusal("InvalidHistory"))
  ELSE IF WasCollectionAuthorized(events, Now(c), Now(c))
  THEN Stage(c, {MyFact(c, seq)}, {MyReceipt(c, c, "NEW")}, "insertReceipt")
  ELSE Finish(c, Refusal("ConsentNotAuthorized"))

-----------------------------------------------------------------------------
Init ==
  /\ scene \in DOMAIN Scenario
  /\ cmd = [c \in Call |-> NoCommand]
  /\ lead \in [Call -> 0..Skew]
  /\ pc = [c \in Call |-> "idle"]
  /\ began = [c \in Call |-> 0]
  /\ staged = [c \in Call |-> NoRows]
  /\ answer = [c \in Call |-> NoAnswer]
  /\ facts = Scenario[scene].facts
  /\ receipts = Scenario[scene].receipts
  /\ clock = 1

(* The service has validated the request and checked that the caller owns   *)
(* the assignment; the transaction starts.                                  *)
Begin(c) ==
  /\ pc[c] = "idle"
  /\ \E q \in Scenario[scene].commands : cmd' = [cmd EXCEPT ![c] = q]
  /\ Goto(c, "lockAssignment")
  /\ began' = [began EXCEPT ![c] = Now(c)]
  /\ UNCHANGED <<scene, lead, staged, answer, rows, clock>>

(* Mutant: the assignment row is read without FOR UPDATE.                   *)
LockAssignmentFree(c) ==
  /\ pc[c] = "lockAssignment"
  /\ Proceed(c, IF cmd[c].op \in IntentOps THEN "lockIntent" ELSE "execute")

(* lockAssignment: SELECT ... FOR UPDATE on the assignment row.             *)
LockAssignment(c) ==
  /\ pc[c] = "lockAssignment"
  /\ \A d \in Call \ {c} : ~HoldsAssignment(d, cmd[c].asg)
  /\ Proceed(c, IF cmd[c].op \in IntentOps THEN "lockIntent" ELSE "execute")

(* lockIntent: the intent row, wherever it belongs, and then its owner.     *)
LockIntent(c) ==
  /\ pc[c] = "lockIntent"
  /\ \A d \in Call \ {c} : ~HoldsIntent(d, cmd[c].subject)
  /\ IF SubjectOf(cmd[c]) # {}
     THEN Proceed(c, "execute")
     ELSE Finish(c, Refusal("UnknownRow"))

Executing(c, op) == pc[c] = "execute" /\ cmd[c].op = op

(* Past the ownership check, with no receipt for the key yet.               *)
Owned(c) ==
  \/ cmd[c].subject = None
  \/ \E f \in SubjectOf(cmd[c]) : f.asg = cmd[c].asg
Fresh(c) == Owned(c) /\ ReceiptsFor(cmd[c]) = {}

(* The ownership check, and then the receipt look-up, of every command; a   *)
(* row that does not exist is the repository's invariant error.             *)
RefuseForeign(c) ==
  /\ pc[c] = "execute"
  /\ ~Owned(c)
  /\ Finish(c, Refusal(IF SubjectOf(cmd[c]) = {} THEN "UnknownRow"
                       ELSE "OwnershipError"))

ReplayReceipt(c) ==
  /\ pc[c] = "execute"
  /\ Owned(c)
  /\ Replay(c)

(* issueCaptureToken: the nonce resolves once; no receipt, no consent gate. *)
IssueCaptureToken(c) ==
  /\ Executing(c, "token")
  /\ LET issued == {t \in InAssignment("token", cmd[c].asg) : t.cap = cmd[c].cap} IN
     \/ \E t \in issued : Finish(c, Ok(t.id))
     \/ issued = {} /\ Stage(c, {MyFact(c, 0)}, {}, "commit")

(* Mutant: a second create on a token is an alias, whatever it asks for.    *)
CreateAliasUnchecked(c) ==
  /\ Executing(c, "create") /\ Fresh(c)
  /\ \/ \E i \in On("create", cmd[c].subject) : Acknowledge(c, i, TRUE, "CaptureConflict")
     \/ On("create", cmd[c].subject) = {} /\ Collect(c, 0)

(* createPurchaseIntent: at most one intent per token.                      *)
CreatePurchaseIntent(c) ==
  /\ Executing(c, "create") /\ Fresh(c)
  /\ \/ \E i \in On("create", cmd[c].subject) :
          Acknowledge(c, i, OriginOf(i) = {Material(cmd[c])}, "CaptureConflict")
     \/ On("create", cmd[c].subject) = {} /\ Collect(c, 0)

(* appendContext: only while the intent is neither finalized nor            *)
(* invalidated, and once per capture key.                                   *)
AppendContext(c) ==
  /\ Executing(c, "context") /\ Fresh(c)
  /\ LET intent == cmd[c].subject
         prior == {x \in On("context", intent) : x.cap = cmd[c].cap} IN
     IF On("finalize", intent) # {}
     THEN Finish(c, Refusal("ContextAfterFinalization"))
     ELSE IF On("invalidate", intent) # {}
     THEN Finish(c, Refusal("Invalidated"))
     ELSE \/ \E x \in prior :
               Acknowledge(c, x, OriginOf(x) = {Material(cmd[c])}, "ContextConflict")
          \/ prior = {} /\ Collect(c, NextSeq(On("context", intent)))

(* appendEligibilityProfile: once per capture key of the assignment.        *)
AppendEligibilityProfile(c) ==
  /\ Executing(c, "profile") /\ Fresh(c)
  /\ LET profiles == InAssignment("profile", cmd[c].asg)
         prior == {p \in profiles : p.cap = cmd[c].cap} IN
     \/ \E p \in prior :
          Acknowledge(c, p, OriginOf(p) = {Material(cmd[c])}, "EligibilityProfileConflict")
     \/ prior = {} /\ Collect(c, NextSeq(profiles))

(* Mutant: an invalidated intent is finalized.                              *)
FinalizeInvalidated(c) ==
  /\ Executing(c, "finalize") /\ Fresh(c) /\ On("finalize", cmd[c].subject) = {}
  /\ Collect(c, 0)

(* finalize: the pins are fixed once, and belong to the intent and to its   *)
(* assignment (PinNotOwned is the code's FinalizationConflict too).         *)
PinsBelong(q) ==
  /\ \E x \in On("context", q.subject) : x.id = q.value.context
  /\ \E p \in InAssignment("profile", q.asg) : p.id = q.value.profile

Finalize(c) ==
  /\ Executing(c, "finalize") /\ Fresh(c)
  /\ LET done == On("finalize", cmd[c].subject) IN
     IF On("invalidate", cmd[c].subject) # {}
     THEN Finish(c, Refusal("Invalidated"))
     ELSE \/ \E f \in done :
               Acknowledge(c, f, f.value = cmd[c].value, "FinalizationConflict")
          \/ /\ done = {}
             /\ IF PinsBelong(cmd[c]) THEN Collect(c, 0)
                ELSE Finish(c, Refusal("PinNotOwned"))

(* invalidate: a replacement is another intent of the same assignment whose *)
(* own chain of replacements does not lead back.  Finalization is not       *)
(* looked at.                                                               *)
Replacements(intents) ==
  {f.value.replacement : f \in {g \in Facts("invalidate") : g.subject \in intents}}
    \ {None}
(* Mutant: the walk stops at the replacement itself.                        *)
ChainOfOne(i) == {i}

(* The walk from i: what is reached is the least set with i that holds the  *)
(* replacements of its members.                                             *)
Chain(i) ==
  LET walked == {S \in SUBSET ({i} \cup Replacements({f.subject : f \in Facts("invalidate")})) :
                   i \in S /\ Replacements(S) \subseteq S}
  IN  {j \in UNION walked : \A S \in walked : j \in S}

Invalidate(c) ==
  /\ Executing(c, "invalidate") /\ Fresh(c)
  /\ LET q == cmd[c]
         by == q.value.replacement
         named == {i \in Facts("create") : i.id = by}
         done == On("invalidate", q.subject) IN
     \/ \E f \in done :
          Acknowledge(c, f, OriginOf(f) = {Material(q)}, "InvalidationConflict")
     \/ /\ done = {}
        /\ IF by = None THEN Collect(c, 0)
           ELSE IF by # q.subject /\ named = {}
           THEN Finish(c, Refusal("UnknownRow"))
           ELSE IF \/ by = q.subject
                   \/ \E i \in named : i.asg # q.asg
                   \/ q.subject \in Chain(by)
           THEN Finish(c, Refusal("InvalidationCycle"))
           ELSE Collect(c, 0)

(* recordConsentCommand: evaluate under the lock, append or acknowledge.    *)
RecordConsentCommand(c) ==
  /\ pc[c] = "execute" /\ cmd[c].op \in ConsentOps /\ Fresh(c)
  /\ LET events == EventsOf(cmd[c].asg)
         decision == IF cmd[c].op = "grant" THEN EvaluateGrant(events, cmd[c].value)
                     ELSE EvaluateWithdraw(events, cmd[c].value) IN
     CASE decision = "APPEND" ->
            Stage(c, {MyFact(c, NextSeq(events))}, {MyReceipt(c, c, "NEW")}, "insertEvent")
       [] decision \in {"NO_OP_EFFECTIVE_STATE", "CORRECTION_NOT_APPLIED"} ->
            Stage(c, {}, {MyReceipt(c, EffectiveId(cmd[c].asg), "ALIAS")}, "insertReceipt")
       [] decision \in {"INVALID_TRANSITION", "UPDATE_NOT_SUPPORTED"} ->
            Finish(c, Refusal(decision))

(* Mutant: the event is inserted without the default of recordedAt.         *)
InsertEventUndated(c) ==
  /\ pc[c] = "insertEvent"
  /\ Proceed(c, "insertReceipt")

(* The event's recordedAt is the column default, taken by the client engine *)
(* at the insert or by the database when the transaction began; capturedAt  *)
(* was sampled by the statement before.                                     *)
InsertEvent(c) ==
  /\ pc[c] = "insertEvent"
  /\ \E t \in began[c]..Now(c) :
       Stage(c, {[f EXCEPT !.recorded = t] : f \in staged[c].facts},
             staged[c].receipts, "insertReceipt")

(* Mutant: a taken key is tried again.                                      *)
InsertReceiptAgain(c) ==
  /\ pc[c] = "insertReceipt"
  /\ ReceiptsFor(cmd[c]) = {}
  /\ \A d \in Call \ {c} : ~HoldsReceipt(d, cmd[c].op, cmd[c].key)
  /\ Proceed(c, "commit")

(* The receipt's unique index: wait for an open transaction, fail on a      *)
(* committed row.  Only a consent command reconciles to the row it met; the *)
(* intent operations classify the violation and throw their invariant error.*)
InsertReceipt(c) ==
  /\ pc[c] = "insertReceipt"
  /\ \A d \in Call \ {c} : ~HoldsReceipt(d, cmd[c].op, cmd[c].key)
  /\ IF ReceiptsFor(cmd[c]) = {} THEN Proceed(c, "commit")
     ELSE IF cmd[c].op \in ConsentOps THEN Stage(c, {}, {}, "reconcile")
     ELSE Finish(c, Refusal("UnexpectedRace"))

Commit(c) ==
  /\ pc[c] = "commit"
  /\ facts' = facts \cup staged[c].facts
  /\ receipts' = receipts \cup staged[c].receipts
  /\ staged' = [staged EXCEPT ![c] = NoRows]
  /\ answer' = [answer EXCEPT ![c] =
       IF staged[c].receipts = {} THEN Ok(c)
       ELSE Ok((CHOOSE r \in staged[c].receipts : TRUE).fact)]
  /\ Goto(c, "done")
  /\ UNCHANGED <<input, began, clock>>

Reconcile(c) ==
  /\ pc[c] = "reconcile"
  /\ Replay(c)

(* The process, the connection or the transaction's time limit dies.        *)
Crash(c) ==
  /\ pc[c] \in Open \cup {"lockAssignment", "reconcile"}
  /\ Stage(c, {}, {}, "crashed")

Tick ==
  /\ clock < Scenario[scene].until
  /\ clock' = clock + 1
  /\ UNCHANGED <<input, pc, began, staged, answer, rows>>

Step(c) ==
  \/ LockAssignment(c) \/ LockIntent(c) \/ RefuseForeign(c) \/ ReplayReceipt(c)
  \/ IssueCaptureToken(c) \/ CreatePurchaseIntent(c) \/ AppendContext(c)
  \/ AppendEligibilityProfile(c) \/ Finalize(c) \/ Invalidate(c)
  \/ RecordConsentCommand(c) \/ InsertEvent(c) \/ InsertReceipt(c) \/ Commit(c)
  \/ Reconcile(c)

Terminated ==
  /\ \A c \in Call : pc[c] \in {"done", "crashed"}
  /\ UNCHANGED vars

Next ==
  \/ \E c \in Call : Begin(c) \/ Step(c) \/ Crash(c)
  \/ Tick
  \/ Terminated

Spec == Init /\ [][Next]_vars

(* A transaction nobody holds up gets its statements executed.              *)
FairSpec == Spec /\ \A c \in Call : WF_vars(Step(c))

-----------------------------------------------------------------------------
(* A row is named by the call that inserts it.                              *)
Ids == Call \cup UNION {{f.id : f \in Scenario[s].facts} : s \in DOMAIN Scenario}

TypeOK ==
  LET MaxClock == Scenario[scene].until
      FactOK(f) ==
        /\ DOMAIN f = {"op", "id", "asg", "subject", "cap", "value", "seq", "at", "recorded"}
        /\ f.op \in FactOps \cup ConsentOps /\ f.id \in Ids /\ f.asg \in Assignment
        /\ f.seq \in Nat /\ f.at \in 0..(MaxClock + Skew)
        /\ f.recorded \in 0..(MaxClock + Skew) \cup {None}
      ReceiptOK(r) ==
        /\ DOMAIN r = {"op", "key", "material", "fact", "result"}
        /\ r.key \in Key /\ r.fact \in Ids /\ r.result \in {"NEW", "ALIAS"}
        /\ r.op = r.material.op
  IN
  /\ cmd \in [Call -> Scenario[scene].commands \cup {NoCommand}]
  /\ lead \in [Call -> 0..Skew]
  /\ pc \in [Call -> Open \cup {"idle", "lockAssignment", "reconcile", "done", "crashed"}]
  /\ began \in [Call -> 0..(MaxClock + Skew)]
  /\ \A c \in Call : /\ \A f \in staged[c].facts : FactOK(f)
                      /\ \A r \in staged[c].receipts : ReceiptOK(r)
                      /\ answer[c].fact \in Ids \cup {None}
  /\ \A f \in facts : FactOK(f) /\ (f.recorded = None <=> f.op \notin ConsentOps)
  /\ \A r \in receipts : ReceiptOK(r)
  /\ clock \in 1..MaxClock

(* The two row locks suffice: no two facts ever take one capture nonce, one *)
(* token, one capture key, one finalization or invalidation slot, or one    *)
(* number of a stream, although the model enforces none of those unique     *)
(* indexes, and the numbers of every stream run from 1 without a gap.       *)
Numbered(stream) ==
  /\ \A f, g \in stream : f.seq = g.seq => f = g
  /\ {f.seq : f \in stream} = 1..Cardinality(stream)
Once(stream) == \A f, g \in stream : f.cap = g.cap => f = g

LocksSerialize ==
  /\ \A a \in Assignment :
       /\ Once(InAssignment("token", a)) /\ Once(InAssignment("profile", a))
       /\ Numbered(InAssignment("profile", a)) /\ Numbered(EventsOf(a))
  /\ \A t \in Facts("token") : Cardinality(On("create", t.id)) <= 1
  /\ \A i \in Facts("create") :
       /\ Once(On("context", i.id)) /\ Numbered(On("context", i.id))
       /\ Cardinality(On("finalize", i.id)) <= 1
       /\ Cardinality(On("invalidate", i.id)) <= 1

(* Fact and origin receipt commit together, once; a receipt only ever       *)
(* acknowledges the fact its material describes, under whichever key it was *)
(* sent, except a withdrawal whose correction was not applied.              *)
ReceiptsCoherent ==
  /\ \A f \in facts : f.op # "token" =>
       \E r \in receipts : /\ r.fact = f.id /\ r.result = "NEW"
                          /\ \A s \in receipts : s.fact = f.id /\ s.result = "NEW" => s = r
  /\ \A r \in receipts : \E f \in ById(r.fact) :
       /\ f.op = r.op /\ f.asg = r.material.asg
       /\ f.subject = r.material.subject /\ f.cap = r.material.cap
       /\ f.value = r.material.value \/ (f.op = "withdraw" /\ r.result = "ALIAS")

(* One idempotency key names one result for ever: a caller told Ok is told  *)
(* of a durable fact of its own assignment that is what it asked for, two   *)
(* calls of one operation and key that are both told Ok hold the same one,  *)
(* and when one of two identical calls is told Ok the other is not told     *)
(* that it conflicts.                                                       *)
Conflicts == {"IdempotencyConflict", "CaptureConflict", "ContextConflict",
              "EligibilityProfileConflict", "FinalizationConflict",
              "InvalidationConflict", "UnexpectedRace"}
KeysName ==
  \A c, d \in Call :
    /\ answer[c].kind = "Ok"
    /\ cmd[c].op = cmd[d].op /\ cmd[c].key = cmd[d].key /\ cmd[c].op # "token"
    => /\ \E f \in ById(answer[c].fact) :
            /\ f.asg = cmd[c].asg /\ f.subject = cmd[c].subject /\ f.cap = cmd[c].cap
            /\ f.value = cmd[c].value \/ f.op = "withdraw"
       /\ answer[d].kind = "Ok" => answer[d].fact = answer[c].fact
       /\ cmd[c] = cmd[d] => answer[d].kind \notin Conflicts

(* What clients quote to each other does not cross over: a finalization     *)
(* pins a context of its intent and a profile of its own assignment, a      *)
(* replacement stays within the assignment, and chains of replacements end, *)
(* whatever order the invalidations of several intents were sent in: no set *)
(* of intents is replaced by its own members.                               *)
QuotesCoherent ==
  LET replaced == {f \in Facts("invalidate") : f.value.replacement # None} IN
  /\ \A f \in Facts("finalize") :
       /\ \E x \in On("context", f.subject) : x.id = f.value.context
       /\ \E p \in InAssignment("profile", f.asg) : p.id = f.value.profile
       /\ \E i \in Facts("create") : i.id = f.subject /\ i.asg = f.asg
  /\ \A f \in replaced : \A i \in ById(f.value.replacement) : i.asg = f.asg
  /\ \A circle \in (SUBSET {f.subject : f \in replaced}) \ {{}} :
       \E f \in replaced : f.subject \in circle /\ f.value.replacement \notin circle

(* Consent Model A: no fact is committed once the withdrawal is, nor at a   *)
(* time before the grant.                                                   *)
NoCollectionAfterWithdrawal ==
  [][\A f \in facts' \ facts : f.op \in CollectionOps =>
       /\ EffectiveConsentState(EventsOf(f.asg)) = "GRANTED"
       /\ EffectiveEvent(EventsOf(f.asg)).captured <= f.at]_vars

(* No cycle of waits on assignment row, intent row and receipt index: every *)
(* call that starts its transaction returns, throws or dies.                *)
EveryCallAnswers ==
  \A c \in Call : pc[c] = "lockAssignment" ~> pc[c] \in {"done", "crashed"}

(* The locked transactions implement the atomic study record.               *)
Record == INSTANCE StudyRecord WITH
  Id <- Ids,
  consent <- [a \in Assignment |-> EffectiveConsentState(EventsOf(a))],
  profiles <- [a \in Assignment |-> Cardinality(InAssignment("profile", a))],
  intents <- {[id |-> i.id, asg |-> i.asg,
               versions |-> Cardinality(On("context", i.id)),
               pinned |-> On("finalize", i.id) # {},
               void |-> On("invalidate", i.id) # {}] : i \in Facts("create")}
ImplementsRecord == Record!Spec

-----------------------------------------------------------------------------
(* A statement of purchase-intent-repository.ts:11-12 that its code does    *)
(* not keep: the one intent lock makes finalize and invalidate unable ever  *)
(* both to commit against one intent.                                       *)
NeverBothCommit ==
  \A f \in Facts("finalize") : On("invalidate", f.subject) = {}
=============================================================================
