---------------------------- MODULE DecisionSaga ----------------------------
(***************************************************************************)
(* requestPurchaseIntentDecision (services/study-intent-decision.ts) over  *)
(* PurchaseIntentDecisionRepository: freeze the decision request of a      *)
(* finalized intent under the intent's row lock, find or make its M3.5A    *)
(* decision, bind the two.  Any number of calls resume one another's work, *)
(* under any mix of builds, and die between any two steps, while the       *)
(* participant finalizes and invalidates intents.                          *)
(*                                                                         *)
(* decideAndPersist is one step, as DecisionLedger's refinement of         *)
(* DecisionStore allows: its two keys are both functions of the intent, so *)
(* a snapshot stands here for the snapshot with its receipt.  The input    *)
(* hash covers the instant sampled at the freeze and is named by the       *)
(* request.                                                                *)
(***************************************************************************)
EXTENDS CorpusAuthority

CONSTANTS
  Call,     \* invocations; a retry or a resumed saga is another call
  Intent,   \* purchase intents
  Build,    \* deployed builds
  Contract, \* the engine's contract and input schema of each build
  Corpus,   \* the corpus source of each build
  Declared, \* the [id, digest] its runtime authority declares
  Format,   \* the schemas and the holiday calendar it freezes requests in
  Reads,    \* the formats for which it retains a parser and a calendar
  Admits,   \* <<build, intent>>: payload schemas and the holiday coverage of
            \* the intended date let it be frozen
  None      \* no row

ASSUME SagaAssumption ==
  /\ None \notin Call
  /\ \A b \in Build : Format[b] \in Reads[b]

(* The linter refuses a rule, a scope and an item that is there twice, and   *)
(* every rule brings its one state; that no weekday is repeated is only so.  *)
ASSUME CorporaAssumption == \A b \in Build : Authored(Corpus[b])

VARIABLES
  finalized,   \* the intents with a committed finalization
  invalidated, \* the intents with a committed invalidation
  requests,    \* PurchaseIntentDecisionRequest rows
  snapshots,   \* DecisionSnapshot rows, each with its receipt
  bindings,    \* PurchaseIntentDecisionBinding rows
  intent,      \* the intent each call is about
  build,       \* the build that serves it
  pc,          \* its next step
  authorities, \* the intent's state as it read it first
  frozen,      \* the request it works on
  target,      \* the snapshot it means to bind
  answer,      \* what it returned or threw
  due          \* history: whether it began when it could only succeed

tables == <<requests, snapshots, bindings>>
world == <<finalized, invalidated>>
input == <<intent, build, due>>
vars == <<world, tables, input, pc, authorities, frozen, target, answer>>

-----------------------------------------------------------------------------
Label == {"idle", "load", "findRequest", "findBinding", "lockIntent", "freeze",
          "commitFreeze", "find", "persist", "bind", "insertBinding",
          "reloadBinding", "done", "crashed"}

(* The self-check at load, and again before each freeze.                    *)
Starts == {b \in Build : AssertCorpusAuthority(Corpus[b], Declared[b])}

(* What a request pins of the build that froze it, and what a snapshot       *)
(* records of the build that decided.                                        *)
Version == [b \in Build |-> <<Contract[b], Corpus[b].id>>]
Digest == [b \in Build |-> NormalizeCorpusSemanticProjection(Corpus[b])]
Verified == {bf \in Build \X Build : VerifyProvenance(Corpus[bf[1]], Corpus[bf[2]])}

NoAnswer == [kind |-> "none", snapshot |-> None]
Ok(s) == [kind |-> "Ok", snapshot |-> s]
Refusal(k) == [kind |-> k, snapshot |-> None]

RequestsOf(i) == {r \in requests : r.intent = i}
SnapshotsOf(i) == {s \in snapshots : s.intent = i}
BindingsOf(r) == {b \in bindings : b.request = r}

(* A request is the input and the pins of the build that freezes it.        *)
OwnRequest(c) == [id |-> c, intent |-> intent[c], by |-> build[c]]

HoldsIntent(c, i) == pc[c] \in {"freeze", "commitFreeze"} /\ intent[c] = i

(* Mutant: a row must be in the format that the build itself creates.       *)
ReadableIfCurrent(c, r) == Format[r.by] = Format[build[c]]

(* parseFrozenDecisionRequest dispatches on the row's own versions, not on  *)
(* those the build creates; a format the build does not retain fails closed.*)
Readable(c, r) == Format[r.by] \in Reads[build[c]]

Drifted(c, r) == Version[build[c]] # Version[r.by] \/ Digest[build[c]] # Digest[r.by]

(* The finder's complete predicate, from the rows alone: the input of the   *)
(* request and the versions it pins; a snapshot records no corpus digest.   *)
Exact(s, r) ==
  s.intent = r.intent /\ s.request = r.id /\ Version[s.by] = Version[r.by]

Goto(c, label) == pc' = [pc EXCEPT ![c] = label]

Proceed(c, label) ==
  /\ Goto(c, label)
  /\ UNCHANGED <<world, tables, input, authorities, frozen, target, answer>>

Finish(c, a) ==
  /\ Goto(c, "done")
  /\ answer' = [answer EXCEPT ![c] = a]
  /\ UNCHANGED <<world, tables, input, authorities, frozen, target>>

(* The call goes on with request r - once parsed - or with snapshot id s.   *)
Resume(c, r, label) ==
  /\ frozen' = [frozen EXCEPT ![c] = r]
  /\ Goto(c, label)
  /\ UNCHANGED <<world, tables, input, authorities, target, answer>>
ReadThen(c, r, label) ==
  IF Readable(c, r) THEN Resume(c, r, label) ELSE Finish(c, Refusal("Unsupported"))
Aim(c, s, label) ==
  /\ target' = [target EXCEPT ![c] = s]
  /\ Goto(c, label)
  /\ UNCHANGED <<world, tables, input, authorities, frozen, answer>>

-----------------------------------------------------------------------------
NoRequest == [id |-> None]

Init ==
  /\ finalized = {} /\ invalidated = {}
  /\ requests = {} /\ snapshots = {} /\ bindings = {}
  /\ intent \in [Call -> Intent]
  /\ build \in [Call -> Starts]
  /\ pc = [c \in Call |-> "idle"]
  /\ authorities = [c \in Call |-> [finalized |-> FALSE, invalidated |-> FALSE]]
  /\ frozen = [c \in Call |-> NoRequest]
  /\ target = [c \in Call |-> None]
  /\ answer = [c \in Call |-> NoAnswer]
  /\ due = [c \in Call |-> FALSE]

(* The participant's own transactions, which lock the intent's row: a       *)
(* finalization of an intent that is open, an invalidation of any.          *)
FinalizeIntent(i) ==
  /\ i \notin finalized /\ i \notin invalidated
  /\ \A c \in Call : ~HoldsIntent(c, i)
  /\ finalized' = finalized \cup {i}
  /\ UNCHANGED <<invalidated, tables, input, pc, authorities, frozen, target, answer>>

InvalidateIntent(i) ==
  /\ i \notin invalidated
  /\ \A c \in Call : ~HoldsIntent(c, i)
  /\ invalidated' = invalidated \cup {i}
  /\ UNCHANGED <<finalized, tables, input, pc, authorities, frozen, target, answer>>

Begin(c) ==
  /\ pc[c] = "idle"
  /\ Goto(c, "load")
  /\ due' = [due EXCEPT ![c] =
       \E r \in RequestsOf(intent[c]) :
         /\ Format[r.by] \in Reads[build[c]]
         /\ \/ SnapshotsOf(intent[c]) # {}
            \/ /\ Contract[r.by] = Contract[build[c]]
               /\ SameText(Corpus[r.by], Corpus[build[c]])]
  /\ UNCHANGED <<world, tables, intent, build, authorities, frozen, target, answer>>

(* loadFinalizedDecisionAuthorities, without a lock.                        *)
Load(c) ==
  /\ pc[c] = "load"
  /\ authorities' = [authorities EXCEPT ![c] =
       [finalized |-> intent[c] \in finalized, invalidated |-> intent[c] \in invalidated]]
  /\ Goto(c, "findRequest")
  /\ UNCHANGED <<world, tables, input, frozen, target, answer>>

(* A frozen request is resumed whatever became of the intent, if the build  *)
(* can still read it; without one the intent must be finalized and not      *)
(* invalidated (case C).                                                    *)
FindRequest(c) ==
  /\ pc[c] = "findRequest"
  /\ \/ \E r \in RequestsOf(intent[c]) : ReadThen(c, r, "findBinding")
     \/ /\ RequestsOf(intent[c]) = {}
        /\ IF authorities[c].invalidated THEN Finish(c, Refusal("Invalidated"))
           ELSE IF ~authorities[c].finalized THEN Finish(c, Refusal("NotFinalized"))
           ELSE IF <<build[c], intent[c]>> \notin Admits
           THEN Finish(c, Refusal("NotAdmitted"))
           ELSE Proceed(c, "lockIntent")

(* Case A: already bound, prove it again and return it.                     *)
FindBinding(c) ==
  /\ pc[c] = "findBinding"
  /\ \/ \E b \in BindingsOf(frozen[c].id) : Aim(c, b.snapshot, "bind")
     \/ BindingsOf(frozen[c].id) = {} /\ Proceed(c, "find")

(* Mutants: no lock, and no second look at the intent under it.             *)
LockIntentFree(c) ==
  /\ pc[c] = "lockIntent"
  /\ Proceed(c, "freeze")

FreezeUnchecked(c) ==
  /\ pc[c] = "freeze"
  /\ \/ \E r \in RequestsOf(intent[c]) : Resume(c, r, "find")
     \/ RequestsOf(intent[c]) = {} /\ Resume(c, OwnRequest(c), "commitFreeze")

(* freezeDecisionRequestUnderLock: the root lock, the state again under it, *)
(* the winner's request if there is one, else this build's. That the intent *)
(* is the participant's depends on immutable rows alone and is left out.    *)
LockIntent(c) ==
  /\ pc[c] = "lockIntent"
  /\ \A d \in Call \ {c} : ~HoldsIntent(d, intent[c])
  /\ Proceed(c, "freeze")

Freeze(c) ==
  /\ pc[c] = "freeze"
  /\ IF intent[c] \in invalidated THEN Finish(c, Refusal("Invalidated"))
     ELSE IF intent[c] \notin finalized THEN Finish(c, Refusal("NotFinalized"))
     ELSE \/ \E r \in RequestsOf(intent[c]) : ReadThen(c, r, "find")
          \/ RequestsOf(intent[c]) = {} /\ Resume(c, OwnRequest(c), "commitFreeze")

CommitFreeze(c) ==
  /\ pc[c] = "commitFreeze"
  /\ requests' = requests \cup {frozen[c]}
  /\ Goto(c, "find")
  /\ UNCHANGED <<world, snapshots, bindings, input, authorities, frozen, target, answer>>

(* findExactHistoricalDecision; with nothing found, the drift gate.         *)
Find(c) ==
  /\ pc[c] = "find"
  /\ \/ \E s \in SnapshotsOf(intent[c]) :
          IF Exact(s, frozen[c]) THEN Aim(c, s.id, "bind")
          ELSE Finish(c, Refusal("HistoricalConflict"))
     \/ /\ SnapshotsOf(intent[c]) = {}
        /\ IF Drifted(c, frozen[c]) THEN Finish(c, Refusal("SemanticDrift"))
           ELSE Proceed(c, "persist")

(* Mutant: the snapshot records an input that is not the frozen one.        *)
PersistUnpinned(c) ==
  /\ pc[c] = "persist"
  /\ SnapshotsOf(intent[c]) = {}
  /\ snapshots' = snapshots \cup
       {[id |-> c, intent |-> intent[c], request |-> target[c], by |-> build[c]]}
  /\ target' = [target EXCEPT ![c] = c]
  /\ Goto(c, "bind")
  /\ UNCHANGED <<world, requests, bindings, input, authorities, frozen, answer>>

(* decideAndPersist over the frozen input: replays a decision on the same   *)
(* input, or verifies where its rules come from and makes it.               *)
Persist(c) ==
  /\ pc[c] = "persist"
  /\ \/ \E s \in SnapshotsOf(intent[c]) :
          IF s.request = frozen[c].id THEN Aim(c, s.id, "bind")
          ELSE Finish(c, Refusal("DecisionConflict"))
     \/ /\ SnapshotsOf(intent[c]) = {} /\ <<build[c], frozen[c].by>> \notin Verified
        /\ Finish(c, Refusal("NotProvenanced"))
     \/ /\ SnapshotsOf(intent[c]) = {} /\ <<build[c], frozen[c].by>> \in Verified
        /\ snapshots' = snapshots \cup
             {[id |-> c, intent |-> intent[c], request |-> frozen[c].id, by |-> build[c]]}
        /\ target' = [target EXCEPT ![c] = c]
        /\ Goto(c, "bind")
        /\ UNCHANGED <<world, requests, bindings, input, authorities, frozen, answer>>

(* bindSnapshot: reload the request, which this build has parsed, and prove the snapshot from the rows    *)
(* (proveCoherentSnapshot) ...                                              *)
Coherent(c) ==
  \E s \in SnapshotsOf(frozen[c].intent) :
    Exact(s, frozen[c]) /\ s.id = target[c] /\ frozen[c].intent \in finalized

Bind(c) ==
  /\ pc[c] = "bind"
  /\ IF frozen[c] \in requests /\ Coherent(c) THEN Proceed(c, "insertBinding")
     ELSE Finish(c, Refusal("BindingIncoherent"))

(* Mutant: a unique violation of the binding is an error as it stands.      *)
InsertBindingOrFail(c) ==
  /\ pc[c] = "insertBinding"
  /\ IF \E b \in bindings : b.request = frozen[c].id \/ b.snapshot = target[c]
     THEN Finish(c, Refusal("BindingIncoherent"))
     ELSE /\ bindings' = bindings \cup {[request |-> frozen[c].id, snapshot |-> target[c]]}
          /\ answer' = [answer EXCEPT ![c] = Ok(target[c])]
          /\ Goto(c, "done")
          /\ UNCHANGED <<world, requests, snapshots, input, authorities, frozen, target>>

(* ... then one insert, unique on the request and on the snapshot ...       *)
InsertBinding(c) ==
  /\ pc[c] = "insertBinding"
  /\ IF \E b \in bindings : b.request = frozen[c].id \/ b.snapshot = target[c]
     THEN Proceed(c, "reloadBinding")
     ELSE /\ bindings' = bindings \cup {[request |-> frozen[c].id, snapshot |-> target[c]]}
          /\ answer' = [answer EXCEPT ![c] = Ok(target[c])]
          /\ Goto(c, "done")
          /\ UNCHANGED <<world, requests, snapshots, input, authorities, frozen, target>>

(* ... and after a violation the winner's binding, proved like one's own.   *)
ReloadBinding(c) ==
  /\ pc[c] = "reloadBinding"
  /\ Finish(c, IF /\ \E b \in BindingsOf(frozen[c].id) : b.snapshot = target[c]
                  /\ Coherent(c)
               THEN Ok(target[c]) ELSE Refusal("BindingIncoherent"))

Crash(c) ==
  /\ pc[c] \notin {"idle", "done", "crashed"}
  /\ Proceed(c, "crashed")

Step(c) ==
  \/ Load(c) \/ FindRequest(c) \/ FindBinding(c) \/ LockIntent(c) \/ Freeze(c)
  \/ CommitFreeze(c) \/ Find(c) \/ Persist(c) \/ Bind(c) \/ InsertBinding(c)
  \/ ReloadBinding(c)

Terminated ==
  /\ \A c \in Call : pc[c] \in {"done", "crashed"}
  /\ UNCHANGED vars

Next ==
  \/ \E c \in Call : Begin(c) \/ Step(c) \/ Crash(c)
  \/ \E i \in Intent : FinalizeIntent(i) \/ InvalidateIntent(i)
  \/ Terminated

Spec == Init /\ [][Next]_vars

-----------------------------------------------------------------------------
RequestRow == [id : Call, intent : Intent, by : Starts]

TypeOK ==
  /\ finalized \subseteq Intent /\ invalidated \subseteq Intent
  /\ requests \subseteq RequestRow
  /\ snapshots \subseteq [id : Call, intent : Intent, request : Call, by : Starts]
  /\ bindings \subseteq [request : Call, snapshot : Call]
  /\ intent \in [Call -> Intent] /\ build \in [Call -> Starts]
  /\ pc \in [Call -> Label]
  /\ authorities \in [Call -> [finalized : BOOLEAN, invalidated : BOOLEAN]]
  /\ frozen \in [Call -> RequestRow \cup {NoRequest}]
  /\ target \in [Call -> Call \cup {None}]
  /\ answer \in [Call -> [kind : {"none", "Ok", "Invalidated", "NotFinalized",
                                  "HistoricalConflict", "SemanticDrift",
                                  "NotAdmitted", "DecisionConflict", "Unsupported",
                                  "NotProvenanced",
                                  "BindingIncoherent"},
                          snapshot : Call \cup {None}]]
  /\ due \in [Call -> BOOLEAN]

(* However many sagas race and resume, an intent has one frozen request,    *)
(* one decision and one binding, the three are about each other, and a      *)
(* caller told Ok holds exactly that decision, bound.                       *)
OneDecisionPerIntent ==
  /\ \A r, q \in requests : r.intent = q.intent => r = q
  /\ \A s, t \in snapshots : s.intent = t.intent => s = t
  /\ \A s \in snapshots : \E r \in requests : r.id = s.request /\ r.intent = s.intent
  /\ \A b \in bindings : \E s \in snapshots :
       /\ b.snapshot = s.id /\ b.request = s.request
       /\ \A d \in bindings : d.request = b.request \/ d.snapshot = b.snapshot => d = b
  /\ \A c \in Call : answer[c].kind = "Ok" =>
       \E r \in RequestsOf(intent[c]) :
         [request |-> r.id, snapshot |-> answer[c].snapshot] \in bindings

(* A decision is computed under the engine, and a corpus of the meaning,    *)
(* that its request was frozen with, though the snapshot records no digest  *)
(* to check and provenance looks at no operational state.                   *)
DecidedAsPinned ==
  \A s \in snapshots : \A r \in requests :
    s.request = r.id => /\ Contract[s.by] = Contract[r.by]
                        /\ SameMeaning(Corpus[s.by], Corpus[r.by])

(* A call that begins when its intent is decided, or frozen under its own   *)
(* engine and the text of its own corpus, in a format its build retains,    *)
(* completes it: no later invalidation, build, calendar or order of the     *)
(* rules takes a decision away.                                             *)
RepairSucceeds ==
  \A c \in Call : pc[c] = "done" /\ due[c] => answer[c].kind = "Ok"

(* The alarms never go off for nothing: no race of sagas manufactures a     *)
(* conflict, and drift is a change of engine or of meaning.                 *)
NoFalseConflict ==
  \A c \in Call :
    /\ answer[c].kind \notin {"HistoricalConflict", "DecisionConflict", "BindingIncoherent"}
    /\ answer[c].kind = "SemanticDrift" =>
         \/ Contract[build[c]] # Contract[frozen[c].by]
         \/ ~SameMeaning(Corpus[build[c]], Corpus[frozen[c].by])

(* A request is frozen only on an intent that is finalized and not          *)
(* invalidated when it commits, whatever the saga had read before.          *)
FrozenWhileOpen ==
  [][\A r \in requests' \ requests :
       r.intent \in finalized /\ r.intent \notin invalidated']_vars
=============================================================================
