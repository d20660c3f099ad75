---------------------------- MODULE StudyRecord ----------------------------
(***************************************************************************)
(* What the intent and consent repositories promise together, with every   *)
(* command an atomic step: consent is granted once and withdrawn once, and *)
(* a scientific fact is collected only while it stands; an intent is       *)
(* revised while it is open, pinned at most once, voided at most once, and *)
(* never pinned after it is void.                                          *)
(***************************************************************************)
EXTENDS Naturals

CONSTANTS
  Assignment,  \* experiment assignments
  Id           \* names of intents

VARIABLES
  consent,     \* the consent state of each assignment
  profiles,    \* how many eligibility profile versions each one has
  intents      \* the intents, with their versions, pinned and void

rvars == <<consent, profiles, intents>>

ConsentStates == {"NO_CONSENT", "GRANTED", "WITHDRAWN"}
Intent == [id : Id, asg : Assignment, versions : Nat, pinned : BOOLEAN, void : BOOLEAN]

Init ==
  /\ consent \in [Assignment -> ConsentStates]
  /\ profiles \in [Assignment -> Nat]
  /\ intents \subseteq Intent
  /\ \A i \in intents : consent[i.asg] # "NO_CONSENT"

Grant(a) ==
  /\ consent[a] = "NO_CONSENT"
  /\ consent' = [consent EXCEPT ![a] = "GRANTED"]
  /\ UNCHANGED <<profiles, intents>>

Withdraw(a) ==
  /\ consent[a] = "GRANTED"
  /\ consent' = [consent EXCEPT ![a] = "WITHDRAWN"]
  /\ UNCHANGED <<profiles, intents>>

Describe(a) ==
  /\ consent[a] = "GRANTED"
  /\ profiles' = [profiles EXCEPT ![a] = @ + 1]
  /\ UNCHANGED <<consent, intents>>

Create(a, id) ==
  /\ consent[a] = "GRANTED"
  /\ \A i \in intents : i.id # id
  /\ intents' = intents \cup
       {[id |-> id, asg |-> a, versions |-> 0, pinned |-> FALSE, void |-> FALSE]}
  /\ UNCHANGED <<consent, profiles>>

(* The intent i goes on with these.                                         *)
Become(i, versions, pinned, void) ==
  /\ consent[i.asg] = "GRANTED"
  /\ intents' = (intents \ {i}) \cup
       {[id |-> i.id, asg |-> i.asg, versions |-> versions, pinned |-> pinned, void |-> void]}
  /\ UNCHANGED <<consent, profiles>>

Revise(i) ==
  /\ ~i.pinned /\ ~i.void
  /\ Become(i, i.versions + 1, FALSE, FALSE)

Pin(i) ==
  /\ ~i.pinned /\ ~i.void
  /\ i.versions > 0 /\ profiles[i.asg] > 0
  /\ Become(i, i.versions, TRUE, FALSE)

Void(i) ==
  /\ ~i.void
  /\ Become(i, i.versions, i.pinned, TRUE)

Next ==
  \/ \E a \in Assignment :
       \/ Grant(a) \/ Withdraw(a) \/ Describe(a)
       \/ \E id \in Id : Create(a, id)
  \/ \E i \in intents : Revise(i) \/ Pin(i) \/ Void(i)

Spec == Init /\ [][Next]_rvars
=============================================================================
