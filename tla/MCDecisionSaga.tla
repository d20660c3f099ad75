--------------------------- MODULE MCDecisionSaga ---------------------------
(* Instances of DecisionSaga for TLC.                                       *)
EXTENDS DecisionSaga

CONSTANTS c1, c2, c3, i1, b1, b2, b3, b4, b5, b6, b7, f1, f2

Entry(key, sets, terms) ==
  [key |-> key, sets |-> sets, items |-> <<>>, weekdays |-> <<>>, terms |-> terms]

Rule1 == [Entry("r1", [channels |-> <<"SALON", "DELIVERY">>], "cut") EXCEPT !.weekdays = <<1, 2>>]
Rule2 == Entry("r2", [channels |-> <<"SALON">>], "gift")

(* Two rules of one scope. b2 changes the engine and, with the corpus id, a *)
(* rule; b3 an operational state, under an unchanged id; b4, with the next  *)
(* holiday calendar, the order of the rules; b5 the order within a rule. b6 *)
(* repeats an element of a set, and b7 changes a rule, but not the          *)
(* declaration: they do not start.                                          *)
Base ==
  [id |-> "v1", scopes |-> <<Entry("s", [requiredContext |-> <<"AMOUNT">>], "bill")>>,
   rules |-> <<Rule1, Rule2>>, states |-> <<Entry("r1", <<>>, "live"), Entry("r2", <<>>, "live")>>]

CorpusOf ==
  b1 :> Base
    @@ b2 :> [Base EXCEPT !.id = "v2", !.rules[1].terms = "deeper cut"]
    @@ b3 :> [Base EXCEPT !.states[2].terms = "stale"]
    @@ b4 :> [Base EXCEPT !.rules = <<Rule2, Rule1>>]
    @@ b5 :> [Base EXCEPT !.rules[1].sets.channels = <<"DELIVERY", "SALON">>,
                          !.rules[1].weekdays = <<2, 1>>]
    @@ b6 :> [Base EXCEPT !.rules[2].sets.channels = <<"SALON", "SALON">>]
    @@ b7 :> [Base EXCEPT !.rules[1].terms = "deeper cut"]

DeclaredOf ==
  [b \in Build |->
     [id |-> CorpusOf[b].id,
      digest |-> NormalizeCorpusSemanticProjection(IF b = b7 THEN Base ELSE CorpusOf[b])]]

ContractOf == [b \in Build |-> IF b = b2 THEN 2 ELSE 1]

(* b4 retains the former calendar; a rollback to another does not know b4's.*)
FormatOf == [b \in Build |-> IF b = b4 THEN f2 ELSE f1]
ReadsOf == [b \in Build |-> IF b = b4 THEN {f1, f2} ELSE {f1}]

(* The calendar of b3 does not reach the intended dates.                    *)
Admitted == (Build \ {b3}) \X Intent

Symmetric == Permutations(Call)
=============================================================================
