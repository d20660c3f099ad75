-------------------------- MODULE MCDecisionLedger --------------------------
(* An instance of DecisionLedger for TLC: three callers with every mix of   *)
(* keys, business decisions, inputs and builds. Calls, keys and business    *)
(* decisions may be exchanged for one another. A run that checks liveness   *)
(* cannot declare that as a symmetry, so the initial states are taken one   *)
(* from each class instead: the calls come in the order of their input and  *)
(* build, then of their keys, and the first uses the first keys.            *)
EXTENDS DecisionLedger, TLC

CONSTANTS c1, c2, c3, k1, k2, b1, b2, h1, h2, v1, v2

AllRequests == [key : {k1, k2}, biz : {b1, b2}, hash : {h1, h2}]

(* The old build accepts every input, the new one only h1.                  *)
Authentic == {<<v1, h1>>, <<v1, h2>>, <<v2, h1>>}

InputRank(c) == (IF req[c].hash = h1 THEN 0 ELSE 2) + (IF ver[c] = v1 THEN 0 ELSE 1)
KeyRank(c) == (IF req[c].key = k1 THEN 0 ELSE 2) + (IF req[c].biz = b1 THEN 0 ELSE 1)

OneOfEachClass ==
  /\ req[c1].key = k1 /\ req[c1].biz = b1
  /\ InputRank(c1) <= InputRank(c2)
  /\ \/ InputRank(c2) < InputRank(c3)
     \/ InputRank(c2) = InputRank(c3) /\ KeyRank(c2) <= KeyRank(c3)

MCInit == Init /\ OneOfEachClass
MCSpec == MCInit /\ [][Next]_vars /\ Fairness
=============================================================================
