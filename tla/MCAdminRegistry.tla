-------------------------- MODULE MCAdminRegistry --------------------------
(* An instance of AdminRegistry for TLC: menus of commands that collide.    *)
EXTENDS AdminRegistry

CONSTANTS k1, k2, pv, pw, px, d1, d2, x1, x2, p1, p2, p3, e1, u1, s1,
          l1, l2, l3, l4, a, b, v1, v2, q1, q2, q3

Seed(kind, id, dom, content, c) ==
  [kind |-> kind, id |-> id, dom |-> dom, content |-> content, code |-> c]
Send(op, key, dom, content) == [op |-> op, key |-> key, dom |-> dom, content |-> content]

(* A frozen protocol with an experiment, two drafts, and a participant who  *)
(* came with a key of its own; each written under a key named like the row. *)
Rows0 ==
  {Seed("protocol", p1, px, d1, None), Seed("protocol", p2, pv, d1, None),
   Seed("protocol", p3, pw, d1, None), Seed("experiment", e1, x1, p1, None),
   Seed("participant", u1, s1, v1, q3)}
Origin(op, r) == [op |-> op, key |-> r.id, hash |-> [dom |-> r.dom, content |-> r.content],
                  row |-> r.id]
Receipts0 == {Origin(r.kind, r) : r \in Rows0} \cup {Origin("freeze", r) : r \in {s \in Rows0 : s.id = p1}}
Frozen0 == {p1}

(* Two credentials of one subject, one of another.                          *)
Links0 == {[credential |-> l1, anchor |-> a], [credential |-> l2, anchor |-> a],
           [credential |-> l3, anchor |-> b]}

Pair(e, p) == [experiment |-> e, participant |-> p]
Derived(s, v) == [anchor |-> s, version |-> v]

CollidingMenus ==
  {{Send("protocol", k1, x1, d1), Send("protocol", k2, x1, d1),
    Send("protocol", k2, x1, d2), Send("protocol", k1, x2, d1)},
   {Send("freeze", k1, p2, None), Send("freeze", k2, p2, d1),
    Send("freeze", k1, p3, None), Send("protocol", k1, pv, d1)},
   {Send("freeze", k1, p2, None), Send("experiment", k1, x2, p2),
    Send("experiment", k2, x2, p2), Send("experiment", k2, x2, p1)},
   {Send("freeze", k1, p3, d2), Send("freeze", k1, x1, None),
    Send("experiment", k1, x2, x1)},
   {Send("participant", k1, l1, None), Send("participant", k2, l2, None)},
   {Send("participant", k1, l1, None), Send("participant", k1, l3, None)},
   {Send("participant", k1, l1, None), Send("participant", k2, Derived(a, v2), v1)},
   {Send("participant", k2, l4, None), Send("link", None, l4, a), Send("link", None, l4, b)},
   {Send("assignment", k1, Pair(e1, u1), None), Send("assignment", k2, Pair(e1, u1), None),
    Send("assignment", k1, Pair(e1, s1), None)}}

(* Renaming keys and credentials maps one command of these menus to the     *)
(* other, so the first call may always be given the first.                  *)
Unrenamed ==
  cmd[1] \notin {Send("participant", k2, l2, None), Send("participant", k1, l3, None)}

MCInit == Init /\ Unrenamed
MCSpec == MCInit /\ [][Next]_vars /\ Fairness
=============================================================================
