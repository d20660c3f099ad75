------------------------- MODULE MCIntentLifecycle -------------------------
(* Instances of IntentLifecycle for TLC: what is already committed, and the *)
(* commands that race over it.                                              *)
EXTENDS IntentLifecycle, TLC

CONSTANTS c1, c2, c3, a1, a2, k1, k2, k3, g1, g2, t1, t2, t3, i1, i2, i3, x1, p1, p2, n1, u, v

Row(op, id, asg, subject, cap, value, seq) ==
  [op |-> op, id |-> id, asg |-> asg, subject |-> subject, cap |-> cap,
   value |-> value, seq |-> seq, at |-> 0,
   recorded |-> IF op = "grant" THEN 0 ELSE None]
Origin(f, key) ==
  [op |-> f.op, key |-> key, material |-> Material(f), fact |-> f.id, result |-> "NEW"]
Send(op, asg, key, subject, cap, value) ==
  [op |-> op, asg |-> asg, key |-> key, subject |-> subject, cap |-> cap, value |-> value]

(* Every seeded row was written under a key of its own, named like the row. *)
Granted1 == Row("grant", g1, a1, None, None, u, 1)
Granted2 == Row("grant", g2, a2, None, None, u, 1)
Token1 == Row("token", t1, a1, None, n1, u, 0)
Token2 == Row("token", t2, a2, None, n1, u, 0)
Token3 == Row("token", t3, a1, None, u, u, 0)
Intent1 == Row("create", i1, a1, t1, None, u, 0)
Intent2 == Row("create", i2, a2, t2, None, u, 0)
Intent3 == Row("create", i3, a1, t3, None, u, 0)
Context1 == Row("context", x1, a1, i1, u, u, 1)
Profile2 == Row("profile", p2, a2, None, u, u, 1)
Profile1 == Row("profile", p1, a1, None, u, u, 1)

Receipts(fs) == {Origin(f, f.id) : f \in {g \in fs : g.op # "token"}}
After(fs, commands, until) ==
  [facts |-> fs, receipts |-> Receipts(fs), commands |-> commands, until |-> until]

(* One intent with a context and a profile, consent standing: revision,     *)
(* finalization, invalidation and withdrawal race.                          *)
OpenIntent == {Granted1, Token1, Intent1, Context1, Profile1}
Pins(x, p) == [context |-> x, profile |-> p]
By(i) == [replacement |-> i, reason |-> u]
ClosingCommands ==
  {Send("context", a1, k1, i1, v, u), Send("context", a1, k2, i1, v, v),
   Send("finalize", a1, k1, i1, None, Pins(x1, p1)),
   Send("finalize", a1, k2, i1, None, Pins(x1, p1)),
   Send("invalidate", a1, k1, i1, None, By(None)),
   Send("withdraw", a1, k1, None, None, None),
   Send("withdraw", a1, k2, None, None, 1)}
     \cup {Send("finalize", a1, k2, i1, None, Pins(c, p1)) : c \in Call}

(* From nothing: consent, token, intent and profile.                        *)
GenesisCommands ==
  {Send("grant", a1, k1, None, None, u), Send("grant", a1, k2, None, None, v),
   Send("token", a1, k1, None, n1, u),
   Send("profile", a1, k1, None, n1, u), Send("profile", a1, k2, None, n1, u),
   Send("profile", a1, k3, None, u, u), Send("profile", a1, k3, None, n1, v)}
     \cup {Send("create", a1, k, c, None, u) : c \in Call, k \in {k1, k2}}

(* One token, and creates that race for it, retried, resent under another    *)
(* key, or asking for something else; the token is asked for again.         *)
CaptureCommands ==
  {Send("create", a1, k, t1, None, w) : k \in {k1, k2}, w \in {u, v}}
    \cup {Send("token", a1, k1, None, n1, u), Send("withdraw", a1, k1, None, None, None)}

(* Two assignments whose clients use the same keys, quote each other's ids  *)
(* and replace three intents by one another.                                *)
TwoOwners == {Granted1, Token1, Intent1, Token3, Intent3, Context1, Profile1,
              Granted2, Token2, Intent2, Profile2}
ForeignCommands ==
  {Send("context", a1, k1, i1, v, u), Send("context", a2, k1, i2, v, u),
   Send("context", a2, k1, i1, v, u), Send("context", a2, k2, n1, v, u),
   Send("create", a2, k1, t1, None, u), Send("create", a2, k1, n1, None, u),
   Send("profile", a1, k2, None, v, u), Send("profile", a2, k2, None, v, u),
   Send("grant", a1, k1, None, None, u), Send("grant", a2, k1, None, None, u),
   Send("withdraw", a1, k1, None, None, None), Send("withdraw", a2, k1, None, None, None),
   Send("finalize", a1, k1, i1, None, Pins(x1, p2)),
   Send("finalize", a1, k1, i1, None, Pins(x1, p1))}
  \cup {Send("invalidate", a1, k1, i, None, By(j)) : i \in {i1, i3}, j \in {None, i1, i2, i3, n1}}
  \cup {Send("invalidate", a1, k2, i1, None, By(i3))}

(* Consent comes and goes on processes whose clocks disagree.               *)
SkewedCommands ==
  {Send("grant", a1, k1, None, None, u), Send("withdraw", a1, k1, None, None, None),
   Send("withdraw", a1, k2, None, None, 1),
   Send("profile", a1, k1, None, u, u), Send("profile", a1, k2, None, v, u)}

(* Waits on both rows and on the receipt index.                             *)
WaitingCommands ==
  {Send("context", a1, k1, i1, v, u), Send("context", a2, k1, i2, v, u),
   Send("context", a2, k1, i1, v, u), Send("withdraw", a2, k1, None, None, None)}

Closing == [closing |-> After(OpenIntent, ClosingCommands, 2)]
Races == [genesis |-> After({}, GenesisCommands, 2),
          capture |-> After({Granted1, Token1}, CaptureCommands, 1),
          foreign |-> After(TwoOwners, ForeignCommands, 1)]
Waiting == [waiting |-> After(TwoOwners, WaitingCommands, 1)]
Skewed == [skewed |-> After({}, SkewedCommands, 2)]

Symmetric == Permutations(Call)
=============================================================================
