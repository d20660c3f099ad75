--------------------------- MODULE MCCorpusSeason ----------------------------
(* An instance of CorpusSeason for TLC. In the first scene two years pass,   *)
(* from the days before the holiday fixture begins to a leap day after its   *)
(* end, over a participant who holds a card of every family and is a member  *)
(* of what takes members. In the second a day stands still and a portfolio   *)
(* is rewritten.                                                             *)
EXTENDS CorpusSeason

MCAlphabet == <<"AMEX", "BCP_QORE", "DINERS", "IBK_PLIN", "SIP_OH", "VISA", "gold", "socio", "uvk_club">>
Padded(token) == [token |-> token, padded |-> TRUE]
Key(fact) == [token |-> fact, padded |-> FALSE]

Card(family, network) == [family |-> family, network |-> network, tier |-> None, memberships |-> None]
Member == <<"membership", "socio_cineplanet">>
Holder ==
  [instruments |-> <<Card("SIP_OH", None), Card("IBK_PLIN", "AMEX"), Card("BCP_QORE", "AMEX"),
                     Card("DINERS", None)>>,
   privateStates |-> None,
   declarations |-> (Key(Member) :> "YES")]

NewYearsEve == [year |-> 2025, month |-> 12, day |-> 30, weekday |-> 2, second |-> 0,
                instant |-> 20452 * 86400 + LimaOffset]
ASpringDay == [year |-> 2026, month |-> 9, day |-> 23, weekday |-> 3, second |-> 0,
               instant |-> 20719 * 86400 + LimaOffset]
Cinema == [Holder EXCEPT !.instruments = <<Card("BCP_QORE", "AMEX")>>]
MCScenes ==
  {[calendar |-> NewYearsEve, until |-> 21245 * 86400, asked |-> DOMAIN ScopesV1, draft |-> Holder],
   [calendar |-> ASpringDay, until |-> ASpringDay.instant, asked |-> {"cineplanet_ticket"},
    draft |-> Cinema]}

Amex(memberships) == [Card("BCP_QORE", "AMEX") EXCEPT !.memberships = memberships]
MCCards ==
  {Amex(None), Amex(<<>>), Amex(<<Key("socio"), Key("uvk_club")>>),
   Amex(<<Padded("uvk_club"), Key("socio"), Key("uvk_club")>>), Amex(<<Key("gold")>>),
   [Card("BCP_QORE", "AMEX") EXCEPT !.tier = Key("gold")],
   [Card("BCP_QORE", "AMEX") EXCEPT !.tier = Key(None)]}
MCPrivateMaps == {None, <<>>, Key("qore_active") :> "YES"}
MCDeclarationMaps ==
  {Key(Member) :> "YES", Padded(Member) :> "YES", Key(Member) :> "NO",
   (Key(Member) :> "YES") @@ (Padded(Member) :> "YES")}
=============================================================================
