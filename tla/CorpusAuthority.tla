--------------------------- MODULE CorpusAuthority ---------------------------
(* Which corpora a build runs with, and when two builds' corpora count as    *)
(* the same: the semantic digest (src/src/study/corpus-authority.ts), which  *)
(* forgets the order of what is a set, against the provenance check          *)
(* (src/src/persistence/provenance.ts), which compares entry by entry as     *)
(* they are written.                                                         *)
(*                                                                           *)
(* A corpus is its source text: [id, scopes, rules, states], the last three  *)
(* arrays of entries [key, sets, items, weekdays, terms], where sets names   *)
(* the arrays that are sets (merchantIds, channels, blackout dates ...) and  *)
(* terms is everything else; what an entry does not have is empty. The other *)
(* top-level fields are in no digest and in no input, and left out.          *)
EXTENDS Integers, SequencesExt

Parts == {"scopes", "rules", "states"}

(* A stable sort leaves of an array's order only that of elements with the   *)
(* same key: it keeps each element with its place among those.               *)
SortedBy(key, array) ==
  {<<Cardinality({j \in DOMAIN array : j <= i /\ key[j] = key[i]}), array[i]>> : i \in DOMAIN array}
KeysOf(entries) == [i \in DOMAIN entries |-> entries[i].key]

(* A digest stands for the projection it hashes.                             *)
ProjectEntry(e) ==
  [key |-> e.key,
   sets |-> [f \in DOMAIN e.sets |-> ToSet(e.sets[f])],
   items |-> SortedBy(KeysOf(e.items), e.items),
   weekdays |-> SortedBy(e.weekdays, e.weekdays),
   terms |-> e.terms]

(* Mutant: the projection leaves the operational states out.                 *)
StaticProjection(corpus) ==
  [part \in {"scopes", "rules"} |-> SortedBy(KeysOf(corpus[part]), corpus[part])]

NormalizeCorpusSemanticProjection(corpus) ==
  [part \in Parts |->
     SortedBy(KeysOf(corpus[part]),
              [i \in DOMAIN corpus[part] |-> ProjectEntry(corpus[part][i])])]

(* sortStringSet throws over an element that is listed twice.                *)
Projectable(corpus) ==
  \A e \in ToSet(corpus.scopes) \cup ToSet(corpus.rules) :
    \A f \in DOMAIN e.sets : IsInjective(e.sets[f])

(* A build loads only with the corpus its authority declares.                *)
AssertCorpusAuthority(corpus, declared) ==
  /\ corpus.id = declared.id
  /\ Projectable(corpus)
  /\ NormalizeCorpusSemanticProjection(corpus) = declared.digest

(* The scopes and rules of a frozen input are those of the corpus it was     *)
(* frozen with; the purchases considered belong to every scope.              *)
VerifyProvenance(corpus, frozenWith) ==
  /\ ToSet(frozenWith.scopes) = ToSet(corpus.scopes)
  /\ ToSet(frozenWith.rules) = ToSet(corpus.rules)
-----------------------------------------------------------------------------
(* A corpus as it is authored and linted: no entry there twice, no item      *)
(* twice in an entry, and no weekday repeated.                               *)
Array(a) == Len(a) \in Nat /\ DOMAIN a = 1 .. Len(a)
Keyed(entries) == Array(entries) /\ IsInjective(KeysOf(entries))
WellFormed(e) ==
  Keyed(e.items) /\ Array(e.weekdays) /\ IsInjective(e.weekdays)
Authored(corpus) ==
  \A part \in Parts : Keyed(corpus[part]) /\ \A i \in DOMAIN corpus[part] : WellFormed(corpus[part][i])

(* For the properties: what a corpus means, and when two are one text but    *)
(* for the order of their entries.                                           *)
MeaningOf(e) ==
  <<e.key, [f \in DOMAIN e.sets |-> ToSet(e.sets[f])], ToSet(e.items), ToSet(e.weekdays), e.terms>>
SameMeaning(c, d) ==
  /\ c.id = d.id
  /\ \A part \in Parts :
       {MeaningOf(e) : e \in ToSet(c[part])} = {MeaningOf(e) : e \in ToSet(d[part])}
SameText(c, d) ==
  c.id = d.id /\ \A part \in Parts : ToSet(c[part]) = ToSet(d[part])
=============================================================================
