CONSTANTS
  c1 = c1  c2 = c2  c3 = c3
  i1 = i1
  b1 = b1  b2 = b2  b3 = b3  b4 = b4  b5 = b5  b6 = b6  b7 = b7
  f1 = f1  f2 = f2
  None = None
  Call = {c1, c2, c3}
  Intent = {i1}
  Build = {b1, b2, b3, b4, b5, b6, b7}
  Contract <- ContractOf
  Corpus <- CorpusOf
  Declared <- DeclaredOf
  Format <- FormatOf
  Reads <- ReadsOf
  Admits <- Admitted
SYMMETRY Symmetric
SPECIFICATION Spec
INVARIANTS TypeOK OneDecisionPerIntent DecidedAsPinned RepairSucceeds NoFalseConflict
PROPERTIES FrozenWhileOpen
