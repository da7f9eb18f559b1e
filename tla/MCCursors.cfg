SPECIFICATION Spec
INVARIANTS
  TypeOK
  MintedNeverBreaks
  OwnSortOnly
  TotalOfItsPages
  LesserSelectorsChangeNothing
