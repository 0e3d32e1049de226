SPECIFICATION Spec
CONSTANTS
  Grams <- MCGrams
  KeyOf <- MCKeyOf
  Corpora <- MCCorpora
  Queries <- MCQueries
  Base = 2
  MaxBuilds = 2
INVARIANTS
  TypeOK
  FirstBuildUnmixed
  AnswersTheBuild
  LookupRight
PROPERTIES
  SearchEnds
CHECK_DEADLOCK FALSE
