SPECIFICATION Spec
CONSTANTS
  Chars <- MCChars
  Lower <- MCLower
  Fold <- MCFold
  Lines <- MCLines
  MaxDocs = 2
  Requests <- MCRequests
  Limits = {1, 2}
  Width <- MCWidth
  MaxLen = 7
INVARIANTS
  TypeOK
  SegmentAgreesWithHot
  CliMissesNothing
  CaseDoesNotMatter
  MatchIsEnclosed
  PreviewIsHonest
\* a search, or its last page, ends a behaviour
CHECK_DEADLOCK FALSE
