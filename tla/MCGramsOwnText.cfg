SPECIFICATION Spec
CONSTANTS
  Chars <- MCChars
  Lower <- MCLower
  Fold <- MCFold
  Lines <- MCLines
  MaxDocs = 2
  Requests <- MCRequests
  Limits = {1, 2}
  Width <- MCWidth
  MaxLen = 7
INVARIANT
  TextFindsItself
\* a search, or its last page, ends a behaviour
CHECK_DEADLOCK FALSE
