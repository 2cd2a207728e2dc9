SPECIFICATION Spec
CONSTANTS
  Ids = {p1, p2}
  Apis = {"query", "query_tgid"}
  NoId = NoId
  Undecided = Undecided
  MaxCalls = 3
  MaxChanges = 2
INVARIANTS TypeOK QuietWhenIdle AnswerIsForTheQuery
PROPERTIES QueryEnds Refines
