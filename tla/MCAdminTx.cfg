CONSTANTS
  Calls = {c1, c2}
  Exts = {101}
  Docs = {"d1", "d2"}
  Allows = {"any", "none"}
  Kinds = {"day", "month"}
  Limits = {1}
  Names = {"ops", "viewer"}
  MaxCalls = 3
SPECIFICATION MCSpec
SYMMETRY Symmetry
INVARIANTS AuditReplays AuditLegal AnswersExplained AccessExplained
CHECK_DEADLOCK FALSE
