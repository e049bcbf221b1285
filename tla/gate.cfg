SPECIFICATION Spec
CONSTANTS
  FileContentMaxBytes = 20
  Form = {"export", "string", "comment", "call", "type", "element", "text", "mistake", "word<"}
  Dialects <- Dialect
INVARIANTS
  StripsExactly
  ErrorsExact
  PassIsComplete
CHECK_DEADLOCK FALSE
