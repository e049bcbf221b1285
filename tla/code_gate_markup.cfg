SPECIFICATION Spec
CONSTANTS
  FileContentMaxBytes = 20
  Form = {"element", "text", "word<"}
  Dialects <- MarkupDialect
INVARIANT
  ValidMarkupPasses
CHECK_DEADLOCK FALSE
