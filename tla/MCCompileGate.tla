--------------------------- MODULE MCCompileGate ---------------------------
(* GeneratedCode, for TLC: every text of so many tokens of a few forms. *)
EXTENDS GeneratedCode

Of(n, forms) == [forms |-> forms, tokens |-> n]
Dialect ==
  {Of(4, {"string", "comment"}),            \* what is code
   Of(4, {"export", "string", "comment", "call"}),
   Of(7, {"call", "mistake"}),              \* what is wrong with it, and where
   Of(7, {"element", "mistake"}),
   Of(6, {"type", "call", "element", "mistake"}),
   Of(6, {"export", "call", "element", "mistake"}),
   Of(6, {"string", "element", "text", "call"}),
   Of(7, {"type", "element", "text"})}

(* With elements that follow a word of text. *)
MarkupDialect == {Of(7, {"element", "text", "word<"})}
=============================================================================
