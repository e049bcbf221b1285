---------------------------- MODULE CompileGate ----------------------------
(***************************************************************************)
(* The compile gate (internal/compile/compile.go): what Validate says of a *)
(* text.  A text is a sequence of letters, each a byte that the scanners   *)
(* look at, a byte that stands for the others of its kind, or a word that  *)
(* they compare with.                                                      *)
(***************************************************************************)
EXTENDS Integers, Sequences, FiniteSetsExt

CONSTANT FileContentMaxBytes   \* limits.fileContentMaxBytes, in letters

ASSUME LimitAssumption == FileContentMaxBytes \in Nat

Newline == "newline"
Blank == "blank"
Space == {Newline, Blank}
Quote == "quote"               \* for both kinds
Tick == "tick"                 \* of a template
Escape == "escape"             \* a backslash
Word == {"x", "A", "B", "return", "export", "default", "string", "execSync"}
NameChar == Word \cup {"1", "."}
Keyword == {"return", "default"}       \* of those before an expression
TypeName == {"string"}
Opener == {"(", "lbrace"}      \* the braces are "lbrace" and "rbrace"
Closing(opener) == IF opener = "(" THEN ")" ELSE "rbrace"
(* "=" stands for every operator that nothing else looks at, and for "," *)
Operator == {"=", "<", ">", "/", "*"} \cup Opener
Letter ==
  NameChar \cup Operator \cup Space \cup {Quote, Tick, Escape, ")", "rbrace", "other"}

At(s, i) == IF i \in DOMAIN s THEN s[i] ELSE "end"
Line(s, i) == 1 + Cardinality({k \in 1 .. i : s[k] = Newline})

(* The last letter before position i that is no space, or 0. *)
Before(s, i) == Max({k \in 1 .. i - 1 : s[k] \notin Space} \cup {0})
IsKeywordAt(s, k) == At(s, k) \in Keyword /\ At(s, k - 1) \notin NameChar

(* Variant with a defect: a quote begins a string wherever it stands. *)
IsStringStartAnywhere(b, i) == TRUE
(* isStringStartPos: a quote begins a string where an operand is expected. *)
IsStringStart(b, i) ==
  LET k == Before(b, i) IN
  k = 0 \/ b[k] \in Operator \cup {Tick} \/ IsKeywordAt(b, k)

-----------------------------------------------------------------------------
(* stripStringsAndComments.  Each scan begins at position i; the last       *)
(* position it blanks is the first of these, or the end of the text.        *)

FirstOf(positions, b) == Min(positions \cup {Len(b)})
CommentEnd(b, i) ==
  FirstOf({k + 1 : k \in {l \in i .. Len(b) : b[l] = "*" /\ At(b, l + 1) = "/"}}, b)
LineEnd(b, i) == FirstOf({k - 1 : k \in {l \in i .. Len(b) : b[l] = Newline}}, b)

(* What a backslash escapes in the string or template. *)
Escaped(b, i) ==
  LET escaped[k \in i .. Len(b)] == k > i /\ b[k - 1] = Escape /\ ~escaped[k - 1] IN
  {k \in i .. Len(b) : escaped[k]}
TemplateEnd(b, i) == FirstOf({k \in i .. Len(b) : b[k] = Tick} \ Escaped(b, i), b)
(* A string ends at its quote, or before a line break that is not escaped. *)
StringEnd(b, i) ==
  LET Seen(c) == {k \in i .. Len(b) : b[k] = c} \ Escaped(b, i) IN
  FirstOf(Seen(Quote) \cup {k - 1 : k \in Seen(Newline)}, b)

(* A line break stays, unless it is escaped. *)
Blanked(b, i, j, escaped) ==
  [k \in DOMAIN b |->
     IF k \in i .. j /\ (b[k] # Newline \/ k \in escaped) THEN Blank ELSE b[k]]

(* What begins at position i: the text without it, and where the scan goes on. *)
Scan(b, i) ==
  LET Skip(end, escaped) == <<Blanked(b, i, end, escaped), end + 1>> IN
  CASE At(b, i) = "/" /\ At(b, i + 1) = "/" -> Skip(LineEnd(b, i), {})
    [] At(b, i) = "/" /\ At(b, i + 1) = "*" -> Skip(CommentEnd(b, i + 2), {})
    [] At(b, i) = Quote /\ IsStringStart(b, i) -> Skip(StringEnd(b, i + 1), Escaped(b, i + 1))
    [] At(b, i) = Tick -> Skip(TemplateEnd(b, i + 1), Escaped(b, i + 1))
    [] OTHER -> <<b, i + 1>>

(* What is before the scan has been blanked already. *)
Stripped[scan \in Seq(Letter) \X Nat] ==
  IF scan[2] > Len(scan[1]) THEN scan[1] ELSE Stripped[Scan(scan[1], scan[2])]
StripStringsAndComments(src) == Stripped[<<src, 1>>]

-----------------------------------------------------------------------------
(* The scanners keep a stack of what is open and stop at the first error.   *)

Fine == [error |-> "none", line |-> 0]

Matches(what, frame) == frame.what = what

(* A letter that opens something, or closes something, or neither ("none"). *)
Judge(state, opens, closes, line) ==
  LET stack == state.stack
      top == stack[Len(stack)]
      Error(kind) == [state EXCEPT !.first = [error |-> kind, line |-> line]] IN
  IF state.first # Fine THEN state
  ELSE IF opens # "none" THEN [state EXCEPT !.stack = Append(@, [what |-> opens, line |-> line])]
  ELSE IF closes = "none" THEN state
  ELSE IF stack = << >> THEN Error("unexpected")
  ELSE IF ~Matches(closes, top) THEN Error("mismatched")
  ELSE [state EXCEPT !.stack = SubSeq(@, 1, Len(@) - 1)]

(* opens[i] is what position i opens, closes[i] what it closes; judged[n] is *)
(* where the scanner stands after n letters.                                *)
Judged(s, opens, closes) ==
  LET judged[n \in 0 .. Len(s)] ==
        IF n = 0 THEN [stack |-> << >>, first |-> Fine]
        ELSE Judge(judged[n - 1], opens[n], closes[n], Line(s, n))
  IN judged[Len(s)]
Verdict(state) ==
  IF state.first # Fine THEN state.first
  ELSE IF state.stack = << >> THEN Fine
  ELSE [error |-> "unclosed", line |-> state.stack[Len(state.stack)].line]

(* braceBalance *)
BracketOpens(s) == [i \in DOMAIN s |-> IF s[i] \in Opener THEN s[i] ELSE "none"]
BracketCloses(s) ==
  [i \in DOMAIN s |-> IF s[i] = ")" THEN "(" ELSE IF s[i] = "rbrace" THEN "lbrace" ELSE "none"]
BraceBalance(src) ==
  LET s == StripStringsAndComments(src) IN
  Verdict(Judged(s, BracketOpens(s), BracketCloses(s)))

(* jsxPosition: whether the "<" at position i begins a tag. *)
JsxPosition(s, i) ==
  LET k == Before(s, i) IN
  \/ k = 0
  \/ s[k] \in Operator \cup {"rbrace", "."} \/ IsKeywordAt(s, k)
  \/ s[k] \notin NameChar \cup {Quote, ")", Tick}   \* a byte of text

(* How deep in braces a tag is whose attributes begin at position k. *)
Depth(s, k) ==
  LET depth[p \in k - 1 .. Len(s)] ==
        IF p < k THEN 0
        ELSE LET before == depth[p - 1] IN
             IF s[p] = "lbrace" THEN before + 1
             ELSE IF s[p] = "rbrace" /\ before > 0 THEN before - 1
             ELSE before
  IN depth
(* Whether that tag closes itself. *)
ClosesItself(s, ends) == ends # {} /\ s[Min(ends) - 1] = "/"
(* Variant with a defect: the first ">" ends a tag. *)
SelfClosesFirst(s, k) == ClosesItself(s, {p \in k .. Len(s) : s[p] = ">"})
SelfCloses(s, k) == ClosesItself(s, {p \in k .. Len(s) : s[p] = ">" /\ Depth(s, k)[p] = 0})

(* jsxSanity.  A name is one word here. *)
TagName(s, i) == IF At(s, i) \in Word THEN s[i] ELSE "none"
BeginsTag(s, i) ==
  /\ s[i] = "<" /\ TagName(s, i + 1) # "none" /\ JsxPosition(s, i)
  /\ TagName(s, i + 1) \notin TypeName
TagOpens(s) ==
  [i \in DOMAIN s |-> IF BeginsTag(s, i) /\ ~SelfCloses(s, i + 2) THEN TagName(s, i + 1) ELSE "none"]
TagCloses(s) ==
  [i \in DOMAIN s |-> IF s[i] = "<" /\ At(s, i + 1) = "/" THEN TagName(s, i + 2) ELSE "none"]
JsxSanity(src) ==
  LET s == StripStringsAndComments(src) IN
  Verdict(Judged(s, TagOpens(s), TagCloses(s)))

-----------------------------------------------------------------------------
(* Variant with a defect: strings and comments are searched too. *)
HasDefaultExportAnywhere(src) ==
  \E i \in DOMAIN src : src[i] = "export" /\ At(src, i + 1) = Blank /\ At(src, i + 2) = "default"
(* hasDefaultExport *)
HasDefaultExport(src) ==
  LET s == StripStringsAndComments(src) IN
  \E i \in DOMAIN s :
    /\ s[i] = "export"
    /\ "default" \in {At(s, i + 1), IF At(s, i + 1) = Blank THEN At(s, i + 2) ELSE "none"}

(* ForbiddenInCode; of the patterns one that can match, in any case *)
ForbiddenInCode(content) == \E i \in DOMAIN content : content[i] = "execSync"

(* Validate: the errors, each with its line. *)
Validate(src) ==
  LET Says(condition, what) == IF condition THEN {[error |-> what, line |-> 1]} ELSE {} IN
  Says(Len(src) > FileContentMaxBytes, "too long")
  \cup Says(\A i \in DOMAIN src : src[i] \in Space, "empty")
  \cup Says(ForbiddenInCode(src), "forbidden")
  \cup Says(~HasDefaultExport(src), "no default export")
  \cup ({BraceBalance(src), JsxSanity(src)} \ {Fine})

=============================================================================
