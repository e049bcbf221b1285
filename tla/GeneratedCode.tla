--------------------------- MODULE GeneratedCode ---------------------------
(***************************************************************************)
(* Code as the engineer stage or a user writes it, for CompileGate.  The   *)
(* writer keeps to the forms the gate's comments and tests promise to      *)
(* understand, and to those of Forms; it knows what it has left open, what *)
(* of its text is code, and which mistake it has made.  The gate sees the  *)
(* text only.                                                              *)
(***************************************************************************)
EXTENDS CompileGate

CONSTANTS Form,       \* "export", "string", "comment", "call", "type", "element",
                      \* "text", "mistake", and "word<": an element after a word of text
          Dialects    \* bound: the forms used together, and in how many tokens

ASSUME DialectAssumption == \A d \in Dialects : d.forms \subseteq Form /\ d.tokens \in Nat

VARIABLES text,
          code,      \* the text, blank where it is string or comment
          open,      \* what is open: brackets and elements
          where,     \* what is written next
          said,      \* the words that Validate looks for, as far as they were meant
          mistake,   \* the first errors it made, of brackets and of tags
          dialect,
          tokens

vars == <<text, code, open, where, said, mistake, dialect, tokens>>

Here == Line(text, Len(text))
Ends(letters) == At(text, Len(text)) \in letters
(* The last letter that is code. *)
CodeEnds(letters) ==
  LET k == Before(code, Len(code) + 1) IN k > 0 /\ code[k] \in letters
Top == open[Len(open)]
Below == SubSeq(open, 1, Len(open) - 1)
Uses(form) == form \in dialect.forms

(* Letters of code and letters that the gate must not see as code. *)
WriteBoth(letters, seen) ==
  /\ tokens < dialect.tokens
  /\ tokens' = tokens + 1
  /\ text' = text \o letters /\ code' = code \o seen
  /\ UNCHANGED dialect
Write(letters) == WriteBoth(letters, letters)
Unseen(letters) == [i \in DOMAIN letters |-> IF letters[i] = Newline THEN Newline ELSE Blank]
Becomes(next) == where' = next /\ UNCHANGED <<said, mistake>>
(* A frame says what is open, with which letter it was opened, and what follows it. *)
OpenOne(what, letter, after) ==
  open' = Append(open, [what |-> what, at |-> Len(text) + letter, after |-> after])
Element == {"A", "B"}
(* The innermost of these that is open, or 0. *)
Innermost(kinds) == Max({d \in DOMAIN open : open[d].what \in kinds} \cup {0})

Init ==
  /\ text = << >> /\ code = << >> /\ open = << >>
  /\ where = "operand" /\ said = {} /\ tokens = 0
  /\ mistake = [brackets |-> Fine, tags |-> Fine]
  /\ dialect \in Dialects

-----------------------------------------------------------------------------
(* Expressions and statements. *)

Export ==
  /\ Uses("export") /\ text = << >>
  /\ Write(<<"export", Blank, "default", Blank>>)
  /\ said' = {"export"}
  /\ UNCHANGED <<open, where, mistake>>
Name ==
  /\ where \in {"operand", "statement"}
  /\ \E word \in {"x"} \cup (IF Uses("export") THEN {"execSync"} ELSE {}) :
       /\ Write(<<word>>)
       /\ said' = said \cup ({word} \ {"x"})
  /\ where' = "value"
  /\ UNCHANGED <<open, mistake>>
Return ==
  /\ where = "operand" /\ ~Ends({"=", "<", "(", ">"}) /\ text # << >>
  /\ Write(<<"return", Blank>>)
  /\ Becomes("operand") /\ UNCHANGED open

(* What stands in a string or a comment.  A quote in a string is escaped. *)
Hidden == {<<"(", "<", "A", ">">>, <<"/", "/", Tick>>, <<"export", Blank, "default">>}
String ==
  /\ Uses("string") /\ where = "operand"
  /\ \E s \in Hidden \cup {<<Escape, Quote>>, <<Escape, Escape>>} :
       LET string == <<Quote>> \o s \o <<Quote>> IN WriteBoth(string, Unseen(string))
  /\ Becomes("value") /\ UNCHANGED open
Template ==
  /\ Uses("string") /\ where = "operand"
  /\ \E s \in {<<Quote, Newline, "(">>, <<Escape, Tick, "/", "*">>} :
       LET template == <<Tick>> \o s \o <<Tick>> IN WriteBoth(template, Unseen(template))
  /\ Becomes("value") /\ UNCHANGED open
Comment ==
  /\ Uses("comment") /\ where \in {"operand", "value", "statement"}
  /\ \E s \in Hidden \cup {<<Quote>>} :
       \E comment \in {<<"/", "/">> \o s \o <<Newline>>, <<"/", "*", Newline>> \o s \o <<"*", "/">>} :
         WriteBoth(comment, Unseen(comment))
  /\ Becomes(where) /\ UNCHANGED open

(* An operator, an arrow, or a comparison, which does not follow a string. *)
Operate ==
  /\ where = "value"
  /\ \/ Write(<<"=">>)
     \/ CodeEnds({")"}) /\ Write(<<"=", ">">>)
     \/ Uses("type") /\ Ends({"x", ")"}) /\ \E op \in {"<", ">"} : Write(<<op>>)
  /\ Becomes("operand") /\ UNCHANGED open
(* Name<Type>, and <Type> before what it is asserted of *)
Generic ==
  /\ Uses("type")
  /\ \/ where = "value" /\ Ends({"x"}) /\ \E type \in {"A", "string"} : Write(<<"<", type, ">">>)
     \/ where = "operand" /\ Write(<<"<", "string", ">">>)
  /\ Becomes(where) /\ UNCHANGED open
Parenthesis ==
  /\ Uses("call") /\ where \in {"operand", "value"}
  /\ Write(<<"(">>)
  /\ OpenOne("(", 1, "value") /\ Becomes("operand")
Block ==
  /\ Uses("call") /\ where = "value" /\ CodeEnds({")"})
  /\ Write(<<"lbrace">>)
  /\ OpenOne("lbrace", 1, "statement") /\ Becomes("operand")
CloseBracket ==
  /\ open # << >> /\ Top.what \in Opener
  /\ \/ where \in {"value", "statement"}
     \/ where = "operand" /\ CodeEnds(Opener)
  /\ Write(<<Closing(Top.what)>>)
  /\ open' = Below /\ Becomes(Top.after)

-----------------------------------------------------------------------------
(* Elements, with attributes, text and expressions in braces. *)

(* Text that ends in a word makes the gate take "<" for a comparison. *)
StartTag ==
  /\ Uses("element")
  /\ \/ where = "operand"
     \/ where = "children" /\ (CodeEnds({"x"}) => Uses("word<"))
  /\ \E name \in Element :
       /\ Write(<<"<", name>>)
       /\ OpenOne(name, 1, IF where = "children" THEN "children" ELSE "value")
  /\ Becomes("tag")
Attribute ==
  /\ where = "tag"
  /\ \/ /\ Write(<<Blank, "x", "=", "lbrace">>)
        /\ OpenOne("lbrace", 4, "tag") /\ Becomes("operand")
     \/ /\ Uses("string")
        /\ WriteBoth(<<Blank, "x", "=", Quote, ">", Quote>>, <<Blank, "x", "=", Blank, Blank, Blank>>)
        /\ Becomes("tag") /\ UNCHANGED open
EndTag ==
  /\ where = "tag"
  /\ \/ Write(<<"/", ">">>) /\ open' = Below /\ Becomes(Top.after)
     \/ Write(<<">">>) /\ UNCHANGED open /\ Becomes("children")
(* Words, other text, a line break, an apostrophe after a letter *)
Text ==
  /\ Uses("text") /\ where = "children"
  /\ \E s \in {<<"x">>, <<"x", ".">>, <<"other", Newline>>, <<"x", Quote, "x">>} : Write(s)
  /\ Becomes("children") /\ UNCHANGED open
Container ==
  /\ where = "children"
  /\ Write(<<"lbrace">>)
  /\ OpenOne("lbrace", 1, "children") /\ Becomes("operand")
CloseTag ==
  /\ where = "children"
  /\ Write(<<"<", "/", Top.what, ">">>)
  /\ open' = Below /\ Becomes(Top.after)

-----------------------------------------------------------------------------
(* Mistakes.  The first counts; the writer goes on as if nothing had happened. *)

Blames(first, kinds) ==
  IF first # Fine THEN first
  ELSE [error |-> IF Innermost(kinds) = 0 THEN "unexpected" ELSE "mismatched", line |-> Here]
Misplaced(kinds, closed) == Innermost(kinds) # 0 => closed # open[Innermost(kinds)].what
WrongBracket ==
  /\ Uses("mistake") /\ where \in {"operand", "value"}
  /\ \E opener \in Opener : Misplaced(Opener, opener) /\ Write(<<Closing(opener)>>)
  /\ mistake' = [mistake EXCEPT !.brackets = Blames(@, Opener)]
  /\ where' = "value" /\ UNCHANGED <<open, said>>
WrongTag ==
  /\ Uses("mistake")
  /\ \/ where = "children"
     \/ where = "value" /\ Innermost(Element) = 0
  /\ \E name \in Element : Misplaced(Element, name) /\ Write(<<"<", "/", name, ">">>)
  /\ mistake' = [mistake EXCEPT !.tags = Blames(@, Element)]
  /\ UNCHANGED <<open, said, where>>

Next ==
  \/ Export \/ Name \/ Return \/ String \/ Template \/ Comment
  \/ Operate \/ Generic \/ Parenthesis \/ Block \/ CloseBracket
  \/ StartTag \/ Attribute \/ EndTag \/ Text \/ Container \/ CloseTag
  \/ WrongBracket \/ WrongTag

Spec == Init /\ [][Next]_vars

-----------------------------------------------------------------------------
(* The scanners see the code and nothing but the code: no string, template or *)
(* comment is taken for code, and no code for one of these, in any order of   *)
(* quotes, escapes, apostrophes and line breaks.                              *)
StripsExactly == StripStringsAndComments(text) = code

(* What a scanner finds: the first mistake, or else the innermost thing left  *)
(* open, with its line.                                                       *)
Expected(first, kinds) ==
  IF first # Fine THEN first
  ELSE IF Innermost(kinds) = 0 THEN Fine
  ELSE [error |-> "unclosed", line |-> Line(text, open[Innermost(kinds)].at)]

(* Each scanner reports its first error at its line, however the text goes on *)
(* after it; generics, comparisons and assertions are no elements, and a ">"  *)
(* in braces or strings ends no tag.                                          *)
ErrorsExact ==
  /\ BraceBalance(text) = Expected(mistake.brackets, Opener)
  /\ mistake.brackets = Fine => JsxSanity(text) = Expected(mistake.tags, Element)

(* Validate passes what is complete, without mistake, exported by code and    *)
(* free of a forbidden word, and nothing else.                                *)
PassIsComplete ==
  Validate(text) = {} <=>
    /\ open = << >> /\ mistake = [brackets |-> Fine, tags |-> Fine]
    /\ "export" \in said /\ "execSync" \notin said
    /\ Len(text) <= FileContentMaxBytes

(* "It only flags clearly unbalanced component tags ... to avoid false        *)
(* positives on valid markup": what is complete has no error of its tags.     *)
ValidMarkupPasses ==
  open = << >> /\ mistake.tags = Fine => JsxSanity(text) = Fine

=============================================================================
