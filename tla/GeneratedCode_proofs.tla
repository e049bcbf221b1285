------------------------ MODULE GeneratedCode_proofs ------------------------
(***************************************************************************)
(* Proofs about the compile gate, for code of any length in the forms of   *)
(* GeneratedCode: Spec of GeneratedCode, whatever the dialects.            *)
(*                                                                         *)
(* The scanners are recursive functions over letters, so the text has to   *)
(* be related to them as it grows.  Core says that whatever is written     *)
(* next, the scan of strings and comments comes to its end with the code   *)
(* (Ahead), with what that rests on: how the code ends where something may *)
(* be written, and how what is open is nested (Shape).  BracketsFound and  *)
(* Tags say that a scanner, at the end of the code, has found the first    *)
(* mistake or has on its stack what is open.  A tag that has not ended may *)
(* yet close itself and be as if it had never begun, so TagsFound says     *)
(* this for every choice of which of these tags count.                     *)
(***************************************************************************)
EXTENDS GeneratedCode, SequenceTheorems, FiniteSetTheorems, NaturalsInduction, WellFoundedInduction, TLAPS


-----------------------------------------------------------------------------
(* Least and greatest numbers. *)
LEMMA MinIs ==
  ASSUME NEW T \in SUBSET Nat, T # {}
  PROVE  Min(T) \in T /\ \A j \in T : Min(T) <= j
<1>1. PICK i \in T : \A j \in T : ~(<<j, i>> \in OpToRel(<, Nat))
  BY NatLessThanWellFounded, WFMin
<1>2. \A x, y \in Nat : x < y => <<x, y>> \in OpToRel(<, Nat)
  BY DEF OpToRel
<1>3. ASSUME NEW j \in T PROVE i <= j
  <2>1. i \in Nat /\ j \in Nat
    OBVIOUS
  <2>2. ~(j < i)
    BY <1>1, <1>2, <2>1
  <2> QED
    BY <2>1, <2>2
<1> QED
  BY <1>3 DEF Min

(* The least number of a set is the one below all others. *)
LEMMA MinIsThis ==
  ASSUME NEW T \in SUBSET Nat, NEW e \in T, \A j \in T : e <= j
  PROVE  Min(T) = e
<1>1. Min(T) \in T /\ Min(T) <= e
  BY MinIs
<1>2. e \in Nat /\ Min(T) \in Nat /\ e <= Min(T)
  BY <1>1
<1> QED
  BY <1>1, <1>2

(* A set of numbers up to n that is not empty has a greatest one. *)
LEMMA MaxIs ==
  ASSUME NEW n \in Nat, NEW T \in SUBSET (0 .. n), T # {}
  PROVE  Max(T) \in T /\ \A j \in T : j <= Max(T)
<1> DEFINE R == {n - j : j \in T}
<1>1. R \in SUBSET Nat /\ R # {}
  OBVIOUS
<1>2. PICK e \in T : Min(R) = n - e
  BY <1>1, MinIs
<1>3. ASSUME NEW j \in T PROVE j <= e
  <2>1. n - e <= n - j
    BY <1>1, <1>2, MinIs
  <2> QED
    BY <2>1
<1> QED
  BY <1>3 DEF Max

(* The greatest number of a set is the one above all others. *)
LEMMA MaxIsThis ==
  ASSUME NEW T \in SUBSET Nat, NEW e \in T, \A j \in T : j <= e
  PROVE  Max(T) = e
<1>1. T \in SUBSET (0 .. e) /\ e \in Nat
  OBVIOUS
<1>2. Max(T) \in T /\ e <= Max(T)
  BY <1>1, MaxIs
<1>3. Max(T) <= e /\ Max(T) \in Nat
  BY <1>2
<1> QED
  BY <1>1, <1>2, <1>3

-----------------------------------------------------------------------------
(* Recursive functions exist: those that go on from their value at the        *)
(* position before ...                                                        *)
Recurs(f, lo, m, base, step) ==
  f[lo] = base /\ \A k \in lo + 1 .. m : f[k] = step[<<k, f[k - 1]>>]
CanRecur(lo, m, V, base, step) == \E f \in [lo .. m -> V] : Recurs(f, lo, m, base, step)

(* A recursion over numbers goes on by one. *)
LEMMA RecursOn ==
  ASSUME NEW lo \in Int, NEW m \in Int, lo < m,
         NEW V, NEW base \in V, NEW step, \A v \in V : step[<<m, v>>] \in V,
         CanRecur(lo, m - 1, V, base, step)
  PROVE  CanRecur(lo, m, V, base, step)
<1>1. PICK f \in [lo .. m - 1 -> V] : Recurs(f, lo, m - 1, base, step)
  BY DEF CanRecur
<1>2. m - 1 \in lo .. m - 1 /\ step[<<m, f[m - 1]>>] \in V
  BY <1>1
<1> DEFINE g == [k \in lo .. m |-> IF k = m THEN step[<<m, f[m - 1]>>] ELSE f[k]]
<1>3. g \in [lo .. m -> V]
  <2>1. \A k \in lo .. m : k # m => k \in lo .. m - 1
    OBVIOUS
  <2> QED
    BY <1>1, <1>2, <2>1
<1>4. g[lo] = base
  BY <1>1 DEF Recurs
<1>5. ASSUME NEW k \in lo + 1 .. m PROVE g[k] = step[<<k, g[k - 1]>>]
  <2>1. k - 1 \in lo .. m /\ k - 1 # m /\ k \in lo .. m
    OBVIOUS
  <2>2. g[k - 1] = f[k - 1]
    BY <2>1
  <2>3. CASE k = m
    BY <2>1, <2>2, <2>3
  <2>4. CASE k # m
    <3>1. k \in lo + 1 .. m - 1 /\ g[k] = f[k]
      BY <2>1, <2>4
    <3> QED
      BY <1>1, <2>2, <3>1 DEF Recurs
  <2> QED
    BY <2>3, <2>4
<1> HIDE DEF g
<1>6. Recurs(g, lo, m, base, step)
  BY <1>4, <1>5 DEF Recurs
<1> QED
  BY <1>3, <1>6 DEF CanRecur

(* A function of which each value is made from the one before exists. *)
LEMMA ForwardRecursion ==
  ASSUME NEW lo \in Int, NEW hi \in Int, lo <= hi,
         NEW V, NEW base \in V, NEW step,
         \A k \in lo + 1 .. hi, v \in V : step[<<k, v>>] \in V
  PROVE  \E f \in [lo .. hi -> V] : Recurs(f, lo, hi, base, step)
<1> DEFINE Bad == {n \in Nat : lo + n <= hi /\ ~CanRecur(lo, lo + n, V, base, step)}
<1>1. CASE Bad = {}
  <2>1. PICK n \in Nat : lo + n = hi
    <3>1. hi - lo \in Nat /\ lo + (hi - lo) = hi
      OBVIOUS
    <3> QED
      BY <3>1
  <2>2. lo + n <= hi /\ n \notin Bad
    <3>1. lo + n <= hi
      BY <2>1
    <3> HIDE DEF Bad
    <3> QED
      BY <1>1, <3>1
  <2>3. CanRecur(lo, lo + n, V, base, step)
    BY <2>2
  <2> QED
    BY <2>1, <2>3 DEF CanRecur
<1>2. CASE Bad # {}
  <2>1. PICK n \in Bad : \A j \in Bad : n <= j
    BY <1>2, MinIs
  <2>2. n \in Nat /\ lo + n <= hi /\ ~CanRecur(lo, lo + n, V, base, step)
    BY <2>1
  <2>3. CASE n = 0
    <3>1. [k \in lo .. lo |-> base] \in [lo .. lo -> V]
      OBVIOUS
    <3>2. Recurs([k \in lo .. lo |-> base], lo, lo, base, step)
      BY DEF Recurs
    <3>3. CanRecur(lo, lo, V, base, step)
      BY <3>1, <3>2 DEF CanRecur
    <3>4. lo + n = lo
      BY <2>3
    <3> QED
      BY <2>2, <3>3, <3>4
  <2>4. CASE n # 0
    <3>1. n - 1 \in Nat /\ ~(n <= n - 1) /\ lo + (n - 1) <= hi /\ lo + (n - 1) = lo + n - 1
      BY <2>2, <2>4
    <3>2. CanRecur(lo, lo + (n - 1), V, base, step)
      BY <2>1, <3>1
    <3>3. PICK m \in Int : m = lo + n /\ lo < m /\ m \in lo + 1 .. hi /\ lo + (n - 1) = m - 1
      BY <2>2, <2>4, <3>1
    <3>4. CanRecur(lo, m, V, base, step)
      BY <3>2, <3>3, RecursOn
    <3> QED
      BY <2>2, <3>3, <3>4
  <2> QED
    BY <2>3, <2>4
<1> QED
  BY <1>1, <1>2

(* ... and those that go on from their value elsewhere, until they stop.      *)
Leads(D, Stop, step, x, y) ==
  /\ y \in Stop
  /\ \A X \in SUBSET D : x \in X /\ (\A z \in X \ Stop : step[z] \in X) => y \in X

(* From where it stops, a loop leads nowhere else. *)
LEMMA LeadsStop ==
  ASSUME NEW D, NEW Stop \in SUBSET D, NEW step, NEW x \in Stop, NEW y
  PROVE  Leads(D, Stop, step, x, y) <=> y = x
<1>1. {x} \in SUBSET D /\ {x} \ Stop = {}
  OBVIOUS
<1> QED
  BY <1>1 DEF Leads

(* From elsewhere it leads where its next step leads. *)
LEMMA LeadsOn ==
  ASSUME NEW D, NEW Stop \in SUBSET D, NEW step, NEW x \in D \ Stop, step[x] \in D, NEW y
  PROVE  Leads(D, Stop, step, x, y) <=> Leads(D, Stop, step, step[x], y)
<1>1. ASSUME Leads(D, Stop, step, x, y), NEW X \in SUBSET D, step[x] \in X,
             \A z \in X \ Stop : step[z] \in X
      PROVE  y \in X
  <2>1. /\ X \cup {x} \in SUBSET D /\ x \in X \cup {x}
        /\ \A z \in (X \cup {x}) \ Stop : step[z] \in X \cup {x}
    BY <1>1
  <2>2. y \in X \cup {x} /\ y \in Stop
    BY <1>1, <2>1 DEF Leads
  <2> QED
    BY <2>2
<1> QED
  BY <1>1 DEF Leads

Steps(D, Stop, step) == Stop \in SUBSET D /\ \A x \in D \ Stop : step[x] \in D
Loops(D, Stop, step, out) == \E f : f = [x \in D |-> IF x \in Stop THEN out[x] ELSE f[step[x]]]

(* A loop that always stops has a result that each of its steps keeps. *)
LEMMA LoopRecursion ==
  ASSUME NEW D, NEW Stop, NEW step, NEW out, Steps(D, Stop, step)
  PROVE  Loops(D, Stop, step, out)
<1>0. Stop \in SUBSET D /\ \A x \in D \ Stop : step[x] \in D
  BY DEF Steps
<1> DEFINE Lands(x) == {y \in Stop : Leads(D, Stop, step, x, y)}
           f == [x \in D |-> out[CHOOSE y : y \in Lands(x)]]
<1>1. ASSUME NEW x \in Stop PROVE f[x] = out[x]
  <2>1. Lands(x) = {x}
    BY <1>0, LeadsStop
  <2>2. (CHOOSE y : y \in {x}) = x
    OBVIOUS
  <2>3. x \in D
    BY <1>0
  <2> HIDE DEF Lands
  <2> QED
    BY <2>1, <2>2, <2>3
<1>2. ASSUME NEW x \in D \ Stop PROVE f[x] = f[step[x]]
  <2>1. Lands(x) = Lands(step[x])
    <3>1. step[x] \in D
      BY <1>0
    <3> QED
      BY <1>0, <3>1, LeadsOn
  <2>2. x \in D /\ step[x] \in D
    BY <1>0
  <2> HIDE DEF Lands
  <2> QED
    BY <2>1, <2>2
<1>3. f = [x \in D |-> f[x]]
  OBVIOUS
<1> HIDE DEF f
<1>4. f = [x \in D |-> IF x \in Stop THEN out[x] ELSE f[step[x]]]
  <2>1. \A x \in D : f[x] = IF x \in Stop THEN out[x] ELSE f[step[x]]
    BY <1>1, <1>2
  <2> QED
    BY <1>3, <2>1
<1> QED
  BY <1>4 DEF Loops

-----------------------------------------------------------------------------
(* Texts. *)
LEMMA TextIs ==
  ASSUME NEW b \in Seq(Letter)
  PROVE  /\ Len(b) \in Nat /\ DOMAIN b = 1 .. Len(b) /\ b \in [1 .. Len(b) -> Letter]
         /\ \A i \in 1 .. Len(b) : b[i] \in Letter
BY LenProperties, ElementOfSeq

(* A function on 1 .. n to letters is a text of n letters. *)
LEMMA TextOf ==
  ASSUME NEW n \in Nat, NEW f \in [1 .. n -> Letter]
  PROVE  f \in Seq(Letter) /\ Len(f) = n /\ DOMAIN f = 1 .. n
<1>1. f \in Seq(Letter)
  BY SeqDef
<1>2. DOMAIN f = 1 .. n /\ DOMAIN f = 1 .. Len(f) /\ Len(f) \in Nat
  BY <1>1, LenProperties
<1> QED
  BY <1>1, <1>2

(* Blanking keeps the length of a text, and all but the blanked letters. *)
LEMMA BlankedIs ==
  ASSUME NEW b \in Seq(Letter), NEW i, NEW j, NEW e
  PROVE  /\ Blanked(b, i, j, e) \in Seq(Letter)
         /\ Len(Blanked(b, i, j, e)) = Len(b)
         /\ \A k \in 1 .. Len(b) : Blanked(b, i, j, e)[k] =
              IF k \in i .. j /\ (b[k] # Newline \/ k \in e) THEN Blank ELSE b[k]
<1>1. Blank \in Letter
  BY DEF Blank, Letter, Space
<1>2. Blanked(b, i, j, e) \in [1 .. Len(b) -> Letter]
  BY <1>1, TextIs DEF Blanked
<1>3. Len(b) \in Nat
  BY TextIs
<1>4. Blanked(b, i, j, e) \in Seq(Letter) /\ Len(Blanked(b, i, j, e)) = Len(b)
  BY <1>2, <1>3, TextOf
<1>5. DOMAIN b = 1 .. Len(b)
  BY TextIs
<1> QED
  BY <1>4, <1>5 DEF Blanked

(* The first of some positions, or the last one of the text. *)
LEMMA FirstOfIs ==
  ASSUME NEW b \in Seq(Letter), NEW P \in SUBSET Nat
  PROVE  /\ FirstOf(P, b) \in Nat
         /\ \A e \in P : e <= Len(b) /\ (\A k \in P : e <= k) => FirstOf(P, b) = e
<1>1. P \cup {Len(b)} \in SUBSET Nat /\ P \cup {Len(b)} # {}
  BY TextIs
<1>2. FirstOf(P, b) \in Nat
  BY <1>1, MinIs DEF FirstOf
<1>3. ASSUME NEW e \in P, e <= Len(b), \A k \in P : e <= k PROVE FirstOf(P, b) = e
  <2>1. e \in P \cup {Len(b)} /\ \A k \in P \cup {Len(b)} : e <= k
    BY <1>3
  <2> HIDE DEF FirstOf
  <2>2. Min(P \cup {Len(b)}) = e
    BY <1>1, <2>1, MinIsThis
  <2> QED
    BY <2>2 DEF FirstOf
<1> QED
  BY <1>2, <1>3

(* Whatever is scanned ends at some position. *)
LEMMA EndsAreNumbers ==
  ASSUME NEW b \in Seq(Letter), NEW i \in Nat, i > 0
  PROVE  /\ CommentEnd(b, i) \in Nat /\ LineEnd(b, i) \in Nat
         /\ StringEnd(b, i) \in Nat /\ TemplateEnd(b, i) \in Nat
<1>1. \A k \in i .. Len(b) : k \in Nat /\ k + 1 \in Nat /\ k - 1 \in Nat
  OBVIOUS
<1>2. {k + 1 : k \in {l \in i .. Len(b) : b[l] = "*" /\ At(b, l + 1) = "/"}} \in SUBSET Nat
  BY <1>1
<1>3. {k - 1 : k \in {l \in i .. Len(b) : b[l] = Newline}} \in SUBSET Nat
  BY <1>1
<1>4. {k \in i .. Len(b) : b[k] = Tick} \ Escaped(b, i) \in SUBSET Nat
  BY <1>1
<1>5. ({k \in i .. Len(b) : b[k] = Quote} \ Escaped(b, i))
      \cup {k - 1 : k \in {l \in i .. Len(b) : b[l] = Newline} \ Escaped(b, i)} \in SUBSET Nat
  BY <1>1
<1> QED
  BY <1>2, <1>3, <1>4, <1>5, FirstOfIs DEF CommentEnd, LineEnd, TemplateEnd, StringEnd

(* A scan gives a text again and where the scanner goes on. *)
LEMMA ScanIs ==
  ASSUME NEW b \in Seq(Letter), NEW i \in Nat
  PROVE  Scan(b, i) \in Seq(Letter) \X Nat
<1>1. ASSUME NEW e \in Nat, NEW esc PROVE <<Blanked(b, i, e, esc), e + 1>> \in Seq(Letter) \X Nat
  BY BlankedIs
<1>2. CASE i = 0
  <2>1. At(b, i) = "end"
    BY <1>2, TextIs DEF At
  <2> QED
    BY <1>2, <2>1 DEF Scan, Quote, Tick
<1>3. CASE i # 0
  <2>1. /\ LineEnd(b, i) \in Nat /\ CommentEnd(b, i + 2) \in Nat
        /\ StringEnd(b, i + 1) \in Nat /\ TemplateEnd(b, i + 1) \in Nat
    BY <1>3, EndsAreNumbers
  <2> QED
    BY <1>1, <2>1 DEF Scan
<1> QED
  BY <1>2, <1>3

(* stripStringsAndComments goes on with what its scan gives, to the end. *)
LEMMA StrippedIs ==
  ASSUME NEW b \in Seq(Letter), NEW i \in Nat
  PROVE  Stripped[<<b, i>>] = IF i > Len(b) THEN b ELSE Stripped[Scan(b, i)]
<1> DEFINE D == Seq(Letter) \X Nat
           Stop == {x \in D : x[2] > Len(x[1])}
           step == [x \in D |-> Scan(x[1], x[2])]
           out == [x \in D |-> x[1]]
<1>1. \A x \in D \ Stop : step[x] \in D
  BY ScanIs
<1>2. \E f : f = [x \in D |-> IF x \in Stop THEN out[x] ELSE f[step[x]]]
  <2>1. Steps(D, Stop, step)
    BY <1>1 DEF Steps
  <2> HIDE DEF D, Stop, step, out
  <2>2. Loops(D, Stop, step, out)
    BY <2>1, LoopRecursion
  <2> QED
    BY <2>2 DEF Loops
<1>3. \E f : f = [x \in D |-> IF x[2] > Len(x[1]) THEN x[1] ELSE f[Scan(x[1], x[2])]]
  <2>1. PICK f : f = [x \in D |-> IF x \in Stop THEN out[x] ELSE f[step[x]]]
    BY <1>2
  <2>2. \A x \in D : (IF x \in Stop THEN out[x] ELSE f[step[x]])
                      = (IF x[2] > Len(x[1]) THEN x[1] ELSE f[Scan(x[1], x[2])])
    OBVIOUS
  <2>3. f = [x \in D |-> IF x[2] > Len(x[1]) THEN x[1] ELSE f[Scan(x[1], x[2])]]
    BY <2>1, <2>2, Zenon
  <2> QED
    BY <2>3
<1>4. Stripped = [x \in D |-> IF x[2] > Len(x[1]) THEN x[1] ELSE Stripped[Scan(x[1], x[2])]]
  BY <1>3 DEF Stripped
<1>5. <<b, i>> \in D /\ <<b, i>>[1] = b /\ <<b, i>>[2] = i
  OBVIOUS
<1> QED
  BY <1>4, <1>5

-----------------------------------------------------------------------------
(* What the scan for strings and comments makes of a token. *)

(* The letters from position n + 1 on. *)
Follows(c, n, L) == n + Len(L) <= Len(c) /\ \A k \in 1 .. Len(L) : c[n + k] = L[k]
Extends(c, s) == Len(s) <= Len(c) /\ \A i \in 1 .. Len(s) : c[i] = s[i]
(* The letters of c, where it has any, in place of those of b. *)
Over(b, c) == [i \in DOMAIN b |-> IF i <= Len(c) THEN c[i] ELSE b[i]]
(* The scan comes through the letters L after s and leaves those of S. *)
Passes(s, L, S) ==
  \A c \in Seq(Letter) :
    Extends(c, s) /\ Follows(c, Len(s), L) =>
      Stripped[<<c, Len(s) + 1>>] = Stripped[<<Over(c, s \o S), Len(s) + Len(L) + 1>>]
(* Whatever follows the text, the scan comes to its end with the code. *)
Ahead(t, s) ==
  \A b \in Seq(Letter) : Extends(b, t) => Stripped[<<b, 1>>] = Stripped[<<Over(b, s), Len(s) + 1>>]

(* No string, template or comment begins in these letters. *)
Plain(L) ==
  \A k \in 1 .. Len(L) :
    /\ L[k] # Tick
    /\ L[k] = "/" => k < Len(L) /\ L[k + 1] \notin {"/", "*"}
    /\ L[k] = Quote => k > 1 /\ L[k - 1] = "x"

(* A text written over the beginning of a longer one. *)
LEMMA OverIs ==
  ASSUME NEW b \in Seq(Letter), NEW c \in Seq(Letter), Len(c) <= Len(b)
  PROVE  /\ Over(b, c) \in Seq(Letter) /\ Len(Over(b, c)) = Len(b)
         /\ \A i \in 1 .. Len(b) : Over(b, c)[i] = IF i <= Len(c) THEN c[i] ELSE b[i]
         /\ Extends(Over(b, c), c)
<1>1. /\ Len(b) \in Nat /\ DOMAIN b = 1 .. Len(b) /\ \A i \in 1 .. Len(b) : b[i] \in Letter
      /\ Len(c) \in Nat /\ \A i \in 1 .. Len(c) : c[i] \in Letter
  BY TextIs
<1>2. \A i \in 1 .. Len(b) : Over(b, c)[i] = IF i <= Len(c) THEN c[i] ELSE b[i]
  BY <1>1 DEF Over
<1>3. Over(b, c) \in [1 .. Len(b) -> Letter]
  BY <1>1 DEF Over
<1>4. Over(b, c) \in Seq(Letter) /\ Len(Over(b, c)) = Len(b)
  BY <1>1, <1>3, TextOf
<1> QED
  BY <1>1, <1>2, <1>4 DEF Extends

(* Texts of one length with the same letters are the same. *)
LEMMA SameText ==
  ASSUME NEW b \in Seq(Letter), NEW c \in Seq(Letter), Len(b) = Len(c),
         \A i \in 1 .. Len(b) : b[i] = c[i]
  PROVE  b = c
BY SeqEqual

Idle(c, i, j) == \A k \in i .. j - 1 : Scan(c, k) = <<c, k + 1>>
(* The scan skips what begins nothing. *)
LEMMA Skips ==
  ASSUME NEW c \in Seq(Letter), NEW i \in Nat, NEW j \in Nat, i <= j, j <= Len(c) + 1, Idle(c, i, j)
  PROVE  Stripped[<<c, i>>] = Stripped[<<c, j>>]
<1> DEFINE Bad == {m \in Nat : m <= j - i /\ Stripped[<<c, j - m>>] # Stripped[<<c, j>>]}
<1>1. CASE Bad = {}
  <2>1. j - i \in Nat /\ j - (j - i) = i
    OBVIOUS
  <2>2. j - i \notin Bad
    BY <1>1
  <2> HIDE DEF Bad
  <2> QED
    BY <2>1, <2>2 DEF Bad
<1>2. CASE Bad # {}
  <2>1. Bad \in SUBSET Nat
    OBVIOUS
  <2>2. PICK m \in Bad : \A e \in Bad : m <= e
    BY <1>2, <2>1, MinIs
  <2>3. m \in Nat /\ m <= j - i /\ Stripped[<<c, j - m>>] # Stripped[<<c, j>>]
    BY <2>2
  <2>. m # 0
    <3>1. m = 0 => j - m = j
      OBVIOUS
    <3> QED
      BY <2>3, <3>1
  <2> HIDE DEF Bad
  <2>4. m - 1 \in Nat /\ m - 1 \notin Bad
    BY <2>2, <2>3
  <2>5. Stripped[<<c, j - (m - 1)>>] = Stripped[<<c, j>>]
    BY <2>3, <2>4 DEF Bad
  <2>6. j - m \in Nat /\ j - m \in i .. j - 1 /\ ~(j - m > Len(c)) /\ (j - m) + 1 = j - (m - 1)
    BY <2>3, LenProperties
  <2>7. Scan(c, j - m) = <<c, j - (m - 1)>>
    BY <2>6 DEF Idle
  <2> QED
    BY <2>3, <2>5, <2>6, <2>7, StrippedIs
<1> QED
  BY <1>1, <1>2

(* The last letter that is no space. *)
LEMMA BeforeIs ==
  ASSUME NEW s \in Seq(Letter), NEW i \in Nat, i > 0, i <= Len(s) + 1
  PROVE  /\ Before(s, i) \in 0 .. i - 1
         /\ Before(s, i) # 0 => s[Before(s, i)] \notin Space
         /\ \A k \in 1 .. i - 1 : s[k] \notin Space => k <= Before(s, i)
<1> DEFINE T == {k \in 1 .. i - 1 : s[k] \notin Space} \cup {0}
<1>1. T \in SUBSET (0 .. i - 1) /\ T # {} /\ i - 1 \in Nat
  OBVIOUS
<1>2. Max(T) \in T /\ \A k \in T : k <= Max(T)
  BY <1>1, MaxIs
<1>3. Before(s, i) = Max(T)
  BY DEF Before
<1> QED
  BY <1>2, <1>3

(* The last letter before i that is no space, when only space follows it. *)
LEMMA BeforeIsThis ==
  ASSUME NEW s \in Seq(Letter), NEW i \in Nat, NEW e \in 1 .. i - 1, s[e] \notin Space,
         \A k \in e + 1 .. i - 1 : s[k] \in Space
  PROVE  Before(s, i) = e
<1> DEFINE T == {k \in 1 .. i - 1 : s[k] \notin Space} \cup {0}
<1>1. T \in SUBSET Nat /\ e \in T /\ \A k \in T : k <= e
  OBVIOUS
<1>2. Before(s, i) = Max(T)
  BY DEF Before
<1> HIDE DEF T
<1> QED
  BY <1>1, <1>2, MaxIsThis

(* What is before a position depends on the letters before it. *)
LEMMA BeforeAgrees ==
  ASSUME NEW s \in Seq(Letter), NEW c \in Seq(Letter), NEW i \in Nat,
         \A k \in 1 .. i - 1 : s[k] = c[k]
  PROVE  Before(s, i) = Before(c, i)
<1>1. {k \in 1 .. i - 1 : s[k] \notin Space} = {k \in 1 .. i - 1 : c[k] \notin Space}
  OBVIOUS
<1> QED
  BY <1>1 DEF Before

(* Letters of code pass the scanner as they are. *)
LEMMA PlainPasses ==
  ASSUME NEW s \in Seq(Letter), NEW L \in Seq(Letter), Plain(L)
  PROVE  Passes(s, L, L)
<1> SUFFICES ASSUME NEW c \in Seq(Letter), Extends(c, s), Follows(c, Len(s), L)
             PROVE  Stripped[<<c, Len(s) + 1>>] = Stripped[<<Over(c, s \o L), Len(s) + Len(L) + 1>>]
  BY DEF Passes
<1> DEFINE n == Len(s)
           m == Len(L)
<1>1. n \in Nat /\ m \in Nat /\ Len(c) \in Nat /\ n + m <= Len(c) /\ DOMAIN c = 1 .. Len(c)
  BY TextIs DEF Follows
<1>2. ASSUME NEW k \in 1 .. m PROVE Scan(c, n + k) = <<c, (n + k) + 1>>
  <2>1. c[n + k] = L[k] /\ (k < m => c[n + k + 1] = L[k + 1]) /\ (k > 1 => c[n + k - 1] = L[k - 1])
    <3>1. \A q \in 1 .. m : c[n + q] = L[q]
      BY DEF Follows
    <3>2. k < m => k + 1 \in 1 .. m
      BY <1>1
    <3>3. k > 1 => k - 1 \in 1 .. m
      BY <1>1
    <3>4. n + k + 1 = n + (k + 1) /\ n + k - 1 = n + (k - 1)
      BY <1>1
    <3> QED
      BY <3>1, <3>2, <3>3, <3>4
  <2>2. At(c, n + k) = L[k] /\ (k < m => At(c, n + k + 1) = L[k + 1])
    BY <1>1, <2>1 DEF At
  <2>3. At(c, n + k) # Tick /\ ~(At(c, n + k) = "/" /\ At(c, n + k + 1) \in {"/", "*"})
    BY <2>2 DEF Plain
  <2>4. ASSUME At(c, n + k) = Quote PROVE ~IsStringStart(c, n + k)
    <3>1. k > 1 /\ c[n + k - 1] = "x"
      BY <2>1, <2>2, <2>4 DEF Plain
    <3>2. "x" \notin Space /\ "x" \notin Operator \cup {Tick} /\ "x" \notin Keyword
      BY DEF Space, Newline, Blank, Operator, Opener, Tick, Keyword
    <3>3. Before(c, n + k) = n + k - 1
      <4>1. n + k - 1 \in 1 .. (n + k) - 1 /\ n + k \in Nat
        BY <1>1, <3>1
      <4>2. \A q \in (n + k - 1) + 1 .. (n + k) - 1 : FALSE
        BY <1>1
      <4> QED
        BY <3>1, <3>2, <4>1, <4>2, BeforeIsThis
    <3>4. At(c, n + k - 1) = "x" /\ n + k - 1 # 0
      BY <1>1, <3>1 DEF At
    <3> QED
      BY <3>1, <3>2, <3>3, <3>4 DEF IsStringStart, IsKeywordAt
  <2> QED
    BY <2>3, <2>4 DEF Scan
<1>3. Over(c, s \o L) = c
  <2>1. s \o L \in Seq(Letter) /\ Len(s \o L) = n + m
        /\ \A i \in 1 .. n + m : (s \o L)[i] = IF i <= n THEN s[i] ELSE L[i - n]
    BY ConcatProperties
  <2>2. \A i \in 1 .. n + m : (s \o L)[i] = c[i]
    <3> TAKE i \in 1 .. n + m
    <3>1. CASE i <= n
      BY <1>1, <2>1, <3>1 DEF Extends
    <3>2. CASE i > n
      <4>1. i - n \in 1 .. m /\ n + (i - n) = i /\ ~(i <= n)
        BY <1>1, <3>2
      <4> QED
        BY <2>1, <4>1 DEF Follows
    <3> QED
      BY <1>1, <3>1, <3>2
  <2> DEFINE S == s \o L
  <2> HIDE DEF S
  <2>3. S \in Seq(Letter) /\ Len(S) = n + m /\ \A i \in 1 .. n + m : S[i] = c[i]
    BY <2>1, <2>2 DEF S
  <2>4. /\ Over(c, S) \in Seq(Letter) /\ Len(Over(c, S)) = Len(c)
        /\ \A i \in 1 .. Len(c) : Over(c, S)[i] = IF i <= Len(S) THEN S[i] ELSE c[i]
    BY <1>1, <2>3, OverIs
  <2>5. \A i \in 1 .. Len(c) : Over(c, S)[i] = c[i]
    BY <1>1, <2>3, <2>4
  <2>6. Over(c, S) = c
    BY <2>4, <2>5, SameText
  <2> QED
    BY <2>6 DEF S
<1>4. Idle(c, n + 1, n + m + 1)
  <2> SUFFICES \A k \in n + 1 .. n + m + 1 - 1 : Scan(c, k) = <<c, k + 1>>
    BY DEF Idle
  <2> TAKE k \in n + 1 .. n + m + 1 - 1
  <2>1. k - n \in 1 .. m /\ n + (k - n) = k
    BY <1>1
  <2> QED
    BY <1>2, <2>1
<1>5. Stripped[<<c, n + 1>>] = Stripped[<<c, n + m + 1>>]
  <2>1. n + 1 \in Nat /\ n + m + 1 \in Nat /\ n + 1 <= n + m + 1 /\ n + m + 1 <= Len(c) + 1
    BY <1>1
  <2> HIDE DEF n, m
  <2> QED
    BY <1>4, <2>1, Skips
<1> QED
  BY <1>3, <1>5

(* When the next token passes the scanner, so do all that follow it. *)
LEMMA AheadStep ==
  ASSUME NEW t \in Seq(Letter), NEW s \in Seq(Letter), Len(t) = Len(s), Ahead(t, s),
         NEW L \in Seq(Letter), NEW S \in Seq(Letter), Len(L) = Len(S), Passes(s, L, S)
  PROVE  Ahead(t \o L, s \o S)
<1> SUFFICES ASSUME NEW b \in Seq(Letter), Extends(b, t \o L)
             PROVE  Stripped[<<b, 1>>] = Stripped[<<Over(b, s \o S), Len(s \o S) + 1>>]
  BY DEF Ahead
<1> DEFINE n == Len(s)
           m == Len(L)
           c == Over(b, s)
<1>1. n \in Nat /\ m \in Nat /\ Len(b) \in Nat
  BY TextIs
<1>2. /\ t \o L \in Seq(Letter) /\ Len(t \o L) = n + m
      /\ \A i \in 1 .. n + m : (t \o L)[i] = IF i <= n THEN t[i] ELSE L[i - n]
  <2>1. /\ t \o L \in Seq(Letter) /\ Len(t \o L) = Len(t) + m
        /\ \A i \in 1 .. Len(t) + m : (t \o L)[i] = IF i <= Len(t) THEN t[i] ELSE L[i - Len(t)]
    BY ConcatProperties
  <2> QED
    BY <2>1
<1>3. /\ s \o S \in Seq(Letter) /\ Len(s \o S) = n + m
      /\ \A i \in 1 .. n + m : (s \o S)[i] = IF i <= n THEN s[i] ELSE S[i - n]
  BY ConcatProperties
<1>4. n + m <= Len(b) /\ \A i \in 1 .. n + m : b[i] = IF i <= n THEN t[i] ELSE L[i - n]
  BY <1>2 DEF Extends
<1>5. Extends(b, t)
  BY <1>1, <1>4 DEF Extends
<1>6. Stripped[<<b, 1>>] = Stripped[<<c, n + 1>>]
  BY <1>5 DEF Ahead
<1>7. /\ c \in Seq(Letter) /\ Len(c) = Len(b) /\ Extends(c, s)
      /\ \A i \in 1 .. Len(b) : c[i] = IF i <= n THEN s[i] ELSE b[i]
  BY <1>1, <1>4, OverIs
<1> HIDE DEF c
<1>8. Follows(c, n, L)
  <2>1. ASSUME NEW k \in 1 .. m PROVE c[n + k] = L[k]
    <3>1. n + k \in 1 .. n + m /\ ~(n + k <= n) /\ (n + k) - n = k /\ n + k \in 1 .. Len(b)
      BY <1>1, <1>4
    <3> QED
      BY <1>4, <1>7, <3>1
  <2> QED
    BY <1>4, <1>7, <2>1 DEF Follows
<1>9. Stripped[<<c, n + 1>>] = Stripped[<<Over(c, s \o S), n + m + 1>>]
  BY <1>7, <1>8 DEF Passes
<1>10. Over(c, s \o S) = Over(b, s \o S)
  <2> DEFINE T == s \o S
  <2> HIDE DEF T
  <2>1. T \in Seq(Letter) /\ Len(T) = n + m /\ \A i \in 1 .. n : T[i] = s[i]
    <3>1. \A i \in 1 .. n : i \in 1 .. n + m /\ i <= n
      BY <1>1
    <3> QED
      BY <1>3, <3>1 DEF T
  <2>2. /\ Over(c, T) \in Seq(Letter) /\ Len(Over(c, T)) = Len(b)
        /\ \A i \in 1 .. Len(b) : Over(c, T)[i] = IF i <= n + m THEN T[i] ELSE c[i]
    BY <1>4, <1>7, <2>1, OverIs
  <2>3. /\ Over(b, T) \in Seq(Letter) /\ Len(Over(b, T)) = Len(b)
        /\ \A i \in 1 .. Len(b) : Over(b, T)[i] = IF i <= n + m THEN T[i] ELSE b[i]
    BY <1>4, <2>1, OverIs
  <2>4. ASSUME NEW i \in 1 .. Len(b) PROVE Over(c, T)[i] = Over(b, T)[i]
    <3>1. CASE i <= n + m
      BY <2>2, <2>3, <3>1
    <3>2. CASE ~(i <= n + m)
      <4>1. ~(i <= n)
        BY <1>1, <3>2
      <4> QED
        BY <1>7, <2>2, <2>3, <3>2, <4>1
    <3> QED
      BY <3>1, <3>2
  <2>5. Over(c, T) = Over(b, T)
    BY <2>2, <2>3, <2>4, SameText
  <2> QED
    BY <2>5 DEF T
<1> QED
  BY <1>3, <1>6, <1>9, <1>10

(* The letters of two texts written one after the other. *)
LEMMA JoinIs ==
  ASSUME NEW s \in Seq(Letter), NEW L \in Seq(Letter)
  PROVE  /\ s \o L \in Seq(Letter) /\ Len(s \o L) = Len(s) + Len(L)
         /\ \A i \in 1 .. Len(s) + Len(L) : (s \o L)[i] = IF i <= Len(s) THEN s[i] ELSE L[i - Len(s)]
         /\ \A i \in 1 .. Len(s) : (s \o L)[i] = s[i]
         /\ \A k \in 1 .. Len(L) : (s \o L)[Len(s) + k] = L[k]
<1>1. /\ s \o L \in Seq(Letter) /\ Len(s \o L) = Len(s) + Len(L)
      /\ \A i \in 1 .. Len(s) + Len(L) : (s \o L)[i] = IF i <= Len(s) THEN s[i] ELSE L[i - Len(s)]
  BY ConcatProperties
<1>2. Len(s) \in Nat /\ Len(L) \in Nat
  BY LenProperties
<1>3. ASSUME NEW i \in 1 .. Len(s) PROVE (s \o L)[i] = s[i]
  BY <1>1, <1>2
<1>4. ASSUME NEW k \in 1 .. Len(L) PROVE (s \o L)[Len(s) + k] = L[k]
  <2>1. Len(s) + k \in 1 .. Len(s) + Len(L) /\ ~(Len(s) + k <= Len(s)) /\ (Len(s) + k) - Len(s) = k
    BY <1>2
  <2> QED
    BY <1>1, <2>1
<1> QED
  BY <1>1, <1>3, <1>4

(* What the scanner must blank of a token: all but its line breaks. *)
LEMMA UnseenIs ==
  ASSUME NEW L \in Seq(Letter)
  PROVE  /\ Unseen(L) \in Seq(Letter) /\ Len(Unseen(L)) = Len(L)
         /\ \A k \in 1 .. Len(L) : Unseen(L)[k] = IF L[k] = Newline THEN Newline ELSE Blank
<1>1. Newline \in Letter /\ Blank \in Letter
  BY DEF Letter, Space
<1>2. Len(L) \in Nat /\ DOMAIN L = 1 .. Len(L)
  BY LenProperties
<1>3. Unseen(L) \in [1 .. Len(L) -> Letter]
  BY <1>1, <1>2 DEF Unseen
<1>4. Unseen(L) \in Seq(Letter) /\ Len(Unseen(L)) = Len(L)
  BY <1>2, <1>3, TextOf
<1> QED
  BY <1>2, <1>4 DEF Unseen

(* What a backslash escapes: not the first letter, and not what follows an escaped one. *)
LEMMA EscapedIs ==
  ASSUME NEW b \in Seq(Letter), NEW i \in Nat, i > 0, i <= Len(b)
  PROVE  /\ i \notin Escaped(b, i)
         /\ \A k \in i + 1 .. Len(b) : k \in Escaped(b, i) <=> b[k - 1] = Escape /\ k - 1 \notin Escaped(b, i)
<1> DEFINE hi == Len(b)
           step == [x \in (i + 1 .. hi) \X BOOLEAN |-> b[x[1] - 1] = Escape /\ ~x[2]]
<1>1. hi \in Nat
  BY LenProperties
<1>2. \A k \in i + 1 .. hi, v \in BOOLEAN : step[<<k, v>>] \in BOOLEAN /\ step[<<k, v>>] = (b[k - 1] = Escape /\ ~v)
  OBVIOUS
<1>3. PICK f \in [i .. hi -> BOOLEAN] : Recurs(f, i, hi, FALSE, step)
  <2>1. \A k \in i + 1 .. hi, v \in BOOLEAN : step[<<k, v>>] \in BOOLEAN
    BY <1>2
  <2>2. i \in Int /\ hi \in Int /\ i <= hi /\ FALSE \in BOOLEAN
    BY <1>1
  <2> HIDE DEF step, hi
  <2> QED
    BY <2>1, <2>2, ForwardRecursion
<1>4. f[i] = FALSE /\ \A k \in i + 1 .. hi : f[k] = (b[k - 1] = Escape /\ ~f[k - 1])
  <2>1. f[i] = FALSE /\ \A k \in i + 1 .. hi : f[k] = step[<<k, f[k - 1]>>]
    BY <1>3 DEF Recurs
  <2>2. ASSUME NEW k \in i + 1 .. hi PROVE f[k] = (b[k - 1] = Escape /\ ~f[k - 1])
    <3>1. k - 1 \in i .. hi
      BY <1>1
    <3>2. f[k - 1] \in BOOLEAN
      BY <1>3, <3>1
    <3> HIDE DEF step
    <3> QED
      BY <1>2, <2>1, <3>2
  <2> QED
    BY <2>1, <2>2
<1>5. f = [k \in i .. hi |-> k > i /\ b[k - 1] = Escape /\ ~f[k - 1]]
  <2>1. ASSUME NEW k \in i .. hi PROVE f[k] = (k > i /\ b[k - 1] = Escape /\ ~f[k - 1])
    <3>1. CASE k = i
      BY <1>4, <3>1
    <3>2. CASE k # i
      <4>1. k \in i + 1 .. hi /\ k > i
        BY <1>1, <3>2
      <4> QED
        BY <1>4, <4>1
    <3> QED
      BY <3>1, <3>2
  <2>2. f = [k \in i .. hi |-> f[k]]
    BY <1>3
  <2> QED
    BY <2>1, <2>2
<1> DEFINE Is(g) == g = [k \in i .. hi |-> k > i /\ b[k - 1] = Escape /\ ~g[k - 1]]
           g == CHOOSE g : Is(g)
<1>6. Is(g)
  BY <1>5
<1>7. Escaped(b, i) = {k \in i .. hi : g[k]}
  BY DEF Escaped
<1>8. g[i] = FALSE /\ \A k \in i + 1 .. hi : g[k] = (b[k - 1] = Escape /\ ~g[k - 1])
  <2>1. g = [k \in i .. hi |-> k > i /\ b[k - 1] = Escape /\ ~g[k - 1]]
    BY <1>6
  <2> HIDE DEF g
  <2>2. \A k \in i .. hi : g[k] = (k > i /\ b[k - 1] = Escape /\ ~g[k - 1])
    BY <2>1
  <2>3. i \in i .. hi /\ ~(i > i) /\ \A k \in i + 1 .. hi : k \in i .. hi /\ k > i
    BY <1>1
  <2> QED
    BY <2>2, <2>3
<1> HIDE DEF g, Is
<1>9. \A k \in i + 1 .. hi : k \in i .. hi /\ k - 1 \in i .. hi
  BY <1>1
<1> QED
  BY <1>7, <1>8, <1>9

(* A string or template of these letters, and what stands in it. *)
Delimited(L, mark) ==
  LET m == Len(L) IN
  /\ m > 2 /\ L[1] = mark /\ L[m] = mark
  /\ L[m - 1] = Escape => m = 4 /\ L[2] = Escape
  /\ \A k \in 2 .. m - 1 : L[k] = mark => k = 3 /\ L[2] = Escape
  /\ \A k \in 2 .. m - 1 : L[k] = Newline => L[k - 1] # Escape /\ mark = Tick
LineComment(L) ==
  /\ Len(L) > 2 /\ L[1] = "/" /\ L[2] = "/" /\ L[Len(L)] = Newline
  /\ \A k \in 1 .. Len(L) - 1 : L[k] # Newline
BlockComment(L) ==
  LET m == Len(L) IN
  /\ m > 4 /\ L[1] = "/" /\ L[2] = "*" /\ L[m - 1] = "*" /\ L[m] = "/"
  /\ \A k \in 3 .. m - 2 : ~(L[k] = "*" /\ L[k + 1] = "/")

(* Blanking what is hidden writes the code. *)
LEMMA BlankedOver ==
  ASSUME NEW s \in Seq(Letter), NEW L \in Seq(Letter), NEW c \in Seq(Letter),
         Extends(c, s), Follows(c, Len(s), L), NEW e \in Nat, NEW esc,
         e <= Len(s) + Len(L),
         \A k \in 1 .. Len(L) : L[k] = Newline => Len(s) + k \notin esc,
         \A k \in 1 .. Len(L) : L[k] # Newline => Len(s) + k <= e
  PROVE  Blanked(c, Len(s) + 1, e, esc) = Over(c, s \o Unseen(L))
<1> DEFINE n == Len(s)
           m == Len(L)
           T == s \o Unseen(L)
           B == Blanked(c, n + 1, e, esc)
<1>1. n \in Nat /\ m \in Nat /\ Len(c) \in Nat /\ n + m <= Len(c)
  BY TextIs DEF Follows
<1>2. /\ T \in Seq(Letter) /\ Len(T) = n + m
      /\ \A i \in 1 .. n : T[i] = s[i]
      /\ \A k \in 1 .. m : T[n + k] = IF L[k] = Newline THEN Newline ELSE Blank
  <2>1. /\ Unseen(L) \in Seq(Letter) /\ Len(Unseen(L)) = m
        /\ \A k \in 1 .. m : Unseen(L)[k] = IF L[k] = Newline THEN Newline ELSE Blank
    BY UnseenIs
  <2> DEFINE U == Unseen(L)
  <2> HIDE DEF U
  <2>0. U \in Seq(Letter) /\ Len(U) = m
    BY <2>1 DEF U
  <2>2. /\ s \o U \in Seq(Letter) /\ Len(s \o U) = n + m
        /\ \A i \in 1 .. n : (s \o U)[i] = s[i]
        /\ \A k \in 1 .. m : (s \o U)[n + k] = U[k]
    <3>1. /\ s \o U \in Seq(Letter) /\ Len(s \o U) = n + Len(U)
          /\ \A i \in 1 .. n : (s \o U)[i] = s[i]
          /\ \A k \in 1 .. Len(U) : (s \o U)[n + k] = U[k]
      BY <2>0, JoinIs
    <3> QED
      BY <2>0, <3>1
  <2>3. \A k \in 1 .. m : U[k] = IF L[k] = Newline THEN Newline ELSE Blank
    BY <2>1 DEF U
  <2> QED
    BY <2>2, <2>3 DEF U
<1> HIDE DEF T
<1>3. /\ Over(c, T) \in Seq(Letter) /\ Len(Over(c, T)) = Len(c)
      /\ \A i \in 1 .. Len(c) : Over(c, T)[i] = IF i <= n + m THEN T[i] ELSE c[i]
  BY <1>1, <1>2, OverIs
<1>4. /\ B \in Seq(Letter) /\ Len(B) = Len(c)
      /\ \A i \in 1 .. Len(c) : B[i] = IF i \in n + 1 .. e /\ (c[i] # Newline \/ i \in esc) THEN Blank ELSE c[i]
  BY BlankedIs
<1> HIDE DEF B
<1>5. ASSUME NEW i \in 1 .. Len(c) PROVE B[i] = Over(c, T)[i]
  <2>1. CASE i <= n
    <3>1. c[i] = s[i] /\ T[i] = s[i] /\ i <= n + m /\ ~(i \in n + 1 .. e)
      BY <1>1, <1>2, <2>1 DEF Extends
    <3> QED
      BY <1>3, <1>4, <3>1
  <2>2. CASE i > n + m
    <3>1. ~(i <= n + m) /\ ~(i \in n + 1 .. e)
      BY <1>1, <2>2
    <3> QED
      BY <1>3, <1>4, <3>1
  <2>3. CASE i > n /\ i <= n + m
    <3>1. PICK k \in 1 .. m : i = n + k
      <4>1. i - n \in 1 .. m /\ i = n + (i - n)
        BY <1>1, <2>3
      <4> QED
        BY <4>1
    <3>2. c[i] = L[k]
      BY <3>1 DEF Follows
    <3>3. T[i] = IF L[k] = Newline THEN Newline ELSE Blank
      BY <1>2, <3>1
    <3>4. Over(c, T)[i] = T[i]
      BY <1>3, <2>3
    <3>5. CASE L[k] = Newline
      <4>1. i \notin esc
        BY <3>1, <3>5
      <4> QED
        BY <1>4, <3>2, <3>3, <3>4, <3>5, <4>1
    <3>6. CASE L[k] # Newline
      <4>1. i \in n + 1 .. e
        BY <1>1, <3>1, <3>6
      <4> QED
        BY <1>4, <3>2, <3>3, <3>4, <3>6, <4>1
    <3> QED
      BY <3>5, <3>6
  <2> QED
    BY <1>1, <2>1, <2>2, <2>3
<1>6. B = Over(c, T)
  BY <1>3, <1>4, <1>5, SameText
<1> QED
  BY <1>6 DEF B, T

(* The letters that a scan sees of a token. *)
LEMMA FollowsIs ==
  ASSUME NEW n \in Nat, NEW L \in Seq(Letter), NEW c \in Seq(Letter), Follows(c, n, L)
  PROVE  \A i \in n + 1 .. n + Len(L) : i \in DOMAIN c /\ c[i] = L[i - n] /\ At(c, i) = L[i - n]
<1>1. Len(L) \in Nat /\ Len(c) \in Nat /\ DOMAIN c = 1 .. Len(c) /\ n + Len(L) <= Len(c)
  BY TextIs DEF Follows
<1> TAKE i \in n + 1 .. n + Len(L)
<1>2. i - n \in 1 .. Len(L) /\ n + (i - n) = i /\ i \in 1 .. Len(c)
  BY <1>1
<1>3. c[i] = L[i - n]
  BY <1>2 DEF Follows
<1> QED
  BY <1>1, <1>2, <1>3 DEF At

(* What is escaped in a string or template. *)
LEMMA DelimitedIs ==
  ASSUME NEW n \in Nat, NEW L \in Seq(Letter), NEW c \in Seq(Letter), Follows(c, n, L),
         NEW mark \in {Quote, Tick}, Delimited(L, mark)
  PROVE  LET e == n + Len(L)
             esc == Escaped(c, n + 2) IN
         /\ e \in Nat /\ n + 2 <= e /\ c[e] = mark /\ e \notin esc
         /\ \A k \in n + 2 .. e - 1 : c[k] = mark => k \in esc
         /\ \A k \in n + 2 .. e : c[k] = Newline => k \notin esc /\ mark = Tick
         /\ \A k \in 1 .. Len(L) : L[k] = Newline => n + k \notin esc
<1> DEFINE m == Len(L)
           e == n + m
           esc == Escaped(c, n + 2)
<1>1. m \in Nat /\ Len(c) \in Nat /\ e <= Len(c) /\ m > 2
  BY TextIs DEF Follows, Delimited
<1>2. \A i \in n + 1 .. e : c[i] = L[i - n]
  BY FollowsIs
<1>3. /\ n + 2 \notin esc
      /\ \A k \in n + 3 .. e : k \in esc <=> c[k - 1] = Escape /\ k - 1 \notin esc
  <2>1. n + 2 \in Nat /\ n + 2 > 0 /\ n + 2 <= Len(c) /\ (n + 2) + 1 = n + 3
    BY <1>1
  <2>2. /\ n + 2 \notin esc
        /\ \A k \in (n + 2) + 1 .. Len(c) : k \in esc <=> c[k - 1] = Escape /\ k - 1 \notin esc
    BY <2>1, EscapedIs
  <2> HIDE DEF esc
  <2> QED
    BY <1>1, <2>1, <2>2
<1> HIDE DEF esc
<1>4. n + 3 \in esc <=> L[2] = Escape
  <2>1. n + 3 \in n + 3 .. e /\ (n + 3) - 1 = n + 2 /\ n + 2 \in n + 1 .. e /\ (n + 2) - n = 2
    BY <1>1
  <2> QED
    BY <1>2, <1>3, <2>1
<1>5. c[e] = mark /\ e \in Nat /\ n + 2 <= e /\ e \in n + 3 .. e
  <2>1. e \in n + 1 .. e /\ e - n = m
    BY <1>1
  <2> QED
    BY <1>1, <1>2, <2>1 DEF Delimited
<1>6. e \notin esc
  <2>1. e - 1 \in n + 1 .. e /\ (e - 1) - n = m - 1
    BY <1>1
  <2>2. c[e - 1] = L[m - 1]
    BY <1>2, <2>1
  <2>3. CASE L[m - 1] = Escape
    <3>1. m = 4 /\ L[2] = Escape
      BY <2>3 DEF Delimited
    <3>2. e - 1 = n + 3
      BY <3>1
    <3> QED
      BY <1>3, <1>4, <1>5, <3>1, <3>2
  <2>4. CASE L[m - 1] # Escape
    BY <1>3, <1>5, <2>2, <2>4
  <2> QED
    BY <2>3, <2>4
<1>7. ASSUME NEW k \in n + 2 .. e - 1, c[k] = mark PROVE k \in esc
  <2>1. k - n \in 2 .. m - 1 /\ k \in n + 1 .. e
    BY <1>1
  <2>2. k - n = 3 /\ L[2] = Escape
    BY <1>2, <1>7, <2>1 DEF Delimited
  <2>3. k = n + 3
    BY <2>2
  <2> QED
    BY <1>4, <2>2, <2>3
<1>8. ASSUME NEW k \in 1 .. m, L[k] = Newline PROVE n + k \notin esc /\ mark = Tick
  <2>1. k # 1 /\ k # m
    BY <1>8 DEF Delimited, Newline, Quote, Tick
  <2>2. k \in 2 .. m - 1
    BY <1>1, <2>1
  <2>3. L[k - 1] # Escape /\ mark = Tick
    BY <1>8, <2>2 DEF Delimited
  <2>4. CASE k = 2
    BY <1>3, <2>3, <2>4
  <2>5. CASE k # 2
    <3>1. n + k \in n + 3 .. e /\ (n + k) - 1 \in n + 1 .. e /\ ((n + k) - 1) - n = k - 1
      BY <1>1, <2>2, <2>5
    <3>2. c[(n + k) - 1] = L[k - 1]
      BY <1>2, <3>1
    <3> QED
      BY <1>3, <2>3, <3>1, <3>2
  <2> QED
    BY <2>4, <2>5
<1>9. ASSUME NEW k \in n + 2 .. e, c[k] = Newline PROVE k \notin esc /\ mark = Tick
  <2>1. k - n \in 1 .. m /\ n + (k - n) = k /\ k \in n + 1 .. e
    BY <1>1
  <2>2. L[k - n] = Newline
    BY <1>2, <1>9, <2>1
  <2> QED
    BY <1>8, <2>1, <2>2
<1> QED
  BY <1>5, <1>6, <1>7, <1>8, <1>9 DEF esc

(* An expression may begin after these letters. *)
Ready(s) ==
  LET k == Before(s, Len(s) + 1) IN k = 0 \/ s[k] \in Operator \/ IsKeywordAt(s, k)

(* Where an operand is expected, a quote begins a string. *)
LEMMA StringStarts ==
  ASSUME NEW s \in Seq(Letter), Ready(s), NEW c \in Seq(Letter), Extends(c, s)
  PROVE  IsStringStart(c, Len(s) + 1)
<1> DEFINE n == Len(s)
           k == Before(s, n + 1)
<1>1. n \in Nat /\ Len(c) \in Nat /\ n <= Len(c) /\ DOMAIN s = 1 .. n /\ DOMAIN c = 1 .. Len(c)
  BY TextIs DEF Extends
<1>2. k \in 0 .. n
  BY <1>1, BeforeIs
<1>3. Before(c, n + 1) = k
  <2>1. \A i \in 1 .. (n + 1) - 1 : s[i] = c[i]
    BY <1>1 DEF Extends
  <2> QED
    BY <1>1, <2>1, BeforeAgrees
<1>4. \A i \in 0 .. n : At(c, i) = At(s, i)
  BY <1>1 DEF At, Extends
<1>5. k - 1 \in 0 .. n \/ k = 0
  BY <1>1, <1>2
<1>6. k # 0 => c[k] = s[k]
  BY <1>1, <1>2 DEF Extends
<1>7. Ready(s) = (k = 0 \/ s[k] \in Operator \/ IsKeywordAt(s, k))
  BY DEF Ready
<1> HIDE DEF k
<1>8. k # 0 => IsKeywordAt(s, k) = IsKeywordAt(c, k)
  BY <1>2, <1>4, <1>5 DEF IsKeywordAt
<1> QED
  BY <1>3, <1>6, <1>7, <1>8 DEF IsStringStart

(* A string ends at its closing quote, however the text goes on. *)
LEMMA StringEndIs ==
  ASSUME NEW n \in Nat, NEW L \in Seq(Letter), NEW c \in Seq(Letter), Follows(c, n, L), Delimited(L, Quote)
  PROVE  StringEnd(c, n + 2) = n + Len(L)
<1> DEFINE e == n + Len(L)
           esc == Escaped(c, n + 2)
           Quotes == {k \in n + 2 .. Len(c) : c[k] = Quote} \ esc
           Breaks == {k \in n + 2 .. Len(c) : c[k] = Newline} \ esc
           P == Quotes \cup {k - 1 : k \in Breaks}
<1>1. /\ e \in Nat /\ n + 2 <= e /\ c[e] = Quote /\ e \notin esc
      /\ \A k \in n + 2 .. e - 1 : c[k] = Quote => k \in esc
      /\ \A k \in n + 2 .. e : c[k] # Newline
  BY DelimitedIs DEF Quote, Tick
<1>2. e <= Len(c) /\ Len(c) \in Nat
  BY TextIs DEF Follows
<1>3. StringEnd(c, n + 2) = FirstOf(P, c)
  BY DEF StringEnd
<1> HIDE DEF e, esc
<1>4. e \in Quotes
  BY <1>1, <1>2
<1>5. \A k \in Quotes : k \in Nat /\ e <= k
  BY <1>1, <1>2
<1>6. \A k \in Breaks : k - 1 \in Nat /\ e <= k - 1
  BY <1>1, <1>2
<1> HIDE DEF Quotes, Breaks
<1>7. P \in SUBSET Nat /\ e \in P /\ \A k \in P : e <= k
  BY <1>4, <1>5, <1>6
<1> HIDE DEF P
<1>8. FirstOf(P, c) = e
  BY <1>2, <1>7, FirstOfIs
<1> QED
  BY <1>3, <1>8 DEF e

(* A template ends at its closing tick, however the text goes on. *)
LEMMA TemplateEndIs ==
  ASSUME NEW n \in Nat, NEW L \in Seq(Letter), NEW c \in Seq(Letter), Follows(c, n, L), Delimited(L, Tick)
  PROVE  TemplateEnd(c, n + 2) = n + Len(L)
<1> DEFINE e == n + Len(L)
           esc == Escaped(c, n + 2)
           P == {k \in n + 2 .. Len(c) : c[k] = Tick} \ esc
<1>1. /\ e \in Nat /\ n + 2 <= e /\ c[e] = Tick /\ e \notin esc
      /\ \A k \in n + 2 .. e - 1 : c[k] = Tick => k \in esc
  BY DelimitedIs
<1>2. e <= Len(c) /\ Len(c) \in Nat
  BY TextIs DEF Follows
<1>3. TemplateEnd(c, n + 2) = FirstOf(P, c)
  BY DEF TemplateEnd
<1> HIDE DEF e, esc
<1>4. P \in SUBSET Nat /\ e \in P /\ \A k \in P : e <= k
  BY <1>1, <1>2
<1> HIDE DEF P
<1>5. FirstOf(P, c) = e
  BY <1>2, <1>4, FirstOfIs
<1> QED
  BY <1>3, <1>5 DEF e

(* A line comment ends before its line break. *)
LEMMA LineEndIs ==
  ASSUME NEW n \in Nat, NEW L \in Seq(Letter), NEW c \in Seq(Letter), Follows(c, n, L), LineComment(L)
  PROVE  LineEnd(c, n + 1) = n + Len(L) - 1
<1> DEFINE m == Len(L)
           e == n + m
           Breaks == {l \in n + 1 .. Len(c) : c[l] = Newline}
           P == {k - 1 : k \in Breaks}
<1>1. m \in Nat /\ Len(c) \in Nat /\ e <= Len(c) /\ m > 2
  BY TextIs DEF Follows, LineComment
<1>2. \A i \in n + 1 .. e : c[i] = L[i - n]
  BY FollowsIs
<1>3. e \in Breaks
  <2>1. e \in n + 1 .. e /\ e - n = m /\ e \in n + 1 .. Len(c)
    BY <1>1
  <2> QED
    BY <1>2, <2>1 DEF LineComment
<1>4. ASSUME NEW k \in Breaks PROVE e <= k
  <2>1. CASE k < e
    <3>1. k \in n + 1 .. e /\ k - n \in 1 .. m - 1 /\ c[k] = Newline
      BY <1>1, <2>1
    <3> QED
      BY <1>2, <3>1 DEF LineComment
  <2> QED
    BY <1>1, <2>1
<1>5. LineEnd(c, n + 1) = FirstOf(P, c)
  BY DEF LineEnd
<1>6. Breaks \in SUBSET (Nat \ {0})
  OBVIOUS
<1> HIDE DEF Breaks
<1>7. P \in SUBSET Nat /\ e - 1 \in P /\ \A k \in P : e - 1 <= k
  BY <1>1, <1>3, <1>4, <1>6
<1> HIDE DEF P
<1>8. FirstOf(P, c) = e - 1
  BY <1>1, <1>7, FirstOfIs
<1> QED
  BY <1>5, <1>8

(* A block comment ends at its closing mark. *)
LEMMA CommentEndIs ==
  ASSUME NEW n \in Nat, NEW L \in Seq(Letter), NEW c \in Seq(Letter), Follows(c, n, L), BlockComment(L)
  PROVE  CommentEnd(c, n + 3) = n + Len(L)
<1> DEFINE m == Len(L)
           e == n + m
           Ends2 == {l \in n + 3 .. Len(c) : c[l] = "*" /\ At(c, l + 1) = "/"}
           P == {k + 1 : k \in Ends2}
<1>1. m \in Nat /\ Len(c) \in Nat /\ e <= Len(c) /\ m > 4
  BY TextIs DEF Follows, BlockComment
<1>2. \A i \in n + 1 .. e : c[i] = L[i - n] /\ At(c, i) = L[i - n]
  BY FollowsIs
<1>3. e - 1 \in Ends2
  <2>1. /\ e - 1 \in n + 1 .. e /\ (e - 1) - n = m - 1 /\ e - 1 \in n + 3 .. Len(c)
        /\ (e - 1) + 1 = e /\ e \in n + 1 .. e /\ e - n = m
    BY <1>1
  <2> QED
    BY <1>2, <2>1 DEF BlockComment
<1>4. ASSUME NEW k \in Ends2 PROVE e - 1 <= k
  <2>1. CASE k < e - 1
    <3>1. /\ k \in n + 1 .. e /\ k - n \in 3 .. m - 2 /\ c[k] = "*" /\ At(c, k + 1) = "/"
          /\ k + 1 \in n + 1 .. e /\ (k + 1) - n = (k - n) + 1
      BY <1>1, <2>1
    <3> QED
      BY <1>2, <3>1 DEF BlockComment
  <2> QED
    BY <1>1, <2>1
<1>5. CommentEnd(c, n + 3) = FirstOf(P, c)
  BY DEF CommentEnd
<1>6. Ends2 \in SUBSET Nat
  OBVIOUS
<1> HIDE DEF Ends2
<1>7. P \in SUBSET Nat /\ e \in P /\ \A k \in P : e <= k
  <2>1. e = (e - 1) + 1
    BY <1>1
  <2> QED
    BY <1>1, <1>3, <1>4, <1>6, <2>1
<1> HIDE DEF P
<1>8. FirstOf(P, c) = e
  BY <1>1, <1>7, FirstOfIs
<1> QED
  BY <1>5, <1>8

(* What one scan does, by what begins at its position. *)
LEMMA ScanOf ==
  ASSUME NEW c, NEW i, NEW e
  PROVE  /\ At(c, i) = "/" /\ At(c, i + 1) = "/" /\ LineEnd(c, i) = e =>
              Scan(c, i) = <<Blanked(c, i, e, {}), e + 1>>
         /\ At(c, i) = "/" /\ At(c, i + 1) = "*" /\ CommentEnd(c, i + 2) = e =>
              Scan(c, i) = <<Blanked(c, i, e, {}), e + 1>>
         /\ At(c, i) = Quote /\ IsStringStart(c, i) /\ StringEnd(c, i + 1) = e =>
              Scan(c, i) = <<Blanked(c, i, e, Escaped(c, i + 1)), e + 1>>
         /\ At(c, i) = Tick /\ TemplateEnd(c, i + 1) = e =>
              Scan(c, i) = <<Blanked(c, i, e, Escaped(c, i + 1)), e + 1>>
         /\ At(c, i) = Newline => Scan(c, i) = <<c, i + 1>>
<1>1. ASSUME At(c, i) = "/", At(c, i + 1) = "/", LineEnd(c, i) = e
      PROVE  Scan(c, i) = <<Blanked(c, i, e, {}), e + 1>>
  BY <1>1 DEF Scan, Quote, Tick
<1>2. ASSUME At(c, i) = "/", At(c, i + 1) = "*", CommentEnd(c, i + 2) = e
      PROVE  Scan(c, i) = <<Blanked(c, i, e, {}), e + 1>>
  BY <1>2 DEF Scan, Quote, Tick
<1>3. ASSUME At(c, i) = Quote, IsStringStart(c, i), StringEnd(c, i + 1) = e
      PROVE  Scan(c, i) = <<Blanked(c, i, e, Escaped(c, i + 1)), e + 1>>
  BY <1>3 DEF Scan, Quote, Tick
<1>4. ASSUME At(c, i) = Tick, TemplateEnd(c, i + 1) = e
      PROVE  Scan(c, i) = <<Blanked(c, i, e, Escaped(c, i + 1)), e + 1>>
  BY <1>4 DEF Scan, Quote, Tick
<1>5. ASSUME At(c, i) = Newline PROVE Scan(c, i) = <<c, i + 1>>
  BY <1>5 DEF Scan, Quote, Tick, Newline
<1> QED
  BY <1>1, <1>2, <1>3, <1>4, <1>5

(* One scan does not change the result of the scanner. *)
LEMMA ScanGives ==
  ASSUME NEW c \in Seq(Letter), NEW i \in Nat, i <= Len(c), NEW d, NEW j, Scan(c, i) = <<d, j>>
  PROVE  Stripped[<<c, i>>] = Stripped[<<d, j>>]
<1>1. ~(i > Len(c))
  BY LenProperties
<1> QED
  BY <1>1, StrippedIs

(* Strings, templates and comments pass the scanner as blanks. *)
LEMMA HiddenPasses ==
  ASSUME NEW s \in Seq(Letter), NEW L \in Seq(Letter),
         \/ Ready(s) /\ Delimited(L, Quote)
         \/ Delimited(L, Tick)
         \/ LineComment(L)
         \/ BlockComment(L)
  PROVE  Passes(s, L, Unseen(L))
<1> DEFINE n == Len(s)
           m == Len(L)
           e == n + m
<1> SUFFICES ASSUME NEW c \in Seq(Letter), Extends(c, s), Follows(c, n, L)
             PROVE  Stripped[<<c, n + 1>>] = Stripped[<<Over(c, s \o Unseen(L)), e + 1>>]
  BY DEF Passes
<1>1. n \in Nat /\ m \in Nat /\ Len(c) \in Nat /\ e <= Len(c)
  BY TextIs DEF Follows
<1>2. \A i \in n + 1 .. e : c[i] = L[i - n] /\ At(c, i) = L[i - n]
  BY <1>1, FollowsIs
<1>3. m > 1 => At(c, n + 1) = L[1] /\ At(c, n + 2) = L[2] /\ At(c, e) = L[m]
  <2> SUFFICES ASSUME m > 1 PROVE At(c, n + 1) = L[1] /\ At(c, n + 2) = L[2] /\ At(c, e) = L[m]
    OBVIOUS
  <2>1. /\ n + 1 \in n + 1 .. e /\ n + 2 \in n + 1 .. e /\ e \in n + 1 .. e
        /\ (n + 1) - n = 1 /\ (n + 2) - n = 2 /\ e - n = m
    BY <1>1
  <2> QED
    BY <1>2, <2>1
<1>4. ASSUME NEW esc, \A k \in 1 .. m : L[k] = Newline => n + k \notin esc
      PROVE  Blanked(c, n + 1, e, esc) = Over(c, s \o Unseen(L))
  <2>1. e \in Nat /\ e <= n + m /\ \A k \in 1 .. m : L[k] # Newline => n + k <= e
    BY <1>1
  <2> QED
    BY <1>4, <2>1, BlankedOver
<1> DEFINE B == Over(c, s \o Unseen(L))
<1>5. ASSUME m > 1, NEW j, Scan(c, n + 1) = <<B, j>>
      PROVE  Stripped[<<c, n + 1>>] = Stripped[<<B, j>>]
  <2>1. n + 1 \in Nat /\ n + 1 <= Len(c)
    BY <1>1, <1>5
  <2> HIDE DEF n, B
  <2> QED
    BY <1>5, <2>1, ScanGives
<1>6. CASE Ready(s) /\ Delimited(L, Quote)
  <2>1. IsStringStart(c, n + 1)
    BY <1>6, StringStarts
  <2>2. m > 1 /\ L[1] = Quote
    BY <1>1, <1>6 DEF Delimited
  <2>3. At(c, n + 1) = Quote
    BY <1>3, <2>2
  <2>4. StringEnd(c, (n + 1) + 1) = e
    <3>1. (n + 1) + 1 = n + 2
      BY <1>1
    <3> QED
      BY <1>1, <1>6, <3>1, StringEndIs
  <2>5. Blanked(c, n + 1, e, Escaped(c, (n + 1) + 1)) = Over(c, s \o Unseen(L))
    <3>1. (n + 1) + 1 = n + 2
      BY <1>1
    <3>2. \A k \in 1 .. m : L[k] = Newline => n + k \notin Escaped(c, n + 2)
      BY <1>1, <1>6, DelimitedIs
    <3> QED
      BY <1>4, <3>1, <3>2
  <2>6. Scan(c, n + 1) = <<Blanked(c, n + 1, e, Escaped(c, (n + 1) + 1)), e + 1>>
    BY <2>1, <2>3, <2>4, ScanOf
  <2>7. Scan(c, n + 1) = <<B, e + 1>>
    BY <2>5, <2>6
  <2> HIDE DEF B, n, m
  <2>9. Stripped[<<c, n + 1>>] = Stripped[<<B, e + 1>>]
    BY <1>5, <2>2, <2>7
  <2> QED
    BY <2>9 DEF B, n, m
<1>7. CASE Delimited(L, Tick)
  <2>1. m > 1 /\ L[1] = Tick
    BY <1>1, <1>7 DEF Delimited
  <2>2. At(c, n + 1) = Tick
    BY <1>3, <2>1
  <2>3. TemplateEnd(c, (n + 1) + 1) = e
    <3>1. (n + 1) + 1 = n + 2
      BY <1>1
    <3> QED
      BY <1>1, <1>7, <3>1, TemplateEndIs
  <2>4. Blanked(c, n + 1, e, Escaped(c, (n + 1) + 1)) = Over(c, s \o Unseen(L))
    <3>1. (n + 1) + 1 = n + 2
      BY <1>1
    <3>2. \A k \in 1 .. m : L[k] = Newline => n + k \notin Escaped(c, n + 2)
      BY <1>1, <1>7, DelimitedIs
    <3> QED
      BY <1>4, <3>1, <3>2
  <2>5. Scan(c, n + 1) = <<Blanked(c, n + 1, e, Escaped(c, (n + 1) + 1)), e + 1>>
    BY <2>2, <2>3, ScanOf
  <2>6. Scan(c, n + 1) = <<B, e + 1>>
    BY <2>4, <2>5
  <2> HIDE DEF B, n, m
  <2>9. Stripped[<<c, n + 1>>] = Stripped[<<B, e + 1>>]
    BY <1>5, <2>1, <2>6
  <2> QED
    BY <2>9 DEF B, n, m
<1>8. CASE LineComment(L)
  <2>1. m > 2 /\ L[1] = "/" /\ L[2] = "/" /\ L[m] = Newline /\ \A k \in 1 .. m - 1 : L[k] # Newline
    BY <1>8 DEF LineComment
  <2>2. At(c, n + 1) = "/" /\ At(c, (n + 1) + 1) = "/" /\ At(c, e) = Newline
    <3>1. (n + 1) + 1 = n + 2 /\ m > 1
      BY <1>1, <2>1
    <3> QED
      BY <1>3, <2>1, <3>1
  <2>3. LineEnd(c, n + 1) = e - 1
    BY <1>1, <1>8, LineEndIs
  <2>4. Blanked(c, n + 1, e - 1, {}) = Over(c, s \o Unseen(L))
    <3>1. e - 1 \in Nat /\ e - 1 <= n + m
      BY <1>1, <2>1
    <3>2. \A k \in 1 .. m : L[k] # Newline => n + k <= e - 1
      BY <1>1, <2>1
    <3> QED
      BY <3>1, <3>2, BlankedOver
  <2>5. Scan(c, n + 1) = <<B, e>>
    <3>1. (e - 1) + 1 = e
      BY <1>1
    <3>2. Scan(c, n + 1) = <<Blanked(c, n + 1, e - 1, {}), (e - 1) + 1>>
      BY <2>2, <2>3, ScanOf
    <3> QED
      BY <2>4, <3>1, <3>2
  <2>6. Stripped[<<c, n + 1>>] = Stripped[<<B, e>>]
    <3>1. m > 1
      BY <1>1, <2>1
    <3> HIDE DEF B, n, m
    <3> QED
      BY <1>5, <2>5, <3>1
  <2>7. B \in Seq(Letter) /\ Len(B) = Len(c) /\ B[e] = Newline
    <3>1. e - 1 \in Nat
      BY <1>1, <2>1
    <3>2. /\ Blanked(c, n + 1, e - 1, {}) \in Seq(Letter)
          /\ Len(Blanked(c, n + 1, e - 1, {})) = Len(c)
          /\ \A k \in 1 .. Len(c) : Blanked(c, n + 1, e - 1, {})[k] =
               IF k \in n + 1 .. e - 1 /\ (c[k] # Newline \/ k \in {}) THEN Blank ELSE c[k]
      BY BlankedIs
    <3>3. e \in 1 .. Len(c) /\ ~(e \in n + 1 .. e - 1) /\ c[e] = Newline
      BY <1>1, <2>1, <2>2, TextIs DEF At
    <3> QED
      BY <2>4, <3>2, <3>3
  <2> HIDE DEF B
  <2>8. At(B, e) = Newline
    BY <1>1, <2>1, <2>7, TextIs DEF At
  <2>9. Scan(B, e) = <<B, e + 1>>
    BY <2>8, ScanOf
  <2>10. Stripped[<<B, e>>] = Stripped[<<B, e + 1>>]
    <3>1. e \in Nat /\ e <= Len(B)
      BY <1>1, <2>7
    <3> HIDE DEF e
    <3> QED
      BY <2>7, <2>9, <3>1, ScanGives
  <2> QED
    BY <2>6, <2>10 DEF B
<1>9. CASE BlockComment(L)
  <2>1. m > 4 /\ L[1] = "/" /\ L[2] = "*"
    BY <1>9 DEF BlockComment
  <2>2. At(c, n + 1) = "/" /\ At(c, (n + 1) + 1) = "*"
    <3>1. (n + 1) + 1 = n + 2 /\ m > 1
      BY <1>1, <2>1
    <3> QED
      BY <1>3, <2>1, <3>1
  <2>3. CommentEnd(c, (n + 1) + 2) = e
    <3>1. (n + 1) + 2 = n + 3
      BY <1>1
    <3> QED
      BY <1>1, <1>9, <3>1, CommentEndIs
  <2>4. Blanked(c, n + 1, e, {}) = Over(c, s \o Unseen(L))
    BY <1>4
  <2>5. Scan(c, n + 1) = <<Blanked(c, n + 1, e, {}), e + 1>>
    BY <2>2, <2>3, ScanOf
  <2>6. Scan(c, n + 1) = <<B, e + 1>>
    BY <2>4, <2>5
  <2>7. m > 1
    BY <1>1, <2>1
  <2> HIDE DEF B, n, m
  <2>9. Stripped[<<c, n + 1>>] = Stripped[<<B, e + 1>>]
    BY <1>5, <2>6, <2>7
  <2> QED
    BY <2>9 DEF B, n, m
<1> QED
  BY <1>6, <1>7, <1>8, <1>9

(* What a string, a template or a comment is to the writer. *)
HiddenToken(L) ==
  /\ L \in Seq(Letter) /\ Len(L) > 2
  /\ L[Len(L)] \in {Quote, Tick, "/", Newline}
  /\ \A k \in 1 .. Len(L) : L[k] # "execSync"
(* What may stand in a string or a template of this mark, and in a comment. *)
StringBody(s, mark) ==
  /\ s \in Seq(Letter) /\ Len(s) > 0
  /\ s[Len(s)] = Escape => Len(s) = 2 /\ s[1] = Escape
  /\ \A k \in 1 .. Len(s) :
       /\ s[k] # "execSync"
       /\ s[k] = mark => k = 2 /\ s[1] = Escape
       /\ s[k] = Newline => mark = Tick /\ (k > 1 => s[k - 1] # Escape)
CommentBody(s) ==
  /\ s \in Seq(Letter) /\ Len(s) > 0
  /\ \A k \in 1 .. Len(s) : s[k] \notin {"execSync", Newline, "*"}

(* The letters that the writer and the scanners name. *)
LEMMA Letters ==
  /\ "x" \in Letter /\ "A" \in Letter /\ "B" \in Letter /\ "return" \in Letter /\ "export" \in Letter
  /\ "default" \in Letter /\ "string" \in Letter /\ "execSync" \in Letter /\ "." \in Letter
  /\ "=" \in Letter /\ "<" \in Letter /\ ">" \in Letter /\ "/" \in Letter /\ "*" \in Letter
  /\ "(" \in Letter /\ ")" \in Letter /\ "lbrace" \in Letter /\ "rbrace" \in Letter /\ "other" \in Letter
  /\ Newline \in Letter /\ Blank \in Letter /\ Quote \in Letter /\ Tick \in Letter /\ Escape \in Letter
BY DEF Letter, NameChar, Word, Operator, Opener, Space

(* The letters of a text between two others. *)
LEMMA Enclosed ==
  ASSUME NEW p \in Seq(Letter), NEW s \in Seq(Letter), NEW q \in Seq(Letter)
  PROVE  /\ p \o s \o q \in Seq(Letter) /\ Len(p \o s \o q) = Len(p) + Len(s) + Len(q)
         /\ \A k \in 1 .. Len(p) : (p \o s \o q)[k] = p[k]
         /\ \A k \in 1 .. Len(s) : (p \o s \o q)[Len(p) + k] = s[k]
         /\ \A k \in 1 .. Len(q) : (p \o s \o q)[Len(p) + Len(s) + k] = q[k]
<1>0. Len(p) \in Nat /\ Len(s) \in Nat /\ Len(q) \in Nat
  BY LenProperties
<1>1. /\ p \o s \in Seq(Letter) /\ Len(p \o s) = Len(p) + Len(s)
      /\ \A k \in 1 .. Len(p) : (p \o s)[k] = p[k]
      /\ \A k \in 1 .. Len(s) : (p \o s)[Len(p) + k] = s[k]
  BY JoinIs
<1> DEFINE r == p \o s
<1> HIDE DEF r
<1>2. r \in Seq(Letter)
  BY <1>1 DEF r
<1>3. /\ r \o q \in Seq(Letter) /\ Len(r \o q) = Len(r) + Len(q)
      /\ \A k \in 1 .. Len(r) : (r \o q)[k] = r[k]
      /\ \A k \in 1 .. Len(q) : (r \o q)[Len(r) + k] = q[k]
  BY <1>2, JoinIs
<1>4. Len(r) = Len(p) + Len(s)
  BY <1>1 DEF r
<1>5. ASSUME NEW k \in 1 .. Len(p) PROVE (r \o q)[k] = p[k]
  <2>1. k \in 1 .. Len(r)
    BY <1>0, <1>4
  <2>2. r[k] = p[k]
    BY <1>1 DEF r
  <2> QED
    BY <1>3, <2>1, <2>2
<1>6. ASSUME NEW k \in 1 .. Len(s) PROVE (r \o q)[Len(p) + k] = s[k]
  <2>1. Len(p) + k \in 1 .. Len(r)
    BY <1>0, <1>4
  <2>2. r[Len(p) + k] = s[k]
    BY <1>1 DEF r
  <2> QED
    BY <1>3, <2>1, <2>2
<1>7. ASSUME NEW k \in 1 .. Len(q) PROVE (r \o q)[Len(p) + Len(s) + k] = q[k]
  BY <1>3, <1>4
<1> QED
  BY <1>3, <1>4, <1>5, <1>6, <1>7 DEF r

(* The letters of a text of one. *)
LEMMA One ==
  ASSUME NEW a \in Letter
  PROVE  <<a>> \in Seq(Letter) /\ Len(<<a>>) = 1 /\ <<a>>[1] = a
OBVIOUS

(* The letters of a text of two. *)
LEMMA Two ==
  ASSUME NEW a \in Letter, NEW b \in Letter
  PROVE  LET s == <<a, b>> IN s \in Seq(Letter) /\ Len(s) = 2 /\ s[1] = a /\ s[2] = b
OBVIOUS

(* The letters of a text of three. *)
LEMMA Three ==
  ASSUME NEW a \in Letter, NEW b \in Letter, NEW c \in Letter
  PROVE  LET s == <<a, b, c>> IN s \in Seq(Letter) /\ Len(s) = 3 /\ s[1] = a /\ s[2] = b /\ s[3] = c
OBVIOUS

(* The letters of a text of four. *)
LEMMA Four ==
  ASSUME NEW a \in Letter, NEW b \in Letter, NEW c \in Letter, NEW d \in Letter
  PROVE  LET s == <<a, b, c, d>> IN
         s \in Seq(Letter) /\ Len(s) = 4 /\ s[1] = a /\ s[2] = b /\ s[3] = c /\ s[4] = d
OBVIOUS

(* What the writer puts into strings, templates and comments ends none of them. *)
LEMMA Bodies ==
  /\ \A s \in Hidden : StringBody(s, Quote) /\ CommentBody(s)
  /\ StringBody(<<Escape, Quote>>, Quote) /\ StringBody(<<Escape, Escape>>, Quote)
  /\ StringBody(<<Quote, Newline, "(">>, Tick) /\ StringBody(<<Escape, Tick, "/", "*">>, Tick)
  /\ CommentBody(<<Quote>>)
<1>1. ASSUME NEW s, s = <<"(", "<", "A", ">">> PROVE StringBody(s, Quote) /\ CommentBody(s)
  <2>1. s \in Seq(Letter) /\ Len(s) = 4 /\ s[1] = "(" /\ s[2] = "<" /\ s[3] = "A" /\ s[4] = ">"
    BY <1>1, Letters, Four
  <2> HIDE <1>1
  <2> QED
    BY <2>1 DEF StringBody, CommentBody, Quote, Tick, Escape, Newline
<1>2. ASSUME NEW s, s = <<"/", "/", Tick>> PROVE StringBody(s, Quote) /\ CommentBody(s)
  <2>1. s \in Seq(Letter) /\ Len(s) = 3 /\ s[1] = "/" /\ s[2] = "/" /\ s[3] = Tick
    BY <1>2, Letters, Three
  <2> HIDE <1>2
  <2> QED
    BY <2>1 DEF StringBody, CommentBody, Quote, Tick, Escape, Newline
<1>3. ASSUME NEW s, s = <<"export", Blank, "default">> PROVE StringBody(s, Quote) /\ CommentBody(s)
  <2>1. s \in Seq(Letter) /\ Len(s) = 3 /\ s[1] = "export" /\ s[2] = Blank /\ s[3] = "default"
    BY <1>3, Letters, Three
  <2> HIDE <1>3
  <2> QED
    BY <2>1 DEF StringBody, CommentBody, Quote, Tick, Escape, Newline, Blank
<1>4. ASSUME NEW s, s = <<Escape, Quote>> PROVE StringBody(s, Quote)
  <2>1. s \in Seq(Letter) /\ Len(s) = 2 /\ s[1] = Escape /\ s[2] = Quote
    BY <1>4, Letters, Two
  <2> HIDE <1>4
  <2> QED
    BY <2>1 DEF StringBody, Quote, Tick, Escape, Newline
<1>5. ASSUME NEW s, s = <<Escape, Escape>> PROVE StringBody(s, Quote)
  <2>1. s \in Seq(Letter) /\ Len(s) = 2 /\ s[1] = Escape /\ s[2] = Escape
    BY <1>5, Letters, Two
  <2> HIDE <1>5
  <2> QED
    BY <2>1 DEF StringBody, Quote, Tick, Escape, Newline
<1>6. ASSUME NEW s, s = <<Quote, Newline, "(">> PROVE StringBody(s, Tick)
  <2>1. s \in Seq(Letter) /\ Len(s) = 3 /\ s[1] = Quote /\ s[2] = Newline /\ s[3] = "("
    BY <1>6, Letters, Three
  <2> HIDE <1>6
  <2> QED
    BY <2>1 DEF StringBody, Quote, Tick, Escape, Newline
<1>7. ASSUME NEW s, s = <<Escape, Tick, "/", "*">> PROVE StringBody(s, Tick)
  <2>1. s \in Seq(Letter) /\ Len(s) = 4 /\ s[1] = Escape /\ s[2] = Tick /\ s[3] = "/" /\ s[4] = "*"
    BY <1>7, Letters, Four
  <2> HIDE <1>7
  <2> QED
    BY <2>1 DEF StringBody, Quote, Tick, Escape, Newline
<1>8. ASSUME NEW s, s = <<Quote>> PROVE CommentBody(s)
  <2>1. s \in Seq(Letter) /\ Len(s) = 1 /\ s[1] = Quote
    BY <1>8, Letters, One
  <2> HIDE <1>8
  <2> QED
    BY <2>1 DEF CommentBody, Quote, Tick, Escape, Newline
<1>9. \A s \in Hidden : StringBody(s, Quote) /\ CommentBody(s)
  BY <1>1, <1>2, <1>3 DEF Hidden
<1> QED
  BY <1>4, <1>5, <1>6, <1>7, <1>8, <1>9

(* A string or a template of the writer is hidden and well delimited. *)
LEMMA StringTokens ==
  ASSUME NEW mark \in {Quote, Tick}, NEW s, StringBody(s, mark)
  PROVE  HiddenToken(<<mark>> \o s \o <<mark>>) /\ Delimited(<<mark>> \o s \o <<mark>>, mark)
<1> DEFINE L == <<mark>> \o s \o <<mark>>
           w == Len(s)
<1>1. mark \in Letter /\ s \in Seq(Letter) /\ w \in Nat /\ w > 0
  BY Letters, LenProperties DEF StringBody
<1>2. /\ L \in Seq(Letter) /\ Len(L) = w + 2 /\ L[1] = mark
      /\ \A k \in 1 .. w : L[1 + k] = s[k]
      /\ L[w + 2] = mark
  <2> DEFINE p == <<mark>>
  <2>1. p \in Seq(Letter) /\ Len(p) = 1 /\ p[1] = mark
    BY <1>1, One
  <2> HIDE DEF p
  <2>2. /\ p \o s \o p \in Seq(Letter) /\ Len(p \o s \o p) = Len(p) + Len(s) + Len(p)
        /\ \A k \in 1 .. Len(p) : (p \o s \o p)[k] = p[k]
        /\ \A k \in 1 .. Len(s) : (p \o s \o p)[Len(p) + k] = s[k]
        /\ \A k \in 1 .. Len(p) : (p \o s \o p)[Len(p) + Len(s) + k] = p[k]
    BY <1>1, <2>1, Enclosed
  <2>3. 1 + w + 1 = w + 2 /\ 1 \in 1 .. 1
    BY <1>1
  <2> QED
    BY <2>1, <2>2, <2>3 DEF p
<1> HIDE DEF L
<1>3. ASSUME NEW k \in 2 .. w + 1 PROVE k - 1 \in 1 .. w /\ L[k] = s[k - 1] /\ (k > 2 => L[k - 1] = s[k - 2])
  <2>1. k - 1 \in 1 .. w /\ 1 + (k - 1) = k /\ (k > 2 => k - 2 \in 1 .. w /\ 1 + (k - 2) = k - 1)
    BY <1>1
  <2> QED
    BY <1>2, <2>1
<1>4. ASSUME NEW k \in 1 .. Len(L) PROVE L[k] # "execSync"
  <2>1. CASE k \in 2 .. w + 1
    BY <1>3, <2>1 DEF StringBody
  <2>2. CASE k \notin 2 .. w + 1
    <3>1. k = 1 \/ k = w + 2
      BY <1>1, <1>2, <2>2
    <3> QED
      BY <1>2, <3>1 DEF Quote, Tick
  <2> QED
    BY <2>1, <2>2
<1>5. HiddenToken(L)
  BY <1>1, <1>2, <1>4 DEF HiddenToken
<1>6. L[w + 1] = s[w]
  <2>1. w + 1 \in 2 .. w + 1 /\ (w + 1) - 1 = w
    BY <1>1
  <2> QED
    BY <1>3, <2>1
<1>7. L[w + 1] = Escape => w + 2 = 4 /\ L[2] = Escape
  <2>1. 2 \in 2 .. w + 1 /\ 2 - 1 = 1
    BY <1>1
  <2>2. L[2] = s[1]
    BY <1>3, <2>1
  <2> QED
    <3>1. s[w] = Escape => w = 2 /\ s[1] = Escape
      BY DEF StringBody
    <3>2. w = 2 => w + 2 = 4
      OBVIOUS
    <3> HIDE DEF w
    <3> QED
      BY <1>6, <2>2, <3>1, <3>2
<1>8. ASSUME NEW k \in 2 .. w + 1, L[k] = mark PROVE k = 3 /\ L[2] = Escape
  <2>1. k - 1 = 2 /\ s[1] = Escape
    BY <1>3, <1>8 DEF StringBody
  <2>2. k = 3 /\ 2 \in 2 .. w + 1 /\ 2 - 1 = 1
    BY <1>1, <2>1
  <2> QED
    BY <1>3, <2>1, <2>2
<1>9. ASSUME NEW k \in 2 .. w + 1, L[k] = Newline PROVE L[k - 1] # Escape /\ mark = Tick
  <2>1. mark = Tick /\ (k - 1 > 1 => s[k - 1 - 1] # Escape)
    BY <1>3, <1>9 DEF StringBody
  <2>2. CASE k = 2
    BY <1>2, <2>1, <2>2 DEF Tick, Escape
  <2>3. CASE k > 2
    <3>1. k - 1 > 1 /\ k - 1 - 1 = k - 2
      BY <2>3
    <3> QED
      BY <1>3, <2>1, <2>3, <3>1
  <2> QED
    BY <2>1, <2>2, <2>3
<1>10. Delimited(L, mark)
  <2>1. w + 2 > 2 /\ (w + 2) - 1 = w + 1
    BY <1>1
  <2> QED
    BY <1>2, <1>7, <1>8, <1>9, <2>1 DEF Delimited
<1> QED
  BY <1>5, <1>10 DEF L

(* So are its comments. *)
LEMMA CommentTokens ==
  ASSUME NEW s, CommentBody(s)
  PROVE  /\ HiddenToken(<<"/", "/">> \o s \o <<Newline>>) /\ LineComment(<<"/", "/">> \o s \o <<Newline>>)
         /\ HiddenToken(<<"/", "*", Newline>> \o s \o <<"*", "/">>)
         /\ BlockComment(<<"/", "*", Newline>> \o s \o <<"*", "/">>)
<1> DEFINE L == <<"/", "/">> \o s \o <<Newline>>
           B == <<"/", "*", Newline>> \o s \o <<"*", "/">>
           w == Len(s)
<1>1. s \in Seq(Letter) /\ w \in Nat /\ w > 0
  BY LenProperties DEF CommentBody
<1>2. /\ L \in Seq(Letter) /\ Len(L) = w + 3 /\ L[1] = "/" /\ L[2] = "/"
      /\ \A k \in 1 .. w : L[2 + k] = s[k]
      /\ L[w + 3] = Newline
  <2> DEFINE p == <<"/", "/">>
             q == <<Newline>>
  <2>1. p \in Seq(Letter) /\ Len(p) = 2 /\ p[1] = "/" /\ p[2] = "/"
    BY Letters, Two, Three
  <2>2. q \in Seq(Letter) /\ Len(q) = 1 /\ q[1] = Newline
    BY Letters, One
  <2> HIDE DEF p, q
  <2>3. /\ p \o s \o q \in Seq(Letter) /\ Len(p \o s \o q) = Len(p) + Len(s) + Len(q)
        /\ \A k \in 1 .. Len(p) : (p \o s \o q)[k] = p[k]
        /\ \A k \in 1 .. Len(s) : (p \o s \o q)[Len(p) + k] = s[k]
        /\ \A k \in 1 .. Len(q) : (p \o s \o q)[Len(p) + Len(s) + k] = q[k]
    BY <1>1, <2>1, <2>2, Enclosed
  <2>4. 2 + w + 1 = w + 3 /\ 1 \in 1 .. 1 /\ 1 \in 1 .. 2 /\ 2 \in 1 .. 2
    BY <1>1
  <2> QED
    BY <2>1, <2>2, <2>3, <2>4 DEF p, q
<1>3. /\ B \in Seq(Letter) /\ Len(B) = w + 5 /\ B[1] = "/" /\ B[2] = "*" /\ B[3] = Newline
      /\ \A k \in 1 .. w : B[3 + k] = s[k]
      /\ B[w + 4] = "*" /\ B[w + 5] = "/"
  <2> DEFINE p == <<"/", "*", Newline>>
             q == <<"*", "/">>
  <2>1. p \in Seq(Letter) /\ Len(p) = 3 /\ p[1] = "/" /\ p[2] = "*" /\ p[3] = Newline
    BY Letters, Two, Three
  <2>2. q \in Seq(Letter) /\ Len(q) = 2 /\ q[1] = "*" /\ q[2] = "/"
    BY Letters, Two
  <2> HIDE DEF p, q
  <2>3. /\ p \o s \o q \in Seq(Letter) /\ Len(p \o s \o q) = Len(p) + Len(s) + Len(q)
        /\ \A k \in 1 .. Len(p) : (p \o s \o q)[k] = p[k]
        /\ \A k \in 1 .. Len(s) : (p \o s \o q)[Len(p) + k] = s[k]
        /\ \A k \in 1 .. Len(q) : (p \o s \o q)[Len(p) + Len(s) + k] = q[k]
    BY <1>1, <2>1, <2>2, Enclosed
  <2>4. /\ 3 + w + 2 = w + 5 /\ 3 + w + 1 = w + 4 /\ 1 \in 1 .. 2 /\ 2 \in 1 .. 2
        /\ 1 \in 1 .. 3 /\ 2 \in 1 .. 3 /\ 3 \in 1 .. 3
    BY <1>1
  <2> QED
    BY <2>1, <2>2, <2>3, <2>4 DEF p, q
<1> HIDE DEF L, B
<1>4. ASSUME NEW k \in 1 .. w PROVE s[k] \notin {"execSync", Newline, "*"}
  BY DEF CommentBody
<1>5. ASSUME NEW k \in 3 .. w + 2 PROVE L[k] \notin {"execSync", Newline, "*"}
  <2>1. k - 2 \in 1 .. w /\ 2 + (k - 2) = k
    BY <1>1
  <2> QED
    BY <1>2, <1>4, <2>1
<1>6. ASSUME NEW k \in 4 .. w + 3 PROVE B[k] \notin {"execSync", Newline, "*"}
  <2>1. k - 3 \in 1 .. w /\ 3 + (k - 3) = k
    BY <1>1
  <2> QED
    BY <1>3, <1>4, <2>1
<1>7. ASSUME NEW k \in 1 .. w + 3
      PROVE  L[k] # "execSync" /\ (k < w + 3 => L[k] # Newline)
  <2>1. CASE k \in 3 .. w + 2
    BY <1>5, <2>1
  <2>2. CASE k \notin 3 .. w + 2
    <3>1. k = 1 \/ k = 2 \/ k = w + 3
      BY <1>1, <2>2
    <3> QED
      BY <1>2, <3>1 DEF Newline
  <2> QED
    BY <2>1, <2>2
<1>8. ASSUME NEW k \in 1 .. w + 5 PROVE B[k] # "execSync"
  <2>1. CASE k \in 4 .. w + 3
    BY <1>6, <2>1
  <2>2. CASE k \notin 4 .. w + 3
    <3>1. k = 1 \/ k = 2 \/ k = 3 \/ k = w + 4 \/ k = w + 5
      BY <1>1, <2>2
    <3> QED
      BY <1>3, <3>1 DEF Newline
  <2> QED
    BY <2>1, <2>2
<1>9. ASSUME NEW k \in 3 .. w + 3 PROVE B[k] # "*"
  <2>1. CASE k = 3
    BY <1>3, <2>1 DEF Newline
  <2>2. CASE k \in 4 .. w + 3
    BY <1>6, <2>2
  <2> QED
    BY <1>1, <2>1, <2>2
<1>10. HiddenToken(L)
  BY <1>1, <1>2, <1>7 DEF HiddenToken
<1>11. HiddenToken(B)
  BY <1>1, <1>3, <1>8 DEF HiddenToken
<1>12. LineComment(L)
  <2>1. w + 3 > 2 /\ \A k \in 1 .. (w + 3) - 1 : k \in 1 .. w + 3 /\ k < w + 3
    BY <1>1
  <2> QED
    BY <1>2, <1>7, <2>1 DEF LineComment
<1>13. BlockComment(B)
  <2>1. w + 5 > 4 /\ (w + 5) - 1 = w + 4 /\ (w + 5) - 2 = w + 3
    BY <1>1
  <2> QED
    BY <1>3, <1>9, <2>1 DEF BlockComment
<1> QED
  BY <1>10, <1>11, <1>12, <1>13 DEF L, B

-----------------------------------------------------------------------------
(* The invariant, in parts. *)

Places == {"operand", "value", "statement", "tag", "children"}
Frame == [what : Opener \cup Element, at : Nat \ {0}, after : Places \ {"operand"}]
Faults == {Fine} \cup [error : {"unexpected", "mismatched"}, line : Nat]
TypeInv ==
  /\ text \in Seq(Letter) /\ code \in Seq(Letter) /\ open \in Seq(Frame)
  /\ where \in Places
  /\ said \in SUBSET {"export", "execSync"}
  /\ mistake \in [brackets : Faults, tags : Faults]
  /\ dialect \in Dialects

(* The code is the text with some letters blanked, and no line break among them. *)
Seen(t, s) ==
  /\ Len(s) = Len(t)
  /\ \A i \in 1 .. Len(t) : s[i] \in {t[i], Blank} /\ (s[i] = Newline <=> t[i] = Newline)
  /\ At(t, Len(t)) \notin {Quote, Tick, "/"} => At(s, Len(s)) = At(t, Len(t))

Last(s) == At(s, Len(s))
CodeEndsIn(s, letters) == LET k == Before(s, Len(s) + 1) IN k > 0 /\ s[k] \in letters
(* How the code ends where something is to be written next. *)
EndsWell(s, next) ==
  /\ next = "operand" => Ready(s) /\ Last(s) \notin NameChar
  /\ next = "children" => CodeEndsIn(s, {">", "x", ".", "other", "rbrace"})
  /\ Last(s) # "/"
  /\ Last(s) = "<" => next = "operand" /\ ~JsxPosition(s, Len(s))

(* What follows the frame at depth d. *)
After(o, next, d) == IF d = Len(o) THEN next ELSE o[d + 1].after
Inside == {"tag", "children"}
Nested(o, next, n) ==
  /\ \A d \in 0 .. Len(o) : After(o, next, d) \in Inside <=> d > 0 /\ o[d].what \in Element
  /\ \A d \in 1 .. Len(o) :
       /\ o[d].after \in Inside => o[d].what # "("
       /\ o[d].after = "tag" => o[d].what = "lbrace"
       /\ o[d].at <= n
  /\ \A d \in 1 .. Len(o) : \A e \in 1 .. d - 1 : o[e].at < o[d].at

Meant(t, s, words) ==
  /\ \A i \in 1 .. Len(s) : s[i] = "export" <=> i = 1 /\ "export" \in words
  /\ "export" \in words => Len(s) > 3 /\ s[1] = "export" /\ s[2] = Blank /\ s[3] = "default"
  /\ "execSync" \in words <=> \E i \in 1 .. Len(t) : t[i] = "execSync"

Shape == TypeInv /\ Seen(text, code) /\ EndsWell(code, where) /\ Nested(open, where, Len(text)) /\ Meant(text, code, said)

-----------------------------------------------------------------------------
(* Letters of a token, and the letters of code among them. *)
Token(L, S) ==
  /\ L \in Seq(Letter) /\ S \in Seq(Letter) /\ Len(S) = Len(L) /\ Len(L) > 0
  /\ \A k \in 1 .. Len(L) : S[k] \in {L[k], Blank} /\ (S[k] = Newline <=> L[k] = Newline)
  /\ L[Len(L)] \notin {Quote, Tick, "/"} => S[Len(S)] = L[Len(L)]

(* A token of code is seen as it is written. *)
LEMMA PlainToken ==
  ASSUME NEW L \in Seq(Letter), Len(L) > 0
  PROVE  Token(L, L)
BY DEF Token

(* Of a hidden token nothing is seen but space. *)
LEMMA HiddenTokenIs ==
  ASSUME NEW L, HiddenToken(L)
  PROVE  Token(L, Unseen(L)) /\ \A k \in 1 .. Len(L) : Unseen(L)[k] \in Space
<1>1. L \in Seq(Letter) /\ Len(L) > 2 /\ Len(L) \in Nat /\ L[Len(L)] \in {Quote, Tick, "/", Newline}
  BY LenProperties DEF HiddenToken
<1>2. /\ Unseen(L) \in Seq(Letter) /\ Len(Unseen(L)) = Len(L)
      /\ \A k \in 1 .. Len(L) : Unseen(L)[k] = IF L[k] = Newline THEN Newline ELSE Blank
  BY <1>1, UnseenIs
<1> DEFINE U == Unseen(L)
<1> HIDE DEF U
<1>3. \A k \in 1 .. Len(L) : U[k] \in {L[k], Blank} /\ (U[k] = Newline <=> L[k] = Newline) /\ U[k] \in Space
  BY <1>2 DEF U, Blank, Newline, Space
<1>4. Len(L) \in 1 .. Len(L)
  BY <1>1
<1>5. U[Len(L)] = Newline \/ L[Len(L)] \in {Quote, Tick, "/"}
  BY <1>1, <1>2, <1>4 DEF U
<1>6. L[Len(L)] \notin {Quote, Tick, "/"} => U[Len(U)] = L[Len(L)]
  BY <1>1, <1>2, <1>3, <1>4, <1>5 DEF U
<1> QED
  BY <1>1, <1>2, <1>3, <1>6 DEF U, Token

(* The last letter of a text to which a token has been added. *)
LEMMA LastIs ==
  ASSUME NEW s \in Seq(Letter), NEW L \in Seq(Letter), Len(L) > 0
  PROVE  Last(s \o L) = L[Len(L)] /\ At(s \o L, Len(s) + Len(L)) = L[Len(L)]
<1>1. /\ s \o L \in Seq(Letter) /\ Len(s \o L) = Len(s) + Len(L)
      /\ \A k \in 1 .. Len(L) : (s \o L)[Len(s) + k] = L[k]
  BY JoinIs
<1>2. Len(L) \in 1 .. Len(L) /\ Len(s) + Len(L) \in 1 .. Len(s) + Len(L)
  BY LenProperties
<1>3. DOMAIN (s \o L) = 1 .. Len(s) + Len(L)
  BY <1>1, LenProperties
<1> QED
  BY <1>1, <1>2, <1>3 DEF Last, At

(* What is seen of the text stays so with one more token. *)
LEMMA SeenStep ==
  ASSUME NEW t \in Seq(Letter), NEW s \in Seq(Letter), Seen(t, s), NEW L, NEW S, Token(L, S)
  PROVE  Seen(t \o L, s \o S)
<1>1. L \in Seq(Letter) /\ S \in Seq(Letter) /\ Len(S) = Len(L) /\ Len(L) > 0
  BY DEF Token
<1>2. Len(t) \in Nat /\ Len(L) \in Nat /\ Len(s) = Len(t)
  BY <1>1, LenProperties DEF Seen
<1>3. /\ t \o L \in Seq(Letter) /\ Len(t \o L) = Len(t) + Len(L)
      /\ \A i \in 1 .. Len(t) : (t \o L)[i] = t[i]
      /\ \A k \in 1 .. Len(L) : (t \o L)[Len(t) + k] = L[k]
  BY <1>1, JoinIs
<1>4. /\ s \o S \in Seq(Letter) /\ Len(s \o S) = Len(t) + Len(L)
      /\ \A i \in 1 .. Len(t) : (s \o S)[i] = s[i]
      /\ \A k \in 1 .. Len(L) : (s \o S)[Len(t) + k] = S[k]
  <2>1. /\ s \o S \in Seq(Letter) /\ Len(s \o S) = Len(s) + Len(S)
        /\ \A i \in 1 .. Len(s) : (s \o S)[i] = s[i]
        /\ \A k \in 1 .. Len(S) : (s \o S)[Len(s) + k] = S[k]
    BY <1>1, JoinIs
  <2> QED
    BY <1>1, <1>2, <2>1
<1>5. ASSUME NEW i \in 1 .. Len(t) + Len(L)
      PROVE  (s \o S)[i] \in {(t \o L)[i], Blank} /\ ((s \o S)[i] = Newline <=> (t \o L)[i] = Newline)
  <2>1. CASE i <= Len(t)
    <3>1. i \in 1 .. Len(t)
      BY <1>2, <2>1
    <3>2. s[i] \in {t[i], Blank} /\ (s[i] = Newline <=> t[i] = Newline)
      BY <3>1 DEF Seen
    <3> QED
      BY <1>3, <1>4, <3>1, <3>2
  <2>2. CASE ~(i <= Len(t))
    <3>1. PICK k \in 1 .. Len(L) : i = Len(t) + k
      <4>1. i - Len(t) \in 1 .. Len(L) /\ i = Len(t) + (i - Len(t))
        BY <1>2, <2>2
      <4> QED
        BY <4>1
    <3>2. S[k] \in {L[k], Blank} /\ (S[k] = Newline <=> L[k] = Newline)
      BY DEF Token
    <3> QED
      BY <1>3, <1>4, <3>1, <3>2
  <2> QED
    BY <2>1, <2>2
<1>6. At(t \o L, Len(t \o L)) = L[Len(L)] /\ At(s \o S, Len(s \o S)) = S[Len(S)]
  BY <1>1, LastIs DEF Last
<1>7. L[Len(L)] \notin {Quote, Tick, "/"} => S[Len(S)] = L[Len(L)]
  BY DEF Token
<1> QED
  BY <1>3, <1>4, <1>5, <1>6, <1>7 DEF Seen

(* What stands before the next letter. *)
LEMMA BeforeJoin ==
  ASSUME NEW s \in Seq(Letter), NEW L \in Seq(Letter)
  PROVE  /\ \A e \in 1 .. Len(L) : L[e] \notin Space /\ (\A k \in e + 1 .. Len(L) : L[k] \in Space) =>
              /\ Before(s \o L, Len(s \o L) + 1) = Len(s) + e
              /\ (s \o L)[Len(s) + e] = L[e]
         /\ (\A k \in 1 .. Len(L) : L[k] \in Space) => Before(s \o L, Len(s \o L) + 1) = Before(s, Len(s) + 1)
<1> DEFINE n == Len(s)
           m == Len(L)
           t == s \o L
<1>1. n \in Nat /\ m \in Nat
  BY LenProperties
<1>2. /\ t \in Seq(Letter) /\ Len(t) = n + m
      /\ \A i \in 1 .. n : t[i] = s[i]
      /\ \A k \in 1 .. m : t[n + k] = L[k]
  BY JoinIs
<1> HIDE DEF t
<1>3. \A i \in n + 1 .. n + m : i - n \in 1 .. m /\ t[i] = L[i - n]
  <2> TAKE i \in n + 1 .. n + m
  <2>1. i - n \in 1 .. m /\ n + (i - n) = i
    BY <1>1
  <2> QED
    BY <1>2, <2>1
<1>4. ASSUME NEW e \in 1 .. m, L[e] \notin Space, \A k \in e + 1 .. m : L[k] \in Space
      PROVE  Before(t, Len(t) + 1) = n + e /\ t[n + e] = L[e]
  <2>1. t[n + e] = L[e]
    BY <1>2
  <2>2. \A i \in (n + e) + 1 .. (n + m + 1) - 1 : t[i] \in Space
    <3> TAKE i \in (n + e) + 1 .. (n + m + 1) - 1
    <3>1. i \in n + 1 .. n + m /\ i - n \in e + 1 .. m
      BY <1>1
    <3> QED
      BY <1>3, <1>4, <3>1
  <2>3. n + e \in 1 .. (n + m + 1) - 1 /\ n + m + 1 \in Nat
    BY <1>1
  <2>4. Before(t, n + m + 1) = n + e
    BY <1>2, <1>4, <2>1, <2>2, <2>3, BeforeIsThis
  <2> QED
    BY <1>2, <2>1, <2>4
<1>5. ASSUME \A k \in 1 .. m : L[k] \in Space
      PROVE  Before(t, Len(t) + 1) = Before(s, n + 1)
  <2>1. \A i \in n + 1 .. n + m : t[i] \in Space
    BY <1>3, <1>5
  <2>2. {k \in 1 .. (n + m + 1) - 1 : t[k] \notin Space} = {k \in 1 .. (n + 1) - 1 : s[k] \notin Space}
    <3>1. \A k \in 1 .. (n + m + 1) - 1 : k \in 1 .. n \/ k \in n + 1 .. n + m
      BY <1>1
    <3>2. \A k \in 1 .. n : k \in 1 .. (n + m + 1) - 1 /\ k \in 1 .. (n + 1) - 1
      BY <1>1
    <3>3. \A k \in 1 .. (n + 1) - 1 : k \in 1 .. n
      BY <1>1
    <3> QED
      BY <1>2, <2>1, <3>1, <3>2, <3>3
  <2> QED
    BY <1>2, <2>2 DEF Before
<1> QED
  BY <1>4, <1>5 DEF t

(* After an operator an operand is expected. *)
LEMMA ReadyAfterOperator ==
  ASSUME NEW s \in Seq(Letter), NEW L \in Seq(Letter), Len(L) > 0, L[Len(L)] \in Operator
  PROVE  Ready(s \o L)
<1>1. Len(L) \in 1 .. Len(L) /\ \A k \in Len(L) + 1 .. Len(L) : FALSE
  BY LenProperties
<1>2. L[Len(L)] \notin Space
  BY DEF Operator, Opener, Space, Newline, Blank
<1>3. Before(s \o L, Len(s \o L) + 1) = Len(s) + Len(L) /\ (s \o L)[Len(s) + Len(L)] = L[Len(L)]
  BY <1>1, <1>2, BeforeJoin
<1> QED
  BY <1>3 DEF Ready

(* Space changes nothing about this. *)
LEMMA ReadyAfterSpace ==
  ASSUME NEW s \in Seq(Letter), NEW L \in Seq(Letter), \A k \in 1 .. Len(L) : L[k] \in Space, Ready(s)
  PROVE  Ready(s \o L)
<1> DEFINE k == Before(s, Len(s) + 1)
           t == s \o L
<1>1. Before(t, Len(t) + 1) = k
  BY BeforeJoin
<1>2. Len(s) \in Nat /\ Len(L) \in Nat /\ DOMAIN s = 1 .. Len(s)
  BY LenProperties
<1>3. /\ t \in Seq(Letter) /\ Len(t) = Len(s) + Len(L)
      /\ \A i \in 1 .. Len(s) : t[i] = s[i]
  BY JoinIs
<1>4. DOMAIN t = 1 .. Len(s) + Len(L)
  BY <1>3, LenProperties
<1>5. k \in 0 .. Len(s)
  BY <1>2, BeforeIs
<1>6. k = 0 \/ s[k] \in Operator \/ IsKeywordAt(s, k)
  BY DEF Ready
<1> HIDE DEF k, t
<1>7. k # 0 => t[k] = s[k] /\ At(t, k) = At(s, k) /\ At(t, k - 1) = At(s, k - 1)
  <2>1. \A i \in 0 .. Len(s) : At(t, i) = At(s, i)
    BY <1>2, <1>3, <1>4 DEF At
  <2>2. k # 0 => k \in 1 .. Len(s) /\ k \in 0 .. Len(s) /\ k - 1 \in 0 .. Len(s)
    BY <1>2, <1>5
  <2> QED
    BY <1>3, <2>1, <2>2
<1>8. k = 0 \/ t[k] \in Operator \/ IsKeywordAt(t, k)
  BY <1>6, <1>7 DEF IsKeywordAt
<1>9. Ready(t)
  BY <1>1, <1>8 DEF Ready
<1> QED
  BY <1>9 DEF t

(* After a keyword an operand is expected. *)
LEMMA ReadyAfterKeyword ==
  ASSUME NEW s \in Seq(Letter), NEW L \in Seq(Letter), NEW e \in 1 .. Len(L), L[e] \in Keyword,
         \A k \in e + 1 .. Len(L) : L[k] \in Space,
         IF e = 1 THEN Last(s) \notin NameChar ELSE L[e - 1] \notin NameChar
  PROVE  Ready(s \o L)
<1> DEFINE n == Len(s)
           t == s \o L
<1>1. n \in Nat /\ Len(L) \in Nat /\ DOMAIN s = 1 .. n
  BY LenProperties
<1>2. /\ t \in Seq(Letter) /\ Len(t) = n + Len(L)
      /\ \A i \in 1 .. n : t[i] = s[i]
      /\ \A k \in 1 .. Len(L) : t[n + k] = L[k]
  BY JoinIs
<1>3. DOMAIN t = 1 .. n + Len(L)
  BY <1>2, LenProperties
<1>4. L[e] \notin Space
  BY DEF Keyword, Space, Newline, Blank
<1>5. Before(t, Len(t) + 1) = n + e
  BY <1>4, BeforeJoin
<1> HIDE DEF t
<1>6. At(t, n + e) \in Keyword
  <2>1. n + e \in 1 .. n + Len(L)
    BY <1>1
  <2> QED
    BY <1>2, <1>3, <2>1 DEF At
<1>7. At(t, (n + e) - 1) \notin NameChar
  <2>1. CASE e = 1
    <3>1. (n + e) - 1 = n
      BY <1>1, <2>1
    <3>2. At(t, n) = At(s, n)
      BY <1>1, <1>2, <1>3 DEF At
    <3> QED
      BY <2>1, <3>1, <3>2 DEF Last
  <2>2. CASE e # 1
    <3>1. e - 1 \in 1 .. Len(L) /\ (n + e) - 1 = n + (e - 1) /\ n + (e - 1) \in 1 .. n + Len(L)
      BY <1>1, <2>2
    <3> QED
      BY <1>2, <1>3, <2>2, <3>1 DEF At
  <2> QED
    BY <2>1, <2>2
<1>8. Ready(t)
  BY <1>5, <1>6, <1>7 DEF Ready, IsKeywordAt
<1> QED
  BY <1>8 DEF t

-----------------------------------------------------------------------------
(* What is open. *)
LEMMA FrameIs ==
  ASSUME NEW f \in Frame
  PROVE  f.what \in Opener \cup Element /\ f.at \in Nat /\ f.at > 0 /\ f.after \in Places \ {"operand"}
BY DEF Frame

(* A frame says what is open, where it began and what follows it. *)
LEMMA FramesAre ==
  ASSUME NEW o \in Seq(Frame), NEW d \in 1 .. Len(o)
  PROVE  /\ o[d] \in Frame /\ o[d].what \in Opener \cup Element
         /\ o[d].at \in Nat /\ o[d].at > 0 /\ o[d].after \in Places \ {"operand"}
<1>1. o[d] \in Frame
  BY ElementOfSeq
<1> DEFINE f == o[d]
<1> HIDE DEF f
<1>2. f \in Frame
  BY <1>1 DEF f
<1>3. f.what \in Opener \cup Element /\ f.at \in Nat /\ f.at > 0 /\ f.after \in Places \ {"operand"}
  BY <1>2, FrameIs
<1> QED
  BY <1>1, <1>3 DEF f

(* A frame that may be opened between the letters n and m. *)
Opens(n, m, w, v, f) ==
  /\ f \in Frame /\ n < f.at /\ f.at <= m
  /\ f.after \in Inside <=> w \in Inside
  /\ v \in Inside <=> f.what \in Element
  /\ f.after \in Inside => f.what # "("
  /\ f.after = "tag" => f.what = "lbrace"

(* The nesting stays when nothing is opened or closed. *)
LEMMA NestedSame ==
  ASSUME NEW o \in Seq(Frame), NEW n \in Nat, NEW m \in Nat, n <= m, NEW w \in Places, NEW v \in Places,
         Nested(o, w, n), w \in Inside <=> v \in Inside
  PROVE  Nested(o, v, m)
<1>1. Len(o) \in Nat
  BY LenProperties
<1>2. \A d \in 0 .. Len(o) : After(o, v, d) \in Inside <=> After(o, w, d) \in Inside
  BY DEF After
<1>3. \A d \in 0 .. Len(o) : After(o, v, d) \in Inside <=> d > 0 /\ o[d].what \in Element
  BY <1>2 DEF Nested
<1>4. ASSUME NEW d \in 1 .. Len(o) PROVE o[d].at <= m
  <2>1. o[d] \in Frame
    BY ElementOfSeq
  <2>2. o[d].at \in Nat /\ o[d].at <= n
    BY <2>1 DEF Nested, Frame
  <2> QED
    BY <2>2
<1> QED
  BY <1>3, <1>4 DEF Nested

(* It stays when one thing is opened that may stand there. *)
LEMMA NestedPush ==
  ASSUME NEW o \in Seq(Frame), NEW n \in Nat, NEW m \in Nat, n <= m, NEW w \in Places, NEW v \in Places,
         NEW f, Nested(o, w, n), Opens(n, m, w, v, f)
  PROVE  Nested(Append(o, f), v, m)
<1> DEFINE z == Len(o)
           p == Append(o, f)
<1>1. z \in Nat
  BY LenProperties
<1>2. f \in Frame /\ f.at \in Nat /\ n < f.at /\ f.at <= m
  BY FrameIs DEF Opens
<1>3. p \in Seq(Frame) /\ Len(p) = z + 1 /\ p[z + 1] = f /\ \A d \in 1 .. z : p[d] = o[d]
  BY <1>2, AppendProperties
<1>4. \A d \in 1 .. z : o[d].at \in Nat /\ o[d].at <= n
  BY FramesAre DEF Nested
<1> HIDE DEF p
<1>5. ASSUME NEW d \in 0 .. z + 1 PROVE After(p, v, d) \in Inside <=> d > 0 /\ p[d].what \in Element
  <2>1. CASE d = z + 1
    <3>1. After(p, v, d) = v /\ p[d] = f /\ d > 0
      BY <1>1, <1>3, <2>1 DEF After
    <3> QED
      BY <3>1 DEF Opens
  <2>2. CASE d = z
    <3>1. After(p, v, d) = f.after /\ After(o, w, d) = w
      <4>1. d # z + 1 /\ d + 1 = z + 1
        BY <1>1, <2>2
      <4> QED
        BY <1>3, <2>2, <4>1 DEF After
    <3>2. w \in Inside <=> d > 0 /\ o[d].what \in Element
      <4>1. d \in 0 .. Len(o)
        BY <1>1, <2>2
      <4>2. After(o, w, d) \in Inside <=> d > 0 /\ o[d].what \in Element
        BY <4>1 DEF Nested
      <4> QED
        BY <3>1, <4>2
    <3>3. d > 0 => p[d] = o[d]
      BY <1>1, <1>3, <2>2
    <3>4. f.after \in Inside <=> w \in Inside
      BY DEF Opens
    <3> QED
      BY <3>1, <3>2, <3>3, <3>4
  <2>3. CASE d < z
    <3>1. d # z + 1 /\ d # z /\ d + 1 \in 1 .. z /\ d \in 0 .. z /\ (d > 0 => d \in 1 .. z)
      BY <1>1, <2>3
    <3>2. After(p, v, d) = After(o, w, d)
      BY <1>3, <3>1 DEF After
    <3>3. After(o, w, d) \in Inside <=> d > 0 /\ o[d].what \in Element
      BY <3>1 DEF Nested
    <3> QED
      BY <1>3, <3>1, <3>2, <3>3
  <2> QED
    BY <1>1, <2>1, <2>2, <2>3
<1>6. ASSUME NEW d \in 1 .. z + 1
      PROVE  /\ p[d].after \in Inside => p[d].what # "("
             /\ p[d].after = "tag" => p[d].what = "lbrace"
             /\ p[d].at <= m
  <2>1. CASE d = z + 1
    BY <1>2, <1>3, <2>1 DEF Opens
  <2>2. CASE d # z + 1
    <3>1. d \in 1 .. z
      BY <1>1, <2>2
    <3>2. p[d] = o[d] /\ o[d].at <= m
      <4>1. p[d] = o[d] /\ o[d].at \in Nat /\ o[d].at <= n
        BY <1>3, <1>4, <3>1
      <4> QED
        BY <4>1
    <3> QED
      BY <3>1, <3>2 DEF Nested
  <2> QED
    BY <2>1, <2>2
<1>7. ASSUME NEW d \in 1 .. z + 1, NEW e \in 1 .. d - 1 PROVE p[e].at < p[d].at
  <2>1. e \in 1 .. z /\ p[e] = o[e] /\ o[e].at <= n /\ o[e].at \in Nat
    <3>1. e \in 1 .. z
      BY <1>1
    <3> QED
      BY <1>3, <1>4, <3>1
  <2>2. CASE d = z + 1
    BY <1>2, <1>3, <2>1, <2>2
  <2>3. CASE d # z + 1
    <3>1. d \in 1 .. z /\ p[d] = o[d]
      BY <1>1, <1>3, <2>3
    <3> QED
      BY <2>1, <3>1 DEF Nested
  <2> QED
    BY <2>2, <2>3
<1>8. Nested(p, v, m)
  BY <1>3, <1>5, <1>6, <1>7 DEF Nested
<1> QED
  BY <1>8 DEF p

(* The frames below the top. *)
LEMMA PopIs ==
  ASSUME NEW o \in Seq(Frame), o # << >>
  PROVE  LET p == SubSeq(o, 1, Len(o) - 1) IN
         /\ Len(o) \in Nat /\ Len(o) > 0
         /\ p \in Seq(Frame) /\ Len(p) = Len(o) - 1 /\ \A d \in 1 .. Len(o) - 1 : p[d] = o[d]
         /\ o[Len(o)] \in Frame
<1>1. Len(o) \in Nat /\ Len(o) > 0
  BY EmptySeq, LenProperties
<1>2. Len(o) - 1 \in 0 .. Len(o) /\ 1 \in 1 .. Len(o) + 1 /\ Len(o) \in 1 .. Len(o)
  BY <1>1
<1>3. o[Len(o)] \in Frame
  BY <1>2, ElementOfSeq
<1> DEFINE p == SubSeq(o, 1, Len(o) - 1)
<1>4. p \in Seq(Frame) /\ Len(p) = Len(o) - 1 /\ \A d \in 1 .. Len(o) - 1 : p[d] = o[d]
  <2> DEFINE z == Len(o) - 1
  <2>1. z \in Nat /\ 1 \in 1 .. Len(o) + 1 /\ z \in 0 .. Len(o)
    BY <1>1
  <2>2. p \in Seq(Frame)
    BY <2>1, SubSeqProperties
  <2>3. Len(p) = z
    <3>1. Len(p) = IF 1 <= z THEN z - 1 + 1 ELSE 0
      BY <2>1, SubSeqProperties
    <3> QED
      <4>1. \A x \in Nat : (IF 1 <= x THEN x - 1 + 1 ELSE 0) = x
        OBVIOUS
      <4>2. z \in Nat
        BY <2>1
      <4> HIDE DEF z
      <4> QED
        BY <3>1, <4>1, <4>2
  <2>4. \A d \in 1 .. z : p[d] = o[d]
    <3>1. \A d \in 1 .. z - 1 + 1 : p[d] = o[1 + d - 1]
      BY <2>1, SubSeqProperties
    <3>2. ASSUME NEW d \in 1 .. z PROVE p[d] = o[d]
      <4>1. d \in 1 .. z - 1 + 1 /\ 1 + d - 1 = d
        BY <2>1
      <4>2. p[d] = o[1 + d - 1]
        BY <3>1, <4>1
      <4> QED
        BY <4>1, <4>2
    <3> QED
      BY <3>2
  <2> QED
    BY <2>2, <2>3, <2>4
<1> QED
  BY <1>1, <1>3, <1>4

(* The nesting stays when the top is closed and what follows it is written next. *)
LEMMA NestedPop ==
  ASSUME NEW o \in Seq(Frame), o # << >>, NEW n \in Nat, NEW m \in Nat, n <= m, NEW w \in Places,
         Nested(o, w, n)
  PROVE  Nested(SubSeq(o, 1, Len(o) - 1), o[Len(o)].after, m)
<1> DEFINE z == Len(o) - 1
           p == SubSeq(o, 1, Len(o) - 1)
           v == o[Len(o)].after
<1>1. z \in Nat /\ Len(o) = z + 1 /\ Len(p) = z /\ \A d \in 1 .. z : p[d] = o[d]
  BY PopIs
<1> HIDE DEF p, z
<1>2. \A d \in 1 .. z : d \in 1 .. Len(o) /\ o[d].at \in Nat /\ o[d].at <= n
  <2>1. \A d \in 1 .. z : d \in 1 .. Len(o)
    BY <1>1
  <2> QED
    BY <2>1, FramesAre DEF Nested
<1>3. ASSUME NEW d \in 0 .. z PROVE After(p, v, d) \in Inside <=> d > 0 /\ p[d].what \in Element
  <2>1. d \in 0 .. Len(o) /\ d # Len(o) /\ (d > 0 => d \in 1 .. z) /\ (d # z => d + 1 \in 1 .. z)
    BY <1>1
  <2>2. After(p, v, d) = After(o, w, d)
    BY <1>1, <2>1 DEF After
  <2>3. After(o, w, d) \in Inside <=> d > 0 /\ o[d].what \in Element
    BY <2>1 DEF Nested
  <2> QED
    BY <1>1, <2>1, <2>2, <2>3
<1>4. ASSUME NEW d \in 1 .. z
      PROVE  /\ p[d].after \in Inside => p[d].what # "("
             /\ p[d].after = "tag" => p[d].what = "lbrace"
             /\ p[d].at <= m
  <2>1. p[d] = o[d] /\ d \in 1 .. Len(o) /\ o[d].at \in Nat /\ o[d].at <= n
    BY <1>1, <1>2
  <2>2. o[d].at <= m
    BY <2>1
  <2> QED
    BY <2>1, <2>2 DEF Nested
<1>5. ASSUME NEW d \in 1 .. z, NEW e \in 1 .. d - 1 PROVE p[e].at < p[d].at
  <2>1. e \in 1 .. z /\ d \in 1 .. Len(o)
    BY <1>1
  <2> QED
    BY <1>1, <2>1 DEF Nested
<1>6. Nested(p, v, m)
  BY <1>1, <1>3, <1>4, <1>5 DEF Nested
<1> QED
  BY <1>6 DEF p

-----------------------------------------------------------------------------
(* Words. *)
LEMMA MeantStep ==
  ASSUME NEW t \in Seq(Letter), NEW s \in Seq(Letter), Len(s) = Len(t), NEW words, Meant(t, s, words),
         NEW L, NEW S, Token(L, S),
         \A k \in 1 .. Len(L) : S[k] # "export", NEW more \in SUBSET {"execSync"},
         "execSync" \in more <=> \E k \in 1 .. Len(L) : L[k] = "execSync"
  PROVE  Meant(t \o L, s \o S, words \cup more)
<1>1. L \in Seq(Letter) /\ S \in Seq(Letter) /\ Len(S) = Len(L) /\ Len(L) > 0
  BY DEF Token
<1>2. Len(t) \in Nat /\ Len(L) \in Nat
  BY <1>1, LenProperties
<1>3. /\ t \o L \in Seq(Letter) /\ Len(t \o L) = Len(t) + Len(L)
      /\ \A i \in 1 .. Len(t) : (t \o L)[i] = t[i]
      /\ \A k \in 1 .. Len(L) : (t \o L)[Len(t) + k] = L[k]
  BY <1>1, JoinIs
<1>4. /\ s \o S \in Seq(Letter) /\ Len(s \o S) = Len(t) + Len(L)
      /\ \A i \in 1 .. Len(t) : (s \o S)[i] = s[i]
      /\ \A k \in 1 .. Len(L) : (s \o S)[Len(t) + k] = S[k]
  <2>1. /\ s \o S \in Seq(Letter) /\ Len(s \o S) = Len(s) + Len(S)
        /\ \A i \in 1 .. Len(s) : (s \o S)[i] = s[i]
        /\ \A k \in 1 .. Len(S) : (s \o S)[Len(s) + k] = S[k]
    BY <1>1, JoinIs
  <2> QED
    BY <1>1, <1>2, <2>1
<1>5. \A i \in 1 .. Len(t) + Len(L) : ~(i <= Len(t)) => \E k \in 1 .. Len(L) : i = Len(t) + k
  <2> TAKE i \in 1 .. Len(t) + Len(L)
  <2> HAVE ~(i <= Len(t))
  <2>1. i - Len(t) \in 1 .. Len(L) /\ i = Len(t) + (i - Len(t))
    BY <1>2
  <2> QED
    BY <2>1
<1>6. "export" \in words \cup more <=> "export" \in words
  OBVIOUS
<1>7. ASSUME NEW i \in 1 .. Len(t) + Len(L) PROVE (s \o S)[i] = "export" <=> i = 1 /\ "export" \in words
  <2>1. CASE i <= Len(t)
    BY <1>2, <1>4, <2>1 DEF Meant
  <2>2. CASE ~(i <= Len(t))
    <3>1. PICK k \in 1 .. Len(L) : i = Len(t) + k
      BY <1>5, <2>2, Zenon
    <3>5. (s \o S)[i] # "export"
      BY <1>4, <3>1
    <3>2. i = 1 => Len(t) = 0
      BY <1>2, <2>2
    <3>3. "export" \in words => Len(t) > 3
      BY DEF Meant
    <3>4. ~(i = 1 /\ "export" \in words)
      BY <1>2, <3>2, <3>3
    <3> QED
      BY <3>4, <3>5
  <2> QED
    BY <2>1, <2>2
<1>8. ASSUME "export" \in words
      PROVE  /\ Len(t) + Len(L) > 3 /\ (s \o S)[1] = "export"
             /\ (s \o S)[2] = Blank /\ (s \o S)[3] = "default"
  <2>1. Len(t) > 3 /\ s[1] = "export" /\ s[2] = Blank /\ s[3] = "default"
    BY <1>8 DEF Meant
  <2>2. 1 \in 1 .. Len(t) /\ 2 \in 1 .. Len(t) /\ 3 \in 1 .. Len(t)
    BY <1>2, <2>1
  <2> QED
    BY <1>2, <1>4, <2>1, <2>2
<1>9. "execSync" \in words \cup more <=> \E i \in 1 .. Len(t) + Len(L) : (t \o L)[i] = "execSync"
  <2>1. ASSUME NEW i \in 1 .. Len(t), t[i] = "execSync"
        PROVE  \E j \in 1 .. Len(t) + Len(L) : (t \o L)[j] = "execSync"
    <3>1. i \in 1 .. Len(t) + Len(L) /\ (t \o L)[i] = "execSync"
      BY <1>2, <1>3, <2>1
    <3> QED
      BY <3>1
  <2>2. ASSUME NEW k \in 1 .. Len(L), L[k] = "execSync"
        PROVE  \E j \in 1 .. Len(t) + Len(L) : (t \o L)[j] = "execSync"
    <3>1. Len(t) + k \in 1 .. Len(t) + Len(L) /\ (t \o L)[Len(t) + k] = "execSync"
      BY <1>2, <1>3, <2>2
    <3> QED
      BY <3>1
  <2>3. ASSUME NEW j \in 1 .. Len(t) + Len(L), (t \o L)[j] = "execSync"
        PROVE  "execSync" \in words \cup more
    <3>1. CASE j <= Len(t)
      <4>1. j \in 1 .. Len(t) /\ t[j] = "execSync"
        BY <1>2, <1>3, <2>3, <3>1
      <4> QED
        BY <4>1 DEF Meant
    <3>2. CASE ~(j <= Len(t))
      <4>1. \E k \in 1 .. Len(L) : L[k] = "execSync"
        BY <1>3, <1>5, <2>3, <3>2
      <4> QED
        BY <4>1
    <3> QED
      BY <3>1, <3>2
  <2>4. "execSync" \in words <=> \E i \in 1 .. Len(t) : t[i] = "execSync"
    BY DEF Meant
  <2> QED
    BY <2>1, <2>2, <2>3, <2>4
<1> QED
  BY <1>3, <1>4, <1>6, <1>7, <1>8, <1>9 DEF Meant

Core == Shape /\ Ahead(text, code)

(* Lines are counted by numbers. *)
LEMMA LineIs ==
  ASSUME NEW s, NEW i \in Nat
  PROVE  Line(s, i) \in Nat
<1> DEFINE T == {k \in 1 .. i : s[k] = Newline}
<1>1. IsFiniteSet(1 .. i)
  BY FS_Interval
<1>2. IsFiniteSet(T)
  BY <1>1, FS_Subset
<1>3. Cardinality(T) \in Nat
  BY <1>2, FS_CardinalityType
<1>4. Line(s, i) = 1 + Cardinality(T)
  BY DEF Line
<1> HIDE DEF T
<1> QED
  BY <1>3, <1>4

(* One of these letters ends the code, but for spaces. *)
EndsIn(L, letters) ==
  \E e \in 1 .. Len(L) : L[e] \in letters /\ \A k \in e + 1 .. Len(L) : L[k] \in Space

(* How a text ends is told by its last token. *)
LEMMA EndsWellAfter ==
  ASSUME NEW s \in Seq(Letter), NEW L \in Seq(Letter), Len(L) > 0, L[Len(L)] \notin {"/", "<"}, NEW w,
         w = "operand" => Ready(s \o L) /\ L[Len(L)] \notin NameChar,
         w = "children" => EndsIn(L, {">", "x", ".", "other", "rbrace"})
  PROVE  EndsWell(s \o L, w)
<1>1. Last(s \o L) = L[Len(L)]
  BY LastIs
<1>2. ASSUME w = "children" PROVE CodeEndsIn(s \o L, {">", "x", ".", "other", "rbrace"})
  <2>1. PICK e \in 1 .. Len(L) : L[e] \in {">", "x", ".", "other", "rbrace"} /\ \A k \in e + 1 .. Len(L) : L[k] \in Space
    BY <1>2 DEF EndsIn
  <2>2. L[e] \notin Space
    BY <2>1 DEF Space, Newline, Blank
  <2>3. Before(s \o L, Len(s \o L) + 1) = Len(s) + e /\ (s \o L)[Len(s) + e] = L[e]
    BY <2>1, <2>2, BeforeJoin
  <2>4. Len(s) + e > 0
    <3>1. Len(s) \in Nat /\ e \in Nat /\ e > 0
      BY LenProperties
    <3>2. \A x, y \in Nat : y > 0 => x + y > 0
      OBVIOUS
    <3> QED
      BY <3>1, <3>2
  <2> QED
    BY <2>1, <2>3, <2>4 DEF CodeEndsIn
<1> QED
  BY <1>1, <1>2 DEF EndsWell

(* A "<" after a name or a parenthesis begins no element. *)
LEMMA NoTagAfter ==
  ASSUME NEW c \in Seq(Letter), NEW i \in Nat, i > 0, i <= Len(c), c[i] \in {"x", ")"}
  PROVE  ~JsxPosition(c, i + 1)
<1>1. Before(c, i + 1) = i
  <2>1. i \in 1 .. (i + 1) - 1 /\ i + 1 \in Nat /\ \A k \in i + 1 .. (i + 1) - 1 : FALSE
    OBVIOUS
  <2>2. c[i] \notin Space
    BY DEF Space, Newline, Blank
  <2> QED
    BY <2>1, <2>2, BeforeIsThis
<1>2. At(c, i) = c[i]
  BY LenProperties DEF At
<1>3. c[i] \notin Operator \cup {"rbrace", "."} /\ c[i] \notin Keyword /\ c[i] \in NameChar \cup {Quote, ")", Tick}
  BY DEF Operator, Opener, Keyword, NameChar, Word
<1>4. ~IsKeywordAt(c, i)
  BY <1>2, <1>3 DEF IsKeywordAt
<1>5. i # 0
  OBVIOUS
<1> QED
  BY <1>1, <1>3, <1>4, <1>5 DEF JsxPosition

(* A token that keeps each part of the invariant keeps all of it. *)
LEMMA CoreWrites ==
  ASSUME Core, NEW L, NEW S, Token(L, S), Ahead(text \o L, code \o S), text' = text \o L, code' = code \o S,
         where' \in Places, EndsWell(code \o S, where'),
         open' \in Seq(Frame), Nested(open', where', Len(text) + Len(L)),
         mistake' \in [brackets : Faults, tags : Faults], dialect' = dialect,
         \A k \in 1 .. Len(L) : S[k] # "export", NEW more \in SUBSET {"execSync"}, said' = said \cup more,
         "execSync" \in more <=> \E k \in 1 .. Len(L) : L[k] = "execSync"
  PROVE  Core'
<1>1. /\ text \in Seq(Letter) /\ code \in Seq(Letter) /\ Len(code) = Len(text)
      /\ L \in Seq(Letter) /\ S \in Seq(Letter) /\ Len(L) = Len(S)
  BY DEF Core, Shape, TypeInv, Seen, Token
<1>2. /\ text \o L \in Seq(Letter) /\ Len(text \o L) = Len(text) + Len(L) /\ code \o S \in Seq(Letter)
  BY <1>1, JoinIs
<1>3. TypeInv'
  BY <1>2 DEF Core, Shape, TypeInv
<1>4. Seen(text \o L, code \o S)
  BY <1>1, SeenStep DEF Core, Shape
<1>5. Meant(text \o L, code \o S, said \cup more)
  BY <1>1, MeantStep DEF Core, Shape
<1> QED
  BY <1>2, <1>3, <1>4, <1>5 DEF Core, Shape

(* So does one that passes the scanner. *)
LEMMA CoreStep ==
  ASSUME Core, NEW L, NEW S, Token(L, S), Passes(code, L, S), text' = text \o L, code' = code \o S,
         where' \in Places, EndsWell(code \o S, where'),
         open' \in Seq(Frame), Nested(open', where', Len(text) + Len(L)),
         mistake' \in [brackets : Faults, tags : Faults], dialect' = dialect,
         \A k \in 1 .. Len(L) : S[k] # "export", NEW more \in SUBSET {"execSync"}, said' = said \cup more,
         "execSync" \in more <=> \E k \in 1 .. Len(L) : L[k] = "execSync"
  PROVE  Core'
<1>1. /\ text \in Seq(Letter) /\ code \in Seq(Letter) /\ Len(code) = Len(text)
      /\ L \in Seq(Letter) /\ S \in Seq(Letter) /\ Len(L) = Len(S)
  BY DEF Core, Shape, TypeInv, Seen, Token
<1>2. Ahead(text \o L, code \o S)
  BY <1>1, AheadStep DEF Core
<1> QED
  BY <1>2, CoreWrites

(* A token of code that opens and closes nothing. *)
LEMMA PlainStep ==
  ASSUME Core, NEW L \in Seq(Letter), Len(L) > 0, Plain(L), text' = text \o L, code' = code \o L,
         where' \in Places, EndsWell(code \o L, where'),
         open' \in Seq(Frame), Nested(open', where', Len(text) + Len(L)),
         mistake' \in [brackets : Faults, tags : Faults], dialect' = dialect,
         \A k \in 1 .. Len(L) : L[k] \notin {"export", "execSync"}, said' = said
  PROVE  Core'
<1>1. Token(L, L) /\ code \in Seq(Letter)
  BY PlainToken DEF Core, Shape, TypeInv
<1>2. Passes(code, L, L)
  BY <1>1, PlainPasses
<1>3. said' = said \cup {} /\ {} \in SUBSET {"execSync"}
  OBVIOUS
<1> QED
  BY <1>1, <1>2, <1>3, CoreStep

(* The frames of a step that opens and closes nothing. *)
LEMMA SameIsNested ==
  ASSUME Core, NEW L \in Seq(Letter), where' \in Places, open' = open, where' \in Inside <=> where \in Inside
  PROVE  open' \in Seq(Frame) /\ Nested(open', where', Len(text) + Len(L))
<1>1. Len(text) \in Nat /\ Len(L) \in Nat /\ Len(text) <= Len(text) + Len(L) /\ open \in Seq(Frame) /\ where \in Places
  BY LenProperties DEF Core, Shape, TypeInv
<1>2. Nested(open, where, Len(text))
  BY DEF Core, Shape
<1>3. Nested(open, where', Len(text) + Len(L))
  BY <1>1, <1>2, NestedSame
<1> QED
  BY <1>1, <1>3

(* The types of the variables. *)
LEMMA CoreTypes ==
  ASSUME Core
  PROVE  /\ text \in Seq(Letter) /\ code \in Seq(Letter) /\ open \in Seq(Frame) /\ where \in Places
         /\ Len(code) = Len(text) /\ Len(text) \in Nat /\ mistake \in [brackets : Faults, tags : Faults]
BY LenProperties DEF Core, Shape, TypeInv, Seen

(* Return keeps the invariant. *)
LEMMA ReturnCore ==
  ASSUME Core, Return
  PROVE  Core'
<1> DEFINE L == <<"return", Blank>>
<1>1. L \in Seq(Letter) /\ Len(L) = 2 /\ L[1] = "return" /\ L[2] = Blank
  BY Letters, Two
<1>2. /\ text' = text \o L /\ code' = code \o L /\ open' = open /\ where = "operand" /\ where' = "operand"
      /\ said' = said /\ mistake' = mistake /\ dialect' = dialect
  BY DEF Return, Write, WriteBoth, Becomes
<1> HIDE DEF L
<1>3. Plain(L) /\ \A k \in 1 .. Len(L) : L[k] \notin {"export", "execSync"}
  BY <1>1 DEF Plain, Tick, Quote, Blank
<1>4. Ready(code \o L)
  <2>1. 1 \in 1 .. Len(L) /\ L[1] \in Keyword /\ \A k \in 1 + 1 .. Len(L) : L[k] \in Space
    BY <1>1 DEF Keyword, Space
  <2>2. Last(code) \notin NameChar
    BY <1>2 DEF Core, Shape, EndsWell
  <2> QED
    BY <1>1, <2>1, <2>2, CoreTypes, ReadyAfterKeyword
<1>5. EndsWell(code \o L, where')
  <2>1. L[Len(L)] \notin {"/", "<"} /\ L[Len(L)] \notin NameChar /\ where' # "children"
    BY <1>1, <1>2 DEF Blank, NameChar, Word
  <2>2. code \in Seq(Letter) /\ Len(L) > 0
    BY <1>1, CoreTypes
  <2>3. where' = "operand" => Ready(code \o L) /\ L[Len(L)] \notin NameChar
    BY <1>4, <2>1
  <2>4. where' = "children" => EndsIn(L, {">", "x", ".", "other", "rbrace"})
    BY <2>1
  <2> QED
    BY <1>1, <2>1, <2>2, <2>3, <2>4, EndsWellAfter
<1>6. where' \in Places /\ (where' \in Inside <=> where \in Inside)
  BY <1>2 DEF Places
<1>7. open' \in Seq(Frame) /\ Nested(open', where', Len(text) + Len(L))
  BY <1>1, <1>2, <1>6, SameIsNested
<1>8. mistake' \in [brackets : Faults, tags : Faults] /\ Len(L) > 0
  BY <1>1, <1>2, CoreTypes
<1> QED
  BY <1>1, <1>2, <1>3, <1>5, <1>6, <1>7, <1>8, PlainStep

(* The frames of a step that opens one thing. *)
LEMMA PushIsNested ==
  ASSUME Core, NEW L \in Seq(Letter), NEW what, NEW letter \in 1 .. Len(L), NEW after,
         OpenOne(what, letter, after), where' \in Places,
         what \in Opener \cup Element, after \in Places \ {"operand"},
         after \in Inside <=> where \in Inside, where' \in Inside <=> what \in Element,
         after \in Inside => what # "(", after = "tag" => what = "lbrace"
  PROVE  open' \in Seq(Frame) /\ Nested(open', where', Len(text) + Len(L))
<1> DEFINE f == [what |-> what, at |-> Len(text) + letter, after |-> after]
<1>1. open' = Append(open, f)
  BY DEF OpenOne
<1>2. Len(text) \in Nat /\ Len(L) \in Nat /\ open \in Seq(Frame) /\ where \in Places
  BY CoreTypes, LenProperties
<1>3. Len(text) + letter \in Nat \ {0} /\ Len(text) < Len(text) + letter
      /\ Len(text) + letter <= Len(text) + Len(L) /\ Len(text) <= Len(text) + Len(L)
      /\ Len(text) + Len(L) \in Nat
  BY <1>2
<1>4. f \in Frame /\ f.what = what /\ f.at = Len(text) + letter /\ f.after = after
  BY <1>3 DEF Frame
<1> HIDE DEF f
<1>5. Opens(Len(text), Len(text) + Len(L), where, where', f)
  BY <1>3, <1>4 DEF Opens
<1>6. Nested(open, where, Len(text))
  BY DEF Core, Shape
<1>7. Nested(Append(open, f), where', Len(text) + Len(L))
  BY <1>2, <1>3, <1>5, <1>6, NestedPush
<1>8. Append(open, f) \in Seq(Frame)
  BY <1>2, <1>4, AppendProperties
<1> QED
  BY <1>1, <1>7, <1>8

(* The frames of a step that closes the top. *)
LEMMA PopIsNested ==
  ASSUME Core, NEW L \in Seq(Letter), open # << >>, open' = Below, where' = Top.after
  PROVE  /\ open' \in Seq(Frame) /\ Nested(open', where', Len(text) + Len(L))
         /\ where' \in Places \ {"operand"} /\ Top.what \in Opener \cup Element
         /\ where' \in Inside => Top.what # "("
<1>1. Len(text) \in Nat /\ Len(L) \in Nat /\ open \in Seq(Frame) /\ where \in Places
      /\ Len(text) <= Len(text) + Len(L) /\ Len(text) + Len(L) \in Nat
  BY CoreTypes, LenProperties
<1>2. Nested(open, where, Len(text))
  BY DEF Core, Shape
<1>3. Len(open) \in 1 .. Len(open) /\ Below \in Seq(Frame)
  BY <1>1, PopIs DEF Below
<1>4. Top.what \in Opener \cup Element /\ Top.after \in Places \ {"operand"}
  BY <1>1, <1>3, FramesAre DEF Top
<1>5. Top.after \in Inside => Top.what # "("
  BY <1>2, <1>3 DEF Nested, Top
<1>6. Nested(Below, Top.after, Len(text) + Len(L))
  BY <1>1, <1>2, NestedPop DEF Below, Top
<1> QED
  BY <1>3, <1>4, <1>5, <1>6

(* Inside a tag or among children an element is on top. *)
LEMMA InsideTop ==
  ASSUME Core, where \in Inside
  PROVE  open # << >> /\ Top.what \in Element
<1>1. open \in Seq(Frame) /\ Len(open) \in Nat
  BY CoreTypes, LenProperties
<1>2. Len(open) > 0 /\ open[Len(open)].what \in Element
  <2>1. Len(open) \in 0 .. Len(open) /\ After(open, where, Len(open)) = where
    BY <1>1 DEF After
  <2> QED
    BY <2>1 DEF Core, Shape, Nested
<1> QED
  BY <1>1, <1>2, EmptySeq DEF Top

(* A string, template or comment where an expression stands. *)
LEMMA HiddenStep ==
  ASSUME Core, NEW L, HiddenToken(L),
         \/ where = "operand" /\ Delimited(L, Quote)
         \/ Delimited(L, Tick)
         \/ LineComment(L)
         \/ BlockComment(L),
         text' = text \o L, code' = code \o Unseen(L), open' = open,
         where \in Places \ Inside, where' \in Places \ Inside, where' = "operand" => where = "operand",
         mistake' = mistake, said' = said, dialect' = dialect
  PROVE  Core'
<1> DEFINE S == Unseen(L)
<1>1. Token(L, S) /\ \A k \in 1 .. Len(L) : S[k] \in Space
  BY HiddenTokenIs
<1> HIDE DEF S
<1>2. L \in Seq(Letter) /\ S \in Seq(Letter) /\ Len(S) = Len(L) /\ Len(L) > 0 /\ Len(S) \in 1 .. Len(L)
  BY <1>1, LenProperties DEF Token
<1>3. where = "operand" => Ready(code)
  BY DEF Core, Shape, EndsWell
<1>4. Passes(code, L, S)
  BY <1>2, <1>3, CoreTypes, HiddenPasses DEF S
<1>5. S[Len(S)] \in Space
  BY <1>1, <1>2
<1>6. where' = "operand" => Ready(code \o S)
  BY <1>1, <1>2, <1>3, CoreTypes, ReadyAfterSpace
<1>7. EndsWell(code \o S, where')
  <2>1. S[Len(S)] \notin {"/", "<"} /\ S[Len(S)] \notin NameChar /\ where' # "children"
    BY <1>5 DEF Space, Newline, Blank, NameChar, Word, Inside
  <2>2. code \in Seq(Letter) /\ Len(S) > 0
    BY <1>2, CoreTypes
  <2>3. where' = "operand" => Ready(code \o S) /\ S[Len(S)] \notin NameChar
    BY <1>6, <2>1
  <2>4. where' = "children" => EndsIn(S, {">", "x", ".", "other", "rbrace"})
    BY <2>1
  <2> QED
    BY <1>2, <2>1, <2>2, <2>3, <2>4, EndsWellAfter
<1>8. where' \in Places /\ (where' \in Inside <=> where \in Inside)
  OBVIOUS
<1>9. open' \in Seq(Frame) /\ Nested(open', where', Len(text) + Len(L))
  BY <1>2, <1>8, SameIsNested
<1>10. \A k \in 1 .. Len(L) : S[k] # "export"
  BY <1>1 DEF Space, Newline, Blank
<1>11. /\ mistake' \in [brackets : Faults, tags : Faults] /\ said' = said \cup {}
       /\ ("execSync" \in {} <=> \E k \in 1 .. Len(L) : L[k] = "execSync") /\ code' = code \o S
       /\ {} \in SUBSET {"execSync"}
  BY CoreTypes DEF HiddenToken, S
<1> QED
  BY <1>1, <1>4, <1>7, <1>8, <1>9, <1>10, <1>11, CoreStep

(* A string keeps the invariant. *)
LEMMA StringCore ==
  ASSUME Core, String
  PROVE  Core'
<1>1. PICK s \in Hidden \cup {<<Escape, Quote>>, <<Escape, Escape>>} :
        LET string == <<Quote>> \o s \o <<Quote>> IN WriteBoth(string, Unseen(string))
  BY DEF String
<1>2. StringBody(s, Quote)
  BY Bodies
<1> DEFINE L == <<Quote>> \o s \o <<Quote>>
<1>3. HiddenToken(L) /\ Delimited(L, Quote)
  BY <1>2, StringTokens
<1>4. /\ text' = text \o L /\ code' = code \o Unseen(L) /\ dialect' = dialect
  BY <1>1 DEF WriteBoth
<1>5. /\ where = "operand" /\ where' = "value" /\ open' = open /\ mistake' = mistake /\ said' = said
  BY DEF String, Becomes
<1>6. where \in Places \ Inside /\ where' \in Places \ Inside /\ where' # "operand"
  BY <1>5 DEF Places, Inside
<1> HIDE DEF L
<1> QED
  BY <1>3, <1>4, <1>5, <1>6, HiddenStep

(* A template does. *)
LEMMA TemplateCore ==
  ASSUME Core, Template
  PROVE  Core'
<1>1. PICK s \in {<<Quote, Newline, "(">>, <<Escape, Tick, "/", "*">>} :
        LET template == <<Tick>> \o s \o <<Tick>> IN WriteBoth(template, Unseen(template))
  BY DEF Template
<1>2. StringBody(s, Tick)
  BY Bodies
<1> DEFINE L == <<Tick>> \o s \o <<Tick>>
<1>3. HiddenToken(L) /\ Delimited(L, Tick)
  BY <1>2, StringTokens
<1>4. /\ text' = text \o L /\ code' = code \o Unseen(L) /\ dialect' = dialect
  BY <1>1 DEF WriteBoth
<1>5. /\ where = "operand" /\ where' = "value" /\ open' = open /\ mistake' = mistake /\ said' = said
  BY DEF Template, Becomes
<1>6. where \in Places \ Inside /\ where' \in Places \ Inside /\ where' # "operand"
  BY <1>5 DEF Places, Inside
<1> HIDE DEF L
<1> QED
  BY <1>3, <1>4, <1>5, <1>6, HiddenStep

(* A comment does. *)
LEMMA CommentCore ==
  ASSUME Core, Comment
  PROVE  Core'
<1>1. PICK s \in Hidden \cup {<<Quote>>} :
        \E comment \in {<<"/", "/">> \o s \o <<Newline>>, <<"/", "*", Newline>> \o s \o <<"*", "/">>} :
          WriteBoth(comment, Unseen(comment))
  BY DEF Comment
<1>2. PICK L \in {<<"/", "/">> \o s \o <<Newline>>, <<"/", "*", Newline>> \o s \o <<"*", "/">>} :
        WriteBoth(L, Unseen(L))
  BY <1>1
<1>3. CommentBody(s)
  BY Bodies
<1>4. HiddenToken(L) /\ (LineComment(L) \/ BlockComment(L))
  BY <1>2, <1>3, CommentTokens
<1>5. /\ text' = text \o L /\ code' = code \o Unseen(L) /\ dialect' = dialect
  BY <1>2 DEF WriteBoth
<1>6. /\ where \in {"operand", "value", "statement"} /\ where' = where
      /\ open' = open /\ mistake' = mistake /\ said' = said
  BY DEF Comment, Becomes
<1>7. where \in Places \ Inside /\ where' \in Places \ Inside
  BY <1>6 DEF Places, Inside
<1> HIDE <1>1, <1>2
<1> QED
  BY <1>4, <1>5, <1>6, <1>7, HiddenStep

(* A name does, the forbidden word too. *)
LEMMA NameCore ==
  ASSUME Core, Name
  PROVE  Core'
<1>1. PICK word \in {"x", "execSync"} :
        /\ text' = text \o <<word>> /\ code' = code \o <<word>> /\ dialect' = dialect
        /\ said' = said \cup ({word} \ {"x"})
  BY DEF Name, Write, WriteBoth
<1> DEFINE L == <<word>>
           more == {word} \ {"x"}
<1>2. L \in Seq(Letter) /\ Len(L) = 1 /\ L[1] = word
  BY Letters, One
<1>3. /\ where \in {"operand", "statement"} /\ where' = "value" /\ open' = open /\ mistake' = mistake
  BY DEF Name
<1>4. text' = text \o L /\ code' = code \o L /\ dialect' = dialect /\ said' = said \cup more
  BY <1>1
<1> HIDE DEF L
<1>5. Plain(L) /\ \A k \in 1 .. Len(L) : L[k] # "export"
  BY <1>2 DEF Plain, Tick, Quote
<1>6. more \in SUBSET {"execSync"} /\ ("execSync" \in more <=> \E k \in 1 .. Len(L) : L[k] = "execSync")
  BY <1>2
<1> HIDE DEF more
<1>7. EndsWell(code \o L, where')
  <2>1. L[Len(L)] \notin {"/", "<"} /\ where' # "children" /\ where' # "operand"
    BY <1>2, <1>3
  <2>2. code \in Seq(Letter) /\ Len(L) > 0
    BY <1>2, CoreTypes
  <2> QED
    BY <1>2, <2>1, <2>2, EndsWellAfter
<1>8. where' \in Places /\ (where' \in Inside <=> where \in Inside)
  BY <1>3 DEF Places, Inside
<1>9. open' \in Seq(Frame) /\ Nested(open', where', Len(text) + Len(L))
  BY <1>2, <1>3, <1>8, SameIsNested
<1>10. mistake' \in [brackets : Faults, tags : Faults] /\ Token(L, L) /\ Passes(code, L, L)
  <2>1. code \in Seq(Letter) /\ Len(L) > 0 /\ mistake \in [brackets : Faults, tags : Faults]
    BY <1>2, CoreTypes
  <2>2. Token(L, L)
    BY <1>2, <2>1, PlainToken
  <2>3. Passes(code, L, L)
    BY <1>2, <1>5, <2>1, PlainPasses
  <2> QED
    BY <1>3, <2>1, <2>2, <2>3
<1> QED
  BY <1>4, <1>5, <1>6, <1>7, <1>8, <1>9, <1>10, CoreStep

(* An operator, after which an operand is expected. *)
LEMMA OperatorCore ==
  ASSUME Core, NEW L \in Seq(Letter), Len(L) > 0, Plain(L), text' = text \o L, code' = code \o L,
         \A k \in 1 .. Len(L) : L[k] \notin {"export", "execSync"}, L[Len(L)] \in Operator \ {"/", "<"},
         where' = "operand", open' \in Seq(Frame), Nested(open', where', Len(text) + Len(L)),
         mistake' = mistake, dialect' = dialect, said' = said
  PROVE  Core'
<1>1. Ready(code \o L)
  BY CoreTypes, ReadyAfterOperator
<1>2. EndsWell(code \o L, where')
  <2>1. L[Len(L)] \notin {"/", "<"} /\ L[Len(L)] \notin NameChar /\ where' # "children"
    BY DEF Operator, Opener, NameChar, Word
  <2>2. where' = "operand" => Ready(code \o L) /\ L[Len(L)] \notin NameChar
    BY <1>1, <2>1
  <2> QED
    BY <2>1, <2>2, CoreTypes, EndsWellAfter
<1>3. where' \in Places /\ mistake' \in [brackets : Faults, tags : Faults]
  BY CoreTypes DEF Places
<1> QED
  BY <1>2, <1>3, PlainStep

(* A comparison follows a name or a parenthesis. *)
LEMMA LessCore ==
  ASSUME Core, where = "value", Ends({"x", ")"}), Write(<<"<">>), Becomes("operand"), open' = open
  PROVE  Core'
<1> DEFINE L == <<"<">>
           n == Len(code)
<1>1. L \in Seq(Letter) /\ Len(L) = 1 /\ L[1] = "<"
  BY Letters, One
<1>2. /\ text' = text \o L /\ code' = code \o L /\ dialect' = dialect
      /\ where' = "operand" /\ mistake' = mistake /\ said' = said
  BY DEF Write, WriteBoth, Becomes
<1> HIDE DEF L
<1>3. Plain(L) /\ \A k \in 1 .. Len(L) : L[k] \notin {"export", "execSync"}
  BY <1>1 DEF Plain, Tick, Quote
<1>4. code \in Seq(Letter) /\ n \in Nat /\ Len(text) = n
  BY CoreTypes
<1>5. At(code, n) \in {"x", ")"}
  <2>1. At(text, Len(text)) \in {"x", ")"}
    BY DEF Ends
  <2>2. At(text, Len(text)) \notin {Quote, Tick, "/"}
    BY <2>1 DEF Quote, Tick
  <2> QED
    BY <2>1, <2>2 DEF Core, Shape, Seen
<1>6. n > 0 /\ code[n] \in {"x", ")"}
  BY <1>4, <1>5, LenProperties DEF At
<1>7. /\ code \o L \in Seq(Letter) /\ Len(code \o L) = n + 1 /\ (code \o L)[n] = code[n]
  <2>1. /\ code \o L \in Seq(Letter) /\ Len(code \o L) = n + Len(L)
        /\ \A i \in 1 .. n : (code \o L)[i] = code[i]
    BY <1>1, <1>4, JoinIs
  <2>2. n \in 1 .. n
    BY <1>4, <1>6
  <2> QED
    BY <1>1, <2>1, <2>2
<1>8. ~JsxPosition(code \o L, n + 1)
  <2> DEFINE c == code \o L
  <2> HIDE DEF c
  <2>1. c \in Seq(Letter) /\ n <= Len(c) /\ c[n] \in {"x", ")"}
    BY <1>4, <1>6, <1>7 DEF c
  <2>2. ~JsxPosition(c, n + 1)
    BY <1>4, <1>6, <2>1, NoTagAfter
  <2> QED
    BY <2>2 DEF c
<1>9. Ready(code \o L)
  <2>1. L[Len(L)] \in Operator /\ Len(L) > 0
    BY <1>1 DEF Operator
  <2> QED
    BY <1>1, <1>4, <2>1, ReadyAfterOperator
<1>10. EndsWell(code \o L, where')
  <2>1. Last(code \o L) = "<"
    BY <1>1, <1>4, LastIs
  <2> QED
    BY <1>2, <1>7, <1>8, <1>9, <2>1 DEF EndsWell, NameChar, Word
<1>11. where' \in Places /\ (where' \in Inside <=> where \in Inside)
  BY <1>2 DEF Places, Inside
<1>12. open' \in Seq(Frame) /\ Nested(open', where', Len(text) + Len(L))
  BY <1>1, <1>11, SameIsNested
<1>13. mistake' \in [brackets : Faults, tags : Faults] /\ Len(L) > 0
  BY <1>1, <1>2, CoreTypes
<1> QED
  BY <1>1, <1>2, <1>3, <1>10, <1>11, <1>12, <1>13, PlainStep

(* An operator does: the "<" of a comparison is no tag. *)
LEMMA OperateCore ==
  ASSUME Core, Operate
  PROVE  Core'
<1>1. where = "value" /\ where' = "operand" /\ open' = open /\ mistake' = mistake /\ said' = said
      /\ Becomes("operand")
  BY DEF Operate, Becomes
<1>2. where' \in Places /\ (where' \in Inside <=> where \in Inside)
  BY <1>1 DEF Places, Inside
<1>3. ASSUME NEW op \in {"=", ">"}, Write(<<op>>) PROVE Core'
  <2> DEFINE L == <<op>>
  <2>1. L \in Seq(Letter) /\ Len(L) = 1 /\ L[1] = op
    BY Letters, One
  <2>2. text' = text \o L /\ code' = code \o L /\ dialect' = dialect
    BY <1>3 DEF Write, WriteBoth
  <2> HIDE DEF L
  <2>3. Plain(L) /\ \A k \in 1 .. Len(L) : L[k] \notin {"export", "execSync"}
    BY <2>1 DEF Plain, Tick, Quote
  <2>4. L[Len(L)] \in Operator \ {"/", "<"} /\ Len(L) > 0
    BY <2>1 DEF Operator
  <2>5. open' \in Seq(Frame) /\ Nested(open', where', Len(text) + Len(L))
    BY <1>1, <1>2, <2>1, SameIsNested
  <2> QED
    BY <1>1, <2>1, <2>2, <2>3, <2>4, <2>5, OperatorCore
<1>4. ASSUME Write(<<"=", ">">>) PROVE Core'
  <2> DEFINE L == <<"=", ">">>
  <2>1. L \in Seq(Letter) /\ Len(L) = 2 /\ L[1] = "=" /\ L[2] = ">"
    BY Letters, Two
  <2>2. text' = text \o L /\ code' = code \o L /\ dialect' = dialect
    BY <1>4 DEF Write, WriteBoth
  <2> HIDE DEF L
  <2>3. Plain(L) /\ \A k \in 1 .. Len(L) : L[k] \notin {"export", "execSync"}
    BY <2>1 DEF Plain, Tick, Quote
  <2>4. L[Len(L)] \in Operator \ {"/", "<"} /\ Len(L) > 0
    BY <2>1 DEF Operator
  <2>5. open' \in Seq(Frame) /\ Nested(open', where', Len(text) + Len(L))
    BY <1>1, <1>2, <2>1, SameIsNested
  <2> QED
    BY <1>1, <2>1, <2>2, <2>3, <2>4, <2>5, OperatorCore
<1>5. ASSUME Ends({"x", ")"}), Write(<<"<">>) PROVE Core'
  BY <1>1, <1>5, LessCore
<1> QED
  BY <1>3, <1>4, <1>5 DEF Operate

(* Where a value or a tag goes on, any last letter but two will do. *)
LEMMA GoesOnCore ==
  ASSUME Core, NEW L \in Seq(Letter), Len(L) > 0, Plain(L), text' = text \o L, code' = code \o L,
         \A k \in 1 .. Len(L) : L[k] \notin {"export", "execSync"}, L[Len(L)] \notin {"/", "<"},
         where' \in Places \ {"operand"}, where' = "children" => EndsIn(L, {">", "x", ".", "other", "rbrace"}),
         open' \in Seq(Frame), Nested(open', where', Len(text) + Len(L)),
         mistake' \in [brackets : Faults, tags : Faults], dialect' = dialect, said' = said
  PROVE  Core'
<1>1. EndsWell(code \o L, where')
  <2>1. where' # "operand"
    OBVIOUS
  <2> QED
    BY <2>1, CoreTypes, EndsWellAfter
<1> QED
  BY <1>1, PlainStep

(* Type arguments and assertions do. *)
LEMMA GenericCore ==
  ASSUME Core, Generic
  PROVE  Core'
<1>1. PICK type \in {"A", "string"} : Write(<<"<", type, ">">>) /\ where \in {"value", "operand"}
  BY DEF Generic
<1> DEFINE L == <<"<", type, ">">>
<1>2. L \in Seq(Letter) /\ Len(L) = 3 /\ L[1] = "<" /\ L[2] = type /\ L[3] = ">"
  BY Letters, Three
<1>3. /\ text' = text \o L /\ code' = code \o L /\ dialect' = dialect
      /\ where' = where /\ mistake' = mistake /\ said' = said /\ open' = open
  BY <1>1 DEF Generic, Write, WriteBoth, Becomes
<1> HIDE DEF L
<1>4. Plain(L) /\ \A k \in 1 .. Len(L) : L[k] \notin {"export", "execSync"}
  BY <1>2 DEF Plain, Tick, Quote
<1>5. where' \in Places /\ (where' \in Inside <=> where \in Inside) /\ where' # "children"
  BY <1>1, <1>3 DEF Places, Inside
<1>6. open' \in Seq(Frame) /\ Nested(open', where', Len(text) + Len(L))
  BY <1>2, <1>3, <1>5, SameIsNested
<1>7. L[Len(L)] \in Operator \ {"/", "<"} /\ L[Len(L)] \notin {"/", "<"} /\ Len(L) > 0
  BY <1>2 DEF Operator
<1>8. mistake' \in [brackets : Faults, tags : Faults]
  BY <1>3, CoreTypes
<1>9. CASE where = "operand"
  BY <1>2, <1>3, <1>4, <1>6, <1>7, <1>9, OperatorCore
<1>10. CASE where # "operand"
  <2>1. where' \in Places \ {"operand"}
    BY <1>3, <1>5, <1>10
  <2> QED
    BY <1>2, <1>3, <1>4, <1>5, <1>6, <1>7, <1>8, <2>1, GoesOnCore
<1> QED
  BY <1>9, <1>10

(* One plain letter of code. *)
LEMMA OneLetter ==
  ASSUME NEW a \in Letter \ {Tick, "/", Quote, "export", "execSync"}, Write(<<a>>)
  PROVE  /\ <<a>> \in Seq(Letter) /\ Len(<<a>>) = 1 /\ <<a>>[1] = a
         /\ text' = text \o <<a>> /\ code' = code \o <<a>> /\ dialect' = dialect
         /\ Plain(<<a>>) /\ \A k \in 1 .. Len(<<a>>) : <<a>>[k] \notin {"export", "execSync"}
<1> DEFINE L == <<a>>
<1>1. L \in Seq(Letter) /\ Len(L) = 1 /\ L[1] = a
  BY One
<1>2. text' = text \o L /\ code' = code \o L /\ dialect' = dialect
  BY DEF Write, WriteBoth
<1> HIDE DEF L
<1>3. Plain(L) /\ \A k \in 1 .. Len(L) : L[k] \notin {"export", "execSync"}
  BY <1>1 DEF Plain
<1> QED
  BY <1>1, <1>2, <1>3 DEF L

(* An opening bracket is an operator to the scanner. *)
LEMMA OpenerIs ==
  ASSUME NEW a \in {"(", "lbrace"}
  PROVE  /\ a \in Letter \ {Tick, "/", Quote, "export", "execSync"} /\ a \in Operator \ {"/", "<"}
         /\ a \in Opener
BY Letters DEF Tick, Quote, Operator, Opener

(* A parenthesis or a brace before an operand. *)
LEMMA OpenerCore ==
  ASSUME Core, NEW a \in {"(", "lbrace"}, Write(<<a>>), NEW after \in Places \ {"operand"},
         OpenOne(a, 1, after), Becomes("operand"),
         after \in Inside <=> where \in Inside, after \in Inside => a # "(", after # "tag"
  PROVE  Core'
<1> DEFINE L == <<a>>
<1>1. a \in Letter \ {Tick, "/", Quote, "export", "execSync"} /\ a \in Operator \ {"/", "<"} /\ a \in Opener
  BY OpenerIs
<1>2. /\ L \in Seq(Letter) /\ Len(L) = 1 /\ L[1] = a
      /\ text' = text \o L /\ code' = code \o L /\ dialect' = dialect
      /\ Plain(L) /\ \A k \in 1 .. Len(L) : L[k] \notin {"export", "execSync"}
  BY <1>1, OneLetter
<1> HIDE DEF L
<1>3. where' = "operand" /\ said' = said /\ mistake' = mistake
  BY DEF Becomes
<1>4. where' \in Places /\ (where' \in Inside <=> a \in Element) /\ 1 \in 1 .. Len(L)
      /\ a \in Opener \cup Element /\ (after = "tag" => a = "lbrace")
  BY <1>1, <1>2, <1>3 DEF Places, Inside, Element
<1>5. open' \in Seq(Frame) /\ Nested(open', where', Len(text) + Len(L))
  BY <1>2, <1>4, PushIsNested
<1>6. Len(L) > 0 /\ L[Len(L)] \in Operator \ {"/", "<"}
  BY <1>1, <1>2
<1> QED
  BY <1>2, <1>3, <1>5, <1>6, OperatorCore

(* An opening parenthesis keeps the invariant. *)
LEMMA ParenthesisCore ==
  ASSUME Core, Parenthesis
  PROVE  Core'
<1>1. /\ "(" \in {"(", "lbrace"} /\ "value" \in Places \ {"operand"} /\ "value" # "tag"
      /\ ("value" \in Inside <=> where \in Inside) /\ ("value" \in Inside => "(" # "(")
  BY DEF Parenthesis, Places, Inside
<1> QED
  BY <1>1, OpenerCore DEF Parenthesis

(* A block does. *)
LEMMA BlockCore ==
  ASSUME Core, Block
  PROVE  Core'
<1>1. /\ "lbrace" \in {"(", "lbrace"} /\ "statement" \in Places \ {"operand"} /\ "statement" # "tag"
      /\ ("statement" \in Inside <=> where \in Inside) /\ ("statement" \in Inside => "lbrace" # "(")
  BY DEF Block, Places, Inside
<1> QED
  BY <1>1, OpenerCore DEF Block

(* An expression in braces among children does. *)
LEMMA ContainerCore ==
  ASSUME Core, Container
  PROVE  Core'
<1>1. /\ "lbrace" \in {"(", "lbrace"} /\ "children" \in Places \ {"operand"} /\ "children" # "tag"
      /\ ("children" \in Inside <=> where \in Inside) /\ ("children" \in Inside => "lbrace" # "(")
  BY DEF Container, Places, Inside
<1> QED
  BY <1>1, OpenerCore DEF Container

(* A closing bracket does. *)
LEMMA CloseBracketCore ==
  ASSUME Core, CloseBracket
  PROVE  Core'
<1> DEFINE a == Closing(Top.what)
           L == <<a>>
<1>1. /\ open # << >> /\ Top.what \in Opener /\ Write(L) /\ open' = Below /\ where' = Top.after
      /\ mistake' = mistake /\ said' = said
  BY DEF CloseBracket, Becomes
<1>2. a \in {")", "rbrace"} /\ (Top.what # "(" => a = "rbrace")
  BY <1>1 DEF Closing, Opener
<1>3. a \in Letter \ {Tick, "/", Quote, "export", "execSync"}
  BY <1>2, Letters DEF Tick, Quote
<1> HIDE DEF a
<1>4. /\ L \in Seq(Letter) /\ Len(L) = 1 /\ L[1] = a
      /\ text' = text \o L /\ code' = code \o L /\ dialect' = dialect
      /\ Plain(L) /\ \A k \in 1 .. Len(L) : L[k] \notin {"export", "execSync"}
  BY <1>1, <1>3, OneLetter
<1> HIDE DEF L
<1>5. /\ open' \in Seq(Frame) /\ Nested(open', where', Len(text) + Len(L))
      /\ where' \in Places \ {"operand"} /\ (where' \in Inside => Top.what # "(")
  BY <1>1, <1>4, PopIsNested
<1>6. Len(L) > 0 /\ L[Len(L)] \notin {"/", "<"}
  BY <1>2, <1>4
<1>7. where' = "children" => EndsIn(L, {">", "x", ".", "other", "rbrace"})
  <2>1. where' = "children" => a = "rbrace"
    BY <1>2, <1>5 DEF Inside
  <2>2. 1 \in 1 .. Len(L) /\ \A k \in 1 + 1 .. Len(L) : L[k] \in Space
    BY <1>4
  <2> QED
    BY <1>4, <2>1, <2>2 DEF EndsIn
<1>8. mistake' \in [brackets : Faults, tags : Faults]
  BY <1>1, CoreTypes
<1> QED
  BY <1>1, <1>4, <1>5, <1>6, <1>7, <1>8, GoesOnCore

(* The first error is an error that a scanner can report. *)
LEMMA BlamesIs ==
  ASSUME Core, NEW first \in Faults, NEW kinds
  PROVE  Blames(first, kinds) \in Faults
<1>1. Here \in Nat
  BY CoreTypes, LineIs DEF Here
<1>2. [error |-> IF Innermost(kinds) = 0 THEN "unexpected" ELSE "mismatched", line |-> Here]
        \in [error : {"unexpected", "mismatched"}, line : Nat]
  BY <1>1
<1> QED
  BY <1>2 DEF Blames, Faults

(* A wrong bracket keeps the invariant. *)
LEMMA WrongBracketCore ==
  ASSUME Core, WrongBracket
  PROVE  Core'
<1>1. PICK opener \in Opener : Write(<<Closing(opener)>>)
  BY DEF WrongBracket
<1> DEFINE a == Closing(opener)
           L == <<a>>
<1>2. a \in {")", "rbrace"}
  BY DEF Closing, Opener
<1>3. a \in Letter \ {Tick, "/", Quote, "export", "execSync"} /\ Write(L)
  BY <1>1, <1>2, Letters DEF Tick, Quote
<1> HIDE DEF a
<1>4. /\ L \in Seq(Letter) /\ Len(L) = 1 /\ L[1] = a
      /\ text' = text \o L /\ code' = code \o L /\ dialect' = dialect
      /\ Plain(L) /\ \A k \in 1 .. Len(L) : L[k] \notin {"export", "execSync"}
  BY <1>3, OneLetter
<1> HIDE DEF L
<1>5. where \in {"operand", "value"} /\ where' = "value" /\ open' = open /\ said' = said
      /\ mistake' = [mistake EXCEPT !.brackets = Blames(@, Opener)]
  BY DEF WrongBracket
<1>6. where' \in Places \ {"operand"} /\ (where' \in Inside <=> where \in Inside) /\ where' # "children"
  BY <1>5 DEF Places, Inside
<1>7. open' \in Seq(Frame) /\ Nested(open', where', Len(text) + Len(L))
  BY <1>4, <1>5, <1>6, SameIsNested
<1>8. Len(L) > 0 /\ L[Len(L)] \notin {"/", "<"}
  BY <1>2, <1>4
<1>9. mistake' \in [brackets : Faults, tags : Faults]
  <2>1. mistake \in [brackets : Faults, tags : Faults]
    BY CoreTypes
  <2>2. Blames(mistake.brackets, Opener) \in Faults
    BY <2>1, BlamesIs
  <2> QED
    BY <1>5, <2>1, <2>2
<1> QED
  BY <1>4, <1>5, <1>6, <1>7, <1>8, <1>9, GoesOnCore

(* The name of an element is a word, no type and no operator. *)
LEMMA ElementIs ==
  ASSUME NEW name \in Element
  PROVE  /\ name \in Letter \ {Tick, "/", Quote, "*", "<", "export", "execSync"} /\ name \in Word
         /\ name \notin Opener /\ name \notin TypeName /\ name \notin Operator
BY Letters DEF Element, Tick, Quote, Word, Opener, TypeName, Operator

(* The start of a tag keeps the invariant. *)
LEMMA StartTagCore ==
  ASSUME Core, StartTag
  PROVE  Core'
<1> DEFINE after == IF where = "children" THEN "children" ELSE "value"
<1>1. PICK name \in Element : Write(<<"<", name>>) /\ OpenOne(name, 1, after)
  BY DEF StartTag
<1>2. where \in {"operand", "children"} /\ where' = "tag" /\ said' = said /\ mistake' = mistake
  BY DEF StartTag, Becomes
<1> DEFINE L == <<"<", name>>
<1>3. name \in Letter \ {Tick, "/", Quote, "*", "<", "export", "execSync"} /\ name \notin Opener
  BY ElementIs
<1>4. L \in Seq(Letter) /\ Len(L) = 2 /\ L[1] = "<" /\ L[2] = name
  BY <1>3, Letters, Two
<1>5. text' = text \o L /\ code' = code \o L /\ dialect' = dialect
  BY <1>1 DEF Write, WriteBoth
<1> HIDE DEF L
<1>6. Plain(L) /\ \A k \in 1 .. Len(L) : L[k] \notin {"export", "execSync"}
  BY <1>3, <1>4 DEF Plain, Tick, Quote
<1>7. /\ after \in Places \ {"operand"} /\ (after \in Inside <=> where \in Inside)
      /\ after # "tag" /\ where' \in Places \ {"operand"} /\ where' # "children" /\ where' \in Inside
  BY <1>2 DEF Places, Inside
<1> HIDE DEF after
<1>8. 1 \in 1 .. Len(L) /\ name \in Opener \cup Element /\ name # "(" /\ (where' \in Inside <=> name \in Element)
      /\ (after = "tag" => name = "lbrace") /\ (after \in Inside => name # "(") /\ where' \in Places
  BY <1>3, <1>4, <1>7 DEF Opener
<1>9. open' \in Seq(Frame) /\ Nested(open', where', Len(text) + Len(L))
  BY <1>1, <1>4, <1>7, <1>8, PushIsNested
<1>10. mistake' \in [brackets : Faults, tags : Faults] /\ Len(L) > 0 /\ L[Len(L)] \notin {"/", "<"}
  BY <1>2, <1>3, <1>4, CoreTypes
<1> QED
  BY <1>2, <1>4, <1>5, <1>6, <1>7, <1>9, <1>10, GoesOnCore

(* The end of a tag does. *)
LEMMA EndTagCore ==
  ASSUME Core, EndTag
  PROVE  Core'
<1>1. where = "tag" /\ mistake' = mistake /\ said' = said
  BY DEF EndTag, Becomes
<1>2. mistake' \in [brackets : Faults, tags : Faults] /\ open # << >>
  BY <1>1, CoreTypes, InsideTop DEF Inside
<1>3. ASSUME Write(<<"/", ">">>), open' = Below, Becomes(Top.after) PROVE Core'
  <2> DEFINE L == <<"/", ">">>
  <2>1. L \in Seq(Letter) /\ Len(L) = 2 /\ L[1] = "/" /\ L[2] = ">"
    BY Letters, Two
  <2>2. text' = text \o L /\ code' = code \o L /\ dialect' = dialect /\ where' = Top.after
    BY <1>3 DEF Write, WriteBoth, Becomes
  <2> HIDE DEF L
  <2>3. Plain(L) /\ \A k \in 1 .. Len(L) : L[k] \notin {"export", "execSync"}
    BY <2>1 DEF Plain, Tick, Quote
  <2>4. Len(L) > 0 /\ L[Len(L)] \notin {"/", "<"}
    BY <2>1
  <2>5. EndsIn(L, {">", "x", ".", "other", "rbrace"})
    <3>1. 2 \in 1 .. Len(L) /\ \A k \in 2 + 1 .. Len(L) : L[k] \in Space
      BY <2>1
    <3> QED
      BY <2>1, <3>1 DEF EndsIn
  <2>6. open' \in Seq(Frame) /\ Nested(open', where', Len(text) + Len(L)) /\ where' \in Places \ {"operand"}
    BY <1>2, <1>3, <2>1, <2>2, PopIsNested
  <2> QED
    BY <1>1, <1>2, <2>1, <2>2, <2>3, <2>4, <2>5, <2>6, GoesOnCore
<1>4. ASSUME Write(<<">">>), open' = open, Becomes("children") PROVE Core'
  <2> DEFINE L == <<">">>
  <2>1. ">" \in Letter \ {Tick, "/", Quote, "export", "execSync"}
    BY Letters DEF Tick, Quote
  <2>2. /\ L \in Seq(Letter) /\ Len(L) = 1 /\ L[1] = ">"
        /\ text' = text \o L /\ code' = code \o L /\ dialect' = dialect
        /\ Plain(L) /\ \A k \in 1 .. Len(L) : L[k] \notin {"export", "execSync"}
    BY <1>4, <2>1, OneLetter
  <2> HIDE DEF L
  <2>3. where' = "children" /\ where' \in Places \ {"operand"} /\ (where' \in Inside <=> where \in Inside)
    BY <1>1, <1>4 DEF Becomes, Places, Inside
  <2>4. Len(L) > 0 /\ L[Len(L)] \notin {"/", "<"}
    BY <2>2
  <2>5. EndsIn(L, {">", "x", ".", "other", "rbrace"})
    <3>1. 1 \in 1 .. Len(L) /\ \A k \in 1 + 1 .. Len(L) : L[k] \in Space
      BY <2>2
    <3> QED
      BY <2>2, <3>1 DEF EndsIn
  <2>6. open' \in Seq(Frame) /\ Nested(open', where', Len(text) + Len(L))
    BY <1>4, <2>2, <2>3, SameIsNested
  <2> QED
    BY <1>1, <1>2, <2>2, <2>3, <2>4, <2>5, <2>6, GoesOnCore
<1> QED
  BY <1>3, <1>4 DEF EndTag

(* A tag that closes an element. *)
LEMMA ClosingTagIs ==
  ASSUME NEW name \in Element, Write(<<"<", "/", name, ">">>)
  PROVE  LET L == <<"<", "/", name, ">">> IN
         /\ L \in Seq(Letter) /\ Len(L) = 4 /\ L[1] = "<" /\ L[2] = "/" /\ L[3] = name /\ L[4] = ">"
         /\ text' = text \o L /\ code' = code \o L /\ dialect' = dialect
         /\ Plain(L) /\ \A k \in 1 .. Len(L) : L[k] \notin {"export", "execSync"}
         /\ EndsIn(L, {">", "x", ".", "other", "rbrace"})
<1> DEFINE L == <<"<", "/", name, ">">>
<1>1. name \in Letter \ {Tick, "/", Quote, "*", "<", "export", "execSync"}
  BY ElementIs
<1>2. L \in Seq(Letter) /\ Len(L) = 4 /\ L[1] = "<" /\ L[2] = "/" /\ L[3] = name /\ L[4] = ">"
  BY <1>1, Letters, Four
<1>3. text' = text \o L /\ code' = code \o L /\ dialect' = dialect
  BY DEF Write, WriteBoth
<1> HIDE DEF L
<1>4. Plain(L) /\ \A k \in 1 .. Len(L) : L[k] \notin {"export", "execSync"}
  <2>1. \A k \in 1 .. Len(L) : k \in {1, 2, 3, 4}
    BY <1>2
  <2>2. \A k \in {1, 2, 3, 4} : L[k] \notin {Tick, Quote, "export", "execSync"}
    BY <1>1, <1>2 DEF Tick, Quote
  <2>3. \A k \in {1, 2, 3, 4} : L[k] = "/" => k < Len(L) /\ L[k + 1] \notin {"/", "*"}
    <3>1. \A k \in {1, 2, 3, 4} : L[k] = "/" => k = 2
      BY <1>1, <1>2
    <3>2. 2 < Len(L) /\ 2 + 1 = 3 /\ L[3] \notin {"/", "*"}
      BY <1>1, <1>2
    <3> QED
      BY <3>1, <3>2
  <2> QED
    BY <2>1, <2>2, <2>3 DEF Plain
<1>5. EndsIn(L, {">", "x", ".", "other", "rbrace"})
  <2>1. 4 \in 1 .. Len(L) /\ \A k \in 4 + 1 .. Len(L) : L[k] \in Space
    BY <1>2
  <2> QED
    BY <1>2, <2>1 DEF EndsIn
<1> QED
  BY <1>2, <1>3, <1>4, <1>5 DEF L

(* A closing tag does. *)
LEMMA CloseTagCore ==
  ASSUME Core, CloseTag
  PROVE  Core'
<1> DEFINE name == Top.what
           L == <<"<", "/", name, ">">>
<1>1. /\ where = "children" /\ Write(L) /\ open' = Below /\ where' = Top.after
      /\ mistake' = mistake /\ said' = said
  BY DEF CloseTag, Becomes
<1>2. open # << >> /\ name \in Element
  BY <1>1, InsideTop DEF Inside
<1> HIDE DEF name
<1>3. /\ L \in Seq(Letter) /\ Len(L) = 4 /\ L[4] = ">"
      /\ text' = text \o L /\ code' = code \o L /\ dialect' = dialect
      /\ Plain(L) /\ \A k \in 1 .. Len(L) : L[k] \notin {"export", "execSync"}
      /\ EndsIn(L, {">", "x", ".", "other", "rbrace"})
  BY <1>1, <1>2, ClosingTagIs
<1> HIDE DEF L
<1>4. open' \in Seq(Frame) /\ Nested(open', where', Len(text) + Len(L)) /\ where' \in Places \ {"operand"}
  BY <1>1, <1>2, <1>3, PopIsNested
<1>5. mistake' \in [brackets : Faults, tags : Faults] /\ Len(L) > 0 /\ L[Len(L)] \notin {"/", "<"}
  BY <1>1, <1>3, CoreTypes
<1> QED
  BY <1>1, <1>3, <1>4, <1>5, GoesOnCore

(* A wrong closing tag does. *)
LEMMA WrongTagCore ==
  ASSUME Core, WrongTag
  PROVE  Core'
<1>1. PICK name \in Element : Write(<<"<", "/", name, ">">>)
  BY DEF WrongTag
<1> DEFINE L == <<"<", "/", name, ">">>
<1>2. /\ L \in Seq(Letter) /\ Len(L) = 4 /\ L[4] = ">"
      /\ text' = text \o L /\ code' = code \o L /\ dialect' = dialect
      /\ Plain(L) /\ \A k \in 1 .. Len(L) : L[k] \notin {"export", "execSync"}
      /\ EndsIn(L, {">", "x", ".", "other", "rbrace"})
  BY <1>1, ClosingTagIs
<1> HIDE DEF L
<1>3. where \in {"children", "value"} /\ where' = where /\ open' = open /\ said' = said
      /\ mistake' = [mistake EXCEPT !.tags = Blames(@, Element)]
  BY DEF WrongTag
<1>4. where' \in Places \ {"operand"} /\ (where' \in Inside <=> where \in Inside)
  BY <1>3 DEF Places, Inside
<1>5. open' \in Seq(Frame) /\ Nested(open', where', Len(text) + Len(L))
  BY <1>2, <1>3, <1>4, SameIsNested
<1>6. Len(L) > 0 /\ L[Len(L)] \notin {"/", "<"}
  BY <1>2
<1>7. mistake' \in [brackets : Faults, tags : Faults]
  <2>1. mistake \in [brackets : Faults, tags : Faults]
    BY CoreTypes
  <2>2. Blames(mistake.tags, Element) \in Faults
    BY <2>1, BlamesIs
  <2> QED
    BY <1>3, <2>1, <2>2
<1> QED
  BY <1>2, <1>3, <1>4, <1>5, <1>6, <1>7, GoesOnCore

(* Text among children does, with an apostrophe too. *)
LEMMA TextCore ==
  ASSUME Core, Text
  PROVE  Core'
<1>1. PICK L \in {<<"x">>, <<"x", ".">>, <<"other", Newline>>, <<"x", Quote, "x">>} : Write(L)
  BY DEF Text
<1>2. /\ L \in Seq(Letter) /\ Len(L) > 0 /\ Plain(L) /\ L[Len(L)] \notin {"/", "<"}
      /\ \A k \in 1 .. Len(L) : L[k] \notin {"export", "execSync"}
      /\ EndsIn(L, {">", "x", ".", "other", "rbrace"})
  <2>1. CASE L = <<"x">>
    <3>1. L \in Seq(Letter) /\ Len(L) = 1 /\ L[1] = "x"
      BY <2>1, Letters, One
    <3>2. 1 \in 1 .. Len(L) /\ \A k \in 1 + 1 .. Len(L) : L[k] \in Space
      BY <3>1
    <3> QED
      BY <3>1, <3>2 DEF Plain, EndsIn, Tick, Quote
  <2>2. CASE L = <<"x", ".">>
    <3>1. L \in Seq(Letter) /\ Len(L) = 2 /\ L[1] = "x" /\ L[2] = "."
      BY <2>2, Letters, Two
    <3>2. 2 \in 1 .. Len(L) /\ \A k \in 2 + 1 .. Len(L) : L[k] \in Space
      BY <3>1
    <3> QED
      BY <3>1, <3>2 DEF Plain, EndsIn, Tick, Quote
  <2>3. CASE L = <<"other", Newline>>
    <3>1. L \in Seq(Letter) /\ Len(L) = 2 /\ L[1] = "other" /\ L[2] = Newline
      BY <2>3, Letters, Two
    <3>2. 1 \in 1 .. Len(L) /\ \A k \in 1 + 1 .. Len(L) : L[k] \in Space
      BY <3>1 DEF Space
    <3> QED
      BY <3>1, <3>2 DEF Plain, EndsIn, Tick, Quote, Newline
  <2>4. CASE L = <<"x", Quote, "x">>
    <3>1. L \in Seq(Letter) /\ Len(L) = 3 /\ L[1] = "x" /\ L[2] = Quote /\ L[3] = "x"
      BY <2>4, Letters, Three
    <3>2. 3 \in 1 .. Len(L) /\ \A k \in 3 + 1 .. Len(L) : L[k] \in Space
      BY <3>1
    <3>3. Plain(L)
      <4>1. \A k \in 1 .. Len(L) : k \in {1, 2, 3}
        BY <3>1
      <4>2. 2 > 1 /\ L[2 - 1] = "x" /\ L[1] # Quote /\ L[3] # Quote /\ \A k \in {1, 2, 3} : L[k] \notin {Tick, "/"}
        BY <3>1 DEF Tick, Quote
      <4> QED
        BY <4>1, <4>2 DEF Plain
    <3> QED
      BY <3>1, <3>2, <3>3 DEF EndsIn, Quote
  <2> QED
    BY <2>1, <2>2, <2>3, <2>4
<1>3. /\ text' = text \o L /\ code' = code \o L /\ dialect' = dialect
      /\ where = "children" /\ where' = "children" /\ open' = open /\ mistake' = mistake /\ said' = said
  BY <1>1 DEF Text, Write, WriteBoth, Becomes
<1> HIDE <1>1
<1>4. where' \in Places \ {"operand"} /\ (where' \in Inside <=> where \in Inside)
  BY <1>3 DEF Places, Inside
<1>5. open' \in Seq(Frame) /\ Nested(open', where', Len(text) + Len(L))
  BY <1>2, <1>3, <1>4, SameIsNested
<1>6. mistake' \in [brackets : Faults, tags : Faults]
  BY <1>3, CoreTypes
<1> QED
  BY <1>2, <1>3, <1>4, <1>5, <1>6, GoesOnCore

(* The invariant holds of the empty text. *)
LEMMA InitCore ==
  ASSUME Init
  PROVE  Core
<1>1. /\ text = << >> /\ code = << >> /\ open = << >> /\ where = "operand" /\ said = {}
      /\ mistake = [brackets |-> Fine, tags |-> Fine] /\ dialect \in Dialects
  BY DEF Init
<1>2. /\ text \in Seq(Letter) /\ code \in Seq(Letter) /\ open \in Seq(Frame)
      /\ Len(text) = 0 /\ Len(code) = 0 /\ Len(open) = 0 /\ DOMAIN code = {} /\ DOMAIN text = {}
  BY <1>1
<1>3. TypeInv
  BY <1>1, <1>2 DEF TypeInv, Places, Faults
<1>4. Seen(text, code)
  <2>1. At(text, Len(text)) = "end" /\ At(code, Len(code)) = "end"
    BY <1>2 DEF At
  <2> QED
    BY <1>2, <2>1 DEF Seen
<1>5. EndsWell(code, where)
  <2>1. Before(code, Len(code) + 1) = 0
    <3>1. Len(code) + 1 \in Nat /\ Len(code) + 1 > 0 /\ Len(code) + 1 <= Len(code) + 1 /\ (Len(code) + 1) - 1 = 0
      BY <1>2
    <3>2. Before(code, Len(code) + 1) \in 0 .. (Len(code) + 1) - 1
      BY <1>2, <3>1, BeforeIs
    <3> QED
      BY <3>1, <3>2
  <2>2. Last(code) = "end"
    BY <1>2 DEF Last, At
  <2> QED
    BY <1>1, <2>1, <2>2 DEF EndsWell, Ready, NameChar, Word
<1>6. Nested(open, where, Len(text))
  BY <1>1, <1>2 DEF Nested, After, Inside
<1>7. Meant(text, code, said)
  BY <1>1, <1>2 DEF Meant
<1>8. Ahead(text, code)
  <2> SUFFICES ASSUME NEW b \in Seq(Letter) PROVE Stripped[<<b, 1>>] = Stripped[<<Over(b, code), Len(code) + 1>>]
    BY DEF Ahead
  <2>1. Len(code) <= Len(b) /\ Len(b) \in Nat
    BY <1>2, LenProperties
  <2>2. /\ Over(b, code) \in Seq(Letter) /\ Len(Over(b, code)) = Len(b)
        /\ \A i \in 1 .. Len(b) : Over(b, code)[i] = IF i <= Len(code) THEN code[i] ELSE b[i]
    BY <1>2, <2>1, OverIs
  <2>3. \A i \in 1 .. Len(b) : Over(b, code)[i] = b[i]
    BY <1>2, <2>1, <2>2
  <2>4. Over(b, code) = b
    BY <2>2, <2>3, SameText
  <2> QED
    BY <1>2, <2>4
<1> QED
  BY <1>3, <1>4, <1>5, <1>6, <1>7, <1>8 DEF Core, Shape

(* The text begins with what it exports. *)
LEMMA ExportCore ==
  ASSUME Core, Export
  PROVE  Core'
<1> DEFINE L == <<"export", Blank, "default", Blank>>
<1>1. /\ text = << >> /\ text' = text \o L /\ code' = code \o L /\ dialect' = dialect
      /\ said' = {"export"} /\ open' = open /\ where' = where /\ mistake' = mistake
  BY DEF Export, Write, WriteBoth
<1>2. L \in Seq(Letter) /\ Len(L) = 4 /\ L[1] = "export" /\ L[2] = Blank /\ L[3] = "default" /\ L[4] = Blank
  BY Letters, Four
<1> HIDE DEF L
<1>3. /\ text \in Seq(Letter) /\ code \in Seq(Letter) /\ Len(text) = 0 /\ Len(code) = 0 /\ open \in Seq(Frame)
      /\ where \in Places /\ mistake \in [brackets : Faults, tags : Faults] /\ dialect \in Dialects
      /\ said \in SUBSET {"export", "execSync"}
  BY <1>1, CoreTypes DEF Core, Shape, TypeInv
<1>4. Len(open) = 0
  <2>1. Len(open) \in Nat
    BY <1>3, LenProperties
  <2>2. ASSUME Len(open) > 0 PROVE FALSE
    <3>1. 1 \in 1 .. Len(open)
      BY <2>1, <2>2
    <3>2. open[1].at <= 0
      BY <1>3, <3>1 DEF Core, Shape, Nested
    <3>3. open[1].at \in Nat /\ open[1].at > 0
      BY <1>3, <3>1, FramesAre
    <3> QED
      BY <3>2, <3>3
  <2> QED
    BY <2>1, <2>2
<1>5. where \notin Inside
  BY <1>3, <1>4, InsideTop, EmptySeq
<1>6. Plain(L)
  BY <1>2 DEF Plain, Tick, Quote, Blank
<1>7. Token(L, L) /\ Passes(code, L, L)
  <2>1. Len(L) > 0
    BY <1>2
  <2> QED
    BY <1>2, <1>3, <1>6, <2>1, PlainToken, PlainPasses
<1>8. /\ text' \in Seq(Letter) /\ code' \in Seq(Letter) /\ Len(text') = 4 /\ Len(code') = 4
      /\ \A k \in 1 .. 4 : text'[k] = L[k] /\ code'[k] = L[k]
  <2>1. /\ text \o L \in Seq(Letter) /\ Len(text \o L) = Len(text) + Len(L)
        /\ \A k \in 1 .. Len(L) : (text \o L)[Len(text) + k] = L[k]
    BY <1>2, <1>3, JoinIs
  <2>2. /\ code \o L \in Seq(Letter) /\ Len(code \o L) = Len(code) + Len(L)
        /\ \A k \in 1 .. Len(L) : (code \o L)[Len(code) + k] = L[k]
    BY <1>2, <1>3, JoinIs
  <2>3. \A k \in 1 .. 4 : 0 + k = k
    OBVIOUS
  <2>4. Len(text) = 0 /\ Len(code) = 0 /\ Len(L) = 4 /\ 0 + 4 = 4
    BY <1>2, <1>3
  <2>5. Len(text \o L) = 4 /\ \A k \in 1 .. 4 : (text \o L)[k] = L[k]
    BY <2>1, <2>3, <2>4
  <2>6. Len(code \o L) = 4 /\ \A k \in 1 .. 4 : (code \o L)[k] = L[k]
    BY <2>2, <2>3, <2>4
  <2>7. text' = text \o L /\ code' = code \o L
    BY <1>1
  <2> QED
    BY <2>1, <2>2, <2>5, <2>6, <2>7
<1>9. TypeInv'
  BY <1>1, <1>3, <1>8 DEF TypeInv
<1>10. Seen(text', code')
  BY <1>1, <1>3, <1>7, SeenStep DEF Core, Shape
<1>11. Ready(code \o L)
  <2>1. /\ 3 \in 1 .. Len(L) /\ L[3] \in Keyword /\ (\A k \in 3 + 1 .. Len(L) : L[k] \in Space)
        /\ L[3 - 1] \notin NameChar /\ 3 # 1
    BY <1>2 DEF Keyword, Space, NameChar, Word, Blank
  <2> QED
    BY <1>2, <1>3, <2>1, ReadyAfterKeyword
<1>12. EndsWell(code', where')
  <2>1. L[Len(L)] \notin {"/", "<"} /\ L[Len(L)] \notin NameChar /\ where # "children" /\ Len(L) > 0
    BY <1>2, <1>5 DEF Blank, NameChar, Word, Inside
  <2>2. where = "operand" => Ready(code \o L) /\ L[Len(L)] \notin NameChar
    BY <1>11, <2>1
  <2>3. where = "children" => EndsIn(L, {">", "x", ".", "other", "rbrace"})
    BY <2>1
  <2>4. EndsWell(code \o L, where)
    <3> DEFINE w == where
    <3> HIDE DEF w
    <3>1. w = "operand" => Ready(code \o L) /\ L[Len(L)] \notin NameChar
      BY <2>2 DEF w
    <3>2. w = "children" => EndsIn(L, {">", "x", ".", "other", "rbrace"})
      BY <2>3 DEF w
    <3>3. L \in Seq(Letter) /\ code \in Seq(Letter) /\ Len(L) > 0 /\ L[Len(L)] \notin {"/", "<"}
      BY <1>2, <1>3, <2>1
    <3>4. EndsWell(code \o L, w)
      BY <3>1, <3>2, <3>3, EndsWellAfter
    <3> QED
      BY <3>4 DEF w
  <2> QED
    BY <1>1, <2>4
<1>13. Nested(open', where', Len(text'))
  <2>1. where' \in Places /\ (where' \in Inside <=> where \in Inside)
    BY <1>1, <1>3
  <2>2. Nested(open', where', Len(text) + Len(L))
    BY <1>1, <1>2, <2>1, SameIsNested
  <2> QED
    BY <1>2, <1>3, <1>8, <2>2
<1>14. Meant(text', code', said')
  <2>1. \A k \in 1 .. 4 : L[k] = "export" <=> k = 1
    <3>1. \A k \in 1 .. 4 : k \in {1, 2, 3, 4}
      OBVIOUS
    <3> QED
      BY <1>2, <3>1 DEF Blank
  <2>2. \A k \in 1 .. 4 : L[k] # "execSync"
    BY <1>2 DEF Blank
  <2> QED
    BY <1>1, <1>2, <1>8, <2>1, <2>2 DEF Meant
<1>15. Ahead(text', code')
  BY <1>1, <1>2, <1>3, <1>7, AheadStep DEF Core
<1> QED
  BY <1>9, <1>10, <1>12, <1>13, <1>14, <1>15 DEF Core, Shape

(* Texts can be joined in either order. *)
LEMMA Regroup ==
  ASSUME NEW r \in Seq(Letter), NEW p \in Seq(Letter), NEW q \in Seq(Letter)
  PROVE  (r \o p) \o q = r \o (p \o q)
BY ConcatAssociative

(* An attribute keeps the invariant. *)
LEMMA AttributeCore ==
  ASSUME Core, Attribute
  PROVE  Core'
<1>1. where = "tag" /\ mistake' = mistake /\ said' = said
  BY DEF Attribute, Becomes
<1>2. ASSUME Write(<<Blank, "x", "=", "lbrace">>), OpenOne("lbrace", 4, "tag"), Becomes("operand") PROVE Core'
  <2> DEFINE L == <<Blank, "x", "=", "lbrace">>
  <2>1. L \in Seq(Letter) /\ Len(L) = 4 /\ L[1] = Blank /\ L[2] = "x" /\ L[3] = "=" /\ L[4] = "lbrace"
    BY Letters, Four
  <2>2. text' = text \o L /\ code' = code \o L /\ dialect' = dialect /\ where' = "operand"
    BY <1>2 DEF Write, WriteBoth, Becomes
  <2> HIDE DEF L
  <2>3. Plain(L) /\ \A k \in 1 .. Len(L) : L[k] \notin {"export", "execSync"}
    BY <2>1 DEF Plain, Tick, Quote, Blank
  <2>4. /\ 4 \in 1 .. Len(L) /\ where' \in Places /\ (where' \in Inside <=> "lbrace" \in Element)
        /\ "lbrace" \in Opener \cup Element /\ "tag" \in Places \ {"operand"} /\ ("tag" \in Inside <=> where \in Inside)
    BY <1>1, <2>1, <2>2 DEF Places, Inside, Element, Opener
  <2>5. open' \in Seq(Frame) /\ Nested(open', where', Len(text) + Len(L))
    BY <1>2, <2>1, <2>4, PushIsNested
  <2>6. Len(L) > 0 /\ L[Len(L)] \in Operator \ {"/", "<"}
    BY <2>1 DEF Operator, Opener
  <2> QED
    BY <1>1, <2>1, <2>2, <2>3, <2>5, <2>6, OperatorCore
<1>3. ASSUME WriteBoth(<<Blank, "x", "=", Quote, ">", Quote>>, <<Blank, "x", "=", Blank, Blank, Blank>>),
             Becomes("tag"), open' = open
      PROVE  Core'
  <2> DEFINE P == <<Blank, "x", "=">>
             Q == <<Quote, ">", Quote>>
             U == <<Blank, Blank, Blank>>
             L == <<Blank, "x", "=", Quote, ">", Quote>>
             S == <<Blank, "x", "=", Blank, Blank, Blank>>
  <2>1. P \in Seq(Letter) /\ Len(P) = 3 /\ P[1] = Blank /\ P[2] = "x" /\ P[3] = "="
    BY Letters, Three
  <2>2. Q \in Seq(Letter) /\ Len(Q) = 3 /\ Q[1] = Quote /\ Q[2] = ">" /\ Q[3] = Quote
    BY Letters, Three
  <2>3. U \in Seq(Letter) /\ Len(U) = 3 /\ U[1] = Blank /\ U[2] = Blank /\ U[3] = Blank
    BY Letters, Three
  <2>4. /\ Len(L) = 6 /\ L[1] = Blank /\ L[2] = "x" /\ L[3] = "="
        /\ L[4] = Quote /\ L[5] = ">" /\ L[6] = Quote
    OBVIOUS
  <2>5. /\ Len(S) = 6 /\ S[1] = Blank /\ S[2] = "x" /\ S[3] = "="
        /\ S[4] = Blank /\ S[5] = Blank /\ S[6] = Blank
    OBVIOUS
  <2>6. L \in Seq(Letter)
    BY Letters
  <2>7. S \in Seq(Letter)
    BY Letters
  <2>8. text' = text \o L /\ code' = code \o S /\ dialect' = dialect /\ where' = "tag"
    BY <1>3 DEF WriteBoth, Becomes
  <2> HIDE DEF P, Q, U, L, S
  <2>9. P \o Q = L
    <3>1. /\ P \o Q \in Seq(Letter) /\ Len(P \o Q) = Len(P) + Len(Q)
          /\ \A k \in 1 .. Len(P) : (P \o Q)[k] = P[k]
          /\ \A k \in 1 .. Len(Q) : (P \o Q)[Len(P) + k] = Q[k]
      BY <2>1, <2>2, JoinIs
    <3>2. Len(P \o Q) = 6 /\ (P \o Q)[1] = Blank /\ (P \o Q)[2] = "x" /\ (P \o Q)[3] = "="
      BY <2>1, <2>2, <3>1
    <3>3. (P \o Q)[3 + 1] = Quote /\ (P \o Q)[3 + 2] = ">" /\ (P \o Q)[3 + 3] = Quote
      BY <2>1, <2>2, <3>1
    <3>4. \A i \in 1 .. 6 : (P \o Q)[i] = L[i]
      <4>1. \A i \in 1 .. 6 : i \in {1, 2, 3, 4, 5, 6}
        OBVIOUS
      <4>2. 3 + 1 = 4 /\ 3 + 2 = 5 /\ 3 + 3 = 6
        OBVIOUS
      <4>3. (P \o Q)[4] = Quote /\ (P \o Q)[5] = ">" /\ (P \o Q)[6] = Quote
        BY <3>3, <4>2
      <4> QED
        BY <2>4, <3>2, <4>1, <4>3
    <3> QED
      BY <2>4, <2>6, <3>1, <3>2, <3>4, SameText
  <2>10. P \o U = S
    <3>1. /\ P \o U \in Seq(Letter) /\ Len(P \o U) = Len(P) + Len(U)
          /\ \A k \in 1 .. Len(P) : (P \o U)[k] = P[k]
          /\ \A k \in 1 .. Len(U) : (P \o U)[Len(P) + k] = U[k]
      BY <2>1, <2>3, JoinIs
    <3>2. Len(P \o U) = 6 /\ (P \o U)[1] = Blank /\ (P \o U)[2] = "x" /\ (P \o U)[3] = "="
      BY <2>1, <2>3, <3>1
    <3>3. (P \o U)[3 + 1] = Blank /\ (P \o U)[3 + 2] = Blank /\ (P \o U)[3 + 3] = Blank
      BY <2>1, <2>3, <3>1
    <3>4. \A i \in 1 .. 6 : (P \o U)[i] = S[i]
      <4>1. \A i \in 1 .. 6 : i \in {1, 2, 3, 4, 5, 6}
        OBVIOUS
      <4>2. 3 + 1 = 4 /\ 3 + 2 = 5 /\ 3 + 3 = 6
        OBVIOUS
      <4>3. (P \o U)[4] = Blank /\ (P \o U)[5] = Blank /\ (P \o U)[6] = Blank
        BY <3>3, <4>2
      <4> QED
        BY <2>5, <3>2, <4>1, <4>3
    <3> QED
      BY <2>5, <2>7, <3>1, <3>2, <3>4, SameText
  <2>11. Unseen(Q) = U
    <3>1. /\ Unseen(Q) \in Seq(Letter) /\ Len(Unseen(Q)) = Len(Q)
          /\ \A k \in 1 .. Len(Q) : Unseen(Q)[k] = IF Q[k] = Newline THEN Newline ELSE Blank
      BY <2>2, UnseenIs
    <3>2. \A k \in 1 .. 3 : k \in {1, 2, 3}
      OBVIOUS
    <3>3. \A k \in 1 .. 3 : Unseen(Q)[k] = U[k]
      BY <2>2, <2>3, <3>1, <3>2 DEF Quote, Newline
    <3> QED
      BY <2>2, <2>3, <3>1, <3>3, SameText
  <2>12. Plain(P)
    BY <2>1 DEF Plain, Tick, Quote, Blank
  <2>13. code \o P \in Seq(Letter) /\ text \o P \in Seq(Letter) /\ Len(code \o P) = Len(text \o P)
    <3>1. code \in Seq(Letter) /\ text \in Seq(Letter) /\ Len(code) = Len(text)
      BY CoreTypes
    <3>2. code \o P \in Seq(Letter) /\ Len(code \o P) = Len(code) + Len(P)
      BY <2>1, <3>1, JoinIs
    <3>3. text \o P \in Seq(Letter) /\ Len(text \o P) = Len(text) + Len(P)
      BY <2>1, <3>1, JoinIs
    <3> QED
      BY <3>1, <3>2, <3>3
  <2>14. Ahead(text \o P, code \o P)
    <3>1. Passes(code, P, P)
      BY <2>1, <2>12, CoreTypes, PlainPasses
    <3> QED
      BY <2>1, <3>1, CoreTypes, AheadStep DEF Core
  <2>15. Ahead((text \o P) \o Q, (code \o P) \o U)
    <3>1. Delimited(Q, Quote)
      BY <2>2 DEF Delimited, Quote, Newline, Escape
    <3>2. Ready(code \o P)
      <4>1. P[Len(P)] \in Operator /\ Len(P) > 0
        BY <2>1 DEF Operator
      <4> QED
        BY <2>1, <4>1, CoreTypes, ReadyAfterOperator
    <3>3. Passes(code \o P, Q, U)
      BY <2>2, <2>11, <2>13, <3>1, <3>2, HiddenPasses
    <3>4. Len(Q) = Len(U)
      BY <2>2, <2>3
    <3> QED
      BY <2>2, <2>3, <2>13, <2>14, <3>3, <3>4, AheadStep
  <2>16. (text \o P) \o Q = text \o L /\ (code \o P) \o U = code \o S
    <3>1. text \in Seq(Letter) /\ code \in Seq(Letter)
      BY CoreTypes
    <3>2. (text \o P) \o Q = text \o (P \o Q) /\ (code \o P) \o U = code \o (P \o U)
      <4>1. ASSUME NEW r \in Seq(Letter), NEW p \in Seq(Letter), NEW q \in Seq(Letter)
            PROVE  (r \o p) \o q = r \o (p \o q)
        BY Regroup
      <4>2. (text \o P) \o Q = text \o (P \o Q)
        BY <2>1, <2>2, <3>1, <4>1
      <4>3. (code \o P) \o U = code \o (P \o U)
        BY <2>1, <2>3, <3>1, <4>1
      <4> QED
        BY <4>2, <4>3
    <3> QED
      BY <2>9, <2>10, <3>2
  <2>17. Ahead(text \o L, code \o S)
    BY <2>15, <2>16
  <2>18. \A k \in 1 .. 6 : k \in {1, 2, 3, 4, 5, 6}
    OBVIOUS
  <2>19. Token(L, S)
    <3>1. \A k \in {1, 2, 3, 4, 5, 6} : S[k] \in {L[k], Blank} /\ (S[k] = Newline <=> L[k] = Newline)
      BY <2>4, <2>5 DEF Blank, Newline, Quote
    <3>2. \A k \in 1 .. Len(L) : S[k] \in {L[k], Blank} /\ (S[k] = Newline <=> L[k] = Newline)
      BY <2>4, <2>18, <3>1
    <3>3. L[Len(L)] \in {Quote, Tick, "/"}
      BY <2>4
    <3> QED
      BY <2>4, <2>5, <2>6, <2>7, <3>2, <3>3 DEF Token
  <2>20. \A k \in 1 .. Len(L) : S[k] # "export" /\ L[k] # "execSync"
    <3>1. \A k \in {1, 2, 3, 4, 5, 6} : S[k] # "export" /\ L[k] # "execSync"
      BY <2>4, <2>5 DEF Blank, Quote
    <3> QED
      BY <2>4, <2>18, <3>1
  <2>21. EndsWell(code \o S, where')
    <3>1. S[Len(S)] \notin {"/", "<"} /\ Len(S) > 0
      BY <2>5 DEF Blank
    <3>2. where' # "operand" /\ where' # "children"
      BY <2>8
    <3> QED
      BY <2>7, <3>1, <3>2, CoreTypes, EndsWellAfter
  <2>22. where' \in Places /\ (where' \in Inside <=> where \in Inside)
    BY <1>1, <2>8 DEF Places, Inside
  <2>23. open' \in Seq(Frame) /\ Nested(open', where', Len(text) + Len(L))
    BY <1>3, <2>6, <2>22, SameIsNested
  <2>24. /\ mistake' \in [brackets : Faults, tags : Faults] /\ said' = said \cup {}
         /\ {} \in SUBSET {"execSync"} /\ ("execSync" \in {} <=> \E k \in 1 .. Len(L) : L[k] = "execSync")
         /\ \A k \in 1 .. Len(L) : S[k] # "export"
    BY <1>1, <2>20, CoreTypes
  <2> QED
    BY <2>8, <2>17, <2>19, <2>21, <2>22, <2>23, <2>24, CoreWrites
<1> QED
  BY <1>2, <1>3 DEF Attribute

(* The invariant is inductive. *)
LEMMA CoreInvariant == Core /\ [Next]_vars => Core'
<1> SUFFICES ASSUME Core, [Next]_vars PROVE Core'
  OBVIOUS
<1>1. CASE UNCHANGED vars
  BY <1>1 DEF vars, Core, Shape, TypeInv
<1> QED
  BY <1>1, ExportCore, NameCore, ReturnCore, StringCore, TemplateCore, CommentCore, OperateCore, GenericCore,
     ParenthesisCore, BlockCore, CloseBracketCore, StartTagCore, AttributeCore, EndTagCore, TextCore,
     ContainerCore, CloseTagCore, WrongBracketCore, WrongTagCore DEF Next

(* So it always holds. *)
LEMMA CoreAlways == Spec => []Core
<1>1. Init => Core
  BY InitCore
<1> QED
  BY <1>1, CoreInvariant, PTL DEF Spec

(* It says that the scanner gives the code. *)
LEMMA TextIsCode ==
  ASSUME Core
  PROVE  StripsExactly
<1>1. Extends(text, text)
  BY CoreTypes DEF Extends
<1>2. Stripped[<<text, 1>>] = Stripped[<<Over(text, code), Len(code) + 1>>]
  BY <1>1, CoreTypes DEF Core, Ahead
<1>3. Over(text, code) = code
  <2>1. Len(code) <= Len(text) /\ Len(text) = Len(code)
    BY CoreTypes
  <2>2. /\ Over(text, code) \in Seq(Letter) /\ Len(Over(text, code)) = Len(text)
        /\ \A i \in 1 .. Len(text) : Over(text, code)[i] = IF i <= Len(code) THEN code[i] ELSE text[i]
    BY <2>1, CoreTypes, OverIs
  <2>3. \A i \in 1 .. Len(text) : Over(text, code)[i] = code[i]
    BY <2>1, <2>2, CoreTypes
  <2> QED
    BY <2>1, <2>2, <2>3, CoreTypes, SameText
<1>4. Stripped[<<code, Len(code) + 1>>] = code
  <2>1. Len(code) + 1 > Len(code) /\ Len(code) + 1 \in Nat
    BY CoreTypes
  <2> QED
    BY <2>1, CoreTypes, StrippedIs
<1> QED
  BY <1>2, <1>3, <1>4 DEF StripsExactly, StripStringsAndComments

(* stripStringsAndComments, for code of any length in the forms of GeneratedCode:  *)
(* no string, template or comment is taken for code, and no code for one of these. *)
THEOREM GateStripsExactly == Spec => []StripsExactly
BY CoreAlways, TextIsCode, PTL

-----------------------------------------------------------------------------
(* The scanner's stack. *)
Item == [what : Letter, line : Nat]
Standing == [stack : Seq(Item), first : Faults]
Begin == [stack |-> << >>, first |-> Fine]
Kinds(n, opens) == \A i \in 1 .. n : opens[i] \in Letter \cup {"none"}
(* Where the scanner stands after each number of letters. *)
Judging(s, opens, closes) ==
  LET judged[n \in 0 .. Len(s)] ==
        IF n = 0 THEN [stack |-> << >>, first |-> Fine]
        ELSE Judge(judged[n - 1], opens[n], closes[n], Line(s, n))
  IN judged

(* Where a scanner stands: its stack and its first error. *)
LEMMA StandingIs ==
  ASSUME NEW state \in Standing
  PROVE  /\ state.stack \in Seq(Item) /\ state.first \in Faults
         /\ state = [stack |-> state.stack, first |-> state.first]
BY DEF Standing

(* What is on the stack. *)
LEMMA ItemIs ==
  ASSUME NEW what \in Letter, NEW line \in Nat
  PROVE  [what |-> what, line |-> line] \in Item
BY DEF Item

(* What a scanner does with one letter, by cases. *)
LEMMA JudgeIs ==
  ASSUME NEW state, NEW opens, NEW closes, NEW line
  PROVE  LET stack == state.stack
             next == Judge(state, opens, closes, line) IN
         /\ state.first # Fine => next = state
         /\ opens = "none" /\ closes = "none" => next = state
         /\ state.first = Fine /\ opens # "none" =>
              next = [state EXCEPT !.stack = Append(stack, [what |-> opens, line |-> line])]
         /\ state.first = Fine /\ opens = "none" /\ closes # "none" /\ stack = << >> =>
              next = [state EXCEPT !.first = [error |-> "unexpected", line |-> line]]
         /\ state.first = Fine /\ opens = "none" /\ closes # "none" /\ stack # << >>
              /\ stack[Len(stack)].what # closes =>
                next = [state EXCEPT !.first = [error |-> "mismatched", line |-> line]]
         /\ state.first = Fine /\ opens = "none" /\ closes # "none" /\ stack # << >>
              /\ stack[Len(stack)].what = closes =>
                next = [state EXCEPT !.stack = SubSeq(stack, 1, Len(stack) - 1)]
BY Zenon DEF Judge, Matches

(* The stack without its top. *)
LEMMA ShorterIs ==
  ASSUME NEW stack \in Seq(Item), stack # << >>
  PROVE  LET rest == SubSeq(stack, 1, Len(stack) - 1) IN
         /\ Len(stack) \in Nat /\ Len(stack) > 0
         /\ rest \in Seq(Item) /\ Len(rest) = Len(stack) - 1
         /\ \A j \in 1 .. Len(stack) - 1 : rest[j] = stack[j]
<1> DEFINE z == Len(stack) - 1
           p == SubSeq(stack, 1, z)
<1>1. Len(stack) \in Nat /\ Len(stack) > 0
  BY EmptySeq, LenProperties
<1>2. z \in Nat /\ 1 \in 1 .. Len(stack) + 1 /\ z \in 0 .. Len(stack)
  BY <1>1
<1>3. p \in Seq(Item)
  BY <1>2, SubSeqProperties
<1>4. Len(p) = z
  <2>1. Len(p) = IF 1 <= z THEN z - 1 + 1 ELSE 0
    BY <1>2, SubSeqProperties
  <2>2. \A x \in Nat : (IF 1 <= x THEN x - 1 + 1 ELSE 0) = x
    OBVIOUS
  <2> HIDE DEF z
  <2> QED
    BY <1>2, <2>1, <2>2
<1>5. ASSUME NEW j \in 1 .. z PROVE p[j] = stack[j]
  <2>1. \A d \in 1 .. z - 1 + 1 : p[d] = stack[1 + d - 1]
    BY <1>2, SubSeqProperties
  <2>2. j \in 1 .. z - 1 + 1 /\ 1 + j - 1 = j
    BY <1>2
  <2>3. p[j] = stack[1 + j - 1]
    BY <2>1, <2>2
  <2> QED
    BY <2>2, <2>3
<1> QED
  BY <1>1, <1>3, <1>4, <1>5

(* A letter leaves the scanner standing somewhere. *)
LEMMA JudgeStands ==
  ASSUME NEW state \in Standing, NEW opens \in Letter \cup {"none"}, NEW closes, NEW line \in Nat
  PROVE  Judge(state, opens, closes, line) \in Standing
<1> DEFINE stack == state.stack
           next == Judge(state, opens, closes, line)
<1>0. /\ state.first # Fine => next = state
      /\ opens = "none" /\ closes = "none" => next = state
      /\ state.first = Fine /\ opens # "none" =>
           next = [state EXCEPT !.stack = Append(stack, [what |-> opens, line |-> line])]
      /\ state.first = Fine /\ opens = "none" /\ closes # "none" /\ stack = << >> =>
           next = [state EXCEPT !.first = [error |-> "unexpected", line |-> line]]
      /\ state.first = Fine /\ opens = "none" /\ closes # "none" /\ stack # << >>
           /\ stack[Len(stack)].what # closes =>
             next = [state EXCEPT !.first = [error |-> "mismatched", line |-> line]]
      /\ state.first = Fine /\ opens = "none" /\ closes # "none" /\ stack # << >>
           /\ stack[Len(stack)].what = closes =>
             next = [state EXCEPT !.stack = SubSeq(stack, 1, Len(stack) - 1)]
  BY JudgeIs
<1>1. stack \in Seq(Item) /\ state.first \in Faults
  BY StandingIs
<1> HIDE DEF next
<1> SUFFICES next \in Standing
  BY DEF next
<1>2. CASE state.first # Fine \/ (opens = "none" /\ closes = "none")
  BY <1>2, <1>0
<1>3. CASE state.first = Fine /\ opens # "none"
  <2> DEFINE item == [what |-> opens, line |-> line]
  <2>1. item \in Item
    BY <1>3, ItemIs
  <2> HIDE DEF item
  <2>2. Append(stack, item) \in Seq(Item)
    BY <1>1, <2>1, AppendProperties
  <2>3. [state EXCEPT !.stack = Append(stack, item)] \in Standing
    BY <2>2 DEF Standing
  <2>4. next = [state EXCEPT !.stack = Append(stack, item)]
    BY <1>0, <1>3 DEF item
  <2> QED
    BY <2>3, <2>4
<1>4. CASE state.first = Fine /\ opens = "none" /\ closes # "none"
  <2>1. CASE stack = << >> \/ stack[Len(stack)].what # closes
    <3>1. \A kind \in {"unexpected", "mismatched"} : [error |-> kind, line |-> line] \in Faults
      BY DEF Faults
    <3>2. \A kind \in {"unexpected", "mismatched"} :
            [state EXCEPT !.first = [error |-> kind, line |-> line]] \in Standing
      BY <3>1 DEF Standing
    <3>3. \/ next = [state EXCEPT !.first = [error |-> "unexpected", line |-> line]]
          \/ next = [state EXCEPT !.first = [error |-> "mismatched", line |-> line]]
      BY <1>4, <2>1, <1>0
    <3> QED
      BY <3>2, <3>3
  <2>2. CASE stack # << >> /\ stack[Len(stack)].what = closes
    <3>1. SubSeq(stack, 1, Len(stack) - 1) \in Seq(Item)
      BY <1>1, <2>2, ShorterIs
    <3>2. [state EXCEPT !.stack = SubSeq(stack, 1, Len(stack) - 1)] \in Standing
      BY <3>1 DEF Standing
    <3>3. next = [state EXCEPT !.stack = SubSeq(stack, 1, Len(stack) - 1)]
      BY <1>4, <2>2, <1>0
    <3> QED
      BY <3>2, <3>3
  <2> QED
    BY <2>1, <2>2
<1> QED
  BY <1>2, <1>3, <1>4

(* The scanner begins with nothing open and no error. *)
LEMMA BeginIs == Begin \in Standing /\ Begin.stack = << >> /\ Begin.first = Fine
<1>1. << >> \in Seq(Item)
  OBVIOUS
<1> QED
  BY <1>1 DEF Begin, Standing, Faults

(* The recursion over letters is well founded: each is judged after the one before. *)
LEMMA JudgingIs ==
  ASSUME NEW s \in Seq(Letter), NEW opens, NEW closes, Kinds(Len(s), opens)
  PROVE  LET g == Judging(s, opens, closes) IN
         /\ g[0] = Begin
         /\ \A n \in 1 .. Len(s) : g[n] = Judge(g[n - 1], opens[n], closes[n], Line(s, n))
         /\ \A n \in 0 .. Len(s) : g[n] \in Standing
         /\ Judged(s, opens, closes) = g[Len(s)]
<1> DEFINE hi == Len(s)
           step == [x \in (0 + 1 .. hi) \X Standing |-> Judge(x[2], opens[x[1]], closes[x[1]], Line(s, x[1]))]
<1>1. hi \in Nat
  BY LenProperties
<1>2. \A k \in 0 + 1 .. hi, v \in Standing :
        step[<<k, v>>] \in Standing /\ step[<<k, v>>] = Judge(v, opens[k], closes[k], Line(s, k))
  <2>1. ASSUME NEW k \in 0 + 1 .. hi, NEW v \in Standing
        PROVE  step[<<k, v>>] \in Standing /\ step[<<k, v>>] = Judge(v, opens[k], closes[k], Line(s, k))
    <3>1. k \in 1 .. Len(s) /\ k \in Nat
      BY <1>1
    <3>2. opens[k] \in Letter \cup {"none"} /\ Line(s, k) \in Nat
      BY <3>1, LineIs DEF Kinds
    <3>3. Judge(v, opens[k], closes[k], Line(s, k)) \in Standing
      BY <3>2, JudgeStands
    <3>4. step[<<k, v>>] = Judge(v, opens[k], closes[k], Line(s, k))
      OBVIOUS
    <3> QED
      BY <3>3, <3>4
  <2> QED
    BY <2>1
<1>3. PICK f \in [0 .. hi -> Standing] : Recurs(f, 0, hi, Begin, step)
  <2>1. \A k \in 0 + 1 .. hi, v \in Standing : step[<<k, v>>] \in Standing
    BY <1>2
  <2>2. 0 \in Int /\ hi \in Int /\ 0 <= hi /\ Begin \in Standing
    BY <1>1, BeginIs
  <2> HIDE DEF step, hi
  <2> QED
    BY <2>1, <2>2, ForwardRecursion
<1>4. f[0] = Begin /\ \A k \in 1 .. hi : f[k] = Judge(f[k - 1], opens[k], closes[k], Line(s, k))
  <2>1. f[0] = Begin /\ \A k \in 0 + 1 .. hi : f[k] = step[<<k, f[k - 1]>>]
    BY <1>3 DEF Recurs
  <2>2. ASSUME NEW k \in 1 .. hi PROVE f[k] = Judge(f[k - 1], opens[k], closes[k], Line(s, k))
    <3>1. k - 1 \in 0 .. hi /\ k \in 0 + 1 .. hi
      BY <1>1
    <3>2. f[k - 1] \in Standing
      BY <1>3, <3>1
    <3> HIDE DEF step
    <3> QED
      BY <1>2, <2>1, <3>1, <3>2
  <2> QED
    BY <2>1, <2>2
<1> DEFINE Is(g) == g = [n \in 0 .. hi |-> IF n = 0 THEN [stack |-> << >>, first |-> Fine]
                                          ELSE Judge(g[n - 1], opens[n], closes[n], Line(s, n))]
           g == CHOOSE g : Is(g)
<1>5. Is(f)
  <2>1. ASSUME NEW n \in 0 .. hi
        PROVE  f[n] = IF n = 0 THEN [stack |-> << >>, first |-> Fine]
                      ELSE Judge(f[n - 1], opens[n], closes[n], Line(s, n))
    <3>1. n # 0 => n \in 1 .. hi
      BY <1>1
    <3> QED
      BY <1>4, <3>1, Zenon DEF Begin
  <2>2. f = [n \in 0 .. hi |-> f[n]]
    BY <1>3
  <2> QED
    BY <2>1, <2>2, Zenon
<1>6. Is(g)
  BY <1>5, Zenon
<1>7. Judging(s, opens, closes) = g
  BY Zenon DEF Judging
<1>8. Judged(s, opens, closes) = g[hi]
  BY Zenon DEF Judged
<1>9. \A n \in 0 .. hi : g[n] = IF n = 0 THEN Begin ELSE Judge(g[n - 1], opens[n], closes[n], Line(s, n))
  <2>1. g = [n \in 0 .. hi |-> IF n = 0 THEN Begin ELSE Judge(g[n - 1], opens[n], closes[n], Line(s, n))]
    BY <1>6, Zenon DEF Begin
  <2> HIDE DEF g
  <2> QED
    BY <2>1, Zenon
<1> HIDE DEF g, Is
<1>10. g[0] = Begin /\ \A n \in 1 .. hi : g[n] = Judge(g[n - 1], opens[n], closes[n], Line(s, n))
  <2>1. 0 \in 0 .. hi /\ \A n \in 1 .. hi : n \in 0 .. hi /\ n # 0
    BY <1>1
  <2> QED
    BY <1>9, <2>1
<1>11. \A n \in 0 .. hi : g[n] \in Standing
  <2> DEFINE Bad == {n \in Nat : n <= hi /\ g[n] \notin Standing}
  <2>1. ASSUME Bad # {} PROVE FALSE
    <3>1. Bad \in SUBSET Nat
      OBVIOUS
    <3>2. PICK n \in Bad : \A e \in Bad : n <= e
      BY <2>1, <3>1, MinIs
    <3>3. n \in Nat /\ n <= hi /\ g[n] \notin Standing
      BY <3>2
    <3>4. n # 0
      BY <1>10, <3>3, BeginIs
    <3>5. n - 1 \in Nat /\ n - 1 <= hi /\ ~(n <= n - 1) /\ n \in 1 .. hi
      BY <1>1, <3>3, <3>4
    <3>6. n - 1 \notin Bad
      BY <3>2, <3>5
    <3>7. g[n - 1] \in Standing
      BY <3>5, <3>6
    <3>8. opens[n] \in Letter \cup {"none"} /\ Line(s, n) \in Nat
      BY <3>3, <3>5, LineIs DEF Kinds
    <3>9. Judge(g[n - 1], opens[n], closes[n], Line(s, n)) \in Standing
      BY <3>7, <3>8, JudgeStands
    <3> QED
      BY <1>10, <3>3, <3>5, <3>9
  <2>2. \A n \in 0 .. hi : n \in Nat /\ n <= hi
    BY <1>1
  <2> QED
    BY <2>1, <2>2
<1> QED
  BY <1>7, <1>8, <1>10, <1>11

(* Lines are counted by line breaks alone. *)
LEMMA LineAgrees ==
  ASSUME NEW s, NEW t, NEW n \in Nat, \A k \in 1 .. n : s[k] = Newline <=> t[k] = Newline
  PROVE  Line(s, n) = Line(t, n)
<1>1. {k \in 1 .. n : s[k] = Newline} = {k \in 1 .. n : t[k] = Newline}
  OBVIOUS
<1> QED
  BY <1>1 DEF Line

(* The scanner stands where it stood after s, if t goes on from s. *)
Resumes(s, os, cs, t, ot, ct) ==
  /\ s \in Seq(Letter) /\ t \in Seq(Letter) /\ Len(s) <= Len(t)
  /\ \A i \in 1 .. Len(s) : (s[i] = Newline <=> t[i] = Newline) /\ os[i] = ot[i] /\ cs[i] = ct[i]
  /\ Kinds(Len(t), ot)

(* What comes later does not change where the scanner stood before. *)
LEMMA JudgedBefore ==
  ASSUME NEW s, NEW os, NEW cs, NEW t, NEW ot, NEW ct, Resumes(s, os, cs, t, ot, ct)
  PROVE  /\ Judging(t, ot, ct)[Len(s)] = Judged(s, os, cs)
         /\ Judged(s, os, cs) \in Standing /\ Judged(t, ot, ct) \in Standing
<1> DEFINE g == Judging(s, os, cs)
           h == Judging(t, ot, ct)
<1>1. /\ s \in Seq(Letter) /\ t \in Seq(Letter) /\ Len(s) <= Len(t) /\ Len(s) \in Nat /\ Len(t) \in Nat
      /\ \A i \in 1 .. Len(s) : (s[i] = Newline <=> t[i] = Newline) /\ os[i] = ot[i] /\ cs[i] = ct[i]
      /\ Kinds(Len(t), ot)
  BY LenProperties DEF Resumes
<1>2. Kinds(Len(s), os)
  BY <1>1 DEF Kinds
<1>3. /\ g[0] = Begin /\ Judged(s, os, cs) = g[Len(s)]
      /\ \A n \in 1 .. Len(s) : g[n] = Judge(g[n - 1], os[n], cs[n], Line(s, n))
      /\ g[Len(s)] \in Standing
  <2>1. /\ g[0] = Begin /\ Judged(s, os, cs) = g[Len(s)]
        /\ \A n \in 1 .. Len(s) : g[n] = Judge(g[n - 1], os[n], cs[n], Line(s, n))
        /\ \A n \in 0 .. Len(s) : g[n] \in Standing
    BY <1>1, <1>2, JudgingIs
  <2>2. Len(s) \in 0 .. Len(s)
    BY <1>1
  <2> QED
    BY <2>1, <2>2
<1>4. /\ h[0] = Begin /\ Judged(t, ot, ct) = h[Len(t)]
      /\ \A n \in 1 .. Len(t) : h[n] = Judge(h[n - 1], ot[n], ct[n], Line(t, n))
      /\ h[Len(t)] \in Standing
  <2>1. /\ h[0] = Begin /\ Judged(t, ot, ct) = h[Len(t)]
        /\ \A n \in 1 .. Len(t) : h[n] = Judge(h[n - 1], ot[n], ct[n], Line(t, n))
        /\ \A n \in 0 .. Len(t) : h[n] \in Standing
    BY <1>1, JudgingIs
  <2>2. Len(t) \in 0 .. Len(t)
    BY <1>1
  <2> QED
    BY <2>1, <2>2
<1> HIDE DEF g, h
<1> DEFINE Bad == {n \in Nat : n <= Len(s) /\ g[n] # h[n]}
<1>5. ASSUME Bad # {} PROVE FALSE
  <2>1. Bad \in SUBSET Nat
    OBVIOUS
  <2>2. PICK n \in Bad : \A e \in Bad : n <= e
    BY <1>5, <2>1, MinIs
  <2>3. n \in Nat /\ n <= Len(s) /\ g[n] # h[n]
    BY <2>2
  <2>4. n # 0
    BY <1>3, <1>4, <2>3
  <2>5. n - 1 \in Nat /\ n - 1 <= Len(s) /\ ~(n <= n - 1) /\ n \in 1 .. Len(s) /\ n \in 1 .. Len(t)
    BY <1>1, <2>3, <2>4
  <2>6. n - 1 \notin Bad
    BY <2>2, <2>5
  <2>7. g[n - 1] = h[n - 1]
    BY <2>5, <2>6
  <2>8. Line(s, n) = Line(t, n)
    <3>1. \A k \in 1 .. n : k \in 1 .. Len(s)
      BY <1>1, <2>5
    <3>2. \A k \in 1 .. n : s[k] = Newline <=> t[k] = Newline
      BY <1>1, <3>1
    <3> QED
      BY <2>3, <3>2, LineAgrees
  <2>9. g[n] = Judge(g[n - 1], os[n], cs[n], Line(s, n)) /\ h[n] = Judge(h[n - 1], ot[n], ct[n], Line(t, n))
    BY <1>3, <1>4, <2>5
  <2>10. os[n] = ot[n] /\ cs[n] = ct[n]
    BY <1>1, <2>5
  <2> QED
    BY <2>3, <2>7, <2>8, <2>9, <2>10
<1>6. g[Len(s)] = h[Len(s)]
  <2>1. Len(s) \notin Bad
    BY <1>5
  <2> QED
    BY <1>1, <2>1
<1> QED
  BY <1>3, <1>4, <1>6 DEF h

(* A letter that opens and closes nothing changes nothing. *)
LEMMA JudgeNone ==
  ASSUME NEW state, NEW line
  PROVE  Judge(state, "none", "none", line) = state
BY Zenon DEF Judge

(* Nor do any number of them. *)
LEMMA JudgedStill ==
  ASSUME NEW t \in Seq(Letter), NEW ot, NEW ct, Kinds(Len(t), ot),
         NEW lo \in Nat, NEW hi \in Nat, lo <= hi, hi <= Len(t),
         \A i \in lo + 1 .. hi : ot[i] = "none" /\ ct[i] = "none"
  PROVE  Judging(t, ot, ct)[hi] = Judging(t, ot, ct)[lo]
<1> DEFINE h == Judging(t, ot, ct)
<1>1. Len(t) \in Nat /\ \A n \in 1 .. Len(t) : h[n] = Judge(h[n - 1], ot[n], ct[n], Line(t, n))
  BY LenProperties, JudgingIs
<1> HIDE DEF h
<1> DEFINE Bad == {n \in Nat : lo <= n /\ n <= hi /\ h[n] # h[lo]}
<1>2. ASSUME Bad # {} PROVE FALSE
  <2>1. Bad \in SUBSET Nat
    OBVIOUS
  <2>2. PICK n \in Bad : \A e \in Bad : n <= e
    BY <1>2, <2>1, MinIs
  <2>3. n \in Nat /\ lo <= n /\ n <= hi /\ h[n] # h[lo]
    BY <2>2
  <2>4. n # lo
    BY <2>3
  <2>5. n - 1 \in Nat /\ lo <= n - 1 /\ n - 1 <= hi /\ ~(n <= n - 1) /\ n \in lo + 1 .. hi /\ n \in 1 .. Len(t)
    BY <1>1, <2>3, <2>4
  <2>6. n - 1 \notin Bad
    BY <2>2, <2>5
  <2>7. h[n - 1] = h[lo]
    BY <2>5, <2>6
  <2>8. h[n] = Judge(h[n - 1], ot[n], ct[n], Line(t, n)) /\ ot[n] = "none" /\ ct[n] = "none"
    BY <1>1, <2>5
  <2>9. h[n] = h[n - 1]
    BY <2>8, JudgeNone
  <2> QED
    BY <2>3, <2>7, <2>9
<1>3. h[hi] = h[lo]
  <2>1. hi \notin Bad
    BY <1>2
  <2> QED
    BY <2>1
<1> QED
  BY <1>3 DEF h

(* A token without a mark leaves the scanner where it stood. *)
LEMMA NoMark ==
  ASSUME NEW s, NEW os, NEW cs, NEW t, NEW ot, NEW ct, Resumes(s, os, cs, t, ot, ct),
         \A i \in Len(s) + 1 .. Len(t) : ot[i] = "none" /\ ct[i] = "none"
  PROVE  Judged(t, ot, ct) = Judged(s, os, cs)
<1>1. /\ s \in Seq(Letter) /\ t \in Seq(Letter) /\ Len(s) <= Len(t) /\ Len(s) \in Nat /\ Len(t) \in Nat
      /\ Kinds(Len(t), ot) /\ Len(t) <= Len(t)
  BY LenProperties DEF Resumes
<1>2. Judging(t, ot, ct)[Len(t)] = Judging(t, ot, ct)[Len(s)]
  <2>1. \A i \in Len(s) + 1 .. Len(t) : ot[i] = "none" /\ ct[i] = "none"
    OBVIOUS
  <2> DEFINE lo == Len(s)
             hi == Len(t)
  <2>2. lo \in Nat /\ hi \in Nat /\ lo <= hi /\ hi <= Len(t)
    BY <1>1
  <2>3. \A i \in lo + 1 .. hi : ot[i] = "none" /\ ct[i] = "none"
    BY <2>1
  <2> HIDE DEF lo, hi
  <2>4. Judging(t, ot, ct)[hi] = Judging(t, ot, ct)[lo]
    BY <1>1, <2>2, <2>3, JudgedStill
  <2> QED
    BY <2>4 DEF lo, hi
<1>3. Judged(t, ot, ct) = Judging(t, ot, ct)[Len(t)]
  BY <1>1, JudgingIs
<1> QED
  BY <1>2, <1>3, JudgedBefore

(* A token with one mark is judged by that mark. *)
LEMMA OneMark ==
  ASSUME NEW s, NEW os, NEW cs, NEW t, NEW ot, NEW ct, Resumes(s, os, cs, t, ot, ct),
         NEW p \in Len(s) + 1 .. Len(t),
         \A i \in Len(s) + 1 .. Len(t) : i # p => ot[i] = "none" /\ ct[i] = "none"
  PROVE  Judged(t, ot, ct) = Judge(Judged(s, os, cs), ot[p], ct[p], Line(t, p))
<1> DEFINE h == Judging(t, ot, ct)
<1>1. /\ s \in Seq(Letter) /\ t \in Seq(Letter) /\ Len(s) <= Len(t) /\ Len(s) \in Nat /\ Len(t) \in Nat
      /\ Kinds(Len(t), ot) /\ Len(t) <= Len(t)
  BY LenProperties DEF Resumes
<1>2. p \in Nat /\ p - 1 \in Nat /\ Len(s) <= p - 1 /\ p - 1 <= Len(t) /\ p <= Len(t) /\ p \in 1 .. Len(t)
  BY <1>1
<1>3. \A i \in Len(s) + 1 .. p - 1 : ot[i] = "none" /\ ct[i] = "none"
  <2>1. \A i \in Len(s) + 1 .. p - 1 : i \in Len(s) + 1 .. Len(t) /\ i # p
    BY <1>1, <1>2
  <2> QED
    BY <2>1
<1>4. \A i \in p + 1 .. Len(t) : ot[i] = "none" /\ ct[i] = "none"
  <2>1. \A i \in p + 1 .. Len(t) : i \in Len(s) + 1 .. Len(t) /\ i # p
    BY <1>1, <1>2
  <2> QED
    BY <2>1
<1>5. h[p - 1] = h[Len(s)]
  BY <1>1, <1>2, <1>3, JudgedStill
<1>6. h[Len(t)] = h[p]
  BY <1>1, <1>2, <1>4, JudgedStill
<1>7. h[p] = Judge(h[p - 1], ot[p], ct[p], Line(t, p)) /\ Judged(t, ot, ct) = h[Len(t)]
  BY <1>1, <1>2, JudgingIs
<1>8. h[Len(s)] = Judged(s, os, cs)
  BY JudgedBefore
<1> HIDE DEF h
<1> QED
  BY <1>5, <1>6, <1>7, <1>8

-----------------------------------------------------------------------------
(* The stack and what is open: in the order of what is kept, an entry for each. *)
Keeps(stack, kept, entry, at) ==
  /\ \A j \in 1 .. Len(stack) : stack[j] = entry[at[j]]
  /\ \A j \in 1 .. Len(stack) : \A i \in 1 .. j - 1 : at[i] < at[j]
  /\ \A d \in kept : \E j \in 1 .. Len(stack) : at[j] = d
Tracks(stack, kept, entry) == \E at \in [1 .. Len(stack) -> kept] : Keeps(stack, kept, entry, at)

(* A stack tracks what is kept by the entries of what is kept. *)
LEMMA TracksSame ==
  ASSUME NEW stack, NEW kept, NEW entry, NEW other, Tracks(stack, kept, entry),
         \A d \in kept : other[d] = entry[d]
  PROVE  Tracks(stack, kept, other)
<1>1. PICK at \in [1 .. Len(stack) -> kept] : Keeps(stack, kept, entry, at)
  BY DEF Tracks
<1>2. \A j \in 1 .. Len(stack) : other[at[j]] = entry[at[j]]
  BY <1>1
<1>3. Keeps(stack, kept, other, at)
  BY <1>1, <1>2 DEF Keeps
<1> QED
  BY <1>1, <1>3 DEF Tracks

(* The stack is empty when nothing is kept. *)
LEMMA TracksNone ==
  ASSUME NEW stack \in Seq(Item), NEW kept, NEW entry, Tracks(stack, kept, entry)
  PROVE  kept = {} <=> stack = << >>
<1>1. PICK at \in [1 .. Len(stack) -> kept] : Keeps(stack, kept, entry, at)
  BY DEF Tracks
<1>2. Len(stack) \in Nat
  BY LenProperties
<1>3. ASSUME kept = {} PROVE stack = << >>
  <2>1. ~(1 \in 1 .. Len(stack))
    BY <1>1, <1>3
  <2>2. Len(stack) = 0
    BY <1>2, <2>1
  <2> QED
    BY <2>2, EmptySeq
<1>4. ASSUME stack = << >> PROVE kept = {}
  <2>1. Len(stack) = 0
    BY <1>4
  <2>2. \A j \in 1 .. Len(stack) : FALSE
    BY <2>1
  <2> QED
    BY <1>1, <2>2 DEF Keeps
<1> QED
  BY <1>3, <1>4

(* It tracks what is kept when one more is opened. *)
LEMMA TracksPush ==
  ASSUME NEW stack \in Seq(Item), NEW kept \in SUBSET Nat, NEW entry, NEW other, NEW z \in Nat, NEW item \in Item,
         Tracks(stack, kept, entry), \A d \in kept : d < z /\ other[d] = entry[d], other[z] = item
  PROVE  Tracks(Append(stack, item), kept \cup {z}, other)
<1>1. PICK at \in [1 .. Len(stack) -> kept] : Keeps(stack, kept, entry, at)
  BY DEF Tracks
<1> DEFINE n == Len(stack)
           more == Append(stack, item)
           now == [j \in 1 .. n + 1 |-> IF j = n + 1 THEN z ELSE at[j]]
<1>2. n \in Nat
  BY LenProperties
<1>3. Len(more) = n + 1 /\ more[n + 1] = item /\ \A j \in 1 .. n : more[j] = stack[j]
  BY AppendProperties
<1>4. \A j \in 1 .. n + 1 : j # n + 1 => j \in 1 .. n
  BY <1>2
<1>5. now \in [1 .. n + 1 -> kept \cup {z}]
  BY <1>1, <1>4
<1>6. now[n + 1] = z /\ \A j \in 1 .. n : now[j] = at[j] /\ at[j] \in kept
  <2>1. n + 1 \in 1 .. n + 1 /\ \A j \in 1 .. n : j \in 1 .. n + 1 /\ j # n + 1
    BY <1>2
  <2> QED
    BY <1>1, <2>1
<1> HIDE DEF more, now
<1>7. ASSUME NEW j \in 1 .. n + 1 PROVE more[j] = other[now[j]]
  <2>1. CASE j = n + 1
    BY <1>3, <1>6, <2>1
  <2>2. CASE j # n + 1
    <3>1. j \in 1 .. n
      BY <1>4, <2>2
    <3>2. stack[j] = entry[at[j]]
      BY <1>1, <3>1 DEF Keeps
    <3> QED
      BY <1>3, <1>6, <3>1, <3>2
  <2> QED
    BY <2>1, <2>2
<1>8. ASSUME NEW j \in 1 .. n + 1, NEW i \in 1 .. j - 1 PROVE now[i] < now[j]
  <2>1. i \in 1 .. n
    BY <1>2
  <2>2. CASE j = n + 1
    <3>1. now[i] = at[i] /\ at[i] \in kept /\ now[j] = z
      BY <1>6, <2>1, <2>2
    <3> QED
      BY <3>1
  <2>3. CASE j # n + 1
    <3>1. j \in 1 .. n
      BY <1>4, <2>3
    <3>2. at[i] < at[j]
      BY <1>1, <3>1 DEF Keeps
    <3> QED
      BY <1>6, <2>1, <3>1, <3>2
  <2> QED
    BY <2>2, <2>3
<1>9. ASSUME NEW d \in kept \cup {z} PROVE \E j \in 1 .. n + 1 : now[j] = d
  <2>1. CASE d = z
    <3>1. n + 1 \in 1 .. n + 1
      BY <1>2
    <3> QED
      BY <1>6, <2>1, <3>1
  <2>2. CASE d # z
    <3>1. PICK j \in 1 .. n : at[j] = d
      BY <1>1, <2>2 DEF Keeps
    <3>2. j \in 1 .. n + 1
      BY <1>2
    <3> QED
      BY <1>6, <3>1, <3>2
  <2> QED
    BY <2>1, <2>2
<1>10. Keeps(more, kept \cup {z}, other, now)
  BY <1>3, <1>7, <1>8, <1>9 DEF Keeps
<1>11. Tracks(more, kept \cup {z}, other)
  BY <1>3, <1>5, <1>10 DEF Tracks
<1> QED
  BY <1>11 DEF more

(* Its top is the entry of the innermost. *)
LEMMA TracksTop ==
  ASSUME NEW stack \in Seq(Item), NEW kept \in SUBSET Nat, NEW entry, NEW z \in kept,
         Tracks(stack, kept, entry), \A d \in kept : d <= z
  PROVE  stack # << >> /\ stack[Len(stack)] = entry[z]
<1>1. PICK at \in [1 .. Len(stack) -> kept] : Keeps(stack, kept, entry, at)
  BY DEF Tracks
<1>2. stack # << >> /\ Len(stack) \in Nat
  BY TracksNone, LenProperties
<1>3. PICK j \in 1 .. Len(stack) : at[j] = z
  BY <1>1 DEF Keeps
<1>4. Len(stack) \in 1 .. Len(stack)
  BY <1>2, <1>3
<1>5. at[Len(stack)] = z
  <2>1. CASE j = Len(stack)
    BY <1>3, <2>1
  <2>2. CASE j # Len(stack)
    <3>1. j \in 1 .. Len(stack) - 1
      BY <1>2, <2>2
    <3>2. at[j] < at[Len(stack)]
      BY <1>1, <1>4, <3>1 DEF Keeps
    <3>3. at[Len(stack)] \in Nat /\ at[Len(stack)] <= z /\ z \in Nat
      BY <1>1, <1>4
    <3>4. z < at[Len(stack)]
      BY <1>3, <3>2
    <3> QED
      BY <3>3, <3>4
  <2> QED
    BY <2>1, <2>2
<1>6. stack[Len(stack)] = entry[at[Len(stack)]]
  BY <1>1, <1>4 DEF Keeps
<1> QED
  BY <1>2, <1>5, <1>6

(* It tracks what is kept when the innermost is closed. *)
LEMMA TracksPop ==
  ASSUME NEW stack \in Seq(Item), NEW kept \in SUBSET Nat, NEW entry, NEW other, NEW z \in kept,
         Tracks(stack, kept, entry), \A d \in kept : d <= z, \A d \in kept \ {z} : other[d] = entry[d]
  PROVE  Tracks(SubSeq(stack, 1, Len(stack) - 1), kept \ {z}, other)
<1>1. PICK at \in [1 .. Len(stack) -> kept] : Keeps(stack, kept, entry, at)
  BY DEF Tracks
<1>2. stack # << >>
  BY TracksTop
<1> DEFINE n == Len(stack) - 1
           rest == SubSeq(stack, 1, n)
           now == [j \in 1 .. n |-> at[j]]
<1>3. /\ Len(stack) \in Nat /\ Len(stack) > 0
      /\ rest \in Seq(Item) /\ Len(rest) = Len(stack) - 1
      /\ \A j \in 1 .. Len(stack) - 1 : rest[j] = stack[j]
  BY <1>2, ShorterIs
<1>4. n \in Nat /\ Len(stack) = n + 1 /\ Len(rest) = n /\ \A j \in 1 .. n : rest[j] = stack[j]
  BY <1>3
<1> HIDE DEF rest, n
<1>5. n + 1 \in 1 .. Len(stack) /\ \A j \in 1 .. n : j \in 1 .. Len(stack) /\ j \in 1 .. (n + 1) - 1
  BY <1>4
<1>6. PICK e \in 1 .. Len(stack) : at[e] = z
  BY <1>1 DEF Keeps
<1>7. at[n + 1] = z /\ \A j \in 1 .. n : at[j] \in kept \ {z}
  <2>1. \A j \in 1 .. n : at[j] < at[n + 1]
    BY <1>1, <1>5 DEF Keeps
  <2>2. at[n + 1] \in kept /\ at[n + 1] <= z /\ z \in Nat
    BY <1>1, <1>5
  <2>3. at[n + 1] = z
    <3>1. e = n + 1 \/ e \in 1 .. n
      BY <1>4
    <3>2. ASSUME e \in 1 .. n PROVE FALSE
      <4>1. z < at[n + 1]
        BY <1>6, <2>1, <3>2
      <4>2. at[n + 1] \in Nat
        BY <2>2
      <4> QED
        BY <2>2, <4>1, <4>2
    <3> QED
      BY <1>6, <3>1, <3>2
  <2>4. ASSUME NEW j \in 1 .. n PROVE at[j] \in kept \ {z}
    <3>1. at[j] \in kept /\ at[j] < z /\ at[j] \in Nat
      BY <1>1, <1>5, <2>1, <2>3
    <3> QED
      BY <2>2, <3>1
  <2> QED
    BY <2>3, <2>4
<1>8. now \in [1 .. n -> kept \ {z}] /\ \A j \in 1 .. n : now[j] = at[j]
  BY <1>7
<1> HIDE DEF now
<1>9. ASSUME NEW j \in 1 .. n PROVE rest[j] = other[now[j]]
  <2>1. stack[j] = entry[at[j]]
    BY <1>1, <1>5 DEF Keeps
  <2> QED
    BY <1>4, <1>7, <1>8, <2>1
<1>10. ASSUME NEW j \in 1 .. n, NEW i \in 1 .. j - 1 PROVE now[i] < now[j]
  <2>1. i \in 1 .. n /\ j \in 1 .. Len(stack)
    BY <1>4
  <2>2. at[i] < at[j]
    BY <1>1, <2>1 DEF Keeps
  <2> QED
    BY <1>8, <2>1, <2>2
<1>11. ASSUME NEW d \in kept \ {z} PROVE \E j \in 1 .. n : now[j] = d
  <2>1. PICK j \in 1 .. Len(stack) : at[j] = d
    BY <1>1 DEF Keeps
  <2>2. j # n + 1
    BY <1>7, <2>1
  <2>3. j \in 1 .. n
    BY <1>4, <2>2
  <2> QED
    BY <1>8, <2>1, <2>3
<1>12. Keeps(rest, kept \ {z}, other, now)
  BY <1>4, <1>9, <1>10, <1>11 DEF Keeps
<1>13. Tracks(rest, kept \ {z}, other)
  BY <1>4, <1>8, <1>12 DEF Tracks
<1> QED
  BY <1>13 DEF rest, n

(* After an error the scanner stops. *)
LEMMA JudgeStops ==
  ASSUME NEW state, state.first # Fine, NEW opens, NEW closes, NEW line
  PROVE  Judge(state, opens, closes, line) = state
BY Zenon DEF Judge

(* An opening mark is put on the stack. *)
LEMMA JudgePush ==
  ASSUME NEW state \in Standing, state.first = Fine, NEW opens, opens # "none", NEW closes, NEW line
  PROVE  LET next == Judge(state, opens, closes, line) IN
         next.first = Fine /\ next.stack = Append(state.stack, [what |-> opens, line |-> line])
<1> DEFINE next == Judge(state, opens, closes, line)
           more == Append(state.stack, [what |-> opens, line |-> line])
<1>1. next = [state EXCEPT !.stack = more]
  BY Zenon DEF Judge
<1> HIDE DEF next, more
<1>2. next.first = Fine /\ next.stack = more
  BY <1>1 DEF Standing
<1> QED
  BY <1>2 DEF next, more

(* A closing mark that matches takes the top off. *)
LEMMA JudgePop ==
  ASSUME NEW state \in Standing, state.first = Fine, NEW closes, closes # "none",
         state.stack # << >>, state.stack[Len(state.stack)].what = closes, NEW line
  PROVE  LET next == Judge(state, "none", closes, line) IN
         next.first = Fine /\ next.stack = SubSeq(state.stack, 1, Len(state.stack) - 1)
<1> DEFINE next == Judge(state, "none", closes, line)
           rest == SubSeq(state.stack, 1, Len(state.stack) - 1)
<1>1. next = [state EXCEPT !.stack = rest]
  BY Zenon DEF Judge, Matches
<1> HIDE DEF next, rest
<1>2. next.first = Fine /\ next.stack = rest
  BY <1>1 DEF Standing
<1> QED
  BY <1>2 DEF next, rest

(* Another closing mark is an error. *)
LEMMA JudgeFault ==
  ASSUME NEW state \in Standing, state.first = Fine, NEW closes, closes # "none", NEW line,
         state.stack # << >> => state.stack[Len(state.stack)].what # closes
  PROVE  Judge(state, "none", closes, line).first =
           [error |-> IF state.stack = << >> THEN "unexpected" ELSE "mismatched", line |-> line]
<1> DEFINE next == Judge(state, "none", closes, line)
<1>1. CASE state.stack = << >>
  <2> DEFINE fault == [error |-> "unexpected", line |-> line]
  <2>1. next = [state EXCEPT !.first = fault]
    BY <1>1, Zenon DEF Judge, Matches
  <2> HIDE DEF next, fault
  <2>2. next.first = fault
    BY <2>1 DEF Standing
  <2> QED
    BY <1>1, <2>2 DEF next, fault
<1>2. CASE state.stack # << >>
  <2> DEFINE fault == [error |-> "mismatched", line |-> line]
  <2>1. next = [state EXCEPT !.first = fault]
    BY <1>2, Zenon DEF Judge, Matches
  <2> HIDE DEF next, fault
  <2>2. next.first = fault
    BY <2>1 DEF Standing
  <2> QED
    BY <1>2, <2>2 DEF next, fault
<1> QED
  BY <1>1, <1>2

(* The scanner has found the first error, or what is open if there is none. *)
Finds(state, first, kept, entry) ==
  IF first = Fine THEN state.first = Fine /\ Tracks(state.stack, kept, entry) ELSE state.first = first

(* What the scanner finds depends on the entries of what is kept. *)
LEMMA FindsSame ==
  ASSUME NEW state, NEW first, NEW kept, NEW entry, NEW other, Finds(state, first, kept, entry),
         \A d \in kept : other[d] = entry[d]
  PROVE  Finds(state, first, kept, other)
BY TracksSame DEF Finds

(* An opening mark is found. *)
LEMMA FindsPush ==
  ASSUME NEW state \in Standing, NEW first, NEW kept \in SUBSET Nat, NEW entry, NEW other, NEW z \in Nat,
         Finds(state, first, kept, entry), NEW opens \in Letter, NEW line \in Nat, NEW closes,
         \A d \in kept : d < z /\ other[d] = entry[d], other[z] = [what |-> opens, line |-> line]
  PROVE  Finds(Judge(state, opens, closes, line), first, kept \cup {z}, other)
<1> DEFINE next == Judge(state, opens, closes, line)
           item == [what |-> opens, line |-> line]
<1>1. CASE first # Fine
  <2>1. state.first = first
    BY <1>1 DEF Finds
  <2>2. next = state
    BY <1>1, <2>1, JudgeStops
  <2> HIDE DEF next
  <2>3. Finds(next, first, kept \cup {z}, other)
    BY <1>1, <2>1, <2>2 DEF Finds
  <2> QED
    BY <2>3 DEF next
<1>2. CASE first = Fine
  <2>1. state.first = Fine /\ Tracks(state.stack, kept, entry) /\ state.stack \in Seq(Item)
    BY <1>2, StandingIs DEF Finds
  <2>2. item \in Item
    BY ItemIs
  <2>3. opens # "none"
    BY DEF Letter, NameChar, Word, Operator, Opener, Space, Newline, Blank, Quote, Tick, Escape
  <2>4. next.first = Fine /\ next.stack = Append(state.stack, item)
    <3>1. state.first = Fine
      BY <2>1
    <3> QED
      BY <2>3, <3>1, JudgePush
  <2> HIDE DEF next, item
  <2>5. other[z] = item
    BY DEF item
  <2>6. Tracks(Append(state.stack, item), kept \cup {z}, other)
    BY <2>1, <2>2, <2>5, TracksPush
  <2>7. Finds(next, first, kept \cup {z}, other)
    BY <1>2, <2>4, <2>6 DEF Finds
  <2> QED
    BY <2>7 DEF next
<1> QED
  BY <1>1, <1>2

(* A closing mark that matches is found. *)
LEMMA FindsPop ==
  ASSUME NEW state \in Standing, NEW first, NEW kept \in SUBSET Nat, NEW entry, NEW other, NEW z \in kept,
         Finds(state, first, kept, entry), NEW closes \in Letter, entry[z].what = closes, NEW line,
         \A d \in kept : d <= z, \A d \in kept \ {z} : other[d] = entry[d]
  PROVE  Finds(Judge(state, "none", closes, line), first, kept \ {z}, other)
<1> DEFINE next == Judge(state, "none", closes, line)
<1>1. CASE first # Fine
  <2>1. state.first = first
    BY <1>1 DEF Finds
  <2>2. next = state
    BY <1>1, <2>1, JudgeStops
  <2> HIDE DEF next
  <2>3. Finds(next, first, kept \ {z}, other)
    BY <1>1, <2>1, <2>2 DEF Finds
  <2> QED
    BY <2>3 DEF next
<1>2. CASE first = Fine
  <2> DEFINE stack == state.stack
  <2>1. state.first = Fine /\ Tracks(stack, kept, entry) /\ stack \in Seq(Item)
    BY <1>2, StandingIs DEF Finds
  <2>2. closes # "none"
    BY DEF Letter, NameChar, Word, Operator, Opener, Space, Newline, Blank, Quote, Tick, Escape
  <2>3. stack # << >> /\ stack[Len(stack)] = entry[z]
    BY <2>1, TracksTop
  <2>4. next.first = Fine /\ next.stack = SubSeq(stack, 1, Len(stack) - 1)
    BY <2>1, <2>2, <2>3, JudgePop
  <2> HIDE DEF next, stack
  <2>5. Tracks(SubSeq(stack, 1, Len(stack) - 1), kept \ {z}, other)
    BY <2>1, TracksPop
  <2>6. Finds(next, first, kept \ {z}, other)
    BY <1>2, <2>4, <2>5 DEF Finds
  <2> QED
    BY <2>6 DEF next
<1> QED
  BY <1>1, <1>2

(* A mistake is found, unless one was found before. *)
LEMMA FindsFault ==
  ASSUME NEW state \in Standing, NEW first, NEW kept \in SUBSET Nat, NEW entry,
         Finds(state, first, kept, entry), NEW closes \in Letter, NEW line,
         kept # {} => \E z \in kept : (\A d \in kept : d <= z) /\ entry[z].what # closes
  PROVE  Finds(Judge(state, "none", closes, line),
               IF first # Fine THEN first
               ELSE [error |-> IF kept = {} THEN "unexpected" ELSE "mismatched", line |-> line], kept, entry)
<1> DEFINE next == Judge(state, "none", closes, line)
           fault == [error |-> IF kept = {} THEN "unexpected" ELSE "mismatched", line |-> line]
<1>1. CASE first # Fine
  <2>1. state.first = first
    BY <1>1 DEF Finds
  <2>2. next = state
    BY <1>1, <2>1, JudgeStops
  <2> HIDE DEF next, fault
  <2>3. Finds(next, IF first # Fine THEN first ELSE fault, kept, entry)
    BY <1>1, <2>1, <2>2 DEF Finds
  <2> QED
    BY <2>3 DEF next, fault
<1>2. CASE first = Fine
  <2> DEFINE stack == state.stack
  <2>1. state.first = Fine /\ Tracks(stack, kept, entry) /\ stack \in Seq(Item)
    BY <1>2, StandingIs DEF Finds
  <2>2. closes # "none"
    BY DEF Letter, NameChar, Word, Operator, Opener, Space, Newline, Blank, Quote, Tick, Escape
  <2>3. kept = {} <=> stack = << >>
    BY <2>1, TracksNone
  <2>4. stack # << >> => stack[Len(stack)].what # closes
    <3>1. ASSUME stack # << >> PROVE stack[Len(stack)].what # closes
      <4>1. PICK z \in kept : (\A d \in kept : d <= z) /\ entry[z].what # closes
        BY <2>3, <3>1
      <4>2. stack[Len(stack)] = entry[z]
        BY <2>1, <4>1, TracksTop
      <4> QED
        BY <4>1, <4>2
    <3> QED
      BY <3>1
  <2>5. next.first = [error |-> IF stack = << >> THEN "unexpected" ELSE "mismatched", line |-> line]
    BY <2>1, <2>2, <2>4, JudgeFault
  <2>6. next.first = fault
    BY <2>3, <2>5
  <2>7. fault # Fine
    BY DEF Fine
  <2> HIDE DEF next, fault
  <2>8. Finds(next, IF first # Fine THEN first ELSE fault, kept, entry)
    BY <1>2, <2>6, <2>7 DEF Finds
  <2> QED
    BY <2>8 DEF next, fault
<1> QED
  BY <1>1, <1>2

-----------------------------------------------------------------------------
(* What a step does to the code and to what is open. *)
Bracket == Opener \cup {")", "rbrace"}
Adds(S) == S \in Seq(Letter) /\ Len(S) > 0 /\ code' = code \o S

(* Nothing is opened or closed. *)
PlainMove(S) ==
  /\ Adds(S) /\ open' = open /\ mistake' = mistake /\ (where' = "tag" <=> where = "tag")
  /\ \A k \in 1 .. Len(S) :
       /\ S[k] \notin Bracket \cup {"/"}
       /\ S[k] = ">" => where # "tag"
       /\ S[k] = "<" => ~BeginsTag(code', Len(code) + k)
OpenMove(S, p, after) ==
  /\ Adds(S) /\ mistake' = mistake /\ where' = "operand"
  /\ p \in 1 .. Len(S) /\ S[p] \in Opener /\ after \in Places \ {"operand"} /\ (after = "tag" <=> where = "tag")
  /\ open' = Append(open, [what |-> S[p], at |-> Len(code) + p, after |-> after])
  /\ \A k \in 1 .. Len(S) : (k # p => S[k] \notin Bracket) /\ S[k] \notin {"<", ">", "/"}
CloseMove ==
  /\ Adds(<<Closing(Top.what)>>) /\ mistake' = mistake
  /\ open # << >> /\ Top.what \in Opener /\ open' = Below /\ where' = Top.after
WrongBracketMove(opener) ==
  /\ Adds(<<Closing(opener)>>) /\ open' = open
  /\ opener \in Opener /\ Misplaced(Opener, opener)
  /\ mistake' = [mistake EXCEPT !.brackets = Blames(@, Opener)]
StartMove(name, after) ==
  /\ Adds(<<"<", name>>) /\ name \in Element /\ mistake' = mistake
  /\ where \in {"operand", "children"} /\ where' = "tag" /\ after \in {"value", "children"}
  /\ open' = Append(open, [what |-> name, at |-> Len(code) + 1, after |-> after])
  /\ "word<" \notin dialect.forms => BeginsTag(code', Len(code) + 1)
EndMove == Adds(<<">">>) /\ mistake' = mistake /\ where = "tag" /\ where' = "children" /\ open' = open
SelfCloseMove ==
  Adds(<<"/", ">">>) /\ mistake' = mistake /\ where = "tag" /\ open # << >> /\ where' = Top.after /\ open' = Below
CloseTagMove ==
  /\ Adds(<<"<", "/", Top.what, ">">>) /\ mistake' = mistake /\ open # << >> /\ Top.what \in Element
  /\ where = "children" /\ where' = Top.after /\ open' = Below
WrongTagMove(name) ==
  /\ Adds(<<"<", "/", name, ">">>) /\ name \in Element /\ Misplaced(Element, name)
  /\ where = "children" \/ (where = "value" /\ Innermost(Element) = 0)
  /\ mistake' = [mistake EXCEPT !.tags = Blames(@, Element)]
  /\ open' = open /\ where' = where
Moves ==
  \/ \E S \in Seq(Letter) : PlainMove(S)
  \/ \E S \in Seq(Letter) : \E p \in 1 .. Len(S) : \E after \in Places : OpenMove(S, p, after)
  \/ CloseMove
  \/ \E opener \in Opener : WrongBracketMove(opener)
  \/ \E name \in Element : \E after \in {"value", "children"} : StartMove(name, after)
  \/ EndMove \/ SelfCloseMove \/ CloseTagMove
  \/ \E name \in Element : WrongTagMove(name)

(* Letters that do not look like brackets or tags. *)
LEMMA QuietMoves ==
  ASSUME NEW S \in Seq(Letter), Len(S) > 0, code' = code \o S, open' = open, mistake' = mistake,
         where' = "tag" <=> where = "tag",
         \A k \in 1 .. Len(S) : S[k] \notin Bracket \cup {"/", "<", ">"}
  PROVE  Moves
<1>1. PlainMove(S)
  BY DEF PlainMove, Adds
<1> QED
  BY <1>1 DEF Moves

(* The brackets. *)
LEMMA BracketIs == Bracket = {"(", "lbrace", ")", "rbrace"}
BY DEF Bracket, Opener

(* A hidden token opens and closes nothing. *)
LEMMA HiddenMoves ==
  ASSUME NEW L, HiddenToken(L), code' = code \o Unseen(L), open' = open, mistake' = mistake,
         where' = "tag" <=> where = "tag"
  PROVE  Moves
<1> DEFINE S == Unseen(L)
<1>1. Token(L, S) /\ \A k \in 1 .. Len(L) : S[k] \in Space
  BY HiddenTokenIs
<1>2. code' = code \o S
  OBVIOUS
<1> HIDE DEF S
<1>3. S \in Seq(Letter) /\ Len(S) > 0 /\ Len(S) = Len(L)
  BY <1>1 DEF Token
<1>4. \A k \in 1 .. Len(S) : S[k] \notin Bracket \cup {"/", "<", ">"}
  BY <1>1, <1>3, BracketIs DEF Space, Newline, Blank
<1> QED
  BY <1>2, <1>3, <1>4, QuietMoves

(* Strings and templates are such tokens. *)
LEMMA StringMoves == Core /\ (String \/ Template) => Moves
<1> SUFFICES ASSUME Core, String \/ Template PROVE Moves
  OBVIOUS
<1>1. ASSUME String PROVE Moves
  <2>1. PICK s \in Hidden \cup {<<Escape, Quote>>, <<Escape, Escape>>} :
          LET string == <<Quote>> \o s \o <<Quote>> IN WriteBoth(string, Unseen(string))
    BY <1>1 DEF String
  <2> DEFINE L == <<Quote>> \o s \o <<Quote>>
  <2>2. HiddenToken(L)
    BY Bodies, StringTokens
  <2>3. code' = code \o Unseen(L)
    BY <2>1 DEF WriteBoth
  <2>4. /\ where = "operand" /\ where' = "value" /\ open' = open /\ mistake' = mistake
    BY <1>1 DEF String, Becomes
  <2> HIDE DEF L
  <2> QED
    BY <2>2, <2>3, <2>4, HiddenMoves
<1>2. ASSUME Template PROVE Moves
  <2>1. PICK s \in {<<Quote, Newline, "(">>, <<Escape, Tick, "/", "*">>} :
          LET template == <<Tick>> \o s \o <<Tick>> IN WriteBoth(template, Unseen(template))
    BY <1>2 DEF Template
  <2> DEFINE L == <<Tick>> \o s \o <<Tick>>
  <2>2. HiddenToken(L)
    BY Bodies, StringTokens
  <2>3. code' = code \o Unseen(L)
    BY <2>1 DEF WriteBoth
  <2>4. /\ where = "operand" /\ where' = "value" /\ open' = open /\ mistake' = mistake
    BY <1>2 DEF Template, Becomes
  <2> HIDE DEF L
  <2> QED
    BY <2>2, <2>3, <2>4, HiddenMoves
<1> QED
  BY <1>1, <1>2

(* Comments are. *)
LEMMA CommentMoves == Core /\ Comment => Moves
<1> SUFFICES ASSUME Core, Comment PROVE Moves
  OBVIOUS
<1>1. PICK s \in Hidden \cup {<<Quote>>} :
        \E comment \in {<<"/", "/">> \o s \o <<Newline>>, <<"/", "*", Newline>> \o s \o <<"*", "/">>} :
          WriteBoth(comment, Unseen(comment))
  BY DEF Comment
<1>2. PICK L \in {<<"/", "/">> \o s \o <<Newline>>, <<"/", "*", Newline>> \o s \o <<"*", "/">>} :
        WriteBoth(L, Unseen(L))
  BY <1>1
<1>3. CommentBody(s)
  BY Bodies
<1>4. HiddenToken(L)
  BY <1>2, <1>3, CommentTokens
<1>5. code' = code \o Unseen(L) /\ where' = where /\ open' = open /\ mistake' = mistake
  BY <1>2 DEF Comment, WriteBoth, Becomes
<1> HIDE <1>1, <1>2
<1> QED
  BY <1>4, <1>5, HiddenMoves

(* Words and text open and close nothing. *)
LEMMA WordMoves == Core /\ (Export \/ Name \/ Return \/ Text) => Moves
<1> SUFFICES ASSUME Core, Export \/ Name \/ Return \/ Text PROVE Moves
  OBVIOUS
<1>1. ASSUME NEW S \in Seq(Letter), Len(S) > 0, Write(S), open' = open, mistake' = mistake,
             where' = "tag" <=> where = "tag",
             \A k \in 1 .. Len(S) : S[k] \in Word \cup {Blank, Newline, Quote, ".", "other"}
      PROVE  Moves
  <2>1. \A k \in 1 .. Len(S) : S[k] \notin Bracket \cup {"/", "<", ">"}
    BY <1>1, BracketIs DEF Word, Blank, Newline, Quote
  <2> QED
    BY <1>1, <2>1, QuietMoves DEF Write, WriteBoth
<1>2. CASE Export
  <2> DEFINE S == <<"export", Blank, "default", Blank>>
  <2>1. S \in Seq(Letter) /\ Len(S) = 4 /\ S[1] = "export" /\ S[2] = Blank /\ S[3] = "default" /\ S[4] = Blank
    BY Letters, Four
  <2>2. Write(S) /\ open' = open /\ mistake' = mistake /\ where' = where
    BY <1>2 DEF Export
  <2> HIDE DEF S
  <2>3. \A k \in 1 .. Len(S) : k \in {1, 2, 3, 4}
    BY <2>1
  <2>4. \A k \in {1, 2, 3, 4} : S[k] \in Word \cup {Blank, Newline, Quote, ".", "other"}
    BY <2>1 DEF Word
  <2>5. Len(S) > 0 /\ (where' = "tag" <=> where = "tag")
    BY <2>1, <2>2
  <2> QED
    BY <1>1, <2>1, <2>2, <2>3, <2>4, <2>5
<1>3. CASE Name
  <2>1. PICK word \in {"x", "execSync"} : Write(<<word>>)
    BY <1>3 DEF Name
  <2> DEFINE S == <<word>>
  <2>2. S \in Seq(Letter) /\ Len(S) = 1 /\ S[1] = word
    BY Letters, One
  <2>3. Write(S) /\ open' = open /\ mistake' = mistake /\ where \in {"operand", "statement"} /\ where' = "value"
    BY <1>3, <2>1 DEF Name
  <2> HIDE DEF S
  <2>4. \A k \in 1 .. Len(S) : S[k] \in Word \cup {Blank, Newline, Quote, ".", "other"}
    <3>1. word \in Word /\ \A k \in 1 .. Len(S) : k = 1
      BY <2>2 DEF Word
    <3> QED
      BY <2>2, <3>1
  <2>5. Len(S) > 0 /\ (where' = "tag" <=> where = "tag")
    BY <2>2, <2>3
  <2> QED
    BY <1>1, <2>2, <2>3, <2>4, <2>5
<1>4. CASE Return
  <2> DEFINE S == <<"return", Blank>>
  <2>1. S \in Seq(Letter) /\ Len(S) = 2 /\ S[1] = "return" /\ S[2] = Blank
    BY Letters, Two
  <2>2. Write(S) /\ open' = open /\ mistake' = mistake /\ where' = where
    BY <1>4 DEF Return, Becomes
  <2> HIDE DEF S
  <2>3. \A k \in 1 .. Len(S) : S[k] \in Word \cup {Blank, Newline, Quote, ".", "other"}
    <3>1. "return" \in Word /\ \A k \in 1 .. Len(S) : k \in {1, 2}
      BY <2>1 DEF Word
    <3> QED
      BY <2>1, <3>1
  <2>4. Len(S) > 0 /\ (where' = "tag" <=> where = "tag")
    BY <2>1, <2>2
  <2> QED
    BY <1>1, <2>1, <2>2, <2>3, <2>4
<1>5. CASE Text
  <2>1. PICK S \in {<<"x">>, <<"x", ".">>, <<"other", Newline>>, <<"x", Quote, "x">>} : Write(S)
    BY <1>5 DEF Text
  <2>2. /\ S \in Seq(Letter) /\ Len(S) > 0
        /\ \A k \in 1 .. Len(S) : S[k] \in Word \cup {Blank, Newline, Quote, ".", "other"}
    <3>1. CASE S = <<"x">>
      BY <3>1, Letters DEF Word
    <3>2. CASE S = <<"x", ".">>
      BY <3>2, Letters DEF Word
    <3>3. CASE S = <<"other", Newline>>
      BY <3>3, Letters DEF Word
    <3>4. CASE S = <<"x", Quote, "x">>
      BY <3>4, Letters DEF Word
    <3> QED
      BY <2>1, <3>1, <3>2, <3>3, <3>4
  <2>3. open' = open /\ mistake' = mistake /\ where' = where
    BY <1>5 DEF Text, Becomes
  <2> HIDE <2>1
  <2> QED
    BY <1>1, <2>1, <2>2, <2>3
<1> QED
  BY <1>2, <1>3, <1>4, <1>5

(* "<" after a name or a parenthesis. *)
LEMMA NoTagAfterName ==
  ASSUME Core, Ends({"x", ")"}), NEW S \in Seq(Letter), code' = code \o S
  PROVE  ~BeginsTag(code', Len(code) + 1)
<1> DEFINE n == Len(code)
<1>1. code \in Seq(Letter) /\ n \in Nat /\ Len(text) = n
  BY CoreTypes
<1>2. At(code, n) \in {"x", ")"}
  <2>1. At(text, Len(text)) \in {"x", ")"}
    BY DEF Ends
  <2>2. At(text, Len(text)) \notin {Quote, Tick, "/"}
    BY <2>1 DEF Quote, Tick
  <2> QED
    BY <2>1, <2>2 DEF Core, Shape, Seen
<1>3. n > 0 /\ code[n] \in {"x", ")"}
  BY <1>1, <1>2, LenProperties DEF At
<1>4. code' \in Seq(Letter) /\ n <= Len(code') /\ code'[n] = code[n]
  <2>1. /\ code \o S \in Seq(Letter) /\ Len(code \o S) = n + Len(S)
        /\ \A i \in 1 .. n : (code \o S)[i] = code[i]
    BY <1>1, JoinIs
  <2>2. n \in 1 .. n /\ Len(S) \in Nat
    BY <1>1, <1>3, LenProperties
  <2>3. code' = code \o S
    OBVIOUS
  <2> HIDE DEF n
  <2> QED
    BY <1>1, <2>1, <2>2, <2>3
<1>5. ~JsxPosition(code', n + 1)
  <2> DEFINE c == code'
  <2>1. c \in Seq(Letter) /\ n <= Len(c) /\ c[n] \in {"x", ")"} /\ n \in Nat /\ n > 0
    BY <1>1, <1>3, <1>4
  <2> HIDE DEF c, n
  <2>2. ~JsxPosition(c, n + 1)
    BY <2>1, NoTagAfter
  <2> QED
    BY <2>2 DEF c
<1> QED
  BY <1>5 DEF BeginsTag

(* An assertion's type is no tag name. *)
LEMMA NoTagOf ==
  ASSUME Core, NEW S \in Seq(Letter), Len(S) > 1, S[2] \in TypeName, code' = code \o S
  PROVE  ~BeginsTag(code', Len(code) + 1)
<1> DEFINE n == Len(code)
           c == code'
<1>1. code \in Seq(Letter) /\ n \in Nat /\ Len(S) \in Nat
  BY CoreTypes, LenProperties
<1>2. /\ code \o S \in Seq(Letter) /\ Len(code \o S) = n + Len(S)
      /\ \A k \in 1 .. Len(S) : (code \o S)[n + k] = S[k]
  BY <1>1, JoinIs
<1>3. c = code \o S
  OBVIOUS
<1> HIDE DEF c, n
<1>4. c[n + 2] = S[2] /\ n + 2 \in 1 .. n + Len(S) /\ n + 1 + 1 = n + 2 /\ DOMAIN c = 1 .. n + Len(S)
  <2>1. 2 \in 1 .. Len(S)
    BY <1>1
  <2> QED
    BY <1>1, <1>2, <1>3, <2>1, LenProperties
<1>5. At(c, n + 1 + 1) \in TypeName
  BY <1>4 DEF At
<1>6. TagName(c, n + 1 + 1) \in TypeName
  BY <1>4, <1>5 DEF TagName, TypeName, Word, At
<1> QED
  BY <1>6 DEF BeginsTag, c, n

(* Operators and type arguments begin no tag. *)
LEMMA CompareMoves == Core /\ (Operate \/ Generic) => Moves
<1> SUFFICES ASSUME Core, Operate \/ Generic PROVE Moves
  OBVIOUS
<1>1. ASSUME NEW S \in Seq(Letter), Len(S) > 0, Write(S), open' = open, mistake' = mistake,
             where # "tag", where' # "tag",
             \A k \in 1 .. Len(S) : S[k] \in {"=", "<", ">", "A", "string"} /\ (S[k] = "<" => k = 1),
             S[1] = "<" => ~BeginsTag(code', Len(code) + 1)
      PROVE  Moves
  <2>1. code' = code \o S
    BY <1>1 DEF Write, WriteBoth
  <2>2. ASSUME NEW k \in 1 .. Len(S)
        PROVE  /\ S[k] \notin Bracket \cup {"/"}
               /\ S[k] = ">" => where # "tag"
               /\ S[k] = "<" => ~BeginsTag(code', Len(code) + k)
    BY <1>1, BracketIs
  <2>3. PlainMove(S)
    BY <1>1, <2>1, <2>2 DEF PlainMove, Adds
  <2> QED
    BY <2>3 DEF Moves
<1>2. ASSUME Operate PROVE Moves
  <2>1. where = "value" /\ where' = "operand" /\ open' = open /\ mistake' = mistake
    BY <1>2 DEF Operate, Becomes
  <2>2. ASSUME NEW op \in {"=", "<", ">"}, Write(<<op>>), op = "<" => Ends({"x", ")"}) PROVE Moves
    <3> DEFINE S == <<op>>
    <3>1. S \in Seq(Letter) /\ Len(S) = 1 /\ S[1] = op
      BY Letters, One
    <3>2. Write(S) /\ code' = code \o S
      BY <2>2 DEF Write, WriteBoth
    <3> HIDE DEF S
    <3>3. S[1] = "<" => ~BeginsTag(code', Len(code) + 1)
      BY <2>2, <3>1, <3>2, NoTagAfterName
    <3> QED
      BY <1>1, <2>1, <3>1, <3>2, <3>3
  <2>3. ASSUME Write(<<"=", ">">>) PROVE Moves
    <3> DEFINE S == <<"=", ">">>
    <3>1. S \in Seq(Letter) /\ Len(S) = 2 /\ S[1] = "=" /\ S[2] = ">"
      BY Letters, Two
    <3>2. Write(S)
      BY <2>3
    <3> HIDE DEF S
    <3> QED
      BY <1>1, <2>1, <3>1, <3>2
  <2> QED
    BY <1>2, <2>2, <2>3 DEF Operate
<1>3. ASSUME Generic PROVE Moves
  <2>1. PICK type \in {"A", "string"} :
          /\ Write(<<"<", type, ">">>)
          /\ \/ where = "value" /\ Ends({"x"})
             \/ where = "operand" /\ type = "string"
    BY <1>3 DEF Generic
  <2>2. open' = open /\ mistake' = mistake /\ where' = where
    BY <1>3 DEF Generic, Becomes
  <2> DEFINE S == <<"<", type, ">">>
  <2>3. S \in Seq(Letter) /\ Len(S) = 3 /\ S[1] = "<" /\ S[2] = type /\ S[3] = ">"
    BY Letters, Three
  <2>4. Write(S) /\ code' = code \o S
    BY <2>1 DEF Write, WriteBoth
  <2> HIDE DEF S
  <2>5. ~BeginsTag(code', Len(code) + 1)
    <3>1. CASE Ends({"x"})
      <4>1. Ends({"x", ")"})
        BY <3>1 DEF Ends
      <4> QED
        BY <2>3, <2>4, <4>1, NoTagAfterName
    <3>2. CASE type = "string"
      <4>1. S[2] \in TypeName /\ Len(S) > 1
        BY <2>3, <3>2 DEF TypeName
      <4> QED
        BY <2>3, <2>4, <4>1, NoTagOf
    <3> QED
      BY <2>1, <3>1, <3>2
  <2>6. \A k \in 1 .. Len(S) : k \in {1, 2, 3}
    BY <2>3
  <2>7. where # "tag" /\ where' # "tag" /\ Len(S) > 0
    BY <2>1, <2>2, <2>3
  <2>8. \A k \in 1 .. Len(S) : S[k] \in {"=", "<", ">", "A", "string"} /\ (S[k] = "<" => k = 1)
    BY <2>3, <2>6
  <2> QED
    BY <1>1, <2>2, <2>3, <2>4, <2>5, <2>7, <2>8
<1> QED
  BY <1>2, <1>3

(* What an opening bracket does. *)
LEMMA OpenerMoves ==
  ASSUME Core, NEW a \in Opener, NEW after \in Places \ {"operand"}, after # "tag", where # "tag",
         Write(<<a>>), OpenOne(a, 1, after), Becomes("operand")
  PROVE  Moves
<1> DEFINE S == <<a>>
<1>1. a \in Letter /\ a \notin {"<", ">", "/"}
  BY Letters DEF Opener
<1>2. S \in Seq(Letter) /\ Len(S) = 1 /\ S[1] = a
  BY <1>1, One
<1>3. code' = code \o S /\ where' = "operand" /\ mistake' = mistake
      /\ open' = Append(open, [what |-> S[1], at |-> Len(code) + 1, after |-> after])
  BY <1>2, CoreTypes DEF Write, WriteBoth, Becomes, OpenOne
<1> HIDE DEF S
<1>4. \A k \in 1 .. Len(S) : (k # 1 => S[k] \notin Bracket) /\ S[k] \notin {"<", ">", "/"}
  BY <1>1, <1>2
<1>5. 1 \in 1 .. Len(S) /\ S[1] \in Opener /\ Len(S) > 0
  BY <1>2
<1>6. OpenMove(S, 1, after)
  BY <1>2, <1>3, <1>4, <1>5 DEF OpenMove, Adds
<1> QED
  BY <1>2, <1>5, <1>6 DEF Moves

(* What the steps that write brackets do. *)
LEMMA BracketMoves == Core /\ (Parenthesis \/ Block \/ Container \/ CloseBracket \/ WrongBracket) => Moves
<1> SUFFICES ASSUME Core, Parenthesis \/ Block \/ Container \/ CloseBracket \/ WrongBracket PROVE Moves
  OBVIOUS
<1>1. CASE Parenthesis
  BY <1>1, OpenerMoves DEF Parenthesis, Opener, Places
<1>2. CASE Block
  BY <1>2, OpenerMoves DEF Block, Opener, Places
<1>3. CASE Container
  BY <1>3, OpenerMoves DEF Container, Opener, Places
<1>4. CASE CloseBracket
  <2>1. Write(<<Closing(Top.what)>>) /\ Top.what \in Opener
    BY <1>4 DEF CloseBracket
  <2>2. Closing(Top.what) \in Letter
    BY <2>1, Letters DEF Closing
  <2>3. Adds(<<Closing(Top.what)>>)
    BY <2>1, <2>2, One DEF Adds, Write, WriteBoth
  <2>4. CloseMove
    BY <1>4, <2>3 DEF CloseMove, CloseBracket, Becomes
  <2> QED
    BY <2>4 DEF Moves
<1>5. CASE WrongBracket
  <2>1. PICK opener \in Opener : Misplaced(Opener, opener) /\ Write(<<Closing(opener)>>)
    BY <1>5 DEF WrongBracket
  <2>2. Closing(opener) \in Letter
    BY <2>1, Letters DEF Closing
  <2>3. Adds(<<Closing(opener)>>)
    BY <2>1, <2>2, One DEF Adds, Write, WriteBoth
  <2>4. WrongBracketMove(opener)
    BY <1>5, <2>1, <2>3 DEF WrongBracketMove, WrongBracket
  <2> QED
    BY <2>4 DEF Moves
<1> QED
  BY <1>1, <1>2, <1>3, <1>4, <1>5

(* A tag may begin where an operand may, and after text but a word. *)
LEMMA TagBegins ==
  ASSUME Core, where = "operand" \/ CodeEndsIn(code, {">", ".", "other", "rbrace"}), NEW name \in Element,
         code' = code \o <<"<", name>>
  PROVE  BeginsTag(code', Len(code) + 1)
<1> DEFINE n == Len(code)
           c == code'
           S == <<"<", name>>
           k == Before(code, n + 1)
<1>1. name \in Letter /\ name \in Word /\ name \notin TypeName
  BY ElementIs
<1>2. S \in Seq(Letter) /\ Len(S) = 2 /\ S[1] = "<" /\ S[2] = name
  BY <1>1, Letters, Two
<1>3. code \in Seq(Letter) /\ n \in Nat /\ c = code \o S
  BY CoreTypes
<1> HIDE DEF c, S
<1>4. /\ c \in Seq(Letter) /\ Len(c) = n + 2 /\ DOMAIN c = 1 .. n + 2
      /\ c[n + 1] = "<" /\ c[n + 1 + 1] = name /\ \A i \in 1 .. n : c[i] = code[i]
  <2>1. /\ code \o S \in Seq(Letter) /\ Len(code \o S) = n + Len(S)
        /\ \A i \in 1 .. n : (code \o S)[i] = code[i]
        /\ \A i \in 1 .. Len(S) : (code \o S)[n + i] = S[i]
    BY <1>2, <1>3, JoinIs
  <2>2. 1 \in 1 .. Len(S) /\ 2 \in 1 .. Len(S) /\ n + 2 = n + 1 + 1
    BY <1>2, <1>3
  <2> QED
    BY <1>2, <1>3, <2>1, <2>2, LenProperties
<1>5. TagName(c, n + 1 + 1) = name
  <2>1. n + 1 + 1 \in 1 .. n + 2
    BY <1>3
  <2> QED
    BY <1>1, <1>4, <2>1 DEF TagName, At
<1>6. k \in 0 .. n /\ Before(c, n + 1) = k
  <2>1. (n + 1) - 1 = n /\ n + 1 \in Nat /\ n + 1 > 0 /\ n + 1 <= n + 1
    BY <1>3
  <2>2. k \in 0 .. (n + 1) - 1
    BY <1>3, <2>1, BeforeIs
  <2>3. \A i \in 1 .. (n + 1) - 1 : code[i] = c[i]
    BY <1>4, <2>1
  <2>4. Before(code, n + 1) = Before(c, n + 1)
    BY <1>3, <1>4, <2>1, <2>3, BeforeAgrees
  <2> QED
    BY <2>1, <2>2, <2>4
<1>7. k # 0 => k \in 1 .. n /\ c[k] = code[k] /\ At(c, k) = At(code, k) /\ At(c, k - 1) = At(code, k - 1)
  <2>1. \A i \in 0 .. n : At(c, i) = At(code, i)
    BY <1>3, <1>4, LenProperties DEF At
  <2>2. k # 0 => k \in 1 .. n /\ k \in 0 .. n /\ k - 1 \in 0 .. n
    BY <1>3, <1>6
  <2> QED
    BY <1>4, <2>1, <2>2
<1>8. \/ k = 0
      \/ code[k] \in Operator \cup {"rbrace", "."} \/ IsKeywordAt(code, k)
      \/ code[k] \notin NameChar \cup {Quote, ")", Tick}
  <2>1. CASE where = "operand"
    <3>1. Ready(code)
      BY <2>1 DEF Core, Shape, EndsWell
    <3> QED
      BY <3>1 DEF Ready
  <2>2. CASE CodeEndsIn(code, {">", ".", "other", "rbrace"})
    <3>1. code[k] \in {">", ".", "other", "rbrace"}
      BY <2>2 DEF CodeEndsIn
    <3>2. ">" \in Operator /\ "other" \notin NameChar \cup {Quote, ")", Tick}
      BY DEF Operator, NameChar, Word, Quote, Tick
    <3> QED
      BY <3>1, <3>2
  <2> QED
    BY <2>1, <2>2
<1>9. JsxPosition(c, n + 1)
  BY <1>6, <1>7, <1>8 DEF JsxPosition, IsKeywordAt
<1> HIDE DEF k, n
<1>10. name # "none"
  BY DEF Element
<1>11. BeginsTag(c, n + 1)
  BY <1>1, <1>4, <1>5, <1>9, <1>10 DEF BeginsTag
<1> QED
  BY <1>11 DEF c, n

(* What the steps that write tags do. *)
LEMMA TagMoves == Core /\ (StartTag \/ EndTag \/ CloseTag \/ WrongTag) => Moves
<1> SUFFICES ASSUME Core, StartTag \/ EndTag \/ CloseTag \/ WrongTag PROVE Moves
  OBVIOUS
<1>1. CASE StartTag
  <2> DEFINE after == IF where = "children" THEN "children" ELSE "value"
  <2>1. PICK name \in Element : Write(<<"<", name>>) /\ OpenOne(name, 1, after)
    BY <1>1 DEF StartTag
  <2>2. /\ where \in {"operand", "children"} /\ where' = "tag" /\ mistake' = mistake
        /\ where = "children" => (CodeEnds({"x"}) => Uses("word<"))
    BY <1>1 DEF StartTag, Becomes
  <2>3. code' = code \o <<"<", name>>
    BY <2>1 DEF Write, WriteBoth
  <2>4. "word<" \notin dialect.forms => BeginsTag(code', Len(code) + 1)
    <3> SUFFICES ASSUME "word<" \notin dialect.forms PROVE BeginsTag(code', Len(code) + 1)
      OBVIOUS
    <3>1. ASSUME where = "children" PROVE CodeEndsIn(code, {">", ".", "other", "rbrace"})
      <4>1. ~CodeEndsIn(code, {"x"})
        BY <2>2, <3>1 DEF CodeEndsIn, CodeEnds, Uses
      <4>2. CodeEndsIn(code, {">", "x", ".", "other", "rbrace"})
        BY <3>1 DEF Core, Shape, EndsWell
      <4> QED
        BY <4>1, <4>2 DEF CodeEndsIn
    <3> QED
      BY <2>2, <2>3, <3>1, TagBegins
  <2>5. Adds(<<"<", name>>)
    <3>1. name \in Letter
      BY ElementIs
    <3>2. LET S == <<"<", name>> IN S \in Seq(Letter) /\ Len(S) = 2
      BY <3>1, Letters, Two
    <3> QED
      BY <2>3, <3>2 DEF Adds
  <2>6. open' = Append(open, [what |-> name, at |-> Len(code) + 1, after |-> after]) /\ after \in {"value", "children"}
    BY <2>1, CoreTypes DEF OpenOne
  <2> HIDE DEF after
  <2>7. StartMove(name, after)
    BY <2>2, <2>4, <2>5, <2>6 DEF StartMove
  <2> QED
    BY <2>6, <2>7 DEF Moves
<1>2. CASE EndTag
  <2>1. where = "tag" /\ mistake' = mistake /\ open # << >>
    BY <1>2, InsideTop DEF EndTag, Becomes, Inside
  <2>2. ASSUME Write(<<"/", ">">>), open' = Below, Becomes(Top.after) PROVE Moves
    <3>1. LET S == <<"/", ">">> IN S \in Seq(Letter) /\ Len(S) = 2
      BY Letters, Two
    <3>2. Adds(<<"/", ">">>)
      BY <2>2, <3>1 DEF Adds, Write, WriteBoth
    <3>3. SelfCloseMove
      BY <2>1, <2>2, <3>2 DEF SelfCloseMove, Becomes
    <3> QED
      BY <3>3 DEF Moves
  <2>3. ASSUME Write(<<">">>), open' = open, Becomes("children") PROVE Moves
    <3>1. Adds(<<">">>)
      BY <2>3, Letters, One DEF Adds, Write, WriteBoth
    <3>2. EndMove
      BY <2>1, <2>3, <3>1 DEF EndMove, Becomes
    <3> QED
      BY <3>2 DEF Moves
  <2> QED
    BY <1>2, <2>2, <2>3 DEF EndTag
<1>3. ASSUME NEW name \in Element, Write(<<"<", "/", name, ">">>) PROVE Adds(<<"<", "/", name, ">">>)
  <2>1. LET S == <<"<", "/", name, ">">> IN S \in Seq(Letter) /\ Len(S) = 4 /\ code' = code \o S
    BY <1>3, ClosingTagIs
  <2> QED
    BY <2>1 DEF Adds
<1>4. CASE CloseTag
  <2>1. where = "children" /\ open # << >> /\ Top.what \in Element
    BY <1>4, InsideTop DEF CloseTag, Inside
  <2>2. CloseTagMove
    BY <1>3, <1>4, <2>1 DEF CloseTagMove, CloseTag, Becomes
  <2> QED
    BY <2>2 DEF Moves
<1>5. CASE WrongTag
  <2>1. PICK name \in Element : Misplaced(Element, name) /\ Write(<<"<", "/", name, ">">>)
    BY <1>5 DEF WrongTag
  <2>2. WrongTagMove(name)
    <3>1. Adds(<<"<", "/", name, ">">>)
      BY <1>3, <2>1
    <3>2. /\ where = "children" \/ (where = "value" /\ Innermost(Element) = 0)
          /\ mistake' = [mistake EXCEPT !.tags = Blames(@, Element)]
      BY <1>5, Zenon DEF WrongTag
    <3>3. open' = open /\ where' = where
      BY <1>5 DEF WrongTag
    <3> QED
      BY <2>1, <3>1, <3>2, <3>3, Zenon DEF WrongTagMove
  <2> QED
    BY <2>2 DEF Moves
<1> QED
  BY <1>1, <1>2, <1>4, <1>5

(* What an attribute does. *)
LEMMA AttributeMoves == Core /\ Attribute => Moves
<1> SUFFICES ASSUME Core, Attribute PROVE Moves
  OBVIOUS
<1>1. where = "tag" /\ mistake' = mistake
  BY DEF Attribute, Becomes
<1>2. ASSUME Write(<<Blank, "x", "=", "lbrace">>), OpenOne("lbrace", 4, "tag"), Becomes("operand") PROVE Moves
  <2> DEFINE S == <<Blank, "x", "=", "lbrace">>
  <2>1. S \in Seq(Letter) /\ Len(S) = 4 /\ S[1] = Blank /\ S[2] = "x" /\ S[3] = "=" /\ S[4] = "lbrace"
    BY Letters, Four
  <2>2. code' = code \o S /\ where' = "operand"
        /\ open' = Append(open, [what |-> S[4], at |-> Len(code) + 4, after |-> "tag"])
    BY <1>2, <2>1, CoreTypes DEF Write, WriteBoth, Becomes, OpenOne
  <2> HIDE DEF S
  <2>3. \A k \in 1 .. Len(S) : (k # 4 => S[k] \notin Bracket) /\ S[k] \notin {"<", ">", "/"}
    <3>1. \A k \in 1 .. Len(S) : k \in {1, 2, 3, 4}
      BY <2>1
    <3> QED
      BY <2>1, <3>1, BracketIs DEF Blank
  <2>4. 4 \in 1 .. Len(S) /\ S[4] \in Opener /\ Len(S) > 0 /\ "tag" \in Places \ {"operand"}
    BY <2>1 DEF Opener, Places
  <2>5. OpenMove(S, 4, "tag")
    BY <1>1, <2>1, <2>2, <2>3, <2>4 DEF OpenMove, Adds
  <2> QED
    BY <2>1, <2>4, <2>5 DEF Moves
<1>3. ASSUME WriteBoth(<<Blank, "x", "=", Quote, ">", Quote>>, <<Blank, "x", "=", Blank, Blank, Blank>>),
             Becomes("tag"), open' = open
      PROVE  Moves
  <2> DEFINE S == <<Blank, "x", "=", Blank, Blank, Blank>>
  <2>1. /\ Len(S) = 6 /\ S[1] = Blank /\ S[2] = "x" /\ S[3] = "="
        /\ S[4] = Blank /\ S[5] = Blank /\ S[6] = Blank
    OBVIOUS
  <2>2. S \in Seq(Letter)
    BY Letters
  <2>3. code' = code \o S /\ where' = "tag"
    BY <1>3 DEF WriteBoth, Becomes
  <2> HIDE DEF S
  <2>4. \A k \in 1 .. Len(S) : S[k] \notin Bracket \cup {"/", "<", ">"}
    <3>1. \A k \in 1 .. Len(S) : k \in {1, 2, 3, 4, 5, 6}
      BY <2>1
    <3> QED
      BY <2>1, <3>1, BracketIs DEF Blank
  <2>5. Len(S) > 0 /\ (where' = "tag" <=> where = "tag")
    BY <1>1, <2>1, <2>3
  <2> QED
    BY <1>1, <1>3, <2>2, <2>3, <2>4, <2>5, QuietMoves
<1> QED
  BY <1>2, <1>3 DEF Attribute

(* Every step is one of the moves. *)
LEMMA EveryMove ==
  ASSUME Core, Next
  PROVE  Moves
BY WordMoves, StringMoves, CommentMoves, CompareMoves, BracketMoves, TagMoves, AttributeMoves DEF Next

-----------------------------------------------------------------------------
(* Brackets. *)
KeptOf(o, kinds) == {d \in 1 .. Len(o) : o[d].what \in kinds}
Entered(o, s) == [d \in 1 .. Len(o) |-> [what |-> o[d].what, line |-> Line(s, o[d].at)]]
BracketsFound ==
  Finds(Judged(code, BracketOpens(code), BracketCloses(code)), mistake.brackets, KeptOf(open, Opener), Entered(open, code))

(* What is kept when a frame is pushed. *)
LEMMA KeptPush ==
  ASSUME NEW o \in Seq(Frame), NEW f \in Frame, NEW kinds
  PROVE  /\ Len(o) \in Nat /\ Len(Append(o, f)) = Len(o) + 1 /\ Append(o, f)[Len(o) + 1] = f
         /\ \A d \in 1 .. Len(o) : Append(o, f)[d] = o[d]
         /\ KeptOf(Append(o, f), kinds) = KeptOf(o, kinds) \cup (IF f.what \in kinds THEN {Len(o) + 1} ELSE {})
         /\ \A d \in KeptOf(o, kinds) : d < Len(o) + 1
<1> DEFINE p == Append(o, f)
           z == Len(o)
<1>1. z \in Nat /\ Len(p) = z + 1 /\ p[z + 1] = f /\ \A d \in 1 .. z : p[d] = o[d]
  BY AppendProperties, LenProperties
<1> HIDE DEF p
<1>2. \A d \in 1 .. z + 1 : d = z + 1 \/ d \in 1 .. z
  BY <1>1
<1>3. z + 1 \in 1 .. z + 1 /\ \A d \in 1 .. z : d \in 1 .. z + 1 /\ d < z + 1
  BY <1>1
<1>4. KeptOf(p, kinds) = KeptOf(o, kinds) \cup (IF f.what \in kinds THEN {z + 1} ELSE {})
  BY <1>1, <1>2, <1>3 DEF KeptOf
<1>5. \A d \in KeptOf(o, kinds) : d < z + 1
  BY <1>3 DEF KeptOf
<1> QED
  BY <1>1, <1>4, <1>5 DEF p

(* What is kept when the top is popped. *)
LEMMA KeptPop ==
  ASSUME NEW o \in Seq(Frame), o # << >>, NEW kinds
  PROVE  LET p == SubSeq(o, 1, Len(o) - 1) IN
         /\ KeptOf(p, kinds) = KeptOf(o, kinds) \ {Len(o)}
         /\ \A d \in KeptOf(o, kinds) : d <= Len(o)
         /\ \A d \in KeptOf(o, kinds) \ {Len(o)} : d \in 1 .. Len(p) /\ p[d] = o[d]
<1> DEFINE p == SubSeq(o, 1, Len(o) - 1)
           z == Len(o)
<1>1. z \in Nat /\ z > 0 /\ Len(p) = z - 1 /\ \A d \in 1 .. z - 1 : p[d] = o[d]
  BY PopIs
<1> HIDE DEF p
<1>2. \A d \in 1 .. z : d # z <=> d \in 1 .. z - 1
  BY <1>1
<1>3. \A d \in 1 .. z - 1 : d \in 1 .. z /\ d # z
  BY <1>1
<1>4. KeptOf(p, kinds) = KeptOf(o, kinds) \ {z}
  BY <1>1, <1>2, <1>3 DEF KeptOf
<1>5. \A d \in KeptOf(o, kinds) : d <= z
  BY <1>1 DEF KeptOf
<1>6. \A d \in KeptOf(o, kinds) \ {z} : d \in 1 .. Len(p) /\ p[d] = o[d]
  BY <1>1, <1>2 DEF KeptOf
<1> QED
  BY <1>4, <1>5, <1>6 DEF p

(* The line of a frame does not depend on what is written after it. *)
LEMMA EnteredAgrees ==
  ASSUME NEW o \in Seq(Frame), NEW p, NEW s \in Seq(Letter), NEW S \in Seq(Letter),
         NEW d \in 1 .. Len(o), d \in 1 .. Len(p), p[d] = o[d], o[d].at <= Len(s)
  PROVE  Entered(p, s \o S)[d] = Entered(o, s)[d]
<1>1. o[d].at \in Nat /\ Len(s) \in Nat
  BY FramesAre, LenProperties
<1>2. \A i \in 1 .. Len(s) : (s \o S)[i] = s[i]
  BY JoinIs
<1>3. Line(s \o S, o[d].at) = Line(s, o[d].at)
  <2> DEFINE e == o[d].at
             t == s \o S
  <2>1. \A k \in 1 .. e : s[k] = Newline <=> t[k] = Newline
    <3>1. \A k \in 1 .. e : k \in 1 .. Len(s)
      BY <1>1
    <3> QED
      BY <1>2, <3>1
  <2>2. e \in Nat
    BY <1>1
  <2> HIDE DEF e, t
  <2>3. Line(s, e) = Line(t, e)
    BY <2>1, <2>2, LineAgrees
  <2> QED
    BY <2>3 DEF e, t
<1>4. Entered(p, s \o S)[d] = [what |-> p[d].what, line |-> Line(s \o S, p[d].at)]
  BY DEF Entered
<1>5. Entered(o, s)[d] = [what |-> o[d].what, line |-> Line(s, o[d].at)]
  BY DEF Entered
<1> QED
  BY <1>3, <1>4, <1>5

(* What a letter opens and closes for braceBalance. *)
LEMMA BracketsAre ==
  ASSUME NEW s \in Seq(Letter), NEW i \in 1 .. Len(s)
  PROVE  /\ BracketOpens(s)[i] = IF s[i] \in Opener THEN s[i] ELSE "none"
         /\ BracketCloses(s)[i] = IF s[i] = ")" THEN "(" ELSE IF s[i] = "rbrace" THEN "lbrace" ELSE "none"
         /\ BracketOpens(s)[i] \in Letter \cup {"none"}
<1>1. i \in DOMAIN s /\ s[i] \in Letter
  BY TextIs
<1> QED
  BY <1>1 DEF BracketOpens, BracketCloses

(* What was judged of the brackets stays judged. *)
LEMMA BracketsResume ==
  ASSUME NEW s \in Seq(Letter), NEW S \in Seq(Letter)
  PROVE  LET t == s \o S IN
         /\ t \in Seq(Letter) /\ Len(t) = Len(s) + Len(S) /\ Len(s) \in Nat /\ Len(S) \in Nat
         /\ Resumes(s, BracketOpens(s), BracketCloses(s), t, BracketOpens(t), BracketCloses(t))
         /\ Judged(s, BracketOpens(s), BracketCloses(s)) \in Standing
<1> DEFINE t == s \o S
<1>1. /\ t \in Seq(Letter) /\ Len(t) = Len(s) + Len(S)
      /\ \A i \in 1 .. Len(s) : t[i] = s[i]
  BY JoinIs
<1>2. Len(s) \in Nat /\ Len(S) \in Nat
  BY LenProperties
<1> HIDE DEF t
<1>3. \A i \in 1 .. Len(s) : i \in 1 .. Len(t)
  BY <1>1, <1>2
<1>4. \A i \in 1 .. Len(s) : BracketOpens(s)[i] = BracketOpens(t)[i] /\ BracketCloses(s)[i] = BracketCloses(t)[i]
  BY <1>1, <1>3, BracketsAre
<1>5. Kinds(Len(t), BracketOpens(t))
  BY <1>1, BracketsAre DEF Kinds
<1>6. Len(s) <= Len(t)
  BY <1>1, <1>2
<1>7. Resumes(s, BracketOpens(s), BracketCloses(s), t, BracketOpens(t), BracketCloses(t))
  BY <1>1, <1>4, <1>5, <1>6 DEF Resumes
<1>8. Judged(s, BracketOpens(s), BracketCloses(s)) \in Standing
  BY <1>7, JudgedBefore
<1> QED
  BY <1>1, <1>2, <1>7, <1>8 DEF t

(* A token without brackets. *)
LEMMA NoBracket ==
  ASSUME NEW s \in Seq(Letter), NEW S \in Seq(Letter), \A k \in 1 .. Len(S) : S[k] \notin Bracket
  PROVE  Judged(s \o S, BracketOpens(s \o S), BracketCloses(s \o S)) = Judged(s, BracketOpens(s), BracketCloses(s))
<1> DEFINE t == s \o S
           n == Len(s)
<1>1. /\ t \in Seq(Letter) /\ Len(t) = n + Len(S) /\ n \in Nat /\ Len(S) \in Nat
      /\ Resumes(s, BracketOpens(s), BracketCloses(s), t, BracketOpens(t), BracketCloses(t))
  BY BracketsResume
<1>2. \A k \in 1 .. Len(S) : t[n + k] = S[k]
  BY JoinIs
<1> HIDE DEF t
<1>3. ASSUME NEW i \in n + 1 .. Len(t) PROVE BracketOpens(t)[i] = "none" /\ BracketCloses(t)[i] = "none"
  <2>1. i - n \in 1 .. Len(S) /\ n + (i - n) = i /\ i \in 1 .. Len(t)
    BY <1>1
  <2>2. t[i] \notin Bracket
    BY <1>2, <2>1
  <2>3. t[i] \notin Opener /\ t[i] # ")" /\ t[i] # "rbrace"
    BY <2>2 DEF Bracket
  <2> QED
    BY <1>1, <2>1, <2>3, BracketsAre
<1>4. Judged(t, BracketOpens(t), BracketCloses(t)) = Judged(s, BracketOpens(s), BracketCloses(s))
  BY <1>1, <1>3, NoMark
<1> QED
  BY <1>4 DEF t

(* A token with one bracket. *)
LEMMA OneBracket ==
  ASSUME NEW s \in Seq(Letter), NEW S \in Seq(Letter), NEW p \in 1 .. Len(S),
         \A k \in 1 .. Len(S) : k # p => S[k] \notin Bracket
  PROVE  Judged(s \o S, BracketOpens(s \o S), BracketCloses(s \o S)) =
           Judge(Judged(s, BracketOpens(s), BracketCloses(s)),
                 IF S[p] \in Opener THEN S[p] ELSE "none",
                 IF S[p] = ")" THEN "(" ELSE IF S[p] = "rbrace" THEN "lbrace" ELSE "none",
                 Line(s \o S, Len(s) + p))
<1> DEFINE t == s \o S
           n == Len(s)
<1>1. /\ t \in Seq(Letter) /\ Len(t) = n + Len(S) /\ n \in Nat /\ Len(S) \in Nat
      /\ Resumes(s, BracketOpens(s), BracketCloses(s), t, BracketOpens(t), BracketCloses(t))
  BY BracketsResume
<1>2. \A k \in 1 .. Len(S) : t[n + k] = S[k]
  BY JoinIs
<1> HIDE DEF t
<1>3. ASSUME NEW i \in n + 1 .. Len(t), i # n + p PROVE BracketOpens(t)[i] = "none" /\ BracketCloses(t)[i] = "none"
  <2>1. i - n \in 1 .. Len(S) /\ n + (i - n) = i /\ i \in 1 .. Len(t) /\ i - n # p
    BY <1>1, <1>3
  <2>2. t[i] \notin Bracket
    BY <1>2, <2>1
  <2>3. t[i] \notin Opener /\ t[i] # ")" /\ t[i] # "rbrace"
    BY <2>2 DEF Bracket
  <2> QED
    BY <1>1, <2>1, <2>3, BracketsAre
<1>4. n + p \in n + 1 .. Len(t) /\ n + p \in 1 .. Len(t) /\ t[n + p] = S[p]
  BY <1>1, <1>2
<1>5. Judged(t, BracketOpens(t), BracketCloses(t)) =
        Judge(Judged(s, BracketOpens(s), BracketCloses(s)), BracketOpens(t)[n + p], BracketCloses(t)[n + p], Line(t, n + p))
  <2> DEFINE q == n + p
  <2>1. q \in n + 1 .. Len(t) /\ \A i \in n + 1 .. Len(t) : i # q => BracketOpens(t)[i] = "none" /\ BracketCloses(t)[i] = "none"
    BY <1>3, <1>4
  <2> HIDE DEF q
  <2>2. Judged(t, BracketOpens(t), BracketCloses(t)) =
        Judge(Judged(s, BracketOpens(s), BracketCloses(s)), BracketOpens(t)[q], BracketCloses(t)[q], Line(t, q))
    BY <1>1, <2>1, OneMark
  <2> QED
    BY <2>2 DEF q
<1>6. /\ BracketOpens(t)[n + p] = IF S[p] \in Opener THEN S[p] ELSE "none"
      /\ BracketCloses(t)[n + p] = IF S[p] = ")" THEN "(" ELSE IF S[p] = "rbrace" THEN "lbrace" ELSE "none"
  BY <1>1, <1>4, BracketsAre
<1>7. Judged(t, BracketOpens(t), BracketCloses(t)) =
           Judge(Judged(s, BracketOpens(s), BracketCloses(s)),
                 IF S[p] \in Opener THEN S[p] ELSE "none",
                 IF S[p] = ")" THEN "(" ELSE IF S[p] = "rbrace" THEN "lbrace" ELSE "none",
                 Line(t, n + p))
  BY <1>5, <1>6, Zenon
<1> QED
  BY <1>7 DEF t

(* The letters of the code after a step. *)
LEMMA AddsIs ==
  ASSUME Core, NEW S, Adds(S)
  PROVE  /\ S \in Seq(Letter) /\ Len(S) \in Nat /\ Len(S) > 0 /\ Len(code) \in Nat
         /\ code \in Seq(Letter) /\ code' = code \o S /\ code' \in Seq(Letter) /\ Len(code') = Len(code) + Len(S)
         /\ \A i \in 1 .. Len(code) : code'[i] = code[i]
         /\ \A k \in 1 .. Len(S) : code'[Len(code) + k] = S[k]
<1>1. S \in Seq(Letter) /\ Len(S) > 0 /\ code' = code \o S /\ code \in Seq(Letter)
  BY CoreTypes DEF Adds
<1> QED
  BY <1>1, JoinIs, LenProperties

(* A frame began at a letter of the code. *)
LEMMA FramesPlaced ==
  ASSUME Core, NEW d \in 1 .. Len(open)
  PROVE  open[d].at \in Nat /\ open[d].at > 0 /\ open[d].at <= Len(code)
<1>1. open[d].at <= Len(text)
  BY DEF Core, Shape, Nested
<1> QED
  BY <1>1, CoreTypes, FramesAre

(* The line of a mistake is that of the letter that makes it. *)
LEMMA HereIs ==
  ASSUME Core, NEW S, Adds(S), S[1] # Newline
  PROVE  Line(code', Len(code) + 1) = Here
<1> DEFINE n == Len(code)
           c == code'
<1>1. /\ n \in Nat /\ n = Len(text) /\ \A i \in 1 .. n : c[i] = code[i]
      /\ c[n + 1] # Newline
  BY AddsIs, CoreTypes
<1>2. \A i \in 1 .. n : code[i] = Newline <=> text[i] = Newline
  BY <1>1 DEF Core, Shape, Seen
<1> HIDE DEF c
<1>3. {k \in 1 .. n + 1 : c[k] = Newline} = {k \in 1 .. n : text[k] = Newline}
  <2>1. \A k \in 1 .. n + 1 : k # n + 1 => k \in 1 .. n
    BY <1>1
  <2>2. \A k \in 1 .. n : k \in 1 .. n + 1
    BY <1>1
  <2> HIDE DEF n
  <2> QED
    BY <1>1, <1>2, <2>1, <2>2
<1>4. Line(c, n + 1) = Line(text, n)
  BY <1>3 DEF Line
<1> QED
  BY <1>1, <1>4 DEF Here, c

(* The innermost of what is kept is the greatest depth. *)
LEMMA InnermostIs ==
  ASSUME Core, NEW kinds
  PROVE  LET kept == KeptOf(open, kinds) IN
         /\ Innermost(kinds) = 0 <=> kept = {}
         /\ kept # {} => Innermost(kinds) \in kept /\ \A d \in kept : d <= Innermost(kinds)
<1> DEFINE kept == KeptOf(open, kinds)
           T == kept \cup {0}
           z == Len(open)
<1>1. open \in Seq(Frame) /\ z \in Nat /\ DOMAIN open = 1 .. z
  BY CoreTypes, LenProperties
<1>2. Innermost(kinds) = Max(T)
  BY <1>1 DEF Innermost, KeptOf
<1>3. kept \in SUBSET (1 .. z)
  BY DEF KeptOf
<1> HIDE DEF kept, z
<1>4. T \in SUBSET (0 .. z) /\ T # {}
  <2>1. \A d \in 1 .. z : d \in 0 .. z
    BY <1>1
  <2>2. 0 \in 0 .. z
    BY <1>1
  <2> QED
    BY <1>3, <2>1, <2>2
<1> DEFINE U == T
<1>5. Max(T) \in T /\ \A j \in T : j <= Max(T)
  <2> HIDE DEF T
  <2> QED
    BY <1>1, <1>4, MaxIs
<1>6. \A d \in kept : d \in Nat /\ d > 0
  BY <1>1, <1>3
<1>7. kept = {} => Max(T) = 0
  BY <1>5
<1>8. kept # {} => Max(T) # 0
  BY <1>5, <1>6
<1>9. kept # {} => Max(T) \in kept /\ \A d \in kept : d <= Max(T)
  BY <1>5, <1>8
<1> QED
  BY <1>2, <1>7, <1>8, <1>9 DEF kept

(* What stays open is entered as before. *)
LEMMA StillEntered ==
  ASSUME Core, NEW S, Adds(S), NEW p, NEW d \in 1 .. Len(open), d \in 1 .. Len(p), p[d] = open[d]
  PROVE  Entered(p, code')[d] = Entered(open, code)[d]
<1>1. open \in Seq(Frame) /\ code \in Seq(Letter) /\ S \in Seq(Letter) /\ code' = code \o S
  BY AddsIs, CoreTypes
<1>2. open[d].at <= Len(code)
  BY FramesPlaced
<1>3. Entered(p, code \o S)[d] = Entered(open, code)[d]
  BY <1>1, <1>2, EnteredAgrees
<1> QED
  BY <1>1, <1>3

(* Where the scanner for brackets stands after s. *)
Brackets(s) == Judged(s, BracketOpens(s), BracketCloses(s))

(* What is open stays open, and no bracket is written. *)
LEMMA BracketsStay ==
  ASSUME Core, BracketsFound, NEW S, Adds(S), \A k \in 1 .. Len(S) : S[k] \notin Bracket,
         mistake'.brackets = mistake.brackets,
         KeptOf(open', Opener) = KeptOf(open, Opener),
         \A d \in KeptOf(open, Opener) : d \in 1 .. Len(open') /\ open'[d] = open[d]
  PROVE  BracketsFound'
<1> DEFINE kept == KeptOf(open, Opener)
<1>1. S \in Seq(Letter) /\ code \in Seq(Letter) /\ code' = code \o S
  BY AddsIs
<1>2. Brackets(code \o S) = Brackets(code)
  BY <1>1, NoBracket DEF Brackets
<1>3. ASSUME NEW d \in kept PROVE Entered(open', code')[d] = Entered(open, code)[d]
  <2>1. d \in 1 .. Len(open) /\ d \in 1 .. Len(open') /\ open'[d] = open[d]
    BY DEF KeptOf
  <2> QED
    BY <2>1, StillEntered
<1>4. Finds(Brackets(code), mistake.brackets, kept, Entered(open, code))
  BY DEF BracketsFound, Brackets
<1> HIDE DEF kept
<1>5. Finds(Brackets(code), mistake.brackets, kept, Entered(open', code'))
  BY <1>3, <1>4, FindsSame
<1>6. Finds(Brackets(code'), mistake'.brackets, kept, Entered(open', code'))
  BY <1>1, <1>2, <1>5
<1>7. kept = KeptOf(open', Opener)
  BY DEF kept
<1> QED
  BY <1>6, <1>7 DEF BracketsFound, Brackets

(* An opening bracket is found. *)
LEMMA OpenBrackets ==
  ASSUME Core, BracketsFound, NEW S, NEW p, NEW after, OpenMove(S, p, after)
  PROVE  BracketsFound'
<1> DEFINE kept == KeptOf(open, Opener)
           z == Len(open)
           f == [what |-> S[p], at |-> Len(code) + p, after |-> after]
           line == Line(code', Len(code) + p)
           other == Entered(open', code')
<1>1. /\ Adds(S) /\ mistake' = mistake /\ p \in 1 .. Len(S) /\ S[p] \in Opener /\ after \in Places \ {"operand"}
      /\ open' = Append(open, f) /\ \A k \in 1 .. Len(S) : k # p => S[k] \notin Bracket
  BY DEF OpenMove
<1>2. S \in Seq(Letter) /\ code \in Seq(Letter) /\ code' = code \o S /\ Len(code) \in Nat /\ Len(S) \in Nat
  BY <1>1, AddsIs
<1>3. open \in Seq(Frame) /\ z \in Nat
  BY CoreTypes, LenProperties
<1>4. f \in Frame /\ f.what = S[p] /\ f.at = Len(code) + p
  <2>1. Len(code) + p \in Nat \ {0}
    BY <1>1, <1>2
  <2> QED
    BY <1>1, <2>1 DEF Frame
<1> HIDE DEF f
<1>5. /\ Len(open') = z + 1 /\ open'[z + 1] = f /\ \A d \in 1 .. z : open'[d] = open[d]
      /\ KeptOf(open', Opener) = kept \cup {z + 1} /\ \A d \in kept : d < z + 1
  <2>1. f.what \in Opener
    BY <1>1, <1>4
  <2> QED
    BY <1>1, <1>3, <1>4, <2>1, KeptPush
<1>6. ASSUME NEW d \in kept PROVE other[d] = Entered(open, code)[d]
  <2>1. d \in 1 .. Len(open) /\ d \in 1 .. Len(open') /\ open'[d] = open[d]
    BY <1>3, <1>5 DEF KeptOf
  <2> QED
    BY <1>1, <2>1, StillEntered
<1>7. other[z + 1] = [what |-> S[p], line |-> line]
  <2>1. z + 1 \in 1 .. Len(open')
    BY <1>3, <1>5
  <2>2. other[z + 1] = [what |-> open'[z + 1].what, line |-> Line(code', open'[z + 1].at)]
    BY <2>1 DEF Entered
  <2> QED
    BY <1>4, <1>5, <2>2
<1>8. Brackets(code') = Judge(Brackets(code), S[p], IF S[p] = ")" THEN "(" ELSE IF S[p] = "rbrace" THEN "lbrace" ELSE "none", line)
  <2>1. Brackets(code \o S) =
           Judge(Brackets(code), IF S[p] \in Opener THEN S[p] ELSE "none",
                 IF S[p] = ")" THEN "(" ELSE IF S[p] = "rbrace" THEN "lbrace" ELSE "none",
                 Line(code \o S, Len(code) + p))
    BY <1>1, <1>2, OneBracket DEF Brackets
  <2> QED
    BY <1>1, <1>2, <2>1
<1>9. Brackets(code) \in Standing
  BY <1>2, BracketsResume DEF Brackets
<1>10. Finds(Brackets(code), mistake.brackets, kept, Entered(open, code))
  BY DEF BracketsFound, Brackets
<1>11. kept \in SUBSET Nat /\ z + 1 \in Nat /\ S[p] \in Letter /\ line \in Nat
  <2>1. kept \in SUBSET Nat
    BY DEF KeptOf
  <2>2. S[p] \in Letter
    BY <1>1, <1>2, TextIs
  <2>3. line \in Nat
    <3>1. Len(code) + p \in Nat
      BY <1>1, <1>2
    <3> QED
      BY <3>1, LineIs
  <2> QED
    BY <1>3, <2>1, <2>2, <2>3
<1> HIDE DEF kept, other, line
<1> DEFINE y == z + 1
           entry == Entered(open, code)
           closes == IF S[p] = ")" THEN "(" ELSE IF S[p] = "rbrace" THEN "lbrace" ELSE "none"
           opens == S[p]
<1>12. Finds(Judge(Brackets(code), opens, closes, line), mistake.brackets, kept \cup {y}, other)
  <2>1. y \in Nat /\ opens \in Letter /\ \A d \in kept : d < y /\ other[d] = entry[d]
    BY <1>5, <1>6, <1>11
  <2>2. other[y] = [what |-> opens, line |-> line]
    BY <1>7
  <2>3. Finds(Brackets(code), mistake.brackets, kept, entry)
    BY <1>10
  <2> HIDE DEF y, entry, closes, opens
  <2> QED
    BY <1>9, <1>11, <2>1, <2>2, <2>3, FindsPush
<1>13. Finds(Brackets(code'), mistake'.brackets, KeptOf(open', Opener), other)
  BY <1>1, <1>5, <1>8, <1>12
<1> QED
  BY <1>13 DEF BracketsFound, Brackets, other

(* Its closing bracket is found. *)
LEMMA CloseBrackets ==
  ASSUME Core, BracketsFound, CloseMove
  PROVE  BracketsFound'
<1> DEFINE kept == KeptOf(open, Opener)
           z == Len(open)
           S == <<Closing(Top.what)>>
           line == Line(code', Len(code) + 1)
           other == Entered(open', code')
           entry == Entered(open, code)
<1>1. /\ Adds(S) /\ mistake' = mistake /\ open # << >> /\ Top.what \in Opener /\ open' = SubSeq(open, 1, z - 1)
  BY DEF CloseMove, Below
<1>2. S \in Seq(Letter) /\ code \in Seq(Letter) /\ code' = code \o S /\ Len(code) \in Nat /\ Len(S) = 1
      /\ S[1] = Closing(Top.what)
  BY <1>1, AddsIs
<1>3. open \in Seq(Frame) /\ z \in Nat /\ z > 0
  BY <1>1, CoreTypes, PopIs
<1> DEFINE closes == Top.what
<1>4. /\ S[1] \notin Opener /\ closes # "none" /\ closes \in Letter
      /\ closes = IF S[1] = ")" THEN "(" ELSE IF S[1] = "rbrace" THEN "lbrace" ELSE "none"
  BY <1>1, <1>2, Letters DEF Closing, Opener
<1> HIDE DEF S
<1>5. /\ KeptOf(open', Opener) = kept \ {z}
      /\ \A d \in kept : d <= z
      /\ \A d \in kept \ {z} : d \in 1 .. Len(open') /\ open'[d] = open[d]
  BY <1>1, <1>3, KeptPop
<1>6. z \in kept
  BY <1>1, <1>3 DEF KeptOf, Top
<1>7. ASSUME NEW d \in kept \ {z} PROVE other[d] = entry[d]
  <2>1. d \in 1 .. Len(open) /\ d \in 1 .. Len(open') /\ open'[d] = open[d]
    BY <1>5 DEF KeptOf
  <2> QED
    BY <1>1, <2>1, StillEntered
<1>8. entry[z].what = closes
  <2>1. z \in 1 .. Len(open)
    BY <1>3
  <2> QED
    BY <2>1 DEF Entered, Top
<1>9. Brackets(code') = Judge(Brackets(code), "none", closes, line)
  <2>1. 1 \in 1 .. Len(S) /\ \A k \in 1 .. Len(S) : k # 1 => S[k] \notin Bracket
    BY <1>2
  <2>2. Brackets(code \o S) =
           Judge(Brackets(code), IF S[1] \in Opener THEN S[1] ELSE "none",
                 IF S[1] = ")" THEN "(" ELSE IF S[1] = "rbrace" THEN "lbrace" ELSE "none",
                 Line(code \o S, Len(code) + 1))
    BY <1>2, <2>1, OneBracket DEF Brackets
  <2> QED
    BY <1>2, <1>4, <2>2
<1>10. Brackets(code) \in Standing
  BY <1>2, BracketsResume DEF Brackets
<1>11. Finds(Brackets(code), mistake.brackets, kept, entry)
  BY DEF BracketsFound, Brackets
<1>12. kept \in SUBSET Nat
  BY DEF KeptOf
<1> HIDE DEF kept, other, line, entry, closes
<1>13. Finds(Judge(Brackets(code), "none", closes, line), mistake.brackets, kept \ {z}, other)
  BY <1>4, <1>5, <1>6, <1>7, <1>8, <1>10, <1>11, <1>12, FindsPop
<1>14. Finds(Brackets(code'), mistake'.brackets, KeptOf(open', Opener), other)
  BY <1>1, <1>5, <1>9, <1>13
<1> QED
  BY <1>14 DEF BracketsFound, Brackets, other

(* A wrong bracket is found, at its line. *)
LEMMA WrongBrackets ==
  ASSUME Core, BracketsFound, NEW opener, WrongBracketMove(opener)
  PROVE  BracketsFound'
<1> DEFINE kept == KeptOf(open, Opener)
           S == <<Closing(opener)>>
           line == Line(code', Len(code) + 1)
           entry == Entered(open, code)
           other == Entered(open', code')
<1>1. /\ Adds(S) /\ open' = open /\ opener \in Opener /\ Misplaced(Opener, opener)
      /\ mistake' = [mistake EXCEPT !.brackets = Blames(@, Opener)]
  BY DEF WrongBracketMove
<1>2. S \in Seq(Letter) /\ code \in Seq(Letter) /\ code' = code \o S /\ Len(code) \in Nat /\ Len(S) = 1
      /\ S[1] = Closing(opener)
  BY <1>1, AddsIs
<1>3. /\ S[1] \notin Opener /\ S[1] # Newline /\ opener # "none" /\ opener \in Letter
      /\ opener = IF S[1] = ")" THEN "(" ELSE IF S[1] = "rbrace" THEN "lbrace" ELSE "none"
  BY <1>1, <1>2, Letters DEF Closing, Opener, Newline
<1> HIDE DEF S
<1>4. line = Here
  BY <1>1, <1>3, HereIs
<1>5. Brackets(code') = Judge(Brackets(code), "none", opener, line)
  <2>1. 1 \in 1 .. Len(S) /\ \A k \in 1 .. Len(S) : k # 1 => S[k] \notin Bracket
    BY <1>2
  <2>2. Brackets(code \o S) =
           Judge(Brackets(code), IF S[1] \in Opener THEN S[1] ELSE "none",
                 IF S[1] = ")" THEN "(" ELSE IF S[1] = "rbrace" THEN "lbrace" ELSE "none",
                 Line(code \o S, Len(code) + 1))
    BY <1>2, <2>1, OneBracket DEF Brackets
  <2> QED
    BY <1>2, <1>3, <2>2
<1>6. /\ Innermost(Opener) = 0 <=> kept = {}
      /\ kept # {} => Innermost(Opener) \in kept /\ \A d \in kept : d <= Innermost(Opener)
  BY InnermostIs
<1>7. kept # {} => \E z \in kept : (\A d \in kept : d <= z) /\ entry[z].what # opener
  <2> SUFFICES ASSUME kept # {} PROVE \E z \in kept : (\A d \in kept : d <= z) /\ entry[z].what # opener
    OBVIOUS
  <2> DEFINE z == Innermost(Opener)
  <2>1. z \in kept /\ (\A d \in kept : d <= z) /\ z # 0
    BY <1>6
  <2>2. open[z].what # opener
    BY <1>1, <2>1 DEF Misplaced
  <2>3. entry[z].what = open[z].what
    BY <2>1 DEF Entered, KeptOf
  <2> HIDE DEF z
  <2> QED
    BY <2>1, <2>2, <2>3
<1>8. Brackets(code) \in Standing
  BY <1>2, BracketsResume DEF Brackets
<1>9. Finds(Brackets(code), mistake.brackets, kept, entry)
  BY DEF BracketsFound, Brackets
<1>10. kept \in SUBSET Nat
  BY DEF KeptOf
<1> DEFINE first == IF mistake.brackets # Fine THEN mistake.brackets
               ELSE [error |-> IF kept = {} THEN "unexpected" ELSE "mismatched", line |-> line]
<1>11. mistake'.brackets = first
  <2>1. mistake \in [brackets : Faults, tags : Faults]
    BY CoreTypes
  <2>2. mistake'.brackets = Blames(mistake.brackets, Opener)
    BY <1>1, <2>1
  <2> HIDE DEF kept
  <2> QED
    BY <1>4, <1>6, <2>2 DEF Blames
<1>12. \A d \in kept : other[d] = entry[d]
  <2>1. ASSUME NEW d \in kept PROVE other[d] = entry[d]
    <3>1. d \in 1 .. Len(open) /\ d \in 1 .. Len(open') /\ open'[d] = open[d]
      BY <1>1 DEF KeptOf
    <3> QED
      BY <1>1, <3>1, StillEntered
  <2> QED
    BY <2>1
<1> HIDE DEF kept, entry, line, other
<1>13. Finds(Judge(Brackets(code), "none", opener, line), first, kept, entry)
  BY <1>3, <1>7, <1>8, <1>9, <1>10, FindsFault
<1> HIDE DEF first
<1>14. Finds(Judge(Brackets(code), "none", opener, line), first, kept, other)
  BY <1>12, <1>13, FindsSame
<1>15. Finds(Brackets(code'), mistake'.brackets, KeptOf(open', Opener), other)
  BY <1>1, <1>5, <1>11, <1>14 DEF kept
<1> QED
  BY <1>15 DEF BracketsFound, Brackets, other

(* No tag has a bracket of its own. *)
LEMMA TagLetters ==
  ASSUME NEW name \in Element, NEW S \in {<<"<", name>>, <<"/", ">">>, <<"<", "/", name, ">">>, <<">">>}
  PROVE  \A k \in 1 .. Len(S) : S[k] \notin Bracket
<1>1. name \in Letter /\ name \notin Bracket
  BY ElementIs, BracketIs DEF Element
<1>2. ASSUME S = <<"<", name>> PROVE \A k \in 1 .. Len(S) : S[k] \notin Bracket
  <2>1. Len(S) = 2 /\ S[1] = "<" /\ S[2] = name
    BY <1>1, <1>2, Letters, Two
  <2>2. \A k \in 1 .. Len(S) : k \in {1, 2}
    BY <2>1
  <2> QED
    BY <1>1, <2>1, <2>2, BracketIs
<1>3. ASSUME S = <<"/", ">">> PROVE \A k \in 1 .. Len(S) : S[k] \notin Bracket
  <2>1. Len(S) = 2 /\ S[1] = "/" /\ S[2] = ">"
    BY <1>3, Letters, Two
  <2>2. \A k \in 1 .. Len(S) : k \in {1, 2}
    BY <2>1
  <2> QED
    BY <2>1, <2>2, BracketIs
<1>4. ASSUME S = <<"<", "/", name, ">">> PROVE \A k \in 1 .. Len(S) : S[k] \notin Bracket
  <2>1. Len(S) = 4 /\ S[1] = "<" /\ S[2] = "/" /\ S[3] = name /\ S[4] = ">"
    BY <1>1, <1>4, Letters, Four
  <2>2. \A k \in 1 .. Len(S) : k \in {1, 2, 3, 4}
    BY <2>1
  <2> QED
    BY <1>1, <2>1, <2>2, BracketIs
<1>5. ASSUME S = <<">">> PROVE \A k \in 1 .. Len(S) : S[k] \notin Bracket
  <2>1. Len(S) = 1 /\ S[1] = ">"
    BY <1>5, Letters, One
  <2>2. \A k \in 1 .. Len(S) : k = 1
    BY <2>1
  <2> QED
    BY <2>1, <2>2, BracketIs
<1> QED
  BY <1>2, <1>3, <1>4, <1>5

(* The mistakes of tags and those of brackets are apart. *)
LEMMA MistakeIs ==
  ASSUME Core, NEW first
  PROVE  /\ [mistake EXCEPT !.tags = first].brackets = mistake.brackets
         /\ [mistake EXCEPT !.tags = first].tags = first
BY CoreTypes

(* Every move keeps what braceBalance finds. *)
LEMMA BracketsStep ==
  ASSUME Core, BracketsFound, Moves
  PROVE  BracketsFound'
<1>1. ASSUME NEW S, PlainMove(S) PROVE BracketsFound'
  BY <1>1, BracketsStay DEF PlainMove, KeptOf
<1>2. ASSUME EndMove PROVE BracketsFound'
  <2>1. \A k \in 1 .. Len(<<">">>) : <<">">>[k] \notin Bracket
    BY TagLetters DEF Element
  <2> QED
    BY <1>2, <2>1, BracketsStay DEF EndMove, KeptOf
<1>3. ASSUME NEW name \in Element, NEW after \in {"value", "children"}, StartMove(name, after) PROVE BracketsFound'
  <2> DEFINE S == <<"<", name>>
             f == [what |-> name, at |-> Len(code) + 1, after |-> after]
             z == Len(open)
  <2>1. Adds(S) /\ mistake' = mistake /\ open' = Append(open, f)
    BY <1>3 DEF StartMove
  <2>2. \A k \in 1 .. Len(S) : S[k] \notin Bracket
    BY TagLetters
  <2>3. Len(code) + 1 \in Nat \ {0}
    BY <2>1, AddsIs
  <2>4. f \in Frame /\ f.what \notin Opener
    BY <2>3, ElementIs DEF Frame, Places
  <2> HIDE DEF f, S
  <2>5. open \in Seq(Frame)
    BY CoreTypes
  <2>6. /\ KeptOf(open', Opener) = KeptOf(open, Opener)
        /\ Len(open') = z + 1 /\ z \in Nat /\ \A d \in 1 .. z : open'[d] = open[d]
    <3>1. /\ z \in Nat /\ Len(open') = z + 1 /\ \A d \in 1 .. z : open'[d] = open[d]
          /\ KeptOf(open', Opener) = KeptOf(open, Opener) \cup (IF f.what \in Opener THEN {z + 1} ELSE {})
      BY <2>1, <2>4, <2>5, KeptPush
    <3> QED
      BY <2>4, <3>1
  <2>7. \A d \in KeptOf(open, Opener) : d \in 1 .. Len(open') /\ open'[d] = open[d]
    BY <2>6 DEF KeptOf
  <2> QED
    BY <2>1, <2>2, <2>6, <2>7, BracketsStay
<1>4. ASSUME open # << >>, Top.what \in Element, open' = Below
      PROVE  /\ KeptOf(open', Opener) = KeptOf(open, Opener)
             /\ \A d \in KeptOf(open, Opener) : d \in 1 .. Len(open') /\ open'[d] = open[d]
  <2>1. open \in Seq(Frame)
    BY CoreTypes
  <2>2. Len(open) \notin KeptOf(open, Opener)
    BY <1>4, ElementIs DEF KeptOf, Top
  <2>3. open' = SubSeq(open, 1, Len(open) - 1)
    BY <1>4 DEF Below
  <2>4. /\ KeptOf(open', Opener) = KeptOf(open, Opener) \ {Len(open)}
        /\ \A d \in KeptOf(open, Opener) \ {Len(open)} : d \in 1 .. Len(open') /\ open'[d] = open[d]
    BY <1>4, <2>1, <2>3, KeptPop
  <2> HIDE <1>4, <2>3
  <2> QED
    BY <2>2, <2>4
<1>5. ASSUME SelfCloseMove PROVE BracketsFound'
  <2> DEFINE S == <<"/", ">">>
  <2>1. Adds(S) /\ mistake' = mistake /\ open # << >> /\ open' = Below
    BY <1>5 DEF SelfCloseMove
  <2>2. Top.what \in Element
    BY <1>5, InsideTop DEF SelfCloseMove, Inside
  <2>3. \A k \in 1 .. Len(S) : S[k] \notin Bracket
    BY TagLetters DEF Element
  <2> HIDE DEF S
  <2> QED
    BY <1>4, <2>1, <2>2, <2>3, BracketsStay
<1>6. ASSUME CloseTagMove PROVE BracketsFound'
  <2> DEFINE name == Top.what
             S == <<"<", "/", name, ">">>
  <2>1. Adds(S) /\ mistake' = mistake /\ open # << >> /\ open' = Below /\ Top.what \in Element
    BY <1>6 DEF CloseTagMove
  <2>2. \A k \in 1 .. Len(S) : S[k] \notin Bracket
    BY <2>1, TagLetters
  <2> HIDE DEF S
  <2> QED
    BY <1>4, <2>1, <2>2, BracketsStay
<1>7. ASSUME NEW name \in Element, WrongTagMove(name) PROVE BracketsFound'
  <2> DEFINE S == <<"<", "/", name, ">">>
  <2>1. Adds(S) /\ mistake'.brackets = mistake.brackets /\ open' = open
    BY <1>7, MistakeIs DEF WrongTagMove
  <2>2. \A k \in 1 .. Len(S) : S[k] \notin Bracket
    BY TagLetters
  <2> HIDE DEF S
  <2> QED
    BY <2>1, <2>2, BracketsStay DEF KeptOf
<1> QED
  BY <1>1, <1>2, <1>3, <1>5, <1>6, <1>7, OpenBrackets, CloseBrackets, WrongBrackets DEF Moves

(* In the empty text it finds nothing. *)
LEMMA BracketsInit ==
  ASSUME Init
  PROVE  BracketsFound
<1>1. code = << >> /\ open = << >> /\ mistake.brackets = Fine
  BY DEF Init
<1>2. code \in Seq(Letter) /\ Len(code) = 0
  BY <1>1
<1> DEFINE g == Judging(code, BracketOpens(code), BracketCloses(code))
<1>3. Kinds(Len(code), BracketOpens(code))
  BY <1>2, BracketsAre DEF Kinds
<1>4. g[0] = Begin /\ Brackets(code) = g[Len(code)]
  BY <1>2, <1>3, JudgingIs DEF Brackets
<1>5. Brackets(code).first = Fine /\ Brackets(code).stack = << >>
  BY <1>2, <1>4, BeginIs
<1> HIDE DEF g
<1>6. \A kept, entry : kept = {} => Tracks(<< >>, kept, entry)
  <2> SUFFICES ASSUME NEW entry PROVE Tracks(<< >>, {}, entry)
    OBVIOUS
  <2>1. Len(<< >>) = 0 /\ 1 .. 0 = {}
    OBVIOUS
  <2> DEFINE at == [j \in {} |-> 0]
  <2>2. at \in [1 .. Len(<< >>) -> {}]
    BY <2>1
  <2>3. Keeps(<< >>, {}, entry, at)
    BY <2>1 DEF Keeps
  <2> QED
    BY <2>2, <2>3 DEF Tracks
<1>7. KeptOf(open, Opener) = {}
  BY <1>1 DEF KeptOf
<1> QED
  BY <1>1, <1>5, <1>6, <1>7 DEF BracketsFound, Finds, Brackets

(* What it finds is an inductive invariant with the core. *)
LEMMA BracketsInvariant == (Core /\ BracketsFound) /\ [Next]_vars => BracketsFound'
<1> SUFFICES ASSUME Core, BracketsFound, [Next]_vars PROVE BracketsFound'
  OBVIOUS
<1>1. ASSUME Next PROVE BracketsFound'
  BY <1>1, EveryMove, BracketsStep
<1>2. ASSUME UNCHANGED vars PROVE BracketsFound'
  <2>1. code' = code /\ open' = open /\ mistake' = mistake
    BY <1>2 DEF vars
  <2> QED
    BY <2>1 DEF BracketsFound
<1> QED
  BY <1>1, <1>2

(* So it always holds. *)
LEMMA BracketsAlways == Spec => []BracketsFound
<1>1. Spec => []Core
  BY CoreAlways
<1>2. Init => BracketsFound
  BY BracketsInit
<1>3. Core /\ BracketsFound /\ [Next]_vars => BracketsFound'
  BY BracketsInvariant
<1> QED
  BY <1>1, <1>2, <1>3, PTL DEF Spec

(* The verdict on where the scanner stands. *)
LEMMA VerdictIs ==
  ASSUME Core, NEW state \in Standing, NEW first, NEW kinds,
         Finds(state, first, KeptOf(open, kinds), Entered(open, code))
  PROVE  Verdict(state) = Expected(first, kinds)
<1> DEFINE kept == KeptOf(open, kinds)
           entry == Entered(open, code)
           z == Innermost(kinds)
<1>1. CASE first # Fine
  BY <1>1 DEF Finds, Verdict, Expected
<1>2. CASE first = Fine
  <2>1. state.first = Fine /\ Tracks(state.stack, kept, entry)
    BY <1>2 DEF Finds
  <2>2. state.stack \in Seq(Item) /\ kept \in SUBSET Nat
    BY StandingIs DEF KeptOf
  <2>3. (z = 0 <=> kept = {}) /\ (kept # {} => z \in kept /\ \A d \in kept : d <= z)
    BY InnermostIs
  <2>4. CASE kept = {}
    <3>1. state.stack = << >>
      <4> HIDE DEF kept, entry
      <4> QED
        BY <2>1, <2>2, <2>4, TracksNone
    <3> QED
      BY <1>2, <2>1, <2>3, <2>4, <3>1 DEF Verdict, Expected
  <2>5. CASE kept # {}
    <3>1. state.stack # << >> /\ state.stack[Len(state.stack)] = entry[z]
      <4>1. z \in kept /\ \A d \in kept : d <= z
        BY <2>3, <2>5
      <4> HIDE DEF kept, entry, z
      <4> QED
        <5> DEFINE stack == state.stack
        <5>1. stack \in Seq(Item) /\ kept \in SUBSET Nat /\ Tracks(stack, kept, entry)
          BY <2>1, <2>2
        <5> HIDE DEF stack
        <5>2. stack # << >> /\ stack[Len(stack)] = entry[z]
          BY <4>1, <5>1, TracksTop
        <5> QED
          BY <5>2 DEF stack
    <3>2. z \in 1 .. Len(open) /\ z # 0
      BY <2>3, <2>5 DEF KeptOf
    <3>3. entry[z].line = Line(code, open[z].at)
      BY <3>2 DEF Entered
    <3>4. Line(code, open[z].at) = Line(text, open[z].at)
      <4> DEFINE e == open[z].at
      <4>1. e \in Nat /\ e <= Len(code) /\ Len(code) = Len(text) /\ Len(code) \in Nat
        BY <3>2, FramesPlaced, CoreTypes
      <4>2. \A k \in 1 .. e : k \in 1 .. Len(text)
        BY <4>1
      <4>3. \A k \in 1 .. e : code[k] = Newline <=> text[k] = Newline
        BY <4>2 DEF Core, Shape, Seen
      <4> HIDE DEF e
      <4>4. Line(code, e) = Line(text, e)
        BY <4>1, <4>3, LineAgrees
      <4> QED
        BY <4>4 DEF e
    <3>5. Verdict(state) = [error |-> "unclosed", line |-> Line(text, open[z].at)]
      BY <2>1, <3>1, <3>3, <3>4 DEF Verdict
    <3>6. Expected(first, kinds) = [error |-> "unclosed", line |-> Line(text, open[z].at)]
      BY <1>2, <3>2 DEF Expected
    <3> QED
      BY <3>5, <3>6
  <2> QED
    BY <2>4, <2>5
<1> QED
  BY <1>1, <1>2

(* What ErrorsExact says of brackets. *)
BracketsExact == BraceBalance(text) = Expected(mistake.brackets, Opener)

(* It makes the verdict of braceBalance exact. *)
LEMMA BracketsFoundExactly ==
  ASSUME Core, BracketsFound
  PROVE  BracketsExact
<1>1. StripStringsAndComments(text) = code
  BY TextIsCode DEF StripsExactly
<1>2. BraceBalance(text) = Verdict(Brackets(code))
  BY <1>1 DEF BraceBalance, Brackets
<1>3. Brackets(code) \in Standing
  <2>1. code \in Seq(Letter)
    BY CoreTypes
  <2>2. << >> \in Seq(Letter)
    OBVIOUS
  <2> QED
    BY <2>1, <2>2, BracketsResume DEF Brackets
<1>4. Finds(Brackets(code), mistake.brackets, KeptOf(open, Opener), Entered(open, code))
  BY DEF BracketsFound, Brackets
<1> QED
  BY <1>2, <1>3, <1>4, VerdictIs DEF BracketsExact

(* braceBalance, for code of any length: it reports the first wrong bracket at its *)
(* line, else the innermost bracket left open, else nothing.                       *)
THEOREM GateBracketsExact == Spec => []BracketsExact
BY CoreAlways, BracketsAlways, BracketsFoundExactly, PTL

-----------------------------------------------------------------------------
(* How deep in braces a tag is. *)
Deeper(letter, before) ==
  IF letter = "lbrace" THEN before + 1 ELSE IF letter = "rbrace" /\ before > 0 THEN before - 1 ELSE before

(* Only braces change the depth. *)
LEMMA DeeperIs ==
  ASSUME NEW letter, NEW before \in Nat
  PROVE  /\ Deeper(letter, before) \in Nat
         /\ letter \notin {"lbrace", "rbrace"} => Deeper(letter, before) = before
BY DEF Deeper

(* The recursion over letters that computes the depth is well founded. *)
LEMMA DepthIs ==
  ASSUME NEW s \in Seq(Letter), NEW k \in Nat, k > 0, k <= Len(s) + 1
  PROVE  /\ Depth(s, k)[k - 1] = 0
         /\ \A p \in k .. Len(s) : Depth(s, k)[p] = Deeper(s[p], Depth(s, k)[p - 1])
         /\ \A p \in k - 1 .. Len(s) : Depth(s, k)[p] \in Nat
<1> DEFINE hi == Len(s)
           lo == k - 1
           step == [x \in (lo + 1 .. hi) \X Nat |-> Deeper(s[x[1]], x[2])]
<1>1. hi \in Nat /\ lo \in Nat /\ lo + 1 = k /\ lo <= hi
  BY LenProperties
<1>2. \A p \in lo + 1 .. hi, v \in Nat : step[<<p, v>>] \in Nat /\ step[<<p, v>>] = Deeper(s[p], v)
  <2>1. ASSUME NEW p \in lo + 1 .. hi, NEW v \in Nat PROVE step[<<p, v>>] \in Nat /\ step[<<p, v>>] = Deeper(s[p], v)
    <3>1. Deeper(s[p], v) \in Nat
      BY DeeperIs
    <3>2. step[<<p, v>>] = Deeper(s[p], v)
      OBVIOUS
    <3> QED
      BY <3>1, <3>2
  <2> QED
    BY <2>1
<1>3. PICK f \in [lo .. hi -> Nat] : Recurs(f, lo, hi, 0, step)
  <2>1. \A p \in lo + 1 .. hi, v \in Nat : step[<<p, v>>] \in Nat
    BY <1>2
  <2>2. lo \in Int /\ hi \in Int /\ lo <= hi /\ 0 \in Nat
    BY <1>1
  <2> HIDE DEF step, hi, lo
  <2> QED
    BY <2>1, <2>2, ForwardRecursion
<1>4. f[lo] = 0 /\ \A p \in k .. hi : f[p] = Deeper(s[p], f[p - 1])
  <2>1. f[lo] = 0 /\ \A p \in lo + 1 .. hi : f[p] = step[<<p, f[p - 1]>>]
    BY <1>3 DEF Recurs
  <2>2. ASSUME NEW p \in k .. hi PROVE f[p] = Deeper(s[p], f[p - 1])
    <3>1. p - 1 \in lo .. hi /\ p \in lo + 1 .. hi
      BY <1>1
    <3>2. f[p - 1] \in Nat
      BY <1>3, <3>1
    <3> HIDE DEF step, lo
    <3> QED
      BY <1>2, <2>1, <3>1, <3>2
  <2> QED
    BY <2>1, <2>2
<1> DEFINE Is(g) == g = [p \in lo .. hi |->
                           IF p < k THEN 0
                           ELSE IF s[p] = "lbrace" THEN g[p - 1] + 1
                           ELSE IF s[p] = "rbrace" /\ g[p - 1] > 0 THEN g[p - 1] - 1
                           ELSE g[p - 1]]
           g == CHOOSE g : Is(g)
<1>5. Is(f)
  <2>1. ASSUME NEW p \in lo .. hi
        PROVE  f[p] = IF p < k THEN 0
                      ELSE IF s[p] = "lbrace" THEN f[p - 1] + 1
                      ELSE IF s[p] = "rbrace" /\ f[p - 1] > 0 THEN f[p - 1] - 1
                      ELSE f[p - 1]
    <3>1. IF p < k THEN p = lo ELSE p \in k .. hi
      BY <1>1
    <3> HIDE DEF lo, hi
    <3> QED
      BY <1>4, <3>1 DEF Deeper
  <2>2. f = [p \in lo .. hi |-> f[p]]
    BY <1>3
  <2> HIDE DEF lo, hi
  <2> QED
    BY <2>1, <2>2, Zenon
<1>6. Is(g)
  BY <1>5, Zenon
<1>7. Depth(s, k) = g
  BY DEF Depth
<1>8. \A p \in lo .. hi : g[p] = IF p < k THEN 0 ELSE Deeper(s[p], g[p - 1])
  <2>1. g = [p \in lo .. hi |->
                           IF p < k THEN 0
                           ELSE IF s[p] = "lbrace" THEN g[p - 1] + 1
                           ELSE IF s[p] = "rbrace" /\ g[p - 1] > 0 THEN g[p - 1] - 1
                           ELSE g[p - 1]]
    BY <1>6
  <2> HIDE DEF g, lo, hi
  <2> QED
    BY <2>1 DEF Deeper
<1> HIDE DEF g, Is
<1>9. g[lo] = 0 /\ \A p \in k .. hi : g[p] = Deeper(s[p], g[p - 1])
  <2>1. lo \in lo .. hi /\ lo < k /\ \A p \in k .. hi : p \in lo .. hi /\ ~(p < k)
    BY <1>1
  <2> HIDE DEF lo, hi
  <2> QED
    BY <1>8, <2>1
<1> HIDE DEF lo, hi
<1>10. \A p \in lo .. hi : g[p] \in Nat
  <2> DEFINE Bad == {p \in Nat : lo <= p /\ p <= hi /\ g[p] \notin Nat}
  <2>1. ASSUME Bad # {} PROVE FALSE
    <3>1. Bad \in SUBSET Nat
      OBVIOUS
    <3>2. PICK p \in Bad : \A e \in Bad : p <= e
      BY <2>1, <3>1, MinIs
    <3>3. p \in Nat /\ lo <= p /\ p <= hi /\ g[p] \notin Nat
      OBVIOUS
    <3>4. p # lo
      BY <1>9, <3>3
    <3>5. p - 1 \in Nat /\ lo <= p - 1 /\ p - 1 <= hi /\ ~(p <= p - 1) /\ p \in k .. hi
      BY <1>1, <3>3, <3>4
    <3>6. p - 1 \notin Bad
      BY <3>2, <3>5
    <3>7. g[p - 1] \in Nat
      BY <3>5, <3>6
    <3> QED
      BY <1>9, <3>3, <3>5, <3>7, DeeperIs
  <2>2. \A p \in lo .. hi : p \in Nat /\ lo <= p /\ p <= hi
    BY <1>1
  <2> QED
    BY <2>1, <2>2
<1> QED
  BY <1>7, <1>9, <1>10 DEF lo, hi

(* The depth at a position depends on the letters up to it. *)
LEMMA DepthAgrees ==
  ASSUME NEW s \in Seq(Letter), NEW t \in Seq(Letter), Len(s) <= Len(t), \A i \in 1 .. Len(s) : t[i] = s[i],
         NEW k \in Nat, k > 0, k <= Len(s) + 1
  PROVE  \A p \in k - 1 .. Len(s) : Depth(t, k)[p] = Depth(s, k)[p]
<1> DEFINE hi == Len(s)
           lo == k - 1
           f == Depth(s, k)
           g == Depth(t, k)
<1>1. hi \in Nat /\ lo \in Nat /\ lo + 1 = k /\ lo <= hi /\ Len(t) \in Nat /\ k <= Len(t) + 1
  BY LenProperties
<1>2. f[lo] = 0 /\ \A p \in k .. hi : f[p] = Deeper(s[p], f[p - 1])
  BY DepthIs
<1>3. g[lo] = 0 /\ \A p \in k .. Len(t) : g[p] = Deeper(t[p], g[p - 1])
  BY <1>1, DepthIs
<1> HIDE DEF f, g, lo
<1> DEFINE Bad == {p \in Nat : lo <= p /\ p <= hi /\ f[p] # g[p]}
<1>4. ASSUME Bad # {} PROVE FALSE
  <2>1. Bad \in SUBSET Nat
    OBVIOUS
  <2>2. PICK p \in Bad : \A e \in Bad : p <= e
    BY <1>4, <2>1, MinIs
  <2>3. p \in Nat /\ lo <= p /\ p <= hi /\ f[p] # g[p]
    OBVIOUS
  <2>4. p # lo
    BY <1>2, <1>3, <2>3
  <2>5. p - 1 \in Nat /\ lo <= p - 1 /\ p - 1 <= hi /\ ~(p <= p - 1) /\ p \in k .. hi /\ p \in k .. Len(t) /\ p \in 1 .. hi
    BY <1>1, <2>3, <2>4
  <2>6. p - 1 \notin Bad
    BY <2>2, <2>5
  <2>7. f[p - 1] = g[p - 1]
    BY <2>5, <2>6
  <2>8. f[p] = Deeper(s[p], f[p - 1]) /\ g[p] = Deeper(t[p], g[p - 1]) /\ t[p] = s[p]
    BY <1>2, <1>3, <2>5
  <2> QED
    BY <2>3, <2>7, <2>8
<1>5. \A p \in lo .. hi : p \in Nat /\ lo <= p /\ p <= hi
  BY <1>1
<1>6. \A p \in lo .. hi : f[p] = g[p]
  BY <1>4, <1>5
<1> QED
  BY <1>6 DEF f, g, lo

(* No brace is between two positions; the depth is the same between them. *)
Braceless(s, lo, hi) == \A p \in lo + 1 .. hi : s[p] \notin {"lbrace", "rbrace"}
Rests(s, k, lo, hi) == \A p \in lo .. hi : Depth(s, k)[p] = Depth(s, k)[lo]

(* Where no brace is, it stays. *)
LEMMA DepthStill ==
  ASSUME NEW s \in Seq(Letter), NEW k \in Nat, k > 0, k <= Len(s) + 1,
         NEW lo \in Nat, NEW hi \in Nat, k - 1 <= lo, hi <= Len(s),
         Braceless(s, lo, hi)
  PROVE  Rests(s, k, lo, hi)
<1> DEFINE g == Depth(s, k)
           m == Len(s)
<1>1. m \in Nat
  BY LenProperties
<1>2. (\A p \in k .. m : g[p] = Deeper(s[p], g[p - 1])) /\ \A p \in k - 1 .. m : g[p] \in Nat
  BY DepthIs
<1> HIDE DEF g
<1> DEFINE Bad == {p \in Nat : lo <= p /\ p <= hi /\ g[p] # g[lo]}
<1>4. ASSUME Bad # {} PROVE FALSE
  <2>1. Bad \in SUBSET Nat
    OBVIOUS
  <2>2. PICK p \in Bad : \A e \in Bad : p <= e
    BY <1>4, <2>1, MinIs
  <2>3. p \in Nat /\ lo <= p /\ p <= hi /\ g[p] # g[lo]
    OBVIOUS
  <2>4. p # lo
    BY <2>3
  <2>5. p - 1 \in Nat /\ lo <= p - 1 /\ p - 1 <= hi /\ ~(p <= p - 1) /\ p \in k .. m /\ p - 1 \in k - 1 .. m /\ p \in lo + 1 .. hi
    BY <1>1, <2>3, <2>4
  <2>6. p - 1 \notin Bad
    BY <2>2, <2>5
  <2>7. g[p - 1] = g[lo]
    BY <2>5, <2>6
  <2>8. g[p] = Deeper(s[p], g[p - 1]) /\ g[p - 1] \in Nat /\ s[p] \notin {"lbrace", "rbrace"}
    BY <1>2, <2>5 DEF Braceless
  <2> QED
    BY <2>3, <2>7, <2>8, DeeperIs
<1>5. \A p \in lo .. hi : p \in Nat /\ lo <= p /\ p <= hi
  OBVIOUS
<1>6. \A p \in lo .. hi : g[p] = g[lo]
  BY <1>4, <1>5
<1> QED
  BY <1>6, Zenon DEF g, Rests

-----------------------------------------------------------------------------
(* What of tags stands as the text goes on. *)
EndsOf(s, i) == {p \in i + 2 .. Len(s) : s[p] = ">" /\ Depth(s, i + 2)[p] = 0}

(* The letter at a position. *)
LEMMA AtIs ==
  ASSUME NEW s \in Seq(Letter), NEW i \in Int
  PROVE  /\ i \in 1 .. Len(s) => At(s, i) = s[i] /\ At(s, i) \in Letter
         /\ i > Len(s) => At(s, i) = "end" /\ TagName(s, i) = "none"
<1>1. DOMAIN s = 1 .. Len(s) /\ Len(s) \in Nat /\ \A k \in 1 .. Len(s) : s[k] \in Letter
  BY TextIs
<1>2. i > Len(s) => i \notin DOMAIN s
  BY <1>1
<1>3. "end" \notin Word
  BY DEF Word
<1> QED
  BY <1>1, <1>2, <1>3 DEF At, TagName

(* Whether a tag can begin at a position depends on what is before it. *)
LEMMA PositionSame ==
  ASSUME Core, NEW S, Adds(S), NEW i \in 1 .. Len(code)
  PROVE  JsxPosition(code', i) <=> JsxPosition(code, i)
<1> DEFINE c == code'
           n == Len(code)
           k == Before(code, i)
<1>1. /\ code \in Seq(Letter) /\ c \in Seq(Letter) /\ n \in Nat /\ Len(c) \in Nat /\ n <= Len(c)
      /\ \A j \in 1 .. n : c[j] = code[j]
  <2>1. /\ code \in Seq(Letter) /\ c \in Seq(Letter) /\ n \in Nat /\ Len(c) = n + Len(S) /\ Len(S) \in Nat
        /\ \A j \in 1 .. n : c[j] = code[j]
    BY AddsIs
  <2> QED
    BY <2>1
<1> HIDE DEF c
<1>2. i \in Nat /\ i > 0 /\ i <= n + 1
  BY <1>1
<1>3. k \in 0 .. i - 1
  BY <1>1, <1>2, BeforeIs
<1>4. Before(c, i) = k
  <2>1. \A j \in 1 .. i - 1 : j \in 1 .. n
    BY <1>1
  <2>2. \A j \in 1 .. i - 1 : code[j] = c[j]
    BY <1>1, <2>1
  <2>3. Before(code, i) = Before(c, i)
    BY <1>1, <1>2, <2>2, BeforeAgrees
  <2> QED
    BY <2>3
<1>5. k # 0 => k \in 1 .. n /\ k - 1 \in 0 .. n
  BY <1>1, <1>3
<1>6. \A j \in 0 .. n : At(c, j) = At(code, j)
  <2>1. DOMAIN c = 1 .. Len(c) /\ DOMAIN code = 1 .. n
    BY <1>1, TextIs
  <2>2. \A j \in 0 .. n : (j \in 1 .. Len(c) <=> j \in 1 .. n)
    BY <1>1
  <2> QED
    BY <1>1, <2>1, <2>2 DEF At
<1>7. k # 0 => c[k] = code[k] /\ (IsKeywordAt(c, k) <=> IsKeywordAt(code, k))
  <2>1. k # 0 => k \in 0 .. n
    BY <1>5
  <2> HIDE DEF k, n
  <2> QED
    BY <1>1, <1>5, <1>6, <2>1 DEF IsKeywordAt
<1>8. JsxPosition(c, i) <=> JsxPosition(code, i)
  BY <1>4, <1>7 DEF JsxPosition
<1> QED
  BY <1>8 DEF c

(* What has been written stays. *)
LEMMA AtSame ==
  ASSUME Core, NEW S, Adds(S), NEW i \in 1 .. Len(code)
  PROVE  code'[i] = code[i] /\ At(code', i) = At(code, i) /\ At(code, i) = code[i] /\ TagName(code', i) = TagName(code, i)
<1>1. /\ code \in Seq(Letter) /\ code' \in Seq(Letter) /\ Len(code) \in Nat /\ Len(code') = Len(code) + Len(S) /\ Len(S) \in Nat
      /\ \A j \in 1 .. Len(code) : code'[j] = code[j]
  BY AddsIs
<1>2. i \in 1 .. Len(code') /\ i \in Int
  BY <1>1
<1>3. code'[i] = code[i] /\ At(code', i) = code'[i] /\ At(code, i) = code[i]
  BY <1>1, <1>2, AtIs
<1> QED
  BY <1>3 DEF TagName

(* A tag that has begun stays one, and what is none never becomes one. *)
LEMMA BeginsSame ==
  ASSUME Core, NEW S, Adds(S), NEW i \in 1 .. Len(code)
  PROVE  /\ BeginsTag(code', i) <=> BeginsTag(code, i)
         /\ BeginsTag(code, i) => i + 1 <= Len(code) /\ TagName(code', i + 1) = TagName(code, i + 1)
<1>1. code \in Seq(Letter) /\ Len(code) \in Nat /\ i \in Nat
  BY AddsIs
<1>2. JsxPosition(code', i) <=> JsxPosition(code, i)
  BY PositionSame
<1>3. code'[i] = code[i]
  BY AtSame
<1>4. CASE i = Len(code)
  <2>1. TagName(code, i + 1) = "none"
    <3>1. i + 1 \in Int /\ i + 1 > Len(code)
      BY <1>1, <1>4
    <3> QED
      BY <1>1, <3>1, AtIs
  <2>2. ~BeginsTag(code, i)
    BY <2>1 DEF BeginsTag
  <2>3. code[i] = "<" => ~JsxPosition(code, i)
    <3>1. At(code, Len(code)) = code[i]
      BY <1>4, AtSame
    <3>2. Last(code) = "<" => ~JsxPosition(code, Len(code))
      BY DEF Core, Shape, EndsWell
    <3> QED
      BY <1>4, <3>1, <3>2 DEF Last
  <2>4. ~BeginsTag(code', i)
    BY <1>2, <1>3, <2>3 DEF BeginsTag
  <2> QED
    BY <2>2, <2>4
<1>5. CASE i # Len(code)
  <2>1. i + 1 \in 1 .. Len(code) /\ i + 1 <= Len(code)
    BY <1>1, <1>5
  <2>2. TagName(code', i + 1) = TagName(code, i + 1)
    BY <2>1, AtSame
  <2> QED
    BY <1>2, <1>3, <2>1, <2>2 DEF BeginsTag
<1> QED
  BY <1>4, <1>5

(* The same of closing tags, unless a "/" comes right after a comparison. *)
LEMMA ClosesSame ==
  ASSUME Core, NEW S, Adds(S), S[1] = "/" => where # "operand", NEW i \in 1 .. Len(code)
  PROVE  TagCloses(code')[i] = TagCloses(code)[i]
<1> DEFINE n == Len(code)
           c == code'
           Mark(s) == IF s[i] = "<" /\ At(s, i + 1) = "/" THEN TagName(s, i + 2) ELSE "none"
<1>1. /\ code \in Seq(Letter) /\ c \in Seq(Letter) /\ n \in Nat /\ Len(c) = n + Len(S) /\ Len(S) \in Nat /\ Len(S) > 0
      /\ i \in Nat /\ c[n + 1] = S[1]
  <2>1. /\ code \in Seq(Letter) /\ c \in Seq(Letter) /\ n \in Nat /\ Len(c) = n + Len(S) /\ Len(S) \in Nat /\ Len(S) > 0
        /\ \A k \in 1 .. Len(S) : c[n + k] = S[k]
    BY AddsIs
  <2>2. 1 \in 1 .. Len(S)
    BY <2>1
  <2> QED
    BY <2>1, <2>2
<1>2. TagCloses(c)[i] = Mark(c) /\ TagCloses(code)[i] = Mark(code)
  <2>1. i \in DOMAIN c /\ i \in DOMAIN code
    BY <1>1, TextIs
  <2> QED
    BY <2>1 DEF TagCloses
<1>3. c[i] = code[i] /\ At(code, i) = code[i]
  BY AtSame
<1>4. Last(code) # "/" /\ (Last(code) = "<" => where = "operand")
  BY DEF Core, Shape, EndsWell
<1>5. CASE i = n
  <2>1. At(code, i + 1) = "end"
    <3>1. i + 1 \in Int /\ i + 1 > n
      BY <1>1, <1>5
    <3> QED
      BY <1>1, <3>1, AtIs
  <2>2. At(c, i + 1) = S[1]
    <3>1. i + 1 \in 1 .. Len(c) /\ i + 1 \in Int
      BY <1>1, <1>5
    <3> QED
      BY <1>1, <1>5, <3>1, AtIs
  <2>3. code[i] = "<" => S[1] # "/"
    BY <1>3, <1>4, <1>5 DEF Last
  <2> QED
    BY <1>2, <1>3, <2>1, <2>2, <2>3
<1>6. CASE i # n
  <2>1. i + 1 \in 1 .. n
    BY <1>1, <1>6
  <2>2. At(c, i + 1) = At(code, i + 1)
    BY <2>1, AtSame
  <2>3. CASE i + 1 = n
    <3>1. At(code, i + 1) # "/"
      BY <1>4, <2>3 DEF Last
    <3> QED
      BY <1>2, <1>3, <2>2, <3>1
  <2>4. CASE i + 1 # n
    <3>1. i + 2 \in 1 .. n
      BY <1>1, <2>1, <2>4
    <3>2. TagName(c, i + 2) = TagName(code, i + 2)
      BY <3>1, AtSame
    <3> QED
      BY <1>2, <1>3, <2>2, <3>2
  <2> QED
    BY <2>3, <2>4
<1> QED
  BY <1>5, <1>6

(* The ends of a tag that are added by a step. *)
LEMMA EndsGrow ==
  ASSUME Core, NEW S, Adds(S), NEW i \in Nat, i > 0, i + 1 <= Len(code)
  PROVE  /\ EndsOf(code', i) = EndsOf(code, i)
              \cup {p \in Len(code) + 1 .. Len(code) + Len(S) : code'[p] = ">" /\ Depth(code', i + 2)[p] = 0}
         /\ EndsOf(code, i) \in SUBSET (i + 2 .. Len(code))
         /\ \A p \in i + 1 .. Len(code) : Depth(code', i + 2)[p] = Depth(code, i + 2)[p]
<1> DEFINE n == Len(code)
           m == Len(S)
           c == code'
           k == i + 2
           new == {p \in n + 1 .. n + m : c[p] = ">" /\ Depth(c, k)[p] = 0}
<1>1. /\ code \in Seq(Letter) /\ c \in Seq(Letter) /\ n \in Nat /\ m \in Nat /\ Len(c) = n + m
      /\ \A j \in 1 .. n : c[j] = code[j]
  BY AddsIs
<1> HIDE DEF c, n, m
<1>2. k \in Nat /\ k > 0 /\ k <= n + 1 /\ n <= n + m /\ k - 1 = i + 1
  BY <1>1 DEF n
<1>3. \A p \in i + 1 .. n : Depth(c, k)[p] = Depth(code, k)[p]
  <2> HIDE DEF k
  <2>1. \A p \in k - 1 .. n : Depth(c, k)[p] = Depth(code, k)[p]
    BY <1>1, <1>2, DepthAgrees DEF n
  <2> QED
    BY <1>2, <2>1
<1>4. \A p \in k .. n + m : p \in k .. n \/ p \in n + 1 .. n + m
  BY <1>1, <1>2
<1>5. /\ \A p \in k .. n : p \in k .. n + m /\ p \in 1 .. n /\ p \in i + 1 .. n
      /\ \A p \in n + 1 .. n + m : p \in k .. n + m
  BY <1>1, <1>2
<1>6. EndsOf(c, i) = {p \in k .. n + m : c[p] = ">" /\ Depth(c, k)[p] = 0}
  BY <1>1 DEF EndsOf
<1>7. EndsOf(code, i) = {p \in k .. n : code[p] = ">" /\ Depth(code, k)[p] = 0}
  BY DEF EndsOf, n
<1> HIDE DEF k
<1>8. EndsOf(c, i) = EndsOf(code, i) \cup new
  BY <1>1, <1>3, <1>4, <1>5, <1>6, <1>7
<1> QED
  BY <1>3, <1>7, <1>8 DEF c, n, m, k

(* A tag that has an end is not changed by what follows. *)
LEMMA SelfClosesSame ==
  ASSUME Core, NEW S, Adds(S), NEW i \in Nat, i > 0, i + 1 <= Len(code), EndsOf(code, i) # {}
  PROVE  SelfCloses(code', i + 2) <=> SelfCloses(code, i + 2)
<1> DEFINE n == Len(code)
           c == code'
           old == EndsOf(code, i)
           all == EndsOf(c, i)
           e == Min(old)
<1>1. n \in Nat /\ Len(S) \in Nat
  BY AddsIs
<1>2. PICK new \in SUBSET (n + 1 .. n + Len(S)) : all = old \cup new
  BY EndsGrow
<1>3. old \in SUBSET (i + 2 .. n)
  BY EndsGrow
<1>4. \A p \in old : p \in Nat /\ i + 2 <= p /\ p <= n
  BY <1>1, <1>3
<1>5. \A p \in new : p \in Nat /\ n < p
  BY <1>1
<1>6. e \in old /\ \A p \in old : e <= p
  <2>1. old \in SUBSET Nat /\ old # {}
    BY <1>4
  <2> HIDE DEF old
  <2>2. Min(old) \in old /\ \A p \in old : Min(old) <= p
    BY <2>1, MinIs
  <2> QED
    BY <2>2
<1> HIDE DEF old, all, e
<1>7. Min(all) = e
  <2>1. all \in SUBSET Nat /\ e \in all
    BY <1>2, <1>4, <1>5, <1>6
  <2>2. \A p \in all : e <= p
    <3>1. e \in Nat /\ e <= n
      BY <1>4, <1>6
    <3>2. \A p \in new : e <= p
      BY <1>1, <1>5, <3>1
    <3> QED
      BY <1>2, <1>6, <3>2
  <2> QED
    BY <2>1, <2>2, MinIsThis
<1>8. c[e - 1] = code[e - 1]
  <2>1. e - 1 \in 1 .. n
    BY <1>1, <1>4, <1>6
  <2> QED
    BY <2>1, AtSame
<1>9. all # {}
  BY <1>2, <1>6
<1>10. SelfCloses(c, i + 2) <=> ClosesItself(c, all)
  BY DEF SelfCloses, EndsOf, all
<1>11. SelfCloses(code, i + 2) <=> ClosesItself(code, old)
  BY DEF SelfCloses, EndsOf, old
<1>12. ClosesItself(c, all) <=> ClosesItself(code, old)
  BY <1>6, <1>7, <1>8, <1>9 DEF ClosesItself, e
<1> QED
  BY <1>10, <1>11, <1>12

-----------------------------------------------------------------------------
(* Tags that have not ended: what follows their frame is a tag. *)
Pending(o, next) == {d \in 1 .. Len(o) : After(o, next, d) = "tag"}
PendingAt(o, next) == {o[d].at : d \in Pending(o, next)}
Braces(o, d) == {e \in d + 1 .. Len(o) : o[e].what = "lbrace"}

(* No two frames began at the same letter. *)
LEMMA AtOnce ==
  ASSUME Core, NEW d \in 1 .. Len(open), NEW e \in 1 .. Len(open), open[d].at = open[e].at
  PROVE  d = e
<1>1. Len(open) \in Nat
  BY CoreTypes, LenProperties
<1>2. open[d].at \in Nat /\ open[e].at \in Nat
  BY CoreTypes, FramesAre
<1>3. \A x \in 1 .. Len(open) : \A y \in 1 .. x - 1 : open[y].at < open[x].at
  BY DEF Core, Shape, Nested
<1>4. d < e => d \in 1 .. e - 1
  BY <1>1
<1>5. e < d => e \in 1 .. d - 1
  BY <1>1
<1>6. ~(d < e) /\ ~(e < d)
  BY <1>2, <1>3, <1>4, <1>5
<1> QED
  BY <1>1, <1>6

(* The braces open above a frame are finitely many. *)
LEMMA BracesAre ==
  ASSUME NEW o \in Seq(Frame), NEW d \in Nat
  PROVE  /\ IsFiniteSet(Braces(o, d)) /\ Cardinality(Braces(o, d)) \in Nat
         /\ Braces(o, d) = {} <=> Cardinality(Braces(o, d)) = 0
         /\ d >= Len(o) => Braces(o, d) = {}
<1>1. Len(o) \in Nat
  BY LenProperties
<1>2. IsFiniteSet(d + 1 .. Len(o))
  BY <1>1, FS_Interval
<1>3. Braces(o, d) \in SUBSET (d + 1 .. Len(o))
  BY DEF Braces
<1>4. IsFiniteSet(Braces(o, d))
  BY <1>2, <1>3, FS_Subset
<1>5. d >= Len(o) => d + 1 .. Len(o) = {}
  BY <1>1
<1>6. Cardinality(Braces(o, d)) \in Nat
  BY <1>4, FS_CardinalityType
<1>7. Braces(o, d) = {} <=> Cardinality(Braces(o, d)) = 0
  BY <1>4, FS_EmptySet
<1> QED
  BY <1>3, <1>4, <1>5, <1>6, <1>7

(* A tag without an end is on top, or has an open brace above it. *)
LEMMA PendingIs ==
  ASSUME Core, NEW d \in Pending(open, where)
  PROVE  /\ d \in 1 .. Len(open) /\ open[d].what \in Element
         /\ d = Len(open) => where = "tag" /\ Braces(open, d) = {}
         /\ d # Len(open) => Braces(open, d) # {}
         /\ open[d].at \in PendingAt(open, where) /\ open[d].at \in Nat /\ open[d].at > 0
<1>1. d \in 1 .. Len(open) /\ After(open, where, d) = "tag" /\ Len(open) \in Nat /\ open \in Seq(Frame)
  BY CoreTypes, LenProperties DEF Pending
<1>2. d \in 0 .. Len(open) /\ d \in Nat
  BY <1>1
<1>3. open[d].what \in Element
  BY <1>1, <1>2 DEF Core, Shape, Nested, Inside
<1>4. d = Len(open) => where = "tag" /\ Braces(open, d) = {}
  <2>1. d = Len(open) => d >= Len(open)
    BY <1>1
  <2> QED
    BY <1>1, <1>2, <2>1, BracesAre DEF After
<1>5. ASSUME d # Len(open) PROVE Braces(open, d) # {}
  <2>1. d + 1 \in 1 .. Len(open) /\ d + 1 \in d + 1 .. Len(open)
    BY <1>1, <1>5
  <2>2. open[d + 1].after = "tag"
    BY <1>1, <1>5 DEF After
  <2>3. open[d + 1].what = "lbrace"
    BY <2>1, <2>2 DEF Core, Shape, Nested
  <2> QED
    BY <2>1, <2>3 DEF Braces
<1>6. open[d].at \in PendingAt(open, where)
  BY DEF PendingAt
<1> QED
  BY <1>1, <1>3, <1>4, <1>5, <1>6, FramesAre

(* The same tags have no end. *)
LEMMA PendingSame ==
  ASSUME open' = open, where' = "tag" <=> where = "tag"
  PROVE  /\ Pending(open', where') = Pending(open, where)
         /\ PendingAt(open', where') = PendingAt(open, where)
BY DEF Pending, PendingAt, After

(* The tags without an end when something is opened. *)
LEMMA PendingPush ==
  ASSUME Core, NEW f \in Frame, open' = Append(open, f), f.after = "tag" <=> where = "tag"
  PROVE  LET z == Len(open) IN
         /\ Pending(open', where') = Pending(open, where) \cup (IF where' = "tag" THEN {z + 1} ELSE {})
         /\ PendingAt(open', where') = PendingAt(open, where) \cup (IF where' = "tag" THEN {f.at} ELSE {})
         /\ \A d \in 1 .. z : d \in 1 .. Len(open') /\ open'[d] = open[d]
         /\ z \in Nat /\ Len(open') = z + 1 /\ open'[z + 1] = f
<1> DEFINE z == Len(open)
           o == open'
           w == where'
<1>1. z \in Nat /\ Len(o) = z + 1 /\ o[z + 1] = f /\ \A d \in 1 .. z : o[d] = open[d]
  BY CoreTypes, AppendProperties, LenProperties
<1>2. \A d \in 1 .. z + 1 : d = z + 1 \/ d \in 1 .. z
  BY <1>1
<1>3. z + 1 \in 1 .. z + 1 /\ \A d \in 1 .. z : d \in 1 .. z + 1 /\ d # z + 1
  BY <1>1
<1>4. \A d \in 1 .. z : d # z => d + 1 \in 1 .. z
  BY <1>1
<1> HIDE DEF z, o, w
<1>5. ASSUME NEW d \in 1 .. z PROVE After(o, w, d) = "tag" <=> After(open, where, d) = "tag"
  <2>1. d # Len(o)
    BY <1>1, <1>3
  <2>2. CASE d = z
    BY <1>1, <2>1, <2>2 DEF After, z
  <2>3. CASE d # z
    BY <1>1, <1>4, <2>1, <2>3 DEF After, z
  <2> QED
    BY <2>2, <2>3
<1>6. After(o, w, z + 1) = w
  BY <1>1 DEF After
<1>7. Pending(open, where) = {d \in 1 .. z : After(open, where, d) = "tag"}
  BY DEF Pending, z
<1>8. Pending(o, w) = {d \in 1 .. z + 1 : After(o, w, d) = "tag"}
  BY <1>1 DEF Pending
<1>9. Pending(o, w) = Pending(open, where) \cup (IF w = "tag" THEN {z + 1} ELSE {})
  BY <1>2, <1>3, <1>5, <1>6, <1>7, <1>8
<1>10. \A d \in Pending(open, where) : o[d].at = open[d].at
  BY <1>1, <1>7
<1>11. PendingAt(o, w) = PendingAt(open, where) \cup (IF w = "tag" THEN {f.at} ELSE {})
  BY <1>1, <1>9, <1>10 DEF PendingAt
<1> QED
  BY <1>1, <1>3, <1>9, <1>11 DEF z, o, w

(* The tags without an end when the top is closed. *)
LEMMA PendingPop ==
  ASSUME Core, open # << >>, open' = Below, where' = Top.after
  PROVE  LET z == Len(open) IN
         /\ Pending(open', where') = Pending(open, where) \ {z}
         /\ PendingAt(open', where') = PendingAt(open, where) \ (IF where = "tag" THEN {open[z].at} ELSE {})
         /\ \A d \in 1 .. z : d # z => d \in 1 .. Len(open') /\ open'[d] = open[d]
         /\ z \in Nat /\ z > 0 /\ Len(open') = z - 1
<1> DEFINE z == Len(open)
           o == open'
           w == where'
<1>1. z \in Nat /\ z > 0 /\ Len(o) = z - 1 /\ \A d \in 1 .. z - 1 : o[d] = open[d]
  <2>1. open \in Seq(Frame) /\ open' = SubSeq(open, 1, Len(open) - 1)
    BY CoreTypes DEF Below
  <2> QED
    BY <2>1, PopIs
<1>2. w = open[z].after
  BY DEF Top
<1>3. \A d \in 1 .. z : d # z <=> d \in 1 .. z - 1
  BY <1>1
<1>4. /\ \A d \in 1 .. z - 1 : d \in 1 .. z /\ d # z
      /\ \A d \in 1 .. z - 1 : d = z - 1 => d + 1 = z
      /\ \A d \in 1 .. z - 1 : d # z - 1 => d + 1 \in 1 .. z - 1
  BY <1>1
<1> HIDE DEF z, o, w
<1>5. ASSUME NEW d \in 1 .. z - 1 PROVE After(o, w, d) = After(open, where, d)
  <2>1. d # z
    BY <1>4
  <2>2. CASE d = z - 1
    <3>1. d + 1 = z /\ d = Len(o)
      BY <1>1, <1>4, <2>2
    <3> QED
      BY <1>2, <2>1, <3>1 DEF After, z
  <2>3. CASE d # z - 1
    <3>1. d # Len(o) /\ d + 1 \in 1 .. z - 1
      BY <1>1, <1>4, <2>3
    <3> QED
      BY <1>1, <2>1, <3>1 DEF After, z
  <2> QED
    BY <2>2, <2>3
<1>6. Pending(open, where) = {d \in 1 .. z : After(open, where, d) = "tag"}
  BY DEF Pending, z
<1>7. Pending(o, w) = {d \in 1 .. z - 1 : After(o, w, d) = "tag"}
  BY <1>1 DEF Pending
<1>8. Pending(o, w) = Pending(open, where) \ {z}
  BY <1>3, <1>4, <1>5, <1>6, <1>7
<1>9. z \in Pending(open, where) <=> where = "tag"
  <2>1. z \in 1 .. z /\ After(open, where, z) = where
    BY <1>1 DEF After, z
  <2> QED
    BY <1>6, <2>1
<1>10. \A d \in Pending(o, w) : o[d].at = open[d].at /\ open[d].at # open[z].at
  <2>1. ASSUME NEW d \in Pending(o, w) PROVE o[d].at = open[d].at /\ open[d].at # open[z].at
    <3>1. d \in 1 .. z - 1 /\ d \in 1 .. z /\ d # z /\ z \in 1 .. z
      BY <1>1, <1>4, <1>7
    <3>2. open[d].at # open[z].at
      BY <3>1, AtOnce DEF z
    <3> QED
      BY <1>1, <3>1, <3>2
  <2> QED
    BY <2>1
<1>11. PendingAt(o, w) = PendingAt(open, where) \ (IF where = "tag" THEN {open[z].at} ELSE {})
  BY <1>8, <1>9, <1>10 DEF PendingAt
<1> QED
  BY <1>1, <1>3, <1>8, <1>11 DEF z, o, w

(* A tag that has begun and not ended, as deep in braces as it has them open. *)
Begun(s, o, d) ==
  LET i == o[d].at IN
  /\ i + 1 <= Len(s) /\ BeginsTag(s, i) /\ TagName(s, i + 1) = o[d].what
  /\ EndsOf(s, i) = {}
  /\ Depth(s, i + 2)[Len(s)] = Cardinality(Braces(o, d))
TagsEnd(s, o, next) ==
  /\ \A i \in 1 .. Len(s) : BeginsTag(s, i) /\ i \notin PendingAt(o, next) => EndsOf(s, i) # {}
  /\ \A d \in Pending(o, next) : Begun(s, o, d)

(* A tag that goes on. *)
LEMMA GoesOn ==
  ASSUME Core, NEW S, Adds(S), NEW d \in Pending(open, where), Begun(code, open, d),
         open'[d] = open[d],
         Depth(code', open[d].at + 2)[Len(code) + Len(S)] = Cardinality(Braces(open', d)),
         \A p \in Len(code) + 1 .. Len(code) + Len(S) :
            ~(code'[p] = ">" /\ Depth(code', open[d].at + 2)[p] = 0)
  PROVE  Begun(code', open', d)
<1> DEFINE i == open[d].at
           n == Len(code)
           m == Len(S)
<1>1. /\ i + 1 <= n /\ BeginsTag(code, i) /\ TagName(code, i + 1) = open[d].what /\ EndsOf(code, i) = {}
  BY DEF Begun
<1>2. n \in Nat /\ m \in Nat /\ Len(code') = n + m
  BY AddsIs
<1>3. i \in Nat /\ i > 0
  BY PendingIs
<1> HIDE DEF i
<1>4. i \in 1 .. n /\ i + 1 <= n + m
  BY <1>1, <1>2, <1>3
<1>5. BeginsTag(code', i) /\ TagName(code', i + 1) = open[d].what
  BY <1>1, <1>4, BeginsSame
<1>6. EndsOf(code', i) = {}
  <2>1. EndsOf(code', i) = EndsOf(code, i)
              \cup {p \in n + 1 .. n + m : code'[p] = ">" /\ Depth(code', i + 2)[p] = 0}
    BY <1>1, <1>3, EndsGrow
  <2>2. {p \in n + 1 .. n + m : code'[p] = ">" /\ Depth(code', i + 2)[p] = 0} = {}
    BY DEF i
  <2> QED
    BY <1>1, <2>1, <2>2
<1>7. Depth(code', i + 2)[n + m] = Cardinality(Braces(open', d))
  BY DEF i
<1> QED
  BY <1>2, <1>4, <1>5, <1>6, <1>7 DEF Begun, i

(* Letters without braces leave the depth as it is. *)
LEMMA DepthSame ==
  ASSUME Core, NEW S, Adds(S), \A k \in 1 .. Len(S) : S[k] \notin {"lbrace", "rbrace"},
         NEW i \in Nat, i > 0, i + 1 <= Len(code)
  PROVE  \A p \in Len(code) .. Len(code) + Len(S) : Depth(code', i + 2)[p] = Depth(code, i + 2)[Len(code)]
<1> DEFINE n == Len(code)
           m == Len(S)
           c == code'
           k == i + 2
<1>1. /\ c \in Seq(Letter) /\ n \in Nat /\ m \in Nat /\ Len(c) = n + m /\ \A j \in 1 .. m : c[n + j] = S[j]
  BY AddsIs
<1>2. Depth(c, k)[n] = Depth(code, k)[n]
  <2>1. \A p \in i + 1 .. n : Depth(c, k)[p] = Depth(code, k)[p]
    BY EndsGrow
  <2>2. n \in i + 1 .. n
    BY <1>1
  <2> QED
    BY <2>1, <2>2
<1> HIDE DEF c, n, m
<1>3. k \in Nat /\ k > 0 /\ k <= Len(c) + 1 /\ k - 1 <= n /\ n + m <= Len(c) /\ n + m \in Nat
  BY <1>1 DEF n
<1>4. \A p \in n + 1 .. n + m : c[p] \notin {"lbrace", "rbrace"}
  <2>1. ASSUME NEW p \in n + 1 .. n + m PROVE c[p] \notin {"lbrace", "rbrace"}
    <3>1. p - n \in 1 .. m /\ n + (p - n) = p
      BY <1>1
    <3>2. c[p] = S[p - n]
      BY <1>1, <3>1
    <3> QED
      BY <3>1, <3>2 DEF m
  <2> QED
    BY <2>1
<1> DEFINE hi == n + m
<1>5. \A p \in n .. hi : Depth(c, k)[p] = Depth(c, k)[n]
  <2>1. Braceless(c, n, hi)
    BY <1>4, Zenon DEF Braceless
  <2>2. hi \in Nat /\ hi <= Len(c)
    BY <1>3
  <2> HIDE DEF hi, k
  <2>3. Rests(c, k, n, hi)
    BY <1>1, <1>3, <2>1, <2>2, DepthStill
  <2> QED
    BY <2>3, Zenon DEF Rests
<1> QED
  BY <1>2, <1>5 DEF c, n, m

(* One brace makes it deeper or less deep. *)
LEMMA DepthOne ==
  ASSUME Core, NEW S, Adds(S), NEW q \in 1 .. Len(S),
         \A k \in 1 .. Len(S) : k # q => S[k] \notin {"lbrace", "rbrace"},
         NEW i \in Nat, i > 0, i + 1 <= Len(code)
  PROVE  Depth(code', i + 2)[Len(code) + Len(S)] = Deeper(S[q], Depth(code, i + 2)[Len(code)])
<1> DEFINE n == Len(code)
           m == Len(S)
           c == code'
           k == i + 2
<1>1. /\ c \in Seq(Letter) /\ n \in Nat /\ m \in Nat /\ Len(c) = n + m /\ \A j \in 1 .. m : c[n + j] = S[j]
  BY AddsIs
<1>2. Depth(c, k)[n] = Depth(code, k)[n]
  <2>1. \A p \in i + 1 .. n : Depth(c, k)[p] = Depth(code, k)[p]
    BY EndsGrow
  <2>2. n \in i + 1 .. n
    BY <1>1
  <2> QED
    BY <2>1, <2>2
<1> HIDE DEF c, n
<1>3. k \in Nat /\ k > 0 /\ k <= Len(c) + 1 /\ k - 1 <= n /\ k <= n + 1
  BY <1>1 DEF n
<1> DEFINE e == n + q
           b == e - 1
           hi == n + m
<1>4. /\ e \in Nat /\ b \in Nat /\ n <= b /\ b <= Len(c) /\ e <= Len(c) /\ e \in k .. Len(c) /\ hi \in Nat /\ hi <= Len(c)
      /\ k - 1 <= e /\ b \in n .. b /\ hi \in e .. hi /\ k - 1 <= n
  BY <1>1, <1>3
<1>5. \A p \in n + 1 .. hi : p # e => c[p] \notin {"lbrace", "rbrace"}
  <2>1. ASSUME NEW p \in n + 1 .. hi, p # e PROVE c[p] \notin {"lbrace", "rbrace"}
    <3>1. p - n \in 1 .. m /\ n + (p - n) = p /\ p - n # q
      BY <1>1, <2>1
    <3>2. c[p] = S[p - n]
      BY <1>1, <3>1
    <3> QED
      BY <3>1, <3>2
  <2> QED
    BY <2>1
<1>6. \A p \in n + 1 .. b : p \in n + 1 .. hi /\ p # e
  BY <1>1
<1>7. \A p \in e + 1 .. hi : p \in n + 1 .. hi /\ p # e
  BY <1>1
<1>8. c[e] = S[q]
  BY <1>1
<1> HIDE DEF k, b, hi, m
<1>9. Depth(c, k)[b] = Depth(c, k)[n]
  <2>1. Braceless(c, n, b)
    BY <1>5, <1>6, Zenon DEF Braceless
  <2>2. Rests(c, k, n, b)
    <3>1. /\ c \in Seq(Letter) /\ k \in Nat /\ k > 0 /\ k <= Len(c) + 1
          /\ n \in Nat /\ b \in Nat /\ k - 1 <= n /\ b <= Len(c)
      BY <1>1, <1>3, <1>4
    <3> QED
      BY <2>1, <3>1, DepthStill
  <2> QED
    BY <1>4, <2>2, Zenon DEF Rests
<1> HIDE DEF e
<1>10. Depth(c, k)[hi] = Depth(c, k)[e]
  <2>1. Braceless(c, e, hi)
    BY <1>5, <1>7, Zenon DEF Braceless
  <2>2. Rests(c, k, e, hi)
    <3>1. /\ c \in Seq(Letter) /\ k \in Nat /\ k > 0 /\ k <= Len(c) + 1
          /\ e \in Nat /\ hi \in Nat /\ k - 1 <= e /\ hi <= Len(c)
      BY <1>1, <1>3, <1>4
    <3> QED
      BY <2>1, <3>1, DepthStill
  <2> QED
    BY <1>4, <2>2, Zenon DEF Rests
<1>11. Depth(c, k)[e] = Deeper(c[e], Depth(c, k)[b])
  <2>1. \A p \in k .. Len(c) : Depth(c, k)[p] = Deeper(c[p], Depth(c, k)[p - 1])
    BY <1>1, <1>3, DepthIs
  <2>2. Depth(c, k)[e] = Deeper(c[e], Depth(c, k)[e - 1])
    BY <1>4, <2>1
  <2> QED
    BY <2>2 DEF b
<1>12. Depth(c, k)[hi] = Deeper(S[q], Depth(code, k)[n])
  BY <1>2, <1>8, <1>9, <1>10, <1>11
<1> QED
  BY <1>12 DEF c, n, m, k, hi

(* Every tag goes on or ends. *)
LEMMA TagsGoOn ==
  ASSUME Core, TagsEnd(code, open, where), NEW S, Adds(S),
         \A k \in 1 .. Len(S) : BeginsTag(code', Len(code) + k) => Len(code) + k \in PendingAt(open', where'),
         \A d \in Pending(open', where') : Begun(code', open', d),
         \A i \in PendingAt(open, where) : i \notin PendingAt(open', where') => EndsOf(code', i) # {}
  PROVE  TagsEnd(code', open', where')
<1> DEFINE n == Len(code)
           m == Len(S)
           c == code'
<1>1. n \in Nat /\ m \in Nat /\ Len(c) = n + m
  BY AddsIs
<1>2. ASSUME NEW i \in 1 .. Len(c), BeginsTag(c, i), i \notin PendingAt(open', where') PROVE EndsOf(c, i) # {}
  <2>1. CASE i \in 1 .. n
    <3>1. BeginsTag(code, i) /\ i + 1 <= n
      BY <1>2, <2>1, BeginsSame
    <3>2. CASE i \in PendingAt(open, where)
      BY <1>2, <3>2
    <3>3. CASE i \notin PendingAt(open, where)
      <4>1. EndsOf(code, i) # {}
        BY <2>1, <3>1, <3>3 DEF TagsEnd
      <4>2. i \in Nat /\ i > 0
        BY <1>1
      <4>3. EndsOf(code, i) \subseteq EndsOf(code', i)
        BY <3>1, <4>2, EndsGrow
      <4> QED
        BY <4>1, <4>3
    <3> QED
      BY <3>2, <3>3
  <2>2. CASE i \notin 1 .. n
    <3>1. i - n \in 1 .. m /\ n + (i - n) = i
      BY <1>1, <2>2
    <3> QED
      BY <1>2, <3>1
  <2> QED
    BY <2>1, <2>2
<1> QED
  BY <1>2 DEF TagsEnd

(* A tag goes on over letters without braces, and over one brace. *)
LEMMA QuietBegun ==
  ASSUME Core, TagsEnd(code, open, where), NEW S, Adds(S), \A k \in 1 .. Len(S) : S[k] \notin {"lbrace", "rbrace"},
         NEW d \in Pending(open, where), open'[d] = open[d], Braces(open', d) = Braces(open, d),
         d = Len(open) => \A k \in 1 .. Len(S) : S[k] # ">"
  PROVE  Begun(code', open', d)
<1> DEFINE i == open[d].at
           n == Len(code)
           m == Len(S)
           e == n + m
<1>1. Begun(code, open, d)
  BY DEF TagsEnd
<1>2. i + 1 <= n /\ Depth(code, i + 2)[n] = Cardinality(Braces(open, d))
  BY <1>1 DEF Begun
<1>3. i \in Nat /\ i > 0 /\ n \in Nat /\ m \in Nat /\ \A k \in 1 .. m : code'[n + k] = S[k]
  BY AddsIs, PendingIs
<1>4. \A p \in n .. e : Depth(code', i + 2)[p] = Cardinality(Braces(open, d))
  <2> HIDE DEF i
  <2>1. \A p \in n .. n + m : Depth(code', i + 2)[p] = Depth(code, i + 2)[n]
    BY <1>2, <1>3, DepthSame
  <2> QED
    BY <1>2, <2>1
<1>5. Depth(code', i + 2)[e] = Cardinality(Braces(open', d))
  <2>1. e \in n .. e
    BY <1>3
  <2> QED
    BY <1>4, <2>1
<1>6. ASSUME NEW p \in n + 1 .. e PROVE ~(code'[p] = ">" /\ Depth(code', i + 2)[p] = 0)
  <2>1. p - n \in 1 .. m /\ n + (p - n) = p /\ p \in n .. e
    BY <1>3
  <2>2. code'[p] = S[p - n]
    BY <1>3, <2>1
  <2>3. CASE d = Len(open)
    BY <2>1, <2>2, <2>3
  <2>4. CASE d # Len(open)
    <3>1. Braces(open, d) # {}
      BY <2>4, PendingIs
    <3>2. Cardinality(Braces(open, d)) # 0
      <4>1. open \in Seq(Frame) /\ d \in Nat
        BY CoreTypes, PendingIs
      <4> QED
        BY <3>1, <4>1, BracesAre
    <3> QED
      BY <1>4, <2>1, <3>2
  <2> QED
    BY <2>3, <2>4
<1> QED
  BY <1>1, <1>5, <1>6, GoesOn

(* A brace changes the depth of a tag as it changes the braces above it. *)
LEMMA BraceBegun ==
  ASSUME Core, TagsEnd(code, open, where), NEW S, Adds(S), NEW q \in 1 .. Len(S),
         \A k \in 1 .. Len(S) : (k # q => S[k] \notin {"lbrace", "rbrace"}) /\ S[k] # ">",
         NEW d \in Pending(open, where), open'[d] = open[d],
         Cardinality(Braces(open', d)) = Deeper(S[q], Cardinality(Braces(open, d)))
  PROVE  Begun(code', open', d)
<1> DEFINE i == open[d].at
           n == Len(code)
           m == Len(S)
           e == n + m
<1>1. Begun(code, open, d)
  BY DEF TagsEnd
<1>2. i + 1 <= n /\ Depth(code, i + 2)[n] = Cardinality(Braces(open, d))
  BY <1>1 DEF Begun
<1>3. i \in Nat /\ i > 0 /\ n \in Nat /\ m \in Nat /\ \A k \in 1 .. m : code'[n + k] = S[k]
  BY AddsIs, PendingIs
<1>4. Depth(code', i + 2)[e] = Cardinality(Braces(open', d))
  <2> HIDE DEF i
  <2>1. \A k \in 1 .. Len(S) : k # q => S[k] \notin {"lbrace", "rbrace"}
    OBVIOUS
  <2>2. Depth(code', i + 2)[n + m] = Deeper(S[q], Depth(code, i + 2)[n])
    BY <1>2, <1>3, <2>1, DepthOne
  <2> QED
    BY <1>2, <2>2
<1>5. ASSUME NEW p \in n + 1 .. e PROVE ~(code'[p] = ">" /\ Depth(code', i + 2)[p] = 0)
  <2>1. p - n \in 1 .. m /\ n + (p - n) = p
    BY <1>3
  <2> QED
    BY <1>3, <2>1
<1> QED
  BY <1>1, <1>4, <1>5, GoesOn

(* The braces above a frame when something is opened. *)
LEMMA BracesPush ==
  ASSUME NEW o \in Seq(Frame), NEW f \in Frame, NEW d \in 1 .. Len(o)
  PROVE  /\ f.what = "lbrace" =>
              Cardinality(Braces(Append(o, f), d)) = Cardinality(Braces(o, d)) + 1
         /\ f.what # "lbrace" => Braces(Append(o, f), d) = Braces(o, d)
<1> DEFINE p == Append(o, f)
           z == Len(o)
           B == Braces(o, d)
<1>1. z \in Nat /\ Len(p) = z + 1 /\ p[z + 1] = f /\ \A e \in 1 .. z : p[e] = o[e]
  BY AppendProperties, LenProperties
<1> HIDE DEF p
<1>2. \A e \in d + 1 .. z + 1 : e = z + 1 \/ e \in d + 1 .. z
  BY <1>1
<1>3. z + 1 \in d + 1 .. z + 1 /\ \A e \in d + 1 .. z : e \in d + 1 .. z + 1 /\ e \in 1 .. z /\ e # z + 1
  BY <1>1
<1>4. Braces(p, d) = {e \in d + 1 .. z + 1 : p[e].what = "lbrace"}
  BY <1>1 DEF Braces
<1>5. B = {e \in d + 1 .. z : o[e].what = "lbrace"}
  BY DEF Braces
<1>6. f.what # "lbrace" => Braces(p, d) = B
  <2> HIDE DEF z, B
  <2> QED
    BY <1>1, <1>2, <1>3, <1>4, <1>5
<1>7. f.what = "lbrace" => Braces(p, d) = B \cup {z + 1} /\ z + 1 \notin B
  <2> HIDE DEF z, B
  <2> QED
    BY <1>1, <1>2, <1>3, <1>4, <1>5
<1>8. IsFiniteSet(B) /\ d \in Nat
  BY BracesAre
<1> HIDE DEF B, z
<1>9. z + 1 \notin B => Cardinality(B \cup {z + 1}) = Cardinality(B) + 1
  BY <1>8, FS_AddElement
<1> QED
  BY <1>6, <1>7, <1>9 DEF p, B

(* The braces above a frame when the top is closed. *)
LEMMA BracesPop ==
  ASSUME NEW o \in Seq(Frame), o # << >>, NEW d \in 1 .. Len(o) - 1
  PROVE  LET p == SubSeq(o, 1, Len(o) - 1)
             f == o[Len(o)] IN
         /\ f.what \in Opener =>
              Cardinality(Braces(p, d)) = Deeper(Closing(f.what), Cardinality(Braces(o, d)))
         /\ f.what # "lbrace" => Braces(p, d) = Braces(o, d)
<1> DEFINE p == SubSeq(o, 1, Len(o) - 1)
           z == Len(o)
           f == o[Len(o)]
           B == Braces(o, d)
<1>1. z \in Nat /\ z > 0 /\ Len(p) = z - 1 /\ \A e \in 1 .. z - 1 : p[e] = o[e]
  BY PopIs
<1> HIDE DEF p, z, f, B
<1>2. \A e \in d + 1 .. z : e # z => e \in d + 1 .. z - 1
  BY <1>1
<1> USE DEF z, f, B
<1>3. z \in d + 1 .. z /\ \A e \in d + 1 .. z - 1 : e \in d + 1 .. z /\ e \in 1 .. z - 1 /\ e # z
  BY <1>1
<1>4. Braces(p, d) = {e \in d + 1 .. z - 1 : p[e].what = "lbrace"}
  BY <1>1 DEF Braces
<1>5. B = {e \in d + 1 .. z : o[e].what = "lbrace"}
  BY DEF Braces
<1>6. f.what # "lbrace" => Braces(p, d) = B
  <2>1. f = o[z]
    OBVIOUS
  <2> HIDE DEF z, B, f
  <2> QED
    BY <1>1, <1>2, <1>3, <1>4, <1>5, <2>1
<1>7. f.what = "lbrace" => Braces(p, d) = B \ {z} /\ z \in B
  <2>1. f = o[z]
    OBVIOUS
  <2> HIDE DEF z, B, f
  <2> QED
    BY <1>1, <1>2, <1>3, <1>4, <1>5, <2>1
<1>8. IsFiniteSet(B) /\ d \in Nat /\ Cardinality(B) \in Nat
  <2>1. d \in Nat
    BY <1>1
  <2> QED
    BY <2>1, BracesAre
<1> HIDE DEF B, z, f
<1>9. z \in B => Cardinality(B \ {z}) = Cardinality(B) - 1 /\ Cardinality(B) > 0
  <2> SUFFICES ASSUME z \in B PROVE Cardinality(B \ {z}) = Cardinality(B) - 1 /\ Cardinality(B) > 0
    OBVIOUS
  <2>1. Cardinality(B \ {z}) = Cardinality(B) - 1
    BY <1>8, FS_RemoveElement
  <2>2. Cardinality(B) # 0
    BY <1>8, FS_EmptySet
  <2> QED
    BY <1>8, <2>1, <2>2
<1>10. f.what = "lbrace" => Deeper(Closing(f.what), Cardinality(B)) = Cardinality(B) - 1
  BY <1>7, <1>9 DEF Deeper, Closing
<1>11. f.what = "(" => Deeper(Closing(f.what), Cardinality(B)) = Cardinality(B)
  BY DEF Deeper, Closing
<1> QED
  BY <1>6, <1>7, <1>9, <1>10, <1>11 DEF p, B, f, Opener

(* At the end of a tag it is no longer one without an end. *)
LEMMA PendingEnd ==
  ASSUME Core, where = "tag", where' = "children", open' = open
  PROVE  LET z == Len(open) IN
         /\ z \in Pending(open, where) /\ open # << >>
         /\ Pending(open', where') = Pending(open, where) \ {z}
         /\ PendingAt(open', where') = PendingAt(open, where) \ {open[z].at}
<1> DEFINE z == Len(open)
<1>1. open # << >> /\ z \in Nat /\ z > 0
  BY InsideTop, CoreTypes, PopIs DEF Inside
<1>2. \A d \in 1 .. z : d # z => (After(open', where', d) = After(open, where, d))
  BY DEF After
<1>3. z \in 1 .. z /\ After(open, where, z) = "tag" /\ After(open', where', z) = "children"
  BY <1>1 DEF After
<1>4. Pending(open', where') = Pending(open, where) \ {z}
  BY <1>2, <1>3 DEF Pending
<1>5. z \in Pending(open, where)
  BY <1>3 DEF Pending
<1>6. \A d \in Pending(open, where) : d # z => open[d].at # open[z].at
  BY <1>3, AtOnce DEF Pending
<1>7. PendingAt(open', where') = PendingAt(open, where) \ {open[z].at}
  <2> HIDE DEF z
  <2> QED
    BY <1>4, <1>5, <1>6 DEF PendingAt
<1> QED
  BY <1>1, <1>4, <1>5, <1>7

(* Whether a tag begins at a letter of these. *)
LEMMA NoTagAt ==
  ASSUME Core, NEW S, Adds(S), NEW k \in 1 .. Len(S),
         S[k] # "<" \/ (k < Len(S) /\ S[k + 1] \notin Word) \/ k = Len(S)
  PROVE  ~BeginsTag(code', Len(code) + k)
<1> DEFINE n == Len(code)
           c == code'
<1>1. /\ c \in Seq(Letter) /\ Len(c) = n + Len(S) /\ n \in Nat /\ Len(S) \in Nat
      /\ \A j \in 1 .. Len(S) : c[n + j] = S[j]
  BY AddsIs
<1>2. CASE S[k] # "<"
  <2>1. c[n + k] # "<"
    BY <1>1, <1>2
  <2> QED
    BY <2>1 DEF BeginsTag
<1>3. CASE k < Len(S) /\ S[k + 1] \notin Word
  <2>1. k + 1 \in 1 .. Len(S) /\ n + k + 1 = n + (k + 1) /\ n + k + 1 \in 1 .. Len(c) /\ n + k + 1 \in Int
    BY <1>1, <1>3
  <2>2. At(c, n + k + 1) = S[k + 1]
    BY <1>1, <2>1, AtIs
  <2>3. TagName(c, n + k + 1) = "none"
    BY <1>3, <2>2 DEF TagName
  <2> QED
    BY <2>3 DEF BeginsTag
<1>4. CASE k = Len(S)
  <2>1. n + k + 1 \in Int /\ n + k + 1 > Len(c)
    BY <1>1, <1>4
  <2>2. TagName(c, n + k + 1) = "none"
    BY <1>1, <2>1, AtIs
  <2> QED
    BY <2>2 DEF BeginsTag
<1> QED
  BY <1>2, <1>3, <1>4

(* Letters by which no tag begins or ends. *)
LEMMA PlainEnds ==
  ASSUME Core, TagsEnd(code, open, where), NEW S, PlainMove(S)
  PROVE  TagsEnd(code', open', where')
<1>1. /\ Adds(S) /\ open' = open /\ (where' = "tag" <=> where = "tag")
      /\ \A k \in 1 .. Len(S) :
           /\ S[k] \notin Bracket \cup {"/"}
           /\ S[k] = ">" => where # "tag"
           /\ S[k] = "<" => ~BeginsTag(code', Len(code) + k)
  BY DEF PlainMove
<1>2. /\ Pending(open', where') = Pending(open, where)
      /\ PendingAt(open', where') = PendingAt(open, where)
  BY <1>1, PendingSame
<1>3. \A k \in 1 .. Len(S) : ~BeginsTag(code', Len(code) + k)
  BY <1>1, NoTagAt
<1>4. ASSUME NEW d \in Pending(open, where) PROVE Begun(code', open', d)
  <2>1. \A k \in 1 .. Len(S) : S[k] \notin {"lbrace", "rbrace"}
    BY <1>1, BracketIs
  <2>2. open'[d] = open[d] /\ Braces(open', d) = Braces(open, d)
    BY <1>1
  <2>3. d = Len(open) => \A k \in 1 .. Len(S) : S[k] # ">"
    BY <1>1, PendingIs
  <2> QED
    BY <1>1, <2>1, <2>2, <2>3, QuietBegun
<1> QED
  BY <1>1, <1>2, <1>3, <1>4, TagsGoOn

(* No tag ends at an opening bracket. *)
LEMMA OpenEnds ==
  ASSUME Core, TagsEnd(code, open, where), NEW S, NEW p, NEW after, OpenMove(S, p, after)
  PROVE  /\ TagsEnd(code', open', where')
         /\ Pending(open', where') = Pending(open, where)
         /\ PendingAt(open', where') = PendingAt(open, where)
         /\ KeptOf(open', Element) = KeptOf(open, Element)
         /\ \A d \in 1 .. Len(open) : d \in 1 .. Len(open') /\ open'[d] = open[d]
<1> DEFINE z == Len(open)
           f == [what |-> S[p], at |-> Len(code) + p, after |-> after]
<1>1. /\ Adds(S) /\ p \in 1 .. Len(S) /\ S[p] \in Opener /\ after \in Places \ {"operand"}
      /\ open' = Append(open, f) /\ (after = "tag" <=> where = "tag") /\ where' = "operand"
      /\ \A k \in 1 .. Len(S) : (k # p => S[k] \notin Bracket) /\ S[k] \notin {"<", ">", "/"}
  BY DEF OpenMove
<1>2. f \in Frame /\ f.what = S[p] /\ f.after = after
  <2>1. Len(code) + p \in Nat \ {0}
    BY <1>1, AddsIs
  <2> QED
    BY <1>1, <2>1 DEF Frame
<1> HIDE DEF f
<1>3. open \in Seq(Frame)
  BY CoreTypes
<1>4. /\ Pending(open', where') = Pending(open, where)
      /\ PendingAt(open', where') = PendingAt(open, where)
      /\ \A d \in 1 .. z : d \in 1 .. Len(open') /\ open'[d] = open[d]
  <2>1. f.after = "tag" <=> where = "tag"
    BY <1>1, <1>2
  <2>2. /\ Pending(open', where') = Pending(open, where) \cup (IF where' = "tag" THEN {z + 1} ELSE {})
        /\ PendingAt(open', where') = PendingAt(open, where) \cup (IF where' = "tag" THEN {f.at} ELSE {})
        /\ \A d \in 1 .. z : d \in 1 .. Len(open') /\ open'[d] = open[d]
    BY <1>1, <1>2, <2>1, PendingPush
  <2> QED
    BY <1>1, <2>2
<1>5. KeptOf(open', Element) = KeptOf(open, Element)
  <2>1. KeptOf(open', Element) = KeptOf(open, Element) \cup (IF f.what \in Element THEN {z + 1} ELSE {})
    BY <1>1, <1>2, <1>3, KeptPush
  <2>2. f.what \notin Element
    BY <1>1, <1>2, ElementIs
  <2> QED
    BY <2>1, <2>2
<1>6. \A k \in 1 .. Len(S) : ~BeginsTag(code', Len(code) + k)
  BY <1>1, NoTagAt
<1>7. ASSUME NEW d \in Pending(open, where) PROVE Begun(code', open', d)
  <2>1. \A k \in 1 .. Len(S) : (k # p => S[k] \notin {"lbrace", "rbrace"}) /\ S[k] # ">"
    BY <1>1, BracketIs
  <2>2. d \in 1 .. z /\ open'[d] = open[d]
    BY <1>4, PendingIs
  <2>3. Cardinality(Braces(open', d)) = Deeper(S[p], Cardinality(Braces(open, d)))
    <3>1. /\ f.what = "lbrace" => Cardinality(Braces(open', d)) = Cardinality(Braces(open, d)) + 1
          /\ f.what # "lbrace" => Braces(open', d) = Braces(open, d)
      BY <1>1, <1>2, <1>3, <2>2, BracesPush
    <3>2. S[p] # "rbrace"
      BY <1>1 DEF Opener
    <3> QED
      BY <1>2, <3>1, <3>2 DEF Deeper
  <2> QED
    BY <1>1, <2>1, <2>2, <2>3, BraceBegun
<1> QED
  BY <1>1, <1>4, <1>5, <1>6, <1>7, TagsGoOn

(* No tag ends at a closing bracket. *)
LEMMA CloseEnds ==
  ASSUME Core, TagsEnd(code, open, where), CloseMove
  PROVE  /\ TagsEnd(code', open', where')
         /\ Pending(open', where') = Pending(open, where)
         /\ PendingAt(open', where') = PendingAt(open, where)
         /\ KeptOf(open', Element) = KeptOf(open, Element)
         /\ \A d \in KeptOf(open, Element) : d \in 1 .. Len(open') /\ open'[d] = open[d]
<1> DEFINE z == Len(open)
           S == <<Closing(Top.what)>>
<1>1. /\ Adds(S) /\ open # << >> /\ Top.what \in Opener /\ open' = Below /\ where' = Top.after
      /\ Len(S) = 1 /\ S[1] = Closing(Top.what)
  BY DEF CloseMove
<1> HIDE DEF S
<1>2. open \in Seq(Frame) /\ open' = SubSeq(open, 1, z - 1) /\ Top = open[z]
  BY <1>1, CoreTypes DEF Below, Top
<1>3. Top.what \notin Element
  BY <1>1, ElementIs
<1>4. where # "tag"
  BY <1>3, InsideTop DEF Inside
<1>5. /\ Pending(open', where') = Pending(open, where) \ {z}
      /\ PendingAt(open', where') = PendingAt(open, where)
      /\ \A d \in 1 .. z : d # z => d \in 1 .. Len(open') /\ open'[d] = open[d]
      /\ z \in Nat /\ z > 0
  <2>1. /\ Pending(open', where') = Pending(open, where) \ {z}
        /\ PendingAt(open', where') = PendingAt(open, where) \ (IF where = "tag" THEN {open[z].at} ELSE {})
        /\ \A d \in 1 .. z : d # z => d \in 1 .. Len(open') /\ open'[d] = open[d]
        /\ z \in Nat /\ z > 0
    BY <1>1, PendingPop
  <2> QED
    BY <1>4, <2>1
<1>6. z \notin Pending(open, where)
  <2>1. z \in Pending(open, where) => open[z].what \in Element
    BY PendingIs
  <2> QED
    BY <1>2, <1>3, <2>1
<1>7. /\ KeptOf(open', Element) = KeptOf(open, Element)
      /\ \A d \in KeptOf(open, Element) : d \in 1 .. Len(open') /\ open'[d] = open[d]
  <2>1. /\ KeptOf(open', Element) = KeptOf(open, Element) \ {z}
        /\ \A d \in KeptOf(open, Element) \ {z} : d \in 1 .. Len(open') /\ open'[d] = open[d]
    BY <1>1, <1>2, KeptPop
  <2>2. z \notin KeptOf(open, Element)
    BY <1>2, <1>3 DEF KeptOf
  <2> QED
    BY <2>1, <2>2
<1>8. S[1] \notin {"<", ">"}
  BY <1>1 DEF Opener, Closing
<1>9. \A k \in 1 .. Len(S) : k = 1
  BY <1>1
<1>10. \A k \in 1 .. Len(S) : ~BeginsTag(code', Len(code) + k)
  BY <1>1, <1>8, <1>9, NoTagAt
<1>11. ASSUME NEW d \in Pending(open, where) PROVE Begun(code', open', d)
  <2>1. 1 \in 1 .. Len(S) /\ \A k \in 1 .. Len(S) : (k # 1 => S[k] \notin {"lbrace", "rbrace"}) /\ S[k] # ">"
    BY <1>1, <1>8, <1>9
  <2>2. d \in 1 .. z /\ d # z
    BY <1>6, PendingIs
  <2>3. open'[d] = open[d] /\ d \in 1 .. z - 1
    BY <1>5, <2>2
  <2>4. Cardinality(Braces(open', d)) = Deeper(S[1], Cardinality(Braces(open, d)))
    <3>1. open[z].what \in Opener /\ S[1] = Closing(open[z].what)
      BY <1>1, <1>2
    <3> QED
      BY <1>1, <1>2, <2>3, <3>1, BracesPop
  <2> QED
    BY <1>1, <2>1, <2>3, <2>4, BraceBegun
<1>12. Pending(open', where') = Pending(open, where)
  BY <1>5, <1>6
<1>13. TagsEnd(code', open', where')
  BY <1>1, <1>5, <1>10, <1>11, <1>12, TagsGoOn
<1> QED
  BY <1>5, <1>7, <1>12, <1>13

(* A token without brackets has no braces. *)
LEMMA NoBraces ==
  ASSUME NEW S, \A k \in 1 .. Len(S) : S[k] \notin Bracket
  PROVE  \A k \in 1 .. Len(S) : S[k] \notin {"lbrace", "rbrace"}
BY BracketIs

(* A tag that begins has no end yet. *)
LEMMA StartEnds ==
  ASSUME Core, TagsEnd(code, open, where), NEW name \in Element, NEW after \in {"value", "children"},
         StartMove(name, after), "word<" \notin dialect.forms
  PROVE  LET z == Len(open) IN
         /\ TagsEnd(code', open', where')
         /\ PendingAt(open', where') = PendingAt(open, where) \cup {Len(code) + 1}
         /\ KeptOf(open', Element) = KeptOf(open, Element) \cup {z + 1}
         /\ \A d \in 1 .. z : d \in 1 .. Len(open') /\ open'[d] = open[d]
         /\ z \in Nat /\ z + 1 \in 1 .. Len(open') /\ open'[z + 1].what = name /\ open'[z + 1].at = Len(code) + 1
         /\ BeginsTag(code', Len(code) + 1) /\ TagName(code', Len(code) + 2) = name
         /\ ~SelfCloses(code', Len(code) + 3)
<1> DEFINE z == Len(open)
           n == Len(code)
           S == <<"<", name>>
           f == [what |-> name, at |-> n + 1, after |-> after]
<1>1. /\ Adds(S) /\ open' = Append(open, f) /\ where' = "tag" /\ where \in {"operand", "children"}
      /\ BeginsTag(code', n + 1)
  BY DEF StartMove
<1>2. Len(S) = 2 /\ S[1] = "<" /\ S[2] = name /\ name \in Word /\ name # "<"
  BY ElementIs, Letters, Two
<1>3. \A k \in 1 .. Len(S) : S[k] \notin {"lbrace", "rbrace"} /\ S[k] # ">"
  <2>1. \A k \in 1 .. Len(S) : S[k] \notin Bracket
    BY TagLetters
  <2>2. \A k \in 1 .. Len(S) : S[k] \notin {"lbrace", "rbrace"}
    BY <2>1, NoBraces
  <2>3. \A k \in 1 .. Len(S) : k \in {1, 2}
    BY <1>2
  <2>4. name # ">"
    BY DEF Element
  <2> QED
    BY <1>2, <2>2, <2>3, <2>4
<1> HIDE DEF S
<1>4. /\ n \in Nat /\ code' \in Seq(Letter) /\ Len(code') = n + 2 /\ \A k \in 1 .. 2 : code'[n + k] = S[k]
  BY <1>1, <1>2, AddsIs
<1>5. f \in Frame /\ f.what = name /\ f.at = n + 1 /\ f.after # "tag"
  <2>1. n + 1 \in Nat \ {0}
    BY <1>4
  <2> QED
    BY <2>1 DEF Frame, Places
<1> HIDE DEF f
<1>6. open \in Seq(Frame)
  BY CoreTypes
<1>7. /\ Pending(open', where') = Pending(open, where) \cup {z + 1}
      /\ PendingAt(open', where') = PendingAt(open, where) \cup {n + 1}
      /\ \A d \in 1 .. z : d \in 1 .. Len(open') /\ open'[d] = open[d]
      /\ z \in Nat /\ Len(open') = z + 1 /\ open'[z + 1] = f
  <2>1. f.after = "tag" <=> where = "tag"
    BY <1>1, <1>5
  <2>2. /\ Pending(open', where') = Pending(open, where) \cup (IF where' = "tag" THEN {z + 1} ELSE {})
        /\ PendingAt(open', where') = PendingAt(open, where) \cup (IF where' = "tag" THEN {f.at} ELSE {})
        /\ \A d \in 1 .. z : d \in 1 .. Len(open') /\ open'[d] = open[d]
        /\ z \in Nat /\ Len(open') = z + 1 /\ open'[z + 1] = f
    BY <1>1, <1>5, <2>1, PendingPush
  <2> QED
    BY <1>1, <1>5, <2>2
<1>8. KeptOf(open', Element) = KeptOf(open, Element) \cup {z + 1}
  <2>1. KeptOf(open', Element) = KeptOf(open, Element) \cup (IF f.what \in Element THEN {z + 1} ELSE {})
    BY <1>1, <1>5, <1>6, KeptPush
  <2> QED
    BY <1>5, <2>1
<1>9. TagName(code', n + 2) = name
  <2>1. n + 2 \in 1 .. Len(code') /\ n + 2 \in Int /\ 2 \in 1 .. 2
    BY <1>4
  <2>2. At(code', n + 2) = name /\ code'[n + 2] = name
    BY <1>2, <1>4, <2>1, AtIs
  <2> QED
    BY <1>2, <2>2 DEF TagName
<1>10. EndsOf(code', n + 1) = {}
  <2>1. n + 1 + 2 .. n + 2 = {}
    BY <1>4
  <2> QED
    BY <1>4, <2>1 DEF EndsOf
<1>11. Begun(code', open', z + 1)
  <2>1. open'[z + 1].at = n + 1 /\ open'[z + 1].what = name
    BY <1>5, <1>7
  <2>2. n + 1 + 1 <= Len(code') /\ n + 1 + 1 = n + 2
    BY <1>4
  <2>3. Depth(code', n + 1 + 2)[Len(code')] = 0
    <3> DEFINE k == n + 1 + 2
    <3>1. k \in Nat /\ k > 0 /\ k <= Len(code') + 1 /\ k - 1 = Len(code')
      BY <1>4
    <3> HIDE DEF k
    <3>2. Depth(code', k)[k - 1] = 0
      BY <1>4, <3>1, DepthIs
    <3> QED
      BY <3>1, <3>2 DEF k
  <2>4. Cardinality(Braces(open', z + 1)) = 0
    <3>1. z + 1 >= Len(open') /\ z + 1 \in Nat
      BY <1>7
    <3>2. open' \in Seq(Frame)
      BY <1>1, <1>5, <1>6, AppendProperties
    <3> QED
      BY <3>1, <3>2, BracesAre
  <2> QED
    BY <1>1, <1>9, <1>10, <2>1, <2>2, <2>3, <2>4 DEF Begun
<1>12. ASSUME NEW k \in 1 .. Len(S), BeginsTag(code', n + k) PROVE n + k \in PendingAt(open', where')
  <2>1. k = 1 \/ k = Len(S)
    BY <1>2
  <2>2. k # Len(S)
    BY <1>1, <1>12, NoTagAt
  <2> QED
    BY <1>7, <2>1, <2>2
<1>13. ASSUME NEW d \in Pending(open, where) PROVE Begun(code', open', d)
  <2>1. d \in 1 .. z
    BY PendingIs
  <2>2. open'[d] = open[d] /\ Braces(open', d) = Braces(open, d)
    <3>1. f.what # "lbrace"
      BY <1>5 DEF Element
    <3> QED
      BY <1>1, <1>5, <1>6, <1>7, <2>1, <3>1, BracesPush
  <2> QED
    BY <1>1, <1>3, <2>2, QuietBegun
<1>14. TagsEnd(code', open', where')
  <2>1. \A d \in Pending(open', where') : Begun(code', open', d)
    BY <1>7, <1>11, <1>13
  <2>2. \A i \in PendingAt(open, where) : i \notin PendingAt(open', where') => EndsOf(code', i) # {}
    BY <1>7
  <2> QED
    BY <1>1, <1>12, <2>1, <2>2, TagsGoOn
<1>15. ~SelfCloses(code', n + 3)
  <2>1. EndsOf(code', n + 1) = {p \in n + 3 .. Len(code') : code'[p] = ">" /\ Depth(code', n + 3)[p] = 0}
    <3>1. n + 1 + 2 = n + 3
      BY <1>4
    <3> QED
      BY <3>1 DEF EndsOf
  <2> QED
    BY <1>10, <2>1 DEF SelfCloses, ClosesItself
<1>16. z + 1 \in 1 .. Len(open')
  BY <1>7
<1> QED
  BY <1>1, <1>5, <1>7, <1>8, <1>9, <1>14, <1>15, <1>16

(* A ">" where the tag may end ends it. *)
LEMMA TagsTop ==
  ASSUME Core, TagsEnd(code, open, where), where = "tag", NEW S, Adds(S),
         \A k \in 1 .. Len(S) : S[k] \notin Bracket, NEW q \in 1 .. Len(S), S[q] = ">",
         \A k \in 1 .. Len(S) : k # q => S[k] # ">"
  PROVE  LET i == open[Len(open)].at IN
         /\ i \in Nat /\ i > 0 /\ i + 1 <= Len(code) /\ EndsOf(code, i) = {}
         /\ EndsOf(code', i) = {Len(code) + q}
         /\ SelfCloses(code', i + 2) <=> code'[Len(code) + q - 1] = "/"
<1> DEFINE z == Len(open)
           i == open[z].at
           n == Len(code)
           m == Len(S)
<1>1. open # << >> /\ z \in Nat /\ z > 0
  BY InsideTop, CoreTypes, PopIs DEF Inside
<1>2. z \in Pending(open, where)
  BY <1>1 DEF Pending, After
<1>3. Braces(open, z) = {} /\ i \in Nat /\ i > 0
  BY <1>2, PendingIs
<1>4. Begun(code, open, z)
  BY <1>2 DEF TagsEnd
<1>5. Cardinality(Braces(open, z)) = 0
  BY <1>1, <1>3, CoreTypes, BracesAre
<1>6. i + 1 <= n /\ EndsOf(code, i) = {} /\ Depth(code, i + 2)[n] = 0
  BY <1>4, <1>5 DEF Begun
<1>7. n \in Nat /\ m \in Nat /\ \A k \in 1 .. m : code'[n + k] = S[k]
  BY AddsIs
<1> HIDE DEF i
<1>8. \A p \in n .. n + m : Depth(code', i + 2)[p] = 0
  <2>1. \A k \in 1 .. Len(S) : S[k] \notin {"lbrace", "rbrace"}
    BY NoBraces
  <2>2. \A p \in n .. n + m : Depth(code', i + 2)[p] = Depth(code, i + 2)[n]
    BY <1>3, <1>6, <2>1, DepthSame
  <2> QED
    BY <1>6, <2>2
<1>9. EndsOf(code', i) = {p \in n + 1 .. n + m : code'[p] = ">" /\ Depth(code', i + 2)[p] = 0}
  <2>1. EndsOf(code', i) = EndsOf(code, i) \cup {p \in n + 1 .. n + m : code'[p] = ">" /\ Depth(code', i + 2)[p] = 0}
    BY <1>3, <1>6, EndsGrow
  <2> QED
    BY <1>6, <2>1
<1>10. n + q \in n + 1 .. n + m /\ n + q \in n .. n + m /\ code'[n + q] = ">"
  BY <1>7
<1>11. ASSUME NEW p \in n + 1 .. n + m, p # n + q PROVE code'[p] # ">"
  <2>1. p - n \in 1 .. m /\ n + (p - n) = p /\ p - n # q
    BY <1>7, <1>11
  <2> QED
    BY <1>7, <2>1
<1>12. EndsOf(code', i) = {n + q}
  BY <1>8, <1>9, <1>10, <1>11
<1>13. SelfCloses(code', i + 2) <=> ClosesItself(code', {n + q})
  <2>1. SelfCloses(code', i + 2) <=> ClosesItself(code', EndsOf(code', i))
    BY DEF SelfCloses, EndsOf
  <2> QED
    BY <1>12, <2>1
<1>14. Min({n + q}) = n + q
  <2> DEFINE e == n + q
  <2>1. {e} \in SUBSET Nat /\ e \in {e} /\ \A j \in {e} : e <= j
    BY <1>7
  <2> HIDE DEF e
  <2>2. Min({e}) = e
    BY <2>1, MinIsThis
  <2> QED
    BY <2>2 DEF e
<1>15. SelfCloses(code', i + 2) <=> code'[n + q - 1] = "/"
  BY <1>13, <1>14 DEF ClosesItself
<1> QED
  BY <1>3, <1>6, <1>12, <1>15 DEF i

(* A tag ends at its ">", and does not close itself. *)
LEMMA EndEnds ==
  ASSUME Core, TagsEnd(code, open, where), EndMove
  PROVE  LET i == open[Len(open)].at IN
         /\ TagsEnd(code', open', where')
         /\ PendingAt(open', where') = PendingAt(open, where) \ {i}
         /\ i \in Nat /\ i > 0 /\ i + 1 <= Len(code) /\ ~SelfCloses(code', i + 2)
<1> DEFINE z == Len(open)
           i == open[z].at
           n == Len(code)
           S == <<">">>
<1>1. Adds(S) /\ open' = open /\ where = "tag" /\ where' = "children"
  BY DEF EndMove
<1>2. Len(S) = 1 /\ S[1] = ">" /\ \A k \in 1 .. Len(S) : k = 1
  OBVIOUS
<1>3. \A k \in 1 .. Len(S) : S[k] \notin Bracket
  BY TagLetters DEF Element
<1> HIDE DEF S
<1>4. n \in Nat
  BY <1>1, AddsIs
<1>5. /\ i \in Nat /\ i > 0 /\ i + 1 <= n
      /\ EndsOf(code', i) = {n + 1}
      /\ SelfCloses(code', i + 2) <=> code'[n + 1 - 1] = "/"
  <2>1. 1 \in 1 .. Len(S) /\ \A k \in 1 .. Len(S) : k # 1 => S[k] # ">"
    BY <1>2
  <2> QED
    BY <1>1, <1>2, <1>3, <2>1, TagsTop
<1>6. /\ z \in Pending(open, where)
      /\ Pending(open', where') = Pending(open, where) \ {z}
      /\ PendingAt(open', where') = PendingAt(open, where) \ {i}
  BY <1>1, PendingEnd
<1> HIDE DEF i
<1>7. ~SelfCloses(code', i + 2)
  <2>1. n + 1 - 1 = n /\ n \in 1 .. n
    BY <1>4, <1>5
  <2>2. code'[n] = At(code, n)
    BY <1>1, <2>1, AtSame
  <2>3. At(code, n) # "/"
    BY DEF Core, Shape, EndsWell, Last
  <2> QED
    BY <1>5, <2>1, <2>2, <2>3
<1>8. \A k \in 1 .. Len(S) : ~BeginsTag(code', n + k)
  BY <1>1, <1>2, NoTagAt
<1>9. ASSUME NEW d \in Pending(open, where), d # z PROVE Begun(code', open', d)
  <2>1. \A k \in 1 .. Len(S) : S[k] \notin {"lbrace", "rbrace"}
    BY <1>3, NoBraces
  <2>2. open'[d] = open[d] /\ Braces(open', d) = Braces(open, d)
    BY <1>1
  <2> QED
    BY <1>1, <1>9, <2>1, <2>2, QuietBegun
<1>10. TagsEnd(code', open', where')
  <2>1. \A d \in Pending(open', where') : Begun(code', open', d)
    BY <1>6, <1>9
  <2>2. \A j \in PendingAt(open, where) : j \notin PendingAt(open', where') => EndsOf(code', j) # {}
    BY <1>5, <1>6
  <2> QED
    BY <1>1, <1>8, <2>1, <2>2, TagsGoOn
<1> QED
  BY <1>5, <1>6, <1>7, <1>10 DEF i

(* What is kept of the elements when the innermost is closed. *)
LEMMA ElementTop ==
  ASSUME Core, open # << >>, Top.what \in Element, open' = Below
  PROVE  LET z == Len(open) IN
         /\ z \in KeptOf(open, Element)
         /\ KeptOf(open', Element) = KeptOf(open, Element) \ {z}
         /\ \A d \in KeptOf(open, Element) : d <= z
         /\ \A d \in KeptOf(open, Element) \ {z} : d \in 1 .. Len(open') /\ open'[d] = open[d]
         /\ \A d \in 1 .. z - 1 : Braces(open', d) = Braces(open, d)
<1> DEFINE z == Len(open)
<1>1. open \in Seq(Frame) /\ open' = SubSeq(open, 1, z - 1) /\ Top = open[z] /\ z \in Nat /\ z > 0
  BY CoreTypes, PopIs DEF Below, Top
<1>2. z \in KeptOf(open, Element)
  BY <1>1 DEF KeptOf
<1>3. /\ KeptOf(open', Element) = KeptOf(open, Element) \ {z}
      /\ \A d \in KeptOf(open, Element) : d <= z
      /\ \A d \in KeptOf(open, Element) \ {z} : d \in 1 .. Len(open') /\ open'[d] = open[d]
  BY <1>1, KeptPop
<1>4. \A d \in 1 .. z - 1 : Braces(open', d) = Braces(open, d)
  <2>1. open[z].what # "lbrace"
    BY <1>1, ElementIs, Zenon DEF Opener
  <2> QED
    BY <1>1, <2>1, BracesPop
<1> QED
  BY <1>2, <1>3, <1>4

(* A tag that ends with "/" and ">" closes itself. *)
LEMMA SelfCloseEnds ==
  ASSUME Core, TagsEnd(code, open, where), SelfCloseMove
  PROVE  LET i == open[Len(open)].at IN
         /\ TagsEnd(code', open', where')
         /\ PendingAt(open', where') = PendingAt(open, where) \ {i}
         /\ i \in Nat /\ i > 0 /\ i + 1 <= Len(code) /\ SelfCloses(code', i + 2)
         /\ i \in PendingAt(open, where) /\ Top.what \in Element
<1> DEFINE z == Len(open)
           i == open[z].at
           n == Len(code)
           S == <<"/", ">">>
<1>1. Adds(S) /\ open # << >> /\ open' = Below /\ where = "tag" /\ where' = Top.after
  BY DEF SelfCloseMove
<1>2. Len(S) = 2 /\ S[1] = "/" /\ S[2] = ">" /\ \A k \in 1 .. Len(S) : k \in {1, 2}
  OBVIOUS
<1>3. \A k \in 1 .. Len(S) : S[k] \notin Bracket
  BY TagLetters DEF Element
<1> HIDE DEF S
<1>4. n \in Nat /\ \A k \in 1 .. Len(S) : code'[n + k] = S[k]
  BY <1>1, AddsIs
<1>5. /\ i \in Nat /\ i > 0 /\ i + 1 <= n
      /\ EndsOf(code', i) = {n + 2}
      /\ SelfCloses(code', i + 2) <=> code'[n + 2 - 1] = "/"
  <2>1. 2 \in 1 .. Len(S) /\ \A k \in 1 .. Len(S) : k # 2 => S[k] # ">"
    BY <1>2
  <2> QED
    BY <1>1, <1>2, <1>3, <2>1, TagsTop
<1>6. /\ Pending(open', where') = Pending(open, where) \ {z}
      /\ PendingAt(open', where') = PendingAt(open, where) \ {i}
      /\ \A d \in 1 .. z : d # z => open'[d] = open[d]
      /\ z \in Nat /\ z > 0
  <2>1. /\ Pending(open', where') = Pending(open, where) \ {z}
        /\ PendingAt(open', where') = PendingAt(open, where) \ (IF where = "tag" THEN {open[z].at} ELSE {})
        /\ \A d \in 1 .. z : d # z => d \in 1 .. Len(open') /\ open'[d] = open[d]
        /\ z \in Nat /\ z > 0
    BY <1>1, PendingPop
  <2> QED
    BY <1>1, <2>1
<1>7. z \in Pending(open, where) /\ i \in PendingAt(open, where)
  BY <1>1, <1>6 DEF Pending, PendingAt, After
<1>8. Top.what \in Element
  BY <1>7, PendingIs DEF Top
<1> HIDE DEF i
<1>9. SelfCloses(code', i + 2)
  <2>1. n + 2 - 1 = n + 1 /\ 1 \in 1 .. Len(S)
    BY <1>2, <1>4
  <2> QED
    BY <1>2, <1>4, <1>5, <2>1
<1>10. \A k \in 1 .. Len(S) : ~BeginsTag(code', n + k)
  BY <1>1, <1>2, NoTagAt
<1>11. ASSUME NEW d \in Pending(open, where), d # z PROVE Begun(code', open', d)
  <2>1. \A k \in 1 .. Len(S) : S[k] \notin {"lbrace", "rbrace"}
    BY <1>3, NoBraces
  <2>2. d \in 1 .. z /\ d \in 1 .. z - 1
    BY <1>6, <1>11, PendingIs
  <2>3. open'[d] = open[d] /\ Braces(open', d) = Braces(open, d)
    BY <1>1, <1>6, <1>8, <1>11, <2>2, ElementTop
  <2> QED
    BY <1>1, <1>11, <2>1, <2>3, QuietBegun
<1>12. TagsEnd(code', open', where')
  <2>1. \A d \in Pending(open', where') : Begun(code', open', d)
    BY <1>6, <1>11
  <2>2. \A j \in PendingAt(open, where) : j \notin PendingAt(open', where') => EndsOf(code', j) # {}
    BY <1>5, <1>6
  <2> QED
    BY <1>1, <1>10, <2>1, <2>2, TagsGoOn
<1> QED
  BY <1>5, <1>6, <1>7, <1>8, <1>9, <1>12 DEF i

(* A closing tag begins no element and ends none. *)
LEMMA ClosingLetters ==
  ASSUME NEW name \in Element
  PROVE  LET S == <<"<", "/", name, ">">> IN
         /\ Len(S) = 4 /\ S[1] = "<" /\ S[2] = "/" /\ S[3] = name /\ S[4] = ">"
         /\ \A k \in 1 .. Len(S) : k \in {1, 2, 3, 4}
         /\ \A k \in 1 .. Len(S) : S[k] # "<" \/ (k < Len(S) /\ S[k + 1] \notin Word)
<1> DEFINE S == <<"<", "/", name, ">">>
<1>1. name # "<" /\ name \in Letter
  BY ElementIs
<1>2. Len(S) = 4 /\ S[1] = "<" /\ S[2] = "/" /\ S[3] = name /\ S[4] = ">"
  BY <1>1, Letters, Four
<1> HIDE DEF S
<1>3. \A k \in 1 .. Len(S) : k \in {1, 2, 3, 4}
  BY <1>2
<1>4. "/" \notin Word
  BY DEF Word
<1>5. 1 < Len(S) /\ 1 + 1 = 2
  BY <1>2
<1>6. \A k \in 1 .. Len(S) : S[k] # "<" \/ (k < Len(S) /\ S[k + 1] \notin Word)
  BY <1>1, <1>2, <1>3, <1>4, <1>5
<1> QED
  BY <1>2, <1>3, <1>6 DEF S

(* No start of a tag ends at a closing tag. *)
LEMMA CloseTagEnds ==
  ASSUME Core, TagsEnd(code, open, where), CloseTagMove
  PROVE  /\ TagsEnd(code', open', where')
         /\ PendingAt(open', where') = PendingAt(open, where)
         /\ open[Len(open)].at \notin PendingAt(open, where)
<1> DEFINE z == Len(open)
           n == Len(code)
           S == <<"<", "/", Top.what, ">">>
<1>1. Adds(S) /\ open # << >> /\ open' = Below /\ where = "children" /\ where' = Top.after /\ Top.what \in Element
  BY DEF CloseTagMove
<1>2. /\ \A k \in 1 .. Len(S) : S[k] # "<" \/ (k < Len(S) /\ S[k + 1] \notin Word)
  BY <1>1, ClosingLetters
<1>3. \A k \in 1 .. Len(S) : S[k] \notin Bracket
  BY <1>1, TagLetters
<1> HIDE DEF S
<1>4. /\ Pending(open', where') = Pending(open, where) \ {z}
      /\ PendingAt(open', where') = PendingAt(open, where)
      /\ \A d \in 1 .. z : d # z => open'[d] = open[d]
      /\ z \in Nat /\ z > 0
  <2>1. /\ Pending(open', where') = Pending(open, where) \ {z}
        /\ PendingAt(open', where') = PendingAt(open, where) \ (IF where = "tag" THEN {open[z].at} ELSE {})
        /\ \A d \in 1 .. z : d # z => d \in 1 .. Len(open') /\ open'[d] = open[d]
        /\ z \in Nat /\ z > 0
    BY <1>1, PendingPop
  <2> QED
    BY <1>1, <2>1
<1>5. z \notin Pending(open, where)
  BY <1>1, PendingIs
<1>6. open[z].at \notin PendingAt(open, where)
  <2>1. ASSUME NEW d \in Pending(open, where) PROVE open[d].at # open[z].at
    <3>1. d \in 1 .. z /\ d # z /\ z \in 1 .. z
      BY <1>4, <1>5, PendingIs
    <3> QED
      BY <3>1, AtOnce
  <2> QED
    BY <2>1 DEF PendingAt
<1>7. \A k \in 1 .. Len(S) : ~BeginsTag(code', n + k)
  BY <1>1, <1>2, NoTagAt
<1>8. ASSUME NEW d \in Pending(open, where) PROVE Begun(code', open', d)
  <2>1. \A k \in 1 .. Len(S) : S[k] \notin {"lbrace", "rbrace"}
    BY <1>3, NoBraces
  <2>2. d \in 1 .. z /\ d # z /\ d \in 1 .. z - 1
    BY <1>4, <1>5, PendingIs
  <2>3. open'[d] = open[d] /\ Braces(open', d) = Braces(open, d)
    BY <1>1, <1>4, <2>2, ElementTop
  <2> QED
    BY <1>1, <2>1, <2>2, <2>3, QuietBegun
<1>9. TagsEnd(code', open', where')
  <2>1. \A d \in Pending(open', where') : Begun(code', open', d)
    BY <1>4, <1>8
  <2>2. \A j \in PendingAt(open, where) : j \notin PendingAt(open', where') => EndsOf(code', j) # {}
    BY <1>4
  <2> QED
    BY <1>1, <1>7, <2>1, <2>2, TagsGoOn
<1> QED
  BY <1>4, <1>6, <1>9

(* Nor at a wrong one. *)
LEMMA WrongTagEnds ==
  ASSUME Core, TagsEnd(code, open, where), NEW name \in Element, WrongTagMove(name)
  PROVE  /\ TagsEnd(code', open', where')
         /\ PendingAt(open', where') = PendingAt(open, where)
<1> DEFINE S == <<"<", "/", name, ">">>
<1>1. Adds(S) /\ open' = open /\ where' = where /\ where # "tag"
  BY DEF WrongTagMove
<1>2. /\ \A k \in 1 .. Len(S) : S[k] # "<" \/ (k < Len(S) /\ S[k + 1] \notin Word)
  BY ClosingLetters
<1>3. \A k \in 1 .. Len(S) : S[k] \notin Bracket
  BY TagLetters
<1> HIDE DEF S
<1>4. /\ Pending(open', where') = Pending(open, where)
      /\ PendingAt(open', where') = PendingAt(open, where)
  BY <1>1, PendingSame
<1>5. \A k \in 1 .. Len(S) : ~BeginsTag(code', Len(code) + k)
  BY <1>1, <1>2, NoTagAt
<1>6. ASSUME NEW d \in Pending(open, where) PROVE Begun(code', open', d)
  <2>1. \A k \in 1 .. Len(S) : S[k] \notin {"lbrace", "rbrace"}
    BY <1>3, NoBraces
  <2>2. open'[d] = open[d] /\ Braces(open', d) = Braces(open, d) /\ d # Len(open)
    BY <1>1, PendingIs
  <2> QED
    BY <1>1, <2>1, <2>2, QuietBegun
<1>7. TagsEnd(code', open', where')
  <2>1. \A d \in Pending(open', where') : Begun(code', open', d)
    BY <1>4, <1>6
  <2>2. \A j \in PendingAt(open, where) : j \notin PendingAt(open', where') => EndsOf(code', j) # {}
    BY <1>4
  <2> QED
    BY <1>1, <1>5, <2>1, <2>2, TagsGoOn
<1> QED
  BY <1>4, <1>7

-----------------------------------------------------------------------------
(* What the scanner for tags finds, but for the tags at the positions Q.      *)
OpensBut(s, Q) == [i \in DOMAIN s |-> IF i \in Q THEN "none" ELSE TagOpens(s)[i]]
TagsAt(s, Q) == Judged(s, OpensBut(s, Q), TagCloses(s))
KeptBut(o, Q) == {d \in KeptOf(o, Element) : o[d].at \notin Q}
TagsFound(s, o, next, first) ==
  \A Q \in SUBSET PendingAt(o, next) : Finds(TagsAt(s, Q), first, KeptBut(o, Q), Entered(o, s))

(* What a letter opens and closes for jsxSanity. *)
LEMMA TagMarksAre ==
  ASSUME NEW s \in Seq(Letter), NEW Q, NEW i \in 1 .. Len(s)
  PROVE  /\ OpensBut(s, Q)[i] = IF i \notin Q /\ BeginsTag(s, i) /\ ~SelfCloses(s, i + 2) THEN TagName(s, i + 1) ELSE "none"
         /\ OpensBut(s, Q)[i] \in Letter \cup {"none"}
         /\ TagCloses(s)[i] = IF s[i] = "<" /\ At(s, i + 1) = "/" THEN TagName(s, i + 2) ELSE "none"
<1>1. i \in DOMAIN s
  BY TextIs
<1>2. TagOpens(s)[i] = IF BeginsTag(s, i) /\ ~SelfCloses(s, i + 2) THEN TagName(s, i + 1) ELSE "none"
  BY <1>1 DEF TagOpens
<1>3. OpensBut(s, Q)[i] = IF i \in Q THEN "none" ELSE TagOpens(s)[i]
  BY <1>1 DEF OpensBut
<1>4. TagName(s, i + 1) \in Letter \cup {"none"}
  <2>1. \A j : TagName(s, j) \in Word \cup {"none"}
    <3> TAKE j
    <3>1. CASE At(s, j) \in Word
      <4>1. "end" \notin Word
        BY DEF Word
      <4>2. At(s, j) = s[j]
        BY <3>1, <4>1 DEF At
      <4> QED
        BY <3>1, <4>2 DEF TagName
    <3>2. CASE At(s, j) \notin Word
      BY <3>2 DEF TagName
    <3> QED
      BY <3>1, <3>2
  <2>2. Word \subseteq Letter
    BY DEF Letter, NameChar
  <2> QED
    BY <2>1, <2>2
<1>5. TagCloses(s)[i] = IF s[i] = "<" /\ At(s, i + 1) = "/" THEN TagName(s, i + 2) ELSE "none"
  BY <1>1 DEF TagCloses
<1> QED
  BY <1>2, <1>3, <1>4, <1>5

(* Where the scanner for tags goes on. *)
LEMMA TagsResume ==
  ASSUME Core, TagsEnd(code, open, where), NEW S, Adds(S), S[1] = "/" => where # "operand",
         NEW Q \in SUBSET PendingAt(open, where), NEW Q2,
         \A i \in 1 .. Len(code) : i \in Q2 => i \in PendingAt(open, where),
         \A i \in PendingAt(open, where) : (i \in Q2 \/ SelfCloses(code', i + 2)) <=> i \in Q
  PROVE  /\ Resumes(code, OpensBut(code, Q), TagCloses(code), code', OpensBut(code', Q2), TagCloses(code'))
         /\ TagsAt(code, Q) \in Standing
<1> DEFINE n == Len(code)
           c == code'
<1>1. /\ code \in Seq(Letter) /\ c \in Seq(Letter) /\ n \in Nat /\ Len(S) \in Nat /\ Len(c) = n + Len(S)
      /\ \A i \in 1 .. n : c[i] = code[i]
  BY AddsIs
<1>2. n <= Len(c) /\ \A i \in 1 .. n : i \in 1 .. Len(c) /\ i \in Nat /\ i > 0
  BY <1>1
<1>3. ASSUME NEW i \in 1 .. n PROVE OpensBut(code, Q)[i] = OpensBut(c, Q2)[i]
  <2>1. OpensBut(code, Q)[i] = IF i \notin Q /\ BeginsTag(code, i) /\ ~SelfCloses(code, i + 2) THEN TagName(code, i + 1) ELSE "none"
    BY <1>1, TagMarksAre
  <2>2. OpensBut(c, Q2)[i] = IF i \notin Q2 /\ BeginsTag(c, i) /\ ~SelfCloses(c, i + 2) THEN TagName(c, i + 1) ELSE "none"
    BY <1>1, <1>2, TagMarksAre
  <2>3. CASE ~BeginsTag(code, i)
    <3>1. ~BeginsTag(c, i)
      BY <2>3, BeginsSame
    <3> QED
      BY <2>1, <2>2, <2>3, <3>1
  <2>4. CASE BeginsTag(code, i)
    <3>1. BeginsTag(c, i) /\ i + 1 <= n /\ TagName(c, i + 1) = TagName(code, i + 1)
      BY <2>4, BeginsSame
    <3>2. CASE i \in PendingAt(open, where)
      <4>1. PICK d \in Pending(open, where) : i = open[d].at
        BY <3>2 DEF PendingAt
      <4>2. EndsOf(code, i) = {}
        BY <4>1 DEF TagsEnd, Begun
      <4>3. ~SelfCloses(code, i + 2)
        BY <4>2 DEF SelfCloses, ClosesItself, EndsOf
      <4> QED
        BY <2>1, <2>2, <2>4, <3>1, <3>2, <4>3
    <3>3. CASE i \notin PendingAt(open, where)
      <4>1. EndsOf(code, i) # {}
        BY <2>4, <3>3 DEF TagsEnd
      <4>2. SelfCloses(c, i + 2) <=> SelfCloses(code, i + 2)
        BY <1>2, <3>1, <4>1, SelfClosesSame
      <4>3. i \notin Q /\ i \notin Q2
        BY <3>3
      <4> QED
        BY <2>1, <2>2, <2>4, <3>1, <4>2, <4>3
    <3> QED
      BY <3>2, <3>3
  <2> QED
    BY <2>3, <2>4
<1>4. \A i \in 1 .. n : TagCloses(code)[i] = TagCloses(c)[i]
  BY ClosesSame
<1>5. Kinds(Len(c), OpensBut(c, Q2))
  BY <1>1, TagMarksAre DEF Kinds
<1>6. Resumes(code, OpensBut(code, Q), TagCloses(code), c, OpensBut(c, Q2), TagCloses(c))
  BY <1>1, <1>2, <1>3, <1>4, <1>5 DEF Resumes
<1>7. TagsAt(code, Q) \in Standing
  BY <1>6, JudgedBefore DEF TagsAt
<1> QED
  BY <1>6, <1>7

(* Where no closing tag begins. *)
LEMMA NoCloseAt ==
  ASSUME Core, NEW S, Adds(S), NEW k \in 1 .. Len(S),
         S[k] # "<" \/ (k < Len(S) /\ S[k + 1] # "/") \/ k = Len(S)
  PROVE  TagCloses(code')[Len(code) + k] = "none"
<1> DEFINE n == Len(code)
           c == code'
           e == n + k
<1>1. /\ c \in Seq(Letter) /\ Len(c) = n + Len(S) /\ n \in Nat /\ Len(S) \in Nat
      /\ \A j \in 1 .. Len(S) : c[n + j] = S[j]
  BY AddsIs
<1>2. e \in 1 .. Len(c) /\ c[e] = S[k]
  BY <1>1
<1>3. k < Len(S) => At(c, e + 1) = S[k + 1]
  <2> SUFFICES ASSUME k < Len(S) PROVE At(c, e + 1) = S[k + 1]
    OBVIOUS
  <2>1. k + 1 \in 1 .. Len(S) /\ e + 1 = n + (k + 1) /\ e + 1 \in 1 .. Len(c) /\ e + 1 \in Int
    BY <1>1
  <2> HIDE DEF e
  <2>2. At(c, e + 1) = c[e + 1]
    BY <1>1, <2>1, AtIs
  <2> QED
    BY <1>1, <2>1, <2>2
<1>4. k = Len(S) => At(c, e + 1) = "end"
  <2>1. k = Len(S) => e + 1 \in Int /\ e + 1 > Len(c)
    BY <1>1
  <2> HIDE DEF e
  <2> QED
    BY <1>1, <2>1, AtIs
<1> HIDE DEF e
<1>5. TagCloses(c)[e] = IF c[e] = "<" /\ At(c, e + 1) = "/" THEN TagName(c, e + 2) ELSE "none"
  BY <1>1, <1>2, TagMarksAre
<1>6. TagCloses(c)[e] = "none"
  BY <1>2, <1>3, <1>4, <1>5
<1> QED
  BY <1>6 DEF e

(* Tags that nothing opens or closes. *)
LEMMA TagsStay ==
  ASSUME Core, TagsEnd(code, open, where), NEW S, Adds(S), S[1] = "/" => where # "operand",
         NEW first, TagsFound(code, open, where, first),
         NEW Q \in SUBSET PendingAt(open, where), NEW Q2,
         \A i \in 1 .. Len(code) : i \in Q2 => i \in PendingAt(open, where),
         \A i \in PendingAt(open, where) : (i \in Q2 \/ SelfCloses(code', i + 2)) <=> i \in Q,
         \A k \in 1 .. Len(S) : ~BeginsTag(code', Len(code) + k) \/ Len(code) + k \in Q2,
         \A k \in 1 .. Len(S) : TagCloses(code')[Len(code) + k] = "none",
         KeptBut(open', Q2) = KeptBut(open, Q),
         \A d \in KeptBut(open, Q) : d \in 1 .. Len(open') /\ open'[d] = open[d]
  PROVE  Finds(TagsAt(code', Q2), first, KeptBut(open', Q2), Entered(open', code'))
<1> DEFINE n == Len(code)
           c == code'
           kept == KeptBut(open, Q)
<1>1. /\ c \in Seq(Letter) /\ n \in Nat /\ Len(S) \in Nat /\ Len(c) = n + Len(S)
  BY AddsIs
<1>2. Resumes(code, OpensBut(code, Q), TagCloses(code), c, OpensBut(c, Q2), TagCloses(c))
  BY TagsResume
<1>3. ASSUME NEW i \in n + 1 .. Len(c) PROVE OpensBut(c, Q2)[i] = "none" /\ TagCloses(c)[i] = "none"
  <2>1. i - n \in 1 .. Len(S) /\ n + (i - n) = i /\ i \in 1 .. Len(c)
    BY <1>1
  <2>2. ~BeginsTag(c, i) \/ i \in Q2
    BY <2>1
  <2>3. TagCloses(c)[i] = "none"
    BY <2>1
  <2>4. OpensBut(c, Q2)[i] = "none"
    BY <1>1, <2>1, <2>2, TagMarksAre
  <2> QED
    BY <2>3, <2>4
<1>4. TagsAt(c, Q2) = TagsAt(code, Q)
  BY <1>2, <1>3, NoMark DEF TagsAt
<1>5. Finds(TagsAt(code, Q), first, kept, Entered(open, code))
  BY DEF TagsFound
<1>6. ASSUME NEW d \in kept PROVE Entered(open', c)[d] = Entered(open, code)[d]
  <2>1. d \in 1 .. Len(open) /\ d \in 1 .. Len(open') /\ open'[d] = open[d]
    BY DEF KeptBut, KeptOf
  <2> QED
    BY <2>1, StillEntered
<1> HIDE DEF kept
<1>7. Finds(TagsAt(code, Q), first, kept, Entered(open', c))
  BY <1>5, <1>6, FindsSame
<1> QED
  BY <1>4, <1>7 DEF kept

(* A tag without an end does not close itself. *)
LEMMA StillPending ==
  ASSUME NEW s, NEW o, NEW next, TagsEnd(s, o, next), NEW i \in PendingAt(o, next)
  PROVE  ~SelfCloses(s, i + 2)
<1>1. PICK d \in Pending(o, next) : i = o[d].at
  BY DEF PendingAt
<1>2. EndsOf(s, i) = {}
  BY <1>1 DEF TagsEnd, Begun
<1> QED
  BY <1>2 DEF SelfCloses, ClosesItself, EndsOf

(* What is kept but for some tags, when the elements are the same. *)
LEMMA KeptButSame ==
  ASSUME KeptOf(open', Element) = KeptOf(open, Element),
         \A d \in KeptOf(open, Element) : open'[d] = open[d], NEW Q
  PROVE  KeptBut(open', Q) = KeptBut(open, Q)
BY DEF KeptBut

(* What is written opens and closes no tag, and the same tags have not ended. *)
LEMMA QuietTags ==
  ASSUME Core, TagsEnd(code, open, where), TagsEnd(code', open', where'), NEW S, Adds(S), S[1] # "/",
         NEW first, TagsFound(code, open, where, first),
         PendingAt(open', where') = PendingAt(open, where),
         KeptOf(open', Element) = KeptOf(open, Element),
         \A d \in KeptOf(open, Element) : d \in 1 .. Len(open') /\ open'[d] = open[d],
         \A k \in 1 .. Len(S) : ~BeginsTag(code', Len(code) + k),
         \A k \in 1 .. Len(S) : TagCloses(code')[Len(code) + k] = "none"
  PROVE  TagsFound(code', open', where', first)
<1> SUFFICES ASSUME NEW Q \in SUBSET PendingAt(open', where')
             PROVE  Finds(TagsAt(code', Q), first, KeptBut(open', Q), Entered(open', code'))
  BY DEF TagsFound
<1>1. Q \in SUBSET PendingAt(open, where)
  OBVIOUS
<1>2. \A i \in PendingAt(open, where) : (i \in Q \/ SelfCloses(code', i + 2)) <=> i \in Q
  BY StillPending
<1>3. KeptBut(open', Q) = KeptBut(open, Q)
  BY KeptButSame
<1>4. \A d \in KeptBut(open, Q) : d \in 1 .. Len(open') /\ open'[d] = open[d]
  BY DEF KeptBut
<1>5. \A i \in 1 .. Len(code) : i \in Q => i \in PendingAt(open, where)
  BY <1>1
<1>6. \A k \in 1 .. Len(S) : ~BeginsTag(code', Len(code) + k) \/ Len(code) + k \in Q
  OBVIOUS
<1>7. S[1] = "/" => where # "operand"
  OBVIOUS
<1> QED
  BY <1>1, <1>2, <1>3, <1>4, <1>5, <1>6, <1>7, TagsStay

(* A plain token changes nothing of what jsxSanity finds. *)
LEMMA PlainTags ==
  ASSUME Core, TagsEnd(code, open, where), NEW S, PlainMove(S), TagsFound(code, open, where, mistake.tags)
  PROVE  TagsFound(code', open', where', mistake'.tags)
<1>1. /\ Adds(S) /\ open' = open /\ (where' = "tag" <=> where = "tag") /\ mistake' = mistake
      /\ \A k \in 1 .. Len(S) :
           /\ S[k] \notin Bracket \cup {"/"}
           /\ S[k] = "<" => ~BeginsTag(code', Len(code) + k)
  BY DEF PlainMove
<1>2. S[1] # "/" /\ Len(S) \in Nat
  <2>1. 1 \in 1 .. Len(S)
    BY <1>1, AddsIs
  <2> QED
    BY <1>1, <2>1, AddsIs
<1>3. TagsEnd(code', open', where')
  BY PlainEnds
<1>4. PendingAt(open', where') = PendingAt(open, where)
  BY <1>1, PendingSame
<1>5. \A k \in 1 .. Len(S) : ~BeginsTag(code', Len(code) + k)
  BY <1>1, NoTagAt
<1>6. ASSUME NEW k \in 1 .. Len(S) PROVE TagCloses(code')[Len(code) + k] = "none"
  <2>1. k = Len(S) \/ (k < Len(S) /\ k + 1 \in 1 .. Len(S))
    BY <1>2
  <2>2. k = Len(S) \/ (k < Len(S) /\ S[k + 1] # "/")
    BY <1>1, <2>1
  <2> QED
    BY <1>1, <2>2, NoCloseAt
<1>7. /\ KeptOf(open', Element) = KeptOf(open, Element)
      /\ \A d \in KeptOf(open, Element) : d \in 1 .. Len(open') /\ open'[d] = open[d]
  BY <1>1 DEF KeptOf
<1>8. TagsFound(code', open', where', mistake.tags)
  BY <1>1, <1>2, <1>3, <1>4, <1>5, <1>6, <1>7, QuietTags
<1> QED
  BY <1>1, <1>8

(* Nor does an opening bracket. *)
LEMMA OpenTags ==
  ASSUME Core, TagsEnd(code, open, where), NEW S, NEW p, NEW after, OpenMove(S, p, after),
         TagsFound(code, open, where, mistake.tags)
  PROVE  TagsFound(code', open', where', mistake'.tags)
<1>1. Adds(S) /\ mistake' = mistake /\ \A k \in 1 .. Len(S) : S[k] \notin {"<", ">", "/"}
  BY DEF OpenMove
<1>2. S[1] # "/"
  <2>1. 1 \in 1 .. Len(S)
    BY <1>1, AddsIs
  <2> QED
    BY <1>1, <2>1
<1>3. /\ TagsEnd(code', open', where')
      /\ PendingAt(open', where') = PendingAt(open, where)
      /\ KeptOf(open', Element) = KeptOf(open, Element)
      /\ \A d \in 1 .. Len(open) : d \in 1 .. Len(open') /\ open'[d] = open[d]
  BY OpenEnds
<1>4. \A d \in KeptOf(open, Element) : d \in 1 .. Len(open') /\ open'[d] = open[d]
  BY <1>3 DEF KeptOf
<1>5. \A k \in 1 .. Len(S) : ~BeginsTag(code', Len(code) + k) /\ TagCloses(code')[Len(code) + k] = "none"
  BY <1>1, NoTagAt, NoCloseAt
<1>6. TagsFound(code', open', where', mistake.tags)
  BY <1>1, <1>2, <1>3, <1>4, <1>5, QuietTags
<1> QED
  BY <1>1, <1>6

(* Nor does a closing one. *)
LEMMA CloseTags ==
  ASSUME Core, TagsEnd(code, open, where), CloseMove, TagsFound(code, open, where, mistake.tags)
  PROVE  TagsFound(code', open', where', mistake'.tags)
<1> DEFINE S == <<Closing(Top.what)>>
<1>1. Adds(S) /\ mistake' = mistake /\ Top.what \in Opener /\ Len(S) = 1 /\ S[1] = Closing(Top.what)
  BY DEF CloseMove
<1>2. S[1] \notin {"/", "<"}
  BY <1>1 DEF Opener, Closing
<1> HIDE DEF S
<1>3. /\ TagsEnd(code', open', where')
      /\ PendingAt(open', where') = PendingAt(open, where)
      /\ KeptOf(open', Element) = KeptOf(open, Element)
      /\ \A d \in KeptOf(open, Element) : d \in 1 .. Len(open') /\ open'[d] = open[d]
  BY CloseEnds
<1>4. \A k \in 1 .. Len(S) : k = 1
  BY <1>1
<1>5. \A k \in 1 .. Len(S) : ~BeginsTag(code', Len(code) + k) /\ TagCloses(code')[Len(code) + k] = "none"
  BY <1>1, <1>2, <1>4, NoTagAt, NoCloseAt
<1>6. S[1] # "/"
  BY <1>2
<1>7. TagsFound(code', open', where', mistake.tags)
  BY <1>1, <1>3, <1>5, <1>6, QuietTags
<1> QED
  BY <1>1, <1>7

(* The end of a tag that does not close itself changes nothing. *)
LEMMA EndTags ==
  ASSUME Core, TagsEnd(code, open, where), EndMove, TagsFound(code, open, where, mistake.tags)
  PROVE  TagsFound(code', open', where', mistake'.tags)
<1> DEFINE S == <<">">>
           i == open[Len(open)].at
<1>1. Adds(S) /\ mistake' = mistake /\ open' = open /\ Len(S) = 1 /\ S[1] = ">" /\ \A k \in 1 .. Len(S) : k = 1
  BY DEF EndMove
<1> HIDE DEF S
<1>2. /\ TagsEnd(code', open', where')
      /\ PendingAt(open', where') = PendingAt(open, where) \ {i}
      /\ ~SelfCloses(code', i + 2)
  BY EndEnds
<1> HIDE DEF i
<1> SUFFICES ASSUME NEW Q \in SUBSET PendingAt(open', where')
             PROVE  Finds(TagsAt(code', Q), mistake.tags, KeptBut(open', Q), Entered(open', code'))
  BY <1>1 DEF TagsFound
<1>3. Q \in SUBSET PendingAt(open, where)
  BY <1>2
<1>4. ASSUME NEW j \in PendingAt(open, where) PROVE ~SelfCloses(code', j + 2)
  <2>1. j = i \/ j \in PendingAt(open', where')
    BY <1>2
  <2> QED
    BY <1>2, <2>1, StillPending
<1>5. \A j \in PendingAt(open, where) : (j \in Q \/ SelfCloses(code', j + 2)) <=> j \in Q
  BY <1>4
<1>6. \A k \in 1 .. Len(S) : ~BeginsTag(code', Len(code) + k) \/ Len(code) + k \in Q
  BY <1>1, NoTagAt
<1>7. \A k \in 1 .. Len(S) : TagCloses(code')[Len(code) + k] = "none"
  BY <1>1, NoCloseAt
<1>8. \A j \in 1 .. Len(code) : j \in Q => j \in PendingAt(open, where)
  BY <1>3
<1>9. KeptBut(open', Q) = KeptBut(open, Q) /\ \A d \in KeptBut(open, Q) : d \in 1 .. Len(open') /\ open'[d] = open[d]
  BY <1>1 DEF KeptBut, KeptOf
<1>10. S[1] = "/" => where # "operand"
  BY <1>1
<1> QED
  BY <1>1, <1>3, <1>5, <1>6, <1>7, <1>8, <1>9, <1>10, TagsStay

(* A tag that closes itself is as if it were not there. *)
LEMMA SelfCloseTags ==
  ASSUME Core, TagsEnd(code, open, where), SelfCloseMove, TagsFound(code, open, where, mistake.tags)
  PROVE  TagsFound(code', open', where', mistake'.tags)
<1> DEFINE S == <<"/", ">">>
           z == Len(open)
           i == open[z].at
<1>1. Adds(S) /\ mistake' = mistake /\ open' = Below /\ open # << >> /\ where = "tag"
  BY DEF SelfCloseMove
<1>2. Len(S) = 2 /\ S[1] = "/" /\ S[2] = ">" /\ \A k \in 1 .. Len(S) : k \in {1, 2}
  OBVIOUS
<1> HIDE DEF S
<1>3. /\ TagsEnd(code', open', where')
      /\ PendingAt(open', where') = PendingAt(open, where) \ {i}
      /\ i \in Nat /\ i + 1 <= Len(code) /\ SelfCloses(code', i + 2)
      /\ i \in PendingAt(open, where) /\ Top.what \in Element
  BY SelfCloseEnds
<1>4. /\ KeptOf(open', Element) = KeptOf(open, Element) \ {z}
      /\ \A d \in KeptOf(open, Element) \ {z} : d \in 1 .. Len(open') /\ open'[d] = open[d]
  BY <1>1, <1>3, ElementTop
<1>5. z \in 1 .. z /\ \A d \in KeptOf(open, Element) \ {z} : open[d].at # i
  <2>1. z \in 1 .. z
    BY <1>1, CoreTypes, PopIs
  <2>2. ASSUME NEW d \in KeptOf(open, Element) \ {z} PROVE open[d].at # i
    <3>1. d \in 1 .. z /\ d # z
      BY DEF KeptOf
    <3> QED
      BY <2>1, <3>1, AtOnce
  <2> QED
    BY <2>1, <2>2
<1>6. i = open[z].at
  OBVIOUS
<1> HIDE DEF i
<1> SUFFICES ASSUME NEW Q2 \in SUBSET PendingAt(open', where')
             PROVE  Finds(TagsAt(code', Q2), mistake.tags, KeptBut(open', Q2), Entered(open', code'))
  BY <1>1 DEF TagsFound
<1> DEFINE Q == Q2 \cup {i}
<1>7. Q \in SUBSET PendingAt(open, where) /\ i \in Q /\ i \notin Q2
  BY <1>3
<1>8. \A j \in PendingAt(open, where) : (j \in Q2 \/ SelfCloses(code', j + 2)) <=> j \in Q
  <2>1. \A j \in PendingAt(open, where) : j = i \/ j \in PendingAt(open', where')
    BY <1>3
  <2>2. \A j \in PendingAt(open', where') : ~SelfCloses(code', j + 2)
    BY <1>3, StillPending
  <2> QED
    BY <1>3, <2>1, <2>2
<1>9. \A k \in 1 .. Len(S) : ~BeginsTag(code', Len(code) + k) \/ Len(code) + k \in Q2
  BY <1>1, <1>2, NoTagAt
<1>10. \A k \in 1 .. Len(S) : TagCloses(code')[Len(code) + k] = "none"
  BY <1>1, <1>2, NoCloseAt
<1>11. \A j \in 1 .. Len(code) : j \in Q2 => j \in PendingAt(open, where)
  BY <1>7
<1>12. KeptBut(open', Q2) = KeptBut(open, Q)
  <2>1. \A d \in KeptOf(open, Element) : d \in KeptOf(open', Element) <=> d # z
    BY <1>4
  <2>2. \A d \in KeptOf(open', Element) : d \in KeptOf(open, Element) /\ open'[d] = open[d] /\ open[d].at # i
    BY <1>4, <1>5
  <2>3. \A d \in KeptBut(open', Q2) : d \in KeptBut(open, Q)
    BY <2>2 DEF KeptBut
  <2>4. \A d \in KeptBut(open, Q) : d \in KeptBut(open', Q2)
    <3>1. \A d \in KeptBut(open, Q) : d # z
      BY <1>6, <1>7 DEF KeptBut
    <3> QED
      BY <2>1, <2>2, <3>1 DEF KeptBut
  <2> QED
    BY <2>3, <2>4
<1>13. \A d \in KeptBut(open, Q) : d \in 1 .. Len(open') /\ open'[d] = open[d]
  <2>1. \A d \in KeptBut(open, Q) : d \in KeptOf(open, Element) \ {z}
    BY <1>6, <1>7 DEF KeptBut
  <2> QED
    BY <1>4, <2>1
<1>14. S[1] = "/" => where # "operand"
  BY <1>1
<1> HIDE DEF Q
<1> QED
  BY <1>1, <1>7, <1>8, <1>9, <1>10, <1>11, <1>12, <1>13, <1>14, TagsStay

(* Where the scanner for tags stands after one that begins or ends. *)
LEMMA OneTag ==
  ASSUME Core, TagsEnd(code, open, where), NEW S, Adds(S), S[1] = "/" => where # "operand",
         NEW Q \in SUBSET PendingAt(open, where),
         \A i \in PendingAt(open, where) : ~SelfCloses(code', i + 2),
         Len(code) + 1 \notin Q,
         \A k \in 1 .. Len(S) : k # 1 => ~BeginsTag(code', Len(code) + k) /\ TagCloses(code')[Len(code) + k] = "none"
  PROVE  LET p == Len(code) + 1 IN
         TagsAt(code', Q) =
           Judge(TagsAt(code, Q), OpensBut(code', Q)[p], TagCloses(code')[p], Line(code', p))
<1> DEFINE n == Len(code)
           c == code'
           p == n + 1
<1>1. /\ c \in Seq(Letter) /\ n \in Nat /\ Len(S) \in Nat /\ Len(S) > 0 /\ Len(c) = n + Len(S)
  BY AddsIs
<1>2. \A i \in 1 .. Len(code) : i \in Q => i \in PendingAt(open, where)
  OBVIOUS
<1>3. \A i \in PendingAt(open, where) : (i \in Q \/ SelfCloses(c, i + 2)) <=> i \in Q
  OBVIOUS
<1>4. Resumes(code, OpensBut(code, Q), TagCloses(code), c, OpensBut(c, Q), TagCloses(c))
  BY <1>2, <1>3, TagsResume
<1>5. p \in n + 1 .. Len(c)
  BY <1>1
<1>6. ASSUME NEW i \in n + 1 .. Len(c), i # p PROVE OpensBut(c, Q)[i] = "none" /\ TagCloses(c)[i] = "none"
  <2>1. i - n \in 1 .. Len(S) /\ n + (i - n) = i /\ i \in 1 .. Len(c) /\ i - n # 1
    BY <1>1, <1>6
  <2>2. ~BeginsTag(c, i) /\ TagCloses(c)[i] = "none"
    BY <2>1
  <2>3. OpensBut(c, Q)[i] = "none"
    BY <1>1, <2>1, <2>2, TagMarksAre
  <2> QED
    BY <2>2, <2>3
<1> HIDE DEF p
<1>7. Judged(c, OpensBut(c, Q), TagCloses(c)) =
        Judge(Judged(code, OpensBut(code, Q), TagCloses(code)), OpensBut(c, Q)[p], TagCloses(c)[p], Line(c, p))
  BY <1>4, <1>5, <1>6, OneMark
<1> QED
  BY <1>7 DEF TagsAt, p

(* What the scanner has found so far. *)
LEMMA TagsStand ==
  ASSUME Core, TagsEnd(code, open, where), NEW S, Adds(S), S[1] = "/" => where # "operand",
         NEW Q \in SUBSET PendingAt(open, where),
         \A i \in PendingAt(open, where) : ~SelfCloses(code', i + 2)
  PROVE  TagsAt(code, Q) \in Standing
<1>2. \A i \in 1 .. Len(code) : i \in Q => i \in PendingAt(open, where)
  OBVIOUS
<1>3. \A i \in PendingAt(open, where) : (i \in Q \/ SelfCloses(code', i + 2)) <=> i \in Q
  OBVIOUS
<1> QED
  BY <1>2, <1>3, TagsResume

(* The tags without an end began before what is written next. *)
LEMMA PendingPlaced ==
  ASSUME Core, NEW i \in PendingAt(open, where)
  PROVE  i \in Nat /\ i > 0 /\ i <= Len(code) /\ i # Len(code) + 1
<1>1. PICK d \in Pending(open, where) : i = open[d].at
  BY DEF PendingAt
<1>2. d \in 1 .. Len(open)
  BY DEF Pending
<1>3. i \in Nat /\ i > 0 /\ i <= Len(code)
  BY <1>1, <1>2, FramesPlaced
<1>4. Len(code) \in Nat
  BY CoreTypes
<1> QED
  BY <1>3, <1>4

(* The start of a tag is found. *)
LEMMA StartTags ==
  ASSUME Core, TagsEnd(code, open, where), NEW name \in Element, NEW after \in {"value", "children"},
         StartMove(name, after), "word<" \notin dialect.forms, TagsFound(code, open, where, mistake.tags)
  PROVE  TagsFound(code', open', where', mistake'.tags)
<1> DEFINE S == <<"<", name>>
           z == Len(open)
           p == Len(code) + 1
           y == z + 1
           other == Entered(open', code')
           entry == Entered(open, code)
           line == Line(code', p)
<1>1. Adds(S) /\ mistake' = mistake
  BY DEF StartMove
<1>2. Len(S) = 2 /\ S[1] = "<" /\ S[2] = name /\ \A k \in 1 .. Len(S) : k \in {1, 2}
  OBVIOUS
<1>3. name \in Word /\ name \in Letter /\ name \notin {"<", "none"}
  BY ElementIs DEF Element, Word, Letter, NameChar
<1> HIDE DEF S
<1>4. /\ TagsEnd(code', open', where')
      /\ PendingAt(open', where') = PendingAt(open, where) \cup {p}
      /\ KeptOf(open', Element) = KeptOf(open, Element) \cup {y}
      /\ \A d \in 1 .. z : d \in 1 .. Len(open') /\ open'[d] = open[d]
      /\ z \in Nat /\ y \in 1 .. Len(open') /\ open'[y].what = name /\ open'[y].at = p
      /\ BeginsTag(code', p) /\ TagName(code', Len(code) + 2) = name
      /\ ~SelfCloses(code', Len(code) + 3)
  BY StartEnds
<1>5. Len(code) \in Nat /\ code' \in Seq(Letter) /\ Len(code') = Len(code) + Len(S)
  BY <1>1, AddsIs
<1>6. p \in 1 .. Len(code') /\ p + 1 = Len(code) + 2 /\ p + 2 = Len(code) + 3 /\ p \in Nat
  BY <1>2, <1>5
<1>7. \A i \in PendingAt(open, where) : ~SelfCloses(code', i + 2)
  BY <1>4, StillPending
<1>8. \A i \in PendingAt(open, where) : i # p
  BY PendingPlaced
<1>9. ASSUME NEW k \in 1 .. Len(S), k # 1
      PROVE  ~BeginsTag(code', Len(code) + k) /\ TagCloses(code')[Len(code) + k] = "none"
  BY <1>1, <1>2, <1>9, NoTagAt, NoCloseAt
<1>10. TagCloses(code')[p] = "none"
  <2>1. 1 \in 1 .. Len(S) /\ 1 < Len(S) /\ 1 + 1 = 2
    BY <1>2
  <2>2. S[1 + 1] # "/"
    BY <1>2, <1>3, <2>1 DEF Word
  <2> QED
    BY <1>1, <2>1, <2>2, NoCloseAt
<1>11. \A d \in KeptOf(open, Element) :
         d < y /\ d \in 1 .. Len(open') /\ open'[d] = open[d] /\ other[d] = entry[d] /\ open[d].at # p
  <2> SUFFICES ASSUME NEW d \in KeptOf(open, Element)
               PROVE  d < y /\ d \in 1 .. Len(open') /\ open'[d] = open[d] /\ other[d] = entry[d] /\ open[d].at # p
    OBVIOUS
  <2>1. d \in 1 .. z
    BY DEF KeptOf
  <2>2. d < y /\ d \in 1 .. Len(open') /\ open'[d] = open[d]
    BY <1>4, <2>1
  <2>3. other[d] = entry[d]
    BY <1>1, <2>1, <2>2, StillEntered
  <2>4. open[d].at \in Nat /\ open[d].at <= Len(code)
    BY <2>1, FramesPlaced
  <2>5. open[d].at # p
    BY <1>5, <2>4
  <2> QED
    BY <2>2, <2>3, <2>5
<1>12. other[y] = [what |-> name, line |-> line]
  BY <1>4 DEF Entered
<1>13. line \in Nat
  BY <1>6, LineIs
<1> HIDE DEF other, entry, line
<1> SUFFICES ASSUME NEW Q2 \in SUBSET PendingAt(open', where')
             PROVE  Finds(TagsAt(code', Q2), mistake.tags, KeptBut(open', Q2), Entered(open', code'))
  BY <1>1 DEF TagsFound
<1>14. CASE p \in Q2
  <2> DEFINE Q == Q2 \ {p}
  <2>1. Q \in SUBSET PendingAt(open, where)
    BY <1>4
  <2>2. \A i \in PendingAt(open, where) : (i \in Q2 \/ SelfCloses(code', i + 2)) <=> i \in Q
    BY <1>7, <1>8
  <2>3. \A k \in 1 .. Len(S) : ~BeginsTag(code', Len(code) + k) \/ Len(code) + k \in Q2
    <3>1. \A k \in 1 .. Len(S) : k = 1 => Len(code) + k \in Q2
      BY <1>14
    <3> QED
      BY <1>9, <3>1
  <2>4. \A k \in 1 .. Len(S) : TagCloses(code')[Len(code) + k] = "none"
    BY <1>9, <1>10
  <2>5. \A i \in 1 .. Len(code) : i \in Q2 => i \in PendingAt(open, where)
    <3>1. \A i \in 1 .. Len(code) : i # p
      BY <1>5
    <3> QED
      BY <1>4, <3>1
  <2>6. KeptBut(open', Q2) = KeptBut(open, Q)
    BY <1>4, <1>11, <1>14 DEF KeptBut
  <2>7. \A d \in KeptBut(open, Q) : d \in 1 .. Len(open') /\ open'[d] = open[d]
    BY <1>11 DEF KeptBut
  <2>8. S[1] = "/" => where # "operand"
    BY <1>2
  <2> HIDE DEF Q
  <2> QED
    BY <1>1, <2>1, <2>2, <2>3, <2>4, <2>5, <2>6, <2>7, <2>8, TagsStay
<1>15. CASE p \notin Q2
  <2>1. Q2 \in SUBSET PendingAt(open, where) /\ Len(code) + 1 \notin Q2
    BY <1>4, <1>15
  <2>2. S[1] = "/" => where # "operand"
    BY <1>2
  <2>3. OpensBut(code', Q2)[p] = name
    <3>1. OpensBut(code', Q2)[p] = IF p \notin Q2 /\ BeginsTag(code', p) /\ ~SelfCloses(code', p + 2) THEN TagName(code', p + 1) ELSE "none"
      BY <1>5, <1>6, TagMarksAre
    <3>2. ~SelfCloses(code', p + 2) /\ TagName(code', p + 1) = name
      BY <1>4, <1>6
    <3> QED
      BY <1>4, <1>15, <3>1, <3>2
  <2>4. TagsAt(code', Q2) = Judge(TagsAt(code, Q2), OpensBut(code', Q2)[p], TagCloses(code')[p], Line(code', p))
    BY <1>1, <1>7, <1>9, <2>1, <2>2, OneTag
  <2>5. TagsAt(code', Q2) = Judge(TagsAt(code, Q2), name, "none", line)
    BY <1>10, <2>3, <2>4 DEF line
  <2>6. TagsAt(code, Q2) \in Standing
    BY <1>1, <1>7, <2>1, <2>2, TagsStand
  <2> DEFINE kept == KeptBut(open, Q2)
  <2>7. Finds(TagsAt(code, Q2), mistake.tags, kept, entry)
    BY <2>1 DEF TagsFound, entry
  <2>8. kept \in SUBSET Nat /\ \A d \in kept : d < y /\ other[d] = entry[d]
    BY <1>11 DEF KeptBut, KeptOf
  <2>9. KeptBut(open', Q2) = kept \cup {y}
    BY <1>4, <1>11, <1>15 DEF KeptBut
  <2>10. y \in Nat
    BY <1>4
  <2> HIDE DEF kept, y
  <2>11. Finds(Judge(TagsAt(code, Q2), name, "none", line), mistake.tags, kept \cup {y}, other)
    BY <1>3, <1>12, <1>13, <2>6, <2>7, <2>8, <2>10, FindsPush
  <2> QED
    BY <2>5, <2>9, <2>11 DEF other
<1> QED
  BY <1>14, <1>15

(* A closing tag is one mark, whatever the tags are that have not ended. *)
LEMMA ClosingTag ==
  ASSUME Core, TagsEnd(code, open, where), NEW name \in Element,
         Adds(<<"<", "/", name, ">">>), TagsEnd(code', open', where'),
         PendingAt(open', where') = PendingAt(open, where),
         NEW Q \in SUBSET PendingAt(open, where)
  PROVE  /\ TagsAt(code, Q) \in Standing
         /\ TagsAt(code', Q) = Judge(TagsAt(code, Q), "none", name, Line(code', Len(code) + 1))
<1> DEFINE S == <<"<", "/", name, ">">>
           p == Len(code) + 1
<1>1. /\ Len(S) = 4 /\ S[1] = "<" /\ S[2] = "/" /\ S[3] = name /\ S[4] = ">"
      /\ \A k \in 1 .. Len(S) : k \in {1, 2, 3, 4}
      /\ \A k \in 1 .. Len(S) : S[k] # "<" \/ (k < Len(S) /\ S[k + 1] \notin Word)
  BY ClosingLetters
<1>2. Adds(S)
  OBVIOUS
<1>3. name \in Word /\ name \notin {"<", "none"}
  BY ElementIs DEF Element, Word
<1> HIDE DEF S
<1>4. /\ code' \in Seq(Letter) /\ Len(code) \in Nat /\ Len(code') = Len(code) + Len(S)
      /\ \A k \in 1 .. Len(S) : code'[Len(code) + k] = S[k]
  BY <1>2, AddsIs
<1>5. \A i \in PendingAt(open, where) : ~SelfCloses(code', i + 2)
  BY StillPending
<1>6. p \notin Q
  BY PendingPlaced
<1>7. \A k \in 1 .. Len(S) : ~BeginsTag(code', Len(code) + k)
  BY <1>1, <1>2, NoTagAt
<1>8. ASSUME NEW k \in 1 .. Len(S), k # 1
      PROVE  ~BeginsTag(code', Len(code) + k) /\ TagCloses(code')[Len(code) + k] = "none"
  <2>1. S[k] # "<"
    BY <1>1, <1>3, <1>8
  <2> QED
    BY <1>2, <1>7, <2>1, NoCloseAt
<1>9. S[1] = "/" => where # "operand"
  BY <1>1
<1>10. TagsAt(code', Q) = Judge(TagsAt(code, Q), OpensBut(code', Q)[p], TagCloses(code')[p], Line(code', p))
  BY <1>2, <1>5, <1>6, <1>8, <1>9, OneTag
<1>11. TagsAt(code, Q) \in Standing
  BY <1>2, <1>5, <1>9, TagsStand
<1>12. p \in 1 .. Len(code') /\ p + 1 \in 1 .. Len(code') /\ p + 2 \in 1 .. Len(code') /\ p + 1 \in Int /\ p + 2 \in Int
  BY <1>1, <1>4
<1>13. code'[p] = "<" /\ code'[p + 1] = "/" /\ code'[p + 2] = name
  <2>1. 1 \in 1 .. Len(S) /\ 2 \in 1 .. Len(S) /\ 3 \in 1 .. Len(S) /\ p + 1 = Len(code) + 2 /\ p + 2 = Len(code) + 3
    BY <1>1, <1>4
  <2> QED
    BY <1>1, <1>4, <2>1
<1>14. ~BeginsTag(code', p)
  <2>1. 1 \in 1 .. Len(S)
    BY <1>1
  <2> QED
    BY <1>7, <2>1
<1> HIDE DEF p
<1>15. At(code', p + 1) = "/" /\ TagName(code', p + 2) = name
  <2> DEFINE one == p + 1
             two == p + 2
  <2>1. one \in 1 .. Len(code') /\ one \in Int /\ two \in 1 .. Len(code') /\ two \in Int
    BY <1>12
  <2>2. code'[one] = "/" /\ code'[two] = name
    BY <1>13
  <2> HIDE DEF one, two
  <2>3. At(code', one) = "/" /\ At(code', two) = name
    BY <1>4, <2>1, <2>2, AtIs
  <2>4. TagName(code', two) = name
    BY <1>3, <2>2, <2>3 DEF TagName
  <2> QED
    BY <2>3, <2>4 DEF one, two
<1>16. OpensBut(code', Q)[p] = "none" /\ TagCloses(code')[p] = name
  <2>1. /\ OpensBut(code', Q)[p] = IF p \notin Q /\ BeginsTag(code', p) /\ ~SelfCloses(code', p + 2) THEN TagName(code', p + 1) ELSE "none"
        /\ TagCloses(code')[p] = IF code'[p] = "<" /\ At(code', p + 1) = "/" THEN TagName(code', p + 2) ELSE "none"
    BY <1>4, <1>12, TagMarksAre
  <2> QED
    BY <1>13, <1>14, <1>15, <2>1
<1> QED
  BY <1>10, <1>11, <1>16 DEF p

(* Its closing tag is found. *)
LEMMA CloseTagTags ==
  ASSUME Core, TagsEnd(code, open, where), CloseTagMove, TagsFound(code, open, where, mistake.tags)
  PROVE  TagsFound(code', open', where', mistake'.tags)
<1> DEFINE name == Top.what
           z == Len(open)
           line == Line(code', Len(code) + 1)
           entry == Entered(open, code)
           other == Entered(open', code')
<1>1. /\ Adds(<<"<", "/", name, ">">>) /\ mistake' = mistake /\ open # << >> /\ open' = Below /\ name \in Element
  BY DEF CloseTagMove
<1>2. /\ TagsEnd(code', open', where')
      /\ PendingAt(open', where') = PendingAt(open, where)
      /\ open[z].at \notin PendingAt(open, where)
  BY CloseTagEnds
<1>3. /\ z \in KeptOf(open, Element)
      /\ KeptOf(open', Element) = KeptOf(open, Element) \ {z}
      /\ \A d \in KeptOf(open, Element) : d <= z
      /\ \A d \in KeptOf(open, Element) \ {z} : d \in 1 .. Len(open') /\ open'[d] = open[d]
  BY <1>1, ElementTop
<1>4. \A d \in KeptOf(open, Element) \ {z} : other[d] = entry[d]
  <2> SUFFICES ASSUME NEW d \in KeptOf(open, Element) \ {z} PROVE other[d] = entry[d]
    OBVIOUS
  <2>1. d \in 1 .. Len(open) /\ d \in 1 .. Len(open') /\ open'[d] = open[d]
    BY <1>3 DEF KeptOf
  <2> QED
    BY <1>1, <2>1, StillEntered
<1>5. entry[z].what = name
  <2>1. z \in 1 .. Len(open)
    BY <1>3 DEF KeptOf
  <2> QED
    BY <2>1 DEF Entered, Top
<1>6. name \in Letter
  BY <1>1, ElementIs
<1> HIDE DEF other, line, entry, name
<1> SUFFICES ASSUME NEW Q \in SUBSET PendingAt(open', where')
             PROVE  Finds(TagsAt(code', Q), mistake.tags, KeptBut(open', Q), Entered(open', code'))
  BY <1>1 DEF TagsFound
<1> DEFINE kept == KeptBut(open, Q)
<1>7. Q \in SUBSET PendingAt(open, where)
  BY <1>2
<1>8. TagsAt(code, Q) \in Standing /\ TagsAt(code', Q) = Judge(TagsAt(code, Q), "none", name, line)
  BY <1>1, <1>2, <1>7, ClosingTag DEF line
<1>9. Finds(TagsAt(code, Q), mistake.tags, kept, entry)
  BY <1>7 DEF TagsFound, entry
<1>10. kept \in SUBSET Nat /\ z \in kept /\ (\A d \in kept : d <= z) /\ \A d \in kept \ {z} : other[d] = entry[d]
  <2>1. kept \in SUBSET KeptOf(open, Element)
    BY DEF KeptBut
  <2>2. KeptOf(open, Element) \in SUBSET Nat
    BY DEF KeptOf
  <2>3. z \in kept
    BY <1>2, <1>3, <1>7 DEF KeptBut
  <2> HIDE DEF kept
  <2> QED
    BY <1>3, <1>4, <2>1, <2>2, <2>3
<1>11. KeptBut(open', Q) = kept \ {z}
  BY <1>3 DEF KeptBut
<1> HIDE DEF kept, z
<1>12. Finds(Judge(TagsAt(code, Q), "none", name, line), mistake.tags, kept \ {z}, other)
  BY <1>5, <1>6, <1>8, <1>9, <1>10, FindsPop
<1> QED
  BY <1>8, <1>11, <1>12 DEF other

(* The innermost element has been seen by the scanner wherever a closing tag can be. *)
LEMMA InnermostKept ==
  ASSUME Core, where = "children" \/ (where = "value" /\ Innermost(Element) = 0),
         NEW Q \in SUBSET PendingAt(open, where)
  PROVE  LET z == Innermost(Element) IN
         /\ KeptBut(open, Q) = {} <=> z = 0
         /\ z # 0 => z \in KeptBut(open, Q) /\ (\A d \in KeptBut(open, Q) : d <= z)
<1> DEFINE z == Innermost(Element)
<1>1. /\ z = 0 <=> KeptOf(open, Element) = {}
      /\ KeptOf(open, Element) # {} => z \in KeptOf(open, Element) /\ \A d \in KeptOf(open, Element) : d <= z
  BY InnermostIs
<1>2. CASE z = 0
  <2>1. KeptBut(open, Q) = {}
    BY <1>1, <1>2 DEF KeptBut
  <2> QED
    BY <1>2, <2>1
<1>3. CASE z # 0
  <2>1. where = "children"
    BY <1>3
  <2>2. z \in KeptOf(open, Element) /\ \A d \in KeptOf(open, Element) : d <= z
    BY <1>1, <1>3
  <2>3. open # << >> /\ Top.what \in Element
    BY <2>1, InsideTop DEF Inside
  <2>4. Len(open) \in KeptOf(open, Element) /\ Len(open) \in Nat
    <3>1. open \in Seq(Frame) /\ Len(open) \in Nat /\ Len(open) > 0
      BY <2>3, CoreTypes, PopIs
    <3>2. Len(open) \in 1 .. Len(open)
      BY <3>1
    <3> QED
      BY <2>3, <3>1, <3>2 DEF KeptOf, Top
  <2>5. z = Len(open)
    <3>1. z \in 1 .. Len(open) /\ Len(open) <= z
      BY <2>2, <2>4 DEF KeptOf
    <3> HIDE DEF z
    <3> QED
      BY <2>4, <3>1
  <2>6. z \notin Pending(open, where)
    <3>1. where # "tag"
      BY <2>1
    <3> QED
      BY <2>3, <2>5, <3>1, PendingIs
  <2>7. open[z].at \notin Q
    <3>1. ASSUME NEW d \in Pending(open, where) PROVE open[d].at # open[z].at
      <4>1. d \in 1 .. Len(open) /\ d # z /\ z \in 1 .. Len(open)
        BY <2>2, <2>6 DEF KeptOf, Pending
      <4> HIDE DEF z
      <4> QED
        BY <4>1, AtOnce
    <3> QED
      BY <3>1 DEF PendingAt
  <2>8. z \in KeptBut(open, Q) /\ \A d \in KeptBut(open, Q) : d <= z
    BY <2>2, <2>7 DEF KeptBut
  <2> QED
    BY <1>3, <2>8
<1> QED
  BY <1>2, <1>3

(* A wrong closing tag is found, at its line. *)
LEMMA WrongTagTags ==
  ASSUME Core, TagsEnd(code, open, where), NEW name \in Element, WrongTagMove(name),
         TagsFound(code, open, where, mistake.tags)
  PROVE  TagsFound(code', open', where', mistake'.tags)
<1> DEFINE S == <<"<", "/", name, ">">>
           z == Innermost(Element)
           line == Line(code', Len(code) + 1)
           entry == Entered(open, code)
           other == Entered(open', code')
<1>1. /\ Adds(S) /\ Misplaced(Element, name) /\ open' = open
      /\ where = "children" \/ (where = "value" /\ Innermost(Element) = 0)
      /\ mistake' = [mistake EXCEPT !.tags = Blames(@, Element)]
  BY DEF WrongTagMove
<1>2. TagsEnd(code', open', where') /\ PendingAt(open', where') = PendingAt(open, where)
  BY WrongTagEnds
<1>3. line = Here
  <2>1. S[1] = "<" /\ "<" # Newline
    BY DEF Newline
  <2> HIDE DEF S
  <2> QED
    BY <1>1, <2>1, HereIs
<1>4. mistake'.tags = Blames(mistake.tags, Element)
  <2>1. mistake' = [mistake EXCEPT !.tags = Blames(mistake.tags, Element)]
    BY <1>1
  <2>2. [mistake EXCEPT !.tags = Blames(mistake.tags, Element)].tags = Blames(mistake.tags, Element)
    BY MistakeIs
  <2> QED
    BY <2>1, <2>2
<1>5. name \in Letter
  BY ElementIs
<1> SUFFICES ASSUME NEW Q \in SUBSET PendingAt(open', where')
             PROVE  Finds(TagsAt(code', Q), mistake'.tags, KeptBut(open', Q), Entered(open', code'))
  BY DEF TagsFound
<1> DEFINE kept == KeptBut(open, Q)
<1>6. Q \in SUBSET PendingAt(open, where)
  BY <1>2
<1>7. TagsAt(code, Q) \in Standing /\ TagsAt(code', Q) = Judge(TagsAt(code, Q), "none", name, line)
  BY <1>1, <1>2, <1>6, ClosingTag
<1>8. Finds(TagsAt(code, Q), mistake.tags, kept, entry)
  BY <1>6 DEF TagsFound
<1>9. (kept = {} <=> z = 0) /\ (z # 0 => z \in kept /\ \A d \in kept : d <= z)
  BY <1>1, <1>6, InnermostKept
<1>10. kept \in SUBSET Nat /\ KeptBut(open', Q) = kept /\ kept \in SUBSET (1 .. Len(open))
  BY <1>1 DEF KeptBut, KeptOf
<1>11. kept # {} => \E y \in kept : (\A d \in kept : d <= y) /\ entry[y].what # name
  <2> SUFFICES ASSUME kept # {} PROVE \E y \in kept : (\A d \in kept : d <= y) /\ entry[y].what # name
    OBVIOUS
  <2>1. z \in kept /\ (\A d \in kept : d <= z) /\ z # 0
    BY <1>9
  <2>2. open[z].what # name
    BY <1>1, <2>1 DEF Misplaced
  <2>3. z \in 1 .. Len(open)
    BY <1>10, <2>1
  <2>4. entry[z].what = open[z].what
    BY <2>3 DEF Entered
  <2> HIDE DEF z, kept, entry
  <2> QED
    BY <2>1, <2>2, <2>4
<1>12. \A d \in kept : other[d] = entry[d]
  <2> SUFFICES ASSUME NEW d \in kept PROVE other[d] = entry[d]
    OBVIOUS
  <2>1. d \in 1 .. Len(open) /\ d \in 1 .. Len(open') /\ open'[d] = open[d]
    BY <1>1, <1>10
  <2> QED
    BY <1>1, <2>1, StillEntered
<1> DEFINE first == IF mistake.tags # Fine THEN mistake.tags
                    ELSE [error |-> IF kept = {} THEN "unexpected" ELSE "mismatched", line |-> line]
<1>13. mistake'.tags = first
  <2> HIDE DEF kept
  <2> QED
    BY <1>3, <1>4, <1>9 DEF Blames
<1> HIDE DEF kept, entry, line, other
<1>14. Finds(Judge(TagsAt(code, Q), "none", name, line), first, kept, entry)
  BY <1>5, <1>7, <1>8, <1>10, <1>11, FindsFault
<1> HIDE DEF first
<1>15. Finds(Judge(TagsAt(code, Q), "none", name, line), first, kept, other)
  BY <1>12, <1>14, FindsSame
<1> QED
  BY <1>7, <1>10, <1>13, <1>15 DEF other

-----------------------------------------------------------------------------
(* The tags, as long as no bracket is wrong. *)
Tags ==
  mistake.brackets = Fine => TagsEnd(code, open, where) /\ TagsFound(code, open, where, mistake.tags)
(* No text ends in a word before an element. *)
NoWord == \A d \in Dialects : "word<" \notin d.forms

(* A wrong bracket is a mistake. *)
LEMMA BracketFault ==
  ASSUME Core, NEW opener, WrongBracketMove(opener)
  PROVE  mistake'.brackets # Fine
<1>1. mistake'.brackets = Blames(mistake.brackets, Opener)
  <2>1. mistake \in [brackets : Faults, tags : Faults]
    BY CoreTypes
  <2>2. mistake' = [mistake EXCEPT !.brackets = Blames(@, Opener)]
    BY DEF WrongBracketMove
  <2> QED
    BY <2>1, <2>2
<1>2. CASE mistake.brackets # Fine
  BY <1>1, <1>2 DEF Blames
<1>3. CASE mistake.brackets = Fine
  <2>1. Blames(mistake.brackets, Opener).error \in {"unexpected", "mismatched"}
    BY <1>3 DEF Blames
  <2>2. Fine.error = "none"
    BY DEF Fine
  <2> QED
    BY <1>1, <2>1, <2>2
<1> QED
  BY <1>2, <1>3

(* Every move keeps what jsxSanity finds. *)
LEMMA TagsStep ==
  ASSUME Core, Tags, Moves, "word<" \notin dialect.forms
  PROVE  Tags'
<1> SUFFICES ASSUME mistake'.brackets = Fine
             PROVE  TagsEnd(code', open', where') /\ TagsFound(code', open', where', mistake'.tags)
  BY DEF Tags
<1>1. CASE \E opener \in Opener : WrongBracketMove(opener)
  BY <1>1, BracketFault
<1>2. CASE ~\E opener \in Opener : WrongBracketMove(opener)
  <2>1. mistake'.brackets = mistake.brackets
    <3>1. ASSUME NEW name \in Element, WrongTagMove(name) PROVE mistake'.brackets = mistake.brackets
      <4>1. mistake' = [mistake EXCEPT !.tags = Blames(mistake.tags, Element)]
        BY <3>1 DEF WrongTagMove
      <4> QED
        BY <4>1, MistakeIs
    <3> QED
      BY <1>2, <3>1 DEF Moves, PlainMove, OpenMove, CloseMove, StartMove, EndMove, SelfCloseMove, CloseTagMove
  <2>2. TagsEnd(code, open, where) /\ TagsFound(code, open, where, mistake.tags)
    BY <2>1 DEF Tags
  <2>3. ASSUME NEW S, PlainMove(S)
        PROVE  TagsEnd(code', open', where') /\ TagsFound(code', open', where', mistake'.tags)
    BY <2>2, <2>3, PlainEnds, PlainTags
  <2>4. ASSUME NEW S, NEW p, NEW after, OpenMove(S, p, after)
        PROVE  TagsEnd(code', open', where') /\ TagsFound(code', open', where', mistake'.tags)
    BY <2>2, <2>4, OpenEnds, OpenTags
  <2>5. ASSUME CloseMove
        PROVE  TagsEnd(code', open', where') /\ TagsFound(code', open', where', mistake'.tags)
    BY <2>2, <2>5, CloseEnds, CloseTags
  <2>6. ASSUME NEW name \in Element, NEW after \in {"value", "children"}, StartMove(name, after)
        PROVE  TagsEnd(code', open', where') /\ TagsFound(code', open', where', mistake'.tags)
    BY <2>2, <2>6, StartEnds, StartTags
  <2>7. ASSUME EndMove
        PROVE  TagsEnd(code', open', where') /\ TagsFound(code', open', where', mistake'.tags)
    BY <2>2, <2>7, EndEnds, EndTags
  <2>8. ASSUME SelfCloseMove
        PROVE  TagsEnd(code', open', where') /\ TagsFound(code', open', where', mistake'.tags)
    BY <2>2, <2>8, SelfCloseEnds, SelfCloseTags
  <2>9. ASSUME CloseTagMove
        PROVE  TagsEnd(code', open', where') /\ TagsFound(code', open', where', mistake'.tags)
    BY <2>2, <2>9, CloseTagEnds, CloseTagTags
  <2>10. ASSUME NEW name \in Element, WrongTagMove(name)
         PROVE  TagsEnd(code', open', where') /\ TagsFound(code', open', where', mistake'.tags)
    BY <2>2, <2>10, WrongTagEnds, WrongTagTags
  <2> QED
    BY <1>2, <2>3, <2>4, <2>5, <2>6, <2>7, <2>8, <2>9, <2>10 DEF Moves
<1> QED
  BY <1>1, <1>2

(* An empty stack tracks nothing. *)
LEMMA TracksNothing == \A kept, entry : kept = {} => Tracks(<< >>, kept, entry)
<1> SUFFICES ASSUME NEW entry PROVE Tracks(<< >>, {}, entry)
  OBVIOUS
<1>1. Len(<< >>) = 0 /\ 1 .. 0 = {}
  OBVIOUS
<1> DEFINE at == [j \in {} |-> 0]
<1>2. at \in [1 .. Len(<< >>) -> {}]
  BY <1>1
<1>3. Keeps(<< >>, {}, entry, at)
  BY <1>1 DEF Keeps
<1> QED
  BY <1>2, <1>3 DEF Tracks

(* In the empty text it finds nothing. *)
LEMMA TagsInit ==
  ASSUME Init
  PROVE  Tags
<1>1. code = << >> /\ open = << >> /\ where = "operand" /\ mistake.tags = Fine
  BY DEF Init
<1>2. code \in Seq(Letter) /\ Len(code) = 0 /\ Len(open) = 0
  BY <1>1
<1>3. Pending(open, where) = {} /\ PendingAt(open, where) = {} /\ KeptOf(open, Element) = {}
  BY <1>2 DEF Pending, PendingAt, KeptOf
<1>4. TagsEnd(code, open, where)
  BY <1>2, <1>3 DEF TagsEnd
<1>5. ASSUME NEW Q PROVE TagsAt(code, Q).first = Fine /\ TagsAt(code, Q).stack = << >>
  <2> DEFINE g == Judging(code, OpensBut(code, Q), TagCloses(code))
  <2>1. Kinds(Len(code), OpensBut(code, Q))
    BY <1>2 DEF Kinds
  <2>2. g[0] = Begin /\ TagsAt(code, Q) = g[Len(code)]
    BY <1>2, <2>1, JudgingIs DEF TagsAt
  <2> QED
    BY <1>2, <2>2, BeginIs
<1>6. \A kept, entry : kept = {} => Tracks(<< >>, kept, entry)
  BY TracksNothing
<1>7. \A Q : KeptBut(open, Q) = {}
  BY <1>3 DEF KeptBut
<1>8. TagsFound(code, open, where, mistake.tags)
  BY <1>1, <1>5, <1>6, <1>7 DEF TagsFound, Finds
<1> QED
  BY <1>4, <1>8 DEF Tags

(* What it finds is an inductive invariant with the core. *)
LEMMA TagsInvariant ==
  ASSUME NoWord, Core, Tags, [Next]_vars
  PROVE  Tags'
<1>1. ASSUME Next PROVE Tags'
  <2>1. dialect \in Dialects
    BY DEF Core, Shape, TypeInv
  <2>2. "word<" \notin dialect.forms
    BY <2>1 DEF NoWord
  <2> QED
    BY <1>1, <2>2, EveryMove, TagsStep
<1>2. ASSUME UNCHANGED vars PROVE Tags'
  <2>1. code' = code /\ open' = open /\ mistake' = mistake /\ where' = where
    BY <1>2 DEF vars
  <2> QED
    BY <2>1 DEF Tags
<1> QED
  BY <1>1, <1>2

(* So it always holds. *)
LEMMA TagsAlways ==
  ASSUME NoWord
  PROVE  Spec => []Tags
<1>1. Spec => []Core
  BY CoreAlways
<1>2. Init => Tags
  BY TagsInit
<1>3. Core /\ Tags /\ [Next]_vars => Tags'
  BY TagsInvariant
<1> QED
  BY <1>1, <1>2, <1>3, PTL DEF Spec

(* It makes the verdict of jsxSanity exact. *)
LEMMA TagsFoundExactly ==
  ASSUME Core, Tags, mistake.brackets = Fine
  PROVE  JsxSanity(text) = Expected(mistake.tags, Element)
<1>1. StripStringsAndComments(text) = code
  BY TextIsCode DEF StripsExactly
<1>2. TagsFound(code, open, where, mistake.tags)
  BY DEF Tags
<1>3. OpensBut(code, {}) = TagOpens(code)
  BY DEF OpensBut, TagOpens
<1>4. KeptBut(open, {}) = KeptOf(open, Element)
  BY DEF KeptBut
<1> DEFINE state == TagsAt(code, {})
<1>5. JsxSanity(text) = Verdict(state)
  BY <1>1, <1>3 DEF JsxSanity, TagsAt
<1>6. Finds(state, mistake.tags, KeptOf(open, Element), Entered(open, code))
  <2>1. {} \in SUBSET PendingAt(open, where)
    OBVIOUS
  <2>2. Finds(state, mistake.tags, KeptBut(open, {}), Entered(open, code))
    BY <1>2, <2>1 DEF TagsFound
  <2> QED
    BY <1>4, <2>2
<1>7. state \in Standing
  <2>1. code \in Seq(Letter)
    BY CoreTypes
  <2>2. Kinds(Len(code), OpensBut(code, {}))
    BY <2>1, TagMarksAre DEF Kinds
  <2>3. Resumes(code, OpensBut(code, {}), TagCloses(code), code, OpensBut(code, {}), TagCloses(code))
    BY <2>1, <2>2 DEF Resumes
  <2> QED
    BY <2>3, JudgedBefore DEF TagsAt
<1> HIDE DEF state
<1> QED
  BY <1>5, <1>6, <1>7, VerdictIs

(* Both scanners, for code of any length in which no word of text stands right *)
(* before an element: each reports its first error at its line, and no other.  *)
THEOREM GateErrorsExact ==
  ASSUME NoWord
  PROVE  Spec => []ErrorsExact
<1>1. Core /\ BracketsFound /\ Tags => ErrorsExact
  BY BracketsFoundExactly, TagsFoundExactly DEF ErrorsExact, BracketsExact
<1>2. Spec => []Core
  BY CoreAlways
<1>3. Spec => []BracketsFound
  BY BracketsAlways
<1>4. Spec => []Tags
  BY TagsAlways
<1> QED
  BY <1>1, <1>2, <1>3, <1>4, PTL

(* Nothing is to be reported when there is no mistake and nothing is open. *)
LEMMA ExpectedFine ==
  ASSUME Core, NEW first, NEW kinds
  PROVE  Expected(first, kinds) = Fine <=> first = Fine /\ KeptOf(open, kinds) = {}
<1>1. Innermost(kinds) = 0 <=> KeptOf(open, kinds) = {}
  BY InnermostIs
<1>2. \A l : [error |-> "unclosed", line |-> l] # Fine
  <2> SUFFICES ASSUME NEW l PROVE [error |-> "unclosed", line |-> l] # Fine
    OBVIOUS
  <2>1. [error |-> "unclosed", line |-> l].error = "unclosed" /\ Fine.error = "none"
    BY DEF Fine
  <2> QED
    BY <2>1
<1> QED
  BY <1>1, <1>2 DEF Expected

(* All that can be open are brackets and elements. *)
LEMMA NothingOpen ==
  ASSUME Core
  PROVE  open = << >> <=> KeptOf(open, Opener) = {} /\ KeptOf(open, Element) = {}
<1>1. open \in Seq(Frame) /\ Len(open) \in Nat
  BY CoreTypes, LenProperties
<1>2. CASE open = << >>
  BY <1>2 DEF KeptOf
<1>3. CASE open # << >>
  <2>1. 1 \in 1 .. Len(open) /\ open[1] \in Frame
    BY <1>1, <1>3
  <2>2. open[1].what \in Opener \/ open[1].what \in Element
    BY <2>1 DEF Frame
  <2> QED
    BY <1>3, <2>1, <2>2 DEF KeptOf
<1> QED
  BY <1>2, <1>3

(* hasDefaultExport finds the export that was meant, and no other. *)
LEMMA ExportIs ==
  ASSUME Core
  PROVE  HasDefaultExport(text) <=> "export" \in said
<1>1. StripStringsAndComments(text) = code
  BY TextIsCode DEF StripsExactly
<1>2. code \in Seq(Letter) /\ Len(code) \in Nat /\ DOMAIN code = 1 .. Len(code)
  BY CoreTypes, TextIs
<1>3. Meant(text, code, said)
  BY DEF Core, Shape
<1>4. ASSUME HasDefaultExport(text) PROVE "export" \in said
  <2>1. PICK i \in DOMAIN code : code[i] = "export"
    BY <1>1, <1>4 DEF HasDefaultExport
  <2> QED
    BY <1>2, <1>3, <2>1 DEF Meant
<1>5. ASSUME "export" \in said PROVE HasDefaultExport(text)
  <2>1. Len(code) > 3 /\ code[1] = "export" /\ code[2] = Blank /\ code[3] = "default"
    BY <1>3, <1>5 DEF Meant
  <2>2. 1 \in DOMAIN code /\ 2 \in DOMAIN code /\ 3 \in DOMAIN code /\ 1 + 1 = 2 /\ 1 + 2 = 3
    BY <1>2, <2>1
  <2>3. At(code, 1 + 1) = Blank /\ At(code, 1 + 2) = "default"
    BY <2>1, <2>2 DEF At
  <2>4. "default" \in {At(code, 1 + 1), IF At(code, 1 + 1) = Blank THEN At(code, 1 + 2) ELSE "none"}
    BY <2>3
  <2>5. \E i \in DOMAIN code :
          /\ code[i] = "export"
          /\ "default" \in {At(code, i + 1), IF At(code, i + 1) = Blank THEN At(code, i + 2) ELSE "none"}
    BY <2>1, <2>2, <2>4
  <2> QED
    BY <1>1, <2>5 DEF HasDefaultExport
<1> QED
  BY <1>4, <1>5

(* Validate passes what each of its conditions passes. *)
LEMMA SaysIs ==
  ASSUME NEW src
  PROVE  Validate(src) = {} <=>
           /\ ~(Len(src) > FileContentMaxBytes) /\ ~(\A i \in DOMAIN src : src[i] \in Space)
           /\ ~ForbiddenInCode(src) /\ HasDefaultExport(src)
           /\ BraceBalance(src) = Fine /\ JsxSanity(src) = Fine
<1> DEFINE Says(condition, what) == IF condition THEN {[error |-> what, line |-> 1]} ELSE {}
           long == Says(Len(src) > FileContentMaxBytes, "too long")
           empty == Says(\A i \in DOMAIN src : src[i] \in Space, "empty")
           forbidden == Says(ForbiddenInCode(src), "forbidden")
           bare == Says(~HasDefaultExport(src), "no default export")
           wrong == {BraceBalance(src), JsxSanity(src)} \ {Fine}
<1>1. Validate(src) = long \cup empty \cup forbidden \cup bare \cup wrong
  BY Zenon DEF Validate
<1>2. /\ long = {} <=> ~(Len(src) > FileContentMaxBytes)
      /\ empty = {} <=> ~(\A i \in DOMAIN src : src[i] \in Space)
      /\ forbidden = {} <=> ~ForbiddenInCode(src)
      /\ bare = {} <=> HasDefaultExport(src)
  <2>1. \A x : {x} # {}
    OBVIOUS
  <2> QED
    BY <2>1, Zenon
<1>3. wrong = {} <=> BraceBalance(src) = Fine /\ JsxSanity(src) = Fine
  OBVIOUS
<1> HIDE DEF long, empty, forbidden, bare, wrong
<1>4. Validate(src) = {} <=> long = {} /\ empty = {} /\ forbidden = {} /\ bare = {} /\ wrong = {}
  BY <1>1
<1> QED
  BY <1>2, <1>3, <1>4, Zenon

(* Scanners that are exact make Validate exact. *)
LEMMA CompleteIs ==
  ASSUME Core, ErrorsExact
  PROVE  PassIsComplete
<1> DEFINE b == mistake.brackets
           t == mistake.tags
<1>1. BraceBalance(text) = Fine <=> b = Fine /\ KeptOf(open, Opener) = {}
  BY ExpectedFine DEF ErrorsExact
<1>2. b = Fine => (JsxSanity(text) = Fine <=> t = Fine /\ KeptOf(open, Element) = {})
  BY ExpectedFine DEF ErrorsExact
<1>3. mistake = [brackets |-> Fine, tags |-> Fine] <=> b = Fine /\ t = Fine
  <2>1. mistake \in [brackets : Faults, tags : Faults]
    BY CoreTypes
  <2>2. mistake = [brackets |-> b, tags |-> t]
    BY <2>1
  <2>3. [brackets |-> Fine, tags |-> Fine].brackets = Fine /\ [brackets |-> Fine, tags |-> Fine].tags = Fine
    OBVIOUS
  <2> QED
    BY <2>2, <2>3, Zenon
<1> HIDE DEF b, t
<1>4. BraceBalance(text) = Fine /\ JsxSanity(text) = Fine <=> open = << >> /\ mistake = [brackets |-> Fine, tags |-> Fine]
  BY <1>1, <1>2, <1>3, NothingOpen
<1>5. HasDefaultExport(text) <=> "export" \in said
  BY ExportIs
<1>6. text \in Seq(Letter) /\ code \in Seq(Letter) /\ Len(code) = Len(text) /\ Len(text) \in Nat
  BY CoreTypes
<1>7. DOMAIN text = 1 .. Len(text)
  BY <1>6, TextIs
<1>8. Meant(text, code, said) /\ Seen(text, code)
  BY DEF Core, Shape
<1>9. ForbiddenInCode(text) <=> "execSync" \in said
  BY <1>7, <1>8 DEF ForbiddenInCode, Meant
<1>10. "export" \in said => ~\A i \in DOMAIN text : text[i] \in Space
  <2> SUFFICES ASSUME "export" \in said PROVE 1 \in DOMAIN text /\ text[1] \notin Space
    OBVIOUS
  <2>1. Len(code) > 3 /\ code[1] = "export"
    BY <1>8 DEF Meant
  <2>2. 1 \in 1 .. Len(text)
    BY <1>6, <2>1
  <2>3. code[1] \in {text[1], Blank}
    BY <1>8, <2>2 DEF Seen
  <2>4. text[1] = "export"
    BY <2>1, <2>3 DEF Blank
  <2> QED
    BY <1>7, <2>2, <2>4 DEF Space, Newline, Blank
<1>11. ~(Len(text) > FileContentMaxBytes) <=> Len(text) <= FileContentMaxBytes
  <2>1. FileContentMaxBytes \in Nat
    BY LimitAssumption
  <2> QED
    BY <1>6, <2>1
<1>12. Validate(text) = {} <=>
         /\ ~(Len(text) > FileContentMaxBytes) /\ ~(\A i \in DOMAIN text : text[i] \in Space)
         /\ ~ForbiddenInCode(text) /\ HasDefaultExport(text)
         /\ BraceBalance(text) = Fine /\ JsxSanity(text) = Fine
  BY SaysIs
<1> QED
  BY <1>4, <1>5, <1>9, <1>10, <1>11, <1>12 DEF PassIsComplete

(* Validate, for the same code: it passes what is complete, without mistake, exported *)
(* and free of the forbidden word, and nothing else.                                  *)
THEOREM GatePassIsComplete ==
  ASSUME NoWord
  PROVE  Spec => []PassIsComplete
<1>1. Spec => []ErrorsExact
  BY GateErrorsExact
<1> QED
  BY <1>1, CoreAlways, CompleteIs, PTL

=============================================================================
