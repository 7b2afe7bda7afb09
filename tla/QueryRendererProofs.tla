------------------------ MODULE QueryRendererProofs ------------------------
(***************************************************************************)
(* What the renderer makes of every statement.  A statement is a sequence  *)
(* of tokens and its text their characters one behind the other, so that   *)
(* first come lemmas about FlattenSeq, by induction on the number of       *)
(* sequences; then the scanner is followed through one token, of each      *)
(* kind, and from one token to the next.                                   *)
(***************************************************************************)
EXTENDS QueryRenderer, SequenceTheorems, WellFoundedInduction, TLAPS

-----------------------------------------------------------------------------
(* Sequences of sequences. *)

\* A set of numbers that has 0, and with each number the next, has them all.
LEMMA Induction ==
  ASSUME NEW S \in SUBSET Nat, 0 \in S, \A n \in S : n + 1 \in S
  PROVE  \A n \in Nat : n \in S
<1>. DEFINE less == {ss \in Nat \X Nat : ss[1] < ss[2]}
<1>1. IsWellFoundedOn(less, Nat)
  BY NatLessThanWellFounded DEF OpToRel
<1>. HIDE DEF less
<1>. SUFFICES ASSUME Nat \ S # {} PROVE FALSE
  OBVIOUS
<1>2. PICK n \in Nat \ S : \A y \in Nat \ S : ~(<<y, n>> \in less)
  BY <1>1, WFMin
<1>3. \A y \in Nat \ S : ~(y < n)
  BY <1>2 DEF less
<1>4. n - 1 \in Nat /\ n - 1 < n /\ (n - 1) + 1 = n
  BY <1>2
<1>. QED
  BY <1>2, <1>3, <1>4

\* f[k] is the first k sequences of s, one behind the other, for k up to n.
Flattening(s, n, f, C) ==
  /\ f \in [1..n -> Seq(C)]
  /\ \A k \in 1..n : f[k] = IF k = 1 THEN s[k] ELSE f[k - 1] \o s[k]

LEMMA FlatteningExists ==
  ASSUME NEW C, NEW s \in Seq(Seq(C))
  PROVE  \E f : Flattening(s, Len(s), f, C)
<1>. DEFINE S == {n \in Nat : n <= Len(s) => \E f : Flattening(s, n, f, C)}
<1>1. 0 \in S
  <2>1. Flattening(s, 0, [k \in 1..0 |-> <<>>], C)
    BY DEF Flattening
  <2>. QED
    BY <2>1
<1>2. ASSUME NEW n \in S PROVE n + 1 \in S
  <2>. SUFFICES ASSUME n + 1 <= Len(s) PROVE \E f : Flattening(s, n + 1, f, C)
    OBVIOUS
  <2>0. Len(s) \in Nat
    OBVIOUS
  <2>1. PICK f : Flattening(s, n, f, C)
    BY <2>0
  <2>. DEFINE last == IF n = 0 THEN s[1] ELSE f[n] \o s[n + 1]
              g == [k \in 1..n + 1 |-> IF k = n + 1 THEN last ELSE f[k]]
  <2>2. s[n + 1] \in Seq(C) /\ (n # 0 => f[n] \in Seq(C))
    BY <2>1 DEF Flattening
  <2>3. last \in Seq(C)
    BY <2>2, ConcatProperties
  <2>4. \A k \in 1..n : f[k] \in Seq(C) /\ f[k] = IF k = 1 THEN s[k] ELSE f[k - 1] \o s[k]
    BY <2>1 DEF Flattening
  <2>5. g \in [1..n + 1 -> Seq(C)]
    <3>. HIDE DEF last
    <3>1. \A k \in 1..n + 1 : (IF k = n + 1 THEN last ELSE f[k]) \in Seq(C)
      BY <2>3, <2>4
    <3>. QED
      BY <3>1
  <2>6. ASSUME NEW k \in 1..n + 1 PROVE g[k] = IF k = 1 THEN s[k] ELSE g[k - 1] \o s[k]
    <3>1. CASE k = n + 1
      BY <3>1
    <3>2. CASE k # n + 1
      BY <2>4, <3>2
    <3>. QED
      BY <3>1, <3>2
  <2>7. Flattening(s, n + 1, g, C)
    BY <2>5, <2>6 DEF Flattening
  <2>. QED
    BY <2>7
<1>. HIDE DEF S
<1>3. S \in SUBSET Nat
  BY DEF S
<1>4. \A n \in Nat : n \in S
  BY <1>1, <1>2, <1>3, Induction
<1>5. Len(s) \in Nat /\ Len(s) <= Len(s)
  OBVIOUS
<1>. QED
  BY <1>4, <1>5 DEF S

\* FlattenSeq is what it says, whatever function it is computed with.
LEMMA FlattenSeqIs ==
  ASSUME NEW C, NEW s \in Seq(Seq(C)), s # <<>>, NEW f, Flattening(s, Len(s), f, C)
  PROVE  FlattenSeq(s) = f[Len(s)]
<1>. DEFINE Computes(g) == g = [k \in 1..Len(s) |-> IF k = 1 THEN s[k] ELSE g[k - 1] \o s[k]]
            g == CHOOSE g : Computes(g)
<1>1. FlattenSeq(s) = g[Len(s)]
  BY DEF FlattenSeq
<1>2. Computes(f)
  BY DEF Flattening
<1>3. Computes(g)
  BY <1>2
<1>. HIDE DEF g
<1>. DEFINE S == {n \in Nat : n \in 1..Len(s) => f[n] = g[n]}
<1>4. \A n \in 1..Len(s) : g[n] = IF n = 1 THEN s[n] ELSE g[n - 1] \o s[n]
  BY <1>3
<1>5. \A n \in 1..Len(s) : f[n] = IF n = 1 THEN s[n] ELSE f[n - 1] \o s[n]
  BY DEF Flattening
<1>6. ASSUME NEW n \in S PROVE n + 1 \in S
  <2>. SUFFICES ASSUME n + 1 \in 1..Len(s) PROVE f[n + 1] = g[n + 1]
    OBVIOUS
  <2>1. CASE n = 0
    BY <1>4, <1>5, <2>1
  <2>2. CASE n # 0
    <3>1. n \in 1..Len(s)
      BY <2>2
    <3>2. n + 1 # 1 /\ (n + 1) - 1 = n
      BY <2>2
    <3>. QED
      BY <1>4, <1>5, <3>1, <3>2
  <2>. QED
    BY <2>1, <2>2
<1>7. 0 \in S
  OBVIOUS
<1>. HIDE DEF S
<1>8. S \in SUBSET Nat
  BY DEF S
<1>9. \A n \in Nat : n \in S
  BY <1>6, <1>7, <1>8, Induction
<1>10. Len(s) \in Nat /\ Len(s) \in 1..Len(s)
  OBVIOUS
<1>. QED
  BY <1>1, <1>9, <1>10 DEF S

LEMMA FlattenEmpty == FlattenSeq(<<>>) = <<>>
BY DEF FlattenSeq

\* One more sequence comes behind those before it.
LEMMA FlattenAppend ==
  ASSUME NEW C, NEW s \in Seq(Seq(C)), NEW e \in Seq(C)
  PROVE  /\ FlattenSeq(s) \in Seq(C)
         /\ FlattenSeq(Append(s, e)) = FlattenSeq(s) \o e
<1>. DEFINE t == Append(s, e)
<1>1. t \in Seq(Seq(C)) /\ t # <<>> /\ Len(t) = Len(s) + 1 /\ t[Len(s) + 1] = e
      /\ \A k \in 1..Len(s) : t[k] = s[k]
  BY AppendProperties
<1>. HIDE DEF t
<1>2. PICK f : Flattening(t, Len(t), f, C)
  BY <1>1, FlatteningExists
<1>3. FlattenSeq(t) = f[Len(t)]
  BY <1>1, <1>2, FlattenSeqIs
<1>4. CASE s = <<>>
  <2>1. Len(t) = 1 /\ f[1] = e
    BY <1>1, <1>2, <1>4 DEF Flattening
  <2>2. <<>> \o e = e /\ <<>> \in Seq(C)
    BY ConcatEmptySeq
  <2>. QED
    BY <1>3, <1>4, <2>1, <2>2, FlattenEmpty DEF t
<1>5. CASE s # <<>>
  <2>. DEFINE g == [k \in 1..Len(s) |-> f[k]]
  <2>0. Len(s) \in Nat \ {0}
    BY <1>5
  <2>1. /\ f \in [1..Len(s) + 1 -> Seq(C)]
        /\ \A k \in 1..Len(s) + 1 : f[k] = IF k = 1 THEN t[k] ELSE f[k - 1] \o t[k]
    BY <1>1, <1>2 DEF Flattening
  <2>2. g \in [1..Len(s) -> Seq(C)]
    BY <2>0, <2>1
  <2>3. ASSUME NEW k \in 1..Len(s)
        PROVE  g[k] = IF k = 1 THEN s[k] ELSE g[k - 1] \o s[k]
    <3>1. k \in 1..Len(s) + 1 /\ t[k] = s[k] /\ g[k] = f[k]
      BY <1>1, <2>0
    <3>2. f[k] = IF k = 1 THEN s[k] ELSE f[k - 1] \o s[k]
      BY <2>1, <3>1
    <3>3. k # 1 => g[k - 1] = f[k - 1]
      BY <2>0
    <3>. QED
      BY <3>1, <3>2, <3>3
  <2>4. Flattening(s, Len(s), g, C)
    BY <2>2, <2>3 DEF Flattening
  <2>5. FlattenSeq(s) = g[Len(s)]
    BY <1>5, <2>4, FlattenSeqIs
  <2>6. g[Len(s)] = f[Len(s)] /\ f[Len(s)] \in Seq(C)
    BY <2>0, <2>1
  <2>7. f[Len(s) + 1] = f[Len(s)] \o e
    <3>1. Len(s) + 1 \in 1..Len(s) + 1 /\ Len(s) + 1 # 1 /\ (Len(s) + 1) - 1 = Len(s)
      BY <2>0
    <3>. QED
      BY <1>1, <2>1, <3>1
  <2>. QED
    BY <1>1, <1>3, <2>5, <2>6, <2>7 DEF t
<1>. QED
  BY <1>4, <1>5

\* The first k sequences of s, one behind the other.
Upto(s, k) == FlattenSeq(SubSeq(s, 1, k))

LEMMA UptoNext ==
  ASSUME NEW C, NEW s \in Seq(Seq(C)), NEW k \in 0..Len(s) - 1
  PROVE  /\ Upto(s, k) \in Seq(C)
         /\ Upto(s, k + 1) = Upto(s, k) \o s[k + 1]
<1>0. Len(s) \in Nat /\ k \in Nat /\ k + 1 \in 1..Len(s) /\ (k + 1) - 1 = k /\ 1 \in 1..Len(s)
  OBVIOUS
<1>1. s[k + 1] \in Seq(C)
  BY <1>0, ElementOfSeq
<1>2. SubSeq(s, 1, k) \in Seq(Seq(C))
  BY <1>0, SubSeqProperties, ElementOfSeq
<1>3. SubSeq(s, 1, k + 1) = SubSeq(s, 1, k) \o <<s[k + 1]>>
  BY <1>0, SubSeqRecursiveSecond
<1>4. SubSeq(s, 1, k + 1) = Append(SubSeq(s, 1, k), s[k + 1])
  BY <1>1, <1>2, <1>3, AppendIsConcat
<1>. QED
  BY <1>1, <1>2, <1>4, FlattenAppend DEF Upto

LEMMA UptoEnds ==
  ASSUME NEW C, NEW s \in Seq(Seq(C))
  PROVE  Upto(s, 0) = <<>> /\ Upto(s, Len(s)) = FlattenSeq(s) /\ FlattenSeq(s) \in Seq(C)
<1>1. SubSeq(s, 1, 0) = <<>>
  BY SubSeqEmpty
<1>2. SubSeq(s, 1, Len(s)) = s
  BY SubSeqFull
<1>3. <<>> \in Seq(C)
  OBVIOUS
<1>. QED
  BY <1>1, <1>2, <1>3, FlattenEmpty, FlattenAppend DEF Upto

\* Behind its first n elements t has those of e.
Has(t, n, e) == n + Len(e) <= Len(t) /\ \A x \in 1..Len(e) : t[n + x] = e[x]

LEMMA ConcatKeeps ==
  ASSUME NEW C, NEW s \in Seq(C), NEW t \in Seq(C), NEW e \in Seq(C), NEW n \in Nat,
         Has(s, n, e)
  PROVE  Has(s \o t, n, e)
<1>1. Len(s) \in Nat /\ Len(t) \in Nat /\ Len(e) \in Nat
  OBVIOUS
<1>2. Len(s \o t) = Len(s) + Len(t)
      /\ \A x \in 1..Len(s) + Len(t) : (s \o t)[x] = IF x <= Len(s) THEN s[x] ELSE t[x - Len(s)]
  BY ConcatProperties
<1>3. ASSUME NEW x \in 1..Len(e) PROVE (s \o t)[n + x] = e[x]
  <2>1. n + x \in 1..Len(s) + Len(t) /\ n + x <= Len(s)
    BY <1>1 DEF Has
  <2>. QED
    BY <1>2, <2>1 DEF Has
<1>. QED
  BY <1>1, <1>2, <1>3 DEF Has

LEMMA ConcatHas ==
  ASSUME NEW C, NEW s \in Seq(C), NEW e \in Seq(C)
  PROVE  Has(s \o e, Len(s), e)
<1>1. Len(s) \in Nat /\ Len(e) \in Nat
  OBVIOUS
<1>2. Len(s \o e) = Len(s) + Len(e)
      /\ \A x \in 1..Len(s) + Len(e) : (s \o e)[x] = IF x <= Len(s) THEN s[x] ELSE e[x - Len(s)]
  BY ConcatProperties
<1>3. ASSUME NEW x \in 1..Len(e) PROVE (s \o e)[Len(s) + x] = e[x]
  <2>1. Len(s) + x \in 1..Len(s) + Len(e) /\ ~(Len(s) + x <= Len(s)) /\ (Len(s) + x) - Len(s) = x
    BY <1>1
  <2>. QED
    BY <1>2, <2>1
<1>. QED
  BY <1>1, <1>2, <1>3 DEF Has

\* What one of the sequences has is found in the whole at its place.
LEMMA FlattenAt ==
  ASSUME NEW C, NEW s \in Seq(Seq(C)), NEW k \in 0..Len(s) - 1
  PROVE  Has(FlattenSeq(s), Len(Upto(s, k)), s[k + 1])
<1>. DEFINE Good(n) == Upto(s, n) \in Seq(C) /\ Has(Upto(s, n), Len(Upto(s, k)), s[k + 1])
            S == {n \in Nat : k + 1 + n <= Len(s) => Good(k + 1 + n)}
<1>0. Len(s) \in Nat /\ k \in Nat /\ k + 1 \in 1..Len(s)
  OBVIOUS
<1>1. Upto(s, k) \in Seq(C) /\ s[k + 1] \in Seq(C) /\ Upto(s, k + 1) = Upto(s, k) \o s[k + 1]
  BY <1>0, UptoNext, ElementOfSeq
<1>2. Len(Upto(s, k)) \in Nat /\ Len(s[k + 1]) \in Nat
  BY <1>1
<1>3. Good(k + 1)
  BY <1>1, ConcatProperties, ConcatHas
<1>. HIDE DEF Good
<1>4. 0 \in S
  BY <1>0, <1>3
<1>5. ASSUME NEW n \in S PROVE n + 1 \in S
  <2>. SUFFICES ASSUME k + 1 + (n + 1) <= Len(s)
                PROVE  Good(k + 1 + (n + 1))
    OBVIOUS
  <2>. DEFINE m == k + 1 + n
  <2>1. m \in 0..Len(s) - 1 /\ m + 1 = k + 1 + (n + 1) /\ m + 1 \in 1..Len(s)
    BY <1>0
  <2>2. Good(m)
    BY <1>0
  <2>. HIDE DEF m
  <2>3. Upto(s, m + 1) = Upto(s, m) \o s[m + 1] /\ s[m + 1] \in Seq(C)
    BY <2>1, UptoNext, ElementOfSeq
  <2>4. Upto(s, m) \in Seq(C) /\ Has(Upto(s, m), Len(Upto(s, k)), s[k + 1])
    BY <2>2 DEF Good
  <2>5. Upto(s, m) \o s[m + 1] \in Seq(C)
    BY <2>3, <2>4, ConcatProperties
  <2>6. Has(Upto(s, m) \o s[m + 1], Len(Upto(s, k)), s[k + 1])
    BY <1>1, <1>2, <2>3, <2>4, ConcatKeeps
  <2>7. Good(m + 1)
    BY <2>3, <2>5, <2>6 DEF Good
  <2>. QED
    BY <2>1, <2>7
<1>. HIDE DEF S
<1>6. S \in SUBSET Nat
  BY DEF S
<1>7. \E n \in Nat : k + 1 + n = Len(s)
  <2>1. Len(s) - (k + 1) \in Nat /\ k + 1 + (Len(s) - (k + 1)) = Len(s)
    BY <1>0
  <2>. QED
    BY <2>1
<1>8. \A n \in Nat : n \in S
  BY <1>4, <1>5, <1>6, Induction
<1>9. PICK n \in Nat : k + 1 + n = Len(s)
  BY <1>7
<1>10. n \in S /\ Len(s) <= Len(s)
  BY <1>0, <1>8
<1>11. Good(Len(s))
  BY <1>9, <1>10, Zenon DEF S
<1>. QED
  BY <1>11, UptoEnds DEF Good

\* A part of what is found is found at the place of the part.
LEMMA HasSubSeq ==
  ASSUME NEW C, NEW t \in Seq(C), NEW e \in Seq(C), NEW n \in Nat, Has(t, n, e),
         NEW a \in 1..Len(e), NEW b \in a..Len(e)
  PROVE  SubSeq(t, n + a, n + b) = SubSeq(e, a, b)
<1>0. Len(t) \in Nat /\ Len(e) \in Nat /\ a \in Nat /\ b \in Nat /\ a <= b /\ n + Len(e) <= Len(t)
  BY DEF Has
<1>1. \A x \in a..b : e[x] \in C
  BY <1>0, ElementOfSeq
<1>2. \A x \in n + a..n + b : t[x] \in C
  BY <1>0, ElementOfSeq
<1>3. /\ SubSeq(e, a, b) \in Seq(C) /\ Len(SubSeq(e, a, b)) = b - a + 1
      /\ \A x \in 1..b - a + 1 : SubSeq(e, a, b)[x] = e[a + x - 1]
  BY <1>0, <1>1, SubSeqProperties
<1>4. /\ SubSeq(t, n + a, n + b) \in Seq(C) /\ Len(SubSeq(t, n + a, n + b)) = b - a + 1
      /\ \A x \in 1..b - a + 1 : SubSeq(t, n + a, n + b)[x] = t[n + a + x - 1]
  <2>1. n + a \in Int /\ n + b \in Int /\ n + a <= n + b /\ (n + b) - (n + a) + 1 = b - a + 1
    BY <1>0
  <2>. QED
    BY <1>2, <2>1, SubSeqProperties
<1>5. ASSUME NEW x \in 1..b - a + 1 PROVE t[n + a + x - 1] = e[a + x - 1]
  <2>1. a + x - 1 \in 1..Len(e) /\ n + (a + x - 1) = n + a + x - 1
    BY <1>0
  <2>. QED
    BY <2>1 DEF Has
<1>. DEFINE u == SubSeq(t, n + a, n + b)
            v == SubSeq(e, a, b)
<1>6. /\ u \in Seq(C) /\ v \in Seq(C) /\ Len(u) = Len(v)
      /\ \A x \in 1..Len(u) : u[x] = v[x]
  BY <1>3, <1>4, <1>5
<1>. HIDE DEF u, v
<1>7. u = v
  BY <1>6, SeqEqual
<1>. QED
  BY <1>7 DEF u, v

LEMMA OneElement == ASSUME NEW C, NEW e \in C PROVE <<e>> \in Seq(C) /\ Len(<<e>>) = 1
OBVIOUS

Characters ==
  UNION ({{"?"}} \cup {Range(t.text) : t \in Tokens} \cup {Range(t.name) : t \in Tokens})

LEMMA MoreCharacters ==
  ASSUME NEW t, NEW S, t \in Seq(S), S \subseteq Characters
  PROVE  t \in Seq(Characters)
BY LenProperties

LEMMA Placeholder == <<"?">> \in Seq(Characters) /\ Len(<<"?">>) = 1
<1>1. "?" \in Characters
  BY DEF Characters
<1>. QED
  BY <1>1, OneElement

-----------------------------------------------------------------------------
(* Where the scanner stands. *)

RendererSpec == RendererInit /\ [][RendererNext]_rendererVars

Chars(k) == statement[k].text
Name(k) == statement[k].name

\* In a token of characters s, with its plain text from b on, at x.
Inside(s, name, b, x, m) ==
  \/ /\ x = 1 \/ x \in b..Len(s)
     /\ m = "normal" /\ IsToken(s, name, b)
  \/ /\ name = <<>> /\ PlainFrom(s, b)
     /\ \/ IsLineComment(s, b) /\ x \in 3..b - 1 /\ m = "line_comment"
        \/ IsBlockComment(s, b) /\ x \in 3..b - 2 /\ m = "block_comment"
        \/ \E quote \in Quotes, pairs \in SUBSET (2..b - 2) :
             /\ IsLiteral(s, b, quote, pairs)
             /\ x \in 2..b - 1 /\ x - 1 \notin pairs /\ m = quote

\* What has been made of the characters before x of a token.
Done(s, name, x) ==
  IF name = <<>> \/ x = 1 THEN SubSeq(s, 1, x - 1)
  ELSE <<"?">> \o SubSeq(s, Len(name) + 2, x - 1)

Named(name, x) == IF name = <<>> \/ x = 1 THEN <<>> ELSE <<name>>

\* At position x of the k-th token, or behind it.  A block comment at the end of the
\* text is left by one character too many.
Stays(k, x, m) ==
  /\ x \in 1..Len(Chars(k)) + 2
  /\ IF x > Len(Chars(k)) THEN m = "normal"
     ELSE \E b \in 1..Len(Chars(k)) + 1 : Inside(Chars(k), Name(k), b, x, m)
  /\ x = Len(Chars(k)) + 2 => k = Len(statement) /\ HasBlockComment

\* The scanner is there in mode m, with what the tokens and the characters before mean.
Reached(k, x, at, m, o, names) ==
  /\ k \in 1..Len(statement) /\ Stays(k, x, m)
  /\ at = Len(Upto(Texts, k - 1)) + x
  /\ names = Upto(Marked, k - 1) \o Named(Name(k), x)
  /\ ~HasBlockComment => o = Upto(Meanings, k - 1) \o Done(Chars(k), Name(k), x)

AtEnd(at, m, o, names) ==
  /\ at \in {Len(text) + 1, Len(text) + 2} /\ m = "normal"
  /\ names = Markers
  /\ ~HasBlockComment => o = Meant

Where(at, m, o, names) ==
  \/ AtEnd(at, m, o, names)
  \/ \E k \in 1..Len(statement) : \E x \in 1..Len(Chars(k)) : Reached(k, x, at, m, o, names)

Given ==
  /\ statement \in Seq(Tokens) /\ \A k \in 1..Len(statement) - 1 : Closed(Chars(k))
  /\ text = FlattenSeq(Texts) /\ params \subseteq Names

\* The k-th token and the sequences of the tokens, and the text.
LEMMA Tokenwise ==
  ASSUME TokensAreSql, Given
  PROVE  /\ Texts \in Seq(Seq(Characters)) /\ Len(Texts) = Len(statement)
         /\ Marked \in Seq(Seq(Seq(Characters))) /\ Len(Marked) = Len(statement)
         /\ Meanings \in Seq(Seq(Characters)) /\ Len(Meanings) = Len(statement)
         /\ \A k \in 1..Len(statement) :
              /\ Chars(k) \in Seq(Characters) /\ Name(k) \in Seq(Characters)
              /\ Chars(k) # <<>>
              /\ \E b \in 1..Len(Chars(k)) + 1 : IsToken(Chars(k), Name(k), b)
              /\ Texts[k] = Chars(k)
              /\ Marked[k] = IF Name(k) = <<>> THEN <<>> ELSE <<Name(k)>>
              /\ Meanings[k] = Rendered(statement[k])
         /\ text \in Seq(Characters)
<1>0. Len(statement) \in Nat /\ DOMAIN statement = 1..Len(statement)
  BY DEF Given
<1>1. ASSUME NEW k \in 1..Len(statement)
      PROVE  /\ Chars(k) \in Seq(Characters) /\ Name(k) \in Seq(Characters)
             /\ Chars(k) # <<>>
             /\ \E b \in 1..Len(Chars(k)) + 1 : IsToken(Chars(k), Name(k), b)
  <2>1. statement[k] \in Tokens
    BY ElementOfSeq DEF Given
  <2>2. Range(Chars(k)) \subseteq Characters /\ Range(Name(k)) \subseteq Characters
    BY <2>1 DEF Characters, Chars, Name
  <2>3. /\ Chars(k) \in Seq(Range(Chars(k))) /\ Name(k) \in Seq(Range(Name(k)))
        /\ Chars(k) # <<>>
        /\ \E b \in 1..Len(Chars(k)) + 1 : IsToken(Chars(k), Name(k), b)
    BY <2>1 DEF TokensAreSql, Chars, Name
  <2>4. Chars(k) \in Seq(Characters) /\ Name(k) \in Seq(Characters)
    BY <2>2, <2>3, MoreCharacters, Zenon
  <2>. QED
    BY <2>3, <2>4
<1>2. ASSUME NEW k \in 1..Len(statement) PROVE Rendered(statement[k]) \in Seq(Characters)
  <2>1. CASE Name(k) = <<>>
    BY <1>1, <2>1 DEF Rendered, Name, Chars
  <2>2. CASE Name(k) # <<>>
    <3>1. Len(Name(k)) + 2 \in Int /\ Len(Chars(k)) \in Int
      BY <1>1
    <3>2. Len(Name(k)) \in Nat
      BY <1>1
    <3>3. \A x \in Len(Name(k)) + 2..Len(Chars(k)) : Chars(k)[x] \in Characters
      BY <1>1, <3>1, <3>2, ElementOfSeq
    <3>4. SubSeq(Chars(k), Len(Name(k)) + 2, Len(Chars(k))) \in Seq(Characters)
      BY <3>1, <3>3, SubSeqProperties
    <3>5. <<"?">> \in Seq(Characters)
      BY Placeholder
    <3>6. Rendered(statement[k]) = <<"?">> \o SubSeq(Chars(k), Len(Name(k)) + 2, Len(Chars(k)))
      BY <2>2 DEF Rendered, Name, Chars
    <3>. QED
      BY <3>4, <3>5, <3>6, ConcatProperties
  <2>. QED
    BY <2>1, <2>2
<1>3. /\ Texts \in Seq(Seq(Characters)) /\ Len(Texts) = Len(statement)
      /\ \A k \in 1..Len(statement) : Texts[k] = Chars(k)
  BY <1>0, <1>1 DEF Texts, Chars
<1>4. /\ Meanings \in Seq(Seq(Characters)) /\ Len(Meanings) = Len(statement)
      /\ \A k \in 1..Len(statement) : Meanings[k] = Rendered(statement[k])
  BY <1>0, <1>2 DEF Meanings
<1>5. /\ Marked \in Seq(Seq(Seq(Characters))) /\ Len(Marked) = Len(statement)
      /\ \A k \in 1..Len(statement) : Marked[k] = IF Name(k) = <<>> THEN <<>> ELSE <<Name(k)>>
  <2>1. \A k \in 1..Len(statement) :
          (IF statement[k].name = <<>> THEN <<>> ELSE <<statement[k].name>>) \in Seq(Seq(Characters))
    <3>. SUFFICES ASSUME NEW k \in 1..Len(statement)
                  PROVE  (IF Name(k) = <<>> THEN <<>> ELSE <<Name(k)>>) \in Seq(Seq(Characters))
      BY DEF Name
    <3>1. <<>> \in Seq(Seq(Characters))
      OBVIOUS
    <3>2. <<Name(k)>> \in Seq(Seq(Characters))
      BY <1>1, OneElement
    <3>. QED
      BY <3>1, <3>2
  <2>. QED
    BY <1>0, <2>1 DEF Marked, Name
<1>6. text \in Seq(Characters)
  BY <1>3, UptoEnds DEF Given
<1>. QED
  BY <1>1, <1>3, <1>4, <1>5, <1>6

LEMMA TokenTypes ==
  ASSUME TokensAreSql, Given, NEW k \in 1..Len(statement)
  PROVE  /\ Chars(k) \in Seq(Characters) /\ Name(k) \in Seq(Characters)
         /\ DOMAIN Chars(k) = 1..Len(Chars(k))
         /\ Len(Chars(k)) \in Nat /\ Len(Name(k)) \in Nat
<1>1. Chars(k) \in Seq(Characters) /\ Name(k) \in Seq(Characters)
  BY Tokenwise
<1>. QED
  BY <1>1, LenProperties

\* Where the k-th token is in the text.
LEMMA Placed ==
  ASSUME TokensAreSql, Given, NEW k \in 1..Len(statement)
  PROVE  /\ Upto(Texts, k - 1) \in Seq(Characters)
         /\ Len(Upto(Texts, k - 1)) \in Nat /\ Len(Chars(k)) \in Nat \ {0}
         /\ Len(Upto(Texts, k)) = Len(Upto(Texts, k - 1)) + Len(Chars(k))
         /\ Has(text, Len(Upto(Texts, k - 1)), Chars(k))
<1>0. /\ Texts \in Seq(Seq(Characters)) /\ Len(Texts) = Len(statement)
      /\ Texts[k] = Chars(k) /\ Chars(k) \in Seq(Characters)
      /\ Chars(k) # <<>>
  BY Tokenwise
<1>1. k - 1 \in 0..Len(Texts) - 1 /\ (k - 1) + 1 = k
  BY <1>0
<1>2. /\ Upto(Texts, k - 1) \in Seq(Characters)
      /\ Upto(Texts, k) = Upto(Texts, k - 1) \o Chars(k)
  BY <1>0, <1>1, UptoNext
<1>3. Has(FlattenSeq(Texts), Len(Upto(Texts, k - 1)), Chars(k))
  BY <1>0, <1>1, FlattenAt
<1>4. Len(Upto(Texts, k)) = Len(Upto(Texts, k - 1)) + Len(Chars(k))
  BY <1>0, <1>2, ConcatProperties
<1>5. Len(Upto(Texts, k - 1)) \in Nat
  BY <1>2
<1>6. Len(Chars(k)) \in Nat \ {0}
  BY <1>0
<1>. QED
  BY <1>2, <1>3, <1>4, <1>5, <1>6 DEF Given

\* What the scanner sees at position x of it.
LEMMA Sees ==
  ASSUME TokensAreSql, Given, NEW k \in 1..Len(statement), NEW x \in 1..Len(Chars(k)),
         i = Len(Upto(Texts, k - 1)) + x
  PROVE  /\ i \in 1..Len(text)
         /\ ch = Chars(k)[x]
         /\ x < Len(Chars(k)) => next = Chars(k)[x + 1]
         /\ x > 1 => text[i - 1] = Chars(k)[x - 1]
<1>. DEFINE p == Len(Upto(Texts, k - 1))
            n == Len(Chars(k))
<1>1. /\ p \in Nat /\ n \in Nat /\ p + n <= Len(text)
      /\ \A y \in 1..n : text[p + y] = Chars(k)[y]
  BY Placed DEF Has
<1>2. Len(text) \in Nat
  BY Tokenwise
<1>. HIDE DEF p, n
<1>3. x \in 1..n /\ i = p + x
  BY DEF p, n
<1>4. i \in 1..Len(text) /\ text[i] = Chars(k)[x]
  BY <1>1, <1>2, <1>3
<1>5. ASSUME x < n PROVE i < Len(text) /\ text[i + 1] = Chars(k)[x + 1]
  <2>1. x + 1 \in 1..n /\ p + (x + 1) = i + 1
    BY <1>1, <1>3, <1>5
  <2>. QED
    BY <1>1, <1>2, <1>3, <1>5, <2>1
<1>6. ASSUME x > 1 PROVE text[i - 1] = Chars(k)[x - 1]
  <2>1. x - 1 \in 1..n /\ p + (x - 1) = i - 1
    BY <1>1, <1>3, <1>6
  <2>. QED
    BY <1>1, <2>1
<1>. QED
  BY <1>4, <1>5, <1>6 DEF ch, next, n

LEMMA TextEnds ==
  ASSUME TokensAreSql, Given, NEW k \in 1..Len(statement), ~Closed(Chars(k))
  PROVE  k = Len(statement) /\ Len(Upto(Texts, k - 1)) + Len(Chars(k)) = Len(text)
<1>1. /\ Len(statement) \in Nat
      /\ Texts \in Seq(Seq(Characters)) /\ Len(Texts) = Len(statement)
  BY Tokenwise DEF Given
<1>2. k = Len(statement)
  BY <1>1 DEF Given
<1>3. Upto(Texts, k) = text
  BY <1>1, <1>2, UptoEnds DEF Given
<1>. QED
  BY <1>2, <1>3, Placed

\* What it sees at the end of it: the end of the text, or a character that closes it.
LEMMA SeesEnd ==
  ASSUME TokensAreSql, Given, NEW k \in 1..Len(statement),
         i = Len(Upto(Texts, k - 1)) + Len(Chars(k))
  PROVE  next = "" \/ Closed(Chars(k))
<1>1. CASE ~Closed(Chars(k))
  <2>1. i = Len(text)
    BY <1>1, TextEnds
  <2>2. Len(text) \in Nat
    BY Tokenwise
  <2>3. ~(i < Len(text))
    BY <2>1, <2>2
  <2>. QED
    BY <2>3, Zenon DEF next
<1>. QED
  BY <1>1

\* No token but the last ends in a colon.
LEMMA SeesBefore ==
  ASSUME TokensAreSql, Given, NEW k \in 1..Len(statement), i = Len(Upto(Texts, k - 1)) + 1
  PROVE  i = 1 \/ text[i - 1] # ":"
<1>1. CASE k = 1
  <2>1. Texts \in Seq(Seq(Characters))
    BY Tokenwise
  <2>2. Upto(Texts, 0) = <<>>
    BY <2>1, UptoEnds
  <2>. QED
    BY <1>1, <2>2
<1>2. CASE k # 1
  <2>. DEFINE j == k - 1
              s == Chars(j)
  <2>0. j \in 1..Len(statement) - 1 /\ j \in 1..Len(statement)
    BY <1>2 DEF Given
  <2>2. s[Len(s)] # ":"
    BY <2>0 DEF Given, Closed
  <2>3. /\ Len(Upto(Texts, j - 1)) \in Nat /\ Len(s) \in Nat \ {0}
        /\ Len(Upto(Texts, j)) = Len(Upto(Texts, j - 1)) + Len(s)
        /\ Has(text, Len(Upto(Texts, j - 1)), s)
    BY <2>0, Placed
  <2>4. text[Len(Upto(Texts, j - 1)) + Len(s)] = s[Len(s)]
    BY <2>3 DEF Has
  <2>5. i - 1 = Len(Upto(Texts, j))
    BY <2>3
  <2>. QED
    BY <2>2, <2>3, <2>4, <2>5
<1>. QED
  BY <1>1, <1>2

-----------------------------------------------------------------------------
(* What it does there. *)

\* In plain text it sees neither a marker nor an opening.
LEMMA PlainIsPlain ==
  ASSUME TokensAreSql, Given, NEW k \in 1..Len(statement), NEW x \in 1..Len(Chars(k)),
         i = Len(Upto(Texts, k - 1)) + x,
         NEW b \in 1..Len(Chars(k)) + 1, PlainFrom(Chars(k), b), x \in b..Len(Chars(k))
  PROVE  ~StartsMarker /\ ~Opens
<1>. DEFINE s == Chars(k)
            n == Len(s)
<1>0. s \in Seq(Characters) /\ n \in Nat
  BY TokenTypes
<1>0a. "" \notin Letters
  BY DEF TokensAreSql
<1>1. /\ ch = s[x]
      /\ x < n => next = s[x + 1]
      /\ x > 1 => text[i - 1] = s[x - 1]
  BY Sees
<1>1a. n \in Nat /\ b \in 1..n /\ x \in b..n
  BY <1>0
<1>. HIDE DEF s, n
<1>2. ch \notin Quotes
  BY <1>1 DEF PlainFrom, s
<1>3. CASE x = n
  <2>1. next = "" \/ ch \notin {":", "-", "/"}
    BY <1>1, <1>3, SeesEnd DEF Closed, s, n
  <2>. QED
    BY <1>0a, <1>2, <2>1 DEF StartsMarker, Opens
<1>4. CASE x # n
  <2>1. x < n /\ x \in b..n - 1 /\ b \in 1..n
    BY <1>1a, <1>4
  <2>2. /\ ~(s[x] = "-" /\ s[x + 1] = "-") /\ ~(s[x] = "/" /\ s[x + 1] = "*")
        /\ s[x] = ":" /\ s[x + 1] \in Letters => x > b /\ s[x - 1] = ":"
    BY <2>1 DEF PlainFrom, s, n
  <2>3. ~Opens
    BY <1>1, <1>2, <2>1, <2>2 DEF Opens
  <2>4. ASSUME StartsMarker PROVE FALSE
    <3>1. s[x] = ":" /\ s[x + 1] \in Letters
      BY <1>1, <2>1, <2>4 DEF StartsMarker
    <3>2. x > 1 /\ s[x - 1] = ":"
      BY <2>1, <2>2, <3>1
    <3>3. i # 1
      BY <3>2, Placed
    <3>. QED
      BY <1>1, <2>4, <3>2, <3>3 DEF StartsMarker
  <2>. QED
    BY <2>3, <2>4
<1>. QED
  BY <1>3, <1>4

\* At a marker it sees one, and its name.
LEMMA MarkerIsMarker ==
  ASSUME TokensAreSql, Given, NEW k \in 1..Len(statement),
         i = Len(Upto(Texts, k - 1)) + 1,
         NEW b \in 1..Len(Chars(k)) + 1, IsMarker(Chars(k), Name(k), b)
  PROVE  /\ StartsMarker /\ ~Opens
         /\ EndOfName = i + Len(Name(k))
         /\ SubSeq(text, i + 1, EndOfName) = Name(k)
<1>. DEFINE s == Chars(k)
            n == Len(s)
            w == Len(Name(k))
            p == Len(Upto(Texts, k - 1))
<1>0. /\ s \in Seq(Characters) /\ n \in Nat
      /\ Name(k) \in Seq(Characters) /\ w \in Nat
  BY TokenTypes
<1>0a. ":" \notin Letters
  BY DEF TokensAreSql
<1>1. /\ p \in Nat /\ p + n <= Len(text) /\ Has(text, p, s)
      /\ \A y \in 1..n : text[p + y] = s[y]
  BY Placed DEF Has
<1>2. /\ w # 0 /\ b = w + 2 /\ b \in 1..n + 1
      /\ s[1] = ":" /\ s[2] \in Letters
      /\ \A y \in 1..w : s[y + 1] = Name(k)[y] /\ s[y + 1] \in Letters \cup Digits
      /\ b <= n => s[b] \notin Letters \cup Digits
  BY <1>0 DEF IsMarker
<1>2a. b = n + 1 => p + n = Len(text)
  <2>. SUFFICES ASSUME b = n + 1 PROVE p + n = Len(text)
    OBVIOUS
  <2>. HIDE DEF s, n, w, p
  <2>1. n = w + 1 /\ w \in 1..w
    BY <1>0, <1>2
  <2>2. s[n] \in Letters \cup Digits
    BY <1>2, <2>1
  <2>3. ~Closed(s)
    BY <2>2 DEF Closed, n
  <2>. QED
    BY <2>3, TextEnds DEF s, n, p
<1>3. 1 \in 1..n /\ 1 < n
  BY <1>0, <1>2
<1>4. ch = s[1] /\ next = s[2]
  BY <1>3, Sees
<1>5. StartsMarker /\ ~Opens
  BY <1>0a, <1>2, <1>4, SeesBefore DEF StartsMarker, Opens, Quotes
<1>6. Len(text) \in Nat /\ text \in Seq(Characters)
  BY Tokenwise
<1>7. i = p + 1
  OBVIOUS
<1>. HIDE DEF s, n, w, p
<1>7a. /\ n \in Nat /\ w \in Nat \ {0} /\ p \in Nat
       /\ b = w + 2 /\ b \in 1..n + 1 /\ i = p + 1
  BY <1>0, <1>1, <1>2, <1>7
<1>. DEFINE Ends(j) == /\ \A y \in i + 1..j : text[y] \in Letters \cup Digits
                       /\ IF j = Len(text) THEN TRUE ELSE text[j + 1] \notin Letters \cup Digits
<1>8. ASSUME NEW y \in i + 1..i + w PROVE text[y] = s[y - p] /\ text[y] \in Letters \cup Digits
  <2>1. y - p \in 1..n /\ p + (y - p) = y /\ (y - p) - 1 \in 1..w /\ ((y - p) - 1) + 1 = y - p
    BY <1>0, <1>1, <1>2, <1>7
  <2>. QED
    BY <1>1, <1>2, <2>1
<1>9. ASSUME i + w # Len(text) PROVE text[i + w + 1] \notin Letters \cup Digits
  <2>1. p + b = i + w + 1 /\ b \in 1..n
    BY <1>2a, <1>7a, <1>9
  <2>. QED
    BY <1>1, <1>2, <2>1
<1>10. i + w \in i + 1..Len(text)
  BY <1>0, <1>1, <1>2, <1>6, <1>7
<1>11. Ends(i + w)
  BY <1>8, <1>9
<1>12. ASSUME NEW j \in i + 1..Len(text), Ends(j) PROVE j = i + w
  <2>0. j \in Int /\ i \in Int
    BY <1>1, <1>6, <1>7
  <2>1. CASE j < i + w
    <3>1. j + 1 \in i + 1..i + w /\ j # Len(text)
      BY <1>0, <1>10, <2>0, <2>1
    <3>. QED
      BY <1>8, <1>12, <3>1
  <2>2. CASE j > i + w
    <3>1. i + w + 1 \in i + 1..j /\ i + w # Len(text)
      BY <1>0, <1>6, <1>10, <2>0, <2>2
    <3>. QED
      BY <1>9, <1>12, <3>1
  <2>. QED
    BY <1>0, <2>0, <2>1, <2>2
<1>13. EndOfName = CHOOSE j \in i + 1..Len(text) : Ends(j)
  BY DEF EndOfName
<1>. HIDE DEF Ends
<1>14. EndOfName = i + w
  BY <1>10, <1>11, <1>12, <1>13
<1>15. SubSeq(text, i + 1, i + w) = SubSeq(s, 2, w + 1)
  <2>1. 2 \in 1..n /\ w + 1 \in 2..n /\ p + 2 = i + 1 /\ p + (w + 1) = i + w
    BY <1>7a
  <2>2. SubSeq(text, p + 2, p + (w + 1)) = SubSeq(s, 2, w + 1)
    BY <1>0, <1>1, <1>6, <2>1, HasSubSeq DEF n
  <2>. QED
    BY <2>1, <2>2
<1>16. SubSeq(s, 2, w + 1) = Name(k)
  <2>1. \A y \in 2..w + 1 : s[y] \in Characters
    <3>1. \A y \in 2..w + 1 : y \in 1..n
      BY <1>7a
    <3>. QED
      BY <1>0, <3>1, ElementOfSeq DEF n
  <2>2. 2 \in Int /\ w + 1 \in Int /\ 2 <= w + 1 /\ (w + 1) - 2 + 1 = w
    BY <1>0, <1>2
  <2>3. /\ SubSeq(s, 2, w + 1) \in Seq(Characters) /\ Len(SubSeq(s, 2, w + 1)) = w
        /\ \A y \in 1..w : SubSeq(s, 2, w + 1)[y] = s[2 + y - 1]
    BY <2>1, <2>2, SubSeqProperties
  <2>4. \A y \in 1..w : 2 + y - 1 = y + 1
    BY <1>0
  <2>5. \A y \in 1..w : SubSeq(s, 2, w + 1)[y] = Name(k)[y]
    BY <1>2, <2>3, <2>4
  <2>. QED
    BY <1>0, <2>3, <2>5, SeqEqual DEF w
<1>. QED
  BY <1>5, <1>14, <1>15, <1>16 DEF w

-----------------------------------------------------------------------------
(* Through a token. *)

\* Copying c characters at x of the k-th token, and skipping some, it gets to a place
\* it may be at, in mode m.
Lands(k, x, c, skip, m) ==
  /\ CopyAndSkip(c, skip, m)
  /\ c \in {1, 2} /\ skip \in {0, 1} /\ x + c <= Len(Chars(k)) + 1
  /\ Stays(k, x + c + skip, m)
  /\ Name(k) = <<>> \/ x > Len(Name(k)) + 1
  /\ skip = 0 \/ HasBlockComment

\* Where the scanner is in the k-th token.
At(k, x, b) ==
  /\ k \in 1..Len(statement) /\ x \in 1..Len(Chars(k)) /\ b \in 1..Len(Chars(k)) + 1
  /\ i = Len(Upto(Texts, k - 1)) + x
  /\ Inside(Chars(k), Name(k), b, x, mode)

LEMMA AtSees ==
  ASSUME TokensAreSql, Given, NEW k, NEW x, NEW b, At(k, x, b)
  PROVE  /\ Len(Chars(k)) \in Nat
         /\ ch = Chars(k)[x]
         /\ x < Len(Chars(k)) => next = Chars(k)[x + 1]
         /\ PlainFrom(Chars(k), b)
         /\ Name(k) # <<>> => b = Len(Name(k)) + 2
         /\ Len(Name(k)) \in Nat
  BY TokenTypes, Sees DEF At, Inside, IsToken, IsMarker

LEMMA InsideStays ==
  ASSUME NEW k, NEW y, NEW b, NEW m, Len(Chars(k)) \in Nat,
         y \in 1..Len(Chars(k)), b \in 1..Len(Chars(k)) + 1, Inside(Chars(k), Name(k), b, y, m)
  PROVE  Stays(k, y, m)
<1>1. y \in 1..Len(Chars(k)) + 2 /\ ~(y > Len(Chars(k))) /\ y # Len(Chars(k)) + 2
  OBVIOUS
<1>. QED
  BY <1>1 DEF Stays

LEMMA BehindStays ==
  ASSUME NEW k, NEW y, Len(Chars(k)) \in Nat, y = Len(Chars(k)) + 1
  PROVE  Stays(k, y, "normal")
<1>1. y \in 1..Len(Chars(k)) + 2 /\ y > Len(Chars(k)) /\ y # Len(Chars(k)) + 2
  OBVIOUS
<1>. QED
  BY <1>1 DEF Stays

\* In normal mode it is at the beginning of a token or in its plain text.
LEMMA NormalMode ==
  ASSUME TokensAreSql, Given, NEW k, NEW x, NEW b, At(k, x, b), mode = "normal"
  PROVE  /\ IsToken(Chars(k), Name(k), b)
         /\ x \in b..Len(Chars(k)) => ~StartsMarker /\ ~Opens
         /\ x \notin b..Len(Chars(k)) =>
              /\ x = 1
              /\ IsMarker(Chars(k), Name(k), b) => StartsMarker /\ ~Opens
<1>1. IsToken(Chars(k), Name(k), b) /\ (x = 1 \/ x \in b..Len(Chars(k)))
  BY DEF At, Inside, Quotes
<1>2. /\ k \in 1..Len(statement) /\ x \in 1..Len(Chars(k)) /\ i = Len(Upto(Texts, k - 1)) + x
      /\ b \in 1..Len(Chars(k)) + 1 /\ PlainFrom(Chars(k), b)
  BY AtSees DEF At
<1>. QED
  BY <1>1, <1>2, PlainIsPlain, MarkerIsMarker

LEMMA PlainLands ==
  ASSUME TokensAreSql, Given, NEW k, NEW x, NEW b, At(k, x, b), Plain
  PROVE  \E c, skip, m : Lands(k, x, c, skip, m)
<1>. DEFINE s == Chars(k)
<1>0. /\ Len(s) \in Nat /\ x \in 1..Len(s) /\ b \in 1..Len(s) + 1
      /\ Len(Name(k)) \in Nat
      /\ ch = s[x]
      /\ x < Len(s) => next = s[x + 1]
      /\ Name(k) # <<>> => b = Len(Name(k)) + 2
  <2>1. x \in 1..Len(s) /\ b \in 1..Len(s) + 1
    BY DEF At
  <2>. QED
    BY <2>1, AtSees
<1>1. mode = "normal" /\ ~Opens /\ ~StartsMarker /\ CopyAndSkip(1, 0, "normal")
  BY DEF Plain, In, Copy
<1>2. IsToken(s, Name(k), b)
  BY <1>1, NormalMode
<1>3. x \in b..Len(s)
  <2>. SUFFICES ASSUME x \notin b..Len(s) PROVE FALSE
    OBVIOUS
  <2>1. x = 1 /\ ~IsMarker(s, Name(k), b)
    BY <1>1, NormalMode
  <2>2. b # 1
    BY <1>0, <2>1
  <2>3. \/ IsLineComment(s, b) \/ IsBlockComment(s, b)
        \/ \E quote \in Quotes, pairs \in SUBSET (2..b - 2) : IsLiteral(s, b, quote, pairs)
    BY <1>2, <2>1, <2>2 DEF IsToken
  <2>4. 1 < Len(s)
    BY <1>0, <2>3 DEF IsLineComment, IsBlockComment, IsLiteral
  <2>. QED
    BY <1>0, <1>1, <2>1, <2>3, <2>4 DEF Opens, IsLineComment, IsBlockComment, IsLiteral
<1>. DEFINE y == x + 1
<1>4. y <= Len(s) + 1 /\ (y # Len(s) + 1 => y \in b..Len(s))
  BY <1>0, <1>3
<1>5. Stays(k, y, "normal")
  <2>1. y # Len(s) + 1 => Inside(s, Name(k), b, y, "normal")
    BY <1>2, <1>4 DEF Inside
  <2>2. y # Len(s) + 1 => y \in 1..Len(s)
    BY <1>0, <1>4
  <2>. HIDE DEF y
  <2>. QED
    BY <1>0, <2>1, <2>2, InsideStays, BehindStays
<1>6. Name(k) = <<>> \/ x > Len(Name(k)) + 1
  BY <1>0, <1>3
<1>7. x + 1 + 0 = y /\ x + 1 = y
  BY <1>0
<1>. HIDE DEF y
<1>8. Lands(k, x, 1, 0, "normal")
  BY <1>0, <1>1, <1>4, <1>5, <1>6, <1>7 DEF Lands
<1>. QED
  BY <1>8

LEMMA OpenLands ==
  ASSUME TokensAreSql, Given, NEW k, NEW x, NEW b, At(k, x, b), Open
  PROVE  \E c, skip, m : Lands(k, x, c, skip, m)
<1>. DEFINE s == Chars(k)
<1>0. /\ Len(s) \in Nat /\ b \in 1..Len(s) + 1
      /\ ch = s[x]
      /\ x < Len(s) => next = s[x + 1]
      /\ PlainFrom(s, b)
  BY AtSees DEF At
<1>1. mode = "normal" /\ Opens
  BY DEF Open, In, Opens
<1>2. x \notin b..Len(s) /\ x = 1 /\ IsToken(s, Name(k), b) /\ ~IsMarker(s, Name(k), b)
  BY <1>1, NormalMode
<1>3. b # 1 /\ 1 < Len(s)
  BY <1>0, <1>2 DEF At, IsToken, IsLineComment, IsBlockComment, IsLiteral
<1>4. ch = s[1] /\ next = s[2] /\ Name(k) = <<>>
  BY <1>0, <1>2, <1>3 DEF IsToken
<1>5. CASE IsLineComment(s, b)
  <2>1. CopyAndSkip(2, 0, "line_comment")
    BY <1>4, <1>5 DEF Open, Copy, IsLineComment, Quotes
  <2>2. 3 \in 3..b - 1 /\ 3 <= Len(s)
    BY <1>0, <1>5 DEF IsLineComment
  <2>3. Inside(s, Name(k), b, 3, "line_comment")
    BY <1>0, <1>4, <1>5, <2>2 DEF Inside
  <2>4. x + 2 + 0 = 3
    BY <1>2
  <2>5. Lands(k, x, 2, 0, "line_comment")
    BY <1>0, <1>2, <1>4, <2>1, <2>2, <2>3, <2>4, InsideStays DEF Lands
  <2>. QED
    BY <2>5
<1>6. CASE IsBlockComment(s, b)
  <2>1. CopyAndSkip(2, 0, "block_comment")
    BY <1>4, <1>6 DEF Open, Copy, IsBlockComment, Quotes
  <2>2. 3 \in 3..b - 2 /\ 3 <= Len(s)
    BY <1>0, <1>6 DEF IsBlockComment
  <2>3. Inside(s, Name(k), b, 3, "block_comment")
    BY <1>0, <1>4, <1>6, <2>2 DEF Inside
  <2>4. x + 2 + 0 = 3
    BY <1>2
  <2>5. Lands(k, x, 2, 0, "block_comment")
    BY <1>0, <1>2, <1>4, <2>1, <2>2, <2>3, <2>4, InsideStays DEF Lands
  <2>. QED
    BY <2>5
<1>7. ASSUME NEW quote \in Quotes, NEW pairs \in SUBSET (2..b - 2), IsLiteral(s, b, quote, pairs)
      PROVE  \E c, skip, m : Lands(k, x, c, skip, m)
  <2>1. ch = quote
    BY <1>4, <1>7 DEF IsLiteral
  <2>2. CopyAndSkip(1, 0, quote)
    BY <2>1 DEF Open, Copy, Quotes
  <2>3. 2 \in 2..b - 1 /\ 2 <= Len(s) /\ 2 - 1 \notin pairs
    BY <1>0, <1>7 DEF IsLiteral
  <2>4. Inside(s, Name(k), b, 2, quote)
    BY <1>0, <1>4, <1>7, <2>3 DEF Inside
  <2>5. x + 1 + 0 = 2
    BY <1>2
  <2>6. Lands(k, x, 1, 0, quote)
    BY <1>0, <1>2, <1>4, <2>2, <2>3, <2>4, <2>5, InsideStays DEF Lands
  <2>. QED
    BY <2>6
<1>. QED
  BY <1>2, <1>3, <1>5, <1>6, <1>7 DEF IsToken

LEMMA LineCommentLands ==
  ASSUME TokensAreSql, Given, NEW k, NEW x, NEW b, At(k, x, b), LineComment
  PROVE  \E c, skip, m : Lands(k, x, c, skip, m)
<1>. DEFINE s == Chars(k)
            y == x + 1
            m == IF ch = "\n" THEN "normal" ELSE "line_comment"
<1>0. /\ Len(s) \in Nat /\ b \in 1..Len(s) + 1
      /\ ch = s[x]
  BY AtSees DEF At
<1>1. /\ Name(k) = <<>> /\ PlainFrom(s, b) /\ IsLineComment(s, b) /\ x \in 3..b - 1
      /\ CopyAndSkip(1, 0, m)
  BY DEF LineComment, In, At, Inside, Quotes, Copy
<1>2. /\ y \in 1..Len(s) + 1 /\ x + 1 + 0 = y /\ x + 1 = y
      /\ x # b - 1 => x \in 3..b - 2 /\ y \in 3..b - 1
      /\ x = b - 1 => y = b
  BY <1>0, <1>1
<1>3. (ch = "\n") <=> (x = b - 1)
  BY <1>0, <1>1, <1>2 DEF IsLineComment
<1>4. IsToken(s, Name(k), b)
  BY <1>1 DEF IsToken
<1>. HIDE DEF y
<1>5. y # Len(s) + 1 => Inside(s, Name(k), b, y, m)
  <2>. SUFFICES ASSUME y # Len(s) + 1 PROVE Inside(s, Name(k), b, y, m)
    OBVIOUS
  <2>1. CASE x = b - 1
    <3>1. y \in b..Len(s)
      BY <1>0, <1>2, <2>1
    <3>. QED
      BY <1>3, <1>4, <2>1, <3>1 DEF Inside
  <2>2. CASE x # b - 1
    BY <1>1, <1>2, <1>3, <2>2 DEF Inside
  <2>. QED
    BY <2>1, <2>2
<1>6. y = Len(s) + 1 => m = "normal"
  BY <1>0, <1>1, <1>2, <1>3
<1>. HIDE DEF m
<1>7. Stays(k, y, m)
  <2>1. y # Len(s) + 1 => y \in 1..Len(s)
    BY <1>0, <1>2
  <2>. QED
    BY <1>0, <1>5, <1>6, <2>1, InsideStays, BehindStays
<1>8. Lands(k, x, 1, 0, m)
  BY <1>0, <1>1, <1>2, <1>7 DEF Lands
<1>. QED
  BY <1>8

LEMMA BlockCommentLands ==
  ASSUME TokensAreSql, Given, NEW k, NEW x, NEW b, At(k, x, b), BlockComment
  PROVE  \E c, skip, m : Lands(k, x, c, skip, m)
<1>. DEFINE s == Chars(k)
<1>0. /\ Len(s) \in Nat /\ b \in 1..Len(s) + 1
      /\ ch = s[x]
      /\ x < Len(s) => next = s[x + 1]
      /\ k \in 1..Len(statement)
  BY AtSees DEF At
<1>1. Name(k) = <<>> /\ PlainFrom(s, b) /\ IsBlockComment(s, b) /\ x \in 3..b - 2
  BY DEF BlockComment, In, At, Inside, Quotes
<1>2. next = s[x + 1]
  BY <1>0, <1>1
<1>3. (ch = "*" /\ next = "/") <=> (x = b - 2)
  <2>1. x # b - 2 => x \in 3..b - 3
    BY <1>0, <1>1
  <2>2. x = b - 2 => x + 1 = b - 1
    BY <1>0
  <2>. QED
    BY <1>0, <1>1, <1>2, <2>1, <2>2 DEF IsBlockComment
<1>4. IsToken(s, Name(k), b)
  BY <1>1 DEF IsToken
<1>5. HasBlockComment
  <2>1. Len(s) > 1 /\ s[1] = "/" /\ s[2] = "*"
    BY <1>0, <1>1 DEF IsBlockComment
  <2>2. k \in DOMAIN statement
    BY <1>0 DEF Given
  <2>. QED
    BY <2>1, <2>2 DEF HasBlockComment, Chars
<1>6. CASE x = b - 2
  <2>. DEFINE y == b + 1
  <2>1. /\ x + 2 + 1 = y /\ x + 2 <= Len(s) + 1 /\ y \in 1..Len(s) + 2
        /\ y \notin {Len(s) + 1, Len(s) + 2} => y \in b..Len(s) /\ y \in 1..Len(s)
    BY <1>0, <1>6
  <2>2. CopyAndSkip(2, 1, "normal")
    BY <1>3, <1>6 DEF BlockComment
  <2>3. y \notin {Len(s) + 1, Len(s) + 2} => Inside(s, Name(k), b, y, "normal")
    BY <1>4, <2>1 DEF Inside
  <2>4. y = Len(s) + 2 => k = Len(statement)
    <3>. SUFFICES ASSUME y = Len(s) + 2 PROVE k = Len(statement)
      OBVIOUS
    <3>1. b - 1 = Len(s)
      BY <1>0
    <3>2. s[Len(s)] = "/"
      BY <1>1, <3>1 DEF IsBlockComment
    <3>. QED
      BY <1>0, <3>2, TextEnds DEF Closed
  <2>. HIDE DEF y
  <2>5. Stays(k, y, "normal")
    <3>1. CASE y \in {Len(s) + 1, Len(s) + 2}
      <4>1. y > Len(s)
        BY <1>0, <3>1
      <4>. QED
        BY <1>5, <2>1, <2>4, <4>1 DEF Stays
    <3>2. CASE y \notin {Len(s) + 1, Len(s) + 2}
      BY <1>0, <2>1, <2>3, <3>2, InsideStays
    <3>. QED
      BY <3>1, <3>2
  <2>6. Lands(k, x, 2, 1, "normal")
    BY <1>1, <1>5, <2>1, <2>2, <2>5 DEF Lands
  <2>. QED
    BY <2>6
<1>7. CASE x # b - 2
  <2>. DEFINE y == x + 1
  <2>1. x + 1 + 0 = y /\ x + 1 = y /\ y \in 3..b - 2 /\ y \in 1..Len(s)
    BY <1>0, <1>1, <1>7
  <2>2. CopyAndSkip(1, 0, "block_comment")
    BY <1>3, <1>7 DEF BlockComment, Copy
  <2>3. Inside(s, Name(k), b, y, "block_comment")
    BY <1>1, <2>1 DEF Inside
  <2>. HIDE DEF y
  <2>4. Stays(k, y, "block_comment")
    BY <1>0, <2>1, <2>3, InsideStays
  <2>5. Lands(k, x, 1, 0, "block_comment")
    BY <1>0, <1>1, <2>1, <2>2, <2>4 DEF Lands
  <2>. QED
    BY <2>5
<1>. QED
  BY <1>6, <1>7

LEMMA QuotedLands ==
  ASSUME TokensAreSql, Given, NEW k, NEW x, NEW b, At(k, x, b), Quoted
  PROVE  \E c, skip, m : Lands(k, x, c, skip, m)
<1>. DEFINE s == Chars(k)
<1>0. /\ Len(s) \in Nat /\ b \in 1..Len(s) + 1
      /\ ch = s[x]
      /\ x < Len(s) => next = s[x + 1]
  BY AtSees DEF At
<1>1. PICK pairs \in SUBSET (2..b - 2) :
        /\ IsLiteral(s, b, mode, pairs)
        /\ x \in 2..b - 1 /\ x - 1 \notin pairs
  BY DEF Quoted, In, At, Inside, Quotes
<1>2. Name(k) = <<>> /\ PlainFrom(s, b) /\ mode \in Quotes
  BY DEF Quoted, In, At, Inside, Quotes
<1>3. x < Len(s) => next = s[x + 1]
  BY <1>0
<1>4. IsToken(s, Name(k), b)
  BY <1>1, <1>2 DEF IsToken
<1>5. ASSUME NEW y \in 2..b - 1, y - 1 \notin pairs PROVE Inside(s, Name(k), b, y, mode)
  BY <1>1, <1>2, <1>5 DEF Inside
<1>6. CASE x = b - 1
  <2>1. x + 1 = b /\ x + 1 + 0 = b
    BY <1>0, <1>6
  <2>2. s[x] = mode
    BY <1>1, <1>6 DEF IsLiteral
  <2>3. ch = mode /\ next # mode
    <3>1. CASE b <= Len(s)
      <4>1. b \in b..Len(s) /\ x < Len(s)
        BY <1>0, <1>1, <2>1, <3>1
      <4>2. s[b] \notin Quotes
        BY <1>2, <4>1 DEF PlainFrom
      <4>. QED
        BY <1>0, <1>2, <1>3, <2>1, <2>2, <4>1, <4>2
    <3>2. CASE ~(b <= Len(s))
      <4>1. x = Len(s) /\ k \in 1..Len(statement) /\ i = Len(Upto(Texts, k - 1)) + Len(s)
        BY <1>0, <2>1, <3>2 DEF At
      <4>2. ~Closed(s)
        BY <1>2, <2>2, <4>1 DEF Closed
      <4>3. next = ""
        BY <4>1, <4>2, SeesEnd
      <4>. QED
        BY <1>0, <1>2, <2>2, <4>3 DEF Quotes
    <3>. QED
      BY <3>1, <3>2
  <2>4. CopyAndSkip(1, 0, "normal")
    BY <2>3 DEF Quoted, Copy
  <2>5. b <= Len(s) => b \in 1..Len(s) /\ b \in b..Len(s)
    BY <1>0
  <2>6. b <= Len(s) => Inside(s, Name(k), b, b, "normal")
    BY <1>4, <2>5 DEF Inside
  <2>6a. Stays(k, b, "normal")
    BY <1>0, <2>5, <2>6, InsideStays, BehindStays
  <2>7. Lands(k, x, 1, 0, "normal")
    BY <1>0, <1>2, <2>1, <2>4, <2>6a DEF Lands
  <2>. QED
    BY <2>7
<1>7. CASE x # b - 1
  <2>1. x \in 2..b - 2
    BY <1>0, <1>1, <1>7
  <2>2. (s[x] = mode) <=> (x \in pairs)
    BY <1>1, <2>1 DEF IsLiteral
  <2>3. CASE x \in pairs
    <3>1. x + 1 \in 2..b - 2 /\ x + 1 \notin pairs
      BY <1>1, <2>3 DEF IsLiteral
    <3>2. (x + 1) - 1 = x
      BY <1>0, <2>1
    <3>3. s[x + 1] = mode
      BY <1>1, <2>3, <3>1, <3>2 DEF IsLiteral
    <3>4. CopyAndSkip(2, 0, mode)
      BY <1>0, <1>3, <2>1, <2>2, <2>3, <3>3 DEF Quoted, Copy
    <3>5. /\ x + 2 + 0 = x + 2 /\ x + 2 \in 2..b - 1 /\ (x + 2) - 1 = x + 1
          /\ x + 2 \in 1..Len(s)
      BY <1>0, <2>1, <3>1
    <3>6. Inside(s, Name(k), b, x + 2, mode)
      BY <1>5, <3>1, <3>5
    <3>7. Lands(k, x, 2, 0, mode)
      BY <1>0, <1>2, <3>4, <3>5, <3>6, InsideStays DEF Lands
    <3>. QED
      BY <3>7
  <2>4. CASE x \notin pairs
    <3>1. ch # mode
      BY <1>0, <2>2, <2>4
    <3>2. CopyAndSkip(1, 0, mode)
      BY <3>1 DEF Quoted, Copy
    <3>3. /\ x + 1 + 0 = x + 1 /\ x + 1 \in 2..b - 1 /\ (x + 1) - 1 = x
          /\ x + 1 \in 1..Len(s)
      BY <1>0, <2>1
    <3>4. Inside(s, Name(k), b, x + 1, mode)
      BY <1>5, <2>4, <3>3
    <3>5. Lands(k, x, 1, 0, mode)
      BY <1>0, <1>2, <3>2, <3>3, <3>4, InsideStays DEF Lands
    <3>. QED
      BY <3>5
  <2>. QED
    BY <2>3, <2>4
<1>. QED
  BY <1>6, <1>7

-----------------------------------------------------------------------------
(* From one token to the next. *)

LEMMA SoFar ==
  ASSUME TokensAreSql, Given, NEW k \in 1..Len(statement)
  PROVE  /\ Upto(Marked, k - 1) \in Seq(Seq(Characters))
         /\ Upto(Marked, k) = Upto(Marked, k - 1) \o Named(Name(k), 2)
         /\ Upto(Meanings, k - 1) \in Seq(Characters)
         /\ Upto(Meanings, k) = Upto(Meanings, k - 1) \o Rendered(statement[k])
<1>1. /\ Marked \in Seq(Seq(Seq(Characters))) /\ Len(Marked) = Len(statement)
      /\ Meanings \in Seq(Seq(Characters)) /\ Len(Meanings) = Len(statement)
      /\ Marked[k] = IF Name(k) = <<>> THEN <<>> ELSE <<Name(k)>>
      /\ Meanings[k] = Rendered(statement[k])
      /\ Len(statement) \in Nat
  BY Tokenwise
<1>2. k - 1 \in 0..Len(Marked) - 1 /\ k - 1 \in 0..Len(Meanings) - 1 /\ (k - 1) + 1 = k
  BY <1>1
<1>3. /\ Upto(Marked, k - 1) \in Seq(Seq(Characters))
      /\ Upto(Marked, k) = Upto(Marked, k - 1) \o Marked[k]
  BY <1>1, <1>2, UptoNext
<1>4. /\ Upto(Meanings, k - 1) \in Seq(Characters)
      /\ Upto(Meanings, k) = Upto(Meanings, k - 1) \o Meanings[k]
  BY <1>1, <1>2, UptoNext
<1>5. Marked[k] = Named(Name(k), 2)
  BY <1>1 DEF Named
<1>. QED
  BY <1>1, <1>3, <1>4, <1>5

LEMMA DoneType ==
  ASSUME TokensAreSql, Given, NEW k \in 1..Len(statement), NEW x \in 1..Len(Chars(k)) + 1
  PROVE  Done(Chars(k), Name(k), x) \in Seq(Characters)
<1>. DEFINE s == Chars(k)
            w == Len(Name(k))
<1>1. s \in Seq(Characters) /\ Len(s) \in Nat /\ w \in Nat
  BY TokenTypes
<1>2. \A y \in 1..Len(s) : s[y] \in Characters
  BY <1>1, ElementOfSeq
<1>3. SubSeq(s, 1, x - 1) \in Seq(Characters)
  <2>1. 1 \in Int /\ x - 1 \in Int /\ \A y \in 1..x - 1 : s[y] \in Characters
    BY <1>1, <1>2
  <2>. QED
    BY <2>1, SubSeqProperties
<1>4. SubSeq(s, w + 2, x - 1) \in Seq(Characters)
  <2>1. w + 2 \in Int /\ x - 1 \in Int /\ \A y \in w + 2..x - 1 : s[y] \in Characters
    BY <1>1, <1>2
  <2>. QED
    BY <2>1, SubSeqProperties
<1>. QED
  BY <1>3, <1>4, Placeholder, ConcatProperties DEF Done

\* Copying takes what has been made of a token from one place to the next.
LEMMA DoneNext ==
  ASSUME TokensAreSql, Given, NEW k \in 1..Len(statement), NEW x \in 1..Len(Chars(k)),
         NEW y \in x + 1..Len(Chars(k)) + 1, Name(k) = <<>> \/ x > Len(Name(k)) + 1
  PROVE  /\ Done(Chars(k), Name(k), x) \o SubSeq(Chars(k), x, y - 1) = Done(Chars(k), Name(k), y)
         /\ Named(Name(k), x) = Named(Name(k), y)
<1>. DEFINE s == Chars(k)
            w == Len(Name(k))
<1>1. s \in Seq(Characters) /\ Len(s) \in Nat /\ w \in Nat
  BY TokenTypes
<1>2. y # 1 /\ (Name(k) # <<>> => x # 1)
  BY <1>1
<1>3. Named(Name(k), x) = Named(Name(k), y)
  BY <1>2 DEF Named
<1>. HIDE DEF s, w
<1>4. /\ x - 1 \in 0..Len(s) /\ y - 1 \in x - 1..Len(s) /\ (x - 1) + 1 = x
      /\ x \in 1..Len(s) /\ y \in x + 1..Len(s) + 1
  BY <1>1 DEF s
<1>5. CASE Name(k) = <<>>
  <2>1. 1 \in 1..Len(s) + 1 /\ x - 1 \in 1 - 1..Len(s)
    BY <1>1, <1>4
  <2>2. SubSeq(s, 1, x - 1) \o SubSeq(s, (x - 1) + 1, y - 1) = SubSeq(s, 1, y - 1)
    BY <1>1, <1>4, <2>1, ConcatAdjacentSubSeq
  <2>3. SubSeq(s, 1, x - 1) \o SubSeq(s, x, y - 1) = SubSeq(s, 1, y - 1)
    BY <1>4, <2>2
  <2>. QED
    BY <1>3, <1>5, <2>3 DEF Done, s
<1>6. CASE Name(k) # <<>>
  <2>1. /\ w + 2 \in 1..Len(s) + 1 /\ x - 1 \in (w + 2) - 1..Len(s)
        /\ x > w + 1
    BY <1>1, <1>4, <1>6 DEF w
  <2>2. SubSeq(s, w + 2, x - 1) \o SubSeq(s, (x - 1) + 1, y - 1) = SubSeq(s, w + 2, y - 1)
    BY <1>1, <1>4, <2>1, ConcatAdjacentSubSeq
  <2>3. SubSeq(s, w + 2, x - 1) \o SubSeq(s, x, y - 1) = SubSeq(s, w + 2, y - 1)
    BY <1>4, <2>2
  <2>4. \A z \in 1..Len(s) : s[z] \in Characters
    BY <1>1, ElementOfSeq
  <2>5. SubSeq(s, w + 2, x - 1) \in Seq(Characters)
    <3>1. w + 2 \in Int /\ x - 1 \in Int /\ \A z \in w + 2..x - 1 : s[z] \in Characters
      BY <1>1, <1>4, <2>4
    <3>. QED
      BY <3>1, SubSeqProperties
  <2>6. SubSeq(s, x, y - 1) \in Seq(Characters)
    <3>1. x \in Int /\ y - 1 \in Int /\ \A z \in x..y - 1 : s[z] \in Characters
      BY <1>1, <1>4, <2>4
    <3>. QED
      BY <3>1, SubSeqProperties
  <2>7. (<<"?">> \o SubSeq(s, w + 2, x - 1)) \o SubSeq(s, x, y - 1)
          = <<"?">> \o SubSeq(s, w + 2, y - 1)
    <3>. DEFINE mark == <<"?">>
                u == SubSeq(s, w + 2, x - 1)
                v == SubSeq(s, x, y - 1)
    <3>1. mark \in Seq(Characters) /\ u \in Seq(Characters) /\ v \in Seq(Characters)
      BY <2>5, <2>6, Placeholder
    <3>2. u \o v = SubSeq(s, w + 2, y - 1)
      BY <2>3
    <3>. HIDE DEF mark, u, v
    <3>3. (mark \o u) \o v = mark \o (u \o v)
      BY <3>1, ConcatAssociative
    <3>4. (mark \o u) \o v = mark \o SubSeq(s, w + 2, y - 1)
      BY <3>2, <3>3
    <3>. QED
      BY <3>4 DEF mark, u, v
  <2>. QED
    BY <1>2, <1>3, <1>6, <2>7 DEF Done, s, w
<1>. QED
  BY <1>5, <1>6

LEMMA CopyReaches ==
  ASSUME TokensAreSql, Given, NEW k \in 1..Len(statement), NEW x \in 1..Len(Chars(k)),
         Reached(k, x, i, mode, out, ordered),
         NEW c, NEW skip, NEW m, Lands(k, x, c, skip, m)
  PROVE  Reached(k, x + c + skip, i', mode', out', ordered')
<1>. DEFINE s == Chars(k)
            p == Len(Upto(Texts, k - 1))
            y == x + c + skip
<1>1. /\ i = p + x
      /\ ordered = Upto(Marked, k - 1) \o Named(Name(k), x)
      /\ ~HasBlockComment => out = Upto(Meanings, k - 1) \o Done(s, Name(k), x)
  BY DEF Reached
<1>2. /\ s \in Seq(Characters) /\ Len(s) \in Nat /\ p \in Nat /\ Has(text, p, s)
      /\ text \in Seq(Characters)
  BY TokenTypes, Placed, Tokenwise
<1>3. /\ c \in {1, 2} /\ skip \in {0, 1} /\ x + c <= Len(s) + 1
      /\ Stays(k, y, m)
      /\ Name(k) = <<>> \/ x > Len(Name(k)) + 1
      /\ skip = 0 \/ HasBlockComment
  BY DEF Lands
<1>4. /\ out' = out \o SubSeq(text, i, i + c - 1)
      /\ i' = i + c + skip /\ mode' = m /\ ordered' = ordered
  BY DEF Lands, CopyAndSkip
<1>5. x \in 1..Len(s) /\ y > x /\ y \in Nat /\ i' = p + y
  BY <1>1, <1>2, <1>3, <1>4
<1>6. Named(Name(k), x) = Named(Name(k), y)
  <2>1. y # 1 /\ (Name(k) # <<>> => x # 1)
    BY <1>3, <1>5, TokenTypes
  <2>. QED
    BY <2>1 DEF Named
<1>7. ASSUME ~HasBlockComment PROVE out' = Upto(Meanings, k - 1) \o Done(s, Name(k), y)
  <2>1. skip = 0 /\ y = x + c /\ c \in Nat \ {0} /\ y \in x + 1..Len(s) + 1
    BY <1>1, <1>2, <1>3, <1>7
  <2>2. x + (c - 1) \in x..Len(s) /\ i + c - 1 = p + (x + (c - 1)) /\ i = p + x /\ y - 1 = x + (c - 1)
    BY <1>1, <1>2, <1>5, <2>1
  <2>3. SubSeq(text, p + x, p + (x + (c - 1))) = SubSeq(s, x, x + (c - 1))
    <3>. DEFINE z == x + (c - 1)
    <3>1. z \in x..Len(s)
      BY <2>2
    <3>. HIDE DEF z, s, p
    <3>2. SubSeq(text, p + x, p + z) = SubSeq(s, x, z)
      BY <1>2, <1>5, <3>1, HasSubSeq
    <3>. QED
      BY <3>2 DEF z
  <2>4. SubSeq(text, i, i + c - 1) = SubSeq(s, x, y - 1)
    BY <2>2, <2>3
  <2>5. Done(s, Name(k), x) \o SubSeq(s, x, y - 1) = Done(s, Name(k), y)
    BY <1>1, <1>3, <1>5, <2>1, DoneNext
  <2>6. /\ Upto(Meanings, k - 1) \in Seq(Characters) /\ Done(s, Name(k), x) \in Seq(Characters)
    BY <1>1, SoFar, DoneType
  <2>7. SubSeq(s, x, y - 1) \in Seq(Characters)
    <3>1. x \in Int /\ y - 1 \in Int /\ \A z \in x..y - 1 : s[z] \in Characters
      BY <1>2, <1>5, <2>1, ElementOfSeq
    <3>. QED
      BY <3>1, SubSeqProperties
  <2>. DEFINE u == Upto(Meanings, k - 1)
              v == Done(s, Name(k), x)
              z == SubSeq(s, x, y - 1)
  <2>8. u \in Seq(Characters) /\ v \in Seq(Characters) /\ z \in Seq(Characters)
    BY <2>6, <2>7
  <2>8a. v \o z = Done(s, Name(k), y)
    BY <2>5
  <2>9. out' = (u \o v) \o z
    BY <1>1, <1>4, <1>7, <2>4
  <2>. HIDE DEF u, v, z
  <2>10. (u \o v) \o z = u \o (v \o z)
    BY <2>8, ConcatAssociative
  <2>11. out' = u \o Done(s, Name(k), y)
    BY <2>8a, <2>9, <2>10, Zenon
  <2>. QED
    BY <2>11 DEF u
<1>. HIDE DEF y
<1>8. Reached(k, y, i', mode', out', ordered')
  BY <1>1, <1>3, <1>4, <1>5, <1>6, <1>7 DEF Reached
<1>. QED
  BY <1>8 DEF y

\* The scanner at the beginning of a token, or at the end.
LEMMA Starts ==
  ASSUME TokensAreSql, Given, NEW k \in 0..Len(statement), NEW o,
         ~HasBlockComment => o = Upto(Meanings, k)
  PROVE  Where(Len(Upto(Texts, k)) + 1, "normal", o, Upto(Marked, k))
<1>0. /\ Texts \in Seq(Seq(Characters)) /\ Len(Texts) = Len(statement)
      /\ Marked \in Seq(Seq(Seq(Characters))) /\ Len(Marked) = Len(statement)
      /\ Meanings \in Seq(Seq(Characters)) /\ Len(Meanings) = Len(statement)
      /\ Len(statement) \in Nat
  BY Tokenwise
<1>1. CASE k = Len(statement)
  <2>1. Upto(Texts, k) = text
    BY <1>0, <1>1, UptoEnds DEF Given
  <2>2. Upto(Marked, k) = Markers
    BY <1>0, <1>1, UptoEnds DEF Markers
  <2>3. Upto(Meanings, k) = Meant
    BY <1>0, <1>1, UptoEnds DEF Meant
  <2>. QED
    BY <2>1, <2>2, <2>3 DEF Where, AtEnd
<1>2. CASE k # Len(statement)
  <2>. DEFINE j == k + 1
              s == Chars(j)
  <2>1. j \in 1..Len(statement) /\ j - 1 = k
    BY <1>0, <1>2
  <2>2. PICK b \in 1..Len(s) + 1 : IsToken(s, Name(j), b)
    BY <2>1, Tokenwise
  <2>3. Len(s) \in Nat \ {0} /\ s \in Seq(Characters)
    BY <2>1, Placed, TokenTypes
  <2>4. Inside(s, Name(j), b, 1, "normal")
    BY <2>2 DEF Inside
  <2>5. Named(Name(j), 1) = <<>>
    BY DEF Named
  <2>6. Done(s, Name(j), 1) = <<>>
    BY SubSeqEmpty DEF Done
  <2>7. /\ Upto(Marked, j - 1) \o <<>> = Upto(Marked, k)
        /\ Upto(Meanings, j - 1) \o <<>> = Upto(Meanings, k)
    BY <2>1, SoFar, ConcatEmptySeq
  <2>8. Reached(j, 1, Len(Upto(Texts, k)) + 1, "normal", o, Upto(Marked, k))
    <3>1. 1 \in 1..Len(s) /\ Len(s) \in Nat
      BY <2>3
    <3>2. Stays(j, 1, "normal")
      BY <2>2, <2>4, <3>1, InsideStays
    <3>. HIDE DEF j, s
    <3>. QED
      BY <2>1, <2>5, <2>6, <2>7, <3>2 DEF Reached, s
  <2>9. 1 \in 1..Len(s)
    BY <2>3
  <2>. QED
    BY <2>1, <2>8, <2>9 DEF Where
<1>. QED
  BY <1>1, <1>2

\* Behind a token it is at the next, or at the end.
LEMMA Settles ==
  ASSUME TokensAreSql, Given, NEW k, NEW x, NEW at, NEW m, NEW o, NEW names,
         Reached(k, x, at, m, o, names)
  PROVE  Where(at, m, o, names)
<1>. DEFINE s == Chars(k)
            p == Len(Upto(Texts, k - 1))
<1>0. /\ k \in 1..Len(statement)
      /\ at = p + x
      /\ names = Upto(Marked, k - 1) \o Named(Name(k), x)
      /\ ~HasBlockComment => o = Upto(Meanings, k - 1) \o Done(s, Name(k), x)
      /\ x \in 1..Len(s) + 2
      /\ x > Len(s) => m = "normal"
      /\ x = Len(s) + 2 => k = Len(statement) /\ HasBlockComment
  BY DEF Reached, Stays
<1>0a. /\ p \in Nat /\ Len(s) \in Nat \ {0}
       /\ Len(Upto(Texts, k)) = p + Len(s)
  BY <1>0, Placed
<1>0b. x > Len(s) => names = Upto(Marked, k)
  <2>1. x > Len(s) => x # 1
    BY <1>0, <1>0a
  <2>. QED
    BY <1>0, <2>1, SoFar DEF Named
<1>1. CASE x <= Len(s)
  <2>1. x \in 1..Len(s)
    BY <1>0, <1>0a, <1>1
  <2>. QED
    BY <1>0, <2>1 DEF Where
<1>2. CASE x = Len(s) + 1
  <2>1. at = Len(Upto(Texts, k)) + 1 /\ x # 1 /\ x > Len(s)
    BY <1>0, <1>0a, <1>2
  <2>2. Done(s, Name(k), x) = Rendered(statement[k])
    <3>1. s \in Seq(Characters) /\ (Len(s) + 1) - 1 = Len(s)
      BY <1>0, <1>0a, TokenTypes
    <3>2. SubSeq(s, 1, Len(s)) = s
      BY <3>1, SubSeqFull
    <3>. QED
      BY <1>2, <2>1, <3>1, <3>2 DEF Done, Rendered, Chars, Name
  <2>3. ~HasBlockComment => o = Upto(Meanings, k)
    BY <1>0, <2>2, SoFar
  <2>4. k \in 0..Len(statement)
    BY <1>0
  <2>. QED
    BY <1>0, <1>0b, <2>1, <2>3, <2>4, Starts
<1>3. CASE x = Len(s) + 2
  <2>1. k = Len(statement) /\ HasBlockComment /\ x > Len(s)
    BY <1>0, <1>0a, <1>3
  <2>2. /\ Texts \in Seq(Seq(Characters)) /\ Len(Texts) = Len(statement)
        /\ Marked \in Seq(Seq(Seq(Characters))) /\ Len(Marked) = Len(statement)
    BY Tokenwise
  <2>3. Upto(Texts, k) = text /\ Upto(Marked, k) = Markers
    BY <2>1, <2>2, UptoEnds DEF Given, Markers
  <2>4. at = Len(text) + 2
    <3>1. Len(text) = p + Len(s)
      BY <1>0a, <2>3
    <3>. QED
      BY <1>0, <1>0a, <1>3, <3>1
  <2>. QED
    BY <1>0, <1>0b, <2>1, <2>3, <2>4 DEF Where, AtEnd
<1>. QED
  BY <1>0, <1>0a, <1>1, <1>2, <1>3

LEMMA AppendRange ==
  ASSUME NEW C, NEW s \in Seq(C), NEW e \in C, NEW S, Range(s) \subseteq S, e \in S
  PROVE  Range(Append(s, e)) \subseteq S
<1>1. Append(s, e) \in Seq(C) /\ Len(Append(s, e)) = Len(s) + 1
  BY AppendProperties
<1>2. \A x \in 1..Len(s) : Append(s, e)[x] = s[x] /\ s[x] \in S
  BY RangeEquality, AppendProperties
<1>3. Append(s, e)[Len(s) + 1] = e
  BY AppendProperties
<1>4. Len(s) \in Nat
  OBVIOUS
<1>5. \A x \in 1..Len(Append(s, e)) : Append(s, e)[x] \in S
  BY <1>1, <1>2, <1>3, <1>4
<1>. DEFINE u == Append(s, e)
<1>6. u \in Seq(C) /\ \A x \in 1..Len(u) : u[x] \in S
  BY <1>1, <1>5
<1>. HIDE DEF u
<1>7. ASSUME NEW r \in Range(u) PROVE r \in S
  <2>1. PICK x \in 1..Len(u) : r = u[x]
    BY <1>6, RangeEquality
  <2>. QED
    BY <1>6, <2>1
<1>. QED
  BY <1>7 DEF u

\* The name of a token is one of the markers.
LEMMA NameIsMarker ==
  ASSUME TokensAreSql, Given, NEW k \in 1..Len(statement), Name(k) # <<>>
  PROVE  Name(k) \in Range(Markers)
<1>0. /\ Marked \in Seq(Seq(Seq(Characters))) /\ Len(Marked) = Len(statement)
      /\ Marked[k] = IF Name(k) = <<>> THEN <<>> ELSE <<Name(k)>>
      /\ Name(k) \in Seq(Characters)
  BY Tokenwise
<1>0a. Len(statement) \in Nat
  BY DEF Given
<1>0b. Marked[k] = <<Name(k)>>
  BY <1>0, Zenon
<1>1. /\ Marked \in Seq(Seq(Seq(Characters))) /\ Len(Marked) = Len(statement)
      /\ Len(statement) \in Nat
      /\ Marked[k] = <<Name(k)>>
      /\ Name(k) \in Seq(Characters)
  BY <1>0, <1>0a, <1>0b
<1>2. k - 1 \in 0..Len(Marked) - 1 /\ (k - 1) + 1 = k
  BY <1>1
<1>3. Has(Markers, Len(Upto(Marked, k - 1)), <<Name(k)>>)
  BY <1>1, <1>2, FlattenAt DEF Markers
<1>4. Markers \in Seq(Seq(Characters)) /\ Len(Upto(Marked, k - 1)) \in Nat
  BY <1>1, UptoEnds, SoFar DEF Markers
<1>. DEFINE n == Len(Upto(Marked, k - 1))
            e == <<Name(k)>>
<1>5. Len(e) = 1 /\ e[1] = Name(k)
  OBVIOUS
<1>. HIDE DEF n, e
<1>6. Has(Markers, n, e) /\ n \in Nat
  BY <1>3, <1>4 DEF n, e
<1>7. Len(Markers) \in Nat
  BY <1>4
<1>8. n + 1 \in 1..Len(Markers) /\ Markers[n + 1] = Name(k)
  BY <1>5, <1>6, <1>7 DEF Has
<1>. QED
  BY <1>4, <1>8, RangeEquality

\* A marker is taken at its beginning.
LEMMA MarkerFound ==
  ASSUME TokensAreSql, Given, NEW k, NEW x, NEW b, At(k, x, b), Marker
  PROVE  /\ x = 1 /\ b = Len(Name(k)) + 2 /\ Name(k) # <<>>
         /\ IsToken(Chars(k), Name(k), b)
         /\ EndOfName = i + Len(Name(k)) /\ SubSeq(text, i + 1, EndOfName) = Name(k)
<1>. DEFINE s == Chars(k)
<1>0. /\ Len(s) \in Nat /\ x \in 1..Len(s) /\ b \in 1..Len(s) + 1
      /\ k \in 1..Len(statement)
      /\ ch = s[x] /\ i = Len(Upto(Texts, k - 1)) + x
  BY AtSees DEF At
<1>1. mode = "normal" /\ StartsMarker
  BY DEF Marker, In
<1>2. IsToken(s, Name(k), b) /\ x \notin b..Len(s) /\ x = 1
  BY <1>1, NormalMode
<1>3. b # 1 /\ s[1] = ":"
  BY <1>0, <1>1, <1>2 DEF StartsMarker
<1>4. IsMarker(s, Name(k), b)
  BY <1>2, <1>3 DEF IsToken, IsLineComment, IsBlockComment, IsLiteral, Quotes
<1>5. EndOfName = i + Len(Name(k)) /\ SubSeq(text, i + 1, EndOfName) = Name(k)
  BY <1>0, <1>2, <1>4, MarkerIsMarker
<1>6. b = Len(Name(k)) + 2 /\ Name(k) # <<>>
  BY <1>4 DEF IsMarker
<1>. QED
  BY <1>2, <1>5, <1>6

LEMMA MarkerReaches ==
  ASSUME TokensAreSql, Given, NEW k, NEW x, NEW b, At(k, x, b), Marker,
         Reached(k, x, i, mode, out, ordered), Name(k) \in params, out \in Seq(Characters)
  PROVE  /\ out' = Append(out, "?") /\ ordered' = Append(ordered, Name(k))
         /\ i' > i + 1 /\ outcome' = outcome
         /\ Reached(k, b, i', mode', out', ordered')
<1>. DEFINE s == Chars(k)
            p == Len(Upto(Texts, k - 1))
            u == Upto(Meanings, k - 1)
            v == Upto(Marked, k - 1)
<1>1. /\ x = 1 /\ b = Len(Name(k)) + 2 /\ Name(k) # <<>>
      /\ IsToken(s, Name(k), b)
      /\ EndOfName = i + Len(Name(k)) /\ SubSeq(text, i + 1, EndOfName) = Name(k)
  BY MarkerFound
<1>2. /\ k \in 1..Len(statement) /\ i = p + x /\ b \in 1..Len(s) + 1
      /\ ordered = v \o Named(Name(k), x)
      /\ ~HasBlockComment => out = u \o Done(s, Name(k), x)
  BY DEF Reached, At
<1>3. /\ s \in Seq(Characters) /\ Name(k) \in Seq(Characters) /\ Len(s) \in Nat /\ p \in Nat
      /\ Len(Name(k)) \in Nat
  BY <1>2, TokenTypes, Placed
<1>4. u \in Seq(Characters) /\ v \in Seq(Seq(Characters))
  BY <1>2, SoFar
<1>5. /\ out' = Append(out, "?") /\ ordered' = Append(ordered, Name(k))
      /\ i' = EndOfName + 1 /\ outcome' = outcome /\ mode' = mode /\ mode = "normal"
  BY <1>1 DEF Marker, In
<1>6. Len(Name(k)) # 0
  BY <1>1, <1>3, EmptySeq
<1>7. i' = p + b /\ i' > i + 1 /\ b # 1
  BY <1>1, <1>2, <1>3, <1>5, <1>6
<1>8. ordered = v /\ Named(Name(k), b) = <<Name(k)>>
  BY <1>1, <1>2, <1>4, <1>7, ConcatEmptySeq DEF Named
<1>9. ordered' = v \o Named(Name(k), b)
  BY <1>3, <1>4, <1>5, <1>8, AppendIsConcat
<1>10. ASSUME ~HasBlockComment PROVE out' = u \o Done(s, Name(k), b)
  <2>1. Done(s, Name(k), 1) = <<>>
    BY SubSeqEmpty DEF Done
  <2>2. out = u
    BY <1>1, <1>2, <1>4, <1>10, <2>1, ConcatEmptySeq
  <2>3. Len(Name(k)) + 2 \in Int /\ b - 1 \in Int /\ b - 1 < Len(Name(k)) + 2
    BY <1>1, <1>3
  <2>4. SubSeq(s, Len(Name(k)) + 2, b - 1) = <<>>
    BY <2>3, SubSeqEmpty
  <2>5. <<"?">> \o <<>> = <<"?">>
    BY Placeholder, ConcatEmptySeq
  <2>6. Done(s, Name(k), b) = <<"?">>
    BY <1>1, <1>7, <2>4, <2>5 DEF Done
  <2>7. Append(out, "?") = out \o <<"?">>
    <3>1. "?" \in Characters
      BY DEF Characters
    <3>. QED
      BY <3>1, AppendIsConcat
  <2>. QED
    BY <1>5, <2>2, <2>6, <2>7
<1>11. Stays(k, b, "normal")
  <2>1. b # Len(s) + 1 => b \in b..Len(s) /\ b \in 1..Len(s)
    BY <1>2, <1>3
  <2>2. b # Len(s) + 1 => Inside(s, Name(k), b, b, "normal")
    BY <1>1, <2>1 DEF Inside
  <2>. QED
    BY <1>2, <1>3, <2>1, <2>2, InsideStays, BehindStays
<1>12. Reached(k, b, i', mode', out', ordered')
  <2>. HIDE DEF s, p, u, v
  <2>1. ~HasBlockComment => out' = u \o Done(s, Name(k), b)
    BY <1>10
  <2>. QED
    BY <1>2, <1>3, <1>5, <1>7, <1>9, <1>11, <2>1 DEF Reached, s, p, u, v
<1>. QED
  BY <1>5, <1>7, <1>12

LEMMA CopyGrows ==
  ASSUME TokensAreSql, Given, NEW k, NEW x, NEW b, At(k, x, b),
         NEW c, NEW skip, NEW m, Lands(k, x, c, skip, m),
         out \in Seq(Characters), Len(out) < i
  PROVE  out' \in Seq(Characters) /\ Len(out') < i' /\ Len(out') <= Len(text)
<1>. DEFINE s == Chars(k)
            p == Len(Upto(Texts, k - 1))
<1>1. /\ Len(s) \in Nat /\ p \in Nat /\ p + Len(s) <= Len(text)
      /\ x \in 1..Len(s) /\ i = p + x
      /\ text \in Seq(Characters)
  BY Placed, Tokenwise DEF At, Has
<1>2. /\ out' = out \o SubSeq(text, i, i + c - 1)
      /\ i' = i + c + skip /\ c \in {1, 2} /\ skip \in {0, 1} /\ x + c <= Len(s) + 1
  BY DEF Lands, CopyAndSkip
<1>. HIDE DEF s, p
<1>3. Len(text) \in Nat /\ Len(out) \in Nat
  BY <1>1
<1>4. /\ i \in Int /\ i + c - 1 \in Int /\ i <= i + c - 1 /\ (i + c - 1) - i + 1 = c
      /\ \A y \in i..i + c - 1 : y \in 1..Len(text)
  BY <1>1, <1>2, <1>3
<1>5. \A y \in i..i + c - 1 : text[y] \in Characters
  BY <1>1, <1>4, ElementOfSeq
<1>. DEFINE u == SubSeq(text, i, i + c - 1)
<1>6. u \in Seq(Characters) /\ Len(u) = c
  <2>. DEFINE d == i + c - 1
  <2>1. d \in Int /\ i <= d /\ d - i + 1 = c /\ \A y \in i..d : text[y] \in Characters
    BY <1>4, <1>5
  <2>. HIDE DEF d
  <2>2. SubSeq(text, i, d) \in Seq(Characters) /\ Len(SubSeq(text, i, d)) = c
    BY <1>4, <2>1, SubSeqProperties
  <2>. QED
    BY <2>2 DEF d
<1>. HIDE DEF u
<1>7. out \o u \in Seq(Characters) /\ Len(out \o u) = Len(out) + c
  BY <1>6, ConcatProperties
<1>8. out' = out \o u
  BY <1>2 DEF u
<1>. QED
  BY <1>1, <1>2, <1>3, <1>4, <1>7, <1>8

LEMMA Copies ==
  ASSUME TokensAreSql, Given, NEW k, NEW x, NEW b, At(k, x, b),
         Open \/ Plain \/ Quoted \/ LineComment \/ BlockComment
  PROVE  \E c, skip, m : Lands(k, x, c, skip, m)
BY OpenLands, PlainLands, QuotedLands, LineCommentLands, BlockCommentLands

\* As long as there is text to read, the scanner is in a token.
LEMMA Stands ==
  ASSUME TokensAreSql, Given, Where(i, mode, out, ordered)
  PROVE  /\ i \in 1..Len(text) + 2 /\ mode \in Modes
         /\ i > Len(text) => AtEnd(i, mode, out, ordered)
         /\ i <= Len(text) =>
              \E k, x, b : Reached(k, x, i, mode, out, ordered) /\ At(k, x, b)
<1>1. Len(text) \in Nat
  BY Tokenwise
<1>2. CASE AtEnd(i, mode, out, ordered)
  BY <1>1, <1>2 DEF AtEnd, Modes
<1>3. CASE \E k \in 1..Len(statement) : \E x \in 1..Len(Chars(k)) :
             Reached(k, x, i, mode, out, ordered)
  <2>0. PICK k \in 1..Len(statement) :
          \E x \in 1..Len(Chars(k)) : Reached(k, x, i, mode, out, ordered)
    BY <1>3
  <2>1. PICK x \in 1..Len(Chars(k)) : Reached(k, x, i, mode, out, ordered)
    BY <2>0
  <2>2. Len(Chars(k)) \in Nat
    BY TokenTypes
  <2>3. ~(x > Len(Chars(k)))
    BY <2>2
  <2>4. PICK b \in 1..Len(Chars(k)) + 1 : Inside(Chars(k), Name(k), b, x, mode)
    BY <2>1, <2>3 DEF Reached, Stays
  <2>5. i = Len(Upto(Texts, k - 1)) + x
    BY <2>1 DEF Reached
  <2>6. At(k, x, b)
    BY <2>2, <2>4, <2>5 DEF At
  <2>7. i \in 1..Len(text)
    BY <2>5, Sees
  <2>8. mode \in Modes
    BY <2>4 DEF Inside, Modes
  <2>9. i \in 1..Len(text) + 2 /\ ~(i > Len(text))
    BY <1>1, <2>7
  <2>. QED
    BY <2>1, <2>6, <2>8, <2>9
<1>. QED
  BY <1>2, <1>3 DEF Where

-----------------------------------------------------------------------------
(* The invariant. *)

RendererInvariant ==
  /\ Given
  /\ Where(i, mode, out, ordered)
  /\ out \in Seq(Characters) /\ Len(out) < i /\ Len(out) <= Len(text)
  /\ Range(ordered) \subseteq params
  /\ outcome \in {"running", "rendered", "missing", "unused"}
  /\ outcome = "missing" => ~(Range(Markers) \subseteq params)
  /\ outcome \in {"rendered", "unused"} => i > Len(text)
  /\ outcome = "rendered" => params \subseteq Range(ordered)
  /\ outcome = "unused" => ~(params \subseteq Range(ordered))

\* As long as it is given the same, a place stays the same.
LEMMA GivenStays ==
  ASSUME UNCHANGED <<statement, text, params>>
  PROVE  /\ (Given' <=> Given)
         /\ Markers' = Markers
         /\ (Where(i, mode, out, ordered)' <=> Where(i', mode', out', ordered'))
<1>1. Texts' = Texts
  BY DEF Texts
<1>2. Marked' = Marked
  BY DEF Marked
<1>3. Meanings' = Meanings
  BY DEF Meanings, Rendered
<1>4. Markers' = Markers /\ Meant' = Meant
  BY <1>2, <1>3 DEF Markers, Meant
<1>5. HasBlockComment' <=> HasBlockComment
  BY DEF HasBlockComment
<1>6. Given' <=> Given
  BY <1>1 DEF Given, Chars
<1>7. AtEnd(i, mode, out, ordered)' <=> AtEnd(i', mode', out', ordered')
  BY <1>4, <1>5 DEF AtEnd
<1>8. ASSUME NEW k, NEW x
      PROVE  Reached(k, x, i, mode, out, ordered)' <=> Reached(k, x, i', mode', out', ordered')
  BY <1>1, <1>2, <1>3, <1>5 DEF Reached, Stays, Chars, Name, Upto
<1>. QED
  BY <1>4, <1>6, <1>7, <1>8 DEF Where, Chars

LEMMA RendererStarts ==
  ASSUME TokensAreSql, RendererInit
  PROVE  RendererInvariant
<1>1. Given
  <2>1. PICK n \in 0..MaxTokens : statement \in [1..n -> Tokens]
    BY DEF RendererInit
  <2>2. statement \in Seq(Tokens)
    BY <2>1
  <2>. QED
    BY <2>2 DEF RendererInit, Given, Chars
<1>2. /\ i = 1 /\ mode = "normal" /\ out = <<>> /\ ordered = <<>> /\ outcome = "running"
  BY DEF RendererInit
<1>3. /\ Texts \in Seq(Seq(Characters)) /\ Marked \in Seq(Seq(Seq(Characters)))
      /\ Meanings \in Seq(Seq(Characters)) /\ Len(statement) \in Nat
  BY <1>1, Tokenwise
<1>4. Upto(Texts, 0) = <<>> /\ Upto(Marked, 0) = <<>> /\ Upto(Meanings, 0) = <<>>
  BY <1>3, UptoEnds
<1>5. Where(1, "normal", <<>>, <<>>)
  <2>1. 0 \in 0..Len(statement) /\ Len(Upto(Texts, 0)) + 1 = 1
    BY <1>3, <1>4
  <2>2. Where(Len(Upto(Texts, 0)) + 1, "normal", <<>>, Upto(Marked, 0))
    BY <1>1, <1>4, <2>1, Starts
  <2>. QED
    BY <1>4, <2>1, <2>2
<1>6. out \in Seq(Characters) /\ Len(out) < i /\ Len(out) <= Len(text)
  BY <1>1, <1>2, Tokenwise
<1>7. Range(ordered) \subseteq params
  <2>0. <<>> \in Seq(params)
    OBVIOUS
  <2>1. Range(<<>>) \in SUBSET params
    BY <2>0, RangeOfSeq, Zenon
  <2>. QED
    BY <1>2, <2>1
<1>. QED
  BY <1>1, <1>2, <1>5, <1>6, <1>7 DEF RendererInvariant

LEMMA CopyKeeps ==
  ASSUME TokensAreSql, RendererInvariant,
         Open \/ Plain \/ Quoted \/ LineComment \/ BlockComment
  PROVE  RendererInvariant'
<1>1. outcome = "running" /\ i <= Len(text) /\ Given
  BY DEF RendererInvariant, Open, Plain, Quoted, LineComment, BlockComment, In
<1>2. PICK k, x, b : Reached(k, x, i, mode, out, ordered) /\ At(k, x, b)
  BY <1>1, Stands DEF RendererInvariant
<1>3. PICK c, skip, m : Lands(k, x, c, skip, m)
  BY <1>1, <1>2, Copies
<1>4. UNCHANGED <<statement, text, params, ordered, outcome>>
  BY <1>3 DEF Lands, CopyAndSkip
<1>5. k \in 1..Len(statement) /\ x \in 1..Len(Chars(k))
  BY <1>2 DEF At
<1>6. Reached(k, x + c + skip, i', mode', out', ordered')
  BY <1>1, <1>2, <1>3, <1>5, CopyReaches
<1>8. Where(i', mode', out', ordered')
  BY <1>1, <1>6, Settles
<1>9. out' \in Seq(Characters) /\ Len(out') < i' /\ Len(out') <= Len(text)
  BY <1>1, <1>2, <1>3, CopyGrows DEF RendererInvariant
<1>10. Given' /\ Where(i, mode, out, ordered)'
  BY <1>1, <1>4, <1>8, GivenStays
<1>11. Characters' = Characters
  BY DEF Characters
<1>. QED
  BY <1>1, <1>4, <1>9, <1>10, <1>11 DEF RendererInvariant

LEMMA MarkerKeeps ==
  ASSUME TokensAreSql, RendererInvariant, Marker
  PROVE  RendererInvariant'
<1>1. /\ outcome = "running" /\ i <= Len(text) /\ Given
      /\ UNCHANGED <<statement, text, params>> /\ mode' = mode
  BY DEF RendererInvariant, Marker, In
<1>2. PICK k, x, b : Reached(k, x, i, mode, out, ordered) /\ At(k, x, b)
  BY <1>1, Stands DEF RendererInvariant
<1>3. /\ Name(k) # <<>> /\ SubSeq(text, i + 1, EndOfName) = Name(k)
  BY <1>1, <1>2, MarkerFound
<1>4. /\ k \in 1..Len(statement)
      /\ Name(k) \in Seq(Characters) /\ i \in Nat
  <2>1. k \in 1..Len(statement)
    BY <1>2 DEF At
  <2>2. i \in Nat
    BY <1>1, Stands, Tokenwise DEF RendererInvariant
  <2>. QED
    BY <1>1, <2>1, <2>2, TokenTypes
<1>5. Given' /\ Markers' = Markers
  BY <1>1, GivenStays
<1>6. CASE Name(k) \in params
  <2>1. /\ out' = Append(out, "?") /\ ordered' = Append(ordered, Name(k))
        /\ i' > i + 1 /\ outcome' = outcome
        /\ Reached(k, b, i', mode', out', ordered')
    BY <1>1, <1>2, <1>6, MarkerReaches DEF RendererInvariant
  <2>3. Where(i', mode', out', ordered')
    BY <1>1, <2>1, Settles
  <2>4. Where(i, mode, out, ordered)'
    BY <1>1, <2>3, GivenStays
  <2>5. out' \in Seq(Characters) /\ Len(out') = Len(out) + 1
    <3>1. "?" \in Characters
      BY DEF Characters
    <3>. QED
      BY <2>1, <3>1, AppendProperties DEF RendererInvariant
  <2>6. Len(out) \in Nat /\ i' \in Nat
    <3>1. Len(out) \in Nat
      BY DEF RendererInvariant
    <3>2. i' = EndOfName + 1
      BY <1>3, <1>6 DEF Marker
    <3>3. EndOfName = i + Len(Name(k))
      BY <1>1, <1>2, MarkerFound
    <3>4. Len(Name(k)) \in Nat
      BY <1>4
    <3>. QED
      BY <1>4, <3>1, <3>2, <3>3, <3>4
  <2>7. Len(out') < i' /\ Len(out') <= Len(text)
    BY <1>1, <1>4, <2>1, <2>5, <2>6, Tokenwise DEF RendererInvariant
  <2>8. Range(ordered') \subseteq params
    <3>1. ordered \in Seq(Seq(Characters))
      <4>1. ordered = Upto(Marked, k - 1) \o Named(Name(k), x) /\ x = 1
        BY <1>1, <1>2, MarkerFound DEF Reached
      <4>2. Named(Name(k), x) = <<>>
        BY <4>1 DEF Named
      <4>3. Upto(Marked, k - 1) \in Seq(Seq(Characters))
        BY <1>1, <1>4, SoFar
      <4>. QED
        BY <4>1, <4>2, <4>3, ConcatEmptySeq
    <3>2. Range(ordered) \subseteq params
      BY DEF RendererInvariant
    <3>. QED
      BY <1>4, <1>6, <2>1, <3>1, <3>2, AppendRange
  <2>9. Characters' = Characters
    BY DEF Characters
  <2>. QED
    BY <1>1, <1>5, <2>1, <2>4, <2>5, <2>7, <2>8, <2>9 DEF RendererInvariant
<1>7. CASE Name(k) \notin params
  <2>1. outcome' = "missing" /\ UNCHANGED <<out, ordered, i>>
    BY <1>3, <1>7 DEF Marker
  <2>2. ~(Range(Markers) \subseteq params)
    BY <1>1, <1>3, <1>4, <1>7, NameIsMarker
  <2>3. Where(i, mode, out, ordered)'
    BY <1>1, <2>1, GivenStays DEF RendererInvariant
  <2>4. ~(Range(Markers)' \subseteq params')
    BY <1>1, <1>5, <2>2
  <2>5. Characters' = Characters
    BY DEF Characters
  <2>. QED
    BY <1>1, <1>5, <2>1, <2>3, <2>4, <2>5 DEF RendererInvariant
<1>. QED
  BY <1>6, <1>7

LEMMA FinishKeeps ==
  ASSUME RendererInvariant, Finish
  PROVE  RendererInvariant'
<1>1. /\ UNCHANGED <<statement, text, params, i, mode, out, ordered>>
      /\ outcome' = IF params \subseteq Range(ordered) THEN "rendered" ELSE "unused"
      /\ i > Len(text)
  BY DEF Finish
<1>2. Given' /\ Where(i, mode, out, ordered)'
  BY <1>1, GivenStays DEF RendererInvariant
<1>3. Characters' = Characters
  BY DEF Characters
<1>. QED
  BY <1>1, <1>2, <1>3 DEF RendererInvariant

LEMMA RendererStep ==
  ASSUME TokensAreSql, RendererInvariant, [RendererNext]_rendererVars
  PROVE  RendererInvariant'
<1>1. CASE Marker
  BY <1>1, MarkerKeeps
<1>2. CASE Open \/ Plain \/ Quoted \/ LineComment \/ BlockComment
  BY <1>2, CopyKeeps
<1>3. CASE Finish
  BY <1>3, FinishKeeps
<1>4. CASE UNCHANGED rendererVars
  <2>1. UNCHANGED <<statement, text, params, i, mode, out, ordered, outcome>>
    BY <1>4 DEF rendererVars
  <2>2. Given' /\ Where(i, mode, out, ordered)' /\ Markers' = Markers
    BY <2>1, GivenStays DEF RendererInvariant
  <2>3. Characters' = Characters
    BY DEF Characters
  <2>. QED
    BY <2>1, <2>2, <2>3 DEF RendererInvariant
<1>. QED
  BY <1>1, <1>2, <1>3, <1>4 DEF RendererNext

\* The scanner stands where a token, or a part of one, is read in the mode it is in,
\* and what it has made is what the tokens before mean: at every step of
\* render_named_query, whatever the statement.
THEOREM RendererHolds == ASSUME TokensAreSql PROVE RendererSpec => []RendererInvariant
<1>1. RendererInit => RendererInvariant
  BY RendererStarts
<1>2. RendererInvariant /\ [RendererNext]_rendererVars => RendererInvariant'
  BY RendererStep
<1>. QED
  BY <1>1, <1>2, PTL DEF RendererSpec

LEMMA InvariantRenders ==
  ASSUME TokensAreSql, RendererInvariant
  PROVE  RendersMarkers /\ RendererTypeOK
<1>1. /\ i \in 1..Len(text) + 2 /\ mode \in Modes
      /\ i > Len(text) => AtEnd(i, mode, out, ordered)
  BY Stands DEF RendererInvariant
<1>2. Len(text) \in Nat /\ Len(out) \in Nat
  BY Tokenwise DEF RendererInvariant
<1>3. RendererTypeOK
  BY <1>1, <1>2 DEF RendererTypeOK, RendererInvariant, Given
<1>4. ASSUME outcome \in {"rendered", "unused"}
      PROVE  ordered = Markers /\ (~HasBlockComment => out = Meant)
  BY <1>1, <1>4 DEF RendererInvariant, AtEnd
<1>5. RendersMarkers
  BY <1>4 DEF RendersMarkers, RendererInvariant
<1>. QED
  BY <1>3, <1>5

\* Whatever the tokens and however many of them make up a statement, the values are
\* those of its markers, in their order, none missing and none left over, and without
\* block comments the text is what the tokens mean (render_named_query).
THEOREM RenderingIsMeant == ASSUME TokensAreSql PROVE RendererSpec => []RendersMarkers
<1>1. RendererInvariant => RendersMarkers
  BY InvariantRenders
<1>. QED
  BY <1>1, RendererHolds, PTL

\* The index stays within the text and two characters behind it, and what has been made
\* is no longer than what has been read.
THEOREM RendererTypes == ASSUME TokensAreSql PROVE RendererSpec => []RendererTypeOK
<1>1. RendererInvariant => RendererTypeOK
  BY InvariantRenders
<1>. QED
  BY <1>1, RendererHolds, PTL

=============================================================================
