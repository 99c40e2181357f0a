----------------------------- MODULE TextProofs -----------------------------
(***************************************************************************)
(* Theorems about the text of requests and replies, for texts of every     *)
(* length and objects of every size.                                       *)
(*                                                                         *)
(* What the recursive functions of JsonText and SequencesExt compute is    *)
(* proved by induction, with the set of the numbers that have the property *)
(* in the place of the property (Induction), and so is that the functions  *)
(* exist (FlattenExists, CloseExists, UnescapeExists).                     *)
(***************************************************************************)
EXTENDS ApiProofs, SequenceTheorems, WellFoundedInduction

-----------------------------------------------------------------------------
(* Numbers.                                                                *)

LEMMA LeastNumber ==
  ASSUME NEW T, T \subseteq Nat, T # {}
  PROVE  \E m \in T : \A n \in T : m <= n
<1>1. PICK m \in T : \A n \in T : ~(<<n, m>> \in OpToRel(<, Nat))
  BY WFMin, NatLessThanWellFounded
<1>2. \A n \in T : ~(n < m)
  BY <1>1 DEF OpToRel
<1> QED
  BY <1>2

LEMMA Induction ==
  ASSUME NEW T, T \subseteq Nat, 0 \in T, \A n \in T : n + 1 \in T
  PROVE  T = Nat
<1> SUFFICES ASSUME Nat \ T # {} PROVE FALSE
  OBVIOUS
<1>1. PICK m \in Nat \ T : \A n \in Nat \ T : m <= n
  BY LeastNumber
<1>2. m - 1 \in Nat /\ m - 1 \notin Nat \ T
  BY <1>1
<1> QED
  BY <1>1, <1>2

\* The least element of a set of positions.
LEMMA MinIsLeast ==
  ASSUME NEW T, T \subseteq Nat, T # {}
  PROVE  Min(T) \in T /\ \A n \in T : Min(T) <= n
BY LeastNumber DEF Min

-----------------------------------------------------------------------------
(* Concatenation, as an operator that the provers do not expand.           *)

Cat(s, t) == s \o t

\* The sequence t stands in b after the first p elements.
At(b, p, t) == p + Len(t) <= Len(b) /\ \A i \in 1 .. Len(t) : b[p + i] = t[i]

CatFacts(X) ==
  \A s, t \in Seq(X) : /\ Cat(s, t) \in Seq(X)
                       /\ Len(Cat(s, t)) = Len(s) + Len(t)
                       /\ At(Cat(s, t), 0, s)
                       /\ At(Cat(s, t), Len(s), t)

LEMMA CatSeq == \A X : CatFacts(X)
<1> SUFFICES ASSUME NEW X, NEW s \in Seq(X), NEW t \in Seq(X)
             PROVE  /\ Cat(s, t) \in Seq(X)
                    /\ Len(Cat(s, t)) = Len(s) + Len(t)
                    /\ At(Cat(s, t), 0, s)
                    /\ At(Cat(s, t), Len(s), t)
  BY DEF CatFacts
<1>1. Len(s) \in Nat /\ Len(t) \in Nat
  BY LenProperties
<1>2. /\ Cat(s, t) \in Seq(X)
      /\ Len(Cat(s, t)) = Len(s) + Len(t)
      /\ \A i \in 1 .. Len(s) + Len(t) :
           Cat(s, t)[i] = IF i <= Len(s) THEN s[i] ELSE t[i - Len(s)]
  BY ConcatProperties DEF Cat
<1>3. At(Cat(s, t), 0, s)
  BY <1>1, <1>2 DEF At
<1>4. \A i \in 1 .. Len(t) : Len(s) + i \in 1 .. Len(s) + Len(t)
                             /\ ~(Len(s) + i <= Len(s)) /\ Len(s) + i - Len(s) = i
  BY <1>1
<1>5. At(Cat(s, t), Len(s), t)
  BY <1>1, <1>2, <1>4 DEF At
<1> QED
  BY <1>2, <1>3, <1>5

\* What stands in a part stands in the whole.
LEMMA AtTransitive ==
  ASSUME NEW X, NEW a \in Seq(X), NEW b \in Seq(X), NEW c \in Seq(X),
         NEW p \in Nat, NEW q \in Nat, At(a, p, b), At(b, q, c)
  PROVE  At(a, p + q, c)
<1>1. Len(a) \in Nat /\ Len(b) \in Nat /\ Len(c) \in Nat
  BY LenProperties
<1> QED
  BY <1>1 DEF At

LEMMA CatEmpty ==
  ASSUME NEW X, NEW s \in Seq(X)
  PROVE  Cat(s, <<>>) = s /\ Cat(<<>>, s) = s
BY ConcatEmptySeq DEF Cat

LEMMA CatAssoc ==
  ASSUME NEW X, NEW s \in Seq(X), NEW t \in Seq(X), NEW u \in Seq(X)
  PROVE  Cat(Cat(s, t), u) = Cat(s, Cat(t, u))
BY ConcatAssociative DEF Cat

\* Sequences of up to three elements.
LEMMA ShortSeq ==
  ASSUME NEW X, NEW a \in X, NEW b \in X, NEW c \in X
  PROVE  /\ <<>> \in Seq(X) /\ Len(<<>>) = 0
         /\ <<a>> \in Seq(X) /\ Len(<<a>>) = 1 /\ <<a>>[1] = a
         /\ <<a, b>> \in Seq(X) /\ Len(<<a, b>>) = 2
         /\ <<a, b>>[1] = a /\ <<a, b>>[2] = b
         /\ <<a, b, c>> \in Seq(X) /\ Len(<<a, b, c>>) = 3
         /\ <<a, b, c>>[1] = a /\ <<a, b, c>>[2] = b /\ <<a, b, c>>[3] = c
OBVIOUS

-----------------------------------------------------------------------------
(* FlattenSeq.                                                             *)

\* What FlattenSeq has after each of the first k sequences.
IsPrefixes(F, k, seqs, X) ==
  /\ F \in [0 .. k -> Seq(X)]
  /\ F[0] = <<>>
  /\ \A i \in 1 .. k : F[i] = Cat(F[i - 1], seqs[i])

LEMMA PrefixStep ==
  ASSUME NEW X, NEW seqs, NEW n \in Nat, NEW F, IsPrefixes(F, n, seqs, X),
         NEW k \in Nat, k + 1 <= n
  PROVE  F[k + 1] = Cat(F[k], seqs[k + 1])
BY DEF IsPrefixes

LEMMA PrefixesExist ==
  ASSUME NEW X, NEW seqs \in Seq(Seq(X))
  PROVE  \E F : IsPrefixes(F, Len(seqs), seqs, X)
<1> DEFINE T == {k \in Nat : k <= Len(seqs) => \E F : IsPrefixes(F, k, seqs, X)}
<1>0. Len(seqs) \in Nat /\ \A i \in 1 .. Len(seqs) : seqs[i] \in Seq(X)
  BY LenProperties, ElementOfSeq
<1>1. 0 \in T
  <2>1. IsPrefixes([i \in 0 .. 0 |-> <<>>], 0, seqs, X)
    BY EmptySeq DEF IsPrefixes
  <2> QED
    BY <2>1
<1>2. ASSUME NEW k \in T PROVE k + 1 \in T
  <2>0. k \in Nat
    OBVIOUS
  <2>1. SUFFICES ASSUME k + 1 <= Len(seqs)
                 PROVE  \E F : IsPrefixes(F, k + 1, seqs, X)
    BY <2>0
  <2>2. PICK F : IsPrefixes(F, k, seqs, X)
    BY <1>0, <2>0, <2>1
  <2> HIDE DEF T
  <2> DEFINE G == [i \in 0 .. k + 1 |-> IF i <= k THEN F[i] ELSE Cat(F[k], seqs[k + 1])]
  <2>3. Cat(F[k], seqs[k + 1]) \in Seq(X)
    <3>1. F[k] \in Seq(X) /\ seqs[k + 1] \in Seq(X)
      BY <1>0, <2>0, <2>1, <2>2 DEF IsPrefixes
    <3>2. CatFacts(X)
      BY CatSeq
    <3> QED
      BY <3>1, <3>2 DEF CatFacts
  <2>4. G \in [0 .. k + 1 -> Seq(X)]
    BY <2>0, <2>2, <2>3 DEF IsPrefixes
  <2>5. G[0] = <<>>
    BY <2>0, <2>2 DEF IsPrefixes
  <2>6. ASSUME NEW i \in 1 .. k + 1 PROVE G[i] = Cat(G[i - 1], seqs[i])
    <3>1. i \in Int /\ i - 1 \in 0 .. k + 1 /\ i - 1 <= k /\ i \in 0 .. k + 1
      BY <2>0
    <3>2. G[i - 1] = F[i - 1]
      BY <3>1
    <3>3. CASE i <= k
      <4>1. i \in 1 .. k /\ G[i] = F[i]
        BY <2>0, <3>1, <3>3
      <4> QED
        BY <2>2, <3>2, <4>1 DEF IsPrefixes
    <3>4. CASE ~(i <= k)
      <4>1. i = k + 1 /\ i - 1 = k
        BY <2>0, <3>1, <3>4
      <4>2. G[i] = Cat(F[k], seqs[k + 1])
        BY <3>1, <3>4
      <4> QED
        BY <3>2, <4>1, <4>2
    <3> QED
      BY <3>3, <3>4
  <2> QED
    BY <2>4, <2>5, <2>6 DEF IsPrefixes
<1>3. T \subseteq Nat
  OBVIOUS
<1> HIDE DEF T
<1>4. Len(seqs) \in T
  BY <1>0, <1>1, <1>2, <1>3, Induction
<1> QED
  BY <1>0, <1>4 DEF T

\* FlattenSeq's function, which is what it has from the first sequence on.
Flat(seqs) ==
  CHOOSE f : f = [i \in 1 .. Len(seqs) |->
                    IF i = 1 THEN seqs[i] ELSE f[i - 1] \o seqs[i]]

LEMMA FlattenExists ==
  ASSUME NEW X, NEW seqs \in Seq(Seq(X))
  PROVE  \A i \in 1 .. Len(seqs) :
           Flat(seqs)[i] = IF i = 1 THEN seqs[i] ELSE Cat(Flat(seqs)[i - 1], seqs[i])
<1>0. Len(seqs) \in Nat /\ \A i \in 1 .. Len(seqs) : seqs[i] \in Seq(X)
  BY LenProperties, ElementOfSeq
<1>1. PICK F : IsPrefixes(F, Len(seqs), seqs, X)
  BY PrefixesExist
<1> DEFINE f == [i \in 1 .. Len(seqs) |-> F[i]]
<1>2. ASSUME NEW i \in 1 .. Len(seqs)
      PROVE  F[i] = IF i = 1 THEN seqs[i] ELSE Cat(f[i - 1], seqs[i])
  <2>1. CASE i = 1
    <3>1. F[1] = Cat(<<>>, seqs[1]) /\ seqs[1] \in Seq(X)
      BY <1>0, <1>1, <2>1 DEF IsPrefixes
    <3> QED
      BY <2>1, <3>1, CatEmpty
  <2>2. CASE i # 1
    <3>1. f[i - 1] = F[i - 1]
      BY <1>0, <2>2
    <3> QED
      BY <1>1, <2>2, <3>1 DEF IsPrefixes
  <2> QED
    BY <2>1, <2>2
<1>3. f = [i \in 1 .. Len(seqs) |-> IF i = 1 THEN seqs[i] ELSE Cat(f[i - 1], seqs[i])]
  BY <1>2
<1>4. \E g : g = [i \in 1 .. Len(seqs) |-> IF i = 1 THEN seqs[i] ELSE Cat(g[i - 1], seqs[i])]
  BY <1>3
<1>5. Flat(seqs) = [i \in 1 .. Len(seqs) |->
                      IF i = 1 THEN seqs[i] ELSE Cat(Flat(seqs)[i - 1], seqs[i])]
  BY <1>4, Zenon DEF Flat, Cat
<1> QED
  BY <1>5

\* The whole is what FlattenSeq has after the last sequence.
LEMMA FlattenIsLast ==
  ASSUME NEW X, NEW seqs \in Seq(Seq(X)), NEW F, IsPrefixes(F, Len(seqs), seqs, X)
  PROVE  FlattenSeq(seqs) = F[Len(seqs)]
<1>0. Len(seqs) \in Nat /\ \A i \in 1 .. Len(seqs) : seqs[i] \in Seq(X)
  BY LenProperties, ElementOfSeq
<1>1. CASE Len(seqs) = 0
  <2>1. seqs = <<>>
    BY <1>1, EmptySeq
  <2> QED
    BY <1>1, <2>1, Zenon DEF FlattenSeq, IsPrefixes
<1>2. CASE Len(seqs) # 0
  <2> DEFINE T == {k \in Nat : k + 1 <= Len(seqs) => F[k + 1] = Flat(seqs)[k + 1]}
  <2>1. 0 \in T
    <3>1. F[1] = Cat(<<>>, seqs[1]) /\ seqs[1] \in Seq(X)
      BY <1>0, <1>2 DEF IsPrefixes
    <3>2. Flat(seqs)[1] = seqs[1]
      BY <1>0, <1>2, FlattenExists
    <3> QED
      BY <3>1, <3>2, CatEmpty
  <2>2. ASSUME NEW k \in T PROVE k + 1 \in T
    <3>1. k \in Nat
      OBVIOUS
    <3>2. SUFFICES ASSUME k + 2 <= Len(seqs) PROVE F[k + 2] = Flat(seqs)[k + 2]
      BY <1>0, <3>1
    <3>3. F[k + 1] = Flat(seqs)[k + 1]
      BY <1>0, <3>1, <3>2
    <3> HIDE DEF T
    <3>4. PICK i \in 1 .. Len(seqs) : i = k + 2
      BY <1>0, <3>1, <3>2
    <3>5. i # 1 /\ i - 1 = k + 1
      BY <3>1, <3>4
    <3>6. F[i] = Cat(F[i - 1], seqs[i])
      BY DEF IsPrefixes
    <3>7. Flat(seqs)[i] = Cat(Flat(seqs)[i - 1], seqs[i])
      BY <3>5, FlattenExists
    <3> QED
      BY <3>3, <3>4, <3>5, <3>6, <3>7
  <2>3. T \subseteq Nat
    OBVIOUS
  <2> HIDE DEF T
  <2>4. Len(seqs) - 1 \in T
    <3>1. Len(seqs) - 1 \in Nat
      BY <1>0, <1>2
    <3>2. T = Nat
      BY <2>1, <2>2, <2>3, Induction
    <3> QED
      BY <3>1, <3>2
  <2>5. F[Len(seqs)] = Flat(seqs)[Len(seqs)]
    BY <1>0, <1>2, <2>4 DEF T
  <2>6. FlattenSeq(seqs) = Flat(seqs)[Len(seqs)]
    BY <1>2, Zenon DEF FlattenSeq, Flat
  <2> QED
    BY <2>5, <2>6
<1> QED
  BY <1>1, <1>2

\* The whole begins with what FlattenSeq has after k sequences.
LEMMA PrefixGrows ==
  ASSUME NEW X, NEW seqs \in Seq(Seq(X)), NEW F, IsPrefixes(F, Len(seqs), seqs, X),
         NEW k \in 0 .. Len(seqs)
  PROVE  At(F[Len(seqs)], 0, F[k])
<1> DEFINE n == Len(seqs)
           T == {d \in Nat : k + d <= n => At(F[k + d], 0, F[k])}
<1>0. n \in Nat /\ k \in Nat /\ k <= n /\ \A i \in 1 .. n : seqs[i] \in Seq(X)
  BY LenProperties, ElementOfSeq
<1>c. CatFacts(X)
  BY CatSeq
<1>f. \A i \in 0 .. n : F[i] \in Seq(X) /\ Len(F[i]) \in Nat
  BY LenProperties DEF IsPrefixes
<1>1. 0 \in T
  BY <1>0, <1>f DEF At
<1>2. ASSUME NEW d \in T PROVE d + 1 \in T
  <2>0. d \in Nat
    OBVIOUS
  <2>1. SUFFICES ASSUME k + (d + 1) <= n PROVE At(F[k + (d + 1)], 0, F[k])
    BY <2>0
  <2>2. At(F[k + d], 0, F[k])
    BY <1>0, <2>0, <2>1
  <2> HIDE DEF T, n
  <2>3. PICK j \in 1 .. n : j = k + (d + 1)
    BY <1>0, <2>0, <2>1
  <2>4. j - 1 = k + d /\ j - 1 \in 0 .. n
    BY <1>0, <2>0, <2>3
  <2>5. F[j] = Cat(F[j - 1], seqs[j])
    BY DEF IsPrefixes, n
  <2>6. F[j] \in Seq(X) /\ F[j - 1] \in Seq(X) /\ F[k] \in Seq(X) /\ seqs[j] \in Seq(X)
    BY <1>0, <1>f, <2>4
  <2>7. At(F[j], 0, F[j - 1])
    BY <1>c, <2>5, <2>6 DEF CatFacts
  <2>8. At(F[j - 1], 0, F[k])
    BY <2>2, <2>4
  <2>9. At(F[j], 0 + 0, F[k])
    BY <2>6, <2>7, <2>8, AtTransitive
  <2> QED
    BY <2>3, <2>9
<1>3. T \subseteq Nat
  OBVIOUS
<1> HIDE DEF T
<1>4. n - k \in T
  <2>1. T = Nat
    BY <1>1, <1>2, <1>3, Induction
  <2> QED
    BY <1>0, <2>1
<1>5. k + (n - k) = n
  BY <1>0
<1> QED
  BY <1>0, <1>4, <1>5 DEF T

\* Where the sequence after the first k ones is in the whole.
LEMMA FlattenAt ==
  ASSUME NEW X, NEW seqs \in Seq(Seq(X)), NEW F, IsPrefixes(F, Len(seqs), seqs, X),
         NEW k \in 1 .. Len(seqs)
  PROVE  /\ F[k] \in Seq(X) /\ F[k - 1] \in Seq(X) /\ seqs[k] \in Seq(X)
         /\ F[k] = Cat(F[k - 1], seqs[k])
         /\ At(FlattenSeq(seqs), 0, F[k])
         /\ At(FlattenSeq(seqs), Len(F[k - 1]), seqs[k])
<1> DEFINE n == Len(seqs)
<1>0. n \in Nat /\ k \in 0 .. n /\ k - 1 \in 0 .. n /\ n \in 0 .. n
  BY LenProperties
<1>c. CatFacts(X)
  BY CatSeq
<1>1. F[k] \in Seq(X) /\ F[k - 1] \in Seq(X) /\ F[n] \in Seq(X) /\ seqs[k] \in Seq(X)
  BY <1>0, ElementOfSeq DEF IsPrefixes
<1>2. F[k] = Cat(F[k - 1], seqs[k])
  BY DEF IsPrefixes
<1>3. At(F[k], Len(F[k - 1]), seqs[k])
  BY <1>1, <1>2, <1>c DEF CatFacts
<1>4. FlattenSeq(seqs) = F[n]
  BY FlattenIsLast
<1>5. At(F[n], 0, F[k])
  BY <1>0, PrefixGrows
<1>6. PICK m \in Nat : m = Len(F[k - 1])
  BY <1>1, LenProperties
<1>7. At(F[n], 0 + m, seqs[k])
  BY <1>1, <1>3, <1>5, <1>6, AtTransitive
<1>8. 0 + m = m
  OBVIOUS
<1> QED
  BY <1>1, <1>2, <1>4, <1>5, <1>6, <1>7, <1>8

-----------------------------------------------------------------------------
(* escape.                                                                 *)

\* What texts are made of.  (The provers do not know that a literal is in STRING.)
Letters == Punctuation \cup StringKeys \cup IntKeys
             \cup {"n", "r", "t", "Active", "id", "status", "retry_delay_s",
                   "retry_count", "next_run_time"}
Symbol  == STRING \cup Letters

LEMMA SymbolFacts ==
  /\ STRING \subseteq Symbol /\ StringKeys \subseteq Symbol /\ IntKeys \subseteq Symbol
  /\ "quote" \in Symbol /\ "backslash" \in Symbol /\ "n" \in Symbol /\ "r" \in Symbol
  /\ "t" \in Symbol /\ "{" \in Symbol /\ "}" \in Symbol /\ ":" \in Symbol
  /\ "," \in Symbol /\ "Active" \in Symbol /\ "id" \in Symbol /\ "status" \in Symbol
  /\ "retry_delay_s" \in Symbol /\ "retry_count" \in Symbol
  /\ "next_run_time" \in Symbol
BY DEF Symbol, Letters, Punctuation

\* What escape writes for one character.
Chunk(c) == IF c \in DOMAIN EscapeOf THEN <<"backslash", EscapeOf[c]>> ELSE <<c>>

Chunks(s) == [i \in DOMAIN s |-> Chunk(s[i])]

LEMMA EscapedLetters ==
  ASSUME NEW c \in DOMAIN EscapeOf
  PROVE  EscapeOf[c] \in Symbol /\ Unescaped(EscapeOf[c]) = <<c>>
<1>1. /\ DOMAIN EscapeOf = {"quote", "backslash", "newline", "return", "tab"}
      /\ EscapeOf["quote"] = "quote" /\ EscapeOf["backslash"] = "backslash"
      /\ EscapeOf["newline"] = "n" /\ EscapeOf["return"] = "r" /\ EscapeOf["tab"] = "t"
  BY DEF EscapeOf
<1>2. \A d \in DOMAIN EscapeOf : EscapeOf[d] = EscapeOf[c] => d = c
  BY <1>1
<1>3. EscapeOf[c] \in Symbol
  BY <1>1, SymbolFacts
<1>4. (CHOOSE e \in DOMAIN EscapeOf : EscapeOf[e] = EscapeOf[c]) = c
  BY <1>2
<1> QED
  BY <1>3, <1>4 DEF Unescaped

\* What is not escaped neither ends a string nor begins an escape.
LEMMA PlainLetters ==
  ASSUME NEW c, c \notin DOMAIN EscapeOf
  PROVE  c # "quote" /\ c # "backslash"
BY DEF EscapeOf

LEMMA ChunkSeq ==
  ASSUME NEW c \in Symbol
  PROVE  Chunk(c) \in Seq(Symbol)
<1>1. CASE c \in DOMAIN EscapeOf
  <2>1. EscapeOf[c] \in Symbol
    BY <1>1, EscapedLetters
  <2>2. "backslash" \in Symbol
    BY SymbolFacts
  <2>3. <<"backslash", EscapeOf[c]>> \in Seq(Symbol)
    BY <2>1, <2>2, ShortSeq
  <2> QED
    BY <1>1, <2>3 DEF Chunk
<1>2. CASE c \notin DOMAIN EscapeOf
  <2>1. <<c>> \in Seq(Symbol)
    BY ShortSeq
  <2> QED
    BY <1>2, <2>1 DEF Chunk
<1> QED
  BY <1>1, <1>2

LEMMA EscapeChunks ==
  ASSUME NEW s \in Seq(Symbol)
  PROVE  /\ Escape(s) = FlattenSeq(Chunks(s))
         /\ Chunks(s) \in Seq(Seq(Symbol))
         /\ Len(Chunks(s)) = Len(s)
         /\ \A i \in 1 .. Len(s) : Chunks(s)[i] = Chunk(s[i])
<1>1. Len(s) \in Nat /\ DOMAIN s = 1 .. Len(s) /\ \A i \in 1 .. Len(s) : s[i] \in Symbol
  BY LenProperties, ElementOfSeq
<1>2. Escape(s) = FlattenSeq(Chunks(s))
  BY Zenon DEF Escape, Chunks, Chunk
<1>3. \A i \in 1 .. Len(s) : Chunk(s[i]) \in Seq(Symbol)
  BY <1>1, ChunkSeq
<1>4. Chunks(s) \in [1 .. Len(s) -> Seq(Symbol)]
  BY <1>1, <1>3 DEF Chunks
<1> QED
  BY <1>1, <1>2, <1>4 DEF Chunks

\* The prefixes of what escape writes.
LEMMA EscapePrefixes ==
  ASSUME NEW s \in Seq(Symbol)
  PROVE  \E F : /\ IsPrefixes(F, Len(s), Chunks(s), Symbol)
                /\ F[0] = <<>> /\ F[Len(s)] = Escape(s)
                /\ Escape(s) \in Seq(Symbol)
<1>1. PICK F : IsPrefixes(F, Len(s), Chunks(s), Symbol)
  BY EscapeChunks, PrefixesExist
<1>2. FlattenSeq(Chunks(s)) = F[Len(s)]
  BY <1>1, EscapeChunks, FlattenIsLast
<1>3. Len(s) \in 0 .. Len(s)
  BY LenProperties
<1>4. F[Len(s)] \in Seq(Symbol) /\ F[0] = <<>>
  BY <1>1, <1>3 DEF IsPrefixes
<1> QED
  BY <1>1, <1>2, <1>4, EscapeChunks

\* The k-th character of the text, as it stands in what escape writes.
LEMMA EscapedAt ==
  ASSUME NEW s \in Seq(Symbol), NEW F, IsPrefixes(F, Len(s), Chunks(s), Symbol),
         NEW k \in 1 .. Len(s)
  PROVE  /\ Len(F[k - 1]) \in Nat /\ Len(F[k]) \in Nat /\ s[k] \in Symbol
         /\ IF s[k] \in DOMAIN EscapeOf
            THEN /\ Len(F[k]) = Len(F[k - 1]) + 2
                 /\ Escape(s)[Len(F[k - 1]) + 1] = "backslash"
                 /\ Escape(s)[Len(F[k - 1]) + 2] = EscapeOf[s[k]]
            ELSE /\ Len(F[k]) = Len(F[k - 1]) + 1
                 /\ Escape(s)[Len(F[k - 1]) + 1] = s[k]
         /\ Len(F[k]) <= Len(Escape(s))
<1>1. /\ F[k] \in Seq(Symbol) /\ F[k - 1] \in Seq(Symbol) /\ Chunk(s[k]) \in Seq(Symbol)
      /\ F[k] = Cat(F[k - 1], Chunk(s[k]))
      /\ At(Escape(s), 0, F[k])
      /\ At(Escape(s), Len(F[k - 1]), Chunk(s[k]))
  <2>1. /\ Escape(s) = FlattenSeq(Chunks(s)) /\ Chunks(s) \in Seq(Seq(Symbol))
        /\ Len(Chunks(s)) = Len(s) /\ Chunks(s)[k] = Chunk(s[k])
    BY EscapeChunks
  <2> QED
    BY <2>1, FlattenAt
<1>2. PICK m \in Nat : m = Len(F[k - 1])
  BY <1>1, LenProperties
<1>3. Len(F[k]) \in Nat
  BY <1>1, LenProperties
<1>4. Len(F[k]) = m + Len(Chunk(s[k]))
  <2>1. CatFacts(Symbol)
    BY CatSeq
  <2> QED
    BY <1>1, <1>2, <2>1 DEF CatFacts
<1>5. Len(F[k]) <= Len(Escape(s))
  BY <1>1, <1>3 DEF At
<1>6. s[k] \in Symbol
  BY ElementOfSeq
<1>7. \A i \in 1 .. Len(Chunk(s[k])) : Escape(s)[m + i] = Chunk(s[k])[i]
  BY <1>1, <1>2 DEF At
<1>8. CASE s[k] \in DOMAIN EscapeOf
  <2>1. Chunk(s[k]) = <<"backslash", EscapeOf[s[k]]>>
    BY <1>8 DEF Chunk
  <2>2. /\ Len(Chunk(s[k])) = 2 /\ Chunk(s[k])[1] = "backslash"
        /\ Chunk(s[k])[2] = EscapeOf[s[k]]
    BY <2>1
  <2>3. 1 \in 1 .. Len(Chunk(s[k])) /\ 2 \in 1 .. Len(Chunk(s[k]))
    BY <2>2
  <2> QED
    BY <1>2, <1>3, <1>4, <1>5, <1>6, <1>7, <1>8, <2>2, <2>3
<1>9. CASE s[k] \notin DOMAIN EscapeOf
  <2>1. Chunk(s[k]) = <<s[k]>>
    BY <1>9 DEF Chunk
  <2>2. Len(Chunk(s[k])) = 1 /\ Chunk(s[k])[1] = s[k]
    BY <2>1
  <2>3. 1 \in 1 .. Len(Chunk(s[k]))
    BY <2>2
  <2> QED
    BY <1>2, <1>3, <1>4, <1>5, <1>6, <1>7, <1>9, <2>2, <2>3
<1> QED
  BY <1>8, <1>9

-----------------------------------------------------------------------------
(* Functions that go from the end to the beginning, a step or two at a time. *)

\* f has the value base after n, and before it what G makes of the next two.
GoesBack(f, n, base, G, V) ==
  /\ f \in [1 .. n + 2 -> V]
  /\ f[n + 1] = base /\ f[n + 2] = base
  /\ \A i \in 1 .. n : f[i] = G[i][<<f[i + 1], f[i + 2]>>]

\* The same for the last k positions.
GoesBackFor(f, k, n, base, G, V) ==
  /\ f \in [1 .. n + 2 -> V]
  /\ f[n + 1] = base /\ f[n + 2] = base
  /\ \A i \in n + 1 - k .. n : f[i] = G[i][<<f[i + 1], f[i + 2]>>]

Backwards(n, base, G, V) ==
  {k \in Nat : k <= n => \E f : GoesBackFor(f, k, n, base, G, V)}

LEMMA BackOne ==
  ASSUME NEW V, NEW n \in Nat, NEW base \in V, NEW G \in [1 .. n -> [V \X V -> V]],
         NEW k \in Nat, k + 1 <= n, NEW f, GoesBackFor(f, k, n, base, G, V)
  PROVE  \E g : GoesBackFor(g, k + 1, n, base, G, V)
<1> DEFINE i == n - k
           v == G[i][<<f[i + 1], f[i + 2]>>]
           g == [f EXCEPT ![i] = v]
<1>1. i \in 1 .. n /\ i + 1 \in 1 .. n + 2 /\ i + 2 \in 1 .. n + 2 /\ n + 1 - (k + 1) = i
      /\ n + 1 - k = i + 1 /\ n + 1 # i /\ n + 2 # i
  OBVIOUS
<1>2. f \in [1 .. n + 2 -> V]
  BY DEF GoesBackFor
<1>3. v \in V
  <2>1. f[i + 1] \in V /\ f[i + 2] \in V
    BY <1>1, <1>2
  <2>2. G[i] \in [V \X V -> V]
    BY <1>1
  <2> QED
    BY <2>1, <2>2
<1>4. g \in [1 .. n + 2 -> V] /\ g[i] = v /\ \A j \in 1 .. n + 2 : j # i => g[j] = f[j]
  BY <1>1, <1>2, <1>3
<1> HIDE DEF g, v
<1>5. g[n + 1] = base /\ g[n + 2] = base
  BY <1>1, <1>4 DEF GoesBackFor
<1>6. ASSUME NEW j \in i .. n
      PROVE  g[j] = G[j][<<g[j + 1], g[j + 2]>>]
  <2>1. j + 1 \in 1 .. n + 2 /\ j + 2 \in 1 .. n + 2 /\ j + 1 # i /\ j + 2 # i
        /\ j \in 1 .. n + 2
    BY <1>1
  <2>2. g[j + 1] = f[j + 1] /\ g[j + 2] = f[j + 2]
    BY <2>1, <1>4
  <2>3. CASE j = i
    BY <2>2, <2>3, <1>4 DEF v
  <2>4. CASE j # i
    <3>1. j \in n + 1 - k .. n
      BY <1>1, <2>4
    <3>2. f[j] = G[j][<<f[j + 1], f[j + 2]>>]
      BY <3>1 DEF GoesBackFor
    <3> QED
      BY <3>2, <2>1, <2>2, <2>4, <1>4
  <2> QED
    BY <2>3, <2>4
<1>7. GoesBackFor(g, k + 1, n, base, G, V)
  BY <1>1, <1>4, <1>5, <1>6 DEF GoesBackFor
<1> QED
  BY <1>7

LEMMA BackExists ==
  ASSUME NEW V, NEW n \in Nat, NEW base \in V, NEW G \in [1 .. n -> [V \X V -> V]]
  PROVE  \E f : GoesBack(f, n, base, G, V)
<1> DEFINE T == Backwards(n, base, G, V)
<1>1. T \subseteq Nat
  BY DEF Backwards
<1>2. 0 \in T
  <2>1. GoesBackFor([i \in 1 .. n + 2 |-> base], 0, n, base, G, V)
    BY DEF GoesBackFor
  <2> QED
    BY <2>1 DEF Backwards
<1>3. ASSUME NEW k \in T PROVE k + 1 \in T
  <2>1. k \in Nat /\ k + 1 \in Nat
    BY <1>1
  <2>2. ASSUME k + 1 <= n PROVE \E g : GoesBackFor(g, k + 1, n, base, G, V)
    <3>1. k <= n
      BY <2>1, <2>2
    <3>2. PICK f : GoesBackFor(f, k, n, base, G, V)
      BY <3>1 DEF Backwards
    <3> QED
      BY <2>1, <2>2, <3>2, BackOne
  <2> QED
    BY <2>1, <2>2 DEF Backwards
<1> HIDE DEF T
<1>4. n \in T
  BY <1>1, <1>2, <1>3, Induction
<1>5. PICK f : GoesBackFor(f, n, n, base, G, V)
  BY <1>4 DEF T, Backwards
<1>6. GoesBack(f, n, base, G, V)
  BY <1>5 DEF GoesBack, GoesBackFor
<1> QED
  BY <1>6

\* The last positions at which f has a value in V.
TypedFor(f, n, V) == {k \in Nat : \A i \in 1 .. n + 2 : n < i + k => f[i] \in V}

LEMMA BackTyped ==
  ASSUME NEW V, NEW n \in Nat, NEW f, f[n + 1] \in V, f[n + 2] \in V,
         \A i \in 1 .. n : f[i + 1] \in V /\ f[i + 2] \in V => f[i] \in V
  PROVE  \A i \in 1 .. n + 2 : f[i] \in V
<1> DEFINE T == TypedFor(f, n, V)
<1>1. T \subseteq Nat
  BY DEF TypedFor
<1>2. 0 \in T
  <2>1. \A i \in 1 .. n + 2 : n < i + 0 => i = n + 1 \/ i = n + 2
    OBVIOUS
  <2> QED
    BY <2>1 DEF TypedFor
<1>3. ASSUME NEW k \in T PROVE k + 1 \in T
  <2>1. k \in Nat /\ k + 1 \in Nat
    BY <1>1
  <2>2. ASSUME NEW i \in 1 .. n + 2, n < i + (k + 1) PROVE f[i] \in V
    <3>1. CASE i \in 1 .. n
      <4>1. /\ i + 1 \in 1 .. n + 2 /\ n < (i + 1) + k
            /\ i + 2 \in 1 .. n + 2 /\ n < (i + 2) + k
        BY <2>1, <2>2, <3>1
      <4>2. f[i + 1] \in V /\ f[i + 2] \in V
        BY <4>1 DEF TypedFor
      <4> QED
        BY <3>1, <4>2
    <3>2. CASE i \notin 1 .. n
      <4>1. i = n + 1 \/ i = n + 2
        BY <3>2
      <4> QED
        BY <4>1
    <3> QED
      BY <3>1, <3>2
  <2> QED
    BY <2>1, <2>2 DEF TypedFor
<1> HIDE DEF T
<1>4. n \in T
  BY <1>1, <1>2, <1>3, Induction
<1>5. \A i \in 1 .. n + 2 : n < i + n
  OBVIOUS
<1> QED
  BY <1>4, <1>5 DEF T, TypedFor

-----------------------------------------------------------------------------
(* CloseOf.                                                                *)

\* The function that CloseOf recurses with.
Quote2(body) ==
  CHOOSE q : q = [i \in 1 .. Len(body) + 2 |->
                    IF i > Len(body) THEN 0
                    ELSE IF body[i] = "backslash" THEN q[i + 2]
                    ELSE IF body[i] = "quote" THEN i
                    ELSE q[i + 1]]

IsQuote2(q, body) ==
  /\ q \in [1 .. Len(body) + 2 -> 0 .. Len(body)]
  /\ q[Len(body) + 1] = 0
  /\ \A i \in 1 .. Len(body) :
       /\ body[i] = "backslash" => q[i] = q[i + 2]
       /\ body[i] = "quote" => q[i] = i
       /\ body[i] \notin {"backslash", "quote"} => q[i] = q[i + 1]

LEMMA CloseExists ==
  ASSUME NEW X, NEW body \in Seq(X)
  PROVE  /\ IsQuote2(Quote2(body), body)
         /\ \A i : CloseOf(body, i) = Quote2(body)[i]
<1> DEFINE n == Len(body)
           V == 0 .. n
           q1(q, i) == IF i > n THEN 0
                       ELSE IF body[i] = "backslash" THEN q[i + 2]
                       ELSE IF body[i] = "quote" THEN i
                       ELSE q[i + 1]
           G == [i \in 1 .. n |-> [w \in V \X V |->
                   IF body[i] = "backslash" THEN w[2]
                   ELSE IF body[i] = "quote" THEN i ELSE w[1]]]
<1>0. n \in Nat
  BY LenProperties
<1>z. 0 \in V
  BY <1>0
<1>1. G \in [1 .. n -> [V \X V -> V]]
  <2>1. \A i \in 1 .. n : \A w \in V \X V :
          (IF body[i] = "backslash" THEN w[2]
           ELSE IF body[i] = "quote" THEN i ELSE w[1]) \in V
    BY <1>0
  <2> QED
    BY <2>1
<1>2. PICK q : GoesBack(q, n, 0, G, V)
  <2> HIDE DEF G, n, V
  <2> QED
    BY <1>0, <1>1, <1>z, BackExists
<1>3. q \in [1 .. n + 2 -> V] /\ q[n + 1] = 0 /\ q[n + 2] = 0
  BY <1>2 DEF GoesBack
<1>4. \A i \in 1 .. n : q[i] = q1(q, i)
  <2> TAKE i \in 1 .. n
  <2>1. i + 1 \in 1 .. n + 2 /\ i + 2 \in 1 .. n + 2 /\ ~(i > n)
    BY <1>0
  <2>2. q[i + 1] \in V /\ q[i + 2] \in V
    BY <2>1, <1>3
  <2>3. q[i] = G[i][<<q[i + 1], q[i + 2]>>]
    BY <1>2 DEF GoesBack
  <2>4. G[i][<<q[i + 1], q[i + 2]>>] = IF body[i] = "backslash" THEN q[i + 2]
                                       ELSE IF body[i] = "quote" THEN i ELSE q[i + 1]
    BY <2>2
  <2> QED
    BY <2>1, <2>3, <2>4
<1>5. q = [i \in 1 .. n + 2 |-> q1(q, i)]
  <2>1. \A i \in 1 .. n + 2 : i \in 1 .. n \/ i = n + 1 \/ i = n + 2
    BY <1>0
  <2>2. q1(q, n + 1) = 0 /\ q1(q, n + 2) = 0
    BY <1>0
  <2> QED
    BY <2>1, <2>2, <1>3, <1>4
<1>6. Quote2(body) = [i \in 1 .. n + 2 |-> q1(Quote2(body), i)]
  BY <1>5, Zenon DEF Quote2
<1>7. \A i : CloseOf(body, i) = Quote2(body)[i]
  BY Zenon DEF CloseOf, Quote2
<1> DEFINE c == Quote2(body)
<1>8. \A i \in 1 .. n + 2 : c[i] = q1(c, i)
  BY <1>6
<1> HIDE DEF c
<1>9. c[n + 1] = 0 /\ c[n + 2] = 0 /\ \A i \in 1 .. n : c[i] = q1(c, i)
  <2>1. /\ n + 1 \in 1 .. n + 2 /\ n + 2 \in 1 .. n + 2 /\ n + 1 > n /\ n + 2 > n
        /\ \A i \in 1 .. n : i \in 1 .. n + 2
    BY <1>0
  <2> QED
    BY <1>8, <2>1
<1>10. \A i \in 1 .. n : c[i + 1] \in V /\ c[i + 2] \in V => c[i] \in V
  BY <1>0, <1>9
<1>11. \A i \in 1 .. n + 2 : c[i] \in V
  <2>1. c[n + 1] \in V /\ c[n + 2] \in V
    BY <1>9
  <2> HIDE DEF n, V
  <2> QED
    BY <1>0, <2>1, <1>10, BackTyped, Zenon
<1>12. DOMAIN c = 1 .. n + 2 /\ c = [i \in 1 .. n + 2 |-> c[i]]
  BY <1>6 DEF c
<1>13. c \in [1 .. n + 2 -> V]
  BY <1>11, <1>12
<1>14. \A i \in 1 .. n : ~(i > n)
  BY <1>0
<1>15. IsQuote2(c, body)
  BY <1>9, <1>13, <1>14 DEF IsQuote2
<1> QED
  BY <1>7, <1>15 DEF c

\* The texts of which a reader that is after an escaped prefix of s has skipped k
\* characters: q does not tell the beginning from there.
SkippedAt(q, p, F, n) == {k \in Nat : k <= n => q[p + 1] = q[p + Len(F[k]) + 1]}

\* What escape writes holds no quote that ends it.
LEMMA CloseOfEscaped ==
  ASSUME NEW X, NEW body \in Seq(X), NEW s \in Seq(Symbol), NEW p \in Nat,
         At(body, p, Escape(s)), p + Len(Escape(s)) + 1 <= Len(body),
         body[p + Len(Escape(s)) + 1] = "quote"
  PROVE  CloseOf(body, p + 1) = p + Len(Escape(s)) + 1
<1> DEFINE n == Len(s)
           q == Quote2(body)
<1>0. n \in Nat /\ Len(body) \in Nat
  BY LenProperties
<1>1. IsQuote2(q, body) /\ CloseOf(body, p + 1) = q[p + 1]
  BY CloseExists
<1>2. PICK F : /\ IsPrefixes(F, n, Chunks(s), Symbol) /\ F[0] = <<>>
               /\ F[n] = Escape(s) /\ Escape(s) \in Seq(Symbol)
  BY EscapePrefixes
<1> DEFINE T == SkippedAt(q, p, F, n)
<1>3. T \subseteq Nat
  BY DEF SkippedAt
<1>4. 0 \in T
  <2>1. Len(F[0]) = 0
    BY <1>2, ShortSeq
  <2>2. p + 0 + 1 = p + 1
    OBVIOUS
  <2> QED
    BY <2>1, <2>2 DEF SkippedAt
<1>5. ASSUME NEW k \in T PROVE k + 1 \in T
  <2>1. k \in Nat
    BY <1>3
  <2>2. ASSUME k + 1 <= n PROVE q[p + 1] = q[p + Len(F[k + 1]) + 1]
    <3>1. q[p + 1] = q[p + Len(F[k]) + 1]
      BY <1>0, <2>1, <2>2 DEF SkippedAt
    <3>2. PICK j \in 1 .. n : j = k + 1 /\ j - 1 = k
      BY <1>0, <2>1, <2>2
    <3>3. /\ Len(F[j - 1]) \in Nat /\ Len(F[j]) \in Nat /\ s[j] \in Symbol
          /\ IF s[j] \in DOMAIN EscapeOf
             THEN /\ Len(F[j]) = Len(F[j - 1]) + 2
                  /\ Escape(s)[Len(F[j - 1]) + 1] = "backslash"
                  /\ Escape(s)[Len(F[j - 1]) + 2] = EscapeOf[s[j]]
             ELSE /\ Len(F[j]) = Len(F[j - 1]) + 1
                  /\ Escape(s)[Len(F[j - 1]) + 1] = s[j]
          /\ Len(F[j]) <= Len(Escape(s))
      BY <1>2, EscapedAt
    <3>4. PICK m \in Nat : m = Len(F[k])
      BY <3>2, <3>3
    <3>5. PICK l \in Nat : l = Len(F[k + 1])
      BY <3>2, <3>3
    <3>6. Len(Escape(s)) \in Nat /\ l <= Len(Escape(s)) /\ m + 1 <= l
      BY <1>2, <3>2, <3>3, <3>4, <3>5, LenProperties
    <3>7. m + 1 \in 1 .. Len(Escape(s)) /\ p + (m + 1) \in 1 .. Len(body)
          /\ p + (m + 1) = p + m + 1
      BY <1>0, <3>6
    <3>8. body[p + m + 1] = Escape(s)[m + 1]
      BY <3>7 DEF At
    <3>9. CASE s[j] \in DOMAIN EscapeOf
      <4>1. l = m + 2 /\ Escape(s)[m + 1] = "backslash"
        BY <3>2, <3>3, <3>4, <3>5, <3>9
      <4>2. p + m + 1 + 2 = p + l + 1
        BY <4>1
      <4>3. q[p + m + 1] = q[p + m + 1 + 2]
        BY <1>1, <3>7, <3>8, <4>1 DEF IsQuote2
      <4> QED
        BY <3>1, <3>4, <3>5, <4>2, <4>3
    <3>10. CASE s[j] \notin DOMAIN EscapeOf
      <4>1. l = m + 1 /\ Escape(s)[m + 1] = s[j]
        BY <3>2, <3>3, <3>4, <3>5, <3>10
      <4>2. p + m + 1 + 1 = p + l + 1
        BY <4>1
      <4>3. body[p + m + 1] \notin {"backslash", "quote"}
        BY <3>8, <3>10, <4>1, PlainLetters
      <4>4. q[p + m + 1] = q[p + m + 1 + 1]
        BY <1>1, <3>7, <4>3 DEF IsQuote2
      <4> QED
        BY <3>1, <3>4, <3>5, <4>2, <4>4
    <3> QED
      BY <3>9, <3>10
  <2> QED
    BY <2>1, <2>2 DEF SkippedAt
<1> HIDE DEF T
<1>6. n \in T
  BY <1>0, <1>3, <1>4, <1>5, Induction
<1>7. q[p + 1] = q[p + Len(Escape(s)) + 1]
  <2>1. n <= n
    BY <1>0
  <2> HIDE DEF n, q
  <2>2. q[p + 1] = q[p + Len(F[n]) + 1]
    BY <2>1, <1>6 DEF T, SkippedAt
  <2> QED
    BY <2>2, <1>2
<1>8. Len(Escape(s)) \in Nat
  BY <1>2, LenProperties
<1>9. PICK e \in 1 .. Len(body) : e = p + Len(Escape(s)) + 1
  BY <1>0, <1>8
<1>10. q[e] = e
  BY <1>1, <1>9 DEF IsQuote2
<1> QED
  BY <1>1, <1>7, <1>9, <1>10

-----------------------------------------------------------------------------
(* Unescape.                                                               *)

\* An escape begins at i; what Unescape makes of the text there.
EscapesAt(raw, i) == raw[i] = "backslash" /\ i < Len(raw)
Taken(raw, i) == IF EscapesAt(raw, i) THEN Unescaped(raw[i + 1]) ELSE <<raw[i]>>

LEMMA EscapedSymbols == DOMAIN EscapeOf \subseteq Symbol
<1>1. DOMAIN EscapeOf \subseteq Punctuation
  BY DEF EscapeOf, Punctuation
<1> QED
  BY <1>1 DEF Symbol, Letters

LEMMA TakenSeq ==
  ASSUME NEW raw \in Seq(Symbol), NEW i \in 1 .. Len(raw)
  PROVE  Taken(raw, i) \in Seq(Symbol)
<1>0. Len(raw) \in Nat
  BY LenProperties
<1>1. CASE EscapesAt(raw, i)
  <2> DEFINE c == raw[i + 1]
  <2>1. i + 1 \in 1 .. Len(raw)
    BY <1>0, <1>1 DEF EscapesAt
  <2>2. c \in Symbol
    BY <2>1, ElementOfSeq
  <2> HIDE DEF c
  <2>3. CASE \E e \in DOMAIN EscapeOf : EscapeOf[e] = c
    <3> DEFINE d == CHOOSE e \in DOMAIN EscapeOf : EscapeOf[e] = c
    <3>1. d \in DOMAIN EscapeOf
      BY <2>3
    <3>2. d \in Symbol
      BY <3>1, EscapedSymbols
    <3>3. Unescaped(c) = <<d>>
      BY <2>3 DEF Unescaped
    <3> QED
      BY <3>2, <3>3, <1>1, ShortSeq DEF Taken, c
  <2>4. CASE ~\E e \in DOMAIN EscapeOf : EscapeOf[e] = c
    <3>1. Unescaped(c) = <<"backslash", c>>
      BY <2>4 DEF Unescaped
    <3>2. <<"backslash", c>> \in Seq(Symbol)
      BY <2>2, SymbolFacts, ShortSeq
    <3> QED
      BY <3>1, <3>2, <1>1 DEF Taken, c
  <2> QED
    BY <2>3, <2>4
<1>2. CASE ~EscapesAt(raw, i)
  <2>1. raw[i] \in Symbol
    BY ElementOfSeq
  <2> QED
    BY <1>2, <2>1, ShortSeq DEF Taken
<1> QED
  BY <1>1, <1>2

\* The function that Unescape recurses with.
Out(raw) ==
  CHOOSE out : out = [i \in 1 .. Len(raw) + 1 |->
                        IF i > Len(raw) THEN <<>>
                        ELSE IF raw[i] = "backslash" /\ i < Len(raw)
                             THEN Unescaped(raw[i + 1]) \o out[i + 2]
                             ELSE <<raw[i]>> \o out[i + 1]]

\* The next position from i on.
After(raw, i) == IF EscapesAt(raw, i) THEN i + 2 ELSE i + 1

IsOut(out, raw) ==
  /\ DOMAIN out = 1 .. Len(raw) + 1
  /\ \A i \in 1 .. Len(raw) + 1 : out[i] \in Seq(Symbol)
  /\ out[Len(raw) + 1] = <<>>
  /\ \A i \in 1 .. Len(raw) : out[i] = Cat(Taken(raw, i), out[After(raw, i)])

LEMMA AfterWithin ==
  ASSUME NEW raw \in Seq(Symbol), NEW i \in 1 .. Len(raw)
  PROVE  /\ After(raw, i) \in 1 .. Len(raw) + 1
         /\ After(raw, i) = i + 1 \/ After(raw, i) = i + 2
<1>1. Len(raw) \in Nat
  BY LenProperties
<1> QED
  BY <1>1 DEF After, EscapesAt

LEMMA OutStep ==
  ASSUME NEW raw, NEW out, NEW i
  PROVE  (IF raw[i] = "backslash" /\ i < Len(raw)
          THEN Unescaped(raw[i + 1]) \o out[i + 2]
          ELSE <<raw[i]>> \o out[i + 1])
           = Cat(Taken(raw, i), out[After(raw, i)])
<1>1. CASE raw[i] = "backslash" /\ i < Len(raw)
  BY <1>1, Zenon DEF Cat, Taken, After, EscapesAt
<1>2. CASE ~(raw[i] = "backslash" /\ i < Len(raw))
  BY <1>2, Zenon DEF Cat, Taken, After, EscapesAt
<1> QED
  BY <1>1, <1>2, Zenon

LEMMA OutExists ==
  ASSUME NEW raw \in Seq(Symbol)
  PROVE  IsOut(Out(raw), raw) /\ Unescape(raw) = Out(raw)[1]
<1> DEFINE n == Len(raw)
           S == Seq(Symbol)
           out1(o, i) == IF i > n THEN <<>> ELSE Cat(Taken(raw, i), o[After(raw, i)])
           G == [i \in 1 .. n |-> [w \in S \X S |->
                   Cat(Taken(raw, i), IF After(raw, i) = i + 2 THEN w[2] ELSE w[1])]]
<1>0. n \in Nat
  BY LenProperties
<1>s. <<>> \in S
  BY ShortSeq
<1>c. \A s, t \in S : Cat(s, t) \in S
  <2>1. CatFacts(Symbol)
    BY CatSeq
  <2> QED
    BY <2>1 DEF CatFacts
<1>t. \A i \in 1 .. n : Taken(raw, i) \in S
  BY TakenSeq
<1>a. \A i \in 1 .. n : After(raw, i) \in 1 .. n + 1
                        /\ (After(raw, i) = i + 1 \/ After(raw, i) = i + 2)
  BY AfterWithin
<1>o. \A o : [i \in 1 .. n + 1 |-> out1(o, i)]
               = [i \in 1 .. n + 1 |->
                    IF i > n THEN <<>>
                    ELSE IF raw[i] = "backslash" /\ i < n
                         THEN Unescaped(raw[i + 1]) \o o[i + 2]
                         ELSE <<raw[i]>> \o o[i + 1]]
  BY OutStep, Zenon
<1> HIDE DEF S
<1>1. G \in [1 .. n -> [S \X S -> S]]
  <2>1. \A i \in 1 .. n : \A w \in S \X S :
          Cat(Taken(raw, i), IF After(raw, i) = i + 2 THEN w[2] ELSE w[1]) \in S
    BY <1>c, <1>t
  <2> QED
    BY <2>1
<1>2. PICK q : GoesBack(q, n, <<>>, G, S)
  <2> HIDE DEF G, n
  <2> QED
    BY <1>0, <1>1, <1>s, BackExists
<1>3. q \in [1 .. n + 2 -> S] /\ q[n + 1] = <<>> /\ q[n + 2] = <<>>
  BY <1>2 DEF GoesBack
<1>4. \A i \in 1 .. n : q[i] = Cat(Taken(raw, i), q[After(raw, i)])
  <2> TAKE i \in 1 .. n
  <2>1. i + 1 \in 1 .. n + 2 /\ i + 2 \in 1 .. n + 2 /\ i + 1 # i + 2
    BY <1>0
  <2>2. <<q[i + 1], q[i + 2]>> \in S \X S
    BY <2>1, <1>3
  <2>3. q[i] = G[i][<<q[i + 1], q[i + 2]>>]
    BY <1>2 DEF GoesBack
  <2>4. G[i][<<q[i + 1], q[i + 2]>>]
          = Cat(Taken(raw, i), IF After(raw, i) = i + 2 THEN q[i + 2] ELSE q[i + 1])
    BY <2>2
  <2>5. (IF After(raw, i) = i + 2 THEN q[i + 2] ELSE q[i + 1]) = q[After(raw, i)]
    BY <1>a, <2>1
  <2> QED
    BY <2>3, <2>4, <2>5
<1> DEFINE r == [i \in 1 .. n + 1 |-> q[i]]
<1>5. \A i \in 1 .. n + 1 : r[i] = out1(r, i)
  <2> TAKE i \in 1 .. n + 1
  <2>1. CASE i \in 1 .. n
    <3>1. After(raw, i) \in 1 .. n + 1
      BY <1>a, <2>1
    <3>2. r[After(raw, i)] = q[After(raw, i)]
      BY <3>1
    <3>3. r[i] = q[i] /\ ~(i > n)
      BY <1>0, <2>1
    <3> QED
      BY <3>2, <3>3, <2>1, <1>4
  <2>2. CASE i \notin 1 .. n
    <3>1. i = n + 1 /\ i > n
      BY <1>0, <2>2
    <3> QED
      BY <3>1, <1>3
  <2> QED
    BY <2>1, <2>2
<1>6. r = [i \in 1 .. n + 1 |-> out1(r, i)]
  BY <1>5
<1>7. Out(raw) = [i \in 1 .. n + 1 |-> out1(Out(raw), i)]
  <2> HIDE DEF r, out1
  <2>1. r = [i \in 1 .. n + 1 |->
               IF i > n THEN <<>>
               ELSE IF raw[i] = "backslash" /\ i < n
                    THEN Unescaped(raw[i + 1]) \o r[i + 2]
                    ELSE <<raw[i]>> \o r[i + 1]]
    BY <1>6, <1>o, Zenon
  <2>2. Out(raw) = [i \in 1 .. n + 1 |->
               IF i > n THEN <<>>
               ELSE IF raw[i] = "backslash" /\ i < n
                    THEN Unescaped(raw[i + 1]) \o Out(raw)[i + 2]
                    ELSE <<raw[i]>> \o Out(raw)[i + 1]]
    BY <2>1, Zenon DEF Out
  <2> QED
    BY <2>2, <1>o, Zenon
<1>8. Unescape(raw) = Out(raw)[1]
  BY Zenon DEF Unescape, Out
<1> DEFINE c == Out(raw)
<1>9. DOMAIN c = 1 .. n + 1 /\ \A i \in 1 .. n + 1 : c[i] = out1(c, i)
  BY <1>7
<1> HIDE DEF c
<1>10. c[n + 1] = <<>> /\ \A i \in 1 .. n : c[i] = Cat(Taken(raw, i), c[After(raw, i)])
  <2>1. /\ n + 1 \in 1 .. n + 1 /\ n + 1 > n
        /\ \A i \in 1 .. n : i \in 1 .. n + 1 /\ ~(i > n)
    BY <1>0
  <2> QED
    BY <1>9, <2>1
<1> DEFINE g == [i \in 1 .. n + 2 |-> IF i = n + 2 THEN <<>> ELSE c[i]]
<1>11. g[n + 1] \in S /\ g[n + 2] \in S
  BY <1>0, <1>s, <1>10
<1>12. \A i \in 1 .. n + 1 : g[i] = c[i]
  BY <1>0
<1>13. \A i \in 1 .. n : g[i + 1] \in S /\ g[i + 2] \in S => g[i] \in S
  <2> TAKE i \in 1 .. n
  <2>1. i \in 1 .. n + 1 /\ After(raw, i) \in 1 .. n + 1
    BY <1>0, <1>a
  <2>2. g[i] = Cat(Taken(raw, i), g[After(raw, i)])
    BY <2>1, <1>10, <1>12
  <2> HIDE DEF g
  <2> QED
    BY <2>2, <1>a, <1>c, <1>t
<1>14. \A i \in 1 .. n + 2 : g[i] \in S
  <2> HIDE DEF g, n
  <2> QED
    BY <1>0, <1>11, <1>13, BackTyped, Zenon
<1>15. \A i \in 1 .. n + 1 : c[i] \in S
  <2>1. \A i \in 1 .. n + 1 : i \in 1 .. n + 2
    BY <1>0
  <2> QED
    BY <2>1, <1>12, <1>14
<1>16. IsOut(c, raw)
  BY <1>9, <1>10, <1>15 DEF IsOut, S
<1> QED
  BY <1>8, <1>16 DEF c

LEMMA UnescapeSeq ==
  ASSUME NEW raw \in Seq(Symbol)
  PROVE  Unescape(raw) \in Seq(Symbol)
<1>1. 1 \in 1 .. Len(raw) + 1
  BY LenProperties
<1> QED
  BY <1>1, OutExists DEF IsOut

\* A reader of an escaped text has the first k characters of the text, and
\* the rest is to come.
ReadSoFar(out, s, F) ==
  {k \in Nat : k <= Len(s) => out[1] = Cat(SubSeq(s, 1, k), out[Len(F[k]) + 1])}

\* A prefix and the next character.
LEMMA NextPrefix ==
  ASSUME NEW X, NEW s \in Seq(X), NEW k \in Nat, k + 1 <= Len(s)
  PROVE  /\ SubSeq(s, 1, k) \in Seq(X)
         /\ <<s[k + 1]>> \in Seq(X)
         /\ SubSeq(s, 1, k + 1) = Cat(SubSeq(s, 1, k), <<s[k + 1]>>)
<1>0. Len(s) \in Nat /\ k + 1 \in 1 .. Len(s)
  BY LenProperties
<1>1. s[k + 1] \in X
  BY <1>0, ElementOfSeq
<1>2. PICK c \in X : c = s[k + 1]
  BY <1>1
<1> DEFINE a == SubSeq(s, 1, k)
           b == SubSeq(s, 1, k + 1)
<1>3. a \in Seq(X) /\ Len(a) = k /\ \A i \in 1 .. k : a[i] = s[i]
  BY <1>0
<1>4. b \in Seq(X) /\ Len(b) = k + 1 /\ \A i \in 1 .. k + 1 : b[i] = s[i]
  BY <1>0
<1> HIDE DEF a, b
<1>5. <<c>> \in Seq(X) /\ Len(<<c>>) = 1 /\ <<c>>[1] = c
  BY ShortSeq
<1>6. CatFacts(X)
  BY CatSeq
<1>7. /\ Cat(a, <<c>>) \in Seq(X) /\ Len(Cat(a, <<c>>)) = k + 1
      /\ At(Cat(a, <<c>>), 0, a) /\ At(Cat(a, <<c>>), k, <<c>>)
  BY <1>3, <1>5, <1>6 DEF CatFacts
<1>8. \A i \in 1 .. k : 0 + i = i
  OBVIOUS
<1>9. \A i \in 1 .. k : Cat(a, <<c>>)[i] = s[i]
  BY <1>3, <1>7, <1>8 DEF At
<1>10. Cat(a, <<c>>)[k + 1] = s[k + 1]
  BY <1>2, <1>5, <1>7 DEF At
<1>11. \A i \in 1 .. k + 1 : i \in 1 .. k \/ i = k + 1
  OBVIOUS
<1>12. \A i \in 1 .. k + 1 : Cat(a, <<c>>)[i] = b[i]
  BY <1>4, <1>9, <1>10, <1>11
<1>13. b = Cat(a, <<c>>)
  BY <1>4, <1>7, <1>12, SeqEqual
<1> QED
  BY <1>2, <1>3, <1>5, <1>13 DEF a, b

(***************************************************************************)
(* What get_str makes of a string that escape has written is that string,  *)
(* whatever quotes, backslashes and control characters it holds.           *)
(***************************************************************************)
THEOREM UnescapeEscaped ==
  ASSUME NEW s \in Seq(Symbol)
  PROVE  Unescape(Escape(s)) = s
<1> DEFINE n == Len(s)
           raw == Escape(s)
           out == Out(raw)
<1>0. n \in Nat
  BY LenProperties
<1>1. PICK F : /\ IsPrefixes(F, n, Chunks(s), Symbol) /\ F[0] = <<>>
               /\ F[n] = Escape(s) /\ Escape(s) \in Seq(Symbol)
  BY EscapePrefixes
<1>2. IsOut(out, raw) /\ Unescape(raw) = out[1]
  BY <1>1, OutExists
<1>l. Len(raw) \in Nat
  BY <1>1, LenProperties
<1> HIDE DEF out
<1> DEFINE T == ReadSoFar(out, s, F)
<1>3. T \subseteq Nat
  BY DEF ReadSoFar
<1>4. 0 \in T
  <2>1. Len(F[0]) = 0
    BY <1>1, ShortSeq
  <2>2. SubSeq(s, 1, 0) = <<>>
    BY SubSeqEmpty
  <2>3. 1 \in 1 .. Len(raw) + 1 /\ 0 + 1 = 1
    BY <1>l
  <2>4. out[1] \in Seq(Symbol)
    BY <1>2, <2>3 DEF IsOut
  <2>5. Cat(<<>>, out[1]) = out[1]
    BY <2>4, CatEmpty
  <2> QED
    BY <2>1, <2>2, <2>3, <2>5 DEF ReadSoFar
<1>5. ASSUME NEW k \in T PROVE k + 1 \in T
  <2>1. k \in Nat
    BY <1>3
  <2>2. ASSUME k + 1 <= n
        PROVE  out[1] = Cat(SubSeq(s, 1, k + 1), out[Len(F[k + 1]) + 1])
    <3>1. out[1] = Cat(SubSeq(s, 1, k), out[Len(F[k]) + 1])
      BY <1>0, <2>1, <2>2 DEF ReadSoFar
    <3>2. PICK j \in 1 .. n : j = k + 1 /\ j - 1 = k
      BY <1>0, <2>1, <2>2
    <3>3. /\ Len(F[j - 1]) \in Nat /\ Len(F[j]) \in Nat /\ s[j] \in Symbol
          /\ IF s[j] \in DOMAIN EscapeOf
             THEN /\ Len(F[j]) = Len(F[j - 1]) + 2
                  /\ Escape(s)[Len(F[j - 1]) + 1] = "backslash"
                  /\ Escape(s)[Len(F[j - 1]) + 2] = EscapeOf[s[j]]
             ELSE /\ Len(F[j]) = Len(F[j - 1]) + 1
                  /\ Escape(s)[Len(F[j - 1]) + 1] = s[j]
          /\ Len(F[j]) <= Len(Escape(s))
      BY <1>1, EscapedAt
    <3>4. PICK m \in Nat : m = Len(F[k])
      BY <3>2, <3>3
    <3>5. PICK l \in Nat : l = Len(F[k + 1])
      BY <3>2, <3>3
    <3>6. /\ l <= Len(raw) /\ m + 1 <= l /\ m + 1 \in 1 .. Len(raw)
          /\ l + 1 \in 1 .. Len(raw) + 1
      <4>1. l <= Len(raw)
        BY <3>2, <3>3, <3>5
      <4>2. l = m + 2 \/ l = m + 1
        BY <3>2, <3>3, <3>4, <3>5
      <4> QED
        BY <1>l, <4>1, <4>2
    <3>7. Taken(raw, m + 1) = <<s[j]>> /\ After(raw, m + 1) = l + 1
      <4>1. CASE s[j] \in DOMAIN EscapeOf
        <5>1. l = m + 2 /\ raw[m + 1] = "backslash" /\ raw[m + 2] = EscapeOf[s[j]]
          BY <3>2, <3>3, <3>4, <3>5, <4>1
        <5>2. m + 1 + 1 = m + 2 /\ m + 1 + 2 = l + 1 /\ m + 1 < Len(raw)
          BY <1>l, <3>6, <5>1
        <5>3. EscapesAt(raw, m + 1)
          BY <5>1, <5>2 DEF EscapesAt
        <5>4. Unescaped(EscapeOf[s[j]]) = <<s[j]>>
          BY <4>1, EscapedLetters
        <5> QED
          BY <5>1, <5>2, <5>3, <5>4 DEF Taken, After
      <4>2. CASE s[j] \notin DOMAIN EscapeOf
        <5>1. l = m + 1 /\ raw[m + 1] = s[j]
          BY <3>2, <3>3, <3>4, <3>5, <4>2
        <5>2. ~EscapesAt(raw, m + 1)
          BY <5>1, <4>2, PlainLetters DEF EscapesAt
        <5> QED
          BY <5>1, <5>2 DEF Taken, After
      <4> QED
        BY <4>1, <4>2
    <3>8. out[m + 1] = Cat(<<s[j]>>, out[l + 1])
      BY <1>2, <3>6, <3>7 DEF IsOut
    <3>9. out[l + 1] \in Seq(Symbol)
      BY <1>2, <3>6 DEF IsOut
    <3>10. /\ SubSeq(s, 1, k) \in Seq(Symbol) /\ <<s[j]>> \in Seq(Symbol)
           /\ SubSeq(s, 1, k + 1) = Cat(SubSeq(s, 1, k), <<s[j]>>)
      BY <2>1, <2>2, <3>2, NextPrefix
    <3>11. Cat(Cat(SubSeq(s, 1, k), <<s[j]>>), out[l + 1])
             = Cat(SubSeq(s, 1, k), Cat(<<s[j]>>, out[l + 1]))
      <4> DEFINE a == SubSeq(s, 1, k)
                 b == <<s[j]>>
                 c == out[l + 1]
      <4>1. a \in Seq(Symbol) /\ b \in Seq(Symbol) /\ c \in Seq(Symbol)
        BY <3>9, <3>10
      <4> HIDE DEF a, b, c
      <4>2. Cat(Cat(a, b), c) = Cat(a, Cat(b, c))
        BY <4>1, CatAssoc
      <4> QED
        BY <4>2 DEF a, b, c
    <3> QED
      BY <3>1, <3>4, <3>5, <3>8, <3>10, <3>11
  <2> QED
    BY <2>1, <2>2 DEF ReadSoFar
<1> HIDE DEF T
<1>6. n \in T
  BY <1>0, <1>3, <1>4, <1>5, Induction
<1>7. out[1] = Cat(SubSeq(s, 1, n), out[Len(F[n]) + 1])
  BY <1>0, <1>6 DEF T, ReadSoFar
<1>8. out[Len(F[n]) + 1] = <<>>
  BY <1>1, <1>2 DEF IsOut
<1>9. SubSeq(s, 1, n) = s
  BY SubSeqFull
<1>10. Cat(s, <<>>) = s
  BY CatEmpty
<1> QED
  BY <1>2, <1>7, <1>8, <1>9, <1>10

-----------------------------------------------------------------------------
(* KeyAt.                                                                  *)

\* First, of a set of positions.
LEMMA FirstFacts ==
  ASSUME NEW S, S \subseteq Nat \ {0}
  PROVE  /\ First(S) \in Nat
         /\ First(S) = 0 <=> S = {}
         /\ S # {} => /\ First(S) \in S
                      /\ \A i \in S : First(S) <= i
<1>1. CASE S = {}
  BY <1>1 DEF First
<1>2. CASE S # {}
  <2>1. Min(S) \in S /\ \A i \in S : Min(S) <= i
    BY <1>2, MinIsLeast
  <2> QED
    BY <1>2, <2>1 DEF First
<1> QED
  BY <1>1, <1>2

LEMMA FirstIs ==
  ASSUME NEW S, S \subseteq Nat \ {0}, NEW m \in S, \A i \in S : m <= i
  PROVE  First(S) = m
<1>1. First(S) \in S /\ First(S) <= m
  BY FirstFacts
<1>2. m <= First(S) /\ m \in Nat /\ First(S) \in Nat
  BY <1>1
<1> QED
  BY <1>1, <1>2

\* The quoted key is in s at i.
KeyStands(s, key, i) ==
  i + 2 <= Len(s) /\ s[i] = "quote" /\ s[i + 1] = key /\ s[i + 2] = "quote"

NoKeyIn(s, key) == \A i \in Nat \ {0} : ~KeyStands(s, key, i)

LEMMA QuotedParts ==
  ASSUME NEW X, "quote" \in X, NEW t \in Seq(X)
  PROVE  /\ Quoted(t) \in Seq(X) /\ Len(Quoted(t)) = Len(t) + 2
         /\ Quoted(t)[1] = "quote" /\ Quoted(t)[Len(t) + 2] = "quote"
         /\ At(Quoted(t), 1, t)
<1> DEFINE q == <<"quote">>
           a == Cat(q, t)
           b == Cat(a, q)
<1>1. Len(t) \in Nat /\ q \in Seq(X) /\ Len(q) = 1 /\ q[1] = "quote"
  BY LenProperties, ShortSeq
<1>2. b = Quoted(t)
  BY DEF Quoted, Cat
<1> HIDE DEF q
<1>3. CatFacts(X)
  BY CatSeq
<1>4. a \in Seq(X) /\ Len(a) = 1 + Len(t) /\ At(a, 0, q) /\ At(a, 1, t)
  BY <1>1, <1>3 DEF CatFacts
<1> HIDE DEF a
<1>5. b \in Seq(X) /\ Len(b) = Len(t) + 2 /\ At(b, 0, a) /\ At(b, Len(t) + 1, q)
  <2>1. Len(a) = Len(t) + 1 /\ Len(t) + 1 + 1 = Len(t) + 2
    BY <1>1, <1>4
  <2> QED
    BY <1>1, <1>3, <1>4, <2>1 DEF CatFacts
<1> HIDE DEF b
<1>6. b[Len(t) + 2] = "quote"
  BY <1>1, <1>5 DEF At
<1>7. b[1] = "quote"
  <2>1. a[1] = "quote"
    BY <1>1, <1>4 DEF At
  <2>2. 1 \in 1 .. Len(a) /\ 0 + 1 = 1
    BY <1>1, <1>4
  <2> QED
    BY <1>5, <2>1, <2>2 DEF At
<1>8. At(b, 0 + 1, t)
  BY <1>4, <1>5, AtTransitive
<1> QED
  BY <1>2, <1>5, <1>6, <1>7, <1>8

LEMMA QuotedWord ==
  ASSUME NEW key
  PROVE  Quoted(<<key>>) = <<"quote", key, "quote">>
<1> DEFINE X == {"quote", key}
           t == <<key>>
           q == <<"quote", key, "quote">>
<1>1. t \in Seq(X) /\ Len(t) = 1 /\ t[1] = key /\ "quote" \in X
  BY ShortSeq
<1>2. q \in Seq(X) /\ Len(q) = 3 /\ q[1] = "quote" /\ q[2] = key /\ q[3] = "quote"
  BY ShortSeq
<1> HIDE DEF t, q, X
<1>3. /\ Quoted(t) \in Seq(X) /\ Len(Quoted(t)) = 3
      /\ Quoted(t)[1] = "quote" /\ Quoted(t)[3] = "quote" /\ At(Quoted(t), 1, t)
  <2>1. /\ Quoted(t) \in Seq(X) /\ Len(Quoted(t)) = Len(t) + 2
        /\ Quoted(t)[1] = "quote" /\ Quoted(t)[Len(t) + 2] = "quote"
        /\ At(Quoted(t), 1, t)
    BY <1>1, QuotedParts, Zenon
  <2>2. Len(t) + 2 = 3
    BY <1>1
  <2> QED
    BY <2>1, <2>2
<1>4. Quoted(t)[2] = key
  BY <1>1, <1>3 DEF At
<1>5. \A i \in 1 .. 3 : Quoted(t)[i] = q[i]
  BY <1>2, <1>3, <1>4
<1>6. Quoted(t) = q
  BY <1>2, <1>3, <1>5, SeqEqual
<1> QED
  BY <1>6 DEF t, q

LEMMA KeySubSeq ==
  ASSUME NEW X, NEW s \in Seq(X), NEW key, NEW i \in 1 .. Len(s) - 2
  PROVE  SubSeq(s, i, i + 2) = Quoted(<<key>>) <=> KeyStands(s, key, i)
<1> DEFINE t == SubSeq(s, i, i + 2)
           q == <<"quote", key, "quote">>
<1>0. Len(s) \in Nat
  BY LenProperties
<1>1. t \in Seq(X) /\ Len(t) = 3 /\ t[1] = s[i] /\ t[2] = s[i + 1] /\ t[3] = s[i + 2]
  <2>1. i \in 1 .. Len(s) + 1 /\ i + 2 \in i - 1 .. Len(s)
    BY <1>0
  <2>2. PICK n \in Nat : n = i + 2 - i + 1 /\ n = 3
    OBVIOUS
  <2>3. t \in Seq(X) /\ Len(t) = n /\ \A j \in 1 .. n : t[j] = s[i + j - 1]
    BY <2>1, <2>2, SubSeqProperties
  <2>4. i + 1 - 1 = i /\ i + 2 - 1 = i + 1 /\ i + 3 - 1 = i + 2
    OBVIOUS
  <2> HIDE DEF t
  <2>5. 1 \in 1 .. n /\ 2 \in 1 .. n /\ 3 \in 1 .. n
    BY <2>2
  <2> QED
    BY <2>2, <2>3, <2>4, <2>5
<1>2. Len(q) = 3 /\ q[1] = "quote" /\ q[2] = key /\ q[3] = "quote"
  OBVIOUS
<1> HIDE DEF t, q
<1>3. i + 2 <= Len(s)
  BY <1>0
<1>4. ASSUME t = q PROVE KeyStands(s, key, i)
  BY <1>1, <1>2, <1>3, <1>4 DEF KeyStands
<1>5. ASSUME KeyStands(s, key, i) PROVE t = q
  <2>1. t[1] = "quote" /\ t[2] = key /\ t[3] = "quote"
    BY <1>1, <1>5 DEF KeyStands
  <2>2. t = <<t[1], t[2], t[3]>>
    BY <1>1
  <2> QED
    BY <2>1, <2>2 DEF q
<1> QED
  BY <1>4, <1>5, QuotedWord DEF t, q

KeyPlaces(s, key) == {i \in 1 .. Len(s) - 2 : SubSeq(s, i, i + 2) = Quoted(<<key>>)}

LEMMA KeyPlacesAre ==
  ASSUME NEW X, NEW s \in Seq(X), NEW key
  PROVE  /\ \A i : i \in KeyPlaces(s, key) <=> i \in Nat \ {0} /\ KeyStands(s, key, i)
         /\ KeyPlaces(s, key) \subseteq Nat \ {0}
<1>0. Len(s) \in Nat
  BY LenProperties
<1>1. \A i \in 1 .. Len(s) - 2 : i \in KeyPlaces(s, key) <=> KeyStands(s, key, i)
  BY KeySubSeq DEF KeyPlaces
<1>2. \A i \in Nat \ {0} : KeyStands(s, key, i) => i \in 1 .. Len(s) - 2
  BY <1>0 DEF KeyStands
<1>3. \A i \in 1 .. Len(s) - 2 : i \in Nat \ {0}
  BY <1>0
<1>4. KeyPlaces(s, key) \subseteq 1 .. Len(s) - 2
  BY DEF KeyPlaces
<1> QED
  BY <1>1, <1>2, <1>3, <1>4

LEMMA KeyAtFacts ==
  ASSUME NEW X, NEW s \in Seq(X), NEW key
  PROVE  /\ KeyAt(s, key) \in Nat
         /\ KeyAt(s, key) = 0 <=> NoKeyIn(s, key)
<1>1. KeyAt(s, key) = First(KeyPlaces(s, key))
  BY DEF KeyAt, KeyPlaces
<1>2. /\ First(KeyPlaces(s, key)) \in Nat
      /\ First(KeyPlaces(s, key)) = 0 <=> KeyPlaces(s, key) = {}
  BY KeyPlacesAre, FirstFacts
<1>3. KeyPlaces(s, key) = {} <=> NoKeyIn(s, key)
  BY KeyPlacesAre DEF NoKeyIn
<1> QED
  BY <1>1, <1>2, <1>3

LEMMA KeyAtIs ==
  ASSUME NEW X, NEW s \in Seq(X), NEW key, NEW m \in Nat \ {0}, KeyStands(s, key, m),
         \A i \in Nat \ {0} : KeyStands(s, key, i) => m <= i
  PROVE  KeyAt(s, key) = m
<1>1. KeyAt(s, key) = First(KeyPlaces(s, key))
  BY DEF KeyAt, KeyPlaces
<1>2. m \in KeyPlaces(s, key) /\ \A i \in KeyPlaces(s, key) : m <= i
  BY KeyPlacesAre
<1> QED
  BY <1>1, <1>2, KeyPlacesAre, FirstIs

-----------------------------------------------------------------------------
(* kv and kv_int.                                                          *)

LEMMA SeqWiden ==
  ASSUME NEW X, NEW Y, X \subseteq Y, NEW s \in Seq(X)
  PROVE  s \in Seq(Y)
<1>1. \A i \in 1 .. Len(s) : s[i] \in Y
  BY ElementOfSeq
<1>2. Len(s) \in Nat /\ s = [i \in 1 .. Len(s) |-> s[i]]
  BY LenProperties
<1>3. s \in [1 .. Len(s) -> Y]
  BY <1>1, <1>2
<1> QED
  BY <1>2, <1>3

LEMMA QuotedKey ==
  ASSUME NEW X, "quote" \in X, NEW key \in X
  PROVE  /\ Quoted(<<key>>) \in Seq(X) /\ Len(Quoted(<<key>>)) = 3
         /\ Quoted(<<key>>)[1] = "quote" /\ Quoted(<<key>>)[2] = key
         /\ Quoted(<<key>>)[3] = "quote"
<1> DEFINE q == <<"quote", key, "quote">>
<1>1. q \in Seq(X) /\ Len(q) = 3 /\ q[1] = "quote" /\ q[2] = key /\ q[3] = "quote"
  BY ShortSeq
<1>2. Quoted(<<key>>) = q
  BY QuotedWord
<1> HIDE DEF q
<1> QED
  BY <1>1, <1>2

\* What is quoted, then a symbol, then a sequence.
LEMMA FieldParts ==
  ASSUME NEW X, NEW w \in Seq(X), NEW d \in Seq(X), NEW b \in Seq(X),
         Len(w) = 3, Len(d) = 1
  PROVE  /\ Cat(Cat(w, d), b) \in Seq(X) /\ Len(Cat(Cat(w, d), b)) = Len(b) + 4
         /\ Cat(Cat(w, d), b)[1] = w[1] /\ Cat(Cat(w, d), b)[2] = w[2]
         /\ Cat(Cat(w, d), b)[3] = w[3] /\ Cat(Cat(w, d), b)[4] = d[1]
         /\ At(Cat(Cat(w, d), b), 4, b)
<1> DEFINE a == Cat(w, d)
           f == Cat(a, b)
<1>4. CatFacts(X) /\ Len(b) \in Nat
  BY CatSeq, LenProperties
<1>5. a \in Seq(X) /\ Len(a) = 4 /\ At(a, 0, w) /\ At(a, 3, d)
  <2>1. a \in Seq(X) /\ Len(a) = Len(w) + Len(d) /\ At(a, 0, w) /\ At(a, Len(w), d)
    BY <1>4 DEF CatFacts
  <2> QED
    BY <2>1
<1> HIDE DEF a
<1>6. f \in Seq(X) /\ Len(f) = Len(b) + 4 /\ At(f, 0, a) /\ At(f, 4, b)
  <2>1. f \in Seq(X) /\ Len(f) = Len(a) + Len(b) /\ At(f, 0, a) /\ At(f, Len(a), b)
    BY <1>4, <1>5 DEF CatFacts
  <2> QED
    BY <1>4, <1>5, <2>1
<1> HIDE DEF f
<1>7. a[1] = w[1] /\ a[2] = w[2] /\ a[3] = w[3] /\ a[4] = d[1]
  BY <1>5 DEF At
<1>8. f[1] = w[1] /\ f[2] = w[2] /\ f[3] = w[3] /\ f[4] = d[1]
  BY <1>5, <1>6, <1>7 DEF At
<1> QED
  BY <1>6, <1>8 DEF f, a

\* The parts of a string field and of an integer field.
IsKv(f, key, v) ==
  /\ Len(Escape(v)) \in Nat /\ Len(f) = Len(Escape(v)) + 6
  /\ f[1] = "quote" /\ f[2] = key /\ f[3] = "quote"
  /\ f[4] = ":" /\ f[5] = "quote" /\ f[Len(Escape(v)) + 6] = "quote"
  /\ At(f, 5, Escape(v))
  /\ At(f, 4, Quoted(Escape(v))) /\ Len(Quoted(Escape(v))) = Len(Escape(v)) + 2

IsKvInt(f, key, n) ==
  /\ Len(f) = 5
  /\ f[1] = "quote" /\ f[2] = key /\ f[3] = "quote" /\ f[4] = ":" /\ f[5] = Numeral(n)

LEMMA KvParts ==
  ASSUME NEW X, Symbol \subseteq X, NEW key \in X, NEW v \in Seq(Symbol)
  PROVE  /\ Escape(v) \in Seq(X) /\ Kv(key, v) \in Seq(X)
         /\ IsKv(Kv(key, v), key, v)
<1> DEFINE e == Escape(v)
           q == Quoted(e)
           f == Kv(key, v)
           w == Quoted(<<key>>)
           d == <<":">>
<1>0. "quote" \in X /\ ":" \in X
  BY SymbolFacts
<1>1. e \in Seq(Symbol)
  BY EscapePrefixes
<1>2. e \in Seq(X)
  BY <1>1, SeqWiden
<1>3. Len(e) \in Nat
  BY <1>1, LenProperties
<1>d. f = Cat(Cat(w, d), q)
  BY DEF Kv, Cat
<1>w. w \in Seq(X) /\ Len(w) = 3 /\ w[1] = "quote" /\ w[2] = key /\ w[3] = "quote"
  BY <1>0, QuotedKey
<1>c. d \in Seq(X) /\ Len(d) = 1 /\ d[1] = ":"
  BY <1>0, ShortSeq
<1> HIDE DEF e
<1>4. /\ q \in Seq(X) /\ Len(q) = Len(e) + 2 /\ q[1] = "quote" /\ q[Len(e) + 2] = "quote"
      /\ At(q, 1, e)
  BY <1>0, <1>2, QuotedParts
<1> HIDE DEF q, f, w, d
<1>5. /\ f \in Seq(X) /\ Len(f) = Len(q) + 4
      /\ f[1] = "quote" /\ f[2] = key /\ f[3] = "quote" /\ f[4] = ":"
      /\ At(f, 4, q)
  <2>1. /\ w \in Seq(X) /\ d \in Seq(X) /\ q \in Seq(X) /\ Len(w) = 3 /\ Len(d) = 1
        /\ w[1] = "quote" /\ w[2] = key /\ w[3] = "quote" /\ d[1] = ":"
    BY <1>4, <1>w, <1>c
  <2>2. /\ Cat(Cat(w, d), q) \in Seq(X) /\ Len(Cat(Cat(w, d), q)) = Len(q) + 4
        /\ Cat(Cat(w, d), q)[1] = w[1] /\ Cat(Cat(w, d), q)[2] = w[2]
        /\ Cat(Cat(w, d), q)[3] = w[3] /\ Cat(Cat(w, d), q)[4] = d[1]
        /\ At(Cat(Cat(w, d), q), 4, q)
    BY <2>1, FieldParts
  <2> QED
    BY <2>1, <2>2, <1>d
<1>6. At(f, 4 + 1, e)
  BY <1>2, <1>4, <1>5, AtTransitive
<1>7. f[5] = "quote" /\ f[Len(e) + 6] = "quote"
  <2>1. 1 \in 1 .. Len(q) /\ Len(e) + 2 \in 1 .. Len(q) /\ 4 + (Len(e) + 2) = Len(e) + 6
    BY <1>3, <1>4
  <2>2. f[4 + 1] = q[1] /\ f[4 + (Len(e) + 2)] = q[Len(e) + 2]
    BY <1>5, <2>1 DEF At
  <2> QED
    BY <1>4, <2>1, <2>2
<1>8. Len(f) = Len(e) + 6
  BY <1>3, <1>4, <1>5
<1> QED
  BY <1>2, <1>3, <1>4, <1>5, <1>6, <1>7, <1>8 DEF IsKv, e, q, f

LEMMA KvIntParts ==
  ASSUME NEW X, Symbol \subseteq X, NEW key \in X, NEW n, Numeral(n) \in X
  PROVE  KvInt(key, n) \in Seq(X) /\ IsKvInt(KvInt(key, n), key, n)
<1> DEFINE w == Quoted(<<key>>)
           d == <<":", Numeral(n)>>
           f == Cat(w, d)
<1>0. "quote" \in X /\ ":" \in X
  BY SymbolFacts
<1>1. w \in Seq(X) /\ Len(w) = 3 /\ w[1] = "quote" /\ w[2] = key /\ w[3] = "quote"
  BY <1>0, QuotedKey
<1>2. d \in Seq(X) /\ Len(d) = 2 /\ d[1] = ":" /\ d[2] = Numeral(n)
  BY <1>0, ShortSeq
<1>3. f = KvInt(key, n)
  BY DEF KvInt, Cat
<1> HIDE DEF w, d
<1>4. f \in Seq(X) /\ Len(f) = 5 /\ At(f, 0, w) /\ At(f, 3, d)
  <2>1. CatFacts(X)
    BY CatSeq
  <2>2. f \in Seq(X) /\ Len(f) = Len(w) + Len(d) /\ At(f, 0, w) /\ At(f, Len(w), d)
    BY <1>1, <1>2, <2>1 DEF CatFacts
  <2> QED
    BY <1>1, <1>2, <2>2
<1> HIDE DEF f
<1>5. f[1] = "quote" /\ f[2] = key /\ f[3] = "quote" /\ f[4] = ":" /\ f[5] = Numeral(n)
  BY <1>1, <1>2, <1>4 DEF At
<1> QED
  BY <1>3, <1>4, <1>5 DEF IsKvInt

OtherKey(key, k) == key # k /\ key # ":"

\* A field holds another key only if its string does.
LEMMA KvNoKey ==
  ASSUME NEW X, Symbol \subseteq X, NEW k \in X, NEW v \in Seq(Symbol),
         NEW key, OtherKey(key, k), NoKeyIn(Quoted(Escape(v)), key)
  PROVE  NoKeyIn(Kv(k, v), key)
<1> DEFINE f == Kv(k, v)
           q == Quoted(Escape(v))
<1>1. /\ Len(f) = Len(Escape(v)) + 6
      /\ f[1] = "quote" /\ f[2] = k /\ f[3] = "quote" /\ f[4] = ":"
      /\ At(f, 4, q)
      /\ Len(q) = Len(Escape(v)) + 2 /\ Len(Escape(v)) \in Nat
  <2>1. IsKv(f, k, v)
    BY KvParts
  <2> HIDE DEF f
  <2> QED
    BY <2>1 DEF IsKv
<1>3. NoKeyIn(q, key)
  OBVIOUS
<1> HIDE DEF f, q
<1>4. SUFFICES ASSUME NEW i \in Nat \ {0}, KeyStands(f, key, i) PROVE FALSE
  BY DEF NoKeyIn, f
<1>5. CASE i \in 1 .. 4
  <2>1. i = 1 \/ i = 2 \/ i = 3 \/ i = 4
    BY <1>5
  <2> QED
    BY <1>1, <1>4, <2>1 DEF KeyStands, OtherKey
<1>6. CASE i \notin 1 .. 4
  <2>1. PICK j \in Nat \ {0} : i = 4 + j
    <3>1. i - 4 \in Nat \ {0} /\ i = 4 + (i - 4)
      BY <1>6
    <3> QED
      BY <3>1
  <2>2. j + 2 <= Len(q)
    BY <1>1, <1>4, <2>1 DEF KeyStands
  <2>3. j \in 1 .. Len(q) /\ j + 1 \in 1 .. Len(q) /\ j + 2 \in 1 .. Len(q)
    BY <1>1, <2>2
  <2>4. f[4 + j] = q[j] /\ f[4 + (j + 1)] = q[j + 1] /\ f[4 + (j + 2)] = q[j + 2]
    BY <1>1, <2>3 DEF At
  <2>5. i + 1 = 4 + (j + 1) /\ i + 2 = 4 + (j + 2)
    BY <2>1
  <2>6. KeyStands(q, key, j)
    BY <1>4, <2>1, <2>2, <2>4, <2>5 DEF KeyStands
  <2> QED
    BY <1>3, <2>6 DEF NoKeyIn
<1> QED
  BY <1>5, <1>6

LEMMA KvIntNoKey ==
  ASSUME NEW X, Symbol \subseteq X, NEW k \in X, NEW n, Numeral(n) \in X,
         NEW key, OtherKey(key, k)
  PROVE  NoKeyIn(KvInt(k, n), key)
<1> DEFINE f == KvInt(k, n)
<1>1. /\ Len(f) = 5 /\ f[1] = "quote" /\ f[2] = k /\ f[3] = "quote" /\ f[4] = ":"
  BY KvIntParts DEF IsKvInt
<1> HIDE DEF f
<1>2. SUFFICES ASSUME NEW i \in Nat \ {0}, KeyStands(f, key, i) PROVE FALSE
  BY DEF NoKeyIn, f
<1>3. i = 1 \/ i = 2 \/ i = 3
  BY <1>1, <1>2 DEF KeyStands
<1> QED
  BY <1>1, <1>2, <1>3 DEF KeyStands, OtherKey

\* Two sequences with a symbol between them that is no part of the quoted key.
LEMMA JoinNoKey ==
  ASSUME NEW X, NEW w \in Seq(X), NEW a \in Seq(X), NEW b \in Seq(X), NEW key,
         At(w, 0, a), At(w, Len(a) + 1, b), Len(w) = Len(a) + 1 + Len(b),
         w[Len(a) + 1] \notin {"quote", key}, NoKeyIn(a, key), NoKeyIn(b, key)
  PROVE  NoKeyIn(w, key)
<1>0. Len(a) \in Nat /\ Len(b) \in Nat
  BY LenProperties
<1>1. SUFFICES ASSUME NEW i \in Nat \ {0}, KeyStands(w, key, i) PROVE FALSE
  BY DEF NoKeyIn
<1>2. CASE i + 2 <= Len(a)
  <2>1. i \in 1 .. Len(a) /\ i + 1 \in 1 .. Len(a) /\ i + 2 \in 1 .. Len(a)
    BY <1>0, <1>2
  <2>2. 0 + i = i /\ 0 + (i + 1) = i + 1 /\ 0 + (i + 2) = i + 2
    OBVIOUS
  <2>3. w[i] = a[i] /\ w[i + 1] = a[i + 1] /\ w[i + 2] = a[i + 2]
    BY <2>1, <2>2 DEF At
  <2>4. KeyStands(a, key, i)
    BY <1>1, <1>2, <2>3 DEF KeyStands
  <2> QED
    BY <2>4 DEF NoKeyIn
<1>3. CASE Len(a) + 1 < i
  <2>1. PICK j \in Nat \ {0} : i = Len(a) + 1 + j
    <3>1. i - (Len(a) + 1) \in Nat \ {0} /\ i = Len(a) + 1 + (i - (Len(a) + 1))
      BY <1>0, <1>3
    <3> QED
      BY <3>1
  <2>2. j + 2 <= Len(b)
    BY <1>0, <1>1, <2>1 DEF KeyStands
  <2>3. j \in 1 .. Len(b) /\ j + 1 \in 1 .. Len(b) /\ j + 2 \in 1 .. Len(b)
    BY <1>0, <2>2
  <2>4. /\ w[Len(a) + 1 + j] = b[j] /\ w[Len(a) + 1 + (j + 1)] = b[j + 1]
        /\ w[Len(a) + 1 + (j + 2)] = b[j + 2]
    BY <2>3 DEF At
  <2>5. i + 1 = Len(a) + 1 + (j + 1) /\ i + 2 = Len(a) + 1 + (j + 2)
    BY <1>0, <2>1
  <2>6. KeyStands(b, key, j)
    BY <1>1, <2>1, <2>2, <2>4, <2>5 DEF KeyStands
  <2> QED
    BY <2>6 DEF NoKeyIn
<1>4. CASE ~(i + 2 <= Len(a)) /\ ~(Len(a) + 1 < i)
  <2>1. Len(a) + 1 = i \/ Len(a) + 1 = i + 1 \/ Len(a) + 1 = i + 2
    BY <1>0, <1>4
  <2> QED
    BY <1>1, <2>1 DEF KeyStands
<1> QED
  BY <1>2, <1>3, <1>4

-----------------------------------------------------------------------------
(* obj.                                                                    *)

LEMMA FunctionSeq ==
  ASSUME NEW S, NEW n \in Nat, NEW f \in [1 .. n -> S]
  PROVE  f \in Seq(S) /\ Len(f) = n
OBVIOUS

\* What stands before each field, and each field with it.
Mark(i) == IF i = 1 THEN "{" ELSE ","
Marked(fields) == [i \in DOMAIN fields |-> Cat(<<Mark(i)>>, fields[i])]

\* What obj joins.
Listed(fields) ==
  [i \in DOMAIN fields |-> IF i = 1 THEN fields[i] ELSE Cat(<<",">>, fields[i])]

LEMMA MarkedFields ==
  ASSUME NEW X, Symbol \subseteq X, NEW fields \in Seq(Seq(X))
  PROVE  /\ Len(fields) \in Nat
         /\ Marked(fields) \in Seq(Seq(X)) /\ Len(Marked(fields)) = Len(fields)
         /\ Listed(fields) \in Seq(Seq(X)) /\ Len(Listed(fields)) = Len(fields)
         /\ \A i \in 1 .. Len(fields) :
              /\ fields[i] \in Seq(X)
              /\ Marked(fields)[i] = Cat(<<Mark(i)>>, fields[i])
              /\ Listed(fields)[i] = IF i = 1 THEN fields[i] ELSE Cat(<<",">>, fields[i])
              /\ <<Mark(i)>> \in Seq(X) /\ Len(<<Mark(i)>>) = 1 /\ <<Mark(i)>>[1] = Mark(i)
<1>0. Len(fields) \in Nat /\ DOMAIN fields = 1 .. Len(fields)
  BY LenProperties
<1>1. \A i \in 1 .. Len(fields) : fields[i] \in Seq(X)
  BY ElementOfSeq
<1>2. \A i \in 1 .. Len(fields) :
        <<Mark(i)>> \in Seq(X) /\ Len(<<Mark(i)>>) = 1 /\ <<Mark(i)>>[1] = Mark(i)
  <2>1. \A i : Mark(i) \in X
    BY SymbolFacts DEF Mark
  <2> QED
    BY <2>1, ShortSeq
<1>c. CatFacts(X)
  BY CatSeq
<1>3. \A i \in 1 .. Len(fields) : Cat(<<Mark(i)>>, fields[i]) \in Seq(X)
  BY <1>1, <1>2, <1>c DEF CatFacts
<1>4. \A i \in 1 .. Len(fields) : i # 1 => Cat(<<",">>, fields[i]) \in Seq(X)
  <2>1. \A i : i # 1 => Mark(i) = ","
    BY DEF Mark
  <2> QED
    BY <1>3, <2>1
<1>5. Marked(fields) \in [1 .. Len(fields) -> Seq(X)]
  BY <1>0, <1>3 DEF Marked
<1>6. Listed(fields) \in [1 .. Len(fields) -> Seq(X)]
  BY <1>0, <1>1, <1>4 DEF Listed
<1>7. /\ Marked(fields) \in Seq(Seq(X)) /\ Len(Marked(fields)) = Len(fields)
      /\ Listed(fields) \in Seq(Seq(X)) /\ Len(Listed(fields)) = Len(fields)
  BY <1>0, <1>5, <1>6, FunctionSeq
<1>8. \A i \in 1 .. Len(fields) :
        /\ Marked(fields)[i] = Cat(<<Mark(i)>>, fields[i])
        /\ Listed(fields)[i] = IF i = 1 THEN fields[i] ELSE Cat(<<",">>, fields[i])
  BY <1>0, Zenon DEF Marked, Listed
<1> QED
  BY <1>0, <1>1, <1>2, <1>7, <1>8

LEMMA ObjIsMarked ==
  ASSUME NEW X, Symbol \subseteq X, NEW fields \in Seq(Seq(X)), Len(fields) # 0
  PROVE  Obj(fields) = Cat(FlattenSeq(Marked(fields)), <<"}">>)
<1> DEFINE n == Len(fields)
           b == <<"{">>
           L == Listed(fields)
           M == Marked(fields)
<1>0. n \in Nat /\ n # 0
  BY MarkedFields
<1>1. /\ M \in Seq(Seq(X)) /\ Len(M) = n /\ L \in Seq(Seq(X)) /\ Len(L) = n
      /\ \A i \in 1 .. n : /\ fields[i] \in Seq(X) /\ M[i] = Cat(<<Mark(i)>>, fields[i])
                           /\ i # 1 => L[i] = Cat(<<",">>, fields[i])
      /\ L[1] = fields[1]
  <2>1. M \in Seq(Seq(X)) /\ Len(M) = n /\ L \in Seq(Seq(X)) /\ Len(L) = n
    BY MarkedFields
  <2>2. ASSUME NEW i \in 1 .. n
        PROVE  /\ fields[i] \in Seq(X) /\ M[i] = Cat(<<Mark(i)>>, fields[i])
               /\ L[i] = IF i = 1 THEN fields[i] ELSE Cat(<<",">>, fields[i])
    BY MarkedFields
  <2>3. 1 \in 1 .. n
    BY <1>0
  <2> HIDE DEF M, L, n
  <2>4. L[1] = fields[1]
    BY <2>2, <2>3
  <2>5. \A i \in 1 .. n : i # 1 => L[i] = Cat(<<",">>, fields[i])
    BY <2>2
  <2> QED
    BY <2>1, <2>2, <2>4, <2>5
<1>2. Obj(fields) = Cat(Cat(b, FlattenSeq(L)), <<"}">>)
  BY Zenon DEF Obj, Listed, Cat
<1>b. b \in Seq(X)
  BY SymbolFacts, ShortSeq
<1>m. <<Mark(1)>> = b /\ \A i : i # 1 => <<Mark(i)>> = <<",">>
  BY DEF Mark
<1>c. CatFacts(X)
  BY CatSeq
<1> HIDE DEF L, M, b
<1>3. PICK F : IsPrefixes(F, n, L, X)
  BY <1>1, PrefixesExist
<1> DEFINE H == [i \in 0 .. n |-> IF i = 0 THEN <<>> ELSE Cat(b, F[i])]
<1> HIDE DEF n
<1>4. \A i \in 0 .. n : F[i] \in Seq(X)
  BY <1>3 DEF IsPrefixes
<1>5. H \in [0 .. n -> Seq(X)] /\ H[0] = <<>> /\ \A i \in 1 .. n : H[i] = Cat(b, F[i])
  <2>1. \A i \in 0 .. n : Cat(b, F[i]) \in Seq(X)
    BY <1>4, <1>b, <1>c DEF CatFacts
  <2>2. <<>> \in Seq(X)
    BY EmptySeq
  <2> QED
    BY <1>0, <2>1, <2>2
<1> HIDE DEF H
<1>6. ASSUME NEW i \in 1 .. n PROVE H[i] = Cat(H[i - 1], M[i])
  <2>1. F[i] = Cat(F[i - 1], L[i]) /\ F[i] \in Seq(X) /\ F[i - 1] \in Seq(X) /\ F[0] = <<>>
    <3>1. i \in 0 .. n /\ i - 1 \in 0 .. n
      BY <1>0
    <3> QED
      BY <1>3, <1>4, <3>1 DEF IsPrefixes
  <2>2. CASE i = 1
    <3>1. i - 1 = 0
      BY <2>2
    <3>2. L[1] \in Seq(X) /\ F[1] = L[1]
      <4>1. L[1] \in Seq(X)
        BY <1>1, <2>2
      <4>2. F[1] = Cat(<<>>, L[1])
        BY <2>1, <2>2, <3>1
      <4> QED
        BY <4>1, <4>2, CatEmpty
    <3>3. M[1] = Cat(b, fields[1]) /\ L[1] = fields[1]
      BY <1>1, <1>m, <2>2
    <3>4. M[1] \in Seq(X)
      BY <1>b, <1>c, <3>2, <3>3 DEF CatFacts
    <3>5. Cat(<<>>, M[1]) = M[1]
      BY <3>4, CatEmpty
    <3> QED
      BY <1>5, <2>2, <3>1, <3>2, <3>3, <3>5
  <2>3. CASE i # 1
    <3>1. i - 1 \in 1 .. n
      BY <1>0, <2>3
    <3>2. H[i - 1] = Cat(b, F[i - 1]) /\ H[i] = Cat(b, F[i])
      BY <1>5, <3>1
    <3>3. M[i] = L[i]
      BY <1>1, <1>m, <2>3
    <3>4. L[i] \in Seq(X)
      BY <1>1, ElementOfSeq
    <3>5. Cat(b, Cat(F[i - 1], L[i])) = Cat(Cat(b, F[i - 1]), L[i])
      BY <1>b, <2>1, <3>4, CatAssoc
    <3> QED
      BY <2>1, <3>2, <3>3, <3>5
  <2> QED
    BY <2>2, <2>3
<1>7. IsPrefixes(H, n, M, X)
  BY <1>5, <1>6 DEF IsPrefixes
<1>8. FlattenSeq(M) = H[n]
  BY <1>1, <1>7, FlattenIsLast
<1>9. FlattenSeq(L) = F[n]
  BY <1>1, <1>3, FlattenIsLast
<1>10. H[n] = Cat(b, F[n])
  BY <1>0, <1>5
<1> QED
  BY <1>2, <1>8, <1>9, <1>10 DEF M

\* The i-th field f stands in w, with its mark, after the sequence h.
FieldAt(w, h, i, f) ==
  /\ At(w, 0, h) /\ w[Len(h) + 1] = Mark(i) /\ At(w, Len(h) + 1, f)

\* The text w of an object: H[i] is what it begins with up to the i-th field.
IsObj(w, H, fields, X) ==
  /\ w \in Seq(X) /\ H \in [0 .. Len(fields) -> Seq(X)] /\ H[0] = <<>>
  /\ \A i \in 1 .. Len(fields) :
       /\ FieldAt(w, H[i - 1], i, fields[i])
       /\ FieldAt(H[i], H[i - 1], i, fields[i])
       /\ Len(H[i]) = Len(H[i - 1]) + 1 + Len(fields[i])
       /\ Len(H[i - 1]) + 1 + Len(fields[i]) < Len(w)
  /\ At(w, 0, H[Len(fields)]) /\ w[Len(H[Len(fields)]) + 1] = "}"
  /\ Len(w) = Len(H[Len(fields)]) + 1

\* A sequence, a symbol and a sequence.
LEMMA AfterMark ==
  ASSUME NEW X, NEW h \in Seq(X), NEW m \in Seq(X), Len(m) = 1, NEW f \in Seq(X)
  PROVE  /\ Len(Cat(h, Cat(m, f))) = Len(h) + 1 + Len(f)
         /\ At(Cat(h, Cat(m, f)), 0, h)
         /\ Cat(h, Cat(m, f))[Len(h) + 1] = m[1]
         /\ At(Cat(h, Cat(m, f)), Len(h) + 1, f)
<1> DEFINE g == Cat(m, f)
           w == Cat(h, g)
<1>0. CatFacts(X) /\ Len(h) \in Nat /\ Len(f) \in Nat
  BY CatSeq, LenProperties
<1>1. g \in Seq(X) /\ Len(g) = Len(m) + Len(f) /\ At(g, 0, m) /\ At(g, Len(m), f)
  BY <1>0 DEF CatFacts
<1>2. Len(g) = 1 + Len(f) /\ At(g, 1, f) /\ g[1] = m[1]
  BY <1>0, <1>1 DEF At
<1> HIDE DEF g
<1>3. w \in Seq(X) /\ Len(w) = Len(h) + Len(g) /\ At(w, 0, h) /\ At(w, Len(h), g)
  BY <1>0, <1>1 DEF CatFacts
<1> HIDE DEF w
<1>4. w[Len(h) + 1] = g[1]
  BY <1>0, <1>2, <1>3 DEF At
<1>5. At(w, Len(h) + 1, f)
  BY <1>0, <1>1, <1>2, <1>3, AtTransitive
<1>6. Len(w) = Len(h) + 1 + Len(f)
  BY <1>0, <1>2, <1>3
<1> QED
  BY <1>1, <1>2, <1>3, <1>4, <1>5, <1>6 DEF w, g

LEMMA ObjShape ==
  ASSUME NEW X, Symbol \subseteq X, NEW fields \in Seq(Seq(X)), Len(fields) # 0
  PROVE  \E H : IsObj(Obj(fields), H, fields, X)
<1> DEFINE n == Len(fields)
           M == Marked(fields)
           w == Obj(fields)
           e == <<"}">>
<1>0. n \in Nat /\ n # 0
  BY MarkedFields
<1>1. M \in Seq(Seq(X)) /\ Len(M) = n
  BY MarkedFields
<1>e. e \in Seq(X) /\ Len(e) = 1 /\ e[1] = "}"
  BY SymbolFacts, ShortSeq
<1>c. CatFacts(X)
  BY CatSeq
<1>2. PICK H : IsPrefixes(H, n, M, X)
  BY <1>1, PrefixesExist
<1>3. w = Cat(H[n], e)
  <2>1. FlattenSeq(M) = H[n]
    BY <1>1, <1>2, FlattenIsLast
  <2>2. w = Cat(FlattenSeq(M), e)
    BY ObjIsMarked
  <2> QED
    BY <2>1, <2>2
<1>m. ASSUME NEW i \in 1 .. n
      PROVE  /\ fields[i] \in Seq(X) /\ M[i] = Cat(<<Mark(i)>>, fields[i])
             /\ <<Mark(i)>> \in Seq(X) /\ Len(<<Mark(i)>>) = 1 /\ <<Mark(i)>>[1] = Mark(i)
  BY MarkedFields
<1> HIDE DEF n, M, w, e
<1>4. H \in [0 .. n -> Seq(X)] /\ H[0] = <<>> /\ H[n] \in Seq(X) /\ Len(H[n]) \in Nat
  BY <1>0, <1>2, LenProperties DEF IsPrefixes
<1>5. /\ w \in Seq(X) /\ Len(w) = Len(H[n]) + 1 /\ At(w, 0, H[n])
      /\ w[Len(H[n]) + 1] = "}"
  <2>1. /\ w \in Seq(X) /\ Len(w) = Len(H[n]) + Len(e) /\ At(w, 0, H[n])
        /\ At(w, Len(H[n]), e)
    BY <1>3, <1>4, <1>e, <1>c DEF CatFacts
  <2> QED
    <3>1. PICK l \in Nat : l = Len(H[n])
      BY <1>4
    <3>0. Len(e) = 1
      BY <1>e
    <3>a. Len(w) = Len(H[n]) + Len(e)
      BY <2>1
    <3>b. Len(w) = l + 1
      BY <3>0, <3>1, <3>a
    <3>2. Len(w) = l + 1 /\ 1 \in 1 .. Len(e)
      BY <3>0, <3>b
    <3>3. w[l + 1] = e[1]
      BY <2>1, <3>1, <3>2 DEF At
    <3> QED
      BY <1>e, <2>1, <3>1, <3>2, <3>3
<1>6. ASSUME NEW i \in 1 .. n
      PROVE  /\ FieldAt(w, H[i - 1], i, fields[i])
             /\ FieldAt(H[i], H[i - 1], i, fields[i])
             /\ Len(H[i]) = Len(H[i - 1]) + 1 + Len(fields[i])
             /\ Len(H[i - 1]) + 1 + Len(fields[i]) < Len(w)
  <2> DEFINE h == H[i - 1]
             f == fields[i]
             m == <<Mark(i)>>
             g == Cat(m, f)
  <2>1. h \in Seq(X) /\ H[i] \in Seq(X) /\ Len(h) \in Nat /\ Len(H[i]) \in Nat
    <3>1. i \in 0 .. n /\ i - 1 \in 0 .. n
      BY <1>0
    <3> QED
      BY <1>4, <3>1, LenProperties
  <2>2. f \in Seq(X) /\ m \in Seq(X) /\ Len(m) = 1 /\ m[1] = Mark(i) /\ M[i] = g
        /\ Len(f) \in Nat
    BY <1>m, LenProperties
  <2>3. H[i] = Cat(h, g)
    BY <1>2, <2>2 DEF IsPrefixes
  <2>4. At(w, 0, H[i])
    <3>1. At(H[n], 0, H[i])
      BY <1>1, <1>2, PrefixGrows
    <3>2. At(w, 0 + 0, H[i])
      BY <1>4, <1>5, <2>1, <3>1, AtTransitive
    <3> QED
      BY <3>2
  <2> HIDE DEF h, f, m
  <2>5. /\ Len(H[i]) = Len(h) + 1 + Len(f) /\ At(H[i], 0, h)
        /\ H[i][Len(h) + 1] = Mark(i) /\ At(H[i], Len(h) + 1, f)
    <3>1. /\ Len(Cat(h, Cat(m, f))) = Len(h) + 1 + Len(f)
          /\ At(Cat(h, Cat(m, f)), 0, h)
          /\ Cat(h, Cat(m, f))[Len(h) + 1] = m[1]
          /\ At(Cat(h, Cat(m, f)), Len(h) + 1, f)
      BY <2>1, <2>2, AfterMark
    <3> QED
      BY <3>1, <2>2, <2>3
  <2>6. FieldAt(H[i], h, i, f)
    BY <2>5 DEF FieldAt
  <2>7. FieldAt(w, h, i, f)
    <3>0. PICK l \in Nat : l = Len(h) + 1
      BY <2>1
    <3>1. At(w, 0 + 0, h)
      BY <1>5, <2>1, <2>4, <2>5, AtTransitive
    <3>4. At(w, 0 + l, f)
      BY <1>5, <2>1, <2>2, <2>4, <2>5, <3>0, AtTransitive
    <3>5. 0 + 0 = 0 /\ 0 + l = Len(h) + 1
      BY <3>0
    <3>2. Len(h) + 1 \in 1 .. Len(H[i]) /\ 0 + (Len(h) + 1) = Len(h) + 1
      BY <2>1, <2>2, <2>5
    <3>3. w[0 + (Len(h) + 1)] = H[i][Len(h) + 1]
      BY <2>4, <3>2 DEF At
    <3> QED
      BY <2>5, <3>1, <3>2, <3>3, <3>4, <3>5 DEF FieldAt
  <2>8. Len(H[i]) < Len(w)
    <3>1. Len(H[i]) <= Len(H[n])
      <4>1. At(H[n], 0, H[i])
        BY <1>1, <1>2, PrefixGrows
      <4> QED
        BY <2>1, <4>1 DEF At
    <3>2. PICK l \in Nat : l = Len(H[n]) /\ Len(w) = l + 1
      BY <1>4, <1>5
    <3> QED
      BY <2>1, <3>1, <3>2
  <2> QED
    BY <2>5, <2>6, <2>7, <2>8 DEF h, f
<1>7. IsObj(w, H, fields, X)
  BY <1>4, <1>5, <1>6 DEF IsObj, n
<1> QED
  BY <1>7 DEF w

-----------------------------------------------------------------------------
(* Keys in objects.                                                        *)

\* The keys of the program are words.
IsKey(key) == key \notin {"{", ",", "}", ":", "quote"}

LEMMA MarksAreNoKey ==
  ASSUME NEW key, IsKey(key)
  PROVE  /\ \A i : Mark(i) \notin {"quote", key}
         /\ "}" \notin {"quote", key}
BY DEF IsKey, Mark

\* The first fields that do not hold the key.
WithoutKey(H, n, key) == {k \in Nat : k <= n => NoKeyIn(H[k], key)}

LEMMA PrefixNoKey ==
  ASSUME NEW X, NEW fields \in Seq(Seq(X)), NEW w, NEW H, IsObj(w, H, fields, X),
         NEW key, IsKey(key), NEW n \in 0 .. Len(fields),
         \A j \in 1 .. n : NoKeyIn(fields[j], key)
  PROVE  NoKeyIn(H[n], key)
<1> DEFINE T == WithoutKey(H, n, key)
<1>0. Len(fields) \in Nat /\ n \in Nat
  BY LenProperties
<1>1. T \subseteq Nat
  BY DEF WithoutKey
<1>2. 0 \in T
  <2>1. H[0] = <<>>
    BY DEF IsObj
  <2>2. NoKeyIn(<<>>, key)
    <3>1. Len(<<>>) = 0
      BY ShortSeq
    <3>2. \A i \in Nat \ {0} : ~(i + 2 <= 0)
      OBVIOUS
    <3> QED
      BY <3>1, <3>2 DEF NoKeyIn, KeyStands
  <2> QED
    BY <2>1, <2>2 DEF WithoutKey
<1>3. ASSUME NEW k \in T PROVE k + 1 \in T
  <2>1. k \in Nat
    BY <1>1
  <2>2. ASSUME k + 1 <= n PROVE NoKeyIn(H[k + 1], key)
    <3>1. NoKeyIn(H[k], key)
      BY <1>0, <2>1, <2>2 DEF WithoutKey
    <3>2. PICK j \in 1 .. n : j = k + 1 /\ j - 1 = k
      BY <1>0, <2>1, <2>2
    <3>3. j \in 1 .. Len(fields) /\ j \in 0 .. Len(fields) /\ j - 1 \in 0 .. Len(fields)
      BY <1>0
    <3>4. H[j] \in Seq(X) /\ H[j - 1] \in Seq(X) /\ fields[j] \in Seq(X)
      BY <3>3, ElementOfSeq DEF IsObj
    <3>5. FieldAt(H[j], H[j - 1], j, fields[j])
          /\ Len(H[j]) = Len(H[j - 1]) + 1 + Len(fields[j])
      BY <3>3 DEF IsObj
    <3>6. /\ At(H[j], 0, H[j - 1]) /\ At(H[j], Len(H[j - 1]) + 1, fields[j])
          /\ H[j][Len(H[j - 1]) + 1] = Mark(j)
      BY <3>5 DEF FieldAt
    <3>7. H[j][Len(H[j - 1]) + 1] \notin {"quote", key}
      BY <3>6, MarksAreNoKey
    <3>8. NoKeyIn(fields[j], key) /\ NoKeyIn(H[j - 1], key)
      BY <3>1, <3>2
    <3>9. NoKeyIn(H[j], key)
      <4> DEFINE a == H[j - 1]
                 b == fields[j]
                 v == H[j]
      <4>1. /\ v \in Seq(X) /\ a \in Seq(X) /\ b \in Seq(X)
            /\ At(v, 0, a) /\ At(v, Len(a) + 1, b) /\ Len(v) = Len(a) + 1 + Len(b)
            /\ v[Len(a) + 1] \notin {"quote", key}
            /\ NoKeyIn(a, key) /\ NoKeyIn(b, key)
        BY <3>4, <3>5, <3>6, <3>7, <3>8
      <4> HIDE DEF a, b, v
      <4>2. NoKeyIn(v, key)
        BY <4>1, JoinNoKey
      <4> QED
        BY <4>2 DEF v
    <3> QED
      BY <3>2, <3>9
  <2> QED
    BY <2>1, <2>2 DEF WithoutKey
<1> HIDE DEF T
<1>4. n \in T
  BY <1>0, <1>1, <1>2, <1>3, Induction
<1> QED
  BY <1>0, <1>4 DEF T, WithoutKey

\* An object without the key.
LEMMA ObjNoKey ==
  ASSUME NEW X, NEW fields \in Seq(Seq(X)), NEW w, NEW H, IsObj(w, H, fields, X),
         NEW key, IsKey(key), \A j \in 1 .. Len(fields) : NoKeyIn(fields[j], key)
  PROVE  NoKeyIn(w, key)
<1> DEFINE n == Len(fields)
           h == H[n]
<1>0. n \in Nat /\ n \in 0 .. n
  BY LenProperties
<1>1. NoKeyIn(h, key)
  BY <1>0, PrefixNoKey
<1>2. /\ w \in Seq(X) /\ h \in Seq(X) /\ At(w, 0, h) /\ w[Len(h) + 1] = "}"
      /\ Len(w) = Len(h) + 1
  BY <1>0 DEF IsObj
<1> HIDE DEF n, h
<1>3. Len(h) \in Nat
  BY <1>2, LenProperties
<1>4. SUFFICES ASSUME NEW i \in Nat \ {0}, KeyStands(w, key, i) PROVE FALSE
  BY DEF NoKeyIn
<1>5. i + 2 <= Len(h) + 1
  BY <1>2, <1>4 DEF KeyStands
<1>6. w[Len(h) + 1] \notin {"quote", key}
  BY <1>2, MarksAreNoKey
<1>7. i + 2 # Len(h) + 1
  BY <1>4, <1>6 DEF KeyStands
<1>8. /\ i \in 1 .. Len(h) /\ i + 1 \in 1 .. Len(h) /\ i + 2 \in 1 .. Len(h)
      /\ 0 + i = i /\ 0 + (i + 1) = i + 1 /\ 0 + (i + 2) = i + 2
  BY <1>3, <1>5, <1>7
<1>9. w[i] = h[i] /\ w[i + 1] = h[i + 1] /\ w[i + 2] = h[i + 2]
  BY <1>2, <1>8 DEF At
<1>10. KeyStands(h, key, i)
  BY <1>4, <1>8, <1>9 DEF KeyStands
<1> QED
  BY <1>1, <1>10 DEF NoKeyIn

\* An object whose k-th field is the first with the key, and begins with it.
LEMMA ObjKeyAt ==
  ASSUME NEW X, NEW fields \in Seq(Seq(X)), NEW w, NEW H, IsObj(w, H, fields, X),
         NEW key, IsKey(key), NEW k \in 1 .. Len(fields), KeyStands(fields[k], key, 1),
         \A j \in 1 .. k - 1 : NoKeyIn(fields[j], key)
  PROVE  \E p \in Nat : /\ KeyAt(w, key) = p + 1
                        /\ At(w, p, fields[k]) /\ p + Len(fields[k]) < Len(w)
<1> DEFINE h == H[k - 1]
           f == fields[k]
<1>0. Len(fields) \in Nat /\ k - 1 \in 0 .. Len(fields)
  BY LenProperties
<1>1. NoKeyIn(h, key)
  BY <1>0, PrefixNoKey
<1>2. w \in Seq(X) /\ h \in Seq(X) /\ f \in Seq(X)
  BY <1>0, ElementOfSeq DEF IsObj
<1>3. FieldAt(w, h, k, f) /\ Len(h) + 1 + Len(f) < Len(w)
  BY DEF IsObj
<1>f. KeyStands(f, key, 1)
  OBVIOUS
<1> HIDE DEF h, f
<1>4. Len(h) \in Nat /\ Len(f) \in Nat /\ Len(w) \in Nat
  BY <1>2, LenProperties
<1>5. PICK p \in Nat : p = Len(h) + 1
  BY <1>4
<1>6. At(w, 0, h) /\ w[p] = Mark(k) /\ At(w, p, f)
  BY <1>3, <1>5 DEF FieldAt
<1>7. KeyStands(w, key, p + 1)
  <2>1. /\ 1 + 2 <= Len(f) /\ 1 \in 1 .. Len(f) /\ 1 + 1 \in 1 .. Len(f)
        /\ 1 + 2 \in 1 .. Len(f)
    BY <1>4, <1>f DEF KeyStands
  <2>2. w[p + 1] = f[1] /\ w[p + (1 + 1)] = f[1 + 1] /\ w[p + (1 + 2)] = f[1 + 2]
    BY <1>6, <2>1 DEF At
  <2>3. p + (1 + 1) = p + 1 + 1 /\ p + (1 + 2) = p + 1 + 2
    OBVIOUS
  <2>4. p + 1 + 2 <= Len(w)
    BY <1>3, <1>4, <1>5, <2>1
  <2> QED
    BY <1>f, <2>2, <2>3, <2>4 DEF KeyStands
<1>8. ASSUME NEW i \in Nat \ {0}, KeyStands(w, key, i) PROVE p + 1 <= i
  <2>1. SUFFICES ASSUME i <= p PROVE FALSE
    OBVIOUS
  <2>2. w[p] \notin {"quote", key}
    BY <1>6, MarksAreNoKey
  <2>3. i # p /\ i + 1 # p /\ i + 2 # p
    BY <1>8, <2>2 DEF KeyStands
  <2>4. /\ i \in 1 .. Len(h) /\ i + 1 \in 1 .. Len(h) /\ i + 2 \in 1 .. Len(h)
        /\ 0 + i = i /\ 0 + (i + 1) = i + 1 /\ 0 + (i + 2) = i + 2
    <3>1. PICK l \in Nat : l = Len(h) /\ p = l + 1
      BY <1>4, <1>5
    <3>2. i + 2 < p
      BY <2>1, <2>3
    <3>3. i \in 1 .. l /\ i + 1 \in 1 .. l /\ i + 2 \in 1 .. l
      BY <3>1, <3>2
    <3> QED
      BY <3>1, <3>3
  <2>5. w[i] = h[i] /\ w[i + 1] = h[i + 1] /\ w[i + 2] = h[i + 2]
    BY <1>6, <2>4 DEF At
  <2>6. KeyStands(h, key, i)
    BY <1>8, <2>4, <2>5 DEF KeyStands
  <2> QED
    BY <1>1, <2>6 DEF NoKeyIn
<1>9. KeyAt(w, key) = p + 1
  BY <1>2, <1>7, <1>8, KeyAtIs
<1>10. p + Len(f) < Len(w)
  BY <1>3, <1>5
<1> QED
  BY <1>6, <1>9, <1>10 DEF f

-----------------------------------------------------------------------------
(* get_str and get_int.                                                    *)

LEMMA ValueAtIs ==
  ASSUME NEW X, NEW body \in Seq(X), NEW key, NEW p \in Nat, KeyAt(body, key) = p + 1,
         p + 4 <= Len(body), body[p + 4] = ":"
  PROVE  ValueAt(body, key) = p + 5
<1> DEFINE S == {i \in (p + 1) + 3 .. Len(body) : body[i] = ":"}
<1>0. Len(body) \in Nat
  BY LenProperties
<1>1. p + 4 \in S /\ S \subseteq Nat \ {0} /\ \A i \in S : p + 4 <= i
  BY <1>0
<1>2. ValueAt(body, key) = IF p + 1 = 0 \/ First(S) = 0 THEN 0 ELSE First(S) + 1
  BY DEF ValueAt
<1> HIDE DEF S
<1>3. First(S) = p + 4
  BY <1>1, FirstIs
<1> QED
  BY <1>2, <1>3

\* Without the key, the defaults.
LEMMA GetNothing ==
  ASSUME NEW body, NEW key, NEW def, KeyAt(body, key) = 0
  PROVE  GetStr(body, key) = <<>> /\ GetInt(body, key, def) = def
<1>1. ValueAt(body, key) = 0
  BY DEF ValueAt
<1>2. GetStr(body, key) = <<>>
  BY <1>1, Zenon DEF GetStr
<1>3. GetInt(body, key, def) = def
  BY <1>1, Zenon DEF GetInt
<1> QED
  BY <1>2, <1>3

\* The part of a sequence that is known to stand there.
LEMMA SubSeqAt ==
  ASSUME NEW X, NEW b \in Seq(X), NEW p \in Nat, NEW t \in Seq(X), At(b, p, t)
  PROVE  SubSeq(b, p + 1, p + Len(t)) = t
<1> DEFINE s == SubSeq(b, p + 1, p + Len(t))
<1>0. Len(b) \in Nat /\ Len(t) \in Nat /\ p + Len(t) <= Len(b)
  BY LenProperties DEF At
<1>1. s \in Seq(X) /\ Len(s) = Len(t) /\ \A i \in 1 .. Len(t) : s[i] = b[p + i]
  <2>1. PICK l \in Nat : l = Len(t)
    BY <1>0
  <2>2. p + l <= Len(b)
    BY <1>0, <2>1
  <2>3. /\ SubSeq(b, p + 1, p + l) \in Seq(X) /\ Len(SubSeq(b, p + 1, p + l)) = l
        /\ \A i \in 1 .. l : SubSeq(b, p + 1, p + l)[i] = b[p + i]
    <3>1. CASE l = 0
      <4>1. SubSeq(b, p + 1, p + l) = <<>>
        BY <3>1, SubSeqEmpty
      <4> QED
        BY <3>1, <4>1, ShortSeq
    <3>2. CASE l # 0
      <4>1. p + 1 \in 1 .. Len(b) /\ p + l \in 1 .. Len(b)
        BY <1>0, <2>2, <3>2
      <4>2. \A i \in 1 .. l : p + 1 + i - 1 = p + i
        OBVIOUS
      <4> QED
        BY <1>0, <2>2, <3>2, <4>1, <4>2
    <3> QED
      BY <3>1, <3>2
  <2> QED
    BY <2>1, <2>3
<1> HIDE DEF s
<1>2. \A i \in 1 .. Len(s) : s[i] = t[i]
  BY <1>1 DEF At
<1>3. s = t
  BY <1>1, <1>2, SeqEqual
<1> QED
  BY <1>3 DEF s

\* A string field that is the first with its key is read back.
LEMMA GetStrReads ==
  ASSUME NEW X, Symbol \subseteq X, NEW body \in Seq(X), NEW key, NEW p \in Nat,
         KeyAt(body, key) = p + 1, NEW v \in Seq(Symbol), NEW f \in Seq(X),
         IsKv(f, key, v), At(body, p, f), p + Len(f) < Len(body)
  PROVE  GetStr(body, key) = v
<1> DEFINE e == Escape(v)
           S == {i \in p + 5 .. Len(body) : body[i] = "quote"}
<1>0. /\ Len(e) \in Nat /\ Len(f) = Len(e) + 6 /\ At(f, 5, e)
      /\ f[4] = ":" /\ f[5] = "quote" /\ f[Len(e) + 6] = "quote"
  BY DEF IsKv
<1>1. e \in Seq(X)
  <2>1. e \in Seq(Symbol)
    BY EscapePrefixes
  <2> QED
    BY <2>1, SeqWiden
<1>u. Unescape(e) = v
  BY UnescapeEscaped
<1>c. ASSUME NEW q \in Nat, At(body, q, e), q + Len(e) + 1 <= Len(body),
             body[q + Len(e) + 1] = "quote"
      PROVE  CloseOf(body, q + 1) = q + Len(e) + 1
  BY <1>c, CloseOfEscaped
<1> HIDE DEF e
<1>2. PICK l \in Nat : l = Len(e)
  BY <1>0
<1>3. Len(body) \in Nat /\ p + l + 6 < Len(body)
  BY <1>0, <1>2, LenProperties
<1>4. /\ body[p + 4] = ":" /\ body[p + 5] = "quote" /\ body[p + (l + 6)] = "quote"
  <2>1. 4 \in 1 .. Len(f) /\ 5 \in 1 .. Len(f) /\ l + 6 \in 1 .. Len(f)
    BY <1>0, <1>2
  <2> QED
    BY <1>0, <1>2, <2>1 DEF At
<1>5. ValueAt(body, key) = p + 5
  BY <1>3, <1>4, ValueAtIs
<1>6. First(S) = p + 5
  <2>1. p + 5 \in S /\ S \subseteq Nat \ {0} /\ \A i \in S : p + 5 <= i
    BY <1>3, <1>4
  <2> HIDE DEF S
  <2> QED
    BY <2>1, FirstIs
<1>7. At(body, p + 5, e)
  BY <1>0, <1>1, AtTransitive
<1>8. CloseOf(body, p + 6) = p + l + 6
  <2>1. PICK q \in Nat : q = p + 5
    OBVIOUS
  <2>2. q + l + 1 = p + l + 6 /\ q + 1 = p + 6 /\ p + (l + 6) = q + l + 1
    BY <2>1
  <2>3. q + l + 1 <= Len(body) /\ body[q + l + 1] = "quote" /\ At(body, q, e)
    BY <1>3, <1>4, <1>7, <2>1, <2>2
  <2>4. CloseOf(body, q + 1) = q + l + 1
    BY <1>2, <1>c, <2>3
  <2> QED
    BY <2>2, <2>4
<1>9. SubSeq(body, p + 6, p + l + 5) = e
  <2>1. PICK q \in Nat : q = p + 5
    OBVIOUS
  <2>2. SubSeq(body, q + 1, q + Len(e)) = e
    BY <1>1, <1>7, <2>1, SubSeqAt
  <2>3. q + 1 = p + 6 /\ q + l = p + l + 5
    BY <2>1
  <2> QED
    BY <1>2, <2>2, <2>3
<1>10. /\ p + 5 # 0 /\ p + l + 6 # 0 /\ p + 5 + 1 = p + 6 /\ p + l + 6 - 1 = p + l + 5
  OBVIOUS
<1>11. GetStr(body, key)
         = IF ValueAt(body, key) = 0 \/ First(S) = 0 \/ CloseOf(body, First(S) + 1) = 0
           THEN <<>>
           ELSE Unescape(SubSeq(body, First(S) + 1, CloseOf(body, First(S) + 1) - 1))
  BY <1>5, Zenon DEF GetStr
<1> HIDE DEF S
<1>12. First(S) + 1 = p + 6
  BY <1>6, <1>10
<1>13. CloseOf(body, First(S) + 1) = p + l + 6
  BY <1>8, <1>12
<1>14. CloseOf(body, First(S) + 1) - 1 = p + l + 5
  BY <1>10, <1>13
<1>15. SubSeq(body, First(S) + 1, CloseOf(body, First(S) + 1) - 1) = e
  BY <1>9, <1>12, <1>14
<1>16. ~(ValueAt(body, key) = 0 \/ First(S) = 0 \/ CloseOf(body, First(S) + 1) = 0)
  BY <1>5, <1>6, <1>10, <1>13
<1> QED
  BY <1>11, <1>15, <1>16, <1>u, Zenon

\* What get_int reads is a numeral's integer, if it is an int.
LEMMA GetIntReads ==
  ASSUME NEW X, NEW body \in Seq(X), NEW key, NEW p \in Nat, KeyAt(body, key) = p + 1,
         NEW def, p + 5 <= Len(body), body[p + 4] = ":"
  PROVE  GetInt(body, key, def)
           = IF body[p + 5] \in DOMAIN Number /\ Number[body[p + 5]] \in Int32
             THEN Number[body[p + 5]] ELSE def
<1> DEFINE val == SubSeq(body, p + 5, Len(body))
<1>0. Len(body) \in Nat
  BY LenProperties
<1>1. ValueAt(body, key) = p + 5
  BY <1>0, ValueAtIs
<1>2. Len(val) # 0 /\ val[1] = body[p + 5] /\ val \in Seq(X)
  BY <1>0
<1>3. GetInt(body, key, def) = IF p + 5 # 0 /\ StoiReads(val) THEN Value(val) ELSE def
  BY <1>1, Zenon DEF GetInt
<1> HIDE DEF val
<1>4. val # <<>>
  BY <1>2, ShortSeq
<1>5. p + 5 # 0
  OBVIOUS
<1> QED
  BY <1>2, <1>3, <1>4, <1>5, Zenon DEF StoiReads, StollReads, Value

-----------------------------------------------------------------------------
(* Reading the fields of an object.                                        *)

LEMMA EmptyObj ==
  ASSUME NEW X, Symbol \subseteq X, NEW fields \in Seq(Seq(X)), Len(fields) = 0
  PROVE  Obj(fields) \in Seq(X) /\ Len(Obj(fields)) = 2
<1> DEFINE L == Listed(fields)
           b == <<"{">>
           e == <<"}">>
<1>1. L \in Seq(Seq(X)) /\ Len(L) = 0
  BY MarkedFields
<1>2. Obj(fields) = Cat(Cat(b, FlattenSeq(L)), e)
  BY Zenon DEF Obj, Listed, Cat
<1>3. b \in Seq(X) /\ Len(b) = 1 /\ e \in Seq(X) /\ Len(e) = 1
  BY SymbolFacts, ShortSeq
<1> HIDE DEF L, b, e
<1>4. PICK F : IsPrefixes(F, Len(L), L, X)
  BY <1>1, PrefixesExist
<1>5. FlattenSeq(L) = <<>>
  <2>1. FlattenSeq(L) = F[Len(L)]
    BY <1>1, <1>4, FlattenIsLast
  <2> QED
    BY <1>1, <1>4, <2>1 DEF IsPrefixes
<1>6. Cat(b, FlattenSeq(L)) = b
  BY <1>3, <1>5, CatEmpty
<1>7. CatFacts(X)
  BY CatSeq
<1>8. Cat(b, e) \in Seq(X) /\ Len(Cat(b, e)) = Len(b) + Len(e)
  BY <1>3, <1>7 DEF CatFacts
<1> QED
  BY <1>2, <1>3, <1>6, <1>8

\* No field has the key.
LEMMA ReadsNothing ==
  ASSUME NEW X, Symbol \subseteq X, NEW fields \in Seq(Seq(X)), NEW key, IsKey(key),
         \A j \in 1 .. Len(fields) : NoKeyIn(fields[j], key), NEW def
  PROVE  GetStr(Obj(fields), key) = <<>> /\ GetInt(Obj(fields), key, def) = def
<1> DEFINE w == Obj(fields)
<1>1. w \in Seq(X) /\ NoKeyIn(w, key)
  <2>1. CASE Len(fields) = 0
    <3>1. w \in Seq(X) /\ Len(w) = 2
      BY <2>1, EmptyObj
    <3> HIDE DEF w
    <3>2. \A i \in Nat \ {0} : ~(i + 2 <= 2)
      OBVIOUS
    <3> QED
      BY <3>1, <3>2 DEF NoKeyIn, KeyStands
  <2>2. CASE Len(fields) # 0
    <3>1. PICK H : IsObj(w, H, fields, X)
      BY <2>2, ObjShape
    <3> HIDE DEF w
    <3>2. NoKeyIn(w, key)
      BY <3>1, ObjNoKey
    <3> QED
      BY <3>1, <3>2 DEF IsObj
  <2> QED
    BY <2>1, <2>2
<1> HIDE DEF w
<1>2. KeyAt(w, key) = 0
  BY <1>1, KeyAtFacts
<1>3. GetStr(w, key) = <<>> /\ GetInt(w, key, def) = def
  BY <1>2, GetNothing
<1> QED
  BY <1>3 DEF w

\* The k-th field is the first with the key: where it stands.
LEMMA FirstField ==
  ASSUME NEW X, Symbol \subseteq X, NEW fields \in Seq(Seq(X)), NEW key, IsKey(key),
         NEW k \in 1 .. Len(fields), KeyStands(fields[k], key, 1),
         \A j \in 1 .. k - 1 : NoKeyIn(fields[j], key)
  PROVE  /\ Obj(fields) \in Seq(X)
         /\ \E p \in Nat : /\ KeyAt(Obj(fields), key) = p + 1
                           /\ At(Obj(fields), p, fields[k])
                           /\ p + Len(fields[k]) < Len(Obj(fields))
<1> DEFINE w == Obj(fields)
<1>1. Len(fields) # 0
  BY LenProperties
<1>2. PICK H : IsObj(w, H, fields, X)
  BY <1>1, ObjShape
<1> HIDE DEF w
<1>3. w \in Seq(X)
  BY <1>2 DEF IsObj
<1>4. \E p \in Nat : /\ KeyAt(w, key) = p + 1
                     /\ At(w, p, fields[k]) /\ p + Len(fields[k]) < Len(w)
  BY <1>2, ObjKeyAt
<1> QED
  BY <1>3, <1>4 DEF w

\* It is a string.
LEMMA ReadsString ==
  ASSUME NEW X, Symbol \subseteq X, NEW fields \in Seq(Seq(X)), NEW key, IsKey(key),
         NEW k \in 1 .. Len(fields), NEW v \in Seq(Symbol), IsKv(fields[k], key, v),
         \A j \in 1 .. k - 1 : NoKeyIn(fields[j], key), NEW def
  PROVE  GetStr(Obj(fields), key) = v /\ GetInt(Obj(fields), key, def) = def
<1> DEFINE w == Obj(fields)
           f == fields[k]
<1>0. f \in Seq(X)
  BY ElementOfSeq
<1>1. /\ IsKv(f, key, v) /\ Len(Escape(v)) \in Nat /\ Len(f) = Len(Escape(v)) + 6
      /\ f[1] = "quote" /\ f[2] = key /\ f[3] = "quote" /\ f[4] = ":" /\ f[5] = "quote"
  BY DEF IsKv
<1>2. KeyStands(f, key, 1)
  <2> HIDE DEF f
  <2> QED
    BY <1>1 DEF KeyStands
<1>3. PICK p \in Nat : KeyAt(w, key) = p + 1 /\ At(w, p, f) /\ p + Len(f) < Len(w)
  BY <1>2, FirstField
<1>4. w \in Seq(X)
  BY <1>2, FirstField
<1> HIDE DEF w, f
<1>5. GetStr(w, key) = v
  BY <1>0, <1>1, <1>3, <1>4, GetStrReads
<1>6. GetInt(w, key, def) = def
  <2>1. 4 \in 1 .. Len(f) /\ 5 \in 1 .. Len(f)
    BY <1>1
  <2>2. w[p + 4] = ":" /\ w[p + 5] = "quote"
    BY <1>1, <1>3, <2>1 DEF At
  <2>3. p + 5 <= Len(w)
    <3>1. PICK l \in Nat : l = Len(Escape(v)) /\ Len(f) = l + 6
      BY <1>1
    <3>2. Len(w) \in Nat /\ p + (l + 6) < Len(w)
      BY <1>3, <1>4, <3>1, LenProperties
    <3> QED
      BY <3>2
  <2>4. "quote" \notin DOMAIN Number
    BY WordsAssumption DEF WordsAssumption, Punctuation
  <2>5. GetInt(w, key, def)
          = IF w[p + 5] \in DOMAIN Number /\ Number[w[p + 5]] \in Int32
            THEN Number[w[p + 5]] ELSE def
    BY <1>3, <1>4, <2>2, <2>3, GetIntReads
  <2> QED
    BY <2>2, <2>4, <2>5
<1> QED
  BY <1>5, <1>6 DEF w

\* It is an integer.
LEMMA ReadsInteger ==
  ASSUME NEW X, Symbol \subseteq X, NEW fields \in Seq(Seq(X)), NEW key, IsKey(key),
         NEW k \in 1 .. Len(fields), NEW n, IsKvInt(fields[k], key, n),
         \A j \in 1 .. k - 1 : NoKeyIn(fields[j], key), NEW def
  PROVE  GetInt(Obj(fields), key, def)
           = IF Numeral(n) \in DOMAIN Number /\ Number[Numeral(n)] \in Int32
             THEN Number[Numeral(n)] ELSE def
<1> DEFINE w == Obj(fields)
           f == fields[k]
<1>1. /\ Len(f) = 5 /\ f[1] = "quote" /\ f[2] = key /\ f[3] = "quote" /\ f[4] = ":"
      /\ f[5] = Numeral(n)
  BY DEF IsKvInt
<1>2. KeyStands(f, key, 1)
  <2> HIDE DEF f
  <2> QED
    BY <1>1 DEF KeyStands
<1>3. PICK p \in Nat : KeyAt(w, key) = p + 1 /\ At(w, p, f) /\ p + Len(f) < Len(w)
  BY <1>2, FirstField
<1>4. w \in Seq(X)
  BY <1>2, FirstField
<1> HIDE DEF w, f
<1>5. w[p + 4] = ":" /\ w[p + 5] = Numeral(n)
  BY <1>1, <1>3 DEF At
<1>6. p + 5 <= Len(w)
  <2>1. Len(w) \in Nat /\ p + 5 < Len(w)
    BY <1>1, <1>3, <1>4, LenProperties
  <2> QED
    BY <2>1
<1>7. GetInt(w, key, def)
        = IF w[p + 5] \in DOMAIN Number /\ Number[w[p + 5]] \in Int32
          THEN Number[w[p + 5]] ELSE def
  BY <1>3, <1>4, <1>5, <1>6, GetIntReads
<1> QED
  BY <1>5, <1>7 DEF w

-----------------------------------------------------------------------------
(* Requests.                                                               *)

Keys == StringKeys \cup IntKeys

\* The field of a member, and the fields of an object.
FieldOf(m)  == IF m.str THEN Kv(m.key, m.val) ELSE KvInt(m.key, Value(m.val))
FieldsOf(o) == [i \in DOMAIN o |-> FieldOf(o[i])]

LEMMA KeyRules ==
  ASSUME NEW key \in Keys
  PROVE  IsKey(key) /\ key # "backslash" /\ \A k : k # key => OtherKey(key, k)
BY DEF Keys, StringKeys, IntKeys, IsKey, OtherKey

\* The member m is written as a string or as an integer.
IsField(f, m) ==
  /\ m.str => m.val \in Seq(Symbol) /\ IsKv(f, m.key, m.val)
  /\ ~m.str => /\ IsKvInt(f, m.key, Value(m.val))
               /\ Numeral(Value(m.val)) \in DOMAIN Number
               /\ Number[Numeral(Value(m.val))] = Value(m.val)
               /\ m.val # <<>> /\ m.val[1] \in DOMAIN Number

LEMMA MemberField ==
  ASSUME NEW m \in Member
  PROVE  FieldOf(m) \in Seq(Symbol) /\ IsField(FieldOf(m), m)
<1>1. /\ m.key \in Symbol /\ m.val \in Seq(STRING)
      /\ m.str \in BOOLEAN
      /\ m.str \/ \E w \in DOMAIN Number : m.val = <<w>>
  BY SymbolFacts DEF Member
<1>2. m.val \in Seq(Symbol)
  BY <1>1, SymbolFacts, SeqWiden
<1>3. CASE m.str
  <2>1. Kv(m.key, m.val) \in Seq(Symbol) /\ IsKv(Kv(m.key, m.val), m.key, m.val)
    BY <1>1, <1>2, KvParts
  <2> QED
    BY <1>2, <1>3, <2>1 DEF FieldOf, IsField
<1>4. CASE ~m.str
  <2>1. PICK w \in DOMAIN Number : m.val = <<w>>
    BY <1>1, <1>4
  <2>2. m.val # <<>> /\ m.val[1] = w
    BY <2>1
  <2>3. PICK n : n = Value(m.val) /\ n = Number[w]
    BY <2>2 DEF Value
  <2>4. Numeral(n) \in DOMAIN Number /\ Number[Numeral(n)] = n
    BY <2>3, NumeralReads
  <2>5. Numeral(n) \in Symbol
    BY <2>4, WordsAssumption, SymbolFacts DEF WordsAssumption
  <2>6. KvInt(m.key, n) \in Seq(Symbol) /\ IsKvInt(KvInt(m.key, n), m.key, n)
    BY <1>1, <2>5, KvIntParts
  <2> QED
    BY <1>4, <2>2, <2>3, <2>4, <2>6 DEF FieldOf, IsField
<1> QED
  BY <1>3, <1>4

LEMMA ObjectFields ==
  ASSUME NEW o \in Seq(Member)
  PROVE  /\ FieldsOf(o) \in Seq(Seq(Symbol)) /\ Len(FieldsOf(o)) = Len(o)
         /\ Body(o) = Obj(FieldsOf(o)) /\ DOMAIN o = 1 .. Len(o) /\ Len(o) \in Nat
         /\ \A i \in 1 .. Len(o) :
              /\ o[i] \in Member /\ FieldsOf(o)[i] = FieldOf(o[i])
              /\ FieldsOf(o)[i] \in Seq(Symbol) /\ IsField(FieldsOf(o)[i], o[i])
<1>0. DOMAIN o = 1 .. Len(o) /\ Len(o) \in Nat
  BY LenProperties
<1>1. \A i \in 1 .. Len(o) : o[i] \in Member
  BY ElementOfSeq
<1>2. \A i \in 1 .. Len(o) : FieldsOf(o)[i] = FieldOf(o[i])
  BY <1>0 DEF FieldsOf
<1>3. \A i \in 1 .. Len(o) : FieldOf(o[i]) \in Seq(Symbol) /\ IsField(FieldOf(o[i]), o[i])
  BY <1>1, MemberField
<1>4. FieldsOf(o) \in [1 .. Len(o) -> Seq(Symbol)]
  BY <1>0, <1>3 DEF FieldsOf
<1>5. FieldsOf(o) \in Seq(Seq(Symbol)) /\ Len(FieldsOf(o)) = Len(o)
  BY <1>0, <1>4, FunctionSeq
<1>6. Body(o) = Obj(FieldsOf(o))
  BY Zenon DEF Body, FieldsOf, FieldOf
<1> QED
  BY <1>0, <1>1, <1>2, <1>3, <1>5, <1>6

\* A member with another key that does not pose does not hold the key.
LEMMA OthersHoldNoKey ==
  ASSUME NEW o \in Seq(Member), NEW key \in Keys, ~Posing(o, key),
         NEW i \in 1 .. Len(o), o[i].key # key
  PROVE  NoKeyIn(FieldsOf(o)[i], key)
<1>1. /\ o[i] \in Member /\ FieldsOf(o)[i] = FieldOf(o[i]) /\ DOMAIN o = 1 .. Len(o)
      /\ IsField(FieldsOf(o)[i], o[i])
  BY ObjectFields
<1>2. PICK m \in Member : m = o[i]
  BY <1>1
<1>3. m.key \in Symbol /\ OtherKey(key, m.key)
  BY <1>2, KeyRules, SymbolFacts DEF Member
<1>4. CASE m.str
  <2>1. PICK v \in Seq(Symbol) : v = m.val
    BY <1>1, <1>2, <1>4 DEF IsField
  <2>2. KeyAt(Quoted(Escape(v)), key) = 0
    BY <1>1, <1>2, <1>4, <2>1 DEF Posing
  <2>3. Quoted(Escape(v)) \in Seq(Symbol)
    <3>1. Escape(v) \in Seq(Symbol)
      BY EscapePrefixes
    <3> QED
      BY <3>1, SymbolFacts, QuotedParts
  <2>4. NoKeyIn(Quoted(Escape(v)), key)
    BY <2>2, <2>3, KeyAtFacts
  <2>5. NoKeyIn(Kv(m.key, v), key)
    BY <1>3, <2>4, KvNoKey
  <2> QED
    BY <1>1, <1>2, <1>4, <2>1, <2>5 DEF FieldOf
<1>5. CASE ~m.str
  <2>1. PICK n : n = Value(m.val) /\ Numeral(n) \in DOMAIN Number
    BY <1>1, <1>2, <1>5 DEF IsField
  <2>2. Numeral(n) \in Symbol
    BY <2>1, WordsAssumption, SymbolFacts DEF WordsAssumption
  <2>3. NoKeyIn(KvInt(m.key, n), key)
    BY <1>3, <2>2, KvIntNoKey
  <2> QED
    BY <1>1, <1>2, <1>5, <2>1, <2>3 DEF FieldOf
<1> QED
  BY <1>4, <1>5

\* What is read of an object is what the object means.
LEMMA ReadsMeaning ==
  ASSUME NEW o \in Seq(Member), NEW key \in Keys, ~Posing(o, key), NEW def
  PROVE  /\ ReadsInt(o, key, def)
         /\ WrongType(o, key) \/ ReadsStr(o, key)
<1> DEFINE fields == FieldsOf(o)
           ms == Members(o, key)
<1>0. /\ fields \in Seq(Seq(Symbol)) /\ Len(fields) = Len(o) /\ Body(o) = Obj(fields)
      /\ DOMAIN o = 1 .. Len(o) /\ Len(o) \in Nat /\ IsKey(key)
  BY ObjectFields, KeyRules
<1>1. \A i \in 1 .. Len(o) : i \notin ms => NoKeyIn(fields[i], key)
  <2>1. \A i \in 1 .. Len(o) : i \notin ms => o[i].key # key
    BY <1>0 DEF Members
  <2> QED
    BY <2>1, OthersHoldNoKey
<1>2. CASE ms = {}
  <2>1. \A i \in 1 .. Len(fields) : NoKeyIn(fields[i], key)
    BY <1>0, <1>1, <1>2
  <2>2. MeantStr(o, key) = <<>> /\ MeantInt(o, key, def) = def
    BY <1>2, Zenon DEF MeantStr, MeantInt
  <2> HIDE DEF fields
  <2>3. GetStr(Obj(fields), key) = <<>> /\ GetInt(Obj(fields), key, def) = def
    BY <1>0, <2>1, ReadsNothing
  <2> QED
    BY <1>0, <2>2, <2>3 DEF ReadsStr, ReadsInt
<1>3. CASE ms # {}
  <2> DEFINE k == Min(ms)
  <2>1. k \in ms /\ \A i \in ms : k <= i
    <3>1. ms \subseteq Nat
      BY <1>0 DEF Members
    <3> QED
      BY <1>3, <3>1, MinIsLeast
  <2>2. k \in 1 .. Len(fields) /\ o[k].key = key
    BY <1>0, <2>1 DEF Members
  <2>3. \A i \in 1 .. k - 1 : NoKeyIn(fields[i], key)
    <3>1. \A i \in 1 .. k - 1 : i \in 1 .. Len(o) /\ ~(k <= i)
      BY <1>0, <2>2
    <3> QED
      BY <1>1, <2>1, <3>1
  <2>4. IsField(fields[k], o[k])
    BY <1>0, <2>2, ObjectFields
  <2>5. /\ MeantStr(o, key) = IF o[k].str THEN o[k].val ELSE <<>>
        /\ MeantInt(o, key, def) = IF ~o[k].str /\ StoiReads(o[k].val)
                                   THEN Value(o[k].val) ELSE def
        /\ ~o[k].str => WrongType(o, key)
    BY <1>3, Zenon DEF MeantStr, MeantInt, WrongType
  <2> HIDE DEF k, fields, ms
  <2>6. CASE o[k].str
    <3>1. PICK v \in Seq(Symbol) : v = o[k].val /\ IsKv(fields[k], key, v)
      BY <2>2, <2>4, <2>6 DEF IsField
    <3>2. GetStr(Obj(fields), key) = v /\ GetInt(Obj(fields), key, def) = def
      BY <1>0, <2>2, <2>3, <3>1, ReadsString
    <3> QED
      BY <1>0, <2>5, <2>6, <3>1, <3>2 DEF ReadsStr, ReadsInt
  <2>7. CASE ~o[k].str
    <3>1. PICK n : n = Value(o[k].val)
      OBVIOUS
    <3>2. /\ IsKvInt(fields[k], key, n) /\ Numeral(n) \in DOMAIN Number
          /\ Number[Numeral(n)] = n /\ o[k].val # <<>> /\ o[k].val[1] \in DOMAIN Number
      BY <2>2, <2>4, <2>7, <3>1 DEF IsField
    <3>3. GetInt(Obj(fields), key, def)
            = IF Numeral(n) \in DOMAIN Number /\ Number[Numeral(n)] \in Int32
              THEN Number[Numeral(n)] ELSE def
      BY <1>0, <2>2, <2>3, <3>2, ReadsInteger
    <3>4. StoiReads(o[k].val) <=> n \in Int32
      BY <3>1, <3>2, Zenon DEF StoiReads, StollReads, Value
    <3> QED
      BY <1>0, <2>5, <2>7, <3>1, <3>2, <3>3, <3>4 DEF ReadsInt
  <2> QED
    BY <2>6, <2>7
<1> QED
  BY <1>2, <1>3

-----------------------------------------------------------------------------
(* The calls.                                                              *)

\* What get_str returns is made of the symbols of the body.
LEMMA GetStrSeq ==
  ASSUME NEW body \in Seq(Symbol), NEW key
  PROVE  GetStr(body, key) \in Seq(Symbol)
<1> DEFINE at == ValueAt(body, key)
           S == {i \in at .. Len(body) : body[i] = "quote"}
           q1 == First(S)
           q2 == CloseOf(body, q1 + 1)
<1>0. Len(body) \in Nat
  BY LenProperties
<1>1. at \in Nat
  <2> DEFINE C == {i \in KeyAt(body, key) + 3 .. Len(body) : body[i] = ":"}
  <2>1. KeyAt(body, key) \in Nat
    BY KeyAtFacts
  <2>2. C \subseteq Nat \ {0}
    BY <1>0, <2>1
  <2>3. at = IF KeyAt(body, key) = 0 \/ First(C) = 0 THEN 0 ELSE First(C) + 1
    BY DEF ValueAt
  <2> HIDE DEF C, at
  <2>4. First(C) \in Nat
    BY <2>2, FirstFacts
  <2> QED
    BY <2>3, <2>4
<1>2. GetStr(body, key) = IF at = 0 \/ q1 = 0 \/ q2 = 0 THEN <<>>
                          ELSE Unescape(SubSeq(body, q1 + 1, q2 - 1))
  BY Zenon DEF GetStr
<1>3. CASE at = 0 \/ q1 = 0 \/ q2 = 0
  <2> HIDE DEF at, q1, q2
  <2> QED
    BY <1>2, <1>3, ShortSeq
<1>4. CASE ~(at = 0 \/ q1 = 0 \/ q2 = 0)
  <2> HIDE DEF at
  <2>1. S \subseteq Nat \ {0} /\ S \subseteq 1 .. Len(body)
    BY <1>0, <1>1, <1>4
  <2> HIDE DEF S
  <2>2. q1 \in S
    BY <1>4, <2>1, FirstFacts
  <2>3. q1 \in 1 .. Len(body)
    BY <2>1, <2>2
  <2> HIDE DEF q1
  <2>4. q2 \in 0 .. Len(body)
    <3>1. q1 + 1 \in 1 .. Len(body) + 2
      BY <1>0, <2>3
    <3>2. IsQuote2(Quote2(body), body) /\ q2 = Quote2(body)[q1 + 1]
      BY CloseExists
    <3> QED
      BY <3>1, <3>2 DEF IsQuote2
  <2> HIDE DEF q2
  <2>5. SubSeq(body, q1 + 1, q2 - 1) \in Seq(Symbol)
    BY <1>0, <2>3, <2>4
  <2>6. Unescape(SubSeq(body, q1 + 1, q2 - 1)) \in Seq(Symbol)
    BY <2>5, UnescapeSeq
  <2> QED
    BY <1>2, <1>4, <2>6
<1> QED
  BY <1>3, <1>4

LEMMA GetIntType ==
  ASSUME NEW body, NEW key, NEW def
  PROVE  GetInt(body, key, def) \in Int32 \/ GetInt(body, key, def) = def
<1>1. GetInt(body, key, def)
        = IF ValueAt(body, key) # 0 /\ StoiReads(SubSeq(body, ValueAt(body, key), Len(body)))
          THEN Value(SubSeq(body, ValueAt(body, key), Len(body))) ELSE def
  BY Zenon DEF GetInt
<1> QED
  BY <1>1 DEF StoiReads, Value

\* An object's text is made of symbols.
LEMMA BodySeq ==
  ASSUME NEW o \in Seq(Member)
  PROVE  Body(o) \in Seq(Symbol)
<1> DEFINE fields == FieldsOf(o)
<1>1. fields \in Seq(Seq(Symbol)) /\ Body(o) = Obj(fields)
  BY ObjectFields
<1> HIDE DEF fields
<1>2. CASE Len(fields) = 0
  BY <1>1, <1>2, EmptyObj
<1>3. CASE Len(fields) # 0
  <2>1. PICK H : IsObj(Obj(fields), H, fields, Symbol)
    BY <1>1, <1>3, ObjShape
  <2> QED
    BY <1>1, <2>1 DEF IsObj
<1> QED
  BY <1>2, <1>3

\* The request that a job was built from, and what it is made of.
RequestOf(job) ==
  [name |-> job.name, schedule_type |-> job.schedule_type,
   schedule_expr |-> job.schedule_expr, execution_target |-> job.execution_target,
   max_retries |-> job.max_retries, retry_delay_seconds |-> job.retry_delay]

IsAsked(job) ==
  /\ job = NewJob(RequestOf(job), job.next_run_time)
  /\ job.name \in Seq(Symbol) /\ job.schedule_type \in Seq(Symbol)
  /\ job.schedule_expr \in Seq(Symbol) /\ job.execution_target \in Seq(Symbol)
  /\ job.max_retries \in Int32

LEMMA ZeroIsInt == 0 \in Int32
BY WordsAssumption DEF WordsAssumption, Int32

LEMMA NoJobAsked == IsAsked(NoJob)
<1>1. /\ NoJob = NewJob(RequestOf(NoJob), NoJob.next_run_time)
      /\ NoJob.name = <<>> /\ NoJob.schedule_type = <<>> /\ NoJob.schedule_expr = <<>>
      /\ NoJob.execution_target = <<>> /\ NoJob.max_retries = 0
  BY DEF NoJob, NewJob, RequestOf
<1>2. <<>> \in Seq(Symbol)
  BY ShortSeq
<1> QED
  BY <1>1, <1>2, ZeroIsInt DEF IsAsked

\* The job of a posted object.
LEMMA PostedAsked ==
  ASSUME NEW o \in Seq(Member)
  PROVE  IsAsked(NewJob(Request(o), 0))
<1> DEFINE b == Body(o)
           r == Request(o)
           job == NewJob(r, 0)
<1>1. b \in Seq(Symbol)
  BY BodySeq
<1>2. /\ r.name = GetStr(b, "name") /\ r.schedule_type = GetStr(b, "schedule_type")
      /\ r.schedule_expr = GetStr(b, "schedule_expr")
      /\ r.execution_target = GetStr(b, "execution_target")
      /\ r.max_retries = GetInt(b, "max_retries", 0)
  BY DEF Request, ReadRequest
<1> HIDE DEF b, r
<1>3. /\ job = NewJob(RequestOf(job), job.next_run_time)
      /\ job.name = r.name /\ job.schedule_type = r.schedule_type
      /\ job.schedule_expr = r.schedule_expr
      /\ job.execution_target = r.execution_target
      /\ job.max_retries = r.max_retries
  BY DEF NewJob, RequestOf
<1> HIDE DEF job
<1>4. \A key : GetStr(b, key) \in Seq(Symbol)
  BY <1>1, GetStrSeq
<1>5. GetInt(b, "max_retries", 0) \in Int32
  BY GetIntType, ZeroIsInt
<1>6. IsAsked(job)
  BY <1>2, <1>3, <1>4, <1>5 DEF IsAsked
<1> QED
  BY <1>6 DEF job, r

\* Its next run comes later.
LEMMA PlannedAsked ==
  ASSUME NEW job, IsAsked(job), NEW n
  PROVE  IsAsked([job EXCEPT !.next_run_time = n])
<1> DEFINE r == RequestOf(job)
           j == NewJob(r, n)
<1>1. [job EXCEPT !.next_run_time = n] = j
  <2>1. job = NewJob(r, job.next_run_time)
    BY DEF IsAsked
  <2> HIDE DEF r
  <2>2. [NewJob(r, job.next_run_time) EXCEPT !.next_run_time = n] = NewJob(r, n)
    BY DEF NewJob
  <2> QED
    BY <2>1, <2>2
<1>2. /\ j = NewJob(RequestOf(j), j.next_run_time)
      /\ j.name = job.name /\ j.schedule_type = job.schedule_type
      /\ j.schedule_expr = job.schedule_expr
      /\ j.execution_target = job.execution_target
      /\ j.max_retries = job.max_retries
  BY DEF NewJob, RequestOf
<1> HIDE DEF j
<1>3. IsAsked(j)
  BY <1>2 DEF IsAsked
<1> QED
  BY <1>1, <1>3

\* What a call carries: an object that a client sends, a job made of one, and,
\* in a 201 reply, an id.
CallOK(k) ==
  /\ k.pc = "posted" => k.obj \in Objects
  /\ IsAsked(k.job)
  /\ k.pc = "reply" /\ k.code = 201 => k.id \in Id

CallsOK == \A c \in Client : CallOK(call[c])

\* One call changes.
LEMMA CallsKept ==
  ASSUME TypeOK, CallsOK, NEW c \in Client, NEW k,
         call' = [call EXCEPT ![c] = k], CallOK(k)
  PROVE  CallsOK'
<1>1. \A d \in Client : call'[d] = IF d = c THEN k ELSE call[d]
  BY DEF TypeOK
<1> QED
  BY <1>1 DEF CallsOK

\* A reply other than 201.
LEMMA ReplyKept ==
  ASSUME TypeOK, CallsOK, NEW c \in Client, NEW code, code # 201, Reply(c, code)
  PROVE  CallsOK'
<1> DEFINE k == [call[c] EXCEPT !.pc = "reply", !.code = code]
<1>1. IsCall(call[c]) /\ CallOK(call[c])
  BY DEF TypeOK, CallsOK
<1>2. k.pc = "reply" /\ k.code = code /\ k.job = call[c].job
  BY <1>1 DEF IsCall, NoCall
<1>3. call' = [call EXCEPT ![c] = k]
  BY DEF Reply, TypeOK
<1> HIDE DEF k
<1>4. CallOK(k)
  BY <1>1, <1>2 DEF CallOK
<1> QED
  BY <1>3, <1>4, CallsKept

LEMMA HandlerKeeps ==
  ASSUME TypeOK, CallsOK, NEW c \in Client, HandlerStep(c)
  PROVE  CallsOK'
<1>0. /\ CallOK(call[c]) /\ IsAsked(call[c].job)
      /\ DOMAIN call[c] = DOMAIN NoCall /\ DOMAIN call[c].job = DOMAIN NoJob
  BY DEF TypeOK, CallsOK, CallOK, IsCall
<1>1. ASSUME NEW k, call' = [call EXCEPT ![c] = k], k.pc # "posted", k.pc # "reply",
             IsAsked(k.job)
      PROVE  CallsOK'
  <2>1. CallOK(k)
    BY <1>1 DEF CallOK
  <2> QED
    BY <1>1, <2>1, CallsKept
<1>2. CASE Refuse(c)
  <2> DEFINE k == [call[c] EXCEPT !.pc = "reply", !.code = 400, !.from = now]
  <2>1. k.pc = "reply" /\ k.code = 400 /\ k.job = call[c].job
    BY <1>0 DEF NoCall
  <2>2. call' = [call EXCEPT ![c] = k]
    BY <1>2 DEF Refuse
  <2> HIDE DEF k
  <2>3. CallOK(k)
    BY <1>0, <2>1 DEF CallOK
  <2> QED
    BY <2>2, <2>3, CallsKept
<1>3. CASE PlanRun(c)
  <2> DEFINE n == NextRunAfter(ScheduleOf(call[c].job), now)
             j == [call[c].job EXCEPT !.next_run_time = n]
             k == [call[c] EXCEPT !.pc = "save", !.from = now, !.job.next_run_time = n]
  <2>1. k.pc = "save" /\ k.job = j
    BY <1>0 DEF NoCall
  <2>2. call' = [call EXCEPT ![c] = k]
    BY <1>3 DEF PlanRun, Asked
  <2>3. IsAsked(j)
    BY <1>0, PlannedAsked
  <2> HIDE DEF k, j
  <2> QED
    BY <1>1, <2>1, <2>2, <2>3
<1>4. CASE StartScan(c)
  <2> DEFINE k == [call[c] EXCEPT !.pc = "localtime", !.from = now,
                                  !.cand = FirstCandidate(now)]
  <2>1. k.pc = "localtime" /\ k.job = call[c].job
    BY <1>0 DEF NoCall
  <2>2. call' = [call EXCEPT ![c] = k]
    BY <1>4 DEF StartScan
  <2> HIDE DEF k
  <2> QED
    BY <1>0, <1>1, <2>1, <2>2
<1>5. CASE LocalTime(c)
  <2> DEFINE k == [call[c] EXCEPT !.pc = "compare"]
  <2>1. k.pc = "compare" /\ k.job = call[c].job
    BY <1>0 DEF NoCall
  <2>2. call' = [call EXCEPT ![c] = k]
    BY <1>5 DEF LocalTime, TypeOK
  <2> HIDE DEF k
  <2> QED
    BY <1>0, <1>1, <2>1, <2>2
<1>6. CASE CompareHit(c)
  <2> DEFINE n == call[c].cand
             j == [call[c].job EXCEPT !.next_run_time = n]
             k == [call[c] EXCEPT !.pc = "save", !.job.next_run_time = n]
  <2>1. k.pc = "save" /\ k.job = j
    BY <1>0 DEF NoCall
  <2>2. call' = [call EXCEPT ![c] = k]
    BY <1>6 DEF CompareHit
  <2>3. IsAsked(j)
    BY <1>0, PlannedAsked
  <2> HIDE DEF k, j
  <2> QED
    BY <1>1, <2>1, <2>2, <2>3
<1>7. CASE CompareMiss(c)
  <2>1. CASE call[c].cand < call[c].from + Horizon
    <3> DEFINE k == [call[c] EXCEPT !.pc = "localtime", !.cand = @ + 1]
    <3>1. k.pc = "localtime" /\ k.job = call[c].job
      BY <1>0 DEF NoCall
    <3>2. call' = [call EXCEPT ![c] = k]
      BY <1>7, <2>1 DEF CompareMiss, TypeOK
    <3> HIDE DEF k
    <3> QED
      BY <1>0, <1>1, <3>1, <3>2
  <2>2. CASE ~(call[c].cand < call[c].from + Horizon)
    <3>1. Reply(c, 400)
      BY <1>7, <2>2 DEF CompareMiss
    <3> QED
      BY <3>1, ReplyKept
  <2> QED
    BY <2>1, <2>2
<1>8. CASE Save(c)
  <2>1. PICK i \in Id :
          \/ Reply(c, 500)
          \/ call' = [call EXCEPT ![c] = [@ EXCEPT !.pc = "reply", !.code = 201, !.id = i]]
    BY <1>8 DEF Save
  <2>2. CASE Reply(c, 500)
    BY <2>2, ReplyKept
  <2>3. CASE call' = [call EXCEPT ![c] = [@ EXCEPT !.pc = "reply", !.code = 201, !.id = i]]
    <3> DEFINE k == [call[c] EXCEPT !.pc = "reply", !.code = 201, !.id = i]
    <3>1. k.pc = "reply" /\ k.id = i /\ k.job = call[c].job
      BY <1>0 DEF NoCall
    <3>2. call' = [call EXCEPT ![c] = k]
      BY <2>3
    <3> HIDE DEF k
    <3>3. CallOK(k)
      BY <1>0, <3>1 DEF CallOK
    <3> QED
      BY <3>2, <3>3, CallsKept
  <2> QED
    BY <2>1, <2>2, <2>3
<1>9. ASSUME NEW route, NEW status, WriteStatus(c, route, status)
      PROVE  CallsOK'
  BY <1>9, ReplyKept DEF WriteStatus
<1>10. CASE RemoveRow(c)
  BY <1>10, ReplyKept DEF RemoveRow
<1>11. CASE Answered(c)
  <2>1. NoCall.pc = "idle" /\ NoCall.job = NoJob
    BY DEF NoCall
  <2>2. call' = [call EXCEPT ![c] = NoCall]
    BY <1>11 DEF Answered
  <2> QED
    BY <1>1, <2>1, <2>2, NoJobAsked
<1> QED
  BY <1>2, <1>3, <1>4, <1>5, <1>6, <1>7, <1>8, <1>9, <1>10, <1>11 DEF HandlerStep

LEMMA NextKeeps ==
  ASSUME TypeOK, CallsOK, [Next]_vars
  PROVE  CallsOK'
<1>1. CASE Tick \/ ExecutorWrites \/ UNCHANGED vars
  <2>1. UNCHANGED call
    BY <1>1 DEF Tick, ExecutorWrites, vars
  <2> QED
    BY <2>1 DEF CallsOK
<1>2. ASSUME NEW c \in Client, Post(c)
      PROVE  CallsOK'
  <2>1. PICK o \in Objects :
          call' = [call EXCEPT ![c] = [NoCall EXCEPT !.pc = "posted", !.post = TRUE,
                                                     !.obj = o, !.job = NewJob(Request(o), 0)]]
    BY <1>2 DEF Post
  <2> DEFINE job == NewJob(Request(o), 0)
             k == [NoCall EXCEPT !.pc = "posted", !.post = TRUE, !.obj = o, !.job = job]
  <2>2. k.pc = "posted" /\ k.obj = o /\ k.job = job
    BY DEF NoCall
  <2>3. call' = [call EXCEPT ![c] = k]
    BY <2>1
  <2>4. IsAsked(job)
    BY ApiAssumption, PostedAsked DEF ApiAssumption
  <2> HIDE DEF k, job
  <2>5. CallOK(k)
    BY <2>2, <2>4 DEF CallOK
  <2> QED
    BY <2>3, <2>5, CallsKept
<1>3. ASSUME NEW c \in Client, ListJobs(c)
      PROVE  CallsOK'
  BY <1>3, ReplyKept DEF ListJobs
<1>4. ASSUME NEW c \in Client, RouteById(c)
      PROVE  CallsOK'
  <2>1. PICK i \in Id, route \in {"get", "pause", "resume", "delete"} :
          IF Code(route, i) = 0
          THEN call' = [call EXCEPT ![c] = [@ EXCEPT !.pc = route, !.id = i]]
          ELSE Reply(c, Code(route, i))
    BY <1>4 DEF RouteById
  <2>2. CASE Code(route, i) = 0
    <3> DEFINE k == [call[c] EXCEPT !.pc = route, !.id = i]
    <3>1. IsCall(call[c]) /\ CallOK(call[c])
      BY DEF TypeOK, CallsOK
    <3>2. k.pc = route /\ k.job = call[c].job
      BY <3>1 DEF IsCall, NoCall
    <3>3. call' = [call EXCEPT ![c] = k]
      BY <2>1, <2>2
    <3> HIDE DEF k
    <3>4. CallOK(k)
      BY <3>1, <3>2 DEF CallOK
    <3> QED
      BY <3>3, <3>4, CallsKept
  <2>3. CASE Code(route, i) # 0
    <3>1. Code(route, i) # 201
      BY DEF Code
    <3>2. PICK code : code = Code(route, i)
      OBVIOUS
    <3>3. Reply(c, code) /\ code # 201
      BY <2>1, <2>3, <3>1, <3>2
    <3> QED
      BY <3>3, ReplyKept
  <2> QED
    BY <2>2, <2>3
<1>5. ASSUME NEW c \in Client, HandlerStep(c)
      PROVE  CallsOK'
  BY <1>5, HandlerKeeps
<1> QED
  BY <1>1, <1>2, <1>3, <1>4, <1>5 DEF Next

LEMMA CallsAlways == Spec => []CallsOK
<1>1. ASSUME Init
      PROVE  CallsOK
  <2>1. CallOK(NoCall)
    BY NoJobAsked DEF CallOK, NoCall
  <2>2. \A c \in Client : call[c] = NoCall
    BY <1>1 DEF Init
  <2> QED
    BY <2>1, <2>2 DEF CallsOK
<1>2. TypeOK /\ CallsOK /\ [Next]_vars => CallsOK'
  BY NextKeeps
<1> QED
  BY <1>1, <1>2, ApiTypeCorrect, PTL DEF Spec

(***************************************************************************)
(* Of every request, whatever its members and whatever is escaped in their *)
(* texts, SimpleParser reads what the object means, as long as no string   *)
(* poses as the key and a string that is asked for is a string.            *)
(***************************************************************************)
THEOREM RequestsRead == Spec => []ReadsUnambiguousObjects
<1>1. ASSUME CallsOK
      PROVE  ReadsUnambiguousObjects
  <2>1. SUFFICES ASSUME NEW c \in Client, call[c].pc = "posted"
                 PROVE  /\ \A key \in StringKeys :
                             \/ Posing(call[c].obj, key) \/ WrongType(call[c].obj, key)
                             \/ ReadsStr(call[c].obj, key)
                        /\ \A key \in IntKeys :
                             Posing(call[c].obj, key) \/ ReadsInt(call[c].obj, key, 0)
    BY DEF ReadsUnambiguousObjects
  <2>2. PICK o \in Seq(Member) : o = call[c].obj
    BY <1>1, <2>1, ApiAssumption DEF CallsOK, CallOK, ApiAssumption
  <2>3. \A key \in Keys : Posing(o, key) \/ WrongType(o, key) \/ ReadsStr(o, key)
    BY ReadsMeaning
  <2>4. \A key \in Keys : Posing(o, key) \/ ReadsInt(o, key, 0)
    BY ReadsMeaning
  <2> QED
    BY <2>2, <2>3, <2>4 DEF Keys
<1> QED
  BY <1>1, CallsAlways, PTL

-----------------------------------------------------------------------------
(* Replies.                                                                *)

\* Of all the keys, f holds k at most.
OnlyKey(f, k) == \A key \in Keys : key # k => NoKeyIn(f, key)

\* A field whose text does not pose, one whose text is a word that is no key, and
\* one with an integer.
LEMMA TextField ==
  ASSUME NEW X, Symbol \subseteq X, NEW k \in X, NEW v \in Seq(Symbol),
         \A key \in Keys : NoKeyIn(Quoted(Escape(v)), key)
  PROVE  Kv(k, v) \in Seq(X) /\ OnlyKey(Kv(k, v), k)
<1>1. Kv(k, v) \in Seq(X)
  BY KvParts
<1>2. ASSUME NEW key \in Keys, key # k
      PROVE  NoKeyIn(Kv(k, v), key)
  <2>1. OtherKey(key, k)
    BY <1>2, KeyRules
  <2> QED
    BY <2>1, KvNoKey
<1> QED
  BY <1>1, <1>2 DEF OnlyKey

LEMMA EscapeOne ==
  ASSUME NEW c \in Symbol
  PROVE  Escape(<<c>>) = Chunk(c)
<1> DEFINE s == <<c>>
<1>1. s \in Seq(Symbol) /\ Len(s) = 1 /\ s[1] = c
  BY ShortSeq
<1> HIDE DEF s
<1>2. PICK F : /\ IsPrefixes(F, Len(s), Chunks(s), Symbol)
               /\ F[0] = <<>> /\ F[Len(s)] = Escape(s)
  BY <1>1, EscapePrefixes
<1>3. Chunks(s)[1] = Chunk(c) /\ Len(Chunks(s)) = 1 /\ Chunks(s) \in Seq(Seq(Symbol))
  <2>1. 1 \in 1 .. Len(s)
    BY <1>1
  <2> QED
    BY <1>1, <2>1, EscapeChunks
<1>4. F[1] = Cat(F[1 - 1], Chunks(s)[1])
  <2>1. 1 \in 1 .. Len(Chunks(s)) /\ IsPrefixes(F, Len(Chunks(s)), Chunks(s), Symbol)
    BY <1>1, <1>2, <1>3
  <2> QED
    BY <1>3, <2>1, FlattenAt
<1>5. Chunk(c) \in Seq(Symbol)
  BY ChunkSeq
<1> QED
  BY <1>1, <1>2, <1>3, <1>4, <1>5, CatEmpty DEF s

LEMMA WordPosesNot ==
  ASSUME NEW c \in Symbol, c \notin Keys, NEW key \in Keys
  PROVE  NoKeyIn(Quoted(Escape(<<c>>)), key)
<1> DEFINE t == Chunk(c)
           q == Quoted(t)
<1>1. t \in Seq(Symbol) /\ Escape(<<c>>) = t
  BY ChunkSeq, EscapeOne
<1>2. \/ Len(t) = 1 /\ t[1] = c
      \/ Len(t) = 2 /\ t[1] = "backslash"
  <2>1. CASE c \in DOMAIN EscapeOf
    BY <2>1 DEF Chunk
  <2>2. CASE c \notin DOMAIN EscapeOf
    BY <2>2 DEF Chunk
  <2> QED
    BY <2>1, <2>2
<1> HIDE DEF t
<1>3. Len(q) = Len(t) + 2 /\ At(q, 1, t)
  BY <1>1, SymbolFacts, QuotedParts
<1> HIDE DEF q
<1>4. q[2] = t[1]
  <2>1. 1 \in 1 .. Len(t) /\ 1 + 1 = 2
    BY <1>2
  <2> QED
    BY <1>3, <2>1 DEF At
<1>5. key # c /\ key # "backslash" /\ "backslash" # "quote"
  BY KeyRules
<1>6. SUFFICES ASSUME NEW i \in Nat \ {0}, KeyStands(q, key, i) PROVE FALSE
  BY <1>1 DEF NoKeyIn, q
<1>7. q[i] = "quote" /\ q[i + 1] = key /\ i + 2 <= Len(q)
  BY <1>6 DEF KeyStands
<1>8. CASE Len(t) = 1 /\ t[1] = c
  <2>1. i = 1
    <3>1. Len(q) = 3
      BY <1>3, <1>8
    <3> QED
      BY <1>7, <3>1
  <2> QED
    BY <1>4, <1>5, <1>7, <1>8, <2>1
<1>9. CASE Len(t) = 2 /\ t[1] = "backslash"
  <2>1. i = 1 \/ i = 2
    <3>1. Len(q) = 4
      BY <1>3, <1>9
    <3> QED
      BY <1>7, <3>1
  <2> QED
    BY <1>4, <1>5, <1>7, <1>9, <2>1
<1> QED
  BY <1>2, <1>8, <1>9

LEMMA WordField ==
  ASSUME NEW X, Symbol \subseteq X, NEW k \in X, NEW c \in Symbol, c \notin Keys
  PROVE  Kv(k, <<c>>) \in Seq(X) /\ OnlyKey(Kv(k, <<c>>), k)
<1> DEFINE v == <<c>>
<1>1. v \in Seq(Symbol)
  BY ShortSeq
<1>2. \A key \in Keys : NoKeyIn(Quoted(Escape(v)), key)
  BY WordPosesNot
<1> HIDE DEF v
<1>3. Kv(k, v) \in Seq(X) /\ OnlyKey(Kv(k, v), k)
  BY <1>1, <1>2, TextField
<1> QED
  BY <1>3 DEF v

LEMMA IntField ==
  ASSUME NEW X, Symbol \subseteq X, NEW k \in X, NEW n, Numeral(n) \in X
  PROVE  KvInt(k, n) \in Seq(X) /\ OnlyKey(KvInt(k, n), k)
<1>1. KvInt(k, n) \in Seq(X)
  BY KvIntParts
<1>2. ASSUME NEW key \in Keys, key # k
      PROVE  NoKeyIn(KvInt(k, n), key)
  <2>1. OtherKey(key, k)
    BY <1>2, KeyRules
  <2> QED
    BY <2>1, KvIntNoKey
<1> QED
  BY <1>1, <1>2 DEF OnlyKey

LEMMA TenFields ==
  ASSUME NEW S, NEW a1 \in S, NEW a2 \in S, NEW a3 \in S, NEW a4 \in S, NEW a5 \in S,
         NEW a6 \in S, NEW a7 \in S, NEW a8 \in S, NEW a9 \in S, NEW a10 \in S
  PROVE  LET t == <<a1, a2, a3, a4, a5, a6, a7, a8, a9, a10>>
         IN  /\ t \in Seq(S) /\ Len(t) = 10
             /\ t[1] = a1 /\ t[2] = a2 /\ t[3] = a3 /\ t[4] = a4 /\ t[5] = a5
             /\ t[6] = a6 /\ t[7] = a7 /\ t[8] = a8 /\ t[9] = a9 /\ t[10] = a10
OBVIOUS

\* The fields of job_to_json, and the symbols they are made of.
JsonFields(id, job) ==
  <<Kv("id", <<id>>), Kv("name", job.name), Kv("status", <<job.status>>),
    Kv("schedule_type", job.schedule_type), Kv("schedule_expr", job.schedule_expr),
    Kv("execution_target", job.execution_target),
    KvInt("max_retries", job.max_retries),
    KvInt("retry_delay_s", job.retry_delay),
    KvInt("retry_count", job.retry_count), KvInt("next_run_time", job.next_run_time)>>

JsonSymbol(job) ==
  Symbol \cup {Numeral(job.max_retries), Numeral(job.retry_delay), Numeral(job.retry_count),
               Numeral(job.next_run_time)}

\* The key that each of them holds.
JsonKeys ==
  <<"id", "name", "status", "schedule_type", "schedule_expr", "execution_target",
    "max_retries", "retry_delay_s", "retry_count", "next_run_time">>

LEMMA JsonFieldKeys ==
  ASSUME NEW job, IsAsked(job), NEW id \in STRING, id \notin Keys, ~JobPoses(job)
  PROVE  /\ JsonFields(id, job) \in Seq(Seq(JsonSymbol(job)))
         /\ Len(JsonFields(id, job)) = 10
         /\ \A i \in 1 .. 10 : OnlyKey(JsonFields(id, job)[i], JsonKeys[i])
         /\ IsKv(JsonFields(id, job)[2], "name", job.name)
         /\ IsKv(JsonFields(id, job)[4], "schedule_type", job.schedule_type)
         /\ IsKv(JsonFields(id, job)[5], "schedule_expr", job.schedule_expr)
         /\ IsKv(JsonFields(id, job)[6], "execution_target", job.execution_target)
         /\ IsKvInt(JsonFields(id, job)[7], "max_retries", job.max_retries)
<1> DEFINE X == JsonSymbol(job)
           fs == JsonFields(id, job)
           a1 == Kv("id", <<id>>)
           a2 == Kv("name", job.name)
           a3 == Kv("status", <<job.status>>)
           a4 == Kv("schedule_type", job.schedule_type)
           a5 == Kv("schedule_expr", job.schedule_expr)
           a6 == Kv("execution_target", job.execution_target)
           a7 == KvInt("max_retries", job.max_retries)
           a8 == KvInt("retry_delay_s", job.retry_delay)
           a9 == KvInt("retry_count", job.retry_count)
           a10 == KvInt("next_run_time", job.next_run_time)
<1>1. /\ Symbol \subseteq X
      /\ Numeral(job.max_retries) \in X /\ Numeral(job.retry_delay) \in X
      /\ Numeral(job.retry_count) \in X /\ Numeral(job.next_run_time) \in X
  BY DEF JsonSymbol
<1> HIDE DEF X
<1>2. /\ "id" \in X /\ "name" \in X /\ "status" \in X /\ "schedule_type" \in X
      /\ "schedule_expr" \in X /\ "execution_target" \in X /\ "max_retries" \in X
      /\ "retry_delay_s" \in X /\ "retry_count" \in X /\ "next_run_time" \in X
  BY <1>1, SymbolFacts DEF StringKeys, IntKeys
<1>3. /\ job.name \in Seq(Symbol) /\ job.schedule_type \in Seq(Symbol)
      /\ job.schedule_expr \in Seq(Symbol) /\ job.execution_target \in Seq(Symbol)
  BY DEF IsAsked
<1>4. ASSUME NEW v \in Seq(Symbol),
             v \in {job.name, job.schedule_type, job.schedule_expr, job.execution_target}
      PROVE  \A key \in Keys : NoKeyIn(Quoted(Escape(v)), key)
  <2>1. Escape(v) \in Seq(Symbol)
    BY EscapePrefixes
  <2>2. Quoted(Escape(v)) \in Seq(Symbol)
    BY <2>1, SymbolFacts, QuotedParts
  <2>3. \A key \in Keys : KeyAt(Quoted(Escape(v)), key) = 0
    BY <1>4 DEF JobPoses, Keys
  <2> QED
    BY <2>2, <2>3, KeyAtFacts
<1>5. "Active" \in Symbol /\ "Active" \notin Keys /\ id \in Symbol
  BY SymbolFacts DEF Keys, StringKeys, IntKeys
<1>6. job.status = "Active"
  <2>1. job = NewJob(RequestOf(job), job.next_run_time)
    BY DEF IsAsked
  <2>2. \A req, n : NewJob(req, n).status = "Active"
    BY DEF NewJob
  <2> QED
    BY <2>1, <2>2
<1>a. a1 \in Seq(X) /\ OnlyKey(a1, "id")
  BY <1>1, <1>2, <1>5, WordField
<1>b. a2 \in Seq(X) /\ OnlyKey(a2, "name") /\ IsKv(a2, "name", job.name)
  BY <1>1, <1>2, <1>3, <1>4, TextField, KvParts
<1>c. a3 \in Seq(X) /\ OnlyKey(a3, "status")
  BY <1>1, <1>2, <1>5, <1>6, WordField
<1>d. /\ a4 \in Seq(X) /\ OnlyKey(a4, "schedule_type")
      /\ IsKv(a4, "schedule_type", job.schedule_type)
  BY <1>1, <1>2, <1>3, <1>4, TextField, KvParts
<1>e. /\ a5 \in Seq(X) /\ OnlyKey(a5, "schedule_expr")
      /\ IsKv(a5, "schedule_expr", job.schedule_expr)
  BY <1>1, <1>2, <1>3, <1>4, TextField, KvParts
<1>f. /\ a6 \in Seq(X) /\ OnlyKey(a6, "execution_target")
      /\ IsKv(a6, "execution_target", job.execution_target)
  BY <1>1, <1>2, <1>3, <1>4, TextField, KvParts
<1>g. /\ a7 \in Seq(X) /\ OnlyKey(a7, "max_retries")
      /\ IsKvInt(a7, "max_retries", job.max_retries)
  BY <1>1, <1>2, IntField, KvIntParts
<1>h. a8 \in Seq(X) /\ OnlyKey(a8, "retry_delay_s")
  BY <1>1, <1>2, IntField
<1>i. a9 \in Seq(X) /\ OnlyKey(a9, "retry_count")
  BY <1>1, <1>2, IntField
<1>j. a10 \in Seq(X) /\ OnlyKey(a10, "next_run_time")
  BY <1>1, <1>2, IntField
<1>k. fs = <<a1, a2, a3, a4, a5, a6, a7, a8, a9, a10>>
  BY DEF JsonFields
<1> HIDE DEF a1, a2, a3, a4, a5, a6, a7, a8, a9, a10, fs
<1>l. /\ fs \in Seq(Seq(X)) /\ Len(fs) = 10
      /\ fs[1] = a1 /\ fs[2] = a2 /\ fs[3] = a3 /\ fs[4] = a4 /\ fs[5] = a5
      /\ fs[6] = a6 /\ fs[7] = a7 /\ fs[8] = a8 /\ fs[9] = a9 /\ fs[10] = a10
  BY <1>a, <1>b, <1>c, <1>d, <1>e, <1>f, <1>g, <1>h, <1>i, <1>j, <1>k, TenFields
<1>m. \A i \in 1 .. 10 : OnlyKey(fs[i], JsonKeys[i])
  <2>1. SUFFICES ASSUME NEW i \in 1 .. 10 PROVE OnlyKey(fs[i], JsonKeys[i])
    OBVIOUS
  <2>2. \/ i = 1 \/ i = 2 \/ i = 3 \/ i = 4 \/ i = 5
        \/ i = 6 \/ i = 7 \/ i = 8 \/ i = 9 \/ i = 10
    BY <2>1
  <2>3. /\ JsonKeys[1] = "id" /\ JsonKeys[2] = "name" /\ JsonKeys[3] = "status"
        /\ JsonKeys[4] = "schedule_type" /\ JsonKeys[5] = "schedule_expr"
        /\ JsonKeys[6] = "execution_target" /\ JsonKeys[7] = "max_retries"
        /\ JsonKeys[8] = "retry_delay_s" /\ JsonKeys[9] = "retry_count"
        /\ JsonKeys[10] = "next_run_time"
    BY DEF JsonKeys
  <2> QED
    BY <1>a, <1>b, <1>c, <1>d, <1>e, <1>f, <1>g, <1>h, <1>i, <1>j, <1>l, <2>2, <2>3
<1> QED
  BY <1>b, <1>d, <1>e, <1>f, <1>g, <1>l, <1>m DEF X, fs

\* A reply is read as the job it was written from.
LEMMA ReplyReads ==
  ASSUME NEW job, IsAsked(job), NEW id \in STRING, id \notin Keys, ~JobPoses(job)
  PROVE  ReadRequest(JobToJson(id, job))
           = [RequestOf(job) EXCEPT !.retry_delay_seconds = 5]
<1> DEFINE X == JsonSymbol(job)
           fs == JsonFields(id, job)
           w == JobToJson(id, job)
<1>1. w = Obj(fs)
  BY Zenon DEF JobToJson, JsonFields
<1>2. /\ fs \in Seq(Seq(X)) /\ Len(fs) = 10
      /\ \A i \in 1 .. 10 : OnlyKey(fs[i], JsonKeys[i])
      /\ IsKv(fs[2], "name", job.name)
      /\ IsKv(fs[4], "schedule_type", job.schedule_type)
      /\ IsKv(fs[5], "schedule_expr", job.schedule_expr)
      /\ IsKv(fs[6], "execution_target", job.execution_target)
      /\ IsKvInt(fs[7], "max_retries", job.max_retries)
  BY JsonFieldKeys
<1>3. Symbol \subseteq X
  BY DEF JsonSymbol
<1>4. /\ job.name \in Seq(Symbol) /\ job.schedule_type \in Seq(Symbol)
      /\ job.schedule_expr \in Seq(Symbol) /\ job.execution_target \in Seq(Symbol)
      /\ job.max_retries \in Int32
  BY DEF IsAsked
<1>5. /\ "name" \in Keys /\ "schedule_type" \in Keys /\ "schedule_expr" \in Keys
      /\ "execution_target" \in Keys /\ "max_retries" \in Keys
      /\ "retry_delay_seconds" \in Keys
  BY DEF Keys, StringKeys, IntKeys
<1> HIDE DEF X, fs, w
<1>6. ASSUME NEW k \in 1 .. 10, NEW key \in Keys, \A j \in 1 .. k - 1 : JsonKeys[j] # key
      PROVE  \A j \in 1 .. k - 1 : NoKeyIn(fs[j], key)
  <2>1. \A j \in 1 .. k - 1 : j \in 1 .. 10
    BY <1>6
  <2> QED
    BY <1>2, <1>6, <2>1 DEF OnlyKey
<1>s. ASSUME NEW k \in 1 .. 10, NEW key \in Keys, \A j \in 1 .. k - 1 : JsonKeys[j] # key,
             NEW v \in Seq(Symbol), IsKv(fs[k], key, v)
      PROVE  GetStr(w, key) = v
  <2>1. k \in 1 .. Len(fs) /\ IsKey(key) /\ \A j \in 1 .. k - 1 : NoKeyIn(fs[j], key)
    BY <1>2, <1>6, <1>s, KeyRules
  <2> QED
    BY <1>1, <1>2, <1>3, <1>s, <2>1, ReadsString
<1>7. GetStr(w, "name") = job.name
  <2>1. 2 \in 1 .. 10 /\ \A j \in 1 .. 2 - 1 : JsonKeys[j] # "name"
    BY DEF JsonKeys
  <2> QED
    BY <1>2, <1>4, <1>5, <1>s, <2>1
<1>8. GetStr(w, "schedule_type") = job.schedule_type
  <2>1. 4 \in 1 .. 10 /\ \A j \in 1 .. 4 - 1 : JsonKeys[j] # "schedule_type"
    BY DEF JsonKeys
  <2> QED
    BY <1>2, <1>4, <1>5, <1>s, <2>1
<1>9. GetStr(w, "schedule_expr") = job.schedule_expr
  <2>1. 5 \in 1 .. 10 /\ \A j \in 1 .. 5 - 1 : JsonKeys[j] # "schedule_expr"
    BY DEF JsonKeys
  <2> QED
    BY <1>2, <1>4, <1>5, <1>s, <2>1
<1>10. GetStr(w, "execution_target") = job.execution_target
  <2>1. 6 \in 1 .. 10 /\ \A j \in 1 .. 6 - 1 : JsonKeys[j] # "execution_target"
    BY DEF JsonKeys
  <2> QED
    BY <1>2, <1>4, <1>5, <1>s, <2>1
<1>11. GetInt(w, "max_retries", 0) = job.max_retries
  <2>1. 7 \in 1 .. 10 /\ \A j \in 1 .. 7 - 1 : JsonKeys[j] # "max_retries"
    BY DEF JsonKeys
  <2>2. /\ 7 \in 1 .. Len(fs) /\ IsKey("max_retries")
        /\ \A j \in 1 .. 7 - 1 : NoKeyIn(fs[j], "max_retries")
    BY <1>2, <1>5, <1>6, <2>1, KeyRules
  <2>3. /\ Numeral(job.max_retries) \in DOMAIN Number
        /\ Number[Numeral(job.max_retries)] = job.max_retries
    BY <1>4, IntNumeral
  <2>4. PICK n : n = job.max_retries
    OBVIOUS
  <2>5. GetInt(Obj(fs), "max_retries", 0)
          = IF Numeral(n) \in DOMAIN Number /\ Number[Numeral(n)] \in Int32
            THEN Number[Numeral(n)] ELSE 0
    BY <1>2, <1>3, <2>2, <2>4, ReadsInteger
  <2> QED
    BY <1>1, <1>4, <2>3, <2>4, <2>5
<1>12. GetInt(w, "retry_delay_seconds", 5) = 5
  <2>1. \A i \in 1 .. 10 : JsonKeys[i] # "retry_delay_seconds"
    BY DEF JsonKeys
  <2>2. \A i \in 1 .. Len(fs) : NoKeyIn(fs[i], "retry_delay_seconds")
    BY <1>2, <1>5, <2>1 DEF OnlyKey
  <2>3. IsKey("retry_delay_seconds")
    BY <1>5, KeyRules
  <2>4. GetInt(Obj(fs), "retry_delay_seconds", 5) = 5
    BY <1>2, <1>3, <2>2, <2>3, ReadsNothing
  <2> QED
    BY <1>1, <2>4
<1>13. ReadRequest(w) =
         [name |-> job.name, schedule_type |-> job.schedule_type,
          schedule_expr |-> job.schedule_expr,
          execution_target |-> job.execution_target,
          max_retries |-> job.max_retries, retry_delay_seconds |-> 5]
  BY <1>7, <1>8, <1>9, <1>10, <1>11, <1>12 DEF ReadRequest
<1> QED
  BY <1>13 DEF RequestOf, w

(***************************************************************************)
(* A 201 reply can be posted again: whatever is escaped in the texts of    *)
(* the job, get_str and get_int read back from it the job that was created *)
(* but for its retry delay, unless one of its texts poses as a key.        *)
(***************************************************************************)
THEOREM RepliesRead == Spec => []ReplyIsARequest
<1>1. ASSUME CallsOK
      PROVE  ReplyIsARequest
  <2>1. SUFFICES ASSUME NEW c \in Client, call[c].pc = "reply", call[c].code = 201,
                        ~JobPoses(call[c].job)
                 PROVE  NewJob(ReadRequest(JobToJson(call[c].id, call[c].job)),
                               call[c].job.next_run_time)
                          = [call[c].job EXCEPT !.retry_delay = 5]
    BY DEF ReplyIsARequest
  <2>2. PICK job : job = call[c].job
    OBVIOUS
  <2>3. PICK id \in Id : id = call[c].id
    BY <1>1, <2>1 DEF CallsOK, CallOK
  <2>4. IsAsked(job) /\ ~JobPoses(job)
    BY <1>1, <2>1, <2>2 DEF CallsOK, CallOK
  <2>5. id \in STRING /\ id \notin Keys
    BY ApiAssumption, IdAssumption DEF ApiAssumption, IdAssumption, Keys
  <2>6. ReadRequest(JobToJson(id, job)) = [RequestOf(job) EXCEPT !.retry_delay_seconds = 5]
    BY <2>4, <2>5, ReplyReads
  <2>7. NewJob([RequestOf(job) EXCEPT !.retry_delay_seconds = 5], job.next_run_time)
          = [NewJob(RequestOf(job), job.next_run_time) EXCEPT !.retry_delay = 5]
    BY DEF NewJob, RequestOf
  <2>8. job = NewJob(RequestOf(job), job.next_run_time)
    BY <2>4 DEF IsAsked
  <2> QED
    BY <2>2, <2>3, <2>6, <2>7, <2>8
<1> QED
  BY <1>1, CallsAlways, PTL

=============================================================================
