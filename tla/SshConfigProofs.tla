--------------------------- MODULE SshConfigProofs ---------------------------
(***************************************************************************)
(* get_host_config reads a plain text of any length, with any lines, as    *)
(* OpenSSH does, and two forms of text otherwise.                          *)
(*                                                                         *)
(* The parser collects blocks and then applies them; OpenSSH looks for the *)
(* first line that applies.  The proof is by induction on the lines read:  *)
(* if the text ended here, applying the blocks would give every keyword    *)
(* the value of the first line that applies so far.  Induction is over a   *)
(* set of numbers (Counted), and the recursive functions are shown to      *)
(* exist with it.                                                          *)
(***************************************************************************)
EXTENDS SshConfig, WellFoundedInduction, TLAPS

-----------------------------------------------------------------------------
(* Induction. *)

LEMMA LeastNat ==
    ASSUME NEW S, S \subseteq Nat, S # {}
    PROVE  \E x \in S : \A y \in S : x <= y
<1> DEFINE R == OpToRel(<, Nat)
<1>1. \A x, y \in Nat : <<x, y>> \in R <=> x < y
  BY DEF OpToRel
<1>2. IsWellFoundedOn(R, Nat)
  BY NatLessThanWellFounded
<1> HIDE DEF R
<1>3. PICK x \in S : \A y \in S : ~ (<<y, x>> \in R)
  BY <1>2, WFMin
<1>4. \A y \in S : ~ (y < x)
  BY <1>1, <1>3
<1> QED
  BY <1>4

\* A set with 0 and with the successor of each of its elements up to n.
LEMMA Counted ==
    ASSUME NEW n \in Nat, NEW S, 0 \in S, \A i \in 0..n : i \in S /\ i < n => i + 1 \in S
    PROVE  0..n \subseteq S
<1> DEFINE Missed == (0..n) \ S
<1> SUFFICES ASSUME Missed # {} PROVE FALSE
  OBVIOUS
<1>1. PICK m \in Missed : \A k \in Missed : m <= k
  <2>1. Missed \subseteq Nat
    OBVIOUS
  <2> HIDE DEF Missed
  <2> QED
    BY <2>1, LeastNat
<1>2. m \in 1..n /\ m - 1 \in 0..n /\ m - 1 < n /\ m - 1 \notin Missed
  BY <1>1
<1>3. m - 1 + 1 \in S
  BY <1>2
<1> QED
  BY <1>2, <1>3

-----------------------------------------------------------------------------
(* The two recursive functions. *)

Nothing == [blocks |-> <<>>, patterns |-> {}, block |-> <<>>]

IsReadings(r, text, n) ==
    r = [i \in 0..n |-> IF i = 0 THEN Nothing ELSE Read(r[i - 1], text[i])]

LEMMA ReadingsExist ==
    ASSUME NEW text, NEW n \in Nat
    PROVE  \E r : IsReadings(r, text, n)
<1> DEFINE S == {m \in 0..n : \E r : IsReadings(r, text, m)}
<1>1. 0 \in S
  <2>1. IsReadings([i \in 0..0 |-> Nothing], text, 0)
    BY DEF IsReadings
  <2> QED
    BY <2>1
<1>2. ASSUME NEW m \in 0..n, m \in S, m < n PROVE m + 1 \in S
  <2>1. PICK r : IsReadings(r, text, m)
    BY <1>2
  <2> DEFINE g == [i \in 0..(m + 1) |-> IF i = m + 1 THEN Read(r[m], text[m + 1]) ELSE r[i]]
  <2>2. \A i \in 0..m : r[i] = IF i = 0 THEN Nothing ELSE Read(r[i - 1], text[i])
    BY <2>1 DEF IsReadings
  <2>3. \A i \in 0..(m + 1) : g[i] = IF i = 0 THEN Nothing ELSE Read(g[i - 1], text[i])
    <3> SUFFICES ASSUME NEW i \in 0..(m + 1)
                 PROVE  g[i] = IF i = 0 THEN Nothing ELSE Read(g[i - 1], text[i])
      OBVIOUS
    <3>1. CASE i = m + 1
      <4>1. g[i - 1] = r[m] /\ g[i] = Read(r[m], text[m + 1]) /\ i # 0
        BY <3>1
      <4> HIDE DEF g
      <4> QED
        BY <3>1, <4>1
    <3>2. CASE i = 0
      BY <2>2, <3>2
    <3>3. CASE i \in 1..m
      <4>1. g[i] = r[i] /\ g[i - 1] = r[i - 1] /\ i # 0 /\ i \in 0..m
        BY <3>3
      <4> HIDE DEF g
      <4> QED
        BY <2>2, <4>1
    <3> QED
      BY <3>1, <3>2, <3>3
  <2>4. IsReadings(g, text, m + 1)
    <3>1. g = [i \in 0..(m + 1) |-> g[i]]
      OBVIOUS
    <3> HIDE DEF g
    <3> QED
      BY <2>3, <3>1 DEF IsReadings
  <2> HIDE DEF g
  <2> QED
    BY <1>2, <2>4
<1>3. 0..n \subseteq S
  <2> HIDE DEF S
  <2> QED
    BY <1>1, <1>2, Counted
<1> QED
  BY <1>3

LEMMA ReadingsStep ==
    ASSUME NEW text, Len(text) \in Nat
    PROVE  /\ Readings(text)[0] = Nothing
           /\ \A i \in 1..Len(text) : Readings(text)[i] = Read(Readings(text)[i - 1], text[i])
<1>1. IsReadings(Readings(text), text, Len(text))
  BY ReadingsExist DEF Readings, IsReadings, Nothing
<1> HIDE DEF Nothing
<1> DEFINE r == Readings(text)
<1>2. r = [i \in 0..Len(text) |-> IF i = 0 THEN Nothing ELSE Read(r[i - 1], text[i])]
  BY <1>1 DEF IsReadings
<1> HIDE DEF r
<1>3. \A i \in 0..Len(text) : r[i] = IF i = 0 THEN Nothing ELSE Read(r[i - 1], text[i])
  BY <1>2
<1>4. r[0] = Nothing /\ \A i \in 1..Len(text) : r[i] = Read(r[i - 1], text[i])
  BY <1>3
<1> QED
  BY <1>4 DEF r

IsResults(r, blocks, host, n) ==
    r = [i \in 0..n |-> IF i = 0 THEN Defaults(host) ELSE Apply(r[i - 1], blocks[i], host)]

LEMMA ResultsExist ==
    ASSUME NEW blocks, NEW host, NEW n \in Nat
    PROVE  \E r : IsResults(r, blocks, host, n)
<1> DEFINE S == {m \in 0..n : \E r : IsResults(r, blocks, host, m)}
<1>1. 0 \in S
  <2>1. IsResults([i \in 0..0 |-> Defaults(host)], blocks, host, 0)
    BY DEF IsResults
  <2> QED
    BY <2>1
<1>2. ASSUME NEW m \in 0..n, m \in S, m < n PROVE m + 1 \in S
  <2>1. PICK r : IsResults(r, blocks, host, m)
    BY <1>2
  <2> DEFINE g == [i \in 0..(m + 1) |->
                     IF i = m + 1 THEN Apply(r[m], blocks[m + 1], host) ELSE r[i]]
  <2>2. \A i \in 0..m :
           r[i] = IF i = 0 THEN Defaults(host) ELSE Apply(r[i - 1], blocks[i], host)
    BY <2>1 DEF IsResults
  <2>3. \A i \in 0..(m + 1) :
           g[i] = IF i = 0 THEN Defaults(host) ELSE Apply(g[i - 1], blocks[i], host)
    <3> SUFFICES ASSUME NEW i \in 0..(m + 1)
                 PROVE  g[i] = IF i = 0 THEN Defaults(host)
                               ELSE Apply(g[i - 1], blocks[i], host)
      OBVIOUS
    <3>1. CASE i = m + 1
      <4>1. g[i - 1] = r[m] /\ g[i] = Apply(r[m], blocks[m + 1], host) /\ i # 0
        BY <3>1
      <4> HIDE DEF g
      <4> QED
        BY <3>1, <4>1
    <3>2. CASE i = 0
      BY <2>2, <3>2
    <3>3. CASE i \in 1..m
      <4>1. g[i] = r[i] /\ g[i - 1] = r[i - 1] /\ i # 0 /\ i \in 0..m
        BY <3>3
      <4> HIDE DEF g
      <4> QED
        BY <2>2, <4>1
    <3> QED
      BY <3>1, <3>2, <3>3
  <2>4. IsResults(g, blocks, host, m + 1)
    <3>1. g = [i \in 0..(m + 1) |-> g[i]]
      OBVIOUS
    <3> HIDE DEF g
    <3> QED
      BY <2>3, <3>1 DEF IsResults
  <2> HIDE DEF g
  <2> QED
    BY <1>2, <2>4
<1>3. 0..n \subseteq S
  <2> HIDE DEF S
  <2> QED
    BY <1>1, <1>2, Counted
<1> QED
  BY <1>3

LEMMA ResultsStep ==
    ASSUME NEW blocks, NEW host, Len(blocks) \in Nat
    PROVE  /\ Resolved(blocks, host)[0] = Defaults(host)
           /\ \A i \in 1..Len(blocks) :
                Resolved(blocks, host)[i] = Apply(Resolved(blocks, host)[i - 1], blocks[i], host)
<1>1. IsResults(Resolved(blocks, host), blocks, host, Len(blocks))
  <2>1. Resolved(blocks, host) = CHOOSE r : IsResults(r, blocks, host, Len(blocks))
    BY DEF Resolved, IsResults
  <2>2. \E r : IsResults(r, blocks, host, Len(blocks))
    BY ResultsExist
  <2> QED
    BY <2>1, <2>2
<1> DEFINE r == Resolved(blocks, host)
<1>2. r = [i \in 0..Len(blocks) |->
             IF i = 0 THEN Defaults(host) ELSE Apply(r[i - 1], blocks[i], host)]
  BY <1>1 DEF IsResults
<1> HIDE DEF r
<1>3. \A i \in 0..Len(blocks) :
         r[i] = IF i = 0 THEN Defaults(host) ELSE Apply(r[i - 1], blocks[i], host)
  BY <1>2
<1>4. /\ r[0] = Defaults(host)
      /\ \A i \in 1..Len(blocks) : r[i] = Apply(r[i - 1], blocks[i], host)
  BY <1>3
<1> QED
  BY <1>4 DEF r

-----------------------------------------------------------------------------
(* Applying the blocks. *)

Final(blocks, host) == Resolved(blocks, host)[Len(blocks)]

\* A block more is applied to what the others gave.
LEMMA OneBlockMore ==
    ASSUME NEW S, NEW blocks \in Seq(S), NEW b \in S, NEW host
    PROVE  Final(Append(blocks, b), host) = Apply(Final(blocks, host), b, host)
<1> DEFINE n == Len(blocks)
           more == Append(blocks, b)
           A == {i \in 0..n : Resolved(more, host)[i] = Resolved(blocks, host)[i]}
<1>1. n \in Nat /\ Len(more) = n + 1 /\ Len(more) \in Nat /\ more[n + 1] = b
      /\ \A i \in 1..n : more[i] = blocks[i]
  OBVIOUS
<1> HIDE DEF more
<1>2. 0 \in A
  BY <1>1, ResultsStep
<1>3. ASSUME NEW i \in 0..n, i \in A, i < n PROVE i + 1 \in A
  <2>1. i + 1 \in 1..n /\ i + 1 \in 1..Len(more) /\ i + 1 - 1 = i
    BY <1>1, <1>3
  <2>2. Resolved(more, host)[i + 1] = Apply(Resolved(more, host)[i], blocks[i + 1], host)
    <3>1. Resolved(more, host)[i + 1] = Apply(Resolved(more, host)[i + 1 - 1], more[i + 1], host)
      <4>1. \A j \in 1..Len(more) :
               Resolved(more, host)[j] = Apply(Resolved(more, host)[j - 1], more[j], host)
        BY <1>1, ResultsStep
      <4> QED
        BY <2>1, <4>1
    <3>2. more[i + 1] = blocks[i + 1]
      BY <1>1, <2>1
    <3> QED
      BY <2>1, <3>1, <3>2
  <2>3. Resolved(blocks, host)[i + 1] = Apply(Resolved(blocks, host)[i], blocks[i + 1], host)
    BY <1>1, <2>1, ResultsStep
  <2> QED
    BY <1>3, <2>1, <2>2, <2>3
<1>4. n \in A
  <2> HIDE DEF A
  <2>1. 0..n \subseteq A
    BY <1>1, <1>2, <1>3, Counted
  <2> QED
    BY <1>1, <2>1
<1>5. Resolved(more, host)[n + 1] = Apply(Resolved(more, host)[n], b, host)
  BY <1>1, ResultsStep
<1> QED
  BY <1>1, <1>4, <1>5 DEF Final, more

Selects(patterns, host) == \E p \in patterns : HostMatches(host, p)

\* The patterns, blocks and entries that can be read in a text.
Patterns(text) == {text[i].patterns : i \in 1..Len(text)} \cup {{}}

BlocksOf(text) ==
    UNION {[D -> {text[i].value : i \in 1..Len(text)}] : D \in SUBSET {text[i].key : i \in 1..Len(text)}}

Entries(text) == [patterns : Patterns(text), block : BlocksOf(text)]

ReadingTypes(text) ==
    [blocks : Seq(Entries(text)), patterns : Patterns(text), block : BlocksOf(text)]

\* What the text read so far would give, if it ended here.
LEMMA AppliedWhenClosed ==
    ASSUME NEW text, NEW r \in ReadingTypes(text), NEW host, NEW k \in Keywords
    PROVE  Final(Close(r), host)[k] =
             IF /\ Selects(r.patterns, host) /\ k \in DOMAIN r.block
                /\ Final(r.blocks, host)[k] = Default(k, host)
               THEN r.block[k] ELSE Final(r.blocks, host)[k]
<1>1. CASE r.patterns = {}
  BY <1>1 DEF Close, Selects
<1>2. CASE r.patterns # {}
  <2> DEFINE b == [patterns |-> r.patterns, block |-> r.block]
  <2>1. b \in Entries(text) /\ r.blocks \in Seq(Entries(text))
    BY DEF Entries, ReadingTypes
  <2>2. Close(r) = Append(r.blocks, b)
    BY <1>2 DEF Close
  <2>3. Final(Close(r), host) = Apply(Final(r.blocks, host), b, host)
    <3> HIDE DEF b
    <3> QED
      BY <2>1, <2>2, OneBlockMore
  <2> QED
    BY <2>3 DEF Apply, Obtain, Selects
<1> QED
  BY <1>1, <1>2

-----------------------------------------------------------------------------
(* The first line that applies, of those read so far. *)

Found(text, i, k, host) == {j \in 1..i : text[j].key = k /\ Applies(text, j, host)}

Least(S) == CHOOSE j \in S : \A l \in S : j <= l

FirstSoFar(text, i, k, host) ==
    IF Found(text, i, k, host) = {} THEN Default(k, host)
    ELSE text[Least(Found(text, i, k, host))].value

LEMMA LeastIs ==
    ASSUME NEW S, S \subseteq Nat, NEW m \in S, \A l \in S : m <= l
    PROVE  Least(S) = m
<1>1. Least(S) \in S /\ \A l \in S : Least(S) <= l
  <2> DEFINE P(j) == j \in S /\ \A l \in S : j <= l
  <2>1. \E j : P(j)
    OBVIOUS
  <2>2. P(CHOOSE j : P(j))
    <3> HIDE DEF P
    <3> QED
      BY <2>1, Zenon
  <2>3. Least(S) = CHOOSE j : P(j)
    BY DEF Least
  <2> QED
    BY <2>2, <2>3
<1>2. Least(S) \in Nat /\ m \in Nat /\ Least(S) <= m /\ m <= Least(S)
  BY <1>1
<1> HIDE DEF Least
<1> QED
  BY <1>2

LEMMA LeastOfNats ==
    ASSUME NEW S, S \subseteq Nat, S # {}
    PROVE  /\ Least(S) \in S
           /\ \A x \in Nat : (\A y \in S : y < x) => Least(S \cup {x}) = Least(S)
<1>1. PICK m \in S : \A l \in S : m <= l
  BY LeastNat
<1>2. Least(S) = m
  BY <1>1, LeastIs
<1>3. ASSUME NEW x \in Nat, \A y \in S : y < x PROVE Least(S \cup {x}) = m
  <2>1. S \cup {x} \subseteq Nat /\ m \in S \cup {x} /\ \A l \in S \cup {x} : m <= l
    BY <1>1, <1>3
  <2> QED
    BY <2>1, LeastIs
<1> QED
  BY <1>1, <1>2, <1>3

\* No line gives a keyword its default, so a keyword that has it was not found.
LEMMA FoundIsNotDefault ==
    ASSUME NEW T, NEW text \in Seq(T), NEW host, Plain(text, host), NEW i \in 0..Len(text),
           NEW k \in Keywords
    PROVE  FirstSoFar(text, i, k, host) = Default(k, host) <=> Found(text, i, k, host) = {}
<1> DEFINE F == Found(text, i, k, host)
<1>1. F \subseteq Nat /\ F \subseteq DOMAIN text /\ \A l \in F : text[l].key = k
  BY DEF Found
<1>2. ASSUME F # {} PROVE Least(F) \in F
  BY <1>1, <1>2, LeastOfNats
<1>3. ASSUME F # {} PROVE text[Least(F)].value # Default(k, host)
  BY <1>1, <1>2, <1>3 DEF Plain
<1> QED
  BY <1>3 DEF FirstSoFar

\* A line more is the first only of a keyword that was not found.
LEMMA FirstOfOneMore ==
    ASSUME NEW T, NEW text \in Seq(T), NEW host, Plain(text, host),
           NEW i \in 0..Len(text), i < Len(text), NEW k \in Keywords
    PROVE  FirstSoFar(text, i + 1, k, host) =
             IF /\ text[i + 1].key = k /\ Applies(text, i + 1, host)
                /\ FirstSoFar(text, i, k, host) = Default(k, host)
               THEN text[i + 1].value ELSE FirstSoFar(text, i, k, host)
<1> DEFINE F == Found(text, i, k, host)
           G == Found(text, i + 1, k, host)
           here == text[i + 1].key = k /\ Applies(text, i + 1, host)
<1>1. i + 1 \in Nat /\ 1..(i + 1) = (1..i) \cup {i + 1}
  OBVIOUS
<1>2. G = IF here THEN F \cup {i + 1} ELSE F
  BY <1>1 DEF Found
<1>3. F \subseteq Nat /\ \A y \in F : y < i + 1
  BY DEF Found
<1>4. Least({i + 1}) = i + 1
  BY <1>1 DEF Least
<1>5. /\ FirstSoFar(text, i, k, host) = IF F = {} THEN Default(k, host) ELSE text[Least(F)].value
      /\ FirstSoFar(text, i + 1, k, host)
           = IF G = {} THEN Default(k, host) ELSE text[Least(G)].value
      /\ FirstSoFar(text, i, k, host) = Default(k, host) <=> F = {}
  BY FoundIsNotDefault DEF FirstSoFar
<1>6. F # {} /\ here => Least(G) = Least(F) /\ G # {}
  <2> HIDE DEF F, G, here
  <2> QED
    BY <1>1, <1>2, <1>3, LeastOfNats
<1>7. F = {} /\ here => Least(G) = i + 1 /\ G # {}
  <2> HIDE DEF F, G, here
  <2>1. F = {} /\ here => G = {i + 1}
    BY <1>2
  <2> QED
    BY <1>4, <2>1
<1>8. ~here => G = F
  BY <1>2
<1> HIDE DEF F, G, here
<1>9. FirstSoFar(text, i + 1, k, host) =
        IF here /\ F = {} THEN text[i + 1].value ELSE FirstSoFar(text, i, k, host)
  BY <1>5, <1>6, <1>7, <1>8
<1> QED
  BY <1>5, <1>9 DEF here

-----------------------------------------------------------------------------
(* What has been read. *)

\* c is the line of the last header among the first i lines.
LastHeader(text, i, c) == c \in Headers(text, i) /\ \A h \in Headers(text, i) : h <= c

\* After i lines: the patterns are those of the last header, the block's keys are
\* those of lines after it, and closing it would give what OpenSSH has obtained.
ReadSoFar(text, host, i) ==
    LET r == Readings(text)[i] IN
    /\ r \in ReadingTypes(text)
    /\ i > 0 => \E c \in 1..i : LastHeader(text, i, c) /\ r.patterns = text[c].patterns
    /\ \A k \in DOMAIN r.block :
         \E j \in 1..i : text[j].key = k /\ Headers(text, j) = Headers(text, i)
    /\ \A k \in Keywords : Final(Close(r), host)[k] = FirstSoFar(text, i, k, host)

LEMMA EmptyBlock == ASSUME NEW text PROVE <<>> \in BlocksOf(text)
<1>1. <<>> \in [{} -> {text[i].value : i \in 1..Len(text)}]
  OBVIOUS
<1> QED
  BY <1>1 DEF BlocksOf

LEMMA NothingRead ==
    ASSUME NEW T, NEW text \in Seq(T), NEW host
    PROVE  ReadSoFar(text, host, 0)
<1>1. Readings(text)[0] = Nothing
  BY ReadingsStep
<1>2. <<>> \in BlocksOf(text) /\ <<>> \in Seq(Entries(text)) /\ {} \in Patterns(text)
  BY EmptyBlock DEF Patterns
<1>3. Close(Nothing) = <<>> /\ Nothing.block = <<>> /\ DOMAIN Nothing.block = {}
  BY DEF Close, Nothing
<1>4. \A k \in Keywords : Final(<<>>, host)[k] = Default(k, host)
  <2>1. Len(<<>>) = 0
    OBVIOUS
  <2>2. Resolved(<<>>, host)[0] = Defaults(host)
    BY <2>1, ResultsStep
  <2> QED
    BY <2>1, <2>2 DEF Final, Defaults
<1>5. \A k \in Keywords : FirstSoFar(text, 0, k, host) = Default(k, host)
  BY DEF FirstSoFar, Found
<1> QED
  BY <1>1, <1>2, <1>3, <1>4, <1>5 DEF ReadSoFar, ReadingTypes, Nothing

LEMMA CloseKeeps ==
    ASSUME NEW text, NEW r \in ReadingTypes(text)
    PROVE  Close(r) \in Seq(Entries(text))
<1>1. /\ r.blocks \in Seq(Entries(text))
      /\ [patterns |-> r.patterns, block |-> r.block] \in Entries(text)
  BY DEF ReadingTypes, Entries
<1> QED
  BY <1>1 DEF Close

LEMMA HeaderRead ==
    ASSUME NEW T, NEW text \in Seq(T), NEW host, Plain(text, host),
           NEW i \in 0..Len(text), i < Len(text), ReadSoFar(text, host, i),
           text[i + 1].key = "host"
    PROVE  ReadSoFar(text, host, i + 1)
<1> DEFINE r == Readings(text)[i]
           s == Readings(text)[i + 1]
<1>1. i + 1 \in 1..Len(text) /\ i + 1 - 1 = i /\ i + 1 > 0
  OBVIOUS
<1>2. s = [blocks |-> Close(r), patterns |-> text[i + 1].patterns, block |-> <<>>]
  <2>1. s = Read(Readings(text)[i + 1 - 1], text[i + 1])
    BY <1>1, ReadingsStep
  <2> QED
    BY <1>1, <2>1 DEF Read
<1>3. r \in ReadingTypes(text) /\ \A k \in Keywords : Final(Close(r), host)[k] = FirstSoFar(text, i, k, host)
  BY DEF ReadSoFar
<1>4. s \in ReadingTypes(text)
  <2>1. Close(r) \in Seq(Entries(text))
    BY <1>3, CloseKeeps
  <2>2. text[i + 1].patterns \in Patterns(text)
    BY <1>1 DEF Patterns
  <2>3. <<>> \in BlocksOf(text)
    BY EmptyBlock
  <2> HIDE DEF r
  <2> QED
    BY <1>2, <2>1, <2>2, <2>3 DEF ReadingTypes
<1>5. LastHeader(text, i + 1, i + 1)
  BY <1>1 DEF LastHeader, Headers
<1>6. ASSUME NEW k \in Keywords
      PROVE  Final(Close(s), host)[k] = FirstSoFar(text, i + 1, k, host)
  <2>1. DOMAIN s.block = {} /\ s.blocks = Close(r)
    BY <1>2
  <2>2. Final(Close(s), host)[k] = Final(s.blocks, host)[k]
    <3> HIDE DEF s
    <3> QED
      BY <1>4, <2>1, AppliedWhenClosed
  <2>3. text[i + 1].key # k
    BY DEF Keywords
  <2>4. FirstSoFar(text, i + 1, k, host) = FirstSoFar(text, i, k, host)
    BY <2>3, FirstOfOneMore
  <2> HIDE DEF s, r
  <2> QED
    BY <1>3, <2>1, <2>2, <2>4
<1>7. s.patterns = text[i + 1].patterns /\ DOMAIN s.block = {}
  BY <1>2
<1> HIDE DEF r
<1> QED
  BY <1>1, <1>4, <1>5, <1>6, <1>7 DEF ReadSoFar

LEMMA KeywordRead ==
    ASSUME NEW T, NEW text \in Seq(T), NEW host, Plain(text, host),
           NEW i \in 0..Len(text), i < Len(text), ReadSoFar(text, host, i),
           text[i + 1].key # "host"
    PROVE  ReadSoFar(text, host, i + 1)
<1> DEFINE r == Readings(text)[i]
           s == Readings(text)[i + 1]
           key == text[i + 1].key
           value == text[i + 1].value
<1>1. i + 1 \in 1..Len(text) /\ i + 1 - 1 = i /\ i + 1 > 0 /\ DOMAIN text = 1..Len(text)
  OBVIOUS
<1>2. r \in ReadingTypes(text) /\ \A k \in Keywords : Final(Close(r), host)[k] = FirstSoFar(text, i, k, host)
  BY DEF ReadSoFar
<1>3. s = [r EXCEPT !.block = [k \in DOMAIN r.block \cup {key} |->
                                  IF k = key THEN value ELSE r.block[k]]]
  <2>1. s = Read(Readings(text)[i + 1 - 1], text[i + 1])
    BY <1>1, ReadingsStep
  <2> QED
    BY <1>1, <1>2, <2>1 DEF Read, ReadingTypes
<1>4. /\ s.blocks = r.blocks /\ s.patterns = r.patterns
      /\ s.block = [k \in DOMAIN r.block \cup {key} |-> IF k = key THEN value ELSE r.block[k]]
  <2> HIDE DEF r, s, key, value
  <2> QED
    BY <1>2, <1>3 DEF ReadingTypes
<1>5. s \in ReadingTypes(text)
  <2>1. s.block \in BlocksOf(text)
    <3>1. PICK D \in SUBSET {text[j].key : j \in 1..Len(text)} :
             r.block \in [D -> {text[j].value : j \in 1..Len(text)}]
      BY <1>2 DEF BlocksOf, ReadingTypes
    <3>2. DOMAIN r.block = D /\ D \cup {key} \in SUBSET {text[j].key : j \in 1..Len(text)}
      BY <1>1, <3>1
    <3>3. s.block \in [D \cup {key} -> {text[j].value : j \in 1..Len(text)}]
      BY <1>1, <1>4, <3>1, <3>2
    <3> HIDE DEF s
    <3> QED
      BY <3>2, <3>3 DEF BlocksOf
  <2> HIDE DEF r, s, key, value
  <2> QED
    BY <1>2, <1>3, <1>4, <2>1 DEF ReadingTypes
<1>6. i > 0
  <2>1. text # <<>>
    BY <1>1
  <2> QED
    BY <2>1 DEF Plain
<1>7. PICK c \in 1..i : LastHeader(text, i, c) /\ r.patterns = text[c].patterns
  BY <1>6 DEF ReadSoFar
<1>8. Headers(text, i + 1) = Headers(text, i)
  BY <1>1 DEF Plain, Headers
<1>9. LastHeader(text, i + 1, c) /\ c \in 1..(i + 1)
  BY <1>7, <1>8 DEF LastHeader
<1>10. Selects(r.patterns, host) <=> Applies(text, i + 1, host)
  <2>1. c \in Headers(text, i + 1) /\ text[c].key = "host"
        /\ \A p \in text[c].patterns : p.sort # "negated"
    BY <1>1, <1>9 DEF LastHeader, Headers, Plain
  <2>2. \A j \in Headers(text, i + 1) : (\A h \in Headers(text, i + 1) : h <= j) <=> j = c
    BY <1>9 DEF LastHeader, Headers
  <2>3. Applies(text, i + 1, host) <=> \E p \in text[c].patterns : host \in p.names
    BY <2>1, <2>2 DEF Applies
  <2>4. Selects(r.patterns, host) <=> \E p \in text[c].patterns : host \in p.names
    BY <1>7, <2>1 DEF Selects, HostMatches
  <2> QED
    BY <2>3, <2>4
<1>11. \A k \in DOMAIN r.block :
          \E j \in 1..i : text[j].key = k /\ Headers(text, j) = Headers(text, i)
  BY DEF ReadSoFar
<1>12. key \in Keywords => key \notin DOMAIN r.block
  <2> SUFFICES ASSUME key \in Keywords, key \in DOMAIN r.block PROVE FALSE
    OBVIOUS
  <2>1. PICK j \in 1..i : text[j].key = key /\ Headers(text, j) = Headers(text, i + 1)
    BY <1>8, <1>11
  <2>2. j \in DOMAIN text /\ i + 1 \in DOMAIN text /\ j < i + 1
    BY <1>1
  <2> QED
    BY <2>1, <2>2 DEF Plain
<1>13. \A k \in DOMAIN s.block :
          \E j \in 1..(i + 1) : text[j].key = k /\ Headers(text, j) = Headers(text, i + 1)
  <2> SUFFICES ASSUME NEW k \in DOMAIN s.block
               PROVE  \E j \in 1..(i + 1) :
                         text[j].key = k /\ Headers(text, j) = Headers(text, i + 1)
    OBVIOUS
  <2>1. k \in DOMAIN r.block \/ k = key
    BY <1>4
  <2> QED
    BY <1>1, <1>8, <1>11, <2>1
<1>14. ASSUME NEW k \in Keywords
       PROVE  Final(Close(s), host)[k] = FirstSoFar(text, i + 1, k, host)
  <2> DEFINE before == Final(r.blocks, host)[k]
             unset == before = Default(k, host)
  <2>1. Final(Close(r), host)[k] =
          IF Selects(r.patterns, host) /\ k \in DOMAIN r.block /\ unset
            THEN r.block[k] ELSE before
    <3> HIDE DEF r
    <3> QED
      BY <1>2, AppliedWhenClosed
  <2>2. Final(Close(s), host)[k] =
          IF Selects(r.patterns, host) /\ k \in DOMAIN s.block /\ unset
            THEN s.block[k] ELSE before
    <3> HIDE DEF r, s
    <3> QED
      BY <1>4, <1>5, AppliedWhenClosed
  <2>3. FirstSoFar(text, i + 1, k, host) =
          IF /\ key = k /\ Applies(text, i + 1, host)
             /\ FirstSoFar(text, i, k, host) = Default(k, host)
            THEN value ELSE FirstSoFar(text, i, k, host)
    BY FirstOfOneMore
  <2>4. Final(Close(r), host)[k] = FirstSoFar(text, i, k, host)
    BY <1>2
  <2> HIDE DEF r, s, key, value, before
  <2>5. CASE k # key
    <3>1. k \in DOMAIN s.block <=> k \in DOMAIN r.block
      BY <1>4, <2>5
    <3>2. k \in DOMAIN r.block => s.block[k] = r.block[k]
      BY <1>4, <2>5
    <3> QED
      BY <2>1, <2>2, <2>3, <2>4, <2>5, <3>1, <3>2
  <2>6. CASE k = key
    <3>1. k \in DOMAIN s.block /\ s.block[k] = value
      BY <1>4, <2>6
    <3>2. k \notin DOMAIN r.block
      BY <1>12, <2>6
    <3> QED
      BY <1>10, <2>1, <2>2, <2>3, <2>4, <2>6, <3>1, <3>2
  <2> QED
    BY <2>5, <2>6
<1>15. \E d \in 1..(i + 1) : LastHeader(text, i + 1, d) /\ s.patterns = text[d].patterns
  BY <1>4, <1>7, <1>9
<1> HIDE DEF r
<1> QED
  BY <1>5, <1>13, <1>14, <1>15 DEF ReadSoFar

\* Every line read, of a plain text of any length.
LEMMA AllRead ==
    ASSUME NEW T, NEW text \in Seq(T), NEW host, Plain(text, host)
    PROVE  ReadSoFar(text, host, Len(text))
<1> DEFINE n == Len(text)
           S == {i \in 0..n : ReadSoFar(text, host, i)}
<1>1. 0 \in S
  BY NothingRead
<1>2. ASSUME NEW i \in 0..n, i \in S, i < n PROVE i + 1 \in S
  BY <1>2, HeaderRead, KeywordRead
<1>3. n \in Nat /\ 0..n \subseteq S
  <2> HIDE DEF S
  <2> QED
    BY <1>1, <1>2, Counted
<1> QED
  BY <1>3

\* get_host_config, of a plain text of any length and with any lines, names,
\* values and patterns, gives every keyword the value OpenSSH obtains.
THEOREM PlainTextsAreReadAsOpenSSH ==
    ASSUME NEW T, NEW text \in Seq(T), NEW host, Plain(text, host), NEW k \in Keywords
    PROVE  GetHostConfig(text, host)[k] = FirstObtained(text, k, host)
<1>1. Final(Blocks(text), host)[k] = FirstSoFar(text, Len(text), k, host)
  BY AllRead DEF ReadSoFar, Blocks
<1>2. GetHostConfig(text, host)[k] = Final(Blocks(text), host)[k]
  BY DEF GetHostConfig, Final
<1>3. FirstObtained(text, k, host) = FirstSoFar(text, Len(text), k, host)
  <2>1. DOMAIN text = 1..Len(text)
    OBVIOUS
  <2> QED
    BY <2>1 DEF FirstObtained, FirstSoFar, Found, Least
<1> QED
  BY <1>1, <1>2, <1>3

-----------------------------------------------------------------------------
(* Where the two part. *)

\* A block of one keyword.
One(k, value) == [x \in {k} |-> value]
Block(patterns, k, value) == [patterns |-> patterns, block |-> One(k, value)]

\* After a Host line and a line more.
Opened(blocks, patterns, k, value) ==
    [blocks |-> blocks, patterns |-> patterns, block |-> One(k, value)]

\* A Host line starts an empty block, and its first keyword is the block's only one.
LEMMA HeaderAndKeyword ==
    ASSUME NEW text, Len(text) \in Nat, NEW i \in Nat, NEW j \in 1..Len(text), j = i + 2,
           NEW patterns, text[i + 1] = HostLine(patterns),
           NEW k \in Keywords, NEW value, text[j] = Line(k, value)
    PROVE  Readings(text)[j] = Opened(Close(Readings(text)[i]), patterns, k, value)
<1>1. k # "host"
  BY DEF Keywords
<1>2. /\ Readings(text)[i + 1] = Read(Readings(text)[i], text[i + 1])
      /\ Readings(text)[j] = Read(Readings(text)[i + 1], text[j])
  <2>1. i + 1 \in 1..Len(text) /\ i + 1 - 1 = i /\ j - 1 = i + 1
    OBVIOUS
  <2>2. \A l \in 1..Len(text) : Readings(text)[l] = Read(Readings(text)[l - 1], text[l])
    BY ReadingsStep
  <2> QED
    BY <2>1, <2>2
<1> DEFINE r == [blocks |-> Close(Readings(text)[i]), patterns |-> patterns, block |-> <<>>]
<1>3. Readings(text)[i + 1] = r
  BY <1>2 DEF Read, HostLine
<1>4. Read(r, Line(k, value)) = [r EXCEPT !.block = [x \in {k} |-> value]]
  <2>1. DOMAIN r.block \cup {k} = {k} /\ r.block = <<>>
    OBVIOUS
  <2>2. Line(k, value).key = k /\ Line(k, value).value = value
    BY DEF Line
  <2> HIDE DEF r
  <2> QED
    BY <1>1, <2>1, <2>2 DEF Read
<1>5. [r EXCEPT !.block = [x \in {k} |-> value]]
        = [blocks |-> Close(Readings(text)[i]), patterns |-> patterns, block |-> [x \in {k} |-> value]]
  OBVIOUS
<1> HIDE DEF r
<1> QED
  BY <1>2, <1>3, <1>4, <1>5 DEF Opened, One

LEMMA ClosedAfterOpened ==
    ASSUME NEW blocks, NEW pattern, NEW k, NEW value
    PROVE  Close(Opened(blocks, {pattern}, k, value)) = Append(blocks, Block({pattern}, k, value))
<1>1. {pattern} # {}
  OBVIOUS
<1> QED
  BY <1>1 DEF Close, Opened, Block

LEMMA NoBlocks == ASSUME NEW host PROVE Final(<<>>, host) = Defaults(host)
<1>1. Len(<<>>) = 0
  OBVIOUS
<1> QED
  BY <1>1, ResultsStep DEF Final

\* What a block of one keyword, that selects the host, does to that keyword.
LEMMA OneKeywordApplied ==
    ASSUME NEW config, NEW patterns, NEW host, \E p \in patterns : HostMatches(host, p),
           NEW k \in Keywords, NEW value
    PROVE  Apply(config, Block(patterns, k, value), host)[k] =
             IF config[k] = Default(k, host) THEN value ELSE config[k]
<1>1. Block(patterns, k, value).patterns = patterns
      /\ k \in DOMAIN Block(patterns, k, value).block
      /\ Block(patterns, k, value).block[k] = value
  BY DEF Block, One
<1> QED
  BY <1>1 DEF Apply, Obtain

\* The line after the first Host line is the first that OpenSSH can obtain.
LEMMA SecondLineIsObtained ==
    ASSUME NEW text, NEW host, Len(text) \in Nat, Len(text) >= 2, DOMAIN text = 1..Len(text),
           text[1] = HostLine({Name(host)}), NEW k \in Keywords, NEW value,
           text[2] = Line(k, value)
    PROVE  FirstObtained(text, k, host) = value
<1> DEFINE found == {i \in DOMAIN text : text[i].key = k /\ Applies(text, i, host)}
<1>1. k # "host" /\ k # "match"
  BY DEF Keywords
<1>2. text[1].key = "host" /\ text[1].patterns = {Name(host)}
      /\ text[2].key = k /\ text[2].value = value
  BY DEF HostLine, Line
<1>3. Headers(text, 2) = {1}
  BY <1>1, <1>2 DEF Headers
<1>4. Applies(text, 2, host)
  <2>1. 1 \in Headers(text, 2) /\ \A h \in Headers(text, 2) : h <= 1
    BY <1>3
  <2>2. /\ \E p \in text[1].patterns : p.sort # "negated" /\ host \in p.names
        /\ \A p \in text[1].patterns : p.sort = "negated" => host \notin p.names
    <3>1. text[1].patterns = {[sort |-> "name", names |-> {host}]}
      BY <1>2 DEF Name
    <3>2. \A p : p \in text[1].patterns => p = [sort |-> "name", names |-> {host}]
      BY <3>1
    <3>3. [sort |-> "name", names |-> {host}] \in text[1].patterns
      BY <3>1
    <3>4. host \in {host} /\ "name" # "negated"
      OBVIOUS
    <3> DEFINE only == [sort |-> "name", names |-> {host}]
    <3>5. only.sort = "name" /\ only.names = {host}
      OBVIOUS
    <3> HIDE DEF only
    <3>6. only \in text[1].patterns /\ \A p \in text[1].patterns : p = only
      BY <3>2, <3>3 DEF only
    <3> QED
      BY <3>4, <3>5, <3>6
  <2> QED
    BY <1>2, <2>1, <2>2 DEF Applies
<1>5. 2 \in found /\ 1 \notin found /\ found \subseteq Nat
  BY <1>1, <1>2, <1>4
<1>6. \A l \in found : 2 <= l
  <2>1. \A l \in found : l \in 1..Len(text) /\ l # 1
    BY <1>5
  <2> HIDE DEF found
  <2> QED
    BY <2>1
<1>7. Least(found) = 2
  <2> HIDE DEF found
  <2> QED
    BY <1>5, <1>6, LeastIs
<1>8. FirstObtained(text, k, host) = text[Least(found)].value
  BY <1>5 DEF FirstObtained, Least
<1> QED
  BY <1>2, <1>7, <1>8

\* A keyword that the host's own block gives its default value counts as not set: the
\* code takes the value of a later block, OpenSSH the one obtained first.
THEOREM ExplicitDefaultIsOverridden ==
    ASSUME NEW host, NEW k \in Keywords, NEW value
    PROVE  LET text == <<HostLine({Name(host)}), Line(k, Default(k, host)),
                         HostLine({Wildcard({host})}), Line(k, value)>>
           IN  /\ GetHostConfig(text, host)[k] = value
               /\ FirstObtained(text, k, host) = Default(k, host)
<1> DEFINE text == <<HostLine({Name(host)}), Line(k, Default(k, host)),
                     HostLine({Wildcard({host})}), Line(k, value)>>
           own == Block({Name(host)}, k, Default(k, host))
           later == Block({Wildcard({host})}, k, value)
<1>1. /\ Len(text) = 4 /\ DOMAIN text = 1..4 /\ text[1] = HostLine({Name(host)}) /\ text[2] = Line(k, Default(k, host))
      /\ text[3] = HostLine({Wildcard({host})}) /\ text[4] = Line(k, value)
  OBVIOUS
<1> HIDE DEF text
<1>2. Blocks(text) = Append(Append(<<>>, own), later)
  <2>1. Readings(text)[0] = Nothing /\ Close(Nothing) = <<>>
    BY <1>1, ReadingsStep DEF Close, Nothing
  <2>2. Readings(text)[2] = Opened(<<>>, {Name(host)}, k, Default(k, host))
    <3>1. /\ 0 \in Nat /\ 2 \in 1..Len(text) /\ 2 = 0 + 2 /\ Len(text) \in Nat
          /\ text[0 + 1] = HostLine({Name(host)})
      BY <1>1
    <3>2. Readings(text)[2] = Opened(Close(Readings(text)[0]), {Name(host)}, k, Default(k, host))
      BY <1>1, <3>1, HeaderAndKeyword
    <3> QED
      BY <2>1, <3>2
  <2>3. Close(Readings(text)[2]) = Append(<<>>, own)
    BY <2>2, ClosedAfterOpened DEF own
  <2>4. Readings(text)[4] = Opened(Append(<<>>, own), {Wildcard({host})}, k, value)
    <3>1. /\ 2 \in Nat /\ 4 \in 1..Len(text) /\ 4 = 2 + 2 /\ Len(text) \in Nat
          /\ text[2 + 1] = HostLine({Wildcard({host})})
      BY <1>1
    <3> HIDE DEF own
    <3> QED
      BY <1>1, <2>3, <3>1, HeaderAndKeyword
  <2>5. Close(Readings(text)[4]) = Append(Append(<<>>, own), later)
    <3> HIDE DEF own
    <3> QED
      BY <2>4, ClosedAfterOpened DEF later
  <2> HIDE DEF own, later
  <2> QED
    BY <1>1, <2>5 DEF Blocks
<1>3. GetHostConfig(text, host) = Apply(Apply(Defaults(host), own, host), later, host)
  <2> HIDE DEF own, later
  <2>1. /\ <<>> \in Seq({own, later}) /\ Append(<<>>, own) \in Seq({own, later})
        /\ own \in {own, later} /\ later \in {own, later}
    OBVIOUS
  <2>2. Final(Append(<<>>, own), host) = Apply(Defaults(host), own, host)
    BY <2>1, NoBlocks, OneBlockMore
  <2>3. Final(Append(Append(<<>>, own), later), host)
          = Apply(Final(Append(<<>>, own), host), later, host)
    BY <2>1, OneBlockMore
  <2> QED
    BY <1>2, <2>2, <2>3 DEF GetHostConfig, Final
<1>4. /\ HostMatches(host, Name(host)) /\ HostMatches(host, Wildcard({host}))
      /\ Defaults(host)[k] = Default(k, host)
  BY DEF HostMatches, Name, Wildcard, Defaults
<1>5. GetHostConfig(text, host)[k] = value
  <2>1. Apply(Defaults(host), own, host)[k] = Default(k, host)
    BY <1>4, OneKeywordApplied
  <2> DEFINE before == Apply(Defaults(host), own, host)
  <2>2. \E p \in {Wildcard({host})} : HostMatches(host, p)
    BY <1>4
  <2> HIDE DEF before, own
  <2>3. Apply(before, later, host)[k] = IF before[k] = Default(k, host) THEN value ELSE before[k]
    BY <2>2, OneKeywordApplied
  <2> QED
    BY <1>3, <2>1, <2>3 DEF before
<1>6. FirstObtained(text, k, host) = Default(k, host)
  BY <1>1, SecondLineIsObtained
<1> QED
  BY <1>5, <1>6 DEF text

\* A keyword twice in a block: the code takes the second value, OpenSSH the first.
THEOREM LastRepetitionWins ==
    ASSUME NEW host, NEW k \in Keywords, NEW first, NEW second
    PROVE  LET text == <<HostLine({Name(host)}), Line(k, first), Line(k, second)>>
           IN  /\ GetHostConfig(text, host)[k] = second
               /\ FirstObtained(text, k, host) = first
<1> DEFINE text == <<HostLine({Name(host)}), Line(k, first), Line(k, second)>>
           own == Block({Name(host)}, k, second)
<1>1. /\ Len(text) = 3 /\ DOMAIN text = 1..3 /\ text[1] = HostLine({Name(host)})
      /\ text[2] = Line(k, first) /\ text[3] = Line(k, second)
  OBVIOUS
<1> HIDE DEF text
<1>2. Blocks(text) = Append(<<>>, own)
  <2>1. Readings(text)[0] = Nothing /\ Close(Nothing) = <<>>
    BY <1>1, ReadingsStep DEF Close, Nothing
  <2> DEFINE r == Opened(<<>>, {Name(host)}, k, first)
  <2>2. Readings(text)[2] = r
    <3>1. /\ 0 \in Nat /\ 2 \in 1..Len(text) /\ 2 = 0 + 2 /\ Len(text) \in Nat
          /\ text[0 + 1] = HostLine({Name(host)})
      BY <1>1
    <3>2. Readings(text)[2] = Opened(Close(Readings(text)[0]), {Name(host)}, k, first)
      BY <1>1, <3>1, HeaderAndKeyword
    <3> QED
      BY <2>1, <3>2
  <2>3. Readings(text)[3] = Read(r, Line(k, second))
    <3>1. 3 \in 1..Len(text) /\ 3 - 1 = 2
      BY <1>1
    <3>2. \A i \in 1..Len(text) : Readings(text)[i] = Read(Readings(text)[i - 1], text[i])
      BY <1>1, ReadingsStep
    <3> HIDE DEF r
    <3> QED
      BY <1>1, <2>2, <3>1, <3>2
  <2>4. Read(r, Line(k, second)) =
          Opened(<<>>, {Name(host)}, k, second)
    <3>1. k # "host"
      BY DEF Keywords
    <3>2. DOMAIN r.block \cup {k} = {k} /\ r.blocks = <<>> /\ r.patterns = {Name(host)}
      BY DEF Opened, One
    <3>3. Line(k, second).key = k /\ Line(k, second).value = second
      BY DEF Line
    <3>4. Read(r, Line(k, second)) = [r EXCEPT !.block = [x \in {k} |-> second]]
      <4> HIDE DEF r
      <4> QED
        BY <3>1, <3>2, <3>3 DEF Read
    <3> QED
      BY <3>4 DEF Opened, One
  <2>5. Close(Readings(text)[3]) = Append(<<>>, own)
    BY <2>3, <2>4, ClosedAfterOpened DEF own
  <2> QED
    BY <1>1, <2>5 DEF Blocks
<1>3. GetHostConfig(text, host) = Apply(Defaults(host), own, host)
  <2> HIDE DEF own
  <2>1. <<>> \in Seq({own}) /\ own \in {own}
    OBVIOUS
  <2> QED
    BY <1>2, <2>1, NoBlocks, OneBlockMore DEF GetHostConfig, Final
<1>4. HostMatches(host, Name(host)) /\ Defaults(host)[k] = Default(k, host)
  BY DEF HostMatches, Name, Defaults
<1>5. GetHostConfig(text, host)[k] = second
  BY <1>3, <1>4, OneKeywordApplied
<1>6. FirstObtained(text, k, host) = first
  BY <1>1, SecondLineIsObtained
<1> QED
  BY <1>5, <1>6 DEF text
=============================================================================
