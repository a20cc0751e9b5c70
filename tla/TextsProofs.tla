----------------------------- MODULE TextsProofs -----------------------------
(***************************************************************************)
(* What the program does with texts, for texts of any length: Detectors,   *)
(* Credentials and Tokens.  Their steps are simple; the theorems rest on   *)
(* what the loops over characters, bytes, headers and patterns compute.    *)
(*                                                                         *)
(* A loop is a function defined by recursion over a number.  What it       *)
(* computes is proved at the least number where it would be wrong, which   *)
(* LeastNumber says there is.                                              *)
(***************************************************************************)
EXTENDS Detectors, Credentials, Tokens, TLAPS, WellFoundedInduction, SequenceTheorems

-----------------------------------------------------------------------------
(* Numbers and sequences.                                                  *)

\* A set of natural numbers has a least.
LEMMA LeastNumber ==
  ASSUME NEW T, T \subseteq Nat, T # {}
  PROVE  \E x \in T : \A y \in T : x <= y
  <1>1. PICK x \in T : \A y \in T : <<y, x>> \notin OpToRel(<, Nat)
    BY WFMin, NatLessThanWellFounded, Zenon
  <1>2. \A y \in T : ~(y < x)
    BY <1>1, Zenon DEF OpToRel
  <1> QED
    BY <1>2

\* The library's Min and Max are what they are called.
LEMMA MinIsLeast ==
  ASSUME NEW S, S \subseteq Nat, S # {}
  PROVE  Min(S) \in S /\ \A y \in S : Min(S) <= y
  <1>1. \E x \in S : \A y \in S : x <= y
    BY LeastNumber
  <1> QED
    BY <1>1 DEF Min

\* A set of numbers that a number bounds has a greatest.
LEMMA GreatestNumber ==
  ASSUME NEW n \in Nat, NEW T, T \subseteq 0..n, T # {}
  PROVE  \E x \in T : \A y \in T : y <= x
  <1> DEFINE U == {k \in 0..n : n - k \in T}
  <1>1. U \subseteq Nat /\ U # {}
    <2>1. PICK t \in T : TRUE
      OBVIOUS
    <2>2. n - t \in 0..n /\ n - (n - t) = t
      BY <2>1
    <2> QED
      BY <2>1, <2>2
  <1>2. PICK u \in U : \A k \in U : u <= k
    BY <1>1, LeastNumber
  <1>3. \A y \in T : y <= n - u
    <2> TAKE y \in T
    <2>1. n - y \in U
      BY DEF U
    <2> QED
      BY <1>2, <2>1
  <1> QED
    BY <1>2, <1>3

LEMMA MinIs ==
  ASSUME NEW S, S \subseteq Nat, NEW m \in S, \A y \in S : m <= y
  PROVE  Min(S) = m
  <1>1. Min(S) \in S /\ \A y \in S : Min(S) <= y
    BY DEF Min
  <1>2. Min(S) \in Nat /\ m \in Nat /\ Min(S) <= m /\ m <= Min(S)
    BY <1>1
  <1> QED
    BY <1>2

LEMMA MaxIs ==
  ASSUME NEW S, S \subseteq Nat, NEW m \in S, \A y \in S : y <= m
  PROVE  Max(S) = m
  <1>1. Max(S) \in S /\ \A y \in S : y <= Max(S)
    BY DEF Max
  <1>2. Max(S) \in Nat /\ m \in Nat /\ Max(S) <= m /\ m <= Max(S)
    BY <1>1
  <1> QED
    BY <1>2

-----------------------------------------------------------------------------
(*                               Detectors                                 *)

(* One pattern, one text.                                                  *)

LEMMA ToLowerOK ==
  ASSUME NEW text \in Text
  PROVE  /\ Len(text) \in Nat /\ DOMAIN text = 1..Len(text)
         /\ \A i \in 1..Len(text) : text[i] \in Chars
         /\ ToLower(text) \in Text /\ Len(ToLower(text)) = Len(text)
         /\ \A i \in 1..Len(text) : ToLower(text)[i] = lowerCase[text[i]]
  <1>1. Len(text) \in Nat /\ DOMAIN text = 1..Len(text)
        /\ \A i \in 1..Len(text) : text[i] \in Chars
    BY LenProperties, ElementOfSeq DEF Text
  <1>2. ToLower(text) = [i \in 1..Len(text) |-> lowerCase[text[i]]]
    BY <1>1 DEF ToLower
  <1>3. \A i \in 1..Len(text) : lowerCase[text[i]] \in Chars
    BY <1>1, DetectorAssumption
  <1> QED
    BY <1>1, <1>2, <1>3 DEF Text

LEMMA PatternOK ==
  ASSUME NEW kind \in Kinds, NEW pattern \in ToSet(Patterns(kind))
  PROVE  /\ pattern \in Text /\ Len(pattern) \in Nat \ {0} /\ DOMAIN pattern = 1..Len(pattern)
         /\ \A i \in 1..Len(pattern) : pattern[i] \in Chars /\ lowerCase[pattern[i]] = pattern[i]
  <1>1. Patterns(kind) \in Seq(Text \ {<<>>})
    BY DetectorAssumption
  <1>2. pattern \in Text \ {<<>>}
    BY <1>1, LenProperties, ElementOfSeq DEF ToSet
  <1>3. Len(pattern) \in Nat \ {0} /\ DOMAIN pattern = 1..Len(pattern)
    BY <1>2, LenProperties, EmptySeq DEF Text
  <1>4. \A i \in 1..Len(pattern) : pattern[i] \in ToSet(pattern)
    BY <1>3 DEF ToSet
  <1>5. \A c \in ToSet(pattern) : lowerCase[c] = c
    BY DetectorAssumption
  <1> QED
    BY <1>2, <1>3, <1>4, <1>5, ToLowerOK

\* A part of a text.
LEMMA PartOK ==
  ASSUME NEW text \in Text, NEW i \in 1..Len(text), NEW j \in 1..Len(text), i <= j
  PROVE  /\ SubSeq(text, i, j) \in Text
         /\ Len(SubSeq(text, i, j)) = j - i + 1
         /\ DOMAIN SubSeq(text, i, j) = 1..(j - i + 1)
         /\ \A k \in 1..(j - i + 1) : SubSeq(text, i, j)[k] = text[i + k - 1]
  <1>1. Len(text) \in Nat /\ \A k \in i..j : text[k] \in Chars
    BY ToLowerOK
  <1>2. /\ SubSeq(text, i, j) \in Text
        /\ Len(SubSeq(text, i, j)) = j - i + 1
        /\ \A k \in 1..(j - i + 1) : SubSeq(text, i, j)[k] = text[i + k - 1]
    BY <1>1, SubSeqProperties DEF Text
  <1> QED
    BY <1>2, LenProperties DEF Text

\* A pattern occurs in the lowered text exactly if some spelling of it stands in the text.
LEMMA OccursSpelt ==
  ASSUME NEW kind \in Kinds, NEW pattern \in ToSet(Patterns(kind)), NEW text \in Text
  PROVE  Occurs(pattern, ToLower(text))
            <=> Includes(text, pattern)
  <1> DEFINE low == ToLower(text)
             n == Len(pattern)
  <1>1. /\ Len(text) \in Nat /\ DOMAIN text = 1..Len(text)
        /\ \A i \in 1..Len(text) : text[i] \in Chars
        /\ low \in Text /\ Len(low) = Len(text)
        /\ \A i \in 1..Len(text) : low[i] = lowerCase[text[i]]
    BY ToLowerOK
  <1>2. /\ pattern \in Text /\ n \in Nat \ {0} /\ DOMAIN pattern = 1..n
        /\ \A i \in 1..n : pattern[i] \in Chars /\ lowerCase[pattern[i]] = pattern[i]
    BY PatternOK
  <1> HIDE DEF low, n
  <1>3. ASSUME NEW i \in 0..(Len(low) - n), SubSeq(low, i + 1, i + n) = pattern
        PROVE  \E a, b \in DOMAIN text : Spells(SubSeq(text, a, b), pattern)
    <2>1. /\ i + 1 \in 1..Len(text) /\ i + n \in 1..Len(text) /\ i + 1 <= i + n
          /\ (i + n) - (i + 1) + 1 = n
      BY <1>1, <1>2
    <2>2. \A k \in 1..n : pattern[k] = low[(i + 1) + k - 1]
      <3>1. low \in Text /\ i + 1 \in 1..Len(low) /\ i + n \in 1..Len(low) /\ i + 1 <= i + n
        BY <2>1, <1>1
      <3>2. \A k \in 1..((i + n) - (i + 1) + 1) :
               SubSeq(low, i + 1, i + n)[k] = low[(i + 1) + k - 1]
        BY <3>1, PartOK
      <3> QED
        BY <3>2, <2>1, <1>3
    <2> DEFINE q == SubSeq(text, i + 1, i + n)
    <2>3. Len(q) = n /\ DOMAIN q = 1..n /\ \A k \in 1..n : q[k] = text[(i + 1) + k - 1]
      BY <2>1, PartOK
    <2> HIDE DEF q
    <2>4. \A k \in 1..n : (i + 1) + k - 1 \in 1..Len(text)
      BY <2>1, <1>1, <1>2
    <2>5. \A k \in 1..n : lowerCase[q[k]] = pattern[k]
      BY <2>2, <2>3, <2>4, <1>1
    <2>6. Spells(q, pattern)
      BY <2>3, <2>5 DEF Spells, n
    <2> QED
      BY <2>1, <2>6, <1>1 DEF q
  <1>4. ASSUME NEW i \in DOMAIN text, NEW j \in DOMAIN text, Spells(SubSeq(text, i, j), pattern)
        PROVE  Occurs(pattern, low)
    <2> DEFINE q == SubSeq(text, i, j)
    <2>0. i \in 1..Len(text) /\ j \in 1..Len(text) /\ Len(q) = n
      BY <1>1, <1>4 DEF Spells, n
    <2>1. i <= j
      <3>1. ~(i <= j) => q = <<>>
        BY <2>0, <1>1, SubSeqEmpty
      <3>2. Len(<<>>) = 0
        OBVIOUS
      <3> QED
        BY <3>1, <3>2, <2>0, <1>2
    <2>2. Len(q) = j - i + 1 /\ DOMAIN q = 1..n /\ \A k \in 1..n : q[k] = text[i + k - 1]
      BY <2>0, <2>1, PartOK
    <2> HIDE DEF q
    <2>3. \A k \in 1..n : q[k] = pattern[k] \/ lowerCase[q[k]] = pattern[k]
      BY <1>4, <2>2 DEF Spells, q
    <2>4. \A k \in 1..n : lowerCase[q[k]] = pattern[k]
      BY <2>3, <1>2
    <2> DEFINE r == SubSeq(low, i, j)
    <2>5. r \in Text /\ Len(r) = n /\ \A k \in 1..n : r[k] = low[i + k - 1]
      BY <2>0, <2>1, <2>2, <1>1, PartOK
    <2>6. \A k \in 1..n : i + k - 1 \in 1..Len(text)
      BY <2>0, <2>2, <1>1
    <2> HIDE DEF r
    <2>7. \A k \in 1..n : r[k] = pattern[k]
      <3>1. ASSUME NEW k \in 1..n PROVE r[k] = pattern[k]
        <4>1. r[k] = low[i + k - 1] /\ q[k] = text[i + k - 1] /\ lowerCase[q[k]] = pattern[k]
          BY <2>2, <2>4, <2>5
        <4>2. low[i + k - 1] = lowerCase[text[i + k - 1]]
          BY <2>6, <1>1
        <4> QED
          BY <4>1, <4>2
      <3> QED
        BY <3>1
    <2>8. r = pattern
      BY <2>5, <2>7, <1>2, SeqEqual DEF Text, n
    <2>9. i - 1 \in 0..(Len(low) - n) /\ (i - 1) + 1 = i /\ (i - 1) + n = j
      <3>1. n = j - i + 1 /\ Len(low) = Len(text)
        BY <2>0, <2>2, <1>1
      <3> HIDE DEF n
      <3>2. Len(text) \in Nat /\ i \in Nat /\ j \in Nat /\ 1 <= i /\ j <= Len(text)
        BY <2>0, <1>1
      <3>3. Len(low) - n \in Int /\ i - 1 \in Int /\ 0 <= i - 1 /\ i - 1 <= Len(low) - n
        BY <3>1, <3>2
      <3> QED
        BY <3>1, <3>2, <3>3
    <2> QED
      BY <2>8, <2>9 DEF Occurs, r, n
  <1> QED
    BY <1>3, <1>4 DEF Occurs, Includes, low, n

\* containsSqli and containsXss: the index of the first pattern that occurs.
LEMMA MatchedOK ==
  ASSUME NEW kind \in Kinds, NEW text \in Text
  PROVE  /\ Matched(kind, text) # 0 <=> Matches(kind, text)
         /\ Matched(kind, text) # 0 =>
               FirstIncluded(kind, text, Patterns(kind)[Matched(kind, text)])
  <1> DEFINE I == {i \in 1..Len(Patterns(kind)) : Occurs(Patterns(kind)[i], ToLower(text))}
             first == Min(I)
  <1>1. Matched(kind, text) = IF I # {} THEN Min(I) ELSE 0
    BY DEF Matched, SelectInSeq
  <1>2. Len(Patterns(kind)) \in Nat /\ DOMAIN Patterns(kind) = 1..Len(Patterns(kind))
    BY DetectorAssumption, LenProperties
  <1>3. \A i \in 1..Len(Patterns(kind)) : i \in I <=> Includes(text, Patterns(kind)[i])
    <2> TAKE i \in 1..Len(Patterns(kind))
    <2>1. Patterns(kind)[i] \in ToSet(Patterns(kind))
      BY <1>2 DEF ToSet
    <2> QED
      BY <2>1, OccursSpelt
  <1>4. I # {} <=> Matches(kind, text)
    BY <1>2, <1>3 DEF Matches, ToSet
  <1>5. ASSUME I # {}
        PROVE  first # 0 /\ FirstIncluded(kind, text, Patterns(kind)[first])
    <2>1. I \subseteq 1..Len(Patterns(kind))
      OBVIOUS
    <2> HIDE DEF I
    <2>2. I \subseteq Nat
      BY <1>2, <2>1
    <2>3. first \in I /\ \A i \in I : first <= i
      BY <1>5, <2>2, MinIsLeast
    <2> HIDE DEF first
    <2>4. first \in 1..Len(Patterns(kind)) /\ first # 0
      BY <1>2, <2>1, <2>3
    <2>5. ASSUME NEW j \in 1..(first - 1) PROVE ~Includes(text, Patterns(kind)[j])
      <3>1. j \in 1..Len(Patterns(kind)) /\ ~(first <= j)
        BY <1>2, <2>4
      <3> QED
        BY <1>3, <2>3, <3>1
    <2> QED
      BY <1>2, <1>3, <2>3, <2>4, <2>5 DEF FirstIncluded
  <1> HIDE DEF I
  <1> QED
    BY <1>1, <1>4, <1>5

-----------------------------------------------------------------------------
(* The places of a request.                                                *)

\* What the header loop keeps of the first i headers.
Kept(headers, f, i) ==
    IF i = 0 THEN <<>>
    ELSE IF IsScannableHeader(headers[i].name) THEN Append(f[i - 1], headers[i])
    ELSE f[i - 1]

\* The recursion of Scannable has a solution.
LEMMA KeptDefined ==
  ASSUME NEW headers, NEW n \in Nat
  PROVE  \E f : f = [i \in 0..n |-> Kept(headers, f, i)]
  <1> DEFINE Solved(m) == \E f : f = [i \in 0..m |-> Kept(headers, f, i)]
             Bad == {m \in Nat : ~Solved(m)}
  <1>1. SUFFICES ASSUME Bad # {} PROVE FALSE
    OBVIOUS
  <1>2. PICK m \in Bad : \A k \in Bad : m <= k
    <2> HIDE DEF Solved
    <2>1. Bad \subseteq Nat
      OBVIOUS
    <2> HIDE DEF Bad
    <2> QED
      BY <1>1, <2>1, LeastNumber
  <1>3. CASE m = 0
    <2> DEFINE f == [i \in 0..0 |-> <<>>]
    <2>1. f = [i \in 0..0 |-> Kept(headers, f, i)]
      BY DEF Kept
    <2> QED
      BY <2>1, <1>2, <1>3
  <1>4. CASE m # 0
    <2>1. m - 1 \in Nat /\ m \in Nat /\ ~(m <= m - 1)
      BY <1>2, <1>4
    <2>2. Solved(m - 1)
      <3> HIDE DEF Solved
      <3> QED
        BY <1>2, <2>1
    <2>3. PICK f : f = [i \in 0..(m - 1) |-> Kept(headers, f, i)]
      BY <2>2
    <2> DEFINE g == [i \in 0..m |-> IF i = m THEN Kept(headers, f, m) ELSE f[i]]
    <2>4. ASSUME NEW i \in 0..m
          PROVE  g[i] = Kept(headers, g, i)
      <3>1. i # 0 => i - 1 \in 0..(m - 1)
        BY <2>1
      <3>2. i # 0 => g[i - 1] = f[i - 1]
        BY <3>1, <2>1
      <3>3. CASE i = m
        BY <3>2, <3>3, <1>4 DEF Kept
      <3>4. CASE i # m
        <4>1. i \in 0..(m - 1)
          BY <3>4, <2>1
        <4>2. f[i] = Kept(headers, f, i)
          BY <4>1, <2>3
        <4>3. g[i] = f[i]
          BY <3>4
        <4> HIDE DEF g
        <4> QED
          BY <4>2, <4>3, <3>2 DEF Kept
      <3> QED
        BY <3>3, <3>4
    <2>5. g = [i \in 0..m |-> Kept(headers, g, i)]
      <3>1. g = [i \in 0..m |-> g[i]]
        OBVIOUS
      <3> HIDE DEF g
      <3> QED
        BY <2>4, <3>1
    <2> HIDE DEF g
    <2>6. Solved(m)
      BY <2>5
    <2> QED
      BY <2>6, <1>2
  <1> QED
    BY <1>3, <1>4

\* What is kept of the first i headers: s, from the positions f in their order.
Keeps(headers, s, i, f) ==
    /\ f \in [1..Len(s) -> 1..i]
    /\ \A k \in 1..Len(s) : s[k] = headers[f[k]] /\ IsScannableHeader(headers[f[k]].name)
    /\ \A k, l \in 1..Len(s) : k < l => f[k] < f[l]
    /\ \A j \in 1..i : IsScannableHeader(headers[j].name) => \E k \in 1..Len(s) : f[k] = j

LEMMA KeepsAppended ==
  ASSUME NEW headers \in Seq(Pair), NEW s \in Seq(Pair), NEW i \in 1..Len(headers),
         IsScannableHeader(headers[i].name), NEW f, Keeps(headers, s, i - 1, f)
  PROVE  /\ Append(s, headers[i]) \in Seq(Pair)
         /\ \E g : Keeps(headers, Append(s, headers[i]), i, g)
  <1> DEFINE t == Append(s, headers[i])
             n == Len(s)
             g == [k \in 1..(n + 1) |-> IF k = n + 1 THEN i ELSE f[k]]
  <1>1. headers[i] \in Pair /\ i \in Nat /\ n \in Nat
    BY LenProperties, ElementOfSeq
  <1>2. /\ t \in Seq(Pair) /\ Len(t) = n + 1
        /\ \A k \in 1..n : t[k] = s[k]
        /\ t[n + 1] = headers[i]
    BY <1>1, AppendProperties
  <1> HIDE DEF t
  <1>3. /\ f \in [1..n -> 1..(i - 1)]
        /\ \A k \in 1..n : s[k] = headers[f[k]] /\ IsScannableHeader(headers[f[k]].name)
        /\ \A k, l \in 1..n : k < l => f[k] < f[l]
        /\ \A j \in 1..(i - 1) : IsScannableHeader(headers[j].name) => \E k \in 1..n : f[k] = j
    BY DEF Keeps
  <1> HIDE DEF n
  <1>4. /\ g[n + 1] = i
        /\ \A k \in 1..n : k # n + 1 /\ k \in 1..(n + 1) /\ g[k] = f[k]
        /\ \A k \in 1..(n + 1) : k \in 1..n \/ k = n + 1
    BY <1>1
  <1>5. g \in [1..(n + 1) -> 1..i]
    BY <1>1, <1>3
  <1> HIDE DEF g
  <1>6. \A k \in 1..(n + 1) : t[k] = headers[g[k]] /\ IsScannableHeader(headers[g[k]].name)
    BY <1>2, <1>3, <1>4
  <1>7. \A k, l \in 1..(n + 1) : k < l => g[k] < g[l]
    <2> TAKE k, l \in 1..(n + 1)
    <2>1. CASE l \in 1..n
      BY <1>1, <1>3, <1>4, <2>1
    <2>2. CASE l = n + 1 /\ k < l
      <3>1. k \in 1..n
        BY <1>1, <2>2
      <3>2. f[k] \in 1..(i - 1)
        BY <1>3, <3>1
      <3> QED
        BY <1>1, <1>4, <2>2, <3>1, <3>2
    <2> QED
      BY <1>4, <2>1, <2>2
  <1>8. \A j \in 1..i : IsScannableHeader(headers[j].name) => \E k \in 1..(n + 1) : g[k] = j
    <2> TAKE j \in 1..i
    <2>1. CASE j = i
      BY <1>1, <1>4, <2>1
    <2>2. CASE j \in 1..(i - 1)
      BY <1>3, <1>4, <2>2
    <2> QED
      BY <1>1, <2>1, <2>2
  <1>9. Keeps(headers, t, i, g)
    BY <1>2, <1>5, <1>6, <1>7, <1>8 DEF Keeps
  <1> QED
    BY <1>2, <1>9 DEF t

LEMMA KeepsSkipped ==
  ASSUME NEW headers, NEW s \in Seq(Pair), NEW i \in Nat \ {0},
         ~IsScannableHeader(headers[i].name), NEW f, Keeps(headers, s, i - 1, f)
  PROVE  Keeps(headers, s, i, f)
  <1>1. \A j \in 1..i : j \in 1..(i - 1) \/ j = i
    OBVIOUS
  <1>2. f \in [1..Len(s) -> 1..i]
    BY DEF Keeps
  <1> QED
    BY <1>1, <1>2 DEF Keeps

\* The loop keeps exactly the headers that are not on the list, in their order.
LEMMA ScannableOK ==
  ASSUME NEW headers \in Seq(Pair)
  PROVE  /\ Scannable(headers) \in Seq(Pair)
         /\ \E f : Keeps(headers, Scannable(headers), Len(headers), f)
  <1> DEFINE n == Len(headers)
             kept == CHOOSE f : f = [i \in 0..n |-> Kept(headers, f, i)]
             Good(i) == kept[i] \in Seq(Pair) /\ \E f : Keeps(headers, kept[i], i, f)
             Bad == {i \in 0..n : ~Good(i)}
  <1>1. n \in Nat /\ DOMAIN headers = 1..n /\ \A i \in 1..n : headers[i] \in Pair
    BY LenProperties, ElementOfSeq
  <1>2. kept = [i \in 0..n |-> Kept(headers, kept, i)]
    BY <1>1, KeptDefined
  <1>3. Scannable(headers) = kept[n]
    BY DEF Scannable, Kept
  <1> HIDE DEF kept
  <1>4. Bad = {}
    <2>1. SUFFICES ASSUME NEW i \in Bad, \A j \in Bad : i <= j PROVE FALSE
      <3>1. Bad \subseteq Nat
        BY <1>1
      <3> HIDE DEF Bad
      <3> QED
        BY <3>1, LeastNumber
    <2>2. i \in 0..n /\ kept[i] = Kept(headers, kept, i) /\ ~Good(i)
      BY <2>1, <1>2
    <2>3. CASE i = 0
      <3> DEFINE none == [k \in 1..0 |-> 0]
      <3>1. kept[i] = <<>>
        BY <2>2, <2>3 DEF Kept
      <3>2. kept[i] \in Seq(Pair) /\ Len(kept[i]) = 0
        BY <3>1, EmptySeq
      <3>3. Keeps(headers, kept[i], i, none)
        BY <3>2, <2>3 DEF Keeps
      <3> QED
        BY <2>2, <3>2, <3>3
    <2>4. CASE i # 0
      <3>1. i - 1 \in 0..n /\ i \in 1..n /\ ~(i <= i - 1)
        BY <2>2, <2>4, <1>1
      <3>2. Good(i - 1)
        BY <2>1, <3>1
      <3>3. PICK f : kept[i - 1] \in Seq(Pair) /\ Keeps(headers, kept[i - 1], i - 1, f)
        BY <3>2
      <3>4. CASE IsScannableHeader(headers[i].name)
        <4>1. kept[i] = Append(kept[i - 1], headers[i])
          BY <2>2, <2>4, <3>4 DEF Kept
        <4> HIDE DEF n
        <4>2. i \in 1..Len(headers)
          BY <3>1 DEF n
        <4>3. Good(i)
          BY <4>1, <4>2, <3>3, <3>4, KeepsAppended
        <4> QED
          BY <2>2, <4>3
      <3>5. CASE ~IsScannableHeader(headers[i].name)
        <4>1. kept[i] = kept[i - 1]
          BY <2>2, <2>4, <3>5 DEF Kept
        <4>2. i \in Nat \ {0}
          BY <1>1, <3>1
        <4>3. Good(i)
          BY <4>1, <4>2, <3>3, <3>5, KeepsSkipped
        <4> QED
          BY <2>2, <4>3
      <3> QED
        BY <3>4, <3>5
    <2> QED
      BY <2>3, <2>4
  <1>5. Good(n)
    <2>1. n \in 0..n
      BY <1>1
    <2>2. n \notin Bad
      BY <1>4, Zenon
    <2> QED
      BY <2>1, <2>2
  <1> QED
    BY <1>3, <1>5

PlaceType == [where : {"path", "query", "body", "header"}, name : Text, text : Text]

LEMMA ParametersOK ==
  ASSUME NEW where \in {"query", "header"}, NEW pairs \in Seq(Pair)
  PROVE  /\ Parameters(where, pairs) \in Seq(PlaceType)
         /\ Len(Parameters(where, pairs)) = Len(pairs)
         /\ \A i \in 1..Len(pairs) :
               Parameters(where, pairs)[i] = Place(where, pairs[i].name, pairs[i].text)
  <1>1. Len(pairs) \in Nat /\ DOMAIN pairs = 1..Len(pairs)
        /\ \A i \in 1..Len(pairs) : pairs[i] \in Pair
    BY LenProperties, ElementOfSeq
  <1>2. \A i \in 1..Len(pairs) : Place(where, pairs[i].name, pairs[i].text) \in PlaceType
    BY <1>1 DEF Pair, Place, PlaceType
  <1>3. Parameters(where, pairs)
          = [i \in 1..Len(pairs) |-> Place(where, pairs[i].name, pairs[i].text)]
    BY <1>1 DEF Parameters
  <1> QED
    BY <1>1, <1>2, <1>3

LEMMA ConcatAt ==
  ASSUME NEW S, NEW s \in Seq(S), NEW t \in Seq(S)
  PROVE  /\ s \o t \in Seq(S) /\ Len(s \o t) = Len(s) + Len(t)
         /\ \A i \in 1..Len(s) : (s \o t)[i] = s[i]
         /\ \A i \in 1..Len(t) : (s \o t)[Len(s) + i] = t[i]
  <1> DEFINE m == Len(s)
             n == Len(t)
  <1>1. /\ s \o t \in Seq(S) /\ m \in Nat /\ n \in Nat /\ Len(s \o t) = m + n
        /\ \A i \in 1..(m + n) : (s \o t)[i] = IF i <= m THEN s[i] ELSE t[i - m]
    BY ConcatProperties, LenProperties
  <1> HIDE DEF m, n
  <1>2. \A i \in 1..m : i \in 1..(m + n) /\ i <= m
    BY <1>1
  <1>3. \A i \in 1..n : m + i \in 1..(m + n) /\ ~(m + i <= m) /\ (m + i) - m = i
    BY <1>1
  <1>4. \A i \in 1..m : (s \o t)[i] = s[i]
    BY <1>1, <1>2
  <1>5. \A i \in 1..n : (s \o t)[m + i] = t[i]
    BY <1>1, <1>3
  <1> QED
    BY <1>1, <1>4, <1>5 DEF m, n

\* The places of a request: its path, the values of its parameters, its body, and
\* the values of the headers that are not on the list.
LEMMA PlacesOK ==
  ASSUME NEW m \in Messages
  PROVE  LET q == Len(m.query)
             kept == Scannable(m.headers)
         IN  /\ m.query \in Seq(Pair) /\ m.headers \in Seq(Pair) /\ kept \in Seq(Pair)
             /\ Places(m) \in Seq(PlaceType)
             /\ Len(Places(m)) = q + 2 + Len(kept)
             /\ Places(m)[1] = Place("path", <<>>, m.path)
             /\ \A i \in 1..q :
                   Places(m)[1 + i] = Place("query", m.query[i].name, m.query[i].text)
             /\ Places(m)[q + 2] = Place("body", <<>>, m.body)
             /\ \A i \in 1..Len(kept) :
                   Places(m)[q + 2 + i] = Place("header", kept[i].name, kept[i].text)
  <1> DEFINE kept == Scannable(m.headers)
             q == Len(m.query)
             n == Len(kept)
             a == <<Place("path", <<>>, m.path)>>
             b == Parameters("query", m.query)
             c == <<Place("body", <<>>, m.body)>>
             d == Parameters("header", kept)
  <1>0. m.path \in Text /\ m.body \in Text /\ m.query \in Seq(Pair) /\ m.headers \in Seq(Pair)
    BY DetectorAssumption
  <1>1. kept \in Seq(Pair) /\ q \in Nat /\ n \in Nat
    BY <1>0, ScannableOK, LenProperties
  <1>2. Place("path", <<>>, m.path) \in PlaceType /\ Place("body", <<>>, m.body) \in PlaceType
    <2>1. <<>> \in Text
      BY DEF Text
    <2> QED
      BY <1>0, <2>1 DEF Place, PlaceType
  <1>3. a \in Seq(PlaceType) /\ Len(a) = 1 /\ a[1] = Place("path", <<>>, m.path)
    BY <1>2
  <1>4. c \in Seq(PlaceType) /\ Len(c) = 1 /\ c[1] = Place("body", <<>>, m.body)
    BY <1>2
  <1>5. /\ b \in Seq(PlaceType) /\ Len(b) = q
        /\ \A i \in 1..q : b[i] = Place("query", m.query[i].name, m.query[i].text)
    BY <1>0, ParametersOK
  <1> HIDE DEF kept
  <1>6. /\ d \in Seq(PlaceType) /\ Len(d) = n
        /\ \A i \in 1..n : d[i] = Place("header", kept[i].name, kept[i].text)
    BY <1>1, ParametersOK
  <1> DEFINE ab == a \o b
             abc == ab \o c
             P == abc \o d
  <1>7. Places(m) = P
    BY DEF Places, kept
  <1> HIDE DEF a, b, c, d, q, n
  <1>8. /\ ab \in Seq(PlaceType) /\ Len(ab) = 1 + q
        /\ ab[1] = a[1] /\ \A i \in 1..q : ab[1 + i] = b[i]
    <2>0. a \in Seq(PlaceType) /\ b \in Seq(PlaceType)
      BY <1>3, <1>5
    <2>1. /\ ab \in Seq(PlaceType) /\ Len(ab) = Len(a) + Len(b)
          /\ \A i \in 1..Len(a) : ab[i] = a[i]
          /\ \A i \in 1..Len(b) : ab[Len(a) + i] = b[i]
      BY <2>0, ConcatAt
    <2> HIDE DEF ab
    <2> QED
      BY <1>3, <1>5, <2>1
  <1> HIDE DEF ab
  <1>9. /\ abc \in Seq(PlaceType) /\ Len(abc) = q + 2 /\ abc[q + 2] = c[1]
        /\ \A i \in 1..(1 + q) : abc[i] = ab[i]
    <2>1. /\ abc \in Seq(PlaceType) /\ Len(abc) = Len(ab) + Len(c)
          /\ \A i \in 1..Len(ab) : abc[i] = ab[i]
          /\ \A i \in 1..Len(c) : abc[Len(ab) + i] = c[i]
      BY <1>4, <1>8, ConcatAt
    <2> HIDE DEF abc
    <2>2. 1 \in 1..Len(c) /\ Len(ab) + Len(c) = q + 2 /\ Len(ab) + 1 = q + 2
      BY <1>1, <1>4, <1>8
    <2>3. abc[Len(ab) + 1] = c[1]
      BY <2>1, <2>2
    <2> QED
      BY <1>8, <2>1, <2>2, <2>3
  <1> HIDE DEF abc
  <1>10. /\ P \in Seq(PlaceType) /\ Len(P) = q + 2 + n
         /\ \A i \in 1..(q + 2) : P[i] = abc[i]
         /\ \A i \in 1..n : P[q + 2 + i] = d[i]
    <2>0. abc \in Seq(PlaceType) /\ d \in Seq(PlaceType)
      BY <1>6, <1>9
    <2>1. /\ P \in Seq(PlaceType) /\ Len(P) = Len(abc) + Len(d)
          /\ \A i \in 1..Len(abc) : P[i] = abc[i]
          /\ \A i \in 1..Len(d) : P[Len(abc) + i] = d[i]
      BY <2>0, ConcatAt
    <2> HIDE DEF P
    <2> QED
      BY <1>6, <1>9, <2>1
  <1> HIDE DEF P
  <1>11. /\ 1 \in 1..(1 + q) /\ 1 \in 1..(q + 2) /\ q + 2 \in 1..(q + 2)
         /\ \A i \in 1..q : 1 + i \in 1..(1 + q) /\ 1 + i \in 1..(q + 2)
    BY <1>1
  <1>12. P[1] = Place("path", <<>>, m.path) /\ P[q + 2] = Place("body", <<>>, m.body)
    BY <1>3, <1>4, <1>8, <1>9, <1>10, <1>11
  <1>13. \A i \in 1..q : P[1 + i] = Place("query", m.query[i].name, m.query[i].text)
    BY <1>5, <1>8, <1>9, <1>10, <1>11
  <1>14. \A i \in 1..n : P[q + 2 + i] = Place("header", kept[i].name, kept[i].text)
    BY <1>6, <1>10
  <1> QED
    BY <1>0, <1>1, <1>7, <1>10, <1>12, <1>13, <1>14 DEF q, n, kept

LEMMA Fields ==
  /\ \A where, name, text : /\ Place(where, name, text).where = where
                            /\ Place(where, name, text).name = name
                            /\ Place(where, name, text).text = text
  /\ \A section, i, where, name, text :
        /\ Value(section, i, where, name, text).at = <<section, i>>
        /\ Value(section, i, where, name, text).where = where
        /\ Value(section, i, where, name, text).name = name
        /\ Value(section, i, where, name, text).text = text
  BY DEF Place, Value

\* Every value stands at a place, and before the places of the values it is before.
LEMMA PlaceIsValue ==
  ASSUME NEW m \in Messages, NEW i \in 1..Len(Places(m))
  PROVE  \E v \in Values(m) :
            /\ v.where = Places(m)[i].where /\ v.name = Places(m)[i].name
            /\ v.text = Places(m)[i].text
            /\ \A u \in Values(m) : Before(u, v) =>
                  \E k \in 1..(i - 1) : Places(m)[k].text = u.text
  <1> DEFINE kept == Scannable(m.headers)
             q == Len(m.query)
             n == Len(kept)
             h == Len(m.headers)
             P == Places(m)
             path == Value(1, 1, "path", <<>>, m.path)
             body == Value(3, 1, "body", <<>>, m.body)
             Query(j) == Value(2, j, "query", m.query[j].name, m.query[j].text)
             Header(j) == Value(4, j, "header", m.headers[j].name, m.headers[j].text)
             Open == {j \in 1..h : IsScannableHeader(m.headers[j].name)}
             Ends(v) ==
               /\ v.where = P[i].where /\ v.name = P[i].name /\ v.text = P[i].text
               /\ \A u \in Values(m) : Before(u, v) => \E k \in 1..(i - 1) : P[k].text = u.text
  <1>1. /\ Len(P) = q + 2 + n
        /\ P[1] = Place("path", <<>>, m.path)
        /\ \A j \in 1..q : P[1 + j] = Place("query", m.query[j].name, m.query[j].text)
        /\ P[q + 2] = Place("body", <<>>, m.body)
        /\ \A j \in 1..n : P[q + 2 + j] = Place("header", kept[j].name, kept[j].text)
    BY PlacesOK
  <1>2. /\ q \in Nat /\ n \in Nat /\ h \in Nat /\ i \in 1..Len(P)
        /\ DOMAIN m.query = 1..q /\ DOMAIN m.headers = 1..h
    BY PlacesOK, LenProperties
  <1>3. PICK f : Keeps(m.headers, kept, h, f)
    BY PlacesOK, ScannableOK
  <1>4. /\ \A k \in 1..n : f[k] \in Open /\ kept[k] = m.headers[f[k]]
        /\ \A k, l \in 1..n : k < l => f[k] < f[l]
        /\ \A j \in Open : \E k \in 1..n : f[k] = j
    BY <1>3 DEF Keeps
  <1>5. Values(m) = {path, body} \cup {Query(j) : j \in 1..q} \cup {Header(j) : j \in Open}
    BY <1>2 DEF Values
  <1> HIDE DEF P, q, n, h, kept
  <1>6. /\ \A j \in 1..q : 1 + j \in 1..(q + 2) /\ 1 \in 1..(1 + j - 1)
        /\ 1 \in 1..(q + 2 - 1)
        /\ \A k \in 1..n : 1 \in 1..(q + 2 + k - 1) /\ q + 2 \in 1..(q + 2 + k - 1)
        /\ \A j \in 1..q : 1 + j \in 1..(q + 2 - 1)
        /\ \A j \in 1..q, k \in 1..n : 1 + j \in 1..(q + 2 + k - 1)
        /\ \A j, l \in 1..q : j < l => 1 + j \in 1..(1 + l - 1)
        /\ \A k, l \in 1..n : k < l => q + 2 + k \in 1..(q + 2 + l - 1)
    BY <1>2
  <1>7. /\ P[1].text = path.text /\ P[q + 2].text = body.text
        /\ \A j \in 1..q : P[1 + j].text = Query(j).text
        /\ \A k \in 1..n : P[q + 2 + k].text = Header(f[k]).text
    <2>1. P[1].text = path.text /\ P[q + 2].text = body.text
      BY <1>1, Fields
    <2>2. \A j \in 1..q : P[1 + j].text = Query(j).text
      BY <1>1, Fields
    <2>3. ASSUME NEW k \in 1..n
          PROVE  P[q + 2 + k].text = Header(f[k]).text
      <3>1. P[q + 2 + k] = Place("header", m.headers[f[k]].name, m.headers[f[k]].text)
        BY <1>1, <1>4
      <3> QED
        BY <3>1, Fields
    <2> QED
      BY <2>1, <2>2, <2>3
  <1> HIDE DEF Ends
  <1>8. ASSUME i = 1
        PROVE  \E v \in Values(m) : Ends(v)
    <2>1. path \in Values(m) /\ \A u \in Values(m) : ~Before(u, path)
      BY <1>2, <1>5, Fields DEF Before, Open
    <2>2. Ends(path)
      BY <2>1, <1>1, <1>8, Fields DEF Ends
    <2> QED
      BY <2>1, <2>2
  <1>9. ASSUME NEW j \in 1..q, i = 1 + j
        PROVE  \E v \in Values(m) : Ends(v)
    <2>1. \A u \in Values(m) : Before(u, Query(j)) =>
             u = path \/ \E l \in 1..q : l < j /\ u = Query(l)
      BY <1>5, Fields DEF Before
    <2>2. \A u \in Values(m) : Before(u, Query(j)) => \E k \in 1..(i - 1) : P[k].text = u.text
      <3>1. 1 \in 1..(i - 1) /\ P[1].text = path.text
        BY <1>2, <1>6, <1>7, <1>9
      <3>2. \A l \in 1..q :
               l < j => 1 + l \in 1..(i - 1) /\ P[1 + l].text = Query(l).text
        BY <1>2, <1>6, <1>7, <1>9
      <3> QED
        BY <2>1, <3>1, <3>2
    <2>3. Query(j) \in Values(m)
      BY <1>5
    <2>4. Ends(Query(j))
      <3>1. P[i] = Place("query", m.query[j].name, m.query[j].text)
        BY <1>1, <1>9
      <3>2. /\ Query(j).where = P[i].where /\ Query(j).name = P[i].name
            /\ Query(j).text = P[i].text
        BY <3>1, Fields
      <3> QED
        BY <3>2, <2>2 DEF Ends
    <2> QED
      BY <2>3, <2>4
  <1>10. ASSUME i = q + 2
         PROVE  \E v \in Values(m) : Ends(v)
    <2>1. \A u \in Values(m) : Before(u, body) => u = path \/ \E l \in 1..q : u = Query(l)
      BY <1>2, <1>5, Fields DEF Before, Open
    <2>2. \A u \in Values(m) : Before(u, body) => \E k \in 1..(i - 1) : P[k].text = u.text
      <3>1. 1 \in 1..(i - 1) /\ P[1].text = path.text
        BY <1>2, <1>6, <1>7, <1>10
      <3>2. \A l \in 1..q : 1 + l \in 1..(i - 1) /\ P[1 + l].text = Query(l).text
        BY <1>2, <1>6, <1>7, <1>10
      <3> QED
        BY <2>1, <3>1, <3>2
    <2>3. body \in Values(m)
      BY <1>5
    <2>4. Ends(body)
      BY <2>2, <1>1, <1>10, Fields DEF Ends
    <2> QED
      BY <2>3, <2>4
  <1>11. ASSUME NEW k \in 1..n, i = q + 2 + k
         PROVE  \E v \in Values(m) : Ends(v)
    <2>1. f[k] \in Open /\ Header(f[k]) \in Values(m)
      BY <1>4, <1>5
    <2>2. ASSUME NEW u \in Values(m), Before(u, Header(f[k]))
          PROVE  \/ u = path \/ u = body \/ \E l \in 1..q : u = Query(l)
                 \/ \E l \in 1..n : l < k /\ u = Header(f[l])
      <3>1. CASE \E j \in Open : u = Header(j)
        <4>1. PICK j \in Open : u = Header(j)
          BY <3>1
        <4>2. j < f[k]
          BY <2>2, <4>1, Fields DEF Before
        <4>3. PICK l \in 1..n : f[l] = j
          BY <1>4
        <4>4. l < k
          <5>1. ~(f[k] < f[l]) /\ f[l] # f[k]
            BY <1>2, <2>1, <4>2, <4>3 DEF Open
          <5> QED
            BY <1>2, <1>4, <5>1
        <4> QED
          BY <4>1, <4>3, <4>4
      <3> QED
        BY <3>1, <1>5
    <2>3. \A u \in Values(m) : Before(u, Header(f[k])) =>
             \E l \in 1..(i - 1) : P[l].text = u.text
      <3>1. 1 \in 1..(i - 1) /\ P[1].text = path.text
        BY <1>2, <1>6, <1>7, <1>11
      <3>2. q + 2 \in 1..(i - 1) /\ P[q + 2].text = body.text
        BY <1>2, <1>6, <1>7, <1>11
      <3>3. \A l \in 1..q : 1 + l \in 1..(i - 1) /\ P[1 + l].text = Query(l).text
        BY <1>2, <1>6, <1>7, <1>11
      <3>4. \A l \in 1..n :
               l < k => q + 2 + l \in 1..(i - 1) /\ P[q + 2 + l].text = Header(f[l]).text
        BY <1>2, <1>6, <1>7, <1>11
      <3>5. ASSUME NEW u \in Values(m), Before(u, Header(f[k]))
            PROVE  \E l \in 1..(i - 1) : P[l].text = u.text
        <4>1. CASE u = path
          BY <3>1, <4>1
        <4>2. CASE u = body
          BY <3>2, <4>2
        <4>3. CASE \E l \in 1..q : u = Query(l)
          BY <3>3, <4>3
        <4>4. CASE \E l \in 1..n : l < k /\ u = Header(f[l])
          BY <3>4, <4>4
        <4> HIDE DEF path, body, Query, Header
        <4> QED
          BY <2>2, <3>5, <4>1, <4>2, <4>3, <4>4
      <3> QED
        BY <3>5
    <2>4. Ends(Header(f[k]))
      <3> DEFINE v == Header(f[k])
      <3>1. P[i] = Place("header", m.headers[f[k]].name, m.headers[f[k]].text)
        BY <1>1, <1>4, <1>11
      <3>2. v.where = P[i].where /\ v.name = P[i].name /\ v.text = P[i].text
        BY <3>1, Fields
      <3> HIDE DEF v
      <3>3. Ends(v)
        BY <3>2, <2>3 DEF Ends, v
      <3> QED
        BY <3>3 DEF v
    <2> QED
      BY <2>1, <2>4
  <1>12. \/ i = 1 \/ \E j \in 1..q : i = 1 + j
         \/ i = q + 2 \/ \E k \in 1..n : i = q + 2 + k
    <2>1. i \in 1..(q + 2 + n)
      BY <1>1, <1>2
    <2>2. CASE i > 1 /\ i < q + 2
      <3>1. i - 1 \in 1..q /\ i = 1 + (i - 1)
        BY <1>2, <2>1, <2>2
      <3> QED
        BY <3>1
    <2>3. CASE i > q + 2
      <3>1. i - (q + 2) \in 1..n /\ i = q + 2 + (i - (q + 2))
        BY <1>2, <2>1, <2>3
      <3> QED
        BY <3>1
    <2> QED
      BY <1>2, <2>1, <2>2, <2>3
  <1>13. \E v \in Values(m) : Ends(v)
    BY <1>8, <1>9, <1>10, <1>11, <1>12
  <1> QED
    BY <1>13 DEF Ends, P

\* What is scanned of a request, by where it stands.
LEMMA PlacesAreTexts ==
  ASSUME NEW m \in Messages
  PROVE  /\ \A p \in ToSet(Places(m)) : <<p.where, p.text>> \in Texts(m) /\ p \in PlaceType
         /\ \A t \in Texts(m) : t[1] \in {"path", "query", "body", "header"} =>
               \E p \in ToSet(Places(m)) : p.where = t[1] /\ p.text = t[2]
  <1> DEFINE kept == Scannable(m.headers)
             q == Len(m.query)
             h == Len(m.headers)
             P == Places(m)
  <1>0. /\ q \in Nat /\ h \in Nat /\ Len(kept) \in Nat /\ Len(P) = q + 2 + Len(kept)
        /\ DOMAIN P = 1..Len(P) /\ DOMAIN m.query = 1..q /\ DOMAIN m.headers = 1..h
        /\ \A i \in 1..Len(P) : P[i] \in PlaceType
    BY PlacesOK, LenProperties, ElementOfSeq
  <1>1. PICK f : Keeps(m.headers, kept, h, f)
    BY PlacesOK, ScannableOK
  <1>2. /\ P[1] = Place("path", <<>>, m.path)
        /\ \A i \in 1..q : P[1 + i] = Place("query", m.query[i].name, m.query[i].text)
        /\ P[q + 2] = Place("body", <<>>, m.body)
        /\ \A i \in 1..Len(kept) : P[q + 2 + i] = Place("header", kept[i].name, kept[i].text)
    BY PlacesOK
  <1>3. ASSUME NEW p \in ToSet(P)
        PROVE  <<p.where, p.text>> \in Texts(m) /\ p \in PlaceType
    <2>1. PICK i \in 1..Len(P) : p = P[i]
      BY <1>0 DEF ToSet
    <2>2. PICK v \in Values(m) : v.where = p.where /\ v.text = p.text
      BY <2>1, PlaceIsValue
    <2>3. <<v.where, v.text>> \in Texts(m)
      BY <1>0 DEF Values, Value, Texts, ToSet
    <2> QED
      BY <1>0, <2>1, <2>2, <2>3
  <1>4. ASSUME NEW t \in Texts(m), t[1] \in {"path", "query", "body", "header"}
        PROVE  \E p \in ToSet(P) : p.where = t[1] /\ p.text = t[2]
    <2> SUFFICES \E i \in 1..Len(P) : P[i].where = t[1] /\ P[i].text = t[2]
      BY <1>0 DEF ToSet
    <2> HIDE DEF P, q, h, kept
    <2>1. CASE t = <<"path", m.path>>
      <3>1. 1 \in 1..Len(P) /\ P[1] = Place("path", <<>>, m.path)
        BY <1>0, <1>2
      <3> QED
        BY <2>1, <3>1 DEF Place
    <2>2. CASE t = <<"body", m.body>>
      <3>1. q + 2 \in 1..Len(P) /\ P[q + 2] = Place("body", <<>>, m.body)
        BY <1>0, <1>2
      <3> QED
        BY <2>2, <3>1 DEF Place
    <2>3. CASE \E j \in 1..q : t = <<"query", m.query[j].text>>
      <3>1. PICK j \in 1..q : t = <<"query", m.query[j].text>>
        BY <2>3
      <3>2. 1 + j \in 1..Len(P) /\ P[1 + j] = Place("query", m.query[j].name, m.query[j].text)
        BY <1>0, <1>2
      <3> QED
        BY <3>1, <3>2 DEF Place
    <2>4. CASE \E j \in 1..h :
                 IsScannableHeader(m.headers[j].name) /\ t = <<"header", m.headers[j].text>>
      <3>1. PICK j \in 1..h :
                 IsScannableHeader(m.headers[j].name) /\ t = <<"header", m.headers[j].text>>
        BY <2>4
      <3>2. PICK k \in 1..Len(kept) : kept[k] = m.headers[j]
        BY <3>1, <1>1 DEF Keeps
      <3>3. /\ q + 2 + k \in 1..Len(P)
            /\ P[q + 2 + k] = Place("header", kept[k].name, kept[k].text)
        BY <1>0, <1>2
      <3> QED
        BY <3>1, <3>2, <3>3 DEF Place
    <2> QED
      <3>1. \/ t = <<"path", m.path>> \/ t = <<"body", m.body>>
            \/ \E g \in ToSet(m.query) : t = <<"query", g.text>>
            \/ \E g \in ToSet(m.headers) :
                  IsScannableHeader(g.name) /\ t = <<"header", g.text>>
        BY <1>4 DEF Texts
      <3>2. /\ \A g \in ToSet(m.query) : \E j \in 1..q : g = m.query[j]
            /\ \A g \in ToSet(m.headers) : \E j \in 1..h : g = m.headers[j]
        BY <1>0 DEF ToSet
      <3> QED
        BY <2>1, <2>2, <2>3, <2>4, <3>1, <3>2
  <1> QED
    BY <1>3, <1>4

-----------------------------------------------------------------------------
(* One detector.                                                           *)

Finds(kind, m) == \E p \in ToSet(Places(m)) : Matches(kind, p.text)

\* scan returns the first place that matches, with the first pattern that it includes.
LEMMA ScanOK ==
  ASSUME NEW kind \in Kinds, NEW m \in Messages
  PROVE  /\ ~Finds(kind, m) => Scan(kind, m) = Safe
         /\ Finds(kind, m) =>
              /\ Scan(kind, m).attack = kind
              /\ \E i \in 1..Len(Places(m)) :
                    /\ Scan(kind, m).where = Places(m)[i].where
                    /\ Scan(kind, m).name = Places(m)[i].name
                    /\ FirstIncluded(kind, Places(m)[i].text, Scan(kind, m).pattern)
                    /\ \A k \in 1..(i - 1) : ~Matches(kind, Places(m)[k].text)
  <1> DEFINE P == Places(m)
             I == {i \in 1..Len(P) : Matched(kind, P[i].text) # 0}
             first == IF I # {} THEN Min(I) ELSE 0
  <1>1. Len(P) \in Nat /\ DOMAIN P = 1..Len(P) /\ \A i \in 1..Len(P) : P[i] \in PlaceType
    BY PlacesOK, LenProperties, ElementOfSeq
  <1>2. \A i \in 1..Len(P) :
           /\ Matched(kind, P[i].text) # 0 <=> Matches(kind, P[i].text)
           /\ Matched(kind, P[i].text) # 0 =>
                 FirstIncluded(kind, P[i].text, Patterns(kind)[Matched(kind, P[i].text)])
    BY <1>1, MatchedOK DEF PlaceType
  <1>3. Scan(kind, m) = IF first = 0 THEN Safe
          ELSE [attack |-> kind, where |-> P[first].where, name |-> P[first].name,
                pattern |-> Patterns(kind)[Matched(kind, P[first].text)]]
    BY DEF Scan, SelectInSeq
  <1>4. Finds(kind, m) <=> I # {}
    BY <1>1, <1>2 DEF Finds, ToSet
  <1>5. CASE I = {}
    BY <1>3, <1>4, <1>5
  <1>6. CASE I # {}
    <2>1. I \subseteq Nat
      BY <1>1
    <2>2. first \in I /\ \A k \in I : first <= k
      <3> HIDE DEF I
      <3> QED
        BY <2>1, <1>6, MinIsLeast
    <2>3. /\ first \in 1..Len(P) /\ first # 0
          /\ FirstIncluded(kind, P[first].text, Patterns(kind)[Matched(kind, P[first].text)])
      <3>1. first \in 1..Len(P) /\ first # 0 /\ Matched(kind, P[first].text) # 0
        BY <2>2, <1>1
      <3> HIDE DEF first, P, I
      <3> QED
        BY <3>1, <1>2
    <2>4. \A k \in 1..(first - 1) : ~Matches(kind, P[k].text)
      <3> TAKE k \in 1..(first - 1)
      <3>1. k \in 1..Len(P) /\ ~(first <= k)
        BY <2>3, <1>1
      <3> HIDE DEF first, P
      <3>2. k \notin I
        BY <2>2, <3>1
      <3> QED
        BY <3>1, <3>2, <1>2
    <2> HIDE DEF first, P, I
    <2>5. /\ Scan(kind, m).attack = kind
          /\ Scan(kind, m).where = P[first].where /\ Scan(kind, m).name = P[first].name
          /\ Scan(kind, m).pattern = Patterns(kind)[Matched(kind, P[first].text)]
      BY <1>3, <2>3
    <2>6. /\ first \in 1..Len(P)
          /\ Scan(kind, m).where = P[first].where /\ Scan(kind, m).name = P[first].name
          /\ FirstIncluded(kind, P[first].text, Scan(kind, m).pattern)
          /\ \A k \in 1..(first - 1) : ~Matches(kind, P[k].text)
      BY <2>3, <2>4, <2>5
    <2>7. \E i \in 1..Len(P) :
             /\ Scan(kind, m).where = P[i].where /\ Scan(kind, m).name = P[i].name
             /\ FirstIncluded(kind, P[i].text, Scan(kind, m).pattern)
             /\ \A k \in 1..(i - 1) : ~Matches(kind, P[k].text)
      BY <2>6
    <2> QED
      BY <2>5, <2>7, <1>4, <1>6 DEF P
  <1> QED
    BY <1>5, <1>6

\* What a detector finds is what ScanRoute is given as hits.
LEMMA FindsHits ==
  ASSUME NEW kind \in Kinds, NEW m \in Messages
  PROVE  Finds(kind, m) <=> ScanRoute!Detects(kind, m)
  <1>1. ScanRoute!Detects(kind, m)
           <=> \E l \in {"path", "query", "body", "header"} : <<l, kind>> \in Hits(m)
    BY DEF ScanRoute!Detects, ScanRoute!Scanned
  <1>2. \A l : <<l, kind>> \in Hits(m)
           <=> \E t \in Texts(m) : t[1] = l /\ Matches(kind, t[2])
    BY DEF Hits
  <1>3. ASSUME NEW p \in ToSet(Places(m)), Matches(kind, p.text)
        PROVE  \E l \in {"path", "query", "body", "header"} : <<l, kind>> \in Hits(m)
    <2>1. <<p.where, p.text>> \in Texts(m) /\ p \in PlaceType
      BY PlacesAreTexts
    <2> QED
      BY <1>2, <1>3, <2>1 DEF PlaceType
  <1>4. ASSUME NEW t \in Texts(m), t[1] \in {"path", "query", "body", "header"},
               Matches(kind, t[2])
        PROVE  Finds(kind, m)
    BY <1>4, PlacesAreTexts DEF Finds
  <1> QED
    BY <1>1, <1>2, <1>3, <1>4 DEF Finds

-----------------------------------------------------------------------------
(* The two in turn.                                                        *)

Found(m) ==
    IF Scan("SQLi", m).attack # "safe" THEN Scan("SQLi", m) ELSE Scan("XSS", m)

DetectorInv ==
    /\ message \in Messages
    /\ result = NotScanned \/ result = Found(message)

LEMMA DetectorInvariant == DetectorSpec => []DetectorInv
  <1>1. DetectorInit => DetectorInv
    BY DEF DetectorInit, DetectorInv
  <1>2. DetectorInv /\ [DetectorNext]_detectorVars => DetectorInv'
    <2> SUFFICES ASSUME DetectorInv, [DetectorNext]_detectorVars PROVE DetectorInv'
      OBVIOUS
    <2>1. CASE Detect
      <3>1. result' = Found(message) /\ message' = message
        BY <2>1 DEF Detect, Found
      <3> QED
        BY <3>1 DEF DetectorInv
    <2>2. CASE UNCHANGED detectorVars
      BY <2>2 DEF DetectorInv, detectorVars
    <2> QED
      BY <2>1, <2>2 DEF DetectorNext
  <1> QED
    BY <1>1, <1>2, PTL DEF DetectorSpec

\* What came of m is the first detector's find, or the second's, or nothing.
LEMMA FoundOK ==
  ASSUME NEW m \in Messages
  PROVE  /\ Found(m).attack = ScanRoute!Detection(m)
         /\ Found(m).attack \in Kinds =>
               Finds(Found(m).attack, m) /\ Found(m) = Scan(Found(m).attack, m)
  <1>1. "SQLi" \in Kinds /\ "XSS" \in Kinds /\ Safe.attack = "safe"
    BY DEF Kinds, Safe, NotScanned
  <1>2. CASE Finds("SQLi", m)
    <2>1. Scan("SQLi", m).attack = "SQLi"
      BY <1>1, <1>2, ScanOK
    <2>2. ScanRoute!Detects("SQLi", m)
      BY <1>1, <1>2, FindsHits
    <2> QED
      BY <1>2, <2>1, <2>2 DEF Found, ScanRoute!Detection
  <1>3. CASE ~Finds("SQLi", m) /\ Finds("XSS", m)
    <2>1. Scan("SQLi", m).attack = "safe" /\ Scan("XSS", m).attack = "XSS"
      BY <1>1, <1>3, ScanOK
    <2>2. ~ScanRoute!Detects("SQLi", m) /\ ScanRoute!Detects("XSS", m)
      BY <1>1, <1>3, FindsHits
    <2> QED
      BY <1>3, <2>1, <2>2 DEF Found, ScanRoute!Detection
  <1>4. CASE ~Finds("SQLi", m) /\ ~Finds("XSS", m)
    <2>1. Scan("SQLi", m).attack = "safe" /\ Scan("XSS", m).attack = "safe"
      BY <1>1, <1>4, ScanOK
    <2>2. ~ScanRoute!Detects("SQLi", m) /\ ~ScanRoute!Detects("XSS", m)
      BY <1>1, <1>4, FindsHits
    <2> QED
      BY <2>1, <2>2 DEF Found, ScanRoute!Detection, Kinds
  <1> QED
    BY <1>2, <1>3, <1>4

\* For any lists of patterns in lower case and any requests, the loops over places,
\* parameters, headers and patterns find exactly what ScanRoute is given as hits.
THEOREM DetectorsAgree == DetectorSpec => []DetectionAgrees
  <1>1. DetectorInv => DetectionAgrees
    BY FoundOK DEF DetectorInv, DetectionAgrees
  <1> QED
    BY <1>1, DetectorInvariant, PTL

\* For any lists of patterns in lower case and any requests: the response to a blocked
\* request names the path, the body, or the parameter or header whose value contains
\* the pattern it reports; that pattern is the first of the detector's list that the
\* value contains, and no value before it in the request contains any of them.
THEOREM DetailIsTheFirst == DetectorSpec => []DetailIsFirst
  <1>1. DetectorInv => DetailIsFirst
    <2> SUFFICES ASSUME DetectorInv, result.attack \in Kinds PROVE DetailIsFirst
      BY DEF DetailIsFirst
    <2> DEFINE P == Places(message)
               kind == result.attack
    <2>1. message \in Messages /\ result = Scan(kind, message) /\ Finds(kind, message)
      <3>1. NotScanned.attack \notin Kinds
        BY DEF NotScanned, Kinds
      <3> QED
        BY <3>1, FoundOK DEF DetectorInv
    <2>2. PICK i \in 1..Len(P) :
             /\ result.where = P[i].where /\ result.name = P[i].name
             /\ FirstIncluded(kind, P[i].text, result.pattern)
             /\ \A k \in 1..(i - 1) : ~Matches(kind, P[k].text)
      BY <2>1, ScanOK
    <2>3. PICK v \in Values(message) :
             /\ v.where = P[i].where /\ v.name = P[i].name /\ v.text = P[i].text
             /\ \A u \in Values(message) : Before(u, v) =>
                   \E k \in 1..(i - 1) : P[k].text = u.text
      BY <2>1, PlaceIsValue
    <2>4. \A u \in Values(message) : Before(u, v) => ~Matches(kind, u.text)
      BY <2>2, <2>3
    <2> HIDE DEF P
    <2> QED
      BY <2>2, <2>3, <2>4 DEF DetailIsFirst
  <1> QED
    BY <1>1, DetectorInvariant, PTL

-----------------------------------------------------------------------------
(*                              Credentials                                *)

(* normalizeEmail.                                                         *)

Spellings == Seq(Characters)

LEMMA FoldKeepsBlanks ==
  ASSUME NEW c \in Characters, NEW d \in Characters, Fold(c) = Fold(d)
  PROVE  c \in Blanks <=> d \in Blanks
  BY CredentialsAssumption DEF Fold

\* What is not blank lies between a first and a last.
LEMMA SolidEnds ==
  ASSUME NEW raw \in Spellings, Solid(raw) # {}
  PROVE  \E lo, hi \in Solid(raw) : \A k \in Solid(raw) : lo <= k /\ k <= hi
  <1>1. Len(raw) \in Nat /\ Solid(raw) \subseteq 0..Len(raw) /\ Solid(raw) \subseteq Nat
    BY LenProperties DEF Spellings, Solid
  <1>2. PICK lo \in Solid(raw) : \A k \in Solid(raw) : lo <= k
    BY <1>1, LeastNumber
  <1>3. PICK hi \in Solid(raw) : \A k \in Solid(raw) : k <= hi
    BY <1>1, GreatestNumber
  <1> QED
    BY <1>2, <1>3

LEMMA NormalizeIs ==
  ASSUME NEW raw \in Spellings, NEW lo \in Solid(raw), NEW hi \in Solid(raw),
         \A k \in Solid(raw) : lo <= k /\ k <= hi
  PROVE  NormalizeEmail(raw) = [i \in 1..(hi - lo + 1) |-> Fold(raw[i + lo - 1])]
  <1>1. Solid(raw) \subseteq Nat
    BY LenProperties DEF Spellings, Solid
  <1>2. Min(Solid(raw)) = lo /\ Max(Solid(raw)) = hi
    BY <1>1, MinIs, MaxIs
  <1> QED
    BY <1>2 DEF NormalizeEmail

\* A part of raw with all its solid characters normalizes to the same.
LEMMA PartNormalizes ==
  ASSUME NEW raw \in Spellings, NEW i \in 1..(Len(raw) + 1), NEW j \in 0..Len(raw),
         \A k \in DOMAIN raw : raw[k] \in Blanks \/ k \in i..j
  PROVE  /\ SubSeq(raw, i, j) \in Spellings
         /\ NormalizeEmail(SubSeq(raw, i, j)) = NormalizeEmail(raw)
  <1> DEFINE x == SubSeq(raw, i, j)
             n == IF i <= j THEN j - i + 1 ELSE 0
  <1>0. Len(raw) \in Nat /\ DOMAIN raw = 1..Len(raw) /\ i \in Nat /\ j \in Nat /\ i >= 1
    BY LenProperties DEF Spellings
  <1>1. \A k \in i..j : raw[k] \in Characters
    BY <1>0, ElementOfSeq DEF Spellings
  <1>2. x \in Spellings /\ Len(x) = n /\ \A k \in 1..(j - i + 1) : x[k] = raw[i + k - 1]
    BY <1>0, <1>1, SubSeqProperties DEF Spellings
  <1> HIDE DEF x
  <1>3. DOMAIN x = 1..n /\ n \in Nat /\ \A k \in 1..n : x[k] = raw[i + k - 1]
    BY <1>0, <1>2, LenProperties DEF Spellings
  <1>4. \A k \in Solid(raw) : k \in i..j /\ k - i + 1 \in Solid(x)
    <2> TAKE k \in Solid(raw)
    <2>1. k \in i..j /\ k - i + 1 \in 1..n /\ i + (k - i + 1) - 1 = k
      BY <1>0 DEF Solid
    <2>2. x[k - i + 1] = raw[k]
      BY <2>1, <1>3
    <2> QED
      BY <2>1, <2>2, <1>3 DEF Solid
  <1>5. \A k \in Solid(x) : i + k - 1 \in Solid(raw)
    <2> TAKE k \in Solid(x)
    <2>1. k \in 1..n /\ x[k] = raw[i + k - 1] /\ x[k] \notin Blanks
      BY <1>3 DEF Solid
    <2>2. i + k - 1 \in DOMAIN raw
      BY <2>1, <1>0
    <2> QED
      BY <2>1, <2>2 DEF Solid
  <1>6. CASE Solid(raw) = {}
    <2>1. Solid(x) = {}
      BY <1>5, <1>6
    <2> QED
      BY <1>2, <1>6, <2>1 DEF NormalizeEmail, x
  <1>7. CASE Solid(raw) # {}
    <2>1. PICK lo \in Solid(raw), hi \in Solid(raw) :
             \A k \in Solid(raw) : lo <= k /\ k <= hi
      BY <1>7, SolidEnds
    <2> DEFINE l == lo - i + 1
               h == hi - i + 1
    <2>2. lo \in Nat /\ hi \in Nat /\ lo \in i..j /\ hi \in i..j
      BY <1>0, <1>4 DEF Solid
    <2>3. l \in Solid(x) /\ h \in Solid(x)
      BY <2>1, <1>4
    <2>4. \A k \in Solid(x) : l <= k /\ k <= h
      <3> TAKE k \in Solid(x)
      <3>1. lo <= i + k - 1 /\ i + k - 1 <= hi /\ k \in Nat
        BY <2>1, <1>3, <1>5 DEF Solid
      <3> QED
        BY <3>1, <2>2, <1>0
    <2>5. NormalizeEmail(x) = [k \in 1..(h - l + 1) |-> Fold(x[k + l - 1])]
      BY <1>2, <2>3, <2>4, NormalizeIs
    <2>6. NormalizeEmail(raw) = [k \in 1..(hi - lo + 1) |-> Fold(raw[k + lo - 1])]
      BY <2>1, NormalizeIs
    <2>7. h - l + 1 = hi - lo + 1
      BY <2>2, <1>0
    <2>8. \A k \in 1..(hi - lo + 1) : x[k + l - 1] = raw[k + lo - 1]
      <3> TAKE k \in 1..(hi - lo + 1)
      <3>1. k + l - 1 \in 1..n /\ i + (k + l - 1) - 1 = k + lo - 1
        BY <2>2, <1>0
      <3> QED
        BY <3>1, <1>3
    <2> HIDE DEF l, h
    <2>9. NormalizeEmail(x) = NormalizeEmail(raw)
      BY <2>5, <2>6, <2>7, <2>8
    <2> QED
      BY <2>9, <1>2 DEF x
  <1> QED
    BY <1>6, <1>7

\* Texts that differ in case alone normalize to the same.
LEMMA CaseNormalizes ==
  ASSUME NEW x \in Spellings, NEW y \in Spellings, Len(x) = Len(y),
         \A i \in DOMAIN x : Fold(x[i]) = Fold(y[i])
  PROVE  NormalizeEmail(x) = NormalizeEmail(y)
  <1>1. DOMAIN x = DOMAIN y /\ DOMAIN x = 1..Len(x) /\ Len(x) \in Nat
    BY LenProperties DEF Spellings
  <1>2. \A i \in DOMAIN x : x[i] \in Characters /\ y[i] \in Characters
    BY <1>1, ElementOfSeq DEF Spellings
  <1>3. Solid(x) = Solid(y)
    BY <1>1, <1>2, FoldKeepsBlanks DEF Solid
  <1>4. CASE Solid(x) = {}
    BY <1>3, <1>4 DEF NormalizeEmail
  <1>5. CASE Solid(x) # {}
    <2>1. PICK lo \in Solid(x), hi \in Solid(x) : \A k \in Solid(x) : lo <= k /\ k <= hi
      BY <1>5, SolidEnds
    <2>2. NormalizeEmail(x) = [k \in 1..(hi - lo + 1) |-> Fold(x[k + lo - 1])]
      BY <2>1, NormalizeIs
    <2>3. NormalizeEmail(y) = [k \in 1..(hi - lo + 1) |-> Fold(y[k + lo - 1])]
      BY <1>3, <2>1, NormalizeIs
    <2>4. \A k \in 1..(hi - lo + 1) : k + lo - 1 \in DOMAIN x
      BY <1>1 DEF Solid
    <2> QED
      BY <2>2, <2>3, <2>4
  <1> QED
    BY <1>4, <1>5

\* One of the trimmings differs from what raw normalizes to in case alone.
LEMMA NormalTrimming ==
  ASSUME NEW raw \in Spellings
  PROVE  \E x \in Trimmings(raw) :
            NormalizeEmail(raw) = [i \in 1..Len(x) |-> Fold(x[i])] /\ x \in Spellings
  <1>0. Len(raw) \in Nat /\ DOMAIN raw = 1..Len(raw)
    BY LenProperties DEF Spellings
  <1>1. ASSUME NEW i \in 1..(Len(raw) + 1), NEW j \in 0..Len(raw),
               \A k \in DOMAIN raw : raw[k] \in Blanks \/ k \in i..j
        PROVE  SubSeq(raw, i, j) \in Trimmings(raw) /\ SubSeq(raw, i, j) \in Spellings
    <2> DEFINE p == <<i, j>>
    <2>1. p \in (1..(Len(raw) + 1)) \X (0..Len(raw)) /\ p[1] = i /\ p[2] = j
      OBVIOUS
    <2> HIDE DEF p
    <2>2. SubSeq(raw, p[1], p[2]) \in Trimmings(raw)
      BY <1>1, <2>1 DEF Trimmings
    <2> QED
      BY <1>1, <2>1, <2>2, PartNormalizes
  <1>2. CASE Solid(raw) = {}
    <2>1. SubSeq(raw, 1, 0) = <<>>
      BY SubSeqEmpty
    <2>2. \A k \in DOMAIN raw : raw[k] \in Blanks
      BY <1>2 DEF Solid
    <2>6. 1 \in 1..(Len(raw) + 1) /\ 0 \in 0..Len(raw)
      BY <1>0
    <2>7. SubSeq(raw, 1, 0) \in Trimmings(raw) /\ SubSeq(raw, 1, 0) \in Spellings
      BY <1>1, <2>2, <2>6
    <2>4. <<>> \in Trimmings(raw) /\ <<>> \in Spellings
      BY <2>1, <2>7
    <2>3. NormalizeEmail(raw) = <<>> /\ Len(<<>>) = 0
      BY <1>2 DEF NormalizeEmail
    <2>5. [i \in 1..Len(<<>>) |-> Fold(<<>>[i])] = <<>>
      BY <2>3
    <2> QED
      BY <2>3, <2>4, <2>5
  <1>3. CASE Solid(raw) # {}
    <2>1. PICK lo \in Solid(raw), hi \in Solid(raw) :
             \A k \in Solid(raw) : lo <= k /\ k <= hi
      BY <1>3, SolidEnds
    <2>2. lo \in 1..Len(raw) /\ hi \in 1..Len(raw) /\ lo <= hi
      BY <2>1, <1>0 DEF Solid
    <2> DEFINE x == SubSeq(raw, lo, hi)
    <2>3. x \in Trimmings(raw) /\ x \in Spellings
      BY <1>0, <1>1, <2>1, <2>2 DEF Solid
    <2>4. Len(x) = hi - lo + 1 /\ \A k \in 1..(hi - lo + 1) : x[k] = raw[lo + k - 1]
      <3>1. \A k \in lo..hi : raw[k] \in Characters
        BY <1>0, <2>2, ElementOfSeq DEF Spellings
      <3> QED
        BY <3>1, <2>2, SubSeqProperties
    <2>5. NormalizeEmail(raw) = [k \in 1..(hi - lo + 1) |-> Fold(raw[k + lo - 1])]
      BY <2>1, NormalizeIs
    <2>6. \A k \in 1..(hi - lo + 1) : x[k] = raw[k + lo - 1]
      BY <2>2, <2>4
    <2> HIDE DEF x
    <2>7. NormalizeEmail(raw) = [k \in 1..Len(x) |-> Fold(x[k])]
      BY <2>4, <2>5, <2>6
    <2> QED
      BY <2>3, <2>7
  <1> QED
    BY <1>2, <1>3

\* normalizeEmail tells exactly whether two spellings are of one address.
THEOREM NormalizeDecides ==
  ASSUME NEW a \in Spellings, NEW b \in Spellings
  PROVE  SameAddress(a, b) <=> NormalizeEmail(a) = NormalizeEmail(b)
  <1>1. ASSUME NEW raw \in Spellings, NEW x \in Trimmings(raw)
        PROVE  x \in Spellings /\ NormalizeEmail(x) = NormalizeEmail(raw)
    <2>1. PICK p \in (1..(Len(raw) + 1)) \X (0..Len(raw)) :
             /\ x = SubSeq(raw, p[1], p[2])
             /\ \A k \in DOMAIN raw : raw[k] \in Blanks \/ k \in p[1]..p[2]
      BY <1>1 DEF Trimmings
    <2> QED
      BY <2>1, PartNormalizes
  <1>2. ASSUME SameAddress(a, b)
        PROVE  NormalizeEmail(a) = NormalizeEmail(b)
    <2>1. PICK x \in Trimmings(a), y \in Trimmings(b) :
             Len(x) = Len(y) /\ \A i \in DOMAIN x : Fold(x[i]) = Fold(y[i])
      BY <1>2 DEF SameAddress
    <2> QED
      BY <1>1, <2>1, CaseNormalizes
  <1>3. ASSUME NormalizeEmail(a) = NormalizeEmail(b)
        PROVE  SameAddress(a, b)
    <2>1. PICK x \in Trimmings(a) :
             NormalizeEmail(a) = [i \in 1..Len(x) |-> Fold(x[i])] /\ x \in Spellings
      BY NormalTrimming
    <2>2. PICK y \in Trimmings(b) :
             NormalizeEmail(b) = [i \in 1..Len(y) |-> Fold(y[i])] /\ y \in Spellings
      BY NormalTrimming
    <2>3. Len(x) \in Nat /\ Len(y) \in Nat /\ DOMAIN x = 1..Len(x)
      BY <2>1, <2>2, LenProperties DEF Spellings
    <2>4. 1..Len(x) = 1..Len(y)
      BY <1>3, <2>1, <2>2
    <2>5. Len(x) = Len(y)
      BY <2>3, <2>4
    <2>6. \A i \in 1..Len(x) : Fold(x[i]) = Fold(y[i])
      BY <1>3, <2>1, <2>2, <2>4
    <2> QED
      BY <2>3, <2>5, <2>6 DEF SameAddress
  <1> QED
    BY <1>2, <1>3

-----------------------------------------------------------------------------
(* Registrations and logins.                                               *)

Typed(a) == a.typed \in RawEmails /\ a.email = NormalizeEmail(a.typed)

AccountsOK ==
    /\ \A a \in accounts : Typed(a)
    /\ \A a, b \in accounts : a.email = b.email => a = b

AnswerOK ==
    /\ answer.route # "none" => answer.raw \in RawEmails
    /\ answer.status = 409 =>
          answer.route = "register" /\ FindByEmail(NormalizeEmail(answer.raw)) # {}
    /\ answer.route = "login" =>
          (answer.status = 200 <=>
              \E a \in FindByEmail(NormalizeEmail(answer.raw)) : a.password = answer.password)

CredentialInv == AccountsOK /\ AnswerOK

LEMMA CredentialStep ==
  ASSUME CredentialInv, [CredentialNext]_credentialVars
  PROVE  CredentialInv'
  <1> USE DEF CredentialInv, AccountsOK, AnswerOK, FindByEmail, Answer, Typed
  <1>1. ASSUME NEW raw \in RawEmails, NEW password \in Passwords, Register(raw, password)
        PROVE  CredentialInv'
    <2> DEFINE email == NormalizeEmail(raw)
               new == [email |-> email, typed |-> raw, password |-> password]
    <2>1. CASE FindByEmail(email) = {} /\ accounts' = accounts \cup {new}
               /\ Answer("register", raw, password, 201)
      <3>1. AccountsOK'
        BY <2>1, <1>1
      <3>2. AnswerOK'
        BY <2>1, <1>1
      <3> QED
        BY <3>1, <3>2
    <2>2. CASE UNCHANGED accounts /\ Answer("register", raw, password, 400)
      BY <2>2, <1>1
    <2>3. CASE UNCHANGED accounts /\ Answer("register", raw, password, 409)
               /\ FindByEmail(email) # {}
      BY <2>3, <1>1
    <2> QED
      BY <1>1, <2>1, <2>2, <2>3 DEF Register
  <1>2. ASSUME NEW raw \in RawEmails, NEW password \in Passwords, Login(raw, password)
        PROVE  CredentialInv'
    BY <1>2 DEF Login
  <1>3. CASE UNCHANGED credentialVars
    BY <1>3 DEF credentialVars
  <1> QED
    BY <1>1, <1>2, <1>3 DEF CredentialNext

LEMMA CredentialInvariant == CredentialSpec => []CredentialInv
  <1>1. CredentialInit => CredentialInv
    BY DEF CredentialInit, CredentialInv, AccountsOK, AnswerOK
  <1> QED
    BY <1>1, CredentialStep, PTL DEF CredentialSpec

\* Whatever is registered and however it is spelt, an address has one account, and a
\* registration refused with 409 has an account of its address.
THEOREM OneAccountForAll == CredentialSpec => []OneAccountPerAddress
  <1>1. CredentialInv => OneAccountPerAddress
    <2> SUFFICES ASSUME CredentialInv PROVE OneAccountPerAddress
      OBVIOUS
    <2> USE DEF CredentialInv, AccountsOK, AnswerOK, Typed
    <2>1. RawEmails \subseteq Spellings
      BY CredentialsAssumption DEF Spellings
    <2>2. ASSUME NEW a \in accounts, NEW b \in accounts, SameAddress(a.typed, b.typed)
          PROVE  a = b
      BY <2>1, <2>2, NormalizeDecides
    <2>3. ASSUME answer.status = 409
          PROVE  \E a \in accounts : SameAddress(a.typed, answer.raw)
      BY <2>1, <2>3, NormalizeDecides DEF FindByEmail
    <2> QED
      BY <2>2, <2>3 DEF OneAccountPerAddress
  <1> QED
    BY <1>1, CredentialInvariant, PTL

\* A login finds the account of its address by any spelling of it, and no other.
THEOREM AnySpellingForAll == CredentialSpec => []AnySpellingLogsIn
  <1>1. CredentialInv => AnySpellingLogsIn
    <2> SUFFICES ASSUME CredentialInv, answer.route = "login"
                 PROVE  answer.status = 200 <=>
                          \E a \in accounts : SameAddress(a.typed, answer.raw)
                                              /\ a.password = answer.password
      BY DEF AnySpellingLogsIn
    <2> USE DEF CredentialInv, AccountsOK, AnswerOK, Typed
    <2>1. RawEmails \subseteq Spellings
      BY CredentialsAssumption DEF Spellings
    <2>2. \A a \in accounts :
             a \in FindByEmail(NormalizeEmail(answer.raw)) <=> SameAddress(a.typed, answer.raw)
      BY <2>1, NormalizeDecides DEF FindByEmail
    <2> QED
      BY <2>2 DEF FindByEmail
  <1> QED
    BY <1>1, CredentialInvariant, PTL

-----------------------------------------------------------------------------
(*                                Tokens                                   *)

\* A byte is its two digits.
LEMMA ByteDigits ==
  ASSUME NEW b \in Byte
  PROVE  /\ b \div Base \in 0..(Base - 1)
         /\ b % Base \in 0..(Base - 1)
         /\ b = Base * (b \div Base) + (b % Base)
  <1> DEFINE q == b \div Base
             r == b % Base
  <1>0. Base \in Nat /\ Base > 1 /\ b \in Nat /\ b < Base * Base
    BY TokensAssumption DEF Byte
  <1>1. q \in Int /\ r \in 0..(Base - 1)
    BY <1>0
  <1>2. b = Base * q + r
    BY <1>0
  <1>3. q >= 0
    BY <1>0
  <1>4. q < Base
    <2> HIDE DEF q, r
    <2>1. SUFFICES ASSUME q >= Base PROVE FALSE
      BY <1>0, <1>1
    <2>2. Base * q >= Base * Base
      BY <2>1, <1>0, <1>1
    <2> QED
      BY <2>2, <1>0, <1>1, <1>2
  <1> HIDE DEF q, r
  <1>5. q \in 0..(Base - 1)
    BY <1>0, <1>1, <1>3, <1>4
  <1> QED
    BY <1>1, <1>2, <1>5 DEF q, r

\* The digits of bytes, in order.
Digit(bytes, k) ==
    IF k % 2 = 1 THEN bytes[(k + 1) \div 2] \div Base ELSE bytes[k \div 2] % Base

LEMMA DigitOK ==
  ASSUME NEW bytes \in Bytes, NEW k \in 1..(2 * SIZE)
  PROVE  Digit(bytes, k) \in 0..(Base - 1)
  <1>1. (k % 2 = 1 => (k + 1) \div 2 \in 1..SIZE) /\ (k % 2 # 1 => k \div 2 \in 1..SIZE)
    BY TokensAssumption
  <1> QED
    BY <1>1, ByteDigits DEF Bytes, Digit

LEMMA NextTwo ==
  ASSUME NEW bytes \in Bytes, NEW i \in 1..SIZE
  PROVE  [k \in 1..(2 * (i - 1)) |-> Digit(bytes, k)] \o HexByte(bytes[i])
            = [k \in 1..(2 * i) |-> Digit(bytes, k)]
  <1> DEFINE D == 0..(Base - 1)
             s == [k \in 1..(2 * (i - 1)) |-> Digit(bytes, k)]
             t == HexByte(bytes[i])
             u == [k \in 1..(2 * i) |-> Digit(bytes, k)]
  <1>0. i \in Nat /\ i >= 1 /\ SIZE \in Nat /\ i <= SIZE
    BY TokensAssumption
  <1>1. s \in Seq(D) /\ Len(s) = 2 * (i - 1)
    <2>1. \A k \in 1..(2 * (i - 1)) : s[k] \in D
      BY <1>0, DigitOK
    <2> QED
      BY <2>1, <1>0
  <1>2. t \in Seq(D) /\ Len(t) = 2
        /\ t[1] = bytes[i] \div Base /\ t[2] = bytes[i] % Base
    <2>1. bytes[i] \div Base \in D /\ bytes[i] % Base \in D
      BY ByteDigits DEF Bytes
    <2> QED
      BY <2>1 DEF HexByte
  <1>3. u \in Seq(D) /\ Len(u) = 2 * i
    <2>1. \A k \in 1..(2 * i) : u[k] \in D
      BY <1>0, DigitOK
    <2> QED
      BY <2>1, <1>0
  <1>4. /\ s \o t \in Seq(D)
        /\ Len(s \o t) = Len(s) + Len(t)
        /\ \A k \in 1..(Len(s) + Len(t)) :
              (s \o t)[k] = IF k <= Len(s) THEN s[k] ELSE t[k - Len(s)]
    <2> HIDE DEF s, t, D
    <2> QED
      BY <1>1, <1>2, ConcatProperties
  <1>5. ASSUME NEW k \in 1..(2 * i)
        PROVE  (s \o t)[k] = u[k]
    <2>1. CASE k <= 2 * (i - 1)
      <3>1. (s \o t)[k] = s[k]
        BY <2>1, <1>0, <1>1, <1>2, <1>4
      <3> QED
        BY <3>1, <2>1, <1>0
    <2>2. CASE k = 2 * i - 1
      <3>1. (s \o t)[k] = t[1]
        BY <2>2, <1>0, <1>1, <1>2, <1>4
      <3>2. k % 2 = 1 /\ (k + 1) \div 2 = i
        BY <2>2, <1>0
      <3> QED
        BY <3>1, <3>2, <1>2 DEF Digit
    <2>3. CASE k = 2 * i
      <3>1. (s \o t)[k] = t[2]
        BY <2>3, <1>0, <1>1, <1>2, <1>4
      <3>2. k % 2 # 1 /\ k \div 2 = i
        BY <2>3, <1>0
      <3>3. u[k] = bytes[i] % Base
        BY <3>2 DEF Digit
      <3> QED
        BY <3>1, <3>3, <1>2
    <2>4. k <= 2 * (i - 1) \/ k = 2 * i - 1 \/ k = 2 * i
      BY <1>0
    <2> QED
      BY <2>1, <2>2, <2>3, <2>4
  <1>6. Len(s \o t) = 2 * i
    BY <1>0, <1>1, <1>2, <1>4
  <1> HIDE DEF s, t, u, D
  <1>7. s \o t = u
    BY <1>3, <1>4, <1>5, <1>6, SeqEqual
  <1> QED
    BY <1>7 DEF s, t, u

LEMMA HexDigits ==
  ASSUME NEW bytes \in Bytes
  PROVE  Hex(bytes) = [k \in 1..(2 * SIZE) |-> Digit(bytes, k)]
  <1> DEFINE 
     Def(f) == [i \in 0..SIZE |-> IF i = 0 THEN <<>> ELSE f[i - 1] \o HexByte(bytes[i])]
     sol == [i \in 0..SIZE |-> [k \in 1..(2 * i) |-> Digit(bytes, k)]]
     rest == CHOOSE f : f = Def(f)
  <1>0. SIZE \in Nat
    BY TokensAssumption
  <1>1. sol = Def(sol)
    <2>1. ASSUME NEW i \in 0..SIZE 
          PROVE  sol[i] = Def(sol)[i]
      <3>1. CASE i = 0
        <4>1. sol[0] = <<>>
          BY <1>0
        <4> QED BY <3>1, <4>1
      <3>2. CASE i # 0
        <4>1. i \in 1..SIZE /\ i - 1 \in 0..SIZE
          BY <3>2, <1>0
        <4>2. sol[i - 1] = [k \in 1..(2 * (i - 1)) |-> Digit(bytes, k)]
          BY <4>1
        <4>3. sol[i] = sol[i - 1] \o HexByte(bytes[i])
          BY <4>1, <4>2, NextTwo
        <4> QED BY <4>3, <3>2
      <3> QED BY <3>1, <3>2
    <2> QED
      BY <2>1
  <1>2. rest = Def(rest)
    BY <1>1
  <1>3. Hex(bytes) = rest[SIZE]
    BY DEF Hex
  <1>4. rest[SIZE] = sol[SIZE]
    <2> DEFINE Bad == {j \in 0..SIZE : rest[j] # sol[j]}
    <2> HIDE DEF rest, sol
    <2>1. Bad = {} => rest[SIZE] = sol[SIZE]
      BY <1>0
    <2>2. ASSUME NEW i \in Bad, \A j \in Bad : i <= j
          PROVE  FALSE
      <3>1. i \in 0..SIZE /\ rest[i] = Def(rest)[i] /\ sol[i] = Def(sol)[i]
        BY <1>1, <1>2 DEF Def
      <3>2. i # 0
        BY <3>1
      <3>3. i \in 1..SIZE /\ i - 1 \in 0..SIZE /\ i - 1 < i
        BY <3>1, <3>2, <1>0
      <3>4. rest[i - 1] = sol[i - 1]
        BY <2>2, <3>3
      <3>5. Def(rest)[i] = Def(sol)[i]
        BY <3>1, <3>2, <3>4
      <3> QED
        BY <3>1, <3>5
    <2>3. Bad \subseteq Nat
      BY <1>0
    <2> QED
      BY <2>1, <2>2, <2>3, LeastNumber, Zenon
  <1> QED
    BY <1>3, <1>4, <1>0

\* A text of 2 * SIZE digits, from which the bytes can be read back.
LEMMA HexOneToOne ==
  ASSUME NEW x \in Bytes, NEW y \in Bytes
  PROVE  /\ Hex(x) \in Token
         /\ Hex(x) = Hex(y) => x = y
  <1>0. SIZE \in Nat /\ SIZE > 0
    BY TokensAssumption
  <1>1. Hex(x) \in Token
    BY HexDigits, DigitOK DEF Token
  <1>2. ASSUME Hex(x) = Hex(y), NEW i \in 1..SIZE
        PROVE  x[i] = y[i]
    <2>1. 2 * i \in 1..(2 * SIZE) /\ 2 * i - 1 \in 1..(2 * SIZE)
      BY <1>0
    <2>2. Digit(x, 2 * i) = Digit(y, 2 * i) /\ Digit(x, 2 * i - 1) = Digit(y, 2 * i - 1)
      BY <1>2, <2>1, HexDigits
    <2>3. (2 * i) % 2 # 1 /\ (2 * i) \div 2 = i
          /\ (2 * i - 1) % 2 = 1 /\ ((2 * i - 1) + 1) \div 2 = i
      BY <1>0
    <2>4. x[i] % Base = y[i] % Base /\ x[i] \div Base = y[i] \div Base
      BY <2>2, <2>3 DEF Digit
    <2> QED
      BY <2>4, ByteDigits DEF Bytes
  <1>3. ASSUME Hex(x) = Hex(y) PROVE x = y
    <2>1. \A i \in 1..SIZE : x[i] = y[i]
      BY <1>2, <1>3
    <2>2. x = [i \in 1..SIZE |-> x[i]] /\ y = [i \in 1..SIZE |-> y[i]]
      BY DEF Bytes
    <2>3. [i \in 1..SIZE |-> x[i]] = [i \in 1..SIZE |-> y[i]]
      BY <2>1
    <2> QED
      BY <2>2, <2>3
  <1> QED
    BY <1>1, <1>3

-----------------------------------------------------------------------------
(* What was issued, and what was found last.                               *)

\* Distinct bytes, each written as its token and stored under its hash.
IssuedOK ==
    /\ issued \in Seq([token : Token, bytes : Bytes])
    /\ Len(stored) = Len(issued)
    /\ stored \in Seq(Token)
    /\ \A i \in DOMAIN issued :
          /\ issued[i].token = Hex(issued[i].bytes)
          /\ stored[i] = Sha256Hex(issued[i].token)
    /\ \A i, j \in DOMAIN issued : issued[i].bytes = issued[j].bytes => i = j

LookupOK ==
    \/ found = NotFound
    \/ \E i \in DOMAIN issued : found = [token |-> issued[i].token, rows |-> {i}]

TokenInv == IssuedOK /\ LookupOK

\* Sha256Hex is one to one on tokens.
LEMMA HashOneToOne ==
  ASSUME NEW t \in Token, NEW u \in Token
  PROVE  /\ Sha256Hex(t) \in Token
         /\ Sha256Hex(t) = Sha256Hex(u) => t = u
  BY DigestAssumption, HexOneToOne DEF Sha256Hex

LEMMA TokenLength ==
  ASSUME NEW t \in Token
  PROVE  Len(t) = 2 * SIZE
  <1>1. 2 * SIZE \in Nat
    BY TokensAssumption
  <1>2. t \in Seq(0..(Base - 1)) /\ DOMAIN t = 1..(2 * SIZE)
    BY <1>1, SeqDef, Zenon DEF Token
  <1>3. Len(t) \in Nat /\ DOMAIN t = 1..Len(t)
    BY <1>2, LenProperties
  <1> QED
    BY <1>1, <1>2, <1>3

LEMMA IssuedTypes ==
  ASSUME IssuedOK, NEW i \in DOMAIN issued
  PROVE  issued[i].token \in Token /\ issued[i].bytes \in Bytes
  <1>1. issued[i] \in [token : Token, bytes : Bytes]
    BY ElementOfSeq, LenProperties DEF IssuedOK
  <1> QED
    BY <1>1

LEMMA Issuing ==
  ASSUME TokenInv, NEW bytes \in Bytes \ Drawn, Issue(bytes)
  PROVE  TokenInv'
  <1> DEFINE row == [token |-> Hex(bytes), bytes |-> bytes]
             hash == Sha256Hex(Hex(bytes))
             n == Len(issued)
  <1>1. row \in [token : Token, bytes : Bytes] /\ hash \in Token
    BY HexOneToOne, HashOneToOne
  <1>2. issued' = Append(issued, row) /\ stored' = Append(stored, hash) /\ UNCHANGED found
    BY DEF Issue
  <1> USE DEF TokenInv, IssuedOK
  <1>3. \A i \in DOMAIN issued : issued[i].bytes # bytes
    BY DEF Drawn
  <1> HIDE DEF row, hash
  <1>4. /\ issued' \in Seq([token : Token, bytes : Bytes])
        /\ stored' \in Seq(Token)
        /\ Len(issued') = n + 1 /\ Len(stored') = n + 1
        /\ DOMAIN issued = 1..n /\ DOMAIN issued' = 1..(n + 1) /\ n \in Nat
        /\ \A i \in 1..n : issued'[i] = issued[i] /\ stored'[i] = stored[i]
        /\ issued'[n + 1] = row /\ stored'[n + 1] = hash
    BY <1>1, <1>2
  <1>5. ASSUME NEW i \in DOMAIN issued'
        PROVE  /\ issued'[i].token = Hex(issued'[i].bytes)
               /\ stored'[i] = Sha256Hex(issued'[i].token)
    <2>1. CASE i \in 1..n
      BY <2>1, <1>4
    <2>2. CASE i = n + 1
      BY <2>2, <1>4 DEF row, hash
    <2> QED
      BY <2>1, <2>2, <1>4
  <1>6. ASSUME NEW i \in DOMAIN issued', NEW j \in DOMAIN issued',
               issued'[i].bytes = issued'[j].bytes
        PROVE  i = j
    <2>1. (issued'[n + 1]).bytes = bytes
      BY <1>4 DEF row
    <2> QED
      BY <2>1, <1>3, <1>4, <1>6
  <1>7. LookupOK'
    BY <1>2, <1>4 DEF LookupOK
  <1>8. IssuedOK'
    BY <1>4, <1>5, <1>6 DEF Sha256Hex
  <1> QED
    BY <1>7, <1>8

LEMMA Finding ==
  ASSUME TokenInv, NEW i \in DOMAIN issued, FindByHash(issued[i].token)
  PROVE  TokenInv'
  <1> USE DEF TokenInv, IssuedOK
  <1>1. \A j \in DOMAIN issued : issued[j].token \in Token /\ issued[j].bytes \in Bytes
    BY IssuedTypes
  <1>2. DOMAIN stored = DOMAIN issued
    OBVIOUS
  <1>3. ASSUME NEW j \in DOMAIN stored
        PROVE  stored[j] = Sha256Hex(issued[i].token) <=> j = i
    <2>1. stored[j] = Sha256Hex(issued[j].token)
      BY <1>2
    <2>2. issued[j].token = issued[i].token => j = i
      BY <1>1, <1>2, HexOneToOne
    <2> QED
      BY <1>1, <1>2, <2>1, <2>2, HashOneToOne
  <1>4. {j \in DOMAIN stored : stored[j] = Sha256Hex(issued[i].token)} = {i}
    BY <1>2, <1>3
  <1>5. found' = [token |-> issued[i].token, rows |-> {i}] /\ UNCHANGED <<issued, stored>>
    BY <1>4 DEF FindByHash
  <1>6. LookupOK'
    BY <1>5 DEF LookupOK
  <1> QED
    BY <1>5, <1>6 DEF Sha256Hex

LEMMA TokenInvariant == TokenSpec => []TokenInv
  <1>1. TokenInit => TokenInv
    BY DEF TokenInit, TokenInv, IssuedOK, LookupOK
  <1>2. TokenInv /\ [TokenNext]_tokenVars => TokenInv'
    <2> SUFFICES ASSUME TokenInv, [TokenNext]_tokenVars PROVE TokenInv'
      OBVIOUS
    <2>1. CASE ReadBytes
      BY <2>1, Issuing DEF ReadBytes
    <2>2. CASE ReadsShort
      BY <2>2 DEF ReadsShort, TokenInv, IssuedOK, LookupOK, Sha256Hex
    <2>3. CASE \E i \in DOMAIN issued : FindByHash(issued[i].token)
      BY <2>3, Finding
    <2>4. CASE UNCHANGED tokenVars
      BY <2>4 DEF tokenVars, TokenInv, IssuedOK, LookupOK, Sha256Hex
    <2> QED
      BY <2>1, <2>2, <2>3, <2>4 DEF TokenNext
  <1> QED
    BY <1>1, <1>2, PTL DEF TokenSpec

\* However many tokens and keys are drawn, and whatever reads fail in between, no two
\* are the same text and each has all its digits: setw(2) and setfill('0') lose nothing.
THEOREM NoTwoTokensAlike == TokenSpec => []TokensDiffer
  <1>1. TokenInv => TokensDiffer
    <2> SUFFICES ASSUME TokenInv, NEW i \in DOMAIN issued, NEW j \in DOMAIN issued
                 PROVE  /\ Len(issued[i].token) = 2 * SIZE
                        /\ issued[i].token = issued[j].token => i = j
      BY DEF TokensDiffer
    <2> USE DEF TokenInv, IssuedOK
    <2>1. \A k \in DOMAIN issued : issued[k].token \in Token /\ issued[k].bytes \in Bytes
      BY IssuedTypes
    <2>2. Len(issued[i].token) = 2 * SIZE
      BY <2>1, TokenLength
    <2> QED
      BY <2>1, <2>2, HexOneToOne
  <1> QED
    BY <1>1, TokenInvariant, PTL

\* A token finds the session that was stored for it, and no other, after any number of
\* others were issued.
THEOREM TokenFindsItsSession == TokenSpec => []FindsItsSession
  <1>1. TokenInv => FindsItsSession
    <2> SUFFICES ASSUME TokenInv, NEW i \in DOMAIN issued, found.token = issued[i].token
                 PROVE  found.rows = {i}
      BY DEF FindsItsSession
    <2> USE DEF TokenInv, IssuedOK
    <2>1. \A k \in DOMAIN issued : issued[k].token \in Token /\ issued[k].bytes \in Bytes
      BY IssuedTypes
    <2>2. found # NotFound
      <3>1. Len(issued[i].token) = 2 * SIZE
        BY <2>1, TokenLength
      <3>3. 2 * SIZE # 0
        BY TokensAssumption
      <3>2. Len(<<>>) = 0
        OBVIOUS
      <3> QED
        BY <3>1, <3>2, <3>3 DEF NotFound
    <2>3. PICK k \in DOMAIN issued : found = [token |-> issued[k].token, rows |-> {k}]
      BY <2>2 DEF LookupOK
    <2> QED
      BY <2>1, <2>3, HexOneToOne
  <1> QED
    BY <1>1, TokenInvariant, PTL
=============================================================================
