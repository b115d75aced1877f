-------------------------- MODULE StorePathsProofs ---------------------------
(* Proofs about modules KeyEncoding and StorePaths.                        *)
EXTENDS StorePaths, SequenceTheorems, FiniteSetTheorems, WellFoundedInduction, TLAPS

(* The CHOOSE of Min and Max is never arbitrary.                           *)
LEMMA MinIsLeast ==
  ASSUME NEW T \in SUBSET Nat, T # {}
  PROVE  Min(T) \in T /\ \A y \in T : Min(T) <= y
<1>1. PICK x \in T : \A y \in T : ~(<<y, x>> \in OpToRel(<, Nat))
  BY NatLessThanWellFounded, WFMin
<1>2. \A y \in T : x <= y
  <2> SUFFICES ASSUME NEW y \in T, ~(x <= y) PROVE FALSE
    OBVIOUS
  <2>1. x \in Nat /\ y \in Nat
    OBVIOUS
  <2>2. y < x
    BY <2>1
  <2>3. <<y, x>> \in OpToRel(<, Nat)
    BY <2>1, <2>2, Zenon DEF OpToRel
  <2> QED BY <1>1, <2>3
<1> QED BY <1>2 DEF Min

LEMMA MaxIsGreatest ==
  ASSUME NEW n \in Nat, NEW T \in SUBSET (1 .. n), T # {}
  PROVE  Max(T) \in T /\ \A y \in T : Max(T) >= y
<1> DEFINE D == {n - i : i \in T}
<1>0. T \subseteq Int /\ \A i \in T : 1 <= i /\ i <= n
  OBVIOUS
<1>1. D \in SUBSET Nat /\ D # {}
  <2>1. \A i \in T : n - i \in Nat
    BY <1>0
  <2> QED BY <2>1
<1>2. PICK d \in D : \A y \in D : d <= y
  <2> HIDE DEF D
  <2> QED BY <1>1, MinIsLeast
<1>3. PICK x \in T : d = n - x
  BY <1>2
<1>4. \A y \in T : x >= y
  <2> SUFFICES ASSUME NEW y \in T PROVE x >= y
    OBVIOUS
  <2>1. n - y \in D
    OBVIOUS
  <2>2. n - x <= n - y
    BY <1>2, <1>3, <2>1
  <2>3. x \in Int /\ y \in Int
    BY <1>0
  <2> HIDE DEF D
  <2> QED BY <2>2, <2>3
<1> QED BY <1>4 DEF Max

LEMMA LeastPlace ==
  ASSUME NEW n \in Nat, NEW P \in SUBSET (1 .. n), P # {}
  PROVE  Min(P) \in 1 .. n /\ \A i \in 1 .. Min(P) - 1 : i \notin P
<1>1. P \in SUBSET Nat
  OBVIOUS
<1>2. Min(P) \in P /\ \A y \in P : Min(P) <= y
  BY <1>1, MinIsLeast
<1>3. PICK m \in 1 .. n : m = Min(P) /\ \A y \in P : m <= y
  BY <1>2
<1> QED BY <1>3

LEMMA GreatestPlace ==
  ASSUME NEW n \in Nat, NEW P \in SUBSET (1 .. n), P # {}
  PROVE  Max(P) \in 1 .. n /\ \A i \in Max(P) + 1 .. n : i \notin P
<1>1. PICK m \in 1 .. n : m = Max(P) /\ \A y \in P : m >= y
  BY MaxIsGreatest
<1> QED BY <1>1

(* The anchors hold no wildcard and are pieces of their pattern.           *)
LEMMA FirstStarIsFirst ==
  ASSUME NEW pattern \in Seq(Str)
  PROVE  /\ FirstStar(pattern) \in 0 .. Len(pattern)
         /\ FirstStar(pattern) = 0 => \A i \in 1 .. Len(pattern) : pattern[i] # Star
         /\ \A i \in 1 .. FirstStar(pattern) - 1 : pattern[i] # Star
<1>0. PICK n \in Nat : n = Len(pattern)
  BY LenProperties
<1>1. PICK I \in SUBSET (1 .. n) : I = {i \in 1 .. n : pattern[i] = Star}
  OBVIOUS
<1>2. FirstStar(pattern) = IF I # {} THEN Min(I) ELSE 0
  BY <1>0, <1>1 DEF FirstStar, SelectInSeq
<1>3. CASE I = {}
  BY <1>0, <1>1, <1>2, <1>3
<1>4. CASE I # {}
  <2>1. PICK m \in 1 .. n : m = FirstStar(pattern) /\ \A i \in 1 .. m - 1 : i \notin I
    BY <1>2, <1>4, LeastPlace
  <2>2. \A i \in 1 .. m - 1 : i \in 1 .. n
    OBVIOUS
  <2>3. \A i \in 1 .. m - 1 : pattern[i] # Star
    BY <1>1, <2>1, <2>2
  <2>4. m # 0 /\ m \in 0 .. n
    OBVIOUS
  <2> QED BY <1>0, <2>1, <2>3, <2>4
<1> QED BY <1>3, <1>4

LEMMA LastStarIsLast ==
  ASSUME NEW pattern \in Seq(Str)
  PROVE  /\ LastStar(pattern) \in 0 .. Len(pattern)
         /\ \A i \in LastStar(pattern) + 1 .. Len(pattern) : pattern[i] # Star
<1>0. PICK n \in Nat : n = Len(pattern)
  BY LenProperties
<1>1. PICK I \in SUBSET (1 .. n) : I = {i \in 1 .. n : pattern[i] = Star}
  OBVIOUS
<1>2. LastStar(pattern) = IF I # {} THEN Max(I) ELSE 0
  BY <1>0, <1>1 DEF LastStar, SelectLastInSeq
<1>3. CASE I = {}
  BY <1>0, <1>1, <1>2, <1>3
<1>4. CASE I # {}
  <2>1. PICK m \in 1 .. n : m = LastStar(pattern) /\ \A i \in m + 1 .. n : i \notin I
    BY <1>2, <1>4, GreatestPlace
  <2>2. \A i \in m + 1 .. n : i \in 1 .. n
    OBVIOUS
  <2>3. \A i \in m + 1 .. n : pattern[i] # Star
    BY <1>1, <2>1, <2>2
  <2> QED BY <1>0, <2>1, <2>3
<1> QED BY <1>3, <1>4

LEMMA LeadingIsLiteral ==
  ASSUME NEW pattern \in Seq(Str)
  PROVE  \E n \in 0 .. Len(pattern) :
           /\ LeadingTokens(pattern) = SubSeq(pattern, 1, n)
           /\ \A i \in 1 .. n : pattern[i] # Star
<1>1. Len(pattern) \in Nat /\ pattern = SubSeq(pattern, 1, Len(pattern))
  BY LenProperties, SubSeqFull
<1>2. CASE FirstStar(pattern) = 0
  <2>1. LeadingTokens(pattern) = SubSeq(pattern, 1, Len(pattern))
    BY <1>1, <1>2 DEF LeadingTokens
  <2>2. Len(pattern) \in 0 .. Len(pattern)
    BY <1>1
  <2> QED BY <1>2, <2>1, <2>2, FirstStarIsFirst
<1>3. CASE FirstStar(pattern) # 0
  <2>1. LeadingTokens(pattern) = SubSeq(pattern, 1, FirstStar(pattern) - 1)
    BY <1>3 DEF LeadingTokens
  <2>2. FirstStar(pattern) - 1 \in 0 .. Len(pattern)
    BY <1>1, <1>3, FirstStarIsFirst
  <2> QED BY <2>1, <2>2, FirstStarIsFirst
<1> QED BY <1>2, <1>3

LEMMA TrailingIsLiteral ==
  ASSUME NEW pattern \in Seq(Str)
  PROVE  \E n \in 0 .. Len(pattern) :
           /\ TrailingTokens(pattern) = SubSeq(pattern, n + 1, Len(pattern))
           /\ \A i \in n + 1 .. Len(pattern) : pattern[i] # Star
BY LastStarIsLast DEF TrailingTokens

(* The items of a piece of a sequence.                                     *)
LEMMA Piece ==
  ASSUME NEW s \in Seq(Str), NEW m \in 0 .. Len(s), NEW n \in m .. Len(s)
  PROVE  /\ SubSeq(s, m + 1, n) \in Seq(Str)
         /\ Len(SubSeq(s, m + 1, n)) = n - m
         /\ \A i \in 1 .. n - m : SubSeq(s, m + 1, n)[i] = s[m + i]
<1>1. Len(s) \in Nat /\ \A i \in 1 .. Len(s) : s[i] \in Str
  BY LenProperties, ElementOfSeq
<1>2. PICK a \in Int, b \in Int : a = m + 1 /\ b = n /\ a >= 1 /\ b <= Len(s) /\ m <= n
  BY <1>1
<1>3. \A i \in a .. b : s[i] \in Str
  BY <1>1, <1>2
<1>4. /\ SubSeq(s, a, b) \in Seq(Str)
      /\ Len(SubSeq(s, a, b)) = IF a <= b THEN b - a + 1 ELSE 0
      /\ \A i \in 1 .. b - a + 1 : SubSeq(s, a, b)[i] = s[a + i - 1]
  BY <1>3, SubSeqProperties
<1>5. \A i \in 1 .. n - m : a + i - 1 = m + i
  BY <1>1, <1>2
<1> QED BY <1>1, <1>2, <1>4, <1>5

(* The filter expressions say what they are for.                           *)
LEMMA PrefixFilterIsExact ==
  ASSUME NEW pattern \in Seq(Str), NEW ns \in Seq(Str)
  PROVE  PrefixFilter(pattern, ns) <=> HasPrefix(pattern, ns)
<1>1. /\ Len(pattern) \in Nat /\ Len(ns) \in Nat
      /\ DOMAIN pattern = 1 .. Len(pattern) /\ DOMAIN ns = 1 .. Len(ns)
  BY LenProperties
<1>2. \A n \in 0 .. Len(ns) : /\ Len(SubSeq(ns, 1, n)) = n
                              /\ \A i \in 1 .. n : SubSeq(ns, 1, n)[i] = ns[i]
  <2> SUFFICES ASSUME NEW n \in 0 .. Len(ns)
               PROVE  /\ Len(SubSeq(ns, 1, n)) = n
                      /\ \A i \in 1 .. n : SubSeq(ns, 1, n)[i] = ns[i]
    OBVIOUS
  <2>1. /\ Len(SubSeq(ns, 0 + 1, n)) = n - 0
        /\ \A i \in 1 .. n - 0 : SubSeq(ns, 0 + 1, n)[i] = ns[0 + i]
    BY <1>1, Piece
  <2> QED BY <1>1, <2>1
<1>3. ASSUME PrefixFilter(pattern, ns) PROVE HasPrefix(pattern, ns)
  <2>1. Len(pattern) \in 0 .. Len(ns)
    BY <1>1, <1>3 DEF PrefixFilter
  <2>2. Fits(pattern, SubSeq(ns, 1, Len(pattern)))
    BY <1>1, <1>2, <1>3, <2>1 DEF PrefixFilter, Fits
  <2> QED BY <2>1, <2>2 DEF HasPrefix
<1>4. ASSUME HasPrefix(pattern, ns) PROVE PrefixFilter(pattern, ns)
  <2>1. PICK n \in 0 .. Len(ns) : Fits(pattern, SubSeq(ns, 1, n))
    BY <1>4 DEF HasPrefix
  <2> QED BY <1>1, <1>2, <2>1 DEF PrefixFilter, Fits
<1> QED BY <1>3, <1>4

LEMMA SuffixFilterIsExact ==
  ASSUME NEW pattern \in Seq(Str), NEW ns \in Seq(Str)
  PROVE  SuffixFilter(pattern, ns) <=> HasSuffix(pattern, ns)
<1>1. PICK lp \in Nat, ln \in Nat : lp = Len(pattern) /\ ln = Len(ns)
  BY LenProperties
<1>2. DOMAIN pattern = 1 .. lp
  BY <1>1, LenProperties
<1>3. ASSUME NEW n \in 0 .. ln
      PROVE  Fits(pattern, SubSeq(ns, n + 1, ln))
               <=> lp = ln - n /\ \A i \in 1 .. lp : pattern[i] \in {Star, ns[n + i]}
  <2>1. ln \in n .. Len(ns)
    BY <1>1
  <2>2. /\ Len(SubSeq(ns, n + 1, ln)) = ln - n
        /\ \A i \in 1 .. ln - n : SubSeq(ns, n + 1, ln)[i] = ns[n + i]
    BY <1>1, <2>1, Piece
  <2> QED BY <1>1, <1>2, <2>2 DEF Fits
<1>4. CASE lp <= ln
  <2>1. PICK n \in 0 .. ln : n = ln - lp /\ lp = ln - n /\ \A m \in 0 .. ln : lp = ln - m => m = n
    BY <1>4
  <2>2. \A i \in 1 .. lp : ln - lp + i = n + i
    BY <2>1
  <2>3. SuffixFilter(pattern, ns) <=> \A i \in 1 .. lp : pattern[i] \in {Star, ns[n + i]}
    BY <1>1, <1>2, <1>4, <2>2 DEF SuffixFilter
  <2>4. HasSuffix(pattern, ns) <=> \A i \in 1 .. lp : pattern[i] \in {Star, ns[n + i]}
    <3>1. HasSuffix(pattern, ns) <=> \E m \in 0 .. ln : Fits(pattern, SubSeq(ns, m + 1, ln))
      BY <1>1 DEF HasSuffix
    <3>2. HasSuffix(pattern, ns)
            <=> \E m \in 0 .. ln : lp = ln - m /\ \A i \in 1 .. lp : pattern[i] \in {Star, ns[m + i]}
      BY <1>3, <3>1
    <3> QED BY <2>1, <3>2
  <2> QED BY <2>3, <2>4
<1>5. CASE ~(lp <= ln)
  <2>1. ~SuffixFilter(pattern, ns)
    BY <1>1, <1>5 DEF SuffixFilter
  <2>2. \A n \in 0 .. ln : lp # ln - n
    BY <1>5
  <2>3. ~HasSuffix(pattern, ns)
    BY <1>1, <1>3, <2>2 DEF HasSuffix
  <2> QED BY <2>1, <2>3
<1> QED BY <1>4, <1>5

(* Every namespace that passes the filters is in the index under the       *)
(* anchor that is looked up there, whatever Join makes of the tokens.      *)
LEMMA IndexLosesNothing ==
  ASSUME NEW prefix \in Seq(Str), NEW suffix \in Seq(Str), NEW ns \in Seq(Str),
         PrefixFilter(prefix, ns), SuffixFilter(suffix, ns)
  PROVE  IndexSelects(prefix, suffix, ns)
<1>1. /\ Len(prefix) \in Nat /\ Len(suffix) \in Nat /\ Len(ns) \in Nat
      /\ DOMAIN prefix = 1 .. Len(prefix) /\ DOMAIN suffix = 1 .. Len(suffix)
  BY LenProperties
<1>2. CASE LeadingTokens(prefix) # <<>>
  <2>1. PICK n \in 0 .. Len(prefix) : /\ LeadingTokens(prefix) = SubSeq(prefix, 1, n)
                                      /\ \A i \in 1 .. n : prefix[i] # Star
    BY LeadingIsLiteral
  <2>2. n \in 1 .. Len(ns)
    <3>1. n # 0
      BY <1>2, <2>1, SubSeqEmpty
    <3> QED BY <1>1, <3>1 DEF PrefixFilter
  <2>3. SubSeq(prefix, 1, n) = SubSeq(ns, 1, n)
    <3>1. \A i \in 1 .. n : prefix[i] = ns[i]
      BY <1>1, <2>1 DEF PrefixFilter
    <3> QED BY <1>1, <2>1, <2>2, <3>1
  <2>4. Join(LeadingTokens(prefix)) \in NsPrefixes(ns)
    BY <2>1, <2>2, <2>3 DEF NsPrefixes
  <2> QED BY <1>2, <2>4 DEF IndexSelects
<1>3. CASE LeadingTokens(prefix) = <<>> /\ TrailingTokens(suffix) # <<>>
  <2>0. PICK ls \in Nat, ln \in Nat : ls = Len(suffix) /\ ln = Len(ns)
    BY <1>1
  <2>1. PICK m \in 0 .. ls : /\ TrailingTokens(suffix) = SubSeq(suffix, m + 1, ls)
                             /\ \A i \in m + 1 .. ls : suffix[i] # Star
    BY <2>0, TrailingIsLiteral
  <2>2. m # ls
    <3>1. ls + 1 \in Int /\ ls < ls + 1
      OBVIOUS
    <3>2. SubSeq(suffix, ls + 1, ls) = <<>>
      BY <3>1, SubSeqEmpty
    <3> QED BY <1>3, <2>1, <3>2
  <2>3. ln >= ls /\ \A i \in 1 .. ls : suffix[i] # Star => ns[ln - ls + i] = suffix[i]
    BY <1>1, <2>0 DEF SuffixFilter
  <2>4. PICK k \in Nat : k = ln - ls
    BY <2>3
  <2>5. /\ m + 1 \in 1 .. ls /\ k + m \in 0 .. ln /\ k + m + 1 \in 1 .. ln
        /\ ln - (k + m) = ls - m
    BY <2>2, <2>3, <2>4
  <2>6. /\ SubSeq(suffix, m + 1, ls) \in Seq(Str) /\ Len(SubSeq(suffix, m + 1, ls)) = ls - m
        /\ \A i \in 1 .. ls - m : SubSeq(suffix, m + 1, ls)[i] = suffix[m + i]
    <3>1. ls \in m .. Len(suffix) /\ m \in 0 .. Len(suffix)
      BY <2>0
    <3> QED BY <3>1, Piece
  <2>7. /\ SubSeq(ns, k + m + 1, ln) \in Seq(Str) /\ Len(SubSeq(ns, k + m + 1, ln)) = ls - m
        /\ \A i \in 1 .. ls - m : SubSeq(ns, k + m + 1, ln)[i] = ns[k + m + i]
    <3>0. k + m \in 0 .. Len(ns) /\ ln \in k + m .. Len(ns)
      BY <2>0, <2>5
    <3>1. PICK j \in 0 .. Len(ns) : j = k + m /\ ln \in j .. Len(ns) /\ ln - j = ls - m
      BY <2>5, <3>0
    <3>2. /\ SubSeq(ns, j + 1, ln) \in Seq(Str) /\ Len(SubSeq(ns, j + 1, ln)) = ln - j
          /\ \A i \in 1 .. ln - j : SubSeq(ns, j + 1, ln)[i] = ns[j + i]
      BY <3>1, Piece
    <3>3. k + m + 1 = j + 1 /\ ln - j = ls - m /\ \A i \in 1 .. ls - m : k + m + i = j + i
      BY <2>4, <2>5, <3>1
    <3> QED BY <3>2, <3>3, ZenonT(30)
  <2>8. \A i \in 1 .. ls - m : ns[k + m + i] = suffix[m + i]
    <3> SUFFICES ASSUME NEW i \in 1 .. ls - m PROVE ns[k + m + i] = suffix[m + i]
      OBVIOUS
    <3>1. m + i \in 1 .. ls /\ m + i \in m + 1 .. ls /\ ln - ls + (m + i) = k + m + i
      BY <2>4
    <3>2. suffix[m + i] # Star
      BY <2>1, <3>1
    <3>3. ns[ln - ls + (m + i)] = suffix[m + i]
      BY <2>3, <3>1, <3>2
    <3> QED BY <3>1, <3>3
  <2>9. SubSeq(suffix, m + 1, ls) = SubSeq(ns, k + m + 1, ln)
    <3>1. PICK s \in Seq(Str), t \in Seq(Str) :
            s = SubSeq(suffix, m + 1, ls) /\ t = SubSeq(ns, k + m + 1, ln)
      BY <2>6, <2>7
    <3>2. Len(s) = ls - m /\ Len(t) = ls - m /\ \A i \in 1 .. ls - m : s[i] = t[i]
      BY <2>6, <2>7, <2>8, <3>1
    <3> QED BY <3>1, <3>2, SeqEqual
  <2>10. Join(TrailingTokens(suffix)) \in NsSuffixes(ns)
    BY <2>0, <2>1, <2>5, <2>9 DEF NsSuffixes
  <2> QED BY <1>3, <2>10 DEF IndexSelects
<1>4. CASE LeadingTokens(prefix) = <<>> /\ TrailingTokens(suffix) = <<>>
  BY <1>4 DEF IndexSelects
<1> QED BY <1>2, <1>3, <1>4

(* A query of store.py selects exactly the namespaces that begin with its  *)
(* prefix pattern and end with its suffix pattern, for all patterns and    *)
(* all namespaces: the index it is narrowed by never costs it a record.    *)
THEOREM QueriesExact == QueryIsExact(Seq(Str), Seq(Str), Seq(Str))
<1> SUFFICES ASSUME NEW ns \in Seq(Str), NEW prefix \in Seq(Str), NEW suffix \in Seq(Str)
             PROVE  QuerySelects(prefix, suffix, ns)
                      <=> HasPrefix(prefix, ns) /\ HasSuffix(suffix, ns)
  BY DEF QueryIsExact
<1>1. PrefixFilter(prefix, ns) <=> HasPrefix(prefix, ns)
  BY PrefixFilterIsExact
<1>2. SuffixFilter(suffix, ns) <=> HasSuffix(suffix, ns)
  BY SuffixFilterIsExact
<1> QED BY <1>1, <1>2, IndexLosesNothing DEF QuerySelects
-----------------------------------------------------------------------------
(* The order of the listing.  Python's order of tuples, and of strings, is *)
(* one on sequences, whatever the order R of what they are made of.        *)

StrictOrder(R, A) ==
  /\ \A x \in A : <<x, x>> \notin R
  /\ \A x, y, z \in A : <<x, y>> \in R /\ <<y, z>> \in R => <<x, z>> \in R
  /\ \A x, y \in A : x = y \/ <<x, y>> \in R \/ <<y, x>> \in R

\* Sequences s and t are the same up to place n, and there s ends or is less.
DiffersAt(R, s, t, n) ==
  /\ n < Len(t) /\ n <= Len(s)
  /\ \A i \in 1 .. n : s[i] = t[i]
  /\ n < Len(s) => <<s[n + 1], t[n + 1]>> \in R

LexLess(R, s, t) == \E n \in Nat : DiffersAt(R, s, t, n)

Lex(R, A) == {pair \in Seq(A) \X Seq(A) : LexLess(R, pair[1], pair[2])}

LEMMA LexTransitive ==
  ASSUME NEW A, NEW R, StrictOrder(R, A),
         NEW s \in Seq(A), NEW t \in Seq(A), NEW u \in Seq(A), LexLess(R, s, t), LexLess(R, t, u)
  PROVE  LexLess(R, s, u)
<1>1. PICK m \in Nat : DiffersAt(R, s, t, m)
  BY DEF LexLess
<1>2. PICK n \in Nat : DiffersAt(R, t, u, n)
  BY DEF LexLess
<1>3. PICK ls \in Nat, lt \in Nat, lu \in Nat : ls = Len(s) /\ lt = Len(t) /\ lu = Len(u)
  BY LenProperties
<1>4. CASE m < n
  <2>1. m < lt /\ m <= ls /\ n <= lt /\ n < lu /\ m < lu /\ m + 1 \in 1 .. n
    BY <1>1, <1>2, <1>3, <1>4 DEF DiffersAt
  <2>2. \A i \in 1 .. m : s[i] = u[i]
    BY <1>1, <1>2, <1>4 DEF DiffersAt
  <2>3. t[m + 1] = u[m + 1]
    BY <1>2, <2>1 DEF DiffersAt
  <2>4. DiffersAt(R, s, u, m)
    BY <1>1, <1>3, <2>1, <2>2, <2>3 DEF DiffersAt
  <2> QED BY <2>4 DEF LexLess
<1>5. CASE n < m
  <2>1. n < lt /\ n < ls /\ n < lu /\ n + 1 \in 1 .. m
    BY <1>1, <1>2, <1>3, <1>5 DEF DiffersAt
  <2>2. \A i \in 1 .. n : s[i] = u[i]
    BY <1>1, <1>2, <1>5 DEF DiffersAt
  <2>3. s[n + 1] = t[n + 1]
    BY <1>1, <2>1 DEF DiffersAt
  <2>4. DiffersAt(R, s, u, n)
    BY <1>2, <1>3, <2>1, <2>2, <2>3 DEF DiffersAt
  <2> QED BY <2>4 DEF LexLess
<1>6. CASE m = n
  <2>1. n < lt /\ n <= ls /\ n < lu
    BY <1>1, <1>2, <1>3, <1>6 DEF DiffersAt
  <2>2. \A i \in 1 .. n : s[i] = u[i]
    BY <1>1, <1>2, <1>6 DEF DiffersAt
  <2>3. ASSUME n < ls PROVE <<s[n + 1], u[n + 1]>> \in R
    <3>1. s[n + 1] \in A /\ t[n + 1] \in A /\ u[n + 1] \in A
      BY <1>3, <2>1, <2>3, ElementOfSeq
    <3>2. <<s[n + 1], t[n + 1]>> \in R /\ <<t[n + 1], u[n + 1]>> \in R
      BY <1>1, <1>2, <1>3, <1>6, <2>1, <2>3 DEF DiffersAt
    <3>3. PICK x \in A, y \in A, z \in A : x = s[n + 1] /\ y = t[n + 1] /\ z = u[n + 1]
      BY <3>1
    <3> QED BY <3>2, <3>3 DEF StrictOrder
  <2>4. DiffersAt(R, s, u, n)
    BY <1>3, <2>1, <2>2, <2>3 DEF DiffersAt
  <2> QED BY <2>4 DEF LexLess
<1> QED BY <1>4, <1>5, <1>6

LEMMA LexTotal ==
  ASSUME NEW A, NEW R, StrictOrder(R, A), NEW s \in Seq(A), NEW t \in Seq(A), s # t
  PROVE  LexLess(R, s, t) \/ LexLess(R, t, s)
<1>1. PICK ls \in Nat, lt \in Nat : ls = Len(s) /\ lt = Len(t)
  BY LenProperties
<1>2. PICK D \in SUBSET (1 .. ls + lt) :
        D = {i \in 1 .. ls + lt : (i <= ls \/ i <= lt) /\ ~(i <= ls /\ i <= lt /\ s[i] = t[i])}
  OBVIOUS
<1>3. D # {}
  <2> SUFFICES ASSUME D = {} PROVE FALSE
    OBVIOUS
  <2>1. \A i \in 1 .. ls + lt : i <= ls \/ i <= lt => i <= ls /\ i <= lt /\ s[i] = t[i]
    BY <1>2
  <2>2. ls = lt
    <3>1. ls # 0 => ls <= lt
      BY <2>1
    <3>2. lt # 0 => lt <= ls
      BY <2>1
    <3> QED BY <3>1, <3>2
  <2>3. \A i \in 1 .. ls : s[i] = t[i]
    BY <2>1
  <2> QED BY <1>1, <2>2, <2>3, SeqEqual
<1>4. PICK d \in 1 .. ls + lt : d \in D /\ \A i \in 1 .. d - 1 : i \notin D
  <2>1. D \in SUBSET Nat
    OBVIOUS
  <2>2. Min(D) \in D
    BY <1>3, <2>1, MinIsLeast
  <2>3. Min(D) \in 1 .. ls + lt /\ \A i \in 1 .. Min(D) - 1 : i \notin D
    <3>1. PICK k \in Nat : k = ls + lt /\ D \in SUBSET (1 .. k)
      OBVIOUS
    <3> QED BY <1>3, <3>1, LeastPlace
  <2> QED BY <2>2, <2>3
<1>5. (d <= ls \/ d <= lt) /\ ~(d <= ls /\ d <= lt /\ s[d] = t[d])
  BY <1>2, <1>4
<1>6. PICK n \in Nat : n + 1 = d /\ d - 1 = n
  OBVIOUS
<1>7. \A i \in 1 .. n : i <= ls /\ i <= lt /\ s[i] = t[i]
  <2> SUFFICES ASSUME NEW i \in 1 .. n PROVE i <= ls /\ i <= lt /\ s[i] = t[i]
    OBVIOUS
  <2>1. i \notin D /\ i \in 1 .. ls + lt /\ (i <= ls \/ i <= lt)
    BY <1>4, <1>5, <1>6
  <2> QED BY <1>2, <2>1
<1>8. n <= ls /\ n <= lt
  BY <1>7
<1>9. CASE d <= ls /\ d <= lt
  <2>1. s[d] \in A /\ t[d] \in A /\ s[d] # t[d]
    BY <1>1, <1>5, <1>9, ElementOfSeq
  <2>2. <<s[d], t[d]>> \in R \/ <<t[d], s[d]>> \in R
    BY <2>1 DEF StrictOrder
  <2>3. ASSUME <<s[d], t[d]>> \in R PROVE DiffersAt(R, s, t, n)
    BY <1>1, <1>6, <1>7, <1>9, <2>3 DEF DiffersAt
  <2>4. ASSUME <<t[d], s[d]>> \in R PROVE DiffersAt(R, t, s, n)
    BY <1>1, <1>6, <1>7, <1>9, <2>4 DEF DiffersAt
  <2> QED BY <2>2, <2>3, <2>4 DEF LexLess
<1>10. CASE d <= ls /\ ~(d <= lt)
  <2>1. DiffersAt(R, t, s, n)
    BY <1>1, <1>6, <1>7, <1>8, <1>10 DEF DiffersAt
  <2> QED BY <2>1 DEF LexLess
<1>11. CASE ~(d <= ls) /\ d <= lt
  <2>1. DiffersAt(R, s, t, n)
    BY <1>1, <1>6, <1>7, <1>8, <1>11 DEF DiffersAt
  <2> QED BY <2>1 DEF LexLess
<1> QED BY <1>5, <1>9, <1>10, <1>11

LEMMA LexOrder ==
  ASSUME NEW A, NEW R, StrictOrder(R, A)
  PROVE  StrictOrder(Lex(R, A), Seq(A))
<1>1. ASSUME NEW s \in Seq(A), NEW t \in Seq(A)
      PROVE  <<s, t>> \in Lex(R, A) <=> LexLess(R, s, t)
  BY DEF Lex
<1>2. ASSUME NEW s \in Seq(A), LexLess(R, s, s) PROVE FALSE
  <2>1. PICK n \in Nat : DiffersAt(R, s, s, n)
    BY <1>2 DEF LexLess
  <2>2. n + 1 \in 1 .. Len(s) /\ <<s[n + 1], s[n + 1]>> \in R
    BY <2>1, LenProperties DEF DiffersAt
  <2>3. s[n + 1] \in A
    BY <2>2, ElementOfSeq
  <2> QED BY <2>2, <2>3 DEF StrictOrder
<1> QED BY <1>1, <1>2, LexTransitive, LexTotal, Zenon DEF StrictOrder

\* The two orders of the listing are lexicographic.
LEMMA SubSeqsAgree ==
  ASSUME NEW A, NEW s \in Seq(A), NEW t \in Seq(A), NEW n \in Nat, n <= Len(s), n <= Len(t)
  PROVE  SubSeq(s, 1, n) = SubSeq(t, 1, n) <=> \A i \in 1 .. n : s[i] = t[i]
<1>1. PICK a, b : a = SubSeq(s, 1, n) /\ b = SubSeq(t, 1, n)
  OBVIOUS
<1>2. Len(s) \in Nat /\ Len(t) \in Nat
  BY LenProperties
<1>3. a \in Seq(A) /\ Len(a) = n /\ \A i \in 1 .. n : a[i] = s[i]
  <2>1. \A i \in 1 .. n : s[i] \in A
    BY <1>2, ElementOfSeq
  <2> QED BY <1>1, <2>1
<1>4. b \in Seq(A) /\ Len(b) = n /\ \A i \in 1 .. n : b[i] = t[i]
  <2>1. \A i \in 1 .. n : t[i] \in A
    BY <1>2, ElementOfSeq
  <2> QED BY <1>1, <2>1
<1>5. a = b <=> \A i \in 1 .. n : a[i] = b[i]
  BY <1>3, <1>4, SeqEqual
<1> QED BY <1>1, <1>3, <1>4, <1>5

CharOrder == {pair \in Char \X Char : pair[1] < pair[2]}

StrOrder == {pair \in Str \X Str : StrLess(pair[1], pair[2])}

NsOrder == {pair \in Seq(Str) \X Seq(Str) : NsLess(pair[1], pair[2])}

LEMMA StrOrderIsStrict == StrictOrder(StrOrder, Str)
<1>1. StrictOrder(CharOrder, Char)
  BY CharAssumption DEF StrictOrder, CharOrder
<1>2. ASSUME NEW s \in Seq(Char), NEW t \in Seq(Char)
      PROVE  StrLess(s, t) <=> LexLess(CharOrder, s, t)
  <2>0. PICK ls \in Nat, lt \in Nat : ls = Len(s) /\ lt = Len(t)
    BY LenProperties
  <2>1. ASSUME NEW n \in Nat, n < lt, n <= ls
        PROVE  SubSeq(s, 1, n) = SubSeq(t, 1, n) <=> \A i \in 1 .. n : s[i] = t[i]
    BY <2>0, <2>1, SubSeqsAgree
  <2>2. ASSUME NEW n \in Nat, n < lt, n < ls
        PROVE  s[n + 1] < t[n + 1] <=> <<s[n + 1], t[n + 1]>> \in CharOrder
    <3>1. s[n + 1] \in Char /\ t[n + 1] \in Char
      BY <2>0, <2>2, ElementOfSeq
    <3> QED BY <3>1 DEF CharOrder
  <2>3. StrLess(s, t) <=> \E n \in Nat : n < lt /\ n <= ls /\ SubSeq(s, 1, n) = SubSeq(t, 1, n)
                                         /\ (n < ls => s[n + 1] < t[n + 1])
    BY <2>0 DEF StrLess
  <2>4. LexLess(CharOrder, s, t)
          <=> \E n \in Nat : n < lt /\ n <= ls /\ (\A i \in 1 .. n : s[i] = t[i])
                             /\ (n < ls => <<s[n + 1], t[n + 1]>> \in CharOrder)
    BY <2>0 DEF LexLess, DiffersAt
  <2> QED BY <2>1, <2>2, <2>3, <2>4
<1>3. StrOrder = Lex(CharOrder, Char)
  BY <1>2 DEF StrOrder, Lex, Str
<1> QED BY <1>1, <1>3, LexOrder DEF Str

LEMMA NsOrderIsStrict == StrictOrder(NsOrder, Seq(Str))
<1>2. ASSUME NEW s \in Seq(Str), NEW t \in Seq(Str)
      PROVE  NsLess(s, t) <=> LexLess(StrOrder, s, t)
  <2>0. PICK ls \in Nat, lt \in Nat : ls = Len(s) /\ lt = Len(t)
    BY LenProperties
  <2>1. ASSUME NEW n \in Nat, n < lt, n <= ls
        PROVE  SubSeq(s, 1, n) = SubSeq(t, 1, n) <=> \A i \in 1 .. n : s[i] = t[i]
    BY <2>0, <2>1, SubSeqsAgree
  <2>2. ASSUME NEW n \in Nat, n < lt, n < ls
        PROVE  StrLess(s[n + 1], t[n + 1]) <=> <<s[n + 1], t[n + 1]>> \in StrOrder
    <3>1. s[n + 1] \in Str /\ t[n + 1] \in Str
      BY <2>0, <2>2, ElementOfSeq
    <3> QED BY <3>1 DEF StrOrder
  <2>3. NsLess(s, t) <=> \E n \in Nat : n < lt /\ n <= ls /\ SubSeq(s, 1, n) = SubSeq(t, 1, n)
                                        /\ (n < ls => StrLess(s[n + 1], t[n + 1]))
    BY <2>0 DEF NsLess
  <2>4. LexLess(StrOrder, s, t)
          <=> \E n \in Nat : n < lt /\ n <= ls /\ (\A i \in 1 .. n : s[i] = t[i])
                             /\ (n < ls => <<s[n + 1], t[n + 1]>> \in StrOrder)
    BY <2>0 DEF LexLess, DiffersAt
  <2> QED BY <2>1, <2>2, <2>3, <2>4
<1>3. NsOrder = Lex(StrOrder, Str)
  BY <1>2 DEF NsOrder, Lex
<1> QED BY <1>3, StrOrderIsStrict, LexOrder
-----------------------------------------------------------------------------
(* A set in order.                                                         *)

Below(S, x) == {m \in S : NsLess(m, x)}

LEMMA RankGrows ==
  ASSUME NEW S \in SUBSET Seq(Str), IsFiniteSet(S), NEW y \in S
  PROVE  /\ IsFiniteSet(Below(S, y)) /\ Cardinality(Below(S, y)) \in 0 .. Cardinality(S) - 1
         /\ \A x \in S : NsLess(x, y) => Cardinality(Below(S, x)) < Cardinality(Below(S, y))
<1>1. /\ \A x \in S : ~NsLess(x, x)
      /\ \A x, w, z \in S : NsLess(x, w) /\ NsLess(w, z) => NsLess(x, z)
  <2>1. \A x, w \in S : NsLess(x, w) <=> <<x, w>> \in NsOrder
    BY DEF NsOrder
  <2> QED BY <2>1, NsOrderIsStrict, Zenon DEF StrictOrder
<1>2. ASSUME NEW x \in S
      PROVE  /\ IsFiniteSet(Below(S, x)) /\ Cardinality(Below(S, x)) \in Nat
             /\ x \notin Below(S, x)
  <2>1. Below(S, x) \in SUBSET S
    BY DEF Below
  <2>2. IsFiniteSet(Below(S, x))
    BY <2>1, FS_Subset
  <2> QED BY <1>1, <2>2, FS_CardinalityType DEF Below
<1>3. ASSUME NEW x \in S, NEW T, IsFiniteSet(T), Cardinality(T) \in Nat,
             Below(S, x) \cup {x} \in SUBSET T
      PROVE  Cardinality(Below(S, x)) < Cardinality(T)
  <2>1. Cardinality(Below(S, x) \cup {x}) = Cardinality(Below(S, x)) + 1
    BY <1>2, FS_AddElement
  <2>2. Cardinality(Below(S, x) \cup {x}) <= Cardinality(T)
    BY <1>3, FS_Subset
  <2> QED BY <1>2, <1>3, <2>1, <2>2
<1>4. Cardinality(Below(S, y)) < Cardinality(S) /\ Cardinality(S) \in Nat
  <2>1. Cardinality(S) \in Nat
    BY FS_CardinalityType
  <2>2. Below(S, y) \cup {y} \in SUBSET S
    BY DEF Below
  <2> QED BY <1>3, <2>1, <2>2
<1>5. ASSUME NEW x \in S, NsLess(x, y)
      PROVE  Cardinality(Below(S, x)) < Cardinality(Below(S, y))
  <2>1. Below(S, x) \cup {x} \in SUBSET Below(S, y)
    BY <1>1, <1>5 DEF Below
  <2> QED BY <1>2, <1>3, <2>1
<1> QED BY <1>2, <1>4, <1>5

\* Sorted lists each member once, in order and at its place.
LEMMA SortedInOrder ==
  ASSUME NEW S \in SUBSET Seq(Str), IsFiniteSet(S), NEW listed, listed = Sorted(S)
  PROVE  /\ listed \in Seq(S) /\ Len(listed) = Cardinality(S) /\ Range(listed) = S
         /\ \A i, j \in 1 .. Cardinality(S) : i < j => NsLess(listed[i], listed[j])
         /\ \A i \in 1 .. Cardinality(S) : Place(listed[i], S) = i - 1
<1>1. PICK n \in Nat : n = Cardinality(S)
  BY FS_CardinalityType
<1>2. PICK rank \in [S -> 0 .. n - 1] : \A x \in S : rank[x] = Cardinality(Below(S, x))
  <2>1. \A x \in S : Cardinality(Below(S, x)) \in 0 .. n - 1
    BY <1>1, RankGrows
  <2>2. [x \in S |-> Cardinality(Below(S, x))] \in [S -> 0 .. n - 1]
    BY <2>1
  <2> QED BY <2>2
<1>3. \A x, y \in S : NsLess(x, y) => rank[x] < rank[y]
  BY <1>2, RankGrows
<1>4. \A x, y \in S : x = y \/ NsLess(x, y) \/ NsLess(y, x)
  <2>1. \A x, y \in S : NsLess(x, y) <=> <<x, y>> \in NsOrder
    BY DEF NsOrder
  <2> QED BY <2>1, NsOrderIsStrict, Zenon DEF StrictOrder
<1>5. \A x, y \in S : rank[x] < rank[y] => NsLess(x, y)
  <2> SUFFICES ASSUME NEW x \in S, NEW y \in S, rank[x] < rank[y], ~NsLess(x, y) PROVE FALSE
    OBVIOUS
  <2>1. rank[x] \in Int /\ rank[y] \in Int
    BY <1>2
  <2>2. x = y \/ rank[y] < rank[x]
    BY <1>3, <1>4
  <2> QED BY <2>1, <2>2
<1>6. ASSUME NEW x \in S, NEW y \in S, rank[x] = rank[y] PROVE x = y
  <2>1. rank[x] \in Int /\ rank[y] \in Int
    BY <1>2
  <2>2. ~NsLess(x, y) /\ ~NsLess(y, x)
    BY <1>3, <1>6, <2>1
  <2> QED BY <1>4, <2>2
<1>7. \A k \in 0 .. n - 1 : \E x \in S : rank[x] = k
  <2>1. rank \in Injection(S, 0 .. n - 1)
    BY <1>2, <1>6 DEF Injection, IsInjective
  <2>2. IsFiniteSet(0 .. n - 1) /\ Cardinality(0 .. n - 1) = n
    <3>1. n = 0 => n - 1 < 0
      OBVIOUS
    <3>2. 0 \in Int /\ n - 1 \in Int /\ (n # 0 => ~(0 > n - 1)) /\ n - 1 - 0 + 1 = n
      OBVIOUS
    <3>3. /\ IsFiniteSet(0 .. n - 1)
          /\ Cardinality(0 .. n - 1) = IF 0 > n - 1 THEN 0 ELSE n - 1 - 0 + 1
      BY <3>2, FS_Interval
    <3> QED BY <3>1, <3>2, <3>3
  <2>3. rank \in Surjection(S, 0 .. n - 1)
    BY <1>1, <2>1, <2>2, FS_Injection
  <2> QED BY <2>3 DEF Surjection
<1>8. listed = [i \in 1 .. n |-> CHOOSE x \in S : rank[x] = i - 1]
  <2>1. PICK r : r = [x \in S |-> Cardinality({m \in S : NsLess(m, x)})]
    OBVIOUS
  <2>2. r = rank
    BY <1>2, <2>1 DEF Below
  <2>3. listed = [i \in 1 .. n |-> CHOOSE x \in S : r[x] = i - 1]
    BY <1>1, <2>1 DEF Sorted
  <2> QED BY <2>2, <2>3
<1>9. \A i \in 1 .. n : listed[i] \in S /\ rank[listed[i]] = i - 1
  <2> SUFFICES ASSUME NEW i \in 1 .. n PROVE listed[i] \in S /\ rank[listed[i]] = i - 1
    OBVIOUS
  <2>1. i - 1 \in 0 .. n - 1
    OBVIOUS
  <2>2. \E x \in S : rank[x] = i - 1
    BY <1>7, <2>1
  <2>3. listed[i] = CHOOSE x \in S : rank[x] = i - 1
    BY <1>8
  <2> QED BY <2>2, <2>3
<1>10. listed \in Seq(S) /\ Len(listed) = n /\ DOMAIN listed = 1 .. n
  <2>1. listed \in [1 .. n -> S]
    BY <1>8, <1>9
  <2> QED BY <2>1
<1>11. Range(listed) = S
  <2>1. ASSUME NEW x \in S PROVE \E i \in 1 .. n : listed[i] = x
    <3>1. PICK i \in 1 .. n : i - 1 = rank[x]
      <4>1. PICK k \in 0 .. n - 1 : k = rank[x]
        BY <1>2
      <4>2. k + 1 \in 1 .. n /\ k + 1 - 1 = k
        OBVIOUS
      <4> QED BY <4>1, <4>2
    <3> QED BY <1>6, <1>9, <3>1
  <2>2. Range(listed) = {listed[i] : i \in 1 .. n}
    BY <1>10 DEF Range
  <2>3. {listed[i] : i \in 1 .. n} = S
    BY <1>9, <2>1
  <2> QED BY <2>2, <2>3
<1>12. \A i, j \in 1 .. n : i < j => NsLess(listed[i], listed[j])
  <2> SUFFICES ASSUME NEW i \in 1 .. n, NEW j \in 1 .. n, i < j
               PROVE  NsLess(listed[i], listed[j])
    OBVIOUS
  <2>1. rank[listed[i]] < rank[listed[j]]
    BY <1>9
  <2> QED BY <1>5, <1>9, <2>1
<1>13. \A i \in 1 .. n : Place(listed[i], S) = i - 1
  <2>1. \A x \in S : Place(x, S) = rank[x]
    BY <1>2 DEF Place, Below
  <2> QED BY <1>9, <2>1
<1> QED BY <1>1, <1>10, <1>11, <1>12, <1>13
-----------------------------------------------------------------------------
(* Pages.                                                                  *)

\* What a slice of a sequence is.
LEMMA Slice ==
  ASSUME NEW S, NEW s, NEW m \in Int, NEW n \in Int, \A i \in m .. n : s[i] \in S,
         NEW rest, rest = SubSeq(s, m, n)
  PROVE  /\ rest \in Seq(S)
         /\ Len(rest) = IF m <= n THEN n - m + 1 ELSE 0
         /\ \A i \in 1 .. n - m + 1 : rest[i] = s[m + i - 1]
<1>1. /\ SubSeq(s, m, n) \in Seq(S)
      /\ Len(SubSeq(s, m, n)) = IF m <= n THEN n - m + 1 ELSE 0
      /\ \A i \in 1 .. n - m + 1 : SubSeq(s, m, n)[i] = s[m + i - 1]
  BY SubSeqProperties
<1> QED BY ONLY <1>1, rest = SubSeq(s, m, n), Zenon

\* The sequence is s without its first o items.
Shifted(rest, s, o) ==
  /\ \A i \in DOMAIN rest : o + i \in DOMAIN s /\ rest[i] = s[o + i]
  /\ \A j \in DOMAIN s : j > o => j - o \in DOMAIN rest

LEMMA OffsetLayout ==
  ASSUME NEW T, NEW s \in Seq(T), NEW o \in Nat, NEW rest, rest = FromOffset(s, o)
  PROVE  rest \in Seq(T) /\ Shifted(rest, s, o)
<1>1. PICK n \in Nat : n = Len(s) /\ DOMAIN s = 1 .. n
  OBVIOUS
<1>2. PICK m \in Int : m = o + 1
  OBVIOUS
<1>3. rest = SubSeq(s, m, n)
  BY <1>1, <1>2 DEF FromOffset
<1>4. \A i \in m .. n : s[i] \in T
  BY <1>1, <1>2
<1>5. /\ rest \in Seq(T) /\ Len(rest) = IF m <= n THEN n - m + 1 ELSE 0
      /\ \A i \in 1 .. n - m + 1 : rest[i] = s[m + i - 1]
  BY <1>3, <1>4, Slice
<1>6. PICK r \in Nat : r = IF m <= n THEN n - m + 1 ELSE 0
  <2>1. CASE m <= n
    <3>1. n - m + 1 \in Nat
      BY <2>1
    <3> QED BY <2>1, <3>1, Zenon
  <2>2. CASE ~(m <= n)
    BY <2>2
  <2> QED BY <2>1, <2>2
<1>7. DOMAIN rest = 1 .. r
  BY <1>5, <1>6
<1>8. ASSUME NEW i \in 1 .. r PROVE o + i \in 1 .. n /\ rest[i] = s[o + i]
  <2>1. m <= n /\ i \in 1 .. n - m + 1
    BY <1>6
  <2>2. o + i \in 1 .. n /\ m + i - 1 = o + i
    BY <1>2, <2>1
  <2> QED BY <1>5, <2>1, <2>2
<1>9. ASSUME NEW j \in 1 .. n, j > o PROVE j - o \in 1 .. r
  BY <1>2, <1>6, <1>9
<1> QED BY <1>1, <1>5, <1>7, <1>8, <1>9 DEF Shifted

LEMMA UpToLayout ==
  ASSUME NEW T, NEW s \in Seq(T), NEW l \in Nat, NEW page, page = UpTo(s, l)
  PROVE  /\ page \in Seq(T)
         /\ \A i \in DOMAIN page : i \in DOMAIN s /\ page[i] = s[i]
         /\ DOMAIN page = DOMAIN s \/ Len(page) >= l
         /\ \A i \in DOMAIN s : i \in DOMAIN page <=> i <= l
<1>1. PICK n \in Nat : n = Len(s) /\ DOMAIN s = 1 .. n
  OBVIOUS
<1>2. PICK k \in Nat : k = IF n < l THEN n ELSE l
  OBVIOUS
<1>3. page = SubSeq(s, 1, k)
  BY <1>1, <1>2 DEF UpTo
<1>4. \A i \in 1 .. k : i \in 1 .. n /\ s[i] \in T
  BY <1>1, <1>2
<1>5. /\ page \in Seq(T) /\ Len(page) = IF 1 <= k THEN k - 1 + 1 ELSE 0
      /\ \A i \in 1 .. k - 1 + 1 : page[i] = s[1 + i - 1]
  BY <1>3, <1>4, Slice
<1>6. Len(page) = k /\ DOMAIN page = 1 .. k
  BY <1>5
<1>7. \A i \in 1 .. k : i \in 1 .. k - 1 + 1 /\ 1 + i - 1 = i
  OBVIOUS
<1>8. \A i \in 1 .. k : page[i] = s[i]
  BY <1>5, <1>7
<1>9. \A i \in 1 .. n : i \in 1 .. k <=> i <= l
  BY <1>2
<1> QED BY <1>1, <1>2, <1>4, <1>5, <1>6, <1>8, <1>9
-----------------------------------------------------------------------------
(* A page of a listing.                                                    *)

Ordered(page) == \A i, j \in DOMAIN page : i < j => NsLess(page[i], page[j])

\* Those of `names` whose place is on the page.
OnNamesPage(names, offset, limit) ==
  {ns \in names : /\ Place(ns, names) >= offset
                  /\ limit \in {NoLimit, 0} \/ Place(ns, names) < offset + limit}

PageOf(page, names, offset, limit) ==
  Ordered(page) /\ Range(page) = OnNamesPage(names, offset, limit)

LEMMA TruncatedIsNs ==
  ASSUME NEW ns \in Seq(Str), NEW depth \in Nat \cup {NoLimit}
  PROVE  Truncated(ns, depth) \in Seq(Str)
<1>1. CASE depth = NoLimit
  BY <1>1 DEF Truncated
<1>2. CASE depth # NoLimit
  <2>1. PICK l \in Nat : l = depth
    BY <1>2
  <2>2. PICK cut : cut = UpTo(ns, l)
    OBVIOUS
  <2>3. cut \in Seq(Str)
    BY <2>2, UpToLayout
  <2> QED BY <1>2, <2>1, <2>2, <2>3 DEF Truncated
<1> QED BY <1>1, <1>2

LEMMA NamespacePageLayout ==
  ASSUME NEW nss \in SUBSET Seq(Str), IsFiniteSet(nss), NEW depth \in Nat \cup {NoLimit},
         NEW offset \in Nat, NEW limit \in Nat \cup {NoLimit},
         NEW names, names = {Truncated(ns, depth) : ns \in nss},
         NEW page, page = NamespacePage(nss, depth, offset, limit)
  PROVE  PageOf(page, names, offset, limit)
<1>1. names \in SUBSET Seq(Str) /\ IsFiniteSet(names)
  <2>1. names \in SUBSET Seq(Str)
    BY TruncatedIsNs
  <2>2. PICK f : f = [ns \in nss |-> Truncated(ns, depth)]
    OBVIOUS
  <2>3. f \in Surjection(nss, names)
    BY <2>2 DEF Surjection
  <2> QED BY <2>1, <2>3, FS_Surjection
<1>2. PICK listed : listed = Sorted(names)
  OBVIOUS
<1>3. /\ listed \in Seq(names) /\ Range(listed) = names
      /\ \A i, j \in DOMAIN listed : i < j => NsLess(listed[i], listed[j])
      /\ \A i \in DOMAIN listed : Place(listed[i], names) = i - 1
  <2>1. /\ listed \in Seq(names) /\ Len(listed) = Cardinality(names) /\ Range(listed) = names
        /\ \A i, j \in 1 .. Cardinality(names) : i < j => NsLess(listed[i], listed[j])
        /\ \A i \in 1 .. Cardinality(names) : Place(listed[i], names) = i - 1
    BY ONLY <1>1, <1>2, SortedInOrder, Zenon
  <2>2. DOMAIN listed = 1 .. Cardinality(names)
    BY <2>1
  <2> QED BY <2>1, <2>2
<1>4. PICK rest : rest = FromOffset(listed, offset)
  OBVIOUS
<1>5. rest \in Seq(names) /\ Shifted(rest, listed, offset)
  BY <1>3, <1>4, OffsetLayout
<1>6. /\ page \in Seq(names)
      /\ \A i \in DOMAIN page : i \in DOMAIN rest /\ page[i] = rest[i]
      /\ \A i \in DOMAIN rest : i \in DOMAIN page <=> limit \in {NoLimit, 0} \/ i <= limit
  <2>1. CASE limit \in {NoLimit, 0}
    <3>1. page = rest
      BY <1>2, <1>4, <2>1 DEF NamespacePage
    <3> QED BY <1>5, <2>1, <3>1
  <2>2. CASE limit \notin {NoLimit, 0}
    <3>1. PICK l \in Nat : l = limit
      BY <2>2
    <3>2. page = UpTo(rest, l)
      BY <1>2, <1>4, <2>2, <3>1 DEF NamespacePage
    <3>3. /\ page \in Seq(names)
          /\ \A i \in DOMAIN page : i \in DOMAIN rest /\ page[i] = rest[i]
          /\ \A i \in DOMAIN rest : i \in DOMAIN page <=> i <= l
      BY <1>5, <3>2, UpToLayout
    <3>4. \A i \in DOMAIN rest : i \in DOMAIN page <=> i <= limit
      BY ONLY <3>1, <3>3, Zenon
    <3> QED BY ONLY <2>2, <3>3, <3>4, Zenon
  <2> QED BY <2>1, <2>2
<1>7. \A i \in DOMAIN page : /\ i \in Nat /\ page[i] \in names
                             /\ offset + i \in DOMAIN listed /\ page[i] = listed[offset + i]
  BY <1>5, <1>6 DEF Shifted
<1>8. \A i \in DOMAIN page : limit \in {NoLimit, 0} \/ i <= limit
  BY <1>6
<1>9. Ordered(page)
  <2> SUFFICES ASSUME NEW i \in DOMAIN page, NEW j \in DOMAIN page, i < j
               PROVE  NsLess(page[i], page[j])
    BY DEF Ordered
  <2>1. offset + i < offset + j
    BY <1>7
  <2> QED BY <1>3, <1>7, <2>1
<1>10. ASSUME NEW i \in DOMAIN page PROVE page[i] \in OnNamesPage(names, offset, limit)
  <2>1. PICK j \in Nat : j = offset + i
    BY <1>7
  <2>2. Place(page[i], names) = j - 1
    BY <1>3, <1>7, <2>1
  <2>3. i \in Nat /\ i > 0
    BY <1>6
  <2>4. j - 1 >= offset /\ (limit \in {NoLimit, 0} \/ j - 1 < offset + limit)
    <3>1. CASE limit \in {NoLimit, 0}
      BY <2>1, <2>3, <3>1
    <3>2. CASE limit \notin {NoLimit, 0}
      <4>1. PICK l \in Nat : l = limit
        BY <3>2
      <4>2. i <= l
        BY <1>8, <3>2, <4>1
      <4>3. j - 1 >= offset /\ j - 1 < offset + l
        BY <2>1, <2>3, <4>2
      <4> QED BY <4>1, <4>3
    <3> QED BY <3>1, <3>2
  <2> QED BY <1>7, <2>2, <2>4 DEF OnNamesPage
<1>11. ASSUME NEW x \in OnNamesPage(names, offset, limit) PROVE x \in Range(page)
  <2>1. PICK j \in DOMAIN listed : listed[j] = x
    BY <1>3 DEF OnNamesPage, Range
  <2>2. j \in Nat /\ Place(x, names) = j - 1
    BY <1>3, <2>1
  <2>3. j - 1 >= offset /\ (limit \in {NoLimit, 0} \/ j - 1 < offset + limit)
    BY <2>2 DEF OnNamesPage
  <2>4. PICK i : i = j - offset
    OBVIOUS
  <2>5. i \in Nat /\ j > offset /\ offset + i = j
    BY <2>2, <2>3, <2>4
  <2>6. i \in DOMAIN rest
    BY <1>5, <2>4, <2>5 DEF Shifted
  <2>7. limit \in {NoLimit, 0} \/ i <= limit
    <3>1. CASE limit \notin {NoLimit, 0}
      <4>1. PICK l \in Nat : l = limit
        BY <3>1
      <4>2. j - 1 < offset + l
        BY <2>3, <3>1, <4>1
      <4>3. i <= l
        BY <2>2, <2>4, <4>2
      <4> QED BY <4>1, <4>3
    <3> QED BY <3>1
  <2>8. i \in DOMAIN page
    BY <1>6, <2>6, <2>7
  <2>9. page[i] = x
    BY <1>7, <2>1, <2>5, <2>8
  <2> QED BY <2>8, <2>9 DEF Range
<1>12. Range(page) = OnNamesPage(names, offset, limit)
  BY <1>10, <1>11 DEF Range
<1> QED BY <1>9, <1>12 DEF PageOf

-----------------------------------------------------------------------------
(* What the renderings of keys tell apart.                                 *)

Two(a, x) == a \o <<Sep>> \o x

LEMMA LenIsNat == ASSUME NEW s \in Str PROVE Len(s) \in Nat /\ DOMAIN s = 1 .. Len(s)
BY LenProperties DEF Str

LEMMA StrConcat ==
  ASSUME NEW a \in Str, NEW b \in Str
  PROVE  /\ a \o b \in Str
         /\ Len(a \o b) = Len(a) + Len(b)
         /\ \A i \in 1 .. Len(a) + Len(b) :
              (a \o b)[i] = IF i <= Len(a) THEN a[i] ELSE b[i - Len(a)]
BY ConcatProperties DEF Str

(* Where the characters of a string with two parts come from.              *)
LEMMA TwoLayout ==
  ASSUME NEW a \in Str, NEW x \in Str
  PROVE  /\ Two(a, x) \in Str
         /\ Len(Two(a, x)) = Len(a) + 1 + Len(x)
         /\ \A i \in 1 .. Len(a) : Two(a, x)[i] = a[i]
         /\ Two(a, x)[Len(a) + 1] = Sep
         /\ \A i \in 1 .. Len(x) : Two(a, x)[Len(a) + 1 + i] = x[i]
<1>1. PICK c \in Str : c = <<Sep>> /\ Len(c) = 1 /\ c[1] = Sep
  <2>1. <<Sep>> \in Seq(Char) /\ Len(<<Sep>>) = 1 /\ <<Sep>>[1] = Sep
    BY CharAssumption
  <2> QED BY <2>1 DEF Str
<1>2. PICK b \in Str : /\ b = a \o c
                       /\ Len(b) = Len(a) + 1
                       /\ \A i \in 1 .. Len(a) + 1 :
                            b[i] = IF i <= Len(a) THEN a[i] ELSE c[i - Len(a)]
  BY <1>1, StrConcat
<1>3. PICK d \in Str : /\ d = b \o x
                       /\ Len(d) = Len(b) + Len(x)
                       /\ \A i \in 1 .. Len(b) + Len(x) :
                            d[i] = IF i <= Len(b) THEN b[i] ELSE x[i - Len(b)]
  BY StrConcat
<1>4. Two(a, x) = d
  BY <1>1, <1>2, <1>3 DEF Two
<1>5. PICK la \in Nat, lx \in Nat : la = Len(a) /\ lx = Len(x) /\ Len(b) = la + 1
  BY <1>2, LenIsNat
<1>6. \A i \in 1 .. la : d[i] = a[i]
  BY <1>2, <1>3, <1>5
<1>7. d[la + 1] = Sep
  <2>1. d[la + 1] = b[la + 1]
    BY <1>3, <1>5
  <2>2. b[la + 1] = c[1]
    BY <1>2, <1>5
  <2> QED BY <1>1, <2>1, <2>2
<1>8. \A i \in 1 .. lx : d[la + 1 + i] = x[i]
  BY <1>3, <1>5
<1>9. Len(d) = la + 1 + lx
  BY <1>3, <1>5
<1> QED BY <1>4, <1>5, <1>6, <1>7, <1>8, <1>9

(* The separator that follows a part cannot lie inside the other string's  *)
(* part if that part has none: neither its first part nor its last.        *)
LEMMA FirstNotShorter ==
  ASSUME NEW a \in Str, NEW b \in Str, NEW x \in Str, NEW y \in Str,
         SepFree(b), Two(a, x) = Two(b, y)
  PROVE  ~(Len(a) < Len(b))
<1> SUFFICES ASSUME Len(a) < Len(b) PROVE FALSE
  OBVIOUS
<1>1. Len(a) + 1 \in 1 .. Len(b)
  BY LenIsNat
<1>2. Two(b, y)[Len(a) + 1] = b[Len(a) + 1]
  <2>1. \A i \in 1 .. Len(b) : Two(b, y)[i] = b[i]
    BY TwoLayout
  <2> QED BY <1>1, <2>1
<1>3. Two(a, x)[Len(a) + 1] = Sep
  BY TwoLayout
<1>4. b[Len(a) + 1] = Sep
  BY <1>2, <1>3
<1> QED BY <1>1, <1>4, LenIsNat DEF SepFree

LEMMA LastNotLonger ==
  ASSUME NEW a \in Str, NEW b \in Str, NEW x \in Str, NEW y \in Str,
         SepFree(x), Two(a, x) = Two(b, y)
  PROVE  ~(Len(a) < Len(b))
<1> SUFFICES ASSUME Len(a) < Len(b) PROVE FALSE
  OBVIOUS
<1>1. PICK la \in Nat, lb \in Nat, lx \in Nat, ly \in Nat :
        la = Len(a) /\ lb = Len(b) /\ lx = Len(x) /\ ly = Len(y)
  BY LenIsNat
<1>2. la + 1 + lx = lb + 1 + ly
  <2>1. Len(Two(a, x)) = Len(a) + 1 + Len(x)
    BY TwoLayout
  <2>2. Len(Two(b, y)) = Len(b) + 1 + Len(y)
    BY TwoLayout
  <2> QED BY <1>1, <2>1, <2>2
<1>3. PICK k \in 1 .. lx : la + 1 + k = lb + 1
  <2>1. lb - la \in 1 .. lx /\ la + 1 + (lb - la) = lb + 1
    BY <1>1, <1>2
  <2> QED BY <2>1
<1>4. Two(a, x)[la + 1 + k] = x[k]
  <2>1. \A i \in 1 .. Len(x) : Two(a, x)[Len(a) + 1 + i] = x[i]
    BY TwoLayout
  <2> QED BY <1>1, <1>3, <2>1
<1>5. Two(b, y)[lb + 1] = Sep
  <2>1. Two(b, y)[Len(b) + 1] = Sep
    BY TwoLayout
  <2> QED BY <1>1, <2>1
<1>6. x[k] = Sep
  BY <1>3, <1>4, <1>5
<1> QED BY <1>1, <1>3, <1>6, LenIsNat DEF SepFree

(* With their first parts equally long, two strings have the same parts.   *)
LEMMA SameSplit ==
  ASSUME NEW a \in Str, NEW b \in Str, NEW x \in Str, NEW y \in Str,
         ~(Len(a) < Len(b)), ~(Len(b) < Len(a)), Two(a, x) = Two(b, y)
  PROVE  a = b /\ x = y
<1>1. PICK la \in Nat, lb \in Nat, lx \in Nat, ly \in Nat :
        la = Len(a) /\ lb = Len(b) /\ lx = Len(x) /\ ly = Len(y)
  BY LenIsNat
<1>2. la = lb
  BY <1>1
<1>3. la + 1 + lx = lb + 1 + ly
  <2>1. Len(Two(a, x)) = Len(a) + 1 + Len(x)
    BY TwoLayout
  <2>2. Len(Two(b, y)) = Len(b) + 1 + Len(y)
    BY TwoLayout
  <2> QED BY <1>1, <2>1, <2>2
<1>4. lx = ly
  BY <1>2, <1>3
<1>5. \A i \in 1 .. Len(a) : a[i] = b[i]
  <2>1. \A i \in 1 .. Len(a) : Two(a, x)[i] = a[i]
    BY TwoLayout
  <2>2. \A i \in 1 .. Len(b) : Two(b, y)[i] = b[i]
    BY TwoLayout
  <2> QED BY <1>1, <1>2, <2>1, <2>2
<1>6. \A i \in 1 .. Len(x) : x[i] = y[i]
  <2>1. \A i \in 1 .. Len(x) : Two(a, x)[Len(a) + 1 + i] = x[i]
    BY TwoLayout
  <2>2. \A i \in 1 .. Len(y) : Two(b, y)[Len(b) + 1 + i] = y[i]
    BY TwoLayout
  <2> QED BY <1>1, <1>2, <1>4, <2>1, <2>2
<1>7. a = b
  BY <1>1, <1>2, <1>5, SeqEqual DEF Str
<1>8. x = y
  BY <1>1, <1>4, <1>6, SeqEqual DEF Str
<1> QED BY <1>7, <1>8

(* Keys of pending writes are distinct: saver.py renders them "task|idx".  *)
THEOREM WriteKeysDistinct == MapKeysAreDistinct(Str)
<1> SUFFICES ASSUME NEW t1 \in Str, NEW t2 \in Str, NEW x1 \in Str, NEW x2 \in Str,
                    SepFree(x1), SepFree(x2), MapKey(t1, x1) = MapKey(t2, x2)
             PROVE  t1 = t2 /\ x1 = x2
  BY DEF MapKeysAreDistinct
<1>1. Two(t1, x1) = Two(t2, x2)
  BY DEF MapKey, Two
<1>2. ~(Len(t1) < Len(t2)) /\ ~(Len(t2) < Len(t1))
  BY <1>1, LastNotLonger
<1> QED BY <1>1, <1>2, SameSplit

(* Keys of checkpoints, their pending writes and pointers are distinct:    *)
(* saver.py renders them "thread|ns|id", and ns may hold separators.       *)
THEOREM CheckpointKeysDistinct == CheckpointPathsAreDistinct(Str)
<1> SUFFICES ASSUME NEW t1 \in Str, NEW t2 \in Str, NEW n1 \in Str, NEW n2 \in Str,
                    NEW i1 \in Str, NEW i2 \in Str,
                    SepFree(t1), SepFree(t2), SepFree(i1), SepFree(i2),
                    CheckpointPath(t1, n1, i1) = CheckpointPath(t2, n2, i2)
             PROVE  t1 = t2 /\ n1 = n2 /\ i1 = i2
  BY DEF CheckpointPathsAreDistinct
<1>1. Two(t1, n1) \in Str /\ Two(t2, n2) \in Str
  BY TwoLayout
<1>2. Two(Two(t1, n1), i1) = Two(Two(t2, n2), i2)
  BY DEF CheckpointPath, Two
<1>3. ~(Len(Two(t1, n1)) < Len(Two(t2, n2))) /\ ~(Len(Two(t2, n2)) < Len(Two(t1, n1)))
  BY <1>1, <1>2, LastNotLonger
<1>4. Two(t1, n1) = Two(t2, n2) /\ i1 = i2
  BY <1>1, <1>2, <1>3, SameSplit
<1>5. ~(Len(t1) < Len(t2)) /\ ~(Len(t2) < Len(t1))
  BY <1>4, FirstNotShorter
<1> QED BY <1>4, <1>5, SameSplit
-----------------------------------------------------------------------------
(* Folds.  The steps of one are a function here: step[<<v, i>>] is what    *)
(* item i makes of v.                                                      *)

\* f has what the fold makes of the items at the places in each set.
Folded(f, n, base, step) ==
  /\ f[{}] = base
  /\ \A s \in SUBSET (1 .. n) : s # {} => f[s] = step[<<f[s \ {Max(s)}], Max(s)>>]

LEMMA FoldExists ==
  ASSUME NEW n \in Nat, NEW V, NEW base \in V, NEW step \in [V \X (1 .. n) -> V]
  PROVE  \E f \in [SUBSET (1 .. n) -> V] : Folded(f, n, base, step)
<1> DEFINE Bad == {m \in 0 .. n : ~\E f \in [SUBSET (1 .. m) -> V] : Folded(f, m, base, step)}
<1>1. SUFFICES ASSUME Bad # {} PROVE FALSE
  <2>1. PICK f \in [SUBSET (1 .. n) -> V] : Folded(f, n, base, step)
    <3>1. n \in 0 .. n
      OBVIOUS
    <3>2. n \notin Bad
      BY <1>1
    <3> QED BY <3>1, <3>2
  <2> QED BY <2>1
<1>2. Bad \in SUBSET Nat
  OBVIOUS
<1>3. PICK m \in Bad : \A k \in Bad : m <= k
  <2> HIDE DEF Bad
  <2> QED BY <1>1, <1>2, MinIsLeast
<1>4. m \in 0 .. n /\ m \in Nat
  OBVIOUS
<1>5. m # 0
  <2> SUFFICES ASSUME m = 0 PROVE FALSE
    OBVIOUS
  <2>1. PICK f : f = [s \in SUBSET (1 .. m) |-> base]
    OBVIOUS
  <2>2. 1 .. m = {}
    BY SMT
  <2>3. f \in [SUBSET (1 .. m) -> V] /\ Folded(f, m, base, step)
    BY <2>1, <2>2 DEF Folded
  <2> QED BY <2>3
<1>6. PICK l \in Nat : m = l + 1 /\ l \in 0 .. n /\ l \notin Bad
  <2>1. m - 1 \in 0 .. n /\ m = (m - 1) + 1 /\ ~(m <= m - 1) /\ m - 1 \in Nat
    BY <1>4, <1>5
  <2> HIDE DEF Bad
  <2> QED BY <1>3, <2>1
<1>7. PICK f \in [SUBSET (1 .. l) -> V] : Folded(f, l, base, step)
  BY <1>6
<1>8. 1 .. m = (1 .. l) \cup {m} /\ m \notin 1 .. l /\ m \in 1 .. n
  BY <1>4, <1>5, <1>6
<1>9. PICK g : g = [s \in SUBSET (1 .. m) |-> IF m \in s THEN step[<<f[s \ {m}], m>>] ELSE f[s]]
  OBVIOUS
<1>10. \A s \in SUBSET (1 .. m) : s \ {m} \in SUBSET (1 .. l)
  BY <1>8
<1>11. g \in [SUBSET (1 .. m) -> V]
  <2> SUFFICES ASSUME NEW s \in SUBSET (1 .. m)
               PROVE  (IF m \in s THEN step[<<f[s \ {m}], m>>] ELSE f[s]) \in V
    BY <1>9
  <2>1. f[s \ {m}] \in V
    BY <1>10
  <2>2. m \notin s => s \ {m} = s
    OBVIOUS
  <2> QED BY <1>8, <2>1, <2>2
<1>12. Folded(g, m, base, step)
  <2>1. g[{}] = base
    BY <1>7, <1>9 DEF Folded
  <2>2. ASSUME NEW s \in SUBSET (1 .. m), s # {} PROVE g[s] = step[<<g[s \ {Max(s)}], Max(s)>>]
    <3>1. Max(s) \in s /\ \A y \in s : Max(s) >= y
      BY <1>4, <2>2, MaxIsGreatest
    <3>2. CASE m \in s
      <4>1. Max(s) = m
        <5>1. Max(s) \in 1 .. m /\ Max(s) >= m
          BY <3>1, <3>2
        <5> QED BY <1>4, <5>1
      <4>2. g[s \ {m}] = f[s \ {m}]
        BY <1>9
      <4> QED BY <1>9, <3>2, <4>1, <4>2
    <3>3. CASE m \notin s
      <4>1. s \in SUBSET (1 .. l) /\ s \ {Max(s)} \in SUBSET (1 .. m)
        BY <1>8, <3>3
      <4>2. g[s] = f[s] /\ g[s \ {Max(s)}] = f[s \ {Max(s)}]
        BY <1>9, <3>3, <4>1
      <4> QED BY <1>7, <2>2, <4>1, <4>2 DEF Folded
    <3> QED BY <3>2, <3>3
  <2> QED BY <2>1, <2>2 DEF Folded
<1> QED BY <1>3, <1>11, <1>12

\* f folds at least what is in V.
FoldedIn(V, f, n, base, step) ==
  /\ f[{}] = base
  /\ \A s \in SUBSET (1 .. n) :
       s # {} /\ f[s \ {Max(s)}] \in V => f[s] = step[<<f[s \ {Max(s)}], Max(s)>>]

\* g[m] is what the fold makes of the first m items.
Walks(g, n, base, step) == g[0] = base /\ \A m \in 1 .. n : g[m] = step[<<g[m - 1], m>>]

LEMMA FoldWalk ==
  ASSUME NEW n \in Nat, NEW V, NEW base \in V, NEW step \in [V \X (1 .. n) -> V],
         NEW f, FoldedIn(V, f, n, base, step)
  PROVE  \E g \in [0 .. n -> V] : g[n] = f[1 .. n] /\ Walks(g, n, base, step)
<1> DEFINE Bad == {m \in 0 .. n : f[1 .. m] \notin V}
<1>1. ASSUME NEW m \in 1 .. n, f[1 .. m - 1] \in V
      PROVE  f[1 .. m] = step[<<f[1 .. m - 1], m>>] /\ f[1 .. m] \in V
  <2>1. 1 .. m \in SUBSET (1 .. n) /\ 1 .. m # {} /\ m \in 1 .. m
    OBVIOUS
  <2>0. (1 .. m) \ {m} = 1 .. m - 1
    <3>1. \A i \in Int : i \in (1 .. m) \ {m} <=> i \in 1 .. m - 1
      OBVIOUS
    <3> QED BY <3>1
  <2>2. Max(1 .. m) \in 1 .. m /\ Max(1 .. m) >= m
    BY <2>1, MaxIsGreatest
  <2>3. Max(1 .. m) = m
    BY <2>2
  <2>4. f[1 .. m] = step[<<f[1 .. m - 1], m>>]
    BY <1>1, <2>0, <2>1, <2>3 DEF FoldedIn
  <2> QED BY <1>1, <2>4
<1>2. 1 .. 0 = {} /\ f[1 .. 0] \in V
  <2>1. 1 .. 0 = {}
    BY SMT
  <2> QED BY <2>1 DEF FoldedIn
<1>3. Bad = {}
  <2> SUFFICES ASSUME Bad # {} PROVE FALSE
    OBVIOUS
  <2>1. Bad \in SUBSET Nat
    OBVIOUS
  <2>2. PICK m \in Bad : \A k \in Bad : m <= k
    <3> HIDE DEF Bad
    <3> QED BY <2>1, MinIsLeast
  <2>3. m \in 0 .. n /\ f[1 .. m] \notin V
    OBVIOUS
  <2>4. m \in 1 .. n /\ m - 1 \in 0 .. n /\ ~(m <= m - 1)
    BY <1>2, <2>3
  <2>5. m - 1 \notin Bad
    <3> HIDE DEF Bad
    <3> QED BY <2>2, <2>4
  <2> QED BY <1>1, <2>3, <2>4, <2>5
<1>4. \A m \in 0 .. n : f[1 .. m] \in V
  BY <1>3
<1>5. PICK g : g = [m \in 0 .. n |-> f[1 .. m]]
  OBVIOUS
<1>6. g \in [0 .. n -> V] /\ g[0] = base /\ g[n] = f[1 .. n]
  BY <1>2, <1>4, <1>5 DEF FoldedIn
<1>7. ASSUME NEW m \in 1 .. n PROVE g[m] = step[<<g[m - 1], m>>]
  <2>1. m - 1 \in 0 .. n /\ m \in 0 .. n
    OBVIOUS
  <2> QED BY <1>1, <1>4, <1>5, <2>1
<1> QED BY <1>6, <1>7 DEF Walks

\* The strings on the way to joined parts.
JoinsUp(J, parts, k) == J[0] = parts[1] /\ \A m \in 1 .. k : J[m] = Two(J[m - 1], parts[m + 1])

LEMMA JoinSteps ==
  ASSUME NEW parts \in Seq(Str), NEW k \in Nat, Len(parts) = k + 1
  PROVE  \E J \in [0 .. k -> Str] :
           JoinsUp(J, parts, k) /\ J[k] = Join(parts)
<1>1. PICK rest \in Seq(Str) : /\ rest = Tail(parts) /\ DOMAIN rest = 1 .. k /\ parts # <<>>
                              /\ \A m \in 1 .. k : rest[m] = parts[m + 1] /\ rest[m] \in Str
  <2>1. parts # <<>>
    OBVIOUS
  <2>2. PICK rest \in Seq(Str) : rest = Tail(parts) /\ Len(rest) = k
    <3>1. Tail(parts) \in Seq(Str) /\ Len(Tail(parts)) = Len(parts) - 1
      BY <2>1, HeadTailProperties
    <3>2. Len(Tail(parts)) = k
      <4>1. PICK len : len = Len(Tail(parts)) /\ len = Len(parts) - 1
        BY <3>1
      <4> QED BY <4>1
    <3> QED BY <3>1, <3>2, Zenon
  <2>3. \A m \in 1 .. k : rest[m] = parts[m + 1]
    BY <2>1, <2>2
  <2>4. DOMAIN rest = 1 .. k /\ \A m \in 1 .. k : rest[m] \in Str
    BY <2>2
  <2> QED BY <2>1, <2>2, <2>3, <2>4
<1>2. PICK base \in Str : base = Head(parts) /\ base = parts[1]
  BY <1>1
<1>3. PICK step : step = [p \in Str \X (1 .. k) |-> Two(p[1], rest[p[2]])]
  OBVIOUS
<1>4. step \in [Str \X (1 .. k) -> Str] /\ \A v \in Str, m \in 1 .. k : step[<<v, m>>] = Two(v, rest[m])
  BY <1>1, <1>3, TwoLayout
<1>5. Join(parts) = (CHOOSE f : f = [s \in SUBSET DOMAIN rest |->
                                      IF s = {} THEN base ELSE f[s \ {Max(s)}] \o <<Sep>> \o rest[Max(s)]])
                      [DOMAIN rest]
  <2>1. Join(parts) = FoldLeft(LAMBDA s, part : s \o <<Sep>> \o part, base, rest)
    BY <1>1, <1>2 DEF Join
  <2> QED BY <2>1 DEF FoldLeft, MapThenFoldSet
<1>6. PICK f \in [SUBSET (1 .. k) -> Str] : Folded(f, k, base, step)
  BY <1>4, FoldExists
<1>7. \A s \in SUBSET (1 .. k) : s # {} => Max(s) \in 1 .. k
  BY MaxIsGreatest
<1>8. f = [s \in SUBSET (1 .. k) |-> IF s = {} THEN base ELSE f[s \ {Max(s)}] \o <<Sep>> \o rest[Max(s)]]
  <2> SUFFICES ASSUME NEW s \in SUBSET (1 .. k)
               PROVE  f[s] = IF s = {} THEN base ELSE f[s \ {Max(s)}] \o <<Sep>> \o rest[Max(s)]
    OBVIOUS
  <2>1. CASE s = {}
    BY <1>6, <2>1 DEF Folded
  <2>2. CASE s # {}
    <3>1. f[s] = step[<<f[s \ {Max(s)}], Max(s)>>]
      BY <1>6, <2>2 DEF Folded
    <3>2. f[s \ {Max(s)}] \in Str /\ Max(s) \in 1 .. k
      BY <1>7, <2>2
    <3> QED BY <1>4, <2>2, <3>1, <3>2 DEF Two
  <2> QED BY <2>1, <2>2
<1>9. PICK h : /\ h = [s \in SUBSET (1 .. k) |-> IF s = {} THEN base ELSE h[s \ {Max(s)}] \o <<Sep>> \o rest[Max(s)]]
               /\ Join(parts) = h[1 .. k]
  <2> DEFINE P(x) == x = [s \in SUBSET (1 .. k) |-> IF s = {} THEN base ELSE x[s \ {Max(s)}] \o <<Sep>> \o rest[Max(s)]]
  <2>1. P(f)
    BY <1>8
  <2>2. P(CHOOSE x : P(x))
    <3> HIDE DEF P
    <3> QED BY <2>1
  <2>3. Join(parts) = (CHOOSE x : P(x))[1 .. k]
    BY <1>1, <1>5
  <2> QED BY <2>2, <2>3
<1>10. h[{}] = base
  BY <1>9
<1>11. ASSUME NEW s \in SUBSET (1 .. k), s # {}, h[s \ {Max(s)}] \in Str
       PROVE  h[s] = step[<<h[s \ {Max(s)}], Max(s)>>]
  <2>1. h[s] = h[s \ {Max(s)}] \o <<Sep>> \o rest[Max(s)]
    BY <1>9, <1>11
  <2> QED BY <1>4, <1>7, <1>11, <2>1 DEF Two
<1>12. PICK J \in [0 .. k -> Str] : J[k] = h[1 .. k] /\ Walks(J, k, base, step)
  <2>1. FoldedIn(Str, h, k, base, step)
    BY <1>10, <1>11 DEF FoldedIn
  <2> QED BY <1>4, <2>1, FoldWalk
<1>13. ASSUME NEW m \in 1 .. k PROVE J[m] = Two(J[m - 1], parts[m + 1])
  <2>1. PICK v \in Str : v = J[m - 1]
    BY <1>12
  <2>2. J[m] = step[<<v, m>>]
    BY <1>12, <2>1 DEF Walks
  <2> QED BY <1>1, <1>4, <2>1, <2>2
<1> QED BY <1>2, <1>9, <1>12, <1>13 DEF Walks, JoinsUp

\* From the last part to the first, the parts and the strings are the same.
SameEnds(J, K, p, q, k, l) ==
  \A d \in 0 .. k : J[k - d] = K[l - d] /\ (d < k => p[k - d + 1] = q[l - d + 1])

\* The first k + 1 parts have no separator.
Plain(parts, k) == \A i \in 1 .. k + 1 : SepFree(parts[i])

\* Parts without separators are told apart, from the last to the first.
LEMMA JoinedParts ==
  ASSUME NEW p \in Seq(Str), NEW q \in Seq(Str), NEW k \in Nat, NEW l \in Nat,
         Len(p) = k + 1, Len(q) = l + 1, Plain(p, k), Plain(q, l),
         NEW J \in [0 .. k -> Str], NEW K \in [0 .. l -> Str],
         JoinsUp(J, p, k), JoinsUp(K, q, l), J[k] = K[l]
  PROVE  k <= l /\ SameEnds(J, K, p, q, k, l)
<1>1. \A i \in 1 .. k + 1 : p[i] \in Str
  OBVIOUS
<1>2. \A i \in 1 .. l + 1 : q[i] \in Str
  OBVIOUS
<1>3. ASSUME NEW d \in 0 .. k, d < k, d <= l, J[k - d] = K[l - d]
      PROVE  d < l /\ J[k - d - 1] = K[l - d - 1] /\ p[k - d + 1] = q[l - d + 1]
  <2>1. PICK m \in 1 .. k : m = k - d
    BY <1>3
  <2>2. m - 1 \in 0 .. k /\ m + 1 \in 1 .. k + 1 /\ J[m] = Two(J[m - 1], p[m + 1]) /\ SepFree(p[m + 1])
    BY DEF JoinsUp, Plain
  <2>3. PICK a \in Str, x \in Str : a = J[m - 1] /\ x = p[m + 1] /\ SepFree(x) /\ J[m] = Two(a, x)
    BY <1>1, <2>2
  <2>4. d < l
    <3> SUFFICES ASSUME d = l PROVE FALSE
      BY <1>3
    <3>1. Two(a, x) = q[1] /\ SepFree(q[1]) /\ q[1] \in Str
      <4>1. l - d = 0 /\ 1 \in 1 .. l + 1
        OBVIOUS
      <4> QED BY <1>2, <1>3, <2>1, <2>3, <4>1 DEF JoinsUp, Plain
    <3>2. Two(a, x)[Len(a) + 1] = Sep /\ Len(Two(a, x)) = Len(a) + 1 + Len(x) /\ Two(a, x) \in Str
      BY TwoLayout
    <3>3. Len(a) + 1 \in DOMAIN Two(a, x)
      <4>1. DOMAIN Two(a, x) = 1 .. Len(Two(a, x)) /\ Len(a) \in Nat /\ Len(x) \in Nat
        BY <3>2, LenIsNat
      <4> QED BY <3>2, <4>1
    <3> QED BY <3>1, <3>2, <3>3 DEF SepFree
  <2>5. PICK n \in 1 .. l : n = l - d
    BY <2>4
  <2>6. n - 1 \in 0 .. l /\ n + 1 \in 1 .. l + 1 /\ K[n] = Two(K[n - 1], q[n + 1]) /\ SepFree(q[n + 1])
    BY DEF JoinsUp, Plain
  <2>7. PICK b \in Str, y \in Str : b = K[n - 1] /\ y = q[n + 1] /\ SepFree(y) /\ K[n] = Two(b, y)
    BY <1>2, <2>6
  <2>8. Two(a, x) = Two(b, y)
    BY <1>3, <2>1, <2>3, <2>5, <2>7
  <2>9. ~(Len(a) < Len(b)) /\ ~(Len(b) < Len(a))
    BY <2>3, <2>7, <2>8, LastNotLonger
  <2>10. a = b /\ x = y
    BY <2>8, <2>9, SameSplit
  <2>11. k - d - 1 = m - 1 /\ l - d - 1 = n - 1 /\ k - d + 1 = m + 1 /\ l - d + 1 = n + 1
    BY <2>1, <2>5
  <2> QED BY <2>3, <2>4, <2>7, <2>10, <2>11
<1> DEFINE Bad == {d \in 0 .. k : ~(d <= l /\ J[k - d] = K[l - d])}
<1>4. Bad = {}
  <2> SUFFICES ASSUME Bad # {} PROVE FALSE
    OBVIOUS
  <2>1. Bad \in SUBSET Nat
    OBVIOUS
  <2>2. PICK d \in Bad : \A e \in Bad : d <= e
    <3> HIDE DEF Bad
    <3> QED BY <2>1, MinIsLeast
  <2>3. d \in 0 .. k /\ ~(d <= l /\ J[k - d] = K[l - d])
    OBVIOUS
  <2>9. \A e \in 0 .. k : e \notin Bad => e <= l /\ J[k - e] = K[l - e]
    OBVIOUS
  <2> HIDE DEF Bad
  <2>4. d # 0
    <3>1. k - 0 = k /\ l - 0 = l /\ 0 <= l
      OBVIOUS
    <3> QED BY <2>3, <3>1
  <2>5. PICK e \in 0 .. k : d = e + 1 /\ e < k /\ ~(d <= e)
    <3>1. d - 1 \in 0 .. k /\ d = (d - 1) + 1 /\ d - 1 < k /\ ~(d <= d - 1)
      BY <2>3, <2>4
    <3> QED BY <3>1
  <2>6. e <= l /\ J[k - e] = K[l - e]
    BY <2>2, <2>5, <2>9
  <2>7. e < l /\ J[k - e - 1] = K[l - e - 1]
    BY <1>3, <2>5, <2>6
  <2>8. k - d = k - e - 1 /\ l - d = l - e - 1 /\ d <= l
    BY <2>5, <2>7
  <2> QED BY <2>3, <2>7, <2>8
<1>5. \A d \in 0 .. k : d <= l /\ J[k - d] = K[l - d]
  BY <1>4
<1>6. k <= l
  <2>1. k \in 0 .. k
    OBVIOUS
  <2> QED BY <1>5, <2>1
<1> QED BY <1>3, <1>5, <1>6 DEF SameEnds

LEMMA JoinIsOneToOne ==
  ASSUME NEW p \in Seq(Str), NEW q \in Seq(Str), p # <<>>, q # <<>>, Join(p) = Join(q),
         \A i \in DOMAIN p : SepFree(p[i]), \A i \in DOMAIN q : SepFree(q[i])
  PROVE  p = q
<1>1. PICK k \in Nat, l \in Nat : Len(p) = k + 1 /\ Len(q) = l + 1
  <2>1. Len(p) \in Nat /\ Len(p) # 0 /\ Len(q) \in Nat /\ Len(q) # 0
    OBVIOUS
  <2>2. Len(p) - 1 \in Nat /\ Len(q) - 1 \in Nat /\ Len(p) = (Len(p) - 1) + 1 /\ Len(q) = (Len(q) - 1) + 1
    BY <2>1
  <2> QED BY <2>2
<1>2. DOMAIN p = 1 .. k + 1 /\ DOMAIN q = 1 .. l + 1
  BY <1>1
<1>9. Plain(p, k) /\ Plain(q, l)
  BY <1>2 DEF Plain
<1>3. PICK J \in [0 .. k -> Str] : JoinsUp(J, p, k) /\ J[k] = Join(p)
  BY <1>1, JoinSteps
<1>4. PICK K \in [0 .. l -> Str] : JoinsUp(K, q, l) /\ K[l] = Join(q)
  BY <1>1, JoinSteps
<1>5. k <= l /\ SameEnds(J, K, p, q, k, l)
  <2>1. J[k] = K[l]
    BY <1>3, <1>4
  <2> QED BY <1>1, <1>3, <1>4, <1>9, <2>1, JoinedParts
<1>6. l <= k
  <2>1. K[l] = J[k]
    BY <1>3, <1>4
  <2> QED BY <1>1, <1>3, <1>4, <1>9, <2>1, JoinedParts
<1>7. k = l
  BY <1>5, <1>6
<1>8. ASSUME NEW i \in 1 .. k + 1 PROVE p[i] = q[i]
  <2>1. CASE i = 1
    <3>1. k \in 0 .. k /\ k - k = 0 /\ l - k = 0
      BY <1>7
    <3>2. J[0] = K[0]
      BY <1>5, <3>1 DEF SameEnds
    <3> QED BY <1>3, <1>4, <2>1, <3>2 DEF JoinsUp
  <2>2. CASE i # 1
    <3>1. PICK d \in 0 .. k : d = k + 1 - i /\ d < k
      BY <2>2
    <3>2. k - d + 1 = i /\ l - d + 1 = i
      BY <1>7, <3>1
    <3> QED BY <1>5, <3>1, <3>2 DEF SameEnds
  <2> QED BY <2>1, <2>2
<1> QED BY <1>1, <1>7, <1>8, SeqEqual

(* Keys of items are distinct (store.py _key joins namespace and key with  *)
(* SEP and escapes nothing) as long as no token and no key has a separator *)
(* in it, for namespaces of any depth.                                     *)
THEOREM ItemKeysDistinct == ItemPathsAreDistinct(Seq(Str), Str)
<1> SUFFICES ASSUME NEW n1 \in Seq(Str), NEW n2 \in Seq(Str), NEW k1 \in Str, NEW k2 \in Str,
                    SepFree(k1), SepFree(k2), \A i \in DOMAIN n1 : SepFree(n1[i]),
                    \A i \in DOMAIN n2 : SepFree(n2[i]), ItemPath(n1, k1) = ItemPath(n2, k2)
             PROVE  n1 = n2 /\ k1 = k2
  BY DEF ItemPathsAreDistinct
<1>1. ASSUME NEW n \in Seq(Str), NEW k \in Str, SepFree(k), \A i \in DOMAIN n : SepFree(n[i])
      PROVE  /\ Append(n, k) \in Seq(Str) /\ Append(n, k) # <<>>
             /\ \A i \in DOMAIN Append(n, k) : SepFree(Append(n, k)[i])
  <2>1. PICK m \in Nat : m = Len(n) /\ DOMAIN n = 1 .. m
    OBVIOUS
  <2>2. PICK s \in Seq(Str) : /\ s = Append(n, k) /\ Len(s) = m + 1 /\ DOMAIN s = 1 .. m + 1
                             /\ s[m + 1] = k /\ \A i \in 1 .. m : s[i] = n[i]
    <3>1. /\ Append(n, k) \in Seq(Str) /\ Len(Append(n, k)) = Len(n) + 1
          /\ \A i \in 1 .. Len(n) : Append(n, k)[i] = n[i]
          /\ Append(n, k)[Len(n) + 1] = k
      BY AppendProperties
    <3> QED BY <2>1, <3>1, LenProperties
  <2>3. \A i \in 1 .. m + 1 : SepFree(s[i])
    BY <1>1, <2>1, <2>2
  <2> QED BY <2>2, <2>3
<1>2. Append(n1, k1) = Append(n2, k2)
  BY <1>1, JoinIsOneToOne DEF ItemPath
<1> QED BY <1>2, AppendInjective
-----------------------------------------------------------------------------
(* Pages one after the other.                                              *)

\* How many of n items an upper limit leaves.
Fewer(n, l) == IF n < l THEN n ELSE l

LEMMA UpToExact ==
  ASSUME NEW T, NEW s \in Seq(T), NEW n \in Nat, n = Len(s), NEW l \in Nat,
         NEW k \in Nat, k = Fewer(n, l), NEW cut, cut = UpTo(s, l)
  PROVE  /\ cut \in Seq(T) /\ Len(cut) = k
         /\ \A i \in 1 .. k : i \in 1 .. n /\ cut[i] = s[i]
<1>2. cut = SubSeq(s, 1, k)
  BY DEF UpTo, Fewer
<1>3. \A i \in 1 .. k : i \in 1 .. n /\ s[i] \in T
  BY DEF Fewer
<1>4. /\ cut \in Seq(T) /\ Len(cut) = IF 1 <= k THEN k - 1 + 1 ELSE 0
      /\ \A i \in 1 .. k - 1 + 1 : cut[i] = s[1 + i - 1]
  BY <1>2, <1>3, Slice
<1>5. Len(cut) = k
  BY <1>4
<1>6. \A i \in 1 .. k : i \in 1 .. k - 1 + 1 /\ 1 + i - 1 = i
  OBVIOUS
<1>7. \A i \in 1 .. k : cut[i] = s[i]
  BY <1>4, <1>6
<1> QED BY <1>3, <1>4, <1>5, <1>7

LEMMA UpToAll ==
  ASSUME NEW T, NEW s \in Seq(T), NEW l \in Nat, l >= Len(s)
  PROVE  UpTo(s, l) = s
<1>1. PICK n \in Nat : n = Len(s) /\ DOMAIN s = 1 .. n
  OBVIOUS
<1>2. PICK k \in Nat : k = Fewer(n, l)
  BY DEF Fewer
<1>3. k = n
  BY <1>1, <1>2 DEF Fewer
<1>4. PICK cut : cut = UpTo(s, l)
  OBVIOUS
<1>5. cut \in Seq(T) /\ Len(cut) = k /\ \A i \in 1 .. k : i \in 1 .. n /\ cut[i] = s[i]
  BY <1>1, <1>2, <1>4, UpToExact
<1>6. cut = s
  BY <1>1, <1>3, <1>5, SeqEqual
<1> QED BY <1>4, <1>6

\* What is listed up to a place and the page from there on.
LEMMA PageJoins ==
  ASSUME NEW T, NEW s \in Seq(T), NEW o \in Nat, NEW l \in Nat
  PROVE  UpTo(s, o) \o UpTo(FromOffset(s, o), l) = UpTo(s, o + l)
<1>1. PICK n \in Nat : n = Len(s) /\ DOMAIN s = 1 .. n
  OBVIOUS
<1>2. PICK k \in Nat : k = Fewer(n, o)
  BY DEF Fewer
<1>2a. PICK a : a = UpTo(s, o)
  OBVIOUS
<1>3. a \in Seq(T) /\ Len(a) = k /\ \A i \in 1 .. k : i \in 1 .. n /\ a[i] = s[i]
  BY <1>1, <1>2, <1>2a, UpToExact
<1>4. PICK rest : rest = FromOffset(s, o)
  OBVIOUS
<1>5. rest \in Seq(T) /\ Shifted(rest, s, o)
  BY <1>4, OffsetLayout
<1>6. PICK r \in Nat : r = Len(rest) /\ DOMAIN rest = 1 .. r
  BY <1>5
<1>7. /\ \A i \in 1 .. r : o + i \in 1 .. n /\ rest[i] = s[o + i]
      /\ \A j \in 1 .. n : j > o => j - o \in 1 .. r
  BY <1>1, <1>5, <1>6 DEF Shifted
<1>8. r = n - k
  <2>1. CASE r = 0
    <3>1. ~(n > o)
      <4> SUFFICES ASSUME n > o PROVE FALSE
        OBVIOUS
      <4>1. n \in 1 .. n
        OBVIOUS
      <4>2. n - o \in 1 .. r
        BY <1>7, <4>1
      <4> QED BY <2>1, <4>2
    <3> QED BY <1>2, <2>1, <3>1 DEF Fewer
  <2>2. CASE r # 0
    <3>1. r \in 1 .. r
      BY <2>2
    <3>2. o + r \in 1 .. n
      BY <1>7, <3>1
    <3>3. n \in 1 .. n /\ n > o
      BY <2>2, <3>2
    <3>4. n - o \in 1 .. r
      BY <1>7, <3>3
    <3> QED BY <1>2, <3>2, <3>4 DEF Fewer
  <2> QED BY <2>1, <2>2
<1>9. PICK c \in Nat : c = Fewer(r, l)
  BY DEF Fewer
<1>9a. PICK b : b = UpTo(rest, l)
  OBVIOUS
<1>10. b \in Seq(T) /\ Len(b) = c /\ \A i \in 1 .. c : i \in 1 .. r /\ b[i] = rest[i]
  BY <1>5, <1>6, <1>9, <1>9a, UpToExact
<1>11. PICK e \in Nat : e = Fewer(n, o + l)
  BY DEF Fewer
<1>11a. PICK w : w = UpTo(s, o + l)
  OBVIOUS
<1>12. w \in Seq(T) /\ Len(w) = e /\ \A i \in 1 .. e : i \in 1 .. n /\ w[i] = s[i]
  <2>1. PICK p \in Nat : p = o + l
    OBVIOUS
  <2> QED BY <1>1, <1>11, <1>11a, <2>1, UpToExact
<1>13. e = k + c
  BY <1>2, <1>8, <1>9, <1>11 DEF Fewer
<1>14. /\ a \o b \in Seq(T) /\ Len(a \o b) = Len(a) + Len(b)
       /\ \A i \in 1 .. Len(a) + Len(b) : (a \o b)[i] = IF i <= Len(a) THEN a[i] ELSE b[i - Len(a)]
  BY <1>3, <1>10, ConcatProperties
<1>15. PICK v : v = a \o b
  OBVIOUS
<1>16. /\ v \in Seq(T) /\ Len(v) = e
       /\ \A i \in 1 .. e : v[i] = IF i <= k THEN a[i] ELSE b[i - k]
  BY <1>3, <1>10, <1>13, <1>14, <1>15
<1>17. ASSUME NEW i \in 1 .. e PROVE v[i] = w[i]
  <2>1. CASE i <= k
    <3>1. i \in 1 .. k
      BY <2>1
    <3> QED BY <1>3, <1>12, <1>16, <2>1, <3>1
  <2>2. CASE ~(i <= k)
    <3>1. i - k \in 1 .. c
      BY <1>13, <2>2
    <3>2. i - k \in 1 .. r /\ b[i - k] = rest[i - k]
      BY <1>10, <3>1
    <3>3. rest[i - k] = s[o + (i - k)]
      BY <1>7, <3>2
    <3>4. k = o
      BY <1>2, <1>8, <3>2 DEF Fewer
    <3>5. o + (i - k) = i
      BY <3>4
    <3>6. v[i] = b[i - k]
      BY <1>16, <2>2
    <3> QED BY <1>12, <3>2, <3>3, <3>5, <3>6
  <2> QED BY <2>1, <2>2
<1>18. v = w
  BY <1>12, <1>16, <1>17, SeqEqual
<1> QED BY <1>2a, <1>4, <1>9a, <1>11a, <1>15, <1>18

\* What the pages of a listing make together.
LEMMA PagesMakeListing ==
  ASSUME NEW T, NEW s \in Seq(T), NEW k \in Nat, k > Len(s), NEW limit \in Nat, limit # 0,
         NEW g \in [0 .. k -> Seq(T)], g[0] = <<>>,
         \A m \in 1 .. k : g[m] = g[m - 1] \o UpTo(FromOffset(s, (m - 1) * limit), limit)
  PROVE  g[k] = s
<1> DEFINE Bad == {m \in 0 .. k : g[m] # UpTo(s, m * limit)}
<1>1. Bad = {}
  <2> SUFFICES ASSUME Bad # {} PROVE FALSE
    OBVIOUS
  <2>1. Bad \in SUBSET Nat
    OBVIOUS
  <2>2. PICK m \in Bad : \A e \in Bad : m <= e
    <3> HIDE DEF Bad
    <3> QED BY <2>1, MinIsLeast
  <2>3. m \in 0 .. k /\ g[m] # UpTo(s, m * limit)
    OBVIOUS
  <2>4. m # 0
    <3>1. PICK cut : cut = UpTo(s, 0)
      OBVIOUS
    <3>2. cut \in Seq(T) /\ Len(cut) = 0
      <4>1. PICK n \in Nat : n = Len(s)
        OBVIOUS
      <4>2. 0 = Fewer(n, 0)
        BY DEF Fewer
      <4> QED BY <3>1, <4>1, <4>2, UpToExact
    <3>3. cut = <<>> /\ 0 * limit = 0
      BY <3>2
    <3> QED BY <2>3, <3>1, <3>3
  <2>5. PICK e \in 0 .. k : m = e + 1 /\ m \in 1 .. k /\ e = m - 1 /\ ~(m <= e)
    <3>1. m - 1 \in 0 .. k /\ m = (m - 1) + 1 /\ m \in 1 .. k /\ ~(m <= m - 1)
      BY <2>3, <2>4
    <3> QED BY <3>1
  <2>6. g[e] = UpTo(s, e * limit)
    <3>1. e \notin Bad
      <4> HIDE DEF Bad
      <4> QED BY <2>2, <2>5
    <3> QED BY <3>1
  <2>7. PICK o \in Nat : o = e * limit /\ o + limit = m * limit
    <3>1. e * limit \in Nat /\ e * limit + limit = (e + 1) * limit
      <4>1. e \in Nat
        OBVIOUS
      <4> QED BY <4>1
    <3> QED BY <2>5, <3>1
  <2>8. g[m] = UpTo(s, o) \o UpTo(FromOffset(s, o), limit)
    BY <2>5, <2>6, <2>7
  <2> QED BY <2>3, <2>7, <2>8, PageJoins
<1>2. k \in 0 .. k
  OBVIOUS
<1>3. g[k] = UpTo(s, k * limit)
  BY <1>1, <1>2
<1>4. PICK o \in Nat : o = k * limit /\ o >= k
  <2>1. PICK d \in Nat : limit = d + 1
    <3>1. limit - 1 \in Nat /\ limit = (limit - 1) + 1
      OBVIOUS
    <3> QED BY <3>1
  <2>2. k * d \in Nat /\ k * (d + 1) = k * d + k
    OBVIOUS
  <2> QED BY <2>1, <2>2
<1>5. UpTo(s, o) = s
  <2>1. o >= Len(s)
    <3>1. PICK n \in Nat : n = Len(s) /\ k > n
      OBVIOUS
    <3> QED BY <1>4, <3>1
  <2> QED BY <2>1, UpToAll
<1> QED BY <1>3, <1>4, <1>5

(* The pages of a listing (_handle_list_namespaces) cover it: walked in    *)
(* order they show every namespace found, cut at any depth, once and in    *)
(* order, for every set of namespaces and every size of page.              *)
THEOREM ListingsAreCovered ==
  \A nss \in SUBSET Seq(Str), depth \in Nat \cup {NoLimit}, limit \in Nat \ {0, NoLimit} :
    IsFiniteSet(nss) => PagesCover(nss, depth, limit)
<1> SUFFICES ASSUME NEW nss \in SUBSET Seq(Str), NEW depth \in Nat \cup {NoLimit},
                    NEW limit \in Nat \ {0, NoLimit}, IsFiniteSet(nss)
             PROVE  PagesCover(nss, depth, limit)
  OBVIOUS
<1>1. PICK names : names = {Truncated(ns, depth) : ns \in nss}
  OBVIOUS
<1>2. /\ names \in SUBSET Seq(Str) /\ IsFiniteSet(names)
      /\ Cardinality(names) <= Cardinality(nss) /\ Cardinality(names) \in Nat /\ Cardinality(nss) \in Nat
  <2>1. names \in SUBSET Seq(Str)
    BY <1>1, TruncatedIsNs
  <2>2. PICK f : f = [ns \in nss |-> Truncated(ns, depth)]
    OBVIOUS
  <2>3. f \in Surjection(nss, names)
    BY <1>1, <2>2 DEF Surjection
  <2> QED BY <2>1, <2>3, FS_Surjection, FS_CardinalityType
<1>3. PICK listed : listed = Sorted(names)
  OBVIOUS
<1>4. /\ listed \in Seq(names) /\ Len(listed) = Cardinality(names) /\ Range(listed) = names
      /\ \A i, j \in 1 .. Cardinality(names) : i < j => NsLess(listed[i], listed[j])
  BY <1>2, <1>3, SortedInOrder
<1>5. PICK k \in Nat : k = Cardinality(nss) + 1 /\ k > Len(listed)
  BY <1>2, <1>4
<1>6. PICK places : places = [n \in 1 .. k |-> n - 1]
  OBVIOUS
<1>7. DOMAIN places = 1 .. k /\ \A m \in 1 .. k : places[m] = m - 1
  BY <1>6
<1>8. PICK page : page = [m \in 1 .. k |-> NamespacePage(nss, depth, places[m] * limit, limit)]
  OBVIOUS
<1>9. ASSUME NEW m \in 1 .. k
      PROVE  page[m] = UpTo(FromOffset(listed, (m - 1) * limit), limit) /\ page[m] \in Seq(names)
  <2>1. PICK o \in Nat : o = (m - 1) * limit
    <3>1. (m - 1) * limit \in Nat
      OBVIOUS
    <3> QED BY <3>1
  <2>2. page[m] = NamespacePage(nss, depth, o, limit)
    BY <1>7, <1>8, <2>1
  <2>3. limit \notin {NoLimit, 0}
    OBVIOUS
  <2>4. NamespacePage(nss, depth, o, limit) = UpTo(FromOffset(listed, o), limit)
    BY <1>1, <1>3, <2>3 DEF NamespacePage
  <2>5. PICK rest : rest = FromOffset(listed, o)
    OBVIOUS
  <2>6. rest \in Seq(names)
    BY <1>4, <2>5, OffsetLayout
  <2>7. UpTo(rest, limit) \in Seq(names)
    BY <2>6, UpToLayout
  <2> QED BY <2>1, <2>2, <2>4, <2>5, <2>7
<1>10. PICK V : V = Seq(names)
  OBVIOUS
<1>11. PICK base \in V : base = <<>>
  BY <1>10, EmptySeq
<1>12. PICK step : step = [p \in V \X (1 .. k) |-> p[1] \o page[p[2]]]
  OBVIOUS
<1>13. step \in [V \X (1 .. k) -> V] /\ \A v \in V, m \in 1 .. k : step[<<v, m>>] = v \o page[m]
  <2>1. \A v \in V, m \in 1 .. k : v \o page[m] \in V
    BY <1>9, <1>10, ConcatProperties
  <2> QED BY <1>12, <2>1
<1>14. PICK pages : pages = FoldLeft(LAMBDA s, n : s \o NamespacePage(nss, depth, n * limit, limit), base, places)
  OBVIOUS
<1>15. pages = (CHOOSE f : f = [s \in SUBSET DOMAIN places |->
                                 IF s = {} THEN base
                                 ELSE f[s \ {Max(s)}]
                                        \o NamespacePage(nss, depth, places[Max(s)] * limit, limit)])
                 [DOMAIN places]
  BY <1>14 DEF FoldLeft, MapThenFoldSet
<1>16. PICK f \in [SUBSET (1 .. k) -> V] : Folded(f, k, base, step)
  BY <1>13, FoldExists
<1>17. \A s \in SUBSET (1 .. k) : s # {} => /\ Max(s) \in 1 .. k
                                            /\ page[Max(s)] = NamespacePage(nss, depth, places[Max(s)] * limit, limit)
  BY <1>8, MaxIsGreatest
<1>18. PICK h : /\ h = [s \in SUBSET (1 .. k) |->
                          IF s = {} THEN base
                          ELSE h[s \ {Max(s)}] \o NamespacePage(nss, depth, places[Max(s)] * limit, limit)]
                /\ pages = h[1 .. k]
  <2> DEFINE P(x) == x = [s \in SUBSET (1 .. k) |->
                           IF s = {} THEN base
                           ELSE x[s \ {Max(s)}] \o NamespacePage(nss, depth, places[Max(s)] * limit, limit)]
  <2>1. P(f)
    <3> SUFFICES ASSUME NEW s \in SUBSET (1 .. k)
                 PROVE  f[s] = IF s = {} THEN base
                               ELSE f[s \ {Max(s)}] \o NamespacePage(nss, depth, places[Max(s)] * limit, limit)
      OBVIOUS
    <3>1. CASE s = {}
      BY <1>16, <3>1 DEF Folded
    <3>2. CASE s # {}
      <4>1. f[s] = step[<<f[s \ {Max(s)}], Max(s)>>]
        BY <1>16, <3>2 DEF Folded
      <4>2. f[s \ {Max(s)}] \in V /\ Max(s) \in 1 .. k
        BY <1>17, <3>2
      <4> QED BY <1>13, <1>17, <3>2, <4>1, <4>2
    <3> QED BY <3>1, <3>2
  <2>2. P(CHOOSE x : P(x))
    <3> HIDE DEF P
    <3> QED BY <2>1
  <2>3. pages = (CHOOSE x : P(x))[1 .. k]
    BY <1>7, <1>15
  <2> QED BY <2>2, <2>3
<1>19. FoldedIn(V, h, k, base, step)
  <2>1. h[{}] = base
    BY <1>18
  <2>2. ASSUME NEW s \in SUBSET (1 .. k), s # {}, h[s \ {Max(s)}] \in V
        PROVE  h[s] = step[<<h[s \ {Max(s)}], Max(s)>>]
    <3>1. h[s] = h[s \ {Max(s)}] \o NamespacePage(nss, depth, places[Max(s)] * limit, limit)
      BY <1>18, <2>2
    <3> QED BY <1>13, <1>17, <2>2, <3>1
  <2> QED BY <2>1, <2>2 DEF FoldedIn
<1>20. PICK g \in [0 .. k -> V] : g[k] = h[1 .. k] /\ Walks(g, k, base, step)
  BY <1>13, <1>19, FoldWalk
<1>21. ASSUME NEW m \in 1 .. k PROVE g[m] = g[m - 1] \o UpTo(FromOffset(listed, (m - 1) * limit), limit)
  <2>1. PICK v \in V : v = g[m - 1]
    BY <1>20
  <2>2. g[m] = step[<<v, m>>]
    BY <1>20, <2>1 DEF Walks
  <2> QED BY <1>9, <1>13, <2>1, <2>2
<1>22. pages = listed
  <2>1. g \in [0 .. k -> Seq(names)] /\ g[0] = <<>> /\ limit \in Nat /\ limit # 0
    BY <1>10, <1>11, <1>20 DEF Walks
  <2>2. g[k] = listed
    BY <1>4, <1>5, <1>21, <2>1, PagesMakeListing
  <2> QED BY <1>18, <1>20, <2>2
<1>23. Range(listed) = names /\ \A i \in 1 .. Len(listed) - 1 : NsLess(listed[i], listed[i + 1])
  BY <1>2, <1>4
<1>24. pages = FoldLeft(LAMBDA s, n : s \o NamespacePage(nss, depth, n * limit, limit),
                        <<>>, [n \in 1 .. Cardinality(nss) + 1 |-> n - 1])
  BY <1>5, <1>6, <1>11, <1>14
<1> QED BY <1>1, <1>22, <1>23, <1>24 DEF PagesCover
=============================================================================
