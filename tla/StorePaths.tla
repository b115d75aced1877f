----------------------------- MODULE StorePaths ------------------------------
(***************************************************************************)
(* Namespaces in AerospikeStore (store.py): the key of an item, the two    *)
(* indexed bins, the predicate and the filter expressions of a query, and  *)
(* the listing of namespaces.                                              *)
(*                                                                         *)
(* A namespace is a sequence of tokens, a pattern one that may hold        *)
(* wildcards.  No pattern at all is the empty one: both are falsy.         *)
(***************************************************************************)
EXTENDS KeyEncoding, SequencesExt

CONSTANTS
  Star,   \* the token "*"
  NoLimit \* no limit, no depth

ASSUME StarAssumption == Star \in Str

\* SEP.join
Join(parts) ==
  IF parts = <<>> THEN <<>>
  ELSE FoldLeft(LAMBDA s, part : s \o <<Sep>> \o part, Head(parts), Tail(parts))

ItemPathOfLeaf(ns, key) == Join(<<Last(ns), key>>)                \* mutant
ItemPath(ns, key) == Join(Append(ns, key))

-----------------------------------------------------------------------------
(* The bins ns_prefixes and ns_suffixes and the anchors looked up there.   *)

NsPrefixes(ns) == {Join(SubSeq(ns, 1, n)) : n \in 1 .. Len(ns)}
NsSuffixes(ns) == {Join(SubSeq(ns, n, Len(ns))) : n \in 1 .. Len(ns)}

\* The places of the first wildcard and of the last, 0 if there is none.
FirstStar(pattern) == SelectInSeq(pattern, LAMBDA token : token = Star)
LastStar(pattern) == SelectLastInSeq(pattern, LAMBDA token : token = Star)

\* The literal tokens before the first wildcard, and after the last.
LeadingTokens(pattern) ==
  IF FirstStar(pattern) = 0 THEN pattern ELSE SubSeq(pattern, 1, FirstStar(pattern) - 1)

\* mutant: the anchor starts after the first wildcard
TrailingTokensPastFirst(pattern) == SubSeq(pattern, FirstStar(pattern) + 1, Len(pattern))
TrailingTokens(pattern) == SubSeq(pattern, LastStar(pattern) + 1, Len(pattern))

\* The index predicate: a query takes one, and the prefix goes first.
IndexSelects(prefix, suffix, ns) ==
  IF LeadingTokens(prefix) # <<>> THEN Join(LeadingTokens(prefix)) \in NsPrefixes(ns)
  ELSE IF TrailingTokens(suffix) # <<>> THEN Join(TrailingTokens(suffix)) \in NsSuffixes(ns)
  ELSE TRUE

-----------------------------------------------------------------------------
(* The filter expressions: sizes, and literal tokens at their places.      *)

PrefixFilter(pattern, ns) ==
  /\ Len(ns) >= Len(pattern)
  /\ \A i \in DOMAIN pattern : pattern[i] # Star => ns[i] = pattern[i]

\* List indexes are negative here: they count from the end.
SuffixFilter(pattern, ns) ==
  /\ Len(ns) >= Len(pattern)
  /\ \A i \in DOMAIN pattern :
       pattern[i] # Star => ns[Len(ns) - Len(pattern) + i] = pattern[i]

QuerySelects(prefix, suffix, ns) ==
  /\ IndexSelects(prefix, suffix, ns)
  /\ PrefixFilter(prefix, ns)
  /\ SuffixFilter(suffix, ns)

-----------------------------------------------------------------------------
(* The listing of namespaces.                                              *)

\* Python's order of strings and of tuples of strings.
StrLess(s, t) ==
  \E n \in 0 .. Len(t) - 1 :
    /\ Len(s) >= n /\ SubSeq(s, 1, n) = SubSeq(t, 1, n)
    /\ Len(s) > n => s[n + 1] < t[n + 1]

NsLess(a, b) ==
  \E n \in 0 .. Len(b) - 1 :
    /\ Len(a) >= n /\ SubSeq(a, 1, n) = SubSeq(b, 1, n)
    /\ Len(a) > n => StrLess(a[n + 1], b[n + 1])

\* sorted() of a set: each namespace where the number of those before it puts it.
Sorted(nss) ==
  LET rank == [ns \in nss |-> Cardinality({m \in nss : NsLess(m, ns)})]
  IN [i \in 1 .. Cardinality(nss) |-> CHOOSE ns \in nss : rank[ns] = i - 1]

\* Slices seq[offset:] and seq[:limit].
FromOffset(seq, offset) == SubSeq(seq, offset + 1, Len(seq))
UpTo(seq, limit) == SubSeq(seq, 1, IF Len(seq) < limit THEN Len(seq) ELSE limit)

Truncated(ns, depth) == IF depth = NoLimit THEN ns ELSE UpTo(ns, depth)

\* mutant: pages are cut before depths are, so that pages repeat a namespace
NamespacePageThenTruncated(nss, depth, offset, limit) ==
  LET rest == FromOffset(Sorted(nss), offset)
      page == IF limit \in {NoLimit, 0} THEN rest ELSE UpTo(rest, limit)
  IN [i \in DOMAIN page |-> Truncated(page[i], depth)]

\* A limit of 0 is falsy, and so no limit.
NamespacePage(nss, depth, offset, limit) ==
  LET listed == Sorted({Truncated(ns, depth) : ns \in nss})
      rest   == FromOffset(listed, offset)
  IN IF limit \in {NoLimit, 0} THEN rest ELSE UpTo(rest, limit)
-----------------------------------------------------------------------------
(* What queries and listings are for.                                      *)

\* A pattern fits a piece of a namespace.
Fits(pattern, piece) ==
  /\ Len(pattern) = Len(piece)
  /\ \A i \in DOMAIN pattern : pattern[i] \in {Star, piece[i]}

HasPrefix(pattern, ns) == \E n \in 0 .. Len(ns) : Fits(pattern, SubSeq(ns, 1, n))
HasSuffix(pattern, ns) == \E n \in 0 .. Len(ns) : Fits(pattern, SubSeq(ns, n + 1, Len(ns)))

\* The number of namespaces that come before one.
Place(ns, nss) == Cardinality({m \in nss : NsLess(m, ns)})

\* A query selects exactly the namespaces (of N) that begin with the one
\* pattern and end with the other: narrowing it by an index, which knows
\* joined strings only and may not see the other pattern, loses nothing, and
\* tokens with separators in them confuse nothing.
QueryIsExact(N, P, S) ==
  \A ns \in N, prefix \in P, suffix \in S :
    QuerySelects(prefix, suffix, ns) <=> HasPrefix(prefix, ns) /\ HasSuffix(suffix, ns)

\* Walking the pages of a listing meets every namespace, cut at `depth`, once
\* and in order, however many of them are the same once cut.
PagesCover(nss, depth, limit) ==
  LET pages == FoldLeft(LAMBDA s, n : s \o NamespacePage(nss, depth, n * limit, limit),
                        <<>>, [n \in 1 .. Cardinality(nss) + 1 |-> n - 1])
  IN /\ Range(pages) = {Truncated(ns, depth) : ns \in nss}
     /\ \A i \in 1 .. Len(pages) - 1 : NsLess(pages[i], pages[i + 1])

\* Items of different namespaces or keys have different records, as long as
\* no token has a separator in it.
ItemPathsAreDistinct(nss, keys) ==
  LET plain == {s \in nss \X keys : SepFree(s[2]) /\ \A i \in DOMAIN s[1] : SepFree(s[1][i])}
  IN \A s, t \in plain : ItemPath(s[1], s[2]) = ItemPath(t[1], t[2]) => s = t
=============================================================================
