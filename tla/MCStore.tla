------------------------------- MODULE MCStore -------------------------------
(***************************************************************************)
(* Instances of AerospikeStore for TLC.  Each run takes one of the sets of *)
(* batches below: what a caller may run, any number of times, in any       *)
(* order.                                                                  *)
(***************************************************************************)
EXTENDS AerospikeStore, TLC

CONSTANTS c1, c2

\* The characters "*", "a", "b", and "|" for Sep.
MCStar == <<42>>
tokenA == <<97>>
tokenB == <<98>>
tokenAB == <<97, Sep, 98>>
theKey == <<98>>
MCKeys == {theKey}

Score(n) == [field \in {"score"} |-> n]
MCValue == {Score(1), Score(2)}

nsA == <<tokenA>>
nsBA == <<tokenB, tokenA>>
MCNamespaces == {nsA, nsBA}

Put(ns, value, ttl) == [op |-> "put", ns |-> ns, key |-> theKey, value |-> value, ttl |-> ttl]
Get(ns, refresh) == [op |-> "get", ns |-> ns, key |-> theKey, refresh |-> refresh]
Search(prefix, filter, refresh, offset, limit) ==
  [op |-> "search", prefix |-> prefix, filter |-> filter, semantic |-> FALSE,
   refresh |-> refresh, offset |-> offset, limit |-> limit]
Semantic == [Search(nsA, {}, FALSE, 0, 10) EXCEPT !.semantic = TRUE]
List(conditions, depth, offset, limit) ==
  [op |-> "list_namespaces", conditions |-> conditions, depth |-> depth,
   offset |-> offset, limit |-> limit]

AtLeast(n) == [field |-> "score", cmp |-> "$gte", val |-> n]

\* One caller searches and lists, with and without a refresh, a filter and a
\* page, while another puts (for good or for a tick), deletes and gets.
OpsBatches ==
  c1 :> {<<Search(<<>>, {}, TRUE, 0, NoLimit)>>,
         <<Search(<<MCStar, tokenA>>, {AtLeast(2)}, FALSE, 0, 1), Search(<<>>, {}, FALSE, 1, 1)>>,
         <<List(<<[match |-> "suffix", path |-> <<tokenB, MCStar>>]>>, NoLimit, 0, NoLimit)>>,
         <<List(<<>>, 1, 1, 0)>>}
  @@ c2 :> {<<Put(nsA, Score(1), NoTtl), Semantic>>,
            <<Put(nsA, Score(2), 3), Get(nsBA, TRUE)>>,
            <<Put(nsBA, Score(2), 1)>>,
            <<Put(nsA, NoValue, NoTtl)>>}

\* A search with a filter and a refresh against a put.
FilterBatches ==
  c1 :> {<<Search(<<>>, {AtLeast(2)}, TRUE, 0, NoLimit)>>}
  @@ c2 :> {<<Put(nsA, Score(1), NoTtl)>>, <<Put(nsA, Score(2), NoTtl)>>}

\* Two namespaces whose items have the same key: ("a", "b") and ("a|b",).
CollidingNamespaces == {<<tokenA, tokenB>>, <<tokenAB>>}

CollideBatches ==
  c1 :> {<<Put(<<tokenA, tokenB>>, Score(1), NoTtl), Get(<<tokenA, tokenB>>, FALSE)>>}
  @@ c2 :> {<<Put(<<tokenAB>>, Score(2), NoTtl)>>}
=============================================================================
