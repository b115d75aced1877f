------------------------------- MODULE MCPaths -------------------------------
(***************************************************************************)
(* Bounded inputs for StoreLookups, over the characters "*", "a", "b" and  *)
(* "|": tokens and strings with separators in them are among them.         *)
(***************************************************************************)
EXTENDS StoreLookups

MCStar == <<42>>
tokenA == <<97>>
tokenB == <<98>>
tokenAB == tokenA \o <<Sep>> \o tokenB

Namespaces == {<<tokenA>>, <<tokenA, tokenB>>, <<tokenAB>>, <<tokenB, tokenA>>,
               <<tokenA, tokenB, tokenA>>, <<tokenA, tokenB, tokenB>>}

\* All the namespaces, and all but one.
MCStores == {Namespaces} \cup {Namespaces \ {ns} : ns \in Namespaces}

Patterns(n) == UNION {[1 .. m -> {MCStar, tokenA, tokenB}] : m \in 0 .. n} \cup {<<tokenAB>>}
MCPrefixPatterns == Patterns(3)
MCSuffixPatterns == Patterns(2)

MCDepths == {NoLimit, 1, 2}

MCStrings == UNION {[1 .. n -> {97, Sep}] : n \in 0 .. 2}
MCKeys == {tokenA, tokenB}
=============================================================================
