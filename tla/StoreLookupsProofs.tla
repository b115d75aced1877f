-------------------------- MODULE StoreLookupsProofs --------------------------
(***************************************************************************)
(* Theorems about StoreLookups: what holds of all namespaces, patterns and *)
(* keys holds of those that a store and its queries have.                  *)
(***************************************************************************)
EXTENDS StoreLookups, StorePathsProofs

\* What is looked up and where.
LookupOK == nss \in Stores /\ prefix \in PrefixPatterns /\ suffix \in SuffixPatterns

LEMMA LookupsTyped == Spec => []LookupOK
<1>1. Init => LookupOK
  BY DEF Init, LookupOK
<1>2. LookupOK /\ [Next]_<<nss, prefix, suffix>> => LookupOK'
  BY DEF Next, LookupOK
<1> QED BY <1>1, <1>2, PTL DEF Spec

(* The query of search and list_namespaces finds exactly the namespaces    *)
(* that begin with its prefix and end with its suffix: narrowed by one     *)
(* index of joined strings (store.py _index_predicate) it loses none.      *)
THEOREM QueriesStayExact == Spec => []QueriesAreExact
<1>1. LookupOK => QueriesAreExact
  <2> SUFFICES ASSUME LookupOK, NEW ns \in nss
               PROVE  QuerySelects(prefix, suffix, ns) <=> HasPrefix(prefix, ns) /\ HasSuffix(suffix, ns)
    BY DEF QueriesAreExact, QueryIsExact
  <2>1. ns \in Seq(Str) /\ prefix \in Seq(Str) /\ suffix \in Seq(Str)
    BY LookupsAssumption DEF LookupOK
  <2> QED BY <2>1, QueriesExact DEF QueryIsExact
<1> QED BY <1>1, LookupsTyped, PTL

(* The pages of a listing cover what the query found, each namespace cut   *)
(* at the depth once and in order (store.py _handle_list_namespaces).      *)
THEOREM ListingsStayCovered == Spec => []ListingsCover
<1>1. LookupOK => ListingsCover
  <2> SUFFICES ASSUME LookupOK, NEW depth \in Depths, NEW limit \in Limits,
                      NEW found, found = {ns \in nss : QuerySelects(prefix, suffix, ns)}
               PROVE  PagesCover(found, depth, limit)
    BY DEF ListingsCover
  <2>1. nss \subseteq Seq(Str) /\ IsFiniteSet(nss)
    BY LookupsAssumption DEF LookupOK
  <2>2. found \in SUBSET Seq(Str) /\ IsFiniteSet(found)
    BY <2>1, FS_Subset
  <2>3. depth \in Nat \cup {NoLimit} /\ limit \in Nat \ {0, NoLimit}
    BY LookupsAssumption
  <2> QED BY <2>2, <2>3, ListingsAreCovered
<1> QED BY <1>1, LookupsTyped, PTL

(* Different checkpoints, pending writes and items have different keys     *)
(* (saver.py and store.py join their parts with "|" and escape nothing).   *)
THEOREM KeysStayDistinct == Spec => []KeysAreDistinct
<1>1. CheckpointPathsAreDistinct(Strings)
  <2>1. Strings \subseteq Str
    BY LookupsAssumption
  <2> QED BY <2>1, CheckpointKeysDistinct DEF CheckpointPathsAreDistinct
<1>2. MapKeysAreDistinct(Strings)
  <2>1. Strings \subseteq Str
    BY LookupsAssumption
  <2> QED BY <2>1, WriteKeysDistinct DEF MapKeysAreDistinct
<1>3. LookupOK => ItemPathsAreDistinct(nss, Keys)
  <2> SUFFICES ASSUME LookupOK PROVE ItemPathsAreDistinct(nss, Keys)
    OBVIOUS
  <2>1. nss \subseteq Seq(Str) /\ Keys \subseteq Str
    BY LookupsAssumption DEF LookupOK
  <2> QED BY <2>1, ItemKeysDistinct DEF ItemPathsAreDistinct
<1>4. LookupOK => KeysAreDistinct
  BY <1>1, <1>2, <1>3 DEF KeysAreDistinct
<1> QED BY <1>4, LookupsTyped, PTL
=============================================================================
