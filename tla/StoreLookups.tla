----------------------------- MODULE StoreLookups -----------------------------
(***************************************************************************)
(* Queries of search and list_namespaces (store.py), one after the other,  *)
(* over the namespaces that have items at the time.                        *)
(***************************************************************************)
EXTENDS StorePaths, FiniteSets

CONSTANTS
  Stores,                          \* sets of namespaces there are items in
  PrefixPatterns, SuffixPatterns,  \* of a query
  Depths, Limits,                  \* of a listing
  Strings, Keys                    \* parts of a checkpoint's keys, keys of items

ASSUME LookupsAssumption ==
  /\ \A store \in Stores : store \subseteq Seq(Str) /\ IsFiniteSet(store)
  /\ PrefixPatterns \subseteq Seq(Str) /\ SuffixPatterns \subseteq Seq(Str)
  /\ Depths \subseteq Nat \cup {NoLimit} /\ Limits \subseteq Nat \ {0, NoLimit}
  /\ Strings \subseteq Str /\ Keys \subseteq Str

VARIABLES nss, prefix, suffix

Init == nss \in Stores /\ prefix \in PrefixPatterns /\ suffix \in SuffixPatterns

\* Another query, or items come and go.
Next ==
  \/ prefix' \in PrefixPatterns /\ UNCHANGED <<nss, suffix>>
  \/ suffix' \in SuffixPatterns /\ UNCHANGED <<nss, prefix>>
  \/ nss' \in Stores /\ UNCHANGED <<prefix, suffix>>

Spec == Init /\ [][Next]_<<nss, prefix, suffix>>

\* A query finds exactly what its patterns describe, in every store.
QueriesAreExact == QueryIsExact(nss, {prefix}, {suffix})

\* The pages of a listing of any depth and size cover what the query found.
ListingsCover ==
  LET found == {ns \in nss : QuerySelects(prefix, suffix, ns)}
  IN \A depth \in Depths, limit \in Limits : PagesCover(found, depth, limit)

\* Keys of both packages: those of checkpoints and pending writes whatever the
\* namespaces and tasks are, those of items as long as their tokens have no
\* separator.
KeysAreDistinct ==
  /\ CheckpointPathsAreDistinct(Strings)
  /\ MapKeysAreDistinct(Strings)
  /\ ItemPathsAreDistinct(nss, Keys)
=============================================================================
