----------------------------- MODULE KeyEncoding -----------------------------
(***************************************************************************)
(* How saver.py and store.py render composite keys as strings, and which   *)
(* keys the rendering tells apart.  Both join their parts with SEP = "|"   *)
(* and escape nothing.  A string is the sequence of its characters, and a  *)
(* character its code point, so that strings have Python's order.          *)
(***************************************************************************)
EXTENDS Integers, Sequences

CONSTANTS
  Char,  \* characters
  Sep    \* SEP

ASSUME CharAssumption == Char \subseteq Nat /\ Sep \in Char

Str == Seq(Char)

SepFree(s) == \A i \in DOMAIN s : s[i] # Sep

\* mutant: the thread and the namespace are not kept apart
CheckpointPathRunsOn(thread, ns, id) == thread \o ns \o <<Sep>> \o id

\* saver.py: the keys of "cp" and "writes" records and, with __latest__ for
\* the id, of the pointers.
CheckpointPath(thread, ns, id) == thread \o <<Sep>> \o ns \o <<Sep>> \o id

\* saver.py: the key of a pending write in the "writes" map.
MapKey(task, idx) == task \o <<Sep>> \o idx

-----------------------------------------------------------------------------
(* What the renderings tell apart, for keys made of the strings in S.  A   *)
(* checkpoint namespace may hold separators: LangGraph names that of a     *)
(* nested subgraph "outer|inner".                                          *)

\* Records of different checkpoints have different keys, whatever the
\* namespaces, provided that no separator is in a thread id or checkpoint id.
CheckpointPathsAreDistinct(S) ==
  LET plain == {s \in S : SepFree(s)} IN
  \A t1, t2, i1, i2 \in plain : \A n1, n2 \in S :
    CheckpointPath(t1, n1, i1) = CheckpointPath(t2, n2, i2)
      => t1 = t2 /\ n1 = n2 /\ i1 = i2

\* Pending writes of different tasks or indexes never share an entry: an index
\* is digits and a sign, so it has no separator whatever the task id has.
MapKeysAreDistinct(S) ==
  LET plain == {s \in S : SepFree(s)} IN
  \A t1, t2 \in S : \A x1, x2 \in plain :
    MapKey(t1, x1) = MapKey(t2, x2) => t1 = t2 /\ x1 = x2
=============================================================================
