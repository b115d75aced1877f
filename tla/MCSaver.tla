------------------------------- MODULE MCSaver -------------------------------
(***************************************************************************)
(* Instances of CheckpointSaver for TLC.  Each run takes one of the sets   *)
(* of calls below: what a caller may ask, any number of times, in any      *)
(* order.                                                                  *)
(***************************************************************************)
EXTENDS CheckpointSaver, TLC

CONSTANTS c1, c2, c3, t1, t2, root, sub, tA, tB, chan, err, v1, v2, m1, m2

\* The second checkpoint has the older timestamp: list's order is by timestamp.
MCTs == [i \in Id |-> IF i = 2 THEN 1 ELSE i + 1]
MCMetaOf == [i \in Id |-> IF i = 2 THEN m2 ELSE m1]

\* A special channel with a reserved index, as langgraph's ERROR is.
MCSpecialIdx == [c \in {err} |-> -1]

Put(t, ns, i, parent) == [op |-> "put", t |-> t, ns |-> ns, id |-> i, parent |-> parent]
Writes(t, ns, i, task, ws) ==
  [op |-> "put_writes", t |-> t, ns |-> ns, id |-> i, task |-> task, writes |-> ws]
Get(t, ns, i) == [op |-> "get", t |-> t, ns |-> ns, id |-> i]
ListAll(t, ns) == [op |-> "list", t |-> t, ns |-> ns, before |-> NoId,
                   limit |-> NoLimit, filter |-> NoMeta]
Delete(t) == [op |-> "delete", t |-> t]

\* Two callers of one thread: concurrent put, put_writes with retries of one
\* task that change the value and the number of writes, and reads.
PutsCalls == c1 :> {Put(t1, root, 1, NoId), Put(t1, root, NoId, NoId),
                   Writes(t1, root, 1, tA, << <<chan, v1>>, <<err, v1>>, <<err, v2>> >>),
                   Get(t1, root, NoId)}
          @@ c2 :> {Put(t1, root, 2, 1),
                   Writes(t1, root, 1, tB, << <<chan, v1>> >>),
                   Writes(t1, root, 1, tA, << <<chan, v2>> >>),
                   Writes(t1, root, 1, tA, <<>>),
                   Get(t1, root, 1), ListAll(t1, root)}
\* One caller deletes a thread with records in two namespaces, again where a
\* delete failed half way, while another writes to it and a third reads it.
DeleteCalls == c1 :> {Delete(t1)}
            @@ c2 :> {Put(t1, root, 1, NoId), Writes(t1, root, 1, tA, << <<chan, v1>> >>),
                     Writes(t1, sub, 1, tA, << <<chan, v1>> >>)}
            @@ c3 :> {Get(t1, root, NoId)}

\* Listings with a cursor, a limit, a filter and a limit of 0 against a caller that
\* puts and deletes.
ListArgs(b, n, f) ==
  [op |-> "list", t |-> t1, ns |-> root, before |-> b, limit |-> n, filter |-> f]
ListCalls == c1 :> {ListArgs(NoId, NoLimit, NoMeta), ListArgs(NoId, 1, m1), ListArgs(3, 1, NoMeta),
                   ListArgs(1, NoLimit, m2), ListArgs(NoId, 0, NoMeta)}
          @@ c2 :> {Put(t1, root, i, NoId) : i \in Id}
                \cup {Put(t2, root, 2, NoId), Delete(t1)}

\* Every method, with lifetimes that may end at any time.
TtlCalls == c1 :> {Put(t1, root, 1, NoId), Get(t1, root, NoId), Delete(t1)}
         @@ c2 :> {Put(t1, root, 2, 1), Writes(t1, root, 1, tA, << <<chan, v1>> >>),
                  Get(t1, root, 1), ListAll(t1, root)}
=============================================================================
