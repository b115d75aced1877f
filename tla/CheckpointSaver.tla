--------------------------- MODULE CheckpointSaver ---------------------------
(***************************************************************************)
(* AerospikeSaver, the LangGraph checkpointer of                           *)
(* packages/langgraph-checkpoint-aerospike (saver.py).                     *)
(*                                                                         *)
(* The saver keeps nothing in memory: its state is three Aerospike sets    *)
(*   "cp"      one record per checkpoint,                                  *)
(*   "writes"  one record per checkpoint holding its pending writes,       *)
(*   "meta"    one __latest__ pointer per (thread, namespace).             *)
(* Every public method is a short program of single-record requests and    *)
(* queries.  A request is atomic on the server; a method is not, so here a *)
(* process is one method call in progress and one action is one request,   *)
(* together with the Python code up to the next request.                   *)
(*                                                                         *)
(* A key is the tuple the code renders as "thread|ns|id"; module           *)
(* KeyEncoding says when that rendering is one to one.  What a checkpoint  *)
(* holds besides its parent never changes and is a function of its id.     *)
(***************************************************************************)
EXTENDS Integers, Sequences, FiniteSets

CONSTANTS
  Proc,             \* concurrent callers
  Thread, Ns,       \* thread ids and checkpoint namespaces
  Id,               \* checkpoint ids: numbers, ordered as the code's strings
  Ts,               \* Ts[id]: the checkpoint's timestamp
  Meta, MetaOf,     \* MetaOf[id]: the metadata value a list filter looks at
  Task, Channel, Value,
  SpecialIdx,       \* WRITES_IDX_MAP: reserved index of the special channels
  Ttl,              \* lifetime in ticks that a write gives a record; 0: forever
  RefreshOnRead,    \* ttl["refresh_on_read"]
  Faults,           \* may a request fail, with or without taking effect?
  Calls,            \* Calls[p]: the requests that p may make
  Absent, NoId, NoMeta, NoLimit, NoReq

ASSUME OrderAssumption == IsFiniteSet(Id) /\ Id \subseteq Nat /\ Ts \in [Id -> Nat]
ASSUME TtlAssumption == Ttl \in Nat
ASSUME MetaAssumption == MetaOf \in [Id -> Meta]
ASSUME SpecialAssumption ==
  SpecialIdx \in [DOMAIN SpecialIdx -> Int] /\ DOMAIN SpecialIdx \subseteq Channel
ASSUME NoIdAssumption == NoId \notin Id

-----------------------------------------------------------------------------
(* Keys, records and requests.                                             *)

\* mutant: one checkpoint per thread and namespace
CpKeyWithoutId(t, ns, id) == [set |-> "cp", t |-> t, ns |-> ns, id |-> CHOOSE i \in Id : TRUE]

CpKey(t, ns, id)     == [set |-> "cp", t |-> t, ns |-> ns, id |-> id]
WritesKey(t, ns, id) == [set |-> "writes", t |-> t, ns |-> ns, id |-> id]
LatestKey(t, ns)     == [set |-> "meta", t |-> t, ns |-> ns, id |-> NoId]

Key == [set : {"cp", "writes"}, t : Thread, ns : Ns, id : Id]
         \cup [set : {"meta"}, t : Thread, ns : Ns, id : {NoId}]

\* One pending write: an entry of the "writes" map bin, whose map key is
\* "task|idx".  The bin is the set of its entries.
Item == [task : Task, idx : Int, channel : Channel, value : Value]

\* The bins each set stores; `left` is the record's remaining lifetime.  The
\* thread_id bin is what the index looks at.  A checkpoint's other bins that
\* repeat parts of its key are read off the key.
Lifetime == IF Ttl = 0 THEN {0} ELSE 1 .. Ttl

Record(set) ==
  CASE set = "cp" -> [thread : Thread, parent : Id \cup {NoId}, left : Lifetime]
    [] set = "writes" -> [thread : Thread, writes : SUBSET Item, left : Lifetime]
    [] set = "meta" -> [thread : Thread, id : Id, left : Lifetime]

ASSUME AbsentAssumption == \A s \in {"cp", "writes", "meta"} : Absent \notin Record(s)

PutReq    == [op : {"put"}, t : Thread, ns : Ns, id : Id \cup {NoId},
              parent : Id \cup {NoId}]
WritesReq == [op : {"put_writes"}, t : Thread, ns : Ns, id : Id \cup {NoId},
              task : Task, writes : Seq(Channel \X Value)]
GetReq    == [op : {"get"}, t : Thread, ns : Ns, id : Id \cup {NoId}]
ListReq   == [op : {"list"}, t : Thread, ns : Ns, before : Id \cup {NoId},
              limit : Nat \cup {NoLimit}, filter : Meta \cup {NoMeta}]
DeleteReq == [op : {"delete"}, t : Thread]
Request   == PutReq \cup WritesReq \cup GetReq \cup ListReq \cup DeleteReq

\* What get_tuple returns and list yields.
Tuple == [ns : Ns, id : Id, parent : Id \cup {NoId}, writes : SUBSET Item]

ASSUME CallsAssumption == Calls \in [Proc -> SUBSET Request]

VARIABLES
  db,      \* the database: Key -> record or Absent
  call,    \* call[p]: the call p is in, and its local variables
  \* Auxiliary variables; nothing below reads them except properties.
  held,    \* held[p]: what has been stored ever since p's call began
  erased   \* keys of records that were stored and are gone

vars == <<db, call, held, erased>>

Pcs == {"idle", "put_cp", "put_latest", "operate", "get_latest", "get_cp",
        "touch", "get_writes", "query", "scan", "remove", "done", "failed"}

NoCall == [req |-> NoReq, pc |-> "idle", id |-> NoId, parent |-> NoId,
           set |-> "cp", found |-> {}, ids |-> {}, out |-> <<>>]

CallState == [req : Request \cup {NoReq}, pc : Pcs, id : Id \cup {NoId},
              parent : Id \cup {NoId}, set : {"cp", "writes", "meta"},
              found : SUBSET Key, ids : SUBSET Id, out : Seq(Tuple)]

\* Each program counter belongs to a method, and has what it needs there.
InMethod(c) ==
  /\ c.pc \in {"put_cp", "put_latest"} => c.req \in PutReq /\ c.req.id # NoId
  /\ c.pc = "operate" => c.req \in WritesReq /\ c.req.id # NoId
  /\ c.pc = "get_latest" => c.req \in GetReq /\ c.found = {}
  /\ c.pc \in {"get_cp", "touch", "get_writes"} =>
       c.req \in GetReq \cup ListReq /\ c.id \in Id /\ c.found = {}
  /\ c.pc \in {"query", "scan"} =>
       c.req \in DeleteReq \/ (c.req \in ListReq /\ c.set = "cp")
  /\ c.pc = "remove" => c.req \in DeleteReq
  /\ \A k \in c.found : k.set = c.set

\* Every record has the bins of its set, and every call is at a point its
\* method has.
TypeOK ==
  /\ db = [k \in Key |-> db[k]]
  /\ \A k \in Key : db[k] # Absent => db[k] \in Record(k.set)
  /\ call \in [Proc -> CallState]
  /\ \A p \in Proc : InMethod(call[p])

-----------------------------------------------------------------------------
(* Time to live and results of requests.                                   *)

Stored(k) == db[k] # Absent

\* _should_refresh: reads slide the lifetime only if there is one.
RefreshWithTtl == Ttl > 0                                    \* mutant
Refresh == RefreshOnRead /\ Ttl > 0

Renewed(rec) == IF rec = Absent THEN Absent ELSE [rec EXCEPT !.left = Ttl]

\* mutant: only the pointer slides
ReadEffectOnPointer(k) ==
  db' = IF Refresh /\ k.set = "meta" THEN [db EXCEPT ![k] = Renewed(@)] ELSE db

\* _get's effect on the database: read_touch_ttl_percent = 100 when refreshing.
ReadEffect(k) == db' = IF Refresh THEN [db EXCEPT ![k] = Renewed(@)] ELSE db

\* A request that took effect: the code goes on as `c`, or the reply is lost
\* and the client raises (an error "in doubt", caught by no method).
Reply(p, c) ==
  \/ call' = [call EXCEPT ![p] = c]
  \/ Faults /\ call' = [call EXCEPT ![p].pc = "failed"]

Done(c) == [c EXCEPT !.pc = "done"]

At(p, pc) == call[p].pc = pc

-----------------------------------------------------------------------------
(* The auxiliary variables: what an observer of the database notes.        *)

WritesAt(k) == IF Stored(k) THEN db[k].writes ELSE {}

\* What is stored: <<k>> says that record k exists, <<k, w>> that the pending
\* write w is in record k.
Facts ==
  {<<k>> : k \in {k \in Key : Stored(k)}}
    \cup UNION {{<<k, w>> : w \in WritesAt(k)} : k \in {k \in Key : k.set = "writes"}}

Observes(p) == call[p].pc # "idle" /\ call[p].req.op \in {"get", "list", "delete"}

\* The records a call is about.
InScope(k, r) == k.t = r.t /\ (r.op # "delete" => k.ns = r.ns)

Observe ==
  /\ held' = [p \in Proc |->
       IF ~Observes(p)' THEN {}
       ELSE IF At(p, "idle") THEN {f \in Facts' : InScope(f[1], call[p].req)'}
       ELSE held[p] \cap Facts']
  /\ erased' = {k \in Key : (Stored(k) \/ k \in erased) /\ ~Stored(k)'}

-----------------------------------------------------------------------------
(* Beginning a call: the validation and early returns of each method.      *)

\* mutant: put takes a checkpoint without an id
FirstPcUnchecked(r) ==
  CASE r.op = "put"        -> "put_cp"
    [] r.op = "put_writes" -> IF r.writes = <<>> THEN "done" ELSE "operate"
    [] r.op = "get"        -> IF r.id = NoId THEN "get_latest" ELSE "get_cp"
    [] r.op \in {"list", "delete"} -> "query"

FirstPc(r) ==
  CASE r.op = "put"        -> IF r.id = NoId THEN "failed" ELSE "put_cp"
    [] r.op = "put_writes" -> IF r.writes = <<>> \/ r.id = NoId THEN "done" ELSE "operate"
    [] r.op = "get"        -> IF r.id = NoId THEN "get_latest" ELSE "get_cp"
    [] r.op \in {"list", "delete"} -> "query"

Begin(p, r) ==
  /\ At(p, "idle")
  /\ call' = [call EXCEPT ![p] = [NoCall EXCEPT !.req = r, !.pc = FirstPc(r),
                !.id = IF r.op = "get" THEN r.id ELSE NoId]]
  /\ UNCHANGED db
  /\ Observe

(* put: the checkpoint record first, then the pointer to it.               *)

\* mutant: an error of the first request is swallowed
PutCheckpointUnchecked(p) ==
  LET r == call[p].req IN
  /\ At(p, "put_cp")
  /\ db' \in {db, [db EXCEPT ![CpKey(r.t, r.ns, r.id)] =
                   [thread |-> r.t, parent |-> r.parent, left |-> Ttl]]}
  /\ call' = [call EXCEPT ![p].pc = "put_latest"]
  /\ Observe

PutCheckpoint(p) ==
  LET r == call[p].req IN
  /\ At(p, "put_cp")
  /\ db' = [db EXCEPT ![CpKey(r.t, r.ns, r.id)] =
              [thread |-> r.t, parent |-> r.parent, left |-> Ttl]]
  /\ Reply(p, [call[p] EXCEPT !.pc = "put_latest"])
  /\ Observe

\* mutant: the pointer names the parent
PutLatestParent(p) ==
  LET r == call[p].req IN
  /\ At(p, "put_latest")
  /\ db' = [db EXCEPT ![LatestKey(r.t, r.ns)] =
              [thread |-> r.t, id |-> IF r.parent = NoId THEN r.id ELSE r.parent, left |-> Ttl]]
  /\ Reply(p, Done(call[p]))
  /\ Observe

PutLatest(p) ==
  LET r == call[p].req IN
  /\ At(p, "put_latest")
  /\ db' = [db EXCEPT ![LatestKey(r.t, r.ns)] =
              [thread |-> r.t, id |-> r.id, left |-> Ttl]]
  /\ Reply(p, Done(call[p]))
  /\ Observe

(* put_writes: one atomic `operate` upserting the map entries.             *)

\* The index of the i-th write of `ws`: its place, or its channel's own index.
IdxOf(ws, i) ==
  IF ws[i][1] \in DOMAIN SpecialIdx THEN SpecialIdx[ws[i][1]] ELSE i - 1

\* The entries one call leaves: of two writes with one map key, the later.
ItemsOf(task, ws) ==
  {[task |-> task, idx |-> IdxOf(ws, i), channel |-> ws[i][1], value |-> ws[i][2]] :
     i \in {i \in DOMAIN ws : \A j \in DOMAIN ws : j > i => IdxOf(ws, j) # IdxOf(ws, i)}}

SameSlot(a, b) == a.task = b.task /\ a.idx = b.idx

UpsertReplaces(old, new) == new                             \* mutant
UpsertAppends(old, new) == old \cup new                     \* mutant
Upsert(old, new) == {o \in old : \A n \in new : ~SameSlot(o, n)} \cup new

\* mutant: the update leaves thread_id out, as if the record had it already
OperateWithoutThread(p) ==
  LET r == call[p].req
      k == WritesKey(r.t, r.ns, r.id)
  IN
  /\ At(p, "operate")
  /\ db' = [db EXCEPT ![k] =
              [thread |-> IF Stored(k) THEN @.thread ELSE NoId, left |-> Ttl,
               writes |-> Upsert(WritesAt(k), ItemsOf(r.task, r.writes))]]
  /\ Reply(p, Done(call[p]))
  /\ Observe

OperateWrites(p) ==
  LET r == call[p].req
      k == WritesKey(r.t, r.ns, r.id)
  IN
  /\ At(p, "operate")
  /\ db' = [db EXCEPT ![k] =
              [thread |-> r.t, writes |-> Upsert(WritesAt(k), ItemsOf(r.task, r.writes)),
               left |-> Ttl]]
  /\ Reply(p, Done(call[p]))
  /\ Observe

(* get_tuple: the pointer (unless the caller names an id), the checkpoint, *)
(* a touch of the pointer, the pending writes.  list calls it for each id. *)

ByLatest(c) == c.req.op = "get" /\ c.req.id = NoId

\* The order of list: newest timestamp first, ties by id.
Newer(a, b) == Ts[a] > Ts[b] \/ (Ts[a] = Ts[b] /\ a > b)

NewestById(ids) == CHOOSE i \in ids : \A j \in ids : i >= j       \* mutant
Newest(ids) == CHOOSE i \in ids : \A j \in ids \ {i} : Newer(i, j)

\* list's loop: stop at the limit or at the end, else read the next id.
NextItem(c) ==
  IF c.ids = {} \/ (c.req.limit # NoLimit /\ Len(c.out) >= c.req.limit)
    THEN Done(c)
    ELSE [c EXCEPT !.pc = "get_cp", !.id = Newest(c.ids), !.ids = @ \ {Newest(@)}]

AfterTuple(c) == IF c.req.op = "list" THEN NextItem(c) ELSE Done(c)

\* get_tuple has returned nothing: get answers None, list goes on.
NoTupleStops(c) == Done(c)                                  \* mutant
NoTuple(c) == AfterTuple(c)

\* list's metadata filter; get has none.
Wanted(c) == c.req.op = "list" => c.req.filter \in {NoMeta, MetaOf[c.id]}

\* mutant: entries are kept only if their index is truthy
GotTupleTruthyIdx(c, writes) ==
  AfterTuple([c EXCEPT !.out = Append(@,
    [ns |-> c.req.ns, id |-> c.id, parent |-> c.parent, writes |-> {w \in writes : w.idx # 0}])])

GotTuple(c, writes) ==
  LET tuple == [ns |-> c.req.ns, id |-> c.id, parent |-> c.parent, writes |-> writes]
      with  == IF Wanted(c) THEN [c EXCEPT !.out = Append(@, tuple)] ELSE c
  IN AfterTuple(with)

GetLatest(p) ==
  LET c == call[p]
      k == LatestKey(c.req.t, c.req.ns)
  IN
  /\ At(p, "get_latest")
  /\ ReadEffect(k)
  /\ Reply(p, IF Stored(k) THEN [c EXCEPT !.pc = "get_cp", !.id = db[k].id] ELSE Done(c))
  /\ Observe

GetCheckpoint(p) ==
  LET c == call[p]
      k == CpKey(c.req.t, c.req.ns, c.id)
  IN
  /\ At(p, "get_cp")
  /\ ReadEffect(k)
  /\ Reply(p, IF Stored(k)
                THEN [c EXCEPT !.parent = db[k].parent,
                        !.pc = IF ~ByLatest(c) /\ Refresh THEN "touch" ELSE "get_writes"]
                ELSE NoTuple(c))
  /\ Observe

\* mutant: a read by id leaves the pointer alone
TouchNothing(p) ==
  /\ At(p, "touch")
  /\ UNCHANGED db
  /\ Reply(p, [call[p] EXCEPT !.pc = "get_writes"])
  /\ Observe

\* _touch_latest; a pointer that is not there is not an error.
TouchLatest(p) ==
  /\ At(p, "touch")
  /\ db' = [db EXCEPT ![LatestKey(call[p].req.t, call[p].req.ns)] = Renewed(@)]
  /\ Reply(p, [call[p] EXCEPT !.pc = "get_writes"])
  /\ Observe

GetWrites(p) ==
  LET c == call[p]
      k == WritesKey(c.req.t, c.req.ns, c.id)
  IN
  /\ At(p, "get_writes")
  /\ ReadEffect(k)
  /\ Reply(p, GotTuple(c, WritesAt(k)))
  /\ Observe

(* The query on the thread_id index that list and delete_thread share.  It *)
(* is a scan, not a snapshot: it returns the records that are there at its *)
(* start and at its end, and may or may not return one there at either.    *)
(* (One that goes and comes back in between is taken to be found.)         *)

MatchingAnyThread(set, t) == {k \in Key : k.set = set /\ Stored(k)}   \* mutant
Matching(set, t) == {k \in Key : k.set = set /\ Stored(k) /\ db[k].thread = t}

Query(p) ==
  /\ At(p, "query")
  /\ UNCHANGED db
  /\ call' = [call EXCEPT ![p].pc = "scan",
                          ![p].found = Matching(call[p].set, call[p].req.t)]
  /\ Observe

\* list: keep the namespace, then what follows `before` in the listing
\* (nothing if it is not in it).
Listing(c, keys) ==
  LET ids == {k.id : k \in {k \in keys : k.ns = c.req.ns}}
      b == c.req.before
  IN IF b = NoId THEN ids
     ELSE IF b \in ids THEN {i \in ids : Newer(b, i)}
     ELSE {}

\* delete_thread: remove what the query of this set found, then the next set.
NextSetSkips == [cp |-> "meta", writes |-> "meta"]           \* mutant
NextSet == [cp |-> "writes", writes |-> "meta"]

\* mutant: query each set again until nothing is found
NextRemovalUntilEmpty(c) ==
  IF c.found # {} THEN [c EXCEPT !.pc = "remove"]
  ELSE IF c.pc = "remove" THEN [c EXCEPT !.pc = "query"]
  ELSE IF c.set = "meta" THEN Done(c)
  ELSE [c EXCEPT !.pc = "query", !.set = NextSet[c.set]]

NextRemoval(c) ==
  IF c.found # {} THEN [c EXCEPT !.pc = "remove"]
  ELSE IF c.set = "meta" THEN Done(c)
  ELSE [c EXCEPT !.pc = "query", !.set = NextSet[c.set]]

Scan(p) ==
  LET c == call[p]
      now == Matching(c.set, c.req.t)
  IN
  /\ At(p, "scan")
  /\ UNCHANGED db
  /\ \E maybe \in SUBSET ((c.found \cup now) \ (c.found \cap now)) :
       LET keys == (c.found \cap now) \cup maybe
       IN call' = [call EXCEPT ![p] =
            IF c.req.op = "list"
              THEN NextItem([c EXCEPT !.found = {}, !.ids = Listing(c, keys)])
              ELSE NextRemoval([c EXCEPT !.found = keys])]
  /\ Observe

\* RecordNotFound is suppressed: removing what is gone is no error.
RemoveRecord(p) ==
  /\ At(p, "remove")
  /\ \E k \in call[p].found :
       /\ db' = [db EXCEPT ![k] = Absent]
       /\ Reply(p, NextRemoval([call[p] EXCEPT !.found = @ \ {k}]))
  /\ Observe

-----------------------------------------------------------------------------
(* Errors, the end of a call, time.                                        *)

Working(p) == call[p].pc \notin {"idle", "done", "failed"}

\* A request fails without effect: the method raises (saver.py catches only
\* RecordNotFound) and the rest of it is not run.  A client that dies between
\* two requests leaves the same database.
Fail(p) ==
  /\ Faults
  /\ Working(p)
  /\ call' = [call EXCEPT ![p].pc = "failed"]
  /\ UNCHANGED db
  /\ Observe

Return(p) ==
  /\ call[p].pc \in {"done", "failed"}
  /\ call' = [call EXCEPT ![p] = NoCall]
  /\ UNCHANGED db
  /\ Observe

\* A tick of every record's lifetime; the server drops what has none left.
Age(rec) ==
  IF rec = Absent \/ rec.left = 1 THEN Absent ELSE [rec EXCEPT !.left = @ - 1]

Tick ==
  /\ Ttl > 0
  /\ \E k \in Key : Stored(k)
  /\ db' = [k \in Key |-> Age(db[k])]
  /\ call' = call
  /\ Observe

-----------------------------------------------------------------------------
(* The specification.                                                      *)

Init ==
  /\ db = [k \in Key |-> Absent]
  /\ call = [p \in Proc |-> NoCall]
  /\ held = [p \in Proc |-> {}]
  /\ erased = {}

\* The steps of a call in progress.
Step(p) ==
  \/ PutCheckpoint(p) \/ PutLatest(p)
  \/ OperateWrites(p)
  \/ GetLatest(p) \/ GetCheckpoint(p) \/ TouchLatest(p) \/ GetWrites(p)
  \/ Query(p) \/ Scan(p) \/ RemoveRecord(p)
  \/ Fail(p)
  \/ Return(p)

Next ==
  \/ \E p \in Proc : Step(p) \/ \E r \in Calls[p] : Begin(p, r)
  \/ Tick

Spec == Init /\ [][Next]_vars

\* A caller runs the call it has begun to its end; it need not begin another.
Fairness == \A p \in Proc : WF_vars(Step(p))

FairSpec == Spec /\ Fairness

-----------------------------------------------------------------------------
(* Safety.                                                                 *)

\* A record is stored, or was until a delete or its lifetime took it.
WasStored(k) == Stored(k) \/ k \in erased

\* The __latest__ pointer never runs ahead of the checkpoint it names: `put`
\* stores the checkpoint before the pointer, so a crash or an error between
\* the two requests, or any interleaving with other calls, never leaves a
\* pointer to a checkpoint that was not stored.
LatestNamesStored ==
  \A t \in Thread, ns \in Ns :
    LET k == LatestKey(t, ns)
    IN Stored(k) => WasStored(CpKey(t, ns, db[k].id))

\* A put that returned has stored its checkpoint and a pointer (NothingIsLost
\* says what can take them away), whatever failed or raced on the way.
AcknowledgedPutIsStored ==
  \A p \in Proc : At(p, "done") /\ call[p].req.op = "put" =>
    LET r == call[p].req
    IN WasStored(CpKey(r.t, r.ns, r.id)) /\ WasStored(LatestKey(r.t, r.ns))

\* Where no thread is deleted and nothing expires, put_writes upserts: after it
\* returns, each of its writes has exactly one entry, however many callers
\* wrote to the checkpoint at the same time and however often it was retried.
EachWriteHasOneEntry ==
  \A p \in Proc : At(p, "done") /\ call[p].req.op = "put_writes" /\ call[p].req.id # NoId =>
    LET r == call[p].req
        entries(n) == {o \in WritesAt(WritesKey(r.t, r.ns, r.id)) : SameSlot(o, n)}
    IN \A n \in ItemsOf(r.task, r.writes) : \E o \in entries(n) : entries(n) = {o}

\* get_tuple answers None only for cause: the record it looked for was not
\* there all through the call; if it followed the pointer, the checkpoint
\* named there has been deleted or has expired.
GetNoneMeansGone ==
  \A p \in Proc : At(p, "done") /\ call[p].req.op = "get" /\ call[p].out = <<>> =>
    LET c == call[p] IN
    IF c.id = NoId THEN <<LatestKey(c.req.t, c.req.ns)>> \notin held[p]
    ELSE LET k == CpKey(c.req.t, c.req.ns, c.id)
         IN <<k>> \notin held[p] /\ (ByLatest(c) => WasStored(k))

\* A tuple assembled from three reads carries every pending write of its
\* checkpoint that was stored all through the call.
TuplesCarryHeldWrites ==
  \A p \in Proc : \A i \in DOMAIN call[p].out :
    LET c == call[p]
        k == WritesKey(c.req.t, c.req.ns, c.out[i].id)
    IN {f \in held[p] : f[1] = k /\ Len(f) = 2} \subseteq {<<k, w>> : w \in c.out[i].writes}

\* delete_thread removes everything the thread had when it was called, in all
\* three sets and namespaces, even what other calls rewrite meanwhile: at its
\* return nothing has been there all through the call.
DeleteIsComplete ==
  \A p \in Proc : At(p, "done") /\ call[p].req.op = "delete" => held[p] = {}

\* delete_thread finds by the thread_id bin what it must remove: the bin of
\* every record says the thread its key does, so nothing of the thread escapes
\* the query, and nothing of another thread is ever marked for removal.
IndexIsExact ==
  /\ \A k \in Key : Stored(k) => db[k].thread = k.t
  /\ \A p \in Proc : \A k \in call[p].found : k.t = call[p].req.t

\* What a list must yield: checkpoints there all through the call, after
\* `before` in the listing, with the wanted metadata.
MustList(p) ==
  LET r == call[p].req
      has(i) == <<CpKey(r.t, r.ns, i)>> \in held[p]
  IN {i \in Id : /\ has(i)
                 /\ r.filter \in {NoMeta, MetaOf[i]}
                 /\ r.before # NoId => has(r.before) /\ Newer(r.before, i)}

\* list yields all of them, or as many as `limit` allows and then the newest,
\* though its index query and its reads of the records happen at different
\* times and other callers put, delete and let expire in between.
ListIsComplete ==
  \A p \in Proc : At(p, "done") /\ call[p].req.op = "list" =>
    LET c == call[p]
        got == {c.out[i].id : i \in DOMAIN c.out}
    IN \A m \in MustList(p) \ got :
         c.req.limit # NoLimit /\ Len(c.out) >= c.req.limit /\ \A g \in got : Newer(g, m)

\* A listing in progress is strictly newest first (so without duplicates) and
\* within its limit, its filter and its cursor.
ListInOrder ==
  \A p \in Proc : call[p].req # NoReq /\ call[p].req.op = "list" =>
    LET r == call[p].req
        out == call[p].out
    IN /\ \A i, j \in DOMAIN out : i < j => Newer(out[i].id, out[j].id)
       /\ r.limit # NoLimit => Len(out) <= r.limit
       /\ \A i \in DOMAIN out :
            /\ r.filter \in {NoMeta, MetaOf[out[i].id]}
            /\ r.before # NoId => Newer(r.before, out[i].id)

\* No lost update: a record or a pending write goes only when its lifetime
\* ends, when a delete_thread for its thread removes it, or when a put_writes
\* of the same task upserts the same index.
NothingIsLost ==
  [][\A f \in Facts \ Facts' :
       \/ db[f[1]].left = 1 /\ ~Stored(f[1])'
       \/ \E p \in Proc : At(p, "remove") /\ call[p].req.t = f[1].t /\ ~Stored(f[1])'
       \/ Len(f) = 2 /\ \E w \in WritesAt(f[1])' : SameSlot(w, f[2])]_vars

(* Liveness.                                                               *)

\* Every call returns, with a result or an error: list and delete_thread work
\* through a finite snapshot however much other callers write meanwhile.
EveryCallReturns == \A p \in Proc : call[p].pc # "idle" ~> call[p].pc = "idle"
=============================================================================
