--------------------------- MODULE AerospikeStore ----------------------------
(***************************************************************************)
(* AerospikeStore, the LangGraph store of                                  *)
(* packages/langgraph-store-aerospike (store.py).                          *)
(*                                                                         *)
(* The store keeps nothing in memory: its state is one Aerospike set with  *)
(* a record per item.  Every public method is a batch of operations, run   *)
(* one after the other; an operation is a request or, for a search or a    *)
(* listing, a query and perhaps a request for each record it found.  A     *)
(* process is a batch in progress, and an action is one request together   *)
(* with the Python code up to the next (reading the clock is a step too).  *)
(***************************************************************************)
EXTENDS StorePaths

CONSTANTS
  Proc,          \* concurrent callers
  Namespaces,    \* namespaces that items may be put in
  Keys, Value,   \* an item's key; its value, a function from fields to numbers
  NamespaceTtl,  \* the Aerospike namespace's default-ttl in ticks; 0: forever
  TtlUnit,       \* units of `ttl` in a tick; code: minutes, and 1/60 a second
  RefreshOnRead, \* ttl_config["refresh_on_read"]
  MaxClock,      \* bound on the clock
  Faults,        \* may a request fail, with or without taking effect?
  Batches,       \* Batches[p]: the batches that p may run
  Absent, NoValue, NoTtl

ASSUME NamespacesAssumption ==
  /\ IsFiniteSet(Namespaces) /\ Namespaces \subseteq Seq(Str) \ {<<>>}
  /\ IsFiniteSet(Keys) /\ Keys \subseteq Str
ASSUME TimeAssumption == NamespaceTtl \in Nat /\ TtlUnit \in Nat \ {0} /\ MaxClock \in Nat
ASSUME SwitchAssumption == RefreshOnRead \in BOOLEAN /\ Faults \in BOOLEAN
ASSUME NoTtlAssumption == NoTtl \notin Int /\ NoValue \notin Value

-----------------------------------------------------------------------------
(* Records and operations.                                                 *)

Path == {ItemPath(ns, key) : ns \in Namespaces, key \in Keys}
Time == 0 .. MaxClock

\* What is read of a record, and a record: with the lifetime its last write
\* gave it and what remains of it.  ns_prefixes and ns_suffixes are functions
\* of the namespace.
Item == [ns : Namespaces, key : Keys, value : Value, created : Time, updated : Time]
Record == [ns : Namespaces, key : Keys, value : Value, created : Time, updated : Time,
           span : Nat, left : Nat]

Never == 0 \* no lifetime

Bins(rec) == [ns |-> rec.ns, key |-> rec.key, value |-> rec.value,
              created |-> rec.created, updated |-> rec.updated]

ASSUME AbsentAssumption ==
  /\ Absent \notin Record
  /\ Absent \notin [value : Value, created : Time, updated : Time, mortal : BOOLEAN]

Pattern == Seq(Str)
Limit == Nat \cup {NoLimit}

PutOp    == [op : {"put"}, ns : Namespaces, key : Keys, value : Value \cup {NoValue},
             ttl : Int \cup {NoTtl}]
GetOp    == [op : {"get"}, ns : Namespaces, key : Keys, refresh : BOOLEAN]
SearchOp == [op : {"search"}, prefix : Pattern, semantic : BOOLEAN, refresh : BOOLEAN,
             filter : SUBSET [field : STRING, cmp : STRING, val : Int],
             limit : Limit, offset : Nat]
ListOp   == [op : {"list_namespaces"}, conditions : Seq([match : STRING, path : Pattern]),
             depth : Limit, limit : Limit, offset : Nat]
Op       == PutOp \cup GetOp \cup SearchOp \cup ListOp

ASSUME BatchesAssumption == Batches \in [Proc -> SUBSET Seq(Op)]

VARIABLES
  db,     \* the set: path -> record or Absent
  clock,  \* the callers' clock
  call,   \* call[p]: the batch p runs, and its local variables
  \* Auxiliary variables; nothing below reads them except properties.
  held,   \* held[p]: what p's search or listing has had to find all along
  seen    \* seen[p]: the namespaces that had an item at some time of p's listing

vars == <<db, clock, call, held, seen>>

Pcs == {"idle", "next", "operate", "scan", "refetch", "done", "failed"}

NoCall == [batch |-> <<>>, results |-> <<>>, pc |-> "idle", now |-> 0,
           found |-> {}, out |-> <<>>]

CurrentOp(p) == call[p].batch[Len(call[p].results) + 1]

\* The calls there may be: one answer for each operation done (of nothing for
\* a put, of at most one item for a get, of items for a search), and at an
\* operation that the program counter fits.
CallOK(c) ==
  /\ c \in [batch : Seq(Op), results : Seq(Range(c.results)), pc : Pcs, now : Time,
            found : SUBSET Item, out : Seq(Item)]
  /\ IsFiniteSet(c.found)
  /\ Len(c.results) <= Len(c.batch)
  /\ \A i \in DOMAIN c.results :
       c.batch[i] \notin ListOp => c.results[i] \in Seq(Item)
  /\ c.pc \in {"next", "operate", "scan", "refetch"} => Len(c.results) < Len(c.batch)
  /\ c.pc = "done" => Len(c.results) = Len(c.batch)
  /\ LET op == c.batch[Len(c.results) + 1] IN
     /\ c.pc = "operate" => op \in PutOp /\ op.value # NoValue
     /\ c.pc = "scan" => op \in SearchOp \cup ListOp
     /\ c.pc = "refetch" => op \in SearchOp /\ c.found # {}

\* The sets of records there may be.  What expires has a tick left at least.
RecordsOK(d) ==
  /\ d \in [Path -> Record \cup {Absent}]
  /\ \A path \in Path : d[path] # Absent =>
       IF d[path].span = Never THEN d[path].left = Never ELSE d[path].left \in 1 .. d[path].span

TypeOK ==
  /\ RecordsOK(db)
  /\ clock \in Time
  /\ DOMAIN call = Proc /\ \A p \in Proc : CallOK(call[p])

-----------------------------------------------------------------------------
(* Lifetimes.                                                              *)

\* mutant: no ttl leaves the record to the default of the namespace
SpanOfDefaulted(ttl) ==
  IF ttl = NoTtl THEN NamespaceTtl
  ELSE IF ttl < 0 THEN Never
  ELSE IF ttl \div TtlUnit = 0 THEN NamespaceTtl ELSE ttl \div TtlUnit

\* int(op.ttl * 60); the server reads 0 as the namespace's default.
SpanOf(ttl) ==
  IF ttl = NoTtl THEN Never
  ELSE IF ttl < 0 THEN Never
  ELSE IF ttl \div TtlUnit = 0 THEN NamespaceTtl ELSE ttl \div TtlUnit

\* _build_read_policy_for_refresh: does a read slide the lifetime?
Refresh(op) == RefreshOnRead \/ op.refresh

Renewed(rec) == IF rec = Absent THEN Absent ELSE [rec EXCEPT !.left = rec.span]

Age(rec) ==
  IF rec = Absent THEN Absent
  ELSE IF rec.span = Never THEN rec
  ELSE IF rec.left = 1 THEN Absent ELSE [rec EXCEPT !.left = @ - 1]

-----------------------------------------------------------------------------
(* What a query selects.                                                   *)

Comparisons == {"$eq", "$ne", "$gt", "$gte", "$lt", "$lte"}

\* A field that the value does not have satisfies no condition, not even $ne:
\* the server filters out what an expression cannot be evaluated on.
Satisfies(value, cond) ==
  /\ cond.field \in DOMAIN value
  /\ LET v == value[cond.field] IN
     \/ cond.cmp = "$eq"  /\ v = cond.val
     \/ cond.cmp = "$ne"  /\ v # cond.val
     \/ cond.cmp = "$gt"  /\ v > cond.val
     \/ cond.cmp = "$gte" /\ v >= cond.val
     \/ cond.cmp = "$lt"  /\ v < cond.val
     \/ cond.cmp = "$lte" /\ v <= cond.val

\* Of several conditions of one type the last counts.
LastOf(type, conditions) ==
  LET i == SelectLastInSeq(conditions, LAMBDA m : m.match = type)
  IN IF i = 0 THEN <<>> ELSE conditions[i].path

PrefixOf(op) == IF op.op = "search" THEN op.prefix ELSE LastOf("prefix", op.conditions)
SuffixOf(op) == IF op.op = "search" THEN <<>> ELSE LastOf("suffix", op.conditions)

\* mutant: the index is trusted to have enforced the prefix
SelectsByIndex(op, rec) ==
  /\ IndexSelects(PrefixOf(op), SuffixOf(op), rec.ns)
  /\ op.op = "search" => \A cond \in op.filter : Satisfies(rec.value, cond)

Selects(op, rec) ==
  /\ QuerySelects(PrefixOf(op), SuffixOf(op), rec.ns)
  /\ op.op = "search" => \A cond \in op.filter : Satisfies(rec.value, cond)

Stored(path) == db[path] # Absent

\* The items that an operation matches in a set d.
Matching(d, op) ==
  {Bins(d[path]) : path \in {path \in Path : d[path] # Absent /\ Selects(op, d[path])}}

PathOf(item) == ItemPath(item.ns, item.key)

Slots(items) == {<<item.ns, item.key>> : item \in items}

At(p, pc) == call[p].pc = pc

Querying(p) == call[p].pc \in {"scan", "refetch"}

Listing(p) == At(p, "scan") /\ CurrentOp(p).op = "list_namespaces"

InUse(d) == {d[path].ns : path \in {path \in Path : d[path] # Absent}}

\* A search or listing that starts notes the namespace and key of all that it
\* matches, and to its end which of them have matched ever since; a listing also
\* the namespaces that come to have items.
Observe ==
  /\ held' = [p \in Proc |->
       IF Querying(p) THEN held[p] \cap Slots(Matching(db', CurrentOp(p)))
       ELSE IF Querying(p)' THEN Slots(Matching(db, CurrentOp(p)))
       ELSE IF call'[p].pc \in {"idle", "operate"} THEN {} ELSE held[p]]
  /\ seen' = [p \in Proc |->
       IF Listing(p) THEN seen[p] \cup InUse(db')
       ELSE IF Listing(p)' THEN InUse(db)
       ELSE IF call'[p].pc \in {"idle", "operate"} THEN {} ELSE seen[p]]

-----------------------------------------------------------------------------
(* Steps of a batch.                                                       *)

\* p has come to an operation of a kind.
Starts(p, kind) == At(p, "next") /\ CurrentOp(p).op = kind

\* A request that took effect: the code goes on as `c`, or the reply is lost
\* and the batch raises.
Reply(p, c) ==
  \/ call' = [call EXCEPT ![p] = c]
  \/ Faults /\ call' = [call EXCEPT ![p].pc = "failed"]

\* The operation is done, and the next one begins.
Answered(c, answer) ==
  [batch |-> c.batch, results |-> Append(c.results, answer),
   pc |-> IF Len(c.results) + 1 = Len(c.batch) THEN "done" ELSE "next",
   now |-> 0, found |-> {}, out |-> <<>>]

Begin(p, batch) ==
  /\ At(p, "idle")
  /\ call' = [call EXCEPT ![p] = [NoCall EXCEPT !.batch = batch,
                !.pc = IF batch = <<>> THEN "done" ELSE "next"]]
  /\ UNCHANGED <<db, clock>>
  /\ Observe

\* What the code cannot do ends the batch; what was done before stays done.
Unsupported(op) ==
  \/ op.op = "search" /\ (op.semantic \/ \E cond \in op.filter : cond.cmp \notin Comparisons)
  \/ op.op = "list_namespaces"
       /\ \E i \in DOMAIN op.conditions : op.conditions[i].match \notin {"prefix", "suffix"}

Reject(p) ==
  /\ At(p, "next") /\ Unsupported(CurrentOp(p))
  /\ call' = [call EXCEPT ![p].pc = "failed"]
  /\ UNCHANGED <<db, clock>>
  /\ Observe

(* put: the time is taken by the caller, and goes with the request.        *)

\* mutant: None is put as any other value
StampPutOfNone(p) ==
  /\ Starts(p, "put")
  /\ call' = [call EXCEPT ![p].pc = "operate", ![p].now = clock]
  /\ UNCHANGED <<db, clock>>
  /\ Observe

StampPut(p) ==
  /\ Starts(p, "put") /\ CurrentOp(p).value # NoValue
  /\ call' = [call EXCEPT ![p].pc = "operate", ![p].now = clock]
  /\ UNCHANGED <<db, clock>>
  /\ Observe

\* mutant: created_at is written without MAP_WRITE_FLAGS_CREATE_ONLY
OperatePutOverwrites(p) ==
  LET op == CurrentOp(p)
      now == call[p].now
  IN
  /\ At(p, "operate")
  /\ db' = [db EXCEPT ![ItemPath(op.ns, op.key)] =
       [ns |-> op.ns, key |-> op.key, value |-> op.value, created |-> now, updated |-> now,
        span |-> SpanOf(op.ttl), left |-> SpanOf(op.ttl)]]
  /\ Reply(p, Answered(call[p], <<>>))
  /\ UNCHANGED clock
  /\ Observe

OperatePut(p) ==
  LET op == CurrentOp(p)
      path == ItemPath(op.ns, op.key)
      now == call[p].now
  IN
  /\ At(p, "operate")
  /\ db' = [db EXCEPT ![path] =
       [ns |-> op.ns, key |-> op.key, value |-> op.value,
        created |-> IF Stored(path) THEN db[path].created ELSE now, updated |-> now,
        span |-> SpanOf(op.ttl), left |-> SpanOf(op.ttl)]]
  /\ Reply(p, Answered(call[p], <<>>))
  /\ UNCHANGED clock
  /\ Observe

\* put of None, and delete.  What is not there need not be removed.
RemoveItem(p) ==
  LET op == CurrentOp(p) IN
  /\ Starts(p, "put") /\ op.value = NoValue
  /\ db' = [db EXCEPT ![ItemPath(op.ns, op.key)] = Absent]
  /\ Reply(p, Answered(call[p], <<>>))
  /\ UNCHANGED clock
  /\ Observe

GetItem(p) ==
  LET op == CurrentOp(p)
      path == ItemPath(op.ns, op.key)
  IN
  /\ Starts(p, "get")
  /\ db' = IF Refresh(op) THEN [db EXCEPT ![path] = Renewed(@)] ELSE db
  /\ Reply(p, Answered(call[p], IF Stored(path) THEN <<Bins(db[path])>> ELSE <<>>))
  /\ UNCHANGED clock
  /\ Observe

(* search and list_namespaces: a query, which is a scan and no snapshot.   *)

Query(p) ==
  LET op == CurrentOp(p) IN
  /\ Starts(p, "search") \/ Starts(p, "list_namespaces")
  /\ ~Unsupported(op)
  /\ call' = [call EXCEPT ![p].pc = "scan", ![p].found = Matching(db, op)]
  /\ UNCHANGED <<db, clock>>
  /\ Observe

\* out[offset:][:limit]; here a limit of 0 is one.
Page(op, items) ==
  LET rest == FromOffset(items, op.offset)
  IN IF op.limit = NoLimit THEN rest ELSE UpTo(rest, op.limit)

\* What the scan may return: of an item that matches at its start and at its
\* end, one of the two versions; what matches at one of them only, or not.
Scanned(start, end) ==
  {s \in SUBSET (start \cup end) :
     /\ Slots(start) \cap Slots(end) \subseteq Slots(s)
     /\ \A i, j \in s : PathOf(i) = PathOf(j) => i = j}

\* Without a read policy a search answers with what the query returned, in
\* whatever order.
Scan(p) ==
  LET c == call[p]
      op == CurrentOp(p)
  IN
  /\ At(p, "scan")
  /\ \E found \in Scanned(c.found, Matching(db, op)) :
       IF op.op = "list_namespaces"
         THEN Reply(p, Answered(c, NamespacePage({item.ns : item \in found},
                                                 op.depth, op.offset, op.limit)))
       ELSE IF Refresh(op) /\ found # {}
         THEN Reply(p, [c EXCEPT !.pc = "refetch", !.found = found])
         ELSE \E out \in SetToSeqs(found) : Reply(p, Answered(c, Page(op, out)))
  /\ UNCHANGED <<db, clock>>
  /\ Observe

\* mutant: the first record that is gone ends the search
RefetchUntilGone(p) ==
  LET c == call[p]
      op == CurrentOp(p)
  IN
  /\ At(p, "refetch")
  /\ \E item \in c.found :
       LET path == PathOf(item)
           out == IF Stored(path) THEN Append(c.out, Bins(db[path])) ELSE c.out
           rest == IF Stored(path) THEN c.found \ {item} ELSE {}
       IN /\ db' = [db EXCEPT ![path] = Renewed(@)]
          /\ Reply(p, IF rest = {} THEN Answered(c, Page(op, out))
                      ELSE [c EXCEPT !.found = rest, !.out = out])
  /\ UNCHANGED clock
  /\ Observe

\* With one it reads each record again, which slides its lifetime; what is
\* gone by then is skipped, what has changed is taken as it is now.
Refetch(p) ==
  LET c == call[p]
      op == CurrentOp(p)
  IN
  /\ At(p, "refetch")
  /\ \E item \in c.found :
       LET path == PathOf(item)
           out == IF Stored(path) THEN Append(c.out, Bins(db[path])) ELSE c.out
           rest == c.found \ {item}
       IN /\ db' = [db EXCEPT ![path] = Renewed(@)]
          /\ Reply(p, IF rest = {} THEN Answered(c, Page(op, out))
                      ELSE [c EXCEPT !.found = rest, !.out = out])
  /\ UNCHANGED clock
  /\ Observe

-----------------------------------------------------------------------------
(* Errors, the end of a batch, time.                                       *)

Working(p) == ~(At(p, "idle") \/ At(p, "done") \/ At(p, "failed"))

\* A request fails without effect.
Fail(p) ==
  /\ Faults
  /\ Working(p)
  /\ call' = [call EXCEPT ![p].pc = "failed"]
  /\ UNCHANGED <<db, clock>>
  /\ Observe

Return(p) ==
  /\ At(p, "done") \/ At(p, "failed")
  /\ call' = [call EXCEPT ![p] = NoCall]
  /\ UNCHANGED <<db, clock>>
  /\ Observe

Tick ==
  /\ clock < MaxClock
  /\ clock' = clock + 1
  /\ db' = [path \in Path |-> Age(db[path])]
  /\ UNCHANGED call
  /\ Observe

Init ==
  /\ db = [path \in Path |-> Absent]
  /\ clock = 0
  /\ call = [p \in Proc |-> NoCall]
  /\ held = [p \in Proc |-> {}]
  /\ seen = [p \in Proc |-> {}]

Step(p) ==
  \/ Reject(p)
  \/ StampPut(p) \/ OperatePut(p) \/ RemoveItem(p)
  \/ GetItem(p)
  \/ Query(p) \/ Scan(p) \/ Refetch(p)
  \/ Fail(p)
  \/ Return(p)

Next ==
  \/ \E p \in Proc : Step(p) \/ \E batch \in Batches[p] : Begin(p, batch)
  \/ Tick

Spec == Init /\ [][Next]_vars

-----------------------------------------------------------------------------
(* Properties.                                                             *)

\* The answers to operations of a kind, each with its operation.
AnswersTo(p, kind) ==
  {[op |-> call[p].batch[i], answer |-> call[p].results[i]] :
     i \in {i \in DOMAIN call[p].results : call[p].batch[i].op = kind}}

\* What get returns is the item it was asked for: one with that namespace and
\* that key.
GetReturnsItsItem ==
  \A p \in Proc : \A a \in AnswersTo(p, "get") : \A i \in DOMAIN a.answer :
    a.answer[i].ns = a.op.ns /\ a.answer[i].key = a.op.key

\* A search answers only with items of namespaces that begin with its prefix,
\* each item once, though it reads them again after the query.
SearchStaysInNamespace ==
  \A p \in Proc : \A a \in AnswersTo(p, "search") :
    /\ \A i \in DOMAIN a.answer : HasPrefix(a.op.prefix, a.answer[i].ns)
    /\ \A i, j \in DOMAIN a.answer : PathOf(a.answer[i]) = PathOf(a.answer[j]) => i = j

\* The items a search answers with satisfy its filter.
SearchMatchesFilter ==
  \A p \in Proc : \A a \in AnswersTo(p, "search") : \A i \in DOMAIN a.answer :
    \A cond \in a.op.filter : Satisfies(a.answer[i].value, cond)

\* The last answer, if the last operation done is of a kind and no other has
\* begun since.
LastAnswer(p, kind) ==
  LET n == Len(call[p].results)
  IN {[op |-> call[p].batch[i], answer |-> call[p].results[i]] :
        i \in {i \in {n} \ {0} : call[p].pc \in {"next", "done"} /\ call[p].batch[i].op = kind}}

\* Was there no room on the page for more?
Full(a) == a.op.limit # NoLimit /\ Len(a.answer) >= a.op.limit

\* A search misses nothing that matched all the time it took, whatever other
\* callers put, delete or let expire between its query and its reads: what is
\* not on the page was skipped by the offset or had no room.
SearchIsComplete ==
  \A p \in Proc : \A a \in LastAnswer(p, "search") :
    Full(a) \/ Cardinality(held[p] \ Slots(Range(a.answer))) <= a.op.offset

\* Is the i-th of a listing, counted from 0, on the page asked for?
OnPage(i, op) ==
  /\ i >= op.offset
  /\ op.limit \in {NoLimit, 0} \/ i < op.offset + op.limit

\* A listing is a page, in order and without gaps, of a set of namespaces, each
\* cut at its depth and taken once: of one that has all that fit its patterns and
\* had an item all the time, and none but those that fit and had an item at some
\* time, whatever other callers put, delete or let expire meanwhile.
NamespacesListed ==
  \A p \in Proc : \A a \in LastAnswer(p, "list_namespaces") :
    LET cut(nss) == {Truncated(ns, a.op.depth) : ns \in nss}
        fit == {ns \in seen[p] : HasPrefix(PrefixOf(a.op), ns) /\ HasSuffix(SuffixOf(a.op), ns)}
    IN /\ \A i, j \in DOMAIN a.answer : i < j => NsLess(a.answer[i], a.answer[j])
       /\ \E listed \in SUBSET cut(fit) :
            /\ cut({slot[1] : slot \in held[p]}) \subseteq listed
            /\ Range(a.answer) = {ns \in listed : OnPage(Place(ns, listed), a.op)}

-----------------------------------------------------------------------------
(* What all this promises: one map of items, on which the operations of a  *)
(* batch take effect one by one, each at once.                             *)

Slot == Namespaces \X Keys

\* The item in a record, as its callers may know it.
Shown(rec) ==
  IF rec = Absent THEN Absent
  ELSE [value |-> rec.value, created |-> rec.created, updated |-> rec.updated,
        mortal |-> rec.span # Never]

AllItems == [slot \in Slot |-> Shown(db[ItemPath(slot[1], slot[2])])]

AllCalls ==
  [p \in Proc |-> [batch |-> call[p].batch, results |-> call[p].results,
                   pc |-> IF Working(p) THEN "working" ELSE call[p].pc]]

Abstract == INSTANCE ItemStore WITH items <- AllItems, calls <- AllCalls

\* The store implements that map.
ImplementsItemStore == Abstract!Spec
=============================================================================
