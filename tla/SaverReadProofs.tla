--------------------------- MODULE SaverReadProofs ---------------------------
(***************************************************************************)
(* What get_tuple and list answer, for any number of callers, with errors  *)
(* and with records that expire between two requests.                      *)
(***************************************************************************)
EXTENDS CheckpointSaverProofs, RunnableConfigs, SaverSessions

Reading == {"get_cp", "touch", "get_writes"}

Outs(c) == {c.out[i].id : i \in DOMAIN c.out}

(* What list owes and keeps, for a call c that has held on to h.           *)

Follows(r, i) == r.before # NoId => Newer(r.before, i)

Held(r, i, h) == <<CpKey(r.t, r.ns, i)>> \in h

Must(r, h) == {i \in Id : /\ Held(r, i, h)
                          /\ r.filter \in {NoMeta, MetaOf[i]}
                          /\ r.before # NoId => Held(r, r.before, h) /\ Newer(r.before, i)}

InOrder(c) ==
  /\ \A i, j \in DOMAIN c.out : i < j => Newer(c.out[i].id, c.out[j].id)
  /\ \A i \in DOMAIN c.out : /\ c.req.filter \in {NoMeta, MetaOf[c.out[i].id]}
                             /\ Follows(c.req, c.out[i].id)
  /\ c.req.limit # NoLimit => Len(c.out) <= c.req.limit

\* Id i may be yielded next.
Behind(c, i) == Follows(c.req, i) /\ \A j \in DOMAIN c.out : Newer(c.out[j].id, i)

\* The loop's invariant, where it looks for the next id ...
Looping(c, h) ==
  /\ InOrder(c)
  /\ \A i \in c.ids : Behind(c, i)
  /\ Must(c.req, h) \subseteq c.ids \cup Outs(c)

\* ... and at every point of the method.
Listed(c, h) ==
  /\ InOrder(c)
  /\ c.pc \in {"query", "scan"} => c.out = <<>>
  /\ c.pc = "scan" =>
       \A i \in Must(c.req, h) :
         /\ CpKey(c.req.t, c.req.ns, i) \in c.found
         /\ c.req.before # NoId => CpKey(c.req.t, c.req.ns, c.req.before) \in c.found
  /\ c.pc \in Reading =>
       /\ c.req.limit # NoLimit => Len(c.out) < c.req.limit
       /\ Behind(c, c.id)
       /\ \A i \in c.ids : Behind(c, i) /\ Newer(c.id, i)
       /\ Must(c.req, h) \subseteq c.ids \cup {c.id} \cup Outs(c)
  /\ c.pc = "done" =>
       \A m \in Must(c.req, h) \ Outs(c) :
         c.req.limit # NoLimit /\ Len(c.out) >= c.req.limit /\ \A g \in Outs(c) : Newer(g, m)

\* With less held, less is owed.
LEMMA MustLess ==
  ASSUME NEW r, NEW h, NEW g \in SUBSET h
  PROVE  Must(r, g) \subseteq Must(r, h)
BY DEF Must, Held

LEMMA ListedLess ==
  ASSUME NEW c, NEW h, NEW g \in SUBSET h, Listed(c, h)
  PROVE  Listed(c, g)
<1>1. Must(c.req, g) \subseteq Must(c.req, h)
  BY MustLess
<1> QED
  BY <1>1 DEF Listed

-----------------------------------------------------------------------------
(* The loop of list.                                                       *)

LEMMA NextItemFields ==
  ASSUME NEW c \in CallState
  PROVE  LET n == NextItem(c)
             stops == c.ids = {} \/ (c.req.limit # NoLimit /\ Len(c.out) >= c.req.limit)
         IN /\ n.req = c.req /\ n.out = c.out /\ n.set = c.set
            /\ stops => n.pc = "done" /\ n.ids = c.ids /\ n.id = c.id
            /\ ~stops => /\ n.pc = "get_cp" /\ n.id = Newest(c.ids)
                         /\ n.ids = c.ids \ {Newest(c.ids)}
BY DEF NextItem, Done, CallState

LEMMA NextItemListed ==
  ASSUME NEW c \in CallState, c.req \in ListReq, NEW h, Looping(c, h)
  PROVE  Listed(NextItem(c), h)
<1> DEFINE n == NextItem(c)
           stops == c.ids = {} \/ (c.req.limit # NoLimit /\ Len(c.out) >= c.req.limit)
<1>1. n.req = c.req /\ n.out = c.out
  BY NextItemFields
<1>2. InOrder(n) /\ Outs(n) = Outs(c) /\ \A i : Behind(n, i) <=> Behind(c, i)
  BY <1>1 DEF Looping, InOrder, Outs, Behind
<1>3. CASE stops
  <2>1. n.pc = "done"
    BY <1>3, NextItemFields
  <2> SUFFICES ASSUME NEW m \in Must(c.req, h) \ Outs(c)
               PROVE  /\ c.req.limit # NoLimit /\ Len(c.out) >= c.req.limit
                      /\ \A g \in Outs(c) : Newer(g, m)
    <3> QED BY <1>1, <1>2, <2>1 DEF Listed, Reading
  <2>2. m \in c.ids
    BY DEF Looping
  <2>3. \A g \in Outs(c) : Newer(g, m)
    BY <2>2 DEF Looping, Behind, Outs
  <2> QED BY <1>3, <2>2, <2>3
<1>4. CASE ~stops
  <2>1. n.pc = "get_cp" /\ n.id = Newest(c.ids) /\ n.ids = c.ids \ {Newest(c.ids)}
    BY <1>4, NextItemFields
  <2>2. /\ Newest(c.ids) \in c.ids
        /\ \A j \in c.ids \ {Newest(c.ids)} : Newer(Newest(c.ids), j)
    BY <1>4, NewestIsNewest DEF CallState
  <2>3. c.req.limit # NoLimit => Len(c.out) < c.req.limit
    BY <1>4 DEF ListReq, CallState
  <2> QED
    BY <1>1, <1>2, <2>1, <2>2, <2>3 DEF Listed, Looping, Reading
<1> QED BY <1>3, <1>4

\* An id read without a tuple: the checkpoint is gone and not owed any more.
LEMMA NoTupleListed ==
  ASSUME NEW c \in CallState, c.req \in ListReq, c.pc = "get_cp", NEW h, Listed(c, h),
         NEW g \in SUBSET h, ~Held(c.req, c.id, g)
  PROVE  Listed(NoTuple(c), g)
<1>1. c.id \notin Must(c.req, g) /\ Must(c.req, g) \subseteq Must(c.req, h)
  BY MustLess DEF Must
<1>2. Looping(c, g)
  BY <1>1 DEF Listed, Looping, Reading
<1>3. NoTuple(c) = NextItem(c)
  BY DEF NoTuple, AfterTuple, ListReq
<1> QED
  BY <1>2, <1>3, NextItemListed

\* An id read with a tuple: yielded, unless the filter refuses it.
LEMMA GotTupleListed ==
  ASSUME NEW c \in CallState, c.req \in ListReq, c.pc = "get_writes", c.id \in Id,
         NEW h, Listed(c, h), NEW g \in SUBSET h, NEW writes \in SUBSET Item
  PROVE  Listed(GotTuple(c, writes), g)
<1> DEFINE tuple == [ns |-> c.req.ns, id |-> c.id, parent |-> c.parent, writes |-> writes]
           more == [c EXCEPT !.out = Append(@, tuple)]
           with == IF Wanted(c) THEN more ELSE c
<1>1. GotTuple(c, writes) = NextItem(with)
  <2>1. GotTuple(c, writes) = AfterTuple(with)
    BY DEF GotTuple
  <2>2. with.req = c.req
    BY DEF CallState
  <2> HIDE DEF with
  <2> QED BY <2>1, <2>2 DEF AfterTuple, ListReq
<1>2. Must(c.req, g) \subseteq Must(c.req, h)
  BY MustLess
<1>3. CASE ~Wanted(c)
  <2>1. c.id \notin Must(c.req, g)
    BY <1>3 DEF Wanted, Must
  <2>2. Looping(c, g)
    BY <1>2, <2>1 DEF Listed, Looping, Reading
  <2>3. with = c
    BY <1>3
  <2> HIDE DEF with
  <2> QED BY <1>1, <2>2, <2>3, NextItemListed
<1>4. CASE Wanted(c)
  <2>1. tuple \in Tuple /\ tuple.id = c.id
    BY DEF Tuple, CallState, ListReq
  <2>2. c.out \in Seq(Tuple)
    BY DEF CallState
  <2> HIDE DEF tuple
  <2>3. /\ Append(c.out, tuple) \in Seq(Tuple)
        /\ Len(Append(c.out, tuple)) = Len(c.out) + 1
        /\ \A i \in DOMAIN c.out : Append(c.out, tuple)[i] = c.out[i]
        /\ Append(c.out, tuple)[Len(c.out) + 1] = tuple
        /\ DOMAIN Append(c.out, tuple) = DOMAIN c.out \cup {Len(c.out) + 1}
        /\ \A i \in DOMAIN c.out : i \in Nat /\ i < Len(c.out) + 1
        /\ Len(c.out) \in Nat
    BY <2>1, <2>2
  <2>4. more \in CallState /\ more.req = c.req /\ more.ids = c.ids
        /\ more.out = Append(c.out, tuple)
    BY <2>3 DEF CallState
  <2> HIDE DEF more
  <2> DEFINE n == Len(c.out) + 1
  <2>5. \A i \in DOMAIN c.out : more.out[i] = c.out[i]
    BY <2>3, <2>4
  <2>6. DOMAIN more.out = DOMAIN c.out \cup {n} /\ more.out[n].id = c.id /\ n \in Nat
        /\ \A i \in DOMAIN c.out : i < n /\ i \in Nat
    BY <2>1, <2>3, <2>4
  <2>7. Outs(more) = Outs(c) \cup {c.id}
    <3> HIDE DEF n
    <3> QED BY <2>5, <2>6 DEF Outs
  <2>8. c.req.limit # NoLimit => Len(more.out) <= c.req.limit
    BY <2>3, <2>4 DEF Listed, Reading, ListReq
  <2>9. InOrder(more)
    <3>1. \A i, j \in DOMAIN more.out : i < j => Newer(more.out[i].id, more.out[j].id)
      <4> SUFFICES ASSUME NEW i \in DOMAIN more.out, NEW j \in DOMAIN more.out, i < j
                   PROVE  Newer(more.out[i].id, more.out[j].id)
        OBVIOUS
      <4>1. i \in DOMAIN c.out
        BY <2>6
      <4>2. CASE j \in DOMAIN c.out
        BY <4>1, <4>2, <2>5 DEF Listed, InOrder
      <4>3. CASE j = n
        BY <4>1, <4>3, <2>5, <2>6 DEF Listed, Behind, Reading
      <4> QED BY <4>2, <4>3, <2>6
    <3>2. \A i \in DOMAIN more.out : /\ c.req.filter \in {NoMeta, MetaOf[more.out[i].id]}
                                     /\ Follows(c.req, more.out[i].id)
      <4> HIDE DEF n
      <4>1. c.req.filter \in {NoMeta, MetaOf[c.id]} /\ Follows(c.req, c.id)
        BY <1>4 DEF Wanted, ListReq, Listed, Behind, Reading
      <4> QED BY <4>1, <2>5, <2>6 DEF Listed, InOrder
    <3> QED BY <3>1, <3>2, <2>4, <2>8 DEF InOrder
  <2>10. \A i \in c.ids : Behind(more, i)
    <3> HIDE DEF n
    <3> QED BY <2>4, <2>5, <2>6 DEF Listed, Behind, Reading
  <2>11. Looping(more, g)
    BY <1>2, <2>4, <2>7, <2>9, <2>10 DEF Looping, Listed, Reading
  <2>12. with = more
    BY <1>4
  <2> HIDE DEF with
  <2> QED BY <1>1, <2>4, <2>11, <2>12, NextItemListed
<1> QED BY <1>3, <1>4

-----------------------------------------------------------------------------
(* How each request moves the call it belongs to.                          *)

Same(c, d) == d.req = c.req /\ d.out = c.out /\ d.ids = c.ids /\ d.id = c.id

LEMMA ReplyShape ==
  ASSUME CallTypeOK, NEW p \in Proc, NEW c, Reply(p, c)
  PROVE  call'[p] = c \/ (Same(call[p], call'[p]) /\ call'[p].pc = "failed")
BY DEF Reply, CallTypeOK, CallState, Same

LEMMA FailShape ==
  ASSUME CallTypeOK, NEW p \in Proc, Fail(p)
  PROVE  Same(call[p], call'[p]) /\ call'[p].pc = "failed"
BY DEF Fail, CallTypeOK, CallState, Same

LEMMA GetLatestShape ==
  ASSUME TypeOK, NEW p \in Proc, GetLatest(p)
  PROVE  LET c == call[p]
             d == call'[p]
             k == LatestKey(c.req.t, c.req.ns)
         IN /\ c.pc = "get_latest" /\ c.req \in GetReq
            /\ \/ Same(c, d) /\ d.pc = "failed"
               \/ Stored(k) /\ d.req = c.req /\ d.out = c.out /\ d.pc = "get_cp" /\ d.id = db[k].id
               \/ ~Stored(k) /\ Same(c, d) /\ d.pc = "done"
<1> DEFINE k == LatestKey(call[p].req.t, call[p].req.ns)
           found == [call[p] EXCEPT !.pc = "get_cp", !.id = db[k].id]
           none == Done(call[p])
<1>0. call[p] \in CallState /\ call[p].pc = "get_latest" /\ call[p].req \in GetReq
  BY DEF GetLatest, At, TypeOK, InMethod
<1>1. Reply(p, IF Stored(k) THEN found ELSE none)
  BY DEF GetLatest
<1>2. /\ found.req = call[p].req /\ found.out = call[p].out
      /\ found.pc = "get_cp" /\ found.id = db[k].id
  BY <1>0 DEF CallState
<1>3. Same(call[p], none) /\ none.pc = "done"
  BY <1>0 DEF CallState, Done, Same
<1> HIDE DEF found, none
<1> QED
  BY <1>0, <1>1, <1>2, <1>3, ReplyShape, TypeHalves

LEMMA GetCheckpointShape ==
  ASSUME TypeOK, NEW p \in Proc, GetCheckpoint(p)
  PROVE  LET c == call[p]
             d == call'[p]
             k == CpKey(c.req.t, c.req.ns, c.id)
         IN /\ c.pc = "get_cp" /\ c.req \in GetReq \cup ListReq /\ c.id \in Id /\ k \in Key
            /\ \/ Same(c, d) /\ d.pc = "failed"
               \/ Stored(k) /\ Same(c, d) /\ d.pc \in {"touch", "get_writes"}
               \/ ~Stored(k) /\ d = NoTuple(c)
<1> DEFINE k == CpKey(call[p].req.t, call[p].req.ns, call[p].id)
           got == [call[p] EXCEPT !.parent = db[k].parent,
             !.pc = IF ~ByLatest(call[p]) /\ Refresh THEN "touch" ELSE "get_writes"]
<1>0. /\ call[p] \in CallState /\ call[p].pc = "get_cp" /\ call[p].id \in Id
      /\ call[p].req \in GetReq \cup ListReq
  BY DEF GetCheckpoint, At, TypeOK, InMethod
<1>1. k \in Key
  BY <1>0, KeyTypes DEF GetReq, ListReq
<1>2. Reply(p, IF Stored(k) THEN got ELSE NoTuple(call[p]))
  BY DEF GetCheckpoint
<1>3. Same(call[p], got) /\ got.pc \in {"touch", "get_writes"}
  BY <1>0 DEF CallState, Same
<1> HIDE DEF got
<1>4. \/ Same(call[p], call'[p]) /\ call'[p].pc = "failed"
      \/ Stored(k) /\ call'[p] = got
      \/ ~Stored(k) /\ call'[p] = NoTuple(call[p])
  <2> DEFINE c == IF Stored(k) THEN got ELSE NoTuple(call[p])
  <2>1. call'[p] = c \/ (Same(call[p], call'[p]) /\ call'[p].pc = "failed")
    <3>1. Reply(p, c)
      BY <1>2
    <3> HIDE DEF c
    <3> QED BY <3>1, ReplyShape, TypeHalves
  <2> QED BY <2>1
<1> QED
  BY <1>0, <1>1, <1>3, <1>4

LEMMA TouchLatestShape ==
  ASSUME TypeOK, NEW p \in Proc, TouchLatest(p)
  PROVE  /\ call[p].pc = "touch" /\ Same(call[p], call'[p])
         /\ call'[p].pc \in {"get_writes", "failed"}
<1> DEFINE c == [call[p] EXCEPT !.pc = "get_writes"]
<1>0. call[p] \in CallState /\ call[p].pc = "touch"
  BY DEF TouchLatest, At, TypeOK
<1>1. Reply(p, c) /\ Same(call[p], c) /\ c.pc = "get_writes"
  BY <1>0 DEF TouchLatest, CallState, Same
<1> HIDE DEF c
<1> QED BY <1>0, <1>1, ReplyShape, TypeHalves

LEMMA GetWritesShape ==
  ASSUME TypeOK, NEW p \in Proc, GetWrites(p),
         NEW k, k = WritesKey(call[p].req.t, call[p].req.ns, call[p].id)
  PROVE  /\ call[p].pc = "get_writes" /\ call[p].req \in GetReq \cup ListReq
         /\ call[p].id \in Id /\ k \in Key
         /\ WritesAt(k) \in SUBSET Item /\ WritesAt(k)' = WritesAt(k)
         /\ \/ Same(call[p], call'[p]) /\ call'[p].pc = "failed"
            \/ call'[p] = GotTuple(call[p], WritesAt(k))
<1>0. /\ call[p] \in CallState /\ call[p].pc = "get_writes" /\ call[p].id \in Id
      /\ call[p].req \in GetReq \cup ListReq
  BY DEF GetWrites, At, TypeOK, InMethod
<1>1. k \in Key /\ k.set = "writes"
  BY <1>0, KeyTypes DEF GetReq, ListReq
<1>2. Stored(k) => db[k].writes \in SUBSET Item
  BY <1>1 DEF TypeOK, Stored, Record
<1>3. (Stored(k)' <=> Stored(k)) /\ (Stored(k) => db'[k].writes = db[k].writes)
  BY <1>1, ReadKeepsBins, TypeHalves DEF GetWrites
<1>4. WritesAt(k) \in SUBSET Item /\ WritesAt(k)' = WritesAt(k)
  BY <1>2, <1>3 DEF WritesAt
<1>5. Reply(p, GotTuple(call[p], WritesAt(k)))
  BY DEF GetWrites
<1> QED
  BY <1>0, <1>1, <1>4, <1>5, ReplyShape, TypeHalves

LEMMA QueryShape ==
  ASSUME TypeOK, NEW p \in Proc, Query(p)
  PROVE  /\ call[p].pc = "query" /\ Same(call[p], call'[p]) /\ call'[p].pc = "scan"
         /\ call'[p].found = Matching(call[p].set, call[p].req.t)
BY DEF Query, At, TypeOK, CallState, Same

LEMMA ScanShape ==
  ASSUME TypeOK, NEW p \in Proc, call[p].req \in ListReq, Scan(p)
  PROVE  /\ call[p].pc = "scan" /\ call[p].set = "cp"
         /\ \E keys \in SUBSET Key, c \in CallState :
              /\ call[p].found \cap Matching("cp", call[p].req.t) \subseteq keys
              /\ c.req = call[p].req /\ c.out = call[p].out
              /\ c.ids = Listing(call[p], keys)
              /\ call'[p] = NextItem(c)
<1>0. call[p] \in CallState /\ call[p].pc = "scan" /\ call[p].set = "cp"
  BY DEF Scan, At, TypeOK, InMethod, ListReq, DeleteReq
<1> DEFINE listed(keys) == [call[p] EXCEPT !.found = {}, !.ids = Listing(call[p], keys)]
<1>1. PICK keys : /\ keys \subseteq call[p].found \cup Matching("cp", call[p].req.t)
                  /\ call[p].found \cap Matching("cp", call[p].req.t) \subseteq keys
                  /\ call' = [call EXCEPT ![p] = NextItem(listed(keys))]
  BY <1>0 DEF Scan, ListReq
<1>2. keys \in SUBSET Key /\ \A k \in keys : k.set = "cp"
  BY <1>0, <1>1 DEF Matching, CallState, TypeOK, InMethod
<1>3. Listing(call[p], keys) \in SUBSET Id
  <2>1. {k.id : k \in {k \in keys : k.ns = call[p].req.ns}} \in SUBSET Id
    BY <1>2 DEF Key
  <2> QED BY <2>1 DEF Listing
<1>4. /\ listed(keys) \in CallState /\ listed(keys).req = call[p].req
      /\ listed(keys).out = call[p].out /\ listed(keys).ids = Listing(call[p], keys)
  BY <1>0, <1>3 DEF CallState
<1>5. call'[p] = NextItem(listed(keys))
  BY <1>1 DEF TypeOK
<1> HIDE DEF listed
<1> QED
  BY <1>0, <1>1, <1>2, <1>4, <1>5

(* A step of get or list is one of its own requests, or an error.          *)
LEMMA StepOfRead ==
  ASSUME TypeOK, NEW p \in Proc, call[p].req \in GetReq \cup ListReq, Step(p), ~Return(p)
  PROVE  \/ GetLatest(p) \/ GetCheckpoint(p) \/ TouchLatest(p) \/ GetWrites(p) \/ Fail(p)
         \/ call[p].req \in ListReq /\ (Query(p) \/ Scan(p))
<1>1. call[p].req \notin PutReq \cup WritesReq \cup DeleteReq
  BY DEF DeleteReq, PutReq, WritesReq, GetReq, ListReq
<1>2. InMethod(call[p])
  BY DEF TypeOK
<1>3. /\ call[p].pc \notin {"put_cp", "put_latest", "operate", "remove"}
      /\ call[p].pc \in {"query", "scan"} => call[p].req \in ListReq
  BY <1>1, <1>2 DEF InMethod
<1> QED
  BY <1>3 DEF Step, At, PutCheckpoint, PutLatest, OperateWrites, RemoveRecord, Query, Scan

-----------------------------------------------------------------------------
(* list: what the index query found holds all that is owed.                *)

LEMMA SameListed ==
  ASSUME NEW c, NEW d, NEW h, Listed(c, h), Same(c, d),
         d.pc = "failed" \/ (c.pc \in Reading /\ d.pc \in Reading)
  PROVE  Listed(d, h)
<1>1. InOrder(d) /\ Outs(d) = Outs(c) /\ \A i : Behind(d, i) <=> Behind(c, i)
  BY DEF Same, Listed, InOrder, Outs, Behind
<1> QED
  BY <1>1 DEF Listed, Same, Reading

LEMMA MustMatches ==
  ASSUME IndexIsExact, NEW r \in ListReq, NEW h \in SUBSET Facts, NEW i \in Must(r, h)
  PROVE  /\ i \in Id /\ CpKey(r.t, r.ns, i) \in Matching("cp", r.t)
         /\ r.before # NoId => /\ r.before \in Id
                               /\ CpKey(r.t, r.ns, r.before) \in Matching("cp", r.t)
<1>1. ASSUME NEW j \in Id, Held(r, j, h) PROVE CpKey(r.t, r.ns, j) \in Matching("cp", r.t)
  <2>1. <<CpKey(r.t, r.ns, j)>>[1] = CpKey(r.t, r.ns, j)
    OBVIOUS
  <2>2. CpKey(r.t, r.ns, j) \in Key /\ Stored(CpKey(r.t, r.ns, j))
    BY <1>1, <2>1, FactIsStored DEF Held
  <2> QED BY <2>2 DEF IndexIsExact, Matching, CpKey
<1> QED
  BY <1>1 DEF Must, ListReq

LEMMA QueryListed ==
  ASSUME TypeOK, IndexIsExact, NEW p \in Proc, call[p].req \in ListReq, Query(p),
         NEW h \in SUBSET Facts, Listed(call[p], h)
  PROVE  Listed(call'[p], h)
<1>1. call[p].set = "cp"
  BY DEF Query, At, TypeOK, InMethod, ListReq, DeleteReq
<1>2. /\ call[p].pc = "query" /\ Same(call[p], call'[p]) /\ call'[p].pc = "scan"
      /\ call'[p].found = Matching("cp", call[p].req.t)
  BY <1>1, QueryShape
<1>3. InOrder(call'[p]) /\ call'[p].out = <<>>
  BY <1>2 DEF Same, Listed, InOrder
<1>4. \A i \in Must(call[p].req, h) :
        /\ CpKey(call[p].req.t, call[p].req.ns, i) \in call'[p].found
        /\ call[p].req.before # NoId =>
             CpKey(call[p].req.t, call[p].req.ns, call[p].req.before) \in call'[p].found
  BY <1>2, MustMatches
<1> QED
  BY <1>2, <1>3, <1>4 DEF Listed, Same, Reading

LEMMA ScanListed ==
  ASSUME TypeOK, IndexIsExact, NEW p \in Proc, call[p].req \in ListReq, Scan(p),
         NEW h \in SUBSET Facts, Listed(call[p], h)
  PROVE  Listed(call'[p], h)
<1> DEFINE r == call[p].req
<1>1. PICK keys \in SUBSET Key, c \in CallState :
        /\ call[p].found \cap Matching("cp", r.t) \subseteq keys
        /\ c.req = r /\ c.out = call[p].out
        /\ c.ids = Listing(call[p], keys)
        /\ call'[p] = NextItem(c)
  BY ScanShape
<1>2. call[p].pc = "scan" /\ call[p].out = <<>>
  BY ScanShape DEF Listed
<1>3. \A i \in Must(r, h) : /\ i \in Id /\ CpKey(r.t, r.ns, i) \in keys
                            /\ r.before # NoId => CpKey(r.t, r.ns, r.before) \in keys
  BY <1>1, <1>2, MustMatches DEF Listed
<1> DEFINE ids == {k.id : k \in {k \in keys : k.ns = r.ns}}
<1>4. \A i \in Must(r, h) : i \in ids /\ (r.before # NoId => r.before \in ids)
  <2>1. \A j : CpKey(r.t, r.ns, j).id = j /\ CpKey(r.t, r.ns, j).ns = r.ns
    BY DEF CpKey
  <2>2. \A j : CpKey(r.t, r.ns, j) \in keys => j \in ids
    BY <2>1
  <2> HIDE DEF ids
  <2> QED BY <1>3, <2>2
<1>5. Must(r, h) \subseteq c.ids
  BY <1>1, <1>4 DEF Must, Listing
<1>6. \A i \in c.ids : Follows(r, i)
  BY <1>1 DEF Listing, Follows
<1>7. Looping(c, h)
  BY <1>1, <1>2, <1>5, <1>6 DEF Looping, InOrder, Listed, Behind
<1> QED
  BY <1>1, <1>7, NextItemListed

LEMMA StepListed ==
  ASSUME TypeOK, IndexIsExact, NEW p \in Proc, call[p].req \in ListReq, Step(p), ~Return(p),
         NEW h \in SUBSET Facts, Listed(call[p], h), NEW g \in SUBSET h
  PROVE  Listed(call'[p], g)
<1>0. call[p] \in CallState /\ Listed(call[p], g) /\ g \in SUBSET Facts
  BY ListedLess DEF TypeOK
<1>1. CASE GetLatest(p)
  BY <1>1, GetLatestShape DEF GetReq, ListReq
<1>2. CASE GetCheckpoint(p)
  <2>1. CASE Same(call[p], call'[p]) /\ call'[p].pc \in {"failed", "touch", "get_writes"}
    BY <1>0, <1>2, <2>1, GetCheckpointShape, SameListed DEF Reading
  <2>2. CASE /\ ~Stored(CpKey(call[p].req.t, call[p].req.ns, call[p].id))
             /\ call'[p] = NoTuple(call[p])
    <3>1. <<CpKey(call[p].req.t, call[p].req.ns, call[p].id)>>[1]
            = CpKey(call[p].req.t, call[p].req.ns, call[p].id)
      OBVIOUS
    <3>2. ~Held(call[p].req, call[p].id, g)
      BY <1>0, <2>2, <3>1, FactIsStored DEF Held
    <3>3. call[p].pc = "get_cp"
      BY <1>2, GetCheckpointShape
    <3> QED BY <1>0, <2>2, <3>2, <3>3, NoTupleListed
  <2> QED BY <1>2, <2>1, <2>2, GetCheckpointShape
<1>3. CASE TouchLatest(p)
  BY <1>0, <1>3, TouchLatestShape, SameListed DEF Reading
<1>4. CASE GetWrites(p)
  BY <1>0, <1>4, GetWritesShape, SameListed, GotTupleListed
<1>5. CASE Fail(p)
  BY <1>0, <1>5, FailShape, SameListed, TypeHalves
<1>6. CASE Query(p)
  BY <1>0, <1>6, QueryListed
<1>7. CASE Scan(p)
  BY <1>0, <1>7, ScanListed
<1> QED
  BY <1>1, <1>2, <1>3, <1>4, <1>5, <1>6, <1>7, StepOfRead

-----------------------------------------------------------------------------
(* get_tuple.                                                              *)

\* Where a get stands: on its way to the checkpoint that the pointer named,
\* which was stored, or at the end with nothing, for cause.
Got(c, h) ==
  /\ c.pc = "get_latest" => c.id = NoId
  /\ ByLatest(c) /\ c.id # NoId => WasStored(CpKey(c.req.t, c.req.ns, c.id))
  /\ c.pc = "done" /\ c.out = <<>> =>
       IF c.id = NoId THEN <<LatestKey(c.req.t, c.req.ns)>> \notin h
                      ELSE <<CpKey(c.req.t, c.req.ns, c.id)>> \notin h

\* What has been stored stays on record, so the claims of a call at rest do.
LEMMA RestingGot ==
  ASSUME TypeOK, [Next]_vars, NEW c \in CallState, c.req \in GetReq,
         NEW h, Got(c, h), NEW g \in SUBSET h
  PROVE  Got(c, g)'
<1>1. c.id # NoId => CpKey(c.req.t, c.req.ns, c.id) \in Key
  BY KeyTypes DEF CallState, GetReq
<1>2. c.id # NoId /\ WasStored(CpKey(c.req.t, c.req.ns, c.id))
        => WasStored(CpKey(c.req.t, c.req.ns, c.id))'
  BY <1>1, WasStoredStays
<1> QED
  BY <1>2 DEF Got, ByLatest

LEMMA SameGot ==
  ASSUME TypeOK, [Next]_vars, NEW c \in CallState, c.req \in GetReq, NEW h, Got(c, h),
         NEW d, Same(c, d), d.pc \notin {"done", "get_latest"}, NEW g
  PROVE  Got(d, g)'
<1>1. c.id # NoId => CpKey(c.req.t, c.req.ns, c.id) \in Key
  BY KeyTypes DEF CallState, GetReq
<1>2. c.id # NoId /\ WasStored(CpKey(c.req.t, c.req.ns, c.id))
        => WasStored(CpKey(c.req.t, c.req.ns, c.id))'
  BY <1>1, WasStoredStays
<1> QED
  BY <1>2 DEF Got, ByLatest, Same

\* The answer of a get ends it; a list reads on.
LEMMA AfterTupleShape ==
  ASSUME NEW c \in CallState
  PROVE  /\ AfterTuple(c).out = c.out /\ AfterTuple(c).req = c.req
         /\ c.req \in GetReq => AfterTuple(c).pc = "done" /\ AfterTuple(c).id = c.id
<1>1. c.req \in GetReq => AfterTuple(c) = Done(c)
  BY DEF AfterTuple, GetReq
<1>2. Done(c).out = c.out /\ Done(c).req = c.req /\ Done(c).pc = "done" /\ Done(c).id = c.id
  BY DEF Done, CallState
<1>3. NextItem(c).out = c.out /\ NextItem(c).req = c.req
  BY NextItemFields
<1> QED
  BY <1>1, <1>2, <1>3 DEF AfterTuple

LEMMA GotTupleShape ==
  ASSUME NEW c \in CallState, c.req \in GetReq \cup ListReq, c.id \in Id,
         NEW writes \in SUBSET Item
  PROVE  LET d == GotTuple(c, writes)
         IN /\ d.req = c.req
            /\ c.req \in GetReq => d.pc = "done" /\ d.id = c.id /\ d.out # <<>>
            /\ \A i \in DOMAIN d.out : \/ i \in DOMAIN c.out /\ d.out[i] = c.out[i]
                                       \/ /\ d.out[i].id = c.id /\ d.out[i].writes = writes
                                          /\ d.out[i].ns = c.req.ns
<1> DEFINE tuple == [ns |-> c.req.ns, id |-> c.id, parent |-> c.parent, writes |-> writes]
           more == [c EXCEPT !.out = Append(@, tuple)]
           with == IF Wanted(c) THEN more ELSE c
<1>1. GotTuple(c, writes) = AfterTuple(with)
  BY DEF GotTuple
<1>2. tuple \in Tuple /\ tuple.id = c.id /\ tuple.writes = writes /\ tuple.ns = c.req.ns
  BY DEF Tuple, CallState, GetReq, ListReq
<1>3. c.out \in Seq(Tuple)
  BY DEF CallState
<1> HIDE DEF tuple
<1>4. /\ Append(c.out, tuple) \in Seq(Tuple) /\ Append(c.out, tuple) # <<>>
      /\ \A i \in DOMAIN Append(c.out, tuple) :
           \/ i \in DOMAIN c.out /\ Append(c.out, tuple)[i] = c.out[i]
           \/ Append(c.out, tuple)[i] = tuple
  BY <1>2, <1>3
<1>5. /\ more \in CallState /\ more.req = c.req /\ more.id = c.id
      /\ more.out = Append(c.out, tuple)
  BY <1>4 DEF CallState
<1> HIDE DEF more
<1>6. /\ with \in CallState /\ with.req = c.req /\ with.id = c.id
      /\ with.out = c.out \/ with.out = Append(c.out, tuple)
      /\ c.req \in GetReq => with.out = Append(c.out, tuple)
  BY <1>5 DEF Wanted, GetReq
<1> HIDE DEF with
<1>7. PICK d, longer : d = GotTuple(c, writes) /\ longer = Append(c.out, tuple)
  OBVIOUS
<1>8. /\ d.out = with.out /\ d.req = c.req
      /\ c.req \in GetReq => d.pc = "done" /\ d.id = c.id
  BY <1>1, <1>6, <1>7, AfterTupleShape
<1>9. /\ d.out = c.out \/ d.out = longer
      /\ c.req \in GetReq => d.out = longer
  BY <1>6, <1>7, <1>8
<1> DEFINE OldOrNew(s) ==
             \A i \in DOMAIN s : \/ i \in DOMAIN c.out /\ s[i] = c.out[i]
                                 \/ s[i].id = c.id /\ s[i].writes = writes /\ s[i].ns = c.req.ns
<1>10. longer # <<>> /\ OldOrNew(longer)
  <2>1. longer # <<>>
    BY <1>4, <1>7
  <2> SUFFICES ASSUME NEW i \in DOMAIN longer
               PROVE  \/ i \in DOMAIN c.out /\ longer[i] = c.out[i]
                      \/ longer[i].id = c.id /\ longer[i].writes = writes /\ longer[i].ns = c.req.ns
    BY <2>1
  <2>2. \/ i \in DOMAIN c.out /\ longer[i] = c.out[i]
        \/ longer[i] = tuple
    BY <1>4, <1>7
  <2> QED BY <1>2, <2>2
<1>11. OldOrNew(d.out)
  <2>1. OldOrNew(c.out)
    OBVIOUS
  <2> HIDE DEF OldOrNew
  <2> QED BY <1>9, <1>10, <2>1
<1>12. c.req \in GetReq => d.pc = "done" /\ d.id = c.id /\ d.out # <<>>
  BY <1>8, <1>9, <1>10
<1> QED BY <1>7, <1>8, <1>11, <1>12

LEMMA StepGot ==
  ASSUME TypeOK, LatestNamesStored, Next, NEW p \in Proc, call[p].req \in GetReq,
         Step(p), ~Return(p), NEW h \in SUBSET Facts, Got(call[p], h), NEW g \in SUBSET h,
         NEW d, d = call'[p]
  PROVE  Got(d, g)'
<1> DEFINE c == call[p]
<1>0. c \in CallState /\ c.req \in GetReq
  BY DEF TypeOK
<1>1. CASE GetLatest(p)
  <2> DEFINE k == LatestKey(c.req.t, c.req.ns)
  <2>1. c.pc = "get_latest" /\ c.id = NoId /\ k \in Key /\ k.set = "meta"
    BY <1>0, <1>1, GetLatestShape, KeyTypes DEF Got, GetReq
  <2>2. CASE Same(c, d) /\ d.pc = "failed"
    BY <1>0, <2>2, SameGot
  <2>3. CASE Stored(k) /\ d.req = c.req /\ d.pc = "get_cp" /\ d.id = db[k].id
    <3>1. db[k].id \in Id
      BY <2>1, <2>3 DEF TypeOK, Stored, Record
    <3>2. WasStored(CpKey(c.req.t, c.req.ns, db[k].id))
      BY <1>0, <2>3 DEF LatestNamesStored, GetReq
    <3>3. WasStored(CpKey(c.req.t, c.req.ns, d.id))'
      BY <1>0, <2>3, <3>1, <3>2, WasStoredStays, KeyTypes DEF GetReq
    <3> QED BY <2>3, <3>3 DEF Got
  <2>4. CASE ~Stored(k) /\ Same(c, d) /\ d.pc = "done"
    <3>1. <<k>>[1] = k
      OBVIOUS
    <3>2. <<k>> \notin g
      BY <2>4, <3>1, FactIsStored
    <3> QED BY <2>1, <2>4, <3>2 DEF Got, Same
  <2> QED BY <1>1, <2>2, <2>3, <2>4, GetLatestShape
<1>2. CASE GetCheckpoint(p)
  <2>1. CASE Same(c, d) /\ d.pc \in {"failed", "touch", "get_writes"}
    BY <1>0, <2>1, SameGot
  <2>2. CASE ~Stored(CpKey(c.req.t, c.req.ns, c.id)) /\ d = NoTuple(c)
    <3>1. d.req = c.req /\ d.id = c.id /\ d.pc = "done" /\ d.out = c.out
      BY <1>0, <2>2, AfterTupleShape DEF NoTuple
    <3>2. c.id \in Id /\ CpKey(c.req.t, c.req.ns, c.id) \in Key
      BY <1>2, GetCheckpointShape
    <3>3. <<CpKey(c.req.t, c.req.ns, c.id)>>[1] = CpKey(c.req.t, c.req.ns, c.id)
      OBVIOUS
    <3>4. <<CpKey(c.req.t, c.req.ns, c.id)>> \notin g
      BY <2>2, <3>3, FactIsStored
    <3>5. ByLatest(d) => WasStored(CpKey(c.req.t, c.req.ns, c.id))'
      BY <3>1, <3>2, WasStoredStays, NoIdAssumption DEF Got, ByLatest
    <3> QED BY <3>1, <3>2, <3>4, <3>5, NoIdAssumption DEF Got
  <2> QED BY <1>2, <2>1, <2>2, GetCheckpointShape
<1>3. CASE TouchLatest(p)
  BY <1>0, <1>3, TouchLatestShape, SameGot
<1>4. CASE GetWrites(p)
  <2> DEFINE k == WritesKey(c.req.t, c.req.ns, c.id)
  <2>1. CASE Same(c, d) /\ d.pc = "failed"
    BY <1>0, <2>1, SameGot
  <2>2. CASE d = GotTuple(c, WritesAt(k))
    <3>1. c.id \in Id /\ WritesAt(k) \in SUBSET Item
      BY <1>4, GetWritesShape
    <3>2. d.req = c.req /\ d.id = c.id /\ d.pc = "done" /\ d.out # <<>>
      BY <1>0, <2>2, <3>1, GotTupleShape
    <3>3. ByLatest(d) => WasStored(CpKey(c.req.t, c.req.ns, c.id))'
      BY <1>0, <3>1, <3>2, WasStoredStays, KeyTypes, NoIdAssumption DEF Got, ByLatest, GetReq
    <3> QED BY <3>2, <3>3 DEF Got
  <2> QED BY <1>4, <2>1, <2>2, GetWritesShape
<1>5. CASE Fail(p)
  BY <1>0, <1>5, FailShape, SameGot, TypeHalves
<1>6. call[p].req \notin ListReq
  BY DEF GetReq, ListReq
<1> QED
  BY <1>1, <1>2, <1>3, <1>4, <1>5, <1>6, StepOfRead

-----------------------------------------------------------------------------
(* The pending writes of a tuple.                                          *)

\* Each answer carries the held writes of its checkpoint.
Carry(c, h) ==
  \A i \in DOMAIN c.out :
    LET k == WritesKey(c.req.t, c.req.ns, c.out[i].id)
    IN {f \in h : f[1] = k /\ Len(f) = 2} \subseteq {<<k, w>> : w \in c.out[i].writes}

LEMMA SameCarry ==
  ASSUME NEW c, NEW d, NEW h, NEW g \in SUBSET h, Carry(c, h), d.out = c.out,
         d.req = c.req \/ d.out = <<>>
  PROVE  Carry(d, g)
BY DEF Carry

\* A write that is there is one of its record's writes.
LEMMA FactIsWrite ==
  ASSUME NEW k, NEW f \in Facts', f[1] = k, Len(f) = 2
  PROVE  \E w \in WritesAt(k)' : f = <<k, w>>
<1>1. \A x : Len(<<x>>) = 1 /\ \A y : <<x, y>>[1] = x
  OBVIOUS
<1>2. PICK x, w : f = <<x, w>> /\ w \in WritesAt(x)'
  BY <1>1 DEF Facts
<1> QED BY <1>1, <1>2

LEMMA StepCarry ==
  ASSUME TypeOK, NEW p \in Proc, call[p].req \in GetReq \cup ListReq, Step(p), ~Return(p),
         NEW h, Carry(call[p], h), NEW g \in SUBSET h, g \subseteq Facts'
  PROVE  Carry(call'[p], g)
<1> DEFINE c == call[p]
<1>0. c \in CallState
  BY DEF TypeOK
<1>1. ASSUME c.req = call'[p].req, c.out = call'[p].out PROVE Carry(call'[p], g)
  BY <1>1, SameCarry
<1>2. CASE GetLatest(p)
  BY <1>1, <1>2, GetLatestShape DEF Same
<1>3. CASE GetCheckpoint(p)
  BY <1>0, <1>1, <1>3, GetCheckpointShape, AfterTupleShape DEF Same, NoTuple
<1>4. CASE TouchLatest(p)
  BY <1>1, <1>4, TouchLatestShape DEF Same
<1>5. CASE GetWrites(p)
  <2>1. PICK k : k = WritesKey(c.req.t, c.req.ns, c.id)
    OBVIOUS
  <2>2. /\ c.id \in Id /\ WritesAt(k) \in SUBSET Item /\ WritesAt(k)' = WritesAt(k)
        /\ Same(c, call'[p]) \/ call'[p] = GotTuple(c, WritesAt(k))
    BY <1>5, <2>1, GetWritesShape
  <2>3. CASE Same(c, call'[p])
    BY <1>1, <2>3 DEF Same
  <2>4. CASE call'[p] = GotTuple(c, WritesAt(k))
    <3>1. /\ call'[p].req = c.req
          /\ \A i \in DOMAIN call'[p].out :
               \/ i \in DOMAIN c.out /\ call'[p].out[i] = c.out[i]
               \/ call'[p].out[i].id = c.id /\ call'[p].out[i].writes = WritesAt(k)
      BY <1>0, <2>2, <2>4, GotTupleShape
    <3>2. {f \in g : f[1] = k /\ Len(f) = 2} \subseteq {<<k, w>> : w \in WritesAt(k)}
      BY <2>2, FactIsWrite
    <3> SUFFICES ASSUME NEW i \in DOMAIN call'[p].out
                 PROVE  LET x == WritesKey(c.req.t, c.req.ns, call'[p].out[i].id)
                        IN {f \in g : f[1] = x /\ Len(f) = 2}
                             \subseteq {<<x, w>> : w \in call'[p].out[i].writes}
      BY <3>1 DEF Carry
    <3>3. CASE i \in DOMAIN c.out /\ call'[p].out[i] = c.out[i]
      BY <3>3 DEF Carry
    <3>4. CASE call'[p].out[i].id = c.id /\ call'[p].out[i].writes = WritesAt(k)
      BY <2>1, <3>2, <3>4
    <3> QED BY <3>1, <3>3, <3>4
  <2> QED BY <2>2, <2>3, <2>4
<1>6. CASE Fail(p)
  BY <1>1, <1>6, FailShape, TypeHalves DEF Same
<1>7. CASE Query(p)
  BY <1>1, <1>7, QueryShape DEF Same
<1>8. CASE call[p].req \in ListReq /\ Scan(p)
  BY <1>1, <1>8, ScanShape, NextItemFields
<1> QED
  BY <1>2, <1>3, <1>4, <1>5, <1>6, <1>7, <1>8, StepOfRead

-----------------------------------------------------------------------------
(* All calls together.                                                     *)

\* What a call in progress has answered so far, and what it owes.
Answering(c, h) ==
  /\ c.req \in Request
  /\ Carry(c, h)
  /\ c.req \notin GetReq \cup ListReq => c.out = <<>>
  /\ c.req \in ListReq => Listed(c, h)
  /\ c.req \in GetReq => Got(c, h)

\* The inductive invariant.
ReadInv ==
  \A p \in Proc : /\ held[p] \subseteq Facts
                  /\ IF call[p].pc = "idle" THEN call[p] = NoCall
                                            ELSE Answering(call[p], held[p])

\* The other methods yield nothing.
LEMMA OutStays ==
  ASSUME TypeOK, NEW p \in Proc, Step(p), ~Return(p), call[p].req \notin GetReq \cup ListReq
  PROVE  call'[p].out = call[p].out
<1>0. call[p] \in CallState /\ InMethod(call[p])
  BY DEF TypeOK
<1>1. CASE PutCheckpoint(p)
  <2> DEFINE c == [call[p] EXCEPT !.pc = "put_latest"]
  <2>1. Reply(p, c) /\ c.out = call[p].out
    BY <1>0, <1>1 DEF PutCheckpoint, CallState
  <2> HIDE DEF c
  <2> QED BY <2>1, ReplyShape, TypeHalves DEF Same
<1>2. CASE PutLatest(p) \/ OperateWrites(p)
  <2> DEFINE c == Done(call[p])
  <2>1. Reply(p, c) /\ c.out = call[p].out
    BY <1>0, <1>2 DEF PutLatest, OperateWrites, Done, CallState
  <2> HIDE DEF c
  <2> QED BY <2>1, ReplyShape, TypeHalves DEF Same
<1>3. CASE Query(p)
  BY <1>3, QueryShape DEF Same
<1>4. CASE Scan(p)
  <2>1. call[p].req \in DeleteReq /\ call[p].req.op # "list"
    BY <1>0, <1>4 DEF Scan, At, InMethod, DeleteReq
  <2> DEFINE doomed(keys) == [call[p] EXCEPT !.found = keys]
  <2>2. PICK keys : /\ keys \subseteq call[p].found \cup Matching(call[p].set, call[p].req.t)
                    /\ call' = [call EXCEPT ![p] = NextRemoval(doomed(keys))]
    BY <1>4, <2>1 DEF Scan
  <2>3. keys \in SUBSET Key
    BY <1>0, <2>2 DEF Matching, CallState
  <2>4. NextRemoval(doomed(keys)).out = call[p].out
    BY <1>0, <2>3 DEF NextRemoval, Done, CallState
  <2> HIDE DEF doomed
  <2> QED BY <2>2, <2>4 DEF TypeOK
<1>5. CASE RemoveRecord(p)
  <2> DEFINE rest(k) == [call[p] EXCEPT !.found = @ \ {k}]
  <2>1. PICK k : Reply(p, NextRemoval(rest(k)))
    BY <1>5 DEF RemoveRecord
  <2>2. NextRemoval(rest(k)).out = call[p].out
    BY <1>0 DEF NextRemoval, Done, CallState
  <2> HIDE DEF rest
  <2> QED BY <2>1, <2>2, ReplyShape, TypeHalves DEF Same
<1>6. CASE Fail(p)
  BY <1>6, FailShape, TypeHalves DEF Same
<1> QED
  BY <1>0, <1>1, <1>2, <1>3, <1>4, <1>5, <1>6
     DEF Step, InMethod, At, GetLatest, GetCheckpoint, TouchLatest, GetWrites

\* A call that begins has yielded nothing.
LEMMA BeginAnswering ==
  ASSUME TypeOK, NEW p \in Proc, NEW r \in Request, Begin(p, r), NEW g,
         NEW d, d = call'[p]
  PROVE  d.pc # "idle" /\ Answering(d, g)'
<1>1. call'[p] = [NoCall EXCEPT !.req = r, !.pc = FirstPc(r),
                    !.id = IF r.op = "get" THEN r.id ELSE NoId]
  BY DEF Begin, TypeOK
<1>2. /\ d.req = r /\ d.pc = FirstPc(r) /\ d.out = <<>>
      /\ d.id = IF r.op = "get" THEN r.id ELSE NoId
  BY <1>1 DEF NoCall
<1>3. Carry(d, g)
  BY <1>2 DEF Carry
<1>4. ASSUME r \in ListReq PROVE Listed(d, g)
  <2>1. d.pc = "query"
    BY <1>2, <1>4 DEF FirstPc, ListReq
  <2>2. d.req.limit # NoLimit => Len(d.out) <= d.req.limit
    BY <1>2, <1>4 DEF ListReq
  <2>3. DOMAIN d.out = {}
    BY <1>2
  <2> QED BY <1>2, <2>1, <2>2, <2>3 DEF Listed, InOrder, Reading
<1>5. ASSUME r \in GetReq PROVE Got(d, g)'
  <2>1. r.op = "get" /\ r.id \in Id \cup {NoId} /\ d.id = r.id
    BY <1>2, <1>5 DEF GetReq
  <2>2. d.pc = IF r.id = NoId THEN "get_latest" ELSE "get_cp"
    BY <1>2, <2>1 DEF FirstPc
  <2> QED BY <1>2, <2>1, <2>2 DEF Got, ByLatest
<1>6. FirstPc(r) # "idle"
  BY DEF FirstPc, Request, PutReq, WritesReq, GetReq, ListReq, DeleteReq
<1> QED
  BY <1>2, <1>3, <1>4, <1>5, <1>6 DEF Answering

\* A call at rest while others step: it holds less, and owes less.
LEMMA RestingAnswers ==
  ASSUME TypeOK, [Next]_vars, NEW p \in Proc, Answering(call[p], held[p]),
         NEW g \in SUBSET held[p], NEW d, d = call[p]
  PROVE  Answering(d, g)'
<1>1. Carry(d, g)
  BY SameCarry DEF Answering
<1>2. d.req \in ListReq => Listed(d, g)
  BY ListedLess DEF Answering
<1>3. d.req \in GetReq => Got(d, g)'
  BY RestingGot DEF Answering, TypeOK
<1> QED
  BY <1>1, <1>2, <1>3 DEF Answering

LEMMA StepAnswers ==
  ASSUME TypeOK, IndexIsExact, LatestNamesStored, Next, NEW p \in Proc, Step(p), ~Return(p),
         held[p] \subseteq Facts, Answering(call[p], held[p]),
         NEW g \in SUBSET held[p], g \subseteq Facts', NEW d, d = call'[p]
  PROVE  d.pc # "idle" /\ Answering(d, g)'
<1>1. d.req = call[p].req /\ d.pc # "idle"
  BY StepProgress DEF Progress
<1>2. Carry(d, g)
  <2>1. CASE call[p].req \in GetReq \cup ListReq
    BY <2>1, StepCarry DEF Answering
  <2>2. CASE call[p].req \notin GetReq \cup ListReq
    BY <1>1, <2>2, OutStays, SameCarry DEF Answering
  <2> QED BY <2>1, <2>2
<1>3. d.req \notin GetReq \cup ListReq => d.out = <<>>
  BY <1>1, OutStays DEF Answering
<1>4. d.req \in ListReq => Listed(d, g)
  BY <1>1, StepListed DEF Answering
<1>5. d.req \in GetReq => Got(d, g)'
  BY <1>1, StepGot DEF Answering
<1> QED
  BY <1>1, <1>2, <1>3, <1>4, <1>5 DEF Answering

LEMMA ReadInvStep ==
  TypeOK /\ IndexIsExact /\ LatestNamesStored /\ ReadInv /\ [Next]_vars => ReadInv'
<1> SUFFICES ASSUME TypeOK, IndexIsExact, LatestNamesStored, ReadInv, [Next]_vars,
                    NEW p \in Proc, NEW d, d = call'[p], NEW g, g = held'[p]
             PROVE  /\ g \subseteq Facts'
                    /\ IF d.pc = "idle" THEN d = NoCall ELSE Answering(d, g)'
  BY DEF ReadInv, Answering, Got
<1>0. d = call'[p] /\ g = held'[p]
  OBVIOUS
<1>1. CASE UNCHANGED vars
  <2>1. call' = call /\ held' = held /\ db' = db /\ erased' = erased
    BY <1>1 DEF vars
  <2>2. g \subseteq Facts'
    BY <1>0, <2>1 DEF ReadInv, Facts, WritesAt, Stored
  <2>3. d.pc # "idle" => Answering(d, g)'
    BY <1>0, <2>1, RestingAnswers DEF ReadInv
  <2> QED BY <1>0, <2>1, <2>2, <2>3 DEF ReadInv
<1>2. ASSUME Next PROVE /\ g \subseteq Facts'
                        /\ call[p].pc # "idle" => g \in SUBSET held[p]
  BY <1>0, <1>2, HeldStep
<1>3. CASE Next /\ call'[p] = call[p]
  <2>1. d.pc # "idle" => Answering(d, g)'
    BY <1>0, <1>2, <1>3, RestingAnswers DEF ReadInv
  <2> QED BY <1>0, <1>2, <1>3, <2>1 DEF ReadInv
<1>4. CASE Next /\ \E r \in Calls[p] : Begin(p, r)
  <2>1. PICK r \in Calls[p] : Begin(p, r)
    BY <1>4
  <2>2. r \in Request
    BY CallsAssumption
  <2>3. d.pc # "idle" /\ Answering(d, g)'
    BY <1>0, <2>1, <2>2, BeginAnswering
  <2> QED BY <1>2, <1>4, <2>3
<1>5. CASE Next /\ Step(p) /\ ~Return(p)
  <2>1. call[p].pc # "idle"
    BY <1>5 DEF Step, At, PutCheckpoint, PutLatest, OperateWrites, GetLatest, GetCheckpoint,
       TouchLatest, GetWrites, Query, Scan, RemoveRecord, Fail, Working, Return
  <2>2. d.pc # "idle" /\ Answering(d, g)'
    BY <1>0, <1>2, <1>5, <2>1, StepAnswers DEF ReadInv
  <2> QED BY <1>2, <1>5, <2>2
<1>6. CASE Next /\ Return(p)
  <2>1. d = NoCall /\ NoCall.pc = "idle"
    BY <1>0, <1>6 DEF Return, NoCall, TypeOK
  <2> QED BY <1>2, <1>6, <2>1
<1>7. ASSUME NEW q \in Proc, q # p, Step(q) \/ \E r \in Calls[q] : Begin(q, r)
      PROVE  call'[p] = call[p]
  BY <1>7, TypeHalves, OthersStay
<1>8. Tick => call'[p] = call[p]
  BY DEF Tick
<1> QED
  BY <1>1, <1>3, <1>4, <1>5, <1>6, <1>7, <1>8 DEF Next

LEMMA ReadInvariant == Spec => []ReadInv
<1>1. Init => ReadInv
  BY DEF Init, ReadInv, NoCall
<1>2. TypeOK /\ IndexIsExact /\ LatestNamesStored /\ ReadInv /\ [Next]_vars => ReadInv'
  BY ReadInvStep
<1> QED
  BY <1>1, <1>2, TypeCorrect, IndexExact, LatestNeverAhead, PTL DEF Spec

LEMMA OpsOfRequests ==
  \A r \in Request : (r.op = "get" => r \in GetReq) /\ (r.op = "list" => r \in ListReq)
BY DEF Request, PutReq, WritesReq, GetReq, ListReq, DeleteReq

(* list yields every checkpoint there all through the call, or the newest  *)
(* that its limit allows.                                                  *)
THEOREM ListsAreComplete == Spec => []ListIsComplete
<1>1. ReadInv => ListIsComplete
  <2> SUFFICES ASSUME ReadInv, NEW p \in Proc, call[p].pc = "done", call[p].req.op = "list",
                      NEW m \in MustList(p) \ Outs(call[p])
               PROVE  /\ call[p].req.limit # NoLimit /\ Len(call[p].out) >= call[p].req.limit
                      /\ \A g \in Outs(call[p]) : Newer(g, m)
    BY DEF ListIsComplete, At, Outs
  <2>1. Listed(call[p], held[p])
    BY OpsOfRequests DEF ReadInv, Answering
  <2>2. MustList(p) = Must(call[p].req, held[p])
    BY DEF MustList, Must, Held
  <2> QED BY <2>1, <2>2 DEF Listed
<1> QED
  BY <1>1, ReadInvariant, PTL

(* A listing in progress is newest first, within limit, filter and cursor. *)
THEOREM ListsAreInOrder == Spec => []ListInOrder
<1>1. ReadInv => ListInOrder
  <2> SUFFICES ASSUME ReadInv, NEW p \in Proc, call[p].req # NoReq, call[p].req.op = "list"
               PROVE  InOrder(call[p])
    BY DEF ListInOrder, InOrder, Follows
  <2>1. Answering(call[p], held[p])
    BY DEF ReadInv, NoCall
  <2> QED BY <2>1, OpsOfRequests DEF Answering, Listed
<1> QED
  BY <1>1, ReadInvariant, PTL

(* get_tuple answers None only when what it looked for was not there all   *)
(* through the call, or had been stored and was gone.                      *)
THEOREM NoneMeansGone == Spec => []GetNoneMeansGone
<1>1. ReadInv => GetNoneMeansGone
  <2> SUFFICES ASSUME ReadInv, NEW p \in Proc, call[p].pc = "done", call[p].req.op = "get",
                      call[p].out = <<>>
               PROVE  LET c == call[p] IN
                      IF c.id = NoId THEN <<LatestKey(c.req.t, c.req.ns)>> \notin held[p]
                      ELSE LET k == CpKey(c.req.t, c.req.ns, c.id)
                           IN <<k>> \notin held[p] /\ (ByLatest(c) => WasStored(k))
    BY DEF GetNoneMeansGone, At
  <2>1. Got(call[p], held[p])
    BY OpsOfRequests DEF ReadInv, Answering
  <2> QED BY <2>1 DEF Got
<1> QED
  BY <1>1, ReadInvariant, PTL

(* Every tuple carries the pending writes of its checkpoint that were      *)
(* there all through the call.                                             *)
THEOREM TuplesCarryWrites == Spec => []TuplesCarryHeldWrites
<1>1. ReadInv => TuplesCarryHeldWrites
  <2> SUFFICES ASSUME ReadInv, NEW p \in Proc, NEW i \in DOMAIN call[p].out
               PROVE  LET c == call[p]
                          k == WritesKey(c.req.t, c.req.ns, c.out[i].id)
                      IN {f \in held[p] : f[1] = k /\ Len(f) = 2}
                           \subseteq {<<k, w>> : w \in c.out[i].writes}
    BY DEF TuplesCarryHeldWrites
  <2>1. call[p].pc # "idle"
    BY DEF ReadInv, NoCall
  <2> QED BY <2>1 DEF ReadInv, Answering, Carry
<1> QED
  BY <1>1, ReadInvariant, PTL

-----------------------------------------------------------------------------
(* Lifetimes.                                                              *)

Fresh(k) == Stored(k) => db[k].left = Ttl

\* What is written or renewed has its whole lifetime, and nothing else changes.
LEMMA WriteIsFresh ==
  ASSUME DbTypeOK, NEW x, NEW rec, rec = Absent \/ rec.left = Ttl, db' = [db EXCEPT ![x] = rec],
         NEW k \in Key
  PROVE  db'[k] = db[k] \/ Fresh(k)'
BY DEF DbTypeOK, Fresh, Stored

LEMMA RenewalIsFresh ==
  ASSUME DbTypeOK, NEW x, db' = [db EXCEPT ![x] = Renewed(@)], NEW k \in Key
  PROVE  (x # k /\ db'[k] = db[k]) \/ Fresh(k)'
<1>1. CASE x # k
  BY <1>1 DEF DbTypeOK
<1>2. CASE x = k
  <2>1. db'[k] = Renewed(db[k])
    BY <1>2 DEF DbTypeOK
  <2>2. CASE db[k] = Absent
    BY <2>1, <2>2 DEF Renewed, Fresh, Stored
  <2>3. CASE db[k] # Absent
    <3>1. PICK rec : rec = db[k] /\ rec \in Record(k.set) /\ k.set \in {"cp", "writes", "meta"}
      BY <2>3 DEF DbTypeOK, Key
    <3>2. [rec EXCEPT !.left = Ttl].left = Ttl
      BY <3>1 DEF Record
    <3> QED BY <2>1, <2>3, <3>1, <3>2 DEF Renewed, Fresh
  <2> QED BY <2>2, <2>3
<1> QED BY <1>1, <1>2

\* So a step of a call leaves a record alone or gives it its whole lifetime.
LEMMA LifetimeStep ==
  ASSUME TypeOK, NEW q \in Proc, Step(q) \/ \E r \in Calls[q] : Begin(q, r),
         NEW k \in Key
  PROVE  db'[k] = db[k] \/ Fresh(k)'
<1> USE TypeHalves
<1>1. CASE UNCHANGED db
  BY <1>1
<1>2. ASSUME NEW t, NEW parent PROVE [thread |-> t, parent |-> parent, left |-> Ttl].left = Ttl
  OBVIOUS
<1>3. ASSUME NEW t, NEW id PROVE [thread |-> t, id |-> id, left |-> Ttl].left = Ttl
  OBVIOUS
<1>4. ASSUME NEW t, NEW ws PROVE [thread |-> t, writes |-> ws, left |-> Ttl].left = Ttl
  OBVIOUS
<1>5. CASE PutCheckpoint(q)
  BY <1>2, <1>5, WriteIsFresh DEF PutCheckpoint
<1>6. CASE PutLatest(q)
  BY <1>3, <1>6, WriteIsFresh DEF PutLatest
<1>7. CASE OperateWrites(q)
  <2>1. PICK x, t, ws : db' = [db EXCEPT ![x] = [thread |-> t, writes |-> ws, left |-> Ttl]]
    BY <1>7 DEF OperateWrites
  <2> QED BY <1>4, <2>1, WriteIsFresh
<1>8. CASE GetLatest(q) \/ GetCheckpoint(q) \/ GetWrites(q)
  <2>1. PICK x : ReadEffect(x)
    BY <1>8 DEF GetLatest, GetCheckpoint, GetWrites
  <2> QED BY <1>1, <2>1, RenewalIsFresh DEF ReadEffect
<1>9. CASE TouchLatest(q)
  BY <1>9, RenewalIsFresh DEF TouchLatest
<1>10. CASE RemoveRecord(q)
  BY <1>10, WriteIsFresh DEF RemoveRecord
<1>11. CASE Query(q) \/ Scan(q) \/ Fail(q) \/ Return(q) \/ \E r \in Calls[q] : Begin(q, r)
  BY <1>1, <1>11 DEF Query, Scan, Fail, Return, Begin
<1> QED
  BY <1>5, <1>6, <1>7, <1>8, <1>9, <1>10, <1>11 DEF Step

LEMMA FreshStays ==
  ASSUME TypeOK, NEW q \in Proc, Step(q) \/ \E r \in Calls[q] : Begin(q, r),
         NEW k \in Key, Fresh(k)
  PROVE  Fresh(k)'
<1>1. db'[k] = db[k] \/ Fresh(k)'
  BY LifetimeStep
<1> QED BY <1>1 DEF Fresh, Stored

LEMMA GetKeys ==
  ASSUME NEW r \in GetReq
  PROVE  /\ LatestKey(r.t, r.ns) \in Key
         /\ \A id \in Id : CpKey(r.t, r.ns, id) \in Key /\ WritesKey(r.t, r.ns, id) \in Key
BY KeyTypes DEF GetReq

\* Lifetimes are numbers up to Ttl.
LEMMA LeftIsNat ==
  ASSUME NEW k \in Key, NEW rec \in Record(k.set)
  PROVE  /\ rec.left \in Nat /\ rec.left <= Ttl
         /\ Ttl > 0 => rec.left >= 1
<1>1. k.set \in {"cp", "writes", "meta"}
  BY DEF Key
<1>2. rec.left \in Lifetime
  BY <1>1 DEF Record
<1> QED BY <1>2, TtlAssumption DEF Lifetime

\* Stored, with the whole lifetime to go.
Whole(k) == Stored(k) /\ Fresh(k)

\* A call in progress is one of its caller's.
Menu == \A p \in Proc : call[p].pc # "idle" => call[p].req \in Calls[p]

LEMMA MenuStep == TypeOK /\ Menu /\ [Next]_vars => Menu'
<1> SUFFICES ASSUME TypeOK, Menu, [Next]_vars, NEW p \in Proc, call'[p].pc # "idle"
             PROVE  call'[p].req \in Calls[p]
  BY DEF Menu
<1>1. ASSUME NEW r \in Calls[p], Begin(p, r) PROVE call'[p].req = r
  BY <1>1 DEF Begin, NoCall, TypeOK
<1>2. CASE Step(p) /\ Progress(p)
  <2>1. call[p].pc # "idle"
    BY <1>2 DEF Step, At, PutCheckpoint, PutLatest, OperateWrites, GetLatest, GetCheckpoint,
                TouchLatest, GetWrites, Query, Scan, RemoveRecord, Fail, Working, Return
  <2> QED BY <1>2, <2>1 DEF Progress, Menu
<1>3. call'[p] = NoCall => call'[p].pc = "idle"
  BY DEF NoCall
<1> QED BY <1>1, <1>2, <1>3, CallMove DEF Menu

\* The steps that come before the pointer is written or touched.
LEMMA PutBacks ==
  ASSUME TypeOK, NEW p \in Proc, PutCheckpoint(p), NEW d, d = call'[p], d.pc = "put_latest"
  PROVE  Whole(CpKey(d.req.t, d.req.ns, d.req.id))'
<1> DEFINE r == call[p].req
           rec == [thread |-> r.t, parent |-> r.parent, left |-> Ttl]
<1>1. r \in PutReq /\ r.id \in Id
  BY DEF PutCheckpoint, At, TypeOK, InMethod, PutReq
<1>2. d.req = r
  BY StepProgress DEF Step, PutCheckpoint, Return, At, Progress
<1>3. PICK k \in Key : k = CpKey(r.t, r.ns, r.id)
  BY <1>1, KeyTypes DEF PutReq
<1>4. CpWritten(p, k)
  BY <1>1, <1>3 DEF PutCheckpoint, CpWritten, At
<1>5. Stored(k)'
  BY <1>4, WrittenIsStored
<1>6. db'[k].left = Ttl
  BY <1>4 DEF CpWritten, TypeOK
<1>7. Whole(k)'
  BY <1>5, <1>6 DEF Whole, Fresh
<1> QED BY <1>2, <1>3, <1>7

LEMMA ReadBacks ==
  ASSUME TypeOK, NEW p \in Proc, GetCheckpoint(p), NEW c, c = call[p], NEW d, d = call'[p],
         d.pc = "touch"
  PROVE  Refresh /\ ~ByLatest(d) /\ Whole(CpKey(d.req.t, d.req.ns, d.id))'
<1> DEFINE x == CpKey(c.req.t, c.req.ns, c.id)
           got == [c EXCEPT !.parent = db[x].parent,
                     !.pc = IF ~ByLatest(c) /\ Refresh THEN "touch" ELSE "get_writes"]
           next == IF Stored(x) THEN got ELSE NoTuple(c)
<1>1. c \in CallState
  BY DEF TypeOK
<1>2. Same(c, got) /\ (got.pc = "touch" => ~ByLatest(c) /\ Refresh)
  BY <1>1 DEF CallState, Same
<1>3. NoTuple(c).pc # "touch"
  BY <1>1, AfterTupleKeeps DEF NoTuple
<1>4. Reply(p, next)
  BY DEF GetCheckpoint
<1> HIDE DEF got
<1>5. next = got \/ (~Stored(x) /\ next = NoTuple(c))
  OBVIOUS
<1>6. next = got => Same(c, next) /\ (next.pc = "touch" => ~ByLatest(c) /\ Refresh)
  BY <1>2
<1>7. Stored(x) \/ next.pc # "touch"
  BY <1>3
<1> HIDE DEF next
<1>8. d = next
  BY <1>4, ReplyShape, TypeHalves
<1>9. Same(c, d) /\ ~ByLatest(c) /\ Refresh /\ Stored(x)
  BY <1>3, <1>5, <1>6, <1>7, <1>8
<1>10. x \in Key
  BY GetCheckpointShape
<1>11. Stored(x)'
  <2>1. Kept(x)
    BY <1>10, ReadingStep
  <2> QED BY <1>9, <2>1 DEF Kept
<1>12. Fresh(x)'
  BY <1>9, <1>10, RenewalIsFresh, TypeHalves DEF GetCheckpoint, ReadEffect
<1> QED BY <1>9, <1>11, <1>12 DEF Whole, Same, ByLatest

LEMMA TouchIsARead ==
  ASSUME TypeOK, TypeOK', NEW p \in Proc, Step(p), ~Return(p), call'[p].pc = "touch"
  PROVE  GetCheckpoint(p)
<1>1. call'[p].req \in GetReq \cup ListReq
  BY DEF TypeOK, InMethod
<1>2. call[p].req \in GetReq \cup ListReq
  BY <1>1, StepProgress DEF Progress
<1>3. ~GetLatest(p) /\ ~TouchLatest(p) /\ ~Fail(p) /\ ~Query(p)
  BY GetLatestShape, TouchLatestShape, FailShape, QueryShape, TypeHalves
<1>4. ~GetWrites(p)
  <2> SUFFICES ASSUME GetWrites(p) PROVE FALSE
    OBVIOUS
  <2>1. PICK ws \in SUBSET Item : call'[p] = GotTuple(call[p], ws)
    BY GetWritesShape
  <2>2. /\ call[p] \in CallState /\ InMethod(call[p]) /\ call[p].found = {} /\ call[p].id \in Id
    BY DEF GetWrites, At, TypeOK, InMethod
  <2> QED BY <1>2, <2>1, <2>2, GotTupleKeeps
<1>5. call[p].req \in ListReq => ~Scan(p)
  <2> SUFFICES ASSUME call[p].req \in ListReq, Scan(p) PROVE FALSE
    OBVIOUS
  <2>1. PICK c \in CallState : call'[p] = NextItem(c)
    BY ScanShape
  <2> QED BY <2>1, NextItemKeeps
<1> QED BY <1>2, <1>3, <1>4, <1>5, StepOfRead

-----------------------------------------------------------------------------
(* Time during calls.                                                      *)

Acts(q) == Step(q) \/ \E r \in Calls[q] : Begin(q, r)

\* Record k, if it is there, began its lifetime n ticks ago or later, ...
Lasts(k, n) == Stored(k) => db[k].left + n >= Ttl

\* ... and it is there for the rest of it.
Lives(k, n) == n < Ttl => Stored(k) /\ db[k].left + n >= Ttl

LEMMA TimedSteps ==
  ASSUME [TimedNext]_timedVars
  PROVE  /\ [Next]_vars
         /\ \/ UNCHANGED timedVars
            \/ TimedTick
            \/ \E q \in Proc : Acts(q) /\ Watch(q)
BY DEF TimedNext, TimedTick, timedVars, Next, Acts

LEMMA TimedIsSpec == TimedSpec => Spec
<1>1. TimedInit => Init
  BY DEF TimedInit
<1>2. [TimedNext]_timedVars => [Next]_vars
  BY TimedSteps
<1> QED BY <1>1, <1>2, PTL DEF TimedSpec, Spec

LEMMA WatchTyped ==
  ASSUME TimedTypeOK, NEW q \in Proc, Watch(q)
  PROVE  TimedTypeOK'
<1>1. spent' \in [Proc -> 0 .. Longest]
  <2>1. 0 \in 0 .. Longest
    BY LongestAssumption
  <2> QED BY <2>1 DEF TimedTypeOK, Watch
<1>2. unused' \in [Thread \X Ns -> 0 .. Ttl]
  <2> DEFINE uses(s) == Working(q) /\ Uses(call[q])' /\ q \notin cut /\ SessionOf(call[q]) = s
             note(s) == IF s[1] \in Breaks(q) THEN Ttl
                        ELSE IF uses(s) /\ spent[q] < unused[s] THEN spent[q]
                        ELSE unused[s]
  <2>1. unused' = [s \in Thread \X Ns |-> note(s)]
    BY DEF Watch
  <2> HIDE DEF uses
  <2>2. ASSUME NEW s \in Thread \X Ns PROVE note(s) \in 0 .. Ttl
    <3>1. unused[s] \in 0 .. Ttl /\ spent[q] \in Nat
      BY LongestAssumption DEF TimedTypeOK
    <3> QED BY <3>1, TtlAssumption
  <2> HIDE DEF note
  <2> QED BY <2>1, <2>2
<1>3. cut' \subseteq Proc
  BY DEF Watch
<1> QED BY <1>1, <1>2, <1>3 DEF TimedTypeOK

LEMMA TickTyped ==
  ASSUME TimedTypeOK, TimedTick
  PROVE  TimedTypeOK'
<1>1. ASSUME NEW p \in Proc PROVE (IF At(p, "idle") THEN 0 ELSE spent[p] + 1) \in 0 .. Longest
  BY LongestAssumption DEF TimedTypeOK, TimedTick
<1>2. spent' \in [Proc -> 0 .. Longest]
  BY <1>1 DEF TimedTick
<1>3. ASSUME NEW s \in Thread \X Ns PROVE (IF unused[s] < Ttl THEN unused[s] + 1 ELSE Ttl) \in 0 .. Ttl
  <2>1. unused[s] \in 0 .. Ttl
    BY DEF TimedTypeOK
  <2> QED BY <2>1, TtlAssumption
<1>4. unused' \in [Thread \X Ns -> 0 .. Ttl]
  BY <1>3 DEF TimedTick
<1> QED BY <1>2, <1>4 DEF TimedTypeOK, TimedTick

LEMMA TimedTyped == TimedSpec => []TimedTypeOK
<1>1. TimedInit => TimedTypeOK
  BY LongestAssumption, TtlAssumption DEF TimedInit, TimedTypeOK
<1>2. TimedTypeOK /\ [TimedNext]_timedVars => TimedTypeOK'
  <2> SUFFICES ASSUME TimedTypeOK, [TimedNext]_timedVars PROVE TimedTypeOK'
    OBVIOUS
  <2>1. CASE UNCHANGED timedVars
    BY <2>1 DEF timedVars, TimedTypeOK
  <2> QED BY <2>1, TimedSteps, WatchTyped, TickTyped
<1> QED BY <1>1, <1>2, PTL DEF TimedSpec

\* Lifetimes are numbers.
LEMMA LeftOfStored ==
  ASSUME TypeOK, NEW k \in Key, Stored(k)
  PROVE  db[k].left \in Nat /\ (Ttl > 0 => db[k].left >= 1)
BY LeftIsNat DEF TypeOK, Stored

LEMMA LeftStaysNat ==
  ASSUME TypeOK', NEW k \in Key, Stored(k)'
  PROVE  db'[k].left \in Nat
<1>1. db'[k] \in Record(k.set)
  BY DEF TypeOK, Stored
<1> QED BY <1>1, LeftIsNat

\* Without lifetimes everything lasts.
LEMMA ForeverLasts ==
  ASSUME TypeOK', Ttl = 0, NEW k \in Key, NEW n \in Nat
  PROVE  Lasts(k, n)'
<1> SUFFICES ASSUME Stored(k)' PROVE db'[k].left + n >= 0
  BY DEF Lasts
<1> QED BY LeftStaysNat

LEMMA FreshLasts ==
  ASSUME NEW k, Fresh(k)', NEW n \in Nat
  PROVE  Lasts(k, n)'
BY TtlAssumption DEF Fresh, Lasts

LEMMA ReadLasts ==
  ASSUME RefreshOnRead, TypeOK, TypeOK', NEW k \in Key, ReadEffect(k), NEW n \in Nat
  PROVE  Lasts(k, n)'
<1>1. CASE Ttl = 0
  BY <1>1, ForeverLasts
<1>2. CASE Ttl # 0
  <2>1. Refresh
    BY <1>2, TtlAssumption DEF Refresh
  <2>2. Fresh(k)'
    BY <2>1, RenewalIsFresh, TypeHalves DEF ReadEffect
  <2> QED BY <2>2, FreshLasts
<1> QED BY <1>1, <1>2

\* A step of a call makes nothing older.
LEMMA LastsStays ==
  ASSUME TypeOK, NEW q \in Proc, Acts(q), NEW k \in Key, NEW n \in Nat, Lasts(k, n)
  PROVE  Lasts(k, n)'
<1>1. CASE Fresh(k)'
  BY <1>1, FreshLasts
<1>2. CASE db'[k] = db[k]
  BY <1>2 DEF Lasts, Stored
<1> QED BY <1>1, <1>2, LifetimeStep DEF Acts

LEMMA LivesStays ==
  ASSUME TypeOK, NEW q \in Proc, Acts(q), NEW k \in Key, k.t \notin Breaks(q),
         NEW n \in Nat, Lives(k, n)
  PROVE  Lives(k, n)'
<1> SUFFICES ASSUME n < Ttl PROVE Stored(k)' /\ db'[k].left + n >= Ttl
  BY DEF Lives
<1>1. Stored(k) /\ Lasts(k, n)
  BY DEF Lives, Lasts
<1>2. Stored(k)'
  BY <1>1 DEF Breaks
<1> QED BY <1>1, <1>2, LastsStays DEF Lasts

LEMMA LivesLonger ==
  ASSUME TypeOK, NEW k \in Key, NEW m \in Nat, NEW n \in Nat, m <= n, Lives(k, m)
  PROVE  Lives(k, n)
<1> SUFFICES ASSUME n < Ttl PROVE Stored(k) /\ db[k].left + n >= Ttl
  BY DEF Lives
<1>1. m < Ttl
  BY TtlAssumption
<1>2. Stored(k) /\ db[k].left + m >= Ttl
  BY <1>1 DEF Lives
<1> QED BY <1>2, LeftOfStored, TtlAssumption

\* A tick makes everything a tick older.
LEMMA AgedLeft ==
  ASSUME TypeOK, Tick, NEW k \in Key
  PROVE  \/ ~Stored(k)' /\ (Stored(k) => db[k].left = 1)
         \/ /\ Stored(k) /\ Stored(k)' /\ db[k].left \in Nat
            /\ db'[k].left = db[k].left - 1 /\ (k.set = "meta" => db'[k].id = db[k].id)
<1>1. db'[k] = Age(db[k])
  BY DEF Tick
<1>2. CASE db[k] = Absent \/ db[k].left = 1
  BY <1>1, <1>2 DEF Age, Stored
<1>3. CASE db[k] # Absent /\ db[k].left # 1
  <2>1. db'[k] = [db[k] EXCEPT !.left = @ - 1]
    BY <1>1, <1>3 DEF Age
  <2>2. db[k] \in Record(k.set) /\ k.set \in {"cp", "writes", "meta"}
    BY <1>3 DEF TypeOK, Key
  <2>3. db'[k].left = db[k].left - 1 /\ (k.set = "meta" => db'[k].id = db[k].id)
    BY <2>1, <2>2 DEF Record
  <2>4. Stored(k)'
    BY <1>3, <2>1, <2>2, TypeHalves, AgedType, AbsentAssumption DEF Stored, Tick
  <2> QED BY <1>3, <2>3, <2>4, LeftOfStored DEF Stored
<1> QED BY <1>2, <1>3

LEMMA TickLasts ==
  ASSUME TypeOK, Tick, NEW k \in Key, NEW n \in Nat, Lasts(k, n)
  PROVE  Lasts(k, n + 1)'
BY AgedLeft, TtlAssumption DEF Lasts

LEMMA TickLives ==
  ASSUME TypeOK, Tick, NEW k \in Key, NEW n \in Nat, Lives(k, n)
  PROVE  Lives(k, n + 1)'
<1> SUFFICES ASSUME n + 1 < Ttl PROVE Stored(k)' /\ db'[k].left + (n + 1) >= Ttl
  BY DEF Lives
<1>1. Stored(k) /\ db[k].left + n >= Ttl
  BY TtlAssumption DEF Lives
<1>2. db[k].left \in Nat
  BY <1>1, LeftOfStored
<1>3. db[k].left # 1
  BY <1>1, TtlAssumption
<1> QED BY <1>1, <1>2, <1>3, AgedLeft, TtlAssumption

-----------------------------------------------------------------------------
(* What a get has renewed on its way, n ticks after it began.              *)

Renews(c, n) ==
  LET latest == LatestKey(c.req.t, c.req.ns)
      cp     == CpKey(c.req.t, c.req.ns, c.id)
      writes == WritesKey(c.req.t, c.req.ns, c.id)
  IN /\ c.pc \in {"get_latest"} \cup Reading => c.out = <<>>
     /\ c.pc \in Reading /\ ByLatest(c) => Lasts(latest, n)
     /\ c.pc \in {"touch", "get_writes"} => c.id \in Id /\ Lasts(cp, n)
     /\ c.pc = "get_writes" => Lasts(latest, n)
     /\ c.pc = "done" /\ c.out # <<>> =>
          c.id \in Id /\ Lasts(cp, n) /\ Lasts(writes, n) /\ Lasts(latest, n)

RenewInv == \A p \in Proc : call[p].req \in GetReq => Renews(call[p], spent[p])

\* A call at rest keeps what it renewed, whatever the others do, ...
LEMMA RestingRenews ==
  ASSUME TypeOK, NEW q \in Proc, Acts(q), NEW n \in Nat,
         NEW c, c.req \in GetReq, Renews(c, n)
  PROVE  Renews(c, n)'
<1>1. LatestKey(c.req.t, c.req.ns) \in Key
  BY GetKeys
<1>2. c.id \in Id => CpKey(c.req.t, c.req.ns, c.id) \in Key /\ WritesKey(c.req.t, c.req.ns, c.id) \in Key
  BY GetKeys
<1> QED BY <1>1, <1>2, LastsStays DEF Renews, ByLatest

\* ... and it gets older with the call.
LEMMA TickRenews ==
  ASSUME TypeOK, Tick, NEW n \in Nat, NEW c, c.req \in GetReq, Renews(c, n)
  PROVE  Renews(c, n + 1)'
<1>1. LatestKey(c.req.t, c.req.ns) \in Key
  BY GetKeys
<1>2. c.id \in Id => CpKey(c.req.t, c.req.ns, c.id) \in Key /\ WritesKey(c.req.t, c.req.ns, c.id) \in Key
  BY GetKeys
<1> QED BY <1>1, <1>2, TickLasts DEF Renews, ByLatest

LEMMA StepRenews ==
  ASSUME RefreshOnRead, TypeOK, TypeOK', NEW p \in Proc, call[p].req \in GetReq, Step(p),
         ~Return(p), NEW n \in Nat, Renews(call[p], n), NEW d, d = call'[p],
         NEW c, c = call[p], NEW latest, latest = LatestKey(c.req.t, c.req.ns),
         NEW cp, cp = CpKey(c.req.t, c.req.ns, c.id),
         NEW writes, writes = WritesKey(c.req.t, c.req.ns, c.id)
  PROVE  Renews(d, n)'
<1>0. c \in CallState /\ InMethod(c) /\ latest \in Key /\ Acts(p)
  BY GetKeys DEF TypeOK, Acts
<1>1. ASSUME d.pc = "failed" PROVE Renews(d, n)'
  BY <1>1 DEF Renews, Reading
<1>2. CASE GetLatest(p)
  <2>1. Lasts(latest, n)'
    BY <1>0, <1>2, ReadLasts DEF GetLatest
  <2>2. c.pc = "get_latest" /\ c.out = <<>>
    BY <1>2, GetLatestShape DEF Renews
  <2>3. \/ d.pc \in {"get_cp", "done"} /\ d.req = c.req /\ d.out = <<>>
        \/ d.pc = "failed"
    BY <1>2, <2>2, GetLatestShape DEF Same
  <2> QED BY <1>1, <2>1, <2>3 DEF Renews, Reading
<1>3. CASE GetCheckpoint(p)
  <2>1. c.pc = "get_cp" /\ c.id \in Id /\ cp \in Key /\ c.out = <<>>
    BY <1>3, GetCheckpointShape DEF Renews, Reading
  <2>2. Lasts(cp, n)' /\ (Lasts(latest, n) => Lasts(latest, n)')
    BY <1>0, <1>3, <2>1, ReadLasts, LastsStays DEF GetCheckpoint
  <2>3. ByLatest(c) => Lasts(latest, n)'
    BY <2>1, <2>2 DEF Renews, Reading
  <2>4. CASE Same(c, d) /\ d.pc = IF ByLatest(c) \/ Ttl = 0 THEN "get_writes" ELSE "touch"
    <3>1. Ttl = 0 => Lasts(latest, n)'
      BY <1>0, ForeverLasts
    <3> QED BY <2>1, <2>2, <2>3, <2>4, <3>1 DEF Renews, Reading, Same, ByLatest
  <2>5. CASE d = NoTuple(c)
    <3>1. d.pc = "done" /\ d.out = <<>>
      BY <1>0, <2>1, <2>5, AfterTupleShape DEF NoTuple
    <3> QED BY <3>1 DEF Renews, Reading
  <2>6. \/ d.pc = "failed" \/ d = NoTuple(c)
        \/ Same(c, d) /\ d.pc = IF ByLatest(c) \/ Ttl = 0 THEN "get_writes" ELSE "touch"
    <3> DEFINE got == [c EXCEPT !.parent = db[cp].parent,
                         !.pc = IF ~ByLatest(c) /\ Refresh THEN "touch" ELSE "get_writes"]
               next == IF Stored(cp) THEN got ELSE NoTuple(c)
    <3>0. Refresh <=> Ttl # 0
      BY <1>0, TtlAssumption DEF Refresh
    <3>1. Same(c, got) /\ got.pc = IF ByLatest(c) \/ Ttl = 0 THEN "get_writes" ELSE "touch"
      BY <1>0, <3>0 DEF CallState, Same
    <3>2. Reply(p, next)
      BY <1>3 DEF GetCheckpoint
    <3> HIDE DEF got
    <3>3. next = got \/ next = NoTuple(c)
      OBVIOUS
    <3> HIDE DEF next
    <3>4. d = next \/ d.pc = "failed"
      BY <3>2, ReplyShape, TypeHalves
    <3> QED BY <3>1, <3>3, <3>4
  <2> QED BY <1>1, <2>4, <2>5, <2>6
<1>4. CASE TouchLatest(p)
  <2>1. Lasts(latest, n)'
    <3>1. Fresh(latest)'
      BY <1>0, <1>4, RenewalIsFresh, TypeHalves DEF TouchLatest
    <3> QED BY <3>1, FreshLasts
  <2>2. c.pc = "touch" /\ Same(c, d) /\ d.pc \in {"get_writes", "failed"}
    BY <1>4, TouchLatestShape
  <2>3. c.out = <<>> /\ c.id \in Id /\ Lasts(cp, n)
    BY <2>2 DEF Renews, Reading
  <2>4. Lasts(cp, n)'
    BY <1>0, <2>3, GetKeys, LastsStays
  <2> QED BY <1>1, <2>1, <2>2, <2>3, <2>4 DEF Renews, Same
<1>5. CASE GetWrites(p)
  <2>1. c.pc = "get_writes" /\ c.id \in Id /\ writes \in Key /\ cp \in Key
    BY <1>5, GetWritesShape, GetKeys
  <2>2. Lasts(writes, n)'
    BY <1>0, <1>5, <2>1, ReadLasts DEF GetWrites
  <2>3. Lasts(cp, n)' /\ Lasts(latest, n)'
    BY <1>0, <2>1, LastsStays DEF Renews
  <2>4. CASE d = GotTuple(c, WritesAt(writes))
    <3>1. PICK ws : ws = WritesAt(writes) /\ ws \in SUBSET Item
      BY <1>5, GetWritesShape
    <3>2. d = GotTuple(c, ws)
      BY <2>4, <3>1, Zenon
    <3>3. d.req = c.req /\ d.id = c.id /\ d.pc = "done"
      <4>1. c \in CallState /\ c.req \in GetReq /\ c.id \in Id
        BY <1>0, <2>1
      <4>2. GotTuple(c, ws).req = c.req /\ GotTuple(c, ws).id = c.id /\ GotTuple(c, ws).pc = "done"
        BY ONLY <3>1, <4>1, GotTupleShape
      <4> QED BY ONLY <3>2, <4>2, Zenon
    <3> QED BY <2>1, <2>2, <2>3, <3>3 DEF Renews, Reading
  <2> QED BY <1>1, <1>5, <2>4, GetWritesShape
<1>6. CASE Fail(p)
  BY <1>1, <1>6, FailShape, TypeHalves
<1>7. call[p].req \notin ListReq
  BY DEF GetReq, ListReq
<1> QED
  BY <1>2, <1>3, <1>4, <1>5, <1>6, <1>7, StepOfRead

\* The clock of a call runs while the call does.
LEMMA ClockOfActor ==
  ASSUME TimedTypeOK, NEW q \in Proc, Watch(q), NEW p \in Proc
  PROVE  /\ spent[p] \in Nat /\ spent[p] <= Longest
         /\ p # q \/ call'[p].pc # "idle" => spent'[p] = spent[p]
BY LongestAssumption DEF TimedTypeOK, Watch, At

LEMMA ClockOfTick ==
  ASSUME TimedTypeOK, TimedTick, NEW p \in Proc
  PROVE  /\ spent[p] \in Nat /\ spent[p] <= Longest
         /\ call'[p].pc # "idle" => call'[p] = call[p] /\ spent'[p] = spent[p] + 1
BY LongestAssumption DEF TimedTypeOK, TimedTick, Tick, At

LEMMA RenewInvStep ==
  ASSUME RefreshOnRead, TypeOK, TypeOK', TimedTypeOK, RenewInv, [TimedNext]_timedVars
  PROVE  RenewInv'
<1> SUFFICES ASSUME NEW p \in Proc, NEW d, d = call'[p], NEW n, n = spent'[p], d.req \in GetReq
             PROVE  Renews(d, n)'
  BY DEF RenewInv, Renews, ByLatest, Lasts, Stored
<1>1. CASE d.pc \in {"idle", "failed"}
  BY <1>1 DEF Renews, Reading
<1>2. CASE UNCHANGED timedVars
  <2>1. Renews(d, n) /\ db' = db
    BY <1>2 DEF vars, timedVars, RenewInv
  <2> QED BY <2>1 DEF Renews, Lasts, Stored
<1>3. CASE TimedTick /\ d.pc # "idle"
  <2>1. d = call[p] /\ n = spent[p] + 1 /\ spent[p] \in Nat /\ Tick
    BY <1>3, ClockOfTick DEF TimedTick
  <2>2. Renews(d, spent[p])
    BY <2>1 DEF RenewInv
  <2> QED BY <2>1, <2>2, TickRenews
<1>4. ASSUME NEW q \in Proc, q # p, Acts(q), Watch(q) PROVE Renews(d, n)'
  <2>1. d = call[p] /\ n = spent[p] /\ n \in Nat
    BY <1>4, OthersStay, TypeHalves, ClockOfActor DEF Acts
  <2> QED BY <1>4, <2>1, RestingRenews DEF RenewInv
<1>5. ASSUME NEW r \in Calls[p], Begin(p, r) PROVE Renews(d, n)'
  <2>1. d.req = r /\ d.pc = FirstPc(r) /\ d.out = <<>>
    BY <1>5 DEF Begin, NoCall, TypeOK
  <2>2. d.pc = IF r.id = NoId THEN "get_latest" ELSE "get_cp"
    BY <2>1 DEF FirstPc, GetReq
  <2> QED BY <2>1, <2>2 DEF Renews, Reading, ByLatest
<1>6. CASE Step(p) /\ ~Return(p) /\ Watch(p) /\ d.pc # "idle"
  <2>1. d.req = call[p].req
    BY <1>6, StepProgress DEF Progress
  <2>2. n = spent[p] /\ n \in Nat
    BY <1>6, ClockOfActor
  <2> QED BY <1>6, <2>1, <2>2, StepRenews DEF RenewInv
<1>7. CASE Return(p)
  BY <1>1, <1>7 DEF Return, NoCall, TypeOK
<1> QED
  BY <1>1, <1>2, <1>3, <1>4, <1>5, <1>6, <1>7, TimedSteps DEF Acts

(* If reads refresh, a get that finds a checkpoint has renewed the whole   *)
(* session, by whichever way it looked and whatever ran beside it: no      *)
(* record of it is more than the call's duration into its lifetime.        *)
THEOREM ReadsRenewAll == RefreshOnRead => (TimedSpec => []ReadRenews)
<1> SUFFICES ASSUME RefreshOnRead PROVE TimedSpec => []ReadRenews
  OBVIOUS
<1>1. ReadInv /\ RenewInv => ReadRenews
  <2> SUFFICES ASSUME ReadInv, RenewInv, NEW p \in Proc, call[p].pc = "done",
                      call[p].req.op = "get", call[p].out # <<>>, NEW c, c = call[p],
                      NEW k \in {CpKey(c.req.t, c.req.ns, c.id), WritesKey(c.req.t, c.req.ns, c.id),
                                 LatestKey(c.req.t, c.req.ns)}
               PROVE  Stored(k) => db[k].left + spent[p] >= Ttl
    BY DEF ReadRenews, At
  <2>1. c.req \in GetReq
    BY OpsOfRequests DEF ReadInv, Answering
  <2> QED BY <2>1 DEF RenewInv, Renews, Lasts
<1>2. TimedInit => RenewInv
  BY DEF TimedInit, Init, RenewInv, Renews, Reading, NoCall
<1>3. TypeOK /\ TypeOK' /\ TimedTypeOK /\ RenewInv /\ [TimedNext]_timedVars => RenewInv'
  BY RenewInvStep
<1> QED
  BY <1>1, <1>2, <1>3, TypeCorrect, ReadInvariant, TimedIsSpec, TimedTyped, PTL DEF TimedSpec

-----------------------------------------------------------------------------
(* Sessions in use.                                                        *)

\* The pointer began its lifetime at most n ticks ago; and the checkpoint it
\* names, unless it is j, at most a call earlier.
Backs(t, ns, n, j) ==
  LET k == LatestKey(t, ns)
  IN /\ Lives(k, n)
     /\ \A i \in Id : Stored(k) /\ db[k].id = i /\ i # j => Lives(CpKey(t, ns, i), n + Longest)

\* A call n ticks old, of a thread that has lost nothing since it began: a put
\* has stored its checkpoint, a read of the latest has renewed what it has read.
Carried(c, n) ==
  /\ c.pc = "put_latest" => Lives(CpKey(c.req.t, c.req.ns, c.req.id), n)
  /\ c.pc = "touch" => ~ByLatest(c)
  /\ ByLatest(c) /\ c.pc \in {"get_latest", "get_cp", "get_writes"} => c.out = <<>>
  /\ Refresh /\ ByLatest(c) =>
       /\ c.pc = "get_cp" => Backs(c.req.t, c.req.ns, n, c.id)
       /\ c.pc = "get_writes" => Backs(c.req.t, c.req.ns, n, NoId)

SessionInv ==
  /\ \A t \in Thread, ns \in Ns, n \in Nat : n = unused[<<t, ns>>] => Backs(t, ns, n, NoId)
  /\ \A p \in Proc : call[p].pc # "idle" /\ p \notin cut => Carried(call[p], spent[p])

\* A step leaves the name in a pointer alone, unless it is its call's to write.
LEMMA NamedByActor ==
  ASSUME TypeOK, NEW q \in Proc, Acts(q), NEW k \in Key, k.set = "meta", Stored(k)'
  PROVE  \/ Stored(k) /\ db'[k].id = db[k].id
         \/ /\ PutLatest(q) /\ call[q].req \in PutReq /\ call[q].req.id \in Id
            /\ k = LatestKey(call[q].req.t, call[q].req.ns) /\ db'[k].id = call[q].req.id
<1> DEFINE r == call[q].req
<1>1. CASE Kept(k) \/ Removed(q, k)
  BY <1>1 DEF Kept, SameBins, Removed
<1>2. CASE PutLatest(q)
  <2>1. call[q].pc = "put_latest" /\ r \in PutReq /\ r.id \in Id
    BY <1>2 DEF PutLatest, At, TypeOK, InMethod, PutReq
  <2>2. CASE k = LatestKey(r.t, r.ns)
    <3>1. db'[k] = [thread |-> r.t, id |-> r.id, left |-> Ttl]
      BY <1>2, <2>2, TypeHalves DEF PutLatest, DbTypeOK
    <3> QED BY <1>2, <2>1, <2>2, <3>1
  <2>3. CASE k # LatestKey(r.t, r.ns)
    BY <1>1, <1>2, <2>3, TypeHalves DEF PutLatest, DbTypeOK, Kept, SameBins, Stored
  <2> QED BY <2>2, <2>3
<1>3. CASE PutCheckpoint(q) \/ OperateWrites(q)
  <2>1. call[q].pc # "put_latest"
    BY <1>3 DEF PutCheckpoint, OperateWrites, At
  <2>2. ~CpWritten(q, k) /\ ~WritesUpserted(q, k) /\ ~PointerWritten(q, k)
    BY <2>1 DEF CpWritten, WritesUpserted, PointerWritten, CpKey, WritesKey
  <2> QED BY <1>1, <1>3, <2>2, WritingStep
<1>4. CASE UNCHANGED db
  BY <1>1, <1>4 DEF Kept, SameBins, Stored
<1>5. Query(q) \/ Scan(q) \/ Fail(q) \/ Return(q) \/ (\E x \in Calls[q] : Begin(q, x)) => UNCHANGED db
  BY DEF Query, Scan, Fail, Return, Begin
<1> QED
  BY <1>1, <1>2, <1>3, <1>4, <1>5, ReadingStep, RemovingStep DEF Acts, Step

\* No step takes from a session what a thread that loses nothing has; a put
\* moves its pointer to the checkpoint that the put has stored.
LEMMA BacksStay ==
  ASSUME TypeOK, NEW q \in Proc, Acts(q), NEW t \in Thread, NEW ns \in Ns, t \notin Breaks(q),
         NEW m \in Nat, m <= Longest, q \notin cut /\ call[q].pc # "idle" => Carried(call[q], m),
         NEW n \in Nat, NEW j, Backs(t, ns, n, j)
  PROVE  Backs(t, ns, n, j)'
<1>1. PICK k \in Key : k = LatestKey(t, ns) /\ k.set = "meta" /\ k.t = t
  BY KeyTypes DEF LatestKey
<1>2. Lives(k, n)'
  BY <1>1, LivesStays DEF Backs
<1>3. ASSUME NEW i \in Id, Stored(k)', db'[k].id = i, i # j
      PROVE  Lives(CpKey(t, ns, i), n + Longest)'
  <2>1. PICK x \in Key : x = CpKey(t, ns, i) /\ x.t = t
    BY KeyTypes DEF CpKey
  <2>2. PICK l \in Nat : l = n + Longest
    BY LongestAssumption
  <2>3. CASE Stored(k) /\ db'[k].id = db[k].id
    BY <1>1, <1>3, <2>1, <2>2, <2>3, LivesStays DEF Backs
  <2>4. ASSUME PutLatest(q), k = LatestKey(call[q].req.t, call[q].req.ns), i = call[q].req.id
        PROVE  Lives(x, l)'
    <3>1. call[q].req.t = t /\ call[q].req.ns = ns
      BY <1>1, <2>4 DEF LatestKey
    <3>2. call[q].pc = "put_latest" /\ q \notin cut
      BY <2>4, <3>1 DEF PutLatest, At, Breaks
    <3>3. Lives(x, m)
      BY <2>1, <2>4, <3>1, <3>2 DEF Carried
    <3>4. m <= l
      BY <2>2, LongestAssumption
    <3>5. Lives(x, l)
      BY <3>3, <3>4, LivesLonger
    <3> QED BY <2>1, <3>5, LivesStays
  <2> QED BY <1>1, <1>3, <2>1, <2>2, <2>3, <2>4, NamedByActor
<1> QED BY <1>1, <1>2, <1>3 DEF Backs

LEMMA TickBacks ==
  ASSUME TypeOK, Tick, NEW t \in Thread, NEW ns \in Ns, NEW n \in Nat, NEW j, Backs(t, ns, n, j)
  PROVE  Backs(t, ns, n + 1, j)'
<1>1. PICK k \in Key : k = LatestKey(t, ns) /\ k.set = "meta"
  BY KeyTypes
<1>2. Lives(k, n + 1)'
  BY <1>1, TickLives DEF Backs
<1>3. ASSUME NEW i \in Id, Stored(k)', db'[k].id = i, i # j
      PROVE  Lives(CpKey(t, ns, i), (n + 1) + Longest)'
  <2>1. PICK x \in Key : x = CpKey(t, ns, i)
    BY KeyTypes
  <2>2. PICK l \in Nat : l = n + Longest /\ (n + 1) + Longest = l + 1
    BY LongestAssumption
  <2>3. Stored(k) /\ db[k].id = i
    BY <1>1, <1>3, AgedLeft
  <2>4. Lives(x, l)
    BY <1>1, <1>3, <2>1, <2>2, <2>3 DEF Backs
  <2>5. Lives(x, l + 1)'
    BY <2>4, TickLives
  <2> QED BY <2>1, <2>2, <2>5
<1> QED BY <1>1, <1>2, <1>3 DEF Backs

\* Nothing is claimed of a session once a lifetime has passed.
LEMMA BacksLapse ==
  ASSUME NEW t, NEW ns, NEW j
  PROVE  Backs(t, ns, Ttl, j)
BY TtlAssumption, LongestAssumption DEF Backs, Lives

\* What is there with its whole lifetime to go is there for the rest of it.
LEMMA WholeLives ==
  ASSUME NEW k, Whole(k)', NEW n \in Nat
  PROVE  Lives(k, n)'
BY TtlAssumption DEF Whole, Fresh, Lives

\* A read that renews.
LEMMA ReadIsWhole ==
  ASSUME TypeOK, NEW q \in Proc, GetLatest(q) \/ GetCheckpoint(q) \/ GetWrites(q),
         Refresh, NEW k \in Key, ReadEffect(k), Stored(k)
  PROVE  Whole(k)'
<1>1. Stored(k)'
  BY ReadingStep DEF Kept
<1>2. Fresh(k)'
  BY RenewalIsFresh, TypeHalves DEF ReadEffect
<1> QED BY <1>1, <1>2 DEF Whole

\* A call at rest carries what it carried, unless its thread loses a record, ...
LEMMA RestingCarries ==
  ASSUME TypeOK, NEW q \in Proc, Acts(q), NEW m \in Nat, m <= Longest,
         q \notin cut /\ call[q].pc # "idle" => Carried(call[q], m),
         NEW p \in Proc, NEW c, c = call[p], c.pc # "idle", c.req.t \notin Breaks(q),
         NEW n \in Nat, Carried(c, n)
  PROVE  Carried(c, n)'
<1>1. InMethod(c)
  BY DEF TypeOK
<1>2. ASSUME c.pc = "put_latest" PROVE Lives(CpKey(c.req.t, c.req.ns, c.req.id), n)'
  <2>1. c.req \in PutReq /\ c.req.id \in Id
    BY <1>1, <1>2 DEF InMethod, PutReq
  <2>2. PICK x \in Key : x = CpKey(c.req.t, c.req.ns, c.req.id)
    BY <2>1, KeyTypes DEF PutReq
  <2>3. x.t = c.req.t
    BY <2>2 DEF CpKey
  <2> QED BY <1>2, <2>2, <2>3, LivesStays DEF Carried
<1>3. ASSUME Refresh, ByLatest(c), c.pc \in {"get_cp", "get_writes"}, NEW j,
             Backs(c.req.t, c.req.ns, n, j)
      PROVE  Backs(c.req.t, c.req.ns, n, j)'
  <2>1. c.req \in GetReq
    BY <1>1, <1>3 DEF InMethod, ByLatest, ListReq
  <2>2. PICK t \in Thread, ns \in Ns : t = c.req.t /\ ns = c.req.ns
    BY <2>1 DEF GetReq
  <2> QED BY <1>3, <2>2, BacksStay
<1> QED BY <1>2, <1>3 DEF Carried, ByLatest

\* ... and gets older.
LEMMA TickCarries ==
  ASSUME TypeOK, Tick, NEW p \in Proc, NEW c, c = call[p], NEW n \in Nat, Carried(c, n)
  PROVE  Carried(c, n + 1)'
<1>1. InMethod(c)
  BY DEF TypeOK
<1>2. ASSUME c.pc = "put_latest" PROVE Lives(CpKey(c.req.t, c.req.ns, c.req.id), n + 1)'
  <2>1. c.req \in PutReq /\ c.req.id \in Id
    BY <1>1, <1>2 DEF InMethod, PutReq
  <2>2. PICK x \in Key : x = CpKey(c.req.t, c.req.ns, c.req.id)
    BY <2>1, KeyTypes DEF PutReq
  <2> QED BY <1>2, <2>2, TickLives DEF Carried
<1>3. ASSUME Refresh, ByLatest(c), c.pc \in {"get_cp", "get_writes"}, NEW j,
             Backs(c.req.t, c.req.ns, n, j)
      PROVE  Backs(c.req.t, c.req.ns, n + 1, j)'
  <2>1. c.req \in GetReq
    BY <1>1, <1>3 DEF InMethod, ByLatest, ListReq
  <2>2. PICK t \in Thread, ns \in Ns : t = c.req.t /\ ns = c.req.ns
    BY <2>1 DEF GetReq
  <2> QED BY <1>3, <2>2, TickBacks
<1> QED BY <1>2, <1>3 DEF Carried, ByLatest

\* Each method comes to a request by the one before it.
LEMMA RequestBefore ==
  ASSUME TypeOK, TypeOK', NEW p \in Proc, Step(p), ~Return(p), NEW d, d = call'[p]
  PROVE  /\ d.pc = "put_latest" => PutCheckpoint(p)
         /\ d.pc = "touch" => GetCheckpoint(p)
         /\ d.pc = "get_cp" /\ ByLatest(d) => GetLatest(p)
         /\ d.pc = "get_writes" => GetCheckpoint(p) \/ TouchLatest(p)
<1>1. d.req = call[p].req /\ InMethod(d) /\ call[p] \in CallState
  BY StepProgress DEF Progress, TypeOK
<1>2. d.pc = "put_latest" => PutCheckpoint(p)
  <2>1. d.pc = "put_latest" => call[p].pc = "put_cp" \/ call[p].req \in GetReq \cup ListReq \cup DeleteReq
    BY StepProgress DEF Progress
  <2>2. d.pc = "put_latest" => d.req \notin GetReq \cup ListReq \cup DeleteReq
    BY <1>1 DEF InMethod, PutReq, GetReq, ListReq, DeleteReq
  <2>3. d.pc = "put_latest" => ~Fail(p)
    BY FailShape, TypeHalves
  <2> QED
    BY <1>1, <2>1, <2>2, <2>3 DEF Step, At, PutLatest, OperateWrites, GetLatest, GetCheckpoint,
       TouchLatest, GetWrites, Query, Scan, RemoveRecord
<1>3. ASSUME d.pc = "get_cp", ByLatest(d) PROVE GetLatest(p)
  <2>1. d.req \in GetReq /\ d.req \notin ListReq
    BY <1>1, <1>3, OpsOfRequests DEF InMethod, ByLatest, ListReq
  <2>2. ~TouchLatest(p) /\ ~Fail(p)
    BY <1>3, TouchLatestShape, FailShape, TypeHalves
  <2>3. ~GetWrites(p)
    <3> SUFFICES ASSUME GetWrites(p) PROVE FALSE
      OBVIOUS
    <3>1. PICK ws \in SUBSET Item : d = GotTuple(call[p], ws)
      BY <1>3, GetWritesShape
    <3>2. call[p].id \in Id
      BY GetWritesShape
    <3> QED BY <1>1, <1>3, <2>1, <3>1, <3>2, GotTupleShape
  <2>4. ~GetCheckpoint(p)
    <3> SUFFICES ASSUME GetCheckpoint(p) PROVE FALSE
      OBVIOUS
    <3>1. d = NoTuple(call[p])
      BY <1>3, GetCheckpointShape
    <3> QED BY <1>1, <1>3, <2>1, <3>1, AfterTupleShape DEF NoTuple
  <2> QED BY <1>1, <2>1, <2>2, <2>3, <2>4, StepOfRead
<1>4. ASSUME d.pc = "get_writes" PROVE GetCheckpoint(p) \/ TouchLatest(p)
  <2>1. call[p].req \in GetReq \cup ListReq
    BY <1>1, <1>4 DEF InMethod
  <2>2. ~GetLatest(p) /\ ~Fail(p) /\ ~Query(p)
    BY <1>4, GetLatestShape, FailShape, QueryShape, TypeHalves
  <2>3. ~GetWrites(p)
    <3> SUFFICES ASSUME GetWrites(p) PROVE FALSE
      OBVIOUS
    <3>1. PICK ws \in SUBSET Item : d = GotTuple(call[p], ws)
      BY <1>4, GetWritesShape
    <3>2. InMethod(call[p]) /\ call[p].found = {} /\ call[p].id \in Id
      BY DEF GetWrites, At, TypeOK, InMethod
    <3> QED BY <1>1, <1>4, <2>1, <3>1, <3>2, GotTupleKeeps
  <2>4. call[p].req \in ListReq => ~Scan(p)
    <3> SUFFICES ASSUME call[p].req \in ListReq, Scan(p) PROVE FALSE
      OBVIOUS
    <3>1. PICK c \in CallState : d = NextItem(c)
      BY ScanShape
    <3> QED BY <1>4, <3>1, NextItemKeeps
  <2> QED BY <2>1, <2>2, <2>3, <2>4, StepOfRead
<1> QED BY <1>2, <1>3, <1>4, TouchIsARead

LEMMA StepCarries ==
  ASSUME TypeOK, TypeOK', NEW p \in Proc, Step(p), ~Return(p), p \notin cut,
         NEW c, c = call[p], c.req.t \notin Breaks(p), NEW n \in Nat, n <= Longest, Carried(c, n),
         NEW d, d = call'[p]
  PROVE  Carried(d, n)'
<1>1. d.req = c.req /\ InMethod(c) /\ InMethod(d) /\ Acts(p)
  BY StepProgress DEF Progress, TypeOK, Acts
<1>2. ASSUME d.pc = "put_latest" PROVE Lives(CpKey(d.req.t, d.req.ns, d.req.id), n)'
  BY <1>2, RequestBefore, PutBacks, WholeLives
<1>3. d.pc = "touch" => ~ByLatest(d)
  BY RequestBefore, ReadBacks
<1>4. ASSUME ByLatest(d), d.pc \in {"get_latest", "get_cp", "get_writes"}
      PROVE  /\ d.out = <<>>
             /\ d.pc = "get_cp" => GetLatest(p)
             /\ d.pc = "get_writes" => GetCheckpoint(p) /\ Same(c, d)
  <2>1. ByLatest(c) /\ c.req \in GetReq
    BY <1>1, <1>4 DEF ByLatest, InMethod, ListReq
  <2>2. d.pc # "get_latest"
    BY <1>4, <2>1, StepProgress DEF Progress, GetReq, PutReq, WritesReq, DeleteReq
  <2>3. CASE d.pc = "get_cp"
    <3>1. GetLatest(p)
      BY <1>4, <2>3, RequestBefore
    <3>2. c.pc = "get_latest" /\ d.out = c.out
      BY <2>3, <3>1, GetLatestShape
    <3> QED BY <2>1, <2>3, <3>1, <3>2 DEF Carried
  <2>4. CASE d.pc = "get_writes"
    <3>1. ~TouchLatest(p)
      BY <2>1, TouchLatestShape DEF Carried
    <3>2. GetCheckpoint(p)
      BY <2>4, <3>1, RequestBefore
    <3>3. c.pc = "get_cp" /\ c.id \in Id
      BY <3>2, GetCheckpointShape
    <3>4. Same(c, d)
      <4>1. c \in CallState
        BY DEF TypeOK
      <4>2. d # NoTuple(c)
        BY <2>1, <2>4, <4>1, AfterTupleShape DEF NoTuple
      <4> QED BY <3>2, <4>2, GetCheckpointShape
    <3> QED BY <2>1, <2>4, <3>2, <3>3, <3>4 DEF Carried, Same
  <2> QED BY <1>4, <2>2, <2>3, <2>4
<1>5. ASSUME Refresh, ByLatest(d), d.pc \in {"get_cp", "get_writes"}
      PROVE  /\ d.pc = "get_cp" => Backs(d.req.t, d.req.ns, n, d.id)'
             /\ d.pc = "get_writes" => Backs(d.req.t, d.req.ns, n, NoId)'
  <2>1. ByLatest(c) /\ c.req \in GetReq
    BY <1>1, <1>5 DEF ByLatest, InMethod, ListReq
  <2>2. PICK t \in Thread, ns \in Ns : t = c.req.t /\ ns = c.req.ns
    BY <2>1 DEF GetReq
  <2>3. PICK k \in Key : k = LatestKey(t, ns) /\ k.set = "meta"
    BY KeyTypes
  <2>4. ASSUME d.pc = "get_cp" PROVE Backs(t, ns, n, d.id)'
    <3>1. GetLatest(p)
      BY <1>4, <1>5, <2>4
    <3>2. Stored(k) /\ d.id = db[k].id /\ ReadEffect(k)
      BY <2>2, <2>3, <2>4, <3>1, GetLatestShape DEF GetLatest
    <3>3. Lives(k, n)'
      BY <1>5, <3>1, <3>2, ReadIsWhole, WholeLives
    <3>4. db'[k].id = d.id
      BY <2>3, <3>1, <3>2, ReadingStep DEF Kept, SameBins
    <3> QED BY <2>3, <3>3, <3>4 DEF Backs
  <2>5. ASSUME d.pc = "get_writes" PROVE Backs(t, ns, n, NoId)'
    <3>1. GetCheckpoint(p) /\ Same(c, d)
      BY <1>4, <1>5, <2>5
    <3>2. PICK x \in Key : x = CpKey(t, ns, c.id)
      BY <2>2, <3>1, GetCheckpointShape, KeyTypes
    <3>3. c.pc = "get_cp" /\ Stored(x) /\ ReadEffect(x)
      <4>1. c \in CallState
        BY DEF TypeOK
      <4>2. d # NoTuple(c)
        BY <2>1, <2>5, <4>1, AfterTupleShape DEF NoTuple
      <4> QED BY <2>2, <2>5, <3>1, <3>2, <4>2, GetCheckpointShape DEF GetCheckpoint
    <3>4. Backs(t, ns, n, c.id)
      BY <1>5, <2>1, <2>2, <3>3 DEF Carried
    <3>5. Backs(t, ns, n, c.id)'
      BY <1>1, <2>2, <3>4, BacksStay
    <3>6. ASSUME NEW l \in Nat PROVE Lives(x, l)'
      BY <1>5, <3>1, <3>3, ReadIsWhole, WholeLives
    <3>7. PICK l \in Nat : l = n + Longest
      BY LongestAssumption
    <3>8. Lives(x, l)'
      BY <3>6
    <3> QED BY <3>2, <3>5, <3>7, <3>8 DEF Backs
  <2> QED BY <1>1, <2>2, <2>4, <2>5
<1> QED BY <1>2, <1>3, <1>4, <1>5 DEF Carried, ByLatest

\* A use leaves the session behind it that the call has carried.
LEMMA UseBacks ==
  ASSUME TypeOK, TypeOK', NEW q \in Proc, Acts(q), Working(q), Uses(call[q])', q \notin cut,
         NEW t \in Thread, NEW ns \in Ns, SessionOf(call[q]) = <<t, ns>>, t \notin Breaks(q),
         NEW n \in Nat, n <= Longest, Carried(call[q], n)
  PROVE  Backs(t, ns, n, NoId)'
<1> DEFINE c == call[q]
           d == call'[q]
<1>0. c.req.t = t /\ c.req.ns = ns /\ c.pc \notin {"idle", "done", "failed"} /\ d.pc = "done"
  BY DEF SessionOf, Working, Uses
<1>1. Step(q) /\ ~Return(q)
  BY <1>0 DEF Acts, Return, Begin, At
<1>2. d.req = c.req /\ InMethod(c) /\ c \in CallState
  BY <1>1, StepProgress DEF Progress, TypeOK
<1>3. ASSUME c.req.op = "put" PROVE Backs(t, ns, n, NoId)'
  <2>1. c.pc \notin {"operate", "get_latest", "get_cp", "touch", "get_writes", "query", "scan", "remove"}
    BY <1>2, <1>3 DEF InMethod, WritesReq, GetReq, ListReq, DeleteReq
  <2>2. PutLatest(q) /\ c.pc = "put_latest"
    <3>1. ~PutCheckpoint(q)
      <4>1. PutCheckpoint(q) => d.pc \in {"put_latest", "failed"}
        BY <1>2 DEF PutCheckpoint, Reply, CallState, TypeOK
      <4> QED BY <1>0, <4>1
    <3>2. ~Fail(q)
      BY <1>0, FailShape, TypeHalves
    <3> QED
      BY <1>1, <2>1, <3>1, <3>2 DEF Step, At, PutLatest, OperateWrites, GetLatest, GetCheckpoint,
         TouchLatest, GetWrites, Query, Scan, RemoveRecord
  <2>3. c.req \in PutReq /\ c.req.id \in Id
    BY <1>2, <2>2 DEF InMethod, PutReq
  <2>4. PICK k \in Key : k = LatestKey(t, ns) /\ k.set = "meta"
    BY KeyTypes
  <2>5. PICK x \in Key : x = CpKey(t, ns, c.req.id) /\ x.t = t
    BY <2>3, KeyTypes DEF CpKey
  <2>6. db'[k] = [thread |-> t, id |-> c.req.id, left |-> Ttl]
    BY <1>0, <2>2, <2>4, TypeHalves DEF PutLatest, DbTypeOK
  <2>7. Stored(k)'
    <3>1. PointerWritten(q, k)
      BY <1>0, <2>2, <2>3, <2>4 DEF PutLatest, PointerWritten
    <3> QED BY <3>1, WrittenIsStored
  <2>8. Lives(k, n)'
    BY <2>6, <2>7, WholeLives DEF Whole, Fresh
  <2>9. PICK l \in Nat : l = n + Longest /\ n <= l
    BY LongestAssumption
  <2>10. Lives(x, l)'
    <3>1. Lives(x, n)
      BY <1>0, <2>2, <2>5 DEF Carried
    <3>2. Lives(x, l)
      BY <2>9, <3>1, LivesLonger
    <3> QED BY <2>5, <3>2, LivesStays
  <2>11. db'[k].id = c.req.id
    BY <2>6
  <2> QED BY <2>4, <2>5, <2>8, <2>9, <2>10, <2>11 DEF Backs
<1>4. ASSUME Refresh, ByLatest(d), d.out # <<>> PROVE Backs(t, ns, n, NoId)'
  <2>1. ByLatest(c) /\ c.req \in GetReq
    <3>1. c.req \in Request
      BY <1>0, <1>2, <1>4 DEF CallState, ByLatest, InMethod, Pcs, PutReq, WritesReq, GetReq, ListReq, DeleteReq, Request
    <3> QED BY <1>2, <1>4, <3>1, OpsOfRequests DEF ByLatest
  <2>2. c.pc \in {"get_latest", "get_cp", "get_writes"} => c.out = <<>>
    BY <2>1 DEF Carried
  <2>3. ~GetLatest(q)
    BY <1>0, <1>4, <2>2, GetLatestShape DEF Same
  <2>4. ~GetCheckpoint(q)
    <3> SUFFICES ASSUME GetCheckpoint(q) PROVE FALSE
      OBVIOUS
    <3>1. c.pc = "get_cp" /\ d = NoTuple(c)
      BY <1>0, GetCheckpointShape
    <3> QED BY <1>2, <1>4, <2>2, <3>1, AfterTupleShape DEF NoTuple
  <2>5. GetWrites(q)
    BY <1>0, <1>1, <2>1, <2>3, <2>4, StepOfRead, TouchLatestShape, FailShape, TypeHalves DEF GetReq, ListReq
  <2>6. c.pc = "get_writes"
    BY <2>5, GetWritesShape
  <2>7. Backs(t, ns, n, NoId)
    BY <1>0, <1>4, <2>1, <2>6 DEF Carried
  <2> QED BY <2>7, BacksStay
<1> QED BY <1>2, <1>3, <1>4 DEF Uses

\* What the auxiliary variables say after a step: of a call in progress whose
\* thread has lost nothing, ...
LEMMA NotCut ==
  ASSUME TypeOK, TimedTypeOK, NEW q \in Proc, Acts(q), Watch(q),
         NEW p \in Proc, call'[p].pc # "idle", p \notin cut'
  PROVE  \/ \E r \in Calls[p] : Begin(p, r)
         \/ call[p].pc # "idle" /\ p \notin cut /\ call[p].req.t \notin Breaks(q)
<1>1. CASE call[p].pc = "idle"
  <2>1. p = q
    BY <1>1, OthersStay, TypeHalves DEF Acts
  <2> QED
    BY <1>1, <2>1 DEF Acts, Step, At, PutCheckpoint, PutLatest, OperateWrites, GetLatest,
       GetCheckpoint, TouchLatest, GetWrites, Query, Scan, RemoveRecord, Fail, Working, Return
<1>2. CASE call[p].pc # "idle"
  BY <1>2 DEF Watch, At
<1> QED BY <1>1, <1>2

\* ... and of a session.
LEMMA UnusedOfActor ==
  ASSUME TimedTypeOK, NEW q \in Proc, Watch(q), NEW t \in Thread, NEW ns \in Ns,
         NEW s, s = <<t, ns>>
  PROVE  \/ unused'[s] = Ttl
         \/ t \notin Breaks(q) /\ unused'[s] = unused[s]
         \/ /\ t \notin Breaks(q) /\ unused'[s] = spent[q]
            /\ Working(q) /\ Uses(call[q])' /\ q \notin cut /\ SessionOf(call[q]) = s
<1>1. s \in Thread \X Ns /\ s[1] = t
  OBVIOUS
<1> DEFINE uses == Working(q) /\ Uses(call[q])' /\ q \notin cut /\ SessionOf(call[q]) = s
<1>2. unused'[s] = IF s[1] \in Breaks(q) THEN Ttl
                   ELSE IF uses /\ spent[q] < unused[s] THEN spent[q]
                   ELSE unused[s]
  BY <1>1 DEF Watch
<1> HIDE DEF uses
<1>3. \/ unused'[s] = Ttl
      \/ t \notin Breaks(q) /\ unused'[s] = unused[s]
      \/ t \notin Breaks(q) /\ unused'[s] = spent[q] /\ uses
  BY <1>1, <1>2
<1> QED BY <1>3 DEF uses

LEMMA BeginCarries ==
  ASSUME TypeOK, NEW p \in Proc, NEW r \in Calls[p], Begin(p, r), NEW d, d = call'[p], NEW n
  PROVE  Carried(d, n)'
<1>1. d.req = r /\ d.pc = FirstPc(r) /\ d.out = <<>>
  BY DEF Begin, NoCall, TypeOK
<1>2. r \in Request
  BY CallsAssumption
<1>3. /\ d.pc \notin {"put_latest", "touch", "get_writes"}
      /\ ByLatest(d) => d.pc # "get_cp"
  BY <1>1, <1>2 DEF FirstPc, ByLatest, Request, PutReq, WritesReq, GetReq, ListReq, DeleteReq
<1> QED BY <1>1, <1>3 DEF Carried, ByLatest

LEMMA CarriedStep ==
  ASSUME TypeOK, TypeOK', TimedTypeOK, SessionInv, NEW q \in Proc, Acts(q), Watch(q),
         NEW p \in Proc, NEW d, d = call'[p], d.pc # "idle", p \notin cut',
         NEW n, n = spent'[p]
  PROVE  Carried(d, n)'
<1>1. CASE \E r \in Calls[p] : Begin(p, r)
  BY <1>1, BeginCarries
<1>2. CASE call[p].pc # "idle" /\ p \notin cut /\ call[p].req.t \notin Breaks(q)
  <2>1. n = spent[p] /\ n \in Nat /\ n <= Longest /\ spent[q] \in Nat /\ spent[q] <= Longest
    BY ClockOfActor
  <2>2. Carried(call[p], n) /\ (q \notin cut /\ call[q].pc # "idle" => Carried(call[q], spent[q]))
    BY <1>2, <2>1 DEF SessionInv
  <2>3. CASE p = q
    <3>1. Step(p)
      BY <1>2, <2>3 DEF Acts, Begin, At
    <3>2. Return(p) => d.pc = "idle"
      BY DEF Return, NoCall, TypeOK
    <3> QED BY <1>2, <2>1, <2>2, <2>3, <3>1, <3>2, StepCarries
  <2>4. CASE p # q
    <3>1. d = call[p]
      BY <2>4, OthersStay, TypeHalves DEF Acts
    <3> QED BY <1>2, <2>1, <2>2, <3>1, RestingCarries
  <2> QED BY <2>3, <2>4
<1> QED BY <1>1, <1>2, NotCut

LEMMA SessionsStep ==
  ASSUME TypeOK, TypeOK', TimedTypeOK, SessionInv, NEW q \in Proc, Acts(q), Watch(q),
         NEW t \in Thread, NEW ns \in Ns, NEW n \in Nat, n = unused'[<<t, ns>>]
  PROVE  Backs(t, ns, n, NoId)'
<1> DEFINE s == <<t, ns>>
<1>1. spent[q] \in Nat /\ spent[q] <= Longest
  BY ClockOfActor
<1>2. q \notin cut /\ call[q].pc # "idle" => Carried(call[q], spent[q])
  BY DEF SessionInv
<1>3. CASE n = Ttl
  <2>1. Backs(t, ns, Ttl, NoId)'
    BY TtlAssumption, LongestAssumption DEF Backs, Lives
  <2> QED BY <1>3, <2>1
<1>4. CASE t \notin Breaks(q) /\ n = unused[s]
  BY <1>1, <1>2, <1>4, BacksStay DEF SessionInv
<1>5. CASE /\ t \notin Breaks(q) /\ n = spent[q]
           /\ Working(q) /\ Uses(call[q])' /\ q \notin cut /\ SessionOf(call[q]) = s
  <2>1. Carried(call[q], n)
    BY <1>2, <1>5 DEF Working
  <2> QED BY <1>1, <1>5, <2>1, UseBacks
<1> QED BY <1>3, <1>4, <1>5, UnusedOfActor

LEMMA SessionInvStep ==
  ASSUME TypeOK, TypeOK', TimedTypeOK, SessionInv, [TimedNext]_timedVars
  PROVE  SessionInv'
<1>1. CASE UNCHANGED timedVars
  <2>1. db' = db /\ call' = call /\ spent' = spent /\ unused' = unused /\ cut' = cut
    BY <1>1 DEF timedVars, vars
  <2>2. ASSUME NEW t, NEW ns, NEW n, Backs(t, ns, n, NoId) PROVE Backs(t, ns, n, NoId)'
    BY <2>1, <2>2 DEF Backs, Lives, Stored
  <2>3. ASSUME NEW c, NEW n, Carried(c, n) PROVE Carried(c, n)'
    BY <2>1, <2>3 DEF Carried, Backs, Lives, Stored, ByLatest
  <2>4. ASSUME NEW p \in Proc, call'[p].pc # "idle", p \notin cut'
        PROVE  Carried(call[p], spent[p])'
    <3>1. PICK c, n : c = call[p] /\ n = spent[p] /\ Carried(c, n)
      BY <2>1, <2>4 DEF SessionInv
    <3>2. c = call'[p] /\ n = spent'[p] /\ Carried(c, n)'
      BY <2>1, <2>3, <3>1
    <3> QED BY <3>2
  <2> QED BY <2>1, <2>2, <2>4 DEF SessionInv
<1>2. CASE \E q \in Proc : Acts(q) /\ Watch(q)
  BY <1>2, SessionsStep, CarriedStep DEF SessionInv
<1>3. CASE TimedTick
  <2>1. ASSUME NEW t \in Thread, NEW ns \in Ns, NEW n \in Nat, n = unused'[<<t, ns>>]
        PROVE  Backs(t, ns, n, NoId)'
    <3>1. PICK m \in Nat : m = unused[<<t, ns>>] /\ (n = m + 1 \/ n = Ttl)
      BY <1>3, <2>1, TtlAssumption DEF TimedTypeOK, TimedTick
    <3>2. Backs(t, ns, m + 1, NoId)'
      BY <1>3, <3>1, TickBacks DEF SessionInv, TimedTick
    <3>3. Backs(t, ns, Ttl, NoId)'
      BY TtlAssumption, LongestAssumption DEF Backs, Lives
    <3> QED BY <3>1, <3>2, <3>3
  <2>2. ASSUME NEW p \in Proc, call'[p].pc # "idle", p \notin cut'
        PROVE  Carried(call[p], spent[p])'
    <3> DEFINE c == call[p]
    <3>1. c = call'[p] /\ p \notin cut /\ Tick
      BY <1>3, <2>2, ClockOfTick DEF TimedTick
    <3>2. PICK n \in Nat : n = spent[p] /\ spent'[p] = n + 1
      BY <1>3, <2>2, ClockOfTick
    <3>3. Carried(c, n)
      BY <2>2, <3>1, <3>2 DEF SessionInv
    <3>4. PICK d : d = c
      OBVIOUS
    <3>5. Carried(d, n + 1)'
      BY <3>1, <3>3, <3>4, TickCarries
    <3>6. d = call'[p]
      BY <3>1, <3>4
    <3> QED BY <3>2, <3>5, <3>6
  <2> QED BY <2>1, <2>2 DEF SessionInv
<1> QED BY <1>1, <1>2, <1>3, TimedSteps

(* A session in use stays: for a lifetime less the duration of a call after *)
(* the beginning of a put or a refreshing read of the latest, the pointer   *)
(* is there and leads to a checkpoint that is there too, whatever fails,    *)
(* whoever else reads by id, lists or puts, and whatever other threads are  *)
(* deleted; only a delete of the session's own records ends it.             *)
THEOREM SessionsStay == TimedSpec => []SessionsInUseStay
<1>1. TypeOK /\ TimedTypeOK /\ SessionInv => SessionsInUseStay
  <2> SUFFICES ASSUME TypeOK, TimedTypeOK, SessionInv, NEW t \in Thread, NEW ns \in Ns,
                      NEW k \in Key, k = LatestKey(t, ns), k.set = "meta",
                      unused[<<t, ns>>] + Longest < Ttl
               PROVE  Stored(k) /\ Stored(CpKey(t, ns, db[k].id))
    BY KeyTypes DEF SessionsInUseStay
  <2>1. PICK n \in Nat : n = unused[<<t, ns>>]
    BY TtlAssumption DEF TimedTypeOK
  <2>2. Backs(t, ns, n, NoId) /\ n + Longest < Ttl /\ n < Ttl
    BY <2>1, TtlAssumption, LongestAssumption DEF SessionInv
  <2>3. Stored(k)
    BY <2>2 DEF Backs, Lives
  <2>4. db[k].id \in Id
    BY <2>3 DEF TypeOK, Stored, Record
  <2> QED BY <2>2, <2>3, <2>4, NoIdAssumption DEF Backs, Lives
<1>2. TimedInit => SessionInv
  <2> SUFFICES ASSUME TimedInit PROVE SessionInv
    OBVIOUS
  <2>1. \A t \in Thread, ns \in Ns : unused[<<t, ns>>] = Ttl
    BY DEF TimedInit
  <2>2. \A p \in Proc : call[p].pc = "idle"
    BY DEF TimedInit, Init, NoCall
  <2> QED BY <2>1, <2>2, BacksLapse DEF SessionInv
<1>3. TypeOK /\ TypeOK' /\ TimedTypeOK /\ SessionInv /\ [TimedNext]_timedVars => SessionInv'
  BY SessionInvStep
<1> QED
  BY <1>1, <1>2, <1>3, TypeCorrect, TimedIsSpec, TimedTyped, PTL DEF TimedSpec

-----------------------------------------------------------------------------
(* Configs.                                                                *)

\* A false value gives way, and no thread is one.
LEMMA OrOfThreads ==
  ASSUME NEW t \in Thread, NEW u
  PROVE  Or(t, u) = t
BY ConfigAssumption DEF Or

LEMMA OrOfNs ==
  ASSUME NEW a, NEW b, NEW ns, ns = Or(Or(a, b), RootNs)
  PROVE  Or(Or(ns, b), RootNs) = ns
BY DEF Or

LEMMA ConfigFields ==
  ASSUME NEW t, NEW ns, NEW id, NEW md, NEW cfg,
         cfg = [configurable |-> [thread_id |-> t, checkpoint_ns |-> ns, checkpoint_id |-> id],
                metadata |-> md]
  PROVE  GetRequest(cfg) = [op |-> "get", t |-> Or(t, md.thread_id),
                            ns |-> Or(Or(ns, md.checkpoint_ns), RootNs), id |-> id]
BY DEF GetRequest, ThreadOf, NsOf, IdOf

(* The config that put returns, or that comes with a tuple, names the      *)
(* checkpoint it was given for, whatever metadata goes with it.            *)
THEOREM ConfigsLead == Spec => []ConfigsLeadBack
<1>1. ConfigsLeadBack
  <2> SUFFICES ASSUME NEW k \in Key, k.set = "meta", NEW named \in Metadata,
                      NEW metadata \in Metadata, NEW id, id = db[k].id, NEW cfg,
                      cfg = [TupleConfig(named.thread_id, named.checkpoint_ns, NoId)
                               EXCEPT !.metadata = metadata]
               PROVE  /\ GetRequest(TupleConfig(k.t, k.ns, id))
                           = [op |-> "get", t |-> k.t, ns |-> k.ns, id |-> id]
                      /\ Valid(cfg) => GetRequest(PutReturns(cfg, id))
                           = [op |-> "get", t |-> ThreadOf(cfg), ns |-> NsOf(cfg), id |-> id]
    BY DEF ConfigsLeadBack
  <2>1. GetRequest(TupleConfig(k.t, k.ns, id)) = [op |-> "get", t |-> k.t, ns |-> k.ns, id |-> id]
    <3>1. k.t \in Thread /\ k.ns \in Ns
      BY DEF Key
    <3>2. Or(k.t, None) = k.t
      BY <3>1, OrOfThreads
    <3>3. Or(Or(k.ns, None), RootNs) = k.ns
      BY <3>1, ConfigAssumption DEF Or
    <3> QED BY <3>2, <3>3 DEF TupleConfig, NoMetadata, GetRequest, ThreadOf, NsOf, IdOf
  <2>2. ASSUME Valid(cfg), NEW t, t = ThreadOf(cfg), NEW ns, ns = NsOf(cfg)
        PROVE  GetRequest(PutReturns(cfg, id)) = [op |-> "get", t |-> t, ns |-> ns, id |-> id]
    <3>1. /\ cfg.metadata = metadata
          /\ cfg.configurable.thread_id = named.thread_id
          /\ cfg.configurable.checkpoint_ns = named.checkpoint_ns
      BY DEF TupleConfig
    <3>2. t \in Thread
      BY <2>2, <3>1, ConfigAssumption DEF Valid, ThreadOf, Or, Metadata
    <3>3. Or(t, metadata.thread_id) = t
      BY <3>2, OrOfThreads
    <3>4. Or(Or(ns, metadata.checkpoint_ns), RootNs) = ns
      BY <2>2, <3>1, OrOfNs DEF NsOf
    <3>5. PutReturns(cfg, id) =
            [configurable |-> [thread_id |-> t, checkpoint_ns |-> ns, checkpoint_id |-> id],
             metadata |-> metadata]
      <4>1. PutReturns(cfg, id) = [cfg EXCEPT !.configurable = TupleConfig(t, ns, id).configurable]
        BY <2>2 DEF PutReturns
      <4>2. PICK names : cfg = [configurable |-> names, metadata |-> metadata]
        BY DEF TupleConfig
      <4> QED BY <4>1, <4>2 DEF TupleConfig
    <3> QED BY <3>3, <3>4, <3>5, ConfigFields
  <2> QED BY <2>1, <2>2
<1> QED BY <1>1, PTL
=============================================================================
