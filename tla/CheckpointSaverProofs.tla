------------------------ MODULE CheckpointSaverProofs ------------------------
(***************************************************************************)
(* What is proved of CheckpointSaver for every value of its constants.     *)
(***************************************************************************)
EXTENDS CheckpointSaver, FiniteSetTheorems, WellFoundedInduction, TLAPS

(* list's order is a strict linear order, so every nonempty set of ids has *)
(* a newest one: the CHOOSE of Newest is never arbitrary.                  *)
LEMMA NewestIsNewest ==
  ASSUME NEW S \in SUBSET Id, S # {}
  PROVE  Newest(S) \in S /\ \A j \in S \ {Newest(S)} : Newer(Newest(S), j)
<1> DEFINE Above(i) == {j \in Id : Newer(j, i)}
           T == {Above(i) : i \in S}
<1>1. \A i, j, k \in Id : Newer(i, j) /\ Newer(j, k) => Newer(i, k)
  BY OrderAssumption DEF Newer
<1>2. \A i \in Id : ~Newer(i, i)
  BY OrderAssumption DEF Newer
<1>3. \A i, j \in Id : i # j => Newer(i, j) \/ Newer(j, i)
  BY OrderAssumption DEF Newer
<1>4. FiniteSubsetsOf(Id) = SUBSET Id
  BY OrderAssumption, FS_FiniteSubsetsOfFinite
<1>5. PICK x \in T : \A y \in T : ~(<<y, x>> \in StrictSubsetOrdering(Id))
  <2>1. T \subseteq SUBSET Id /\ T # {}
    OBVIOUS
  <2> HIDE DEF T
  <2> QED
    BY <2>1, <1>4, FS_StrictSubsetOrderingWellFounded, WFMin
<1>6. PICK i \in S : x = Above(i)
  BY <1>5
<1>7. \A j \in S : ~Newer(j, i)
  <2> SUFFICES ASSUME NEW j \in S, Newer(j, i) PROVE FALSE
    OBVIOUS
  <2>1. Above(j) \subseteq Above(i) /\ j \in Above(i) /\ j \notin Above(j)
    BY <1>1, <1>2
  <2>2. <<Above(j), x>> \in StrictSubsetOrdering(Id)
    BY <2>1, <1>6 DEF StrictSubsetOrdering
  <2> QED
    BY <2>2, <1>5
<1>8. \E m \in S : \A j \in S \ {m} : Newer(m, j)
  BY <1>3, <1>7
<1> QED
  BY <1>8 DEF Newest

-----------------------------------------------------------------------------
(* Types of the helpers.                                                   *)

(* Keys built from a request's thread, namespace and id are keys.          *)
LEMMA KeyTypes ==
  ASSUME NEW t \in Thread, NEW ns \in Ns
  PROVE  /\ LatestKey(t, ns) \in Key /\ LatestKey(t, ns).set = "meta"
         /\ \A id \in Id : /\ CpKey(t, ns, id) \in Key /\ CpKey(t, ns, id).set = "cp"
                           /\ WritesKey(t, ns, id) \in Key
                           /\ WritesKey(t, ns, id).set = "writes"
BY DEF LatestKey, CpKey, WritesKey, Key

(* The entries one put_writes leaves are pending writes.                   *)
LEMMA ItemsType ==
  ASSUME NEW task \in Task, NEW ws \in Seq(Channel \X Value)
  PROVE  ItemsOf(task, ws) \subseteq Item
<1> SUFFICES ASSUME NEW i \in DOMAIN ws
             PROVE  [task |-> task, idx |-> IdxOf(ws, i), channel |-> ws[i][1],
                     value |-> ws[i][2]] \in Item
  BY DEF ItemsOf
<1>1. ws[i] \in Channel \X Value /\ i \in Int
  OBVIOUS
<1>2. IdxOf(ws, i) \in Int
  BY <1>1, SpecialAssumption DEF IdxOf
<1> QED
  BY <1>1, <1>2 DEF Item

(* list's loop goes from a listing to the next read or to the end.         *)
LEMMA NextItemType ==
  ASSUME NEW c \in CallState, c.req \in ListReq, InMethod(c), c.found = {}
  PROVE  NextItem(c) \in CallState /\ InMethod(NextItem(c))
<1>1. CASE c.ids = {} \/ (c.req.limit # NoLimit /\ Len(c.out) >= c.req.limit)
  BY <1>1 DEF NextItem, Done, CallState, InMethod, Pcs
<1>2. CASE ~(c.ids = {} \/ (c.req.limit # NoLimit /\ Len(c.out) >= c.req.limit))
  <2>1. Newest(c.ids) \in Id /\ c.ids \in SUBSET Id
    BY <1>2, NewestIsNewest DEF CallState
  <2>2. NextItem(c) = [c EXCEPT !.pc = "get_cp", !.id = Newest(c.ids),
                                !.ids = @ \ {Newest(@)}]
    BY <1>2 DEF NextItem
  <2> HIDE DEF NextItem
  <2> QED
    BY <2>1, <2>2, ZenonT(60) DEF CallState, InMethod, Pcs
<1> QED
  BY <1>1, <1>2

LEMMA AfterTupleType ==
  ASSUME NEW c \in CallState, c.req \in GetReq \cup ListReq, InMethod(c), c.found = {}
  PROVE  AfterTuple(c) \in CallState /\ InMethod(AfterTuple(c))
<1>1. CASE c.req \in ListReq
  <2>1. AfterTuple(c) = NextItem(c)
    BY <1>1 DEF AfterTuple, ListReq
  <2> QED
    BY <1>1, <2>1, NextItemType
<1>2. CASE c.req \in GetReq
  <2>1. AfterTuple(c) = [c EXCEPT !.pc = "done"]
    BY <1>2 DEF AfterTuple, GetReq, Done
  <2> QED
    BY <2>1 DEF CallState, InMethod, Pcs
<1> QED
  BY <1>1, <1>2

LEMMA GotTupleType ==
  ASSUME NEW c \in CallState, c.req \in GetReq \cup ListReq, InMethod(c), c.found = {},
         c.id \in Id, NEW writes \in SUBSET Item
  PROVE  GotTuple(c, writes) \in CallState /\ InMethod(GotTuple(c, writes))
<1> DEFINE tuple == [ns |-> c.req.ns, id |-> c.id, parent |-> c.parent, writes |-> writes]
           with == IF Wanted(c) THEN [c EXCEPT !.out = Append(@, tuple)] ELSE c
<1>1. tuple \in Tuple
  BY DEF Tuple, CallState, GetReq, ListReq
<1>2. Append(c.out, tuple) \in Seq(Tuple)
  BY <1>1 DEF CallState
<1>3. with \in CallState /\ with.req = c.req /\ with.found = {} /\ InMethod(with)
  <2> HIDE DEF tuple
  <2> QED
    BY <1>2 DEF CallState, InMethod
<1>4. GotTuple(c, writes) = AfterTuple(with)
  BY DEF GotTuple
<1> QED
  <2> HIDE DEF with
  <2> QED
    BY <1>3, <1>4, AfterTupleType

LEMMA NextRemovalType ==
  ASSUME NEW c \in CallState, c.req \in DeleteReq, \A k \in c.found : k.set = c.set
  PROVE  NextRemoval(c) \in CallState /\ InMethod(NextRemoval(c))
<1>1. c.set # "meta" => NextSet[c.set] \in {"cp", "writes", "meta"}
  BY DEF CallState, NextSet
<1> HIDE DEF NextSet
<1> QED
  BY <1>1, ZenonT(60) DEF NextRemoval, Done, CallState, InMethod, Pcs, DeleteReq, PutReq,
       WritesReq, GetReq, ListReq

-----------------------------------------------------------------------------
(* Type correctness.  TypeOK is inductive: its two halves, about the       *)
(* database and about the calls, are preserved by every action.            *)

DbTypeOK ==
  /\ db = [k \in Key |-> db[k]]
  /\ \A k \in Key : db[k] # Absent => db[k] \in Record(k.set)

CallTypeOK ==
  /\ call \in [Proc -> CallState]
  /\ \A p \in Proc : InMethod(call[p])

LEMMA TypeHalves == TypeOK <=> DbTypeOK /\ CallTypeOK
BY DEF TypeOK, DbTypeOK, CallTypeOK

(* Writing one record of the right kind, or removing one.                  *)
LEMMA DbUpdate ==
  ASSUME DbTypeOK, NEW k \in Key, NEW rec, rec # Absent => rec \in Record(k.set),
         db' = [db EXCEPT ![k] = rec]
  PROVE  DbTypeOK'
BY DEF DbTypeOK

LEMMA RenewedType ==
  ASSUME DbTypeOK, NEW k \in Key
  PROVE  /\ db[k] # Absent => Renewed(db[k]) \in Record(k.set)
         /\ Renewed(db[k]) # Absent => Renewed(db[k]) \in Record(k.set)
<1> SUFFICES ASSUME db[k] # Absent PROVE [db[k] EXCEPT !.left = Ttl] \in Record(k.set)
  BY DEF Renewed
<1>1. db[k] \in Record(k.set) /\ Ttl \in Lifetime
  BY TtlAssumption DEF DbTypeOK, Lifetime
<1>2. k.set \in {"cp", "writes", "meta"}
  BY DEF Key
<1> QED
  BY <1>1, <1>2 DEF Record

LEMMA ReadEffectType ==
  ASSUME DbTypeOK, NEW k \in Key, ReadEffect(k)
  PROVE  DbTypeOK'
<1>1. CASE Refresh
  <2>1. db' = [db EXCEPT ![k] = Renewed(db[k])]
    BY <1>1 DEF ReadEffect
  <2> QED
    BY <2>1, RenewedType, DbUpdate
<1>2. CASE ~Refresh
  BY <1>2 DEF ReadEffect, DbTypeOK
<1> QED
  BY <1>1, <1>2

(* A call goes on, fails, or ends.                                         *)
LEMMA CallUpdate ==
  ASSUME CallTypeOK, NEW p \in Proc, NEW c \in CallState, InMethod(c),
         call' = [call EXCEPT ![p] = c]
  PROVE  CallTypeOK'
BY DEF CallTypeOK

LEMMA FailType ==
  ASSUME CallTypeOK, NEW p \in Proc, call' = [call EXCEPT ![p].pc = "failed"]
  PROVE  CallTypeOK'
<1> DEFINE c == [call[p] EXCEPT !.pc = "failed"]
<1>1. c \in CallState /\ InMethod(c)
  BY ZenonT(60) DEF CallTypeOK, CallState, InMethod, Pcs
<1>2. call' = [call EXCEPT ![p] = c]
  BY DEF CallTypeOK
<1> QED
  <2> HIDE DEF c
  <2> QED
    BY <1>1, <1>2, CallUpdate

LEMMA ReplyType ==
  ASSUME CallTypeOK, NEW p \in Proc, NEW c \in CallState, InMethod(c), Reply(p, c)
  PROVE  CallTypeOK'
BY CallUpdate, FailType DEF Reply

(* The actions of one process, one lemma each.                             *)
LEMMA PutCheckpointType ==
  ASSUME TypeOK, NEW p \in Proc, PutCheckpoint(p)
  PROVE  TypeOK'
<1> USE TypeHalves
<1>1. call[p] \in CallState /\ InMethod(call[p]) /\ call[p].pc = "put_cp"
  BY DEF PutCheckpoint, At, CallTypeOK
<1>2. call[p].req \in PutReq /\ call[p].req.id \in Id
  BY <1>1 DEF InMethod, PutReq
<1> DEFINE r == call[p].req
           rec == [thread |-> r.t, parent |-> r.parent, left |-> Ttl]
           c == [call[p] EXCEPT !.pc = "put_latest"]
<1>3. CpKey(r.t, r.ns, r.id) \in Key /\ rec \in Record("cp")
      /\ CpKey(r.t, r.ns, r.id).set = "cp"
  BY <1>2, KeyTypes, TtlAssumption DEF PutReq, Record, Lifetime
<1>4. DbTypeOK'
  <2>1. db' = [db EXCEPT ![CpKey(r.t, r.ns, r.id)] = rec]
    BY DEF PutCheckpoint
  <2> HIDE DEF rec
  <2> QED
    BY <1>3, <2>1, DbUpdate
<1>5. c \in CallState /\ InMethod(c)
  BY <1>1, <1>2 DEF CallState, InMethod, Pcs
<1>6. Reply(p, c)
  BY DEF PutCheckpoint
<1>7. CallTypeOK'
  <2> HIDE DEF c
  <2> QED
    BY <1>5, <1>6, ReplyType
<1> QED
  BY <1>4, <1>7 DEF TypeOK, DbTypeOK, CallTypeOK

LEMMA PutLatestType ==
  ASSUME TypeOK, NEW p \in Proc, PutLatest(p)
  PROVE  TypeOK'
<1> USE TypeHalves
<1>1. call[p] \in CallState /\ InMethod(call[p]) /\ call[p].pc = "put_latest"
  BY DEF PutLatest, At, CallTypeOK
<1>2. call[p].req \in PutReq /\ call[p].req.id \in Id
  BY <1>1 DEF InMethod, PutReq
<1> DEFINE r == call[p].req
           rec == [thread |-> r.t, id |-> r.id, left |-> Ttl]
           c == Done(call[p])
<1>3. LatestKey(r.t, r.ns) \in Key /\ rec \in Record("meta")
      /\ LatestKey(r.t, r.ns).set = "meta"
  BY <1>2, KeyTypes, TtlAssumption DEF PutReq, Record, Lifetime
<1>4. DbTypeOK'
  <2>1. db' = [db EXCEPT ![LatestKey(r.t, r.ns)] = rec]
    BY DEF PutLatest
  <2> HIDE DEF rec
  <2> QED
    BY <1>3, <2>1, DbUpdate
<1>5. c \in CallState /\ InMethod(c)
  BY <1>1, <1>2 DEF Done, CallState, InMethod, Pcs
<1>6. Reply(p, c)
  BY DEF PutLatest
<1>7. CallTypeOK'
  <2> HIDE DEF c
  <2> QED
    BY <1>5, <1>6, ReplyType
<1> QED
  BY <1>4, <1>7 DEF TypeOK, DbTypeOK, CallTypeOK

LEMMA OperateWritesType ==
  ASSUME TypeOK, NEW p \in Proc, OperateWrites(p)
  PROVE  TypeOK'
<1> USE TypeHalves
<1>1. call[p] \in CallState /\ InMethod(call[p]) /\ call[p].pc = "operate"
  BY DEF OperateWrites, At, CallTypeOK
<1>2. call[p].req \in WritesReq /\ call[p].req.id \in Id
  BY <1>1 DEF InMethod, WritesReq
<1> DEFINE r == call[p].req
           k == WritesKey(r.t, r.ns, r.id)
           new == Upsert(WritesAt(k), ItemsOf(r.task, r.writes))
           rec == [thread |-> r.t, writes |-> new, left |-> Ttl]
           c == Done(call[p])
<1>3. k \in Key /\ k.set = "writes"
  BY <1>2, KeyTypes DEF WritesReq
<1>4. new \subseteq Item
  <2>1. WritesAt(k) \subseteq Item
    <3> HIDE DEF k
    <3> QED
      BY <1>3 DEF WritesAt, Stored, DbTypeOK, Record
  <2>2. ItemsOf(r.task, r.writes) \subseteq Item
    BY <1>2, ItemsType DEF WritesReq
  <2> QED
    BY <2>1, <2>2 DEF Upsert
<1>5. rec \in Record("writes")
  <2> HIDE DEF new
  <2> QED
    BY <1>2, <1>4, TtlAssumption DEF WritesReq, Record, Lifetime
<1>6. DbTypeOK'
  <2>1. db' = [db EXCEPT ![k] = rec]
    BY DEF OperateWrites
  <2> HIDE DEF rec, k
  <2> QED
    BY <1>3, <1>5, <2>1, DbUpdate
<1>7. c \in CallState /\ InMethod(c)
  BY <1>1, <1>2 DEF Done, CallState, InMethod, Pcs
<1>8. Reply(p, c)
  BY DEF OperateWrites
<1>9. CallTypeOK'
  <2> HIDE DEF c
  <2> QED
    BY <1>7, <1>8, ReplyType
<1> QED
  BY <1>6, <1>9 DEF TypeOK, DbTypeOK, CallTypeOK

LEMMA GetLatestType ==
  ASSUME TypeOK, NEW p \in Proc, GetLatest(p)
  PROVE  TypeOK'
<1> USE TypeHalves
<1>1. call[p] \in CallState /\ InMethod(call[p]) /\ call[p].pc = "get_latest"
  BY DEF GetLatest, At, CallTypeOK
<1> DEFINE k == LatestKey(call[p].req.t, call[p].req.ns)
           c == IF Stored(k) THEN [call[p] EXCEPT !.pc = "get_cp", !.id = db[k].id]
                             ELSE Done(call[p])
<1>2. call[p].req \in GetReq /\ call[p].found = {}
  BY <1>1 DEF InMethod
<1>3. k \in Key /\ k.set = "meta"
  BY <1>2, KeyTypes DEF GetReq
<1>4. DbTypeOK'
  BY <1>3, ReadEffectType DEF GetLatest
<1>5. Stored(k) => db[k].id \in Id
  <2> HIDE DEF k
  <2> QED
    BY <1>3 DEF DbTypeOK, Stored, Record
<1>6. c \in CallState /\ InMethod(c)
  <2> HIDE DEF k
  <2> QED
    BY <1>1, <1>2, <1>5 DEF Done, CallState, InMethod, Pcs
<1>7. Reply(p, c)
  BY DEF GetLatest
<1>8. CallTypeOK'
  <2> HIDE DEF c
  <2> QED
    BY <1>6, <1>7, ReplyType
<1> QED
  BY <1>4, <1>8 DEF TypeOK, DbTypeOK, CallTypeOK

LEMMA GetCheckpointType ==
  ASSUME TypeOK, NEW p \in Proc, GetCheckpoint(p)
  PROVE  TypeOK'
<1> USE TypeHalves
<1>1. call[p] \in CallState /\ InMethod(call[p]) /\ call[p].pc = "get_cp"
  BY DEF GetCheckpoint, At, CallTypeOK
<1> DEFINE k == CpKey(call[p].req.t, call[p].req.ns, call[p].id)
           found == [call[p] EXCEPT !.parent = db[k].parent,
             !.pc = IF ~ByLatest(call[p]) /\ Refresh THEN "touch" ELSE "get_writes"]
           c == IF Stored(k) THEN found ELSE NoTuple(call[p])
<1>2. call[p].req \in GetReq \cup ListReq /\ call[p].id \in Id /\ call[p].found = {}
  BY <1>1 DEF InMethod
<1>3. k \in Key /\ k.set = "cp"
  BY <1>2, KeyTypes DEF GetReq, ListReq
<1>4. DbTypeOK'
  BY <1>3, ReadEffectType DEF GetCheckpoint
<1>5. Stored(k) => db[k].parent \in Id \cup {NoId}
  <2> HIDE DEF k
  <2> QED
    BY <1>3 DEF DbTypeOK, Stored, Record
<1>6. Stored(k) => found \in CallState /\ InMethod(found)
  <2> HIDE DEF k
  <2> QED
    BY <1>1, <1>2, <1>5 DEF CallState, InMethod, Pcs
<1>7. c \in CallState /\ InMethod(c)
  <2> HIDE DEF found, k
  <2> QED
    BY <1>1, <1>2, <1>6, AfterTupleType DEF NoTuple
<1>8. Reply(p, c)
  BY DEF GetCheckpoint
<1>9. CallTypeOK'
  <2> HIDE DEF c
  <2> QED
    BY <1>7, <1>8, ReplyType
<1> QED
  BY <1>4, <1>9 DEF TypeOK, DbTypeOK, CallTypeOK

LEMMA TouchLatestType ==
  ASSUME TypeOK, NEW p \in Proc, TouchLatest(p)
  PROVE  TypeOK'
<1> USE TypeHalves
<1>1. call[p] \in CallState /\ InMethod(call[p]) /\ call[p].pc = "touch"
  BY DEF TouchLatest, At, CallTypeOK
<1> DEFINE k == LatestKey(call[p].req.t, call[p].req.ns)
           c == [call[p] EXCEPT !.pc = "get_writes"]
<1>2. call[p].req \in GetReq \cup ListReq /\ call[p].id \in Id /\ call[p].found = {}
  BY <1>1 DEF InMethod
<1>3. k \in Key
  BY <1>2, KeyTypes DEF GetReq, ListReq
<1>4. DbTypeOK'
  <2>1. db' = [db EXCEPT ![k] = Renewed(db[k])]
    BY DEF TouchLatest
  <2> HIDE DEF k
  <2> QED
    BY <1>3, <2>1, RenewedType, DbUpdate
<1>5. c \in CallState /\ InMethod(c)
  BY <1>1, <1>2 DEF CallState, InMethod, Pcs
<1>6. Reply(p, c)
  BY DEF TouchLatest
<1>7. CallTypeOK'
  <2> HIDE DEF c
  <2> QED
    BY <1>5, <1>6, ReplyType
<1> QED
  BY <1>4, <1>7 DEF TypeOK, DbTypeOK, CallTypeOK

LEMMA GetWritesType ==
  ASSUME TypeOK, NEW p \in Proc, GetWrites(p)
  PROVE  TypeOK'
<1> USE TypeHalves
<1>1. call[p] \in CallState /\ InMethod(call[p]) /\ call[p].pc = "get_writes"
  BY DEF GetWrites, At, CallTypeOK
<1> DEFINE k == WritesKey(call[p].req.t, call[p].req.ns, call[p].id)
           c == GotTuple(call[p], WritesAt(k))
<1>2. call[p].req \in GetReq \cup ListReq /\ call[p].id \in Id /\ call[p].found = {}
  BY <1>1 DEF InMethod
<1>3. k \in Key /\ k.set = "writes"
  BY <1>2, KeyTypes DEF GetReq, ListReq
<1>4. DbTypeOK'
  BY <1>3, ReadEffectType DEF GetWrites
<1>5. WritesAt(k) \in SUBSET Item
  <2> HIDE DEF k
  <2> QED
    BY <1>3 DEF WritesAt, Stored, DbTypeOK, Record
<1>6. c \in CallState /\ InMethod(c)
  <2> HIDE DEF k
  <2> QED
    BY <1>1, <1>2, <1>5, GotTupleType
<1>7. Reply(p, c)
  BY DEF GetWrites
<1>8. CallTypeOK'
  <2> HIDE DEF c
  <2> QED
    BY <1>6, <1>7, ReplyType
<1> QED
  BY <1>4, <1>8 DEF TypeOK, DbTypeOK, CallTypeOK

LEMMA QueryType ==
  ASSUME TypeOK, NEW p \in Proc, Query(p)
  PROVE  TypeOK'
<1> USE TypeHalves
<1>1. call[p] \in CallState /\ InMethod(call[p]) /\ call[p].pc = "query"
  BY DEF Query, At, CallTypeOK
<1> DEFINE m == Matching(call[p].set, call[p].req.t)
           c == [call[p] EXCEPT !.pc = "scan", !.found = m]
<1>2. m \in SUBSET Key /\ \A k \in m : k.set = call[p].set
  BY DEF Matching
<1>3. c \in CallState /\ InMethod(c)
  <2> HIDE DEF m
  <2> QED
    BY <1>1, <1>2 DEF CallState, InMethod, Pcs
<1>4. call' = [call EXCEPT ![p] = c]
  BY DEF Query, CallTypeOK
<1>5. CallTypeOK'
  <2> HIDE DEF c
  <2> QED
    BY <1>3, <1>4, CallUpdate
<1> QED
  BY <1>5 DEF Query, TypeOK, DbTypeOK, CallTypeOK

LEMMA ScanType ==
  ASSUME TypeOK, NEW p \in Proc, Scan(p)
  PROVE  TypeOK'
<1> USE TypeHalves
<1>1. call[p] \in CallState /\ InMethod(call[p]) /\ call[p].pc = "scan"
  BY DEF Scan, At, CallTypeOK
<1> DEFINE now == Matching(call[p].set, call[p].req.t)
           listed(keys) == [call[p] EXCEPT !.found = {}, !.ids = Listing(call[p], keys)]
           doomed(keys) == [call[p] EXCEPT !.found = keys]
           next(keys) == IF call[p].req.op = "list" THEN NextItem(listed(keys))
                                                    ELSE NextRemoval(doomed(keys))
<1>2. PICK keys \in SUBSET (call[p].found \cup now) : call' = [call EXCEPT ![p] = next(keys)]
  BY DEF Scan
<1>3. keys \in SUBSET Key /\ \A k \in keys : k.set = call[p].set
  BY <1>1, <1>2 DEF Matching, CallState, InMethod
<1>4. CASE call[p].req \in ListReq
  <2>1. call[p].set = "cp"
    BY <1>1, <1>4 DEF InMethod, ListReq, DeleteReq
  <2>2. Listing(call[p], keys) \in SUBSET Id
    BY <1>3, <2>1 DEF Listing, Key
  <2>3. /\ listed(keys) \in CallState /\ InMethod(listed(keys))
        /\ listed(keys).req \in ListReq /\ listed(keys).found = {}
    <3> HIDE DEF Listing
    <3> QED
      BY <1>1, <1>4, <2>2, <2>1 DEF CallState, InMethod, Pcs
  <2>4. next(keys) = NextItem(listed(keys))
    BY <1>4 DEF ListReq
  <2> HIDE DEF listed, next
  <2> QED
    BY <2>3, <2>4, <1>2, NextItemType, CallUpdate DEF Scan, TypeOK, DbTypeOK, CallTypeOK
<1>5. CASE call[p].req \in DeleteReq
  <2>1. /\ doomed(keys) \in CallState /\ doomed(keys).req \in DeleteReq
        /\ \A k \in doomed(keys).found : k.set = doomed(keys).set
    BY <1>1, <1>3, <1>5 DEF CallState
  <2>2. next(keys) = NextRemoval(doomed(keys))
    BY <1>5 DEF DeleteReq
  <2> HIDE DEF doomed, next
  <2> QED
    BY <2>1, <2>2, <1>2, NextRemovalType, CallUpdate DEF Scan, TypeOK, DbTypeOK, CallTypeOK
<1> QED
  BY <1>1, <1>4, <1>5 DEF InMethod

LEMMA RemoveRecordType ==
  ASSUME TypeOK, NEW p \in Proc, RemoveRecord(p)
  PROVE  TypeOK'
<1> USE TypeHalves
<1>1. call[p] \in CallState /\ InMethod(call[p]) /\ call[p].pc = "remove"
  BY DEF RemoveRecord, At, CallTypeOK
<1> DEFINE rest(k) == [call[p] EXCEPT !.found = @ \ {k}]
<1>2. PICK k \in call[p].found : /\ db' = [db EXCEPT ![k] = Absent]
                                 /\ Reply(p, NextRemoval(rest(k)))
  BY DEF RemoveRecord
<1>3. DbTypeOK'
  BY <1>1, <1>2, DbUpdate DEF CallState
<1>4. /\ rest(k) \in CallState /\ rest(k).req \in DeleteReq
      /\ \A x \in rest(k).found : x.set = rest(k).set
  BY <1>1 DEF CallState, InMethod
<1>5. CallTypeOK'
  <2> HIDE DEF rest
  <2> QED
    BY <1>2, <1>4, NextRemovalType, ReplyType
<1> QED
  BY <1>3, <1>5 DEF TypeOK, DbTypeOK, CallTypeOK

LEMMA BeginType ==
  ASSUME TypeOK, NEW p \in Proc, NEW r \in Calls[p], Begin(p, r)
  PROVE  TypeOK'
<1> USE TypeHalves
<1> DEFINE id == IF r.op = "get" THEN r.id ELSE NoId
           c == [NoCall EXCEPT !.req = r, !.pc = FirstPc(r), !.id = id]
<1>1. r \in Request
  BY CallsAssumption
<1>2. FirstPc(r) \in Pcs
  BY <1>1 DEF FirstPc, Pcs, Request, PutReq, WritesReq, GetReq, ListReq, DeleteReq
<1>3. c \in CallState
  <2>1. id \in Id \cup {NoId}
    BY <1>1 DEF Request, PutReq, WritesReq, GetReq, ListReq, DeleteReq
  <2>2. NoCall \in CallState
    BY DEF NoCall, CallState, Pcs
  <2> HIDE DEF id
  <2> QED
    BY <1>1, <1>2, <2>1, <2>2 DEF CallState, Pcs
<1>4. c.pc = FirstPc(r) /\ c.req = r /\ c.found = {} /\ c.set = "cp"
      /\ c.id = id
  BY DEF NoCall
<1>5. InMethod(c)
  <2> HIDE DEF c
  <2>1. CASE r \in PutReq
    BY <2>1, <1>4 DEF InMethod, FirstPc, PutReq
  <2>2. CASE r \in WritesReq
    BY <2>2, <1>4 DEF InMethod, FirstPc, WritesReq
  <2>3. CASE r \in GetReq
    BY <2>3, <1>4 DEF InMethod, FirstPc, GetReq
  <2>4. CASE r \in ListReq
    BY <2>4, <1>4 DEF InMethod, FirstPc, ListReq
  <2>5. CASE r \in DeleteReq
    BY <2>5, <1>4 DEF InMethod, FirstPc, DeleteReq
  <2> QED
    BY <1>1, <2>1, <2>2, <2>3, <2>4, <2>5 DEF Request
<1>6. CallTypeOK'
  <2>1. call' = [call EXCEPT ![p] = c]
    BY DEF Begin
  <2> HIDE DEF c
  <2> QED
    BY <1>3, <1>5, <2>1, CallUpdate
<1> QED
  BY <1>6 DEF Begin, TypeOK, DbTypeOK, CallTypeOK

LEMMA ReturnType ==
  ASSUME TypeOK, NEW p \in Proc, Return(p)
  PROVE  TypeOK'
<1> USE TypeHalves
<1>1. NoCall \in CallState /\ InMethod(NoCall)
  BY DEF NoCall, CallState, InMethod, Pcs
<1>2. CallTypeOK'
  BY <1>1, CallUpdate DEF Return
<1> QED
  BY <1>2 DEF Return, TypeOK, DbTypeOK, CallTypeOK

LEMMA AgedType ==
  ASSUME DbTypeOK, Ttl > 0, NEW k \in Key, db[k] # Absent, db[k].left # 1
  PROVE  [db[k] EXCEPT !.left = @ - 1] \in Record(k.set)
<1>1. db[k] \in Record(k.set) /\ k.set \in {"cp", "writes", "meta"}
  BY DEF DbTypeOK, Key
<1>2. Lifetime = 1 .. Ttl
  BY TtlAssumption DEF Lifetime
<1>3. db[k].left \in Lifetime
  BY <1>1 DEF Record
<1>4. db[k].left - 1 \in Lifetime
  BY <1>2, <1>3, TtlAssumption
<1> QED
  BY <1>1, <1>4 DEF Record

LEMMA TickType ==
  ASSUME TypeOK, Tick
  PROVE  TypeOK'
<1>1. ASSUME NEW k \in Key, db'[k] # Absent PROVE db'[k] \in Record(k.set)
  <2>1. db'[k] = [db[k] EXCEPT !.left = @ - 1] /\ db[k] # Absent /\ db[k].left # 1
    BY <1>1 DEF Tick, Age
  <2> QED
    BY <2>1, TypeHalves, AgedType DEF Tick
<1> QED
  BY <1>1 DEF Tick, TypeOK

LEMMA StepType ==
  ASSUME TypeOK, NEW p \in Proc, Step(p)
  PROVE  TypeOK'
<1>1. CASE Fail(p)
  BY <1>1, TypeHalves, FailType DEF Fail, TypeOK, DbTypeOK, CallTypeOK
<1> QED
  BY <1>1, PutCheckpointType, PutLatestType, OperateWritesType, GetLatestType,
     GetCheckpointType, TouchLatestType, GetWritesType, QueryType, ScanType,
     RemoveRecordType, ReturnType DEF Step

LEMMA NextType == TypeOK /\ [Next]_vars => TypeOK'
<1> SUFFICES ASSUME TypeOK, [Next]_vars PROVE TypeOK'
  OBVIOUS
<1>1. CASE \E p \in Proc : Step(p)
  BY <1>1, StepType
<1>2. CASE \E p \in Proc : \E r \in Calls[p] : Begin(p, r)
  BY <1>2, BeginType
<1>3. CASE Tick
  BY <1>3, TickType
<1>4. CASE UNCHANGED vars
  BY <1>4 DEF vars, TypeOK
<1> QED
  BY <1>1, <1>2, <1>3, <1>4 DEF Next

LEMMA InitType == Init => TypeOK
<1> SUFFICES ASSUME Init PROVE TypeOK
  OBVIOUS
<1>1. NoCall \in CallState /\ InMethod(NoCall)
  BY DEF NoCall, CallState, InMethod, Pcs
<1> QED
  BY <1>1 DEF Init, TypeOK

(* Every record has the bins of its set and every call is at a point of    *)
(* its method, with the request and the locals that point needs.           *)
THEOREM TypeCorrect == Spec => []TypeOK
<1>1. Init => TypeOK
  BY InitType
<1>2. TypeOK /\ [Next]_vars => TypeOK'
  BY NextType
<1> QED
  BY <1>1, <1>2, PTL DEF Spec

-----------------------------------------------------------------------------
(* What a step does to the database, whoever takes it.                     *)

(* Every action notes what it sees in the auxiliary variables.             *)
LEMMA NextObserves == Next => Observe
BY DEF Next, Step, Begin, PutCheckpoint, PutLatest, OperateWrites, GetLatest, GetCheckpoint,
       TouchLatest, GetWrites, Query, Scan, RemoveRecord, Fail, Return, Tick

(* So what has been stored stays on record.                                *)
LEMMA WasStoredStays ==
  ASSUME [Next]_vars, NEW k \in Key, WasStored(k)
  PROVE  WasStored(k)'
<1>1. CASE UNCHANGED vars
  BY <1>1 DEF vars, WasStored, Stored
<1>2. CASE Next
  BY <1>2, NextObserves DEF Observe, WasStored
<1> QED
  BY <1>1, <1>2

(* A step of one call leaves the others where they are.                    *)
LEMMA OthersStay ==
  ASSUME CallTypeOK, NEW p \in Proc, Step(p) \/ \E r \in Calls[p] : Begin(p, r),
         NEW q \in Proc, q # p
  PROVE  call'[q] = call[q]
<1>1. CASE \E r \in Calls[p] : Begin(p, r)
  BY <1>1 DEF Begin, CallTypeOK
<1>2. CASE Step(p)
  <2> USE DEF Reply, CallTypeOK
  <2>1. CASE PutCheckpoint(p) \/ PutLatest(p) \/ OperateWrites(p)
    BY <2>1 DEF PutCheckpoint, PutLatest, OperateWrites
  <2>2. CASE GetLatest(p) \/ GetCheckpoint(p) \/ TouchLatest(p) \/ GetWrites(p)
    BY <2>2 DEF GetLatest, GetCheckpoint, TouchLatest, GetWrites
  <2>3. CASE Query(p)
    BY <2>3 DEF Query
  <2>4. CASE Scan(p)
    BY <2>4 DEF Scan
  <2>5. CASE RemoveRecord(p)
    BY <2>5 DEF RemoveRecord
  <2>6. CASE Fail(p) \/ Return(p)
    BY <2>6 DEF Fail, Return
  <2> QED
    BY <1>2, <2>1, <2>2, <2>3, <2>4, <2>5, <2>6 DEF Step
<1> QED
  BY <1>1, <1>2

(* Reading renews a record or leaves it; its other bins stay.              *)
LEMMA ReadKeepsBins ==
  ASSUME DbTypeOK, NEW x \in Key, db' = [db EXCEPT ![x] = Renewed(@)] \/ ReadEffect(x)
         \/ UNCHANGED db,
         NEW k \in Key
  PROVE  /\ Stored(k)' <=> Stored(k)
         /\ Stored(k) => /\ db'[k].thread = db[k].thread
                         /\ k.set = "writes" => db'[k].writes = db[k].writes
                         /\ k.set = "meta" => db'[k].id = db[k].id
<1>1. k.set \in {"cp", "writes", "meta"}
  BY DEF Key
<1>2. db'[k] = db[k] \/ (db[k] # Absent /\ db'[k] = [db[k] EXCEPT !.left = Ttl])
  BY DEF ReadEffect, Renewed, DbTypeOK
<1>3. CASE db'[k] = db[k]
  BY <1>3 DEF Stored
<1>4. CASE db[k] # Absent /\ db'[k] = [db[k] EXCEPT !.left = Ttl]
  <2>1. db[k] \in Record(k.set)
    BY <1>4 DEF DbTypeOK
  <2>2. db'[k] = Renewed(db[k])
    BY <1>4 DEF Renewed
  <2>3. Stored(k)' /\ Stored(k)
    BY <1>1, <1>4, <2>2, RenewedType, AbsentAssumption DEF Stored
  <2>4. db'[k].thread = db[k].thread
    BY <1>1, <1>4, <2>1 DEF Record
  <2>5. k.set = "writes" => db'[k].writes = db[k].writes
    BY <1>4, <2>1 DEF Record
  <2>6. k.set = "meta" => db'[k].id = db[k].id
    BY <1>4, <2>1 DEF Record
  <2> QED
    BY <2>3, <2>4, <2>5, <2>6
<1> QED
  BY <1>2, <1>3, <1>4
-----------------------------------------------------------------------------
(* What a step does to one record.                                         *)

SameBins(k) ==
  /\ db'[k].thread = db[k].thread
  /\ k.set = "writes" => db'[k].writes = db[k].writes
  /\ k.set = "meta" => db'[k].id = db[k].id

Kept(k) == (Stored(k)' <=> Stored(k)) /\ (Stored(k) => SameBins(k))

CpWritten(p, k) ==
  LET r == call[p].req IN
  /\ call[p].pc = "put_cp" /\ r \in PutReq /\ r.id \in Id
  /\ k = CpKey(r.t, r.ns, r.id)
  /\ db' = [db EXCEPT ![k] = [thread |-> r.t, parent |-> r.parent, left |-> Ttl]]

PointerWritten(p, k) ==
  LET r == call[p].req IN
  /\ call[p].pc = "put_latest" /\ r \in PutReq /\ r.id \in Id
  /\ k = LatestKey(r.t, r.ns)
  /\ db' = [db EXCEPT ![k] = [thread |-> r.t, id |-> r.id, left |-> Ttl]]

WritesUpserted(p, k) ==
  LET r == call[p].req IN
  /\ call[p].pc = "operate" /\ r \in WritesReq /\ r.id \in Id
  /\ k = WritesKey(r.t, r.ns, r.id)
  /\ db' = [db EXCEPT ![k] =
       [thread |-> r.t, writes |-> Upsert(WritesAt(k), ItemsOf(r.task, r.writes)), left |-> Ttl]]

Removed(p, k) == call[p].pc = "remove" /\ k \in call[p].found /\ ~Stored(k)'

Aged(k) ==
  /\ Stored(k)' => Stored(k) /\ SameBins(k)
  /\ Stored(k) /\ ~Stored(k)' => db[k].left = 1

(* What is written is there.                                               *)
LEMMA WrittenIsStored ==
  ASSUME TypeOK, NEW p \in Proc, NEW k \in Key,
         CpWritten(p, k) \/ PointerWritten(p, k) \/ WritesUpserted(p, k)
  PROVE  Stored(k)'
<1>0. Ttl \in Lifetime
  BY TtlAssumption DEF Lifetime
<1> USE DEF TypeOK, Stored
<1>1. CASE CpWritten(p, k)
  <2> DEFINE r == call[p].req
             rec == [thread |-> r.t, parent |-> r.parent, left |-> Ttl]
  <2>1. rec \in Record("cp")
    BY <1>0, <1>1 DEF CpWritten, PutReq, Record
  <2>2. db'[k] = rec
    BY <1>1 DEF CpWritten
  <2> HIDE DEF rec
  <2> QED
    BY <2>1, <2>2, AbsentAssumption
<1>2. CASE PointerWritten(p, k)
  <2> DEFINE r == call[p].req
             rec == [thread |-> r.t, id |-> r.id, left |-> Ttl]
  <2>1. rec \in Record("meta")
    BY <1>0, <1>2 DEF PointerWritten, PutReq, Record
  <2>2. db'[k] = rec
    BY <1>2 DEF PointerWritten
  <2> HIDE DEF rec
  <2> QED
    BY <2>1, <2>2, AbsentAssumption
<1>3. CASE WritesUpserted(p, k)
  <2> DEFINE r == call[p].req
             new == Upsert(WritesAt(k), ItemsOf(r.task, r.writes))
             rec == [thread |-> r.t, writes |-> new, left |-> Ttl]
  <2>0. k.set = "writes"
    BY <1>3 DEF WritesUpserted, WritesKey
  <2>1. new \subseteq Item
    <3>1. WritesAt(k) \subseteq Item
      BY <2>0 DEF WritesAt, Record
    <3>2. ItemsOf(r.task, r.writes) \subseteq Item
      BY <1>3, ItemsType DEF WritesUpserted, WritesReq
    <3> QED
      BY <3>1, <3>2 DEF Upsert
  <2>2. rec \in Record("writes")
    <3> HIDE DEF new
    <3> QED
      BY <1>0, <1>3, <2>1 DEF WritesUpserted, WritesReq, Record
  <2>3. db'[k] = rec
    BY <1>3 DEF WritesUpserted
  <2> HIDE DEF rec
  <2> QED
    BY <2>2, <2>3, AbsentAssumption
<1> QED
  BY <1>1, <1>2, <1>3

(* The writing steps leave every other record alone, and store theirs.     *)
LEMMA WritingStep ==
  ASSUME TypeOK, NEW p \in Proc, NEW k \in Key,
         PutCheckpoint(p) \/ PutLatest(p) \/ OperateWrites(p)
  PROVE  Kept(k) \/ CpWritten(p, k) \/ PointerWritten(p, k) \/ WritesUpserted(p, k)
<1> USE TypeHalves DEF CallTypeOK, At
<1>0. InMethod(call[p])
  OBVIOUS
<1>1. CASE PutCheckpoint(p)
  <2> DEFINE x == CpKey(call[p].req.t, call[p].req.ns, call[p].req.id)
  <2>1. call[p].req \in PutReq /\ call[p].req.id \in Id /\ call[p].pc = "put_cp"
    BY <1>0, <1>1 DEF PutCheckpoint, InMethod, PutReq
  <2>2. CASE k = x
    BY <1>1, <2>1, <2>2 DEF PutCheckpoint, CpWritten
  <2>3. CASE k # x
    BY <1>1, <2>3 DEF PutCheckpoint, Kept, SameBins, Stored, DbTypeOK
  <2> QED
    BY <2>2, <2>3
<1>2. CASE PutLatest(p)
  <2> DEFINE x == LatestKey(call[p].req.t, call[p].req.ns)
  <2>1. call[p].req \in PutReq /\ call[p].req.id \in Id /\ call[p].pc = "put_latest"
    BY <1>0, <1>2 DEF PutLatest, InMethod, PutReq
  <2>2. CASE k = x
    BY <1>2, <2>1, <2>2 DEF PutLatest, PointerWritten
  <2>3. CASE k # x
    BY <1>2, <2>3 DEF PutLatest, Kept, SameBins, Stored, DbTypeOK
  <2> QED
    BY <2>2, <2>3
<1>3. CASE OperateWrites(p)
  <2> DEFINE x == WritesKey(call[p].req.t, call[p].req.ns, call[p].req.id)
  <2>1. call[p].req \in WritesReq /\ call[p].req.id \in Id /\ call[p].pc = "operate"
    BY <1>0, <1>3 DEF OperateWrites, InMethod, WritesReq
  <2>2. CASE k = x
    BY <1>3, <2>1, <2>2 DEF OperateWrites, WritesUpserted
  <2>3. CASE k # x
    BY <1>3, <2>3 DEF OperateWrites, Kept, SameBins, Stored, DbTypeOK
  <2> QED
    BY <2>2, <2>3
<1> QED
  BY <1>1, <1>2, <1>3

(* Reads keep every record.                                                *)
LEMMA ReadingStep ==
  ASSUME TypeOK, NEW p \in Proc, NEW k \in Key,
         GetLatest(p) \/ GetCheckpoint(p) \/ TouchLatest(p) \/ GetWrites(p)
  PROVE  Kept(k)
<1> USE TypeHalves DEF CallTypeOK, At
<1>0. InMethod(call[p])
  OBVIOUS
<1>1. CASE GetLatest(p)
  BY <1>0, <1>1, KeyTypes, ReadKeepsBins DEF GetLatest, InMethod, GetReq, Kept, SameBins
<1>2. CASE GetCheckpoint(p)
  BY <1>0, <1>2, KeyTypes, ReadKeepsBins
     DEF GetCheckpoint, InMethod, GetReq, ListReq, Kept, SameBins
<1>3. CASE TouchLatest(p)
  BY <1>0, <1>3, KeyTypes, ReadKeepsBins
     DEF TouchLatest, InMethod, GetReq, ListReq, Kept, SameBins
<1>4. CASE GetWrites(p)
  BY <1>0, <1>4, KeyTypes, ReadKeepsBins
     DEF GetWrites, InMethod, GetReq, ListReq, Kept, SameBins
<1> QED
  BY <1>1, <1>2, <1>3, <1>4

LEMMA RemovingStep ==
  ASSUME TypeOK, NEW p \in Proc, NEW k \in Key, RemoveRecord(p)
  PROVE  Kept(k) \/ Removed(p, k)
<1> USE TypeHalves DEF CallTypeOK, At
<1>1. PICK x \in call[p].found : db' = [db EXCEPT ![x] = Absent]
  BY DEF RemoveRecord
<1>2. CASE k = x
  BY <1>1, <1>2 DEF RemoveRecord, Removed, Stored, DbTypeOK
<1>3. CASE k # x
  BY <1>1, <1>3 DEF Kept, SameBins, Stored, DbTypeOK
<1> QED
  BY <1>2, <1>3

LEMMA TickStep ==
  ASSUME TypeOK, NEW k \in Key, Tick
  PROVE  Aged(k)
<1>1. db'[k] = Age(db[k])
  BY DEF Tick
<1>2. CASE db[k] = Absent \/ db[k].left = 1
  BY <1>1, <1>2 DEF Age, Aged, Stored
<1>3. CASE db[k] # Absent /\ db[k].left # 1
  <2>1. db'[k] = [db[k] EXCEPT !.left = @ - 1]
    BY <1>1, <1>3 DEF Age
  <2>2. db[k] \in Record(k.set) /\ k.set \in {"cp", "writes", "meta"}
    BY <1>3 DEF TypeOK, Key
  <2>3. SameBins(k)
    BY <2>1, <2>2 DEF SameBins, Record
  <2>4. Stored(k) /\ Stored(k)'
    BY <1>3, <2>1, <2>2, TypeHalves, AgedType, AbsentAssumption DEF Stored, Tick
  <2> QED
    BY <2>3, <2>4 DEF Aged
<1> QED
  BY <1>2, <1>3

(* All of it: a record is kept, written by the request it belongs to,      *)
(* removed by a delete that found it, or ages.                             *)
LEMMA RecordStep ==
  ASSUME TypeOK, [Next]_vars, NEW k \in Key
  PROVE  \/ Kept(k)
         \/ \E p \in Proc : \/ CpWritten(p, k) \/ PointerWritten(p, k)
                            \/ WritesUpserted(p, k) \/ Removed(p, k)
         \/ Tick /\ Aged(k)
<1>1. CASE UNCHANGED db
  BY <1>1 DEF Kept, SameBins, Stored
<1>2. CASE Tick
  BY <1>2, TickStep
<1>3. ASSUME NEW p \in Proc, Step(p) PROVE
        Kept(k) \/ CpWritten(p, k) \/ PointerWritten(p, k) \/ WritesUpserted(p, k) \/ Removed(p, k)
  <2>1. CASE Query(p) \/ Scan(p) \/ Fail(p) \/ Return(p)
    BY <2>1 DEF Query, Scan, Fail, Return, Kept, SameBins, Stored
  <2> QED
    BY <1>3, <2>1, WritingStep, ReadingStep, RemovingStep DEF Step
<1>4. CASE \E p \in Proc : \E r \in Calls[p] : Begin(p, r)
  BY <1>1, <1>4 DEF Begin
<1> QED
  BY <1>1, <1>2, <1>3, <1>4 DEF Next, vars
(* The methods' own steps between requests keep the request.               *)
LEMMA NextItemKeeps ==
  ASSUME NEW c \in CallState
  PROVE  NextItem(c).req = c.req /\ NextItem(c).pc \in {"get_cp", "done"}
         /\ NextItem(c).found = c.found
BY DEF NextItem, Done, CallState

LEMMA AfterTupleKeeps ==
  ASSUME NEW c \in CallState
  PROVE  AfterTuple(c).req = c.req /\ AfterTuple(c).pc \in {"get_cp", "done"}
         /\ AfterTuple(c).found = c.found
BY NextItemKeeps DEF AfterTuple, Done, CallState

LEMMA GotTupleKeeps ==
  ASSUME NEW c \in CallState, c.req \in GetReq \cup ListReq, InMethod(c), c.found = {},
         c.id \in Id, NEW writes \in SUBSET Item
  PROVE  GotTuple(c, writes).req = c.req /\ GotTuple(c, writes).pc \in {"get_cp", "done"}
         /\ GotTuple(c, writes).found = {}
<1> DEFINE tuple == [ns |-> c.req.ns, id |-> c.id, parent |-> c.parent, writes |-> writes]
           with == IF Wanted(c) THEN [c EXCEPT !.out = Append(@, tuple)] ELSE c
<1>1. Append(c.out, tuple) \in Seq(Tuple)
  BY DEF Tuple, CallState, GetReq, ListReq
<1>2. with \in CallState /\ with.req = c.req /\ with.found = {}
  <2> HIDE DEF tuple
  <2> QED
    BY <1>1 DEF CallState
<1>3. GotTuple(c, writes) = AfterTuple(with)
  BY DEF GotTuple
<1> HIDE DEF with
<1> QED
  BY <1>2, <1>3, AfterTupleKeeps

LEMMA NextRemovalKeeps ==
  ASSUME NEW c \in CallState
  PROVE  NextRemoval(c).req = c.req /\ NextRemoval(c).pc \in {"remove", "query", "done"}
         /\ NextRemoval(c).found = c.found
BY DEF NextRemoval, Done, CallState

(* How a call in progress moves: its request stays, what it has found grows *)
(* only by a query of its own thread, and only a put's own steps move a put. *)
Progress(p) ==
  /\ call'[p].req = call[p].req
  /\ call'[p].found \subseteq call[p].found \cup Matching(call[p].set, call[p].req.t)
  /\ \/ call'[p].pc = "failed"
     \/ call[p].pc = "put_cp" /\ call'[p].pc = "put_latest"
     \/ call[p].pc = "put_latest" /\ call'[p].pc = "done"
     \/ call[p].pc = "operate" /\ call'[p].pc = "done"
     \/ /\ call[p].req \in GetReq \cup ListReq \cup DeleteReq
        /\ call'[p].pc \in {"get_cp", "touch", "get_writes", "query", "scan", "remove", "done"}

(* For an action that ends in Reply(p, c) it is enough to look at c.       *)
LEMMA ReplyProgress ==
  ASSUME CallTypeOK, NEW p \in Proc, NEW c, Reply(p, c),
         c.req = call[p].req, c.found \subseteq call[p].found,
         \/ call[p].pc = "put_cp" /\ c.pc = "put_latest"
         \/ call[p].pc = "put_latest" /\ c.pc = "done"
         \/ call[p].pc = "operate" /\ c.pc = "done"
         \/ /\ call[p].req \in GetReq \cup ListReq \cup DeleteReq
            /\ c.pc \in {"get_cp", "touch", "get_writes", "query", "scan", "remove", "done"}
  PROVE  Progress(p)
<1> DEFINE f == [call[p] EXCEPT !.pc = "failed"]
<1>1. f.req = call[p].req /\ f.found = call[p].found /\ f.pc = "failed"
  BY DEF CallTypeOK, CallState
<1>2. call'[p] = c \/ call'[p] = f
  BY DEF Reply, CallTypeOK
<1> HIDE DEF f
<1> QED
  BY <1>1, <1>2 DEF Progress

LEMMA StepProgress ==
  ASSUME TypeOK, NEW p \in Proc, Step(p), ~Return(p)
  PROVE  Progress(p)
<1> USE TypeHalves DEF At
<1>0. call[p] \in CallState /\ InMethod(call[p])
  BY DEF CallTypeOK
<1>1. CASE PutCheckpoint(p)
  <2> DEFINE c == [call[p] EXCEPT !.pc = "put_latest"]
  <2>1. Reply(p, c) /\ call[p].pc = "put_cp"
    BY <1>1 DEF PutCheckpoint
  <2>2. c.req = call[p].req /\ c.found = call[p].found /\ c.pc = "put_latest"
    BY <1>0 DEF CallState
  <2> HIDE DEF c
  <2> QED
    BY <2>1, <2>2, ReplyProgress
<1>2. CASE PutLatest(p) \/ OperateWrites(p)
  <2> DEFINE c == Done(call[p])
  <2>1. Reply(p, c) /\ call[p].pc \in {"put_latest", "operate"}
    BY <1>2 DEF PutLatest, OperateWrites
  <2>2. c.req = call[p].req /\ c.found = call[p].found /\ c.pc = "done"
    BY <1>0 DEF CallState, Done
  <2> HIDE DEF c
  <2> QED
    BY <2>1, <2>2, ReplyProgress
<1>3. CASE GetLatest(p)
  <2> DEFINE k == LatestKey(call[p].req.t, call[p].req.ns)
             c == IF Stored(k) THEN [call[p] EXCEPT !.pc = "get_cp", !.id = db[k].id]
                               ELSE Done(call[p])
  <2>1. Reply(p, c) /\ call[p].req \in GetReq
    BY <1>0, <1>3 DEF GetLatest, InMethod
  <2>2. c.req = call[p].req /\ c.found = call[p].found /\ c.pc \in {"get_cp", "done"}
    BY <1>0 DEF CallState, Done
  <2> HIDE DEF c
  <2> QED
    BY <2>1, <2>2, ReplyProgress
<1>4. CASE GetCheckpoint(p)
  <2> DEFINE k == CpKey(call[p].req.t, call[p].req.ns, call[p].id)
             got == [call[p] EXCEPT !.parent = db[k].parent,
               !.pc = IF ~ByLatest(call[p]) /\ Refresh THEN "touch" ELSE "get_writes"]
             c == IF Stored(k) THEN got ELSE NoTuple(call[p])
  <2>1. Reply(p, c) /\ call[p].req \in GetReq \cup ListReq
    BY <1>0, <1>4 DEF GetCheckpoint, InMethod
  <2>2. got.req = call[p].req /\ got.found = call[p].found /\ got.pc \in {"touch", "get_writes"}
    BY <1>0 DEF CallState
  <2>3. /\ NoTuple(call[p]).req = call[p].req /\ NoTuple(call[p]).found = call[p].found
        /\ NoTuple(call[p]).pc \in {"get_cp", "done"}
    BY <1>0, AfterTupleKeeps DEF NoTuple
  <2>4. /\ c.req = call[p].req /\ c.found = call[p].found
        /\ c.pc \in {"touch", "get_writes", "get_cp", "done"}
    <3> HIDE DEF got
    <3> QED
      BY <2>2, <2>3
  <2> HIDE DEF c
  <2> QED
    BY <2>1, <2>4, ReplyProgress
<1>5. CASE TouchLatest(p)
  <2> DEFINE c == [call[p] EXCEPT !.pc = "get_writes"]
  <2>1. Reply(p, c) /\ call[p].req \in GetReq \cup ListReq
    BY <1>0, <1>5 DEF TouchLatest, InMethod
  <2>2. c.req = call[p].req /\ c.found = call[p].found /\ c.pc = "get_writes"
    BY <1>0 DEF CallState
  <2> HIDE DEF c
  <2> QED
    BY <2>1, <2>2, ReplyProgress
<1>6. CASE GetWrites(p)
  <2> DEFINE k == WritesKey(call[p].req.t, call[p].req.ns, call[p].id)
             c == GotTuple(call[p], WritesAt(k))
  <2>1. call[p].req \in GetReq \cup ListReq /\ call[p].id \in Id /\ call[p].found = {}
    BY <1>0, <1>6 DEF GetWrites, InMethod
  <2>2. k \in Key /\ k.set = "writes"
    BY <2>1, KeyTypes DEF GetReq, ListReq
  <2>3. WritesAt(k) \in SUBSET Item
    <3> HIDE DEF k
    <3> QED
      BY <2>2 DEF WritesAt, Stored, DbTypeOK, Record
  <2>4. c.req = call[p].req /\ c.pc \in {"get_cp", "done"} /\ c.found = {}
    <3> HIDE DEF k
    <3> QED
      BY <1>0, <2>1, <2>3, GotTupleKeeps
  <2>5. Reply(p, c)
    BY <1>6 DEF GetWrites
  <2> HIDE DEF c
  <2> QED
    BY <2>1, <2>4, <2>5, ReplyProgress
<1>7. CASE Query(p)
  <2>1. call'[p] = [call[p] EXCEPT !.pc = "scan", !.found = Matching(call[p].set, call[p].req.t)]
    BY <1>7 DEF Query, CallTypeOK
  <2>2. call[p].req \in ListReq \cup DeleteReq
    BY <1>0, <1>7 DEF Query, InMethod
  <2> QED
    BY <1>0, <2>1, <2>2 DEF Progress, CallState
<1>8. CASE Scan(p)
  <2> DEFINE now == Matching(call[p].set, call[p].req.t)
             listed(keys) == [call[p] EXCEPT !.found = {}, !.ids = Listing(call[p], keys)]
             doomed(keys) == [call[p] EXCEPT !.found = keys]
             next(keys) == IF call[p].req.op = "list" THEN NextItem(listed(keys))
                                                      ELSE NextRemoval(doomed(keys))
  <2>1. PICK keys \in SUBSET (call[p].found \cup now) : call' = [call EXCEPT ![p] = next(keys)]
    BY <1>8 DEF Scan
  <2>2. keys \in SUBSET Key /\ \A k \in keys : k.set = call[p].set
    BY <1>0, <2>1 DEF Matching, CallState, InMethod
  <2>3. call[p].req \in ListReq \cup DeleteReq /\ (call[p].req.op = "list" => call[p].set = "cp")
    BY <1>0, <1>8 DEF Scan, InMethod, ListReq, DeleteReq
  <2>4. doomed(keys) \in CallState
    BY <1>0, <2>2 DEF CallState
  <2>5. call[p].set = "cp" => listed(keys) \in CallState
    <3>1. call[p].set = "cp" => Listing(call[p], keys) \in SUBSET Id
      BY <2>2 DEF Listing, Key
    <3> HIDE DEF Listing
    <3> QED
      BY <1>0, <3>1 DEF CallState
  <2>6. listed(keys).req = call[p].req /\ listed(keys).found = {}
        /\ doomed(keys).req = call[p].req /\ doomed(keys).found = keys
    BY <1>0 DEF CallState
  <2>7. /\ next(keys).req = call[p].req /\ next(keys).found \subseteq keys
        /\ next(keys).pc \in {"get_cp", "remove", "query", "done"}
    <3> HIDE DEF listed, doomed
    <3> QED
      BY <2>3, <2>4, <2>5, <2>6, NextItemKeeps, NextRemovalKeeps
  <2>8. call'[p] = next(keys)
    BY <2>1 DEF CallTypeOK
  <2> HIDE DEF next
  <2> QED
    BY <2>3, <2>7, <2>8 DEF Progress
<1>9. CASE RemoveRecord(p)
  <2> DEFINE rest(k) == [call[p] EXCEPT !.found = @ \ {k}]
  <2>1. PICK k \in call[p].found : Reply(p, NextRemoval(rest(k)))
    BY <1>9 DEF RemoveRecord
  <2>2. rest(k) \in CallState /\ rest(k).req = call[p].req /\ rest(k).found \subseteq call[p].found
    BY <1>0 DEF CallState
  <2>3. /\ NextRemoval(rest(k)).req = call[p].req
        /\ NextRemoval(rest(k)).found \subseteq call[p].found
        /\ NextRemoval(rest(k)).pc \in {"remove", "query", "done"}
    <3> HIDE DEF rest
    <3> QED
      BY <2>2, NextRemovalKeeps
  <2>4. call[p].req \in DeleteReq
    BY <1>0, <1>9 DEF RemoveRecord, InMethod
  <2> HIDE DEF rest
  <2> QED
    BY <2>1, <2>3, <2>4, ReplyProgress
<1>10. CASE Fail(p)
  <2>1. call'[p] = [call[p] EXCEPT !.pc = "failed"]
    BY <1>10 DEF Fail, CallTypeOK
  <2> QED
    BY <1>0, <2>1 DEF Progress, CallState
<1> QED
  BY <1>1, <1>2, <1>3, <1>4, <1>5, <1>6, <1>7, <1>8, <1>9, <1>10 DEF Step

(* Where a step of the system leaves a process.                            *)
LEMMA CallMove ==
  ASSUME TypeOK, [Next]_vars, NEW p \in Proc
  PROVE  \/ call'[p] = call[p] \/ call'[p] = NoCall
         \/ \E r \in Calls[p] : Begin(p, r)
         \/ Step(p) /\ Progress(p)
<1>1. CASE UNCHANGED vars \/ Tick
  BY <1>1 DEF vars, Tick
<1>2. ASSUME NEW q \in Proc, q # p, Step(q) \/ \E r \in Calls[q] : Begin(q, r)
      PROVE  call'[p] = call[p]
  BY <1>2, TypeHalves, OthersStay
<1>3. CASE Return(p)
  BY <1>3 DEF Return, TypeOK
<1>4. CASE Step(p) /\ ~Return(p)
  BY <1>4, StepProgress
<1> QED
  BY <1>1, <1>2, <1>3, <1>4 DEF Next

LEMMA CallStep ==
  ASSUME TypeOK, [Next]_vars, NEW p \in Proc
  PROVE  \/ call'[p] = call[p]
         \/ call'[p] = NoCall
         \/ \E r \in Request : /\ call'[p].req = r /\ call'[p].pc = FirstPc(r)
                               /\ call'[p].found = {} /\ UNCHANGED db
         \/ Step(p) /\ Progress(p)
<1>1. ASSUME NEW r \in Calls[p], Begin(p, r)
      PROVE  /\ call'[p].req = r /\ call'[p].pc = FirstPc(r) /\ r \in Request
             /\ call'[p].found = {} /\ UNCHANGED db
  BY <1>1, CallsAssumption DEF Begin, NoCall, TypeOK
<1> QED
  BY <1>1, CallMove
-----------------------------------------------------------------------------
(* The index.  IndexIsExact is inductive given TypeOK.                     *)

LEMMA IndexStep == TypeOK /\ IndexIsExact /\ [Next]_vars => IndexIsExact'
<1> SUFFICES ASSUME TypeOK, IndexIsExact, [Next]_vars PROVE IndexIsExact'
  OBVIOUS
<1>1. ASSUME NEW k \in Key, Stored(k)' PROVE db'[k].thread = k.t
  <2>1. CASE Kept(k) \/ Aged(k)
    BY <1>1, <2>1 DEF Kept, Aged, SameBins, IndexIsExact
  <2>2. ASSUME NEW p \in Proc, CpWritten(p, k) \/ PointerWritten(p, k) \/ WritesUpserted(p, k)
        PROVE  db'[k].thread = k.t
    BY <2>2 DEF CpWritten, PointerWritten, WritesUpserted, TypeOK, CpKey, LatestKey, WritesKey
  <2> QED
    BY <1>1, <2>1, <2>2, RecordStep DEF Removed
<1>2. ASSUME NEW p \in Proc, NEW k \in call'[p].found PROVE k.t = call'[p].req.t
  <2>1. CASE call'[p] = call[p]
    BY <1>2, <2>1 DEF IndexIsExact
  <2>2. CASE call'[p].found = {}
    BY <1>2, <2>2
  <2>3. CASE Progress(p)
    <3>1. CASE k \in call[p].found
      BY <2>3, <3>1 DEF Progress, IndexIsExact
    <3>2. CASE k \in Matching(call[p].set, call[p].req.t)
      BY <2>3, <3>2 DEF Progress, Matching, IndexIsExact
    <3> QED
      BY <1>2, <2>3, <3>1, <3>2 DEF Progress
  <2> QED
    BY <2>1, <2>2, <2>3, CallStep DEF NoCall
<1> QED
  BY <1>1, <1>2 DEF IndexIsExact

(* The thread_id bin by which delete_thread finds a record is always that  *)
(* of its key, so no delete ever marks a record of another thread.         *)
THEOREM IndexExact == Spec => []IndexIsExact
<1>1. Init => IndexIsExact
  BY DEF Init, IndexIsExact, Stored, NoCall
<1>2. TypeOK /\ IndexIsExact /\ [Next]_vars => IndexIsExact'
  BY IndexStep
<1> QED
  BY <1>1, <1>2, TypeCorrect, PTL DEF Spec

-----------------------------------------------------------------------------
(* No lost update.                                                         *)

(* Upserting loses only entries whose slot the new ones take.              *)
LEMMA UpsertKeepsOthers ==
  ASSUME NEW old, NEW new, NEW w \in old, w \notin Upsert(old, new)
  PROVE  \E n \in Upsert(old, new) : SameSlot(n, w)
BY DEF Upsert, SameSlot

LEMMA NothingIsLostStep ==
  ASSUME TypeOK, TypeOK', IndexIsExact, [Next]_vars, NEW f \in Facts \ Facts'
  PROVE  \/ db[f[1]].left = 1 /\ ~Stored(f[1])'
         \/ \E p \in Proc : At(p, "remove") /\ call[p].req.t = f[1].t /\ ~Stored(f[1])'
         \/ Len(f) = 2 /\ \E w \in WritesAt(f[1])' : SameSlot(w, f[2])
<1>1. PICK k \in Key : /\ Stored(k) /\ f[1] = k
                       /\ \/ f = <<k>>
                          \/ k.set = "writes" /\ \E w \in db[k].writes : f = <<k, w>>
  <2>1. CASE \E k \in Key : Stored(k) /\ f = <<k>>
    BY <2>1
  <2>2. CASE \E k \in Key : k.set = "writes" /\ \E w \in WritesAt(k) : f = <<k, w>>
    BY <2>2 DEF WritesAt
  <2> QED
    BY <2>1, <2>2 DEF Facts
<1>2. CASE ~Stored(k)'
  <2>1. ~Kept(k)
    BY <1>1, <1>2 DEF Kept
  <2>2. ASSUME NEW p \in Proc
        PROVE  ~CpWritten(p, k) /\ ~PointerWritten(p, k) /\ ~WritesUpserted(p, k)
    BY <1>2, WrittenIsStored
  <2>3. CASE Aged(k)
    BY <1>1, <1>2, <2>3 DEF Aged
  <2>4. ASSUME NEW p \in Proc, Removed(p, k) PROVE At(p, "remove") /\ call[p].req.t = f[1].t
    BY <1>1, <2>4 DEF Removed, At, IndexIsExact
  <2> QED
    BY <1>1, <1>2, <2>1, <2>2, <2>3, <2>4, RecordStep
<1>3. CASE Stored(k)'
  <2>1. PICK w \in db[k].writes : k.set = "writes" /\ f = <<k, w>>
    BY <1>1, <1>3 DEF Facts
  <2>2. w \notin db'[k].writes
    BY <1>3, <2>1 DEF Facts, WritesAt
  <2>3. ~Kept(k) /\ ~Aged(k)
    BY <1>1, <1>3, <2>1, <2>2 DEF Kept, Aged, SameBins
  <2>4. ASSUME NEW p \in Proc PROVE ~CpWritten(p, k) /\ ~PointerWritten(p, k) /\ ~Removed(p, k)
    BY <1>3, <2>1 DEF CpWritten, PointerWritten, Removed, CpKey, LatestKey
  <2>5. PICK p \in Proc : WritesUpserted(p, k)
    BY <2>3, <2>4, RecordStep
  <2> DEFINE new == ItemsOf(call[p].req.task, call[p].req.writes)
  <2>6. db'[k].writes = Upsert(db[k].writes, new)
    BY <1>1, <2>5 DEF WritesUpserted, TypeOK, WritesAt
  <2>7. \E n \in db'[k].writes : SameSlot(n, w)
    BY <2>2, <2>6, UpsertKeepsOthers
  <2> QED
    BY <1>1, <1>3, <2>1, <2>7 DEF WritesAt
<1> QED
  BY <1>2, <1>3

(* Concurrent callers never lose each other's records or pending writes:   *)
(* one goes only by its lifetime, by a delete of its own thread, or by an  *)
(* upsert of its own task and index.                                       *)
THEOREM NoLostUpdate == Spec => NothingIsLost
<1>1. TypeOK /\ TypeOK' /\ IndexIsExact /\ [Next]_vars
        => [\A f \in Facts \ Facts' :
              \/ db[f[1]].left = 1 /\ ~Stored(f[1])'
              \/ \E p \in Proc : At(p, "remove") /\ call[p].req.t = f[1].t /\ ~Stored(f[1])'
              \/ Len(f) = 2 /\ \E w \in WritesAt(f[1])' : SameSlot(w, f[2])]_vars
  BY NothingIsLostStep
<1> QED
  BY <1>1, TypeCorrect, IndexExact, PTL DEF Spec, NothingIsLost

-----------------------------------------------------------------------------
(* The pointer and its checkpoint.                                         *)

(* What makes LatestNamesStored and AcknowledgedPutIsStored inductive: a   *)
(* put that is about to write the pointer has stored the checkpoint.       *)
PutHasStored ==
  \A p \in Proc :
    /\ At(p, "put_latest") =>
         WasStored(CpKey(call[p].req.t, call[p].req.ns, call[p].req.id))
    /\ At(p, "done") /\ call[p].req.op = "put" =>
         call[p].req \in PutReq /\ call[p].req.id \in Id

PointerInv == LatestNamesStored /\ PutHasStored /\ AcknowledgedPutIsStored

(* The keys of a put.                                                      *)
PutCp(r)     == CpKey(r.t, r.ns, r.id)
PutLatestOf(r) == LatestKey(r.t, r.ns)

LEMMA PutKeys ==
  ASSUME NEW r \in PutReq, r.id \in Id
  PROVE  PutCp(r) \in Key /\ PutLatestOf(r) \in Key
BY KeyTypes DEF PutReq, PutCp, PutLatestOf

(* A put goes on only when its request has been stored.                    *)
LEMMA PutStores ==
  ASSUME TypeOK, NEW p \in Proc, Step(p), NEW r, r = call[p].req, NEW k
  PROVE  /\ call[p].pc = "put_cp" /\ call'[p].pc = "put_latest" /\ k = PutCp(r) => Stored(k)'
         /\ call[p].pc = "put_latest" /\ call'[p].pc = "done" /\ k = PutLatestOf(r) => Stored(k)'
<1> USE TypeHalves
<1>0. call[p] \in CallState /\ InMethod(call[p])
  BY DEF CallTypeOK
<1>1. ASSUME call[p].pc = "put_cp", call'[p].pc = "put_latest", k = PutCp(r)
      PROVE  Stored(k)'
  <2>1. ~Fail(p)
    BY <1>0, <1>1 DEF Fail, CallTypeOK, CallState
  <2>2. PutCheckpoint(p)
    BY <1>1, <2>1 DEF Step, At, PutLatest, OperateWrites, GetLatest, GetCheckpoint,
       TouchLatest, GetWrites, Query, Scan, RemoveRecord, Return
  <2>3. r \in PutReq /\ r.id \in Id
    BY <1>0, <1>1 DEF InMethod, PutReq
  <2>4. k \in Key
    BY <1>1, <2>3, PutKeys
  <2>5. CpWritten(p, k)
    BY <1>1, <2>2, <2>3 DEF PutCheckpoint, CpWritten, PutCp
  <2> QED
    BY <2>4, <2>5, WrittenIsStored
<1>2. ASSUME call[p].pc = "put_latest", call'[p].pc = "done", k = PutLatestOf(r)
      PROVE  Stored(k)'
  <2>1. ~Fail(p)
    BY <1>0, <1>2 DEF Fail, CallTypeOK, CallState
  <2>2. PutLatest(p)
    BY <1>2, <2>1 DEF Step, At, PutCheckpoint, OperateWrites, GetLatest, GetCheckpoint,
       TouchLatest, GetWrites, Query, Scan, RemoveRecord, Return
  <2>3. r \in PutReq /\ r.id \in Id
    BY <1>0, <1>2 DEF InMethod, PutReq
  <2>4. k \in Key
    BY <1>2, <2>3, PutKeys
  <2>5. PointerWritten(p, k)
    BY <1>2, <2>2, <2>3 DEF PutLatest, PointerWritten, PutLatestOf
  <2> QED
    BY <2>4, <2>5, WrittenIsStored
<1> QED
  BY <1>1, <1>2

LEMMA PointerInvStep == TypeOK /\ TypeOK' /\ PointerInv /\ [Next]_vars => PointerInv'
<1> SUFFICES ASSUME TypeOK, TypeOK', PointerInv, [Next]_vars PROVE PointerInv'
  OBVIOUS
<1> USE DEF At
<1>1. ASSUME NEW p \in Proc, call'[p].pc = "put_latest", NEW k, k = PutCp(call'[p].req)
      PROVE  WasStored(k)'
  <2>0. call'[p].req \in PutReq /\ call'[p].req.id \in Id /\ k \in Key
    BY <1>1, PutKeys DEF TypeOK, InMethod, PutReq
  <2>1. CASE call'[p] = call[p]
    BY <1>1, <2>0, <2>1, WasStoredStays DEF PointerInv, PutHasStored, PutCp
  <2>2. CASE Step(p) /\ Progress(p)
    <3>1. call[p].pc = "put_cp" /\ call'[p].req = call[p].req
      BY <1>1, <2>2 DEF Progress
    <3> QED
      BY <1>1, <2>2, <3>1, PutStores DEF WasStored
  <2>3. call'[p] # NoCall /\ \A r \in Request : call'[p].pc # FirstPc(r)
    BY <1>1 DEF NoCall, FirstPc, Request, PutReq, WritesReq, GetReq, ListReq, DeleteReq
  <2> QED
    BY <2>1, <2>2, <2>3, CallStep
<1>2. ASSUME NEW p \in Proc, call'[p].pc = "done", call'[p].req.op = "put"
      PROVE  /\ call'[p].req \in PutReq /\ call'[p].req.id \in Id
             /\ \A k \in {PutCp(call'[p].req), PutLatestOf(call'[p].req)} : WasStored(k)'
  <2>1. CASE call'[p] = call[p]
    <3>1. call[p].req \in PutReq /\ call[p].req.id \in Id
      BY <1>2, <2>1 DEF PointerInv, PutHasStored
    <3>2. \A k \in {PutCp(call[p].req), PutLatestOf(call[p].req)} : WasStored(k) /\ k \in Key
      BY <1>2, <2>1, <3>1, PutKeys DEF PointerInv, AcknowledgedPutIsStored, PutCp, PutLatestOf
    <3> QED
      BY <2>1, <3>1, <3>2, WasStoredStays
  <2>2. CASE Step(p) /\ Progress(p)
    <3>1. call'[p].req = call[p].req
      BY <2>2 DEF Progress
    <3>2. call[p].pc = "put_latest"
      <4>1. call[p].req.op = "put" => call[p].req \notin GetReq \cup ListReq \cup DeleteReq
        BY DEF GetReq, ListReq, DeleteReq
      <4>2. call[p].req.op = "put" => call[p].pc # "operate"
        BY DEF TypeOK, InMethod, WritesReq
      <4> QED
        BY <1>2, <2>2, <3>1, <4>1, <4>2 DEF Progress
    <3>3. call[p].req \in PutReq /\ call[p].req.id \in Id
      BY <3>2 DEF TypeOK, InMethod, PutReq
    <3>4. ASSUME NEW k, k = PutCp(call[p].req) PROVE WasStored(k)'
      BY <3>2, <3>3, <3>4, PutKeys, WasStoredStays DEF PointerInv, PutHasStored, PutCp
    <3>5. ASSUME NEW k, k = PutLatestOf(call[p].req) PROVE WasStored(k)'
      BY <1>2, <2>2, <3>2, <3>5, PutStores DEF WasStored
    <3> QED
      BY <3>1, <3>3, <3>4, <3>5
  <2>3. call'[p] # NoCall
    BY <1>2 DEF NoCall
  <2>4. ~\E r \in Request : call'[p].req = r /\ call'[p].pc = FirstPc(r)
    BY <1>2 DEF FirstPc, Request, PutReq, WritesReq, GetReq, ListReq, DeleteReq
  <2> QED
    BY <2>1, <2>2, <2>3, <2>4, CallStep
<1>3. ASSUME NEW t \in Thread, NEW ns \in Ns, NEW k, k = LatestKey(t, ns), Stored(k)',
             NEW x, x = CpKey(t, ns, db'[k].id)
      PROVE  WasStored(x)'
  <2>0. k \in Key /\ k.set = "meta"
    BY <1>3, KeyTypes
  <2>1. CASE Stored(k) /\ db'[k].id = db[k].id
    <3>1. db[k].id \in Id
      BY <2>0, <2>1 DEF TypeOK, Stored, Record
    <3>2. WasStored(x)
      BY <1>3, <2>1 DEF PointerInv, LatestNamesStored
    <3>3. x \in Key
      BY <1>3, <2>1, <3>1, KeyTypes
    <3> QED
      BY <3>2, <3>3, WasStoredStays
  <2>2. ASSUME NEW p \in Proc, PointerWritten(p, k) PROVE WasStored(x)'
    <3>1. /\ call[p].req \in PutReq /\ call[p].req.id \in Id /\ call[p].pc = "put_latest"
          /\ t = call[p].req.t /\ ns = call[p].req.ns
      BY <1>3, <2>2 DEF PointerWritten, LatestKey
    <3>2. db'[k].id = call[p].req.id
      BY <2>0, <2>2 DEF PointerWritten, TypeOK
    <3>3. x = PutCp(call[p].req)
      BY <1>3, <3>1, <3>2 DEF PutCp
    <3>4. WasStored(x) /\ x \in Key
      BY <3>1, <3>3, PutKeys DEF PointerInv, PutHasStored, PutCp
    <3> QED
      BY <3>4, WasStoredStays
  <2>3. CASE Kept(k) \/ Aged(k)
    BY <1>3, <2>0, <2>1, <2>3 DEF Kept, Aged, SameBins
  <2>4. ASSUME NEW p \in Proc PROVE ~CpWritten(p, k) /\ ~WritesUpserted(p, k) /\ ~Removed(p, k)
    BY <1>3, <2>0 DEF CpWritten, WritesUpserted, Removed, CpKey, WritesKey
  <2> QED
    BY <2>0, <2>2, <2>3, <2>4, RecordStep
<1>4. LatestNamesStored'
  BY <1>3 DEF LatestNamesStored
<1>5. PutHasStored'
  BY <1>1, <1>2 DEF PutHasStored, PutCp
<1>6. AcknowledgedPutIsStored'
  BY <1>2 DEF AcknowledgedPutIsStored, PutCp, PutLatestOf
<1> QED
  BY <1>4, <1>5, <1>6 DEF PointerInv

LEMMA PointerInvInit == Init => PointerInv
BY DEF Init, PointerInv, LatestNamesStored, PutHasStored, AcknowledgedPutIsStored, Stored,
       At, NoCall, LatestKey, Key

LEMMA PointerInvariant == Spec => []PointerInv
<1>1. Init => PointerInv
  BY PointerInvInit
<1>2. TypeOK /\ TypeOK' /\ PointerInv /\ [Next]_vars => PointerInv'
  BY PointerInvStep
<1> QED
  BY <1>1, <1>2, TypeCorrect, PTL DEF Spec

(* Whatever fails or races, the pointer never names a checkpoint that was  *)
(* not stored.                                                             *)
THEOREM LatestNeverAhead == Spec => []LatestNamesStored
BY PointerInvariant, PTL DEF PointerInv

(* A put that returned without an error stored both its records.           *)
THEOREM AcknowledgedPuts == Spec => []AcknowledgedPutIsStored
BY PointerInvariant, PTL DEF PointerInv
-----------------------------------------------------------------------------
(* Upserts.                                                                *)

(* Where nothing goes by itself or by a delete.                            *)
NothingGoes == Ttl = 0 /\ \A p \in Proc : \A r \in Calls[p] : r.op # "delete"

OnePerSlot(items) == \A a, b \in items : SameSlot(a, b) => a = b

Covers(items, new) == \A n \in new : \E o \in items : SameSlot(o, n)

(* What makes EachWriteHasOneEntry inductive: a record never has two       *)
(* entries for one slot, and what a call has written stays, or gives way   *)
(* to an entry of its slot.                                                *)
EntryInv ==
  /\ \A k \in Key : k.set = "writes" => OnePerSlot(WritesAt(k))
  /\ \A p \in Proc : call[p].pc # "idle" => call[p].req.op # "delete"
  /\ \A p \in Proc :
       LET r == call[p].req IN
       call[p].pc = "done" /\ r.op = "put_writes" /\ r.id # NoId =>
         /\ r \in WritesReq /\ r.id \in Id
         /\ Covers(WritesAt(WritesKey(r.t, r.ns, r.id)), ItemsOf(r.task, r.writes))

(* Of the writes of one call with one slot only the last is kept.          *)
LEMMA ItemsOnePerSlot ==
  ASSUME NEW task, NEW ws \in Seq(Channel \X Value)
  PROVE  OnePerSlot(ItemsOf(task, ws))
<1> DEFINE item(i) == [task |-> task, idx |-> IdxOf(ws, i), channel |-> ws[i][1], value |-> ws[i][2]]
           last(i) == \A j \in DOMAIN ws : j > i => IdxOf(ws, j) # IdxOf(ws, i)
<1>1. ItemsOf(task, ws) = {item(i) : i \in {i \in DOMAIN ws : last(i)}}
  BY DEF ItemsOf
<1>2. \A i : item(i).idx = IdxOf(ws, i)
  OBVIOUS
<1> SUFFICES ASSUME NEW i \in DOMAIN ws, NEW j \in DOMAIN ws, last(i), last(j),
                    IdxOf(ws, i) = IdxOf(ws, j)
             PROVE  i = j
  <2> HIDE DEF item, last
  <2> QED BY <1>1, <1>2 DEF OnePerSlot, SameSlot
<1>3. i \in Nat /\ j \in Nat
  OBVIOUS
<1> QED BY <1>3

LEMMA UpsertOnePerSlot ==
  ASSUME NEW old, NEW new, OnePerSlot(old), OnePerSlot(new)
  PROVE  OnePerSlot(Upsert(old, new))
BY DEF OnePerSlot, Upsert, SameSlot

LEMMA UpsertCovers ==
  ASSUME NEW old, NEW new
  PROVE  Covers(Upsert(old, new), new) /\ \A ns : Covers(old, ns) => Covers(Upsert(old, new), ns)
<1>1. \A o \in old : \E w \in Upsert(old, new) : SameSlot(w, o)
  BY DEF Upsert, SameSlot
<1>2. \A a, b, c : SameSlot(a, b) /\ SameSlot(b, c) => SameSlot(a, c)
  BY DEF SameSlot
<1>3. Covers(Upsert(old, new), new)
  BY DEF Covers, Upsert, SameSlot
<1> QED BY <1>1, <1>2, <1>3 DEF Covers

(* Then a record of writes changes only by upserts.                        *)
LEMMA WritesStep ==
  ASSUME NothingGoes, TypeOK, EntryInv, [Next]_vars, NEW k \in Key, k.set = "writes"
  PROVE  \/ WritesAt(k)' = WritesAt(k)
         \/ \E p \in Proc : /\ call[p].req \in WritesReq
                            /\ WritesAt(k)' = Upsert(WritesAt(k),
                                                     ItemsOf(call[p].req.task, call[p].req.writes))
<1>1. CASE Kept(k)
  BY <1>1 DEF Kept, SameBins, WritesAt
<1>2. ASSUME NEW p \in Proc, WritesUpserted(p, k)
      PROVE  /\ call[p].req \in WritesReq
             /\ WritesAt(k)' = Upsert(WritesAt(k), ItemsOf(call[p].req.task, call[p].req.writes))
  <2>1. Stored(k)'
    BY <1>2, WrittenIsStored
  <2> QED BY <1>2, <2>1 DEF WritesUpserted, WritesAt, TypeOK
<1>3. ASSUME NEW p \in Proc PROVE ~CpWritten(p, k) /\ ~PointerWritten(p, k) /\ ~Removed(p, k)
  <2>1. ~(call[p].pc = "remove")
    BY DEF EntryInv, TypeOK, InMethod, DeleteReq
  <2> QED BY <2>1 DEF CpWritten, PointerWritten, Removed, CpKey, LatestKey
<1>4. ~Tick
  BY DEF Tick, NothingGoes
<1> QED BY <1>1, <1>2, <1>3, <1>4, RecordStep

LEMMA EntryInvStep == NothingGoes /\ TypeOK /\ EntryInv /\ [Next]_vars => EntryInv'
<1> SUFFICES ASSUME NothingGoes, TypeOK, EntryInv, [Next]_vars PROVE EntryInv'
  OBVIOUS
<1>1. ASSUME NEW k \in Key, k.set = "writes" PROVE OnePerSlot(WritesAt(k)')
  <2>1. OnePerSlot(WritesAt(k))
    BY <1>1 DEF EntryInv
  <2>2. ASSUME NEW r \in WritesReq PROVE OnePerSlot(ItemsOf(r.task, r.writes))
    BY ItemsOnePerSlot DEF WritesReq
  <2> QED BY <1>1, <2>1, <2>2, WritesStep, UpsertOnePerSlot
<1>2. ASSUME NEW p \in Proc, call'[p].pc # "idle" PROVE call'[p].req.op # "delete"
  <2>1. CASE call'[p] = call[p]
    BY <1>2, <2>1 DEF EntryInv
  <2>2. CASE call'[p] = NoCall
    BY <1>2, <2>2 DEF NoCall
  <2>3. CASE Step(p) /\ Progress(p)
    <3>1. call[p].pc # "idle"
      BY <2>3 DEF Step, At, PutCheckpoint, PutLatest, OperateWrites, GetLatest, GetCheckpoint,
         TouchLatest, GetWrites, Query, Scan, RemoveRecord, Fail, Working, Return
    <3> QED BY <2>3, <3>1 DEF EntryInv, Progress
  <2>4. ASSUME NEW r \in Calls[p], Begin(p, r) PROVE call'[p].req.op # "delete"
    BY <2>4 DEF Begin, NoCall, TypeOK, NothingGoes
  <2> QED BY <2>1, <2>2, <2>3, <2>4, CallMove
<1>3. ASSUME NEW p \in Proc, NEW r, r = call'[p].req, call'[p].pc = "done",
             r.op = "put_writes", r.id # NoId, NEW k, k = WritesKey(r.t, r.ns, r.id)
      PROVE  r \in WritesReq /\ r.id \in Id /\ Covers(WritesAt(k)', ItemsOf(r.task, r.writes))
  <2>1. CASE call'[p] = call[p]
    <3>1. r \in WritesReq /\ r.id \in Id /\ Covers(WritesAt(k), ItemsOf(r.task, r.writes))
      BY <1>3, <2>1 DEF EntryInv
    <3>2. k \in Key /\ k.set = "writes"
      BY <1>3, <3>1, KeyTypes DEF WritesReq
    <3> QED BY <3>1, <3>2, WritesStep, UpsertCovers
  <2>2. call'[p] # NoCall
    BY <1>3 DEF NoCall
  <2>3. CASE Step(p) /\ Progress(p)
    <3>1. r = call[p].req
      BY <1>3, <2>3 DEF Progress
    <3>2. call[p].pc = "operate"
      <4>1. r \notin PutReq \cup GetReq \cup ListReq \cup DeleteReq
        BY <1>3 DEF PutReq, GetReq, ListReq, DeleteReq
      <4>2. call[p].pc # "put_latest"
        BY <3>1, <4>1 DEF TypeOK, InMethod
      <4> QED BY <1>3, <2>3, <3>1, <4>1, <4>2 DEF Progress
    <3>3. r \in WritesReq /\ r.id \in Id
      BY <1>3, <3>1, <3>2 DEF TypeOK, InMethod, WritesReq
    <3>4. k \in Key
      BY <1>3, <3>3, KeyTypes DEF WritesReq
    <3>5. ~Fail(p)
      BY <1>3, <3>2 DEF Fail, TypeOK, CallState
    <3>6. OperateWrites(p)
      BY <2>3, <3>2, <3>5 DEF Step, At, PutCheckpoint, PutLatest, GetLatest, GetCheckpoint,
         TouchLatest, GetWrites, Query, Scan, RemoveRecord, Return
    <3>7. WritesUpserted(p, k)
      BY <1>3, <3>1, <3>2, <3>3, <3>6 DEF OperateWrites, WritesUpserted
    <3>8. Stored(k)'
      BY <3>4, <3>7, WrittenIsStored
    <3>9. WritesAt(k)' = Upsert(WritesAt(k), ItemsOf(r.task, r.writes))
      BY <3>1, <3>4, <3>7, <3>8 DEF WritesUpserted, WritesAt, TypeOK
    <3> QED BY <3>3, <3>9, UpsertCovers
  <2>4. ASSUME NEW q \in Calls[p], Begin(p, q)
        PROVE  r \in WritesReq /\ r.id \in Id /\ Covers(WritesAt(k)', ItemsOf(r.task, r.writes))
    <3>1. r = q /\ FirstPc(q) = "done" /\ q \in Request
      BY <1>3, <2>4, CallsAssumption DEF Begin, NoCall, TypeOK
    <3>2. r \in WritesReq
      BY <1>3, <3>1 DEF Request, PutReq, GetReq, ListReq, DeleteReq
    <3>3. r.writes = <<>> /\ r.id \in Id
      BY <1>3, <3>1, <3>2 DEF FirstPc, WritesReq
    <3>4. ItemsOf(r.task, r.writes) = {}
      BY <3>3 DEF ItemsOf
    <3> QED BY <3>2, <3>3, <3>4 DEF Covers
  <2> QED BY <2>1, <2>2, <2>3, <2>4, CallMove
<1> QED BY <1>1, <1>2, <1>3 DEF EntryInv

(* Where nothing is deleted and nothing expires, each write of a call that *)
(* returned has exactly one entry, however many others wrote, retried or   *)
(* failed: the lost answer of an upsert is no harm.                        *)
THEOREM WritesHaveOneEntry == NothingGoes => (Spec => []EachWriteHasOneEntry)
<1> SUFFICES ASSUME NothingGoes PROVE Spec => []EachWriteHasOneEntry
  OBVIOUS
<1>1. Init => EntryInv
  BY DEF Init, EntryInv, OnePerSlot, WritesAt, Stored, NoCall
<1>2. TypeOK /\ EntryInv /\ [Next]_vars => EntryInv'
  BY EntryInvStep
<1>3. TypeOK /\ EntryInv => EachWriteHasOneEntry
  <2> SUFFICES ASSUME EntryInv, NEW p \in Proc, NEW r, r = call[p].req, call[p].pc = "done",
                      r.op = "put_writes", r.id # NoId, NEW n \in ItemsOf(r.task, r.writes),
                      NEW k, k = WritesKey(r.t, r.ns, r.id)
               PROVE  \E o \in WritesAt(k) : {w \in WritesAt(k) : SameSlot(w, n)} = {o}
    BY DEF EachWriteHasOneEntry, At, SameSlot
  <2>1. /\ r \in WritesReq /\ r.id \in Id
        /\ Covers(WritesAt(k), ItemsOf(r.task, r.writes))
    BY DEF EntryInv
  <2>2. k \in Key /\ k.set = "writes"
    BY <2>1, KeyTypes DEF WritesReq
  <2>3. PICK o \in WritesAt(k) : SameSlot(o, n)
    BY <2>1 DEF Covers
  <2>4. \A w \in WritesAt(k) : SameSlot(w, n) => w = o
    BY <2>2, <2>3 DEF EntryInv, OnePerSlot, SameSlot
  <2> QED BY <2>3, <2>4
<1> QED BY <1>1, <1>2, <1>3, TypeCorrect, PTL DEF Spec

-----------------------------------------------------------------------------
(* delete_thread leaves nothing of what a thread had when it was called.   *)

\* The sets that delete_thread has still to clear when it is at a set.
Rest == [cp |-> {"cp", "writes", "meta"}, writes |-> {"writes", "meta"}, meta |-> {"meta"}]

\* What is left of h, facts that have held since the call began: it is in sets
\* still to be cleared and, in the set whose query has been made, found by it.
Left(c, h) ==
  /\ c.pc \in {"query", "scan", "remove"} => \A f \in h : f[1].set \in Rest[c.set]
  /\ c.pc \in {"scan", "remove"} => \A f \in h : f[1].set = c.set => f[1] \in c.found
  /\ c.pc = "done" => h = {}

\* What p's call holds on to is stored, of its thread, and still to be removed.
OnItsWay(p) ==
  /\ Left(call[p], held[p])
  /\ \A f \in held[p] : f[1] \in Key /\ Stored(f[1]) /\ f[1].t = call[p].req.t

\* The inductive invariant.
DeleteInv ==
  \A p \in Proc : call[p].pc # "idle" =>
    call[p].req \in Request /\ (call[p].req \in DeleteReq => OnItsWay(p))

\* A fact is about a record that is stored.
LEMMA FactIsStored ==
  /\ \A f \in Facts : f[1] \in Key /\ Stored(f[1])
  /\ \A f \in Facts' : f[1] \in Key /\ Stored(f[1])'
BY DEF Facts, WritesAt

\* What a call holds on to: facts of the state, and of those it held before.
LEMMA HeldStep ==
  ASSUME Next, NEW p \in Proc
  PROVE  /\ held'[p] \subseteq Facts'
         /\ call[p].pc # "idle" => held'[p] \subseteq held[p]
         /\ \A f \in held'[p] : call[p].pc = "idle" => InScope(f[1], call[p].req)'
<1>1. Observe
  BY NextObserves
<1>2. held'[p] = IF ~Observes(p)' THEN {}
                 ELSE IF call[p].pc = "idle" THEN {f \in Facts' : InScope(f[1], call[p].req)'}
                 ELSE held[p] \cap Facts'
  BY <1>1 DEF Observe, At
<1> QED BY <1>2

\* With less held, less is left.
LEMMA LessLeft ==
  ASSUME NEW c, NEW h, NEW g \in SUBSET h, Left(c, h)
  PROVE  Left(c, g)
BY DEF Left

LEMMA SetsOfKeys ==
  /\ \A k \in Key : k.set \in {"cp", "writes", "meta"}
  /\ Rest["cp"] = {"cp", "writes", "meta"} /\ Rest["writes"] = {"writes", "meta"}
  /\ Rest["meta"] = {"meta"}
BY DEF Key, Rest

\* The loops: a set is left for the next only when nothing in it is left.
LEMMA NextRemovalLeft ==
  ASSUME NEW c \in CallState, c.pc \in {"scan", "remove"}, NEW h,
         \A f \in h : /\ f[1].set \in Rest[c.set]
                      /\ f[1].set = c.set => f[1] \in c.found
  PROVE  Left(NextRemoval(c), h)
<1>1. CASE c.found # {}
  <2>1. /\ NextRemoval(c).pc = "remove" /\ NextRemoval(c).set = c.set
        /\ NextRemoval(c).found = c.found
    BY <1>1 DEF NextRemoval, CallState
  <2> QED BY <2>1 DEF Left
<1>2. CASE c.found = {} /\ c.set = "meta"
  <2>1. NextRemoval(c).pc = "done"
    BY <1>2 DEF NextRemoval, Done, CallState
  <2>2. h = {}
    BY <1>2, SetsOfKeys
  <2> QED BY <2>1, <2>2 DEF Left
<1>3. CASE c.found = {} /\ c.set # "meta"
  <2>1. c.set \in {"cp", "writes"}
    BY <1>3 DEF CallState
  <2>2. NextRemoval(c).pc = "query" /\ NextRemoval(c).set = NextSet[c.set]
    BY <1>3 DEF NextRemoval, CallState
  <2>3. \A f \in h : f[1].set \in Rest[NextSet[c.set]]
    BY <1>3, <2>1, SetsOfKeys DEF NextSet
  <2> QED BY <2>2, <2>3 DEF Left
<1> QED BY <1>1, <1>2, <1>3

(* A call that begins has every set to clear.                              *)
LEMMA BeginOnItsWay ==
  ASSUME TypeOK, NEW p \in Proc, NEW r \in DeleteReq, Begin(p, r)
  PROVE  OnItsWay(p)'
<1>1. call'[p].req = r /\ call'[p].set = "cp" /\ call'[p].pc = "query"
  BY DEF Begin, TypeOK, NoCall, FirstPc, DeleteReq
<1>2. \A f \in held'[p] : f \in Facts' /\ InScope(f[1], r)
  BY <1>1 DEF Begin, Observe
<1>3. \A f \in held'[p] : f[1] \in Key /\ Stored(f[1])' /\ f[1].t = r.t
  BY <1>2, FactIsStored DEF InScope
<1>4. \A f \in held'[p] : f[1].set \in Rest["cp"]
  BY <1>3, SetsOfKeys
<1> QED
  BY <1>1, <1>3, <1>4 DEF OnItsWay, Left

(* A call in progress: what it goes on holding is what it held, less.      *)
LEMMA HeldOn ==
  ASSUME Next, NEW p \in Proc, call[p].pc # "idle", OnItsWay(p), call'[p].req = call[p].req
  PROVE  /\ held'[p] \subseteq held[p]
         /\ \A f \in held'[p] : f[1] \in Key /\ Stored(f[1])' /\ f[1].t = call[p].req.t
         /\ OnItsWay(p)' <=> Left(call'[p], held'[p])
<1>1. held'[p] \subseteq held[p] /\ held'[p] \subseteq Facts'
  BY HeldStep
<1>2. \A f \in held'[p] : f[1] \in Key /\ Stored(f[1])' /\ f[1].t = call[p].req.t
  BY <1>1, FactIsStored DEF OnItsWay
<1> QED
  BY <1>1, <1>2 DEF OnItsWay

(* A query finds all that is held of its set: the index is exact.          *)
LEMMA HeldMatches ==
  ASSUME IndexIsExact, NEW p \in Proc, OnItsWay(p), NEW f \in held[p]
  PROVE  f[1] \in Matching(f[1].set, call[p].req.t)
BY DEF OnItsWay, IndexIsExact, Matching

LEMMA QueryLeft ==
  ASSUME TypeOK, IndexIsExact, NEW p \in Proc, OnItsWay(p), Query(p)
  PROVE  Left(call'[p], held[p])
<1>1. /\ call[p].pc = "query" /\ call'[p].pc = "scan" /\ call'[p].set = call[p].set
      /\ call'[p].found = Matching(call[p].set, call[p].req.t)
  BY DEF Query, At, TypeOK, CallState
<1> QED
  BY <1>1, HeldMatches DEF OnItsWay, Left

LEMMA ScanLeft ==
  ASSUME TypeOK, IndexIsExact, NEW p \in Proc, call[p].req \in DeleteReq, OnItsWay(p), Scan(p)
  PROVE  Left(call'[p], held[p])
<1>1. call[p] \in CallState /\ call[p].pc = "scan"
  BY DEF Scan, At, TypeOK
<1> DEFINE now == Matching(call[p].set, call[p].req.t)
           doomed(keys) == [call[p] EXCEPT !.found = keys]
<1>2. PICK keys : /\ keys \subseteq call[p].found \cup now
                  /\ call[p].found \cap now \subseteq keys
                  /\ call' = [call EXCEPT ![p] = NextRemoval(doomed(keys))]
  BY DEF Scan, DeleteReq
<1>3. call'[p] = NextRemoval(doomed(keys))
  BY <1>2 DEF TypeOK
<1>4. keys \in SUBSET Key
  BY <1>1, <1>2 DEF Matching, CallState
<1>5. /\ doomed(keys) \in CallState /\ doomed(keys).pc = "scan"
      /\ doomed(keys).set = call[p].set /\ doomed(keys).found = keys
  BY <1>1, <1>4 DEF CallState
<1>6. \A f \in held[p] : /\ f[1].set \in Rest[call[p].set]
                         /\ f[1].set = call[p].set => f[1] \in keys
  BY <1>1, <1>2, HeldMatches DEF OnItsWay, Left
<1> HIDE DEF doomed
<1> QED
  BY <1>3, <1>5, <1>6, NextRemovalLeft

LEMMA RemoveLeft ==
  ASSUME TypeOK, NEW p \in Proc, OnItsWay(p), RemoveRecord(p),
         NEW h \in SUBSET held[p], \A f \in h : Stored(f[1])'
  PROVE  Left(call'[p], h)
<1>1. call[p] \in CallState /\ call[p].pc = "remove"
  BY DEF RemoveRecord, At, TypeOK
<1> DEFINE rest(k) == [call[p] EXCEPT !.found = @ \ {k}]
<1>2. PICK k \in call[p].found : /\ db' = [db EXCEPT ![k] = Absent]
                                 /\ Reply(p, NextRemoval(rest(k)))
  BY DEF RemoveRecord
<1>3. k \in Key /\ ~Stored(k)'
  BY <1>1, <1>2 DEF CallState, TypeOK, Stored
<1>4. /\ rest(k) \in CallState /\ rest(k).pc = "remove"
      /\ rest(k).set = call[p].set /\ rest(k).found = call[p].found \ {k}
  BY <1>1 DEF CallState
<1>5. \A f \in h : /\ f[1].set \in Rest[call[p].set]
                   /\ f[1].set = call[p].set => f[1] \in call[p].found \ {k}
  BY <1>1, <1>3 DEF OnItsWay, Left
<1> DEFINE failed == [call[p] EXCEPT !.pc = "failed"]
<1>6. call'[p] = NextRemoval(rest(k)) \/ call'[p] = failed
  BY <1>2 DEF Reply, TypeOK
<1>7. failed.pc = "failed"
  BY <1>1 DEF CallState
<1> HIDE DEF rest, failed
<1>8. Left(NextRemoval(rest(k)), h)
  BY <1>4, <1>5, NextRemovalLeft
<1>9. Left(failed, h)
  BY <1>7 DEF Left
<1> QED
  BY <1>6, <1>8, <1>9

(* A step of delete_thread is one of its own requests, or an error.        *)
LEMMA StepOfDelete ==
  ASSUME TypeOK, NEW p \in Proc, call[p].req \in DeleteReq, Step(p), ~Return(p)
  PROVE  Query(p) \/ Scan(p) \/ RemoveRecord(p) \/ Fail(p)
<1>1. call[p].req \notin PutReq \cup WritesReq \cup GetReq \cup ListReq
  BY DEF DeleteReq, PutReq, WritesReq, GetReq, ListReq
<1>2. InMethod(call[p])
  BY DEF TypeOK
<1>3. call[p].pc \notin {"put_cp", "put_latest", "operate", "get_latest", "get_cp",
                         "touch", "get_writes"}
  BY <1>1, <1>2 DEF InMethod
<1> QED
  BY <1>3 DEF Step, At, PutCheckpoint, PutLatest, OperateWrites, GetLatest, GetCheckpoint,
     TouchLatest, GetWrites

LEMMA StepOnItsWay ==
  ASSUME TypeOK, IndexIsExact, Next, NEW p \in Proc, call[p].pc # "idle",
         call[p].req \in DeleteReq, OnItsWay(p), Step(p), ~Return(p)
  PROVE  OnItsWay(p)'
<1>1. call'[p].req = call[p].req
  BY StepProgress DEF Progress
<1>2. /\ held'[p] \subseteq held[p]
      /\ \A f \in held'[p] : Stored(f[1])'
      /\ OnItsWay(p)' <=> Left(call'[p], held'[p])
  BY <1>1, HeldOn
<1>3. CASE Query(p)
  BY <1>2, <1>3, QueryLeft, LessLeft
<1>4. CASE Scan(p)
  BY <1>2, <1>4, ScanLeft, LessLeft
<1>5. CASE RemoveRecord(p)
  BY <1>2, <1>5, RemoveLeft
<1>6. CASE Fail(p)
  <2>1. call'[p].pc = "failed"
    BY <1>6 DEF Fail, TypeOK, CallState
  <2> QED BY <1>2, <2>1 DEF Left
<1> QED
  BY <1>3, <1>4, <1>5, <1>6, StepOfDelete

LEMMA DeleteInvStep == TypeOK /\ IndexIsExact /\ DeleteInv /\ [Next]_vars => DeleteInv'
<1> SUFFICES ASSUME TypeOK, IndexIsExact, DeleteInv, [Next]_vars, NEW p \in Proc,
                    call'[p].pc # "idle"
             PROVE  call'[p].req \in Request /\ (call'[p].req \in DeleteReq => OnItsWay(p)')
  BY DEF DeleteInv
<1>1. CASE UNCHANGED vars
  <2>1. call' = call /\ held' = held /\ db' = db
    BY <1>1 DEF vars
  <2> QED BY <2>1 DEF DeleteInv, OnItsWay, Stored
<1>2. CASE Next /\ call'[p] = call[p]
  <2>1. call[p].req \in Request /\ (call[p].req \in DeleteReq => OnItsWay(p))
    BY <1>2 DEF DeleteInv
  <2>2. ASSUME OnItsWay(p) PROVE OnItsWay(p)'
    <3>1. held'[p] \subseteq held[p] /\ (OnItsWay(p)' <=> Left(call[p], held'[p]))
      BY <1>2, <2>2, HeldOn
    <3> QED BY <3>1, <2>2, LessLeft DEF OnItsWay
  <2> QED BY <1>2, <2>1, <2>2
<1>3. CASE \E r \in Calls[p] : Begin(p, r)
  <2>1. PICK r \in Calls[p] : Begin(p, r)
    BY <1>3
  <2>2. call'[p].req = r /\ r \in Request
    BY <2>1, CallsAssumption DEF Begin, NoCall, TypeOK
  <2> QED BY <2>1, <2>2, BeginOnItsWay
<1>4. CASE Next /\ Step(p) /\ ~Return(p)
  <2>1. call'[p].req = call[p].req
    BY <1>4, StepProgress DEF Progress
  <2>2. call[p].pc # "idle"
    BY <1>4 DEF Step, At, PutCheckpoint, PutLatest, OperateWrites, GetLatest, GetCheckpoint,
       TouchLatest, GetWrites, Query, Scan, RemoveRecord, Fail, Working, Return
  <2> QED BY <1>4, <2>1, <2>2, StepOnItsWay DEF DeleteInv
<1>5. ~Return(p)
  BY DEF Return, NoCall, TypeOK
<1>6. ASSUME NEW q \in Proc, q # p, Step(q) \/ \E r \in Calls[q] : Begin(q, r)
      PROVE  call'[p] = call[p]
  BY <1>6, TypeHalves, OthersStay
<1>7. Tick => call'[p] = call[p]
  BY DEF Tick
<1> QED
  BY <1>1, <1>2, <1>3, <1>4, <1>5, <1>6, <1>7 DEF Next

(* delete_thread removes everything the thread had when it was called, in  *)
(* all three sets, whatever the other callers do meanwhile.                *)
THEOREM DeletesAreComplete == Spec => []DeleteIsComplete
<1>1. Init => DeleteInv
  BY DEF Init, DeleteInv, NoCall
<1>2. TypeOK /\ IndexIsExact /\ DeleteInv /\ [Next]_vars => DeleteInv'
  BY DeleteInvStep
<1>3. DeleteInv => DeleteIsComplete
  <2> SUFFICES ASSUME DeleteInv, NEW p \in Proc, call[p].pc = "done",
                      call[p].req.op = "delete"
               PROVE  held[p] = {}
    BY DEF DeleteIsComplete, At
  <2>1. call[p].req \in DeleteReq
    BY DEF DeleteInv, Request, PutReq, WritesReq, GetReq, ListReq
  <2> QED BY <2>1 DEF DeleteInv, OnItsWay, Left
<1> QED
  BY <1>1, <1>2, <1>3, TypeCorrect, IndexExact, PTL DEF Spec
=============================================================================
