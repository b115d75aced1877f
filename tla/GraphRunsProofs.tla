--------------------------- MODULE GraphRunsProofs ---------------------------
(***************************************************************************)
(* A program and the saver it calls: what one call brings the program, and *)
(* what it leaves, when the program is the only one that writes.           *)
(***************************************************************************)
EXTENDS GraphRuns, SaverReadProofs

-----------------------------------------------------------------------------
(* The program is one of the saver's callers.                              *)

\* A config that names a thread itself.
Naming == {cfg \in Config : cfg.configurable.thread_id \in Thread}

LEMMA ConfigsNaming ==
  ASSUME NEW t \in Thread, NEW ns \in Ns \cup {None}, NEW id \in Id \cup {NoId}
  PROVE  TupleConfig(t, ns, id) \in Naming
BY DEF TupleConfig, NoMetadata, Naming, Config, Configurable, Metadata

LEMMA NamesOfConfig ==
  ASSUME NEW cfg \in Naming
  PROVE  /\ ThreadOf(cfg) = cfg.configurable.thread_id /\ ThreadOf(cfg) \in Thread
         /\ NsOf(cfg) \in Ns /\ IdOf(cfg) \in Id \cup {NoId}
<1>1. PICK t, ns, id, mt, mns :
        /\ t = cfg.configurable.thread_id /\ ns = cfg.configurable.checkpoint_ns
        /\ id = cfg.configurable.checkpoint_id
        /\ mt = cfg.metadata.thread_id /\ mns = cfg.metadata.checkpoint_ns
  OBVIOUS
<1>2. /\ t \in Thread /\ ns \in Ns \cup {None} /\ id \in Id \cup {NoId}
      /\ mns \in Ns \cup {None}
  BY <1>1 DEF Naming, Config, Configurable, Metadata
<1>3. Or(t, mt) = t
  BY <1>2, OrOfThreads
<1>4. Or(Or(ns, mns), RootNs) \in Ns
  BY <1>2, ConfigAssumption DEF Or
<1> QED BY <1>1, <1>2, <1>3, <1>4 DEF ThreadOf, NsOf, IdOf

LEMMA GetOfConfig ==
  ASSUME NEW cfg \in Naming
  PROVE  GetRequest(cfg) \in GetReq /\ GetRequest(cfg) \in Calls[me]
<1>1. GetRequest(cfg) \in GetReq
  BY NamesOfConfig DEF GetRequest, GetReq
<1> QED BY <1>1, ProgramAssumption DEF ProgramCalls

LEMMA DeleteOfThread ==
  ASSUME NEW t \in Thread
  PROVE  [op |-> "delete", t |-> t] \in DeleteReq /\ [op |-> "delete", t |-> t] \in Calls[me]
<1>1. [op |-> "delete", t |-> t] \in DeleteReq
  BY DEF DeleteReq
<1> QED BY <1>1, ProgramAssumption DEF ProgramCalls

\* A checkpoint is put under the config that the run has, with its parent.
LEMMA PutOfConfig ==
  ASSUME NEW cfg \in Naming, NEW last \in Id \cup {NoId}, NEW id \in Id, NEW r,
         r = PutRequest([cfg EXCEPT !.configurable.checkpoint_id = last], id)
  PROVE  /\ r \in PutReq /\ r \in Calls[me] /\ r.id = id /\ r.parent = last
         /\ r.t = ThreadOf(cfg) /\ r.ns = NsOf(cfg)
<1> DEFINE from == [cfg EXCEPT !.configurable.checkpoint_id = last]
<1>1. /\ from \in Naming /\ IdOf(from) = last
      /\ ThreadOf(from) = ThreadOf(cfg) /\ NsOf(from) = NsOf(cfg)
  BY DEF Naming, Config, Configurable, ThreadOf, NsOf, IdOf
<1> HIDE DEF from
<1>2. r = [op |-> "put", t |-> ThreadOf(from), ns |-> NsOf(from), id |-> id, parent |-> IdOf(from)]
  BY DEF PutRequest, from
<1>3. r \in PutReq
  BY <1>1, <1>2, NamesOfConfig DEF PutReq
<1> QED BY <1>1, <1>2, <1>3, ProgramAssumption DEF ProgramCalls

\* A set of ids has a least one.
LEMMA LeastId ==
  ASSUME NEW S \in SUBSET Id, S # {}
  PROVE  \E i \in S : \A j \in S : i <= j
<1> DEFINE Below(i) == {j \in Id : j < i}
           T == {Below(i) : i \in S}
<1>1. FiniteSubsetsOf(Id) = SUBSET Id
  BY OrderAssumption, FS_FiniteSubsetsOfFinite
<1>2. PICK x \in T : \A y \in T : ~(<<y, x>> \in StrictSubsetOrdering(Id))
  <2>1. T \subseteq SUBSET Id /\ T # {}
    OBVIOUS
  <2> HIDE DEF T
  <2> QED BY <1>1, <2>1, FS_StrictSubsetOrderingWellFounded, WFMin
<1>3. PICK i \in S : x = Below(i)
  BY <1>2
<1>4. ASSUME NEW j \in S, j < i PROVE FALSE
  <2>1. Below(j) \subseteq Below(i) /\ j \in Below(i) /\ j \notin Below(j)
    <3>1. i \in Nat /\ j \in Nat /\ j \in Id /\ \A n \in Id : n \in Nat
      BY OrderAssumption
    <3>2. j < i /\ ~(j < j) /\ \A n \in Id : n < j => n < i
      BY <1>4, <3>1
    <3> QED BY <3>1, <3>2
  <2>2. <<Below(j), x>> \in StrictSubsetOrdering(Id)
    BY <2>1, <1>3 DEF StrictSubsetOrdering
  <2> QED BY <2>2, <1>2
<1> QED BY <1>4, OrderAssumption

\* A new id is above all that are in use.
LEMMA NewIdIsNew ==
  ASSUME IdsLeft, Used \subseteq Id
  PROVE  NewId \in Id /\ NewId \notin Used /\ \A u \in Used : u < NewId
<1> DEFINE above == {i \in Id : \A u \in Used : i > u}
<1>1. PICK i \in above : \A j \in above : i <= j
  <2>1. above \in SUBSET Id /\ above # {}
    BY DEF IdsLeft
  <2> HIDE DEF above
  <2> QED BY <2>1, LeastId
<1>2. NewId \in Id /\ \A u \in Used : NewId > u
  BY <1>1 DEF NewId
<1> QED BY <1>2, OrderAssumption

LEMMA UsedIsId == TypeOK => Used \subseteq Id
<1> SUFFICES ASSUME TypeOK PROVE Used \subseteq Id
  OBVIOUS
<1>1. \A k \in Key : k.set = "cp" => k.id \in Id
  BY DEF Key
<1>2. \A k \in Key : k.set = "meta" /\ Stored(k) => db[k].id \in Id
  BY DEF TypeOK, Stored, Record
<1> QED BY <1>1, <1>2 DEF Used

-----------------------------------------------------------------------------
(* What a call brings and leaves.                                          *)

LEMMA BeginShape ==
  ASSUME TypeOK, NEW p \in Proc, NEW r, Begin(p, r), NEW d, d = call'[p]
  PROVE  /\ call[p].pc = "idle" /\ db' = db
         /\ d.req = r /\ d.pc = FirstPc(r) /\ d.out = <<>>
         /\ d.id = IF r.op = "get" THEN r.id ELSE NoId
<1> DEFINE id == IF r.op = "get" THEN r.id ELSE NoId
<1>1. d = [NoCall EXCEPT !.req = r, !.pc = FirstPc(r), !.id = id]
  BY DEF Begin, TypeOK
<1> HIDE DEF id
<1>2. d.req = r /\ d.pc = FirstPc(r) /\ d.out = <<>> /\ d.id = id
  BY <1>1 DEF NoCall
<1> QED BY <1>2 DEF Begin, At, id

LEMMA ReturnShape ==
  ASSUME TypeOK, NEW p \in Proc, Return(p)
  PROVE  /\ call[p].pc \in {"done", "failed"} /\ db' = db
         /\ call'[p] = NoCall /\ call'[p].pc = "idle"
BY DEF Return, NoCall, TypeOK

LEMMA SaverStepIsStep ==
  ASSUME NEW p \in Proc, Working(p), Step(p)
  PROVE  ~Return(p) /\ call[p].pc \notin {"idle", "done", "failed"}
BY DEF Working, Return

\* Ids of set S are all that a get has come across.
Sees(c, S) == (c.pc \in Reading => c.id \in S) /\ \A i \in DOMAIN c.out : c.out[i].id \in S

LEMMA SameSees ==
  ASSUME NEW c, NEW d, NEW S, Sees(c, S), Same(c, d), d.pc \in Reading => c.pc \in Reading
  PROVE  Sees(d, S)
BY DEF Sees, Same

\* What the pointer names is all that it comes across, or what it asks for.
LEMMA GetSees ==
  ASSUME TypeOK, NEW p \in Proc, call[p].req \in GetReq, Step(p), ~Return(p),
         NEW S, Sees(call[p], S), NEW k, k = LatestKey(call[p].req.t, call[p].req.ns),
         call[p].pc = "get_latest" /\ Stored(k) => db[k].id \in S
  PROVE  Sees(call'[p], S)
<1> DEFINE c == call[p]
<1>0. c \in CallState /\ c.req \notin ListReq
  BY DEF TypeOK, GetReq, ListReq
<1>1. CASE GetLatest(p)
  <2>1. CASE Same(c, call'[p]) /\ call'[p].pc \in {"failed", "done"}
    BY <2>1, SameSees DEF Reading
  <2>2. CASE Stored(k) /\ call'[p].out = c.out /\ call'[p].pc = "get_cp" /\ call'[p].id = db[k].id
    BY <1>1, <2>2, GetLatestShape DEF Sees
  <2> QED BY <1>1, <2>1, <2>2, GetLatestShape
<1>2. CASE GetCheckpoint(p)
  <2>1. CASE Same(c, call'[p])
    BY <1>2, <2>1, GetCheckpointShape, SameSees DEF Reading
  <2>2. CASE call'[p] = NoTuple(c)
    BY <1>0, <2>2, AfterTupleShape DEF NoTuple, Sees, Reading
  <2> QED BY <1>2, <2>1, <2>2, GetCheckpointShape
<1>3. CASE TouchLatest(p)
  BY <1>3, TouchLatestShape, SameSees DEF Reading
<1>4. CASE GetWrites(p)
  <2>1. PICK ws \in SUBSET Item : \/ Same(c, call'[p]) /\ call'[p].pc = "failed"
                                  \/ call'[p] = GotTuple(c, ws)
    BY <1>4, GetWritesShape
  <2>2. CASE Same(c, call'[p]) /\ call'[p].pc = "failed"
    BY <2>2, SameSees DEF Reading
  <2>3. CASE call'[p] = GotTuple(c, ws)
    <3>1. c.id \in Id /\ c.pc = "get_writes"
      BY <1>4, GetWritesShape
    <3>2. /\ call'[p].pc = "done"
          /\ \A i \in DOMAIN call'[p].out : \/ i \in DOMAIN c.out /\ call'[p].out[i] = c.out[i]
                                            \/ call'[p].out[i].id = c.id
      BY <1>0, <2>3, <3>1, GotTupleShape
    <3> QED BY <3>1, <3>2 DEF Sees, Reading
  <2> QED BY <2>1, <2>2, <2>3
<1>5. CASE Fail(p)
  BY <1>5, FailShape, SameSees, TypeHalves DEF Reading
<1> QED BY <1>0, <1>1, <1>2, <1>3, <1>4, <1>5, StepOfRead

-----------------------------------------------------------------------------
(* What calls that only read leave.                                        *)

Writing == {"put_cp", "put_latest", "operate"}

\* No record comes or is renamed.
LEMMA NothingComes ==
  ASSUME TypeOK, [Next]_vars, \A p \in Proc : call[p].pc \notin Writing,
         NEW k \in Key, Stored(k)'
  PROVE  Stored(k) /\ (k.set = "meta" => db'[k].id = db[k].id)
<1>1. Kept(k) \/ Aged(k)
  BY RecordStep DEF CpWritten, PointerWritten, WritesUpserted, Removed, Writing
<1> QED BY <1>1 DEF Kept, Aged, SameBins

\* Where reads do not refresh, none touches the pointer, ...
LEMMA NobodyTouches ==
  ASSUME ~Refresh, TypeOK, TypeOK', [Next]_vars, NEW p \in Proc, call[p].pc # "touch"
  PROVE  call'[p].pc # "touch"
<1>1. CASE Step(p) /\ ~Return(p)
  BY <1>1, TouchIsARead, ReadBacks
<1>2. ASSUME NEW r \in Calls[p], Begin(p, r) PROVE call'[p].pc # "touch"
  <2>1. r \in Request /\ call'[p].pc = FirstPc(r)
    BY <1>2, BeginShape, CallsAssumption
  <2> QED BY <2>1 DEF FirstPc, Request, PutReq, WritesReq, GetReq, ListReq, DeleteReq
<1>3. NoCall.pc # "touch"
  BY DEF NoCall
<1>4. CASE Return(p)
  BY <1>4, ReturnShape
<1> QED BY <1>1, <1>2, <1>3, <1>4, CallMove

\* ... and no record's lifetime changes but by a tick.
LEMMA NothingSlides ==
  ASSUME ~Refresh, TypeOK, NEW p \in Proc, Step(p) \/ \E r \in Calls[p] : Begin(p, r),
         call[p].pc \notin Writing \cup {"touch", "remove"}
  PROVE  db' = db
BY DEF Step, At, Writing, PutCheckpoint, PutLatest, OperateWrites, GetLatest, GetCheckpoint,
       TouchLatest, GetWrites, Query, Scan, RemoveRecord, Fail, Return, Begin, ReadEffect

-----------------------------------------------------------------------------
(* Where only the program runs, and no time passes.                        *)

AllFresh == \A k \in Key : Fresh(k)

\* Reads renew what is as good as new: they change nothing.
LEMMA ReadsChangeNothing ==
  ASSUME TypeOK, AllFresh, NEW p \in Proc, Step(p) \/ \E r \in Calls[p] : Begin(p, r),
         call[p].pc \notin Writing \cup {"remove"}
  PROVE  db' = db
<1>1. \A k : [db EXCEPT ![k] = Renewed(@)] = db
  <2> SUFFICES ASSUME NEW k \in Key PROVE Renewed(db[k]) = db[k]
    BY DEF TypeOK
  <2>1. CASE db[k] = Absent
    BY <2>1 DEF Renewed
  <2>2. CASE db[k] # Absent
    <3>1. db[k] \in Record(k.set) /\ k.set \in {"cp", "writes", "meta"} /\ db[k].left = Ttl
      BY <2>2 DEF TypeOK, Key, AllFresh, Fresh, Stored
    <3>2. PICK rec : rec = db[k]
      OBVIOUS
    <3>3. [rec EXCEPT !.left = Ttl] = rec
      BY <3>1, <3>2 DEF Record
    <3> QED BY <2>2, <3>2, <3>3 DEF Renewed
  <2> QED BY <2>1, <2>2
<1>2. \A k : ReadEffect(k) => db' = db
  BY <1>1 DEF ReadEffect
<1>3. TouchLatest(p) => db' = db
  BY <1>1 DEF TouchLatest
<1> QED BY <1>2, <1>3 DEF Step, At, Writing, PutCheckpoint, PutLatest, OperateWrites, GetLatest,
           GetCheckpoint, GetWrites, Query, Scan, RemoveRecord, Fail, Return, Begin

LEMMA AllStayFresh ==
  ASSUME TypeOK, AllFresh, NEW p \in Proc, Step(p) \/ \E r \in Calls[p] : Begin(p, r)
  PROVE  AllFresh'
BY FreshStays DEF AllFresh

StoredIds(r) == {i \in Id : Stored(CpKey(r.t, r.ns, i))}

\* What a get is to find: the checkpoint it names, or that the pointer names.
Target(r) ==
  LET k == LatestKey(r.t, r.ns)
  IN {i \in Id : IF r.id = NoId THEN Stored(k) /\ db[k].id = i ELSE i = r.id}

\* get and list come across what is stored, ...
Seen(c) ==
  /\ c.pc \in {"touch", "get_writes"} => c.id \in StoredIds(c.req)
  /\ \A i \in DOMAIN c.out : c.out[i].id \in StoredIds(c.req) /\ c.out[i].ns = c.req.ns

\* ... and a get finds its target.
OnTarget(c) ==
  /\ c.pc = "get_latest" => c.req.id = NoId
  /\ c.pc \in {"get_latest"} \cup Reading => c.out = <<>>
  /\ c.pc \in Reading => c.id \in Target(c.req)
  /\ \A i \in DOMAIN c.out : c.out[i].id \in Target(c.req)
  /\ c.pc = "done" /\ c.out = <<>> => Target(c.req) \cap StoredIds(c.req) = {}

LEMMA SameSeen ==
  ASSUME NEW c, NEW d, Seen(c), Same(c, d), d.pc \in {"touch", "get_writes"} => c.pc \in {"touch", "get_writes"}
  PROVE  Seen(d)
BY DEF Seen, Same

LEMMA StepSeen ==
  ASSUME TypeOK, NEW p \in Proc, call[p].req \in GetReq \cup ListReq, Step(p), ~Return(p),
         Seen(call[p]), NEW d, d = call'[p]
  PROVE  Seen(d) /\ d.req = call[p].req
<1> DEFINE c == call[p]
<1>0. c \in CallState /\ InMethod(c) /\ d.req = c.req
  BY StepProgress DEF TypeOK, Progress
<1>1. CASE GetLatest(p)
  <2>1. d.out = c.out /\ d.pc \in {"failed", "get_cp", "done"}
    BY <1>1, GetLatestShape DEF Same
  <2> QED BY <1>0, <2>1 DEF Seen
<1>2. CASE GetCheckpoint(p)
  <2>1. CASE Same(c, d) /\ d.pc = "failed"
    BY <1>0, <2>1, SameSeen
  <2>2. CASE /\ Stored(CpKey(c.req.t, c.req.ns, c.id)) /\ Same(c, d)
             /\ d.pc \in {"touch", "get_writes"}
    <3>1. c.id \in StoredIds(c.req)
      BY <1>2, <2>2, GetCheckpointShape DEF StoredIds
    <3> QED BY <2>2, <3>1 DEF Seen, Same
  <2>3. CASE d = NoTuple(c)
    <3>1. d.out = c.out /\ d.pc \in {"get_cp", "done"}
      BY <1>0, <2>3, AfterTupleKeeps, AfterTupleShape DEF NoTuple
    <3> QED BY <1>0, <3>1 DEF Seen
  <2> QED BY <1>2, <2>1, <2>2, <2>3, GetCheckpointShape
<1>3. CASE TouchLatest(p)
  BY <1>0, <1>3, TouchLatestShape, SameSeen
<1>4. CASE GetWrites(p)
  <2>1. PICK ws \in SUBSET Item : \/ Same(c, d) /\ d.pc = "failed"
                                  \/ d = GotTuple(c, ws)
    BY <1>4, GetWritesShape
  <2>2. CASE Same(c, d) /\ d.pc = "failed"
    BY <1>0, <2>2, SameSeen
  <2>3. CASE d = GotTuple(c, ws)
    <3>1. c.id \in Id /\ c.pc = "get_writes" /\ c.found = {}
      BY <1>0, <1>4, GetWritesShape DEF InMethod
    <3>2. d.pc \in {"get_cp", "done"}
      BY <1>0, <2>3, <3>1, GotTupleKeeps
    <3>3. \A i \in DOMAIN d.out : \/ i \in DOMAIN c.out /\ d.out[i] = c.out[i]
                                  \/ d.out[i].id = c.id /\ d.out[i].ns = c.req.ns
      BY <1>0, <2>3, <3>1, GotTupleShape
    <3> QED BY <1>0, <3>1, <3>2, <3>3 DEF Seen
  <2> QED BY <2>1, <2>2, <2>3
<1>5. CASE c.req \in ListReq /\ Query(p)
  BY <1>0, <1>5, QueryShape, SameSeen
<1>6. CASE c.req \in ListReq /\ Scan(p)
  <2>1. PICK b \in CallState : b.out = c.out /\ d = NextItem(b)
    BY <1>6, ScanShape
  <2>2. d.out = c.out /\ d.pc \in {"get_cp", "done"}
    BY <2>1, NextItemFields
  <2> QED BY <1>0, <2>2 DEF Seen
<1>7. CASE Fail(p)
  BY <1>0, <1>7, FailShape, SameSeen, TypeHalves
<1> QED BY <1>0, <1>1, <1>2, <1>3, <1>4, <1>5, <1>6, <1>7, StepOfRead

LEMMA BeginSeen ==
  ASSUME TypeOK, NEW p \in Proc, NEW r \in GetReq \cup ListReq, Begin(p, r), NEW d, d = call'[p]
  PROVE  Seen(d) /\ (r \in GetReq => OnTarget(d))
<1>1. /\ d.req = r /\ d.pc = FirstPc(r) /\ d.out = <<>>
      /\ d.id = IF r.op = "get" THEN r.id ELSE NoId
  BY BeginShape
<1>2. d.pc \notin {"touch", "get_writes", "done"}
  BY <1>1 DEF FirstPc, GetReq, ListReq
<1>3. Seen(d)
  BY <1>1, <1>2 DEF Seen
<1>4. ASSUME r \in GetReq PROVE OnTarget(d)
  <2>1. /\ d.pc = IF r.id = NoId THEN "get_latest" ELSE "get_cp"
        /\ d.id = r.id /\ r.id \in Id \cup {NoId}
    BY <1>1, <1>4 DEF FirstPc, GetReq
  <2>2. r.id # NoId => r.id \in Target(r)
    BY <2>1 DEF Target
  <2> QED BY <1>1, <2>1, <2>2 DEF OnTarget, Reading
<1> QED BY <1>3, <1>4

LEMMA StepOnTarget ==
  ASSUME TypeOK, NEW p \in Proc, call[p].req \in GetReq, Step(p), ~Return(p),
         OnTarget(call[p]), NEW d, d = call'[p]
  PROVE  OnTarget(d)
<1> DEFINE c == call[p]
           r == c.req
<1>0. c \in CallState /\ d.req = r /\ c.req \notin ListReq
  BY StepProgress DEF TypeOK, Progress, GetReq, ListReq
<1>1. CASE GetLatest(p)
  <2> DEFINE k == LatestKey(r.t, r.ns)
  <2>1. c.pc = "get_latest" /\ c.out = <<>> /\ r.id = NoId /\ k \in Key /\ k.set = "meta"
    BY <1>1, GetLatestShape, KeyTypes DEF OnTarget, GetReq
  <2>2. CASE Same(c, d) /\ d.pc = "failed"
    BY <2>1, <2>2 DEF OnTarget, Same, Reading
  <2>3. CASE Stored(k) /\ d.out = c.out /\ d.pc = "get_cp" /\ d.id = db[k].id
    <3>1. d.id \in Id
      BY <2>1, <2>3 DEF TypeOK, Stored, Record
    <3>2. d.id \in Target(r)
      BY <2>1, <2>3, <3>1 DEF Target
    <3> QED BY <1>0, <2>1, <2>3, <3>2 DEF OnTarget
  <2>4. CASE ~Stored(k) /\ Same(c, d) /\ d.pc = "done"
    <3>1. Target(r) = {}
      BY <2>1, <2>4 DEF Target
    <3> QED BY <1>0, <2>1, <2>4, <3>1 DEF OnTarget, Same, Reading
  <2> QED BY <1>1, <2>2, <2>3, <2>4, GetLatestShape
<1>2. CASE GetCheckpoint(p)
  <2>1. c.pc = "get_cp" /\ c.out = <<>> /\ c.id \in Target(r) /\ c.id \in Id
    BY <1>2, GetCheckpointShape DEF OnTarget, Reading
  <2>2. CASE Same(c, d) /\ d.pc \in {"failed", "touch", "get_writes"}
    BY <2>1, <2>2 DEF OnTarget, Same
  <2>3. CASE ~Stored(CpKey(r.t, r.ns, c.id)) /\ d = NoTuple(c)
    <3>1. d.out = <<>> /\ d.pc = "done"
      BY <1>0, <2>1, <2>3, AfterTupleShape DEF NoTuple
    <3>2. Target(r) \cap StoredIds(r) = {}
      BY <2>1, <2>3 DEF Target, StoredIds
    <3> QED BY <1>0, <3>1, <3>2 DEF OnTarget, Reading
  <2> QED BY <1>2, <2>2, <2>3, GetCheckpointShape
<1>3. CASE TouchLatest(p)
  BY <1>3, TouchLatestShape DEF OnTarget, Same, Reading
<1>4. CASE GetWrites(p)
  <2>0. c.pc = "get_writes" /\ c.out = <<>> /\ c.id \in Target(r) /\ c.id \in Id
    BY <1>4, GetWritesShape DEF OnTarget, Reading
  <2>1. PICK ws \in SUBSET Item : \/ Same(c, d) /\ d.pc = "failed"
                                  \/ d = GotTuple(c, ws)
    BY <1>4, GetWritesShape
  <2>2. CASE Same(c, d) /\ d.pc = "failed"
    BY <2>0, <2>2 DEF OnTarget, Same, Reading
  <2>3. CASE d = GotTuple(c, ws)
    <3>1. d.pc = "done" /\ d.out # <<>>
      BY <1>0, <2>0, <2>3, GotTupleShape
    <3>2. \A i \in DOMAIN d.out : d.out[i].id = c.id
      BY <1>0, <2>0, <2>3, GotTupleShape
    <3> QED BY <1>0, <2>0, <3>1, <3>2 DEF OnTarget, Reading
  <2> QED BY <2>1, <2>2, <2>3
<1>5. CASE Fail(p)
  BY <1>5, FailShape, TypeHalves DEF OnTarget, Same, Reading
<1> QED BY <1>0, <1>1, <1>2, <1>3, <1>4, <1>5, StepOfRead

\* What list and delete are to find: all there was when they began.
HoldsAll(r, h) == \A k \in Key : Stored(k) /\ InScope(k, r) => <<k>> \in h

LEMMA BeginHolds ==
  ASSUME TypeOK, NEW p \in Proc, NEW r \in ListReq \cup DeleteReq, Begin(p, r), NEW h, h = held'[p]
  PROVE  HoldsAll(r, h)'
<1>1. call[p].pc = "idle" /\ call'[p].req = r /\ call'[p].pc = FirstPc(r)
  BY BeginShape
<1>2. Observes(p)'
  BY <1>1 DEF Observes, FirstPc, ListReq, DeleteReq
<1>3. h = {f \in Facts' : InScope(f[1], call[p].req)'}
  BY <1>1, <1>2 DEF Begin, Observe, At
<1>4. h = {f \in Facts' : InScope(f[1], r)}
  BY <1>1, <1>3 DEF InScope
<1>5. \A k \in Key : Stored(k)' => <<k>> \in Facts'
  BY DEF Facts
<1>6. ASSUME NEW k \in Key, Stored(k)', InScope(k, r) PROVE <<k>> \in h
  BY <1>4, <1>5, <1>6
<1> QED BY <1>6 DEF HoldsAll, InScope

LEMMA StepHolds ==
  ASSUME Observe, NEW p \in Proc, call[p].pc # "idle", call'[p].pc # "idle",
         NEW r \in ListReq \cup DeleteReq, call'[p].req = r, HoldsAll(r, held[p]),
         \A k \in Key : Stored(k)' => Stored(k), NEW h, h = held'[p]
  PROVE  HoldsAll(r, h)'
<1>1. h = held[p] \cap Facts'
  BY DEF Observe, Observes, At, ListReq, DeleteReq
<1>2. \A k \in Key : Stored(k)' => <<k>> \in Facts'
  BY DEF Facts
<1> QED BY <1>1, <1>2 DEF HoldsAll, InScope

LEMMA AllListed ==
  ASSUME ReadInv, NEW p \in Proc, call[p].pc = "done", NEW r \in ListReq, r = call[p].req,
         r.filter = NoMeta, r.before = NoId, r.limit = NoLimit, HoldsAll(r, held[p])
  PROVE  StoredIds(r) \subseteq Outs(call[p])
<1>1. Must(r, held[p]) \subseteq Outs(call[p])
  BY DEF ReadInv, Answering, Listed
<1>2. ASSUME NEW i \in StoredIds(r) PROVE i \in Must(r, held[p])
  <2>1. PICK k : k = CpKey(r.t, r.ns, i)
    OBVIOUS
  <2>2. i \in Id /\ Stored(k) /\ k \in Key
    BY <2>1, KeyTypes DEF StoredIds, ListReq
  <2>3. k.t = r.t /\ k.ns = r.ns
    BY <2>1 DEF CpKey
  <2>4. <<k>> \in held[p]
    BY <2>2, <2>3 DEF HoldsAll, InScope
  <2> QED BY <2>1, <2>2, <2>4 DEF Must, Held
<1> QED BY <1>1, <1>2

LEMMA AllDeleted ==
  ASSUME DeleteIsComplete, NEW p \in Proc, call[p].pc = "done", NEW r \in DeleteReq,
         r = call[p].req, HoldsAll(r, held[p]), NEW k \in Key, Stored(k)
  PROVE  k.t # r.t
BY DEF DeleteIsComplete, At, DeleteReq, HoldsAll, InScope

=============================================================================
