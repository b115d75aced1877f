------------------------ MODULE AerospikeStoreProofs -------------------------
(***************************************************************************)
(* Theorems about AerospikeStore.                                          *)
(***************************************************************************)
EXTENDS AerospikeStore, StorePathsProofs, FiniteSetTheorems, TLAPS

-----------------------------------------------------------------------------
(* Sequences, records and calls.                                           *)

\* A sequence over anything is one over its own elements.
LEMMA SeqOfItsRange ==
  ASSUME NEW S, NEW s \in Seq(S)
  PROVE  s \in Seq(Range(s))
<1>1. PICK n \in Nat : s \in [1 .. n -> S]
  OBVIOUS
<1>2. s \in [1 .. n -> Range(s)]
  BY <1>1 DEF Range
<1> QED BY <1>2

\* Lengths and elements of a sequence with one more element.
LEMMA AppendLayout ==
  ASSUME NEW S, NEW s \in Seq(S), NEW e
  PROVE  /\ Append(s, e) \in Seq(Range(Append(s, e)))
         /\ Len(Append(s, e)) = Len(s) + 1
         /\ \A i \in 1 .. Len(s) : Append(s, e)[i] = s[i]
         /\ Append(s, e)[Len(s) + 1] = e
<1>1. s \in Seq(S \cup {e})
  <2>1. PICK n \in Nat : s \in [1 .. n -> S]
    OBVIOUS
  <2>2. s \in [1 .. n -> S \cup {e}]
    BY <2>1
  <2> QED BY <2>2
<1>2. Append(s, e) \in Seq(S \cup {e})
  BY <1>1
<1>3. Append(s, e) \in Seq(Range(Append(s, e)))
  BY <1>2, SeqOfItsRange
<1> QED BY <1>1, <1>3

LEMMA PathOfItem ==
  ASSUME NEW ns \in Namespaces, NEW key \in Keys
  PROVE  ItemPath(ns, key) \in Path
BY DEF Path

\* What a function takes a finite set to is finite.
LEMMA ImageIsFinite ==
  ASSUME NEW S, IsFiniteSet(S), NEW T, NEW f, \A t \in T : \E s \in S : f[s] = t
  PROVE  IsFiniteSet(T)
<1> DEFINE R == {s \in S : f[s] \in T}
           g == [s \in R |-> f[s]]
<1>1. IsFiniteSet(R)
  BY FS_Subset
<1>2. g \in Surjection(R, T)
  BY DEF Surjection
<1> HIDE DEF R, g
<1> QED BY <1>1, <1>2, FS_Surjection

LEMMA PathIsFinite == IsFiniteSet(Path)
<1> DEFINE S == Namespaces \X Keys
           f == [s \in S |-> ItemPath(s[1], s[2])]
<1>1. IsFiniteSet(S)
  BY NamespacesAssumption, FS_Product
<1>2. \A t \in Path : \E s \in S : f[s] = t
  <2> SUFFICES ASSUME NEW ns \in Namespaces, NEW key \in Keys
               PROVE  \E s \in S : f[s] = ItemPath(ns, key)
    BY DEF Path
  <2>1. <<ns, key>> \in S /\ f[<<ns, key>>] = ItemPath(ns, key)
    OBVIOUS
  <2> QED BY <2>1
<1> HIDE DEF S, f
<1> QED BY <1>1, <1>2, ImageIsFinite

LEMMA SpanIsNat ==
  ASSUME NEW ttl \in Int \cup {NoTtl}
  PROVE  SpanOf(ttl) \in Nat
<1>1. CASE ttl \in Int /\ ttl >= 0
  <2>1. ttl \div TtlUnit \in Nat
    BY <1>1, TimeAssumption, Z3
  <2> QED BY <1>1, <2>1, TimeAssumption DEF SpanOf, Never
<1>2. CASE ~(ttl \in Int /\ ttl >= 0)
  BY <1>2, TimeAssumption DEF SpanOf, Never
<1> QED BY <1>1, <1>2

LEMMA BinsIsItem ==
  ASSUME NEW rec \in Record
  PROVE  Bins(rec) \in Item
BY DEF Record, Item, Bins

\* What a query matches is finitely many items.
LEMMA MatchingIsItems ==
  ASSUME NEW d \in [Path -> Record \cup {Absent}], NEW op
  PROVE  Matching(d, op) \subseteq Item /\ IsFiniteSet(Matching(d, op))
<1>1. Matching(d, op) \subseteq Item
  BY BinsIsItem DEF Matching
<1> DEFINE f == [path \in Path |-> Bins(d[path])]
<1>2. \A item \in Matching(d, op) : \E path \in Path : f[path] = item
  BY DEF Matching
<1> HIDE DEF f
<1> QED BY <1>1, <1>2, PathIsFinite, ImageIsFinite

LEMMA SubSeqIsSeq ==
  ASSUME NEW S, NEW s \in Seq(S), NEW m \in Int, NEW n \in Nat,
         m >= 1, n <= Len(s)
  PROVE  SubSeq(s, m, n) \in Seq(S)
BY SubSeqProperties

\* A page of a search is a piece of what was collected.
LEMMA PageIsItems ==
  ASSUME NEW op \in SearchOp, NEW items \in Seq(Item)
  PROVE  Page(op, items) \in Seq(Item)
<1>1. op.offset \in Nat /\ op.limit \in Limit
  BY DEF SearchOp
<1> DEFINE rest == FromOffset(items, op.offset)
<1>2. rest \in Seq(Item)
  BY <1>1, SubSeqIsSeq DEF FromOffset
<1> HIDE DEF rest
<1>3. CASE op.limit = NoLimit
  BY <1>2, <1>3 DEF Page, rest
<1>4. CASE op.limit # NoLimit
  <2>1. op.limit \in Nat /\ Len(rest) \in Nat
    BY <1>1, <1>2, <1>4 DEF Limit
  <2>2. UpTo(rest, op.limit) \in Seq(Item)
    BY <1>2, <2>1, SubSeqIsSeq DEF UpTo
  <2> QED BY <1>4, <2>2 DEF Page, rest
<1> QED BY <1>3, <1>4

\* The orders in which a query returns what it found.
LEMMA OrderIsSeq ==
  ASSUME NEW S, IsFiniteSet(S), NEW s \in SetToSeqs(S)
  PROVE  /\ s \in Seq(S)
         /\ \A i, j \in DOMAIN s : s[i] = s[j] => i = j
<1>1. Cardinality(S) \in Nat
  BY FS_CardinalityType
<1>2. s \in [1 .. Cardinality(S) -> S]
  BY DEF SetToSeqs
<1>3. s \in Seq(S)
  BY <1>1, <1>2
<1>4. \A i, j \in DOMAIN s : s[i] = s[j] => i = j
  BY <1>2 DEF SetToSeqs
<1> QED BY <1>3, <1>4

-----------------------------------------------------------------------------
(* Calls.                                                                  *)

LEMMA CurrentOpInBatch ==
  ASSUME NEW c, CallOK(c), Len(c.results) < Len(c.batch)
  PROVE  c.batch[Len(c.results) + 1] \in Op
<1>1. PICK n \in Nat, m \in Nat : n = Len(c.results) /\ m = Len(c.batch) /\ n < m
  BY DEF CallOK
<1>2. n + 1 \in 1 .. m
  BY <1>1
<1>3. c.batch \in Seq(Op)
  BY DEF CallOK
<1>4. \A i \in 1 .. Len(c.batch) : c.batch[i] \in Op
  BY <1>3
<1> QED BY <1>1, <1>2, <1>4

LEMMA AnsweredOK ==
  ASSUME NEW c, NEW answer, CallOK(c), Len(c.results) < Len(c.batch),
         c.batch[Len(c.results) + 1] \notin ListOp => answer \in Seq(Item)
  PROVE  CallOK(Answered(c, answer))
<1> DEFINE d == Answered(c, answer)
           s == Append(c.results, answer)
<1>1. PICK n \in Nat, m \in Nat : n = Len(c.results) /\ m = Len(c.batch) /\ n < m
  BY DEF CallOK
<1>2. /\ s \in Seq(Range(s))
      /\ Len(s) = n + 1
      /\ \A i \in 1 .. n : s[i] = c.results[i]
      /\ s[n + 1] = answer
  BY <1>1, AppendLayout DEF CallOK
<1>3. /\ d \in [batch : Seq(Op), results : Seq(Range(s)), pc : Pcs, now : Time,
                found : SUBSET Item, out : Seq(Item)]
      /\ d.batch = c.batch /\ d.results = s /\ d.found = {}
      /\ d.pc = IF n + 1 = m THEN "done" ELSE "next"
  <2>1. c.batch \in Seq(Op)
    BY DEF CallOK
  <2>2. 0 \in Time /\ <<>> \in Seq(Item)
    BY TimeAssumption DEF Time
  <2> HIDE DEF s
  <2>3. d = [batch |-> c.batch, results |-> s,
             pc |-> IF n + 1 = m THEN "done" ELSE "next",
             now |-> 0, found |-> {}, out |-> <<>>]
    BY <1>1 DEF s, Answered
  <2> HIDE DEF d
  <2> QED BY <1>2, <2>1, <2>2, <2>3 DEF Pcs
<1>4. \A i \in DOMAIN s : c.batch[i] \notin ListOp => s[i] \in Seq(Item)
  <2>1. DOMAIN s = 1 .. n + 1
    BY <1>2
  <2>2. \A i \in 1 .. n : c.batch[i] \notin ListOp => c.results[i] \in Seq(Item)
    BY <1>1 DEF CallOK
  <2> HIDE DEF s
  <2> QED BY <1>1, <1>2, <2>1, <2>2
<1>5. IsFiniteSet({})
  BY FS_EmptySet
<1>6. /\ d.pc \notin {"operate", "scan", "refetch"}
      /\ d.pc = "next" => Len(d.results) < Len(d.batch)
      /\ d.pc = "done" => Len(d.results) = Len(d.batch)
      /\ Len(d.results) <= Len(d.batch)
  <2> HIDE DEF d, s
  <2> QED BY <1>1, <1>2, <1>3
<1>7. CallOK(d)
  <2> HIDE DEF d, s
  <2> QED BY <1>3, <1>4, <1>5, <1>6 DEF CallOK
<1> QED BY <1>7

\* A batch may fail anywhere.
LEMMA FailedOK ==
  ASSUME NEW c, CallOK(c)
  PROVE  CallOK([c EXCEPT !.pc = "failed"])
<1> DEFINE d == [c EXCEPT !.pc = "failed"]
<1>1. /\ d \in [batch : Seq(Op), results : Seq(Range(c.results)), pc : Pcs, now : Time,
                found : SUBSET Item, out : Seq(Item)]
      /\ d.batch = c.batch /\ d.results = c.results /\ d.pc = "failed" /\ d.found = c.found
  BY DEF CallOK, Pcs
<1> HIDE DEF d
<1> QED BY <1>1 DEF CallOK

CallsOK == DOMAIN call = Proc /\ \A p \in Proc : CallOK(call[p])

\* A step changes one call.
LEMMA CallChanges ==
  ASSUME CallsOK, NEW p \in Proc, NEW c, CallOK(c), call' = [call EXCEPT ![p] = c]
  PROVE  CallsOK'
<1>1. DOMAIN call' = Proc
  BY DEF CallsOK
<1>2. \A q \in Proc : call'[q] = IF q = p THEN c ELSE call[q]
  BY DEF CallsOK
<1> QED BY <1>1, <1>2 DEF CallsOK

LEMMA CallFails ==
  ASSUME CallsOK, NEW p \in Proc, call' = [call EXCEPT ![p].pc = "failed"]
  PROVE  CallsOK'
<1>1. CallOK([call[p] EXCEPT !.pc = "failed"])
  BY FailedOK DEF CallsOK
<1>2. call' = [call EXCEPT ![p] = [call[p] EXCEPT !.pc = "failed"]]
  OBVIOUS
<1> QED BY <1>1, <1>2, CallChanges

LEMMA RepliesOK ==
  ASSUME CallsOK, NEW p \in Proc, NEW c, CallOK(c), Reply(p, c)
  PROVE  CallsOK'
BY CallChanges, CallFails DEF Reply

-----------------------------------------------------------------------------
(* Records.                                                                *)

LEMMA WriteOK ==
  ASSUME NEW d, RecordsOK(d), NEW path \in Path, NEW rec \in Record \cup {Absent},
         rec # Absent => IF rec.span = Never THEN rec.left = Never
                         ELSE rec.left \in 1 .. rec.span
  PROVE  RecordsOK([d EXCEPT ![path] = rec])
BY DEF RecordsOK

LEMMA RenewedIsRecord ==
  ASSUME NEW rec \in Record
  PROVE  /\ Renewed(rec) \in Record
         /\ Renewed(rec).left = rec.span /\ Renewed(rec).span = rec.span
         /\ Bins(Renewed(rec)) = Bins(rec)
<1>1. Renewed(rec) = [rec EXCEPT !.left = rec.span]
  BY AbsentAssumption DEF Renewed
<1>2. rec.span \in Nat
  BY DEF Record
<1> QED BY <1>1, <1>2 DEF Record, Bins

LEMMA RenewedOK ==
  ASSUME NEW d, RecordsOK(d), NEW path \in Path
  PROVE  RecordsOK([d EXCEPT ![path] = Renewed(d[path])])
<1>1. CASE d[path] = Absent
  BY <1>1, WriteOK DEF Renewed
<1>2. CASE d[path] # Absent
  <2>1. d[path] \in Record
    BY <1>2 DEF RecordsOK
  <2>2. PICK rec \in Record : rec = Renewed(d[path]) /\ rec.left = rec.span
    BY <2>1, RenewedIsRecord
  <2>3. rec.span \in Nat
    BY DEF Record
  <2>4. RecordsOK([d EXCEPT ![path] = rec])
    BY <2>2, <2>3, WriteOK DEF Never
  <2> QED BY <2>2, <2>4
<1> QED BY <1>1, <1>2

LEMMA AgedOK ==
  ASSUME NEW d, RecordsOK(d)
  PROVE  RecordsOK([path \in Path |-> Age(d[path])])
<1> SUFFICES ASSUME NEW path \in Path
             PROVE  LET rec == Age(d[path]) IN
                    /\ rec \in Record \cup {Absent}
                    /\ rec # Absent => IF rec.span = Never THEN rec.left = Never
                                       ELSE rec.left \in 1 .. rec.span
  BY DEF RecordsOK
<1>1. d[path] \in Record \cup {Absent}
  BY DEF RecordsOK
<1>2. CASE d[path] = Absent \/ d[path].span = Never
  BY <1>1, <1>2 DEF RecordsOK, Age
<1>3. CASE d[path] # Absent /\ d[path].span # Never
  <2>1. d[path] \in Record /\ d[path].left \in 1 .. d[path].span /\ d[path].span \in Nat
    BY <1>1, <1>3 DEF RecordsOK, Record
  <2>2. CASE d[path].left = 1
    BY <1>3, <2>2 DEF Age
  <2>3. CASE d[path].left # 1
    <3>1. PICK rec : rec = Age(d[path]) /\ rec = [d[path] EXCEPT !.left = d[path].left - 1]
      BY <1>3, <2>3 DEF Age
    <3>2. rec \in Record /\ rec.left = d[path].left - 1 /\ rec.span = d[path].span
      BY <2>1, <3>1 DEF Record
    <3> QED BY <1>3, <2>1, <2>3, <3>1, <3>2
  <2> QED BY <2>2, <2>3
<1> QED BY <1>1, <1>2, <1>3

-----------------------------------------------------------------------------
(* Type correctness, one action at a time.                                 *)

\* What p works on, at any point of a batch where there is something to do.
LEMMA CurrentOpIsOp ==
  ASSUME TypeOK, NEW p \in Proc, call[p].pc \in {"next", "operate", "scan", "refetch"}
  PROVE  CurrentOp(p) \in Op /\ Len(call[p].results) < Len(call[p].batch)
<1>1. CallOK(call[p])
  BY DEF TypeOK
<1>2. Len(call[p].results) < Len(call[p].batch)
  BY <1>1 DEF CallOK
<1> QED BY <1>1, <1>2, CurrentOpInBatch DEF CurrentOp

\* An operation is of one kind, which its `op` says.
LEMMA KindOfOp ==
  ASSUME NEW op \in Op
  PROVE  /\ op.op = "put" <=> op \in PutOp
         /\ op.op = "get" <=> op \in GetOp
         /\ op.op = "search" <=> op \in SearchOp
         /\ op.op = "list_namespaces" <=> op \in ListOp
         /\ op \notin ListOp \/ op \notin (PutOp \cup GetOp \cup SearchOp)
BY DEF Op, PutOp, GetOp, SearchOp, ListOp

LEMMA NoCallIsRecord ==
  /\ NoCall \in [batch : Seq(Op), results : Seq(Range(<<>>)), pc : Pcs, now : Time,
                 found : SUBSET Item, out : Seq(Item)]
  /\ NoCall.batch = <<>> /\ NoCall.results = <<>> /\ NoCall.found = {}
  /\ NoCall.pc = "idle"
BY TimeAssumption DEF NoCall, Pcs, Time

\* Writes answer with nothing.
LEMMA NoItems == <<>> \in Seq(Item)
OBVIOUS

LEMMA BeginOK ==
  ASSUME TypeOK, NEW p \in Proc, NEW batch \in Batches[p], Begin(p, batch)
  PROVE  TypeOK'
<1>1. batch \in Seq(Op)
  BY BatchesAssumption
<1>2. PICK pc : pc = IF batch = <<>> THEN "done" ELSE "next"
  OBVIOUS
<1> DEFINE c == [NoCall EXCEPT !.batch = batch, !.pc = pc]
<1>3. /\ call' = [call EXCEPT ![p] = c]
      /\ db' = db /\ clock' = clock
  BY <1>2 DEF Begin
<1>4. CallOK(c)
  <2>1. pc \in {"done", "next"}
    BY <1>2
  <2>2. /\ c \in [batch : Seq(Op), results : Seq(Range(<<>>)), pc : Pcs, now : Time,
                  found : SUBSET Item, out : Seq(Item)]
        /\ c.batch = batch /\ c.results = <<>> /\ c.found = {} /\ c.pc = pc
    BY <1>1, <2>1, NoCallIsRecord DEF Pcs
  <2>3. PICK n \in Nat : n = Len(batch) /\ (batch # <<>> => n > 0) /\ (batch = <<>> => n = 0)
    BY <1>1
  <2>4. IsFiniteSet({}) /\ DOMAIN <<>> = {} /\ Len(<<>>) = 0
    BY FS_EmptySet
  <2>5. /\ pc \in {"next", "operate", "scan", "refetch"} => 0 < n
        /\ pc = "done" => n = 0
        /\ pc \notin {"operate", "scan", "refetch"}
    BY <1>2, <2>1, <2>3
  <2> HIDE DEF c
  <2> QED BY <2>2, <2>3, <2>4, <2>5 DEF CallOK
<1> HIDE DEF c
<1>5. CallsOK'
  BY <1>3, <1>4, CallChanges DEF TypeOK, CallsOK
<1> QED BY <1>3, <1>5 DEF TypeOK, CallsOK

LEMMA RejectOK ==
  ASSUME TypeOK, NEW p \in Proc, Reject(p) \/ Fail(p)
  PROVE  TypeOK'
<1>1. CallsOK'
  BY CallFails DEF TypeOK, CallsOK, Reject, Fail
<1>2. UNCHANGED <<db, clock>>
  BY DEF Reject, Fail
<1> QED BY <1>1, <1>2 DEF TypeOK, CallsOK

LEMMA ReturnOK ==
  ASSUME TypeOK, NEW p \in Proc, Return(p)
  PROVE  TypeOK'
<1>1. CallOK(NoCall)
  <2>1. IsFiniteSet({}) /\ DOMAIN <<>> = {} /\ Len(<<>>) = 0
    BY FS_EmptySet
  <2> QED BY <2>1, NoCallIsRecord DEF CallOK
<1>2. call' = [call EXCEPT ![p] = NoCall] /\ db' = db /\ clock' = clock
  BY DEF Return
<1>3. CallsOK'
  BY <1>1, <1>2, CallChanges DEF TypeOK, CallsOK
<1> QED BY <1>2, <1>3 DEF TypeOK, CallsOK

LEMMA StampPutOK ==
  ASSUME TypeOK, NEW p \in Proc, StampPut(p)
  PROVE  TypeOK'
<1> DEFINE c == call[p]
           d == [c EXCEPT !.pc = "operate", !.now = clock]
<1>1. CallOK(c) /\ clock \in Time
  BY DEF TypeOK
<1>2. /\ CurrentOp(p) \in PutOp /\ CurrentOp(p).value # NoValue
      /\ Len(c.results) < Len(c.batch)
  BY CurrentOpIsOp, KindOfOp DEF StampPut, Starts, At
<1>3. CallOK(d)
  <2>1. /\ d \in [batch : Seq(Op), results : Seq(Range(c.results)), pc : Pcs, now : Time,
                  found : SUBSET Item, out : Seq(Item)]
        /\ d.batch = c.batch /\ d.results = c.results /\ d.pc = "operate" /\ d.found = c.found
    BY <1>1 DEF CallOK, Pcs
  <2> HIDE DEF d
  <2> QED BY <1>1, <1>2, <2>1 DEF CallOK, CurrentOp
<1>4. call' = [call EXCEPT ![p] = d] /\ db' = db /\ clock' = clock
  BY DEF StampPut
<1> HIDE DEF c, d
<1>5. CallsOK'
  BY <1>3, <1>4, CallChanges DEF TypeOK, CallsOK
<1> QED BY <1>4, <1>5 DEF TypeOK, CallsOK

\* The end of an operation, whatever is answered.
LEMMA AnswersOK ==
  ASSUME TypeOK, NEW p \in Proc, NEW answer,
         call[p].pc \in {"next", "operate", "scan", "refetch"},
         CurrentOp(p) \notin ListOp => answer \in Seq(Item),
         Reply(p, Answered(call[p], answer)), RecordsOK(db'), clock' = clock
  PROVE  TypeOK'
<1>1. CallOK(call[p]) /\ Len(call[p].results) < Len(call[p].batch)
  BY CurrentOpIsOp DEF TypeOK
<1>2. CallOK(Answered(call[p], answer))
  BY <1>1, AnsweredOK DEF CurrentOp
<1>3. CallsOK'
  BY <1>2, RepliesOK DEF TypeOK, CallsOK
<1> QED BY <1>3 DEF TypeOK, CallsOK

LEMMA OperatePutOK ==
  ASSUME TypeOK, NEW p \in Proc, OperatePut(p)
  PROVE  TypeOK'
<1> DEFINE op == CurrentOp(p)
           path == ItemPath(op.ns, op.key)
           rec == [ns |-> op.ns, key |-> op.key, value |-> op.value,
                   created |-> IF Stored(path) THEN db[path].created ELSE call[p].now,
                   updated |-> call[p].now, span |-> SpanOf(op.ttl), left |-> SpanOf(op.ttl)]
<1>1. op \in PutOp /\ op.value # NoValue /\ call[p].now \in Time
  BY DEF TypeOK, CallOK, OperatePut, At, CurrentOp
<1>2. path \in Path /\ op.ns \in Namespaces /\ op.key \in Keys
  BY <1>1, PathOfItem DEF PutOp
<1>3. Stored(path) => db[path] \in Record
  BY <1>2 DEF TypeOK, RecordsOK, Stored
<1>4. SpanOf(op.ttl) \in Nat
  BY <1>1, SpanIsNat DEF PutOp
<1>5. rec \in Record /\ rec.left = rec.span /\ rec.span \in Nat
  <2>1. op.value \in Value
    BY <1>1 DEF PutOp
  <2>2. (IF Stored(path) THEN db[path].created ELSE call[p].now) \in Time
    BY <1>1, <1>3 DEF Record
  <2> HIDE DEF op, path
  <2> QED BY <1>1, <1>2, <1>4, <2>1, <2>2 DEF Record
<1>6. PICK answer : answer = <<>>
  OBVIOUS
<1>7. db' = [db EXCEPT ![path] = rec]
  BY DEF OperatePut
<1>9. /\ Reply(p, Answered(call[p], answer)) /\ clock' = clock
      /\ call[p].pc = "operate"
  BY <1>6 DEF OperatePut, At
<1>10. answer \in Seq(Item)
  BY <1>6, NoItems
<1>8. RecordsOK(db')
  <2>1. IF rec.span = Never THEN rec.left = Never ELSE rec.left \in 1 .. rec.span
    <3> HIDE DEF rec
    <3> QED BY <1>5 DEF Never
  <2> HIDE DEF rec, path, op
  <2> QED BY <1>2, <1>5, <1>7, <2>1, WriteOK DEF TypeOK
<1> HIDE DEF rec, path, op
<1> QED BY <1>8, <1>9, <1>10, AnswersOK

LEMMA RemoveItemOK ==
  ASSUME TypeOK, NEW p \in Proc, RemoveItem(p)
  PROVE  TypeOK'
<1>1. call[p].pc = "next" /\ CurrentOp(p) \in PutOp
  BY CurrentOpIsOp, KindOfOp DEF RemoveItem, Starts, At
<1>2. PICK path \in Path : db' = [db EXCEPT ![path] = Absent]
  <2>1. ItemPath(CurrentOp(p).ns, CurrentOp(p).key) \in Path
    BY <1>1, PathOfItem DEF PutOp
  <2> QED BY <2>1 DEF RemoveItem
<1>3. RecordsOK(db')
  BY <1>2, WriteOK DEF TypeOK
<1>4. PICK answer : answer = <<>>
  OBVIOUS
<1>5. Reply(p, Answered(call[p], answer)) /\ clock' = clock
  BY <1>4 DEF RemoveItem
<1>6. answer \in Seq(Item)
  BY <1>4, NoItems
<1> QED BY <1>1, <1>3, <1>5, <1>6, AnswersOK

LEMMA GetItemOK ==
  ASSUME TypeOK, NEW p \in Proc, GetItem(p)
  PROVE  TypeOK'
<1> DEFINE path == ItemPath(CurrentOp(p).ns, CurrentOp(p).key)
           answer == IF Stored(path) THEN <<Bins(db[path])>> ELSE <<>>
<1>1. call[p].pc = "next" /\ CurrentOp(p) \in GetOp
  BY CurrentOpIsOp, KindOfOp DEF GetItem, Starts, At
<1>2. path \in Path
  BY <1>1, PathOfItem DEF GetOp
<1>3. answer \in Seq(Item)
  <2>1. Stored(path) => Bins(db[path]) \in Item
    BY <1>2, BinsIsItem DEF TypeOK, RecordsOK, Stored
  <2> HIDE DEF path
  <2> QED BY <2>1
<1>4. /\ db' = db \/ db' = [db EXCEPT ![path] = Renewed(db[path])]
      /\ Reply(p, Answered(call[p], answer)) /\ clock' = clock
  BY DEF GetItem
<1> HIDE DEF path, answer
<1>5. RecordsOK(db')
  BY <1>2, <1>4, RenewedOK DEF TypeOK
<1> QED BY <1>1, <1>3, <1>4, <1>5, AnswersOK

LEMMA QueryOK ==
  ASSUME TypeOK, NEW p \in Proc, Query(p)
  PROVE  TypeOK'
<1> DEFINE c == call[p]
           found == Matching(db, CurrentOp(p))
           d == [c EXCEPT !.pc = "scan", !.found = found]
<1>1. CallOK(c)
  BY DEF TypeOK
<1>2. CurrentOp(p) \in SearchOp \cup ListOp /\ Len(c.results) < Len(c.batch)
  BY CurrentOpIsOp, KindOfOp DEF Query, Starts, At
<1>3. found \subseteq Item /\ IsFiniteSet(found)
  BY MatchingIsItems DEF TypeOK, RecordsOK
<1>4. call' = [call EXCEPT ![p] = d] /\ db' = db /\ clock' = clock
  BY DEF Query
<1> HIDE DEF found
<1>5. CallOK(d)
  <2>1. /\ d \in [batch : Seq(Op), results : Seq(Range(c.results)), pc : Pcs, now : Time,
                  found : SUBSET Item, out : Seq(Item)]
        /\ d.batch = c.batch /\ d.results = c.results /\ d.pc = "scan" /\ d.found = found
    BY <1>1, <1>3 DEF CallOK, Pcs
  <2> HIDE DEF d
  <2> QED BY <1>1, <1>2, <1>3, <2>1 DEF CallOK, CurrentOp
<1> HIDE DEF c, d
<1>6. CallsOK'
  BY <1>4, <1>5, CallChanges DEF TypeOK, CallsOK
<1> QED BY <1>4, <1>6 DEF TypeOK, CallsOK

\* The loop of a search goes on with a record less, or with the whole lot.
LEMMA RefetchingOK ==
  ASSUME NEW c, CallOK(c), Len(c.results) < Len(c.batch),
         c.batch[Len(c.results) + 1] \in SearchOp,
         NEW found \in SUBSET Item, IsFiniteSet(found), found # {}, NEW out \in Seq(Item)
  PROVE  CallOK([c EXCEPT !.pc = "refetch", !.found = found, !.out = out])
<1> DEFINE d == [c EXCEPT !.pc = "refetch", !.found = found, !.out = out]
<1>1. /\ d \in [batch : Seq(Op), results : Seq(Range(c.results)), pc : Pcs, now : Time,
                found : SUBSET Item, out : Seq(Item)]
      /\ d.batch = c.batch /\ d.results = c.results /\ d.pc = "refetch" /\ d.found = found
  BY DEF CallOK, Pcs
<1> HIDE DEF d
<1> QED BY <1>1 DEF CallOK

LEMMA ScannedIsItems ==
  ASSUME NEW start \in SUBSET Item, IsFiniteSet(start),
         NEW end \in SUBSET Item, IsFiniteSet(end), NEW found \in Scanned(start, end)
  PROVE  found \subseteq Item /\ IsFiniteSet(found)
<1>1. found \subseteq start \cup end
  BY DEF Scanned
<1>2. IsFiniteSet(start \cup end)
  BY FS_Union
<1> QED BY <1>1, <1>2, FS_Subset

LEMMA ScanOK ==
  ASSUME TypeOK, NEW p \in Proc, Scan(p)
  PROVE  TypeOK'
<1> DEFINE c == call[p]
           op == CurrentOp(p)
           end == Matching(db, op)
<1>1. CallOK(c) /\ RecordsOK(db)
  BY DEF TypeOK
<1>2. c.pc = "scan" /\ UNCHANGED <<db, clock>>
  BY DEF Scan, At
<1>3. op \in SearchOp \cup ListOp /\ Len(c.results) < Len(c.batch)
  BY <1>1, <1>2 DEF CallOK, CurrentOp
<1>4. PICK found \in Scanned(c.found, end) :
        IF op.op = "list_namespaces"
          THEN Reply(p, Answered(c, NamespacePage({item.ns : item \in found},
                                                  op.depth, op.offset, op.limit)))
        ELSE IF Refresh(op) /\ found # {}
          THEN Reply(p, [c EXCEPT !.pc = "refetch", !.found = found])
          ELSE \E out \in SetToSeqs(found) : Reply(p, Answered(c, Page(op, out)))
  BY DEF Scan
<1>5. found \subseteq Item /\ IsFiniteSet(found)
  <2>1. end \subseteq Item /\ IsFiniteSet(end)
    BY <1>1, MatchingIsItems DEF RecordsOK
  <2>2. c.found \subseteq Item /\ IsFiniteSet(c.found)
    BY <1>1 DEF CallOK
  <2> HIDE DEF c, end
  <2> QED BY <2>1, <2>2, ScannedIsItems
<1>6. RecordsOK(db')
  BY <1>1, <1>2
<1>7. CASE op.op = "list_namespaces"
  <2>1. PICK answer : Reply(p, Answered(call[p], answer))
    BY <1>4, <1>7
  <2>2. CurrentOp(p) \in ListOp
    BY <1>3, <1>7, KindOfOp DEF Op
  <2> QED BY <1>2, <1>6, <2>1, <2>2, AnswersOK
<1>8. CASE op.op # "list_namespaces" /\ Refresh(op) /\ found # {}
  <2>1. op \in SearchOp
    BY <1>3, <1>8, KindOfOp DEF Op
  <2>2. c.out \in Seq(Item) /\ c = [c EXCEPT !.out = c.out]
    BY <1>1 DEF CallOK
  <2>3. PICK d : d = [c EXCEPT !.pc = "refetch", !.found = found, !.out = c.out]
    OBVIOUS
  <2>4. CallOK(d)
    BY <1>1, <1>3, <1>5, <1>8, <2>1, <2>2, <2>3, RefetchingOK DEF CurrentOp
  <2>5. d = [c EXCEPT !.pc = "refetch", !.found = found]
    BY <1>1, <2>3 DEF CallOK
  <2>6. Reply(p, d)
    BY <1>4, <1>8, <2>5
  <2>7. CallsOK'
    BY <2>4, <2>6, RepliesOK DEF TypeOK, CallsOK
  <2> QED BY <1>2, <1>6, <2>7 DEF TypeOK, CallsOK
<1>9. CASE op.op # "list_namespaces" /\ ~(Refresh(op) /\ found # {})
  <2>1. op \in SearchOp
    BY <1>3, <1>9, KindOfOp DEF Op
  <2>2. PICK out \in SetToSeqs(found) : Reply(p, Answered(c, Page(op, out)))
    BY <1>4, <1>9
  <2>3. out \in Seq(found)
    BY <1>5, OrderIsSeq
  <2>4. out \in Seq(Item)
    BY <1>5, <2>3
  <2>5. PICK answer : answer = Page(op, out)
    OBVIOUS
  <2>6. answer \in Seq(Item)
    BY <2>1, <2>4, <2>5, PageIsItems
  <2>7. Reply(p, Answered(call[p], answer))
    BY <2>2, <2>5
  <2> QED BY <1>2, <1>6, <2>6, <2>7, AnswersOK
<1> QED BY <1>7, <1>8, <1>9

LEMMA RefetchOK ==
  ASSUME TypeOK, NEW p \in Proc, Refetch(p)
  PROVE  TypeOK'
<1> DEFINE c == call[p]
           op == CurrentOp(p)
<1>1. CallOK(c) /\ RecordsOK(db)
  BY DEF TypeOK
<1>2. c.pc = "refetch" /\ clock' = clock
  BY DEF Refetch, At
<1>3. op \in SearchOp /\ Len(c.results) < Len(c.batch)
  BY <1>1, <1>2 DEF CallOK, CurrentOp
<1>4. PICK item \in c.found :
        LET path == PathOf(item)
            out == IF Stored(path) THEN Append(c.out, Bins(db[path])) ELSE c.out
            rest == c.found \ {item}
        IN /\ db' = [db EXCEPT ![path] = Renewed(db[path])]
           /\ Reply(p, IF rest = {} THEN Answered(c, Page(op, out))
                       ELSE [c EXCEPT !.found = rest, !.out = out])
  BY DEF Refetch
<1> DEFINE path == PathOf(item)
           out == IF Stored(path) THEN Append(c.out, Bins(db[path])) ELSE c.out
           rest == c.found \ {item}
<1>5. path \in Path
  BY <1>1, PathOfItem DEF CallOK, Item, PathOf
<1>6. out \in Seq(Item)
  <2>1. Stored(path) => Bins(db[path]) \in Item
    BY <1>1, <1>5, BinsIsItem DEF RecordsOK, Stored
  <2>2. c.out \in Seq(Item)
    BY <1>1 DEF CallOK
  <2> HIDE DEF path
  <2> QED BY <2>1, <2>2
<1>7. rest \subseteq Item /\ IsFiniteSet(rest)
  BY <1>1, FS_RemoveElement DEF CallOK
<1>8. db' = [db EXCEPT ![path] = Renewed(db[path])]
  BY <1>4
<1>9. Reply(p, IF rest = {} THEN Answered(c, Page(op, out))
               ELSE [c EXCEPT !.found = rest, !.out = out])
  BY <1>4
<1> HIDE DEF path, out, rest
<1>10. RecordsOK(db')
  BY <1>1, <1>5, <1>8, RenewedOK
<1>11. CASE rest = {}
  <2>1. PICK answer : answer = Page(op, out)
    OBVIOUS
  <2>2. answer \in Seq(Item)
    BY <1>3, <1>6, <2>1, PageIsItems
  <2>3. Reply(p, Answered(call[p], answer))
    BY <1>9, <1>11, <2>1
  <2> QED BY <1>2, <1>10, <2>2, <2>3, AnswersOK
<1>12. CASE rest # {}
  <2>1. PICK d : d = [c EXCEPT !.pc = "refetch", !.found = rest, !.out = out]
    OBVIOUS
  <2>2. CallOK(d)
    BY <1>1, <1>3, <1>6, <1>7, <1>12, <2>1, RefetchingOK DEF CurrentOp
  <2>3. d = [c EXCEPT !.found = rest, !.out = out]
    BY <1>1, <1>2, <2>1 DEF CallOK
  <2>4. Reply(p, d)
    BY <1>9, <1>12, <2>3
  <2>5. CallsOK'
    BY <2>2, <2>4, RepliesOK DEF TypeOK, CallsOK
  <2> QED BY <1>2, <1>10, <2>5 DEF TypeOK, CallsOK
<1> QED BY <1>11, <1>12

LEMMA TickOK ==
  ASSUME TypeOK, Tick
  PROVE  TypeOK'
<1>1. RecordsOK(db')
  BY AgedOK DEF TypeOK, Tick
<1>2. clock' \in Time
  BY TimeAssumption DEF TypeOK, Tick, Time
<1>3. call' = call
  BY DEF Tick
<1> QED BY <1>1, <1>2, <1>3 DEF TypeOK

\* TypeOK holds in every reachable state.
THEOREM TypeCorrect == Spec => []TypeOK
<1>1. Init => TypeOK
  <2> SUFFICES ASSUME Init PROVE TypeOK
    OBVIOUS
  <2>1. RecordsOK(db)
    BY DEF Init, RecordsOK
  <2>2. CallOK(NoCall)
    <3>1. IsFiniteSet({}) /\ DOMAIN <<>> = {} /\ Len(<<>>) = 0
      BY FS_EmptySet
    <3> QED BY <3>1, NoCallIsRecord DEF CallOK
  <2>3. clock \in Time /\ call = [p \in Proc |-> NoCall]
    BY TimeAssumption DEF Init, Time
  <2> QED BY <2>1, <2>2, <2>3 DEF TypeOK
<1>2. TypeOK /\ [Next]_vars => TypeOK'
  <2> SUFFICES ASSUME TypeOK, [Next]_vars PROVE TypeOK'
    OBVIOUS
  <2>1. CASE UNCHANGED vars
    BY <2>1 DEF TypeOK, vars
  <2>2. CASE Tick
    BY <2>2, TickOK
  <2>3. ASSUME NEW p \in Proc, NEW batch \in Batches[p], Begin(p, batch) PROVE TypeOK'
    BY <2>3, BeginOK
  <2>4. ASSUME NEW p \in Proc, Step(p) PROVE TypeOK'
    BY <2>4, RejectOK, StampPutOK, OperatePutOK, RemoveItemOK, GetItemOK, QueryOK, ScanOK,
       RefetchOK, ReturnOK DEF Step
  <2> QED BY <2>1, <2>2, <2>3, <2>4 DEF Next
<1> QED BY <1>1, <1>2, PTL DEF Spec

-----------------------------------------------------------------------------
(* How answers come about.                                                 *)

Kept(q) == call'[q].batch = call[q].batch /\ call'[q].results = call[q].results

Answers(q, answer) == call'[q] = Answered(call[q], answer)

\* A step answers p's operation, or only moves p's program counter.
LEMMA ReplyAnswers ==
  ASSUME TypeOK, NEW p \in Proc, NEW answer, Reply(p, Answered(call[p], answer)),
         NEW q \in Proc
  PROVE  Kept(q) \/ (q = p /\ Answers(q, answer))
<1>1. CASE call' = [call EXCEPT ![p] = Answered(call[p], answer)]
  BY <1>1 DEF TypeOK, Kept, Answers
<1>2. CASE call' = [call EXCEPT ![p].pc = "failed"]
  BY <1>2 DEF TypeOK, CallOK, Kept
<1> QED BY <1>1, <1>2 DEF Reply

LEMMA ReplyMoves ==
  ASSUME TypeOK, NEW p \in Proc, NEW found, NEW out, NEW q \in Proc,
         \/ Reply(p, [call[p] EXCEPT !.found = found, !.out = out])
         \/ Reply(p, [call[p] EXCEPT !.pc = "refetch", !.found = found])
  PROVE  Kept(q)
<1>1. CASE call' = [call EXCEPT ![p] = [call[p] EXCEPT !.found = found, !.out = out]]
  BY <1>1 DEF TypeOK, CallOK, Kept
<1>2. CASE call' = [call EXCEPT ![p] = [call[p] EXCEPT !.pc = "refetch", !.found = found]]
  BY <1>2 DEF TypeOK, CallOK, Kept
<1>3. CASE call' = [call EXCEPT ![p].pc = "failed"]
  BY <1>3 DEF TypeOK, CallOK, Kept
<1> QED BY <1>1, <1>2, <1>3 DEF Reply

\* What a get answers.
Fetched(op) ==
  LET path == ItemPath(op.ns, op.key) IN IF Stored(path) THEN <<Bins(db[path])>> ELSE <<>>

\* What a search has collected when it makes its page.
Collected(q, items) ==
  \/ /\ At(q, "scan")
     /\ \E found \in Scanned(call[q].found, Matching(db, CurrentOp(q))) :
          items \in SetToSeqs(found)
  \/ /\ At(q, "refetch")
     /\ \E item \in call[q].found :
          items = IF Stored(PathOf(item)) THEN Append(call[q].out, Bins(db[PathOf(item)]))
                  ELSE call[q].out

\* Every way for a call to change its answers.
ResultsGrow(q) ==
  \/ Kept(q)
  \/ call'[q].results = <<>>
  \/ CurrentOp(q) \in PutOp \cup ListOp /\ \E answer : Answers(q, answer)
  \/ CurrentOp(q) \in GetOp /\ Answers(q, Fetched(CurrentOp(q)))
  \/ /\ CurrentOp(q) \in SearchOp
     /\ \E items : Collected(q, items) /\ Answers(q, Page(CurrentOp(q), items))

LEMMA FreshResults ==
  ASSUME TypeOK, NEW p \in Proc, NEW q \in Proc,
         Return(p) \/ \E batch \in Batches[p] : Begin(p, batch)
  PROVE  ResultsGrow(q)
<1>1. PICK c : c.results = <<>> /\ call' = [call EXCEPT ![p] = c]
  <2>1. CASE Return(p)
    BY <2>1, NoCallIsRecord DEF Return
  <2>2. ASSUME NEW batch \in Batches[p], Begin(p, batch)
        PROVE  \E c : c.results = <<>> /\ call' = [call EXCEPT ![p] = c]
    <3>1. PICK pc : call' = [call EXCEPT ![p] = [NoCall EXCEPT !.batch = batch, !.pc = pc]]
      BY <2>2 DEF Begin
    <3>2. [NoCall EXCEPT !.batch = batch, !.pc = pc].results = <<>>
      BY NoCallIsRecord
    <3> QED BY <3>1, <3>2
  <2> QED BY <2>1, <2>2
<1>2. call'[q] = IF q = p THEN c ELSE call[q]
  BY <1>1 DEF TypeOK
<1> QED BY <1>1, <1>2 DEF ResultsGrow, Kept

LEMMA MovedResults ==
  ASSUME TypeOK, NEW p \in Proc, NEW q \in Proc,
         Reject(p) \/ Fail(p) \/ StampPut(p) \/ Query(p)
  PROVE  ResultsGrow(q)
<1>1. CASE call' = [call EXCEPT ![p].pc = "failed"]
  BY <1>1 DEF TypeOK, CallOK, Kept, ResultsGrow
<1>2. CASE call' = [call EXCEPT ![p].pc = "operate", ![p].now = clock]
  BY <1>2 DEF TypeOK, CallOK, Kept, ResultsGrow
<1>3. CASE call' = [call EXCEPT ![p].pc = "scan",
                                ![p].found = Matching(db, CurrentOp(p))]
  BY <1>3 DEF TypeOK, CallOK, Kept, ResultsGrow
<1> QED BY <1>1, <1>2, <1>3 DEF Reject, Fail, StampPut, Query

LEMMA WriteResults ==
  ASSUME TypeOK, NEW p \in Proc, NEW q \in Proc, OperatePut(p) \/ RemoveItem(p)
  PROVE  ResultsGrow(q)
<1>1. CurrentOp(p) \in PutOp
  BY CurrentOpIsOp, KindOfOp DEF OperatePut, RemoveItem, Starts, At, TypeOK, CallOK, CurrentOp
<1>2. PICK answer : Reply(p, Answered(call[p], answer))
  BY DEF OperatePut, RemoveItem
<1> QED BY <1>1, <1>2, ReplyAnswers DEF ResultsGrow

LEMMA GetResults ==
  ASSUME TypeOK, NEW p \in Proc, NEW q \in Proc, GetItem(p)
  PROVE  ResultsGrow(q)
<1>1. CurrentOp(p) \in GetOp
  BY CurrentOpIsOp, KindOfOp DEF GetItem, Starts, At
<1>2. Reply(p, Answered(call[p], Fetched(CurrentOp(p))))
  BY DEF GetItem, Fetched
<1> QED BY <1>1, <1>2, ReplyAnswers DEF ResultsGrow

LEMMA ScanResults ==
  ASSUME TypeOK, NEW p \in Proc, NEW q \in Proc, Scan(p)
  PROVE  ResultsGrow(q)
<1> DEFINE op == CurrentOp(p)
<1>1. op \in SearchOp \cup ListOp /\ At(p, "scan")
  BY DEF Scan, At, TypeOK, CallOK, CurrentOp
<1>2. PICK found \in Scanned(call[p].found, Matching(db, op)) :
        IF op.op = "list_namespaces"
          THEN Reply(p, Answered(call[p], NamespacePage({item.ns : item \in found},
                                                  op.depth, op.offset, op.limit)))
        ELSE IF Refresh(op) /\ found # {}
          THEN Reply(p, [call[p] EXCEPT !.pc = "refetch", !.found = found])
          ELSE \E out \in SetToSeqs(found) : Reply(p, Answered(call[p], Page(op, out)))
  BY DEF Scan
<1>3. CASE op.op = "list_namespaces"
  <2>1. PICK answer : Reply(p, Answered(call[p], answer))
    BY <1>2, <1>3
  <2>2. op \in ListOp
    BY <1>1, <1>3, KindOfOp DEF Op
  <2> QED BY <2>1, <2>2, ReplyAnswers DEF ResultsGrow
<1>4. CASE op.op # "list_namespaces" /\ Refresh(op) /\ found # {}
  BY <1>2, <1>4, ReplyMoves DEF ResultsGrow
<1>5. CASE op.op # "list_namespaces" /\ ~(Refresh(op) /\ found # {})
  <2>1. op \in SearchOp
    BY <1>1, <1>5, KindOfOp DEF Op
  <2>2. PICK out \in SetToSeqs(found) : Reply(p, Answered(call[p], Page(op, out)))
    BY <1>2, <1>5
  <2>3. Collected(p, out)
    BY <1>1, <2>2 DEF Collected
  <2> QED BY <2>1, <2>2, <2>3, ReplyAnswers DEF ResultsGrow
<1> QED BY <1>3, <1>4, <1>5

LEMMA RefetchResults ==
  ASSUME TypeOK, NEW p \in Proc, NEW q \in Proc, Refetch(p)
  PROVE  ResultsGrow(q)
<1> DEFINE op == CurrentOp(p)
<1>1. op \in SearchOp /\ At(p, "refetch")
  BY DEF Refetch, At, TypeOK, CallOK, CurrentOp
<1>2. PICK item \in call[p].found :
        LET out == IF Stored(PathOf(item)) THEN Append(call[p].out, Bins(db[PathOf(item)]))
                   ELSE call[p].out
            rest == call[p].found \ {item}
        IN Reply(p, IF rest = {} THEN Answered(call[p], Page(op, out))
                    ELSE [call[p] EXCEPT !.found = rest, !.out = out])
  BY DEF Refetch
<1> DEFINE out == IF Stored(PathOf(item)) THEN Append(call[p].out, Bins(db[PathOf(item)]))
                  ELSE call[p].out
           rest == call[p].found \ {item}
<1>3. Collected(p, out)
  BY <1>1, <1>2 DEF Collected
<1>4. Reply(p, IF rest = {} THEN Answered(call[p], Page(op, out))
               ELSE [call[p] EXCEPT !.found = rest, !.out = out])
  BY <1>2
<1> HIDE DEF out, rest
<1>5. CASE rest = {}
  <2>1. Reply(p, Answered(call[p], Page(op, out)))
    BY <1>4, <1>5
  <2> QED BY <1>1, <1>3, <2>1, ReplyAnswers DEF ResultsGrow
<1>6. CASE rest # {}
  <2>1. Reply(p, [call[p] EXCEPT !.found = rest, !.out = out])
    BY <1>4, <1>6
  <2> QED BY <2>1, ReplyMoves DEF ResultsGrow
<1> QED BY <1>5, <1>6

LEMMA StepResults ==
  ASSUME TypeOK, [Next]_vars, NEW q \in Proc
  PROVE  ResultsGrow(q)
<1>1. CASE call' = call
  BY <1>1 DEF ResultsGrow, Kept
<1>2. ASSUME NEW p \in Proc, Step(p) PROVE ResultsGrow(q)
  BY <1>2, FreshResults, MovedResults, WriteResults, GetResults, ScanResults, RefetchResults
     DEF Step
<1>3. ASSUME NEW p \in Proc, NEW batch \in Batches[p], Begin(p, batch) PROVE ResultsGrow(q)
  BY <1>3, FreshResults
<1> QED BY <1>1, <1>2, <1>3 DEF Next, Tick, vars

-----------------------------------------------------------------------------
(* Every record is at the path of the item it holds.                       *)

ItemsAtTheirPaths(d) ==
  \A path \in Path : d[path] # Absent => PathOf(d[path]) = path

LEMMA RenewedItemsStay ==
  ASSUME RecordsOK(db), ItemsAtTheirPaths(db), NEW path \in Path,
         db' = [db EXCEPT ![path] = Renewed(db[path])]
  PROVE  ItemsAtTheirPaths(db')
<1> SUFFICES ASSUME NEW q \in Path, db'[q] # Absent PROVE PathOf(db'[q]) = q
  BY DEF ItemsAtTheirPaths
<1>1. CASE q # path
  BY <1>1 DEF RecordsOK, ItemsAtTheirPaths
<1>2. CASE q = path
  <2>1. db'[q] = Renewed(db[q])
    BY <1>2 DEF RecordsOK
  <2>2. db[q] # Absent
    BY <2>1 DEF Renewed
  <2>3. db[q] \in Record /\ PathOf(db[q]) = q
    BY <2>2 DEF RecordsOK, ItemsAtTheirPaths
  <2>4. Bins(db'[q]) = Bins(db[q])
    BY <2>1, <2>3, RenewedIsRecord
  <2>5. db'[q].ns = db[q].ns /\ db'[q].key = db[q].key
    BY <2>4 DEF Bins
  <2> QED BY <2>3, <2>5 DEF PathOf
<1> QED BY <1>1, <1>2

\* What ages keeps its item.
LEMMA AgedBins ==
  ASSUME NEW rec \in Record, Age(rec) # Absent
  PROVE  Bins(Age(rec)) = Bins(rec) /\ Age(rec).span = rec.span
<1>1. CASE rec.span = Never
  BY <1>1, AbsentAssumption DEF Age
<1>2. CASE rec.span # Never
  <2>1. Age(rec) = [rec EXCEPT !.left = rec.left - 1]
    BY <1>2, AbsentAssumption DEF Age
  <2> QED BY <2>1 DEF Record, Bins
<1> QED BY <1>1, <1>2

LEMMA ItemsStay ==
  ASSUME TypeOK, ItemsAtTheirPaths(db), [Next]_vars
  PROVE  ItemsAtTheirPaths(db')
<1>1. CASE db' = db
  BY <1>1
<1>2. CASE Tick
  <2> SUFFICES ASSUME NEW q \in Path, db'[q] # Absent PROVE PathOf(db'[q]) = q
    BY DEF ItemsAtTheirPaths
  <2>1. db'[q] = Age(db[q])
    BY <1>2 DEF Tick
  <2>2. db[q] # Absent
    BY <2>1 DEF Age
  <2>3. db[q] \in Record /\ PathOf(db[q]) = q
    BY <2>2 DEF TypeOK, RecordsOK, ItemsAtTheirPaths
  <2>4. Bins(db'[q]) = Bins(db[q])
    BY <2>1, <2>3, AgedBins
  <2>5. db'[q].ns = db[q].ns /\ db'[q].key = db[q].key
    BY <2>4 DEF Bins
  <2> QED BY <2>3, <2>5 DEF PathOf
<1>3. ASSUME NEW p \in Proc, OperatePut(p) PROVE ItemsAtTheirPaths(db')
  <2> DEFINE op == CurrentOp(p)
             path == ItemPath(op.ns, op.key)
  <2>1. PICK rec : rec.ns = op.ns /\ rec.key = op.key /\ db' = [db EXCEPT ![path] = rec]
    BY <1>3 DEF OperatePut
  <2>2. PathOf(rec) = path
    BY <2>1 DEF PathOf
  <2> HIDE DEF path, op
  <2> QED BY <2>1, <2>2 DEF TypeOK, RecordsOK, ItemsAtTheirPaths
<1>4. ASSUME NEW p \in Proc, RemoveItem(p) PROVE ItemsAtTheirPaths(db')
  <2>1. PICK path : db' = [db EXCEPT ![path] = Absent]
    BY <1>4 DEF RemoveItem
  <2> QED BY <2>1 DEF TypeOK, RecordsOK, ItemsAtTheirPaths
<1>5. ASSUME NEW p \in Proc, GetItem(p) PROVE ItemsAtTheirPaths(db')
  <2>1. CurrentOp(p) \in GetOp
    BY <1>5, CurrentOpIsOp, KindOfOp DEF GetItem, Starts, At
  <2>2. ItemPath(CurrentOp(p).ns, CurrentOp(p).key) \in Path
    BY <2>1, PathOfItem DEF GetOp
  <2>3. PICK path \in Path : db' = db \/ db' = [db EXCEPT ![path] = Renewed(db[path])]
    BY <1>5, <2>2 DEF GetItem
  <2> QED BY <2>3, RenewedItemsStay DEF TypeOK
<1>6. ASSUME NEW p \in Proc, Refetch(p) PROVE ItemsAtTheirPaths(db')
  <2>1. PICK item \in call[p].found :
          db' = [db EXCEPT ![PathOf(item)] = Renewed(db[PathOf(item)])]
    BY <1>6 DEF Refetch
  <2>2. PathOf(item) \in Path
    BY <2>1, PathOfItem DEF TypeOK, CallOK, Item, PathOf
  <2> QED BY <2>1, <2>2, RenewedItemsStay DEF TypeOK
<1>7. ASSUME NEW p \in Proc,
             \/ Reject(p) \/ StampPut(p) \/ Query(p) \/ Scan(p) \/ Fail(p) \/ Return(p)
             \/ \E batch \in Batches[p] : Begin(p, batch)
      PROVE  db' = db
  BY <1>7 DEF Reject, StampPut, Query, Scan, Fail, Return, Begin
<1>8. CASE UNCHANGED vars
  BY <1>1, <1>8 DEF vars
<1> QED BY <1>1, <1>2, <1>3, <1>4, <1>5, <1>6, <1>7, <1>8 DEF Next, Step

\* The hypothesis of what follows: the items there may be have a record each.
OwnPaths ==
  \A s, t \in Namespaces \X Keys : ItemPath(s[1], s[2]) = ItemPath(t[1], t[2]) => s = t

\* No token and no key that is put has a separator in it.
PlainNames ==
  /\ \A ns \in Namespaces : \A i \in DOMAIN ns : SepFree(ns[i])
  /\ \A key \in Keys : SepFree(key)

(* Where names are plain, the items have a record each, however deep their *)
(* namespaces are (store.py _key); where they are not, items of two        *)
(* namespaces may share one.                                               *)
THEOREM PlainNamesOwnPaths == PlainNames => OwnPaths
<1> SUFFICES ASSUME PlainNames, NEW n1 \in Namespaces, NEW n2 \in Namespaces, NEW k1 \in Keys, NEW k2 \in Keys,
                    ItemPath(n1, k1) = ItemPath(n2, k2)
             PROVE  n1 = n2 /\ k1 = k2
  BY DEF OwnPaths
<1>1. n1 \in Seq(Str) /\ n2 \in Seq(Str) /\ k1 \in Str /\ k2 \in Str
  BY NamespacesAssumption
<1>2. PICK plain : plain = {s \in Seq(Str) \X Str : SepFree(s[2]) /\ \A i \in DOMAIN s[1] : SepFree(s[1][i])}
  OBVIOUS
<1>3. <<n1, k1>> \in plain /\ <<n2, k2>> \in plain
  BY <1>1, <1>2 DEF PlainNames
<1>4. \A s, t \in plain : ItemPath(s[1], s[2]) = ItemPath(t[1], t[2]) => s = t
  BY <1>2, ItemKeysDistinct DEF ItemPathsAreDistinct
<1>5. <<n1, k1>> = <<n2, k2>>
  BY <1>3, <1>4
<1> QED BY <1>5

LEMMA OwnItem ==
  ASSUME OwnPaths, RecordsOK(db), ItemsAtTheirPaths(db),
         NEW ns \in Namespaces, NEW key \in Keys, Stored(ItemPath(ns, key))
  PROVE  /\ db[ItemPath(ns, key)] \in Record
         /\ db[ItemPath(ns, key)].ns = ns /\ db[ItemPath(ns, key)].key = key
<1>1. PICK path \in Path : path = ItemPath(ns, key)
  BY PathOfItem
<1>2. db[path] \in Record /\ PathOf(db[path]) = path
  BY <1>1 DEF RecordsOK, ItemsAtTheirPaths, Stored
<1>3. PICK ns2 \in Namespaces, key2 \in Keys : ns2 = db[path].ns /\ key2 = db[path].key
  BY <1>2 DEF Record
<1>4. ItemPath(ns2, key2) = ItemPath(ns, key)
  BY <1>1, <1>2, <1>3 DEF PathOf
<1>5. <<ns2, key2>> = <<ns, key>>
  <2>1. <<ns2, key2>> \in Namespaces \X Keys /\ <<ns, key>> \in Namespaces \X Keys
    OBVIOUS
  <2> QED BY <1>4, <2>1 DEF OwnPaths
<1> QED BY <1>1, <1>2, <1>3, <1>5

-----------------------------------------------------------------------------
(* A get returns its item.                                                 *)

AnswerIsItsItem(op, answer) ==
  \A j \in DOMAIN answer : answer[j].ns = op.ns /\ answer[j].key = op.key

GetsOK(c) ==
  \A i \in DOMAIN c.results :
    c.batch[i].op = "get" => AnswerIsItsItem(c.batch[i], c.results[i])

LEMMA GetsOKIsIt == GetReturnsItsItem <=> \A p \in Proc : GetsOK(call[p])
<1>1. ASSUME GetReturnsItsItem, NEW p \in Proc, NEW i \in DOMAIN call[p].results,
             call[p].batch[i].op = "get"
      PROVE  AnswerIsItsItem(call[p].batch[i], call[p].results[i])
  <2>1. PICK a \in AnswersTo(p, "get") :
          a = [op |-> call[p].batch[i], answer |-> call[p].results[i]]
    BY <1>1 DEF AnswersTo
  <2> QED BY <1>1, <2>1 DEF GetReturnsItsItem, AnswerIsItsItem
<1>2. ASSUME \A p \in Proc : GetsOK(call[p]), NEW p \in Proc, NEW a \in AnswersTo(p, "get"),
             NEW j \in DOMAIN a.answer
      PROVE  a.answer[j].ns = a.op.ns /\ a.answer[j].key = a.op.key
  <2>1. PICK i \in DOMAIN call[p].results :
          /\ call[p].batch[i].op = "get"
          /\ a.op = call[p].batch[i] /\ a.answer = call[p].results[i]
    BY DEF AnswersTo
  <2> QED BY <1>2, <2>1 DEF GetsOK, AnswerIsItsItem
<1> QED BY <1>1, <1>2 DEF GetReturnsItsItem, GetsOK

\* Answers are added at the end: the results of an answered call.
LEMMA AnsweredLayout ==
  ASSUME NEW c, CallOK(c), NEW answer
  PROVE  LET d == Answered(c, answer) IN
         /\ d.batch = c.batch
         /\ DOMAIN d.results = DOMAIN c.results \cup {Len(c.results) + 1}
         /\ \A i \in DOMAIN c.results : d.results[i] = c.results[i]
         /\ d.results[Len(c.results) + 1] = answer
<1> DEFINE s == Append(c.results, answer)
<1>1. /\ s \in Seq(Range(s)) /\ Len(s) = Len(c.results) + 1
      /\ \A i \in 1 .. Len(c.results) : s[i] = c.results[i]
      /\ s[Len(c.results) + 1] = answer
  BY AppendLayout DEF CallOK
<1>2. PICK n \in Nat : n = Len(c.results) /\ DOMAIN c.results = 1 .. n
  BY DEF CallOK
<1>3. DOMAIN s = 1 .. n + 1
  BY <1>1, <1>2
<1>4. Answered(c, answer).batch = c.batch /\ Answered(c, answer).results = s
  BY DEF Answered
<1> HIDE DEF s
<1> QED BY <1>1, <1>2, <1>3, <1>4

LEMMA GetsStay ==
  ASSUME OwnPaths, TypeOK, ItemsAtTheirPaths(db), NEW q \in Proc, GetsOK(call[q]),
         ResultsGrow(q)
  PROVE  GetsOK(call'[q])
<1>1. CASE Kept(q)
  BY <1>1 DEF Kept, GetsOK
<1>2. CASE call'[q].results = <<>>
  BY <1>2 DEF GetsOK
<1>3. ASSUME NEW answer, Answers(q, answer),
             CurrentOp(q).op = "get" => AnswerIsItsItem(CurrentOp(q), answer)
      PROVE  GetsOK(call'[q])
  <2>1. CallOK(call[q])
    BY DEF TypeOK
  <2>2. PICK d : d = Answered(call[q], answer) /\ call'[q] = d
    BY <1>3 DEF Answers
  <2>3. PICK n : n = Len(call[q].results) + 1
    OBVIOUS
  <2>4. /\ d.batch = call[q].batch
        /\ DOMAIN d.results = DOMAIN call[q].results \cup {n}
        /\ \A i \in DOMAIN call[q].results : d.results[i] = call[q].results[i]
        /\ d.results[n] = answer
    BY <2>1, <2>2, <2>3, AnsweredLayout
  <2>5. CurrentOp(q) = call[q].batch[n]
    BY <2>3 DEF CurrentOp
  <2> QED BY <1>3, <2>2, <2>4, <2>5 DEF GetsOK
<1>4. CASE CurrentOp(q) \in GetOp /\ Answers(q, Fetched(CurrentOp(q)))
  <2>1. AnswerIsItsItem(CurrentOp(q), Fetched(CurrentOp(q)))
    <3> DEFINE op == CurrentOp(q)
               path == ItemPath(op.ns, op.key)
    <3>1. Stored(path) => Bins(db[path]).ns = op.ns /\ Bins(db[path]).key = op.key
      <4>1. op.ns \in Namespaces /\ op.key \in Keys
        BY <1>4 DEF GetOp
      <4> QED BY <4>1, OwnItem DEF TypeOK, Bins
    <3>2. PICK item : item = Bins(db[path])
      OBVIOUS
    <3>3. Fetched(op) = IF Stored(path) THEN <<item>> ELSE <<>>
      BY <3>2 DEF Fetched
    <3> HIDE DEF path, op
    <3>4. CASE Stored(path)
      BY <3>1, <3>2, <3>3, <3>4 DEF AnswerIsItsItem, op
    <3>5. CASE ~Stored(path)
      BY <3>3, <3>5 DEF AnswerIsItsItem, op
    <3> QED BY <3>4, <3>5
  <2> QED BY <1>3, <1>4, <2>1
<1>5. CASE \/ CurrentOp(q) \in PutOp \cup ListOp /\ \E answer : Answers(q, answer)
           \/ /\ CurrentOp(q) \in SearchOp
              /\ \E items : Collected(q, items) /\ Answers(q, Page(CurrentOp(q), items))
  <2>1. CurrentOp(q).op # "get"
    BY <1>5 DEF PutOp, ListOp, SearchOp
  <2>2. PICK answer : Answers(q, answer)
    BY <1>5
  <2> QED BY <1>3, <2>1, <2>2
<1> QED BY <1>1, <1>2, <1>4, <1>5 DEF ResultsGrow

\* If the items there may be have a record each, get returns the item it was
\* asked for: whatever other callers do, and for any tokens and keys.
THEOREM GetsAreExact == OwnPaths => (Spec => []GetReturnsItsItem)
<1> SUFFICES ASSUME OwnPaths PROVE Spec => []GetReturnsItsItem
  OBVIOUS
<1> DEFINE Inv == ItemsAtTheirPaths(db) /\ \A p \in Proc : GetsOK(call[p])
<1>1. Init => Inv
  BY NoCallIsRecord DEF Init, ItemsAtTheirPaths, GetsOK
<1>2. TypeOK /\ Inv /\ [Next]_vars => Inv'
  BY StepResults, ItemsStay, GetsStay
<1>3. Inv => GetReturnsItsItem
  BY GetsOKIsIt
<1> QED BY <1>1, <1>2, <1>3, TypeCorrect, PTL DEF Spec

-----------------------------------------------------------------------------
(* AerospikeStore implements ItemStore: every request is an operation of   *)
(* the map of items taking effect at once, or nothing that the map's       *)
(* callers could notice.                                                   *)

(* The map of items.                                                       *)

LEMMA SlotPath ==
  ASSUME NEW slot \in Slot
  PROVE  ItemPath(slot[1], slot[2]) \in Path
BY PathOfItem DEF Slot

\* What changes no item in a record changes nothing in the map.
LEMMA ItemsKept ==
  ASSUME \A path \in Path : Shown(db'[path]) = Shown(db[path])
  PROVE  AllItems' = AllItems
BY SlotPath DEF AllItems

\* Where items have a record each, what is done to a record is done to one item.
LEMMA ItemChanges ==
  ASSUME OwnPaths, RecordsOK(db), NEW ns \in Namespaces, NEW key \in Keys, NEW rec,
         db' = [db EXCEPT ![ItemPath(ns, key)] = rec]
  PROVE  AllItems' = [AllItems EXCEPT ![<<ns, key>>] = Shown(rec)]
<1> DEFINE old == AllItems
           new == [AllItems EXCEPT ![<<ns, key>>] = Shown(rec)]
<1>1. old = [slot \in Slot |-> Shown(db[ItemPath(slot[1], slot[2])])]
  BY DEF AllItems
<1>2. AllItems' = [slot \in Slot |-> Shown(db'[ItemPath(slot[1], slot[2])])]
  BY DEF AllItems
<1>3. <<ns, key>> \in Slot
  BY DEF Slot
<1>4. ASSUME NEW slot \in Slot
      PROVE  Shown(db'[ItemPath(slot[1], slot[2])]) = new[slot]
  <2>1. CASE slot = <<ns, key>>
    <3>1. db'[ItemPath(ns, key)] = rec
      BY PathOfItem DEF RecordsOK
    <3> QED BY <2>1, <3>1, <1>1
  <2>2. CASE slot # <<ns, key>>
    <3>1. ItemPath(slot[1], slot[2]) # ItemPath(ns, key)
      BY <1>3, <2>2 DEF OwnPaths, Slot
    <3>2. db'[ItemPath(slot[1], slot[2])] = db[ItemPath(slot[1], slot[2])]
      BY <3>1, SlotPath DEF RecordsOK
    <3> QED BY <1>1, <2>2, <3>2
  <2> QED BY <2>1, <2>2
<1>5. new = [slot \in Slot |-> new[slot]]
  BY <1>1
<1> HIDE DEF new
<1>6. AllItems' = new
  BY <1>2, <1>4, <1>5
<1> QED BY <1>6 DEF new

LEMMA RenewedShown ==
  ASSUME NEW rec \in Record \cup {Absent}
  PROVE  Shown(Renewed(rec)) = Shown(rec)
<1>1. CASE rec = Absent
  BY <1>1 DEF Renewed, Shown
<1>2. CASE rec \in Record
  <2>1. rec # Absent /\ Renewed(rec) # Absent
    BY <1>2, RenewedIsRecord, AbsentAssumption
  <2>2. Renewed(rec).span = rec.span /\ Bins(Renewed(rec)) = Bins(rec)
    BY <1>2, RenewedIsRecord
  <2> QED BY <2>1, <2>2 DEF Shown, Bins
<1> QED BY <1>1, <1>2

\* A read that renews a record changes no item.
LEMMA RenewingKeepsItems ==
  ASSUME RecordsOK(db), NEW path \in Path, db' = [db EXCEPT ![path] = Renewed(db[path])]
  PROVE  AllItems' = AllItems
<1>1. ASSUME NEW q \in Path PROVE Shown(db'[q]) = Shown(db[q])
  <2>1. db[q] \in Record \cup {Absent}
    BY DEF RecordsOK
  <2>2. db'[q] = db[q] \/ db'[q] = Renewed(db[q])
    BY DEF RecordsOK
  <2> QED BY <2>1, <2>2, RenewedShown
<1> QED BY <1>1, ItemsKept

-----------------------------------------------------------------------------
(* The calls as the map's callers see them.                                *)

ShownCall(c) ==
  [batch |-> c.batch, results |-> c.results,
   pc |-> IF c.pc \in {"idle", "done", "failed"} THEN c.pc ELSE "working"]

LEMMA CallsShown == AllCalls = [p \in Proc |-> ShownCall(call[p])]
BY DEF AllCalls, ShownCall, Working, At

LEMMA CallsShownNext == AllCalls' = [p \in Proc |-> ShownCall(call'[p])]
BY DEF AllCalls, ShownCall, Working, At

LEMMA CallShown ==
  ASSUME CallsOK, NEW p \in Proc, NEW c, call' = [call EXCEPT ![p] = c]
  PROVE  AllCalls' = [AllCalls EXCEPT ![p] = ShownCall(c)]
<1>1. \A q \in Proc : call'[q] = IF q = p THEN c ELSE call[q]
  BY DEF CallsOK
<1>2. \A q \in Proc : ShownCall(call'[q]) = IF q = p THEN ShownCall(c) ELSE ShownCall(call[q])
  BY <1>1
<1> QED BY <1>2, CallsShown, CallsShownNext

\* A call that works does so on the same operation in both.
LEMMA WorkShown ==
  ASSUME TypeOK, NEW p \in Proc, call[p].pc \in {"next", "operate", "scan", "refetch"}
  PROVE  Abstract!Working(p) /\ Abstract!CurrentOp(p) = CurrentOp(p)
<1>1. AllCalls[p] = ShownCall(call[p])
  BY CallsShown
<1> QED BY <1>1 DEF ShownCall, Abstract!Working, Abstract!CurrentOp, CurrentOp

LEMMA AnswerShown ==
  ASSUME NEW c, CallOK(c), NEW answer
  PROVE  ShownCall(Answered(c, answer)) = Abstract!Answered(ShownCall(c), answer)
<1>1. PICK batch, results, d :
        batch = c.batch /\ results = c.results /\ d = ShownCall(c)
  OBVIOUS
<1>2. d.results = results /\ d.batch = batch
  BY <1>1 DEF ShownCall
<1>3. Abstract!Answered(d, answer) =
        [batch |-> batch, results |-> Append(results, answer),
         pc |-> IF Len(results) + 1 = Len(batch) THEN "done" ELSE "working"]
  BY <1>2 DEF Abstract!Answered
<1>4. ShownCall(Answered(c, answer)) =
        [batch |-> batch, results |-> Append(results, answer),
         pc |-> IF Len(results) + 1 = Len(batch) THEN "done" ELSE "working"]
  BY <1>1 DEF ShownCall, Answered
<1> QED BY <1>1, <1>3, <1>4

\* A call that raises.
LEMMA FailureShown ==
  ASSUME TypeOK, NEW p \in Proc, call' = [call EXCEPT ![p].pc = "failed"]
  PROVE  AllCalls' = [AllCalls EXCEPT ![p].pc = "failed"]
<1> DEFINE c == [call[p] EXCEPT !.pc = "failed"]
<1>1. call' = [call EXCEPT ![p] = c]
  BY DEF TypeOK
<1>2. ShownCall(c) = [ShownCall(call[p]) EXCEPT !.pc = "failed"]
  BY DEF TypeOK, CallOK, ShownCall
<1> HIDE DEF c
<1>3. AllCalls' = [AllCalls EXCEPT ![p] = ShownCall(c)]
  BY <1>1, CallShown DEF TypeOK, CallsOK
<1>4. AllCalls[p] = ShownCall(call[p])
  BY CallsShown
<1> QED BY <1>2, <1>3, <1>4

\* The end of an operation, whatever is answered.
LEMMA ReplyShown ==
  ASSUME TypeOK, NEW p \in Proc, NEW answer, Reply(p, Answered(call[p], answer))
  PROVE  Abstract!Reply(p, answer)
<1>1. AllCalls[p] = ShownCall(call[p])
  BY CallsShown
<1>2. CASE call' = [call EXCEPT ![p] = Answered(call[p], answer)]
  <2>1. AllCalls' = [AllCalls EXCEPT ![p] = ShownCall(Answered(call[p], answer))]
    BY <1>2, CallShown DEF TypeOK, CallsOK
  <2>2. ShownCall(Answered(call[p], answer)) = Abstract!Answered(AllCalls[p], answer)
    BY <1>1, AnswerShown DEF TypeOK
  <2> QED BY <2>1, <2>2 DEF Abstract!Reply
<1>3. CASE Faults /\ call' = [call EXCEPT ![p].pc = "failed"]
  BY <1>3, FailureShown DEF Abstract!Reply
<1> QED BY <1>2, <1>3 DEF Reply

\* A step between two requests of an operation is none for the map's callers.
LEMMA MoveShown ==
  ASSUME TypeOK, NEW p \in Proc, NEW c, call' = [call EXCEPT ![p] = c],
         call[p].pc \in {"next", "operate", "scan", "refetch"},
         c.batch = call[p].batch, c.results = call[p].results,
         c.pc \in {"next", "operate", "scan", "refetch"}
  PROVE  AllCalls' = AllCalls
<1>1. ShownCall(c) = ShownCall(call[p])
  BY DEF ShownCall
<1>2. AllCalls' = [AllCalls EXCEPT ![p] = ShownCall(c)]
  BY CallShown DEF TypeOK, CallsOK
<1> QED BY <1>1, <1>2, CallsShown

-----------------------------------------------------------------------------
(* Each step maps to a step of the map or to none.                         *)

\* What the steps are taken from: in every reachable state it holds.
Sound == TypeOK /\ ItemsAtTheirPaths(db)

SameView == AllItems' = AllItems /\ AllCalls' = AllCalls

LEMMA SameDbSameItems == db' = db => AllItems' = AllItems
BY DEF AllItems

LEMMA BeginMaps ==
  ASSUME Sound, NEW p \in Proc, NEW batch \in Batches[p], Begin(p, batch)
  PROVE  Abstract!Begin(p, batch)
<1>1. PICK pc : pc = IF batch = <<>> THEN "done" ELSE "next"
  OBVIOUS
<1> DEFINE c == [NoCall EXCEPT !.batch = batch, !.pc = pc]
<1>2. At(p, "idle") /\ call' = [call EXCEPT ![p] = c] /\ db' = db
  BY <1>1 DEF Begin
<1>3. ShownCall(c) = [batch |-> batch, results |-> <<>>,
                      pc |-> IF batch = <<>> THEN "done" ELSE "working"]
  <2>1. c.batch = batch /\ c.results = <<>> /\ c.pc = pc
    BY NoCallIsRecord
  <2> HIDE DEF c
  <2> QED BY <1>1, <2>1 DEF ShownCall
<1> HIDE DEF c
<1>4. AllCalls' = [AllCalls EXCEPT ![p] = ShownCall(c)]
  BY <1>2, CallShown DEF Sound, TypeOK, CallsOK
<1>5. AllCalls[p].pc = "idle"
  BY <1>2, CallsShown DEF ShownCall, At
<1>6. AllItems' = AllItems
  BY <1>2, SameDbSameItems
<1> QED BY <1>3, <1>4, <1>5, <1>6 DEF Abstract!Begin

LEMMA ReturnMaps ==
  ASSUME Sound, NEW p \in Proc, Return(p)
  PROVE  Abstract!Return(p)
<1>1. call[p].pc \in {"done", "failed"} /\ call' = [call EXCEPT ![p] = NoCall] /\ db' = db
  BY DEF Return, At
<1>2. AllCalls' = [AllCalls EXCEPT ![p] = Abstract!NoCall]
  <2>1. ShownCall(NoCall) = Abstract!NoCall
    BY DEF ShownCall, NoCall, Abstract!NoCall
  <2> QED BY <1>1, <2>1, CallShown DEF Sound, TypeOK, CallsOK
<1>3. AllCalls[p].pc \in {"done", "failed"}
  BY <1>1, CallsShown DEF ShownCall
<1> QED BY <1>1, <1>2, <1>3, SameDbSameItems DEF Abstract!Return

\* An error, or an operation that the code rejects.
LEMMA FailureMaps ==
  ASSUME Sound, NEW p \in Proc, call[p].pc \in {"next", "operate", "scan", "refetch"},
         Faults \/ CurrentOp(p).op \in {"search", "list_namespaces"},
         call' = [call EXCEPT ![p].pc = "failed"], AllItems' = AllItems
  PROVE  Abstract!Raise(p)
BY WorkShown, FailureShown DEF Sound, Abstract!Raise

LEMMA FailMaps ==
  ASSUME Sound, NEW p \in Proc, Reject(p) \/ Fail(p)
  PROVE  Abstract!Raise(p)
<1>1. call' = [call EXCEPT ![p].pc = "failed"] /\ db' = db
  BY DEF Reject, Fail
<1>2. call[p].pc \in {"next", "operate", "scan", "refetch"}
  BY DEF Reject, Fail, At, Working, Sound, TypeOK, CallOK, Pcs
<1>3. Faults \/ CurrentOp(p).op \in {"search", "list_namespaces"}
  BY DEF Reject, Fail, Unsupported
<1> QED BY <1>1, <1>2, <1>3, SameDbSameItems, FailureMaps

\* Reading the clock, and the start of a query, cannot be noticed.
LEMMA StampPutMaps ==
  ASSUME Sound, NEW p \in Proc, StampPut(p)
  PROVE  SameView
<1> DEFINE c == [call[p] EXCEPT !.pc = "operate", !.now = clock]
<1>1. call[p].pc = "next" /\ db' = db
  BY DEF StampPut, Starts, At
<1>2. call' = [call EXCEPT ![p] = c]
  BY DEF StampPut, Sound, TypeOK
<1>3. c.batch = call[p].batch /\ c.results = call[p].results /\ c.pc = "operate"
  BY DEF Sound, TypeOK, CallOK
<1> HIDE DEF c
<1>4. AllCalls' = AllCalls
  BY <1>1, <1>2, <1>3, MoveShown DEF Sound
<1> QED BY <1>1, <1>4, SameDbSameItems DEF SameView

LEMMA QueryMaps ==
  ASSUME Sound, NEW p \in Proc, Query(p)
  PROVE  SameView
<1> DEFINE found == Matching(db, CurrentOp(p))
           c == [call[p] EXCEPT !.pc = "scan", !.found = found]
<1>1. call[p].pc = "next" /\ db' = db
  BY DEF Query, Starts, At
<1>2. call' = [call EXCEPT ![p] = c]
  BY DEF Query, Sound, TypeOK
<1> HIDE DEF found
<1>3. c.batch = call[p].batch /\ c.results = call[p].results /\ c.pc = "scan"
  BY DEF Sound, TypeOK, CallOK
<1> HIDE DEF c
<1>4. AllCalls' = AllCalls
  BY <1>1, <1>2, <1>3, MoveShown DEF Sound
<1> QED BY <1>1, <1>4, SameDbSameItems DEF SameView

\* The end of a search or a listing: an answer, or an error.
LEMMA LookMaps ==
  ASSUME Sound, NEW p \in Proc, call[p].pc \in {"next", "operate", "scan", "refetch"},
         CurrentOp(p).op \in {"search", "list_namespaces"},
         NEW answer, Reply(p, Answered(call[p], answer)), AllItems' = AllItems
  PROVE  Abstract!Look(p) \/ Abstract!Raise(p)
<1>1. Abstract!Reply(p, answer)
  BY ReplyShown DEF Sound
<1>2. CASE Faults /\ AllCalls' = [AllCalls EXCEPT ![p].pc = "failed"]
  BY <1>2, WorkShown DEF Sound, Abstract!Raise
<1>3. CASE AllCalls' = [AllCalls EXCEPT ![p] = Abstract!Answered(@, answer)]
  <2>1. PICK results : /\ results = call[p].results /\ results = AllCalls[p].results
                       /\ results \in Seq(Range(results))
    BY CallsShown DEF ShownCall, Sound, TypeOK, CallOK
  <2>2. PICK n : n = Len(results) + 1
    OBVIOUS
  <2>3. AllCalls'[p] = Abstract!Answered(AllCalls[p], answer)
    BY <1>3, CallsShown
  <2>4. AllCalls'[p].results = Append(results, answer)
    BY <2>1, <2>3 DEF Abstract!Answered
  <2>5. Len(Append(results, answer)) = n /\ Append(results, answer)[n] = answer
    BY <2>1, <2>2, AppendLayout
  <2>6. Abstract!Working(p) /\ Abstract!CurrentOp(p) = CurrentOp(p)
    BY WorkShown DEF Sound
  <2>7. Len(AllCalls'[p].results) = n /\ AllCalls'[p].results[n] = answer
    BY <2>4, <2>5
  <2> QED BY <1>3, <2>1, <2>2, <2>6, <2>7 DEF Abstract!Look
<1> QED BY <1>1, <1>2, <1>3 DEF Abstract!Reply

\* A request in the middle of a search: nothing to notice, or an error.
LEMMA MidwayMaps ==
  ASSUME Sound, NEW p \in Proc, call[p].pc \in {"next", "operate", "scan", "refetch"},
         CurrentOp(p).op \in {"search", "list_namespaces"},
         NEW c, Reply(p, c), c.batch = call[p].batch, c.results = call[p].results,
         c.pc \in {"next", "operate", "scan", "refetch"}, AllItems' = AllItems
  PROVE  SameView \/ Abstract!Raise(p)
<1>1. CASE call' = [call EXCEPT ![p] = c]
  BY <1>1, MoveShown DEF Sound, SameView
<1>2. CASE Faults /\ call' = [call EXCEPT ![p].pc = "failed"]
  BY <1>2, FailureMaps
<1> QED BY <1>1, <1>2 DEF Reply

LEMMA ScanMaps ==
  ASSUME Sound, NEW p \in Proc, Scan(p)
  PROVE  SameView \/ Abstract!Look(p) \/ Abstract!Raise(p)
<1> DEFINE op == CurrentOp(p)
<1>1. call[p].pc = "scan" /\ AllItems' = AllItems
  BY SameDbSameItems DEF Scan, At
<1>2. op.op \in {"search", "list_namespaces"}
  BY <1>1 DEF Sound, TypeOK, CallOK, CurrentOp, SearchOp, ListOp
<1>3. PICK found :
        IF op.op = "list_namespaces"
          THEN Reply(p, Answered(call[p], NamespacePage({item.ns : item \in found},
                                                        op.depth, op.offset, op.limit)))
        ELSE IF Refresh(op) /\ found # {}
          THEN Reply(p, [call[p] EXCEPT !.pc = "refetch", !.found = found])
          ELSE \E out \in SetToSeqs(found) : Reply(p, Answered(call[p], Page(op, out)))
  BY DEF Scan
<1>4. CASE \E answer : Reply(p, Answered(call[p], answer))
  BY <1>1, <1>2, <1>4, LookMaps
<1>5. CASE Reply(p, [call[p] EXCEPT !.pc = "refetch", !.found = found])
  <2> DEFINE c == [call[p] EXCEPT !.pc = "refetch", !.found = found]
  <2>1. c.batch = call[p].batch /\ c.results = call[p].results /\ c.pc = "refetch"
    BY DEF Sound, TypeOK, CallOK
  <2>2. Reply(p, c)
    BY <1>5
  <2> HIDE DEF c
  <2> QED BY <1>1, <1>2, <2>1, <2>2, MidwayMaps
<1> QED BY <1>3, <1>4, <1>5

LEMMA RefetchMaps ==
  ASSUME Sound, NEW p \in Proc, Refetch(p)
  PROVE  SameView \/ Abstract!Look(p) \/ Abstract!Raise(p)
<1> DEFINE op == CurrentOp(p)
<1>1. call[p].pc = "refetch"
  BY DEF Refetch, At
<1>2. op.op \in {"search", "list_namespaces"}
  BY <1>1 DEF Sound, TypeOK, CallOK, CurrentOp, SearchOp
<1>3. PICK item, out, rest :
        /\ item \in call[p].found
        /\ db' = [db EXCEPT ![PathOf(item)] = Renewed(db[PathOf(item)])]
        /\ Reply(p, IF rest = {} THEN Answered(call[p], Page(op, out))
                    ELSE [call[p] EXCEPT !.found = rest, !.out = out])
  BY DEF Refetch
<1>4. PathOf(item) \in Path
  BY <1>3, PathOfItem DEF Sound, TypeOK, CallOK, Item, PathOf
<1>5. AllItems' = AllItems
  BY <1>3, <1>4, RenewingKeepsItems DEF Sound, TypeOK
<1>6. CASE rest = {}
  BY <1>1, <1>2, <1>3, <1>5, <1>6, LookMaps
<1>7. CASE rest # {}
  <2> DEFINE c == [call[p] EXCEPT !.found = rest, !.out = out]
  <2>1. c.batch = call[p].batch /\ c.results = call[p].results /\ c.pc = "refetch"
    BY <1>1 DEF Sound, TypeOK, CallOK
  <2>2. Reply(p, c)
    BY <1>3, <1>7
  <2> HIDE DEF c
  <2> QED BY <1>1, <1>2, <1>5, <2>1, <2>2, MidwayMaps
<1> QED BY <1>6, <1>7

\* The item of a stored record, and of none.
LEMMA ItemOfRecord ==
  ASSUME RecordsOK(db), NEW ns \in Namespaces, NEW key \in Keys
  PROVE  LET rec == db[ItemPath(ns, key)] IN
         /\ AllItems[<<ns, key>>] = Shown(rec)
         /\ rec = Absent <=> Shown(rec) = Absent
         /\ rec # Absent => /\ rec \in Record
                            /\ Shown(rec).created = rec.created
                            /\ Shown(rec).value = rec.value
                            /\ Shown(rec).updated = rec.updated
<1>1. PICK path \in Path : path = ItemPath(ns, key)
  BY PathOfItem
<1>2. PICK rec \in Record \cup {Absent} : rec = db[path]
  BY DEF RecordsOK
<1>3. AllItems[<<ns, key>>] = Shown(rec)
  BY <1>1, <1>2 DEF AllItems, Slot
<1>4. CASE rec = Absent
  BY <1>1, <1>2, <1>3, <1>4 DEF Shown
<1>5. CASE rec # Absent
  <2>1. PICK item : item = [value |-> rec.value, created |-> rec.created,
                            updated |-> rec.updated, mortal |-> rec.span # Never]
    OBVIOUS
  <2>2. item \in [value : Value, created : Time, updated : Time, mortal : BOOLEAN]
    BY <1>2, <1>5, <2>1 DEF Record
  <2>3. Shown(rec) = item /\ item # Absent
    BY <1>5, <2>1, <2>2, AbsentAssumption DEF Shown
  <2> QED BY <1>1, <1>2, <1>3, <1>5, <2>1, <2>3
<1> QED BY <1>4, <1>5

LEMMA GetMaps ==
  ASSUME OwnPaths, Sound, NEW p \in Proc, GetItem(p)
  PROVE  Abstract!Get(p)
<1>1. call[p].pc = "next" /\ CurrentOp(p) \in GetOp
  BY CurrentOpIsOp, KindOfOp DEF Sound, GetItem, Starts, At
<1>2. PICK op \in GetOp : op = CurrentOp(p)
  BY <1>1
<1>3. PICK ns \in Namespaces, key \in Keys : ns = op.ns /\ key = op.key
  BY DEF GetOp
<1>4. PICK path \in Path : path = ItemPath(ns, key)
  BY PathOfItem
<1>5. AllItems' = AllItems
  <2>1. db' = db \/ db' = [db EXCEPT ![path] = Renewed(db[path])]
    BY <1>2, <1>3, <1>4 DEF GetItem
  <2> QED BY <2>1, SameDbSameItems, RenewingKeepsItems DEF Sound, TypeOK
<1>6. PICK item : item = AllItems[<<ns, key>>]
  OBVIOUS
<1> DEFINE shown == [ns |-> ns, key |-> key, value |-> item.value,
                     created |-> item.created, updated |-> item.updated]
<1>7. /\ item = Absent <=> db[path] = Absent
      /\ item # Absent => Bins(db[path]) = shown
  <2>1. /\ item = Absent <=> db[path] = Absent
        /\ db[path] # Absent => /\ item.created = db[path].created
                                /\ item.value = db[path].value
                                /\ item.updated = db[path].updated
    BY <1>4, <1>6, ItemOfRecord DEF Sound, TypeOK
  <2>2. db[path] # Absent => db[path].ns = ns /\ db[path].key = key
    BY <1>4, OwnItem DEF Sound, TypeOK, Stored
  <2> QED BY <2>1, <2>2 DEF Bins
<1> HIDE DEF shown
<1>8. PICK answer : answer = IF item = Absent THEN <<>> ELSE <<shown>>
  OBVIOUS
<1>9. Reply(p, Answered(call[p], answer))
  <2>1. Reply(p, Answered(call[p], IF Stored(path) THEN <<Bins(db[path])>> ELSE <<>>))
    BY <1>2, <1>3, <1>4 DEF GetItem
  <2>2. (IF Stored(path) THEN <<Bins(db[path])>> ELSE <<>>) = answer
    BY <1>7, <1>8 DEF Stored
  <2> QED BY <2>1, <2>2
<1>10. Abstract!Reply(p, answer)
  BY <1>9, ReplyShown DEF Sound
<1>11. Abstract!Working(p) /\ Abstract!CurrentOp(p) = op /\ Abstract!SlotOf(op) = <<ns, key>>
  BY <1>1, <1>2, <1>3, WorkShown DEF Sound, Abstract!SlotOf
<1>12. op.op = "get"
  BY DEF GetOp
<1> QED BY <1>3, <1>5, <1>6, <1>8, <1>10, <1>11, <1>12 DEF Abstract!Get, shown

LEMMA DeleteMaps ==
  ASSUME OwnPaths, Sound, NEW p \in Proc, RemoveItem(p)
  PROVE  Abstract!Delete(p)
<1>1. call[p].pc = "next" /\ CurrentOp(p) \in PutOp /\ CurrentOp(p).value = NoValue
  BY CurrentOpIsOp, KindOfOp DEF Sound, RemoveItem, Starts, At
<1>2. PICK op \in PutOp : op = CurrentOp(p)
  BY <1>1
<1>3. PICK ns \in Namespaces, key \in Keys : ns = op.ns /\ key = op.key
  BY DEF PutOp
<1>4. db' = [db EXCEPT ![ItemPath(ns, key)] = Absent]
  BY <1>2, <1>3 DEF RemoveItem
<1>5. AllItems' = [AllItems EXCEPT ![<<ns, key>>] = Absent]
  BY <1>4, ItemChanges DEF Sound, TypeOK, Shown
<1>6. PICK answer : answer = <<>>
  OBVIOUS
<1>7. Reply(p, Answered(call[p], answer))
  BY <1>6 DEF RemoveItem
<1>8. Abstract!Reply(p, answer)
  BY <1>7, ReplyShown DEF Sound
<1>9. Abstract!Working(p) /\ Abstract!CurrentOp(p) = op /\ Abstract!SlotOf(op) = <<ns, key>>
  BY <1>1, <1>2, <1>3, WorkShown DEF Sound, Abstract!SlotOf
<1>10. op.op = "put"
  BY DEF PutOp
<1> QED BY <1>1, <1>2, <1>5, <1>6, <1>8, <1>9, <1>10 DEF Abstract!Delete

LEMMA PutMaps ==
  ASSUME OwnPaths, Sound, NEW p \in Proc, OperatePut(p)
  PROVE  Abstract!Put(p)
<1>1. call[p].pc = "operate" /\ CurrentOp(p) \in PutOp /\ CurrentOp(p).value # NoValue
  BY DEF Sound, TypeOK, CallOK, OperatePut, At, CurrentOp
<1>2. PICK op \in PutOp : op = CurrentOp(p)
  BY <1>1
<1>3. PICK ns \in Namespaces, key \in Keys : ns = op.ns /\ key = op.key
  BY DEF PutOp
<1>4. PICK path \in Path : path = ItemPath(ns, key)
  BY PathOfItem
<1>5. PICK now \in Time : now = call[p].now
  BY DEF Sound, TypeOK, CallOK
<1>6. PICK span \in Nat : span = SpanOf(op.ttl)
  BY SpanIsNat DEF PutOp
<1>7. PICK value \in Value : value = op.value
  BY <1>1, <1>2 DEF PutOp
<1>8. PICK created \in Time : created = IF Stored(path) THEN db[path].created ELSE now
  BY DEF Sound, TypeOK, RecordsOK, Record, Stored
<1> DEFINE rec == [ns |-> ns, key |-> key, value |-> value, created |-> created,
                   updated |-> now, span |-> span, left |-> span]
<1>9. db' = [db EXCEPT ![path] = rec]
  BY <1>2, <1>3, <1>4, <1>5, <1>6, <1>7, <1>8 DEF OperatePut
<1>10. rec \in Record /\ rec # Absent
  BY AbsentAssumption DEF Record
<1>11. PICK mortal \in BOOLEAN : mortal = (span # Never)
  OBVIOUS
<1> DEFINE item == [value |-> value, created |-> created, updated |-> now, mortal |-> mortal]
<1>12. Shown(rec) = item
  BY <1>10, <1>11 DEF Shown
<1> HIDE DEF rec
<1>13. AllItems' = [AllItems EXCEPT ![<<ns, key>>] = item]
  <2> HIDE DEF item
  <2>1. AllItems' = [AllItems EXCEPT ![<<ns, key>>] = Shown(rec)]
    BY <1>4, <1>9, ItemChanges DEF Sound, TypeOK
  <2> QED BY <1>12, <2>1
<1>14. mortal => op.ttl # NoTtl /\ op.ttl >= 0
  <2>1. op.ttl \in Int \cup {NoTtl}
    BY DEF PutOp
  <2>2. ASSUME span # Never PROVE op.ttl # NoTtl /\ op.ttl >= 0
    <3>1. CASE op.ttl = NoTtl
      BY <1>6, <2>2, <3>1 DEF SpanOf
    <3>2. CASE op.ttl \in Int /\ op.ttl < 0
      BY <1>6, <2>2, <3>2 DEF SpanOf
    <3>3. CASE op.ttl \in Int /\ op.ttl >= 0
      BY <3>3, NoTtlAssumption
    <3> QED BY <2>1, <3>1, <3>2, <3>3
  <2> QED BY <1>11, <2>2
<1>15. PICK old : old = AllItems[<<ns, key>>]
  OBVIOUS
<1>16. created = IF old = Absent THEN now ELSE old.created
  BY <1>4, <1>8, <1>15, ItemOfRecord DEF Sound, TypeOK, Stored
<1>17. PICK answer : answer = <<>>
  OBVIOUS
<1>18. Abstract!Reply(p, answer)
  <2>1. Reply(p, Answered(call[p], answer))
    BY <1>17 DEF OperatePut
  <2> QED BY <2>1, ReplyShown DEF Sound
<1>19. Abstract!Working(p) /\ Abstract!CurrentOp(p) = op /\ Abstract!SlotOf(op) = <<ns, key>>
  BY <1>1, <1>2, <1>3, WorkShown DEF Sound, Abstract!SlotOf
<1>20. op.op = "put" /\ op.value # NoValue
  BY <1>1, <1>2 DEF PutOp
<1>21. AllItems' = [AllItems EXCEPT ![<<ns, key>>] =
         [value |-> op.value, created |-> IF old = Absent THEN now ELSE old.created,
          updated |-> now, mortal |-> mortal]]
  BY <1>7, <1>13, <1>16
<1> QED BY <1>14, <1>15, <1>17, <1>18, <1>19, <1>20, <1>21 DEF Abstract!Put

\* A tick takes items with a lifetime, and changes none.
LEMMA TickMaps ==
  ASSUME Sound, Tick
  PROVE  Abstract!Expire
<1> DEFINE gone == {slot \in Slot : AllItems[slot] # Absent /\ AllItems'[slot] = Absent}
<1>1. ASSUME NEW slot \in Slot
      PROVE  \/ AllItems'[slot] = AllItems[slot]
             \/ /\ AllItems[slot] # Absent /\ AllItems'[slot] = Absent
                /\ AllItems[slot].mortal
  <2>1. PICK path \in Path : path = ItemPath(slot[1], slot[2])
    BY SlotPath
  <2>2. PICK rec \in Record \cup {Absent} : rec = db[path]
    BY DEF Sound, TypeOK, RecordsOK
  <2>3. AllItems[slot] = Shown(rec) /\ AllItems'[slot] = Shown(Age(rec))
    BY <2>1, <2>2 DEF AllItems, Tick
  <2>4. CASE rec = Absent
    BY <2>3, <2>4 DEF Age
  <2>5. CASE rec \in Record /\ Age(rec) # Absent
    <3>1. rec # Absent
      BY <2>5, AbsentAssumption
    <3>2. Bins(Age(rec)) = Bins(rec) /\ Age(rec).span = rec.span
      BY <2>5, AgedBins
    <3>3. Shown(Age(rec)) = Shown(rec)
      BY <2>5, <3>1, <3>2 DEF Shown, Bins
    <3> QED BY <2>3, <3>3
  <2>6. CASE rec \in Record /\ Age(rec) = Absent
    <3>1. rec # Absent
      BY <2>6, AbsentAssumption
    <3>2. rec.span # Never
      BY <2>6, <3>1 DEF Age
    <3>3. AllItems'[slot] = Absent
      BY <2>3, <2>6 DEF Shown
    <3>4. PICK item : item = [value |-> rec.value, created |-> rec.created,
                              updated |-> rec.updated, mortal |-> rec.span # Never]
      OBVIOUS
    <3>5. AllItems[slot] = item /\ item.mortal
      BY <2>3, <3>1, <3>2, <3>4 DEF Shown
    <3>6. item \in [value : Value, created : Time, updated : Time, mortal : BOOLEAN]
      BY <2>6, <3>4 DEF Record
    <3> QED BY <3>3, <3>5, <3>6, AbsentAssumption
  <2> QED BY <2>2, <2>4, <2>5, <2>6
<1>2. gone \in SUBSET {slot \in Slot : AllItems[slot] # Absent}
      /\ \A slot \in gone : AllItems[slot].mortal
  BY <1>1
<1>3. AllItems' = [slot \in Slot |-> IF slot \in gone THEN Absent ELSE AllItems[slot]]
  <2>1. AllItems' = [slot \in Slot |-> AllItems'[slot]]
    BY DEF AllItems
  <2> QED BY <1>1, <2>1
<1>4. AllCalls' = AllCalls
  BY CallsShown, CallsShownNext DEF Tick
<1> HIDE DEF gone
<1> QED BY <1>2, <1>3, <1>4 DEF Abstract!Expire

-----------------------------------------------------------------------------
(* The store implements the map.                                           *)

LEMMA StepMaps ==
  ASSUME OwnPaths, Sound, NEW p \in Proc, Step(p)
  PROVE  Abstract!Next \/ SameView
BY FailMaps, StampPutMaps, PutMaps, DeleteMaps, GetMaps, QueryMaps, ScanMaps, RefetchMaps,
   ReturnMaps DEF Step, Abstract!Next

LEMMA NextMaps ==
  ASSUME OwnPaths, Sound, [Next]_vars
  PROVE  [Abstract!Next]_(Abstract!vars)
<1>1. ASSUME SameView PROVE UNCHANGED Abstract!vars
  BY <1>1 DEF SameView, Abstract!vars
<1>2. CASE UNCHANGED vars
  <2>1. SameView
    BY <1>2, CallsShown, CallsShownNext, SameDbSameItems DEF vars, SameView
  <2> QED BY <1>1, <2>1
<1>3. ASSUME NEW p \in Proc, Step(p) PROVE [Abstract!Next]_(Abstract!vars)
  BY <1>1, <1>3, StepMaps
<1>4. ASSUME NEW p \in Proc, NEW batch \in Batches[p], Begin(p, batch) PROVE Abstract!Next
  BY <1>4, BeginMaps DEF Abstract!Next
<1>5. CASE Tick
  BY <1>5, TickMaps DEF Abstract!Next
<1> QED BY <1>2, <1>3, <1>4, <1>5 DEF Next

\* If the items there may be have a record each, AerospikeStore implements
\* ItemStore: every put, delete and get of a batch takes effect at once,
\* creation times survive, and nothing without a ttl expires, whatever other
\* callers do, errors and expiry included.
THEOREM StoreImplementsMap == OwnPaths => (Spec => ImplementsItemStore)
<1> SUFFICES ASSUME OwnPaths PROVE Spec => ImplementsItemStore
  OBVIOUS
<1>1. Init => ItemsAtTheirPaths(db)
  BY DEF Init, ItemsAtTheirPaths
<1>2. TypeOK /\ ItemsAtTheirPaths(db) /\ [Next]_vars => ItemsAtTheirPaths(db)'
  BY ItemsStay DEF ItemsAtTheirPaths
<1>3. Init => Abstract!Init
  <2> SUFFICES ASSUME Init PROVE Abstract!Init
    OBVIOUS
  <2>1. AllItems = [slot \in Slot |-> Absent]
    BY SlotPath DEF AllItems, Init, Shown
  <2>2. AllCalls = [p \in Proc |-> Abstract!NoCall]
    <3>1. ShownCall(NoCall) = Abstract!NoCall
      BY DEF ShownCall, NoCall, Abstract!NoCall
    <3> QED BY <3>1, CallsShown DEF Init
  <2> QED BY <2>1, <2>2 DEF Abstract!Init
<1>4. TypeOK /\ ItemsAtTheirPaths(db) /\ [Next]_vars => [Abstract!Next]_(Abstract!vars)
  BY NextMaps DEF Sound
<1> QED
  BY <1>1, <1>2, <1>3, <1>4, TypeCorrect, PTL DEF Spec, ImplementsItemStore, Abstract!Spec
-----------------------------------------------------------------------------
(* What a search answers, for any number of callers that change the set    *)
(* while its query and its reads are under way.                            *)

Inside(op, items) == \A i \in DOMAIN items : HasPrefix(op.prefix, items[i].ns)

Once(items) == \A i, j \in DOMAIN items : PathOf(items[i]) = PathOf(items[j]) => i = j

Proper(op, items) == Inside(op, items) /\ Once(items)

\* All of h is on the page but what the offset skips, or the page is full.
Complete(op, page, h) ==
  \/ op.limit # NoLimit /\ Len(page) >= op.limit
  \/ \E s : /\ IsFiniteSet(s) /\ Cardinality(s) <= op.offset
            /\ h \ Slots(Range(page)) \subseteq s

\* The loop that reads again what the query found: what is read and what is
\* still to be read are different items, and all of h is among them.
Collecting(op, c, h) ==
  /\ \A item \in c.found : HasPrefix(op.prefix, item.ns)
  /\ \A i, j \in c.found : PathOf(i) = PathOf(j) => i = j
  /\ Proper(op, c.out)
  /\ \A i \in DOMAIN c.out, item \in c.found : PathOf(c.out[i]) # PathOf(item)
  /\ h \subseteq Slots(c.found) \cup Slots(Range(c.out))

\* The invariant, for a call c whose search has had to find h.
SearchOK(c, h) ==
  LET n  == Len(c.results)
      op == c.batch[n + 1]
  IN /\ \A i \in DOMAIN c.results : c.batch[i].op = "search" => Proper(c.batch[i], c.results[i])
     /\ c.pc \in {"next", "scan"} => c.out = <<>>
     /\ c.pc \in {"next", "done"} /\ n # 0 /\ c.batch[n].op = "search" =>
          Complete(c.batch[n], c.results[n], h)
     /\ c.pc = "scan" /\ op.op = "search" =>
          /\ \A item \in c.found : HasPrefix(op.prefix, item.ns)
          /\ h \subseteq Slots(c.found)
     /\ c.pc = "refetch" => Collecting(op, c, h)

-----------------------------------------------------------------------------
(* Pages.                                                                  *)

\* Where a page is in what was collected, and what is not on it.
LEMMA PageLayout ==
  ASSUME NEW op \in SearchOp, NEW S, NEW items \in Seq(S),
         NEW page, page = Page(op, items), NEW o, o = op.offset
  PROVE  /\ o \in Nat
         /\ \A i \in DOMAIN page : o + i \in DOMAIN items /\ page[i] = items[o + i]
         /\ \/ op.limit # NoLimit /\ Len(page) >= op.limit
            \/ \A j \in DOMAIN items : j > o => j - o \in DOMAIN page
<1>1. o \in Nat /\ op.limit \in Limit
  BY DEF SearchOp
<1>2. PICK rest : rest = FromOffset(items, o)
  OBVIOUS
<1>3. rest \in Seq(S) /\ Shifted(rest, items, o)
  BY <1>1, <1>2, OffsetLayout
<1>4. CASE op.limit = NoLimit
  <2>1. page = rest
    BY <1>2, <1>4 DEF Page
  <2> QED BY <1>1, <1>3, <2>1 DEF Shifted
<1>5. CASE op.limit # NoLimit
  <2>1. PICK l \in Nat : l = op.limit
    BY <1>1, <1>5 DEF Limit
  <2>2. page = UpTo(rest, l)
    BY <1>2, <1>5, <2>1 DEF Page
  <2>3. /\ \A i \in DOMAIN page : i \in DOMAIN rest /\ page[i] = rest[i]
        /\ DOMAIN page = DOMAIN rest \/ Len(page) >= l
    BY <1>3, <2>2, UpToLayout
  <2> QED BY <1>1, <1>3, <1>5, <2>1, <2>3 DEF Shifted
<1> QED BY <1>4, <1>5

LEMMA PageProper ==
  ASSUME NEW op \in SearchOp, NEW items \in Seq(Item), Proper(op, items),
         NEW page, page = Page(op, items)
  PROVE  Proper(op, page)
<1>1. PICK o \in Nat : \A i \in DOMAIN page : o + i \in DOMAIN items /\ page[i] = items[o + i]
  BY PageLayout
<1>2. Inside(op, page)
  BY <1>1 DEF Proper, Inside
<1>3. ASSUME NEW i \in DOMAIN page, NEW j \in DOMAIN page, PathOf(page[i]) = PathOf(page[j])
      PROVE  i = j
  <2>1. o + i = o + j
    BY <1>1, <1>3 DEF Proper, Once
  <2>2. page \in Seq(Item)
    BY PageIsItems
  <2>3. i \in Nat /\ j \in Nat
    BY <2>2
  <2> QED BY <2>1, <2>3
<1> QED BY <1>2, <1>3 DEF Proper, Once

LEMMA PageComplete ==
  ASSUME NEW op \in SearchOp, NEW items \in Seq(Item), NEW h, h \subseteq Slots(Range(items)),
         NEW page, page = Page(op, items)
  PROVE  Complete(op, page, h)
<1>1. PICK o \in Nat :
        /\ o = op.offset
        /\ \A i \in DOMAIN page : o + i \in DOMAIN items /\ page[i] = items[o + i]
        /\ \/ op.limit # NoLimit /\ Len(page) >= op.limit
           \/ \A j \in DOMAIN items : j > o => j - o \in DOMAIN page
  BY PageLayout
<1>2. CASE op.limit # NoLimit /\ Len(page) >= op.limit
  BY <1>2 DEF Complete
<1>3. CASE \A j \in DOMAIN items : j > o => j - o \in DOMAIN page
  <2> DEFINE skipped == {j \in DOMAIN items : j <= o}
             f == [j \in skipped |-> <<items[j].ns, items[j].key>>]
             s == {f[j] : j \in skipped}
  <2>1. IsFiniteSet(skipped) /\ Cardinality(skipped) <= o
    <3>1. skipped \subseteq 1 .. o
      OBVIOUS
    <3>2. IsFiniteSet(1 .. o) /\ Cardinality(1 .. o) = o
      <4>1. o = 0 => o - 1 + 1 = 0
        OBVIOUS
      <4> QED BY <4>1, FS_Interval
    <3> HIDE DEF skipped
    <3>3. IsFiniteSet(skipped) /\ Cardinality(skipped) <= Cardinality(1 .. o)
      BY <3>1, <3>2, FS_Subset
    <3> QED BY <3>2, <3>3
  <2>2. IsFiniteSet(s) /\ Cardinality(s) <= o
    <3>1. f \in Surjection(skipped, s)
      BY DEF Surjection
    <3>2. Cardinality(skipped) \in Nat
      BY <2>1, FS_CardinalityType
    <3> HIDE DEF skipped, f, s
    <3>3. IsFiniteSet(s) /\ Cardinality(s) <= Cardinality(skipped)
      BY <2>1, <3>1, FS_Surjection
    <3>4. Cardinality(s) \in Nat
      BY <3>3, FS_CardinalityType
    <3> QED BY <2>1, <3>2, <3>3, <3>4
  <2>3. ASSUME NEW x \in h, x \notin Slots(Range(page)) PROVE x \in s
    <3>1. PICK j \in DOMAIN items : x = <<items[j].ns, items[j].key>>
      BY DEF Slots, Range
    <3>2. CASE j <= o
      BY <3>1, <3>2
    <3>3. CASE j > o
      <4>1. j \in Nat /\ j - o \in DOMAIN page /\ o + (j - o) = j
        BY <1>3, <3>3
      <4>2. page[j - o] = items[j]
        BY <1>1, <4>1
      <4>3. x \in Slots(Range(page))
        BY <3>1, <4>1, <4>2 DEF Slots, Range
      <4> QED BY <2>3, <4>3
    <3>4. j \in Nat
      OBVIOUS
    <3> QED BY <3>2, <3>3, <3>4
  <2> HIDE DEF s
  <2> QED BY <1>1, <2>2, <2>3 DEF Complete
<1> QED BY <1>1, <1>2, <1>3

-----------------------------------------------------------------------------
(* What the auxiliary variables have seen.                                 *)

LEMMA Watched ==
  ASSUME Observe, NEW q \in Proc
  PROVE  /\ Querying(q) => held'[q] = held[q] \cap Slots(Matching(db', CurrentOp(q)))
         /\ ~Querying(q) =>
              IF call'[q].pc \in {"scan", "refetch"}
                THEN held'[q] = Slots(Matching(db, CurrentOp(q)))
                ELSE held'[q] \subseteq held[q]
BY DEF Observe, Querying

\* A search's query selects by prefix.
LEMMA MatchFits ==
  ASSUME TypeOK, NEW op \in SearchOp, NEW item \in Matching(db, op)
  PROVE  HasPrefix(op.prefix, item.ns)
<1>1. PICK path \in Path : db[path] # Absent /\ Selects(op, db[path]) /\ item = Bins(db[path])
  BY DEF Matching
<1>2. item.ns = db[path].ns /\ db[path].ns \in Seq(Str)
  BY <1>1, NamespacesAssumption DEF TypeOK, RecordsOK, Record, Bins
<1>3. op.op = "search" /\ op.prefix \in Seq(Str) /\ <<>> \in Seq(Str)
  BY DEF SearchOp, Pattern
<1>4. QuerySelects(op.prefix, <<>>, db[path].ns)
  BY <1>1, <1>3 DEF Selects, PrefixOf, SuffixOf
<1> QED BY <1>2, <1>3, <1>4, QueriesExact DEF QueryIsExact

\* What matches is stored.
LEMMA MatchIsStored ==
  ASSUME NEW d, ItemsAtTheirPaths(d), RecordsOK(d), NEW op,
         NEW ns, NEW key, <<ns, key>> \in Slots(Matching(d, op))
  PROVE  d[ItemPath(ns, key)] # Absent
<1>1. PICK item \in Matching(d, op) : <<ns, key>> = <<item.ns, item.key>>
  BY DEF Slots
<1>2. PICK path \in Path : d[path] # Absent /\ item = Bins(d[path])
  BY DEF Matching
<1>3. PathOf(d[path]) = path
  BY <1>2 DEF ItemsAtTheirPaths
<1>4. ItemPath(ns, key) = path
  BY <1>1, <1>2, <1>3 DEF PathOf, Bins
<1> QED BY <1>2, <1>4

-----------------------------------------------------------------------------
(* The invariant is kept.                                                  *)

LEMMA CompleteLess ==
  ASSUME NEW op, NEW page, NEW h, NEW g \in SUBSET h, Complete(op, page, h)
  PROVE  Complete(op, page, g)
BY DEF Complete

LEMMA SameSearch ==
  ASSUME NEW c, NEW h, SearchOK(c, h), NEW g \in SUBSET h
  PROVE  SearchOK(c, g)
<1>1. \A op, page : Complete(op, page, h) => Complete(op, page, g)
  BY CompleteLess
<1> QED BY <1>1 DEF SearchOK, Collecting

LEMMA QuietSearch ==
  ASSUME NEW c, NEW h, SearchOK(c, h), NEW d, NEW g,
         d.batch = c.batch, d.results = c.results, d.pc \in {"operate", "failed"}
  PROVE  SearchOK(d, g)
BY DEF SearchOK

LEMMA FreshSearch ==
  ASSUME NEW d, NEW g, d.results = <<>>, d.out = <<>>, d.pc \in {"idle", "next", "done"}
  PROVE  SearchOK(d, g)
<1>1. DOMAIN d.results = {} /\ Len(d.results) = 0
  OBVIOUS
<1> QED BY <1>1 DEF SearchOK

LEMMA AnsweredSearch ==
  ASSUME NEW c, CallOK(c), NEW h, SearchOK(c, h), NEW answer, NEW d, d = Answered(c, answer),
         NEW g, NEW op, op = c.batch[Len(c.results) + 1],
         op.op = "search" => Proper(op, answer) /\ Complete(op, answer, g)
  PROVE  SearchOK(d, g)
<1>1. PICK n \in Nat : n = Len(c.results) + 1
  BY DEF CallOK
<1>2. /\ d.batch = c.batch
      /\ DOMAIN d.results = DOMAIN c.results \cup {n}
      /\ \A i \in DOMAIN c.results : d.results[i] = c.results[i]
      /\ d.results[n] = answer
  BY <1>1, AnsweredLayout
<1>3. Len(d.results) = n
  BY <1>1, AppendLayout DEF CallOK, Answered
<1>4. d.pc \in {"next", "done"} /\ d.out = <<>>
  BY DEF Answered
<1>5. \A i \in DOMAIN d.results : d.batch[i].op = "search" => Proper(d.batch[i], d.results[i])
  BY <1>1, <1>2 DEF SearchOK
<1>6. d.batch[n].op = "search" => Complete(d.batch[n], d.results[n], g)
  BY <1>1, <1>2
<1> QED BY <1>3, <1>4, <1>5, <1>6 DEF SearchOK

LEMMA QuerySearch ==
  ASSUME TypeOK, NEW p \in Proc, Query(p), SearchOK(call[p], held[p])
  PROVE  SearchOK(call'[p], held'[p])
<1> DEFINE c == call[p]
           op == CurrentOp(p)
<1>0. PICK found : found = Matching(db, op)
  OBVIOUS
<1>1. CallOK(c) /\ c.pc = "next" /\ op \in Op
  BY CurrentOpIsOp DEF TypeOK, Query, Starts, At
<1>2. PICK d : d = call'[p]
  OBVIOUS
<1>3. /\ d.batch = c.batch /\ d.results = c.results /\ d.out = c.out
      /\ d.pc = "scan" /\ d.found = found
  <2>1. call' = [call EXCEPT ![p].pc = "scan", ![p].found = found]
    BY <1>0 DEF Query
  <2> QED BY <1>1, <1>2, <2>1 DEF TypeOK, CallOK
<1>4. PICK g : g = held'[p]
  OBVIOUS
<1>5. g = Slots(found)
  BY <1>0, <1>1, <1>2, <1>3, <1>4, Watched DEF Query, Querying
<1>6. op = c.batch[Len(c.results) + 1]
  BY DEF CurrentOp
<1>7. op.op = "search" => \A item \in found : HasPrefix(op.prefix, item.ns)
  BY <1>0, <1>1, KindOfOp, MatchFits
<1> HIDE DEF op
<1>8. SearchOK(d, g)
  BY <1>1, <1>3, <1>5, <1>6, <1>7 DEF SearchOK
<1> QED BY <1>2, <1>4, <1>8

\* What a search's scan returns is what its query selects, each item once, and
\* all that has been there.
LEMMA ScanFinds ==
  ASSUME TypeOK, NEW p \in Proc, At(p, "scan"), CurrentOp(p) \in SearchOp, Observe, db' = db,
         SearchOK(call[p], held[p]),
         NEW found \in Scanned(call[p].found, Matching(db, CurrentOp(p)))
  PROVE  /\ \A item \in found : HasPrefix(CurrentOp(p).prefix, item.ns)
         /\ \A i, j \in found : PathOf(i) = PathOf(j) => i = j
         /\ held'[p] \subseteq Slots(found)
<1> DEFINE c == call[p]
           end == Matching(db, CurrentOp(p))
<1>1. PICK op : op = CurrentOp(p) /\ op = c.batch[Len(c.results) + 1] /\ op.op = "search"
  BY DEF CurrentOp, SearchOp
<1>2. /\ \A item \in c.found : HasPrefix(op.prefix, item.ns)
      /\ held[p] \subseteq Slots(c.found)
  BY <1>1 DEF SearchOK, At
<1>3. \A item \in end : HasPrefix(op.prefix, item.ns)
  BY <1>1, MatchFits
<1>4. held'[p] = held[p] \cap Slots(end)
  BY Watched DEF Querying, At
<1> HIDE DEF c, end
<1>5. /\ found \subseteq c.found \cup end
      /\ Slots(c.found) \cap Slots(end) \subseteq Slots(found)
      /\ \A i, j \in found : PathOf(i) = PathOf(j) => i = j
  BY DEF Scanned, c, end
<1> QED BY <1>1, <1>2, <1>3, <1>4, <1>5

\* A set in some order.
LEMMA OrderIsSet ==
  ASSUME NEW S, IsFiniteSet(S), NEW s \in SetToSeqs(S)
  PROVE  Range(s) = S
<1>1. s \in Injection(1 .. Cardinality(S), S) /\ Cardinality(S) \in Nat
  <2>1. /\ s \in [1 .. Cardinality(S) -> S]
        /\ \A i, j \in 1 .. Cardinality(S) : s[i] = s[j] => i = j
    BY DEF SetToSeqs
  <2> QED BY <2>1, FS_CardinalityType DEF Injection, IsInjective
<1>2. PICK T : T = Range(s)
  OBVIOUS
<1>3. T \subseteq S /\ s \in Bijection(1 .. Cardinality(S), T)
  BY <1>1, <1>2 DEF Range, Bijection, Surjection, Injection
<1>4. Cardinality(T) = Cardinality(S)
  BY <1>1, <1>3, FS_CountingElements DEF ExistsBijection
<1>5. S = T
  BY <1>3, <1>4, FS_Subset
<1> QED BY <1>2, <1>5

\* A request of p's batch: c goes on as d, or fails.
LEMMA RepliedSearch ==
  ASSUME TypeOK, NEW p \in Proc, SearchOK(call[p], held[p]), NEW d, Reply(p, d),
         SearchOK(d, held'[p])
  PROVE  SearchOK(call'[p], held'[p])
<1>1. CASE call' = [call EXCEPT ![p] = d]
  <2>1. call'[p] = d
    BY <1>1 DEF TypeOK
  <2> QED BY <2>1
<1>2. CASE call' = [call EXCEPT ![p].pc = "failed"]
  <2>1. PICK e : e = call'[p]
    OBVIOUS
  <2>2. e.batch = call[p].batch /\ e.results = call[p].results /\ e.pc = "failed"
    BY <1>2, <2>1 DEF TypeOK, CallOK
  <2>3. PICK g : g = held'[p]
    OBVIOUS
  <2>4. SearchOK(e, g)
    BY <2>2, QuietSearch
  <2> QED BY <2>1, <2>3, <2>4
<1> QED BY <1>1, <1>2 DEF Reply

LEMMA ScanSearch ==
  ASSUME TypeOK, NEW p \in Proc, Scan(p), SearchOK(call[p], held[p])
  PROVE  SearchOK(call'[p], held'[p])
<1>0. PICK c, op, g, end : c = call[p] /\ op = CurrentOp(p) /\ g = held'[p] /\ end = Matching(db, op)
  OBVIOUS
<1>1. CallOK(c) /\ c.pc = "scan" /\ Len(c.results) < Len(c.batch)
  BY <1>0 DEF TypeOK, CallOK, Scan, At
<1>2. op \in SearchOp \cup ListOp /\ op = c.batch[Len(c.results) + 1]
  BY <1>0, <1>1 DEF CallOK, CurrentOp
<1>3. PICK found \in Scanned(c.found, end) :
        IF op.op = "list_namespaces"
          THEN Reply(p, Answered(c, NamespacePage({item.ns : item \in found},
                                                  op.depth, op.offset, op.limit)))
        ELSE IF Refresh(op) /\ found # {}
          THEN Reply(p, [c EXCEPT !.pc = "refetch", !.found = found])
          ELSE \E out \in SetToSeqs(found) : Reply(p, Answered(c, Page(op, out)))
  BY <1>0 DEF Scan
<1>4. CASE op.op = "list_namespaces"
  <2>1. PICK d, answer : d = Answered(c, answer) /\ Reply(p, d)
    BY <1>3, <1>4
  <2>2. SearchOK(d, g)
    BY <1>0, <1>1, <1>2, <1>4, <2>1, AnsweredSearch
  <2> QED BY <1>0, <2>1, <2>2, RepliedSearch
<1>5. ASSUME op.op # "list_namespaces"
      PROVE  /\ op \in SearchOp
             /\ \A item \in found : HasPrefix(op.prefix, item.ns)
             /\ \A i, j \in found : PathOf(i) = PathOf(j) => i = j
             /\ g \subseteq Slots(found)
  <2>1. op \in SearchOp
    BY <1>2, <1>5, KindOfOp DEF Op
  <2> QED BY <1>0, <1>1, <1>3, <2>1, ScanFinds DEF Scan, At
<1>6. CASE op.op # "list_namespaces" /\ Refresh(op) /\ found # {}
  <2>1. PICK d : d = [c EXCEPT !.pc = "refetch", !.found = found]
    OBVIOUS
  <2>2. /\ d.batch = c.batch /\ d.results = c.results /\ d.out = <<>>
        /\ d.pc = "refetch" /\ d.found = found
    BY <1>0, <1>1, <2>1 DEF CallOK, SearchOK
  <2>3. Collecting(op, d, g)
    BY <1>5, <1>6, <2>2 DEF Collecting, Proper, Inside, Once
  <2>4. SearchOK(d, g)
    BY <1>0, <1>2, <2>2, <2>3 DEF SearchOK
  <2>5. Reply(p, d)
    BY <1>3, <1>6, <2>1
  <2> QED BY <1>0, <2>4, <2>5, RepliedSearch
<1>7. CASE op.op # "list_namespaces" /\ ~(Refresh(op) /\ found # {})
  <2>0. PICK out \in SetToSeqs(found) : Reply(p, Answered(c, Page(op, out)))
    BY <1>3, <1>7
  <2>1. PICK page, d : page = Page(op, out) /\ d = Answered(c, page) /\ Reply(p, d)
    BY <2>0
  <2>2. found \subseteq Item /\ IsFiniteSet(found)
    BY <1>0, <1>1, MatchingIsItems, ScannedIsItems DEF TypeOK, RecordsOK, CallOK
  <2>3. /\ out \in Seq(found) /\ Range(out) = found
        /\ \A i, j \in DOMAIN out : out[i] = out[j] => i = j
    BY <2>1, <2>2, OrderIsSeq, OrderIsSet
  <2>4. out \in Seq(Item) /\ \A i \in DOMAIN out : out[i] \in found
    BY <2>2, <2>3
  <2>5. Proper(op, out)
    BY <1>5, <1>7, <2>3, <2>4 DEF Proper, Inside, Once
  <2>6. Proper(op, page) /\ Complete(op, page, g)
    BY <1>5, <1>7, <2>1, <2>3, <2>4, <2>5, PageProper, PageComplete
  <2>7. SearchOK(d, g)
    BY <1>0, <1>1, <1>2, <2>1, <2>6, AnsweredSearch
  <2> QED BY <1>0, <2>1, <2>7, RepliedSearch
<1> QED BY <1>4, <1>6, <1>7

\* What is collected once an item has been read again.
Extended(c, item) ==
  IF Stored(PathOf(item)) THEN Append(c.out, Bins(db[PathOf(item)])) ELSE c.out

\* The item read again joins what is collected, or is gone and held no more.
LEMMA RefetchCollects ==
  ASSUME OwnPaths, TypeOK, TypeOK', ItemsAtTheirPaths(db), ItemsAtTheirPaths(db'),
         NEW p \in Proc, At(p, "refetch"), Observe,
         Collecting(CurrentOp(p), call[p], held[p]), NEW item \in call[p].found,
         db' = [db EXCEPT ![PathOf(item)] = Renewed(db[PathOf(item)])]
  PROVE  LET out  == Extended(call[p], item)
             rest == call[p].found \ {item}
         IN /\ out \in Seq(Item) /\ Proper(CurrentOp(p), out)
            /\ \A i \in DOMAIN out, other \in rest : PathOf(out[i]) # PathOf(other)
            /\ held'[p] \subseteq Slots(rest) \cup Slots(Range(out))
<1> SUFFICES ASSUME NEW c, c = call[p], NEW op, op = CurrentOp(p),
                    NEW path, path = PathOf(item),
                    NEW out, out = Extended(c, item), NEW rest, rest = c.found \ {item}
             PROVE  /\ out \in Seq(Item) /\ Proper(op, out)
                    /\ \A i \in DOMAIN out, other \in rest : PathOf(out[i]) # PathOf(other)
                    /\ held'[p] \subseteq Slots(rest) \cup Slots(Range(out))
  OBVIOUS
<1>0. /\ item \in c.found /\ Collecting(op, c, held[p])
      /\ db' = [db EXCEPT ![path] = Renewed(db[path])]
      /\ out = IF Stored(path) THEN Append(c.out, Bins(db[path])) ELSE c.out
  BY DEF Extended
<1>1. /\ item \in Item /\ c.found \subseteq Item /\ c.out \in Seq(Item)
      /\ path = ItemPath(item.ns, item.key) /\ path \in Path
  BY <1>0, PathOfItem DEF TypeOK, CallOK, Item, PathOf
<1>2. held'[p] = held[p] \cap Slots(Matching(db', op))
  BY Watched DEF Querying, At
<1>3. ASSUME NEW other \in rest PROVE PathOf(other) # path
  BY <1>0, <1>3 DEF Collecting
<1>4. CASE Stored(path)
  <2>1. PICK got : got = Bins(db[path])
    OBVIOUS
  <2>2. got \in Item /\ got.ns = item.ns /\ got.key = item.key
    <3>1. item.ns \in Namespaces /\ item.key \in Keys
      BY <1>1 DEF Item
    <3>2. db[path] \in Record /\ db[path].ns = item.ns /\ db[path].key = item.key
      BY <1>1, <1>4, <3>1, OwnItem DEF TypeOK
    <3> QED BY <2>1, <3>2, BinsIsItem DEF Bins
  <2>3. PathOf(got) = path /\ HasPrefix(op.prefix, got.ns)
    BY <1>0, <2>2 DEF PathOf, Collecting
  <2>4. PICK n \in Nat : n = Len(c.out) /\ DOMAIN c.out = 1 .. n
    BY <1>1
  <2>5. /\ out \in Seq(Item) /\ DOMAIN out = 1 .. n + 1
        /\ out[n + 1] = got /\ \A i \in 1 .. n : out[i] = c.out[i]
    BY <1>0, <1>1, <1>4, <2>1, <2>2, <2>4
  <2>6. Range(out) = Range(c.out) \cup {got}
    <3>1. 1 .. n + 1 = 1 .. n \cup {n + 1}
      OBVIOUS
    <3>2. PICK was : was = c.out
      OBVIOUS
    <3>3. /\ DOMAIN was = 1 .. n /\ DOMAIN out = 1 .. n \cup {n + 1}
          /\ out[n + 1] = got /\ \A i \in 1 .. n : out[i] = was[i]
      BY ONLY <2>4, <2>5, <3>1, <3>2, Zenon
    <3>4. Range(out) = Range(was) \cup {got}
      BY ONLY <3>3 DEF Range
    <3> QED BY ONLY <3>2, <3>4, Zenon
  <2>7. Inside(op, out)
    <3>1. \A i \in 1 .. n : HasPrefix(op.prefix, c.out[i].ns)
      BY <1>0, <2>4, Zenon DEF Collecting, Proper, Inside
    <3>2. ASSUME NEW i \in 1 .. n + 1 PROVE HasPrefix(op.prefix, out[i].ns)
      <4>1. i \in 1 .. n \/ i = n + 1
        OBVIOUS
      <4> QED BY <2>3, <2>5, <3>1, <4>1, Zenon
    <3> QED BY <2>5, <3>2, Zenon DEF Inside
  <2>8. ASSUME NEW i \in 1 .. n PROVE PathOf(out[i]) # path
    BY <1>0, <2>4, <2>5 DEF Collecting
  <2>9. Once(out)
    <3> SUFFICES ASSUME NEW i \in 1 .. n + 1, NEW j \in 1 .. n + 1, PathOf(out[i]) = PathOf(out[j])
                 PROVE  i = j
      BY <2>5 DEF Once
    <3>1. CASE i \in 1 .. n /\ j \in 1 .. n
      BY <1>0, <2>4, <2>5, <3>1 DEF Collecting, Proper, Once
    <3>2. CASE i = n + 1 /\ j \in 1 .. n
      BY <2>3, <2>5, <2>8, <3>2
    <3>3. CASE i \in 1 .. n /\ j = n + 1
      BY <2>3, <2>5, <2>8, <3>3
    <3>4. i \in 1 .. n \/ i = n + 1
      OBVIOUS
    <3>5. j \in 1 .. n \/ j = n + 1
      OBVIOUS
    <3> QED BY <3>1, <3>2, <3>3, <3>4, <3>5
  <2>10. ASSUME NEW i \in DOMAIN out, NEW other \in rest PROVE PathOf(out[i]) # PathOf(other)
    <3>1. CASE i \in 1 .. n
      BY <1>0, <2>4, <2>5, <3>1 DEF Collecting
    <3>2. CASE i = n + 1
      BY <1>3, <2>3, <2>5, <3>2
    <3> QED BY <2>5, <3>1, <3>2
  <2>11. held[p] \subseteq Slots(rest) \cup Slots(Range(out))
    <3> SUFFICES ASSUME NEW x \in held[p] PROVE x \in Slots(rest) \cup Slots(Range(out))
      OBVIOUS
    <3>1. x \in Slots(c.found) \cup Slots(Range(c.out))
      BY <1>0 DEF Collecting
    <3>2. PICK y \in c.found \cup Range(c.out) : x = <<y.ns, y.key>>
      BY <3>1 DEF Slots
    <3>3. CASE y = item
      <4>1. x = <<got.ns, got.key>>
        BY <2>2, <3>2, <3>3
      <4> QED BY <2>6, <4>1 DEF Slots
    <3>4. CASE y # item
      BY <2>6, <3>2, <3>4 DEF Slots
    <3> QED BY <3>3, <3>4
  <2> QED BY <1>2, <2>5, <2>7, <2>9, <2>10, <2>11 DEF Proper
<1>5. CASE ~Stored(path)
  <2>1. out = c.out
    BY <1>0, <1>5
  <2>2. db'[path] = Absent
    BY <1>0, <1>1, <1>5 DEF TypeOK, RecordsOK, Stored, Renewed
  <2>3. <<item.ns, item.key>> \notin held'[p]
    <3>1. PICK d : d = db'
      OBVIOUS
    <3>2. ItemsAtTheirPaths(d) /\ RecordsOK(d)
      BY <3>1 DEF TypeOK
    <3>3. d[ItemPath(item.ns, item.key)] = Absent /\ held'[p] \subseteq Slots(Matching(d, op))
      BY <1>1, <1>2, <2>2, <3>1
    <3> QED BY <3>2, <3>3, MatchIsStored
  <2>4. held'[p] \subseteq Slots(rest) \cup Slots(Range(out))
    <3> SUFFICES ASSUME NEW x \in held'[p] PROVE x \in Slots(rest) \cup Slots(Range(out))
      OBVIOUS
    <3>1. x \in Slots(c.found) \cup Slots(Range(out))
      BY <1>0, <1>2, <2>1 DEF Collecting
    <3>2. CASE x \in Slots(c.found)
      <4>1. PICK y \in c.found : x = <<y.ns, y.key>>
        BY <3>2 DEF Slots
      <4>2. y \in rest
        BY <2>3, <4>1
      <4> QED BY <4>1, <4>2 DEF Slots
    <3> QED BY <3>1, <3>2
  <2>5. Proper(op, c.out) /\ \A i \in DOMAIN c.out, other \in rest : PathOf(c.out[i]) # PathOf(other)
    BY <1>0 DEF Collecting
  <2> QED BY <1>1, <2>1, <2>4, <2>5
<1> QED BY <1>4, <1>5

LEMMA RefetchSearch ==
  ASSUME OwnPaths, TypeOK, TypeOK', ItemsAtTheirPaths(db), ItemsAtTheirPaths(db'),
         NEW p \in Proc, Refetch(p), SearchOK(call[p], held[p])
  PROVE  SearchOK(call'[p], held'[p])
<1>0. PICK c, op, g : c = call[p] /\ op = CurrentOp(p) /\ g = held'[p]
  OBVIOUS
<1>1. CallOK(c) /\ c.pc = "refetch" /\ At(p, "refetch") /\ Observe
  BY <1>0 DEF TypeOK, Refetch, At
<1>2. op \in SearchOp /\ op = c.batch[Len(c.results) + 1]
  BY <1>0, <1>1 DEF CallOK, CurrentOp
<1>3. Collecting(op, c, held[p])
  BY <1>0, <1>1, <1>2 DEF SearchOK
<1>4. PICK item \in c.found :
        LET path == PathOf(item)
            out == IF Stored(path) THEN Append(c.out, Bins(db[path])) ELSE c.out
            rest == c.found \ {item}
        IN /\ db' = [db EXCEPT ![path] = Renewed(db[path])]
           /\ Reply(p, IF rest = {} THEN Answered(c, Page(op, out))
                       ELSE [c EXCEPT !.found = rest, !.out = out])
  BY <1>0 DEF Refetch
<1>5. PICK path, out, rest :
        path = PathOf(item) /\ rest = c.found \ {item} /\ out = Extended(c, item)
  OBVIOUS
<1>6. /\ db' = [db EXCEPT ![path] = Renewed(db[path])]
      /\ Reply(p, IF rest = {} THEN Answered(c, Page(op, out))
                  ELSE [c EXCEPT !.found = rest, !.out = out])
  BY <1>4, <1>5 DEF Extended
<1>7. /\ out \in Seq(Item) /\ Proper(op, out)
      /\ \A i \in DOMAIN out, other \in rest : PathOf(out[i]) # PathOf(other)
      /\ g \subseteq Slots(rest) \cup Slots(Range(out))
  <2>1. /\ Collecting(CurrentOp(p), call[p], held[p]) /\ item \in call[p].found
        /\ db' = [db EXCEPT ![PathOf(item)] = Renewed(db[PathOf(item)])]
    BY <1>0, <1>3, <1>5, <1>6
  <2>2. LET o == Extended(call[p], item)
            r == call[p].found \ {item}
        IN /\ o \in Seq(Item) /\ Proper(CurrentOp(p), o)
           /\ \A i \in DOMAIN o, other \in r : PathOf(o[i]) # PathOf(other)
           /\ held'[p] \subseteq Slots(r) \cup Slots(Range(o))
    BY <1>1, <2>1, RefetchCollects
  <2>3. out = Extended(call[p], item) /\ rest = call[p].found \ {item}
    BY <1>0, <1>5
  <2> QED BY <1>0, <2>2, <2>3
<1>8. CASE rest = {}
  <2>1. PICK page, d : page = Page(op, out) /\ d = Answered(c, page)
    OBVIOUS
  <2>2. g \subseteq Slots(Range(out))
    BY <1>7, <1>8 DEF Slots
  <2>3. Proper(op, page) /\ Complete(op, page, g)
    BY <1>2, <1>7, <2>1, <2>2, PageProper, PageComplete
  <2>4. SearchOK(d, g)
    BY <1>0, <1>1, <1>2, <2>1, <2>3, AnsweredSearch
  <2> QED BY <1>0, <1>6, <1>8, <2>1, <2>4, RepliedSearch
<1>9. CASE rest # {}
  <2>1. PICK d : d = [c EXCEPT !.found = rest, !.out = out]
    OBVIOUS
  <2>2. /\ d.batch = c.batch /\ d.results = c.results /\ d.out = out
        /\ d.pc = "refetch" /\ d.found = rest
    BY <1>1, <2>1 DEF CallOK
  <2>3. Collecting(op, d, g)
    BY <1>3, <1>5, <1>7, <2>2 DEF Collecting
  <2>4. SearchOK(d, g)
    BY <1>0, <1>2, <2>2, <2>3 DEF SearchOK
  <2> QED BY <1>0, <1>6, <1>9, <2>1, <2>4, RepliedSearch
<1> QED BY <1>8, <1>9

\* A put, a delete or a get answers an operation that is no search.
LEMMA OtherSearch ==
  ASSUME TypeOK, NEW p \in Proc, SearchOK(call[p], held[p]),
         OperatePut(p) \/ RemoveItem(p) \/ GetItem(p)
  PROVE  SearchOK(call'[p], held'[p])
<1>1. PICK op, g : op = CurrentOp(p) /\ g = held'[p]
  OBVIOUS
<1>2. /\ CallOK(call[p]) /\ op = call[p].batch[Len(call[p].results) + 1]
      /\ op.op # "search"
  BY <1>1 DEF TypeOK, CallOK, OperatePut, RemoveItem, GetItem, Starts, At, CurrentOp, PutOp
<1>3. PICK answer : Reply(p, Answered(call[p], answer))
  BY DEF OperatePut, RemoveItem, GetItem
<1>4. PICK d : d = Answered(call[p], answer)
  OBVIOUS
<1>5. SearchOK(d, g)
  BY <1>2, <1>4, AnsweredSearch
<1> QED BY <1>1, <1>3, <1>4, <1>5, RepliedSearch

LEMMA RestingSearch ==
  ASSUME TypeOK, NEW p \in Proc, SearchOK(call[p], held[p]),
         \/ Reject(p) \/ StampPut(p) \/ Fail(p) \/ Return(p)
         \/ \E batch \in Batches[p] : Begin(p, batch)
  PROVE  SearchOK(call'[p], held'[p])
<1>1. PICK d, g : d = call'[p] /\ g = held'[p]
  OBVIOUS
<1>2. CASE Reject(p) \/ StampPut(p) \/ Fail(p)
  <2>1. d.batch = call[p].batch /\ d.results = call[p].results /\ d.pc \in {"operate", "failed"}
    BY <1>1, <1>2 DEF TypeOK, CallOK, Reject, StampPut, Fail
  <2>2. SearchOK(d, g)
    BY <2>1, QuietSearch
  <2> QED BY <1>1, <2>2
<1>3. CASE Return(p) \/ \E batch \in Batches[p] : Begin(p, batch)
  <2>1. d.results = <<>> /\ d.out = <<>> /\ d.pc \in {"idle", "next", "done"}
    <3>1. CASE Return(p)
      BY <1>1, <3>1 DEF TypeOK, Return, NoCall
    <3>2. ASSUME NEW batch \in Batches[p], Begin(p, batch)
          PROVE  d.results = <<>> /\ d.out = <<>> /\ d.pc \in {"idle", "next", "done"}
      BY <1>1, <3>2 DEF TypeOK, Begin, NoCall
    <3> QED BY <1>3, <3>1, <3>2
  <2>2. SearchOK(d, g)
    BY <2>1, FreshSearch
  <2> QED BY <1>1, <2>2
<1> QED BY <1>2, <1>3

\* What others do, and time, takes from what is held at most.
LEMMA IdleSearch ==
  ASSUME NEW q \in Proc, SearchOK(call[q], held[q]), call'[q] = call[q],
         Observe \/ held' = held
  PROVE  SearchOK(call'[q], held'[q])
<1>1. PICK c, h, g : c = call[q] /\ h = held[q] /\ g = held'[q]
  OBVIOUS
<1>2. g \subseteq h
  <2>1. CASE held' = held
    BY <1>1, <2>1
  <2>2. CASE Observe
    BY <1>1, <2>2, Watched DEF Querying
  <2> QED BY <2>1, <2>2
<1>3. SearchOK(c, g)
  BY <1>1, <1>2, SameSearch
<1> QED BY <1>1, <1>3

\* A step of a batch is no step of another.
LEMMA OneCallMoves ==
  ASSUME NEW p \in Proc, Step(p) \/ \E batch \in Batches[p] : Begin(p, batch)
  PROVE  Observe /\ \E c : call' = [call EXCEPT ![p] = c]
<1>1. CASE Step(p)
  BY <1>1 DEF Step, Reject, StampPut, OperatePut, RemoveItem, GetItem, Query, Scan,
              Refetch, Fail, Return, Reply
<1>2. CASE \E batch \in Batches[p] : Begin(p, batch)
  BY <1>2 DEF Begin
<1> QED BY <1>1, <1>2

SearchInv == \A p \in Proc : SearchOK(call[p], held[p])

LEMMA SearchInvStep ==
  ASSUME OwnPaths, TypeOK, TypeOK', ItemsAtTheirPaths(db), ItemsAtTheirPaths(db'),
         SearchInv, [Next]_vars
  PROVE  SearchInv'
<1> SUFFICES ASSUME NEW q \in Proc PROVE SearchOK(call'[q], held'[q])
  BY DEF SearchInv
<1>0. SearchOK(call[q], held[q])
  BY DEF SearchInv
<1>1. CASE UNCHANGED vars \/ Tick
  <2>1. call' = call /\ (Observe \/ held' = held)
    BY <1>1 DEF vars, Tick
  <2> QED BY <1>0, <2>1, IdleSearch
<1>2. ASSUME NEW p \in Proc, Step(p) \/ \E batch \in Batches[p] : Begin(p, batch), p # q
      PROVE  SearchOK(call'[q], held'[q])
  <2>1. Observe /\ \E c : call' = [call EXCEPT ![p] = c]
    BY <1>2, OneCallMoves
  <2>2. call'[q] = call[q]
    BY <1>2, <2>1 DEF TypeOK
  <2> QED BY <1>0, <2>1, <2>2, IdleSearch
<1>3. CASE Step(q) \/ \E batch \in Batches[q] : Begin(q, batch)
  BY <1>0, <1>3, QuerySearch, ScanSearch, RefetchSearch, OtherSearch, RestingSearch DEF Step
<1> QED BY <1>1, <1>2, <1>3 DEF Next

\* SearchInv and what it rests on hold in every reachable state.
LEMMA SearchInvariant == OwnPaths => (Spec => [](TypeOK /\ SearchInv))
<1> SUFFICES ASSUME OwnPaths PROVE Spec => [](TypeOK /\ SearchInv)
  OBVIOUS
<1> DEFINE Inv == ItemsAtTheirPaths(db) /\ SearchInv
<1>1. Init => Inv
  <2> SUFFICES ASSUME Init PROVE Inv
    OBVIOUS
  <2>1. ItemsAtTheirPaths(db)
    BY DEF Init, ItemsAtTheirPaths
  <2>2. ASSUME NEW p \in Proc PROVE SearchOK(call[p], held[p])
    <3>1. call[p].results = <<>> /\ call[p].out = <<>> /\ call[p].pc = "idle"
      BY DEF Init, NoCall
    <3> QED BY <3>1, FreshSearch
  <2> QED BY <2>1, <2>2 DEF SearchInv
<1>2. TypeOK /\ TypeOK' /\ Inv /\ [Next]_vars => Inv'
  BY ItemsStay, SearchInvStep
<1> QED BY <1>1, <1>2, TypeCorrect, PTL DEF Spec

\* If the items there may be have a record each, a search answers only with
\* items of namespaces that begin with its prefix, and with each item once:
\* whatever others put and delete between its query and its reads.
THEOREM SearchesStayInNamespace == OwnPaths => (Spec => []SearchStaysInNamespace)
<1> SUFFICES ASSUME OwnPaths PROVE Spec => []SearchStaysInNamespace
  OBVIOUS
<1>1. TypeOK /\ SearchInv => SearchStaysInNamespace
  <2> SUFFICES ASSUME SearchInv, NEW p \in Proc, NEW a \in AnswersTo(p, "search")
               PROVE  Proper(a.op, a.answer)
    BY DEF SearchStaysInNamespace, Proper, Inside, Once
  <2>1. PICK i \in DOMAIN call[p].results :
          /\ call[p].batch[i].op = "search"
          /\ a.op = call[p].batch[i] /\ a.answer = call[p].results[i]
    BY DEF AnswersTo
  <2> QED BY <2>1 DEF SearchInv, SearchOK
<1> QED BY <1>1, SearchInvariant, PTL

\* And it misses nothing that matched all the time it took, but what its offset
\* skips or its limit has no room for.
THEOREM SearchesAreComplete == OwnPaths => (Spec => []SearchIsComplete)
<1> SUFFICES ASSUME OwnPaths PROVE Spec => []SearchIsComplete
  OBVIOUS
<1>1. TypeOK /\ SearchInv => SearchIsComplete
  <2> SUFFICES ASSUME TypeOK, SearchInv, NEW p \in Proc, NEW a \in LastAnswer(p, "search")
               PROVE  Full(a) \/ Cardinality(held[p] \ Slots(Range(a.answer))) <= a.op.offset
    BY DEF SearchIsComplete
  <2>1. PICK n : /\ n = Len(call[p].results) /\ n # 0 /\ call[p].pc \in {"next", "done"}
                 /\ call[p].batch[n].op = "search"
                 /\ a.op = call[p].batch[n] /\ a.answer = call[p].results[n]
    BY DEF LastAnswer
  <2>2. Complete(a.op, a.answer, held[p])
    BY <2>1 DEF SearchInv, SearchOK
  <2>3. PICK missing : missing = held[p] \ Slots(Range(a.answer))
    OBVIOUS
  <2>4. CASE Full(a)
    BY <2>4
  <2>5. CASE ~Full(a)
    <3>1. PICK s : IsFiniteSet(s) /\ Cardinality(s) <= a.op.offset /\ missing \subseteq s
      BY <2>2, <2>3, <2>5 DEF Complete, Full
    <3>2. Cardinality(missing) <= Cardinality(s) /\ IsFiniteSet(missing)
      BY <3>1, FS_Subset
    <3>3. a.op.offset \in Nat
      <4>1. CallOK(call[p])
        BY DEF TypeOK
      <4>2. a.op \in Op
        BY <2>1, <4>1 DEF CallOK
      <4>3. a.op \in SearchOp
        BY <2>1, <4>2, KindOfOp
      <4> QED BY <4>3 DEF SearchOp
    <3>4. Cardinality(missing) \in Nat /\ Cardinality(s) \in Nat
      BY <3>1, <3>2, FS_CardinalityType
    <3> QED BY <2>3, <3>1, <3>2, <3>3, <3>4
  <2> QED BY <2>4, <2>5
<1> QED BY <1>1, SearchInvariant, PTL
-----------------------------------------------------------------------------
(* What a listing answers.                                                 *)

\* Those of nss that a listing is about, and what it may call them.
Fit(op, nss) ==
  {ns \in nss : HasPrefix(PrefixOf(op), ns) /\ HasSuffix(SuffixOf(op), ns)}

Cut(op, nss) == {Truncated(ns, op.depth) : ns \in nss}

\* A listing's answer, when it has had to find h and may have found s.
Lists(op, answer, h, s) ==
  \E names \in SUBSET Cut(op, Fit(op, s)) :
    /\ Cut(op, {slot[1] : slot \in h}) \subseteq names
    /\ PageOf(answer, names, op.offset, op.limit)

\* The invariant, for a call c whose listing has had to find h and may find s.
ListOK(c, h, s) ==
  LET n  == Len(c.results)
      op == c.batch[n + 1]
  IN /\ c.pc \in {"next", "done"} /\ n # 0 /\ c.batch[n].op = "list_namespaces" =>
          Lists(c.batch[n], c.results[n], h, s)
     /\ c.pc = "scan" /\ op.op = "list_namespaces" =>
          /\ \A item \in c.found : item.ns \in Fit(op, s)
          /\ h \subseteq Slots(c.found)

\* To a listing comes what comes to be in use.
LEMMA NamesSeen ==
  ASSUME Observe, NEW q \in Proc
  PROVE  /\ Listing(q) => seen'[q] = seen[q] \cup InUse(db')
         /\ ~Listing(q) /\ Listing(q)' => seen'[q] = InUse(db)
         /\ call'[q] = call[q] => seen[q] \subseteq seen'[q] \/ call[q].pc \in {"idle", "operate"}
<1>1. seen'[q] = IF Listing(q) THEN seen[q] \cup InUse(db')
                 ELSE IF Listing(q)' THEN InUse(db)
                 ELSE IF call'[q].pc \in {"idle", "operate"} THEN {} ELSE seen[q]
  BY DEF Observe
<1>2. call'[q] = call[q] => (Listing(q)' <=> Listing(q))
  BY DEF Listing, At, CurrentOp
<1> QED BY <1>1, <1>2

\* The patterns of a listing are patterns.
LEMMA LastOfIsPattern ==
  ASSUME NEW conditions \in Seq([match : STRING, path : Pattern]), NEW type
  PROVE  LastOf(type, conditions) \in Seq(Str)
<1>1. PICK n \in Nat : n = Len(conditions) /\ DOMAIN conditions = 1 .. n
  OBVIOUS
<1>2. PICK I \in SUBSET (1 .. n) : I = {i \in 1 .. n : conditions[i].match = type}
  OBVIOUS
<1>3. PICK i : i = IF I # {} THEN Max(I) ELSE 0
  OBVIOUS
<1>4. i = SelectLastInSeq(conditions, LAMBDA m : m.match = type)
  BY <1>1, <1>2, <1>3 DEF SelectLastInSeq
<1>5. LastOf(type, conditions) = IF i = 0 THEN <<>> ELSE conditions[i].path
  BY <1>4 DEF LastOf
<1>6. i = 0 \/ i \in 1 .. n
  <2>1. CASE I = {}
    BY <1>3, <2>1
  <2>2. CASE I # {}
    <3>1. Max(I) \in 1 .. n
      BY <2>2, GreatestPlace
    <3> QED BY <1>3, <2>2, <3>1
  <2> QED BY <2>1, <2>2
<1>7. ASSUME i \in 1 .. n PROVE conditions[i].path \in Seq(Str)
  <2>1. PICK condition : condition = conditions[i]
    OBVIOUS
  <2>2. condition \in [match : STRING, path : Pattern]
    BY <1>1, <1>7, <2>1, ElementOfSeq
  <2>3. condition.path \in Pattern
    BY <2>2
  <2> QED BY <2>1, <2>3 DEF Pattern
<1> QED BY <1>5, <1>6, <1>7

\* A listing's query selects by its patterns, and nothing that it should not.
LEMMA MatchIsListed ==
  ASSUME NEW d, RecordsOK(d), NEW op \in ListOp, NEW item \in Matching(d, op)
  PROVE  item.ns \in Fit(op, InUse(d))
<1>1. PICK path \in Path : d[path] # Absent /\ Selects(op, d[path]) /\ item = Bins(d[path])
  BY DEF Matching
<1>2. item.ns = d[path].ns /\ d[path].ns \in Namespaces /\ d[path].ns \in Seq(Str)
  BY <1>1, NamespacesAssumption DEF RecordsOK, Record, Bins
<1>3. PrefixOf(op) \in Seq(Str) /\ SuffixOf(op) \in Seq(Str)
  BY LastOfIsPattern DEF ListOp, PrefixOf, SuffixOf
<1>4. QuerySelects(PrefixOf(op), SuffixOf(op), d[path].ns)
  BY <1>1 DEF Selects
<1>5. item.ns \in InUse(d)
  BY <1>1, <1>2 DEF InUse
<1> QED BY <1>2, <1>3, <1>4, <1>5, QueriesExact DEF QueryIsExact, Fit

LEMMA SameListing ==
  ASSUME NEW c, NEW h, NEW s, ListOK(c, h, s), NEW g \in SUBSET h, NEW u, s \subseteq u
  PROVE  ListOK(c, g, u)
<1>1. ASSUME NEW op PROVE Fit(op, s) \subseteq Fit(op, u)
  BY DEF Fit
<1>2. ASSUME NEW op, NEW answer, Lists(op, answer, h, s) PROVE Lists(op, answer, g, u)
  <2>1. PICK names \in SUBSET Cut(op, Fit(op, s)) :
          /\ Cut(op, {slot[1] : slot \in h}) \subseteq names
          /\ PageOf(answer, names, op.offset, op.limit)
    BY <1>2 DEF Lists
  <2>2. Cut(op, {slot[1] : slot \in g}) \subseteq Cut(op, {slot[1] : slot \in h})
    BY DEF Cut
  <2>3. Cut(op, Fit(op, s)) \subseteq Cut(op, Fit(op, u))
    BY <1>1 DEF Cut
  <2> QED BY <1>2, <2>1, <2>2, <2>3 DEF Lists
<1> QED BY <1>1, <1>2 DEF ListOK

LEMMA QuietListing ==
  ASSUME NEW d, d.pc \in {"idle", "operate", "refetch", "failed"}, NEW g, NEW s
  PROVE  ListOK(d, g, s)
BY DEF ListOK

LEMMA FreshListing ==
  ASSUME NEW d, NEW g, NEW s, d.results = <<>>, d.pc \in {"idle", "next", "done"}
  PROVE  ListOK(d, g, s)
<1>1. Len(d.results) = 0
  OBVIOUS
<1> QED BY <1>1 DEF ListOK

LEMMA AnsweredListing ==
  ASSUME NEW c, CallOK(c), NEW answer, NEW d, d = Answered(c, answer),
         NEW g, NEW s, NEW op, op = c.batch[Len(c.results) + 1],
         op.op = "list_namespaces" => Lists(op, answer, g, s)
  PROVE  ListOK(d, g, s)
<1>1. PICK n \in Nat : n = Len(c.results) + 1
  BY DEF CallOK
<1>2. d.batch = c.batch /\ d.results[n] = answer
  BY <1>1, AnsweredLayout
<1>3. Len(d.results) = n
  BY <1>1, AppendLayout DEF CallOK, Answered
<1>4. d.pc \in {"next", "done"}
  BY DEF Answered
<1> QED BY <1>1, <1>2, <1>3, <1>4 DEF ListOK

\* A request of p's batch: c goes on as d, or fails.
LEMMA RepliedListing ==
  ASSUME TypeOK, NEW p \in Proc, NEW d, Reply(p, d), ListOK(d, held'[p], seen'[p])
  PROVE  ListOK(call'[p], held'[p], seen'[p])
<1>1. CASE call' = [call EXCEPT ![p] = d]
  <2>1. call'[p] = d
    BY <1>1 DEF TypeOK
  <2> QED BY <2>1
<1>2. CASE call' = [call EXCEPT ![p].pc = "failed"]
  <2>1. PICK e, g, s : e = call'[p] /\ g = held'[p] /\ s = seen'[p]
    OBVIOUS
  <2>2. e.pc = "failed"
    BY <1>2, <2>1 DEF TypeOK, CallOK
  <2>3. ListOK(e, g, s)
    BY <2>2, QuietListing
  <2> QED BY <2>1, <2>3
<1> QED BY <1>1, <1>2 DEF Reply

LEMMA QueryListing ==
  ASSUME TypeOK, NEW p \in Proc, Query(p)
  PROVE  ListOK(call'[p], held'[p], seen'[p])
<1> DEFINE c == call[p]
           op == CurrentOp(p)
<1>0. PICK found : found = Matching(db, op)
  OBVIOUS
<1>1. CallOK(c) /\ c.pc = "next" /\ op \in Op
  BY CurrentOpIsOp DEF TypeOK, Query, Starts, At
<1>2. PICK d, g, s : d = call'[p] /\ g = held'[p] /\ s = seen'[p]
  OBVIOUS
<1>3. d.batch = c.batch /\ d.results = c.results /\ d.pc = "scan" /\ d.found = found
  <2>1. call' = [call EXCEPT ![p].pc = "scan", ![p].found = found]
    BY <1>0 DEF Query
  <2> QED BY <1>1, <1>2, <2>1 DEF TypeOK, CallOK
<1>4. g = Slots(found)
  BY <1>0, <1>1, <1>2, <1>3, Watched DEF Query, Querying
<1>5. op = c.batch[Len(c.results) + 1]
  BY DEF CurrentOp
<1>6. op.op = "list_namespaces" => \A item \in found : item.ns \in Fit(op, s)
  <2> SUFFICES ASSUME op.op = "list_namespaces", NEW item \in found
               PROVE  item.ns \in Fit(op, s)
    OBVIOUS
  <2>1. CurrentOp(p)' = op
    BY <1>2, <1>3 DEF CurrentOp
  <2>2. ~Listing(p) /\ Listing(p)'
    BY <1>1, <1>2, <1>3, <2>1 DEF Listing, At
  <2>3. s = InUse(db)
    BY <1>2, <2>2, NamesSeen DEF Query
  <2>4. op \in ListOp
    BY <1>1, KindOfOp
  <2> HIDE DEF op
  <2> QED BY <1>0, <2>3, <2>4, MatchIsListed DEF TypeOK
<1> HIDE DEF op
<1>7. ListOK(d, g, s)
  BY <1>3, <1>4, <1>5, <1>6 DEF ListOK
<1> QED BY <1>2, <1>7

LEMMA ScanListing ==
  ASSUME TypeOK, NEW p \in Proc, Scan(p), ListOK(call[p], held[p], seen[p])
  PROVE  ListOK(call'[p], held'[p], seen'[p])
<1>0. PICK c, op, g, s, end : /\ c = call[p] /\ op = CurrentOp(p) /\ g = held'[p] /\ s = seen'[p]
                              /\ end = Matching(db, op)
  OBVIOUS
<1>1. CallOK(c) /\ c.pc = "scan" /\ Len(c.results) < Len(c.batch)
  BY <1>0 DEF TypeOK, CallOK, Scan, At
<1>2. op \in SearchOp \cup ListOp /\ op = c.batch[Len(c.results) + 1]
  BY <1>0, <1>1 DEF CallOK, CurrentOp
<1>3. PICK found \in Scanned(c.found, end) :
        IF op.op = "list_namespaces"
          THEN Reply(p, Answered(c, NamespacePage({item.ns : item \in found},
                                                  op.depth, op.offset, op.limit)))
        ELSE IF Refresh(op) /\ found # {}
          THEN Reply(p, [c EXCEPT !.pc = "refetch", !.found = found])
          ELSE \E out \in SetToSeqs(found) : Reply(p, Answered(c, Page(op, out)))
  BY <1>0 DEF Scan
<1>4. CASE op.op = "list_namespaces"
  <2>1. PICK nss, answer, d : /\ nss = {item.ns : item \in found}
                              /\ answer = NamespacePage(nss, op.depth, op.offset, op.limit)
                              /\ d = Answered(c, answer)
    OBVIOUS
  <2>2. Reply(p, d)
    BY <1>3, <1>4, <2>1
  <2>3. op \in ListOp
    BY <1>2, <1>4, KindOfOp DEF Op
  <2>4. found \subseteq Item /\ IsFiniteSet(found)
    BY <1>0, <1>1, MatchingIsItems, ScannedIsItems DEF TypeOK, RecordsOK, CallOK
  <2>5. /\ \A item \in c.found : item.ns \in Fit(op, seen[p])
        /\ held[p] \subseteq Slots(c.found)
    BY <1>0, <1>1, <1>2, <1>4 DEF ListOK
  <2>6. \A item \in end : item.ns \in Fit(op, InUse(db))
    BY <1>0, <2>3, MatchIsListed DEF TypeOK
  <2>7. g = held[p] \cap Slots(end) /\ s = seen[p] \cup InUse(db)
    <3>1. Observe /\ db' = db
      BY DEF Scan
    <3>2. Querying(p) /\ Listing(p)
      BY <1>0, <1>1, <1>4 DEF Querying, Listing, At
    <3>3. held'[p] = held[p] \cap Slots(Matching(db', CurrentOp(p)))
      BY <3>1, <3>2, Watched
    <3>4. seen'[p] = seen[p] \cup InUse(db')
      BY <3>1, <3>2, NamesSeen
    <3>5. InUse(db') = InUse(db)
      BY <3>1
    <3> QED BY <1>0, <3>1, <3>3, <3>4, <3>5
  <2>8. /\ found \subseteq c.found \cup end
        /\ Slots(c.found) \cap Slots(end) \subseteq Slots(found)
    BY <1>3 DEF Scanned
  <2>9. nss \subseteq Fit(op, s) /\ g \subseteq Slots(found)
    <3>1. \A item \in found : item.ns \in Fit(op, s)
      BY <2>5, <2>6, <2>7, <2>8 DEF Fit
    <3> QED BY <2>1, <2>5, <2>7, <2>8, <3>1
  <2>10. nss \in SUBSET Seq(Str) /\ IsFiniteSet(nss)
    <3>1. nss \in SUBSET Seq(Str)
      BY <2>1, <2>4, NamespacesAssumption DEF Item
    <3>2. PICK f : f = [item \in found |-> item.ns]
      OBVIOUS
    <3>3. f \in Surjection(found, nss)
      BY <2>1, <3>2 DEF Surjection
    <3> QED BY <2>4, <3>1, <3>3, FS_Surjection
  <2>11. PICK names : names = {Truncated(ns, op.depth) : ns \in nss}
    OBVIOUS
  <2>12. PageOf(answer, names, op.offset, op.limit)
    <3>1. op.depth \in Nat \cup {NoLimit} /\ op.limit \in Nat \cup {NoLimit} /\ op.offset \in Nat
      BY <2>3 DEF ListOp, Limit
    <3>2. PICK depth \in Nat \cup {NoLimit}, limit \in Nat \cup {NoLimit}, offset \in Nat :
            depth = op.depth /\ limit = op.limit /\ offset = op.offset
      BY <3>1
    <3>3. answer = NamespacePage(nss, depth, offset, limit)
      BY <2>1, <3>2
    <3>4. names = {Truncated(ns, depth) : ns \in nss}
      BY <2>11, <3>2
    <3>5. PageOf(answer, names, offset, limit)
      BY <2>10, <3>2, <3>3, <3>4, NamespacePageLayout
    <3> QED BY <3>2, <3>5
  <2>13. names \in SUBSET Cut(op, Fit(op, s))
    BY <2>9, <2>11 DEF Cut
  <2>14. Cut(op, {slot[1] : slot \in g}) \subseteq names
    <3>1. \A slot \in g : slot[1] \in nss
      BY <2>1, <2>9 DEF Slots
    <3> QED BY <2>11, <3>1 DEF Cut
  <2>15. Lists(op, answer, g, s)
    BY <2>12, <2>13, <2>14 DEF Lists
  <2>16. ListOK(d, g, s)
    BY <1>1, <1>2, <2>1, <2>15, AnsweredListing
  <2> QED BY <1>0, <2>2, <2>16, RepliedListing
<1>5. CASE op.op # "list_namespaces" /\ Refresh(op) /\ found # {}
  <2>1. PICK d : d = [c EXCEPT !.pc = "refetch", !.found = found]
    OBVIOUS
  <2>2. d.pc = "refetch"
    BY <1>1, <2>1 DEF CallOK
  <2>3. ListOK(d, g, s)
    BY <2>2, QuietListing
  <2> QED BY <1>0, <1>3, <1>5, <2>1, <2>3, RepliedListing
<1>6. CASE op.op # "list_namespaces" /\ ~(Refresh(op) /\ found # {})
  <2>1. PICK d, answer : d = Answered(c, answer) /\ Reply(p, d)
    BY <1>3, <1>6
  <2>2. ListOK(d, g, s)
    BY <1>1, <1>2, <1>6, <2>1, AnsweredListing
  <2> QED BY <1>0, <2>1, <2>2, RepliedListing
<1> QED BY <1>4, <1>5, <1>6

\* A put, a delete, a get or a search answers an operation that is no listing.
LEMMA OtherListing ==
  ASSUME TypeOK, NEW p \in Proc, OperatePut(p) \/ RemoveItem(p) \/ GetItem(p) \/ Refetch(p)
  PROVE  ListOK(call'[p], held'[p], seen'[p])
<1>1. PICK c, op, g, s : c = call[p] /\ op = CurrentOp(p) /\ g = held'[p] /\ s = seen'[p]
  OBVIOUS
<1>2. CallOK(c) /\ op = c.batch[Len(c.results) + 1] /\ op.op # "list_namespaces"
  BY <1>1 DEF TypeOK, CallOK, OperatePut, RemoveItem, GetItem, Refetch, Starts, At, CurrentOp,
              PutOp, SearchOp
<1>3. PICK d : Reply(p, d) /\ (d.pc = "refetch" \/ \E answer : d = Answered(c, answer))
  <2>1. CASE OperatePut(p) \/ RemoveItem(p) \/ GetItem(p)
    BY <1>1, <2>1 DEF OperatePut, RemoveItem, GetItem
  <2>2. CASE Refetch(p)
    <3>1. PICK out, rest :
            Reply(p, IF rest = {} THEN Answered(c, Page(op, out))
                     ELSE [c EXCEPT !.found = rest, !.out = out])
      BY <1>1, <2>2 DEF Refetch
    <3>2. CASE rest = {}
      BY <3>1, <3>2
    <3>3. CASE rest # {}
      <4>1. PICK d : d = [c EXCEPT !.found = rest, !.out = out]
        OBVIOUS
      <4>2. d.pc = "refetch"
        BY <1>1, <1>2, <2>2, <4>1 DEF CallOK, Refetch, At
      <4> QED BY <3>1, <3>3, <4>1, <4>2
    <3> QED BY <3>2, <3>3
  <2> QED BY <2>1, <2>2
<1>4. ListOK(d, g, s)
  <2>1. CASE d.pc = "refetch"
    BY <2>1, QuietListing
  <2>2. ASSUME NEW answer, d = Answered(c, answer) PROVE ListOK(d, g, s)
    BY <1>2, <2>2, AnsweredListing
  <2> QED BY <1>3, <2>1, <2>2
<1> QED BY <1>1, <1>3, <1>4, RepliedListing

LEMMA RestingListing ==
  ASSUME TypeOK, NEW p \in Proc,
         \/ Reject(p) \/ StampPut(p) \/ Fail(p) \/ Return(p)
         \/ \E batch \in Batches[p] : Begin(p, batch)
  PROVE  ListOK(call'[p], held'[p], seen'[p])
<1>1. PICK d, g, s : d = call'[p] /\ g = held'[p] /\ s = seen'[p]
  OBVIOUS
<1>2. CASE Reject(p) \/ StampPut(p) \/ Fail(p)
  <2>1. d.pc \in {"operate", "failed"}
    BY <1>1, <1>2 DEF TypeOK, CallOK, Reject, StampPut, Fail
  <2> QED BY <1>1, <2>1, QuietListing
<1>3. CASE Return(p) \/ \E batch \in Batches[p] : Begin(p, batch)
  <2>1. d.results = <<>> /\ d.pc \in {"idle", "next", "done"}
    <3>1. CASE Return(p)
      BY <1>1, <3>1 DEF TypeOK, Return, NoCall
    <3>2. ASSUME NEW batch \in Batches[p], Begin(p, batch)
          PROVE  d.results = <<>> /\ d.pc \in {"idle", "next", "done"}
      BY <1>1, <3>2 DEF TypeOK, Begin, NoCall
    <3> QED BY <1>3, <3>1, <3>2
  <2> QED BY <1>1, <2>1, FreshListing
<1> QED BY <1>2, <1>3

\* What others do, and time, takes from what is held and adds to what is seen.
LEMMA IdleListing ==
  ASSUME NEW q \in Proc, ListOK(call[q], held[q], seen[q]), call'[q] = call[q],
         Observe \/ (held' = held /\ seen' = seen)
  PROVE  ListOK(call'[q], held'[q], seen'[q])
<1>1. PICK c, h, s, g, u : /\ c = call[q] /\ h = held[q] /\ s = seen[q]
                           /\ g = held'[q] /\ u = seen'[q]
  OBVIOUS
<1>2. g \subseteq h
  <2>1. CASE held' = held
    BY <1>1, <2>1
  <2>2. CASE Observe
    BY <1>1, <2>2, Watched DEF Querying
  <2> QED BY <2>1, <2>2
<1>3. s \subseteq u \/ c.pc \in {"idle", "operate"}
  <2>1. CASE seen' = seen
    BY <1>1, <2>1
  <2>2. CASE Observe
    BY <1>1, <2>2, NamesSeen
  <2> QED BY <2>1, <2>2
<1>4. CASE s \subseteq u
  BY <1>1, <1>2, <1>4, SameListing
<1>5. CASE c.pc \in {"idle", "operate"}
  <2>1. ListOK(c, g, u)
    BY <1>5, QuietListing
  <2> QED BY <1>1, <2>1
<1> QED BY <1>3, <1>4, <1>5

ListInv == \A p \in Proc : ListOK(call[p], held[p], seen[p])

LEMMA ListInvStep ==
  ASSUME TypeOK, ListInv, [Next]_vars
  PROVE  ListInv'
<1> SUFFICES ASSUME NEW q \in Proc PROVE ListOK(call'[q], held'[q], seen'[q])
  BY DEF ListInv
<1>0. ListOK(call[q], held[q], seen[q])
  BY DEF ListInv
<1>1. CASE UNCHANGED vars \/ Tick
  <2>1. call' = call /\ (Observe \/ (held' = held /\ seen' = seen))
    BY <1>1 DEF vars, Tick
  <2> QED BY <1>0, <2>1, IdleListing
<1>2. ASSUME NEW p \in Proc, Step(p) \/ \E batch \in Batches[p] : Begin(p, batch), p # q
      PROVE  ListOK(call'[q], held'[q], seen'[q])
  <2>1. Observe /\ \E c : call' = [call EXCEPT ![p] = c]
    BY <1>2, OneCallMoves
  <2>2. call'[q] = call[q]
    BY <1>2, <2>1 DEF TypeOK
  <2> QED BY <1>0, <2>1, <2>2, IdleListing
<1>3. CASE Step(q) \/ \E batch \in Batches[q] : Begin(q, batch)
  BY <1>0, <1>3, QueryListing, ScanListing, OtherListing, RestingListing DEF Step
<1> QED BY <1>1, <1>2, <1>3 DEF Next

\* A listing is a page, in order and without gaps, of a set of namespaces cut at
\* its depth: of one that has all that fit its patterns and had an item all the
\* time, and none but those that fit and had an item at some time of the call. With
\* no assumption on the keys, for what it lists is what the records hold.
THEOREM ListingsAreRight == Spec => []NamespacesListed
<1>1. Init => ListInv
  <2> SUFFICES ASSUME Init, NEW p \in Proc PROVE ListOK(call[p], held[p], seen[p])
    BY DEF ListInv
  <2>1. call[p].results = <<>> /\ call[p].pc = "idle"
    BY DEF Init, NoCall
  <2> QED BY <2>1, FreshListing
<1>2. TypeOK /\ ListInv /\ [Next]_vars => ListInv'
  BY ListInvStep
<1>3. TypeOK /\ ListInv => NamespacesListed
  <2> SUFFICES ASSUME TypeOK, ListInv, NEW p \in Proc, NEW a \in LastAnswer(p, "list_namespaces")
               PROVE  /\ \A i, j \in DOMAIN a.answer : i < j => NsLess(a.answer[i], a.answer[j])
                      /\ \E names \in SUBSET Cut(a.op, Fit(a.op, seen[p])) :
                           /\ Cut(a.op, {slot[1] : slot \in held[p]}) \subseteq names
                           /\ Range(a.answer) = {ns \in names : OnPage(Place(ns, names), a.op)}
    BY DEF NamespacesListed, Cut, Fit
  <2>1. PICK n : /\ n = Len(call[p].results) /\ n # 0 /\ call[p].pc \in {"next", "done"}
                 /\ call[p].batch[n].op = "list_namespaces"
                 /\ a.op = call[p].batch[n] /\ a.answer = call[p].results[n]
    BY DEF LastAnswer
  <2>2. Lists(a.op, a.answer, held[p], seen[p])
    BY <2>1 DEF ListInv, ListOK
  <2>3. ASSUME NEW names
        PROVE  OnNamesPage(names, a.op.offset, a.op.limit)
                 = {ns \in names : OnPage(Place(ns, names), a.op)}
    BY DEF OnNamesPage, OnPage
  <2> QED BY <2>2, <2>3 DEF Lists, PageOf, Ordered
<1> QED BY <1>1, <1>2, <1>3, TypeCorrect, PTL DEF Spec
=============================================================================
