------------------------------ MODULE ItemStore ------------------------------
(***************************************************************************)
(* What AerospikeStore promises to those who call it: one map from         *)
(* namespaces and keys to items, shared by callers that run batches of     *)
(* operations on it.                                                       *)
(*                                                                         *)
(* The operations of a batch take effect in its order, each put and each   *)
(* get at once, but the batch as a whole does not: other callers come in   *)
(* between, and a batch that raises has done its first operations and none *)
(* of the others.  An item that was put without a ttl stays until it is    *)
(* deleted.  How a search or a listing answers is not said here.           *)
(***************************************************************************)
EXTENDS Integers, Sequences

CONSTANTS Proc, Slot, Time, Batches, Faults, Absent, NoValue, NoTtl

VARIABLES
  items, \* items[<<ns, key>>]: the item there, or Absent
  calls  \* calls[p]: the batch that p runs, and its results so far

vars == <<items, calls>>

NoCall == [batch |-> <<>>, results |-> <<>>, pc |-> "idle"]

Init ==
  /\ items = [slot \in Slot |-> Absent]
  /\ calls = [p \in Proc |-> NoCall]

Working(p) == calls[p].pc = "working"
CurrentOp(p) == calls[p].batch[Len(calls[p].results) + 1]
SlotOf(op) == <<op.ns, op.key>>

Answered(c, answer) ==
  [batch |-> c.batch, results |-> Append(c.results, answer),
   pc |-> IF Len(c.results) + 1 = Len(c.batch) THEN "done" ELSE "working"]

\* The operation took effect; the caller may not learn of it.
Reply(p, answer) ==
  \/ calls' = [calls EXCEPT ![p] = Answered(@, answer)]
  \/ Faults /\ calls' = [calls EXCEPT ![p].pc = "failed"]

Begin(p, batch) ==
  /\ calls[p].pc = "idle"
  /\ calls' = [calls EXCEPT ![p] =
       [batch |-> batch, results |-> <<>>, pc |-> IF batch = <<>> THEN "done" ELSE "working"]]
  /\ UNCHANGED items

Return(p) ==
  /\ calls[p].pc \in {"done", "failed"}
  /\ calls' = [calls EXCEPT ![p] = NoCall]
  /\ UNCHANGED items

\* An item remembers when it was first put, however often it is put again.
Put(p) ==
  LET op == CurrentOp(p)
      old == items[SlotOf(op)]
  IN
  /\ Working(p) /\ op.op = "put" /\ op.value # NoValue
  /\ \E now \in Time, mortal \in BOOLEAN :
       /\ mortal => op.ttl # NoTtl /\ op.ttl >= 0
       /\ items' = [items EXCEPT ![SlotOf(op)] =
            [value |-> op.value, created |-> IF old = Absent THEN now ELSE old.created,
             updated |-> now, mortal |-> mortal]]
  /\ Reply(p, <<>>)

Delete(p) ==
  LET op == CurrentOp(p) IN
  /\ Working(p) /\ op.op = "put" /\ op.value = NoValue
  /\ items' = [items EXCEPT ![SlotOf(op)] = Absent]
  /\ Reply(p, <<>>)

Get(p) ==
  LET op == CurrentOp(p)
      item == items[SlotOf(op)]
  IN
  /\ Working(p) /\ op.op = "get"
  /\ Reply(p, IF item = Absent THEN <<>>
              ELSE <<[ns |-> op.ns, key |-> op.key, value |-> item.value,
                      created |-> item.created, updated |-> item.updated]>>)
  /\ UNCHANGED items

\* Any answer at all.
Look(p) ==
  LET n == Len(calls[p].results) + 1 IN
  /\ Working(p) /\ CurrentOp(p).op \in {"search", "list_namespaces"}
  /\ Len(calls'[p].results) = n
  /\ calls' = [calls EXCEPT ![p] = Answered(@, calls'[p].results[n])]
  /\ UNCHANGED items

Raise(p) ==
  /\ Working(p)
  /\ Faults \/ CurrentOp(p).op \in {"search", "list_namespaces"}
  /\ calls' = [calls EXCEPT ![p].pc = "failed"]
  /\ UNCHANGED items

\* Items with a lifetime may go at any time.
Expire ==
  /\ \E gone \in SUBSET {slot \in Slot : items[slot] # Absent} :
       /\ \A slot \in gone : items[slot].mortal
       /\ items' = [slot \in Slot |-> IF slot \in gone THEN Absent ELSE items[slot]]
  /\ UNCHANGED calls

Next ==
  \/ \E p \in Proc : \/ Put(p) \/ Delete(p) \/ Get(p) \/ Look(p) \/ Raise(p) \/ Return(p)
                     \/ \E batch \in Batches[p] : Begin(p, batch)
  \/ Expire

Spec == Init /\ [][Next]_vars
=============================================================================
