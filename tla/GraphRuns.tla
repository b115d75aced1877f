------------------------------ MODULE GraphRuns ------------------------------
(***************************************************************************)
(* A program that uses the saver: it calls its methods one after the other *)
(* and runs graphs (graph.invoke) that load a checkpoint and save one      *)
(* after every superstep.  The graph runtime is langgraph's, not this      *)
(* repository's; it is modelled by the calls it makes of the saver, in     *)
(* their order.  The pending writes it also stores are left out.           *)
(*                                                                         *)
(* A module that EXTENDS this one gives the program: its phases and what a *)
(* turn of its graph computes.                                             *)
(***************************************************************************)
EXTENDS RunnableConfigs

CONSTANTS
  me,       \* the process that runs the program
  Blank     \* the channel values of a thread that has no checkpoint

\* The program is one of the saver's callers.
ProgramCalls ==
  PutReq \cup GetReq \cup DeleteReq
    \cup {ListRequest(TupleConfig(t, ns, NoId)) : t \in Thread, ns \in Ns}

ASSUME ProgramAssumption == me \in Proc /\ ProgramCalls \subseteq Calls[me]

VARIABLES
  prog,     \* the program: where it is (`at`) and its local variables
  kept      \* kept[id]: the channel values in checkpoint id

progVars == <<prog, kept>>
allVars == <<db, call, held, erased, prog, kept>>

\* A call of the saver is the program's step when it begins and when it
\* returns; in between only the saver moves.
Asks(at, r)  == prog.at = at /\ Begin(me, r) /\ UNCHANGED progVars
Answered(at) == prog.at = at /\ At(me, "done") /\ Return(me)

\* The tuples in the answer, and the values in the one of get_tuple.
Tuples == call[me].out
Values == IF Tuples = <<>> THEN Blank ELSE kept[Tuples[1].id]
ConfigOf(tuple) == TupleConfig(call[me].req.t, tuple.ns, tuple.id)

SaverStep(p) == Working(p) /\ Step(p) /\ UNCHANGED progVars

-----------------------------------------------------------------------------
(* graph.invoke(input, config)                                             *)

\* The program's record when it starts to run a graph; `back` is where it goes
\* on, `todo` what is still to be saved, `state` what the last turn returned.
Invoking(cfg, input, back) ==
  [prog EXCEPT !.at = "load", !.cfg = cfg, !.input = input, !.back = back]

LoadCheckpoint == Asks("load", GetRequest(prog.cfg))

\* `turns`: the channel values that a turn may save, in order.
BeginTurn(turns) ==
  /\ Answered("load")
  /\ \E turn \in turns :
       prog' = [prog EXCEPT !.at = "save", !.todo = turn,
                  !.last = IF Tuples = <<>> THEN IdOf(prog.cfg) ELSE Tuples[1].id]
  /\ UNCHANGED kept

\* Checkpoint ids are unique and ordered by time.
Used == {k.id : k \in {k \in Key : k.set = "cp" /\ Stored(k)}}
          \cup {db[k].id : k \in {k \in Key : k.set = "meta" /\ Stored(k)}}
NewId == CHOOSE i \in Id : /\ \A u \in Used : i > u
                           /\ \A j \in Id : (\A u \in Used : j > u) => i <= j

\* Bound: a run needs an id for every checkpoint it saves.
IdsLeft == \E i \in Id : \A u \in Used : i > u

\* The parent is the checkpoint saved before, at first the one loaded.
SaveCheckpoint ==
  /\ prog.at = "save" /\ IdsLeft
  /\ LET from == [prog.cfg EXCEPT !.configurable.checkpoint_id = prog.last]
     IN Begin(me, PutRequest(from, NewId))
  /\ kept' = [i \in Id |-> IF i = NewId THEN Head(prog.todo) ELSE IF i \in Used THEN kept[i] ELSE Blank]
  /\ UNCHANGED prog

CheckpointSaved ==
  /\ Answered("save")
  /\ prog' = [prog EXCEPT !.last = call[me].req.id, !.todo = Tail(@), !.state = Head(prog.todo),
                !.at = IF Len(prog.todo) = 1 THEN prog.back ELSE "save"]
  /\ UNCHANGED kept

Invocation(turns) ==
  \/ LoadCheckpoint \/ BeginTurn(turns)
  \/ SaveCheckpoint \/ CheckpointSaved

-----------------------------------------------------------------------------
(* Programs.                                                               *)

\* Both programs begin with delete_thread.
DeleteThread(t) == Asks("clean", [op |-> "delete", t |-> t])

\* An exception ends the program, or its end does; it may be run again.
RunAgain(start) ==
  /\ \/ At(me, "failed") /\ Return(me)
     \/ prog.at = "end" /\ UNCHANGED vars
  /\ prog' = start
  /\ UNCHANGED kept
=============================================================================
