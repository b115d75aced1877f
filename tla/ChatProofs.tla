------------------------------ MODULE ChatProofs ------------------------------
(***************************************************************************)
(* The chat demo: its third turn finds nothing, and each turn is whole or  *)
(* fresh, for any lifetime, ids and other readers.                         *)
(***************************************************************************)
EXTENDS ChatDemo, GraphRunsProofs

-----------------------------------------------------------------------------
(* The program's control, and what it asks the saver.                      *)

\* The turns of which each place of the program is a part.
TurnsAt ==
  [clean |-> {0}, load |-> 1 .. 3, save |-> 1 .. 3, ttl |-> {1, 2}, raw |-> {1, 2},
   shown |-> {1, 2}, spoken |-> {2}, sleep |-> {2}, probe |-> {2}, fresh |-> {3}, end |-> {2, 3}]

Place == {"clean", "load", "save", "ttl", "raw", "shown", "spoken", "sleep", "probe", "fresh", "end"}

Count == Nat \cup {Blank}

Programs ==
  [at : Place, cfg : {ChatConfig}, input : {None}, back : Place, todo : Seq(Nat),
   last : Id \cup {NoId}, state : Count, exit : {None, 0, 1}, turn : 0 .. 3,
   slept : 0 .. Ttl, tuple : {None} \cup BOOLEAN, key : Id \cup {NoId}, ttl : Nat \cup {None}]

\* What a turn has still to save: it began with n messages.
TodoFrom(n) == {<<n, n + 1, n + 2>>, <<n + 1, n + 2>>, <<n + 2>>}

\* The lifetime is that of a checkpoint, and not used once it is shown.
ShownOK ==
  /\ prog.at = "raw" => prog.key \in Id
  /\ prog.at \notin {"shown", "end"} => prog.ttl = None

ControlOK ==
  /\ prog \in Programs
  /\ ShownOK
  /\ kept \in [Id -> Count]
  /\ prog.turn \in TurnsAt[prog.at]
  /\ prog.at \in {"load", "save"} => prog.back = <<"ttl", "spoken", "fresh">>[prog.turn]
  /\ prog.at = "save" => \E n \in Nat : prog.todo \in TodoFrom(n)
  /\ prog.at # "sleep" => prog.slept = 0

Asking(at, r) ==
  CASE at = "clean" -> r = [op |-> "delete", t |-> THREAD_ID]
    [] at \in {"load", "ttl", "probe"} -> r = GetRequest(ChatConfig)
    [] at = "save" -> r \in PutReq /\ r.id \in Id /\ r.t = THREAD_ID /\ r.ns = RootNs
    [] OTHER -> FALSE

AskedOK == call[me].pc # "idle" => Asking(prog.at, call[me].req)

LEMMA ChatConfigNames ==
  /\ ChatConfig \in Naming /\ ThreadOf(ChatConfig) = THREAD_ID /\ NsOf(ChatConfig) = RootNs
  /\ IdOf(ChatConfig) = NoId
<1>1. ChatConfig \in Naming
  BY ConfigsNaming, ChatAssumption DEF ChatConfig
<1>2. ChatConfig.configurable.thread_id = THREAD_ID
  BY DEF ChatConfig, TupleConfig
<1>3. NsOf(ChatConfig) = RootNs /\ IdOf(ChatConfig) = NoId
  BY DEF ChatConfig, TupleConfig, NoMetadata, NsOf, IdOf, Or
<1> QED BY <1>1, <1>2, <1>3, NamesOfConfig

\* A request of the program is one that the saver takes from it.
LEMMA AskOK ==
  ASSUME TypeOK, ControlOK, NEW at, NEW r, Asks(at, r), Asking(at, r), r \in Calls[me]
  PROVE  Next /\ ControlOK' /\ AskedOK'
<1>1. prog' = prog /\ kept' = kept /\ prog.at = at /\ Begin(me, r)
  BY DEF Asks, progVars
<1>2. call'[me].req = r
  BY <1>1, BeginShape, ProgramAssumption
<1> QED BY <1>1, <1>2, ProgramAssumption DEF Next, ControlOK, ShownOK, AskedOK

\* At an answer, and in steps of its own, the program is not in a call.
LEMMA RestOK ==
  ASSUME TypeOK, AskedOK, Return(me) \/ (UNCHANGED vars /\ ~\E r : Asking(prog.at, r))
  PROVE  [Next]_vars /\ AskedOK' /\ call'[me].pc = "idle"
<1>1. CASE Return(me)
  BY <1>1, ReturnShape, ProgramAssumption DEF Next, Step, AskedOK
<1>2. CASE UNCHANGED vars /\ ~\E r : Asking(prog.at, r)
  BY <1>2 DEF AskedOK, vars
<1> QED BY <1>1, <1>2

LEMMA SayNextFields ==
  ASSUME ControlOK, prog.turn \in 0 .. 2, NEW back \in Place, NEW n, n = SayNext(back)
  PROVE  /\ n \in Programs /\ n.at = "load" /\ n.back = back /\ n.turn = prog.turn + 1
         /\ n.slept = prog.slept /\ n.state = prog.state /\ n.tuple = prog.tuple
         /\ n.exit = prog.exit /\ n.todo = prog.todo /\ n.ttl = None
<1> DEFINE asked == [prog EXCEPT !.at = "load", !.cfg = ChatConfig, !.input = None, !.back = back]
<1>1. /\ asked \in Programs /\ asked.at = "load" /\ asked.back = back /\ asked.turn = prog.turn
      /\ asked.slept = prog.slept /\ asked.state = prog.state /\ asked.tuple = prog.tuple
      /\ asked.exit = prog.exit /\ asked.todo = prog.todo
  BY DEF ControlOK, Programs, Place
<1>2. n = [asked EXCEPT !.turn = @ + 1, !.ttl = None]
  BY DEF SayNext, Invoking
<1> HIDE DEF asked
<1>3. PICK turn \in 0 .. 3 : turn = prog.turn + 1
  OBVIOUS
<1>4. n = [asked EXCEPT !.turn = turn, !.ttl = None]
  BY <1>1, <1>2, <1>3
<1>5. n \in Programs
  BY <1>1, <1>3, <1>4 DEF Programs
<1> QED BY <1>1, <1>3, <1>4, <1>5 DEF Programs

LEMMA TurnIsCount == ControlOK => prog.turn \in 0 .. 3 /\ prog.slept \in 0 .. Ttl
BY DEF ControlOK, Programs

LEMMA AnswerTypes ==
  ASSUME TypeOK, ControlOK
  PROVE  /\ Values \in Count
         /\ Tuples # <<>> => Tuples[1].id \in Id
<1>1. call[me].out \in Seq(Tuple)
  BY ProgramAssumption DEF TypeOK, CallState
<1>2. Tuples # <<>> => Tuples[1].id \in Id
  <2> SUFFICES ASSUME Tuples # <<>> PROVE Tuples[1].id \in Id
    OBVIOUS
  <2>1. Tuples[1] \in Tuple
    BY <1>1 DEF Tuples
  <2> QED BY <2>1 DEF Tuple
<1> QED BY <1>2 DEF Values, ControlOK, Count

\* A turn begins: what was loaded, and one and two messages more.
LEMMA TurnsOfChat ==
  ASSUME NEW before \in Count, NEW text, NEW turn \in ChatTurns(before, text)
  PROVE  \E n \in Nat : turn = <<n, n + 1, n + 2>> /\ n = IF before = Blank THEN 0 ELSE before
BY DEF ChatTurns, Count

LEMMA TodoTypes ==
  ASSUME NEW n \in Nat, NEW todo \in TodoFrom(n)
  PROVE  /\ todo \in Seq(Nat) /\ Head(todo) \in Nat /\ Tail(todo) \in Seq(Nat)
         /\ Len(todo) # 1 => Tail(todo) \in TodoFrom(n)
         /\ Len(todo) = 1 => Head(todo) = n + 2
<1>1. CASE todo = <<n, n + 1, n + 2>>
  BY <1>1 DEF TodoFrom
<1>2. CASE todo = <<n + 1, n + 2>>
  BY <1>2 DEF TodoFrom
<1>3. CASE todo = <<n + 2>>
  BY <1>3 DEF TodoFrom
<1> QED BY <1>1, <1>2, <1>3 DEF TodoFrom

\* What is put has the program's names and a new id.
LEMMA SavedRequest ==
  ASSUME TypeOK, ControlOK, SaveCheckpoint
  PROVE  \E r \in Calls[me] : /\ Begin(me, r) /\ Asking("save", r)
                             /\ prog.at = "save" /\ prog' = prog
                             /\ r.id = NewId /\ NewId \notin Used
<1> DEFINE from == [prog.cfg EXCEPT !.configurable.checkpoint_id = prog.last]
           r == PutRequest(from, NewId)
<1>1. prog.cfg = ChatConfig /\ prog.last \in Id \cup {NoId}
  BY DEF ControlOK, Programs
<1>2. NewId \in Id /\ NewId \notin Used
  BY NewIdIsNew, UsedIsId DEF SaveCheckpoint
<1>3. /\ r \in PutReq /\ r \in Calls[me] /\ r.id = NewId
      /\ r.t = THREAD_ID /\ r.ns = RootNs
  BY <1>1, <1>2, PutOfConfig, ChatConfigNames
<1>4. Begin(me, r) /\ prog.at = "save" /\ prog' = prog
  BY DEF SaveCheckpoint
<1> HIDE DEF r
<1> QED BY <1>2, <1>3, <1>4 DEF Asking

LEMMA InvocationControl ==
  ASSUME TypeOK, ControlOK, AskedOK, Invocation(ChatTurns(Values, prog.input))
  PROVE  [Next]_vars /\ ControlOK' /\ AskedOK'
<1>1. CASE LoadCheckpoint
  <2>1. prog.cfg = ChatConfig
    BY DEF ControlOK, Programs
  <2>2. Asks("load", GetRequest(ChatConfig))
    BY <1>1, <2>1 DEF LoadCheckpoint
  <2> QED BY <2>2, AskOK, GetOfConfig, ChatConfigNames DEF Asking
<1>2. CASE BeginTurn(ChatTurns(Values, prog.input))
  <2>1. PICK turn \in ChatTurns(Values, prog.input) :
          prog' = [prog EXCEPT !.at = "save", !.todo = turn,
                     !.last = IF Tuples = <<>> THEN IdOf(prog.cfg) ELSE Tuples[1].id]
    BY <1>2 DEF BeginTurn
  <2>2. PICK n \in Nat : turn = <<n, n + 1, n + 2>>
    BY AnswerTypes, TurnsOfChat
  <2>3. turn \in TodoFrom(n) /\ turn \in Seq(Nat)
    BY <2>2, TodoTypes DEF TodoFrom
  <2>4. PICK last \in Id \cup {NoId} :
          prog' = [prog EXCEPT !.at = "save", !.todo = turn, !.last = last]
    <3>1. IdOf(prog.cfg) = NoId
      BY ChatConfigNames DEF ControlOK, Programs
    <3> QED BY <2>1, <3>1, AnswerTypes
  <2>5. prog.at = "load" /\ Return(me) /\ kept' = kept
    BY <1>2 DEF BeginTurn, Answered
  <2>6. prog' \in Programs /\ prog'.at = "save" /\ prog'.todo = turn /\ prog'.turn = prog.turn
        /\ prog'.back = prog.back /\ prog'.slept = prog.slept /\ prog'.ttl = prog.ttl
    BY <2>3, <2>4 DEF ControlOK, Programs, Place
  <2>7. ControlOK'
    BY <2>3, <2>5, <2>6 DEF ControlOK, ShownOK, TurnsAt
  <2> QED BY <2>5, <2>7, RestOK
<1>3. CASE SaveCheckpoint
  <2>1. PICK r \in Calls[me] : /\ Begin(me, r) /\ Asking("save", r)
                               /\ prog.at = "save" /\ prog' = prog
    BY <1>3, SavedRequest
  <2>2. call'[me].req = r
    BY <2>1, BeginShape, ProgramAssumption
  <2>3. PICK n \in Nat : prog.todo \in TodoFrom(n)
    BY <2>1 DEF ControlOK
  <2>4. Head(prog.todo) \in Count /\ Blank \in Count
    BY <2>3, TodoTypes DEF Count
  <2>5. kept' \in [Id -> Count]
    BY <1>3, <2>4 DEF SaveCheckpoint, ControlOK
  <2> QED BY <2>1, <2>2, <2>5, ProgramAssumption DEF Next, ControlOK, ShownOK, AskedOK
<1>4. CASE CheckpointSaved
  <2>1. PICK n \in Nat : prog.todo \in TodoFrom(n)
    BY <1>4 DEF CheckpointSaved, Answered, ControlOK
  <2>2. prog.at = "save" /\ At(me, "done") /\ Return(me) /\ kept' = kept
    BY <1>4 DEF CheckpointSaved, Answered
  <2>3. call[me].req.id \in Id
    BY <2>2 DEF AskedOK, Asking, At
  <2>4. PICK at : /\ at = IF Len(prog.todo) = 1 THEN prog.back ELSE "save"
                  /\ prog' = [prog EXCEPT !.last = call[me].req.id, !.todo = Tail(@),
                                 !.state = Head(prog.todo), !.at = at]
    BY <1>4 DEF CheckpointSaved
  <2>5. at \in Place /\ at \in {prog.back, "save"}
    BY <2>4 DEF ControlOK, Programs, Place
  <2>6. /\ prog' \in Programs /\ prog'.at = at /\ prog'.todo = Tail(prog.todo)
        /\ prog'.turn = prog.turn /\ prog'.back = prog.back /\ prog'.slept = prog.slept
        /\ prog'.ttl = prog.ttl
    BY <2>1, <2>3, <2>4, <2>5, TodoTypes DEF ControlOK, Programs, Count
  <2>7. /\ prog.turn \in 1 .. 3 /\ prog.back = <<"ttl", "spoken", "fresh">>[prog.turn]
        /\ prog.slept = 0
    BY <2>2 DEF ControlOK, TurnsAt
  <2>8. prog'.turn \in TurnsAt[at]
    BY <2>5, <2>6, <2>7 DEF TurnsAt
  <2>9. at = "save" => Tail(prog.todo) \in TodoFrom(n)
    <3>1. prog.back # "save"
      BY <2>7
    <3> QED BY <2>1, <2>4, <3>1, TodoTypes
  <2>10. at \notin {"load", "raw"}
    BY <2>5, <2>7
  <2>11. ShownOK'
    BY <2>2, <2>6, <2>10 DEF ControlOK, ShownOK
  <2>12. ControlOK'
    BY <2>1, <2>2, <2>6, <2>7, <2>8, <2>9, <2>10, <2>11 DEF ControlOK
  <2> QED BY <2>2, <2>12, RestOK
<1> QED BY <1>1, <1>2, <1>3, <1>4 DEF Invocation

\* The program goes to another place, out of a turn.
LEMMA MovesTo ==
  ASSUME ControlOK, kept' = kept, NEW at \in Place \ {"load", "save"}, prog' \in Programs,
         prog'.at = at, prog'.turn = prog.turn, prog.turn \in TurnsAt[at], prog'.slept = 0,
         at = "raw" => prog'.key \in Id, at \notin {"shown", "end"} => prog'.ttl = None
  PROVE  ControlOK'
BY DEF ControlOK, ShownOK

\* The program's own steps.
LEMMA AnswerControl ==
  ASSUME TypeOK, ControlOK, AskedOK, FirstTurn \/ TtlTuple \/ Probed
  PROVE  [Next]_vars /\ ControlOK' /\ AskedOK'
<1> USE TurnIsCount
<1>1. Return(me) /\ kept' = kept
  BY DEF FirstTurn, TtlTuple, Probed, Answered
<1>2. CASE FirstTurn
  <2>1. prog.at = "clean" /\ prog' = SayNext("ttl")
    BY <1>2 DEF FirstTurn, Answered
  <2>2. prog.turn = 0 /\ prog.slept = 0
    BY <2>1 DEF ControlOK, TurnsAt
  <2>3. ControlOK'
    BY <1>1, <2>1, <2>2, SayNextFields DEF ControlOK, ShownOK, TurnsAt, Place
  <2> QED BY <1>1, <2>3, RestOK
<1>3. CASE TtlTuple
  <2>1. prog.at = "ttl" /\ (Tuples # <<>> => Tuples[1].id \in Id)
    BY <1>3, AnswerTypes DEF TtlTuple, Answered
  <2>2. \/ prog' = [prog EXCEPT !.at = "shown"]
        \/ Tuples[1].id \in Id /\ prog' = [prog EXCEPT !.at = "raw", !.key = Tuples[1].id]
    BY <1>3, <2>1 DEF TtlTuple
  <2>3. prog \in Programs /\ prog.turn \in {1, 2} /\ prog.slept = 0
    BY <2>1 DEF ControlOK, TurnsAt
  <2>4. /\ prog' \in Programs /\ prog'.at \in {"shown", "raw"}
        /\ prog'.turn = prog.turn /\ prog'.slept = 0 /\ prog'.ttl = prog.ttl
        /\ prog'.at = "raw" => prog'.key \in Id
    <3>1. CASE prog' = [prog EXCEPT !.at = "shown"]
      BY <2>3, <3>1 DEF Programs, Place
    <3>2. ASSUME NEW id \in Id, prog' = [prog EXCEPT !.at = "raw", !.key = id]
          PROVE  /\ prog' \in Programs /\ prog'.at = "raw" /\ prog'.key = id
                 /\ prog'.turn = prog.turn /\ prog'.slept = 0 /\ prog'.ttl = prog.ttl
      BY <2>3, <3>2 DEF Programs, Place
    <3> QED BY <2>2, <3>1, <3>2
  <2>5. ControlOK'
    BY <1>1, <2>1, <2>3, <2>4, MovesTo DEF TurnsAt, Place, ControlOK, ShownOK
  <2> QED BY <1>1, <2>5, RestOK
<1>4. CASE Probed
  <2>1. PICK tuple \in BOOLEAN : /\ prog.at = "probe"
                                 /\ prog' = [prog EXCEPT !.at = "ttl", !.tuple = tuple]
    BY <1>4 DEF Probed, Answered
  <2>2. prog \in Programs /\ prog.turn = 2 /\ prog.slept = 0
    BY <2>1 DEF ControlOK, TurnsAt
  <2>3. prog' \in Programs /\ prog'.at = "ttl" /\ prog'.turn = prog.turn /\ prog'.slept = 0
        /\ prog'.ttl = None
    BY <2>1, <2>2 DEF Programs, Place, ControlOK, ShownOK
  <2>4. ControlOK'
    BY <1>1, <2>2, <2>3, MovesTo DEF TurnsAt, Place
  <2> QED BY <1>1, <2>4, RestOK
<1> QED BY <1>2, <1>3, <1>4

LEMMA RawRecordIsKey == prog.key \in Id => RawRecord \in Key
BY KeyTypes, ChatAssumption, ConfigAssumption, ChatConfigNames DEF RawRecord

\* What is shown is a lifetime or that there is none.
LEMMA RawReadShape ==
  ASSUME TypeOK, ControlOK, RawRead
  PROVE  \E ttl \in Nat \cup {None} :
           /\ prog.at = "raw" /\ prog' = [prog EXCEPT !.at = "shown", !.key = NoId, !.ttl = ttl]
           /\ NothingStored => ttl = None
<1>1. prog.at = "raw" /\ prog.key \in Id
  BY DEF RawRead, ControlOK, ShownOK
<1>2. CASE ~Stored(RawRecord)
  BY <1>1, <1>2 DEF RawRead, ShowTtl
<1>3. CASE Stored(RawRecord)
  <2>1. prog' = [prog EXCEPT !.at = "shown", !.key = NoId, !.ttl = db[RawRecord].left]
    BY <1>3 DEF RawRead, ShowTtl
  <2>2. RawRecord \in Key
    BY <1>1, <1>3, RawRecordIsKey
  <2>3. db[RawRecord].left \in Nat
    BY <1>3, <2>2, LeftIsNat DEF TypeOK, Stored
  <2>4. ~NothingStored
    BY <1>3, <2>2 DEF NothingStored
  <2> QED BY <1>1, <2>1, <2>3, <2>4
<1> QED BY <1>2, <1>3

LEMMA LocalControl ==
  ASSUME TypeOK, ControlOK, AskedOK,
         RawRead \/ SecondTurn \/ SleepOrSkip \/ WakeUp \/ ThirdTurn \/ Finish
  PROVE  [Next]_vars /\ ControlOK' /\ AskedOK'
<1> USE TurnIsCount
<1>1. /\ UNCHANGED vars /\ kept' = kept
      /\ prog.at \in {"raw", "shown", "spoken", "sleep", "fresh"}
  BY DEF RawRead, SecondTurn, SleepOrSkip, WakeUp, ThirdTurn, Finish
<1>2. [Next]_vars /\ AskedOK'
  BY <1>1, RestOK DEF Asking
<1>3. CASE SecondTurn \/ (ThirdTurn /\ ~prog.tuple)
  <2>1. PICK back \in {"spoken", "fresh"} :
          /\ prog.turn = IF back = "spoken" THEN 1 ELSE 2
          /\ prog' = SayNext(back) /\ prog.at = "shown"
    BY <1>3 DEF SecondTurn, ThirdTurn
  <2>2. prog.slept = 0
    BY <2>1 DEF ControlOK
  <2>3. ControlOK'
    BY <1>1, <2>1, <2>2, SayNextFields DEF ControlOK, ShownOK, TurnsAt, Place
  <2> QED BY <1>2, <2>3
<1>4. CASE RawRead
  <2>1. PICK ttl \in Nat \cup {None} :
          prog.at = "raw" /\ prog' = [prog EXCEPT !.at = "shown", !.key = NoId, !.ttl = ttl]
    BY <1>4, RawReadShape
  <2>2. prog \in Programs /\ prog.turn \in {1, 2} /\ prog.slept = 0
    BY <2>1 DEF ControlOK, TurnsAt
  <2>3. /\ prog' \in Programs /\ prog'.at = "shown" /\ prog'.turn = prog.turn
        /\ prog'.slept = 0
    BY <2>1, <2>2 DEF Programs, Place
  <2>4. ControlOK'
    BY <1>1, <2>2, <2>3, MovesTo DEF TurnsAt, Place
  <2> QED BY <1>2, <2>4
<1>5. CASE SleepOrSkip
  <2>1. prog.at = "spoken" /\ prog' \in {[prog EXCEPT !.at = "sleep"],
                                         [prog EXCEPT !.at = "end", !.exit = 0]}
    BY <1>5 DEF SleepOrSkip
  <2>2. prog \in Programs /\ prog.turn = 2 /\ prog.slept = 0
    BY <2>1 DEF ControlOK, TurnsAt
  <2>3. prog' = [prog EXCEPT !.at = "sleep"] =>
          /\ prog' \in Programs /\ prog'.at = "sleep" /\ prog'.turn = prog.turn /\ prog'.slept = 0
          /\ prog'.ttl = None
    BY <2>1, <2>2 DEF Programs, Place, ControlOK, ShownOK
  <2>4. prog' = [prog EXCEPT !.at = "end", !.exit = 0] =>
          prog' \in Programs /\ prog'.at = "end" /\ prog'.turn = prog.turn /\ prog'.slept = 0
    BY <2>2 DEF Programs, Place
  <2>5. ControlOK'
    BY <1>1, <2>1, <2>2, <2>3, <2>4, MovesTo DEF TurnsAt, Place
  <2> QED BY <1>2, <2>5
<1>6. CASE WakeUp
  <2>1. prog.at = "sleep" /\ prog' = [prog EXCEPT !.at = "probe", !.slept = 0]
    BY <1>6 DEF WakeUp
  <2>2. 0 \in 0 .. Ttl
    BY TtlAssumption
  <2>3. prog \in Programs /\ prog.turn = 2
    BY <2>1 DEF ControlOK, TurnsAt
  <2>4. prog' \in Programs /\ prog'.at = "probe" /\ prog'.turn = prog.turn /\ prog'.slept = 0
        /\ prog'.ttl = None
    BY <2>1, <2>2, <2>3 DEF Programs, Place, ControlOK, ShownOK
  <2>5. ControlOK'
    BY <1>1, <2>3, <2>4, MovesTo DEF TurnsAt, Place
  <2> QED BY <1>2, <2>5
<1>7. CASE (ThirdTurn /\ prog.tuple) \/ Finish
  <2>1. PICK exit \in {0, 1} : /\ prog.turn \in {2, 3} /\ prog.slept = 0
                               /\ prog' = [prog EXCEPT !.at = "end", !.exit = exit]
    BY <1>7 DEF ThirdTurn, Finish, ControlOK, TurnsAt
  <2>2. ControlOK'
    <3>1. prog \in Programs
      BY DEF ControlOK
    <3>2. prog' \in Programs /\ prog'.at = "end" /\ prog'.turn = prog.turn /\ prog'.slept = 0
      BY <2>1, <3>1 DEF Programs, Place
    <3> QED BY <1>1, <2>1, <3>2, MovesTo DEF TurnsAt, Place
  <2> QED BY <1>2, <2>2
<1> QED BY <1>3, <1>4, <1>5, <1>6, <1>7

\* The steps of the saver, of the other clients, and of time.
LEMMA WorldControl ==
  ASSUME TypeOK, ControlOK, AskedOK,
         (\E p \in Proc : SaverStep(p)) \/ Others \/ TimePasses
  PROVE  Next /\ ControlOK' /\ AskedOK'
<1>1. Next
  BY DEF SaverStep, Others, TimePasses, Next, Step
<1>2. AskedOK' \/ (call'[me].pc # "idle" /\ prog'.at # prog.at)
  <2>1. ASSUME NEW p \in Proc, SaverStep(p) PROVE AskedOK'
    <3>1. Step(p) /\ ~Return(p) /\ call[p].pc # "idle" /\ prog' = prog
      BY <2>1, SaverStepIsStep DEF SaverStep, progVars
    <3>2. p = me => call'[me].req = call[me].req
      BY <3>1, StepProgress DEF Progress
    <3>3. p # me => call'[me] = call[me]
      BY <3>1, OthersStay, TypeHalves, ProgramAssumption
    <3> QED BY <3>1, <3>2, <3>3 DEF AskedOK
  <2>2. CASE Others
    <3>1. PICK p \in Proc \ {me} : (\E r \in Calls[p] : Begin(p, r)) \/ Return(p)
      BY <2>2 DEF Others
    <3>2. call'[me] = call[me]
      BY <3>1, OthersStay, TypeHalves, ProgramAssumption DEF Step
    <3> QED BY <2>2, <3>2 DEF AskedOK, Others, progVars
  <2>3. CASE TimePasses
    BY <2>3 DEF TimePasses, Tick, AskedOK
  <2> QED BY <2>1, <2>2, <2>3
<1>3. ControlOK' /\ prog'.at = prog.at
  <2>1. CASE prog' = prog /\ kept' = kept
    BY <2>1 DEF ControlOK, ShownOK
  <2>2. CASE /\ prog.at = "sleep" /\ prog.slept < Ttl /\ kept' = kept
             /\ prog' = [prog EXCEPT !.slept = @ + 1]
    <3>1. prog.slept + 1 \in 0 .. Ttl
      BY <2>2, TurnIsCount, TtlAssumption
    <3> QED BY <2>2, <3>1 DEF ControlOK, ShownOK, Programs
  <2> QED BY <2>1, <2>2 DEF SaverStep, Others, TimePasses, progVars
<1> QED BY <1>1, <1>2, <1>3

LEMMA ControlStep ==
  TypeOK /\ ControlOK /\ AskedOK /\ [ChatNext]_allVars => [Next]_vars /\ ControlOK' /\ AskedOK'
<1> SUFFICES ASSUME TypeOK, ControlOK, AskedOK, [ChatNext]_allVars
             PROVE  [Next]_vars /\ ControlOK' /\ AskedOK'
  OBVIOUS
<1>1. CASE UNCHANGED allVars
  BY <1>1 DEF allVars, vars, ControlOK, ShownOK, AskedOK
<1>2. CASE DeleteThread(THREAD_ID)
  BY <1>2, AskOK, DeleteOfThread, ChatAssumption DEF DeleteThread, Asking
<1>3. CASE AskTtl \/ AskProbe
  BY <1>3, AskOK, GetOfConfig, ChatConfigNames DEF AskTtl, AskProbe, Asking
<1> QED BY <1>1, <1>2, <1>3, InvocationControl, AnswerControl, LocalControl, WorldControl DEF ChatNext

LEMMA ControlInit == ChatInit => Init /\ TypeOK /\ ControlOK /\ AskedOK
<1> SUFFICES ASSUME ChatInit PROVE Init /\ TypeOK /\ ControlOK /\ AskedOK
  OBVIOUS
<1>1. Init /\ prog = Start /\ kept = [i \in Id |-> Blank]
  BY DEF ChatInit
<1>2. 0 \in 0 .. Ttl /\ <<>> \in Seq(Nat)
  BY TtlAssumption
<1>3. ControlOK
  BY <1>1, <1>2 DEF Start, ControlOK, ShownOK, Programs, Place, TurnsAt, Count
<1>4. call[me].pc = "idle"
  BY <1>1, ProgramAssumption DEF Init, NoCall
<1> QED BY <1>1, <1>3, <1>4, InitType DEF AskedOK

(* The program is a caller of the saver: what is proved of any callers     *)
(* holds for it and the other clients.                                     *)
THEOREM ChatUsesSaver == ChatSpec => Spec
<1>1. TypeOK /\ ControlOK /\ AskedOK /\ [ChatNext]_allVars =>
        [Next]_vars /\ TypeOK' /\ ControlOK' /\ AskedOK'
  BY ControlStep, NextType
<1> QED BY <1>1, ControlInit, PTL DEF ChatSpec, Spec

-----------------------------------------------------------------------------
(* What is stored meanwhile.                                               *)

ChatPointer == LatestKey(THREAD_ID, RootNs)

\* The program begins with nothing, and wakes up to nothing.
Emptied(at, turn) ==
  \/ at \in {"clean", "probe"}
  \/ at = "load" /\ turn # 2
  \/ at \in {"ttl", "raw", "shown"} /\ turn = 2

\* After the first turn the pointer names its last checkpoint.
Spoken(at, turn) ==
  \/ at \in {"ttl", "raw", "shown"} /\ turn = 1
  \/ at = "load" /\ turn = 2

\* The checkpoints that a load or the probe may come across.
Loadable(at, turn) == IF Spoken(at, turn) THEN {i \in Id : kept[i] = 2} ELSE {}

SavingOK ==
  /\ \E n \in {0, 2} : prog.todo \in TodoFrom(n) /\ (prog.turn # 2 => n = 0)
  /\ call[me].pc # "idle" => kept[call[me].req.id] = Head(prog.todo)
  /\ call[me].pc = "done" /\ Stored(ChatPointer) => db[ChatPointer].id = call[me].req.id

OutcomeOK ==
  /\ prog.at \in {"ttl", "raw", "shown"} /\ prog.turn = 2 => prog.tuple = FALSE
  /\ ChatSucceeds
  /\ TurnsAreWholeOrFresh

SessionOK ==
  /\ Emptied(prog.at, prog.turn) => NothingStored
  /\ prog.at \in {"load", "probe"} => Sees(call[me], Loadable(prog.at, prog.turn))
  /\ Spoken(prog.at, prog.turn) /\ Stored(ChatPointer) => kept[db[ChatPointer].id] = 2
  /\ prog.at = "save" => SavingOK
  /\ prog.at = "sleep" => \A k \in Key : Stored(k) => db[k].left <= Ttl - prog.slept
  /\ OutcomeOK

\* What the saver's theorems and the program's control give.
Grounds ==
  /\ TypeOK /\ ControlOK /\ AskedOK /\ Menu
  /\ \A p \in Proc : call[p].pc # "touch"
  /\ call[me].pc = "idle" => call[me] = NoCall

LEMMA PointerIsKey == ChatPointer \in Key /\ ChatPointer.set = "meta"
BY KeyTypes, ChatAssumption, ConfigAssumption DEF ChatPointer

LEMMA NothingTouched == ~Refresh
BY LifetimeAssumption DEF Refresh

\* The other clients only read.
LEMMA WhoWrites ==
  ASSUME Grounds, NEW p \in Proc
  PROVE  /\ call[p].pc \in Writing => p = me /\ prog.at = "save"
         /\ call[p].pc = "remove" => p = me /\ prog.at = "clean"
<1>1. /\ call[p].pc \in {"put_cp", "put_latest"} => call[p].req \in PutReq
      /\ call[p].pc = "operate" => call[p].req \in WritesReq
      /\ call[p].pc = "remove" => call[p].req \in DeleteReq
  BY DEF Grounds, TypeOK, InMethod
<1>2. CASE p # me
  <2>1. call[p].pc # "idle" => call[p].req \in GetReq \cup ListReq
    BY <1>2, OthersAssumption DEF Grounds, Menu
  <2> QED BY <1>1, <2>1 DEF Writing, PutReq, WritesReq, DeleteReq, GetReq, ListReq
<1>3. CASE p = me
  <2>1. call[me].pc # "idle" => Asking(prog.at, call[me].req)
    BY DEF Grounds, AskedOK
  <2>2. GetRequest(ChatConfig) \in GetReq
    BY GetOfConfig, ChatConfigNames
  <2> QED BY <1>1, <1>3, <2>1, <2>2 DEF Asking, Writing, PutReq, WritesReq, DeleteReq, GetReq
<1> QED BY <1>2, <1>3

LEMMA ReadsLeave ==
  ASSUME Grounds, [Next]_vars, prog.at # "save" \/ call[me].pc \notin Writing,
         NEW k \in Key, Stored(k)'
  PROVE  Stored(k) /\ (k.set = "meta" => db'[k].id = db[k].id)
BY WhoWrites, NothingComes DEF Grounds

\* Nothing comes but by the program's own hand.
LEMMA NothingStays ==
  ASSUME Grounds, [Next]_vars, prog.at # "save", NothingStored
  PROVE  NothingStored'
BY ReadsLeave DEF NothingStored

\* A load comes across the last checkpoint of the first turn, or nothing.
LEMMA LoadSees ==
  ASSUME Grounds, SessionOK, prog.at \in {"load", "probe"}, Working(me), Step(me)
  PROVE  Sees(call'[me], Loadable(prog.at, prog.turn))
<1> DEFINE S == Loadable(prog.at, prog.turn)
<1>1. Sees(call[me], S)
  BY DEF SessionOK
<1>2. call[me].req = GetRequest(ChatConfig) /\ ~Return(me)
  BY SaverStepIsStep, ProgramAssumption DEF Grounds, AskedOK, Asking
<1>3. /\ call[me].req \in GetReq
      /\ LatestKey(call[me].req.t, call[me].req.ns) = ChatPointer
  BY <1>2, GetOfConfig, ChatConfigNames DEF GetRequest, ChatPointer
<1>4. Stored(ChatPointer) => db[ChatPointer].id \in S
  <2> SUFFICES ASSUME Stored(ChatPointer) PROVE db[ChatPointer].id \in S
    OBVIOUS
  <2>1. ~Emptied(prog.at, prog.turn)
    BY PointerIsKey DEF SessionOK, NothingStored
  <2>2. Spoken(prog.at, prog.turn)
    BY <2>1 DEF Emptied, Spoken
  <2>3. db[ChatPointer].id \in Id
    BY PointerIsKey DEF Grounds, TypeOK, Stored, Record
  <2> QED BY <2>2, <2>3 DEF SessionOK, Loadable
<1> HIDE DEF S
<1> QED BY <1>1, <1>2, <1>3, <1>4, GetSees, ProgramAssumption DEF Grounds, S

\* A put that returns has set the pointer; then only the lifetime can take it.
LEMMA WorldSaving ==
  ASSUME Grounds, [Next]_vars, prog.at = "save", SavingOK, prog' = prog, kept' = kept,
         call'[me] = call[me] \/ (Working(me) /\ Step(me))
  PROVE  SavingOK'
<1> USE ProgramAssumption
<1>1. CASE call'[me] = call[me]
  <2>1. call[me].pc = "done" /\ Stored(ChatPointer)' =>
          Stored(ChatPointer) /\ db'[ChatPointer].id = db[ChatPointer].id
    BY PointerIsKey, ReadsLeave DEF Writing
  <2> QED BY <1>1, <2>1 DEF SavingOK
<1>2. CASE Working(me) /\ Step(me)
  <2>1. Progress(me) /\ call[me].pc # "idle" /\ ~Return(me)
    BY <1>2, SaverStepIsStep, StepProgress DEF Grounds
  <2>2. /\ call[me].req \in PutReq /\ call[me].req.id \in Id
        /\ LatestKey(call[me].req.t, call[me].req.ns) = ChatPointer
    BY <2>1 DEF Grounds, AskedOK, Asking, ChatPointer
  <2>3. ASSUME call'[me].pc = "done" PROVE db'[ChatPointer].id = call[me].req.id
    <3>1. call[me].pc = "put_latest"
      BY <2>1, <2>2, <2>3 DEF Progress, PutReq, GetReq, ListReq, DeleteReq, Grounds, TypeOK,
         InMethod, WritesReq
    <3>2. PutLatest(me)
      <4>1. ~Fail(me)
        BY <2>3, FailShape, TypeHalves DEF Grounds
      <4> QED BY <1>2, <3>1, <4>1 DEF Step, At, PutCheckpoint, OperateWrites, GetLatest,
                 GetCheckpoint, TouchLatest, GetWrites, Query, Scan, RemoveRecord, Return
    <3>3. PICK r : r = call[me].req
      OBVIOUS
    <3>4. db' = [db EXCEPT ![ChatPointer] = [thread |-> r.t, id |-> r.id, left |-> Ttl]]
      BY <2>2, <3>2, <3>3 DEF PutLatest
    <3> QED BY <3>3, <3>4, PointerIsKey DEF Grounds, TypeOK
  <2>4. call'[me].req = call[me].req /\ call[me].pc # "idle"
    BY <2>1 DEF Progress
  <2> QED BY <2>3, <2>4 DEF SavingOK
<1> QED BY <1>1, <1>2

\* While the program sleeps lifetimes run down as it counts.
LEMMA WorldSleeping ==
  ASSUME Grounds, SessionOK, prog.at = "sleep",
         (\E p \in Proc : SaverStep(p)) \/ Others \/ TimePasses,
         NEW k \in Key, Stored(k)'
  PROVE  db'[k].left <= Ttl - prog'.slept
<1>1. CASE (\E p \in Proc : SaverStep(p)) \/ Others
  <2>1. PICK p \in Proc : Step(p) \/ \E r \in Calls[p] : Begin(p, r)
    BY <1>1 DEF SaverStep, Others, Step
  <2>2. call[p].pc \notin Writing \cup {"touch", "remove"}
    BY WhoWrites DEF Grounds
  <2>3. db' = db
    BY <2>1, <2>2, NothingSlides, NothingTouched DEF Grounds
  <2>4. prog' = prog
    BY <1>1 DEF SaverStep, Others, progVars
  <2> QED BY <2>3, <2>4 DEF SessionOK, Stored
<1>2. CASE TimePasses
  <2>1. db'[k] = Age(db[k]) /\ Stored(k)
    BY <1>2 DEF TimePasses, Tick, Age, Stored
  <2>2. db'[k] = [db[k] EXCEPT !.left = @ - 1]
    BY <2>1 DEF Age, Stored
  <2>3. k.set \in {"cp", "writes", "meta"} /\ db[k] \in Record(k.set)
    BY <2>1 DEF Grounds, TypeOK, Stored, Key
  <2>4. db[k].left \in 1 .. Ttl
    BY <2>3, LeftIsNat, LifetimeAssumption, TtlAssumption
  <2>5. db'[k].left = db[k].left - 1
    BY <2>2, <2>3 DEF Record
  <2>6. prog.slept \in 0 .. Ttl /\ db[k].left <= Ttl - prog.slept
    BY <2>1, TurnIsCount DEF Grounds, SessionOK
  <2>7. prog.slept < Ttl
    BY <2>4, <2>6, TtlAssumption
  <2>8. prog'.slept = prog.slept + 1
    BY <1>2, <2>7 DEF TimePasses, Grounds, ControlOK, Programs
  <2> QED BY <2>4, <2>5, <2>6, <2>8, TtlAssumption
<1> QED BY <1>1, <1>2

LEMMA WorldProgram ==
  ASSUME Grounds, (\E p \in Proc : SaverStep(p)) \/ Others \/ TimePasses
  PROVE  /\ kept' = kept /\ prog'.at = prog.at /\ prog'.turn = prog.turn
         /\ prog'.tuple = prog.tuple /\ prog'.exit = prog.exit /\ prog'.state = prog.state
         /\ prog'.ttl = prog.ttl
         /\ prog.at # "sleep" => prog' = prog
         /\ call'[me] = call[me] \/ (Working(me) /\ Step(me))
<1>1. CASE TimePasses
  <2>1. CASE prog' = prog
    BY <1>1, <2>1 DEF TimePasses, Tick
  <2>2. CASE prog.at = "sleep" /\ prog' = [prog EXCEPT !.slept = @ + 1]
    BY <1>1, <2>2 DEF TimePasses, Tick, Grounds, ControlOK, Programs
  <2> QED BY <1>1, <2>1, <2>2 DEF TimePasses
<1>2. ASSUME NEW p \in Proc, p # me, Step(p) \/ \E r \in Calls[p] : Begin(p, r)
      PROVE  call'[me] = call[me]
  BY <1>2, OthersStay, TypeHalves, ProgramAssumption DEF Grounds
<1>3. CASE \E p \in Proc : SaverStep(p)
  BY <1>2, <1>3 DEF SaverStep, progVars
<1>4. CASE Others
  <2>1. PICK p \in Proc \ {me} : (\E r \in Calls[p] : Begin(p, r)) \/ Return(p)
    BY <1>4 DEF Others
  <2> QED BY <1>2, <1>4, <2>1 DEF Others, progVars, Step
<1> QED BY <1>1, <1>3, <1>4

LEMMA WorldSession ==
  ASSUME Grounds, SessionOK, (\E p \in Proc : SaverStep(p)) \/ Others \/ TimePasses
  PROVE  SessionOK'
<1>1. [Next]_vars
  BY WorldControl DEF Grounds
<1>2. PICK at, turn : at = prog.at /\ turn = prog.turn /\ at = prog'.at /\ turn = prog'.turn
  BY WorldProgram
<1>3. Emptied(at, turn) => NothingStored'
  BY <1>1, <1>2, NothingStays DEF Emptied, SessionOK
<1>4. at \in {"load", "probe"} => Sees(call'[me], Loadable(at, turn)')
  <2>1. Loadable(at, turn)' = Loadable(at, turn)
    BY WorldProgram DEF Loadable
  <2> QED BY <1>2, <2>1, LoadSees, WorldProgram DEF SessionOK
<1>5. Spoken(at, turn) /\ Stored(ChatPointer)' => kept'[db'[ChatPointer].id] = 2
  <2>1. Spoken(at, turn) => at # "save"
    BY DEF Spoken
  <2> QED BY <1>1, <1>2, <2>1, ReadsLeave, PointerIsKey, WorldProgram DEF SessionOK
<1>6. at = "save" => SavingOK'
  BY <1>1, <1>2, WorldSaving, WorldProgram DEF SessionOK
<1>7. at = "sleep" => \A k \in Key : Stored(k)' => db'[k].left <= Ttl - prog'.slept
  BY <1>2, WorldSleeping
<1>8. OutcomeOK'
  BY WorldProgram DEF SessionOK, OutcomeOK, ChatSucceeds, TurnsAreWholeOrFresh
<1>9. ChatPointer' = ChatPointer
  BY DEF ChatPointer, LatestKey
<1> QED BY <1>2, <1>3, <1>4, <1>5, <1>6, <1>7, <1>8, <1>9 DEF SessionOK, Stored

-----------------------------------------------------------------------------
(* What the program asks.                                                  *)

LEMMA AskSession ==
  ASSUME Grounds, SessionOK, NEW r, Begin(me, r), prog' = prog, kept' = kept,
         Asking(prog.at, r), prog.at # "save"
  PROVE  SessionOK'
<1>1. db' = db /\ call'[me].out = <<>> /\ call'[me].pc = FirstPc(r)
  BY BeginShape, ProgramAssumption DEF Grounds
<1>2. prog.at \in {"load", "probe"} => FirstPc(r) = "get_latest"
  <2>1. GetRequest(ChatConfig).op = "get" /\ GetRequest(ChatConfig).id = NoId
    BY ChatConfigNames DEF GetRequest
  <2> QED BY <2>1 DEF Asking, FirstPc
<1>3. prog.at \in {"load", "probe"} => Sees(call'[me], Loadable(prog.at, prog.turn))
  BY <1>1, <1>2 DEF Sees, Reading
<1>4. prog.at # "sleep"
  BY DEF Asking
<1> QED BY <1>1, <1>3, <1>4 DEF SessionOK, NothingStored, Stored, Loadable, ChatPointer, LatestKey,
           OutcomeOK, ChatSucceeds, TurnsAreWholeOrFresh

LEMMA SaveSession ==
  ASSUME Grounds, SessionOK, SaveCheckpoint
  PROVE  SessionOK'
<1>1. PICK r \in Calls[me] : /\ Begin(me, r) /\ Asking("save", r)
                             /\ prog.at = "save" /\ prog' = prog /\ r.id = NewId
  BY SavedRequest DEF Grounds
<1>2. call'[me].req = r /\ call'[me].pc = FirstPc(r)
  BY <1>1, BeginShape, ProgramAssumption DEF Grounds
<1>3. r.id \in Id /\ r \in PutReq
  BY <1>1 DEF Asking
<1>4. FirstPc(r) = "put_cp"
  BY <1>3, NoIdAssumption DEF FirstPc, PutReq
<1>5. kept'[r.id] = Head(prog.todo)
  BY <1>1, <1>3 DEF SaveCheckpoint
<1>6. SavingOK'
  BY <1>1, <1>2, <1>4, <1>5 DEF SessionOK, SavingOK
<1>7. ~Emptied(prog.at, prog.turn) /\ ~Spoken(prog.at, prog.turn)
  BY <1>1 DEF Emptied, Spoken
<1> QED BY <1>1, <1>6, <1>7 DEF SessionOK, OutcomeOK, ChatSucceeds, TurnsAreWholeOrFresh

-----------------------------------------------------------------------------
(* What it does with an answer.                                            *)

\* At an answer, and in steps of its own, the program forgets the call.
LEMMA Settled ==
  ASSUME Grounds, Return(me) \/ (UNCHANGED vars /\ ~\E r : Asking(prog.at, r))
  PROVE  db' = db /\ call'[me] = NoCall
<1>1. CASE Return(me)
  BY <1>1, ReturnShape, ProgramAssumption DEF Grounds
<1>2. CASE UNCHANGED vars /\ ~\E r : Asking(prog.at, r)
  BY <1>2 DEF Grounds, AskedOK, vars
<1> QED BY <1>1, <1>2

LEMMA MoveSession ==
  ASSUME Grounds, SessionOK, db' = db, call'[me] = NoCall, kept' = kept,
         NEW at, NEW turn, at = prog'.at, turn = prog'.turn, at \notin {"save", "sleep"},
         Emptied(at, turn) => NothingStored,
         Spoken(at, turn) => Spoken(prog.at, prog.turn),
         OutcomeOK'
  PROVE  SessionOK'
<1>1. \A S : Sees(NoCall, S)
  BY DEF Sees, NoCall, Reading
<1> QED BY <1>1 DEF SessionOK, NothingStored, Stored, ChatPointer, LatestKey

\* With nothing to come across there is no tuple.
LEMMA NoTuples ==
  ASSUME Grounds, Sees(call[me], {})
  PROVE  Tuples = <<>>
<1>1. call[me].out \in Seq(Tuple)
  BY ProgramAssumption DEF Grounds, TypeOK, CallState
<1>2. DOMAIN call[me].out = {}
  BY DEF Sees
<1>3. \A out \in Seq(Tuple) : DOMAIN out = {} => out = <<>>
  <2> SUFFICES ASSUME NEW out \in Seq(Tuple), DOMAIN out = {} PROVE out = <<>>
    OBVIOUS
  <2>1. Len(out) \in Nat /\ 1 \notin DOMAIN out /\ DOMAIN out = 1 .. Len(out)
    OBVIOUS
  <2>2. Len(out) = 0
    BY <2>1
  <2> QED BY <2>2
<1> QED BY <1>1, <1>2, <1>3 DEF Tuples

\* What a load has come across.
LEMMA LoadedValues ==
  ASSUME Grounds, SessionOK, prog.at = "load"
  PROVE  Values = Blank \/ (prog.turn = 2 /\ Values = 2)
<1>1. CASE prog.turn # 2
  <2>1. Loadable(prog.at, prog.turn) = {}
    BY <1>1 DEF Loadable, Spoken
  <2> QED BY <2>1, NoTuples DEF SessionOK, Values
<1>2. CASE prog.turn = 2 /\ Tuples # <<>>
  <2>1. Sees(call[me], Loadable(prog.at, prog.turn))
    BY DEF SessionOK
  <2>2. 1 \in DOMAIN Tuples
    <3>1. Tuples \in Seq(Tuple)
      BY ProgramAssumption DEF Grounds, TypeOK, CallState, Tuples
    <3> QED BY <1>2, <3>1
  <2>3. kept[Tuples[1].id] = 2
    BY <1>2, <2>1, <2>2 DEF Sees, Loadable, Tuples, Spoken
  <2> QED BY <1>2, <2>3 DEF Values
<1> QED BY <1>1, <1>2 DEF Values

\* A turn goes on from the first turn's last checkpoint, or from nothing.
LEMMA BeginSession ==
  ASSUME Grounds, SessionOK, BeginTurn(ChatTurns(Values, prog.input))
  PROVE  SessionOK'
<1>1. PICK turn \in ChatTurns(Values, prog.input) : \E last :
        prog' = [prog EXCEPT !.at = "save", !.todo = turn, !.last = last]
  BY DEF BeginTurn
<1>2. prog.at = "load" /\ Return(me) /\ kept' = kept
  BY DEF BeginTurn, Answered
<1>3. PICK n \in Nat : turn = <<n, n + 1, n + 2>> /\ n = IF Values = Blank THEN 0 ELSE Values
  BY AnswerTypes, TurnsOfChat DEF Grounds
<1>4. n \in {0, 2} /\ (prog.turn # 2 => n = 0) /\ turn \in TodoFrom(n)
  BY <1>2, <1>3, LoadedValues DEF TodoFrom
<1>5. db' = db /\ call'[me] = NoCall
  BY <1>2, Settled
<1>6. prog'.at = "save" /\ prog'.todo = turn /\ prog'.turn = prog.turn
  BY <1>1 DEF Grounds, ControlOK, Programs
<1>7. NoCall.pc = "idle"
  BY DEF NoCall
<1>8. SavingOK'
  BY <1>4, <1>5, <1>6, <1>7 DEF SavingOK
<1> QED BY <1>6, <1>8 DEF SessionOK, Emptied, Spoken, OutcomeOK, ChatSucceeds, TurnsAreWholeOrFresh

\* The last save of a turn sets what the next one, or nobody, will load.
LEMMA SavedSession ==
  ASSUME Grounds, SessionOK, CheckpointSaved
  PROVE  SessionOK'
<1>1. prog.at = "save" /\ At(me, "done") /\ Return(me) /\ kept' = kept
  BY DEF CheckpointSaved, Answered
<1>2. db' = db /\ call'[me] = NoCall
  BY <1>1, Settled
<1>3. PICK n \in {0, 2} : prog.todo \in TodoFrom(n) /\ (prog.turn # 2 => n = 0)
  BY <1>1 DEF SessionOK, SavingOK
<1>4. PICK at : /\ at = IF Len(prog.todo) = 1 THEN prog.back ELSE "save"
                /\ prog' = [prog EXCEPT !.last = call[me].req.id, !.todo = Tail(@),
                               !.state = Head(prog.todo), !.at = at]
  BY DEF CheckpointSaved
<1>5. /\ prog'.at = at /\ prog'.todo = Tail(prog.todo) /\ prog'.state = Head(prog.todo)
      /\ prog'.turn = prog.turn
  BY <1>4 DEF Grounds, ControlOK, Programs
<1>6. CASE Len(prog.todo) # 1
  <2>1. Tail(prog.todo) \in TodoFrom(n) /\ at = "save"
    BY <1>3, <1>4, <1>6, TodoTypes
  <2>2. NoCall.pc = "idle"
    BY DEF NoCall
  <2>3. SavingOK'
    BY <1>2, <1>3, <1>5, <2>1, <2>2 DEF SavingOK
  <2> QED BY <1>5, <2>1, <2>3 DEF SessionOK, Emptied, Spoken, OutcomeOK, ChatSucceeds, TurnsAreWholeOrFresh
<1>7. CASE Len(prog.todo) = 1
  <2>1. Head(prog.todo) = n + 2 /\ at = prog.back
    BY <1>3, <1>4, <1>7, TodoTypes
  <2>2. prog.turn \in 1 .. 3 /\ prog.back = <<"ttl", "spoken", "fresh">>[prog.turn]
    BY <1>1 DEF Grounds, ControlOK, TurnsAt
  <2>3. Stored(ChatPointer) => kept[db[ChatPointer].id] = n + 2
    BY <1>1, <2>1 DEF SessionOK, SavingOK, At
  <2>4. \A S : Sees(NoCall, S)
    BY DEF Sees, NoCall, Reading
  <2>5. CASE prog.turn = 1
    <3>1. prog'.at = "ttl" /\ prog'.turn = 1 /\ n = 0
      BY <1>3, <1>5, <2>1, <2>2, <2>5
    <3>2. Stored(ChatPointer)' => kept'[db'[ChatPointer].id] = 2
      BY <1>1, <1>2, <2>3, <3>1 DEF Stored, ChatPointer, LatestKey
    <3> QED BY <3>1, <3>2 DEF SessionOK, Emptied, Spoken, OutcomeOK, ChatSucceeds,
               TurnsAreWholeOrFresh, ChatPointer, LatestKey
  <2>6. CASE prog.turn # 1
    <3>1. prog'.at = (IF prog.turn = 2 THEN "spoken" ELSE "fresh") /\ prog'.turn = prog.turn
      BY <1>5, <2>1, <2>2, <2>6
    <3>2. prog'.state \in {2, 4} /\ (prog.turn # 2 => prog'.state = 2)
      BY <1>3, <1>5, <2>1
    <3> QED BY <3>1, <3>2, <2>2 DEF SessionOK, Emptied, Spoken, OutcomeOK, ChatSucceeds,
               TurnsAreWholeOrFresh
  <2> QED BY <2>5, <2>6
<1> QED BY <1>6, <1>7

LEMMA AnswerSession ==
  ASSUME Grounds, SessionOK, FirstTurn \/ TtlTuple \/ Probed
  PROVE  SessionOK'
<1>1. db' = db /\ call'[me] = NoCall /\ kept' = kept
  BY Settled DEF FirstTurn, TtlTuple, Probed, Answered
<1>2. CASE FirstTurn
  <2>1. prog.at = "clean" /\ prog.turn = 0 /\ prog' = SayNext("ttl")
    BY <1>2 DEF FirstTurn, Answered, Grounds, ControlOK, TurnsAt
  <2>2. prog'.at = "load" /\ prog'.turn = 1
    BY <2>1, SayNextFields DEF Grounds, Place
  <2>3. Emptied(prog.at, prog.turn)
    BY <2>1 DEF Emptied
  <2>4. OutcomeOK'
    BY <2>2 DEF OutcomeOK, ChatSucceeds, TurnsAreWholeOrFresh
  <2>5. Emptied(prog'.at, prog'.turn) => NothingStored
    BY <2>3 DEF SessionOK
  <2>6. ~Spoken(prog'.at, prog'.turn)
    BY <2>2 DEF Spoken
  <2> QED BY <1>1, <2>2, <2>4, <2>5, <2>6, MoveSession
<1>3. CASE TtlTuple
  <2>1. prog.at = "ttl" /\ \/ prog' = [prog EXCEPT !.at = "shown"]
                            \/ prog' = [prog EXCEPT !.at = "raw", !.key = Tuples[1].id]
    BY <1>3 DEF TtlTuple, Answered
  <2>2. /\ prog'.at \in {"shown", "raw"} /\ prog'.turn = prog.turn /\ prog'.tuple = prog.tuple
        /\ prog'.ttl = None
    BY <2>1 DEF Grounds, ControlOK, ShownOK, Programs
  <2>3. OutcomeOK'
    BY <2>1, <2>2 DEF SessionOK, OutcomeOK, ChatSucceeds, TurnsAreWholeOrFresh
  <2> QED BY <1>1, <2>1, <2>2, <2>3, MoveSession DEF SessionOK, Emptied, Spoken
<1>4. CASE Probed
  <2>1. prog.at = "probe" /\ prog' = [prog EXCEPT !.at = "ttl", !.tuple = Tuples # <<>>]
    BY <1>4 DEF Probed, Answered
  <2>2. prog.turn = 2
    BY <2>1 DEF Grounds, ControlOK, TurnsAt
  <2>3. Loadable(prog.at, prog.turn) = {}
    BY <2>1 DEF Loadable, Spoken
  <2>4. Tuples = <<>>
    BY <2>1, <2>3, NoTuples DEF SessionOK
  <2>5. prog' = [prog EXCEPT !.at = "ttl", !.tuple = FALSE]
    BY <2>1, <2>4
  <2>6. prog'.at = "ttl" /\ prog'.turn = 2 /\ prog'.tuple = FALSE
    BY <2>2, <2>5 DEF Grounds, ControlOK, Programs
  <2>7. Emptied(prog.at, prog.turn)
    BY <2>1 DEF Emptied
  <2>8. OutcomeOK'
    BY <2>6 DEF OutcomeOK, ChatSucceeds, TurnsAreWholeOrFresh
  <2> QED BY <1>1, <2>6, <2>7, <2>8, MoveSession DEF SessionOK, Spoken
<1> QED BY <1>2, <1>3, <1>4

LEMMA LocalSession ==
  ASSUME Grounds, SessionOK,
         RawRead \/ SecondTurn \/ SleepOrSkip \/ WakeUp \/ ThirdTurn \/ Finish
  PROVE  SessionOK'
<1>1. /\ UNCHANGED vars /\ kept' = kept
      /\ prog.at \in {"raw", "shown", "spoken", "sleep", "fresh"}
  BY DEF RawRead, SecondTurn, SleepOrSkip, WakeUp, ThirdTurn, Finish
<1>2. db' = db /\ call'[me] = NoCall
  BY <1>1, Settled DEF Asking
<1>3. CASE RawRead
  <2>1. PICK ttl \in Nat \cup {None} :
          /\ prog.at = "raw" /\ prog' = [prog EXCEPT !.at = "shown", !.key = NoId, !.ttl = ttl]
          /\ NothingStored => ttl = None
    BY <1>3, RawReadShape DEF Grounds
  <2>2. /\ prog'.at = "shown" /\ prog'.turn = prog.turn /\ prog'.tuple = prog.tuple
        /\ prog.turn = 2 => prog'.ttl = None
    <3>1. prog.turn = 2 => NothingStored
      BY <2>1 DEF SessionOK, Emptied
    <3> QED BY <2>1, <3>1 DEF Grounds, ControlOK, Programs
  <2>3. OutcomeOK'
    BY <2>1, <2>2 DEF SessionOK, OutcomeOK, ChatSucceeds, TurnsAreWholeOrFresh
  <2> QED BY <1>1, <1>2, <2>1, <2>2, <2>3, MoveSession DEF SessionOK, Emptied, Spoken
<1>4. CASE SecondTurn
  <2>1. prog.at = "shown" /\ prog.turn = 1 /\ prog' = SayNext("spoken")
    BY <1>4 DEF SecondTurn
  <2>2. prog'.at = "load" /\ prog'.turn = 2
    BY <2>1, SayNextFields DEF Grounds, Place
  <2>3. OutcomeOK'
    BY <2>2 DEF OutcomeOK, ChatSucceeds, TurnsAreWholeOrFresh
  <2>4. ~Emptied(prog'.at, prog'.turn) /\ Spoken(prog.at, prog.turn)
    BY <2>1, <2>2 DEF Emptied, Spoken
  <2> QED BY <1>1, <1>2, <2>2, <2>3, <2>4, MoveSession
<1>5. CASE SleepOrSkip
  <2>1. prog.at = "spoken" /\ prog.slept = 0
    BY <1>5 DEF SleepOrSkip, Grounds, ControlOK
  <2>2. CASE prog' = [prog EXCEPT !.at = "sleep"]
    <3>1. prog'.at = "sleep" /\ prog'.slept = 0
      BY <2>1, <2>2 DEF Grounds, ControlOK, Programs
    <3>2. ASSUME NEW k \in Key, Stored(k) PROVE db[k].left <= Ttl - 0
      <4>1. db[k] \in Record(k.set)
        BY <3>2 DEF Grounds, TypeOK, Stored
      <4> QED BY <4>1, LeftIsNat, TtlAssumption
    <3> QED BY <1>2, <3>1, <3>2 DEF SessionOK, Emptied, Spoken, Stored, OutcomeOK, ChatSucceeds,
               TurnsAreWholeOrFresh
  <2>3. CASE prog' = [prog EXCEPT !.at = "end", !.exit = 0]
    <3>1. prog'.at = "end" /\ prog'.exit = 0
      BY <2>3 DEF Grounds, ControlOK, Programs
    <3>2. OutcomeOK'
      BY <3>1 DEF OutcomeOK, ChatSucceeds, TurnsAreWholeOrFresh
    <3>3. ~Emptied(prog'.at, prog'.turn) /\ ~Spoken(prog'.at, prog'.turn)
      BY <3>1 DEF Emptied, Spoken
    <3> QED BY <1>1, <1>2, <3>1, <3>2, <3>3, MoveSession
  <2> QED BY <1>5, <2>2, <2>3 DEF SleepOrSkip
<1>6. CASE WakeUp
  <2>1. prog.at = "sleep" /\ prog' = [prog EXCEPT !.at = "probe", !.slept = 0]
    BY <1>6 DEF WakeUp
  <2>2. prog'.at = "probe"
    BY <2>1 DEF Grounds, ControlOK, Programs
  <2>3. ASSUME NEW k \in Key, Stored(k), prog.slept >= Ttl PROVE FALSE
    <3>1. db[k] \in Record(k.set)
      BY <2>3 DEF Grounds, TypeOK, Stored
    <3>2. db[k].left <= Ttl - prog.slept
      BY <2>1, <2>3 DEF SessionOK
    <3>3. prog.slept \in 0 .. Ttl
      BY TurnIsCount DEF Grounds
    <3> QED BY <2>3, <3>1, <3>2, <3>3, LeftIsNat, LifetimeAssumption, TtlAssumption
  <2>4. NothingStored
    BY <1>6, <2>3 DEF WakeUp, NothingStored
  <2>5. OutcomeOK'
    BY <2>2 DEF OutcomeOK, ChatSucceeds, TurnsAreWholeOrFresh
  <2>6. ~Spoken(prog'.at, prog'.turn)
    BY <2>2 DEF Spoken
  <2> QED BY <1>1, <1>2, <2>2, <2>4, <2>5, <2>6, MoveSession
<1>7. CASE ThirdTurn
  <2>1. prog.at = "shown" /\ prog.turn = 2 /\ ~prog.tuple
    BY <1>7 DEF ThirdTurn, SessionOK, OutcomeOK
  <2>2. prog' = SayNext("fresh")
    BY <1>7, <2>1 DEF ThirdTurn
  <2>3. prog'.at = "load" /\ prog'.turn = 3
    BY <2>1, <2>2, SayNextFields DEF Grounds, Place
  <2>4. OutcomeOK'
    BY <2>3 DEF OutcomeOK, ChatSucceeds, TurnsAreWholeOrFresh
  <2>5. Emptied(prog.at, prog.turn) /\ ~Spoken(prog'.at, prog'.turn)
    BY <2>1, <2>3 DEF Emptied, Spoken
  <2> QED BY <1>1, <1>2, <2>3, <2>4, <2>5, MoveSession DEF SessionOK
<1>8. CASE Finish
  <2>1. prog' = [prog EXCEPT !.at = "end", !.exit = 0]
    BY <1>8 DEF Finish
  <2>2. prog'.at = "end" /\ prog'.exit = 0
    BY <2>1 DEF Grounds, ControlOK, Programs
  <2>3. OutcomeOK'
    BY <2>2 DEF OutcomeOK, ChatSucceeds, TurnsAreWholeOrFresh
  <2>4. ~Emptied(prog'.at, prog'.turn) /\ ~Spoken(prog'.at, prog'.turn)
    BY <2>2 DEF Emptied, Spoken
  <2> QED BY <1>1, <1>2, <2>2, <2>3, <2>4, MoveSession
<1> QED BY <1>3, <1>4, <1>5, <1>6, <1>7, <1>8

LEMMA SessionStep == Grounds /\ SessionOK /\ [ChatNext]_allVars => SessionOK'
<1> SUFFICES ASSUME Grounds, SessionOK, [ChatNext]_allVars
             PROVE  SessionOK'
  OBVIOUS
<1>1. CASE UNCHANGED allVars
  BY <1>1 DEF allVars, SessionOK, NothingStored, Stored, Loadable, SavingOK, ChatPointer, LatestKey,
      OutcomeOK, ChatSucceeds, TurnsAreWholeOrFresh
<1>2. CASE DeleteThread(THREAD_ID) \/ AskTtl \/ AskProbe \/ LoadCheckpoint
  <2>1. PICK at, r : Asks(at, r) /\ Asking(at, r) /\ at # "save"
    <3>1. prog.cfg = ChatConfig
      BY DEF Grounds, ControlOK, Programs
    <3> QED BY <1>2, <3>1 DEF DeleteThread, AskTtl, AskProbe, LoadCheckpoint, Asking
  <2> QED BY <2>1, AskSession DEF Asks, progVars
<1> QED BY <1>1, <1>2, SaveSession, BeginSession, SavedSession, AnswerSession, LocalSession,
           WorldSession DEF ChatNext, Invocation

-----------------------------------------------------------------------------
(* The inductive invariant.                                                *)

LEMMA GroundsStep == Grounds /\ ReadInv' /\ [ChatNext]_allVars => Grounds'
<1> SUFFICES ASSUME Grounds, ReadInv', [ChatNext]_allVars PROVE Grounds'
  OBVIOUS
<1>1. [Next]_vars /\ ControlOK' /\ AskedOK' /\ TypeOK'
  BY ControlStep, NextType DEF Grounds
<1>2. Menu'
  BY <1>1, MenuStep DEF Grounds
<1>3. \A p \in Proc : call'[p].pc # "touch"
  BY <1>1, NobodyTouches, NothingTouched DEF Grounds
<1>4. call'[me].pc = "idle" => call'[me] = NoCall
  BY ProgramAssumption DEF ReadInv
<1> QED BY <1>1, <1>2, <1>3, <1>4 DEF Grounds

LEMMA SessionInit == ChatInit => Grounds /\ SessionOK
<1> SUFFICES ASSUME ChatInit PROVE Grounds /\ SessionOK
  OBVIOUS
<1>1. Init /\ prog = Start
  BY DEF ChatInit
<1>2. \A p \in Proc : call[p] = NoCall /\ call[p].pc = "idle"
  BY <1>1 DEF Init, NoCall
<1>3. Grounds
  BY <1>2, ControlInit, ProgramAssumption DEF Grounds, Menu
<1>4. NothingStored
  BY <1>1 DEF Init, NothingStored, Stored
<1>5. prog.at = "clean" /\ prog.turn = 0
  BY <1>1 DEF Start
<1>6. SessionOK
  BY <1>4, <1>5 DEF SessionOK, Spoken, OutcomeOK, ChatSucceeds, TurnsAreWholeOrFresh
<1> QED BY <1>3, <1>6

LEMMA ChatInvariant == ChatSpec => [](Grounds /\ SessionOK)
<1>1. Grounds /\ SessionOK /\ ReadInv' /\ [ChatNext]_allVars => (Grounds /\ SessionOK)'
  BY GroundsStep, SessionStep
<1> QED BY <1>1, SessionInit, ChatUsesSaver, ReadInvariant, PTL DEF ChatSpec

(* A run that comes to its end exits with 0 (demo.py): after the wait no   *)
(* record of the session is left, whoever else has been reading it.        *)
THEOREM ChatAlwaysSucceeds == ChatSpec => []ChatSucceeds
<1>1. Grounds /\ SessionOK => ChatSucceeds
  BY DEF SessionOK, OutcomeOK
<1> QED BY <1>1, ChatInvariant, PTL

(* Each turn goes on from the whole session or starts afresh (demo.py      *)
(* _say, on AerospikeSaver.put and get_tuple), wherever records expire.    *)
THEOREM TurnsWholeOrFresh == ChatSpec => []TurnsAreWholeOrFresh
<1>1. Grounds /\ SessionOK => TurnsAreWholeOrFresh
  BY DEF SessionOK, OutcomeOK
<1> QED BY <1>1, ChatInvariant, PTL
=============================================================================
