------------------------------ MODULE ForkProofs ------------------------------
(***************************************************************************)
(* The fork demo: however often it failed and was run again, a run that    *)
(* comes to its end has found its history as it left it.                   *)
(***************************************************************************)
EXTENDS ForkDemo, GraphRunsProofs

-----------------------------------------------------------------------------
(* The agent: what the original turn and the corrected one save.           *)

Asked      == Say(NewState, "human", ORIGINAL_REQUEST)
Known      == IdentifyOrder(Asked)
Classified == Classify(Known)
Resolved   == Resolve(Classified)

Story == {NewState, Asked, Known, Classified, Resolved}

\* What a run may have still to save of the original turn.
Chapters == {<<NewState, Asked, Known, Classified, Resolved>>, <<Asked, Known, Classified, Resolved>>,
             <<Known, Classified, Resolved>>, <<Classified, Resolved>>, <<Resolved>>}

\* What the corrected turn ends with.
Corrected == {s \in SupportState : s.order = "ORD-10482" /\ s.resolution = <<"replacement", "ORD-10482">>}

LEMMA ValuesApart ==
  /\ Blank \notin SupportState /\ "ORD-10482" \in OrderId /\ None # "ORD-10482"
  /\ \A i \in Intent : None # i
  /\ \A i \in Intent, o \in OrderId \cup {None} : None # <<i, o>>
<1>1. 1 \in DOMAIN Catalog /\ Catalog[1][2] = "ORD-10482"
  BY DEF Catalog
<1>2. "ORD-10482" \in OrderId
  BY <1>1 DEF OrderId
<1> QED BY <1>2, ValuesAssumption

LEMMA SayType ==
  ASSUME NEW s \in SupportState, NEW who \in {"human", "ai"}, NEW text \in SUBSET Word, NEW t,
         t = Say(s, who, text)
  PROVE  /\ t \in SupportState /\ t.messages = Append(s.messages, [from |-> who, text |-> text])
         /\ t.order = s.order /\ t.intent = s.intent /\ t.resolution = s.resolution
<1>1. Append(s.messages, [from |-> who, text |-> text]) \in Seq(Message)
  BY DEF SupportState, Message
<1>2. t = [s EXCEPT !.messages = Append(@, [from |-> who, text |-> text])]
  BY DEF Say
<1> QED BY <1>1, <1>2 DEF SupportState

LEMMA LatestOfAppended ==
  ASSUME NEW said \in Seq(Message), NEW text \in SUBSET Word
  PROVE  LatestUserText(Append(said, [from |-> "human", text |-> text])) = text
<1> DEFINE last == [from |-> "human", text |-> text]
<1>1. PICK m : m = Append(said, last)
  OBVIOUS
<1>2. PICK n : n = Len(said) + 1
  OBVIOUS
<1>3. last \in Message
  BY DEF Message
<1>4. n \in Nat \ {0} /\ m \in Seq(Message) /\ Len(m) = n /\ DOMAIN m = 1 .. n /\ m[n] = last
  BY <1>1, <1>2, <1>3
<1>5. last.from = "human" /\ last.text = text
  OBVIOUS
<1> HIDE DEF last
<1> DEFINE humans == {i \in DOMAIN m : m[i].from = "human"}
<1>6. n \in humans /\ \A i \in humans : i \in Nat /\ i <= n
  BY <1>4, <1>5
<1>7. (CHOOSE i \in humans : \A j \in humans : j <= i) = n
  <2> HIDE DEF humans
  <2>1. n \in humans /\ \A j \in humans : j <= n
    BY <1>6
  <2>2. ASSUME NEW i \in humans, \A j \in humans : j <= i PROVE i = n
    BY <1>4, <1>6, <2>2
  <2> QED BY <2>1, <2>2
<1>8. LatestUserText(m) = m[n].text
  BY <1>6, <1>7 DEF LatestUserText
<1> QED BY <1>1, <1>4, <1>5, <1>8 DEF last

LEMMA OriginalOrder == LookupOrder(ORIGINAL_REQUEST) = "ORD-10482"
<1> DEFINE hits == {i \in DOMAIN Catalog : Catalog[i][1] \in ORIGINAL_REQUEST}
<1>1. hits = {1}
  BY DEF Catalog, ORIGINAL_REQUEST
<1>2. (CHOOSE i \in hits : \A j \in hits : i <= j) = 1
  BY <1>1
<1>3. Catalog[1][2] = "ORD-10482"
  BY DEF Catalog
<1> QED BY <1>1, <1>2, <1>3 DEF LookupOrder

LEMMA ClassifyType ==
  ASSUME NEW s \in SupportState, NEW t, t = Classify(s)
  PROVE  /\ t \in SupportState /\ t.messages = s.messages /\ t.order = s.order
         /\ t.resolution = s.resolution /\ t.intent = ClassifyIntent(LatestUserText(s.messages))
<1>1. ClassifyIntent(LatestUserText(s.messages)) \in Intent
  BY DEF ClassifyIntent, Intent
<1> QED BY <1>1 DEF Classify, SupportState

LEMMA ResolveType ==
  ASSUME NEW s \in SupportState, NEW t, t = Resolve(s), s.intent \in Intent
  PROVE  t \in SupportState /\ t.order = s.order /\ t.resolution = <<s.intent, s.order>>
<1>1. Route(s) = s.intent
  BY ValuesApart DEF Route
<1>2. PICK pair, told : pair = <<s.intent, s.order>> /\ told = [s EXCEPT !.resolution = pair]
  OBVIOUS
<1>0. pair \in Intent \X (OrderId \cup {None})
  BY <1>2 DEF SupportState
<1>3. /\ told \in SupportState /\ told.order = s.order
      /\ told.resolution = pair
  BY <1>0, <1>2 DEF SupportState
<1>4. PICK text \in SUBSET Word : t = Say(told, "ai", text)
  BY <1>1, <1>2 DEF Resolve, Word
<1>5. t \in SupportState /\ t.order = told.order /\ t.resolution = told.resolution
  BY <1>3, <1>4, SayType, ZenonT(30)
<1> QED BY <1>2, <1>3, <1>5

LEMMA StoryTypes ==
  /\ NewState \in SupportState /\ NewState.order = None
  /\ Asked \in SupportState /\ Asked.order = None
  /\ Known \in SupportState /\ Known.order = "ORD-10482" /\ Known.resolution = None
  /\ Known.intent = None
  /\ Classified \in SupportState /\ Classified.order = "ORD-10482" /\ Classified.resolution = None
  /\ Resolved \in SupportState /\ Resolved.order = "ORD-10482"
  /\ Resolved.resolution = <<"refund", "ORD-10482">>
<1>1. /\ NewState \in SupportState /\ NewState.order = None /\ NewState.resolution = None
      /\ NewState.messages = <<>> /\ NewState.intent = None
  BY DEF NewState, SupportState
<1>2. ORIGINAL_REQUEST \in SUBSET Word
  BY DEF ORIGINAL_REQUEST, Word, Catalog, Intent
<1>3. /\ Asked \in SupportState /\ Asked.order = None /\ Asked.resolution = None
      /\ Asked.intent = None
      /\ Asked.messages = Append(<<>>, [from |-> "human", text |-> ORIGINAL_REQUEST])
  BY <1>1, <1>2, SayType DEF Asked
<1>4. LatestUserText(Asked.messages) = ORIGINAL_REQUEST
  <2>1. <<>> \in Seq(Message)
    OBVIOUS
  <2> QED BY <1>2, <1>3, <2>1, LatestOfAppended
<1>5. Known = [Asked EXCEPT !.order = "ORD-10482"]
  BY <1>3, <1>4, OriginalOrder DEF Known, IdentifyOrder
<1>6. /\ Known \in SupportState /\ Known.order = "ORD-10482" /\ Known.resolution = None
      /\ Known.messages = Asked.messages /\ Known.intent = None
  BY <1>3, <1>5, ValuesApart DEF SupportState
<1>7. ClassifyIntent(ORIGINAL_REQUEST) = "refund"
  BY DEF ClassifyIntent, ORIGINAL_REQUEST
<1>8. /\ Classified \in SupportState /\ Classified.order = "ORD-10482"
      /\ Classified.resolution = None /\ Classified.intent = "refund"
  BY <1>4, <1>6, <1>7, ClassifyType DEF Classified
<1>9. /\ Resolved \in SupportState /\ Resolved.order = "ORD-10482"
      /\ Resolved.resolution = <<"refund", "ORD-10482">>
  <2>1. "refund" \in Intent
    BY DEF Intent
  <2> QED BY <1>8, <2>1, ResolveType DEF Resolved
<1> QED BY <1>1, <1>3, <1>6, <1>8, <1>9

LEMMA Concatenated ==
  ASSUME NEW S, NEW a \in S, NEW b \in S, NEW c \in S, NEW d \in S, NEW e \in S
  PROVE  /\ <<a, b, c>> \o <<d, e>> = <<a, b, c, d, e>>
         /\ <<a, b>> \o <<d, e>> = <<a, b, d, e>>
<1>1. PICK u : u = <<a, b, c>> \o <<d, e>>
  OBVIOUS
<1>2. /\ u \in Seq(S) /\ Len(u) = 5
      /\ u[1] = a /\ u[2] = b /\ u[3] = c /\ u[4] = d /\ u[5] = e
  BY <1>1
<1>3. u = <<a, b, c, d, e>>
  BY <1>2
<1>4. PICK v : v = <<a, b>> \o <<d, e>>
  OBVIOUS
<1>5. v \in Seq(S) /\ Len(v) = 4 /\ v[1] = a /\ v[2] = b /\ v[3] = d /\ v[4] = e
  BY <1>4
<1>6. v = <<a, b, d, e>>
  BY <1>5
<1> QED BY <1>1, <1>3, <1>4, <1>6

LEMMA OriginalTurn ==
  SupportTurns(Blank, ORIGINAL_REQUEST) = {<<NewState, Asked, Known, Classified, Resolved>>}
<1>1. SupportTurns(Blank, ORIGINAL_REQUEST) = {<<NewState, Asked, Known>> \o <<Classified, Resolved>>}
  BY DEF SupportTurns, Asked, Known, Classified, Resolved
<1> QED BY <1>1, StoryTypes, Concatenated

\* Reusable checkpoints of the original turn.
LEMMA ReusableStory ==
  ASSUME NEW s \in Story, Reusable(s)
  PROVE  s \in {Known, Classified}
<1>1. Resolved.resolution # None
  <2>1. "refund" \in Intent
    BY DEF Intent
  <2> QED BY <2>1, StoryTypes, ValuesApart
<1> QED BY <1>1, StoryTypes DEF Story, Reusable

LEMMA KnownIsReusable == Reusable(Known)
BY StoryTypes, ValuesApart DEF Reusable

\* The corrected turn, from either.
LEMMA CorrectedTurn ==
  ASSUME NEW before \in {Known, Classified}, NEW turn \in SupportTurns(before, CORRECTED_REQUEST)
  PROVE  turn \in Seq(SupportState) /\ turn # <<>> /\ turn[Len(turn)] \in Corrected
<1>1. before \in SupportState /\ before.order = "ORD-10482" /\ before.order # None /\ before # Blank
  BY StoryTypes, ValuesApart
<1>2. CORRECTED_REQUEST \in SUBSET Word
  BY DEF CORRECTED_REQUEST, Word
<1>3. PICK asked : asked = Say(before, "human", CORRECTED_REQUEST)
  OBVIOUS
<1>4. /\ asked \in SupportState /\ asked.order = "ORD-10482" /\ asked.order # None
      /\ LatestUserText(asked.messages) = CORRECTED_REQUEST
  <2>1. before.messages \in Seq(Message)
    BY <1>1 DEF SupportState
  <2>2. /\ asked \in SupportState /\ asked.order = before.order
        /\ asked.messages = Append(before.messages, [from |-> "human", text |-> CORRECTED_REQUEST])
    BY <1>1, <1>2, <1>3, SayType
  <2>3. LatestUserText(asked.messages) = CORRECTED_REQUEST
    BY <1>2, <2>1, <2>2, LatestOfAppended
  <2> QED BY <1>1, <2>2, <2>3
<1>5. IdentifyOrder(asked) = asked
  BY <1>4 DEF IdentifyOrder
<1>6. PICK classified, resolved : classified = Classify(asked) /\ resolved = Resolve(classified)
  OBVIOUS
<1>7. ClassifyIntent(CORRECTED_REQUEST) = "replacement"
  BY DEF ClassifyIntent, CORRECTED_REQUEST
<1>8. /\ classified \in SupportState /\ classified.order = "ORD-10482"
      /\ classified.intent = "replacement"
  BY <1>4, <1>6, <1>7, ClassifyType
<1>9. resolved \in Corrected
  <2>1. "replacement" \in Intent
    BY DEF Intent
  <2> QED BY <1>6, <1>8, <2>1, ResolveType DEF Corrected
<1>10. turn \in {<<before, asked, asked>> \o <<classified, resolved>>,
                 <<before, asked>> \o <<classified, resolved>>}
  BY <1>1, <1>3, <1>5, <1>6 DEF SupportTurns
<1>11. resolved \in SupportState
  BY <1>9 DEF Corrected
<1>12. turn \in {<<before, asked, asked, classified, resolved>>, <<before, asked, classified, resolved>>}
  BY <1>1, <1>4, <1>8, <1>10, <1>11, Concatenated
<1>13. CASE turn = <<before, asked, asked, classified, resolved>>
  BY <1>1, <1>4, <1>8, <1>9, <1>11, <1>13
<1>14. CASE turn = <<before, asked, classified, resolved>>
  BY <1>1, <1>4, <1>8, <1>9, <1>11, <1>14
<1> QED BY <1>12, <1>13, <1>14

-----------------------------------------------------------------------------
(* The program's control, and what it asks the saver.                      *)

Place == {"clean", "load", "save", "final", "history", "rehydrate", "handoff", "end"}

Fields == {"at", "cfg", "input", "back", "todo", "last", "state", "exit", "original", "final", "fork"}

\* The second run and what is around it.
Later(at, back) == at \in {"rehydrate", "handoff"} \/ (at \in {"load", "save"} /\ back = "handoff")

ControlOK ==
  /\ DOMAIN prog = Fields
  /\ prog.at \in Place
  /\ prog.cfg \in Naming
  /\ prog.last \in Id \cup {NoId}
  /\ prog.at \in {"load", "save"} => prog.back \in {"final", "handoff"}
  /\ prog.at = "history" \/ Later(prog.at, prog.back) => prog.final \in Naming
  /\ prog.at = "rehydrate" => prog.fork \in Naming

Asking(at, r) ==
  CASE at = "clean" -> r = [op |-> "delete", t |-> THREAD_ID]
    [] at = "load" -> r = GetRequest(prog.cfg)
    [] at = "save" -> r \in PutReq /\ r.id \in Id /\ r.t = ThreadOf(prog.cfg) /\ r.ns = NsOf(prog.cfg)
    [] at = "final" -> r = GetRequest(ProdConfig(NoMetadata))
    [] at = "history" -> r = ListRequest(ProdConfig(NoMetadata))
    [] at = "rehydrate" -> r = GetRequest(prog.fork)
    [] at = "handoff" -> r = GetRequest(prog.final)
    [] OTHER -> FALSE

AskedOK == call[me].pc # "idle" => Asking(prog.at, call[me].req)

\* A config that names the program's thread and namespace.
Ours == {cfg \in Naming : ThreadOf(cfg) = THREAD_ID /\ NsOf(cfg) = CHECKPOINT_NS}

LEMMA OursIsOurs ==
  ASSUME NEW id \in Id \cup {NoId}, NEW cfg, cfg = TupleConfig(THREAD_ID, CHECKPOINT_NS, id)
  PROVE  cfg \in Ours /\ IdOf(cfg) = id
<1>1. cfg \in Naming
  BY ConfigsNaming, ForkAssumption
<1>2. cfg.configurable.thread_id = THREAD_ID
  BY DEF TupleConfig
<1>3. NsOf(cfg) = CHECKPOINT_NS /\ IdOf(cfg) = id
  BY ForkAssumption, ConfigAssumption DEF TupleConfig, NoMetadata, NsOf, IdOf, Or
<1> QED BY <1>1, <1>2, <1>3, NamesOfConfig DEF Ours

LEMMA ProdConfigNames ==
  ASSUME NEW cfg \in ProdConfigs
  PROVE  cfg \in Ours /\ IdOf(cfg) = NoId
<1>1. PICK m : cfg = ProdConfig(m) /\ m \in {NoMetadata, [thread_id |-> THREAD_ID, checkpoint_ns |-> CHECKPOINT_NS]}
  BY DEF ProdConfigs
<1>2. cfg = [configurable |-> [thread_id |-> THREAD_ID, checkpoint_ns |-> CHECKPOINT_NS,
                               checkpoint_id |-> NoId],
             metadata |-> m]
  BY <1>1 DEF ProdConfig, TupleConfig
<1>3. m \in Metadata /\ m.checkpoint_ns \in {None, CHECKPOINT_NS}
  BY <1>1, ForkAssumption DEF Metadata, NoMetadata
<1>4. cfg \in Naming /\ cfg.configurable.thread_id = THREAD_ID
  BY <1>2, <1>3, ForkAssumption DEF Naming, Config, Configurable
<1>5. NsOf(cfg) = CHECKPOINT_NS /\ IdOf(cfg) = NoId
  BY <1>2, <1>3, ForkAssumption, ConfigAssumption DEF NsOf, IdOf, Or
<1> QED BY <1>4, <1>5, NamesOfConfig DEF Ours

LEMMA ProdIsProd == ProdConfig(NoMetadata) \in ProdConfigs
BY DEF ProdConfigs

LEMMA HistoryRequest ==
  ASSUME NEW r, r = ListRequest(ProdConfig(NoMetadata))
  PROVE  /\ r \in ListReq /\ r \in Calls[me] /\ r.t = THREAD_ID /\ r.ns = CHECKPOINT_NS
         /\ r.filter = NoMeta /\ r.before = NoId /\ r.limit = NoLimit
<1> DEFINE cfg == TupleConfig(THREAD_ID, CHECKPOINT_NS, NoId)
<1>1. cfg \in Ours /\ ProdConfig(NoMetadata) \in Ours
  BY OursIsOurs, ProdConfigNames, ProdIsProd
<1>2. r = ListRequest(cfg)
  BY <1>1 DEF ListRequest, Ours
<1>3. r \in ListReq /\ r.t = THREAD_ID /\ r.ns = CHECKPOINT_NS
  BY <1>1, ForkAssumption DEF ListRequest, ListReq, Ours
<1>4. r \in Calls[me]
  BY <1>2, ForkAssumption, ProgramAssumption DEF ProgramCalls
<1> QED BY <1>3, <1>4 DEF ListRequest

\* A request of the program is one that the saver takes from it.
LEMMA AskOK ==
  ASSUME TypeOK, ControlOK, NEW at, NEW r, Asks(at, r), Asking(at, r), r \in Calls[me]
  PROVE  Next /\ ControlOK' /\ AskedOK'
<1>1. prog' = prog /\ kept' = kept /\ prog.at = at /\ Begin(me, r)
  BY DEF Asks, progVars
<1>2. call'[me].req = r
  BY <1>1, BeginShape, ProgramAssumption
<1> QED BY <1>1, <1>2, ProgramAssumption DEF Next, ControlOK, AskedOK, Asking

\* At an answer, and in steps of its own, the program is not in a call.
LEMMA RestOK ==
  ASSUME TypeOK, AskedOK, Return(me) \/ (UNCHANGED vars /\ prog.at = "end")
  PROVE  [Next]_vars /\ AskedOK' /\ call'[me].pc = "idle"
<1>1. CASE Return(me)
  BY <1>1, ReturnShape, ProgramAssumption DEF Next, Step, AskedOK
<1>2. CASE UNCHANGED vars /\ prog.at = "end"
  BY <1>2 DEF AskedOK, Asking, vars
<1> QED BY <1>1, <1>2

LEMMA AnswerTypes ==
  ASSUME TypeOK, NEW i \in DOMAIN Tuples
  PROVE  Tuples[i] \in Tuple /\ Tuples[i].id \in Id
<1>1. call[me].out \in Seq(Tuple)
  BY ProgramAssumption DEF TypeOK, CallState
<1>2. Tuples[i] \in Tuple
  BY <1>1 DEF Tuples
<1> QED BY <1>2 DEF Tuple

LEMMA ConfigOfTuple ==
  ASSUME TypeOK, call[me].req \in GetReq \cup ListReq, NEW i \in DOMAIN Tuples
  PROVE  ConfigOf(Tuples[i]) \in Naming
<1>1. Tuples[i] \in Tuple
  BY AnswerTypes
<1>2. PICK t \in Thread, ns \in Ns, id \in Id :
        t = call[me].req.t /\ ns = Tuples[i].ns /\ id = Tuples[i].id
  BY <1>1 DEF Tuple, GetReq, ListReq
<1>3. ConfigOf(Tuples[i]) = TupleConfig(t, ns, id)
  BY <1>2 DEF ConfigOf
<1> QED BY <1>3, ConfigsNaming

\* A set of indices has a greatest one.
LEMMA GreatestIndex ==
  ASSUME NEW n \in Nat, NEW S \in SUBSET (1 .. n), S # {}
  PROVE  \E i \in S : \A j \in S : i >= j
<1> DEFINE Above(i) == {j \in 1 .. n : j > i}
           T == {Above(i) : i \in S}
<1>0. IsFiniteSet(1 .. n)
  <2>1. 1 \in Int /\ n \in Int
    OBVIOUS
  <2> QED BY <2>1, FS_Interval
<1>1. FiniteSubsetsOf(1 .. n) = SUBSET (1 .. n)
  BY <1>0, FS_FiniteSubsetsOfFinite
<1>2. PICK x \in T : \A y \in T : ~(<<y, x>> \in StrictSubsetOrdering(1 .. n))
  <2>1. T \subseteq SUBSET (1 .. n) /\ T # {}
    OBVIOUS
  <2> HIDE DEF T
  <2>2. IsWellFoundedOn(StrictSubsetOrdering(1 .. n), SUBSET (1 .. n))
    BY <1>0, <1>1, FS_StrictSubsetOrderingWellFounded
  <2> QED BY <2>1, <2>2, WFMin
<1>3. PICK i \in S : x = Above(i)
  BY <1>2
<1>4. ASSUME NEW j \in S, j > i PROVE FALSE
  <2>1. Above(j) \subseteq Above(i) /\ j \in Above(i) /\ j \notin Above(j)
    BY <1>4
  <2>2. <<Above(j), x>> \in StrictSubsetOrdering(1 .. n)
    BY <2>1, <1>3 DEF StrictSubsetOrdering
  <2> QED BY <2>2, <1>2
<1>5. \A j \in S : ~(j > i) /\ j \in Nat /\ i \in Nat
  BY <1>4
<1> QED BY <1>5

\* find_fork_point takes one of the history, a reusable one if there is any.
LEMMA ForkPointIsOne ==
  ASSUME NEW history \in Seq(Tuple), history # <<>>
  PROVE  \E i \in DOMAIN history :
           /\ ForkPoint(history) = history[i]
           /\ \A j \in DOMAIN history :
                Reusable(kept[history[j].id]) => Reusable(kept[history[i].id]) /\ i >= j
<1> DEFINE good == {i \in DOMAIN history : Reusable(kept[history[i].id])}
<1>1. PICK n \in Nat : n = Len(history) /\ DOMAIN history = 1 .. n /\ n # 0
  OBVIOUS
<1>2. CASE good = {}
  <2>1. ForkPoint(history) = history[n]
    BY <1>1, <1>2 DEF ForkPoint
  <2> QED BY <1>1, <1>2, <2>1
<1>3. CASE good # {}
  <2>1. \E i \in good : \A j \in good : i >= j
    <3>1. good \in SUBSET (1 .. n)
      BY <1>1
    <3> HIDE DEF good
    <3> QED BY <1>3, <3>1, GreatestIndex
  <2>2. PICK i \in good : i = (CHOOSE x \in good : \A j \in good : x >= j) /\ \A j \in good : i >= j
    <3> HIDE DEF good
    <3> QED BY <2>1
  <2>3. ForkPoint(history) = history[i]
    BY <1>3, <2>2 DEF ForkPoint
  <2> QED BY <2>2, <2>3
<1> QED BY <1>2, <1>3

\* What is put has the program's names and a new id.
LEMMA SavedRequest ==
  ASSUME TypeOK, ControlOK, SaveCheckpoint
  PROVE  \E r \in Calls[me] : /\ Begin(me, r) /\ Asking("save", r)
                             /\ prog.at = "save" /\ prog' = prog
                             /\ r.id = NewId /\ NewId \in Id /\ NewId \notin Used
                             /\ r.parent = prog.last /\ \A u \in Used : u < NewId
<1> DEFINE from == [prog.cfg EXCEPT !.configurable.checkpoint_id = prog.last]
           r == PutRequest(from, NewId)
<1>1. NewId \in Id /\ NewId \notin Used /\ \A u \in Used : u < NewId
  BY NewIdIsNew, UsedIsId DEF SaveCheckpoint
<1>2. /\ r \in PutReq /\ r \in Calls[me] /\ r.id = NewId /\ r.parent = prog.last
      /\ r.t = ThreadOf(prog.cfg) /\ r.ns = NsOf(prog.cfg)
  BY <1>1, PutOfConfig DEF ControlOK
<1>3. Begin(me, r) /\ prog.at = "save" /\ prog' = prog
  BY DEF SaveCheckpoint
<1> HIDE DEF r
<1> QED BY <1>1, <1>2, <1>3 DEF Asking

LEMMA InvocationControl ==
  ASSUME TypeOK, ControlOK, AskedOK, Invocation(SupportTurns(Values, prog.input))
  PROVE  [Next]_vars /\ ControlOK' /\ AskedOK'
<1>1. CASE LoadCheckpoint
  <2>1. GetRequest(prog.cfg) \in Calls[me]
    BY GetOfConfig DEF ControlOK
  <2> QED BY <1>1, <2>1, AskOK DEF Asking, LoadCheckpoint
<1>2. CASE BeginTurn(SupportTurns(Values, prog.input))
  <2>1. prog.at = "load" /\ Return(me)
    BY <1>2 DEF BeginTurn, Answered
  <2>2. (IF Tuples = <<>> THEN IdOf(prog.cfg) ELSE Tuples[1].id) \in Id \cup {NoId}
    <3>1. CASE Tuples = <<>>
      BY <3>1, NamesOfConfig DEF ControlOK
    <3>2. CASE Tuples # <<>>
      <4>1. Tuples \in Seq(Tuple)
        BY ProgramAssumption DEF TypeOK, CallState, Tuples
      <4>2. 1 \in DOMAIN Tuples
        BY <3>2, <4>1
      <4> QED BY <3>2, <4>2, AnswerTypes
    <3> QED BY <3>1, <3>2
  <2>3. PICK last \in Id \cup {NoId} : \E turn :
          prog' = [prog EXCEPT !.at = "save", !.todo = turn, !.last = last]
    BY <1>2, <2>2 DEF BeginTurn
  <2>4. ControlOK'
    BY <2>1, <2>3 DEF ControlOK, Fields, Place, Later
  <2> QED BY <2>1, <2>4, RestOK
<1>3. CASE SaveCheckpoint
  <2>1. PICK r \in Calls[me] : /\ Begin(me, r) /\ Asking("save", r)
                               /\ prog.at = "save" /\ prog' = prog
    BY <1>3, SavedRequest
  <2>2. call'[me].req = r
    BY <2>1, BeginShape, ProgramAssumption
  <2> QED BY <2>1, <2>2, ProgramAssumption DEF Next, ControlOK, AskedOK, Asking
<1>4. CASE CheckpointSaved
  <2>1. prog.at = "save" /\ At(me, "done") /\ Return(me)
    BY <1>4 DEF CheckpointSaved, Answered
  <2>2. call[me].req.id \in Id
    BY <2>1 DEF AskedOK, Asking, At
  <2>3. PICK id \in Id, at \in {prog.back, "save"} : \E todo, state :
          prog' = [prog EXCEPT !.last = id, !.todo = todo, !.state = state, !.at = at]
    BY <1>4, <2>2 DEF CheckpointSaved
  <2>4. ControlOK'
    BY <2>1, <2>3 DEF ControlOK, Fields, Place, Later
  <2> QED BY <2>1, <2>4, RestOK
<1> QED BY <1>1, <1>2, <1>3, <1>4 DEF Invocation

\* The program's own steps.
LEMMA AnswerControl ==
  ASSUME TypeOK, ControlOK, AskedOK,
         FirstTurn \/ RememberFinal \/ FindForkPoint \/ ForkTurn \/ WriteHandoff
  PROVE  [Next]_vars /\ ControlOK' /\ AskedOK'
<1>1. Return(me) /\ call[me].pc = "done"
  BY DEF FirstTurn, RememberFinal, FindForkPoint, ForkTurn, WriteHandoff, Answered, At
<1>2. Tuples \in Seq(Tuple)
  BY ProgramAssumption DEF TypeOK, CallState, Tuples
<1>3. CASE FirstTurn
  <2>1. PICK cfg \in Naming : /\ prog.at = "clean"
                              /\ prog' = Invoking(cfg, ORIGINAL_REQUEST, "final")
    BY <1>3, ProdConfigNames DEF FirstTurn, Answered, Ours
  <2> QED BY <1>1, <2>1, RestOK DEF Invoking, ControlOK, Fields, Place, Later
<1>4. CASE RememberFinal
  <2>1. prog.at = "final" /\ call[me].req \in GetReq
    <3>1. prog.at = "final" /\ call[me].req = GetRequest(ProdConfig(NoMetadata))
      BY <1>1, <1>4 DEF RememberFinal, Answered, AskedOK, Asking
    <3> QED BY <3>1, GetOfConfig, ProdConfigNames, ProdIsProd DEF Ours
  <2>2. CASE Tuples = <<>>
    BY <1>1, <1>4, <2>2, RestOK DEF RememberFinal, ControlOK, Fields, Place, Later
  <2>3. CASE Tuples # <<>>
    <3>1. ConfigOf(Tuples[1]) \in Naming
      BY <1>2, <2>1, <2>3, ConfigOfTuple
    <3>2. PICK final \in Naming : \E original :
            prog' = [prog EXCEPT !.at = "history", !.original = original, !.final = final]
      BY <1>4, <2>3, <3>1 DEF RememberFinal
    <3> QED BY <1>1, <3>2, RestOK DEF ControlOK, Fields, Place, Later
  <2> QED BY <2>2, <2>3
<1>5. CASE FindForkPoint
  <2>1. prog.at = "history" /\ call[me].req \in ListReq
    <3>1. prog.at = "history" /\ call[me].req = ListRequest(ProdConfig(NoMetadata))
      BY <1>1, <1>5 DEF FindForkPoint, Answered, AskedOK, Asking
    <3> QED BY <3>1, HistoryRequest
  <2>2. CASE Tuples = <<>>
    BY <1>1, <1>5, <2>2, RestOK DEF FindForkPoint, ControlOK, Fields, Place, Later
  <2>3. CASE Tuples # <<>>
    <3>1. ConfigOf(ForkPoint(Tuples)) \in Naming
      <4>1. PICK i \in DOMAIN Tuples : ForkPoint(Tuples) = Tuples[i]
        BY <1>2, <2>3, ForkPointIsOne
      <4> QED BY <2>1, <4>1, ConfigOfTuple
    <3>2. PICK fork \in Naming : prog' = [prog EXCEPT !.at = "rehydrate", !.fork = fork]
      BY <1>5, <2>3, <3>1 DEF FindForkPoint
    <3> QED BY <1>1, <2>1, <3>2, RestOK DEF ControlOK, Fields, Place, Later
  <2> QED BY <2>2, <2>3
<1>6. CASE ForkTurn
  <2>1. prog.at = "rehydrate" /\ prog' = Invoking(prog.fork, CORRECTED_REQUEST, "handoff")
    BY <1>6 DEF ForkTurn, Answered
  <2> QED BY <1>1, <2>1, RestOK DEF Invoking, ControlOK, Fields, Place, Later
<1>7. CASE WriteHandoff
  <2>1. PICK exit : prog' = [prog EXCEPT !.at = "end", !.exit = exit]
    BY <1>7 DEF WriteHandoff
  <2> QED BY <1>1, <2>1, RestOK DEF ControlOK, Fields, Place, Later
<1> QED BY <1>3, <1>4, <1>5, <1>6, <1>7

LEMMA StartControl ==
  /\ DOMAIN Start = Fields /\ Start.at = "clean" /\ Start.cfg \in Naming /\ Start.last = NoId
  /\ Start.exit = None
<1>1. ProdConfig(NoMetadata) \in Naming
  BY ProdConfigNames, ProdIsProd DEF Ours
<1> QED BY <1>1 DEF Start, Fields

LEMMA ControlStep ==
  TypeOK /\ ControlOK /\ AskedOK /\ [ForkNext]_allVars => [Next]_vars /\ ControlOK' /\ AskedOK'
<1> SUFFICES ASSUME TypeOK, ControlOK, AskedOK, [ForkNext]_allVars
             PROVE  [Next]_vars /\ ControlOK' /\ AskedOK'
  OBVIOUS
<1>1. CASE UNCHANGED allVars
  BY <1>1 DEF allVars, vars, ControlOK, AskedOK, Asking
<1>2. CASE DeleteThread(THREAD_ID)
  BY <1>2, AskOK, DeleteOfThread, ForkAssumption DEF DeleteThread, Asking
<1>3. CASE AskFinal \/ AskHistory \/ AskRehydrated \/ AskBefore
  <2>1. CASE AskFinal
    BY <2>1, AskOK, GetOfConfig, ProdConfigNames, ProdIsProd DEF AskFinal, Asking, Ours
  <2>2. CASE AskHistory
    BY <2>2, AskOK, HistoryRequest DEF AskHistory, Asking
  <2>3. CASE AskRehydrated
    <3>1. GetRequest(prog.fork) \in Calls[me]
      BY <2>3, GetOfConfig DEF AskRehydrated, Asks, ControlOK
    <3> QED BY <2>3, <3>1, AskOK DEF AskRehydrated, Asking
  <2>4. CASE AskBefore
    <3>1. GetRequest(prog.final) \in Calls[me]
      BY <2>4, GetOfConfig DEF AskBefore, Asks, ControlOK, Later
    <3> QED BY <2>4, <3>1, AskOK DEF AskBefore, Asking
  <2> QED BY <1>3, <2>1, <2>2, <2>3, <2>4
<1>4. CASE SaverStep(me)
  <2>1. Step(me) /\ ~Return(me) /\ call[me].pc # "idle" /\ prog' = prog
    BY <1>4, SaverStepIsStep, ProgramAssumption DEF SaverStep, progVars
  <2>2. call'[me].req = call[me].req /\ Next
    BY <2>1, StepProgress, ProgramAssumption DEF Progress, Next
  <2> QED BY <2>1, <2>2 DEF ControlOK, AskedOK, Asking
<1>5. CASE RunAgain(Start)
  <2>1. Return(me) \/ (UNCHANGED vars /\ prog.at = "end")
    BY <1>5 DEF RunAgain
  <2>2. ControlOK'
    BY <1>5, StartControl DEF RunAgain, ControlOK, Place, Later
  <2> QED BY <2>1, <2>2, RestOK
<1> QED BY <1>1, <1>2, <1>3, <1>4, <1>5, InvocationControl, AnswerControl DEF ForkNext

LEMMA ControlInit == ForkInit => Init /\ TypeOK /\ ControlOK /\ AskedOK
<1> SUFFICES ASSUME ForkInit PROVE Init /\ TypeOK /\ ControlOK /\ AskedOK
  OBVIOUS
<1>1. Init /\ prog = Start
  BY DEF ForkInit
<1>2. call[me].pc = "idle"
  BY <1>1, ProgramAssumption DEF Init, NoCall
<1>3. ControlOK
  BY <1>1, StartControl DEF ControlOK, Place, Later
<1> QED BY <1>1, <1>2, <1>3, InitType DEF AskedOK

(* The program is a caller of the saver (demo.py): it asks for nothing     *)
(* else, so what is proved of any callers holds for it.                    *)
THEOREM ForkUsesSaver == ForkSpec => Spec
<1>1. TypeOK /\ ControlOK /\ AskedOK /\ [ForkNext]_allVars =>
        [Next]_vars /\ TypeOK' /\ ControlOK' /\ AskedOK'
  BY ControlStep, NextType
<1> QED BY <1>1, ControlInit, PTL DEF ForkSpec, Spec

-----------------------------------------------------------------------------
(* What is stored meanwhile.                                               *)

Cp(i)   == CpKey(THREAD_ID, CHECKPOINT_NS, i)
Pointer == LatestKey(THREAD_ID, CHECKPOINT_NS)

\* Checkpoint i is there and holds one of these values.
Holding(i, values) == Stored(Cp(i)) /\ kept[i] \in values

ConfigAt(i) == TupleConfig(THREAD_ID, CHECKPOINT_NS, i)
Names(cfg, values) == \E i \in Id : cfg = ConfigAt(i) /\ Holding(i, values)

Emptied   == \A k \in Key : Stored(k) => k.t # THREAD_ID
StoryKept == \A i \in Id : Stored(Cp(i)) => kept[i] \in Story
KnownHere == \E i \in Id : Holding(i, {Known})

\* What the saver brings a call that the program is in.
Bringing(c, h) ==
  /\ c.req \in GetReq \cup ListReq => Seen(c)
  /\ c.req \in GetReq => OnTarget(c)
  /\ c.req \in ListReq \cup DeleteReq => HoldsAll(c.req, h)

\* What a put has done so far.
Putting(c) ==
  /\ kept[c.req.id] = Head(prog.todo)
  /\ c.pc = "put_cp" => \A k \in Key : k.set = "cp" /\ Stored(k) => k.id # c.req.id
  /\ c.pc \in {"put_latest", "done"} => Stored(Cp(c.req.id))
  /\ c.pc = "done" => Stored(Pointer) /\ db[Pointer].id = c.req.id

FirstRun ==
  /\ prog.at \in {"load", "save"} => prog.cfg \in ProdConfigs
  /\ prog.at = "load" => Emptied /\ prog.input = ORIGINAL_REQUEST
  /\ prog.at = "save" => /\ prog.todo \in Chapters /\ StoryKept
                         /\ Len(prog.todo) <= 2 => KnownHere

SecondRun ==
  /\ Names(prog.fork, {Known, Classified})
  /\ prog.at \in {"load", "save"} => prog.cfg = prog.fork
  /\ prog.at = "load" => prog.input = CORRECTED_REQUEST
  /\ prog.at = "save" => /\ prog.todo \in Seq(SupportState) /\ prog.todo # <<>>
                         /\ prog.todo[Len(prog.todo)] \in Corrected
  /\ prog.at = "handoff" => prog.state \in Corrected

\* Only the program calls the saver, which answers from what is stored.
World ==
  /\ AllFresh
  /\ \A p \in Proc \ {me} : call[p].pc = "idle"
  /\ call[me].pc # "idle" => Bringing(call[me], held[me])
  /\ prog.at = "save" /\ call[me].pc # "idle" => Putting(call[me])

Tale ==
  /\ prog.at \in {"load", "save"} /\ prog.back = "final" => FirstRun
  /\ prog.at \in {"final", "history"} => StoryKept /\ KnownHere
  /\ prog.at = "final" => /\ prog.state = Resolved /\ Stored(Pointer)
                          /\ \E i \in Id : db[Pointer].id = i /\ Holding(i, {Resolved})
  /\ prog.at = "history" \/ Later(prog.at, prog.back) =>
       prog.original = Resolved /\ Names(prog.final, {Resolved})
  /\ Later(prog.at, prog.back) => SecondRun
  /\ ForkSucceeds

Grounds == TypeOK /\ ControlOK /\ AskedOK

LEMMA OwnKeys ==
  /\ Pointer \in Key /\ Pointer.set = "meta"
  /\ \A i \in Id : Cp(i) \in Key /\ Cp(i).set = "cp" /\ Cp(i).id = i /\ Cp(i) # Pointer
  /\ \A i, j \in Id : Cp(i) = Cp(j) => i = j
<1>1. /\ Pointer \in Key /\ Pointer.set = "meta"
      /\ \A i \in Id : Cp(i) \in Key /\ Cp(i).set = "cp"
  BY KeyTypes, ForkAssumption DEF Pointer, Cp
<1>2. \A i \in Id : Cp(i).id = i
  BY DEF Cp, CpKey
<1>3. "meta" # "cp"
  OBVIOUS
<1> QED BY <1>1, <1>2, <1>3

LEMMA NamesOurs ==
  ASSUME NEW cfg, NEW values, Names(cfg, values)
  PROVE  /\ cfg \in Ours /\ IdOf(cfg) \in Id /\ cfg = ConfigAt(IdOf(cfg))
         /\ Holding(IdOf(cfg), values)
<1>1. PICK i \in Id : cfg = ConfigAt(i) /\ Holding(i, values)
  BY DEF Names
<1>2. cfg \in Ours /\ IdOf(cfg) = i
  BY <1>1, OursIsOurs DEF ConfigAt
<1> QED BY <1>1, <1>2

LEMMA OursAtWork ==
  ASSUME Grounds, Tale, prog.at \in {"load", "save"}
  PROVE  prog.cfg \in Ours
<1>1. prog.back \in {"final", "handoff"}
  BY DEF Grounds, ControlOK
<1>2. CASE prog.back = "final"
  BY <1>2, ProdConfigNames DEF Tale, FirstRun
<1>3. CASE prog.back = "handoff"
  <2>1. prog.cfg = prog.fork /\ Names(prog.fork, {Known, Classified})
    BY <1>3 DEF Tale, Later, SecondRun
  <2> QED BY <2>1, NamesOurs
<1> QED BY <1>1, <1>2, <1>3

\* The requests are those of its place.
LEMMA RequestKinds ==
  ASSUME Grounds, call[me].pc # "idle", NEW r, r = call[me].req
  PROVE  /\ prog.at = "clean" => r \in DeleteReq /\ r.t = THREAD_ID
         /\ prog.at = "save" => r \in PutReq /\ r.id \in Id
         /\ prog.at = "history" => r \in ListReq
         /\ prog.at \in {"load", "final", "rehydrate", "handoff"} => r \in GetReq
         /\ prog.at # "end"
<1>1. Asking(prog.at, r)
  BY DEF Grounds, AskedOK
<1>2. CASE prog.at = "clean"
  BY <1>1, <1>2, DeleteOfThread, ForkAssumption DEF Asking
<1>3. CASE prog.at = "history"
  BY <1>1, <1>3, HistoryRequest DEF Asking
<1>4. CASE prog.at \in {"load", "final", "rehydrate", "handoff"}
  <2>1. \E cfg \in Naming : r = GetRequest(cfg)
    BY <1>1, <1>4, ProdConfigNames, ProdIsProd DEF Asking, Grounds, ControlOK, Later, Ours
  <2> QED BY <1>4, <2>1, GetOfConfig
<1>5. CASE prog.at = "save"
  BY <1>1, <1>5 DEF Asking
<1>6. prog.at # "end"
  BY <1>1 DEF Asking
<1> QED BY <1>2, <1>3, <1>4, <1>5, <1>6

LEMMA WhoWrites ==
  ASSUME Grounds, World, NEW p \in Proc
  PROVE  /\ call[p].pc \in Writing => p = me /\ prog.at = "save"
         /\ call[p].pc = "remove" => p = me /\ prog.at = "clean"
<1>1. /\ call[p].pc \in {"put_cp", "put_latest"} => call[p].req \in PutReq
      /\ call[p].pc = "operate" => call[p].req \in WritesReq
      /\ call[p].pc = "remove" => call[p].req \in DeleteReq
  BY DEF Grounds, TypeOK, InMethod
<1>2. CASE p # me
  BY <1>2 DEF World, Writing
<1>3. CASE p = me
  <2>1. prog.at \in Place
    BY DEF Grounds, ControlOK
  <2> QED BY <1>1, <1>3, <2>1, RequestKinds DEF Writing, Place, PutReq, WritesReq, DeleteReq,
             GetReq, ListReq
<1> QED BY <1>2, <1>3

\* A put stores a new checkpoint, then the pointer to it.
LEMMA PutStep ==
  ASSUME Grounds, Tale, prog.at = "save", Working(me), Step(me), NEW c, c = call[me],
         NEW d, d = call'[me]
  PROVE  /\ d.req = c.req /\ c.req.id \in Id
         /\ \/ db' = db /\ d.pc = "failed"
            \/ /\ c.pc = "put_cp" /\ d.pc \in {"put_latest", "failed"}
               /\ db' = [db EXCEPT ![Cp(c.req.id)] =
                           [thread |-> c.req.t, parent |-> c.req.parent, left |-> Ttl]]
            \/ /\ c.pc = "put_latest" /\ d.pc \in {"done", "failed"}
               /\ db' = [db EXCEPT ![Pointer] = [thread |-> c.req.t, id |-> c.req.id, left |-> Ttl]]
<1> USE ProgramAssumption
<1>1. Progress(me) /\ ~Return(me) /\ c.pc # "idle"
  BY SaverStepIsStep, StepProgress DEF Grounds
<1>2. /\ c.req \in PutReq /\ c.req.id \in Id /\ d.req = c.req
      /\ c.req.t = THREAD_ID /\ c.req.ns = CHECKPOINT_NS
  BY <1>1, OursAtWork DEF Grounds, AskedOK, Asking, Progress, Ours
<1>3. c.pc \in {"put_cp", "put_latest"}
  BY <1>1, <1>2 DEF Grounds, TypeOK, CallState, Pcs, InMethod, Working, PutReq, WritesReq, GetReq, ListReq, DeleteReq
<1>4. CASE Fail(me)
  BY <1>2, <1>4, FailShape, TypeHalves DEF Fail, Grounds
<1>5. CASE ~Fail(me)
  <2>1. CASE c.pc = "put_cp"
    <3>1. PutCheckpoint(me)
      BY <1>1, <1>5, <2>1 DEF Step, At, PutLatest, OperateWrites, GetLatest,
         GetCheckpoint, TouchLatest, GetWrites, Query, Scan, RemoveRecord
    <3>2. db' = [db EXCEPT ![Cp(c.req.id)] =
                           [thread |-> c.req.t, parent |-> c.req.parent, left |-> Ttl]]
      BY <1>2, <3>1 DEF PutCheckpoint, Cp
    <3>3. d.pc \in {"put_latest", "failed"}
      BY <1>1, <1>2, <2>1 DEF Progress, PutReq, GetReq, ListReq, DeleteReq
    <3> QED BY <1>2, <2>1, <3>2, <3>3
  <2>2. CASE c.pc = "put_latest"
    <3>1. PutLatest(me)
      BY <1>1, <1>5, <2>2 DEF Step, At, PutCheckpoint, OperateWrites, GetLatest,
         GetCheckpoint, TouchLatest, GetWrites, Query, Scan, RemoveRecord
    <3>2. db' = [db EXCEPT ![Pointer] = [thread |-> c.req.t, id |-> c.req.id, left |-> Ttl]]
      BY <1>2, <3>1 DEF PutLatest, Pointer
    <3>3. d.pc \in {"done", "failed"}
      BY <1>1, <1>2, <2>2 DEF Progress, PutReq, GetReq, ListReq, DeleteReq
    <3> QED BY <1>2, <2>2, <3>2, <3>3
  <2> QED BY <1>3, <2>1, <2>2
<1> QED BY <1>4, <1>5

LEMMA OnlySaved ==
  ASSUME Grounds, Tale, prog.at = "save", Working(me), Step(me), NEW i \in Id, i # call[me].req.id
  PROVE  db'[Cp(i)] = db[Cp(i)]
<1>1. PICK c : c = call[me]
  OBVIOUS
<1>2. c.req.id \in Id
  BY <1>1, PutStep
<1>3. Cp(i) # Cp(c.req.id) /\ Cp(i) # Pointer /\ Cp(i) \in Key
  BY <1>1, <1>2, OwnKeys
<1>4. PICK cp, pointer :
        /\ cp = [thread |-> c.req.t, parent |-> c.req.parent, left |-> Ttl]
        /\ pointer = [thread |-> c.req.t, id |-> c.req.id, left |-> Ttl]
  OBVIOUS
<1>5. \/ db' = db
      \/ db' = [db EXCEPT ![Cp(c.req.id)] = cp]
      \/ db' = [db EXCEPT ![Pointer] = pointer]
  BY <1>1, <1>4, PutStep
<1> QED BY <1>3, <1>5 DEF Grounds, TypeOK

\* Elsewhere, only a delete changes what is stored.
LEMMA ReadStep ==
  ASSUME Grounds, World, prog.at \notin {"clean", "save"}, Step(me)
  PROVE  db' = db
<1>1. call[me].pc \notin Writing \cup {"remove"}
  BY WhoWrites, ProgramAssumption
<1> QED BY <1>1, ReadsChangeNothing, ProgramAssumption DEF World, Grounds

LEMMA Undisturbed ==
  ASSUME Grounds, World, Tale, ForkNext, prog.at # "clean", NEW k \in Key, k.set = "cp", Stored(k)
  PROVE  db'[k] = db[k] /\ kept'[k.id] = kept[k.id]
<1>1. CASE SaverStep(me)
  <2>1. Working(me) /\ Step(me) /\ kept' = kept
    BY <1>1 DEF SaverStep, progVars
  <2>2. CASE prog.at = "save"
    <3>1. PICK c, d : c = call[me] /\ d = call'[me]
      OBVIOUS
    <3>2. c.pc = "put_cp" => k.id # c.req.id
      BY <2>1, <2>2, <3>1 DEF World, Putting, Working
    <3>3. c.req.id \in Id /\ (c.pc = "put_cp" => k # Cp(c.req.id)) /\ k # Pointer
      BY <2>1, <2>2, <3>1, <3>2, OwnKeys, PutStep
    <3>4. PICK cp, pointer :
            \/ db' = db
            \/ c.pc = "put_cp" /\ db' = [db EXCEPT ![Cp(c.req.id)] = cp]
            \/ db' = [db EXCEPT ![Pointer] = pointer]
      <4>1. PICK cp, pointer :
              /\ cp = [thread |-> c.req.t, parent |-> c.req.parent, left |-> Ttl]
              /\ pointer = [thread |-> c.req.t, id |-> c.req.id, left |-> Ttl]
        OBVIOUS
      <4> QED BY <2>1, <2>2, <3>1, <4>1, PutStep
    <3>5. db'[k] = db[k]
      BY <3>3, <3>4 DEF Grounds, TypeOK
    <3> QED BY <2>1, <3>5
  <2>3. CASE prog.at # "save"
    BY <2>1, <2>3, ReadStep
  <2> QED BY <2>1, <2>2, <2>3
<1>2. CASE SaveCheckpoint
  <2>1. db' = db /\ NewId \notin Used
    BY <1>2, SavedRequest DEF Grounds, SaveCheckpoint, Begin
  <2>2. k.id \in Used /\ k.id \in Id
    BY DEF Used, Key
  <2> QED BY <1>2, <2>1, <2>2 DEF SaveCheckpoint
<1>3. CASE ~SaverStep(me) /\ ~SaveCheckpoint
  BY <1>3 DEF ForkNext, DeleteThread, FirstTurn, AskFinal, RememberFinal, AskHistory, FindForkPoint,
     AskRehydrated, ForkTurn, AskBefore, WriteHandoff, Invocation, LoadCheckpoint, BeginTurn,
     CheckpointSaved, RunAgain, Asks, Answered, Begin, Return, vars, progVars
<1> QED BY <1>1, <1>2, <1>3

-----------------------------------------------------------------------------
(* The saver's part.                                                       *)

LEMMA BringingStays ==
  ASSUME NEW c, NEW h, Bringing(c, h), db' = db
  PROVE  Bringing(c, h)'
BY DEF Bringing, Seen, OnTarget, StoredIds, Target, HoldsAll, InScope, Stored

LEMMA BeginWorld ==
  ASSUME Grounds, World, prog' = prog, NEW r \in Calls[me], Begin(me, r),
         prog.at = "save" => r \in PutReq /\ r.id \in Id /\ kept'[r.id] = Head(prog.todo) /\ r.id \notin Used,
         prog.at # "save" => r \in GetReq \cup ListReq \cup DeleteReq
  PROVE  World'
<1> USE ProgramAssumption
<1>0. PICK d, h : d = call'[me] /\ h = held'[me]
  OBVIOUS
<1>1. d.req = r /\ d.pc = FirstPc(r) /\ db' = db /\ TypeOK
  BY <1>0, BeginShape DEF Grounds
<1>2. AllFresh' /\ \A p \in Proc \ {me} : call'[p].pc = "idle"
  BY <1>1, AllStayFresh, OthersStay, TypeHalves DEF World
<1>3. CASE prog.at = "save"
  <2>1. d.pc = "put_cp" /\ r.op = "put"
    BY <1>1, <1>3, NoIdAssumption DEF FirstPc, PutReq
  <2>2. \A k \in Key : k.set = "cp" /\ Stored(k)' => k.id # r.id
    BY <1>1, <1>3 DEF Used, Stored
  <2>3. Putting(d)'
    BY <1>1, <1>3, <2>1, <2>2 DEF Putting
  <2>4. Bringing(d, h)'
    BY <1>1, <2>1 DEF Bringing, GetReq, ListReq, DeleteReq
  <2> QED BY <1>0, <1>2, <2>3, <2>4 DEF World
<1>4. CASE prog.at # "save"
  <2>1. r \in GetReq \cup ListReq => Seen(d) /\ (r \in GetReq => OnTarget(d))
    BY <1>0, <1>1, BeginSeen
  <2>2. r \in ListReq \cup DeleteReq => HoldsAll(r, h)'
    BY <1>0, <1>1, BeginHolds
  <2>3. Bringing(d, h)'
    BY <1>1, <2>1, <2>2 DEF Bringing, Seen, OnTarget, StoredIds, Target, Stored, HoldsAll, InScope
  <2> QED BY <1>0, <1>2, <1>4, <2>3 DEF World
<1> QED BY <1>3, <1>4

LEMMA RestWorld ==
  ASSUME Grounds, World, Return(me) \/ (UNCHANGED vars /\ prog.at = "end")
  PROVE  World'
<1> USE ProgramAssumption
<1>1. CASE Return(me)
  <2>1. db' = db /\ call'[me].pc = "idle" /\ Step(me)
    BY <1>1, ReturnShape DEF Grounds, Step
  <2>2. AllFresh' /\ \A p \in Proc \ {me} : call'[p].pc = "idle"
    BY <2>1, AllStayFresh, OthersStay, TypeHalves DEF World, Grounds
  <2> QED BY <2>1, <2>2 DEF World
<1>2. CASE UNCHANGED vars /\ prog.at = "end"
  <2>1. call'[me].pc = "idle" /\ call' = call /\ db' = db
    BY <1>2 DEF vars, Grounds, AskedOK, Asking
  <2> QED BY <2>1 DEF World, AllFresh, Fresh, Stored
<1> QED BY <1>1, <1>2

LEMMA StepPutting ==
  ASSUME Grounds, World, Tale, prog.at = "save", prog' = prog, kept' = kept, Working(me), Step(me),
         NEW d, d = call'[me]
  PROVE  Putting(d)' /\ d.req \in PutReq
<1>1. PICK c : c = call[me]
  OBVIOUS
<1>2. Putting(c) /\ c.req \in PutReq
  BY <1>1, RequestKinds DEF World, Working
<1>3. PICK i \in Id : i = c.req.id /\ d.req = c.req
  BY <1>1, PutStep
<1>4. kept'[d.req.id] = Head(prog'.todo) /\ d.req.id = i /\ d.req \in PutReq
  BY <1>2, <1>3 DEF Putting
<1>5. PICK cp, pointer : /\ cp = [thread |-> c.req.t, parent |-> c.req.parent, left |-> Ttl]
                         /\ pointer = [thread |-> c.req.t, id |-> i, left |-> Ttl]
  OBVIOUS
<1>6. cp # Absent /\ pointer # Absent /\ pointer.id = i
  <2>1. c.req.t \in Thread /\ c.req.parent \in Id \cup {NoId}
    BY <1>2 DEF PutReq
  <2>2. Ttl \in Lifetime
    BY TtlAssumption DEF Lifetime
  <2>3. cp \in Record("cp") /\ pointer \in Record("meta")
    BY <1>5, <2>1, <2>2 DEF Record
  <2> QED BY <1>5, <2>3, AbsentAssumption
<1>7. CASE d.pc = "failed"
  BY <1>4, <1>7 DEF Putting
<1>8. CASE c.pc = "put_cp" /\ d.pc = "put_latest" /\ db' = [db EXCEPT ![Cp(i)] = cp]
  <2>1. Stored(Cp(i))'
    BY <1>6, <1>8, OwnKeys DEF Stored, Grounds, TypeOK
  <2> QED BY <1>4, <1>8, <2>1 DEF Putting, Cp
<1>9. CASE c.pc = "put_latest" /\ d.pc = "done" /\ db' = [db EXCEPT ![Pointer] = pointer]
  <2>1. Stored(Cp(i))
    BY <1>2, <1>3, <1>9 DEF Putting
  <2>2. db'[Pointer] = pointer /\ db'[Cp(i)] = db[Cp(i)]
    BY <1>9, OwnKeys DEF Grounds, TypeOK
  <2>3. Stored(Cp(i))' /\ Stored(Pointer)' /\ db'[Pointer].id = i
    BY <1>6, <2>1, <2>2 DEF Stored
  <2> QED BY <1>4, <1>9, <2>3 DEF Putting, Cp, Pointer
<1> QED BY <1>1, <1>2, <1>3, <1>5, <1>7, <1>8, <1>9, PutStep

LEMMA StepWorld ==
  ASSUME Grounds, World, Tale, Next, SaverStep(me)
  PROVE  World'
<1> USE ProgramAssumption
<1>0. PICK c, d, h : c = call[me] /\ d = call'[me] /\ h = held'[me]
  OBVIOUS
<1>1. /\ Working(me) /\ Step(me) /\ prog' = prog /\ kept' = kept /\ TypeOK
      /\ ~Return(me) /\ c.pc # "idle"
  BY <1>0, SaverStepIsStep DEF SaverStep, progVars, Grounds
<1>2. d.req = c.req /\ d.pc # "idle"
  BY <1>0, <1>1, StepProgress DEF Progress
<1>3. AllFresh' /\ \A p \in Proc \ {me} : call'[p].pc = "idle"
  BY <1>1, AllStayFresh, OthersStay, TypeHalves DEF World
<1>4. CASE prog.at = "save"
  <2>1. Putting(d)' /\ d.req \in PutReq
    BY <1>0, <1>1, <1>4, StepPutting
  <2>2. Bringing(d, h)'
    BY <2>1 DEF Bringing, PutReq, GetReq, ListReq, DeleteReq
  <2> QED BY <1>0, <1>3, <2>1, <2>2 DEF World
<1>5. CASE prog.at # "save"
  <2>1. Bringing(c, held[me]) /\ c.req \in GetReq \cup ListReq \cup DeleteReq
    BY <1>0, <1>1, <1>5, RequestKinds DEF World, Grounds, ControlOK, Place
  <2>2. \A k \in Key : Stored(k)' => Stored(k)
    <3>1. \A p \in Proc : call[p].pc \notin Writing
      BY <1>5, WhoWrites
    <3> QED BY <1>1, <3>1, NothingComes
  <2>3. c.req \in ListReq \cup DeleteReq => HoldsAll(c.req, h)'
    BY <1>0, <1>1, <1>2, <2>1, <2>2, NextObserves, StepHolds DEF Bringing
  <2>4. CASE c.req \in DeleteReq
    BY <1>0, <1>2, <1>3, <1>5, <1>1, <2>3, <2>4 DEF World, Bringing, GetReq, ListReq, DeleteReq
  <2>5. CASE c.req \in GetReq \cup ListReq
    <3>1. Seen(d) /\ (c.req \in GetReq => OnTarget(d))
      BY <1>0, <1>1, <2>1, <2>5, StepSeen, StepOnTarget DEF Bringing
    <3>2. db' = db
      <4>1. prog.at # "clean"
        BY <1>0, <1>1, <2>5, RequestKinds DEF GetReq, ListReq, DeleteReq
      <4> QED BY <1>1, <1>5, <4>1, ReadStep
    <3>3. Bringing(d, h)'
      BY <1>2, <2>3, <3>1, <3>2 DEF Bringing, Seen, OnTarget, StoredIds, Target, Stored
    <3> QED BY <1>0, <1>1, <1>3, <1>5, <3>3 DEF World
  <2> QED BY <2>1, <2>4, <2>5
<1> QED BY <1>4, <1>5

-----------------------------------------------------------------------------
(* The program's part.                                                     *)

LEMMA ChapterShape ==
  ASSUME NEW todo \in Chapters
  PROVE  /\ Head(todo) \in Story /\ Len(todo) \in Nat
         /\ Len(todo) = 1 => Head(todo) = Resolved
         /\ Len(todo) # 1 => Tail(todo) \in Chapters
         /\ Len(todo) # 1 /\ Len(Tail(todo)) <= 2 => Len(todo) <= 2 \/ Head(todo) = Known
<1>1. CASE todo = <<NewState, Asked, Known, Classified, Resolved>>
  BY <1>1 DEF Chapters, Story
<1>2. CASE todo = <<Asked, Known, Classified, Resolved>>
  BY <1>2 DEF Chapters, Story
<1>3. CASE todo = <<Known, Classified, Resolved>>
  BY <1>3 DEF Chapters, Story
<1>4. CASE todo = <<Classified, Resolved>>
  BY <1>4 DEF Chapters, Story
<1>5. CASE todo = <<Resolved>>
  BY <1>5 DEF Chapters, Story
<1> QED BY <1>1, <1>2, <1>3, <1>4, <1>5 DEF Chapters

LEMMA ChapterStories ==
  ASSUME NEW todo \in Chapters
  PROVE  todo \in Seq(Story) /\ todo # <<>>
<1>0. PICK a \in Story, b \in Story, c \in Story, d \in Story, e \in Story :
        Chapters = {<<a, b, c, d, e>>, <<b, c, d, e>>, <<c, d, e>>, <<d, e>>, <<e>>}
  BY DEF Chapters, Story
<1>1. CASE todo = <<a, b, c, d, e>>
  BY <1>1
<1>2. CASE todo = <<b, c, d, e>>
  BY <1>2
<1>3. CASE todo = <<c, d, e>>
  BY <1>3
<1>4. CASE todo = <<d, e>>
  BY <1>4
<1>5. CASE todo = <<e>>
  BY <1>5
<1> QED BY <1>0, <1>1, <1>2, <1>3, <1>4, <1>5

LEMMA LastOfTail ==
  ASSUME NEW S, NEW todo \in Seq(S), todo # <<>>
  PROVE  /\ Len(todo) = 1 => Head(todo) = todo[Len(todo)]
         /\ Len(todo) # 1 => /\ Tail(todo) \in Seq(S) /\ Tail(todo) # <<>>
                             /\ Tail(todo)[Len(Tail(todo))] = todo[Len(todo)]
<1>1. PICK n \in Nat : n = Len(todo) /\ n # 0
  OBVIOUS
<1>2. CASE n = 1
  BY <1>1, <1>2
<1>3. CASE n # 1
  <2>1. PICK tail : tail = Tail(todo)
    OBVIOUS
  <2>2. /\ tail \in Seq(S) /\ Len(tail) = n - 1
        /\ \A i \in 1 .. n - 1 : tail[i] = todo[i + 1]
    BY <1>1, <1>3, <2>1
  <2>3. n - 1 \in 1 .. n - 1 /\ tail[n - 1] = todo[n]
    BY <1>1, <1>3, <2>2
  <2>4. tail # <<>>
    BY <1>1, <1>3, <2>2
  <2> QED BY <1>1, <1>3, <2>1, <2>2, <2>3, <2>4
<1> QED BY <1>2, <1>3

LEMMA SameStore ==
  ASSUME db' = db, kept' = kept
  PROVE  /\ Emptied => Emptied'
         /\ StoryKept => StoryKept'
         /\ KnownHere => KnownHere'
         /\ \A cfg, values : Names(cfg, values) => Names(cfg, values)'
         /\ \A i, values : Holding(i, values) => Holding(i, values)'
BY DEF Emptied, StoryKept, KnownHere, Names, Holding, Stored, Cp, CpKey, ConfigAt, TupleConfig

LEMMA SameTale ==
  ASSUME Tale, prog' = prog, db' = db, kept' = kept
  PROVE  Tale'
<1>1. FirstRun => FirstRun'
  BY SameStore DEF FirstRun
<1>2. SecondRun => SecondRun'
  BY SameStore DEF SecondRun
<1>3. Stored(Pointer) => Stored(Pointer)'
  BY DEF Stored, Pointer, LatestKey
<1> QED BY <1>1, <1>2, <1>3, SameStore DEF Tale, Later, ForkSucceeds

LEMMA SavingTale ==
  ASSUME Grounds, Tale, prog.at = "save", prog' = prog,
         \A k \in Key : k.set = "cp" /\ Stored(k) => db'[k] = db[k] /\ kept'[k.id] = kept[k.id],
         \A i \in Id : Stored(Cp(i))' => Stored(Cp(i)) \/ kept'[i] = Head(prog.todo)
  PROVE  Tale'
<1>1. \A i \in Id : Stored(Cp(i)) => Stored(Cp(i))' /\ kept'[i] = kept[i]
  BY OwnKeys DEF Stored
<1>2. \A values : \A i \in Id : Holding(i, values) => Holding(i, values)'
  BY <1>1 DEF Holding
<1>3. \A cfg, values : Names(cfg, values) => Names(cfg, values)'
  BY <1>2 DEF Names
<1>4. prog.back = "final" \/ prog.back = "handoff"
  BY DEF Grounds, ControlOK
<1>5. CASE prog.back = "final"
  <2>1. FirstRun
    BY <1>5 DEF Tale
  <2>2. StoryKept'
    <3>1. Head(prog.todo) \in Story
      BY <2>1, ChapterShape DEF FirstRun
    <3> QED BY <1>1, <2>1, <3>1 DEF FirstRun, StoryKept
  <2>3. KnownHere => KnownHere'
    BY <1>2 DEF KnownHere
  <2>4. FirstRun'
    BY <2>1, <2>2, <2>3 DEF FirstRun
  <2> QED BY <1>5, <2>4 DEF Tale, Later, ForkSucceeds
<1>6. CASE prog.back = "handoff"
  <2>1. SecondRun'
    BY <1>3, <1>6 DEF Tale, Later, SecondRun
  <2> QED BY <1>3, <1>6, <2>1 DEF Tale, Later, ForkSucceeds
<1> QED BY <1>4, <1>5, <1>6

\* The answer to a get whose target is there.
LEMMA GetAnswers ==
  ASSUME Grounds, World, call[me].pc = "done", NEW cfg \in Ours, call[me].req = GetRequest(cfg),
         NEW i \in Id, Stored(Cp(i)),
         IdOf(cfg) = i \/ (IdOf(cfg) = NoId /\ Stored(Pointer) /\ db[Pointer].id = i)
  PROVE  /\ Tuples # <<>> /\ 1 \in DOMAIN Tuples /\ Tuples[1].id = i
         /\ Values = kept[i] /\ ConfigOf(Tuples[1]) = ConfigAt(i)
<1>1. PICK r : r = call[me].req
  OBVIOUS
<1>2. /\ r \in GetReq /\ r.t = THREAD_ID /\ r.ns = CHECKPOINT_NS /\ r.id = IdOf(cfg)
  BY <1>1, GetOfConfig DEF Ours, GetRequest
<1>3. Target(r) = {i} /\ i \in StoredIds(r)
  BY <1>2, NoIdAssumption DEF Target, StoredIds, Pointer, Cp
<1>4. Seen(call[me]) /\ OnTarget(call[me])
  BY <1>1, <1>2 DEF World, Bringing
<1>5. Tuples # <<>>
  BY <1>1, <1>3, <1>4 DEF OnTarget, Tuples
<1>6. 1 \in DOMAIN Tuples
  <2>1. Tuples \in Seq(Tuple)
    BY ProgramAssumption DEF Grounds, TypeOK, CallState, Tuples
  <2> QED BY <1>5, <2>1
<1>7. Tuples[1].id = i /\ Tuples[1].ns = CHECKPOINT_NS
  BY <1>1, <1>2, <1>3, <1>4, <1>6 DEF OnTarget, Seen, Tuples
<1> QED BY <1>1, <1>2, <1>5, <1>6, <1>7 DEF Values, ConfigOf, ConfigAt

\* The first turn finds nothing to load.
LEMMA NothingLoaded ==
  ASSUME Grounds, World, Tale, prog.at = "load", call[me].pc = "done", prog.back = "final"
  PROVE  /\ Tuples = <<>> /\ prog.input = ORIGINAL_REQUEST /\ prog.cfg \in ProdConfigs
         /\ \A i \in Id : ~Stored(Cp(i))
<1>1. Emptied /\ prog.input = ORIGINAL_REQUEST /\ prog.cfg \in ProdConfigs
  BY DEF Tale, FirstRun
<1>2. \A i \in Id : ~Stored(Cp(i))
  <2>1. \A i \in Id : Cp(i).t = THREAD_ID
    BY DEF Cp, CpKey
  <2> QED BY <1>1, <2>1, OwnKeys DEF Emptied
<1>3. PICK r : r = call[me].req
  OBVIOUS
<1>4. r \in GetReq /\ r.t = THREAD_ID /\ r.ns = CHECKPOINT_NS
  <2>1. r = GetRequest(prog.cfg) /\ prog.cfg \in Ours
    BY <1>3, OursAtWork DEF Grounds, AskedOK, Asking
  <2> QED BY <2>1, GetOfConfig DEF Ours, GetRequest
<1>5. Seen(call[me])
  BY <1>3, <1>4 DEF World, Bringing
<1>6. StoredIds(r) = {}
  BY <1>2, <1>4 DEF StoredIds, Cp
<1>7. DOMAIN Tuples = {}
  BY <1>3, <1>5, <1>6 DEF Seen, Tuples
<1>8. Tuples \in Seq(Tuple)
  BY ProgramAssumption DEF Grounds, TypeOK, CallState, Tuples
<1>9. Tuples = <<>>
  BY <1>7, <1>8
<1> QED BY <1>1, <1>2, <1>9

\* A graph begins its turn on the checkpoint that its config names, or afresh.
LEMMA BeginTale ==
  ASSUME Grounds, World, Tale, BeginTurn(SupportTurns(Values, prog.input))
  PROVE  Tale'
<1>1. /\ prog.at = "load" /\ call[me].pc = "done" /\ Return(me) /\ kept' = kept
      /\ DOMAIN prog = Fields /\ prog.back \in {"final", "handoff"}
  BY DEF BeginTurn, Answered, At, Grounds, ControlOK
<1>2. db' = db
  BY <1>1 DEF Return
<1>3. call[me].req = GetRequest(prog.cfg) /\ prog.cfg \in Ours
  BY <1>1, OursAtWork DEF Grounds, AskedOK, Asking
<1>4. PICK turn \in SupportTurns(Values, prog.input) : \E last :
        prog' = [prog EXCEPT !.at = "save", !.todo = turn, !.last = last]
  BY DEF BeginTurn
<1>5. /\ prog'.at = "save" /\ prog'.todo = turn /\ prog'.back = prog.back /\ prog'.cfg = prog.cfg
      /\ prog'.fork = prog.fork /\ prog'.final = prog.final /\ prog'.original = prog.original
  BY <1>1, <1>4 DEF Fields
<1>6. CASE prog.back = "final"
  <2>1. Emptied
    BY <1>1, <1>6 DEF Tale, FirstRun
  <2>2. /\ Tuples = <<>> /\ prog.input = ORIGINAL_REQUEST /\ prog.cfg \in ProdConfigs
        /\ \A i \in Id : ~Stored(Cp(i))
    BY <1>1, <1>6, NothingLoaded
  <2>4. turn = <<NewState, Asked, Known, Classified, Resolved>>
    BY <1>4, <2>2, OriginalTurn DEF Values
  <2>5. turn \in Chapters /\ ~(Len(turn) <= 2)
    BY <2>4 DEF Chapters
  <2>6. StoryKept'
    BY <1>2, <2>2 DEF StoryKept, Stored, Cp, CpKey
  <2>7. FirstRun'
    BY <1>5, <2>2, <2>5, <2>6 DEF FirstRun
  <2> QED BY <1>5, <1>6, <2>7 DEF Tale, Later, ForkSucceeds
<1>7. CASE prog.back = "handoff"
  <2>1. /\ SecondRun /\ prog.cfg = prog.fork /\ prog.input = CORRECTED_REQUEST
        /\ prog.original = Resolved /\ Names(prog.final, {Resolved})
        /\ Names(prog.fork, {Known, Classified})
    BY <1>1, <1>7 DEF Tale, Later, SecondRun
  <2>2. PICK i \in Id : i = IdOf(prog.cfg) /\ Holding(i, {Known, Classified})
    BY <2>1, NamesOurs
  <2>3. Values \in {Known, Classified}
    BY <1>1, <1>3, <2>2, GetAnswers DEF Holding
  <2>4. turn \in Seq(SupportState) /\ turn # <<>> /\ turn[Len(turn)] \in Corrected
    BY <1>4, <2>1, <2>3, CorrectedTurn
  <2>5. Names(prog.final, {Resolved})' /\ Names(prog.fork, {Known, Classified})'
    <3>1. PICK final, fork : final = prog.final /\ fork = prog.fork
      OBVIOUS
    <3>2. Names(final, {Resolved})' /\ Names(fork, {Known, Classified})'
      BY <1>1, <1>2, <2>1, <3>1, SameStore
    <3> QED BY <1>5, <3>1, <3>2 DEF Names
  <2>6. SecondRun'
    BY <1>5, <2>1, <2>4, <2>5 DEF SecondRun
  <2> QED BY <1>5, <1>7, <2>1, <2>5, <2>6 DEF Tale, Later, ForkSucceeds
<1> QED BY <1>1, <1>6, <1>7

LEMMA SavedTale ==
  ASSUME Grounds, World, Tale, CheckpointSaved
  PROVE  Tale'
<1>1. /\ prog.at = "save" /\ call[me].pc = "done" /\ Return(me) /\ kept' = kept
      /\ DOMAIN prog = Fields /\ prog.back \in {"final", "handoff"}
  BY DEF CheckpointSaved, Answered, At, Grounds, ControlOK
<1>2. db' = db
  BY <1>1 DEF Return
<1>3. PICK i \in Id : i = call[me].req.id
  BY <1>1, RequestKinds
<1>4. Holding(i, {Head(prog.todo)}) /\ Stored(Pointer) /\ db[Pointer].id = i
  BY <1>1, <1>3 DEF World, Putting, Holding
<1>5. PICK at : /\ at = IF Len(prog.todo) = 1 THEN prog.back ELSE "save"
                /\ prog' = [prog EXCEPT !.last = i, !.todo = Tail(@), !.state = Head(prog.todo),
                              !.at = at]
  BY <1>3 DEF CheckpointSaved
<1>6. /\ prog'.at = at /\ prog'.todo = Tail(prog.todo) /\ prog'.state = Head(prog.todo)
      /\ prog'.back = prog.back /\ prog'.cfg = prog.cfg
      /\ prog'.fork = prog.fork /\ prog'.final = prog.final /\ prog'.original = prog.original
  BY <1>1, <1>5 DEF Fields
<1>7. CASE prog.back = "final"
  <2>1. /\ prog.todo \in Chapters /\ StoryKept /\ prog.cfg \in ProdConfigs
        /\ Len(prog.todo) <= 2 => KnownHere
    BY <1>1, <1>7 DEF Tale, FirstRun
  <2>2. StoryKept' /\ (KnownHere => KnownHere')
    BY <1>1, <1>2, <2>1, SameStore
  <2>3. CASE Len(prog.todo) = 1
    <3>1. Head(prog.todo) = Resolved /\ KnownHere
      BY <2>1, <2>3, ChapterShape
    <3>2. Stored(Pointer)' /\ db'[Pointer].id = i /\ Holding(i, {Resolved})'
      BY <1>1, <1>2, <1>4, <3>1, SameStore DEF Stored, Pointer, LatestKey
    <3>3. prog'.at = "final" /\ prog'.state = Resolved
      BY <1>5, <1>6, <1>7, <2>3, <3>1
    <3>4. \E j \in Id : db'[Pointer].id = j /\ Holding(j, {Resolved})'
      BY <3>2
    <3> QED BY <2>2, <3>1, <3>2, <3>3, <3>4 DEF Tale, Later, ForkSucceeds, Pointer, LatestKey
  <2>4. CASE Len(prog.todo) # 1
    <3>1. prog'.at = "save" /\ Tail(prog.todo) \in Chapters
      BY <1>5, <1>6, <2>1, <2>4, ChapterShape
    <3>2. Len(Tail(prog.todo)) <= 2 => KnownHere
      <4>1. Head(prog.todo) = Known => KnownHere
        BY <1>4 DEF KnownHere
      <4> QED BY <2>1, <2>4, <4>1, ChapterShape
    <3>3. FirstRun'
      BY <1>6, <2>1, <2>2, <3>1, <3>2 DEF FirstRun
    <3> QED BY <1>6, <1>7, <3>1, <3>3 DEF Tale, Later, ForkSucceeds
  <2> QED BY <2>3, <2>4
<1>8. CASE prog.back = "handoff"
  <2>1. /\ SecondRun /\ prog.original = Resolved /\ Names(prog.final, {Resolved})
    BY <1>1, <1>8 DEF Tale, Later
  <2>2. /\ prog.todo \in Seq(SupportState) /\ prog.todo # <<>>
        /\ prog.todo[Len(prog.todo)] \in Corrected /\ prog.cfg = prog.fork
        /\ Names(prog.fork, {Known, Classified})
    BY <1>1, <2>1 DEF SecondRun
  <2>3. Names(prog.final, {Resolved})' /\ Names(prog.fork, {Known, Classified})'
    <3>1. PICK final, fork : final = prog.final /\ fork = prog.fork
      OBVIOUS
    <3>2. Names(final, {Resolved})' /\ Names(fork, {Known, Classified})'
      BY <1>1, <1>2, <2>1, <2>2, <3>1, SameStore
    <3> QED BY <1>6, <3>1, <3>2 DEF Names
  <2>4. CASE Len(prog.todo) = 1
    <3>1. prog'.at = "handoff" /\ prog'.state \in Corrected
      BY <1>5, <1>6, <1>8, <2>2, <2>4, LastOfTail
    <3>2. SecondRun'
      BY <2>3, <3>1 DEF SecondRun
    <3> QED BY <1>6, <2>1, <2>3, <3>1, <3>2 DEF Tale, Later, ForkSucceeds
  <2>5. CASE Len(prog.todo) # 1
    <3>1. /\ prog'.at = "save" /\ prog'.todo \in Seq(SupportState) /\ prog'.todo # <<>>
          /\ prog'.todo[Len(prog'.todo)] \in Corrected
      BY <1>5, <1>6, <2>2, <2>5, LastOfTail
    <3>2. SecondRun'
      BY <1>6, <2>2, <2>3, <3>1 DEF SecondRun
    <3> QED BY <1>6, <1>8, <2>1, <2>3, <3>1, <3>2 DEF Tale, Later, ForkSucceeds
  <2> QED BY <2>4, <2>5
<1> QED BY <1>1, <1>7, <1>8

\* An answer taken leaves the store as it is.
LEMMA Taken ==
  ASSUME Grounds, NEW at, Answered(at)
  PROVE  /\ prog.at = at /\ call[me].pc = "done" /\ db' = db /\ DOMAIN prog = Fields
         /\ Asking(at, call[me].req)
BY DEF Grounds, AskedOK, ControlOK, Answered, At, Return

\* The first turn starts on a thread of which nothing is left.
LEMMA FirstTale ==
  ASSUME Grounds, World, DeleteIsComplete, FirstTurn
  PROVE  Tale'
<1>1. prog.at = "clean" /\ call[me].pc = "done" /\ db' = db /\ DOMAIN prog = Fields
  BY Taken DEF FirstTurn
<1>2. PICK cfg \in ProdConfigs : prog' = Invoking(cfg, ORIGINAL_REQUEST, "final")
  BY DEF FirstTurn
<1>3. /\ prog'.at = "load" /\ prog'.cfg = cfg /\ prog'.input = ORIGINAL_REQUEST
      /\ prog'.back = "final"
  BY <1>1, <1>2 DEF Invoking, Fields
<1>4. PICK r : r = call[me].req
  OBVIOUS
<1>5. r \in DeleteReq /\ r.t = THREAD_ID
  BY <1>1, <1>4, RequestKinds
<1>6. HoldsAll(r, held[me])
  BY <1>1, <1>4, <1>5 DEF World, Bringing
<1>7. \A k \in Key : Stored(k) => k.t # THREAD_ID
  BY <1>1, <1>4, <1>5, <1>6, AllDeleted, ProgramAssumption
<1>8. Emptied'
  BY <1>1, <1>7 DEF Emptied, Stored
<1> QED BY <1>3, <1>8 DEF Tale, Later, FirstRun, ForkSucceeds

LEMMA ProdIsOurs == ProdConfig(NoMetadata) \in Ours /\ IdOf(ProdConfig(NoMetadata)) = NoId
BY ProdConfigNames, ProdIsProd

\* What is read after the first turn is the checkpoint that ends it.
LEMMA FinalFound ==
  ASSUME Grounds, World, Tale, RememberFinal
  PROVE  prog' = [prog EXCEPT !.at = "history", !.original = prog.state, !.final = ConfigAt(db[Pointer].id)]
<1>1. /\ prog.at = "final" /\ call[me].pc = "done" /\ call[me].req = GetRequest(ProdConfig(NoMetadata))
  BY Taken DEF RememberFinal, Asking
<1>2. PICK i \in Id : Stored(Pointer) /\ db[Pointer].id = i /\ Stored(Cp(i))
  BY <1>1 DEF Tale, Holding
<1>3. Tuples # <<>> /\ ConfigOf(Tuples[1]) = ConfigAt(i)
  BY <1>1, <1>2, ProdIsOurs, GetAnswers
<1> QED BY <1>2, <1>3 DEF RememberFinal

LEMMA FinalTale ==
  ASSUME Grounds, World, Tale, RememberFinal
  PROVE  Tale'
<1>1. /\ prog.at = "final" /\ db' = db /\ DOMAIN prog = Fields /\ kept' = kept
  BY Taken DEF RememberFinal
<1>2. StoryKept /\ KnownHere /\ prog.state = Resolved
  BY <1>1 DEF Tale
<1>3. PICK i \in Id : db[Pointer].id = i /\ Holding(i, {Resolved})
  BY <1>1 DEF Tale
<1>5. prog' = [prog EXCEPT !.at = "history", !.original = prog.state, !.final = ConfigAt(i)]
  BY <1>3, FinalFound
<1>6. prog'.at = "history" /\ prog'.original = Resolved /\ prog'.final = ConfigAt(i)
  BY <1>1, <1>2, <1>5 DEF Fields
<1>7. StoryKept' /\ KnownHere' /\ Holding(i, {Resolved})'
  BY <1>1, <1>2, <1>3, SameStore
<1>8. Names(prog.final, {Resolved})'
  BY <1>6, <1>7 DEF Names, ConfigAt, TupleConfig
<1> QED BY <1>6, <1>7, <1>8 DEF Tale, Later, ForkSucceeds

\* The history holds the checkpoint where the order was known, so that one
\* like it is found.
LEMMA HistoryTale ==
  ASSUME Grounds, World, Tale, ReadInv, FindForkPoint
  PROVE  Tale'
<1>1. /\ prog.at = "history" /\ call[me].pc = "done" /\ db' = db /\ DOMAIN prog = Fields
      /\ kept' = kept /\ call[me].req = ListRequest(ProdConfig(NoMetadata))
  BY Taken DEF FindForkPoint, Asking
<1>2. /\ StoryKept /\ KnownHere
      /\ prog.original = Resolved /\ Names(prog.final, {Resolved})
  BY <1>1 DEF Tale
<1>3. PICK r : r = call[me].req
  OBVIOUS
<1>4. /\ r \in ListReq /\ r.t = THREAD_ID /\ r.ns = CHECKPOINT_NS
      /\ r.filter = NoMeta /\ r.before = NoId /\ r.limit = NoLimit
  BY <1>1, <1>3, HistoryRequest
<1>5. Seen(call[me]) /\ HoldsAll(r, held[me])
  BY <1>1, <1>3, <1>4 DEF World, Bringing
<1>6. Tuples \in Seq(Tuple)
  BY ProgramAssumption DEF Grounds, TypeOK, CallState, Tuples
<1>7. \A j \in DOMAIN Tuples :
        /\ Tuples[j].id \in Id /\ Tuples[j].ns = CHECKPOINT_NS /\ Stored(Cp(Tuples[j].id))
  BY <1>3, <1>4, <1>5 DEF Seen, StoredIds, Tuples, Cp
<1>8. PICK known \in Id : Stored(Cp(known)) /\ kept[known] = Known
  BY <1>2 DEF KnownHere, Holding
<1>9. PICK n \in DOMAIN Tuples : Tuples[n].id = known
  <2>1. known \in StoredIds(r)
    BY <1>4, <1>8 DEF StoredIds, Cp
  <2>2. known \in Outs(call[me])
    BY <1>1, <1>3, <1>4, <1>5, <2>1, AllListed, ProgramAssumption
  <2> QED BY <2>2 DEF Outs, Tuples
<1>10. Tuples # <<>>
  BY <1>6, <1>9
<1>11. PICK m \in DOMAIN Tuples : /\ ForkPoint(Tuples) = Tuples[m]
                                 /\ \A j \in DOMAIN Tuples :
                                      Reusable(kept[Tuples[j].id]) => Reusable(kept[Tuples[m].id])
  BY <1>6, <1>10, ForkPointIsOne
<1>12. PICK i \in Id : i = Tuples[m].id
  BY <1>7
<1>13. Holding(i, {Known, Classified})
  <2>1. Reusable(kept[i])
    BY <1>8, <1>9, <1>11, <1>12, KnownIsReusable
  <2>2. Stored(Cp(i)) /\ kept[i] \in Story
    BY <1>2, <1>7, <1>12 DEF StoryKept
  <2> QED BY <2>1, <2>2, ReusableStory DEF Holding
<1>14. ConfigOf(ForkPoint(Tuples)) = ConfigAt(i)
  BY <1>3, <1>4, <1>7, <1>11, <1>12 DEF ConfigOf, ConfigAt
<1>15. prog' = [prog EXCEPT !.at = "rehydrate", !.fork = ConfigAt(i)]
  BY <1>10, <1>14 DEF FindForkPoint
<1>16. /\ prog'.at = "rehydrate" /\ prog'.fork = ConfigAt(i)
       /\ prog'.original = Resolved /\ prog'.final = prog.final
  BY <1>1, <1>2, <1>15 DEF Fields
<1>17. Names(prog.fork, {Known, Classified})'
  <2>1. Holding(i, {Known, Classified})'
    BY <1>1, <1>13, SameStore
  <2> QED BY <1>16, <2>1 DEF Names, ConfigAt, TupleConfig
<1>18. Names(prog.final, {Resolved})'
  <2>1. PICK final : final = prog.final
    OBVIOUS
  <2>2. Names(final, {Resolved})'
    BY <1>1, <1>2, <2>1, SameStore
  <2> QED BY <1>16, <2>1, <2>2 DEF Names
<1>19. SecondRun'
  BY <1>16, <1>17 DEF SecondRun
<1> QED BY <1>16, <1>18, <1>19 DEF Tale, Later, ForkSucceeds

\* The second turn starts on the checkpoint found.
LEMMA ForkTale ==
  ASSUME Grounds, World, Tale, ForkTurn
  PROVE  Tale'
<1>1. /\ prog.at = "rehydrate" /\ db' = db /\ DOMAIN prog = Fields /\ kept' = kept
      /\ prog' = Invoking(prog.fork, CORRECTED_REQUEST, "handoff")
  BY Taken DEF ForkTurn
<1>2. /\ prog'.at = "load" /\ prog'.cfg = prog.fork /\ prog'.input = CORRECTED_REQUEST
      /\ prog'.back = "handoff" /\ prog'.fork = prog.fork /\ prog'.final = prog.final
      /\ prog'.original = prog.original
  BY <1>1 DEF Invoking, Fields
<1>3. prog.original = Resolved /\ Names(prog.final, {Resolved}) /\ SecondRun
  BY <1>1 DEF Tale, Later
<1>4. Names(prog.final, {Resolved})' /\ Names(prog.fork, {Known, Classified})'
  <2>1. PICK final, fork : final = prog.final /\ fork = prog.fork
    OBVIOUS
  <2>2. Names(final, {Resolved})' /\ Names(fork, {Known, Classified})'
    BY <1>1, <1>3, <2>1, SameStore DEF SecondRun
  <2> QED BY <1>2, <2>1, <2>2 DEF Names
<1>5. SecondRun'
  BY <1>2, <1>4 DEF SecondRun
<1> QED BY <1>2, <1>3, <1>4, <1>5 DEF Tale, Later, ForkSucceeds

\* The guardrails hold: the first resolution is still there and the second
\* differs in nothing but the intent.
LEMMA HandoffTale ==
  ASSUME Grounds, World, Tale, WriteHandoff
  PROVE  Tale'
<1>1. /\ prog.at = "handoff" /\ call[me].pc = "done" /\ DOMAIN prog = Fields
      /\ call[me].req = GetRequest(prog.final)
  BY Taken DEF WriteHandoff, Asking
<1>2. /\ prog.original = Resolved /\ Names(prog.final, {Resolved}) /\ prog.state \in Corrected
  BY <1>1 DEF Tale, Later, SecondRun
<1>3. PICK i \in Id : /\ prog.final \in Ours /\ IdOf(prog.final) = i
                      /\ Stored(Cp(i)) /\ kept[i] = Resolved
  BY <1>2, NamesOurs DEF Holding
<1>4. Values = Resolved
  BY <1>1, <1>3, GetAnswers
<1>5. Resolved # Blank
  BY StoryTypes, ValuesApart
<1>6. PICK fine \in BOOLEAN :
        /\ prog' = [prog EXCEPT !.at = "end", !.exit = IF fine THEN 0 ELSE 1]
        /\ fine = (/\ Resolved.resolution = prog.original.resolution
                   /\ prog.state.resolution # prog.original.resolution
                   /\ prog.state.order = prog.original.order)
  BY <1>4, <1>5 DEF WriteHandoff
<1>7. /\ prog.state.order = Resolved.order
      /\ prog.state.resolution # Resolved.resolution
  <2>1. /\ prog.state.order = "ORD-10482" /\ prog.state.resolution = <<"replacement", "ORD-10482">>
        /\ Resolved.order = "ORD-10482" /\ Resolved.resolution = <<"refund", "ORD-10482">>
    BY <1>2, StoryTypes DEF Corrected
  <2>2. <<"replacement", "ORD-10482">> # <<"refund", "ORD-10482">>
    OBVIOUS
  <2> QED BY <2>1, <2>2
<1>8. fine
  BY <1>2, <1>6, <1>7
<1>9. prog' = [prog EXCEPT !.at = "end", !.exit = 0]
  BY <1>6, <1>8
<1>10. prog'.at = "end" /\ prog'.exit = 0
  BY <1>1, <1>9 DEF Fields
<1> QED BY <1>10 DEF Tale, Later, ForkSucceeds

LEMMA CleanTale ==
  ASSUME prog'.at = "clean"
  PROVE  Tale'
BY DEF Tale, Later, ForkSucceeds

\* Saving adds what is being saved.
LEMMA SaverTale ==
  ASSUME Grounds, World, Tale, ForkNext, SaverStep(me)
  PROVE  Tale'
<1>1. Working(me) /\ Step(me) /\ prog' = prog /\ kept' = kept
  BY DEF SaverStep, progVars
<1>2. CASE prog.at = "clean"
  BY <1>1, <1>2, CleanTale
<1>3. CASE prog.at \notin {"clean", "save"}
  BY <1>1, <1>3, ReadStep, SameTale
<1>4. CASE prog.at = "save"
  <2>1. PICK c : c = call[me] /\ Putting(c) /\ c.req.id \in Id
    BY <1>1, <1>4, PutStep DEF World, Working
  <2>2. kept'[c.req.id] = Head(prog.todo)
    BY <1>1, <2>1 DEF Putting
  <2>3. \A i \in Id : i # c.req.id => db'[Cp(i)] = db[Cp(i)]
    BY <1>1, <1>4, <2>1, OnlySaved
  <2>4. \A i \in Id : Stored(Cp(i))' => Stored(Cp(i)) \/ kept'[i] = Head(prog.todo)
    BY <2>2, <2>3 DEF Stored, Cp, CpKey
  <2>5. \A k \in Key : k.set = "cp" /\ Stored(k) => db'[k] = db[k] /\ kept'[k.id] = kept[k.id]
    BY <1>4, Undisturbed
  <2> QED BY <1>1, <1>4, <2>4, <2>5, SavingTale
<1> QED BY <1>2, <1>3, <1>4

LEMMA SaveTale ==
  ASSUME Grounds, World, Tale, ForkNext, SaveCheckpoint
  PROVE  Tale'
<1>1. prog.at = "save" /\ prog' = prog /\ db' = db
  BY DEF SaveCheckpoint, Begin
<1>2. \A k \in Key : k.set = "cp" /\ Stored(k) => db'[k] = db[k] /\ kept'[k.id] = kept[k.id]
  BY <1>1, Undisturbed
<1>3. \A i \in Id : Stored(Cp(i))' => Stored(Cp(i))
  BY <1>1 DEF Stored, Cp, CpKey
<1> QED BY <1>1, <1>2, <1>3, SavingTale

\* The calls other than put.
LEMMA ProgramAsks ==
  ASSUME Grounds, ForkNext, DeleteThread(THREAD_ID) \/ AskFinal \/ AskHistory \/ AskRehydrated
                              \/ AskBefore \/ LoadCheckpoint
  PROVE  /\ prog' = prog /\ kept' = kept /\ db' = db /\ prog.at # "save"
         /\ \E r \in Calls[me] : Begin(me, r) /\ r \in GetReq \cup ListReq \cup DeleteReq
<1>1. PICK at, r : /\ Asks(at, r) /\ at # "save"
                   /\ r \in Calls[me] /\ r \in GetReq \cup ListReq \cup DeleteReq
  <2>1. CASE DeleteThread(THREAD_ID)
    BY <2>1, DeleteOfThread, ForkAssumption DEF DeleteThread
  <2>2. CASE AskHistory
    BY <2>2, HistoryRequest DEF AskHistory
  <2>3. CASE AskFinal \/ AskRehydrated \/ AskBefore \/ LoadCheckpoint
    <3>1. \E at \in Place : \E cfg \in Naming : Asks(at, GetRequest(cfg)) /\ at # "save"
      <4>1. ProdConfig(NoMetadata) \in Naming
        BY ProdIsOurs DEF Ours
      <4>2. /\ prog.cfg \in Naming
            /\ prog.at = "rehydrate" => prog.fork \in Naming
            /\ prog.at = "handoff" => prog.final \in Naming
        BY DEF Grounds, ControlOK, Later
      <4> QED BY <2>3, <4>1, <4>2 DEF AskFinal, AskRehydrated, AskBefore, LoadCheckpoint, Asks, Place
    <3> QED BY <3>1, GetOfConfig
  <2> QED BY <2>1, <2>2, <2>3
<1> QED BY <1>1 DEF Asks, progVars, Begin

-----------------------------------------------------------------------------
(* The inductive invariant.                                                *)

LEMMA ForkStep ==
  Grounds /\ World /\ Tale /\ ReadInv /\ DeleteIsComplete /\ [ForkNext]_allVars => World' /\ Tale'
<1> SUFFICES ASSUME Grounds, World, Tale, ReadInv, DeleteIsComplete, [ForkNext]_allVars
             PROVE  World' /\ Tale'
  OBVIOUS
<1>1. CASE UNCHANGED allVars
  <2>1. World'
    BY <1>1, ZenonT(60) DEF allVars, World, AllFresh, Fresh, Stored, Bringing, Seen, OnTarget, StoredIds,
        Target, HoldsAll, InScope, Putting, Cp, Pointer, CpKey, LatestKey
  <2>2. Tale'
    BY <1>1, SameTale DEF allVars
  <2> QED BY <2>1, <2>2
<1>2. CASE ForkNext /\ (\/ DeleteThread(THREAD_ID) \/ AskFinal \/ AskHistory \/ AskRehydrated
                         \/ AskBefore \/ LoadCheckpoint)
  <2>1. prog' = prog /\ kept' = kept /\ db' = db /\ prog.at # "save"
    BY <1>2, ProgramAsks
  <2>2. PICK r \in Calls[me] : Begin(me, r) /\ r \in GetReq \cup ListReq \cup DeleteReq
    BY <1>2, ProgramAsks
  <2>3. World'
    BY <2>1, <2>2, BeginWorld
  <2> QED BY <2>1, <2>3, SameTale
<1>3. CASE ForkNext /\ SaveCheckpoint
  <2>1. PICK r \in Calls[me] : /\ Begin(me, r) /\ Asking("save", r) /\ prog.at = "save"
                               /\ prog' = prog /\ r.id = NewId /\ NewId \in Id /\ NewId \notin Used
    BY <1>3, SavedRequest DEF Grounds
  <2>2. kept'[r.id] = Head(prog.todo) /\ r \in PutReq
    BY <1>3, <2>1 DEF SaveCheckpoint, Asking
  <2>3. World'
    BY <2>1, <2>2, BeginWorld
  <2> QED BY <1>3, <2>3, SaveTale
<1>4. CASE ForkNext /\ SaverStep(me)
  <2>1. Next
    BY <1>4, ProgramAssumption DEF SaverStep, Next
  <2> QED BY <1>4, <2>1, StepWorld, SaverTale
<1>5. CASE FirstTurn \/ RememberFinal \/ FindForkPoint \/ ForkTurn \/ WriteHandoff
             \/ BeginTurn(SupportTurns(Values, prog.input)) \/ CheckpointSaved
  <2>1. Return(me)
    BY <1>5 DEF FirstTurn, RememberFinal, FindForkPoint, ForkTurn, WriteHandoff, BeginTurn,
        CheckpointSaved, Answered
  <2> QED BY <1>5, <2>1, RestWorld, FirstTale, FinalTale, HistoryTale, ForkTale, HandoffTale, BeginTale,
             SavedTale
<1>6. CASE RunAgain(Start)
  <2>1. Return(me) \/ (UNCHANGED vars /\ prog.at = "end")
    BY <1>6 DEF RunAgain
  <2>2. prog'.at = "clean"
    BY <1>6, StartControl DEF RunAgain
  <2> QED BY <2>1, <2>2, RestWorld, CleanTale
<1> QED BY <1>1, <1>2, <1>3, <1>4, <1>5, <1>6 DEF ForkNext, Invocation

LEMMA ForkStart == ForkInit => Grounds /\ World /\ Tale
<1> SUFFICES ASSUME ForkInit PROVE Grounds /\ World /\ Tale
  OBVIOUS
<1>1. Init /\ prog.at = "clean"
  BY StartControl DEF ForkInit
<1>2. Grounds
  BY ControlInit DEF Grounds
<1>3. AllFresh
  BY <1>1 DEF Init, AllFresh, Fresh, Stored
<1>4. \A p \in Proc : call[p].pc = "idle"
  BY <1>1 DEF Init, NoCall
<1>5. World
  BY <1>3, <1>4, ProgramAssumption DEF World
<1>6. Tale
  BY <1>1 DEF Tale, Later, ForkSucceeds
<1> QED BY <1>2, <1>5, <1>6

LEMMA ForkInvariant == ForkSpec => [](Grounds /\ World /\ Tale)
<1>1. Grounds /\ World /\ Tale /\ ReadInv /\ DeleteIsComplete /\ [ForkNext]_allVars
        => (Grounds /\ World /\ Tale)'
  <2> SUFFICES ASSUME Grounds, World, Tale, ReadInv, DeleteIsComplete, [ForkNext]_allVars
               PROVE  (Grounds /\ World /\ Tale)'
    OBVIOUS
  <2>1. [Next]_vars /\ ControlOK' /\ AskedOK'
    BY ControlStep DEF Grounds
  <2>2. TypeOK'
    BY <2>1, NextType DEF Grounds
  <2> QED BY <2>1, <2>2, ForkStep DEF Grounds
<1> QED BY <1>1, ForkStart, ForkUsesSaver, ReadInvariant, DeletesAreComplete, PTL DEF ForkSpec

(* A run of the program that no error ends exits with 0 (demo.py): the     *)
(* final checkpoint is there, the history is not empty and holds one with  *)
(* the order known, and the guardrails of write_handoff hold, wherever     *)
(* earlier runs were cut short.                                            *)
THEOREM ForkAlwaysSucceeds == ForkSpec => []ForkSucceeds
<1>1. Tale => ForkSucceeds
  BY DEF Tale
<1> QED BY <1>1, ForkInvariant, PTL

(* Once the thread is cleaned no step of the run changes a checkpoint that *)
(* is stored (AerospikeSaver.put writes under a new key, get_tuple and     *)
(* list renew what is as good as new).                                     *)
THEOREM ForkKeepsHistory == ForkSpec => HistoryIsKept
<1>1. Grounds /\ World /\ Tale /\ [ForkNext]_allVars =>
        [prog.at # "clean" =>
           \A k \in Key : k.set = "cp" /\ Stored(k) => db'[k] = db[k] /\ kept'[k.id] = kept[k.id]]_allVars
  <2> SUFFICES ASSUME Grounds, World, Tale, ForkNext, prog.at # "clean"
               PROVE  \A k \in Key : k.set = "cp" /\ Stored(k) => db'[k] = db[k] /\ kept'[k.id] = kept[k.id]
    OBVIOUS
  <2> QED BY Undisturbed
<1> QED BY <1>1, ForkInvariant, PTL DEF ForkSpec, HistoryIsKept
-----------------------------------------------------------------------------
(* Lineages.                                                               *)

\* Checkpoints that are stored, each the child of the one before.
Path(q) ==
  /\ q \in Seq(Id)
  /\ \A n \in DOMAIN q : Stored(Cp(q[n])) /\ db[Cp(q[n])].parent = IF n = 1 THEN NoId ELSE q[n - 1]

\* The function that Lineage describes is there: the least sets closed under
\* parents.
LEMMA LineExists ==
  ASSUME TypeOK
  PROVE  \E line : line = [j \in Id \cup {NoId} |-> IF j = NoId THEN {} ELSE {j} \cup line[ParentOf(j)]]
<1> DEFINE D == Id \cup {NoId}
           Closed(S) == S \subseteq D /\ \A j \in S : j # NoId => ParentOf(j) \in S
           Line(j) == {x \in D : x # NoId /\ \A S \in SUBSET D : Closed(S) /\ j \in S => x \in S}
<1>1. \A j \in Id : ParentOf(j) \in D
  BY OwnKeys DEF TypeOK, ParentOf, Stored, Record, Cp
<1>2. NoId \notin Id
  BY NoIdAssumption
<1>3. Line(NoId) = {}
  <2>1. Closed({NoId})
    OBVIOUS
  <2> QED BY <2>1
<1>4. ASSUME NEW j \in Id PROVE Line(j) = {j} \cup Line(ParentOf(j))
  <2>1. PICK up \in D : up = ParentOf(j)
    BY <1>1
  <2>2. ASSUME NEW S \in SUBSET D, Closed(S), j \in S PROVE up \in S
    BY <1>2, <2>1, <2>2
  <2>3. ASSUME NEW S \in SUBSET D, Closed(S), up \in S PROVE Closed(S \cup {j}) /\ S \cup {j} \in SUBSET D
    BY <2>1, <2>3
  <2>4. j \in Line(j)
    BY <1>2
  <2>5. ASSUME NEW x \in Line(up) PROVE x \in Line(j)
    <3> SUFFICES ASSUME NEW S \in SUBSET D, Closed(S), j \in S PROVE x \in S
      BY <2>5
    <3>1. up \in S
      BY <2>2
    <3> QED BY <2>5, <3>1
  <2>6. ASSUME NEW x \in Line(j), x # j PROVE x \in Line(up)
    <3> SUFFICES ASSUME NEW S \in SUBSET D, Closed(S), up \in S PROVE x \in S
      BY <2>6
    <3>1. Closed(S \cup {j}) /\ S \cup {j} \in SUBSET D /\ j \in S \cup {j}
      BY <2>3
    <3>2. x \in S \cup {j}
      <4> HIDE DEF Closed
      <4> QED BY <2>6, <3>1
    <3> QED BY <2>6, <3>2
  <2> HIDE DEF Line
  <2> QED BY <2>1, <2>4, <2>5, <2>6
<1>5. PICK line : line = [j \in D |-> Line(j)]
  OBVIOUS
<1>6. line = [j \in D |-> IF j = NoId THEN {} ELSE {j} \cup line[ParentOf(j)]]
  <2> HIDE DEF Line
  <2>1. \A j \in D : line[j] = Line(j)
    BY <1>5
  <2>2. ASSUME NEW j \in D PROVE line[j] = IF j = NoId THEN {} ELSE {j} \cup line[ParentOf(j)]
    BY <1>1, <1>3, <1>4, <2>1
  <2> QED BY <1>5, <2>2
<1> QED BY <1>6

\* The lineage of a checkpoint on a path is the path up to it.
LEMMA LineageOfPath ==
  ASSUME TypeOK, NEW q, Path(q), NEW n \in DOMAIN q
  PROVE  Lineage(q[n]) = {q[m] : m \in 1 .. n}
<1> DEFINE D == Id \cup {NoId}
           Fits(line) == line = [j \in D |-> IF j = NoId THEN {} ELSE {j} \cup line[ParentOf(j)]]
<1>1. PICK line : Fits(line) /\ \A i : Lineage(i) = line[i]
  <2>1. \E line : Fits(line)
    BY LineExists
  <2>2. PICK line : line = CHOOSE f : Fits(f)
    OBVIOUS
  <2>3. Fits(line)
    <3> HIDE DEF Fits
    <3> QED BY <2>1, <2>2
  <2>4. \A i : Lineage(i) = line[i]
    BY <2>2 DEF Lineage
  <2> QED BY <2>3, <2>4
<1>2. line[NoId] = {} /\ \A j \in Id : line[j] = {j} \cup line[ParentOf(j)]
  <2>1. \A j \in D : line[j] = IF j = NoId THEN {} ELSE {j} \cup line[ParentOf(j)]
    BY <1>1
  <2> QED BY <2>1, NoIdAssumption
<1>3. PICK l \in Nat : DOMAIN q = 1 .. l /\ \A m \in 1 .. l : q[m] \in Id
  BY DEF Path
<1>4. \A m \in 1 .. l : ParentOf(q[m]) = IF m = 1 THEN NoId ELSE q[m - 1]
  BY <1>3 DEF Path, ParentOf, Cp
<1> DEFINE Bad == {m \in 1 .. l : line[q[m]] # {q[k] : k \in 1 .. m}}
<1>5. Bad = {}
  <2> SUFFICES ASSUME Bad # {} PROVE FALSE
    OBVIOUS
  <2>1. PICK m \in Bad : \A k \in Bad : ~(k < m)
    <3>1. Bad \in SUBSET Nat
      OBVIOUS
    <3>2. PICK m \in Bad : \A k \in Bad : ~(<<k, m>> \in OpToRel(<, Nat))
      <4> HIDE DEF Bad
      <4> QED BY <3>1, NatLessThanWellFounded, WFMin
    <3>3. \A k \in Bad : k \in Nat
      OBVIOUS
    <3> HIDE DEF Bad
    <3> QED BY <3>2, <3>3, Zenon DEF OpToRel
  <2>2. m \in 1 .. l /\ line[q[m]] # {q[k] : k \in 1 .. m}
    OBVIOUS
  <2>3. line[q[m]] = {q[m]} \cup line[ParentOf(q[m])]
    BY <1>2, <1>3, <2>2
  <2>4. CASE m = 1
    <3>1. 1 .. m = {1}
      BY <2>4
    <3>2. {q[k] : k \in 1 .. m} = {q[m]}
      BY <2>4, <3>1
    <3> QED BY <1>2, <1>4, <2>2, <2>3, <2>4, <3>2
  <2>5. CASE m # 1
    <3>1. PICK p \in 1 .. l : p = m - 1 /\ p < m
      BY <2>2, <2>5
    <3>2. p \notin Bad
      BY <2>1, <3>1
    <3>3. line[q[p]] = {q[k] : k \in 1 .. p}
      BY <3>2
    <3>4. 1 .. m = (1 .. p) \cup {m}
      BY <2>2, <3>1
    <3>5. {q[k] : k \in 1 .. m} = {q[m]} \cup {q[k] : k \in 1 .. p}
      BY <3>4
    <3>6. ParentOf(q[m]) = q[p]
      BY <1>4, <2>2, <2>5, <3>1
    <3> QED BY <2>2, <2>3, <3>3, <3>5, <3>6
  <2> QED BY <2>4, <2>5
<1>6. n \in 1 .. l
  BY <1>3
<1> QED BY <1>1, <1>5, <1>6

-----------------------------------------------------------------------------
(* The tree that a run grows.                                              *)

Orig == <<NewState, Asked, Known, Classified, Resolved>>

End(q) == IF q = <<>> THEN NoId ELSE q[Len(q)]

\* What the first turn has saved so far, in the order of its ids.
Stem(p) ==
  /\ Path(p) /\ Len(p) <= 5
  /\ \A n \in DOMAIN p : kept[p[n]] = Orig[n]
  /\ \A m, n \in DOMAIN p : m < n => p[m] < p[n]

Trunk(p) == Stem(p) /\ Len(p) = 5

\* What is being saved: stored or not, its id is above the others.
Saving   == IF prog.at = "save" /\ call[me].pc # "idle" THEN {call[me].req.id} ELSE {}
Above(S) == \A i \in Saving, j \in S : j < i

\* Nothing is stored beside p.
Bare(p) == \A i \in Id : Stored(Cp(i)) => i \in Range(p) \cup Saving

\* A put names what was saved last as the parent.
Placed(c) ==
  /\ c.req.parent = prog.last
  /\ c.pc \in {"put_latest", "done"} => db[Cp(c.req.id)].parent = prog.last

\* The first turn, on its way: the rest of the story is still to be saved.
Sprouting(p) ==
  /\ Stem(p) /\ Bare(p) /\ Above(Range(p)) /\ prog.last = End(p)
  /\ Len(p) + Len(prog.todo) = 5
  /\ \A n \in DOMAIN prog.todo : prog.todo[n] = Orig[Len(p) + n]

\* The second turn, on its way: q leaves p after its third checkpoint.
Branch(p, q) ==
  /\ Path(q) /\ Len(q) >= 3 /\ Above(Range(q))
  /\ \A n \in DOMAIN q : IF n <= 3 THEN q[n] = p[n] ELSE q[n] \notin Range(p)

Forked(p) ==
  /\ Trunk(p) /\ Above(Range(p))
  /\ prog.final = ConfigAt(p[5]) /\ prog.fork = ConfigAt(p[3])
  /\ prog.at = "save" => \E q : Branch(p, q) /\ prog.last = End(q)
  /\ prog.at \in {"handoff", "end"} => \E q : Branch(p, q) /\ db[Pointer].id = End(q)

Tree ==
  /\ prog.at = "save" /\ call[me].pc # "idle" => Placed(call[me])
  /\ prog.at = "save" /\ prog.back = "final" => \E p : Sprouting(p)
  /\ prog.at = "final" => \E p : Trunk(p) /\ Bare(p) /\ db[Pointer].id = p[5]
  /\ prog.at = "history" => \E p : Trunk(p) /\ Bare(p) /\ prog.final = ConfigAt(p[5])
  /\ prog.at = "end" \/ Later(prog.at, prog.back) => \E p : Forked(p)

\* Places in the story from which it can be taken up again.
LEMMA ReusablePlaces ==
  ASSUME NEW n \in 1 .. 5, Reusable(Orig[n])
  PROVE  n \in {3, 4}
<1>1. ~Reusable(NewState) /\ ~Reusable(Asked) /\ ~Reusable(Resolved)
  <2>1. "refund" \in Intent
    BY DEF Intent
  <2> QED BY <2>1, StoryTypes, ValuesApart DEF Reusable
<1>2. Orig[1] = NewState /\ Orig[2] = Asked /\ Orig[5] = Resolved
  BY DEF Orig
<1>3. n # 1 /\ n # 2 /\ n # 5
  BY <1>1, <1>2
<1> QED BY <1>3

\* What a step leaves of the checkpoints there are.
Untouched == \A k \in Key : k.set = "cp" /\ Stored(k) => db'[k] = db[k] /\ kept'[k.id] = kept[k.id]

LEMMA PathIds ==
  ASSUME NEW q, Path(q)
  PROVE  /\ q \in Seq(Id) /\ Len(q) \in Nat /\ DOMAIN q = 1 .. Len(q) /\ Range(q) \subseteq Id
         /\ \A i \in Range(q) : Stored(Cp(i))
BY DEF Path, Range

LEMMA PathStays ==
  ASSUME Untouched, NEW q
  PROVE  (Path(q) => Path(q)') /\ (Stem(q) => Stem(q)')
<1>1. ASSUME NEW i \in Id, Stored(Cp(i))
      PROVE  Stored(Cp(i))' /\ db'[Cp(i)] = db[Cp(i)] /\ kept'[i] = kept[i]
  <2>1. Cp(i) \in Key /\ Cp(i).set = "cp" /\ Cp(i).id = i
    BY OwnKeys
  <2>2. db'[Cp(i)] = db[Cp(i)] /\ kept'[i] = kept[i]
    BY <1>1, <2>1 DEF Untouched
  <2> QED BY <1>1, <2>2 DEF Stored, Cp, CpKey
<1>2. Path(q) => /\ q \in Seq(Id)
                 /\ \A n \in DOMAIN q : q[n] \in Id /\ Stored(Cp(q[n]))
                                        /\ db[Cp(q[n])].parent = IF n = 1 THEN NoId ELSE q[n - 1]
  BY DEF Path
<1>3. Path(q) => Path(q)'
  BY <1>1, <1>2 DEF Path, Cp, CpKey
<1>4. Stem(q) => Stem(q)'
  BY <1>1, <1>2, <1>3 DEF Stem
<1> QED BY <1>3, <1>4

\* i can join q at its end; r is the path that then leads to it.
Joins(q, i) == i \in Id /\ Stored(Cp(i)) /\ db[Cp(i)].parent = End(q)
Grown(q, i, r) ==
  /\ Path(r) /\ End(r) = i /\ r # <<>> /\ Len(r) = Len(q) + 1 /\ Range(r) = Range(q) \cup {i}
  /\ DOMAIN r = 1 .. Len(q) + 1
  /\ \A n \in 1 .. Len(q) : r[n] = q[n]
  /\ r[Len(q) + 1] = i

LEMMA PathGrows ==
  ASSUME NEW q, Path(q), NEW i, Joins(q, i)
  PROVE  \E r : Grown(q, i, r)
<1>0. i \in Id /\ Stored(Cp(i)) /\ db[Cp(i)].parent = End(q)
  BY DEF Joins
<1>a. PICK r : r = Append(q, i)
  OBVIOUS
<1>1. PICK l \in Nat : l = Len(q) /\ DOMAIN q = 1 .. l /\ q \in Seq(Id)
  BY PathIds
<1>2. /\ r \in Seq(Id) /\ Len(r) = l + 1 /\ DOMAIN r = 1 .. l + 1 /\ r[l + 1] = i
      /\ \A n \in 1 .. l : r[n] = q[n]
  BY <1>0, <1>a, <1>1
<1>3. r # <<>> /\ End(r) = i
  BY <1>2 DEF End
<1>4. Range(r) = Range(q) \cup {i}
  BY <1>1, <1>2 DEF Range
<1>5. ASSUME NEW n \in 1 .. l + 1
      PROVE  Stored(Cp(r[n])) /\ db[Cp(r[n])].parent = IF n = 1 THEN NoId ELSE r[n - 1]
  <2>1. CASE n = l + 1
    <3>1. db[Cp(i)].parent = IF n = 1 THEN NoId ELSE r[n - 1]
      <4>1. CASE l = 0
        BY <1>0, <1>1, <2>1, <4>1 DEF End
      <4>2. CASE l # 0
        <5>1. End(q) = q[l] /\ l \in 1 .. l /\ n - 1 = l /\ n # 1
          BY <1>1, <2>1, <4>2 DEF End
        <5> QED BY <1>0, <1>2, <5>1
      <4> QED BY <4>1, <4>2
    <3> QED BY <1>0, <1>2, <2>1, <3>1
  <2>2. CASE n # l + 1
    <3>1. n \in 1 .. l /\ (n # 1 => n - 1 \in 1 .. l)
      BY <2>2
    <3>2. r[n] = q[n] /\ (n # 1 => r[n - 1] = q[n - 1])
      BY <1>2, <3>1
    <3> QED BY <1>1, <3>1, <3>2 DEF Path
  <2> QED BY <2>1, <2>2
<1>6. Path(r)
  BY <1>2, <1>5 DEF Path
<1> HIDE DEF Path, End
<1>7. Grown(q, i, r)
  BY <1>1, <1>2, <1>3, <1>4, <1>6 DEF Grown
<1> QED BY <1>7

LEMMA StemGrows ==
  ASSUME NEW p, Stem(p), NEW i, NEW r, Grown(p, i, r),
         Len(p) < 5, kept[i] = Orig[Len(p) + 1], \A j \in Range(p) : j < i
  PROVE  Stem(r)
<1>1. PICK l \in Nat : l = Len(p) /\ DOMAIN p = 1 .. l /\ Range(p) \subseteq Id
  <2>1. Path(p)
    BY DEF Stem
  <2> QED BY <2>1, PathIds
<1>2. /\ Path(r) /\ Len(r) = l + 1 /\ DOMAIN r = 1 .. l + 1 /\ r[l + 1] = i
      /\ \A n \in 1 .. l : r[n] = p[n]
  BY <1>1 DEF Grown
<1>3. \A n \in DOMAIN r : kept[r[n]] = Orig[n]
  <2> SUFFICES ASSUME NEW n \in 1 .. l + 1 PROVE kept[r[n]] = Orig[n]
    BY <1>2
  <2>1. CASE n = l + 1
    BY <1>1, <1>2, <2>1
  <2>2. CASE n \in 1 .. l
    BY <1>1, <1>2, <2>2 DEF Stem
  <2> QED BY <1>1, <2>1, <2>2
<1>4. \A m, n \in DOMAIN r : m < n => r[m] < r[n]
  <2> SUFFICES ASSUME NEW m \in 1 .. l + 1, NEW n \in 1 .. l + 1, m < n PROVE r[m] < r[n]
    BY <1>2
  <2>1. m \in 1 .. l /\ r[m] = p[m]
    BY <1>2
  <2>2. CASE n = l + 1
    <3>1. p[m] \in Range(p)
      BY <1>1, <2>1 DEF Range
    <3> QED BY <1>2, <2>1, <2>2, <3>1
  <2>3. CASE n \in 1 .. l
    BY <1>1, <1>2, <2>1, <2>3 DEF Stem
  <2> QED BY <1>1, <2>2, <2>3
<1>5. Len(r) <= 5
  BY <1>1, <1>2
<1> QED BY <1>2, <1>3, <1>4, <1>5 DEF Stem

LEMMA TrunkShape ==
  ASSUME NEW p, Trunk(p)
  PROVE  /\ Path(p) /\ p \in Seq(Id) /\ Len(p) = 5 /\ DOMAIN p = 1 .. 5
         /\ \A n \in 1 .. 5 : p[n] \in Id /\ Stored(Cp(p[n])) /\ kept[p[n]] = Orig[n]
         /\ p[3] < p[4]
<1>1. Path(p) /\ Len(p) = 5
  BY DEF Trunk, Stem
<1>2. p \in Seq(Id) /\ DOMAIN p = 1 .. 5
  <2>1. p \in Seq(Id) /\ DOMAIN p = 1 .. Len(p)
    BY <1>1, PathIds
  <2> QED BY <1>1, <2>1
<1>3. \A n \in 1 .. 5 : p[n] \in Id /\ Stored(Cp(p[n]))
  <2>1. \A n \in DOMAIN p : Stored(Cp(p[n]))
    BY <1>1 DEF Path
  <2>2. \A n \in DOMAIN p : p[n] \in Id
    <3>1. p \in Seq(Id)
      BY <1>1 DEF Path
    <3> QED BY <3>1
  <2> QED BY <1>2, <2>1, <2>2
<1>4. \A n \in 1 .. 5 : kept[p[n]] = Orig[n]
  BY <1>2 DEF Trunk, Stem
<1>5. p[3] < p[4]
  <2>1. 3 \in 1 .. 5 /\ 4 \in 1 .. 5 /\ 3 < 4
    OBVIOUS
  <2> QED BY <1>2, <2>1 DEF Trunk, Stem
<1> QED BY <1>1, <1>2, <1>3, <1>4, <1>5

\* Where nothing is saved, the tree stays as long as the store does.
LEMMA SameTree ==
  ASSUME Tree, prog.at # "save", prog' = prog, db' = db, kept' = kept
  PROVE  Tree'
<1>1. Untouched
  BY DEF Untouched
<1>2. Saving = {} /\ Saving' = {}
  BY DEF Saving
<1>3. \A p : (Trunk(p) => Trunk(p)') /\ (Bare(p) => Bare(p)')
  BY <1>1, <1>2, PathStays DEF Trunk, Bare, Stored, Cp, CpKey
<1>4. \A p : Forked(p) => Forked(p)'
  <2> SUFFICES ASSUME NEW p, Forked(p) PROVE Forked(p)'
    OBVIOUS
  <2>1. \A q : Branch(p, q) => Branch(p, q)'
    BY <1>1, <1>2, PathStays DEF Branch, Above
  <2>2. Trunk(p)' /\ Above(Range(p))'
    BY <1>2, <1>3 DEF Forked, Above
  <2> QED BY <2>1, <2>2 DEF Forked, Pointer, LatestKey
<1> QED BY <1>3, <1>4 DEF Tree, Pointer, LatestKey

\* What is being saved, and what is remembered of it.
LEMMA SavingTree ==
  ASSUME Grounds, Tree, Untouched, prog.at = "save", prog' = prog,
         NEW d, d = call'[me], Placed(d)', NEW i, Saving' = {i},
         \A j \in Id : Stored(Cp(j))' => Stored(Cp(j)) \/ j = i,
         Saving = {i} \/ (Saving = {} /\ \A j \in Id : Stored(Cp(j)) => j < i)
  PROVE  Tree'
<1>1. ASSUME NEW q, Path(q), Above(Range(q)) PROVE Above(Range(q))'
  <2>1. \A j \in Range(q) : j \in Id /\ Stored(Cp(j))
    BY <1>1, PathIds
  <2> QED BY <1>1, <2>1 DEF Above
<1>2. ASSUME NEW p, Sprouting(p) PROVE Sprouting(p)'
  <2>1. Stem(p)' /\ Path(p) /\ Above(Range(p))'
    BY <1>1, <1>2, PathStays DEF Sprouting, Stem
  <2>2. Bare(p)'
    BY <1>2 DEF Sprouting, Bare
  <2> QED BY <1>2, <2>1, <2>2 DEF Sprouting
<1>3. ASSUME NEW p, Forked(p) PROVE Forked(p)'
  <2>1. Trunk(p)' /\ Path(p) /\ Above(Range(p))'
    BY <1>1, <1>3, PathStays DEF Forked, Trunk, Stem
  <2>2. \A q : Branch(p, q) => Branch(p, q)'
    BY <1>1, PathStays DEF Branch
  <2> QED BY <1>3, <2>1, <2>2 DEF Forked
<1>4. Placed(call[me])'
  BY DEF Placed, Cp, CpKey
<1> QED BY <1>2, <1>3, <1>4 DEF Tree, Later

LEMMA CleanStart ==
  ASSUME prog.at = "clean"
  PROVE  Tree
BY DEF Tree, Later

LEMMA CleanTree ==
  ASSUME prog'.at = "clean"
  PROVE  Tree'
BY DEF Tree, Later

\* A put that goes on stores its checkpoint below the one saved last.
LEMMA SaverTree ==
  ASSUME Grounds, World, Tale, Tree, ForkNext, SaverStep(me)
  PROVE  Tree'
<1>1. Working(me) /\ Step(me) /\ prog' = prog /\ kept' = kept
  BY DEF SaverStep, progVars
<1>2. CASE prog.at = "clean"
  BY <1>1, <1>2, CleanTree
<1>3. CASE prog.at \notin {"clean", "save"}
  BY <1>1, <1>3, ReadStep, SameTree
<1>4. CASE prog.at = "save"
  <2>1. PICK c, d : c = call[me] /\ d = call'[me]
    OBVIOUS
  <2>2. c.pc # "idle" /\ d.pc # "idle"
    BY <1>1, <2>1, SaverStepIsStep, StepProgress, ProgramAssumption DEF Progress, Grounds
  <2>3. PICK i \in Id : i = c.req.id /\ d.req = c.req
    BY <1>1, <1>4, <2>1, PutStep
  <2>4. Placed(c) /\ Saving = {i} /\ Saving' = {i}
    BY <1>1, <1>4, <2>1, <2>2, <2>3 DEF Tree, Saving
  <2>5. ASSUME d.pc \in {"put_latest", "done"} PROVE db'[Cp(i)].parent = prog.last
    <3>1. Cp(i) \in Key /\ Cp(i) # Pointer
      BY OwnKeys
    <3>2. PICK cp, pointer : /\ cp = [thread |-> c.req.t, parent |-> c.req.parent, left |-> Ttl]
                             /\ pointer = [thread |-> c.req.t, id |-> c.req.id, left |-> Ttl]
      OBVIOUS
    <3>3. CASE c.pc = "put_cp" /\ db' = [db EXCEPT ![Cp(i)] = cp]
      <4>1. db'[Cp(i)] = cp
        BY <3>1, <3>3 DEF Grounds, TypeOK
      <4> QED BY <2>4, <3>2, <4>1 DEF Placed
    <3>4. CASE c.pc = "put_latest" /\ db' = [db EXCEPT ![Pointer] = pointer]
      <4>1. db'[Cp(i)] = db[Cp(i)]
        BY <3>1, <3>4 DEF Grounds, TypeOK
      <4> QED BY <2>3, <2>4, <3>4, <4>1 DEF Placed
    <3> QED BY <1>1, <1>4, <2>1, <2>3, <2>5, <3>2, <3>3, <3>4, PutStep
  <2>6. Placed(d)'
    BY <1>1, <2>3, <2>4, <2>5 DEF Placed, Cp, CpKey
  <2>7. \A j \in Id : Stored(Cp(j))' => Stored(Cp(j)) \/ j = i
    BY <1>1, <1>4, <2>1, <2>3, OnlySaved DEF Stored, Cp, CpKey
  <2>8. Untouched
    BY <1>4, Undisturbed DEF Untouched
  <2> QED BY <1>1, <1>4, <2>1, <2>4, <2>6, <2>7, <2>8, SavingTree
<1> QED BY <1>2, <1>3, <1>4

\* A new id is above all that are stored.
LEMMA SaveTree ==
  ASSUME Grounds, World, Tale, Tree, ForkNext, SaveCheckpoint
  PROVE  Tree'
<1>1. PICK r : /\ Begin(me, r) /\ r.id = NewId /\ NewId \in Id /\ r.parent = prog.last
               /\ prog.at = "save" /\ prog' = prog /\ r \in PutReq /\ \A u \in Used : u < NewId
  BY SavedRequest DEF Grounds, Asking
<1>2. PICK d : d = call'[me]
  OBVIOUS
<1>3. call[me].pc = "idle" /\ db' = db /\ d.req = r /\ d.pc = "put_cp"
  <2>1. FirstPc(r) = "put_cp"
    BY <1>1, NoIdAssumption DEF FirstPc, PutReq
  <2> QED BY <1>1, <1>2, <2>1, BeginShape, ProgramAssumption DEF Grounds
<1>4. Saving = {} /\ Saving' = {NewId}
  BY <1>1, <1>2, <1>3 DEF Saving
<1>5. Placed(d)'
  BY <1>1, <1>3 DEF Placed
<1>6. \A j \in Id : Stored(Cp(j)) => j < NewId
  <2>1. \A j \in Id : Stored(Cp(j)) => j \in Used
    BY OwnKeys DEF Used
  <2> QED BY <1>1, <2>1
<1>7. Untouched
  BY <1>1, Undisturbed DEF Untouched
<1>8. \A j \in Id : Stored(Cp(j))' => Stored(Cp(j))
  BY <1>3 DEF Stored, Cp, CpKey
<1> HIDE DEF NewId
<1> QED BY <1>1, <1>2, <1>3, <1>4, <1>5, <1>6, <1>7, <1>8, SavingTree

\* What is saved becomes the end of its path.
LEMMA SavedTree ==
  ASSUME Grounds, World, Tale, Tree, CheckpointSaved
  PROVE  Tree'
<1>1. /\ prog.at = "save" /\ call[me].pc = "done" /\ Return(me) /\ kept' = kept
      /\ DOMAIN prog = Fields /\ prog.back \in {"final", "handoff"}
  BY DEF CheckpointSaved, Answered, At, Grounds, ControlOK
<1>2. db' = db /\ call'[me].pc = "idle"
  BY <1>1, ReturnShape, ProgramAssumption DEF Grounds
<1>3. PICK i \in Id : i = call[me].req.id
  BY <1>1, RequestKinds
<1>4. /\ Stored(Cp(i)) /\ kept[i] = Head(prog.todo) /\ db[Pointer].id = i
      /\ db[Cp(i)].parent = prog.last /\ Saving = {i} /\ Saving' = {}
  BY <1>1, <1>2, <1>3 DEF World, Putting, Tree, Placed, Saving
<1>5. PICK at : /\ at = IF Len(prog.todo) = 1 THEN prog.back ELSE "save"
                /\ prog' = [prog EXCEPT !.last = i, !.todo = Tail(@), !.state = Head(prog.todo),
                              !.at = at]
  BY <1>3 DEF CheckpointSaved
<1>6. /\ prog'.at = at /\ prog'.todo = Tail(prog.todo) /\ prog'.last = i
      /\ prog'.back = prog.back /\ prog'.fork = prog.fork /\ prog'.final = prog.final
  BY <1>1, <1>5 DEF Fields
<1>7. \A q : (Path(q) => Path(q)') /\ (Stem(q) => Stem(q)')
  BY <1>1, <1>2, PathStays DEF Untouched
<1>8. \A S : Above(S)'
  BY <1>4 DEF Above
<1>9. db'[Pointer].id = i /\ \A j \in Id : Stored(Cp(j))' => Stored(Cp(j))
  BY <1>2, <1>4 DEF Stored, Cp, CpKey
<1>10. CASE prog.back = "final"
  <2>1. PICK p : Sprouting(p)
    BY <1>1, <1>10 DEF Tree
  <2>0. Path(p) /\ Stem(p) /\ prog.last = End(p)
    BY <2>1 DEF Sprouting, Stem
  <2>2. PICK l \in Nat : l = Len(p)
    BY <2>0, PathIds
  <2>3. PICK todo \in Seq(Story), t \in Nat :
          todo = prog.todo /\ t = Len(todo) /\ DOMAIN todo = 1 .. t /\ t # 0
    <3>1. prog.todo \in Chapters
      BY <1>1, <1>10 DEF Tale, FirstRun
    <3>2. PICK todo \in Chapters : todo = prog.todo
      BY <3>1
    <3>3. todo \in Seq(Story) /\ todo # <<>>
      BY ChapterStories
    <3>4. Len(todo) \in Nat /\ DOMAIN todo = 1 .. Len(todo) /\ Len(todo) # 0
      BY <3>3
    <3> QED BY <3>2, <3>3, <3>4
  <2>4. l + t = 5 /\ \A n \in 1 .. t : todo[n] = Orig[l + n]
    <3>1. Len(p) + Len(prog.todo) = 5 /\ \A n \in DOMAIN prog.todo : prog.todo[n] = Orig[Len(p) + n]
      BY <2>1 DEF Sprouting
    <3> QED BY <2>2, <2>3, <3>1
  <2>5. PICK r : Grown(p, i, r)
    <3>1. Joins(p, i)
      BY <1>4, <2>0 DEF Joins
    <3> QED BY <2>0, <3>1, PathGrows
  <2>6. kept[i] = Orig[l + 1]
    <3>1. 1 \in 1 .. t
      BY <2>3
    <3>2. Head(todo) = todo[1]
      BY <2>3
    <3> QED BY <1>4, <2>3, <2>4, <3>1, <3>2
  <2>7. Stem(r)'
    <3>1. \A j \in Range(p) : j < i
      BY <1>4, <2>1 DEF Sprouting, Above
    <3>2. Len(p) < 5 /\ kept[i] = Orig[Len(p) + 1]
      BY <2>2, <2>3, <2>4, <2>6
    <3>3. Stem(r)
      BY <2>0, <2>5, <3>1, <3>2, StemGrows
    <3> QED BY <1>7, <3>3
  <2>8. r # <<>> /\ Len(r) = l + 1 /\ End(r) = i /\ Range(r) = Range(p) \cup {i}
    BY <2>2, <2>5 DEF Grown
  <2>9. Bare(r)'
    BY <1>4, <1>9, <2>1, <2>8 DEF Sprouting, Bare
  <2>10. CASE t = 1
    <3>1. prog'.at = "final" /\ Trunk(r)'
      BY <1>5, <1>6, <1>10, <2>3, <2>4, <2>7, <2>8, <2>10 DEF Trunk
    <3>2. r[5] = i
      BY <2>4, <2>8, <2>10 DEF End
    <3> QED BY <1>9, <2>9, <3>1, <3>2 DEF Tree, Later, Pointer, LatestKey
  <2>11. CASE t # 1
    <3>1. prog'.at = "save"
      BY <1>5, <1>6, <2>3, <2>11
    <3>2. /\ Len(Tail(todo)) = t - 1 /\ DOMAIN Tail(todo) = 1 .. t - 1
          /\ \A n \in 1 .. t - 1 : Tail(todo)[n] = todo[n + 1]
      BY <2>3
    <3>3. \A n \in 1 .. t - 1 : Tail(todo)[n] = Orig[l + 1 + n]
      <4> SUFFICES ASSUME NEW n \in 1 .. t - 1 PROVE Tail(todo)[n] = Orig[l + 1 + n]
        OBVIOUS
      <4>1. n + 1 \in 1 .. t /\ l + (n + 1) = l + 1 + n
        OBVIOUS
      <4>2. todo[n + 1] = Orig[l + (n + 1)]
        BY <2>4, <4>1
      <4> QED BY <3>2, <4>1, <4>2
    <3>4. Len(r) + Len(Tail(todo)) = 5
      BY <2>4, <2>8, <3>2
    <3>5. Sprouting(r)'
      BY <1>6, <1>8, <2>3, <2>7, <2>8, <2>9, <3>2, <3>3, <3>4 DEF Sprouting, End
    <3> QED BY <1>2, <1>6, <1>10, <3>1, <3>5 DEF Tree, Later
  <2> QED BY <2>10, <2>11
<1>11. CASE prog.back = "handoff"
  <2>1. PICK p, q : Forked(p) /\ Branch(p, q) /\ prog.last = End(q)
    BY <1>1, <1>11 DEF Tree, Later, Forked
  <2>0. Path(q) /\ Len(q) >= 3 /\ db[Cp(i)].parent = End(q)
    BY <1>4, <2>1 DEF Branch
  <2>2. PICK l \in Nat : l = Len(q) /\ DOMAIN q = 1 .. l /\ l >= 3
    BY <2>0, PathIds
  <2>3. PICK r : Grown(q, i, r)
    <3>1. Joins(q, i)
      BY <1>4, <2>0 DEF Joins
    <3> QED BY <2>0, <3>1, PathGrows
  <2>4. /\ Path(r) /\ End(r) = i /\ Len(r) = l + 1 /\ DOMAIN r = 1 .. l + 1 /\ r[l + 1] = i
        /\ \A n \in 1 .. l : r[n] = q[n]
    BY <2>2, <2>3 DEF Grown
  <2>5. i \notin Range(p)
    <3>1. i \in Nat /\ \A j \in Range(p) : j < i
      BY <1>4, <2>1, OrderAssumption DEF Forked, Above
    <3> QED BY <3>1
  <2>6. Branch(p, r)'
    <3>1. ASSUME NEW n \in 1 .. l + 1 PROVE IF n <= 3 THEN r[n] = p[n] ELSE r[n] \notin Range(p)
      <4>1. CASE n = l + 1
        BY <2>2, <2>4, <2>5, <4>1
      <4>2. CASE n \in 1 .. l
        BY <2>1, <2>2, <2>4, <4>2 DEF Branch
      <4> QED BY <4>1, <4>2
    <3>2. Path(r)' /\ Len(r) >= 3
      BY <1>7, <2>2, <2>4
    <3> QED BY <1>8, <2>4, <3>1, <3>2 DEF Branch
  <2>7. Forked(p)'
    <3>1. Trunk(p)'
      BY <1>7, <2>1 DEF Forked, Trunk
    <3>2. prog'.last = End(r)' /\ db'[Pointer].id = End(r)'
      BY <1>6, <1>9, <2>4 DEF End
    <3> QED BY <1>6, <1>8, <2>1, <2>6, <3>1, <3>2 DEF Forked, ConfigAt, TupleConfig, Pointer, LatestKey
  <2>8. prog'.at \in {"save", "handoff"}
    BY <1>5, <1>6, <1>11
  <2> QED BY <1>2, <1>6, <1>11, <2>7, <2>8 DEF Tree, Later
<1> QED BY <1>1, <1>10, <1>11

\* The first turn starts from nothing, the second from the fork.
LEMMA BeginTree ==
  ASSUME Grounds, World, Tale, Tree, BeginTurn(SupportTurns(Values, prog.input))
  PROVE  Tree'
<1>1. /\ prog.at = "load" /\ call[me].pc = "done" /\ Return(me) /\ kept' = kept
      /\ DOMAIN prog = Fields /\ prog.back \in {"final", "handoff"}
  BY DEF BeginTurn, Answered, At, Grounds, ControlOK
<1>2. db' = db /\ call'[me].pc = "idle"
  BY <1>1, ReturnShape, ProgramAssumption DEF Grounds
<1>3. PICK turn, last :
        /\ turn \in SupportTurns(Values, prog.input)
        /\ last = IF Tuples = <<>> THEN IdOf(prog.cfg) ELSE Tuples[1].id
        /\ prog' = [prog EXCEPT !.at = "save", !.todo = turn, !.last = last]
  BY DEF BeginTurn
<1>4. /\ prog'.at = "save" /\ prog'.todo = turn /\ prog'.last = last /\ prog'.back = prog.back
      /\ prog'.fork = prog.fork /\ prog'.final = prog.final
  BY <1>1, <1>3 DEF Fields
<1>5. Saving' = {} /\ \A S : Above(S)'
  BY <1>2 DEF Saving, Above
<1>6. \A q : (Path(q) => Path(q)') /\ (Stem(q) => Stem(q)')
  BY <1>1, <1>2, PathStays DEF Untouched
<1>7. CASE prog.back = "final"
  <2>1. Tuples = <<>> /\ prog.input = ORIGINAL_REQUEST /\ prog.cfg \in ProdConfigs
        /\ \A i \in Id : ~Stored(Cp(i))
    BY <1>1, <1>7, NothingLoaded
  <2>2. turn = Orig
    BY <1>3, <2>1, OriginalTurn DEF Values, Orig
  <2>3. last = NoId
    BY <1>3, <2>1, ProdConfigNames
  <2>4. PICK p \in Seq(Id) : p = <<>>
    <3>1. <<>> \in Seq(Id)
      OBVIOUS
    <3> QED BY <3>1
  <2>5. Stem(p) /\ Range(p) = {} /\ Len(p) = 0 /\ End(p) = NoId
    BY <2>4 DEF Stem, Path, Range, End
  <2>6. Bare(p)'
    BY <1>2, <2>1 DEF Bare, Stored, Cp, CpKey
  <2>7. Len(Orig) = 5 /\ DOMAIN Orig = 1 .. 5
    BY DEF Orig
  <2>8. \A n \in DOMAIN Orig : Orig[n] = Orig[Len(p) + n]
    <3>1. \A n \in 1 .. 5 : 0 + n = n
      OBVIOUS
    <3> QED BY <2>5, <2>7, <3>1
  <2>9. Sprouting(p)'
    BY <1>4, <1>5, <1>6, <2>2, <2>3, <2>5, <2>6, <2>7, <2>8 DEF Sprouting, End
  <2> QED BY <1>2, <1>4, <1>7, <2>9 DEF Tree, Later
<1>8. CASE prog.back = "handoff"
  <2>1. PICK p : Forked(p)
    BY <1>1, <1>8 DEF Tree, Later
  <2>2. /\ p \in Seq(Id) /\ DOMAIN p = 1 .. 5 /\ Path(p) /\ p[3] \in Id /\ Stored(Cp(p[3]))
    <3>1. Trunk(p) /\ 3 \in 1 .. 5
      BY <2>1 DEF Forked
    <3> QED BY <3>1, TrunkShape
  <2>3. prog.cfg = ConfigAt(p[3])
    BY <1>1, <1>8, <2>1 DEF Tale, Later, SecondRun, Forked
  <2>4. last = p[3]
    <3>1. prog.cfg \in Ours /\ IdOf(prog.cfg) = p[3] /\ call[me].req = GetRequest(prog.cfg)
      BY <1>1, <2>2, <2>3, OursIsOurs DEF ConfigAt, Grounds, AskedOK, Asking
    <3>2. Tuples # <<>> /\ Tuples[1].id = p[3]
      BY <1>1, <2>2, <3>1, GetAnswers
    <3> QED BY <1>3, <3>2
  <2>5. PICK q \in Seq(Id) : /\ Len(q) = 3 /\ DOMAIN q = 1 .. 3
                             /\ q[1] = p[1] /\ q[2] = p[2] /\ q[3] = p[3]
    <3>1. p[1] \in Id /\ p[2] \in Id /\ p[3] \in Id
      <4>0. p \in Seq(Id)
        BY <2>2
      <4>1. \A n \in DOMAIN p : p[n] \in Id
        BY <4>0
      <4>2. 1 \in 1 .. 5 /\ 2 \in 1 .. 5 /\ 3 \in 1 .. 5
        OBVIOUS
      <4> QED BY <2>2, <4>1, <4>2
    <3>2. PICK q : q = <<p[1], p[2], p[3]>>
      OBVIOUS
    <3>3. q \in Seq(Id) /\ Len(q) = 3 /\ DOMAIN q = 1 .. 3
      BY <3>1, <3>2
    <3>4. q[1] = p[1] /\ q[2] = p[2] /\ q[3] = p[3]
      BY <3>2
    <3> QED BY <3>3, <3>4
  <2>6. Path(q)
    <3>1. ASSUME NEW n \in 1 .. 3 PROVE q[n] = p[n] /\ (n # 1 => q[n - 1] = p[n - 1]) /\ n \in 1 .. 5
      <4>1. CASE n = 1
        BY <2>5, <4>1
      <4>2. CASE n = 2
        BY <2>5, <4>2
      <4>3. CASE n = 3
        BY <2>5, <4>3
      <4> QED BY <4>1, <4>2, <4>3
    <3> QED BY <2>2, <2>5, <3>1 DEF Path
  <2>7. End(q) = last /\ \A n \in 1 .. 3 : q[n] = p[n]
    <3>1. End(q) = last
      <4>1. q # <<>>
        BY <2>5
      <4> QED BY <2>4, <2>5, <4>1 DEF End
    <3>2. ASSUME NEW n \in 1 .. 3 PROVE q[n] = p[n]
      <4>1. n = 1 \/ n = 2 \/ n = 3
        OBVIOUS
      <4> QED BY <2>5, <4>1
    <3> QED BY <3>1, <3>2
  <2>8. Branch(p, q)'
    BY <1>5, <1>6, <2>5, <2>6, <2>7 DEF Branch
  <2>9. Forked(p)'
    <3>1. Trunk(p)'
      BY <1>6, <2>1 DEF Forked, Trunk
    <3> QED BY <1>4, <1>5, <2>1, <2>7, <2>8, <3>1 DEF Forked, ConfigAt, TupleConfig, End
  <2> QED BY <1>2, <1>4, <1>8, <2>9 DEF Tree, Later
<1> QED BY <1>1, <1>7, <1>8

\* The pointer names the end of the original run.
LEMMA FinalTree ==
  ASSUME Grounds, World, Tale, Tree, RememberFinal
  PROVE  Tree'
<1>1. prog.at = "final" /\ db' = db /\ kept' = kept /\ DOMAIN prog = Fields
  BY Taken DEF RememberFinal
<1>2. prog' = [prog EXCEPT !.at = "history", !.original = prog.state, !.final = ConfigAt(db[Pointer].id)]
  BY FinalFound
<1>3. PICK p : Trunk(p) /\ Bare(p) /\ db[Pointer].id = p[5]
  BY <1>1 DEF Tree
<1>4. prog'.at = "history" /\ prog'.final = ConfigAt(p[5])
  BY <1>1, <1>2, <1>3 DEF Fields
<1>5. Trunk(p)' /\ Bare(p)'
  <2>1. Untouched
    BY <1>1 DEF Untouched
  <2>2. Saving = {} /\ Saving' = {}
    BY <1>1, <1>4 DEF Saving
  <2> QED BY <1>1, <1>3, <2>1, <2>2, PathStays DEF Trunk, Bare, Stored, Cp, CpKey
<1> QED BY <1>4, <1>5 DEF Tree, Later, ConfigAt, TupleConfig

\* The oldest reusable checkpoint is the third.
LEMMA HistoryTree ==
  ASSUME Grounds, World, Tale, Tree, ReadInv, FindForkPoint
  PROVE  Tree'
<1>1. /\ prog.at = "history" /\ call[me].pc = "done" /\ db' = db /\ DOMAIN prog = Fields
      /\ kept' = kept /\ call[me].req = ListRequest(ProdConfig(NoMetadata))
  BY Taken DEF FindForkPoint, Asking
<1>2. PICK p : Trunk(p) /\ Bare(p) /\ prog.final = ConfigAt(p[5])
  BY <1>1 DEF Tree
<1>3. /\ Path(p) /\ DOMAIN p = 1 .. 5 /\ \A n \in 1 .. 5 : p[n] \in Id /\ Stored(Cp(p[n])) /\ kept[p[n]] = Orig[n]
      /\ p[3] < p[4]
  BY <1>2, TrunkShape
<1>4. \A i \in Id : Stored(Cp(i)) => \E n \in 1 .. 5 : i = p[n]
  BY <1>1, <1>2, <1>3 DEF Bare, Saving, Range
<1>5. PICK r : r = call[me].req
  OBVIOUS
<1>6. /\ r \in ListReq /\ r.t = THREAD_ID /\ r.ns = CHECKPOINT_NS
      /\ r.filter = NoMeta /\ r.before = NoId /\ r.limit = NoLimit
  BY <1>1, <1>5, HistoryRequest
<1>7. Seen(call[me]) /\ HoldsAll(r, held[me]) /\ Tuples \in Seq(Tuple)
  BY <1>1, <1>5, <1>6, ProgramAssumption DEF World, Bringing, Grounds, TypeOK, CallState, Tuples
<1>8. \A j \in DOMAIN Tuples :
        /\ Tuples[j].id \in Id /\ Tuples[j].ns = CHECKPOINT_NS /\ Stored(Cp(Tuples[j].id))
  BY <1>5, <1>6, <1>7 DEF Seen, StoredIds, Tuples, Cp
<1>9. PICK k \in DOMAIN Tuples : Tuples[k].id = p[3]
  <2>1. p[3] \in StoredIds(r)
    BY <1>3, <1>6 DEF StoredIds, Cp
  <2>2. p[3] \in Outs(call[me])
    BY <1>1, <1>5, <1>6, <1>7, <2>1, AllListed, ProgramAssumption
  <2> QED BY <2>2 DEF Outs, Tuples
<1>10. Reusable(kept[Tuples[k].id])
  BY <1>3, <1>9, KnownIsReusable DEF Orig
<1>11. PICK m \in DOMAIN Tuples : /\ ForkPoint(Tuples) = Tuples[m] /\ Reusable(kept[Tuples[m].id])
                                 /\ \A j \in DOMAIN Tuples : Reusable(kept[Tuples[j].id]) => m >= j
  BY <1>7, <1>9, <1>10, ForkPointIsOne
<1>12. Tuples[m].id = p[3]
  <2>1. PICK n \in 1 .. 5 : Tuples[m].id = p[n]
    BY <1>4, <1>8, <1>11
  <2>2. n \in {3, 4}
    <3>1. Reusable(Orig[n])
      BY <1>3, <1>11, <2>1
    <3> QED BY <3>1, ReusablePlaces
  <2>3. CASE n = 4
    <3>1. p[3] \in Nat /\ p[4] \in Nat /\ Ts[p[3]] <= Ts[p[4]] /\ Ts[p[3]] \in Nat /\ Ts[p[4]] \in Nat
      <4>1. p[3] \in Id /\ p[4] \in Id /\ p[3] < p[4]
        <5>1. 3 \in 1 .. 5 /\ 4 \in 1 .. 5
          OBVIOUS
        <5> QED BY <1>3, <5>1
      <4>2. Ts[p[3]] \in Nat /\ Ts[p[4]] \in Nat /\ p[3] \in Nat /\ p[4] \in Nat
        BY <4>1, OrderAssumption
      <4> QED BY <4>1, <4>2, StampsAssumption
    <3>2. ~Newer(p[3], p[4])
      BY <1>3, <3>1 DEF Newer
    <3>3. k # m
      BY <1>3, <1>9, <2>1, <2>3, <3>1
    <3>4. m \in Nat /\ k \in Nat /\ m >= k
      BY <1>7, <1>9, <1>10, <1>11
    <3>5. k < m
      BY <3>3, <3>4
    <3>6. InOrder(call[me])
      <4>1. Answering(call[me], held[me])
        BY <1>1, ProgramAssumption DEF ReadInv
      <4> QED BY <1>5, <1>6, <4>1 DEF Answering, Listed
    <3>7. Newer(Tuples[k].id, Tuples[m].id)
      BY <3>5, <3>6 DEF InOrder, Tuples
    <3> QED BY <1>9, <2>1, <2>3, <3>2, <3>7
  <2> QED BY <2>1, <2>2, <2>3
<1>13. ConfigOf(ForkPoint(Tuples)) = ConfigAt(p[3]) /\ Tuples # <<>>
  BY <1>5, <1>6, <1>7, <1>8, <1>9, <1>11, <1>12 DEF ConfigOf, ConfigAt
<1>14. prog' = [prog EXCEPT !.at = "rehydrate", !.fork = ConfigAt(p[3])]
  BY <1>13 DEF FindForkPoint
<1>15. prog'.at = "rehydrate" /\ prog'.fork = ConfigAt(p[3]) /\ prog'.final = ConfigAt(p[5])
  BY <1>1, <1>2, <1>14 DEF Fields
<1>16. Trunk(p)' /\ Above(Range(p))'
  <2>1. Untouched /\ Saving' = {}
    BY <1>1, <1>15 DEF Untouched, Saving
  <2> QED BY <1>2, <2>1, PathStays DEF Trunk, Above
<1>17. Forked(p)'
  BY <1>15, <1>16 DEF Forked, ConfigAt, TupleConfig
<1> QED BY <1>15, <1>17 DEF Tree, Later

LEMMA ForkTree ==
  ASSUME Grounds, Tree, ForkTurn
  PROVE  Tree'
<1>1. /\ prog.at = "rehydrate" /\ db' = db /\ DOMAIN prog = Fields /\ kept' = kept
      /\ prog' = Invoking(prog.fork, CORRECTED_REQUEST, "handoff")
  BY Taken DEF ForkTurn
<1>2. /\ prog'.at = "load" /\ prog'.back = "handoff" /\ prog'.fork = prog.fork /\ prog'.final = prog.final
  BY <1>1 DEF Invoking, Fields
<1>3. PICK p : Forked(p)
  BY <1>1 DEF Tree, Later
<1>4. Untouched /\ Saving' = {}
  BY <1>1, <1>2 DEF Untouched, Saving
<1>5. Forked(p)'
  BY <1>2, <1>3, <1>4, PathStays DEF Forked, Trunk, Above, ConfigAt, TupleConfig
<1> QED BY <1>2, <1>5 DEF Tree, Later

LEMMA HandoffTree ==
  ASSUME Grounds, Tree, WriteHandoff
  PROVE  Tree'
<1>1. /\ prog.at = "handoff" /\ DOMAIN prog = Fields /\ db' = db /\ kept' = kept
  BY Taken DEF WriteHandoff
<1>2. PICK exit : prog' = [prog EXCEPT !.at = "end", !.exit = exit]
  BY DEF WriteHandoff
<1>3. prog'.at = "end" /\ prog'.fork = prog.fork /\ prog'.final = prog.final
  BY <1>1, <1>2 DEF Fields
<1>4. PICK p, q : Forked(p) /\ Branch(p, q) /\ db[Pointer].id = End(q)
  BY <1>1 DEF Tree, Later, Forked
<1>5. Untouched /\ Saving' = {}
  BY <1>1, <1>3 DEF Untouched, Saving
<1>6. Branch(p, q)' /\ Trunk(p)'
  BY <1>4, <1>5, PathStays DEF Branch, Forked, Trunk, Above
<1>7. Forked(p)'
  <2>1. db'[Pointer].id = End(q)'
    BY <1>1, <1>4 DEF End
  <2> QED BY <1>3, <1>4, <1>5, <1>6, <2>1 DEF Forked, Above, ConfigAt, TupleConfig, Pointer, LatestKey
<1> QED BY <1>3, <1>7 DEF Tree, Later

LEMMA TreeStep ==
  ASSUME Grounds, World, Tale, Tree, ReadInv, [ForkNext]_allVars
  PROVE  Tree'
<1>1. CASE UNCHANGED allVars
  <2>1. Untouched /\ Saving' = Saving /\ call' = call
    BY <1>1 DEF allVars, Untouched, Saving
  <2>2. CASE prog.at # "save"
    BY <1>1, <2>2, SameTree DEF allVars
  <2>3. CASE prog.at = "save"
    <3>1. \A q : (Path(q) => Path(q)') /\ (Stem(q) => Stem(q)')
      BY <2>1, PathStays
    <3>2. \A p : Sprouting(p) => Sprouting(p)'
      BY <1>1, <2>1, <3>1 DEF allVars, Sprouting, Bare, Above, Stored, Cp, CpKey
    <3>3. \A p : Forked(p) => Forked(p)'
      BY <1>1, <2>1, <2>3, <3>1 DEF allVars, Forked, Trunk, Branch, Above, ConfigAt, TupleConfig
    <3>4. call[me].pc # "idle" => Placed(call[me])'
      BY <1>1, <2>3 DEF allVars, Tree, Placed, Cp, CpKey
    <3> QED BY <1>1, <2>1, <2>3, <3>2, <3>3, <3>4 DEF allVars, Tree, Later
  <2> QED BY <2>2, <2>3
<1>2. CASE ForkNext /\ (\/ DeleteThread(THREAD_ID) \/ AskFinal \/ AskHistory \/ AskRehydrated
                         \/ AskBefore \/ LoadCheckpoint)
  BY <1>2, ProgramAsks, SameTree
<1>3. CASE ForkNext /\ (SaveCheckpoint \/ SaverStep(me))
  BY <1>3, SaveTree, SaverTree
<1>4. CASE FirstTurn
  <2>1. PICK cfg \in ProdConfigs : prog' = Invoking(cfg, ORIGINAL_REQUEST, "final")
    BY <1>4 DEF FirstTurn
  <2>2. prog'.at = "load" /\ prog'.back = "final"
    BY <2>1 DEF Invoking, Grounds, ControlOK, Fields
  <2> QED BY <2>2 DEF Tree, Later
<1>5. CASE RememberFinal \/ FindForkPoint \/ ForkTurn \/ WriteHandoff
             \/ BeginTurn(SupportTurns(Values, prog.input)) \/ CheckpointSaved
  BY <1>5, FinalTree, HistoryTree, ForkTree, HandoffTree, BeginTree, SavedTree
<1>6. CASE RunAgain(Start)
  <2>1. prog'.at = "clean"
    BY <1>6, StartControl DEF RunAgain
  <2> QED BY <2>1, CleanTree
<1> QED BY <1>1, <1>2, <1>3, <1>4, <1>5, <1>6 DEF ForkNext, Invocation

LEMMA TreeIsABranch == Grounds /\ Tree => ForkIsABranch
<1> SUFFICES ASSUME Grounds, Tree, prog.at = "end",
                    NEW fork, fork = IdOf(prog.fork), NEW final, final = IdOf(prog.final)
             PROVE  /\ Lineage(Latest) \cap Lineage(final) = Lineage(fork)
                    /\ kept[fork].order # None /\ kept[fork].intent = None
                    /\ \E turn \in SupportTurns(Blank, ORIGINAL_REQUEST) :
                         {kept[i] : i \in Lineage(final)} = {turn[n] : n \in DOMAIN turn}
  BY DEF ForkIsABranch
<1>1. PICK p, q : Forked(p) /\ Branch(p, q) /\ db[Pointer].id = End(q)
  BY DEF Tree, Forked
<1>2. /\ Path(p) /\ DOMAIN p = 1 .. 5 /\ \A n \in 1 .. 5 : p[n] \in Id /\ kept[p[n]] = Orig[n]
  <2>1. Trunk(p)
    BY <1>1 DEF Forked
  <2> QED BY <2>1, TrunkShape
<1>3. PICK l \in Nat : /\ Path(q) /\ DOMAIN q = 1 .. l /\ l = Len(q) /\ l >= 3
                       /\ \A n \in 1 .. l : IF n <= 3 THEN q[n] = p[n] ELSE q[n] \notin Range(p)
  BY <1>1, PathIds DEF Branch
<1>4. fork = p[3] /\ final = p[5]
  BY <1>1, <1>2, OursIsOurs DEF Forked, ConfigAt
<1>5. Latest = q[l]
  BY <1>1, <1>3 DEF Latest, Pointer, End
<1>6. Lineage(fork) = {p[m] : m \in 1 .. 3} /\ Lineage(final) = {p[m] : m \in 1 .. 5}
  BY <1>2, <1>4, LineageOfPath DEF Grounds
<1>7. Lineage(Latest) = {q[m] : m \in 1 .. l}
  BY <1>3, <1>5, LineageOfPath DEF Grounds
<1>8. {q[m] : m \in 1 .. l} \cap {p[m] : m \in 1 .. 5} = {p[m] : m \in 1 .. 3}
  <2>1. ASSUME NEW m \in 1 .. 3 PROVE p[m] \in {q[n] : n \in 1 .. l} /\ p[m] \in {p[n] : n \in 1 .. 5}
    <3>1. m \in 1 .. l /\ m \in 1 .. 5 /\ q[m] = p[m]
      BY <1>3
    <3> QED BY <3>1
  <2>2. ASSUME NEW m \in 1 .. l, q[m] \in {p[n] : n \in 1 .. 5} PROVE q[m] \in {p[n] : n \in 1 .. 3}
    <3>1. q[m] \in Range(p)
      BY <1>2, <2>2 DEF Range
    <3>2. m \in 1 .. 3 /\ q[m] = p[m]
      BY <1>3, <3>1
    <3> QED BY <3>2
  <2> QED BY <2>1, <2>2
<1>9. kept[fork].order # None /\ kept[fork].intent = None
  BY <1>2, <1>4, StoryTypes, ValuesApart DEF Orig
<1>10. {kept[i] : i \in Lineage(final)} = {Orig[n] : n \in DOMAIN Orig}
  <2>1. DOMAIN Orig = 1 .. 5
    BY DEF Orig
  <2>2. \A n \in 1 .. 5 : kept[p[n]] = Orig[n]
    BY <1>2
  <2> QED BY <1>6, <2>1, <2>2
<1>11. Orig \in SupportTurns(Blank, ORIGINAL_REQUEST)
  BY OriginalTurn DEF Orig
<1> QED BY <1>6, <1>7, <1>8, <1>9, <1>10, <1>11

(* The corrected run is a branch (demo.py, AerospikeSaver.put and list):   *)
(* the lineage of the last checkpoint leaves that of the original run at   *)
(* the checkpoint where the order was known and the intent was not, and    *)
(* the original run is all there.                                          *)
THEOREM ForkMakesABranch == ForkSpec => []ForkIsABranch
<1>1. ForkInit => Tree
  BY StartControl, CleanStart DEF ForkInit
<1>2. (Grounds /\ World /\ Tale) /\ Tree /\ ReadInv /\ [ForkNext]_allVars => Tree'
  BY TreeStep
<1> QED BY <1>1, <1>2, TreeIsABranch, ForkInvariant, ForkUsesSaver, ReadInvariant, PTL DEF ForkSpec
=============================================================================
