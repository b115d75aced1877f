------------------------------- MODULE ForkDemo -------------------------------
(***************************************************************************)
(* cookbooks/agent-path-correction: a support agent resolves a ticket, the *)
(* customer asks for something else, and the program forks the thread from *)
(* the checkpoint where the order was known and nothing yet resolved.      *)
(*                                                                         *)
(* Any call of the saver may fail and end the program, which may be run    *)
(* again, any number of times.                                             *)
(***************************************************************************)
EXTENDS GraphRuns

CONSTANTS THREAD_ID, CHECKPOINT_NS

ASSUME ForkAssumption == THREAD_ID \in Thread /\ CHECKPOINT_NS \in Ns

\* langgraph stamps its checkpoints in the order of their ids.
ASSUME StampsAssumption == \A i, j \in Id : i < j => Ts[i] <= Ts[j]

-----------------------------------------------------------------------------
(* The agent (agent.py).  A text is the set of its words that matter.      *)

ORIGINAL_REQUEST  == {"headphones", "refund"}
CORRECTED_REQUEST == {"replace"}

\* _CATALOG: keywords in their order, and the order id of each.
Catalog == << <<"headphones", "ORD-10482">>, <<"keyboard", "ORD-20913">>, <<"monitor", "ORD-33170">> >>

LookupOrder(text) ==
  LET hits == {i \in DOMAIN Catalog : Catalog[i][1] \in text}
  IN IF hits = {} THEN None ELSE Catalog[CHOOSE i \in hits : \A j \in hits : i <= j][2]

ClassifyIntent(text) ==
  IF "replace" \in text THEN "replacement"
  ELSE IF text \cap {"refund", "money back"} # {} THEN "refund"
  ELSE "escalate"

LatestUserText(messages) ==
  LET said == {i \in DOMAIN messages : messages[i].from = "human"}
  IN IF said = {} THEN {} ELSE messages[CHOOSE i \in said : \A j \in said : j <= i].text

Intent  == {"refund", "replacement", "escalate"}
OrderId == {Catalog[i][2] : i \in DOMAIN Catalog}
Word    == {Catalog[i][1] : i \in DOMAIN Catalog} \cup {"replace", "money back"} \cup Intent
Message == [from : {"human", "ai"}, text : SUBSET Word]

SupportState == [messages : Seq(Message), order : OrderId \cup {None}, intent : Intent \cup {None},
                 resolution : (Intent \X (OrderId \cup {None})) \cup {None}]

\* What stands for Python's None is nothing else.
ASSUME ValuesAssumption ==
  /\ Blank \notin SupportState
  /\ None \notin OrderId \cup Intent \cup (Intent \X (OrderId \cup {None}))

NewState == [messages |-> <<>>, order |-> None, intent |-> None, resolution |-> None]

Say(s, who, text) == [s EXCEPT !.messages = Append(@, [from |-> who, text |-> text])]

IdentifyOrderAgain(s) == [s EXCEPT !.order = LookupOrder(LatestUserText(s.messages))]   \* mutant
IdentifyOrder(s) ==
  IF s.order # None THEN s ELSE [s EXCEPT !.order = LookupOrder(LatestUserText(s.messages))]

Classify(s) == [s EXCEPT !.intent = ClassifyIntent(LatestUserText(s.messages))]

\* The edge taken after `classify`, and refund, replacement and escalate.
Route(s) == IF s.intent = None THEN "escalate" ELSE s.intent
Resolve(s) == Say([s EXCEPT !.resolution = <<Route(s), s.order>>], "ai", {Route(s)})

\* One turn: the input is saved, then applied, then the nodes run.  A turn on a
\* thread past identify_order may or may not pass through that node again.
SupportTurns(before, text) ==
  LET first   == IF before = Blank THEN NewState ELSE before
      asked   == Say(first, "human", text)
      known   == IdentifyOrder(asked)
      After(s) == <<Classify(s), Resolve(Classify(s))>>
  IN {<<first, asked, known>> \o After(known)}
       \cup (IF before = Blank THEN {} ELSE {<<first, asked>> \o After(asked)})

-----------------------------------------------------------------------------
(* The program (demo.py).                                                  *)

ProdConfig(metadata) ==
  [TupleConfig(THREAD_ID, CHECKPOINT_NS, NoId) EXCEPT !.metadata = metadata]

\* langgraph may copy what is configurable to the metadata.
ProdConfigs == {ProdConfig(NoMetadata),
                ProdConfig([thread_id |-> THREAD_ID, checkpoint_ns |-> CHECKPOINT_NS])}

Start == [at |-> "clean", cfg |-> ProdConfig(NoMetadata), input |-> {}, back |-> "clean",
          todo |-> <<>>, last |-> NoId, state |-> Blank, exit |-> None,
          original |-> Blank, final |-> None, fork |-> None]

FirstTurn ==
  /\ Answered("clean")
  /\ \E cfg \in ProdConfigs : prog' = Invoking(cfg, ORIGINAL_REQUEST, "final")
  /\ UNCHANGED kept

AskFinal == Asks("final", GetRequest(ProdConfig(NoMetadata)))

\* `assert original_final is not None`
RememberFinal ==
  /\ Answered("final")
  /\ prog' = IF Tuples = <<>>
               THEN [prog EXCEPT !.at = "end", !.exit = "assert"]
               ELSE [prog EXCEPT !.at = "history", !.original = prog.state,
                                 !.final = ConfigOf(Tuples[1])]
  /\ UNCHANGED kept

AskHistory == Asks("history", ListRequest(ProdConfig(NoMetadata)))

\* The oldest checkpoint with an order and no resolution, else the oldest:
\* history[-1], which is evaluated in any case and is an error if there is none.
Reusable(values) == values.order # None /\ values.resolution = None

ForkPointNewest(history) ==                                             \* mutant
  LET good == {i \in DOMAIN history : Reusable(kept[history[i].id])}
  IN history[IF good = {} THEN Len(history) ELSE CHOOSE i \in good : \A j \in good : i <= j]
ForkPoint(history) ==
  LET good == {i \in DOMAIN history : Reusable(kept[history[i].id])}
  IN history[IF good = {} THEN Len(history) ELSE CHOOSE i \in good : \A j \in good : i >= j]

FindForkPoint ==
  /\ Answered("history")
  /\ prog' = IF Tuples = <<>>
               THEN [prog EXCEPT !.at = "end", !.exit = "index"]
               ELSE [prog EXCEPT !.at = "rehydrate", !.fork = ConfigOf(ForkPoint(Tuples))]
  /\ UNCHANGED kept

AskRehydrated == Asks("rehydrate", GetRequest(prog.fork))

\* What is read here is only shown; the run loads the checkpoint again.
ForkTurn ==
  /\ Answered("rehydrate")
  /\ prog' = Invoking(prog.fork, CORRECTED_REQUEST, "handoff")
  /\ UNCHANGED kept

AskBefore == Asks("handoff", GetRequest(prog.final))

\* The guardrails: history untouched, rerouted, order reused.
WriteHandoff ==
  /\ Answered("handoff")
  /\ LET before == IF Values = Blank THEN NewState ELSE Values
         fine   == /\ before.resolution = prog.original.resolution
                   /\ prog.state.resolution # prog.original.resolution
                   /\ prog.state.order = prog.original.order
     IN prog' = [prog EXCEPT !.at = "end", !.exit = IF fine THEN 0 ELSE 1]
  /\ UNCHANGED kept

ForkInit == Init /\ prog = Start /\ kept = [i \in Id |-> Blank]

ForkNext ==
  \/ DeleteThread(THREAD_ID) \/ FirstTurn
  \/ AskFinal \/ RememberFinal
  \/ AskHistory \/ FindForkPoint
  \/ AskRehydrated \/ ForkTurn
  \/ AskBefore \/ WriteHandoff
  \/ Invocation(SupportTurns(Values, prog.input))
  \/ SaverStep(me)
  \/ RunAgain(Start)

ForkSpec == ForkInit /\ [][ForkNext]_allVars

-----------------------------------------------------------------------------

\* A run of the program that no error ends exits with 0, wherever earlier runs
\* were cut short, and whether or not their last request took effect.
ForkSucceeds == prog.at = "end" => prog.exit = 0

\* The parent of a stored checkpoint.
ParentOf(i) ==
  LET k == CpKey(THREAD_ID, CHECKPOINT_NS, i) IN IF Stored(k) THEN db[k].parent ELSE NoId

\* The checkpoints from which checkpoint i descends, and i itself.
Lineage(i) ==
  LET line[j \in Id \cup {NoId}] == IF j = NoId THEN {} ELSE {j} \cup line[ParentOf(j)]
  IN line[i]

Latest == db[LatestKey(THREAD_ID, CHECKPOINT_NS)].id

\* The corrected run is a branch: from the checkpoint where the order was known
\* and the intent was not, beside the rest of the original run, which is all
\* still there.
ForkIsABranch ==
  prog.at = "end" =>
    LET fork  == IdOf(prog.fork)
        final == IdOf(prog.final)
    IN /\ Lineage(Latest) \cap Lineage(final) = Lineage(fork)
       /\ kept[fork].order # None /\ kept[fork].intent = None
       /\ \E turn \in SupportTurns(Blank, ORIGINAL_REQUEST) :
            {kept[i] : i \in Lineage(final)} = {turn[n] : n \in DOMAIN turn}

\* Once the thread is cleaned the run only adds to it: no checkpoint of the
\* history is touched by what is saved later.
HistoryIsKept ==
  [][prog.at # "clean" =>
       \A k \in Key : k.set = "cp" /\ Stored(k) => db'[k] = db[k] /\ kept'[k.id] = kept[k.id]]_allVars
=============================================================================
