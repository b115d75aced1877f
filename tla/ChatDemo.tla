------------------------------- MODULE ChatDemo -------------------------------
(***************************************************************************)
(* cookbooks/expiring-chat-sessions: two turns of a chat whose checkpoints *)
(* have a lifetime that reads do not renew, a wait that is longer, and a   *)
(* third turn.  Other clients read the thread meanwhile, records may       *)
(* expire between any two requests, and the program may stop anywhere,     *)
(* which is all that an error does to it.  (ForkDemo runs its program      *)
(* again after an error; this one begins in the same way.)                 *)
(*                                                                         *)
(* The channel values are the number of messages.                          *)
(***************************************************************************)
EXTENDS GraphRuns

CONSTANTS THREAD_ID

ASSUME ChatAssumption == THREAD_ID \in Thread

\* CHAT_TTL_MINUTES is positive and CHAT_REFRESH_ON_READ is False.
ASSUME LifetimeAssumption == Ttl > 0 /\ ~RefreshOnRead

\* The other clients only read.
ASSUME OthersAssumption == \A p \in Proc \ {me} : Calls[p] \subseteq GetReq \cup ListReq

\* thread_id is all that the program's config has.
ChatConfig == TupleConfig(THREAD_ID, None, NoId)

\* One turn: the input is saved, then applied, then the model's reply.
ChatTurns(before, text) ==
  LET n == IF before = Blank THEN 0 ELSE before IN {<<n, n + 1, n + 2>>}

Start == [at |-> "clean", cfg |-> ChatConfig, input |-> None, back |-> "clean",
          todo |-> <<>>, last |-> NoId, state |-> Blank, exit |-> None,
          turn |-> 0, slept |-> 0, tuple |-> None, key |-> NoId, ttl |-> None]

-----------------------------------------------------------------------------
(* _say, _checkpoint_ttl_seconds and the phases of main (demo.py).         *)

\* The next turn; afterwards the program is at `back`.  The lifetime shown
\* before is not used again.
SayNext(back) == [Invoking(ChatConfig, None, back) EXCEPT !.turn = @ + 1, !.ttl = None]

FirstTurn == Answered("clean") /\ prog' = SayNext("ttl") /\ UNCHANGED kept

\* The lifetime is read off the record of the tuple that get_tuple returns.
AskTtl == Asks("ttl", GetRequest(ChatConfig))

TtlTuple ==
  /\ Answered("ttl")
  /\ prog' = IF Tuples = <<>> THEN [prog EXCEPT !.at = "shown"]
             ELSE [prog EXCEPT !.at = "raw", !.key = Tuples[1].id]
  /\ UNCHANGED kept

\* client.get with no read policy: nothing slides.  The record may have expired
\* since get_tuple saw it.
RawRecord == CpKey(THREAD_ID, NsOf(ChatConfig), prog.key)

ShowTtl(ttl) == [prog EXCEPT !.at = "shown", !.key = NoId, !.ttl = ttl]

RawReadUncaught ==                                                      \* mutant
  /\ prog.at = "raw"
  /\ prog' = IF Stored(RawRecord) THEN ShowTtl(db[RawRecord].left)
             ELSE [prog EXCEPT !.at = "end", !.exit = 1]
  /\ UNCHANGED <<vars, kept>>
RawRead ==
  /\ prog.at = "raw"
  /\ prog' = ShowTtl(IF Stored(RawRecord) THEN db[RawRecord].left ELSE None)
  /\ UNCHANGED <<vars, kept>>

SecondTurn ==
  /\ prog.at = "shown" /\ prog.turn = 1
  /\ prog' = SayNext("spoken")
  /\ UNCHANGED <<vars, kept>>

\* With --skip-wait the program ends here.
SleepOrSkip ==
  /\ prog.at = "spoken"
  /\ prog' \in {[prog EXCEPT !.at = "sleep"], [prog EXCEPT !.at = "end", !.exit = 0]}
  /\ UNCHANGED <<vars, kept>>

\* The wait is ten seconds more than the lifetime; with nothing stored it makes
\* no difference how long it is.
NothingStored == \A k \in Key : ~Stored(k)

WakeUp ==
  /\ prog.at = "sleep" /\ (prog.slept >= Ttl \/ NothingStored)
  /\ prog' = [prog EXCEPT !.at = "probe", !.slept = 0]
  /\ UNCHANGED <<vars, kept>>

AskProbe == Asks("probe", GetRequest(ChatConfig))

Probed ==
  /\ Answered("probe")
  /\ prog' = [prog EXCEPT !.at = "ttl", !.tuple = Tuples # <<>>]
  /\ UNCHANGED kept

\* `if tpl is not None`: return 1, else the third turn.
ThirdTurn ==
  /\ prog.at = "shown" /\ prog.turn = 2
  /\ prog' = IF prog.tuple THEN [prog EXCEPT !.at = "end", !.exit = 1] ELSE SayNext("fresh")
  /\ UNCHANGED <<vars, kept>>

Finish ==
  /\ prog.at = "fresh"
  /\ prog' = [prog EXCEPT !.at = "end", !.exit = 0]
  /\ UNCHANGED <<vars, kept>>

-----------------------------------------------------------------------------

TimePasses ==
  /\ Tick
  /\ prog' = IF prog.at = "sleep" /\ prog.slept < Ttl THEN [prog EXCEPT !.slept = @ + 1] ELSE prog
  /\ UNCHANGED kept

Others == \E p \in Proc \ {me} :
  /\ (\E r \in Calls[p] : Begin(p, r)) \/ Return(p)
  /\ UNCHANGED progVars

ChatInit == Init /\ prog = Start /\ kept = [i \in Id |-> Blank]

ChatNext ==
  \/ DeleteThread(THREAD_ID) \/ FirstTurn
  \/ AskTtl \/ TtlTuple \/ RawRead \/ SecondTurn \/ SleepOrSkip
  \/ WakeUp \/ AskProbe \/ Probed \/ ThirdTurn \/ Finish
  \/ Invocation(ChatTurns(Values, prog.input))
  \/ \E p \in Proc : SaverStep(p)
  \/ Others
  \/ TimePasses

\* Time passes; nobody has to do anything, so a client may stop anywhere.
ChatSpec == ChatInit /\ [][ChatNext]_allVars /\ WF_allVars(TimePasses)

-----------------------------------------------------------------------------

\* A run that no failure of the database ends exits with 0, whatever expires
\* between two of its reads: a record that is gone when its lifetime is asked for
\* is no error, and after the wait the session and the raw record are gone, though
\* others may have read them until the end.
ChatSucceeds ==
  /\ prog.at = "end" => prog.exit = 0
  /\ prog.at = "shown" /\ prog.turn = 2 => prog.ttl = None

\* Whatever expires while a turn loads and saves: it continues the whole session
\* or starts afresh, never from part of it; after the wait it starts afresh.
TurnsAreWholeOrFresh ==
  /\ prog.at = "spoken" => prog.state \in {2, 4}
  /\ prog.at = "fresh" => prog.state = 2

\* An abandoned session vanishes: wherever the program ended or just stopped,
\* and however often others go on reading, the time comes when nothing is
\* stored.
AbandonedSessionVanishes == []<>NothingStored
=============================================================================
