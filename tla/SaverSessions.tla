---------------------------- MODULE SaverSessions ----------------------------
(***************************************************************************)
(* Sessions with a lifetime: what sliding expiration (saver.py, ttl with   *)
(* refresh_on_read) keeps for a client that goes on using a thread.        *)
(*                                                                         *)
(* A call takes time: ticks may fall between any two of its requests, so   *)
(* that what it stores or reads first is older, when it returns, than what *)
(* comes last.  How long calls take is not the saver's to say; Longest     *)
(* bounds it, and what is promised is promised in terms of it.             *)
(***************************************************************************)
EXTENDS CheckpointSaver

CONSTANT Longest         \* the most ticks that pass during a call

ASSUME LongestAssumption == Longest \in Nat

\* Auxiliary: nothing of the saver reads them.
VARIABLES
  spent,   \* spent[p]: ticks since the call p is in began
  unused,  \* unused[t, ns]: ticks since the last use of the session; Ttl: none
  cut      \* callers whose thread lost a record during their call

timedVars == <<vars, spent, unused, cut>>

TimedTypeOK ==
  /\ spent \in [Proc -> 0 .. Longest]
  /\ unused \in [Thread \X Ns -> 0 .. Ttl]
  /\ cut \subseteq Proc

-----------------------------------------------------------------------------
(* Using a session is to store a checkpoint in it, or to read its latest   *)
(* checkpoint while reads refresh.                                         *)

Uses(c) ==
  /\ c.pc = "done"
  /\ c.req.op = "put" \/ (Refresh /\ ByLatest(c) /\ c.out # <<>>)

SessionOf(c) == <<c.req.t, c.req.ns>>

\* Threads of which a record is removed by p, or whose pointer p sets to a
\* checkpoint that may have been removed since p stored it.
Breaks(p) ==
  {k.t : k \in {k \in Key : Stored(k) /\ ~Stored(k)'}}
    \cup (IF p \in cut /\ At(p, "put_latest") THEN {call[p].req.t} ELSE {})

\* What an observer of p's step notes.  A use counts from the moment its call
\* began, and not at all if the thread lost a record meanwhile.
Watch(p) ==
  /\ cut' = {q \in Proc : /\ ~At(q, "idle") /\ ~At(q, "idle")'
                          /\ q \in cut \/ call[q].req.t \in Breaks(p)}
  /\ unused' = [s \in Thread \X Ns |->
       IF s[1] \in Breaks(p) THEN Ttl
       ELSE IF /\ Working(p) /\ Uses(call[p])' /\ p \notin cut /\ SessionOf(call[p]) = s
               /\ spent[p] < unused[s]
         THEN spent[p]
       ELSE unused[s]]
  /\ spent' = [spent EXCEPT ![p] = IF At(p, "idle")' THEN 0 ELSE @]

\* Time passes as long as no call takes too long.
TimedTick ==
  /\ Tick
  /\ \A p \in Proc : ~At(p, "idle") => spent[p] < Longest
  /\ spent' = [p \in Proc |-> IF At(p, "idle") THEN 0 ELSE spent[p] + 1]
  /\ unused' = [s \in Thread \X Ns |-> IF unused[s] < Ttl THEN unused[s] + 1 ELSE Ttl]
  /\ UNCHANGED cut

TimedInit ==
  /\ Init
  /\ spent = [p \in Proc |-> 0]
  /\ unused = [s \in Thread \X Ns |-> Ttl]
  /\ cut = {}

TimedNext ==
  \/ \E p \in Proc : (Step(p) \/ \E r \in Calls[p] : Begin(p, r)) /\ Watch(p)
  \/ TimedTick

TimedSpec == TimedInit /\ [][TimedNext]_timedVars

-----------------------------------------------------------------------------
(* Safety.                                                                 *)

\* With refresh_on_read, a get that finds a checkpoint renews everything the
\* thread needs to go on from it, by whichever way it looked: checkpoint,
\* pending writes and pointer, as far as they are there, have no less of their
\* lifetime left than what has passed since the call began.
ReadRenews ==
  \A p \in Proc : At(p, "done") /\ call[p].req.op = "get" /\ call[p].out # <<>> =>
    LET c == call[p] IN
    \A k \in {CpKey(c.req.t, c.req.ns, c.id), WritesKey(c.req.t, c.req.ns, c.id),
              LatestKey(c.req.t, c.req.ns)} : Stored(k) => db[k].left + spent[p] >= Ttl

\* A session that is used stays: unless a delete_thread takes records of the
\* thread, the pointer and the checkpoint it names are there for a lifetime
\* after the beginning of a put or of a read of the latest, less the duration
\* of a call, because put stores the checkpoint before the pointer and a later
\* put may have moved the pointer.  It does not matter what fails half way and
\* who else reads by id, lists or puts.
SessionsInUseStay ==
  \A t \in Thread, ns \in Ns :
    LET k == LatestKey(t, ns)
    IN unused[<<t, ns>>] + Longest < Ttl => Stored(k) /\ Stored(CpKey(t, ns, db[k].id))

\* Between calls the pointer leads somewhere, as the saver's test of sliding
\* lifetimes wants (tests/test_ttl_behavior.py).
LatestLookupIsValid ==
  (\A p \in Proc : At(p, "idle")) =>
    \A t \in Thread, ns \in Ns :
      LET k == LatestKey(t, ns) IN Stored(k) => Stored(CpKey(t, ns, db[k].id))
=============================================================================
