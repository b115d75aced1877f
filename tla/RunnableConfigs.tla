--------------------------- MODULE RunnableConfigs ---------------------------
(***************************************************************************)
(* The RunnableConfigs through which callers name a checkpoint, a thread's *)
(* latest checkpoint or its history: how AerospikeSaver reads them         *)
(* (saver.py, _ids_from_config) and which ones it gives back.              *)
(*                                                                         *)
(* CheckpointSaver takes requests that name a thread, a namespace and an   *)
(* id; here is how a config becomes such a request.                        *)
(***************************************************************************)
EXTENDS CheckpointSaver

CONSTANTS
  None,     \* a key that a config does not have
  RootNs    \* the namespace "", which Python takes for false

ASSUME ConfigAssumption == None \notin Thread \cup Ns /\ RootNs \in Ns \ Thread

Configurable == [thread_id : Thread \cup {None}, checkpoint_ns : Ns \cup {None},
                 checkpoint_id : Id \cup {NoId}]
Metadata     == [thread_id : Thread \cup {None}, checkpoint_ns : Ns \cup {None}]
Config       == [configurable : Configurable, metadata : Metadata]

NoMetadata == [thread_id |-> None, checkpoint_ns |-> None]

\* What the config names: configurable first, then metadata, a false value
\* counting as none.  A config without a thread id is an error.
Or(a, b) == IF a \in {None, RootNs} THEN b ELSE a

ThreadOf(cfg) == Or(cfg.configurable.thread_id, cfg.metadata.thread_id)
NsOf(cfg) == Or(Or(cfg.configurable.checkpoint_ns, cfg.metadata.checkpoint_ns), RootNs)
IdOfLatest(cfg) == NoId                                                 \* mutant
IdOf(cfg) == cfg.configurable.checkpoint_id

Valid(cfg) == ThreadOf(cfg) # None

\* The config of a tuple, and with the parent's id its parent_config.
TupleConfig(t, ns, id) ==
  [configurable |-> [thread_id |-> t, checkpoint_ns |-> ns, checkpoint_id |-> id],
   metadata |-> NoMetadata]

\* What put returns: the caller's config, naming the checkpoint just put.
PutReturnsSameId(cfg, id) ==                                            \* mutant
  [cfg EXCEPT !.configurable = TupleConfig(ThreadOf(cfg), NsOf(cfg), IdOf(cfg)).configurable]
PutReturns(cfg, id) ==
  [cfg EXCEPT !.configurable = TupleConfig(ThreadOf(cfg), NsOf(cfg), id).configurable]

\* The requests that the methods make of a config.
GetRequest(cfg) == [op |-> "get", t |-> ThreadOf(cfg), ns |-> NsOf(cfg), id |-> IdOf(cfg)]
ListRequest(cfg) == [op |-> "list", t |-> ThreadOf(cfg), ns |-> NsOf(cfg), before |-> NoId,
                     limit |-> NoLimit, filter |-> NoMeta]
PutRequest(cfg, id) == [op |-> "put", t |-> ThreadOf(cfg), ns |-> NsOf(cfg), id |-> id,
                        parent |-> IdOf(cfg)]

-----------------------------------------------------------------------------

\* A config given back by put, get_tuple or list leads back to the checkpoint
\* it was given for (here: the latest of each namespace), whatever metadata
\* travels along: a false namespace gives way to the one in the metadata when a
\* checkpoint is put and when it is looked up again, or neither time.
ConfigsLeadBack ==
  \A k \in {k \in Key : k.set = "meta" /\ Stored(k)}, named, metadata \in Metadata :
    LET id  == db[k].id
        cfg == [TupleConfig(named.thread_id, named.checkpoint_ns, NoId) EXCEPT !.metadata = metadata]
        get(t, ns) == [op |-> "get", t |-> t, ns |-> ns, id |-> id]
    IN /\ GetRequest(TupleConfig(k.t, k.ns, id)) = get(k.t, k.ns)
       /\ Valid(cfg) => GetRequest(PutReturns(cfg, id)) = get(ThreadOf(cfg), NsOf(cfg))
=============================================================================
