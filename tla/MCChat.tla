-------------------------------- MODULE MCChat --------------------------------
(***************************************************************************)
(* The chat demo for TLC, with another client that reads the thread.       *)
(***************************************************************************)
EXTENDS ChatDemo

CONSTANTS other, thread, root, m

MCTs == [i \in Id |-> i]
MCMetaOf == [i \in Id |-> m]
MCSpecialIdx == [c \in {} |-> 0]
MCCalls == [p \in Proc |-> IF p = me THEN ProgramCalls ELSE {GetRequest(ChatConfig)}]
=============================================================================
