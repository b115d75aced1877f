-------------------------------- MODULE MCFork --------------------------------
(***************************************************************************)
(* The fork demo for TLC: ten ids, enough for a run's two turns, which the *)
(* next run uses again once the thread is cleaned.                         *)
(***************************************************************************)
EXTENDS ForkDemo

CONSTANTS thread, root, production, m

MCTs == [i \in Id |-> i]
MCMetaOf == [i \in Id |-> CHOOSE x \in Meta : TRUE]
MCSpecialIdx == [c \in {} |-> 0]
MCCalls == [p \in Proc |-> ProgramCalls]
=============================================================================
