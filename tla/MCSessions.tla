------------------------------ MODULE MCSessions ------------------------------
(***************************************************************************)
(* Instances of SaverSessions for TLC.                                     *)
(***************************************************************************)
EXTENDS MCSaver, SaverSessions

\* A client goes on from its thread's latest checkpoint while another stores,
\* reads an older checkpoint by its id, lists and deletes the thread.
SlideCalls == c1 :> {Put(t1, root, 1, NoId), Get(t1, root, NoId),
                    Writes(t1, root, 1, tA, << <<chan, v1>> >>)}
           @@ c2 :> {Put(t1, root, 2, 1), Get(t1, root, 1), ListAll(t1, root), Delete(t1)}

\* The older of two checkpoints is read by its id.
ByIdCalls == c1 :> {Put(t1, root, 1, NoId), Put(t1, root, 2, 1)} @@ c2 :> {Get(t1, root, 1)}
=============================================================================
