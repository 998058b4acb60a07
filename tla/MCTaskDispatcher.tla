-------------------------- MODULE MCTaskDispatcher --------------------------
(***************************************************************************)
(* Instances of TaskDispatcher for TLC.                                    *)
(***************************************************************************)
EXTENDS TaskDispatcher

\* A redirect or two in cluster 0, then items of two further clusters.
MCClusterOf == <<0, 1, 1, 2, 2>>

\* One entry, of cluster 1.
MCOneCluster == <<1>>

=============================================================================
