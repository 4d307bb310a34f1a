------------------------- MODULE MCProcessLifecycle -------------------------
(* Instances of the worker lifecycle for TLC; liveness is checked, so without *)
(* symmetry.                                                                  *)
EXTENDS ProcessLifecycle

\* Every deployment asks for the one GPU of the host.
SharedGpu == [r \in Runtimes |-> {"gpu"}]
=============================================================================
