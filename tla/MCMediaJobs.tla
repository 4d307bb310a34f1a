----------------------------- MODULE MCMediaJobs -----------------------------
(* Instances of the media jobs for TLC. *)
EXTENDS MediaJobs
=============================================================================
