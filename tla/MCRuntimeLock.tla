---------------------------- MODULE MCRuntimeLock ----------------------------
(* Three processes on one project.                                         *)
EXTENDS RuntimeLock
=============================================================================
