---------------------------- MODULE MCRingsQueue ----------------------------
(* RingsQueue with two threads, and few values and addresses. *)
EXTENDS RingsQueue
=============================================================================
