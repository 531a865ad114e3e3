-------------------------------- MODULE MC_Tcb --------------------------------
(***************************************************************************)
(* Model-checking instance of Tcb: the TLS inputs of MC_Loader, and an     *)
(* allocator that returns a page-aligned buffer, the most aligned one it   *)
(* can return.                                                             *)
(***************************************************************************)
EXTENDS Tcb, MC_Loader

MCHeapAddrs == {65536}
====
