--------------------------------- MODULE Tcb ---------------------------------
(***************************************************************************)
(* The initial thread's TLS area (allocateTcb, linker.cpp), composed with  *)
(* the load session of Loader.                                             *)
(*                                                                         *)
(* Once buildInitialTls has fixed runtimeTlsMap->initialSize and the       *)
(* negative offsets, allocateTcb allocates initialSize + sizeof(Tcb)       *)
(* bytes, puts the Tcb at the end of the TLS blocks, copies the image of   *)
(* every object of the initial model to tcb + tlsOffset and installs the   *)
(* Tcb as the fs base.  The caller (interpreterMain) is not in this        *)
(* repository, so the call may come at any point after the layout.  The    *)
(* zeroing and the bytes copied are left out: the model records where      *)
(* each image goes.                                                        *)
(***************************************************************************)
EXTENDS Loader

CONSTANT
  HeapAddrs   \* the addresses allocator->allocate may return

VARIABLES
  fsBase,     \* the Tcb address given to helWriteFsBase, 0 before the call
  imageAt     \* per object, the address its TLS image is copied to

tcbVars == <<vars, fsBase, imageAt>>

TcbInit ==
  /\ Init
  /\ fsBase = 0
  /\ imageAt = [n \in Names |-> 0]

(* allocateTcb: fs_buffer of initialSize + sizeof(Tcb) bytes; the Tcb at   *)
(* fs_buffer + initialSize; each initial-model image at tcb + tlsOffset.   *)
AllocateTcb ==
  /\ phase \in {"link", "schedule", "copy", "init", "done"}
  /\ fsBase = 0
  /\ \E fs_buffer \in HeapAddrs :
       LET tcb == fs_buffer + tls.size
       IN  /\ fsBase' = tcb
           /\ imageAt' = [n \in Names |-> IF n \in tls.initial
                                         THEN tcb + tls.offset[n] ELSE 0]
  /\ UNCHANGED vars

TcbNext == (Next /\ UNCHANGED <<fsBase, imageAt>>) \/ AllocateTcb

TcbSpec == TcbInit /\ [][TcbNext]_tcbVars

-----------------------------------------------------------------------------
(***************************************************************************)
(* The TLS image of every object of the initial model is copied to an      *)
(* address aligned to the object's p_align, as its code assumes: the       *)
(* offsets buildInitialTls aligns relative to the thread pointer are only  *)
(* aligned in memory if allocateTcb places the Tcb on an address aligned   *)
(* to every block's alignment.                                             *)
(***************************************************************************)
TcbAligned ==
  fsBase # 0 => \A o \in tls.initial : imageAt[o] % image[o].tlsAlign = 0
====
