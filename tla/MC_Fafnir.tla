----------------------------- MODULE MC_Fafnir -------------------------------
(***************************************************************************)
(* Model-checking instance of Fafnir.  The opcode values live in           *)
(* fafnir/language.h, outside this repository; any five distinct bytes     *)
(* other than 0 and 1 behave alike here.  Bytes are the opcodes, 0 (the    *)
(* string terminator and binding 0) and 1; there are two bindings, an      *)
(* offset and a memory view.                                               *)
(***************************************************************************)
EXTENDS Fafnir

MCBytes == {0, 1, FNR_OP_CONST, FNR_OP_BINDING, FNR_OP_AND, FNR_OP_ADD, FNR_OP_INTRIN}

MCBindTypes == <<"offset", "memoryView">>
====
