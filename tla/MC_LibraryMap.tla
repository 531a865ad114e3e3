--------------------------- MODULE MC_LibraryMap ----------------------------
(***************************************************************************)
(* Model-checking instances of LibraryMap: an executable, two libraries   *)
(* and program header tables as a linker produces them, plus malformed     *)
(* ones.                                                                   *)
(***************************************************************************)
EXTENDS LibraryMap

CONSTANTS le, la, lb

MCLibs == {la, lb}

Ph(type, vaddr, memsz, offset, flags) ==
  [type |-> type, vaddr |-> vaddr, memsz |-> memsz, offset |-> offset, flags |-> flags]

RX == {"R", "X"}
RW == {"R", "W"}

(* A small library: text at 0, data on a later page at an unaligned       *)
(* address that crosses a page boundary, TLS and DYNAMIC inside the data.  *)
Small ==
  <<Ph("PHDR", 64, 448, 64, {"R"}),
    Ph("LOAD", 0, 4660, 0, RX),
    Ph("LOAD", 12272, 48, 8176, RW),
    Ph("TLS", 12272, 16, 8176, {"R"}),
    Ph("DYNAMIC", 12288, 32, 8192, RW),
    Ph("GNU_STACK", 0, 0, 0, RW)>>

(* A library that fills its 16 MiB window to the last byte.               *)
Full ==
  <<Ph("LOAD", 0, 16773120, 0, RX),
    Ph("LOAD", 16775168, 2048, 16771072, RW)>>

(* Malformed tables: an empty PT_LOAD, a writable-executable segment, a   *)
(* text segment at an unaligned file offset, an unknown header type.      *)
Malformed ==
  {<<Ph("LOAD", 0, 0, 0, RX)>>,
   <<Ph("LOAD", 0, 4096, 0, {"R", "W", "X"})>>,
   <<Ph("LOAD", 0, 4096, 100, RX)>>,
   <<Ph("NOTE", 0, 32, 0, {"R"})>>}

GoodLayouts == {Small, Full} \cup Malformed
====
