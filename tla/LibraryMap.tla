----------------------------- MODULE LibraryMap -----------------------------
(***************************************************************************)
(* Where the runtime linker maps the segments of the libraries it fetches  *)
(* (LinkUniverse::_fetchFromFile, linker.cpp).                             *)
(*                                                                         *)
(* Every fetched library gets the next fixed window of 16 MiB from         *)
(* libraryBase.  The loop over its program headers maps each PT_LOAD       *)
(* segment at base + p_vaddr rounded down to a page, with its length       *)
(* rounded up to whole pages, read-execute from the file or read-write     *)
(* into fresh memory, and records PT_TLS and PT_DYNAMIC.  The file I/O is  *)
(* left out: a library's program headers are given by Phdrs.  The          *)
(* executable, which the kernel has mapped already, only has its PT_TLS    *)
(* and PT_DYNAMIC recorded (_fetchFromPhdrs).                              *)
(***************************************************************************)
EXTENDS Integers, Sequences

CONSTANTS
  Exe,      \* the executable (a model value)
  Libs,     \* the libraries that may be fetched (model values)
  Layouts   \* the program-header tables a library file may have

kPageSize == 4096                  \* constexpr kPageSize
LibraryBase0 == 1090519040         \* libraryBase = 0x41000000
Window == 16777216                 \* libraryBase += 0x1000000

None == "none"

VARIABLES
  phdrs,        \* per object, its program headers
  libraryBase,  \* the global libraryBase
  base,         \* per library, SharedObject::baseAddress (0 until fetched)
  exeDone,      \* _fetchFromPhdrs has run for the executable
  cur,          \* the library whose headers are being walked, or None
  idx,          \* the index of the header being processed
  mapped,       \* the mappings established: [lib, addr, len, prot]
  tlsImage,     \* per library, tlsImagePtr as an address (0 if none)
  dynamic,      \* per library, the dynamic section address (0 if none)
  panic         \* the failed assertion or panic, or "none"

vars == <<phdrs, libraryBase, base, exeDone, cur, idx, mapped, tlsImage, dynamic,
          panic>>

Objects == Libs \cup {Exe}

(* The page-granular address and length helMapMemory is given for a       *)
(* PT_LOAD header of a library at base b.                                 *)
MapAddressNoAlign(b, ph) == b + ph.vaddr

MapAddress(b, ph) ==
  b + ph.vaddr - (ph.vaddr % kPageSize)

MapLengthRoundAlways(ph) ==
  LET len == ph.memsz + (ph.vaddr % kPageSize)
  IN  len + (kPageSize - (len % kPageSize))

MapLength(ph) ==
  LET len == ph.memsz + (ph.vaddr % kPageSize)
  IN  IF len % kPageSize # 0 THEN len + (kPageSize - (len % kPageSize)) ELSE len

LoadOutcomeWrongProt(b, ph) ==
  CASE ph.memsz = 0                                  -> "emptyLoad"
    [] b % kPageSize # 0                             -> "baseMisaligned"
    [] "W" \notin ph.flags /\ ph.offset % kPageSize # 0 -> "offsetMisaligned"
    [] "W" \notin ph.flags /\ ph.flags # {"R", "X"}  -> "illegalPermissions"
    [] "W" \in ph.flags                              -> "rwx"
    [] OTHER                                         -> "rx"

(* The checks of the PT_LOAD branch, in code order: a panic reason or      *)
(* the protection the segment is mapped with.                             *)
LoadOutcome(b, ph) ==
  CASE ph.memsz = 0                                  -> "emptyLoad"
    [] b % kPageSize # 0                             -> "baseMisaligned"
    [] "W" \notin ph.flags /\ ph.offset % kPageSize # 0 -> "offsetMisaligned"
    [] "W" \notin ph.flags /\ ph.flags # {"R", "X"}  -> "illegalPermissions"
    [] "W" \in ph.flags /\ ph.flags # {"R", "W"}     -> "illegalPermissions"
    [] "W" \in ph.flags                              -> "rw"
    [] OTHER                                         -> "rx"

LoadPanics == {"emptyLoad", "baseMisaligned", "offsetMisaligned", "illegalPermissions"}

Ignored == {"INTERP", "PHDR", "GNU_EH_FRAME", "GNU_RELRO", "GNU_STACK"}

Init ==
  /\ phdrs \in [Objects -> Layouts]
  /\ libraryBase = LibraryBase0
  /\ base = [l \in Libs |-> 0]
  /\ exeDone = FALSE
  /\ cur = None
  /\ idx = 0
  /\ mapped = {}
  /\ tlsImage = [l \in Objects |-> 0]
  /\ dynamic = [l \in Objects |-> 0]
  /\ panic = "none"

(* _fetchFromPhdrs for the executable at base 0: the last PT_TLS and      *)
(* PT_DYNAMIC header are recorded, every other type is skipped.            *)
FetchFromPhdrs ==
  /\ ~exeDone
  /\ LET LastOf(ty) == {i \in DOMAIN phdrs[Exe] :
                          /\ phdrs[Exe][i].type = ty
                          /\ \A j \in DOMAIN phdrs[Exe] : j > i => phdrs[Exe][j].type # ty}
         At(ty) == IF LastOf(ty) = {} THEN 0
                   ELSE phdrs[Exe][CHOOSE i \in LastOf(ty) : TRUE].vaddr
     IN  /\ tlsImage' = [tlsImage EXCEPT ![Exe] = At("TLS")]
         /\ dynamic' = [dynamic EXCEPT ![Exe] = At("DYNAMIC")]
  /\ exeDone' = TRUE
  /\ UNCHANGED <<phdrs, libraryBase, base, cur, idx, mapped, panic>>

(* _fetchFromFile is entered: take the next 16 MiB window.  Libraries are  *)
(* requested while the executable's dependencies are discovered, after     *)
(* injectObjectFromPhdrs.                                                  *)
FetchFromFile(l) ==
  /\ exeDone /\ cur = None /\ base[l] = 0 /\ panic = "none"
  /\ base' = [base EXCEPT ![l] = libraryBase]
  /\ libraryBase' = libraryBase + Window
  /\ cur' = l
  /\ idx' = 1
  /\ UNCHANGED <<phdrs, exeDone, mapped, tlsImage, dynamic, panic>>

(* One iteration of the program-header loop.                               *)
ProcessPhdr ==
  /\ cur # None /\ idx <= Len(phdrs[cur]) /\ panic = "none"
  /\ LET ph == phdrs[cur][idx]
         b == base[cur]
         out == LoadOutcome(b, ph)
     IN  CASE ph.type = "LOAD" /\ out \in LoadPanics ->
                /\ panic' = out
                /\ UNCHANGED <<mapped, tlsImage, dynamic>>
           [] ph.type = "LOAD" ->
                /\ mapped' = mapped \cup {[lib |-> cur, addr |-> MapAddress(b, ph),
                                           len |-> MapLength(ph), prot |-> out]}
                /\ UNCHANGED <<tlsImage, dynamic, panic>>
           [] ph.type = "TLS" ->
                /\ tlsImage' = [tlsImage EXCEPT ![cur] = b + ph.vaddr]
                /\ UNCHANGED <<mapped, dynamic, panic>>
           [] ph.type = "DYNAMIC" ->
                /\ dynamic' = [dynamic EXCEPT ![cur] = b + ph.vaddr]
                /\ UNCHANGED <<mapped, tlsImage, panic>>
           [] ph.type \in Ignored ->
                UNCHANGED <<mapped, tlsImage, dynamic, panic>>
           [] OTHER ->
                /\ panic' = "unexpectedPhdr"
                /\ UNCHANGED <<mapped, tlsImage, dynamic>>
  /\ idx' = idx + 1
  /\ UNCHANGED <<phdrs, libraryBase, base, exeDone, cur>>

(* The loop is done: the file is closed.                                   *)
FetchDone ==
  /\ cur # None /\ idx > Len(phdrs[cur]) /\ panic = "none"
  /\ cur' = None
  /\ idx' = 0
  /\ UNCHANGED <<phdrs, libraryBase, base, exeDone, mapped, tlsImage, dynamic,
                 panic>>

Next ==
  \/ FetchFromPhdrs
  \/ \E l \in Libs : FetchFromFile(l)
  \/ ProcessPhdr
  \/ FetchDone

Spec == Init /\ [][Next]_vars

-----------------------------------------------------------------------------
TypeOK ==
  /\ libraryBase \in Nat /\ base \in [Libs -> Nat]
  /\ cur \in Libs \cup {None} /\ idx \in Nat
  /\ \A m \in mapped : m.lib \in Libs /\ m.prot \in {"rx", "rw"}
  /\ tlsImage \in [Objects -> Nat] /\ dynamic \in [Objects -> Nat]
  /\ panic \in {"none", "unexpectedPhdr"} \cup LoadPanics

(***************************************************************************)
(* Each mapping established for a PT_LOAD header starts and ends on a page *)
(* boundary and covers the segment [base + p_vaddr, + p_memsz) with less   *)
(* than one page of slack at either end.                                   *)
(***************************************************************************)
MapCoversSegment ==
  \A m \in mapped : \E i \in DOMAIN phdrs[m.lib] :
     LET ph == phdrs[m.lib][i]
         lo == base[m.lib] + ph.vaddr
     IN  /\ ph.type = "LOAD"
         /\ m.addr % kPageSize = 0 /\ m.len % kPageSize = 0
         /\ m.addr <= lo /\ lo < m.addr + kPageSize
         /\ lo + ph.memsz <= m.addr + m.len
         /\ m.addr + m.len < lo + ph.memsz + kPageSize

(***************************************************************************)
(* The segments of two different libraries never share an address: every  *)
(* library stays inside the window _fetchFromFile gave it.                 *)
(***************************************************************************)
WindowsDisjoint ==
  \A m1, m2 \in mapped :
     m1.lib # m2.lib => \/ m1.addr + m1.len <= m2.addr
                        \/ m2.addr + m2.len <= m1.addr
=============================================================================
