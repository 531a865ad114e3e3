------------------------------- MODULE ElfHash -------------------------------
(***************************************************************************)
(* Symbol lookup in one object's SysV hash table (resolveInObject,         *)
(* elf64Hash, symbolSatisfies and strEquals in linker.cpp).                *)
(*                                                                         *)
(* The hash table is the static linker's: a bucket count, a chain count,   *)
(* the buckets and the chains, each an index into the symbol table, 0      *)
(* ending a chain.  resolveInObject hashes the requested name, picks the   *)
(* bucket hash % nbucket and walks its chain until a symbol satisfies the  *)
(* request.  Names are sequences of bytes without their NUL.               *)
(*                                                                         *)
(* elf64Hash adds each byte as the uint32_t value of a plain char.  On    *)
(* x86-64, the only target of this linker, char is signed, so a byte of    *)
(* 0x80 or more is added as 0xFFFFFF00 + byte.  TLC's integers have 32     *)
(* bits with a sign, so a 32-bit value is kept as its top nibble and its   *)
(* low 28 bits.                                                            *)
(***************************************************************************)
EXTENDS Integers, Sequences, SequencesExt, Bitwise

CONSTANTS
  SymTabs,    \* the symbol tables an object may have (index 0 is STN_UNDEF)
  Tables,     \* per symbol table, the hash tables its object may carry
  Requests    \* the names that may be looked up

VARIABLES
  symtab,     \* the object's symbol table: [1..n -> symbol]
  hashTable,  \* the object's hash table: a function from 0..
  req,        \* the requested name r_string
  index,      \* the symbol index the chain walk is at
  phase       \* "start", "walk", then "found" or "missing"

vars == <<symtab, hashTable, req, index, phase>>

Low28 == 268435456   \* 2^28: h &= 0x0FFFFFFF

(* (uint32_t) of a signed char holding byte b, as <<top nibble, low 28>>.  *)
CharToU32(b) == IF b >= 128 THEN <<15, Low28 - 256 + b>> ELSE <<0, b>>

(* One iteration of elf64Hash's loop on h (below 2^28) and the byte's      *)
(* 32-bit value c: h = (h << 4) + c; g = h & 0xF0000000; if g then         *)
(* h ^= g >> 24; h &= 0x0FFFFFFF.                                          *)
HashStep(h, c) ==
  LET lo == (h % 16777216) * 16 + c[2]
      g == (h \div 16777216 + c[1] + lo \div Low28) % 16
      low == lo % Low28
      nib == (low \div 16) % 16
  IN  low + ((nib ^^ g) - nib) * 16

elf64Hash(name) == FoldLeft(LAMBDA h, b : HashStep(h, CharToU32(b)), 0, name)

(* strEquals: both names end at the same byte with equal bytes before.    *)
strEquals(a, b) == a = b

(* symbolSatisfies: defined, GLOBAL or WEAK, and the same name.            *)
symbolSatisfies(p, r) ==
  /\ p.shndx # "UNDEF"
  /\ p.bind \in {"GLOBAL", "WEAK"}
  /\ strEquals(p.name, r)

NumBuckets == hashTable[0]

Init ==
  /\ symtab \in SymTabs
  /\ hashTable \in Tables[symtab]
  /\ req \in Requests
  /\ index = 0
  /\ phase = "start"

(* The bucket of the requested name, and the head of its chain.            *)
Start ==
  /\ phase = "start"
  /\ index' = hashTable[2 + (elf64Hash(req) % NumBuckets)]
  /\ phase' = "walk"
  /\ UNCHANGED <<symtab, hashTable, req>>

(* One iteration of the chain walk.                                        *)
Walk ==
  /\ phase = "walk" /\ index # 0
  /\ IF symbolSatisfies(symtab[index], req)
     THEN phase' = "found" /\ UNCHANGED index
     ELSE index' = hashTable[2 + NumBuckets + index] /\ UNCHANGED phase
  /\ UNCHANGED <<symtab, hashTable, req>>

(* The chain ended: an empty Optional.                                     *)
Miss ==
  /\ phase = "walk" /\ index = 0
  /\ phase' = "missing"
  /\ UNCHANGED <<symtab, hashTable, req, index>>

Next == Start \/ Walk \/ Miss

Spec == Init /\ [][Next]_vars

-----------------------------------------------------------------------------
(***************************************************************************)
(* resolveInObject misses a name only if no symbol of the object's table   *)
(* satisfies it: the bucket elf64Hash picks is the bucket the static       *)
(* linker filed the symbol under.                                          *)
(***************************************************************************)
LookupComplete ==
  phase = "missing" => \A i \in DOMAIN symtab : ~symbolSatisfies(symtab[i], req)
====
