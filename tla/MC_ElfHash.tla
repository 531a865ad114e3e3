----------------------------- MODULE MC_ElfHash ------------------------------
(***************************************************************************)
(* Model-checking instance of ElfHash: objects with up to three symbols    *)
(* and hash tables of one to three buckets, built the way the static       *)
(* linker builds them.                                                     *)
(***************************************************************************)
EXTENDS ElfHash

(* The ELF gABI hash the static linker files symbols under: the same loop *)
(* over the name's bytes as unsigned char.                                 *)
GabiHash(name) == FoldLeft(LAMBDA h, b : HashStep(h, <<0, b>>), 0, name)

(* A SysV hash table for symbol table t with nb buckets: each bucket holds *)
(* the highest index hashing to it and each chain entry the next lower.    *)
HashTableOf(t, nb) ==
  LET n == Len(t)
      Bucket(i) == GabiHash(t[i].name) % nb
      Highest(S) == IF S = {} THEN 0 ELSE Max(S)
  IN  [k \in 0..(2 + nb + n) |->
         CASE k = 0 -> nb
           [] k = 1 -> n + 1
           [] k < 2 + nb -> Highest({i \in 1..n : Bucket(i) = k - 2})
           [] k = 2 + nb -> 0
           [] OTHER -> LET i == k - 2 - nb
                       IN  Highest({j \in 1..(i - 1) : Bucket(j) = Bucket(i)})]

memcpy == <<109, 101, 109, 99, 112, 121>>
(* Eight ASCII bytes: the fold of the top nibble happens from the seventh. *)
longName == <<95, 90, 78, 51, 102, 111, 111, 118>>
(* "café" in UTF-8. *)
cafe == <<99, 97, 102, 195, 169>>

MCNames == {memcpy, longName, cafe}

Sym(name, shndx, bind) == [name |-> name, shndx |-> shndx, bind |-> bind]

MCSyms == {Sym(nm, "TEXT", "GLOBAL") : nm \in MCNames}
          \cup {Sym(nm, "TEXT", "WEAK") : nm \in MCNames}
          \cup {Sym(nm, "UNDEF", "GLOBAL") : nm \in MCNames}

MCSymTabs == UNION {[1..n -> MCSyms] : n \in 1..3}

MCTables == [t \in MCSymTabs |-> {HashTableOf(t, nb) : nb \in 1..3}]
====
