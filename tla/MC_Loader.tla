------------------------------ MODULE MC_Loader ------------------------------
(***************************************************************************)
(* Model-checking instances of Loader: three objects (the executable m    *)
(* and libraries a, b), two symbol names, and sets of file-system          *)
(* contents that the loader may find.                                      *)
(***************************************************************************)
EXTENDS Loader

CONSTANTS m, a, b, x, t

MCNames == {m, a, b}
MCSyms == {x, t}

MCStackLimit == Cardinality(MCNames) + 1

(* Symbol-table entries: undefined global/weak references, definitions.   *)
UG == [bind |-> "global", defined |-> FALSE]
UW == [bind |-> "weak",   defined |-> FALSE]
G  == [bind |-> "global", defined |-> TRUE]
W  == [bind |-> "weak",   defined |-> TRUE]
L  == [bind |-> "local",  defined |-> TRUE]

R(type, s, add) == [type |-> type, sym |-> s, add |-> add]

(* A library with the given DT_NEEDED list and nothing else of interest.  *)
Plain(needed) ==
  [needed |-> needed, present |-> TRUE, wellFormed |-> TRUE,
   symtab |-> [s \in Syms |-> UG], rela |-> <<>>, jmprel |-> <<>>,
   hasGot |-> FALSE, pltRela |-> TRUE, tlsSize |-> 0, tlsAlign |-> 0]

(* m needs a and b, a needs b.                                            *)
Diamond == [n \in Names |-> Plain(CASE n = m -> <<a, b>>
                                    [] n = a -> <<b>>
                                    [] OTHER -> <<>>)]

(***************************************************************************)
(* Graph run: every DT_NEEDED graph in which each object lists at most two *)
(* names (shared, repeated, self and cyclic edges included), and a missing *)
(* or malformed object in the diamond.                                     *)
(***************************************************************************)
GraphImages ==
  {[n \in Names |-> Plain(g[n])] : g \in [Names -> BoundedSeq(Names, 2)]}
  \cup {[Diamond EXCEPT ![a].present = FALSE],
        [Diamond EXCEPT ![b].wellFormed = FALSE],
        [Diamond EXCEPT ![m].wellFormed = FALSE]}

(***************************************************************************)
(* Relocation run: the diamond, where m has a COPY of x and a TPOFF64 of   *)
(* its TLS symbol t, a binds x by GLOB_DAT and JUMP_SLOT and t by the      *)
(* dynamic TLS types, b has an absolute reference to x.  Every object may  *)
(* define, weakly define, only reference, or locally define x, and define  *)
(* or reference t.                                                         *)
(***************************************************************************)
RelocBase ==
  [Diamond EXCEPT
     ![m].rela = <<R("COPY", x, 0), R("TPOFF64", t, 0)>>,
     ![m].tlsSize = 8, ![m].tlsAlign = 8,
     ![a].rela = <<R("GLOB_DAT", x, 0), R("DTPMOD64", t, 0),
                   R("DTPOFF64", t, 0), R("RELATIVE", NoSym, 16)>>,
     ![a].jmprel = <<R("JUMP_SLOT", x, 0)>>, ![a].hasGot = TRUE,
     ![b].rela = <<R("64", x, 8), R("DTPMOD64", NoSym, 0)>>,
     ![b].tlsSize = 16, ![b].tlsAlign = 16]

RelocImages ==
  {[n \in Names |-> [RelocBase[n] EXCEPT !.symtab = [s \in Syms |->
                       IF s = x THEN tx[n] ELSE tt[n]]]] :
     tx \in [Names -> {UG, UW, G, W, L}], tt \in [Names -> {UG, UW, G}]}

(* Malformed relocation tables, with m and b defining x and t.            *)
RelocGood ==
  [n \in Names |-> [RelocBase[n] EXCEPT !.symtab =
                      [s \in Syms |-> IF n = a THEN UG ELSE G]]]

RelocFaults ==
  {[RelocGood EXCEPT ![b].rela = <<R("OTHER", x, 0)>>],
   [RelocGood EXCEPT ![a].rela = <<R("GLOB_DAT", x, 4)>>],
   [RelocGood EXCEPT ![a].hasGot = FALSE],
   [RelocGood EXCEPT ![a].pltRela = FALSE]}

RelocRunImages == RelocImages \cup RelocFaults

(***************************************************************************)
(* TLS run: the diamond with every combination of segment size and         *)
(* alignment, including alignments that do not divide 16 and p_align 0.   *)
(***************************************************************************)
TlsChoices == {<<0, 0>>, <<4, 4>>, <<8, 8>>, <<12, 4>>, <<16, 8>>,
               <<24, 16>>, <<8, 32>>, <<8, 0>>}

TlsImages ==
  {[n \in Names |-> [Diamond[n] EXCEPT !.tlsSize = c[n][1], !.tlsAlign = c[n][2]]] :
     c \in [Names -> TlsChoices]}

(* The passing run: every graph, relocation and TLS input above.          *)
LoaderImages == GraphImages \cup RelocRunImages \cup TlsImages

(***************************************************************************)
(* Cycle run: graphs with a cycle through the executable or a library.    *)
(***************************************************************************)
CycleImages ==
  {[Diamond EXCEPT ![b].needed = <<a>>],
   [Diamond EXCEPT ![a].needed = <<m>>]}

(* Weak TLS run: a references t weakly and nobody defines it.             *)
WeakTlsImages ==
  {[n \in Names |-> [RelocBase[n] EXCEPT
      !.symtab = [s \in Syms |-> CASE s = x -> G
                                   [] n = a -> UW
                                   [] OTHER -> UG],
      !.rela = IF n = a THEN <<R("DTPOFF64", t, 0)>> ELSE <<>>]]}

====
