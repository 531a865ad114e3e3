------------------------------- MODULE Fafnir --------------------------------
(***************************************************************************)
(* The kernlet compiler's front end (compileFafnir, kernletcc fafnir.cpp). *)
(*                                                                         *)
(* A driver sends fafnir bytecode: a postfix program over an operand      *)
(* stack.  compileFafnir lays out the driver's bindings in 8-byte slots,   *)
(* then reads one opcode at a time and turns it into a lewis instruction   *)
(* whose result it pushes on comp.opstack: CONST and BINDING push a leaf,  *)
(* AND and ADD pop two values, INTRIN reads a NUL-terminated function name *)
(* and pops a handle and an offset.  At the end the top of the stack is    *)
(* returned and the stack must be empty.                                   *)
(*                                                                         *)
(* A lewis value is modelled by the expression tree that computes it, so   *)
(* the result of a compilation is a tree.  Lowering to x86-64 and the ELF  *)
(* emission (lines 138-163) belong to the lewis library and are not        *)
(* modelled.  Reading past the end of the code fails an assertion; popping *)
(* an empty std::vector or indexing past the bindings is undefined, and    *)
(* the model stops there in the outcome "ub".                              *)
(***************************************************************************)
EXTENDS Integers, Sequences, SequencesExt

CONSTANTS
  MaxCodeLen,       \* the longest well-formed program given as input
  BindTypes,        \* bind_types: the BindType of each binding, in order
  Bytes,            \* the byte values that occur in the inputs
  FNR_OP_CONST, FNR_OP_BINDING, FNR_OP_AND, FNR_OP_ADD, FNR_OP_INTRIN

VARIABLES
  code,     \* the bytecode being compiled
  s,        \* the read position: code[s] is the next byte (s = code + s - 1)
  opstack,  \* comp.opstack, as the trees of the values on it
  phase,    \* "loop" while compiling, then "done", "assert" or "ub"
  result    \* the tree returned by the function once phase = "done"

vars == <<code, s, opstack, phase, result>>

(* The bindings as compileFafnir lays them out: slot i at displacement 8i. *)
Bindings ==
  [i \in 0..Len(BindTypes) - 1 |-> [type |-> BindTypes[i + 1], disp |-> 8 * i]]

(* extractUint at position p: the byte, after assert(s < code + size).      *)
HasByte(p) == p <= Len(code)

(* extractString from position p: the bytes up to the first NUL, and the   *)
(* position after it; none if the code ends first.                         *)
NulAfter(p) == {q \in p..Len(code) : code[q] = 0}
HasString(p) == NulAfter(p) # {}
StringEnd(p) == CHOOSE q \in NulAfter(p) : \A r \in NulAfter(p) : q <= r

Stop(outcome) ==
  /\ phase' = outcome
  /\ UNCHANGED <<code, s, opstack, result>>

Push(tree, next) ==
  /\ opstack' = Append(opstack, tree)
  /\ s' = next
  /\ UNCHANGED <<code, phase, result>>

(***************************************************************************)
(* The reference: every expression whose postfix bytecode has at most n    *)
(* bytes, as pairs <<bytecode, tree>>.  An operator's operands are pushed  *)
(* first, so the value pushed last (the top of the stack) is its left      *)
(* operand, or the handle of an intrinsic; binding i is the i-th 8-byte    *)
(* slot of the argument.                                                   *)
(***************************************************************************)
TypeOf(bt) == IF bt = "offset" THEN "int32" ELSE "pointer"

RECURSIVE Encodings(_)
Encodings(n) ==
  IF n < 2 THEN {}
  ELSE LET leaves ==
             {<<<<FNR_OP_CONST, v>>, [op |-> "const", val |-> v]>> : v \in Bytes}
             \cup {<<<<FNR_OP_BINDING, i>>,
                     [op |-> "load", disp |-> 8 * i, ty |-> TypeOf(BindTypes[i + 1])]>> :
                   i \in 0..Len(BindTypes) - 1}
           sub == Encodings(n - 3)
           binary ==
             {<<r[1] \o l[1] \o <<opc[1]>>, [op |-> opc[2], l |-> l[2], r |-> r[2]]>> :
                l \in sub, r \in sub, opc \in {<<FNR_OP_AND, "and">>, <<FNR_OP_ADD, "add">>}}
           intrin ==
             {<<o[1] \o h[1] \o <<FNR_OP_INTRIN>> \o f \o <<0>>,
                [op |-> "invoke", fn |-> f, args |-> <<h[2], o[2]>>]>> :
                h \in sub, o \in sub, f \in SeqOf(Bytes \ {0}, n - 6)}
       IN  {e \in leaves \cup binary \cup intrin : Len(e[1]) <= n}

Reference == Encodings(MaxCodeLen)
Accepted == {e[1] : e \in Reference}

(* The inputs: every well-formed program of up to MaxCodeLen bytes, every *)
(* prefix of one (truncated operands and unterminated names), two leaves  *)
(* in a row (a value left on the stack), and every byte string of up to   *)
(* three bytes (operators without operands, unknown opcodes, no code).    *)
Inputs ==
  LET leaves == {c \in Accepted : Len(c) = 2}
  IN  UNION {Prefixes(c) : c \in Accepted}
      \cup {a \o b : a \in leaves, b \in leaves}
      \cup SeqOf(Bytes, 3)

Init ==
  /\ code \in Inputs
  /\ s = 1
  /\ opstack = <<>>
  /\ phase = "loop"
  /\ result = [op |-> "none"]

Opcode(op) == phase = "loop" /\ s <= Len(code) /\ code[s] = op

ConstNoBound ==
  /\ Opcode(FNR_OP_CONST)
  /\ Push([op |-> "const", val |-> IF HasByte(s + 1) THEN code[s + 1] ELSE 0], s + 2)

(* FNR_OP_CONST: a LoadConstInstruction of the next byte.                  *)
Const ==
  /\ Opcode(FNR_OP_CONST)
  /\ IF ~HasByte(s + 1) THEN Stop("assert")
     ELSE Push([op |-> "const", val |-> code[s + 1]], s + 2)

(* FNR_OP_BINDING: a LoadOffsetInstruction from the argument at the       *)
(* binding's displacement, an int32 for an offset binding and a pointer    *)
(* for a memory view.  The index is not checked against the bindings.      *)
Binding ==
  /\ Opcode(FNR_OP_BINDING)
  /\ IF ~HasByte(s + 1) THEN Stop("assert")
     ELSE LET index == code[s + 1]
          IN  CASE index \notin DOMAIN Bindings -> Stop("ub")
                [] Bindings[index].type = "offset" ->
                     Push([op |-> "load", disp |-> Bindings[index].disp, ty |-> "int32"], s + 2)
                [] Bindings[index].type = "memoryView" ->
                     Push([op |-> "load", disp |-> Bindings[index].disp, ty |-> "pointer"], s + 2)
                [] OTHER -> Stop("assert")

(* FNR_OP_AND and FNR_OP_ADD: pop left, then right, push left op right.    *)
BinarySwapped(opcode, name) ==
  /\ Opcode(opcode)
  /\ IF Len(opstack) < 2 THEN Stop("ub")
     ELSE /\ opstack' = Append(SubSeq(opstack, 1, Len(opstack) - 2),
                               [op |-> name, l |-> opstack[Len(opstack) - 1],
                                r |-> Last(opstack)])
          /\ s' = s + 1
          /\ UNCHANGED <<code, phase, result>>

Binary(opcode, name) ==
  /\ Opcode(opcode)
  /\ IF Len(opstack) < 2 THEN Stop("ub")
     ELSE /\ opstack' = Append(SubSeq(opstack, 1, Len(opstack) - 2),
                               [op |-> name, l |-> Last(opstack),
                                r |-> opstack[Len(opstack) - 1]])
          /\ s' = s + 1
          /\ UNCHANGED <<code, phase, result>>

And == Binary(FNR_OP_AND, "and")
Add == Binary(FNR_OP_ADD, "add")

(* FNR_OP_INTRIN: the function name is read first, then the handle and the *)
(* offset are popped and an InvokeInstruction of the function is pushed.   *)
Intrin ==
  /\ Opcode(FNR_OP_INTRIN)
  /\ CASE ~HasString(s + 1) -> Stop("assert")
       [] Len(opstack) < 2  -> Stop("ub")
       [] OTHER ->
            LET z == StringEnd(s + 1)
            IN  /\ opstack' = Append(SubSeq(opstack, 1, Len(opstack) - 2),
                                     [op |-> "invoke", fn |-> SubSeq(code, s + 1, z - 1),
                                      args |-> <<Last(opstack), opstack[Len(opstack) - 1]>>])
                /\ s' = z + 1
                /\ UNCHANGED <<code, phase, result>>

(* Any other byte in opcode position: "Unexpected fafnir opcode".         *)
Unexpected ==
  /\ phase = "loop" /\ s <= Len(code)
  /\ code[s] \notin {FNR_OP_CONST, FNR_OP_BINDING, FNR_OP_AND, FNR_OP_ADD, FNR_OP_INTRIN}
  /\ Stop("assert")

(* The loop ends: the top of the stack becomes the return value, and the   *)
(* stack must then be empty.                                               *)
Finish ==
  /\ phase = "loop" /\ s > Len(code)
  /\ IF opstack = <<>> THEN Stop("ub")
     ELSE /\ result' = Last(opstack)
          /\ opstack' = Front(opstack)
          /\ phase' = IF Len(opstack) = 1 THEN "done" ELSE "assert"
          /\ UNCHANGED <<code, s>>

Next == Const \/ Binding \/ And \/ Add \/ Intrin \/ Unexpected \/ Finish

Spec == Init /\ [][Next]_vars

TypeOK ==
  /\ code \in Inputs
  /\ s \in 1..Len(code) + 1
  /\ phase \in {"loop", "done", "assert", "ub"}

(***************************************************************************)
(* compileFafnir returns, for any bytecode, exactly the expression the     *)
(* bytecode encodes in postfix, and fails (an assertion or undefined       *)
(* behaviour) only on bytecode that encodes no expression: operand order,  *)
(* binding displacement and type, the string of an intrinsic and the final *)
(* emptiness check all agree with the reference.                           *)
(***************************************************************************)
CompilesEncoding ==
  /\ phase = "done" => <<code, result>> \in Reference
  /\ phase \in {"assert", "ub"} => code \notin Accepted
====
