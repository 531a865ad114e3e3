------------------------------- MODULE MC_Irq --------------------------------
(***************************************************************************)
(* Model-checking instances of Irq: two sinks on one pin.                  *)
(***************************************************************************)
EXTENDS Irq

CONSTANTS s1, s2

MCSinks == {s1, s2}

====
