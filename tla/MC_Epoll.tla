------------------------------ MODULE MC_Epoll ------------------------------
(***************************************************************************)
(* Model-checking instances of Epoll: files f1, f2, waiter coroutines w1,  *)
(* w2, w3 and two event bits.                                              *)
(***************************************************************************)
EXTENDS Epoll

CONSTANTS f1, f2, w1, w2, w3

OneFile == {f1}
TwoFiles == {f1, f2}
OneWaiter == {w1}
TwoWaiters == {w1, w2}
ThreeWaiters == {w1, w2, w3}
MCEvents == {"in", "out"}
====
