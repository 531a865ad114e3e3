-------------------------------- MODULE Irq ---------------------------------
(***************************************************************************)
(* One interrupt pin of the thor kernel and the sinks attached to it       *)
(* (src/kernel/thor/generic/irq.cpp).                                      *)
(*                                                                         *)
(* The interrupt controller calls IrqPin::raise while the pin is unmasked. *)
(* raise numbers the interrupt (_raiseSequence) and, unless the pin is     *)
(* already in service, hands it to every sink (_callSinks).  A sink is an  *)
(* IrqObject: it wakes the driver threads waiting on it and may answer     *)
(* at once through an automation kernlet.  A driver thread answers later  *)
(* with ackSink or nackSink for a sequence number it was given, or kicks   *)
(* the pin.  Every pin operation runs under the pin's mutex and every sink *)
(* update also under the sink's mutex, so each operation is one atomic     *)
(* step; the interleaving is between the controller and the drivers.       *)
(***************************************************************************)
EXTENDS Integers, Sequences, SequencesExt, FiniteSets

CONSTANTS
  Sinks,       \* the IrqObjects that may be attached (model values)
  MaxRaise,    \* bound on the number of raises of the pin
  Kernlets,    \* whether IrqObject::automate may install a kernlet
  DriverNacks, \* whether drivers may answer with nackSink
  EarlyRaise   \* whether the controller may raise the pin before configure

ASSUME MaxRaise \in Nat /\ Kernlets \in BOOLEAN /\ DriverNacks \in BOOLEAN
       /\ EarlyRaise \in BOOLEAN

Strategies == {"justEoi", "maskThenEoi"}   \* what program() returns
Statuses == {"null", "acked", "nacked"}     \* IrqStatus

VARIABLES
  pin,      \* the IrqPin fields, masked being the controller's mask bit
  sinkList, \* IrqPin::_sinkList
  sink,     \* per sink: _pin set, _currentSequence, _responseSequence,
            \* _status, and whether an automation kernlet is installed
  drv,      \* per sink, its driver thread: idle with the last sequence it
            \* saw, queued in _waitQueue with the sequence it awaits, or
            \* ready with the sequence its await completed with
  panic     \* the kernel assertion that failed, or "none"

vars == <<pin, sinkList, sink, drv, panic>>

Listed == ToSet(sinkList)

(* The sinks' answers to raise(): only a kernlet can ack or nack at once. *)
Outcomes(sk) == {f \in [Sinks -> Statuses] : \A s \in Sinks :
                   f[s] # "null" => sk[s].kernlet}

Panic(why) == /\ panic' = why
              /\ UNCHANGED <<pin, sinkList, sink, drv>>

(* _updateMask: the controller mask follows _maskState.                   *)
UpdateMask(p) == [p EXCEPT !.masked = p.maskState # {}]

-----------------------------------------------------------------------------
(* Fault variants: each replaces the definition that follows it by a      *)
(* plausible slip in the code it models, and must break one property.      *)

(* _sinkSequence is set one past _raiseSequence.                           *)
CallSinksSeqOff(p, sk, dv, res) ==
  LET q == p.raiseSeq
  IN  [pin  |-> [p EXCEPT !.sinkSeq = q + 1,
                          !.dueSinks = Cardinality({s \in Listed : res[s] = "null"}),
                          !.inService = @ /\ ~\E s \in Listed : res[s] = "acked"],
       sink |-> [s \in Sinks |->
                   IF s \in Listed
                   THEN [sk[s] EXCEPT !.cur = q, !.status = res[s],
                                      !.resp = IF res[s] # "null" THEN q ELSE @]
                   ELSE sk[s]],
       drv  |-> [s \in Sinks |->
                   IF s \in Listed /\ dv[s].st = "queued"
                   THEN [st |-> "ready", seq |-> q] ELSE dv[s]]]

(* IrqObject::raise does not complete the wait queue.                      *)
CallSinksNoWake(p, sk, dv, res) ==
  LET q == p.raiseSeq
  IN  [pin  |-> [p EXCEPT !.sinkSeq = q,
                          !.dueSinks = Cardinality({s \in Listed : res[s] = "null"}),
                          !.inService = @ /\ ~\E s \in Listed : res[s] = "acked"],
       sink |-> [s \in Sinks |->
                   IF s \in Listed
                   THEN [sk[s] EXCEPT !.cur = q, !.status = res[s],
                                      !.resp = IF res[s] # "null" THEN q ELSE @]
                   ELSE sk[s]],
       drv  |-> dv]

(* IrqPin::_callSinks with the answers res: every listed sink gets the    *)
(* current raise number, IrqObject::raise completes its waiting drivers    *)
(* with it, and a synchronous ack takes the pin out of service.           *)
CallSinks(p, sk, dv, res) ==
  LET q == p.raiseSeq
  IN  [pin  |-> [p EXCEPT !.sinkSeq = q,
                          !.dueSinks = Cardinality({s \in Listed : res[s] = "null"}),
                          !.inService = @ /\ ~\E s \in Listed : res[s] = "acked"],
       sink |-> [s \in Sinks |->
                   IF s \in Listed
                   THEN [sk[s] EXCEPT !.cur = q, !.status = res[s],
                                      !.resp = IF res[s] # "null" THEN q ELSE @]
                   ELSE sk[s]],
       drv  |-> [s \in Sinks |->
                   IF s \in Listed /\ dv[s].st = "queued"
                   THEN [st |-> "ready", seq |-> q] ELSE dv[s]]]

Keep(p, sk, dv) == [pin |-> p, sink |-> sk, drv |-> dv]

(* A raise ignored while in service is handed to the sinks now.           *)
CatchUp(p, sk, dv, res) ==
  IF p.sinkSeq < p.raiseSeq THEN CallSinks(p, sk, dv, res) ELSE Keep(p, sk, dv)

(* _acknowledge without the catch-up call for raises ignored in service.  *)
AcknowledgeNoCatchUp(p, sk, dv, res) ==
  IF ~p.inService THEN Keep(p, sk, dv)
  ELSE Keep(UpdateMask([p EXCEPT !.inService = FALSE,
                                 !.maskState = @ \ {"service"}]), sk, dv)

(* _acknowledge unmasks directly instead of clearing maskedForService.     *)
AcknowledgeUnmaskOnly(p, sk, dv, res) ==
  IF ~p.inService THEN Keep(p, sk, dv)
  ELSE LET c == CatchUp([p EXCEPT !.inService = FALSE], sk, dv, res)
       IN  [c EXCEPT !.pin = [c.pin EXCEPT !.masked = FALSE]]

(* _acknowledge keeps the pin in service when it catches up.              *)
AcknowledgeReenter(p, sk, dv, res) ==
  IF ~p.inService THEN Keep(p, sk, dv)
  ELSE LET c == CatchUp([p EXCEPT !.inService = p.sinkSeq < p.raiseSeq], sk, dv, res)
       IN  [c EXCEPT !.pin = UpdateMask([c.pin EXCEPT !.maskState = @ \ {"service"}])]

(* IrqPin::_acknowledge.                                                   *)
Acknowledge(p, sk, dv, res) ==
  IF ~p.inService THEN Keep(p, sk, dv)
  ELSE LET c == CatchUp([p EXCEPT !.inService = FALSE], sk, dv, res)
       IN  [c EXCEPT !.pin = UpdateMask([c.pin EXCEPT !.maskState = @ \ {"service"}])]

(* _kick clears only maskedForService before unmasking.                   *)
KickServiceOnly(p, sk, dv, res) ==
  IF ~p.inService THEN Keep(p, sk, dv)
  ELSE LET c == CatchUp([p EXCEPT !.inService = FALSE], sk, dv, res)
       IN  [c EXCEPT !.pin = [c.pin EXCEPT !.maskState = @ \ {"service"},
                                           !.masked = FALSE]]

(* IrqPin::_kick: like _acknowledge, but also drops the nack mask and      *)
(* unmasks directly.                                                       *)
Kick(p, sk, dv, res) ==
  IF ~p.inService THEN Keep(p, sk, dv)
  ELSE LET c == CatchUp([p EXCEPT !.inService = FALSE], sk, dv, res)
       IN  [c EXCEPT !.pin = [c.pin EXCEPT !.maskState = {}, !.masked = FALSE]]

(* IrqPin::_nack after its assert(_dueSinks).                              *)
Nack(p) ==
  LET p1 == [p EXCEPT !.dueSinks = @ - 1]
  IN  IF ~p1.inService \/ p1.dueSinks > 0 THEN p1
      ELSE UpdateMask([p1 EXCEPT !.maskState = @ \cup {"nack"}])

Apply(c) == /\ pin' = c.pin /\ sink' = c.sink /\ drv' = c.drv
            /\ UNCHANGED <<sinkList, panic>>

-----------------------------------------------------------------------------
Init ==
  /\ pin = [strategy |-> "null", raiseSeq |-> 0, sinkSeq |-> 0,
            inService |-> FALSE, dueSinks |-> 0, maskState |-> {},
            masked |-> ~EarlyRaise]
  /\ sinkList = <<>>
  /\ sink = [s \in Sinks |-> [attached |-> FALSE, cur |-> 0, resp |-> 0,
                              status |-> "null", kernlet |-> FALSE]]
  /\ drv = [s \in Sinks |-> [st |-> "idle", seq |-> 0]]
  /\ panic = "none"

(* IrqPin::attachSink.                                                     *)
AttachSink(s) ==
  /\ panic = "none" /\ ~sink[s].attached
  /\ sinkList' = Append(sinkList, s)
  /\ sink' = [sink EXCEPT ![s].attached = TRUE]
  /\ UNCHANGED <<pin, drv, panic>>

(* IrqPin::configure, the first time: program() the controller (which     *)
(* leaves the line unmasked) and reset the pin's counters and mask state.  *)
Configure(t) ==
  /\ panic = "none" /\ pin.strategy = "null"
  /\ pin' = [strategy |-> t, raiseSeq |-> 0, sinkSeq |-> 0, inService |-> FALSE,
             dueSinks |-> 0, maskState |-> {}, masked |-> FALSE]
  /\ UNCHANGED <<sinkList, sink, drv, panic>>

(* IrqPin::raise, called by the controller on an unmasked line.            *)
Raise ==
  /\ panic = "none" /\ ~pin.masked /\ pin.raiseSeq < MaxRaise
  /\ EarlyRaise \/ pin.strategy # "null"
  /\ \E res \in Outcomes(sink) :
       LET busy == pin.inService
           p1 == [pin EXCEPT !.raiseSeq = @ + 1, !.inService = TRUE]
           c  == CallSinks(p1, sink, drv, res)
           p2 == IF busy THEN [p1 EXCEPT !.maskState = @ \cup {"service"}]
                 ELSE IF c.pin.inService /\ c.pin.dueSinks = 0
                      THEN [c.pin EXCEPT !.maskState = @ \cup {"nack"}]
                      ELSE c.pin
           p3 == IF pin.strategy = "maskThenEoi" /\ p2.inService
                 THEN [p2 EXCEPT !.maskState = @ \cup {"service"}] ELSE p2
       IN  IF pin.maskState # {} THEN Panic("raiseMasked")
           ELSE IF busy /\ pin.strategy # "justEoi" THEN Panic("raiseInService")
           ELSE Apply(IF busy THEN Keep(UpdateMask(p3), sink, drv)
                      ELSE [c EXCEPT !.pin = UpdateMask(p3)])

(* IrqObject::automate.                                                    *)
Automate(s) ==
  /\ panic = "none" /\ Kernlets /\ ~sink[s].kernlet
  /\ sink' = [sink EXCEPT ![s].kernlet = TRUE]
  /\ UNCHANGED <<pin, sinkList, drv, panic>>

(* submitAwait completes at once only if the sequence is two behind.     *)
SubmitAwaitLate(s) ==
  /\ panic = "none" /\ drv[s].st = "idle"
  /\ LET q == drv[s].seq
     IN  IF q > sink[s].cur THEN Panic("awaitSequence")
         ELSE /\ drv' = [drv EXCEPT ![s] = IF q + 1 < sink[s].cur
                                           THEN [st |-> "ready", seq |-> sink[s].cur]
                                           ELSE [st |-> "queued", seq |-> q]]
              /\ UNCHANGED <<pin, sinkList, sink, panic>>

(* IrqObject::submitAwait by the driver with the last sequence it saw.     *)
SubmitAwait(s) ==
  /\ panic = "none" /\ drv[s].st = "idle"
  /\ LET q == drv[s].seq
     IN  IF q > sink[s].cur THEN Panic("awaitSequence")
         ELSE /\ drv' = [drv EXCEPT ![s] = IF q < sink[s].cur
                                           THEN [st |-> "ready", seq |-> sink[s].cur]
                                           ELSE [st |-> "queued", seq |-> q]]
              /\ UNCHANGED <<pin, sinkList, sink, panic>>

(* The check against _responseSequence is missing.                        *)
SeqCheckNoResp(s, q) ==
  CASE sink[s].cur # pin.sinkSeq                 -> "panic"
    [] q > sink[s].cur                           -> "illegal"
    [] q = sink[s].cur /\ sink[s].status # "null" -> "panic"
    [] OTHER                                     -> "ok"

(* The sequence checks shared by ackSink and nackSink: the assert that the *)
(* sink saw the pin's last call, and the two illegalArgs returns.          *)
SeqCheck(s, q) ==
  CASE sink[s].cur # pin.sinkSeq                 -> "panic"
    [] q <= sink[s].resp \/ q > sink[s].cur      -> "illegal"
    [] q = sink[s].cur /\ sink[s].status # "null" -> "panic"
    [] OTHER                                     -> "ok"

Done(s, q) == [drv EXCEPT ![s] = [st |-> "idle", seq |-> q]]

(* IrqPin::ackSink for the sequence the driver's await completed with.     *)
AckSink(s) ==
  /\ panic = "none" /\ sink[s].attached /\ drv[s].st = "ready"
  /\ LET q == drv[s].seq
     IN  CASE SeqCheck(s, q) = "panic" -> Panic("ackSequence")
           [] SeqCheck(s, q) = "illegal" ->
                /\ drv' = Done(s, q) /\ UNCHANGED <<pin, sinkList, sink, panic>>
           [] OTHER ->
                \E res \in Outcomes(sink) :
                  Apply(Acknowledge(pin,
                          [sink EXCEPT ![s].status = IF q = sink[s].cur THEN "acked" ELSE @,
                                       ![s].resp = q],
                          Done(s, q), res))

(* nackSink records a nack even for an older sequence.                    *)
NackSinkAlways(s) ==
  /\ panic = "none" /\ DriverNacks /\ sink[s].attached /\ drv[s].st = "ready"
  /\ LET q == drv[s].seq
     IN  CASE SeqCheck(s, q) = "panic" -> Panic("nackSequence")
           [] SeqCheck(s, q) = "illegal" ->
                /\ drv' = Done(s, q) /\ UNCHANGED <<pin, sinkList, sink, panic>>
           [] pin.dueSinks = 0 -> Panic("nackDue")
           [] OTHER ->
                /\ pin' = Nack(pin)
                /\ sink' = [sink EXCEPT ![s].status = "nacked", ![s].resp = q]
                /\ drv' = Done(s, q)
                /\ UNCHANGED <<sinkList, panic>>

(* IrqPin::nackSink for the sequence the driver's await completed with.    *)
NackSink(s) ==
  /\ panic = "none" /\ DriverNacks /\ sink[s].attached /\ drv[s].st = "ready"
  /\ LET q == drv[s].seq
     IN  CASE SeqCheck(s, q) = "panic" -> Panic("nackSequence")
           [] SeqCheck(s, q) = "illegal" ->
                /\ drv' = Done(s, q) /\ UNCHANGED <<pin, sinkList, sink, panic>>
           [] q = sink[s].cur /\ pin.dueSinks = 0 -> Panic("nackDue")
           [] OTHER ->
                /\ pin' = IF q = sink[s].cur THEN Nack(pin) ELSE pin
                /\ sink' = [sink EXCEPT ![s].status = IF q = sink[s].cur THEN "nacked" ELSE @,
                                        ![s].resp = q]
                /\ drv' = Done(s, q)
                /\ UNCHANGED <<sinkList, panic>>

(* IrqPin::kickSink by an idle driver.                                     *)
KickSink(s) ==
  /\ panic = "none" /\ sink[s].attached /\ drv[s].st = "idle"
  /\ \E res \in Outcomes(sink) : Apply(Kick(pin, sink, drv, res))

Next ==
  \/ Raise
  \/ \E t \in Strategies : Configure(t)
  \/ \E s \in Sinks : \/ AttachSink(s) \/ Automate(s) \/ SubmitAwait(s)
                      \/ AckSink(s) \/ NackSink(s) \/ KickSink(s)

(* Drivers are threads that keep waiting and answer what they are given;  *)
(* the controller and configuration are not assumed to act.               *)
Fairness == \A s \in Sinks : WF_vars(SubmitAwait(s)) /\ WF_vars(AckSink(s))

Spec == Init /\ [][Next]_vars /\ Fairness

-----------------------------------------------------------------------------
TypeOK ==
  /\ pin.strategy \in Strategies \cup {"null"}
  /\ pin.raiseSeq \in 0..MaxRaise /\ pin.sinkSeq \in 0..MaxRaise
  /\ pin.inService \in BOOLEAN /\ pin.dueSinks \in Nat
  /\ pin.maskState \subseteq {"service", "nack"} /\ pin.masked \in BOOLEAN
  /\ sinkList \in Seq(Sinks)
  /\ sink \in [Sinks -> [attached : BOOLEAN, cur : Nat, resp : Nat,
                         status : Statuses, kernlet : BOOLEAN]]
  /\ drv \in [Sinks -> [st : {"idle", "queued", "ready"}, seq : Nat]]

(* No kernel assertion of raise, ackSink, nackSink, _nack or submitAwait   *)
(* fails, whatever the order of raises, attaches, kernlet answers and      *)
(* driver answers.                                                         *)
NoPanic == panic = "none"

(* No interrupt is lost: whenever the pin is out of service, every raise   *)
(* it counted has been handed to the sinks (the catch-up _callSinks of     *)
(* _acknowledge and _kick for raises ignored as already in service).       *)
NoLostRaise ==
  pin.strategy # "null" /\ ~pin.inService => pin.sinkSeq = pin.raiseSeq

(* The controller's mask bit is exactly "some reason to mask is recorded"  *)
(* after every pin operation; raise relies on it in assert(!_maskState).   *)
MaskAgrees == pin.strategy # "null" => (pin.masked <=> pin.maskState # {})

(* A driver queued in _waitQueue waits for the sink's current sequence:   *)
(* every call of the sinks completes the waiters, none is left behind.     *)
WaitersCurrent == \A s \in Sinks : drv[s].st = "queued" => drv[s].seq = sink[s].cur

(* Per sink, the answered sequence never passes the delivered one, which   *)
(* never passes the pin's; a sink with an answer has answered its current  *)
(* sequence.                                                               *)
SequenceOrder ==
  \A s \in Listed :
    /\ sink[s].resp <= sink[s].cur /\ sink[s].cur <= pin.sinkSeq
    /\ pin.sinkSeq <= pin.raiseSeq
    /\ sink[s].status # "null" => sink[s].resp = sink[s].cur

(* Sequence numbers a driver was given never go backwards.                 *)
SequencesMonotonic ==
  [][\A s \in Sinks : sink'[s].cur >= sink[s].cur /\ sink'[s].resp >= sink[s].resp]_vars

(* A pin in service with a sink still due to answer leaves service once    *)
(* the drivers answer: an ack, current or late, unblocks the pin, whatever *)
(* kernlets answer meanwhile.  A nack instead parks the pin masked until   *)
(* kickSink, which no driver is obliged to call.                           *)
ServiceEnds ==
  pin.inService /\ pin.dueSinks > 0 ~> (~pin.inService \/ "nack" \in pin.maskState)


(***************************************************************************)
(* The pin implements IrqDelivery: with _raiseSequence as the raises,      *)
(* _sinkSequence as the last raise handed over and _inService as busy,     *)
(* every step of raise, attachSink, configure, the sink operations and     *)
(* automate is a raise, the end of service, or leaves the three alone.     *)
(***************************************************************************)
Delivery == INSTANCE IrqDelivery WITH raised <- pin.raiseSeq,
                                      handed <- pin.sinkSeq,
                                      busy <- pin.inService

DeliverySpec == Delivery!Spec

====
