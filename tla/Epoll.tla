------------------------------- MODULE Epoll --------------------------------
(***************************************************************************)
(* One epoll file of the POSIX subsystem and the files it watches          *)
(* (src/posix/subsystem/src/epoll.cpp).                                    *)
(*                                                                         *)
(* addItem creates an Item per watched file and polls the file.  The poll  *)
(* completion (_awaitPoll) either makes the item pending, appending it to  *)
(* _pendingQueue, or polls again.  A caller of waitForEvent sleeps until   *)
(* the queue is non-empty, steals the whole queue, and checks the stolen   *)
(* items one by one with poll(0): an item whose masked events are active   *)
(* is put back into the queue and reported, one that is quiet is no longer *)
(* pending and is watched again.  The POSIX server runs everything on one  *)
(* thread as coroutines, so each step between two awaits is atomic; the    *)
(* interleaving is between the waiters, the poll completions and the       *)
(* watched files changing their events.                                    *)
(*                                                                         *)
(* A watched file is modelled by the File::poll contract (file.cpp is not  *)
(* in this repository): it has a sequence number that grows with every     *)
(* change of its events, poll(s) completes once the sequence exceeds s and *)
(* returns the sequence, the events that rose after s (edges) and the      *)
(* events active now.                                                      *)
(***************************************************************************)
EXTENDS Integers, Sequences, SequencesExt, FiniteSets

CONSTANTS
  Files,    \* the files that may be added to the epoll set (model values)
  Waiters,  \* the coroutines that call waitForEvent (model values)
  Events,   \* the event bits (EPOLLIN, EPOLLOUT, ...)
  MaxSeq,   \* bound on the sequence number of a watched file
  NoFile    \* a model value: no file was just reported

ASSUME MaxSeq \in Nat \ {0} /\ NoFile \notin Files

NoWatch == -1   \* no poll of the item is outstanding

VARIABLES
  fseq,      \* per file: its poll sequence number
  active,    \* per file: the events active now
  rose,      \* per file and event: the sequence at which it last rose
  added,     \* the domain of _fileMap
  mask,      \* per item: eventMask
  isPending, \* per item: Item::isPending
  watch,     \* per item: the sequence of its outstanding poll, or NoWatch
  queue,     \* _pendingQueue
  waiter,    \* per waiter: idle, or inside waitForEvent with its stolen list
  returned,  \* the file the step just reported, or NoFile
  panic      \* the assertion that failed, or "none"

vars == <<fseq, active, rose, added, mask, isPending, watch, queue, waiter,
          returned, panic>>

(***************************************************************************)
(* The File::poll contract: what poll(s) returns, and whether it has       *)
(* completed.                                                              *)
(***************************************************************************)
Edges(f, s) == {e \in Events : rose[f][e] > s}
PollReady(f, s) == fseq[f] > s

(***************************************************************************)
(* A watched file changes its events.  An event that becomes active is an  *)
(* edge; an event that goes away is not.                                   *)
(***************************************************************************)
FileRaise(f, e) ==
  /\ e \notin active[f] /\ fseq[f] < MaxSeq
  /\ fseq' = [fseq EXCEPT ![f] = @ + 1]
  /\ active' = [active EXCEPT ![f] = @ \cup {e}]
  /\ rose' = [rose EXCEPT ![f][e] = fseq[f] + 1]
  /\ returned' = NoFile
  /\ UNCHANGED <<added, mask, isPending, watch, queue, waiter, panic>>

FileClear(f, e) ==
  /\ e \in active[f] /\ fseq[f] < MaxSeq
  /\ fseq' = [fseq EXCEPT ![f] = @ + 1]
  /\ active' = [active EXCEPT ![f] = @ \ {e}]
  /\ returned' = NoFile
  /\ UNCHANGED <<rose, added, mask, isPending, watch, queue, waiter, panic>>

Init ==
  /\ fseq = [f \in Files |-> 1]
  /\ active \in [Files -> SUBSET Events]
  /\ rose = [f \in Files |-> [e \in Events |-> IF e \in active[f] THEN 1 ELSE 0]]
  /\ added = {}
  /\ mask = [f \in Files |-> {}]
  /\ isPending = [f \in Files |-> FALSE]
  /\ watch = [f \in Files |-> NoWatch]
  /\ queue = <<>>
  /\ waiter = [w \in Waiters |-> [st |-> "idle", stolen |-> <<>>]]
  /\ returned = NoFile
  /\ panic = "none"

(* addItem: a new Item with the given mask, polled from sequence 0.        *)
AddItem(f, m) ==
  /\ f \notin added /\ panic = "none"
  /\ added' = added \cup {f}
  /\ mask' = [mask EXCEPT ![f] = m]
  /\ watch' = [watch EXCEPT ![f] = 0]
  /\ returned' = NoFile
  /\ UNCHANGED <<fseq, active, rose, isPending, queue, waiter, panic>>

(***************************************************************************)
(* _awaitPoll: the completion of the item's outstanding poll.  An item     *)
(* that is not pending and has a masked edge and a masked active event     *)
(* becomes pending and stops being watched; otherwise it is polled again   *)
(* from the sequence the poll returned.                                    *)
(***************************************************************************)
AwaitPollNoMark(f) ==
  /\ watch[f] # NoWatch /\ PollReady(f, watch[f]) /\ panic = "none"
  /\ IF /\ ~isPending[f]
        /\ Edges(f, watch[f]) \cap mask[f] # {}
        /\ active[f] \cap mask[f] # {}
     THEN /\ queue' = Append(queue, f)
          /\ watch' = [watch EXCEPT ![f] = NoWatch]
          /\ UNCHANGED isPending
     ELSE /\ watch' = [watch EXCEPT ![f] = fseq[f]]
          /\ UNCHANGED <<isPending, queue>>
  /\ returned' = NoFile
  /\ UNCHANGED <<fseq, active, rose, added, mask, waiter, panic>>

AwaitPoll(f) ==
  /\ watch[f] # NoWatch /\ PollReady(f, watch[f]) /\ panic = "none"
  /\ IF /\ ~isPending[f]
        /\ Edges(f, watch[f]) \cap mask[f] # {}
        /\ active[f] \cap mask[f] # {}
     THEN /\ isPending' = [isPending EXCEPT ![f] = TRUE]
          /\ queue' = Append(queue, f)
          /\ watch' = [watch EXCEPT ![f] = NoWatch]
     ELSE /\ watch' = [watch EXCEPT ![f] = fseq[f]]
          /\ UNCHANGED <<isPending, queue>>
  /\ returned' = NoFile
  /\ UNCHANGED <<fseq, active, rose, added, mask, waiter, panic>>

(* waitForEvent is called.                                                 *)
Enter(w) ==
  /\ waiter[w].st = "idle" /\ panic = "none"
  /\ waiter' = [waiter EXCEPT ![w].st = "wait"]
  /\ returned' = NoFile
  /\ UNCHANGED <<fseq, active, rose, added, mask, isPending, watch, queue, panic>>

(* The pending bell has rung and the queue is not empty: steal all of it.  *)
Steal(w) ==
  /\ waiter[w].st = "wait" /\ waiter[w].stolen = <<>> /\ queue # <<>>
  /\ panic = "none"
  /\ waiter' = [waiter EXCEPT ![w].stolen = queue]
  /\ queue' = <<>>
  /\ returned' = NoFile
  /\ UNCHANGED <<fseq, active, rose, added, mask, isPending, watch, panic>>

(***************************************************************************)
(* One iteration of the loop over the stolen items: poll(0) the first one. *)
(* With a masked active event it goes back into the pending queue and is   *)
(* returned, which ends the coroutine together with its stolen list.       *)
(* Without one it is no longer pending and is polled from the sequence     *)
(* poll(0) returned.                                                       *)
(***************************************************************************)
CheckRepollAhead(w) ==
  LET f == Head(waiter[w].stolen)
      status == active[f] \cap mask[f]
  IN /\ waiter[w].stolen # <<>> /\ panic = "none"
     /\ IF ~isPending[f]
        THEN /\ panic' = "notPending"
             /\ UNCHANGED <<isPending, watch, queue, waiter, returned>>
        ELSE /\ UNCHANGED panic
             /\ IF status # {}
                THEN /\ queue' = Append(queue, f)
                     /\ waiter' = [waiter EXCEPT ![w] = [st |-> "idle", stolen |-> <<>>]]
                     /\ returned' = f
                     /\ UNCHANGED <<isPending, watch>>
                ELSE /\ isPending' = [isPending EXCEPT ![f] = FALSE]
                     /\ watch' = [watch EXCEPT ![f] = fseq[f] + 1]
                     /\ waiter' = [waiter EXCEPT ![w].stolen = Tail(@)]
                     /\ returned' = NoFile
                     /\ UNCHANGED queue
     /\ UNCHANGED <<fseq, active, rose, added, mask>>

CheckNoRequeue(w) ==
  LET f == Head(waiter[w].stolen)
      status == active[f] \cap mask[f]
  IN /\ waiter[w].stolen # <<>> /\ panic = "none"
     /\ IF ~isPending[f]
        THEN /\ panic' = "notPending"
             /\ UNCHANGED <<isPending, watch, queue, waiter, returned>>
        ELSE /\ UNCHANGED panic
             /\ IF status # {}
                THEN /\ waiter' = [waiter EXCEPT ![w] = [st |-> "idle", stolen |-> <<>>]]
                     /\ returned' = f
                     /\ UNCHANGED <<isPending, watch, queue>>
                ELSE /\ isPending' = [isPending EXCEPT ![f] = FALSE]
                     /\ watch' = [watch EXCEPT ![f] = fseq[f]]
                     /\ waiter' = [waiter EXCEPT ![w].stolen = Tail(@)]
                     /\ returned' = NoFile
                     /\ UNCHANGED queue
     /\ UNCHANGED <<fseq, active, rose, added, mask>>

Check(w) ==
  LET f == Head(waiter[w].stolen)
      status == active[f] \cap mask[f]
  IN /\ waiter[w].stolen # <<>> /\ panic = "none"
     /\ IF ~isPending[f]
        THEN /\ panic' = "notPending"
             /\ UNCHANGED <<isPending, watch, queue, waiter, returned>>
        ELSE /\ UNCHANGED panic
             /\ IF status # {}
                THEN /\ queue' = Append(queue, f)
                     /\ waiter' = [waiter EXCEPT ![w] = [st |-> "idle", stolen |-> <<>>]]
                     /\ returned' = f
                     /\ UNCHANGED <<isPending, watch>>
                ELSE /\ isPending' = [isPending EXCEPT ![f] = FALSE]
                     /\ watch' = [watch EXCEPT ![f] = fseq[f]]
                     /\ waiter' = [waiter EXCEPT ![w].stolen = Tail(@)]
                     /\ returned' = NoFile
                     /\ UNCHANGED queue
     /\ UNCHANGED <<fseq, active, rose, added, mask>>

Next ==
  \/ \E f \in Files, e \in Events : FileRaise(f, e) \/ FileClear(f, e)
  \/ \E f \in Files, m \in (SUBSET Events) \ {{}} : AddItem(f, m)
  \/ \E f \in Files : AwaitPoll(f)
  \/ \E w \in Waiters : Enter(w) \/ Steal(w) \/ Check(w)

(***************************************************************************)
(* The file server answers every outstanding poll, and each waiter's       *)
(* coroutine, once resumable, runs: the POSIX server's event loop drains   *)
(* its queue.  Waiters call waitForEvent again after each event, as an     *)
(* epoll_wait loop does.  Watched files get no fairness.                   *)
(***************************************************************************)
Fairness ==
  /\ \A f \in Files : WF_vars(AwaitPoll(f))
  /\ \A w \in Waiters : WF_vars(Enter(w)) /\ WF_vars(Steal(w)) /\ WF_vars(Check(w))

Spec == Init /\ [][Next]_vars /\ Fairness

-----------------------------------------------------------------------------
TypeOK ==
  /\ fseq \in [Files -> 1..MaxSeq]
  /\ active \in [Files -> SUBSET Events]
  /\ rose \in [Files -> [Events -> 0..MaxSeq]]
  /\ added \subseteq Files
  /\ mask \in [Files -> SUBSET Events]
  /\ isPending \in [Files -> BOOLEAN]
  /\ watch \in [Files -> {NoWatch} \cup 0..MaxSeq]
  /\ queue \in Seq(Files)
  /\ waiter \in [Waiters -> [st : {"idle", "wait"}, stolen : Seq(Files)]]
  /\ returned \in Files \cup {NoFile}
  /\ panic \in {"none", "notPending"}

(* How many of the places an item can be tracked in hold it: the pending    *)
(* queue, the stolen lists of the waiters, and an outstanding poll.        *)
Occurrences(s, f) == {i \in DOMAIN s : s[i] = f}

Places(f) ==
  Cardinality(Occurrences(queue, f))
  + Cardinality(UNION {{w} \X Occurrences(waiter[w].stolen, f) : w \in Waiters})
  + (IF watch[f] # NoWatch THEN 1 ELSE 0)

(* The isPending assertion of waitForEvent (epoll.cpp:109) never fails.    *)
NoPanic == panic = "none"

(***************************************************************************)
(* Every added item is tracked in exactly one place: pending and in the    *)
(* pending queue or a waiter's stolen list, or not pending and watched by  *)
(* one outstanding poll.  An item in no place is never reported again; an  *)
(* item in two is linked twice into an intrusive list or polled twice.     *)
(***************************************************************************)
Tracked ==
  \A f \in added :
     /\ Places(f) = 1
     /\ isPending[f] <=> watch[f] = NoWatch

(***************************************************************************)
(* An added item whose masked events stay active is reported: some         *)
(* waitForEvent returns it, unless its events go away first.               *)
(***************************************************************************)
Reported ==
  \A f \in Files :
     (f \in added /\ active[f] \cap mask[f] # {})
       ~> (returned = f \/ active[f] \cap mask[f] = {})
=============================================================================
