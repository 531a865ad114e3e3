------------------------------- MODULE Loader -------------------------------
(***************************************************************************)
(* The ld-init runtime linker (src/ld-init/linker/src/linker.cpp).         *)
(*                                                                         *)
(* One load session: LinkUniverse injects the executable and discovers its *)
(* DT_NEEDED graph, Scope::buildScope fixes the symbol search order,       *)
(* Loader::linkObject enqueues every object, buildInitialTls lays out      *)
(* static TLS, linkObjects applies relocations and schedules initializers, *)
(* the copy-relocation pass runs, and initObjects runs the initializers.   *)
(*                                                                         *)
(* The loader runs on a single thread.  Its four recursive functions are   *)
(* modelled with an explicit call stack of frames [obj, idx], one step per *)
(* loop iteration, so that the recursion depth is part of the state.       *)
(* Symbols, relocation targets and addresses are abstracted to the object  *)
(* and symbol they name.                                                   *)
(***************************************************************************)
EXTENDS Integers, Sequences, SequencesExt, FiniteSets

CONSTANTS
  Names,        \* module names (model values)
  Main,         \* the executable, injected from its program headers
  Syms,         \* symbol names (model values)
  NoSym,        \* symbol index 0: a relocation that carries no symbol
  NoObj,        \* the empty frigg::Optional<SymbolRef>
  Images,       \* possible file-system contents, functions Names -> image
  EagerBinding, \* the eagerBinding global
  StackLimit    \* call depth at which the loader thread's stack overflows

ASSUME /\ Main \in Names
       /\ EagerBinding \in BOOLEAN
       /\ StackLimit \in Nat /\ StackLimit > Cardinality(Names)

(***************************************************************************)
(* An image is what the loader reads for one name:                         *)
(*   needed     the DT_NEEDED entries in order                             *)
(*   present    posixOpen finds it under /lib/ or /usr/lib/                *)
(*   wellFormed program headers and dynamic tags are all accepted          *)
(*   symtab     per symbol name, its entry: binding and whether defined    *)
(*   rela       the DT_RELA table, entries [type, sym, add]                *)
(*   jmprel     the DT_JMPREL table; hasGot: DT_PLTGOT present;            *)
(*   pltRela    DT_PLTREL is DT_RELA (explicit addends)                    *)
(*   tlsSize, tlsAlign   the PT_TLS p_memsz and p_align                    *)
(***************************************************************************)
Binds == {"local", "global", "weak"}
Entry == [bind : Binds, defined : BOOLEAN]

VARIABLES
  image,       \* the file-system contents, fixed for the session
  phase,       \* which part of the session runs
  fault,       \* why the process died: [why, obj, sym]
  stack,       \* frames [obj, idx] of the running recursive function
  registered,  \* LinkUniverse::_nameMap
  fetches,     \* number of _fetchFromFile calls per name
  deps,        \* SharedObject::dependencies
  scope,       \* Scope::objects of the global scope
  visited,     \* Loader::_linkObjects
  linkQueue,   \* Loader::_linkQueue
  linked,      \* objects with wasLinked, in the order they were linked
  tls,         \* runtimeTlsMap->initialSize, ->initialObjects, tlsOffset
  relaVal,     \* the word written at each DT_RELA target
  pltVal,      \* the word written at each DT_JMPREL target
  gotReserved, \* objects whose GOT[1], GOT[2] were installed
  scheduled,   \* scheduledForInit
  onInitStack, \* onInitStack
  initQueue,   \* Loader::_initQueue
  copyIdx,     \* next position of the copy-relocation pass in linked
  initialized  \* wasInitialized

vars == <<image, phase, fault, stack, registered, fetches, deps, scope,
          visited, linkQueue, linked, tls, relaVal, pltVal, gotReserved,
          scheduled, onInitStack, initQueue, copyIdx, initialized>>

-----------------------------------------------------------------------------
(* Values written by relocations: kind, the object and symbol they refer   *)
(* to and the addend.  kind "sym" with obj NoObj is 0 + addend.            *)
Val(k, p, s, a) == [kind |-> k, obj |-> p, sym |-> s, add |-> a]
Unset == Val("unset", NoObj, NoSym, 0)

Top == stack[Len(stack)]
Call(st, o) == Append(st, [obj |-> o, idx |-> 1])
Advance(st) == [st EXCEPT ![Len(st)].idx = @ + 1]

(* The process dies (panicLogger or a failed assert): nothing else changes. *)
Die(why, o, s) ==
  /\ phase' = "failed"
  /\ fault' = [why |-> why, obj |-> o, sym |-> s]
  /\ UNCHANGED <<image, stack, registered, fetches, deps, scope, visited,
                 linkQueue, linked, tls, relaVal, pltVal, gotReserved,
                 scheduled, onInitStack, initQueue, copyIdx, initialized>>

-----------------------------------------------------------------------------
(* _parseDynamic: every dynamic tag is known and every entry size is the  *)
(* expected one (otherwise panicLogger or an assert ends the process).     *)
parseDynamic(n) == image[n].wellFormed

(* _fetchFromFile then _parseDynamic for a library: posixOpen under /lib/, *)
(* then /usr/lib/, panic if neither exists; the header and program-header  *)
(* asserts are part of being well formed.                                  *)
fetchFromFile(n) ==
  CASE ~image[n].present   -> "notFound"
    [] ~parseDynamic(n)    -> "malformed"
    [] OTHER               -> "ok"

(* Fault variants: each replaces the definition that follows it by a      *)
(* plausible slip in the code it models, and must break one property.      *)

(* Weak definitions are not accepted (bind compared with STB_GLOBAL only). *)
symbolSatisfiesGlobalOnly(p, s) ==
  image[p].symtab[s].defined /\ image[p].symtab[s].bind = "global"

(* symbolSatisfies: a defined GLOBAL or WEAK entry of p named s.           *)
symbolSatisfies(p, s) ==
  /\ image[p].symtab[s].defined
  /\ image[p].symtab[s].bind \in {"global", "weak"}

(* The requester is skipped whatever the flags say.                       *)
resolveSymbolAlwaysSkip(o, s, copy) ==
  LET i == SelectInSeq(scope, LAMBDA p : p # o /\ symbolSatisfies(p, s))
  IN  IF i = 0 THEN NoObj ELSE scope[i]

(* Scope::resolveSymbol: the first object of the scope whose hash table    *)
(* holds a satisfying entry; with kResolveCopy the requester is skipped.   *)
resolveSymbol(o, s, copy) ==
  LET i == SelectInSeq(scope, LAMBDA p : ~(copy /\ p = o) /\ symbolSatisfies(p, s))
  IN  IF i = 0 THEN NoObj ELSE scope[i]

IsWeak(o, s) == s # NoSym /\ image[o].symtab[s].bind = "weak"

Put(s, v) == [ok |-> TRUE, why |-> "none", sym |-> s, val |-> v]
Bad(s, why) == [ok |-> FALSE, why |-> why, sym |-> s, val |-> Unset]

(* Loader::processRela for entry r of object o: the word written, or why   *)
(* the process dies.  COPY entries are left for the copy pass.             *)
processRela(o, r) ==
  LET s == r.sym
      p == IF s = NoSym THEN NoObj ELSE resolveSymbol(o, s, FALSE)
  IN CASE r.type = "COPY" -> Put(s, Unset)
       [] s # NoSym /\ p = NoObj /\ ~IsWeak(o, s) -> Bad(s, "unresolved")
       [] r.type = "64" ->
            IF s = NoSym THEN Bad(s, "badReloc") ELSE Put(s, Val("sym", p, s, r.add))
       [] r.type = "GLOB_DAT" ->
            IF s = NoSym \/ r.add # 0 THEN Bad(s, "badReloc")
            ELSE Put(s, Val("sym", p, s, 0))
       [] r.type = "RELATIVE" ->
            IF s # NoSym THEN Bad(s, "badReloc") ELSE Put(s, Val("base", o, s, r.add))
       [] r.type = "DTPMOD64" ->
            (CASE r.add # 0  -> Bad(s, "badReloc")
               [] s = NoSym  -> Put(s, Val("module", o, s, 0))
               [] p = NoObj  -> Bad(s, "badReloc")
               [] OTHER      -> Put(s, Val("module", p, s, 0)))
       [] r.type = "DTPOFF64" ->
            IF p = NoObj \/ r.add # 0 THEN Bad(s, "badReloc")
            ELSE Put(s, Val("dtpoff", p, s, 0))
       [] r.type = "TPOFF64" ->
            (CASE p = NoObj \/ r.add # 0 -> Bad(s, "badReloc")
               [] p \notin tls.initial   -> Bad(s, "tls")
               [] OTHER -> Put(s, Val("tpoff", p, s, tls.offset[p])))
       [] OTHER -> Bad(s, "unsupported")

(* One DT_JMPREL entry of processLazyRelocations.                          *)
jumpSlot(o, r) ==
  LET p == IF r.sym = NoSym THEN NoObj ELSE resolveSymbol(o, r.sym, FALSE)
  IN CASE r.type # "JUMP_SLOT" -> Bad(r.sym, "badReloc")
       [] ~EagerBinding -> Put(r.sym, Val("base", o, r.sym, r.add))
       [] p = NoObj /\ ~IsWeak(o, r.sym) -> Bad(r.sym, "unresolved")
       [] OTHER -> Put(r.sym, Val("sym", p, r.sym, 0))

(* A whole table processed in order: the values, or the first failure.    *)
Table(outs) ==
  LET bad == SelectInSeq(outs, LAMBDA x : ~x.ok)
  IN  [ok   |-> bad = 0,
       fail |-> IF bad = 0 THEN Bad(NoSym, "none") ELSE outs[bad],
       vals |-> [i \in DOMAIN outs |-> outs[i].val]]

processStaticRelocations(o) ==
  Table([i \in DOMAIN image[o].rela |-> processRela(o, image[o].rela[i])])

(* processLazyRelocations: without DT_PLTGOT the table must be empty;      *)
(* with entries, DT_PLTREL must be DT_RELA.                                *)
processLazyRelocations(o) ==
  LET img == image[o]
  IN  IF ~img.hasGot \/ img.jmprel = <<>>
      THEN [ok |-> img.hasGot \/ img.jmprel = <<>>,
            fail |-> Bad(NoSym, "badReloc"), vals |-> <<>>]
      ELSE IF ~img.pltRela
      THEN [ok |-> FALSE, fail |-> Bad(NoSym, "badReloc"), vals |-> <<>>]
      ELSE Table([i \in DOMAIN img.jmprel |-> jumpSlot(o, img.jmprel[i])])

(* The copy source is resolved without kResolveCopy.                       *)
copyRelaNoSkip(o, r) ==
  LET p == IF r.sym = NoSym THEN NoObj ELSE resolveSymbol(o, r.sym, FALSE)
  IN  CASE r.type # "COPY" -> Put(r.sym, Unset)
        [] p = NoObj       -> Bad(r.sym, "badReloc")
        [] OTHER           -> Put(r.sym, Val("copy", p, r.sym, 0))

(* processCopyRela for every entry of o: resolution skips o itself.        *)
copyRela(o, r) ==
  LET p == IF r.sym = NoSym THEN NoObj ELSE resolveSymbol(o, r.sym, TRUE)
  IN  CASE r.type # "COPY" -> Put(r.sym, Unset)
        [] p = NoObj       -> Bad(r.sym, "badReloc")
        [] OTHER           -> Put(r.sym, Val("copy", p, r.sym, 0))

processCopyRelocations(o) ==
  Table([i \in DOMAIN image[o].rela |-> copyRela(o, image[o].rela[i])])

(* The size is rounded up to the alignment before the segment is added.   *)
TlsPlaceAlignFirst(acc, o) ==
  LET sz == image[o].tlsSize
      al == image[o].tlsAlign
      up == IF al > 0 /\ (acc.size % al) # 0 THEN acc.size + (al - (acc.size % al))
            ELSE acc.size
  IN  CASE sz = 0 \/ acc.why # "none" -> acc
        [] al = 0                      -> [acc EXCEPT !.why = "sigfpe"]
        [] (16 % al) # 0               -> [acc EXCEPT !.why = "tls"]
        [] OTHER -> [acc EXCEPT !.size = up + sz, !.offset[o] = -(up + sz),
                                !.initial = @ \cup {o}]

(* One iteration of buildInitialTls: grow the size by the segment, round   *)
(* it up to the alignment, place the block at minus the new size.  An      *)
(* alignment that does not divide 16 fails the assert; 0 divides by zero.  *)
TlsPlace(acc, o) ==
  LET sz == image[o].tlsSize
      al == image[o].tlsAlign
      grown == acc.size + sz
      size == IF al > 0 /\ (grown % al) # 0 THEN grown + (al - (grown % al)) ELSE grown
  IN  CASE sz = 0 \/ acc.why # "none" -> acc
        [] al = 0                      -> [acc EXCEPT !.why = "sigfpe"]
        [] (16 % al) # 0               -> [acc EXCEPT !.why = "tls"]
        [] OTHER -> [acc EXCEPT !.size = size, !.offset[o] = -size,
                                !.initial = @ \cup {o}]

-----------------------------------------------------------------------------
Init ==
  /\ image \in Images
  /\ phase = "start"
  /\ fault = [why |-> "none", obj |-> NoObj, sym |-> NoSym]
  /\ stack = <<>>
  /\ registered = {}
  /\ fetches = [n \in Names |-> 0]
  /\ deps = [n \in Names |-> <<>>]
  /\ scope = <<>>
  /\ visited = {}
  /\ linkQueue = <<>>
  /\ linked = <<>>
  /\ tls = [size |-> 0, offset |-> [n \in Names |-> 0], initial |-> {}]
  /\ relaVal = [n \in Names |-> <<>>]
  /\ pltVal = [n \in Names |-> <<>>]
  /\ gotReserved = {}
  /\ scheduled = {}
  /\ onInitStack = {}
  /\ initQueue = <<>>
  /\ copyIdx = 1
  /\ initialized = {}

(* injectObjectFromPhdrs: the executable is already mapped; its dynamic    *)
(* section is parsed, it is registered, its dependencies are discovered.  *)
InjectObjectFromPhdrs ==
  /\ phase = "start"
  /\ \/ /\ ~parseDynamic(Main)
        /\ Die("malformed", Main, NoSym)
     \/ /\ parseDynamic(Main)
        /\ phase' = "discover"
        /\ registered' = {Main}
        /\ stack' = Call(<<>>, Main)
        /\ UNCHANGED <<image, fault, fetches, deps, scope, visited, linkQueue,
                       linked, tls, relaVal, pltVal, gotReserved, scheduled,
                       onInitStack, initQueue, copyIdx, initialized>>

(* A memoised library is returned but not pushed to dependencies.          *)
DiscoverKnownNoPush ==
  /\ phase = "discover" /\ stack # <<>>
  /\ Top.idx <= Len(image[Top.obj].needed)
  /\ image[Top.obj].needed[Top.idx] \in registered
  /\ stack' = Advance(stack)
  /\ UNCHANGED <<image, phase, fault, registered, fetches, deps, scope, visited,
                 linkQueue, linked, tls, relaVal, pltVal, gotReserved,
                 scheduled, onInitStack, initQueue, copyIdx, initialized>>

(* A fetched library is never inserted into the name map.                 *)
DiscoverFetchNoInsert ==
  /\ phase = "discover" /\ stack # <<>>
  /\ LET n == image[Top.obj].needed[Top.idx]
     IN  /\ Top.idx <= Len(image[Top.obj].needed)
         /\ n \notin registered
         /\ fetchFromFile(n) = "ok"
         /\ fetches' = [fetches EXCEPT ![n] = @ + 1]
         /\ stack' = Call(stack, n)
  /\ UNCHANGED <<image, phase, fault, registered, deps, scope, visited,
                 linkQueue, linked, tls, relaVal, pltVal, gotReserved,
                 scheduled, onInitStack, initQueue, copyIdx, initialized>>

(* _discoverDependencies: the next DT_NEEDED name is already registered;   *)
(* requestObjectWithName returns it and it is pushed to dependencies.      *)
DiscoverKnown ==
  /\ phase = "discover" /\ stack # <<>>
  /\ LET o == Top.obj
         i == Top.idx
     IN  /\ i <= Len(image[o].needed)
         /\ image[o].needed[i] \in registered
         /\ deps' = [deps EXCEPT ![o] = Append(@, image[o].needed[i])]
         /\ stack' = Advance(stack)
  /\ UNCHANGED <<image, phase, fault, registered, fetches, scope, visited,
                 linkQueue, linked, tls, relaVal, pltVal, gotReserved,
                 scheduled, onInitStack, initQueue, copyIdx, initialized>>

(* requestObjectWithName for a new name: _fetchFromFile (open under /lib/  *)
(* then /usr/lib/, map the segments), _parseDynamic, insert into the name  *)
(* map, then recurse into its own dependencies.                            *)
DiscoverFetch ==
  /\ phase = "discover" /\ stack # <<>>
  /\ LET o == Top.obj
         i == Top.idx
         n == image[o].needed[i]
     IN  /\ i <= Len(image[o].needed)
         /\ n \notin registered
         /\ \/ /\ fetchFromFile(n) # "ok"
               /\ Die(fetchFromFile(n), n, NoSym)
            \/ /\ fetchFromFile(n) = "ok"
               /\ fetches' = [fetches EXCEPT ![n] = @ + 1]
               /\ registered' = registered \cup {n}
               /\ stack' = Call(stack, n)
               /\ UNCHANGED <<image, phase, fault, deps, scope, visited,
                              linkQueue, linked, tls, relaVal, pltVal,
                              gotReserved, scheduled, onInitStack, initQueue,
                              copyIdx, initialized>>

(* The top object has no DT_NEEDED entry left: requestObjectWithName       *)
(* returns it and the caller pushes it to its own dependencies.            *)
DiscoverReturn ==
  /\ phase = "discover" /\ stack # <<>>
  /\ Top.idx > Len(image[Top.obj].needed)
  /\ LET rest == Front(stack)
         caller == rest[Len(rest)].obj
     IN  IF rest = <<>>
         THEN /\ stack' = rest /\ phase' = "scope" /\ UNCHANGED deps
         ELSE /\ deps' = [deps EXCEPT ![caller] = Append(@, Top.obj)]
              /\ stack' = Advance(rest)
              /\ UNCHANGED phase
  /\ UNCHANGED <<image, fault, registered, fetches, scope, visited, linkQueue,
                 linked, tls, relaVal, pltVal, gotReserved, scheduled,
                 onInitStack, initQueue, copyIdx, initialized>>

-----------------------------------------------------------------------------
(* Scope::buildScope(Main): appendObject, then recurse into every          *)
(* dependency.  appendObject skips objects already present, but the        *)
(* recursion itself has no guard.                                          *)
BuildScopeStart ==
  /\ phase = "scope" /\ stack = <<>> /\ scope = <<>>
  /\ scope' = <<Main>>
  /\ stack' = Call(<<>>, Main)
  /\ UNCHANGED <<image, phase, fault, registered, fetches, deps, visited,
                 linkQueue, linked, tls, relaVal, pltVal, gotReserved,
                 scheduled, onInitStack, initQueue, copyIdx, initialized>>

(* appendObject without its duplicate check.                             *)
BuildScopeStepNoDedup ==
  /\ phase = "scope" /\ stack # <<>>
  /\ Top.idx <= Len(deps[Top.obj])
  /\ Len(stack) < StackLimit
  /\ scope' = Append(scope, deps[Top.obj][Top.idx])
  /\ stack' = Call(Advance(stack), deps[Top.obj][Top.idx])
  /\ UNCHANGED <<image, phase, fault, registered, fetches, deps, visited,
                 linkQueue, linked, tls, relaVal, pltVal, gotReserved,
                 scheduled, onInitStack, initQueue, copyIdx, initialized>>

BuildScopeStep ==
  /\ phase = "scope" /\ stack # <<>>
  /\ Top.idx <= Len(deps[Top.obj])
  /\ LET d == deps[Top.obj][Top.idx]
     IN  \/ /\ Len(stack) >= StackLimit
            /\ Die("overflow", d, NoSym)
         \/ /\ Len(stack) < StackLimit
            /\ scope' = IF Contains(scope, d) THEN scope ELSE Append(scope, d)
            /\ stack' = Call(Advance(stack), d)
            /\ UNCHANGED <<image, phase, fault, registered, fetches, deps,
                           visited, linkQueue, linked, tls, relaVal, pltVal,
                           gotReserved, scheduled, onInitStack, initQueue,
                           copyIdx, initialized>>

BuildScopeReturn ==
  /\ phase = "scope" /\ stack # <<>>
  /\ Top.idx > Len(deps[Top.obj])
  /\ stack' = Front(stack)
  /\ phase' = IF Len(stack) = 1 THEN "enqueue" ELSE phase
  /\ UNCHANGED <<image, fault, registered, fetches, deps, scope, visited,
                 linkQueue, linked, tls, relaVal, pltVal, gotReserved,
                 scheduled, onInitStack, initQueue, copyIdx, initialized>>

-----------------------------------------------------------------------------
(* Loader::linkObject(Main): mark visited, append to the link queue,       *)
(* recurse into the dependencies that are not visited yet.                 *)
LinkObjectStart ==
  /\ phase = "enqueue" /\ stack = <<>> /\ visited = {}
  /\ visited' = {Main}
  /\ linkQueue' = <<Main>>
  /\ stack' = Call(<<>>, Main)
  /\ UNCHANGED <<image, phase, fault, registered, fetches, deps, scope,
                 linked, tls, relaVal, pltVal, gotReserved, scheduled,
                 onInitStack, initQueue, copyIdx, initialized>>

LinkObjectStep ==
  /\ phase = "enqueue" /\ stack # <<>>
  /\ Top.idx <= Len(deps[Top.obj])
  /\ LET d == deps[Top.obj][Top.idx]
     IN  \/ /\ d \in visited
            /\ stack' = Advance(stack)
            /\ UNCHANGED <<visited, linkQueue>>
         \/ /\ d \notin visited
            /\ visited' = visited \cup {d}
            /\ linkQueue' = Append(linkQueue, d)
            /\ stack' = Call(Advance(stack), d)
  /\ UNCHANGED <<image, phase, fault, registered, fetches, deps, scope,
                 linked, tls, relaVal, pltVal, gotReserved, scheduled,
                 onInitStack, initQueue, copyIdx, initialized>>

LinkObjectReturn ==
  /\ phase = "enqueue" /\ stack # <<>>
  /\ Top.idx > Len(deps[Top.obj])
  /\ stack' = Front(stack)
  /\ phase' = IF Len(stack) = 1 THEN "tls" ELSE phase
  /\ UNCHANGED <<image, fault, registered, fetches, deps, scope, visited,
                 linkQueue, linked, tls, relaVal, pltVal, gotReserved,
                 scheduled, onInitStack, initQueue, copyIdx, initialized>>

-----------------------------------------------------------------------------
(* Loader::buildInitialTls over the whole link queue, Main first.          *)
buildInitialTls ==
  FoldLeft(TlsPlace, [size |-> 0, offset |-> tls.offset, initial |-> {}, why |-> "none"],
           linkQueue)

BuildInitialTls ==
  /\ phase = "tls"
  /\ LET r == buildInitialTls
     IN  \/ /\ r.why # "none"
            /\ Die(r.why, NoObj, NoSym)
         \/ /\ r.why = "none"
            /\ tls' = [size |-> r.size, offset |-> r.offset, initial |-> r.initial]
            /\ phase' = "link"
            /\ UNCHANGED <<image, fault, stack, registered, fetches, deps,
                           scope, visited, linkQueue, linked, relaVal, pltVal,
                           gotReserved, scheduled, onInitStack, initQueue,
                           copyIdx, initialized>>

-----------------------------------------------------------------------------
(* One iteration of Loader::linkObjects up to _scheduleInit: static and    *)
(* lazy relocations of the front object; the first failing entry panics   *)
(* or asserts.  If the object is not yet scheduled, _scheduleInit(o) is    *)
(* entered: onInitStack and scheduledForInit are set.                      *)
LinkObjectsStep ==
  /\ phase = "link" /\ linkQueue # <<>>
  /\ LET o  == Head(linkQueue)
         st == processStaticRelocations(o)
         lz == processLazyRelocations(o)
         f  == IF ~st.ok THEN st.fail ELSE lz.fail
     IN  \/ /\ ~st.ok \/ ~lz.ok
            /\ Die(f.why, o, f.sym)
         \/ /\ st.ok /\ lz.ok
            /\ relaVal' = [relaVal EXCEPT ![o] = st.vals]
            /\ pltVal' = [pltVal EXCEPT ![o] = lz.vals]
            /\ gotReserved' = IF image[o].hasGot THEN gotReserved \cup {o}
                                                 ELSE gotReserved
            /\ phase' = "schedule"
            /\ IF o \in scheduled
               THEN UNCHANGED <<stack, scheduled, onInitStack>>
               ELSE /\ stack' = Call(<<>>, o)
                    /\ scheduled' = scheduled \cup {o}
                    /\ onInitStack' = onInitStack \cup {o}
            /\ UNCHANGED <<image, fault, registered, fetches, deps, scope,
                           visited, linkQueue, linked, tls, initQueue,
                           copyIdx, initialized>>

(* _scheduleInit: a dependency not yet scheduled is scheduled first.       *)
ScheduleInitStep ==
  /\ phase = "schedule" /\ stack # <<>>
  /\ Top.idx <= Len(deps[Top.obj])
  /\ LET d == deps[Top.obj][Top.idx]
     IN  \/ /\ d \in scheduled
            /\ stack' = Advance(stack)
            /\ UNCHANGED <<scheduled, onInitStack>>
         \/ /\ d \notin scheduled
            /\ stack' = Call(Advance(stack), d)
            /\ scheduled' = scheduled \cup {d}
            /\ onInitStack' = onInitStack \cup {d}
  /\ UNCHANGED <<image, phase, fault, registered, fetches, deps, scope,
                 visited, linkQueue, linked, tls, relaVal, pltVal,
                 gotReserved, initQueue, copyIdx, initialized>>

(* The object is put at the front of the init queue (addFront).          *)
ScheduleInitReturnAddFront ==
  /\ phase = "schedule" /\ stack # <<>>
  /\ Top.idx > Len(deps[Top.obj])
  /\ initQueue' = <<Top.obj>> \o initQueue
  /\ onInitStack' = onInitStack \ {Top.obj}
  /\ stack' = Front(stack)
  /\ UNCHANGED <<image, phase, fault, registered, fetches, deps, scope,
                 visited, linkQueue, linked, tls, relaVal, pltVal,
                 gotReserved, scheduled, copyIdx, initialized>>

(* _scheduleInit after its dependencies: append to the init queue.        *)
ScheduleInitReturn ==
  /\ phase = "schedule" /\ stack # <<>>
  /\ Top.idx > Len(deps[Top.obj])
  /\ initQueue' = Append(initQueue, Top.obj)
  /\ onInitStack' = onInitStack \ {Top.obj}
  /\ stack' = Front(stack)
  /\ UNCHANGED <<image, phase, fault, registered, fetches, deps, scope,
                 visited, linkQueue, linked, tls, relaVal, pltVal,
                 gotReserved, scheduled, copyIdx, initialized>>

(* removeFront is missing: the front object stays in the link queue.       *)
LinkObjectsFinishNoRemove ==
  /\ phase = "schedule" /\ stack = <<>>
  /\ linked' = Append(linked, Head(linkQueue))
  /\ phase' = "link"
  /\ UNCHANGED <<image, fault, stack, registered, fetches, deps, scope,
                 visited, linkQueue, tls, relaVal, pltVal, gotReserved,
                 scheduled, onInitStack, initQueue, copyIdx, initialized>>

(* The rest of the linkObjects iteration: wasLinked, removeFront.          *)
LinkObjectsFinish ==
  /\ phase = "schedule" /\ stack = <<>>
  /\ linked' = Append(linked, Head(linkQueue))
  /\ linkQueue' = Tail(linkQueue)
  /\ phase' = "link"
  /\ UNCHANGED <<image, fault, stack, registered, fetches, deps, scope,
                 visited, tls, relaVal, pltVal, gotReserved, scheduled,
                 onInitStack, initQueue, copyIdx, initialized>>

LinkObjectsDone ==
  /\ phase = "link" /\ linkQueue = <<>>
  /\ phase' = "copy"
  /\ UNCHANGED <<image, fault, stack, registered, fetches, deps, scope,
                 visited, linkQueue, linked, tls, relaVal, pltVal,
                 gotReserved, scheduled, onInitStack, initQueue, copyIdx,
                 initialized>>

-----------------------------------------------------------------------------
(* processCopyRelocations for each linked object in link order.            *)
ProcessCopyRelocations ==
  /\ phase = "copy" /\ copyIdx <= Len(linked)
  /\ LET o  == linked[copyIdx]
         cp == processCopyRelocations(o)
     IN  \/ /\ ~cp.ok
            /\ Die(cp.fail.why, o, cp.fail.sym)
         \/ /\ cp.ok
            /\ relaVal' = [relaVal EXCEPT ![o] =
                             [i \in DOMAIN @ |-> IF cp.vals[i] = Unset THEN @[i]
                                                 ELSE cp.vals[i]]]
            /\ copyIdx' = copyIdx + 1
            /\ UNCHANGED <<image, phase, fault, stack, registered, fetches,
                           deps, scope, visited, linkQueue, linked, tls,
                           pltVal, gotReserved, scheduled, onInitStack,
                           initQueue, initialized>>

CopyPassDone ==
  /\ phase = "copy" /\ copyIdx > Len(linked)
  /\ phase' = "init"
  /\ UNCHANGED <<image, fault, stack, registered, fetches, deps, scope,
                 visited, linkQueue, linked, tls, relaVal, pltVal,
                 gotReserved, scheduled, onInitStack, initQueue, copyIdx,
                 initialized>>

(* The front of the init queue is never removed.                          *)
InitObjectsStepNoRemove ==
  /\ phase = "init" /\ initQueue # <<>>
  /\ LET o == Head(initQueue)
     IN  IF o \notin initialized
            /\ (~Contains(linked, o) \/ ~(ToSet(deps[o]) \subseteq initialized))
         THEN Die("initOrder", o, NoSym)
         ELSE /\ initialized' = initialized \cup {o}
              /\ UNCHANGED <<image, phase, fault, stack, registered, fetches,
                             deps, scope, visited, linkQueue, linked, tls,
                             relaVal, pltVal, gotReserved, scheduled,
                             onInitStack, initQueue, copyIdx>>

(* One iteration of Loader::initObjects: doInitialize asserts that the     *)
(* object was linked and that every dependency is already initialized,     *)
(* then runs DT_INIT and DT_INIT_ARRAY and sets wasInitialized.            *)
InitObjectsStep ==
  /\ phase = "init" /\ initQueue # <<>>
  /\ LET o == Head(initQueue)
     IN  IF o \notin initialized
            /\ (~Contains(linked, o) \/ ~(ToSet(deps[o]) \subseteq initialized))
         THEN Die("initOrder", o, NoSym)
         ELSE /\ initialized' = initialized \cup {o}
              /\ initQueue' = Tail(initQueue)
              /\ UNCHANGED <<image, phase, fault, stack, registered, fetches,
                             deps, scope, visited, linkQueue, linked, tls,
                             relaVal, pltVal, gotReserved, scheduled,
                             onInitStack, copyIdx>>

InitObjectsDone ==
  /\ phase = "init" /\ initQueue = <<>>
  /\ phase' = "done"
  /\ UNCHANGED <<image, fault, stack, registered, fetches, deps, scope,
                 visited, linkQueue, linked, tls, relaVal, pltVal,
                 gotReserved, scheduled, onInitStack, initQueue, copyIdx,
                 initialized>>

-----------------------------------------------------------------------------
Next ==
  \/ InjectObjectFromPhdrs
  \/ DiscoverKnown \/ DiscoverFetch \/ DiscoverReturn
  \/ BuildScopeStart \/ BuildScopeStep \/ BuildScopeReturn
  \/ LinkObjectStart \/ LinkObjectStep \/ LinkObjectReturn
  \/ BuildInitialTls
  \/ LinkObjectsStep \/ ScheduleInitStep \/ ScheduleInitReturn
  \/ LinkObjectsFinish \/ LinkObjectsDone
  \/ ProcessCopyRelocations \/ CopyPassDone
  \/ InitObjectsStep \/ InitObjectsDone

(* The loader is the only thread of the process until initializers have   *)
(* run; it is never descheduled forever.                                   *)
Spec == Init /\ [][Next]_vars /\ WF_vars(Next)

-----------------------------------------------------------------------------
(***************************************************************************)
(* Reference definitions, computed from the file-system contents alone.    *)
(***************************************************************************)
Needed(n) == ToSet(image[n].needed)

RECURSIVE Closure(_, _)
Closure(front, seen) ==
  IF front \subseteq seen THEN seen
  ELSE Closure(UNION {Needed(n) : n \in front \ seen}, seen \cup front)

(* The objects reachable from the executable through DT_NEEDED.            *)
Reachable == Closure({Main}, {})

(* Some reachable object depends on itself through DT_NEEDED.              *)
Cyclic == \E n \in Reachable : n \in Closure(Needed(n), {})

(* Depth-first pre-order of the DT_NEEDED graph from the executable, each  *)
(* object once, at its first visit.                                        *)
RECURSIVE Preorder(_, _)
Preorder(ns, seen) ==
  IF ns = <<>> THEN seen
  ELSE LET n == Head(ns)
           after == IF Contains(seen, n) THEN seen
                    ELSE Preorder(image[n].needed, Append(seen, n))
       IN  Preorder(Tail(ns), after)

SearchOrder == Preorder(<<Main>>, <<>>)

(* p defines s in the sense of the ELF specification: a defined global or *)
(* weak symbol; local symbols never bind a reference from outside.        *)
Defines(p, s) == image[p].symtab[s].defined /\ image[p].symtab[s].bind # "local"

Definers(s) == {p \in Reachable : Defines(p, s)}

(* p is the first object of the search order, other than the excluded     *)
(* one, that defines s.                                                    *)
FirstDefiner(p, s, excluded) ==
  /\ p \in Definers(s) /\ p # excluded
  /\ \A i, j \in 1..Len(SearchOrder) :
       SearchOrder[i] = p /\ j < i => (SearchOrder[j] = excluded
                                       \/ ~Defines(SearchOrder[j], s))

Written(o) == Range(relaVal[o]) \cup Range(pltVal[o])

Terminal == {"done", "failed"}

-----------------------------------------------------------------------------
TypeOK ==
  /\ phase \in {"start", "discover", "scope", "enqueue", "tls", "link",
                "schedule", "copy", "init"} \cup Terminal
  /\ stack \in Seq([obj : Names, idx : Nat])
  /\ registered \subseteq Names
  /\ fetches \in [Names -> Nat]
  /\ deps \in [Names -> Seq(Names)]
  /\ scope \in Seq(Names) /\ linkQueue \in Seq(Names)
  \* wasLinked is a flag per registered object, and linkObjects asserts
  \* !wasLinked before linking one: linked lists distinct objects.
  /\ linked \in Seq(registered) /\ IsInjective(linked)
  /\ visited \cup scheduled \cup onInitStack \cup initialized \subseteq Names
  /\ tls.size \in Nat /\ tls.initial \subseteq Names
  /\ gotReserved \subseteq Names
  /\ initQueue \in Seq(Names)
  /\ copyIdx \in Nat

(* requestObjectWithName is idempotent: the executable is never fetched    *)
(* and no library is fetched twice, although the DT_NEEDED graph may have  *)
(* shared and cyclic edges (registration precedes the recursion).          *)
FetchOnce ==
  /\ fetches[Main] = 0
  /\ \A n \in Names : fetches[n] <= 1

(* Once discovery has returned, the registry holds exactly the objects     *)
(* reachable from the executable and each object's dependency list is its *)
(* DT_NEEDED list, in order, whether the library was new or memoised.      *)
DiscoveredGraph ==
  phase \notin {"start", "discover", "failed"} =>
    /\ registered = Reachable
    /\ \A o \in registered : deps[o] = image[o].needed

(* The global scope is the depth-first pre-order of the DT_NEEDED graph    *)
(* without duplicates, and linkObject enqueues objects in that same order, *)
(* the executable first.                                                   *)
ScopeAndLinkOrder ==
  /\ phase \notin {"start", "discover", "scope", "failed"} => scope = SearchOrder
  /\ phase \in {"tls", "link", "schedule", "copy", "init", "done"} =>
       linked \o linkQueue = scope

(* Every written word that refers to a symbol definition refers to the     *)
(* first definer in the search order: all objects of the process bind a    *)
(* name to one definition (JUMP_SLOT, GLOB_DAT, 64 and the TLS types).     *)
ScopePrecedence ==
  \A o \in registered : \A v \in Written(o) :
    v.kind \in {"sym", "module", "dtpoff", "tpoff"} /\ v.obj # NoObj /\ v.sym # NoSym
      => FirstDefiner(v.obj, v.sym, NoObj)

(* A COPY relocation copies from the first definer other than the object   *)
(* itself, never from its own (copy-target) definition.                    *)
CopyFromOtherObject ==
  \A o \in registered : \A v \in Range(relaVal[o]) :
    v.kind = "copy" => FirstDefiner(v.obj, v.sym, o)

(* A symbol reference is written as 0 (+ addend) only when it is weak and  *)
(* no reachable object defines the name.                                   *)
UnresolvedOnlyWeak ==
  \A o \in registered : \A v \in Written(o) :
    v.kind = "sym" /\ v.obj = NoObj => IsWeak(o, v.sym) /\ Definers(v.sym) = {}

(* Static TLS layout: every object with a TLS segment gets a block of its  *)
(* size at a negative offset aligned to its alignment, inside the initial  *)
(* area, and the blocks of two objects never overlap.                      *)
TlsLayoutSound ==
  phase \in {"link", "schedule", "copy", "init", "done"} =>
    /\ tls.initial = {o \in registered : image[o].tlsSize > 0}
    /\ \A o \in tls.initial :
         /\ tls.offset[o] % image[o].tlsAlign = 0
         /\ -tls.size <= tls.offset[o]
         /\ tls.offset[o] + image[o].tlsSize <= 0
    /\ \A o1, o2 \in tls.initial :
         o1 # o2 => \/ tls.offset[o1] + image[o1].tlsSize <= tls.offset[o2]
                    \/ tls.offset[o2] + image[o2].tlsSize <= tls.offset[o1]

(* The loader dies for an unresolved symbol only if the reference is not   *)
(* weak and nothing defines the name; for a stack overflow or an           *)
(* initialization-order failure only if the graph has a cycle; for a       *)
(* missing library only if it is reachable and absent.                     *)
FailureJustified ==
  phase = "failed" =>
    CASE fault.why = "unresolved" ->
           Definers(fault.sym) = {} /\ ~IsWeak(fault.obj, fault.sym)
      [] fault.why \in {"overflow", "initOrder"} -> Cyclic
      [] fault.why = "notFound" -> fault.obj \in Reachable /\ ~image[fault.obj].present
      [] OTHER -> TRUE

(* Every session ends: the process dies, or every reachable object has     *)
(* been linked and initialized.                                            *)
SessionEnds ==
  <>(\/ phase = "failed"
     \/ phase = "done" /\ initialized = Reachable /\ ToSet(linked) = Reachable)

(* Recursion depth never exceeds the number of objects: every recursive    *)
(* walk of the dependency graph is guarded (spec section 5).               *)
RecursionBounded == Len(stack) <= Cardinality(Names)

(* An unresolved weak reference never aborts the load (spec section 4.4).  *)
WeakNeverAborts ==
  phase = "failed" /\ fault.sym # NoSym /\ fault.obj \in Names =>
    ~(IsWeak(fault.obj, fault.sym) /\ Definers(fault.sym) = {})

(* A PT_TLS segment with p_align 0 requires no alignment (ELF gABI), so   *)
(* when every alignment is 0 or divides 16 buildInitialTls lays all the    *)
(* segments out instead of stopping the process.                           *)
NoAlignmentTrap ==
  (\A o \in Reachable : image[o].tlsSize > 0 =>
      image[o].tlsAlign = 0 \/ 16 % image[o].tlsAlign = 0)
    => ~(phase = "failed" /\ fault.why = "sigfpe")

====
