# TLA+ models of managarm's runtime linker, IRQ pins, epoll and kernlet compiler

This directory holds TLA+ specifications of the parts of this repository that
have behaviour worth model checking, the TLC configurations that check them,
and `PROJECT.json`, which maps every model definition to the source lines it
translates and lists the runs, fault variants, findings and hazards.

## 1. The system and its parts

The repository slice contains nine source files. The core is the user-space
runtime ELF linker `src/ld-init/linker/src/linker.cpp`. The second modelled
part is the kernel's interrupt pin logic `src/kernel/thor/generic/irq.cpp`;
the third is the POSIX server's epoll file `src/posix/subsystem/src/epoll.cpp`,
and the fourth is the kernlet compiler's front end
`src/drivers/kernletcc/src/fafnir.cpp`. The other files have no state machine
worth checking.

| part | source | what it does | state |
|---|---|---|---|
| LinkUniverse (object registry) | linker.cpp 315-589 | injects the executable, fetches libraries by name with a name-map memo, discovers DT_NEEDED recursively | `_nameMap`, `SharedObject::dependencies`, `libraryBase` |
| Scope | linker.cpp 753-840 | DFS pre-order list of objects; first-match symbol lookup, optional self-exclusion (`kResolveCopy`) | `Scope::objects` |
| Loader | linker.cpp 847-940, 655-699 | link queue with visited set, static TLS layout, relocation of each object, post-order init scheduling, initializer execution | `_linkObjects`, `_linkQueue`, `_initQueue`, the per-object flags `wasLinked`, `scheduledForInit`, `onInitStack`, `wasInitialized`, `runtimeTlsMap` |
| Relocation processing | linker.cpp 605-653, 942-1087 | `processRela` per x86-64 type, lazy (PLT) table setup with eager binding, deferred COPY pass | the words written into each object |
| POSIX transport, mapping | linker.cpp 39-309, 417-512 | file I/O and page mapping via the POSIX server | none the linker reasons about |
| `allocateTcb` | linker.cpp 712-728 | allocates the initial thread's TLS area and Tcb, copies the TLS images, installs the fs base | the fs base, the image addresses |
| IRQ pins and sinks | kernel/thor/generic/irq.cpp | interrupt pin state machine with ack/nack/kick sequence numbers | per-pin and per-sink sequence counters, mask state |
| epoll | posix/subsystem/src/epoll.cpp | pending-item queue driven by poll callbacks | pending queue, per-item state |
| Symbol lookup in one object | linker.cpp 755-812 | `elf64Hash`, `strEquals`, `symbolSatisfies`, SysV hash-table walk of `resolveInObject` | none (a pure function of the object's tables) |
| kernlet compiler | drivers/kernletcc/src/fafnir.cpp | turns fafnir postfix bytecode into a lewis function over an operand stack | `comp.opstack`, the read position |
| others | clock.cpp, device.hpp, async-run.hpp, cpu.cpp, kernel-tests main.cpp | tracker page fetch, device registry declarations, async helper, CPU bring-up, test runner | little or none |

How the linker's parts interact in one load session: `interpreterMain` (not in
this slice) injects the executable (`injectObjectFromPhdrs`). That recursively
requests every DT_NEEDED library (`requestObjectWithName`, which registers an
object *before* recursing into its dependencies). Then `Scope::buildScope`
fixes the search order from the executable and `Loader::linkObject` fills the
link queue. `buildInitialTls` then assigns static TLS offsets over the link
queue. `linkObjects` relocates each object in queue order, resolving symbols
through the scope, and schedules its initializers (`_scheduleInit`, a
post-order DFS). Next, the COPY pass copies data from the first *other*
definer. Finally `initObjects` runs the initializers, asserting that every
dependency ran first. Everything runs on one thread; the hard behaviour is in
the recursive walks over a DT_NEEDED graph the loader does not control, which
may share and cycle. A second hard area is the resolution policy: scope order,
weak versus global, and self-exclusion for COPY.

## 2. Modules

### Loader.tla: one load session of linker.cpp

* **State.** `image` is the file-system contents, chosen in `Init` from
  `Images`: per name, the DT_NEEDED list, whether the file exists and is well
  formed, the symbol table entries, the DT_RELA and DT_JMPREL tables, and the
  PT_TLS size and alignment. The other 19 variables are the linker's own
  state, named after the C++ members in the comments of the `VARIABLES`
  clause.
* **Recursion.** Each of the four recursive functions (`_discoverDependencies`
  through `requestObjectWithName`, `buildScope`, `linkObject`, `_scheduleInit`)
  is an explicit call stack `stack` of frames `[obj, idx]`. There is one
  action per loop iteration (`...Step`) and one per return (`...Return`), so
  the call depth is visible to invariants. A call deeper than the constant
  `StackLimit` overflows the stack (`Die("overflow")`). Only `buildScope` can
  get there: the other walks are guarded.
* **Actions.** Each action is one step of the source:
  `InjectObjectFromPhdrs`; `DiscoverKnown` (memo hit), `DiscoverFetch` (new
  name: `_fetchFromFile`, `_parseDynamic`, insert, recurse), `DiscoverReturn`;
  `BuildScopeStart/Step/Return`; `LinkObjectStart/Step/Return`;
  `BuildInitialTls`; `LinkObjectsStep` (both relocation tables of the queue
  front, then entry into `_scheduleInit`); `ScheduleInitStep/Return`;
  `LinkObjectsFinish` (`wasLinked`, `removeFront`); `LinkObjectsDone`;
  `ProcessCopyRelocations` and `CopyPassDone`; `InitObjectsStep` (including
  the asserts of `doInitialize`); `InitObjectsDone`.
* **Pure operators.** `processRela`, `jumpSlot`, `processStaticRelocations`,
  `processLazyRelocations`, `copyRela`, `resolveSymbol`, `symbolSatisfies`
  and `TlsPlace`/`buildInitialTls` compute what the code writes. That is the
  abstract value `[kind, obj, sym, add]` (for example "address of the
  definition of `x` in object `b`, plus 8") or the reason the process dies.
  Each table is processed in order and the first failing entry kills the
  process, as the panics and asserts in the code do.
* **Death.** Every `panicLogger` and reachable `assert` is `Die(why, obj, sym)`:
  the phase becomes `"failed"` and nothing else changes.
* **Dead code.** The `onInitStack` assert of `_scheduleInit` (line 927)
  cannot fire, because both callers test `scheduledForInit` first, so it is
  left out. The `wasInitialized` test of `initObjects` is kept as the
  `o \notin initialized` condition of `InitObjectsStep`.
* **Reference definitions.** `Reachable`, `Cyclic`, `SearchOrder` (RECURSIVE
  DFS pre-order), `Defines`, `Definers` and `FirstDefiner` are computed from
  `image` alone. They state what the code should compute, independently of
  the operators that model it.

### MC_Loader.tla

MC_Loader instantiates `Loader` for TLC. It has three objects: the executable
`m` and libraries `a`, `b`. It has two symbols: `x`, a data/function symbol,
and `t`, a TLS symbol. It defines these sets of images:

* `GraphImages`: every DT_NEEDED graph in which each object lists at most two
  names. This gives 2197 graphs, with shared, repeated, self and cyclic edges.
  It also includes a missing library and malformed objects.
* `RelocRunImages`: a diamond (m needs a and b, a needs b) with a
  relocation of every supported type.
  - Each object defines, weakly defines, locally defines or only references
    `x`, in all 5^3 combinations.
  - Each object defines or references `t` (3^3 combinations).
  - It adds malformed tables: an unknown type, an addend on GLOB_DAT, a
    JMPREL without a GOT, and a REL-style PLT.
* `TlsImages`: every choice of (size, alignment) for the three objects from
  eight pairs, including 12/4, 8/32 (does not divide 16) and 8/0.
* `LoaderImages`: the union of the three sets above, the input of the
  loader run. The tls_align0 run uses `TlsImages`, which includes alignment 0.
* `CycleImages`, `WeakTlsImages`: the inputs of the cycle and weak_tls
  violation runs.

### Irq.tla: one IrqPin and its sinks (irq.cpp)

How the IRQ parts interact: the interrupt controller calls `IrqPin::raise`
while the pin is unmasked. `raise` numbers the interrupt (`_raiseSequence`).
If the pin is not yet in service, `_callSinks` stamps every attached sink
with the new `_sinkSequence` and calls `IrqObject::raise`. That either answers
at once through an automation kernlet (ack or nack) or wakes the driver
threads queued in `_waitQueue`. A driver later answers with `ackSink` or
`nackSink` for the sequence it was given, or calls `kickSink`. Every
operation holds the pin mutex (and the sink mutex), so each is one atomic
step. The concurrency is the interleaving of the controller and the drivers.

| code | model |
|---|---|
| `_strategy`, `_raiseSequence`, `_sinkSequence`, `_inService`, `_dueSinks`, `_maskState`, the controller mask | `pin` record; `maskState` is a set over `"service"`, `"nack"` |
| `_sinkList` | `sinkList`, a sequence in attach order |
| `_currentSequence`, `_responseSequence`, `_status`, `_pin`, the kernlet | `sink[s]` |
| a driver thread blocked in `submitAwait` | `drv[s]`: idle, queued with a sequence, or ready |
| a failing `assert` | `panic` holds its name |

Actions: `AttachSink`, `Configure` (first configure only), `Raise`,
`Automate`, `SubmitAwait`, `AckSink`, `NackSink`, `KickSink`. The private
helpers `_callSinks`, `_acknowledge`, `_nack`, `_kick` and `_updateMask` are
pure operators over a `[pin, sink, drv]` record (`CallSinks`, `Acknowledge`,
`Nack`, `Kick`, `UpdateMask`). Each action that calls one applies the result
in the same step, as the code does under its lock. `Outcomes` is the set of
answers a kernlet can give (`IrqObject::raise`). `SeqCheck` is the sequence
validation that `ackSink` and `nackSink` share.

Constants: `Sinks`; `MaxRaise` bounds the raises; `Kernlets` and
`DriverNacks` switch automation and driver nacks on; `EarlyRaise` lets the
controller raise before `configure`. With EarlyRaise FALSE the controller
mask starts set and is only cleared by `configure`, which is how the boot
code uses a pin.

`MC_Irq.tla` gives two sinks `s1`, `s2` as model values.

**Refinement: IrqDelivery.tla.** This module states what a pin promises
without sinks, drivers or masks. Its variables are `raised`, `handed` and
`busy`:
- A raise of an idle pin is handed over at once.
- A raise of a busy pin is only counted.
- The end of service hands over everything counted and leaves the pin idle.

`Irq` instantiates it with `raised <- pin.raiseSeq`,
`handed <- pin.sinkSeq` and `busy <- pin.inService`, and checks
`Delivery!Spec` as the property `DeliverySpec`. The refinement records one
design choice of the code. `_acknowledge` and `_kick` clear `_inService`
before the catch-up `_callSinks`. A caught-up raise is therefore handed to
the sinks while the pin is out of service.

### Epoll.tla: one epoll file (epoll.cpp)

`addItem` creates an `Item` and polls its file. The completion,
`_awaitPoll`, does one of two things:
- With a masked edge and a masked active event, it makes the item pending
  and appends it to `_pendingQueue`.
- Otherwise it polls again from the sequence it got.

`waitForEvent` sleeps on the doorbell until the queue is non-empty, then
splices the whole queue into a local `stolen` list. It checks each stolen
item with `poll(0)`:
- An item with an active masked event goes back into the queue and is
  returned.
- A quiet item is no longer pending and is polled again.

The POSIX server runs these coroutines on one thread, so each piece between
two awaits is one atomic step.

| code | model |
|---|---|
| `_fileMap` | `added` |
| `Item::eventMask`, `Item::isPending` | `mask`, `isPending` |
| the outstanding `poll(seq)` of an item | `watch[f]` (a sequence, or `NoWatch`) |
| `_pendingQueue` | `queue` |
| a coroutine in `waitForEvent` and its `stolen` list | `waiter[w]` |
| the event a `waitForEvent` returns | `returned` |

Actions: `AddItem`, `AwaitPoll`, `Enter`, `Steal` and `Check`. The file
behind an item is not in this repository. It is modelled by the `File::poll`
contract the code relies on:
- a sequence number that grows with each change of events;
- `poll(s)` completing once the sequence passes `s`;
- edges meaning the events that rose after `s`.

`FileRaise` and `FileClear` change a file's events, and `MaxSeq` bounds
them. `MC_Epoll.tla` gives files `f1`, `f2`, waiters `w1`, `w2`, `w3` and
events `in`, `out`.

### LibraryMap.tla: library windows and segment mapping (linker.cpp)

`_fetchFromFile` gives each library the next 16 MiB window from
`libraryBase`, then walks its program headers:
- A PT_LOAD is mapped at `base + p_vaddr` rounded down to a page, for
  `p_memsz` plus the misalignment rounded up to a page. Read-execute
  segments come from the file; read-write ones go into fresh memory.
- PT_TLS and PT_DYNAMIC record addresses.
- The GNU and PHDR/INTERP types are ignored.
- Anything else panics, and so do an empty PT_LOAD, a misaligned text
  offset and illegal permissions.

The module keeps the code's constants: the page size 0x1000, the base
0x41000000 and the window 0x1000000. Its actions are `FetchFromPhdrs`
(`_fetchFromPhdrs`: the executable, already mapped by the kernel, only has
its last PT_TLS and PT_DYNAMIC recorded, and it comes before any library),
`FetchFromFile`, `ProcessPhdr` (one header) and `FetchDone`.
`MC_LibraryMap.tla` gives an executable `le`, two libraries and header
tables: one as a linker writes it, one filling the window exactly, and four
malformed ones.

### Tcb.tla: the initial thread's TLS area (allocateTcb, linker.cpp)

`Tcb` EXTENDS `Loader` and adds `allocateTcb`. It allocates
`initialSize + sizeof(Tcb)` bytes, puts the Tcb at `fs_buffer +
initialSize`, copies each initial-model image to `tcb + tlsOffset`, and
installs the Tcb as the fs base. Its caller, `interpreterMain`, is not in
this repository, so `AllocateTcb` may happen at any point after
`buildInitialTls`. `TcbNext` is `Loader`'s `Next` (with `fsBase` and
`imageAt` unchanged) or `AllocateTcb`. The allocator's result is the
constant `HeapAddrs`; `MC_Tcb.tla` uses one page-aligned address, the most
aligned buffer an allocator can return. The zeroing and the copied bytes are
left out: `imageAt` records where each image goes.

### Fafnir.tla: the kernlet compiler (fafnir.cpp)

`compileFafnir` lays out the bindings in 8-byte slots of the argument, then
reads one opcode at a time:
- `CONST` and `BINDING` push a leaf: a constant byte, or a load from the
  binding's slot (an int32 for an offset binding, a pointer for a memory
  view). The binding index is not checked.
- `AND` and `ADD` pop the left operand (the top) and then the right one.
- `INTRIN` reads a NUL-terminated function name, then pops the handle and
  the offset and pushes the call.
- Any other byte fails "Unexpected fafnir opcode".

At the end the top of the stack is returned and the stack must be empty.
A lewis value is modelled by the expression tree that computes it. Reading
past the code is the `assert(s < code + size)` of `extractUint` (outcome
`"assert"`). Popping an empty `std::vector` or indexing past the bindings is
undefined behaviour, where the model stops (outcome `"ub"`).

| code | model |
|---|---|
| `code`, `size` | `code` (a byte sequence) |
| `s` | `s` (1-based) |
| `comp.opstack` | `opstack` (trees) |
| the return value | `result` |

Actions: `Const`, `Binding`, `And`, `Add` (both `Binary`), `Intrin`,
`Unexpected` and `Finish`. The RECURSIVE operator `Encodings(n)` is the
reference: every expression whose postfix encoding has at most `n` bytes,
paired with its tree. The inputs are the encodings of up to 7 bytes, every
prefix of one, two leaves in a row, and every string of up to 3 bytes.

### ElfHash.tla: symbol lookup in one object (linker.cpp)

`resolveInObject` hashes the requested name with `elf64Hash`, picks bucket
`hash % nbucket` of the object's SysV hash table and walks that chain until a
symbol satisfies the request (`symbolSatisfies`: defined, GLOBAL or WEAK,
`strEquals`). `hashTable` is laid out as the code indexes it: `[0]` nbucket,
`[1]` nchain, then the buckets and the chains. The actions are `Start`,
`Walk` (one chain step) and `Miss`.

`elf64Hash` is the pure operator `elf64Hash(name)`, a `FoldLeft` of
`HashStep` over the bytes with the code's 32-bit arithmetic. TLC's integers
are signed 32-bit, so a value is kept as its top nibble and its low 28 bits,
and the XOR with `g >> 24` is Bitwise `^^` on the nibble. The byte is added
as `(uint32_t)` of a plain `char`, which is signed on x86-64 (`CharToU32`).
`MC_ElfHash.tla` builds the tables the way the static linker does, with the
gABI hash over unsigned bytes (`GabiHash`), for up to three symbols and one
to three buckets.

## 3. Runs

| run | cfg | expect | properties | what it shows |
|---|---|---|---|---|
| loader | MC_LoaderAll.cfg | pass (159 663 states) | TypeOK, FetchOnce, DiscoveredGraph, ScopeAndLinkOrder, FailureJustified, ScopePrecedence, CopyFromOtherObject, UnresolvedOnlyWeak, TlsLayoutSound, SessionEnds | see below |
| cycle | MC_Cycle.cfg | violation | RecursionBounded | see below |
| tls_align0 | MC_TlsAlign0.cfg | violation | NoAlignmentTrap | see below |
| weak_tls | MC_WeakTls.cfg | violation | WeakNeverAborts | see below |
| tcb_align | MC_TcbAlign.cfg (MC_Tcb) | violation | TcbAligned | see below |

The loader run takes its initial image from `LoaderImages`, the union of the
graph, relocation and TLS inputs of MC_Loader. Its properties fall in three
groups.

**Graph properties.** Discovery fetches each library at most once, even on shared and
cyclic graphs, because registration comes before recursion. After discovery,
the registry holds exactly the reachable objects and each dependency list
equals the DT_NEEDED list. The scope is the DFS pre-order and the link order
equals it. Every session ends. A session fails for overflow or init order only
on a cyclic graph, and for a missing library only if that library is
reachable and absent.

**Relocation properties.**
* Every symbol-bearing word written binds the first definer in search order:
  64, GLOB_DAT, eager JUMP_SLOT, DTPMOD64, DTPOFF64 and TPOFF64.
* COPY takes its data from the first definer other than the executable.
* A reference is written as 0 only if it is weak and nothing defines the
  name.

**TLS property.** Every object with a TLS segment gets a block that is aligned to its
alignment, lies inside the initial area, and is disjoint from every other
block.

**cycle.** `buildScope` recurses without bound on a cyclic DT_NEEDED graph.

**tls_align0.** A PT_TLS segment with `p_align` 0 stops the loader.

**weak_tls.** An unresolved weak TLS reference aborts the loader.

**tcb_align.** `TcbAligned`: every TLS image is copied to an address aligned
to its `p_align`. TLC finds it violated on the TLS inputs of the loader
run (see Findings). `TlsLayoutSound` holds at the same time: the offsets are
aligned, but the thread pointer they are relative to is not.

Every property of a passing run has a fault variant in `Loader.tla`. The
variant is defined right before the definition it replaces, and `PROJECT.json`
lists it under "mutants". With the variant in place, TLC reports that
property violated under the run's own cfg:

* a name-map insert that is dropped;
* a memo hit that is not pushed to `dependencies`;
* `appendObject` without its duplicate check;
* `addFront` instead of `addBack` in `_scheduleInit`;
* a missing `removeFront` in `initObjects`;
* `kResolveCopy` always applied, or never applied;
* STB_WEAK definitions ignored;
* TLS rounding before adding;
* `linkObjects` without its `removeFront`, which links an object twice
  (TypeOK: `linked` lists distinct objects, as `assert(!wasLinked)` claims).

**IRQ runs** (MC_Irq, two sinks, `MaxRaise = 3`):

| run | cfg | expect | properties |
|---|---|---|---|
| irq_safety | MC_IrqSafety.cfg | pass (25 896 states) | TypeOK, NoPanic, NoLostRaise, MaskAgrees, WaitersCurrent, SequenceOrder, SequencesMonotonic, DeliverySpec, ServiceEnds |
| irq_early | MC_IrqEarly.cfg | violation | NoPanic |

* **irq_safety.** Sinks attach at any time (before or after raises).
  Kernlets are installed at any time. Drivers await, ack, nack and kick in
  any order. The properties:
  - `NoPanic`: no kernel assert of irq.cpp fails. This covers the
    `_dueSinks` underflow, the sequence assert of ack/nack and the
    raise-while-masked race.
  - `NoLostRaise`: a pin out of service has handed every raise to its
    sinks.
  - `MaskAgrees`: the controller mask is set exactly when `_maskState` is
    non-zero.
  - `WaitersCurrent`: a queued driver waits for the current sequence, so
    no wakeup is lost.
  - `SequenceOrder`: response ≤ current ≤ sink ≤ raise sequence.
  - `SequencesMonotonic`: the per-sink sequences never go backwards.
  - `DeliverySpec`: the pin implements the abstract `IrqDelivery`
    specification (see the Irq module section).
  - `ServiceEnds` (liveness, under weak fairness of `SubmitAwait` and
    `AckSink` per sink): a pin in service with a due sink leaves service,
    unless a nack has parked it masked. A parked pin waits for `kickSink`,
    which no driver is obliged to call.
* **irq_early.** Enabling `EarlyRaise` breaks `NoPanic` (see Findings).

The IRQ mutants, each killed by its property:
* `_callSinks` numbering off by one;
* `_callSinks` not waking waiters;
* `_acknowledge` without catching up pending raises;
* `_acknowledge` clearing only the mask bit;
* `_kick` clearing only `maskedForService`;
* `nackSink` without its sequence check;
* `ackSink` not recording the response sequence;
* `submitAwait` waiting when one sequence behind;
* `_acknowledge` staying in service when it catches up (breaks
  `DeliverySpec`).

**Epoll runs** (MC_Epoll, events `in` and `out`):

| run | cfg | expect | properties |
|---|---|---|---|
| epoll | MC_Epoll.cfg | pass (32 787 states) | TypeOK, NoPanic, Tracked, Reported |
| epoll_lost | MC_EpollLost.cfg | violation | Tracked |

* **epoll** has one file whose events change six times (`MaxSeq = 7`) and
  three waiters. The `isPending` assertion of `waitForEvent` holds. The item
  is always in exactly one place: the queue, one stolen list or its
  outstanding poll (`Tracked`), so it is never linked twice nor polled while
  pending. A masked event that stays active is reported (`Reported`).
* **epoll_lost** has two files, one waiter and `MaxSeq = 4`. TLC finds the
  trace: both files are ready, `waitForEvent` returns the first and drops
  the second.

The Epoll mutants, each killed by its property:
* the quiet item polled from one sequence too late (TypeOK and Reported);
* `_awaitPoll` queueing without setting `isPending` (NoPanic);
* a reported item not put back into the queue (Tracked).

**Library mapping run** (MC_LibraryMap, an executable and two libraries):

| run | cfg | expect | properties |
|---|---|---|---|
| libmap | MC_LibMap.cfg | pass (2 352 states) | TypeOK, MapCoversSegment, WindowsDisjoint |

* **libmap.** The inputs are header tables as a linker writes them, a library
  that fills its window to the last byte, and four malformed tables. Every
  PT_LOAD mapping is page-aligned and covers its segment with less than a
  page of slack. No mapping reaches into the other library's window.
* A library larger than 16 MiB would overlap the next one (linker.cpp:400,
  with a TODO saying so). An earlier run with such a layout found the
  overlap; the run was retired for `tcb_align`, and the hazard is kept in
  `PROJECT.json`.

The LibraryMap mutants, each killed by its property:
* writable segments mapped executable (TypeOK);
* no rounding down of the map address (MapCoversSegment);
* page rounding applied to a length that is already aligned
  (WindowsDisjoint).

**Kernlet compiler and symbol lookup runs:**

| run | cfg | expect | properties |
|---|---|---|---|
| fafnir | MC_Fafnir.cfg | pass (7 109 states) | TypeOK, CompilesEncoding |
| elfhash_signed | MC_ElfHashSigned.cfg | violation | LookupComplete |

* **fafnir.** `CompilesEncoding`: a compilation that returns gives exactly the
  tree the bytecode encodes (operand order, binding slot and type, the
  intrinsic's name and argument order), and one that stops on an assertion or
  undefined behaviour had bytecode encoding no expression. `TypeOK` includes
  that the read position never passes the end of the code. The mutants are a
  `CONST` without the bound check (TypeOK) and a binary operator with its
  operands swapped (CompilesEncoding).
* **elfhash_signed.** `LookupComplete`: a lookup that misses finds no
  symbol of the table satisfying the request. TLC finds an object defining
  "café" with three buckets whose lookup of "café" misses (see Findings).
  Without that name the run passes (5 688 states): for ASCII names the
  code's hash equals the gABI's.

## 4. Findings

* **buildScope does not terminate on a cycle (code bug, linker.cpp:821-826).**
  - `appendObject` deduplicates the list, but the recursion has no guard.
  - A DT_NEEDED cycle, which ELF allows, makes the loader recurse until the
    stack overflows.
  - Discovery (name-map memo) and `linkObject` (visited set) terminate on the
    same graph.
  - The intended cycle diagnosis in `_scheduleInit` is never reached. Its
    `onInitStack` assert is dead in any case, because every caller tests
    `scheduledForInit` first.
  - The spec says every recursive walk is guarded (section 5) and a cycle ends
    in a diagnosed failure (sections 4.3 and 8). The cycle run finds a stack
    of depth 4 with three objects.
* **Weak TLS references abort (spec/code divergence, linker.cpp:989-1004).**
  - DTPMOD64 with a symbol, DTPOFF64 and TPOFF64 `assert(p)`.
  - So a weak TLS symbol that nobody defines kills the process. Spec
    section 4.4 says it writes zero and never aborts.
  - The weak_tls run reaches this fault with object `a` and symbol `t`.
* **TLS layout order (note, not a run).** Spec section 4.3 says the running
  size is rounded up *then* the segment added. The code adds and then rounds
  (lines 876-880), and only the code's order is sound: the spec's order gives
  misaligned blocks. This is the `TlsPlaceAlignFirst` variant, and the loader run
  rejects it.

* **Raise on an unconfigured pin reaches a kernel assert (code bug,
  irq.cpp:159-175).**
  - `raise` logs "Unconfigured IRQ was raised" and carries on.
  - The pin goes into service with strategy null, and nothing masks it.
  - A second raise before an ack fails
    `assert(_strategy == IrqStrategy::justEoi)` at line 174. TLC's trace is
    AttachSink, Raise, Raise.
  - If `configure` runs in between instead, it resets `_sinkSequence` to 0
    (lines 145-146). The sinks keep `_currentSequence` 1, so the driver's
    ack fails the assert at line 59.
  - Either way, an interrupt that fires between attach and configure
    panics the kernel.

* **waitForEvent drops the rest of the stolen list (code bug,
  epoll.cpp:137).**
  - `waitForEvent` splices the whole pending queue into a local list.
  - It returns as soon as one stolen item has an event.
  - The items still in the local list keep `isPending = true`, but they
    are in no queue and have no poll outstanding.
  - `_awaitPoll` would requeue them only if `!isPending`, so they are
    never reported again.
  - Two files that are both ready when `epoll_wait` is called lose one for
    good. TLC's trace: AddItem, AddItem, AwaitPoll, AwaitPoll, Enter, Steal,
    Check.
* **The thread pointer is not aligned to the TLS blocks (code bug,
  linker.cpp:725).**
  - `allocateTcb` puts the Tcb at `fs_buffer + initialSize`.
  - `buildInitialTls` aligns each `tlsOffset` to its own `p_align`, but it
    rounds `initialSize` only to the alignment of the segment placed last.
  - TLC's trace: a segment of 8 bytes aligned to 8 gets offset -8, and one
    of 4 bytes aligned to 4 gets offset -12. `initialSize` is 12, so with a
    page-aligned buffer the first image lands at `fs_buffer + 4`.
  - The x86-64 TLS ABI (and spec section 4.3) expects every block aligned to
    its own alignment; glibc aligns the thread pointer to the largest one.
* **Libraries larger than 16 MiB overlap (note, not a run; linker.cpp:400).**
  `libraryBase` advances by a fixed 0x1000000, as the TODO admits. A larger
  library is mapped into the window of the library fetched after it.
* **Non-ASCII symbol names are not found (spec/code divergence,
  linker.cpp:769).** `elf64Hash` adds `(uint32_t)(*name++)` of a plain
  `char`, which is signed on x86-64, so a byte of 0x80 or more is added as
  0xFFFFFF00 plus the byte. The static linker hashes unsigned bytes, as the
  ELF gABI and spec section 4.2 ("accumulate byte") say. For the UTF-8 name
  "café" with three buckets the code walks another bucket and reports a
  defined GLOBAL symbol as missing.
* **p_align 0 traps (spec gap, linker.cpp:877).** The ELF gABI says 0 means no
  alignment. `buildInitialTls` evaluates `16 % 0`. The spec only says callers
  guarantee that the alignment divides 16.

## 5. Bounds and why they are enough

* **Objects and symbols.**
  - Three objects are the fewest with which a diamond (a shared dependency),
    a cycle not through the executable, and first-match versus a later
    definer can all occur.
  - Two symbols are the fewest that keep a data symbol and a TLS symbol
    apart.
* **Graph shape.** DT_NEEDED lists of up to two entries cover repeated
  entries and self edges. The code treats an edge the same whatever its
  position, apart from order, and order is exercised by the two-entry lists.
* **StackLimit.** This is `Cardinality(Names) + 1`. Every guarded walk stays
  at or below the number of objects, and one more frame is the first sign of
  unbounded recursion.
* **TLS pairs.** They cover a zero size, sizes that are and are not multiples
  of the alignment, every alignment dividing 16, and alignments 32 and 0.
* **Eager binding.** `EagerBinding` is TRUE, the value `eagerBinding` is
  initialized to (linker.cpp:33) and never changed in this slice.

* **IRQ bounds.** Two sinks are the fewest with which one sink acks while
  another is still due, or a kernlet nacks while a driver acks. `MaxRaise = 3`
  lets a raise arrive in service, be caught up at ack and be followed by a
  third that finds a late ack or a nack round. Every hazard listed for
  irq.cpp needs at most two raises past the first.

* **Epoll bounds.** Two files are the fewest for which a stolen list holds
  more than one item, which is what `epoll_lost` needs. Three waiters let
  the steal of one race the requeue of a second while a third enters.
  `MaxSeq = 7` gives the file six changes of events, enough for rises and
  falls of both events between polls, an edge that comes and goes before a
  poll completes, and an edge after a quiet check. `Reported` and `Tracked`
  are checked with one file, because with two they fail through the
  epoll_lost bug.
* **LibraryMap bounds.** The addresses are the code's own. The header tables
  cover a segment starting mid-page and crossing a page, a length that is
  already a page multiple, and a window filled exactly. They also cover each
  panic of the loop. Two libraries are the fewest that have neighbouring
  windows.
* **Tcb bounds.** The TLS inputs of the loader run: three objects with
  every size and alignment pair, so a larger alignment can be followed by a
  smaller one. One page-aligned buffer: any less aligned buffer only adds
  misalignments.
* **Fafnir bounds.** Programs of up to 7 bytes contain every opcode as the
  outer operator over two leaves (an intrinsic with an empty name needs 7),
  and binary operators nested one deep. The byte set holds the opcodes, 0
  (the NUL and binding 0) and 1 (a binding, or an index past one binding).
  Two bindings cover both binding types.
* **ElfHash bounds.** Eight bytes are the first length at which the top
  nibble folds back (`g` non-zero); one to three buckets and up to three
  symbols give shared chains and empty buckets.

## 6. Fairness

`Spec` uses `WF_vars(Next)`. The loader is the only thread of the process
until the initializers have run (spec section 5), and every step is a local
computation or a blocking call the model treats as complete. So a loader with
a step enabled eventually takes it. No fairness per action is needed, because
there is never a choice between actors. Deadlock checking is off in every cfg
because a session really stops, in `"done"` or `"failed"`. `SessionEnds`
states that it always reaches one of them.

For Irq, `Fairness` is weak fairness of `SubmitAwait(s)` and `AckSink(s)` for
each sink. This states that a driver keeps waiting for its IRQ and acks what
it is given, which is the contract of a driver thread, not something irq.cpp
can enforce. The controller and kernlets get no fairness; `ServiceEnds` holds
however often they act. Deadlock checking is off because an idle pin with no
raises left is a legitimate final state.

For Epoll, `Fairness` is weak fairness of `AwaitPoll` per file and of
`Enter`, `Steal` and `Check` per waiter. The first says the file's server
answers a poll that has completed. The others say the POSIX server's event
loop resumes a runnable coroutine, and a client calls `epoll_wait` again
after each event, as an event loop does. Watched files get no fairness.
`LibraryMap`, `Fafnir`, `ElfHash` and `Tcb` are checked for safety only:
each models one sequential call that ends.

## 7. Not modelled, and why

* **Addresses and byte copies.** `virtualAddress` is abstracted in Loader,
  and so is the hash lookup: Loader's lookup finds the entry for the symbol
  name. The lookup itself is the ElfHash module; a table with zero buckets
  (a division by zero at linker.cpp:798) is not among its inputs.
* **File transport and segment mapping.** These are pure I/O. Their outcome
  is the `present`/`wellFormed` flag of an image.
* **Addresses in Loader.** Loader works with offsets; the addresses of the
  windows are in LibraryMap, and those of the TLS area in Tcb. The allocator
  behind `allocateTcb` is not in this repository: its result is a constant.
* **Lazy binding.** The lazy JUMP_SLOT path (`EagerBinding` FALSE) is
  modelled but not run, since the code fixes eager binding.
* **IRQ details.** `warnIfPending` only logs after a second. A second
  `configure` only asserts compatibility. `IrqSlot::link` and the
  controller's `sendEoi`/mask calls are reduced to the mask bit. A driver
  that acks a sequence it was never given is not modelled: drivers answer
  honestly.
* **epoll details.** `modifyItem` and `deleteItem` only log, so there is no
  state to model. A deleted item keeps being reported and keeps a raw `File`
  pointer; that is listed as a hazard. The synchronous-completion recursion
  of the TODO at epoll.cpp:51 is not modelled, since every completion is its
  own step. Adding a file twice fails an assert; the `epoll_ctl` caller is
  not in this slice, so the model adds each file once.
* **Segment contents.** LibraryMap records where segments are mapped and with
  which protection. The bytes copied (`p_filesz` at the misalignment) and
  the hel calls are left out.
* **clock.cpp, device.hpp, async-run.hpp.** These hold a single await, a
  declaration-only registry, and a one-shot async helper. None has a state
  machine to check.
* **cpu.cpp and the kernel test runner.** These are register setup and a
  test loop with no state to interleave.
* **Lewis lowering and ELF emission** (fafnir.cpp 138-163). These hand the
  compiled function to the lewis library, which is not in this repository.

## 8. Plan

1. **Irq.** Done: the safety refinement to `IrqDelivery`. Next: model
   dishonest drivers (acks of arbitrary sequences) as a separate run, and a
   liveness form of `IrqDelivery`.
2. **Epoll.** Done. A fixed `waitForEvent` (requeueing the rest of the stolen
   list) could be checked as a variant once the code has one.
3. **LoadSession.tla.** An abstract load session (objects become linked,
   then initialized in a dependency order, or the session dies). `Loader`
   would be checked against it through INSTANCE ... WITH.
4. **ElfHash.** Done: the lookup with the code's hash, against tables built
   with the gABI hash. Next: a passing run over ASCII names.
5. **Tcb.** Done, as a violation. A fixed `buildInitialTls` (rounding
   `initialSize` to the largest alignment) would make `TcbAligned` a
   passing property.
6. **epoll control operations.** `deleteItem` and `modifyItem` only log, and
   adding a file twice fails an assertion. Each would be a violation run
   with a client-side record of the epoll set.
7. **Fafnir.** Done. Longer programs would need a cheaper input set than all
   prefixes of all encodings.
