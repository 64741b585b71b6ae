# Verification of the NTT accelerator SoC

This directory keeps TLA+ models, model-checking configurations and machine-checked
proofs for the system in `src/`: a RISC-V SoC (Chromite) with a memory-mapped
accelerator for the Number Theoretic Transform (NTT) of Kyber, the buses that connect
its parts, the devices and drivers around it, the library with which the simulator reads
programs, and the Kyber arithmetic on both sides of the accelerator's driver.

Paths below are relative to `src/chromite_with_speedup_nodma/chromite/` unless they
start with `src/`. `PROJECT.json` holds the same information in machine-readable form:
the components, the runs, the source lines of every definition, the hazards and the
mutations each property is known to detect.

## 1. The system

```
  Kyber (benchmarks/kyber/ref)            flash drivers (devices/qspi/driver)
    | poly_ntt calls ntt_kyber_hw_drive     | register accesses
  driver (ntt_kyber_hw.c, ntt_test.c)       |
    | AXI4 bursts                           |
  crossbar (fabrics/axi4/axi4_fabric.bsv)   all masters to all slaves, concurrent rules
    |                 |                |
  NTTAXI4 (not in     memory           bridge (fabrics/bridges/axi2apb.bsv)
  the tree)           (devices/elfmem)      | APB accesses
    |                 | ELFIO          controllers: QSPI, interrupts (devices/)
  core (ntt.v)        program file          | flash
```

### Inventory

| Component | State it keeps | Operations | Hard behaviour | What makes it correct |
|---|---|---|---|---|
| AXI4 crossbar, `fabrics/axi4/axi4_fabric.bsv` (`mkaxi4_fabric`, `mkaxi4_fabric_2`) | route FIFOs per master and per slave on R, W and B; a select register per slave and direction | capture of contention, arbiter, address forwarding, write-data forwarding, response forwarding | every pair (master, slave) has its own rules and all run at once; responses are matched by FIFO position, never by id; four FIFOs fill at different speeds | answers in order, to the right master, with the right number of beats; data follows its address; no circular wait; nobody starves |
| Transactors, `fabrics/axi4/axi4_types.bsv` | two to five FIFOs each | handshakes, burst address, error slave | back-pressure on both sides | FIFO order; beat count |
| AXI4-to-APB bridge, `fabrics/bridges/axi2apb.bsv` | state, request, beat and child counters of 8 bits for requests and for responses, accumulated data, mask and error | split of a burst into beats and of a beat into APB accesses, collection of the answers | requests run ahead of answers on counters of their own; 256 beats; lanes; errors inside a beat; reads go before writes | each beat has its own words, each word goes to its own address, an error is reported, every burst is answered |
| Interrupt controller, `devices/plic/plic.bsv`, gateway `gateway.v` | pending, busy and complete of a source; enables, threshold and the source in service of a target; latches | gateway, claim, complete, priorities, enables, thresholds | claims of several targets, new requests and reprogramming in any order; a pending bit with two writers | one server for an interrupt, none lost, none serviced twice, no target stuck |
| Accelerator drivers, `benchmarks/kyber/ref/ntt_kyber_hw.c`, `benchmarks/ntt/ntt_test.c` | the caller's polynomial, call statistics | reset of the handshake, load, start, poll, store, account | the accelerator runs in parallel; a poll limit races a late `DONE`; registers of an earlier call stay readable | a call returns its own transform; it returns at all; the statistics agree with each other |
| NTT core, `benchmarks/kyber/ntt.v` | five FSM states, three nested counters, memory, output register | idle/start, load, butterfly, scale, store, reset | boundaries of nested counters, word widths, one-cycle `done` | the output is the transform; inverse undoes forward; output is stable between `done` pulses; it always ends |
| QSPI controller, `devices/qspi/qspi.bsv` | busy, phase, transfer-complete flag, command, length, FIFO of 16 bytes | register accesses, command start and end, abort | unguarded FIFO; a flag left set stops the next command | a command begins when it is written and ends |
| Flash drivers, `devices/qspi/driver` (Micron, ISSI, Cypress, DMA) | `fail_bit`, the step of a call | identification, status read, write enable, erase, program, reads, XIP | waits give up while the controller and the flash go on; a status byte may be an old one | success and failure can be believed; calls return |
| ELFIO, `elfio/elfio` | sections, segments, header; string, symbol, relocation, dynamic, note, version, array and module tables | add, save with layout, load, validate; arrange symbols; accessors | shared segments, addresses against offsets, what `load` must guess, hash tables and accessors that become stale | the file overlaps nothing and maps as asked; `load` undoes `save`; relocations keep their symbols |
| Simulator memory, `devices/elfmem/elfmem.cpp` | memory, console | `load_elf`, `write_f` | which bytes of which segment end up where | memory is the image of the program |
| Kyber reductions and compression, `benchmarks/kyber/ref/reduce.c`, `fqmul`, `poly_compress`, `polyvec_compress` | none | Montgomery, Barrett, packing of bursts, rounding | `int16_t` and `uint32_t` wraps that are meant to cancel | congruence and range for every argument |
| Kyber decryption, `ntt.c`, `poly.c`, `polyvec.c`, `indcpa.c` | polynomials of 256 `int16_t` | transform, multiply-accumulate, inverse, decode | additions are not reduced for seven passes; the order of the `zetas`; Montgomery factors that must cancel | no wrap; v - s.b in the ring; each message bit is rounded right |
| Kyber key generation, sampling, hashing, KEM | none beyond buffers | pack, rejection sampling, Keccak | loop of unbounded length | not modelled |
| Other fabrics, devices, caches, debug module, FPU, start-up code, synthesis scripts | various | various | see section 6 | not modelled |

How they interact: Kyber calls the driver as a function. The driver and the accelerator
share the registers and run concurrently, and so do the flash drivers, the controller
and the flash. The processor, the accelerator and the bridge are joined by the crossbar,
whose ports are FIFOs with a handshake at each end. The simulator's memory is filled
through ELFIO before the processor starts. `NTTAXI4.bsv`, `NTTWrapper.bsv` and
`Soc.bsv` are named in `src/README.md` but are not in the repository; the accelerator's
registers are therefore modelled from what the drivers do with them and from the state
list of `src/README.md`, and marked external, as is the flash.

The hazards behind the properties are listed, each at its line, under `hazards` in
`PROJECT.json`. A note marks those where the code does go wrong and a property has to
excuse the case, or none covers it; section 4 describes these.

## 2. Modules

| Module | Models | Extends / instantiates |
|---|---|---|
| `RrArbiter` | `fn_rr_arbiter` and the rotation of the select registers | |
| `RoutePair` | the two route FIFOs of one channel: room, enqueue, guard, dequeue | `RrArbiter` |
| `InOrderPorts` | **abstract**: what the crossbar promises each master | |
| `Axi4FabricRd` | the read half: AR and R rules, with masters and slaves around them | `RoutePair`, refines `InOrderPorts` |
| `Axi4FabricWr` | the write half: AW, W and B rules | `RoutePair`, refines `InOrderPorts` |
| `Axi2Apb` | the bridge, between an AXI master and the APB devices | |
| `Plic` | the interrupt controller and its gateways, a clock cycle in each step | |
| `NttDriver` | both drivers, their statistics, and the accelerator's registers | |
| `NttCore` | the clocked core, with its word widths | |
| `QspiCtrl`, `QspiDriver` | the QSPI controller with the flash; the four drivers on it | `QspiDriver` extends `QspiCtrl` |
| `ElfLayout` | building, `save` with its layout, `load`, `validate` | |
| `ElfMem` | `load_elf` and the writes of the core | `ElfLayout` |
| `ElfSymbols` | a symbol table with its relocations and hash tables | |
| `ElfAccessors` | several accessors on one dynamic, note, version, array or module section | |
| `KyberReduce` | the reductions, conversions and compressions, on bounded integers | |
| `KyberDec` | `indcpa_dec` with all 256 coefficients | `KyberReduce` |
| `RoutePairProofs` | lemmas on a pair of route FIFOs and on streams through chains of FIFOs | `RoutePair` |
| `Axi4FabricWrProofs` | proofs about the write half | `Axi4FabricWr`, `RoutePairProofs` |
| `MCAxi4FabricProofs` | proofs about the read half; the theorems of both carried to the composition | `MCAxi4Fabric`, `RoutePairProofs`, `Axi4FabricWrProofs` |
| `MCDevicesProofs` | proofs about the accelerator's drivers and about the bridge | `MCDevices` |
| `MCHardwareProofs`, `QspiProofs`, `KyberProofs`, `ElfTablesProofs` | proofs | `MCHardware`, `QspiDriver`, `KyberDec`, `ElfSymbols` with `ElfAccessors` |
| `MCAxi4FabricRd`, `MCAxi4Fabric` | the crossbar for TLC: reads of three masters; both halves | the halves |
| `MCDevices` | the accelerator drivers and the bridge | `NttDriver`, `Axi2Apb` |
| `MCHardware`, `MCNttCore` | the core and the interrupt controller; the core alone | `NttCore`, `Plic` |
| `MCElf`, `MCElfTables`, `MCQspi`, `MCKyber` | instances for TLC | the modules of their name |

Three of the MC modules put two components that share no state beside each other: the
variable `part` chooses which one a behaviour is of, and the other stays in its initial
state. It is the same as checking them apart; in a behaviour of one
part the actions of the other's fairness are disabled, or named with its `part`.

### Crossbar

A rule of Bluespec is a guarded atomic action, so each rule is an action under its own
name. Rules that share a method of the same FIFO conflict, and the compiler gives the
cycle to the first one; `rl_rd_xaction_master_to_slave` therefore needs that no lower
master can send to the same slave (`CanSend`). The contention matrix and the grants are
wires recomputed each cycle: they are operators of the state (`wr_master_rd_reqs`,
`wr_rd_grant`), with the default value the wires keep when the arbiter does not run.
An address is the slave it decodes to. A request carries its issuer (an id), and the
beats carry the request they belong to, so a property can see whose data it is; the
fabric itself never looks at them, as in the code.
`Variant` chooses `mkaxi4_fabric` or `mkaxi4_fabric_2`, which differ in the guards of
the arbiters.

The environment: a master keeps at most `MaxOut` transactions open, is ready for
answers while it waits for one, and sends write data in the order of the addresses and
not before them. A slave answers in the order it accepted. These are the assumptions
under which routing by position can work; the code does not check them.

### Bridge

The rules of `axi2apb.bsv` are the actions, with their guards, the conflicts between
them (a read is accepted before a write) and the two transactors' queues as implicit
conditions. Addresses and sizes count APB words; `Ratio` of them make an AXI beat.
A beat wider than an APB word is sent as `rg_child_burst` accesses, and the answers are
shifted together by mask. A word that is read is known by its address and one that is
written by its beat and lane, so `BeatsAreRead` and `WordsAreWritten` compare what
arrives with what the burst means, and `fn_axi4burst_addr` is checked with it.
The code's counters are bytes (`% 256`).

### Interrupt controller

A step of `Plic` is a clock cycle: at most one bus access, and in every cycle
`sb_frm_gateway` writes pending from the gateways unless the source is busy, and the
latch of `gateway.v` is set by its line and cleared by completion. `served` is a ghost:
the request in the latch has been claimed. Two facts are not decided by the source that
is in the tree, and are assumptions:

* In the cycle of a claim two methods write the pending bit (a `ConfigReg`, so the
  compiler does not order them by its schedule): the claim, and the gateway. The model takes the claim to be the
  later. The opposite order makes the bit stay set, a second target claims the source
  that is being serviced, and `OneServer` fails; this is the mutant of that property.
* Which gateway is connected is left to the system that instantiates both. The model has
  the one with the port for `sb_to_gateway`, `gateway.v`, with level-sensitive inputs.
  The one in `gateway.bsv` is a FIFO that clears a cycle later, after which the old
  request would be pending once more.

### Accelerator drivers

`ntt_kyber_hw_drive` and `hw_ntt_fwd_detailed` differ in two places, so one module
covers both: the constant `Handshakes` says which of them exist and the variable
`handshake` which one is called. With the handshake the call first writes `CTRL = 0`,
waits (bounded) until the accelerator is idle, and later polls without limit; without
it, it goes straight to the load and polls at most `MaxPolls` times. A register access
is one step. A vector is named by the call it belongs to and a transform by the vector
it was computed from, so mixing words of two calls, or the result of an earlier call, is
visible. The cycles of a call are counted in reads of `CTRL`. `Prompt` is the assumption
that the accelerator is done before the limit; it is about the hardware, not about the
code. `WaitedIsOwn` states what a call can rely on: if it waited until `DONE`, and the
accelerator took its START, its result is its own.

### Core

`NttCore` is one clock edge in each action; `Trunc` cuts every value to the width of
its register or wire. The inputs are `start`, `inverse`, `data_in` and `rst_n`, which
may come at any time. `given` and `orig` are ghosts that remember the vectors of the
current and the last forward run.

### QSPI

`QspiCtrl` keeps of the controller what its registers show in indirect mode: a command
is begun by the access that completes it (CCR, AR or DR), is stopped by a transfer-complete
flag that is still set (`rl_reset_busy_signal`, after which it is wedged), and ends by
itself. The shifting phases are one step. The FIFO is unguarded in the code; once it
is over- or underrun its contents are undefined and the behaviour ends (`broken`).
A driver function is the sequence of its register accesses, waits and tests, put into
`todo`; a wait ends because the flag is seen or because it gives up, at any moment,
since the poll limits say nothing of the speed of the flash. The tables of functions
are those of `qspi_micron.c`, `qspi_issi.c`, `qspi_cypress.h` and `qspi_dma.c`. A
read of `*dr` takes up to four bytes from the FIFO wherever it stands, also as an
argument of the `printf` after a write of the volatile register.

### ELFIO and the simulator's memory

The library is sequential: a call is a step. `ElfLayout` has `save` as the code has it,
with the order of segments, the start of each, the position of every section in it, the
sections without segment, the section table, and the stream written piece by piece.
`load` reads the tables back and finds by address or offset which sections a segment
has. Bytes are cells that say of what they are the k-th, so an overlap in the file, or a
byte that is not where the loader looks, is seen without modelling contents.

The client is disciplined, and the model says how: `Suits` and `RunOf` (a section is
added to a segment whose addresses can hold it; two segments share sections only as a
run of one in the other), `TBssLast` (thread-local sections without bits last),
`Meant` (entries have values of their type), `Runnable` (the segments of a program to
execute do not overlap in memory). Where the code does something else without the
discipline, section 4 says what.

`ElfMem` loads the file into the memory and lets the core write; `Image` relates memory
to the sections of the program. `ElfSymbols` swaps two symbols in a step, as
`arrange_local_symbols` does, with the relocations rewritten by its callback.
`ElfAccessors` has any number of accessors on one section, each with what it remembers;
its discipline is `Fits`: an entry or an address that is added has a value that its class
can hold.

### Arithmetic

`KyberReduce` gives the C functions on integers with an explicit `I16` at every place
where C converts to `int16_t`. `>>` of a negative value rounds down, as `\div` does. `compress`
has the multiplications by which the code divides, modulo 2^32 or 2^64.
`KyberDec` runs decryption with the real parameters, one pass of an outer loop in each
step. The polynomials go through `poly_ntt` of `benchmarks/kyber_sw/ref` (software) or
of `benchmarks/kyber/ref` (accelerator), chosen in `Init`. For the accelerator the
model takes what `src/README.md` says it computes, Kyber's transform reduced modulo q;
the core that is in the tree computes another transform (finding 4).

## 3. Model checking

Each run takes at most two and a half minutes with two workers.

| Run | Instance | Properties | States | Shows |
|---|---|---|---|---|
| `fabric` | 2 masters, 2 slaves, FIFOs of 1, route FIFOs of 2, 2 open transactions each; bursts of 1 and 2 beats (writes: 2) | `TypeOK`, `RoutesMeet`, `WrRoutesMeet`, `DataFollowsAddress`, `TurnComes`, `InOrderReads`, `InOrderWrites` | 167k | both halves implement `InOrderPorts`, liveness included, although W beats have no address and responses no route but their position |
| `rd_fabric_2` | 3 masters, 1 slave, `mkaxi4_fabric_2` | `NotPassedTwice` **violated** | - | finding 1 |
| `rd_mixed` | the same, `mkaxi4_fabric`, master 0 fixed priority | `NotPassedTwice` **violated** | - | finding 2 |
| `devices` | drivers: 3 words, 3 polls, log of 2, 4 calls of either driver, accelerator may hang; bridge: 4 words in a beat, 11 bursts | `TypesOK`, `WaitedIsOwn`, `TakenMeansOwn`, `StatsAgree`, `EveryCallReturns`; `BeatsAreRead`, `WordsAreWritten`, `ErrorsReach`, `BurstsAnswered` | 234k | whatever the accelerator does the bounded driver returns, statistics agree, a result that was waited for is the call's own; the bridge serves every burst but one of 256 beats |
| `drv_slow` | 2 words, 3 polls, 3 calls, accelerator slow but live | `OwnTransform` **violated** | - | finding 3 |
| `hardware` | core: 8 points modulo 17, 5-bit words; interrupt controller: 2 sources, 2 targets, 4 priorities | `TypesOK`, `OutputIsTransform`, `ResultComes`; `OneServer`, `PendingIsNew`, `NoneIsLost`, `ChosenIsTaken` | 55k | the core computes the transform and its inverse, and its output can be read between two pulses; an interrupt has one server and is not lost |
| `core_kyber` | 4 points modulo 5 | `OutputIsKyberNtt` **violated** | - | finding 4 |
| `kyber` | n = 256, q = 3329, k = 4; every `int16_t` | `NeverWraps`, `Decrypts`; `Scalars` | 2360, in rows of 256 values | both routes through decryption give v - s.b and never wrap; the scalar operations, exhaustively |
| `elf_image` | up to 4 sections of 5 kinds, 2 segments of 5 kinds, 2 linked files, 2 saves, 1 load, memory of 56 bytes | `Image`, `Intact`, `Mapped`, `LoadRestores`, `ResaveSucceeds` | 278k | files built or read are saved without overlap, map as asked, survive load and save, and are the memory of the simulator |
| `elf_tables` | 5 symbols, 2 relocations, 4 entries, 2 accessors | `SameSymbol`, `Arranges`, `LookupFinds`; `OwnerSees`, `ViewsAgree` | 97k | relocations keep their symbols; what accessors show of one section that others change |
| `qspi` | 1 call of Micron and ISSI, 2 of Cypress, 4 of DMA | `CommandsStart`, `SuccessIsReal`, `FailureHasCause`, `CallsReturn` | 438k | what can wedge the controller, when a success or a failure can be believed |
| `qspi_program` | the same without DMA | `ProgramIsWhole` **violated** | - | finding 5 |

The type invariant of a module is a property of its own or a conjunct of one: of
`TypesOK` (drivers and bridge; core and interrupt controller), `WrRoutesMeet`,
`NeverWraps`, `Intact`, `Arranges`, `ViewsAgree` and `CommandsStart`. `InOrderReads` and
`InOrderWrites` are the abstract specification with its fairness, so they say both that
answers come in order and that they come.

### Bounds and why they are enough

* Two masters and two slaves are the least with which orders can be opposite (A waits
  for X then Y, B for Y then X), which is what a circular wait or a swapped answer
  needs; the proof of section 5 has no bound. Three masters are the least with which one
  master can be passed over by a second while a third is served.
* FIFOs of depth 1 give the most back-pressure; route FIFOs of 2, smaller than the sum
  of the FIFOs around them plus the open transactions, fill up, so the room guards are
  exercised. The code has FIFOs of 2, and route FIFOs of 2 (write data) and 8 (responses).
  The write half has bursts of two beats only: one beat less is a prefix of what they do.
* The bridge has bursts of each kind (fixed, incrementing, wrapping), of one, two and
  three beats, with beats of one, two and four words of a bus of four, and one of 256
  beats; a read and a write are outstanding together; any one access of a burst may fail
  (`MaxErrors`, of which the theorems of section 5 assume nothing).
* Three words in a polynomial are enough for a loop that stops early or a mixture of two
  results; four calls of either driver let a call that gave up be followed by one that
  finds its leftovers and by others after that. The log of 2 is passed by the third call.
* The core needs three stages so that there is a first, a middle and a last one, and 8
  points for the nested counters to take all shapes. It is linear, so three unit vectors
  and a vector of extreme words (not reduced modulo q) are the inputs, plus the core's
  own output for the round trip; `TransformComputed` has all sizes and vectors. `Reset`
  may strike in every state.
* Interrupts: two sources and two targets are needed for one interrupt to be taken twice
  and for a choice to change between request and claim. Source 2 may get a priority above,
  equal to or at first below that of source 1; enables are none or both; thresholds are
  the reset value, which masks everything, or 1. Lines do what they like in every cycle.
* `kyber` has no bound on the first argument; the second factor of the Montgomery
  product is taken from the residues and constants at the ends of their ranges, and
  section 5 has all values. Decryption uses the real sizes. The coefficients of the
  secrets and ciphertexts are the extreme ones (they make the lazy sums largest) and a
  dense vector. `NeverWraps` is proved for all secrets and ciphertexts; `Decrypts`
  remains an evaluation of these inputs.
* ELF: headers of 4 cells and table entries of 2 keep the file short without a change to
  how alignments and gaps work. The kinds follow `elfio/examples`: code, data with an
  address of its own, `.bss`, `.tbss`, a note; two LOAD segments, of which one has a
  physical address of its own, and a TLS, PHDR and NOTE segment. The files that are read
  have their code right behind the headers, with and without room for another header.
* Tables: two of the names collide in a bucket, two in a hash; the relocation types are
  1 and 257, which agree in a byte.
* QSPI: two calls are the least with which a call can meet the leftovers of another;
  the Cypress driver, the only one that looks at errors of the flash, and the DMA example
  have them. One call of Micron and ISSI, with the longest functions, is enough for
  `CallsReturn`; the other properties are proved for any number of calls of each driver.

### Fairness

* Crossbar and bridge: in every clock cycle the hardware fires each rule whose
  conditions hold, one of those that conflict. So the rules for one slave together
  (`SendTo`), each response rule and each rule of the bridge are weakly fair. Slaves
  serve, APB devices answer, and masters accept and finish what they began; a master
  need not issue.
* Interrupt controller: a hart claims while it is interrupted and completes what it has
  claimed, and the bus lets each of them; nothing is assumed of devices or of reprogramming.
* Drivers: the processor executes its program (`WF` on the driver once it is called).
  The accelerator is fair only for the driver with the unbounded wait, which depends on
  it, and in `drv_slow`.
* QSPI: the driver, the controller and the flash each go on.
* ELFIO: a call that has begun to arrange symbols goes on. The rest is sequential.
* Core: the clock ticks.

Deadlock is checked in `fabric`, `hardware` and the runs on the crossbar and core alone.
The others really stop: calls are bounded in `NttDriver`, `QspiDriver`, `ElfLayout` and
the tables, the bridge is stuck after 256 beats, the controller's behaviour is undefined
once `broken`, and decryption and the sweep of values end.

## 4. Findings

1. `mkaxi4_fabric_2` guards its arbiters with the opposite condition of `mkaxi4_fabric`
   (`fabrics/axi4/axi4_fabric.bsv:451` against `:183`): with `fixed_priority_rd = 0` the
   arbiter never runs, the grants keep their default and the lowest master always wins.
   The comment at `:450` promises round robin. Shown by `rd_fabric_2`.
2. A service of a fixed-priority master rotates the select register as well
   (`:296-301`), so the round robin among the others restarts after each: a master can
   be passed over again and again, against
   `fabrics/docs/source/axi4_crossbar.rst:82-86`. Shown by `rd_mixed`.
3. After 2000000 polls `ntt_kyber_hw_drive` goes on as if `DONE` had been seen and
   overwrites the polynomial with the result of an earlier call; it returns nothing, so
   the caller cannot know (`benchmarks/kyber/ref/ntt_kyber_hw.c:226-240`). Shown by
   `drv_slow`. What survives the limit is `TakenMeansOwn` (proved).
4. `src/README.md:87` describes the core as a 7-stage negacyclic transform. The
   `ntt_iterative_optimized` that is in the tree, `benchmarks/kyber/ntt.v`, has eight
   stages and computes the cyclic transform of length 256 with bit-reversed output: the
   version that `src/README.md:30` says was replaced. Shown by `core_kyber`.
5. The controller moves `DLR + 1` bytes and the drivers set `DLR` to the number of bytes
   (`devices/qspi/qspi.bsv:767`, `devices/qspi/driver/qspi_cypress.h:131`). A page program
   of 16 bytes waits for a seventeenth that the FIFO cannot hold, the wait gives up
   unnoticed, and the program starts only with the next status read, which makes it one of
   five bytes. Against `qspi_cypress.h:122`. Shown by `qspi_program`.

### Deviations the models have and no run is about

These are modelled as the code has them; the properties name the condition under which
they hold, or the client discipline keeps away from them.

Bridge:

* a burst of 256 beats starts the 8-bit counters at zero and is never answered
  (`BurstsAnswered` says that it is the only one);
* the error of a read access that is not the last of its beat is lost (`ErrorsReach`
  says that a beat has exactly the error of its last access);
* later beats of a narrow write take word and strobe from lane 0, and beats of several
  words, narrower than the bus, are only right when they start at lane 0;
* wrap blocks above 128 bytes overflow the shift of a `Bit#(3)`; writes starve under
  reads that keep coming.

Interrupt controller:

* the pending word is addressed by `addr[11:0]` instead of `addr[11:2]` (`plic.bsv:180`);
* a target may have one claim outstanding: a nested claim is an error; a completion
  ignores the id that is written; targets above 31 are aliased by the enables.

QSPI:

* status reads with `DLR = 4` leave a byte in the FIFO each, so that a later poll tests
  an old byte; reads of 16 bytes overflow the FIFO;
* a command that ends after its wait gave up leaves the flag set, which wedges the
  controller at the next one; a CCR write while busy is dropped;
* `flashWriteVolatileConfigReg` (Micron, ISSI) does not wait for the flash to end the
  write it began; an erase or program called meanwhile is ignored by the flash, its status
  reads see the end of the earlier job, and it returns 0 (`SuccessIsReal` excludes it by
  `jobAt`; it takes three calls: identification, configuration, erase);
* the Cypress identification returns before it resets the flags when the id differs;
* `fail_bit` stays set for the next wait; Micron and ISSI test the programming error with
  the mask 0; results of the waits in program, erase and XIP are not looked at; a write
  of the volatile register sends what is left in the FIFO first;
* `flashIdentificationDevice` of ISSI has no return statement.

ELFIO:

* a `.tbss` before other sections of a LOAD segment: its gap moves the file position and
  is not counted in the sizes, so later sections are mapped wrongly (with
  `TBssLast = FALSE` TLC finds `Mapped` violated);
* a section without bits that has an address of its own is not positioned by it; an
  address below its segment's wraps;
* a failed save has emptied the file and assigned part of the addresses; a refused load
  leaves an object without header, to which nothing can be added; a file with a segment
  at offset 0 cannot be saved when its headers outgrow the room before its first section;
* two segments with the same sections are laid out in the order in which they were added;
* `validate` masks types with `SHT_NOBITS` and so skips `REL` and `DYNSYM` too;
* `load_elf` tests where a segment starts and how long it is, not where it ends, and
  copies segments of every type (in the run every LOAD segment fits, so the test never
  fails there);
* with an address translator appended sections keep a stream size, so
  `get_symbols_num` stays 0 (`elfio_symbols.hpp:46`);
* relocation types pass through an `unsigned char`, `add_entry` with an addend stores a
  Rela entry whatever the section is, and a 32-bit symbol index has 24 bits;
* hash tables are stale after arranging or adding; the search behind them hides it;
* a dynamic accessor counts once (`elfio_dynamic.hpp:41`), and in a 32-bit file of the
  other byte order it stores zeros; entries after the first DT_NULL cannot be seen;
  versions are never converted; `get_note` compares an index with a size in bytes;
  a note without descriptor but with its size shifts what follows.

## 5. Proofs

TLAPS checks these for every value of the constants that satisfies the named
assumptions in the modules.

| Module | Theorem | What it says |
|---|---|---|
| `MCAxi4FabricProofs` | `TypeCorrect` | `Spec => []TypeOK` for the read half: contents and depths of all FIFOs |
| | `NoCircularWait` | `Spec => []RoutesMeet`: while a read is outstanding, a master and a slave have each other at the head of their route FIFOs |
| | `RoundRobinTurns` | in `mkaxi4_fabric`, each service of a slave brings every other waiting master strictly closer to its turn |
| | `ReadsInOrder` | `Spec => Port!Safe`: the read half implements the safety part of `InOrderPorts` |
| `Axi4FabricWrProofs` | `TypeCorrect`, `NoCircularWait` | the same of the write half, of its data routes and its response routes |
| | `DataIsAddressed` | every beat of data reaches the slave of its address |
| | `WritesInOrder` | the write half implements the safety part of `InOrderPorts` |
| `MCAxi4FabricProofs` | `ReadHalf` | types, `RoutesMeet` and `Port!Safe` of the read half in the system of both halves |
| | `WritesMeet`, `WriteDataPaired`, `WritesArePort` | the theorems of the write half in that system, as the properties `WrRoutesMeet` and `DataFollowsAddress` of the runs state them |
| `MCDevicesProofs` | `TypeCorrect` | types of both drivers and of the statistics |
| | `RoundTripIsOwn` | `Spec => []WaitedIsOwn`: with a prompt accelerator, or with the handshake and unbounded wait of `ntt_test.c`, every call returns its own transform |
| | `DoneIsOwn` | in every case, a call whose START was taken and that saw DONE reads its own transform (`TakenMeansOwn`) |
| | `StatisticsAgree` | count, total, extremes and log are those of the calls since the last reset (`StatsAgree`) |
| | `DevicesTypeCorrect` | `TypesOK`: the 8-bit counters and the child counters of the bridge stay in range, its queues within their size, and the types of the drivers |
| | `WritesAreAddressed` | `WordsAreWritten`: each APB write is at the address of its beat and word, with the master's word and strobe where the property claims that of the code |
| | `ReadsAreGathered` | `BeatsAreRead`: as many R beats as the burst has, the last one marked, each with the words of its own addresses |
| | `ErrorsAreKept` | `ErrorsReach`: a write has the errors of all its accesses, a read beat exactly that of its last |
| `MCHardwareProofs` | `TypeCorrect` | types of latches, pending bits, claims and latched choices |
| | `ServedByOne` | `OneServer`: no two targets service one source |
| | `PendingUnclaimed` | `PendingIsNew`: a source that is serviced is not pending |
| | `KeptUntilClaimed` | `NoneIsLost`: a request leaves its gateway only after a claim (an action property) |
| | `HardwareTypes` | `TypesOK`: the core's nested counters are always those of a butterfly on two words and a twiddle factor inside the arrays; with all registers of core and interrupt controller |
| | `ResultStays` | `done` lasts one cycle, and `data_out` keeps the result until the next or a reset (the action property in `ResultComes`) |
| | `OutputReduced` | residues come out as residues, forward or inverse |
| | `TransformComputed` | `OutputIsTransform`: `done` comes with the transform of the sampled vector, forwards and inverse, and the inverse core undoes the forward core |
| `QspiProofs` | `EveryCommandStarts` | `CommandsStart`: types of the controller, and only a wait that gave up too early or a Cypress identification that returned early can wedge it |
| | `FailuresHaveCauses` | `FailureHasCause`: an erase, program or configuration does not fail without one of four causes |
| | `SuccessesAreReal` | `SuccessIsReal`: an erase or configuration that returns 0 was done, if its waits saw their commands end; on a wedged controller none returns 0 |
| `KyberProofs` | `BarrettCorrect` | `barrett_reduce` is congruent and centred for every `int16_t` |
| | `MontgomeryCorrect` | `montgomery_reduce` is congruent to a/2^16 and in the open interval of q for every admitted `a` |
| | `MessageRounds` | `poly_tomsg` rounds right for every centred coefficient |
| | `NoOverflow` | `NeverWraps`: in `indcpa_dec` no `int16_t` wraps, for every secret, every ciphertext, k of 2 to 4, on both routes |
| `ElfTablesProofs` | `RelocationsFollow` | `SameSymbol`: every relocation names the symbol it was added for |
| | `LocalsAreFirst` | after an arrangement the local symbols are first, `sh_info` is their number and none is lost (the invariant part of `Arranges`) |
| | `LookupsAgree` | `LookupFinds`: a name or value is found exactly if the table has it, whatever has become of the hash tables |
| | `AccessorsOwnerSees` | `OwnerSees`: an accessor behind which nobody else has written shows every entry with the values it was given |
| | `AccessorsAgree` | `ViewsAgree`: an outdated accessor shows entries of the section in their order, and goes on showing them (an invariant and an action property) |

The assumptions are the `ASSUME`s of the modules: `FabricAssumption` (depths
are positive, bursts have a natural length), `WriteConstants` (the same for writes, an
operator because the module is instantiated), `BridgeAssumption` (the bus has 1, 2, 4 or 8
words; bursts are aligned and of any length up to 256 beats, those that wrap of 2, 4, 8 or
16 beats and, as the mask of `fn_axi4burst_addr` requires, of at most 32 words), `PlicAssumption` (positive numbers of
sources and targets, priorities and thresholds up to a maximum), `CoreAssumption` (the core has
2^`LOGN` points, `LOGN` positive; the modulus fits the width of a word; `ROOT` to the half of
the number of points is -1; `mod_inverse` returned the inverse of the number of points. The
parameters of `ntt.v` satisfy it: 17^128 is -1 and 256 * 3316 is 1 modulo 3329),
`DriverAssumption` (sizes),
`QspiAssumption` (a bound of calls for each driver), `DecAssumption` (k is 2, 3 or 4; secrets within -3 .. 3, ciphertexts of compressed
fractions of up to 11 bits), `SymbolsAssumption` (moduli positive,
`MaxSymbols` within the width of an index, initial tables well formed) and
`AccessorsAssumption` (a byte has at least two values, an address of class 64 at least the
bytes of one of class 32; entries of files and clients have the types of their kind, and a
client that adds an attribute gives it a value). TLC evaluates each on the runs.

**No circular wait.** `RoutesMeet` is not inductive: that some pair of heads meets now
says nothing of the entries behind them. The strengthening is that all the FIFOs of a
channel are projections of one order of transactions (`OneOrder` in `RoutePair`): there
are dates such that each FIFO is sorted by them and each entry of a master's FIFO has a
twin of the same date in the FIFO of the slave it names, and the other way round. An
address rule appends both twins with a new date; a response rule removes two heads that
name each other, which are twins because both are the oldest of their kind. In an
outstanding channel the entry with the oldest date of all is at the head of both its
FIFOs, so its guard is true. The lemmas are on `RoutePair` alone (`RouteEnqOK`,
`RouteDeqOK`, `OneOrderHeadsMeet`); the read half uses them once, the write half twice.

**In-order ports.** An AXI beat carries nothing the fabric looks at, so whose it is
follows from positions alone. The dates become labels: a labelling gives each pair of
twins the request that made them (`LabelEnq`, `LabelDeq`), and what is on its way in
the other FIFOs is a stream whose order is that of the labels. In reads the stream is
the beats from slave to master (`Travelling`): those of the burst at the head of a route
first, from the beat that is due, without a gap. In writes there are three: the
addresses and the data towards a slave (`Addressed`, `Bursts`), and its responses
(`Responses`). `StreamPut`, `StreamGet`, `FlowPut` and `FlowGet` say what a put, a move
from FIFO to FIFO, and a get do to a stream; each rule of the crossbar is one of these.
`Port!Safe` is then a step simulation under this invariant: accepting a request is
`Request`, delivering a beat or a response is `Deliver`, everything else stutters. The
composition `MCAxi4Fabric` is a behaviour of the write half seen through its variables
(`WriteHalf`).

**Drivers.** `TakenMeansOwn` holds at one label of the program; inductive is what leads
there: the words loaded so far are this call's (`Filled`), after START was taken the
core works on and publishes them (`Owned`), and, when no wait is cut short, each phase
finds the accelerator where the handshake leaves it (`Shaken`). For the statistics the
invariant relates each register to the log of calls kept by the model (`Counting`,
`LogAgrees`, `Extremes`, `Totals`). The total is a sum over a set of calls, which the
community modules define by choosing an order; `SumExists`, `SumIs` and `SumOneMore`
show that the order does not matter, by taking a least counterexample
(`SetInduction`), since the library's induction theorems cannot be instantiated here.

**Bridge.** Three parties count at once: the rules that ask for accesses
(`rg_req_beat`, `rg_child_req_count`), the rules that take answers (`rg_resp_beat`,
`rg_child_res_count`), and the two queues between them. None of the properties is
inductive, since each compares what arrives now with an access that was asked for
several steps ago. The invariant `BInv` makes every register a function of two numbers, the
accesses asked for and the accesses answered: `Requested` says which beat and word the
request counters stand at, `Responded` the same of the response counters, and `Queued`
that access and answer number n in the queues have the address of word n of the burst.
`ReadSide` and `WriteSide` say which beats the master has already taken or given,
`ErrSide` that `rg_accum_err` is the error of the answers so far, `Collected` and
`DataSide` that the answered words of the beat are in `rg_accum_data` on the lanes that
the mask has passed. TLC checked `BInv` on the bursts of `devices` before it was
proved. `AddrSteps` shows that `fn_axi4burst_addr`, applied n times, gives the address AXI
defines for beat n, for fixed, incrementing and wrapping bursts. `Products` and `Numbers`
are the arithmetic of beats times words. The bursts of 256 beats, whose counters start at zero
(section 4), are not excluded: a burst of words leaves its response counter at zero
for ever, one of wider beats never asks for a second access (`Wrapped`), and what the
bridge does until then is right.

**Interrupts.** `OneServer` and `PendingIsNew` hold together or not at all: a claim is
safe because what is pending is serviced by nobody, and a pending bit is set only for a
source that is not busy. The invariant has both in `Serviced` (busy means claimed by
exactly one target) and `Lives` (where latch, pending, busy and completion can be in the
life of one request). That the controller chooses a source that is pending
(`ChosenIsPending`) needs the greatest priority of a finite set.

**Core.** The three nested loops of a stage use shifts of the stage number as bounds.
`Halves` turns them into products (points = 2 * `M` * `Groups`), from which
`InsideArrays` has every index in range, and `CoreInv` is inductive (`HardwareTypes`). Words
stay reduced because each operation of the datapath gives a residue when it is given
residues (`ReducedArithmetic`).
That the output is the transform takes an invariant between two butterflies: before a
stage each word is, modulo Q, a sum over a block of the input (`Part`), with the powers of
`ROOT` that the definition has for the bits decided so far; `Crossed` says which words of a
stage the loop has already passed, and for those the next stage's sum holds. `PartJoin` is
the butterfly: it joins two parts with a twiddle factor and its opposite, the other half
being the same with `PowHalf` (`ROOT` to the half is -1). `ReversedNext` and
`ReversedShort` relate the reversed index of a word to that of its partner. `SumIs` ends
with one block, which is the definition. For the way back `RootsAdd` shows that the powers
of `ROOT` at a multiple of an index other than 0 add up to 0, by halving the range, and
`Undone` exchanges the two sums; `ReversedOnce` says that different indices have different
reversals. `TransInv` is the invariant of a run and `OrigInv` that of the
ghost which remembers the forward run.
Sums, powers and bit reversals are recursive functions of a number. The library's
induction theorems take an operator as parameter, which the provers cannot instantiate; so
`NatInduct` and `IndexInduction` state induction for a set of numbers, from a
least counterexample, and `Recursion` that a function defined from its earlier values
exists and obeys its equation.

**Flash drivers.** The properties compare what a call returns with what controller and
flash have done since it began, and any state in between is a position in one of 45
programs. None of them is inductive, and an induction over a program is out of reach. The
invariant says instead that the rest of the program can be labelled: `Runs(R, todo, a, b)`
gives each place between two steps a label from a small set such that every step
leads from one label to another by the relation `R`. A step of the driver takes the head
and its label (`RunsTail`); the tables of functions are labelled once, piece by piece, with
`RunsConcat`, and `wait_for_wip`'s loop leads from its label back to itself. What remains
is what a label means, for every step of driver, controller and flash: `FMeans` that the
flags are reset where a command is begun (`EveryCommandStarts`), `CMeans` that the bytes
that were read are reports of the flash (`FailuresHaveCauses`), and `SMeans(k, l)` how far job
`k` has come: enabled, begun, ended, told by a status byte (`SuccessesAreReal`). The
same program can run on a wedged controller, where every wait gives up and marks the
call as failed; `WMeans` is the meaning of the labels there.

**Reductions and decryption.** Each of the wraps adds a multiple of 2^16; the range of
the quotient fixes which one. `Interval`, `I16Range`, `I16Same` and `I16Wraps` say so
once. `NoOverflow` follows the size of the coefficients through the passes: each pass of
`ntt` adds q - 1 to the bound it finds (`PassBound`), a pass of `invntt`
reduces what it adds (`InvPassBound`), the multiply-accumulate adds
2(q - 1) for each of the k summands (`BasemulBound`); seven passes, or four summands,
stay below 2^15.
`Control` says which bound holds at which pass, and `Inputs` what is still untouched.

**Symbol tables.** `SameSymbol` is about the relocations in the table and the ones the
client meant; the invariant adds that the part of the table the loop of
`arrange_local_symbols` has left behind is sorted (`Sorted`) and that no symbol is lost or
doubled by a swap (`AllThere`). A search by hash may be through a table that is older than
the symbols: what saves it is that the old table leads only to symbols that are there
(`Inside`), that a name is compared before it is returned, and that a miss falls back to
the linear search. The walk along a chain is a function defined by its own earlier
values; `WalkExists` shows that there is one.

**Accessors.** What each remembers of the section is related to the section as it is now
(`Known`): the positions it has noted, or the attributes it has copied, are those of
entries at increasing indexes (`Follows`), all of them if nobody else has written, and the
number it has counted is that of the visible entries if nothing was written since. An
entry that is appended leaves this true for whoever added it (`KnownByOwner`) and for all
the others (`KnownByOther`). `ShownFinds` then gives what every accessor shows. The
lemmas underneath are arithmetic: turning the bytes round twice gives the number back
(`SwapBack`, in any base), and notes lie at growing offsets that later notes do not move
(`OffsetsGrow`, `OffsetSame`), so the note found at a position is the one that was noted.
Digits and offsets are recursive functions, which exist by `Recursion`.

Only model-checked, and why:

* Every liveness property, and the liveness part of `InOrderPorts`: the prover has no
  `ENABLED`, so nothing follows from fairness.
* `Decrypts`: that seven passes over the table of `zetas`, pointwise products
  in pairs and seven passes back multiply in the ring is a statement about the one table of
  128 constants the code has, not about any root; the run evaluates it with the real sizes.
  Its ranges are proved (`NoOverflow`).
* `Scalars`: exhaustive in TLC (every `int16_t`), except for the second factor of the
  Montgomery product, which is proved.
* The layout of ELF files (`Image`, `Intact`, `Mapped`, `LoadRestores`,
  `ResaveSucceeds`): the order of segments is computed by a recursive operator, with
  which the prover has no arithmetic, and layout, stream and loading are folds over
  lists of sections.

## 6. Not modelled, and why

* Hashing, Keccak, byte packing of keys, and with them key generation and encryption:
  functions on bytes without state. Rejection sampling is in the plan.
* Of the bridge, beats smaller than an APB word and unaligned addresses; of the
  transactors, the error slave: accesses outside the memory map go to it, and the models
  issue only mapped ones. User and protection signals are carried along and never looked
  at.
* Of the interrupt controller, reads that change nothing; CLINT and ACLINT: bits and a
  timer without an order of accesses that matters.
* Of QSPI, automatic polling and memory-mapped mode, which no driver but XIP's entry
  uses, the shifting of bits, initialisation, and the DMA engine, whose repository part
  is a sequence of register writes.
* Of ELFIO, the version requirement sections (`elfio_versym.hpp`: a list read from the
  file, of which the caller sees an index), address translation, the text dump
  (`elfio_dump.hpp`: output), constants (`elf_types.hpp`) and the C wrapper (one call of
  the library in each function; two of them pass a wrong argument on:
  `elfio_modinfo_get_attribute_by_name` the value as the name, and
  `elfio_relocation_add_entry` always appends a Rela entry).
* AXI4-Lite and stream fabrics, the other bridges: the AXI4 ones without bursts or lanes.
* UART, SPI, GPIO, PWM, timers, caches, TLBs, debug module, floating point: subsystems
  with state of their own that are not between Kyber and the accelerator.
* `remotebitbang.c` (a socket of the simulator), `benchmarks/kyber/avx2`, `coremarks`,
  `dhrystone`: programs and third-party code beside the system.

## 7. Plan

Done: everything in section 2, and the proofs of section 5. Next, in order of what
matters to the system:

1. `Mapped` for a single segment: addresses against offsets of the sections laid out in it.
2. `rej_uniform`: progress and range; the error slave; the AXI4-Lite fabric.
