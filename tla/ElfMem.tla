------------------------------- MODULE ElfMem -------------------------------
(***************************************************************************)
(* The memory of the simulator, devices/elfmem/elfmem.cpp: load_elf() puts *)
(* the segments of the program, read through ELFIO, into a fresh memory,   *)
(* and the bus model then calls write_f and read_f with offsets from base. *)
(***************************************************************************)
EXTENDS ElfLayout

CONSTANTS
  Base, MemSize,  \* the memory's addresses are Base .. Base + MemSize - 1
  Word,           \* sizeof(unsigned long)
  PutcharAt,      \* 0x1008: a write here goes to the console
  ExitAt,         \* 0x1000: a write here that is not 0 ends the simulation
  Machines,       \* what e_machine may be, RISCV and NONE among others
  Encodings,      \* what EI_DATA may be, LSB among others
  Stores          \* the writes of the core: [addr, strb, zero]

ASSUME MemAssumption ==
  /\ Base \in Nat /\ MemSize \in Nat /\ Word \in Nat \ {0}
  /\ PutcharAt \in Nat /\ ExitAt \in Nat
  /\ \A s \in Stores : s.addr \in Nat /\ s.strb \subseteq 0 .. Word - 1 /\ s.zero \in BOOLEAN

VARIABLES
  mem,      \* the bytes of memtif, <<>> before load_elf
  touched,  \* ghost: the offsets the core has written
  console,  \* putchar calls
  exited    \* the simulation has ended: exit(0), or load_elf returned 0

memVars == <<mem, touched, console, exited>>

(* A linker gives the PT_LOAD segments memory of their own, and the bytes  *)
(* of any other segment the place they have in memory through these.       *)
Runnable(f) ==
  \A g, h \in DOMAIN f.phdr :
    LET s == f.phdr[g]  t == f.phdr[h]
    IN  g # h /\ s.paddr < t.paddr + t.memsz /\ t.paddr < s.paddr + s.memsz =>
          ~(s.type = "LOAD" /\ t.type = "LOAD") /\ s.offset - s.paddr = t.offset - t.paddr

(* The test of load_elf, which looks at where a segment starts and at how  *)
(* long it is, and not at where it ends.                                   *)
Loaded(s) == s.paddr >= Base /\ s.memsz <= MemSize

(* Mutant: a segment is put at its virtual address.                        *)
CopyToVirtual(m, f, s) ==
  [x \in DOMAIN m |->
     IF Loaded(s) /\ x \in s.vaddr - Base .. s.vaddr - Base + s.filesz - 1
       THEN f.bytes[s.offset + x - (s.vaddr - Base) + 1] ELSE m[x]]

(* memcpy of the data of segment s, read with the file: as much of it as   *)
(* the file says is there.                                                 *)
CopySegment(m, f, s) ==
  LET to == s.paddr - Base  data == SegmentData(f, s)
  IN  IF Loaded(s)
        THEN [x \in DOMAIN m |-> IF x \in to .. to + s.filesz - 1 THEN data[x - to + 1] ELSE m[x]]
        ELSE m

(* load_elf: a zeroed memory and then the segments in their order.         *)
LoadElf ==
  /\ file # NoFile /\ clean /\ mem = <<>> /\ ~exited /\ Runnable(file)
  /\ \E machine \in Machines, encoding \in Encodings :
       IF machine \in {"NONE", "RISCV"} /\ encoding = "LSB"
         THEN /\ mem' = FoldLeft(LAMBDA m, g : CopySegment(m, file, file.phdr[g]),
                                 [x \in 0 .. MemSize - 1 |-> Zero], Indices(file.phdr))
              /\ UNCHANGED exited
         ELSE exited' = TRUE /\ UNCHANGED mem
  /\ UNCHANGED <<vars, touched, console>>

(* memtif::write.                                                          *)
Strobed(m, store) ==
  [x \in DOMAIN m |-> IF store.addr + Word <= MemSize /\ x - store.addr \in store.strb
                        THEN <<"core", 0, 0>> ELSE m[x]]

(* write_f, with its two intercepts.                                       *)
WriteF ==
  /\ mem # <<>> /\ ~exited
  /\ \E store \in Stores :
       \/ /\ store.addr = PutcharAt
          /\ console' = 1 \* bound: whether there was one
          /\ UNCHANGED <<mem, touched, exited>>
       \/ /\ store.addr = ExitAt /\ ~store.zero
          /\ exited' = TRUE
          /\ UNCHANGED <<mem, touched, console>>
       \/ /\ store.addr # PutcharAt /\ ~(store.addr = ExitAt /\ ~store.zero)
          /\ mem' = Strobed(mem, store)
          /\ touched' = touched \union {store.addr + b : b \in store.strb}
          /\ UNCHANGED <<console, exited>>
  /\ UNCHANGED vars

(* The simulator is a process of its own: the file is made before it runs. *)
MemInit == Init /\ mem = <<>> /\ touched = {} /\ console = 0 /\ exited = FALSE

MemNext ==
  \/ mem = <<>> /\ ~exited /\ Next /\ UNCHANGED memVars
  \/ LoadElf
  \/ WriteF

MemSpec == MemInit /\ [][MemNext]_<<vars, memVars>>

(* Until the core writes there, every byte of every section the program    *)
(* has in a PT_LOAD segment is in memory at its physical address, and the  *)
(* memory of the sections without bits is zero.                            *)
Image ==
  mem # <<>> =>
    \A g \in DOMAIN file.phdr : \A k \in DOMAIN file.phdr[g].secs :
      LET s    == file.phdr[g]
          sec  == file.shdr[s.secs[k]]
          here == sec.addr - s.vaddr + s.paddr - Base
      IN  s.type = "LOAD" /\ Has(sec, "ALLOC") /\ ~Has(sec, "TLS") =>
            \A b \in 0 .. sec.size - 1 :
              here + b \notin touched =>
                mem[here + b] = IF HasBits(sec) THEN sec.data[b + 1] ELSE Zero
=============================================================================
