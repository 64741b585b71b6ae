-------------------------------- MODULE MCElf --------------------------------
(* A small instance of the ELFIO object.  The kinds follow the programs    *)
(* under elfio/examples: code, data with an address of its own, a section  *)
(* without bits, a thread-local one, a note that is not in memory.         *)
EXTENDS ElfMem, TLC

Code == [type |-> "PROGBITS", flags |-> {"ALLOC"}, size |-> 3, align |-> 4, addr |-> Unset]
Data == [type |-> "PROGBITS", flags |-> {"ALLOC"}, size |-> 2, align |-> 2, addr |-> 24]
Bss  == [type |-> "NOBITS", flags |-> {"ALLOC"}, size |-> 3, align |-> 8, addr |-> Unset]
TBss == [type |-> "NOBITS", flags |-> {"ALLOC", "TLS"}, size |-> 2, align |-> 4, addr |-> Unset]
Note == [type |-> "NOTE", flags |-> {}, size |-> 1, align |-> 0, addr |-> Unset]

Kinds == {Code, Data, Bss, TBss, Note}

Low   == [type |-> "LOAD", vaddr |-> 16, paddr |-> 16, align |-> 8]
High  == [type |-> "LOAD", vaddr |-> 41, paddr |-> 49, align |-> 16]
Inner == [type |-> "TLS", vaddr |-> 24, paddr |-> 24, align |-> 0]
Table == [type |-> "PHDR", vaddr |-> 20, paddr |-> 20, align |-> 4]

Notes == [type |-> "NOTE", vaddr |-> 0, paddr |-> 0, align |-> 0]

SegKinds == {Low, High, Inner, Table, Notes}

(* Files as a linker makes them: the segment starts at offset 0 and holds  *)
(* the headers.  The first has room for one more program header before the *)
(* code, the second has not.                                               *)
Linked(kind, start) ==
  LET code == [Filled([kind EXCEPT !.addr = 16 + start], 2) EXCEPT !.offset = start]
      secs == [AddNamed(Created, code) EXCEPT ![1].offset = start + kind.size, ![1].set = TRUE]
      seg  == [NewSegment(Low) EXCEPT !.set = TRUE, !.filesz = start + kind.size,
                                      !.memsz = start + kind.size, !.secs = <<0, 2>>]
  IN  [bytes |-> Stream(secs, 0 :> seg, 20), shoff |-> 20, shdr |-> secs, phdr |-> 0 :> seg]

LinkedFiles == {Linked(Code, 8), Linked(Data, 6)}

(* One write into the code, and the intercepts.                            *)
MCStores == {[addr |-> 0, strb |-> {1, 2}, zero |-> FALSE],
             [addr |-> 48, strb |-> {0}, zero |-> FALSE],
             [addr |-> 52, strb |-> {0}, zero |-> FALSE],
             [addr |-> 52, strb |-> {0}, zero |-> TRUE]}
=============================================================================
