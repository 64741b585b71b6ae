------------------------------ MODULE ElfLayout ------------------------------
(***************************************************************************)
(* The ELFIO object (elfio/elfio/elfio.hpp, elfio_section.hpp,             *)
(* elfio_segment.hpp, elfio_header.hpp): building it, save() with its      *)
(* layout algorithm, and load().  The simulator's memory is filled through *)
(* this library (devices/elfmem/elfmem.cpp, module ElfMem).                *)
(*                                                                         *)
(* The library is sequential, so each call of it is one step.  Contents    *)
(* are cells <<what, whose, k>>: byte k of the data of section `whose', of *)
(* a table entry, of the header.  The fields of a header are kept as what  *)
(* get_ returns and not byte by byte (the conversions are in ElfAccessors); *)
(* the cells of the file say whether they are still there to be read.      *)
(***************************************************************************)
EXTENDS Integers, FiniteSets, SequencesExt

CONSTANTS
  HeaderSize,    \* sizeof an ELF header; the real sizes are 52 and 64
  PhEntSize,     \* e_phentsize
  ShEntSize,     \* e_shentsize
  NameLen,       \* length of a section name
  XWord,         \* arithmetic of Elf_Xword and Elf64_Off is modulo XWord
  SectionKinds,  \* what a client may ask for: [type, flags, size, align, addr]
  SegmentKinds,  \* [type, vaddr, paddr, align]
  Files,         \* files made by other tools, as [bytes, shoff, shdr, phdr]
  TBssLast,      \* the client puts the thread-local ones last in a segment
  MaxSections,   \* bound: sections
  MaxSegments,   \* bound: segments
  MaxSaves,      \* bound: calls of save
  MaxLoads       \* bound: calls of load

Unset == -1      \* the addr of a kind whose client does not call set_address

ASSUME LayoutAssumption ==
  /\ {HeaderSize, PhEntSize, ShEntSize, NameLen, XWord} \subseteq Nat \ {0}
  /\ TBssLast \in BOOLEAN /\ MaxSections \in Nat /\ MaxSegments \in Nat /\ MaxSaves \in Nat
  /\ MaxLoads \in Nat
  /\ \A k \in SectionKinds : k.size \in Nat /\ k.align \in Nat /\ k.addr \in Nat \union {Unset}
  /\ \A k \in SegmentKinds : {k.vaddr, k.paddr, k.align} \subseteq Nat

VARIABLES
  sections_,  \* sections by index, which is also their number
  segments_,  \* segments by index
  shoff,      \* e_shoff of the header
  file,       \* the file save() wrote or load() read: [bytes, shoff, shdr, phdr],
              \* NoFile before.  What an entry of shdr says of the data and the
              \* name of a section is a ghost: load() reads both from bytes
  good,       \* what the last save or load returned
  clean,      \* ghost: the object is as the last good save or load left it
  saves,      \* calls of save so far
  loads       \* calls of load so far

obj  == <<sections_, segments_, shoff>>
vars == <<obj, file, good, clean, saves, loads>>

NoFile == [bytes |-> <<>>, shoff |-> 0, shdr |-> <<>>, phdr |-> <<>>]

Wrap(x) == x % XWord

(* Arrays that count from 0, as std::vector does.                          *)
Size(f)     == Cardinality(DOMAIN f)
Push(f, x)  == [i \in 0 .. Size(f) |-> IF i < Size(f) THEN f[i] ELSE x]
Indices(f)  == [k \in 1 .. Size(f) |-> k - 1]
Nul  == <<"nul", 0, 0>>
Zero == <<"zero", 0, 0>>
Cells(what, i, n) == [k \in 1 .. n |-> <<what, i, k>>]

Has(sec, flag)  == flag \in sec.flags
HasBits(sec)    == sec.type \notin {"NOBITS", "NULL"}

----------------------------------------------------------------------------
(* Sections and segments.                                                  *)

(* section_impl: a zeroed header.                                          *)
NewSection == [type |-> "NULL", flags |-> {}, addr |-> 0, set |-> FALSE, size |-> 0,
               align |-> 0, offset |-> 0, name |-> <<>>, name_off |-> 0, data |-> <<>>]

(* append_data of a section that has bits: its size grows with its data.   *)
AppendData(sec, bytes) == [sec EXCEPT !.data = @ \o bytes, !.size = @ + Len(bytes)]

(* string_section_accessor::add_string: the first string is empty, so that *)
(* offset 0 is a name for everything that has none.                        *)
AddString(sec, bytes) ==
  AppendData(IF sec.size = 0 THEN AppendData(sec, <<Nul>>) ELSE sec, Append(bytes, Nul))

StringPos(sec) == IF sec.size = 0 THEN 1 ELSE sec.size

(* get_string, up to the terminator; NoString when the offset is outside.  *)
NoString == <<Zero>>
GetString(sec, pos) ==
  IF pos >= sec.size THEN NoString
  ELSE LET end == CHOOSE e \in pos .. sec.size - 1 :
                    sec.data[e + 1] = Nul /\ \A x \in pos .. e - 1 : sec.data[x + 1] # Nul
       IN  SubSeq(sec.data, pos + 1, end)

(* Sections::add: the name goes to the section named by e_shstrndx, 1.     *)
AddNamed(secs, sec) ==
  LET i    == Size(secs)
      name == Cells("name", i, NameLen)
      new  == Push(secs, [sec EXCEPT !.name = name])
  IN  [new EXCEPT ![1] = AddString(@, name),
                  ![i].name_off = StringPos(new[1])]

(* create(): a null section and the table of names, which names itself.    *)
Created ==
  LET shstrtab == [NewSection EXCEPT !.type = "STRTAB", !.align = 1]
      name     == Cells("name", 1, NameLen)
      strings  == AddString(shstrtab, name)
  IN  [i \in 0 .. 1 |-> IF i = 0 THEN NewSection
                        ELSE [strings EXCEPT !.name = name, !.name_off = StringPos(shstrtab)]]

(* What a client makes of a new section i: set_type, set_flags,            *)
(* set_addr_align, set_address unless Unset, and set_data or, for NOBITS,  *)
(* set_size.                                                               *)
Filled(kind, i) ==
  [NewSection EXCEPT
     !.type = kind.type, !.flags = kind.flags, !.align = kind.align, !.size = kind.size,
     !.addr = IF kind.addr = Unset THEN 0 ELSE kind.addr, !.set = (kind.addr # Unset),
     !.data = IF kind.type = "NOBITS" THEN <<>> ELSE Cells("data", i, kind.size)]

NewSegment(kind) == [type |-> kind.type, vaddr |-> kind.vaddr, paddr |-> kind.paddr,
                     align |-> kind.align, offset |-> 0, set |-> FALSE, filesz |-> 0, memsz |-> 0, secs |-> <<>>]

----------------------------------------------------------------------------
(* The layout.  A state of it is [secs, segs, pos, gen, ok]: pos is        *)
(* current_file_pos and gen is section_generated.                          *)

(* calc_segment_alignment.                                                 *)
SegmentAlignment(secs, segs) ==
  [g \in DOMAIN segs |->
     [segs[g] EXCEPT !.align = FoldLeft(LAMBDA a, i : IF secs[i].align > a THEN secs[i].align
                                                                           ELSE a,
                                        @, segs[g].secs)]]

is_subsequence_of(s1, s2) ==
  Len(s1.secs) < Len(s2.secs) /\ ToSet(s1.secs) \subseteq ToSet(s2.secs)

(* get_ordered_segments, first loop: those at offset 0 to the front.       *)
OffsetZeroFirst(segs) ==
  FoldLeft(LAMBDA a, i :
             IF i # a.slot /\ segs[a.list[i + 1]].set /\ segs[a.list[i + 1]].offset = 0
             THEN LET slot == IF segs[a.list[a.slot + 1]].offset = 0 THEN a.slot + 1 ELSE a.slot
                  IN  [slot |-> slot + 1,
                       list |-> [a.list EXCEPT ![i + 1] = a.list[slot + 1],
                                               ![slot + 1] = a.list[i + 1]]]
             ELSE a,
           [slot |-> 0, list |-> Indices(segs)], Indices(segs)).list

(* Second loop: a segment waits while a larger one that has its sections   *)
(* is behind it in the worklist.                                           *)
OrderedSegments(segs) ==
  LET RECURSIVE Take(_, _)
      Take(work, res) ==
        IF work = <<>> THEN res
        ELSE IF \E k \in 2 .. Len(work) : is_subsequence_of(segs[work[1]], segs[work[k]])
             THEN Take(Append(Tail(work), work[1]), res)
             ELSE Take(Tail(work), Append(res, work[1]))
  IN  Take(OffsetZeroFirst(segs), <<>>)

(* Mutant: a segment starts at the next free byte, aligned or not.         *)
UnalignedStart(st, s) ==
  LET at == IF s.secs # <<>> /\ s.secs[1] \in st.gen THEN st.secs[s.secs[1]].offset ELSE st.pos
  IN  [start |-> at, pos |-> st.pos, bytes |-> 0]

(* Where segment s starts, how far that moves pos, and the bytes it has    *)
(* before its first section is looked at.                                  *)
SegmentStart(st, s) ==
  CASE s.type = "PHDR" /\ s.secs = <<>> ->
         [start |-> HeaderSize, pos |-> st.pos, bytes |-> PhEntSize * Size(st.segs)]
    [] ~(s.type = "PHDR" /\ s.secs = <<>>) /\ s.set /\ s.offset = 0 ->
         [start |-> 0, pos |-> st.pos, bytes |-> IF s.secs # <<>> THEN st.pos ELSE 0]
    [] OTHER ->
         IF s.secs = <<>> THEN [start |-> st.pos, pos |-> st.pos, bytes |-> 0]
         ELSE IF s.secs[1] \in st.gen
         THEN [start |-> st.secs[s.secs[1]].offset, pos |-> st.pos, bytes |-> 0]
         ELSE LET align == IF s.align > 0 THEN s.align ELSE 1
                  error == Wrap((s.vaddr % align) - (st.pos % align))
                  pos   == st.pos + (Wrap(s.align + error) % align)
              IN  [start |-> pos, pos |-> pos, bytes |-> 0]

(* The gap before section i of segment s.  The second case is "something   *)
(* has gone awfully wrong", which makes the whole save fail.               *)
ByAddress(st, i) ==
  i \notin st.gen /\ st.secs[i].set /\ HasBits(st.secs[i]) /\ st.secs[i].size # 0

SectionAlign(st, s, i) ==
  LET sec   == st.secs[i]
      align == IF sec.align = 0 THEN 1 ELSE sec.align
  IN  CASE ByAddress(st, i) -> Wrap(sec.addr - s.vaddr) - Wrap(st.pos - st.start)
        [] i \notin st.gen /\ ~sec.set -> (align - (st.pos % align)) % align
        [] i \in st.gen -> Wrap(sec.offset - st.start - st.filesz)
        [] OTHER -> 0

(* One section of segment s.  A thread-local NOBITS section takes no       *)
(* memory in a segment that is not PT_TLS.                                 *)
LayoutSection(st, s, i) ==
  LET sec  == st.secs[i]
      gap  == SectionAlign(st, s, i)
      mem  == Has(sec, "ALLOC")
                /\ ~(Has(sec, "TLS") /\ s.type # "TLS" /\ sec.type = "NOBITS")
      pos  == Wrap(st.pos + gap)
      size == IF sec.type = "NOBITS" THEN 0 ELSE sec.size
      sums == [st EXCEPT !.memsz  = IF mem THEN Wrap(@ + sec.size + gap) ELSE @,
                         !.filesz = IF sec.type # "NOBITS" THEN Wrap(@ + sec.size + gap) ELSE @]
      placed == [sec EXCEPT !.addr = IF sec.set THEN @ ELSE Wrap(s.vaddr + pos - st.start),
                            !.set = TRUE,
                            !.offset = IF i # 0 THEN pos ELSE @]
  IN  CASE ~st.ok -> st
        [] st.ok /\ sec.type = "NULL" -> [st EXCEPT !.gen = @ \union {i}]
        [] st.ok /\ sec.type # "NULL" /\ ByAddress(st, i) /\ gap < 0 -> [st EXCEPT !.ok = FALSE]
        [] OTHER -> IF i \in st.gen THEN sums
                    ELSE [sums EXCEPT !.secs[i] = placed, !.pos = Wrap(pos + size),
                                      !.gen = @ \union {i}]

(* One segment.  Its memory size never shrinks.                            *)
LayoutSegment(st, g) ==
  LET s     == st.segs[g]
      at    == SegmentStart(st, s)
      begun == [st EXCEPT !.pos = at.pos, !.start = at.start,
                          !.filesz = at.bytes, !.memsz = at.bytes]
      done  == FoldLeft(LAMBDA a, i : LayoutSection(a, s, i), begun, s.secs)
  IN  IF ~st.ok THEN st
      ELSE IF ~done.ok THEN done
      ELSE [done EXCEPT !.segs[g].filesz = done.filesz,
                        !.segs[g].memsz = IF @ < done.memsz THEN done.memsz ELSE @,
                        !.segs[g].offset = at.start,
                        !.segs[g].set = TRUE]

is_section_without_segment(segs, i) == \A g \in DOMAIN segs : i \notin ToSet(segs[g].secs)

(* layout_sections_without_segments: section i.                            *)
LayoutFree(st, i) ==
  LET sec == st.secs[i]
      pos == IF sec.align > 1 /\ st.pos % sec.align # 0
               THEN st.pos + sec.align - (st.pos % sec.align) ELSE st.pos
  IN  IF ~st.ok \/ ~is_section_without_segment(st.segs, i) THEN st
      ELSE [st EXCEPT !.secs[i].offset = IF i # 0 THEN pos ELSE @,
                      !.pos = Wrap(pos + (IF HasBits(sec) THEN sec.size ELSE 0))]

(* Mutant: no room is kept for the program headers.                        *)
NoRoomForHeaders(secs, segs) ==
  LET init == [secs |-> secs, segs |-> SegmentAlignment(secs, segs), gen |-> {}, ok |-> TRUE,
               pos |-> HeaderSize, start |-> 0, filesz |-> 0, memsz |-> 0]
      segd == FoldLeft(LayoutSegment, init, OrderedSegments(init.segs))
      free == FoldLeft(LayoutFree, segd, Indices(secs))
  IN  [free EXCEPT !.pos = @ + ((4 - (@ % 4)) % 4)]

(* save() up to the writing: the segments, the other sections, and the     *)
(* section table, which lies at a multiple of 4.                           *)
Layout(secs, segs) ==
  LET init == [secs |-> secs, segs |-> SegmentAlignment(secs, segs), gen |-> {}, ok |-> TRUE,
               pos |-> HeaderSize + PhEntSize * Size(segs), start |-> 0, filesz |-> 0, memsz |-> 0]
      segd == FoldLeft(LayoutSegment, init, OrderedSegments(init.segs))
      free == FoldLeft(LayoutFree, segd, Indices(secs))
  IN  [free EXCEPT !.pos = @ + ((4 - (@ % 4)) % 4)]

----------------------------------------------------------------------------
(* The stream.                                                             *)

(* adjust_stream_size and write: zeros up to offset, then the cells.       *)
Write(bytes, offset, cells) ==
  IF cells = <<>> THEN bytes
  ELSE LET len == IF offset + Len(cells) > Len(bytes) THEN offset + Len(cells) ELSE Len(bytes)
       IN  [x \in 1 .. len |-> IF x - 1 \in offset .. offset + Len(cells) - 1
                               THEN cells[x - offset]
                               ELSE IF x <= Len(bytes) THEN bytes[x] ELSE Zero]

(* The header, which save_header writes first.                             *)
Ehdr == Cells("ehdr", 0, HeaderSize)
SaveHeader(bytes) == Write(bytes, 0, Ehdr)

(* Only the entry of a segment is written: its bytes are its sections'.    *)
SaveSegment(bytes, g) == Write(bytes, HeaderSize + (PhEntSize * g), Cells("phdr", g, PhEntSize))

SaveSection(bytes, secs, table, i) ==
  Write(Write(bytes, table + ShEntSize * i, Cells("shdr", i, ShEntSize)),
        secs[i].offset,
        IF HasBits(secs[i]) /\ secs[i].size # 0 THEN secs[i].data ELSE <<>>)

(* save_header, save_sections, save_segments.                              *)
Stream(secs, segs, table) ==
  FoldLeft(SaveSegment,
           FoldLeft(LAMBDA b, i : SaveSection(b, secs, table, i), SaveHeader(<<>>), Indices(secs)),
           Indices(segs))

ReadAt(bytes, offset, n) == SubSeq(bytes, offset + 1, offset + n)

(* Mutant: the address that was read is not pinned.                        *)
LoadUnpinned(f, i) ==
  LET hdr == f.shdr[i]
  IN  [hdr EXCEPT !.set = FALSE, !.name = <<>>,
                  !.data = IF HasBits(hdr) /\ hdr.size < Len(f.bytes)
                             THEN ReadAt(f.bytes, hdr.offset, hdr.size) ELSE <<>>]

(* section_impl::load and load_sections: data is read when it fits in the  *)
(* stream, the address is pinned, the name comes from the table of names.  *)
LoadSection(f, i) ==
  LET hdr == f.shdr[i]
  IN  [hdr EXCEPT !.set = TRUE, !.name = <<>>,
                  !.data = IF HasBits(hdr) /\ hdr.size < Len(f.bytes)
                             THEN ReadAt(f.bytes, hdr.offset, hdr.size) ELSE <<>>]

LoadSections(f) ==
  LET secs == [i \in DOMAIN f.shdr |-> LoadSection(f, i)]
  IN  [i \in DOMAIN secs |->
         LET name == GetString(secs[1], secs[i].name_off)
         IN  [secs[i] EXCEPT !.name = IF name = NoString THEN @ ELSE name]]

(* Mutant: the end of a section is taken for its last byte.                *)
strictly_in_seg(sect_begin, sect_size, seg_begin, seg_end) ==
  seg_begin <= sect_begin /\ sect_begin + sect_size < seg_end

is_sect_in_seg(sect_begin, sect_size, seg_begin, seg_end) ==
  seg_begin <= sect_begin /\ sect_begin + sect_size <= seg_end /\ sect_begin < seg_end

(* load_segments: which sections a segment has is not in the file; it is   *)
(* found again, by address for SHF_ALLOC and by offset for the others.     *)
InSegment(sec, s) ==
  IF Has(sec, "ALLOC")
    THEN is_sect_in_seg(sec.addr, sec.size, s.vaddr, s.vaddr + s.memsz)
    ELSE is_sect_in_seg(sec.offset, sec.size, s.offset, s.offset + s.filesz)

(* segment_impl::load: the offset is known, and the data is read when the  *)
(* stream is as long as the data.                                          *)
SegmentRead(f, g) == [f.phdr[g] EXCEPT !.set = TRUE]
SegmentData(f, s) ==
  IF s.filesz # 0 /\ s.filesz <= Len(f.bytes) THEN ReadAt(f.bytes, s.offset, s.filesz) ELSE <<>>

LoadSegment(f, secs, g) ==
  [SegmentRead(f, g) EXCEPT
     !.secs = SelectSeq(Indices(secs), LAMBDA i : InSegment(secs[i], f.phdr[g]))]

----------------------------------------------------------------------------
Init ==
  /\ sections_ = Created /\ segments_ = <<>> /\ shoff = 0
  /\ file = NoFile /\ good = TRUE /\ clean = FALSE /\ saves = 0 /\ loads = 0

(* The object has no header: a client adds nothing to it, because          *)
(* create_section returns a null pointer, which Sections::add uses.        *)
Headless == sections_ = <<>>

AddSection ==
  /\ ~Headless /\ Size(sections_) < MaxSections /\ saves < MaxSaves
  /\ \E kind \in SectionKinds :
       sections_' = AddNamed(sections_, Filled(kind, Size(sections_)))
  /\ clean' = FALSE
  /\ UNCHANGED <<segments_, shoff, file, good, saves, loads>>

AddSegment ==
  /\ ~Headless /\ Size(segments_) < MaxSegments /\ saves < MaxSaves
  /\ \E kind \in SegmentKinds : segments_' = Push(segments_, NewSegment(kind))
  /\ clean' = FALSE
  /\ UNCHANGED <<sections_, shoff, file, good, saves, loads>>

(* What the layout takes for granted of a section that comes last in a     *)
(* segment: its index is the greatest, as is_subsequence_of compares lists *)
(* with std::includes; it is in memory unless it is a note's; none         *)
(* without bits is before one with bits, or has an address already; its    *)
(* address is not below that of the segment; a PT_PHDR segment has none.   *)
Suits(i, s) ==
  LET sec == sections_[i]
  IN  /\ s.type # "PHDR" /\ (Has(sec, "ALLOC") <=> s.type # "NOTE")
      /\ sec.set => HasBits(sec) /\ sec.addr >= s.vaddr
      /\ \A j \in ToSet(s.secs) :
           /\ j < i
           /\ sections_[j].type = "NOBITS" =>
                sec.type = "NOBITS" /\ ~sections_[j].set /\ (TBssLast /\ Has(sections_[j], "TLS") => Has(sec, "TLS"))

(* segment::add_section, called as the examples do, with the alignment of  *)
(* the section.                                                            *)
AddSectionToSegment ==
  /\ saves < MaxSaves
  /\ \E g \in DOMAIN segments_, i \in DOMAIN sections_ \ {0, 1} :
       /\ Suits(i, segments_[g])
       /\ segments_' = [segments_ EXCEPT ![g].secs = Append(@, i),
                          ![g].align = IF sections_[i].align > @ THEN sections_[i].align ELSE @]
  /\ clean' = FALSE
  /\ UNCHANGED <<sections_, shoff, file, good, saves, loads>>

(* And of the whole object: an address of a client is that of a section of *)
(* a PT_LOAD segment, and no two sections have the same; two segments      *)
(* share no section, or they are not both PT_LOAD and the one is a shorter *)
(* run of the sections of the other and starts at the address of its first *)
(* section.                                                                *)
RunOf(s1, s2) ==
  /\ ~(s1.type = "LOAD" /\ s2.type = "LOAD") /\ Len(s1.secs) < Len(s2.secs)
  /\ \E k \in 1 .. Len(s2.secs) - Len(s1.secs) + 1 :
       /\ s1.secs = SubSeq(s2.secs, k, k + Len(s1.secs) - 1)
       /\ LET first == sections_[s1.secs[1]]
          IN  \/ first.set /\ s1.vaddr = first.addr
              \/ ~first.set /\ k = 1 /\ s1.vaddr = s2.vaddr
                   /\ (first.align > 1 => s1.vaddr % first.align = 0)

Meant ==
  /\ \A i, j \in {x \in DOMAIN sections_ : sections_[x].set /\ Has(sections_[x], "ALLOC")} :
       /\ \E g \in DOMAIN segments_ : segments_[g].type = "LOAD" /\ i \in ToSet(segments_[g].secs)
       /\ i # j => sections_[i].addr # sections_[j].addr
  /\ \A g, h \in DOMAIN segments_ :
       g # h /\ ToSet(segments_[g].secs) \cap ToSet(segments_[h].secs) # {} =>
         RunOf(segments_[g], segments_[h]) \/ RunOf(segments_[h], segments_[g])

(* save() to a file of that name, which opening it empties, and then       *)
(* refuses when there is no header.                                        *)
Save ==
  /\ saves < MaxSaves /\ Meant
  /\ saves' = saves + 1
  /\ LET l == IF Headless THEN [ok |-> FALSE, secs |-> sections_, segs |-> segments_]
              ELSE Layout(sections_, segments_)
     IN  /\ good' = l.ok /\ clean' = l.ok
         /\ sections_' = l.secs /\ segments_' = l.segs
         /\ shoff' = IF l.ok THEN l.pos ELSE 0
         /\ file' = IF ~l.ok THEN NoFile
                    ELSE [bytes |-> Stream(l.secs, l.segs, l.pos), shoff |-> l.pos,
                          shdr |-> l.secs, phdr |-> l.segs]
  /\ UNCHANGED loads

Load ==
  /\ loads < MaxLoads
  /\ loads' = loads + 1
  /\ \E f \in Files \union ({file} \ {NoFile}) :
       LET secs == LoadSections(f)
       IN  /\ sections_' = secs
           /\ segments_' = [g \in DOMAIN f.phdr |-> LoadSegment(f, secs, g)]
           /\ shoff' = f.shoff /\ file' = f
  /\ good' = TRUE /\ clean' = TRUE
  /\ UNCHANGED saves

(* load() of something else: clean() comes first, so that what the object  *)
(* was is gone, and the header that the checks refuse is not created.      *)
(* (create(), with which a client would begin anew, is Init.)              *)
LoadRefused ==
  /\ loads < MaxLoads
  /\ loads' = loads + 1
  /\ sections_' = <<>> /\ segments_' = <<>> /\ shoff' = 0
  /\ good' = FALSE /\ clean' = FALSE
  /\ UNCHANGED <<file, saves>>

Next == AddSection \/ AddSegment \/ AddSectionToSegment \/ Save \/ Load \/ LoadRefused

Spec == Init /\ [][Next]_vars

----------------------------------------------------------------------------
(* validate() of the object that was saved or read: the pairs of sections  *)
(* that overlap, and the segments whose address contradicts a section.     *)
is_offset_in_section(offset, sec) == offset >= sec.offset /\ offset < sec.offset + sec.size

Overlap(a, b) ==
  /\ a.size > 0 /\ b.size > 0 /\ a.offset > 0 /\ b.offset > 0
  /\ \/ is_offset_in_section(a.offset, b) \/ is_offset_in_section(a.offset + a.size - 1, b)
     \/ is_offset_in_section(b.offset, a) \/ is_offset_in_section(b.offset + b.size - 1, a)

(* The mask SHT_NOBITS is also in SHT_REL, SHT_DYNSYM and others.          *)
Masked(sec) == sec.type \in {"NOBITS", "REL"}

Conflict(secs, s) ==
  /\ s.type = "LOAD" /\ s.filesz > 0
  /\ LET here == {i \in DOMAIN secs : secs[i].type = "PROGBITS"
                                        /\ is_offset_in_section(s.offset, secs[i])}
     IN  here # {} /\ LET sec == secs[CHOOSE i \in here : \A j \in here : i <= j]
                      IN  Wrap(sec.addr + s.offset - sec.offset) # s.vaddr

validate(secs, segs) ==
  {<<i, j>> \in (DOMAIN secs) \X (DOMAIN secs) :
     i < j /\ ~Masked(secs[i]) /\ ~Masked(secs[j]) /\ Overlap(secs[i], secs[j])}
  \union {<<g, g>> : g \in {x \in DOMAIN segs : Conflict(secs, segs[x])}}

----------------------------------------------------------------------------
TypeOK ==
  /\ \A i \in DOMAIN sections_ : sections_[i].offset \in 0 .. XWord - 1 /\ sections_[i].size \in Nat
                                   /\ sections_[i].addr \in 0 .. XWord - 1
  /\ \A g \in DOMAIN segments_ : ToSet(segments_[g].secs) \subseteq DOMAIN sections_
  /\ shoff \in 0 .. XWord - 1 /\ good \in BOOLEAN
  /\ saves \in 0 .. MaxSaves /\ loads \in 0 .. MaxLoads

(* Nothing that save() writes overwrites anything else that it writes: the *)
(* header, both tables and the data of every section are in the file, at   *)
(* the offsets the tables give, and validate() agrees.                     *)
Intact ==
  /\ TypeOK
  /\ good => validate(file.shdr, file.phdr) = {}
  /\ file # NoFile =>
    LET at(offset, n) == ReadAt(file.bytes, offset, n)
    IN  /\ at(0, HeaderSize) = Ehdr
        /\ \A g \in DOMAIN file.phdr :
             at(HeaderSize + (PhEntSize * g), PhEntSize) = Cells("phdr", g, PhEntSize)
        /\ \A i \in DOMAIN file.shdr :
             LET sec == file.shdr[i]
             IN  /\ at(file.shoff + ShEntSize * i, ShEntSize) = Cells("shdr", i, ShEntSize)
                 /\ HasBits(sec) => at(sec.offset, sec.size) = sec.data

(* A loader that maps the file finds each section of a PT_LOAD segment at  *)
(* its address: the place of its bytes in the segment and the place of its *)
(* address in it are the same, both are within the sizes the segment       *)
(* claims, and offset and address agree modulo the alignment.              *)
Mapped ==
  good => \A g \in DOMAIN file.phdr :
    LET s == file.phdr[g]
    IN  s.type = "LOAD" /\ s.secs # <<>> =>
          /\ s.align > 0 => s.offset % s.align = s.vaddr % s.align
          /\ \A k \in DOMAIN s.secs :
               LET sec == file.shdr[s.secs[k]]
               IN  /\ HasBits(sec) /\ sec.size > 0 =>
                        /\ s.offset <= sec.offset
                        /\ sec.offset + sec.size <= s.offset + s.filesz
                   /\ Has(sec, "ALLOC") /\ sec.size > 0 /\ ~Has(sec, "TLS") =>
                        sec.addr + sec.size <= s.vaddr + s.memsz
                   /\ Has(sec, "ALLOC") /\ HasBits(sec) /\ sec.size > 0 =>
                        sec.addr - s.vaddr = sec.offset - s.offset

(* load() gives back what save() was given: every section with its data    *)
(* and its name, and for every segment at least the sections it had,       *)
(* though the file does not say which these are.  Empty sections, which    *)
(* may lie on the border of two segments, and thread-local ones are found  *)
(* or not, and a segment may get more sections than it had.                *)
LoadRestores ==
  [][Load /\ file' = file =>
       /\ sections_' = [i \in DOMAIN file.shdr |-> [file.shdr[i] EXCEPT !.set = TRUE]]
       /\ \A g \in DOMAIN file.phdr : \A k \in DOMAIN file.phdr[g].secs :
            LET i == file.phdr[g].secs[k]
            IN  file.shdr[i].size > 0 /\ ~Has(file.shdr[i], "TLS") => i \in ToSet(segments_'[g].secs)]_vars

(* What save() has accepted once, or load() has read, it accepts again,    *)
(* and no section of a segment moves in memory.                            *)
ResaveSucceeds ==
  [][Save /\ clean => good' /\ \A i \in DOMAIN sections_ :
                                 is_section_without_segment(segments_, i)
                                   \/ sections_'[i].addr = sections_[i].addr]_vars
=============================================================================
