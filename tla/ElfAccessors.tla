----------------------------- MODULE ElfAccessors -----------------------------
(***************************************************************************)
(* The accessors of one section of an ELFIO object: dynamic_section_       *)
(* accessor, note_section_accessor, versym_section_accessor,               *)
(* array_section_accessor and modinfo_section_accessor (elfio/elfio).      *)
(* Several may be open on one section.  What each of them remembers of it  *)
(* differs: nothing, the number of entries it counted once, the number it  *)
(* found when it was opened and has added, where these were, or a copy.    *)
(***************************************************************************)
EXTENDS Integers, SequencesExt

NoValue == "no value"  \* of an attribute without "="

CONSTANTS
  Kinds,         \* among "dynamic", "note", "versym", "array", "modinfo"
  ItemsOf,       \* what a client may add, by kind: [tag, val]
  InFile,        \* what the section of a file may hold, by kind
  Radix,         \* values of a byte
  Bytes,         \* bytes of an address by class: Bytes[32] = 4 and Bytes[64] = 8
  WordSize,      \* sizeof(Elf_Word)
  MaxItems,      \* bound: entries of the section
  MaxAccessors   \* bound: accessors

(* Values of entries and of addresses, the lengths of a note, and texts.   *)
ItemType(k) ==
  CASE k = "dynamic" -> [tag : Nat, val : Nat]
    [] k = "note"    -> [tag : Nat, val : [name : Nat, desc : Nat]]
    [] k = "modinfo" -> [tag : STRING, val : STRING]
    [] OTHER         -> [tag : {0}, val : Nat]

(* A client that adds an attribute gives it a value.                       *)
ASSUME AccessorsAssumption ==
  /\ Radix \in Nat \ {0, 1} /\ WordSize \in Nat \ {0}
  /\ Bytes[32] \in Nat /\ Bytes[64] \in Nat /\ Bytes[32] <= Bytes[64]
  /\ MaxItems \in Nat /\ MaxAccessors \in Nat
  /\ Kinds \subseteq {"dynamic", "note", "versym", "array", "modinfo"}
  /\ \A k \in Kinds : /\ ItemsOf[k] \subseteq ItemType(k)
                      /\ k = "modinfo" => \A i \in ItemsOf[k] : i.val # NoValue
                      /\ \A f \in InFile[k] : f \in Seq(ItemType(k)) /\ Len(f) <= MaxItems

VARIABLES
  kind,     \* of the section
  class,    \* 32 or 64
  msb,      \* the encoding of the file is not that of the host
  data,     \* what is stored, one item after the other: [tag, val]
  asked,    \* ghost: what the clients meant by them
  accs      \* the accessors: [num, at, content], and two ghosts

accVars == <<kind, class, msb, data, asked, accs>>

----------------------------------------------------------------------------
(* endianess_convertor, on integers of n bytes; Place[k] is Radix^k.       *)
Place[k \in 0 .. Bytes[64]] == IF k = 0 THEN 1 ELSE Place[k - 1] * Radix

Byte(x, k) == (x \div Place[k]) % Radix
ByteSwap(x, n) ==
  LET out[k \in 0 .. n] == IF k = 0 THEN 0 ELSE out[k - 1] * Radix + Byte(x, k - 1)
  IN  out[n]
Convert(x, n) == IF msb THEN ByteSwap(x, n) ELSE x
Narrow(x, n)  == x % Place[n]

(* A client gives an entry or an address that its class can hold.          *)
Fits(i) ==
  kind \in {"dynamic", "array"} => i.tag < Place[Bytes[class]] /\ i.val < Place[Bytes[class]]

(* Of the tags DT_NULL (0), DT_SYMBOLIC, DT_TEXTREL and DT_BIND_NOW the    *)
(* value is never stored or read.                                          *)
Valueless == {0, 16, 22, 24}
DynItem(i) == [tag |-> i.tag, val |-> IF i.tag \in Valueless THEN 0 ELSE i.val]

(* generic_add_entry_dyn converts what is an Elf_Xword, whatever the class *)
(* is, and stores as much of it as the field holds; generic_get_entry_dyn  *)
(* converts the field.                                                     *)
ThroughDyn(x) == Convert(Narrow(Convert(x, Bytes[64]), Bytes[class]), Bytes[class])

(* Mutant: the address is converted as an Elf64_Addr.                      *)
ThroughWide(x) == Convert(Narrow(Convert(x, Bytes[64]), Bytes[class]), Bytes[class])

(* add_entry of an array cuts the address first; versions are not          *)
(* converted at all.                                                       *)
ThroughArray(x) == Convert(Convert(Narrow(x, Bytes[class]), Bytes[class]), Bytes[class])

(* What is read of an item that is added, and of one that the file had.    *)
Through(i) ==
  CASE kind = "dynamic" -> DynItem([tag |-> ThroughDyn(i.tag), val |-> ThroughDyn(i.val)])
    [] kind = "array"   -> [i EXCEPT !.val = ThroughArray(@)]
    [] OTHER            -> i

FromFile(i) == IF kind = "versym" THEN [i EXCEPT !.val = Convert(@, Bytes[32] \div 2)] ELSE i

----------------------------------------------------------------------------
(* Notes lie at byte offsets.  Their names and descriptions are padded;    *)
(* val is [name, desc], the lengths of both, the first with its zero byte. *)
Pad(x) == ((x + WordSize - 1) \div WordSize) * WordSize
NoteSize(i) == (3 * WordSize) + Pad(i.val.name) + Pad(i.val.desc)
Offset(items, k) ==
  LET at[j \in 0 .. k - 1] == IF j = 0 THEN 0 ELSE at[j - 1] + NoteSize(items[j])
  IN  at[k - 1]

(* process_section of notes: where they begin, from the lengths they give. *)
NotePositions(items) == [k \in DOMAIN items |-> Offset(items, k)]

NoteAt(items, pos) == LET here == {k \in DOMAIN items : Offset(items, k) = pos}
                      IN  IF here = {} THEN [tag |-> -1, val |-> 0]
                          ELSE items[CHOOSE k \in here : TRUE]

(* process_section of module information: the text up to the first "=" and *)
(* the text after it; an item without one is both.                         *)
Attribute(i) == IF kind = "modinfo" /\ i.val = NoValue THEN [i EXCEPT !.val = i.tag] ELSE i

----------------------------------------------------------------------------
(* get_entries_num of a dynamic section: up to and with the first DT_NULL. *)
DynCount(items) ==
  LET nulls == {k \in DOMAIN items : items[k].tag = 0}
  IN  IF nulls = {} THEN Len(items) ELSE CHOOSE k \in nulls : \A j \in nulls : k <= j

(* The constructors.  num is entries_num of dynamic sections (0 until it   *)
(* is wanted) and of versions, at is note_start_positions, content that of *)
(* module information.  own and since are ghosts: no other accessor has    *)
(* written since this was opened, and nothing was written since.           *)
Opened ==
  [num     |-> IF kind = "versym" THEN Len(data) ELSE 0,
   at      |-> IF kind = "note" THEN NotePositions(data) ELSE <<>>,
   content |-> IF kind = "modinfo" THEN [k \in DOMAIN data |-> Attribute(data[k])] ELSE <<>>,
   own |-> TRUE, since |-> TRUE]

(* What accessor a shows, from index 0 up to its number of entries.        *)
View(a) ==
  CASE kind = "dynamic" -> SubSeq(data, 1, IF a.num = 0 THEN DynCount(data) ELSE a.num)
    [] kind = "versym"  -> SubSeq(data, 1, a.num)
    [] kind = "array"   -> data
    [] kind = "note"    -> [k \in DOMAIN a.at |-> NoteAt(data, a.at[k])]
    [] kind = "modinfo" -> a.content

----------------------------------------------------------------------------
AccInit ==
  /\ kind \in Kinds /\ class \in {32, 64} /\ msb \in BOOLEAN
  /\ asked \in InFile[kind] /\ data = [k \in DOMAIN asked |-> FromFile(asked[k])]
  /\ accs = <<>>

Open ==
  /\ Len(accs) < MaxAccessors
  /\ accs' = Append(accs, Opened)
  /\ UNCHANGED <<kind, class, msb, data, asked>>

(* add_entry, add_note, add_attribute through accessor n.                  *)
Appended(a, i) ==
  [a EXCEPT !.num     = IF kind = "versym" THEN @ + 1 ELSE @,
            !.at      = IF kind = "note" THEN Append(@, Offset(Append(data, i), Len(data) + 1)) ELSE @,
            !.content = IF kind = "modinfo" THEN Append(@, i) ELSE @,
            !.since   = FALSE]

Add ==
  /\ Len(data) < MaxItems
  /\ \E n \in DOMAIN accs, i \in ItemsOf[kind] :
       /\ Fits(i)
       /\ data'  = Append(data, Through(i))
       /\ asked' = Append(asked, IF kind = "dynamic" THEN DynItem(i) ELSE i)
       /\ accs'  = [m \in DOMAIN accs |->
                      IF m = n THEN Appended(accs[m], i)
                      ELSE [accs[m] EXCEPT !.own = FALSE, !.since = FALSE]]
  /\ UNCHANGED <<kind, class, msb>>

(* Mutant: what is counted ends before the DT_NULL.                        *)
CountBefore ==
  /\ kind = "dynamic"
  /\ \E n \in DOMAIN accs :
       accs' = [accs EXCEPT ![n].num = IF @ = 0 /\ DynCount(data) > 1 THEN DynCount(data) - 1 ELSE @]
  /\ UNCHANGED <<kind, class, msb, data, asked>>

(* get_entries_num, and get_entry, of a dynamic section: from then on the  *)
(* number stands, unless it was 0.                                         *)
Count ==
  /\ kind = "dynamic"
  /\ \E n \in DOMAIN accs :
       accs' = [accs EXCEPT ![n].num = IF @ = 0 THEN DynCount(data) ELSE @]
  /\ UNCHANGED <<kind, class, msb, data, asked>>

(* modify_entry of versions, below the number that the accessor knows.     *)
Modify ==
  /\ kind = "versym"
  /\ \E n \in DOMAIN accs, i \in ItemsOf[kind] : \E k \in 1 .. accs[n].num :
       /\ data' = [data EXCEPT ![k] = i] /\ asked' = [asked EXCEPT ![k] = i]
  /\ UNCHANGED <<kind, class, msb, accs>>

AccNext == Open \/ Add \/ Count \/ Modify

AccSpec == AccInit /\ [][AccNext]_accVars

----------------------------------------------------------------------------
(* What a reader should find: of a dynamic section, the entries up to and  *)
(* with the first DT_NULL.                                                 *)
Visible == {k \in DOMAIN asked : kind = "dynamic" => \A j \in 1 .. k - 1 : asked[j].tag # 0}

(* Not so of two kinds of sections: a 32-bit dynamic section of the other  *)
(* encoding, of which nothing but zeros is stored, and versions of the     *)
(* other encoding, which nobody converts.                                  *)
Converted == msb => ~(kind = "dynamic" /\ class = 32) /\ kind # "versym"

AccTypeOK ==
  /\ Len(data) = Len(asked) /\ Len(data) <= MaxItems /\ Len(accs) <= MaxAccessors
  /\ \A n \in DOMAIN accs : accs[n].num \in 0 .. MaxItems /\ Len(accs[n].at) <= MaxItems
                               /\ (accs[n].since => accs[n].own)

(* An accessor shows every entry with the values it was given, if nobody   *)
(* else has written since it was opened, and unless it is a dynamic one    *)
(* that has counted the entries before it has added one.                   *)
OwnerSees ==
  Converted =>
    \A n \in DOMAIN accs :
      accs[n].own /\ (kind = "dynamic" => accs[n].num = 0 \/ accs[n].since) =>
        View(accs[n]) = [k \in Visible |-> Attribute(asked[k])]

(* What an outdated accessor shows is old or incomplete, never wrong: each *)
(* entry was meant by somebody, and they are in the order of the section.  *)
(* And what it has shown at an index, it shows there ever after, unless it *)
(* was modified.                                                           *)
ShowsWhatIsThere ==
  /\ AccTypeOK
  /\ Converted =>
    \A n \in DOMAIN accs :
      LET v == View(accs[n])
      IN  \E f \in [DOMAIN v -> DOMAIN asked] :
            \A k \in DOMAIN v : /\ v[k] = Attribute(asked[f[k]])
                                /\ k > 1 => f[k - 1] < f[k]
IndexStable ==
  [][\A n \in DOMAIN accs :
       ~Modify => IsPrefix(View(accs[n]), View(accs[n])')]_accVars
ViewsAgree == []ShowsWhatIsThere /\ IndexStable
===============================================================================
