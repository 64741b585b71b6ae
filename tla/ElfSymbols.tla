------------------------------ MODULE ElfSymbols ------------------------------
(***************************************************************************)
(* A symbol table of an ELFIO object and a relocation section linked to    *)
(* it: symbol_section_accessor (elfio/elfio/elfio_symbols.hpp) and         *)
(* relocation_section_accessor (elfio_relocation.hpp).                     *)
(*                                                                         *)
(* arrange_local_symbols moves every local symbol before the others, as    *)
(* ELF demands, by swapping two at a time; its callback is                 *)
(* swap_symbols, as in examples/write_obj, so that relocations follow.  A  *)
(* hash table that came with the file is not touched by either.            *)
(***************************************************************************)
EXTENDS Integers, FiniteSets

CONSTANTS
  Names,       \* names of symbols
  NoName,      \* what offset 0 of the string table gives, the null symbol's
  HashOf,      \* elf_hash or elf_gnu_hash of a name; two may agree
  NBuckets,    \* of a hash table
  Symbols,     \* what a client may add: [name, bind, value]
  Tables,      \* the symbol tables of files: functions on 0 .. n - 1
  RelTypes,    \* relocation types of the machine
  Addends,     \* addends of relocations
  TypeMod,     \* 256: a type is kept in an unsigned char
  SymMod,      \* 2^24 or 2^32: the width of a symbol index in r_info
  MaxSymbols,  \* bound: symbols
  MaxRels      \* bound: relocations

ASSUME SymbolsAssumption ==
  /\ NBuckets \in Nat \ {0} /\ TypeMod \in Nat \ {0} /\ SymMod \in Nat \ {0}
  /\ MaxSymbols \in Nat /\ MaxRels \in Nat /\ MaxSymbols <= SymMod
  /\ RelTypes \subseteq Nat /\ Addends \subseteq Int
  /\ \A n \in Names \union {NoName} : HashOf[n] \in Nat
  /\ Symbols \subseteq [name : Names, bind : {"LOCAL", "GLOBAL"}, value : Nat]
  /\ \A t \in Tables : \E n \in 1 .. MaxSymbols :
       t \in [0 .. n - 1 -> [name : Names \union {NoName}, bind : {"LOCAL", "GLOBAL"}, value : Nat]]

VARIABLES
  num,      \* get_symbols_num
  syms,     \* symbols by index: [name, bind, value], and a ghost id
  nrels,    \* get_entries_num of the relocations
  rels,     \* relocations by index: [sym, type, addend]
  rela,     \* the section is SHT_RELA
  hash,     \* the hash table of the file: [type, of, full], see below
  info,     \* sh_info of the symbol table
  first,    \* first_not_local; 0 when no arrange_local_symbols runs
  sorted,   \* ghost: no symbol was added since the last one
  meant     \* ghost: what the client wanted of each relocation

table == <<num, syms, info>>
links == <<nrels, rels, meant>>
vars  == <<table, links, rela, hash, first, sorted>>

Least(S) == CHOOSE x \in S : \A y \in S : x <= y
Null == [name |-> NoName, bind |-> "LOCAL", value |-> 0, id |-> 0]

----------------------------------------------------------------------------
(* Hash tables, as a linker builds them.  of[i] is the hash of the symbol  *)
(* that was at i then; a GNU table begins at its first index, symoffset,   *)
(* and full says that its Bloom filter lets everything through.            *)
Bucket(b) ==
  LET here == {i \in DOMAIN hash.of : hash.of[i] % NBuckets = b}
  IN  IF here = {} THEN 0 ELSE Least(here)

Chain(i) ==
  LET next == {j \in DOMAIN hash.of : j > i /\ hash.of[j] % NBuckets = hash.of[i] % NBuckets}
  IN  IF next = {} THEN 0 ELSE Least(next)

NoSymbol == -1

(* hash_lookup: the chain is walked by the indices of the file, and names  *)
(* are compared with what is at these indices now.                         *)
hash_lookup(name) ==
  LET y[k \in 0 .. num] ==
        IF k = 0 THEN Bucket(HashOf[name] % NBuckets)
        ELSE IF syms[y[k - 1]].name = name \/ y[k - 1] = 0 THEN y[k - 1]
        ELSE Chain(y[k - 1])
  IN  IF syms[y[num]].name = name THEN y[num] ELSE NoSymbol

(* gnu_hash_lookup: hashes are compared without their last bit, which      *)
(* ends a chain; symbols of one bucket lie together.                       *)
gnu_hash_lookup(name) ==
  LET h     == HashOf[name]
      bloom == hash.full \/ \E i \in DOMAIN hash.of : hash.of[i] = h
      start == Bucket(h % NBuckets)
      found == {i \in DOMAIN hash.of : /\ i >= start /\ start # 0
                                       /\ hash.of[i] % NBuckets = h % NBuckets
                                       /\ hash.of[i] \div 2 = h \div 2
                                       /\ syms[i].name = name}
  IN  IF bloom /\ found # {} THEN Least(found) ELSE NoSymbol

(* get_symbol by name: through the hash table and, when that finds         *)
(* nothing, one symbol after the other.                                    *)
Linear(name) ==
  LET here == {i \in 0 .. num - 1 : syms[i].name = name}
  IN  IF here = {} THEN NoSymbol ELSE Least(here)

(* Mutant: what the hash table says is final.                              *)
HashOnly(name) ==
  CASE hash.type = "HASH" -> hash_lookup(name)
    [] hash.type = "GNU_HASH" -> gnu_hash_lookup(name)
    [] OTHER -> Linear(name)

SymbolByName(name) ==
  LET hashed == CASE hash.type = "HASH" -> hash_lookup(name)
                  [] hash.type = "GNU_HASH" -> gnu_hash_lookup(name)
                  [] OTHER -> NoSymbol
  IN  IF hashed # NoSymbol THEN hashed ELSE Linear(name)

(* get_symbol by value, with generic_search_symbols.                       *)
SymbolByValue(value) ==
  LET here == {i \in 0 .. num - 1 : syms[i].value = value}
  IN  IF here = {} THEN NoSymbol ELSE Least(here)

----------------------------------------------------------------------------
(* Relocations.                                                            *)

(* generic_get_entry_rel, generic_get_entry_rela.                          *)
GetEntry(r) == [sym |-> r.sym, type |-> r.type % TypeMod, addend |-> IF rela THEN r.addend ELSE 0]

(* generic_set_entry_rel, generic_set_entry_rela: r_info holds SymMod      *)
(* symbols, and a REL entry no addend.                                     *)
Entry(sym, type, addend) ==
  [sym |-> sym % SymMod, type |-> type, addend |-> IF rela THEN addend ELSE 0]

(* The switch over the type: R_386_32, R_386_PC32, R_386_GLOB_DAT,         *)
(* R_386_JMP_SLOT and R_386_RELATIVE; the place is P.                      *)
CalcValue(type, S, A, P) ==
  CASE type = 1 -> S + A
    [] type = 2 -> S + A - P
    [] type \in {6, 7} -> S
    [] type = 8 -> A
    [] OTHER -> 0

(* Mutant: the symbol of an entry is read again for the second comparison. *)
SwapTwice(one, two) ==
  [k \in DOMAIN rels |->
     LET r   == GetEntry(rels[k])
         mid == IF r.sym = one THEN Entry(two, r.type, r.addend) ELSE rels[k]
     IN  IF mid.sym = two THEN Entry(one, r.type, r.addend) ELSE mid]

(* swap_symbols.                                                           *)
SwapSymbols(one, two) ==
  [k \in DOMAIN rels |->
     LET r == GetEntry(rels[k])
     IN  CASE r.sym = one -> Entry(two, r.type, r.addend)
           [] r.sym = two -> Entry(one, r.type, r.addend)
           [] OTHER -> rels[k]]

----------------------------------------------------------------------------
GnuOrdered(t, from) ==
  \A i, j, k \in from .. Cardinality(DOMAIN t) - 1 :
    /\ i <= j /\ j <= k
    /\ HashOf[t[i].name] % NBuckets = HashOf[t[k].name] % NBuckets =>
         HashOf[t[i].name] % NBuckets = HashOf[t[j].name] % NBuckets

(* The table of a file, or none yet.                                       *)
Init ==
  /\ rela \in BOOLEAN /\ nrels = 0 /\ rels = <<>> /\ meant = <<>>
  /\ \/ num = 0 /\ syms = <<>> /\ hash = [type |-> "none", of |-> <<>>, full |-> FALSE]
     \/ \E t \in Tables :
          /\ num = Cardinality(DOMAIN t)
          /\ syms = [i \in DOMAIN t |-> [name |-> t[i].name, bind |-> t[i].bind,
                                         value |-> t[i].value, id |-> i]]
          /\ \E from \in 1 .. num, type \in {"none", "HASH", "GNU_HASH"}, full \in BOOLEAN :
               /\ type # "GNU_HASH" => from = 1 /\ ~full
               /\ type = "GNU_HASH" => GnuOrdered(t, from)
               /\ hash = [type |-> type, full |-> full,
                          of |-> [i \in from .. num - 1 |-> HashOf[t[i].name]]]
  /\ info = 0 /\ first = 0 /\ sorted = FALSE

Idle == first = 0

(* add_symbol: the first one brings the null symbol.                       *)
Added(sym) ==
  LET n == IF num = 0 THEN 1 ELSE num
  IN  [i \in 0 .. n |-> IF i = n THEN [name |-> sym.name, bind |-> sym.bind,
                                       value |-> sym.value, id |-> n]
                        ELSE IF num = 0 THEN Null ELSE syms[i]]

AddSymbol ==
  /\ Idle /\ num + 2 <= MaxSymbols
  /\ \E sym \in Symbols : syms' = Added(sym)
  /\ num' = IF num = 0 THEN 2 ELSE num + 1
  /\ sorted' = FALSE
  /\ UNCHANGED <<info, links, rela, hash, first>>

(* add_entry and set_entry: the client names a symbol by its index.        *)
Wanted(sym, type, addend) ==
  [id |-> syms[sym].id, type |-> type,
   value |-> CalcValue(type, syms[sym].value, IF rela THEN addend ELSE 0, 0)]

PutEntry(k, sym, type, addend) ==
  /\ rels' = [i \in DOMAIN rels \union {k} |->
                IF i = k THEN Entry(sym, type, addend) ELSE rels[i]]
  /\ meant' = [i \in DOMAIN rels \union {k} |->
                 IF i = k THEN Wanted(sym, type, addend) ELSE meant[i]]

AddEntry ==
  /\ Idle /\ nrels < MaxRels
  /\ \E sym \in 0 .. num - 1, type \in RelTypes, addend \in Addends :
       PutEntry(nrels, sym, type, addend)
  /\ nrels' = nrels + 1
  /\ UNCHANGED <<table, rela, hash, first, sorted>>

SetEntry ==
  /\ Idle
  /\ \E k \in 0 .. nrels - 1, sym \in 0 .. num - 1, type \in RelTypes, addend \in Addends :
       PutEntry(k, sym, type, addend)
  /\ UNCHANGED <<table, nrels, rela, hash, first, sorted>>

----------------------------------------------------------------------------
(* arrange_local_symbols, one turn of its loop at a time.                  *)
Arrange ==
  /\ Idle /\ first' = 1
  /\ UNCHANGED <<table, links, rela, hash, sorted>>

first_not_local == Least({i \in first .. first + num : i >= num \/ syms[i].bind # "LOCAL"})
current == Least({i \in first_not_local + 1 .. first_not_local + num + 1 :
                    i >= num \/ syms[i].bind = "LOCAL"})

(* Mutant: the pointers to the two are swapped.                            *)
SwapPointers ==
  /\ ~Idle /\ first_not_local < num /\ current < num
  /\ rels' = SwapSymbols(first_not_local, current)
  /\ first' = first_not_local
  /\ UNCHANGED <<num, syms, info, nrels, meant, rela, hash, sorted>>

(* The callback sees both indices before the symbols change places.        *)
SwapTwo ==
  /\ ~Idle /\ first_not_local < num /\ current < num
  /\ rels' = SwapSymbols(first_not_local, current)
  /\ syms' = [syms EXCEPT ![first_not_local] = syms[current],
                          ![current] = syms[first_not_local]]
  /\ first' = first_not_local
  /\ UNCHANGED <<num, info, nrels, meant, rela, hash, sorted>>

SetInfo ==
  /\ ~Idle /\ ~(first_not_local < num /\ current < num)
  /\ info' = first_not_local /\ first' = 0 /\ sorted' = TRUE
  /\ UNCHANGED <<num, syms, links, rela, hash>>

Next == AddSymbol \/ AddEntry \/ SetEntry \/ Arrange \/ SwapTwo \/ SetInfo

Spec == Init /\ [][Next]_vars

(* A call that has begun goes on.                                          *)
FairSpec == Spec /\ WF_vars(SwapTwo \/ SetInfo)

----------------------------------------------------------------------------
SymbolSet == [name : Names \union {NoName}, bind : {"LOCAL", "GLOBAL"}, value : Nat, id : Nat]
RelSet    == [sym : Nat, type : Nat, addend : Int]

TypeOK ==
  /\ num \in 0 .. MaxSymbols /\ syms \in [0 .. num - 1 -> SymbolSet]
  /\ nrels \in 0 .. MaxRels /\ rels \in [0 .. nrels - 1 -> RelSet]
  /\ rela \in BOOLEAN /\ info \in 0 .. MaxSymbols + 1 /\ first \in 0 .. MaxSymbols + 1
  /\ sorted \in BOOLEAN

(* Whatever was added, set and arranged, a relocation is against the       *)
(* symbol it was made for and has the value it had then, and its type when *)
(* that fits an unsigned char (those of AArch64 do not: get_entry cuts     *)
(* them, and swap_symbols writes back what get_entry gave it).             *)
SameSymbol ==
  \A k \in 0 .. nrels - 1 :
    LET r == GetEntry(rels[k])
    IN  /\ r.sym < num /\ syms[r.sym].id = meant[k].id
        /\ meant[k].type < TypeMod =>
             r.type = meant[k].type
               /\ CalcValue(r.type, syms[r.sym].value, r.addend, 0) = meant[k].value

(* arrange_local_symbols ends, after it the locals, and they only, are     *)
(* before sh_info, and no symbol was lost or doubled on the way.           *)
LocalsFirst ==
  /\ TypeOK
  /\ sorted => \A i \in 1 .. num - 1 : i < info <=> syms[i].bind = "LOCAL"
  /\ {syms[i].id : i \in 0 .. num - 1} = 0 .. num - 1
Arranges == []LocalsFirst /\ (~Idle ~> Idle)

(* A symbol is found by its name if there is one, whatever has become of   *)
(* the order the hash table was built for, and by its value.               *)
LookupFinds ==
  num > 0 =>
    /\ \A name \in Names :
         LET i == SymbolByName(name)
         IN  IF i = NoSymbol THEN \A j \in 0 .. num - 1 : syms[j].name # name
             ELSE i < num /\ syms[i].name = name
    /\ \A s \in Symbols : SymbolByValue(s.value) # NoSymbol
                            <=> \E j \in 0 .. num - 1 : syms[j].value = s.value
===============================================================================
