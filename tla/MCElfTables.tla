----------------------------- MODULE MCElfTables -----------------------------
(* Small instances of the symbol table with its relocations and of the     *)
(* sections with accessors.  They share nothing: a behaviour is of the one *)
(* or of the other.                                                        *)
EXTENDS ElfSymbols, ElfAccessors

VARIABLE part

(* Symbols: "a" and "b" have the same hash up to its last bit, "a" and "c" *)
(* are in the same bucket.  The files have a local symbol behind a global  *)
(* one, and two of the same name.                                          *)
MCNames == {"a", "b", "c"}
MCHash  == [n \in MCNames \union {""} |->
              CASE n = "a" -> 2 [] n = "b" -> 3 [] n = "c" -> 4 [] OTHER -> 0]
Sym(n, b, v) == [name |-> n, bind |-> b, value |-> v]
MCSymbols == {Sym("a", "LOCAL", 1), Sym("b", "GLOBAL", 2), Sym("c", "LOCAL", 2)}

Twins  == [i \in 0 .. 3 |-> CASE i = 0 -> Sym("", "LOCAL", 0)
                              [] i = 1 -> Sym("b", "GLOBAL", 2)
                              [] i = 2 -> Sym("a", "LOCAL", 3)
                              [] OTHER -> Sym("a", "GLOBAL", 1)]
Behind == [i \in 0 .. 3 |-> CASE i = 0 -> Sym("", "LOCAL", 0)
                              [] i = 1 -> Sym("c", "GLOBAL", 1)
                              [] i = 2 -> Sym("a", "GLOBAL", 3)
                              [] OTHER -> Sym("b", "LOCAL", 1)]
MCTables == {Twins, Behind}

(* Sections: a DT_NULL that is not the last entry, notes with padding,     *)
(* module information without "=".                                         *)
AllKinds == {"dynamic", "note", "versym", "array", "modinfo"}
Item(t, v)    == [tag |-> t, val |-> v]
Lengths(n, d) == [name |-> n, desc |-> d]
MCItems == [k \in AllKinds |->
  CASE k = "dynamic" -> {Item(0, 5), Item(1, 6), Item(16, 7)}
    [] k = "note"    -> {Item(1, Lengths(4, 5)), Item(3, Lengths(5, 0))}
    [] k = "modinfo" -> {Item("license", "GPL"), Item("alias", "")}
    [] OTHER         -> {Item(0, 6), Item(0, 7)}]
MCFiles == [k \in AllKinds |->
  CASE k = "dynamic" -> {<<>>, <<Item(1, 3)>>, <<Item(1, 3), Item(0, 0)>>}
    [] k = "note"    -> {<<>>, <<Item(1, Lengths(4, 3))>>}
    [] k = "modinfo" -> {<<>>, <<Item("out-of-tree", NoValue)>>}
    [] OTHER         -> {<<>>, <<Item(0, 5)>>}]
MCBytes == [c \in {32, 64} |-> IF c = 32 THEN 4 ELSE 8]

NoAccessors == kind = "array" /\ class = 32 /\ msb = FALSE /\ data = <<>> /\ asked = <<>> /\ accs = <<>>
NoSymbols   == /\ num = 0 /\ syms = <<>> /\ nrels = 0 /\ rels = <<>> /\ meant = <<>> /\ rela = FALSE
               /\ hash = [type |-> "none", of |-> <<>>, full |-> FALSE]
               /\ info = 0 /\ first = 0 /\ sorted = FALSE

MCInit == \/ part = "symbols" /\ Init /\ NoAccessors
          \/ part = "accessors" /\ AccInit /\ NoSymbols

MCNext == \/ part = "symbols" /\ Next /\ UNCHANGED <<accVars, part>>
          \/ part = "accessors" /\ AccNext /\ UNCHANGED <<vars, part>>

MCSpec == /\ MCInit /\ [][MCNext]_<<vars, accVars, part>>
          /\ WF_vars((SwapTwo \/ SetInfo) /\ UNCHANGED <<accVars, part>>)
==============================================================================
