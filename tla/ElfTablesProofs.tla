-------------------------- MODULE ElfTablesProofs --------------------------
(***************************************************************************)
(* Relocations keep their symbols, and arranging puts the local symbols    *)
(* first without losing any, for every symbol table a file can hold and    *)
(* whatever is added, set and arranged.  In the second part: accessors     *)
(* show what their sections hold, for every file, whatever is added        *)
(* through whichever of them.                                              *)
(***************************************************************************)
EXTENDS ElfSymbols, ElfAccessors, FiniteSetTheorems, WellFoundedInduction, TLAPS

Kept == [name : Names, bind : {"LOCAL", "GLOBAL"}, value : Nat]

(* A nonempty set of naturals has a least element.                         *)
LEMMA LeastIs ==
  ASSUME NEW S, S \subseteq Nat, S # {}
  PROVE  Least(S) \in S /\ \A y \in S : Least(S) <= y
<1>1. PICK x \in S : \A y \in S : ~(<<y, x>> \in OpToRel(<, Nat))
  BY NatLessThanWellFounded, WFMin
<1>2. \A y \in S : ~(y < x)
  BY <1>1 DEF OpToRel
<1>3. \A y \in S : x <= y
  BY <1>2
<1>. QED BY <1>3 DEF Least

(* Entry r is what w asks for, in a table t of n symbols.                  *)
Right(r, w, n, t, a) ==
  /\ r.sym < n /\ t[r.sym].id = w.id
  /\ w.type < TypeMod =>
       r.type % TypeMod = w.type
         /\ CalcValue(w.type, t[r.sym].value, IF a THEN r.addend ELSE 0, 0) = w.value

RelsRight == \A k \in 0 .. nrels - 1 : Right(rels[k], meant[k], num, syms, rela)

(* The loop of arrange_local_symbols has only locals behind it, and once   *)
(* it has ended sh_info separates them until a symbol is added.            *)
Sorted ==
  /\ first # 0 => \A i \in 1 .. first - 1 : i < num /\ syms[i].bind = "LOCAL"
  /\ first <= num \/ first <= 1
  /\ sorted => \A i \in 1 .. num - 1 : i < info <=> syms[i].bind = "LOCAL"

(* No symbol is lost, none is doubled.                                     *)
AllThere == {syms[i].id : i \in 0 .. num - 1} = 0 .. num - 1

IInv == TypeOK /\ RelsRight /\ Sorted /\ AllThere

(* Initially there are no relocations, and the symbols of a file or none.  *)
LEMMA InitInv == Init => IInv
<1> SUFFICES ASSUME Init PROVE IInv
  OBVIOUS
<1> USE SymbolsAssumption
<1>1. /\ rela \in BOOLEAN /\ nrels = 0 /\ rels = <<>> /\ info = 0 /\ first = 0 /\ sorted = FALSE
  BY DEF Init
<1>0. /\ nrels \in 0 .. MaxRels /\ info \in 0 .. MaxSymbols + 1 /\ first \in 0 .. MaxSymbols + 1
      /\ 0 \in 0 .. MaxSymbols
  BY <1>1
<1>2. RelsRight /\ Sorted /\ rels \in [0 .. nrels - 1 -> RelSet]
  BY <1>1 DEF RelsRight, Sorted
<1>3. CASE num = 0 /\ syms = <<>>
  <2>1. syms \in [0 .. num - 1 -> SymbolSet]
    BY <1>3
  <2>2. 0 .. num - 1 = {}
    BY <1>3
  <2>3. AllThere
    BY <2>2 DEF AllThere
  <2>. QED BY <1>0, <1>1, <1>2, <1>3, <2>1, <2>3, Zenon DEF IInv, TypeOK
<1>4. ASSUME NEW t \in Tables, num = Cardinality(DOMAIN t),
             syms = [i \in DOMAIN t |-> [name |-> t[i].name, bind |-> t[i].bind,
                                         value |-> t[i].value, id |-> i]]
      PROVE  IInv
  <2>1. PICK n \in 1 .. MaxSymbols :
          t \in [0 .. n - 1 -> [name : Names \union {NoName}, bind : {"LOCAL", "GLOBAL"}, value : Nat]]
    OBVIOUS
  <2>2. num = n
    BY <1>4, <2>1, FS_Interval
  <2>3. syms \in [0 .. num - 1 -> SymbolSet]
    BY <1>4, <2>1, <2>2 DEF SymbolSet
  <2>4. \A i \in 0 .. num - 1 : syms[i].id = i
    BY <1>4, <2>1, <2>2
  <2> HIDE <1>4
  <2>5. AllThere
    <3>1. {syms[i].id : i \in 0 .. num - 1} = {i : i \in 0 .. num - 1}
      BY <2>4
    <3>. QED BY <3>1 DEF AllThere
  <2>6. num \in 0 .. MaxSymbols
    BY <2>1, <2>2
  <2>. QED BY <1>0, <1>1, <1>2, <2>3, <2>5, <2>6, Zenon DEF IInv, TypeOK
<1>5. \/ num = 0 /\ syms = <<>>
      \/ \E t \in Tables :
           /\ num = Cardinality(DOMAIN t)
           /\ syms = [i \in DOMAIN t |-> [name |-> t[i].name, bind |-> t[i].bind,
                                          value |-> t[i].value, id |-> i]]
  BY DEF Init
<1>. QED BY <1>3, <1>4, <1>5

----------------------------------------------------------------------------
(* Where arrange_local_symbols stands: behind the locals of before, and at *)
(* a local symbol behind that one, if there is one.                        *)
LEMMA FirstNotLocal ==
  ASSUME IInv, first # 0
  PROVE  /\ first_not_local \in Nat /\ first_not_local >= first /\ first >= 1
         /\ first_not_local >= num \/ syms[first_not_local].bind # "LOCAL"
         /\ \A i \in 1 .. first_not_local - 1 : i < num /\ syms[i].bind = "LOCAL"
         /\ first_not_local <= num \/ first_not_local <= 1
<1> USE SymbolsAssumption
<1> DEFINE S == {i \in first .. first + num : i >= num \/ syms[i].bind # "LOCAL"}
<1>1. num \in Nat /\ first \in Nat /\ first >= 1
  BY DEF IInv, TypeOK
<1>2. S \subseteq Nat /\ first + num \in S
  BY <1>1
<1> DEFINE x == first_not_local
<1>3. x \in S /\ \A y \in S : x <= y
  BY <1>2, LeastIs DEF first_not_local
<1> HIDE DEF x
<1>4. x \in Nat /\ x >= first /\ (x >= num \/ syms[x].bind # "LOCAL")
  BY <1>1, <1>3
<1>5. ASSUME NEW i \in 1 .. x - 1
      PROVE  i < num /\ syms[i].bind = "LOCAL"
  <2>1. CASE i < first
    BY <1>1, <2>1 DEF IInv, Sorted
  <2>2. CASE i >= first
    <3>1. i \in first .. first + num /\ i \notin S
      BY <1>1, <1>3, <1>4, <2>2
    <3>. QED BY <3>1, <1>1
  <2>. QED BY <1>1, <2>1, <2>2
<1>6. x <= num \/ x <= 1
  <2>1. CASE first <= num
    <3>1. num \in S
      BY <1>1, <2>1
    <3>. QED BY <1>3, <3>1, <1>1, <1>4
  <2>2. CASE first <= 1 /\ num = 0
    <3>1. first = 1 /\ 1 \in S
      BY <1>1, <2>2
    <3>. QED BY <1>3, <3>1, <1>1, <1>4
  <2>. QED BY <1>1, <2>1, <2>2 DEF IInv, Sorted
<1>. QED BY <1>1, <1>4, <1>5, <1>6 DEF x

(* The next local symbol behind it.                                        *)
LEMMA Current ==
  ASSUME IInv, first # 0
  PROVE  /\ current \in Nat /\ current > first_not_local
         /\ current >= num \/ syms[current].bind = "LOCAL"
         /\ \A i \in first_not_local + 1 .. num - 1 : i < current => syms[i].bind # "LOCAL"
<1> USE SymbolsAssumption
<1> DEFINE f == first_not_local
           S == {i \in f + 1 .. f + num + 1 : i >= num \/ syms[i].bind = "LOCAL"}
           x == current
<1>1. num \in Nat /\ f \in Nat
  BY FirstNotLocal DEF IInv, TypeOK
<1>2. x = Least(S)
  BY DEF current
<1> HIDE DEF x, f
<1>3. S \subseteq Nat /\ f + num + 1 \in S
  BY <1>1
<1>4. x \in S /\ \A y \in S : x <= y
  BY <1>2, <1>3, LeastIs
<1>5. ASSUME NEW i \in f + 1 .. num - 1, i < x
      PROVE  syms[i].bind # "LOCAL"
  <2>1. i \in f + 1 .. f + num + 1 /\ i \notin S
    BY <1>1, <1>4, <1>5
  <2>. QED BY <2>1
<1>. QED BY <1>1, <1>4, <1>5 DEF x, f

(* What a client asks for is what it gets: add_entry and set_entry.        *)
LEMMA PutRight ==
  ASSUME IInv, NEW k \in 0 .. nrels, NEW sym \in 0 .. num - 1, NEW type \in RelTypes,
         NEW addend \in Addends, PutEntry(k, sym, type, addend),
         nrels' = IF k = nrels THEN nrels + 1 ELSE nrels, nrels' \in 0 .. MaxRels,
         UNCHANGED <<num, syms, info, rela, first, sorted>>
  PROVE  IInv'
<1> USE SymbolsAssumption
<1>1. /\ num \in Nat /\ num <= SymMod /\ nrels \in Nat /\ type \in Nat /\ addend \in Int
      /\ TypeMod \in Nat \ {0} /\ SymMod \in Nat \ {0}
  BY DEF IInv, TypeOK
<1>2. rels \in [0 .. nrels - 1 -> RelSet]
  BY DEF IInv, TypeOK
<1>3. DOMAIN rels \union {k} = 0 .. nrels' - 1 /\ k \in 0 .. nrels' - 1
  BY <1>1, <1>2
<1> DEFINE S == DOMAIN rels \union {k}
<1>4. PICK e, w : e = Entry(sym, type, addend) /\ w = Wanted(sym, type, addend)
  OBVIOUS
<1>5. e.sym = sym /\ e.type = type /\ e.addend = (IF rela THEN addend ELSE 0) /\ e \in RelSet
  <2>1. sym % SymMod = sym /\ sym \in Nat
    BY <1>1
  <2>2. (IF rela THEN addend ELSE 0) \in Int
    BY <1>1
  <2>3. e = [sym |-> sym, type |-> type, addend |-> IF rela THEN addend ELSE 0]
    BY <1>4, <2>1 DEF Entry
  <2>. QED BY <1>1, <2>1, <2>2, <2>3 DEF RelSet
<1>6. w.id = syms[sym].id /\ w.type = type
      /\ w.value = CalcValue(type, syms[sym].value, IF rela THEN addend ELSE 0, 0)
  BY <1>4 DEF Wanted
<1>7. /\ rels' = [i \in 0 .. nrels' - 1 |-> IF i = k THEN e ELSE rels[i]]
      /\ meant' = [i \in 0 .. nrels' - 1 |-> IF i = k THEN w ELSE meant[i]]
  BY <1>3, <1>4 DEF PutEntry
<1>8. \A i \in 0 .. nrels' - 1 : i # k => i \in 0 .. nrels - 1
  BY <1>1, <1>3
<1>9. rels' \in [0 .. nrels' - 1 -> RelSet]
  BY <1>2, <1>5, <1>7, <1>8
<1>10. Right(e, w, num, syms, rela)
  <2>1. type < TypeMod => type % TypeMod = type
    BY <1>1
  <2>2. (IF rela THEN e.addend ELSE 0) = IF rela THEN addend ELSE 0
    BY <1>5
  <2>3. sym < num
    BY <1>1
  <2>. QED BY <1>5, <1>6, <2>1, <2>2, <2>3 DEF Right
<1>11. RelsRight'
  <2> SUFFICES ASSUME NEW i \in 0 .. nrels' - 1
               PROVE  Right(rels'[i], meant'[i], num, syms, rela)
    BY DEF RelsRight
  <2>1. CASE i = k
    BY <1>7, <1>10, <2>1
  <2>2. CASE i # k
    BY <1>7, <1>8, <2>2 DEF IInv, RelsRight
  <2>. QED BY <2>1, <2>2
<1>12. Sorted' /\ AllThere'
  BY DEF IInv, Sorted, AllThere
<1>13. TypeOK'
  BY <1>9, Zenon DEF IInv, TypeOK
<1>. QED BY <1>11, <1>12, <1>13 DEF IInv

(* A new symbol changes none of the others.                                *)
LEMMA AddSymbolOK == ASSUME IInv, AddSymbol PROVE IInv'
<1> USE SymbolsAssumption
<1>1. PICK sym \in Symbols : syms' = Added(sym)
  BY DEF AddSymbol
<1>2. /\ num \in Nat /\ syms \in [0 .. num - 1 -> SymbolSet] /\ nrels \in Nat
      /\ rels \in [0 .. nrels - 1 -> RelSet]
  BY DEF IInv, TypeOK
<1>3. PICK n \in Nat : n = (IF num = 0 THEN 1 ELSE num) /\ n >= num
  BY <1>2
<1>4. num' = n + 1 /\ num' \in 0 .. MaxSymbols
  BY <1>2, <1>3 DEF AddSymbol
<1>5. PICK new : new = [name |-> sym.name, bind |-> sym.bind, value |-> sym.value, id |-> n]
  OBVIOUS
<1>6. syms' = [i \in 0 .. n |-> IF i = n THEN new ELSE IF num = 0 THEN Null ELSE syms[i]]
  BY <1>1, <1>3, <1>5 DEF Added
<1>7. new \in SymbolSet /\ Null \in SymbolSet
  BY <1>5 DEF SymbolSet, Null
<1>8. \A i \in 0 .. n : i # n /\ num # 0 => i \in 0 .. num - 1
  BY <1>2, <1>3
<1>9. syms' \in [0 .. num' - 1 -> SymbolSet]
  <2>1. 0 .. num' - 1 = 0 .. n
    BY <1>4
  <2>. QED BY <1>2, <1>6, <1>7, <1>8, <2>1
<1>10. \A i \in 0 .. num - 1 : i \in 0 .. n /\ syms'[i] = syms[i]
  BY <1>2, <1>3, <1>6
<1>11. RelsRight'
  <2> SUFFICES ASSUME NEW k \in 0 .. nrels - 1
               PROVE  Right(rels[k], meant[k], num', syms', rela)
    BY DEF RelsRight, AddSymbol, links
  <2>1. Right(rels[k], meant[k], num, syms, rela)
    BY DEF IInv, RelsRight
  <2>2. rels[k].sym \in Nat
    BY <1>2 DEF RelSet
  <2>3. rels[k].sym \in 0 .. num - 1
    BY <1>2, <2>1, <2>2 DEF Right
  <2>4. rels[k].sym < num'
    BY <1>2, <1>3, <1>4, <2>3
  <2>. QED BY <1>10, <2>1, <2>3, <2>4 DEF Right
<1>12. AllThere'
  <2>1. syms'[n].id = n
    BY <1>5, <1>6
  <2>2. CASE num = 0
    <3>1. n = 1 /\ num' = 2 /\ 0 .. num' - 1 = {0, 1}
      BY <1>3, <1>4, <2>2
    <3>2. syms'[0].id = 0
      BY <1>6, <2>2, <3>1 DEF Null
    <3>. QED BY <2>1, <3>1, <3>2 DEF AllThere
  <2>3. CASE num # 0
    <3>1. n = num /\ 0 .. num' - 1 = (0 .. num - 1) \union {n}
      BY <1>2, <1>3, <1>4, <2>3
    <3>2. {syms'[i].id : i \in 0 .. num' - 1} = {syms[i].id : i \in 0 .. num - 1} \union {n}
      <4>1. \A i \in 0 .. num - 1 : syms'[i].id = syms[i].id
        BY <1>10
      <4>2. \A i \in 0 .. num' - 1 : i \in 0 .. num - 1 \/ i = n
        BY <3>1
      <4>3. \A i \in 0 .. num - 1 : i \in 0 .. num' - 1
        BY <3>1
      <4>4. n \in 0 .. num' - 1
        BY <3>1
      <4> DEFINE A == {syms'[i].id : i \in 0 .. num' - 1}
                 B == {syms[i].id : i \in 0 .. num - 1}
      <4>5. \A x \in A : x \in B \union {n}
        BY <2>1, <4>1, <4>2
      <4>6. \A x \in B : x \in A
        BY <4>1, <4>3
      <4>7. n \in A
        BY <2>1, <4>4
      <4> HIDE DEF A, B
      <4>8. A = B \union {n}
        BY <4>5, <4>6, <4>7
      <4>. QED BY <4>8 DEF A, B
    <3>. QED BY <3>1, <3>2 DEF AllThere, IInv
  <2>. QED BY <2>2, <2>3
<1>13. Sorted'
  BY <1>4 DEF Sorted, AddSymbol, Idle
<1>14. TypeOK'
  <2>1. UNCHANGED <<nrels, rels, rela, info, first>> /\ sorted' \in BOOLEAN
    BY DEF AddSymbol, links
  <2>. QED BY <1>4, <1>9, <2>1, Zenon DEF IInv, TypeOK
<1>. QED BY <1>11, <1>12, <1>13, <1>14 DEF IInv

(* A turn of the loop: the two change places, and so do the relocations    *)
(* against them.                                                           *)
LEMMA SwapTwoOK == ASSUME IInv, SwapTwo PROVE IInv'
<1> USE SymbolsAssumption
<1>1. PICK a, b : a = first_not_local /\ b = current
  OBVIOUS
<1>2. first # 0
  BY DEF SwapTwo, Idle
<1>3. /\ num \in Nat /\ num <= SymMod /\ syms \in [0 .. num - 1 -> SymbolSet] /\ nrels \in Nat
      /\ rels \in [0 .. nrels - 1 -> RelSet] /\ info \in Nat
      /\ TypeMod \in Nat \ {0} /\ SymMod \in Nat \ {0}
  BY DEF IInv, TypeOK
<1>4. /\ a \in Nat /\ b \in Nat /\ 1 <= a /\ a < b /\ b < num
      /\ a \in 0 .. num - 1 /\ b \in 0 .. num - 1
  BY <1>1, <1>2, <1>3, FirstNotLocal, Current DEF SwapTwo, IInv, TypeOK
<1>5. syms[a].bind # "LOCAL" /\ syms[b].bind = "LOCAL"
  BY <1>1, <1>2, <1>3, <1>4, FirstNotLocal, Current
<1>6. /\ rels' = SwapSymbols(a, b) /\ first' = a
      /\ syms' = [syms EXCEPT ![a] = syms[b], ![b] = syms[a]]
      /\ UNCHANGED <<num, info, nrels, meant, rela, sorted>>
  BY <1>1 DEF SwapTwo
<1>7. /\ syms' \in [0 .. num - 1 -> SymbolSet] /\ syms'[a] = syms[b] /\ syms'[b] = syms[a]
      /\ \A i \in 0 .. num - 1 : i # a /\ i # b => syms'[i] = syms[i]
  BY <1>3, <1>4, <1>6
<1>8. ASSUME NEW k \in 0 .. nrels - 1
      PROVE  rels'[k] \in RelSet /\ Right(rels'[k], meant[k], num, syms', rela)
  <2>1. PICK r \in RelSet : r = rels[k]
    BY <1>3
  <2>2. r.sym \in Nat /\ r.type \in Nat /\ r.addend \in Int
    BY DEF RelSet
  <2>3. PICK t \in Nat : t = r.type % TypeMod /\ t % TypeMod = t
    BY SMTT(30), <1>3, <2>2
  <2>4. PICK d \in Int : d = IF rela THEN r.addend ELSE 0
    BY <2>2
  <2>5. rels'[k] = CASE r.sym = a -> [sym |-> b, type |-> t, addend |-> d]
                     [] r.sym = b -> [sym |-> a, type |-> t, addend |-> d]
                     [] OTHER -> r
    <3>1. a % SymMod = a /\ b % SymMod = b
      <4>1. a < SymMod /\ b < SymMod /\ a \in Nat /\ b \in Nat
        BY <1>3, <1>4
      <4>. QED BY <1>3, <4>1
    <3>2. GetEntry(r) = [sym |-> r.sym, type |-> t, addend |-> d]
      BY <2>3, <2>4 DEF GetEntry
    <3>3. /\ Entry(b, t, d) = [sym |-> b, type |-> t, addend |-> d]
          /\ Entry(a, t, d) = [sym |-> a, type |-> t, addend |-> d]
      BY <2>4, <3>1 DEF Entry
    <3>. QED BY <1>3, <1>6, <2>1, <3>2, <3>3 DEF SwapSymbols
  <2>6. Right(r, meant[k], num, syms, rela)
    BY <2>1 DEF IInv, RelsRight
  <2>7. (IF rela THEN d ELSE 0) = (IF rela THEN r.addend ELSE 0)
    BY <2>4
  <2>8. CASE r.sym = a
    <3>1. rels'[k] = [sym |-> b, type |-> t, addend |-> d]
      BY <2>5, <2>8
    <3>2. rels'[k] \in RelSet
      BY <1>4, <3>1 DEF RelSet
    <3>3. b < num /\ rels'[k].sym = b /\ rels'[k].type = t /\ rels'[k].addend = d
      BY <1>4, <3>1
    <3>4. Right(rels'[k], meant[k], num, syms', rela)
      BY <1>7, <2>3, <2>6, <2>7, <2>8, <3>3 DEF Right
    <3>. QED BY <3>2, <3>4
  <2>9. CASE r.sym = b
    <3>1. rels'[k] = [sym |-> a, type |-> t, addend |-> d]
      BY <1>4, <2>5, <2>9
    <3>2. rels'[k] \in RelSet
      BY <1>4, <3>1 DEF RelSet
    <3>3. a < num /\ rels'[k].sym = a /\ rels'[k].type = t /\ rels'[k].addend = d
      BY <1>3, <1>4, <3>1
    <3>4. Right(rels'[k], meant[k], num, syms', rela)
      BY <1>7, <2>3, <2>6, <2>7, <2>9, <3>3 DEF Right
    <3>. QED BY <3>2, <3>4
  <2>10. CASE r.sym # a /\ r.sym # b
    <3>1. rels'[k] = r
      BY <2>5, <2>10
    <3>2. r.sym \in 0 .. num - 1
      BY <1>3, <2>2, <2>6 DEF Right
    <3>. QED BY <1>7, <2>6, <2>10, <3>1, <3>2 DEF Right
  <2>. QED BY <2>8, <2>9, <2>10
<1>9. RelsRight'
  BY <1>6, <1>8 DEF RelsRight
<1>10. rels' \in [0 .. nrels - 1 -> RelSet]
  <2>1. rels' = [k \in 0 .. nrels - 1 |-> rels'[k]]
    BY <1>3, <1>6 DEF SwapSymbols
  <2>. QED BY <1>8, <2>1
<1>11. AllThere'
  <2>1. {syms'[i].id : i \in 0 .. num - 1} = {syms[i].id : i \in 0 .. num - 1}
    <3>1. \A i \in 0 .. num - 1 : \E j \in 0 .. num - 1 : syms'[i] = syms[j]
      BY <1>4, <1>7
    <3>2. \A i \in 0 .. num - 1 : \E j \in 0 .. num - 1 : syms[i] = syms'[j]
      BY <1>4, <1>7
    <3>3. \A x \in {syms'[i].id : i \in 0 .. num - 1} : x \in {syms[i].id : i \in 0 .. num - 1}
      BY <3>1
    <3>4. \A x \in {syms[i].id : i \in 0 .. num - 1} : x \in {syms'[i].id : i \in 0 .. num - 1}
      BY <3>2
    <3>. QED BY <3>3, <3>4
  <2>. QED BY <1>6, <2>1 DEF IInv, AllThere
<1>12. Sorted'
  <2>1. \A i \in 1 .. a - 1 : i < num /\ syms[i].bind = "LOCAL"
    BY <1>1, <1>2, FirstNotLocal
  <2>2. \A i \in 1 .. a - 1 : syms'[i] = syms[i]
    BY <1>3, <1>4, <1>7
  <2>3. ~sorted
    <3>1. a \in 1 .. num - 1 /\ b \in 1 .. num - 1
      BY <1>3, <1>4
    <3>. QED BY <1>3, <1>4, <1>5, <3>1 DEF IInv, Sorted
  <2>4. a <= num
    BY <1>3, <1>4
  <2>. QED BY <1>6, <2>1, <2>2, <2>3, <2>4 DEF Sorted
<1>13. TypeOK'
  <2>1. first' \in 0 .. MaxSymbols + 1
    BY <1>3, <1>4, <1>6 DEF IInv, TypeOK
  <2>. QED BY <1>6, <1>7, <1>10, <2>1, Zenon DEF IInv, TypeOK
<1>. QED BY <1>9, <1>11, <1>12, <1>13 DEF IInv

(* The end of the loop: what is left is not local.                         *)
LEMMA SetInfoOK == ASSUME IInv, SetInfo PROVE IInv'
<1> USE SymbolsAssumption
<1>1. PICK a, b : a = first_not_local /\ b = current
  OBVIOUS
<1>2. first # 0
  BY DEF SetInfo, Idle
<1>3. num \in Nat /\ num <= MaxSymbols
  BY DEF IInv, TypeOK
<1>4. /\ a \in Nat /\ b \in Nat /\ 1 <= a /\ (a <= num \/ a <= 1)
      /\ a >= num \/ syms[a].bind # "LOCAL"
      /\ \A i \in 1 .. a - 1 : i < num /\ syms[i].bind = "LOCAL"
      /\ \A i \in a + 1 .. num - 1 : i < b => syms[i].bind # "LOCAL"
  <2>1. first_not_local >= first /\ first >= 1 /\ first \in Nat
    BY <1>2, FirstNotLocal DEF IInv, TypeOK
  <2>2. first_not_local >= 1
    BY <1>2, <2>1, FirstNotLocal
  <2>. QED BY <1>1, <1>2, <2>2, FirstNotLocal, Current
<1>5. a >= num \/ b >= num
  BY <1>1, <1>3, <1>4 DEF SetInfo
<1>6. UNCHANGED <<num, syms, nrels, rels, meant, rela>> /\ info' = a /\ first' = 0 /\ sorted' = TRUE
  BY <1>1 DEF SetInfo, links
<1>7. ASSUME NEW i \in 1 .. num - 1
      PROVE  i < a <=> syms[i].bind = "LOCAL"
  <2>1. CASE i < a
    BY <1>4, <2>1
  <2>2. CASE i = a
    BY <1>3, <1>4, <2>2
  <2>3. CASE i > a
    <3>1. i \in a + 1 .. num - 1 /\ i < b
      BY <1>3, <1>4, <1>5, <2>3
    <3>2. syms[i].bind # "LOCAL"
      BY <1>4, <3>1
    <3>. QED BY <1>4, <2>3, <3>2
  <2>. QED BY <1>4, <2>1, <2>2, <2>3
<1>8. Sorted'
  BY <1>6, <1>7 DEF Sorted
<1>9. RelsRight' /\ AllThere'
  BY <1>6 DEF IInv, RelsRight, AllThere
<1>10. TypeOK'
  <2>1. info' \in 0 .. MaxSymbols + 1 /\ first' \in 0 .. MaxSymbols + 1 /\ sorted' \in BOOLEAN
    BY <1>3, <1>4, <1>6
  <2>. QED BY <1>6, <2>1, Zenon DEF IInv, TypeOK
<1>. QED BY <1>8, <1>9, <1>10 DEF IInv

(* One step per action.                                                    *)
LEMMA StepInv == IInv /\ [Next]_vars => IInv'
<1> SUFFICES ASSUME IInv, [Next]_vars PROVE IInv'
  OBVIOUS
<1> USE SymbolsAssumption
<1>1. CASE AddSymbol
  BY <1>1, AddSymbolOK
<1>2. CASE AddEntry
  <2>1. PICK sym \in 0 .. num - 1, type \in RelTypes, addend \in Addends :
          PutEntry(nrels, sym, type, addend)
    BY <1>2 DEF AddEntry
  <2>2. nrels' = nrels + 1 /\ nrels' \in 0 .. MaxRels /\ nrels \in 0 .. nrels
    BY <1>2 DEF AddEntry, IInv, TypeOK
  <2>3. UNCHANGED <<num, syms, info, rela, first, sorted>>
    BY <1>2 DEF AddEntry, table
  <2>. QED BY <2>1, <2>2, <2>3, PutRight
<1>3. CASE SetEntry
  <2>1. PICK k \in 0 .. nrels - 1, sym \in 0 .. num - 1, type \in RelTypes, addend \in Addends :
          PutEntry(k, sym, type, addend)
    BY <1>3 DEF SetEntry
  <2>2. nrels' = nrels /\ nrels' \in 0 .. MaxRels /\ k # nrels /\ k \in 0 .. nrels
    BY <1>3 DEF SetEntry, IInv, TypeOK
  <2>3. UNCHANGED <<num, syms, info, rela, first, sorted>>
    BY <1>3 DEF SetEntry, table
  <2>. QED BY <2>1, <2>2, <2>3, PutRight
<1>4. CASE Arrange
  <2>1. UNCHANGED <<num, syms, nrels, rels, meant, rela, info, sorted>> /\ first' = 1
    BY <1>4 DEF Arrange, table, links
  <2>2. first' \in 0 .. MaxSymbols + 1
    BY <2>1
  <2>3. Sorted'
    BY <2>1 DEF IInv, Sorted
  <2>4. RelsRight' /\ AllThere'
    BY <2>1 DEF IInv, RelsRight, AllThere
  <2>5. TypeOK'
    BY <2>1, <2>2, Zenon DEF IInv, TypeOK
  <2>. QED BY <2>3, <2>4, <2>5 DEF IInv
<1>5. CASE SwapTwo
  BY <1>5, SwapTwoOK
<1>6. CASE SetInfo
  BY <1>6, SetInfoOK
<1>7. CASE UNCHANGED vars
  <2>1. UNCHANGED <<num, syms, nrels, rels, meant, rela, info, first, sorted>>
    BY <1>7 DEF vars, table, links
  <2>2. RelsRight' /\ AllThere' /\ Sorted'
    BY <2>1 DEF IInv, RelsRight, AllThere, Sorted
  <2>3. TypeOK'
    BY <2>1, Zenon DEF IInv, TypeOK
  <2>. QED BY <2>2, <2>3 DEF IInv
<1>. QED BY <1>1, <1>2, <1>3, <1>4, <1>5, <1>6, <1>7 DEF Next

(* Whatever was added, set and arranged, in whatever order, a relocation   *)
(* is against the symbol it was made for and has its type and its value:   *)
(* the callback that swap_symbols is run in undoes what the swap of the    *)
(* symbols does (elfio_relocation.hpp, swap_symbols).                      *)
THEOREM RelocationsFollow == Spec => []SameSymbol
<1>1. IInv => SameSymbol
  <2> SUFFICES ASSUME IInv, NEW k \in 0 .. nrels - 1
               PROVE  LET r == GetEntry(rels[k])
                      IN  /\ r.sym < num /\ syms[r.sym].id = meant[k].id
                          /\ meant[k].type < TypeMod =>
                               r.type = meant[k].type
                                 /\ CalcValue(r.type, syms[r.sym].value, r.addend, 0) = meant[k].value
    BY DEF SameSymbol
  <2>1. Right(rels[k], meant[k], num, syms, rela)
    BY DEF IInv, RelsRight
  <2>2. GetEntry(rels[k]) = [sym |-> rels[k].sym, type |-> rels[k].type % TypeMod,
                             addend |-> IF rela THEN rels[k].addend ELSE 0]
    BY DEF GetEntry
  <2>. QED BY <2>1, <2>2 DEF Right
<1>. QED BY <1>1, InitInv, StepInv, PTL DEF Spec

(* When arrange_local_symbols has returned, the local symbols and only     *)
(* they are below sh_info; and every symbol that was ever added is there,  *)
(* once, at every turn of the loop.                                        *)
THEOREM LocalsAreFirst == Spec => []LocalsFirst
<1>1. IInv => LocalsFirst
  BY DEF IInv, Sorted, AllThere, LocalsFirst
<1>. QED BY <1>1, InitInv, StepInv, PTL DEF Spec

----------------------------------------------------------------------------
(* Induction over a set of naturals.                                       *)
LEMMA SetInduction ==
  ASSUME NEW T, T \subseteq Nat, 0 \in T, \A n \in T : n + 1 \in T
  PROVE  \A n \in Nat : n \in T
<1> SUFFICES ASSUME Nat \ T # {} PROVE FALSE
  OBVIOUS
<1>1. Least(Nat \ T) \in Nat \ T /\ \A y \in Nat \ T : Least(Nat \ T) <= y
  BY LeastIs
<1>2. PICK x \in Nat \ T : \A y \in Nat \ T : x <= y
  BY <1>1
<1>3. x # 0 /\ x - 1 \in Nat /\ x - 1 \in T
  BY <1>2
<1>4. (x - 1) + 1 \in T
  BY <1>3
<1>. QED BY <1>2, <1>4

(* g starts at a and goes on by F, for m steps.                            *)
IsWalk(g, S, a, F, m) ==
  g \in [0 .. m -> S] /\ g[0] = a /\ \A k \in 1 .. m : g[k] = F[g[k - 1]]

(* A function that is defined by its own earlier values exists.            *)
LEMMA WalkExists ==
  ASSUME NEW S, NEW a \in S, NEW F \in [S -> S], NEW m \in Nat
  PROVE  \E g : IsWalk(g, S, a, F, m)
<1> DEFINE Is(g, n) == g[0] = a /\ \A k \in 1 .. n : g[k] = F[g[k - 1]]
           T == {n \in Nat : \E g \in [0 .. n -> S] : Is(g, n)}
<1>1. 0 \in T
  <2>1. [k \in 0 .. 0 |-> a] \in [0 .. 0 -> S] /\ Is([k \in 0 .. 0 |-> a], 0)
    OBVIOUS
  <2>. QED BY <2>1
<1>2. ASSUME NEW n \in T PROVE n + 1 \in T
  <2>1. n \in Nat
    OBVIOUS
  <2>2. PICK g \in [0 .. n -> S] : Is(g, n)
    OBVIOUS
  <2>3. PICK v \in S : v = F[g[n]]
    BY <2>1
  <2>4. PICK h : h = [k \in 0 .. n + 1 |-> IF k = n + 1 THEN v ELSE g[k]]
    OBVIOUS
  <2>5. h \in [0 .. n + 1 -> S]
    BY <2>1, <2>4
  <2>6. \A k \in 0 .. n : h[k] = g[k]
    BY <2>1, <2>4
  <2>7. h[n + 1] = v
    BY <2>1, <2>4
  <2>8. h[0] = a
    BY <2>1, <2>2, <2>6
  <2>9. ASSUME NEW k \in 1 .. n + 1 PROVE h[k] = F[h[k - 1]]
    <3>1. k - 1 \in 0 .. n /\ h[k - 1] = g[k - 1]
      BY <2>1, <2>6
    <3>2. CASE k = n + 1
      BY <2>1, <2>3, <2>7, <3>1, <3>2
    <3>3. CASE k # n + 1
      <4>1. k \in 1 .. n
        BY <2>1, <3>3
      <4>2. k \in 0 .. n
        BY <4>1
      <4>. QED BY <2>2, <2>6, <3>1, <4>1, <4>2
    <3>. QED BY <3>2, <3>3
  <2>. QED BY <2>1, <2>5, <2>8, <2>9
<1>3. m \in T
  <2> HIDE DEF T
  <2>1. T \subseteq Nat
    BY DEF T
  <2>. QED BY <1>1, <1>2, <2>1, SetInduction
<1>. QED BY <1>3 DEF IsWalk

(* The hash table of the file is about symbols that are still there.       *)
Inside == DOMAIN hash.of \subseteq 1 .. num - 1

(* Buckets and chains of such a table lead to symbols that are there.      *)
LEMMA BucketInside ==
  ASSUME Inside, num \in Nat \ {0}
  PROVE  /\ \A b : Bucket(b) \in 0 .. num - 1
         /\ \A i \in Int : Chain(i) \in 0 .. num - 1
<1>1. 0 \in 0 .. num - 1 /\ 1 .. num - 1 \subseteq Nat /\ 1 .. num - 1 \subseteq 0 .. num - 1
  OBVIOUS
<1>2. ASSUME NEW b PROVE Bucket(b) \in 0 .. num - 1
  <2> DEFINE here == {i \in DOMAIN hash.of : hash.of[i] % NBuckets = b}
  <2>1. here \subseteq Nat /\ here \subseteq 0 .. num - 1
    BY <1>1 DEF Inside
  <2>2. here # {} => Least(here) \in here
    BY <2>1, LeastIs
  <2>. QED BY <1>1, <2>1, <2>2 DEF Bucket
<1>3. ASSUME NEW i \in Int PROVE Chain(i) \in 0 .. num - 1
  <2> DEFINE next == {j \in DOMAIN hash.of : j > i /\ hash.of[j] % NBuckets = hash.of[i] % NBuckets}
  <2>1. next \subseteq Nat /\ next \subseteq 0 .. num - 1
    BY <1>1 DEF Inside
  <2>2. next # {} => Least(next) \in next
    BY <2>1, LeastIs
  <2>. QED BY <1>1, <2>1, <2>2 DEF Chain
<1>. QED BY <1>2, <1>3

(* What the three searches find has the name; the linear one finds what    *)
(* there is.                                                               *)
LEMMA LinearFinds ==
  ASSUME num \in Nat, NEW name
  PROVE  \/ Linear(name) = NoSymbol /\ \A j \in 0 .. num - 1 : syms[j].name # name
         \/ Linear(name) \in 0 .. num - 1 /\ syms[Linear(name)].name = name
<1> DEFINE here == {i \in 0 .. num - 1 : syms[i].name = name}
<1>1. here \subseteq Nat
  OBVIOUS
<1>2. here # {} => Least(here) \in here
  BY <1>1, LeastIs
<1>. QED BY <1>2 DEF Linear

(* What the walk along a chain returns is a symbol of that name.           *)
LEMMA HashFinds ==
  ASSUME Inside, num \in Nat \ {0}, NEW name
  PROVE  \/ hash_lookup(name) = NoSymbol
         \/ hash_lookup(name) \in 0 .. num - 1 /\ syms[hash_lookup(name)].name = name
<1> DEFINE S == 0 .. num - 1
           F == [s \in S |-> IF syms[s].name = name \/ s = 0 THEN s ELSE Chain(s)]
           b == Bucket(HashOf[name] % NBuckets)
           Eq(y) == y = [k \in 0 .. num |->
                           IF k = 0 THEN b
                           ELSE IF syms[y[k - 1]].name = name \/ y[k - 1] = 0 THEN y[k - 1]
                           ELSE Chain(y[k - 1])]
           walk == CHOOSE y : Eq(y)
<1>1. b \in S /\ F \in [S -> S]
  BY BucketInside
<1>2. num \in Nat
  OBVIOUS
<1>3. PICK g \in [0 .. num -> S] : g[0] = b /\ \A k \in 1 .. num : g[k] = F[g[k - 1]]
  <2> HIDE DEF S, F, b
  <2>1. PICK g : IsWalk(g, S, b, F, num)
    BY <1>1, <1>2, WalkExists
  <2>. QED BY <2>1 DEF IsWalk
<1>4. Eq(g)
  <2>1. ASSUME NEW k \in 1 .. num
        PROVE  g[k] = IF syms[g[k - 1]].name = name \/ g[k - 1] = 0 THEN g[k - 1]
                      ELSE Chain(g[k - 1])
    <3>1. k - 1 \in 0 .. num
      BY <1>2
    <3>2. g[k - 1] \in S
      <4> HIDE DEF S
      <4>. QED BY <1>3, <3>1
    <3>. QED BY <1>3, <3>2
  <2>2. \A k \in 0 .. num : k = 0 \/ k \in 1 .. num
    BY <1>2
  <2>3. g = [k \in 0 .. num |-> g[k]]
    BY <1>3
  <2> HIDE DEF S, F, b
  <2>. QED BY <1>3, <2>1, <2>2, <2>3
<1>5. Eq(walk)
  <2> HIDE DEF Eq
  <2>. QED BY <1>4
<1>6. hash_lookup(name) = IF syms[walk[num]].name = name THEN walk[num] ELSE NoSymbol
  BY DEF hash_lookup
<1>7. walk[num] \in S
  <2> DEFINE T == {k \in Nat : k <= num => walk[k] \in S}
  <2> HIDE DEF walk
  <2>1. 0 \in T
    BY <1>1, <1>5
  <2>2. ASSUME NEW k \in T PROVE k + 1 \in T
    <3> SUFFICES ASSUME k + 1 <= num PROVE walk[k + 1] \in S
      OBVIOUS
    <3>1. k \in Nat /\ walk[k] \in S /\ k + 1 \in 0 .. num /\ (k + 1) - 1 = k /\ k + 1 # 0
      OBVIOUS
    <3>2. walk[k + 1] = IF syms[walk[k]].name = name \/ walk[k] = 0 THEN walk[k] ELSE Chain(walk[k])
      BY <1>5, <3>1
    <3>3. Chain(walk[k]) \in S
      <4>1. walk[k] \in Int
        BY SMTT(30), <3>1
      <4>. QED BY <4>1, BucketInside
    <3>. QED BY <3>1, <3>2, <3>3
  <2>3. num \in T
    <3> HIDE DEF T
    <3>1. T \subseteq Nat
      BY DEF T
    <3>. QED BY <2>1, <2>2, <3>1, SetInduction
  <2>. QED BY <2>3
<1> HIDE DEF walk
<1>. QED BY <1>6, <1>7

(* So is what the search of the GNU table returns.                         *)
LEMMA GnuFinds ==
  ASSUME Inside, num \in Nat, NEW name
  PROVE  \/ gnu_hash_lookup(name) = NoSymbol
         \/ gnu_hash_lookup(name) \in 0 .. num - 1 /\ syms[gnu_hash_lookup(name)].name = name
<1> DEFINE h     == HashOf[name]
           start == Bucket(h % NBuckets)
           found == {i \in DOMAIN hash.of : /\ i >= start /\ start # 0
                                            /\ hash.of[i] % NBuckets = h % NBuckets
                                            /\ hash.of[i] \div 2 = h \div 2
                                            /\ syms[i].name = name}
<1>1. found \subseteq Nat /\ \A i \in found : i \in 0 .. num - 1 /\ syms[i].name = name
  BY DEF Inside
<1>2. found # {} => Least(found) \in found
  BY <1>1, LeastIs
<1>3. gnu_hash_lookup(name) = NoSymbol \/ (found # {} /\ gnu_hash_lookup(name) = Least(found))
  BY DEF gnu_hash_lookup
<1>. QED BY <1>1, <1>2, <1>3

(* Whatever was added and arranged since the hash table was built, a       *)
(* symbol is found by its name, and by its value, if it is there, and what *)
(* is found has it (elfio_symbols.hpp, get_symbol and its fall-back).      *)
THEOREM LookupsAgree == Spec => []LookupFinds
<1>1. ASSUME Init PROVE Inside
  <2>1. CASE hash = [type |-> "none", of |-> <<>>, full |-> FALSE]
    BY <2>1 DEF Inside
  <2>2. ASSUME NEW t \in Tables, num = Cardinality(DOMAIN t), NEW from \in 1 .. num,
               NEW type, NEW full,
               hash = [type |-> type, full |-> full,
                       of |-> [i \in from .. num - 1 |-> HashOf[t[i].name]]]
        PROVE  Inside
    <3>1. hash.of = [i \in from .. num - 1 |-> HashOf[t[i].name]]
      BY <2>2
    <3>2. DOMAIN hash.of = from .. num - 1
      BY <3>1
    <3>3. PICK n \in 1 .. MaxSymbols : DOMAIN t = 0 .. n - 1
      BY SymbolsAssumption
    <3>4. num \in Nat
      <4>1. n \in Nat
        BY SymbolsAssumption
      <4>2. 0 \in Int /\ n - 1 \in Int
        BY <4>1
      <4>3. Cardinality(0 .. n - 1) = IF 0 > n - 1 THEN 0 ELSE (n - 1) - 0 + 1
        BY <4>2, FS_Interval
      <4>. QED BY <2>2, <3>3, <4>1, <4>3
    <3>. QED BY <3>2, <3>4 DEF Inside
  <2> SUFFICES ASSUME hash # [type |-> "none", of |-> <<>>, full |-> FALSE] PROVE Inside
    BY <2>1
  <2>3. PICK t \in Tables :
          /\ num = Cardinality(DOMAIN t)
          /\ \E from \in 1 .. num, type \in {"none", "HASH", "GNU_HASH"}, full \in BOOLEAN :
               /\ type # "GNU_HASH" => from = 1 /\ ~full
               /\ type = "GNU_HASH" => GnuOrdered(t, from)
               /\ hash = [type |-> type, full |-> full,
                          of |-> [i \in from .. num - 1 |-> HashOf[t[i].name]]]
    BY <1>1, Zenon DEF Init
  <2>4. PICK from \in 1 .. num, type \in {"none", "HASH", "GNU_HASH"}, full \in BOOLEAN :
          hash = [type |-> type, full |-> full,
                  of |-> [i \in from .. num - 1 |-> HashOf[t[i].name]]]
    BY <2>3, Zenon
  <2>. QED BY <2>2, <2>3, <2>4
<1>2. IInv /\ Inside /\ [Next]_vars => Inside'
  BY DEF IInv, TypeOK, Inside, Next, AddSymbol, AddEntry, SetEntry, Arrange, SwapTwo, SetInfo, vars, table
<1>3. IInv /\ Inside => LookupFinds
  <2> SUFFICES ASSUME IInv, Inside, num > 0 PROVE LookupFinds
    BY DEF LookupFinds
  <2>1. num \in Nat \ {0}
    BY DEF IInv, TypeOK
  <2>2. ASSUME NEW name \in Names
        PROVE  LET i == SymbolByName(name)
               IN  IF i = NoSymbol THEN \A j \in 0 .. num - 1 : syms[j].name # name
                   ELSE i < num /\ syms[i].name = name
    <3> DEFINE hashed == CASE hash.type = "HASH" -> hash_lookup(name)
                           [] hash.type = "GNU_HASH" -> gnu_hash_lookup(name)
                           [] OTHER -> NoSymbol
    <3>1. hashed = NoSymbol \/ (hashed \in 0 .. num - 1 /\ syms[hashed].name = name)
      BY <2>1, HashFinds, GnuFinds
    <3>2. SymbolByName(name) = IF hashed # NoSymbol THEN hashed ELSE Linear(name)
      BY DEF SymbolByName
    <3> HIDE DEF hashed
    <3>3. NoSymbol \notin 0 .. num - 1
      BY DEF NoSymbol
    <3>. QED BY <2>1, <3>1, <3>2, <3>3, LinearFinds
  <2>3. ASSUME NEW s \in Symbols
        PROVE  SymbolByValue(s.value) # NoSymbol <=> \E j \in 0 .. num - 1 : syms[j].value = s.value
    <3> DEFINE here == {i \in 0 .. num - 1 : syms[i].value = s.value}
    <3>1. here \subseteq Nat
      OBVIOUS
    <3>2. here # {} => Least(here) \in here
      BY <3>1, LeastIs
    <3>3. NoSymbol \notin Nat
      BY DEF NoSymbol
    <3>. QED BY <3>1, <3>2, <3>3 DEF SymbolByValue
  <2>. QED BY <2>2, <2>3 DEF LookupFinds
<1>. QED BY <1>1, <1>2, <1>3, InitInv, StepInv, PTL DEF Spec

----------------------------------------------------------------------------
(* The second part: the accessors.                                         *)

LEMMA NatInduct ==
  ASSUME NEW T, T \subseteq Nat, 0 \in T, \A n \in T : n + 1 \in T
  PROVE  \A n \in Nat : n \in T
<1> SUFFICES ASSUME Nat \ T # {} PROVE FALSE
  OBVIOUS
<1>1. PICK x \in Nat \ T : \A y \in Nat \ T : ~(<<y, x>> \in OpToRel(<, Nat))
  BY NatLessThanWellFounded, WFMin
<1>2. \A y \in Nat \ T : ~(y < x)
  BY <1>1 DEF OpToRel
<1>3. \A y \in Nat \ T : x <= y
  BY <1>2
<1>4. x # 0 /\ x - 1 \in Nat /\ x - 1 \in T
  BY <1>3
<1>5. (x - 1) + 1 \in T
  BY <1>4
<1>6. (x - 1) + 1 = x
  OBVIOUS
<1>. QED BY <1>5, <1>6

(* What holds at 0 and passes to the next holds up to n.                   *)
LEMMA IndexInduction ==
  ASSUME NEW n \in Nat, NEW P, 0 \in P, \A i \in 1 .. n : i - 1 \in P => i \in P
  PROVE  \A i \in 0 .. n : i \in P
<1> DEFINE T == {i \in Nat : i <= n => i \in P}
<1>1. 0 \in T
  OBVIOUS
<1>2. ASSUME NEW i \in T  PROVE i + 1 \in T
  <2>1. (i + 1) - 1 = i /\ (i + 1 <= n => i + 1 \in 1 .. n /\ i \in P)
    OBVIOUS
  <2>. QED BY <2>1
<1>3. T \subseteq Nat
  OBVIOUS
<1> HIDE DEF T
<1>4. \A i \in Nat : i \in T
  BY <1>1, <1>2, <1>3, NatInduct
<1>. QED BY <1>4 DEF T

(* A function on 0 .. n can be defined from the value before.              *)
LEMMA Recursion ==
  ASSUME NEW n \in Nat, NEW b \in Int, NEW h \in [(0 .. n) \X Int -> Int]
  PROVE  \E f \in [0 .. n -> Int] : f[0] = b /\ \A i \in 1 .. n : f[i] = h[<<i, f[i - 1]>>]
<1> DEFINE OK(f, k) == f \in [0 .. k -> Int] /\ f[0] = b /\ \A i \in 1 .. k : f[i] = h[<<i, f[i - 1]>>]
           P == {k \in 0 .. n : \E f : OK(f, k)}
<1>1. 0 \in P
  <2> DEFINE f == [i \in 0 .. 0 |-> b]
  <2>1. f \in [0 .. 0 -> Int] /\ f[0] = b /\ 1 .. 0 = {} /\ 0 \in 0 .. n
    OBVIOUS
  <2> HIDE DEF f
  <2>2. OK(f, 0)
    BY <2>1
  <2>. QED BY <2>1, <2>2
<1>2. ASSUME NEW k \in 1 .. n, k - 1 \in P  PROVE k \in P
  <2>1. PICK f : OK(f, k - 1)
    BY <1>2
  <2> DEFINE g == [i \in 0 .. k |-> IF i = k THEN h[<<k, f[k - 1]>>] ELSE f[i]]
  <2>2. f[k - 1] \in Int /\ k \in 0 .. n
    BY <2>1
  <2>3. h[<<k, f[k - 1]>>] \in Int
    BY <2>2
  <2>4. g \in [0 .. k -> Int]
    <3> SUFFICES ASSUME NEW i \in 0 .. k  PROVE g[i] \in Int
      OBVIOUS
    <3>. QED BY <2>1, <2>3
  <2>5. g[0] = b
    BY <2>1
  <2>6. ASSUME NEW i \in 1 .. k  PROVE g[i] = h[<<i, g[i - 1]>>]
    <3>1. i - 1 \in 0 .. k /\ i - 1 # k /\ i \in 0 .. k
      OBVIOUS
    <3>2. g[i - 1] = f[i - 1]
      BY <3>1
    <3>3. CASE i = k
      BY <3>1, <3>2, <3>3
    <3>4. CASE i # k
      <4>1. i \in 1 .. k - 1
        BY <3>4
      <4>2. f[i] = h[<<i, f[i - 1]>>]
        BY <2>1, <4>1
      <4>. QED BY <3>1, <3>2, <3>4, <4>2
    <3>. QED BY <3>3, <3>4
  <2> HIDE DEF g
  <2>7. OK(g, k)
    BY <2>4, <2>5, <2>6
  <2> HIDE DEF OK
  <2>8. \E x : OK(x, k)
    BY <2>7
  <2>. QED BY <2>2, <2>8
<1> HIDE DEF P
<1>3. n \in P
  BY <1>1, <1>2, IndexInduction
<1>. QED BY <1>3 DEF P

----------------------------------------------------------------------------
(* Numbers in base Radix.                                                  *)
LEMMA Digits ==
  ASSUME NEW d \in Nat, d > 0, NEW a \in Int, NEW r \in 0 .. d - 1
  PROVE  (a * d + r) \div d = a /\ (a * d + r) % d = r
<1>1. PICK n \in Int : n = a * d + r
  OBVIOUS
<1>2. PICK q \in Int, s \in Int : q = n \div d /\ s = n % d /\ n = d * q + s /\ 0 <= s /\ s < d
  OBVIOUS
<1>3. PICK e \in Int : e = a - q
  OBVIOUS
<1>4. d * e = s - r
  BY <1>1, <1>2, <1>3
<1>5. CASE e >= 1
  <2>1. d * e >= d
    BY <1>5
  <2>. QED BY <1>2, <1>4, <2>1
<1>6. CASE e <= -1
  <2>1. d * e <= -d
    BY <1>6
  <2>. QED BY <1>2, <1>4, <2>1
<1>7. CASE e = 0
  <2>1. d * e = 0
    BY <1>7
  <2>2. q = a /\ s = r
    BY <1>2, <1>3, <1>4, <1>7, <2>1
  <2>. QED BY <1>1, <1>2, <2>2
<1>. QED BY <1>5, <1>6, <1>7

LEMMA DivisionIs ==
  ASSUME NEW x \in Nat, NEW d \in Nat, d > 0
  PROVE  x \div d \in Nat /\ x % d \in 0 .. d - 1 /\ x = (x \div d) * d + (x % d)
<1>1. PICK q \in Int, s \in Int : q = x \div d /\ s = x % d /\ x = d * q + s /\ 0 <= s /\ s < d
  OBVIOUS
<1>2. q >= 0
  <2>1. CASE q <= -1
    <3>1. d * q <= -d
      BY <2>1
    <3>. QED BY <1>1, <3>1
  <2>. QED BY <2>1
<1>3. q * d = d * q
  OBVIOUS
<1>. QED BY <1>1, <1>2, <1>3

LEMMA DivisionTwice ==
  ASSUME NEW x \in Nat, NEW p \in Nat, NEW r \in Nat, p > 0, r > 0
  PROVE  x \div (p * r) = (x \div p) \div r
<1>1. PICK u \in Nat, s \in 0 .. p - 1 : u = x \div p /\ x = u * p + s
  BY DivisionIs
<1>2. PICK v \in Nat, t \in 0 .. r - 1 : v = u \div r /\ u = v * r + t
  BY DivisionIs
<1>3. PICK m \in Nat : m = p * r /\ m > 0
  <2>1. p * r > 0
    OBVIOUS
  <2>. QED BY <2>1
<1>4. PICK w \in Int : w = t * p + s
  OBVIOUS
<1>5. x = v * m + w
  <2>1. x = (v * r + t) * p + s
    BY <1>1, <1>2
  <2>2. (v * r + t) * p = v * (p * r) + t * p
    OBVIOUS
  <2>. QED BY <1>3, <1>4, <2>1, <2>2
<1>6. w \in 0 .. m - 1
  <2>1. t * p >= 0
    OBVIOUS
  <2>2. t * p <= (r - 1) * p
    OBVIOUS
  <2>3. (r - 1) * p = p * r - p
    OBVIOUS
  <2>. QED BY <1>3, <1>4, <2>1, <2>2, <2>3
<1>7. x \div m = v
  BY <1>3, <1>5, <1>6, Digits
<1>. QED BY <1>1, <1>2, <1>3, <1>7

LEMMA Sizes ==
  /\ Radix \in Nat /\ Radix > 1 /\ WordSize \in Nat /\ WordSize > 0
  /\ Bytes[32] \in Nat /\ Bytes[64] \in Nat /\ Bytes[32] <= Bytes[64]
  /\ MaxItems \in Nat /\ MaxAccessors \in Nat
  BY AccessorsAssumption

(* The places are the powers of Radix.                                     *)
LEMMA PlaceIs ==
  /\ Place[0] = 1
  /\ \A k \in 1 .. Bytes[64] : Place[k] = Place[k - 1] * Radix
  /\ \A k \in 0 .. Bytes[64] : Place[k] \in Nat /\ Place[k] > 0
<1>1. PICK n \in Nat : n = Bytes[64]
  BY Sizes
<1> DEFINE h == [p \in (0 .. n) \X Int |-> p[2] * Radix]
           Eq(f) == f = [k \in 0 .. Bytes[64] |-> IF k = 0 THEN 1 ELSE f[k - 1] * Radix]
<1>2. h \in [(0 .. n) \X Int -> Int]
  <2>1. ASSUME NEW p \in (0 .. n) \X Int  PROVE p[2] * Radix \in Int
    BY Sizes
  <2>. QED BY <2>1
<1>3. PICK f \in [0 .. n -> Int] : f[0] = 1 /\ \A i \in 1 .. n : f[i] = h[<<i, f[i - 1]>>]
  <2>1. 1 \in Int
    OBVIOUS
  <2> HIDE DEF h
  <2>. QED BY <1>2, <2>1, Recursion
<1>4. \A i \in 1 .. n : f[i] = f[i - 1] * Radix
  <2> TAKE i \in 1 .. n
  <2>1. <<i, f[i - 1]>> \in (0 .. n) \X Int
    BY <1>3
  <2>. QED BY <1>3, <2>1
<1>5. Eq(f)
  BY <1>1, <1>3, <1>4
<1>6. Eq(Place)
  <2>1. Place = CHOOSE t : Eq(t)
    BY DEF Place
  <2> HIDE DEF Eq
  <2>. QED BY <1>5, <2>1
<1>7. PICK t : t = Place
  OBVIOUS
<1>8. t[0] = 1 /\ \A k \in 1 .. n : t[k] = t[k - 1] * Radix
  BY <1>1, <1>6, <1>7
<1> DEFINE P == {k \in 0 .. n : t[k] \in Nat /\ t[k] > 0}
<1>9. 0 \in P
  BY <1>8
<1>10. ASSUME NEW k \in 1 .. n, k - 1 \in P  PROVE k \in P
  <2>1. PICK x \in Nat : x = t[k - 1] /\ x > 0
    BY <1>10
  <2>2. x * Radix \in Nat /\ x * Radix > 0
    BY <2>1, Sizes
  <2>. QED BY <1>8, <2>1, <2>2
<1> HIDE DEF P
<1>11. \A k \in 0 .. n : k \in P
  BY <1>9, <1>10, IndexInduction
<1>. QED BY <1>1, <1>7, <1>8, <1>11 DEF P

(* The loop of endianess_convertor: the digits so far.                     *)
IsSwap(t, x, n) ==
  /\ t \in [0 .. n -> Nat] /\ t[0] = 0
  /\ \A k \in 1 .. n : t[k] = t[k - 1] * Radix + Byte(x, k - 1)

LEMMA ByteIs ==
  ASSUME NEW x \in Nat, NEW k \in 0 .. Bytes[64]
  PROVE  Byte(x, k) \in 0 .. Radix - 1
<1>1. PICK p \in Nat : p = Place[k] /\ p > 0
  BY PlaceIs
<1>2. PICK q \in Nat : q = x \div p
  BY <1>1, DivisionIs
<1>. QED BY <1>1, <1>2, Sizes, DivisionIs DEF Byte

LEMMA SwapIs ==
  ASSUME NEW x \in Nat, NEW n \in 0 .. Bytes[64]
  PROVE  \E t : IsSwap(t, x, n) /\ ByteSwap(x, n) = t[n]
<1> DEFINE b == [k \in 0 .. n |-> IF k = 0 THEN 0 ELSE Byte(x, k - 1)]
           h == [p \in (0 .. n) \X Int |-> p[2] * Radix + b[p[1]]]
           Eq(f) == f = [k \in 0 .. n |-> IF k = 0 THEN 0 ELSE f[k - 1] * Radix + Byte(x, k - 1)]
<1>1. n \in Nat /\ n <= Bytes[64] /\ Bytes[64] \in Nat
  BY Sizes
<1>2. \A k \in 1 .. n : b[k] = Byte(x, k - 1) /\ b[k] \in Nat
  <2> TAKE k \in 1 .. n
  <2>1. k - 1 \in 0 .. Bytes[64] /\ k \in 0 .. n /\ k # 0
    BY <1>1
  <2>2. Byte(x, k - 1) \in Nat
    BY <2>1, ByteIs, Sizes
  <2>. QED BY <2>1, <2>2
<1>3. b[0] = 0
  BY <1>1
<1> HIDE DEF b
<1>4. h \in [(0 .. n) \X Int -> Int]
  <2>1. ASSUME NEW p \in (0 .. n) \X Int  PROVE p[2] * Radix + b[p[1]] \in Int
    <3>1. p[2] \in Int /\ (p[1] = 0 \/ p[1] \in 1 .. n)
      BY <1>1
    <3>2. b[p[1]] \in Int
      BY <1>2, <1>3, <3>1
    <3>. QED BY <3>1, <3>2, Sizes
  <2>. QED BY <2>1
<1>5. PICK f \in [0 .. n -> Int] : f[0] = 0 /\ \A i \in 1 .. n : f[i] = h[<<i, f[i - 1]>>]
  <2>1. 0 \in Int
    OBVIOUS
  <2> HIDE DEF h
  <2>. QED BY <1>1, <1>4, <2>1, Recursion
<1>6. \A i \in 1 .. n : f[i] = f[i - 1] * Radix + b[i]
  <2> TAKE i \in 1 .. n
  <2>1. <<i, f[i - 1]>> \in (0 .. n) \X Int
    BY <1>1, <1>5
  <2>. QED BY <1>5, <2>1
<1>7. Eq(f)
  <2>1. ASSUME NEW i \in 0 .. n
        PROVE  f[i] = IF i = 0 THEN 0 ELSE f[i - 1] * Radix + Byte(x, i - 1)
    <3>1. i = 0 \/ i \in 1 .. n
      BY <1>1
    <3>. QED BY <1>2, <1>5, <1>6, <3>1
  <2>. QED BY <1>5, <2>1
<1>8. PICK t : t = CHOOSE r : Eq(r)
  OBVIOUS
<1>9. Eq(t)
  <2> HIDE DEF Eq
  <2>. QED BY <1>7, <1>8
<1>10. ByteSwap(x, n) = t[n]
  BY <1>8 DEF ByteSwap
<1>11. t[0] = 0 /\ \A k \in 1 .. n : t[k] = t[k - 1] * Radix + Byte(x, k - 1)
  BY <1>1, <1>9
<1> DEFINE P == {k \in 0 .. n : t[k] \in Nat}
<1>12. 0 \in P
  BY <1>1, <1>11
<1>13. ASSUME NEW k \in 1 .. n, k - 1 \in P  PROVE k \in P
  <2>1. PICK y \in Nat, z \in Nat : y = t[k - 1] /\ z = Byte(x, k - 1)
    BY <1>2, <1>13
  <2>2. y * Radix + z \in Nat
    BY Sizes
  <2>. QED BY <1>1, <1>11, <2>1, <2>2
<1> HIDE DEF P
<1>14. \A k \in 0 .. n : k \in P
  BY <1>1, <1>12, <1>13, IndexInduction
<1>15. t \in [0 .. n -> Nat]
  <2>1. \A k \in 0 .. n : t[k] \in Nat
    BY <1>14 DEF P
  <2>2. DOMAIN t = 0 .. n /\ t = [k \in 0 .. n |-> t[k]]
    BY <1>9
  <2>. QED BY <2>1, <2>2
<1>. QED BY <1>10, <1>11, <1>15 DEF IsSwap

(* Each division by Radix takes a digit back: the digits so far.           *)
LEMMA SwapDigits ==
  ASSUME NEW x \in Nat, NEW n \in 0 .. Bytes[64], NEW t, IsSwap(t, x, n)
  PROVE  /\ \A k \in 0 .. n : t[k] < Place[k]
         /\ \A k \in 1 .. n : t[k] \div Radix = t[k - 1] /\ t[k] % Radix = Byte(x, k - 1)
<1>1. n \in Nat /\ n <= Bytes[64] /\ Bytes[64] \in Nat /\ Radix \in Nat /\ Radix > 1
  BY Sizes
<1>2. t \in [0 .. n -> Nat] /\ t[0] = 0 /\ \A k \in 1 .. n : t[k] = t[k - 1] * Radix + Byte(x, k - 1)
  BY DEF IsSwap
<1>3. ASSUME NEW k \in 1 .. n  PROVE t[k - 1] \in Nat /\ Byte(x, k - 1) \in 0 .. Radix - 1
  <2>1. k - 1 \in 0 .. n /\ k - 1 \in 0 .. Bytes[64]
    BY <1>1
  <2>. QED BY <1>2, <2>1, ByteIs
<1> DEFINE P == {k \in 0 .. n : t[k] < Place[k]}
<1>4. 0 \in P
  BY <1>1, <1>2, PlaceIs
<1>5. ASSUME NEW k \in 1 .. n, k - 1 \in P  PROVE k \in P
  <2>1. k \in 0 .. n /\ k \in 1 .. Bytes[64] /\ k - 1 \in 0 .. Bytes[64]
    BY <1>1
  <2>2. PICK p \in Nat : p = Place[k - 1] /\ Place[k] = p * Radix
    BY <2>1, PlaceIs
  <2>3. PICK a \in Nat, b \in 0 .. Radix - 1 : a = t[k - 1] /\ b = Byte(x, k - 1) /\ a <= p - 1
    <3>1. t[k - 1] < Place[k - 1]
      BY <1>5
    <3>. QED BY <1>3, <2>2, <3>1
  <2>4. a * Radix <= (p - 1) * Radix
    BY <1>1, <2>3
  <2>5. (p - 1) * Radix = p * Radix - Radix
    BY <1>1
  <2>6. a * Radix + b < p * Radix
    BY <1>1, <2>4, <2>5
  <2>7. t[k] = a * Radix + b
    BY <1>2, <2>3
  <2>. QED BY <2>1, <2>2, <2>6, <2>7
<1> HIDE DEF P
<1>6. \A k \in 0 .. n : k \in P
  BY <1>1, <1>4, <1>5, IndexInduction
<1>7. ASSUME NEW k \in 1 .. n  PROVE t[k] \div Radix = t[k - 1] /\ t[k] % Radix = Byte(x, k - 1)
  <2>1. PICK a \in Nat, b \in 0 .. Radix - 1 : a = t[k - 1] /\ b = Byte(x, k - 1)
    BY <1>3
  <2>2. (a * Radix + b) \div Radix = a /\ (a * Radix + b) % Radix = b
    BY <1>1, Digits
  <2>. QED BY <1>2, <2>1, <2>2
<1>. QED BY <1>6, <1>7 DEF P

(* Swapped bytes are swapped back: from y, the digits of x come out from   *)
(* the highest one on.                                                     *)
LEMMA SwapBack ==
  ASSUME NEW x \in Nat, NEW n \in 0 .. Bytes[64], x < Place[n]
  PROVE  ByteSwap(x, n) \in 0 .. Place[n] - 1 /\ ByteSwap(ByteSwap(x, n), n) = x
<1>1. n \in Nat /\ n <= Bytes[64] /\ Bytes[64] \in Nat /\ Radix \in Nat /\ Radix > 1
  BY Sizes
<1>2. PICK t : IsSwap(t, x, n) /\ ByteSwap(x, n) = t[n]
  BY SwapIs
<1>3. t \in [0 .. n -> Nat] /\ n \in 0 .. n
  BY <1>1, <1>2 DEF IsSwap
<1>4. PICK y \in Nat : y = t[n] /\ y = ByteSwap(x, n)
  BY <1>2, <1>3
<1>5. PICK u : IsSwap(u, y, n) /\ ByteSwap(y, n) = u[n]
  BY SwapIs
<1>6. y < Place[n] /\ Place[n] \in Nat
  BY <1>2, <1>3, <1>4, SwapDigits, PlaceIs
<1> DEFINE A == {j \in 0 .. n : y \div Place[j] = t[n - j]}
<1>7. 0 \in A
  <2>1. y \div 1 = y /\ n - 0 = n
    <3>1. y = y * 1 + 0
      OBVIOUS
    <3>2. (y * 1 + 0) \div 1 = y
      BY Digits
    <3>. QED BY <1>1, <3>1, <3>2
  <2>2. Place[0] = 1 /\ t[n - 0] = y
    BY <1>4, <2>1, PlaceIs
  <2>3. y \div Place[0] = t[n - 0]
    BY <2>1, <2>2
  <2>4. 0 \in 0 .. n
    BY <1>1
  <2>. QED BY <2>3, <2>4
<1>8. ASSUME NEW j \in 1 .. n, j - 1 \in A  PROVE j \in A
  <2>1. j \in 0 .. n /\ j \in 1 .. Bytes[64] /\ j - 1 \in 0 .. Bytes[64]
        /\ n - (j - 1) \in 1 .. n /\ (n - (j - 1)) - 1 = n - j
    BY <1>1
  <2>2. PICK p \in Nat : p = Place[j - 1] /\ p > 0 /\ Place[j] = p * Radix
    BY <2>1, PlaceIs
  <2>3. y \div (p * Radix) = (y \div p) \div Radix
    BY <1>1, <2>2, DivisionTwice
  <2>4. y \div p = t[n - (j - 1)]
    BY <1>8, <2>2
  <2>5. t[n - (j - 1)] \div Radix = t[n - j]
    BY <1>2, <2>1, SwapDigits
  <2>. QED BY <2>1, <2>2, <2>3, <2>4, <2>5
<1> HIDE DEF A
<1>9. \A j \in 0 .. n : j \in A
  BY <1>1, <1>7, <1>8, IndexInduction
<1>10. ASSUME NEW j \in 1 .. n  PROVE Byte(y, j - 1) = Byte(x, n - j)
  <2>1. j - 1 \in 0 .. n /\ n - (j - 1) \in 1 .. n /\ (n - (j - 1)) - 1 = n - j
    BY <1>1
  <2>2. y \div Place[j - 1] = t[n - (j - 1)]
    BY <1>9, <2>1 DEF A
  <2>3. t[n - (j - 1)] % Radix = Byte(x, n - j)
    BY <1>2, <2>1, SwapDigits
  <2>. QED BY <2>2, <2>3 DEF Byte
<1> DEFINE B == {j \in 0 .. n : u[j] = x \div Place[n - j]}
<1>11. 0 \in B
  <2>1. PICK p \in Nat : p = Place[n] /\ p > 0 /\ x \in 0 .. p - 1
    BY <1>6, PlaceIs
  <2>2. (0 * p + x) \div p = 0
    BY <2>1, Digits
  <2>3. 0 * p + x = x /\ n - 0 = n
    BY <1>1, <2>1
  <2>. QED BY <1>1, <1>5, <2>1, <2>2, <2>3 DEF IsSwap
<1>12. ASSUME NEW j \in 1 .. n, j - 1 \in B  PROVE j \in B
  <2>1. j \in 0 .. n /\ n - (j - 1) \in 1 .. Bytes[64] /\ n - j \in 0 .. Bytes[64]
        /\ (n - (j - 1)) - 1 = n - j
    BY <1>1
  <2>2. PICK p \in Nat : p = Place[n - j] /\ p > 0 /\ Place[n - (j - 1)] = p * Radix
    BY <2>1, PlaceIs
  <2>3. x \div (p * Radix) = (x \div p) \div Radix
    BY <1>1, <2>2, DivisionTwice
  <2>4. PICK z \in Nat : z = x \div p
    BY <2>2, DivisionIs
  <2>5. z = (z \div Radix) * Radix + (z % Radix)
    BY <1>1, DivisionIs
  <2>6. u[j - 1] = z \div Radix
    BY <1>12, <2>2, <2>3, <2>4
  <2>7. Byte(y, j - 1) = z % Radix
    BY <1>10, <2>2, <2>4 DEF Byte
  <2>8. u[j] = u[j - 1] * Radix + Byte(y, j - 1)
    BY <1>5 DEF IsSwap
  <2>. QED BY <2>1, <2>2, <2>4, <2>5, <2>6, <2>7, <2>8
<1> HIDE DEF B
<1>13. \A j \in 0 .. n : j \in B
  BY <1>1, <1>11, <1>12, IndexInduction
<1>14. u[n] = x \div Place[0]
  <2>1. n - n = 0
    BY <1>1
  <2>. QED BY <1>3, <1>13, <2>1 DEF B
<1>15. x \div 1 = x
  <2>1. x = x * 1 + 0
    OBVIOUS
  <2>2. (x * 1 + 0) \div 1 = x
    BY Digits
  <2>. QED BY <2>1, <2>2
<1>16. u[n] = x
  BY <1>14, <1>15, PlaceIs
<1>. QED BY <1>4, <1>5, <1>6, <1>16

----------------------------------------------------------------------------
LEMMA Appends ==
  ASSUME NEW S, NEW s \in Seq(S), NEW i \in S
  PROVE  /\ Append(s, i) \in Seq(S) /\ Len(s) \in Nat /\ Len(Append(s, i)) = Len(s) + 1
         /\ \A j \in 1 .. Len(s) : Append(s, i)[j] = s[j] /\ s[j] \in S
         /\ Append(s, i)[Len(s) + 1] = i
  OBVIOUS

(* The offsets of notes.                                                   *)
Notes == [tag : Nat, val : [name : Nat, desc : Nat]]

LEMMA NoteSizeIs == \A i \in Notes : NoteSize(i) \in Nat /\ NoteSize(i) > 0
<1> TAKE i \in Notes
<1>1. ASSUME NEW x \in Nat  PROVE Pad(x) \in Nat
  <2>1. PICK q \in Nat : q = (x + WordSize - 1) \div WordSize
    <3>1. x + WordSize - 1 \in Nat
      BY Sizes
    <3>. QED BY <3>1, Sizes, DivisionIs
  <2>2. q * WordSize \in Nat
    BY Sizes
  <2>. QED BY <2>1, <2>2 DEF Pad
<1>2. i.val.name \in Nat /\ i.val.desc \in Nat
  BY DEF Notes
<1>3. PICK a \in Nat, b \in Nat : a = Pad(i.val.name) /\ b = Pad(i.val.desc)
  BY <1>1, <1>2
<1>4. (3 * WordSize) + a + b \in Nat /\ (3 * WordSize) + a + b > 0
  BY Sizes
<1>. QED BY <1>3, <1>4 DEF NoteSize

IsAt(t, items, m) ==
  /\ t \in [0 .. m -> Nat] /\ t[0] = 0
  /\ \A j \in 1 .. m : t[j] = t[j - 1] + NoteSize(items[j])

LEMMA OffsetExists ==
  ASSUME NEW items \in Seq(Notes), NEW k \in 1 .. Len(items) + 1
  PROVE  \E t : IsAt(t, items, k - 1) /\ Offset(items, k) = t[k - 1]
<1>1. PICK n \in Nat : n = k - 1 /\ n <= Len(items)
  OBVIOUS
<1> DEFINE b == [j \in 0 .. n |-> IF j = 0 THEN 0 ELSE NoteSize(items[j])]
           h == [p \in (0 .. n) \X Int |-> p[2] + b[p[1]]]
           Eq(f) == f = [j \in 0 .. k - 1 |-> IF j = 0 THEN 0 ELSE f[j - 1] + NoteSize(items[j])]
<1>2. \A j \in 1 .. n : b[j] = NoteSize(items[j]) /\ b[j] \in Nat
  <2> TAKE j \in 1 .. n
  <2>1. j \in 0 .. n /\ j # 0 /\ items[j] \in Notes
    BY <1>1
  <2>. QED BY <2>1, NoteSizeIs
<1>3. b[0] = 0
  BY <1>1
<1> HIDE DEF b
<1>4. h \in [(0 .. n) \X Int -> Int]
  <2>1. ASSUME NEW p \in (0 .. n) \X Int  PROVE p[2] + b[p[1]] \in Int
    <3>1. p[2] \in Int /\ (p[1] = 0 \/ p[1] \in 1 .. n)
      BY <1>1
    <3>2. b[p[1]] \in Int
      BY <1>2, <1>3, <3>1
    <3>. QED BY <3>1, <3>2
  <2>. QED BY <2>1
<1>5. PICK f \in [0 .. n -> Int] : f[0] = 0 /\ \A i \in 1 .. n : f[i] = h[<<i, f[i - 1]>>]
  <2>1. 0 \in Int
    OBVIOUS
  <2> HIDE DEF h
  <2>. QED BY <1>1, <1>4, <2>1, Recursion
<1>6. \A i \in 1 .. n : f[i] = f[i - 1] + b[i]
  <2> TAKE i \in 1 .. n
  <2>1. <<i, f[i - 1]>> \in (0 .. n) \X Int
    BY <1>1, <1>5
  <2>. QED BY <1>5, <2>1
<1>7. Eq(f)
  <2>1. ASSUME NEW i \in 0 .. n
        PROVE  f[i] = IF i = 0 THEN 0 ELSE f[i - 1] + NoteSize(items[i])
    <3>1. i = 0 \/ i \in 1 .. n
      BY <1>1
    <3>. QED BY <1>2, <1>5, <1>6, <3>1
  <2>. QED BY <1>1, <1>5, <2>1
<1>8. PICK t : t = CHOOSE r : Eq(r)
  OBVIOUS
<1>9. Eq(t)
  <2> HIDE DEF Eq
  <2>. QED BY <1>7, <1>8
<1>10. Offset(items, k) = t[k - 1]
  BY <1>8 DEF Offset
<1>11. t[0] = 0 /\ \A i \in 1 .. n : t[i] = t[i - 1] + NoteSize(items[i])
  BY <1>1, <1>9
<1> DEFINE P == {i \in 0 .. n : t[i] \in Nat}
<1>12. 0 \in P
  BY <1>1, <1>11
<1>13. ASSUME NEW i \in 1 .. n, i - 1 \in P  PROVE i \in P
  <2>1. PICK y \in Nat, z \in Nat : y = t[i - 1] /\ z = NoteSize(items[i])
    BY <1>2, <1>13
  <2>. QED BY <1>1, <1>11, <2>1
<1> HIDE DEF P
<1>14. \A i \in 0 .. n : i \in P
  BY <1>1, <1>12, <1>13, IndexInduction
<1>15. t \in [0 .. n -> Nat]
  <2>1. \A i \in 0 .. n : t[i] \in Nat
    BY <1>14 DEF P
  <2>2. DOMAIN t = 0 .. n /\ t = [i \in 0 .. n |-> t[i]]
    BY <1>1, <1>9
  <2>. QED BY <2>1, <2>2
<1>. QED BY <1>1, <1>10, <1>11, <1>15 DEF IsAt

(* A note begins where the one before it ends, whatever comes after.       *)
LEMMA OffsetNext ==
  ASSUME NEW items \in Seq(Notes)
  PROVE  /\ Offset(items, 1) = 0
         /\ \A k \in 1 .. Len(items) + 1 : Offset(items, k) \in Nat
         /\ \A k \in 1 .. Len(items) : Offset(items, k + 1) = Offset(items, k) + NoteSize(items[k])
<1>1. PICK m \in Nat : m = Len(items)
  OBVIOUS
<1>2. Offset(items, 1) = 0
  <2>1. 1 \in 1 .. Len(items) + 1 /\ 1 - 1 = 0
    BY <1>1
  <2>2. PICK t : IsAt(t, items, 0) /\ Offset(items, 1) = t[0]
    BY <2>1, OffsetExists
  <2>. QED BY <2>2 DEF IsAt
<1>3. ASSUME NEW k \in 1 .. Len(items) + 1  PROVE Offset(items, k) \in Nat
  <2>1. PICK t : IsAt(t, items, k - 1) /\ Offset(items, k) = t[k - 1]
    BY OffsetExists
  <2>2. k - 1 \in 0 .. k - 1
    BY <1>1
  <2>. QED BY <2>1, <2>2 DEF IsAt
<1>4. ASSUME NEW k \in 1 .. Len(items)
      PROVE  Offset(items, k + 1) = Offset(items, k) + NoteSize(items[k])
  <2>1. k \in 1 .. Len(items) + 1 /\ k + 1 \in 1 .. Len(items) + 1 /\ (k + 1) - 1 = k
    BY <1>1
  <2>2. PICK n \in Nat : n = k - 1
    BY <2>1
  <2>3. PICK t : IsAt(t, items, n) /\ Offset(items, k) = t[n]
    BY <2>1, <2>2, OffsetExists
  <2>4. PICK u : IsAt(u, items, k) /\ Offset(items, k + 1) = u[k]
    BY <2>1, OffsetExists
  <2> DEFINE P == {i \in 0 .. n : t[i] = u[i]}
  <2>5. 0 \in P
    BY <2>2, <2>3, <2>4 DEF IsAt
  <2>6. ASSUME NEW i \in 1 .. n, i - 1 \in P  PROVE i \in P
    <3>1. i \in 1 .. k /\ i \in 0 .. n
      BY <2>1, <2>2
    <3>2. t[i] = t[i - 1] + NoteSize(items[i]) /\ u[i] = u[i - 1] + NoteSize(items[i])
      BY <2>3, <2>4, <3>1 DEF IsAt
    <3>. QED BY <2>6, <3>1, <3>2
  <2> HIDE DEF P
  <2>7. \A i \in 0 .. n : i \in P
    BY <2>5, <2>6, IndexInduction
  <2>8. n \in 0 .. n /\ k \in 1 .. k
    BY <2>2
  <2>9. t[n] = u[n]
    BY <2>7, <2>8 DEF P
  <2>10. u[k] = u[k - 1] + NoteSize(items[k])
    BY <2>4, <2>8 DEF IsAt
  <2>. QED BY <2>2, <2>3, <2>4, <2>9, <2>10
<1>. QED BY <1>2, <1>3, <1>4

LEMMA OffsetsGrow ==
  ASSUME NEW items \in Seq(Notes), NEW k \in 1 .. Len(items), NEW j \in 1 .. Len(items), j < k
  PROVE  Offset(items, j) < Offset(items, k)
<1>1. PICK m \in Nat : m = Len(items)
  OBVIOUS
<1>2. PICK n \in Nat : n = k - j /\ n >= 1
  <2>1. k - j \in Nat /\ k - j >= 1
    BY <1>1
  <2>. QED BY <2>1
<1> DEFINE P == {i \in 0 .. n : i > 0 => Offset(items, j) < Offset(items, j + i)}
<1>3. 0 \in P
  BY <1>2
<1>4. ASSUME NEW i \in 1 .. n, i - 1 \in P  PROVE i \in P
  <2>1. j + (i - 1) \in 1 .. Len(items) /\ (j + (i - 1)) + 1 = j + i /\ j \in 1 .. Len(items) + 1
        /\ j + (i - 1) \in 1 .. Len(items) + 1
    BY <1>1, <1>2
  <2>2. Offset(items, j + i) = Offset(items, j + (i - 1)) + NoteSize(items[j + (i - 1)])
    BY <2>1, OffsetNext
  <2>3. items[j + (i - 1)] \in Notes
    BY <2>1
  <2>4. PICK s \in Nat : s = NoteSize(items[j + (i - 1)]) /\ s > 0
    BY <2>3, NoteSizeIs
  <2>5. Offset(items, j) \in Nat /\ Offset(items, j + (i - 1)) \in Nat
    BY <2>1, OffsetNext
  <2>6. CASE i = 1
    <3>1. j + (i - 1) = j
      BY <1>1, <2>6
    <3>. QED BY <1>2, <2>2, <2>4, <2>5, <3>1
  <2>7. CASE i # 1
    <3>1. i - 1 > 0
      BY <2>7
    <3>2. Offset(items, j) < Offset(items, j + (i - 1))
      BY <1>4, <3>1
    <3>. QED BY <1>2, <2>2, <2>4, <2>5, <3>2
  <2>. QED BY <2>6, <2>7
<1> HIDE DEF P
<1>5. \A i \in 0 .. n : i \in P
  BY <1>3, <1>4, IndexInduction
<1>6. n \in 0 .. n /\ n > 0 /\ j + n = k
  BY <1>1, <1>2
<1>. QED BY <1>5, <1>6 DEF P

LEMMA OffsetSame ==
  ASSUME NEW items \in Seq(Notes), NEW i \in Notes, NEW k \in 1 .. Len(items) + 1
  PROVE  Offset(Append(items, i), k) = Offset(items, k)
<1>1. PICK m \in Nat : m = Len(items)
  OBVIOUS
<1>2. PICK more \in Seq(Notes) : more = Append(items, i)
  BY Appends
<1>3. Len(more) = m + 1 /\ \A j \in 1 .. m : more[j] = items[j]
  BY <1>1, <1>2, Appends
<1> DEFINE P == {j \in 0 .. m : Offset(more, j + 1) = Offset(items, j + 1)}
<1>4. 0 \in P
  <2>1. 0 + 1 = 1 /\ 0 \in 0 .. m
    BY <1>1
  <2>. QED BY <2>1, OffsetNext
<1>5. ASSUME NEW j \in 1 .. m, j - 1 \in P  PROVE j \in P
  <2>1. (j - 1) + 1 = j /\ j \in 0 .. m /\ j \in 1 .. Len(items) /\ j \in 1 .. Len(more)
    BY <1>1, <1>3
  <2>2. Offset(more, j) = Offset(items, j)
    BY <1>5, <2>1
  <2>3. Offset(more, j + 1) = Offset(more, j) + NoteSize(more[j])
    BY <2>1, OffsetNext
  <2>4. Offset(items, j + 1) = Offset(items, j) + NoteSize(items[j])
    BY <2>1, OffsetNext
  <2>. QED BY <1>3, <2>1, <2>2, <2>3, <2>4
<1> HIDE DEF P
<1>6. \A j \in 0 .. m : j \in P
  BY <1>1, <1>4, <1>5, IndexInduction
<1>7. k - 1 \in 0 .. m /\ (k - 1) + 1 = k
  BY <1>1
<1>. QED BY <1>2, <1>6, <1>7 DEF P

(* The note at the offset of one is that one.                              *)
LEMMA NoteFound ==
  ASSUME NEW items \in Seq(Notes), NEW k \in 1 .. Len(items)
  PROVE  NoteAt(items, Offset(items, k)) = items[k]
<1> DEFINE here == {j \in DOMAIN items : Offset(items, j) = Offset(items, k)}
<1>1. k \in here
  OBVIOUS
<1>2. ASSUME NEW j \in here  PROVE j = k
  <2>1. j \in 1 .. Len(items) /\ Offset(items, j) = Offset(items, k)
    OBVIOUS
  <2>2. PICK a \in Nat, b \in Nat : a = Offset(items, j) /\ b = Offset(items, k)
    <3>1. j \in 1 .. Len(items) + 1 /\ k \in 1 .. Len(items) + 1
      BY <2>1
    <3>. QED BY <3>1, OffsetNext
  <2>3. CASE j < k
    BY <2>1, <2>2, <2>3, OffsetsGrow
  <2>4. CASE k < j
    BY <2>1, <2>2, <2>4, OffsetsGrow
  <2>5. j \in Int /\ k \in Int
    BY <2>1
  <2>. QED BY <2>3, <2>4, <2>5
<1>3. here # {} /\ (CHOOSE j \in here : TRUE) = k
  <2> HIDE DEF here
  <2>. QED BY <1>1, <1>2
<1>. QED BY <1>3 DEF NoteAt

----------------------------------------------------------------------------
(* The entries of a dynamic section up to and with the first DT_NULL.      *)
Entries == [tag : Nat, val : Nat]

LEMMA LeastOf ==
  ASSUME NEW S, S \subseteq Nat, S # {}
  PROVE  \E x \in S : (CHOOSE k \in S : \A j \in S : k <= j) = x /\ \A y \in S : x <= y
<1>1. PICK x \in S : \A y \in S : ~(<<y, x>> \in OpToRel(<, Nat))
  BY NatLessThanWellFounded, WFMin
<1>2. \A y \in S : ~(y < x)
  BY <1>1 DEF OpToRel
<1>3. \A y \in S : x <= y
  BY <1>2
<1>. QED BY <1>3

LEMMA DynCountIs ==
  ASSUME NEW items \in Seq(Entries)
  PROVE  /\ DynCount(items) \in 0 .. Len(items)
         /\ \A k \in 1 .. Len(items) :
              k <= DynCount(items) <=> \A j \in 1 .. k - 1 : items[j].tag # 0
<1>1. PICK m \in Nat : m = Len(items) /\ DOMAIN items = 1 .. m
  OBVIOUS
<1> DEFINE nulls == {k \in DOMAIN items : items[k].tag = 0}
<1>2. nulls \subseteq Nat /\ nulls \subseteq 1 .. m
  BY <1>1
<1>3. CASE nulls = {}
  <2>1. DynCount(items) = m
    BY <1>1, <1>3 DEF DynCount
  <2>2. \A j \in 1 .. m : items[j].tag # 0
    BY <1>1, <1>3
  <2>. QED BY <1>1, <2>1, <2>2
<1>4. CASE nulls # {}
  <2>1. PICK x \in nulls : (CHOOSE k \in nulls : \A j \in nulls : k <= j) = x /\ \A y \in nulls : x <= y
    <3> HIDE DEF nulls
    <3>. QED BY <1>2, <1>4, LeastOf
  <2>2. DynCount(items) = x
    BY <1>4, <2>1 DEF DynCount
  <2>3. x \in 1 .. m /\ items[x].tag = 0
    BY <1>1, <2>1
  <2>4. ASSUME NEW k \in 1 .. m  PROVE k <= x <=> \A j \in 1 .. k - 1 : items[j].tag # 0
    <3>1. CASE k <= x
      <4>1. ASSUME NEW j \in 1 .. k - 1, items[j].tag = 0  PROVE FALSE
        <5>1. j \in nulls /\ j < x
          BY <1>1, <2>3, <3>1, <4>1
        <5>. QED BY <1>2, <2>1, <2>3, <5>1
      <4>. QED BY <3>1, <4>1
    <3>2. CASE ~(k <= x)
      <4>1. x \in 1 .. k - 1
        BY <2>3, <3>2
      <4>. QED BY <2>3, <3>2, <4>1
    <3>. QED BY <3>1, <3>2
  <2>. QED BY <1>1, <2>2, <2>3, <2>4
<1>. QED BY <1>3, <1>4

(* Appending leaves the count where it was, or lets it grow.               *)
LEMMA DynCountGrows ==
  ASSUME NEW items \in Seq(Entries), NEW i \in Entries
  PROVE  /\ DynCount(items) \in Nat /\ DynCount(Append(items, i)) \in Nat
         /\ DynCount(items) <= DynCount(Append(items, i))
<1>1. PICK m \in Nat : m = Len(items)
  OBVIOUS
<1>2. PICK more \in Seq(Entries) : more = Append(items, i)
  BY Appends
<1>3. Len(more) = m + 1 /\ \A j \in 1 .. m : more[j] = items[j]
  BY <1>1, <1>2, Appends
<1>4. PICK c \in 0 .. m : c = DynCount(items)
  BY <1>1, DynCountIs
<1>5. PICK d \in 0 .. m + 1 : d = DynCount(more)
  BY <1>3, DynCountIs
<1>6. CASE c = 0
  BY <1>2, <1>4, <1>5, <1>6
<1>7. CASE c # 0
  <2>1. c \in 1 .. Len(items) /\ c \in 1 .. Len(more) /\ \A j \in 1 .. c - 1 : j \in 1 .. m
    BY <1>1, <1>3, <1>4, <1>7
  <2>2. c <= DynCount(items)
    BY <1>4
  <2>3. \A j \in 1 .. c - 1 : items[j].tag # 0
    BY <2>1, <2>2, DynCountIs
  <2>4. \A j \in 1 .. c - 1 : more[j].tag # 0
    BY <1>3, <2>1, <2>3
  <2>5. c <= DynCount(more)
    BY <2>1, <2>4, DynCountIs
  <2>. QED BY <1>2, <1>4, <1>5, <2>5
<1>. QED BY <1>6, <1>7

----------------------------------------------------------------------------
(* What the accessors do to a value.                                       *)
LEMMA WidthIs ==
  /\ Bytes[32] \in 0 .. Bytes[64] /\ Bytes[64] \in 0 .. Bytes[64]
  /\ Bytes[32] \div 2 \in 0 .. Bytes[64]
<1>1. PICK h \in Nat : h = Bytes[32] \div 2 /\ h <= Bytes[32]
  <2>1. PICK x \in Nat : x = Bytes[32]
    BY Sizes
  <2>2. x \div 2 \in Nat /\ x \div 2 <= x
    OBVIOUS
  <2>. QED BY <2>1, <2>2
<1>. QED BY <1>1, Sizes

LEMMA ConvertIs ==
  ASSUME NEW x \in Nat, NEW n \in 0 .. Bytes[64]
  PROVE  /\ Convert(x, n) \in Nat
         /\ x < Place[n] => Convert(x, n) < Place[n] /\ Convert(Convert(x, n), n) = x
<1>1. CASE msb
  <2>1. PICK t : IsSwap(t, x, n) /\ ByteSwap(x, n) = t[n]
    BY SwapIs
  <2>2. n \in 0 .. n
    BY Sizes
  <2>3. ByteSwap(x, n) \in Nat
    BY <2>1, <2>2 DEF IsSwap
  <2>4. ASSUME x < Place[n]
        PROVE  ByteSwap(x, n) < Place[n] /\ ByteSwap(ByteSwap(x, n), n) = x
    <3>1. Place[n] \in Nat
      BY PlaceIs
    <3>. QED BY <2>4, <3>1, SwapBack
  <2>. QED BY <1>1, <2>3, <2>4 DEF Convert
<1>2. CASE ~msb
  BY <1>2 DEF Convert
<1>. QED BY <1>1, <1>2

LEMMA NarrowIs ==
  ASSUME NEW x \in Nat, NEW n \in 0 .. Bytes[64]
  PROVE  /\ Narrow(x, n) \in Nat /\ Narrow(x, n) < Place[n]
         /\ x < Place[n] => Narrow(x, n) = x
<1>1. PICK p \in Nat : p = Place[n] /\ p > 0
  BY PlaceIs
<1>2. x % p \in 0 .. p - 1
  BY <1>1, DivisionIs
<1>3. ASSUME x < p  PROVE x % p = x
  <2>1. x \in 0 .. p - 1 /\ 0 * p + x = x
    BY <1>1, <1>3
  <2>2. (0 * p + x) % p = x
    BY <1>1, <2>1, Digits
  <2>. QED BY <2>1, <2>2
<1>. QED BY <1>1, <1>2, <1>3 DEF Narrow

LEMMA ThroughIs ==
  ASSUME NEW x \in Nat, class \in {32, 64}
  PROVE  /\ ThroughDyn(x) \in Nat /\ ThroughArray(x) \in Nat
         /\ x < Place[Bytes[class]] => ThroughArray(x) = x
         /\ x < Place[Bytes[class]] /\ (msb => class # 32) => ThroughDyn(x) = x
<1>1. PICK n \in 0 .. Bytes[64] : n = Bytes[class]
  BY WidthIs
<1>2. Bytes[64] \in 0 .. Bytes[64]
  BY WidthIs
<1>3. PICK y \in Nat : y = Convert(x, Bytes[64])
  BY <1>2, ConvertIs
<1>4. PICK z \in Nat : z = Narrow(y, n)
  BY NarrowIs
<1>5. Convert(z, n) \in Nat /\ ThroughDyn(x) = Convert(z, n)
  BY <1>1, <1>3, <1>4, ConvertIs DEF ThroughDyn
<1>6. PICK u \in Nat : u = Narrow(x, n) /\ u < Place[n] /\ (x < Place[n] => u = x)
  BY NarrowIs
<1>7. Convert(u, n) \in Nat /\ Convert(Convert(u, n), n) = u
  BY <1>6, ConvertIs
<1>8. ThroughArray(x) = u
  BY <1>1, <1>6, <1>7 DEF ThroughArray
<1>9. ASSUME x < Place[n], msb => class # 32  PROVE Convert(z, n) = x
  <2>1. CASE msb
    <3>1. n = Bytes[64]
      BY <1>1, <1>9, <2>1
    <3>2. y < Place[n] /\ Convert(y, n) = x
      BY <1>3, <1>9, <3>1, ConvertIs
    <3>3. z = y
      BY <1>4, <3>2, NarrowIs
    <3>. QED BY <3>2, <3>3
  <2>2. CASE ~msb
    <3>1. y = x /\ Convert(z, n) = z
      BY <1>3, <2>2 DEF Convert
    <3>2. z = x
      BY <1>4, <1>9, <3>1, NarrowIs
    <3>. QED BY <3>1, <3>2
  <2>. QED BY <2>1, <2>2
<1>. QED BY <1>1, <1>5, <1>6, <1>8, <1>9

AllKinds == {"dynamic", "note", "versym", "array", "modinfo"}

LEMMA ItemTypes ==
  /\ ItemType("dynamic") = Entries /\ ItemType("note") = Notes
  /\ ItemType("modinfo") = [tag : STRING, val : STRING]
  /\ ItemType("versym") = [tag : {0}, val : Nat] /\ ItemType("array") = [tag : {0}, val : Nat]
  BY DEF ItemType, Entries, Notes

(* What is added is stored as an item of its kind, and as what was meant.  *)
LEMMA ThroughItem ==
  ASSUME kind \in AllKinds, class \in {32, 64}, NEW i \in ItemType(kind)
  PROVE  /\ Through(i) \in ItemType(kind)
         /\ (IF kind = "dynamic" THEN DynItem(i) ELSE i) \in ItemType(kind)
         /\ Converted /\ Fits(i) => Through(i) = IF kind = "dynamic" THEN DynItem(i) ELSE i
         /\ kind \in {"note", "modinfo"} => Through(i) = i
<1>1. CASE kind = "dynamic"
  <2>1. i \in [tag : Nat, val : Nat]
    BY <1>1, ItemTypes DEF Entries
  <2>2. PICK a \in Nat, b \in Nat : a = i.tag /\ b = i.val
    BY <2>1
  <2>3. PICK c \in Nat, d \in Nat : c = ThroughDyn(a) /\ d = ThroughDyn(b)
    BY ThroughIs
  <2>4. Through(i) = DynItem([tag |-> c, val |-> d])
    BY <1>1, <2>2, <2>3 DEF Through
  <2>5. Through(i) \in Entries /\ DynItem(i) \in Entries
    BY <2>1, <2>4 DEF DynItem, Entries
  <2>6. ASSUME Converted, Fits(i)  PROVE Through(i) = DynItem(i)
    <3>1. (msb => class # 32) /\ a < Place[Bytes[class]] /\ b < Place[Bytes[class]]
      BY <1>1, <2>2, <2>6 DEF Converted, Fits
    <3>2. c = a /\ d = b
      BY <2>3, <3>1, ThroughIs
    <3>. QED BY <2>2, <2>4, <3>2 DEF DynItem
  <2>. QED BY <1>1, <2>5, <2>6, ItemTypes
<1>2. CASE kind = "array"
  <2>1. i \in [tag : {0}, val : Nat]
    BY <1>2, ItemTypes
  <2>2. PICK b \in Nat : b = i.val
    BY <2>1
  <2>3. PICK d \in Nat : d = ThroughArray(b)
    BY ThroughIs
  <2>4. Through(i) = [i EXCEPT !.val = d]
    BY <1>2, <2>2, <2>3 DEF Through
  <2>5. Through(i) \in [tag : {0}, val : Nat]
    BY <2>1, <2>4
  <2>6. ASSUME Fits(i)  PROVE Through(i) = i
    <3>1. b < Place[Bytes[class]]
      BY <1>2, <2>2, <2>6 DEF Fits
    <3>2. d = b
      BY <2>3, <3>1, ThroughIs
    <3>. QED BY <2>1, <2>2, <2>4, <3>2
  <2>. QED BY <1>2, <2>1, <2>5, <2>6, ItemTypes
<1>3. CASE kind \notin {"dynamic", "array"}
  BY <1>3 DEF Through
<1>. QED BY <1>1, <1>2, <1>3

LEMMA FileItem ==
  ASSUME kind \in AllKinds, NEW i \in ItemType(kind)
  PROVE  FromFile(i) \in ItemType(kind) /\ (Converted => FromFile(i) = i)
<1>1. CASE kind = "versym"
  <2>1. i \in [tag : {0}, val : Nat]
    BY <1>1, ItemTypes
  <2>2. PICK b \in Nat : b = i.val
    BY <2>1
  <2>3. PICK d \in Nat : d = Convert(b, Bytes[32] \div 2) /\ (~msb => d = b)
    <3>1. Convert(b, Bytes[32] \div 2) \in Nat
      BY WidthIs, ConvertIs
    <3>. QED BY <3>1 DEF Convert
  <2>4. FromFile(i) = [i EXCEPT !.val = d]
    BY <1>1, <2>2, <2>3 DEF FromFile
  <2>5. FromFile(i) \in [tag : {0}, val : Nat]
    BY <2>1, <2>4
  <2>6. ASSUME Converted  PROVE FromFile(i) = i
    <3>1. ~msb
      BY <1>1, <2>6 DEF Converted
    <3>. QED BY <2>1, <2>2, <2>3, <2>4, <3>1
  <2>. QED BY <1>1, <2>5, <2>6, ItemTypes
<1>2. CASE kind # "versym"
  BY <1>2 DEF FromFile
<1>. QED BY <1>1, <1>2

----------------------------------------------------------------------------
(* The invariant.  Each entry an accessor remembers is one of the section, *)
(* in its order; all of them if nobody else has written.                   *)
Follows(f, m, n) ==
  /\ f \in [1 .. m -> 1 .. n]
  /\ \A k \in 1 .. m : k > 1 => f[k - 1] < f[k]

AllOf(f, m, n) == m = n /\ \A k \in 1 .. m : f[k] = k

PlacesKnown(a, d) ==
  \E f : /\ Follows(f, Len(a.at), Len(d)) /\ (a.own => AllOf(f, Len(a.at), Len(d)))
         /\ \A k \in 1 .. Len(a.at) : a.at[k] = Offset(d, f[k])

ContentKnown(a, d) ==
  \E f : /\ Follows(f, Len(a.content), Len(d)) /\ (a.own => AllOf(f, Len(a.content), Len(d)))
         /\ \A k \in 1 .. Len(a.content) : a.content[k] = Attribute(d[f[k]])

NumberKnown(a, d) ==
  /\ a.num \in 0 .. Len(d)
  /\ kind = "dynamic" => a.num <= DynCount(d) /\ (a.since => a.num \in {0, DynCount(d)})
  /\ kind = "versym" /\ a.own => a.num = Len(d)

Known(a, d) ==
  /\ a.since => a.own
  /\ NumberKnown(a, d)
  /\ kind = "note" => PlacesKnown(a, d)
  /\ kind # "note" => a.at = <<>>
  /\ kind = "modinfo" => ContentKnown(a, d)

Accessors ==
  [num : Nat, at : Seq(Nat), content : Seq(ItemType("modinfo")), own : BOOLEAN, since : BOOLEAN]

AccInv ==
  /\ kind \in AllKinds /\ kind \in Kinds /\ class \in {32, 64}
  /\ data \in Seq(ItemType(kind)) /\ asked \in Seq(ItemType(kind))
  /\ Len(data) = Len(asked) /\ Len(data) <= MaxItems
  /\ Converted => data = asked
  /\ accs \in Seq(Accessors) /\ Len(accs) <= MaxAccessors
  /\ \A n \in DOMAIN accs : Known(accs[n], data)

LEMMA AccInitOK == AccInit => AccInv
<1> SUFFICES ASSUME AccInit PROVE AccInv
  OBVIOUS
<1>1. kind \in AllKinds /\ kind \in Kinds /\ class \in {32, 64}
  BY AccessorsAssumption DEF AccInit, AllKinds
<1>2. asked \in Seq(ItemType(kind)) /\ Len(asked) <= MaxItems
  BY <1>1, AccessorsAssumption DEF AccInit
<1>3. PICK T : T = ItemType(kind)
  OBVIOUS
<1>4. asked \in Seq(T) /\ DOMAIN asked = 1 .. Len(asked) /\ Len(asked) \in Nat
  BY <1>2, <1>3
<1>5. \A k \in 1 .. Len(asked) : FromFile(asked[k]) \in T /\ (Converted => FromFile(asked[k]) = asked[k])
  <2> TAKE k \in 1 .. Len(asked)
  <2>1. asked[k] \in T
    BY <1>4
  <2>. QED BY <1>1, <1>3, <2>1, FileItem
<1>6. data = [k \in 1 .. Len(asked) |-> FromFile(asked[k])]
  BY <1>4 DEF AccInit
<1>7. data \in Seq(T) /\ Len(data) = Len(asked)
  <2>1. data \in [1 .. Len(asked) -> T]
    BY <1>5, <1>6
  <2>. QED BY <1>4, <2>1
<1>8. Converted => data = asked
  <2>1. ASSUME Converted  PROVE data = asked
    <3>1. data = [k \in 1 .. Len(asked) |-> asked[k]]
      BY <1>5, <1>6, <2>1
    <3>2. asked = [k \in 1 .. Len(asked) |-> asked[k]]
      BY <1>4
    <3>. QED BY <3>1, <3>2
  <2>. QED BY <2>1
<1>9. accs = <<>>
  BY DEF AccInit
<1>10. accs \in Seq(Accessors) /\ Len(accs) = 0 /\ DOMAIN accs = {}
  BY <1>9
<1>11. 0 <= MaxAccessors
  BY Sizes
<1>. QED BY <1>1, <1>2, <1>3, <1>7, <1>8, <1>10, <1>11 DEF AccInv

(* An entry that is appended leaves the ones an accessor has found.        *)
LEMMA FollowsMore ==
  ASSUME NEW m \in Nat, NEW n \in Nat, NEW f, Follows(f, m, n)
  PROVE  /\ Follows(f, m, n + 1)
         /\ \E g : /\ Follows(g, m + 1, n + 1) /\ g[m + 1] = n + 1
                   /\ \A k \in 1 .. m : g[k] = f[k]
                   /\ AllOf(f, m, n) => AllOf(g, m + 1, n + 1)
<1>1. f \in [1 .. m -> 1 .. n] /\ \A k \in 1 .. m : k > 1 => f[k - 1] < f[k]
  BY DEF Follows
<1>2. Follows(f, m, n + 1)
  <2>1. 1 .. n \subseteq 1 .. n + 1
    OBVIOUS
  <2>. QED BY <1>1, <2>1 DEF Follows
<1> DEFINE g == [k \in 1 .. m + 1 |-> IF k <= m THEN f[k] ELSE n + 1]
<1>3. g[m + 1] = n + 1 /\ \A k \in 1 .. m : g[k] = f[k]
  OBVIOUS
<1>4. Follows(g, m + 1, n + 1)
  <2>1. ASSUME NEW k \in 1 .. m + 1  PROVE g[k] \in 1 .. n + 1
    <3>1. CASE k <= m
      BY <1>1, <1>3, <3>1
    <3>2. CASE ~(k <= m)
      BY <1>3, <3>2
    <3>. QED BY <3>1, <3>2
  <2>2. ASSUME NEW k \in 1 .. m + 1, k > 1  PROVE g[k - 1] < g[k]
    <3>1. k - 1 \in 1 .. m
      BY <2>2
    <3>2. g[k - 1] = f[k - 1] /\ f[k - 1] \in 1 .. n
      BY <1>1, <1>3, <3>1
    <3>3. CASE k <= m
      <4>1. k \in 1 .. m
        BY <3>3
      <4>. QED BY <1>1, <1>3, <2>2, <3>2, <4>1
    <3>4. CASE ~(k <= m)
      <4>1. g[k] = n + 1
        BY <3>4
      <4>. QED BY <3>2, <4>1
    <3>. QED BY <3>3, <3>4
  <2>3. g \in [1 .. m + 1 -> 1 .. n + 1]
    BY <2>1
  <2> HIDE DEF g
  <2>. QED BY <2>2, <2>3 DEF Follows
<1>5. AllOf(f, m, n) => AllOf(g, m + 1, n + 1)
  <2>1. ASSUME AllOf(f, m, n), NEW k \in 1 .. m + 1  PROVE g[k] = k
    <3>1. m = n /\ (k \in 1 .. m \/ k = m + 1)
      BY <2>1 DEF AllOf
    <3>. QED BY <1>3, <2>1, <3>1 DEF AllOf
  <2> HIDE DEF g
  <2>. QED BY <2>1 DEF AllOf
<1> HIDE DEF g
<1>. QED BY <1>2, <1>3, <1>4, <1>5

LEMMA PlacesMore ==
  ASSUME NEW d \in Seq(Notes), NEW e \in Notes, NEW m \in Nat, NEW f, Follows(f, m, Len(d))
  PROVE  \A k \in 1 .. m : /\ Offset(Append(d, e), f[k]) = Offset(d, f[k])
                           /\ Offset(d, f[k]) \in Nat
                           /\ NoteAt(d, Offset(d, f[k])) = d[f[k]]
<1> TAKE k \in 1 .. m
<1>1. f[k] \in 1 .. Len(d) /\ f[k] \in 1 .. Len(d) + 1
  <2>1. f[k] \in 1 .. Len(d)
    BY DEF Follows
  <2>. QED BY <2>1
<1>. QED BY <1>1, OffsetSame, OffsetNext, NoteFound

(* Another accessor has added e to the section.                            *)
LEMMA KnownByOther ==
  ASSUME kind \in AllKinds, NEW d \in Seq(ItemType(kind)), NEW e \in ItemType(kind),
         NEW a \in Accessors, Known(a, d), NEW b \in Accessors,
         b.num = a.num /\ b.at = a.at /\ b.content = a.content /\ ~b.own /\ ~b.since
  PROVE  Known(b, Append(d, e))
<1>1. PICK n \in Nat : n = Len(d) /\ Len(Append(d, e)) = n + 1
  BY Appends
<1>2. b \in Accessors /\ b.num = a.num /\ b.at = a.at /\ b.content = a.content /\ ~b.own /\ ~b.since
  OBVIOUS
<1>3. NumberKnown(b, Append(d, e))
  <2>1. a.num \in 0 .. n + 1
    BY <1>1 DEF Known, NumberKnown
  <2>2. ASSUME kind = "dynamic"  PROVE a.num <= DynCount(Append(d, e))
    <3>1. d \in Seq(Entries) /\ e \in Entries
      BY <2>2, ItemTypes
    <3>2. PICK x \in Nat, y \in Nat : x = DynCount(d) /\ y = DynCount(Append(d, e)) /\ x <= y
      BY <3>1, DynCountGrows
    <3>3. a.num <= x
      BY <2>2, <3>2 DEF Known, NumberKnown
    <3>. QED BY <2>1, <3>2, <3>3
  <2>. QED BY <1>1, <1>2, <2>1, <2>2 DEF NumberKnown
<1>4. ASSUME kind = "note"  PROVE PlacesKnown(b, Append(d, e))
  <2>1. PICK m \in Nat : m = Len(a.at) /\ m = Len(b.at)
    <3>1. Len(a.at) \in Nat
      BY DEF Accessors
    <3>. QED BY <1>2, <3>1
  <2>2. PICK f : Follows(f, m, n) /\ \A k \in 1 .. m : a.at[k] = Offset(d, f[k])
    BY <1>1, <1>4, <2>1 DEF Known, PlacesKnown
  <2>3. Follows(f, m, Len(Append(d, e)))
    BY <1>1, <2>2, FollowsMore
  <2>4. ASSUME NEW k \in 1 .. m  PROVE b.at[k] = Offset(Append(d, e), f[k])
    <3>1. d \in Seq(Notes) /\ e \in Notes
      BY <1>4, ItemTypes
    <3>. QED BY <1>1, <1>2, <2>2, <3>1, PlacesMore
  <2>. QED BY <1>2, <2>1, <2>3, <2>4 DEF PlacesKnown
<1>5. ASSUME kind = "modinfo"  PROVE ContentKnown(b, Append(d, e))
  <2>1. PICK m \in Nat : m = Len(a.content) /\ m = Len(b.content)
    <3>1. Len(a.content) \in Nat
      BY DEF Accessors
    <3>. QED BY <1>2, <3>1
  <2>2. PICK f : Follows(f, m, n) /\ \A k \in 1 .. m : a.content[k] = Attribute(d[f[k]])
    BY <1>1, <1>5, <2>1 DEF Known, ContentKnown
  <2>3. Follows(f, m, Len(Append(d, e)))
    BY <1>1, <2>2, FollowsMore
  <2>4. ASSUME NEW k \in 1 .. m  PROVE b.content[k] = Attribute(Append(d, e)[f[k]])
    <3>1. f[k] \in 1 .. Len(d)
      BY <1>1, <2>2 DEF Follows
    <3>2. Append(d, e)[f[k]] = d[f[k]]
      BY <3>1, Appends
    <3>. QED BY <1>2, <2>2, <3>2
  <2>. QED BY <1>2, <2>1, <2>3, <2>4 DEF ContentKnown
<1>. QED BY <1>2, <1>3, <1>4, <1>5 DEF Known

(* What an accessor notes of an entry it has added itself.                 *)
LEMMA KnownByOwner ==
  ASSUME AccInv, NEW a \in Accessors, Known(a, data), NEW i \in ItemType(kind),
         kind = "modinfo" => i.val # NoValue
  PROVE  Appended(a, i) \in Accessors /\ Known(Appended(a, i), Append(data, Through(i)))
<1>1. PICK d : d = data
  OBVIOUS
<1>2. d \in Seq(ItemType(kind)) /\ kind \in AllKinds /\ class \in {32, 64}
  BY <1>1 DEF AccInv
<1>3. PICK e \in ItemType(kind) : e = Through(i) /\ (kind \in {"note", "modinfo"} => e = i)
  BY <1>2, ThroughItem
<1>4. PICK n \in Nat : n = Len(d) /\ Len(Append(d, e)) = n + 1
  BY <1>2, Appends
<1>5. PICK b : b = Appended(a, i)
  OBVIOUS
<1>6. /\ b.num = IF kind = "versym" THEN a.num + 1 ELSE a.num
      /\ b.at = IF kind = "note" THEN Append(a.at, Offset(Append(d, i), n + 1)) ELSE a.at
      /\ b.content = IF kind = "modinfo" THEN Append(a.content, i) ELSE a.content
      /\ b.own = a.own /\ b.since = FALSE
      /\ b = [num |-> b.num, at |-> b.at, content |-> b.content, own |-> b.own, since |-> b.since]
  BY <1>1, <1>4, <1>5 DEF Appended, Accessors
<1>7. a.num \in Nat /\ a.at \in Seq(Nat) /\ a.content \in Seq(ItemType("modinfo")) /\ a.own \in BOOLEAN
  BY DEF Accessors
<1>8. ASSUME kind = "note"
      PROVE  /\ d \in Seq(Notes) /\ e \in Notes /\ e = i /\ n + 1 \in 1 .. n + 1
             /\ Offset(Append(d, i), n + 1) = Offset(Append(d, e), n + 1)
             /\ Offset(Append(d, i), n + 1) \in Nat
  <2>1. d \in Seq(Notes) /\ e \in Notes /\ e = i /\ n + 1 \in 1 .. n + 1
    BY <1>2, <1>3, <1>8, ItemTypes
  <2>2. Offset(Append(d, i), n + 1) = Offset(d, n + 1) /\ Offset(d, n + 1) \in Nat
    BY <1>4, <2>1, OffsetSame, OffsetNext
  <2>. QED BY <2>1, <2>2
<1>9. b \in Accessors
  <2>1. b.num \in Nat
    BY <1>6, <1>7
  <2>2. b.at \in Seq(Nat)
    BY <1>6, <1>7, <1>8, Appends
  <2>3. b.content \in Seq(ItemType("modinfo"))
    BY <1>6, <1>7, Appends
  <2>. QED BY <1>6, <1>7, <2>1, <2>2, <2>3 DEF Accessors
<1>10. NumberKnown(b, Append(d, e))
  <2>1. b.num \in 0 .. n + 1
    <3>1. a.num \in 0 .. n
      BY <1>1, <1>4 DEF Known, NumberKnown
    <3>. QED BY <1>6, <3>1
  <2>2. ASSUME kind = "dynamic"  PROVE b.num <= DynCount(Append(d, e))
    <3>1. d \in Seq(Entries) /\ e \in Entries
      BY <1>2, <2>2, ItemTypes
    <3>2. PICK x \in Nat, y \in Nat : x = DynCount(d) /\ y = DynCount(Append(d, e)) /\ x <= y
      BY <3>1, DynCountGrows
    <3>3. a.num <= x /\ b.num = a.num
      BY <1>1, <1>6, <2>2, <3>2 DEF Known, NumberKnown
    <3>. QED BY <1>7, <3>2, <3>3
  <2>3. ASSUME kind = "versym", b.own  PROVE b.num = n + 1
    <3>1. a.num = n
      BY <1>1, <1>4, <1>6, <2>3 DEF Known, NumberKnown
    <3>. QED BY <1>6, <2>3, <3>1
  <2>. QED BY <1>4, <1>6, <2>1, <2>2, <2>3 DEF NumberKnown
<1>11. ASSUME kind = "note"  PROVE PlacesKnown(b, Append(d, e))
  <2>1. PICK m \in Nat : m = Len(a.at)
    BY <1>7
  <2>2. PICK f : /\ Follows(f, m, n) /\ (a.own => AllOf(f, m, n))
                 /\ \A k \in 1 .. m : a.at[k] = Offset(d, f[k])
    BY <1>1, <1>4, <1>11, <2>1 DEF Known, PlacesKnown
  <2>3. PICK g : /\ Follows(g, m + 1, n + 1) /\ g[m + 1] = n + 1 /\ \A k \in 1 .. m : g[k] = f[k]
                 /\ AllOf(f, m, n) => AllOf(g, m + 1, n + 1)
    <3>1. Follows(f, m, n)
      BY <2>2
    <3>. QED BY <3>1, FollowsMore
  <2>4. PICK o \in Nat : o = Offset(Append(d, e), n + 1) /\ b.at = Append(a.at, o)
    BY <1>6, <1>8, <1>11
  <2>5. Len(b.at) = m + 1 /\ b.at[m + 1] = o /\ \A k \in 1 .. m : b.at[k] = a.at[k]
    BY <1>7, <2>1, <2>4, Appends
  <2>6. ASSUME NEW k \in 1 .. m + 1  PROVE b.at[k] = Offset(Append(d, e), g[k])
    <3>1. CASE k \in 1 .. m
      <4>1. Offset(Append(d, e), f[k]) = Offset(d, f[k])
        BY <1>4, <1>8, <1>11, <2>2, <3>1, PlacesMore
      <4>. QED BY <2>2, <2>3, <2>5, <3>1, <4>1
    <3>2. CASE k = m + 1
      BY <2>3, <2>4, <2>5, <3>2
    <3>3. k \in 1 .. m \/ k = m + 1
      OBVIOUS
    <3>. QED BY <3>1, <3>2, <3>3
  <2>7. Follows(g, Len(b.at), Len(Append(d, e)))
        /\ (b.own => AllOf(g, Len(b.at), Len(Append(d, e))))
    BY <1>4, <1>6, <2>2, <2>3, <2>5
  <2>. QED BY <2>5, <2>6, <2>7 DEF PlacesKnown
<1>12. ASSUME kind = "modinfo"  PROVE ContentKnown(b, Append(d, e))
  <2>1. PICK m \in Nat : m = Len(a.content)
    BY <1>7
  <2>2. PICK f : /\ Follows(f, m, n) /\ (a.own => AllOf(f, m, n))
                 /\ \A k \in 1 .. m : a.content[k] = Attribute(d[f[k]])
    BY <1>1, <1>4, <1>12, <2>1 DEF Known, ContentKnown
  <2>3. PICK g : /\ Follows(g, m + 1, n + 1) /\ g[m + 1] = n + 1 /\ \A k \in 1 .. m : g[k] = f[k]
                 /\ AllOf(f, m, n) => AllOf(g, m + 1, n + 1)
    <3>1. Follows(f, m, n)
      BY <2>2
    <3>. QED BY <3>1, FollowsMore
  <2>4. Attribute(e) = i /\ b.content = Append(a.content, i) /\ i \in ItemType("modinfo")
    BY <1>3, <1>6, <1>12 DEF Attribute
  <2>5. Len(b.content) = m + 1 /\ b.content[m + 1] = i /\ \A k \in 1 .. m : b.content[k] = a.content[k]
    BY <1>7, <2>1, <2>4, Appends
  <2>6. ASSUME NEW k \in 1 .. m + 1  PROVE b.content[k] = Attribute(Append(d, e)[g[k]])
    <3>1. CASE k \in 1 .. m
      <4>1. f[k] \in 1 .. Len(d)
        BY <1>4, <2>2, <3>1 DEF Follows
      <4>2. Append(d, e)[f[k]] = d[f[k]]
        BY <1>2, <4>1, Appends
      <4>. QED BY <2>2, <2>3, <2>5, <3>1, <4>2
    <3>2. CASE k = m + 1
      <4>1. Append(d, e)[n + 1] = e
        BY <1>2, <1>4, Appends
      <4>. QED BY <2>3, <2>4, <2>5, <3>2, <4>1
    <3>3. k \in 1 .. m \/ k = m + 1
      OBVIOUS
    <3>. QED BY <3>1, <3>2, <3>3
  <2>7. Follows(g, Len(b.content), Len(Append(d, e)))
        /\ (b.own => AllOf(g, Len(b.content), Len(Append(d, e))))
    BY <1>4, <1>6, <2>2, <2>3, <2>5
  <2>. QED BY <2>5, <2>6, <2>7 DEF ContentKnown
<1>13. Known(b, Append(d, e))
  BY <1>6, <1>10, <1>11, <1>12 DEF Known
<1>. QED BY <1>1, <1>3, <1>5, <1>9, <1>13

(* An accessor that is opened knows the whole section.                     *)
LEMMA OpenedKnown ==
  ASSUME AccInv
  PROVE  Opened \in Accessors /\ Known(Opened, data)
<1> PICK d : d = data
  OBVIOUS
<1>1. PICK n \in Nat : n = Len(d) /\ DOMAIN d = 1 .. n /\ d = data
  <2>1. Len(d) \in Nat /\ DOMAIN d = 1 .. Len(d)
    BY DEF AccInv
  <2>. QED BY <2>1
<1>2. d \in Seq(ItemType(kind)) /\ kind \in AllKinds
  BY <1>1 DEF AccInv
<1>3. PICK b : b = Opened
  OBVIOUS
<1>4. /\ b.num = IF kind = "versym" THEN n ELSE 0
      /\ b.at = IF kind = "note" THEN [k \in 1 .. n |-> Offset(d, k)] ELSE <<>>
      /\ b.content = IF kind = "modinfo" THEN [k \in 1 .. n |-> Attribute(d[k])] ELSE <<>>
      /\ b.own = TRUE /\ b.since = TRUE
      /\ b = [num |-> b.num, at |-> b.at, content |-> b.content, own |-> b.own, since |-> b.since]
  BY <1>1, <1>3 DEF Opened, NotePositions
<1> DEFINE f == [k \in 1 .. n |-> k]
<1>5. Follows(f, n, n) /\ AllOf(f, n, n) /\ \A k \in 1 .. n : f[k] = k
  BY DEF Follows, AllOf
<1> HIDE DEF f
<1>6. b.at \in Seq(Nat) /\ (kind = "note" => Len(b.at) = n /\ \A k \in 1 .. n : b.at[k] = Offset(d, k))
  <2>1. CASE kind = "note"
    <3>1. d \in Seq(Notes)
      BY <1>2, <2>1, ItemTypes
    <3>2. \A k \in 1 .. n : Offset(d, k) \in Nat
      <4> TAKE k \in 1 .. n
      <4>1. k \in 1 .. Len(d) + 1
        BY <1>1
      <4>. QED BY <3>1, <4>1, OffsetNext
    <3>3. b.at \in [1 .. n -> Nat] /\ \A k \in 1 .. n : b.at[k] = Offset(d, k)
      BY <1>4, <2>1, <3>2
    <3>. QED BY <3>3
  <2>2. CASE kind # "note"
    BY <1>4, <2>2
  <2>. QED BY <2>1, <2>2
<1>7. /\ b.content \in Seq(ItemType("modinfo"))
      /\ kind = "modinfo" => Len(b.content) = n /\ \A k \in 1 .. n : b.content[k] = Attribute(d[k])
  <2>1. CASE kind = "modinfo"
    <3>1. \A k \in 1 .. n : Attribute(d[k]) \in ItemType("modinfo")
      <4> TAKE k \in 1 .. n
      <4>1. PICK S : S = [tag : STRING, val : STRING] /\ d \in Seq(S)
        BY <1>2, <2>1, ItemTypes
      <4>2. d[k] \in [tag : STRING, val : STRING]
        <5>1. d[k] \in S
          <6>1. d \in Seq(S) /\ k \in 1 .. Len(d)
            BY <1>1, <4>1
          <6>. QED BY <6>1
        <5>. QED BY <4>1, <5>1
      <4>3. Attribute(d[k]) \in [tag : STRING, val : STRING]
        BY <4>2 DEF Attribute
      <4>. QED BY <4>3, ItemTypes
    <3>2. PICK T : T = ItemType("modinfo")
      OBVIOUS
    <3>3. b.content \in [1 .. n -> T] /\ \A k \in 1 .. n : b.content[k] = Attribute(d[k])
      BY <1>4, <2>1, <3>1, <3>2
    <3>4. b.content \in Seq(T) /\ Len(b.content) = n
      BY <3>3
    <3>. QED BY <3>2, <3>3, <3>4
  <2>2. CASE kind # "modinfo"
    BY <1>4, <2>2
  <2>. QED BY <2>1, <2>2
<1>8. b \in Accessors
  <2>1. b.num \in Nat
    BY <1>4
  <2>3. b.own = TRUE /\ b.since = TRUE
    BY <1>4
  <2>4. b.own \in BOOLEAN /\ b.since \in BOOLEAN
    BY <2>3, Zenon
  <2>2. b = [num |-> b.num, at |-> b.at, content |-> b.content, own |-> b.own, since |-> b.since]
    BY <1>4
  <2>. QED BY <1>6, <1>7, <2>1, <2>2, <2>4 DEF Accessors
<1>9. NumberKnown(b, d)
  <2>1. ASSUME kind = "dynamic"  PROVE DynCount(d) \in Nat
    <3>1. d \in Seq(Entries)
      BY <1>2, <2>1, ItemTypes
    <3>. QED BY <3>1, DynCountIs
  <2>2. b.num \in 0 .. n
    BY <1>4
  <2>. QED BY <1>1, <1>4, <2>1, <2>2 DEF NumberKnown
<1>10. kind = "note" => PlacesKnown(b, d)
  <2>1. ASSUME kind = "note"  PROVE \A k \in 1 .. n : b.at[k] = Offset(d, f[k])
    BY <1>5, <1>6, <2>1
  <2>. QED BY <1>1, <1>5, <1>6, <2>1 DEF PlacesKnown
<1>11. kind = "modinfo" => ContentKnown(b, d)
  <2>1. ASSUME kind = "modinfo"  PROVE \A k \in 1 .. n : b.content[k] = Attribute(d[f[k]])
    BY <1>5, <1>7, <2>1
  <2>. QED BY <1>1, <1>5, <1>7, <2>1 DEF ContentKnown
<1>12. Known(b, d)
  BY <1>4, <1>9, <1>10, <1>11 DEF Known
<1>. QED BY <1>1, <1>3, <1>8, <1>12

(* What a step has to establish.                                           *)
LEMMA AccInvNext ==
  ASSUME AccInv, kind' = kind, class' = class, msb' = msb,
         data' \in Seq(ItemType(kind)), asked' \in Seq(ItemType(kind)),
         Len(data') = Len(asked'), Len(data') <= MaxItems, Converted => data' = asked',
         accs' \in Seq(Accessors), Len(accs') <= MaxAccessors,
         \A n \in DOMAIN accs' : Known(accs'[n], data')
  PROVE  AccInv'
<1>1. Converted' = Converted
  BY DEF Converted
<1>2. \A n \in DOMAIN accs' : Known(accs[n], data)'
  BY DEF Known, NumberKnown, PlacesKnown, ContentKnown, Attribute
<1>. QED BY <1>1, <1>2 DEF AccInv

LEMMA AccStepOK == AccInv /\ [AccNext]_accVars => AccInv'
<1> SUFFICES ASSUME AccInv, [AccNext]_accVars  PROVE AccInv'
  OBVIOUS
<1>1. kind' = kind /\ class' = class /\ msb' = msb
  BY DEF AccNext, Open, Add, Count, Modify, accVars
<1>2. PICK T : T = ItemType(kind)
  OBVIOUS
<1>3. /\ data \in Seq(T) /\ asked \in Seq(T) /\ accs \in Seq(Accessors)
      /\ kind \in AllKinds /\ kind \in Kinds /\ class \in {32, 64}
      /\ Len(data) = Len(asked) /\ Len(data) <= MaxItems /\ Len(accs) <= MaxAccessors
      /\ Converted => data = asked
  BY <1>2 DEF AccInv
<1>4. /\ DOMAIN data = 1 .. Len(data) /\ DOMAIN accs = 1 .. Len(accs)
      /\ Len(data) \in Nat /\ Len(accs) \in Nat
  BY <1>3
<1>5. \A n \in 1 .. Len(accs) : accs[n] \in Accessors /\ Known(accs[n], data)
  <2> TAKE n \in 1 .. Len(accs)
  <2>1. accs[n] \in Accessors
    BY <1>3
  <2>. QED BY <1>4, <2>1 DEF AccInv
<1>6. MaxItems \in Nat /\ MaxAccessors \in Nat /\ ItemsOf[kind] \subseteq T
      /\ (kind = "modinfo" => \A i \in ItemsOf[kind] : i.val # NoValue)
  BY <1>2, <1>3, AccessorsAssumption
<1>7. CASE Open
  <2>1. data' = data /\ asked' = asked /\ accs' = Append(accs, Opened) /\ Len(accs) < MaxAccessors
    BY <1>7 DEF Open
  <2>2. Opened \in Accessors /\ Known(Opened, data)
    BY OpenedKnown
  <2>3. /\ accs' \in Seq(Accessors) /\ Len(accs') = Len(accs) + 1
        /\ \A n \in 1 .. Len(accs) : accs'[n] = accs[n]
        /\ accs'[Len(accs) + 1] = Opened
    BY <1>3, <2>1, <2>2, Appends
  <2>4. ASSUME NEW n \in DOMAIN accs'  PROVE Known(accs'[n], data')
    <3>1. n \in 1 .. Len(accs) + 1
      BY <2>3
    <3>2. CASE n \in 1 .. Len(accs)
      BY <1>5, <2>1, <2>3, <3>2
    <3>3. CASE n = Len(accs) + 1
      BY <2>1, <2>2, <2>3, <3>3
    <3>4. n \in 1 .. Len(accs) \/ n = Len(accs) + 1
      BY <1>4, <3>1
    <3>. QED BY <3>2, <3>3, <3>4
  <2>5. Len(accs') <= MaxAccessors
    BY <1>4, <1>6, <2>1, <2>3
  <2>. QED BY <1>1, <1>2, <1>3, <2>1, <2>3, <2>4, <2>5, AccInvNext
<1>8. CASE Add
  <2>1. PICK n \in DOMAIN accs, i \in ItemsOf[kind] :
          /\ Fits(i) /\ data' = Append(data, Through(i))
          /\ asked' = Append(asked, IF kind = "dynamic" THEN DynItem(i) ELSE i)
          /\ accs' = [m \in DOMAIN accs |->
                        IF m = n THEN Appended(accs[m], i)
                        ELSE [accs[m] EXCEPT !.own = FALSE, !.since = FALSE]]
    BY <1>8 DEF Add
  <2>2. PICK e \in T, w \in T : /\ e = Through(i) /\ w = (IF kind = "dynamic" THEN DynItem(i) ELSE i)
                                /\ (Converted => e = w)
    <3>1. i \in ItemType(kind)
      BY <1>2, <1>6
    <3>. QED BY <1>2, <1>3, <2>1, <3>1, ThroughItem
  <2>3. data' = Append(data, e) /\ asked' = Append(asked, w) /\ Len(data) < MaxItems
    BY <1>8, <2>1, <2>2 DEF Add
  <2>4. data' \in Seq(T) /\ asked' \in Seq(T) /\ Len(data') = Len(data) + 1 /\ Len(asked') = Len(asked) + 1
    BY <1>3, <2>3, Appends
  <2>5. ASSUME NEW m \in 1 .. Len(accs)  PROVE accs'[m] \in Accessors /\ Known(accs'[m], data')
    <3>1. PICK a \in Accessors : a = accs[m] /\ Known(a, data)
      BY <1>5
    <3>2. CASE m = n
      <4>1. accs'[m] = Appended(a, i)
        BY <1>4, <2>1, <3>1, <3>2
      <4>2. i \in ItemType(kind) /\ (kind = "modinfo" => i.val # NoValue)
        BY <1>2, <1>6
      <4>. QED BY <2>1, <3>1, <4>1, <4>2, KnownByOwner
    <3>3. CASE m # n
      <4>1. PICK b : b = [a EXCEPT !.own = FALSE, !.since = FALSE]
        OBVIOUS
      <4>2. accs'[m] = b
        BY <1>4, <2>1, <3>1, <3>3, <4>1
      <4>3. /\ b \in Accessors
            /\ b.num = a.num /\ b.at = a.at /\ b.content = a.content /\ ~b.own /\ ~b.since
        BY <4>1 DEF Accessors
      <4>4. Known(b, Append(data, e))
        <5>1. data \in Seq(ItemType(kind)) /\ e \in ItemType(kind)
          BY <1>2, <1>3
        <5>. QED BY <1>3, <3>1, <4>3, <5>1, KnownByOther
      <4>. QED BY <2>3, <4>2, <4>3, <4>4
    <3>. QED BY <3>2, <3>3
  <2>6. accs' \in Seq(Accessors) /\ Len(accs') = Len(accs) /\ DOMAIN accs' = 1 .. Len(accs)
    <3>1. DOMAIN accs' = 1 .. Len(accs) /\ accs' = [m \in 1 .. Len(accs) |-> accs'[m]]
      BY <1>4, <2>1
    <3>2. accs' \in [1 .. Len(accs) -> Accessors]
      BY <2>5, <3>1
    <3>. QED BY <1>4, <3>1, <3>2
  <2>7. Len(data') <= MaxItems
    BY <1>4, <1>6, <2>3, <2>4
  <2>. QED BY <1>1, <1>2, <1>3, <2>2, <2>3, <2>4, <2>5, <2>6, <2>7, AccInvNext
<1>9. CASE Count
  <2>1. PICK n \in DOMAIN accs :
          accs' = [accs EXCEPT ![n].num = IF @ = 0 THEN DynCount(data) ELSE @]
    BY <1>9 DEF Count
  <2>2. data' = data /\ asked' = asked /\ kind = "dynamic"
    BY <1>9 DEF Count
  <2>3. PICK c \in 0 .. Len(data) : c = DynCount(data)
    <3>1. data \in Seq(Entries)
      BY <1>2, <1>3, <2>2, ItemTypes
    <3>. QED BY <3>1, DynCountIs
  <2>4. ASSUME NEW m \in 1 .. Len(accs)  PROVE accs'[m] \in Accessors /\ Known(accs'[m], data')
    <3>1. PICK a \in Accessors : a = accs[m] /\ Known(a, data)
      BY <1>5
    <3>2. CASE m = n
      <4>1. PICK b : b = [a EXCEPT !.num = IF @ = 0 THEN c ELSE @]
        OBVIOUS
      <4>2. accs'[m] = b
        BY <1>4, <2>1, <2>3, <3>1, <3>2, <4>1
      <4>3. /\ b.num = (IF a.num = 0 THEN c ELSE a.num) /\ b.at = a.at
            /\ b.own = a.own /\ b.since = a.since
        BY <4>1 DEF Accessors
      <4>4. b \in Accessors
        BY <4>1 DEF Accessors
      <4>5. Known(b, data)
        BY <2>2, <2>3, <3>1, <4>3 DEF Known, NumberKnown
      <4>. QED BY <2>2, <4>2, <4>4, <4>5
    <3>3. CASE m # n
      BY <1>4, <2>1, <2>2, <3>1, <3>3
    <3>. QED BY <3>2, <3>3
  <2>5. accs' \in Seq(Accessors) /\ Len(accs') = Len(accs) /\ DOMAIN accs' = 1 .. Len(accs)
    <3>1. DOMAIN accs' = 1 .. Len(accs) /\ accs' = [m \in 1 .. Len(accs) |-> accs'[m]]
      BY <1>4, <2>1
    <3>2. accs' \in [1 .. Len(accs) -> Accessors]
      BY <2>4, <3>1
    <3>. QED BY <1>4, <3>1, <3>2
  <2>. QED BY <1>1, <1>2, <1>3, <2>2, <2>4, <2>5, AccInvNext
<1>10. CASE Modify
  <2>1. PICK n \in DOMAIN accs, i \in ItemsOf[kind] : \E k \in 1 .. accs[n].num :
          data' = [data EXCEPT ![k] = i] /\ asked' = [asked EXCEPT ![k] = i]
    BY <1>10 DEF Modify
  <2>2. PICK k \in 1 .. accs[n].num : data' = [data EXCEPT ![k] = i] /\ asked' = [asked EXCEPT ![k] = i]
    BY <2>1
  <2>3. accs' = accs /\ kind = "versym"
    BY <1>10 DEF Modify
  <2>4. i \in T
    BY <1>6
  <2>5. data' \in Seq(T) /\ asked' \in Seq(T) /\ Len(data') = Len(data) /\ Len(asked') = Len(asked)
    <3>1. PICK p \in Nat : p = Len(data) /\ p = Len(asked)
      BY <1>3, <1>4
    <3>2. data \in [1 .. p -> T] /\ asked \in [1 .. p -> T]
      BY <1>3, <3>1
    <3>3. data' \in [1 .. p -> T] /\ asked' \in [1 .. p -> T]
      BY <2>2, <2>4, <3>2
    <3>4. data' \in Seq(T) /\ asked' \in Seq(T) /\ Len(data') = p /\ Len(asked') = p
      BY <3>3
    <3>. QED BY <3>1, <3>4
  <2>6. ASSUME NEW m \in DOMAIN accs'  PROVE Known(accs'[m], data')
    <3>1. Known(accs[m], data)
      BY <1>4, <1>5, <2>3
    <3>. QED BY <2>3, <2>5, <3>1 DEF Known, NumberKnown
  <2>. QED BY <1>1, <1>2, <1>3, <2>2, <2>3, <2>5, <2>6, AccInvNext
<1>11. CASE UNCHANGED accVars
  <2>1. data' = data /\ asked' = asked /\ accs' = accs
    BY <1>11 DEF accVars
  <2>. QED BY <1>1, <1>2, <1>3, <1>4, <1>5, <2>1, AccInvNext
<1>. QED BY <1>7, <1>8, <1>9, <1>10, <1>11 DEF AccNext

----------------------------------------------------------------------------
(* What accessor a shows of a section that holds d, as View has it of data.*)
Shown(a, d) ==
  CASE kind = "dynamic" -> SubSeq(d, 1, IF a.num = 0 THEN DynCount(d) ELSE a.num)
    [] kind = "versym"  -> SubSeq(d, 1, a.num)
    [] kind = "array"   -> d
    [] kind = "note"    -> [k \in DOMAIN a.at |-> NoteAt(d, a.at[k])]
    [] kind = "modinfo" -> a.content

VisibleIn(d) == {k \in DOMAIN d : kind = "dynamic" => \A j \in 1 .. k - 1 : d[j].tag # 0}

(* a may miss nothing of d.                                                *)
UpToDate(a) == a.own /\ (kind = "dynamic" => a.num = 0 \/ a.since)

Finds(a, d, f, m) ==
  /\ Follows(f, m, Len(d))
  /\ DOMAIN Shown(a, d) = 1 .. m
  /\ \A k \in 1 .. m : Shown(a, d)[k] = Attribute(d[f[k]])
  /\ Shown(a, d) \in Seq(ItemType(kind)) /\ Len(Shown(a, d)) = m
  /\ UpToDate(a) => 1 .. m = VisibleIn(d) /\ \A k \in 1 .. m : f[k] = k

LEMMA AttributeIs ==
  ASSUME kind \in AllKinds, NEW i \in ItemType(kind)
  PROVE  Attribute(i) \in ItemType(kind) /\ (kind # "modinfo" => Attribute(i) = i)
<1>1. CASE kind = "modinfo"
  <2>1. i \in [tag : STRING, val : STRING]
    BY <1>1, ItemTypes
  <2>2. Attribute(i) \in [tag : STRING, val : STRING]
    BY <2>1 DEF Attribute
  <2>. QED BY <1>1, <2>2, ItemTypes
<1>2. CASE kind # "modinfo"
  BY <1>2 DEF Attribute
<1>. QED BY <1>1, <1>2

LEMMA FirstOf ==
  ASSUME NEW S, NEW d \in Seq(S), NEW c \in 0 .. Len(d)
  PROVE  /\ SubSeq(d, 1, c) \in Seq(S) /\ Len(SubSeq(d, 1, c)) = c /\ DOMAIN SubSeq(d, 1, c) = 1 .. c
         /\ \A k \in 1 .. c : SubSeq(d, 1, c)[k] = d[k]
  OBVIOUS

(* An accessor that counts, or does not even do that, shows a beginning.   *)
LEMMA FirstsFound ==
  ASSUME kind \in AllKinds, kind \notin {"note", "modinfo"}, NEW d \in Seq(ItemType(kind)),
         NEW a, NEW c \in 0 .. Len(d),
         Shown(a, d) = SubSeq(d, 1, c), UpToDate(a) => 1 .. c = VisibleIn(d)
  PROVE  \E f : Finds(a, d, f, c)
<1> DEFINE f == [k \in 1 .. c |-> k]
<1>1. PICK n \in Nat : n = Len(d) /\ c \in 0 .. n
  OBVIOUS
<1>2. Follows(f, c, n) /\ \A k \in 1 .. c : f[k] = k
  BY <1>1 DEF Follows
<1> HIDE DEF f
<1>3. /\ Shown(a, d) \in Seq(ItemType(kind)) /\ Len(Shown(a, d)) = c /\ DOMAIN Shown(a, d) = 1 .. c
      /\ \A k \in 1 .. c : Shown(a, d)[k] = d[k]
  BY FirstOf
<1>4. ASSUME NEW k \in 1 .. c  PROVE Shown(a, d)[k] = Attribute(d[f[k]])
  <2>1. d[k] \in ItemType(kind)
    <3>1. PICK T : T = ItemType(kind) /\ d \in Seq(T)
      OBVIOUS
    <3>2. d[k] \in T
      BY <1>1, <3>1
    <3>. QED BY <3>1, <3>2
  <2>. QED BY <1>2, <1>3, <2>1, AttributeIs
<1>. QED BY <1>1, <1>2, <1>3, <1>4 DEF Finds

LEMMA ShownFinds ==
  ASSUME kind \in AllKinds, NEW d \in Seq(ItemType(kind)), NEW a \in Accessors, Known(a, d)
  PROVE  \E m \in Nat : \E f : Finds(a, d, f, m)
<1>1. PICK T : T = ItemType(kind) /\ d \in Seq(T)
  OBVIOUS
<1>2. PICK n \in Nat : n = Len(d) /\ DOMAIN d = 1 .. n
  BY <1>1
<1>3. \A k \in 1 .. n : d[k] \in T
  BY <1>1, <1>2
<1>4. a.num \in 0 .. n
  BY <1>2 DEF Known, NumberKnown
<1>5. CASE kind = "dynamic"
  <2>1. d \in Seq(Entries)
    BY <1>5, ItemTypes
  <2>2. PICK x \in 0 .. n : x = DynCount(d)
    BY <1>2, <2>1, DynCountIs
  <2>3. PICK c \in 0 .. n : c = IF a.num = 0 THEN x ELSE a.num
    BY <1>4
  <2>4. Shown(a, d) = SubSeq(d, 1, c)
    BY <1>5, <2>2, <2>3 DEF Shown
  <2>5. ASSUME UpToDate(a)  PROVE 1 .. c = VisibleIn(d)
    <3>1. c = x
      BY <1>5, <2>2, <2>3, <2>5 DEF UpToDate, Known, NumberKnown
    <3>2. \A k \in 1 .. n : k <= x <=> \A j \in 1 .. k - 1 : d[j].tag # 0
      BY <1>2, <2>1, <2>2, DynCountIs
    <3>3. 1 .. x \subseteq 1 .. n /\ \A k \in 1 .. n : k \in 1 .. x <=> k <= x
      OBVIOUS
    <3>. QED BY <1>2, <1>5, <3>1, <3>2, <3>3 DEF VisibleIn
  <2>6. \E f : Finds(a, d, f, c)
    BY <1>2, <1>5, <2>4, <2>5, FirstsFound
  <2>. QED BY <2>6
<1>6. CASE kind = "versym"
  <2>1. Shown(a, d) = SubSeq(d, 1, a.num)
    BY <1>6 DEF Shown
  <2>2. ASSUME UpToDate(a)  PROVE 1 .. a.num = VisibleIn(d)
    BY <1>2, <1>6, <2>2 DEF UpToDate, Known, NumberKnown, VisibleIn
  <2>3. \E f : Finds(a, d, f, a.num)
    BY <1>2, <1>4, <1>6, <2>1, <2>2, FirstsFound
  <2>. QED BY <1>4, <2>3
<1>7. CASE kind = "array"
  <2>1. SubSeq(d, 1, n) = d
    BY <1>1, <1>2
  <2>2. Shown(a, d) = SubSeq(d, 1, n)
    BY <1>7, <2>1 DEF Shown
  <2>3. 1 .. n = VisibleIn(d)
    BY <1>2, <1>7 DEF VisibleIn
  <2>4. \E f : Finds(a, d, f, n)
    <3>1. n \in 0 .. n
      OBVIOUS
    <3>. QED BY <1>2, <1>7, <2>2, <2>3, <3>1, FirstsFound
  <2>. QED BY <2>4
<1>8. CASE kind = "note"
  <2>1. PICK m \in Nat : m = Len(a.at) /\ DOMAIN a.at = 1 .. m
    BY DEF Accessors
  <2>2. PICK f : /\ Follows(f, m, n) /\ (a.own => AllOf(f, m, n))
                 /\ \A k \in 1 .. m : a.at[k] = Offset(d, f[k])
    BY <1>2, <1>8, <2>1 DEF Known, PlacesKnown
  <2>3. Shown(a, d) = [k \in 1 .. m |-> NoteAt(d, a.at[k])]
    BY <1>8, <2>1 DEF Shown
  <2>4. ASSUME NEW k \in 1 .. m  PROVE Shown(a, d)[k] = d[f[k]] /\ d[f[k]] \in T
                                         /\ d[f[k]] = Attribute(d[f[k]])
    <3>1. f[k] \in 1 .. n
      BY <2>2 DEF Follows
    <3>2. d \in Seq(Notes)
      BY <1>8, ItemTypes
    <3>3. NoteAt(d, Offset(d, f[k])) = d[f[k]]
      BY <1>2, <3>1, <3>2, NoteFound
    <3>4. d[f[k]] \in T
      BY <1>3, <3>1
    <3>. QED BY <1>1, <1>8, <2>2, <2>3, <3>3, <3>4, AttributeIs
  <2>5. Shown(a, d) \in [1 .. m -> T]
    BY <2>3, <2>4
  <2>6. Shown(a, d) \in Seq(T) /\ Len(Shown(a, d)) = m /\ DOMAIN Shown(a, d) = 1 .. m
    BY <2>5
  <2>7. UpToDate(a) => 1 .. m = VisibleIn(d) /\ \A k \in 1 .. m : f[k] = k
    BY <1>2, <1>8, <2>2 DEF UpToDate, AllOf, VisibleIn
  <2>8. Finds(a, d, f, m)
    BY <1>1, <1>2, <2>2, <2>4, <2>6, <2>7 DEF Finds
  <2>. QED BY <2>8
<1>9. CASE kind = "modinfo"
  <2>1. PICK m \in Nat : m = Len(a.content) /\ DOMAIN a.content = 1 .. m
    BY DEF Accessors
  <2>2. PICK f : /\ Follows(f, m, n) /\ (a.own => AllOf(f, m, n))
                 /\ \A k \in 1 .. m : a.content[k] = Attribute(d[f[k]])
    BY <1>2, <1>9, <2>1 DEF Known, ContentKnown
  <2>3. Shown(a, d) = a.content
    BY <1>9 DEF Shown
  <2>4. Shown(a, d) \in Seq(ItemType(kind))
    BY <1>9, <2>3 DEF Accessors
  <2>5. UpToDate(a) => 1 .. m = VisibleIn(d) /\ \A k \in 1 .. m : f[k] = k
    BY <1>2, <1>9, <2>2 DEF UpToDate, AllOf, VisibleIn
  <2>6. Finds(a, d, f, m)
    BY <1>2, <2>1, <2>2, <2>3, <2>4, <2>5 DEF Finds
  <2>. QED BY <2>6
<1>. QED BY <1>5, <1>6, <1>7, <1>8, <1>9 DEF AllKinds

(* An accessor knows of no more entries than there are.                    *)
LEMMA FollowsBound ==
  ASSUME NEW m \in Nat, NEW n \in Nat, NEW f, Follows(f, m, n)
  PROVE  m <= n
<1>1. f \in [1 .. m -> 1 .. n] /\ \A k \in 1 .. m : k > 1 => f[k - 1] < f[k]
  BY DEF Follows
<1> DEFINE T == {k \in Nat : k \in 1 .. m => k <= f[k]}
<1>2. 0 \in T
  OBVIOUS
<1>3. ASSUME NEW k \in T  PROVE k + 1 \in T
  <2>1. ASSUME k + 1 \in 1 .. m  PROVE k + 1 <= f[k + 1]
    <3>1. f[k + 1] \in 1 .. n
      BY <1>1, <2>1
    <3>2. CASE k = 0
      BY <3>1, <3>2
    <3>3. CASE k # 0
      <4>1. k \in 1 .. m
        BY <2>1, <3>3
      <4>2. f[k] \in 1 .. n /\ k <= f[k]
        BY <1>1, <4>1
      <4>3. f[k] < f[k + 1]
        <5>1. (k + 1) - 1 = k /\ k + 1 > 1
          BY <4>1
        <5>. QED BY <1>1, <2>1, <5>1
      <4>. QED BY <3>1, <4>2, <4>3
    <3>. QED BY <3>2, <3>3
  <2>. QED BY <2>1
<1>4. \A k \in Nat : k \in T
  <2>1. T \subseteq Nat
    OBVIOUS
  <2> HIDE DEF T
  <2>. QED BY <1>2, <1>3, <2>1, NatInduct
<1>5. CASE m = 0
  BY <1>5
<1>6. CASE m # 0
  <2>1. m \in 1 .. m /\ m <= f[m]
    BY <1>4, <1>6
  <2>2. f[m] \in 1 .. n
    BY <1>1, <2>1
  <2>. QED BY <2>1, <2>2
<1>. QED BY <1>5, <1>6

LEMMA ViewShown ==
  /\ \A a : View(a) = Shown(a, data)
  /\ AccInv => \A n \in DOMAIN accs : accs[n] \in Accessors /\ Known(accs[n], data)
<1>1. \A a : View(a) = Shown(a, data)
  BY DEF View, Shown
<1>2. ASSUME AccInv, NEW n \in DOMAIN accs  PROVE accs[n] \in Accessors /\ Known(accs[n], data)
  <2>1. accs \in Seq(Accessors)
    BY <1>2 DEF AccInv
  <2>2. accs[n] \in Accessors
    BY <1>2, <2>1
  <2>. QED BY <1>2, <2>2 DEF AccInv
<1>. QED BY <1>1, <1>2

LEMMA InvSees == AccInv => OwnerSees
<1> SUFFICES ASSUME AccInv, Converted, NEW n \in DOMAIN accs,
                    accs[n].own, kind = "dynamic" => accs[n].num = 0 \/ accs[n].since
             PROVE  View(accs[n]) = [k \in Visible |-> Attribute(asked[k])]
  BY DEF OwnerSees
<1>1. PICK a \in Accessors : a = accs[n] /\ Known(a, data) /\ View(a) = Shown(a, data)
  BY ViewShown
<1>2. UpToDate(a)
  BY <1>1 DEF UpToDate
<1>3. kind \in AllKinds /\ data \in Seq(ItemType(kind)) /\ data = asked
  BY DEF AccInv
<1>4. PICK m \in Nat : \E f : Finds(a, data, f, m)
  BY <1>1, <1>3, ShownFinds
<1>5. PICK f : Finds(a, data, f, m)
  BY <1>4
<1>6. /\ DOMAIN Shown(a, data) = 1 .. m /\ 1 .. m = VisibleIn(data)
      /\ \A k \in 1 .. m : Shown(a, data)[k] = Attribute(data[k])
  BY <1>2, <1>5 DEF Finds
<1>7. Visible = 1 .. m
  BY <1>3, <1>6 DEF Visible, VisibleIn
<1>8. Shown(a, data) = [k \in 1 .. m |-> Shown(a, data)[k]]
  <2>1. PICK S : S = ItemType(kind) /\ Shown(a, data) \in Seq(S)
    BY <1>5 DEF Finds
  <2>2. PICK s \in Seq(S) : s = Shown(a, data) /\ DOMAIN s = 1 .. m
    BY <1>6, <2>1
  <2>3. s = [k \in DOMAIN s |-> s[k]]
    OBVIOUS
  <2>. QED BY <2>2, <2>3
<1>9. [k \in 1 .. m |-> Shown(a, data)[k]] = [k \in 1 .. m |-> Attribute(asked[k])]
  BY <1>3, <1>6
<1>. QED BY <1>1, <1>7, <1>8, <1>9

LEMMA InvShows == AccInv => ShowsWhatIsThere
<1> SUFFICES ASSUME AccInv PROVE ShowsWhatIsThere
  OBVIOUS
<1>1. AccTypeOK
  <2>1. Len(data) = Len(asked) /\ Len(data) <= MaxItems /\ Len(accs) <= MaxAccessors
    BY DEF AccInv
  <2>2. PICK p \in Nat : p = Len(data) /\ p <= MaxItems /\ MaxItems \in Nat
    <3>1. Len(data) \in Nat
      BY DEF AccInv
    <3>. QED BY <2>1, <3>1, Sizes
  <2>3. ASSUME NEW n \in DOMAIN accs
        PROVE  accs[n].num \in 0 .. MaxItems /\ Len(accs[n].at) <= MaxItems
               /\ (accs[n].since => accs[n].own)
    <3>1. PICK a \in Accessors : a = accs[n] /\ Known(a, data)
      BY ViewShown
    <3>2. a.num \in 0 .. p /\ (a.since => a.own)
      BY <2>2, <3>1 DEF Known, NumberKnown
    <3>3. Len(a.at) <= p
      <4>1. CASE kind = "note"
        <5>1. PICK m \in Nat : m = Len(a.at)
          BY DEF Accessors
        <5>2. PICK f : Follows(f, m, p)
          BY <2>2, <3>1, <4>1, <5>1 DEF Known, PlacesKnown
        <5>3. m <= p
          BY <5>2, FollowsBound
        <5>. QED BY <5>1, <5>3
      <4>2. CASE kind # "note"
        <5>1. a.at = <<>>
          BY <3>1, <4>2 DEF Known
        <5>2. Len(a.at) = 0
          BY <5>1
        <5>. QED BY <5>2
      <4>. QED BY <4>1, <4>2
    <3>4. Len(a.at) \in Nat
      BY DEF Accessors
    <3>. QED BY <2>2, <3>1, <3>2, <3>3, <3>4
  <2>. QED BY <2>1, <2>3 DEF AccTypeOK
<1>2. ASSUME Converted, NEW n \in DOMAIN accs, NEW v, v = View(accs[n])
      PROVE  \E f \in [DOMAIN v -> DOMAIN asked] :
               \A k \in DOMAIN v : v[k] = Attribute(asked[f[k]]) /\ (k > 1 => f[k - 1] < f[k])
  <2>1. PICK a \in Accessors : a = accs[n] /\ Known(a, data) /\ View(a) = Shown(a, data)
    BY ViewShown
  <2>2. kind \in AllKinds /\ data \in Seq(ItemType(kind)) /\ data = asked
    BY <1>2 DEF AccInv
  <2>3. PICK m \in Nat : \E f : Finds(a, data, f, m)
    BY <2>1, <2>2, ShownFinds
  <2>4. PICK f : Finds(a, data, f, m)
    BY <2>3
  <2>5. DOMAIN v = 1 .. m /\ \A k \in 1 .. m : v[k] = Attribute(asked[f[k]])
    BY <1>2, <2>1, <2>2, <2>4 DEF Finds
  <2>6. DOMAIN asked = 1 .. Len(data)
    BY <2>2
  <2>7. f \in [1 .. m -> 1 .. Len(data)] /\ \A k \in 1 .. m : k > 1 => f[k - 1] < f[k]
    BY <2>4 DEF Finds, Follows
  <2>. QED BY <2>5, <2>6, <2>7
<1>. QED BY <1>1, <1>2 DEF ShowsWhatIsThere

LEMMA PrefixIf ==
  ASSUME NEW S, NEW s \in Seq(S), NEW t \in Seq(S), Len(s) <= Len(t),
         \A k \in 1 .. Len(s) : s[k] = t[k]
  PROVE  IsPrefix(s, t)
<1>1. PICK m \in Nat : m = Len(s) /\ m \in 0 .. Len(t) /\ m \in 0 .. Len(s)
  OBVIOUS
<1>2. PICK u \in Seq(S), w \in Seq(S) : u = SubSeq(s, 1, m) /\ w = SubSeq(t, 1, m)
  BY <1>1, FirstOf
<1>3. /\ DOMAIN u = 1 .. m /\ DOMAIN w = 1 .. m
      /\ \A k \in 1 .. m : u[k] = s[k] /\ w[k] = t[k]
  BY <1>1, <1>2, FirstOf
<1>4. u = [k \in 1 .. m |-> u[k]] /\ w = [k \in 1 .. m |-> w[k]]
  BY <1>2, <1>3
<1>5. u = w
  BY <1>1, <1>3, <1>4
<1>. QED BY <1>1, <1>2, <1>5 DEF IsPrefix

LEMMA PrefixSelf ==
  ASSUME NEW S, NEW s \in Seq(S)  PROVE IsPrefix(s, s)
<1>1. Len(s) \in Nat
  OBVIOUS
<1>. QED BY <1>1, PrefixIf

(* Two beginnings of a section, the second taken after an entry was added. *)
LEMMA PrefixFirst ==
  ASSUME NEW S, NEW d \in Seq(S), NEW e \in S, NEW c \in 0 .. Len(d), NEW x \in 0 .. Len(d) + 1,
         c <= x
  PROVE  IsPrefix(SubSeq(d, 1, c), SubSeq(Append(d, e), 1, x))
<1> PICK D : D = Append(d, e)
  OBVIOUS
<1>1. D = Append(d, e) /\ D \in Seq(S) /\ Len(D) = Len(d) + 1 /\ \A k \in 1 .. Len(d) : D[k] = d[k]
  BY Appends
<1>2. PICK n \in Nat : n = Len(d) /\ c \in 0 .. n /\ x \in 0 .. n + 1 /\ Len(D) = n + 1
  BY <1>1
<1>3. /\ SubSeq(d, 1, c) \in Seq(S) /\ Len(SubSeq(d, 1, c)) = c
      /\ \A k \in 1 .. c : SubSeq(d, 1, c)[k] = d[k]
  BY FirstOf
<1>4. /\ SubSeq(D, 1, x) \in Seq(S) /\ Len(SubSeq(D, 1, x)) = x
      /\ \A k \in 1 .. x : SubSeq(D, 1, x)[k] = D[k]
  BY <1>2, FirstOf
<1>5. \A k \in 1 .. c : k \in 1 .. x /\ k \in 1 .. n
  BY <1>2
<1>6. \A k \in 1 .. c : SubSeq(d, 1, c)[k] = SubSeq(D, 1, x)[k]
  BY <1>1, <1>2, <1>3, <1>4, <1>5
<1>. QED BY <1>1, <1>3, <1>4, <1>6, PrefixIf

(* After an entry was added an accessor shows what it has shown, at least: *)
(* b is what accessor a has become.                                        *)
LEMMA ShownGrows ==
  ASSUME kind \in AllKinds, NEW d \in Seq(ItemType(kind)), NEW e \in ItemType(kind),
         NEW a \in Accessors, Known(a, d), NEW b \in Accessors, Known(b, Append(d, e)),
         b.num = a.num \/ (kind = "versym" /\ b.num = a.num + 1),
         b.at = a.at \/ \E o \in Nat : b.at = Append(a.at, o),
         b.content = a.content \/ \E i \in ItemType("modinfo") : b.content = Append(a.content, i)
  PROVE  IsPrefix(Shown(a, d), Shown(b, Append(d, e)))
<1>1. PICK T : T = ItemType(kind) /\ d \in Seq(T) /\ e \in T
  OBVIOUS
<1> PICK D : D = Append(d, e)
  OBVIOUS
<1>2. /\ D = Append(d, e) /\ D \in Seq(T) /\ Len(D) = Len(d) + 1 /\ Len(d) \in Nat
      /\ \A k \in 1 .. Len(d) : D[k] = d[k]
  BY <1>1, Appends
<1>3. PICK n \in Nat : n = Len(d) /\ Len(D) = n + 1 /\ a.num \in 0 .. n /\ b.num \in 0 .. n + 1
  <2>1. Len(d) \in Nat
    BY <1>1
  <2>2. a.num \in 0 .. Len(d) /\ b.num \in 0 .. Len(D)
    BY <1>2 DEF Known, NumberKnown
  <2>. QED BY <1>2, <2>1, <2>2
<1>4. CASE kind = "dynamic"
  <2>1. d \in Seq(Entries) /\ e \in Entries /\ D \in Seq(Entries)
    BY <1>1, <1>4, ItemTypes
  <2>2. PICK x \in 0 .. n, y \in 0 .. n + 1 : x = DynCount(d) /\ y = DynCount(D) /\ x <= y
    <3>1. DynCount(d) \in 0 .. n /\ DynCount(D) \in 0 .. n + 1
      BY <1>3, <2>1, DynCountIs
    <3>2. DynCount(d) <= DynCount(D)
      BY <1>2, <2>1, DynCountGrows
    <3>. QED BY <3>1, <3>2
  <2>3. PICK c \in 0 .. n, z \in 0 .. n + 1 :
          c = (IF a.num = 0 THEN x ELSE a.num) /\ z = (IF b.num = 0 THEN y ELSE b.num) /\ c <= z
    BY <1>3, <1>4, <2>2
  <2>4. Shown(a, d) = SubSeq(d, 1, c) /\ Shown(b, D) = SubSeq(D, 1, z)
    BY <1>4, <2>2, <2>3 DEF Shown
  <2>5. IsPrefix(SubSeq(d, 1, c), SubSeq(Append(d, e), 1, z))
    BY <1>1, <1>3, <2>3, PrefixFirst
  <2>. QED BY <1>2, <2>4, <2>5
<1>5. CASE kind = "versym"
  <2>1. Shown(a, d) = SubSeq(d, 1, a.num) /\ Shown(b, D) = SubSeq(D, 1, b.num)
    BY <1>5 DEF Shown
  <2>2. a.num <= b.num
    BY <1>3
  <2>3. IsPrefix(SubSeq(d, 1, a.num), SubSeq(Append(d, e), 1, b.num))
    BY <1>1, <1>3, <2>2, PrefixFirst
  <2>. QED BY <1>2, <2>1, <2>3
<1>6. CASE kind = "array"
  <2>1. Shown(a, d) = d /\ Shown(b, D) = D
    BY <1>6 DEF Shown
  <2>2. Len(d) <= Len(D) /\ \A k \in 1 .. Len(d) : d[k] = D[k]
    BY <1>2
  <2>3. IsPrefix(d, D)
    BY <1>1, <1>2, <2>2, PrefixIf
  <2>. QED BY <1>2, <2>1, <2>3
<1>7. CASE kind = "note"
  <2>1. PICK m \in Nat : m = Len(a.at) /\ DOMAIN a.at = 1 .. m
    BY DEF Accessors
  <2>2. PICK w \in Nat : w = Len(b.at) /\ DOMAIN b.at = 1 .. w
    BY DEF Accessors
  <2>3. m <= w /\ \A k \in 1 .. m : b.at[k] = a.at[k]
    <3>1. CASE b.at = a.at
      BY <2>1, <2>2, <3>1
    <3>2. CASE \E o \in Nat : b.at = Append(a.at, o)
      <4>1. PICK o \in Nat : b.at = Append(a.at, o)
        BY <3>2
      <4>2. a.at \in Seq(Nat)
        BY DEF Accessors
      <4>. QED BY <2>1, <2>2, <4>1, <4>2, Appends
    <3>. QED BY <3>1, <3>2
  <2>4. PICK f : Follows(f, m, n) /\ \A k \in 1 .. m : a.at[k] = Offset(d, f[k])
    BY <1>3, <1>7, <2>1 DEF Known, PlacesKnown
  <2>5. /\ Shown(a, d) = [k \in 1 .. m |-> NoteAt(d, a.at[k])]
        /\ Shown(b, D) = [k \in 1 .. w |-> NoteAt(D, b.at[k])]
    BY <1>7, <2>1, <2>2 DEF Shown
  <2>6. ASSUME NEW k \in 1 .. m  PROVE Shown(a, d)[k] = Shown(b, D)[k]
    <3>1. k \in 1 .. w
      BY <2>3
    <3>2. d \in Seq(Notes) /\ e \in Notes /\ D \in Seq(Notes)
      BY <1>1, <1>7, ItemTypes
    <3>3. NoteAt(d, Offset(d, f[k])) = d[f[k]] /\ Offset(Append(d, e), f[k]) = Offset(d, f[k])
      <4>1. Follows(f, m, Len(d))
        BY <1>3, <2>4
      <4>. QED BY <3>2, <4>1, PlacesMore
    <3>4. f[k] \in 1 .. n /\ f[k] \in 1 .. n + 1
      <4>1. f[k] \in 1 .. n
        BY <2>4 DEF Follows
      <4>. QED BY <4>1
    <3>5. NoteAt(D, Offset(D, f[k])) = D[f[k]] /\ D[f[k]] = d[f[k]]
      BY <1>2, <1>3, <3>2, <3>4, NoteFound
    <3>6. a.at[k] = Offset(d, f[k]) /\ b.at[k] = Offset(D, f[k])
      BY <1>2, <2>3, <2>4, <3>3
    <3>. QED BY <2>5, <3>1, <3>3, <3>5, <3>6
  <2>7. /\ Shown(a, d) \in Seq(T) /\ Len(Shown(a, d)) = m
        /\ Shown(b, D) \in Seq(T) /\ Len(Shown(b, D)) = w
    <3>1. DOMAIN Shown(a, d) = 1 .. m /\ DOMAIN Shown(b, D) = 1 .. w
      BY <2>5
    <3>2. Shown(a, d) \in Seq(T)
      <4>1. PICK h \in Nat : \E g : Finds(a, d, g, h)
        BY ShownFinds
      <4>. QED BY <1>1, <4>1 DEF Finds
    <3>3. Shown(b, D) \in Seq(T)
      <4>1. D \in Seq(ItemType(kind)) /\ Known(b, D)
        BY <1>1, <1>2
      <4>2. PICK h \in Nat : \E g : Finds(b, D, g, h)
        BY <4>1, ShownFinds
      <4>. QED BY <1>1, <4>2 DEF Finds
    <3>. QED BY <3>1, <3>2, <3>3
  <2>8. IsPrefix(Shown(a, d), Shown(b, D))
    BY <2>3, <2>6, <2>7, PrefixIf
  <2>. QED BY <1>2, <2>8
<1>8. CASE kind = "modinfo"
  <2>1. PICK S : S = ItemType("modinfo") /\ a.content \in Seq(S) /\ b.content \in Seq(S)
    BY DEF Accessors
  <2>2. Len(a.content) <= Len(b.content) /\ \A k \in 1 .. Len(a.content) : a.content[k] = b.content[k]
    <3>1. CASE b.content = a.content
      <4>1. Len(a.content) \in Nat
        BY <2>1
      <4>. QED BY <3>1, <4>1
    <3>2. CASE \E i \in ItemType("modinfo") : b.content = Append(a.content, i)
      <4>1. PICK i \in S : b.content = Append(a.content, i)
        BY <2>1, <3>2
      <4>2. PICK h \in Nat : h = Len(a.content) /\ Len(b.content) = h + 1
        BY <2>1, <4>1, Appends
      <4>. QED BY <2>1, <4>1, <4>2, Appends
    <3>. QED BY <3>1, <3>2
  <2>3. Shown(a, d) = a.content /\ Shown(b, D) = b.content
    BY <1>8 DEF Shown
  <2>. QED BY <1>2, <2>1, <2>2, <2>3, PrefixIf
<1>. QED BY <1>4, <1>5, <1>6, <1>7, <1>8 DEF AllKinds

(* Counting shows no more and no less.                                     *)
LEMMA CountShows ==
  ASSUME kind = "dynamic", NEW d, NEW a, NEW b,
         b.num = IF a.num = 0 THEN DynCount(d) ELSE a.num
  PROVE  Shown(b, d) = Shown(a, d)
<1>1. PICK x : x = IF a.num = 0 THEN DynCount(d) ELSE a.num
  OBVIOUS
<1>2. (IF b.num = 0 THEN DynCount(d) ELSE b.num) = x
  BY <1>1
<1>3. Shown(a, d) = SubSeq(d, 1, x)
  BY <1>1 DEF Shown
<1>4. Shown(b, d) = SubSeq(d, 1, x)
  BY <1>2 DEF Shown
<1>. QED BY <1>3, <1>4

LEMMA StepShows ==
  AccInv /\ AccInv' /\ [AccNext]_accVars =>
    \A n \in DOMAIN accs : ~Modify => IsPrefix(View(accs[n]), View(accs[n])')
<1> SUFFICES ASSUME AccInv, AccInv', [AccNext]_accVars, NEW n \in DOMAIN accs, ~Modify
             PROVE  IsPrefix(View(accs[n]), View(accs[n])')
  OBVIOUS
<1>1. kind' = kind
  BY DEF AccNext, Open, Add, Count, Modify, accVars
<1>2. PICK a \in Accessors : a = accs[n] /\ Known(a, data) /\ View(accs[n]) = Shown(a, data)
  BY ViewShown
<1>3. PICK b : b = accs'[n]
  OBVIOUS
<1>4. View(accs[n])' = Shown(b, data')
  BY <1>1, <1>3 DEF View, Shown
<1>5. kind \in AllKinds /\ data \in Seq(ItemType(kind)) /\ accs \in Seq(Accessors)
  BY DEF AccInv
<1>6. PICK p \in Nat : p = Len(accs) /\ DOMAIN accs = 1 .. p /\ n \in 1 .. p
  BY <1>5
<1>7. IsPrefix(Shown(a, data), Shown(a, data))
  <2>1. PICK m \in Nat : \E f : Finds(a, data, f, m)
    BY <1>2, <1>5, ShownFinds
  <2>2. Shown(a, data) \in Seq(ItemType(kind))
    BY <2>1 DEF Finds
  <2>. QED BY <2>2, PrefixSelf
<1>8. CASE Open
  <2>1. data' = data /\ accs' = Append(accs, Opened)
    BY <1>8 DEF Open
  <2>2. accs'[n] = accs[n]
    BY <1>5, <1>6, <2>1, OpenedKnown, Appends
  <2>. QED BY <1>2, <1>3, <1>4, <1>7, <2>1, <2>2
<1>9. CASE Add
  <2>1. PICK j \in DOMAIN accs, i \in ItemsOf[kind] :
          /\ data' = Append(data, Through(i))
          /\ accs' = [m \in DOMAIN accs |->
                        IF m = j THEN Appended(accs[m], i)
                        ELSE [accs[m] EXCEPT !.own = FALSE, !.since = FALSE]]
    BY <1>9 DEF Add
  <2>2. i \in ItemType(kind) /\ Through(i) \in ItemType(kind)
    <3>1. i \in ItemType(kind)
      BY AccessorsAssumption DEF AccInv
    <3>. QED BY <1>5, <3>1, ThroughItem DEF AccInv
  <2>3. b \in Accessors /\ Known(b, Append(data, Through(i)))
    <3>1. n \in DOMAIN accs'
      BY <1>6, <2>1
    <3>2. accs' \in Seq(Accessors) /\ Known(accs[n], data)'
      BY <3>1 DEF AccInv
    <3>3. accs'[n] \in Accessors
      BY <3>1, <3>2
    <3>4. Known(b, data')
      BY <1>1, <1>3, <3>2 DEF Known, NumberKnown, PlacesKnown, ContentKnown, Attribute
    <3>. QED BY <1>3, <2>1, <3>3, <3>4
  <2>4. /\ b.num = a.num \/ (kind = "versym" /\ b.num = a.num + 1)
        /\ b.at = a.at \/ \E o \in Nat : b.at = Append(a.at, o)
        /\ b.content = a.content \/ \E x \in ItemType("modinfo") : b.content = Append(a.content, x)
    <3>1. CASE n = j
      <4>1. b = Appended(a, i)
        BY <1>2, <1>3, <1>6, <2>1, <3>1
      <4>2. /\ b.num = IF kind = "versym" THEN a.num + 1 ELSE a.num
            /\ b.at = IF kind = "note" THEN Append(a.at, Offset(Append(data, i), Len(data) + 1)) ELSE a.at
            /\ b.content = IF kind = "modinfo" THEN Append(a.content, i) ELSE a.content
        BY <4>1 DEF Appended, Accessors
      <4>3. kind = "note" => Offset(Append(data, i), Len(data) + 1) \in Nat
        <5>1. ASSUME kind = "note"  PROVE Offset(Append(data, i), Len(data) + 1) \in Nat
          <6>1. data \in Seq(Notes) /\ i \in Notes
            BY <1>5, <2>2, <5>1, ItemTypes
          <6>2. Len(data) + 1 \in 1 .. Len(data) + 1
            BY <6>1
          <6>. QED BY <6>1, <6>2, OffsetSame, OffsetNext
        <5>. QED BY <5>1
      <4>. QED BY <2>2, <4>2, <4>3
    <3>2. CASE n # j
      <4>1. b = [a EXCEPT !.own = FALSE, !.since = FALSE]
        BY <1>2, <1>3, <1>6, <2>1, <3>2
      <4>2. b.num = a.num /\ b.at = a.at /\ b.content = a.content
        BY <4>1 DEF Accessors
      <4>. QED BY <4>2
    <3>. QED BY <3>1, <3>2
  <2>5. IsPrefix(Shown(a, data), Shown(b, Append(data, Through(i))))
    BY <1>2, <1>5, <2>2, <2>3, <2>4, ShownGrows
  <2>. QED BY <1>2, <1>4, <2>1, <2>5
<1>10. CASE Count
  <2>1. PICK j \in DOMAIN accs :
          accs' = [accs EXCEPT ![j].num = IF @ = 0 THEN DynCount(data) ELSE @]
    BY <1>10 DEF Count
  <2>2. data' = data /\ kind = "dynamic"
    BY <1>10 DEF Count
  <2>3. CASE n = j
    <3>1. b = [a EXCEPT !.num = IF @ = 0 THEN DynCount(data) ELSE @]
      BY <1>2, <1>3, <1>6, <2>1, <2>3
    <3>2. b.num = IF a.num = 0 THEN DynCount(data) ELSE a.num
      BY <3>1 DEF Accessors
    <3>3. Shown(b, data) = Shown(a, data)
      BY <2>2, <3>2, CountShows
    <3>. QED BY <1>2, <1>4, <1>7, <2>2, <3>3
  <2>4. CASE n # j
    <3>1. b = a
      BY <1>2, <1>3, <1>6, <2>1, <2>4
    <3>. QED BY <1>2, <1>4, <1>7, <2>2, <3>1
  <2>. QED BY <2>3, <2>4
<1>11. CASE UNCHANGED accVars
  <2>1. data' = data /\ accs' = accs
    BY <1>11 DEF accVars
  <2>. QED BY <1>2, <1>3, <1>4, <1>7, <2>1
<1>. QED BY <1>8, <1>9, <1>10, <1>11 DEF AccNext

(* What is known of the accessors of a section is never lost.              *)
THEOREM AccInvariance == AccSpec => []AccInv
<1>. QED BY AccInitOK, AccStepOK, PTL DEF AccSpec

(* An accessor that nobody else has written behind shows every entry with  *)
(* the values it was given: get_entry, get_note and get_attribute after    *)
(* add_entry, add_note and add_attribute.                                  *)
THEOREM AccessorsOwnerSees == AccSpec => []OwnerSees
<1>. QED BY AccInvariance, InvSees, PTL

(* An outdated accessor shows entries of the section, in their order, and  *)
(* goes on showing at an index what it has shown there.                    *)
THEOREM AccessorsAgree == AccSpec => ViewsAgree
<1>1. AccSpec => []ShowsWhatIsThere
  BY AccInvariance, InvShows, PTL
<1>2. AccSpec => IndexStable
  BY AccInvariance, StepShows, PTL DEF AccSpec, IndexStable
<1>. QED BY <1>1, <1>2, PTL DEF ViewsAgree
==============================================================================
