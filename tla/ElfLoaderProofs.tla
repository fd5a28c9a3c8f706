-------------------------- MODULE ElfLoaderProofs ---------------------------
(***************************************************************************)
(* Proofs about ElfLoader, for every file that a linker may produce and    *)
(* every base, page size and choice of names.                              *)
(***************************************************************************)
EXTENDS ElfLoader, SequenceTheorems, WellFoundedInduction, TLAPS

(***************************************************************************)
(* Where the code takes the lowest segment, the last entry of a name or    *)
(* the best candidate, there is one: sets of naturals have a least member, *)
(* and sets of indices a last one.                                         *)
(***************************************************************************)
Below == {p \in Nat \X Nat : p[1] < p[2]}

LEMMA BelowIsWellFounded == IsWellFoundedOn(Below, Nat)
<1>1. OpToRel(<, Nat) = Below
  BY Zenon DEF OpToRel, Below
<1> QED BY <1>1, NatLessThanWellFounded, Zenon

LEMMA LeastExists ==
  ASSUME NEW S \in SUBSET Nat, S # {}
  PROVE  LeastOf(S) \in S /\ \A y \in S : LeastOf(S) <= y
<1>1. PICK x \in S : \A y \in S : ~(<<y, x>> \in Below)
  BY BelowIsWellFounded, WFMin
<1>2. ASSUME NEW y \in S PROVE x <= y
  <2>1. <<y, x>> \in Nat \X Nat
    OBVIOUS
  <2>2. ~(y < x)
    BY <1>1, <2>1 DEF Below
  <2> QED BY <2>2
<1> QED BY <1>2 DEF LeastOf

LEMMA LastExists ==
  ASSUME NEW n \in Nat, NEW S \in SUBSET (1..n), S # {}
  PROVE  LastOf(S) \in S /\ \A y \in S : LastOf(S) >= y
<1> DEFINE R == {k \in Nat : n - k \in S}
           r == LeastOf(R)
<1>1. PICK s \in S : TRUE
  OBVIOUS
<1>2. R \in SUBSET Nat /\ n - s \in R
  OBVIOUS
<1>3. r \in R /\ \A q \in R : r <= q
  <2> HIDE DEF R
  <2> QED BY <1>2, LeastExists
<1> HIDE DEF r
<1>4. n - r \in S
  BY <1>3
<1>5. ASSUME NEW y \in S PROVE n - r >= y
  <2>1. n - y \in R /\ y \in Nat
    OBVIOUS
  <2>2. r <= n - y /\ r \in Nat
    BY <1>3, <2>1
  <2> QED BY <2>1, <2>2
<1> QED BY <1>4, <1>5 DEF LastOf

-----------------------------------------------------------------------------
(***************************************************************************)
(* What a file has.                                                        *)
(***************************************************************************)
RelaOK(r) == /\ r.type \in {"RELATIVE", "GLOB_DAT", "JUMP_SLOT", "ABS64"}
             /\ r.offset \in Nat /\ r.sym \in Nat /\ r.addend \in Nat
             /\ r.sym <= Len(file.dyn)
             /\ r.sym = 0 => r.addend > 0
             /\ r.type = "RELATIVE" => r.sym = 0

LEMMA RelasOK ==
  ASSUME file \in File
  PROVE  /\ Relas \in Seq(Relocation) /\ Len(Relas) \in Nat
         /\ \A i \in 1..Len(Relas) : RelaOK(Relas[i])
<1>1. IsELF(file)
  BY LoaderAssumption
<1>2. file.relaDyn \in Seq(Relocation) /\ file.relaPlt \in Seq(Relocation)
  BY <1>1 DEF IsELF
<1>3. /\ Relas \in Seq(Relocation)
      /\ Len(Relas) = Len(file.relaDyn) + Len(file.relaPlt)
      /\ \A i \in 1..(Len(file.relaDyn) + Len(file.relaPlt)) :
           Relas[i] = IF i <= Len(file.relaDyn) THEN file.relaDyn[i]
                      ELSE file.relaPlt[i - Len(file.relaDyn)]
  BY <1>2, ConcatProperties DEF Relas
<1>4. Len(file.relaDyn) \in Nat /\ Len(file.relaPlt) \in Nat /\ Len(file.dyn) \in Nat
  BY <1>1, <1>2 DEF IsELF
<1>5. ASSUME NEW i \in 1..Len(file.relaDyn) PROVE RelaOK(file.relaDyn[i])
  <2>1. file.relaDyn[i] \in Relocation
    BY <1>2
  <2> QED BY <1>1, <2>1 DEF IsELF, RelaOK, Relocation
<1>6. ASSUME NEW i \in 1..Len(file.relaPlt) PROVE RelaOK(file.relaPlt[i])
  <2>1. file.relaPlt[i] \in Relocation
    BY <1>2
  <2>2. file.relaPlt[i].sym \in 1..Len(file.dyn) /\ file.relaPlt[i].type # "RELATIVE"
    BY <1>1 DEF IsELF
  <2> QED BY <1>4, <2>1, <2>2 DEF RelaOK, Relocation
<1>7. PICK m \in Nat, k \in Nat : m = Len(file.relaDyn) /\ k = Len(file.relaPlt)
  BY <1>4
<1>8. Len(Relas) = m + k
  BY <1>3, <1>7
<1>9. ASSUME NEW i \in 1..(m + k) PROVE RelaOK(Relas[i])
  <2>1. Relas[i] = IF i <= m THEN file.relaDyn[i] ELSE file.relaPlt[i - m]
    BY <1>3, <1>7
  <2>2. CASE i <= m
    BY <1>5, <1>7, <2>1, <2>2
  <2>3. CASE ~(i <= m)
    <3>1. i - m \in 1..k
      BY <2>3
    <3> QED BY <1>6, <1>7, <2>1, <2>3, <3>1
  <2> QED BY <2>2, <2>3
<1>10. \A i \in 1..Len(Relas) : RelaOK(Relas[i])
  BY <1>8, <1>9
<1>11. Len(Relas) \in Nat
  BY <1>8
<1> QED BY <1>3, <1>10, <1>11, Zenon

LEMMA SegmentsOK ==
  ASSUME file \in File
  PROVE  /\ Len(file.segs) \in Nat
         /\ \A i \in 1..Len(file.segs) :
              /\ file.segs[i].vaddr \in Nat /\ file.segs[i].memsz \in Nat
              /\ file.segs[i].data \in Seq(Nat)
              /\ Len(file.segs[i].data) \in Nat
              /\ Len(file.segs[i].data) <= file.segs[i].memsz
              /\ file.segs[i].inFile \in BOOLEAN
<1>1. IsELF(file) /\ file.segs \in Seq(SegmentType)
  BY LoaderAssumption DEF IsELF
<1>2. ASSUME NEW i \in 1..Len(file.segs)
      PROVE  /\ file.segs[i].vaddr \in Nat /\ file.segs[i].memsz \in Nat
             /\ file.segs[i].data \in Seq(Nat)
             /\ file.segs[i].inFile \in BOOLEAN
  <2>1. file.segs[i] \in SegmentType
    BY <1>1
  <2> QED BY <2>1 DEF SegmentType
<1> QED BY <1>1, <1>2 DEF IsELF

\* The symbols of one of the two tables: a name that is in it has a last
\* entry with a value, outside .plt.
LEMMA TableOK ==
  ASSUME file \in File, NEW tab \in {file.dyn, file.symtab}
  PROVE  /\ Len(tab) \in Nat
         /\ \A i \in 1..Len(tab) : /\ tab[i].name \in Name /\ tab[i].value \in Nat
                                   /\ tab[i].value \notin PltWords(file)
         /\ \A n \in NamesIn(tab) :
              LET i == LastOf(Named(tab, n))
              IN  i \in 1..Len(tab) /\ tab[i].name = n /\ tab[i].value # 0
<1>1. IsELF(file)
  BY LoaderAssumption
<1>2. tab \in Seq(SymbolType)
  BY <1>1 DEF IsELF
<1>3. ASSUME NEW i \in 1..Len(tab)
      PROVE  tab[i].name \in Name /\ tab[i].value \in Nat
  <2>1. tab[i] \in SymbolType
    BY <1>2
  <2> QED BY <2>1 DEF SymbolType
<1>4. \A i \in 1..Len(tab) : tab[i].value \notin PltWords(file)
  BY <1>1 DEF IsELF
<1>5. ASSUME NEW n \in NamesIn(tab)
      PROVE  LastOf(Named(tab, n)) \in Named(tab, n)
  <2>1. Len(tab) \in Nat /\ Named(tab, n) \in SUBSET (1..Len(tab))
    BY <1>2 DEF Named
  <2>2. Named(tab, n) # {}
    BY DEF NamesIn, Named
  <2> QED BY <2>1, <2>2, LastExists
<1>6. Len(tab) \in Nat
  BY <1>2
<1> QED BY <1>3, <1>4, <1>5, <1>6 DEF Named

\* The address of a name in the file.
LEMMA SymbolValueOK ==
  ASSUME file \in File, NEW n \in NamesIn(file.dyn) \cup NamesIn(file.symtab)
  PROVE  /\ n \in Name
         /\ SymbolValue(n) \in Nat \ {0}
         /\ SymbolValue(n) \notin PltWords(file)
<1>1. CASE n \in NamesIn(file.symtab)
  <2>1. PICK i \in 1..Len(file.symtab) : /\ file.symtab[i].name = n
                                          /\ file.symtab[i].value # 0
                                          /\ SymbolValue(n) = file.symtab[i].value
    BY <1>1, TableOK DEF SymbolValue
  <2> QED BY <2>1, TableOK
<1>2. CASE n \notin NamesIn(file.symtab)
  <2>1. PICK i \in 1..Len(file.dyn) : /\ file.dyn[i].name = n
                                       /\ file.dyn[i].value # 0
                                       /\ SymbolValue(n) = file.dyn[i].value
    BY <1>2, TableOK DEF SymbolValue
  <2> QED BY <2>1, TableOK
<1> QED BY <1>1, <1>2

\* By how much a file with segments is moved.
LEMMA RelocOffsetOK ==
  ASSUME file \in File, file.segs # <<>>
  PROVE  RelocOffset \in Nat /\ RelocOffset <= LoadELFBase
<1> DEFINE S == {file.segs[i].vaddr : i \in 1..Len(file.segs)}
<1>1. S \in SUBSET Nat
  BY SegmentsOK
<1>2. 1 \in 1..Len(file.segs)
  <2>1. file.segs \in Seq(SegmentType)
    BY LoaderAssumption DEF IsELF
  <2> QED BY <2>1, EmptySeq
<1>3. FileBase \in S
  <2>1. S # {}
    BY <1>2
  <2> HIDE DEF S
  <2>2. LeastOf(S) \in S
    BY <1>1, <2>1, LeastExists
  <2> QED BY <2>2 DEF FileBase, S
<1>4. FileBase \in Nat /\ LowBase \in Nat /\ LoadELFBase \in Nat /\ LowBase <= LoadELFBase
  BY <1>1, <1>3, LoaderAssumption
<1> QED BY <1>4 DEF RelocOffset

-----------------------------------------------------------------------------
(***************************************************************************)
(* The types, with how far each stage has come.                            *)
(***************************************************************************)
Relocating == stage \in {"relocations", "globals", "loaded", "found"}

Progress ==
  /\ stage = "open" => /\ next = 1 /\ mapped = {}
                       /\ mem = [a \in Addr |-> 0]
  /\ stage \in {"open", "segments"} => imports = <<>> /\ vtables = <<>>
  /\ stage = "segments" => next \in 1..(Len(file.segs) + 1)
  /\ Relocating => next \in 1..(Len(Relas) + 1)
  /\ stage \in {"globals", "loaded", "found"} => next = Len(Relas) + 1
  /\ stage = "segments" \/ Relocating => file.segs # <<>> /\ base = RelocOffset

Loading == TypeOK /\ Progress

LEMMA LoadingInit == Init => Loading
<1> SUFFICES ASSUME Init PROVE Loading
  OBVIOUS
<1> USE DEF Init
<1>1. /\ Len(file.segs) \in Nat /\ Len(Relas) \in Nat
  BY SegmentsOK, RelasOK
<1>2. next \in 1..(Len(file.segs) + Len(Relas) + 1)
  BY <1>1
<1>3. mem \in [Addr -> Nat] /\ {base, entry} \subseteq Nat
  OBVIOUS
<1>4. DOMAIN symbols = {} /\ DOMAIN imports = {} /\ DOMAIN vtables = {}
  OBVIOUS
<1>5. TypeOK
  BY <1>2, <1>3, <1>4 DEF TypeOK
<1>6. Progress
  BY DEF Progress, Relocating
<1> QED BY <1>5, <1>6 DEF Loading

\* What the types say of the state, in a form that is easy to cite.
LEMMA LoadingFacts ==
  ASSUME Loading
  PROVE  /\ file \in File /\ base \in Nat /\ entry \in Nat
         /\ Len(file.segs) \in Nat /\ Len(Relas) \in Nat
         /\ mapped \subseteq Addr /\ mem \in [Addr -> Nat]
         /\ Addr \subseteq Nat
BY SegmentsOK, RelasOK, LoaderAssumption DEF Loading, TypeOK

LEMMA RejectKeeps == Loading /\ Reject => Loading'
<1> SUFFICES ASSUME Loading, Reject PROVE Loading'
  OBVIOUS
<1>1. Relas' = Relas
  BY DEF Reject, Relas
<1> QED BY <1>1 DEF Reject, Loading, TypeOK, Progress, Relocating

LEMMA ReadSymbolsKeeps == Loading /\ ReadSymbols => Loading'
<1> SUFFICES ASSUME Loading, ReadSymbols PROVE Loading'
  OBVIOUS
<1> USE DEF ReadSymbols
<1>1. /\ Relas' = Relas /\ RelocOffset' = RelocOffset
  BY DEF Relas, RelocOffset, FileBase
<1>2. file \in File /\ RelocOffset \in Nat
  BY LoadingFacts, RelocOffsetOK
<1>3. /\ DOMAIN symbols' \subseteq Name
      /\ \A n \in DOMAIN symbols' : symbols'[n] \in Nat
  <2>1. DOMAIN symbols' = NamesIn(file.dyn) \cup NamesIn(file.symtab)
    OBVIOUS
  <2>2. \A n \in DOMAIN symbols' : symbols'[n] = SymbolValue(n) + RelocOffset
    OBVIOUS
  <2>3. \A n \in DOMAIN symbols' : n \in Name /\ SymbolValue(n) \in Nat
    BY <1>2, <2>1, SymbolValueOK
  <2> QED BY <1>2, <2>2, <2>3
<1>4. {base', entry'} \subseteq Nat
  BY <1>2 DEF Loading, TypeOK
<1>5. TypeOK'
  BY <1>1, <1>3, <1>4 DEF Loading, TypeOK
<1>6. next' \in 1..(Len(file.segs) + 1)
  BY LoadingFacts DEF Loading, Progress
<1>7. Progress'
  BY <1>1, <1>6 DEF Loading, Progress, Relocating
<1> QED BY <1>5, <1>7 DEF Loading

LEMMA LoadSegmentKeeps == Loading /\ LoadSegment => Loading'
<1> SUFFICES ASSUME Loading, LoadSegment PROVE Loading'
  OBVIOUS
<1> DEFINE s == file.segs[next]
<1>1. /\ stage = "segments" /\ next <= Len(file.segs)
      /\ mapped' = MapPages(s)
      /\ \/ stage' = "failed" /\ UNCHANGED <<mem, next>>
         \/ mem' = WithSegment(s, mem) /\ next' = next + 1 /\ UNCHANGED stage
      /\ UNCHANGED <<file, base, symbols, imports, vtables, wish, entry>>
  BY DEF LoadSegment
<1>2. /\ file \in File /\ base \in Nat /\ mapped \subseteq Addr
      /\ mem \in [Addr -> Nat] /\ Addr \subseteq Nat
      /\ Len(file.segs) \in Nat /\ Len(Relas) \in Nat
  BY LoadingFacts
<1>3. next \in 1..Len(file.segs)
  BY <1>1, <1>2 DEF Loading, Progress
<1>4. s.vaddr \in Nat /\ s.memsz \in Nat /\ s.data \in Seq(Nat)
  BY <1>2, <1>3, SegmentsOK
<1> HIDE DEF s
<1>5. mapped' \subseteq Addr
  BY <1>1, <1>2 DEF MapPages, SegmentPages, Pages
<1>6. mem' \in [Addr -> Nat]
  <2>1. ASSUME NEW a \in Addr, a \in FileWords(s)
        PROVE  s.data[a - s.vaddr - base + 1] \in Nat
    <3>1. PICK v \in Nat, l \in Nat : v = s.vaddr /\ l = Len(s.data)
      BY <1>4
    <3>2. a \in (v + base)..(v + l + base - 1)
      BY <2>1, <3>1 DEF FileWords
    <3>3. a - v - base + 1 \in 1..l
      BY <1>2, <3>2
    <3> QED BY <1>4, <3>1, <3>3
  <2>2. WithSegment(s, mem) \in [Addr -> Nat]
    BY <1>2, <2>1 DEF WithSegment
  <2> QED BY <1>1, <1>2, <2>2
<1>7. next' \in 1..(Len(file.segs) + 1)
  BY <1>1, <1>2, <1>3
<1>8. Relas' = Relas /\ RelocOffset' = RelocOffset
  BY <1>1 DEF Relas, RelocOffset, FileBase
<1>9. next' \in 1..(Len(file'.segs) + Len(Relas') + 1)
  BY <1>1, <1>2, <1>7, <1>8
<1>10. TypeOK'
  BY <1>1, <1>5, <1>6, <1>9 DEF Loading, TypeOK
<1>11. Progress'
  BY <1>1, <1>7, <1>8 DEF Loading, Progress, Relocating
<1> QED BY <1>10, <1>11 DEF Loading

(***************************************************************************)
(* The PLT.  An external symbol has one slot, and slots of different names *)
(* have different entries, in .plt.                                        *)
(***************************************************************************)
PltSlots == IF file.plt = 0 THEN {} ELSE External
SlotName(k) == SymbolOf(file.relaPlt[k]).name
SlotOf(n) == LastOf({k \in PltSlots : SlotName(k) = n})
SlotNames == {SlotName(k) : k \in PltSlots}

LEMMA PltOK ==
  ASSUME Loading
  PROVE  /\ \A n \in SlotNames : /\ n \in Name
                                 /\ SlotOf(n) \in PltSlots
                                 /\ SlotName(SlotOf(n)) = n
         /\ \A k \in PltSlots : /\ k \in 1..Len(file.relaPlt)
                                /\ PltAddr(k) \in Nat
                                /\ PltAddr(k) > base
                                /\ PltAddr(k) - base \in PltWords(file)
         /\ \A k, l \in PltSlots : PltAddr(k) = PltAddr(l) => k = l
<1>1. file \in File /\ base \in Nat /\ IsELF(file)
  BY LoadingFacts, LoaderAssumption
<1>2. /\ file.plt \in Nat /\ file.relaPlt \in Seq(Relocation)
      /\ Len(file.relaPlt) \in Nat
  BY <1>1 DEF IsELF
<1>3. PltSlots \in SUBSET (1..Len(file.relaPlt)) /\ (PltSlots # {} => file.plt # 0)
  BY DEF PltSlots, External
<1>4. ASSUME NEW n \in SlotNames
      PROVE  SlotOf(n) \in PltSlots /\ SlotName(SlotOf(n)) = n
  <2> DEFINE S == {k \in PltSlots : SlotName(k) = n}
  <2>1. S # {} /\ S \in SUBSET (1..Len(file.relaPlt))
    BY <1>3 DEF SlotNames
  <2> HIDE DEF S
  <2>2. LastOf(S) \in S
    BY <1>2, <2>1, LastExists
  <2> QED BY <2>2 DEF S, SlotOf
<1>5. ASSUME NEW k \in PltSlots PROVE SlotName(k) \in Name
  <2>1. file.relaPlt[k].sym \in 1..Len(file.dyn)
    BY <1>3 DEF PltSlots, External, HasSymbol
  <2> QED BY <1>1, <2>1, TableOK DEF SlotName, SymbolOf
<1>6. ASSUME NEW k \in PltSlots
      PROVE  /\ PltAddr(k) \in Nat /\ PltAddr(k) > base
             /\ PltAddr(k) - base \in PltWords(file)
  <2>1. k \in 1..Len(file.relaPlt) /\ file.plt # 0
    BY <1>3
  <2>2. PltWords(file) = file.plt..(file.plt + 3 + 2 * Len(file.relaPlt))
    BY <2>1 DEF PltWords
  <2>3. PICK p \in Nat, n \in Nat : p = file.plt /\ n = Len(file.relaPlt)
    BY <1>2
  <2>4. PltAddr(k) = p + base + 4 + 2 * (k - 1)
    BY <2>3 DEF PltAddr
  <2>5. k \in Nat /\ 1 <= k /\ k <= n
    BY <2>1, <2>3
  <2>6. PICK b \in Nat : b = base
    BY <1>1
  <2>7. /\ p + b + 4 + 2 * (k - 1) \in Nat
        /\ p + b + 4 + 2 * (k - 1) > b
        /\ (p + b + 4 + 2 * (k - 1)) - b \in p..(p + 3 + 2 * n)
    BY <2>5
  <2> QED BY <2>2, <2>3, <2>4, <2>6, <2>7
<1>7. \A k, l \in PltSlots : PltAddr(k) = PltAddr(l) => k = l
  BY <1>1, <1>2, <1>3 DEF PltAddr
<1>8. \A n \in SlotNames : n \in Name
  BY <1>5 DEF SlotNames
<1> QED BY <1>3, <1>4, <1>6, <1>7, <1>8

LEMMA AddPLTEffect ==
  ASSUME AddPLTSymbols
  PROVE  /\ imports' = [n \in SlotNames |-> PltAddr(SlotOf(n))]
         /\ symbols' = [n \in DOMAIN symbols \cup SlotNames |->
                          IF n \in SlotNames THEN PltAddr(SlotOf(n))
                                             ELSE symbols[n]]
BY DEF AddPLTSymbols, SlotNames, SlotOf, SlotName, PltSlots

LEMMA AddPLTKeeps == Loading /\ AddPLTSymbols => Loading'
<1> SUFFICES ASSUME Loading, AddPLTSymbols PROVE Loading'
  OBVIOUS
<1>1. /\ stage = "segments" /\ stage' = "relocations" /\ next' = 1
      /\ UNCHANGED <<file, base, mapped, mem, vtables, wish, entry>>
  BY DEF AddPLTSymbols
<1>2. Relas' = Relas /\ RelocOffset' = RelocOffset
  BY <1>1 DEF Relas, RelocOffset, FileBase
<1>3. /\ \A n \in SlotNames : n \in Name /\ PltAddr(SlotOf(n)) \in Nat
  BY PltOK
<1>4. /\ DOMAIN imports' = SlotNames
      /\ \A n \in SlotNames : imports'[n] = PltAddr(SlotOf(n))
      /\ DOMAIN symbols' = DOMAIN symbols \cup SlotNames
      /\ \A n \in DOMAIN symbols' : symbols'[n] = IF n \in SlotNames THEN PltAddr(SlotOf(n))
                                             ELSE symbols[n]
  BY AddPLTEffect
<1>5. /\ DOMAIN symbols' \subseteq Name /\ DOMAIN imports' \subseteq Name
      /\ \A n \in DOMAIN symbols' : symbols'[n] \in Nat
      /\ \A n \in DOMAIN imports' : imports'[n] \in Nat
  BY <1>3, <1>4 DEF Loading, TypeOK
<1>6. next' \in 1..(Len(file'.segs) + Len(Relas') + 1) /\ next' \in 1..(Len(Relas') + 1)
  BY <1>1, <1>2, LoadingFacts
<1>7. TypeOK'
  BY <1>1, <1>5, <1>6 DEF Loading, TypeOK
<1>8. Progress'
  BY <1>1, <1>2, <1>6 DEF Loading, Progress, Relocating
<1> QED BY <1>7, <1>8 DEF Loading

(***************************************************************************)
(* Relocations.  One resolves to a single value, if to any, for the        *)
(* pointers and for the vtable map.                                        *)
(***************************************************************************)
LEMMA SymbolOK ==
  ASSUME file \in File, NEW r, RelaOK(r), HasSymbol(r)
  PROVE  SymbolOf(r).value \in Nat /\ SymbolOf(r).name \in Name
BY TableOK DEF HasSymbol, SymbolOf

LEMMA ResolvedOK ==
  ASSUME Loading, NEW r, RelaOK(r)
  PROVE  /\ Resolved(r) \subseteq Nat
         /\ \A u, v \in Resolved(r) : u = v
<1> USE DEF RelaOK
<1>1. file \in File /\ base \in Nat /\ r.addend \in Nat
  BY LoadingFacts
<1>2. HasSymbol(r) => SymbolOf(r).value \in Nat
  BY <1>1, SymbolOK
<1>3. CanaryAddr \in Nat /\ CtypeAddr \in Nat
  BY LoaderAssumption
<1>4. CASE r.type = "RELATIVE"
  BY <1>1, <1>4 DEF Resolved
<1>5. CASE r.type \in {"GLOB_DAT", "JUMP_SLOT"} /\ HasSymbol(r)
  <2>1. CASE SymbolOf(r).value # 0
    BY <1>1, <1>2, <1>5, <2>1 DEF Resolved
  <2>2. CASE SymbolOf(r).value = 0 /\ SymbolOf(r).name = StackChkGuard
    <3>1. Resolved(r) = {CanaryAddr} \/ Resolved(r) = {CtypeAddr}
      BY <1>5, <2>2 DEF Resolved
    <3> QED BY <1>3, <3>1
  <2>3. CASE SymbolOf(r).value = 0 /\ SymbolOf(r).name # StackChkGuard
    <3>1. Resolved(r) = {} \/ Resolved(r) = {CtypeAddr}
      BY <1>5, <2>3 DEF Resolved
    <3> QED BY <1>3, <3>1
  <2> QED BY <2>1, <2>2, <2>3
<1>6. CASE r.type = "ABS64" /\ HasSymbol(r)
  <2>1. CASE SymbolOf(r).value # 0
    <3>1. Resolved(r) = {SymbolOf(r).value + base + r.addend}
      BY <1>6, <2>1 DEF Resolved
    <3> QED BY <1>1, <1>2, <1>6, <3>1
  <2>2. CASE SymbolOf(r).value = 0 /\ SymbolOf(r).name \in DOMAIN imports
    <3>1. Resolved(r) = {imports[SymbolOf(r).name] + r.addend}
      BY <1>6, <2>2 DEF Resolved
    <3>2. imports[SymbolOf(r).name] \in Nat
      BY <2>2 DEF Loading, TypeOK
    <3> QED BY <1>1, <3>1, <3>2
  <2>3. CASE SymbolOf(r).value = 0 /\ SymbolOf(r).name \notin DOMAIN imports
    <3>1. Resolved(r) = {}
      BY <1>6, <2>3 DEF Resolved
    <3> QED BY <3>1
  <2> QED BY <2>1, <2>2, <2>3
<1>7. CASE r.type # "RELATIVE" /\ ~HasSymbol(r)
  <2>1. Resolved(r) = {base + r.addend} \/ Resolved(r) = {}
    BY <1>7 DEF Resolved
  <2> QED BY <1>1, <2>1
<1> QED BY <1>4, <1>5, <1>6, <1>7

LEMMA VTableResolvedOK ==
  ASSUME Loading, NEW r, RelaOK(r)
  PROVE  VTableResolved(r) \in Nat
<1>1. base \in Nat /\ r.addend \in Nat /\ (HasSymbol(r) => SymbolOf(r).value \in Nat)
  BY LoadingFacts, SymbolOK DEF RelaOK
<1>2. \/ VTableResolved(r) \in {0, base + r.addend}
      \/ HasSymbol(r) /\ VTableResolved(r) \in {SymbolOf(r).value + base + r.addend,
                                                SymbolOf(r).value + base}
  BY DEF VTableResolved
<1> QED BY <1>1, <1>2

LEMMA RelocateKeeps == Loading /\ Relocate => Loading'
<1> SUFFICES ASSUME Loading, Relocate PROVE Loading'
  OBVIOUS
<1>1. /\ stage = "relocations" /\ next <= Len(Relas) /\ next' = next + 1
      /\ UNCHANGED <<file, stage, base, mapped, symbols, imports, vtables, wish,
                     entry>>
  BY DEF Relocate
<1>2. /\ Len(file.segs) \in Nat /\ Len(Relas) \in Nat /\ file \in File
      /\ mem \in [Addr -> Nat] /\ mapped \subseteq Addr
  BY LoadingFacts
<1>3. next \in 1..Len(Relas)
  BY <1>1, <1>2 DEF Loading, Progress, Relocating
<1>4. mem' \in [Addr -> Nat]
  <2> DEFINE R == Resolved(Relas[next])
             v == CHOOSE u \in R : TRUE
  <2>1. R \subseteq Nat
    BY <1>2, <1>3, RelasOK, ResolvedOK
  <2>2. mem' = IF R # {} /\ Relas[next].offset + base \in mapped
                 THEN [mem EXCEPT ![Relas[next].offset + base] = v] ELSE mem
    BY DEF Relocate
  <2> HIDE DEF R
  <2>3. R # {} => v \in Nat
    BY <2>1
  <2> QED BY <1>2, <2>2, <2>3
<1>5. Relas' = Relas /\ RelocOffset' = RelocOffset
  BY <1>1 DEF Relas, RelocOffset, FileBase
<1>6. next' \in 1..(Len(file'.segs) + Len(Relas') + 1) /\ next' \in 1..(Len(Relas') + 1)
  BY <1>1, <1>2, <1>3, <1>5
<1>7. TypeOK'
  BY <1>1, <1>4, <1>6 DEF Loading, TypeOK
<1>8. Progress'
  BY <1>1, <1>5, <1>6 DEF Loading, Progress, Relocating
<1> QED BY <1>7, <1>8 DEF Loading

\* Of the relocations that reach a slot the vtable map has the last.
Useful == {i \in 1..Len(Relas) : /\ InVTable(Relas[i].offset)
                                 /\ VTableResolved(Relas[i]) # 0}
LastUseful(a) == LastOf({i \in Useful : Relas[i].offset + base = a})

LEMMA VTableEffect ==
  ASSUME Loading, BuildVTableMap
  PROVE  /\ vtables' = [a \in {Relas[i].offset + base : i \in Useful} |->
                          VTableResolved(Relas[LastUseful(a)])]
         /\ \A a \in DOMAIN vtables' :
              /\ LastUseful(a) \in Useful
              /\ Relas[LastUseful(a)].offset + base = a
              /\ \A j \in Useful : Relas[j].offset + base = a => j <= LastUseful(a)
<1>1. vtables' = [a \in {Relas[i].offset + base : i \in Useful} |->
                    VTableResolved(Relas[LastUseful(a)])]
  BY DEF BuildVTableMap, Useful, LastUseful
<1>2. ASSUME NEW a \in DOMAIN vtables'
      PROVE  /\ LastUseful(a) \in Useful
             /\ Relas[LastUseful(a)].offset + base = a
             /\ \A j \in Useful : Relas[j].offset + base = a => j <= LastUseful(a)
  <2> DEFINE S == {i \in Useful : Relas[i].offset + base = a}
  <2>1. S # {} /\ S \in SUBSET (1..Len(Relas)) /\ Len(Relas) \in Nat
    BY <1>1, LoadingFacts DEF Useful
  <2>2. LastUseful(a) = LastOf(S)
    BY DEF LastUseful
  <2> HIDE DEF S
  <2>3. LastOf(S) \in S /\ \A y \in S : LastOf(S) >= y
    BY <2>1, LastExists
  <2>4. \A y \in S : y <= LastOf(S)
    BY <2>1, <2>3
  <2> QED BY <2>2, <2>3, <2>4 DEF S
<1> QED BY <1>1, <1>2

LEMMA BuildVTableMapKeeps == Loading /\ BuildVTableMap => Loading'
<1> SUFFICES ASSUME Loading, BuildVTableMap PROVE Loading'
  OBVIOUS
<1>1. /\ stage = "relocations" /\ next > Len(Relas) /\ stage' = "globals"
      /\ UNCHANGED <<file, next, base, mapped, mem, symbols, imports, wish, entry>>
  BY DEF BuildVTableMap
<1>2. /\ Len(file.segs) \in Nat /\ Len(Relas) \in Nat /\ file \in File
  BY LoadingFacts
<1>3. next = Len(Relas) + 1
  BY <1>1, <1>2 DEF Loading, Progress, Relocating
<1>4. \A a \in DOMAIN vtables' : vtables'[a] \in Nat
  <2> SUFFICES ASSUME NEW a \in DOMAIN vtables' PROVE vtables'[a] \in Nat
    OBVIOUS
  <2>1. LastUseful(a) \in 1..Len(Relas) /\ vtables'[a] = VTableResolved(Relas[LastUseful(a)])
    BY VTableEffect DEF Useful
  <2> QED BY <1>2, <2>1, RelasOK, VTableResolvedOK
<1>5. Relas' = Relas /\ RelocOffset' = RelocOffset
  BY <1>1 DEF Relas, RelocOffset, FileBase
<1>6. TypeOK'
  BY <1>1, <1>4, <1>5 DEF Loading, TypeOK
<1>7. Progress'
  BY <1>1, <1>3, <1>5 DEF Loading, Progress, Relocating
<1> QED BY <1>6, <1>7 DEF Loading

LEMMA InitStringGlobalsKeeps == Loading /\ InitStringGlobals => Loading'
<1> SUFFICES ASSUME Loading, InitStringGlobals PROVE Loading'
  OBVIOUS
<1>1. /\ stage = "globals" /\ stage' = "loaded"
      /\ UNCHANGED <<file, next, base, mapped, symbols, imports, vtables, wish,
                     entry>>
  BY DEF InitStringGlobals
<1>2. mem' \in [Addr -> Nat]
  <2>1. mem \in [Addr -> Nat] /\ EmptyStringData \in Nat
    BY LoadingFacts, LoaderAssumption
  <2> QED BY <2>1 DEF InitStringGlobals
<1>3. Relas' = Relas /\ RelocOffset' = RelocOffset
  BY <1>1 DEF Relas, RelocOffset, FileBase
<1>4. TypeOK'
  BY <1>1, <1>2, <1>3 DEF Loading, TypeOK
<1>5. Progress'
  BY <1>1, <1>3 DEF Loading, Progress, Relocating
<1> QED BY <1>4, <1>5 DEF Loading

LEMMA FindEntryPointKeeps == Loading /\ FindEntryPoint => Loading'
<1> SUFFICES ASSUME Loading, FindEntryPoint PROVE Loading'
  OBVIOUS
<1>1. /\ stage = "loaded" /\ stage' = "found"
      /\ UNCHANGED <<file, next, base, mapped, mem, symbols, imports, vtables,
                     wish>>
  BY DEF FindEntryPoint
<1>2. entry' \in Nat
  <2> DEFINE names == IF Preferred # {} THEN Preferred ELSE BestCandidates
  <2>1. names \subseteq DOMAIN symbols
    BY DEF Preferred, BestCandidates, Candidates
  <2>2. file.entry + base \in Nat
    BY LoadingFacts, LoaderAssumption DEF IsELF
  <2>3. entry' \in {symbols[n] : n \in names} \/ entry' = file.entry + base
    BY DEF FindEntryPoint
  <2> HIDE DEF names
  <2> QED BY <2>1, <2>2, <2>3 DEF Loading, TypeOK
<1>3. Relas' = Relas /\ RelocOffset' = RelocOffset
  BY <1>1 DEF Relas, RelocOffset, FileBase
<1>4. TypeOK'
  BY <1>1, <1>2, <1>3 DEF Loading, TypeOK
<1>5. Progress'
  BY <1>1, <1>3 DEF Loading, Progress, Relocating
<1> QED BY <1>4, <1>5 DEF Loading

LEMMA LoadingStep == Loading /\ [Next]_vars => Loading'
<1> SUFFICES ASSUME Loading, [Next]_vars PROVE Loading'
  OBVIOUS
<1>1. CASE UNCHANGED vars
  <2>1. Relas' = Relas /\ RelocOffset' = RelocOffset
    BY <1>1 DEF vars, Relas, RelocOffset, FileBase
  <2> QED BY <1>1, <2>1 DEF vars, Loading, TypeOK, Progress, Relocating
<1>2. CASE Next
  BY <1>1, <1>2, RejectKeeps, ReadSymbolsKeeps, LoadSegmentKeeps, AddPLTKeeps,
     RelocateKeeps, BuildVTableMapKeeps, InitStringGlobalsKeeps,
     FindEntryPointKeeps DEF Next, Ended
<1> QED BY <1>1, <1>2

\* The types of the loader, for every file a linker may produce.
THEOREM TypeCorrect == Spec => []TypeOK
<1>1. Loading => TypeOK
  BY DEF Loading
<1> QED BY <1>1, LoadingInit, LoadingStep, PTL DEF Spec

-----------------------------------------------------------------------------
(***************************************************************************)
(* Names.  While segments are loaded the symbols are those of the file,    *)
(* moved; after that those with a PLT slot have its entry instead.         *)
(***************************************************************************)
NamesInv ==
  /\ stage = "segments" =>
       symbols = [n \in NamesIn(file.dyn) \cup NamesIn(file.symtab) |->
                    SymbolValue(n) + base]
  /\ Relocating =>
       /\ \A n \in DOMAIN symbols : symbols[n] # 0
       /\ DOMAIN imports \subseteq DOMAIN symbols
       /\ \A n \in DOMAIN imports, m \in DOMAIN symbols :
            (symbols[m] = imports[n]) <=> (m = n)

LEMMA ReadSymbolsNames == Loading /\ ReadSymbols => NamesInv'
<1> SUFFICES ASSUME Loading, ReadSymbols PROVE NamesInv'
  OBVIOUS
<1>1. /\ stage' = "segments" /\ file' = file /\ base' = RelocOffset
      /\ symbols' = [n \in NamesIn(file.dyn) \cup NamesIn(file.symtab) |->
                       SymbolValue(n) + RelocOffset]
  BY DEF ReadSymbols
<1>2. \A n : SymbolValue(n)' = SymbolValue(n)
  BY <1>1 DEF SymbolValue
<1> QED BY <1>1, <1>2 DEF NamesInv, Relocating

LEMMA AddPLTNames == Loading /\ NamesInv /\ AddPLTSymbols => NamesInv'
<1> SUFFICES ASSUME Loading, NamesInv, AddPLTSymbols PROVE NamesInv'
  OBVIOUS
<1>1. stage = "segments" /\ stage' = "relocations"
  BY DEF AddPLTSymbols
<1>2. /\ DOMAIN imports' = SlotNames
      /\ \A n \in SlotNames : imports'[n] = PltAddr(SlotOf(n))
      /\ DOMAIN symbols' = DOMAIN symbols \cup SlotNames
      /\ \A n \in SlotNames : symbols'[n] = PltAddr(SlotOf(n))
      /\ \A n \in DOMAIN symbols \ SlotNames : symbols'[n] = symbols[n]
  BY AddPLTEffect
<1>3. base \in Nat /\ file \in File
  BY LoadingFacts
<1>4. ASSUME NEW n \in DOMAIN symbols
      PROVE  /\ symbols[n] \in Nat \ {0} /\ symbols[n] - base \notin PltWords(file)
  <2>1. PICK v \in Nat \ {0} : v = SymbolValue(n) /\ v \notin PltWords(file)
    BY <1>1, <1>3, SymbolValueOK DEF NamesInv
  <2>2. symbols[n] = v + base
    BY <1>1, <2>1 DEF NamesInv
  <2>3. v + base \in Nat \ {0} /\ (v + base) - base = v
    BY <1>3
  <2> QED BY <2>1, <2>2, <2>3
<1>5. ASSUME NEW n \in SlotNames
      PROVE  /\ PltAddr(SlotOf(n)) \in Nat \ {0}
             /\ PltAddr(SlotOf(n)) - base \in PltWords(file)
  BY <1>3, PltOK
<1>6. ASSUME NEW n \in SlotNames, NEW m \in SlotNames,
             PltAddr(SlotOf(m)) = PltAddr(SlotOf(n))
      PROVE  m = n
  <2>1. SlotOf(m) = SlotOf(n)
    BY <1>6, PltOK
  <2>2. SlotName(SlotOf(m)) = m /\ SlotName(SlotOf(n)) = n
    BY PltOK
  <2> QED BY <2>1, <2>2
<1>7. ASSUME NEW n \in DOMAIN imports', NEW m \in DOMAIN symbols'
      PROVE  (symbols'[m] = imports'[n]) <=> (m = n)
  <2>1. n \in SlotNames /\ imports'[n] = PltAddr(SlotOf(n))
    BY <1>2
  <2>2. CASE m \in SlotNames
    BY <1>2, <1>6, <2>1, <2>2
  <2>3. CASE m \notin SlotNames
    <3>1. m \in DOMAIN symbols /\ symbols'[m] = symbols[m]
      BY <1>2, <2>3
    <3> QED BY <1>4, <1>5, <2>1, <2>3, <3>1
  <2> QED BY <2>2, <2>3
<1>8. \A n \in DOMAIN symbols' : symbols'[n] # 0
  BY <1>2, <1>4, <1>5
<1> QED BY <1>1, <1>2, <1>7, <1>8 DEF NamesInv

LEMMA NamesStep ==
  ASSUME Loading, NamesInv, [Next]_vars
  PROVE  NamesInv'
<1>1. CASE ReadSymbols
  BY <1>1, ReadSymbolsNames
<1>2. CASE AddPLTSymbols
  BY <1>2, AddPLTNames
<1>3. CASE /\ UNCHANGED <<file, base, symbols, imports>>
           /\ stage' = stage \/ stage' = "failed" \/ (Relocating /\ Relocating')
  <2>1. \A n : SymbolValue(n)' = SymbolValue(n)
    BY <1>3 DEF SymbolValue
  <2> QED BY <1>3, <2>1 DEF NamesInv, Relocating
<1>4. CASE Reject \/ LoadSegment \/ Relocate \/ BuildVTableMap
           \/ InitStringGlobals \/ FindEntryPoint \/ UNCHANGED vars
  BY <1>3, <1>4 DEF Reject, LoadSegment, Relocate, BuildVTableMap,
                    InitStringGlobals, FindEntryPoint, vars, Relocating
<1> QED BY <1>1, <1>2, <1>4 DEF Next, Ended

LEMMA NamesHold == Spec => [](Loading /\ NamesInv)
<1>1. Init => NamesInv
  BY DEF Init, NamesInv, Relocating
<1>2. Loading /\ NamesInv /\ [Next]_vars => NamesInv'
  BY NamesStep
<1> QED BY <1>1, <1>2, LoadingInit, LoadingStep, PTL DEF Spec

\* Imports are symbols too and have addresses that no other name has
\* (elf.go:112-140, 268-337): what the registry assumes of a loaded file.
THEOREM ImportsHaveOwnAddresses == Spec => []ImportsAreSymbols
<1>1. NamesInv => ImportsAreSymbols
  BY DEF NamesInv, ImportsAreSymbols, Loaded, Relocating
<1> QED BY <1>1, NamesHold, PTL

(***************************************************************************)
(* The entry point.                                                        *)
(***************************************************************************)
\* If there is a candidate there is a best one.
LEMMA BestExists ==
  ASSUME Loading, Candidates # {}
  PROVE  BestCandidates # {}
<1> DEFINE S == {Priority[n] : n \in Candidates}
<1>1. \A n \in Candidates : Priority[n] \in Nat
  BY LoaderAssumption DEF Candidates, Loading, TypeOK
<1>2. S # {} /\ S \in SUBSET Nat
  BY <1>1
<1>3. LeastOf(S) \in S /\ \A y \in S : LeastOf(S) <= y
  <2> HIDE DEF S
  <2> QED BY <1>2, LeastExists
<1>4. PICK n \in Candidates : \A m \in Candidates : Priority[n] <= Priority[m]
  BY <1>3
<1> QED BY <1>4 DEF BestCandidates

LEMMA EntryFound ==
  ASSUME Loading, NamesInv, FindEntryPoint
  PROVE  EntryIsBest'
<1> DEFINE At(S) == \E n \in S \cap DOMAIN symbols : symbols[n] = entry'
           Has(S) == S \cap DOMAIN symbols # {}
           Ranked(k) == {n \in Name : Priority[n] = k}
           Best == \/ At(wish.exact)
                   \/ ~Has(wish.exact) /\ At(wish.fold)
                   \/ ~Has(wish.exact) /\ ~Has(wish.fold) /\ At(wish.part)
                   \/ /\ ~Has(wish.exact \cup wish.fold \cup wish.part)
                      /\ \/ \E k \in 0..(NoRank - 1) :
                              At(Ranked(k)) /\ \A j \in 0..(k - 1) : ~Has(Ranked(j))
                         \/ /\ \A k \in 0..(NoRank - 1) : ~Has(Ranked(k))
                            /\ entry' = file.entry + base
<1>1. /\ stage = "loaded" /\ UNCHANGED <<file, base, symbols, wish>>
      /\ LET names == IF Preferred # {} THEN Preferred ELSE BestCandidates
         IN  \/ names # {} /\ entry' \in {symbols[n] : n \in names}
             \/ names = {} /\ entry' = file.entry + base
  BY DEF FindEntryPoint
<1> SUFFICES Best
  BY <1>1 DEF EntryIsBest
<1>2. /\ DOMAIN symbols \subseteq Name
      /\ \A n \in DOMAIN symbols : symbols[n] # 0
      /\ \A n \in Name : Priority[n] \in Nat /\ Priority[n] <= NoRank
  <2>1. DOMAIN symbols \subseteq Name
    BY DEF Loading, TypeOK
  <2>2. \A n \in DOMAIN symbols : symbols[n] # 0
    BY <1>1 DEF NamesInv, Relocating
  <2>3. Priority \in [Name -> 0..NoRank]
    BY LoaderAssumption
  <2>4. \A n \in Name : Priority[n] \in Nat /\ Priority[n] <= NoRank
    <3> HIDE DEF Best
    <3> QED BY <2>3 DEF NoRank
  <2> QED BY <2>1, <2>2, <2>4
<1>3. CASE Has(wish.exact)
  <2>1. Preferred = wish.exact \cap DOMAIN symbols
    BY <1>3 DEF Preferred
  <2> QED BY <1>1, <1>3, <2>1
<1>4. CASE ~Has(wish.exact) /\ Has(wish.fold)
  <2>1. Preferred = wish.fold \cap DOMAIN symbols
    BY <1>4 DEF Preferred
  <2> QED BY <1>1, <1>4, <2>1
<1>5. CASE ~Has(wish.exact) /\ ~Has(wish.fold)
  <2>1. Preferred = wish.part \cap DOMAIN symbols
    BY <1>5 DEF Preferred
  <2>2. CASE Has(wish.part)
    BY <1>1, <1>5, <2>1, <2>2
  <2>3. CASE ~Has(wish.part)
    <3>1. ~Has(wish.exact \cup wish.fold \cup wish.part) /\ Preferred = {}
      BY <1>5, <2>1, <2>3
    <3>2. CASE BestCandidates # {}
      <4>1. PICK n \in BestCandidates : entry' = symbols[n]
        BY <1>1, <3>1, <3>2
      <4>2. /\ n \in DOMAIN symbols /\ n \in Name /\ Priority[n] < NoRank
            /\ \A m \in Candidates : Priority[n] <= Priority[m]
        BY <1>2 DEF BestCandidates, Candidates
      <4>3. PICK k \in 0..(NoRank - 1) : k = Priority[n]
        BY <1>2, <4>2 DEF NoRank
      <4>4. At(Ranked(k))
        BY <4>1, <4>2, <4>3
      <4>5. ASSUME NEW j \in 0..(k - 1), NEW m \in Ranked(j) \cap DOMAIN symbols
            PROVE  FALSE
        <5>1. m \in Candidates
          BY <1>2, <4>3 DEF Candidates, NoRank
        <5> QED BY <4>2, <4>3, <5>1
      <4> QED BY <3>1, <4>4, <4>5
    <3>3. CASE BestCandidates = {}
      <4>1. Candidates = {}
        BY <3>3, BestExists
      <4>2. \A k \in 0..(NoRank - 1) : ~Has(Ranked(k))
        BY <1>2, <4>1 DEF Candidates, NoRank
      <4> QED BY <1>1, <3>1, <3>3, <4>2
    <3> QED BY <3>2, <3>3
  <2> QED BY <2>2, <2>3
<1> QED BY <1>3, <1>4, <1>5

LEMMA EntryStep ==
  ASSUME Loading, NamesInv, EntryIsBest, [Next]_vars
  PROVE  EntryIsBest'
<1>1. CASE FindEntryPoint
  BY <1>1, EntryFound
<1>2. CASE stage' # "found"
  BY <1>2 DEF EntryIsBest
<1>3. CASE UNCHANGED vars
  BY <1>3 DEF EntryIsBest, vars
<1> QED BY <1>1, <1>2, <1>3
        DEF Next, Ended, Reject, ReadSymbols, LoadSegment, AddPLTSymbols, Relocate,
            BuildVTableMap, InitStringGlobals

\* The guest starts at what the user asked for, else at a symbol no other
\* outranks, else at the file's own entry, whichever order the map of
\* symbols is ranged in (elf.go:483-586).
THEOREM BestEntryChosen == Spec => []EntryIsBest
<1>1. Init => EntryIsBest
  BY DEF Init, EntryIsBest
<1>2. Loading /\ NamesInv /\ EntryIsBest /\ [Next]_vars => EntryIsBest'
  BY EntryStep
<1> QED BY <1>1, <1>2, NamesHold, PTL DEF Spec

-----------------------------------------------------------------------------
(***************************************************************************)
(* Relocated words.  A relocation is effective when it has a value and     *)
(* none of those done after it has one for the same word; that value is    *)
(* then in memory.  A value of zero is no exception until the string       *)
(* globals are set: they go where memory has a zero.                       *)
(***************************************************************************)
Effective(i) ==
  /\ Resolved(Relas[i]) # {}
  /\ \A j \in (i + 1)..(next - 1) :
       Relas[j].offset = Relas[i].offset => Resolved(Relas[j]) = {}

PointersWritten ==
  Relocating =>
    \A i \in 1..(next - 1) :
      Effective(i) /\ Target(Relas[i]) \in mapped =>
        \/ 0 \in Resolved(Relas[i])
        \/ mem[Target(Relas[i])] \in Resolved(Relas[i])

\* What a relocation stands for, as long as the names do not change.
LEMMA SameRelas ==
  ASSUME UNCHANGED <<file, base, imports>>
  PROVE  /\ Relas' = Relas
         /\ \A r : /\ Resolved(r)' = Resolved(r)
                   /\ Target(r)' = Target(r)
                   /\ VTableResolved(r)' = VTableResolved(r)
         /\ \A o : InVTable(o)' = InVTable(o)
BY DEF Relas, Resolved, Target, VTableResolved, HasSymbol, SymbolOf, InVTable,
       VTableSymbols, VTableEnd

LEMMA RelocateWrites ==
  ASSUME Loading, PointersWritten, Relocate
  PROVE  PointersWritten'
<1> DEFINE w == Relas[next].offset + base
           R == Resolved(Relas[next])
<1>1. /\ stage = "relocations" /\ next <= Len(Relas) /\ next' = next + 1
      /\ UNCHANGED <<file, stage, base, mapped, imports>>
      /\ mem' = IF R # {} /\ w \in mapped
                  THEN [mem EXCEPT ![w] = CHOOSE v \in R : TRUE] ELSE mem
  BY DEF Relocate
<1>2. /\ next \in 1..Len(Relas) /\ Len(Relas) \in Nat /\ file \in File
      /\ base \in Nat /\ mapped \subseteq Addr /\ mem \in [Addr -> Nat]
  BY <1>1, LoadingFacts DEF Loading, Progress, Relocating
<1>3. SUFFICES ASSUME NEW i \in 1..next, Effective(i)',
                      Target(Relas[i])' \in mapped', 0 \notin Resolved(Relas[i])'
               PROVE  (mem[Target(Relas[i])] \in Resolved(Relas[i]))'
  <2>1. 1..(next' - 1) = 1..next
    BY <1>1, <1>2
  <2> QED BY <2>1 DEF PointersWritten
<1>4. /\ Relas' = Relas /\ Resolved(Relas[i])' = Resolved(Relas[i])
      /\ Target(Relas[i])' = Target(Relas[i])
      /\ Resolved(Relas[next]) = R
      /\ \A j \in 1..Len(Relas) : Resolved(Relas[j])' = Resolved(Relas[j])
  BY <1>1, SameRelas
<1>5. Target(Relas[i]) \in mapped /\ 0 \notin Resolved(Relas[i])
  BY <1>1, <1>3, <1>4
<1>6. CASE i = next
  <2>1. R # {} /\ w \in mapped /\ Target(Relas[i]) = w
    BY <1>3, <1>4, <1>5, <1>6 DEF Effective, Target
  <2>2. mem'[w] \in R
    BY <1>1, <1>2, <2>1
  <2> QED BY <1>4, <1>6, <2>1, <2>2
<1>7. CASE i # next
  <2>1. /\ i \in 1..(next - 1)
        /\ \A j \in (i + 1)..(next - 1) : j \in (i + 1)..(next' - 1)
        /\ next \in (i + 1)..(next' - 1)
        /\ \A j \in (i + 1)..next : j \in 1..Len(Relas)
    BY <1>1, <1>2, <1>7
  <2>2. Effective(i) /\ (Relas[next].offset = Relas[i].offset => R = {})
    <3>1. /\ Resolved(Relas[i]) # {}
          /\ \A j \in (i + 1)..(next' - 1) :
               Relas[j].offset = Relas[i].offset => Resolved(Relas[j])' = {}
      BY <1>3, <1>4 DEF Effective
    <3>2. \A j \in (i + 1)..next : Resolved(Relas[j])' = Resolved(Relas[j])
      BY <1>4, <2>1
    <3>3. next' - 1 = next
      BY <1>1, <1>2
    <3>4. /\ \A j \in (i + 1)..(next - 1) : j \in (i + 1)..next
          /\ next \in (i + 1)..next
      BY <1>2, <2>1, <3>3
    <3> QED BY <1>4, <3>1, <3>2, <3>3, <3>4 DEF Effective
  <2>3. mem[Target(Relas[i])] \in Resolved(Relas[i])
    BY <1>1, <1>5, <2>1, <2>2 DEF PointersWritten, Relocating
  <2>4. R # {} => Target(Relas[i]) # w
    <3>1. Relas[i].offset \in Nat /\ Relas[next].offset \in Nat
      BY <1>2, <2>1, RelasOK DEF RelaOK
    <3> QED BY <1>2, <2>2, <3>1 DEF Target
  <2>5. mem'[Target(Relas[i])] = mem[Target(Relas[i])]
    BY <1>1, <1>2, <1>5, <2>4
  <2> QED BY <1>4, <2>3, <2>5
<1> QED BY <1>6, <1>7

LEMMA GlobalsKeepPointers ==
  ASSUME Loading, PointersWritten, InitStringGlobals
  PROVE  PointersWritten'
<1>1. /\ stage = "globals" /\ UNCHANGED <<file, next, base, mapped, imports>>
      /\ \A a \in Addr : mem[a] # 0 => mem'[a] = mem[a]
  BY DEF InitStringGlobals
<1>2. SUFFICES ASSUME NEW i \in 1..(next - 1), Effective(i)',
                      Target(Relas[i])' \in mapped', 0 \notin Resolved(Relas[i])'
               PROVE  (mem[Target(Relas[i])] \in Resolved(Relas[i]))'
  BY <1>1 DEF PointersWritten
<1>3. /\ Relas' = Relas /\ Resolved(Relas[i])' = Resolved(Relas[i])
      /\ Target(Relas[i])' = Target(Relas[i])
      /\ \A j : Resolved(Relas[j])' = Resolved(Relas[j])
  BY <1>1, SameRelas
<1>4. Effective(i) /\ Target(Relas[i]) \in mapped /\ 0 \notin Resolved(Relas[i])
  BY <1>1, <1>2, <1>3 DEF Effective
<1>5. mem[Target(Relas[i])] \in Resolved(Relas[i])
  BY <1>1, <1>4 DEF PointersWritten, Relocating
<1>6. Target(Relas[i]) \in Addr /\ mem[Target(Relas[i])] # 0
  BY <1>4, <1>5, LoadingFacts
<1> QED BY <1>1, <1>3, <1>5, <1>6

LEMMA PointersStep ==
  ASSUME Loading, PointersWritten, [Next]_vars
  PROVE  PointersWritten'
<1>1. CASE Relocate
  BY <1>1, RelocateWrites
<1>2. CASE InitStringGlobals
  BY <1>2, GlobalsKeepPointers
<1>3. CASE stage' \in {"open", "segments", "failed"}
  BY <1>3 DEF PointersWritten, Relocating
<1>4. CASE stage' = "relocations" /\ next' = 1
  BY <1>4 DEF PointersWritten
<1>5. CASE UNCHANGED <<file, next, base, mapped, mem, imports>> /\ (Relocating' => Relocating)
  <2>1. /\ Relas' = Relas
        /\ \A r : Resolved(r)' = Resolved(r) /\ Target(r)' = Target(r)
    BY <1>5, SameRelas
  <2>2. \A i : Effective(i)' = Effective(i)
    BY <1>5, <2>1 DEF Effective
  <2> QED BY <1>5, <2>1, <2>2 DEF PointersWritten
<1>6. CASE ReadSymbols \/ Reject \/ LoadSegment
  BY <1>3, <1>6 DEF ReadSymbols, Reject, LoadSegment
<1>7. CASE AddPLTSymbols
  BY <1>4, <1>7 DEF AddPLTSymbols
<1>8. CASE BuildVTableMap \/ FindEntryPoint \/ UNCHANGED vars
  BY <1>5, <1>8 DEF BuildVTableMap, FindEntryPoint, vars, Relocating
<1> QED BY <1>1, <1>2, <1>6, <1>7, <1>8 DEF Next, Ended

LEMMA PointersHold == Spec => [](Loading /\ NamesInv /\ PointersWritten)
<1>1. Init => PointersWritten
  BY DEF Init, PointersWritten, Relocating
<1>2. Loading /\ PointersWritten /\ [Next]_vars => PointersWritten'
  BY PointersStep
<1> QED BY <1>1, <1>2, NamesHold, LoadingInit, LoadingStep, PTL DEF Spec

\* Nothing overwrites the last relocation of a word that has a value.
LEMMA LastStays ==
  ASSUME Loading, PointersWritten, Loaded,
         NEW i \in 1..Len(Relas), NEW v \in Nat \ {0}, Resolved(Relas[i]) = {v},
         \A j \in (i + 1)..Len(Relas) :
           Relas[j].offset = Relas[i].offset => Resolved(Relas[j]) = {},
         Target(Relas[i]) \in mapped
  PROVE  mem[Target(Relas[i])] = v
<1>1. next = Len(Relas) + 1 /\ Len(Relas) \in Nat
  BY LoadingFacts DEF Loading, Progress, Loaded
<1>2. next - 1 = Len(Relas)
  BY <1>1
<1>3. Effective(i)
  BY <1>2 DEF Effective
<1>4. 0 \in Resolved(Relas[i]) \/ mem[Target(Relas[i])] \in Resolved(Relas[i])
  BY <1>2, <1>3 DEF PointersWritten, Relocating, Loaded
<1> QED BY <1>4

\* A relocated pointer is the address the hooks of its name are installed
\* at (elf.go:112-140, 268-451).
THEOREM PointersAreHookAddresses == Spec => []PointersMatchNames
<1>1. Loading /\ NamesInv /\ PointersWritten => PointersMatchNames
  <2> SUFFICES ASSUME Loading, NamesInv, PointersWritten, Loaded,
                      NEW i \in LastRelas, Relas[i].sym # 0,
                      Relas[i].type # "RELATIVE", Target(Relas[i]) \in mapped
               PROVE  LET r == Relas[i]
                          sym == file.dyn[r.sym]
                      IN  /\ sym.value # 0 /\ Unambiguous(sym.name) =>
                               mem[Target(r)] = symbols[sym.name] + Addend(r)
                          /\ sym.value = 0 /\ r.type = "ABS64"
                               /\ sym.name \in DOMAIN imports =>
                               mem[Target(r)] = imports[sym.name] + Addend(r)
    BY DEF PointersMatchNames
  <2> DEFINE r == Relas[i]
             sym == file.dyn[r.sym]
  <2>1. /\ i \in 1..Len(Relas) /\ file \in File /\ base \in Nat
        /\ \A j \in (i + 1)..Len(Relas) : Relas[j].offset # r.offset
    BY LoadingFacts DEF LastRelas
  <2>2. RelaOK(r)
    BY <2>1, RelasOK
  <2>3. r.sym \in 1..Len(file.dyn) /\ r.addend \in Nat
    <3>1. Len(file.dyn) \in Nat
      BY <2>1, TableOK
    <3> QED BY <2>2, <3>1 DEF RelaOK
  <2>4. HasSymbol(r) /\ SymbolOf(r) = sym /\ sym.value \in Nat
    BY <2>1, <2>3, TableOK DEF HasSymbol, SymbolOf
  <2>5. r.type \in {"GLOB_DAT", "JUMP_SLOT", "ABS64"}
    BY <2>2 DEF RelaOK
  <2>6. ASSUME sym.value # 0, Unambiguous(sym.name)
        PROVE  mem[Target(r)] = symbols[sym.name] + Addend(r)
    <3>1. sym.value + base = symbols[sym.name]
      BY <2>3, <2>6 DEF Unambiguous, Named
    <3>2. PICK v \in Nat \ {0} : v = sym.value + base + Addend(r)
      <4>1. PICK d \in Nat, x \in Nat, b \in Nat :
              d = Addend(r) /\ x = sym.value /\ b = base
        BY <2>1, <2>3, <2>4 DEF Addend
      <4>2. x # 0
        BY <2>6, <4>1
      <4>3. x + b + d \in Nat /\ x + b + d # 0
        BY <4>2
      <4> QED BY <4>1, <4>3
    <3>3. v # 0
      BY <3>2
    <3>4. Resolved(r) = {v}
      <4>1. CASE r.type = "ABS64"
        BY <2>4, <2>6, <3>2, <4>1 DEF Resolved, Addend
      <4>2. CASE r.type \in {"GLOB_DAT", "JUMP_SLOT"}
        <5>1. Resolved(r) = {sym.value + base}
          BY <2>4, <2>6, <4>2 DEF Resolved
        <5>2. v = sym.value + base
          BY <2>1, <2>4, <3>2, <4>2 DEF Addend
        <5> QED BY <5>1, <5>2
      <4> QED BY <2>5, <4>1, <4>2
    <3>5. mem[Target(r)] = v
      BY <2>1, <3>3, <3>4, LastStays
    <3> QED BY <3>1, <3>2, <3>5
  <2>7. ASSUME sym.value = 0, r.type = "ABS64", sym.name \in DOMAIN imports
        PROVE  mem[Target(r)] = imports[sym.name] + Addend(r)
    <3>1. imports[sym.name] \in Nat \ {0}
      BY <2>7 DEF Loading, TypeOK, NamesInv, Loaded, Relocating
    <3>2. PICK v \in Nat \ {0} : v = imports[sym.name] + r.addend
      BY <2>3, <3>1
    <3>3. Resolved(r) = {v}
      BY <2>4, <2>7, <3>2 DEF Resolved
    <3>4. mem[Target(r)] = v
      BY <2>1, <3>3, LastStays
    <3> QED BY <2>7, <3>2, <3>4 DEF Addend
  <2> QED BY <2>6, <2>7
<1> QED BY <1>1, PointersHold, PTL

-----------------------------------------------------------------------------
(***************************************************************************)
(* The vtable map.  What it has of a slot is the last relocation of the    *)
(* slot that it takes to resolve to something.                             *)
(***************************************************************************)
SlotsFromRelas ==
  stage \in {"globals", "loaded", "found"} =>
    \A a \in DOMAIN vtables : \E i \in 1..Len(Relas) :
      /\ Target(Relas[i]) = a
      /\ vtables[a] = VTableResolved(Relas[i])
      /\ vtables[a] # 0
      /\ \A j \in (i + 1)..Len(Relas) :
           Relas[j].offset = Relas[i].offset => VTableResolved(Relas[j]) = 0

LEMMA SlotsBuilt ==
  ASSUME Loading, BuildVTableMap
  PROVE  SlotsFromRelas'
<1>1. UNCHANGED <<file, base, imports>>
  BY DEF BuildVTableMap
<1>2. /\ Relas' = Relas
      /\ \A r : Target(r)' = Target(r) /\ VTableResolved(r)' = VTableResolved(r)
  BY <1>1, SameRelas
<1>3. /\ DOMAIN vtables' = {Relas[i].offset + base : i \in Useful}
      /\ \A a \in DOMAIN vtables' :
           /\ vtables'[a] = VTableResolved(Relas[LastUseful(a)])
           /\ LastUseful(a) \in Useful
           /\ Relas[LastUseful(a)].offset + base = a
           /\ \A j \in Useful : Relas[j].offset + base = a => j <= LastUseful(a)
  BY VTableEffect
<1>4. ASSUME NEW a \in DOMAIN vtables'
      PROVE  \E i \in 1..Len(Relas) :
               /\ Target(Relas[i]) = a
               /\ vtables'[a] = VTableResolved(Relas[i])
               /\ vtables'[a] # 0
               /\ \A j \in (i + 1)..Len(Relas) :
                    Relas[j].offset = Relas[i].offset => VTableResolved(Relas[j]) = 0
  <2>1. PICK i \in Useful : /\ i = LastUseful(a) /\ Relas[i].offset + base = a
                            /\ vtables'[a] = VTableResolved(Relas[i])
                            /\ \A j \in Useful : Relas[j].offset + base = a => j <= i
    BY <1>3
  <2>2. /\ i \in 1..Len(Relas) /\ InVTable(Relas[i].offset)
        /\ VTableResolved(Relas[i]) # 0
    BY DEF Useful
  <2>3. ASSUME NEW j \in (i + 1)..Len(Relas), Relas[j].offset = Relas[i].offset
        PROVE  VTableResolved(Relas[j]) = 0
    <3>1. j \in 1..Len(Relas) /\ ~(j <= i)
      BY <2>2, LoadingFacts
    <3>2. j \notin Useful
      BY <2>1, <2>3, <3>1
    <3> QED BY <2>2, <2>3, <3>1, <3>2 DEF Useful
  <2> QED BY <2>1, <2>2, <2>3 DEF Target
<1> QED BY <1>2, <1>4 DEF SlotsFromRelas

LEMMA SlotsStep ==
  ASSUME Loading, SlotsFromRelas, [Next]_vars
  PROVE  SlotsFromRelas'
<1> DEFINE Built(s) == s \in {"globals", "loaded", "found"}
<1>1. CASE BuildVTableMap
  BY <1>1, SlotsBuilt
<1>2. CASE ~Built(stage')
  BY <1>2 DEF SlotsFromRelas
<1>3. CASE UNCHANGED <<file, base, imports, vtables>> /\ (Built(stage') => Built(stage))
  <2>1. /\ Relas' = Relas
        /\ \A r : Target(r)' = Target(r) /\ VTableResolved(r)' = VTableResolved(r)
    BY <1>3, SameRelas
  <2> QED BY <1>3, <2>1 DEF SlotsFromRelas
<1>4. CASE ReadSymbols \/ Reject \/ LoadSegment \/ AddPLTSymbols \/ Relocate
  BY <1>2, <1>4 DEF ReadSymbols, Reject, LoadSegment, AddPLTSymbols, Relocate
<1>5. CASE InitStringGlobals \/ FindEntryPoint \/ UNCHANGED vars
  BY <1>3, <1>5 DEF InitStringGlobals, FindEntryPoint, vars
<1> QED BY <1>1, <1>4, <1>5 DEF Next, Ended

LEMMA SlotsHold == Spec => [](Loading /\ PointersWritten /\ SlotsFromRelas)
<1>1. Init => SlotsFromRelas
  BY DEF Init, SlotsFromRelas
<1>2. Loading /\ SlotsFromRelas /\ [Next]_vars => SlotsFromRelas'
  BY SlotsStep
<1> QED BY <1>1, <1>2, PointersHold, LoadingInit, LoadingStep, PTL DEF Spec

\* The two readings of a relocation agree if it has no symbol from outside.
LEMMA ReadingsAgree ==
  ASSUME Loading, NEW r, RelaOK(r), r.sym # 0 => file.dyn[r.sym].value # 0
  PROVE  /\ VTableResolved(r) # 0 => Resolved(r) = {VTableResolved(r)}
         /\ VTableResolved(r) = 0 => Resolved(r) = {}
<1>1. file \in File /\ base \in Nat /\ Len(file.dyn) \in Nat
  BY LoadingFacts, TableOK
<1>2. /\ r.addend \in Nat /\ r.sym \in Nat /\ r.sym <= Len(file.dyn)
      /\ r.sym = 0 => r.addend > 0
      /\ r.type = "RELATIVE" => r.sym = 0
      /\ r.type \in {"RELATIVE", "GLOB_DAT", "JUMP_SLOT", "ABS64"}
  BY DEF RelaOK
<1>3. CASE r.sym = 0
  <2>1. ~HasSymbol(r) /\ base + r.addend # 0 /\ r.addend > 0
    BY <1>1, <1>2, <1>3 DEF HasSymbol
  <2> QED BY <1>2, <2>1 DEF Resolved, VTableResolved
<1>4. CASE r.sym # 0
  <2>1. r.sym \in 1..Len(file.dyn)
    BY <1>1, <1>2, <1>4
  <2>2. /\ HasSymbol(r) /\ r.type # "RELATIVE" /\ SymbolOf(r).value \in Nat
        /\ SymbolOf(r).value # 0
    BY <1>1, <1>2, <1>4, <2>1, TableOK DEF HasSymbol, SymbolOf
  <2>3. /\ SymbolOf(r).value + base # 0
        /\ SymbolOf(r).value + base + r.addend # 0
    BY <1>1, <1>2, <2>2
  <2>4. CASE r.type = "ABS64"
    BY <2>2, <2>3, <2>4 DEF Resolved, VTableResolved
  <2>5. CASE r.type \in {"GLOB_DAT", "JUMP_SLOT"}
    <3>1. Resolved(r) = {SymbolOf(r).value + base}
      BY <2>2, <2>5 DEF Resolved
    <3>2. VTableResolved(r) = SymbolOf(r).value + base
      BY <2>2, <2>5 DEF VTableResolved
    <3> QED BY <2>3, <3>1, <3>2
  <2> QED BY <1>2, <2>2, <2>4, <2>5
<1> QED BY <1>3, <1>4

\* What the vtable map says of a slot is what the guest reads there, when
\* no relocation of the slot refers outside the file (elf.go:341-451,
\* vtable.go:115-225).
THEOREM SlotsAreWhatTheGuestReads == Spec => []SlotsAgree
<1>1. Loading /\ PointersWritten /\ SlotsFromRelas => SlotsAgree
  <2> SUFFICES ASSUME Loading, PointersWritten, SlotsFromRelas, Loaded,
                      NEW a \in DOMAIN vtables \cap mapped,
                      \A i \in 1..Len(Relas) :
                        Target(Relas[i]) = a /\ Relas[i].sym # 0 =>
                          file.dyn[Relas[i].sym].value # 0
               PROVE  mem[a] = vtables[a]
    BY DEF SlotsAgree
  <2>1. PICK i \in 1..Len(Relas) :
               /\ Target(Relas[i]) = a
               /\ vtables[a] = VTableResolved(Relas[i])
               /\ vtables[a] # 0
               /\ \A j \in (i + 1)..Len(Relas) :
                    Relas[j].offset = Relas[i].offset => VTableResolved(Relas[j]) = 0
    BY DEF SlotsFromRelas, Loaded
  <2>2. ASSUME NEW j \in 1..Len(Relas), Target(Relas[j]) = a
        PROVE  /\ VTableResolved(Relas[j]) # 0 =>
                    Resolved(Relas[j]) = {VTableResolved(Relas[j])}
               /\ VTableResolved(Relas[j]) = 0 => Resolved(Relas[j]) = {}
    <3>1. RelaOK(Relas[j])
      BY LoadingFacts, RelasOK
    <3> QED BY <2>2, <3>1, ReadingsAgree
  <2>3. vtables[a] \in Nat \ {0} /\ Resolved(Relas[i]) = {vtables[a]}
    BY <2>1, <2>2 DEF Loading, TypeOK
  <2>4. \A j \in (i + 1)..Len(Relas) :
          Relas[j].offset = Relas[i].offset => Resolved(Relas[j]) = {}
    <3>1. \A j \in (i + 1)..Len(Relas) : j \in 1..Len(Relas)
      BY LoadingFacts
    <3> QED BY <2>1, <2>2, <3>1 DEF Target
  <2> QED BY <2>1, <2>3, <2>4, LastStays
<1> QED BY <1>1, SlotsHold, PTL

-----------------------------------------------------------------------------
(***************************************************************************)
(* Content.  While segments are loaded, memory outside those loaded so far *)
(* is zero and what is mapped is theirs; if each has pages of its own, the *)
(* loaded ones are in memory as they are in the file.                      *)
(***************************************************************************)
Content(s, w) ==
  IF s.inFile /\ w < s.vaddr + Len(s.data) THEN s.data[w - s.vaddr + 1] ELSE 0

LoadedAt(i, w) ==
  w + base \in mapped /\ mem[w + base] = Content(file.segs[i], w)

SegmentsInv ==
  stage = "segments" =>
    /\ \A a \in Addr :
         (\A i \in 1..(next - 1) : \A w \in Words(file.segs[i]) : a # w + base)
         => mem[a] = 0
    /\ \A a \in mapped : \E i \in 1..(next - 1) : a \in SegmentPages(file.segs[i])
    /\ OwnPages =>
         \A i \in 1..(next - 1) : \A w \in Words(file.segs[i]) : LoadedAt(i, w)

ContentInv ==
  Relocating /\ OwnPages =>
    \A i \in 1..Len(file.segs) : \A w \in Words(file.segs[i]) :
      \/ \E j \in 1..Len(Relas) : Target(Relas[j]) = w + base
      \/ /\ Loaded
         /\ \E n \in StringGlobals \cap DOMAIN symbols : symbols[n] = w + base
      \/ LoadedAt(i, w)

\* Rounding down to a page goes no further up, rounding up no further down.
LEMMA PageRounding ==
  ASSUME NEW a \in Nat
  PROVE  a - (a % PageSize) <= a /\ a <= a + PageSize - 1 - ((a + PageSize - 1) % PageSize)
<1>1. PICK p \in Nat : p = PageSize /\ p # 0
  BY LoaderAssumption
<1>2. ASSUME NEW n \in Nat PROVE n % p \in Nat /\ n % p <= p - 1
  BY <1>1
<1>3. a + p - 1 \in Nat
  BY <1>1
<1>4. PICK m \in Nat, k \in Nat : m = a % p /\ k = (a + p - 1) % p /\ k <= p - 1
  BY <1>2, <1>3
<1>5. a - m <= a /\ a <= a + p - 1 - k
  BY <1>1, <1>4
<1> QED BY <1>1, <1>4, <1>5

\* A segment's words are on its pages, and its data and .bss make them up.
LEMMA WordsOK ==
  ASSUME Loading, base = RelocOffset, file.segs # <<>>,
         NEW i \in 1..Len(file.segs), NEW w \in Words(file.segs[i])
  PROVE  LET s == file.segs[i]
         IN  /\ w \in Nat /\ w + base \in Addr /\ w + base \in SegmentPages(s)
             /\ w < s.vaddr + Len(s.data) => w + base \in FileWords(s) \ BssWords(s)
             /\ ~(w < s.vaddr + Len(s.data)) => w + base \in BssWords(s)
             /\ (w + base) - s.vaddr - base + 1 = w - s.vaddr + 1
<1>1. /\ file \in File /\ base \in Nat /\ base <= LoadELFBase /\ LoadELFBase \in Nat
      /\ Addr \subseteq Nat
  BY LoadingFacts, RelocOffsetOK, LoaderAssumption
<1>2. PICK v \in Nat, z \in Nat, l \in Nat :
        /\ v = file.segs[i].vaddr /\ z = file.segs[i].memsz
        /\ l = Len(file.segs[i].data)
  BY <1>1, SegmentsOK
<1>3. w \in v..(v + z - 1) /\ w \in Nat
  BY <1>2 DEF Words
<1>4. w + base \in Addr
  <2>1. 0..(w + LoadELFBase) \subseteq Addr
    BY <1>1, LoaderAssumption DEF HasRoom
  <2>2. w + base \in 0..(w + LoadELFBase)
    BY <1>1, <1>3
  <2> QED BY <2>1, <2>2
<1>5. w + base \in SegmentPages(file.segs[i])
  <2>1. PICK from \in Nat, to \in Nat : from = v + base /\ to = v + z + base
    BY <1>1
  <2>2. SegmentPages(file.segs[i]) = Pages(from, to)
    BY <1>2, <2>1 DEF SegmentPages
  <2>3. PICK p \in Nat \ {0} : p = PageSize
    BY LoaderAssumption
  <2>4. from % p \in Nat /\ (to + p - 1) % p \in Nat
    BY <2>3
  <2>5. from - (from % p) <= from /\ to <= to + p - 1 - ((to + p - 1) % p)
    BY <2>3, PageRounding
  <2>6. from <= w + base /\ w + base < to
    BY <1>1, <1>3, <2>1
  <2>7. PICK x \in Nat, y \in Nat : x = from % p /\ y = (to + p - 1) % p
    BY <2>4
  <2>8. w + base >= from - x /\ w + base < to + p - 1 - y
    BY <1>1, <1>3, <2>3, <2>5, <2>6, <2>7
  <2> QED BY <1>4, <2>2, <2>3, <2>7, <2>8 DEF Pages
<1>6. /\ FileWords(file.segs[i]) = (v + base)..(v + l + base - 1)
      /\ BssWords(file.segs[i]) = (v + l + base)..(v + z + base - 1)
  BY <1>2 DEF FileWords, BssWords
<1>7. /\ w < v + l => w + base \in ((v + base)..(v + l + base - 1))
                                     \ ((v + l + base)..(v + z + base - 1))
      /\ ~(w < v + l) => w + base \in (v + l + base)..(v + z + base - 1)
      /\ (w + base) - v - base + 1 = w - v + 1
  BY <1>1, <1>3
<1> QED BY <1>2, <1>3, <1>4, <1>5, <1>6, <1>7

\* What is written for a segment is among its words.
LEMMA WrittenInSegment ==
  ASSUME Loading, NEW i \in 1..Len(file.segs), NEW a \in Addr,
         a \in FileWords(file.segs[i]) \/ a \in BssWords(file.segs[i])
  PROVE  a - base \in Words(file.segs[i]) /\ a = (a - base) + base
<1>1. file \in File /\ base \in Nat /\ a \in Nat
  BY LoadingFacts
<1>2. PICK v \in Nat, z \in Nat, l \in Nat :
        /\ v = file.segs[i].vaddr /\ z = file.segs[i].memsz
        /\ l = Len(file.segs[i].data) /\ l <= z
  BY <1>1, SegmentsOK
<1>3. a \in (v + base)..(v + l + base - 1) \/ a \in (v + l + base)..(v + z + base - 1)
  BY <1>2 DEF FileWords, BssWords
<1>4. PICK b \in Nat : b = base
  BY <1>1
<1>5. a - b \in v..(v + z - 1) /\ a = (a - b) + b
  <2>1. PICK x \in Nat : x = a
    BY <1>1
  <2>2. l <= z
    BY <1>2
  <2>3. \/ v + b <= x /\ x <= v + l + b - 1
        \/ v + l + b <= x /\ x <= v + z + b - 1
    BY <1>3, <1>4, <2>1
  <2>4. x - b \in v..(v + z - 1) /\ x = (x - b) + b
    BY <2>2, <2>3
  <2> QED BY <2>1, <2>4
<1> QED BY <1>2, <1>4, <1>5 DEF Words

\* Words of different segments are different, moved or not.
LEMMA SegmentsApart ==
  ASSUME file \in File, NEW i \in 1..Len(file.segs), NEW j \in 1..Len(file.segs),
         i # j, NEW w \in Words(file.segs[i])
  PROVE  w \notin Words(file.segs[j])
BY LoaderAssumption DEF IsELF

LEMMA LoadSegmentContent ==
  ASSUME Loading, SegmentsInv, LoadSegment, stage' = "segments"
  PROVE  SegmentsInv'
<1> DEFINE s == file.segs[next]
<1>1. /\ stage = "segments" /\ next \in 1..Len(file.segs) /\ Len(file.segs) \in Nat
      /\ next' = next + 1 /\ UNCHANGED <<file, base>>
      /\ mapped' = MapPages(s) /\ mem' = WithSegment(s, mem)
  BY LoadingFacts DEF LoadSegment, Loading, Progress
<1>2. /\ file \in File /\ base \in Nat /\ base = RelocOffset /\ file.segs # <<>>
      /\ mapped \subseteq Addr /\ mem \in [Addr -> Nat] /\ Addr \subseteq Nat
  BY <1>1, LoadingFacts DEF Loading, Progress
<1>3. 1..(next' - 1) = 1..next /\ 1..next = 1..(next - 1) \cup {next}
  BY <1>1
<1>4. mapped' \subseteq mapped \cup SegmentPages(s)
  BY <1>1 DEF MapPages
<1>5. \A x : /\ SegmentPages(x)' = SegmentPages(x) /\ Words(x)' = Words(x)
  BY <1>1 DEF SegmentPages, Words
<1>6. ASSUME NEW a \in Addr, a \notin FileWords(s), a \notin BssWords(s)
      PROVE  mem'[a] = mem[a]
  BY <1>1, <1>6 DEF WithSegment
<1>7. ASSUME NEW a \in Addr,
             \A i \in 1..next : \A w \in Words(file.segs[i]) : a # w + base
      PROVE  mem'[a] = 0
  <2>1. mem[a] = 0
    BY <1>1, <1>3, <1>7 DEF SegmentsInv
  <2>2. a \notin FileWords(s) /\ a \notin BssWords(s)
    BY <1>1, <1>3, <1>7, WrittenInSegment
  <2> QED BY <1>6, <2>1, <2>2
<1>8. ASSUME NEW a \in mapped'
      PROVE  \E i \in 1..next : a \in SegmentPages(file.segs[i])
  BY <1>1, <1>3, <1>4 DEF SegmentsInv
<1>9. ASSUME OwnPages, NEW i \in 1..next, NEW w \in Words(file.segs[i])
      PROVE  w + base \in mapped' /\ mem'[w + base] = Content(file.segs[i], w)
  <2>1. mapped' = mapped \cup SegmentPages(s)
    <3>1. SegmentPages(s) \cap mapped = {}
      <4> SUFFICES ASSUME NEW a \in mapped, a \in SegmentPages(s) PROVE FALSE
        OBVIOUS
      <4>1. PICK k \in 1..(next - 1) : a \in SegmentPages(file.segs[k])
        BY <1>1 DEF SegmentsInv
      <4>2. k \in 1..Len(file.segs) /\ k # next
        BY <1>1
      <4> QED BY <1>1, <1>9, <4>1, <4>2 DEF OwnPages
    <3> QED BY <1>1, <3>1 DEF MapPages
  <2>2. i \in 1..Len(file.segs)
    BY <1>1
  <2>3. w \in Nat /\ w + base \in Addr /\ w + base \in SegmentPages(file.segs[i])
    BY <1>2, <2>2, WordsOK
  <2>4. CASE i # next
    <3>1. i \in 1..(next - 1)
      BY <1>1, <2>4
    <3>2. w + base \in mapped /\ mem[w + base] = Content(file.segs[i], w)
      BY <1>1, <1>9, <3>1 DEF SegmentsInv, LoadedAt
    <3>3. w \notin Words(s)
      BY <1>1, <1>2, <2>2, <2>4, SegmentsApart
    <3>4. (w + base) - base = w
      BY <1>2, <2>3
    <3>5. w + base \notin FileWords(s) /\ w + base \notin BssWords(s)
      BY <1>1, <2>3, <3>3, <3>4, WrittenInSegment
    <3> QED BY <1>6, <2>1, <2>3, <3>2, <3>5
  <2>5. CASE i = next
    <3>1. w + base \in mapped' /\ BssWords(s) \subseteq mapped'
      <4>1. ASSUME NEW a \in BssWords(s) PROVE a \in SegmentPages(s)
        <5>1. a \in Int /\ \E x \in Words(s) : a = x + base
          <6>1. PICK v \in Nat, z \in Nat, l \in Nat :
                  v = s.vaddr /\ z = s.memsz /\ l = Len(s.data)
            BY <1>1, <1>2, SegmentsOK
          <6>2. a \in (v + l + base)..(v + z + base - 1)
            BY <6>1 DEF BssWords
          <6>3. a - base \in v..(v + z - 1) /\ a = (a - base) + base
            BY <1>2, <6>2
          <6> QED BY <6>1, <6>2, <6>3 DEF Words
        <5> QED BY <1>1, <1>2, <5>1, WordsOK
      <4> QED BY <2>1, <2>3, <2>5, <4>1
    <3>2. CASE ~(w < s.vaddr + Len(s.data))
      <4>1. w + base \in BssWords(s)
        BY <1>1, <1>2, <2>5, <3>2, WordsOK
      <4>2. mem'[w + base] = 0
        BY <1>1, <2>3, <3>1, <4>1 DEF WithSegment
      <4> QED BY <2>5, <3>1, <3>2, <4>2 DEF Content
    <3>3. CASE w < s.vaddr + Len(s.data)
      <4>1. /\ w + base \in FileWords(s) \ BssWords(s)
            /\ (w + base) - s.vaddr - base + 1 = w - s.vaddr + 1
        BY <1>1, <1>2, <2>5, <3>3, WordsOK
      <4>2. CASE s.inFile
        <5>1. mem'[w + base] = s.data[(w + base) - s.vaddr - base + 1]
          BY <1>1, <2>3, <4>1, <4>2 DEF WithSegment
        <5> QED BY <2>5, <3>1, <3>3, <4>1, <4>2, <5>1 DEF Content
      <4>3. CASE ~s.inFile
        <5>1. mem'[w + base] = mem[w + base]
          BY <1>1, <2>3, <4>1, <4>3 DEF WithSegment
        <5>2. ASSUME NEW k \in 1..(next - 1), NEW x \in Words(file.segs[k])
              PROVE  w + base # x + base
          <6>1. k \in 1..Len(file.segs) /\ k # next
            BY <1>1
          <6>2. x \in Nat /\ x # w
            <7>1. x \in Nat
              BY <1>2, <6>1, WordsOK
            <7>2. x \notin Words(s)
              BY <1>1, <1>2, <6>1, SegmentsApart
            <7> QED BY <2>5, <7>1, <7>2
          <6> QED BY <1>2, <2>3, <6>2
        <5>3. mem[w + base] = 0
          BY <1>1, <2>3, <5>2 DEF SegmentsInv
        <5> QED BY <2>5, <3>1, <4>3, <5>1, <5>3 DEF Content
      <4> QED BY <4>2, <4>3
    <3> QED BY <3>2, <3>3
  <2> QED BY <2>4, <2>5
<1>10. OwnPages' = OwnPages
  BY <1>1 DEF OwnPages, SegmentPages
<1>11. \A i, w : LoadedAt(i, w)' = (w + base \in mapped' /\ mem'[w + base] = Content(file.segs[i], w))
  BY <1>1 DEF LoadedAt, Content
<1> QED BY <1>1, <1>3, <1>5, <1>7, <1>8, <1>9, <1>10, <1>11 DEF SegmentsInv

LEMMA ReadSymbolsContent ==
  ASSUME Loading, ReadSymbols
  PROVE  SegmentsInv'
<1>1. next' = 1 /\ mapped' = {} /\ mem' = [a \in Addr |-> 0]
  BY DEF ReadSymbols, Loading, Progress
<1>2. 1..(next' - 1) = {}
  BY <1>1
<1> QED BY <1>1, <1>2 DEF SegmentsInv

LEMMA SegmentsStep ==
  ASSUME Loading, SegmentsInv, [Next]_vars
  PROVE  SegmentsInv'
<1>1. CASE ReadSymbols
  BY <1>1, ReadSymbolsContent
<1>2. CASE LoadSegment
  <2>1. stage' = "segments" \/ stage' = "failed"
    BY <1>2 DEF LoadSegment
  <2>2. CASE stage' = "failed"
    BY <2>2 DEF SegmentsInv
  <2> QED BY <1>2, <2>1, <2>2, LoadSegmentContent
<1>3. CASE stage' # "segments"
  BY <1>3 DEF SegmentsInv
<1>4. CASE UNCHANGED vars
  <2>1. /\ OwnPages' = OwnPages
        /\ \A x : SegmentPages(x)' = SegmentPages(x)
        /\ \A i, w : LoadedAt(i, w)' = LoadedAt(i, w)
    BY <1>4 DEF vars, OwnPages, SegmentPages, LoadedAt
  <2> QED BY <1>4, <2>1 DEF vars, SegmentsInv
<1>5. CASE Relocate
  BY <1>3, <1>5 DEF Relocate
<1> QED BY <1>1, <1>2, <1>3, <1>4, <1>5
        DEF Next, Ended, Reject, AddPLTSymbols, BuildVTableMap, InitStringGlobals,
            FindEntryPoint

\* What stays of it.
LEMMA ContentKept ==
  ASSUME Loading, ContentInv, Relocating, Loaded => Loaded',
         UNCHANGED <<file, base, mapped, symbols, imports>>,
         \A i \in 1..Len(file.segs) : \A w \in Words(file.segs[i]) :
           w + base \in mapped =>
             \/ mem'[w + base] = mem[w + base]
             \/ \E j \in 1..Len(Relas) : Target(Relas[j]) = w + base
             \/ /\ Loaded'
                /\ \E n \in StringGlobals \cap DOMAIN symbols : symbols[n] = w + base
  PROVE  ContentInv'
<1>1. /\ Relas' = Relas /\ \A r : Target(r)' = Target(r)
  BY SameRelas
<1>2. /\ OwnPages' = OwnPages
      /\ \A x : Words(x)' = Words(x)
      /\ \A i, w : LoadedAt(i, w)' = (w + base \in mapped /\ mem'[w + base] = Content(file.segs[i], w))
  BY DEF OwnPages, SegmentPages, Words, LoadedAt, Content
<1>3. ASSUME OwnPages, NEW i \in 1..Len(file.segs), NEW w \in Words(file.segs[i])
      PROVE  \/ \E j \in 1..Len(Relas) : Target(Relas[j]) = w + base
             \/ /\ Loaded'
                /\ \E n \in StringGlobals \cap DOMAIN symbols : symbols[n] = w + base
             \/ w + base \in mapped /\ mem'[w + base] = Content(file.segs[i], w)
  BY <1>3 DEF ContentInv, LoadedAt
<1> QED BY <1>1, <1>2, <1>3 DEF ContentInv

LEMMA ContentStep ==
  ASSUME Loading, SegmentsInv, ContentInv, [Next]_vars
  PROVE  ContentInv'
<1>1. CASE AddPLTSymbols
  <2>1. /\ stage = "segments" /\ next > Len(file.segs)
        /\ UNCHANGED <<file, base, mapped, mem>>
    BY <1>1 DEF AddPLTSymbols
  <2>2. 1..(next - 1) = 1..Len(file.segs)
    <3>1. next = Len(file.segs) + 1 /\ Len(file.segs) \in Nat
      BY <2>1, LoadingFacts DEF Loading, Progress
    <3> QED BY <3>1
  <2>3. /\ OwnPages' = OwnPages
        /\ \A x : Words(x)' = Words(x)
        /\ \A i, w : LoadedAt(i, w)' = LoadedAt(i, w)
    BY <2>1 DEF OwnPages, SegmentPages, Words, LoadedAt
  <2> QED BY <2>1, <2>2, <2>3 DEF SegmentsInv, ContentInv
<1>2. CASE Relocate
  <2>1. /\ Relocating /\ next \in 1..Len(Relas)
        /\ UNCHANGED <<file, stage, base, mapped, symbols, imports>>
    BY <1>2, LoadingFacts DEF Relocate, Loading, Progress, Relocating
  <2>2. mem' = mem \/ \E v : mem' = [mem EXCEPT ![Target(Relas[next])] = v]
    BY <1>2 DEF Relocate, Target
  <2>3. ASSUME NEW a \in mapped, a # Target(Relas[next])
        PROVE  mem'[a] = mem[a]
    BY <2>2, <2>3, LoadingFacts
  <2> QED BY <2>1, <2>3, ContentKept DEF Loaded
<1>3. CASE InitStringGlobals
  <2>1. /\ Relocating /\ Loaded' /\ UNCHANGED <<file, base, mapped, symbols, imports>>
        /\ \A a \in Addr : a \notin {symbols[n] : n \in StringGlobals \cap DOMAIN symbols}
                           => mem'[a] = mem[a]
    BY <1>3 DEF InitStringGlobals, Relocating, Loaded
  <2>2. mapped \subseteq Addr
    BY LoadingFacts
  <2> QED BY <2>1, <2>2, ContentKept
<1>4. CASE BuildVTableMap \/ FindEntryPoint
  <2>1. /\ Relocating /\ (Loaded => Loaded')
        /\ UNCHANGED <<file, base, mapped, mem, symbols, imports>>
    BY <1>4 DEF BuildVTableMap, FindEntryPoint, Relocating, Loaded
  <2> QED BY <2>1, ContentKept
<1>5. CASE stage' \in {"open", "segments", "failed"}
  BY <1>5 DEF ContentInv, Relocating
<1>6. CASE UNCHANGED vars
  <2>1. CASE Relocating
    BY <1>6, <2>1, ContentKept DEF vars, Loaded
  <2>2. CASE ~Relocating
    BY <1>6, <2>2 DEF vars, ContentInv, Relocating
  <2> QED BY <2>1, <2>2
<1>7. CASE Reject \/ ReadSymbols \/ LoadSegment
  BY <1>5, <1>7 DEF Reject, ReadSymbols, LoadSegment
<1> QED BY <1>1, <1>2, <1>3, <1>4, <1>6, <1>7 DEF Next, Ended

\* A loaded file is in memory: every word of a segment is as the file has
\* it, or zero where it has nothing, unless a relocation or a string global
\* is there (elf.go:149-197).
THEOREM FileIsInMemory == Spec => []FileContentKept
<1>1. Init => SegmentsInv /\ ContentInv
  BY DEF Init, SegmentsInv, ContentInv, Relocating
<1>2. Loading /\ SegmentsInv /\ ContentInv /\ [Next]_vars => SegmentsInv' /\ ContentInv'
  BY SegmentsStep, ContentStep
<1>3. ContentInv => FileContentKept
  BY DEF ContentInv, FileContentKept, Loaded, Relocating, LoadedAt, Content
<1> QED BY <1>1, <1>2, <1>3, LoadingInit, LoadingStep, PTL DEF Spec
=============================================================================
