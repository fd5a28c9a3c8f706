----------------------------- MODULE ElfLoader ------------------------------
(***************************************************************************)
(* How a library gets into guest memory: LoadELFAt with addPLTSymbols,     *)
(* applyRelocations, BuildVTableMap and initStringGlobals, and after it    *)
(* the choice of the entry point by FindEntryPoint.                        *)
(*                                                                         *)
(* Memory is a function from addresses to words; one address is one word   *)
(* of eight bytes, so that the PLT header is four of them, a PLT entry two *)
(* and the head of a vtable two.  Names are opaque, and what the code asks *)
(* of a name (is it a vtable, which kind of entry point, does it contain   *)
(* the name the user gave) is given by constants.  .dynsym keeps versions  *)
(* apart from names, so there is no suffix to strip.                       *)
(***************************************************************************)
EXTENDS Naturals, Sequences

CONSTANTS Name,
          Addr,          \* guest addresses, in words
          File,          \* the files that may be loaded
          PageSize,      \* 0x1000 in the code
          LoadELFBase,   \* where libraries go
          LowBase,       \* 0x10000: files linked below it are libraries
          VTableNames,   \* the names that begin with _ZTV
          StringGlobals, \* the list in initStringGlobals
          StackChkGuard, Ctype,    \* the two names the loader knows
          CanaryAddr, CtypeAddr, EmptyStringData, \* what stands for them
          Priority,      \* FindEntryPoint's rank of a name; NoRank: none
          Wishes         \* the names a user may ask for, as sets of names

NoRank == 8

\* The loader's view of a file.  Symbols and relocations are in file order,
\* r.sym is the index in dyn and 0 for none.
SymbolType == [name : Name, value : Nat, size : Nat]
Relocation == [type : {"RELATIVE", "GLOB_DAT", "JUMP_SLOT", "ABS64"},
               offset : Nat, sym : Nat, addend : Nat]
SegmentType == [vaddr : Nat, memsz : Nat, data : Seq(Nat), inFile : BOOLEAN]

Words(s) == s.vaddr..(s.vaddr + s.memsz - 1)
Pages(from, to) == {a \in Addr : /\ a >= from - (from % PageSize)
                                 /\ a < to + PageSize - 1
                                         - ((to + PageSize - 1) % PageSize)}

\* The header and the entries of .plt, if the file has one.
PltWords(f) ==
  IF f.plt = 0 THEN {} ELSE f.plt..(f.plt + 3 + 2 * Len(f.relaPlt))

\* What linkers guarantee: segments do not overlap, .plt holds no symbol, a
\* name is imported once and has one PLT slot, a relocation without a symbol
\* has an addend, and a RELATIVE one has no symbol.
IsELF(f) ==
  /\ f.arm64 \in BOOLEAN
  /\ f.entry \in Nat
  /\ f.plt \in Nat
  /\ f.segs \in Seq(SegmentType)
  /\ f.dyn \in Seq(SymbolType)
  /\ f.symtab \in Seq(SymbolType)
  /\ f.relaDyn \in Seq(Relocation)
  /\ f.relaPlt \in Seq(Relocation)
  /\ \A i \in 1..Len(f.segs) : Len(f.segs[i].data) <= f.segs[i].memsz
  /\ \A i, j \in 1..Len(f.segs) :
       i # j => Words(f.segs[i]) \cap Words(f.segs[j]) = {}
  /\ \A i, j \in 1..Len(f.dyn) : f.dyn[i].name = f.dyn[j].name => i = j
  /\ \A i \in 1..Len(f.dyn) : f.dyn[i].value \notin PltWords(f)
  /\ \A i \in 1..Len(f.symtab) : f.symtab[i].value \notin PltWords(f)
  /\ \A i \in 1..Len(f.relaDyn) : f.relaDyn[i].sym <= Len(f.dyn)
  /\ \A i \in 1..Len(f.relaDyn) :
       f.relaDyn[i].sym = 0 => f.relaDyn[i].addend > 0
  /\ \A i \in 1..Len(f.relaDyn) :
       f.relaDyn[i].type = "RELATIVE" => f.relaDyn[i].sym = 0
  /\ \A i \in 1..Len(f.relaPlt) :
       f.relaPlt[i].sym \in 1..Len(f.dyn) /\ f.relaPlt[i].type # "RELATIVE"
  /\ \A i, j \in 1..Len(f.relaPlt) :
       f.relaPlt[i].sym = f.relaPlt[j].sym => i = j

\* There is memory for a file, moved or not.
HasRoom(f) == \A i \in 1..Len(f.segs) : \A w \in Words(f.segs[i]) :
                0..(w + LoadELFBase) \subseteq Addr

ASSUME LoaderAssumption ==
  /\ Addr \subseteq Nat
  /\ 0 \in Addr
  /\ \A f \in File : IsELF(f) /\ HasRoom(f)
  /\ PageSize \in Nat \ {0}
  /\ {LoadELFBase, LowBase} \subseteq Nat
  /\ LowBase <= LoadELFBase
  /\ {StackChkGuard, Ctype} \subseteq Name
  /\ VTableNames \subseteq Name
  /\ StringGlobals \subseteq Name
  /\ {CanaryAddr, CtypeAddr, EmptyStringData} \subseteq Nat \ {0}
  /\ Priority \in [Name -> 0..NoRank]
  /\ Wishes \subseteq [exact : SUBSET Name, fold : SUBSET Name,
                       part : SUBSET Name]

VARIABLES
  file,     \* the file being loaded
  stage,    \* how far LoadELFAt is
  next,     \* the next segment or relocation
  base,     \* relocOffset
  mapped,   \* the addresses the emulator has mapped for the file
  mem,      \* guest memory
  symbols,  \* ELFInfo.Symbols
  imports,  \* ELFInfo.Imports
  vtables,  \* ELFInfo.VTables: from the address of a slot to its target
  wish,     \* preferredEntry
  entry     \* what FindEntryPoint returned

vars == <<file, stage, next, base, mapped, mem, symbols, imports, vtables,
          wish, entry>>

-----------------------------------------------------------------------------
LeastOf(S) == CHOOSE x \in S : \A y \in S : x <= y
LastOf(S) == CHOOSE x \in S : \A y \in S : x >= y

Relas == file.relaDyn \o file.relaPlt

Named(tab, n) == {i \in 1..Len(tab) : tab[i].name = n /\ tab[i].value # 0}
NamesIn(tab) == {tab[i].name : i \in {j \in 1..Len(tab) : tab[j].value # 0}}

\* .symtab is read after .dynsym and wins, the last entry of a name wins.
SymbolValue(n) ==
  IF n \in NamesIn(file.symtab)
    THEN file.symtab[LastOf(Named(file.symtab, n))].value
    ELSE file.dyn[LastOf(Named(file.dyn, n))].value

FileBase == LeastOf({file.segs[i].vaddr : i \in 1..Len(file.segs)})

\* A variant that moves executables as well.
RelocOffsetAlways == LoadELFBase - FileBase

RelocOffset == IF FileBase < LowBase THEN LoadELFBase - FileBase ELSE 0

\* The symbol of a relocation; Go leaves out the null symbol, and the code
\* adds it back.
HasSymbol(r) == r.sym \in 1..Len(file.dyn)

\* A variant that forgets the null symbol.
SymbolOfZeroBased(r) == file.dyn[IF r.sym < Len(file.dyn) THEN r.sym + 1
                                                          ELSE r.sym]
SymbolOf(r) == file.dyn[r.sym]

Init == /\ file \in File
        /\ stage = "open"
        /\ next = 1
        /\ base = 0
        /\ mapped = {}
        /\ mem = [a \in Addr |-> 0]
        /\ symbols = <<>>
        /\ imports = <<>>
        /\ vtables = <<>>
        /\ wish \in Wishes
        /\ entry = 0

Reject == /\ stage = "open"
          /\ ~file.arm64 \/ file.segs = <<>>
          /\ stage' = "failed"
          /\ UNCHANGED <<file, next, base, mapped, mem, symbols, imports,
                         vtables, wish, entry>>

ReadSymbols ==
  /\ stage = "open"
  /\ file.arm64
  /\ file.segs # <<>>
  /\ base' = RelocOffset
  /\ symbols' = [n \in NamesIn(file.dyn) \cup NamesIn(file.symtab) |->
                   SymbolValue(n) + RelocOffset]
  /\ stage' = "segments"
  /\ UNCHANGED <<file, next, mapped, mem, imports, vtables, wish, entry>>

-----------------------------------------------------------------------------
SegmentPages(s) == Pages(s.vaddr + base, s.vaddr + s.memsz + base)

\* MapRegion refuses a range that is partly mapped already; the loader
\* ignores that.
MapPages(s) == IF SegmentPages(s) \cap mapped = {}
                 THEN mapped \cup SegmentPages(s) ELSE mapped

FileWords(s) == (s.vaddr + base)..(s.vaddr + Len(s.data) + base - 1)

\* A variant that begins one word early.
BssWordsEarly(s) ==
  (s.vaddr + Len(s.data) + base - 1)..(s.vaddr + s.memsz + base - 1)

BssWords(s) == (s.vaddr + Len(s.data) + base)..(s.vaddr + s.memsz + base - 1)

\* Memory with the segment's data and its .bss cleared.
WithSegment(s, m) ==
  [a \in Addr |->
     CASE a \in BssWords(s) /\ BssWords(s) \subseteq mapped' -> 0
       [] a \in FileWords(s) \ BssWords(s) /\ s.inFile ->
            s.data[a - s.vaddr - base + 1]
       [] OTHER -> m[a]]

LoadSegment ==
  /\ stage = "segments"
  /\ next <= Len(file.segs)
  /\ LET s == file.segs[next]
     IN  /\ mapped' = MapPages(s)
         /\ IF s.inFile /\ ~(FileWords(s) \subseteq mapped')
              THEN stage' = "failed" /\ UNCHANGED <<mem, next>>
              ELSE /\ mem' = WithSegment(s, mem)
                   /\ next' = next + 1
                   /\ UNCHANGED stage
  /\ UNCHANGED <<file, base, symbols, imports, vtables, wish, entry>>

PltAddr(k) == file.plt + base + 4 + 2 * (k - 1)

\* The PLT slots of symbols the file does not define.
External == {k \in 1..Len(file.relaPlt) :
               HasSymbol(file.relaPlt[k]) /\ SymbolOf(file.relaPlt[k]).value = 0}

\* A variant in which a symbol of the file keeps its address.
AddPLTSymbolsKeeping ==
  /\ stage = "segments"
  /\ next > Len(file.segs)
  /\ LET slots == IF file.plt = 0 THEN {} ELSE External
         slot(n) == {k \in slots : SymbolOf(file.relaPlt[k]).name = n}
         names == {SymbolOf(file.relaPlt[k]).name : k \in slots}
     IN  /\ imports' = [n \in names |-> PltAddr(LastOf(slot(n)))]
         /\ symbols' = [n \in DOMAIN symbols \cup names |->
                          IF n \in DOMAIN symbols THEN symbols[n]
                                         ELSE PltAddr(LastOf(slot(n)))]
  /\ stage' = "relocations"
  /\ next' = 1
  /\ UNCHANGED <<file, base, mapped, mem, vtables, wish, entry>>

AddPLTSymbols ==
  /\ stage = "segments"
  /\ next > Len(file.segs)
  /\ LET slots == IF file.plt = 0 THEN {} ELSE External
         slot(n) == {k \in slots : SymbolOf(file.relaPlt[k]).name = n}
         names == {SymbolOf(file.relaPlt[k]).name : k \in slots}
     IN  /\ imports' = [n \in names |-> PltAddr(LastOf(slot(n)))]
         /\ symbols' = [n \in DOMAIN symbols \cup names |->
                          IF n \in names THEN PltAddr(LastOf(slot(n)))
                                         ELSE symbols[n]]
  /\ stage' = "relocations"
  /\ next' = 1
  /\ UNCHANGED <<file, base, mapped, mem, vtables, wish, entry>>

-----------------------------------------------------------------------------
\* The values applyRelocations writes for a relocation: none or one.
Resolved(r) ==
  CASE r.type = "RELATIVE" -> {base + r.addend}
    [] r.type \in {"GLOB_DAT", "JUMP_SLOT"} /\ HasSymbol(r) ->
         LET sym == SymbolOf(r)
         IN  CASE sym.value # 0 -> {sym.value + base}
               [] sym.value = 0 /\ sym.name = StackChkGuard -> {CanaryAddr}
               [] sym.value = 0 /\ sym.name = Ctype -> {CtypeAddr}
               [] OTHER -> {}
    [] r.type = "ABS64" /\ HasSymbol(r) ->
         LET sym == SymbolOf(r)
         IN  CASE sym.value # 0 -> {sym.value + base + r.addend}
               [] sym.value = 0 /\ sym.name \in DOMAIN imports ->
                    {imports[sym.name] + r.addend}
               [] OTHER -> {}
    [] r.type = "ABS64" /\ ~HasSymbol(r) /\ r.addend > 0 ->
         {base + r.addend}
    [] OTHER -> {}

\* One entry of .rela.dyn, then .rela.plt; a write to unmapped memory fails
\* unnoticed.
Relocate ==
  /\ stage = "relocations"
  /\ next <= Len(Relas)
  /\ LET r == Relas[next]
         target == r.offset + base
     IN  mem' = IF Resolved(r) # {} /\ target \in mapped
                  THEN [mem EXCEPT ![target] = CHOOSE v \in Resolved(r) : TRUE]
                  ELSE mem
  /\ next' = next + 1
  /\ UNCHANGED <<file, stage, base, mapped, symbols, imports, vtables, wish,
                 entry>>

\* A variant that leaves out the addend.
VTableResolvedPlain(r) ==
  CASE r.type = "RELATIVE" -> base + r.addend
    [] r.type # "RELATIVE" /\ HasSymbol(r) /\ SymbolOf(r).value # 0 ->
         SymbolOf(r).value + base
    [] OTHER -> 0

\* What BuildVTableMap takes a relocation to resolve to.
VTableResolved(r) ==
  CASE r.type = "RELATIVE" -> base + r.addend
    [] r.type = "ABS64" ->
         IF HasSymbol(r) /\ SymbolOf(r).value # 0
           THEN SymbolOf(r).value + base + r.addend
           ELSE base + r.addend
    [] OTHER -> IF HasSymbol(r) /\ SymbolOf(r).value # 0
                  THEN SymbolOf(r).value + base
                  ELSE 0

\* The words of vtables.  One of unknown size goes up to the next one, the
\* last of them for 128 words.
VTableSymbols ==
  {s \in {file.dyn[i] : i \in 1..Len(file.dyn)}
          \cup {file.symtab[i] : i \in 1..Len(file.symtab)} :
     s.name \in VTableNames /\ s.value # 0}

VTableEnd(s) ==
  LET later == {t.value : t \in {u \in VTableSymbols : u.value > s.value}}
  IN  CASE s.size # 0 -> s.value + s.size
        [] s.size = 0 /\ later # {} -> LeastOf(later)
        [] OTHER -> s.value + 128

InVTable(offset) ==
  \E s \in VTableSymbols : offset >= s.value /\ offset < VTableEnd(s)

BuildVTableMap ==
  /\ stage = "relocations"
  /\ next > Len(Relas)
  /\ LET useful == {i \in 1..Len(Relas) : /\ InVTable(Relas[i].offset)
                                         /\ VTableResolved(Relas[i]) # 0}
         last(a) == LastOf({i \in useful : Relas[i].offset + base = a})
     IN  vtables' = [a \in {Relas[i].offset + base : i \in useful} |->
                       VTableResolved(Relas[last(a)])]
  /\ stage' = "globals"
  /\ UNCHANGED <<file, next, base, mapped, mem, symbols, imports, wish, entry>>

\* Whatever has one of the names and is zero is taken for a std::string.
InitStringGlobals ==
  /\ stage = "globals"
  /\ LET found == {symbols[n] : n \in StringGlobals \cap DOMAIN symbols}
     IN  mem' = [a \in Addr |->
                   IF a \in found \cap mapped /\ mem[a] = 0
                     THEN EmptyStringData ELSE mem[a]]
  /\ stage' = "loaded"
  /\ UNCHANGED <<file, next, base, mapped, symbols, imports, vtables, wish,
                 entry>>

-----------------------------------------------------------------------------
Candidates == {n \in DOMAIN symbols : symbols[n] # 0 /\ Priority[n] < NoRank}

\* A variant that keeps the worst candidate.
WorstCandidates == {n \in Candidates :
                      \A m \in Candidates : Priority[n] >= Priority[m]}

BestCandidates == {n \in Candidates :
                     \A m \in Candidates : Priority[n] <= Priority[m]}

\* The names a preferred entry point selects: itself, or one that differs in
\* case, or one that contains it.
Preferred ==
  LET among(S) == S \cap DOMAIN symbols
  IN  CASE among(wish.exact) # {} -> among(wish.exact)
        [] among(wish.exact) = {} /\ among(wish.fold) # {} -> among(wish.fold)
        [] OTHER -> among(wish.part)

\* Maps are ranged in any order: the first that fits is any that fits.  A
\* JNI_OnLoad is among the candidates already, so that of the two fallbacks
\* only the second is ever reached.
FindEntryPoint ==
  /\ stage = "loaded"
  /\ LET names == IF Preferred # {} THEN Preferred ELSE BestCandidates
     IN  \/ names # {} /\ entry' \in {symbols[n] : n \in names}
         \/ names = {} /\ entry' = file.entry + base
  /\ stage' = "found"
  /\ UNCHANGED <<file, next, base, mapped, mem, symbols, imports, vtables,
                 wish>>

Ended == stage \in {"failed", "found"} /\ UNCHANGED vars

Next == \/ Reject
        \/ ReadSymbols
        \/ LoadSegment
        \/ AddPLTSymbols
        \/ Relocate
        \/ BuildVTableMap
        \/ InitStringGlobals
        \/ FindEntryPoint
        \/ Ended

Spec == Init /\ [][Next]_vars

-----------------------------------------------------------------------------
\* Types.
TypeOK ==
  /\ file \in File
  /\ stage \in {"open", "segments", "relocations", "globals", "loaded",
                "found", "failed"}
  /\ next \in 1..(Len(file.segs) + Len(Relas) + 1)
  /\ {base, entry} \subseteq Nat
  /\ mapped \subseteq Addr
  /\ mem \in [Addr -> Nat]
  /\ DOMAIN symbols \subseteq Name /\ DOMAIN imports \subseteq Name
  /\ \A n \in DOMAIN symbols : symbols[n] \in Nat
  /\ \A n \in DOMAIN imports : imports[n] \in Nat
  /\ \A a \in DOMAIN vtables : vtables[a] \in Nat
  /\ wish \in Wishes

Loaded == stage \in {"loaded", "found"}

Target(r) == r.offset + base

\* The relocations nothing later overwrites.
LastRelas == {i \in 1..Len(Relas) :
                \A j \in (i + 1)..Len(Relas) : Relas[j].offset # Relas[i].offset}

\* The name stands for one address in the whole file.
Unambiguous(n) ==
  \A S \in {file.dyn, file.symtab} : \A i \in Named(S, n) :
    S[i].value + base = symbols[n]

Addend(r) == IF r.type = "ABS64" THEN r.addend ELSE 0

\* A pointer the guest reads from a relocated word is the address the hooks
\* of that name are installed at: the address in Symbols of a function of the
\* file, the PLT entry in Imports of one from elsewhere.  (elf.go:112-140 and
\* 268-337 make the maps, 341-451 the pointers.)
PointersMatchNames ==
  Loaded =>
    \A i \in LastRelas :
      LET r == Relas[i]
          sym == file.dyn[r.sym]
      IN  r.sym # 0 /\ r.type # "RELATIVE" /\ Target(r) \in mapped =>
            /\ sym.value # 0 /\ Unambiguous(sym.name) =>
                 mem[Target(r)] = symbols[sym.name] + Addend(r)
            /\ sym.value = 0 /\ r.type = "ABS64" /\ sym.name \in DOMAIN imports =>
                 mem[Target(r)] = imports[sym.name] + Addend(r)

\* The vtable map says of a slot what the guest will find there, as long as
\* the slot refers to nothing outside the file: two readings of the same
\* relocations agree (elf.go:341-451, vtable.go:115-225).
SlotsAgree ==
  Loaded =>
    \A a \in DOMAIN vtables \cap mapped :
      (\A i \in 1..Len(Relas) :
         Target(Relas[i]) = a /\ Relas[i].sym # 0 =>
           file.dyn[Relas[i].sym].value # 0)
      => mem[a] = vtables[a]

\* Whatever is neither relocated nor one of the string globals is in memory
\* as it is in the file, and zero where the file has nothing, provided each
\* segment has pages of its own (elf.go:149-197).
OwnPages ==
  \A i, j \in 1..Len(file.segs) :
    i # j => SegmentPages(file.segs[i]) \cap SegmentPages(file.segs[j]) = {}

FileContentKept ==
  Loaded /\ OwnPages =>
    \A i \in 1..Len(file.segs) : \A w \in Words(file.segs[i]) :
      LET s == file.segs[i]
          a == w + base
      IN  \/ \E j \in 1..Len(Relas) : Target(Relas[j]) = a
          \/ \E n \in StringGlobals \cap DOMAIN symbols : symbols[n] = a
          \/ /\ a \in mapped
             /\ mem[a] = IF s.inFile /\ w < s.vaddr + Len(s.data)
                           THEN s.data[w - s.vaddr + 1] ELSE 0

\* What the registry relies on (IsELFInfo in Registry): imports are symbols
\* too, and no other name has the address of a PLT entry, so that a stub
\* hooked there answers for one function only (elf.go:112-140, 268-337).
ImportsAreSymbols ==
  Loaded =>
    /\ DOMAIN imports \subseteq DOMAIN symbols
    /\ \A n \in DOMAIN imports, m \in DOMAIN symbols :
         (symbols[m] = imports[n]) <=> (m = n)

\* Whichever order the map of symbols is ranged in, the guest starts at what
\* the user asked for, or else at a symbol no other outranks, or else at the
\* entry of the file (elf.go:483-586).
EntryIsBest ==
  stage = "found" =>
    LET At(S) == \E n \in S \cap DOMAIN symbols : symbols[n] = entry
        Has(S) == S \cap DOMAIN symbols # {}
        Ranked(k) == {n \in Name : Priority[n] = k}
    IN  \/ At(wish.exact)
        \/ ~Has(wish.exact) /\ At(wish.fold)
        \/ ~Has(wish.exact) /\ ~Has(wish.fold) /\ At(wish.part)
        \/ /\ ~Has(wish.exact \cup wish.fold \cup wish.part)
           /\ \/ \E k \in 0..(NoRank - 1) :
                   At(Ranked(k)) /\ \A j \in 0..(k - 1) : ~Has(Ranked(j))
              \/ /\ \A k \in 0..(NoRank - 1) : ~Has(Ranked(k))
                 /\ entry = file.entry + base

\* "First pass handles internal symbols, second pass resolves external
\* symbols to PLT stubs" (elf.go:204-205, applyRelocations "to fix GOT
\* entries"): the GOT entry of an imported function holds its PLT entry.
GotResolved ==
  Loaded =>
    \A i \in LastRelas :
      LET r == Relas[i]
      IN  r.type = "GLOB_DAT" /\ file.dyn[r.sym].name \in DOMAIN imports =>
            mem[Target(r)] = imports[file.dyn[r.sym].name]
=============================================================================
