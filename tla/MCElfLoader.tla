---------------------------- MODULE MCElfLoader -----------------------------
(***************************************************************************)
(* ElfLoader over one small library with every choice of up to two         *)
(* relocations of .rela.dyn, in both orders: text with a PLT of two        *)
(* entries, data with a vtable and GOT, and a segment that is all .bss.    *)
(* More files: without a PLT, for another machine, cut short, two that     *)
(* share a page between segments (one of them cannot be loaded), an        *)
(* executable that is not moved, and one without an entry point.           *)
(***************************************************************************)
EXTENDS ElfLoader, TLC

MCName == {"JNI_OnLoad", "cocos_main", "launched", "setKey", "_ZTVStack",
           "_ZTVHidden", "s", "malloc", "free", "__stack_chk_guard",
           "_ctype_"}

MCPriority == [n \in MCName |-> CASE n = "launched" -> 3
                                  [] n = "cocos_main" -> 5
                                  [] n = "JNI_OnLoad" -> 7
                                  [] OTHER -> NoRank]

MCWishes == {[exact |-> {}, fold |-> {}, part |-> {}],
             [exact |-> {"setKey"}, fold |-> {"setKey"}, part |-> {"setKey"}],
             [exact |-> {}, fold |-> {"JNI_OnLoad"}, part |-> {"JNI_OnLoad"}],
             [exact |-> {}, fold |-> {}, part |-> {"setKey", "_ZTVStack"}]}

Sym(n, v, sz) == [name |-> n, value |-> v, size |-> sz]

Rela(t, o, s, a) == [type |-> t, offset |-> o, sym |-> s, addend |-> a]

MCDyn == <<Sym("JNI_OnLoad", 1, 1), Sym("malloc", 0, 0), Sym("setKey", 2, 1),
           Sym("_ZTVStack", 16, 4), Sym("__stack_chk_guard", 0, 0),
           Sym("s", 22, 1), Sym("free", 0, 0), Sym("_ctype_", 0, 0)>>

\* A static function with the name of an import, one that hides setKey, and
\* a vtable whose size is not known.
MCSymtab == {<<>>, <<Sym("cocos_main", 3, 1), Sym("malloc", 6, 1)>>,
             <<Sym("launched", 4, 1), Sym("setKey", 5, 1),
               Sym("_ZTVHidden", 20, 0)>>}

MCText == [vaddr |-> 0, memsz |-> 16, data |-> [i \in 1..16 |-> 100 + i],
           inFile |-> TRUE]
MCData == [vaddr |-> 16, memsz |-> 8, data |-> <<7, 0, 9, 0, 11, 12>>,
           inFile |-> TRUE]
MCBss == [vaddr |-> 26, memsz |-> 2, data |-> <<>>, inFile |-> TRUE]

\* Vtable slots at 18 and 19, GOT at 20 and 21, a word of .bss at 27.
MCRelas ==
  {Rela("RELATIVE", 18, 0, 2), Rela("RELATIVE", 20, 0, 3),
   Rela("ABS64", 18, 3, 0), Rela("ABS64", 19, 2, 0), Rela("ABS64", 18, 1, 1),
   Rela("ABS64", 19, 0, 4), Rela("ABS64", 27, 7, 0),
   Rela("GLOB_DAT", 20, 3, 0), Rela("GLOB_DAT", 20, 2, 0),
   Rela("GLOB_DAT", 21, 5, 0), Rela("GLOB_DAT", 20, 8, 0),
   Rela("GLOB_DAT", 18, 6, 0)}

MCLibrary(relas, symtab) ==
  [arm64 |-> TRUE, entry |-> 1, plt |-> 8, segs |-> <<MCText, MCData, MCBss>>,
   dyn |-> MCDyn, symtab |-> symtab, relaDyn |-> relas,
   relaPlt |-> <<Rela("JUMP_SLOT", 21, 2, 0), Rela("JUMP_SLOT", 21, 3, 0)>>]

MCPlain == MCLibrary(<<>>, <<>>)

MCFile ==
  {MCLibrary(r, t) : r \in {<<>>} \cup {<<x>> : x \in MCRelas}
                               \cup {<<x, y>> : x, y \in MCRelas},
                    t \in MCSymtab}
  \cup {[MCPlain EXCEPT !.plt = 0], [MCPlain EXCEPT !.arm64 = FALSE],
        [MCPlain EXCEPT !.segs = <<[MCText EXCEPT !.inFile = FALSE], MCData>>],
        [MCPlain EXCEPT !.segs = <<MCText, MCData, [MCData EXCEPT !.vaddr = 24,
                                     !.memsz = 12], [MCBss EXCEPT !.vaddr = 38,
                                     !.data = <<5, 6, 7, 8>>, !.memsz = 4]>>],
        [MCPlain EXCEPT !.segs = <<[MCText EXCEPT !.memsz = 20], [MCData EXCEPT
                                     !.vaddr = 21, !.memsz = 7]>>],
        [MCPlain EXCEPT !.segs = <<[MCText EXCEPT !.vaddr = 48]>>,
                        !.dyn[1].value = 49, !.dyn[3].value = 50,
                        !.dyn[4].value = 60, !.dyn[6].value = 61,
                        !.plt = 56, !.relaPlt = <<>>],
        [MCPlain EXCEPT !.dyn[1].value = 0]}

MCAddr == 0..100
=============================================================================
