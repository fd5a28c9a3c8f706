------------------------------ MODULE Registry ------------------------------
(***************************************************************************)
(* How hooks reach guest addresses: Registry.Install with checkDetectors   *)
(* and the Activate functions of the detectors.  A binary is two maps from *)
(* names to addresses, its imports (addresses of PLT entries) and its      *)
(* symbols.  Install lets the detectors hook what they claim, then hooks   *)
(* the registered stubs over the imports, then over the symbols, and last  *)
(* a fallback over every import that has no stub.                          *)
(*                                                                         *)
(* Each pass ranges over a Go map, in any order.  A pass is one action:    *)
(* what the order decides is which of the names of an address leaves its   *)
(* hook there, and the action leaves that open.  What a detector claims is *)
(* given by the constant Claims, the result of its tests on names.         *)
(***************************************************************************)
EXTENDS Naturals, Sequences

CONSTANTS Emulator, NoEmu,
          Name, Addr,       \* symbol names and guest addresses
          Binary,           \* the binaries that may be loaded
          Registered,       \* the names that have a stub (Registry.stubs)
          Detectors,        \* Registry.detectors: a sequence of detector names
          Jni,              \* the detector that installs the JNI environment
          Mock,             \* the detector that skips imports
          Triggers,         \* the names a detector's patterns match
          Claims,           \* the names a detector hooks when it is activated
          InstallFallbacks, \* the package variable
          MaxInstalls       \* bound: how many installations a run makes

Detector == {Detectors[i] : i \in 1..Len(Detectors)}

\* The maps an ELF file is loaded into: each PLT entry has one name and is
\* in both maps, the other symbols may share addresses.
IsELFInfo(b) ==
  /\ DOMAIN b.imports \subseteq DOMAIN b.symbols
  /\ DOMAIN b.symbols \subseteq Name
  /\ \A n \in DOMAIN b.symbols : b.symbols[n] \in Addr
  /\ \A n \in DOMAIN b.imports : b.imports[n] = b.symbols[n]
  /\ \A n \in DOMAIN b.imports, m \in DOMAIN b.symbols :
       b.symbols[m] = b.imports[n] => m = n

ASSUME RegistryAssumption ==
  /\ NoEmu \notin Emulator
  /\ Addr \subseteq Nat
  /\ \A b \in Binary : IsELFInfo(b)
  /\ Registered \subseteq Name
  /\ Detectors \in Seq(STRING)
  /\ \A i, j \in 1..Len(Detectors) : \* each is registered once
       Detectors[i] = Detectors[j] => i = j
  /\ {"stub", "fallback", "none"} \cap Detector = {}
  /\ Triggers \in [Detector -> SUBSET Name]
  /\ Claims \in [Detector -> SUBSET Name]
  /\ InstallFallbacks \in BOOLEAN
  /\ MaxInstalls \in Nat

VARIABLES
  regEmu,    \* Registry.emu
  activated, \* Registry.activated
  hooks,     \* Emulator.addrHooks of every emulator
  jniEnv,    \* the emulator jni.currentEnv was made for
  phase,     \* where Install is; "idle" between installations
  bin,       \* the binary being installed, or installed last
  det,       \* checkDetectors: the index of the next detector
  seen,      \* Install: the addresses already hooked by a pass
  installs,  \* how many installations have begun
  fresh      \* history: the last installation reset the detectors

vars == <<regEmu, activated, hooks, jniEnv, phase, bin, det, seen, installs,
          fresh>>

Hook == [by : Detector \cup {"stub", "fallback"}, name : Name]
NoHook == [by |-> "none"]

-----------------------------------------------------------------------------
\* Imports win over symbols of the same name.
AllSymbols(b) ==
  [n \in DOMAIN b.imports \cup DOMAIN b.symbols |->
     IF n \in DOMAIN b.imports THEN b.imports[n] ELSE b.symbols[n]]

\* The sets of names, one for each address of the names in S, whose hooks
\* can be the ones that stay when every name in S is hooked.
Winners(S, m) == {W \in SUBSET S :
                    /\ \A n \in S : \E w \in W : m[w] = m[n]
                    /\ \A v, w \in W : m[v] = m[w] => v = w}

\* Hook the names in S at their addresses in m, in any order.
HookAll(by, S, m) ==
  \E W \in Winners(S, m) :
    hooks' = [hooks EXCEPT ![regEmu] =
                [a \in Addr |-> IF \E w \in W : m[w] = a
                                  THEN [by |-> by,
                                        name |-> CHOOSE w \in W : m[w] = a]
                                  ELSE hooks[regEmu][a]]]

\* What Activate of detector d hooks: jni hooks nothing in the binary, and
\* the mocks keep off the PLT.
Claimed(d, b) == {n \in Claims[d] \cap DOMAIN AllSymbols(b) :
                    /\ AllSymbols(b)[n] # 0
                    /\ d = Mock => n \notin DOMAIN b.imports}

Matches(d, b) == Triggers[d] \cap DOMAIN AllSymbols(b) # {}

-----------------------------------------------------------------------------
Init == /\ regEmu = NoEmu
        /\ activated = {}
        /\ hooks = [e \in Emulator |-> [a \in Addr |-> NoHook]]
        /\ jniEnv = NoEmu
        /\ phase = "idle"
        /\ bin \in Binary
        /\ det = 1
        /\ seen = {}
        /\ installs = 0
        /\ fresh = FALSE

\* A variant with the reset left out.
BeginInstallKeepingDetectors(e, b) ==
  /\ phase = "idle"
  /\ installs < MaxInstalls
  /\ installs' = installs + 1
  /\ fresh' = (regEmu # e)
  /\ regEmu' = e
  /\ bin' = b
  /\ det' = 1
  /\ seen' = {}
  /\ phase' = "detectors"
  /\ UNCHANGED <<activated, hooks, jniEnv>>

\* A variant that starts before the first detector.
BeginInstallBeforeFirst(e, b) ==
  /\ phase = "idle"
  /\ installs < MaxInstalls
  /\ installs' = installs + 1
  /\ activated' = IF regEmu # e THEN {} ELSE activated
  /\ fresh' = (regEmu # e)
  /\ regEmu' = e
  /\ bin' = b
  /\ det' = 0
  /\ seen' = {}
  /\ phase' = "detectors"
  /\ UNCHANGED <<hooks, jniEnv>>

BeginInstall(e, b) ==
  /\ phase = "idle"
  /\ installs < MaxInstalls
  /\ installs' = installs + 1
  /\ activated' = IF regEmu # e THEN {} ELSE activated
  /\ fresh' = (regEmu # e)
  /\ regEmu' = e
  /\ bin' = b
  /\ det' = 1
  /\ seen' = {}
  /\ phase' = "detectors"
  /\ UNCHANGED <<hooks, jniEnv>>

\* A variant that goes through the detectors backwards.
LastDetectorFirst == Detectors[Len(Detectors) + 1 - det]

NextDetector == Detectors[det]

SkipDetector ==
  /\ phase = "detectors"
  /\ det <= Len(Detectors)
  /\ NextDetector \notin activated => ~Matches(NextDetector, bin)
  /\ det' = det + 1
  /\ UNCHANGED <<regEmu, activated, hooks, jniEnv, phase, bin, seen,
                 installs, fresh>>

ActivateDetector ==
  /\ phase = "detectors"
  /\ det <= Len(Detectors)
  /\ NextDetector \notin activated
  /\ Matches(NextDetector, bin)
  /\ activated' = activated \cup {NextDetector}
  /\ HookAll(NextDetector, Claimed(NextDetector, bin), AllSymbols(bin))
  /\ jniEnv' = IF NextDetector = Jni THEN regEmu ELSE jniEnv
  /\ det' = det + 1
  /\ UNCHANGED <<regEmu, phase, bin, seen, installs, fresh>>

\* A variant in which every name is marked as seen, stub or not.
MarkAllSeen(S, m) ==
  LET wanted == {n \in S \cap Registered : m[n] # 0 /\ m[n] \notin seen}
  IN  /\ HookAll("stub", wanted, m)
      /\ seen' = seen \cup {m[n] : n \in S}

\* installStub for each name in S: the first name of an address is hooked.
InstallStubs(S, m) ==
  LET wanted == {n \in S \cap Registered : m[n] # 0 /\ m[n] \notin seen}
  IN  /\ HookAll("stub", wanted, m)
      /\ seen' = seen \cup {m[n] : n \in wanted}

StubImports ==
  /\ phase = "detectors"
  /\ det > Len(Detectors)
  /\ InstallStubs(DOMAIN bin.imports, bin.imports)
  /\ phase' = "symbols"
  /\ UNCHANGED <<regEmu, activated, jniEnv, bin, det, installs, fresh>>

StubSymbols ==
  /\ phase = "symbols"
  /\ InstallStubs(DOMAIN bin.symbols, bin.symbols)
  /\ phase' = "fallbacks"
  /\ UNCHANGED <<regEmu, activated, jniEnv, bin, det, installs, fresh>>

\* Only the names that no stub pass has seen; what a detector hooked is not
\* looked at.
Unstubbed == {n \in DOMAIN bin.imports :
                bin.imports[n] # 0 /\ bin.imports[n] \notin seen}

InstallFallback ==
  /\ phase = "fallbacks"
  /\ IF InstallFallbacks
       THEN /\ HookAll("fallback", Unstubbed, bin.imports)
            /\ seen' = seen \cup {bin.imports[n] : n \in Unstubbed}
       ELSE UNCHANGED <<hooks, seen>>
  /\ phase' = "idle"
  /\ UNCHANGED <<regEmu, activated, jniEnv, bin, det, installs, fresh>>

\* The run has reached its bound.
Ended == phase = "idle" /\ installs = MaxInstalls /\ UNCHANGED vars

Next == \/ \E e \in Emulator, b \in Binary : BeginInstall(e, b)
        \/ SkipDetector
        \/ ActivateDetector
        \/ StubImports
        \/ StubSymbols
        \/ InstallFallback
        \/ Ended

Spec == Init /\ [][Next]_vars

-----------------------------------------------------------------------------
\* Types.
TypeOK == /\ regEmu \in Emulator \cup {NoEmu}
          /\ activated \subseteq Detector
          /\ hooks \in [Emulator -> [Addr -> Hook \cup {NoHook}]]
          /\ jniEnv \in Emulator \cup {NoEmu}
          /\ phase \in {"idle", "detectors", "symbols", "fallbacks"}
          /\ bin \in Binary
          /\ det \in 1..(Len(Detectors) + 1)
          /\ seen \subseteq Addr
          /\ installs \in 0..MaxInstalls
          /\ fresh \in BOOLEAN

Installed == phase = "idle" /\ installs > 0

HookAt(a) == hooks[regEmu][a]

\* After Install a call of an import never runs into the PLT: every import
\* has a hook, a stub's if its name has one (registry.go:184-287).
ImportsCovered ==
  Installed =>
    \A n \in DOMAIN bin.imports :
      LET a == bin.imports[n]
      IN  a # 0 =>
            /\ InstallFallbacks => HookAt(a) # NoHook
            /\ n \in Registered => HookAt(a) = [by |-> "stub", name |-> n]

\* A key setter defined in the binary keeps the hook of a detector that
\* claims it, the last one that does, whatever else claims its address and
\* whichever order the maps are ranged in; only a registered stub for a name
\* of the same address goes before it (registry.go:118-154, cocos.go:124-234,
\* mock.go:33-65).
ClaimsAddr(i, a) == /\ Matches(Detectors[i], bin)
                   /\ \E n \in Claimed(Detectors[i], bin) :
                        AllSymbols(bin)[n] = a

LastClaimant(a) ==
  LET C == {i \in 1..Len(Detectors) : ClaimsAddr(i, a)}
  IN  Detectors[CHOOSE i \in C : \A j \in C : j <= i]

InternalHooksSurvive ==
  Installed /\ fresh =>
    \A d \in activated : \A n \in Claimed(d, bin) :
      LET a == AllSymbols(bin)[n]
      IN  \/ HookAt(a).by = LastClaimant(a)
          \/ \E r \in Registered \cap DOMAIN bin.symbols :
               bin.symbols[r] = a /\ HookAt(a).by = "stub"
          \/ n \in DOMAIN bin.imports

\* An installation to another emulator starts with no detector activated,
\* so that its own binary decides which are (registry.go:186-192).
DetectorsMatchBinary ==
  Installed /\ fresh =>
    activated = {d \in Detector : Matches(d, bin)}

\* While the jni detector counts as activated, the environment JNI calls are
\* answered from is the one of the emulator the registry works for
\* (registry.go:187-194, jni.go:37-47).
JniEnvOfCurrent ==
  Installed /\ Jni \in activated => jniEnv = regEmu

\* "Search in symbols (includes both internal functions and PLT imports)"
\* (cocos.go:127, 201), "Install from both imports and symbols"
\* (string.go:63): what a detector claims is hooked by a detector or a stub,
\* imports included.
ClaimedImportsHooked ==
  Installed /\ fresh =>
    \A d \in activated : \A n \in Claimed(d, bin) :
      HookAt(AllSymbols(bin)[n]).by # "fallback"

-----------------------------------------------------------------------------
(***************************************************************************)
(* The inductive invariant behind ImportsCovered and JniEnvOfCurrent: what *)
(* a stub pass has seen stays hooked by a stub.                            *)
(***************************************************************************)
StubbedFor(n) ==
  n \in Registered /\ bin.imports[n] # 0 =>
    /\ bin.imports[n] \in seen
    /\ HookAt(bin.imports[n]) = [by |-> "stub", name |-> n]

StubPasses ==
  phase \in {"symbols", "fallbacks"} =>
    \A n \in DOMAIN bin.imports : StubbedFor(n)

RegistryInv ==
  /\ installs > 0 => regEmu \in Emulator
  /\ phase # "idle" => installs > 0
  /\ phase = "detectors" => seen = {}
  /\ \A a \in seen : HookAt(a) # NoHook
  /\ StubPasses
  /\ ImportsCovered
  /\ Jni \in activated => jniEnv = regEmu

(***************************************************************************)
(* And behind DetectorsMatchBinary and InternalHooksSurvive, for an        *)
(* installation that reset the detectors: of those passed so far the ones  *)
(* that match are activated, and the last one that claims an address has   *)
(* its hook there, unless the address is an import's or a stub's.          *)
(***************************************************************************)
Passed == 1..(det - 1)

HookKept(a) ==
  \/ \E j \in Passed : /\ ClaimsAddr(j, a)
                       /\ \A k \in Passed : ClaimsAddr(k, a) => k <= j
                       /\ HookAt(a).by = Detectors[j]
  \/ \E r \in Registered \cap DOMAIN bin.symbols :
       bin.symbols[r] = a /\ HookAt(a).by = "stub"
  \/ \E m \in DOMAIN bin.imports : bin.imports[m] = a

DetectorInv ==
  /\ installs > 0 /\ phase # "detectors" => det = Len(Detectors) + 1
  /\ installs > 0 /\ fresh =>
       /\ activated = {Detectors[i] : i \in {j \in Passed :
                                             Matches(Detectors[j], bin)}}
       /\ \A i \in Passed : \A a \in Addr : ClaimsAddr(i, a) => HookKept(a)
=============================================================================
