--------------------------- MODULE RegistryProofs ---------------------------
(***************************************************************************)
(* Proofs about Registry, for every set of emulators, binaries, detectors  *)
(* and registered names: the type invariant, the coverage of the imports   *)
(* and the agreement of the JNI environment with the registry.             *)
(***************************************************************************)
EXTENDS Registry, TLAPS

Inv == TypeOK /\ RegistryInv

AddrHooks == [Addr -> Hook \cup {NoHook}]

\* What hooking the names in S leaves: one of them at each of their
\* addresses, and everything else as it was.
LEMMA HookAllEffect ==
  ASSUME NEW by \in Detector \cup {"stub", "fallback"}, NEW m, NEW S,
         S \subseteq DOMAIN m, S \subseteq Name,
         regEmu \in Emulator,
         hooks \in [Emulator -> AddrHooks],
         \A n \in S : m[n] \in Addr,
         HookAll(by, S, m)
  PROVE  /\ hooks' \in [Emulator -> AddrHooks]
         /\ \A n \in S : \E w \in S : /\ m[w] = m[n]
                                      /\ hooks'[regEmu][m[n]] = [by |-> by, name |-> w]
         /\ \A a \in Addr : (\A n \in S : m[n] # a) =>
                               hooks'[regEmu][a] = hooks[regEmu][a]
<1> DEFINE At(W, a) == IF \E w \in W : m[w] = a
                         THEN [by |-> by, name |-> CHOOSE w \in W : m[w] = a]
                         ELSE hooks[regEmu][a]
<1>1. PICK W \in Winners(S, m) :
        hooks' = [hooks EXCEPT ![regEmu] = [a \in Addr |-> At(W, a)]]
  BY DEF HookAll
<1>2. W \subseteq S /\ \A n \in S : \E w \in W : m[w] = m[n]
  BY DEF Winners
<1>3. hooks'[regEmu] = [a \in Addr |-> At(W, a)]
  BY <1>1
<1>4. ASSUME NEW a \in Addr
      PROVE  At(W, a) \in Hook \cup {NoHook}
  <2>1. CASE \E w \in W : m[w] = a
    <3>1. (CHOOSE w \in W : m[w] = a) \in Name
      BY <2>1, <1>2
    <3> QED BY <2>1, <3>1 DEF Hook
  <2>2. CASE ~ \E w \in W : m[w] = a
    BY <2>2 DEF AddrHooks
  <2> QED BY <2>1, <2>2
<1>5. [a \in Addr |-> At(W, a)] \in AddrHooks
  BY <1>4 DEF AddrHooks
<1>6. hooks' \in [Emulator -> AddrHooks]
  <2> HIDE DEF At
  <2> QED BY <1>1, <1>5
<1>7. ASSUME NEW n \in S
      PROVE  \E w \in S : /\ m[w] = m[n]
                          /\ hooks'[regEmu][m[n]] = [by |-> by, name |-> w]
  <2> DEFINE v == CHOOSE w \in W : m[w] = m[n]
  <2>1. v \in W /\ m[v] = m[n]
    BY <1>2
  <2>2. At(W, m[n]) = [by |-> by, name |-> v]
    BY <1>2
  <2>3. hooks'[regEmu][m[n]] = [by |-> by, name |-> v]
    <3> HIDE DEF At, v
    <3> QED BY <1>3, <2>2
  <2> HIDE DEF v
  <2> QED BY <1>2, <2>1, <2>3
<1>8. ASSUME NEW a \in Addr, \A n \in S : m[n] # a
      PROVE  hooks'[regEmu][a] = hooks[regEmu][a]
  <2>1. At(W, a) = hooks[regEmu][a]
    BY <1>2, <1>8
  <2> HIDE DEF At
  <2> QED BY <1>3, <2>1
<1> QED BY <1>6, <1>7, <1>8

\* What the loader guarantees of the binary being installed.
LEMMA BinaryFacts ==
  ASSUME TypeOK
  PROVE  /\ DOMAIN bin.imports \subseteq Name
         /\ DOMAIN bin.symbols \subseteq Name
         /\ \A n \in DOMAIN bin.imports : bin.imports[n] \in Addr
         /\ \A n \in DOMAIN bin.symbols : bin.symbols[n] \in Addr
         /\ DOMAIN AllSymbols(bin) = DOMAIN bin.imports \cup DOMAIN bin.symbols
         /\ \A n \in DOMAIN AllSymbols(bin) : AllSymbols(bin)[n] \in Addr
         /\ \A n, k \in DOMAIN bin.imports :
              bin.imports[n] = bin.imports[k] => n = k
         /\ \A n \in DOMAIN bin.imports, k \in DOMAIN bin.symbols :
              bin.symbols[k] = bin.imports[n] => n = k
<1>1. IsELFInfo(bin)
  BY RegistryAssumption DEF TypeOK
<1>2. /\ DOMAIN AllSymbols(bin) = DOMAIN bin.imports \cup DOMAIN bin.symbols
      /\ \A n \in DOMAIN AllSymbols(bin) :
           AllSymbols(bin)[n] = bin.imports[n] \/ AllSymbols(bin)[n] = bin.symbols[n]
  BY DEF AllSymbols
<1>3. \A n \in DOMAIN AllSymbols(bin) : AllSymbols(bin)[n] \in Addr
  BY <1>1 DEF AllSymbols, IsELFInfo
<1> QED BY <1>1, <1>2, <1>3 DEF IsELFInfo

LEMMA InitInv == Init => Inv
<1> SUFFICES ASSUME Init PROVE Inv
  OBVIOUS
<1> USE DEF Init
<1>1. /\ installs = 0 /\ phase = "idle" /\ activated = {} /\ seen = {}
      /\ regEmu = NoEmu /\ jniEnv = NoEmu
  OBVIOUS
<1>2. 1 \in 1..(Len(Detectors) + 1)
  BY RegistryAssumption
<1>3. installs \in 0..MaxInstalls
  BY RegistryAssumption
<1>4. TypeOK
  BY <1>2, <1>3 DEF TypeOK
<1>5. RegistryInv
  BY <1>1 DEF RegistryInv, StubPasses, ImportsCovered, Installed
<1> QED BY <1>4, <1>5 DEF Inv

-----------------------------------------------------------------------------
\* What a stub pass leaves: the addresses it has seen are hooked, what was
\* seen before is untouched, a registered name not seen before has its stub.
LEMMA InstallStubsEffect ==
  ASSUME NEW m, NEW S,
         TypeOK, regEmu \in Emulator,
         \A a \in seen : HookAt(a) # NoHook,
         S \subseteq DOMAIN m, S \subseteq Name,
         \A n \in S : m[n] \in Addr,
         InstallStubs(S, m)
  PROVE  /\ hooks' \in [Emulator -> AddrHooks]
         /\ seen \subseteq seen' /\ seen' \subseteq Addr
         /\ \A a \in seen : hooks'[regEmu][a] = hooks[regEmu][a]
         /\ \A a \in seen' : hooks'[regEmu][a] # NoHook
         /\ \A n \in S \cap Registered : m[n] # 0 => m[n] \in seen'
         /\ \A n \in S \cap Registered : m[n] # 0 /\ m[n] \notin seen =>
              \E w \in S : /\ m[w] = m[n]
                           /\ hooks'[regEmu][m[n]] = [by |-> "stub", name |-> w]
<1> DEFINE wanted == {n \in S \cap Registered : m[n] # 0 /\ m[n] \notin seen}
<1>1. HookAll("stub", wanted, m) /\ seen' = seen \cup {m[n] : n \in wanted}
  BY DEF InstallStubs
<1>2. hooks \in [Emulator -> AddrHooks] /\ seen \subseteq Addr
  BY DEF TypeOK, AddrHooks
<1>3. wanted \subseteq S /\ \A n \in wanted : m[n] \notin seen
  OBVIOUS
<1>4. \A n \in S \cap Registered : m[n] # 0 /\ m[n] \notin seen => n \in wanted
  OBVIOUS
<1> HIDE DEF wanted
<1>5. /\ hooks' \in [Emulator -> AddrHooks]
      /\ \A n \in wanted : \E w \in wanted :
           m[w] = m[n] /\ hooks'[regEmu][m[n]] = [by |-> "stub", name |-> w]
      /\ \A a \in Addr : (\A n \in wanted : m[n] # a) =>
                            hooks'[regEmu][a] = hooks[regEmu][a]
  <2>1. wanted \subseteq DOMAIN m /\ wanted \subseteq Name /\ \A n \in wanted : m[n] \in Addr
    BY <1>3
  <2>2. "stub" \in Detector \cup {"stub", "fallback"}
    OBVIOUS
  <2> QED BY <1>1, <1>2, <2>1, <2>2, HookAllEffect
<1>6. \A a \in seen : hooks'[regEmu][a] = hooks[regEmu][a]
  BY <1>2, <1>3, <1>5
<1>7. seen \subseteq seen' /\ seen' \subseteq Addr
  BY <1>1, <1>2, <1>3
<1>8. ASSUME NEW a \in seen' PROVE hooks'[regEmu][a] # NoHook
  <2>1. CASE a \in seen
    BY <2>1, <1>6 DEF HookAt
  <2>2. CASE a \notin seen
    <3>1. PICK n \in wanted : a = m[n]
      BY <1>1, <2>2
    <3>2. PICK w \in wanted : hooks'[regEmu][a] = [by |-> "stub", name |-> w]
      BY <3>1, <1>5
    <3> QED BY <3>2 DEF NoHook
  <2> QED BY <2>1, <2>2
<1>9. \A n \in S \cap Registered : m[n] # 0 => m[n] \in seen'
  BY <1>1, <1>4
<1>10. \A n \in S \cap Registered : m[n] # 0 /\ m[n] \notin seen =>
         \E w \in S : /\ m[w] = m[n]
                      /\ hooks'[regEmu][m[n]] = [by |-> "stub", name |-> w]
  BY <1>3, <1>4, <1>5
<1> QED BY <1>5, <1>6, <1>7, <1>8, <1>9, <1>10

-----------------------------------------------------------------------------
LEMMA BeginKeeps ==
  ASSUME NEW e \in Emulator, NEW b \in Binary, Inv, BeginInstall(e, b)
  PROVE  Inv'
<1> USE DEF BeginInstall
<1>1. TypeOK
  BY DEF Inv
<1>2. installs' \in 0..MaxInstalls /\ installs' > 0
  BY <1>1, RegistryAssumption DEF TypeOK
<1>3. det' \in 1..(Len(Detectors) + 1)
  BY RegistryAssumption
<1>4. fresh' \in BOOLEAN /\ activated' \subseteq Detector
  BY <1>1 DEF TypeOK
<1>5. TypeOK'
  BY <1>1, <1>2, <1>3, <1>4 DEF TypeOK
<1>6. Jni \in activated' => jniEnv' = regEmu'
  BY DEF Inv, RegistryInv
<1>7. RegistryInv'
  BY <1>2, <1>6 DEF RegistryInv, StubPasses, ImportsCovered, Installed
<1> QED BY <1>5, <1>7 DEF Inv

LEMMA SkipKeeps ==
  ASSUME Inv, SkipDetector
  PROVE  Inv'
<1> USE DEF SkipDetector
<1>1. TypeOK /\ RegistryInv
  BY DEF Inv
<1>2. det' \in 1..(Len(Detectors) + 1)
  BY <1>1, RegistryAssumption DEF TypeOK
<1>3. TypeOK'
  BY <1>1, <1>2 DEF TypeOK
<1>4. RegistryInv'
  BY <1>1 DEF RegistryInv, StubPasses, ImportsCovered, Installed, HookAt
<1> QED BY <1>3, <1>4 DEF Inv

LEMMA ActivateKeeps ==
  ASSUME Inv, ActivateDetector
  PROVE  Inv'
<1> USE DEF ActivateDetector
<1>1. TypeOK /\ RegistryInv
  BY DEF Inv
<1>2. regEmu \in Emulator /\ seen = {}
  BY <1>1 DEF RegistryInv
<1>3. det' \in 1..(Len(Detectors) + 1)
  BY <1>1, RegistryAssumption DEF TypeOK
<1>4. NextDetector \in Detector
  BY <1>1, RegistryAssumption DEF NextDetector, Detector, TypeOK
<1>5. hooks' \in [Emulator -> AddrHooks]
  <2> DEFINE S == Claimed(NextDetector, bin)
  <2>1. S \subseteq DOMAIN AllSymbols(bin)
    BY DEF Claimed
  <2>2. DOMAIN AllSymbols(bin) \subseteq Name /\ \A n \in DOMAIN AllSymbols(bin) : AllSymbols(bin)[n] \in Addr
    BY <1>1, BinaryFacts
  <2>3. hooks \in [Emulator -> AddrHooks]
    BY <1>1 DEF TypeOK, AddrHooks
  <2>4. HookAll(NextDetector, S, AllSymbols(bin))
    OBVIOUS
  <2> HIDE DEF S
  <2> QED BY <1>2, <1>4, <2>1, <2>2, <2>3, <2>4, HookAllEffect
<1>6. activated' \subseteq Detector /\ jniEnv' \in Emulator \cup {NoEmu}
  BY <1>1, <1>4 DEF TypeOK
<1>7. TypeOK'
  BY <1>1, <1>3, <1>5, <1>6 DEF TypeOK, AddrHooks
<1>8. Jni \in activated' => jniEnv' = regEmu'
  BY <1>1 DEF RegistryInv
<1>9. RegistryInv'
  BY <1>1, <1>2, <1>8 DEF RegistryInv, StubPasses, ImportsCovered, Installed
<1> QED BY <1>7, <1>9 DEF Inv

LEMMA StubImportsKeeps ==
  ASSUME Inv, StubImports
  PROVE  Inv'
<1> USE DEF StubImports
<1> DEFINE S == DOMAIN bin.imports
<1>1. TypeOK /\ RegistryInv
  BY DEF Inv
<1>2. regEmu \in Emulator /\ seen = {} /\ \A a \in seen : HookAt(a) # NoHook
  BY <1>1 DEF RegistryInv
<1>3. /\ S \subseteq Name /\ \A n \in S : bin.imports[n] \in Addr
      /\ \A n, k \in S : bin.imports[n] = bin.imports[k] => n = k
  BY <1>1, BinaryFacts
<1>4. /\ hooks' \in [Emulator -> AddrHooks]
      /\ seen' \subseteq Addr
      /\ \A a \in seen' : hooks'[regEmu][a] # NoHook
      /\ \A n \in S \cap Registered : bin.imports[n] # 0 => bin.imports[n] \in seen'
      /\ \A n \in S \cap Registered : bin.imports[n] # 0 /\ bin.imports[n] \notin seen =>
           \E w \in S : /\ bin.imports[w] = bin.imports[n]
                        /\ hooks'[regEmu][bin.imports[n]] = [by |-> "stub", name |-> w]
  <2>1. InstallStubs(S, bin.imports) /\ S \subseteq DOMAIN bin.imports
    OBVIOUS
  <2>2. S \subseteq Name /\ \A n \in S : bin.imports[n] \in Addr
    BY <1>3
  <2> HIDE DEF S, StubImports
  <2> QED BY <1>1, <1>2, <2>1, <2>2, InstallStubsEffect
<1>5. TypeOK'
  BY <1>1, <1>4 DEF TypeOK, AddrHooks
<1>6. \A n \in S : StubbedFor(n)'
  BY <1>2, <1>3, <1>4 DEF StubbedFor, HookAt
<1>7. \A a \in seen' : HookAt(a)' # NoHook
  BY <1>4 DEF HookAt, NoHook
<1>8. RegistryInv'
  BY <1>1, <1>6, <1>7 DEF RegistryInv, StubPasses, ImportsCovered, Installed
<1> QED BY <1>5, <1>8 DEF Inv

LEMMA StubSymbolsKeeps ==
  ASSUME Inv, StubSymbols
  PROVE  Inv'
<1> USE DEF StubSymbols
<1> DEFINE S == DOMAIN bin.symbols
<1>1. TypeOK /\ RegistryInv
  BY DEF Inv
<1>2. regEmu \in Emulator /\ \A a \in seen : HookAt(a) # NoHook
  BY <1>1 DEF RegistryInv
<1>3. S \subseteq Name /\ \A n \in S : bin.symbols[n] \in Addr
  BY <1>1, BinaryFacts
<1>4. /\ hooks' \in [Emulator -> AddrHooks]
      /\ seen \subseteq seen' /\ seen' \subseteq Addr
      /\ \A a \in seen : hooks'[regEmu][a] = hooks[regEmu][a]
      /\ \A a \in seen' : hooks'[regEmu][a] # NoHook
  <2>1. InstallStubs(S, bin.symbols) /\ S \subseteq DOMAIN bin.symbols
    OBVIOUS
  <2> HIDE DEF S
  <2> QED BY <1>1, <1>2, <1>3, <2>1, InstallStubsEffect
<1>5. TypeOK'
  BY <1>1, <1>4 DEF TypeOK, AddrHooks
<1>6. \A n \in DOMAIN bin.imports : StubbedFor(n)'
  BY <1>1, <1>4 DEF RegistryInv, StubPasses, StubbedFor, HookAt
<1>7. \A a \in seen' : HookAt(a)' # NoHook
  BY <1>4 DEF HookAt, NoHook
<1>8. RegistryInv'
  BY <1>1, <1>6, <1>7 DEF RegistryInv, StubPasses, ImportsCovered, Installed
<1> QED BY <1>5, <1>8 DEF Inv

\* What hooking fallbacks at the addresses of S leaves, as HookAllEffect.
LEMMA FallbackHooks ==
  ASSUME NEW f, NEW N,
         TypeOK, regEmu \in Emulator,
         N \subseteq DOMAIN f, N \subseteq Name,
         \A n \in N : f[n] \in Addr,
         HookAll("fallback", N, f)
  PROVE  /\ hooks' \in [Emulator -> AddrHooks]
         /\ \A n \in N : hooks'[regEmu][f[n]] # NoHook
         /\ \A a \in Addr : (\A n \in N : f[n] # a) =>
                               hooks'[regEmu][a] = hooks[regEmu][a]
<1>0. N \subseteq DOMAIN f /\ N \subseteq Name /\ \A n \in N : f[n] \in Addr
  OBVIOUS
<1>1. "fallback" \in Detector \cup {"stub", "fallback"}
  OBVIOUS
<1>2. hooks \in [Emulator -> AddrHooks]
  BY DEF TypeOK, AddrHooks
<1>3. /\ hooks' \in [Emulator -> AddrHooks]
      /\ \A n \in N : \E w \in N :
           f[w] = f[n] /\ hooks'[regEmu][f[n]] = [by |-> "fallback", name |-> w]
      /\ \A a \in Addr : (\A n \in N : f[n] # a) =>
                            hooks'[regEmu][a] = hooks[regEmu][a]
  BY <1>0, <1>1, <1>2, HookAllEffect, SMTT(30)
<1>4. ASSUME NEW n \in N PROVE hooks'[regEmu][f[n]] # NoHook
  <2>1. PICK w \in N : hooks'[regEmu][f[n]] = [by |-> "fallback", name |-> w]
    BY <1>3
  <2> QED BY <2>1 DEF NoHook
<1> QED BY <1>3, <1>4

LEMMA FallbackKeeps ==
  ASSUME Inv, InstallFallback
  PROVE  Inv'
<1> USE DEF InstallFallback
<1> DEFINE m == bin.imports
<1>1. TypeOK /\ RegistryInv
  BY DEF Inv
<1>2. /\ regEmu \in Emulator
      /\ \A a \in seen : HookAt(a) # NoHook
      /\ \A n \in DOMAIN m : StubbedFor(n)
  BY <1>1 DEF RegistryInv, StubPasses
<1>3. DOMAIN m \subseteq Name /\ \A n \in DOMAIN m : m[n] \in Addr
  BY <1>1, BinaryFacts
<1>4. hooks \in [Emulator -> AddrHooks] /\ seen \subseteq Addr
  BY <1>1 DEF TypeOK, AddrHooks
<1>5. /\ Unstubbed \subseteq DOMAIN m
      /\ \A n \in Unstubbed : m[n] \notin seen
      /\ \A n \in DOMAIN m : m[n] # 0 /\ m[n] \notin seen => n \in Unstubbed
  BY DEF Unstubbed
<1>6. /\ hooks' \in [Emulator -> AddrHooks]
      /\ seen' \subseteq Addr
      /\ \A a \in seen : hooks'[regEmu][a] = hooks[regEmu][a]
      /\ \A a \in seen' : hooks'[regEmu][a] # NoHook
      /\ InstallFallbacks => \A n \in DOMAIN m : m[n] # 0 => m[n] \in seen'
  <2>1. CASE ~InstallFallbacks
    BY <2>1, <1>2, <1>4 DEF HookAt
  <2>2. CASE InstallFallbacks
    <3> DEFINE U == Unstubbed
    <3>1. HookAll("fallback", U, bin.imports) /\ seen' = seen \cup {m[n] : n \in U}
      BY <2>2
    <3>2. U \subseteq DOMAIN bin.imports /\ U \subseteq Name
      BY <1>3, <1>5
    <3>3. \A n \in U : bin.imports[n] \in Addr /\ bin.imports[n] \notin seen
      BY <1>3, <1>5
    <3>4. /\ hooks' \in [Emulator -> AddrHooks]
          /\ \A n \in U : hooks'[regEmu][bin.imports[n]] # NoHook
          /\ \A a \in Addr : (\A n \in U : bin.imports[n] # a) =>
                                hooks'[regEmu][a] = hooks[regEmu][a]
      <4> HIDE DEF U, InstallFallback
      <4> QED BY <1>1, <1>2, <3>1, <3>2, <3>3, FallbackHooks
    <3>5. \A n \in DOMAIN m : m[n] # 0 => m[n] \in seen'
      BY <1>5, <3>1
    <3> HIDE DEF U
    <3>6. seen' \subseteq Addr
      BY <1>4, <3>1, <3>3
    <3>7. \A a \in seen : hooks'[regEmu][a] = hooks[regEmu][a]
      BY <1>4, <3>3, <3>4
    <3>8. \A a \in seen' : hooks'[regEmu][a] # NoHook
      BY <1>2, <3>1, <3>4, <3>7 DEF HookAt
    <3> QED BY <3>4, <3>5, <3>6, <3>7, <3>8
  <2> QED BY <2>1, <2>2
<1>7. TypeOK'
  BY <1>1, <1>6 DEF TypeOK, AddrHooks
<1>8. \A a \in seen' : HookAt(a)' # NoHook
  BY <1>6 DEF HookAt, NoHook
<1>9. ImportsCovered'
  <2>1. ASSUME NEW n \in DOMAIN m, m[n] # 0, InstallFallbacks
        PROVE  hooks'[regEmu][m[n]] # NoHook
    BY <1>6, <2>1
  <2>2. ASSUME NEW n \in DOMAIN m, m[n] # 0, n \in Registered
        PROVE  hooks'[regEmu][m[n]] = [by |-> "stub", name |-> n]
    BY <1>2, <1>6, <2>2 DEF StubbedFor, HookAt
  <2> QED BY <2>1, <2>2 DEF ImportsCovered, HookAt, NoHook
<1>10. RegistryInv'
  BY <1>1, <1>8, <1>9 DEF RegistryInv, StubPasses
<1> QED BY <1>7, <1>10 DEF Inv

LEMMA NextInv == Inv /\ [Next]_vars => Inv'
<1> SUFFICES ASSUME Inv, [Next]_vars PROVE Inv'
  OBVIOUS
<1>1. CASE UNCHANGED vars
  BY <1>1 DEF vars, Inv, TypeOK, RegistryInv, StubPasses, StubbedFor,
              ImportsCovered, Installed, HookAt
<1>2. CASE Next
  BY <1>1, <1>2, BeginKeeps, SkipKeeps, ActivateKeeps, StubImportsKeeps,
     StubSymbolsKeeps, FallbackKeeps DEF Next, Ended
<1> QED BY <1>1, <1>2

LEMMA InvHolds == Spec => []Inv
BY InitInv, NextInv, PTL DEF Spec

-----------------------------------------------------------------------------
\* The detectors: which are activated, and whose hook stays at an address.
DInv == Inv /\ DetectorInv

\* Detectors are numbered by naturals, and are distinct.
LEMMA DetectorNumbers ==
  ASSUME TypeOK
  PROVE  /\ Len(Detectors) \in Nat /\ det \in Nat
         /\ 1 <= det /\ det <= Len(Detectors) + 1
         /\ \A i, j \in 1..Len(Detectors) :
              Detectors[i] = Detectors[j] => i = j
BY RegistryAssumption DEF TypeOK

\* Hooks of later passes leave an address to what they found there, or have
\* one of the two reasons to take it.
LEMMA KeptThroughPass ==
  ASSUME NEW a, HookKept(a),
         regEmu' = regEmu, bin' = bin, det' = det,
         \/ hooks'[regEmu][a] = hooks[regEmu][a]
         \/ \E r \in Registered \cap DOMAIN bin.symbols :
              bin.symbols[r] = a /\ hooks'[regEmu][a].by = "stub"
         \/ \E m \in DOMAIN bin.imports : bin.imports[m] = a
  PROVE  HookKept(a)'
<1>1. CASE \E m \in DOMAIN bin.imports : bin.imports[m] = a
  BY <1>1 DEF HookKept
<1>2. CASE \E r \in Registered \cap DOMAIN bin.symbols :
             bin.symbols[r] = a /\ hooks'[regEmu][a].by = "stub"
  BY <1>2 DEF HookKept, HookAt
<1>3. CASE hooks'[regEmu][a] = hooks[regEmu][a]
  BY <1>3 DEF HookKept, HookAt, Passed, ClaimsAddr, Matches, Claimed, AllSymbols
<1> QED BY <1>1, <1>2, <1>3

\* What a stub pass leaves at any address.
LEMMA StubPassAt ==
  ASSUME NEW m, NEW S,
         TypeOK, regEmu \in Emulator,
         S \subseteq DOMAIN m, S \subseteq Name,
         \A n \in S : m[n] \in Addr,
         InstallStubs(S, m)
  PROVE  \A a \in Addr : \/ hooks'[regEmu][a] = hooks[regEmu][a]
                        \/ \E w \in S \cap Registered :
                             m[w] = a /\ hooks'[regEmu][a].by = "stub"
<1> DEFINE wanted == {n \in S \cap Registered : m[n] # 0 /\ m[n] \notin seen}
<1>1. HookAll("stub", wanted, m)
  BY DEF InstallStubs
<1>2. wanted \subseteq S \cap Registered
  OBVIOUS
<1> HIDE DEF wanted
<1>3. /\ wanted \subseteq DOMAIN m /\ wanted \subseteq Name
      /\ \A n \in wanted : m[n] \in Addr
      /\ hooks \in [Emulator -> AddrHooks]
  BY <1>2 DEF TypeOK, AddrHooks
<1>4. "stub" \in Detector \cup {"stub", "fallback"}
  OBVIOUS
<1>5. /\ hooks' \in [Emulator -> AddrHooks]
      /\ \A n \in wanted : \E w \in wanted :
           m[w] = m[n] /\ hooks'[regEmu][m[n]] = [by |-> "stub", name |-> w]
      /\ \A a \in Addr : (\A n \in wanted : m[n] # a) =>
                            hooks'[regEmu][a] = hooks[regEmu][a]
  BY <1>1, <1>3, <1>4, HookAllEffect
<1>6. ASSUME NEW a \in Addr, NEW n \in wanted, m[n] = a
      PROVE  \E w \in S \cap Registered : m[w] = a /\ hooks'[regEmu][a].by = "stub"
  <2>1. PICK w \in wanted : m[w] = a /\ hooks'[regEmu][a] = [by |-> "stub", name |-> w]
    BY <1>5, <1>6
  <2> QED BY <1>2, <2>1
<1> QED BY <1>5, <1>6

\* A step that leaves the detectors alone keeps their invariant, if it keeps
\* the hooks they are about.
LEMMA PassKeepsDetectors ==
  ASSUME DInv, phase # "idle", phase' # "detectors",
         phase = "detectors" => det = Len(Detectors) + 1,
         UNCHANGED <<regEmu, bin, det, activated, fresh, installs>>,
         \A a \in Addr :
           \/ hooks'[regEmu][a] = hooks[regEmu][a]
           \/ \E r \in Registered \cap DOMAIN bin.symbols :
                bin.symbols[r] = a /\ hooks'[regEmu][a].by = "stub"
           \/ \E m \in DOMAIN bin.imports : bin.imports[m] = a
  PROVE  DetectorInv'
<1>1. DetectorInv
  BY DEF DInv
<1>2. installs' > 0 => det' = Len(Detectors) + 1
  BY <1>1 DEF DetectorInv
<1>3. ASSUME installs' > 0 /\ fresh'
      PROVE  /\ activated' = {Detectors[i] : i \in {j \in Passed' :
                                                   Matches(Detectors[j], bin')}}
             /\ \A i \in Passed' : \A a \in Addr : ClaimsAddr(i, a)' => HookKept(a)'
  <2>1. activated' = {Detectors[i] : i \in {j \in Passed' :
                                           Matches(Detectors[j], bin')}}
    BY <1>1, <1>3 DEF DetectorInv, Passed
  <2>2. ASSUME NEW i \in Passed', NEW a \in Addr, ClaimsAddr(i, a)'
        PROVE  HookKept(a)'
    <3>1. i \in Passed
      BY DEF Passed
    <3>2. ClaimsAddr(i, a)
      BY <2>2 DEF ClaimsAddr, Matches, Claimed, AllSymbols
    <3>3. HookKept(a)
      BY <1>1, <1>3, <3>1, <3>2 DEF DetectorInv
    <3> QED BY <3>3, KeptThroughPass
  <2> QED BY <2>1, <2>2
<1> QED BY <1>2, <1>3 DEF DetectorInv

LEMMA BeginSetsDetectors ==
  ASSUME NEW e \in Emulator, NEW b \in Binary, DInv, BeginInstall(e, b)
  PROVE  DetectorInv'
<1> USE DEF BeginInstall
<1>1. Passed' = {}
  BY DEF Passed
<1>2. fresh' => activated' = {}
  OBVIOUS
<1>3. phase' = "detectors"
  OBVIOUS
<1> QED BY <1>1, <1>2, <1>3, Zenon DEF DetectorInv

\* Whose hooks are at the addresses of the names in N after hooking them.
LEMMA HookedBy ==
  ASSUME NEW by \in Detector \cup {"stub", "fallback"}, NEW f, NEW N,
         N \subseteq DOMAIN f, N \subseteq Name,
         regEmu \in Emulator,
         hooks \in [Emulator -> AddrHooks],
         \A n \in N : f[n] \in Addr,
         HookAll(by, N, f)
  PROVE  /\ \A n \in N : hooks'[regEmu][f[n]].by = by
         /\ \A a \in Addr : (\A n \in N : f[n] # a) =>
                               hooks'[regEmu][a] = hooks[regEmu][a]
<1>1. /\ \A n \in N : \E w \in N :
           f[w] = f[n] /\ hooks'[regEmu][f[n]] = [by |-> by, name |-> w]
      /\ \A a \in Addr : (\A n \in N : f[n] # a) =>
                            hooks'[regEmu][a] = hooks[regEmu][a]
  BY HookAllEffect
<1>2. ASSUME NEW n \in N PROVE hooks'[regEmu][f[n]].by = by
  <2>1. PICK w \in N : hooks'[regEmu][f[n]] = [by |-> by, name |-> w]
    BY <1>1
  <2> QED BY <2>1
<1> QED BY <1>1, <1>2

\* A detector that does not match claims nothing.
LEMMA SkipKeepsDetectors ==
  ASSUME DInv, SkipDetector
  PROVE  DetectorInv'
<1> USE DEF SkipDetector
<1>1. TypeOK /\ DetectorInv /\ phase' = "detectors"
  BY DEF DInv, Inv
<1>2. /\ det \in 1..Len(Detectors) /\ det' = det + 1
      /\ Passed' = Passed \cup {det} /\ det \notin Passed
      /\ Passed \subseteq 1..Len(Detectors)
  BY <1>1, DetectorNumbers DEF Passed
<1>3. ASSUME installs' > 0 /\ fresh'
      PROVE  /\ activated' = {Detectors[i] : i \in {j \in Passed' :
                                                   Matches(Detectors[j], bin')}}
             /\ \A i \in Passed' : \A a \in Addr : ClaimsAddr(i, a)' => HookKept(a)'
  <2>1. activated = {Detectors[i] : i \in {j \in Passed : Matches(Detectors[j], bin)}}
    BY <1>1, <1>3 DEF DetectorInv
  <2>2. \A i \in Passed : Detectors[i] # Detectors[det]
    BY <1>1, <1>2, DetectorNumbers
  <2>3. Detectors[det] \notin activated
    BY <2>1, <2>2
  <2>4. ~Matches(Detectors[det], bin)
    BY <2>3 DEF NextDetector
  <2>5. activated' = {Detectors[i] : i \in {j \in Passed' :
                                           Matches(Detectors[j], bin')}}
    BY <1>2, <2>1, <2>4
  <2>6. ASSUME NEW i \in Passed', NEW a \in Addr, ClaimsAddr(i, a)'
        PROVE  HookKept(a)'
    <3>1. ClaimsAddr(i, a) /\ i \in Passed
      BY <1>2, <2>4, <2>6 DEF ClaimsAddr, Matches, Claimed, AllSymbols
    <3>2. HookKept(a)
      BY <1>1, <1>3, <3>1 DEF DetectorInv
    <3>3. CASE \E j \in Passed : /\ ClaimsAddr(j, a)
                                 /\ \A k \in Passed : ClaimsAddr(k, a) => k <= j
                                 /\ HookAt(a).by = Detectors[j]
      <4>1. PICK j \in Passed : /\ ClaimsAddr(j, a)
                                /\ \A k \in Passed : ClaimsAddr(k, a) => k <= j
                                /\ HookAt(a).by = Detectors[j]
        BY <3>3
      <4>2. \A k : ClaimsAddr(k, a)' <=> ClaimsAddr(k, a)
        BY DEF ClaimsAddr, Matches, Claimed, AllSymbols
      <4>3. ~ClaimsAddr(det, a)
        BY <2>4 DEF ClaimsAddr
      <4>4. HookAt(a)' = HookAt(a)
        BY DEF HookAt
      <4>5. \A k \in Passed' : ClaimsAddr(k, a)' => k <= j
        BY <1>2, <4>1, <4>2, <4>3
      <4> QED BY <1>2, <4>1, <4>2, <4>4, <4>5 DEF HookKept
    <3>4. CASE \/ \E r \in Registered \cap DOMAIN bin.symbols :
                    bin.symbols[r] = a /\ HookAt(a).by = "stub"
               \/ \E m \in DOMAIN bin.imports : bin.imports[m] = a
      BY <3>4 DEF HookKept, HookAt
    <3> QED BY <3>2, <3>3, <3>4 DEF HookKept
  <2> QED BY <2>5, <2>6
<1> QED BY <1>1, <1>3 DEF DetectorInv

\* An activated detector takes the addresses it claims, and is the last one
\* so far to claim them; those of others it leaves.
LEMMA ActivateKeepsDetectors ==
  ASSUME DInv, ActivateDetector
  PROVE  DetectorInv'
<1> USE DEF ActivateDetector
<1>1. TypeOK /\ DetectorInv /\ RegistryInv /\ phase' = "detectors"
  BY DEF DInv, Inv
<1>2. /\ det \in 1..Len(Detectors) /\ det' = det + 1
      /\ Passed' = Passed \cup {det} /\ \A k \in Passed : k <= det
  BY <1>1, DetectorNumbers DEF Passed
<1>3. \A k, a : ClaimsAddr(k, a)' <=> ClaimsAddr(k, a)
  BY DEF ClaimsAddr, Matches, Claimed, AllSymbols
<1>4. \A a \in Addr :
        /\ ClaimsAddr(det, a) => hooks'[regEmu][a].by = Detectors[det]
        /\ ~ClaimsAddr(det, a) => hooks'[regEmu][a] = hooks[regEmu][a]
  <2> DEFINE S == Claimed(NextDetector, bin)
             f == AllSymbols(bin)
  <2>1. S \subseteq DOMAIN f
    BY DEF Claimed
  <2>2. DOMAIN f \subseteq Name /\ \A n \in DOMAIN f : f[n] \in Addr
    BY <1>1, BinaryFacts
  <2>3. hooks \in [Emulator -> AddrHooks] /\ regEmu \in Emulator
    BY <1>1 DEF TypeOK, AddrHooks, RegistryInv
  <2>4. HookAll(NextDetector, S, f)
    OBVIOUS
  <2>5. NextDetector \in Detector \cup {"stub", "fallback"}
    BY <1>2 DEF NextDetector, Detector
  <2>6. \A a : ClaimsAddr(det, a) <=> \E n \in S : f[n] = a
    BY DEF ClaimsAddr, NextDetector
  <2>7. S \subseteq DOMAIN f /\ S \subseteq Name /\ \A n \in S : f[n] \in Addr
    BY <2>1, <2>2
  <2> HIDE DEF S, f, ActivateDetector
  <2>8. /\ \A n \in S : hooks'[regEmu][f[n]].by = NextDetector
        /\ \A a \in Addr : (\A n \in S : f[n] # a) =>
                              hooks'[regEmu][a] = hooks[regEmu][a]
    BY <2>3, <2>4, <2>5, <2>7, HookedBy
  <2> QED BY <2>6, <2>8 DEF NextDetector
<1>5. ASSUME installs' > 0 /\ fresh'
      PROVE  /\ activated' = {Detectors[i] : i \in {j \in Passed' :
                                                   Matches(Detectors[j], bin')}}
             /\ \A i \in Passed' : \A a \in Addr : ClaimsAddr(i, a)' => HookKept(a)'
  <2>1. activated = {Detectors[i] : i \in {j \in Passed : Matches(Detectors[j], bin)}}
    BY <1>1, <1>5 DEF DetectorInv
  <2>2. Matches(Detectors[det], bin') /\ activated' = activated \cup {Detectors[det]}
    BY DEF NextDetector
  <2>3. activated' = {Detectors[i] : i \in {j \in Passed' :
                                           Matches(Detectors[j], bin')}}
    BY <1>2, <2>1, <2>2
  <2>4. ASSUME NEW i \in Passed', NEW a \in Addr, ClaimsAddr(i, a)'
        PROVE  HookKept(a)'
    <3>1. CASE ClaimsAddr(det, a)
      <4>1. HookAt(a)'.by = Detectors[det]
        BY <1>4, <3>1 DEF HookAt
      <4>2. \A k \in Passed' : k <= det
        BY <1>2
      <4> QED BY <1>2, <1>3, <3>1, <4>1, <4>2 DEF HookKept
    <3>2. CASE ~ClaimsAddr(det, a)
      <4>1. ClaimsAddr(i, a) /\ i \in Passed
        BY <1>2, <1>3, <2>4, <3>2
      <4>2. HookKept(a)
        BY <1>1, <1>5, <4>1 DEF DetectorInv
      <4>3. HookAt(a)' = HookAt(a)
        BY <1>4, <3>2 DEF HookAt
      <4>4. CASE \E j \in Passed : /\ ClaimsAddr(j, a)
                                   /\ \A k \in Passed : ClaimsAddr(k, a) => k <= j
                                   /\ HookAt(a).by = Detectors[j]
        BY <1>2, <1>3, <3>2, <4>3, <4>4 DEF HookKept
      <4>5. CASE \/ \E r \in Registered \cap DOMAIN bin.symbols :
                      bin.symbols[r] = a /\ HookAt(a).by = "stub"
                 \/ \E m \in DOMAIN bin.imports : bin.imports[m] = a
        BY <4>3, <4>5 DEF HookKept
      <4> QED BY <4>2, <4>4, <4>5 DEF HookKept
    <3> QED BY <3>1, <3>2
  <2> QED BY <2>3, <2>4
<1> QED BY <1>1, <1>5 DEF DetectorInv

LEMMA StubsKeepDetectors ==
  ASSUME DInv, StubImports \/ StubSymbols
  PROVE  DetectorInv'
<1>1. TypeOK /\ RegistryInv
  BY DEF DInv, Inv
<1>2. regEmu \in Emulator
  BY <1>1 DEF RegistryInv, StubImports, StubSymbols
<1>3. IsELFInfo(bin)
  BY <1>1, RegistryAssumption DEF TypeOK
<1>4. \A a \in Addr :
        \/ hooks'[regEmu][a] = hooks[regEmu][a]
        \/ \E r \in Registered \cap DOMAIN bin.symbols :
             bin.symbols[r] = a /\ hooks'[regEmu][a].by = "stub"
        \/ \E m \in DOMAIN bin.imports : bin.imports[m] = a
  <2>1. CASE StubImports
    <3>1. InstallStubs(DOMAIN bin.imports, bin.imports)
      BY <2>1 DEF StubImports
    <3>2. DOMAIN bin.imports \subseteq Name /\ \A n \in DOMAIN bin.imports : bin.imports[n] \in Addr
      BY <1>1, BinaryFacts
    <3> QED BY <1>1, <1>2, <3>1, <3>2, StubPassAt
  <2>2. CASE StubSymbols
    <3>1. InstallStubs(DOMAIN bin.symbols, bin.symbols)
      BY <2>2 DEF StubSymbols
    <3>2. DOMAIN bin.symbols \subseteq Name /\ \A n \in DOMAIN bin.symbols : bin.symbols[n] \in Addr
      BY <1>1, BinaryFacts
    <3> QED BY <1>1, <1>2, <3>1, <3>2, StubPassAt
  <2> QED BY <2>1, <2>2
<1>5. phase = "detectors" => det = Len(Detectors) + 1
  BY <1>1, DetectorNumbers DEF StubImports, StubSymbols
<1>6. /\ phase # "idle" /\ phase' # "detectors"
      /\ UNCHANGED <<regEmu, bin, det, activated, fresh, installs>>
  BY DEF StubImports, StubSymbols
<1> QED BY <1>4, <1>5, <1>6, PassKeepsDetectors

LEMMA FallbackKeepsDetectors ==
  ASSUME DInv, InstallFallback
  PROVE  DetectorInv'
<1>1. TypeOK /\ RegistryInv
  BY DEF DInv, Inv
<1>2. regEmu \in Emulator
  BY <1>1 DEF RegistryInv, InstallFallback
<1>3. \A a \in Addr : \/ hooks'[regEmu][a] = hooks[regEmu][a]
                     \/ \E m \in DOMAIN bin.imports : bin.imports[m] = a
  <2>1. CASE InstallFallbacks
    <3> DEFINE U == Unstubbed
               f == bin.imports
    <3>1. HookAll("fallback", U, f)
      BY <2>1 DEF InstallFallback
    <3>2. U \subseteq DOMAIN f
      BY DEF Unstubbed
    <3>3. U \subseteq Name /\ \A n \in U : f[n] \in Addr
      BY <1>1, <3>2, BinaryFacts
    <3> HIDE DEF U, f
    <3>4. \A a \in Addr : (\A n \in U : f[n] # a) =>
                            hooks'[regEmu][a] = hooks[regEmu][a]
      BY <1>1, <1>2, <3>1, <3>2, <3>3, FallbackHooks
    <3>5. ASSUME NEW a \in Addr, NEW n \in U, f[n] = a
          PROVE  \E m \in DOMAIN bin.imports : bin.imports[m] = a
      BY <3>2, <3>5 DEF f
    <3> QED BY <3>4, <3>5
  <2>2. CASE ~InstallFallbacks
    BY <2>2 DEF InstallFallback
  <2> QED BY <2>1, <2>2
<1>4. /\ phase # "idle" /\ phase' # "detectors" /\ phase # "detectors"
      /\ UNCHANGED <<regEmu, bin, det, activated, fresh, installs>>
  BY DEF InstallFallback
<1> QED BY <1>3, <1>4, PassKeepsDetectors

LEMMA DInvNext == DInv /\ [Next]_vars => DetectorInv'
<1> SUFFICES ASSUME DInv, [Next]_vars PROVE DetectorInv'
  OBVIOUS
<1>1. CASE UNCHANGED vars
  <2>1. DetectorInv
    BY DEF DInv
  <2> USE <1>1 DEF vars
  <2>2. Passed' = Passed /\ \A a : HookAt(a)' = HookAt(a)
    BY DEF Passed, HookAt
  <2>3. \A i, a : ClaimsAddr(i, a)' <=> ClaimsAddr(i, a)
    BY DEF ClaimsAddr, Matches, Claimed, AllSymbols
  <2>4. \A a : HookKept(a)' <=> HookKept(a)
    BY <2>2, <2>3 DEF HookKept
  <2>5. {Detectors[i] : i \in {j \in Passed' : Matches(Detectors[j], bin')}}
          = {Detectors[i] : i \in {j \in Passed : Matches(Detectors[j], bin)}}
    BY <2>2
  <2> QED BY <2>1, <2>2, <2>3, <2>4, <2>5 DEF DetectorInv
<1>2. CASE Next
  BY <1>1, <1>2, BeginSetsDetectors, SkipKeepsDetectors, ActivateKeepsDetectors,
     StubsKeepDetectors, FallbackKeepsDetectors DEF Next, Ended
<1> QED BY <1>1, <1>2

LEMMA DInvHolds == Spec => []DInv
<1>1. Init => DetectorInv
  BY DEF Init, DetectorInv
<1> QED BY <1>1, InitInv, NextInv, DInvNext, PTL DEF Spec, DInv

-----------------------------------------------------------------------------
\* The type invariant, in every run of installations.
THEOREM TypeCorrect == Spec => []TypeOK
<1>1. Inv => TypeOK
  BY DEF Inv
<1> QED BY <1>1, InvHolds, PTL

\* The inductive invariant: what a stub pass has seen stays stubbed.
THEOREM RegistryCorrect == Spec => []RegistryInv
<1>1. Inv => RegistryInv
  BY DEF Inv
<1> QED BY <1>1, InvHolds, PTL

\* After Install every import is hooked, by the stub of its name if there is
\* one (registry.go:184-287), whatever the detectors did before.
THEOREM InstallCoversImports == Spec => []ImportsCovered
<1>1. Inv => ImportsCovered
  BY DEF Inv, RegistryInv
<1> QED BY <1>1, InvHolds, PTL

\* The JNI environment in use belongs to the emulator the registry works for
\* as long as the jni detector counts as activated (registry.go:187-194).
THEOREM JniEnvFollowsEmulator == Spec => []JniEnvOfCurrent
<1>1. Inv => JniEnvOfCurrent
  BY DEF Inv, RegistryInv, JniEnvOfCurrent
<1> QED BY <1>1, InvHolds, PTL

\* After an installation to another emulator the activated detectors are the
\* ones that match its binary (registry.go:186-192), for every sequence of
\* distinct detectors.
THEOREM DetectorsFollowBinary == Spec => []DetectorsMatchBinary
<1>1. DInv => DetectorsMatchBinary
  <2> SUFFICES ASSUME DInv, Installed, fresh
               PROVE  activated = {d \in Detector : Matches(d, bin)}
    BY DEF DetectorsMatchBinary
  <2>1. DetectorInv /\ TypeOK
    BY DEF DInv, Inv
  <2>2. Passed = 1..Len(Detectors)
    BY <2>1, DetectorNumbers DEF DetectorInv, Installed, Passed
  <2> QED BY <2>1, <2>2 DEF DetectorInv, Installed, Detector
<1> QED BY <1>1, DInvHolds, PTL

\* The hook of the last detector that claims a function of the binary stays
\* (registry.go:118-154), in every order of the maps and with any number of
\* detectors: the only ones to go before it are a registered stub at the same
\* address and whatever the function, as an import, is hooked by.
THEOREM InternalHooksStay == Spec => []InternalHooksSurvive
<1>1. DInv => InternalHooksSurvive
  <2> SUFFICES ASSUME DInv, Installed, fresh,
                      NEW d \in activated, NEW n \in Claimed(d, bin),
                      NEW a, a = AllSymbols(bin)[n]
               PROVE  \/ HookAt(a).by = LastClaimant(a)
                      \/ \E r \in Registered \cap DOMAIN bin.symbols :
                           bin.symbols[r] = a /\ HookAt(a).by = "stub"
                      \/ n \in DOMAIN bin.imports
    BY DEF InternalHooksSurvive
  <2>1. DetectorInv /\ TypeOK
    BY DEF DInv, Inv
  <2>2. Passed = 1..Len(Detectors) /\ Len(Detectors) \in Nat
    BY <2>1, DetectorNumbers DEF DetectorInv, Installed, Passed
  <2>3. n \in DOMAIN AllSymbols(bin) /\ a \in Addr
    BY <2>1, BinaryFacts DEF Claimed
  <2>4. PICK i \in Passed : d = Detectors[i] /\ Matches(Detectors[i], bin)
    BY <2>1 DEF DetectorInv, Installed
  <2>5. HookKept(a)
    BY <2>1, <2>3, <2>4 DEF DetectorInv, Installed, ClaimsAddr
  <2>6. CASE \E j \in Passed : /\ ClaimsAddr(j, a)
                               /\ \A k \in Passed : ClaimsAddr(k, a) => k <= j
                               /\ HookAt(a).by = Detectors[j]
    <3> DEFINE C == {k \in 1..Len(Detectors) : ClaimsAddr(k, a)}
               last == CHOOSE k \in C : \A l \in C : l <= k
    <3>1. PICK j \in C : (\A l \in C : l <= j) /\ HookAt(a).by = Detectors[j]
      BY <2>2, <2>6
    <3>2. last \in C /\ \A l \in C : l <= last
      BY <3>1
    <3>3. C \subseteq Nat
      BY <2>2
    <3> HIDE DEF C, last
    <3>4. j = last
      BY <3>1, <3>2, <3>3
    <3> QED BY <3>1, <3>4 DEF LastClaimant, C, last
  <2>7. CASE \E m \in DOMAIN bin.imports : bin.imports[m] = a
    <3>1. IsELFInfo(bin)
      BY <2>1, RegistryAssumption DEF TypeOK
    <3> QED BY <2>3, <2>7, <3>1 DEF IsELFInfo, AllSymbols
  <2> QED BY <2>5, <2>6, <2>7 DEF HookKept
<1> QED BY <1>1, DInvHolds, PTL
=============================================================================
