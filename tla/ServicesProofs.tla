--------------------------- MODULE ServicesProofs ---------------------------
(***************************************************************************)
(* Proofs about GuestServices, for every guest program, any number of      *)
(* emulators, and all values of the constants: thread-local data, static   *)
(* initialisation, the hosts that are captured, the types of all packages  *)
(* and, for guests that ask for no size that wraps, the one heap under     *)
(* them.                                                                   *)
(***************************************************************************)
EXTENDS HeapProofs, GuestServices, SequenceTheorems, WellFoundedInduction

\* Seen from the pthread package, the process makes its steps, begins a new
\* guest, or does something else.
LEMMA StepsOfPthread ==
  ASSUME ServicesNext
  PROVE  TlsNext \/ ThreadNext \/ NextGuest \/ UNCHANGED pthreadVars
BY DEF ServicesNext, UseHeap, UseJni, UseDescriptors, UsePthread, UseGuards,
       UseDl, UseNetwork, UseLibc

LEMMA StepsOfGuards ==
  ASSUME ServicesNext
  PROVE  GuardNext \/ NextGuest \/ UNCHANGED guardVars
BY DEF ServicesNext, UseHeap, UseJni, UseDescriptors, UsePthread, UseGuards,
       UseDl, UseNetwork, UseLibc

-----------------------------------------------------------------------------
(***************************************************************************)
(* Thread-local data.  The table only has values under keys that have been *)
(* handed out, so a new key has none, also after the first emulator; and   *)
(* unless a variable was spoiled no two of them have one key.              *)
(***************************************************************************)
TlsTypes == /\ nextTLSKey \in Nat
            /\ keyVar \in [1..KeyVars -> Nat]
            /\ stored \in [1..KeyVars -> Nat]
            /\ created \subseteq 1..KeyVars

KeysHandedOut == /\ DOMAIN tlsData \subseteq 0..(nextTLSKey - 1)
                 /\ \A v \in created : keyVar[v] < nextTLSKey

KeysDistinct ==
  ~spoiled => \A v, w \in created : v # w => keyVar[v] # keyVar[w]

TlsInv == TlsTypes /\ KeysHandedOut /\ KeysDistinct /\ TlsReadsBack

LEMMA TlsInit == ServicesInit => TlsInv
<1> SUFFICES ASSUME ServicesInit PROVE TlsInv
  OBVIOUS
<1>1. /\ nextTLSKey = 0 /\ tlsData = <<>> /\ created = {}
      /\ keyVar = [v \in 1..KeyVars |-> 0] /\ stored = [v \in 1..KeyVars |-> 0]
  BY DEF ServicesInit, PthreadInit, NoKeys
<1>2. DOMAIN tlsData = {}
  BY <1>1
<1> QED BY <1>1, <1>2 DEF TlsInv, TlsTypes, KeysHandedOut, KeysDistinct,
                          TlsReadsBack

LEMMA KeyCreateKeeps ==
  ASSUME TlsInv, NEW v \in 1..KeyVars, KeyCreate(v)
  PROVE  TlsInv'
<1>0. KeyVars \in Nat
  BY PthreadAssumption
<1>1. /\ v \notin created /\ nextTLSKey' = nextTLSKey + 1
      /\ keyVar' = WriteKey(v, nextTLSKey) /\ created' = created \cup {v}
      /\ stored' = [stored EXCEPT ![v] = 0] /\ tlsData' = tlsData
      /\ spoiled' = (spoiled \/ v + 1 \in created)
  BY DEF KeyCreate
<1>2. nextTLSKey \in Nat /\ created \subseteq 1..KeyVars
  BY DEF TlsInv, TlsTypes
<1>3. TlsTypes'
  BY <1>1 DEF TlsInv, TlsTypes, WriteKey
<1>4. keyVar'[v] = nextTLSKey
  BY <1>1 DEF WriteKey
<1>5. \A w \in created : /\ w \in 1..KeyVars /\ w # v
                         /\ keyVar'[w] = keyVar[w] \/ keyVar'[w] = 0
                         /\ keyVar'[w] < nextTLSKey
  <2> SUFFICES ASSUME NEW w \in created
               PROVE  /\ w \in 1..KeyVars /\ w # v
                      /\ keyVar'[w] = keyVar[w] \/ keyVar'[w] = 0
                      /\ keyVar'[w] < nextTLSKey
    OBVIOUS
  <2>1. w \in 1..KeyVars /\ w # v
    BY <1>1, <1>2
  <2>2. keyVar[w] < nextTLSKey /\ keyVar[w] \in Nat
    BY <2>1 DEF TlsInv, TlsTypes, KeysHandedOut
  <2>3. keyVar'[w] = IF w = v + 1 THEN 0 ELSE keyVar[w]
    BY <1>1, <2>1 DEF WriteKey
  <2> QED BY <1>2, <2>1, <2>2, <2>3
<1>6. KeysHandedOut'
  <2>1. DOMAIN tlsData' \subseteq 0..(nextTLSKey' - 1)
    BY <1>1, <1>2 DEF TlsInv, KeysHandedOut
  <2>2. \A w \in created' : keyVar'[w] < nextTLSKey'
    <3> SUFFICES ASSUME NEW w \in created' PROVE keyVar'[w] < nextTLSKey'
      OBVIOUS
    <3>1. CASE w = v
      BY <1>1, <1>2, <1>4, <3>1
    <3>2. CASE w \in created
      <4>1. keyVar'[w] < nextTLSKey /\ keyVar'[w] \in Nat
        BY <1>3, <1>5, <3>2 DEF TlsTypes
      <4> QED BY <1>1, <1>2, <4>1
    <3> QED BY <1>1, <3>1, <3>2
  <2> QED BY <2>1, <2>2 DEF KeysHandedOut
<1>7. ASSUME ~spoiled'
      PROVE  ~spoiled /\ \A w \in created : keyVar'[w] = keyVar[w]
  <2>1. ~spoiled /\ v + 1 \notin created
    BY <1>1, <1>7
  <2> QED BY <1>1, <1>5, <2>1 DEF WriteKey
<1>8. KeysDistinct'
  <2> SUFFICES ASSUME ~spoiled', NEW a \in created', NEW b \in created', a # b
               PROVE  keyVar'[a] # keyVar'[b]
    BY DEF KeysDistinct
  <2>1. CASE a \in created /\ b \in created
    BY <1>7, <2>1 DEF TlsInv, KeysDistinct
  <2>2. CASE a = v /\ b \in created
    BY <1>2, <1>4, <1>5, <2>2
  <2>3. CASE b = v /\ a \in created
    BY <1>2, <1>4, <1>5, <2>3
  <2> QED BY <1>1, <2>1, <2>2, <2>3
<1>9. TlsReadsBack'
  <2> SUFFICES ASSUME ~spoiled', NEW w \in created'
               PROVE  TlsValue(keyVar[w])' = stored'[w]
    BY DEF TlsReadsBack
  <2>1. CASE w = v
    <3>1. keyVar'[w] \notin DOMAIN tlsData'
      BY <1>1, <1>2, <1>4, <2>1 DEF TlsInv, KeysHandedOut
    <3>2. stored'[w] = 0
      BY <1>1, <2>1 DEF TlsInv, TlsTypes
    <3> QED BY <3>1, <3>2 DEF TlsValue
  <2>2. CASE w \in created
    <3>1. stored'[w] = stored[w]
      BY <1>1, <1>5, <2>2 DEF TlsInv, TlsTypes
    <3>2. TlsValue(keyVar[w]) = stored[w]
      BY <1>7, <2>2 DEF TlsInv, TlsReadsBack
    <3> QED BY <1>1, <1>7, <2>2, <3>1, <3>2 DEF TlsValue
  <2> QED BY <1>1, <2>1, <2>2
<1> QED BY <1>3, <1>6, <1>8, <1>9 DEF TlsInv

LEMMA KeyDeleteKeeps ==
  ASSUME TlsInv, NEW v \in created, KeyDelete(v)
  PROVE  TlsInv'
<1>1. /\ tlsData' = [k \in DOMAIN tlsData \ {keyVar[v]} |-> tlsData[k]]
      /\ created' = created \ {v}
      /\ nextTLSKey' = nextTLSKey /\ keyVar' = keyVar /\ stored' = stored
      /\ spoiled' = spoiled
  BY DEF KeyDelete
<1>2. TlsTypes' /\ KeysHandedOut' /\ KeysDistinct'
  BY <1>1 DEF TlsInv, TlsTypes, KeysHandedOut, KeysDistinct
<1>3. TlsReadsBack'
  <2> SUFFICES ASSUME ~spoiled', NEW w \in created'
               PROVE  TlsValue(keyVar[w])' = stored'[w]
    BY DEF TlsReadsBack
  <2>1. keyVar[w] # keyVar[v] /\ TlsValue(keyVar[w]) = stored[w]
    BY <1>1 DEF TlsInv, KeysDistinct, TlsReadsBack
  <2> QED BY <1>1, <2>1 DEF TlsValue
<1> QED BY <1>2, <1>3 DEF TlsInv

LEMMA SetspecificKeeps ==
  ASSUME TlsInv, NEW v \in created, NEW value \in TlsValues,
         Setspecific(v, value)
  PROVE  TlsInv'
<1>1. /\ tlsData' = [k \in DOMAIN tlsData \cup {keyVar[v]} |->
                       IF k = keyVar[v] THEN value ELSE tlsData[k]]
      /\ stored' = [stored EXCEPT ![v] = value]
      /\ nextTLSKey' = nextTLSKey /\ keyVar' = keyVar
      /\ created' = created /\ spoiled' = spoiled
  BY DEF Setspecific
<1>2. v \in 1..KeyVars /\ value \in Nat
  BY PthreadAssumption DEF TlsInv, TlsTypes
<1>3. TlsTypes' /\ KeysDistinct'
  BY <1>1, <1>2 DEF TlsInv, TlsTypes, KeysDistinct
<1>4. KeysHandedOut'
  <2>1. keyVar[v] \in 0..(nextTLSKey - 1)
    BY <1>2 DEF TlsInv, TlsTypes, KeysHandedOut
  <2> QED BY <1>1, <2>1 DEF TlsInv, KeysHandedOut
<1>5. TlsReadsBack'
  <2> SUFFICES ASSUME ~spoiled', NEW w \in created'
               PROVE  TlsValue(keyVar[w])' = stored'[w]
    BY DEF TlsReadsBack
  <2>1. w \in 1..KeyVars /\ TlsValue(keyVar[w]) = stored[w]
    BY <1>1 DEF TlsInv, TlsTypes, TlsReadsBack
  <2>2. CASE w = v
    BY <1>1, <1>2, <2>2 DEF TlsInv, TlsTypes, TlsValue
  <2>3. CASE w # v
    <3>1. keyVar[w] # keyVar[v]
      BY <1>1, <2>3 DEF TlsInv, KeysDistinct
    <3>2. stored'[w] = stored[w]
      BY <1>1, <2>1, <2>3 DEF TlsInv, TlsTypes
    <3> QED BY <1>1, <2>1, <3>1, <3>2 DEF TlsValue
  <2> QED BY <2>2, <2>3
<1> QED BY <1>3, <1>4, <1>5 DEF TlsInv

LEMMA TlsUnchanged ==
  ASSUME TlsInv, UNCHANGED tlsVars
  PROVE  TlsInv'
BY DEF TlsInv, TlsTypes, KeysHandedOut, KeysDistinct, TlsReadsBack, TlsValue,
       tlsVars

\* The next guest has no keys, and the table keeps the values of the last.
LEMMA TlsNextGuest ==
  ASSUME TlsInv, NextGuest
  PROVE  TlsInv'
<1>1. /\ keyVar' = [v \in 1..KeyVars |-> 0] /\ stored' = [v \in 1..KeyVars |-> 0]
      /\ created' = {} /\ nextTLSKey' = nextTLSKey /\ tlsData' = tlsData
  BY DEF NextGuest
<1> QED BY <1>1 DEF TlsInv, TlsTypes, KeysHandedOut, KeysDistinct, TlsReadsBack

LEMMA TlsStep ==
  ASSUME TlsInv, [ServicesNext]_servicesVars
  PROVE  TlsInv'
<1>1. CASE TlsNext
  <2>1. ASSUME NEW v \in 1..KeyVars, KeyCreate(v) PROVE TlsInv'
    BY <2>1, KeyCreateKeeps
  <2>2. ASSUME NEW v \in created, KeyDelete(v) PROVE TlsInv'
    BY <2>2, KeyDeleteKeeps
  <2>3. ASSUME NEW v \in created, Getspecific(v) PROVE TlsInv'
    BY <2>3, TlsUnchanged DEF Getspecific, pthreadVars
  <2>4. ASSUME NEW v \in created, NEW value \in TlsValues, Setspecific(v, value)
        PROVE  TlsInv'
    BY <2>4, SetspecificKeeps
  <2>5. ASSUME NEW control \in OnceControls, Once(control) PROVE TlsInv'
    BY <2>5, TlsUnchanged DEF Once
  <2> QED BY <1>1, <2>1, <2>2, <2>3, <2>4, <2>5 DEF TlsNext
<1>2. CASE ThreadNext
  BY <1>2, TlsUnchanged
     DEF ThreadNext, PthreadCreate, PthreadSelf, PthreadEqual, PthreadJoin,
         ThreadCalls, PthreadExit, MutexCalls, CondCalls, AttrCalls, pthreadVars
<1>3. CASE NextGuest
  BY <1>3, TlsNextGuest
<1>4. CASE UNCHANGED pthreadVars
  BY <1>4, TlsUnchanged DEF pthreadVars
<1>5. CASE UNCHANGED servicesVars
  BY <1>5, TlsUnchanged DEF servicesVars, pthreadVars
<1> QED BY <1>1, <1>2, <1>3, <1>4, <1>5, StepsOfPthread

\* What a guest reads through a key is what it last stored under it, or
\* nothing, for any number of keys and emulators and whatever was deleted,
\* unless a key variable was overwritten (pthread/tls.go:24-77).
THEOREM ThreadLocalData == ServicesSpec => []TlsReadsBack
<1>1. TlsInv /\ [ServicesNext]_servicesVars => TlsInv'
  BY TlsStep
<1>2. TlsInv => TlsReadsBack
  BY DEF TlsInv
<1> QED BY <1>1, <1>2, TlsInit, PTL DEF ServicesSpec

-----------------------------------------------------------------------------
(***************************************************************************)
(* Static initialisation.  With a cleared table, the guards that count as  *)
(* released are the statics that have been initialised, and those whose    *)
(* initialisers run are none of them, each running once.                   *)
(***************************************************************************)
GuardTypes == initialising \in Seq(GuardVars)

NestedOnce == \A i, j \in 1..Len(initialising) :
                initialising[i] = initialising[j] => i = j

TableIsTrue == careful =>
                 /\ guardState = inited
                 /\ \A i \in 1..Len(initialising) : initialising[i] \notin inited

GuardInv == GuardTypes /\ NestedOnce /\ TableIsTrue /\ StaticsInitialised

LEMMA EmptyGuards ==
  ASSUME initialising = <<>>, inited = {}, ranTwice = FALSE, trusted = {},
         careful => guardState = {}
  PROVE  GuardInv
<1>1. initialising \in Seq(GuardVars) /\ Len(initialising) = 0
  OBVIOUS
<1>2. \A i \in 1..Len(initialising) : FALSE
  BY <1>1
<1> QED BY <1>1, <1>2 DEF GuardInv, GuardTypes, NestedOnce, TableIsTrue,
                          StaticsInitialised

LEMMA GuardsInit == ServicesInit => GuardInv
BY EmptyGuards DEF ServicesInit, GuardInit, NothingInitialised

LEMMA GuardAcquireKeeps ==
  ASSUME GuardInv, NEW g \in GuardVars \ Nested, GuardAcquire(g)
  PROVE  GuardInv'
<1>1. /\ guardState' = guardState /\ inited' = inited
      /\ ranTwice' = ranTwice /\ careful' = careful
  BY DEF GuardAcquire
<1>2. CASE g \in guardState
  <2>1. initialising' = initialising /\ trusted' = trusted \cup {g}
    BY <1>2 DEF GuardAcquire
  <2>2. GuardTypes' /\ NestedOnce' /\ TableIsTrue'
    BY <1>1, <2>1 DEF GuardInv, GuardTypes, NestedOnce, TableIsTrue
  <2>3. StaticsInitialised'
    BY <1>1, <1>2, <2>1 DEF GuardInv, TableIsTrue, StaticsInitialised
  <2> QED BY <2>2, <2>3 DEF GuardInv
<1>3. CASE g \notin guardState
  <2>1. initialising' = Append(initialising, g) /\ trusted' = trusted
    BY <1>3 DEF GuardAcquire
  <2>2. /\ initialising \in Seq(GuardVars) /\ Len(initialising) \in Nat
        /\ initialising' \in Seq(GuardVars)
        /\ Len(initialising') = Len(initialising) + 1
        /\ \A i \in 1..Len(initialising) : initialising'[i] = initialising[i]
        /\ initialising'[Len(initialising) + 1] = g
    BY <2>1, AppendProperties DEF GuardInv, GuardTypes
  <2>3. \A i \in 1..Len(initialising) : initialising[i] # g
    BY <2>2 DEF Nested
  <2>4. NestedOnce'
    <3> SUFFICES ASSUME NEW i \in 1..Len(initialising'),
                        NEW j \in 1..Len(initialising'),
                        initialising'[i] = initialising'[j]
                 PROVE  i = j
      BY DEF NestedOnce
    <3>1. /\ i \in 1..Len(initialising) \/ i = Len(initialising) + 1
          /\ j \in 1..Len(initialising) \/ j = Len(initialising) + 1
      BY <2>2
    <3>2. CASE i \in 1..Len(initialising) /\ j \in 1..Len(initialising)
      BY <2>2, <3>2 DEF GuardInv, NestedOnce
    <3> QED BY <2>2, <2>3, <3>1, <3>2
  <2>5. TableIsTrue'
    <3> SUFFICES ASSUME careful'
                 PROVE  /\ guardState' = inited'
                        /\ \A i \in 1..Len(initialising') :
                             initialising'[i] \notin inited'
      BY DEF TableIsTrue
    <3>1. /\ guardState = inited
          /\ \A i \in 1..Len(initialising) : initialising[i] \notin inited
      BY <1>1 DEF GuardInv, TableIsTrue
    <3>2. \A i \in 1..Len(initialising') :
            i \in 1..Len(initialising) \/ i = Len(initialising) + 1
      BY <2>2
    <3> QED BY <1>1, <1>3, <2>2, <3>1, <3>2
  <2>6. StaticsInitialised'
    BY <1>1, <2>1 DEF GuardInv, StaticsInitialised
  <2> QED BY <2>2, <2>4, <2>5, <2>6 DEF GuardInv, GuardTypes
<1> QED BY <1>2, <1>3

\* Leaving the innermost initialiser.
LEMMA OuterOnce ==
  ASSUME GuardInv, initialising # <<>>
  PROVE  /\ Outer \in Seq(GuardVars)
         /\ Len(Outer) = Len(initialising) - 1
         /\ Len(Outer) \in Nat
         /\ \A i \in 1..Len(Outer) : /\ i \in 1..Len(initialising)
                                     /\ Outer[i] = initialising[i]
                                     /\ Outer[i] # Innermost
<1>1. initialising \in Seq(GuardVars) /\ Len(initialising) \in Nat \ {0}
  BY EmptySeq DEF GuardInv, GuardTypes
<1>2. /\ Outer \in Seq(GuardVars)
      /\ Len(Outer) = Len(initialising) - 1
      /\ \A i \in 1..Len(Outer) : Outer[i] = initialising[i]
  <2> DEFINE last == Len(initialising) - 1
  <2>1. last \in Nat /\ \A i \in 1..last : initialising[i] \in GuardVars
    BY <1>1
  <2>2. Outer = SubSeq(initialising, 1, last)
    BY DEF Outer
  <2>3. /\ SubSeq(initialising, 1, last) \in Seq(GuardVars)
        /\ Len(SubSeq(initialising, 1, last)) =
             IF 1 <= last THEN last - 1 + 1 ELSE 0
        /\ \A i \in 1..(last - 1 + 1) :
             SubSeq(initialising, 1, last)[i] = initialising[1 + i - 1]
    <3> HIDE DEF last
    <3> QED BY <2>1, SubSeqProperties
  <2>4. Len(Outer) = last
    <3> HIDE DEF last
    <3> QED BY <2>1, <2>2, <2>3
  <2>5. \A i \in 1..last : Outer[i] = initialising[i]
    <3> SUFFICES ASSUME NEW i \in 1..last PROVE Outer[i] = initialising[i]
      OBVIOUS
    <3>1. i \in 1..(last - 1 + 1) /\ 1 + i - 1 = i
      BY <2>1
    <3>2. SubSeq(initialising, 1, last)[i] = initialising[1 + i - 1]
      BY <2>3, <3>1
    <3> QED BY <2>2, <3>1, <3>2
  <2> QED BY <2>2, <2>3, <2>4, <2>5
<1>3. Len(initialising) \in 1..Len(initialising)
  BY <1>1
<1>4. \A i \in 1..Len(Outer) :
        i \in 1..Len(initialising) /\ i # Len(initialising)
  BY <1>1, <1>2
<1>5. \A i \in 1..Len(Outer) : initialising[i] # Innermost
  BY <1>3, <1>4 DEF GuardInv, NestedOnce, Innermost
<1> QED BY <1>1, <1>2, <1>4, <1>5

LEMMA GuardReleaseKeeps ==
  ASSUME GuardInv, GuardRelease
  PROVE  GuardInv'
<1>1. /\ initialising # <<>> /\ initialising' = Outer
      /\ guardState' = guardState \cup {Innermost}
      /\ inited' = inited \cup {Innermost}
      /\ ranTwice' = (ranTwice \/ Innermost \in inited)
      /\ trusted' = trusted /\ careful' = careful
  BY DEF GuardRelease
<1>2. /\ Outer \in Seq(GuardVars)
      /\ \A i \in 1..Len(Outer) : /\ i \in 1..Len(initialising)
                                  /\ Outer[i] = initialising[i]
                                  /\ Outer[i] # Innermost
  BY <1>1, OuterOnce
<1>3. GuardTypes' /\ NestedOnce'
  BY <1>1, <1>2 DEF GuardInv, GuardTypes, NestedOnce
<1>4. TableIsTrue'
  BY <1>1, <1>2 DEF GuardInv, TableIsTrue
<1>5. careful => Innermost \notin inited
  <2>1. Len(initialising) \in 1..Len(initialising)
    BY <1>1, EmptySeq DEF GuardInv, GuardTypes
  <2> QED BY <2>1 DEF GuardInv, TableIsTrue, Innermost
<1>6. StaticsInitialised'
  BY <1>1, <1>5 DEF GuardInv, StaticsInitialised
<1> QED BY <1>3, <1>4, <1>6 DEF GuardInv

LEMMA GuardAbortKeeps ==
  ASSUME GuardInv, GuardAbort
  PROVE  GuardInv'
<1>1. /\ initialising # <<>> /\ initialising' = Outer
      /\ guardState' = guardState /\ inited' = inited
      /\ ranTwice' = ranTwice /\ trusted' = trusted /\ careful' = careful
  BY DEF GuardAbort
<1>2. /\ Outer \in Seq(GuardVars)
      /\ \A i \in 1..Len(Outer) : /\ i \in 1..Len(initialising)
                                  /\ Outer[i] = initialising[i]
                                  /\ Outer[i] # Innermost
  BY <1>1, OuterOnce
<1>3. GuardTypes' /\ NestedOnce'
  BY <1>1, <1>2 DEF GuardInv, GuardTypes, NestedOnce
<1>4. TableIsTrue' /\ StaticsInitialised'
  BY <1>1, <1>2 DEF GuardInv, TableIsTrue, StaticsInitialised
<1> QED BY <1>3, <1>4 DEF GuardInv

LEMMA GuardsUnchanged ==
  ASSUME GuardInv, UNCHANGED guardVars
  PROVE  GuardInv'
BY DEF GuardInv, GuardTypes, NestedOnce, TableIsTrue, StaticsInitialised,
       guardVars

LEMMA GuardsNextGuest ==
  ASSUME GuardInv, NextGuest
  PROVE  GuardInv'
<1>1. /\ initialising' = <<>> /\ inited' = {} /\ ranTwice' = FALSE
      /\ trusted' = {} /\ (careful' => guardState' = {})
  BY DEF NextGuest
<1>2. (initialising = <<>> /\ inited = {} /\ ranTwice = FALSE /\ trusted = {}
         /\ (careful => guardState = {}) => GuardInv)'
  BY EmptyGuards, PTL
<1> QED BY <1>1, <1>2

LEMMA GuardStep ==
  ASSUME GuardInv, [ServicesNext]_servicesVars
  PROVE  GuardInv'
<1>1. CASE GuardNext
  <2>1. ASSUME NEW g \in GuardVars \ Nested, GuardAcquire(g) PROVE GuardInv'
    BY <2>1, GuardAcquireKeeps
  <2>2. CASE GuardRelease
    BY <2>2, GuardReleaseKeeps
  <2>3. CASE GuardAbort
    BY <2>3, GuardAbortKeeps
  <2>4. CASE UNCHANGED guardVars
    BY <2>4, GuardsUnchanged
  <2>5. CASE CxaThrow \/ CxaBadCalls \/ CxaPureVirtual \/ UnwindResume
    BY <2>4, <2>5 DEF CxaThrow, CxaBadCalls, CxaPureVirtual, UnwindResume
  <2>6. CASE \E v \in FixedSizes : \/ CxaCatch(v)
                                   \/ CxaCurrentException(v)
                                   \/ DynamicCast(v)
                                   \/ Unwind(v)
    BY <2>4, <2>6 DEF CxaCatch, CxaCurrentException, DynamicCast, Unwind
  <2>7. CASE CxaAtexit
    BY <2>4, <2>7 DEF CxaAtexit
  <2> QED BY <1>1, <2>1, <2>2, <2>3, <2>5, <2>6, <2>7 DEF GuardNext
<1>2. CASE NextGuest
  BY <1>2, GuardsNextGuest
<1>3. CASE UNCHANGED guardVars
  BY <1>3, GuardsUnchanged
<1>4. CASE UNCHANGED servicesVars
  BY <1>4, GuardsUnchanged DEF servicesVars
<1> QED BY <1>1, <1>2, <1>3, <1>4, StepsOfGuards

\* With a table that is cleared for every emulator no guest uses a static
\* that is not initialised, and none is initialised twice, for any number of
\* statics and any nesting of their initialisers
\* (cxxabi/exception.go:145-176).
THEOREM StaticInitialisation == ServicesSpec => []StaticsInitialised
<1>1. GuardInv /\ [ServicesNext]_servicesVars => GuardInv'
  BY GuardStep
<1>2. GuardInv => StaticsInitialised
  BY DEF GuardInv
<1> QED BY <1>1, <1>2, GuardsInit, PTL DEF ServicesSpec

-----------------------------------------------------------------------------
(***************************************************************************)
(* The addresses of Network: whatever is written by a stub or by the guest *)
(* is parsed to the address and port that were meant, for all ports and    *)
(* addresses.                                                              *)
(***************************************************************************)
\* What the others do leaves the variables of Network alone.
LEMMA StepsOfNetwork ==
  ASSUME ServicesNext
  PROVE  NetNext \/ NextGuest \/ UNCHANGED netVars
BY DEF ServicesNext, UseHeap, UseJni, UseDescriptors, UsePthread, UseGuards,
       UseDl, UseNetwork, UseLibc

-----------------------------------------------------------------------------
(***************************************************************************)
(* Addresses.                                                              *)
(***************************************************************************)
Address == [1..4 -> Nat]

Number == Nat

\* The two bytes of a number of 16 bits.
LEMMA TwoBytes ==
  ASSUME NEW n, IsUint16(n)
  PROVE  /\ n % 256 \in Nat /\ n % 256 < 256
         /\ n \div 256 \in Nat /\ n \div 256 < 256
         /\ n = (n \div 256) * 256 + (n % 256)
<1>1. n \in Nat /\ n < 65536
  BY DEF IsUint16
<1>2. /\ n % 256 \in Int /\ 0 <= n % 256 /\ n % 256 < 256
      /\ n \div 256 \in Int /\ 0 <= n \div 256 /\ n \div 256 < 256
  BY <1>1
<1>3. n = (n \div 256) * 256 + (n % 256)
  BY <1>1
<1> QED BY <1>2, <1>3

LEMMA BytesOf ==
  ASSUME NEW low \in Nat, NEW high \in Nat, low < 256, high < 256
  PROVE  /\ (low * 256 + high) % 256 = high
         /\ (low * 256 + high) \div 256 = low
OBVIOUS

\* A port that is swapped and written low byte first has its high byte first.
LEMMA PortSwapped ==
  ASSUME NEW port, IsUint16(port)
  PROVE  LE16(Swap(port)) = <<port \div 256, port % 256>>
<1>1. PICK low \in Nat, high \in Nat :
        /\ low = port % 256 /\ low < 256
        /\ high = port \div 256 /\ high < 256
  BY TwoBytes
<1>2. (low * 256 + high) % 256 = high /\ (low * 256 + high) \div 256 = low
  BY <1>1, BytesOf
<1>3. Swap(port) = low * 256 + high
  BY <1>1 DEF Swap
<1>4. LE16(Swap(port)) = <<high, low>>
  BY <1>2, <1>3 DEF LE16
<1> QED BY <1>1, <1>4

LEMMA FourNumbers ==
  ASSUME NEW ip \in Address
  PROVE  ip \in Seq(Number) /\ Len(ip) = 4
<1>1. \A n \in Nat : \A f : f \in [1..n -> Nat] => f \in Seq(Nat) /\ Len(f) = n
  OBVIOUS
<1> QED BY <1>1 DEF Address, Number

\* s and t, one after the other.
Joins(st, s, t) == /\ Len(st) = Len(s) + Len(t)
                   /\ \A i \in 1..Len(s) : st[i] = s[i]
                   /\ \A i \in 1..Len(t) : st[Len(s) + i] = t[i]

LEMMA Concatenated ==
  ASSUME NEW S, NEW s \in Seq(S), NEW t \in Seq(S)
  PROVE  s \o t \in Seq(S) /\ Joins(s \o t, s, t)
BY DEF Joins

LEMMA TwoAndTwo ==
  ASSUME NEW a, NEW b, NEW ab, Len(a) = 2, Len(b) = 2, Joins(ab, a, b)
  PROVE  Len(ab) = 4
         /\ ab[1] = a[1] /\ ab[2] = a[2] /\ ab[3] = b[1] /\ ab[4] = b[2]
<1>1. /\ Len(ab) = 2 + 2
      /\ \A i \in 1..2 : ab[i] = a[i]
      /\ \A i \in 1..2 : ab[2 + i] = b[i]
  BY DEF Joins
<1> QED BY <1>1

LEMMA FourAndFour ==
  ASSUME NEW s, NEW t, NEW st, Len(s) = 4, Len(t) = 4, Joins(st, s, t)
  PROVE  Len(st) = 8 /\ st[3] = s[3] /\ st[4] = s[4]
         /\ \A i \in 1..4 : st[4 + i] = t[i]
<1>1. /\ Len(st) = 4 + 4
      /\ \A i \in 1..4 : st[i] = s[i]
      /\ \A i \in 1..4 : st[4 + i] = t[i]
  BY DEF Joins
<1> QED BY <1>1

\* What is left of s, from m on.
LeavesFrom(rest, s, m) ==
  /\ Len(rest) = Len(s) - m + 1
  /\ \A i \in 1..(Len(s) - m + 1) : rest[i] = s[m + i - 1]

LEMMA Rest ==
  ASSUME NEW S, NEW s \in Seq(S), NEW m \in 1..Len(s)
  PROVE  /\ SubSeq(s, m, Len(s)) \in Seq(S)
         /\ LeavesFrom(SubSeq(s, m, Len(s)), s, m)
BY DEF LeavesFrom

LEMMA LastFour ==
  ASSUME NEW S, NEW bytes \in Seq(S), NEW c \in Seq(S),
         Len(bytes) = 8, Len(c) = 4, \A i \in 1..4 : bytes[4 + i] = c[i]
  PROVE  SubSeq(bytes, 5, Len(bytes)) = c
<1>1. PICK m \in 1..Len(bytes) : m = 5
  OBVIOUS
<1>2. PICK rest : /\ rest = SubSeq(bytes, m, Len(bytes))
                  /\ rest \in Seq(S) /\ LeavesFrom(rest, bytes, m)
  BY Rest, Zenon
<1>3. rest \in Seq(S) /\ LeavesFrom(rest, bytes, 5)
  BY <1>1, <1>2, Zenon
<1>4. /\ Len(rest) = Len(bytes) - 5 + 1
      /\ \A i \in 1..(Len(bytes) - 5 + 1) : rest[i] = bytes[5 + i - 1]
  BY <1>3, Zenon DEF LeavesFrom
<1>5. Len(rest) = 4 /\ \A i \in 1..4 : rest[i] = bytes[5 + i - 1]
  BY <1>4
<1>6. \A i \in 1..4 : 5 + i - 1 = 4 + i
  OBVIOUS
<1>7. \A i \in 1..4 : rest[i] = c[i]
  BY <1>5, <1>6
<1>8. rest = c
  BY <1>3, <1>5, <1>7, SeqEqual
<1> QED BY <1>1, <1>2, <1>8, Zenon

\* What parseSockaddrIn finds in a family, a port and an address.
LEMMA Parsed ==
  ASSUME NEW S, NEW a \in Seq(S), NEW b \in Seq(S), NEW c \in Seq(S),
         Len(a) = 2, Len(b) = 2, Len(c) = 4
  PROVE  /\ ParsedPort((a \o b) \o c) = b[1] * 256 + b[2]
         /\ ParsedIP((a \o b) \o c) = c
<1>1. PICK ab : ab = a \o b /\ ab \in Seq(S) /\ Joins(ab, a, b)
  BY Concatenated, Zenon
<1>2. PICK abc : abc = ab \o c /\ abc \in Seq(S) /\ Joins(abc, ab, c)
  BY <1>1, Concatenated, Zenon
<1>3. ab \in Seq(S) /\ Joins(ab, a, b) /\ abc \in Seq(S) /\ Joins(abc, ab, c)
  BY <1>1, <1>2, Zenon
<1>4. Len(ab) = 4 /\ ab[3] = b[1] /\ ab[4] = b[2]
  BY <1>3, TwoAndTwo
<1>5. /\ Len(abc) = 8 /\ abc[3] = ab[3] /\ abc[4] = ab[4]
      /\ \A i \in 1..4 : abc[4 + i] = c[i]
  BY <1>3, <1>4, FourAndFour
<1>6. SubSeq(abc, 5, Len(abc)) = c
  BY <1>3, <1>5, LastFour
<1>7. abc[3] = b[1] /\ abc[4] = b[2] /\ SubSeq(abc, 5, 8) = c
  BY <1>4, <1>5, <1>6
<1>8. ParsedPort(abc) = b[1] * 256 + b[2] /\ ParsedIP(abc) = c
  BY <1>7, Zenon DEF ParsedPort, ParsedIP
<1> QED BY <1>1, <1>2, <1>8, Zenon

\* In an address that the guest puts together it finds what was put there.
LEMMA ComposedParses ==
  ASSUME NEW family, NEW port, NEW ip \in Address,
         IsUint16(family), IsUint16(port)
  PROVE  /\ ParsedPort(Compose(family, port, ip)) = port
         /\ ParsedIP(Compose(family, port, ip)) = ip
<1>1. /\ port % 256 \in Nat /\ port \div 256 \in Nat
      /\ port = (port \div 256) * 256 + (port % 256)
      /\ family % 256 \in Nat /\ family \div 256 \in Nat
  BY TwoBytes
<1>2. PICK a, b : /\ a = <<family % 256, family \div 256>>
                  /\ b = <<port \div 256, port % 256>>
  OBVIOUS
<1>3. /\ a \in Seq(Number) /\ Len(a) = 2
      /\ b \in Seq(Number) /\ Len(b) = 2
      /\ b[1] = port \div 256 /\ b[2] = port % 256
  BY <1>1, <1>2 DEF Number
<1>4. b[1] * 256 + b[2] = port
  BY <1>1, <1>3
<1>5. LE16(family) = a /\ LE16(Swap(port)) = b
  BY <1>2, PortSwapped DEF LE16
<1>6. Compose(family, port, ip) = (a \o b) \o ip
  BY <1>5 DEF Compose
<1>7. /\ ParsedPort((a \o b) \o ip) = b[1] * 256 + b[2]
      /\ ParsedIP((a \o b) \o ip) = ip
  BY <1>3, FourNumbers, Parsed
<1> QED BY <1>4, <1>6, <1>7

\* And in an address from getaddrinfo or getpeername what these write: the
\* port they mean, and their address the wrong way round.
WrittenIP == <<1, 0, 0, 127>>

LEMMA FakeParses ==
  ParsedPort(FakeSockaddr) = FakePort /\ ParsedIP(FakeSockaddr) = WrittenIP
<1>1. PICK a, b, p, q : /\ a = <<2, 0>> /\ b = <<0, 80>>
                        /\ p = <<1, 0>> /\ q = <<0, 127>>
  OBVIOUS
<1>2. /\ a \in Seq(Number) /\ Len(a) = 2
      /\ b \in Seq(Number) /\ Len(b) = 2 /\ b[1] = 0 /\ b[2] = 80
      /\ p \in Seq(Number) /\ Len(p) = 2 /\ p[1] = 1 /\ p[2] = 0
      /\ q \in Seq(Number) /\ Len(q) = 2 /\ q[1] = 0 /\ q[2] = 127
  BY <1>1 DEF Number
<1>3. /\ LE16(2) = <<2, 0>> /\ LE16(20480) = <<0, 80>>
      /\ LE16(1) = <<1, 0>> /\ LE16(32512) = <<0, 127>>
  BY DEF LE16
<1>4. PICK c : c = p \o q
  OBVIOUS
<1>5. FakeSockaddr = (a \o b) \o c
  <2>1. LE16(AF_INET) = a /\ LE16(20480) = b
    BY <1>1, <1>3 DEF AF_INET
  <2>2. LE16(1) = p /\ LE16(32512) = q
    BY <1>1, <1>3
  <2>3. LE32(1, 32512) = c
    BY <1>4, <2>2, SMTT(20) DEF LE32
  <2> QED BY <2>1, <2>3, SMTT(20) DEF FakeSockaddr
<1>6. /\ c \in Seq(Number) /\ Len(c) = 4
      /\ c[1] = p[1] /\ c[2] = p[2] /\ c[3] = q[1] /\ c[4] = q[2]
  <2>1. c \in Seq(Number) /\ Joins(c, p, q)
    BY <1>2, <1>4, Concatenated, Zenon
  <2> QED BY <1>2, <2>1, TwoAndTwo
<1>7. c[1] = 1 /\ c[2] = 0 /\ c[3] = 0 /\ c[4] = 127
  BY <1>2, <1>6
<1>8. /\ WrittenIP \in Seq(Number) /\ Len(WrittenIP) = 4
      /\ WrittenIP[1] = 1 /\ WrittenIP[2] = 0
      /\ WrittenIP[3] = 0 /\ WrittenIP[4] = 127
  BY DEF WrittenIP, Number
<1>9. c = WrittenIP
  <2>1. \A i \in 1..4 : c[i] = WrittenIP[i]
    BY <1>7, <1>8
  <2> QED BY <1>6, <1>8, <2>1, SeqEqual
<1>10. /\ ParsedPort((a \o b) \o c) = b[1] * 256 + b[2]
       /\ ParsedIP((a \o b) \o c) = c
  BY <1>2, <1>6, Parsed
<1>11. b[1] * 256 + b[2] = 80
  BY <1>2
<1> QED BY <1>5, <1>9, <1>10, <1>11 DEF FakePort

-----------------------------------------------------------------------------
(***************************************************************************)
(* What is in guest memory is what the stubs wrote there, and every host   *)
(* is noted as it is captured.                                             *)
(***************************************************************************)
IsSeq(s) == \E S : s \in Seq(S)

LEMMA Appended ==
  ASSUME NEW s, IsSeq(s), NEW e
  PROVE  /\ IsSeq(Append(s, e))
         /\ Len(s) \in Nat
         /\ Len(Append(s, e)) = Len(s) + 1
         /\ \A i \in 1..Len(s) : Append(s, e)[i] = s[i]
         /\ Append(s, e)[Len(s) + 1] = e
<1>1. PICK S : s \in Seq(S)
  BY DEF IsSeq
<1>2. s \in Seq(S \cup {e})
  BY <1>1
<1>3. Append(s, e) \in Seq(S \cup {e})
  BY <1>2
<1> QED BY <1>2, <1>3, AppendProperties DEF IsSeq

NetInv == /\ CapturedAsMeant
          /\ IsSeq(captured) /\ IsSeq(meant)
          /\ \A a \in DOMAIN sockaddrs : sockaddrs[a] = FakeSockaddr
          /\ \A a \in DOMAIN hostAddrs : hostAddrs[a] = FakeIP

LEMMA NothingCaptured ==
  captured = <<>> /\ meant = <<>> =>
    CapturedAsMeant /\ IsSeq(captured) /\ IsSeq(meant)
<1> SUFFICES ASSUME captured = <<>>, meant = <<>>
             PROVE  CapturedAsMeant /\ IsSeq(captured) /\ IsSeq(meant)
  OBVIOUS
<1>1. Len(captured) = 0 /\ Len(meant) = 0
  OBVIOUS
<1>2. captured \in Seq({}) /\ meant \in Seq({})
  OBVIOUS
<1> QED BY <1>1, <1>2 DEF CapturedAsMeant, IsSeq

LEMMA NetBegins == ServicesInit => NetInv
BY NothingCaptured DEF ServicesInit, NetInit, NetInv

LEMMA NetUnchanged ==
  ASSUME NetInv, UNCHANGED netVars
  PROVE  NetInv'
BY DEF NetInv, CapturedAsMeant, netVars

\* What a hook captures is as it is meant if it has the port and name that
\* were meant, and the address too unless that comes from a stub.
AsMeant(got, entry, fromStub) ==
  /\ got.port = entry.port
  /\ got.host = entry.host
  /\ ~fromStub => got.ip = entry.ip

LEMMA CaptureKeeps ==
  ASSUME NetInv, NEW got, NEW entry, NEW fromStub,
         CaptureHost(got), meant' = Append(meant, Meant(entry, fromStub)),
         AsMeant(got, entry, fromStub)
  PROVE  CapturedAsMeant' /\ IsSeq(captured)' /\ IsSeq(meant)'
<1>1. PICK m : m = Meant(entry, fromStub)
  OBVIOUS
<1>2. m.entry = entry /\ m.fromStub = fromStub
  BY <1>1 DEF Meant
<1>3. captured' = Append(captured, got) /\ meant' = Append(meant, m)
  BY <1>1 DEF CaptureHost
<1>4. PICK n : n = Len(captured)
  OBVIOUS
<1>5. /\ n \in Nat /\ Len(captured') = n + 1 /\ captured'[n + 1] = got
      /\ \A i \in 1..n : captured'[i] = captured[i]
      /\ IsSeq(captured')
  BY <1>3, <1>4, Appended DEF NetInv
<1>6. /\ Len(meant') = n + 1 /\ meant'[n + 1] = m
      /\ \A i \in 1..n : meant'[i] = meant[i]
      /\ IsSeq(meant')
  <2>1. Len(meant) = n
    BY <1>4 DEF NetInv, CapturedAsMeant
  <2> QED BY <1>3, <2>1, Appended DEF NetInv
<1>7. ASSUME NEW i \in 1..(n + 1)
      PROVE  /\ captured'[i].port = meant'[i].entry.port
             /\ captured'[i].host = meant'[i].entry.host
             /\ ~meant'[i].fromStub => captured'[i].ip = meant'[i].entry.ip
  <2>1. CASE i = n + 1
    BY <1>2, <1>5, <1>6, <2>1 DEF AsMeant
  <2>2. CASE i \in 1..n
    BY <1>4, <1>5, <1>6, <2>2 DEF NetInv, CapturedAsMeant
  <2>3. i = n + 1 \/ i \in 1..n
    <3>1. n \in Nat
      BY <1>5
    <3> QED BY <3>1
  <2> QED BY <2>1, <2>2, <2>3, Zenon
<1>8. CapturedAsMeant'
  BY <1>5, <1>6, <1>7 DEF CapturedAsMeant
<1> QED BY <1>5, <1>6, <1>8 DEF IsSeq

\* A hook that parses an address does so if the port that was meant is in it,
\* and the address unless a stub has written it.
LEMMA TargetKeeps ==
  ASSUME NetInv, NEW bytes, NEW ip, NEW port, NEW fromStub,
         CaptureTarget(bytes, Captured(ip, port, ""), fromStub),
         ParsedPort(bytes) = port, ~fromStub => ParsedIP(bytes) = ip
  PROVE  NetInv'
<1>1. UNCHANGED <<sockaddrs, hostAddrs>>
  BY DEF CaptureTarget
<1>2. CASE UNCHANGED <<captured, meant>>
  BY <1>1, <1>2, NetUnchanged DEF netVars
<1>3. CASE /\ CaptureHost(Captured(ParsedIP(bytes), ParsedPort(bytes), ""))
           /\ meant' = Append(meant, Meant(Captured(ip, port, ""), fromStub))
  <2>1. AsMeant(Captured(ParsedIP(bytes), ParsedPort(bytes), ""),
                Captured(ip, port, ""), fromStub)
    BY DEF AsMeant, Captured
  <2> QED BY <1>1, <1>3, <2>1, CaptureKeeps DEF NetInv
<1> QED BY <1>2, <1>3 DEF CaptureTarget

\* So is what a hook captures of a name.
LEMMA NameKeeps ==
  ASSUME NetInv, NEW entry,
         \/ UNCHANGED <<captured, meant>>
         \/ CaptureHost(entry) /\ meant' = Append(meant, Meant(entry, FALSE))
  PROVE  CapturedAsMeant' /\ IsSeq(captured)' /\ IsSeq(meant)'
<1>1. CASE UNCHANGED <<captured, meant>>
  BY <1>1 DEF NetInv, CapturedAsMeant
<1>2. AsMeant(entry, entry, FALSE)
  BY DEF AsMeant
<1> QED BY <1>1, <1>2, CaptureKeeps

LEMMA ResolveKeeps ==
  ASSUME NetInv, NEW host, NEW service, Getaddrinfo(host, service)
  PROVE  NetInv'
<1>1. CapturedAsMeant' /\ IsSeq(captured)' /\ IsSeq(meant)'
  <2> DEFINE entry == Captured(FakeIP, ServicePort(service), host)
  <2>1. \/ UNCHANGED <<captured, meant>>
        \/ CaptureHost(entry) /\ meant' = Append(meant, Meant(entry, FALSE))
    BY DEF Getaddrinfo
  <2> QED BY <2>1, NameKeeps
<1>2. hostAddrs' = hostAddrs
  BY DEF Getaddrinfo
<1> DEFINE at == Bumps(<<64, 32>>)[2]
<1>3. \/ sockaddrs' = sockaddrs
      \/ sockaddrs' = [a \in DOMAIN sockaddrs \cup {at} |->
                         IF a = at THEN FakeSockaddr ELSE sockaddrs[a]]
  BY DEF Getaddrinfo
<1> HIDE DEF at
<1>4. \A a \in DOMAIN sockaddrs' : sockaddrs'[a] = FakeSockaddr
  BY <1>3 DEF NetInv
<1> QED BY <1>1, <1>2, <1>4 DEF NetInv

LEMMA HostByNameKeeps ==
  ASSUME NetInv, NEW host, Gethostbyname(host)
  PROVE  NetInv'
<1>1. CapturedAsMeant' /\ IsSeq(captured)' /\ IsSeq(meant)'
  <2> DEFINE entry == Captured(FakeIP, 0, host)
  <2>1. \/ UNCHANGED <<captured, meant>>
        \/ CaptureHost(entry) /\ meant' = Append(meant, Meant(entry, FALSE))
    BY DEF Gethostbyname
  <2> QED BY <2>1, NameKeeps
<1>2. sockaddrs' = sockaddrs
  BY DEF Gethostbyname
<1> DEFINE at == Bumps(<<64, 16>>)[3]
<1>3. \/ hostAddrs' = hostAddrs
      \/ hostAddrs' = [a \in DOMAIN hostAddrs \cup {at} |-> FakeIP]
  BY DEF Gethostbyname
<1> HIDE DEF at
<1>4. \A a \in DOMAIN hostAddrs' : hostAddrs'[a] = FakeIP
  BY <1>3 DEF NetInv
<1> QED BY <1>1, <1>2, <1>4 DEF NetInv

LEMMA PeerKeeps ==
  ASSUME NetInv, Getpeername
  PROVE  NetInv'
<1>1. /\ captured' = captured /\ meant' = meant /\ hostAddrs' = hostAddrs
      /\ sockaddrs' = [a \in DOMAIN sockaddrs \cup {PeerBuf} |->
                         IF a = PeerBuf THEN FakeSockaddr ELSE sockaddrs[a]]
  BY DEF Getpeername
<1>2. \A a \in DOMAIN sockaddrs' : sockaddrs'[a] = FakeSockaddr
  BY <1>1 DEF NetInv
<1> QED BY <1>1, <1>2 DEF NetInv, CapturedAsMeant

\* The addresses a guest connects to are four bytes.
LEMMA GuestAddresses ==
  ASSUME NetInv, NEW ip \in GuestIPs
  PROVE  ip \in Address
<1>1. FakeIP \in Address
  BY DEF FakeIP, Address
<1>2. \A a \in DOMAIN hostAddrs : hostAddrs[a] = FakeIP
  BY DEF NetInv
<1>3. IPs \subseteq Address
  <2>1. 0..255 \subseteq Nat
    OBVIOUS
  <2> QED BY <2>1, NetworkAssumption DEF Address
<1> QED BY <1>1, <1>2, <1>3 DEF GuestIPs

LEMMA GuestShorts ==
  ASSUME NEW n \in Ports \cup Families
  PROVE  IsUint16(n)
BY NetworkAssumption

LEMMA NetStep ==
  ASSUME NetInv, [ServicesNext]_servicesVars
  PROVE  NetInv'
<1>1. CASE NetNext
  <2>1. ASSUME NEW family \in Families, NEW port \in Ports, NEW ip \in GuestIPs,
               \/ Connect(Compose(family, port, ip),
                          Captured(ip, port, ""), FALSE)
               \/ Sendto(Compose(family, port, ip),
                         Captured(ip, port, ""), FALSE, port)
        PROVE  NetInv'
    <3>1. /\ ParsedIP(Compose(family, port, ip)) = ip
          /\ ParsedPort(Compose(family, port, ip)) = port
      BY ComposedParses, GuestAddresses, GuestShorts
    <3>2. CaptureTarget(Compose(family, port, ip), Captured(ip, port, ""),
                        FALSE)
      BY <2>1 DEF Connect, Sendto
    <3> QED BY <3>1, <3>2, TargetKeeps
  <2>2. ASSUME NEW a \in DOMAIN sockaddrs,
               \/ Connect(sockaddrs[a], Captured(FakeIP, FakePort, ""), TRUE)
               \/ Sendto(sockaddrs[a], Captured(FakeIP, FakePort, ""), TRUE,
                         FakePort)
        PROVE  NetInv'
    <3>1. sockaddrs[a] = FakeSockaddr
      BY DEF NetInv
    <3>2. CaptureTarget(FakeSockaddr, Captured(FakeIP, FakePort, ""), TRUE)
      BY <2>2, <3>1 DEF Connect, Sendto
    <3> QED BY <3>2, FakeParses, TargetKeeps
  <2>3. ASSUME NEW host, NEW service, Getaddrinfo(host, service) PROVE NetInv'
    BY <2>3, ResolveKeeps
  <2>4. ASSUME NEW host, Gethostbyname(host) PROVE NetInv'
    BY <2>4, HostByNameKeeps
  <2>5. CASE Getpeername
    BY <2>5, PeerKeeps
  <2>6. CASE \/ Bind \/ Freeaddrinfo \/ Gethostbyaddr \/ InetAton \/ InetNtoa
             \/ InetPton(PeerBuf) \/ \E port \in Ports : Htons(port)
    <3>1. UNCHANGED netVars
      BY <2>6 DEF Bind, Freeaddrinfo, Gethostbyaddr, InetAton, InetNtoa,
                  InetPton, Htons
    <3> QED BY <3>1, NetUnchanged
  <2>7. CASE ClearCapturedHosts
    <3>1. CapturedAsMeant' /\ IsSeq(captured)' /\ IsSeq(meant)'
      <4>1. (captured = <<>> /\ meant = <<>>)'
        BY <2>7 DEF ClearCapturedHosts
      <4>2. (captured = <<>> /\ meant = <<>> =>
               CapturedAsMeant /\ IsSeq(captured) /\ IsSeq(meant))'
        BY NothingCaptured, PTL
      <4> QED BY <4>1, <4>2
    <3> QED BY <2>7, <3>1 DEF ClearCapturedHosts, NetInv
  <2> QED BY <1>1, <2>1, <2>2, <2>3, <2>4, <2>5, <2>6, <2>7 DEF NetNext
<1>2. CASE NextGuest
  BY <1>2 DEF NextGuest, NetInv, CapturedAsMeant
<1>3. CASE UNCHANGED netVars
  BY <1>3, NetUnchanged
<1>4. CASE UNCHANGED servicesVars
  BY <1>4, NetUnchanged DEF servicesVars
<1> QED BY <1>1, <1>2, <1>3, <1>4, StepsOfNetwork

\* What is captured is what was meant, for every port and order of calls and
\* for every address that no stub has written
\* (network/dns.go:29-181, network/socket.go:49-92, 136-210).
THEOREM HostsCaptured == ServicesSpec => []CapturedAsMeant
<1>1. NetInv /\ [ServicesNext]_servicesVars => NetInv'
  BY NetStep
<1>2. NetInv => CapturedAsMeant
  BY DEF NetInv
<1> QED BY <1>1, <1>2, NetBegins, PTL DEF ServicesSpec

-----------------------------------------------------------------------------
(***************************************************************************)
(* The heap pointer before each Malloc of one hook.  Bumps is a recursive  *)
(* function; that there is one with its equation, and that the pointers    *)
(* rise, follows by looking at the least place where it would fail.        *)
(***************************************************************************)
\* The pointer after a Malloc of n bytes.
Bumped(pointer, n) == Add(pointer, AlignUp(n))

\* p is the heap pointer before each Malloc of the sizes and after the last.
IsBumps(p, sizes, m) ==
  p = [i \in 1..(m + 1) |-> IF i = 1 THEN heapPtr
                            ELSE Bumped(p[i - 1], sizes[i - 1])]

Lesser == {p \in Nat \X Nat : p[1] < p[2]}

LEMMA LesserIsWellFounded == IsWellFoundedOn(Lesser, Nat)
<1>1. OpToRel(<, Nat) = Lesser
  BY Zenon DEF OpToRel, Lesser
<1> QED BY <1>1, NatLessThanWellFounded, Zenon

LEMMA LeastNumber ==
  ASSUME NEW S \in SUBSET Nat, S # {}
  PROVE  \E x \in S : \A y \in S : x <= y
<1>1. PICK x \in S : \A y \in S : ~(<<y, x>> \in Lesser)
  BY LesserIsWellFounded, WFMin
<1>2. ASSUME NEW y \in S PROVE x <= y
  <2>1. <<y, x>> \in Nat \X Nat
    OBVIOUS
  <2>2. ~(y < x)
    BY <1>1, <2>1 DEF Lesser
  <2> QED BY <2>2
<1> QED BY <1>2

LEMMA BumpsExist ==
  ASSUME NEW sizes, NEW n \in Nat
  PROVE  \E p : IsBumps(p, sizes, n)
<1> DEFINE T == {m \in Nat : ~ \E p : IsBumps(p, sizes, m)}
<1> SUFFICES ASSUME T # {} PROVE FALSE
  OBVIOUS
<1>1. PICK m \in T : \A k \in T : m <= k
  <2> HIDE DEF T
  <2>1. T \subseteq Nat
    BY DEF T
  <2> QED BY <2>1, LeastNumber
<1>2. m # 0
  <2>1. IsBumps([i \in 1..1 |-> heapPtr], sizes, 0)
    BY DEF IsBumps
  <2> QED BY <2>1
<1>3. PICK p : IsBumps(p, sizes, m - 1)
  <2>1. m - 1 \in Nat /\ ~(m <= m - 1)
    BY <1>2
  <2> QED BY <1>1, <2>1
<1> DEFINE q == [i \in 1..(m + 1) |-> IF i <= m THEN p[i]
                                      ELSE Bumped(p[m], sizes[m])]
<1>4. IsBumps(q, sizes, m)
  <2>1. p = [i \in 1..m |-> IF i = 1 THEN heapPtr
                            ELSE Bumped(p[i - 1], sizes[i - 1])]
    BY <1>3 DEF IsBumps
  <2>2. \A i \in 1..(m + 1) :
          q[i] = IF i = 1 THEN heapPtr ELSE Bumped(q[i - 1], sizes[i - 1])
    <3> SUFFICES ASSUME NEW i \in 1..(m + 1)
                 PROVE  q[i] = IF i = 1 THEN heapPtr
                               ELSE Bumped(q[i - 1], sizes[i - 1])
      OBVIOUS
    <3>1. CASE i = 1
      BY <1>2, <2>1, <3>1
    <3>2. CASE i # 1 /\ i <= m
      <4>1. q[i] = p[i] /\ q[i - 1] = p[i - 1]
        BY <3>2
      <4>2. p[i] = Bumped(p[i - 1], sizes[i - 1])
        BY <2>1, <3>2
      <4> QED BY <3>2, <4>1, <4>2
    <3>3. CASE i = m + 1
      <4>1. q[i] = Bumped(p[m], sizes[m]) /\ q[m] = p[m] /\ i - 1 = m
        BY <1>2, <3>3
      <4> QED BY <1>2, <3>3, <4>1
    <3> QED BY <3>1, <3>2, <3>3
  <2> HIDE DEF q
  <2>3. q = [i \in 1..(m + 1) |-> q[i]]
    BY DEF q
  <2> QED BY <2>2, <2>3 DEF IsBumps
<1> QED BY <1>4

LEMMA BumpsAre ==
  ASSUME NEW sizes, NEW n \in Nat, Len(sizes) = n
  PROVE  IsBumps(Bumps(sizes), sizes, n)
<1>1. PICK p : IsBumps(p, sizes, n)
  BY BumpsExist
<1> QED BY <1>1 DEF Bumps, IsBumps, Bumped

\* A request that does not wrap, wherever the heap pointer is.
Fits(n) == n \in Nat /\ HeapEnd + n + 15 < Modulus

AllFit(sizes) == /\ sizes \in Seq(Nat)
                 /\ \A i \in 1..Len(sizes) : Fits(sizes[i])

NoneFails(p, k) == \A i \in 2..(k - 1) : ~(p[i] >= HeapEnd)

\* The kth pointer is above all that was handed out before it.
InOrder(p, sizes, k) ==
  /\ p[k] \in Nat /\ p[k] < Modulus /\ heapPtr <= p[k] /\ p[k] % 16 = 0
  /\ \A j \in 1..(k - 1) : p[j] \in Nat /\ p[j] + sizes[j] <= p[k]

LEMMA HeapFacts ==
  ASSUME Inv, ~panicked
  PROVE  /\ heapPtr \in Nat /\ heapPtr >= HeapBase /\ heapPtr % 16 = 0
         /\ heapPtr <= HeapEnd /\ HeapEnd < Modulus
         /\ HeapBase \in Nat /\ HeapEnd \in Nat /\ Modulus \in Nat
         /\ blocks \in Seq(Block)
BY HeapAssumption DEF Inv, TypeOK, HeapInv, Word, HeapEnd

\* One Malloc after the others.
LEMMA OneBump ==
  ASSUME NEW a \in Nat, a <= HeapEnd, a % 16 = 0, NEW n, Fits(n)
  PROVE  /\ Bumped(a, n) \in Nat /\ Bumped(a, n) < Modulus
         /\ Bumped(a, n) % 16 = 0 /\ a + n <= Bumped(a, n)
<1>1. n \in Nat /\ HeapEnd \in Nat /\ Modulus \in Nat /\ HeapEnd + n + 15 < Modulus
  BY HeapAssumption DEF Fits, HeapEnd
<1>2. PICK m \in Nat : /\ m = AlignUp(n) /\ m % 16 = 0
                       /\ n <= m /\ m <= n + 15
  BY <1>1, AlignUpSmall
<1>3. a + m < Modulus
  BY <1>1, <1>2
<1>4. Bumped(a, n) = a + m
  BY <1>2, <1>3, AddSmall DEF Bumped
<1>5. (a + m) % 16 = 0
  BY <1>2
<1> QED BY <1>1, <1>2, <1>3, <1>4, <1>5

LEMMA BumpsInOrder ==
  ASSUME Inv, ~panicked, NEW sizes, AllFit(sizes),
         NEW p, IsBumps(p, sizes, Len(sizes)),
         NEW k \in 1..(Len(sizes) + 1), NoneFails(p, k)
  PROVE  InOrder(p, sizes, k)
<1>0. /\ heapPtr \in Nat /\ heapPtr % 16 = 0 /\ heapPtr <= HeapEnd
      /\ HeapEnd \in Nat /\ Modulus \in Nat /\ HeapEnd < Modulus
  BY HeapFacts
<1>1. Len(sizes) \in Nat
  BY DEF AllFit
<1>2. \A i \in 1..(Len(sizes) + 1) :
        p[i] = IF i = 1 THEN heapPtr ELSE Bumped(p[i - 1], sizes[i - 1])
  BY <1>1 DEF IsBumps
<1> DEFINE T == {i \in 1..(Len(sizes) + 1) :
                   NoneFails(p, i) /\ ~InOrder(p, sizes, i)}
<1> SUFFICES ASSUME T # {} PROVE FALSE
  OBVIOUS
<1>3. PICK m \in T : \A i \in T : m <= i
  <2>1. T \in SUBSET Nat
    OBVIOUS
  <2> HIDE DEF T
  <2> QED BY <2>1, LeastNumber
<1>4. m \in 1..(Len(sizes) + 1) /\ NoneFails(p, m) /\ ~InOrder(p, sizes, m)
  OBVIOUS
<1>5. m # 1
  <2> SUFFICES ASSUME m = 1 PROVE InOrder(p, sizes, 1)
    BY <1>4
  <2>1. p[1] = heapPtr
    BY <1>1, <1>2
  <2>2. \A j \in 1..(1 - 1) : FALSE
    OBVIOUS
  <2> QED BY <1>0, <2>1, <2>2 DEF InOrder
<1>6. PICK l \in 1..Len(sizes) : m = l + 1 /\ l \in Nat
  <2>1. m - 1 \in 1..Len(sizes) /\ m = (m - 1) + 1
    BY <1>1, <1>4, <1>5
  <2> QED BY <2>1
<1>7. NoneFails(p, l)
  BY <1>4, <1>6 DEF NoneFails
<1>8. InOrder(p, sizes, l)
  <2>1. l \in 1..(Len(sizes) + 1) /\ ~(m <= l)
    BY <1>1, <1>6
  <2>2. l \notin T
    BY <1>3, <2>1
  <2> QED BY <1>7, <2>1, <2>2
<1>9. p[l] <= HeapEnd
  <2>1. CASE l = 1
    <3>1. 1 \in 1..(Len(sizes) + 1)
      BY <1>1
    <3>2. p[1] = heapPtr
      BY <1>2, <3>1
    <3> QED BY <1>0, <2>1, <3>2
  <2>2. CASE l # 1
    <3>1. l \in 2..(m - 1)
      BY <1>6, <2>2
    <3>2. ~(p[l] >= HeapEnd) /\ p[l] \in Nat
      BY <1>4, <1>8, <3>1 DEF NoneFails, InOrder
    <3> QED BY <1>0, <3>2
  <2> QED BY <2>1, <2>2
<1>10. PICK a \in Nat : a = p[l] /\ heapPtr <= a /\ a % 16 = 0 /\ a <= HeapEnd
  BY <1>8, <1>9 DEF InOrder
<1>11. PICK n \in Nat : n = sizes[l] /\ Fits(n)
  BY <1>6 DEF AllFit, Fits
<1>12. p[m] = Bumped(a, n)
  <2>1. m - 1 = l /\ m # 1
    BY <1>5, <1>6
  <2>2. p[m] = Bumped(p[m - 1], sizes[m - 1])
    BY <1>2, <1>4, <1>5
  <2> QED BY <1>10, <1>11, <2>1, <2>2
<1>13. PICK b \in Nat : /\ b = p[m] /\ b < Modulus /\ b % 16 = 0 /\ a + n <= b
  BY <1>10, <1>11, <1>12, OneBump
<1>17. a + n <= b /\ a <= b
  <2>1. a + n <= b
    BY <1>13
  <2>2. \A x, y, z \in Nat : x + y <= z => x <= z
    OBVIOUS
  <2> QED BY <2>1, <2>2
<1>14. \A j \in 1..(m - 1) : p[j] \in Nat /\ p[j] + sizes[j] <= p[m]
  <2> SUFFICES ASSUME NEW j \in 1..(m - 1)
               PROVE  p[j] \in Nat /\ p[j] + sizes[j] <= p[m]
    OBVIOUS
  <2>1. CASE j = l
    BY <1>10, <1>11, <1>13, <2>1
  <2>2. CASE j # l
    <3>1. j \in 1..(l - 1) /\ j \in 1..Len(sizes)
      BY <1>1, <1>6, <2>2
    <3>2. p[j] \in Nat /\ p[j] + sizes[j] <= p[l]
      BY <1>8, <3>1 DEF InOrder
    <3>3. PICK x \in Nat, y \in Nat : x = p[j] /\ y = sizes[j]
      BY <3>1, <3>2 DEF AllFit, Fits
    <3>4. x + y <= a
      BY <1>10, <3>2, <3>3
    <3>5. x + y <= b
      <4>1. x + y \in Nat /\ \A u, v, w \in Nat : u <= v /\ v <= w => u <= w
        OBVIOUS
      <4> QED BY <1>17, <3>4, <4>1
    <3> QED BY <1>13, <3>3, <3>5
  <2> QED BY <2>1, <2>2
<1>15. heapPtr <= p[m]
  <2>1. heapPtr \in Nat /\ heapPtr <= a /\ a <= b
    BY <1>0, <1>10, <1>17
  <2>2. \A u, v, w \in Nat : u <= v /\ v <= w => u <= w
    OBVIOUS
  <2>3. heapPtr <= b
    BY <2>1, <2>2
  <2> QED BY <1>13, <2>3
<1>16. InOrder(p, sizes, m)
  BY <1>13, <1>14, <1>15 DEF InOrder
<1> QED BY <1>4, <1>16

\* What a hook does to the heap when it panics, and when it does not.
LEMMA GiveFails ==
  ASSUME Inv, ~panicked, NEW sizes, AllFit(sizes),
         NEW p, IsBumps(p, sizes, Len(sizes)),
         NEW k \in 2..(Len(sizes) + 1), NoneFails(p, k),
         heapPtr' = p[k], panicked' = TRUE, UNCHANGED blocks
  PROVE  Inv'
<1>1. /\ heapPtr \in Nat /\ heapPtr >= HeapBase /\ HeapBase \in Nat
      /\ Modulus \in Nat /\ blocks \in Seq(Block)
  BY HeapFacts
<1>2. PICK a \in Nat : a = p[k] /\ a < Modulus /\ heapPtr <= a /\ a % 16 = 0
  <2>1. Len(sizes) \in Nat /\ k \in 1..(Len(sizes) + 1)
    BY DEF AllFit
  <2> QED BY <2>1, BumpsInOrder DEF InOrder
<1>3. a \in Word /\ HeapBase <= a
  BY <1>1, <1>2 DEF Word
<1>4. TypeOK'
  BY <1>1, <1>2, <1>3 DEF TypeOK
<1>5. ASSUME NEW i \in 1..Len(blocks)
      PROVE  blocks[i].addr + blocks[i].size <= a
  <2>1. PICK e, f \in Nat : blocks[i].addr = e /\ blocks[i].size = f
    BY <1>1, ElementOfSeq, BlockFields
  <2>2. e + f <= heapPtr
    BY <2>1 DEF Inv, HeapInv
  <2>3. \A x, y, z, u \in Nat : x + y <= z /\ z <= u => x + y <= u
    OBVIOUS
  <2> QED BY <1>1, <1>2, <2>1, <2>2, <2>3
<1>6. HeapInv'
  <2>1. heapPtr' >= HeapBase /\ heapPtr' % 16 = 0
    BY <1>1, <1>2, <1>3
  <2>2. \A i \in 1..Len(blocks') :
          /\ blocks'[i].addr >= HeapBase
          /\ blocks'[i].addr % 16 = 0
          /\ blocks'[i].addr + blocks'[i].size <= heapPtr'
          /\ blocks'[i].addr + blocks'[i].size <= HeapEnd
    BY <1>2, <1>5 DEF Inv, HeapInv
  <2>3. \A i, j \in 1..Len(blocks') :
          i < j => blocks'[i].addr + blocks'[i].size <= blocks'[j].addr
    BY DEF Inv, HeapInv
  <2> QED BY <2>1, <2>2, <2>3 DEF HeapInv
<1> QED BY <1>4, <1>6 DEF Inv

\* The blocks of one hook.
NewBlocks(p, sizes) ==
  [i \in 1..Len(sizes) |-> [addr |-> p[i], size |-> sizes[i]]]

LEMMA GiveSucceeds ==
  ASSUME Inv, ~panicked, NEW sizes, AllFit(sizes),
         NEW p, IsBumps(p, sizes, Len(sizes)),
         NoneFails(p, Len(sizes) + 2),
         heapPtr' = p[Len(sizes) + 1],
         blocks' = blocks \o NewBlocks(p, sizes), UNCHANGED panicked
  PROVE  Inv'
<1>1. /\ heapPtr \in Nat /\ heapPtr >= HeapBase /\ HeapBase \in Nat
      /\ heapPtr <= HeapEnd /\ HeapEnd \in Nat /\ HeapEnd < Modulus
      /\ Modulus \in Nat /\ blocks \in Seq(Block)
  BY HeapFacts
<1>2. PICK n \in Nat, b \in Nat : n = Len(sizes) /\ b = Len(blocks)
  BY <1>1 DEF AllFit
<1>3. ASSUME NEW k \in 1..(n + 1)
      PROVE  InOrder(p, sizes, k)
  <2>1. NoneFails(p, k)
    BY <1>2 DEF NoneFails
  <2> QED BY <1>2, <2>1, BumpsInOrder
<1>4. PICK top \in Nat : /\ top = p[n + 1] /\ top < Modulus
                         /\ heapPtr <= top /\ top % 16 = 0
  BY <1>3 DEF InOrder
<1>5. top <= HeapEnd
  <2>1. CASE n = 0
    <3>1. p[1] = heapPtr
      BY <1>2, <2>1 DEF IsBumps
    <3> QED BY <1>1, <1>4, <2>1, <3>1
  <2>2. CASE n # 0
    <3>1. n + 1 \in 2..(Len(sizes) + 2 - 1)
      BY <1>2, <2>2
    <3>2. ~(top >= HeapEnd)
      BY <1>4, <3>1 DEF NoneFails
    <3> QED BY <1>1, <3>2
  <2> QED BY <2>1, <2>2
<1>6. ASSUME NEW i \in 1..n
      PROVE  /\ p[i] \in Nat /\ p[i] < Modulus /\ sizes[i] \in Nat
             /\ heapPtr <= p[i] /\ p[i] % 16 = 0 /\ p[i] + sizes[i] <= top
  <2>1. i \in 1..(n + 1) /\ n + 1 \in 1..(n + 1) /\ i \in 1..((n + 1) - 1)
    OBVIOUS
  <2>2. InOrder(p, sizes, i) /\ InOrder(p, sizes, n + 1)
    BY <1>3, <2>1
  <2>3. p[i] + sizes[i] <= p[n + 1]
    BY <2>1, <2>2 DEF InOrder
  <2> QED BY <1>2, <1>4, <2>2, <2>3 DEF InOrder, AllFit, Fits
<1> DEFINE given == NewBlocks(p, sizes)
<1>7. given \in Seq(Block) /\ Len(given) = n
  <2>1. \A i \in 1..n : [addr |-> p[i], size |-> sizes[i]] \in Block
    BY <1>1, <1>6 DEF Block, Word
  <2>2. given \in [1..n -> Block]
    BY <1>2, <2>1 DEF NewBlocks
  <2>3. \A m \in Nat : \A f : f \in [1..m -> Block] => f \in Seq(Block) /\ Len(f) = m
    OBVIOUS
  <2> QED BY <2>2, <2>3
<1>8. \A i \in 1..n : given[i].addr = p[i] /\ given[i].size = sizes[i]
  BY <1>2 DEF NewBlocks
<1> HIDE DEF given
<1>9. /\ blocks' \in Seq(Block) /\ Len(blocks') = b + n
      /\ \A i \in 1..b : blocks'[i] = blocks[i]
      /\ \A i \in 1..n : blocks'[b + i] = given[i]
  <2>1. blocks' = blocks \o given
    BY DEF given
  <2> HIDE DEF given
  <2>2. /\ blocks \o given \in Seq(Block)
        /\ Len(blocks \o given) = Len(blocks) + Len(given)
        /\ \A i \in 1..(Len(blocks) + Len(given)) :
             (blocks \o given)[i] = IF i <= Len(blocks) THEN blocks[i]
                                    ELSE given[i - Len(blocks)]
    BY <1>1, <1>7, ConcatProperties
  <2>3. \A i \in 1..b : i \in 1..(b + n) /\ i <= b
    OBVIOUS
  <2>4. \A i \in 1..n : b + i \in 1..(b + n) /\ ~(b + i <= b) /\ (b + i) - b = i
    OBVIOUS
  <2> QED BY <1>2, <1>7, <2>1, <2>2, <2>3, <2>4
\* An old block, or a new one.
<1>10. ASSUME NEW i \in 1..Len(blocks')
       PROVE  \/ i \in 1..b
              \/ \E l \in 1..n : i = b + l
  <2>1. i \in Nat /\ i <= b + n /\ 1 <= i
    BY <1>9
  <2>2. CASE i <= b
    BY <2>1, <2>2
  <2>3. CASE ~(i <= b)
    <3>1. i - b \in 1..n /\ i = b + (i - b)
      BY <2>1, <2>3
    <3> QED BY <3>1
  <2> QED BY <2>2, <2>3
<1>11. ASSUME NEW i \in 1..b
       PROVE  /\ blocks'[i].addr \in Nat /\ blocks'[i].size \in Nat
              /\ blocks'[i].addr >= HeapBase /\ blocks'[i].addr % 16 = 0
              /\ blocks'[i].addr + blocks'[i].size <= heapPtr
              /\ blocks'[i].addr + blocks'[i].size <= HeapEnd
  <2>1. blocks[i].addr \in Nat /\ blocks[i].size \in Nat
    BY <1>1, <1>2, ElementOfSeq, BlockFields
  <2> QED BY <1>2, <1>9, <2>1 DEF Inv, HeapInv
<1>12. ASSUME NEW l \in 1..n
       PROVE  blocks'[b + l].addr = p[l] /\ blocks'[b + l].size = sizes[l]
  BY <1>8, <1>9
<1>13. TypeOK'
  <2>1. heapPtr' \in Word
    BY <1>1, <1>2, <1>4 DEF Word
  <2>2. panicked' \in BOOLEAN
    BY DEF Inv, TypeOK
  <2> QED BY <1>9, <2>1, <2>2 DEF TypeOK
<1>14. \A x, y, z, u \in Nat : x + y <= z /\ z <= u => x + y <= u
  OBVIOUS
<1>15. \A i \in 1..Len(blocks') :
         /\ blocks'[i].addr >= HeapBase
         /\ blocks'[i].addr % 16 = 0
         /\ blocks'[i].addr + blocks'[i].size <= heapPtr'
         /\ blocks'[i].addr + blocks'[i].size <= HeapEnd
  <2> SUFFICES ASSUME NEW i \in 1..Len(blocks')
               PROVE  /\ blocks'[i].addr >= HeapBase
                      /\ blocks'[i].addr % 16 = 0
                      /\ blocks'[i].addr + blocks'[i].size <= heapPtr'
                      /\ blocks'[i].addr + blocks'[i].size <= HeapEnd
    OBVIOUS
  <2>1. heapPtr' = top
    BY <1>2, <1>4
  <2>2. CASE i \in 1..b
    <3>1. blocks'[i].addr + blocks'[i].size <= top
      BY <1>1, <1>4, <1>11, <1>14, <2>2
    <3> QED BY <1>11, <2>1, <2>2, <3>1
  <2>3. ASSUME NEW l \in 1..n, i = b + l
        PROVE  /\ blocks'[i].addr >= HeapBase
               /\ blocks'[i].addr % 16 = 0
               /\ blocks'[i].addr + blocks'[i].size <= heapPtr'
               /\ blocks'[i].addr + blocks'[i].size <= HeapEnd
    <3>1. PICK x, y \in Nat : /\ x = p[l] /\ y = sizes[l] /\ heapPtr <= x
                              /\ x % 16 = 0 /\ x + y <= top
      BY <1>6
    <3>2. x >= HeapBase
      <4>1. \A u, v, w \in Nat : u >= v /\ u <= w => w >= v
        OBVIOUS
      <4> QED BY <1>1, <3>1, <4>1
    <3>3. x + y <= HeapEnd
      BY <1>1, <1>5, <1>14, <3>1
    <3> QED BY <1>12, <2>1, <2>3, <3>1, <3>2, <3>3
  <2> QED BY <1>10, <2>2, <2>3
<1>16. \A i, j \in 1..Len(blocks') :
         i < j => blocks'[i].addr + blocks'[i].size <= blocks'[j].addr
  <2> SUFFICES ASSUME NEW i \in 1..Len(blocks'), NEW j \in 1..Len(blocks'), i < j
               PROVE  blocks'[i].addr + blocks'[i].size <= blocks'[j].addr
    OBVIOUS
  <2>1. CASE i \in 1..b /\ j \in 1..b
    BY <1>2, <1>9, <2>1 DEF Inv, HeapInv
  <2>2. ASSUME i \in 1..b, NEW l \in 1..n, j = b + l
        PROVE  blocks'[i].addr + blocks'[i].size <= blocks'[j].addr
    <3>1. PICK x \in Nat : x = p[l] /\ heapPtr <= x
      BY <1>6
    <3>2. PICK e, f \in Nat : /\ e = blocks'[i].addr /\ f = blocks'[i].size
                              /\ e + f <= heapPtr
      BY <1>11, <2>2
    <3>3. e + f <= x
      BY <1>1, <1>14, <3>1, <3>2
    <3> QED BY <1>12, <2>2, <3>1, <3>2, <3>3
  <2>3. ASSUME NEW k \in 1..n, NEW l \in 1..n, i = b + k, j = b + l
        PROVE  blocks'[i].addr + blocks'[i].size <= blocks'[j].addr
    <3>1. k \in 1..(l - 1) /\ l \in 1..(n + 1)
      BY <2>3
    <3>2. p[k] + sizes[k] <= p[l]
      BY <1>3, <3>1 DEF InOrder
    <3> QED BY <1>12, <2>3, <3>2
  <2>4. ASSUME j \in 1..b, NEW l \in 1..n, i = b + l
        PROVE  FALSE
    BY <2>4
  <2> QED BY <1>10, <2>1, <2>2, <2>3, <2>4
<1>17. heapPtr' >= HeapBase /\ heapPtr' % 16 = 0 /\ heapPtr' <= HeapEnd
  <2>1. \A u, v, w \in Nat : u >= v /\ u <= w => w >= v
    OBVIOUS
  <2> QED BY <1>1, <1>2, <1>4, <1>5, <2>1
<1>18. HeapInv'
  BY <1>15, <1>16, <1>17 DEF HeapInv
<1> QED BY <1>13, <1>18 DEF Inv

-----------------------------------------------------------------------------
(***************************************************************************)
(* Types.  Whatever is asked for, the heap pointer stays a register value. *)
(***************************************************************************)
LEMMA BumpedWord ==
  ASSUME NEW a \in Nat, NEW n \in Nat
  PROVE  Bumped(a, n) \in Word
<1>1. Modulus \in Nat \ {0}
  BY HeapAssumption
<1>2. \A x \in Nat : x % Modulus \in 0..(Modulus - 1) /\ x % Modulus \in Nat
  BY <1>1
<1>3. PICK m \in Nat : m = Add(n, 15)
  BY <1>2 DEF Add
<1>4. AlignUp(n) = m - (m % 16)
  BY <1>3 DEF AlignUp
<1>5. m - (m % 16) \in Nat
  OBVIOUS
<1>6. PICK r \in Nat : r = AlignUp(n)
  BY <1>4, <1>5
<1>7. Bumped(a, n) = (a + r) % Modulus
  BY <1>6 DEF Bumped, Add
<1>8. a + r \in Nat
  OBVIOUS
<1> QED BY <1>2, <1>7, <1>8 DEF Word

LEMMA WordsAreNumbers == Word \subseteq Nat
<1>1. Modulus \in Nat
  BY HeapAssumption
<1> QED BY <1>1 DEF Word

LEMMA BumpsAreWords ==
  ASSUME heapPtr \in Word, NEW sizes \in Seq(Nat),
         NEW p, IsBumps(p, sizes, Len(sizes))
  PROVE  \A k \in 1..(Len(sizes) + 1) : p[k] \in Word
<1>1. Len(sizes) \in Nat
  OBVIOUS
<1>2. \A i \in 1..(Len(sizes) + 1) :
        p[i] = IF i = 1 THEN heapPtr ELSE Bumped(p[i - 1], sizes[i - 1])
  BY <1>1 DEF IsBumps
<1> DEFINE T == {i \in 1..(Len(sizes) + 1) : p[i] \notin Word}
<1> SUFFICES ASSUME T # {} PROVE FALSE
  OBVIOUS
<1>3. PICK m \in T : \A i \in T : m <= i
  <2>1. T \in SUBSET Nat
    OBVIOUS
  <2> HIDE DEF T
  <2> QED BY <2>1, LeastNumber
<1>4. m \in 1..(Len(sizes) + 1) /\ p[m] \notin Word
  OBVIOUS
<1>5. CASE m = 1
  BY <1>2, <1>4, <1>5
<1>6. CASE m # 1
  <2>1. PICK l \in 1..Len(sizes) : m = l + 1 /\ m - 1 = l
    <3>1. m - 1 \in 1..Len(sizes) /\ m = (m - 1) + 1
      BY <1>1, <1>4, <1>6
    <3> QED BY <3>1
  <2>2. l \in 1..(Len(sizes) + 1) /\ ~(m <= l)
    BY <1>1, <2>1
  <2>3. p[l] \in Nat
    <3>1. l \notin T
      BY <1>3, <2>2
    <3> QED BY <2>2, <3>1, WordsAreNumbers
  <2>4. sizes[l] \in Nat
    OBVIOUS
  <2>5. p[m] = Bumped(p[l], sizes[l])
    BY <1>2, <1>4, <1>6, <2>1
  <2> QED BY <1>4, <2>3, <2>4, <2>5, BumpedWord
<1> QED BY <1>5, <1>6

\* The types of what every hook touches.
LEMMA CallFacts ==
  ASSUME CallTypeOK
  PROVE  /\ heapPtr \in Word /\ heapPtr \in Nat /\ blocks \in Seq(Block)
         /\ panicked \in BOOLEAN /\ x0 \in Nat /\ stopped \in BOOLEAN
         /\ emulators \in 1..MaxEmulators
BY WordsAreNumbers DEF CallTypeOK, TypeOK

LEMMA AnswerTypes ==
  ASSUME CallTypeOK, NEW v \in Nat, Answer(v)
  PROVE  CallTypeOK'
BY DEF CallTypeOK, TypeOK, Answer, vars

LEMMA ReturnTypes ==
  ASSUME CallTypeOK, Return
  PROVE  CallTypeOK'
BY DEF CallTypeOK, TypeOK, Return, Answer, vars

LEMMA StopTypes ==
  ASSUME CallTypeOK, Stop
  PROVE  CallTypeOK'
BY DEF CallTypeOK, TypeOK, Stop, vars

LEMMA GiveBlockTypes ==
  ASSUME CallTypeOK, NEW n \in Nat, NEW size \in Nat, GiveBlock(Malloc(n, size))
  PROVE  CallTypeOK'
<1>1. /\ heapPtr \in Word /\ heapPtr \in Nat /\ blocks \in Seq(Block)
      /\ x0 \in Nat
  BY CallFacts
<1>2. heapPtr' = Bumped(heapPtr, n)
  BY DEF GiveBlock, Malloc, Bumped
<1>3. heapPtr' \in Word
  BY <1>1, <1>2, BumpedWord
<1>4. [addr |-> heapPtr, size |-> size] \in Block
  BY <1>1 DEF Block
<1>5. blocks' \in Seq(Block) /\ panicked' \in BOOLEAN
  <2>1. \/ panicked' = TRUE /\ blocks' = blocks
        \/ /\ panicked' = panicked
           /\ blocks' = Append(blocks, [addr |-> heapPtr, size |-> size])
    BY DEF GiveBlock, Malloc
  <2>2. panicked' \in BOOLEAN
    BY <1>1, <2>1, CallFacts
  <2>3. blocks' \in Seq(Block)
    BY <1>1, <1>4, <2>1, AppendProperties
  <2> QED BY <2>2, <2>3
<1>6. x0' \in Nat /\ stopped' = stopped /\ emulators' = emulators
  BY <1>1 DEF GiveBlock
<1> QED BY <1>3, <1>5, <1>6 DEF CallTypeOK, TypeOK

LEMMA GiveTypes ==
  ASSUME CallTypeOK, NEW sizes \in Seq(Nat), NEW v \in Nat, Give(sizes, v)
  PROVE  CallTypeOK'
<1>1. /\ heapPtr \in Word /\ blocks \in Seq(Block) /\ x0 \in Nat
      /\ panicked \in BOOLEAN
  BY CallFacts
<1>2. PICK n \in Nat : n = Len(sizes)
  OBVIOUS
<1> DEFINE p == Bumps(sizes)
           fails == {i \in 2..(Len(sizes) + 1) : p[i] >= HeapEnd}
<1>3. IsBumps(p, sizes, Len(sizes))
  BY <1>2, BumpsAre
<1> HIDE DEF p
<1>4. \A k \in 1..(Len(sizes) + 1) : p[k] \in Word
  BY <1>1, <1>3, BumpsAreWords
<1>5. stopped' = stopped /\ emulators' = emulators
  BY DEF Give
<1>6. CASE fails = {}
  <2>1. /\ heapPtr' = p[Len(sizes) + 1]
        /\ blocks' = blocks \o [i \in 1..Len(sizes) |->
                                  [addr |-> p[i], size |-> sizes[i]]]
        /\ x0' = v /\ panicked' = panicked
    BY <1>6 DEF Give, p
  <2>2. heapPtr' \in Word
    BY <1>2, <1>4, <2>1
  <2>3. [i \in 1..Len(sizes) |-> [addr |-> p[i], size |-> sizes[i]]] \in Seq(Block)
    <3>1. \A i \in 1..n : [addr |-> p[i], size |-> sizes[i]] \in Block
      BY <1>2, <1>4 DEF Block
    <3>2. \A m \in Nat : \A f : f \in [1..m -> Block] => f \in Seq(Block)
      OBVIOUS
    <3> QED BY <1>2, <3>1, <3>2
  <2>4. blocks' \in Seq(Block)
    BY <1>1, <2>1, <2>3, ConcatProperties
  <2> QED BY <1>1, <1>5, <2>1, <2>2, <2>4 DEF CallTypeOK, TypeOK
<1>7. CASE fails # {}
  <2> DEFINE first == CHOOSE i \in fails : \A j \in fails : i <= j
  <2>1. /\ heapPtr' = p[first] /\ panicked' = TRUE
        /\ blocks' = blocks /\ x0' = x0
    BY <1>7 DEF Give, p
  <2>2. first \in fails
    <3>1. fails \in SUBSET Nat
      BY <1>2
    <3>2. \E i \in fails : \A j \in fails : i <= j
      <4> HIDE DEF fails
      <4> QED BY <1>7, <3>1, LeastNumber
    <3> HIDE DEF fails
    <3> QED BY <3>2
  <2> HIDE DEF first
  <2>3. heapPtr' \in Word
    BY <1>2, <1>4, <2>1, <2>2
  <2> QED BY <1>1, <1>5, <2>1, <2>3 DEF CallTypeOK, TypeOK
<1> QED BY <1>6, <1>7

LEMMA AddNumber ==
  ASSUME NEW a \in Nat, NEW b \in Nat
  PROVE  Add(a, b) \in Nat
<1>1. \A m \in Nat \ {0} : \A x \in Nat : x % m \in Nat
  OBVIOUS
<1> QED BY <1>1, HeapAssumption DEF Add

LEMMA AlignUpNumber ==
  ASSUME NEW n \in Nat
  PROVE  AlignUp(n) \in Nat
<1>1. PICK m \in Nat : m = Add(n, 15)
  BY AddNumber
<1>2. m - (m % 16) \in Nat
  OBVIOUS
<1> QED BY <1>1, <1>2 DEF AlignUp

LEMMA RequestsHaveTypes ==
  ASSUME Request
  PROVE  \E n, size \in Nat : Malloc(n, size)
<1>1. Sizes \subseteq Nat /\ FixedSizes \subseteq Nat
  BY HeapAssumption, WordsAreNumbers
<1>2. ASSUME NEW s \in Sizes, StubMalloc(s) PROVE \E n, size \in Nat : Malloc(n, size)
  <2> DEFINE t == IF s = 0 THEN 16 ELSE s
  <2>1. s \in Nat /\ t \in Nat
    BY <1>1
  <2>2. Malloc(AlignUp(t), s)
    BY <1>2 DEF StubMalloc
  <2> HIDE DEF t
  <2> QED BY <2>1, <2>2, AlignUpNumber
<1>3. ASSUME NEW s \in Sizes, StubMmap(s) PROVE \E n, size \in Nat : Malloc(n, size)
  BY <1>1, <1>3 DEF StubMmap
<1>4. ASSUME NEW s \in Sizes, StubCxaAllocateException(s)
      PROVE  \E n, size \in Nat : Malloc(n, size)
  <2> DEFINE t == IF s = 0 THEN 64 ELSE s
  <2>1. t \in Nat /\ 128 \in Nat
    BY <1>1
  <2>2. Malloc(Add(t, 128), t)
    BY <1>4 DEF StubCxaAllocateException
  <2> HIDE DEF t
  <2> QED BY <2>1, <2>2, AddNumber
<1>5. ASSUME NEW s \in Sizes, StubLuaNewuserdata(s)
      PROVE  \E n, size \in Nat : Malloc(n, size)
  <2> DEFINE t == IF s = 0 THEN 64 ELSE s
  <2>1. t \in Nat
    BY <1>1
  <2>2. Malloc(t, t)
    BY <1>5 DEF StubLuaNewuserdata
  <2> HIDE DEF t
  <2> QED BY <2>1, <2>2
<1>6. ASSUME NEW s \in FixedSizes, StubBuffer(s)
      PROVE  \E n, size \in Nat : Malloc(n, size)
  BY <1>1, <1>6 DEF StubBuffer
<1>7. ASSUME NEW c \in Sizes, NEW s \in Sizes, StubCalloc(c, s)
      PROVE  \E n, size \in Nat : Malloc(n, size)
  <2>1. \A m \in Nat \ {0} : \A x \in Nat : x % m \in Nat
    OBVIOUS
  <2> DEFINE product == c * s
             total == product % Modulus
             t == IF total = 0 THEN 16 ELSE total
  <2>2. product \in Nat
    BY <1>1
  <2> HIDE DEF product
  <2>3. total \in Nat
    BY <2>1, <2>2, HeapAssumption
  <2> HIDE DEF total
  <2>4. t \in Nat
    BY <2>3
  <2>5. Malloc(AlignUp(t), product)
    BY <1>7 DEF StubCalloc, product, total
  <2> HIDE DEF t
  <2> QED BY <2>2, <2>4, <2>5, AlignUpNumber
<1> QED BY <1>2, <1>3, <1>4, <1>5, <1>6, <1>7 DEF Request

LEMMA UseHeapTypes ==
  ASSUME CallTypeOK, UseHeap
  PROVE  CallTypeOK'
<1>1. Request
  BY DEF UseHeap, GiveBlock
<1>2. PICK n \in Nat, size \in Nat : Malloc(n, size)
  BY <1>1, RequestsHaveTypes
<1>3. GiveBlock(Malloc(n, size))
  BY <1>2 DEF UseHeap, GiveBlock
<1> QED BY <1>3, GiveBlockTypes

-----------------------------------------------------------------------------
\* The types of each package, kept by its own hooks.
LEMMA ThreadTypes ==
  ASSUME CallTypeOK, PthreadTypeOK, ThreadNext
  PROVE  CallTypeOK' /\ PthreadTypeOK'
<1>1. CASE PthreadCreate
  <2>1. Answer(0) /\ CallTypeOK'
    BY <1>1, AnswerTypes DEF PthreadCreate
  <2>2. /\ nextThreadID \in 1..MaxThreads /\ nextThreadID' = nextThreadID + 1
        /\ threads' = [n \in 1..(Len(threads) + 1) |->
                         IF n <= Len(threads) THEN threads[n] ELSE nextThreadID]
        /\ UNCHANGED <<tlsVars, onceFlags>>
    BY <1>1, PthreadAssumption DEF PthreadCreate, PthreadTypeOK
  <2>3. threads \in Seq(1..MaxThreads) /\ Len(threads) \in Nat
    BY DEF PthreadTypeOK
  <2>4. threads' \in Seq(1..MaxThreads)
    <3> DEFINE Ids == 1..MaxThreads
    <3>1. \A n \in 1..(Len(threads) + 1) :
            (IF n <= Len(threads) THEN threads[n] ELSE nextThreadID) \in Ids
      <4>1. threads \in Seq(Ids) /\ nextThreadID \in Ids
        BY <2>2, <2>3
      <4> HIDE DEF Ids
      <4>2. \A n \in 1..Len(threads) : threads[n] \in Ids
        BY <4>1
      <4> QED BY <2>3, <4>1, <4>2
    <3> HIDE DEF Ids
    <3>2. threads' \in [1..(Len(threads) + 1) -> Ids]
      BY <2>2, <3>1
    <3>3. \A m \in Nat : \A f : f \in [1..m -> Ids] => f \in Seq(Ids)
      OBVIOUS
    <3>4. threads' \in Seq(Ids)
      BY <2>3, <3>2, <3>3
    <3> QED BY <3>4 DEF Ids
  <2>5. nextThreadID' \in 1..(MaxThreads + 1)
    BY <2>2, PthreadAssumption
  <2> QED BY <2>1, <2>2, <2>4, <2>5 DEF PthreadTypeOK, tlsVars
<1>2. CASE UNCHANGED pthreadVars /\ \E v \in Nat : Answer(v)
  BY <1>2, AnswerTypes DEF PthreadTypeOK, pthreadVars, threadVars, tlsVars
<1>3. CASE PthreadExit
  BY <1>3, ReturnTypes
     DEF PthreadExit, PthreadTypeOK, pthreadVars, threadVars, tlsVars
<1>4. ASSUME NEW t, NEW u, PthreadEqual(t, u)
      PROVE  UNCHANGED pthreadVars /\ \E v \in Nat : Answer(v)
  <2>1. (IF t = u THEN 1 ELSE 0) \in Nat
    OBVIOUS
  <2> QED BY <1>4, <2>1 DEF PthreadEqual
<1>5. ASSUME \/ PthreadSelf \/ PthreadJoin \/ ThreadCalls \/ MutexCalls
             \/ CondCalls \/ AttrCalls
      PROVE  UNCHANGED pthreadVars /\ \E v \in Nat : Answer(v)
  BY <1>5 DEF PthreadSelf, PthreadJoin, ThreadCalls, MutexCalls, CondCalls,
              AttrCalls
<1> QED BY <1>1, <1>2, <1>3, <1>4, <1>5 DEF ThreadNext

LEMMA TlsTypesKept ==
  ASSUME CallTypeOK, PthreadTypeOK, TlsNext
  PROVE  CallTypeOK' /\ PthreadTypeOK'
<1>0. /\ KeyVars \in Nat /\ MaxKeys \in Nat /\ TlsValues \subseteq Nat \ {0}
      /\ nextTLSKey \in 0..MaxKeys
      /\ DOMAIN tlsData \subseteq Nat
      /\ \A k \in DOMAIN tlsData : tlsData[k] \in TlsValues
      /\ keyVar \in [1..KeyVars -> Nat]
      /\ created \subseteq 1..KeyVars
      /\ stored \in [1..KeyVars -> TlsValues \cup {0}]
      /\ spoiled \in BOOLEAN
      /\ onceFlags \subseteq OnceControls
  BY PthreadAssumption DEF PthreadTypeOK
<1>1. ASSUME UNCHANGED threadVars
      PROVE  /\ nextThreadID' \in 1..(MaxThreads + 1)
             /\ threads' \in Seq(1..MaxThreads)
  BY <1>1 DEF PthreadTypeOK, threadVars
<1>2. ASSUME NEW v \in 1..KeyVars, KeyCreate(v)
      PROVE  CallTypeOK' /\ PthreadTypeOK'
  <2>1. CallTypeOK'
    BY <1>2, AnswerTypes DEF KeyCreate
  <2>2. /\ nextTLSKey < MaxKeys /\ nextTLSKey' = nextTLSKey + 1
        /\ keyVar' = WriteKey(v, nextTLSKey)
        /\ created' = created \cup {v} /\ stored' = [stored EXCEPT ![v] = 0]
        /\ spoiled' = (spoiled \/ v + 1 \in created)
        /\ tlsData' = tlsData /\ onceFlags' = onceFlags /\ UNCHANGED threadVars
    BY <1>2 DEF KeyCreate
  <2>3. nextTLSKey' \in 0..MaxKeys /\ nextTLSKey \in Nat
    BY <1>0, <2>2
  <2>4. keyVar' \in [1..KeyVars -> Nat]
    BY <1>0, <2>2, <2>3 DEF WriteKey
  <2>5. stored' \in [1..KeyVars -> TlsValues \cup {0}]
    BY <1>0, <2>2
  <2>6. spoiled' \in BOOLEAN /\ created' \subseteq 1..KeyVars
    BY <1>0, <2>2
  <2> QED BY <1>0, <1>1, <2>1, <2>2, <2>3, <2>4, <2>5, <2>6 DEF PthreadTypeOK
<1>3. ASSUME NEW v \in created, KeyDelete(v)
      PROVE  CallTypeOK' /\ PthreadTypeOK'
  <2>1. CallTypeOK'
    BY <1>3, AnswerTypes DEF KeyDelete
  <2>2. /\ tlsData' = [k \in DOMAIN tlsData \ {keyVar[v]} |-> tlsData[k]]
        /\ created' = created \ {v}
        /\ UNCHANGED <<nextTLSKey, keyVar, stored, spoiled, threadVars, onceFlags>>
    BY <1>3 DEF KeyDelete
  <2> QED BY <1>0, <1>1, <2>1, <2>2 DEF PthreadTypeOK
<1>4. ASSUME NEW v \in created, NEW value \in TlsValues, Setspecific(v, value)
      PROVE  CallTypeOK' /\ PthreadTypeOK'
  <2>1. CallTypeOK'
    BY <1>4, AnswerTypes DEF Setspecific
  <2>2. /\ tlsData' = [k \in DOMAIN tlsData \cup {keyVar[v]} |->
                         IF k = keyVar[v] THEN value ELSE tlsData[k]]
        /\ stored' = [stored EXCEPT ![v] = value]
        /\ UNCHANGED <<nextTLSKey, keyVar, created, spoiled, threadVars, onceFlags>>
    BY <1>4 DEF Setspecific
  <2>3. keyVar[v] \in Nat
    BY <1>0
  <2>4. /\ DOMAIN tlsData' \subseteq Nat
        /\ \A k \in DOMAIN tlsData' : tlsData'[k] \in TlsValues
    BY <1>0, <2>2, <2>3
  <2>5. stored' \in [1..KeyVars -> TlsValues \cup {0}]
    BY <1>0, <2>2
  <2> QED BY <1>0, <1>1, <2>1, <2>2, <2>4, <2>5 DEF PthreadTypeOK
<1>5. ASSUME NEW v \in created, Getspecific(v)
      PROVE  CallTypeOK' /\ PthreadTypeOK'
  <2>1. TlsValue(keyVar[v]) \in Nat
    BY <1>0 DEF TlsValue
  <2> QED BY <1>5, <2>1, AnswerTypes
          DEF Getspecific, PthreadTypeOK, pthreadVars, threadVars, tlsVars
<1>6. ASSUME NEW control \in OnceControls, Once(control)
      PROVE  CallTypeOK' /\ PthreadTypeOK'
  <2>1. CallTypeOK'
    BY <1>6, AnswerTypes DEF Once
  <2>2. /\ onceFlags' = onceFlags \cup {control}
        /\ UNCHANGED <<threadVars, tlsVars>>
    BY <1>6 DEF Once
  <2> QED BY <1>0, <1>1, <2>1, <2>2 DEF PthreadTypeOK, tlsVars
<1> QED BY <1>2, <1>3, <1>4, <1>5, <1>6 DEF TlsNext

LEMMA GuardTypesKept ==
  ASSUME CallTypeOK, GuardTypeOK, GuardNext
  PROVE  CallTypeOK' /\ GuardTypeOK'
<1>1. ASSUME NEW g \in GuardVars, GuardAcquire(g)
      PROVE  CallTypeOK' /\ GuardTypeOK'
  <2>1. CallTypeOK'
    BY <1>1, AnswerTypes DEF GuardAcquire
  <2>2. /\ UNCHANGED <<guardState, inited, ranTwice, careful>>
        /\ trusted' = trusted \/ trusted' = trusted \cup {g}
        /\ initialising' = initialising \/ initialising' = Append(initialising, g)
    BY <1>1 DEF GuardAcquire
  <2>3. initialising' \in Seq(GuardVars)
    BY <2>2, AppendProperties DEF GuardTypeOK
  <2> QED BY <2>1, <2>2, <2>3 DEF GuardTypeOK
<1>2. ASSUME initialising # <<>>
      PROVE  Outer \in Seq(GuardVars) /\ Innermost \in GuardVars
  <2>1. initialising \in Seq(GuardVars) /\ Len(initialising) \in Nat \ {0}
    BY <1>2, EmptySeq DEF GuardTypeOK
  <2>2. Innermost \in GuardVars
    BY <2>1, ElementOfSeq DEF Innermost
  <2>3. \A S : \A s \in Seq(S) : \A n \in 0..Len(s) : SubSeq(s, 1, n) \in Seq(S)
    OBVIOUS
  <2>4. Len(initialising) - 1 \in 0..Len(initialising)
    BY <2>1
  <2> QED BY <2>1, <2>2, <2>3, <2>4 DEF Outer
<1>3. CASE GuardRelease
  BY <1>2, <1>3, ReturnTypes DEF GuardRelease, GuardTypeOK
<1>4. CASE GuardAbort
  BY <1>2, <1>4, ReturnTypes DEF GuardAbort, GuardTypeOK
<1>5. CASE CxaThrow \/ CxaBadCalls \/ CxaPureVirtual \/ UnwindResume
  BY <1>5, StopTypes DEF CxaThrow, CxaBadCalls, CxaPureVirtual, UnwindResume,
                         GuardTypeOK, guardVars
<1>6. CASE UNCHANGED guardVars /\ (Return \/ \E v \in Nat : Answer(v))
  BY <1>6, AnswerTypes, ReturnTypes DEF GuardTypeOK, guardVars
<1>7. ASSUME \/ CxaAtexit
             \/ \E v \in FixedSizes : \/ CxaCatch(v)
                                      \/ CxaCurrentException(v)
                                      \/ DynamicCast(v)
                                      \/ Unwind(v)
      PROVE  UNCHANGED guardVars /\ (Return \/ \E v \in Nat : Answer(v))
  <2>1. FixedSizes \subseteq Nat
    BY HeapAssumption, WordsAreNumbers
  <2>2. CASE CxaAtexit
    BY <2>2 DEF CxaAtexit
  <2>3. ASSUME NEW w \in FixedSizes,
               CxaCatch(w) \/ CxaCurrentException(w) \/ DynamicCast(w)
        PROVE  UNCHANGED guardVars /\ (Return \/ \E v \in Nat : Answer(v))
    BY <2>1, <2>3 DEF CxaCatch, CxaCurrentException, DynamicCast
  <2>4. ASSUME NEW w \in FixedSizes, Unwind(w)
        PROVE  UNCHANGED guardVars /\ (Return \/ \E v \in Nat : Answer(v))
    <3>1. {0, 5, 8, w} \subseteq Nat
      BY <2>1
    <3> QED BY <2>4, <3>1 DEF Unwind
  <2> QED BY <1>7, <2>2, <2>3, <2>4
<1> QED BY <1>1, <1>3, <1>4, <1>5, <1>6, <1>7 DEF GuardNext

LEMMA DlTypesKept ==
  ASSUME CallTypeOK, DlTypeOK, DlNext
  PROVE  CallTypeOK' /\ DlTypeOK'
<1>0. /\ DlFirst \in Nat \ {0} /\ DlStep \in Nat \ {0}
      /\ DlsymBase \in Nat /\ MaxOpens \in Nat /\ SymbolSizes \subseteq Nat
  BY DlAssumption
<1>1. Issued \subseteq Nat
  BY <1>0 DEF Issued
<1>2. CASE Dlopen
  <2>1. /\ Answer(nextHandle) /\ nextHandle < DlFirst + MaxOpens * DlStep
        /\ nextHandle' = nextHandle + DlStep
        /\ dlHandles' = dlHandles \cup {nextHandle}
        /\ dlLastError' = FALSE
        /\ dlHeld' = [n \in DOMAIN dlHeld \cup {nextHandle} |->
                        IF n = nextHandle THEN nextHandle ELSE dlHeld[n]]
    BY <1>2 DEF Dlopen
  <2>2. nextHandle \in Issued
    <3> DEFINE limit == DlFirst + MaxOpens * DlStep
    <3>1. limit \in Nat
      BY <1>0
    <3>2. nextHandle \in Issued \cup {limit} /\ nextHandle < limit
      BY <2>1 DEF DlTypeOK
    <3> HIDE DEF limit
    <3> QED BY <3>1, <3>2
  <2>3. PICK n \in 0..(MaxOpens - 1) : nextHandle = DlFirst + n * DlStep
    BY <2>2 DEF Issued
  <2>4. (n + 1) * DlStep = n * DlStep + DlStep
    BY <1>0, <2>3
  <2>5. nextHandle' = DlFirst + (n + 1) * DlStep
    <3>1. PICK m, k \in Nat : m = n * DlStep /\ k = (n + 1) * DlStep
      BY <1>0, <2>3
    <3>2. nextHandle = DlFirst + m /\ k = m + DlStep
      BY <2>3, <2>4, <3>1
    <3> QED BY <1>0, <2>1, <3>1, <3>2
  <2>6. nextHandle' \in Issued \cup {DlFirst + MaxOpens * DlStep}
    <3>1. CASE n + 1 = MaxOpens
      BY <2>5, <3>1
    <3>2. CASE n + 1 # MaxOpens
      <4>1. n + 1 \in 0..(MaxOpens - 1)
        BY <1>0, <3>2
      <4> QED BY <2>5, <4>1 DEF Issued
    <3> QED BY <3>1, <3>2
  <2>7. CallTypeOK'
    BY <1>1, <2>1, <2>2, AnswerTypes
  <2>8. dlHandles' \subseteq Issued /\ \A i \in DOMAIN dlHeld' : dlHeld'[i] \in Issued
    BY <2>1, <2>2 DEF DlTypeOK
  <2> QED BY <2>1, <2>6, <2>7, <2>8 DEF DlTypeOK
<1>3. ASSUME NEW handle, NEW size \in SymbolSizes, Dlsym(handle, size)
      PROVE  CallTypeOK' /\ DlTypeOK'
  <2>1. DlsymBase + 8 * size \in Nat /\ 0 \in Nat
    BY <1>0
  <2>2. Answer(DlsymBase + 8 * size) \/ Answer(0)
    BY <1>3 DEF Dlsym
  <2>3. CallTypeOK'
    BY <2>1, <2>2, AnswerTypes
  <2>4. /\ UNCHANGED <<nextHandle, dlHandles, dlHeld>>
        /\ dlLastError' = dlLastError \/ dlLastError' = TRUE
    BY <1>3 DEF Dlsym
  <2> QED BY <2>3, <2>4 DEF DlTypeOK
<1>4. ASSUME NEW handle, Dlclose(handle)
      PROVE  CallTypeOK' /\ DlTypeOK'
  <2>1. CallTypeOK'
    BY <1>4, AnswerTypes DEF Dlclose
  <2>2. /\ dlHandles' = dlHandles \ {handle}
        /\ dlHeld' = [n \in {m \in DOMAIN dlHeld : dlHeld[m] # handle} |->
                        dlHeld[n]]
        /\ UNCHANGED <<nextHandle, dlLastError>>
    BY <1>4 DEF Dlclose
  <2> QED BY <2>1, <2>2 DEF DlTypeOK
<1>5. CASE Dlerror
  <2>1. dlLastError' = FALSE /\ UNCHANGED <<nextHandle, dlHandles, dlHeld>>
    BY <1>5 DEF Dlerror
  <2>2. Give(<<15>>, heapPtr) \/ Answer(0)
    BY <1>5 DEF Dlerror
  <2>3. <<15>> \in Seq(Nat) /\ heapPtr \in Nat
    BY CallFacts
  <2>4. CallTypeOK'
    BY <2>2, <2>3, GiveTypes, AnswerTypes
  <2> QED BY <2>1, <2>4 DEF DlTypeOK
<1>6. CASE Dladdr \/ AndroidLog
  <2>1. UNCHANGED dlVars /\ (Return \/ Answer(0))
    BY <1>6 DEF Dladdr, AndroidLog
  <2> QED BY <2>1, AnswerTypes, ReturnTypes DEF DlTypeOK, dlVars
<1> QED BY <1>2, <1>3, <1>4, <1>5, <1>6 DEF DlNext

LEMMA GiveAnswers ==
  ASSUME NEW sizes, NEW v, Give(sizes, v)
  PROVE  panicked' = TRUE \/ x0' = v
BY DEF Give

LEMMA StaticTypes ==
  ASSUME CallTypeOK, NEW buf \in Word, NEW sizes \in Seq(Nat), Static(buf, sizes)
  PROVE  CallTypeOK' /\ Kept(buf) \in Word
<1>1. heapPtr \in Nat /\ heapPtr \in Word /\ buf \in Nat
  BY CallFacts, WordsAreNumbers
<1>2. CallTypeOK'
  BY <1>1, GiveTypes, AnswerTypes DEF Static
<1>3. ASSUME buf = 0, ~panicked'
      PROVE  x0' \in Word
  <2>1. Give(sizes, heapPtr)
    BY <1>3 DEF Static
  <2> QED BY <1>1, <1>3, <2>1, GiveAnswers
<1> QED BY <1>2, <1>3 DEF Kept

LEMMA LibcTypesKept ==
  ASSUME CallTypeOK, LibcTypeOK, LocaleNext \/ EnvironmentNext \/ LuaNext
  PROVE  CallTypeOK' /\ LibcTypeOK'
<1>0. /\ localeNameBuf \in Word /\ localeconvBuf \in Word /\ luaStatePtr \in Word
      /\ DOMAIN envVars \subseteq EnvNames
      /\ \A n \in DOMAIN envVars : envVars[n] \in EnvValues
      /\ heapPtr \in Nat
      /\ EnvValues \subseteq Nat
      /\ \A n \in DOMAIN EnvDefaults : EnvDefaults[n] \in Nat
  BY LibcServicesAssumption, CallFacts DEF LibcTypeOK
<1>1. CASE Setlocale
  <2>1. /\ Static(localeNameBuf, <<8>>) /\ localeNameBuf' = Kept(localeNameBuf)
        /\ UNCHANGED <<localeconvBuf, luaStatePtr, envVars>>
    BY <1>1 DEF Setlocale
  <2>2. <<8>> \in Seq(Nat)
    OBVIOUS
  <2>3. CallTypeOK' /\ localeNameBuf' \in Word
    BY <1>0, <2>1, <2>2, StaticTypes
  <2> QED BY <1>0, <2>1, <2>3 DEF LibcTypeOK
<1>2. CASE Localeconv
  <2>1. /\ Static(localeconvBuf, <<128, 4, 4>>)
        /\ localeconvBuf' = Kept(localeconvBuf)
        /\ UNCHANGED <<localeNameBuf, luaStatePtr, envVars>>
    BY <1>2 DEF Localeconv
  <2>2. <<128, 4, 4>> \in Seq(Nat)
    OBVIOUS
  <2>3. CallTypeOK' /\ localeconvBuf' \in Word
    BY <1>0, <2>1, <2>2, StaticTypes
  <2> QED BY <1>0, <2>1, <2>3 DEF LibcTypeOK
<1>3. CASE LuaNewstate
  <2>1. /\ Static(luaStatePtr, <<256>>) /\ luaStatePtr' = Kept(luaStatePtr)
        /\ UNCHANGED <<localeNameBuf, localeconvBuf, envVars>>
    BY <1>3 DEF LuaNewstate
  <2>2. <<256>> \in Seq(Nat)
    OBVIOUS
  <2>3. CallTypeOK' /\ luaStatePtr' \in Word
    BY <1>0, <2>1, <2>2, StaticTypes
  <2> QED BY <1>0, <2>1, <2>3 DEF LibcTypeOK
<1>4. CASE UNCHANGED libcVars /\ \/ Return \/ Stop
                                 \/ \E v \in Nat : Answer(v)
                                 \/ \E n \in Nat : Give(<<n>>, heapPtr)
  <2>1. \A n \in Nat : <<n>> \in Seq(Nat)
    OBVIOUS
  <2>2. CallTypeOK'
    BY <1>0, <1>4, <2>1, ReturnTypes, StopTypes, AnswerTypes, GiveTypes
  <2>3. LibcTypeOK'
    BY <1>4 DEF LibcTypeOK, libcVars
  <2> QED BY <2>2, <2>3
<1> DEFINE Harmless == /\ UNCHANGED libcVars
                       /\ \/ Return \/ Stop
                          \/ \E v \in Nat : Answer(v)
                          \/ \E n \in Nat : Give(<<n>>, heapPtr)
<1>5. ASSUME Newlocale \/ Uselocale \/ Freelocale
      PROVE  Harmless
  BY <1>5 DEF Newlocale, Uselocale, Freelocale
<1>6. ASSUME NEW name \in EnvNames, Getenv(name)
      PROVE  Harmless
  <2>1. UNCHANGED libcVars
    BY <1>6 DEF Getenv
  <2>2. CASE name \in DOMAIN envVars
    <3>1. PICK n \in Nat : envVars[name] = n
      BY <1>0, <2>2, Zenon
    <3>2. n + 1 \in Nat /\ Give(<<n + 1>>, heapPtr)
      BY <1>6, <2>2, <3>1 DEF Getenv
    <3> QED BY <2>1, <3>2
  <2>3. CASE name \notin DOMAIN envVars /\ name \in DOMAIN EnvDefaults
    <3>1. EnvDefaults[name] + 1 \in Nat
      BY <1>0, <2>3
    <3> QED BY <1>6, <2>1, <2>3, <3>1 DEF Getenv
  <2>4. CASE name \notin DOMAIN envVars /\ name \notin DOMAIN EnvDefaults
    <3>1. Answer(0) /\ 0 \in Nat
      BY <1>6, <2>4 DEF Getenv
    <3> QED BY <2>1, <3>1
  <2> QED BY <2>2, <2>3, <2>4
<1>7. ASSUME NEW name \in EnvNames, NEW value \in EnvValues, Setenv(name, value)
      PROVE  CallTypeOK' /\ LibcTypeOK'
  <2>1. CallTypeOK'
    BY <1>7, AnswerTypes DEF Setenv
  <2>2. /\ envVars' = [n \in DOMAIN envVars \cup {name} |->
                         IF n = name THEN value ELSE envVars[n]]
        /\ UNCHANGED <<localeNameBuf, localeconvBuf, luaStatePtr>>
    BY <1>7 DEF Setenv
  <2>3. /\ DOMAIN envVars' \subseteq EnvNames
        /\ \A n \in DOMAIN envVars' : envVars'[n] \in EnvValues
    BY <1>0, <2>2
  <2> QED BY <1>0, <2>1, <2>2, <2>3 DEF LibcTypeOK
<1>8. ASSUME NEW name \in EnvNames, Unsetenv(name)
      PROVE  CallTypeOK' /\ LibcTypeOK'
  <2>1. CallTypeOK'
    BY <1>8, AnswerTypes DEF Unsetenv
  <2>2. /\ envVars' = [n \in DOMAIN envVars \ {name} |-> envVars[n]]
        /\ UNCHANGED <<localeNameBuf, localeconvBuf, luaStatePtr>>
    BY <1>8 DEF Unsetenv
  <2>3. /\ DOMAIN envVars' \subseteq EnvNames
        /\ \A n \in DOMAIN envVars' : envVars'[n] \in EnvValues
    BY <1>0, <2>2
  <2> QED BY <1>0, <2>1, <2>2, <2>3 DEF LibcTypeOK
<1>9. ASSUME Putenv \/ Sysconf \/ Time \/ Exit \/ Atexit
      PROVE  Harmless
  <2>1. Modulus - 1 \in Nat
    BY HeapAssumption
  <2>2. {4096, 4, 100, 131072, 999, 1024, Modulus - 1} \subseteq Nat
    BY <2>1
  <2>3. {0, 1000000, MockTimeSec} \subseteq Nat
    BY DEF MockTimeSec
  <2>4. CASE Sysconf
    BY <2>2, <2>4 DEF Sysconf
  <2>5. CASE Time
    BY <2>3, <2>5 DEF Time
  <2>6. CASE Putenv \/ Exit \/ Atexit
    BY <2>6 DEF Putenv, Exit, Atexit
  <2> QED BY <1>9, <2>4, <2>5, <2>6
<1>10. FixedSizes \subseteq Nat
  BY HeapAssumption, WordsAreNumbers
<1>11. ASSUME NEW w \in FixedSizes, LuaPush(w) \/ LuaAuxiliary(w)
       PROVE  Harmless
  BY <1>10, <1>11 DEF LuaPush, LuaAuxiliary
<1>12. ASSUME NEW object \in FixedSizes, NEW x8 \in FixedSizes, MockHook(object, x8)
       PROVE  Harmless
  <2>1. {0, 1, object, object + 256, x8} \subseteq Nat
    BY <1>10
  <2> QED BY <1>12, <2>1 DEF MockHook
<1>13. ASSUME \/ LuaNoops \/ LuaStack \/ LuaFields \/ LuaTypes \/ LuaConversions
              \/ LuaTables \/ LuaCalls \/ ToluaModules \/ ToluaTypes
       PROVE  Harmless
  BY <1>13 DEF LuaNoops, LuaStack, LuaFields, LuaTypes, LuaConversions,
               LuaTables, LuaCalls, ToluaModules, ToluaTypes
<1> HIDE DEF Harmless
<1>14. CASE LocaleNext
  BY <1>1, <1>2, <1>3, <1>4, <1>5, <1>14 DEF LocaleNext, Harmless
<1>15. CASE EnvironmentNext
  BY <1>4, <1>6, <1>7, <1>8, <1>9, <1>15 DEF EnvironmentNext, Harmless
<1>16. CASE LuaNext
  BY <1>3, <1>4, <1>11, <1>12, <1>13, <1>16 DEF LuaNext, Harmless
<1> QED BY <1>14, <1>15, <1>16

LEMMA FdTypesKept ==
  ASSUME CallTypeOK, FdTypeOK, FdNext \/ FileCalls
  PROVE  CallTypeOK' /\ FdTypeOK'
<1>0. /\ FileBase \in Nat /\ SocketBase \in Nat /\ MaxDescriptors \in Nat
      /\ ChosenFDs \subseteq Nat
      /\ nextFileFD \in FileBase..(FileBase + MaxDescriptors)
      /\ nextFD \in SocketBase..(SocketBase + MaxDescriptors)
      /\ DOMAIN openFiles = FileBase..(nextFileFD - 1)
      /\ socketFD \subseteq SocketBase..(nextFD - 1)
      /\ held \in [DOMAIN held -> Nat]
      /\ ahead \in BOOLEAN
      /\ FixedSizes \subseteq Nat
      /\ heapPtr \in Nat
  BY DescriptorsAssumption, HeapAssumption, WordsAreNumbers, CallFacts DEF FdTypeOK
<1>1. nextFileFD \in Nat /\ nextFD \in Nat
  BY <1>0
<1>2. ASSUME NEW how, NEW n \in Nat
      PROVE  With(held, how, n) \in [DOMAIN With(held, how, n) -> Nat]
  BY <1>0 DEF With
<1>3. ASSUME NEW n
      PROVE  Without(held, n) \in [DOMAIN Without(held, n) -> Nat]
  BY <1>0 DEF Without
<1>4. ASSUME NEW path, AllocFileFD(path)
      PROVE  FdTypeOK'
  <2>1. /\ HandedOut < MaxDescriptors /\ nextFileFD' = nextFileFD + 1
        /\ openFiles' = With(openFiles, nextFileFD, path)
        /\ held' = With(held, <<"file", nextFileFD>>, nextFileFD)
        /\ UNCHANGED <<nextFD, socketFD, ahead>>
    BY <1>4 DEF AllocFileFD
  <2>2. nextFileFD' \in FileBase..(FileBase + MaxDescriptors)
    BY <1>0, <1>1, <2>1 DEF HandedOut
  <2>3. DOMAIN openFiles' = FileBase..(nextFileFD' - 1)
    <3>1. DOMAIN openFiles' = DOMAIN openFiles \cup {nextFileFD}
      BY <2>1 DEF With
    <3> QED BY <1>0, <1>1, <2>1, <3>1
  <2> QED BY <1>0, <1>1, <1>2, <2>1, <2>2, <2>3 DEF FdTypeOK
<1>5. CASE FdNext
  <2>1. ASSUME NEW path, Open(path) PROVE CallTypeOK' /\ FdTypeOK'
    BY <1>1, <1>4, <2>1, AnswerTypes DEF Open
  <2>2. CASE Mkstemp
    BY <1>1, <1>4, <2>2, AnswerTypes DEF Mkstemp
  <2>3. ASSUME NEW fd, Dup(fd) PROVE CallTypeOK' /\ FdTypeOK'
    BY <1>1, <1>4, <2>3, AnswerTypes DEF Dup
  <2>4. ASSUME NEW fd, Close(fd) PROVE CallTypeOK' /\ FdTypeOK'
    <3>1. CallTypeOK'
      BY <2>4, AnswerTypes DEF Close
    <3>2. /\ socketFD' = socketFD \ {fd} /\ held' = Without(held, fd)
          /\ UNCHANGED <<nextFileFD, openFiles, nextFD, ahead>>
      BY <2>4 DEF Close
    <3> QED BY <1>0, <1>3, <3>1, <3>2 DEF FdTypeOK
  <2>5. ASSUME NEW newfd \in ChosenFDs, Dup2(newfd) PROVE CallTypeOK' /\ FdTypeOK'
    <3>1. newfd \in Nat
      BY <1>0
    <3>2. CallTypeOK'
      BY <2>5, <3>1, AnswerTypes DEF Dup2
    <3>3. /\ held' = With(Without(held, newfd), <<"dup2", newfd>>, newfd)
          /\ ahead' = (ahead \/ newfd \in nextFileFD..(SocketBase - 1)
                             \/ newfd >= nextFD)
          /\ UNCHANGED <<nextFileFD, openFiles, nextFD, socketFD>>
      BY <2>5 DEF Dup2
    <3>4. held' \in [DOMAIN held' -> Nat]
      BY <1>3, <3>1, <3>3 DEF With
    <3>5. ahead' \in BOOLEAN
      BY <3>3
    <3> QED BY <1>0, <3>2, <3>3, <3>4, <3>5 DEF FdTypeOK
  <2>6. CASE Pipe
    <3>1. CallTypeOK'
      BY <2>6, AnswerTypes DEF Pipe
    <3>2. /\ HandedOut + 1 < MaxDescriptors /\ nextFileFD' = nextFileFD + 2
          /\ openFiles' = With(With(openFiles, nextFileFD, "pipe[0]"),
                               nextFileFD + 1, "pipe[1]")
          /\ held' = With(With(held, <<"file", nextFileFD>>, nextFileFD),
                          <<"file", nextFileFD + 1>>, nextFileFD + 1)
          /\ UNCHANGED <<nextFD, socketFD, ahead>>
      BY <2>6 DEF Pipe
    <3>3. nextFileFD' \in FileBase..(FileBase + MaxDescriptors)
      BY <1>0, <1>1, <3>2 DEF HandedOut
    <3>4. DOMAIN openFiles' = FileBase..(nextFileFD' - 1)
      <4>1. DOMAIN openFiles' = DOMAIN openFiles \cup {nextFileFD, nextFileFD + 1}
        BY <3>2 DEF With
      <4>2. \A a, n \in Nat :
              a <= n => (a..(n - 1)) \cup {n, n + 1} = a..((n + 2) - 1)
        OBVIOUS
      <4>3. FileBase <= nextFileFD
        BY <1>0
      <4> QED BY <1>0, <1>1, <3>2, <4>1, <4>2, <4>3
    <3>5. held' \in [DOMAIN held' -> Nat]
      <4>1. nextFileFD + 1 \in Nat
        BY <1>1
      <4> DEFINE once == With(held, <<"file", nextFileFD>>, nextFileFD)
      <4>2. once \in [DOMAIN once -> Nat]
        BY <1>1, <1>2
      <4> HIDE DEF once
      <4>3. held' = With(once, <<"file", nextFileFD + 1>>, nextFileFD + 1)
        BY <3>2 DEF once
      <4> QED BY <4>1, <4>2, <4>3 DEF With
    <3> QED BY <1>0, <3>1, <3>2, <3>3, <3>4, <3>5 DEF FdTypeOK
  <2>7. CASE AllocFD
    <3>1. CallTypeOK'
      BY <1>1, <2>7, AnswerTypes DEF AllocFD
    <3>2. /\ HandedOut < MaxDescriptors /\ nextFD' = nextFD + 1
          /\ socketFD' = socketFD \cup {nextFD}
          /\ held' = With(held, <<"socket", nextFD>>, nextFD)
          /\ UNCHANGED <<nextFileFD, openFiles, ahead>>
      BY <2>7 DEF AllocFD
    <3>3. nextFD' \in SocketBase..(SocketBase + MaxDescriptors)
      BY <1>0, <1>1, <3>2 DEF HandedOut
    <3>4. socketFD' \subseteq SocketBase..(nextFD' - 1)
      BY <1>0, <1>1, <3>2
    <3> QED BY <1>0, <1>1, <1>2, <3>1, <3>2, <3>3, <3>4 DEF FdTypeOK
  <2> QED BY <1>5, <2>1, <2>2, <2>3, <2>4, <2>5, <2>6, <2>7
          DEF FdNext, Socket, Accept, EpollCreate
<1>6. CASE FileCalls
  <2> DEFINE Harmless == /\ UNCHANGED fdVars
                         /\ \/ Return
                            \/ \E v \in Nat : Answer(v)
                            \/ \E n \in Nat : Give(<<n>>, heapPtr)
  <2>1. ASSUME NEW n \in FixedSizes,
               ReadsAndWrites(n) \/ Send(n) \/ Readlink(n) \/ Mkdtemp(n)
        PROVE  Harmless
    BY <1>0, <2>1 DEF ReadsAndWrites, Send, Readlink, Mkdtemp
  <2>2. ASSUME NEW buffer \in {0} \cup FixedSizes, NEW size \in Nat,
               Filled(buffer, size), UNCHANGED fdVars
        PROVE  Harmless
    BY <1>0, <2>2 DEF Filled
  <2>3. ASSUME NEW buffer \in {0} \cup FixedSizes,
               Getcwd(buffer) \/ Realpath(buffer, 3)
        PROVE  Harmless
    <3>1. 19 \in Nat /\ 3 + 1 \in Nat
      OBVIOUS
    <3>2. UNCHANGED fdVars /\ (Filled(buffer, 19) \/ Filled(buffer, 3 + 1))
      BY <2>3 DEF Getcwd, Realpath
    <3> HIDE DEF Harmless
    <3> QED BY <2>2, <3>1, <3>2
  <2>4. ASSUME \/ StatAndAccess \/ MapCalls \/ DirectoryCalls \/ PathCalls
               \/ Chmod \/ FcntlFile \/ Truncate \/ Umask \/ SocketCalls
        PROVE  Harmless
    BY <2>4 DEF StatAndAccess, MapCalls, DirectoryCalls, PathCalls, Chmod,
                FcntlFile, Truncate, Umask, SocketCalls
  <2>5. ASSUME Opendir \/ Tmpfile
        PROVE  Harmless
    BY <2>5 DEF Opendir, Tmpfile
  <2>6. Harmless
    <3> HIDE DEF Harmless
    <3> QED BY <1>6, <2>1, <2>3, <2>4, <2>5 DEF FileCalls
  <2>7. \A n \in Nat : <<n>> \in Seq(Nat)
    OBVIOUS
  <2>8. CallTypeOK'
    BY <1>0, <2>6, <2>7, ReturnTypes, AnswerTypes, GiveTypes
  <2>9. FdTypeOK'
    BY <2>6 DEF FdTypeOK, fdVars
  <2> QED BY <2>8, <2>9
<1> QED BY <1>5, <1>6

LEMMA JniTypesKept ==
  ASSUME CallTypeOK, JniTypeOK, JniLookups \/ JniObjects
  PROVE  CallTypeOK' /\ JniTypeOK'
<1>0. /\ MockObj \in Nat /\ JniFirst \in [Kinds -> Nat]
      /\ JniGiven \in [DOMAIN JniGiven -> Nat]
      /\ {"object class", "result", "static result", "generic"} \subseteq DOMAIN JniGiven
      /\ JniTexts \subseteq Nat /\ JniLengths \subseteq Word /\ JniLengths \subseteq Nat
      /\ MaxRefs \in Nat /\ heapPtr \in Nat /\ heapPtr \in Word /\ x0 \in Nat
  BY JniAssumption, WordsAreNumbers, CallFacts
<1>1. /\ nextRef \in [Counters -> 0..MaxRefs]
      /\ DOMAIN refs \subseteq
           (Kinds \ {"string"}) \X (JniClasses \cup JniMethods \cup JniFields)
      /\ refs \in [DOMAIN refs -> Nat]
      /\ madeStrings \in Seq(Nat)
      /\ \A r \in DOMAIN jniStrings : jniStrings[r] \in JniTexts
      /\ \A a \in DOMAIN arrayLength : a \in Word /\ arrayLength[a] \in JniLengths
  BY DEF JniTypeOK
<1>2. \A kind \in Kinds : Counter(kind) \in Counters
  BY DEF Counters
<1>3. \A kind \in Kinds : NextRefOf(kind) \in Nat
  <2> SUFFICES ASSUME NEW kind \in Kinds PROVE NextRefOf(kind) \in Nat
    OBVIOUS
  <2>1. PICK f \in Nat : f = JniFirst[kind]
    BY <1>0
  <2>2. PICK n \in Nat : n = nextRef[Counter(kind)]
    <3>1. nextRef[Counter(kind)] \in 0..MaxRefs
      BY <1>1, <1>2
    <3> QED BY <3>1
  <2>3. PICK m \in Nat : m = MockObj
    BY <1>0
  <2>4. m + f + 8 * n \in Nat
    OBVIOUS
  <2> QED BY <2>1, <2>2, <2>3, <2>4 DEF NextRefOf
<1>4. ASSUME NEW kind \in Kinds, nextRef[Counter(kind)] < MaxRefs,
             nextRef' = [nextRef EXCEPT ![Counter(kind)] = @ + 1]
      PROVE  nextRef' \in [Counters -> 0..MaxRefs]
  <2>1. nextRef[Counter(kind)] + 1 \in 0..MaxRefs
    <3>1. nextRef[Counter(kind)] \in 0..MaxRefs /\ MaxRefs \in Nat
      BY <1>0, <1>1, <1>2
    <3> QED BY <1>4, <3>1
  <2> QED BY <1>1, <1>2, <1>4, <2>1
<1> DEFINE Names == JniClasses \cup JniMethods \cup JniFields
<1>5. ASSUME NEW kind \in Kinds \ {"string"}, NEW key \in Names, GetRef(kind, key)
      PROVE  CallTypeOK' /\ JniTypeOK'
  <2>1. CASE <<kind, key>> \in DOMAIN refs
    <3>1. Answer(refs[<<kind, key>>]) /\ UNCHANGED jniVars
      BY <1>5, <2>1 DEF GetRef
    <3>2. refs[<<kind, key>>] \in Nat
      BY <1>1, <2>1
    <3>3. CallTypeOK'
      BY <3>1, <3>2, AnswerTypes
    <3> QED BY <3>1, <3>3 DEF JniTypeOK, jniVars
  <2>2. CASE <<kind, key>> \notin DOMAIN refs
    <3>1. /\ nextRef[Counter(kind)] < MaxRefs /\ Answer(NextRefOf(kind))
          /\ refs' = Put(refs, <<kind, key>>, NextRefOf(kind))
          /\ nextRef' = [nextRef EXCEPT ![Counter(kind)] = @ + 1]
          /\ UNCHANGED <<jniStrings, madeStrings, arrayLength>>
      BY <1>5, <2>2 DEF GetRef
    <3>2. CallTypeOK'
      BY <1>3, <3>1, AnswerTypes
    <3>3. nextRef' \in [Counters -> 0..MaxRefs]
      BY <1>4, <3>1
    <3>4. DOMAIN refs' = DOMAIN refs \cup {<<kind, key>>}
      BY <3>1 DEF Put
    <3>5. refs' \in [DOMAIN refs' -> Nat]
      BY <1>1, <1>3, <3>1, <3>4 DEF Put
    <3>6. DOMAIN refs' \subseteq (Kinds \ {"string"}) \X Names
      BY <1>1, <3>4
    <3> QED BY <1>1, <3>1, <3>2, <3>3, <3>5, <3>6 DEF JniTypeOK
  <2> QED BY <2>1, <2>2
<1>6. ASSUME NEW text \in JniTexts, NewStringUTF(text)
      PROVE  CallTypeOK' /\ JniTypeOK'
  <2>1. "string" \in Kinds /\ Counter("string") = "string"
    BY DEF Kinds, Counter
  <2>2. /\ nextRef["string"] < MaxRefs /\ Answer(NextRefOf("string"))
        /\ jniStrings' = Put(jniStrings, NextRefOf("string"), text)
        /\ madeStrings' = Append(madeStrings, NextRefOf("string"))
        /\ nextRef' = [nextRef EXCEPT !["string"] = @ + 1]
        /\ UNCHANGED <<refs, arrayLength>>
    BY <1>6 DEF NewStringUTF
  <2>3. NextRefOf("string") \in Nat
    BY <1>3, <2>1
  <2>4. CallTypeOK'
    BY <2>2, <2>3, AnswerTypes
  <2>5. nextRef' \in [Counters -> 0..MaxRefs]
    BY <1>4, <2>1, <2>2
  <2>6. madeStrings' \in Seq(Nat)
    BY <1>1, <2>2, <2>3, AppendProperties
  <2>7. \A r \in DOMAIN jniStrings' : jniStrings'[r] \in JniTexts
    BY <1>1, <2>2 DEF Put
  <2> QED BY <1>1, <2>2, <2>4, <2>5, <2>6, <2>7 DEF JniTypeOK
<1>7. ASSUME NEW length \in JniLengths, NewByteArray(length)
      PROVE  CallTypeOK' /\ JniTypeOK'
  <2>1. length \in Nat
    BY <1>0
  <2>2. Add(length, 16) \in Nat /\ length + 8 \in Nat
    <3>1. 16 \in Nat /\ length + 8 \in Nat
      BY <2>1
    <3> QED BY <2>1, <3>1, AddNumber
  <2>3. /\ GiveBlock(Malloc(Add(length, 16), length + 8))
        /\ arrayLength' = arrayLength
           \/ arrayLength' = Put(arrayLength, heapPtr, length)
        /\ UNCHANGED <<nextRef, refs, jniStrings, madeStrings>>
    BY <1>7 DEF NewByteArray
  <2>4. CallTypeOK'
    BY <2>2, <2>3, GiveBlockTypes
  <2>5. \A a \in DOMAIN arrayLength' : a \in Word /\ arrayLength'[a] \in JniLengths
    BY <1>0, <1>1, <2>3 DEF Put
  <2> QED BY <1>1, <2>3, <2>4, <2>5 DEF JniTypeOK
<1> DEFINE Harmless == /\ UNCHANGED jniVars
                       /\ \/ Return
                          \/ \E v \in Nat : Answer(v)
                          \/ \E n \in Nat : Give(<<n>>, heapPtr)
<1>8. CASE Harmless
  <2>1. \A n \in Nat : <<n>> \in Seq(Nat)
    OBVIOUS
  <2>2. CallTypeOK'
    BY <1>0, <1>8, <2>1, ReturnTypes, AnswerTypes, GiveTypes
  <2>3. JniTypeOK'
    BY <1>8 DEF JniTypeOK, jniVars
  <2> QED BY <2>2, <2>3
<1>20. \A g \in DOMAIN JniGiven : MockObj + JniGiven[g] \in Nat
  <2> SUFFICES ASSUME NEW g \in DOMAIN JniGiven PROVE MockObj + JniGiven[g] \in Nat
    OBVIOUS
  <2>1. MockObj \in Nat /\ JniGiven[g] \in Nat
    BY <1>0
  <2> QED BY <2>1
<1>9. ASSUME NEW g \in DOMAIN JniGiven, AnswerGiven(g)
      PROVE  Harmless
  <2>1. MockObj + JniGiven[g] \in Nat
    BY <1>20
  <2> QED BY <1>9, <2>1 DEF AnswerGiven
<1>10. ASSUME GetObjectClass \/ CallMethod \/ CallStaticMethod \/ JNIGeneric
       PROVE  Harmless
  <2> HIDE DEF Harmless
  <2> QED BY <1>0, <1>9, <1>10
          DEF GetObjectClass, CallMethod, CallStaticMethod, JNIGeneric
<1>11. ASSUME \/ GetVersion \/ DeleteRef \/ CallVoidMethod \/ GetField \/ SetField
              \/ Exceptions \/ ExceptionClear \/ Frames \/ RegisterNatives
              \/ GetJavaVM \/ JavaVMStubs
       PROVE  Harmless
  BY <1>11 DEF GetVersion, DeleteRef, CallVoidMethod, GetField, SetField,
               Exceptions, ExceptionClear, Frames, RegisterNatives, GetJavaVM,
               JavaVMStubs
<1>12. \A ref : TextOf(ref) \in Nat
  <2>1. 0 \in Nat
    OBVIOUS
  <2> QED BY <1>0, <1>1, <2>1 DEF TextOf
<1>13. Refs \subseteq Nat
  <2>1. GivenRefs \subseteq Nat
    BY <1>20 DEF GivenRefs
  <2>2. \A t \in DOMAIN JniHandles : JniHandles[t] \in Nat
    <3>1. DOMAIN JniHandles = DOMAIN refs \cup {"string"} \X DOMAIN madeStrings
      BY DEF JniHandles
    <3>2. ASSUME NEW t \in DOMAIN refs PROVE JniHandles[t] \in Nat
      <4>1. t[1] # "string"
        BY <1>1
      <4> QED BY <1>1, <4>1 DEF JniHandles
    <3>3. ASSUME NEW t \in {"string"} \X DOMAIN madeStrings
          PROVE  JniHandles[t] \in Nat
      <4>1. t[1] = "string" /\ t[2] \in DOMAIN madeStrings
        OBVIOUS
      <4>2. madeStrings[t[2]] \in Nat
        BY <1>1, <4>1
      <4> QED BY <4>1, <4>2 DEF JniHandles
    <3> QED BY <3>1, <3>2, <3>3
  <2> QED BY <2>1, <2>2 DEF Refs
<1>14. ASSUME NEW ref \in Nat,
              \/ GetStringUTFChars(ref) \/ GetStringUTFLength(ref) \/ NewRef(ref)
              \/ PopLocalFrame(ref) \/ IsSameObject(ref, ref)
              \/ IsSameObject(ref, MockObj)
       PROVE  Harmless
  <2>1. CASE GetStringUTFChars(ref)
    <3>1. PICK n \in Nat : n = TextOf(ref)
      BY <1>12
    <3>2. n + 1 \in Nat /\ Give(<<n + 1>>, heapPtr) /\ UNCHANGED jniVars
      BY <2>1, <3>1 DEF GetStringUTFChars
    <3> QED BY <3>2
  <2>2. CASE GetStringUTFLength(ref) \/ NewRef(ref) \/ PopLocalFrame(ref)
    BY <1>12, <2>2 DEF GetStringUTFLength, NewRef, PopLocalFrame
  <2>3. ASSUME NEW a, NEW b, IsSameObject(a, b)
        PROVE  Harmless
    <3>1. (IF a = b THEN 1 ELSE 0) \in Nat
      OBVIOUS
    <3> QED BY <2>3, <3>1 DEF IsSameObject
  <2> HIDE DEF Harmless
  <2> QED BY <1>14, <2>1, <2>2, <2>3
<1>15. ASSUME NEW array \in DOMAIN arrayLength,
              GetByteArrayElements(array) \/ GetArrayLength(array)
       PROVE  Harmless
  <2>1. array \in Nat /\ 8 \in Nat /\ arrayLength[array] \in Nat
    BY <1>0, <1>1, WordsAreNumbers
  <2>2. Add(array, 8) \in Nat
    BY <2>1, AddNumber
  <2> QED BY <1>15, <2>1, <2>2 DEF GetByteArrayElements, GetArrayLength
<1>16. {"class", "method", "static method", "field", "static field"}
         \subseteq Kinds \ {"string"}
  BY DEF Kinds
<1>17. ASSUME NEW key, \/ key \in JniClasses /\ FindClass(key)
                       \/ key \in JniMethods /\ (GetMethodID(key) \/ GetStaticMethodID(key))
                       \/ key \in JniFields /\ (GetFieldID(key) \/ GetStaticFieldID(key))
       PROVE  CallTypeOK' /\ JniTypeOK'
  <2>1. key \in Names /\ \E kind \in Kinds \ {"string"} : GetRef(kind, key)
    BY <1>16, <1>17 DEF FindClass, GetMethodID, GetStaticMethodID, GetFieldID,
                        GetStaticFieldID
  <2> HIDE DEF Names
  <2> QED BY <1>5, <2>1
<1> HIDE DEF Harmless, Names
<1>18. CASE JniLookups
  BY <1>8, <1>10, <1>11, <1>17, <1>18 DEF JniLookups
<1>19. CASE JniObjects
  BY <1>6, <1>7, <1>8, <1>13, <1>14, <1>15, <1>17, <1>19 DEF JniObjects
<1> QED BY <1>18, <1>19

Octet == 0..255

HostNames == Hosts \cup {""}

CapturedHost == [ip : Seq(Octet), port : Nat, host : HostNames]

NetLists == /\ captured \in Seq(CapturedHost)
            /\ Len(captured) <= MaxCaptured
            /\ \A i \in DOMAIN captured : IsUint16(captured[i].port)

LEMMA NetTypes == NetTypeOK <=> /\ NetLists
                                /\ \A a \in DOMAIN sockaddrs : sockaddrs[a] = FakeSockaddr
                                /\ \A a \in DOMAIN hostAddrs : hostAddrs[a] = FakeIP
BY DEF NetTypeOK, NetLists, CapturedHost, HostNames, Octet

LEMMA HostCaptured ==
  ASSUME NetLists, NEW ip \in Seq(Octet), NEW port, IsUint16(port),
         NEW host \in HostNames, CaptureHost(Captured(ip, port, host))
  PROVE  NetLists'
<1>1. PICK entry \in CapturedHost : /\ entry = Captured(ip, port, host)
                                   /\ entry.port = port
  <2>1. port \in Nat
    BY DEF IsUint16
  <2>2. Captured(ip, port, host) = [ip |-> ip, port |-> port, host |-> host]
    BY DEF Captured
  <2>3. [ip |-> ip, port |-> port, host |-> host] \in CapturedHost
    BY <2>1, Zenon DEF CapturedHost
  <2>4. [ip |-> ip, port |-> port, host |-> host].port = port
    OBVIOUS
  <2> QED BY <2>2, <2>3, <2>4
<1>2. captured' = Append(captured, entry) /\ Len(captured) < MaxCaptured
  BY <1>1, Zenon DEF CaptureHost
<1>3. PICK n \in Nat : n = Len(captured) /\ captured \in Seq(CapturedHost)
  <2>1. captured \in Seq(CapturedHost)
    BY DEF NetLists
  <2>2. \A S : \A s \in Seq(S) : Len(s) \in Nat
    OBVIOUS
  <2> QED BY <2>1, <2>2
<1>4. /\ captured' \in Seq(CapturedHost) /\ Len(captured') = n + 1
      /\ \A i \in 1..n : captured'[i] = captured[i]
      /\ captured'[n + 1] = entry
  <2>1. /\ Append(captured, entry) \in Seq(CapturedHost)
        /\ Len(Append(captured, entry)) = Len(captured) + 1
        /\ \A i \in 1..Len(captured) : Append(captured, entry)[i] = captured[i]
        /\ Append(captured, entry)[Len(captured) + 1] = entry
    BY <1>3, AppendProperties
  <2> QED BY <1>2, <1>3, <2>1
<1>5. n < MaxCaptured /\ MaxCaptured \in Nat
  BY <1>2, <1>3, NetworkAssumption
<1>6. Len(captured') <= MaxCaptured
  BY <1>4, <1>5
<1>7. \A S : \A s \in Seq(S) : DOMAIN s = 1..Len(s)
  OBVIOUS
<1>8. DOMAIN captured' = 1..(n + 1) /\ DOMAIN captured = 1..n
  BY <1>3, <1>4, <1>7
<1>9. \A i \in 1..(n + 1) : i \in 1..n \/ i = n + 1
  OBVIOUS
<1>10. \A i \in DOMAIN captured : IsUint16(captured[i].port)
  BY DEF NetLists
<1>11. \A i \in DOMAIN captured' : IsUint16(captured'[i].port)
  BY <1>1, <1>4, <1>8, <1>9, <1>10
<1> QED BY <1>4, <1>6, <1>11, Zenon DEF NetLists

LEMMA NetListsUnchanged ==
  ASSUME NetLists, UNCHANGED captured
  PROVE  NetLists'
BY DEF NetLists

LEMMA FourOctets ==
  /\ [1..4 -> Octet] \subseteq Seq(Octet)
  /\ FakeIP \in Seq(Octet) /\ WrittenIP \in Seq(Octet)
<1>1. \A m \in Nat : [1..m -> Octet] \subseteq Seq(Octet)
  OBVIOUS
<1>2. FakeIP \in Seq(Octet) /\ WrittenIP \in Seq(Octet)
  <2>1. 0 \in Octet /\ 1 \in Octet /\ 127 \in Octet
    BY DEF Octet
  <2>2. \A a, b, c, d \in Octet : <<a, b, c, d>> \in Seq(Octet)
    OBVIOUS
  <2> QED BY <2>1, <2>2 DEF FakeIP, WrittenIP
<1> QED BY <1>1, <1>2

LEMMA EightyIsUint16 == IsUint16(80) /\ IsUint16(0)
BY DEF IsUint16

LEMMA ServicePortIsUint16 ==
  ASSUME NEW service
  PROVE  IsUint16(ServicePort(service))
BY EightyIsUint16 DEF ServicePort

LEMMA TargetTypes ==
  ASSUME NetLists, NEW bytes, NEW entry, NEW fromStub,
         CaptureTarget(bytes, entry, fromStub),
         ParsedIP(bytes) \in Seq(Octet), IsUint16(ParsedPort(bytes))
  PROVE  NetLists'
<1>1. CASE UNCHANGED captured
  BY <1>1, NetListsUnchanged
<1>2. CASE CaptureHost(Captured(ParsedIP(bytes), ParsedPort(bytes), ""))
  <2>1. "" \in HostNames
    BY Zenon DEF HostNames
  <2> QED BY <1>2, <2>1, HostCaptured
<1> QED BY <1>1, <1>2 DEF CaptureTarget

LEMMA GuestOctets ==
  ASSUME NetTypeOK, NEW ip \in GuestIPs
  PROVE  ip \in Address /\ ip \in Seq(Octet)
<1>1. IPs \subseteq [1..4 -> Octet]
  BY NetworkAssumption DEF Octet
<1>2. ip \in IPs \/ ip = FakeIP
  BY DEF GuestIPs, NetTypeOK
<1>3. ip \in Seq(Octet)
  BY <1>1, <1>2, FourOctets
<1>4. ip \in Address
  <2>1. Octet \subseteq Nat
    BY DEF Octet
  <2>2. [1..4 -> Octet] \subseteq Address
    BY <2>1 DEF Address
  <2>3. FakeIP \in Address
    BY DEF FakeIP, Address
  <2> QED BY <1>1, <1>2, <2>2, <2>3
<1> QED BY <1>3, <1>4

LEMMA NetTypesKept ==
  ASSUME CallTypeOK, NetTypeOK, NetNext
  PROVE  CallTypeOK' /\ NetTypeOK'
<1>0. /\ NetLists
      /\ \A a \in DOMAIN sockaddrs : sockaddrs[a] = FakeSockaddr
      /\ \A a \in DOMAIN hostAddrs : hostAddrs[a] = FakeIP
      /\ heapPtr \in Nat
  BY NetTypes, CallFacts
<1>1. SUFFICES /\ CallTypeOK' /\ NetLists'
               /\ \A a \in DOMAIN sockaddrs' : sockaddrs'[a] = FakeSockaddr
               /\ \A a \in DOMAIN hostAddrs' : hostAddrs'[a] = FakeIP
  <2>1. (NetTypeOK <=> /\ NetLists
                       /\ \A a \in DOMAIN sockaddrs : sockaddrs[a] = FakeSockaddr
                       /\ \A a \in DOMAIN hostAddrs : hostAddrs[a] = FakeIP)'
    BY NetTypes, PTL
  <2> QED BY <1>1, <2>1
<1>2. FakeIP \in Seq(Octet) /\ WrittenIP \in Seq(Octet)
  BY FourOctets
<1>3. ASSUME NEW host \in Hosts, Gethostbyname(host)
      PROVE  /\ CallTypeOK' /\ NetLists'
             /\ \A a \in DOMAIN sockaddrs' : sockaddrs'[a] = FakeSockaddr
             /\ \A a \in DOMAIN hostAddrs' : hostAddrs'[a] = FakeIP
  <2>1. <<64, 16, 4>> \in Seq(Nat)
    OBVIOUS
  <2>2. Give(<<64, 16, 4>>, heapPtr) /\ sockaddrs' = sockaddrs
    BY <1>3 DEF Gethostbyname
  <2>3. CallTypeOK'
    BY <1>0, <2>1, <2>2, GiveTypes
  <2>4. NetLists'
    <3>1. CASE host # ""
      <4>1. CaptureHost(Captured(FakeIP, 0, host)) /\ host \in HostNames
        BY <1>3, <3>1 DEF Gethostbyname, HostNames
      <4> QED BY <1>0, <1>2, <4>1, EightyIsUint16, HostCaptured
    <3>2. CASE host = ""
      <4>1. UNCHANGED captured
        BY <1>3, <3>2 DEF Gethostbyname
      <4> QED BY <1>0, <4>1, NetListsUnchanged
    <3> QED BY <3>1, <3>2
  <2> DEFINE at == Bumps(<<64, 16>>)[3]
  <2>5. \/ hostAddrs' = hostAddrs
        \/ hostAddrs' = [a \in DOMAIN hostAddrs \cup {at} |-> FakeIP]
    BY <1>3 DEF Gethostbyname
  <2> HIDE DEF at
  <2>6. \A a \in DOMAIN hostAddrs' : hostAddrs'[a] = FakeIP
    BY <1>0, <2>5
  <2> QED BY <1>0, <2>2, <2>3, <2>4, <2>6
<1>4. ASSUME NEW host \in Hosts, NEW service, Getaddrinfo(host, service)
      PROVE  /\ CallTypeOK' /\ NetLists'
             /\ \A a \in DOMAIN sockaddrs' : sockaddrs'[a] = FakeSockaddr
             /\ \A a \in DOMAIN hostAddrs' : hostAddrs'[a] = FakeIP
  <2>1. <<64, 32>> \in Seq(Nat) /\ 0 \in Nat
    OBVIOUS
  <2>2. Give(<<64, 32>>, 0) /\ hostAddrs' = hostAddrs
    BY <1>4 DEF Getaddrinfo
  <2>3. CallTypeOK'
    BY <2>1, <2>2, GiveTypes
  <2>4. NetLists'
    <3>1. CASE host # ""
      <4>1. /\ CaptureHost(Captured(FakeIP, ServicePort(service), host))
            /\ host \in HostNames
        BY <1>4, <3>1 DEF Getaddrinfo, HostNames
      <4> QED BY <1>0, <1>2, <4>1, ServicePortIsUint16, HostCaptured
    <3>2. CASE host = ""
      <4>1. UNCHANGED captured
        BY <1>4, <3>2 DEF Getaddrinfo
      <4> QED BY <1>0, <4>1, NetListsUnchanged
    <3> QED BY <3>1, <3>2
  <2> DEFINE at == Bumps(<<64, 32>>)[2]
  <2>5. \/ sockaddrs' = sockaddrs
        \/ sockaddrs' = [a \in DOMAIN sockaddrs \cup {at} |->
                           IF a = at THEN FakeSockaddr ELSE sockaddrs[a]]
    BY <1>4 DEF Getaddrinfo
  <2> HIDE DEF at
  <2>6. \A a \in DOMAIN sockaddrs' : sockaddrs'[a] = FakeSockaddr
    BY <1>0, <2>5
  <2> QED BY <1>0, <2>2, <2>3, <2>4, <2>6
<1>5. ASSUME NEW bytes, NEW entry, NEW fromStub, NEW length \in Nat,
             \/ Connect(bytes, entry, fromStub)
             \/ Sendto(bytes, entry, fromStub, length),
             ParsedIP(bytes) \in Seq(Octet), IsUint16(ParsedPort(bytes))
      PROVE  /\ CallTypeOK' /\ NetLists'
             /\ \A a \in DOMAIN sockaddrs' : sockaddrs'[a] = FakeSockaddr
             /\ \A a \in DOMAIN hostAddrs' : hostAddrs'[a] = FakeIP
  <2>1. /\ CaptureTarget(bytes, entry, fromStub)
        /\ Answer(0) \/ Answer(length)
        /\ 0 \in Nat
    BY <1>5 DEF Connect, Sendto
  <2>2. CallTypeOK'
    BY <2>1, AnswerTypes
  <2>3. NetLists'
    BY <1>0, <1>5, <2>1, TargetTypes
  <2>4. UNCHANGED <<sockaddrs, hostAddrs>>
    BY <2>1 DEF CaptureTarget
  <2> QED BY <1>0, <2>2, <2>3, <2>4
<1>6. ASSUME NEW family \in Families, NEW port \in Ports, NEW ip \in GuestIPs,
             \/ Connect(Compose(family, port, ip), Captured(ip, port, ""),
                        FALSE)
             \/ Sendto(Compose(family, port, ip), Captured(ip, port, ""),
                       FALSE, port)
      PROVE  /\ CallTypeOK' /\ NetLists'
             /\ \A a \in DOMAIN sockaddrs' : sockaddrs'[a] = FakeSockaddr
             /\ \A a \in DOMAIN hostAddrs' : hostAddrs'[a] = FakeIP
  <2>1. IsUint16(port) /\ IsUint16(family) /\ port \in Nat
    BY GuestShorts DEF IsUint16
  <2>2. ip \in Address /\ ip \in Seq(Octet)
    BY GuestOctets
  <2>3. /\ ParsedIP(Compose(family, port, ip)) = ip
        /\ ParsedPort(Compose(family, port, ip)) = port
    BY <2>1, <2>2, ComposedParses
  <2>4. /\ ParsedIP(Compose(family, port, ip)) \in Seq(Octet)
        /\ IsUint16(ParsedPort(Compose(family, port, ip)))
    BY <2>1, <2>2, <2>3
  <2> QED BY <1>5, <1>6, <2>1, <2>4
<1>7. ASSUME NEW a \in DOMAIN sockaddrs, NEW entry,
             \/ Connect(sockaddrs[a], entry, TRUE)
             \/ Sendto(sockaddrs[a], entry, TRUE, FakePort)
      PROVE  /\ CallTypeOK' /\ NetLists'
             /\ \A b \in DOMAIN sockaddrs' : sockaddrs'[b] = FakeSockaddr
             /\ \A b \in DOMAIN hostAddrs' : hostAddrs'[b] = FakeIP
  <2>1. /\ \/ Connect(FakeSockaddr, entry, TRUE)
           \/ Sendto(FakeSockaddr, entry, TRUE, FakePort)
        /\ FakePort \in Nat
    BY <1>0, <1>7 DEF FakePort
  <2>2. ParsedIP(FakeSockaddr) \in Seq(Octet) /\ IsUint16(ParsedPort(FakeSockaddr))
    BY <1>2, EightyIsUint16, FakeParses DEF FakePort
  <2> QED BY <1>5, <2>1, <2>2
<1>8. CASE Getpeername
  <2>1. CallTypeOK'
    BY <1>8, AnswerTypes DEF Getpeername
  <2>2. /\ sockaddrs' = [a \in DOMAIN sockaddrs \cup {PeerBuf} |->
                           IF a = PeerBuf THEN FakeSockaddr ELSE sockaddrs[a]]
        /\ UNCHANGED <<captured, meant, hostAddrs>>
    BY <1>8 DEF Getpeername
  <2>3. \A a \in DOMAIN sockaddrs' : sockaddrs'[a] = FakeSockaddr
    BY <1>0, <2>2
  <2>4. NetLists'
    BY <1>0, <2>2, NetListsUnchanged
  <2> QED BY <1>0, <2>1, <2>2, <2>3, <2>4
<1>9. CASE \/ Bind \/ Freeaddrinfo \/ Gethostbyaddr \/ InetAton \/ InetNtoa
           \/ InetPton(PeerBuf) \/ \E port \in Ports : Htons(port)
  <2>1. UNCHANGED netVars
    BY <1>9 DEF Bind, Freeaddrinfo, Gethostbyaddr, InetAton, InetNtoa, InetPton,
                Htons
  <2>2. UNCHANGED <<captured, sockaddrs, hostAddrs>>
    BY <2>1 DEF netVars
  <2>3. NetLists'
    BY <1>0, <2>2, NetListsUnchanged
  <2>4. ASSUME NEW port \in Ports, Htons(port)
        PROVE  CallTypeOK'
    <3>1. IsUint16(port)
      BY GuestShorts
    <3>2. /\ port % 256 \in Nat /\ port \div 256 \in Nat
      BY <3>1, TwoBytes
    <3>3. PICK low, high \in Nat : low = port % 256 /\ high = port \div 256
      BY <3>2
    <3>4. low * 256 + high \in Nat
      OBVIOUS
    <3>5. Swap(port) \in Nat
      BY <3>3, <3>4 DEF Swap
    <3> QED BY <2>4, <3>5, AnswerTypes DEF Htons
  <2>5. ASSUME \/ Bind \/ Freeaddrinfo \/ Gethostbyaddr \/ InetAton
               \/ InetPton(PeerBuf)
        PROVE  CallTypeOK'
    <3>1. PeerBuf \in Nat /\ 0 \in Nat /\ 1 \in Nat
      BY NetworkAssumption
    <3>2. Return \/ \E v \in Nat : Answer(v)
      BY <2>5, <3>1 DEF Bind, Freeaddrinfo, Gethostbyaddr, InetAton, InetPton
    <3> QED BY <3>2, ReturnTypes, AnswerTypes
  <2>6. CASE InetNtoa
    <3>1. Give(<<16>>, heapPtr) /\ <<16>> \in Seq(Nat)
      BY <2>6 DEF InetNtoa
    <3> QED BY <1>0, <2>2, <2>3, <3>1, GiveTypes
  <2> QED BY <1>0, <1>9, <2>2, <2>3, <2>4, <2>5, <2>6
<1>10. CASE ClearCapturedHosts
  <2>1. /\ captured' = <<>> /\ UNCHANGED <<sockaddrs, hostAddrs, callVars>>
    BY <1>10 DEF ClearCapturedHosts
  <2>2. CallTypeOK'
    BY <2>1 DEF callVars, CallTypeOK, TypeOK
  <2>3. captured' \in Seq(CapturedHost) /\ Len(captured') = 0 /\ DOMAIN captured' = {}
    BY <2>1
  <2>4. NetLists'
    BY <2>3, NetworkAssumption DEF NetLists
  <2> QED BY <1>0, <2>1, <2>2, <2>4
<1> QED BY <1>3, <1>4, <1>6, <1>7, <1>8, <1>9, <1>10 DEF NetNext

\* A package that a step leaves alone keeps its types.
LEMMA TypesUnchanged ==
  /\ JniTypeOK /\ UNCHANGED jniVars => JniTypeOK'
  /\ FdTypeOK /\ UNCHANGED fdVars => FdTypeOK'
  /\ PthreadTypeOK /\ UNCHANGED pthreadVars => PthreadTypeOK'
  /\ GuardTypeOK /\ UNCHANGED guardVars => GuardTypeOK'
  /\ DlTypeOK /\ UNCHANGED dlVars => DlTypeOK'
  /\ NetTypeOK /\ UNCHANGED netVars => NetTypeOK'
  /\ LibcTypeOK /\ UNCHANGED libcVars => LibcTypeOK'
<1>1. JniTypeOK /\ UNCHANGED jniVars => JniTypeOK'
  BY DEF JniTypeOK, jniVars
<1>2. FdTypeOK /\ UNCHANGED fdVars => FdTypeOK'
  BY DEF FdTypeOK, fdVars
<1>3. PthreadTypeOK /\ UNCHANGED pthreadVars => PthreadTypeOK'
  BY DEF PthreadTypeOK, pthreadVars, threadVars, tlsVars
<1>4. GuardTypeOK /\ UNCHANGED guardVars => GuardTypeOK'
  BY DEF GuardTypeOK, guardVars
<1>5. DlTypeOK /\ UNCHANGED dlVars => DlTypeOK'
  BY DEF DlTypeOK, dlVars
<1>6. NetTypeOK /\ UNCHANGED netVars => NetTypeOK'
  BY Zenon DEF NetTypeOK, netVars
<1>7. LibcTypeOK /\ UNCHANGED libcVars => LibcTypeOK'
  BY DEF LibcTypeOK, libcVars
<1> QED BY <1>1, <1>2, <1>3, <1>4, <1>5, <1>6, <1>7

\* A new emulator.
LEMMA NewHeapPointer == HeapBase \in Word
<1>1. HeapBase \in Nat /\ HeapSize \in Nat /\ Modulus \in Nat
      /\ HeapBase + HeapSize < Modulus
  BY HeapAssumption DEF HeapEnd
<1>2. HeapBase < Modulus
  BY <1>1
<1> QED BY <1>1, <1>2 DEF Word

LEMMA NewEmulatorTypes ==
  ASSUME CallTypeOK, NewEmulator
  PROVE  CallTypeOK'
<1>1. heapPtr' \in Word /\ panicked' \in BOOLEAN /\ x0' \in Nat /\ stopped' \in BOOLEAN
  BY NewHeapPointer, CallFacts DEF NewEmulator
<1>2. blocks' \in Seq(Block)
  BY DEF NewEmulator
<1>3. emulators' \in 1..MaxEmulators
  BY CallFacts, CallAssumption DEF NewEmulator
<1> QED BY <1>1, <1>2, <1>3 DEF CallTypeOK, TypeOK

LEMMA NextGuestTypes ==
  ASSUME ServicesTypeOK, NextGuest
  PROVE  ServicesTypeOK'
<1>1. CallTypeOK'
  BY NewEmulatorTypes DEF ServicesTypeOK, NextGuest
<1>2. JniTypeOK'
  <2>1. /\ nextRef' = [c \in Counters |-> 0] /\ refs' = <<>>
        /\ jniStrings' = <<>> /\ madeStrings' = <<>> /\ arrayLength' = <<>>
    BY DEF NextGuest
  <2>2. nextRef' \in [Counters -> 0..MaxRefs]
    <3>1. 0 \in 0..MaxRefs
      <4>1. MaxRefs \in Nat
        BY JniAssumption, Zenon
      <4> QED BY <4>1
    <3> QED BY <2>1, <3>1
  <2>3. DOMAIN refs' = {} /\ DOMAIN jniStrings' = {} /\ DOMAIN arrayLength' = {}
    BY <2>1
  <2>4. refs' \in [DOMAIN refs' -> Nat] /\ madeStrings' \in Seq(Nat)
    BY <2>1
  <2> QED BY <2>2, <2>3, <2>4 DEF JniTypeOK
<1>3. FdTypeOK'
  <2>1. held' = <<>> /\ ahead' = FALSE
    BY DEF NextGuest
  <2>2. held' \in [DOMAIN held' -> Nat]
    BY <2>1
  <2> QED BY <2>1, <2>2 DEF ServicesTypeOK, FdTypeOK, NextGuest
<1>4. PthreadTypeOK'
  <2>1. /\ threads' = <<>> /\ keyVar' = [v \in 1..KeyVars |-> 0]
        /\ created' = {} /\ stored' = [v \in 1..KeyVars |-> 0]
        /\ spoiled' = FALSE
        /\ UNCHANGED <<nextThreadID, nextTLSKey, tlsData, onceFlags>>
    BY DEF NextGuest
  <2>2. threads' \in Seq(1..MaxThreads)
    BY <2>1
  <2>3. /\ keyVar' \in [1..KeyVars -> Nat] /\ created' \subseteq 1..KeyVars
        /\ stored' \in [1..KeyVars -> TlsValues \cup {0}]
    BY <2>1
  <2> QED BY <2>1, <2>2, <2>3 DEF ServicesTypeOK, PthreadTypeOK
<1>5. GuardTypeOK'
  <2>1. /\ initialising' = <<>> /\ inited' = {} /\ ranTwice' = FALSE
        /\ trusted' = {}
        /\ guardState' = {} \/ guardState' = guardState
        /\ careful' = careful \/ careful' = FALSE
    BY DEF NextGuest
  <2>2. initialising' \in Seq(GuardVars)
    BY <2>1
  <2>3. guardState \subseteq GuardVars /\ careful \in BOOLEAN
    BY DEF ServicesTypeOK, GuardTypeOK
  <2> QED BY <2>1, <2>2, <2>3, Zenon DEF GuardTypeOK
<1>6. DlTypeOK'
  <2>1. DOMAIN dlHeld' = {}
    BY DEF NextGuest
  <2> QED BY <2>1 DEF ServicesTypeOK, DlTypeOK, NextGuest
<1>7. NetTypeOK'
  <2>1. sockaddrs' = <<>> /\ hostAddrs' = <<>> /\ UNCHANGED captured
    BY DEF NextGuest
  <2>2. DOMAIN sockaddrs' = {} /\ DOMAIN hostAddrs' = {}
    BY <2>1
  <2> QED BY <2>1, <2>2, Zenon DEF ServicesTypeOK, NetTypeOK
<1>8. LibcTypeOK'
  BY TypesUnchanged DEF ServicesTypeOK, NextGuest
<1>9. imports' \in Programs
  BY DEF ServicesTypeOK, NextGuest
<1> QED BY <1>1, <1>2, <1>3, <1>4, <1>5, <1>6, <1>7, <1>8, <1>9
        DEF ServicesTypeOK

LEMMA ServicesInitTypes == ServicesInit => ServicesTypeOK
<1> SUFFICES ASSUME ServicesInit PROVE ServicesTypeOK
  OBVIOUS
<1>1. CallTypeOK
  <2>1. heapPtr \in Word /\ panicked \in BOOLEAN /\ x0 \in Nat /\ stopped \in BOOLEAN
    BY NewHeapPointer DEF ServicesInit, CallInit, Init
  <2>2. blocks \in Seq(Block)
    BY DEF ServicesInit, CallInit, Init
  <2>3. emulators \in 1..MaxEmulators
    BY CallAssumption DEF ServicesInit, CallInit
  <2> QED BY <2>1, <2>2, <2>3 DEF CallTypeOK, TypeOK
<1>2. JniTypeOK
  <2>1. /\ nextRef = [c \in Counters |-> 0] /\ refs = <<>>
        /\ jniStrings = <<>> /\ madeStrings = <<>> /\ arrayLength = <<>>
    BY DEF ServicesInit, JniInit
  <2>2. nextRef \in [Counters -> 0..MaxRefs]
    <3>1. 0 \in 0..MaxRefs
      <4>1. MaxRefs \in Nat
        BY JniAssumption, Zenon
      <4> QED BY <4>1
    <3> QED BY <2>1, <3>1
  <2>3. DOMAIN refs = {} /\ DOMAIN jniStrings = {} /\ DOMAIN arrayLength = {}
    BY <2>1
  <2>4. refs \in [DOMAIN refs -> Nat] /\ madeStrings \in Seq(Nat)
    BY <2>1
  <2> QED BY <2>2, <2>3, <2>4 DEF JniTypeOK
<1>3. FdTypeOK
  <2>1. /\ nextFileFD = FileBase /\ openFiles = <<>> /\ nextFD = SocketBase
        /\ socketFD = {} /\ held = <<>> /\ ahead = FALSE
    BY DEF ServicesInit, FdInit
  <2>2. /\ FileBase \in Nat /\ SocketBase \in Nat /\ MaxDescriptors \in Nat
    BY DescriptorsAssumption
  <2>3. /\ nextFileFD \in FileBase..(FileBase + MaxDescriptors)
        /\ nextFD \in SocketBase..(SocketBase + MaxDescriptors)
    BY <2>1, <2>2
  <2>4. DOMAIN openFiles = {} /\ held \in [DOMAIN held -> Nat]
    BY <2>1
  <2>5. FileBase..(nextFileFD - 1) = {}
    BY <2>1, <2>2
  <2> QED BY <2>1, <2>3, <2>4, <2>5 DEF FdTypeOK
<1>4. PthreadTypeOK
  <2>1. /\ threads = <<>> /\ keyVar = [v \in 1..KeyVars |-> 0]
        /\ created = {} /\ stored = [v \in 1..KeyVars |-> 0]
        /\ spoiled = FALSE /\ nextThreadID = 1 /\ nextTLSKey = 0
        /\ tlsData = <<>> /\ onceFlags = {}
    BY DEF ServicesInit, PthreadInit, NoKeys
  <2>2. threads \in Seq(1..MaxThreads)
    BY <2>1
  <2>3. /\ keyVar \in [1..KeyVars -> Nat] /\ created \subseteq 1..KeyVars
        /\ stored \in [1..KeyVars -> TlsValues \cup {0}]
    BY <2>1
  <2>4. DOMAIN tlsData = {}
    BY <2>1
  <2>5. nextThreadID \in 1..(MaxThreads + 1) /\ nextTLSKey \in 0..MaxKeys
    BY <2>1, PthreadAssumption
  <2> QED BY <2>1, <2>2, <2>3, <2>4, <2>5 DEF PthreadTypeOK
<1>5. GuardTypeOK
  <2>1. initialising = <<>> /\ inited = {} /\ ranTwice = FALSE /\ trusted = {}
        /\ guardState = {} /\ careful = TRUE
    BY DEF ServicesInit, GuardInit, NothingInitialised
  <2>2. initialising \in Seq(GuardVars)
    BY <2>1
  <2> QED BY <2>1, <2>2 DEF GuardTypeOK
<1>6. DlTypeOK
  <2>1. /\ nextHandle = DlFirst /\ dlHandles = {} /\ dlLastError = FALSE
        /\ DOMAIN dlHeld = {}
    BY DEF ServicesInit, DlInit
  <2>2. DlFirst \in Issued \cup {DlFirst + MaxOpens * DlStep}
    <3>1. DlFirst \in Nat \ {0} /\ DlStep \in Nat \ {0} /\ MaxOpens \in Nat
      BY DlAssumption
    <3>2. CASE MaxOpens = 0
      BY <3>1, <3>2
    <3>3. CASE MaxOpens # 0
      BY <3>1, <3>3 DEF Issued
    <3> QED BY <3>2, <3>3
  <2> QED BY <2>1, <2>2 DEF DlTypeOK
<1>7. NetTypeOK
  <2>1. captured = <<>> /\ sockaddrs = <<>> /\ hostAddrs = <<>>
    BY DEF ServicesInit, NetInit
  <2>2. DOMAIN sockaddrs = {} /\ DOMAIN hostAddrs = {} /\ DOMAIN captured = {}
    BY <2>1
  <2>3. NetLists
    <3>1. captured \in Seq(CapturedHost) /\ Len(captured) = 0
      BY <2>1
    <3> QED BY <2>2, <3>1, NetworkAssumption DEF NetLists
  <2> QED BY <2>2, <2>3, NetTypes
<1>8. LibcTypeOK
  <2>1. 0 \in Word
    BY HeapAssumption DEF Word
  <2> QED BY <2>1 DEF ServicesInit, LibcInit, LibcTypeOK
<1>9. imports \in Programs
  BY DEF ServicesInit
<1> QED BY <1>1, <1>2, <1>3, <1>4, <1>5, <1>6, <1>7, <1>8, <1>9
        DEF ServicesTypeOK

LEMMA ServicesStepTypes ==
  ASSUME ServicesTypeOK, [ServicesNext]_servicesVars
  PROVE  ServicesTypeOK'
<1>0. /\ CallTypeOK /\ JniTypeOK /\ FdTypeOK /\ PthreadTypeOK /\ GuardTypeOK
      /\ DlTypeOK /\ NetTypeOK /\ LibcTypeOK /\ imports \in Programs
  BY DEF ServicesTypeOK
<1> DEFINE TypesKept == /\ CallTypeOK' /\ JniTypeOK' /\ FdTypeOK' /\ PthreadTypeOK'
                        /\ GuardTypeOK' /\ DlTypeOK' /\ NetTypeOK' /\ LibcTypeOK'
                        /\ imports' \in Programs
<1>1. SUFFICES TypesKept
  BY DEF ServicesTypeOK
<1>2. CASE UseHeap
  BY <1>0, <1>2, UseHeapTypes, TypesUnchanged DEF UseHeap
<1>3. CASE UseJni
  BY <1>0, <1>3, JniTypesKept, TypesUnchanged DEF UseJni
<1>4. CASE UseDescriptors
  BY <1>0, <1>4, FdTypesKept, TypesUnchanged DEF UseDescriptors
<1>5. CASE UsePthread
  BY <1>0, <1>5, ThreadTypes, TlsTypesKept, TypesUnchanged DEF UsePthread
<1>6. CASE UseGuards
  BY <1>0, <1>6, GuardTypesKept, TypesUnchanged DEF UseGuards
<1>7. CASE UseDl
  BY <1>0, <1>7, DlTypesKept, TypesUnchanged DEF UseDl
<1>8. CASE UseNetwork
  BY <1>0, <1>8, NetTypesKept, TypesUnchanged DEF UseNetwork
<1>9. CASE UseLibc
  BY <1>0, <1>9, LibcTypesKept, TypesUnchanged DEF UseLibc
<1>10. CASE NextGuest
  BY <1>10, NextGuestTypes DEF ServicesTypeOK
<1>11. CASE UNCHANGED servicesVars
  <2>1. CallTypeOK'
    BY <1>0, <1>11 DEF servicesVars, callVars, CallTypeOK, TypeOK
  <2> QED BY <1>0, <1>11, <2>1, TypesUnchanged DEF servicesVars
<1> QED BY <1>2, <1>3, <1>4, <1>5, <1>6, <1>7, <1>8, <1>9, <1>10, <1>11
        DEF ServicesNext

\* The types of everything the packages keep, on every heap and for every guest
\* (GuestServices; the code's counters, tables and buffers).
THEOREM ServicesTypes == ServicesSpec => []ServicesTypeOK
BY ServicesInitTypes, ServicesStepTypes, PTL DEF ServicesSpec

-----------------------------------------------------------------------------
(***************************************************************************)
(* The heap under all the services.  A hook leaves it alone, calls Malloc  *)
(* for one request of the guest, or for a row of sizes of its own; or the  *)
(* guest is gone and the next one starts.                                  *)
(***************************************************************************)
OneRequest == \E n, size \in Nat : /\ size <= n /\ HeapEnd + n + 15 < Modulus
                                   /\ Malloc(n, size)

RowOfRequests == \E sizes, v : /\ AllFit(sizes) /\ Len(sizes) # 0
                               /\ Give(sizes, v)

HeapStep == UNCHANGED vars \/ OneRequest \/ RowOfRequests \/ NewEmulator

LEMMA QuietHooks ==
  /\ \A v : Answer(v) => UNCHANGED vars
  /\ Return \/ Stop => UNCHANGED vars
BY DEF Answer, Return, Stop

\* The sizes the stubs choose, and those that depend on a text of the guest.
LEMMA SmallSizesFit ==
  ASSUME SmallGuests
  PROVE  /\ HeapEnd \in Nat /\ Modulus \in Nat
         /\ \A n \in Nat : n <= 256 => Fits(n)
         /\ \A n \in JniTexts \cup JniLengths \cup EnvValues
                  \cup {EnvDefaults[name] : name \in DOMAIN EnvDefaults} :
              n \in Nat => Fits(n + 1) /\ Fits(n + 16)
<1>1. HeapEnd \in Nat /\ Modulus \in Nat
  BY HeapAssumption DEF HeapEnd
<1>2. HeapEnd + 256 + 256 <= Modulus
  BY DEF SmallGuests
<1>3. \A n \in Nat : n <= 256 => Fits(n)
  BY <1>1, <1>2 DEF Fits
<1>4. ASSUME NEW n \in JniTexts \cup JniLengths \cup EnvValues
                  \cup {EnvDefaults[name] : name \in DOMAIN EnvDefaults},
             n \in Nat
      PROVE  Fits(n + 1) /\ Fits(n + 16)
  <2>1. HeapEnd + n + 256 <= Modulus
    BY <1>4 DEF SmallGuests
  <2> QED BY <1>1, <1>4, <2>1 DEF Fits
<1> QED BY <1>1, <1>3, <1>4

LEMMA OneSize ==
  ASSUME NEW n, Fits(n), NEW v, Give(<<n>>, v)
  PROVE  RowOfRequests
<1>1. n \in Nat
  BY DEF Fits
<1>2. <<n>> \in Seq(Nat) /\ Len(<<n>>) = 1
  BY <1>1
<1>3. \A i \in 1..1 : <<n>>[i] = n
  OBVIOUS
<1>4. AllFit(<<n>>)
  BY <1>2, <1>3 DEF AllFit
<1> QED BY <1>2, <1>4 DEF RowOfRequests

LEMMA TwoSizes ==
  ASSUME NEW m, NEW n, Fits(m), Fits(n), NEW v, Give(<<m, n>>, v)
  PROVE  RowOfRequests
<1>1. m \in Nat /\ n \in Nat
  BY DEF Fits
<1>2. <<m, n>> \in Seq(Nat) /\ Len(<<m, n>>) = 2
  BY <1>1
<1>3. \A i \in 1..2 : <<m, n>>[i] = m \/ <<m, n>>[i] = n
  OBVIOUS
<1>4. AllFit(<<m, n>>)
  BY <1>2, <1>3 DEF AllFit
<1> QED BY <1>2, <1>4 DEF RowOfRequests

LEMMA ThreeSizes ==
  ASSUME NEW l, NEW m, NEW n, Fits(l), Fits(m), Fits(n), NEW v,
         Give(<<l, m, n>>, v)
  PROVE  RowOfRequests
<1>1. l \in Nat /\ m \in Nat /\ n \in Nat
  BY DEF Fits
<1>2. <<l, m, n>> \in Seq(Nat) /\ Len(<<l, m, n>>) = 3
  BY <1>1
<1>3. \A i \in 1..3 : \/ <<l, m, n>>[i] = l \/ <<l, m, n>>[i] = m
                      \/ <<l, m, n>>[i] = n
  OBVIOUS
<1>4. AllFit(<<l, m, n>>)
  BY <1>2, <1>3 DEF AllFit
<1>5. PICK row : row = <<l, m, n>>
  OBVIOUS
<1>6. AllFit(row) /\ Len(row) # 0 /\ Give(row, v)
  BY <1>2, <1>4, <1>5
<1> QED BY <1>6, Zenon DEF RowOfRequests

LEMMA LibcHeap ==
  ASSUME SmallGuests, LibcTypeOK, LocaleNext \/ EnvironmentNext \/ LuaNext
  PROVE  HeapStep
<1>1. /\ Fits(8) /\ Fits(128) /\ Fits(4) /\ Fits(256)
  BY SmallSizesFit
<1>2. CASE Newlocale \/ Uselocale \/ Setlocale
  <2>1. Give(<<8>>, heapPtr) \/ \E v : Answer(v)
    BY <1>2 DEF Newlocale, Uselocale, Setlocale, Static
  <2> QED BY <1>1, <2>1, OneSize, QuietHooks DEF HeapStep
<1>3. CASE Localeconv
  <2>1. Give(<<128, 4, 4>>, heapPtr) \/ \E v : Answer(v)
    BY <1>3 DEF Localeconv, Static
  <2> QED BY <1>1, <2>1, ThreeSizes, QuietHooks DEF HeapStep
<1>4. CASE LuaNewstate
  <2>1. Give(<<256>>, heapPtr) \/ \E v : Answer(v)
    BY <1>4 DEF LuaNewstate, Static
  <2> QED BY <1>1, <2>1, OneSize, QuietHooks DEF HeapStep
<1>5. ASSUME NEW name, Getenv(name) PROVE HeapStep
  <2>1. CASE name \in DOMAIN envVars
    <3>1. PICK n \in EnvValues : n = envVars[name]
      BY <2>1 DEF LibcTypeOK
    <3>2. n \in Nat
      BY LibcServicesAssumption
    <3>3. Give(<<n + 1>>, heapPtr)
      BY <1>5, <2>1, <3>1 DEF Getenv
    <3> QED BY <3>2, <3>3, OneSize, SmallSizesFit DEF HeapStep
  <2>2. CASE name \notin DOMAIN envVars /\ name \in DOMAIN EnvDefaults
    <3>1. PICK n \in Nat : n = EnvDefaults[name]
      BY <2>2, LibcServicesAssumption
    <3>2. Give(<<n + 1>>, heapPtr)
      BY <1>5, <2>2, <3>1 DEF Getenv
    <3>3. n \in {EnvDefaults[m] : m \in DOMAIN EnvDefaults}
      BY <2>2, <3>1
    <3> QED BY <3>2, <3>3, OneSize, SmallSizesFit DEF HeapStep
  <2>3. CASE name \notin DOMAIN envVars /\ name \notin DOMAIN EnvDefaults
    BY <1>5, <2>3, QuietHooks DEF Getenv, HeapStep
  <2> QED BY <2>1, <2>2, <2>3
<1>6. ASSUME \/ Freelocale \/ Putenv \/ Sysconf \/ Time \/ Exit \/ Atexit
             \/ LuaNoops \/ LuaStack \/ LuaFields \/ LuaTypes
             \/ LuaConversions \/ LuaTables \/ LuaCalls \/ ToluaModules
             \/ ToluaTypes
      PROVE  HeapStep
  BY <1>6, QuietHooks
     DEF HeapStep, Freelocale, Putenv, Sysconf, Time, Exit, Atexit, LuaNoops,
         LuaStack, LuaFields, LuaTypes, LuaConversions, LuaTables, LuaCalls,
         ToluaModules, ToluaTypes
<1>7. ASSUME NEW name, Unsetenv(name) \/ \E value \in EnvValues : Setenv(name, value)
      PROVE  HeapStep
  BY <1>7, QuietHooks DEF HeapStep, Unsetenv, Setenv
<1>8. ASSUME NEW v, NEW w, LuaPush(v) \/ LuaAuxiliary(v) \/ MockHook(v, w)
      PROVE  HeapStep
  BY <1>8, QuietHooks DEF HeapStep, LuaPush, LuaAuxiliary, MockHook
<1>9. CASE LocaleNext
  BY <1>2, <1>3, <1>4, <1>6, <1>9 DEF LocaleNext
<1>10. CASE EnvironmentNext
  BY <1>5, <1>6, <1>7, <1>10 DEF EnvironmentNext
<1>11. CASE LuaNext
  BY <1>4, <1>6, <1>8, <1>11 DEF LuaNext
<1> QED BY <1>9, <1>10, <1>11

LEMMA DescriptorsHeap ==
  ASSUME SmallGuests, FdNext \/ FileCalls
  PROVE  HeapStep
<1>1. Fits(19) /\ Fits(3 + 1) /\ Fits(64) /\ Fits(256)
  BY SmallSizesFit
<1>2. CASE FdNext
  <2>1. \E v : Answer(v)
    BY <1>2 DEF FdNext, Open, Mkstemp, Dup, Close, Dup2, Pipe, Socket, Accept,
                EpollCreate, AllocFD
  <2> QED BY <2>1, QuietHooks DEF HeapStep
<1>3. ASSUME NEW buffer, Getcwd(buffer) \/ Realpath(buffer, 3)
      PROVE  HeapStep
  <2>1. Give(<<19>>, heapPtr) \/ Give(<<3 + 1>>, heapPtr) \/ Answer(buffer)
    BY <1>3 DEF Getcwd, Realpath, Filled
  <2> QED BY <1>1, <2>1, OneSize, QuietHooks DEF HeapStep
<1>4. CASE Opendir \/ Tmpfile
  <2>1. Give(<<64>>, heapPtr) \/ Give(<<256>>, heapPtr)
    BY <1>4 DEF Opendir, Tmpfile
  <2> QED BY <1>1, <2>1, OneSize DEF HeapStep
<1>5. ASSUME \/ \E n \in FixedSizes : \/ ReadsAndWrites(n) \/ Send(n)
                                      \/ Readlink(n) \/ Mkdtemp(n)
             \/ StatAndAccess \/ MapCalls \/ DirectoryCalls \/ PathCalls
             \/ Chmod \/ FcntlFile \/ Truncate \/ Umask \/ SocketCalls
      PROVE  HeapStep
  <2>1. Return \/ \E v : Answer(v)
    BY <1>5 DEF ReadsAndWrites, Send, Readlink, Mkdtemp, StatAndAccess,
                MapCalls, DirectoryCalls, PathCalls, Chmod, FcntlFile,
                Truncate, Umask, SocketCalls
  <2> QED BY <2>1, QuietHooks DEF HeapStep
<1> QED BY <1>2, <1>3, <1>4, <1>5 DEF FileCalls

LEMMA NetworkHeap ==
  ASSUME SmallGuests, NetNext
  PROVE  HeapStep
<1>1. Fits(64) /\ Fits(32) /\ Fits(16) /\ Fits(4)
  BY SmallSizesFit
<1>2. ASSUME NEW host, Gethostbyname(host) PROVE HeapStep
  <2>1. Give(<<64, 16, 4>>, heapPtr)
    BY <1>2 DEF Gethostbyname
  <2> QED BY <1>1, <2>1, ThreeSizes DEF HeapStep
<1>3. ASSUME NEW host, NEW service, Getaddrinfo(host, service) PROVE HeapStep
  <2>1. Give(<<64, 32>>, 0)
    BY <1>3 DEF Getaddrinfo
  <2> QED BY <1>1, <2>1, TwoSizes DEF HeapStep
<1>4. CASE InetNtoa
  <2>1. Give(<<16>>, heapPtr)
    BY <1>4 DEF InetNtoa
  <2> QED BY <1>1, <2>1, OneSize DEF HeapStep
<1>5. ASSUME NEW bytes, NEW entry, NEW fromStub, NEW length,
             \/ Connect(bytes, entry, fromStub)
             \/ Sendto(bytes, entry, fromStub, length)
      PROVE  HeapStep
  BY <1>5, QuietHooks DEF Connect, Sendto, HeapStep
<1>6. ASSUME \/ Getpeername \/ Bind \/ Freeaddrinfo \/ Gethostbyaddr
             \/ InetAton \/ InetPton(PeerBuf) \/ \E port \in Ports : Htons(port)
      PROVE  HeapStep
  <2>1. Return \/ \E v : Answer(v)
    BY <1>6 DEF Getpeername, Bind, Freeaddrinfo, Gethostbyaddr, InetAton,
                InetPton, Htons
  <2> QED BY <2>1, QuietHooks DEF HeapStep
<1>7. CASE ClearCapturedHosts
  BY <1>7 DEF ClearCapturedHosts, callVars, vars, HeapStep
<1> QED BY <1>2, <1>3, <1>4, <1>5, <1>6, <1>7 DEF NetNext

LEMMA JniHeap ==
  ASSUME SmallGuests, JniTypeOK, JniLookups \/ JniObjects
  PROVE  HeapStep
<1>0. JniTexts \subseteq Nat /\ JniLengths \subseteq Nat
  BY JniAssumption, WordsAreNumbers, Zenon
<1>1. ASSUME NEW ref, GetStringUTFChars(ref) PROVE HeapStep
  <2>1. PICK n : n = TextOf(ref)
    OBVIOUS
  <2>2. Give(<<n + 1>>, heapPtr)
    BY <1>1, <2>1 DEF GetStringUTFChars
  <2>3. n \in JniTexts \/ n = 0
    BY <2>1 DEF TextOf, JniTypeOK
  <2>4. Fits(n + 1)
    <3>1. CASE n \in JniTexts
      BY <1>0, <3>1, SmallSizesFit
    <3>2. CASE n = 0
      BY <3>2, SmallSizesFit
    <3> QED BY <2>3, <3>1, <3>2
  <2> QED BY <2>2, <2>4, OneSize DEF HeapStep
<1>2. ASSUME NEW length \in JniLengths, NewByteArray(length) PROVE HeapStep
  <2>1. length \in Nat /\ Fits(length + 16)
    BY <1>0, SmallSizesFit
  <2>2. HeapEnd \in Nat /\ Modulus \in Nat /\ HeapEnd + (length + 16) + 15 < Modulus
    BY <2>1, SmallSizesFit DEF Fits
  <2>3. Add(length, 16) = length + 16
    <3>1. length + 16 < Modulus /\ 16 \in Nat
      BY <2>1, <2>2
    <3> QED BY <2>1, <3>1, AddSmall
  <2>4. Malloc(length + 16, length + 8)
    BY <1>2, <2>3 DEF NewByteArray, GiveBlock
  <2>5. /\ length + 16 \in Nat /\ length + 8 \in Nat
        /\ length + 8 <= length + 16
    BY <2>1
  <2> QED BY <2>2, <2>4, <2>5 DEF HeapStep, OneRequest
<1>3. ASSUME NEW kind, NEW key, GetRef(kind, key) PROVE HeapStep
  BY <1>3, QuietHooks DEF GetRef, HeapStep
<1>4. ASSUME NEW key, \/ FindClass(key) \/ GetMethodID(key)
                      \/ GetStaticMethodID(key) \/ GetFieldID(key)
                      \/ GetStaticFieldID(key)
      PROVE  HeapStep
  BY <1>3, <1>4 DEF FindClass, GetMethodID, GetStaticMethodID, GetFieldID,
                    GetStaticFieldID
<1>5. ASSUME NEW g, AnswerGiven(g) PROVE HeapStep
  BY <1>5, QuietHooks DEF AnswerGiven, HeapStep
<1>6. ASSUME GetObjectClass \/ CallMethod \/ CallStaticMethod \/ JNIGeneric
      PROVE  HeapStep
  BY <1>5, <1>6 DEF GetObjectClass, CallMethod, CallStaticMethod, JNIGeneric
<1>7. ASSUME \/ GetVersion \/ DeleteRef \/ CallVoidMethod \/ GetField \/ SetField
             \/ Exceptions \/ ExceptionClear \/ Frames \/ RegisterNatives
             \/ GetJavaVM \/ JavaVMStubs
       PROVE  HeapStep
  BY <1>7, QuietHooks
     DEF GetVersion, DeleteRef, CallVoidMethod, GetField, SetField, Exceptions,
         ExceptionClear, Frames, RegisterNatives, GetJavaVM, JavaVMStubs,
         HeapStep
<1>8. ASSUME NEW ref, NEW other,
             \/ NewStringUTF(ref) \/ GetStringUTFLength(ref) \/ NewRef(ref)
             \/ PopLocalFrame(ref) \/ IsSameObject(ref, other)
             \/ GetByteArrayElements(ref) \/ GetArrayLength(ref)
      PROVE  HeapStep
  BY <1>8, QuietHooks
     DEF NewStringUTF, GetStringUTFLength, NewRef, PopLocalFrame, IsSameObject,
         GetByteArrayElements, GetArrayLength, HeapStep
<1> QED BY <1>1, <1>2, <1>4, <1>6, <1>7, <1>8 DEF JniLookups, JniObjects

LEMMA OtherHeap ==
  ASSUME SmallGuests, ThreadNext \/ TlsNext \/ GuardNext \/ DlNext
  PROVE  HeapStep
<1>1. CASE ThreadNext
  <2>1. Return \/ \E v : Answer(v)
    BY <1>1 DEF ThreadNext, PthreadCreate, PthreadExit, PthreadEqual, PthreadSelf,
                PthreadJoin, ThreadCalls, MutexCalls, CondCalls, AttrCalls
  <2> QED BY <2>1, QuietHooks DEF HeapStep
<1>2. CASE TlsNext
  <2>1. \E v : Answer(v)
    BY <1>2 DEF TlsNext, KeyCreate, KeyDelete, Setspecific, Getspecific, Once
  <2> QED BY <2>1, QuietHooks DEF HeapStep
<1>3. CASE GuardNext
  <2>1. Return \/ Stop \/ \E v : Answer(v)
    BY <1>3 DEF GuardNext, GuardAcquire, GuardRelease, GuardAbort, CxaThrow,
                CxaBadCalls, CxaPureVirtual, UnwindResume, CxaCatch,
                CxaCurrentException, DynamicCast, Unwind, CxaAtexit
  <2> QED BY <2>1, QuietHooks DEF HeapStep
<1>4. CASE DlNext
  <2>1. Return \/ (\E v : Answer(v)) \/ Give(<<15>>, heapPtr)
    BY <1>4 DEF DlNext, Dlopen, Dlsym, Dlclose, Dlerror, Dladdr, AndroidLog
  <2>2. Fits(15)
    BY SmallSizesFit
  <2> QED BY <2>1, <2>2, OneSize, QuietHooks DEF HeapStep
<1> QED BY <1>1, <1>2, <1>3, <1>4

LEMMA ServicesHeapSteps ==
  ASSUME SmallGuests, ServicesTypeOK, [ServicesNext]_servicesVars
  PROVE  HeapStep
<1>1. CASE UseHeap
  <2>1. Request
    BY <1>1 DEF UseHeap, GiveBlock
  <2>2. OneRequest \/ UNCHANGED vars
    BY <2>1, RequestsAreMallocs DEF Next, OneRequest, SmallGuests
  <2> QED BY <2>2 DEF HeapStep
<1>2. CASE UseJni
  BY <1>2, JniHeap DEF UseJni, ServicesTypeOK
<1>3. CASE UseDescriptors
  BY <1>3, DescriptorsHeap DEF UseDescriptors
<1>4. CASE UsePthread \/ UseGuards \/ UseDl
  BY <1>4, OtherHeap DEF UsePthread, UseGuards, UseDl
<1>5. CASE UseNetwork
  BY <1>5, NetworkHeap DEF UseNetwork
<1>6. CASE UseLibc
  BY <1>6, LibcHeap DEF UseLibc, ServicesTypeOK
<1>7. CASE NextGuest
  BY <1>7 DEF NextGuest, HeapStep
<1>8. CASE UNCHANGED servicesVars
  BY <1>8 DEF servicesVars, callVars, vars, HeapStep
<1> QED BY <1>1, <1>2, <1>3, <1>4, <1>5, <1>6, <1>7, <1>8 DEF ServicesNext

\* A hook that asks for several blocks keeps the order of the heap, whether
\* it gets them all or panics on the way.
LEMMA RowKeepsInv ==
  ASSUME Inv, NEW sizes, AllFit(sizes), NEW v, Give(sizes, v)
  PROVE  Inv'
<1> DEFINE p == Bumps(sizes)
           fails == {i \in 2..(Len(sizes) + 1) : p[i] >= HeapEnd}
<1>1. ~panicked
  BY DEF Give, Running
<1>2. Len(sizes) \in Nat
  BY DEF AllFit
<1>3. IsBumps(p, sizes, Len(sizes))
  BY <1>2, BumpsAre
<1>4. CASE fails = {}
  <2>1. /\ heapPtr' = p[Len(sizes) + 1]
        /\ blocks' = blocks \o NewBlocks(p, sizes) /\ UNCHANGED panicked
    BY <1>4 DEF Give, NewBlocks
  <2> HIDE DEF p
  <2>2. NoneFails(p, Len(sizes) + 2)
    <3>1. Len(sizes) + 2 - 1 = Len(sizes) + 1
      BY <1>2
    <3> QED BY <1>4, <3>1 DEF NoneFails
  <2> QED BY <1>1, <1>3, <2>1, <2>2, GiveSucceeds
<1>5. CASE fails # {}
  <2> DEFINE first == CHOOSE i \in fails : \A j \in fails : i <= j
  <2>1. /\ heapPtr' = p[first] /\ panicked' = TRUE /\ UNCHANGED blocks
    BY <1>5 DEF Give
  <2>2. first \in fails /\ \A j \in fails : first <= j
    <3>1. fails \in SUBSET Nat
      BY <1>2
    <3>2. \E i \in fails : \A j \in fails : i <= j
      <4> HIDE DEF fails
      <4> QED BY <1>5, <3>1, LeastNumber
    <3> HIDE DEF fails
    <3> QED BY <3>2
  <2> HIDE DEF first, p
  <2>3. first \in 2..(Len(sizes) + 1)
    BY <2>2
  <2>4. NoneFails(p, first)
    <3> SUFFICES ASSUME NEW i \in 2..(first - 1) PROVE ~(p[i] >= HeapEnd)
      BY DEF NoneFails
    <3>1. i \in 2..(Len(sizes) + 1) /\ ~(first <= i)
      BY <1>2, <2>3
    <3> QED BY <2>2, <3>1
  <2> QED BY <1>1, <1>3, <2>1, <2>3, <2>4, GiveFails
<1> QED BY <1>4, <1>5

LEMMA NewEmulatorKeepsInv ==
  ASSUME Inv, NewEmulator
  PROVE  Inv'
<1>1. /\ heapPtr' = HeapBase /\ blocks' = <<>> /\ panicked' = panicked
  BY DEF NewEmulator
<1>2. HeapBase \in Nat /\ HeapBase % 16 = 0 /\ HeapBase <= HeapEnd
  BY HeapAssumption DEF HeapEnd
<1>3. blocks' \in Seq(Block) /\ Len(blocks') = 0
  BY <1>1
<1>4. TypeOK'
  BY <1>1, <1>3, NewHeapPointer DEF Inv, TypeOK
<1>5. HeapInv'
  BY <1>1, <1>2, <1>3 DEF HeapInv
<1> QED BY <1>4, <1>5 DEF Inv

LEMMA HeapStepKeepsInv ==
  ASSUME Inv, HeapStep
  PROVE  Inv'
<1>1. CASE UNCHANGED vars
  BY <1>1 DEF vars, Inv, TypeOK, HeapInv
<1>2. CASE OneRequest
  BY <1>2, MallocKeepsInv DEF OneRequest
<1>3. CASE RowOfRequests
  BY <1>3, RowKeepsInv DEF RowOfRequests
<1>4. CASE NewEmulator
  BY <1>4, NewEmulatorKeepsInv
<1> QED BY <1>1, <1>2, <1>3, <1>4 DEF HeapStep

\* More blocks, after those there were, are a Grant: they are fresh because
\* the heap is in order after the step.
LEMMA MoreBlocksAreGranted ==
  ASSUME Inv, Inv', ~panicked, UNCHANGED panicked,
         Len(blocks') > Len(blocks),
         \A i \in 1..Len(blocks) : blocks'[i] = blocks[i]
  PROVE  Promise!Grant
<1>1. Len(blocks) \in Nat /\ Len(blocks') \in Nat
  BY DEF Inv, TypeOK
<1>2. BlocksInHeap' /\ BlocksDisjoint'
  <2>1. (Inv => BlocksInHeap /\ BlocksDisjoint)'
    BY InvInHeap, InvDisjoint, PTL
  <2> QED BY <2>1
<1>3. ASSUME NEW j \in (Len(blocks) + 1)..Len(blocks')
      PROVE  /\ Promise!Region(blocks'[j]) \subseteq HeapBase..(HeapEnd - 1)
             /\ \A i \in 1..(j - 1) :
                  Promise!Region(blocks'[i]) \cap Promise!Region(blocks'[j]) = {}
  <2>1. j \in 1..Len(blocks')
    BY <1>1
  <2>2. \A b : Promise!Region(b) = Region(b)
    BY DEF Promise!Region, Region
  <2>3. Region(blocks'[j]) \subseteq HeapBase..(HeapEnd - 1)
    BY <1>2, <2>1 DEF BlocksInHeap, Region
  <2>4. ASSUME NEW i \in 1..(j - 1)
        PROVE  Region(blocks'[i]) \cap Region(blocks'[j]) = {}
    <3>1. i \in 1..Len(blocks') /\ i # j
      BY <1>1
    <3> QED BY <1>2, <2>1, <3>1 DEF BlocksDisjoint, Region
  <2> QED BY <2>2, <2>3, <2>4
<1> QED BY <1>3 DEF Promise!Grant

LEMMA HeapStepRefines ==
  ASSUME Inv, Inv', HeapStep
  PROVE  [Promise!Next]_<<blocks, panicked>>
<1>0. blocks \in Seq(Block) /\ Len(blocks) \in Nat /\ heapPtr \in Word
  BY DEF Inv, TypeOK
<1>1. CASE UNCHANGED vars
  BY <1>1 DEF vars
<1>2. CASE OneRequest
  <2>1. PICK n \in Nat, size \in Nat : Malloc(n, size)
    BY <1>2 DEF OneRequest
  <2>2. CASE panicked' = TRUE /\ UNCHANGED blocks
    BY <2>1, <2>2 DEF Malloc, Promise!Next, Promise!Refuse
  <2>3. CASE /\ blocks' = Append(blocks, [addr |-> heapPtr, size |-> size])
             /\ UNCHANGED panicked
    <3>1. [addr |-> heapPtr, size |-> size] \in Block
      BY <1>0 DEF Block
    <3>2. /\ Len(blocks') > Len(blocks)
          /\ \A i \in 1..Len(blocks) : blocks'[i] = blocks[i]
      BY <1>0, <2>3, <3>1, AppendProperties
    <3>3. ~panicked
      BY <2>1 DEF Malloc
    <3> QED BY <2>3, <3>2, <3>3, MoreBlocksAreGranted DEF Promise!Next
  <2> QED BY <2>1, <2>2, <2>3 DEF Malloc
<1>3. CASE RowOfRequests
  <2>1. PICK sizes, v : AllFit(sizes) /\ Len(sizes) # 0 /\ Give(sizes, v)
    BY <1>3 DEF RowOfRequests
  <2>2. ~panicked
    BY <2>1 DEF Give, Running
  <2>3. CASE panicked' = TRUE /\ UNCHANGED blocks
    BY <2>2, <2>3 DEF Promise!Next, Promise!Refuse
  <2>4. CASE /\ blocks' = blocks \o NewBlocks(Bumps(sizes), sizes)
             /\ UNCHANGED panicked
    <3> DEFINE given == NewBlocks(Bumps(sizes), sizes)
    <3>1. PICK m \in Nat : m = Len(sizes) /\ m # 0
      BY <2>1 DEF AllFit
    <3>2. given \in [1..m -> [addr : {Bumps(sizes)[i] : i \in 1..m}, size : Nat]]
      BY <2>1, <3>1 DEF NewBlocks, AllFit
    <3> HIDE DEF given
    <3>3. Len(blocks') = Len(blocks) + m
          /\ \A i \in 1..Len(blocks) : blocks'[i] = blocks[i]
      <4>1. \A S : \A f \in [1..m -> S] : f \in Seq(S) /\ Len(f) = m
        OBVIOUS
      <4>2. PICK S : blocks \in Seq(S) /\ given \in Seq(S) /\ Len(given) = m
        <5>1. PICK T : given \in [1..m -> T]
          BY <3>2
        <5>2. \A A, B : \A s \in Seq(A) : s \in Seq(A \cup B)
          OBVIOUS
        <5>3. \A A, B : \A s \in Seq(B) : s \in Seq(A \cup B)
          OBVIOUS
        <5>4. given \in Seq(T) /\ Len(given) = m
          BY <4>1, <5>1
        <5> QED BY <1>0, <5>2, <5>3, <5>4
      <4>3. blocks' = blocks \o given
        BY <2>4 DEF given
      <4>4. /\ Len(blocks \o given) = Len(blocks) + Len(given)
            /\ \A i \in 1..(Len(blocks) + Len(given)) :
                 (blocks \o given)[i] = IF i <= Len(blocks) THEN blocks[i]
                                        ELSE given[i - Len(blocks)]
        BY <4>2, ConcatProperties
      <4>5. \A i \in 1..Len(blocks) : i <= Len(blocks) /\ i \in 1..(Len(blocks) + m)
        BY <1>0
      <4> QED BY <4>2, <4>3, <4>4, <4>5
    <3>4. Len(blocks') > Len(blocks)
      BY <1>0, <3>1, <3>3
    <3> QED BY <2>2, <2>4, <3>3, <3>4, MoreBlocksAreGranted DEF Promise!Next
  <2>5. \/ panicked' = TRUE /\ UNCHANGED blocks
        \/ /\ blocks' = blocks \o NewBlocks(Bumps(sizes), sizes)
           /\ UNCHANGED panicked
    BY <2>1 DEF Give, NewBlocks
  <2> QED BY <2>3, <2>4, <2>5
<1>4. CASE NewEmulator
  BY <1>4 DEF NewEmulator, Promise!Next, Promise!Renew
<1> QED BY <1>1, <1>2, <1>3, <1>4 DEF HeapStep

LEMMA ServicesInitInv == ServicesInit => Inv
BY InitInv DEF ServicesInit, CallInit

\* Whatever services a guest uses, and whichever guest of the process it is,
\* no two blocks the stubs have given it share a byte (emulator.go:733-745 and
\* all its callers).
THEOREM ServicesBlocksApart == SmallGuests => (ServicesSpec => []BlocksDisjoint)
<1> SUFFICES ASSUME SmallGuests PROVE ServicesSpec => []BlocksDisjoint
  OBVIOUS
<1>1. ServicesTypeOK /\ Inv /\ [ServicesNext]_servicesVars => Inv'
  BY ServicesHeapSteps, HeapStepKeepsInv
<1>2. ServicesTypeOK /\ [ServicesNext]_servicesVars => ServicesTypeOK'
  BY ServicesStepTypes
<1> QED BY <1>1, <1>2, ServicesInitTypes, ServicesInitInv, InvDisjoint, PTL
        DEF ServicesSpec

\* What the stubs hand out is fresh memory inside the heap, one block or
\* several at a time; a panic ends the emulation and a new emulator starts
\* with nothing handed out (emulator.go:57-120, 733-745 and all its callers).
THEOREM ServicesFreshBlocks == SmallGuests => (ServicesSpec => FreshBlocksSpec)
<1> SUFFICES ASSUME SmallGuests PROVE ServicesSpec => FreshBlocksSpec
  OBVIOUS
<1>1. ServicesTypeOK /\ Inv /\ [ServicesNext]_servicesVars => Inv'
  BY ServicesHeapSteps, HeapStepKeepsInv
<1>2. ServicesTypeOK /\ [ServicesNext]_servicesVars => ServicesTypeOK'
  BY ServicesStepTypes
<1>3. ServicesTypeOK /\ Inv /\ Inv' /\ [ServicesNext]_servicesVars
        => [Promise!Next]_<<blocks, panicked>>
  BY ServicesHeapSteps, HeapStepRefines
<1>4. ServicesInit => Promise!Init
  BY DEF ServicesInit, CallInit, Init, Promise!Init
<1> QED BY <1>1, <1>2, <1>3, <1>4, ServicesInitTypes, ServicesInitInv, PTL
        DEF ServicesSpec, FreshBlocksSpec, Promise!Spec

-----------------------------------------------------------------------------
(***************************************************************************)
(* GuestServices implements HandleTable four times: for the threads, the   *)
(* libraries, the descriptors and the JNI references of a guest, for all   *)
(* values of the constants and any sequence of guests.                     *)
(***************************************************************************)
\* What the services do, from the point of view of each package.
LEMMA StepsOfServices ==
  ASSUME ServicesNext
  PROVE  /\ TlsNext \/ ThreadNext \/ NextGuest \/ UNCHANGED pthreadVars
         /\ DlNext \/ NextGuest \/ UNCHANGED dlVars
         /\ FdNext \/ FileCalls \/ NextGuest \/ UNCHANGED fdVars
         /\ JniLookups \/ JniObjects \/ NextGuest \/ UNCHANGED jniVars
BY DEF ServicesNext, UseHeap, UseJni, UseDescriptors, UsePthread, UseGuards,
       UseDl, UseNetwork, UseLibc

-----------------------------------------------------------------------------
(***************************************************************************)
(* Threads: the counter is above every id that was given.                  *)
(***************************************************************************)
ThreadInv == /\ nextThreadID \in Nat
             /\ threads \in Seq(Nat)
             /\ \A i \in 1..Len(threads) : threads[i] < nextThreadID

LEMMA ThreadInit == ServicesInit => ThreadInv /\ ThreadTable!Init
<1> SUFFICES ASSUME ServicesInit PROVE ThreadInv /\ ThreadTable!Init
  OBVIOUS
<1>1. nextThreadID = 1 /\ threads = <<>>
  BY DEF ServicesInit, PthreadInit
<1>2. threads \in Seq(Nat) /\ \A i \in 1..Len(threads) : FALSE
  BY <1>1
<1> QED BY <1>1, <1>2 DEF ThreadInv, ThreadTable!Init

LEMMA ThreadCreated ==
  ASSUME ThreadInv, PthreadCreate
  PROVE  ThreadInv' /\ ThreadTable!Next
<1>1. /\ nextThreadID \in Nat /\ Len(threads) \in Nat
      /\ threads \in Seq(Nat) /\ DOMAIN threads = 1..Len(threads)
      /\ \A i \in 1..Len(threads) : threads[i] \in Nat /\ threads[i] < nextThreadID
  BY DEF ThreadInv
<1>2. /\ nextThreadID' = nextThreadID + 1
      /\ threads' = [n \in 1..(Len(threads) + 1) |->
                       IF n <= Len(threads) THEN threads[n] ELSE nextThreadID]
  BY DEF PthreadCreate
<1>3. /\ DOMAIN threads' = 1..(Len(threads) + 1)
      /\ \A i \in 1..Len(threads) : threads'[i] = threads[i]
      /\ threads'[Len(threads) + 1] = nextThreadID
  BY <1>1, <1>2
<1>4. threads' \in Seq(Nat) /\ Len(threads') = Len(threads) + 1
  <2>1. \A n \in 1..(Len(threads) + 1) : threads'[n] \in Nat
    BY <1>1, <1>2
  <2>2. threads' \in [1..(Len(threads) + 1) -> Nat]
    BY <1>2, <2>1
  <2>3. \A n \in Nat : \A f : f \in [1..n -> Nat] => f \in Seq(Nat) /\ Len(f) = n
    OBVIOUS
  <2> QED BY <1>1, <2>2, <2>3
<1>5. \A i \in 1..Len(threads') : i \in 1..Len(threads) \/ i = Len(threads) + 1
  BY <1>1, <1>4
<1>6. ThreadInv'
  BY <1>1, <1>2, <1>3, <1>4, <1>5 DEF ThreadInv
<1>7. ThreadTable!Change
  <2>1. DOMAIN threads \cap DOMAIN threads' = 1..Len(threads)
    BY <1>1, <1>3
  <2>2. DOMAIN threads' \ DOMAIN threads = {Len(threads) + 1}
    BY <1>1, <1>3
  <2>3. \A u \in DOMAIN threads' \ {Len(threads) + 1} :
          u \in 1..Len(threads) /\ threads'[u] # nextThreadID
    BY <1>1, <1>3
  <2> QED BY <1>3, <2>1, <2>2, <2>3 DEF ThreadTable!Change, ThreadTable!New
<1> QED BY <1>6, <1>7 DEF ThreadTable!Next

LEMMA ThreadStep ==
  ASSUME ThreadInv, [ServicesNext]_servicesVars
  PROVE  ThreadInv' /\ [ThreadTable!Next]_<<threads, FALSE>>
<1>1. CASE UNCHANGED threadVars
  BY <1>1 DEF threadVars, ThreadInv
<1>2. CASE PthreadCreate
  BY <1>2, ThreadCreated
<1>3. CASE NextGuest
  <2>1. threads' = <<>> /\ nextThreadID' = nextThreadID
    BY <1>3 DEF NextGuest
  <2>2. threads' \in Seq(Nat) /\ \A i \in 1..Len(threads') : FALSE
    BY <2>1
  <2> QED BY <2>1, <2>2 DEF ThreadInv, ThreadTable!Next, ThreadTable!Reset
<1>4. CASE ThreadNext
  BY <1>1, <1>2, <1>4
     DEF ThreadNext, PthreadSelf, PthreadEqual, PthreadJoin, ThreadCalls,
         PthreadExit, MutexCalls, CondCalls, AttrCalls, pthreadVars
<1>5. CASE TlsNext
  BY <1>1, <1>5 DEF TlsNext, KeyCreate, KeyDelete, Getspecific, Setspecific,
                    Once, pthreadVars
<1>6. CASE UNCHANGED pthreadVars \/ UNCHANGED servicesVars
  BY <1>1, <1>6 DEF pthreadVars, servicesVars
<1> QED BY <1>3, <1>4, <1>5, <1>6, StepsOfServices

\* No two threads of a guest have one id, however many there are and
\* whatever ran before it in the process (pthread/thread.go:29-50).
THEOREM ThreadsKeepIds == ServicesSpec => ThreadTable!Spec
<1>1. ThreadInv /\ [ServicesNext]_servicesVars
        => ThreadInv' /\ [ThreadTable!Next]_<<threads, FALSE>>
  BY ThreadStep
<1> QED BY <1>1, ThreadInit, PTL DEF ServicesSpec, ThreadTable!Spec

-----------------------------------------------------------------------------
(***************************************************************************)
(* Libraries: a handle stands for itself, and the next one is above all.   *)
(***************************************************************************)
DlInv == /\ nextHandle \in Nat
         /\ \A n \in DOMAIN dlHeld : n \in Nat /\ n < nextHandle /\ dlHeld[n] = n

LEMMA DlInitial == ServicesInit => DlInv /\ DlTable!Init
<1> SUFFICES ASSUME ServicesInit PROVE DlInv /\ DlTable!Init
  OBVIOUS
<1>1. nextHandle = DlFirst /\ dlHeld = <<>>
  BY DEF ServicesInit, DlInit
<1>2. DOMAIN dlHeld = {}
  BY <1>1
<1> QED BY <1>1, <1>2, DlAssumption DEF DlInv, DlTable!Init

LEMMA DlStepOf ==
  ASSUME DlInv, [ServicesNext]_servicesVars
  PROVE  DlInv' /\ [DlTable!Next]_<<dlHeld, FALSE>>
<1>1. CASE UNCHANGED <<nextHandle, dlHeld>>
  BY <1>1 DEF DlInv
<1>2. CASE Dlopen
  <2>1. /\ nextHandle' = nextHandle + DlStep
        /\ dlHeld' = [n \in DOMAIN dlHeld \cup {nextHandle} |->
                        IF n = nextHandle THEN nextHandle ELSE dlHeld[n]]
    BY <1>2 DEF Dlopen
  <2>2. nextHandle \in Nat /\ nextHandle' \in Nat /\ nextHandle < nextHandle'
    BY <2>1, DlAssumption DEF DlInv
  <2>3. \A n \in DOMAIN dlHeld : n \in Nat /\ n < nextHandle' /\ n # nextHandle
    BY <2>2 DEF DlInv
  <2>4. DlInv'
    BY <2>1, <2>2, <2>3 DEF DlInv
  <2>5. DlTable!Change
    BY <2>1, <2>3 DEF DlInv, DlTable!Change, DlTable!New
  <2> QED BY <2>4, <2>5 DEF DlTable!Next
<1>3. ASSUME NEW handle, Dlclose(handle)
      PROVE  DlInv' /\ DlTable!Next
  <2>1. /\ nextHandle' = nextHandle
        /\ dlHeld' = [n \in {m \in DOMAIN dlHeld : dlHeld[m] # handle} |->
                        dlHeld[n]]
    BY <1>3 DEF Dlclose
  <2>2. DlInv'
    BY <2>1 DEF DlInv
  <2>3. DlTable!Change
    BY <2>1 DEF DlTable!Change, DlTable!New
  <2> QED BY <2>2, <2>3 DEF DlTable!Next
<1>4. CASE NextGuest
  <2>1. dlHeld' = <<>> /\ nextHandle' = nextHandle
    BY <1>4 DEF NextGuest
  <2>2. DOMAIN dlHeld' = {}
    BY <2>1
  <2> QED BY <2>1, <2>2 DEF DlInv, DlTable!Next, DlTable!Reset
<1>5. CASE DlNext
  BY <1>1, <1>2, <1>3, <1>5 DEF DlNext, Dlsym, Dlerror, Dladdr, AndroidLog, dlVars
<1>6. CASE UNCHANGED dlVars \/ UNCHANGED servicesVars
  BY <1>1, <1>6 DEF dlVars, servicesVars
<1> QED BY <1>4, <1>5, <1>6, StepsOfServices

\* No two libraries a guest has open have one handle (android/dl.go:29-97).
THEOREM LibrariesKeepHandles == ServicesSpec => DlTable!Spec
<1>1. DlInv /\ [ServicesNext]_servicesVars
        => DlInv' /\ [DlTable!Next]_<<dlHeld, FALSE>>
  BY DlStepOf
<1> QED BY <1>1, DlInitial, PTL DEF ServicesSpec, DlTable!Spec

-----------------------------------------------------------------------------
(***************************************************************************)
(* Descriptors: each is known by how it was come by and by its number; and *)
(* as long as no number ran out, a number the guest holds is below the     *)
(* files' counter or among the sockets'.                                   *)
(***************************************************************************)
FdExhausted == ahead \/ nextFileFD > SocketBase

FdCounters == /\ nextFileFD \in Nat
              /\ nextFD \in Nat
              /\ SocketBase \in Nat
              /\ SocketBase <= nextFD

HeldByNumber == \A t \in DOMAIN held : held[t] = t[2] /\ held[t] \in Nat

HandedOutBefore ==
  ~FdExhausted => \A t \in DOMAIN held :
                    held[t] < nextFileFD \/ held[t] \in SocketBase..(nextFD - 1)

FdInv == FdCounters /\ HeldByNumber /\ HandedOutBefore

FdGoal == FdInv' /\ [FdTable!Next]_<<held, FdExhausted>>

LEMMA FdInitial == ServicesInit => FdInv /\ FdTable!Init
<1> SUFFICES ASSUME ServicesInit PROVE FdInv /\ FdTable!Init
  OBVIOUS
<1>1. /\ nextFileFD = FileBase /\ nextFD = SocketBase
      /\ held = <<>> /\ ahead = FALSE
  BY DEF ServicesInit, FdInit
<1>2. DOMAIN held = {}
  BY <1>1
<1>3. ~(nextFileFD > SocketBase)
  BY <1>1, DescriptorsAssumption
<1>4. (ahead \/ nextFileFD > SocketBase) = FALSE
  BY <1>1, <1>3
<1>5. FdCounters
  BY <1>1, DescriptorsAssumption DEF FdCounters
<1> QED BY <1>1, <1>2, <1>4, <1>5
           DEF FdInv, HeldByNumber, HandedOutBefore, FdTable!Init

\* One more descriptor, that is number n.
LEMMA OneMore ==
  ASSUME FdInv, NEW how, NEW n \in Nat, held' = With(held, <<how, n>>, n)
  PROVE  /\ HeldByNumber'
         /\ \A t \in DOMAIN held' : t \in DOMAIN held \/ t = <<how, n>>
         /\ \A t \in DOMAIN held : t \in DOMAIN held' /\ held'[t] = held[t]
         /\ held'[<<how, n>>] = n
BY DEF FdInv, HeldByNumber, With

LEMMA FileOpened ==
  ASSUME FdInv, NEW path, AllocFileFD(path)
  PROVE  FdGoal
<1>1. /\ nextFileFD' = nextFileFD + 1 /\ nextFD' = nextFD /\ ahead' = ahead
      /\ held' = With(held, <<"file", nextFileFD>>, nextFileFD)
  BY DEF AllocFileFD
<1>2. nextFileFD \in Nat /\ nextFD \in Nat /\ SocketBase \in Nat
  BY DEF FdInv, FdCounters
<1>3. FdCounters'
  BY <1>1, <1>2 DEF FdInv, FdCounters
<1>4. /\ HeldByNumber'
      /\ \A t \in DOMAIN held' : t \in DOMAIN held \/ t = <<"file", nextFileFD>>
      /\ \A t \in DOMAIN held : t \in DOMAIN held' /\ held'[t] = held[t]
      /\ held'[<<"file", nextFileFD>>] = nextFileFD
  BY <1>1, <1>2, OneMore
<1>5. nextFileFD > SocketBase => nextFileFD' > SocketBase
  BY <1>1, <1>2
<1>6. FdExhausted => FdExhausted'
  BY <1>1, <1>5 DEF FdExhausted
<1>7. ASSUME ~FdExhausted'
      PROVE  \A t \in DOMAIN held : /\ held[t] # nextFileFD
                                    /\ \/ held'[t] < nextFileFD'
                                       \/ held'[t] \in SocketBase..(nextFD' - 1)
  <2> SUFFICES ASSUME NEW t \in DOMAIN held
               PROVE  /\ held[t] # nextFileFD
                      /\ \/ held'[t] < nextFileFD'
                         \/ held'[t] \in SocketBase..(nextFD' - 1)
    OBVIOUS
  <2>1. ~(nextFileFD' > SocketBase)
    BY <1>7 DEF FdExhausted
  <2>2. held[t] < nextFileFD \/ held[t] \in SocketBase..(nextFD - 1)
    BY <1>6, <1>7 DEF FdInv, HandedOutBefore
  <2>3. held[t] \in Nat /\ held'[t] = held[t]
    BY <1>4 DEF FdInv, HeldByNumber
  <2> QED BY <1>1, <1>2, <2>1, <2>2, <2>3
<1>8. HandedOutBefore'
  BY <1>1, <1>2, <1>4, <1>7 DEF HandedOutBefore
<1>9. FdTable!Change
  BY <1>4, <1>6, <1>7 DEF FdTable!Change, FdTable!New, FdExhausted
<1> QED BY <1>3, <1>4, <1>8, <1>9 DEF FdGoal, FdInv, FdTable!Next

LEMMA SocketOpened ==
  ASSUME FdInv, AllocFD
  PROVE  FdGoal
<1>1. /\ nextFD' = nextFD + 1 /\ nextFileFD' = nextFileFD /\ ahead' = ahead
      /\ held' = With(held, <<"socket", nextFD>>, nextFD)
  BY DEF AllocFD
<1>2. /\ nextFileFD \in Nat /\ nextFD \in Nat /\ SocketBase \in Nat
      /\ SocketBase <= nextFD
  BY DEF FdInv, FdCounters
<1>3. FdCounters'
  BY <1>1, <1>2 DEF FdCounters
<1>4. /\ HeldByNumber'
      /\ \A t \in DOMAIN held' : t \in DOMAIN held \/ t = <<"socket", nextFD>>
      /\ \A t \in DOMAIN held : t \in DOMAIN held' /\ held'[t] = held[t]
      /\ held'[<<"socket", nextFD>>] = nextFD
  BY <1>1, <1>2, OneMore
<1>5. FdExhausted' = FdExhausted
  BY <1>1 DEF FdExhausted
<1>6. ASSUME ~FdExhausted
      PROVE  \A t \in DOMAIN held : /\ held[t] # nextFD
                                    /\ \/ held'[t] < nextFileFD'
                                       \/ held'[t] \in SocketBase..(nextFD' - 1)
  <2> SUFFICES ASSUME NEW t \in DOMAIN held
               PROVE  /\ held[t] # nextFD
                      /\ \/ held'[t] < nextFileFD'
                         \/ held'[t] \in SocketBase..(nextFD' - 1)
    OBVIOUS
  <2>1. ~(nextFileFD > SocketBase)
    BY <1>6 DEF FdExhausted
  <2>2. held[t] < nextFileFD \/ held[t] \in SocketBase..(nextFD - 1)
    BY <1>6 DEF FdInv, HandedOutBefore
  <2>3. held[t] \in Nat /\ held'[t] = held[t]
    BY <1>4 DEF FdInv, HeldByNumber
  <2> QED BY <1>1, <1>2, <2>1, <2>2, <2>3
<1>7. HandedOutBefore'
  BY <1>1, <1>2, <1>4, <1>5, <1>6 DEF HandedOutBefore
<1>8. FdTable!Change
  BY <1>4, <1>5, <1>6 DEF FdTable!Change, FdTable!New, FdExhausted
<1> QED BY <1>3, <1>4, <1>7, <1>8 DEF FdGoal, FdInv, FdTable!Next

\* pipe hands out two numbers in one step.
LEMMA PipeOpened ==
  ASSUME FdInv, Pipe
  PROVE  FdGoal
<1> DEFINE r == <<"file", nextFileFD>>
           w == <<"file", nextFileFD + 1>>
<1>1. /\ nextFileFD' = nextFileFD + 2 /\ nextFD' = nextFD /\ ahead' = ahead
      /\ held' = With(With(held, r, nextFileFD), w, nextFileFD + 1)
  BY DEF Pipe
<1>2. nextFileFD \in Nat /\ nextFD \in Nat /\ SocketBase \in Nat
  BY DEF FdInv, FdCounters
<1>3. FdCounters'
  BY <1>1, <1>2 DEF FdInv, FdCounters
<1>4. r # w /\ r[2] = nextFileFD /\ w[2] = nextFileFD + 1
  BY <1>2
<1> HIDE DEF r, w
<1>5. /\ DOMAIN held' = DOMAIN held \cup {r, w}
      /\ held'[r] = nextFileFD /\ held'[w] = nextFileFD + 1
      /\ \A t \in DOMAIN held \ {r, w} : held'[t] = held[t]
  BY <1>1, <1>4 DEF With
<1>6. HeldByNumber'
  BY <1>2, <1>4, <1>5 DEF FdInv, HeldByNumber
<1>7. \A t \in DOMAIN held : held'[t] = held[t]
  BY <1>5, <1>6 DEF FdInv, HeldByNumber
<1>8. nextFileFD > SocketBase => nextFileFD' > SocketBase
  BY <1>1, <1>2
<1>9. FdExhausted => FdExhausted'
  BY <1>1, <1>8 DEF FdExhausted
<1>10. ASSUME ~FdExhausted'
       PROVE  \A t \in DOMAIN held : /\ held[t] # nextFileFD
                                     /\ held[t] # nextFileFD + 1
                                     /\ \/ held'[t] < nextFileFD'
                                        \/ held'[t] \in SocketBase..(nextFD' - 1)
  <2> SUFFICES ASSUME NEW t \in DOMAIN held
               PROVE  /\ held[t] # nextFileFD
                      /\ held[t] # nextFileFD + 1
                      /\ \/ held'[t] < nextFileFD'
                         \/ held'[t] \in SocketBase..(nextFD' - 1)
    OBVIOUS
  <2>1. ~(nextFileFD' > SocketBase)
    BY <1>10 DEF FdExhausted
  <2>2. held[t] < nextFileFD \/ held[t] \in SocketBase..(nextFD - 1)
    BY <1>9, <1>10 DEF FdInv, HandedOutBefore
  <2>3. held[t] \in Nat /\ held'[t] = held[t]
    BY <1>7 DEF FdInv, HeldByNumber
  <2> QED BY <1>1, <1>2, <2>1, <2>2, <2>3
<1>11. HandedOutBefore'
  BY <1>1, <1>2, <1>5, <1>10 DEF HandedOutBefore
<1>12. ~FdExhausted' => \A t \in FdTable!New : \A u \in DOMAIN held' \ {t} :
                          held'[t] # held'[u]
  BY <1>2, <1>5, <1>7, <1>10 DEF FdTable!New
<1>13. FdTable!Change
  BY <1>7, <1>9, <1>12 DEF FdTable!Change, FdExhausted
<1> QED BY <1>3, <1>6, <1>11, <1>13 DEF FdGoal, FdInv, FdTable!Next

LEMMA FdClosed ==
  ASSUME FdInv, NEW fd, Close(fd)
  PROVE  FdGoal
<1>1. /\ held' = Without(held, fd)
      /\ nextFileFD' = nextFileFD /\ nextFD' = nextFD /\ ahead' = ahead
  BY DEF Close
<1>2. \A t \in DOMAIN held' : t \in DOMAIN held /\ held'[t] = held[t]
  BY <1>1 DEF Without
<1>3. FdExhausted' = FdExhausted
  BY <1>1 DEF FdExhausted
<1>4. FdInv'
  BY <1>1, <1>2, <1>3 DEF FdInv, FdCounters, HeldByNumber, HandedOutBefore
<1>5. FdTable!Change
  BY <1>2, <1>3 DEF FdTable!Change, FdTable!New, FdExhausted
<1> QED BY <1>4, <1>5 DEF FdGoal, FdTable!Next

\* A number the guest chose is no longer what it was before.
LEMMA FdChosen ==
  ASSUME FdInv, NEW newfd \in ChosenFDs, Dup2(newfd)
  PROVE  FdGoal
<1>1. /\ held' = With(Without(held, newfd), <<"dup2", newfd>>, newfd)
      /\ ahead' = (ahead \/ newfd \in nextFileFD..(SocketBase - 1)
                         \/ newfd >= nextFD)
      /\ nextFileFD' = nextFileFD /\ nextFD' = nextFD
  BY DEF Dup2
<1>2. newfd \in Nat
  BY DescriptorsAssumption
<1>3. /\ \A t \in DOMAIN held' : \/ t = <<"dup2", newfd>>
                                 \/ /\ t \in DOMAIN held /\ held[t] # newfd
                                    /\ held'[t] = held[t]
      /\ held'[<<"dup2", newfd>>] = newfd
  BY <1>1 DEF With, Without
<1>4. HeldByNumber'
  BY <1>2, <1>3 DEF FdInv, HeldByNumber
<1>5. ahead => ahead'
  BY <1>1
<1>6. FdExhausted => FdExhausted'
  BY <1>1, <1>5 DEF FdExhausted
<1>7. FdCounters /\ FdCounters'
  BY <1>1 DEF FdInv, FdCounters
<1>8. ASSUME ~FdExhausted'
      PROVE  newfd < nextFileFD \/ newfd \in SocketBase..(nextFD - 1)
  <2>1. ~(newfd \in nextFileFD..(SocketBase - 1)) /\ ~(newfd >= nextFD)
    BY <1>1, <1>8 DEF FdExhausted
  <2> QED BY <1>2, <1>7, <2>1 DEF FdCounters
<1>9. HandedOutBefore'
  BY <1>1, <1>3, <1>6, <1>8 DEF FdInv, HandedOutBefore
<1>10. FdTable!Change
  <2>1. \A t \in DOMAIN held \cap DOMAIN held' : held'[t] = held[t]
    BY <1>3, <1>4 DEF FdInv, HeldByNumber
  <2>2. \A t \in FdTable!New : \A u \in DOMAIN held' \ {t} : held'[t] # held'[u]
    BY <1>3 DEF FdTable!New
  <2> QED BY <1>6, <2>1, <2>2 DEF FdTable!Change, FdExhausted
<1> QED BY <1>4, <1>7, <1>9, <1>10 DEF FdGoal, FdInv, FdTable!Next

LEMMA FdUnchanged ==
  ASSUME FdInv, UNCHANGED fdVars
  PROVE  FdGoal
BY DEF FdInv, FdCounters, HeldByNumber, HandedOutBefore, FdExhausted, FdGoal,
       fdVars

LEMMA FdStepOf ==
  ASSUME FdInv, [ServicesNext]_servicesVars
  PROVE  FdGoal
<1>1. CASE FdNext
  <2>1. ASSUME NEW path, AllocFileFD(path) PROVE FdGoal
    BY <2>1, FileOpened
  <2>2. CASE \E path \in Paths : Open(path)
    BY <2>1, <2>2 DEF Open
  <2>3. CASE Mkstemp
    BY <2>1, <2>3 DEF Mkstemp
  <2>4. ASSUME NEW fd \in HeldFDs, Dup(fd) \/ Close(fd) PROVE FdGoal
    BY <2>1, <2>4, FdClosed DEF Dup
  <2>5. ASSUME NEW newfd \in ChosenFDs, Dup2(newfd) PROVE FdGoal
    BY <2>5, FdChosen
  <2>6. CASE Pipe
    BY <2>6, PipeOpened
  <2>7. CASE AllocFD
    BY <2>7, SocketOpened
  <2> QED BY <1>1, <2>2, <2>3, <2>4, <2>5, <2>6, <2>7
             DEF FdNext, Socket, Accept, EpollCreate
<1>2. CASE UNCHANGED fdVars
  BY <1>2, FdUnchanged
<1>3. CASE FileCalls
  BY <1>2, <1>3
     DEF FileCalls, ReadsAndWrites, Readlink, Mkdtemp, Realpath, StatAndAccess,
         MapCalls, DirectoryCalls, PathCalls, Chmod, FcntlFile, Truncate, Umask,
         SocketCalls, Send, Getcwd, Opendir, Tmpfile
<1>4. CASE NextGuest
  <2>1. /\ held' = <<>> /\ ahead' = FALSE
        /\ nextFileFD' = nextFileFD /\ nextFD' = nextFD
    BY <1>4 DEF NextGuest
  <2>2. DOMAIN held' = {}
    BY <2>1
  <2>3. FdInv'
    BY <2>1, <2>2 DEF FdInv, FdCounters, HeldByNumber, HandedOutBefore
  <2> QED BY <2>1, <2>3 DEF FdGoal, FdTable!Next, FdTable!Reset
<1>5. CASE UNCHANGED servicesVars
  BY <1>2, <1>5 DEF servicesVars
<1> QED BY <1>1, <1>2, <1>3, <1>4, <1>5, StepsOfServices

\* The descriptors a guest has open are told apart by their numbers, whoever
\* handed them out, until the files reach the sockets' numbers or dup2 took
\* one of the numbers to come; in the next guest, too, whose counters go on
\* (libc/fileio.go:134-189, 330-373, network/socket.go:118-226).
THEOREM DescriptorsKeepNumbers == ServicesSpec => FdTable!Spec
<1>1. FdInv /\ [ServicesNext]_servicesVars
        => FdInv' /\ [FdTable!Next]_<<held, FdExhausted>>
  BY FdStepOf DEF FdGoal
<1>2. FdInv /\ [ServicesNext]_servicesVars
        => FdInv' /\ [FdTable!Next]_<<held, ahead \/ nextFileFD > SocketBase>>
  BY <1>1 DEF FdExhausted
<1> QED BY <1>2, FdInitial, PTL DEF ServicesSpec, FdTable!Spec

-----------------------------------------------------------------------------
(***************************************************************************)
(* JNI references.  Each is one of the numbers the counter of its kind has *)
(* passed; as long as no counter is beyond the offset of another kind or   *)
(* of a constant, the numbers of two kinds have nothing in common.         *)
(***************************************************************************)
RefAt(kind, i) == MockObj + JniFirst[kind] + 8 * i

JniCounts == nextRef \in [Counters -> 0..MaxRefs]

JniNames == /\ \A t \in DOMAIN refs : t[1] \in Kinds \ {"string"}
            /\ madeStrings \in Seq(Nat)

RefsHandedOut ==
  \A t \in DOMAIN JniHandles :
    /\ t[1] \in Kinds
    /\ \E i \in 0..(nextRef[Counter(t[1])] - 1) : JniHandles[t] = RefAt(t[1], i)

JniInv == JniCounts /\ JniNames /\ RefsHandedOut

JniGoal == JniInv' /\ [JniTable!Next]_<<JniHandles, JniExhausted>>

LEMMA BoundOfCounters == MaxRefs \in Nat /\ 0 \in 0..MaxRefs
<1>1. MaxRefs \in Nat
  BY JniAssumption, Zenon
<1> QED BY <1>1

LEMMA CounterOfKind == \A kind \in Kinds : Counter(kind) \in Counters
BY DEF Counters

\* What nothing has reached yet is still apart.
LEMMA KindsApart ==
  ASSUME NEW count \in [Counters -> 0..MaxRefs],
         \A kind \in Kinds : count[Counter(kind)] \notin Beyond[kind]
  PROVE  /\ \A k, l \in Kinds :
              k # l => \A i \in 0..(count[Counter(k)] - 1),
                         j \in 0..(count[Counter(l)] - 1) : RefAt(k, i) # RefAt(l, j)
         /\ \A k \in Kinds, g \in DOMAIN JniGiven :
              \A i \in 0..(count[Counter(k)] - 1) : RefAt(k, i) # MockObj + JniGiven[g]
<1>1. /\ MockObj \in Nat /\ MaxRefs \in Nat
      /\ \A k \in Kinds : JniFirst[k] \in Nat
      /\ \A k \in Kinds : count[Counter(k)] \in 0..MaxRefs
      /\ \A g \in DOMAIN JniGiven : JniGiven[g] \in Nat
  BY JniAssumption, CounterOfKind
<1>2. ASSUME NEW k \in Kinds, NEW l \in Kinds, JniFirst[k] < JniFirst[l]
      PROVE  JniFirst[k] + 8 * count[Counter(k)] <= JniFirst[l]
  <2>1. count[Counter(k)] \notin Beyond[k] /\ count[Counter(k)] \in 0..MaxRefs
    BY <1>1
  <2>2. ~(JniFirst[l] < JniFirst[k] + 8 * count[Counter(k)])
    BY <1>2, <2>1 DEF Beyond
  <2>3. count[Counter(k)] \in Nat /\ JniFirst[k] \in Nat /\ JniFirst[l] \in Nat
    BY <1>1
  <2> QED BY <2>2, <2>3
<1>3. ASSUME NEW k \in Kinds, NEW g \in DOMAIN JniGiven, JniFirst[k] < JniGiven[g]
      PROVE  JniFirst[k] + 8 * count[Counter(k)] <= JniGiven[g]
  <2>1. count[Counter(k)] \notin Beyond[k] /\ count[Counter(k)] \in 0..MaxRefs
    BY <1>1
  <2>2. ~(JniGiven[g] < JniFirst[k] + 8 * count[Counter(k)])
    BY <1>3, <2>1 DEF Beyond
  <2>3. count[Counter(k)] \in Nat /\ JniFirst[k] \in Nat /\ JniGiven[g] \in Nat
    BY <1>1
  <2> QED BY <2>2, <2>3
<1>4. ASSUME NEW k \in Kinds, NEW l \in Kinds, JniFirst[k] < JniFirst[l],
             NEW i \in 0..(count[Counter(k)] - 1), NEW j \in 0..(count[Counter(l)] - 1)
      PROVE  RefAt(k, i) < RefAt(l, j)
  <2>1. JniFirst[k] + 8 * count[Counter(k)] <= JniFirst[l]
    BY <1>2, <1>4
  <2>2. /\ count[Counter(k)] \in Nat /\ JniFirst[k] \in Nat /\ JniFirst[l] \in Nat
        /\ count[Counter(l)] \in Nat /\ i \in Nat /\ j \in Nat
        /\ i < count[Counter(k)]
    BY <1>1
  <2> QED BY <1>1, <2>1, <2>2 DEF RefAt
<1>5. ASSUME NEW k \in Kinds, NEW l \in Kinds, k # l,
             NEW i \in 0..(count[Counter(k)] - 1), NEW j \in 0..(count[Counter(l)] - 1)
      PROVE  RefAt(k, i) # RefAt(l, j)
  <2>1. JniFirst[k] # JniFirst[l]
    BY <1>5, JniAssumption
  <2>2. JniFirst[k] < JniFirst[l] \/ JniFirst[l] < JniFirst[k]
    BY <1>1, <2>1
  <2>3. RefAt(k, i) < RefAt(l, j) \/ RefAt(l, j) < RefAt(k, i)
    BY <1>4, <2>2
  <2>4. RefAt(k, i) \in Int /\ RefAt(l, j) \in Int
    BY <1>1 DEF RefAt
  <2> QED BY <2>3, <2>4
<1>6. ASSUME NEW k \in Kinds, NEW g \in DOMAIN JniGiven,
             NEW i \in 0..(count[Counter(k)] - 1)
      PROVE  RefAt(k, i) # MockObj + JniGiven[g]
  <2>1. JniFirst[k] # JniGiven[g]
    BY JniAssumption
  <2>2. /\ count[Counter(k)] \in Nat /\ JniFirst[k] \in Nat /\ JniGiven[g] \in Nat
        /\ i \in Nat /\ i < count[Counter(k)]
    BY <1>1
  <2>3. JniFirst[k] < JniGiven[g] \/ JniGiven[g] < JniFirst[k]
    BY <2>1, <2>2
  <2> QED BY <1>1, <1>3, <2>2, <2>3 DEF RefAt
<1> QED BY <1>5, <1>6

\* The counters only grow, and what they have passed they have passed.
LEMMA StaysExhausted ==
  ASSUME JniCounts, JniCounts',
         \A c \in Counters : nextRef[c] <= nextRef'[c], JniExhausted
  PROVE  JniExhausted'
<1>1. PICK kind \in Kinds : nextRef[Counter(kind)] \in Beyond[kind]
  BY DEF JniExhausted
<1>2. PICK other \in {JniFirst[k] : k \in Kinds}
                     \cup {JniGiven[g] : g \in DOMAIN JniGiven} :
        /\ JniFirst[kind] < other
        /\ other < JniFirst[kind] + 8 * nextRef[Counter(kind)]
  BY <1>1 DEF Beyond
<1>3. /\ other \in Nat /\ JniFirst[kind] \in Nat
      /\ nextRef[Counter(kind)] \in 0..MaxRefs
      /\ nextRef'[Counter(kind)] \in 0..MaxRefs
      /\ nextRef[Counter(kind)] <= nextRef'[Counter(kind)]
      /\ MaxRefs \in Nat
  BY CounterOfKind, JniAssumption DEF JniCounts
<1>4. other < JniFirst[kind] + 8 * nextRef'[Counter(kind)]
  BY <1>2, <1>3
<1>5. nextRef'[Counter(kind)] \in Beyond[kind]
  BY <1>2, <1>3, <1>4 DEF Beyond
<1> QED BY <1>5 DEF JniExhausted

\* One more reference, x, of some kind.
LEMMA OneMoreRef ==
  ASSUME JniCounts, RefsHandedOut,
         NEW kind \in Kinds, NEW x, x[1] = kind, x \notin DOMAIN JniHandles,
         nextRef[Counter(kind)] < MaxRefs,
         nextRef' = [nextRef EXCEPT ![Counter(kind)] = @ + 1],
         DOMAIN JniHandles' = DOMAIN JniHandles \cup {x},
         JniHandles'[x] = NextRefOf(kind),
         \A t \in DOMAIN JniHandles : JniHandles'[t] = JniHandles[t]
  PROVE  JniCounts' /\ RefsHandedOut' /\ JniTable!Change
<1> DEFINE n == nextRef[Counter(kind)]
<1>1. /\ Counter(kind) \in Counters /\ n \in Nat /\ MaxRefs \in Nat
      /\ \A c \in Counters : nextRef[c] \in 0..MaxRefs
  BY CounterOfKind, BoundOfCounters DEF JniCounts
<1>2. /\ JniCounts'
      /\ nextRef'[Counter(kind)] = n + 1
      /\ \A c \in Counters : nextRef[c] <= nextRef'[c]
  BY <1>1 DEF JniCounts
<1>3. NextRefOf(kind) = RefAt(kind, n)
  BY DEF NextRefOf, RefAt
<1>4. \A t \in DOMAIN JniHandles :
        /\ t[1] \in Kinds
        /\ \E i \in 0..(nextRef[Counter(t[1])] - 1) :
             /\ JniHandles[t] = RefAt(t[1], i)
             /\ i \in 0..(nextRef'[Counter(t[1])] - 1)
  <2> SUFFICES ASSUME NEW t \in DOMAIN JniHandles
               PROVE  /\ t[1] \in Kinds
                      /\ \E i \in 0..(nextRef[Counter(t[1])] - 1) :
                           /\ JniHandles[t] = RefAt(t[1], i)
                           /\ i \in 0..(nextRef'[Counter(t[1])] - 1)
    OBVIOUS
  <2>1. /\ t[1] \in Kinds
        /\ \E i \in 0..(nextRef[Counter(t[1])] - 1) : JniHandles[t] = RefAt(t[1], i)
    BY DEF RefsHandedOut
  <2>2. /\ nextRef[Counter(t[1])] \in Int /\ nextRef'[Counter(t[1])] \in Int
        /\ nextRef[Counter(t[1])] <= nextRef'[Counter(t[1])]
    BY <1>1, <1>2, <2>1, CounterOfKind DEF JniCounts
  <2>3. \A i \in 0..(nextRef[Counter(t[1])] - 1) :
          i \in 0..(nextRef'[Counter(t[1])] - 1)
    BY <2>2
  <2> QED BY <2>1, <2>3
<1>5. n \in 0..(nextRef'[Counter(kind)] - 1)
  BY <1>1, <1>2
<1>6. RefsHandedOut'
  <2> SUFFICES ASSUME NEW t \in DOMAIN JniHandles'
               PROVE  /\ t[1] \in Kinds
                      /\ \E i \in 0..(nextRef'[Counter(t[1])] - 1) :
                           JniHandles'[t] = RefAt(t[1], i)
    BY DEF RefsHandedOut
  <2>1. CASE t = x
    BY <1>3, <1>5, <2>1
  <2>2. CASE t \in DOMAIN JniHandles
    BY <1>4, <2>2
  <2> QED BY <2>1, <2>2
<1>7. JniExhausted => JniExhausted'
  BY <1>2, StaysExhausted
<1>8. ASSUME ~JniExhausted'
      PROVE  /\ JniHandles'[x] \notin GivenRefs
             /\ \A u \in DOMAIN JniHandles : JniHandles'[x] # JniHandles'[u]
  <2>1. /\ nextRef' \in [Counters -> 0..MaxRefs]
        /\ \A k \in Kinds : nextRef'[Counter(k)] \notin Beyond[k]
    BY <1>2, <1>8 DEF JniCounts, JniExhausted
  <2>2. /\ \A k, l \in Kinds :
             k # l => \A i \in 0..(nextRef'[Counter(k)] - 1),
                        j \in 0..(nextRef'[Counter(l)] - 1) : RefAt(k, i) # RefAt(l, j)
        /\ \A k \in Kinds, g \in DOMAIN JniGiven :
             \A i \in 0..(nextRef'[Counter(k)] - 1) :
               RefAt(k, i) # MockObj + JniGiven[g]
    BY <2>1, KindsApart
  <2>3. JniHandles'[x] \notin GivenRefs
    BY <1>3, <1>5, <2>2 DEF GivenRefs
  <2>4. ASSUME NEW u \in DOMAIN JniHandles PROVE JniHandles'[x] # JniHandles'[u]
    <3>1. PICK j \in 0..(nextRef[Counter(u[1])] - 1) :
            /\ JniHandles[u] = RefAt(u[1], j)
            /\ j \in 0..(nextRef'[Counter(u[1])] - 1)
      BY <1>4
    <3>2. u[1] \in Kinds
      BY <1>4
    <3>3. CASE u[1] # kind
      BY <1>3, <1>5, <2>2, <3>1, <3>2, <3>3
    <3>4. CASE u[1] = kind
      <4>1. j \in Nat /\ j < n
        BY <1>1, <3>1, <3>4
      <4>2. MockObj \in Nat /\ JniFirst[kind] \in Nat
        BY JniAssumption
      <4> HIDE DEF n
      <4>3. RefAt(kind, n) # RefAt(kind, j)
        BY <1>1, <4>1, <4>2 DEF RefAt
      <4> QED BY <1>3, <3>1, <3>4, <4>3
    <3> QED BY <3>3, <3>4
  <2> QED BY <2>3, <2>4
<1>9. JniTable!Change
  BY <1>7, <1>8 DEF JniTable!Change, JniTable!New
<1> QED BY <1>2, <1>6, <1>9

LEMMA JniUnchanged ==
  ASSUME JniInv, UNCHANGED jniVars
  PROVE  JniGoal
BY DEF JniInv, JniCounts, JniNames, RefsHandedOut, JniGoal, JniHandles,
       JniExhausted, jniVars

\* FindClass, GetMethodID and the others.
LEMMA RefGot ==
  ASSUME JniInv, NEW kind \in Kinds \ {"string"}, NEW key, GetRef(kind, key)
  PROVE  JniGoal
<1> DEFINE x == <<kind, key>>
<1>1. CASE x \in DOMAIN refs
  BY <1>1, JniUnchanged DEF GetRef
<1>2. CASE x \notin DOMAIN refs
  <2>1. /\ nextRef[Counter(kind)] < MaxRefs
        /\ refs' = Put(refs, x, NextRefOf(kind))
        /\ nextRef' = [nextRef EXCEPT ![Counter(kind)] = @ + 1]
        /\ madeStrings' = madeStrings
    BY <1>2 DEF GetRef
  <2>2. x[1] = kind /\ kind # "string" /\ kind \in Kinds
    OBVIOUS
  <2> HIDE DEF x
  <2>3. /\ DOMAIN refs' = DOMAIN refs \cup {x}
        /\ refs'[x] = NextRefOf(kind)
        /\ \A t \in DOMAIN refs : refs'[t] = refs[t]
    BY <1>2, <2>1 DEF Put
  <2>4. x \notin {"string"} \X DOMAIN madeStrings
    BY <2>2
  <2>5. /\ x \notin DOMAIN JniHandles
        /\ DOMAIN JniHandles' = DOMAIN JniHandles \cup {x}
    BY <1>2, <2>1, <2>3, <2>4 DEF JniHandles
  <2>6. JniHandles'[x] = NextRefOf(kind)
    BY <2>2, <2>3 DEF JniHandles
  <2>7. \A t \in DOMAIN JniHandles : JniHandles'[t] = JniHandles[t]
    BY <2>1, <2>3 DEF JniHandles
  <2>8. JniCounts' /\ RefsHandedOut' /\ JniTable!Change
    BY <2>1, <2>2, <2>5, <2>6, <2>7, OneMoreRef DEF JniInv
  <2>9. JniNames'
    BY <2>1, <2>2, <2>3 DEF JniInv, JniNames
  <2> QED BY <2>8, <2>9 DEF JniGoal, JniInv, JniTable!Next
<1> QED BY <1>1, <1>2

LEMMA StringMade ==
  ASSUME JniInv, NEW text, NewStringUTF(text)
  PROVE  JniGoal
<1> DEFINE m == Len(madeStrings) + 1
           x == <<"string", m>>
<1>1. /\ nextRef["string"] < MaxRefs
      /\ refs' = refs
      /\ nextRef' = [nextRef EXCEPT !["string"] = @ + 1]
      /\ madeStrings' = Append(madeStrings, NextRefOf("string"))
  BY DEF NewStringUTF
<1>2. "string" \in Kinds /\ Counter("string") = "string"
  BY DEF Kinds, Counter
<1>3. NextRefOf("string") \in Nat
  <2>1. /\ nextRef["string"] \in 0..MaxRefs /\ MaxRefs \in Nat
        /\ MockObj \in Nat /\ JniFirst["string"] \in Nat
    BY <1>2, CounterOfKind, JniAssumption DEF JniInv, JniCounts
  <2> QED BY <1>2, <2>1 DEF NextRefOf
<1>4. /\ madeStrings \in Seq(Nat) /\ Len(madeStrings) \in Nat
      /\ DOMAIN madeStrings = 1..Len(madeStrings)
      /\ \A t \in DOMAIN refs : t[1] \in Kinds \ {"string"}
  BY DEF JniInv, JniNames
<1>5. /\ madeStrings' \in Seq(Nat)
      /\ DOMAIN madeStrings' = DOMAIN madeStrings \cup {m}
      /\ m \notin DOMAIN madeStrings
      /\ madeStrings'[m] = NextRefOf("string")
      /\ \A i \in DOMAIN madeStrings : madeStrings'[i] = madeStrings[i]
  <2>1. /\ madeStrings' \in Seq(Nat)
        /\ Len(madeStrings') = m
        /\ \A i \in 1..Len(madeStrings) : madeStrings'[i] = madeStrings[i]
        /\ madeStrings'[m] = NextRefOf("string")
    BY <1>1, <1>3, <1>4, AppendProperties
  <2>2. DOMAIN madeStrings' = 1..m
    BY <2>1
  <2> QED BY <1>4, <2>1, <2>2
<1> HIDE DEF m
<1>6. x[1] = "string" /\ x[2] = m
  OBVIOUS
<1>7. /\ x \notin DOMAIN JniHandles
      /\ DOMAIN JniHandles' = DOMAIN JniHandles \cup {x}
  <2>1. {"string"} \X DOMAIN madeStrings' = {"string"} \X DOMAIN madeStrings \cup {x}
    BY <1>5
  <2>2. x \notin DOMAIN refs /\ x \notin {"string"} \X DOMAIN madeStrings
    BY <1>4, <1>5, <1>6
  <2> HIDE DEF x
  <2> QED BY <1>1, <2>1, <2>2 DEF JniHandles
<1>8. JniHandles'[x] = NextRefOf("string")
  <2>1. x \in DOMAIN JniHandles'
    BY <1>7
  <2> QED BY <1>5, <1>6, <2>1 DEF JniHandles
<1>9. \A t \in DOMAIN JniHandles : JniHandles'[t] = JniHandles[t]
  <2> SUFFICES ASSUME NEW t \in DOMAIN JniHandles
               PROVE  JniHandles'[t] = JniHandles[t]
    OBVIOUS
  <2>1. t \in DOMAIN refs \/ t \in {"string"} \X DOMAIN madeStrings
    BY DEF JniHandles
  <2>2. t \in DOMAIN JniHandles'
    BY <1>7
  <2>3. CASE t \in DOMAIN refs
    BY <1>1, <1>4, <2>2, <2>3 DEF JniHandles
  <2>4. CASE t \in {"string"} \X DOMAIN madeStrings
    BY <1>5, <2>2, <2>4 DEF JniHandles
  <2> QED BY <2>1, <2>3, <2>4
<1> HIDE DEF x
<1>10. JniCounts' /\ RefsHandedOut' /\ JniTable!Change
  BY <1>1, <1>2, <1>6, <1>7, <1>8, <1>9, OneMoreRef DEF JniInv
<1>11. JniNames'
  BY <1>1, <1>4, <1>5 DEF JniNames
<1> QED BY <1>10, <1>11 DEF JniGoal, JniInv, JniTable!Next

LEMMA JniInitial == ServicesInit => JniInv /\ JniTable!Init
<1> SUFFICES ASSUME ServicesInit PROVE JniInv /\ JniTable!Init
  OBVIOUS
<1>1. nextRef = [c \in Counters |-> 0] /\ refs = <<>> /\ madeStrings = <<>>
  BY DEF ServicesInit, JniInit
<1>2. DOMAIN refs = {} /\ DOMAIN madeStrings = {} /\ madeStrings \in Seq(Nat)
  BY <1>1
<1>3. DOMAIN refs \cup {"string"} \X DOMAIN madeStrings = {}
  BY <1>2
<1>4. JniHandles = <<>>
  BY <1>3 DEF JniHandles
<1>5. DOMAIN JniHandles = {}
  BY <1>3 DEF JniHandles
<1>6. 0 \in 0..MaxRefs
  BY BoundOfCounters
<1>7. JniInv
  BY <1>1, <1>2, <1>5, <1>6 DEF JniInv, JniCounts, JniNames, RefsHandedOut
<1>8. ~JniExhausted
  <2> SUFFICES ASSUME NEW kind \in Kinds PROVE nextRef[Counter(kind)] \notin Beyond[kind]
    BY DEF JniExhausted
  <2>1. nextRef[Counter(kind)] = 0
    BY <1>1, CounterOfKind
  <2>2. JniFirst[kind] \in Nat
    BY JniAssumption
  <2>3. \A other \in Nat : ~(JniFirst[kind] < other /\ other < JniFirst[kind] + 8 * 0)
    BY <2>2
  <2>4. \A other \in {JniFirst[k] : k \in Kinds}
                      \cup {JniGiven[g] : g \in DOMAIN JniGiven} : other \in Nat
    BY JniAssumption
  <2> QED BY <2>1, <2>3, <2>4 DEF Beyond
<1>9. JniExhausted = FALSE
  BY <1>8 DEF JniExhausted
<1> QED BY <1>4, <1>7, <1>9 DEF JniTable!Init

LEMMA JniStepOf ==
  ASSUME JniInv, [ServicesNext]_servicesVars
  PROVE  JniGoal
<1>1. CASE UNCHANGED jniVars
  BY <1>1, JniUnchanged
<1>2. ASSUME NEW name, FindClass(name) PROVE JniGoal
  BY <1>2, RefGot DEF FindClass, Kinds
<1>3. CASE JniLookups
  <2>1. ASSUME NEW key, GetMethodID(key) \/ GetStaticMethodID(key) PROVE JniGoal
    <3>1. CASE GetRef("method", key)
      BY <3>1, RefGot DEF Kinds
    <3>2. CASE GetRef("static method", key)
      BY <3>2, RefGot DEF Kinds
    <3> QED BY <2>1, <3>1, <3>2 DEF GetMethodID, GetStaticMethodID
  <2>2. ASSUME NEW key, GetFieldID(key) \/ GetStaticFieldID(key) PROVE JniGoal
    <3>1. CASE GetRef("field", key)
      BY <3>1, RefGot DEF Kinds
    <3>2. CASE GetRef("static field", key)
      BY <3>2, RefGot DEF Kinds
    <3> QED BY <2>2, <3>1, <3>2 DEF GetFieldID, GetStaticFieldID
  <2>3. CASE GetVersion \/ GetObjectClass \/ CallMethod \/ CallStaticMethod \/ JNIGeneric
    <3>1. ASSUME NEW g, AnswerGiven(g) PROVE UNCHANGED jniVars
      BY <3>1 DEF AnswerGiven
    <3>2. CASE GetVersion
      BY <1>1, <3>2 DEF GetVersion
    <3> QED BY <1>1, <2>3, <3>1, <3>2
               DEF GetObjectClass, CallMethod, CallStaticMethod, JNIGeneric
  <2>4. CASE \/ DeleteRef \/ CallVoidMethod \/ GetField \/ SetField
             \/ Exceptions \/ ExceptionClear \/ Frames
             \/ RegisterNatives \/ GetJavaVM \/ JavaVMStubs
    BY <1>1, <2>4 DEF DeleteRef, CallVoidMethod, GetField, SetField, Exceptions,
                      ExceptionClear, Frames, RegisterNatives, GetJavaVM,
                      JavaVMStubs
  <2> QED BY <1>2, <1>3, <2>1, <2>2, <2>3, <2>4 DEF JniLookups
<1>4. CASE JniObjects
  <2>1. ASSUME NEW text, NewStringUTF(text) PROVE JniGoal
    BY <2>1, StringMade
  <2>2. ASSUME NEW ref, \/ GetStringUTFChars(ref) \/ GetStringUTFLength(ref)
                        \/ NewRef(ref) \/ PopLocalFrame(ref)
                        \/ IsSameObject(ref, ref) \/ IsSameObject(ref, MockObj)
        PROVE  JniGoal
    BY <1>1, <2>2 DEF GetStringUTFChars, GetStringUTFLength, NewRef,
                      PopLocalFrame, IsSameObject
  <2>3. ASSUME NEW length, NewByteArray(length) PROVE JniGoal
    <3>1. UNCHANGED <<nextRef, refs, madeStrings>>
      BY <2>3 DEF NewByteArray
    <3> QED BY <3>1 DEF JniInv, JniCounts, JniNames, RefsHandedOut, JniGoal,
                        JniHandles, JniExhausted
  <2>4. ASSUME NEW array, GetByteArrayElements(array) \/ GetArrayLength(array)
        PROVE  JniGoal
    BY <1>1, <2>4 DEF GetByteArrayElements, GetArrayLength
  <2> QED BY <1>2, <1>4, <2>1, <2>2, <2>3, <2>4 DEF JniObjects
<1>5. CASE NextGuest
  <2>1. /\ nextRef' = [c \in Counters |-> 0]
        /\ refs' = <<>> /\ madeStrings' = <<>>
    BY <1>5 DEF NextGuest
  <2>2. DOMAIN refs' = {} /\ DOMAIN madeStrings' = {} /\ madeStrings' \in Seq(Nat)
    BY <2>1
  <2>3. DOMAIN refs' \cup {"string"} \X DOMAIN madeStrings' = {}
    BY <2>2
  <2>4. JniHandles' = <<>> /\ DOMAIN JniHandles' = {}
    BY <2>3 DEF JniHandles
  <2>5. 0 \in 0..MaxRefs
    BY BoundOfCounters
  <2>6. JniInv'
    BY <2>1, <2>2, <2>4, <2>5 DEF JniInv, JniCounts, JniNames, RefsHandedOut
  <2> QED BY <2>4, <2>6 DEF JniGoal, JniTable!Next, JniTable!Reset
<1>6. CASE UNCHANGED servicesVars
  BY <1>1, <1>6 DEF servicesVars
<1> QED BY <1>1, <1>3, <1>4, <1>5, <1>6, StepsOfServices

\* Classes, methods, fields and strings of a guest are told apart by their
\* references and keep them, for any number of each and any offsets, until a
\* counter reaches the offset of another kind or of a constant
\* (jni/jni.go:298-310, 469-558, 629-671).
THEOREM ReferencesKeepNumbers == ServicesSpec => JniTable!Spec
<1>1. JniInv /\ [ServicesNext]_servicesVars
        => JniInv' /\ [JniTable!Next]_<<JniHandles, JniExhausted>>
  BY JniStepOf DEF JniGoal
<1> QED BY <1>1, JniInitial, PTL DEF ServicesSpec, JniTable!Spec

\* All four together: the services implement the table of handles wherever
\* they number things for a guest.
THEOREM HandlesCorrect == ServicesSpec => HandlesSpec
BY ReferencesKeepNumbers, DescriptorsKeepNumbers, ThreadsKeepIds,
   LibrariesKeepHandles
   DEF HandlesSpec
=============================================================================
