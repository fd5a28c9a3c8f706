------------------------------ MODULE Pthread ------------------------------
(***************************************************************************)
(* The pthread stubs: no thread ever runs, but pthread_create numbers the  *)
(* threads it is asked for, keys of thread-local data are numbered from 0, *)
(* and mutexes, condition variables and attributes are ignored.  The       *)
(* tables belong to the process and outlive an emulator.                   *)
(*                                                                         *)
(* The guest keeps the keys it is given in variables of 4 bytes that lie   *)
(* side by side (pthread_key_t); pthread_key_create writes 8 bytes, so it  *)
(* also clears the variable after the one it was given.                    *)
(***************************************************************************)
EXTENDS StubCalls, FiniteSets

CONSTANTS KeyVars,      \* the guest's key variables are 1 .. KeyVars
          TlsValues,    \* what it stores under its keys
          OnceControls, \* its pthread_once_t variables
          MaxThreads,   \* bound: how many threads are created
          MaxKeys       \* bound: how many keys are created

ASSUME PthreadAssumption ==
  /\ KeyVars \in Nat /\ MaxThreads \in Nat /\ MaxKeys \in Nat
  /\ TlsValues \subseteq Nat \ {0}

VARIABLES nextThreadID,
          threads,      \* history: the ids this guest was given
          nextTLSKey,
          tlsData,
          keyVar,       \* guest memory: the key variables
          created,      \* history: the variables that have been given a key
          stored,       \* history: what was last stored through each of them
          spoiled,      \* history: a key was created just before a variable
                        \* that had one
          onceFlags

threadVars == <<nextThreadID, threads>>
tlsVars == <<nextTLSKey, tlsData, keyVar, created, stored, spoiled>>
pthreadVars == <<threadVars, tlsVars, onceFlags>>

NoKeys == /\ keyVar = [v \in 1..KeyVars |-> 0]
          /\ created = {}
          /\ stored = [v \in 1..KeyVars |-> 0]
          /\ spoiled = FALSE

PthreadInit == /\ nextThreadID = 1
               /\ threads = <<>>
               /\ nextTLSKey = 0
               /\ tlsData = <<>>
               /\ NoKeys
               /\ onceFlags = {}

PthreadCreate ==
  /\ nextThreadID <= MaxThreads
  /\ Answer(0)
  /\ nextThreadID' = nextThreadID + 1
  /\ threads' = [n \in 1..(Len(threads) + 1) |->
                   IF n <= Len(threads) THEN threads[n] ELSE nextThreadID]
  /\ UNCHANGED <<tlsVars, onceFlags>>

\* Whoever asks is thread 1, which is also the id of the first one created.
PthreadSelf == Answer(1) /\ UNCHANGED pthreadVars

PthreadEqual(t, u) == Answer(IF t = u THEN 1 ELSE 0) /\ UNCHANGED pthreadVars

\* join, detach, names, cancel and sched_yield succeed, and nothing happens;
\* pthread_exit returns.
PthreadJoin == Answer(0) /\ UNCHANGED pthreadVars
ThreadCalls == Answer(0) /\ UNCHANGED pthreadVars
PthreadExit == Return /\ UNCHANGED pthreadVars

\* All 8 bytes of the key, as far as there are variables.
WriteKey(v, key) ==
  [w \in 1..KeyVars |-> IF w = v THEN key
                        ELSE IF w = v + 1 THEN 0 ELSE keyVar[w]]

\* A variant that does not count the keys it hands out.
KeyCreateSame(v) ==
  /\ Answer(0)
  /\ keyVar' = WriteKey(v, nextTLSKey)
  /\ created' = created \cup {v}
  /\ stored' = [stored EXCEPT ![v] = 0]
  /\ spoiled' = (spoiled \/ v + 1 \in created)
  /\ UNCHANGED <<nextTLSKey, tlsData, threadVars, onceFlags>>

\* A key variable is given a key once.
KeyCreate(v) ==
  /\ v \notin created /\ nextTLSKey < MaxKeys
  /\ Answer(0)
  /\ nextTLSKey' = nextTLSKey + 1
  /\ keyVar' = WriteKey(v, nextTLSKey)
  /\ created' = created \cup {v}
  /\ stored' = [stored EXCEPT ![v] = 0]
  /\ spoiled' = (spoiled \/ v + 1 \in created)
  /\ UNCHANGED <<tlsData, threadVars, onceFlags>>

\* The value goes and the number is not used again.
KeyDelete(v) ==
  /\ Answer(0)
  /\ tlsData' = [k \in DOMAIN tlsData \ {keyVar[v]} |-> tlsData[k]]
  /\ created' = created \ {v}
  /\ UNCHANGED <<nextTLSKey, keyVar, stored, spoiled, threadVars, onceFlags>>

Setspecific(v, value) ==
  /\ Answer(0)
  /\ tlsData' = [k \in DOMAIN tlsData \cup {keyVar[v]} |->
                   IF k = keyVar[v] THEN value ELSE tlsData[k]]
  /\ stored' = [stored EXCEPT ![v] = value]
  /\ UNCHANGED <<nextTLSKey, keyVar, created, spoiled, threadVars, onceFlags>>

TlsValue(key) == IF key \in DOMAIN tlsData THEN tlsData[key] ELSE 0

Getspecific(v) == Answer(TlsValue(keyVar[v])) /\ UNCHANGED pthreadVars

\* The routine is never called, at the first call or after it.
Once(control) == /\ Answer(0)
                 /\ onceFlags' = onceFlags \cup {control}
                 /\ UNCHANGED <<threadVars, tlsVars>>

\* Nobody ever waits: every lock is had and every wait is over at once.
MutexCalls == Answer(0) /\ UNCHANGED pthreadVars
CondCalls == Answer(0) /\ UNCHANGED pthreadVars
AttrCalls == Answer(0) /\ UNCHANGED pthreadVars

ThreadNext ==
  \/ PthreadCreate
  \/ PthreadSelf
  \/ \E t, u \in DOMAIN threads : PthreadEqual(threads[t], threads[u])
  \/ PthreadJoin
  \/ ThreadCalls
  \/ PthreadExit
  \/ MutexCalls
  \/ CondCalls
  \/ AttrCalls

TlsNext ==
  \/ \E v \in 1..KeyVars : KeyCreate(v)
  \/ \E v \in created : \/ KeyDelete(v)
                        \/ Getspecific(v)
                        \/ \E value \in TlsValues : Setspecific(v, value)
  \/ \E control \in OnceControls : Once(control)

PthreadTypeOK ==
  /\ nextThreadID \in 1..(MaxThreads + 1)
  /\ threads \in Seq(1..MaxThreads)
  /\ nextTLSKey \in 0..MaxKeys
  /\ DOMAIN tlsData \subseteq Nat
  /\ \A k \in DOMAIN tlsData : tlsData[k] \in TlsValues
  /\ keyVar \in [1..KeyVars -> Nat]
  /\ created \subseteq 1..KeyVars
  /\ stored \in [1..KeyVars -> TlsValues \cup {0}]
  /\ spoiled \in BOOLEAN
  /\ onceFlags \subseteq OnceControls

\* What the guest reads through a key variable is what it last stored there,
\* or nothing: no other variable's key is the same, also after keys were
\* deleted and on a second emulator, where the table still has the values of
\* the first - unless creating another key has cleared the variable, which
\* happens when the variable before it is given its key later
\* (pthread/tls.go:24-77).
TlsReadsBack ==
  ~spoiled => \A v \in created : TlsValue(keyVar[v]) = stored[v]

\* The threads of a guest are told apart by their ids
\* (pthread/thread.go:29-50).
ThreadTable == INSTANCE HandleTable WITH
                 Taken <- {}, handles <- threads, exhausted <- FALSE
=============================================================================
