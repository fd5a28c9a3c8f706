---------------------------- MODULE LibcServices ----------------------------
(***************************************************************************)
(* The rest of libc that keeps something between calls - the locale, the   *)
(* environment - with what answers constants (time, exit), and the Lua and *)
(* toLua++ stubs, which pretend to an empty interpreter.  The pointers to  *)
(* static buffers belong to the process, the buffers to an emulator.       *)
(***************************************************************************)
EXTENDS StubCalls

CONSTANTS EnvNames,    \* names of environment variables
          EnvValues,   \* what is stored in them; a value is its length
          EnvDefaults  \* the lengths of the values some names have anyway

ASSUME LibcServicesAssumption ==
  /\ EnvValues \subseteq Nat
  /\ DOMAIN EnvDefaults \subseteq EnvNames
  /\ \A name \in DOMAIN EnvDefaults : EnvDefaults[name] \in Nat

VARIABLES localeNameBuf, localeconvBuf, luaStatePtr, envVars

libcVars == <<localeNameBuf, localeconvBuf, luaStatePtr, envVars>>

LibcInit == /\ localeNameBuf = 0
            /\ localeconvBuf = 0
            /\ luaStatePtr = 0
            /\ envVars = <<>>

\* What is allocated by the first call is answered by all, also on the next
\* emulator, where nobody has allocated it.
Static(buf, sizes) == IF buf = 0 THEN Give(sizes, heapPtr) ELSE Answer(buf)

Kept(buf) == IF buf = 0 /\ ~panicked' THEN x0' ELSE buf

Setlocale == /\ Static(localeNameBuf, <<8>>)
             /\ localeNameBuf' = Kept(localeNameBuf)
             /\ UNCHANGED <<localeconvBuf, luaStatePtr, envVars>>

Localeconv == /\ Static(localeconvBuf, <<128, 4, 4>>)
              /\ localeconvBuf' = Kept(localeconvBuf)
              /\ UNCHANGED <<localeNameBuf, luaStatePtr, envVars>>

LuaNewstate == /\ Static(luaStatePtr, <<256>>)
               /\ luaStatePtr' = Kept(luaStatePtr)
               /\ UNCHANGED <<localeNameBuf, localeconvBuf, envVars>>

Newlocale == Give(<<8>>, heapPtr) /\ UNCHANGED libcVars
Uselocale == Give(<<8>>, heapPtr) /\ UNCHANGED libcVars
Freelocale == Return /\ UNCHANGED libcVars

\* A copy of the value in a new block each time.
Getenv(name) ==
  /\ IF name \in DOMAIN envVars THEN Give(<<envVars[name] + 1>>, heapPtr)
     ELSE IF name \in DOMAIN EnvDefaults
       THEN Give(<<EnvDefaults[name] + 1>>, heapPtr)
     ELSE Answer(0)
  /\ UNCHANGED libcVars

\* Whether to overwrite is not asked.
Setenv(name, value) ==
  /\ Answer(0)
  /\ envVars' = [n \in DOMAIN envVars \cup {name} |->
                   IF n = name THEN value ELSE envVars[n]]
  /\ UNCHANGED <<localeNameBuf, localeconvBuf, luaStatePtr>>

Unsetenv(name) ==
  /\ Answer(0)
  /\ envVars' = [n \in DOMAIN envVars \ {name} |-> envVars[n]]
  /\ UNCHANGED <<localeNameBuf, localeconvBuf, luaStatePtr>>

Putenv == Answer(0) /\ UNCHANGED libcVars

\* Of -1, the answer for an unknown name, only that it is a large number.
Sysconf == /\ \E v \in {4096, 4, 100, 131072, 999, 1024, Modulus - 1} : Answer(v)
           /\ UNCHANGED libcVars

\* Time stands still, and nobody sleeps.
MockTimeSec == 1704067200

Time == /\ \E v \in {0, 1000000, MockTimeSec} : Answer(v)
        /\ UNCHANGED libcVars

Exit == Stop /\ UNCHANGED libcVars
Atexit == Answer(0) /\ UNCHANGED libcVars

\* Answers of the Lua stubs, a group of them at a time: pushing returns the
\* string it was given, or nothing; every value is nil, of every other type
\* not, and converts to 0; every call and every load succeeds.
LuaNoops == Return /\ UNCHANGED libcVars
LuaStack == (Return \/ Answer(0) \/ Answer(1)) /\ UNCHANGED libcVars
LuaPush(string) == (Return \/ Answer(string)) /\ UNCHANGED libcVars
LuaFields == (Return \/ Answer(0) \/ Answer(1)) /\ UNCHANGED libcVars
LuaTypes == (Answer(0) \/ Answer(1)) /\ UNCHANGED libcVars
LuaConversions == Answer(0) /\ UNCHANGED libcVars
LuaTables == (Return \/ Answer(0)) /\ UNCHANGED libcVars
LuaCalls == Answer(0) /\ UNCHANGED libcVars
LuaAuxiliary(default) ==
  (Return \/ Answer(0) \/ Answer(1) \/ Answer(default)) /\ UNCHANGED libcVars
\* Internal functions that are mocked: an object, or the value object behind
\* it, an empty string where x8 points to, a number or nothing.
MockHook(object, x8) ==
  /\ Return \/ \E v \in {0, 1, object, object + 256, x8} : Answer(v)
  /\ UNCHANGED libcVars
ToluaModules == Return /\ UNCHANGED libcVars
ToluaTypes == (Return \/ Answer(0) \/ Answer(1)) /\ UNCHANGED libcVars

LocaleNext ==
  \/ Setlocale
  \/ Localeconv
  \/ Newlocale
  \/ Uselocale
  \/ Freelocale
  \/ LuaNewstate

EnvironmentNext ==
  \/ \E name \in EnvNames : \/ Getenv(name)
                            \/ Unsetenv(name)
                            \/ \E value \in EnvValues : Setenv(name, value)
  \/ Putenv
  \/ Sysconf
  \/ Time
  \/ Exit
  \/ Atexit

LuaNext ==
  \/ LuaNewstate
  \/ LuaNoops
  \/ LuaStack
  \/ \E v \in FixedSizes : LuaPush(v) \/ LuaAuxiliary(v)
  \/ \E object, x8 \in FixedSizes : MockHook(object, x8)
  \/ LuaFields
  \/ LuaTypes
  \/ LuaConversions
  \/ LuaTables
  \/ LuaCalls
  \/ ToluaModules
  \/ ToluaTypes

LibcTypeOK == /\ {localeNameBuf, localeconvBuf, luaStatePtr} \subseteq Word
              /\ DOMAIN envVars \subseteq EnvNames
              /\ \A n \in DOMAIN envVars : envVars[n] \in EnvValues
=============================================================================
