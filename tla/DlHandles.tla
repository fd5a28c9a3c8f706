----------------------------- MODULE DlHandles -----------------------------
(***************************************************************************)
(* The dynamic linker of android/dl.go: every dlopen succeeds with a new   *)
(* handle, whatever the name, and dlsym finds every symbol, at an address  *)
(* that is a function of the length of its name.                           *)
(***************************************************************************)
EXTENDS StubCalls

CONSTANTS DlFirst,     \* 0x7F000000
          DlStep,      \* 0x1000
          DlsymBase,   \* 0xDEAE0000
          SymbolSizes, \* lengths of the names of symbols
          MaxOpens     \* bound: how often dlopen is called

ASSUME DlAssumption == /\ DlFirst \in Nat \ {0} /\ DlStep \in Nat \ {0}
                       /\ DlsymBase \in Nat /\ MaxOpens \in Nat
                       /\ SymbolSizes \subseteq Nat

VARIABLES nextHandle,
          dlHandles,    \* the handles that are open
          dlLastError,  \* whether there is one
          dlHeld        \* history: the handles the guest has, by the number of
                        \* handles there had been

dlVars == <<nextHandle, dlHandles, dlLastError, dlHeld>>

DlInit == /\ nextHandle = DlFirst
          /\ dlHandles = {}
          /\ dlLastError = FALSE
          /\ dlHeld = <<>>

Dlopen ==
  /\ nextHandle < DlFirst + MaxOpens * DlStep
  /\ Answer(nextHandle)
  /\ nextHandle' = nextHandle + DlStep
  /\ dlHandles' = dlHandles \cup {nextHandle}
  /\ dlLastError' = FALSE
  /\ dlHeld' = [n \in DOMAIN dlHeld \cup {nextHandle} |->
                  IF n = nextHandle THEN nextHandle ELSE dlHeld[n]]

\* Handle 0 is every library's.
Dlsym(handle, size) ==
  /\ IF handle \in dlHandles \cup {0}
       THEN Answer(DlsymBase + 8 * size) /\ UNCHANGED dlLastError
       ELSE Answer(0) /\ dlLastError' = TRUE
  /\ UNCHANGED <<nextHandle, dlHandles, dlHeld>>

Dlclose(handle) ==
  /\ Answer(0)
  /\ dlHandles' = dlHandles \ {handle}
  /\ dlHeld' = [n \in {m \in DOMAIN dlHeld : dlHeld[m] # handle} |-> dlHeld[n]]
  /\ UNCHANGED <<nextHandle, dlLastError>>

\* "invalid handle", once, in a block of its own.
Dlerror == /\ IF dlLastError THEN Give(<<15>>, heapPtr) ELSE Answer(0)
           /\ dlLastError' = FALSE
           /\ UNCHANGED <<nextHandle, dlHandles, dlHeld>>

Dladdr == Answer(0) /\ UNCHANGED dlVars
AndroidLog == (Answer(0) \/ Return) /\ UNCHANGED dlVars

Issued == {DlFirst + n * DlStep : n \in 0..(MaxOpens - 1)}

DlNext == \/ Dlopen
          \/ \E handle \in Issued \cup {0}, size \in SymbolSizes :
               Dlsym(handle, size)
          \/ \E handle \in {dlHeld[n] : n \in DOMAIN dlHeld} : Dlclose(handle)
          \/ Dlerror
          \/ Dladdr
          \/ AndroidLog

DlTypeOK == /\ nextHandle \in Issued \cup {DlFirst + MaxOpens * DlStep}
            /\ dlHandles \subseteq Issued
            /\ dlLastError \in BOOLEAN
            /\ \A n \in DOMAIN dlHeld : dlHeld[n] \in Issued

\* The libraries the guest has open have handles of their own
\* (android/dl.go:29-97).
DlTable == INSTANCE HandleTable WITH
             Taken <- {}, handles <- dlHeld, exhausted <- FALSE
=============================================================================
