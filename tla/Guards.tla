------------------------------- MODULE Guards -------------------------------
(***************************************************************************)
(* Static initialisation and the other hooks of cxxabi/exception.go.  The  *)
(* guards are in a table of the process, by address: nothing is written to *)
(* the guest's guard variables, so the guest asks before every use.  The   *)
(* table outlives an emulator unless ClearGuardState is called, and        *)
(* nothing in the repository calls it.                                     *)
(***************************************************************************)
EXTENDS StubCalls

CONSTANTS GuardVars    \* addresses of guard variables

VARIABLES guardState,   \* the guards that have been released
          initialising, \* guest: the initialisers that are running, nested
          inited,       \* guest: the statics that have been initialised
          ranTwice,     \* history: some static was initialised again
          trusted,      \* history: the statics the guest uses as initialised
          careful       \* history: every emulator began with a cleared table

guardVars == <<guardState, initialising, inited, ranTwice, trusted, careful>>

NothingInitialised == /\ initialising = <<>>
                      /\ inited = {}
                      /\ ranTwice = FALSE
                      /\ trusted = {}

GuardInit == /\ guardState = {}
             /\ NothingInitialised
             /\ careful = TRUE

Nested == {initialising[i] : i \in DOMAIN initialising}

\* A variant in which a guard counts as released from the acquire on.
GuardAcquireMarks(g) ==
  /\ guardState' = guardState \cup {g}
  /\ IF g \in guardState
       THEN /\ Answer(0)
            /\ trusted' = trusted \cup {g}
            /\ UNCHANGED initialising
       ELSE /\ Answer(1)
            /\ initialising' = Append(initialising, g)
            /\ UNCHANGED trusted
  /\ UNCHANGED <<inited, ranTwice, careful>>

\* 0 tells the guest to use the static, 1 to initialise it first.  An
\* initialiser does not come back to its own guard.
GuardAcquire(g) ==
  /\ IF g \in guardState
       THEN /\ Answer(0)
            /\ trusted' = trusted \cup {g}
            /\ UNCHANGED initialising
       ELSE /\ Answer(1)
            /\ initialising' = Append(initialising, g)
            /\ UNCHANGED trusted
  /\ UNCHANGED <<guardState, inited, ranTwice, careful>>

Innermost == initialising[Len(initialising)]

Outer == SubSeq(initialising, 1, Len(initialising) - 1)

\* The innermost initialiser is done, or has given up.
GuardRelease ==
  /\ initialising # <<>>
  /\ Return
  /\ guardState' = guardState \cup {Innermost}
  /\ initialising' = Outer
  /\ inited' = inited \cup {Innermost}
  /\ ranTwice' = (ranTwice \/ Innermost \in inited)
  /\ UNCHANGED <<trusted, careful>>

GuardAbort == /\ initialising # <<>>
              /\ Return
              /\ initialising' = Outer
              /\ UNCHANGED <<guardState, inited, ranTwice, trusted, careful>>

\* An exception ends the emulation where it is thrown: no handler is found
\* and no guard aborted.
CxaThrow == Stop /\ UNCHANGED guardVars
CxaBadCalls == Stop /\ UNCHANGED guardVars
CxaPureVirtual == Stop /\ UNCHANGED guardVars
UnwindResume == Stop /\ UNCHANGED guardVars

\* The rest answers its argument, a constant or nothing.
CxaCatch(exception) == (Answer(exception) \/ Return) /\ UNCHANGED guardVars
CxaCurrentException(exception) ==
  (Answer(exception) \/ Answer(0) \/ Return) /\ UNCHANGED guardVars
CxaAtexit == (Answer(0) \/ Return) /\ UNCHANGED guardVars
Unwind(pc) ==
  (Return \/ \E v \in {0, 5, 8, pc} : Answer(v)) /\ UNCHANGED guardVars
DynamicCast(source) == Answer(source) /\ UNCHANGED guardVars

GuardNext ==
  \/ \E g \in GuardVars \ Nested : GuardAcquire(g)
  \/ GuardRelease
  \/ GuardAbort
  \/ CxaThrow
  \/ CxaBadCalls
  \/ CxaPureVirtual
  \/ UnwindResume
  \/ \E v \in FixedSizes : \/ CxaCatch(v)
                           \/ CxaCurrentException(v)
                           \/ DynamicCast(v)
                           \/ Unwind(v)
  \/ CxaAtexit

GuardTypeOK == /\ guardState \subseteq GuardVars
               /\ initialising \in Seq(GuardVars)
               /\ inited \subseteq GuardVars
               /\ ranTwice \in BOOLEAN
               /\ trusted \subseteq GuardVars
               /\ careful \in BOOLEAN

\* The guest never uses a static that has not been initialised in its own
\* memory, and initialises none twice, whichever way initialisers nest, give
\* up or are cut short by an exception - as long as the table of guards is
\* cleared with every emulator (cxxabi/exception.go:12-16, 145-176, 284-289).
StaticsInitialised == careful => trusted \subseteq inited /\ ~ranTwice
=============================================================================
