--------------------------- MODULE GuestServices ---------------------------
(***************************************************************************)
(* The services the stubs offer to a guest, on one heap and in one         *)
(* process: what one of them allocates is beside what the others do, and   *)
(* what the packages remember is still there when the next emulator is     *)
(* created.  A guest calls the services its binary imports, in any order.  *)
(***************************************************************************)
EXTENDS JniEnv, Descriptors, Pthread, Guards, DlHandles, Network, LibcServices

CONSTANTS Programs    \* sets of services, one for each guest program

VARIABLES imports     \* the services the guest's binary imports

ServicesInit == /\ CallInit
                /\ JniInit
                /\ FdInit
                /\ PthreadInit
                /\ GuardInit
                /\ DlInit
                /\ NetInit
                /\ LibcInit
                /\ imports \in Programs

servicesVars == <<callVars, jniVars, fdVars, pthreadVars, guardVars, dlVars,
                  netVars, libcVars, imports>>

UseHeap == /\ "heap" \in imports
           /\ GiveBlock(Request)
           /\ UNCHANGED <<jniVars, fdVars, pthreadVars, guardVars, dlVars,
                          netVars, libcVars, imports>>

UseJni == /\ \/ "jni" \in imports /\ JniLookups
             \/ "jni objects" \in imports /\ JniObjects
          /\ UNCHANGED <<fdVars, pthreadVars, guardVars, dlVars, netVars,
                         libcVars, imports>>

UseDescriptors == /\ \/ "descriptors" \in imports /\ FdNext
                     \/ "files" \in imports /\ FileCalls
                  /\ UNCHANGED <<jniVars, pthreadVars, guardVars, dlVars, netVars,
                                 libcVars, imports>>

UsePthread == /\ \/ "threads" \in imports /\ ThreadNext
                 \/ "tls" \in imports /\ TlsNext
              /\ UNCHANGED <<jniVars, fdVars, guardVars, dlVars, netVars,
                             libcVars, imports>>

UseGuards == /\ "cxxabi" \in imports
             /\ GuardNext
             /\ UNCHANGED <<jniVars, fdVars, pthreadVars, dlVars, netVars,
                            libcVars, imports>>

UseDl == /\ "dl" \in imports
         /\ DlNext
         /\ UNCHANGED <<jniVars, fdVars, pthreadVars, guardVars, netVars,
                        libcVars, imports>>

UseNetwork == /\ "network" \in imports
              /\ NetNext
              /\ UNCHANGED <<jniVars, fdVars, pthreadVars, guardVars, dlVars,
                             libcVars, imports>>

UseLibc == /\ \/ "locale" \in imports /\ LocaleNext
              \/ "environment" \in imports /\ EnvironmentNext
              \/ "lua" \in imports /\ LuaNext
           /\ UNCHANGED <<jniVars, fdVars, pthreadVars, guardVars, dlVars,
                          netVars, imports>>

\* The next guest of the process: its memory is new, so is its JNIEnv; the
\* counters and tables of the packages go on.  The library's user may clear
\* the guards.
NextGuest ==
  /\ NewEmulator
  /\ nextRef' = [c \in Counters |-> 0]
  /\ refs' = <<>> /\ jniStrings' = <<>> /\ madeStrings' = <<>>
  /\ arrayLength' = <<>>
  /\ held' = <<>> /\ ahead' = FALSE
  /\ threads' = <<>>
  /\ keyVar' = [v \in 1..KeyVars |-> 0]
  /\ created' = {} /\ stored' = [v \in 1..KeyVars |-> 0] /\ spoiled' = FALSE
  /\ initialising' = <<>> /\ inited' = {} /\ ranTwice' = FALSE /\ trusted' = {}
  /\ \/ guardState' = {} /\ UNCHANGED careful
     \/ careful' = FALSE /\ UNCHANGED guardState
  /\ dlHeld' = <<>>
  /\ sockaddrs' = <<>> /\ hostAddrs' = <<>>
  /\ UNCHANGED <<nextFileFD, openFiles, nextFD, socketFD, nextThreadID,
                 nextTLSKey, tlsData, onceFlags, nextHandle, dlHandles,
                 dlLastError, captured, meant, libcVars, imports>>

ServicesNext == \/ UseHeap
                \/ UseJni
                \/ UseDescriptors
                \/ UsePthread
                \/ UseGuards
                \/ UseDl
                \/ UseNetwork
                \/ UseLibc
                \/ NextGuest

ServicesSpec == ServicesInit /\ [][ServicesNext]_servicesVars

-----------------------------------------------------------------------------
\* Types.
ServicesTypeOK == /\ CallTypeOK
                  /\ JniTypeOK
                  /\ FdTypeOK
                  /\ PthreadTypeOK
                  /\ GuardTypeOK
                  /\ DlTypeOK
                  /\ NetTypeOK
                  /\ LibcTypeOK
                  /\ imports \in Programs

(***************************************************************************)
(* The guests for which no size a stub computes wraps: the condition under *)
(* which what the heap promises is a theorem about all the services.       *)
(***************************************************************************)
SmallGuests ==
  /\ SmallRequests
  /\ \A n \in {256} \cup JniTexts \cup JniLengths \cup EnvValues
             \cup {EnvDefaults[name] : name \in DOMAIN EnvDefaults} :
       HeapEnd + n + 256 <= Modulus

\* Whatever numbers things for the guest - JNI references, descriptors of
\* files and sockets, threads, libraries - implements the abstract table of
\* handles, each as far as its numbers go (the theorems and JniTable,
\* FdTable, ThreadTable and DlTable say how far).
HandlesSpec == /\ JniTable!Spec
               /\ FdTable!Spec
               /\ ThreadTable!Spec
               /\ DlTable!Spec
=============================================================================
