---------------------------- MODULE Descriptors ----------------------------
(***************************************************************************)
(* The two tables descriptors come from: libc/fileio.go numbers files from *)
(* FileBase, network/socket.go sockets from SocketBase, and neither knows  *)
(* the other's.  close is the network package's and forgets sockets only:  *)
(* freeFileFD has no caller.  dup2 and dup3 answer the number the guest    *)
(* chose and note it nowhere.                                              *)
(***************************************************************************)
EXTENDS StubCalls

CONSTANTS FileBase,       \* 10
          SocketBase,     \* 100
          ChosenFDs,      \* the numbers a guest passes to dup2
          Paths,          \* what files are opened under
          MaxDescriptors  \* bound: how many descriptors are handed out

ASSUME DescriptorsAssumption ==
  /\ FileBase \in Nat /\ SocketBase \in Nat /\ MaxDescriptors \in Nat
  /\ FileBase < SocketBase
  /\ ChosenFDs \subseteq Nat

VARIABLES nextFileFD,
          openFiles,    \* the path of each file descriptor
          nextFD,
          socketFD,     \* the sockets that are open
          held,         \* history: the descriptors the guest has, by how it
                        \* came by them
          ahead         \* history: dup2 was asked for a number that one of
                        \* the counters has still to reach

fdVars == <<nextFileFD, openFiles, nextFD, socketFD, held, ahead>>

FdInit == /\ nextFileFD = FileBase
          /\ openFiles = <<>>
          /\ nextFD = SocketBase
          /\ socketFD = {}
          /\ held = <<>>
          /\ ahead = FALSE

HandedOut == (nextFileFD - FileBase) + (nextFD - SocketBase)

With(f, x, v) == [y \in DOMAIN f \cup {x} |-> IF y = x THEN v ELSE f[y]]

Without(f, v) == [y \in {z \in DOMAIN f : f[z] # v} |-> f[y]]

HeldFDs == {held[t] : t \in DOMAIN held}

\* A variant with one counter that is not moved past what it hands out.
AllocFileFDFromSockets(path) ==
  /\ HandedOut < MaxDescriptors
  /\ nextFileFD' = nextFileFD + 1
  /\ openFiles' = With(openFiles, nextFD, path)
  /\ held' = With(held, <<"file", nextFileFD>>, nextFD)
  /\ UNCHANGED <<nextFD, socketFD, ahead>>

\* allocFileFD: the number is taken, whatever becomes of the answer.
AllocFileFD(path) ==
  /\ HandedOut < MaxDescriptors
  /\ nextFileFD' = nextFileFD + 1
  /\ openFiles' = With(openFiles, nextFileFD, path)
  /\ held' = With(held, <<"file", nextFileFD>>, nextFileFD)
  /\ UNCHANGED <<nextFD, socketFD, ahead>>

\* open, openat and creat answer a descriptor for any path at all.
Open(path) == AllocFileFD(path) /\ Answer(nextFileFD)

Mkstemp == AllocFileFD("/tmp/tmp.123456") /\ Answer(nextFileFD)

PathOf(fd) == IF fd \in DOMAIN openFiles THEN openFiles[fd] ELSE ""

Dup(fd) == AllocFileFD(PathOf(fd)) /\ Answer(nextFileFD)

\* The guest has newfd from now on, and no longer what newfd was before.
Dup2(newfd) ==
  /\ Answer(newfd)
  /\ held' = With(Without(held, newfd), <<"dup2", newfd>>, newfd)
  /\ ahead' = (ahead \/ newfd \in nextFileFD..(SocketBase - 1)
                     \/ newfd >= nextFD)
  /\ UNCHANGED <<nextFileFD, openFiles, nextFD, socketFD>>

\* pipe writes two descriptors to the guest's array.
Pipe ==
  /\ HandedOut + 1 < MaxDescriptors
  /\ Answer(0)
  /\ nextFileFD' = nextFileFD + 2
  /\ openFiles' = With(With(openFiles, nextFileFD, "pipe[0]"),
                       nextFileFD + 1, "pipe[1]")
  /\ held' = With(With(held, <<"file", nextFileFD>>, nextFileFD),
                  <<"file", nextFileFD + 1>>, nextFileFD + 1)
  /\ UNCHANGED <<nextFD, socketFD, ahead>>

\* allocFD: socket, accept and epoll_create.
AllocFD ==
  /\ HandedOut < MaxDescriptors
  /\ Answer(nextFD)
  /\ nextFD' = nextFD + 1
  /\ socketFD' = socketFD \cup {nextFD}
  /\ held' = With(held, <<"socket", nextFD>>, nextFD)
  /\ UNCHANGED <<nextFileFD, openFiles, ahead>>

Socket == AllocFD
Accept == AllocFD
EpollCreate == AllocFD

Close(fd) == /\ Answer(0)
             /\ socketFD' = socketFD \ {fd}
             /\ held' = Without(held, fd)
             /\ UNCHANGED <<nextFileFD, openFiles, nextFD, ahead>>

\* What is answered without a look at any table: everything is written,
\* nothing is ever read, every path exists and every call succeeds.
ReadsAndWrites(count) == (Answer(count) \/ Answer(0)) /\ UNCHANGED fdVars
StatAndAccess == Answer(0) /\ UNCHANGED fdVars
MapCalls == Answer(0) /\ UNCHANGED fdVars
DirectoryCalls == (Answer(0) \/ Return) /\ UNCHANGED fdVars
PathCalls == Answer(0) /\ UNCHANGED fdVars
Readlink(length) == Answer(length) /\ UNCHANGED fdVars
Chmod == Answer(0) /\ UNCHANGED fdVars
FcntlFile == Answer(0) /\ UNCHANGED fdVars
Truncate == (Answer(0) \/ Return) /\ UNCHANGED fdVars
Mkdtemp(template) == Answer(template) /\ UNCHANGED fdVars
Umask == Answer(18) /\ UNCHANGED fdVars
SocketCalls == Answer(0) /\ UNCHANGED fdVars
Send(count) == Answer(count) /\ UNCHANGED fdVars

\* Those that allocate what they answer, unless the guest has a buffer for it.
Filled(buffer, size) == IF buffer = 0 THEN Give(<<size>>, heapPtr) ELSE Answer(buffer)

Getcwd(buffer) == Filled(buffer, 19) /\ UNCHANGED fdVars
Realpath(buffer, length) == Filled(buffer, length + 1) /\ UNCHANGED fdVars
Opendir == Give(<<64>>, heapPtr) /\ UNCHANGED fdVars
Tmpfile == Give(<<256>>, heapPtr) /\ UNCHANGED fdVars

FdNext ==
  \/ \E path \in Paths : Open(path)
  \/ Mkstemp
  \/ \E fd \in HeldFDs : Dup(fd) \/ Close(fd)
  \/ HeldFDs # {} /\ \E newfd \in ChosenFDs : Dup2(newfd)
  \/ Pipe
  \/ Socket
  \/ HeldFDs # {} /\ Accept
  \/ EpollCreate

FileCalls ==
  \/ \E n \in FixedSizes : \/ ReadsAndWrites(n)
                           \/ Send(n)
                           \/ Readlink(n)
                           \/ Mkdtemp(n)
  \/ \E buffer \in {0} \cup FixedSizes : \/ Getcwd(buffer)
                                         \/ Realpath(buffer, 3)
  \/ StatAndAccess
  \/ MapCalls
  \/ DirectoryCalls
  \/ PathCalls
  \/ Chmod
  \/ FcntlFile
  \/ Truncate
  \/ Umask
  \/ SocketCalls
  \/ Opendir
  \/ Tmpfile

FdTypeOK == /\ nextFileFD \in FileBase..(FileBase + MaxDescriptors)
            /\ nextFD \in SocketBase..(SocketBase + MaxDescriptors)
            /\ DOMAIN openFiles = FileBase..(nextFileFD - 1)
            /\ socketFD \subseteq SocketBase..(nextFD - 1)
            /\ held \in [DOMAIN held -> Nat]
            /\ ahead \in BOOLEAN

\* The descriptors the guest has open are told apart by their numbers, files
\* and sockets alike, until the files have reached the sockets' numbers or
\* dup2 has taken a number that is still to be handed out
\* (libc/fileio.go:134-189, 330-373, network/socket.go:118-134, 171-177,
\* 218-226).
FdTable == INSTANCE HandleTable WITH
             Taken <- {}, handles <- held,
             exhausted <- ahead \/ nextFileFD > SocketBase
=============================================================================
