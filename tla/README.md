# galago in TLA+

galago runs native ARM64 Android libraries in a CPU emulator (Unicorn) until
they hand over the keys they encrypt assets with. One process loads one ELF
file, replaces what the library would call outside itself by stubs, starts the
guest at an entry point, prints a trace line for each instruction and, when the
guest stops, the keys that were captured.

This directory holds TLA+ modules of the parts whose correctness depends on
orders of events, on tables that outlive what they describe or on arithmetic at
a boundary; TLC configurations that check them; and proofs of their main
theorems, checked by TLAPS. `PROJECT.json` maps each definition to the lines it
was translated from and lists components, runs, hazards and theorems. Paths below
are relative to `src/`.

## 1. Inventory

### Components

| component | code | state it keeps | operations |
|---|---|---|---|
| Trace printer | `cmd/galago/main.go` 95-140 | channel of 2048 lines, 64K buffer, ticker, `done` | `Write`, `Close`, goroutine `run` |
| Trace session | `cmd/galago/main.go` 76-93, 213-593; `emulator.go` 529-557, 748-814 | collector, counters, `stopped`, block state, captured keys | header, address hook, code hook, run, stop, close, report |
| Guest heap | `emulator.go` 731-745 and every stub that calls `Malloc` | `heapPtr` | `Malloc`; `free` and its kin do nothing |
| Memory layout, mock objects | `emulator.go` 13-28, 116-526 | mapped regions, vtables of mock objects, 768 hooks | set up once by `New` |
| ELF loader | `elf.go` 58-459 | symbols, imports, PLT symbols, memory | `LoadELFAt`, `applyRelocations`, `addPLTSymbols` |
| Entry point | `elf.go` 459-586 | none | `FindJNIOnLoad`, `FindEntryPoint` |
| Vtable map | `vtable.go` | ranges, slots, resolved functions | `BuildVTableMap`, look-ups |
| Stub registry | `stubs/registry.go` | stubs, detectors, `activated`, `emu` | `Register*`, `Install`, `checkDetectors`, `Log` |
| Detectors | `stubs/setters`, `stubs/internal`, `stubs/jni`, `stubs/cxxabi/string.go` | per detector, see below | `Activate` |
| Key setters and capture | `stubs/setters/cocos.go` | `capturedKeys`, callback | hooks of the setters, `CaptureKeyDirect` |
| JNI environment | `stubs/jni/jni.go` | `currentEnv`, tables of strings, classes, methods, fields | 230 table entries |
| pthread stubs | `stubs/pthread` | next thread id, TLS keys and values, once flags | create, key_create, setspecific, once, ... |
| C++ ABI | `stubs/cxxabi` | guard table; strings in guest memory | guards, exceptions, `std::string` |
| libc stubs | `stubs/libc` | descriptors, file positions, cached buffers, RNG | files, memory, strings, time |
| Network stubs | `stubs/network` | sockets, captured hosts, resolver buffers | socket, connect, getaddrinfo, ... |
| Android stubs | `stubs/android` | `dlopen` handles | dlopen, dlsym, dlerror, logging |
| Lua stubs | `stubs/lua`, `stubs/tolua` | the Lua state pointer | constants, allocations |
| Output | `internal/trace`, `internal/log`, `internal/ui` | none | tags, colours |
| Earlier stubs | `stubs/libc.go`, `cxxabi.go`, `jni.go` | | used by tests only |

### How they interact

`runTrace` creates the emulator, loads the file, lets the registry install
hooks (`Registry.Install` calls `Emulator.HookAddress`), adds hooks for vtable
slots and starts the guest. Unicorn then calls `setupHooks` synchronously
before each instruction: first the hook stored for the address, which reads
registers and guest memory, may allocate from the heap, may log an event (the
registry's `OnCall` appends it to the collector) or capture a key; then the
code hook, which takes what was collected and offers a line to the printer.
All of this is one goroutine. The printer's goroutine is the only other one; it
shares the channel and `done` with the first, and stdout, which the report uses
after `Close`. Most stubs keep package variables, which outlive the emulator.

### What is hard, and what makes each part correct

- **Concurrency** exists between the emulation and the printer only. Correct:
  stdout shows accepted lines in order; `Close` returns, and only with
  everything flushed; drops happen only when the printer is a whole channel
  behind; stdout failing does not hang the command.
- **Callbacks in a fixed order.** Correct: an event is shown with the
  instruction that caused it, exactly once; a callback after `Stop` does
  nothing; all keys are reported in order, with their signatures.
- **Passes over maps in random order, several writers of one hook table.**
  Correct: after `Install` no import is without a hook; stubs win over
  fallbacks; the detector meant to win does; nothing depends on map order that
  should not.
- **State that outlives its emulator**: activated detectors, `currentEnv`,
  guards, the Lua state, locale buffers. Correct: an installation on a new
  emulator starts anew.
- **Widths and limits**: heap pointer modulo 2^64, reference ranges in the JNI
  tables, descriptor ranges that grow into each other, `maxInsn`. Correct:
  blocks handed out are disjoint and inside the heap; references and
  descriptors identify one thing.
- **Two readings of one format**: loader and vtable map both interpret
  relocations. Correct: they agree on what a slot holds.
- **Bytes written by one stub and parsed by another**: addresses and ports, in
  two byte orders. Correct: what is captured is what the guest means.
- **Nothing** is persisted, and there is no network, no retry and no timeout.
  A panic in a hook is the one crash the code has; it cannot be recovered from.

`PROJECT.json`, "hazards", lists each at its line with the properties that
would catch it.

## 2. Modules

| module | what it is |
|---|---|
| `LossyLog` | abstract: a log that may refuse lines when behind and shows a growing prefix of what it accepted |
| `OutputWriter` | the printer: caller, channel, ticker, goroutine, `bufio.Writer`, stdout |
| `OutputWriterProofs` | its theorems |
| `FreshBlocks` | abstract: blocks that never overlap, then nothing |
| `Heap` | `Malloc` and the stubs that call it, with arithmetic modulo the register width |
| `HeapProofs` | its theorems |
| `StubCalls` | what every hook does: answer, return, stop, allocate once or several times; the next emulator of a process |
| `HandleTable` | abstract: things are told apart by their numbers and keep them, until the numbers run out |
| `JniEnv` | the handlers of the JNIEnv and the JavaVM, references of four kinds |
| `Descriptors` | files, sockets, pipes and what is done with their numbers |
| `Pthread` | thread ids, thread-local data, once controls, locks |
| `Guards` | static initialisation, exceptions and the calls that stop the emulation |
| `DlHandles` | `dlopen` and its kin |
| `Network` | resolver, addresses, captured hosts |
| `LibcServices` | locale, environment, time, Lua and mocked internal functions |
| `GuestServices` | all of these on one heap and in one process |
| `ServicesProofs` | the theorems about `GuestServices` |
| `Registry` | `Install`, `checkDetectors`, activation and the hook table of each emulator |
| `RegistryProofs` | its theorems |
| `Session` | `runTrace` and `setupHooks`, composed with `OutputWriter` |
| `SessionProofs` | its theorems, on top of `OutputWriterProofs` |
| `ElfLoader` | `LoadELFAt` and what it calls, `BuildVTableMap`, `FindEntryPoint` |
| `ElfLoaderProofs` | its theorems |
| `KeyCapture` | `std::string` in guest memory and every kind of hook that captures keys |
| `KeyCaptureProofs` | its theorems |
| `LibcStrings` | the string, memory and printf functions, and what C says of them |
| `CharClasses` | character classes as functions and as the table `_ctype_` |
| `WideStrings` | wide strings and conversions, in the memory of `LibcStrings` |
| `LibcProofs` | theorems about `LibcStrings`, `CharClasses` and `WideStrings` |
| `MC*` | instances for TLC |

`GuestServices` EXTENDS the seven services, which all EXTEND `StubCalls` and,
through it, `Heap`: the state of each is disjoint from the others', the heap,
`x0` and `stopped` are common. `WideStrings` EXTENDS `LibcStrings` and
`CharClasses`. `Session` contains `W == INSTANCE OutputWriter`: its steps that print are
`W!Write`, its close is `W!CloseChannel` and `W!AwaitDone`, and the printer's
goroutine runs between any two of them.

### OutputWriter (`cmd/galago/main.go` 95-140)

The caller may `Write`, `CloseChannel` and `AwaitDone` (the two halves of
`Close`), or die in a `Panic`. `Write` is the `select` with `default`: it either
appends to `ch` or counts the line as dropped. The goroutine is a small state machine, `runner`:
in `"select"` it may `Receive`, `FlushOnTick` or `Finish`; after a receive it writes
the text and then the newline, two calls (`WriteText`, `WriteNewline`). A line
on stdout is therefore two parts. `Put` and `Flush` are `bufio.Writer` as the
code uses it: a full buffer is written out first, an error may leave any prefix
written and stays (`werr`). A ticker holds at most one tick. `accepted` and
`dropped` are history.

### Heap (`emulator.go` 731-745 and callers)

`Malloc(n, size)`: `n` is what the emulator is asked for, `size` what the guest
asked the stub for. Each stub is an action with its own way from one to the other: `malloc`, `new`
and `realloc` round up first, `calloc` multiplies modulo 2^64,
`__cxa_allocate_exception` adds a header, and so on. The pointer is moved before it
is checked, so a panic leaves it moved. Only addresses and sizes are modelled.

### Guest services (`stubs/jni`, `pthread`, `cxxabi/exception.go`, `libc/fileio.go`, `libc/locale.go` and others, `network`, `android`, `lua`, `tolua`, `internal/mock.go`)

A hook runs to its end before the guest goes on, so every hook is one action,
made of the operators of `StubCalls`: `Answer` leaves a value in `x0`, `Return`
leaves `x0` alone, `Stop` ends the emulation, `Give` calls `Malloc` for each of a
list of sizes, any of which may panic, with nothing after the panic done. A guest
is a set of services its binary imports (`imports`, one of `Programs`), and calls
their hooks in any order with the arguments a guest can have: descriptors it was
given, references it was given, its own variables. `NextGuest` is
`emulator.New` in the same process: the guest's memory and everything the guest
knew is gone, the package variables of the stubs stay, and whether the
library's user calls `ClearGuardState` is left open (`careful` records it).

- `JniEnv`: four counters (`nextRef`) for six kinds of reference, static and
  instance methods and fields sharing theirs; the tables `refs` (one key stands
  for name and signature) and `jniStrings`. Offsets of the kinds keep the
  code's order.
- `Descriptors`: `nextFileFD` and `nextFD` with their tables; `held` is history, what
  the guest has open, `ahead` whether `dup2` took a number that is still to come.
- `Pthread`: `keyVar` is guest memory; `pthread_key_create` writes 8 bytes into
  a variable of 4, and clears the next (`WriteKey`, `spoiled`).
- `Guards`: the table, and the guest's side: which initialisers run, nested, and
  what they have initialised. Throwing stops the emulation in the middle.
- `Network`: addresses are sequences of bytes; the stubs' are written as the code
  writes numbers, the guest's with `htons`; `meant` is what the guest takes
  them for. An address a stub has put into a sockaddr is meant as what the stub
  says it is, 127.0.0.1 and port 80, whatever bytes it wrote; `meant` records
  which those are (`fromStub`).
- `LibcServices`: buffers that are allocated once a process, the environment;
  those that answer constants are grouped by what they can answer.

`HandleTable` is the abstract specification of whoever names things by numbers.
`JniTable`, `FdTable`, `ThreadTable` and `DlTable` are its instances, with what is
named, what is taken and when the numbers are exhausted.

### Registry (`stubs/registry.go` 184-287)

A binary is its two maps, imports and symbols. `BeginInstall` binds the
registry to an emulator (and forgets activated detectors if it is another one),
then detectors are visited in order (`SkipDetector`, `ActivateDetector`), then
stubs over imports, stubs over symbols, fallbacks. Each pass ranges over a Go
map; `HookAll` leaves open which of several names of one address is hooked
last. Which names a detector recognises is a constant; so is what the loader
guarantees about the maps (`IsELFInfo`: a PLT entry has one name). Each
detector is registered once.

### Session (`cmd/galago/main.go` 418-593, `emulator.go` 529-557)

`pos` follows `runTrace`. In `"guest"` the next instruction calls back:
`Callback(h)` runs an address hook of kind `h` (how many events it logs, which
keys it captures, whether it is a vtable hook, whether it stops the guest), then
`CodeHook` counts the instruction and takes the collected events, then
`PrintLine` and perhaps `PrintBlank` offer lines. Unicorn may call back once
more after `Stop`; the code's test of `stopped` is the guard. `RunReturns` is
`RunFrom` returning for any reason. Calls to the printer are the operations on
its channel, without asking whether the caller should make them: a line offered to
a closed channel and a second `close` panic, as in Go, and `Survived` is where
`runTrace` goes on if they do not. That this does not happen is a property of the
session's order (`PrinterSpec`). The report is a loop over the keys: a turn is
`ReportKey`, which prints one key, or an xxtea key with its signature, and moves
`next` past them; `ReportEnds` leaves it. Plain, quiet and verbose runs are chosen
in `Init`.

### ElfLoader (`internal/emulator/elf.go` 58-586, `vtable.go` 36-230)

`stage` follows `LoadELFAt`: symbols are read (`ReadSymbols`), segments mapped,
written and their .bss cleared one by one (`LoadSegment`, which may fail),
PLT entries entered in both maps (`AddPLTSymbols`), relocations applied one by
one (`Relocate`), the vtable map built from the same relocations
(`BuildVTableMap`), empty strings put into globals (`InitStringGlobals`); then
`FindEntryPoint` chooses. Memory is words: a PLT entry is two of them, a vtable
begins with two. `Resolved` is the loader's reading of a relocation,
`VTableResolved` the other one. Choices that depend on the order of a Go map are
left open. What linkers guarantee of a file is in `IsELF`; what is asked of names
(prefixes, substrings, priorities) is given by constants. Only `.rela.dyn` and
`.rela.plt`, in this order, and addends that are not negative are modelled.
Names carry no version suffix, so that stripping it is left out.
`ImportsAreSymbols` is what `Registry` assumes of a binary.

### KeyCapture (`stubs/cxxabi/string.go`, `stubs/setters/cocos.go`, `cmd/galago/main.go` 595-672)

The guest assigns, clears and writes into `std::string` objects (`StringAssign`,
`StringClear`, `StringIndex`: the stubs, and the store the guest makes through
the pointer `operator[]` returns), then calls one setter. Every call is
`CallSetter` with the registers the calling convention gives it; registers after
the arguments hold leftovers. `Hook` picks what the registry installed for that
kind of name: `XXTeaHook`, `StdStringSetterHook`, `GenericKeyHook` or, behind
a vtable slot, `VtableStubHook`. Each is the code's list of attempts in its
order (`FirstFound`), and appends to `capturedKeys`.

Memory is scaled down with everything the code compares kept: a cell is a byte, a
word two cells, an object three words, so that a string inside the object has
at most four characters instead of 22; printable values, lengths, pointers and
heap addresses are ranges of numbers that overlap as they do in the code. One
`Window` stands for the three bounds on C strings (128, 256, 4096), and texts
are shorter than it: what happens to keys of more than 127 bytes is left out.
`content` is history, what the guest made of each object; `tracked` is the
code's own record, which `clear` does not change. The end of the heap is a guard
(`Heap` has the panic).

What the constants are assumed to be is what the code's numbers are: objects lie
apart, off the heap, constructed empty, with room for a window behind them; the
heap is smaller than its own address, so no capacity passes for a pointer; and
the upper bytes of a heap pointer are no text (0x90 and zeros in the code). `call.clean`
records that the registers behind the arguments point at no text, which the claims
about what is not captured need, and those about what is do not.

### LibcStrings (`stubs/libc/string.go`, `stubs/libc/printf.go` 87-183)

One operator per stub, from its arguments and memory to an outcome: memory, x0,
the heap pointer, or a panic. A behaviour is one call. What memory is read
through is what the code reads through (`MemReadString`, a window that must be
mapped as a whole; a Go string; one write, with the terminator): the reference
(`CStr`, `CPart`, `Wrote`, `CompareAsC`, `Found`) looks at single cells of
memory before the call. Of `strdup` and `strndup` C's promise needs room in the heap
(`HeapHas`). `asprintf` is left out; it is `strdup` of the
format and a pointer stored.

### CharClasses and WideStrings (`stubs/libc/locale.go` 184-694, `emulator.go` 184-229)

The wide functions are loops that read and write memory one character after the
other, so an overlapping copy reads what it has written (`CopyWide` is the memory
after each round). A wide character is two cells of `Radix` values instead of four
of 256. The reference is again about single cells of memory before the call.
Character classes are compared with the flags of `_ctype_` in guest memory
under the tests bionic's inline functions make (`ByTable`).

## 3. What is checked

| run | checks | shows |
|---|---|---|
| `writer` | `TypeOK`, `StdoutInOrder`, `NothingLeftAfterClose`, `DropsOnlyWhenBehind`, `CloseReturns`, `AcceptedIsShown`, `LogSpec` | in every interleaving, with spills, failing stdout and a panic, stdout is a prefix of the accepted lines; after `Close` all of them; `Close` returns; accepted lines appear without waiting for it; the printer implements `LossyLog` with its liveness |
| `services` | `ServicesTypeOK`, `BlocksDisjoint`, `TlsReadsBack`, `StaticsInitialised`, `CapturedAsMeant`, `FreshBlocksSpec`, `HandlesSpec` | whatever hooks a guest calls, and whichever allocate, blocks are disjoint and the heap implements `FreshBlocks`; threads, libraries, descriptors and JNI objects each implement `HandleTable`; thread-local data reads back, also on a second emulator; statics are initialised before they are used, and once; hosts are captured in order with the names, ports and addresses the guest meant, except for the address in a stub's sockaddr |
| `hosts_resolved` | `ResolvedAsMeant`, **violated** | finding 5: that address |
| `heap_wrap` | `BlocksInHeap`, **violated** | finding 1 |
| `registry_safety` | `TypeOK`, `ImportsCovered`, `InternalHooksSurvive`, `DetectorsMatchBinary`, `JniEnvOfCurrent` | three binaries on two emulators in any order: imports covered, right detector wins on internal functions, detectors and JNI environment follow the emulator |
| `registry_imports` | `ClaimedImportsHooked`, **violated** | finding 2 |
| `session` | `TypeOK`, `EventsOnTheirLine`, `EventsAccounted`, `EveryInstructionShown`, `KeysReported`, `ReportAfterTrace`, `StopIsFinal`, `StoppedIsReported`, `PrinterSpec` | events belong to their line, none lost or doubled; nothing after `Stop`; keys complete and in order; a stopped guest is reported, after the printer has left stdout, also when stdout fails; the session's calls never panic in the printer and are those `OutputWriter` expects of a caller (no line after `Close`, one `Close`, two lines an instruction) |
| `loader_safety` | `TypeOK`, `PointersMatchNames`, `SlotsAgree`, `FileContentKept`, `ImportsAreSymbols`, `EntryIsBest` | pointers in memory and the maps of names agree; vtable map and memory agree on slots of the file's own symbols; the rest of memory is the file's content; imports are what `Registry` assumes; the best entry point is taken whatever the order of the maps |
| `loader_got` | `GotResolved`, **violated** | finding 3 |
| `keys` | `TypeOK`, `StringsReadBack`, `KeyCaptured`, `SignatureFollowsKey` | after any edits every string reads back; a text passed as a key is captured first and unchanged by every kind of hook, whatever the other registers hold; its signature comes next |
| `keys_invented` | `OnlyWhatWasPassed`, **violated** | finding 4 |
| `strings` | `TypeOK`, `LibcBehavesAsC` | every function of `string.go`, `sprintf`, `snprintf`, and the wide, multibyte and character functions of `locale.go` write and answer what C's do, on all contents of memory; functions and table of the character classes agree |

The services run without a check for deadlock: a guest that stops, a panic, or
the bounds end a behaviour. The inductive invariants (section 4) are proved and
not among the runs' properties.

Every property of a passing run is paired with a mutant of the code in
`PROJECT.json`: a variant of one definition (a dropped guard, a missing flush, a
reset left out, ...) under which the property fails. The variants stand next to
the definitions they vary.

### Bounds

- **Printer**: two distinguishable lines, so that order matters; a channel of
  two and up to four lines, so that it is full, drained and full again; a
  buffer of three parts, so that a spill falls between a text and its newline.
  The proofs cover all sizes.
- **Services**: thirteen programs, each with one service, or with the locale and
  `dl` side by side; services share nothing but the heap and `x0`, so pairs
  add no new case, and the theorems are about all of them at once. Registers
  of 11 bits, a heap of 384 bytes starting at a multiple of 16, requests of 0, 1,
  3, 15, 16 (products of two of them for `calloc`) and fixed ones of 4, 40 and
  256 bytes, three blocks: rounding on both sides, and exhaustion at different
  points, also in the middle of a hook. Two emulators. JNI references: three of
  each counter with offsets so close that they run into the next kind.
  Descriptors: files from 4 and sockets from 5, four of each, so that files
  reach the sockets' numbers; `dup2` to a number of neither, of a file and of a
  socket to come. Two threads; two key variables and three keys, so that one is
  deleted and created again and a key clears its neighbour; two guards, so
  that initialisers nest; two libraries. Two captured hosts: port 443, services
  that are no number, a port, and too large for one, IPv4 and not. No request
  wraps: TLC evaluates the theorems' condition `SmallGuests` on this instance.
  `heap_wrap` adds a request of 2^w - 16.
- **Registry**: two emulators, three installations, three binaries that between
  them have a stubbed, an unstubbed and a claimed import, an address with two
  names, an internal function claimed by three detectors, one that shares its
  address with a stub's name, with and without JNI.
- **Session**: three instructions of which two get lines, so that events move
  between lines and fall on both sides of `maxInsn`; hooks that do nothing,
  capture a key, a key with signature, a signature alone, and one that logs and
  stops; a channel of one and a buffer of two parts; stdout may fail.
- **Loader**: one library of three segments (text with a PLT, data with a
  vtable and a GOT, all .bss) with every sequence of at most two of twelve
  relocations, so that any two meet in one word in both orders, and three
  static symbol tables: none, one that hides an import, one that hides an
  export and adds a vtable of unknown size. Pages of eight words. Seven
  more files are odd in one way each: no PLT, another machine, cut short, two
  whose segments share a page, not relocated, without an entry point.
- **Keys**: two adjacent objects, so that a write beyond one is seen in the
  other; four literals: short, exactly as long as fits inside an object, longer,
  and longer with a byte that is not text; three edits, which is enough to go
  from one layout to the other and back, and to write into either; one character to
  write; one call of any setter with any of the strings as key and
  signature; leftovers that are nothing, texts where a key may be, or a text
  and a number where a signature may be.
- **Strings**: every content of four cells over the terminator and two
  characters, zeros after them, and calls with pointers to three of them, near
  the end of the region and past any text; windows of four and three cells;
  sizes from 0 to the limit of the memory functions, and one that is negative
  as an int. Texts fit in memory with and without a terminator inside a size,
  and source and destination overlap both ways. For wide strings every content
  of six cells, that is three characters, with zeros after them, and a limit of
  three for the code's 1024. Every character code from 0 to 255, and -1 as a
  register has it, is classified.

### Fairness

The goroutine of the printer runs when it can: Go's scheduler is preemptive and
starves none, so weak fairness of each of its steps. `FlushOnTick` competes with
`Receive` in a `select`; weak fairness of both is what a random choice gives with
a caller that stops writing after finitely many lines, as it does here. The
ticker ticks. The caller is fair only where it is already waiting (`AwaitDone`)
or has no choice (`Close`, and the report's loop after a stop). Nothing is assumed about the
guest: it may loop for ever, and no property says that it ends, because nothing
in the code ends it (`RunFrom` has no timeout or count).

## 4. What is proved

TLAPS checks these for every value of the constants that satisfies the
module's assumption, and where it is named one condition more. TLC evaluates
assumptions and conditions on the instances of the runs, so none is empty.

- **Printer** (`OutputWriterProofs`): `TypeCorrect`, `StreamCorrect`,
  `OutputInOrder`, `CloseFlushesAll`, `DropsAreJustified`, `ImplementsLog`. That
  stdout is in order is not inductive by itself: one has to know what is in the
  buffer, in the goroutine's hand and in the channel. `StreamInv` says that stdout,
  buffer, hand and channel are, one after the other, the accepted lines, with
  a length equation that holds until the first write error (`werr`), and relates
  `main`, `done` and `runner`. The proof goes action by action; `Put` and
  `Flush` have lemmas of their own. `ImplementsLog` is the safety of `LossyLog`:
  each step is an accept, a drop, a showing of the next stretch, a breaking, or
  none of the log's business.
- **Session** (`SessionProofs`): `TypeCorrect`, `UsesPrinter`, `ReportIsLast`,
  `StoppedIsFinal`, `AllEventsAccounted`, `EventsStayOnTheirLine`,
  `NoInstructionMissing`, `AllKeysReported`, `LinesAlwaysFit`. Session and printer
  are proved apart. `Flow` follows the session: which printer it finds at
  each `pos` (`Stage`), and where an event is between the hook that logs it
  and the line that shows it (`InTransit`: in the collector only events of the
  instruction at hand, or of ones beyond `MaxShown`). It says that the channel is open
  wherever the session uses it. `Lines` is order and completeness of the lines,
  and counts them: `LinesAlwaysFit` bounds what has been offered before a line by the
  header and two lines an instruction. From these two follows `UsesPrinter`: none of
  the session's calls panics, and each is one `OutputWriter` expects of a caller.
  Through it all that `OutputWriterProofs` says of any caller holds here (`P ==
  INSTANCE OutputWriterProofs`), and gives `ReportIsLast`.
- **Heap** (`HeapProofs`): `TypeCorrect`, `HeapInOrder`, `NoOverlap`,
  `InsideHeap`, `HeapImplementsFreshBlocks`, all under `SmallRequests` (no
  request, rounded and with header, reaches 2^w when added to the end of the heap),
  without which they are false (finding 1). `HeapInv` orders the blocks: each
  ends, rounded up, before the next begins and before the pointer.
- **Services** (`ServicesProofs`): `ServicesTypes`, and under `SmallGuests`
  (the same for texts and values of the environment) `ServicesBlocksApart` and
  `ServicesFreshBlocks`: the promise of fresh blocks holds whichever packages
  allocate, also when a hook allocates a row of blocks and panics in the middle,
  and over emulators. Every hook is shown to be one request, a row of requests or
  none, or the next emulator, which renews the heap. The pointers of a row are a
  recursive function; that it exists, rises and first passes the end of the heap
  somewhere is proved by least counterexample from well-foundedness of the naturals.
- **Thread-local data and statics** (`ServicesProofs`): `ThreadLocalData`,
  `StaticInitialisation`, of `GuestServices` as a whole. `TlsInv` adds that the keys in
  variables are different and below the counter, and that nothing is stored
  beyond it: this is why values a first emulator left behind are never read by a
  second one. `GuardInv` adds that the table is true of the guest's memory and that
  no guard is nested in itself.
- **Captured hosts** (`ServicesProofs`): `HostsCaptured`, for every address, port
  and family of 16 bits: names and ports always, addresses but for those in a
  stub's sockaddr (finding 5). `NetInv` says what is in the memory the stubs wrote. The lemmas
  are about bytes: a port that is swapped, written low byte first and read high
  byte first is the port.
- **Handles** (`ServicesProofs`): `ThreadsKeepIds`, `LibrariesKeepHandles`,
  `DescriptorsKeepNumbers`, `ReferencesKeepNumbers` and, together,
  `HandlesCorrect`: each implements `HandleTable`, for all bases, distances and
  bounds. `FdInv` says that, until the numbers are exhausted, what is open
  is below the files' counter or among the sockets that were handed out;
  `JniInv` that every reference is one that the counter of its kind has passed.
- **Registry** (`RegistryProofs`): `TypeCorrect`, `RegistryCorrect`,
  `InstallCoversImports`, `JniEnvFollowsEmulator`, `DetectorsFollowBinary`,
  `InternalHooksStay`. `RegistryInv` adds to `ImportsCovered` what each pass has
  established when it ends: what is in `seen` has a hook, and between the stub
  passes and the end a registered import has its own stub. It needs from the loader
  that a PLT address has one name. `DetectorInv` says, of an installation on a
  new emulator, that `activated` are those among the detectors passed that match,
  and that an address one of them claims has a hook of the last that does, or
  one of a stub with a name there.
- **Loader** (`ElfLoaderProofs`): `TypeCorrect`, `ImportsHaveOwnAddresses`,
  `PointersAreHookAddresses`, `SlotsAreWhatTheGuestReads`, `FileIsInMemory`,
  `BestEntryChosen`. `Loading` is types and progress through the passes. `NamesInv`:
  while segments are loaded symbols are the file's, moved; afterwards those
  with a PLT slot have its entry, which nothing else has. It gives what
  `Registry` assumes of a binary. `PointersWritten`: the last relocation of a word that
  resolves is the one in memory (`Effective`). `SlotsFromRelas`: what the vtable map has
  is the last relocation of the slot it can resolve; the two readings are then
  compared case by case. `SegmentsInv`, `ContentInv`: a word of a segment with
  pages of its own stays as loaded unless a relocation or a string global has it.
  `TypeCorrect` includes that the code's searches for a least or a last element
  (PLT slot, end of a vtable, best symbol) have a result.
- **Key capture** (`KeyCaptureProofs`): `TypeCorrect`, `StringsAlwaysReadBack`,
  `EveryKeyCaptured`, `EverySignatureFollows`, for every width of word, window, set
  of literals and number of objects. `StringInv` has the layout of each
  string: inside its object (`Short`) or in a buffer (`Long`) below the heap
  pointer, buffers of two objects apart; so a write to one string reaches no
  other. Then each hook's list of attempts is followed with each argument it can
  have: what comes before the right attempt finds nothing, whatever a leftover
  register holds (`Answers`).

- **libc** (`LibcProofs`): `TypeCorrect`, `LibcBehaves`, for every content and mapping
  of memory, every window, every limit of a loop and every size. Of the functions of
  `LibcStrings` the reference chooses: the first zero, the first difference. Each choice
  is shown to exist by well-foundedness of the naturals and to be what the code's
  windows and Go strings find (`ReadsPart`, `ReadsStr`, `ComparesStrings`); these
  functions read everything before they write, so no theorem needs source and
  destination to be apart. Those of `WideStrings` do not: a loop is a recursive
  function, which first has to be shown to exist (`Recursion`), and an induction over
  its rounds says what has been written and that what is still to be read is as it was
  (`CopiesAll`, `MbsAll`, `WcsAll`), as long as the destination is not above the
  source within its length, which is what `CopiesWide` asks. `wcsncpy` is such a loop
  followed by another that fills with zeros (`ZerosWrite`). What is written is followed
  cell by cell (`WroteBy`), and one lemma per function takes its outcome to the
  state after the call. `Fresh` says what memory and heap a call is made in. The
  classes are compared flag by flag over the intervals of the table
  (`FlagsOfCharacters`, `ClassIsByTable`).

Only model-checked:

- liveness, which is out of TLAPS's reach here: `CloseReturns`, `AcceptedIsShown`,
  `StoppedIsReported` and the fairness in `LogSpec`.

Every other property of a passing run is stated by a theorem.

## 5. Findings

1. **A heap request can wrap** (`emulator.go` 738). The sum of pointer and
   rounded size is taken modulo 2^64 and only then compared with the end:
   `malloc(2^64 - 16)` moves the pointer back by 16 and answers with a block
   that is not in the heap, and later requests get memory below `HeapBase`. The
   comment promises a panic when the heap is exhausted. Run `heap_wrap`.
2. **Fallbacks replace detectors' hooks on imports** (`registry.go` 260).
   Detectors search imports too, and say so, but the fallback pass hooks every
   import without a stub, after them: an imported key setter captures nothing.
   Run `registry_imports`.
3. **GOT entries of imports are not resolved** (`elf.go` 386-410). A GLOB_DAT
   relocation against a symbol from elsewhere is skipped but for two names,
   where the comment before the call has a second pass that "resolves external
   symbols to PLT stubs". A guest that calls an import through such an entry
   jumps to what the file has there. Run `loader_got`.
4. **Keys nobody passed** (`cocos.go` 378, 468). A `std::string` that is not
   printable text is rejected by `readStdString`; the hook then reads the object
   itself as a C string. For 23 to 31 bytes its first byte is the capacity 32
   with the lowest bit set, for 32 to 47 bytes 48: `"!"` and `"1"` are captured
   as critical keys. The package says that it captures what is passed to
   setters. Run `keys_invented`.
5. **The address of a resolved host is turned round** (`dns.go` 87, 168).
   `getaddrinfo` and `getpeername` write it as the number 0x7f000001, low byte
   first: the bytes in memory are 1, 0, 0, 127, where the comments have
   127.0.0.1 and `inet_aton` writes 0x0100007f. A guest that connects to what it
   resolved has 1.0.0.127 captured, and `getaddrinfo` has captured 127.0.0.1 for
   the same host. Run `hosts_resolved`. `CapturedAsMeant` leaves that address out.

More observations, which no run checks. The priorities of entry points differ from
the documented ones: `FindEntryPoint` has `cocos_main` and `Game::init` before
`JNI_OnLoad` (`elf.go` 551-563), the comment above it (480-481) after it;
`EntryIsBest` is about the code's order.

A signature passed through a vtable slot whose symbol has "xxtea" in it is
classified as a key (`cocos.go` 96), which is why `SignatureFollowsKey` leaves
that slot out. A slot index counts as a setter in every vtable when it is
one in any (`main.go` 611-617). `strncpy` writes n + 1 bytes when the source has
no terminator in n, and one byte for n = 0 (`string.go` 180): `LibcBehavesAsC`
states its n bytes and demands that the next is mapped. `strncmp`, `strncat`,
`strndup` and `strncpy` panic for n of 2^63 and more (a slice bound below
zero). `strcmp` compares 256 bytes, `memcpy` of a megabyte or more copies
nothing, `snprintf` answers with the truncated length, and a string near the
end of a region reads as empty: all are conditions of `LibcBehavesAsC`.

Of the wide functions and classes, likewise: `mbstowcs` and `wcstombs` without
a destination stop at n; `mbtowc` does not look at n; `wcstombs` keeps the low
byte of each character; `toupper(EOF)` is 255; copies of 1024 characters are left
without a terminator; `wcsncat` puts its terminator at n even beyond 1024;
`wcscat` onto a string without a terminator in 1024 starts at its beginning.
`_ctype_` has no control flag for tab to carriage return and prints tab, which
`isprint` and `iscntrl` do not.

Of the services. `bind` captures nothing. `dlsym` answers an address made of the length of the
name: names of one length share it (`dl.go` 77). `pthread_self` is 1, which is
also the first created thread; `pthread_once` never calls its routine. `close`
forgets sockets only and files are never forgotten (`freeFileFD` has no
caller); `dup2` registers nothing. After 512 strings the next has the reference of
the first class, and method and field keys ignore the class. `setenv` overwrites
whatever it is told, `unsetenv` brings a default back, `putenv` stores nothing.
The locale buffers and the Lua state are allocated on the first emulator and
handed out on all, where they may lie inside other blocks; once flags, variables and
thread-local values outlive an emulator too, and `ClearGuardState` has no caller.

## 6. Plan

The order is by weight for the program's purpose. Everything below becomes a
handful of composed modules, each checked by one run with its MC instance.

1. *Done*: printer, heap, registry, session, with the first theorems.
2. *Done*: the loader, with the vtable map and the entry point.
3. *Done*: the guest services in one composition, with the abstract table of
   handles and the refinements.
4. *Done*: key capture, with strings of both layouts, extraction and
   classification; the string functions of libc, wide strings and character classes.
5. **Theorems**. *Done*: printer with its refinement of the log, session, heap,
   all services with handles and blocks, registry, loader, key capture, libc
   with wide strings and character classes (section 4).

## 7. Not modelled

The instructions of the guest and Unicorn; the text of trace lines, tags and
colours; the contents of memory blocks, and what `stat`, `readlink` and the time
functions write into the guest's buffers; the mock objects, which are written
once; the tests on names by which detectors choose internal functions; the `info`
command, which only prints; the earlier stub packages that only tests use.
