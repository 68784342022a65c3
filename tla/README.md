# A TLA+ model of code-data-share-for-python

`_cds` is an extension module of CPython that writes an object graph (the code
objects of a program's modules) to an archive file in the layout the objects
have in memory, and maps that file in later processes, where the objects are
used in place. The package `cds` is the workflow around it: *trace* the names
of the imported modules, *dump* an archive from that list, *share* the archive.

This directory models that system in TLA+, checks it with TLC and proves part of
it with TLAPS. Paths below are relative to the repository.

## 1. Inventory

| Component | State | Operations | Hard behaviour |
|---|---|---|---|
| extension API and status (`src/_cds/_cdsmodule.c` 62-293, 458-501, 939-996) | the global `struct CDSStatus`: mode, flags, descriptor, header pointer, move-in context | `_set_mode`, `_set_verbose`, `_create_archive`, `_load_archive`, `_move_in`, `_get_obj`, `_get_initialized` | the order of claim, open, map and close; failures half way; handles that go stale |
| archive file and platform layer (`platforms.c`) | the file, the descriptor table, the mapping at `CDS_REQUESTING_ADDR` | create, truncate, map, read header, close, finalize | kills between two stores, ignored results, descriptor 0 as "none" |
| heap allocator (`_cdsmodule.c` 295-334) | `used`, in the file itself | `PyCDS_Malloc`, `PyCDS_InHeap` | limits, alignment, room for `PyGC_Head`, undo |
| move-in (`_cdsmodule.c` 503-873) | recursion, two lookup tables, the archive, the caller's objects | `PyCDS_MoveInRec` | publication by the last store, deduplication of strings, lists of references, heap full half way |
| load and patch (`_cdsmodule.c` 336-456, 875-937) | the private mapping, the interpreter's intern table | `PyCDS_LoadArchive`, `PyCDS_PatchPyObject` | address space randomisation, shared strings, order of patching and interning |
| reference counts before 3.12 (`_cdsmodule.c` 416-443, 538-544, 692-711, 744-749, 783-785) | counts in the archive | incref, decref, intern | corrections by a number of slots, a decref by the interpreter in the middle |
| lookup tables (`lookup_table.c`, `hashtable.c`) | buckets, blocks of memory | new, set, get, destroy | growth inside an insertion, silent failure |
| bytecode copy (`_cdsmodule.h` 264-318) | the loop's index and previous opcode | `COPY_AND_DEOPT_CODE` | pairs of opcodes next to inline caches, which look like instructions |
| `cds` package (`src/cds/__init__.py` 26-53, 142-187) | the environment, `sys.meta_path`, the wrapped `get_code` | `init_from_env`, `trace`, `share` | an exception half way through, functions called again or in any order |
| `CDSFinder` (`src/cds/__init__.py` 56-140) | `shared_module`, importlib's state | `find_spec`, `exec_module` | pop once, re-import, queries, threads |
| `cds.dump` (`src/cds/dump.py`) | `code_map`, `meta_map` | wrapped `get_code` and `exec_module`, the final tuple, the exit code | nested imports that fail, modules that rename or redirect themselves |

How they interact: the package calls the extension; `_create_archive` claims the
mode, opens and maps the file; `_move_in` walks the graph, allocates from the
heap in the mapped file, consults the lookup tables, copies bytecode and finally
truncates and closes the file; `_load_archive` in another process reads the
header, maps the file, patches it and interns its strings; `_get_obj` hands out
the root, which `CDSFinder` serves to Python's import. There are no threads in
the C code: it runs under the GIL and never releases it. The concurrency is that
of *processes over a file*, where a process may die between any two stores to a
shared mapping; of the calls of a client in any order; and of *threads that
import* through `CDSFinder`, between whose bytecodes the GIL changes hands.

What makes each part correct is listed with its properties in section 3; the
hazards they are aimed at are in `PROJECT.json`, each at its line.

## 2. Modules

```
 CdsStatus ── CdsStatusProofs                        the extension, any client
   └─ CdsPackage ── CdsPackageProofs                 the package as its client
 CdsHeap ──── CdsHeapProofs                          PyCDS_Malloc, bytes, limits
 DeoptCode ── DeoptCodeProofs                        the copy of bytecode
 ArchiveMemory                                       pointers, archive, values
   ├─ MoveIn ─────┬─ MoveInProofs ──────┐
   └─ LoadImage ──┴─ RoundTrip ── RoundTripProofs
                       └──▷ ArchiveStore             (refinement)
 HashTable ──▷ LookupTable ── HashTableProofs        (refinement)
 CdsImport ──▷ ImportSystem ── CdsImportProofs       (refinement)
```

`MC*` modules give the constants of an instance; each `.cfg` is one run.

**CdsStatus** is the state machine of the extension under the most general
client. One action is one method, cut where a kill would leave a different
file: `CreateOpen`, `CreateTruncate`, `CreateMap`, `CreateStampAddr`,
`CreateStampUsed` are the steps of `_create_archive`; `MoveInCall` to
`MoveInFinish` those of `_move_in`. `_load_archive` writes nothing that outlives
its process and is one step. `image` is what the file holds, as far as a loader
can tell; `fds` is the descriptor table, with POSIX's lowest free descriptor;
`mapping` is what is mapped at the first page of `CDS_REQUESTING_ADDR`. The rest
of the program opens and closes descriptors in between. `mmap`'s MAP_FIXED
makes the "unexpected mapping" branches unreachable on POSIX; they are left out.

**CdsPackage** puts the package on top of it. Its actions *are* actions of
CdsStatus, one method call each, with `at` saying where the Python function is;
an exception of a method takes the function back to "outside" and undoes
nothing. `Call(f)` starts any function at any time when none runs: the first call
of `init_from_env` is site's through `pycds.pth`, the others are the program's.
`finder` and `tracer` count what the functions installed. `run_dump` has two forms,
a call and the command line `python -m cds.dump`, whose `except ValueError` lets the
module end as if nothing had happened (`Raised`); the exceptions of the extension are
RuntimeErrors and pass it. `DumpFails` stands for whatever ends `run_dump` before it
creates an archive, with a ValueError (a list that is not text, a path with a null
character) or with another exception; the imports it makes are CdsImport's subject. A module that calls functions of the package while
`run_dump` imports it is left out.

**CdsHeap** is `PyCDS_Malloc` in bytes. Each store to `used` is a step, which
covers every way a compiler may merge them.

**ArchiveMemory** fixes what a pointer is (NULL, an index in the heap, or an
address of an interpreter at some base) and `Value`, the value a pointer stands
for in an interpreter at a given base. Values are numbers below `Span`, which fixes the offsets of the interpreter's
objects. An archive's objects carry the *address*
of their type, so a wrong shift shows as a dangling value, and `rc`, the reference
count of the copy. The variable `env` is chosen once: the minor version of
Python, the size of the heap, and whether lookup tables may run out of memory.

**MoveIn** is `PyCDS_MoveInRec` with the C stack as the variable `stack`. A string
takes three steps (copied, listed, recorded), because each allocates and the
heap may run full between them; a container is allocated, filled item by item,
and published by its last store. Objects of one treatment share a kind: "atom" is
bytes, int, float and complex, "basic" is None, True, False and Ellipsis, "other"
any unsupported type. Static singletons of Python 3.12 exist when `env` says so.
Two sets of values have a static string: `IdStrs`, which are interned from the start
as `_Py_ID` is, and `ListedStrs`, the contents of `static_strings` (`_Py_STR`, ascii
and latin1), which are interned only in a program that happened to intern them before
an equal string. An object of the source may be the static string itself
(`MoveReference`), or another string of its value: that one is interned, and
`ReferToStatic` is taken when the interned string is static, or when it is not but
`static_strings` has one of its value. Before 3.12 a copy starts with the count 1 and gains one for each
slot that refers to it again, and one when its string list is made. The counts
of None, True, False and Ellipsis are the interpreter's and are not modelled.

**LoadImage** is `PyCDS_LoadArchive` after its header checks (which CdsStatus has)
with the recursion of `PyCDS_PatchPyObject` as the list `todo`. Interning a string
follows `PyUnicode_InternInPlace`: a string that gives way to one of the program's
loses a reference at once, and the corrections of the count come after it. The
loading program has its own intern table (`InternTable`): the strings of `IdStrs`, any
of those of `ListedStrs`, and strings of its own, which may be equal to the rest of
`ListedStrs`.
`held` counts the references that archived slots own to strings of the program.

**RoundTrip** composes a dump with the loads that follow it over one archive;
**ArchiveStore** is what they implement: an object that appears in the file in
one step, once, and is handed out unchanged.

**HashTable** is `hashtable.c` with pointers of `WordBits` bits, and implements
**LookupTable**, the map that MoveIn uses. `live` counts the blocks that the table
got from malloc and has not freed. A number of buckets is one of `Sizes`, the powers
of two; `Rehashed` pushes the entries of a walk through the old chains on the new
ones, one after the other, as `_hashtable_rehash` does, and `Found` is the loop of
`hashtable_get` over one chain. Keys are addresses of objects, so there are far
fewer than a word tells apart: `SizesAssumption` asks for no more than that the table
with all of them does not outgrow `size_t`.

**DeoptCode** is the macro `COPY_AND_DEOPT_CODE`, one iteration of its loop per
step: `Deoptimise` for 3.11, `QuickenCached` and `Quicken` for 3.12. A cache entry is
a code unit whose bits may be those of any instruction. The reference,
`FreshUnit`, does not use the loop: it tells what a new code object holds at a
position from the positions of the instructions (`starts`). CPython's tables are
the constants `Deopt` and `Caches`.

**ImportSystem** is importlib as far as the package depends on it: names and
files, `sys.modules`, frames of nested imports, exceptions, a lock per module
with importlib's deadlock detection, parent packages. It is external to the
repository and is the specification that a process with cds implements.
**CdsImport** adds the dumper's wrappers (`GetCode`, `ExecModule`, `Write`) and the
finder (`FindSpec`, `QuerySpec`, `FallBack`). A program is data: a body of statements
for each file, which import, fail, rename the module, change `__path__`, redirect
the module's name to another file, remove a module from `sys.modules`, or query
a spec. A process, a dumper too, begins with modules that were imported before
(`starts`): with `python -m cds.dump` those of `runpy` are there before `run_dump`
wraps the loader, and stay out of the archive unless they are removed and imported
again (`before`). `GetCode` returns while the module's body has not run, `ExecModule` after
it has, which is what keeps the two maps apart.

## 3. Runs

All passing runs explore their whole state space.

| Run | Instance | Shows |
|---|---|---|
| `cds_status` | 5 modes and an unknown one, 4 verbosities, descriptors 0-4 | one archive per process, the mapping fits the mode, no descriptor leaks, no foreign descriptor is closed, stale handles only after a move-in, loads of torn files are refused, a mode is final |
| `second_move_in`, `stdin_survives` | same | **violated**: see Findings |
| `cds_package` | 15 environments, descriptors 0-3 | `init_from_env` gives the mode that the environment asks for or no role at all; a process has one role; no function follows a stale or null handle; `SystemExit(0)` means a complete archive, and the other way to exit code 0, on the command line, that this run created none |
| `verbosity_reported` | same | **violated**: see Findings |
| `round_trip` | 12 objects, 228 graphs; Python 3.10 and 3.12 with a large heap, 3.10 and 3.11 with a heap that runs full and tables that may fail; loader bases equal to and different from the dumper's; every intern table over two strings, one of them static and interned or not | publication is atomic, strings are stored once, string lists are exact and sound, a load stands for the source and its strings are interned or static, no count drops to 0, slots own their references, refinement of ArchiveStore, termination |
| `heap_full` | a heap of 6 allocations, tables that do not fail | **violated**: see Findings |
| `cds_heap` | 8192 bytes, sizes 0, 9, 2001 and 4048, 6 allocations | blocks are apart, aligned, in the heap, in the file and in the loader's mapping; failure leaves no hole |
| `hash_table` | 6 colliding one-byte keys, minimum size 2 | growth keeps the map, entries are where lookups look, the blocks held are those the chains reach, through failed growth and destruction |
| `deopt` | every program of up to 3 instructions over 4 base opcodes, one with two cache entries, in every specialised form; Python 3.11 and 3.12 | no cache entry is taken for an instruction, nothing learned is left, the copy is a function of the program |
| `cds_import` | a package, its submodule and a module, 144 programs, processes that begin with the package imported or not, one dumping thread and two importing ones, any number of sharing processes | a record is code and metadata of one finished execution, everything that was loaded from source since `run_dump` began is shared, processes with cds import what processes without it import |
| `redirect_falls_back` | same, with a source file behind the redirection | **violated**: see Findings |

Why these bounds are enough. *CdsStatus*: two descriptors above the standard
three make every coincidence of a reused number possible; calls are unbounded.
*CdsPackage* has one such descriptor less and a client that opens and closes it;
its environments take each mode with and without the path that it needs, and
verbosities that are unset, malformed, in and out of range, with and without
`python -O`. *RoundTrip*: a graph needs two equal strings that are different
objects, a second occurrence in another container, a container shared twice, a
NULL field, and an unsupported leaf below the root; all are there in each kind
of container. Static strings need one that is interned from the start and one that is
not, each also in the form of another string of its value, and for the second a
dumper and a loader that interned it, or the other string, or neither.
More depth repeats the same frames. 20 heap cells are more than
the largest graph takes; 9, and 6 in `heap_full`, stop inside many. Only loads
before 3.11 count slots, which is why `SlotsOwnReferences` is about these.
*CdsHeap*: `16 + 4048` twice and the header fill the file to its last byte, so the
limit is met exactly, missed by 24 bytes and missed by a page. *HashTable*: six
keys grow the table from 2 to 8 and to 16 buckets. *DeoptCode*: the loop remembers
one instruction and writes to that and to the present one, so three instructions
have every pair with every neighbour; the proof is for any length. *CdsImport*:
two threads that import two modules that import each other make importlib's
deadlock happen; three names allow a module to take another's name while the
third imports it; one module that was imported before the list, and is removed by the
list or not, has the two cases of `before`. The names of the bounds are `MaxFd`, `cells` of an environment,
`CDS_MAX_IMG_SIZE`, `MaxAlloc`, `WordBits`, `HASHTABLE_MIN_SIZE`, `Instructions`,
`Names`, `Threads` and `Programs`; `Span` only keeps the interpreter's addresses
apart, and is larger than every value of the instance.

**Fairness.** RoundTrip assumes weak fairness of a running dump and of a running
load, nothing of kills, of starting a load or of ending a process. The C code is
single threaded, waits for nothing and holds the GIL, so it goes on until it
returns or the process dies. ImportSystem and CdsImport assume weak fairness of
each thread: the GIL is handed on, and a thread that waits for a module's lock
gets it when its owner is done. The refinement carries the fairness over: threads
with cds go on wherever Python's would. The other modules state no liveness.

**Deadlock** is checked except in `cds_heap`, where the dump ends, and in `deopt`,
where the loop ends.

### Findings

* `second_move_in`: `finalize_map` (`_cdsmodule.c` 172) receives the status by
  value, so the global `archive_fd` keeps its number and a second `_move_in`
  passes the test of line 160 and stores through an unmapped header, instead of
  raising "move in already finished or archive file not opened." The package
  itself never gets there: see `StaleHandleOutOfReach`.
* `stdin_survives`: `close_archive` (`platforms.c` 144) compares the *address* of
  the descriptor with 0. When the archive cannot be opened for a load, it closes
  descriptor 0, which `platforms.h` 32 reserves as "no descriptor".
* `heap_full`: `PyCDS_Malloc` returns NULL when the heap is full, and no caller
  looks: the process dies, where the comment at `_cdsmodule.c` 504 promises a
  Python exception.
* `verbosity_reported`: `init_from_env` tests the range of `PYCDSVERBOSE` with an
  `assert` statement (`__init__.py` 151). Under `python -O` a number out of range
  reaches `_set_verbose`, whose exception leaves `init_from_env` before the mode is
  set, where line 157 prints "PYCDSVERBOSE should be [0, 2]" and goes on.
* `redirect_falls_back`: a package that redirects its own name to another source
  file and imports itself again leaves the inner file's code and the outer file's
  metadata in the dumper's maps. It is served with that mixture, and never falls
  back, where the comment at `__init__.py` 80-83 says that cds is only used the
  first time. When the second file is an extension module, as in the package that
  the comment names, nothing goes wrong; `cds_import` has that case.

## 4. Proofs

TLC checks the instances above; the theorems hold for all values of the
constants under the named assumptions of the modules (`ArgsAssumption`,
`MaxFdAssumption`; `EnvironmentsAssumption`, `PackageModes`; `ImgSizeAssumption`,
`SizesAssumption`, `MaxAllocAssumption`; `TableAssumption`, `SourceAssumption`;
`SpanAssumption`, `GraphsAssumption`, `DumpBaseAssumption`, `LoadBasesAssumption`,
`InternTablesAssumption`; `NoneAssumption`, `ParentAssumption`, `MainsAssumption`,
`ProgramsAssumption`; `KeysAssumption`, `NullAssumption` and `SizesAssumption` of
HashTable). TLC evaluates each of them on the instance that it checks.

**CdsStatusProofs** proves every property of `cds_status`. None of the invariants is inductive. The inductive one, `Inv`, adds *Claimed* (an
archive, a descriptor or a header exists only in a process that claimed an
archive mode), *MappedByPc* (what is mapped and the move-in context at each point
of a method) and *ArchiveFd* (the archive's descriptor is open exactly from the
open to the close, under the number that `archive_fd` holds). The core of the
argument is `GrantedIsUntouched`: a request for an archive mode is only granted to
a process that has no archive, hence nothing is mapped or open when a create or
a load begins. The action properties follow from `Inv` and one case per action.
`LoadOnlyComplete` needs two more facts (`ImageInv`): outside of `_create_archive`
nothing is mapped but a file with a complete header, and a process that was
told "ok" or given an object keeps its header, so that it cannot be granted the
mode in which it would empty that file.

**CdsPackageProofs** first shows that the package is one of the clients of
CdsStatus (`PackageIsClient`: each step is a step of CdsStatus or a stutter), so
all of the above holds for it and `Inv` and `ImageInv` may be used. `RoleInv` ties
each role, and each point of a function on the way to it, to a state of the
extension that no other function can leave: *Serving* (mode SHARE, a private
mapping, a published image) and *Tracing*. `RoleKept` shows that no step of any
client leaves these but the end of the process. `OneRole` and
`NeverFollowsStaleHandle` follow. `ExitCodeTells` is about both forms of the dump: that
`SystemExit(0)`, the last statement of `run_dump`, is reached exactly when the file has
all that was moved in, and that the ValueError which the command line passes over,
also with exit code 0, can only come from before the mode was claimed. A build script
that sees exit code 0 therefore has to look whether the archive is there, and new.
The proof needs two invariants more:
*MoveInOnce* (only a dumper's status shows traces of a move-in, so that the one
of `run_dump` is the first) and *DumpInv* (what each point of `run_dump` says of
the move-in and of the file). `InitFollowsEnvironment` needs `EnvInv`: what each
point of `init_from_env` remembers of the environment and of the status it began
with, up to the mode it asks for and the role it gives.

**CdsHeapProofs** proves every property of `cds_heap` for every image size and
every set of sizes. While `PyCDS_Malloc` runs, `used` is somewhere between two
block ends; `Top` is the end of the last block, computed from `used` and the
program counter. The invariant says that Top is aligned and within the limit, that
every block ends at or before it, that blocks are apart by a `PyGC_Head`, and how
long the file is. Each step but two leaves Top alone (`SameTop`); `MallocReturn`
moves it to the new block's end, and `Finalize` cuts the file there.

**DeoptCodeProofs** proves every property of `deopt` for code of every length and
every pair of opcode tables that agree with the macro's pairs. The inductive
invariant is `TypeOK /\ Exact /\ Remembered`: *Exact* says what each unit of the
copy holds, before, at and behind the loop's index; *Remembered* that the opcode
remembered is that of the instruction which ends right before the index, so that
a pair is only joined when nothing lies between its halves.

**MoveInProofs** and **RoundTripProofs** prove eleven properties of `round_trip` for every
graph, heap size, version of Python, base and intern table. `MoveOK` types the
source, the archive, both lookup tables and the stack: a frame's target is a slot
of the frame below it, the copy of a container is as long as the container, and no
two open frames fill one copy. Every step is shown to have one of four effects:
*Quiet* (no string is moved in and no slot recorded), `StringMoved`,
`StringListed`, `SlotRecorded`; the invariants are then proved once for each
effect and not once for each action. The core of `StringRefsSound` is *Closed*, a
slot that the calls on the stack will not write to any more: a slot is closed when
it is recorded, and closed slots keep what they hold. `StringsOK` adds what the
tables and lists say of each other: every slot that holds a string is recorded,
once, or is the one that the innermost call is moving in (*Pending*), and the way
from a value through the intern table and `orig_map` leads to its only copy.
`OneCopyPerString` and `StringRefsExact` follow. `CountsOK` counts the references
that a load may take away: two for each list of a string, and one for each slot of a list
and one more. `LoadOK` carries that count through a load: `StringCount` says what
is left for the lists that are still to be looked at, and what a string owns that
became the interned one. `NeverFreed` follows for any number of loads.

`ValuesOK` is what they say of values. The value of a node, or of an address, is
the one solution of a recursive equation, and two solutions agree where the two
graphs correspond (`FoldsAgree`). Three parts make it inductive. *Layout* lays out the open
frames: each is a call for the last item its caller has come to, a copy is empty from its
next item on, copies refer to copies made later only (`HeapOrdered`, so that the
heap has no cycles), and nothing refers to a copy that is not finished. *Contents*
says that the items a copy has so far stand for the items of its container, unless an
error is on its way, and *Published* is `PublishedIsComplete`. A step has one of six effects on
values (`ValueMove`), from *Returned*, which stores what stands for the object, to
*Halted*. Since nothing refers to an unfinished copy, no store changes the value of
anything that is complete (`ValueStays`); and since interning only puts an equal
string in the place of another, no value of the source changes (`SourceStays`), which
gives `SourceKeepsValue`. Three parts more are for the loads: each object has one
of the four types (*Typed*), nothing but a string is referred to twice (*Unshared*:
a container is copied each time it is met, which is what lets the patch do without
a mark on what it has visited), and when the root is there no more than listing it
is left to do (*Rooted*).

`LoadedOK` says what a load has made of the file so far. An object is *Patched* when
its type was moved to the loader's base; a slot is *Opened* when the patch has come to
the object it is in, and *Visited* when it is not on the list of those still to be
visited. A visited slot holds what stands for the slot's pointer in the file
(`StandsAs`: the same address, patched; the same object of the loader's interpreter; or,
for a string, any string of its value, which is all that interning may put there), a
slot that was not visited holds what it held, and an object is only patched when a
visited slot refers to it. With *Unshared* the type test of `PyCDS_PatchPyObject`,
which only knows strings, never meets another object twice (`PatchedString`), so that no
pointer is shifted twice. When the load is done every slot below the root is visited,
the two memories correspond (`LeavesAgree`, `ItemsStand`), and `LoadedEqualsDumped` follows
from `FoldsAgree`. `ImplementsStore` follows from it, from *Published* and from
*Rooted*: `ArchiveIsAStore` is the whole refinement, as ArchiveStore states no fairness.

`RefsOK` follows the lists of strings through a load, unless a table ran out of memory
in the dump. The strings of the lists that are still to be looked at are not in the
intern table, and their slots hold them (`AheadOK`); the slots of those that were
looked at hold what the table has for the string's value (`BehindOK`); the table has
strings of the archive, of the program and of the interpreter only, and those of
`IdStrs` always (`CanonOK`); and the count of an object, or what a string of the program was given, is
no less than the number of slots that hold it (`OwnedOK`). Two facts of the dump are
needed: the file refers to no string of the interpreter but a static one (*Statics*), and
a string is counted for each slot from the moment it is moved in (*SlotsCounted*).
No string is copied whose value has a static string (*Copied*), the second half of
`OneCopyPerString`.
`SlotsOwnReferences` is `OwnedOK`; `LoadedStringsInterned` takes a walk from the root:
every slot on it was opened by the patch (`ReachedOpened`), a string there is either one
of the lists, all of which were looked at, or static. For a static string that need not be
interned the theorem says no more than that it is this string: the archive refers to the
one of `static_strings` also where the loading program interned another of its value, so
that identity with that program's strings is kept for the other strings only.

`ArchiveIsTyped` adds the accounts of the heap to `MoveOK` and `LoadOK`. `TypeOK` counts
what was allocated as a sum over the lists of strings; `RecordsSum` shows the sum to be
the size of a set, of the records and the lists that they are in, which each
allocation makes larger by one (`UsedOK`, `UsedStep`), whatever was allocated for and
wherever the dump is killed.

MoveInProofs begins with lemmas on the memory: what a store, an allocation and a
count change, and what `Value` is. `Value` is recursive; that its equation has a
solution at all, and that two memories whose pointers correspond give the same
values, is shown by induction over a memory without cycles (`FoldExists`,
`FoldsAgree`), stated for any such definition, with the library's well-founded
induction in the form that takes no operator. What the root reaches is recursive too:
`RoundsExist` gives its equation a solution without induction, as the ends of walks.

**HashTableProofs** proves every property of `hash_table` for any keys, width of a word and
smallest size. A table is always `Gone` or `Holding` a set of entries: the buckets
hold these entries, each once and where its hash says (`Holds`), `nentries` is their
number, and the load is at most one half. A push on a chain adds one entry
(`PushedHolds`), a walk meets each entry once (`WalkIs`), and so a rehash holds the same
set (`RehashedHolds`) and a lookup gives the same answers (`LookupFinds`,
`LookupMisses`). That the new size is enough rests on `round_size` finding a power of
two (`Rounded`), and that destroying the table frees all of it on the count of its
chains being the size of the set (`ChainedIs`). The folds of the community modules are
unfolded as the solutions of their equations, number by number (`UpTo`).
`TableIsAMap` is the whole refinement, as LookupTable states no fairness.

**CdsImportProofs** proves the two invariants of `cds_import` and the safety part of its
refinement, for any number of names, threads and statements, any nesting of
imports and any scheduling. `Shape` types the stacks of frames. `Running` is what
the locks are for: one thread at a time is inside a name, and a module in
`sys.modules` that is not loaded is the one its innermost frame runs. `Recorded`
says what a finished execution left in the two maps, and that nothing else is
there. `Served` says that a frame which runs a shared module runs its own file,
with the `__path__` it starts or ends with. The refinement
(`ImplementsPythonSteps`) forgets the maps and gives each frame the `__path__` of
Python: each step is a step of ImportSystem or a stutter. The theorems are about
programs that meet `RedirectsToExtensions` (no name stands for two files of
Python source or bytecode) and, for the refinement, `RedirectsOwnName` (a module
redirects no name but its own). The first cannot be dropped: without it
`redirect_falls_back` gives a mixture of two files. `MCCdsImport` has TLC evaluate both
for the programs of `cds_import`.

Only model-checked: the fairness part of `ImplementsPython` and the liveness of
RoundTrip (`CallsEnd`), which are out of the prover's reach. Every invariant and every
action property that a run checks is proved, and so are the refinements of
ArchiveStore, of LookupTable and, but for fairness, of ImportSystem.

## 5. Not modelled

* The bytes inside objects, hashes, lengths and code fields without references, nor
  the array `cell2arg` that code objects before 3.11 have and that takes a block of
  the heap of its own.
* The static strings of deep-frozen code, which are not interned and not in
  `static_strings` (`_cdsmodule.c` 682-686): the code of frozen modules comes from no
  loader that the dumper wraps, and a graph holds them only by way of it. (One that
  the interpreter did intern when it started is a string of `IdStrs`.)
* `exit`, which `run_dump` calls at its end, is site's: under `python -S` the call is
  a NameError after the archive is complete. The package itself starts from site's
  `pycds.pth`.
* What the interpreter does to the modules that were imported before `run_dump`
  other than by plain import of their file: they do not rename themselves or change
  their `__path__`.
* Two processes at a time on one archive. README.rst describes the phases one
  after another; a dump over an archive that is in use empties the file under its
  users.
* An archive dumped by another build of Python. Its types could not be patched,
  and the failed load would leave `archive_header` set.
* A lookup table that cannot be made at all, which ends the process at its first
  use; the C stack, which the recursion over a graph may exhaust.
* Code objects that run while they are moved in, and bytecode that instruments
  itself for tracing; the dumper copies what it has loaded and does not run.
* `importlib.reload`, submodules queried by name, modules replaced in
  `sys.modules` by themselves, and bodies whose change of `__path__` gives another
  list when it is applied twice: the recorded `__path__` is set before the body
  runs, so a shared module of that kind ends with another `__path__` than in
  Python.
* `get_data` and `get_resource_reader`, which read files and keep no state.
* Windows, the debugging linked list, generated argument parsing, version shims,
  logging, benchmarks.
* After `_move_in` only `used` bytes of the mapping are unmapped; the pages above
  stay. Nothing in the code refers to them, so the model has the first page only.

## 6. Plan

Done in this order: CdsStatus with its proofs, ArchiveMemory, MoveIn, LoadImage,
RoundTrip, ArchiveStore, CdsHeap with its proofs, LookupTable and HashTable; then
reference counts in MoveIn and LoadImage, DeoptCode with its proofs, ImportSystem
and CdsImport, CdsPackage with its proofs, and `LoadOnlyComplete`; then the proofs
of CdsPackage's environment, of CdsImport, of MoveIn with the values of its copies,
of the counts of loads, of what they load, of RoundTrip as an ArchiveStore, and of
the references and the interned strings of a load, of the accounts of the heap, and of
HashTable as a LookupTable.

What is left is to model more. The items of section 5 that a model could reach: two
processes at a time on one archive, with the length that a loader reads before a dump
empties the file; the failed load of another build's archive; and `importlib.reload` and
submodules queried by name in ImportSystem.
