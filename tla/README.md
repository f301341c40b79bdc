# Verification of the ImageGlass iThmb plugin

This directory specifies the plugin in TLA+, model-checks the specifications with TLC and proves theorems
about them with TLAPS. It covers the part of the repository that a Rust type checker says nothing about:
which thread may touch a pixel buffer when, what a host sees while the plugin is being loaded, what may
happen while the plugin calls its host, what a call answers when the file changes under it, and what the
conversions at the C boundary (narrowing casts, UTF-16, textual dimensions) do.

The source is under `src/src/`; paths such as `decode.rs:114` below are relative to it. Every definition
that models code is tied to its lines in `PROJECT.json` under `map`.

## 1. Inventory

The plugin is a `cdylib` with one exported function, `ig_plugin_get_api`. The host (ImageGlass) gives it a
table with its log function and receives a table of plugin functions, from which it reaches a codec table.
All state is in five statics, four of them `OnceLock`s filled in by `ensure_initialized`, and one registry
behind a mutex. There are no threads of the plugin's own: everything runs on whichever host thread calls
in.

| Component | State | Operations | Meets the rest through | Hard behaviour | What makes it correct |
|---|---|---|---|---|---|
| Pixel-buffer lifecycle (`decode.rs`, `buffer_registry.rs`, `allocator.rs`) | heap, `BUFFER_REGISTRY` (map, mutex, poison flag), the host's `IGPixelBuffer` | decode: read, decode, malloc, copy, register, publish; free: load, clear, unregister, free | the host's structs, the mutex | interleaved frees and decodes, address reuse, malloc failure, poisoning | no double free, no write after free, nothing lost, every call returns |
| Ownership contract (`decode.rs`, `types.rs`) | which struct holds which image | decode, free, second frees of copies | the lifecycle | a struct is `Copy`: the host can keep stale pointers; a decode may overwrite the only one | a held image stays intact and unshared, what leaks is known |
| Buffer sizing (`decode.rs:84-110`) | none | casts and checked products | decoder, malloc | wrapping, sign extension | struct, allocation and copy agree |
| Loading (`lib.rs`, `state.rs`) | `HOST_API`, `PLUGIN_EXTENSIONS`, `PLUGIN_STATE`, `CAPABILITY`, `BUFFER_REGISTRY` | `ig_plugin_get_api`, `get_codec`, `get_capability` | `OnceLock` | racing loads with different hosts, a panic half-way, waiters | no half-built plugin is visible, one host is adopted |
| Extension matching (`codec.rs:61-146`) | none | `can_handle_extension` | host log | narrowing of UTF-16 units | exactly the two extensions |
| File access, metadata, statuses (`file_io.rs`, `codec.rs:159-242`, `types.rs:367-381`) | none | size check, read, prefix read, profile lookup | file system | the file changes between the steps | statuses and metadata follow from states the file had |
| Dimension parsing (`codec.rs:244-253`) | none | `parse_dimensions` | profile descriptions | malformed text, overflow, the cast to `i32` | the two numbers declared, or the next source |
| UTF-16 strings (`strings.rs`) | none | encode, lossy decode | every path | lone and cut surrogates, null, length 0 | the string opened is the host's path |
| Logging and shutdown (`logging.rs`, `lib.rs:128-148`) | none | `log`, `plugin_shutdown` | call back into the host | re-entrancy, torn-down host | no wait is circular, one host is told, frees do not call it |
| ABI layout (`types.rs`) | none | none | host | none at run time | pinned by unit tests |
| `ithmb-core` (external crate) | none | `decode_ithmb`, profile databases | | | assumed to return an image with `4*w*h` bytes or an error |

The properties of each component are aimed at the list under `hazards` in `PROJECT.json`.

## 2. Modules

```
BufferOwnership                 what a conforming host is promised (abstract)
      ^ refinement
ExclusiveHost  --EXTENDS-->  PixelBufferLifecycle      hosts that keep (or nearly keep) to the ABI
MCExclusiveHost                 + symmetry for TLC

Loading                         one host, known before any table (abstract)
      ^ refinement
PluginInit                      loading, cell by cell

HostCallbacks                   calls into the host and back; waits for loading's cells and the registry's mutex

FileAccess / MCFileAccess       control of one decode or metadata call / the files
MetadataText / MCMetadataText   data of one metadata call / the paths and descriptions
  EXTENDS Utf16, Dimensions, Casts
BufferSizing  --EXTENDS-->  Casts      arithmetic of one decode
ExtensionMatch / MCExtensionMatch      one matching call / its inputs

*_proofs                        theorems about the module named
```

**PixelBufferLifecycle.** `live` and `content` are the heap, `registry`, `lock` and `poisoned` the
`Mutex<HashMap>`, `buffer` the host's structs (`dims` stands for width, height and stride; the pixel
format is the constant 1 and not cleared by free), and `pc, slot, ptr, img, ret` a thread's position,
argument, locals and last status. Each action is a step another thread can observe. `Register` and
`Unregister` are the critical sections; acquiring the lock is an action of its own, because a poisoned
lock is also waited for (`buffer_registry.rs:70, 93`). `Alloc` returns any address that is not allocated,
so addresses are reused in every possible order, and leaves the contents indeterminate: `malloc` does not
clear memory (finding 6). `RegisterPanics` is a panic in `HashMap::insert` with the lock held; it is what
the poison handling of the code is for, and the constant `MayPanic` turns it off. The host is arbitrary:
`HostStore` puts any pointer into any struct and the same struct may be in several calls.

**ExclusiveHost** restricts that host: one call per struct at a time, no writes into a struct, and a
decode only into a struct that holds nothing. `granted` records what it was given. Two constants make it
careless. With `DoubleFrees` it also keeps bitwise copies of structs it has freed (`stale`), and frees a
copy again. With `Overwrites` it decodes into a struct whose image it has not freed; `forgotten`, a
history variable, has the pointers lost that way. **BufferOwnership** is what such a host without copies
may rely on: a struct holds one image from the `Ok` of a decode until it is freed, and no call on another
struct changes that. It knows no addresses, heap, registry or lock. The refinement mapping `Holds` reads a
struct as holding an image iff it points at a registered buffer whose pixels match its dimensions.

**PluginInit.** `value[c]` is the content of a `OnceLock`, identified by the thread that built it,
`builder[c]` the thread inside the init closure; `refs` is what the capability's pointers refer to.
`Skip`, `StartBuild` and `FinishBuild` are `get_or_init`; `BuildPanics` is the panic `HashMap::new` may
raise when it is refused random keys, after which `OnceLock` lets another thread try and `catch_unwind`
answers null. `handed` records every table given to the host; the table calls may be made by any idle
thread once the tables are there. **Loading** is what all this promises about hosts: the first one
accepted is adopted, is never replaced - not by another host, nor by a load that fails after it was stored
- and is known before any table is out. `AdoptsOneHost` is the refinement, with `hostApi` as the host and
  "a plugin table was handed out" as `ready`.

**HostCallbacks.** The plugin calls the host's log function from three places: matching an extension, a
decode that cannot read its file, and shutdown. That function is the host's own code and may call the
plugin again on the same thread, so a thread has a stack: `depth[t]` nested calls, `at[t][d]` the program
point of each, `told[t][d]` the host whose log function a call waits for. All calls but the last are at a
callback point. `Call` is guarded by exactly that: a thread is outside, or in a log function. Of loading
and of the registry the module keeps what a thread can wait for (`loaded`/`builder`, `lock`); the rest is
in `PluginInit` and `PixelBufferLifecycle`. A host table without a core pointer or a log function (`Hosts
\ LoggingHosts`) makes every message silent. `TearDown` is a host that is ending: its log function goes
while frees may still run or come, which is what `allocator.rs:3-10` and SPECIFICATION.md:441 provide for.
`plugin_shutdown` changes no state, so calls after it are as legal as before.

**BufferSizing.** The casts `as i32` and `as usize` and the checked products for words of any width; the
code has `HalfI32 = 2^31`, `UsizeValues = 2^64`. The cast itself is in **Casts**, shared with the
metadata. The one assumption about `malloc` is `MallocMax < UsizeValues - HalfI32`: no allocation comes
within an `i32` of the whole address space.

**ExtensionMatch.** One call on a sequence of code units: the bytes given to the log, and the answer. The
answer 0 for an empty `PLUGIN_EXTENSIONS` (`codec.rs:111`) is left out: by `HandedWhenReady` the cell is
filled before the host has the table.

**FileAccess.** One call from validation to its status, the file changing up to `MaxChanges` times.
`handle` is what the opened file contains now: `Modify` writes through it, `Replace` leaves it with the
old file, which `ModifyOpened` - another process that still has it open - may go on writing. `seen` is a
history variable, the states during the call of the files the path has named; `Oversized` and `Prefixed`
are the two size checks. A file's contents are reduced to size, format and whether it can be opened and
read.

**MetadataText** has the data such a metadata call carries, which `FileAccess` leaves out: the path from
the host's code units to the string that is opened (**Utf16**: `Text` is `from_utf16_lossy` on the first
`length` units, null and empty references are refused before), and width and height from the profiles to
the host's struct (**Dimensions**: `ParseDimensions` follows the code through `find`, `trim`, `parse` and
`take_while`; **Casts**: `as i32`). `Declared` says what a description means without a parser and is what
the parser is compared with: a layout of blanks, digits and the multiplication sign, and for each group of
digits the numbers it `Denotes`, those whose decimal digits stand there. What `ithmb_core` answers
(descriptions, a profile or none, a database that loads or not) is an input.

Definitions under a comment "Slip" are deliberately wrong variants used to try the properties (`mutants`
in `PROJECT.json`): each property of a passing run is shown to fail when its slip is put in place of the
definition it imitates. No specification uses them.

## 3. Runs

| Run | Instance | States | Shows |
|---|---|---|---|
| `lifecycle` | 2 threads, 1 struct, 2 addresses, 2 images, arbitrary host | 213,453 | `OwnedAccess`, `RegisteredIsUsable`, `UndoneOnlyWhenPoisoned`, `AtMostOneOrphan`, `RegisteredPixelsStable`, `PoisonFreezesRegistry`, `CallsReturn` |
| `exclusive_host` | 3 threads, 2 structs, 3 addresses, 2 images | 22,536 (symmetry) | `HeldIntact`, `HeldDistinct`, `HeapBalances`, `Refinement` |
| `double_free_contained` | 2 threads, 2 structs, 3 addresses, 1 image, a host that frees copies and overwrites structs | 350,308 (symmetry) | `DamageContained`, `HeapBalances` |
| `double_free_reuse` | 2 threads, 2 structs, a host that frees copies | violation | finding 1 |
| `plugin_init` | 2 threads, 2 host pointers, 2 panics | 120,755 | `HandedWhenReady`, `OneTable`, `CapabilityComplete`, `NeverInternal`, `AdoptsOneHost`, `GetApiReturns` |
| `host_callbacks` | 2 threads, up to 3 nested calls, 3 hosts of which one cannot log | 109,543 | `HoldersRun`, `MessagesToFirstHost`, `TornHostNotCalled`, `LoadsOneHost`, `NestedCallsReturn` |
| `extension_match` | 4,117 extensions | 12,351 | `AsciiExact` |
| `extension_alias`, `extension_log` | the same | violation | findings 2 and 3 |
| `buffer_sizing` | 73 x 73 dimensions, 5-bit `i32`, 8-bit `usize` | 11,240 | `StructMatchesAllocation`, `CopyInBounds`, `DimensionsExact` |
| `file_access` | 14 files around both limits, 2 changes | 125,801 | `StableFileExact`, `RefusalExplained`, `OversizedReadIsRace`, `MetadataFromCall` |
| `metadata_text` | all paths of up to 4 units, all descriptions of up to 5 characters, lists of up to 3 | 129,454 | `PathFaithful`, `DimensionsFromProfiles` |

**Why the bounds are enough.** Two threads, one struct and two addresses already contain the critical
races: two frees of one struct, a decode that is given the address another thread is freeing, a panic with
another thread waiting for the lock. A double free needs one address, its reuse another thread, a leak
bound of one the second address. Two structs and a third thread are needed to show that calls on different
structs do not disturb each other, hence `exclusive_host`. The safety properties of the lifecycle and of
loading are in addition proved for every number of threads, structs and addresses. Two panics let the same
cell fail twice, once for each thread. The scaled-down widths of `buffer_sizing` keep the code's
proportions (an `i32` is smaller than `usize`, `malloc` serves less than half) and 73 dimensions go
through every wrap of the cast more than twice; the proof covers the real widths. `SizeLimit = 8` and a
4-byte prefix put files on and beside both boundaries. Two changes allow a different file at each of size
check, open and read, and a replaced file that changes once more. The extensions are the known ones in all
case mixtures, with units 256 above and beyond ASCII, one unit short or long, and of the same length with
one unrelated ASCII unit - among them 14, which a case folding by bit would take for a dot.

In `host_callbacks` the second nested call is made by a callback and the third by the callback of a nested
call, so that every kind of call is seen waiting below, between and above others; of two threads one can
hold the mutex or an initialisation while the other is in a callback; three hosts are the stored one,
another that logs, and one that does not (stored or not). `HoldersRun` is what excludes deadlock: the
holder of the mutex and the builder of the cells are neither in a log function nor waiting. The safety
properties are proved for every depth and number of hosts. One image is enough in `double_free_contained`:
its host loses and re-frees addresses, and `exclusive_host` has two images for the pixels. The safety
properties of `metadata_text` are proved for inputs of any length; its units are a letter, both ends of
both surrogate ranges and the units just outside; four of them hold a pair between two others, and a
length one short cuts it. Eight characters take part, four digits among them; five of them in a row hold a
sign, a blank and two digits beside the multiplication sign; longer numbers come from the lists, among
them ones beyond `usize` (here 0..150) and beyond `i32` (here -50..49).

Symmetry is used in the runs of `MCExclusiveHost` only, where every property is a safety property and the
constants permuted occur symmetrically; threads of liveness runs are not permuted.

Deadlock checking is off for `ExtensionMatch`, `BufferSizing` and `MetadataText`, which model one call and
stop after it. Everywhere else the host can always call again.

**Fairness.** `FairSpec` of the lifecycle and of loading assumes weak fairness of each thread's steps
inside the plugin: a thread that can run is scheduled by the operating system. The host need not call
anything. Waiting for the mutex is not fair: a thread could in principle be overtaken for ever by threads
that keep calling, so `CallsReturn` says that the calls return once the host stops making new ones.
`GetApiReturns` needs no such condition: a thread in `ig_plugin_get_api` waits only for a cell to be
filled. `HostCallbacks` assumes in addition that the host's log function returns, which the plugin has to
rely on; `NestedCallsReturn` again speaks of hosts that stop making calls, since a log function that
always calls the plugin again never lets its caller go on.

## 4. Findings

1. *The registry does not prevent every double free* (`double_free_reuse`). It recognises addresses, not
   allocations: a copy of a freed struct frees the buffer that now lives at the same address.
   `DamageContained` states what remains true: only buffers at an address of which the host kept a copy
   can be hit.
2. *Non-ASCII extensions are accepted* when their low bytes spell a known one (`extension_alias`).
3. *Bytes 128 to 255 reach `from_utf8_unchecked`* (`extension_log`), against its safety comment.
4. *Metadata of an unreadable file is `DecodeFailed`*, not `IoError` as documented; `StableFileExact`
   states what the code does.
5. *A later host pointer is ignored, not identical*: the comment at `lib.rs:232` calls a pointer whose
   `set` fails "identical", but nothing compares it. Every message goes to the first host
   (`MessagesToFirstHost`, `AdoptsOneHost`), which must outlive the plugin.
6. *Pixel buffers are not zero-initialised*, although `decode.rs:97` and SPECIFICATION.md:222 say so;
   `RegisteredIsUsable` states why it does not matter: no buffer is registered or published before it is
   written in full.

Findings 1 to 3 are violations TLC exhibits; in 4 to 6 the runs show what the code does in place of what
is documented. Two more observations. Cancellation is documented as the answer `Canceled`
(SPECIFICATION.md:367, 438), but the flag the decoder polls is the call's own and the host's token is
never read (`decode.rs:39, 71`; TECH_DEBT_AUDIT.md:51 has it as open work); this is read off the source,
and `FileAccess` therefore has no cancellation and no property about it. And a file that grows between the
size check and the read is read whole, so "rejected BEFORE reading" (`lib.rs:69-71`) holds for a file that
keeps still; `OversizedReadIsRace` says that this race is the only way.

## 5. Proofs

All leaves are checked by TLAPS; nothing is assumed but the named assumptions on the constants.

- **PixelBufferLifecycle_proofs**, for any sets of threads, structs, addresses and images, poisoning
  included. The inductive invariant adds three facts to the properties: `LockDiscipline` (the lock's
  holder is exactly the thread in a critical section, and no thread is inside one of a poisoned mutex),
  `DecodedCall` (after decoding there is a struct and an image) and `CopiedPixels` (after the copy the
  buffer holds the image). `OwnedAccess` carries the argument: a pointer is owned by exactly one of the
  registry and the threads past `malloc` or past `unregister`. It is inductive only together with
  `RegisteredIsUsable`, since a registered address that is not allocated could be handed out twice. One
  lemma per conjunct, one step per action that can disturb it.
- **PluginInit_proofs**, for any number of threads, hosts and panics. The invariant adds `Progress` (a
  thread has initialised cells behind it), `Building` (a cell has at most one builder, which is at the
  cell, and only while it is empty) and `HandedFromCells`. From "nothing is handed out while a cell is
  empty" it follows that no cell changes any more once a table is out. `LoadingImplemented` is the
  refinement: `SetHost` on an empty pointer adopts, the first plugin table handed out answers - by
  `Progress` the host is known by then - and every other step leaves host and readiness alone.
- **ExclusiveHost_proofs**, for any threads, structs, addresses and images, poisoning included. `HInv`
  builds on the lifecycle's theorems and is an ownership argument: the pointers a conforming host may pass
  are those of structs and of calls that have loaded one (`PointersOwned`); each of them that is not
  `stale` is registered (`OwnedRegistered`), has one owner (`OneOwner`), and holds the pixels its struct
  describes (`PixelsMatch`); and a registered buffer is owned, forgotten or `stale` (`RegisteredOwned`).
  `OneCallPerStruct` and `FreeingCalls` tie calls to structs. The last theorem is the refinement of
  `BufferOwnership`, by cases on the plugin's steps: only `Publish` and `ClearStruct` change which struct
  holds what. `HeldIntact`, `HeldDistinct` and the refinement assume a host without copies (the run
  `double_free_reuse` shows why), the refinement also one that overwrites nothing; `DamageContained` and
  `HeapBalances` hold for every host.
- **HostCallbacks_proofs**, for any threads, hosts and depth of nesting. `HeldAtTop`: whoever holds the
  mutex or builds the cells does so in its last call, at a point of that critical section, which is no
  callback point. `ToldByWaiting`: a message is told by a call that is waiting, to the stored host; since
  that is set once, delivery never changes address. `TornOnlyFrees`: after `TearDown` every call, at every
  depth, is a free. One lemma per kind of step (call, tear-down, log, return of the log function, quiet
  step, acquisition, return), since the actions differ only in their points.
- **FileAccess_proofs**, for any files, size limit and number of changes. The invariant says where a call
  can be, given its arguments and answer (`Progress`), and that whatever it has looked at is a state in
  `seen`: the opened file (`HandleSeen`), the size (`StatSeen`), the bytes (`BytesSeen`), the metadata
  written (`InfoRead`). From there each answer is explained by its own branch.
- **BufferSizing_proofs**, for all widths. The key is `SignExtension`: a negative factor becomes larger
  than `MallocMax`, so the product is zero or refused.
- **ExtensionMatch_proofs**, for all sequences of code units.
- **MetadataText_proofs**, for paths and descriptions of any length, any number of descriptions and any
  widths of `usize` and `i32`. The operators are recursive functions and folds, so the proofs are by
  induction over positions. The library's induction theorems take an operator as a parameter, which the
  provers cannot instantiate; `Induction` and `LeastNatural` therefore speak of a set of numbers and
  follow from `NatLessThanWellFounded`, and `Recursion` derives from them that the functions the operators
  define by recursion exist and have their values. On these rest the three theorems about the conversions.
  `DecimalExact`: reading digits from left to right gives the one number they denote (`LastDigit` adds a
  digit on the right). `ParseMeetsDeclaration`: a description `parse_dimensions` accepts declares exactly
  the two numbers it returns, one it refuses declares nothing. It shows that every layout puts the width
  where `Trim` leaves it and ends the height where `LeadingDigits` does (`LayoutFirst`, `WidthRead`,
  `HeightRead`), so that there is at most one layout. `LossyRestores`: decoding a path and encoding the
  result gives back each code unit, an unpaired surrogate replaced. `LossyStep` goes by cases on the unit
  at a position (a pair, an unpaired surrogate, any other unit) and `Boundary` says why decoding never
  starts in the middle of a pair. The invariant of a call is then short: an opened path is the text of the
  host's (`PathInv`), and what is known and answered comes from the first description that can be read
  (`InfoInv`; `FirstReadableDeclares` connects it with `Declared`). The module assumes what its inputs are
  made of (`InputsAssumption`), that an `i32` has positive values (`HalfAssumption`), that `usize::MAX` is
  a natural number (`UsizeAssumption`) and that null is no status (`NullAssumption`).

Three modules also prove what is behind their liveness properties. `NothingTriedTwice` and
`NothingBuiltTwice`: every step of a call leaves it fewer steps to take, and nothing others do adds any,
so a decode or free takes at most six steps, a load ten, a call of `HostCallbacks` four. `NoDeadlock`: the
thread another one waits for is at a step that waits for nothing. A call can therefore only stay away by
waiting for others without end. That it returns under fairness - the rest of `CallsReturn`,
`GetApiReturns` and `NestedCallsReturn` - is model-checked only, since it needs ENABLED, which is out of
the provers' reach. The properties of these theorems (`CallsAdvance`, `LoadsAdvance`, `HolderInside`,
`BuildersRun`) are stated in the proof modules and belong to no run.

`HostCallbacks_proofs` closes with a second implementation of **Loading** (`LoadingImplemented`):
`HostCallbacks` has loading in less detail than `PluginInit`, but with loads inside log functions, and
keeps the same promise, `LoadsOneHost`. `LoadUnderWay` is what the mapping needs: all calls of a thread
but the last are in a log function, a load carries its host until `HOST_API` has one, and has one from
then on.

## 6. Not modelled

Memory ordering is not modelled: the shared data are behind a mutex or a `OnceLock`, which synchronise.
Publishing and clearing the host's struct are one step each. Calls that write one struct at the same time
race on the host's memory; what such a race can leave there is among what `HostStore` can put there.
Reading a file is one step of `FileAccess`: contents mixed from two writes are not distinguished, since
only size, format and readability are. Panics inside a decoder or a file operation end the call with
`Internal` through `catch_unwind` like the error paths next to them and have no actions of their own; the
panics that leave something behind (a poisoned mutex, a half-filled set of cells) do. The text of log
messages is not modelled, except for the bytes of an extension. `ABI layout` - struct sizes and offsets -
is fixed at compile time and pinned by unit tests. `BufferRegistry::contains`, `len` and `is_empty` are
not called by the plugin. The animation and encoding entries of the codec table are null. The numeric
values of the ABI structs and `ithmb-core` itself are out of scope. CI scripts and packaging are not part
of the running program.

## 7. Plan

Done in this order: lifecycle and its proof, ownership and refinement, loading and its proof, sizing,
extensions, file access; then callbacks and their proof, the abstract specification of loading and its
refinement, careless hosts and the proofs of ownership, the proofs of file access, metadata text, and its
proofs. What could still be added:

1. `Plugin`: loading composed with the lifecycle, so that decode's registry is the cell the loading
   filled. `NeverInternal` already covers the interface between the two (`UseRegistry`); a product of both
   state spaces would repeat it.
2. `HostCallbacks` with a poisonable mutex: a panic below a nested call.
