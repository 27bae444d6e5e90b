# A TLA+ verification of the latte device tree

The repository is the Android device tree of the Xiaomi Mi Pad 2 ("latte",
Intel Cherry Trail, 32-bit x86 userspace): HAL modules in C, shims that give
old vendor binaries the C++ classes they were linked against, a crash-dump
collector, init scripts, and configuration. This directory holds TLA+ models
of its own code, TLC configurations that check them on small instances, and
TLAPS proofs of the main results for every instance.

`PROJECT.json` lists the components, the runs, one mutant per checked property,
the source lines every definition models, the findings, the hazards and the
theorems.

## Inventory

| part | source | state it keeps | operations | what is hard |
|---|---|---|---|---|
| Lights HAL | `liblight/lights.c` | three `light_state_t` requests, `g_lock`, `g_init`; the sysfs files | `open_lights`, `close_lights`, five `set_light_*` | three requests share one LED; nine unchecked writes per update; threads; a mutex initialised twice |
| Power HAL | `libpower/power.c` | three flags, a touch counter, a countdown, two time stamps, none locked | `intel_power_hint` (touch, vsync), `init` | thresholds on a CPU-time clock that wraps; long hint sequences; hints from two threads |
| Sensor manager shim | `shim/gui/SensorManager.cpp` | cached service proxy, sensor list, death observer, `mLock` | constructor, `getSensorList`, `getDefaultSensor`, `createEventQueue`, death notice | the service dies at any step; the notice comes late, on another thread, and needs `mLock` |
| pstore-clean | `pstore/pstore-clean.c` | the pstore mount, `DST`, rule destinations | one run of `main` per boot | calls of `main` fail; reboot at any step; new dumps after a panic |
| Graphic buffers | `shim/ui/*.cpp` | handles and how to release them, wrapped buffers, the allocation list, fences | constructors, destructor, `reallocate`, `unflatten`, `alloc`, `free`, `lockAsync` | ownership of handles over many calls; a list updated outside the gralloc call; error paths that clear fields |
| Camera metadata | `shim/camera/CameraMetadata.cpp` | one buffer, a lock flag | `lock`, `unlock`, `acquire`, `release`, `update`, parcels | ownership transfers; failure in the middle of a resize |
| Color converter | `libcolor/ColorConvert.cpp` | none | NV12 to and from I420 | plane offsets for odd sizes and strides |
| Init scripts | `ramdisk/*.rc` | properties, services | triggers on `sys.usb.config` and others | init's own queue of triggers, which is not in the repository |
| ICU and fence shims | `shim/shim_*.c*` | none | symbol forwarding | nothing |
| Policy, overlays, build files, blobs | `sepolicy`, `overlay`, `*.mk` | static | none | nothing to execute |

The parts run in different processes and meet only through the system: init
mounts pstore and starts `pstore-clean`, `system_server` loads the two HALs and
calls them from several threads, vendor binaries load the shims. That is why
there is no module that composes them all. Where components do call each other
the modules are composed: `GraphicBuffer` makes its steps out of those of
`GraphicBufferAllocator` and of the mapper, and `PstoreClean` takes the result of
`BaseFileName` as its constant `Base`. `SharedLed` is the abstract specification
that `Lights` implements.

## Modules

* **`Lights`** (`lights.c`). `g` holds the three requests, `sysfs` the eight
  files, `g_lock` and `once` the mutex and the `pthread_once_t`, `devices` the
  open devices, `call[t]` the call a thread is in. `set_light_speaker` stands
  for the three speaker functions: it takes the lock and records the request
  (`set_light_single` stands for the other two, which write one file);
  `write_int` and `write_int_fails` then make the nine writes of
  `handle_speaker_battery_locked` one by one (`RepaintWrite`), and `Unlock` ends
  the call. Two history variables serve the properties: `stale`, the files whose
  last write did not succeed (all of them before the first write), and
  `call[t].clean`. The division of a color by 255.0f and multiplication by
  48.0f, truncated, equals `(48 * c) \div 255` for every byte `c`. The 20 ms
  sleep is just another place where other threads run. Callers pass the device
  they opened, so the NULL checks on `dev` never fire. Durations are not
  negative. What the LED driver does with a value is outside.
* **`SharedLed`** says what the speaker lights promise, without threads, mutex or
  single writes: requests are taken up one at a time, at once, and after each the
  LED comes to show the request in charge, save the files whose writes failed.
  `Lights!ImplementsSharedLed` states that `Lights` implements it: a request is
  taken up when the thread has the mutex, the LED is being painted while a
  speaker call is in progress, and a stale file holds an unknown value.
* **`LightsProofs`** proves the properties of `Lights`, and that its steps are
  steps of `SharedLed`.
* **`PowerHint`** (`power.c`). One action per path through the handler:
  `ShortTouch`, `MediumTouch`, `LongTouch`, `ReleaseVsync`, `Vsync`, each the
  whole handler; `Advance` moves `clock()`, which wraps. Hints come one at a
  time. `pulse` records what the step wrote to sysfs and `boosts` counts vsync
  pulses since the last release. `Init` is the state after `intel_power_init`,
  whose write of the touch-boost frequency no property depends on. Times are
  whole milliseconds; the rounding of `float` (well below a millisecond) is left
  out.
* **`PowerRace`** is the same handler called by two threads at once, one for
  touches and one for vsyncs (the two services that send them each do so from
  one thread), one load or store of a shared static a step. Stores with no call
  between them may be reordered by the compiler and are made in any order. Gaps
  are long, medium or short; `late` is what the vsync thread found out about the
  time since the last touch. `raced` remembers that two handlers overlapped,
  until a first touch runs with no vsync beside it.
* **`PowerHintProofs`** and **`PowerRaceProofs`** prove the safety properties of
  the two.
* **`SensorManager`** (`SensorManager.cpp`). Service incarnations are numbers, a
  list is the incarnation it came from. `Call` takes `mLock`; `Connected`,
  `getService`, `NameNotFound`, `GiveUp`, `linkToDeath`, `FetchSensors` are the
  steps of `assertStateLocked`; `UseCache`, `NewConnection`, `NullConnection`
  are what the three calls do with it. `sensorManagerDied` runs on a binder
  thread when `mLock` is free. `Spec` starts after a construction that found no
  service, the state every later connection is made from; `CtorSpec` adds the
  constructor, which runs the same steps without the lock. Binder and the
  service are external, modelled from their use: a death queues one notice for
  the linked observer, a link to a dead process is answered by a notice or (with
  `LinkMayFail`) refused, a dead service answers with an empty list or a NULL
  connection. `SensorManagerProofs` proves its safety properties.
* **`PstoreClean`** (`pstore-clean.c`). `pc` walks through `main`; `todo` is the
  rest of the directory listing, taken from its end. Copies take two steps (open
  or header, then data), so a reboot can fall between them. A read error, a
  write error and a short write all leave a partial copy, which is all the
  control flow can see. `Reboot` models init: pstore is mounted again, a panic
  may have left new dumps, and with `PowerLoss` unsynced copies may be gone.
  Which calls may fail is the constant `Faults`: those whose result decides where
  `main` goes or what it leaves behind. Two failures it takes for success, and the
  history variable `ignored` remembers them: a `readdir` error, which
  `dir_not_empty` cannot tell from the end of the directory, and that of the last
  `rmdir`. `old` counts the entries of a `DST` that a failing `stat` in
  `file_exists` kept from being deleted. The rules are those `config_load_file`
  has loaded; a configuration that cannot be loaded is the instance without rules.
  `PstoreCleanProofs` proves its safety properties.
* **`BaseFileName`** (`getbasefilename`): the loop, one iteration a step, over
  strings of character classes; `PstoreCleanProofs` proves it correct. Its
  definitions are named `BaseInit`, `BaseNext` and so on, so that one module of
  proofs can extend both it and `PstoreClean`.
* **`GraphicBufferAllocator`** (`GraphicBufferAllocator.cpp`). The gralloc device
  and `sAllocList` are two maps over handles. `alloc` and `free` are two steps
  each, the device call and the update of the list under `sLock`, since other
  threads run between them; an address the device takes back it may give out
  again at once. A record is its width, which tells records apart.
* **`GraphicBuffer`** (`GraphicBuffer.cpp`, with `GraphicBufferMapper.cpp`). `obj`
  holds the fields of each object and whether callers still reference it, `call`
  the call in progress on it, `native` the handles that are `native_handle_t`s:
  a client's or made by `unflatten`. The actions are the four constructors, the
  destructor, `reallocate`, `unflatten` and `lockAsync`, each cut where the
  allocator or `sync_wait` lets others run. `Verdict` decides from the integers
  of a parcel how far `unflatten` gets; `Way` from the functions a gralloc module
  implements which way the mapper locks. `lost`, `stale` and `unsized` are
  history variables: handles the code lets go of without releasing, objects whose
  handle was taken away under them, objects a failed allocation left with their
  old width. gralloc, the fence and reference counts are external; a client
  gives away ownership only of what is its own and makes one call at a time on an
  object. `flatten`, `dump`, `lock`, `unlock` change nothing of the shim's state.
* **`GraphicBufferProofs`** proves the properties of both modules.
* **`ColorConvert`** (`ColorConvert.cpp`). The four loops, one row a step. A byte
  is the offset it had in the decoder's frame, so the image is compared sample by
  sample with the NV12 and I420 layouts, which are defined on their own. Every
  offset read or written is recorded. The decoder's frame is as large as the
  converter's own formula for a buffer says. `ColorConvertProofs` proves its
  properties.
* **`CameraMetadata`** (`CameraMetadata.cpp`). `mBuffer` and `mLocked` are the
  fields of each object, `heap` what the library holds at each address, `raw` the
  buffers the client owns; one action per method that changes something. A buffer
  is its entry count, data count and capacities, which is all `resizeIfNeeded`
  and the library's refusals look at; tags are left out, so a lookup finds any
  entry or none, and a replaced or deleted entry may have taken any part of the
  data. `resizeIfNeeded` is a set of outcomes; any allocation may fail. `stale`
  records from where the library has read after the free: a buffer that is not the
  object's own, the first byte of its own, or further inside it (`Kind`). `res` is
  the returned status, with the library's one error split into `ERROR` (a NULL
  buffer, or garbage) and `NO_ROOM`. The client hands over or frees only what it
  owns; it may append any object's metadata to any object, the same one and an
  empty one included. The counts of a NULL source are read through the pointer:
  the process dies (`Die`) and the next starts from nothing. A source that the
  resize has freed is read all the same: the library then adds as much as the
  counts it finds and its capacity check allow, refuses, or the process dies
  (`StoreGarbage`). The methods that only read (`find`, `exists`, `entryCount`,
  `dump`) are not actions.
* **`MetadataParcel`** (the static `writeToParcel` and `readFromParcel`). One step
  per call on the `Parcel`; the blob byte by byte, so that a wrong offset shows.
  The parcel holds int32 values and the code computes with `size_t`: `Int32` and
  `SizeT` are the casts, `Half` and `SizeMod` the widths (2^31, and 2^32 or 2^64).
  A reader gets the parcels whose writer reported success and parcels of other
  senders with every int32 for the size and the offset and a blob of every length,
  whatever the size says. Its definitions are named `ParcelInit`, `ParcelNext` and
  so on, for the same reason as those of `BaseFileName`.
* **`CameraMetadataProofs`** proves the properties of both.
* **`MCLights`, `MCPstore`, `MCBaseFileName`, `MCCameraMetadata`,
  `MCGraphicBuffer`** give the instances; the other
  specifications take their constants from the `.cfg` directly.

Definitions whose comment starts with "Mutant" are faulty variants of the
definition that follows; no specification uses them.

## Runs

| run | instance | shows |
|---|---|---|
| `lights` | 2 threads, 2 speaker lights and the backlight, 3 requests (off, steady, flash), a failing LED file | `ArbitrationShown`, `CleanCallRepairs` and `NeverBlinkAndGlow` at every step of a repaint, with concurrent calls; `MutexNeverReset`; `TypeOK` (values on the driver's scale); `LockReleased`; the refinement `ImplementsSharedLed`, its liveness included |
| `power_hint` | 10 ms grains, a clock of 240 ms | the budget and the stages, with every threshold met, missed and passed, and the clock wrapping |
| `power_race` | a touch and a vsync thread, 17 short gaps | `BudgetSurvivesRace`, `RaceNeverDisablesTouch`, `FirstTouchHeals` over every interleaving of loads and stores |
| `sensor_manager` | 2 callers, all calls, 3 incarnations, refused links | `CacheCoherent`, `NoticeIsForCurrentServer`, `DeadServerNoticed`, `NeverCrashes`, `ListCallsEnd` |
| `sensor_queue` | only `createEventQueue` | **violation** of `LockReleased` |
| `sensor_ctor` | the constructor | **violation** of `NeverCrashes` |
| `pstore_clean` | 4 dumps (2 default, 1 kept, 1 moved), 2 reboots, 13 kinds of failure, power loss | `KeptStays`, `SuccessMeansClean`, `DstInOrder`, `NoDumpVanishes`, `RunEnds` |
| `metadata_ownership` | 2 objects, 3 addresses, 2 entries, failing allocations | `OneOwner`, `NoReadAfterFree`, `NeverFull`, `LockedFrozen`, `LeaksOnlyThere` |
| `metadata_parcel` | alignment 4, sizes to 5, addresses to 8, 4-bit integers (`Half` 8, `SizeMod` 16); other senders: every size, offset and blob length of that width | `InBounds`, `ParcelAgrees` |
| `graphic_buffer` | 2 objects, 2 handles, any gralloc module, every refusal | `ReleasedOnceAsMade`, `NoDanglingHandle`, `NothingElseLost`, `SizeHasHandle`, `FenceHandled`, and of the allocation list `RecordsAreCurrent`, `MissedOnlyByReuse` |
| `color_convert` | every rectangle of every frame to 6 by 6 | `StaysInBuffers`, `ImageRight`, `EncoderSeesRect` |
| `base_file_name` | every string in a 5-character buffer, garbage in the result buffer | `BaseIsCorrect` |

`NoDumpVanishes` exempts the dumps in the history variable `forgone`: those
whose open or copy failed, those a power loss took from the disk, and those in a
`DST` that a later run started over. What is left is the claim that the order of
the steps (copy, then unlink, then the next dump) loses nothing at a reboot. In
the same way the properties of `GraphicBuffer` exempt what its history variables
name, each of which is one path of the code listed under Findings: the claim is
that there is no other. `SuccessMeansClean` exempts the two failures in `ignored`,
`DstInOrder` the entries counted by `old`, and `NoReadAfterFree` the object's own
buffer given by its first byte.

The other type invariants (`TypeOK` of every module but `Lights`) carry little
beyond the variables' types; the proofs have them where a step needs them.

Why the bounds are enough. Lights: what a repaint writes depends on the request
in charge alone and what it must erase on the one before it, so a handful of
requests that take every path, in all orders, meets every pair; two threads
suffice for a mutex. (The button light, which the instance leaves closed, differs
from the backlight in its value only, which `TypeCorrect` covers.) Power: the comparisons only see which side of 20, 30 and
100 ms a gap is on, which 10 ms grains cover, and `MaxTouches = 17` lies past
both counters' limits (4 and 15). Sensor manager: one incarnation to be cached,
one to replace it, one to replace that. pstore: two default dumps show the order
within `DST`, two reboots an interrupted run followed by an interrupted run; a
rule that discards takes the path of a move whose destination cannot be opened.
Metadata: an operation touches at most two objects and holds at most three
buffers (two and the new one), and the comparisons of `resizeIfNeeded` are met
from below, at and above the capacity with two entries; data units, which it
treats the same way, are left to `OwnershipCorrect`. The parcel's arithmetic
depends on the address modulo the alignment; with 4-bit integers the sizes sent
wrap in the cast to int32, and every int32 and every length below `SizeMod` can be
tried. Graphic buffers: an operation
concerns an object and at most one that it wraps, and the race needs two callers
and one address; the second address lets a released buffer be replaced by
another one (three addresses give nothing new, they have been run as well). One
fence is open at a time, as no path looks at two. The two objects and the two
handles are interchangeable, hence the symmetry. The power race: one thread each,
and the counters' limits 4 and 15 passed. Colors: the code halves widths, heights
and corners, so sides to six have rectangles with every parity of size and
corner, up to three chroma rows. `MaxWidth`, `MaxSide`, `MaxDevices`, `MaxIncarnation`, `MaxBoots`, `MaxTouches`,
`MaxFile`, `MaxEntries`, `MaxData`, `MaxSize` and `MaxAddr` are the
bounds; the theorems hold for every value of theirs (`MaxSize` below what the
writer's cast can carry).

Deadlock checking is off only for `pstore-clean` (a run ends, and the number of
reboots is bounded), `getbasefilename` and the color converter (a function
returns).

Fairness. `Lights`: weak fairness of a thread that is inside a call: its writes
return and `pthread_once` lets waiting threads through; nothing is assumed about
who gets the mutex. `SensorManager`: weak fairness of a caller inside a call;
nothing about the service, the notices or who gets `mLock`. `PstoreClean`: weak
fairness of the process; system calls return. `SharedLed`: painting ends, which
the fairness of `Lights` gives. The graphic buffers and the power race have
nothing that must eventually happen in the repository's own code.

## Findings

1. `createEventQueue` never returns once the service has died under it: its loop
   keeps `mLock`, and the death notice that would clear the connection waits for
   `mLock` (`sensor_queue`).
2. The constructor of `SensorManager` does need the lock its comment says it
   does not: after `linkToDeath` a notice can clear `mSensorServer` before the
   constructor dereferences it (`sensor_ctor`).

Facts worth knowing, met while modelling, that no run is about:

* Lights: a battery request with flash timing and a color of alpha only blinks
  white; a request whose color is below 6 on every channel, or whose flash is
  never on, is "lit" and hides lower requests while the LED is dark.
* Power: gaps are measured with `clock()`, the processor time of the process, so
  that a touch after an idle gap may count as part of a scroll, against the
  comment on `LONG_TOUCH_TIME`; the touch counter survives a release, so one short
  gap soon after a scroll disables the touch boost again; a vsync boost left over
  from a release is spent on vsyncs right after the next touch; two hints at once
  can leave flag and countdown apart and the count at -1, until the next
  undisturbed first touch.
* Sensors: a refused `linkToDeath` leaves a dead server cached for good; sensor
  pointers handed out die with the service.
* pstore: a dump is unlinked also when its copy failed (lines 275 and 297); `DST`
  is deleted whenever pstore holds anything, kept dumps included; nothing is
  synced; a `readdir` error ends the run as a success with every dump still there;
  a failing `rmdir` is logged and the run still returns 0; when `stat` fails on
  `DST` the dumps are appended to the old one.
* Camera metadata: a resize whose allocation fails loses the object's metadata
  and leaks the old buffer; a raw buffer handed to a locked object is taken by
  nobody, and `acquire` from a locked object leaves that object its metadata and
  frees the acquiring object's own (both logged, neither reported to the caller);
  `append` of a NULL buffer, that of an empty object for instance, reads through
  the pointer; `append` of an object to itself reads the freed buffer when it has
  to grow, and so does `update` with data at the first byte of the object's own
  buffer, which the strict comparison of line 297 lets pass; `writeToParcel` returns
  the status of its last call,
  so that it reports success after a failed `writeBlob` (the reader then fails).
* Graphic buffers: `free` returns a handle to gralloc before it removes the
  record, so a buffer allocated at that address in between goes missing from the
  list; `unflatten` loses the handle when the counts are too large and when
  `registerBuffer` fails; it asks for eight ints and reads ten; `flatten` and
  `unflatten` advance the caller's byte pointer by a number of ints; a lock
  refused for its rectangle leaves the fence open and the result of `sync_wait` is
  ignored; a failed `reallocate` leaves the old width without a handle; a wrapper
  keeps the old handle when the wrapped buffer is reallocated or unflattened.
* Colors: an odd height makes the I420 chroma planes overrun the buffer, an odd
  top edge shifts chroma by a row, and the two conversions place the V plane by
  formulas that differ for odd heights.

## Proofs

A proof module has one inductive invariant, a conjunction of named parts, one
lemma or step per action that keeps it, and the theorems that follow from it.

* `LightsProofs`: `TypeCorrect`, `MutexSafe`, `LedCorrect`, `CallsRepair`,
  `ModesExclusive`. The arbitration property only speaks of moments when the mutex
  is free, so it is strengthened to one that speaks of every step: `LockInv` says
  who can be where (exactly the owner of `g_lock` is inside a call, one thread at
  most runs `init_globals` and only before any device exists), `PaintInv` that
  each LED file whose last write of the repaint (`LastStep`) lies behind the
  current step is settled, and `CleanInv` the same for the reset writes of a call
  without failures. `RepaintWriteLemma` relates the i-th write to `LastStep`;
  `OtherModeDone`, that a channel is lit in one mode only when the files of the
  other are done, keeps `NeverBlinkAndGlow`. Assumptions: `NoThread` is no thread,
  requests are `light_state_t` values, `Names`, `InitSysfs` and `Faulty` are about
  the five lights and eight files. `LedImplemented` is the refinement of
  `SharedLed` without its fairness: an initial state maps to an initial state;
  taking the lock for a speaker light maps to taking up the request, its unlock to
  the end of the repaint (`LedCorrect` says what the LED then shows), and every
  other step leaves the mapped state as it is.
* `PowerHintProofs`: `BudgetKept`, `StagesAreNested`, inductive
  together with the types and with "the flag is set iff the countdown is positive";
  the clock's width and advances are arbitrary, so nothing depends on time being
  measured well.
* `PowerRaceProofs`: `BudgetSurvives`, `TouchStaysOn`, `TouchHealsRace`, with the
  types, `TouchGroups` and `VsyncGroups` (which stores can be pending where),
  `CountInv` (pulses and countdown add up to no more than the budget, but between
  a pulse and the store of its decrement), `DisableInv` (the touch boost is off
  after five short gaps or with the store that turns it on pending) and `HealInv`
  (without a race one of the two is idle, and each store of the handler that runs
  is pending or made). The bound on touches is not used.
* `SensorManagerProofs`: `CacheIsCoherent`, `NoticesAreCurrent`, `DeathIsNoticed`,
  `LockedCallsNeverCrash`, `TypeCorrect`, of `Spec` (with the constructor,
  `NeverCrashes` is false: finding 2). `LockInv`: exactly the owner of `mLock` is
  inside a call, so the cache has one user. `WorldInv`: a new service is one that
  neither cache nor notices know. `PlaceInv`: which parts of the cache exist at
  each place of `assertStateLocked`. `ObserverInv`: the observer is linked to the
  cached server or to nobody once linking is over; without it a notice for an
  older server could meet a newer connection. Assumptions: `Nobody` is no caller,
  `Ops` are some of the three calls.
* `PstoreCleanProofs`: `CleanOnSuccess`, `DstStaysInOrder`, `DumpsAreSafe`,
  `TypeCorrect` and the action property `KeptDumpsStay`. `PlaceInv`: the branch
  taken is that of the dump's rule. `CleanInv`: what the loop has passed and not
  removed has a keep rule, unless `readdir` has hidden it. `OrderInv`: what is left
  to treat sorts behind what `DST` holds after the entries counted by `old`, also at
  the places where the entry exists and the dump is not yet
  unlinked. `UnlinkInv`: a dump about to be unlinked is safe or given up; `KeptInv`:
  a kept dump has no copy. The loop treats the greatest remaining dump, which
  exists because the numbers are well ordered (`LeastNat`, `LastFile`).
  Assumptions: every file has a base name, a rule is one of the four
  actions. `BaseNameCorrect` is about `BaseFileName`: its loop invariant says that
  the prefix is copied and free of terminators and that `lastoccurance` is the
  last separator of it, index 0 excepted. Assumptions: the buffer has room
  for a character (`MaxLenAssumption`), and every name is terminated inside it, as
  `d_name` is (`NamesAssumption`).
* `GraphicBufferProofs`: `ListIsCurrent`, `ListMissesReused`, `ReleasesMatch`,
  `HandlesAlive`, `LossesKnown`, `SizesHaveHandles`, `FencesClosed`, `TypeCorrect`.
  `LocalInv` says which field values, calls and due list updates go together in
  one object; `WrapInv` that a wrapped buffer exists and is not being destroyed;
  `ListInv` what a due update will do, and that a removal due for a live handle
  means reuse; `FenceInv` that one lock at a time has the fence. `OwnInv` is the
  core: a handle is the device's or a `native_handle_t`, at most one object is bound
  to release it and knows which (`HoldInv`), one object is, unless it is lost
  (`LostInv`), and every other object that names it is above its holder in the
  chain of references (`ReachInv`): that chain is what keeps the holder from
  being destroyed under a wrapper of a wrapper. Assumptions: `NULL` is neither
  handle nor object, `MaxWidth` is positive.
* `CameraMetadataProofs`: `OwnershipCorrect`, `SourcesAlive`, `RoomIsMade` and the
  action properties `LockHolds` and `LeaksAreKnown`. `IInv` adds to the properties
  that the content of every buffer fits its capacities (`Heaps`), without which
  `erase` could be refused. `ResizeMakesRoom` says what `resizeIfNeeded` leaves
  behind: no buffer, the own one or a fresh one with the old one freed, other
  addresses untouched, content kept, room made; `Replaced` that an unlocked object
  may trade its buffer for such a one: since nobody else owned either, no locked
  object notices, and the old buffer is lost only where the resize failed.
  `ReadKind`: the resize frees no buffer but the object's own, so a freed source is
  one that `append` or the comparison in `updateImpl` let pass; `GarbageFits`: even
  then the heap keeps to its capacities. Each
  lemma about a step shows `Kept`: the invariant after it and what the two action
  properties ask of it. Assumptions: `NULL` is no address, the mark of a free
  address is no metadata.
  The second part of the module is about `MetadataParcel`: `ReaderInBounds` and
  `ParcelCorrect`. `ParcelInv` says how far writer and reader have come and what
  the reader has given its caller; the padding is below the alignment because a
  remainder is (`PaddingBound`), a value of this writer survives both casts
  (`CastBack`), and a cast int32 is never negative (`CastNat`): that is what keeps
  negative offsets out. Assumptions: the alignment is positive, a `size_t` is at
  least as wide as an int32, and the writer's blob is below 4 GiB (2 GiB where a
  `size_t` is wider, since its size would not survive the cast).
* `ColorConvertProofs`: `ConversionsInBounds`, `ImageIsRight`, `EncoderGetsRect`.
  `RowInv` says that the running loop has a row left to treat; `DecodeInv` and
  `EncodeInv` that every sample of the rows behind it (`DecodedRows`,
  `EncodedRows`) is where the format has it. The offsets are products of widths
  and rows, which the SMT backend does not decide by itself; a few lemmas turn
  them into sums: `RowFits` (a column of a row lies before the end of the plane),
  `RowsApart` (different rows of a plane have no offset in common), `Halves` and
  `Parity` (the roundings), `BufferHolds` (the buffer has room for the planes).
  What takes the work is that a row disturbs no row before it: U and V rows are
  written in one step (`ChromaRowSplits` says what holds of the bytes where the two
  do not overlap), and fall into different planes
  for even sizes, since `dst_uv_size` is then the product of the halved sides,
  which is also where the encoder's own formula looks for V. Assumption: `MaxSide` is positive.

Model-checked only: liveness (`LockReleased`, `ListCallsEnd`, `RunEnds` and the
fairness in `ImplementsSharedLed`), since the prover does not handle fairness.

## Plan

Every part with behaviour of its own is modelled, and every safety property that
a passing run checks is proved for all values of the constants. What would extend
the project lies outside the repository, such as a model of init's trigger queue
for the init scripts.

## Not modelled

The init scripts: a list of mounts, modes, properties and services, and triggers
whose semantics (init's queue and property service) is not in the repository.
The ICU and fence shims (forwarding), the SELinux policy, overlays and build
files (no behaviour), the branches for other vendors
(`QCOM_BSP_LEGACY`, `EXYNOS4_ENHANCEMENTS`, `VIDEOEDITOR_INTEL_NV12_VERSION`),
which this device does not build, the binaries in `ramdisk/sbin` and `rfkill_bt.sh`
(no source or a single loop over sysfs).
