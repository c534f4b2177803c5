# Verification of the xengfx DRM driver

TLA+ models of the Linux DRM/KMS driver for the XenGFX virtual display adapter
(`src/`), the TLC runs that check them, and TLAPS proofs of what matters most in
them. The models are of the code as it is compiled for Linux 3.0: every
`LINUX_VERSION_CODE` test takes its latest branch.

## 1. The system

### Components

| Component | State it keeps | Operations |
|---|---|---|
| Buffer objects (`xengfx_gem.c`) | `drm_gem_object` with a reference count and a fake mmap offset; handles, user mappings and framebuffers that refer to it | `create_ioctl`, `map_ioctl`, `destroy_ioctl`, `free_object`; `fb_create`, `fb_create_handle` and `fb_destroy` of `xengfx_display.c` |
| Aperture and GART (`xengfx_gem.c`) | `gart_mm` (who has which part of the aperture), `gart_space`, `offset`, `pages`, `pin_count`, `faulted` of each object; the GART entries and what the device cached of them | `bind`, `unbind`, `pin`, `unpin`, `fault` |
| CRTC and scanout (`xengfx_display.c`) | `xengfx_crtc.active` and `base`; `CONTROL`, the size registers, `FORMAT`, `STRIDE`, `BASE` | `mode_set`, `mode_set_base`, `prepare`, `commit`, `dpms`, `disable`, `fb_create`, `fb_destroy` |
| Connector and EDID (`xengfx_display.c`) | the cached EDID of a CRTC, the EDID property and the modes of its connector; `EDID_REQUEST` and the EDID registers | `get_edid`, `get_modes`, `detect`, `mode_valid`, the connector's part of `crtc_init` |
| Sizes (`xengfx_gem.c`, `xengfx_compat_fb.c`, `xengfx_drv.c`) | none; 32-bit pitches, sizes, `aper_size` and limits of a mode | `create_ioctl`, `fb_probe`, `driver_load`, `mode_valid` |
| Interrupts and vblank (`xengfx_irq.c`) | `STATUS_CHANGE`, `STATUS_INT`, `ISR`, `CONTROL.INT_EN` | `irq_handler`, `postinstall`, `uninstall`, `enable_vblank`, `disable_vblank` |
| Load and unload (`xengfx_drv.c`) | what has been acquired | `driver_load` with its error labels, `driver_unload` |
| fbdev console (`xengfx_fb.c`, `xengfx_compat_fb.c`) | its framebuffer, object and `fb_info` | `fbdev_init`, `fb_probe`, `fbdev_cleanup` |
| Power management (`xengfx_drv.c`) | none of its own | suspend and resume call the PCI core |
| Compatibility layer, ioctl table, register layout | none | macros, tables, constants |

### How they interact

- A user thread enters through ioctls, through `mmap` and through page faults on
  what it mapped; the DRM core enters through the CRTC helper and the fb helper;
  the device enters through its interrupt.
- `dev->struct_mutex` protects binding, pins and the final unreference.
  `mode_config.mutex` serialises modesetting calls and is taken before it,
  `mmap_sem` is held across a page fault.
- Modesetting pins the object of a framebuffer into the aperture and unpins the
  one it replaces. A page fault binds an object without pinning it. Both call
  the same `bind`; only an unpin that reaches zero unbinds.
- The device reads the GART on its own and caches what it read until it is
  flushed. It scans out while registers are being rewritten. It latches new
  changes while the interrupt handler runs.
- The console pins its object during load, and is released during unload after
  the interrupt has been turned off and before `drm_mm_takedown`.

### What is hard about it

- **Interleaving.** Handle removal, `mmap` and faults run against each other.
  `xengfx_gem_create` gives the handle to user space before it drops its own
  reference, and drops it without the mutex.
- **The device as a second reader.** Unbinding has to remove user mappings,
  clear each GART entry, flush, and only then give back pages and space.
- **Partial failure.** Each of about fifteen steps of load and probe may fail, as
  may space, pages, pins and alignment checks in the middle of a mode change.
- **Ordering.** `FORMAT` and `STRIDE` take effect when `BASE` is written, so an
  active CRTC and an inactive one are updated along different paths. `ISR` is
  written last although CRTCs visited before may have changed again.
- **Unbalanced callers.** `unpin` has no guard and `pin_count` is unsigned.
- **Several CRTCs, one encoder.** A framebuffer is pinned once for each CRTC that
  shows it, and setting a mode on one CRTC turns the others off.
- **A device that answers late.** `get_edid` polls a bounded number of times and
  leaves its request pending when it gives up.
- **Arithmetic that wraps.** The size of a buffer and that of the aperture are
  computed in 32 bits.

What makes each component correct is stated by the properties of section 4.
`PROJECT.json` lists each hazard at its line with the properties that cover it.

## 2. The modules

```
XenGfxAperture   abstract: pins and places       <-- XenGfxGem implements it
      ^                                                (ImplementsAperture)
      | EXTENDS
XenGfxDisplay    CRTCs on top of the aperture
   XenGfxDisplayProofs
XenGfxLife       abstract: objects and holders   <-- XenGfxGem implements it
                                                       (ImplementsLife)
XenGfxGem        objects, references, bind and unbind, threads, GART, device
   XenGfxGemInv          the invariants its proofs need
   XenGfxGemProofs       types, locking, reference counts
   XenGfxGemLifeProofs   who may work on an object
   XenGfxGemBindProofs   binding, and the refinement
XenGfxSizes      pitches, sizes and limits in 32 bits
   XenGfxSizesProofs     the bounds of each
      ^
      | EXTENDS
XenGfxLoad       load, console probe, clients, unload, with the handler running
   XenGfxLoadProofs
XenGfxEdid       the connector: request, answer, copy and cache of an EDID
   XenGfxEdidProofs
XenGfxIrq        installation, handler, vblank callbacks, the device's changes
   XenGfxIrqProofs
MCXenGfxGem, MCXenGfxDisplay, MCXenGfxLoad   symmetry and sizes for TLC
```

### XenGfxGem

The state per object is `heap`, `size`, `refs`, who refers to it (`handle`,
`vma`, `fb`, and `moff` for the mmap offset), and the fields of the struct
(`pins`, `space`, `offset`, `pages`, `faulted`). `upte` is the set of user PTEs
that `vm_insert_pfn` made, `gart` the entries in the device and `cache` what the
device has cached of them. A thread has a label `pc`, the `job` it was started
for, its object and a loop index.

An operation begins with `CreateAlloc`, `CloseHandle`, `MapIoctl`, `Mmap`,
`Munmap`, `FbCreate`, `FbCreateFails`, `FbCreateHandle`, `FbDestroy`,
`BeginFault`, `BeginPin` or `BeginUnpin`, and goes on through the labels. `bind`
is `BindSpace`, `BindPages`, one `BindWrite` per page and `BindFlush`; `unbind`
is `UnbindZap`, one `UnbindClear` per page, `UnbindFlush`, `UnbindPutPages`,
`UnbindPutBlock` and `UnbindDone`; `Free` and `Reap` are
`xengfx_gem_free_object`. Work that only the mutex holder can see is one action;
each GART write and flush is an action, since `DeviceFetch` may read an entry in
between. The error returns that leave something changed are actions of their own
(`CreateFails`, `FbCreateFails`, `FaultInterrupted`, `BindSpaceFails`,
`BindPagesFails`); one that leaves all as it was, such as a failed `kzalloc` at
the start of a call, is no step.

`drm_mm` is modelled as its users see it, a block at the start of any hole that
is large enough, and its calls are atomic. `obj->offset` is in pages. An address
is allocated once: an object that is freed stays `"freed"`, so that uses after
the free are visible. `BeginPin` and `BeginUnpin` may be called for any
framebuffer in any order: what is checked does not rest on balanced callers.

`EarlyClose` says whether a client may close a handle while the `create` that
makes it has not returned. With it TRUE the driver reaches `BUG_ON` (finding
`FreedUnderMutex`), and with the assertion compiled out the object is torn down
outside the mutex, so no safety of binding can hold. The runs on binding take it
FALSE, a client that waits for its handle, and those on references and on the
mutex take it TRUE. So `NoUseAfterFree`, `UserPteSound`, `DeviceSafe`,
`BindingVisible`, `BindAssertions`, `PinnedStays` and both refinements are
statements about clients that wait for their handles.

### XenGfxLife

What the reference counts are for, without counts: an object has a set of
holders (`held`), which are its handle, its user mapping, its framebuffer and
threads. A holder is born with the object or let in by another holder, and only
an object without one is freed, and freed once. One path of the code does not
keep to this, the creation that finds no handle and frees its object twice
(`xengfx_gem.c:411-412`): `XenGfxLife` admits it as a step of its own, `Discard`,
after which the object is `"corrupt"`, so that the refinement says what holds on
every other path. `XenGfxGem` implements it with
`held[o] = Holders(o)`, where a thread holds what it creates until its own
reference is dropped, and what it has to drop a reference of:

| `XenGfxLife` | `XenGfxGem` |
|---|---|
| `Create` | `CreateAlloc` |
| `Share` | `CreateHandle`, `Mmap`, `FbCreate`, `FbCreateHandle`, and `FbCreateFails`, where the thread is the new holder and drops its reference later |
| `HandOver` | `CloseHandle`, `Munmap`, `FbDestroy`: the holder goes, and the thread waits for the mutex to drop its reference |
| `Drop` | `CreateDrop`, `Unref` |
| `Free` | `Reap`, at the end of `xengfx_gem_free_object` |
| `Discard` | `CreateFails`, the double free |

Every other step leaves both alone. The abstract specification has no "object
that is being torn down": that nobody gets hold of one in the steps between the
last `Drop` and `Free` is what the implementation has to show. It does for
clients that wait for their handles; with early closes the count reaches 0 in
`CreateDrop`, outside the mutex, and a user mapping can be made of an object
whose mmap offset has not been removed yet.

### XenGfxAperture and XenGfxDisplay

`XenGfxAperture` is the promise of `xengfx_gem.c` to those who use the aperture:
`Place`, `Pin` and `Unpin` are atomic, blocks do not overlap and a pin needs a
place. `XenGfxGem` implements it: `place[o]` is the extent of `o` while its
binding is complete and its unbinding has not begun (`Settled`).

`XenGfxDisplay` extends it with the CRTCs of `dev_priv->crtcs`. A call of the DRM helper is `SetMode`,
`Flip`, `TurnOff`, `Blank`, `Unblank`, `FbDestroy`; its steps follow
`xengfx_crtc_disable`, `mode_set`, `set_base` and `enable`, each write to
`CONTROL`, `BASE` and the parameter registers its own step. `scan` is what the
device took over at the last write to `BASE`, as the comment at
`xengfx_display.c:360-363` describes it. The helper is external code: it stores
the new framebuffer before it calls the driver, and restores the old state, with
another mode change if need be, when the driver fails: `SetBaseFails` before or
at the pin, for whatever reason, `SetBaseMisaligned` after it. `Fault` lets other
objects take and keep aperture space between any two steps. `Clients` selects
what clients do, since `ScanoutPinned` does not survive blanking (finding
`PinCountMeansPinned`).

`mode_config.mutex` lets one call run at a time, so `call` names the CRTC it is
about (`Cur`) and every other CRTC scans out meanwhile. All connectors return
the same encoder, and an encoder drives one CRTC: after a mode was set on one,
the helper turns the others off one after the other (`AfterEnable`, `Finish`),
and until then two of them may show the same framebuffer and pin it twice. The
removal of a framebuffer turns off each CRTC that shows it. With several
connectors on one encoder, which CRTC the helper blanks is its own affair:
`DisplayAssumption` allows blanking with one CRTC only.

### XenGfxEdid

`pc` is where the probe of a connector is: `xengfx_crtc_init` (`"init"`, with
`first` set), or `get_modes` called by the probe helper (`"idle"`). `Request`,
one `Poll` per read of `EDID_REQUEST`, `GiveUp` or `StartCopy`, one `Copy` per
word, and `Done` are `xengfx_get_edid`; `Loops`, `Left` and `Expired` are its
loop condition and what is tested after it. `reg` says for each register of the
block whose EDID is in it, `edid` the same for the copy in the driver, so that a
block torn between two monitors is seen. `prop` and `modes` are what user space
is offered. `Plug`, `Transfer` and `Answer` are steps of the monitors and the
device (external) that fall between any two reads: it is taken to clear
`EDID_REQUEST` after the whole block is there, and may answer late or never. A
request made while an old one is pending may be ignored or start it again.

### XenGfxSizes

The pure arithmetic, written with a wrap at `Word` where the code's is unsigned:
`Pitch`, `PictureSize`, `ConsoleSize`, `AperSize`, `ModeValid`. `Word` stands for
2^32, and `SizesAssumption` says what is used of it: it is a multiple of page and
alignment, and the largest picture of `mode_config` is small against it.

### XenGfxLoad

`pc` is the next statement of load or unload; the `err_` values are the labels
of the code. `Take` is a step that may fail, `Drop` one that releases. The probe
of the console is inlined, and its return value ignored as the fb helper does.
`GART_SIZE` is chosen at the start; `aper`, `picture` and `reply` are what the
code computes from it and from what the fb helper (`Surfaces`) and clients
(`Pictures`) ask for, with `XenGfxSizes`. A client opens the loaded driver, asks
for buffers (`CreateIoctl`), asks a connector for a mode (`GetConnector`: each
connector reads the limits of its own CRTC, so both are chosen for each call),
and closes it, and only then can the module go.

A console that is shown is described by `lit` and `dark`, the numbers of active
and inactive CRTCs that have it as their framebuffer, and its `pins`. `Away`,
`Off`, `Back`, `Remode`, `Blank` and `Unblank` are what the calls of
`XenGfxDisplay` do to the three when they succeed. Blanking
(`fb_blank`, `xengfx_fb.c:57`) unpins and unblanking does not pin, and a mode
change unpins what the CRTC is about to show, so pins get lost and the count may
wrap. `even`, set when unload begins, records that none was: then
`pins = 1 + lit`. `ConsoleLeavesFirst` is stated for that case only, since after
lost pins the object may still have its block when `drm_mm_takedown` runs.

The handler runs from `request_irq` to `free_irq` at any step, also when the
device is quiet, since the line is shared. `LeftBehind` names what load and
unload do not give back: the table of CRTCs, allocated at `xengfx_display.c:644`
and freed nowhere; the vblank counters, which DRM frees; the output poll
(`PollInit`, `xengfx_drv.c:162`), for which unload has no counterpart; and the
`fb_info` of a console whose framebuffer could not be made (finding 4).

### XenGfxIrq

`change` and `mask` are `STATUS_CHANGE` and `STATUS_INT`. Each register access
of the handler and of `postinstall` is a step, and `Change` latches new bits
between any two. The repository does not say what `ISR` is, so both of its
natural forms (external) are modelled and `level` chooses one: a level, which is
up while an enabled change is latched and which no write alters, or a latch of
its own (`isr`), set by an enabled change and cleared by the write of what was
read. Whether that latch is also set by a change that was there before
`STATUS_INT` enabled it is left open (`MayLatch`). Under both forms the 0 that
`postinstall` and `uninstall` write changes nothing. `owed` records changes that
were not reported since they happened, `settled` whether the driver was
installed when the handler was called.

Under the latch a change on a CRTC that the handler has visited sets `ISR` again
and the write at `xengfx_irq.c:79` clears it: the change stays in
`STATUS_CHANGE` until another one raises the next interrupt. Under the level it
raises one itself. So that every change is acknowledged in the end is not
claimed; `ClearsOnlyReported`, `ReportedOnce` and `ClaimsItsOwn` hold in both
forms.

## 3. The runs

| Run | Shows | Instance |
|---|---|---|
| `gem_share` | `TypeOK`, `NoUseAfterFree`, `UserPteSound`, `DeviceSafe`, `PinnedStays`, `ImplementsLife` | 2 objects, 2 threads, 1 aperture page |
| `gem_neighbours` | `BindAssertions`, `BindingVisible`, `ImplementsAperture` | 2 objects of 1 or 2 pages, 1 thread, 2 aperture pages |
| `gem_race` | `RefsAccounted`, `NothingLeaks`, `LockDiscipline`, `OwnerWorks`, `OwnerAdvances`, `MutexReleased`, `ReleasedIsFreed` | 1 object, 2 threads, early closes, fairness |
| `gem_create_close` | violates `FreedUnderMutex` | 1 object, 2 threads, early closes |
| `gem_lost_space` | violates `LostOnlyIfPinned` | 1 object, 1 thread |
| `display_all` | `TypeOK`, `DeviceMatchesDriver`, `ScanCoherent` | 1 CRTC, 2 framebuffers, 2 modes, all client calls, some positions misaligned |
| `display_heads` | `DeviceMatchesDriver`, `ScanoutPinned`, `ConsolePlaced` | 2 CRTCs, the console and 2 framebuffers, clients flip, pan, turn off and remove framebuffers |
| `display_pin_count` | violates `PinCountMeansPinned` | 1 CRTC, the same framebuffers, clients flip and blank |
| `edid` | `TypeOK`, `CopiesOneAnswer`, `GivesUpUnanswered`, `AdvertisesCache`, `GetEdidAdvances`, `GetEdidReturns` | 2 monitors, one with a bad EDID, blocks of 2 words, 3 reads, fairness |
| `load_unload` | `TypeOK`, `HandlerSafe`, `LeftBehind`, `ConsoleLeavesFirst`, `ConsoleBacked`, `OfferedFits`, `BufferHoldsPicture` | every failure, up to 2 CRTCs show the console, small words |
| `load_cleanup` | violates `CleanupDoesTheRest` | up to 1 CRTC |
| `irq_changes` | `TypeOK`, `ReportedOnce`, `ClaimsItsOwn`, `ClearsOnlyReported` | 2 CRTCs, 2 kinds of change, both forms of `ISR` |

### Bounds, and why they are enough

- *Two threads*: every step outside the mutex (a handle removed, a mapping used)
  can fall between any two steps of the mutex holder. The device is an actor of
  its own. A third thread would only wait for the mutex.
- *One aperture page for two objects*: each binding then takes the page the
  other gave back, the case in which a stale PTE, entry or cached translation
  shows somebody else's page. In `gem_neighbours` objects have up to *two pages*,
  so the loops over entries run to their second iteration and the device can
  fetch between entries; two objects in two pages meet both as neighbours and one
  after the other.
- `PinMod` stands for 2^32: 3 to 5 is more than the pins that are held at once,
  so that a wrap below zero is a state of its own.
- *Two modes, two or three framebuffers, two positions*: mode changes, flips and
  pans in each combination, and one framebuffer that does not fit at all times.
- *Two CRTCs* in `XenGfxDisplay`: one that a call changes and one that it must
  leave alone, with the same framebuffer or with different ones. `PinMod` is 5
  there, above the three pins (console and two CRTCs) of one object.
- *Two monitors, two words, three reads* in `XenGfxEdid`: a block can be torn, an
  answer can come at the first, a middle or the last read or after it, and a bad
  block is never taken for a good one.
- *Words of 14 bits, pages of 64 bytes, pictures of up to 32 by 32 pixels* in
  `XenGfxLoad`, which keeps the proportions of `SizesAssumption`. `PinMod` is 4 there, one more
  than the three pins that two CRTCs and the probe take. GARTs of 1, 4,
  16 and 17 pages are too small for the console, large enough, and so large that
  `aper_size` wraps to 0 and to 1 page's worth; the limits of a CRTC are one pixel
  short of a monitor, large enough, and at `Word - 1`, where `mode_valid` wraps; clients ask
  for pictures up to the limit and for some that wrap to a small buffer or none.
- *Two CRTCs* in `XenGfxIrq`: one that was visited and one that was not. `Always`
  leaves out `hotplug`, which the driver treats like `onscreen`; with both the
  same properties hold as well (1.6 million states).
- The counters of the code are bounded by the models themselves: an object is
  created once, a framebuffer holds at most one object, and no guard of an
  action cuts a behaviour off.

### Deadlock

It is checked everywhere except in the two runs of `XenGfxLoad`, where a driver
that failed to load or was unloaded has nothing more to do.

### Fairness

`XenGfxGem!FairSpec` has weak fairness of each step of a thread that is past its
waits (`mutex_lock`, and outside the driver there is no obligation to call it):
the scheduler runs a thread that can run, and no step of the driver waits for
anything else while it has the mutex. `MutexReleased` and `ReleasedIsFreed` rest
on it; with early closes `BUG_ON` may stop a thread in the middle of a release,
which the second allows for.
`XenGfxEdid!FairSpec` has weak fairness of `GetEdid`, the thread that runs
`xengfx_get_edid`, and of nothing else: the device owes no answer, and
`GetEdidReturns` holds without one.

## 4. Properties

- References: `RefsAccounted` (the count is the number of holders, for every
  interleaving), `NoUseAfterFree`, `NothingLeaks` (an object that nobody holds
  has a thread that frees it), `ReleasedIsFreed` (and is freed, unless
  `BUG_ON` stops that thread), `ImplementsLife` (refinement, with the double free of
  `Discard` admitted).
- Binding: `DeviceSafe` (no entry or cached translation leads to pages that were
  given back), `UserPteSound` (a user PTE leads to its own page), `BindingVisible`
  (a bound object is all there for the device), `BindAssertions`, `PinnedStays`
  (a step property), `ImplementsAperture` (refinement).
- Locking: `LockDiscipline`, `MutexReleased`, and what it rests on: `OwnerWorks`
  (the owner of `struct_mutex` is inside a call that has steps left in it) and
  `OwnerAdvances` (a step property: each of its steps leaves fewer, and nobody
  else's leaves more).
- Display: `DeviceMatchesDriver` (device, driver and DRM agree between calls,
  after failures too), `ScanCoherent` (never the format of one framebuffer with
  the base of another), `ScanoutPinned` and `ConsolePlaced` (what is scanned out
  stays pinned in its place on every CRTC, whichever of them lets it go, for
  clients that neither blank nor change the mode of an active CRTC, and outside
  the window between the unpin in `set_base` and the write to `BASE`).
- EDID: `CopiesOneAnswer` (never two halves of different answers, also after a
  request that was given up), `GivesUpUnanswered`, `AdvertisesCache` (property,
  modes and cache are of one block), `GetEdidReturns`, and what it rests on,
  `GetEdidAdvances` (a step property).
- Load: `HandlerSafe`, `LeftBehind` (what load and unload do not give back, and
  that there is nothing else), `ConsoleLeavesFirst` (if no pins were lost).
- Sizes: `ConsoleBacked`, `OfferedFits` (a connector offers what its own CRTC can
  show), `BufferHoldsPicture`.
- Interrupts: `ReportedOnce`, `ClaimsItsOwn`, `ClearsOnlyReported` (a step
  property: nothing clears a change that has not been reported).

For each there is a mutation of the modelled code, a plausible mistake such as a
forgotten flush or a guard that is off by one, under which TLC finds it violated.
The mutated definitions stand beside the originals, marked `Mutant:`.

## 5. Where the code disagrees with itself

1. **`gem_create_close`.** `xengfx_gem_create` drops the reference of the
   allocation without `struct_mutex` (`xengfx_gem.c:417`). When a thread of the
   same client has closed the new handle by then, that reference is the last one
   and `BUG_ON(!mutex_is_locked(...))` of `xengfx_gem_free_object` fires.
2. **`gem_lost_space`.** The message of `xengfx_gem_free_object` blames lost
   aperture space on a missing unpin, but an object that a page fault bound is
   never unbound at all: its `pin_count` is 0 and `free_object` passes it by.
3. **`display_pin_count`.** `pin_count` is said to tell whether an object is
   pinned. Blanking unpins the framebuffer, unblanking does not pin it, and the
   next flip unpins it again: the count wraps.
4. **`load_cleanup`.** `xengfx_fb_probe` leaves "the rest of deinitialization" to
   `xengfx_fbdev_cleanup`, which does not find the `fb_info` after one failure
   and unreferences the object a second time after another.

## 6. Proofs

Every safety property of a passing run, step properties and refinements included, is also a theorem of its specification,
for every value of the constants that the `ASSUME` of the module admits (and the
conditions named below). TLC checked each inductive invariant on the instances of
section 3 before it was proved. What stays with TLC is said at the end.

### XenGfxGem

Any finite set of threads, any objects, sizes, aperture and `PinMod`.

*For both values of `EarlyClose`* (`XenGfxGemProofs`): `TypeCorrect`,
`LockDisciplineHolds`, `RefsAccountedHolds`, `NothingLeaksHolds`,
`OwnerWorksHolds`, `OwnerAdvancesHolds`.

- `TypeInv == TypeOK /\ ThreadsOK`. Types alone are not inductive: an action
  takes `obj[t]` from the thread, and only the link between label, job and
  object (`ThreadsOK`) makes it an object.
- `LockInv` adds the label `"unref"`, the step before a free, to what
  `LockDiscipline` says. A thread gets to a locked label from `Lock`, from
  another locked label or from `"drop"`; `mutex` changes only from free to the
  thread that locks and from its owner to free.
- `RefsInv == TypeInv /\ NewObjects /\ RefsAccounted`. A new reference is taken
  on behalf of a holder that was not there before: that an object under creation
  is known to its creator only is what `NewObjects` says. `CountGained`,
  `CountLost` and `CountMoved` say what adding, removing and exchanging a holder
  does to the cardinality of `Holders`. `AllocHolders`, `HandOverHolders`,
  `ShareHolders`, `LookupHolders`, `HandleHolders`, `DropHolders`, `LastHolders` and `RestHolders`
  say which of these each action does; the proofs about leaks and about
  `XenGfxLife` use them again.
- `NothingLeaks` rests on `RefsAccounted`: the holders of an object go to none
  only in a drop that takes the count to 0 (`LastDropFrees`), and the thread that
  did it stays in the release until the object is freed or `BUG_ON` stops it
  (`FreeingGoesOn`). With a count that is off by one it would be false.
- `OwnerInv`: the owner of the mutex is at a label inside of it, and its loop
  index is below the size of its object. `Work` counts the steps that are left;
  `OwnerGoesOn` shows for each action of the owner that it lowers `Work` or
  unlocks, `OwnerUndisturbed` that no other thread and no step of the device
  touches it. So the mutex is held for at most `size + 9` steps, and for
  `MutexReleased` it is enough that the scheduler runs its owner.

*For `EarlyClose = FALSE`* (`XenGfxGemLifeProofs`, `XenGfxGemBindProofs`):

| Theorem | States |
|---|---|
| `FreedUnderMutexHolds` | `BUG_ON(!mutex_is_locked(...))` never fires: finding 1 needs the early close |
| `NoUseAfterFreeHolds`, `UserPteSoundHolds`, `DeviceSafeHolds`, `BindingVisibleHolds`, `BindAssertionsHold` | the invariants of these names |
| `PinnedStaysHolds` | the step property |
| `ImplementsApertureHolds` | every step is one of `XenGfxAperture`, or a stutter |
| `ImplementsLifeHolds` | every step is one of `XenGfxLife`, or a stutter |

- `LifeInv` says which objects may still be worked on, and by whom. With
  `LockInv` it yields mutual exclusion of everything done inside `struct_mutex`:
  `Alone` and `NobodyElse` (no second thread binds or unbinds, and none holds
  what a thread frees), `StaysUnheld` (an object without a holder never gets one
  again).
- `BindInv` describes binding and unbinding step by step: `BlocksInv` (blocks
  lie apart and inside the aperture), `StepsInv` (what is there at each label),
  `SlotsInv` (an entry or a cached translation exists only between the first
  write and the flush after the last clear), `VisibleInv` (outside these steps
  all entries of a bound object are there), `LoopsInv` (the entries already
  written or cleared are those below the loop index), `UpteInv`. None of them is
  inductive without the others: that `UnbindPutPages` is safe rests on the
  flush, the flush on the loop, the loop on nobody else having the block.
- The refinement: `BindFlush` is `Place`, `FinishPin` is `Pin`, `UnpinKeep` and
  `UnpinLast` are `Unpin`, every other step leaves `pins` and `place` alone.
- `ImplementsLife`: section 2 has the steps. That `Mmap` takes its reference on
  behalf of a holder rests on `OffsetHeld`: an object with an mmap offset has a
  holder, or its release has the mutex, which `Mmap` needs free.

### XenGfxDisplay

Any number of CRTCs, framebuffers, modes and positions (`DisplayAssumption`).

*For any clients*: `TypesHold` (with `PlacesInv` and `CallInv`, what a call can
be doing at each label), `ScanCoherentHolds` (`BasesInv`: the parameter
registers of a CRTC are those of its base whenever the driver remembers one) and
`DeviceMatchesDriverHolds` (`RegsInv`, `DevInv`: what the registers and the
device hold at each label of a call, and on every other CRTC).

*Under `Balanced`* (clients flip, turn off and remove framebuffers, bases are
aligned, and `PinMod` is above the number of CRTCs plus one):
`ScanoutPinnedHolds` and `ConsolePlacedHolds`. Both conditions are needed:
without them a pin is given back that was never taken (finding 3). `Held(c)` is
the framebuffer that CRTC `c` has pinned, which in the middle of a call is
neither what DRM nor what the device has; `CountInv` says that `pins[o]` is the
number of CRTCs that hold `o`, and one more for the console, and `RestInv` that
the base of an active CRTC lies in the place of what is held. So a CRTC that
lets a framebuffer go cannot unbind it under another one that shows it.

### XenGfxEdid

Any monitors and any number of words and reads: `TypesHold`,
`GivesUpUnansweredHolds`, `CopiesOneAnswerHolds` (`Filled`: the words
transferred so far are of one monitor, seen since the request; `Answered`: a
request that is no longer pending was answered in full, and stays so until the
block is copied), `AdvertisesCacheHolds`, and `GetEdidAdvancesHolds`:
`StepsLeft` is lowered by each step of `get_edid` and by nothing else.

### XenGfxIrq

Any number of CRTCs and both forms of `ISR`: `TypesHold`, `ReportedOnceHolds`,
`ClaimsItsOwnHolds`, `ClearsOnlyReportedHolds`. The invariant is `IrqInv`: what
is latched is still to be reported, except what the handler has just reported
and is about to acknowledge (`LatchedIsOwed`); what a handler called after
installation has read stays latched until it acknowledges it (`ReadStays`); and
such a handler has claimed something or still has a change on a CRTC ahead of it
(`ClaimAhead`), since by then nobody else clears changes. For the latch that
needs `IsrMeans`, while no handler runs `ISR` is set only if the next one finds a
change, and `MaskedBefore`, a CRTC that `postinstall` has yet to clear is masked.

### XenGfxSizes and XenGfxLoad

`XenGfxSizesProofs` has the bounds of the arithmetic as lemmas. A product or an
alignment is exact as long as it stays below `Word` (`WrapBounds`,
`AlignBounds`), so a picture within the limits of `mode_config` does not wrap
(`PictureBounds`, `ConsoleBounds`), a wrapped `aper_size` is never larger than
the GART (`AperBounds`), and a mode that `mode_valid` accepts is within the limits
of the CRTC (`ValidFits`).

`XenGfxLoadProofs`: `TypesHold`, `HandlerSafeHolds`, `LeftBehindHolds`,
`ConsoleLeavesFirstHolds`, and with the lemmas on sizes `ConsoleBackedHolds`,
`OfferedFitsHolds`, `BufferHoldsPictureHolds`. `LoadInv` is inductive: `HeldInv`
says for each statement of load and unload what has been acquired, which is why
the error labels fall through in the right order; `IrqInv` ties a running handler
to what it reads; `ConsoleInv` says where a console object, its framebuffer and
an `fb_info` may be; `PinsInv` bounds the pins of a console that is shown by
their word only, and equates them with `1 + lit` from the moment unload begins
with `even`. `SizesInv` ties the chosen sizes to what has been accepted of them:
a console that was pinned once fits into the aperture, whatever its count is now.

### What is only model-checked

- Liveness: `MutexReleased`, `ReleasedIsFreed`, `GetEdidReturns`. Fairness and
  `ENABLED` are out of the prover's reach. What does not depend on fairness is proved: who has to act
  (`OwnerWorks`, `NothingLeaks`), and that each of its steps leads closer to the
  end (`OwnerAdvances`, `GetEdidAdvances`). That a step is enabled as long as
  some are left, and taken, is TLC's part.
- The four runs that end in a counterexample. Each is one behaviour, which needs
  no proof.

## 7. What is not modelled

- Suspend and resume: they call the PCI core, and what the device keeps of its
  GART and registers in D3 is not in the repository.
- Of modesetting: the vblank calls around a mode change; blanking with several
  CRTCs; a table of CRTCs that could not be allocated in full; a framebuffer
  whose geometry exceeds its object; a mode that a connector offers within the
  limits of its own CRTC and the helper sets on another CRTC, through the shared
  encoder (`xengfx_display.c:500`), whose limits are smaller.
- Of the output poll: that it runs. No connector sets `polled`, so
  `DRM_KMS_HELPER_POLL_INIT` schedules nothing and
  `xengfx_output_poll_changed` is never called; `XenGfxLoad` has the
  initialisation only.
- Of the cleanup of a console whose framebuffer was never made: in Linux 3.0
  `drm_framebuffer_cleanup` stops there, for its `dev` is zero. The model lets it
  stop or go on (`CleanupFb`).
- Of the GART: pages above 4 GB, whose address the code truncates.
- Of the interrupt: the status handed to `xengfx_crtc_status_onscreen` and
  `_connected`, both empty; `first_rescan`, which nothing sets.
- The removal of the PCI device while files are open: `XenGfxLoad` unloads the
  driver with its module.
- `xengfx_gem_create` frees an object twice when no handle can be made. It is
  modelled up to the second free (`CreateFails`, `Discard`), after which the object
  is `"corrupt"`.
- Values that are only returned: of a page fault and of the ioctls,
  `xengfx_get_vblank_counter`, `xengfx_get_scanout_position`. The dumb buffer
  calls are modelled as the ioctls they wrap.
- Drawing into the console, gamma, the tables of ioctls and modes, the register
  layout and the macros that select kernel interfaces.

## 8. What is left

The modelled components are complete but for what section 7 names. Of that, three
things could be added: the vblank calls of `xengfx_crtc_disable`, `prepare` and
`commit`, once what the DRM core does in them is described, blanking with several
CRTCs once the helper's choice of a CRTC is, and a list of CRTCs in `XenGfxIrq`
that lacks one whose interrupts are enabled.

Of the proofs, one could follow: that the calls of `XenGfxDisplay` do to the
aperture only what `XenGfxAperture` allows, a step of a call being several of its
steps.
