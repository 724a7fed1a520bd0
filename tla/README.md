# Linux_Kernel_Learning: specifications, model checking and proofs

This directory holds TLA+ models of the kernel modules in this repository, the
TLC configurations that check them on small instances, and theorems about them
that the TLAPS proof system checks for every value of the constants.

The repository is a course: many small, unrelated kernel modules, each built
around one mechanism (a mutex, a timer, a work item, a character device), and
one large file, the kernel's own `platform.c`, that is read with the device
tree chapter. There is therefore no single system model. There is one module
per mechanism, and the composition is between a module of the repository and
the part of the kernel it runs in (the VFS, the module loader, the timer and
tasklet softirqs, the workqueue, the driver core), which is modelled as far as
the code relies on it.

Paths below are relative to `src/Linux_Kernel_Learning/04_Example`, except those
that begin with `01_Device_Tree`, `02_Modules` or `03_QEMU` (in
`src/Linux_Kernel_Learning`) and with `Linux_test` (in `src`).


## 1. Inventory

### Components that are modelled

| Component | Source | State | Operations | Talks to |
|---|---|---|---|---|
| msgdev file operations | `017_msgdev/msgdev.c` | `message[]`, `msg_len`, one mutex; a position per open file | open, release, read, write, ioctl (clear, get length) | processes through the VFS; user memory that may fault |
| load and unload of the character devices | `006_mutex/*`, `015_virtual_char_device`, `016_register_char_device`, `017_msgdev` | the resources the module holds; the files open on it | init, its error paths, exit | module loader, VFS |
| timers and tasklets | `004_test_timer`, `005_HRT`, `008_tasklet`, `010_tasklet_timer_interrupts`, `011_tasklet_file_monitoring` | pending and running bits of a timer and a tasklet, the counters they keep; the data and file name of 011 | init and its failures, callback, tasklet, exit | softirqs on other CPUs |
| work items | `003_wait_queue`, `009_work_queue`, `013_system_workqueue` | a flag, a wait queue, memory shared with the handler | init, handler, exit | workqueue, scheduler, signals |
| mutex_demo | `Linux_test/005_test_mutex/mutex_demo.c` | counter, text buffer, mutex, stop flag, allocations | init, two threads, exit | kthread_run, kthread_stop |
| mutex_dev reader | `006_mutex/01_*`, `006_mutex/02_*` | mutex with its wait list, file positions | read; the `mutex_init` at the end of init | VFS, signals |
| usb829 data path | `015_virtual_char_device/virtual_char_device.c` | `buffer`, `data_size`; no lock | write, read, open | VFS |
| spinlock threads | `007_spin_lock` | counter, spinlock | init, two threads, exit | kthread_run, kthread_stop |
| platform device registration | `01_Device_Tree/platform.c` 498-854 | `platform_devid_ida`, the bus, the resource trees; each device's ID, resources, reference | alloc, add_resources, add with its roll back, del, put, register, unregister, platform_add_devices | driver core, IDA, resource tree: each with a lock of its own, none around the sequence |
| platform drivers, matching and probe | `01_Device_Tree/platform.c` 856-1091, 1281-1294, 1335-1358, 1379-1471 | `drv->probe`, `dev->driver`, `driver_override`, `pdev->id_entry`; PM and DMA domains of a device; the counter of an array | register and unregister one driver, a run-once driver, a bundle of driver and device, an array of drivers; match; probe; remove; DMA configuration | driver core (which matches, locks, defers and retries), writes to `driver_override` |
| platform interrupts | `01_Device_Tree/platform.c` 171-411 | interrupts mapped, resources enabled, what one call has allocated | look up an interrupt, count them, get a set of them with affinity, release it with the device | interrupt controllers that may come later (deferred probe), the driver core's managed resources |

### Components that are not modelled

| Component | Source | Why, or when |
|---|---|---|
| the other lookups of platform.c | `01_Device_Tree/platform.c` 43-170, 412-496 | searches a table that does not change, or maps what it finds: no state of its own. The interrupts are the exception, and modelled |
| power management, shutdown and sysfs of platform.c | `01_Device_Tree/platform.c` | each function calls one callback or prints one value; no state of its own |
| linked list | `002_bidirectional_loop_list` | one thread builds one list in a fixed order; planned (section 8) |
| msgdev test program | `017_msgdev/test_msgdev.c` | planned, as a client of `MessageBox` |
| container_of | `001_container_of` | address arithmetic in one function |
| USB notifier | `012_tasklet_usb_monitoring` | the callback prints; registration is one call |
| ch340 | `014_ch340_timer` | a user program that writes to a serial line in a loop |
| first modules | `Linux_test/test_*` | print a line, allocate and free, add two numbers |
| second copies of 003 and 004 | `Linux_test/003_wait_queue`, `Linux_test/004_test_timer` | the same programs as in `04_Example` |
| documents and build products | `02_Modules`, `03_QEMU`, `*.mod.c`, `.*.cmd` | no behaviour |

### What is hard

- **Interleavings inside a call.** A copy to or from user space may sleep at
  every byte (msgdev, usb829); init publishes a device before it is complete
  (006, 015); callbacks run while exit stops them (004, 005, 008, 010, 011);
  platform devices are added and deleted while others are between the steps of
  their own add; a driver is registered while devices come, go, are retried
  and get an override; `__platform_driver_probe` replaces the probe pointer
  that a probe may just be reading.
- **Failure at every step.** Init functions with up to eighteen acquisitions
  and a roll back for each; `platform_device_add` and `platform_add_devices`,
  with roll backs inside roll backs; a registration of drivers that fails after
  some devices have been bound; a probe that fails or defers with interrupts in
  hand, and is tried again; allocations and thread creations in mutex_demo.
- **Lifetime.** Memory shared between init and a handler that both believe
  they own (009, 013); threads that outlive the data they use (mutex_demo);
  callbacks and files that outlive a module.
- **Liveness.** `del_timer_sync` against a callback that re-arms its timer;
  `kthread_stop` against threads that only look at a flag; a wake-up that may
  come before the sleep; a mutex that has to be passed on by every return.


## 2. Modules

| Module | What it is |
|---|---|
| `MessageBox` | abstract: a box with one message; a call takes effect in one step |
| `MsgDev` | `msgdev.c`, call by call and byte by byte; implements `MessageBox` |
| `MsgDevProofs` | its theorems, the refinement among them |
| `CharDevLoad`, `CharDevLoadProofs` | init, error paths and exit of the character devices, as tables, with the module loader and the VFS around them |
| `DeferredCallbacks` | the calls of init, callback and exit on a timer and a tasklet, and the softirqs |
| `WorkItem` | 003, 009, 013 with the steps of `wait_event_interruptible` and of the wake-up |
| `DeferredWorkProofs` | theorems about the two, which have no name in common (`WorkInit`, `WorkNext`, `WorkSpec`, ...) so that it can extend both |
| `KernelThreads`, `KernelThreadsProofs` | the two threads of `mutex_demo.c` and those of 007, and the module around them |
| `LockedRead`, `LockedReadProofs` | `my_read` of both variants of 006 with the mutex's wait list |
| `Usb829`, `Usb829Proofs` | `usb829_write` and `usb829_read` |
| `PlatformBus` | abstract: devices are added to and deleted from the bus in one step |
| `PlatformDevice`, `PlatformDeviceProofs` | registration in `platform.c`; implements `PlatformBus` |
| `PlatformDriver` | registration of drivers, matching, probe and remove in `platform.c`, with the loops and locks of the driver core |
| `PlatformIrqs` | the interrupts of one device: lookup, count, and the set a probe asks for |
| `PlatformBinding`, `PlatformBindingProofs` | the two composed: the probe of one device begins by getting its interrupts; theorems about both |
| `MC*` | the instances for TLC |

`PROJECT.json` maps every definition to the lines it stands for. Definitions
named `X_Something` and commented as a *slip* are variants of `X` with a
plausible mistake. No specification uses them: they exist so that each
property can be seen to fail when the code is wrong in the way it guards
against.

### How the models correspond to the code

**MsgDev.** `message`, `msg_len`, `lock` are the fields of the device;
`f_pos[f]` is the position that the VFS keeps. Each process has the locals of
its system call. A call is `Enter` (the VFS copies the position), `CheckCmd`
(what `dev_ioctl` tests before it locks), `Lock` or `Interrupted`, the body,
`Unlock`, `Return` (the VFS stores the position). The body of `dev_read` is
`ReadEof`, `ReadStart` and one `ReadByte` per byte or `ReadFault`; that of
`dev_write` is `WriteStart`, `WriteByte`, and `WriteDone` or `WriteFault`.
`copy_from_user` zero-fills what it could not copy; `WriteFault` does so, and
leaves `msg_len` alone as the code does. A faulting write thus leaves a message
of the old length whose bytes are partly new, partly zero and partly old;
`MessageBox` says exactly that.
`committed` is a history variable: the message when the mutex was last
released. It is what the abstract box contains. Two calls may use one file at
the same time: a character device's VFS entry takes no position lock.
`lseek`, `pread` and `pwrite` are not modelled: the driver uses the position
it is given, and positions in the model come from earlier calls only.

**CharDevLoad.** A driver is a record of four tables read off its source: the
order in which init acquires (`setup`), the steps whose result it tests
(`checked`), what it releases when a step fails (`undo`) and what exit releases
(`exit`). The steps of a table are the actions `SetupOk`, `SetupFails`,
`SetupFailsUnnoticed`, `Release`. Files can be opened as soon as a cdev has
been added, even while init runs; an open file keeps a live module from being
unloaded (`fops.owner`), but a module whose init fails is freed in any case.
The moment at which a device node appears is not a condition of `Open`: the
node may exist before (`mknod`).

**DeferredCallbacks.** An example is three lists of calls: of init, of the
callback, of exit. `ModTimer`, `DelTimer`, `TaskletSchedule`,
`TaskletKillBegin` and `TaskletKillEnd` do what those calls do to the bits
`armed`, `firing` (the timer) and `sched`, `queued`, `running` (the tasklet).
`del_timer_sync` waits for the callback, `del_timer` does not. `tasklet_kill`
is two steps: it takes the SCHED bit once the pending run has begun, then
waits for that run. The high-resolution timer of 005 is the timer of the
model: `hrtimer_cancel` does what `del_timer_sync` does. Init of 011 is the
allocation, which may fail as may the lookup of the directory before it
(`InitFails`), and then per file a `snprintf` of its name into the shared data
and a `tasklet_schedule`; exit kills the tasklet and frees the data. `filename`
counts the events whose name was written. Init sleeps two seconds between two
files and waits for nothing: `late` remembers that a name was overwritten
while the event before was still unhandled.

**WorkItem.** `wait_event_interruptible` is split where the handler can come
in between: the first look at the flag, getting on the queue, looking again,
sleeping, leaving the queue. The wake-up takes the queue's lock, takes the
sleeper off, and releases the lock in a step of its own: that release is the
handler's last access to the shared memory.

**KernelThreads.** `example` chooses between `mutex_demo.c` and 007; the two
share the life of their threads and differ in init, lock, loop and exit. Each
allocation of mutex_demo and each `kthread_run` of either can fail. mutex_demo
then frees what it has, without stopping a thread that was created (`Undo...`);
007 does not notice. The update of the counter is a load and a store, the text
a step of its own, the sleep a place where a thread stays; it is not cut short
by `kthread_stop` (`msleep` is uninterruptible). `KthreadStop` is
called for the first thread, waits for it, then for the second. A thread that
has ended before may be freed, as nobody holds a reference to it: the call
returns or crashes. With an error pointer it crashes. `Rounds` is the 5 of
007's loop; for mutex_demo, whose loop has no end, it is a bound of the model: a
thread whose rounds are used up stays at the loop test until it is told to stop.
The counter is not given a width: the lock is held for 100 ms, and at ten updates
a second an `int` lasts for years.

**LockedRead.** `wait list`, `woken` and the rule that an unlock frees the
mutex whoever owns it follow `kernel/locking/mutex.c`. `MutexInit`, the last
statement of init, makes the mutex free and its wait list empty even when it is
in use. `early` remembers that it was, `overlap` that the mutex was taken from a
reader and that there has been a reader ever since. A reader that gives up, or gets the
mutex, leaves the list wherever it stands in it (`Without`).

**Usb829.** `snprintf("ACK: %.*s")` is `Format` (what it will store: the prefix
and the bytes before the first NUL, of at most the computed length), then one
`StoreByte` per byte, `StoreNul`, then `strlen` byte by byte, then the store
to `data_size`. `usb829_read` names `data_size` three times (lines 71, 74 and
75), without a lock: `Read`, `Compare` and `Cap` are the three loads, and a
write may come between any two. The difference `data_size - *off` is unsigned,
so a negative one does not cut the length down (`Compare`) and is refused by
`copy_to_user` when it becomes the length (`Cap`). A build that keeps the
value in a register between two of the loads is the case in which nothing comes
in between. `shrunk` remembers that a shorter answer came between the first two.

**PlatformDevice.** Every call of the IDA, the resource tree or the driver
core is one step, because each takes its own lock; nothing protects the
sequence. `i` is the unsigned loop counter of `platform_device_add` and
`platform_device_del`, so the roll backs count exactly as theirs do. The IDA
may return any free ID. `device_add` fails when the name is taken, and for
reasons of its own. Devices share one base name, which is the hard case.
`PLATFORM_DEVID_NONE` behaves as any other explicit ID. Callers keep to the
documentation: a device that failed or was deleted is put and not added again
(a fresh allocation may take its place). Resources have no `parent` set by the
caller.

**PlatformDriver.** `rpc[r]` is where the registration of driver `r` is,
`dpc[d]` where device `d` is: off the bus, idle, at one of the calls of its
probe, or bound. The driver core is modelled as far as `platform.c` depends on
it. `driver_register` puts the driver on the bus and sweeps over the devices it
finds there (`SweepMatch`, `SweepTry`): it calls `platform_match` without the
lock of the device, then waits for the lock, then probes, unless the device
has been bound or removed meanwhile. It does not match again under the lock.
`device_add`, and the work that retries deferred devices, try the drivers
(`DeviceAttach`). Unregistering takes the driver off the list, waits for
attempts on its devices and unbinds them (`Detach`, `Unregistered`).
A probe is `platform_dma_configure` (`Begin`), the clocks, the PM domain, the
driver's function, each of which may fail or ask for deferral; every exit
undoes what the ones before did. `platform_probe` looks at `drv->probe` twice, and the model
reads `probe[r]` twice, in `Begin` and in `CallProbe`.
`__platform_driver_probe` (drivers in `Once`) registers, then replaces the
pointer (`ForceFail`), then walks over the bus for a device with
`dev->driver` set to it, which says nothing about whether its probe has returned
(`WalkFinds`); if there is none it unregisters. `raced` marks the drivers that
another thread has tried during this, `rewritten` those that wait for the lock
of a device whose override was written after they had matched it. `__platform_create_bundle` adds the device
`Own[r]` first and takes it back when the rest fails. An array is registered and
unregistered with the counter `i` of the code. `MatchId` is the side effect of
`platform_match_id`: it stores into `pdev->id_entry` of whatever device it is
tried on, whether or not the driver is then bound.
A device is added and deleted here in one step: this is what
`PlatformDevice` implements (`AddsAtOnce`).

**PlatformIrqs.** One device, of one of three firmware styles, with the lines
its firmware node lists, its interrupt resources and the controller of its
`GpioInt`; a controller may have been bound already or not (`Online`, at any time).
`platform_get_irq_optional(k)` is the result of a lookup, `Acquire(k)` its side
effect. A lookup asks a controller, or the firmware (`Asks`): the line of a device
tree node, a disabled ACPI resource, or the `GpioInt` in place of a first
resource; each may be deferred. If there is nobody to ask it takes the number in
the resource (`FromResource`), also for a device tree node whose line leads
nowhere. Only who is asked maps the interrupt; in ACPI style the number is
then written into the resource and believed from then on. A number that is
fixed in the resource is mapped by nobody here: `ready` says that board code has
done it before. This matters when the resource has trigger flags.
`devm_platform_get_irqs_affinity` is
`Count`, `CountEnds`, `Calc`, `Get`, `CreateMasks`, `Update`, `Return`,
with a failure at every place where the code has one; `irq_update_affinity_desc`
refuses a number that is not mapped. A call that fails, and one
that takes fewer vectors than it has counted, leaves the others mapped and
written, as the code does. `Release` is the managed resource's release function:
it disposes of the mapping of every vector, whoever made it (all numbers are of
an interrupt domain), and disables the ACPI resources.

**PlatformBinding.** The probe of `IrqDev` begins with the call and hands its
error on, `-EPROBE_DEFER` included; with the interrupts in hand the rest of the
probe may still fail. In every step in which the driver core lets go of the
device (failed probe, unbind, unregistered driver, deleted device) the
interrupts are released. Three levels thus fit together, each by a theorem:
`PlatformBinding` implements `PlatformDriver` (`BindingImplementsDriver`),
which implements `PlatformBus` (`DevicesComeAtOnce`), which is what
`PlatformDevice` implements (`DriverCoreSeesOneStep`).


## 3. Runs

All bounds are constants of the `.cfg` files, or the bound named in the table.

| Run | Question | Instance | Distinct states |
|---|---|---|---|
| `MsgDev` | Does every call take effect at one instant and return, whatever faults, signals and lengths? | 2 processes, 1 file, `BUFFER_SIZE` 3, writes of 1 and 4 bytes, reads of 1 and 5 | 250 452 |
| `CharDevLoad` | Does every error path and exit give back exactly what is held, in a safe order? | the 4 drivers, `EEP_NBANK` 3, 2 files | 919 |
| `DeferredCallbacks` | What is left running after unload, is a schedule lost, does the tasklet outlive its data, does unload end? | the 5 examples, `MaxFires` 4 | 421 |
| `WorkItem` | Is the wake-up lost, is the memory freed once, who waits for whom? | the 3 examples, a signal at any moment | 347 |
| `WorkItem009` | "flag to indicate completion": is the handler through with the memory then? | 009 | violated |
| `KernelThreads` | Are updates lost, are printed values final, what is leaked or freed early, does exit return, when can it crash? | both examples, `Rounds` 5 | 34 081 |
| `MutexDemoHalf` | Is the mutex never freed while held? | `Rounds` 1 | violated |
| `LockedRead` | Do readers exclude each other, and is every waiter served? | 3 readers, both variants, `DataLen` 2 | 24 624 |
| `Usb829` | What survives writers and readers without a lock? | 2 writers, 1 reader, `BUF_SIZE` 5, prefix of 1 byte, writes of 0, 1, 3 (with a NUL) and 4 bytes; writers symmetric | 945 554 |
| `PlatformDevice` | Are IDs and resources lost or kept, does the bus see single steps, is a batch all or nothing? | 4 devices, 2 of them a batch, IDs 0 to 2 | 51 663 |
| `PlatformDeviceBatch` | Is the reference of a failed device given up? | the same | violated |
| `PlatformBinding` | Is every probe and registration undone when it fails, when is a run-once probe over, who may be bound to what, are interrupts kept or lost? | four systems (below), five kinds of interrupt device, `minvec` 1, `maxvec` 2 | 684 499 |

`CHECK_DEADLOCK FALSE` is set where the program ends: a module that has been
unloaded is not loaded again in `DeferredCallbacks`, `WorkItem`, `WorkItem009`,
`KernelThreads` and `MutexDemoHalf`.

### Why the bounds are enough

- `MsgDev`: a write of 4 bytes is one more than the buffer holds and two more
  than the driver keeps, a read of 5 is longer than any message, so each cap
  bites. Two different bytes tell old content from new. Two processes give
  every pair of calls; the theorems of section 5 cover any number.
- `CharDevLoad`: with three banks there is a first, a middle and a last bank
  to fail. `DriversDoNotLeak` covers any number.
- `DeferredCallbacks`: expiry number four happens after the timer has been
  re-armed three times, so there is an expiry before, between and after the
  steps of exit. The proofs hold for any bound. 011 schedules for its three files.
- `WorkItem`: one handler, one waiter; the state is finite without a bound.
- `KernelThreads`: the code has two threads, and 007 five rounds, so for 007
  nothing is cut. In mutex_demo one thread can do several rounds between two of
  the other; the proofs hold for any number. One round is enough for the
  counterexample of `MutexDemoHalf`.
- `LockedRead`: three readers, one that holds the mutex, one that is woken,
  one that overtakes it. Two bytes of data let a read stop short of the end.
- `Usb829`: five bytes hold a prefix, up to three bytes and the NUL, so a
  write can be cut, be whole or be empty.
- `PlatformDevice`: `d1` has two memory ranges with an IRQ (no tree) between,
  so its roll back goes over all three cases; the resources of `d1`, `d2` and
  `d3` are arranged so that claims conflict, nest and are independent;
  `d3` and `d4` ask for the same name; `d1` and `d2` take automatic IDs, one
  of which equals the explicit ID 0. The batch has a first and a last device.
- `PlatformBinding`: each form of registration meets what can disturb it. A
  bundle driver with its own device and a driver whose table names both devices
  of the system, so either may get either; an array of two drivers with a device
  that is overridden, released and deleted while they register; a
  device with interrupts and a driver that may defer, and one that may not.
  One driver in the array has `driver_managed_dma`. The interrupt devices are
  of device tree style (one with lines to two controllers and one that leads
  nowhere, one that falls back to a fixed number in its resource), of ACPI style
  (one with a line that needs its trigger set, one with only a GPIO), and without
  firmware (a fixed number with a trigger, mapped by board code, one without, and the
  number 0). Two vectors at most are fewer than some devices have, so that a
  release disposes of some interrupts and not of others. The
  theorems cover any devices, drivers, systems and bounds.

### What each property says

Each property carries its statement as a comment in its module. In short:

- `MsgDev`: `Terminated` (the buffer ends in a NUL), `ReadWithinMessage` (the
  bounds check of a read stays true while it copies), `ReadNotTorn` (a read
  returns a piece of one message), `ImplementsBox` (refinement),
  `CallReturns` (no error path keeps the mutex).
- `CharDevLoad`: `NoLeak`, `ReleasesWhatItHolds` (nothing is released twice),
  `Backed` (nothing is released before what stands on it),
  `StrandedOnlyByEarlyCdev` (a driver that adds its cdev last is never freed
  under an open file; 006, 015 and 016 add it earlier and can be).
- `DeferredCallbacks`: `NothingIsPending` (when exit prints its counters they are
  final, every request has been served and nothing runs or will run; 004,
  with `del_timer`, may only leave a callback that had begun),
  `TaskletHasData` (011 frees its data after the last run, and on every way
  out), `ReportsOwnName` (011 names the event it reports, unless it is more than two
  seconds late), `UnloadFinishes`.
- `WorkItem`: `HandlerOwnsData` (memory is freed under the handler in 009 only,
  and there only by an init that was interrupted, or saw the flag before it was
  woken), `DataIsFreed` (never twice, and by the time init and handler are
  through), `ReturnsOnlyWhenDone` (without a signal, init does not come back
  before the work is done), `InitFinishes` (no lost wake-up).
- `KernelThreads`: `Protected` (no update is lost, and when the mutex is free
  the text shows the counter), `OnlyHalfStartedHurts` (the data is freed under a
  thread only after a half-started load; a failed load leaves no memory, an
  unload only the two thread arguments, which exit never frees),
  `PrintsFinalValues`, `CrashesOnlyLate`, `UnloadFinishes`.
- `LockedRead`: `ExclusionUnlessEarly` (two processes read at once only while there
  has been a reader ever since `mutex_init` took the mutex from one; never
  three do; once nobody reads the excess is over), `WaiterIsServed`.
- `Usb829`: `ReadInsideBuffer` (of all races of writes with the three loads of a
  read only one makes the read leave the buffer: a shorter answer between the
  first and the second), `PrefixStays` (racing writers store the same
  prefix over each other, so it never disappears, and it is read whole), `AckIsWhole` (a write that
  ran alone is answered whole).
- `PlatformDevice`: `IdsAreHeld` (the allocated IDs are exactly those in use),
  `AutoNeverCollides`, `AllOrNothing` (all resources of a device or none),
  `BatchAllOrNothing`, `AddsAtOnce` (refinement).
- `PlatformBinding`: `DomainsAreBalanced` (PM and DMA domains are entered and
  left in pairs on every way through a probe), `FailedIsGone` (a failed
  registration leaves no driver, no bound device, no device of its own),
  `OnceIsOver` (after `platform_driver_probe` the probe function may be
  discarded), `FutileOnlyByCore` (what can still defer a driver that must not
  defer), `OverrideDecides` (a device with an override is bound to no driver of
  another name on any way, but by a `driver_register` after whose match it was
  written), `IdEntryIsOwn` (a probe gets an entry of its own
  table), `GetsWhatItMay` (a set of interrupts is complete and mapped, or
  there is nothing to release), `CountsTheDevice` (what earlier probes have mapped,
  written and released does not change the count, but for fixed numbers with
  trigger flags).


## 4. Fairness

Safety properties use `Spec` without fairness. Liveness assumes:

- **Running code keeps running** (weak fairness of the steps inside a call, a
  thread, a handler, a softirq). Opening, calling, signals, expiry of timers,
  rmmod and failure are never assumed to happen. The threads are kernel
  threads and the sleeps have a timeout.
- **A mutex is not starved** (strong fairness of `Lock` in `MsgDev`,
  `KernelThreads`, `LockedRead`): `kernel/locking/mutex.c` hands the mutex to a
  waiter that has lost the race once (`MUTEX_FLAG_HANDOFF`). The spinlock of 007 is
  granted in order of arrival. In `KernelThreads` exit needs only weak fairness:
  when it takes the mutex the threads are gone.
- **`del_timer_sync` and `tasklet_kill` succeed some time** if they can again
  and again (strong fairness of `ModuleCall` in `DeferredCallbacks`): the
  callback of 010 re-arms its timer a second later, and exit polls in between.

`WorkItem` needs weak fairness of the loading process and the worker only.
`PlatformDevice` and `PlatformBinding` are checked for safety only, without any
fairness: no step of an add or a probe waits for another party but for a lock
of the driver core, whose fairness is not this code's.


## 5. Proofs

`tlapm` checks every proof below without any assumption beyond the named
`ASSUME`s of the module (sizes and counts are naturals, the NUL is no
character, model values differ) and, where stated, the hypothesis that the
examples or drivers are those of the source.

- **MsgDevProofs**, for any number of processes and files, any buffer size, any
  payloads: `TypeCorrect`, `AlwaysTerminated`, `ReadsStayWithinMessage`,
  `ReadsAreNotTorn`, `DriverImplementsBox`. None of the properties is
  inductive alone. `IInv` adds `LocalInv` (what each process has decided in
  its call so far), `LockInv` (who is between lock and unlock owns the mutex),
  and `HeldInv`: when the mutex is free the buffer is `committed`; when it is
  held, the buffer is `committed` changed by what the holder has done so far,
  and at the unlock the change and the result are one of the outcomes the
  abstract box allows (`Outcome`). With that the unlock maps to the abstract
  operation, `Return` to `Return`, `Enter` to `Call`, the error returns
  before the lock to `NoEffect` and everything else to a stutter.
  Of `CallReturns` two parts that need no fairness: `CallsAreNotStuck` (wherever
  a call is, it has a step to take, or it waits for the mutex and the holder
  has one) and `CallsComeToAnEnd` (each step of a call lowers its `Rank`, no
  step of another process raises it; a call has at most `BUFFER_SIZE` + 5 steps).
- **CharDevLoadProofs**: `CompleteTableDoesNotLeak` for any table that is
  `Complete`; then that the four tables of the source are, 016 for every
  number of banks, whence `DriversDoNotLeak`. `OnlyEarlyCdevStrands`. The
  invariant says that what is held is covered by the steps taken so far while
  init runs, and by what is still to be released afterwards.
  `NothingIsReleasedTwice` and `NothingLosesItsGround` add the order: what is
  still to be released is held (but for what an unchecked step may have
  missed), occurs once, and comes after everything that stands on it
  (`OrderInv`), because each of the four tables is `Ordered`. `TypeCorrect` is
  the type invariant of the four.
- **DeferredWorkProofs**, about the timers and tasklets, for any number of
  expiries: `ExitIsFinal`, `DataOutlivesTasklet`, `EventsKeepTheirNames`,
  `TypeCorrect`. The invariant is the list of points at
  which init, exit and callback can be (`CallsInv`), that past
  `del_timer_sync` the timer is idle and nobody is left to arm it
  (`TimerInv`), that every request is served, or queued, or the SCHED bit
  belongs to `tasklet_kill` (`TaskletInv`), and that the data of 011 is there
  from the first schedule until past `tasklet_kill` (`DataInv`). `NameInv` is
  about 011: a name is written once per event and before it is scheduled, and,
  unless one came late, never while the event before waits or runs. `UnloadIsNotStuck`: what exit waits for is always under way.
- **DeferredWorkProofs**, about the work items: `OnlyEarlyInitFreesUnderHandler`,
  `DataIsFreedOnce`, `InitWaitsForWork`, `SleeperIsWoken`, `WorkTypeCorrect`. `WorkInv` says
  which places of init and handler go together (`PlaceInv`), what the handler
  has done at each of its places (`HandlerInv`), who has freed the memory
  (`MemoryInv`), and that an init that waits is on the queue or has been woken
  (`WaitInv`), which is why the wake-up cannot be lost: the flag is set before
  the queue is looked at, and init gets on the queue before it looks at the flag.
- **KernelThreadsProofs**, for any number of rounds: `LockProtectsData`,
  `HalfStartedLoadsHurt`, `FinalValuesAreFinal`, `CrashesAreLate`, `TypeCorrect`. `LockInv` ties
  the owner to the thread between lock and unlock, `DataInv` says by how much
  counter, text and loaded value differ inside the critical section, `StartInv`
  which threads exist at each point of init and exit, `MemoryInv` what is
  allocated there, and `EndInv` that a thread ends only when told to or done.
  For `UnloadFinishes`: `UnloadIsNotStuck` (exit can stop the next thread, or has
  both, or the thread it waits for can go on; so can the holder of the lock)
  and `ThreadsComeToAnEnd` (while exit is stopping them, each step of a thread
  lowers its `Rank`, and no other step raises it).
- **LockedReadProofs**, for any number of readers: `ReadersExclude`,
  `TypeCorrect`. Unless there is an `overlap`, who reads is the owner; with one, at
  most one reader is not.
  `NoWakeUpIsLost`, for `WaiterIsServed`: when the mutex is free and readers
  wait, one of them has been woken and is on its way, whoever was interrupted
  meanwhile (`ListInv`: the list holds just the waiting readers, each once, and
  its head has been woken when the mutex is free).
- **Usb829Proofs**, for any sizes and any number of writers and readers:
  `StaysInBuffer`, `PrefixIsKept`, `LoneWriteIsAnswered`. The last byte is
  never stored to except with a NUL; the end of a read is below it at each of the
  three loads, unless a shorter answer came between the first two; each writer's text begins with the prefix
  and what it has stored of it is in place whoever else writes; a writer that
  has been alone finds in place everything it has stored.
- **PlatformDeviceProofs**, for any devices, resources, IDs and batch:
  `NoIdIsLost`, `AutomaticNamesAreFree`, `AllResourcesOrNone`,
  `BatchIsAllOrNothing`, `DriverCoreSeesOneStep`. `ClaimInv` states which
  resources are claimed at each value of the loop counter, in both
  directions; `IdInv` and `IdsAreHeld` who has an automatic ID; `TreeInv` and
  `NameInv` that the claims fit together and the names on the bus differ;
  `BatchInv` where each device of the batch can be at each point of
  `platform_add_devices`. Adding maps to `Add` at `device_add`, deleting to
  `Del` at `device_del`, everything else to a stutter.
- **PlatformBindingProofs**, for any devices, drivers, tables, systems, arrays,
  interrupts and bounds: `DomainsBalance`, `FailedLeavesNothing`,
  `EntryIsOfTheTable`, `ProbeIsDiscarded`, `OnlyCoreDefers`,
  `OverrideIsObeyed`, `AffinityIsAllOrNothing`, `CountIsOfTheDevice`,
  `TypeCorrect`. `DriverInv`
  ties `dev->driver` to the place of the device (`OwnerInv`), a waiting
  `driver_register` to its device (`AtInv`), the places of a registration to what
  it may own (`PlaceInv`), the loop counter of an array to where each of its
  drivers is (`ArrayInv`), says that an unraced driver is probed by its own
  `driver_register` only (`RaceInv`) and whose table an ID entry is from (`IdInv`).
  The steps are first sorted into a few kinds (a device begins, goes on, is
  bound, is let go of; a registration moves), and each part of the invariant
  is shown for each kind. `OverrideInv`: a driver that waits for the lock of a
  device has matched it under the override that is there still, or is
  `rewritten`. `IrqInv` says that a resource that has been written
  belongs to a line that leads somewhere and is mapped, that of the fixed numbers only
  those are mapped that were so from the beginning (`TableInv`), and what the call
  holds at each of its points (`CallInv`). `InterruptsFollowTheDriver` needs both:
  the device has interrupts only inside its PM domain, in the probe or bound.
  `RegistrationIsNotLost`: while `driver_register` waits, it waits for a device
  on the bus or for the probe of its own driver. `BindingImplementsDriver` and
  `DevicesComeAtOnce` are the refinements named in section 2.

Every invariant and action property of the runs, and every refinement, is
stated by one of these theorems; the type invariant of `Usb829` is in
`StaysInBuffer`, that of `PlatformDevice` part of its proved invariant.

Only model-checked: liveness, that is `CallReturns`, `UnloadFinishes` (of
`DeferredCallbacks` and of `KernelThreads`), `WaiterIsServed` and `InitFinishes`.
It needs fairness, and with it ENABLED, which the prover does not handle. What
the arguments rest on is proved: that nobody waits for what will not come
(`CallsAreNotStuck`, `UnloadIsNotStuck` twice, `NoWakeUpIsLost`, `SleeperIsWoken`)
and, for calls of msgdev and for the threads, that their steps run out
(`CallsComeToAnEnd`, `ThreadsComeToAnEnd`). `ImplementsBox`, `AddsAtOnce` and the other
refinements are of the safety parts; the abstract modules state no fairness.


## 6. Where code and claim differ

- **009 frees memory its handler still uses** (`WorkItem009`). `done` is set
  before `wake_up_interruptible` takes the lock of a wait queue in the same
  allocation. Init may see it without sleeping and free the allocation first;
  a signal frees it even before the handler has begun.
- **A half-started mutex_demo frees a mutex that is held** (`MutexDemoHalf`).
  If one `kthread_run` fails, init frees the data without stopping the thread
  that was created.
- **platform_add_devices keeps a reference** (`PlatformDeviceBatch`).
  `platform_device_register` asks for `platform_device_put` also after a
  failure; the roll back handles only the devices before the failed one, and
  the caller is not told which it was.

Seen by reading, and represented in the models as the code does it, without a
run of their own:

- 016, line 76: `device_create` reports failure by an error pointer and is compared with
  NULL; the module loads without the device (`SetupFailsUnnoticed`). 006 does
  not look at the result at all.
- 003, line 31, and 009: the result of `wait_event_interruptible` is not used; a signal
  makes init go on as if the work were done (`interrupted`).
- 004, lines 32-35: `del_timer` does not wait for a callback on another CPU
  (the exception in `NothingIsPending`), and the message that the timer
  is still in use is printed when it was pending and is now removed.
- 006: `mutex_init` is the last statement of init, after the device is
  visible. It may re-initialise a mutex in use (`early`); two readers then go
  on side by side until nobody reads (`overlap`).
- 007, lines 54-58 (`CrashesOnlyLate`): `kthread_stop` for threads that have returned by
  themselves, or for an error pointer; the second test looks at `thread1`
  again. `mutex_demo.c`, line 147: likewise when a thread has returned on
  `stop_threads` first.
- 003, 009, 013: exit does not flush the work; the module can be unloaded
  under its handler.
- 015: reads and writes share the buffer without a lock; a read may return
  bytes of two answers. Nothing promises otherwise. If a shorter answer is
  stored between the test of `usb829_read` (line 71) and its comparison (line 74), the
  length is not cut down and the read leaves the answer, and may leave the
  buffer (`shrunk`).
- `platform.c`, lines 947 and 952: when another thread tries the driver while
  `__platform_driver_probe` registers it, the walk over the bus may find a device whose
  probe has not returned, so that the call succeeds although a probe may still
  run or fail (`raced` in `OnceIsOver`). Without such a thread it cannot.
- `platform.c`, lines 934-936: `prevent_deferred_probe` takes effect only from
  `dev_pm_domain_attach` on. Clocks and DMA of the device can still defer it
  (`FutileOnlyByCore`).
- `platform.c`, `platform_match_id`: the ID entry of a device is overwritten by each
  table that names it, whichever driver is bound in the end (`Contested`).
- `platform.c`, line 1340 ("only bind to the matching driver"): `driver_register` calls
  `platform_match` before it locks the device. What `driver_override_store`
  writes before the lock is taken is not looked at again, and the device is
  probed by a driver its override does not name (`rewritten`).
  `OverrideDecides` shows that this is the only way.
- `platform.c`, line 314: the release disposes of the mapping of a number that is
  fixed in the resource. No lookup makes it again, and if the resource has
  trigger flags `platform_get_irq_optional` gives `-ENXIO` from then on: the probe
  that follows counts fewer interrupts (`Disposed`). `CountsTheDevice` shows that
  nothing else has this effect.
- `devm_platform_get_irqs_affinity` releases the memory on an error, but not the
  mappings it has made while counting; nor those beyond `maxvec`.

When code of a module runs after its memory has been freed, the models go on
as if the memory kept its content: what matters is that it happened.


## 7. What the models leave out

Printing and message texts; the contents of `copy_from_user` beyond bytes the
properties tell apart; `lseek` and positional reads of msgdev; memory ordering
weaker than sequential consistency (the data is under locks, except in
Usb829, whose buffer is modelled byte by byte with each byte atomic, and the
probe pointer, which is one word); reference counts beyond "somebody refers to
it" in `PlatformDevice`; device node permissions; the fsnotify callback in
011 that is not registered; in `platform.c` the power management callbacks,
`shutdown`, what sysfs shows, what is inside the DMA and IOMMU layers, and
interrupts shared between devices. Each driver is registered by one thread at a
time, as the code of a module does. `PlatformBinding` states no liveness: a
registration ends when the probes of other people's drivers end.


## 8. Plan

What is left, in this order:

1. Ranks for the remaining waits: exit of the timer and tasklet modules, init
   and handler of the work items, a read between lock and unlock.
2. `CharDevLoad` and `MsgDev` composed: opens through the loader, with the
   file operations of a driver that is being unloaded.
3. `LinkedList`: `list_add`, `list_add_tail`, `list_del` on pointers, shown to
   implement a sequence; the well-formedness of the ring is the invariant to
   prove.
4. `MsgDevTest`: the test program as a client of `MessageBox`, alone and with
   others: which of its expectations hold under concurrency.
5. The lookups of `platform.c` by type, index and name as functions over
   resource tables, against a reference definition.
