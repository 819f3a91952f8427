# A verification development for winfsp-fs-skeleton

`winfsp-fs-skeleton` is the part of a Windows filesystem driver that does not
know the filesystem: it notices disks, reads their partition tables, asks the
backend whether a partition is its own, has it mounted on a drive letter, and
ends the mount when the disk goes; under the mounts it reads and writes the
device and translates file times and attributes. The modules in this directory
model that behaviour in TLA+, check it with TLC on small machines, and prove the
main results with TLAPS for every number of disks, partitions, letters and
threads, every device and every calendar.

## 1. The system

### Components

| Component | Source | State | Operations |
|---|---|---|---|
| Mount service | `src/src/service.rs` | `State.mounts: (disk path, partition) -> letter`, `State.shutting_down`; the SCM status | start-up, rescan, arrival, removal, drain; the SCM's stop and session-change controls |
| Foreground watcher | `src/src/watch.rs` | `State.mounts: (disk path, partition) -> (child, letter)`, `State.shutting_down` | start-up, rescan, arrival, removal, drain; Ctrl-C |
| Disk scan | `src/src/scan.rs` | none | `disks_to_probe`, `same_device`, the set-up API walk |
| Probe helpers | `src/src/probe.rs` | none | `pick_drive_letter`, `detect_at`, `probe_len`, `device_interface_name` |
| Partition tables | `src/src/partition.rs` | the listing under construction, the EBRs visited | `list_from_source`, `walk_ebr_chain`, `parse_mbr`, `parse_gpt` |
| Block device | `src/src/device.rs` | an open handle, its size, sector size and mode | aligned `read_at`, `write_at`, `flush` |
| Translation | `src/src/translate.rs` | none | file times, attributes, path separators |
| Backend traits | `src/src/reader.rs`, `src/src/lib.rs` | the backend's | `FsReader`, `FsWriter`, the `writable` guard, `FsBackend` |
| Project template | `src/templates/` | files on disk | `customize.sh`, installer, winget manifests, release workflow |

### How they interact

The service and the watcher are two programs around the same helpers. Each has
one *pump thread*. It opens a message-only window, registers it for disk
notifications, scans the disks that are there already, and then dispatches
messages one at a time; it is the only thread that mounts or unmounts. A second
thread, the SCM's control thread or the Ctrl-C thread, sets
`State.shutting_down` and posts `WM_QUIT`; in the service it also posts
`WM_RESCAN` when somebody logs on. The threads share `State` under a mutex and
the pump thread's message queue. Outside are things the program only sees
snapshots of: which disks are attached, which drive letters are taken, whether
a console session is active, and the mount processes. The service's mounts are
instances of `WinFsp.Launcher`, named by drive letter and started and stopped
through `launchctl`; the watcher's are its own child processes.

A disk has two spellings. The arrival notification keeps the driver's mixed
case, the set-up API of the scan lowers it. `same_device` ignores case, the
`HashMap` key of `State.mounts` does not.

### What is hard here

- *The machine changes while the pump thread works on a picture of it.* A disk
  comes or goes between registration and scan, between snapshot and listing,
  between two probes, between the probe and the start of the mount.
- *A stop overtakes a mount.* `shutting_down` is read once at the beginning of
  `handle_arrival`; the mount that follows is started and tracked all the same.
- *Notifications and thread messages* are two queues with no order between them.
- *Knowledge by name.* The service knows a mount by its letter only; a mount
  that exits by itself leaves its entry, and the letter is given out again.
- *A drive appears later* than the process that serves it, so the next free
  letter may already be promised.
- *One step of several fails*: a listing, a probe, `launchctl`, its location in
  the registry.
- *Boot*: disks are scanned before anyone is logged on, and served at logon.
- *The service dies and starts again* over mounts it no longer knows: nothing is
  persisted, and the release profile aborts on panic.
- *A partition table is whatever is on the disk*: EBR chains loop, leave their
  extended partition, or end in an unreadable sector.
- *A raw device takes whole sectors only*, cuts transfers short, may tell 0
  or nonsense for its sector size, and its handle has one file pointer for all threads.
- *Two calendars*: a `FILETIME` has neither the range nor the resolution of a
  Unix time, and its 0 is a date and "leave alone" at once.

### What makes each component correct

- Service: no running mount it has forgotten; no entry for a removed disk
  without a removal on its way; a rescan mounts nothing twice; `launchctl stop`
  ends the mount it was meant for; every disk with our filesystem is served
  when things are quiet; a stop ends in `Stopped`; a logon serves the disks
  that waited for it.
- Watcher: the same of its children, and Ctrl-C ends it.
- Scan and probe: the same device under two spellings is one device; the letter
  picked is the lowest free one and within `E:`..`Z:`.
- Partition tables: the primaries always come through; every logical partition
  the chain reaches is listed once, at its absolute LBA; the walk ends.
- Both: what `Automount` promises, below.
- Block device: a read returns the bytes asked for whatever the alignment and
  whoever else uses the handle, and makes no call the medium refuses as long as
  the medium can be read in the sectors it tells or in the default ones; a write
  puts each byte at its place; a flush that succeeds makes it durable.
- Translation: conversions saturate rather than wrap, and what is read and given
  back comes out the same.
- Backend traits: a change is refused only where Windows was told "read-only".

## 2. The modules

| Module | Models | Uses |
|---|---|---|
| `DiskBus` | disks, path spellings, notification queue, letters; `scan.rs` and `probe.rs` decisions | |
| `Automount` | what both watchers promise | |
| `MountService` | `service.rs` | extends `DiskBus`, implements `Automount` |
| `MCMountService` | small machines for TLC | extends `MountService` |
| `DiskBusProofs` | lemmas about the notification queue and letters | extends `DiskBus`, `TLAPS` |
| `MountServiceProofs` | `TypeCorrect`, `RemovalNeverMissed`, `NothingOrphaned`, `RescanSafe` | extends `MountService`, `DiskBusProofs` |
| `MountServiceAutomountProofs` | `StopsAreOwn`, `ServiceImplementsAutomount`, `DisksServed`, `NamesUnique` | extends `MountServiceProofs` |
| `Watcher` | `watch.rs` | extends `DiskBus`, implements `Automount` |
| `MCWatcher` | small machines for TLC | extends `Watcher` |
| `WatcherProofs` | `TypeCorrect`, `RemovalNeverMissed`, `NothingOrphaned`, `DisksServed`, `WatcherImplementsAutomount` | extends `Watcher`, `DiskBusProofs` |
| `PartitionTable` | `partition.rs` | |
| `MCPartitionTable` | small disks for TLC | extends `PartitionTable` |
| `PartitionTableProofs` | `WalkStaysInside`, `ListedHaveSectors`, `ListingIsWhole`, `WalkIsBounded` | extends `PartitionTable`, `FiniteSetTheorems`, `TLAPS` |
| `DeviceRead` | `read_at` of `device.rs` on Windows | |
| `DeviceReadProofs` | `ReadersTyped`, `ReadsExact`, `ShortReadsLeave` | extends `DeviceRead`, `TLAPS` |
| `BlockDevice` | the rest of `device.rs` (opening, sizing, `write_at`, `flush`) and `probe.rs`'s `probe_len`, `detect_at` | extends `DeviceRead` |
| `MCBlockDevice` | small media and requests for TLC | extends `BlockDevice` |
| `BlockDeviceProofs` | `BlockTyped`, `SharedReadersTyped`, `SharedReadsExact`, `WritesExact`, `FlushesHold`, `ReadsAccepted`, `SharedShortReadsLeave`, `ProbesAnswer` | extends `BlockDevice`, `DeviceReadProofs` |
| `FileTimes` | time conversions and attributes of `translate.rs`, the guard of `reader.rs` | |
| `MCFileTimes` | a small calendar for TLC | extends `FileTimes` |
| `FileTimesProofs` | `TypeCorrect`, `TimesNeverLost`, `RefusalsAnnounced` | extends `FileTimes`, `TLAPS` |

Some operators (`Track_unless_stopping`,
`same_device_bytewise`, ...) sit before the definition they vary. Nothing uses
them: each is a bug the code could have had, and the property named with it in
`PROJECT.json` fails when it takes the definition's place.

### DiskBus

`present` is the set of attached disks, `devq` the notifications not yet
dispatched. A *path* is a device and a spelling; `SetupPath(d)` and
`ArrivalPath(d)` are the two strings a disk is known by, equal when the
driver's own spelling is lower case (`LowerCase`). Partition 0 is the whole
disk, as in `--part 0`. Drive letters are numbers, `E:` being 1.
`disks_to_probe` returns a set: the set-up API's order is not specified, and the
watcher takes the members in any order. `PlugIn` and `Unplug` queue a
notification while the window is registered. Windows is assumed to send one
arrival per attachment and one removal per detachment, in order.

### Automount

The abstract specification of a watcher: which disks are attached, which are
`leaving` (their removal is not finished), which mounts run, and whether the
watcher is up, stopping or down. A mount starts only for a disk that is attached
or leaving, so that somebody will end it; it ends only because its disk leaves
or the watcher stops; a leaving disk is forgotten only with nothing of it
mounted; and a watcher is down with nothing running unless it crashed. There is
no thread, no queue, no map and no letter in it.

`MountService!Automounter` and `Watcher!Automounter` instantiate it. `leaving`
is a disk with a removal in the queue or with entries taken out of the map and
not yet stopped; `running` is what the launcher runs, or the children, and not
what the map says: that a removal finds all of it is what the refinement is
about. The mapping shows mixed-case disks only, for the reason given with
`NoOrphanMount` below; the crash of the service is `Crash`, and what it leaves
mounted is not the next service's. In the watcher a mount may also end by itself
(`SelfExits`); the service is compared on a machine where it does not. A restart
of the service begins with an empty queue and an empty map, as `Restart` does.

### MountService

The variable `pc` is where the pump thread is. One action ends at each point
where the thread looks at, or changes, something other threads or the machine
can change:

| `pc` | action | code |
|---|---|---|
| `open` | `OpenPump` | `Pump::open` |
| `announce` | `AnnounceRunning` | `set_service_status(Running)` |
| `snapshot` | `RescanSnapshot` | `rescan`: `tracked` under the lock |
| `enumerate` | `RescanEnumerate` | `scan::disks_to_probe` |
| `next` | `ArrivalGate`, `ArrivalsDone` | `handle_arrival`'s two early returns |
| `list` | `ListPartitions` | `partition::list` |
| `probe` | `ProbePartition`, `PartitionsDone` | `probe_at_offset` per partition |
| `pick` | `PickLetter` | `pick_drive_letter`, `LauncherClient::locate` |
| `start` | `StartMount` | `launchctl start`, `mounts.insert` |
| `get` | `HandleArrival`, `HandleRemoval`, `HandleRescan`, `HandleQuit` | `GetMessageW` and the window procedure |
| `unmount` | `StopMount`, `RemovalDone` | `handle_removal`'s loop |
| `teardown`, `drain` | `TearDown`, `StopMount`, `ReportStopped` | the end of `service_main_inner` |

`start` and the insert after it are one step. Between them the only other
reader of the map would be the control thread, which reads `shutting_down`
only. The two reads of `ArrivalGate` (the flag, then the session) are one step
as well: the second decides alone when the first lets through, so the step
stands at the second read, and a flag set in between is a flag set right after.

The control handler's stop is two steps, `ControlStop` (flag) and `PostQuit`,
with the pump thread in between. `controls` are the controls the SCM has
accepted, `postq` the thread messages. Device notifications and thread messages
are dispatched in any order relative to each other.

Environment (`Env` names which of these a run has; each counts against
`MaxEvents`): disks come and go, a console session comes and goes, the SCM asks
for a stop, a mount process exits by itself, another program takes or frees a
letter. With `"slow"` a started mount's drive appears in a later step.
`Faults` names the calls that may fail.

`Crash` may fall between any two steps of the threads: the map, the flag, the
queues and both threads are lost, the launcher's instances run on, and are
remembered in `survivors` (a ghost variable: no action reads it but to prune
it). `Restart` is the SCM starting the service again after a crash or a stop. A
crash inside the step of `StartMount`, after `launchctl start` and before the
insert, leaves what a crash right after that step leaves, as the map is lost
either way.

What is assumed of the launcher, from how `service.rs` uses it: `start` returns
when the process has been created, not when its drive has appeared (the comment
at `service.rs:26-27` and the name argument at `service.rs:633-635` require
names to be unique, so a second start under a running name is refused); `stop`
ends the instance of that name; its failure changes nothing.

### Watcher

As `MountService`, with the differences of `watch.rs`: no console session and
no later rescan; the mounts are `children` known by a handle (`child`), so a
stop can only end its own; `handle_removal` holds the mutex while it kills and
waits (`LockHeld`), which makes the Ctrl-C thread wait, so `CtrlCEnds` begins
with a Ctrl-C its handler has not begun with; the Ctrl-C handler is
installed before the thread has a message queue, and `PostThreadMessageW` fails
while there is none. A child whose letter somebody else has taken exits
(`ChildFails`), as the mount the watcher spawns is the same program's `mount`.

### PartitionTable

The disk is a function from LBAs to sectors, chosen by the initial state and
then fixed; an LBA outside its domain cannot be read. A sector is a boot
signature and slots (kind, start, length). `ReadSectorZero` classifies the disk
and lists the primaries, `FollowEbr` is one turn of `walk_ebr_chain`'s loop.
GPT parsing is one step: whether the header is plausible, which entries count,
and their length modulo 2^64 (`Width`). Names and type GUIDs are left out.

### DeviceRead

`Readers` are the threads that call `read_at` on one `FileSource`; `device` is
its size, the `sector` that reads are rounded to and the `unit` it demands of a
transfer, which need not agree. `ReadAt` chooses between the aligned path and the scratch
buffer and computes the window (`start`, `need`), `SeekRead` is one turn of
either loop, `EndOfDevice`, `ReadRefused`
(the call is not made of whole units) and `ReadFails` its error exits, `CopyOut` the
end. The two loops are the same but for the buffer they fill, so one action
stands for both; on the aligned path the window is the request and the copy
moves nothing. What the device holds at position `p` is the number `p`: a buffer
then says where its bytes came from. A transfer may be cut short at any whole
unit (`Available`), and leaves the handle's file pointer (`cursor`) behind
itself, where nothing reads it. `x & !(sector - 1)` is taken as rounding down,
which it is for sector sizes that are powers of two; offsets stay clear of
2^64; a raw device's size is a whole number of its units and of the sectors it
is read in.

### BlockDevice

One `FileSource` from its opening on. `compute_size` takes the file's length or
asks the driver, `detect_sector_alignment` asks for the sector size; a medium is
described by its answers and by the `unit` it demands of a transfer, which may
be anything, whatever it answers: a driver may fail the geometry ioctl, tell
another size than its own, or answer 0 or a number that is no power of two, for
which the code takes 512. `Served` says of which media that is enough.
`Writers` are threads that call `write_at` (`WriteAt`,
one `SeekWrite` per turn of the loop, `WriteZero`, `Refused`, `WriteFails`,
`WriteDone`) and then `flush`. `write_at` does not align: a write that is not
made of whole sectors is refused by the medium and fails. What was written is
the pair of the writer and the index in its buffer, so `content` says who put
which byte where, and `durable` is `content` at the last sync. Writes to an image
file stay inside it: the drivers never grow their image. Writers share the
handle and its `cursor` with the readers of `DeviceRead`, whose actions are
steps of this module as they stand. What a reader reads is still positions, not
what a writer put there: which of the two a racing read returns is the device's
affair.

A probe is a read of `Window(p)`, which is `probe_len` of what the backend asks
for, and `detect_at` its outcome, a read that failed being "not ours". `detect`
is a driver's: it needs the bytes it asked for and knows its filesystem when it
is at the place probed.

### FileTimes

One file on each volume, and a program that asks for the file's times and
attributes (`GetInfo`) and gives times back, what it read last or its own
(`SetInfo`), to a file of any volume, over and over. Between them stand
`unix_to_filetime`, `filetime_to_unix`, the fall-back to `mtime` where a format
has no `atime` (`MtimeOnly`), and `attributes_for`, which the drivers call with
the values of the file's `FileAttr`. `Guarded` is `writable(fs)?`: an operation
on a mount that is not `rw` is refused. `due` is a ghost: what each file is to
show, in exact arithmetic (`TicksSince1601`, cut to the range of a `FILETIME` by
`Representable`) or as it was given. The width of the integers, the epoch and
the tick are constants, so that the runs can take a calendar of 32 ticks and the
proofs hold for the code's.

## 3. The runs

Every run explores its whole state space. Two disks are enough for every
interaction between disks the code has: it compares paths pairwise, and a
letter or a notification passes from one disk to one other. One disk is a card
without a table, the other a stick with two partitions.

| Run | Checks | Machine and bounds |
|---|---|---|
| `service_faults` | `TypeOK`, `RemovalPending` | 2 letters, every event and fault, crash and restart, the card spelled in lower case, 3 events |
| `service_mounts` | `NoOrphanMount`, `RescanNeverRemounts`, `StopsOnlyItsOwn`, `ImplementsAutomount` | 3 letters for 3 filesystems, slow drives, failing details, listings, probes, starts and `GetMessage`, crash and restart, 4 events |
| `service_serves` | `EveryDiskServed`, `StopCompletes`, `LogonServesDisks`, `RemovalSettles` | 8 letters, no failing calls, crash and restart, 4 events, fair |
| `watcher_faults` | `TypeOK`, `RemovalPending`, `NoOrphanChild` | 2 letters, every event, every fault, 3 events |
| `watcher_serves` | `EveryDiskServed`, `CtrlCEnds`, `RemovalSettles`, `ImplementsAutomount` | 6 letters, no faults, 4 events, fair |
| `partition_listing` | `TypeOK`, `LogicalsListed`, `NoEmptyPartition`, `ListingEnds` | 7740 disks of up to six sectors, four GPTs, fair |
| `device_shared` | `BlockTypeOK`, `TypeOK`, `ReadReturnsRange`, `ShortOnlyOutside`, `MediumAcceptsReads`, `WritePlacesBytes`, `FlushedIsDurable`, `ProbeAnswers`, `ReadEnds`, `WriteEnds` | a reader and two writers; a file of 4 bytes, raw devices that tell their sector size, answer 0, answer an odd size, have odd sectors, or fail the geometry ioctl; 9 requests, 3 writes, 3 probes, failing calls, fair |
| `file_times_kept` | `TypeOK`, `TimesKept`, `RefusedWasReadOnly` | two volumes, one without access times; 32 ticks, 4 to a second, 1970 three seconds after 1601; times before 1601, before 1970 and past the last tick |

Why the bounds suffice. Three events are a plug, an unplug and a stop around
the start-up scan, the shortest way to set all the pieces against each other.
Four let a disk come, go and come again while a session begins, which is what
`RescanNeverRemounts` and `EveryDiskServed` turn on. Letters are scarce in the
safety runs, so that "no free letter" and "letter taken" happen, and abundant
in the others, because a machine without letters cannot serve its disks.
`MaxLogicals = 3` with four EBR sectors puts chains below, at and beyond the
limit; links lead back, forward, in circles and out; and some EBRs
have gaps, a third partition or a second link, which do not count. `Width = 8` puts the wrap
of a GPT length within reach. The requests of `device_shared` begin and end at
each kind of position (an edge, inside a sector, the end, beyond it), and two
writers are enough for a write between any two turns of another's loop. Letters
in `service_serves` outnumber the mounts that crashes can leave behind: two
crashes with a restart each are the four events, and each leaves at most two.
The calendar of `file_times_kept` ends inside the range of the stamps on either
side, and nothing counts its steps: the program may read and set forever.

`CHECK_DEADLOCK FALSE` is in every configuration because every one of these
programs may stop: the service and the watcher end, and so does the parser.

What the conditions in the properties stand for:

- What a crash leaves running (`survivors`) is excepted from `NoOrphanMount`,
  `RescanNeverRemounts` and `RemovalSettles`: the next service has no record of
  it and nothing in the repository looks for it. Even a clean stop that follows
  leaves it running. `StopsOnlyItsOwn`, `RemovalPending` and `EveryDiskServed`
  are claimed after a crash as well: the next service picks letters that the
  survivors do not have, and serves every disk once more.

- `NoOrphanMount` and `RescanNeverRemounts` do not claim anything when the
  launcher cannot be found or does not stop what it is told to: `handle_removal`
  and the drain take entries out of the map first, and forget them when
  `locate` fails (`service.rs:527-533`, `service.rs:268`).
- They exclude disks whose driver spells the path in lower case. For such a
  disk the scan and the queued arrival of one plug-in use the same key, and the
  second start's entry replaces the first's, whose mount is then forgotten.
- `StopsOnlyItsOwn` is checked, and proved, for machines where mounts do not
  exit by themselves. When one does, its entry stays, its letter may go to another
  disk, and the removal of the first disk stops the second's mount. No comment
  or document of the repository promises otherwise.
- `RemovalSettles` is about mixed-case disks and a machine without faults, where
  every stop ends its mount. A disk that comes back counts as settled: the mount
  of its earlier stay goes when that removal is dispatched.
- `ProbeAnswers` leaves out a probe the device failed, which says "not ours" as
  the code means it to, and answers no for a partition whose window, rounded up
  to `PROBE_SECTOR`, leaves the device.
- `MediumAcceptsReads` is about media that are `Served`: files, devices that
  tell a power of two in whose multiples they can be read, and devices that
  answer 0 or no power of two and take the default of 512 bytes. A raw device
  that fails the geometry ioctl is read as a file is, and one whose sectors
  really are no power of two is read in sectors of 512: it refuses the calls
  that do not fit (`ReadRefused`), and the read fails. Both are among the media
  of `device_shared`, whose other properties are claimed for them as well.
- `TimesKept` counts a time of 0 as "leave unchanged", as Windows does, so a
  file time of 1601 exactly is never copied.
- `CtrlCEnds` begins when there is a message queue (`pc # "open"`); a Ctrl-C
  before that is the run `watcher_lost_quit`.
- `EveryDiskServed` needs mounts that start and letters that suffice: a mount
  that fails to start is not retried until the disk or the session comes back.

### Where the code does not do what it says

Each of these runs checks one statement of the repository, and TLC shows an
execution of the code that breaks it.

| Run | Statement | What happens |
|---|---|---|
| `service_name_clash` | `service.rs:26-27`: the instance name "must be unique per concurrent mount" | A stick has two of our partitions. The first mount's drive has not appeared when the second letter is picked: both get `E:`, the launcher refuses the second, and it is not retried. |
| `service_two_entries` | `scan.rs:30-32`: a byte comparison "would treat one disk as two -- mounting it twice on a rescan" | A disk plugged in between registration and scan is mounted by the scan under its lower-case path, then by its queued arrival under the mixed-case one: the map's key is compared byte by byte. |
| `service_stale_entry` | `service.rs:448-449`: "Probe every present disk that holds no mount yet" | A mount exits by itself. Its entry stays, and every later rescan skips the disk, which holds no mount. |
| `watcher_lost_quit` | `watch.rs:159-160`: the handler "posts WM_QUIT to wake the message pump, which then unwinds" | Ctrl-C before the first window call: the thread has no message queue, the post fails, and the watcher runs on with `shutting_down` set. |

The watcher shares the first two with the service: it picks letters and keys
its map in the same way (it scans once only, with an empty map). Two smaller differences between text and code
have no run: `watch.rs:124-126` says the map's paths are those the notification
reported, while the scan inserts the set-up API's; `README.md:215` says the MBR
entries are returned as they are, while extended partitions are left out and
their logical partitions appended.

### Fairness

`WF_vars(PumpThread)` and the control or Ctrl-C thread's weak fairness say that
Windows schedules both threads and that the calls they make return. The pump
thread never blocks except in `GetMessageW`, when it has nothing to do, and in
`launchctl` (`Command::status`, without a timeout): that `launchctl` returns is
an assumption. Weak fairness of the whole thread is enough: it has one action
enabled at a time, or a choice among messages whose number is finite, because
`MaxEvents` bounds the messages; no property depends on an order of the two
queues. `WF_vars(InstanceReady)` says a mount process that can make its drive
appear does. Nothing is assumed of disks, sessions, stops, exits and letters.
A crash or a restart is never assumed. In `PartitionTable` the parser runs on its
own. In `FairBlockSpec` each reader's and each writer's next step is weakly fair:
threads run on and calls return. `ReadFails`, `WriteFails` and `FlushFails` are
outside the fairness, so `ReadEnds` and `WriteEnds` do not owe their truth to a
call that fails; they hold because a transfer makes progress or is the last.
`FileTimes` promises nothing that must happen, and has no fairness.

## 4. What is proved

Each theorem holds for every value of the constants that the assumptions of its
module admit. Those assumptions (`DiskBusAssumption`, `MountServiceAssumption`,
`DeviceReadAssumption`, ...) say what sort of value a constant is, and TLC
evaluates them in the runs; where a theorem needs more, it says so in an
`ASSUME` of its own, repeated below. Every safety invariant and action property
of the passing runs is stated by a theorem, and so are both refinements.

### The mount service

For every `Disks`, `LowerCase`, `PartCount`, `FsParts`, `NLetters`, `Env`,
`Faults` and `MaxEvents`, with crashes and restarts at any point:

- `TypeCorrect` (`Spec => []TypeOK`), one case per action.
- `RemovalNeverMissed` (`Spec => []RemovalPending`). `RemovalPending` says of
  tracked disks only that they are attached or their removal is queued, and it
  is not inductive: a disk can go between its probe and its insert. `RemovalInv`
  says the same of every path the thread still holds, from the moment it looked
  the disk up: those in `todo`, the one at work, and the map. An unplug queues
  the removal, a dispatch removes it together with the entries, and no thread
  message can come between the two. It needs `same_device` to ignore case.
- `NothingOrphaned` (`Spec => []NoOrphanMount`). An entry is lost when a second
  start replaces it, which takes a second `handle_arrival` for a path the map
  holds. `handle_arrival` itself does not look. `OrphanInv` says why it cannot
  happen: the arrivals and removals of a disk alternate in the queue
  (`Alternating`), the last one agrees with its presence (`ArrivalsUndone`),
  and while a path is in the map or at work every queued arrival of it has a
  removal before it (`RemovalFirst`); the paths a rescan works on are new
  (`FreshInv`). A stop request that overtakes a mount is in there as well:
  `Track` does not look at the flag, so the drain finds the entry. The theorem
  has the premise of `NoOrphanMount` (the launcher works) and speaks of
  mixed-case disks, as the runs do.
- `RescanSafe` (`Spec => []RescanNeverRemounts`). The snapshot of the map that
  a rescan takes stays good: only the pump thread inserts, and it inserts under
  the paths of this rescan, which are one per device (`RescanInv`).
- `StopsAreOwn` (`Spec => StopsOnlyItsOwn`), assuming mounts do not exit by
  themselves (`"exit" \notin Env`; with it the property is false). The map knows
  a mount by its letter and the launcher by its name: `LetterInv` says that
  letters, names and entries correspond one to one. A start takes a name nobody
  has, hence a letter no entry has.
- `ServiceImplementsAutomount` (`Spec => ImplementsAutomount`), assuming
  `Reliable`: no self-exits, and a launcher that is found and stops what it is
  told to. The steps of the service are sorted by what they do to `leaving` and
  `running`. What needs an argument are `RemovalDone`, where the disk is
  forgotten and so must have nothing running (`LetterInv`, `OrphanInv`, and
  `UnmountInv`: both spellings' entries were taken at once), and the last drain.
- `DisksServed` (`[]LetterFree /\ []InstanceNameUnique => []EveryDiskServed`
  for behaviours of `Spec`), assuming `Undisturbed`: no call on the way to a
  mount fails. Letters must suffice and names stay apart, since a mount that is
  refused is not retried. Nothing in the code remembers which disks still want
  serving; `ComingInv` says that at every step somebody has yet to come to an
  attached disk that is not served (a queued arrival, the path at work, a rescan
  under way, a logon not handled yet), and `WholeInv` that a rescan skips a disk
  only if it is served in full, because a disk with only some of its filesystems
  mounted is at work or leaving.
  Both premises hold on the machine of `service_serves` (its letters suffice
  and its drives appear at once), so the theorem is not about an empty class.
- `NamesUnique` (`Spec => []InstanceNameUnique`), assuming drives appear at once
  and no other program takes letters. `service_name_clash` shows that a slow
  drive breaks it; the theorem shows that only these two events can.

### The foreground watcher

For the same constants, with its own faults and events:

- `TypeCorrect` (`Spec => []TypeOK`). A new process gets an id nobody has, and
  there is one because processes and handles are finitely many (`TypeInv`).
- `RemovalNeverMissed` (`Spec => []RemovalPending`), from `OrderInv`: the queued
  notifications of a disk tell whether it is attached, and whatever the thread
  holds is attached or has its removal queued (`Noticed`).
- `NothingOrphaned` (`Spec => []NoOrphanChild`), unlike the service's without a
  premise on faults: the watcher stops children through handles and not by
  calling a launcher. Its start-up scan begins with an empty map (`PhaseInv`).
- `DisksServed` (`[]LetterFree => []EveryDiskServed`), assuming `Undisturbed`.
  Children have handles, so that names need not be unique.
  The premise holds on the machine of `watcher_serves`.
- `WatcherImplementsAutomount` (`Spec => ImplementsAutomount`), without an
  assumption: a process that ends by itself is a step of `Automount` too. An id
  is one process's (`IdInv`), a removal has taken every handle of its disk
  (`UnmountInv`), and `ReadyInv` says when a child may fail to become ready.

Both watchers' proofs rest on `DiskBusProofs`: what dispatching or queueing a
notification does to `Alternating`, `RemovalFirst`, `ArrivalsUndone` and
`RemovalsUndone`, stated once about any queue.

### Partition tables

For every disk (`Images`: any number of slots, any contents), `Gpts`, `Width`
and `MaxLogicals` of at least 1 (the code's is 128):

- `WalkStaysInside` (`Spec => []TypeOK`), the part of it that matters being that
  the EBR read next is inside the extended partition at work. `ListInv` adds
  that extended partitions waiting to be walked have sectors, so that the first
  EBR of a chain is inside too.
- `ListedHaveSectors` (`Spec => []NoEmptyPartition`), with the one exception its
  statement names.
- `ListingIsWhole` (`Spec => []LogicalsListed`). The property reads the disk in
  two ways that are not the parser's: by sets of slots (`Described`, `Links`,
  `LogicalSlots`), and by a closure over the links (`ChainWithin`). It compares
  by counting, because two EBRs may hold equal partitions. The proof has three parts.
  *Slots*: what `Picked` collects is an order-preserving numbering of the slots
  it keeps (`Extracts`, `PickedExtracts`), also when it picks twice
  (`PickedAgain`) or takes the first two (`FirstTwo`); hence `EbrExtracted`,
  `LogicalsExtracted` and, for links, `NextIsLinked`. *Chains*: the EBRs visited
  form a path from the first sector in which each is linked to by the one before
  (`Walked`). An EBR has one successor at most (`LinkedOnce`), so that when the
  path ends, for whichever of the loop's reasons, it is all that `ChainWithin`
  reaches (`ChainIsWalked`). *Listing*: `WalkInv` is inductive. It says that what is listed so far is the
  primaries and then, by a bijection (`Filled`), the partitions held by the EBRs
  of the chains walked and of the part walked of the chain at work (`Pending`). The
  bijection is needed because an invariant that only counts does not say where
  the next EBR's partitions come from. At the end it yields the counts (`FilledCount`).
- `WalkIsBounded`, an action property and the safety half of `ListingEnds`: every
  turn of `walk_ebr_chain` drops an extended partition or uses up one of the
  `MaxLogicals` hops of the one at work.

What a loop over slots or entries collects (`Picked`) is a recursive function,
and `PickedFrom` is an induction over the length of the table. The library's
induction theorems take the predicate as an operator, which the provers cannot
instantiate; `SetInduction` states induction about a set of numbers instead, and
follows from `WFMin` and the well-foundedness of `<`. The existence of the
recursive function is proved in the same way.

### Reads, writes and probes

For every number of readers and writers, every medium, sector size and set of
requests. Of `DeviceRead`:

- `ReadersTyped` (`Spec => []TypeOK`), which includes that no loop reads past
  its window.
- `ReadsExact` (`Spec => []ReadReturnsRange`). A finished read says nothing of
  how it got there; `ReadInv` adds that the window covers the request
  (`WindowCovers`, which also bounds the excess by a sector at either end) and
  that what a buffer holds is the device's contents from `start` on, which a
  transfer extends (`Transfer`).
- `ShortReadsLeave` (`Spec => []ShortOnlyOutside`). `WindowInv` says that on
  either path the window is the sectors around the request (`WindowChosen`: the
  fast path is taken only when they are the request itself) and that a buffer
  holds whole units. When nothing more can be had of a call the device accepts,
  the place reached is not before the end of the device, which the window
  therefore leaves, by a whole sector at least; as it ends less than a sector
  past the request, the request ends past the device (`ShortLeaves`). The lemmas on multiples
  (`MultipleSum`, `MultipleRest`, `MultipleOf`, `AlignedWhole`) carry the arithmetic.

Of `BlockDevice`:

- `BlockTyped` (`BlockSpec => []BlockTypeOK`), no write past its buffer.
- `SharedReadersTyped`, `SharedReadsExact` and `SharedShortReadsLeave`: the three
  results above next to writers. The readers' proof is used again: a writer's step moves nothing of
  theirs but `cursor`, which neither `ReadInv` nor `WindowInv` mentions
  (`ReadersUnmoved`), and that is the point.
- `ReadsAccepted` (`BlockSpec => []MediumAcceptsReads`), from `WindowInv`:
  for a medium that is `Served` the sector that is detected is made of whole
  units (`SectorsServe`), and where it is, so is every call of the loop, both
  ends of the window being whole sectors and each transfer whole units
  (`WholeUnits`).
- `ProbesAnswer` (`BlockSpec => []ProbeAnswers`). `WindowInv` says that a
  finished read of at least a byte was inside the device and a short one was
  not; `ProbeLength` that the window of a probe is never less than was wanted.
- `WritesExact` (`BlockSpec => []WritePlacesBytes`). With the types it is
  inductive. The step that matters is `SeekWrite` (`SeekWriteInv`): the bytes it
  places are at the writer's own offset, and those it overwrites stay non-blank.
- `FlushesHold` (`BlockSpec => []FlushedIsDurable`). `Durability` adds that a
  writer that was refused has a read-only source, and that one that flushed had
  written everything. Blank positions never come back (`CompleteIsWritten`), so
  a later flush by another thread takes nothing away.

### File times

For every calendar, the code's `i64` seconds and `u64` ticks of 100 ns among
them:

- `TypeCorrect` (`Spec => []TypeOK`): no conversion leaves its type's range.
- `TimesNeverLost` (`Spec => []TimesKept`). `unix_to_filetime` is held against
  exact arithmetic (`ConversionIsExact`: the saturating steps, in the code's
  order, give the nearest `FILETIME` not later than the time), and it undoes
  `filetime_to_unix` (`RoundTrip`, from what division and remainder are). The
  invariant then follows for `SetTimes` time by time (`GivenTime`).
- `RefusalsAnnounced` (`Spec => []RefusedWasReadOnly`), from `ToldReadOnly`: what
  the program was told of a volume mounted read-only said so, and mounts keep
  their mode.

### What is only model-checked

- Liveness: `StopCompletes`, `LogonServesDisks`, `RemovalSettles`, `CtrlCEnds`,
  `ListingEnds`, `ReadEnds`, `WriteEnds`. It rests on fairness, hence on
  `ENABLED`, which the prover does not handle.
- The four properties TLC refutes, which are about the code's disagreements
  (`NamesUnique` bounds one of them).

## 5. Not modelled

- In `device.rs`, the Unix versions, which are one library call each; an image
  file that grows; offsets next to 2^64, where `offset + len` and the rounding
  up wrap (no caller comes near them).
- In `service.rs` and `watch.rs`, `start_lba * 512` beyond 2^55 sectors; how
  `LauncherClient` finds `launchctl` in the registry (it is found or not, the
  `locate` fault); a `launchctl` that never returns; strings, GUIDs and logging.
- In `translate.rs`, `winpath_to_unix` (separators replaced in a string, no state);
  `ctime` and `crtime` fall back as `atime` does and
  are not separate fields of the model.
- In `reader.rs` and `lib.rs`, the methods that are declarations only. The
  backend that implements them is outside the repository; the callbacks of
  `FileTimes` are what such a backend does with `translate.rs` and the guard.
- In `scan.rs` the set-up API walk is one step: it may skip disks whose detail
  call fails, or fail as a whole. A disk listed twice is not in the model, whose
  listing is a set.
- In `partition.rs`, names and type GUIDs, and 4Kn disks, on which an LBA is not
  512 bytes (`partition.rs:8-10` leaves them out too).
- The templates (shell, PowerShell and WiX that run once, at packaging time) and
  the CI workflows.

Hazards listed in `PROJECT.json` without a property are those where the code
promises nothing (entries forgotten when `launchctl` cannot be located or when a
lower-case disk is mounted twice, a
partition that is not retried next to one that mounted, a session that ends right
after it was looked up), those that are an assumption of the fairness
(`launchctl` returns) and the wrap of `start_lba * 512`.

## 6. Plan

Done in this order, the most important behaviour first: `DiskBus`,
`MountService` with its safety and liveness runs, its proofs, `Watcher`,
`PartitionTable`, `DeviceRead` with its proofs; then crash and restart,
`Automount` and the two refinements, `FileTimes` with its proofs, `BlockDevice`
with its proofs; then the proofs of the service's letters and refinement, of the
watcher, of rounding and probing, and of the partition parser, whose whole
listing came last. The safety of what is modelled is proved; what is left to TLC
is liveness.
