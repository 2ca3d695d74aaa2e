# Dokan in TLA+

TLA+ models of the Dokan file system driver (`src/sys`), of its user-mode library
(`src/dokan`) and of its FUSE bridge (`src/dokan_fuse`), the TLC configurations
that check them and the TLAPS proofs of what matters most. Dokan forwards the
requests that Windows makes of a volume to a user-mode process and completes them
with that process's answers. What is hard about it is not any single handler. It is
that five parties race for every request, that memory is reference counted by
hand on both sides, that two programs compute the same sizes, and that a
volume may be released under all of it.

## 1. The system

| part | source | what it does | module |
|---|---|---|---|
| event queue | `sys/notification.c`, `sys/fscontrol.c` | events for user mode wait in `NotifyEvent`; the kernel queue `NotifyIrpEventQueue` wakes the library's threads, which pull as many as fit their buffer | `NotifyQueue` |
| pending IRPs | `sys/event.c`, `sys/timeout.c`, `sys/notification.c`, `sys/dispatch.c` | a request sent to user mode waits for the reply, the timeout scanner, its cancel routine or the unmount; a create that met an oplock waits to be dispatched again | `PendingIrp`, `RequestContract` |
| FCBs and CCBs | `sys/util/fcb.c`, `sys/create.c`, `sys/cleanup.c`, `sys/close.c`, `sys/fileinfo.c` | per open file and per handle: table by name, open and unclean counts, share access, deletion, rename, garbage collection | `FileHandles` |
| size, position, large writes | `sys/read.c`, `sys/write.c`, `sys/fileinfo.c` | what the driver remembers of a file beside the application | `FileState` |
| requests and replies | the handlers of `sys` and `dokan` | what is put into an event, what comes back, how many bytes of it reach the requester | `RequestReply` |
| directory listing | `sys/directory.c`, `dokan/directory.c` | pattern and index in the driver, cached list and matching in the library | `DirectoryListing` |
| mount life cycle | `sys/init.c`, `sys/event.c`, `sys/fscontrol.c`, `sys/device.c` | devices, mount entries, delayed deletion, unload | `Mount` |
| library: dispatch | `dokan/dokan.c`, `dokan_pool.c` | pulls batches, dispatches events to callbacks, replies | `UserDispatch` |
| library: instances | `dokan/dokan.c`, `dokan/mount.c` | creation, unmount, close, shutdown | `Instance` |
| FUSE bridge | `dokan_fuse/src/fusemain.cpp`, `dokanfuse.cpp` | the callbacks in terms of `fuse_operations`, share modes and range locks | `FuseBridge` |

How the parts meet: a handler takes an FCB and a CCB (`FileHandles`), builds an
event (`RequestReply`), registers its IRP (`PendingIrp`) and queues the event
(`NotifyQueue`). The library pulls it (`UserDispatch`), an operation of the file
system or of the bridge (`FuseBridge`) answers, and the answer or its
substitute completes the IRP and takes its effect on the FCB back. A release closes
all of it, in the driver (`Mount`) and in the library (`Instance`).

## 2. Modules

Each `MC` module gives the constants of its component their values.

**NotifyQueue.** State: `NotifyEvent` (a sequence), `NotifyIrpEventQueueList`
(whether the one queue entry is linked), the threads in
`DokanProcessAndPullEvents`, whether the queue was run down. A thread takes
the entry, then `PullEvents` packs the events that fit, moves one that does not
to the tail, and links the entry again if something is left. The loop is in closed
form (`PullLoop`, `Remaining`); `MCNotifyQueue` has it as the code writes it, and
`PullEventsIsLoop` compares the two on every queue that is reached.

**PendingIrp.** One `IRP_ENTRY` per registered request, from a finite pool in which
freed entries are allocated again, so that a stale pointer shows. Dispatching
threads, cancellations and replies each have a program counter; the two
lock-free halves of a cancellation (`IoCancelIrp` sets `Cancel`, then takes the
routine) interleave with a registration that holds the list's spin lock. `TakeOut`
is the search that all takers share. `result` records the statuses an IRP was
completed with, `settled` how often its effect on the file object was settled.
A reply checks for an unmount without a lock (`ReplyAccept`) and completes the IRP in
a later step (`ReplyComplete`).
A tick count is in the future, passed or zero; serial numbers do not wrap.

**RequestContract** is the abstract specification: what the I/O manager is promised
about a request, without lists, entries and searchers: an answer is
accepted only while the volume is there, and then it is what the requester gets, even
if the unmount begins meanwhile. `PendingIrp` implements it
(`ContractKept`, model-checked and proved).

**FileHandles.** A handle is a file object with the thread working on it. What
the code does under the VCB or the FCB lock is one step. `DokanFreeFCB` is two: it
decrements `OpenCount` first and takes the locks afterwards. Blocks of memory for
FCBs are a finite set, so a freed block comes back under another name. The
`SHARE_ACCESS` counters are modelled with their wrap-around (`% Modulus`).

**FileState.** One open file, two file objects: `FileSize` of the FCB header, the
delete-pending flag, the positions, and the content of a write that is too large for
an event. Requests are sent, handled by the application, answered, completed, timed
out and cancelled as separate steps, and a write compares `FileSize` in one step and
exchanges it in another. The header begins with the size the create left there, 4096,
whatever the application's is. `appSize` and `appDelete` are what the application has;
the history variables say from when on the two may differ.

**RequestReply.** 23 kinds of request, with the byte sizes of the 64-bit build:
the driver's dispatch (what it answers by itself included), the pool a result
buffer is taken from, the handler, `GetEventInfoSize` on both sides, the
completion routine, the pool the buffer goes back to. Contents are abstracted to how
much of a buffer was written for this request. Memory may run out: a handler without
a result buffer writes through a null pointer and ends the process, and a label for
which there is no memory leaves `Dcb->Resource` held (`sys/volume.c:331`), so that the
next registration of a request by another thread waits for ever.

**DirectoryListing.** One handle, two requests at once. In the CCB: pattern and index;
in the open information: the list of the last scan and its pattern; lists come from a
pool. Files come and go. The FCB lock is shared, so setting the pattern, sizing the
event and copying the pattern into it are three steps that overlapping queries mix. A
pattern is everything or one expression, with the set of names it matches; how its
characters are compared is left out.

**Mount.** A step is what a thread does between two points where others can run:
the locks, the calls into the mount manager, the wait for the remove lock. State:
`MountPointList`, `AllDcbList`, `DeviceDeleteList`, the devices, each
`DokanEventStart` and `DokanEventRelease` in progress, with the point, the session and
the mode its caller asked for (`Request`). The mount manager is external: it accepts
or refuses what it is asked, and assigns the suggested letter, another one or none.

**UserDispatch.** The main thread pulls a batch of events into a buffer, hands all
but the last to the thread pool and runs the last itself; a thread of the pool runs
its event and pulls with the ioctl that sends its result. Callbacks are
steps of their own, and a create for `SL_OPEN_TARGET_DIRECTORY` makes two. With one thread and no batching the same actions are
`DispatchDedicatedIoCallback`. The driver is what the library sees of it.

**Instance.** `DokanCreateFileSystem` with every step that can fail or be cancelled,
the pull threads' end, `DokanNotifyUnmounted`, `DokanMain`, `DokanCloseHandle`,
`DokanInit`, `DokanShutdown`. `g_InstanceList` has its pointers, because two
functions remove the same entry. The volume is external.

**FuseBridge.** Two file objects and two threads running callbacks; the map of
locks by name, the locks with their handles, the byte ranges. The user's
`fuse_operations` are external: a name leads to an inode. `ops_` calls are steps of
their own, since nothing is locked during them; a transfer is one after its
`check_lock`. `crossed` records that a rename met a create, another rename or a target
still in the map, `overtaken` the file objects whose deleting cleanup another request
ran beside.

## 3. Runs

| run | instance | what it shows |
|---|---|---|
| `notify_queue` | 4 events of 3 sizes, 2 pullers, buffer 4 | no lost wakeup, the pull loop, delivery of every event |
| `pending_irp` | a create and a cleanup that share one entry, 1 reply thread, 1 oplock break, 1 timeout reset | who may complete what, the exact ways to be orphaned or unsettled, the contract, and that a listed request is answered whatever the library does |
| `file_handles` | 2 handles, 3 FCBs, 2 names, dispositions, 1 rename | counts, table and share access agree with the file objects |
| `file_handles_unmount` | 2 handles, 2 FCBs, 1 name, 1 break, 1 failed allocation, unmount | the counts under failures; garbage is collected |
| `file_state` | 2 file objects, 2 requests at once, 3 in all | size, delete-pending flag and large writes follow the application, no position is negative |
| `request_reply` | all kinds, lengths at the boundaries, 2 requests one after the other | sizes agree, nothing overruns, nothing stale is returned |
| `directory` | 2 files, 2 requests, 4 kinds of handle | an enumeration is complete, success returns an entry, lists are apart |
| `mount` | 2 volumes, 2 letters, 1 directory, with and without the mount manager | one teardown, no use after deletion, two volumes never ask for one letter |
| `user_dispatch` | 1 file object, 4 requests, 3 threads, batches of 2, 1 timeout, 1 failed allocation, unmount | buffers and open informations are counted exactly, `CloseFile` comes once and last, every request is served, every thread returns |
| `instance` | 2 instances, 2 pull threads each, 1 shutdown | memory, list and volume of an instance |
| `fuse` | 2 file objects, 2 threads, 2 names, 2 layouts, all callbacks | locks, names, releases, range locks |
| `fuse_overwrite` | 1 thread, 1 file | refuted: `FILE_OVERWRITE` deletes the file and creates it again |

Bounds. Two requests are enough for the races over one entry: each party works
on one request, and the second is there to recycle the entry. Two handles are the
fewest for which the last reference can be dropped twice; the third FCB lets a rename
replace one while another is created. Four events in a buffer of four give every
shape of the pull. Of two volumes one replaces the other. Two result buffers in a
row are what it takes to see one's remains in the other; the lengths are the
ones on both sides of every comparison. The proofs lift the bounds for the
queue and for the pending IRPs.

Fairness. Kernel and pool threads are scheduled, so each step of a thread that has
begun is weakly fair; the scanner and the collector have periodic timers; time
passes. No fairness is given to answers of the library (in `PendingIrp`), to
cancellations, to unmounts or to the application's next call. In `NotifyQueue` the
library's threads come back for more, as those of `DokanMain` do until the device is
gone, and a thread that waits in `KeRemoveQueueEx` gets the entry if it is linked
again and again (strong fairness: the kernel queue serves its waiters). In
`UserDispatch` a callback returns.

Deadlock checking is off where the system may rest: every request completed, every
handle closed, the volume released. `directory` has no such end and checks it.

Limits: `file_handles` has no oplock breaks and `instance` a host that shuts down when
no call is in progress (`Careful`), by their constants; `fuse` follows a behaviour up to
the rename that is crossed (the CONSTRAINT `NotCrossed`), and `ReleasedOnce` excepts the
file objects in `overtaken`. Section 4 says what happens without them.

Run by hand, also passing: `PendingIrpEntries.cfg` (three entries; in addition
`CompletedOnce`, `SettledOnce`, `EntryValid`, `DrainedStaysEmpty`),
`InstanceLive.cfg` (`EndsOnceReleased`, with `UnmountedOnce` and `WaiterIsWoken`) and
`MountLive.cfg` (`ReleasedIsDeleted`).

## 4. What comments promise and the code does not keep

Each of these states a comment of the code; the counterexample is an interleaving or
a sequence of calls that the code allows. The listed run is `fuse_overwrite`;
the others are run by hand. Where no file is named, put the property
in place of those of the named configuration.

| configuration | property | what TLC finds |
|---|---|---|
| `FuseOverwrite` | `OverwriteRecreates` | `do_create_file` refuses `FILE_OVERWRITE` after the file was unlinked |
| `FuseHandle` | `OpenHasHandle` | two creates race; the loser's `EEXIST` becomes the status that stands for success, and the file is open without a handle (`dokan/create.c:97`) |
| `FuseBridge` | `ReleasedOnceAlways` | a request that began before the cleanup writes its old context back; the handle is released twice |
| `FuseBridge`, without CONSTRAINT | `NameIsAlwaysCurrent` | "TODO what happen if new_name exists ??" in `renamed_file`: two locks under one name |
| `FuseHandle` | `RemoverIsSafe` | `remove_file` reads `name_` of a lock that another close has deleted |
| `FuseBridge` | `DeletedAtCleanup` | a directory created and deleted through one handle has no context and is not deleted |
| `NotifyQueueStarve` | `EventReachesLibrary` | under load without end a rotated event is overtaken for ever |
| `PendingIrpCreateCancel` | `CancelledCreateNotOrphaned` | a cancelled create is given up before it is marked, and nobody completes it |
| `PendingIrpReplyUnmount` | `AnsweredIsCompleted` | the unmount begins after the reply took the IRP out; it is dropped |
| `PendingIrpReplyUnmount` | `OplockCompleteQueuesOrCompletes` | the completion routine of a break drops an IRP whose registration is refused |
| `PendingIrpReplyUnmount` | `CancelledEntryStaysListed` | entries of cancelled requests are unlinked, not kept for the lookup that would free them |
| `PendingIrpReplyUnmount` | `CleanupAlwaysExecuted`, `MarkedReturnsPending` | a refused registration of a cleanup executes nothing; one that backs out has marked the IRP pending |
| `PendingIrpCreateCancel` | `AsyncFailureRunsCompleteCreate`, `AsyncFailureStatusUsed` | an unmount completes a failed create without `DokanCompleteCreate`, the scanner with another status |
| `FileHandlesFreed` | `FcbStillThere` | `DokanFreeFCB` locks an FCB that another thread has deleted |
| `FileHandlesBreakShare` | `SharingRespected` | share access is removed for a create that is dispatched again |
| `FileHandlesBreakShare`, `Exclusive <- None_` | `ShareUnwound` | share access is left behind by such a create |
| `FileHandlesReplaced` | `ReplacedNotInTable` | a file replaced by a rename is renamed itself and enters the table again |
| `FileHandlesLastDelete` | `LastHandleDeletes` | two cleanups read `UncleanCount` = 2 and neither deletes |
| `FileHandlesLastDelete` | `DeletePendingPreventsOpen` (as PROPERTY, without SYMMETRY) | `DELETE_PENDING` does not keep a file from being opened |
| `FileHandlesFreed`, `GarbageCollection = TRUE`, `MayUnmount = TRUE` | `DeletedIsClean` | an FCB reaches its end with a nonzero `UncleanCount` |
| `FileStateLarge` | `LargeContentFreed` | a large write that is given up leaves its content (`sys/write.c:258`) |
| `RequestReply` | `OverflowTellsNeededLength` | the overflow replies of some classes carry the used length (`dokan/dokan.c:439`) |
| `RequestReply` | `ReferenceHeldByRunningEvent` | a handler that answers nothing keeps its reference (`dokan/dokan.c:1338`) |
| `DirectoryPattern` | `PatternNotFreedInUse` | overlapping queries: a pattern is freed while another copies it |
| `DirectoryPattern` | `PatternFitsEvent` | a pattern set by another query after the event was sized is longer than the room for it |
| `DirectoryPattern`, `Handle <- Neither` | `ListsReturned` | without either operation the list is lost |
| `DirectoryPattern`, `Handle <- Alone`, `MemoryFails = TRUE` | `EnumerationComplete` | a list that cannot grow drops entries silently |
| `MountOwnEntry` | `FinishesOnOwnEntry` | the second lookup finds another volume's entry, or none (`sys/event.c:1196`) |
| `MountOwnEntry` | `ScannedAreLive` | "scanned DCBs cannot die under us" (`sys/timeout.c:282`): the mount adds a DCB to the list after the release took it off (`sys/fscontrol.c:995`) |
| `MountOwnEntry` | `UnloadOnlyWhenIdle` | the unload is prepared after a release removed its entry and before it queued the device |
| `MountLinkDeleted` | `LinkDeletedUnmounts` | the release waits for the request it is part of |
| `InstanceShutdown` | `InstanceOutlivesUsers` | `DokanShutdown` during a creation or a close |
| `InstanceLive` | `FatalErrorUnmounts` | a pull thread that runs out of memory does not unmount |
| `InstanceShutdown`, `Careful = TRUE` | `MountedFirst`, `PointRemoved` | `Mounted` after `Unmounted`; a reparse point that stays |
| `UserDispatchGiveUp` | `CloseFileIsLast` | an event that timed out before it was pulled runs after `CloseFile` |

## 5. Proofs

The proofs hold for every value of the constants that satisfies the ASSUMEs.

- `NotifyQueueProofs`: types, and `NoLostWakeup`. The invariant is inductive with
  the types: whoever leaves events behind has linked the entry under the lock that
  the next notifier takes, and an entry is only taken by a thread that will pull.
- `PendingIrpOwnership`: types, and `Ownership`, the inductive strengthening. It
  says for every IRP and every entry who may complete it: the dispatching thread,
  the list, the thread that took it out, or the cancel routine. That an IRP is not
  completed twice is not inductive as it stands, for nothing in it keeps a cancel
  routine from running for an IRP that a taker holds. `Ownership` says that the
  taker's success in clearing the routine excludes that. From it follow
  `CompletedOnce`, `SettledOnce`, `EntryValid`; `DrainedStaysEmpty` needs in
  addition that a registration past its second check holds the lock the release
  takes.
- `PendingIrpContract`: the refinement. A status is decided some steps before
  the IRP is completed with it, so the invariant `Reason` says that whoever is about
  to complete with a status has the contract's ground for it. The answer is accepted
  at the second unmount check, without a lock, and given in a later step
  (`Accepted` in the mapping): `Ownership` shows that the request is in the reply's
  hands alone, so that nobody else completes it and only it gives the answer. With
  both invariants each step is a step of `RequestContract` or a stutter.
- `PendingIrpContract` also proves `OrphanedOnlyThen` and `SettledUnlessUnmounted`.
  The strengthening `Armed` says that a request that waits in a list, or is about to,
  has its cancel routine set, or the I/O manager has taken it and the routine has not
  let go. So a taker that finds no routine leaves the request to somebody.

- `FileHandlesProofs`: types and `OpenCountExact`. The count is inductive together
  with `HandlesPoint` (a file object at a stage that refers to an FCB has one), with
  `GarbageUnused` and with `NamesKnown`, since a rename deletes the FCB that the
  table has under the target name.
- `FileHandlesTables`, on top of it: the CCB list, the UncleanCount, the wakeup of
  the collector, and `TableExact` until a second rename. `TableInv` adds that no FCB
  is marked as displaced before the first rename; the second may put a displaced FCB
  back into the table with the mark still set, and section 4 shows where that leads.
- `FileHandlesSharing`: `SharingRespected` until an oplock break is waited for, when
  the counters can count the file objects and the failures (`CountersSuffice`; the
  code's are 32 bits wide). The invariant says how far the two counters may be off: by
  the cleanups that were failed and took nothing back, and by no more.
- `InstanceProofs`: the three invariants of the run, `UnmountedOnce` and
  `WaiterIsWoken`, for any number of instances and pull threads and for a host that
  calls `DokanShutdown` with no call in progress (`Careful`; without that section 4
  refutes the first). `Sound` says for each stage of an instance what its counts,
  its memory and its volume are; `Chain` that the list links its entries both ways
  without a cycle, and `TakenOut` that an entry that `DokanShutdown` has removed
  still points to its neighbours, so that its second removal is harmless.

Only model-checked: liveness (fairness is out of the prover's reach), the pull loop
against its closed form (a recursive operator), and every
other module.

## 6. Not modelled

- Locks as such: a critical section is a step, so the order in which several resources
  are taken is not checked, except in `Mount`, where the locks are state.
- The wrap-around of serial numbers after 2^32 requests within one timeout.
- Oplock state, byte-range locks and change notification of the driver: `FsRtl` keeps
  them. Answers to storage and mount-device queries: no state.
- Access checks, logging, string copies, the characters of a search pattern
  (`DokanIsNameInExpression`), the table of error codes, `dokan_vector.c`
  apart from its failure to grow.
- In the FUSE bridge: times, attributes, volume queries, the directory walk,
  conversions, the option parser (sequential code over text) and `fuse_main`.
- The network provider (stateless), the control program and the samples
  (clients), installer, scripts and packaging.
