------------------------------ MODULE Instance ------------------------------
(***************************************************************************)
(* The life of a file system instance in the library (dokan/dokan.c and    *)
(* dokan/mount.c): DokanCreateFileSystem with every step that can fail or  *)
(* be cancelled, the pull threads that end when the driver has released    *)
(* the volume, DokanRequestUnmount, DokanCloseHandle, DokanMain, DokanInit *)
(* and DokanShutdown with the list of instances.                           *)
(*                                                                         *)
(* The driver is a volume that is mounted until it is released, by a       *)
(* request of this library or by somebody else.  The list is modelled with *)
(* its pointers: DokanShutdown and DeleteDokanInstance both remove an      *)
(* entry.                                                                  *)
(***************************************************************************)
EXTENDS Integers

CONSTANTS
  Instance,      \* the DOKAN_INSTANCE objects the host creates
  Head,          \* g_InstanceList
  NoThread,      \* nobody holds g_InstanceCriticalSection
  Folder,        \* instances on a folder without the mount manager
  Cancellable,   \* instances created with a cancellation event
  Pullers,       \* mainPullThreadCount
  MaxInits,      \* bound: calls of DokanInit
  Careful        \* the host shuts down only when no call is in progress

ASSUME InstanceAssumption ==
  /\ Head \notin Instance
  /\ "shutdown" \notin Instance
  /\ NoThread \notin Instance \cup {"shutdown"}
  /\ Folder \subseteq Instance
  /\ Cancellable \subseteq Instance
  /\ Pullers \in Nat \ {0}
  /\ MaxInits \in Nat
  /\ Careful \in BOOLEAN

Thread == Instance \cup {"shutdown"}

VARIABLES
  g_DokanInitialized,  \* calls of DokanInit without their DokanShutdown
  inits,               \* calls of DokanInit so far
  pool,                \* the thread pool and the buffer pools exist
  g,                   \* the holder of g_InstanceCriticalSection
  Flink, Blink,        \* the pointers of g_InstanceList
  inst,                \* the instances
  volume,              \* their volumes in the driver
  th                   \* where each thread is, and with which instance

globals == <<g_DokanInitialized, inits, pool>>
list == <<Flink, Blink>>
vars == <<g_DokanInitialized, inits, pool, g, Flink, Blink, inst, volume, th>>

NoInstance ==
  [mem |-> "none",            \* "none", "live", "freed"
   closed |-> FALSE,          \* DeviceClosedWaitHandle
   started |-> FALSE,         \* DispatchStartedWaitHandle
   stopped |-> FALSE,         \* FileSystemStopped
   named |-> FALSE,           \* DeviceName is set
   keepalive |-> FALSE,       \* KeepaliveHandle is open and active
   running |-> 0,             \* callbacks of the cleanup group
   notifying |-> 0,           \* of them in DokanNotifyUnmounted
   UnmountedCalled |-> 0,
   unmounted |-> 0,           \* calls of the Unmounted operation
   mounted |-> "no",          \* Mounted was called: "yes", or "late"
   point |-> FALSE,           \* the folder is a reparse point
   cancel |-> FALSE,          \* CancellationEvent
   lost |-> FALSE]            \* a release failed, or a puller ran out of memory

Init ==
  /\ g_DokanInitialized = 0
  /\ inits = 0
  /\ pool = FALSE
  /\ g = NoThread
  /\ Flink = [e \in Instance \cup {Head} |-> e]
  /\ Blink = [e \in Instance \cup {Head} |-> e]
  /\ inst = [i \in Instance |-> NoInstance]
  /\ volume = [i \in Instance |-> "none"]
  /\ th = [t \in Thread |->
             [pc |-> "idle", inst |-> IF t = "shutdown" THEN Head ELSE t]]

Goto(t, pc) == th' = [th EXCEPT ![t].pc = pc]

-----------------------------------------------------------------------------
(***************************************************************************)
(* The list of instances and the instances themselves.                     *)
(***************************************************************************)

InsertTailList(i) ==
  LET last == Blink[Head]
  IN /\ Flink' = [Flink EXCEPT ![i] = Head, ![last] = i]
     /\ Blink' = [Blink EXCEPT ![i] = last, ![Head] = i]

RemoveEntryList(i) ==
  /\ Flink' = [Flink EXCEPT ![Blink[i]] = Flink[i]]
  /\ Blink' = [Blink EXCEPT ![Flink[i]] = Blink[i]]

\* The events and the cleanup group are made and the instance is put into the
\* list.
NewDokanInstance(i) ==
  /\ pool
  /\ inst' = [inst EXCEPT ![i].mem = "live"]
  /\ InsertTailList(i)

\* DeleteDokanInstance first wakes those who wait for the end, ...
DeleteSetClosed(t) ==
  LET i == th[t].inst
  IN
  /\ th[t].pc = "delete"
  /\ inst' = [inst EXCEPT ![i].closed = TRUE]
  /\ Goto(t, "join")
  /\ UNCHANGED <<globals, g, list, volume>>

\* Altered form: the handles are closed while callbacks are running.
DeleteJoinCancels(t) ==
  LET i == th[t].inst
  IN
  /\ th[t].pc = "join"
  /\ inst' = [inst EXCEPT ![i].keepalive = FALSE]
  /\ volume' = [volume EXCEPT ![i] = IF inst[i].keepalive THEN "released" ELSE @]
  /\ Goto(t, "unlist")
  /\ UNCHANGED <<globals, g, list>>

\* ... then waits for the callbacks of its cleanup group and closes the
\* handles; the driver releases the volume when the keepalive handle goes, ...
DeleteJoin(t) ==
  LET i == th[t].inst
  IN
  /\ th[t].pc = "join"
  /\ inst[i].running = 0
  /\ inst' = [inst EXCEPT ![i].keepalive = FALSE]
  /\ volume' = [volume EXCEPT ![i] = IF inst[i].keepalive THEN "released" ELSE @]
  /\ Goto(t, "unlist")
  /\ UNCHANGED <<globals, g, list>>

\* What is left to be seen of an instance when its memory is gone.
Freed(o) ==
  [NoInstance EXCEPT !.mem = "freed", !.running = o.running, !.point = o.point,
                     !.unmounted = o.unmounted, !.mounted = o.mounted,
                     !.lost = o.lost]

\* Altered form: the instance is freed and stays in the list.
DeleteUnlistForgotten(t) ==
  LET i == th[t].inst
  IN
  /\ th[t].pc = "unlist"
  /\ g \in {NoThread, t}
  /\ inst' = [inst EXCEPT ![i] = Freed(@)]
  /\ g' = NoThread
  /\ Goto(t, "gone")
  /\ UNCHANGED <<globals, list, volume>>

\* ... and leaves the list and is freed.  DokanCloseHandle holds the lock of
\* the list from before until now; DokanShutdown keeps it and goes on.
DeleteUnlist(t) ==
  LET i == th[t].inst
  IN
  /\ th[t].pc = "unlist"
  /\ g \in {NoThread, t}
  /\ RemoveEntryList(i)
  /\ inst' = [inst EXCEPT ![i] = Freed(@)]
  /\ IF t = "shutdown"
     THEN /\ th' = [th EXCEPT ![t].pc = "sweep", ![t].inst = Head]
          /\ UNCHANGED g
     ELSE /\ Goto(t, "gone")
          /\ g' = NoThread
  /\ UNCHANGED <<globals, volume>>

DeleteDokanInstance(t) ==
  DeleteSetClosed(t) \/ DeleteJoin(t) \/ DeleteUnlist(t)

-----------------------------------------------------------------------------
(***************************************************************************)
(* Asking the driver to release the volume.                                *)
(***************************************************************************)

\* The device is opened and asked; either can fail.
SendReleaseIRP(i, stop) ==
  \/ /\ inst' = [inst EXCEPT ![i].stopped = @ \/ stop]
     /\ volume' = [volume EXCEPT ![i] = "released"]
  \/ /\ inst' = [inst EXCEPT ![i].lost = @ \/ volume[i] = "mounted"]
     /\ UNCHANGED volume

\* A failed or cancelled creation releases the volume and does not look at the
\* result.
ReleaseFailedStart(i) ==
  /\ th[i].pc = "release"
  /\ SendReleaseIRP(i, FALSE)
  /\ Goto(i, "delete")
  /\ UNCHANGED <<globals, g, list>>

\* Under the lock of the instance: nothing to do when it is closed, or stopped
\* by an earlier call, or has no device yet.
DokanRequestUnmount(i) ==
  IF inst[i].closed \/ inst[i].stopped \/ ~inst[i].named
  THEN UNCHANGED <<inst, volume>>
  ELSE SendReleaseIRP(i, TRUE)

\* A callback or another thread of the host asks while the handle is open.
RequestUnmount(i) ==
  /\ th[i].pc \in {"owned", "main"}
  /\ inst[i].mem = "live"
  /\ ~(inst[i].closed \/ inst[i].stopped)
  /\ DokanRequestUnmount(i)
  /\ UNCHANGED <<globals, g, list, th>>

\* The driver releases the volume with the mount point.
SendGlobalReleaseIRP(i) == volume' = [volume EXCEPT ![i] = "released"]

\* DokanRemoveMountPoint of some process, the keepalive or a time-out.
DokanRemoveMountPoint(i) ==
  /\ volume[i] = "mounted"
  /\ SendGlobalReleaseIRP(i)
  /\ UNCHANGED <<globals, g, list, inst, th>>

-----------------------------------------------------------------------------
(***************************************************************************)
(* DokanCreateFileSystemInternal.                                          *)
(***************************************************************************)

\* CancellationEvent is set by the host.
Cancel(i) ==
  /\ i \in Cancellable
  /\ th[i].pc \in {"idle", "start", "open", "ready", "mount", "keepalive"}
  /\ ~inst[i].cancel
  /\ inst' = [inst EXCEPT ![i].cancel = TRUE]
  /\ UNCHANGED <<globals, g, list, volume, th>>

\* Cancelled before it began, options that do not fit or no memory: nothing is
\* left.  Without DokanInit the call raises an exception.
CreateBegin(i) ==
  /\ th[i].pc = "idle"
  /\ g_DokanInitialized > 0
  /\ th["shutdown"].pc = "idle"
  /\ g = NoThread
  /\ \/ /\ ~inst[i].cancel
        /\ NewDokanInstance(i)
        /\ Goto(i, "global")
     \/ /\ Goto(i, "gone")
        /\ UNCHANGED <<inst, list>>
  /\ UNCHANGED <<globals, g, volume>>

\* The global device is opened, its identity compared, the drive letter tried.
CreateOpenGlobal(i) ==
  /\ th[i].pc = "global"
  /\ \/ Goto(i, "start")
     \/ Goto(i, "delete")
  /\ UNCHANGED <<globals, g, list, inst, volume>>

\* The driver has mounted the volume and named its device.
StartAnswered(i) ==
  /\ inst' = [inst EXCEPT ![i].named = TRUE]
  /\ volume' = [volume EXCEPT ![i] = "mounted"]

\* The driver is asked to start, if it can do what the options want; it fails,
\* or was cancelled, and leaves no volume behind.
DokanStart(i) ==
  /\ th[i].pc = "start"
  /\ \/ /\ StartAnswered(i)
        /\ Goto(i, "open")
     \/ /\ Goto(i, "delete")
        /\ UNCHANGED <<inst, volume>>
  /\ UNCHANGED <<globals, g, list>>

\* The device is marked as closed and the callback ends.
SetDeviceClosed(o) == [o EXCEPT !.closed = TRUE, !.running = @ - 1]

\* OnDeviceIoCtlFailed: the first to come here tells the host, the others mark
\* the device as closed at once.
OnDeviceIoCtlFailed(o) ==
  IF o.UnmountedCalled = 0
  THEN [o EXCEPT !.UnmountedCalled = 1, !.notifying = @ + 1]
  ELSE SetDeviceClosed(o)

\* The pull threads are queued.  No memory for the event of one: the creation
\* fails.  No work object for one: the creating thread runs OnDeviceIoCtlFailed
\* (it counts as one of the callbacks while it does) and goes on.
QueuePullThreads(i) ==
  \/ /\ inst' = [inst EXCEPT ![i].running = Pullers]
     /\ Goto(i, "ready")
  \/ \E n \in 0..(Pullers - 1) :
       /\ inst' = [inst EXCEPT ![i].running = n]
       /\ Goto(i, "release")
  \/ /\ inst' = [inst EXCEPT ![i] =
                   OnDeviceIoCtlFailed([@ EXCEPT !.running = Pullers])]
     /\ Goto(i, "queue")

\* Altered form: the device cannot be opened and the volume is not released.
CreateOpenDeviceLeaks(i) ==
  /\ th[i].pc = "open"
  /\ \/ Goto(i, "delete") /\ UNCHANGED inst
     \/ ~inst[i].cancel /\ QueuePullThreads(i)
  /\ UNCHANGED <<globals, g, list, volume>>

\* Cancelled since the start, or the device cannot be opened; else it is asked
\* for requests.
CreateOpenDevice(i) ==
  /\ th[i].pc = "open"
  /\ \/ Goto(i, "release") /\ UNCHANGED inst
     \/ ~inst[i].cancel /\ QueuePullThreads(i)
  /\ UNCHANGED <<globals, g, list, volume>>

\* The creating thread is back from OnDeviceIoCtlFailed.
CreateQueued(i) ==
  /\ th[i].pc = "queue"
  /\ inst[i].notifying = 0
  /\ Goto(i, "ready")
  /\ UNCHANGED <<globals, g, list, inst, volume>>

\* WaitForDispatchReady: a pull thread has begun and the driver says so, or is
\* too old to say; it cannot be asked, the device is closed, or cancelled.
WaitForDispatchReady(i) ==
  /\ th[i].pc = "ready"
  /\ \/ /\ inst[i].started
        /\ ~inst[i].closed
        /\ Goto(i, "mount")
     \/ /\ inst[i].closed \/ inst[i].cancel \/ inst[i].started
        /\ Goto(i, "release")
  /\ UNCHANGED <<globals, g, list, inst, volume>>

\* A reparse point to the device is set on the folder.
CreateMountPoint(i) == inst' = [inst EXCEPT ![i].point = (i \in Folder)]

WaitForMountManagerNamespace(i) ==
  \/ ~inst[i].cancel /\ Goto(i, "keepalive")
  \/ (inst[i].cancel \/ i \in Cancellable \ Folder) /\ Goto(i, "release")

\* DokanMount: the library makes the reparse point on a folder by itself.
\* WaitForMountManagerNamespace follows for a drive letter with a cancellation
\* event, and a check for cancellation.
DokanMount(i) ==
  /\ th[i].pc = "mount"
  /\ \/ /\ i \in Folder
        /\ Goto(i, "release")
        /\ UNCHANGED inst
     \/ /\ CreateMountPoint(i)
        /\ WaitForMountManagerNamespace(i)
  /\ UNCHANGED <<globals, g, list, volume>>

\* The keepalive and the notify handle are opened, if they can be; cancelled a
\* last time; then Mounted is called and the handle given to the host, who
\* called DokanCreateFileSystem or DokanMain.
CreateMounted(i) ==
  /\ th[i].pc = "keepalive"
  /\ \E keepalive \in {FALSE, volume[i] = "mounted"} :
       IF inst[i].cancel
       THEN /\ inst' = [inst EXCEPT ![i].keepalive = keepalive]
            /\ Goto(i, "release")
       ELSE /\ inst' = [inst EXCEPT
                  ![i].keepalive = keepalive,
                  ![i].mounted = IF inst[i].unmounted > 0 THEN "late" ELSE "yes"]
            /\ Goto(i, "owned") \/ Goto(i, "main")
  /\ UNCHANGED <<globals, g, list, volume>>

DokanCreateFileSystemInternal(i) ==
  \/ CreateBegin(i)
  \/ CreateOpenGlobal(i)
  \/ DokanStart(i)
  \/ CreateOpenDevice(i)
  \/ CreateQueued(i)
  \/ WaitForDispatchReady(i)
  \/ DokanMount(i)
  \/ CreateMounted(i)
  \/ ReleaseFailedStart(i)

-----------------------------------------------------------------------------
(***************************************************************************)
(* The pull threads.                                                       *)
(***************************************************************************)

Pulling(i) == inst[i].running > inst[i].notifying

\* A main pull thread says that it has begun, before its first request.
PullStarted(i) ==
  /\ Pulling(i)
  /\ ~inst[i].started
  /\ inst' = [inst EXCEPT ![i].started = TRUE]
  /\ UNCHANGED <<globals, g, list, volume, th>>

\* The driver refuses the request of a pull thread once the volume is gone.
PullFailed(i) ==
  /\ Pulling(i)
  /\ volume[i] # "mounted"
  /\ inst' = [inst EXCEPT ![i] =
                OnDeviceIoCtlFailed([@ EXCEPT !.started = TRUE])]
  /\ UNCHANGED <<globals, g, list, volume, th>>

\* No memory for an event that was pulled: the thread ends as after a refusal,
\* with the volume mounted.
PullOutOfMemory(i) ==
  /\ Pulling(i)
  /\ volume[i] = "mounted"
  /\ inst' = [inst EXCEPT ![i] =
                OnDeviceIoCtlFailed([@ EXCEPT !.started = TRUE, !.lost = TRUE])]
  /\ UNCHANGED <<globals, g, list, volume, th>>

\* DokanNotifyUnmounted removes the reparse point and calls Unmounted; then the
\* device is marked as closed and the callback ends.
DokanNotifyUnmounted(i) ==
  /\ inst[i].notifying > 0
  /\ inst' = [inst EXCEPT ![i] =
       SetDeviceClosed([inst[i] EXCEPT !.notifying = @ - 1, !.unmounted = @ + 1,
                                       !.point = FALSE])]
  /\ UNCHANGED <<globals, g, list, volume, th>>

-----------------------------------------------------------------------------
(***************************************************************************)
(* The end of an instance.                                                 *)
(***************************************************************************)

\* DokanMain waits for the end and deletes the instance.
DokanMain(i) ==
  /\ th[i].pc = "main"
  /\ inst[i].closed
  /\ Goto(i, "delete")
  /\ UNCHANGED <<globals, g, list, inst, volume>>

\* The host closes its handle; not one that DokanShutdown has closed.
CloseHandle(i) ==
  /\ th[i].pc = "owned"
  /\ Careful => th["shutdown"].pc = "idle" /\ inst[i].mem = "live"
  /\ Goto(i, "close")
  /\ UNCHANGED <<globals, g, list, inst, volume>>

\* DokanCloseHandle asks for the unmount, ...
CloseRequest(t) ==
  /\ th[t].pc = "close"
  /\ DokanRequestUnmount(th[t].inst)
  /\ Goto(t, "wait")
  /\ UNCHANGED <<globals, g, list>>

\* ... waits for the end without a limit, takes the lock of the list and
\* deletes the instance with it.
CloseWait(t) ==
  /\ th[t].pc = "wait"
  /\ inst[th[t].inst].closed
  /\ g \in {NoThread, t}
  /\ g' = t
  /\ Goto(t, "delete")
  /\ UNCHANGED <<globals, list, inst, volume>>

DokanCloseHandle(t) == CloseRequest(t) \/ CloseWait(t)

Settled(i) ==
  \/ th[i].pc \in {"idle", "gone"}
  \/ th[i].pc = "owned"

DokanInit ==
  /\ inits < MaxInits
  /\ th["shutdown"].pc = "idle"
  /\ inits' = inits + 1
  /\ g_DokanInitialized' = g_DokanInitialized + 1
  /\ pool' = TRUE
  /\ UNCHANGED <<g, list, inst, volume, th>>

\* The last of the calls goes on to close what is left.
DokanShutdown ==
  /\ g_DokanInitialized > 0
  /\ th["shutdown"].pc = "idle"
  /\ Careful => \A i \in Instance : Settled(i)
  /\ g_DokanInitialized' = g_DokanInitialized - 1
  /\ IF g_DokanInitialized > 1
     THEN UNCHANGED <<g, th>>
     ELSE /\ g = NoThread
          /\ g' = "shutdown"
          /\ Goto("shutdown", "sweep")
  /\ UNCHANGED <<inits, pool, list, inst, volume>>

\* The first entry is removed and closed, until the list is empty; then the
\* pools are freed.
ShutdownSweep ==
  LET i == Flink[Head]
  IN
  /\ th["shutdown"].pc = "sweep"
  /\ IF i = Head
     THEN /\ pool' = FALSE
          /\ g' = NoThread
          /\ Goto("shutdown", "idle")
          /\ UNCHANGED list
     ELSE /\ RemoveEntryList(i)
          /\ th' = [th EXCEPT !["shutdown"].pc = "close",
                              !["shutdown"].inst = i]
          /\ UNCHANGED <<pool, g>>
  /\ UNCHANGED <<g_DokanInitialized, inits, inst, volume>>

Next ==
  \/ \E i \in Instance :
       \/ Cancel(i)
       \/ DokanCreateFileSystemInternal(i)
       \/ RequestUnmount(i)
       \/ DokanRemoveMountPoint(i)
       \/ PullStarted(i)
       \/ PullFailed(i)
       \/ PullOutOfMemory(i)
       \/ DokanNotifyUnmounted(i)
       \/ DokanMain(i)
       \/ CloseHandle(i)
  \/ \E t \in Thread : DokanCloseHandle(t) \/ DeleteDokanInstance(t)
  \/ DokanInit
  \/ DokanShutdown
  \/ ShutdownSweep

Spec == Init /\ [][Next]_vars

\* The threads of the library go on when they can; the scheduler and the
\* critical sections of Windows see to that.  Nobody has to unmount or close.
FairSpec ==
  /\ Spec
  /\ \A i \in Instance :
       /\ WF_vars(DokanCreateFileSystemInternal(i))
       /\ WF_vars(PullStarted(i) \/ PullFailed(i))
       /\ WF_vars(DokanNotifyUnmounted(i))
       /\ WF_vars(DokanMain(i))
  /\ \A t \in Thread : WF_vars(DokanCloseHandle(t) \/ DeleteDokanInstance(t))
  /\ WF_vars(ShutdownSweep)

-----------------------------------------------------------------------------
(***************************************************************************)
(* Properties.                                                             *)
(***************************************************************************)

Using == {"global", "start", "open", "queue", "ready", "mount", "keepalive",
          "release", "main", "close", "wait",
          "delete", "join", "unlist"}

\* The memory of an instance outlives everybody who uses it: the thread that
\* creates, closes or deletes it and the callbacks of its cleanup group
\* (DeleteDokanInstance, dokan.c 154-186); two threads never delete it.  The
\* pools outlive all instances (CleanupPool in DokanShutdown).
InstanceOutlivesUsers ==
  /\ \A t \in Thread : th[t].pc \in Using => inst[th[t].inst].mem = "live"
  /\ \A i \in Instance :
       /\ inst[i].mem # "live" => inst[i].running = 0
       /\ inst[i].mem = "live" => pool
       /\ \A t, u \in Thread :
            /\ th[t].inst = i /\ th[t].pc \in {"delete", "join", "unlist"}
            /\ th[u].inst = i /\ th[u].pc \in {"delete", "join", "unlist"}
            => t = u

\* In the list, that is: allocated and not taken out by DokanShutdown.
Listed(i) == inst[i].mem = "live" /\ th["shutdown"].inst # i

\* g_InstanceList holds the live instances and nothing else, both ways round,
\* although DokanShutdown removes an entry that DeleteDokanInstance removes
\* again (dokan.c 180 and 1914).
ListExact ==
  LET on == {i \in Instance : Listed(i)}
  IN
  /\ \A e \in on \cup {Head} :
       Flink[e] \in on \cup {Head} /\ Blink[Flink[e]] = e
  /\ \A S \in SUBSET on : S # {} => \E e \in S : Flink[e] \notin S

\* No volume stays mounted when its instance is gone: every way out of
\* DokanCreateFileSystem behind DokanStart and every way to close sends a
\* release.  The exceptions are a release the driver refused and a pull thread
\* that ran out of memory.
VolumeFollowsInstance ==
  \A i \in Instance :
    inst[i].mem = "freed" /\ volume[i] = "mounted" => inst[i].lost

\* The Unmounted operation is called once for a file system that came up, by
\* one of the pull threads, and has returned before the instance is freed;
\* without pull threads it is not called (OnDeviceIoCtlFailed, dokan.c 370).
UnmountedOnce ==
  \A i \in Instance :
    /\ inst[i].unmounted =< 1
    /\ inst[i].mem = "freed" /\ inst[i].mounted # "no" => inst[i].unmounted = 1

\* Whoever waits for the end of a file system, in DokanMain or DokanCloseHandle,
\* without a limit, has a pull thread left that will mark the device as closed
\* (dokan.c 382, 649, 895 and 911).
WaiterIsWoken ==
  \A t \in Thread :
    th[t].pc \in {"main", "wait"} /\ ~inst[th[t].inst].closed
      => inst[th[t].inst].running > 0

\* A creation that fails and a handle that is closed come to an end once the
\* driver has released the volume: the pull threads fail, the waiters of
\* DeviceClosedWaitHandle wake up, the callbacks are joined.
EndsOnceReleased ==
  \A i \in Instance :
    th[i].pc \in {"release", "delete", "join", "unlist", "close", "wait"}
      /\ volume[i] # "mounted"
      ~> th[i].pc = "gone"

\* mount.c, DokanNotifyUnmounted: "Required to remove reparse point".  The
\* folder is a folder again when the instance is gone.
PointRemoved ==
  \A i \in Instance : inst[i].mem = "freed" => ~inst[i].point

\* dokan.h: Mounted is "Called when Dokan successfully mounts the volume", so
\* not after Unmounted.
MountedFirst == \A i \in Instance : inst[i].mounted # "late"

\* OnDeviceIoCtlFailed: "Closing IO processing for dokan instance %s with error
\* code 0x%x and unmounting volume."  The volume is unmounted in the end.
FatalErrorUnmounts ==
  \A i \in Instance :
    inst[i].UnmountedCalled > 0 ~> volume[i] # "mounted"
=============================================================================
