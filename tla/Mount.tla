------------------------------- MODULE Mount -------------------------------
(***************************************************************************)
(* Mounting and unmounting in the driver: starting a volume, replacing an  *)
(* older one, the mount of the volume by the I/O manager, the releases     *)
(* that can begin in several places at once, the list of mount entries,    *)
(* the list of the timeout scanner, the delayed deletion of the devices    *)
(* and the preparation of an unload.                                       *)
(*                                                                         *)
(* A step is what a thread does between two points at which others can     *)
(* run: the acquisition of Global.Resource, of the list lock or of an      *)
(* entry, the call into the mount manager, the wait for the remove lock.   *)
(*                                                                         *)
(* The mount manager and the names it keeps are external: it may fail, and *)
(* give a volume any letter or none, whatever it was asked for and whoever *)
(* has that letter.  Letters given to a volume after its start, by an      *)
(* administrator, and a failed allocation of the entry for the delayed     *)
(* deletion are left out.                                                  *)
(***************************************************************************)
EXTENDS Integers, FiniteSets, Sequences, SequencesExt

CONSTANTS
  Dcb,        \* disk devices that can be created, one per start
  NoDcb,      \* no device
  Letter,     \* drive letters
  Directory,  \* directories that can be mount points
  NoPoint,    \* no mount point
  MaxReleases,  \* bound on releases that are under way at once
  Request     \* what starts ask for: the mount point, and by flags the mount
              \* manager, the session only, another letter than one in use

MountPoint == Letter \cup Directory

ASSUME PointsAssumption == /\ \A r \in Request : r.point \in MountPoint
                           /\ Letter \cap Directory = {}
                           /\ NoPoint \notin MountPoint
                           /\ NoDcb \notin Dcb

\* threads other than the starting ones that release a volume
Other == {"scan", "user", "link"}
Thread == Dcb \cup Other

VARIABLES
  Resource,          \* the start that holds Global.Resource, or NoDcb
  MountPointList,    \* the mount entries, oldest first
  AllDcbList,        \* the DCBs the timeout scanner visits
  DeviceDeleteList,  \* the DCBs queued for deletion, oldest first
  UnloadPending,     \* DokanPrepareForUnload succeeded
  teardownClaimed,   \* GlobalControlTeardownClaimed: the global device is gone
  dcb,               \* [Dcb -> the disk device and its volume]
  start,             \* [Dcb -> the thread in DokanEventStart for it]
  rel,               \* [Thread -> its DokanEventRelease]
  ioctl,             \* [Dcb -> an ioctl holds the remove lock]
  lockLeft           \* history: a thread kept MountPointListLock

vars == <<Resource, MountPointList, AllDcbList, DeviceDeleteList,
          UnloadPending, teardownClaimed, dcb, start, rel, ioctl, lockLeft>>

\* what only the preparation of an unload and the driver's end change
unload == <<UnloadPending, teardownClaimed>>

NoDevice ==
  [dev |-> "none", claimed |-> FALSE, vcb |-> "none", MountPoint |-> NoPoint,
   UseMountManager |-> FALSE, session |-> FALSE]

\* The start has, beside its own variables, the fields of the DCB that only
\* matter while it runs.
NoStart ==
  [pc |-> "idle", point |-> NoPoint, session |-> FALSE,
   useMountManager |-> FALSE, old |-> NoDcb, entry |-> NoDcb,
   ForceDriveLetterAutoAssignment |-> FALSE,
   MountPointDetermined |-> FALSE, MountManagerFailed |-> FALSE,
   PersistentSymbolicLinkName |-> FALSE]
NoRelease == [pc |-> "none", dcb |-> NoDcb]

Init ==
  /\ Resource = NoDcb
  /\ MountPointList = <<>>
  /\ AllDcbList = {}
  /\ DeviceDeleteList = <<>>
  /\ UnloadPending = FALSE
  /\ teardownClaimed = FALSE
  /\ dcb = [d \in Dcb |-> NoDevice]
  /\ start = [d \in Dcb |-> NoStart]
  /\ rel = [t \in Thread |-> NoRelease]
  /\ ioctl = [d \in Dcb |-> FALSE]
  /\ lockLeft = FALSE

-----------------------------------------------------------------------------
(***************************************************************************)
(* The mount entries.  An entry is found by mount point, if it is one of   *)
(* the session or of all sessions, or by device name when no mount point   *)
(* is given.  Volumes mounted for one session only are all of the same.    *)
(***************************************************************************)

IsDeletePending(d) == dcb[d].claimed

IsUnmountPendingVcb(d) == dcb[d].vcb # "none" /\ dcb[d].claimed

IsMounted(d) ==
  /\ dcb[d].vcb = "mounted"
  /\ start[d].pc \in {"lookup", "finish", "release", "up", "gone"}

First(Test(_)) ==
  LET found == SelectInSeq(MountPointList, Test)
  IN  IF found = 0 THEN NoDcb ELSE MountPointList[found].dcb

FindMountEntry(m, session) ==
  First(LAMBDA e : e.point = m /\ (e.session => session))

FindMountEntryByName(d) == First(LAMBDA e : e.dcb = d)

EntryOf(d) == MountPointList[SelectInSeq(MountPointList, LAMBDA e : e.dcb = d)]

InsertMountEntry(d, m) ==
  Append(MountPointList, [dcb |-> d, point |-> m, session |-> dcb[d].session,
                          volume |-> FALSE])

\* The entry of d with its fields changed.
UpdatedEntry(d, entry) ==
  [i \in DOMAIN MountPointList |->
     IF MountPointList[i].dcb = d THEN entry ELSE MountPointList[i]]

\* DokanEventStart holds the entry it found, shared, until it has finished.
EntryHeld(d) == \E s \in Dcb : start[s].pc = "finish" /\ start[s].entry = d

\* The host has the device open from its start to its end.
Opened(d) == start[d].pc = "up"

ResourceFreeFor(t) == Resource \in {NoDcb, t}

-----------------------------------------------------------------------------
(***************************************************************************)
(* Starting a volume.                                                      *)
(***************************************************************************)

DokanCreateDiskDevice(r) ==
  [NoDevice EXCEPT !.dev = "live", !.MountPoint = r.point,
                   !.UseMountManager = r.mountManager, !.session = r.session]

\* Thread t calls DokanEventRelease for the volume of d.
Calls(t, d) == rel' = [rel EXCEPT ![t] = [pc |-> "call", dcb |-> d]]

\* A start that has failed.
Ended(result) == [NoStart EXCEPT !.pc = result]

\* A start that has succeeded.  What was asked for is remembered.
Started(d) ==
  [Ended("up") EXCEPT !.point = start[d].point, !.session = start[d].session,
                      !.ForceDriveLetterAutoAssignment =
                         start[d].ForceDriveLetterAutoAssignment]

\* The start of a volume that fails before a device exists: its buffer is not
\* right, an unload is pending, the mount point has an entry and there is no
\* mount manager to ask, the start is already cancelled, the identifier or the
\* device cannot be made.
EventStartRefused(d) ==
  /\ start[d].pc = "idle"
  /\ Resource = NoDcb
  /\ ~teardownClaimed
  /\ start' = [start EXCEPT ![d].pc = "gone"]
  /\ UNCHANGED <<Resource, MountPointList, AllDcbList, DeviceDeleteList,
                 unload, dcb, rel, ioctl, lockLeft>>

\* Under Global.Resource the device is created.  An entry with the mount point
\* is replaced, if the owner is the same; a letter that stays in use is not
\* asked for, nor is one the library found in use by another driver.
EventStartCreate(d, r) ==
  LET old == FindMountEntry(r.point, r.session)
  IN
  /\ start[d].pc = "idle"
  /\ Resource = NoDcb
  /\ ~UnloadPending
  /\ old # NoDcb => r.mountManager
  /\ Resource' = d
  /\ dcb' = [dcb EXCEPT ![d] = DokanCreateDiskDevice(r)]
  /\ start' = [start EXCEPT ![d] =
       [NoStart EXCEPT !.pc = IF old = NoDcb THEN "insert" ELSE "replace",
                       !.point = r.point, !.session = r.session,
                       !.useMountManager = r.mountManager, !.old = old,
                       !.ForceDriveLetterAutoAssignment =
                          r.point \in Letter /\ old = NoDcb /\ r.inUse]]
  /\ UNCHANGED <<MountPointList, AllDcbList, DeviceDeleteList, unload,
                 rel, ioctl, lockLeft>>

\* HasSameOwner decides whether the old volume is released first.
MaybeUnmountOldDrive(d) ==
  /\ start[d].pc = "replace"
  /\ rel[d].pc = "none"
  /\ \/ /\ dcb[start[d].old].vcb # "none"
        /\ Calls(d, start[d].old)
     \/ rel' = [rel EXCEPT ![d] = [pc |-> "done", dcb |-> NoDcb]]
  /\ UNCHANGED <<Resource, MountPointList, AllDcbList, DeviceDeleteList,
                 unload, dcb, start, ioctl, lockLeft>>


\* The entry is looked up again: gone, or the old drive is left mounted.
OldDriveHandled(d) ==
  LET found == FindMountEntry(start[d].point, start[d].session)
  IN
  /\ start[d].pc = "replace"
  /\ rel[d].pc = "done"
  /\ start' = [start EXCEPT ![d].pc = "insert", ![d].old = NoDcb,
       ![d].ForceDriveLetterAutoAssignment =
          start[d].point \in Letter /\ found # NoDcb]
  /\ rel' = [rel EXCEPT ![d] = NoRelease]
  /\ UNCHANGED <<Resource, MountPointList, AllDcbList, DeviceDeleteList,
                 unload, dcb, ioctl, lockLeft>>

\* The entry is inserted and Global.Resource released.  A reference keeps the
\* memory of the DCB until the start returns.
EventStartInsert(d) ==
  /\ start[d].pc = "insert"
  /\ MountPointList' = InsertMountEntry(d, start[d].point)
  /\ start' = [start EXCEPT ![d].pc = "verify"]
  /\ Resource' = NoDcb
  /\ UNCHANGED <<AllDcbList, DeviceDeleteList, unload, dcb, rel,
                 ioctl, lockLeft>>

\* No memory for the entry: the device is queued for deletion.
EventStartNoEntry(d) ==
  /\ start[d].pc = "insert"
  /\ Resource' = NoDcb
  /\ DeviceDeleteList' = Append(DeviceDeleteList, d)
  /\ start' = [start EXCEPT ![d] = Ended("gone")]
  /\ UNCHANGED <<MountPointList, AllDcbList, unload, dcb, rel,
                 ioctl, lockLeft>>

-----------------------------------------------------------------------------
(***************************************************************************)
(* DokanMountVolume, which IoVerifyVolume runs in the starting thread.     *)
(* Its result is not looked at: the start goes on with the lookup.         *)
(***************************************************************************)

\* The volume device is created, unless the device is already going away.
MountVolumeCreate(d) ==
  /\ start[d].pc = "verify"
  /\ \/ /\ ~IsDeletePending(d)
        /\ dcb' = [dcb EXCEPT ![d].vcb = "mounted"]
        /\ start' = [start EXCEPT ![d].pc = "attach"]
     \/ /\ start' = [start EXCEPT ![d].pc = "lookup"]
        /\ UNCHANGED dcb
  /\ UNCHANGED <<Resource, MountPointList, AllDcbList, DeviceDeleteList,
                 unload, rel, ioctl, lockLeft>>

\* The volume is entered in the mount entry.
MountVolumeAttach(d) ==
  /\ start[d].pc = "attach"
  /\ ~EntryHeld(d)
  /\ IF FindMountEntryByName(d) = NoDcb
     THEN /\ start' = [start EXCEPT ![d].pc = "lookup"]
          /\ UNCHANGED MountPointList
     ELSE /\ MountPointList' =
               UpdatedEntry(d, [EntryOf(d) EXCEPT !.volume = TRUE])
          /\ start' = [start EXCEPT ![d].pc = "list"]
  /\ UNCHANGED <<Resource, AllDcbList, DeviceDeleteList, unload, dcb,
                 rel, ioctl, lockLeft>>

\* The DCB is given to the timeout scanner.
MountVolumeList(d) ==
  /\ start[d].pc = "list"
  /\ Resource = NoDcb
  /\ AllDcbList' = AllDcbList \cup {d}
  /\ start' = [start EXCEPT ![d].pc = "arrive"]
  /\ UNCHANGED <<Resource, MountPointList, DeviceDeleteList, unload,
                 dcb, rel, ioctl, lockLeft>>

\* IOCTL_MOUNTDEV_QUERY_SUGGESTED_LINK_NAME: the letter the driver asks for.
SuggestedLinkName(d) ==
  IF start[d].ForceDriveLetterAutoAssignment \/ dcb[d].MountPoint \notin Letter
  THEN NoPoint
  ELSE dcb[d].MountPoint

\* IOCTL_MOUNTDEV_LINK_CREATED: the point m is the one of the device now, in
\* the DCB and in its mount entry.  Without memory for another name the DCB is
\* left without a mount point.
LinkCreated(d, m) ==
  /\ ~IsDeletePending(d)
  /\ \/ /\ dcb' = [dcb EXCEPT ![d].MountPoint = m]
        /\ MountPointList' =
             IF dcb[d].MountPoint = m \/ FindMountEntryByName(d) = NoDcb
             THEN MountPointList
             ELSE UpdatedEntry(d, [EntryOf(d) EXCEPT !.point = m])
     \/ /\ dcb[d].MountPoint # m
        /\ dcb' = [dcb EXCEPT ![d].MountPoint = NoPoint]
        /\ UNCHANGED MountPointList

\* Whether a call of the mount manager fails: it cannot be opened or asked, it
\* refuses, or the start is cancelled before the answer.
DokanSendIoContlToMountManager == BOOLEAN

\* The arrival of the volume: the mount manager gives it a name of its own and
\* a letter, or only the name, or nothing.  It is meant to take the suggested
\* letter, but need not.  The call fails, with or without these effects, if the
\* mount manager does or the start is cancelled.  A directory gets no letter.
DokanSendVolumeArrivalNotification(d, failed) ==
  LET Arrived(named, determined) ==
        start' = [start EXCEPT ![d].pc = "lookup",
                               ![d].MountManagerFailed = failed,
                               ![d].PersistentSymbolicLinkName = named,
                               ![d].MountPointDetermined = determined]
  IN
  \/ /\ UNCHANGED <<dcb, MountPointList>>
     /\ \/ Arrived(FALSE, FALSE)
        \/ ~IsDeletePending(d) /\ Arrived(TRUE, FALSE)
  \/ /\ dcb[d].MountPoint \in Letter
     /\ \E m \in Letter : LinkCreated(d, m)
     /\ Arrived(TRUE, dcb'[d].MountPoint # NoPoint)

\* DokanCreateMountPoint: whether the mount point may be known to have been
\* assigned when it returns.  The mount manager, if it is used, is told of the
\* point and answers with LINK_CREATED, or not; the symbolic which is not
\* made once the volume is to be unmounted, is not reported.
DokanCreateMountPoint(d) ==
  IF /\ dcb[d].UseMountManager
     /\ dcb[d].MountPoint # NoPoint
     /\ ~IsDeletePending(d)
  THEN BOOLEAN
  ELSE {FALSE}

MountVolumeArrive(d) ==
  /\ start[d].pc = "arrive"
  /\ IF dcb[d].UseMountManager
     THEN \E failed \in DokanSendIoContlToMountManager :
            DokanSendVolumeArrivalNotification(d, failed)
     ELSE /\ start' = [start EXCEPT ![d].pc = "lookup"]
          /\ UNCHANGED <<dcb, MountPointList>>
  /\ UNCHANGED <<Resource, AllDcbList, DeviceDeleteList, unload, rel,
                 ioctl, lockLeft>>

-----------------------------------------------------------------------------
(***************************************************************************)
(* The end of DokanEventStart.                                             *)
(***************************************************************************)

\* The entry is looked up again, with the mount point that was asked for.
EventStartLookup(d) ==
  LET found == FindMountEntry(start[d].point, start[d].session)
  IN
  /\ start[d].pc = "lookup"
  /\ start' = [start EXCEPT ![d] =
       IF found = NoDcb THEN Ended("gone")
       ELSE [@ EXCEPT !.pc = "finish", !.entry = found]]
  /\ UNCHANGED <<Resource, MountPointList, AllDcbList, DeviceDeleteList,
                 unload, dcb, rel, ioctl, lockLeft>>

\* The directory is made a reparse point and the mount manager told of it, or
\* one of the two fails.  Without memory for the request nothing is done and no
\* failure reported.
SendDirectoryFsctl(d) ==
  IF start[d].PersistentSymbolicLinkName THEN BOOLEAN ELSE {TRUE}

\* Whether the start may end with a mount point, as far as it can tell: a letter
\* that was not assigned is forced, a directory is made to lead to the volume.
MountPointAssigned(d) ==
  IF ~start[d].useMountManager THEN {TRUE}
  ELSE IF start[d].MountManagerFailed THEN {FALSE}
  ELSE IF start[d].point \in Directory THEN SendDirectoryFsctl(d)
  ELSE IF start[d].MountPointDetermined THEN {TRUE}
  ELSE DokanCreateMountPoint(d)

\* With the entry still held the outcome is decided: a start without a mount
\* point, or cancelled, releases the volume of the entry.
EventStartFinish(d, cancelled, assigned) ==
  /\ start[d].pc = "finish"
  /\ assigned \in MountPointAssigned(d)
  /\ IF ~cancelled /\ assigned
     THEN /\ start' = [start EXCEPT ![d] = Started(d)]
          /\ UNCHANGED rel
     ELSE IF EntryOf(start[d].entry).volume
          THEN /\ start' = [start EXCEPT ![d] = Ended("release")]
               /\ Calls(d, start[d].entry)
          ELSE /\ start' = [start EXCEPT ![d] = Ended("gone")]
               /\ UNCHANGED rel
  /\ UNCHANGED <<Resource, MountPointList, AllDcbList, DeviceDeleteList,
                 unload, dcb, ioctl, lockLeft>>

\* The start returns after the release.
EventStartReturn(d) ==
  /\ start[d].pc = "release"
  /\ rel[d].pc = "done"
  /\ start' = [start EXCEPT ![d].pc = "gone"]
  /\ rel' = [rel EXCEPT ![d] = NoRelease]
  /\ UNCHANGED <<Resource, MountPointList, AllDcbList, DeviceDeleteList,
                 unload, dcb, ioctl, lockLeft>>

-----------------------------------------------------------------------------
(***************************************************************************)
(* DokanEventRelease.  The thread that claims the device tears it down.    *)
(***************************************************************************)

\* The thread goes on, if it has something to do afterwards.
ReleaseReturn(t) ==
  rel' = [rel EXCEPT ![t] =
    IF t \in {"user", "scan"} \/ (t \in Dcb /\ start[t].pc = "gone")
    THEN NoRelease
    ELSE [pc |-> "done", dcb |-> @.dcb]]

\* The two checks that are made first.
EventReleaseCheck(t) ==
  /\ rel[t].pc = "call"
  /\ IF IsDeletePending(rel[t].dcb) \/ IsUnmountPendingVcb(rel[t].dcb)
     THEN ReleaseReturn(t)
     ELSE rel' = [rel EXCEPT ![t].pc = "claim"]
  /\ UNCHANGED <<Resource, MountPointList, AllDcbList, DeviceDeleteList,
                 unload, dcb, start, ioctl, lockLeft>>

\* Altered form: the flag is set, and its former value not looked at.
EventReleaseClaimBlind(t) ==
  /\ rel[t].pc = "claim"
  /\ dcb' = [dcb EXCEPT ![rel[t].dcb].claimed = TRUE]
  /\ rel' = [rel EXCEPT ![t].pc = "teardown"]
  /\ UNCHANGED <<Resource, MountPointList, AllDcbList, DeviceDeleteList,
                 unload, start, ioctl, lockLeft>>

\* InterlockedOr: the first to set DCB_DELETE_PENDING goes on.
EventReleaseClaim(t) ==
  /\ rel[t].pc = "claim"
  /\ IF dcb[rel[t].dcb].claimed
     THEN /\ ReleaseReturn(t)
          /\ UNCHANGED dcb
     ELSE /\ dcb' = [dcb EXCEPT ![rel[t].dcb].claimed = TRUE]
          /\ rel' = [rel EXCEPT ![t].pc = "teardown"]
  /\ UNCHANGED <<Resource, MountPointList, AllDcbList, DeviceDeleteList,
                 unload, start, ioctl, lockLeft>>

\* DokanDeleteMountPoint: the mount manager forgets the volume, or the symbolic
\* link with the name is deleted, if there is one.  A session link that is gone
\* need not be kept for the clean-up of the session.
DokanDeleteMountPoint(d) ==
  \E kept \in BOOLEAN :
    dcb' = [dcb EXCEPT ![d].vcb = "dismounted",
      ![d].UseMountManager = @ /\ dcb[d].MountPoint = NoPoint,
      ![d].session =
         @ /\ (kept \/ dcb[d].UseMountManager \/ dcb[d].MountPoint = NoPoint)]

\* The mount point goes first; the requests are given back, the threads of the
\* volume stopped and VCB_MOUNTED cleared.
EventReleaseTeardown(t) ==
  /\ rel[t].pc = "teardown"
  /\ DokanDeleteMountPoint(rel[t].dcb)
  /\ rel' = [rel EXCEPT ![t].pc = "wait"]
  /\ UNCHANGED <<Resource, MountPointList, AllDcbList, DeviceDeleteList,
                 unload, start, ioctl, lockLeft>>

\* DokanDeleteDeviceObject removes the mount entry, if it finds it.
DeleteDeviceFind(d) ==
  IF FindMountEntryByName(d) # NoDcb THEN "remove" ELSE "detach"

\* IoReleaseRemoveLockAndWait: every holder of the remove lock has let go.
EventReleaseWait(t) ==
  /\ rel[t].pc = "wait"
  /\ ~ioctl[rel[t].dcb]
  /\ rel' = [rel EXCEPT ![t].pc = DeleteDeviceFind(rel[t].dcb)]
  /\ UNCHANGED <<Resource, MountPointList, AllDcbList, DeviceDeleteList,
                 unload, dcb, start, ioctl, lockLeft>>

\* RemoveMountEntry: the entry is taken out of the list once nobody holds it.
\* Without an entry the function returns and keeps the lock of the list.
RemoveMountEntry(t) ==
  LET d == rel[t].dcb
  IN
  /\ rel[t].pc = "remove"
  /\ ~EntryHeld(d)
  /\ MountPointList' = SelectSeq(MountPointList, LAMBDA e : e.dcb # d)
  /\ lockLeft' = (lockLeft \/ FindMountEntryByName(d) = NoDcb)
  /\ rel' = [rel EXCEPT ![t].pc = "detach"]
  /\ UNCHANGED <<Resource, AllDcbList, DeviceDeleteList, unload, dcb,
                 start, ioctl>>

\* The DCB is taken from the list of the scanner.
DeleteDeviceDetach(t) ==
  /\ rel[t].pc = "detach"
  /\ ResourceFreeFor(t)
  /\ AllDcbList' = AllDcbList \ {rel[t].dcb}
  /\ rel' = [rel EXCEPT ![t].pc = "queue"]
  /\ UNCHANGED <<Resource, MountPointList, DeviceDeleteList, unload,
                 dcb, start, ioctl, lockLeft>>

\* InsertDcbToDelete, which ends the release.
InsertDcbToDelete(t) ==
  /\ rel[t].pc = "queue"
  /\ ResourceFreeFor(t)
  /\ DeviceDeleteList' = Append(DeviceDeleteList, rel[t].dcb)
  /\ ReleaseReturn(t)
  /\ UNCHANGED <<Resource, MountPointList, AllDcbList, unload, dcb,
                 start, ioctl, lockLeft>>

DokanEventRelease(t) ==
  \/ EventReleaseCheck(t)
  \/ EventReleaseClaim(t)
  \/ EventReleaseTeardown(t)
  \/ EventReleaseWait(t)
  \/ RemoveMountEntry(t)
  \/ DeleteDeviceDetach(t)
  \/ InsertDcbToDelete(t)

-----------------------------------------------------------------------------
(***************************************************************************)
(* Where releases begin, beside a replacing or failing start.              *)
(***************************************************************************)

Idle(t) == rel[t].pc = "none"

\* At most MaxReleases are under way at once, beside those of starts and hosts.
MayCall == Cardinality({t \in Other : ~Idle(t)}) < MaxReleases

\* The scanner finds requests past their time and, once it has left the list,
\* unmounts; a reference keeps the disk device meanwhile.
DokanTimeoutScan(d) ==
  /\ ~UnloadPending
  /\ Resource = NoDcb
  /\ d \in AllDcbList
  /\ Idle("scan")
  /\ MayCall
  /\ Calls("scan", d)
  /\ UNCHANGED <<Resource, MountPointList, AllDcbList, DeviceDeleteList,
                 unload, dcb, start, ioctl, lockLeft>>

\* FSCTL_EVENT_RELEASE on a handle to the device, by the host process.
EventReleaseRequest(d) ==
  /\ Opened(d)
  /\ dcb[d].vcb # "none"
  /\ Idle("user")
  /\ MayCall
  /\ Calls("user", d)
  /\ UNCHANGED <<Resource, MountPointList, AllDcbList, DeviceDeleteList,
                 unload, dcb, start, ioctl, lockLeft>>

\* Release by mount point, through the global device, by a process that is in
\* the session or not.
DokanGlobalEventRelease(m, session) ==
  LET d == FindMountEntry(m, session)
  IN
  /\ Idle("user")
  /\ d # NoDcb
  /\ EntryOf(d).volume
  /\ ~IsDeletePending(d)
  /\ IsMounted(d)
  /\ MayCall
  /\ Calls("user", d)
  /\ UNCHANGED <<Resource, MountPointList, AllDcbList, DeviceDeleteList,
                 unload, dcb, start, ioctl, lockLeft>>

\* The host ends: its handles are closed, and the close of the keepalive
\* handle unmounts.
HostEnds(d) ==
  /\ start[d].pc = "up"
  /\ Idle("user") \/ rel["user"].dcb # d
  /\ start' = [start EXCEPT ![d] = Ended("gone")]
  /\ IF dcb[d].vcb = "none" \/ IsUnmountPendingVcb(d)
     THEN UNCHANGED rel
     ELSE Calls(d, d)
  /\ UNCHANGED <<Resource, MountPointList, AllDcbList, DeviceDeleteList,
                 unload, dcb, ioctl, lockLeft>>

\* A device control request takes the remove lock, unless the device goes.
DiskDeviceControlWithLock(d) ==
  /\ dcb[d].dev = "live"
  /\ start[d].pc = "up"
  /\ \A e \in Dcb : ~ioctl[e]
  /\ ~IsDeletePending(d)
  /\ ioctl' = [ioctl EXCEPT ![d] = TRUE]
  /\ UNCHANGED <<Resource, MountPointList, AllDcbList, DeviceDeleteList,
                 unload, dcb, start, rel, lockLeft>>

\* IOCTL_MOUNTDEV_LINK_DELETED for the mount point of the device, or for any if
\* it has none, which is somebody else's doing, unmounts from within the request.
LinkDeleted(d) ==
  /\ ioctl[d]
  /\ Idle("link")
  /\ MayCall
  /\ dcb[d].UseMountManager
  /\ dcb[d].vcb # "none"
  /\ Calls("link", d)
  /\ UNCHANGED <<Resource, MountPointList, AllDcbList, DeviceDeleteList,
                 unload, dcb, start, ioctl, lockLeft>>

\* The request ends and lets go of the remove lock.
DeviceControlEnds(d) ==
  /\ ioctl[d]
  /\ rel["link"].pc \in {"none", "done"} \/ rel["link"].dcb # d
  /\ ioctl' = [ioctl EXCEPT ![d] = FALSE]
  /\ rel' = IF rel["link"].dcb = d THEN [rel EXCEPT !["link"] = NoRelease] ELSE rel
  /\ UNCHANGED <<Resource, MountPointList, AllDcbList, DeviceDeleteList,
                 unload, dcb, start, lockLeft>>

-----------------------------------------------------------------------------
(***************************************************************************)
(* Deletion of the devices, sessions, and unload.                          *)
(***************************************************************************)

\* Altered form: the worker goes through the list without Global.Resource.
DeleteDeviceUnlocked ==
  /\ ~UnloadPending
  /\ \E i \in DOMAIN DeviceDeleteList :
       LET d == DeviceDeleteList[i]
       IN  /\ dcb[d].dev = "live" /\ ~Opened(d)
           /\ dcb' = [dcb EXCEPT ![d].dev = "deleted"]
           /\ DeviceDeleteList' = IF dcb[d].session THEN DeviceDeleteList
                                  ELSE RemoveAt(DeviceDeleteList, i)
  /\ UNCHANGED <<Resource, MountPointList, AllDcbList, unload,
                 start, rel, ioctl, lockLeft>>

\* DeleteDeviceDelayed: the worker, if it gets Global.Resource, deletes the
\* devices nobody has open.  The entry stays while it is one of a session.
DeleteDeviceDelayed ==
  LET Deletable(d) == d \in Range(DeviceDeleteList) /\ ~Opened(d)
  IN
  /\ ~UnloadPending
  /\ Resource = NoDcb
  /\ \E d \in Dcb : Deletable(d) /\ (dcb[d].dev = "live" \/ ~dcb[d].session)
  /\ dcb' = [d \in Dcb |-> IF Deletable(d)
                           THEN [dcb[d] EXCEPT !.dev = "deleted"] ELSE dcb[d]]
  /\ DeviceDeleteList' =
       SelectSeq(DeviceDeleteList, LAMBDA d : ~Deletable(d) \/ dcb[d].session)
  /\ UNCHANGED <<Resource, MountPointList, AllDcbList, unload,
                 start, rel, ioctl, lockLeft>>

\* RemoveSessionDevices: the links of the session are deleted and its entries
\* need not be kept.
RemoveSessionDevices ==
  /\ Resource = NoDcb
  /\ \E d \in Range(DeviceDeleteList) : dcb[d].session
  /\ dcb' = [d \in Dcb |->
       IF d \in Range(DeviceDeleteList) THEN [dcb[d] EXCEPT !.session = FALSE]
                                        ELSE dcb[d]]
  /\ UNCHANGED <<Resource, MountPointList, AllDcbList, DeviceDeleteList,
                 unload, start, rel, ioctl, lockLeft>>

\* Every process that started a volume keeps a handle to the global device, and
\* a release by mount point is made through one.
GlobalControlHandleCount ==
  Cardinality({d \in Dcb : start[d].pc \notin {"idle", "gone"}})
    + (IF Idle("user") THEN 0 ELSE 1)

\* DokanPrepareForUnload: nothing mounted, nothing to delete, no handle but the
\* one of the caller.  The worker and the scanner are stopped.
DokanPrepareForUnload ==
  /\ ~UnloadPending
  /\ Resource = NoDcb
  /\ MountPointList = <<>>
  /\ DeviceDeleteList = <<>>
  /\ GlobalControlHandleCount = 0
  /\ UnloadPending' = TRUE
  /\ UNCHANGED <<Resource, MountPointList, AllDcbList, DeviceDeleteList, dcb,
                 start, rel, ioctl, lockLeft, teardownClaimed>>

\* DokanReleaseGlobalControlHandle: the last handle is closed, and the global
\* device and its locks are deleted.
DokanCleanupGlobalDiskDevice ==
  /\ UnloadPending
  /\ ~teardownClaimed
  /\ teardownClaimed' = TRUE
  /\ UNCHANGED <<Resource, MountPointList, AllDcbList, DeviceDeleteList,
                 UnloadPending, dcb, start, rel, ioctl, lockLeft>>

-----------------------------------------------------------------------------

EventStart(d) ==
  \/ EventStartRefused(d)
  \/ \E r \in Request : EventStartCreate(d, r)

\* The steps a thread inside the driver takes by itself.
StartStep(d) ==
  \/ MaybeUnmountOldDrive(d)
  \/ OldDriveHandled(d)
  \/ EventStartInsert(d)
  \/ EventStartNoEntry(d)
  \/ MountVolumeCreate(d)
  \/ MountVolumeAttach(d)
  \/ MountVolumeList(d)
  \/ MountVolumeArrive(d)
  \/ EventStartLookup(d)
  \/ \E cancelled, assigned \in BOOLEAN : EventStartFinish(d, cancelled, assigned)
  \/ EventStartReturn(d)

Next ==
  \/ \E d \in Dcb :
       \/ EventStart(d)
       \/ StartStep(d)
       \/ DokanTimeoutScan(d)
       \/ EventReleaseRequest(d)
       \/ HostEnds(d)
       \/ DiskDeviceControlWithLock(d)
       \/ LinkDeleted(d)
       \/ DeviceControlEnds(d)
  \/ \E t \in Thread : DokanEventRelease(t)
  \/ \E m \in MountPoint, session \in BOOLEAN :
       DokanGlobalEventRelease(m, session)
  \/ DeleteDeviceDelayed
  \/ RemoveSessionDevices
  \/ DokanPrepareForUnload
  \/ DokanCleanupGlobalDiskDevice

Spec == Init /\ [][Next]_vars

\* Threads inside the driver go on, and the worker and the scanner, which wake
\* up by a timer, run again and again.  When a volume is started or released,
\* and how long handles stay open, is up to the processes.
Fairness ==
  /\ \A d \in Dcb : WF_vars(StartStep(d)) /\ WF_vars(DeviceControlEnds(d))
  /\ \A t \in Thread : WF_vars(DokanEventRelease(t))
  /\ WF_vars(DeleteDeviceDelayed)

FairSpec == Spec /\ Fairness

-----------------------------------------------------------------------------
(***************************************************************************)
(* Properties.                                                             *)
(***************************************************************************)

\* However many releases of a volume begin, one tears it down: the device is
\* queued for deletion at most once, and RemoveMountEntry is never called for
\* an entry that is gone, where it would return with the list locked.
TornDownOnce ==
  /\ ~lockLeft
  /\ \A i, j \in DOMAIN DeviceDeleteList :
       i # j => DeviceDeleteList[i] # DeviceDeleteList[j]

\* The steps of a release after the claim.
Tearing == {"teardown", "wait", "find", "remove", "detach", "queue"}

\* A device another thread may release at any time is not deleted under the
\* thread that goes on with it: a release, once it has claimed the device, and
\* a start that replaces it, which has let go of the mount entry and relies on
\* Global.Resource alone.
UsedIsLive ==
  /\ \A d \in Dcb :
       start[d].pc = "replace" => dcb[start[d].old].dev = "live"
  /\ \A t \in Thread : rel[t].pc \in Tearing => dcb[rel[t].dcb].dev = "live"

\* The volume of d, which is not being released, asks for the letter m or has
\* got it by asking.
AsksFor(d, m) ==
  /\ start[d].pc = "insert" \/ FindMountEntryByName(d) # NoDcb
  /\ ~dcb[d].claimed
  /\ start[d].point = m
  /\ SuggestedLinkName(d) = m


\* A device whose release has begun is deleted, if its host does not have it
\* open, or else once it has closed it; unless an unload stops the worker, or the release is the one LINK_DELETED
\* makes, which waits for the request it is part of.
ReleasedIsDeleted ==
  \A d \in Dcb :
    dcb[d].claimed /\ ~Opened(d)
      ~> \/ dcb[d].dev = "deleted"
         \/ Opened(d)
         \/ UnloadPending
         \/ rel["link"].pc = "wait" /\ rel["link"].dcb = d

\* What DokanEventStart says of its second lookup: the entry it finds is the
\* one of the volume it started, with the mount point it has got.
FinishesOnOwnEntry ==
  \A d \in Dcb : start[d].pc = "finish" => start[d].entry = d

\* What the timeout scanner says of its list: the DCBs on it cannot be deleted.
ScannedAreLive ==
  \A d \in AllDcbList : dcb[d].dev = "live"

\* What the library says of DokanPrepareDriverUnload: it requires every mount
\* and delayed deletion to have completed.
UnloadOnlyWhenIdle ==
  UnloadPending => \A d \in Dcb : dcb[d].dev # "live"

\* What is said of LINK_DELETED: the deletion of a mount point by somebody else
\* triggers the unmount.
LinkDeletedUnmounts ==
  \A d \in Dcb :
    rel["link"].pc # "none" /\ rel["link"].dcb = d
      ~> d \notin {MountPointList[i].dcb : i \in DOMAIN MountPointList}
=============================================================================
