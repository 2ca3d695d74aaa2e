---------------------------- MODULE FileHandles ----------------------------
(***************************************************************************)
(* File control blocks (FCB) and the handles (CCB) on them: the table of    *)
(* open files of a volume, the two reference counts of an FCB, share        *)
(* access, the deletion of a file by its last handle, renames, and the      *)
(* collector of unused FCBs.                                                *)
(* Sources: sys/util/fcb.c, sys/create.c, sys/cleanup.c, sys/close.c and    *)
(* DokanCompleteSetInformation of sys/fileinfo.c.                           *)
(*                                                                          *)
(* A handle is a file object with the thread that works on it.  What the    *)
(* code does under the VCB lock or under the FCB lock is one step; the      *)
(* steps of two handles interleave where the code holds no lock.  How a     *)
(* request that was sent to user mode comes back is PendingIrp's subject;   *)
(* here it is answered, refused, or dropped by an unmount.                  *)
(***************************************************************************)
EXTENDS Integers, FiniteSets

CONSTANTS
  Handle,             \* file objects
  Fcb,                \* blocks of memory for FCBs
  Name,               \* file names
  None,
  Exclusive,          \* the handles that ask for access and share none of it
  DeleteOnClose,      \* the handles created with FILE_DELETE_ON_CLOSE
  Ops,                \* the set-information requests that are made
  GarbageCollection,  \* FcbGarbageCollectionIntervalMs # 0
  MayUnmount,         \* whether the volume may be released
  MaxFailures,        \* bound: how many allocations fail
  MaxBreaks,          \* bound: how many oplock breaks are waited for
  MaxRenames,         \* bound: how many renames are completed
  Modulus             \* the counters of SHARE_ACCESS are unsigned

ASSUME FileHandlesAssumption ==
  /\ None \notin Fcb \cup Name
  /\ IsFiniteSet(Handle) /\ IsFiniteSet(Fcb)
  /\ Exclusive \subseteq Handle /\ DeleteOnClose \subseteq Handle
  /\ Ops \subseteq {"delete", "undelete", "rename"}
  /\ GarbageCollection \in BOOLEAN /\ MayUnmount \in BOOLEAN
  /\ MaxFailures \in Nat /\ MaxBreaks \in Nat /\ MaxRenames \in Nat
  /\ Modulus \in Nat \ {0, 1}

VARIABLES
  fcb,        \* the FCBs
  FcbTable,   \* Vcb->FcbTable: the FCB a name leads to
  handle,     \* per file object: where its thread is, and its CCB
  unmount,    \* VCB_DISMOUNT_PENDING
  collector,  \* where FcbGarbageCollectorThread is
  notEmpty,   \* the event FcbGarbageListNotEmpty
  failures, breaks, renames

vars == <<fcb, FcbTable, handle, unmount, collector, notEmpty,
          failures, breaks, renames>>

Stage == {"none", "entered", "got", "breaking", "retry", "pending", "open", "cleanup",
          "flushed", "cleaning", "cleaned", "release", "last", "lost"}

Counter == 0 .. Modulus - 1

FcbType ==
  [live : BOOLEAN, name : Name \cup {None}, OpenCount : Nat, UncleanCount : Int,
   deletePending : BOOLEAN, ReplacedByRename : BOOLEAN,
   garbage : {"no", "young", "aged"}, ccbs : SUBSET Handle,
   share : [open : Counter, shared : Counter], deleted : BOOLEAN]

HandleType ==
  [pc : Stage, fcb : Fcb \cup {None}, delOnClose : BOOLEAN, deletes : BOOLEAN,
   op : {"no", "delete", "undelete", "rename"}]

NoShare == [open |-> 0, shared |-> 0]

FreedFcb ==
  [live |-> FALSE, name |-> None, OpenCount |-> 0, UncleanCount |-> 0,
   deletePending |-> FALSE, ReplacedByRename |-> FALSE, garbage |-> "no",
   ccbs |-> {}, share |-> NoShare, deleted |-> FALSE]

NoHandle ==
  [pc |-> "none", fcb |-> None, delOnClose |-> FALSE, deletes |-> FALSE,
   op |-> "no"]

Init ==
  /\ fcb = [f \in Fcb |-> FreedFcb]
  /\ FcbTable = [n \in Name |-> None]
  /\ handle = [h \in Handle |-> NoHandle]
  /\ unmount = FALSE
  /\ collector = IF GarbageCollection THEN "wait" ELSE "stopped"
  /\ notEmpty = FALSE
  /\ failures = 0
  /\ breaks = 0
  /\ renames = 0

-----------------------------------------------------------------------------
(* The garbage list, and the end of an FCB.                                  *)

Garbage == {f \in Fcb : fcb[f].garbage # "no"}

\* DokanDeleteFcb for a set of FCBs; the table is searched by name.
Deleted(G) == [f \in Fcb |-> IF f \in G THEN FreedFcb ELSE fcb[f]]

WithoutNamesOf(G) ==
  [n \in Name |-> IF \E f \in G : fcb[f].name = n THEN None ELSE FcbTable[n]]

\* DokanScheduleFcbForGarbageCollection would take the FCB.
Schedules(f) == collector # "stopped" /\ ~fcb[f].ReplacedByRename

\* DokanFreeFCB up to its early return: the count is decremented without a lock.
DokanFreeFCB(h) ==
  LET f == handle[h].fcb
      n == fcb[f].OpenCount - 1
  IN /\ handle[h].pc = "release"
     /\ fcb' = [fcb EXCEPT ![f].OpenCount = n]
     /\ handle' = [handle EXCEPT ![h] =
                     IF n = 0 THEN [NoHandle EXCEPT !.pc = "last", !.fcb = f]
                     ELSE NoHandle]
     /\ UNCHANGED <<FcbTable, unmount, collector, notEmpty, failures, breaks, renames>>

\* The rest of DokanFreeFCB, under the VCB lock and the FCB lock.  Locking an
\* FCB that was deleted meanwhile is undefined and is not followed further.
FreeLast(h) ==
  LET f == handle[h].fcb
  IN /\ handle[h].pc = "last" /\ fcb[f].live
     /\ handle' = [handle EXCEPT ![h] = NoHandle]
     /\ CASE fcb[f].OpenCount # 0 -> UNCHANGED <<fcb, FcbTable, notEmpty>>
          [] fcb[f].OpenCount = 0 /\ Schedules(f) /\ fcb[f].garbage # "no" ->
               UNCHANGED <<fcb, FcbTable, notEmpty>>
          [] fcb[f].OpenCount = 0 /\ Schedules(f) /\ fcb[f].garbage = "no" ->
               /\ fcb' = [fcb EXCEPT ![f].garbage = "young"]
               /\ notEmpty' = TRUE
               /\ UNCHANGED FcbTable
          [] fcb[f].OpenCount = 0 /\ ~Schedules(f) ->
               /\ fcb' = Deleted({f})
               /\ FcbTable' = IF fcb[f].ReplacedByRename THEN FcbTable
                              ELSE WithoutNamesOf({f})
               /\ UNCHANGED notEmpty
     /\ UNCHANGED <<unmount, collector, failures, breaks, renames>>

-----------------------------------------------------------------------------
(* DokanGetFCB, under the VCB lock.                                          *)

\* Altered form: a block found on the garbage list is left there.
FindLeavesGarbage(h, n, fs, table) ==
  LET f == table[n]
  IN /\ f # None /\ fs[f].live
     /\ fcb' = [fs EXCEPT ![f].OpenCount = @ + 1]
     /\ FcbTable' = table
     /\ handle' = [handle EXCEPT ![h].pc = "got", ![h].fcb = f]

\* The name is in the table: DokanCancelFcbGarbageCollection, and one reference.
Find(h, n, fs, table) ==
  LET f == table[n]
      g == IF fs[f].garbage = "no" THEN fs[f]
           ELSE [fs[f] EXCEPT !.garbage = "no", !.deletePending = FALSE,
                              !.deleted = FALSE]
  IN /\ f # None /\ fs[f].live
     /\ fcb' = [fs EXCEPT ![f] = [g EXCEPT !.OpenCount = @ + 1]]
     /\ FcbTable' = table
     /\ handle' = [handle EXCEPT ![h].pc = "got", ![h].fcb = f]

\* The name is new: DokanInitializeFcb in a block of free memory.
Insert(h, n, fs, table) ==
  \E f \in Fcb :
    /\ table[n] = None /\ ~fs[f].live
    /\ fcb' = [fs EXCEPT ![f] =
                 [FreedFcb EXCEPT !.live = TRUE, !.name = n, !.OpenCount = 1]]
    /\ FcbTable' = [table EXCEPT ![n] = f]
    /\ handle' = [handle EXCEPT ![h].pc = "got", ![h].fcb = f]

GetOrCreate(h, n, fs, table) == Find(h, n, fs, table) \/ Insert(h, n, fs, table)

HasMemory(fs) == \E f \in Fcb : ~fs[f].live

\* DokanDispatchCreate up to the FCB: an unmounting volume takes no creates.
DispatchCreate(h) ==
  /\ handle[h].pc = "none" /\ ~unmount
  /\ handle' = [handle EXCEPT ![h].pc = "entered"]
  /\ UNCHANGED <<fcb, FcbTable, unmount, collector, notEmpty, failures, breaks, renames>>

DokanGetFCB(h, n) ==
  /\ handle[h].pc = "entered" /\ HasMemory(fcb)
  /\ GetOrCreate(h, n, fcb, FcbTable)
  /\ UNCHANGED <<unmount, collector, notEmpty, failures, breaks, renames>>

\* An allocation fails, MaxFailures being the bound.
OneFails == failures < MaxFailures /\ failures' = failures + 1

\* Memory is short: DokanForceFcbGarbageCollection, then one more attempt.
GetFcbForced(h, n) ==
  /\ handle[h].pc = "entered" /\ collector # "stopped" /\ Garbage # {}
  /\ notEmpty' = FALSE
  /\ \/ /\ GetOrCreate(h, n, Deleted(Garbage), WithoutNamesOf(Garbage))
        /\ OneFails \/ (~HasMemory(fcb) /\ UNCHANGED failures)
     \/ /\ OneFails
        /\ fcb' = Deleted(Garbage) /\ FcbTable' = WithoutNamesOf(Garbage)
        /\ handle' = [handle EXCEPT ![h] = NoHandle]
  /\ UNCHANGED <<unmount, collector, breaks, renames>>

\* DokanGetFCB returned NULL, or the create was refused before it.
CreateFails(h) ==
  /\ handle[h].pc = "entered"
  /\ handle' = [handle EXCEPT ![h] = NoHandle]
  /\ UNCHANGED <<fcb, FcbTable, unmount, collector, notEmpty, failures, breaks, renames>>

-----------------------------------------------------------------------------
(* SHARE_ACCESS, a structure of the I/O manager: how many file objects are   *)
(* counted in it, and how many of those share the access they ask for.       *)

Wanted(h) == [open |-> 1, shared |-> IF h \in Exclusive THEN 0 ELSE 1]

IoCheckShareAccess(h, s) ==
  s.shared >= s.open /\ (h \in Exclusive => s.open = 0)

IoUpdateShareAccess(h, s) ==
  [open |-> (s.open + 1) % Modulus,
   shared |-> (s.shared + Wanted(h).shared) % Modulus]

IoRemoveShareAccess(h, s) ==
  [open |-> (s.open - 1) % Modulus,
   shared |-> (s.shared - Wanted(h).shared) % Modulus]

-----------------------------------------------------------------------------
(* DokanDispatchCreate once it has an FCB, under the FCB lock.               *)

\* Refused before there is a CCB: name collision, a temporary directory, a
\* paging file, no memory for the CCB.
CreateRefused(h) ==
  /\ handle[h].pc = "got"
  /\ handle' = [handle EXCEPT ![h].pc = "release"]
  /\ UNCHANGED <<fcb, FcbTable, unmount, collector, notEmpty, failures, breaks, renames>>

Creating(h) == handle[h].pc \in {"got", "retry"}

\* DokanCheckShareAccess lets the create through, or is not asked.
MayShare(h, f) ==
  fcb[f].OpenCount > 1 =>
    ~fcb[f].deletePending /\ IoCheckShareAccess(h, fcb[f].share)

WithShare(h, f) ==
  IF fcb[f].OpenCount > 1 THEN IoUpdateShareAccess(h, fcb[f].share) ELSE Wanted(h)

CreateTo(h, pc, ccbs, share) ==
  /\ handle' = [handle EXCEPT ![h].pc = pc]
  /\ fcb' = [fcb EXCEPT ![handle[h].fcb].ccbs = ccbs, ![handle[h].fcb].share = share]
  /\ UNCHANGED <<FcbTable, unmount, collector, notEmpty, renames>>

\* No event context, the file is to be deleted, or the access is not shared.
CreateDenied(h) ==
  LET f == handle[h].fcb
  IN /\ Creating(h)
     /\ OneFails \/ (~MayShare(h, f) /\ UNCHANGED failures)
     /\ CreateTo(h, "release", fcb[f].ccbs \ {h}, fcb[f].share)
     /\ UNCHANGED breaks

\* A sharing violation is answered by FsRtlOplockBreakH, which posts the IRP.
CreateBreaksHandles(h) ==
  LET f == handle[h].fcb
  IN /\ Creating(h) /\ breaks < MaxBreaks
     /\ ~MayShare(h, f) /\ ~fcb[f].deletePending /\ fcb[f].UncleanCount # 0
     /\ CreateTo(h, "breaking", fcb[f].ccbs \cup {h}, fcb[f].share)
     /\ breaks' = breaks + 1
     /\ UNCHANGED failures

\* FsRtlCheckOplock posts the IRP; STATUS_PENDING unwinds nothing.
CreateBreaksOplock(h) ==
  LET f == handle[h].fcb
  IN /\ Creating(h) /\ breaks < MaxBreaks
     /\ MayShare(h, f) /\ fcb[f].UncleanCount # 0
     /\ CreateTo(h, "breaking", fcb[f].ccbs \cup {h}, WithShare(h, f))
     /\ breaks' = breaks + 1
     /\ UNCHANGED failures

\* A later failure: the oplock request, or the registration of the IRP.
CreateUnwound(h) ==
  LET f == handle[h].fcb
  IN /\ Creating(h) /\ MayShare(h, f)
     /\ CreateTo(h, "release", fcb[f].ccbs \ {h}, IoRemoveShareAccess(h, WithShare(h, f)))
     /\ UNCHANGED <<failures, breaks>>

\* Altered form: share access is recorded without being checked.
CreateSentUnchecked(h) ==
  LET f == handle[h].fcb
  IN /\ Creating(h) /\ ~unmount
     /\ CreateTo(h, "pending", fcb[f].ccbs \cup {h}, WithShare(h, f))
     /\ UNCHANGED <<failures, breaks>>

\* DokanRegisterPendingIrp: the create goes to user mode.
CreateSent(h) ==
  LET f == handle[h].fcb
  IN /\ Creating(h) /\ MayShare(h, f) /\ ~unmount
     /\ CreateTo(h, "pending", fcb[f].ccbs \cup {h}, WithShare(h, f))
     /\ UNCHANGED <<failures, breaks>>

\* The oplock is broken: the create is dispatched again.
CreateRetried(h) ==
  /\ handle[h].pc = "breaking" /\ ~unmount
  /\ handle' = [handle EXCEPT ![h].pc = "retry"]
  /\ UNCHANGED <<fcb, FcbTable, unmount, collector, notEmpty, failures, breaks, renames>>

\* It leaves before it looks at its CCB, and clears FsContext2.
CreateRetryFails(h) ==
  /\ handle[h].pc = "breaking"
  /\ OneFails \/ (unmount /\ UNCHANGED failures)
  /\ handle' = [handle EXCEPT ![h].pc = "lost"]
  /\ UNCHANGED <<fcb, FcbTable, unmount, collector, notEmpty, breaks, renames>>

\* Altered form: a failed create keeps its CCB.
CompleteCreateFailedKeepsCcb(h) ==
  LET f == handle[h].fcb
  IN CreateTo(h, "release", fcb[f].ccbs, IoRemoveShareAccess(h, fcb[f].share))

\* Altered form: a failed create takes back a count it never took.
CompleteCreateFailedUncounts(h) ==
  LET f == handle[h].fcb
  IN /\ handle' = [handle EXCEPT ![h].pc = "release"]
     /\ fcb' = [fcb EXCEPT ![f].ccbs = @ \ {h}, ![f].UncleanCount = @ - 1,
                           ![f].share = IoRemoveShareAccess(h, @)]
     /\ UNCHANGED <<FcbTable, unmount, collector, notEmpty, renames>>

\* DokanCompleteCreate, the status being an error.
CompleteCreateFailed(h) ==
  LET f == handle[h].fcb
  IN CreateTo(h, "release", fcb[f].ccbs \ {h}, IoRemoveShareAccess(h, fcb[f].share))

\* The wait for the oplock break failed: the create is failed asynchronously.
BreakFailed(h) ==
  /\ handle[h].pc = "breaking" /\ ~unmount
  /\ CompleteCreateFailed(h)
  /\ UNCHANGED <<failures, breaks>>

\* DokanCompleteCreate.
DokanCompleteCreate(h) ==
  /\ handle[h].pc = "pending"
  /\ \/ /\ handle' = [handle EXCEPT ![h].pc = "open",
                                    ![h].delOnClose = (h \in DeleteOnClose)]
        /\ fcb' = [fcb EXCEPT ![handle[h].fcb].UncleanCount = @ + 1]
        /\ UNCHANGED <<FcbTable, unmount, collector, notEmpty, renames>>
     \/ CompleteCreateFailed(h)
  /\ UNCHANGED <<failures, breaks>>

\* ReleasePendingIrp completes a create and does not run DokanCompleteCreate.
CreateDropped(h) ==
  /\ handle[h].pc = "pending" /\ unmount
  /\ handle' = [handle EXCEPT ![h].pc = "lost"]
  /\ UNCHANGED <<fcb, FcbTable, unmount, collector, notEmpty, failures, breaks, renames>>

-----------------------------------------------------------------------------
(* Disposition and rename: DokanDispatchSetInformation sends the request,    *)
(* DokanCompleteSetInformation applies the answer.  The request outlives the *)
(* cleanup of its handle but not the close.                                  *)

DokanDispatchSetInformation(h, op) ==
  /\ handle[h].pc = "open" /\ handle[h].op = "no" /\ ~unmount
  /\ op = "delete" => ~fcb[handle[h].fcb].deletePending
  /\ op = "undelete" => fcb[handle[h].fcb].deletePending
  /\ handle' = [handle EXCEPT ![h].op = op]
  /\ UNCHANGED <<fcb, FcbTable, unmount, collector, notEmpty, failures, breaks, renames>>

\* The file system refused, the image is mapped, or the request was dropped.
SetInformationFails(h) ==
  /\ handle[h].op # "no"
  /\ handle' = [handle EXCEPT ![h].op = "no"]
  /\ UNCHANGED <<fcb, FcbTable, unmount, collector, notEmpty, failures, breaks, renames>>

CompleteDisposition(h) ==
  /\ handle[h].op \in {"delete", "undelete"}
  /\ fcb' = [fcb EXCEPT ![handle[h].fcb].deletePending = (handle[h].op = "delete")]
  /\ handle' = [handle EXCEPT ![h].op = "no"]
  /\ UNCHANGED <<FcbTable, unmount, collector, notEmpty, failures, breaks, renames>>

\* Altered form: the FCB that held the new name is not marked.
RenamedForgetsReplaced(f, n, g) ==
  [fcb EXCEPT ![f].name = n]

\* The FCBs after DokanRenameFcb, g being the FCB that held the new name.
Renamed(f, n, g) ==
  [x \in Fcb |->
     CASE x = f -> [fcb[f] EXCEPT !.name = n]
       [] x # f /\ x = g /\ fcb[g].garbage # "no" -> FreedFcb
       [] x # f /\ x = g /\ fcb[g].garbage = "no" ->
            [fcb[g] EXCEPT !.ReplacedByRename = TRUE]
       [] OTHER -> fcb[x]]

\* DokanRenameFcb, under the VCB lock and the FCB lock.  The entry of the old
\* name is removed by name, whatever FCB it leads to.
DokanRenameFcb(h, n) ==
  LET f == handle[h].fcb
      table == [FcbTable EXCEPT ![fcb[f].name] = None]
  IN /\ handle[h].op = "rename" /\ renames < MaxRenames
     /\ fcb' = Renamed(f, n, table[n])
     /\ FcbTable' = [table EXCEPT ![n] = f]
     /\ handle' = [handle EXCEPT ![h].op = "no"]
     /\ renames' = renames + 1
     /\ UNCHANGED <<unmount, collector, notEmpty, failures, breaks>>

-----------------------------------------------------------------------------
(* Cleanup: the last user handle of a file object is closed.                 *)

\* DokanDispatchCleanup under the shared FCB lock: DeleteOnClose moves to the
\* FCB, and the handle finds out whether it is the one to delete the file.
DokanDispatchCleanup(h) ==
  LET f == handle[h].fcb
      pending == fcb[f].deletePending \/ handle[h].delOnClose
  IN /\ handle[h].pc = "open"
     /\ fcb' = [fcb EXCEPT ![f].deletePending = pending]
     /\ handle' = [handle EXCEPT ![h].pc = "cleanup", ![h].delOnClose = FALSE,
                                 ![h].deletes = pending /\ fcb[f].UncleanCount = 1]
     /\ UNCHANGED <<FcbTable, unmount, collector, notEmpty, failures, breaks, renames>>

DokanExecuteCleanup(h) ==
  /\ fcb' = [fcb EXCEPT ![handle[h].fcb].UncleanCount = @ - 1,
                        ![handle[h].fcb].share = IoRemoveShareAccess(h, @)]
  /\ handle' = [handle EXCEPT ![h].pc = "cleaned"]

\* The volume is unmounting: the cleanup is executed at once.
CleanupUnmounted(h) ==
  /\ handle[h].pc = "cleanup" /\ unmount
  /\ DokanExecuteCleanup(h)
  /\ UNCHANGED <<FcbTable, unmount, collector, notEmpty, failures, breaks, renames>>

\* It is not: FlushFcb, and on to the event.
CleanupFlushes(h) ==
  /\ handle[h].pc = "cleanup" /\ ~unmount
  /\ handle' = [handle EXCEPT ![h].pc = "flushed"]
  /\ UNCHANGED <<fcb, FcbTable, unmount, collector, notEmpty, failures, breaks, renames>>

\* The event goes to user mode, with the order to delete the file if it applies.
CleanupSent(h) ==
  /\ handle[h].pc = "flushed" /\ ~unmount
  /\ fcb' = [fcb EXCEPT ![handle[h].fcb].deleted = @ \/ handle[h].deletes]
  /\ handle' = [handle EXCEPT ![h].pc = "cleaning"]
  /\ UNCHANGED <<FcbTable, unmount, collector, notEmpty, failures, breaks, renames>>

\* No event context, or the registration meets an unmount that started after
\* the check: the IRP is failed and nothing is executed.
CleanupFails(h) ==
  /\ handle[h].pc = "flushed"
  /\ OneFails \/ (unmount /\ UNCHANGED failures)
  /\ handle' = [handle EXCEPT ![h].pc = "cleaned"]
  /\ UNCHANGED <<fcb, FcbTable, unmount, collector, notEmpty, breaks, renames>>

\* The answer, the timeout, the cancellation and the unmount all execute it.
DokanCompleteCleanup(h) ==
  /\ handle[h].pc = "cleaning"
  /\ DokanExecuteCleanup(h)
  /\ UNCHANGED <<FcbTable, unmount, collector, notEmpty, failures, breaks, renames>>

\* DokanDispatchClose up to DokanFreeFCB: the CCB is freed under the FCB lock.
DokanDispatchClose(h) ==
  LET f == handle[h].fcb
  IN /\ handle[h].pc = "cleaned" /\ handle[h].op = "no"
     /\ fcb' = [fcb EXCEPT ![f].ccbs = @ \ {h}]
     /\ handle' = [handle EXCEPT ![h].pc = "release"]
     /\ UNCHANGED <<FcbTable, unmount, collector, notEmpty, failures, breaks, renames>>

-----------------------------------------------------------------------------
(* FcbGarbageCollectorThread, and the release of the volume.                 *)

\* WaitForNewFcbGarbage: the wait resets the event, a synchronization event.
CollectorWakes ==
  /\ collector = "wait" /\ notEmpty
  /\ collector' = "first"
  /\ notEmpty' = FALSE
  /\ UNCHANGED <<fcb, FcbTable, handle, unmount, failures, breaks, renames>>

\* Altered form: a first pass that leaves nothing to age ends the cycle, and so
\* does any pass after the wait, whatever it leaves.
CollectorPassEndsCycle ==
  LET aged  == {f \in Fcb : fcb[f].garbage = "aged"}
      young == {f \in Fcb : fcb[f].garbage = "young"}
  IN /\ collector \in {"first", "pass"}
     /\ fcb' = [f \in Fcb |-> IF f \in young THEN [fcb[f] EXCEPT !.garbage = "aged"]
                              ELSE Deleted(aged)[f]]
     /\ FcbTable' = WithoutNamesOf(aged)
     /\ notEmpty' = FALSE
     /\ collector' = IF collector = "pass" THEN "wait" ELSE "timer"
     /\ UNCHANGED <<handle, unmount, failures, breaks, renames>>

\* One turn of AgeAndDeleteFcbGarbage: DeleteFcbGarbageAndGetRemainingCount
\* under the VCB lock, and the decision whether to wait for the timer.
CollectorPass ==
  LET aged  == {f \in Fcb : fcb[f].garbage = "aged"}
      young == {f \in Fcb : fcb[f].garbage = "young"}
  IN /\ collector \in {"first", "pass"}
     /\ fcb' = [f \in Fcb |-> IF f \in young THEN [fcb[f] EXCEPT !.garbage = "aged"]
                              ELSE Deleted(aged)[f]]
     /\ FcbTable' = WithoutNamesOf(aged)
     /\ notEmpty' = (notEmpty /\ young # {})
     /\ collector' = IF collector = "pass" /\ young = {} THEN "wait" ELSE "timer"
     /\ UNCHANGED <<handle, unmount, failures, breaks, renames>>

CollectorTimer ==
  /\ collector = "timer"
  /\ collector' = "pass"
  /\ UNCHANGED <<fcb, FcbTable, handle, unmount, notEmpty, failures, breaks, renames>>

\* ReleaseEvent is set, and the thread ends.
CollectorEnds ==
  /\ collector \in {"wait", "timer"} /\ unmount
  /\ collector' = "ended"
  /\ UNCHANGED <<fcb, FcbTable, handle, unmount, notEmpty, failures, breaks, renames>>

\* DokanStopFcbGarbageCollectorThread, which has waited for it.
DokanStopFcbGarbageCollectorThread ==
  /\ collector = "ended"
  /\ collector' = "stopped"
  /\ UNCHANGED <<fcb, FcbTable, handle, unmount, notEmpty, failures, breaks, renames>>

Unmount ==
  /\ MayUnmount /\ ~unmount
  /\ unmount' = TRUE
  /\ UNCHANGED <<fcb, FcbTable, handle, collector, notEmpty, failures, breaks, renames>>

-----------------------------------------------------------------------------
Create(h) ==
  \/ DispatchCreate(h) \/ CreateFails(h) \/ CreateRefused(h)
  \/ \E n \in Name : DokanGetFCB(h, n) \/ GetFcbForced(h, n)
  \/ CreateDenied(h) \/ CreateBreaksHandles(h) \/ CreateBreaksOplock(h)
  \/ CreateUnwound(h) \/ CreateSent(h) \/ CreateRetried(h) \/ CreateRetryFails(h)
  \/ BreakFailed(h) \/ DokanCompleteCreate(h) \/ CreateDropped(h)

SetInformation(h) ==
  \/ \E op \in Ops : DokanDispatchSetInformation(h, op)
  \/ SetInformationFails(h) \/ CompleteDisposition(h)
  \/ \E n \in Name : DokanRenameFcb(h, n)

Cleanup(h) ==
  \/ DokanDispatchCleanup(h) \/ CleanupUnmounted(h) \/ CleanupFlushes(h)
  \/ CleanupSent(h) \/ CleanupFails(h) \/ DokanCompleteCleanup(h)

Close(h) == DokanDispatchClose(h) \/ DokanFreeFCB(h) \/ FreeLast(h)

Collector ==
  \/ CollectorWakes \/ CollectorPass \/ CollectorTimer \/ CollectorEnds
  \/ DokanStopFcbGarbageCollectorThread

Next ==
  \/ \E h \in Handle : Create(h) \/ SetInformation(h) \/ Cleanup(h) \/ Close(h)
  \/ Collector \/ Unmount

Spec == Init /\ [][Next]_vars

\* The collector is a thread of its own, and its timer is periodic.
FairSpec == Spec /\ WF_vars(CollectorWakes) /\ WF_vars(CollectorPass)
                 /\ WF_vars(CollectorTimer)

-----------------------------------------------------------------------------
(* What holds.                                                               *)

TypeOK ==
  /\ fcb \in [Fcb -> FcbType]
  /\ FcbTable \in [Name -> Fcb \cup {None}]
  /\ handle \in [Handle -> HandleType]
  /\ unmount \in BOOLEAN
  /\ collector \in {"wait", "first", "timer", "pass", "ended", "stopped"}
  /\ notEmpty \in BOOLEAN
  /\ failures \in 0 .. MaxFailures
  /\ breaks \in 0 .. MaxBreaks
  /\ renames \in 0 .. MaxRenames

At(f, stages) == {h \in Handle : handle[h].fcb = f /\ handle[h].pc \in stages}

Opened == {"open", "cleanup", "flushed", "cleaning"}
WithCcb == {"breaking", "retry", "pending", "cleaned", "lost"} \cup Opened
Referencing == {"got", "release"} \cup WithCcb

\* The OpenCount of an FCB is the number of file objects that refer to it, and
\* an FCB that a file object refers to is not freed: GetFCB counts under the
\* VCB lock, DokanFreeFCB discounts without it, and the collector, a forced
\* collection or a rename frees only what nobody refers to.
OpenCountExact ==
  \A f \in Fcb :
    /\ fcb[f].OpenCount = Cardinality(At(f, Referencing))
    /\ At(f, Referencing) # {} => fcb[f].live

\* The list of CCBs of an FCB holds those of its file objects and no other, so
\* it is empty when DokanDeleteFcb asserts it.
CcbsExact == \A f \in Fcb : fcb[f].ccbs = At(f, WithCcb)

\* UncleanCount never falls below the number of open handles, so an open handle
\* is never overlooked when a cleanup asks whether it is the last one.  It is
\* that number as long as no cleanup was failed.
UncleanNeverShort ==
  \A f \in Fcb :
    /\ fcb[f].UncleanCount >= Cardinality(At(f, Opened))
    /\ failures = 0 /\ ~unmount =>
         fcb[f].UncleanCount = Cardinality(At(f, Opened))

\* An FCB on the garbage list is allocated, was not replaced by a rename, and no
\* file object refers to it: DokanGetFCB takes it off the list before it counts.
GarbageUnused ==
  \A f \in Garbage : fcb[f].live /\ fcb[f].OpenCount = 0 /\ ~fcb[f].ReplacedByRename

\* The collector does not sleep on garbage: while it waits for new garbage and
\* the list is not empty, the event that wakes it is set.  The wait resets that
\* event, a pass clears it, a forced collection clears it, and a create may take
\* an FCB off the list at any time.
GarbageWakesCollector == Garbage # {} /\ collector = "wait" => notEmpty

\* The table leads to an FCB by its name exactly if the FCB was not replaced by
\* a rename.  (With two renames this fails: see ReplacedNotInTable.)
TableExact ==
  \A f \in Fcb, n \in Name :
    FcbTable[n] = f <=> fcb[f].live /\ fcb[f].name = n /\ ~fcb[f].ReplacedByRename

\* Two file objects that hold an FCB at the same time both share their access.
\* (With an oplock break that fails this fails too: the second property below.)
SharingRespected ==
  \A f \in Fcb : \A h, k \in At(f, {"pending"} \cup Opened) :
    h # k => h \notin Exclusive /\ k \notin Exclusive

\* Share access is unwound: an FCB without file objects has none recorded.
ShareUnwound ==
  \A f \in Fcb : At(f, WithCcb) = {} => fcb[f].share = NoShare

\* Garbage is deleted or used again, unless the volume is released.
GarbageCollected ==
  \A f \in Fcb : f \in Garbage ~> (f \notin Garbage \/ unmount)

-----------------------------------------------------------------------------
(* What the code says of itself and does not hold.                           *)

\* fcb.c: "The code that increments it does so with the VCB locked, so at this
\* point we are sure": the FCB whose last reference was dropped is still there
\* when DokanFreeFCB locks it.
FcbStillThere ==
  \A h \in Handle : handle[h].pc = "last" => fcb[handle[h].fcb].live

\* dokan.h on ReplacedByRename: "The Fcb was removed from the Avl table and is
\* waiting to be deleted when all existing handles are being closed."
ReplacedNotInTable ==
  \A n \in Name : FcbTable[n] # None => ~fcb[FcbTable[n]].ReplacedByRename

\* cleanup.c: "The Fcb is marked for deletion due to DeleteOnClose or through
\* FileDisposition, the last handle will execute the deletion."
LastHandleDeletes ==
  \A f \in Fcb :
    fcb[f].live /\ fcb[f].deletePending /\ fcb[f].UncleanCount = 0 => fcb[f].deleted

\* cleanup.c: "`DOKAN_FCB_STATE_DELETE_PENDING` will prevent the Fcb to be open."
DeletePendingPreventsOpen ==
  [][\A h \in Handle :
       handle[h].pc # "pending" /\ handle'[h].pc = "pending" =>
         ~fcb[handle[h].fcb].deletePending]_vars

\* DokanDeleteFcb: ASSERT(Fcb->UncleanCount == 0).
DeletedIsClean ==
  \A f \in Fcb : fcb[f].live /\ fcb[f].OpenCount = 0 => fcb[f].UncleanCount = 0
=============================================================================
