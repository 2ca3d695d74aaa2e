---------------------------- MODULE PendingIrp ----------------------------
(***************************************************************************)
(* The pending request packets (IRPs) of one mounted volume.               *)
(*                                                                         *)
(* A request that user mode must answer is registered in Dcb->PendingIrp   *)
(* with a serial number (RegisterPendingIrpMain).  It is then completed by *)
(* whoever gets to it first: the library's reply (DokanCompleteIrp), the   *)
(* timeout scanner (ReleaseTimeoutPendingIrp), the cancel routine the I/O  *)
(* manager calls (DokanIrpCancelRoutine, DokanCreateIrpCancelRoutine) or   *)
(* the unmount (DokanEventRelease).  A create that waited for an oplock    *)
(* break goes through Dcb->PendingRetryIrp and is dispatched again by the  *)
(* notification thread (RetryIrps).                                        *)
(*                                                                         *)
(* IRP_ENTRYs come from a pool: a freed one may be allocated again.  What  *)
(* runs under a list's spin lock is one step, except the registration,     *)
(* which the lock-free halves of a cancellation can interleave with.       *)
(***************************************************************************)
EXTENDS Naturals, Sequences, FiniteSets

CONSTANTS Irp, Entry, Replier, None,
          Kind,             \* Kind[i]: the major function, as far as it matters
          MaxOplockBreaks,  \* bound: oplock breaks one request waits for
          MaxResets         \* bound: timeout resets the library asks for

Lists == {"PendingIrp", "PendingRetryIrp"}
Kinds == {"create", "cleanup", "other"}

ASSUME PendingIrpAssumption ==
  /\ None \notin Irp \cup Entry
  /\ Kind \in [Irp -> Kinds]
  /\ MaxOplockBreaks \in Nat
  /\ MaxResets \in Nat

VARIABLES
  \* the dispatching (or oplock completion) thread of each IRP
  dpc,         \* where it is
  path,        \* who called RegisterPendingIrpMain
  breaks,      \* oplock breaks it waited for
  regEntry,    \* irpEntry of RegisterPendingIrpMain
  eventSerial, \* EventContext->SerialNumber
  \* the IRP
  cancel,      \* Irp->Cancel
  routine,     \* Irp->CancelRoutine is set
  marked,      \* IoMarkIrpPending was called
  context,     \* DriverContext[DRIVER_CONTEXT_IRP_ENTRY]
  result,      \* the statuses it was completed with, in order
  settled,     \* how often its effect on the file object was settled:
               \* DokanExecuteCleanup of a cleanup; DokanCompleteCreate, or
               \* the back-out in DokanDispatchCreate, of a create
  \* the I/O manager's cancellation of each IRP
  cpc, holds,  \* where it is, and the entry its cancel routine has read
  \* the volume
  entry,       \* the pool of IRP_ENTRYs; an entry has one list link, so it
               \* is at one place at a time
  notEmpty,    \* PendingRetryIrp.NotEmpty is signalled
  serial,      \* Dcb->SerialNumber
  unmount,     \* progress of DokanEventRelease
  \* the library
  events,      \* serial numbers it was notified of and has not answered
  rpc, rserial, rentry, resets

dispatchVars == <<dpc, path, breaks, regEntry, eventSerial>>
irpVars == <<cancel, routine, marked, context>>
doneVars == <<result, settled>>
cancelVars == <<cpc, holds>>
libraryVars == <<events, rpc, rserial, rentry, resets>>
vars == <<dispatchVars, irpVars, doneVars, cancelVars, entry, notEmpty, serial,
          unmount, libraryVars>>

FreeEntry == [irp |-> None, at |-> "free", list |-> None, serial |-> 0,
              async |-> "SUCCESS", tick |-> "future", forced |-> FALSE, freeMemory |-> FALSE,
              nulled |-> FALSE]

IsUnmountPendingVcb == unmount # "mounted"

\* A registration between its two halves holds the list's spin lock.
ListOf(i) == IF path[i] = "retry" THEN "PendingRetryIrp" ELSE "PendingIrp"
Unlocked(l) == \A i \in Irp : ~(dpc[i] = "set" /\ ListOf(i) = l)
-----------------------------------------------------------------------------
Init ==
  /\ dpc = [i \in Irp |-> "new"]
  /\ path = [i \in Irp |-> "dispatch"]
  /\ breaks = [i \in Irp |-> 0]
  /\ regEntry = [i \in Irp |-> None]
  /\ eventSerial = [i \in Irp |-> 0]
  /\ cancel = [i \in Irp |-> FALSE]
  /\ routine = [i \in Irp |-> FALSE]
  /\ marked = [i \in Irp |-> FALSE]
  /\ context = [i \in Irp |-> None]
  /\ result = [i \in Irp |-> <<>>]
  /\ settled = [i \in Irp |-> 0]
  /\ cpc = [i \in Irp |-> "idle"]
  /\ holds = [i \in Irp |-> None]
  /\ entry = [e \in Entry |-> FreeEntry]
  /\ notEmpty = FALSE
  /\ serial = 0
  /\ unmount = "mounted"
  /\ events = {}
  /\ rpc = [r \in Replier |-> "idle"]
  /\ rserial = [r \in Replier |-> 0]
  /\ rentry = [r \in Replier |-> None]
  /\ resets = 0

\* DokanCompleteIrpRequest
Complete(i, status) == result' = [result EXCEPT ![i] = Append(@, status)]

\* DokanExecuteCleanup / DokanCompleteCreate on behalf of IRP i
Settle(i) == settled' = [settled EXCEPT ![i] = @ + 1]
SettleIf(i, kinds) == IF Kind[i] \in kinds THEN Settle(i) ELSE UNCHANGED settled

DokanFreeIrpEntry(e) == entry' = [entry EXCEPT ![e] = FreeEntry]
-----------------------------------------------------------------------------
(***************************************************************************)
(* Dispatch.  DokanDispatchRequest, and for a cleanup DokanDispatchCleanup *)
(* itself, refuse or shortcut a request of an unmounted volume; otherwise  *)
(* the handler registers it, or leaves it with the oplock package.         *)
(***************************************************************************)
DispatchUnmounted(i) ==
  /\ dpc[i] \in {"new", "redispatch"}
  /\ IsUnmountPendingVcb
  /\ dpc' = [dpc EXCEPT ![i] = "failed"]
  /\ Complete(i, IF Kind[i] = "cleanup" THEN "SUCCESS" ELSE "NO_SUCH_DEVICE")
  \* A new create has no CCB yet; one that is dispatched again keeps its own.
  /\ IF dpc[i] = "new" THEN SettleIf(i, {"create", "cleanup"})
                       ELSE UNCHANGED settled
  /\ UNCHANGED <<path, breaks, regEntry, eventSerial, irpVars, cancelVars, entry, notEmpty,
                 serial, unmount, libraryVars>>

DispatchToRegister(i) ==
  /\ dpc[i] \in {"new", "redispatch"}
  /\ ~IsUnmountPendingVcb
  /\ path' = [path EXCEPT ![i] = IF dpc[i] = "new" THEN "dispatch" ELSE "redispatch"]
  /\ dpc' = [dpc EXCEPT ![i] = "register"]
  /\ UNCHANGED <<breaks, regEntry, eventSerial, irpVars, doneVars, cancelVars, entry, notEmpty,
                 serial, unmount, libraryVars>>

\* FsRtlCheckOplock returns STATUS_PENDING; DokanPrePostIrp marks the IRP.
DispatchToOplock(i) ==
  /\ dpc[i] \in {"new", "redispatch"}
  /\ ~IsUnmountPendingVcb
  /\ Kind[i] # "cleanup"
  /\ breaks[i] < MaxOplockBreaks
  /\ breaks' = [breaks EXCEPT ![i] = @ + 1]
  /\ dpc' = [dpc EXCEPT ![i] = "oplock"]
  /\ marked' = [marked EXCEPT ![i] = TRUE]
  /\ UNCHANGED <<path, regEntry, eventSerial, cancel, routine, context, doneVars, cancelVars,
                 entry, notEmpty, serial, unmount, libraryVars>>

\* DokanOplockComplete, DokanRetryCreateAfterOplockBreak: break acknowledged.
OplockBroken(i) ==
  /\ dpc[i] = "oplock"
  /\ path' = [path EXCEPT ![i] = IF Kind[i] = "create" THEN "retry" ELSE "oplock"]
  /\ dpc' = [dpc EXCEPT ![i] = "register"]
  /\ UNCHANGED <<breaks, regEntry, eventSerial, irpVars, doneVars, cancelVars, entry, notEmpty,
                 serial, unmount, libraryVars>>

\* The same two routines when the wait failed or was cancelled.
OplockFailed(i) ==
  /\ dpc[i] = "oplock"
  /\ IF Kind[i] = "create"
     THEN /\ path' = [path EXCEPT ![i] = "async"]
          /\ dpc' = [dpc EXCEPT ![i] = "register"]
          /\ UNCHANGED result
     ELSE /\ dpc' = [dpc EXCEPT ![i] = "pended"]
          /\ Complete(i, "OPLOCK_FAILURE")
          /\ UNCHANGED path
  /\ UNCHANGED <<breaks, regEntry, eventSerial, irpVars, settled, cancelVars, entry, notEmpty,
                 serial, unmount, libraryVars>>
-----------------------------------------------------------------------------
(***************************************************************************)
(* RegisterPendingIrpMain.  What its callers do with a refusal differs:    *)
(* the dispatch completes the IRP with the status (and a create backs out  *)
(* its CCB, FCB and share access), the completion routines of an oplock    *)
(* break ignore it.                                                        *)
(***************************************************************************)
Refuse(i, status) ==
  IF path[i] \in {"dispatch", "redispatch"}
  THEN /\ dpc' = [dpc EXCEPT ![i] = "failed"]
       /\ Complete(i, status)
       /\ SettleIf(i, {"create"})
  ELSE /\ dpc' = [dpc EXCEPT ![i] = "dropped"]
       /\ UNCHANGED doneVars

\* The first unmount check fails, or there is no memory for the entry.
RegisterRefused(i) ==
  /\ dpc[i] = "register"
  /\ \/ IsUnmountPendingVcb /\ Refuse(i, "NO_SUCH_DEVICE")
     \/ ~IsUnmountPendingVcb /\ Refuse(i, "INSUFFICIENT_RESOURCES")
  /\ UNCHANGED <<path, breaks, regEntry, eventSerial, irpVars, cancelVars, entry, notEmpty,
                 serial, unmount, libraryVars>>

RegisterAllocate(i) ==
  /\ dpc[i] = "register"
  /\ ~IsUnmountPendingVcb
  /\ dpc' = [dpc EXCEPT ![i] = "allocated"]
  /\ \E e \in Entry :
       /\ entry[e].irp = None
       /\ entry' = [entry EXCEPT ![e] =
            [FreeEntry EXCEPT !.irp = i, !.at = "register", !.list = ListOf(i),
               !.async = IF path[i] = "async" THEN "OPLOCK_FAILURE" ELSE "SUCCESS"]]
       /\ regEntry' = [regEntry EXCEPT ![i] = e]
  /\ UNCHANGED <<path, breaks, eventSerial, irpVars, doneVars, cancelVars, notEmpty,
                 serial, unmount, libraryVars>>

\* The second unmount check, under the list's lock.
RegisterUnmounted(i) ==
  /\ dpc[i] = "allocated"
  /\ Unlocked(ListOf(i))
  /\ IsUnmountPendingVcb
  /\ DokanFreeIrpEntry(regEntry[i])
  /\ regEntry' = [regEntry EXCEPT ![i] = None]
  /\ Refuse(i, "NO_SUCH_DEVICE")
  /\ UNCHANGED <<path, breaks, eventSerial, irpVars, cancelVars, notEmpty, serial,
                 unmount, libraryVars>>

\* Serial number, IoMarkIrpPending, DriverContext, IoSetCancelRoutine.
RegisterSetRoutine(i) ==
  /\ dpc[i] = "allocated"
  /\ Unlocked(ListOf(i))
  /\ ~IsUnmountPendingVcb
  /\ dpc' = [dpc EXCEPT ![i] = "set"]
  /\ IF path[i] \in {"retry", "async"}  \* these pass no EventContext
     THEN UNCHANGED <<serial, eventSerial, entry>>
     ELSE /\ serial' = serial + 1
          /\ eventSerial' = [eventSerial EXCEPT ![i] = serial + 1]
          /\ entry' = [entry EXCEPT ![regEntry[i]].serial = serial + 1]
  /\ marked' = [marked EXCEPT ![i] = TRUE]
  /\ context' = [context EXCEPT ![i] = regEntry[i]]
  /\ routine' = [routine EXCEPT ![i] = TRUE]
  /\ UNCHANGED <<path, breaks, regEntry, cancel, doneVars, cancelVars, notEmpty, unmount, libraryVars>>

\* Irp->Cancel is set and the routine can still be taken back.
RegisterBackOut(i) ==
  /\ dpc[i] = "set"
  /\ cancel[i] /\ routine[i]
  /\ routine' = [routine EXCEPT ![i] = FALSE]
  /\ context' = [context EXCEPT ![i] = None]
  /\ DokanFreeIrpEntry(regEntry[i])
  /\ regEntry' = [regEntry EXCEPT ![i] = None]
  /\ Refuse(i, "CANCELLED")
  /\ UNCHANGED <<path, breaks, eventSerial, cancel, marked, cancelVars, notEmpty,
                 serial, unmount, libraryVars>>

RegisterInsert(i) ==
  /\ dpc[i] = "set"
  /\ ~(cancel[i] /\ routine[i])
  /\ entry' = [entry EXCEPT ![regEntry[i]].at = ListOf(i)]
  /\ notEmpty' = (notEmpty \/ path[i] = "retry")
  /\ dpc' = [dpc EXCEPT ![i] =
               IF path[i] \in {"retry", "async"} THEN "pended" ELSE "notify"]
  /\ regEntry' = [regEntry EXCEPT ![i] = None]
  /\ UNCHANGED <<path, breaks, eventSerial, irpVars, doneVars, cancelVars,
                 serial, unmount, libraryVars>>

\* DokanEventNotification, after the list's lock is released.
Notify(i) ==
  /\ dpc[i] = "notify"
  /\ dpc' = [dpc EXCEPT ![i] = "pended"]
  /\ events' = events \cup {eventSerial[i]}
  /\ UNCHANGED <<path, breaks, regEntry, eventSerial, irpVars, doneVars,
                 cancelVars, entry, notEmpty, serial, unmount,
                 rpc, rserial, rentry, resets>>
-----------------------------------------------------------------------------
(***************************************************************************)
(* Cancellation.  IoCancelIrp sets Irp->Cancel and then takes the cancel   *)
(* routine in an atomic exchange; both routines begin by releasing the     *)
(* cancel spin lock, so nothing orders what they do before they take the   *)
(* list's lock, which the routine of a create never does.                  *)
(***************************************************************************)
IoCancelIrp(i) ==
  /\ cpc[i] = "idle"
  /\ dpc[i] # "new" /\ result[i] = <<>>
  /\ cpc' = [cpc EXCEPT ![i] = "flagged"]
  /\ cancel' = [cancel EXCEPT ![i] = TRUE]
  /\ UNCHANGED <<dispatchVars, routine, marked, context, doneVars, holds,
                 entry, notEmpty, serial, unmount, libraryVars>>

IoCancelTake(i) ==
  /\ cpc[i] = "flagged"
  /\ cpc' = [cpc EXCEPT ![i] = IF routine[i] THEN "called" ELSE "over"]
  /\ routine' = [routine EXCEPT ![i] = FALSE]
  /\ UNCHANGED <<dispatchVars, cancel, marked, context, doneVars, holds,
                 entry, notEmpty, serial, unmount, libraryVars>>

\* Both routines: read the entry from the IRP.
CancelReadEntry(i) ==
  /\ cpc[i] = "called"
  /\ holds' = [holds EXCEPT ![i] = context[i]]
  /\ cpc' = [cpc EXCEPT ![i] =
       IF context[i] # None THEN "holding"
       ELSE IF Kind[i] = "create" THEN "over" ELSE "unowned"]
  /\ UNCHANGED <<dispatchVars, irpVars, doneVars, entry, notEmpty,
                 serial, unmount, libraryVars>>

\* DokanCreateIrpCancelRoutine: TickCount and AsyncStatus ...
CreateCancelMark(i) ==
  /\ cpc[i] = "holding"
  /\ Kind[i] = "create"
  /\ entry' = [entry EXCEPT ![holds[i]].tick = "zero",
                            ![holds[i]].async = "CANCELLED"]
  /\ cpc' = [cpc EXCEPT ![i] = "marked"]
  /\ UNCHANGED <<dispatchVars, irpVars, doneVars, holds, notEmpty,
                 serial, unmount, libraryVars>>

\* ... and then ForcedCanceled, and the scanner is woken.
CreateCancelForce(i) ==
  /\ cpc[i] = "marked"
  /\ entry' = [entry EXCEPT ![holds[i]].forced = TRUE]
  /\ holds' = [holds EXCEPT ![i] = None]
  /\ cpc' = [cpc EXCEPT ![i] = "over"]
  /\ UNCHANGED <<dispatchVars, irpVars, doneVars, notEmpty, serial,
                 unmount, libraryVars>>

\* DokanIrpCancelRoutine, its critical section.  The entry keeps its memory
\* unless another thread has already given it up; a lookup of its IRP finds
\* NULL from here on.
IrpCancelUnlink(i) ==
  /\ cpc[i] = "holding"
  /\ Kind[i] # "create"
  /\ Unlocked(entry[holds[i]].list)
  /\ entry' = [entry EXCEPT ![holds[i]] =
       IF @.freeMemory THEN FreeEntry
       ELSE [@ EXCEPT !.at = "gone", !.nulled = TRUE]]
  /\ context' = [context EXCEPT ![i] = None]
  /\ holds' = [holds EXCEPT ![i] = None]
  /\ cpc' = [cpc EXCEPT ![i] = "unlinked"]
  /\ UNCHANGED <<dispatchVars, cancel, routine, marked, doneVars, notEmpty,
                 serial, unmount, libraryVars>>

IrpCancelComplete(i) ==
  /\ cpc[i] \in {"unlinked", "unowned"}
  /\ IF cpc[i] = "unlinked" THEN SettleIf(i, {"cleanup"}) ELSE UNCHANGED settled
  /\ Complete(i, "CANCELLED")
  /\ cpc' = [cpc EXCEPT ![i] = "over"]
  /\ UNCHANGED <<dispatchVars, irpVars, holds, entry, notEmpty, serial,
                 unmount, libraryVars>>
-----------------------------------------------------------------------------
(***************************************************************************)
(* Taking entries out of a list.  Whoever searches a list (the reply, the  *)
(* scanner, the unmount, the retry) removes the entry and then tries to    *)
(* clear the cancel routine.  If the I/O manager has taken it, the entry   *)
(* is left to the routine.                                                 *)
(***************************************************************************)
\* Altered form: the result of IoSetCancelRoutine is ignored.
LeftToRoutineIgnored(e) == entry[e].nulled

\* "Cancellation is already in progress": the routine will run, or has run
\* and left an entry without IRP.
LeftToRoutine(e) ==
  entry[e].nulled \/ (~entry[e].forced /\ ~routine[entry[e].irp])

\* An entry without IRP is freed, the others get CancelRoutineFreeMemory.
GivenUp(x) ==
  IF x.nulled THEN FreeEntry
  ELSE [x EXCEPT !.at = "gone", !.freeMemory = TRUE]

\* The entries S leave their list, for the local list dest.
TakeOut(S, dest) ==
  /\ entry' = [e \in Entry |->
                 IF e \notin S THEN entry[e]
                 ELSE IF LeftToRoutine(e) THEN GivenUp(entry[e])
                 ELSE [entry[e] EXCEPT !.at = dest]]
  /\ routine' = [i \in Irp |-> routine[i] /\ \A e \in S : entry[e].irp # i]

\* DriverContext is cleared for the entries that were not given up.
ClearContexts(S) ==
  context' = [i \in Irp |->
                IF \E e \in S : entry[e].irp = i /\ ~LeftToRoutine(e)
                THEN None ELSE context[i]]

At(place) == {e \in Entry : entry[e].at = place}
-----------------------------------------------------------------------------
(***************************************************************************)
(* DokanCompleteIrp.  The library answers with one EVENT_INFORMATION.      *)
(***************************************************************************)
ReplyStart(r) ==
  /\ rpc[r] = "idle"
  /\ \E s \in events :
       /\ events' = events \ {s}
       /\ rserial' = [rserial EXCEPT ![r] = s]
  /\ rpc' = [rpc EXCEPT ![r] = IF IsUnmountPendingVcb THEN "closed" ELSE "search"]
  /\ UNCHANGED <<dispatchVars, irpVars, doneVars, cancelVars, entry, notEmpty,
                 serial, unmount, rentry, resets>>

Matching(s) == {e \in At("PendingIrp") : entry[e].serial = s}

ReplyNoMatch(r) ==
  /\ rpc[r] = "search"
  /\ Unlocked("PendingIrp")
  /\ Matching(rserial[r]) = {}
  /\ rpc' = [rpc EXCEPT ![r] = "idle"]
  /\ UNCHANGED <<dispatchVars, irpVars, doneVars, cancelVars, entry, notEmpty,
                 serial, unmount, events, rserial, rentry, resets>>

ReplyTake(r) ==
  /\ rpc[r] = "search"
  /\ Unlocked("PendingIrp")
  /\ \E e \in Matching(rserial[r]) :
       /\ TakeOut({e}, "reply")
       /\ ClearContexts({e})
       /\ rpc' = [rpc EXCEPT ![r] = IF LeftToRoutine(e) THEN "idle"
                                    ELSE IF entry[e].forced THEN "force"
                                    ELSE "complete"]
       /\ rentry' = [rentry EXCEPT ![r] = IF LeftToRoutine(e) THEN None ELSE e]
  /\ UNCHANGED <<dispatchVars, cancel, marked, doneVars, cancelVars, notEmpty,
                 serial, unmount, events, rserial, resets>>

\* The second unmount check: the request was taken out of the list and is
\* neither completed nor freed.
ReplyAbandon(r) ==
  /\ rpc[r] = "complete"
  /\ IsUnmountPendingVcb
  /\ rpc' = [rpc EXCEPT ![r] = "closed"]
  /\ entry' = [entry EXCEPT ![rentry[r]].at = "gone"]
  /\ rentry' = [rentry EXCEPT ![r] = None]
  /\ UNCHANGED <<dispatchVars, irpVars, doneVars, cancelVars, notEmpty, serial,
                 unmount, events, rserial, resets>>

\* Altered form: no second unmount check.
ReplyUnchecked(r) ==
  /\ rpc[r] = "complete"
  /\ rpc' = [rpc EXCEPT ![r] = "answer"]
  /\ UNCHANGED <<dispatchVars, irpVars, doneVars, cancelVars, entry, notEmpty,
                 serial, unmount, events, rserial, rentry, resets>>

\* ... which finds the volume mounted: from here on the answer counts, though
\* no lock keeps DokanEventRelease from claiming the volume before it is used.
ReplyAccept(r) ==
  /\ rpc[r] = "complete"
  /\ ~IsUnmountPendingVcb
  /\ rpc' = [rpc EXCEPT ![r] = "answer"]
  /\ UNCHANGED <<dispatchVars, irpVars, doneVars, cancelVars, entry, notEmpty,
                 serial, unmount, events, rserial, rentry, resets>>

\* DokanDispatchCompletion with the library's answer, or DokanCancelCreateIrp
\* for a create whose cancellation was waiting for the scanner.
ReplyComplete(r) ==
  LET i == entry[rentry[r]].irp
  IN /\ \/ rpc[r] = "answer" /\ Complete(i, "ANSWER")
        \/ rpc[r] = "force" /\ Complete(i, "CANCELLED")
     /\ SettleIf(i, {"create", "cleanup"})
     /\ DokanFreeIrpEntry(rentry[r])
     /\ rentry' = [rentry EXCEPT ![r] = None]
     /\ rpc' = [rpc EXCEPT ![r] = "idle"]
     /\ UNCHANGED <<dispatchVars, irpVars, cancelVars, notEmpty, serial,
                    unmount, events, rserial, resets>>

\* A capped timeout lies in the future, and comes.
DokanResetPendingIrpTimeout(s) ==
  /\ Unlocked("PendingIrp")
  /\ resets < MaxResets
  /\ resets' = resets + 1
  /\ entry' = [e \in Entry |-> IF e \in Matching(s)
                               THEN [entry[e] EXCEPT !.tick = "future"]
                               ELSE entry[e]]
  /\ UNCHANGED <<dispatchVars, irpVars, doneVars, cancelVars, notEmpty, serial,
                 unmount, events, rpc, rserial, rentry>>
-----------------------------------------------------------------------------
(***************************************************************************)
(* The timeout scanner, one for the driver.                                *)
(***************************************************************************)
\* Time passes: KeQueryTickCount reaches the entry's TickCount.
Expire(e) ==
  /\ entry[e].at = "PendingIrp"
  /\ entry[e].tick = "future"
  /\ entry' = [entry EXCEPT ![e].tick = "past"]
  /\ UNCHANGED <<dispatchVars, irpVars, doneVars, cancelVars, notEmpty, serial,
                 unmount, libraryVars>>

\* Altered form: the tick count is not looked at.
ExpiredAsyncOnly == {e \in At("PendingIrp") : entry[e].async # "SUCCESS"}

Expired == {e \in At("PendingIrp") :
              entry[e].async # "SUCCESS" \/ entry[e].tick # "future"}

\* ReleaseTimeoutPendingIrp under the list's lock ...
ScanCollect ==
  /\ Unlocked("PendingIrp")
  /\ At("timedOut") = {}
  /\ Expired # {}
  /\ TakeOut(Expired, "timedOut")
  /\ ClearContexts(Expired)
  /\ UNCHANGED <<dispatchVars, cancel, marked, doneVars, cancelVars, notEmpty,
                 serial, unmount, libraryVars>>

\* Altered form: a cleanup is executed and then not completed.
ScanCompleteSkipsCleanup(e) ==
  LET i == entry[e].irp
  IN /\ entry[e].at = "timedOut"
     /\ IF Kind[i] = "cleanup" THEN UNCHANGED result
        ELSE Complete(i, "INSUFFICIENT_RESOURCES")
     /\ SettleIf(i, {"create", "cleanup"})
     /\ DokanFreeIrpEntry(e)
     /\ UNCHANGED <<dispatchVars, irpVars, cancelVars, notEmpty, serial,
                    unmount, libraryVars>>

\* Altered form: DokanExecuteCleanup is left out.
ScanCompleteSkipsExecute(e) ==
  LET i == entry[e].irp
  IN /\ entry[e].at = "timedOut"
     /\ Complete(i, "INSUFFICIENT_RESOURCES")
     /\ SettleIf(i, {"create"})
     /\ DokanFreeIrpEntry(e)
     /\ UNCHANGED <<dispatchVars, irpVars, cancelVars, notEmpty, serial,
                    unmount, libraryVars>>

\* ... and its completion loop.  DokanCancelCreateIrp of a create;
\* DokanExecuteCleanup of a cleanup.
ScanComplete(e) ==
  LET i == entry[e].irp
  IN /\ entry[e].at = "timedOut"
     /\ Complete(i, IF Kind[i] = "create" /\ entry[e].tick = "zero"
                    THEN "CANCELLED" ELSE "INSUFFICIENT_RESOURCES")
     /\ SettleIf(i, {"create", "cleanup"})
     /\ DokanFreeIrpEntry(e)
     /\ UNCHANGED <<dispatchVars, irpVars, cancelVars, notEmpty, serial,
                    unmount, libraryVars>>
-----------------------------------------------------------------------------
\* MoveIrpList, the start of ReleasePendingIrp and RetryIrps.  It leaves
\* DriverContext alone.
MoveIrpList(l, dest) ==
  /\ Unlocked(l)
  /\ TakeOut(At(l), dest)
  /\ notEmpty' = (notEmpty /\ l # "PendingRetryIrp")

\* DokanEventRelease claims the release and sets the unmount-pending flags.
ReleaseClaim ==
  /\ unmount = "mounted"
  /\ unmount' = "flagged"
  /\ UNCHANGED <<dispatchVars, irpVars, doneVars, cancelVars, entry, notEmpty,
                 serial, libraryVars>>

\* ReleasePendingIrp(&dcb->PendingIrp), then (&dcb->PendingRetryIrp)
ReleaseMove ==
  /\ At("releasing") = {}
  /\ \/ /\ unmount = "flagged"
        /\ unmount' = "drained"
        /\ MoveIrpList("PendingIrp", "releasing")
     \/ /\ unmount = "drained"
        /\ unmount' = "released"
        /\ MoveIrpList("PendingRetryIrp", "releasing")
  /\ UNCHANGED <<dispatchVars, cancel, marked, context, doneVars, cancelVars,
                 serial, libraryVars>>

ReleaseComplete(e) ==
  LET i == entry[e].irp
  IN /\ entry[e].at = "releasing"
     /\ DokanFreeIrpEntry(e)
     /\ SettleIf(i, {"cleanup"})
     /\ Complete(i, "CANCELLED")
     /\ UNCHANGED <<dispatchVars, irpVars, cancelVars, notEmpty, serial,
                    unmount, libraryVars>>
-----------------------------------------------------------------------------
(***************************************************************************)
(* RetryIrps, run by the notification thread, which dispatches one create  *)
(* after the other and stops after ReleasePendingIrp.                      *)
(***************************************************************************)
Redispatching ==
  \E i \in Irp : \/ dpc[i] = "redispatch"
                 \/ /\ path[i] = "redispatch"
                    /\ dpc[i] \in {"register", "allocated", "set", "notify"}

RetryMove ==
  /\ notEmpty
  /\ At("retrying") = {}
  /\ ~Redispatching
  /\ unmount # "released"
  /\ MoveIrpList("PendingRetryIrp", "retrying")
  /\ UNCHANGED <<dispatchVars, cancel, marked, context, doneVars, cancelVars,
                 serial, unmount, libraryVars>>

RetryDispatch(e) ==
  /\ entry[e].at = "retrying"
  /\ ~Redispatching
  /\ DokanFreeIrpEntry(e)
  /\ dpc' = [dpc EXCEPT ![entry[e].irp] = "redispatch"]
  /\ UNCHANGED <<path, breaks, regEntry, eventSerial, irpVars, doneVars,
                 cancelVars, notEmpty, serial, unmount, libraryVars>>
-----------------------------------------------------------------------------
Dispatching(i) ==
  \/ DispatchUnmounted(i) \/ DispatchToRegister(i) \/ DispatchToOplock(i)
  \/ OplockBroken(i) \/ OplockFailed(i)
  \/ RegisterRefused(i) \/ RegisterAllocate(i) \/ RegisterUnmounted(i)
  \/ RegisterSetRoutine(i) \/ RegisterBackOut(i) \/ RegisterInsert(i)
  \/ Notify(i)

Cancelling(i) ==
  \/ IoCancelTake(i) \/ CancelReadEntry(i)
  \/ CreateCancelMark(i) \/ CreateCancelForce(i)
  \/ IrpCancelUnlink(i) \/ IrpCancelComplete(i)

Replying(r) ==
  \/ ReplyNoMatch(r) \/ ReplyTake(r)
  \/ ReplyAbandon(r) \/ ReplyAccept(r) \/ ReplyComplete(r)

Next ==
  \/ \E i \in Irp : Dispatching(i) \/ IoCancelIrp(i) \/ Cancelling(i)
  \/ \E r \in Replier : ReplyStart(r) \/ Replying(r)
  \/ \E s \in events : DokanResetPendingIrpTimeout(s)
  \/ \E e \in Entry : Expire(e) \/ ScanComplete(e) \/ ReleaseComplete(e)
                      \/ RetryDispatch(e)
  \/ ScanCollect
  \/ ReleaseClaim
  \/ ReleaseMove
  \/ RetryMove

Spec == Init /\ [][Next]_vars

\* Every kernel thread goes on: dispatching threads, the completion of an
\* oplock break (its owner acknowledges or the wait fails), the cancel
\* routines, a reply that has begun, the scanner's periodic timer, the
\* unmount once claimed, the notification thread.  Time passes.  The library
\* does not have to answer, and nobody has to cancel or to unmount.
Fairness ==
  /\ \A i \in Irp : WF_vars(Dispatching(i)) /\ WF_vars(Cancelling(i))
  /\ \A r \in Replier : WF_vars(Replying(r))
  /\ \A e \in Entry : /\ WF_vars(Expire(e))
                      /\ WF_vars(ScanComplete(e))
                      /\ WF_vars(ReleaseComplete(e))
                      /\ WF_vars(RetryDispatch(e))
  /\ WF_vars(ScanCollect)
  /\ WF_vars(ReleaseMove)
  /\ WF_vars(RetryMove)

FairSpec == Spec /\ Fairness
-----------------------------------------------------------------------------
Status == {"SUCCESS", "NO_SUCH_DEVICE", "INSUFFICIENT_RESOURCES", "CANCELLED",
           "OPLOCK_FAILURE", "ANSWER"}

\* Where an entry can be besides the lists; "gone" is nowhere: left to the
\* cancel routine, or lost.
Places == {"free", "register", "releasing", "retrying", "timedOut", "reply",
           "gone"}

EntryType ==
  [irp : Irp \cup {None}, at : Lists \cup Places, list : Lists \cup {None},
   serial : Nat, async : Status, tick : {"future", "past", "zero"},
   forced : BOOLEAN, freeMemory : BOOLEAN, nulled : BOOLEAN]

(* Types of the driver's and the library's state. *)
TypeOK ==
  /\ dpc \in [Irp -> {"new", "redispatch", "oplock", "register", "allocated",
                      "set", "notify", "pended", "failed", "dropped"}]
  /\ path \in [Irp -> {"dispatch", "redispatch", "oplock", "retry", "async"}]
  /\ breaks \in [Irp -> Nat]
  /\ regEntry \in [Irp -> Entry \cup {None}]
  /\ eventSerial \in [Irp -> Nat]
  /\ cancel \in [Irp -> BOOLEAN]
  /\ routine \in [Irp -> BOOLEAN]
  /\ marked \in [Irp -> BOOLEAN]
  /\ context \in [Irp -> Entry \cup {None}]
  /\ result \in [Irp -> Seq(Status)]
  /\ settled \in [Irp -> Nat]
  /\ cpc \in [Irp -> {"idle", "flagged", "called", "holding", "marked",
                      "unlinked", "unowned", "over"}]
  /\ holds \in [Irp -> Entry \cup {None}]
  /\ entry \in [Entry -> EntryType]
  /\ notEmpty \in BOOLEAN
  /\ serial \in Nat
  /\ unmount \in {"mounted", "flagged", "drained", "released"}
  /\ events \subseteq Nat
  /\ rpc \in [Replier -> {"idle", "search", "complete", "answer", "force", "closed"}]
  /\ rserial \in [Replier -> Nat]
  /\ rentry \in [Replier -> Entry \cup {None}]
  /\ resets \in Nat

Completed(i) == result[i] # <<>>

(* No IRP is completed twice, whichever of the reply, the scanner, the     *)
(* cancel routine, the unmount and the refused registration race for it.   *)
CompletedOnce == \A i \in Irp : Len(result[i]) <= 1

(* The DokanExecuteCleanup of a cleanup and the completion or back-out of  *)
(* a create run at most once: both undo reference counts.                  *)
SettledOnce == \A i \in Irp : settled[i] <= 1

Listed == {e \in Entry : entry[e].at \in Lists}
InHand == {e \in Entry : entry[e].at \in {"releasing", "retrying", "timedOut", "reply"}}

(* No use of a freed or recycled entry: the entry a cancel routine has     *)
(* read from the IRP without a lock is still that IRP's, and the entries   *)
(* in the lists and on their way to completion are allocated.              *)
EntryValid ==
  /\ \A i \in Irp : holds[i] # None => entry[holds[i]].irp = i
  /\ \A i \in Irp : regEntry[i] # None => entry[regEntry[i]].irp = i
  /\ \A e \in Listed \cup InHand :
       entry[e].irp # None /\ ~entry[e].nulled /\ ~entry[e].freeMemory

(* "Once DokanEventRelease has set the unmount-pending flag and canceled   *)
(* all IRPs, any IRP added to those list will never be completed":         *)
(* RegisterPendingIrpMain adds none.                                       *)
DrainedStaysEmpty ==
  /\ unmount \in {"drained", "released"} => At("PendingIrp") = {}
  /\ unmount = "released" => At("PendingRetryIrp") = {}

\* No cancel routine runs or can be started.
Quiet(i) == ~routine[i] /\ cpc[i] \in {"idle", "flagged", "over"}
Registered(i) == dpc[i] \in {"notify", "pended"}

EntryOwnership(e) ==
  LET x == entry[e]
      i == entry[e].irp
  IN /\ (x.irp = None) <=> (x.at = "free")
     /\ x.at = "register" => regEntry[i] = e /\ dpc[i] \in {"allocated", "set"}
     /\ x.at \in Lists => x.at = x.list /\ Registered(i) /\ result[i] = <<>>
     /\ e \in InHand => Quiet(i) /\ Registered(i) /\ result[i] = <<>>
     /\ x.at = "gone" => ~routine[i] /\ Registered(i)
     /\ x.forced => cpc[i] = "over" /\ x.irp # None
     /\ (x.nulled \/ x.freeMemory) => x.at = "gone"

HeldBy(i, e) == e \in Entry /\ entry[e].irp = i /\ ~entry[e].nulled

IrpOwnership(i) ==
  /\ dpc[i] \in {"new", "redispatch", "oplock", "register"}
       => Quiet(i) /\ result[i] = <<>> /\ \A e \in Entry : entry[e].irp # i
  /\ dpc[i] = "allocated" => Quiet(i)
  /\ dpc[i] \in {"allocated", "set"}
       => /\ HeldBy(i, regEntry[i])
          /\ entry[regEntry[i]].at = "register"
          /\ entry[regEntry[i]].list = ListOf(i)
          /\ result[i] = <<>>
  /\ routine[i] => /\ HeldBy(i, context[i])
                   /\ result[i] = <<>>
                   /\ cpc[i] \in {"idle", "flagged", "over"}
  /\ cpc[i] = "called" => ~routine[i] /\ HeldBy(i, context[i])
  /\ cpc[i] \in {"holding", "marked"} => ~routine[i] /\ HeldBy(i, holds[i])
  /\ cpc[i] \in {"called", "holding"} /\ Kind[i] # "create"
       => result[i] = <<>>
  /\ cpc[i] = "unlinked"
       => /\ ~routine[i] /\ Registered(i) /\ result[i] = <<>>
          /\ \A e \in Entry : entry[e].irp = i => entry[e].nulled
  /\ cpc[i] # "unowned"
  /\ holds[i] # None => cpc[i] \in {"holding", "marked"}
  /\ regEntry[i] # None => dpc[i] \in {"allocated", "set"}
  /\ Len(result[i]) <= 1
  /\ settled[i] <= Len(result[i])

(* Who owns a request.  At any time at most one of the dispatching thread, *)
(* the list it is in, the thread that took it out, and the cancel routine  *)
(* is entitled to complete it; at most one entry is allocated for it; and  *)
(* the entry a cancel routine was or will be given is that entry.          *)
Ownership ==
  /\ \A e, f \in Entry :
       (entry[e].irp = entry[f].irp /\ entry[e].irp # None) => e = f
  /\ \A e \in Entry : EntryOwnership(e)
  /\ \A i \in Irp : IrpOwnership(i)
  /\ \A r \in Replier :
       /\ rpc[r] \in {"complete", "answer", "force"} => rentry[r] \in Entry
       /\ rentry[r] # None => entry[rentry[r]].at = "reply"
       /\ \A q \in Replier : (rentry[q] = rentry[r] /\ rentry[r] # None) => q = r

\* Somebody will complete IRP i, or has.
InDispatch(i) == dpc[i] \in {"new", "redispatch", "oplock", "register",
                             "allocated", "set"}
InList(i) == \E e \in Listed : entry[e].irp = i
InTransit(i) == \E e \in InHand : entry[e].irp = i
InCancelRoutine(i) == /\ Kind[i] # "create"
                      /\ cpc[i] \in {"called", "holding", "unlinked", "unowned"}
Orphaned(i) == ~(InDispatch(i) \/ InList(i) \/ InTransit(i)
                 \/ InCancelRoutine(i) \/ Completed(i))

(* While the volume stays mounted an IRP is orphaned (nobody is left to    *)
(* complete it) only when it is a create that was cancelled, or one whose  *)
(* registration after an oplock break was refused.                         *)
OrphanedOnlyThen ==
  \A i \in Irp : Orphaned(i) => \/ IsUnmountPendingVcb
                                \/ Kind[i] = "create" /\ cancel[i]
                                \/ dpc[i] = "dropped"

(* A completed cleanup or create has settled its effect on the file object *)
(* unless the volume was unmounted, or a cleanup was refused registration. *)
SettledUnlessUnmounted ==
  \A i \in Irp : (Completed(i) /\ Kind[i] # "other" /\ settled[i] = 0)
                   => \/ IsUnmountPendingVcb
                      \/ Kind[i] = "cleanup" /\ dpc[i] = "failed"

\* The requests whose answer has passed the second unmount check.
Accepted == {entry[rentry[r]].irp : r \in {q \in Replier : rpc[q] = "answer"}}

Contract ==
  INSTANCE RequestContract WITH status <- result, effect <- settled,
                                cancelled <- cancel, accepted <- Accepted,
                                closing <- IsUnmountPendingVcb

(* The driver keeps its contract with the I/O manager (RequestContract):   *)
(* one completion, with a status there was reason for, the library's       *)
(* answer when and only when it was accepted while the volume was mounted, *)
(* and the effect on the file object together with the completion, however *)
(* the reply, the scanner, the cancel routines, the unmount and the        *)
(* registration race.                                                      *)
ContractKept == Contract!Spec

(* A request in one of the lists does not stay there for ever, whether or  *)
(* not the library answers: it is completed, or is one of the orphans that *)
(* OrphanedOnlyThen describes.                                             *)
ListedIsAnswered == \A i \in Irp : InList(i) ~> (Completed(i) \/ Orphaned(i))
-----------------------------------------------------------------------------
(***************************************************************************)
(* What comments in the code promise and the code does not keep.           *)
(***************************************************************************)

(* MoveIrpList forwards a create whose cancel routine ran "so the caller   *)
(* can complete the IRP rather than leaving it permanently orphaned", and  *)
(* DokanCompleteIrp does likewise: no cancelled create of a mounted volume *)
(* is orphaned once it was registered.                                     *)
CancelledCreateNotOrphaned ==
  \A i \in Irp : (Kind[i] = "create" /\ cancel[i] /\ Orphaned(i))
                   => IsUnmountPendingVcb \/ dpc[i] = "dropped"

(* DokanCompleteIrp will "search corresponding pending IRP and complete    *)
(* it": a request that nobody cancelled is not orphaned once registered.   *)
AnsweredIsCompleted ==
  \A i \in Irp : (Orphaned(i) /\ ~cancel[i]) => dpc[i] = "dropped"

(* DokanOplockComplete queues the IRP if the break succeeded, "Otherwise   *)
(* we complete the Irp": after an oplock break no IRP is dropped.          *)
OplockCompleteQueuesOrCompletes ==
  \A i \in Irp : path[i] = "oplock" => dpc[i] # "dropped"

(* A lookup that finds a cancelled entry says "This IRP is already         *)
(* canceled; just discard it": an entry without IRP is still in its list,  *)
(* where the next search frees it.                                         *)
CancelledEntryStaysListed ==
  \A e \in Entry : entry[e].nulled => e \in Listed

(* DokanRetryCreateAfterOplockBreak queues a failed create "to get failed  *)
(* asynchronously by calling DokanCompleteCreate in a safe context".       *)
AsyncFailureRunsCompleteCreate ==
  \A i \in Irp : (path[i] = "async" /\ Completed(i)) => settled[i] = 1

(* ReleaseTimeoutPendingIrp handles a failed async operation "as if it had *)
(* timed out but use the status" the operation failed with.                *)
AsyncFailureStatusUsed ==
  \A i \in Irp :
    (path[i] = "async" /\ Completed(i) /\ ~cancel[i] /\ ~IsUnmountPendingVcb)
      => result[i] = <<"OPLOCK_FAILURE">>

(* "Cleanup must be success in any case": a completed cleanup has run      *)
(* DokanExecuteCleanup.                                                    *)
CleanupAlwaysExecuted ==
  \A i \in Irp : (Kind[i] = "cleanup" /\ Completed(i)) => settled[i] = 1

(* A registration that meets a cancelled IRP can "safely abort the pending *)
(* registration and return immediately": a dispatch that marked the IRP    *)
(* pending returns STATUS_PENDING, as the I/O manager requires.            *)
MarkedReturnsPending ==
  \A i \in Irp : (dpc[i] = "failed" /\ path[i] = "dispatch") => ~marked[i]
=============================================================================
