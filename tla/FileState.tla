----------------------------- MODULE FileState -----------------------------
(***************************************************************************)
(* What the driver remembers of one open file beside the application: the  *)
(* file size of the FCB header, the delete-pending flag, the position of   *)
(* each file object, and the content of a write that is too large for an   *)
(* event.  Requests of several file objects are served by several threads  *)
(* of the library, so events are handled and replies completed in any      *)
(* order.  Module FileHandles has the FCB and its handles; here the file   *)
(* is open throughout.                                                     *)
(***************************************************************************)
EXTENDS Integers, FiniteSets, FiniteSetsExt

CONSTANTS
  Handle,      \* file objects, opened for synchronous I/O
  NoHandle,    \* the file object of no request
  Request,     \* requests that can be under way at once
  Kinds,       \* the kinds of request issued
  Offset,      \* offsets and sizes requesters name
  Sizes,       \* sizes the file may have at first
  MaxRequests  \* bound on the requests of a behaviour

ASSUME FileStateAssumption ==
  Offset \subseteq Nat /\ Sizes \subseteq Nat /\ MaxRequests \in Nat

VARIABLES
  req,                \* [Request -> IRP and event of the request]
  CurrentByteOffset,  \* [Handle -> position of the file object]
  FileSize,           \* FileSize of the FCB header
  deletePending,      \* DOKAN_FCB_STATE_DELETE_PENDING
  appSize,            \* the size of the file, as the application has it
  appDelete,          \* the last disposition the application accepted
  issued,             \* requests issued so far
  stale,              \* history: FileSize is not known to be the size
  mixed               \* history: dispositions were not applied in order

vars == <<req, CurrentByteOffset, FileSize, deletePending, appSize, appDelete,
          issued, stale, mixed>>

WriteToEndOfFile == -1          \* FILE_WRITE_TO_END_OF_FILE
UseFilePointerPosition == -2    \* FILE_USE_FILE_POINTER_POSITION
Length == 2                     \* bytes of every transfer
InitialFileSize == 4096         \* what DokanInitializeFcb puts into the header

\* kinds that change the size, or report it
SizeKind == {"write", "eof", "query"}

NoRequest ==
  [kind |-> "none", handle |-> NoHandle, irp |-> "none",
   dll |-> "none", ByteOffset |-> 0, paging |-> FALSE, large |-> "none",
   frees |-> 0, arg |-> FALSE, Status |-> "FAILED", end |-> 0,
   BufferLength |-> 0, overlap |-> FALSE, gaveUp |-> FALSE]

Init ==
  /\ req = [r \in Request |-> NoRequest]
  /\ CurrentByteOffset = [h \in Handle |-> 0]
  /\ FileSize = InitialFileSize
  /\ deletePending = FALSE
  /\ appSize \in Sizes
  /\ appDelete = FALSE
  /\ issued = 0
  /\ stale = TRUE
  /\ mixed = FALSE

Active(r) == req[r].irp = "pending" \/ req[r].dll # "none"

\* A query and a change of the size, or two dispositions
Related(k, l) ==
  \/ k = "query" /\ l \in {"write", "eof"}
  \/ l = "query" /\ k \in {"write", "eof"}
  \/ k = "dispose" /\ l = "dispose"

\* Request q enters slot r: requests on the same state overlap from now on
Entered(r, q) ==
  [s \in Request |->
     IF s = r
     THEN [q EXCEPT !.overlap = \E t \in Request : Active(t) /\ Related(req[t].kind, q.kind)]
     ELSE [req[s] EXCEPT !.overlap = @ \/ (Active(s) /\ Related(req[s].kind, q.kind))]]

(* ---- the driver's dispatch routines ---- *)

\* The I/O manager lets one request of a synchronous file object run at a
\* time; paging I/O is not the file object's
MayIssue(r, h, k, paging) ==
  /\ k \in Kinds
  /\ issued < MaxRequests
  /\ req[r].irp = "none" /\ req[r].dll = "none"
  /\ paging \/ \A s \in Request : req[s].irp = "pending" /\ req[s].handle = h => req[s].paging

\* What is left of request q when it is over on both sides
Over(q) == [NoRequest EXCEPT !.irp = "done", !.large = q.large, !.frees = q.frees,
                             !.gaveUp = q.gaveUp]

\* DokanRegisterPendingIrp queues the event, or fails and leaves the IRP to
\* its caller; the content kept for a large write stays in its DriverContext
Register(r, q) ==
  /\ \/ req' = Entered(r, [q EXCEPT !.irp = "pending", !.dll = "queued"])
     \/ req' = [req EXCEPT ![r] = [Over(q) EXCEPT !.gaveUp = TRUE]]
  /\ issued' = issued + 1

\* DokanDispatchRead: at the given offset, or at the position
DokanDispatchRead(r, h) ==
  /\ MayIssue(r, h, "read", FALSE)
  /\ \E off \in Offset \cup {UseFilePointerPosition} :
       Register(r, [NoRequest EXCEPT !.kind = "read", !.handle = h,
                      !.ByteOffset = IF off = UseFilePointerPosition
                                     THEN CurrentByteOffset[h] ELSE off])
  /\ UNCHANGED <<CurrentByteOffset, FileSize, deletePending, appSize, appDelete,
                 stale, mixed>>

\* The event of a write: at the given offset, at the position or at the end of
\* the file.  An event larger than EVENT_CONTEXT_MAX_SIZE is kept in the
\* DriverContext, and one without the content is sent.
WriteRequest(h, off, paging, big) ==
  [NoRequest EXCEPT !.kind = "write", !.handle = h, !.paging = paging,
     !.ByteOffset = IF off = UseFilePointerPosition THEN CurrentByteOffset[h] ELSE off,
     !.large = IF big THEN "held" ELSE "none"]

\* What is left of write q when the oplock package refuses it or there is no
\* memory for the second event: the content is freed at once
WriteRefused(q) ==
  [Over(q) EXCEPT !.large = IF q.large = "held" THEN "freed" ELSE q.large,
                  !.frees = IF q.large = "held" THEN 1 ELSE 0]

\* DokanDispatchWrite; paging I/O is not checked against oplocks, and "cannot
\* write at end of the file": that is done at once, without effect
DokanDispatchWrite(r, h) ==
  \E off \in Offset \cup {UseFilePointerPosition, WriteToEndOfFile},
     paging \in BOOLEAN, big \in BOOLEAN :
    /\ MayIssue(r, h, "write", paging)
    /\ paging => off # UseFilePointerPosition
    /\ \/ /\ ~(paging /\ off = WriteToEndOfFile)
          /\ Register(r, WriteRequest(h, off, paging, big))
       \/ /\ ~(paging /\ off = WriteToEndOfFile)
          /\ big \/ ~paging
          /\ req' = [req EXCEPT ![r] = WriteRefused(WriteRequest(h, off, paging, big))]
          /\ issued' = issued + 1
       \/ /\ paging /\ off = WriteToEndOfFile
          /\ issued' = issued + 1
          /\ UNCHANGED req
    /\ UNCHANGED <<CurrentByteOffset, FileSize, deletePending, appSize, appDelete,
                   stale, mixed>>

\* DokanDispatchQueryInformation of a class that reports the size
DokanDispatchQueryInformation(r, h) ==
  /\ MayIssue(r, h, "query", FALSE)
  /\ Register(r, [NoRequest EXCEPT !.kind = "query", !.handle = h])
  /\ UNCHANGED <<CurrentByteOffset, FileSize, deletePending, appSize, appDelete,
                 stale, mixed>>

\* DokanDispatchSetInformation: the position is the driver's alone
SetPosition(r, h) ==
  /\ MayIssue(r, h, "position", FALSE)
  /\ \E p \in Offset : CurrentByteOffset' = [CurrentByteOffset EXCEPT ![h] = p]
  /\ issued' = issued + 1
  /\ UNCHANGED <<req, FileSize, deletePending, appSize, appDelete, stale, mixed>>

\* ... an end of file goes to the library
SetEndOfFile(r, h) ==
  /\ MayIssue(r, h, "eof", FALSE)
  /\ \E n \in Offset : Register(r, [NoRequest EXCEPT !.kind = "eof", !.handle = h,
                                                     !.ByteOffset = n])
  /\ UNCHANGED <<CurrentByteOffset, FileSize, deletePending, appSize, appDelete,
                 stale, mixed>>

\* ... and so does a disposition, unless the FCB has it already
SetDisposition(r, h) ==
  /\ MayIssue(r, h, "dispose", FALSE)
  /\ \E delete \in BOOLEAN :
       \/ /\ delete = deletePending
          /\ issued' = issued + 1
          /\ UNCHANGED req
       \/ /\ delete # deletePending
          /\ Register(r, [NoRequest EXCEPT !.kind = "dispose", !.handle = h,
                                           !.arg = delete])
  /\ UNCHANGED <<CurrentByteOffset, FileSize, deletePending, appSize, appDelete,
                 stale, mixed>>

(* ---- the library and the application ---- *)

\* Altered form: the content stays in the DriverContext
EventWriteKeepsContext(q) == [q EXCEPT !.dll = "handling", !.frees = @ + 1]

\* DokanEventWrite on a pending write: the content is copied out and freed.  The
\* library's buffer has the RequestLength of the event, so it is never too small.
DokanEventWrite(q) ==
  [q EXCEPT !.dll = "handling", !.large = "freed", !.frees = @ + 1]

\* SendWriteRequest: the content of a large write is fetched.  It fails when
\* the library has no memory for it or the IRP is gone (STATUS_CANCELLED).
SendWriteRequest(r) ==
  /\ req[r].dll = "queued" /\ req[r].large # "none"
  /\ \/ /\ req[r].irp = "pending"
        /\ req' = [req EXCEPT ![r] = DokanEventWrite(@)]
     \/ req' = [req EXCEPT ![r] = [@ EXCEPT !.dll = "reply", !.gaveUp = TRUE]]
  /\ UNCHANGED <<CurrentByteOffset, FileSize, deletePending, appSize, appDelete,
                 issued, stale, mixed>>

\* The event is ready for its callback
Ready(r) == req[r].dll = "handling" \/ (req[r].dll = "queued" /\ req[r].large = "none")

\* The reply of r, with status and the end of the transfer as the library
\* computes it from the event
Reply(r, end, length) ==
  req' = [req EXCEPT ![r] = [@ EXCEPT !.dll = "reply", !.Status = "SUCCESS",
                               !.end = end, !.BufferLength = length]]

\* DispatchRead: reading nothing is the end of the file
DispatchRead(r) ==
  /\ req[r].kind = "read" /\ Ready(r)
  /\ LET off == req[r].ByteOffset
         n == IF off < appSize THEN Min({Length, appSize - off}) ELSE 0
     IN IF n = 0 THEN req' = [req EXCEPT ![r].dll = "reply"]
        ELSE Reply(r, off + n, n)
  /\ UNCHANGED <<CurrentByteOffset, FileSize, deletePending, appSize, appDelete,
                 issued, stale, mixed>>

\* DispatchWrite: the application appends when the event says so and does not
\* let paging I/O extend the file; it may write nothing and call it a success.
\* The library adds the length to the offset of the event, which is -1 for an
\* append.
DispatchWrite(r) ==
  /\ req[r].kind = "write" /\ Ready(r)
  /\ LET off == IF req[r].ByteOffset = WriteToEndOfFile THEN appSize
                ELSE req[r].ByteOffset
         most == IF req[r].paging THEN Max({0, Min({Length, appSize - off})}) ELSE Length
     IN \E n \in {0, most} :
          LET size == IF n = 0 THEN appSize ELSE Max({appSize, off + n})
          IN /\ Reply(r, req[r].ByteOffset + n, n)
             /\ appSize' = size
             /\ stale' = (stale \/ (size # appSize /\
                            (req[r].ByteOffset = WriteToEndOfFile \/ req[r].irp # "pending")))
  /\ UNCHANGED <<CurrentByteOffset, FileSize, deletePending, appDelete, issued, mixed>>

\* DispatchQueryInformation: the size in the reply
DispatchQueryInformation(r) ==
  /\ req[r].kind = "query" /\ Ready(r)
  /\ Reply(r, appSize, 0)
  /\ UNCHANGED <<CurrentByteOffset, FileSize, deletePending, appSize, appDelete,
                 issued, stale, mixed>>

\* DokanSetEndOfFileInformation
DokanSetEndOfFileInformation(r) ==
  /\ req[r].kind = "eof" /\ Ready(r)
  /\ Reply(r, 0, 0)
  /\ appSize' = req[r].ByteOffset
  /\ stale' = (stale \/ appSize' # appSize)
  /\ UNCHANGED <<CurrentByteOffset, FileSize, deletePending, appDelete, issued,
                 mixed>>

\* DokanSetDispositionInformation: DeleteFile accepts the disposition
DokanSetDispositionInformation(r) ==
  /\ req[r].kind = "dispose" /\ Ready(r)
  /\ Reply(r, 0, 0)
  /\ appDelete' = req[r].arg
  /\ mixed' = (mixed \/ req[r].irp # "pending")
  /\ UNCHANGED <<CurrentByteOffset, FileSize, deletePending, appSize, issued,
                 stale>>

\* A callback that is missing or fails (a read-only file refuses its deletion)
CallbackFails(r) ==
  /\ Ready(r)
  /\ req' = [req EXCEPT ![r].dll = "reply"]
  /\ UNCHANGED <<CurrentByteOffset, FileSize, deletePending, appSize, appDelete,
                 issued, stale, mixed>>

(* ---- the completion routines ---- *)

Done(r) == [req EXCEPT ![r] = Over(@)]

\* r is over; a write between its check and its exchange is overtaken
Exchanged(r) ==
  [s \in Request |-> IF s = r THEN Over(req[s])
                     ELSE [req[s] EXCEPT !.overlap = @ \/ req[s].dll = "resize"]]

Completing(r, k) == req[r].kind = k /\ req[r].irp = "pending" /\ req[r].dll = "reply"

\* Altered form: a transfer of no bytes moves the position too
MovedByNothing(r) ==
  CurrentByteOffset' =
    IF req[r].Status = "SUCCESS" /\ ~req[r].paging
    THEN [CurrentByteOffset EXCEPT ![req[r].handle] = req[r].end]
    ELSE CurrentByteOffset

\* The position follows a transfer that is not paging I/O
Moved(r) ==
  CurrentByteOffset' =
    IF req[r].Status = "SUCCESS" /\ req[r].BufferLength # 0 /\ ~req[r].paging
    THEN [CurrentByteOffset EXCEPT ![req[r].handle] = req[r].end]
    ELSE CurrentByteOffset

DokanCompleteRead(r) ==
  /\ Completing(r, "read")
  /\ Moved(r)
  /\ req' = Done(r)
  /\ UNCHANGED <<FileSize, deletePending, appSize, appDelete, issued, stale, mixed>>

\* "Check if file size changed"
Grew(r) == req[r].Status = "SUCCESS" /\ FileSize < req[r].end

\* DokanCompleteWrite, up to the exchange of FileSize: the check and the
\* exchange are not one step
CompleteWriteCheck(r) ==
  /\ Completing(r, "write") /\ Grew(r)
  /\ req' = [req EXCEPT ![r].dll = "resize"]
  /\ UNCHANGED <<CurrentByteOffset, FileSize, deletePending, appSize, appDelete,
                 issued, stale, mixed>>

\* DokanCompleteWrite from there on
DokanCompleteWrite(r) ==
  /\ \/ /\ Completing(r, "write") /\ ~Grew(r)
        /\ req' = Done(r)
        /\ UNCHANGED <<FileSize, stale>>
     \/ /\ req[r].kind = "write" /\ req[r].dll = "resize"
        /\ FileSize' = req[r].end
        /\ req' = Exchanged(r)
        /\ stale' = (stale \/ req[r].overlap \/ req[r].BufferLength = 0)
  /\ Moved(r)
  /\ UNCHANGED <<deletePending, appSize, appDelete, issued, mixed>>

\* Altered form: the size of the reply is only taken when it is larger
SizeKeptLarger(r) == Max({FileSize, req[r].end})

\* DokanCompleteQueryInformation exchanges the size for the one of the reply
SizeReported(r) == req[r].end

DokanCompleteQueryInformation(r) ==
  /\ Completing(r, "query")
  /\ IF req[r].Status = "SUCCESS"
     THEN /\ FileSize' = SizeReported(r)
          /\ stale' = req[r].overlap
     ELSE UNCHANGED <<FileSize, stale>>
  /\ req' = Exchanged(r)
  /\ UNCHANGED <<CurrentByteOffset, deletePending, appSize, appDelete, issued,
                 mixed>>

\* DokanCompleteSetInformation of an end of file only notifies
CompleteSetEndOfFile(r) ==
  /\ Completing(r, "eof")
  /\ req' = Done(r)
  /\ UNCHANGED <<CurrentByteOffset, FileSize, deletePending, appSize, appDelete,
                 issued, stale, mixed>>

\* Altered form: a disposition that takes the deletion back is not applied
FlaggedOnlySet(r) == deletePending \/ req[r].arg

\* The flag after a disposition
Flagged(r) == req[r].arg

\* DokanCompleteSetInformation of a disposition; MmFlushImageSection may refuse
\* what the application has accepted
CompleteSetDisposition(r) ==
  /\ Completing(r, "dispose")
  /\ \/ /\ req[r].Status = "SUCCESS"
        /\ deletePending' = Flagged(r)
        /\ mixed' = (mixed \/ req[r].overlap)
     \/ /\ req[r].Status = "SUCCESS" /\ req[r].arg
        /\ mixed' = TRUE
        /\ UNCHANGED deletePending
     \/ req[r].Status # "SUCCESS" /\ UNCHANGED <<deletePending, mixed>>
  /\ req' = Done(r)
  /\ UNCHANGED <<CurrentByteOffset, FileSize, appSize, appDelete, issued, stale>>

(* ---- requests given up by the driver ---- *)

\* What is lost with the reply of r when it is not applied
Lost(r) ==
  /\ stale' = (stale \/ (req[r].kind \in SizeKind /\ req[r].dll = "reply" /\
                         req[r].Status = "SUCCESS"))
  /\ mixed' = (mixed \/ (req[r].kind = "dispose" /\ req[r].dll = "reply" /\
                         req[r].Status = "SUCCESS"))

\* ReleaseTimeoutPendingIrp, and ReleasePendingIrp at an unmount
TimeOut(r) ==
  /\ req[r].irp = "pending" /\ req[r].dll # "resize"
  /\ req' = [req EXCEPT ![r] = [@ EXCEPT !.irp = "done", !.gaveUp = TRUE]]
  /\ Lost(r)
  /\ UNCHANGED <<CurrentByteOffset, FileSize, deletePending, appSize, appDelete,
                 issued>>

\* DokanIrpCancelRoutine frees the content of a large write
DokanIrpCancelRoutine(r) ==
  /\ req[r].irp = "pending" /\ req[r].dll # "resize"
  /\ req' = [req EXCEPT ![r] =
               [req[r] EXCEPT !.irp = "done",
                              !.large = IF @ = "held" THEN "freed" ELSE @,
                              !.frees = IF req[r].large = "held" THEN @ + 1 ELSE @]]
  /\ Lost(r)
  /\ UNCHANGED <<CurrentByteOffset, FileSize, deletePending, appSize, appDelete,
                 issued>>

\* DokanCompleteIrp finds no IRP for the reply
ReplyDropped(r) ==
  /\ req[r].irp = "done" /\ req[r].dll = "reply"
  /\ req' = Done(r)
  /\ UNCHANGED <<CurrentByteOffset, FileSize, deletePending, appSize, appDelete,
                 issued, stale, mixed>>

\* The request is over on both sides
Retire(r) ==
  /\ req[r].irp = "done" /\ req[r].dll = "none"
  /\ req' = [req EXCEPT ![r] = NoRequest]
  /\ UNCHANGED <<CurrentByteOffset, FileSize, deletePending, appSize, appDelete,
                 issued, stale, mixed>>

Next ==
  \E r \in Request :
    \/ \E h \in Handle :
         \/ DokanDispatchRead(r, h) \/ DokanDispatchWrite(r, h)
         \/ DokanDispatchQueryInformation(r, h) \/ SetPosition(r, h)
         \/ SetEndOfFile(r, h) \/ SetDisposition(r, h)
    \/ SendWriteRequest(r) \/ DispatchRead(r) \/ DispatchWrite(r)
    \/ DispatchQueryInformation(r) \/ DokanSetEndOfFileInformation(r)
    \/ DokanSetDispositionInformation(r) \/ CallbackFails(r)
    \/ DokanCompleteRead(r) \/ CompleteWriteCheck(r) \/ DokanCompleteWrite(r)
    \/ DokanCompleteQueryInformation(r) \/ CompleteSetEndOfFile(r)
    \/ CompleteSetDisposition(r)
    \/ TimeOut(r) \/ DokanIrpCancelRoutine(r) \/ ReplyDropped(r) \/ Retire(r)

Spec == Init /\ [][Next]_vars

(* ---- properties ---- *)

Quiet(K) == \A r \in Request : Active(r) => req[r].kind \notin K

\* Once a query that met no change of the size has been completed, the size in
\* the FCB header, which starts as 4096 and which the cache and the truncation
\* checks of DokanDispatchSetInformation read, is the application's whenever no
\* request on the size is under way, in whatever order overlapping writes are
\* handled and completed.  It is lost by an append, a change of the end of file,
\* a write answered too late or past the end with no bytes written, a query beside
\* a change, and a completion between the check and the exchange of another.
SizeAtRest == Quiet(SizeKind) /\ ~stale => FileSize = appSize

\* The position of a file object is never negative: DokanDispatchQueryInformation
\* refuses to report such a position, and the next write at the position would be
\* an append.  The library replies to an append with an end counted from -1, which
\* the completion must not take over when nothing was written.
PositionNotNegative == \A h \in Handle : CurrentByteOffset[h] >= 0

\* The delete-pending flag that decides at the last cleanup is the disposition
\* the application accepted last, whatever was refused or answered by the
\* driver alone, unless two dispositions overlapped, one timed out after the
\* application had accepted it, or a mapped image kept the driver from following.
DeletePendingAgrees ==
  Quiet({"dispose"}) /\ ~mixed => deletePending = appDelete

\* The content kept for a large write is freed once, by the refused dispatch, the
\* fetch or the cancellation; it is left behind only by a write that was not
\* registered, timed out, or was given up by the library.
LargeContentFreedOnce ==
  \A r \in Request :
    /\ req[r].frees <= 1
    /\ req[r].large = "held" /\ req[r].irp = "done" => req[r].gaveUp

\* write.c:258: "eventContext will be freed later using
\* Irp->Tail.Overlay.DriverContext[DRIVER_CONTEXT_EVENT]": no write is over
\* while its content is still held.
LargeContentFreed ==
  \A r \in Request :
    req[r].irp = "done" /\ req[r].dll = "none" => req[r].large # "held"
=============================================================================
