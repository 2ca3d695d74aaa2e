--------------------------- MODULE RequestReply ---------------------------
(***************************************************************************)
(* The reply path of a request: how many bytes the library writes into an  *)
(* EVENT_INFORMATION, how many of them it ships to the driver, how many    *)
(* the driver copies to the requester, and where the result buffer goes    *)
(* afterwards.  Sizes are bytes and are the ones of the 64-bit build; the  *)
(* contents of a buffer are abstracted to how much of it was written.      *)
(*                                                                         *)
(* A slot holds one request: the IRP in the driver and, when the driver    *)
(* does not answer by itself, the DOKAN_IO_EVENT serving it in the library.*)
(* Matching replies to IRPs is module PendingIrp's, the batches of events  *)
(* and the open-file record are module UserDispatch's.                     *)
(***************************************************************************)
EXTENDS Integers, Sequences, FiniteSets, SequencesExt, FiniteSetsExt

CONSTANTS
  Slot,          \* requests that can be under way at once
  Kind,          \* the kinds of request issued
  Lengths,       \* the buffer lengths requesters provide
  NameLengths,   \* byte lengths of file names, labels and stream names
  NeededLengths, \* byte lengths of security descriptors and reads
  MaxStreams,    \* bound on the streams of a file
  MaxRequests,   \* bound on the requests of a behaviour
  PoolLimit      \* DOKAN_IO_EVENT_POOL_SIZE, the same for every pool here

VARIABLES
  slot,       \* [Slot -> the request in the slot]
  pool,       \* [size class -> stack of the capacities of its buffers]
  openCount,  \* OpenCount of the file's DOKAN_OPEN_INFO
  callbacks,  \* the optional callbacks of the application
  ready,      \* Vcb->HasEventWait: the library asks for events
  label,      \* length of Dcb->VolumeLabel, or NoLabel
  left,       \* Dcb->Resource was never released by the thread that took it
  badUsage,   \* DokanCompleteIrp refused a reply and unmounted the volume
  issued      \* requests issued so far

vars == <<slot, pool, openCount, callbacks, ready, label, left, badUsage, issued>>

(* ---- sizes of public.h and of the information classes ---- *)

BufferOffset == 40
SizeofEventInformation == 48
PoolSizes == <<4096, 16384, 32768, 65536, 131072>>
ClassSize(c) == BufferOffset + PoolSizes[c]

SizeofEventContext == 176
EventContextMaxSize == 32768

FixedSize == [basic |-> 40, standard |-> 24, internal |-> 8,
              attribute_tag |-> 8, network_open |-> 56, id |-> 24,
              size |-> 24, full_size |-> 32]

VolumeKind == {"volume", "size", "full_size", "attribute", "device"}
InfoKind == {"basic", "standard", "internal", "attribute_tag", "network_open",
             "id", "ea", "all", "streams", "not_implemented", "name",
             "position", "physical_name"}
\* Requests without a buffer of the requester
BareKind == {"flush", "lock", "set"}

AllNameOffset == 100
AllSize == 104
LabelOffset == 18
VolumeSize == 24
FsNameOffset == 12
AttributeSize == 16
StreamSize == 32
WcharSize == 2
DefaultLabelLength == 10   \* VOLUME_LABEL
DefaultFsNameLength == 8

NoLabel == -1

NoRequest == [kind |-> "none", Length |-> 0, irp |-> "none", dll |-> "none",
              Size |-> 0, Capacity |-> 0, PoolAllocated |-> FALSE,
              Status |-> "FAILED", BufferLength |-> 0, Written |-> 0,
              Shipped |-> 0, ioStatus |-> "FAILED", Information |-> 0,
              Valid |-> 0, stub |-> FALSE, relabelled |-> FALSE]

Init ==
  /\ slot = [s \in Slot |-> NoRequest]
  /\ pool = [c \in DOMAIN PoolSizes |-> <<>>]
  /\ openCount = 1
  /\ callbacks \in SUBSET {"GetFileInformation", "FindStreams"}
  /\ ready = FALSE
  /\ label = NoLabel
  /\ left = FALSE
  /\ badUsage = FALSE
  /\ issued = 0

(* ---- sys/util/irp_buffer_helper.c, on [ok, Information] ---- *)

\* PrepareOutputWithSize with SetInformationOnFailure = FALSE
PrepareOutput(provided, size) ==
  IF provided < size THEN [ok |-> FALSE, Information |-> 0]
  ELSE [ok |-> TRUE, Information |-> size]

\* Altered form: a string that does not fit is reported in full
AppendUnclamped(provided, Information, destOffset, length, partial) ==
  LET remaining == Information - destOffset
  IN IF length <= remaining THEN [ok |-> TRUE, Information |-> Information]
     ELSE IF Information + length - remaining <= provided
     THEN [ok |-> TRUE, Information |-> Information + length - remaining]
     ELSE [ok |-> FALSE, Information |-> IF partial THEN length + destOffset
                                         ELSE Information]

\* AppendVarSizeOutputString, with ExtendOutputBufferBySize
AppendVarSizeOutputString(provided, Information, destOffset, length, partial) ==
  LET remaining == Information - destOffset
      copySize == 2 * ((provided - destOffset) \div 2)
  IN IF length <= remaining THEN [ok |-> TRUE, Information |-> Information]
     ELSE IF Information + length - remaining <= provided
     THEN [ok |-> TRUE, Information |-> Information + length - remaining]
     ELSE IF partial
     THEN [ok |-> copySize = length, Information |-> copySize + destOffset]
     ELSE [ok |-> FALSE, Information |-> Information]

\* An answer of the driver: Valid counts the leading bytes of the requester's
\* buffer that the driver wrote
Answer(status, info, valid) ==
  [Status |-> status, Information |-> info, Valid |-> valid]

\* FillNameInformation at dest: the device path of a network volume, then
\* the file name
FillNameInformation(provided, Information, dest, device, name) ==
  LET path == AppendVarSizeOutputString(provided, Information, dest, device, TRUE)
      full == AppendVarSizeOutputString(provided, path.Information,
                                        dest + device, name, TRUE)
      last == IF path.ok THEN full ELSE path
  IN Answer(IF last.ok THEN "SUCCESS" ELSE "OVERFLOW",
            last.Information, last.Information)

(* ---- the driver's dispatch routines: what they answer by themselves ---- *)

\* DokanDispatchQueryInformation up to the event: {} when it is forwarded.  A
\* position below zero is refused, with Information set already.
QueryInformationAnswers(k, n, name, device) ==
  CASE k = "name" ->
         LET head == PrepareOutput(n, 4)
         IN IF ~head.ok THEN {Answer("FAILED", 0, 0)}
            ELSE {FillNameInformation(n, head.Information, 4, device, name)}
    [] k = "position" ->
         IF PrepareOutput(n, 8).ok
         THEN {Answer("SUCCESS", 8, 8), Answer("FAILED", 8, 0)}
         ELSE {Answer("FAILED", 0, 0)}
    [] k = "physical_name" ->
         LET head == PrepareOutput(n, 4)
             full == AppendVarSizeOutputString(n, 4, 4, name, FALSE)
         IN IF ~head.ok THEN {Answer("OVERFLOW", 0, 0)}
            ELSE {Answer(IF full.ok THEN "SUCCESS" ELSE "OVERFLOW",
                         full.Information, full.Information)}
    [] k = "all" /\ ~PrepareOutput(n, AllNameOffset).ok -> {Answer("FAILED", 0, 0)}
    [] OTHER -> {}

\* DokanDispatchQueryVolumeInformation: the device class always, the others
\* while the library has not asked for events yet
QueryVolumeAnswers(k, n) ==
  LET Text(sizeof, offset, length) ==
        IF n < sizeof THEN {Answer("OVERFLOW", 0, 0)}
        ELSE IF n < sizeof + length - WcharSize
        THEN {Answer("OVERFLOW", sizeof, offset)}
        ELSE {Answer("SUCCESS", sizeof + length - WcharSize,
                     sizeof + length - WcharSize)}
  IN CASE k = "device" -> {Answer(IF n < 8 THEN "FAILED" ELSE "SUCCESS", 8, 8)}
       [] k = "volume" /\ ~ready -> Text(VolumeSize, LabelOffset, DefaultLabelLength)
       [] k = "attribute" /\ ~ready -> Text(AttributeSize, FsNameOffset, DefaultFsNameLength)
       [] k \in {"size", "full_size"} /\ ~ready ->
            LET out == PrepareOutput(n, FixedSize[k])
            IN {Answer(IF out.ok THEN "SUCCESS" ELSE "OVERFLOW",
                       out.Information, out.Information)}
       [] OTHER -> {}

\* DokanDispatchRead: a read of no bytes is answered at once
DokanDispatchRead(n) ==
  IF n = 0 THEN {Answer("SUCCESS", 0, 0)} ELSE {}

\* DokanDispatchSetSecurity: a descriptor that makes the event too large
DokanDispatchSetSecurity(n, name) ==
  IF SizeofEventContext + n + name + 3 > EventContextMaxSize
  THEN {Answer("FAILED", 0, 0)} ELSE {}

\* DokanDispatchFlush: a file object without a CCB of this mount has nothing
\* to flush
DokanDispatchFlush(known) ==
  IF known THEN {} ELSE {Answer("SUCCESS", 0, 0)}

\* DokanCommonLockControl: FsRtlProcessFileLock decides
DokanCommonLockControl == {Answer("SUCCESS", 0, 0), Answer("FAILED", 0, 0)}

\* DokanDispatchLock: the driver keeps the file locks unless
\* FileLockInUserMode is set
DokanDispatchLock(userMode) ==
  IF userMode THEN {} ELSE DokanCommonLockControl

\* The answers of the driver itself, {} when the request is forwarded
DriverAnswers(k, n, name, device, flag) ==
  CASE k \in InfoKind -> QueryInformationAnswers(k, n, name, device)
    [] k \in VolumeKind -> QueryVolumeAnswers(k, n)
    [] k = "read" -> DokanDispatchRead(n)
    [] k = "set_security" -> DokanDispatchSetSecurity(n, name)
    [] k = "flush" -> DokanDispatchFlush(flag)
    [] k = "lock" -> DokanDispatchLock(flag)
    [] OTHER -> {}

\* BlockUserModeDispatch (the keep-alive file): the routine succeeds with
\* what it has prepared so far
BlockedAnswer(k) ==
  LET prepared == IF k = "all" THEN AllNameOffset ELSE 0
  IN Answer("SUCCESS", prepared, prepared)

\* The IRP in slot s is completed with answer a
Completed(q, a) ==
  [q EXCEPT !.irp = "done", !.ioStatus = a.Status,
            !.Information = a.Information, !.Valid = a.Valid]

\* A request arrives: answered by the driver, failed before the event exists
\* (no memory for the event or the MDL), or registered and sent to the library.
\* RegisterPendingIrpMain takes Dcb->Resource: once it was left held, only the
\* requests of the thread that holds it get through.
Dispatch(s, k, n) ==
  /\ slot[s].irp = "none"
  /\ issued < MaxRequests
  /\ \E name \in NameLengths, device \in NameLengths \cup {0}, flag \in BOOLEAN :
       LET q == [NoRequest EXCEPT !.kind = k, !.Length = n,
                   !.stub = ~ready /\ k \in VolumeKind]
           answers == DriverAnswers(k, n, name, device, flag)
       IN \/ /\ answers # {}
             /\ \E a \in answers : slot' = [slot EXCEPT ![s] = Completed(q, a)]
          \/ /\ answers = {}
             /\ slot' = [slot EXCEPT ![s] = Completed(q, Answer("FAILED", 0, 0))]
          \/ /\ answers = {} /\ k \in InfoKind \cup {"read"}
             /\ slot' = [slot EXCEPT ![s] = Completed(q, BlockedAnswer(k))]
          \/ /\ answers = {}
             /\ slot' = [slot EXCEPT ![s] = [q EXCEPT !.irp = "pending",
                                                      !.dll = "queued"]]
          \/ /\ answers = {} /\ left
             /\ slot' = [slot EXCEPT ![s] = [q EXCEPT !.irp = "stuck"]]
  /\ issued' = issued + 1
  /\ UNCHANGED <<pool, openCount, callbacks, ready, label, left, badUsage>>

(* ---- the library: the result buffer ---- *)

DispatchGetEventInformationLength(n) ==
  Max({SizeofEventInformation, BufferOffset + n})

\* The size passed to CreateDispatchCommon by the Dispatch* routine
ReplySize(q) ==
  IF q.kind \in {"write", "set_security"} \cup BareKind THEN 0 ELSE q.Length

\* The pool CreateDispatchCommon takes the result from, 0 for malloc
PoolClass(q) ==
  LET classes == {c \in DOMAIN PoolSizes :
                    /\ ReplySize(q) <= PoolSizes[c]
                    /\ c = 1 \/ q.kind = "read"}
  IN IF classes = {} THEN 0 ELSE Min(classes)

\* Altered form: a default result of the pool is handed out as it is
ZeroedIfAllocated(q, c) == c = 0 /\ q.kind # "read"

\* PopEventResult and the malloc branch clear the payload, Pop16KEventResult
\* to Pop128KEventResult and the malloc of a read only the header
Zeroed(q, c) == c = 1 \/ (c = 0 /\ q.kind # "read")

\* PopEventResult, Pop16KEventResult ...: the last result pushed, or a new one
PopEventResult(c) == IF pool[c] # <<>> THEN Last(pool[c]) ELSE ClassSize(c)

\* The process of the library runs
Alive == \A s \in Slot : slot[s].dll # "faulted"

\* The event reaches a worker thread: the open-file record is taken and
\* CreateDispatchCommon provides the result.  When malloc fails it returns
\* without one, and the routine that called it writes through the null pointer.
CreateDispatchCommon(s) ==
  /\ slot[s].dll = "queued"
  /\ Alive
  /\ LET q == slot[s]
         c == PoolClass(q)
         size == IF c = 0 THEN DispatchGetEventInformationLength(ReplySize(q))
                 ELSE ClassSize(c)
     IN \/ /\ slot' = [slot EXCEPT ![s] =
                         [q EXCEPT !.dll = "handling", !.Size = size,
                                   !.Capacity = IF c = 0 THEN size ELSE PopEventResult(c),
                                   !.PoolAllocated = (c # 0),
                                   !.Status = "SUCCESS",
                                   !.Written = IF Zeroed(q, c)
                                               THEN size - BufferOffset ELSE 0]]
           /\ pool' = IF c # 0 /\ pool[c] # <<>>
                      THEN [pool EXCEPT ![c] = Front(@)] ELSE pool
        \/ /\ c = 0
           /\ slot' = [slot EXCEPT ![s] = [q EXCEPT !.dll = "faulted", !.Size = size]]
           /\ UNCHANGED pool
  /\ openCount' = openCount + 1
  /\ UNCHANGED <<callbacks, ready, label, left, badUsage, issued>>

(* ---- the library: what the Dispatch* routines put in the result ---- *)

\* A result: its Status and BufferLength
Result(status, length) == [Status |-> status, BufferLength |-> length]

\* A class of a fixed size
FillFixed(k, n) ==
  IF n < FixedSize[k] THEN Result("OVERFLOW", 0)
  ELSE Result("SUCCESS", FixedSize[k])

DokanFillFileBasicInfo(n) == FillFixed("basic", n)
DokanFillFileStandardInfo(n) == FillFixed("standard", n)
DokanFillInternalInfo(n) == FillFixed("internal", n)
DokanFillFileAttributeTagInfo(n) == FillFixed("attribute_tag", n)
DokanFillNetworkOpenInfo(n) == FillFixed("network_open", n)
DokanFillIdInfo(n) == FillFixed("id", n)

DokanFillFileAllInfo(n) ==
  IF n < AllSize THEN Result("OVERFLOW", 0) ELSE Result("SUCCESS", AllNameOffset)

\* DokanEndDispatchGetFileInformation on a successful callback
DokanEndDispatchGetFileInformation(k, n) ==
  CASE k = "basic" -> DokanFillFileBasicInfo(n)
    [] k = "id" -> DokanFillIdInfo(n)
    [] k = "internal" -> DokanFillInternalInfo(n)
    [] k = "ea" -> Result("SUCCESS", 4)
    [] k = "standard" -> DokanFillFileStandardInfo(n)
    [] k = "all" -> DokanFillFileAllInfo(n)
    [] k = "attribute_tag" -> DokanFillFileAttributeTagInfo(n)
    [] k = "network_open" -> DokanFillNetworkOpenInfo(n)
    [] OTHER -> Result("FAILED", 0)

\* DokanFillFindStreamData: the entry is appended when it fits the requester's
\* buffer; state is [offset of the last entry, its NextEntryOffset, ok]
DokanFillFindStreamData(list, name, n) ==
  LET entrySize == 8 * ((StreamSize + name + 7) \div 8)
  IN IF ~list.ok \/ list.offset + entrySize + list.next > n
     THEN [list EXCEPT !.ok = FALSE]
     ELSE [offset |-> list.offset + list.next, next |-> entrySize, ok |-> TRUE]

\* FindStreams and DokanEndDispatchFindStreams; an application whose entry is
\* refused answers STATUS_BUFFER_OVERFLOW
FindStreamsResults(n) ==
  {LET list == FoldLeft(LAMBDA l, name : DokanFillFindStreamData(l, name, n),
                        [offset |-> 0, next |-> 0, ok |-> TRUE], names)
   IN Result(IF list.ok THEN "SUCCESS" ELSE "OVERFLOW", list.offset + list.next) :
     names \in BoundedSeq(NameLengths, MaxStreams)}

\* DokanFsVolumeInformation: the label is cut to the buffer; the status of
\* DokanGetVolumeInformation is not looked at
DokanFsVolumeInformation(n, name) ==
  IF n < VolumeSize THEN Result("OVERFLOW", 0)
  ELSE Result("SUCCESS", LabelOffset + Min({n - LabelOffset, name}))

\* DokanFsAttributeInformation: a cut name is STATUS_BUFFER_OVERFLOW with the
\* bytes used
DokanFsAttributeInformation(n, name, status) ==
  IF n < AttributeSize THEN Result("OVERFLOW", 0)
  ELSE IF status # "SUCCESS" THEN Result("FAILED", 0)
  ELSE Result(IF n - FsNameOffset < name THEN "OVERFLOW" ELSE "SUCCESS",
              FsNameOffset + Min({n - FsNameOffset, name}))

\* DokanFsSizeInformation: the callback, or the default, decides once the
\* buffer is long enough
DokanFsSizeInformation(n) ==
  {FillFixed("size", n)} \cup (IF n < 24 THEN {} ELSE {Result("FAILED", 0)})

DokanFsFullSizeInformation(n) ==
  {FillFixed("full_size", n)} \cup (IF n < 32 THEN {} ELSE {Result("FAILED", 0)})

\* DokanGetVolumeInformation: the status of the callback, or the defaults
DokanGetVolumeInformation == {"SUCCESS", "FAILED"}

\* DefaultGetFileSecurity: a descriptor made for the user of the process
DefaultGetFileSecurity(n, size) ==
  Result(IF size > n THEN "OVERFLOW" ELSE "SUCCESS", size)

\* DispatchQuerySecurity: the needed length, larger than the buffer or not,
\* from the application or from the default
DispatchQuerySecurity(n, needed) ==
  {Result(IF n < needed THEN "OVERFLOW" ELSE "SUCCESS", needed),
   DefaultGetFileSecurity(n, needed), Result("FAILED", 0)}

\* DispatchRead: a successful read of nothing is the end of the file
DispatchRead(n, readLength) ==
  IF readLength = 0 THEN Result("FAILED", 0) ELSE Result("SUCCESS", readLength)

\* DispatchSetSecurity, DispatchFlush (without a callback: success) and
\* DispatchLock (without a callback: not implemented)
DispatchSetSecurity == {Result("SUCCESS", 0), Result("FAILED", 0)}
DispatchFlush == {Result("SUCCESS", 0), Result("FAILED", 0)}
DispatchLock == {Result("SUCCESS", 0), Result("FAILED", 0)}

\* DispatchSetInformation: a rename sends its new name back
DispatchSetInformation(k, n) ==
  {Result("SUCCESS", IF k = "rename" THEN n ELSE 0), Result("FAILED", 0)}

\* DispatchQueryVolumeInformation
DispatchQueryVolumeInformation(k, n) ==
  CASE k = "size" -> DokanFsSizeInformation(n)
    [] k = "full_size" -> DokanFsFullSizeInformation(n)
    [] k = "volume" ->
         {DokanFsVolumeInformation(n, name) : name \in NameLengths}
    [] k = "attribute" ->
         {DokanFsAttributeInformation(n, name, status) :
            name \in NameLengths, status \in DokanGetVolumeInformation}

\* DispatchQueryInformation completes nothing when the stream buffer is too
\* small or the application has no callback for the class
Silent(q) ==
  /\ q.kind \in InfoKind
  /\ IF q.kind = "streams" THEN q.Length < StreamSize \/ "FindStreams" \notin callbacks
     ELSE "GetFileInformation" \notin callbacks

\* The results the handler of q can produce with the application's answer
Results(q) ==
  LET n == q.Length IN
  CASE q.kind = "streams" -> FindStreamsResults(n)
    [] q.kind \in InfoKind \ {"streams"} ->
         {DokanEndDispatchGetFileInformation(q.kind, n), Result("FAILED", 0)}
    [] q.kind \in VolumeKind -> DispatchQueryVolumeInformation(q.kind, n)
    [] q.kind = "security" ->
         UNION {DispatchQuerySecurity(n, needed) : needed \in NeededLengths \ {0}}
    [] q.kind = "read" ->
         {DispatchRead(n, r) : r \in {m \in NeededLengths : m <= n} \cup {n}} \cup
         {Result("FAILED", 0)}
    [] q.kind = "write" -> {Result("SUCCESS", n), Result("FAILED", 0)}
    [] q.kind \in {"rename", "set"} -> DispatchSetInformation(q.kind, n)
    [] q.kind = "set_security" -> DispatchSetSecurity
    [] q.kind = "flush" -> DispatchFlush
    [] q.kind = "lock" -> DispatchLock

\* Bytes of the payload the handler writes itself: the EA size, the access and
\* mode fields of FILE_ALL_INFORMATION and the gaps of a stream list are left
\* as the buffer has them
Filled(q, r) ==
  IF q.kind \in {"ea", "all", "streams", "write"} THEN 0
  ELSE Min({r.BufferLength, q.Length})

\* The handler runs to its end: the result is set and EventCompletion gives
\* the open-file record back.  A silent handler does neither.
Handle(s) ==
  /\ slot[s].dll = "handling"
  /\ Alive
  /\ \/ /\ Silent(slot[s])
        /\ slot' = [slot EXCEPT ![s].dll = "result"]
        /\ UNCHANGED openCount
     \/ /\ ~Silent(slot[s])
        /\ \E r \in Results(slot[s]) :
             slot' = [slot EXCEPT ![s] =
               [@ EXCEPT !.dll = "result", !.Status = r.Status,
                         !.BufferLength = r.BufferLength,
                         !.Written = Max({@, Filled(slot[s], r)})]]
        /\ openCount' = openCount - 1
  /\ UNCHANGED <<pool, callbacks, ready, label, left, badUsage, issued>>

(* ---- the reply crosses to the driver ---- *)

\* GetEventInfoSize of the library: the bytes of the result it sends
GetEventInfoSize(q) ==
  IF q.kind = "write" \/ q.Status = "OVERFLOW" THEN SizeofEventInformation
  ELSE Max({SizeofEventInformation, BufferOffset + q.BufferLength})

\* Altered form: the driver's copy does not know that a write has no payload
DriverEventInfoSizeNoWrite(q) ==
  IF q.Status = "OVERFLOW" THEN SizeofEventInformation
  ELSE Max({SizeofEventInformation, BufferOffset + q.BufferLength})

\* GetEventInfoSize of the driver: the bytes it expects
DriverEventInfoSize(q) ==
  IF q.kind = "write" \/ q.Status = "OVERFLOW" THEN SizeofEventInformation
  ELSE Max({SizeofEventInformation, BufferOffset + q.BufferLength})

\* The leading bytes of the payload that this request wrote and shipped
Intact(q) == Min({q.BufferLength, q.Shipped - BufferOffset, q.Written})

\* The copy of DokanCompleteQueryInformation, DokanCompleteQueryVolumeInformation
\* and DokanCompleteRead
CopyToRequester(q) ==
  IF q.Length = 0 \/ q.Length < q.BufferLength THEN Answer("FAILED", 0, 0)
  ELSE Answer(q.Status, q.BufferLength, Intact(q))

\* DokanCompleteQueryInformation: the name completes FILE_ALL_INFORMATION
CompleteQueryInformation(q, device, name) ==
  LET a == CopyToRequester(q)
      named == FillNameInformation(q.Length, a.Information, AllNameOffset,
                                   device, name)
  IN IF q.kind = "all" /\ a.Status = "SUCCESS" /\ a.Information = AllNameOffset
     THEN [named EXCEPT !.Valid = IF a.Valid = AllNameOffset THEN @ ELSE a.Valid]
     ELSE a

\* DokanCompleteQueryVolumeInformation: a label set on the volume replaces the
\* application's, in the reply buffer itself
CompleteQueryVolume(q) ==
  LET room == IF q.Length < LabelOffset THEN label   \* the ULONG wraps around
              ELSE q.Length - LabelOffset
      labelled == LabelOffset + Min({room, label})
  IN IF /\ q.kind = "volume" /\ label # NoLabel
        /\ q.Length > 0 /\ q.Length >= q.BufferLength
     THEN Answer(q.Status, labelled,
                 IF Intact(q) < LabelOffset THEN Intact(q) ELSE labelled)
     ELSE CopyToRequester(q)

\* DokanCompleteQuerySecurity: valid tells whether the bytes are a descriptor
CompleteQuerySecurity(q, valid) ==
  CASE q.Status = "SUCCESS" /\ q.BufferLength <= q.Length /\ q.Length > 0 ->
         IF valid THEN Answer("SUCCESS", q.BufferLength, Intact(q))
         ELSE Answer("FAILED", 0, 0)
    [] q.Status = "OVERFLOW" \/ (q.Status = "SUCCESS" /\ q.Length < q.BufferLength) ->
         Answer("OVERFLOW", q.BufferLength, 0)
    [] OTHER -> Answer(q.Status, 0, 0)

\* Nothing is copied to the requester of these
DokanCompleteWrite(q) == Answer(q.Status, q.BufferLength, 0)
DokanCompleteSetInformation(q) == Answer(q.Status, q.BufferLength, 0)
DokanCompleteSetSecurity(q) == Answer(q.Status, 0, 0)
DokanCompleteFlush(q) == Answer(q.Status, 0, 0)
DokanCompleteLock(q) == Answer(q.Status, 0, 0)

Completions(q) ==
  CASE q.kind \in InfoKind ->
         {CompleteQueryInformation(q, device, name) :
            device \in NameLengths \cup {0}, name \in NameLengths}
    [] q.kind \in VolumeKind -> {CompleteQueryVolume(q)}
    [] q.kind = "security" -> {CompleteQuerySecurity(q, valid) : valid \in BOOLEAN}
    [] q.kind = "read" -> {CopyToRequester(q)}
    [] q.kind = "write" -> {DokanCompleteWrite(q)}
    [] q.kind \in {"rename", "set"} -> {DokanCompleteSetInformation(q)}
    [] q.kind = "set_security" -> {DokanCompleteSetSecurity(q)}
    [] q.kind = "flush" -> {DokanCompleteFlush(q)}
    [] q.kind = "lock" -> {DokanCompleteLock(q)}

\* SendAndPullEventInformation and DokanCompleteIrp: the reply is sized by the
\* library, measured by the driver, and completes the IRP if it still waits
Send(s) ==
  /\ slot[s].dll = "result"
  /\ Alive
  /\ LET q == [slot[s] EXCEPT !.dll = "sent", !.Shipped = GetEventInfoSize(slot[s]),
                              !.relabelled = (label # NoLabel)]
     IN IF q.irp # "pending"
        THEN /\ slot' = [slot EXCEPT ![s] = q]
             /\ UNCHANGED badUsage
        ELSE /\ \E a \in Completions(q) :
                  slot' = [slot EXCEPT ![s] = Completed(q, a)]
             /\ badUsage' = (badUsage \/ DriverEventInfoSize(q) # q.Shipped)
  /\ UNCHANGED <<pool, openCount, callbacks, ready, label, left, issued>>

\* The pool FreeIoEventResult returns a pool result to
PushClass(q) == Min({c \in DOMAIN PoolSizes : q.Size <= ClassSize(c)})

\* FreeIoEventResult once the reply is sent, with the pool's limit
FreeIoEventResult(s) ==
  /\ slot[s].dll = "sent"
  /\ Alive
  /\ LET q == slot[s]
         c == PushClass(q)
     IN pool' = IF q.PoolAllocated /\ Len(pool[c]) < PoolLimit
                THEN [pool EXCEPT ![c] = Append(@, q.Capacity)] ELSE pool
  /\ slot' = [slot EXCEPT ![s] = NoRequest]
  /\ UNCHANGED <<openCount, callbacks, ready, label, left, badUsage, issued>>

\* The driver gives a waiting IRP up (cancellation or timeout, module PendingIrp)
GiveUp(s) ==
  /\ slot[s].irp = "pending"
  /\ slot' = [slot EXCEPT ![s] = Completed(@, Answer("FAILED", 0, 0))]
  /\ UNCHANGED <<pool, openCount, callbacks, ready, label, left, badUsage, issued>>

\* The requester takes an answer the driver gave by itself
Retire(s) ==
  /\ slot[s].irp = "done" /\ slot[s].dll = "none"
  /\ slot' = [slot EXCEPT ![s] = NoRequest]
  /\ UNCHANGED <<pool, openCount, callbacks, ready, label, left, badUsage, issued>>

\* The library asks for its first event: HasEventWait
FirstEventWait ==
  /\ ~ready
  /\ Alive
  /\ ready' = TRUE
  /\ UNCHANGED <<slot, pool, openCount, callbacks, label, left, badUsage, issued>>

\* DokanDispatchSetVolumeInformation with a label: the old one is freed first,
\* and without memory for the new one the routine returns with Dcb->Resource
\* held.  The thread that holds it can set a label again.
SetVolumeLabel ==
  /\ \/ /\ \E length \in NameLengths : label' = length
        /\ UNCHANGED left
     \/ label' = NoLabel /\ left' = TRUE
  /\ UNCHANGED <<slot, pool, openCount, callbacks, ready, badUsage, issued>>

Next ==
  \/ \E s \in Slot, k \in Kind : \E n \in IF k \in BareKind THEN {0} ELSE Lengths :
       Dispatch(s, k, n)
  \/ \E s \in Slot : \/ CreateDispatchCommon(s) \/ Handle(s) \/ Send(s)
                     \/ FreeIoEventResult(s) \/ GiveUp(s) \/ Retire(s)
  \/ FirstEventWait
  \/ SetVolumeLabel

Spec == Init /\ [][Next]_vars

(* ---- properties ---- *)

\* The library never ships, and no handler fills, more than the buffer it holds:
\* whatever pool a result came from, it is as large as the size recorded with
\* it, and GetEventInfoSize stays inside it (the assertion of
\* CreateDispatchCommon, and the length passed to DeviceIoControl).
SentFits ==
  \A s \in Slot :
    /\ slot[s].dll \in {"handling", "result", "sent"} => slot[s].Size <= slot[s].Capacity
    /\ slot[s].dll = "sent" => slot[s].Shipped <= slot[s].Capacity

\* The library and the driver agree on the size of every reply, so that no
\* legal answer of an application is taken for a bad usage, which unmounts the
\* volume (DokanCompleteIrp).
ReplyAccepted == ~badUsage

\* Both sides compute the size of a reply, GetEventInfoSize in the library and
\* in the driver: what is shipped is inside the buffer and what the driver
\* takes it for.
SizesAgree == SentFits /\ ReplyAccepted

\* The status tells the I/O manager to copy Information bytes
Returns(q) ==
  q.irp = "done" /\ q.ioStatus \in {"SUCCESS", "OVERFLOW"} /\
  q.kind \notin {"write", "rename", "set_security"} \cup BareKind

\* A volume query shorter than its header, on a volume whose label was set;
\* the I/O manager refuses such a query of a user
ShortVolumeQuery(q) == q.kind = "volume" /\ q.relabelled /\ q.Length < VolumeSize

\* No completion returns more bytes than the requester has room for: only a
\* security descriptor that does not fit reports the length it needs.
InformationFits ==
  \A s \in Slot :
    Returns(slot[s]) =>
      \/ slot[s].Information <= slot[s].Length
      \/ slot[s].kind = "security" /\ slot[s].ioStatus = "OVERFLOW"
      \/ ShortVolumeQuery(slot[s])

\* Every byte a requester gets was written for this request: by the driver, or
\* by the handler into the part of the result that was shipped, never what an
\* earlier request left in a pooled buffer.  The exceptions are the answers
\* given before the library runs, and the STATUS_BUFFER_OVERFLOW of the stream
\* and attribute classes, whose BufferLength is the used length although only
\* the header is shipped.
OnlyWrittenReturned ==
  \A s \in Slot :
    Returns(slot[s]) =>
      \/ slot[s].Information <= slot[s].Valid
      \/ slot[s].stub /\ slot[s].ioStatus = "OVERFLOW"
      \/ slot[s].kind \in {"security", "streams", "attribute"} /\
         slot[s].ioStatus = "OVERFLOW"
      \/ ShortVolumeQuery(slot[s])

\* dokan.c:439: "For buffer overflow replies, the BufferLength is the needed
\* length and not the used length."
OverflowTellsNeededLength ==
  \A s \in Slot :
    slot[s].dll \in {"result", "sent"} /\ slot[s].Status = "OVERFLOW" =>
      slot[s].BufferLength = 0 \/ slot[s].BufferLength > slot[s].Length

\* dokan.c:1338: the Close event is delayed while "there is another event
\* running": a reference beyond the open file's own is held by a handler that
\* has not ended.
ReferenceHeldByRunningEvent ==
  openCount <= 1 + Cardinality({s \in Slot : slot[s].dll = "handling"})

=============================================================================
