---------------------------- MODULE UserDispatch ----------------------------
(***************************************************************************)
(* The threads of the library that pull events from the driver, run the     *)
(* callbacks of the file system, and send the results back: the batches of  *)
(* events and the count that keeps a batch buffer alive, the open           *)
(* information (DOKAN_OPEN_INFO) of a file object and the count that delays *)
(* its CloseFile, and the end of the threads when the device is gone.       *)
(* Sources: dokan/dokan.c, dokan/dokan_pool.c and the Dispatch functions of *)
(* dokan/create.c, cleanup.c, close.c, read.c, write.c, flush.c.            *)
(*                                                                          *)
(* A DOKAN_IO_EVENT is exclusively its thread's, so it is identified with   *)
(* the request it is for.  The driver is reduced to what the library can    *)
(* tell: which requests it queues, in which order, with which context.      *)
(***************************************************************************)
EXTENDS Integers, Sequences, FiniteSets, SequencesExt

CONSTANTS
  File,           \* file objects
  Main,           \* the main pull threads
  Worker,         \* the threads of the pool
  Batch,          \* blocks of memory for DOKAN_IO_BATCH
  OpenInfo,       \* blocks of memory for DOKAN_OPEN_INFO
  None,
  BatchPoolSize,  \* DOKAN_IO_BATCH_POOL_SIZE
  MaxRequests,    \* bound: how many requests are made
  MaxBatch,       \* bound: how many events the driver packs into a buffer
  MaxGiveUps,     \* bound: how many requests the driver ends by itself
  GiveUpWaiting,  \* whether it may end one that no thread has taken up
  MaxFailures,    \* bound: how many allocations fail
  MayUnmount      \* whether the device may be removed

ASSUME UserDispatchAssumption ==
  /\ None \notin Nat \cup Batch \cup OpenInfo
  /\ MaxRequests \in Nat
  /\ Main \cap Worker = {}
  /\ BatchPoolSize \in Nat /\ MaxBatch \in Nat \ {0}
  /\ MaxGiveUps \in Nat /\ MaxFailures \in Nat
  /\ MayUnmount \in BOOLEAN /\ GiveUpWaiting \in BOOLEAN

Thread == Main \cup Worker
Req == 1 .. MaxRequests   \* requests (EVENT_CONTEXT), by serial number

VARIABLES
  \* the driver
  phase,      \* per file object: how far it is
  ccb,        \* per file object: ccb->UserContext, the DOKAN_OPEN_INFO
  req,        \* the requests: their state, operation, file object, context
  events,     \* the events that wait to be pulled
  unmounted,  \* the device is removed
  giveUps,
  \* the library
  batching,   \* allowIpcBatching
  pc,         \* per thread: where it is
  running,    \* per thread: the request of its ioEvent
  ioBatch,    \* per thread: the buffer it pulls into
  undealt,    \* per thread: the pulled events not yet dealt out
  reply,      \* per thread: the result on its way to the driver
  work,       \* the ioEvents submitted to the thread pool
  batchAt,    \* where a buffer is: in use, in the pool, or free memory
  count,      \* EventContextBatchCount
  inBatch,    \* per request: the buffer its EVENT_CONTEXT is in
  writeBatch, \* per request: the buffer of SendWriteRequest
  openAt,     \* where an open information is
  OpenCount,  \* its OpenCount
  closeSeen,  \* its CloseFileName is set
  openOf,     \* per request: IoEvent->DokanOpenInfo
  result,     \* per request: whether IoEvent->EventResult is there
  closed,     \* DeviceClosedWaitHandle
  UnmountedCalled,
  failures,
  \* history
  creator,    \* per open information: the file object it was made for
  closeFile   \* per file object: how often CloseFile was called

driverVars == <<phase, ccb, req, events, unmounted, giveUps>>
batchVars  == <<batchAt, count, inBatch, writeBatch>>
openVars   == <<openAt, OpenCount, closeSeen, openOf, creator>>
threadVars == <<pc, running, ioBatch, undealt, reply>>
endVars    == <<closed, UnmountedCalled, failures>>
vars == <<driverVars, batching, threadVars, work, batchVars, openVars, result,
          endVars, closeFile>>

\* A write stands for every request on an open file: it may take no buffer.
Op == {"create", "write", "cleanup", "close"}

NoReq == [st |-> "unused", op |-> "write", file |-> None, Context |-> None]
NoReply == [req |-> None, ok |-> FALSE, Context |-> None]

At == {"free", "pool", "used"}
Pc == {"idle", "setup", "callback", "parent", "closeFile", "completed", "send",
       "pull", "deal", "exited"}

TypeOK ==
  /\ phase \in [File -> {"none", "creating", "open", "cleaned", "closed", "failed"}]
  /\ ccb \in [File -> OpenInfo \cup {None}]
  /\ req \in [Req -> [st : {"unused", "queued", "pulled", "answered", "givenUp"},
                      op : Op, file : File \cup {None},
                      Context : OpenInfo \cup {None}]]
  /\ events \in Seq(Req) /\ unmounted \in BOOLEAN /\ giveUps \in 0 .. MaxGiveUps
  /\ batching \in BOOLEAN
  /\ pc \in [Thread -> Pc]
  /\ running \in [Thread -> Req \cup {None}]
  /\ ioBatch \in [Thread -> Batch \cup {None}]
  /\ undealt \in [Thread -> Seq(Req)]
  /\ reply \in [Thread -> [req : Req \cup {None}, ok : BOOLEAN,
                           Context : OpenInfo \cup {None}]]
  /\ work \subseteq Req
  /\ batchAt \in [Batch -> At] /\ count \in [Batch -> Int]
  /\ inBatch \in [Req -> Batch \cup {None}]
  /\ writeBatch \in [Req -> Batch \cup {None}]
  /\ openAt \in [OpenInfo -> At] /\ OpenCount \in [OpenInfo -> Nat]
  /\ closeSeen \in [OpenInfo -> BOOLEAN]
  /\ openOf \in [Req -> OpenInfo \cup {None}]
  /\ creator \in [OpenInfo -> File \cup {None}]
  /\ result \in [Req -> BOOLEAN]
  /\ closed \in BOOLEAN /\ UnmountedCalled \in Nat /\ failures \in 0 .. MaxFailures
  /\ closeFile \in [File -> Nat]
-----------------------------------------------------------------------------
Init ==
  /\ phase = [f \in File |-> "none"]
  /\ ccb = [f \in File |-> None]
  /\ req = [r \in Req |-> NoReq]
  /\ events = <<>> /\ unmounted = FALSE /\ giveUps = 0
  /\ batching \in BOOLEAN
  /\ pc = [t \in Thread |-> IF t \in Main THEN "send" ELSE "idle"]
  /\ running = [t \in Thread |-> None]
  /\ ioBatch = [t \in Thread |-> None]
  /\ undealt = [t \in Thread |-> <<>>]
  /\ reply = [t \in Thread |-> NoReply]
  /\ work = {}
  /\ batchAt = [b \in Batch |-> "free"] /\ count = [b \in Batch |-> 0]
  /\ inBatch = [r \in Req |-> None] /\ writeBatch = [r \in Req |-> None]
  /\ openAt = [o \in OpenInfo |-> "free"] /\ OpenCount = [o \in OpenInfo |-> 0]
  /\ closeSeen = [o \in OpenInfo |-> FALSE]
  /\ openOf = [r \in Req |-> None]
  /\ creator = [o \in OpenInfo |-> None]
  /\ result = [r \in Req |-> FALSE]
  /\ closed = FALSE /\ UnmountedCalled = 0 /\ failures = 0
  /\ closeFile = [f \in File |-> 0]
-----------------------------------------------------------------------------
(***************************************************************************)
(* The driver, as the library sees it.                                      *)
(***************************************************************************)
Outstanding(r) == req[r].st \in {"queued", "pulled"} /\ req[r].op # "close"

\* A request can be made in this phase of its file object.  A close follows
\* when no other request is outstanding, and nobody waits for it.
MayIssue(f, op) ==
  CASE op = "create"            -> phase[f] = "none"
    [] op = "write"             -> phase[f] \in {"open", "cleaned"}
    [] op = "cleanup"           -> phase[f] = "open"
    [] op = "close"             -> /\ phase[f] = "cleaned"
                                   /\ \A r \in Req : req[r].file = f => ~Outstanding(r)

PhaseAfter(f, op) ==
  CASE op = "create"  -> "creating"
    [] op = "cleanup" -> "cleaned"
    [] op = "close"   -> "closed"
    [] OTHER          -> phase[f]

Issue(r, f, op) ==
  /\ ~unmounted
  /\ \A q \in Req : q < r <=> req[q].st # "unused"
  /\ MayIssue(f, op)
  /\ req' = [req EXCEPT ![r] = [st |-> "queued", op |-> op, file |-> f,
                                Context |-> ccb[f]]]
  /\ phase' = [phase EXCEPT ![f] = PhaseAfter(f, op)]
  /\ events' = Append(events, r)
  /\ UNCHANGED <<ccb, unmounted, giveUps, batching, threadVars, work, batchVars,
                 openVars, result, endVars, closeFile>>

TakenUp(r) == \E t \in Thread : running[t] = r /\ pc[t] # "setup"

\* A request times out or is cancelled: for its caller it is over, whatever
\* becomes of its event.
GiveUp(r) ==
  /\ giveUps < MaxGiveUps
  /\ Outstanding(r) /\ (TakenUp(r) \/ GiveUpWaiting)
  /\ giveUps' = giveUps + 1
  /\ req' = [req EXCEPT ![r].st = "givenUp"]
  /\ phase' = [phase EXCEPT ![req[r].file] =
                 IF req[r].op = "create" THEN "failed" ELSE @]
  /\ UNCHANGED <<ccb, events, unmounted, batching, threadVars, work, batchVars,
                 openVars, result, endVars, closeFile>>

Unmount ==
  /\ MayUnmount /\ ~unmounted
  /\ unmounted' = TRUE
  /\ UNCHANGED <<phase, ccb, req, events, giveUps, batching, threadVars, work,
                 batchVars, openVars, result, endVars, closeFile>>

\* What DokanCompleteIrp does with a result: it looks for the pending request
\* and stores the context.
Answer(x) ==
  IF x.req = None \/ ~Outstanding(x.req)
  THEN UNCHANGED <<req, phase, ccb>>
  ELSE LET f == req[x.req].file
           created == req[x.req].op = "create"
       IN /\ req' = [req EXCEPT ![x.req].st = "answered"]
          /\ phase' = [phase EXCEPT ![f] = IF ~created THEN @
                                           ELSE IF x.ok THEN "open" ELSE "failed"]
          /\ ccb' = [ccb EXCEPT ![f] = IF created /\ ~x.ok THEN @ ELSE x.Context]
-----------------------------------------------------------------------------
(***************************************************************************)
(* The pools.  A buffer comes from the pool, else from malloc.              *)
(***************************************************************************)
Pooled(at) == {x \in DOMAIN at : at[x] = "pool"}
Available(at) == IF Pooled(at) # {} THEN Pooled(at)
                 ELSE {x \in DOMAIN at : at[x] = "free"}
\* Which one makes no difference.
Poppable(at) == {x \in Available(at) : x = CHOOSE y \in Available(at) : TRUE}

PopIoBatchBuffer(at, b) == [at EXCEPT ![b] = "used"]

\* Altered form: the buffer is given away with one event still in it.
PushIoBatchBufferEarly(at, b, n) ==
  [at EXCEPT ![b] = IF n - 1 > 1 THEN @ ELSE "free"]

\* The place of buffer b once its count, n before, is decremented.
PushIoBatchBuffer(at, b, n) ==
  [at EXCEPT ![b] = IF n - 1 > 0 THEN @
                    ELSE IF Cardinality(Pooled(at)) < BatchPoolSize
                         THEN "pool" ELSE "free"]

\* The pool of open informations is never full here.
PushFileOpenInfo(o) == openAt' = [openAt EXCEPT ![o] = "pool"]
-----------------------------------------------------------------------------
(***************************************************************************)
(* DispatchEvent.                                                           *)
(***************************************************************************)
\* A thread of the pool takes up a submitted event.
RunWork(t, r) ==
  /\ t \in Worker /\ pc[t] = "idle"
  /\ r \in work
  /\ work' = work \ {r}
  /\ running' = [running EXCEPT ![t] = r]
  /\ pc' = [pc EXCEPT ![t] = "setup"]
  /\ UNCHANGED <<driverVars, batching, ioBatch, undealt, reply, batchVars, openVars,
                 result, endVars, closeFile>>

\* PopFileOpenInfo and the first assignments of DispatchCreate.
NewOpenInfo(r) ==
  \E o \in Poppable(openAt) :
    /\ openAt' = [openAt EXCEPT ![o] = "used"]
    /\ OpenCount' = [OpenCount EXCEPT ![o] = 1]
    /\ closeSeen' = [closeSeen EXCEPT ![o] = FALSE]
    /\ creator' = [creator EXCEPT ![o] = req[r].file]
    /\ openOf' = [openOf EXCEPT ![r] = o]

\* Altered form: the event takes no reference.
ReferencedUncounted(o) == OpenCount

\* The reference that an event takes.
Referenced(o) == IF o = None THEN OpenCount ELSE [OpenCount EXCEPT ![o] = @ + 1]

\* SetupIOEventForProcessing, up to the call of the file system.
SetupIOEventForProcessing(t) ==
  LET r == running[t]
      o == req[r].Context
  IN /\ pc[t] = "setup"
     /\ pc' = [pc EXCEPT ![t] = "callback"]
     /\ IF req[r].op = "create" THEN NewOpenInfo(r)
        ELSE /\ openOf' = [openOf EXCEPT ![r] = o]
             /\ OpenCount' = Referenced(o)
             /\ UNCHANGED <<openAt, closeSeen, creator>>
     /\ result' = [result EXCEPT ![r] = req[r].op # "close"]
     /\ \/ UNCHANGED batchVars
        \* SendWriteRequest with a buffer of the pool.  One that does not fit
        \* is malloc'ed, and freed by the same function.
        \/ /\ req[r].op = "write"
           /\ \E w \in Poppable(batchAt) :
                /\ batchAt' = PopIoBatchBuffer(batchAt, w)
                /\ count' = [count EXCEPT ![w] = 0]
                /\ writeBatch' = [writeBatch EXCEPT ![r] = w]
           /\ UNCHANGED inBatch
     /\ UNCHANGED <<driverVars, batching, running, ioBatch, undealt, reply, work,
                    endVars, closeFile>>

\* With SL_OPEN_TARGET_DIRECTORY the file itself is opened first, to see whether
\* it exists, and if it does its Cleanup and CloseFile are called; these calls
\* are for an open of their own.  Then the parent directory is opened.
OpenTarget(t) ==
  /\ pc[t] = "callback" /\ req[running[t]].op = "create"
  /\ pc' = [pc EXCEPT ![t] = "parent"]
  /\ UNCHANGED <<driverVars, batching, running, ioBatch, undealt, reply, work,
                 batchVars, openVars, result, endVars, closeFile>>

\* The callback of a create returns.
DispatchCreate(t) ==
  LET r == running[t]
      o == openOf[r]
  IN /\ pc[t] \in {"callback", "parent"} /\ req[r].op = "create"
     /\ pc' = [pc EXCEPT ![t] = "completed"]
     /\ \/ reply' = [reply EXCEPT ![t] = [req |-> r, ok |-> TRUE, Context |-> o]]
           /\ UNCHANGED <<openAt, openOf>>
        \/ /\ reply' = [reply EXCEPT ![t] = [req |-> r, ok |-> FALSE, Context |-> None]]
           /\ PushFileOpenInfo(o)
           /\ openOf' = [openOf EXCEPT ![r] = None]
     /\ UNCHANGED <<driverVars, batching, running, ioBatch, undealt, work, batchVars,
                    OpenCount, closeSeen, creator, result, endVars, closeFile>>

\* Altered forms: a close does not wait for the other events, and every event
\* gives up two references.
LeftAfterAtOnce(r) == IF req[r].op = "close" THEN 0 ELSE OpenCount[openOf[r]] - 1
LeftAfterTwice(r) == OpenCount[openOf[r]] - 2

\* The open information after one of its events is done: how many references
\* are left, and whether the close has been seen.
LeftAfter(r) == OpenCount[openOf[r]] - (IF req[r].op = "close" THEN 2 ELSE 1)
CloseSeenAfter(r) == closeSeen[openOf[r]] \/ req[r].op = "close"

\* ReleaseDokanOpenInfo, called by EventCompletion and DispatchClose.  The
\* last one out runs the CloseFile that was delayed.
ReleaseDokanOpenInfo(t) ==
  LET r == running[t]
      o == openOf[r]
  IN \/ /\ o = None
        /\ pc' = [pc EXCEPT ![t] = "completed"]
        /\ reply' = [reply EXCEPT ![t] = [req |-> r, ok |-> TRUE, Context |-> None]]
        /\ UNCHANGED <<openVars, closeFile>>
     \/ /\ o # None /\ LeftAfter(r) > 0
        /\ OpenCount' = [OpenCount EXCEPT ![o] = LeftAfter(r)]
        /\ closeSeen' = [closeSeen EXCEPT ![o] = CloseSeenAfter(r)]
        /\ openOf' = [openOf EXCEPT ![r] = None]
        /\ pc' = [pc EXCEPT ![t] = "completed"]
        /\ reply' = [reply EXCEPT ![t] = [req |-> r, ok |-> TRUE, Context |-> o]]
        /\ UNCHANGED <<openAt, creator, closeFile>>
     \/ /\ o # None /\ LeftAfter(r) <= 0
        /\ OpenCount' = [OpenCount EXCEPT ![o] = LeftAfter(r)]
        /\ closeSeen' = [closeSeen EXCEPT ![o] = FALSE]
        /\ PushFileOpenInfo(o)
        /\ openOf' = [openOf EXCEPT ![r] = None]
        /\ pc' = [pc EXCEPT ![t] = IF CloseSeenAfter(r) THEN "closeFile" ELSE "completed"]
        /\ closeFile' = IF CloseSeenAfter(r)
                        THEN [closeFile EXCEPT ![creator[o]] = @ + 1] ELSE closeFile
        /\ reply' = [reply EXCEPT ![t] = [req |-> r, ok |-> TRUE, Context |-> None]]
        /\ UNCHANGED creator

\* The callback of any other operation returns; a close has none.
DispatchOther(t) ==
  LET r == running[t]
      w == writeBatch[r]
  IN /\ pc[t] = "callback" /\ req[r].op # "create"
     /\ IF w = None THEN UNCHANGED batchVars
        ELSE /\ batchAt' = PushIoBatchBuffer(batchAt, w, count[w])
             /\ count' = [count EXCEPT ![w] = @ - 1]
             /\ writeBatch' = [writeBatch EXCEPT ![r] = None]
             /\ UNCHANGED inBatch
     /\ ReleaseDokanOpenInfo(t)
     /\ UNCHANGED <<driverVars, batching, running, ioBatch, undealt, work, result,
                    endVars>>

\* The delayed CloseFile returns.
CloseFileReturns(t) ==
  /\ pc[t] = "closeFile"
  /\ pc' = [pc EXCEPT ![t] = "completed"]
  /\ UNCHANGED <<driverVars, batching, running, ioBatch, undealt, reply, work,
                 batchVars, openVars, result, endVars, closeFile>>
-----------------------------------------------------------------------------
(***************************************************************************)
(* DispatchBatchIoCallback and DispatchDedicatedIoCallback, the loop of a   *)
(* pulling thread.                                                          *)
(***************************************************************************)
\* A dispatched event has a result to send.  A loop without batching sends in
\* any case.
HasResult(t) == result[running[t]] \/ ~batching

\* Altered form: the main thread ends as well.
PullsAgainNever(t) == IF t \in Main THEN "exited" ELSE "idle"

\* With nothing left to do the main thread pulls again, another one returns.
PullsAgain(t) == IF t \in Main THEN "send" ELSE "idle"

\* An event without a result, a close, releases its buffer here, and with it
\* ends a thread of the pool.
NoEventResult(t) ==
  LET r == running[t]
      b == inBatch[r]
  IN /\ pc[t] = "completed" /\ ~HasResult(t)
     /\ batchAt' = PushIoBatchBuffer(batchAt, b, count[b])
     /\ count' = [count EXCEPT ![b] = @ - 1]
     /\ inBatch' = [inBatch EXCEPT ![r] = None]
     /\ running' = [running EXCEPT ![t] = None]
     /\ pc' = [pc EXCEPT ![t] = PullsAgain(t)]
     /\ UNCHANGED <<driverVars, batching, ioBatch, undealt, reply, work, writeBatch,
                    openVars, result, endVars, closeFile>>

\* What the ioEvent of request r held is released, or cleared.
ClearIoEvent(t, r) ==
  /\ running' = [running EXCEPT ![t] = None]
  /\ reply' = [reply EXCEPT ![t] = NoReply]
  /\ IF r = None THEN UNCHANGED <<inBatch, openOf, result>>
     ELSE /\ inBatch' = [inBatch EXCEPT ![r] = None]
          /\ openOf' = [openOf EXCEPT ![r] = None]
          /\ result' = [result EXCEPT ![r] = FALSE]

\* SendAndPullEventInformation, the result.  With batching a new buffer is
\* taken and the one of the event released; without, the thread keeps its own.
SendAndPull(t) ==
  LET r == running[t]
  IN /\ pc[t] = "send" \/ (pc[t] = "completed" /\ HasResult(t))
     /\ pc' = [pc EXCEPT ![t] = "pull"]
     /\ IF r # None /\ result[r] /\ ~unmounted THEN Answer(reply[t])
        ELSE UNCHANGED <<req, phase, ccb>>
     /\ ClearIoEvent(t, r)
     /\ \/ /\ ~batching /\ ioBatch[t] # None
           /\ UNCHANGED <<ioBatch, batchAt, count>>
        \/ /\ batching \/ ioBatch[t] = None
           /\ \E b \in Poppable(batchAt) :
                LET at == PopIoBatchBuffer(batchAt, b)
                IN /\ ioBatch' = [ioBatch EXCEPT ![t] = b]
                   /\ IF r = None
                      THEN batchAt' = at /\ count' = [count EXCEPT ![b] = 0]
                      ELSE /\ batchAt' = PushIoBatchBuffer(at, inBatch[r], count[inBatch[r]])
                           /\ count' = [count EXCEPT ![b] = 0, ![inBatch[r]] = @ - 1]
     /\ UNCHANGED <<events, unmounted, giveUps, batching, undealt, work, writeBatch,
                    openAt, OpenCount, closeSeen, creator, endVars, closeFile>>

\* EventContextBatchCount once the n pulled events are counted.
BatchCount(b, n) == count[b] + n

\* The driver returns events.
PullEvents(t) ==
  LET b == ioBatch[t]
  IN /\ pc[t] = "pull" /\ ~unmounted
     /\ \E n \in 1 .. (IF batching THEN MaxBatch ELSE 1) :
          /\ n <= Len(events)
          /\ events' = SubSeq(events, n + 1, Len(events))
          /\ req' = [r \in Req |-> IF \E k \in 1 .. n : events[k] = r /\ req[r].st = "queued"
                                   THEN [req[r] EXCEPT !.st = "pulled"] ELSE req[r]]
          /\ inBatch' = [r \in Req |-> IF \E k \in 1 .. n : events[k] = r
                                       THEN b ELSE inBatch[r]]
          /\ IF batching
             THEN /\ count' = [count EXCEPT ![b] = BatchCount(b, n)]
                  /\ undealt' = [undealt EXCEPT ![t] = SubSeq(events, 1, n)]
                  /\ pc' = [pc EXCEPT ![t] = "deal"]
                  /\ UNCHANGED running
             ELSE /\ running' = [running EXCEPT ![t] = events[1]]
                  /\ pc' = [pc EXCEPT ![t] = "setup"]
                  /\ UNCHANGED <<count, undealt>>
     /\ UNCHANGED <<phase, ccb, unmounted, giveUps, batching, ioBatch, reply, work,
                    batchAt, writeBatch, openVars, result, endVars, closeFile>>

\* The driver returns without an event: the time is up, or the wait was woken
\* for an event that another thread took.
PullNothing(t) ==
  LET b == ioBatch[t]
  IN /\ pc[t] = "pull" /\ ~unmounted /\ events = <<>>
     /\ pc' = [pc EXCEPT ![t] = PullsAgain(t)]
     /\ IF batching
        THEN /\ batchAt' = PushIoBatchBuffer(batchAt, b, count[b])
             /\ count' = [count EXCEPT ![b] = @ - 1]
             /\ ioBatch' = [ioBatch EXCEPT ![t] = None]
        ELSE UNCHANGED <<batchAt, count, ioBatch>>
     /\ UNCHANGED <<driverVars, batching, running, undealt, reply, work, inBatch,
                    writeBatch, openVars, result, endVars, closeFile>>

\* Altered form: the waiters on DeviceClosedWaitHandle are not woken.
OnDeviceIoCtlFailedQuiet ==
  /\ UnmountedCalled' = UnmountedCalled + 1
  /\ UNCHANGED closed

\* OnDeviceIoCtlFailed; the first caller runs DokanNotifyUnmounted.
OnDeviceIoCtlFailed ==
  /\ UnmountedCalled' = UnmountedCalled + 1
  /\ closed' = TRUE

\* A thread of the pool returns to the pool.
Returned(t) == IF t \in Main THEN "exited" ELSE "idle"

\* HandleProcessIoFatalError: the ioctl fails.
IoctlFailed(t) ==
  LET b == ioBatch[t]
  IN /\ pc[t] = "pull" /\ unmounted
     /\ pc' = [pc EXCEPT ![t] = Returned(t)]
     /\ batchAt' = PushIoBatchBuffer(batchAt, b, count[b])
     /\ count' = [count EXCEPT ![b] = @ - 1]
     /\ ioBatch' = [ioBatch EXCEPT ![t] = None]
     /\ OnDeviceIoCtlFailed
     /\ UNCHANGED <<driverVars, batching, running, undealt, reply, work, inBatch,
                    writeBatch, openVars, result, failures, closeFile>>

\* All events of a batch but the last go to the thread pool.
QueueIoEvent(t) ==
  LET r == Head(undealt[t])
  IN /\ pc[t] = "deal"
     /\ undealt' = [undealt EXCEPT ![t] = Tail(@)]
     /\ IF Len(undealt[t]) > 1
        THEN /\ work' = work \cup {r}
             /\ UNCHANGED <<pc, running, ioBatch>>
        ELSE /\ running' = [running EXCEPT ![t] = r]
             /\ ioBatch' = [ioBatch EXCEPT ![t] = None]
             /\ pc' = [pc EXCEPT ![t] = "setup"]
             /\ UNCHANGED work
     /\ UNCHANGED <<driverVars, batching, reply, batchVars, openVars, result, endVars,
                    closeFile>>

\* CreateThreadpoolWork fails: the event is lost.
QueueIoEventFails(t) ==
  /\ pc[t] = "deal" /\ Len(undealt[t]) > 1
  /\ failures < MaxFailures
  /\ failures' = failures + 1
  /\ OnDeviceIoCtlFailed
  /\ undealt' = [undealt EXCEPT ![t] = Tail(@)]
  /\ UNCHANGED <<driverVars, batching, pc, running, ioBatch, reply, work, batchVars,
                 openVars, result, closeFile>>

\* PopIoEventBuffer fails: the thread returns, with what it has not dealt out.
PopIoEventBufferFails(t) ==
  /\ pc[t] = "deal"
  /\ failures < MaxFailures
  /\ failures' = failures + 1
  /\ OnDeviceIoCtlFailed
  /\ pc' = [pc EXCEPT ![t] = Returned(t)]
  /\ undealt' = [undealt EXCEPT ![t] = <<>>]
  /\ UNCHANGED <<driverVars, batching, running, ioBatch, reply, work, batchVars,
                 openVars, result, closeFile>>

ThreadStep(t) ==
  \/ SetupIOEventForProcessing(t)
  \/ OpenTarget(t)
  \/ DispatchCreate(t)
  \/ DispatchOther(t)
  \/ CloseFileReturns(t)
  \/ NoEventResult(t)
  \/ SendAndPull(t)
  \/ PullEvents(t)
  \/ IoctlFailed(t)
  \/ QueueIoEvent(t)

Next ==
  \/ \E r \in Req, f \in File, op \in Op : Issue(r, f, op)
  \/ \E r \in Req : GiveUp(r)
  \/ Unmount
  \/ \E t \in Thread : ThreadStep(t)
  \/ \E t \in Thread : PullNothing(t)
  \/ \E t \in Thread : QueueIoEventFails(t)
  \/ \E t \in Thread : PopIoEventBufferFails(t)
  \/ \E t \in Worker, r \in Req : RunWork(t, r)

Spec == Init /\ [][Next]_vars

(* Every thread takes its steps: callbacks return, and an ioctl returns when *)
(* there is an event for it, the device is gone or, in a thread of the pool, *)
(* DOKAN_PULL_EVENT_TIMEOUT_MS have passed.  The pool runs submitted work.   *)
Fairness ==
  /\ \A t \in Thread : WF_vars(ThreadStep(t))
  /\ \A t \in Worker : WF_vars(PullNothing(t))
  /\ WF_vars(\E t \in Worker, r \in Req : RunWork(t, r))

FairSpec == Spec /\ Fairness
-----------------------------------------------------------------------------
(***************************************************************************)
(* Properties.                                                              *)
(***************************************************************************)
EventsOf(b) == {r \in Req : inBatch[r] = b}
UsersOf(o) == {r \in Req : openOf[r] = o /\ req[r].op # "create"}

(* With batching the count of a buffer in use is the number of its events  *)
(* that are not done, whichever threads deal them out and finish them, so  *)
(* PushIoBatchBuffer gives the buffer away exactly with its last event.    *)
BatchCountExact ==
  batching => \A b \in Batch : batchAt[b] = "used" => count[b] = Cardinality(EventsOf(b))

(* No event is looked at after its buffer went back to the pool, and a     *)
(* buffer has one owner: the events in it, the thread that pulls into it,  *)
(* or the write that it was taken for.                                     *)
BufferOwned ==
  /\ \A r \in Req : /\ inBatch[r] # None => batchAt[inBatch[r]] = "used"
                    /\ writeBatch[r] # None => /\ batchAt[writeBatch[r]] = "used"
                                               /\ EventsOf(writeBatch[r]) = {}
  /\ \A t \in Thread : ioBatch[t] # None =>
       /\ batchAt[ioBatch[t]] = "used"
       /\ pc[t] = "pull" => EventsOf(ioBatch[t]) = {}
       /\ \A u \in Thread : ioBatch[u] = ioBatch[t] => u = t
       /\ \A r \in Req : writeBatch[r] # ioBatch[t]

(* The OpenCount of an open information is one for the file object until   *)
(* its close, and one for each of its events that is being processed; so   *)
(* the one an event works on is in use, and is that of its own file object: *)
(* it was not pushed back, or taken by another create.                     *)
OpenInfoExact ==
  /\ \A o \in OpenInfo : openAt[o] = "used" =>
       OpenCount[o] = Cardinality(UsersOf(o)) + (IF closeSeen[o] THEN 0 ELSE 1)
  /\ \A r \in Req : openOf[r] # None =>
       openAt[openOf[r]] = "used" /\ creator[openOf[r]] = req[r].file

(* The two reference counts that decide when something goes back to its    *)
(* pool (PushIoBatchBuffer, ReleaseDokanOpenInfo) are exact at any time.   *)
CountsExact == BatchCountExact /\ OpenInfoExact

\* A callback of the file system is running for file object f in thread t.
InCallback(t, f) ==
  pc[t] \in {"callback", "parent", "closeFile"} /\ req[running[t]].file = f

(* "There is another event running. We delay the Close event": CloseFile   *)
(* is called once, and is the last callback for its file object.           *)
CloseFileIsLast ==
  /\ \A f \in File : closeFile[f] <= 1
  /\ \A t, u \in Thread : \A f \in File :
       (t # u /\ pc[t] = "closeFile" /\ InCallback(t, f)) => ~InCallback(u, f)
  /\ \A t \in Thread : \A f \in File :
       (InCallback(t, f) /\ closeFile[f] > 0) => pc[t] = "closeFile"

\* The request was answered; for a close, its CloseFile was called.
Served(r) == IF req[r].op = "close" THEN closeFile[req[r].file] = 1
             ELSE req[r].st \in {"answered", "givenUp"}

(* Every request the driver sends is answered, and the CloseFile of every  *)
(* closed file object is called, unless the driver has given the request   *)
(* up, the device is removed or an allocation failed.                      *)
EveryRequestServed ==
  \A r \in Req : req[r].st = "queued" ~> (Served(r) \/ unmounted \/ failures > 0)

(* Once the device is gone every thread returns, so that the instance can  *)
(* be deleted: CloseThreadpoolCleanupGroupMembers waits for them all.      *)
ThreadsReturn ==
  unmounted ~> /\ closed /\ work = {}
               /\ \A t \in Main : pc[t] = "exited"
               /\ \A t \in Worker : pc[t] = "idle"
=============================================================================
