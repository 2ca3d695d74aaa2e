---------------------------- MODULE NotifyQueue ----------------------------
(***************************************************************************)
(* The driver-to-library event queue of one mounted volume.                *)
(*                                                                         *)
(* A dispatch routine appends an event to the list NotifyEvent and, when   *)
(* the kernel queue NotifyIrpEventQueue is not signalled, links its single *)
(* entry NotifyIrpEventQueueList into it (DokanEventNotification).  The    *)
(* library's threads call FSCTL_EVENT_PROCESS_N_PULL: they wait on the     *)
(* kernel queue and the one that gets the entry empties as much of         *)
(* NotifyEvent as its buffer holds (DokanProcessAndPullEvents,             *)
(* PullEvents).  The unmount drops the list and runs the kernel queue      *)
(* down (DokanEventRelease).                                               *)
(*                                                                         *)
(* The list is only touched under NotifyEvent.ListLock, so each critical   *)
(* section is one step; taking the entry from the kernel queue is not      *)
(* under that lock and is a step of its own.                               *)
(***************************************************************************)
EXTENDS Naturals, Sequences, SequencesExt

CONSTANTS Event,      \* the events dispatch routines send
          Size,       \* Size[e]: EventContext.Length of the event
          Puller,     \* the library's threads
          Capacity,   \* OutputBufferLength of a pull
          AllowIpcBatching

ASSUME NotifyAssumption ==
  /\ Capacity \in Nat
  /\ Size \in [Event -> 1 .. Capacity]  \* EVENT_CONTEXT_MAX_SIZE fits a buffer
  /\ AllowIpcBatching \in BOOLEAN

VARIABLES
  notifyEvent,   \* NotifyEvent.ListHead
  linked,        \* how often NotifyIrpEventQueueList is linked in the KQUEUE
  pc,            \* per thread: user, wait (KeRemoveQueueEx), pull, closed
  pulled,        \* events copied to the thread's buffer by its last pull
  sent,          \* events that have been notified
  release        \* progress of DokanEventRelease on this queue

vars == <<notifyEvent, linked, pc, pulled, sent, release>>

Release == {"mounted", "unmountPending", "emptied", "rundown"}

IsUnmountPending == release # "mounted"
-----------------------------------------------------------------------------
Init ==
  /\ notifyEvent = <<>>
  /\ linked = 0
  /\ pc = [t \in Puller |-> "user"]
  /\ pulled = [t \in Puller |-> <<>>]
  /\ sent = {}
  /\ release = "mounted"

\* KeInsertQueue, guarded by KeReadStateQueue as both callers do.
KeInsertQueueIfClear == linked' = IF linked = 0 THEN 1 ELSE linked

\* Altered form: the queue's state is not read first.
DokanEventNotificationAlwaysInserts(e) ==
  /\ e \notin sent
  /\ sent' = sent \cup {e}
  /\ notifyEvent' = Append(notifyEvent, e)
  /\ linked' = linked + 1
  /\ UNCHANGED <<pc, pulled, release>>

\* Not guarded by the unmount: DokanDispatchClose notifies at any time, and a
\* registration that passed its mount check notifies after it.
DokanEventNotification(e) ==
  /\ e \notin sent
  /\ sent' = sent \cup {e}
  /\ notifyEvent' = Append(notifyEvent, e)
  /\ KeInsertQueueIfClear
  /\ UNCHANGED <<pc, pulled, release>>

\* Steps 1 to 3: the unmount checks, DispatchReady.
DokanProcessAndPullEvents(t) ==
  /\ pc[t] = "user"
  /\ pc' = [pc EXCEPT ![t] = IF IsUnmountPending THEN "closed" ELSE "wait"]
  /\ pulled' = [pulled EXCEPT ![t] = <<>>]
  /\ UNCHANGED <<notifyEvent, linked, sent, release>>

\* Step 4, the wait ends with the queue's entry.
KeRemoveQueueEx(t) ==
  /\ pc[t] = "wait"
  /\ linked > 0
  /\ linked' = linked - 1
  /\ pc' = [pc EXCEPT ![t] = "pull"]
  /\ UNCHANGED <<notifyEvent, pulled, sent, release>>

\* Step 4, the wait ends with a timeout or an alert.
Interrupted(t) ==
  /\ pc[t] = "wait"
  /\ pc' = [pc EXCEPT ![t] = IF IsUnmountPending THEN "closed" ELSE "user"]
  /\ UNCHANGED <<notifyEvent, linked, pulled, sent, release>>
-----------------------------------------------------------------------------
(***************************************************************************)
(* The loop of PullEvents.  An item larger than what is left of the buffer *)
(* goes to the tail; the loop ends when the first such item comes up       *)
(* again, and is then put at the tail once more.  As the room only         *)
(* shrinks, an item that did not fit never fits later in the same call.    *)
(***************************************************************************)
PullStep(st, e) ==
  IF Size[e] <= st.room /\ ~st.full
  THEN [st EXCEPT !.room = @ - Size[e], !.taken = Append(@, e),
                  !.full = ~AllowIpcBatching]
  ELSE [st EXCEPT !.kept = Append(@, e)]

PullLoop(list) ==
  FoldLeft(PullStep,
           [room |-> Capacity, taken |-> <<>>, kept |-> <<>>, full |-> FALSE],
           list)

\* Altered form: the loop stops when it meets the first unfitting item again,
\* before it puts that item at the tail.
RemainingInOrder(list) == PullLoop(list).kept

\* What stays in the list.  With batching the loop stops after the first
\* unfitting item was met twice: that item ends up last.
Remaining(list) ==
  LET kept == PullLoop(list).kept
  IN IF AllowIpcBatching /\ kept # <<>>
     THEN Append(Tail(kept), Head(kept))
     ELSE kept

\* Altered form: the queue is not flagged again for what stays in the list.
PullEventsForgetsToReflag(t) ==
  /\ pc[t] = "pull"
  /\ pulled' = [pulled EXCEPT ![t] = PullLoop(notifyEvent).taken]
  /\ notifyEvent' = Remaining(notifyEvent)
  /\ pc' = [pc EXCEPT ![t] = "user"]
  /\ UNCHANGED <<linked, sent, release>>

\* Step 5.
PullEvents(t) ==
  /\ pc[t] = "pull"
  /\ pulled' = [pulled EXCEPT ![t] = PullLoop(notifyEvent).taken]
  /\ notifyEvent' = Remaining(notifyEvent)
  /\ IF notifyEvent' # <<>> THEN KeInsertQueueIfClear ELSE UNCHANGED linked
  /\ pc' = [pc EXCEPT ![t] = "user"]
  /\ UNCHANGED <<sent, release>>
-----------------------------------------------------------------------------
\* DokanEventRelease: the unmount-pending flags.
SetUnmountPending ==
  /\ release = "mounted"
  /\ release' = "unmountPending"
  /\ UNCHANGED <<notifyEvent, linked, pc, pulled, sent>>

ReleaseNotifyEvent ==
  /\ release = "unmountPending"
  /\ release' = "emptied"
  /\ notifyEvent' = <<>>
  /\ UNCHANGED <<linked, pc, pulled, sent>>

\* The waiters are woken with STATUS_ABANDONED, the linked entry is flushed.
KeRundownQueue ==
  /\ release = "emptied"
  /\ release' = "rundown"
  /\ linked' = 0
  /\ pc' = [t \in Puller |-> IF pc[t] = "wait" THEN "closed" ELSE pc[t]]
  /\ UNCHANGED <<notifyEvent, pulled, sent>>

Next ==
  \/ \E e \in Event : DokanEventNotification(e)
  \/ \E t \in Puller : \/ DokanProcessAndPullEvents(t)
                       \/ KeRemoveQueueEx(t)
                       \/ Interrupted(t)
                       \/ PullEvents(t)
  \/ SetUnmountPending
  \/ ReleaseNotifyEvent
  \/ KeRundownQueue

Spec == Init /\ [][Next]_vars

\* The library's threads come back to pull, a thread that was given the
\* queue's entry runs, and a waiting thread gets a linked entry: the kernel
\* queue wakes its waiters.  Nobody has to send an event or to unmount.
Fairness ==
  \A t \in Puller : /\ WF_vars(DokanProcessAndPullEvents(t))
                    /\ SF_vars(KeRemoveQueueEx(t))
                    /\ WF_vars(PullEvents(t))

FairSpec == Spec /\ Fairness
-----------------------------------------------------------------------------
(* Types.  linked <= 1 is more than a type: KeInsertQueue on an entry that *)
(* is already linked would corrupt the kernel queue's list.                *)
TypeOK ==
  /\ linked \in {0, 1}
  /\ pc \in [Puller -> {"user", "wait", "pull", "closed"}]
  /\ sent \subseteq Event
  /\ release \in Release

(* No lost wakeup: until the kernel queue is run down, whenever events are *)
(* in NotifyEvent either the kernel queue is signalled or a thread that    *)
(* took its entry is about to enter PullEvents.  Neither the notifier nor  *)
(* the puller holds the list's lock while the entry is taken, so this      *)
(* rests on both of them re-reading the queue's state under the lock.      *)
NoLostWakeup ==
  (notifyEvent # <<>> /\ release # "rundown")
    => (linked = 1 \/ \E t \in Puller : pc[t] = "pull")

(* Every queued event is copied to some thread's buffer, unless the volume *)
(* is unmounted first.  PullEvents says of an event that does not fit that *)
(* "it will have to go in a different buffer".                             *)
EventReachesLibrary ==
  \A e \in Event :
    (e \in Range(notifyEvent))
      ~> (IsUnmountPending \/ \E t \in Puller : e \in Range(pulled[t]))
=============================================================================
