------------------------- MODULE NotifyQueueProofs -------------------------
(***************************************************************************)
(* NotifyQueue proved for every set of events and threads, every buffer    *)
(* size and either batching mode.  The proofs never look into PullLoop:    *)
(* they hold whatever a pull leaves behind.                                *)
(***************************************************************************)
EXTENDS NotifyQueue, TLAPS

(* Types hold in every reachable state; in particular the single entry     *)
(* NotifyIrpEventQueueList is never linked twice into the kernel queue.    *)
THEOREM TypeCorrect == Spec => []TypeOK
<1>1. Init => TypeOK
  BY DEF Init, TypeOK, Release
<1>2. TypeOK /\ [Next]_vars => TypeOK'
  <2> SUFFICES ASSUME TypeOK, [Next]_vars PROVE TypeOK'
    OBVIOUS
  <2> USE DEF TypeOK, Release
  <2>1. CASE \E e \in Event : DokanEventNotification(e)
    BY <2>1 DEF DokanEventNotification, KeInsertQueueIfClear
  <2>2. ASSUME NEW t \in Puller, DokanProcessAndPullEvents(t) PROVE TypeOK'
    BY <2>2 DEF DokanProcessAndPullEvents, IsUnmountPending
  <2>3. ASSUME NEW t \in Puller, KeRemoveQueueEx(t) PROVE TypeOK'
    BY <2>3 DEF KeRemoveQueueEx
  <2>4. ASSUME NEW t \in Puller, Interrupted(t) PROVE TypeOK'
    BY <2>4 DEF Interrupted, IsUnmountPending
  <2>5. ASSUME NEW t \in Puller, PullEvents(t) PROVE TypeOK'
    BY <2>5 DEF PullEvents, KeInsertQueueIfClear
  <2>6. CASE SetUnmountPending
    BY <2>6 DEF SetUnmountPending
  <2>7. CASE ReleaseNotifyEvent
    BY <2>7 DEF ReleaseNotifyEvent
  <2>8. CASE KeRundownQueue
    BY <2>8 DEF KeRundownQueue
  <2>9. CASE UNCHANGED vars
    BY <2>9 DEF vars
  <2> QED
    BY <2>1, <2>2, <2>3, <2>4, <2>5, <2>6, <2>7, <2>8, <2>9 DEF Next
<1> QED
  BY <1>1, <1>2, PTL DEF Spec

(* No wakeup is lost: DokanEventNotification and PullEvents leave the      *)
(* kernel queue signalled whenever they leave events behind, and the       *)
(* entry is only taken by a thread that then runs PullEvents.              *)
THEOREM WakeupNeverLost == Spec => []NoLostWakeup
<1>1. Init => NoLostWakeup
  BY DEF Init, NoLostWakeup
<1>2. TypeOK /\ NoLostWakeup /\ [Next]_vars => NoLostWakeup'
  <2> SUFFICES ASSUME TypeOK, NoLostWakeup, [Next]_vars PROVE NoLostWakeup'
    OBVIOUS
  <2> USE DEF TypeOK, Release, NoLostWakeup
  <2>1. ASSUME NEW e \in Event, DokanEventNotification(e)
        PROVE NoLostWakeup'
    <3>1. linked' = 1
      BY <2>1 DEF DokanEventNotification, KeInsertQueueIfClear
    <3> QED
      BY <3>1
  <2>2. ASSUME NEW t \in Puller, DokanProcessAndPullEvents(t)
        PROVE NoLostWakeup'
    BY <2>2 DEF DokanProcessAndPullEvents, IsUnmountPending
  <2>3. ASSUME NEW t \in Puller, KeRemoveQueueEx(t) PROVE NoLostWakeup'
    <3>1. pc'[t] = "pull"
      BY <2>3 DEF KeRemoveQueueEx
    <3> QED
      BY <3>1
  <2>4. ASSUME NEW t \in Puller, Interrupted(t) PROVE NoLostWakeup'
    BY <2>4 DEF Interrupted, IsUnmountPending
  <2>5. ASSUME NEW t \in Puller, PullEvents(t) PROVE NoLostWakeup'
    <3>1. notifyEvent' # <<>> => linked' = 1
      BY <2>5 DEF PullEvents, KeInsertQueueIfClear
    <3> QED
      BY <3>1
  <2>6. CASE SetUnmountPending
    BY <2>6 DEF SetUnmountPending
  <2>7. CASE ReleaseNotifyEvent
    BY <2>7 DEF ReleaseNotifyEvent
  <2>8. CASE KeRundownQueue
    BY <2>8 DEF KeRundownQueue
  <2>9. CASE UNCHANGED vars
    BY <2>9 DEF vars
  <2> QED
    BY <2>1, <2>2, <2>3, <2>4, <2>5, <2>6, <2>7, <2>8, <2>9 DEF Next
<1> QED
  BY <1>1, <1>2, TypeCorrect, PTL DEF Spec
=============================================================================
