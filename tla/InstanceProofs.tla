--------------------------- MODULE InstanceProofs ---------------------------
(***************************************************************************)
(* Proofs about Instance: who may still use an instance, its volume, its   *)
(* list and the waiters of its end, for any number of instances and of     *)
(* pull threads.                                                           *)
(***************************************************************************)
EXTENDS Instance, TLAPS

InstType ==
  [mem : {"none", "live", "freed"}, closed : BOOLEAN, started : BOOLEAN, stopped : BOOLEAN,
   named : BOOLEAN, keepalive : BOOLEAN, running : Nat, notifying : Nat,
   UnmountedCalled : Nat, unmounted : Nat, mounted : {"no", "yes", "late"},
   point : BOOLEAN, cancel : BOOLEAN, lost : BOOLEAN]

Creating == {"idle", "global", "start", "open", "queue", "ready", "mount", "keepalive",
             "release"}
Deleting == {"delete", "join", "unlist"}
Stages == Creating \cup Deleting \cup {"owned", "main", "close", "wait", "gone"}

\* Past WaitForDispatchReady.
Up == {"mount", "keepalive", "owned", "main", "close", "wait"}

\* The types of the variables.
InstanceTypes ==
  /\ inst \in [Instance -> InstType]
  /\ volume \in [Instance -> {"none", "mounted", "released"}]
  /\ th \in [Thread -> [pc : Stages \cup {"sweep"}, inst : Instance \cup {Head}]]
  /\ pool \in BOOLEAN /\ g_DokanInitialized \in Nat /\ inits \in Nat
  /\ Flink \in [Instance \cup {Head} -> Instance \cup {Head}]
  /\ Blink \in [Instance \cup {Head} -> Instance \cup {Head}]

\* Who works on which instance.  While DokanShutdown runs, it has the lock of
\* the list and no call of the host is in progress.
ThreadsApart ==
  /\ \A i \in Instance : th[i].inst = i /\ th[i].pc \in Stages
  /\ th["shutdown"].pc \in {"idle", "sweep", "close", "wait"} \cup Deleting
  /\ th["shutdown"].inst = Head <=> th["shutdown"].pc \in {"idle", "sweep"}
  /\ th["shutdown"].pc # "idle" <=> g = "shutdown"
  /\ th["shutdown"].pc # "idle" => \A i \in Instance : Settled(i)
  /\ \A i \in Instance : th["shutdown"].inst = i => th[i].pc = "owned"

\* How far instance i is: as the thread that closes it says.
Stage(i) == IF th["shutdown"].inst = i THEN th["shutdown"].pc ELSE th[i].pc

\* The volume is gone, or a release of it failed.
Ended(o, v) == v # "mounted" \/ o.lost

\* What holds of instance o at stage s with its volume v.
Sound(o, s, v) ==
  /\ s = "idle" => o.mem = "none" /\ o.unmounted = 0
  /\ s \in Using => o.mem = "live"
  /\ s = "gone" => o.mem # "live"
  /\ s \in {"idle", "global", "start"} => v = "none"
  /\ s \in {"idle", "global", "start", "open"} =>
       o.running = 0 /\ o.UnmountedCalled = 0 /\ ~o.closed
  /\ s \in Creating => o.mounted = "no"
  /\ o.mem # "live" => o.running = 0 /\ o.UnmountedCalled = 0 /\ ~o.closed
  /\ o.mem = "live" => o.UnmountedCalled = o.unmounted + o.notifying
  /\ o.notifying =< o.running /\ o.UnmountedCalled =< 1 /\ o.unmounted =< 1
  /\ o.UnmountedCalled > 0 /\ o.notifying = 0 => o.closed
  /\ o.closed /\ s \notin Deleting => o.UnmountedCalled > 0
  /\ s = "queue" => o.UnmountedCalled > 0
  /\ s \in {"queue", "ready"} \cup Up /\ o.mem = "live" => o.running > 0 \/ o.closed
  /\ s = "ready" /\ o.UnmountedCalled > 0 /\ ~o.closed => Ended(o, v)
  /\ s \in Up /\ o.UnmountedCalled > 0 => Ended(o, v)
  /\ s \in Deleting => Ended(o, v) /\ (o.mounted # "no" => o.UnmountedCalled > 0)
  /\ s = "unlist" => o.running = 0
  /\ o.mem = "freed" => Ended(o, v) /\ (o.mounted # "no" => o.unmounted = 1)

InstancesSound == \A i \in Instance : Sound(inst[i], Stage(i), volume[i])

PoolsOutlive == \A i \in Instance : inst[i].mem = "live" => pool

\* The entries of the list with its head.
Entries == {i \in Instance : Listed(i)} \cup {Head}

\* F and B link the entries E both ways, without a cycle beside the head.
Chain(F, B, E) ==
  /\ \A e \in E : F[e] \in E /\ B[F[e]] = e
  /\ \A e \in E : B[e] \in E /\ F[B[e]] = e
  /\ \A S \in SUBSET (E \ {Head}) : S # {} => \E e \in S : F[e] \notin S

Linked == Chain(Flink, Blink, Entries)

\* The entry DokanShutdown has taken out still points to its neighbours.
TakenOut ==
  LET i == th["shutdown"].inst
  IN i # Head => Blink[i] = Head /\ Flink[i] = Flink[Head]

InstanceInv ==
  /\ InstanceTypes /\ ThreadsApart /\ InstancesSound /\ PoolsOutlive
  /\ Linked /\ TakenOut

-----------------------------------------------------------------------------
(* The parts of the invariant, step by step.                                 *)

\* The fields of an instance that Sound reads.
SameCore(p, o) ==
  /\ p.mem = o.mem /\ p.closed = o.closed /\ p.running = o.running
  /\ p.notifying = o.notifying /\ p.UnmountedCalled = o.UnmountedCalled
  /\ p.unmounted = o.unmounted /\ p.mounted = o.mounted /\ p.lost = o.lost

(* The other fields do not matter.                                         *)
LEMMA CoreSound ==
  ASSUME NEW o, NEW p, NEW s, NEW v, SameCore(p, o), Sound(o, s, v)
  PROVE  Sound(p, s, v)
  BY DEF SameCore, Sound, Ended

\* One instance changes and stays allocated or not.
Local(i) ==
  /\ inst' \in [Instance -> InstType] /\ inst'[i].mem = inst[i].mem
  /\ \A j \in Instance \ {i} : inst'[j] = inst[j]
  /\ volume' \in [Instance -> {"none", "mounted", "released"}]
  /\ \A j \in Instance \ {i} : volume'[j] = volume[j]
  /\ UNCHANGED <<globals, list>>

\* Only the stage of i may change.
StagesOf(i) ==
  /\ th' \in [Thread -> [pc : Stages \cup {"sweep"}, inst : Instance \cup {Head}]]
  /\ th'["shutdown"].inst = th["shutdown"].inst
  /\ \A j \in Instance \ {i} : Stage(j)' = Stage(j)

(* The list stays as it is when nobody comes or goes.                      *)
LEMMA ListSame ==
  ASSUME Linked, TakenOut, UNCHANGED list, \A i \in Instance : inst'[i].mem = inst[i].mem,
         th'["shutdown"].inst = th["shutdown"].inst
  PROVE  Linked' /\ TakenOut'
<1>1. UNCHANGED <<Flink, Blink>>
  BY DEF list
<1>2. Entries' = Entries
  BY DEF Entries, Listed
<1>3. Linked'
  BY <1>1, <1>2 DEF Linked
<1>4. TakenOut'
  BY <1>1 DEF TakenOut
<1> QED
  BY <1>3, <1>4

(* A step on one instance owes the invariant only that instance.           *)
LEMMA LocalStep ==
  ASSUME InstanceInv, NEW i \in Instance, Local(i), StagesOf(i), ThreadsApart',
         Sound(inst'[i], Stage(i)', volume'[i])
  PROVE  InstanceInv'
<1>1. \A j \in Instance : inst'[j].mem = inst[j].mem
  BY DEF Local
<1>2. Linked' /\ TakenOut'
  BY <1>1, ListSame DEF InstanceInv, Local, StagesOf
<1>3. InstancesSound'
  <2>1. ASSUME NEW j \in Instance, j # i PROVE Sound(inst'[j], Stage(j)', volume'[j])
    <3>1. inst'[j] = inst[j] /\ Stage(j)' = Stage(j) /\ volume'[j] = volume[j]
      BY <2>1 DEF Local, StagesOf
    <3>2. Sound(inst[j], Stage(j), volume[j])
      BY DEF InstanceInv, InstancesSound
    <3> QED
      BY <3>1, <3>2
  <2> QED
    BY <2>1 DEF InstancesSound
<1>4. PoolsOutlive'
  BY <1>1 DEF InstanceInv, PoolsOutlive, Local, globals
<1>5. InstanceTypes'
  BY DEF InstanceInv, InstanceTypes, Local, StagesOf, globals, list
<1> QED
  BY <1>2, <1>3, <1>4, <1>5 DEF InstanceInv

(* The host's thread of an instance moves: not while DokanShutdown runs.   *)
LEMMA OwnMove ==
  ASSUME InstanceInv, NEW i \in Instance, NEW s \in Stages, th["shutdown"].pc = "idle",
         Goto(i, s), g' # "shutdown"
  PROVE  /\ ThreadsApart' /\ StagesOf(i) /\ Stage(i) = th[i].pc /\ Stage(i)' = s
<1>1. /\ InstanceTypes /\ ThreadsApart /\ i # "shutdown" /\ Head \notin Instance
      /\ "shutdown" \notin Instance
  BY InstanceAssumption DEF InstanceInv
<1>2. th' = [th EXCEPT ![i].pc = s]
  BY DEF Goto
<1>3. /\ th'[i].pc = s /\ th'[i].inst = th[i].inst
      /\ \A t \in Thread \ {i} : th'[t] = th[t]
      /\ th' \in [Thread -> [pc : Stages \cup {"sweep"}, inst : Instance \cup {Head}]]
  BY <1>1, <1>2 DEF InstanceTypes, Thread
<1>4. th'["shutdown"] = th["shutdown"] /\ \A j \in Instance \ {i} : th'[j] = th[j]
  BY <1>1, <1>3 DEF Thread
<1>5. th["shutdown"].inst = Head
  BY <1>1 DEF ThreadsApart
<1>6. ThreadsApart'
  BY <1>1, <1>3, <1>4, <1>5 DEF ThreadsApart
<1>7. \A j \in Instance : Stage(j) = th[j].pc /\ Stage(j)' = th'[j].pc
  BY <1>1, <1>4, <1>5 DEF Stage
<1> QED
  BY <1>3, <1>4, <1>6, <1>7 DEF StagesOf

(* A call of the host is in progress, so DokanShutdown is not.             *)
LEMMA InProgress ==
  ASSUME InstanceInv, NEW i \in Instance, th[i].pc \notin {"idle", "gone", "owned"}
  PROVE  th["shutdown"].pc = "idle" /\ g # "shutdown"
  BY DEF InstanceInv, ThreadsApart, Settled

(* A step in which no thread moves.                                        *)
LEMMA NoMove ==
  ASSUME InstanceInv, NEW i \in Instance, UNCHANGED <<th, g>>
  PROVE  ThreadsApart' /\ StagesOf(i) /\ Stage(i)' = Stage(i)
  BY DEF InstanceInv, InstanceTypes, ThreadsApart, StagesOf, Stage, Settled

(* Whoever closes or deletes an instance moves.                            *)
LEMMA CloserMoves ==
  ASSUME InstanceInv, NEW t \in Thread, th[t].pc \in {"close", "wait"} \cup Deleting,
         NEW s \in {"wait"} \cup Deleting, Goto(t, s), g' \in {g, t}
  PROVE  \E i \in Instance : /\ i = th[t].inst /\ ThreadsApart' /\ StagesOf(i)
                             /\ Stage(i) = th[t].pc /\ Stage(i)' = s
<1>1. /\ InstanceTypes /\ ThreadsApart /\ Head \notin Instance /\ "shutdown" \notin Instance
  BY InstanceAssumption DEF InstanceInv
<1>2. s \in Stages
  BY DEF Stages
<1>3. CASE t \in Instance
  <2>1. th[t].inst = t /\ t # "shutdown"
    BY <1>1, <1>3 DEF ThreadsApart
  <2>2. th["shutdown"].pc = "idle" /\ g # "shutdown"
    BY <1>3, InProgress DEF Deleting
  <2>3. g' # "shutdown"
    BY <2>1, <2>2
  <2>4. /\ ThreadsApart' /\ StagesOf(t) /\ Stage(t) = th[t].pc /\ Stage(t)' = s
    BY <1>2, <1>3, <2>2, <2>3, OwnMove
  <2> QED
    BY <1>3, <2>1, <2>4
<1>4. CASE t = "shutdown"
  <2>0. PICK i \in Instance : i = th["shutdown"].inst
    BY <1>1, <1>4, Zenon DEF InstanceTypes, ThreadsApart, Deleting, Thread
  <2>1. th[i].pc = "owned" /\ g = "shutdown" /\ g' = "shutdown"
    BY <1>1, <1>4, <2>0 DEF ThreadsApart, Deleting
  <2>2. /\ th'["shutdown"].pc = s /\ th'["shutdown"].inst = i
        /\ \A j \in Instance : th'[j] = th[j]
        /\ th' \in [Thread -> [pc : Stages \cup {"sweep"}, inst : Instance \cup {Head}]]
    <3>1. th' = [th EXCEPT !["shutdown"].pc = s] /\ "shutdown" \in Thread
      BY <1>4 DEF Goto, Thread
    <3>2. th \in [Thread -> [pc : Stages \cup {"sweep"}, inst : Instance \cup {Head}]]
      BY <1>1 DEF InstanceTypes
    <3>3. \A j \in Instance : j \in Thread /\ j # "shutdown"
      BY <1>1 DEF Thread
    <3> QED
      BY <1>2, <2>0, <3>1, <3>2, <3>3
  <2>3. ThreadsApart'
    <3>1. \A j \in Instance : th'[j].inst = j /\ th'[j].pc \in Stages
      BY <1>1, <2>2 DEF ThreadsApart
    <3>2. /\ th'["shutdown"].pc \in {"idle", "sweep", "close", "wait"} \cup Deleting
          /\ th'["shutdown"].pc \notin {"idle", "sweep"} /\ th'["shutdown"].inst # Head
      BY <1>1, <2>1, <2>2 DEF Deleting
    <3>3. \A j \in Instance : Settled(j)'
      <4>1. th["shutdown"].pc # "idle"
        BY <1>4 DEF Deleting
      <4> QED
        BY <1>1, <2>2, <4>1 DEF ThreadsApart, Settled
    <3> QED
      BY <2>1, <2>2, <3>1, <3>2, <3>3 DEF ThreadsApart
  <2>4. StagesOf(i) /\ Stage(i) = th["shutdown"].pc /\ Stage(i)' = s
    BY <2>0, <2>1, <2>2 DEF StagesOf, Stage
  <2> QED
    BY <1>4, <2>0, <2>3, <2>4
<1> QED
  BY <1>3, <1>4 DEF Thread

-----------------------------------------------------------------------------
(* The callbacks, and what may happen at any stage.                          *)

\* p differs from o in fields Sound does not read.
LEMMA Harmless ==
  ASSUME NEW o \in InstType, NEW b \in BOOLEAN
  PROVE  /\ [o EXCEPT !.started = b] \in InstType /\ SameCore([o EXCEPT !.started = b], o)
         /\ [o EXCEPT !.stopped = b] \in InstType /\ SameCore([o EXCEPT !.stopped = b], o)
         /\ [o EXCEPT !.named = b] \in InstType /\ SameCore([o EXCEPT !.named = b], o)
         /\ [o EXCEPT !.keepalive = b] \in InstType /\ SameCore([o EXCEPT !.keepalive = b], o)
         /\ [o EXCEPT !.point = b] \in InstType /\ SameCore([o EXCEPT !.point = b], o)
         /\ [o EXCEPT !.cancel = b] \in InstType /\ SameCore([o EXCEPT !.cancel = b], o)
<1>1. /\ [o EXCEPT !.started = b] \in InstType /\ SameCore([o EXCEPT !.started = b], o)
      /\ [o EXCEPT !.stopped = b] \in InstType /\ SameCore([o EXCEPT !.stopped = b], o)
  BY DEF InstType, SameCore
<1>2. /\ [o EXCEPT !.named = b] \in InstType /\ SameCore([o EXCEPT !.named = b], o)
      /\ [o EXCEPT !.keepalive = b] \in InstType /\ SameCore([o EXCEPT !.keepalive = b], o)
  BY DEF InstType, SameCore
<1>3. /\ [o EXCEPT !.point = b] \in InstType /\ SameCore([o EXCEPT !.point = b], o)
      /\ [o EXCEPT !.cancel = b] \in InstType /\ SameCore([o EXCEPT !.cancel = b], o)
  BY DEF InstType, SameCore
<1> QED
  BY <1>1, <1>2, <1>3

(* A release that failed: the volume is given up for lost.                 *)
LEMMA LostSound ==
  ASSUME NEW o \in InstType, NEW b \in BOOLEAN, o.lost => b, NEW s, NEW v, Sound(o, s, v)
  PROVE  /\ [o EXCEPT !.lost = b] \in InstType /\ Sound([o EXCEPT !.lost = b], s, v)
         /\ [o EXCEPT !.lost = b].mem = o.mem /\ [o EXCEPT !.lost = b].lost = b
<1> DEFINE p == [o EXCEPT !.lost = b]
<1>1. p \in InstType
  BY DEF InstType
<1>2. /\ p.mem = o.mem /\ p.closed = o.closed /\ p.running = o.running
      /\ p.notifying = o.notifying /\ p.UnmountedCalled = o.UnmountedCalled
      /\ p.unmounted = o.unmounted /\ p.mounted = o.mounted /\ p.lost = b
  BY DEF InstType
<1>3. Sound(p, s, v)
  <2> HIDE DEF p
  <2> QED
    BY <1>2 DEF Sound, Ended
<1> QED
  BY <1>1, <1>2, <1>3

(* A volume that is released pleases Sound at every stage behind the start. *)
LEMMA ReleasedSound ==
  ASSUME NEW o, NEW s, NEW v, Sound(o, s, v), s \notin {"idle", "global", "start"}
  PROVE  Sound(o, s, "released")
  BY DEF Sound, Ended

(* OnDeviceIoCtlFailed, when the volume is gone or lost: the first pull     *)
(* thread goes on to tell the host, the others end.                        *)
LEMMA IoCtlFailedSound ==
  ASSUME NEW o \in InstType, NEW s, NEW v, Sound(o, s, v), Ended(o, v),
         o.running > o.notifying
  PROVE  LET p == OnDeviceIoCtlFailed(o)
         IN p \in InstType /\ Sound(p, s, v) /\ p.mem = o.mem
<1> DEFINE p == OnDeviceIoCtlFailed(o)
<1>1. o.running \in Nat /\ o.notifying \in Nat /\ o.UnmountedCalled \in Nat /\ o.unmounted \in Nat
  BY DEF InstType
<1>2. CASE o.UnmountedCalled = 0
  <2>1. p = [o EXCEPT !.UnmountedCalled = 1, !.notifying = @ + 1]
    BY <1>2 DEF OnDeviceIoCtlFailed
  <2>2. p \in InstType
    <3>1. o.notifying + 1 \in Nat /\ 1 \in Nat
      BY <1>1
    <3> QED
      BY <2>1, <3>1, Zenon DEF InstType
  <2>3. /\ p.mem = o.mem /\ p.closed = o.closed /\ p.running = o.running
        /\ p.notifying = o.notifying + 1 /\ p.UnmountedCalled = 1
        /\ p.unmounted = o.unmounted /\ p.mounted = o.mounted /\ p.lost = o.lost
    BY <2>1 DEF InstType
  <2> HIDE DEF p
  <2>4. Sound(p, s, v)
    <3>1. /\ o.running > 0 /\ o.mem = "live" /\ s # "unlist"
          /\ s \notin {"idle", "global", "start", "open"}
      BY <1>1 DEF Sound
    <3>2. o.unmounted = 0 /\ o.notifying = 0
      BY <1>1, <1>2, <3>1 DEF Sound
    <3>3. p.notifying = 1 /\ p.unmounted = 0 /\ p.running >= 1
      BY <1>1, <2>3, <3>1, <3>2
    <3> QED
      BY <2>3, <3>1, <3>3 DEF Sound, Ended
  <2> QED
    BY <2>2, <2>3, <2>4 DEF p
<1>3. CASE o.UnmountedCalled # 0
  <2>1. p = [o EXCEPT !.closed = TRUE, !.running = @ - 1]
    BY <1>3 DEF OnDeviceIoCtlFailed, SetDeviceClosed
  <2>2. o.running - 1 \in Nat
    BY <1>1
  <2>3. p \in InstType
    BY <2>1, <2>2, Zenon DEF InstType
  <2>4. /\ p.mem = o.mem /\ p.closed /\ p.running = o.running - 1
        /\ p.notifying = o.notifying /\ p.UnmountedCalled = o.UnmountedCalled
        /\ p.unmounted = o.unmounted /\ p.mounted = o.mounted /\ p.lost = o.lost
    BY <2>1 DEF InstType
  <2> HIDE DEF p
  <2>5. Sound(p, s, v)
    BY <1>1, <1>3, <2>4 DEF Sound, Ended
  <2> QED
    BY <2>3, <2>4, <2>5 DEF p
<1> QED
  BY <1>2, <1>3

\* The instance after DokanNotifyUnmounted.
Notified(o) == SetDeviceClosed([o EXCEPT !.notifying = @ - 1, !.unmounted = @ + 1,
                                         !.point = FALSE])

(* DokanNotifyUnmounted: Unmounted was called once, by the thread that ends. *)
LEMMA NotifiedSound ==
  ASSUME NEW o \in InstType, NEW s, NEW v, Sound(o, s, v), o.notifying > 0
  PROVE  Notified(o) \in InstType /\ Sound(Notified(o), s, v) /\ Notified(o).mem = o.mem
<1> DEFINE q == [o EXCEPT !.notifying = @ - 1, !.unmounted = @ + 1, !.point = FALSE]
           p == [q EXCEPT !.closed = TRUE, !.running = @ - 1]
<1>1. /\ o.running \in Nat /\ o.notifying \in Nat /\ o.UnmountedCalled \in Nat
      /\ o.unmounted \in Nat /\ o.notifying =< o.running
  BY DEF InstType, Sound
<1>2. o.running - 1 \in Nat /\ o.notifying - 1 \in Nat /\ o.unmounted + 1 \in Nat
  BY <1>1
<1>3. q \in InstType /\ q.running = o.running
  BY <1>2, Zenon DEF InstType
<1>4. /\ q.mem = o.mem /\ q.notifying = o.notifying - 1 /\ q.unmounted = o.unmounted + 1
      /\ q.UnmountedCalled = o.UnmountedCalled /\ q.mounted = o.mounted /\ q.lost = o.lost
  BY DEF InstType
<1>5. Notified(o) = p
  BY DEF Notified, SetDeviceClosed
<1> HIDE DEF q
<1>6. p \in InstType
  BY <1>2, <1>3, Zenon DEF InstType
<1>7. /\ p.mem = o.mem /\ p.closed /\ p.running = o.running - 1
      /\ p.notifying = o.notifying - 1 /\ p.UnmountedCalled = o.UnmountedCalled
      /\ p.unmounted = o.unmounted + 1 /\ p.mounted = o.mounted /\ p.lost = o.lost
  BY <1>3, <1>4 DEF InstType
<1> HIDE DEF p
<1>8. Sound(p, s, v)
  BY <1>1, <1>7 DEF Sound, Ended
<1> QED
  BY <1>5, <1>6, <1>7, <1>8

VolumeState == {"none", "mounted", "released"}

(* The instance becomes p and its volume v.                                *)
LEMMA LocalUpdate ==
  ASSUME InstanceInv, NEW i \in Instance, NEW p \in InstType, p.mem = inst[i].mem,
         NEW v \in VolumeState,
         inst' = [inst EXCEPT ![i] = p] \/ (UNCHANGED inst /\ p = inst[i]),
         volume' = [volume EXCEPT ![i] = v] \/ (UNCHANGED volume /\ v = volume[i]),
         UNCHANGED <<globals, list>>
  PROVE  Local(i) /\ inst'[i] = p /\ volume'[i] = v
<1>1. inst \in [Instance -> InstType] /\ volume \in [Instance -> VolumeState]
  BY DEF InstanceInv, InstanceTypes, VolumeState
<1>2. /\ inst' \in [Instance -> InstType] /\ inst'[i] = p
      /\ \A j \in Instance \ {i} : inst'[j] = inst[j]
  BY <1>1
<1>3. /\ volume' \in [Instance -> VolumeState] /\ volume'[i] = v
      /\ \A j \in Instance \ {i} : volume'[j] = volume[j]
  BY <1>1
<1> QED
  BY <1>2, <1>3 DEF Local, VolumeState

(* It does so at its stage.                                                *)
LEMMA StayStep ==
  ASSUME InstanceInv, NEW i \in Instance, NEW p \in InstType, p.mem = inst[i].mem,
         NEW v \in VolumeState, Sound(p, Stage(i), v),
         inst' = [inst EXCEPT ![i] = p] \/ (UNCHANGED inst /\ p = inst[i]),
         volume' = [volume EXCEPT ![i] = v] \/ (UNCHANGED volume /\ v = volume[i]),
         UNCHANGED <<globals, g, list, th>>
  PROVE  InstanceInv'
<1>1. Local(i) /\ inst'[i] = p /\ volume'[i] = v
  BY LocalUpdate
<1>2. ThreadsApart' /\ StagesOf(i) /\ Stage(i)' = Stage(i)
  BY NoMove
<1>3. Sound(inst'[i], Stage(i)', volume'[i])
  BY <1>1, <1>2
<1> QED
  BY <1>1, <1>2, <1>3, LocalStep

(* Or its own thread moves to stage s.                                     *)
LEMMA OwnStep ==
  ASSUME InstanceInv, NEW i \in Instance, NEW p \in InstType, p.mem = inst[i].mem,
         NEW v \in VolumeState, NEW s \in Stages, Sound(p, s, v),
         th["shutdown"].pc = "idle",
         inst' = [inst EXCEPT ![i] = p] \/ (UNCHANGED inst /\ p = inst[i]),
         volume' = [volume EXCEPT ![i] = v] \/ (UNCHANGED volume /\ v = volume[i]),
         Goto(i, s), UNCHANGED <<globals, g, list>>
  PROVE  InstanceInv'
<1>1. Local(i) /\ inst'[i] = p /\ volume'[i] = v
  BY LocalUpdate
<1>2. g' # "shutdown"
  BY DEF InstanceInv, ThreadsApart
<1>3. ThreadsApart' /\ StagesOf(i) /\ Stage(i)' = s
  BY <1>2, OwnMove
<1>4. Sound(inst'[i], Stage(i)', volume'[i])
  BY <1>1, <1>3
<1> QED
  BY <1>1, <1>3, <1>4, LocalStep

(* What an action finds.                                                   *)
LEMMA Found ==
  ASSUME InstanceInv, NEW i \in Instance
  PROVE  /\ inst[i] \in InstType /\ volume[i] \in VolumeState
         /\ Sound(inst[i], Stage(i), volume[i])
         /\ th["shutdown"].pc = "idle" => Stage(i) = th[i].pc
         /\ th[i].pc \in Stages
<1>1. th["shutdown"].pc = "idle" => th["shutdown"].inst # i
  BY InstanceAssumption DEF InstanceInv, ThreadsApart
<1> QED
  BY <1>1, Zenon DEF InstanceInv, InstanceTypes, InstancesSound, ThreadsApart, VolumeState, Stage

(* The host cancels; a pull thread says that it has begun.                 *)
LEMMA CancelStep ==
  ASSUME InstanceInv, NEW i \in Instance, Cancel(i) \/ PullStarted(i)
  PROVE  InstanceInv'
<1>1. inst[i] \in InstType /\ volume[i] \in VolumeState /\ Sound(inst[i], Stage(i), volume[i])
  BY Found
<1>2. CASE Cancel(i)
  <2> DEFINE p == [inst[i] EXCEPT !.cancel = TRUE]
  <2>1. p \in InstType /\ SameCore(p, inst[i])
    BY <1>1, Harmless, Zenon
  <2>2. inst' = [inst EXCEPT ![i] = p]
    BY <1>2 DEF Cancel
  <2> HIDE DEF p
  <2>3. Sound(p, Stage(i), volume[i]) /\ p.mem = inst[i].mem
    BY <1>1, <2>1, CoreSound DEF SameCore
  <2> QED
    BY <1>1, <1>2, <2>1, <2>2, <2>3, StayStep, Zenon DEF Cancel
<1>3. CASE PullStarted(i)
  <2> DEFINE p == [inst[i] EXCEPT !.started = TRUE]
  <2>1. p \in InstType /\ SameCore(p, inst[i])
    BY <1>1, Harmless, Zenon
  <2>2. inst' = [inst EXCEPT ![i] = p]
    BY <1>3 DEF PullStarted
  <2> HIDE DEF p
  <2>3. Sound(p, Stage(i), volume[i]) /\ p.mem = inst[i].mem
    BY <1>1, <2>1, CoreSound DEF SameCore
  <2> QED
    BY <1>1, <1>3, <2>1, <2>2, <2>3, StayStep, Zenon DEF PullStarted
<1> QED
  BY <1>2, <1>3, Zenon

(* A pull thread fails: the driver refuses it, or it is out of memory.     *)
LEMMA PullFailedStep ==
  ASSUME InstanceInv, NEW i \in Instance, PullFailed(i) \/ PullOutOfMemory(i)
  PROVE  InstanceInv'
<1>1. inst[i] \in InstType /\ volume[i] \in VolumeState /\ Sound(inst[i], Stage(i), volume[i])
  BY Found
<1>2. ASSUME NEW q \in InstType, Sound(q, Stage(i), volume[i]), Ended(q, volume[i]),
             q.running = inst[i].running, q.notifying = inst[i].notifying,
             q.mem = inst[i].mem, inst' = [inst EXCEPT ![i] = OnDeviceIoCtlFailed(q)]
      PROVE  InstanceInv'
  <2>1. q.running > q.notifying /\ UNCHANGED <<globals, g, list, volume, th>>
    BY <1>2 DEF PullFailed, PullOutOfMemory, Pulling
  <2>2. /\ OnDeviceIoCtlFailed(q) \in InstType /\ OnDeviceIoCtlFailed(q).mem = inst[i].mem
        /\ Sound(OnDeviceIoCtlFailed(q), Stage(i), volume[i])
    BY <1>2, <2>1, IoCtlFailedSound
  <2> QED
    BY <1>1, <1>2, <2>1, <2>2, StayStep, Zenon
<1> DEFINE q == [inst[i] EXCEPT !.started = TRUE]
<1>3. q \in InstType /\ SameCore(q, inst[i])
  BY <1>1, Harmless, Zenon
<1>4. CASE PullFailed(i)
  <2>1. inst' = [inst EXCEPT ![i] = OnDeviceIoCtlFailed(q)] /\ volume[i] # "mounted"
    BY <1>4 DEF PullFailed
  <2> HIDE DEF q
  <2>2. Sound(q, Stage(i), volume[i]) /\ Ended(q, volume[i])
    BY <1>1, <1>3, <2>1, CoreSound DEF Ended
  <2> QED
    BY <1>2, <1>3, <2>1, <2>2, Zenon DEF SameCore
<1>5. CASE PullOutOfMemory(i)
  <2> DEFINE l == [q EXCEPT !.lost = TRUE]
  <2>1. inst' = [inst EXCEPT ![i] = OnDeviceIoCtlFailed(l)]
    BY <1>5 DEF PullOutOfMemory
  <2> HIDE DEF q
  <2>2. Sound(q, Stage(i), volume[i])
    BY <1>1, <1>3, CoreSound
  <2>3. l \in InstType /\ Sound(l, Stage(i), volume[i]) /\ l.mem = q.mem /\ l.lost
    BY <1>3, <2>2, LostSound, Zenon
  <2>4. l.running = q.running /\ l.notifying = q.notifying
    BY <1>3 DEF InstType
  <2> HIDE DEF l
  <2>5. Ended(l, volume[i])
    BY <2>3 DEF Ended
  <2> QED
    BY <1>2, <1>3, <2>1, <2>3, <2>4, <2>5, Zenon DEF SameCore
<1> QED
  BY <1>4, <1>5

(* A pull thread whose request failed calls Unmounted and signals the end. *)
LEMMA NotifyStep ==
  ASSUME InstanceInv, NEW i \in Instance, DokanNotifyUnmounted(i)
  PROVE  InstanceInv'
<1>1. inst[i] \in InstType /\ volume[i] \in VolumeState /\ Sound(inst[i], Stage(i), volume[i])
  BY Found
<1>2. inst' = [inst EXCEPT ![i] = Notified(inst[i])] /\ inst[i].notifying > 0
  BY DEF DokanNotifyUnmounted, Notified
<1>3. /\ Notified(inst[i]) \in InstType /\ Notified(inst[i]).mem = inst[i].mem
      /\ Sound(Notified(inst[i]), Stage(i), volume[i])
  BY <1>1, <1>2, NotifiedSound
<1> QED
  BY <1>1, <1>2, <1>3, StayStep, Zenon DEF DokanNotifyUnmounted

(* The driver releases the volume by itself.                               *)
LEMMA RemoveMountPointStep ==
  ASSUME InstanceInv, NEW i \in Instance, DokanRemoveMountPoint(i)
  PROVE  InstanceInv'
<1>1. inst[i] \in InstType /\ Sound(inst[i], Stage(i), volume[i])
  BY Found
<1>2. volume' = [volume EXCEPT ![i] = "released"] /\ volume[i] = "mounted"
  BY Zenon DEF DokanRemoveMountPoint, SendGlobalReleaseIRP
<1>3. Stage(i) \notin {"idle", "global", "start"}
  BY <1>1, <1>2, Zenon DEF Sound
<1>4. Sound(inst[i], Stage(i), "released")
  BY <1>1, <1>3, ReleasedSound
<1>5. "released" \in VolumeState
  BY DEF VolumeState
<1> QED
  BY <1>1, <1>2, <1>4, <1>5, StayStep, Zenon DEF DokanRemoveMountPoint

\* The instance becomes p and its volume v.
Turns(i, p, v) ==
  /\ inst' = [inst EXCEPT ![i] = p] \/ (UNCHANGED inst /\ p = inst[i])
  /\ volume' = [volume EXCEPT ![i] = v] \/ (UNCHANGED volume /\ v = volume[i])

(* SendReleaseIRP: the volume is released, or lost.                        *)
LEMMA ReleaseEffect ==
  ASSUME InstanceInv, NEW i \in Instance, NEW stop \in BOOLEAN, SendReleaseIRP(i, stop),
         Stage(i) \notin {"idle", "global", "start"}
  PROVE  \E p \in InstType, v \in VolumeState :
           /\ Turns(i, p, v) /\ p.mem = inst[i].mem /\ Ended(p, v)
           /\ Sound(p, Stage(i), v)
<1>1. inst[i] \in InstType /\ volume[i] \in VolumeState /\ Sound(inst[i], Stage(i), volume[i])
  BY Found
<1>2. CASE /\ inst' = [inst EXCEPT ![i].stopped = @ \/ stop]
           /\ volume' = [volume EXCEPT ![i] = "released"]
  <2> DEFINE b == inst[i].stopped \/ stop
             p == [inst[i] EXCEPT !.stopped = b]
  <2>1. b \in BOOLEAN
    BY <1>1 DEF InstType
  <2>2. inst' = [inst EXCEPT ![i] = p]
    BY <1>2
  <2> HIDE DEF b
  <2>3. p \in InstType /\ SameCore(p, inst[i])
    BY <1>1, <2>1, Harmless, Zenon
  <2> HIDE DEF p
  <2>4. Sound(p, Stage(i), "released") /\ p.mem = inst[i].mem
    BY <1>1, <2>3, CoreSound, ReleasedSound DEF SameCore
  <2>5. Ended(p, "released") /\ "released" \in VolumeState
    BY DEF Ended, VolumeState
  <2>6. Turns(i, p, "released")
    BY <1>2, <2>2, Zenon DEF Turns
  <2> QED
    BY <2>3, <2>4, <2>5, <2>6
<1>3. CASE /\ inst' = [inst EXCEPT ![i].lost = @ \/ volume[i] = "mounted"]
           /\ UNCHANGED volume
  <2> DEFINE b == inst[i].lost \/ volume[i] = "mounted"
             p == [inst[i] EXCEPT !.lost = b]
  <2>1. b \in BOOLEAN /\ (inst[i].lost => b) /\ (volume[i] = "mounted" => b)
    BY <1>1 DEF InstType
  <2>2. inst' = [inst EXCEPT ![i] = p]
    BY <1>3
  <2> HIDE DEF b
  <2>3. p \in InstType /\ Sound(p, Stage(i), volume[i]) /\ p.mem = inst[i].mem /\ p.lost = b
    BY <1>1, <2>1, LostSound
  <2> HIDE DEF p
  <2>4. Ended(p, volume[i])
    BY <2>1, <2>3 DEF Ended
  <2>5. Turns(i, p, volume[i])
    BY <1>3, <2>2, Zenon DEF Turns
  <2> QED
    BY <1>1, <2>3, <2>4, <2>5
<1> QED
  BY <1>2, <1>3 DEF SendReleaseIRP

(* DokanRequestUnmount does nothing, or that.                              *)
LEMMA RequestEffect ==
  ASSUME InstanceInv, NEW i \in Instance, DokanRequestUnmount(i),
         Stage(i) \notin {"idle", "global", "start"}
  PROVE  \E p \in InstType, v \in VolumeState :
           Turns(i, p, v) /\ p.mem = inst[i].mem /\ Sound(p, Stage(i), v)
<1>1. CASE UNCHANGED <<inst, volume>>
  <2>1. inst[i] \in InstType /\ volume[i] \in VolumeState /\ Sound(inst[i], Stage(i), volume[i])
    BY Found
  <2>2. Turns(i, inst[i], volume[i])
    BY <1>1 DEF Turns
  <2> QED
    BY <2>1, <2>2
<1>2. CASE SendReleaseIRP(i, TRUE)
  BY <1>2, ReleaseEffect, Zenon
<1> QED
  BY <1>1, <1>2, Zenon DEF DokanRequestUnmount

(* A callback or another thread of the host asks for the unmount.          *)
LEMMA RequestUnmountStep ==
  ASSUME InstanceInv, NEW i \in Instance, RequestUnmount(i)
  PROVE  InstanceInv'
<1>1. Stage(i) \notin {"idle", "global", "start"}
  <2>1. th["shutdown"].inst = i => th["shutdown"].pc \notin {"idle", "sweep"}
    BY InstanceAssumption DEF InstanceInv, ThreadsApart
  <2> QED
    BY <2>1 DEF RequestUnmount, Stage, InstanceInv, ThreadsApart, Deleting
<1>2. PICK p \in InstType, v \in VolumeState :
        Turns(i, p, v) /\ p.mem = inst[i].mem /\ Sound(p, Stage(i), v)
  BY <1>1, RequestEffect DEF RequestUnmount
<1> QED
  BY <1>2, StayStep DEF RequestUnmount, Turns

-----------------------------------------------------------------------------
(* The creation.                                                             *)

(* A stage that asks no more than the one before it.                       *)
LEMMA PlainMoveStep ==
  ASSUME InstanceInv, NEW i \in Instance,
         \/ CreateOpenGlobal(i) \/ CreateQueued(i) \/ WaitForDispatchReady(i) \/ DokanMain(i)
  PROVE  InstanceInv'
<1>1. th["shutdown"].pc = "idle" /\ UNCHANGED <<globals, g, list, inst, volume>>
  BY InProgress
  DEF CreateOpenGlobal, CreateQueued, WaitForDispatchReady, DokanMain
<1>2. /\ inst[i] \in InstType /\ volume[i] \in VolumeState
      /\ Sound(inst[i], th[i].pc, volume[i])
  BY <1>1, Found, Zenon
<1>3. ASSUME NEW s \in Stages, Goto(i, s), Sound(inst[i], s, volume[i]) PROVE InstanceInv'
  BY <1>1, <1>2, <1>3, OwnStep, Zenon
<1>4. ASSUME CreateOpenGlobal(i) PROVE InstanceInv'
  <2>1. Sound(inst[i], "start", volume[i]) /\ Sound(inst[i], "delete", volume[i])
    BY <1>2, <1>4, Zenon DEF CreateOpenGlobal, Sound, Ended, Using, Up, Deleting, Creating
  <2> QED
    BY <1>3, <1>4, <2>1, Zenon DEF CreateOpenGlobal, Stages, Creating, Deleting
<1>5. ASSUME CreateQueued(i) PROVE InstanceInv'
  <2>1. Sound(inst[i], "ready", volume[i])
    BY <1>2, <1>5, Zenon DEF CreateQueued, Sound, Ended, Using, Up, Deleting, Creating
  <2> QED
    BY <1>3, <1>5, <2>1 DEF CreateQueued, Stages, Creating
<1>6. ASSUME WaitForDispatchReady(i) PROVE InstanceInv'
  <2>1. Sound(inst[i], "release", volume[i])
    BY <1>2, <1>6, Zenon DEF WaitForDispatchReady, Sound, Ended, Using, Up, Deleting, Creating
  <2>2. ~inst[i].closed => Sound(inst[i], "mount", volume[i])
    BY <1>2, <1>6, Zenon DEF WaitForDispatchReady, Sound, Ended, Using, Up, Deleting, Creating
  <2> QED
    BY <1>3, <1>6, <2>1, <2>2 DEF WaitForDispatchReady, Stages, Creating
<1>7. ASSUME DokanMain(i) PROVE InstanceInv'
  <2>1. Sound(inst[i], "delete", volume[i])
    BY <1>2, <1>7, Zenon DEF DokanMain, Sound, Ended, Using, Up, Deleting, Creating
  <2> QED
    BY <1>3, <1>7, <2>1, Zenon DEF DokanMain, Stages, Deleting
<1> QED
  BY <1>4, <1>5, <1>6, <1>7

(* The driver has started the volume, or has not.                          *)
LEMMA StartStep ==
  ASSUME InstanceInv, NEW i \in Instance, DokanStart(i)
  PROVE  InstanceInv'
<1>1. th["shutdown"].pc = "idle" /\ UNCHANGED <<globals, g, list>>
  BY InProgress DEF DokanStart
<1>2. /\ inst[i] \in InstType /\ volume[i] \in VolumeState
      /\ Sound(inst[i], "start", volume[i])
  BY <1>1, Found DEF DokanStart
<1>3. CASE StartAnswered(i) /\ Goto(i, "open")
  <2> DEFINE p == [inst[i] EXCEPT !.named = TRUE]
  <2>1. p \in InstType /\ SameCore(p, inst[i])
    BY <1>2, Harmless, Zenon
  <2>2. inst' = [inst EXCEPT ![i] = p] /\ volume' = [volume EXCEPT ![i] = "mounted"]
    BY <1>3, Zenon DEF StartAnswered
  <2> HIDE DEF p
  <2>3. Sound(p, "start", volume[i]) /\ p.mem = inst[i].mem
    BY <1>2, <2>1, CoreSound, Zenon DEF SameCore
  <2>4. Sound(p, "open", "mounted")
    BY <2>3 DEF Sound, Ended, Using, Up, Deleting, Creating
  <2>5. "mounted" \in VolumeState /\ "open" \in Stages
    BY DEF VolumeState, Stages, Creating
  <2> QED
    BY <1>1, <1>3, <2>1, <2>2, <2>3, <2>4, <2>5, OwnStep, Zenon
<1>4. CASE Goto(i, "delete") /\ UNCHANGED <<inst, volume>>
  <2>1. Sound(inst[i], "delete", volume[i])
    BY <1>2, Zenon DEF Sound, Ended, Using, Up, Deleting, Creating
  <2>2. "delete" \in Stages
    BY DEF Stages, Deleting
  <2> QED
    BY <1>1, <1>2, <1>4, <2>1, <2>2, OwnStep, Zenon
<1> QED
  BY <1>3, <1>4 DEF DokanStart

(* The pull threads are queued, all of them or some.                       *)
LEMMA OpenDeviceStep ==
  ASSUME InstanceInv, NEW i \in Instance, CreateOpenDevice(i)
  PROVE  InstanceInv'
<1>1. th["shutdown"].pc = "idle" /\ UNCHANGED <<globals, g, list, volume>>
  BY InProgress DEF CreateOpenDevice
<1>2. /\ inst[i] \in InstType /\ volume[i] \in VolumeState
      /\ Sound(inst[i], "open", volume[i])
  BY <1>1, Found, Zenon DEF CreateOpenDevice
<1>3. /\ inst[i].running = 0 /\ inst[i].notifying = 0 /\ inst[i].UnmountedCalled = 0
      /\ inst[i].unmounted = 0 /\ ~inst[i].closed /\ inst[i].mem = "live"
      /\ inst[i].mounted = "no"
  BY <1>2 DEF Sound, InstType, Using, Creating
<1>4. "release" \in Stages /\ "ready" \in Stages /\ "queue" \in Stages
  BY DEF Stages, Creating
<1>5. CASE Goto(i, "release") /\ UNCHANGED inst
  <2>1. Sound(inst[i], "release", volume[i])
    BY <1>2, Zenon DEF Sound, Ended, Using, Up, Deleting, Creating
  <2> QED
    BY <1>1, <1>2, <1>4, <1>5, <2>1, OwnStep, Zenon
<1>6. ASSUME NEW n \in Nat, NEW s \in {"ready", "release"}, s = "ready" => n > 0,
             inst' = [inst EXCEPT ![i].running = n], Goto(i, s)
      PROVE  InstanceInv'
  <2> DEFINE p == [inst[i] EXCEPT !.running = n]
  <2>1. p \in InstType
    BY <1>2, <1>6 DEF InstType
  <2>2. /\ p.mem = inst[i].mem /\ p.closed = inst[i].closed /\ p.running = n
        /\ p.notifying = inst[i].notifying /\ p.UnmountedCalled = inst[i].UnmountedCalled
        /\ p.unmounted = inst[i].unmounted /\ p.mounted = inst[i].mounted
    BY <1>2 DEF InstType
  <2>3. inst' = [inst EXCEPT ![i] = p]
    BY <1>6
  <2> HIDE DEF p
  <2>4. Sound(p, s, volume[i])
    BY <1>3, <1>6, <2>2 DEF Sound, Using, Up, Deleting, Creating
  <2> QED
    BY <1>1, <1>2, <1>4, <1>6, <2>1, <2>2, <2>3, <2>4, OwnStep, Zenon
<1>7. ASSUME inst' = [inst EXCEPT ![i] = OnDeviceIoCtlFailed([@ EXCEPT !.running = Pullers])],
             Goto(i, "queue")
      PROVE  InstanceInv'
  <2> DEFINE q == [inst[i] EXCEPT !.running = Pullers]
             p == [q EXCEPT !.UnmountedCalled = 1, !.notifying = q.notifying + 1]
  <2>1. Pullers \in Nat /\ Pullers > 0 /\ 1 \in Nat
    BY InstanceAssumption
  <2>2. /\ q \in InstType /\ q.mem = inst[i].mem /\ q.closed = inst[i].closed
        /\ q.running = Pullers /\ q.notifying = 0 /\ q.UnmountedCalled = 0
        /\ q.unmounted = inst[i].unmounted /\ q.mounted = inst[i].mounted
    BY <1>2, <1>3, <2>1 DEF InstType
  <2>3. inst' = [inst EXCEPT ![i] = OnDeviceIoCtlFailed(q)]
    BY <1>7
  <2> HIDE DEF q
  <2>4. inst' = [inst EXCEPT ![i] = p]
    BY <2>2, <2>3 DEF OnDeviceIoCtlFailed
  <2>5. /\ p \in InstType /\ p.mem = inst[i].mem /\ p.closed = inst[i].closed
        /\ p.running = Pullers /\ p.notifying = 1 /\ p.UnmountedCalled = 1
        /\ p.unmounted = inst[i].unmounted /\ p.mounted = inst[i].mounted
    <3>1. q.notifying + 1 = 1
      BY <2>2
    <3> QED
      BY <2>1, <2>2, <3>1, Zenon DEF InstType
  <2> HIDE DEF p
  <2>6. Sound(p, "queue", volume[i])
    BY <1>3, <2>1, <2>5 DEF Sound, Using, Up, Deleting, Creating
  <2> QED
    BY <1>1, <1>2, <1>4, <1>7, <2>4, <2>5, <2>6, OwnStep, Zenon
<1>8. CASE QueuePullThreads(i)
  <2>1. CASE inst' = [inst EXCEPT ![i].running = Pullers] /\ Goto(i, "ready")
    <3>1. Pullers \in Nat /\ Pullers > 0
      BY InstanceAssumption
    <3> QED
      BY <1>6, <2>1, <3>1, Zenon
  <2>2. ASSUME NEW n \in 0..(Pullers - 1), inst' = [inst EXCEPT ![i].running = n],
               Goto(i, "release")
        PROVE  InstanceInv'
    <3>1. n \in Nat
      BY InstanceAssumption
    <3> QED
      BY <1>6, <2>2, <3>1, Zenon
  <2> QED
    BY <1>7, <1>8, <2>1, <2>2 DEF QueuePullThreads
<1> QED
  BY <1>5, <1>8 DEF CreateOpenDevice

(* The mount point is made, or cannot be.                                  *)
LEMMA MountStep ==
  ASSUME InstanceInv, NEW i \in Instance, DokanMount(i)
  PROVE  InstanceInv'
<1>1. th["shutdown"].pc = "idle" /\ UNCHANGED <<globals, g, list, volume>>
  BY InProgress DEF DokanMount
<1>2. /\ inst[i] \in InstType /\ volume[i] \in VolumeState
      /\ Sound(inst[i], "mount", volume[i])
  BY <1>1, Found, Zenon DEF DokanMount
<1>3. ASSUME NEW p \in InstType, Sound(p, "mount", volume[i])
      PROVE  Sound(p, "release", volume[i]) /\ Sound(p, "keepalive", volume[i])
  BY <1>3, Zenon DEF Sound, Using, Up, Deleting, Creating
<1>4. "release" \in Stages /\ "keepalive" \in Stages
  BY Zenon DEF Stages, Creating
<1>5. CASE Goto(i, "release") /\ UNCHANGED inst
  BY <1>1, <1>2, <1>3, <1>4, <1>5, OwnStep, Zenon
<1>6. ASSUME CreateMountPoint(i), Goto(i, "release") \/ Goto(i, "keepalive")
      PROVE  InstanceInv'
  <2> DEFINE b == i \in Folder
             p == [inst[i] EXCEPT !.point = b]
  <2>1. b \in BOOLEAN /\ inst' = [inst EXCEPT ![i] = p]
    BY <1>6 DEF CreateMountPoint
  <2> HIDE DEF b
  <2>2. p \in InstType /\ SameCore(p, inst[i])
    BY <1>2, <2>1, Harmless, Zenon
  <2> HIDE DEF p
  <2>3. Sound(p, "mount", volume[i]) /\ p.mem = inst[i].mem
    BY <1>2, <2>2, CoreSound, Zenon DEF SameCore
  <2>4. Sound(p, "release", volume[i]) /\ Sound(p, "keepalive", volume[i])
    BY <1>3, <2>2, <2>3
  <2>5. CASE Goto(i, "release")
    BY <1>1, <1>2, <1>4, <2>1, <2>2, <2>3, <2>4, <2>5, OwnStep, Zenon
  <2>6. CASE Goto(i, "keepalive")
    BY <1>1, <1>2, <1>4, <2>1, <2>2, <2>3, <2>4, <2>6, OwnStep, Zenon
  <2> QED
    BY <1>6, <2>5, <2>6
<1> QED
  BY <1>5, <1>6 DEF DokanMount, WaitForMountManagerNamespace

(* The file system is up and the host has its handle, or it was cancelled. *)
LEMMA MountedStep ==
  ASSUME InstanceInv, NEW i \in Instance, CreateMounted(i)
  PROVE  InstanceInv'
<1>1. th["shutdown"].pc = "idle" /\ UNCHANGED <<globals, g, list, volume>>
  BY InProgress DEF CreateMounted
<1>2. /\ inst[i] \in InstType /\ volume[i] \in VolumeState
      /\ Sound(inst[i], "keepalive", volume[i])
  BY <1>1, Found DEF CreateMounted
<1>3. "release" \in Stages /\ "owned" \in Stages /\ "main" \in Stages
  BY DEF Stages, Creating
<1>4. PICK b \in {FALSE, volume[i] = "mounted"} :
        \/ inst' = [inst EXCEPT ![i].keepalive = b] /\ Goto(i, "release")
        \/ /\ inst' = [inst EXCEPT ![i].keepalive = b,
                                   ![i].mounted = IF inst[i].unmounted > 0 THEN "late" ELSE "yes"]
           /\ Goto(i, "owned") \/ Goto(i, "main")
  BY Zenon DEF CreateMounted
<1>5. b \in BOOLEAN
  BY <1>4, Zenon
<1> DEFINE p == [inst[i] EXCEPT !.keepalive = b]
<1>6. p \in InstType /\ SameCore(p, inst[i])
  BY <1>2, <1>5, Harmless, Zenon
<1>7. Sound(p, "keepalive", volume[i]) /\ p.mem = inst[i].mem
  BY <1>2, <1>6, CoreSound, Zenon DEF SameCore
<1>8. CASE inst' = [inst EXCEPT ![i].keepalive = b] /\ Goto(i, "release")
  <2>1. inst' = [inst EXCEPT ![i] = p]
    BY <1>8, Zenon
  <2> HIDE DEF p
  <2>2. Sound(p, "release", volume[i])
    BY <1>7, Zenon DEF Sound, Using, Up, Deleting, Creating
  <2> QED
    BY <1>1, <1>2, <1>3, <1>6, <1>7, <1>8, <2>1, <2>2, OwnStep, Zenon
<1>9. ASSUME inst' = [inst EXCEPT ![i].keepalive = b,
                        ![i].mounted = IF inst[i].unmounted > 0 THEN "late" ELSE "yes"],
             Goto(i, "owned") \/ Goto(i, "main")
      PROVE  InstanceInv'
  <2> DEFINE m == IF inst[i].unmounted > 0 THEN "late" ELSE "yes"
             q == [p EXCEPT !.mounted = m]
  <2>1. inst' = [inst EXCEPT ![i] = q] /\ m \in {"no", "yes", "late"}
    BY <1>9, Zenon
  <2> HIDE DEF p, m
  <2>2. /\ q \in InstType /\ q.mem = p.mem /\ q.closed = p.closed /\ q.running = p.running
        /\ q.notifying = p.notifying /\ q.UnmountedCalled = p.UnmountedCalled
        /\ q.unmounted = p.unmounted /\ q.lost = p.lost
    BY <1>6, <2>1, Zenon DEF InstType
  <2> HIDE DEF q
  <2>3. q.mem = "live"
    BY <1>7, <2>2, Zenon DEF Sound, Using
  <2>4. Sound(q, "owned", volume[i]) /\ Sound(q, "main", volume[i])
    BY <1>7, <2>2, <2>3, Zenon DEF Sound, Ended, Using, Up, Deleting, Creating
  <2>5. q.mem = inst[i].mem
    BY <1>7, <2>2
  <2>6. CASE Goto(i, "owned")
    BY <1>1, <1>2, <1>3, <2>1, <2>2, <2>4, <2>5, <2>6, OwnStep, Zenon
  <2>7. CASE Goto(i, "main")
    BY <1>1, <1>2, <1>3, <2>1, <2>2, <2>4, <2>5, <2>7, OwnStep, Zenon
  <2> QED
    BY <1>9, <2>6, <2>7
<1> QED
  BY <1>4, <1>8, <1>9

(* A failed creation releases its volume.                                  *)
LEMMA ReleaseFailedStep ==
  ASSUME InstanceInv, NEW i \in Instance, ReleaseFailedStart(i)
  PROVE  InstanceInv'
<1>1. th["shutdown"].pc = "idle" /\ UNCHANGED <<globals, g, list>> /\ Goto(i, "delete")
  BY InProgress DEF ReleaseFailedStart
<1>2. Stage(i) = "release" /\ SendReleaseIRP(i, FALSE)
  BY <1>1, Found, Zenon DEF ReleaseFailedStart
<1>3. PICK p \in InstType, v \in VolumeState :
        /\ Turns(i, p, v) /\ p.mem = inst[i].mem /\ Ended(p, v) /\ Sound(p, "release", v)
  BY <1>2, ReleaseEffect, Zenon
<1>4. Sound(p, "delete", v)
  BY <1>3, Zenon DEF Sound, Using, Up, Deleting, Creating
<1>5. "delete" \in Stages
  BY DEF Stages, Deleting
<1> QED
  BY <1>1, <1>3, <1>4, <1>5, OwnStep, Zenon DEF Turns

-----------------------------------------------------------------------------
(* The end.                                                                  *)

(* The host calls DokanCloseHandle.                                        *)
LEMMA CloseHandleStep ==
  ASSUME Careful, InstanceInv, NEW i \in Instance, CloseHandle(i)
  PROVE  InstanceInv'
<1>1. /\ th["shutdown"].pc = "idle" /\ inst[i].mem = "live" /\ Goto(i, "close")
      /\ UNCHANGED <<globals, g, list, inst, volume>>
  BY DEF CloseHandle
<1>2. /\ inst[i] \in InstType /\ volume[i] \in VolumeState
      /\ Sound(inst[i], "owned", volume[i])
  BY <1>1, Found, Zenon DEF CloseHandle
<1>3. Sound(inst[i], "close", volume[i])
  BY <1>1, <1>2, Zenon DEF Sound, Using, Up, Deleting, Creating
<1>4. "close" \in Stages
  BY Zenon DEF Stages
<1> QED
  BY <1>1, <1>2, <1>3, <1>4, OwnStep

(* The instance that is closed or deleted by thread t.                     *)
LEMMA CloserFound ==
  ASSUME InstanceInv, NEW t \in Thread, th[t].pc \in {"close", "wait"} \cup Deleting
  PROVE  \E i \in Instance : /\ i = th[t].inst /\ Stage(i) = th[t].pc
                             /\ inst[i] \in InstType /\ volume[i] \in VolumeState
                             /\ Sound(inst[i], th[t].pc, volume[i])
<1>1. ThreadsApart /\ InstanceTypes
  BY DEF InstanceInv
<1>2. CASE t \in Instance
  <2>1. th["shutdown"].pc = "idle" /\ th[t].inst = t
    BY <1>1, <1>2, InProgress, Zenon DEF Deleting, ThreadsApart
  <2> QED
    BY <1>2, <2>1, Found
<1>3. CASE t = "shutdown"
  <2>1. PICK i \in Instance : i = th["shutdown"].inst
    BY <1>1, <1>3, Zenon DEF InstanceTypes, ThreadsApart, Deleting, Thread
  <2>2. Stage(i) = th["shutdown"].pc
    BY <2>1, Zenon DEF Stage
  <2> QED
    BY <1>3, <2>1, <2>2, Found
<1> QED
  BY <1>2, <1>3, Zenon DEF Thread

(* Whoever closes or deletes the instance goes on to stage s.              *)
LEMMA CloserStep ==
  ASSUME InstanceInv, NEW t \in Thread, th[t].pc \in {"close", "wait"} \cup Deleting,
         NEW s \in {"wait"} \cup Deleting, Goto(t, s), g' \in {g, t},
         NEW i \in Instance, i = th[t].inst,
         NEW p \in InstType, p.mem = inst[i].mem, NEW v \in VolumeState, Turns(i, p, v),
         Sound(p, s, v), UNCHANGED <<globals, list>>
  PROVE  InstanceInv'
<1>1. ThreadsApart' /\ StagesOf(i) /\ Stage(i)' = s
  BY CloserMoves, Zenon
<1>2. Local(i) /\ inst'[i] = p /\ volume'[i] = v
  BY LocalUpdate DEF Turns
<1>3. Sound(inst'[i], Stage(i)', volume'[i])
  BY <1>1, <1>2, Zenon
<1> QED
  BY <1>1, <1>2, <1>3, LocalStep, Zenon

(* DokanCloseHandle asks for the unmount.                                  *)
LEMMA CloseRequestStep ==
  ASSUME InstanceInv, NEW t \in Thread, CloseRequest(t)
  PROVE  InstanceInv'
<1>1. /\ th[t].pc = "close" /\ DokanRequestUnmount(th[t].inst) /\ Goto(t, "wait")
      /\ UNCHANGED <<globals, g, list>>
  BY Zenon DEF CloseRequest
<1>2. PICK i \in Instance : i = th[t].inst /\ Stage(i) = "close"
  BY <1>1, CloserFound, Zenon
<1>3. PICK p \in InstType, v \in VolumeState :
        Turns(i, p, v) /\ p.mem = inst[i].mem /\ Sound(p, "close", v)
  BY <1>1, <1>2, RequestEffect, Zenon
<1>4. Sound(p, "wait", v)
  BY <1>3, Zenon DEF Sound, Using, Up, Deleting, Creating
<1> QED
  BY <1>1, <1>2, <1>3, <1>4, CloserStep, Zenon

(* It has waited for the end, in which the volume ended too.               *)
LEMMA CloseWaitStep ==
  ASSUME InstanceInv, NEW t \in Thread, CloseWait(t)
  PROVE  InstanceInv'
<1>1. /\ th[t].pc = "wait" /\ inst[th[t].inst].closed /\ Goto(t, "delete") /\ g' = t
      /\ UNCHANGED <<globals, list, inst, volume>>
  BY Zenon DEF CloseWait
<1>2. PICK i \in Instance : /\ i = th[t].inst /\ inst[i] \in InstType
                            /\ volume[i] \in VolumeState /\ Sound(inst[i], "wait", volume[i])
  BY <1>1, CloserFound
<1>3. Sound(inst[i], "delete", volume[i])
  BY <1>1, <1>2, Zenon DEF Sound, Using, Up, Deleting, Creating
<1>4. Turns(i, inst[i], volume[i]) /\ "delete" \in Deleting
  BY <1>1, Zenon DEF Turns, Deleting
<1> QED
  BY <1>1, <1>2, <1>3, <1>4, CloserStep, Zenon

(* DeleteDokanInstance wakes the waiters.                                  *)
LEMMA DeleteSetClosedStep ==
  ASSUME InstanceInv, NEW t \in Thread, DeleteSetClosed(t)
  PROVE  InstanceInv'
<1>1. /\ th[t].pc = "delete" /\ Goto(t, "join") /\ UNCHANGED <<globals, g, list, volume>>
  BY Zenon DEF DeleteSetClosed
<1>2. PICK i \in Instance : /\ i = th[t].inst /\ inst[i] \in InstType
                            /\ volume[i] \in VolumeState /\ Sound(inst[i], "delete", volume[i])
  BY <1>1, CloserFound DEF Deleting
<1> DEFINE p == [inst[i] EXCEPT !.closed = TRUE]
<1>3. inst' = [inst EXCEPT ![i] = p]
  BY <1>2, Zenon DEF DeleteSetClosed
<1>4. /\ p \in InstType /\ p.mem = inst[i].mem /\ p.closed /\ p.running = inst[i].running
      /\ p.notifying = inst[i].notifying /\ p.UnmountedCalled = inst[i].UnmountedCalled
      /\ p.unmounted = inst[i].unmounted /\ p.mounted = inst[i].mounted
      /\ p.lost = inst[i].lost
  <2>1. p \in InstType
    BY <1>2, Zenon DEF InstType
  <2> QED
    BY <1>2, <2>1, Zenon DEF InstType
<1> HIDE DEF p
<1>5. Sound(p, "join", volume[i])
  BY <1>2, <1>4, Zenon DEF Sound, Ended, Using, Up, Deleting, Creating
<1>6. Turns(i, p, volume[i]) /\ "join" \in Deleting /\ "delete" \in Deleting
  BY <1>1, <1>3 DEF Turns, Deleting
<1> QED
  BY <1>1, <1>2, <1>4, <1>5, <1>6, CloserStep, Zenon

(* It has waited for the callbacks and closes the keepalive handle.        *)
LEMMA DeleteJoinStep ==
  ASSUME InstanceInv, NEW t \in Thread, DeleteJoin(t)
  PROVE  InstanceInv'
<1>1. /\ th[t].pc = "join" /\ Goto(t, "unlist") /\ UNCHANGED <<globals, g, list>>
  BY Zenon DEF DeleteJoin
<1>2. PICK i \in Instance : /\ i = th[t].inst /\ inst[i] \in InstType
                            /\ volume[i] \in VolumeState /\ Sound(inst[i], "join", volume[i])
  BY <1>1, CloserFound DEF Deleting
<1> DEFINE p == [inst[i] EXCEPT !.keepalive = FALSE]
           v == IF inst[i].keepalive THEN "released" ELSE volume[i]
<1>3. /\ inst' = [inst EXCEPT ![i] = p] /\ volume' = [volume EXCEPT ![i] = v]
      /\ inst[i].running = 0
  BY <1>2, Zenon DEF DeleteJoin
<1>4. p \in InstType /\ SameCore(p, inst[i])
  BY <1>2, Harmless, Zenon
<1> HIDE DEF p
<1>5. Sound(p, "join", volume[i])
  BY <1>2, <1>4, CoreSound, Zenon
<1>6. Sound(p, "join", v) /\ v \in VolumeState
  <2>1. Sound(p, "join", "released") /\ "released" \in VolumeState
    BY <1>5, ReleasedSound, Zenon DEF VolumeState
  <2> QED
    BY <1>2, <1>5, <2>1, Zenon
<1> HIDE DEF v
<1>7. Sound(p, "unlist", v)
  BY <1>3, <1>4, <1>6, Zenon DEF SameCore, Sound, Using, Up, Deleting, Creating
<1>8. Turns(i, p, v) /\ "unlist" \in Deleting /\ "join" \in Deleting /\ p.mem = inst[i].mem
  BY <1>3, <1>4 DEF Turns, Deleting, SameCore
<1> QED
  BY <1>1, <1>2, <1>4, <1>6, <1>7, <1>8, CloserStep, Zenon

-----------------------------------------------------------------------------
(* The list.                                                                 *)

(* InsertTailList.                                                         *)
LEMMA InsertChain ==
  ASSUME NEW D, NEW F \in [D -> D], NEW B \in [D -> D], NEW E \in SUBSET D, Head \in E,
         Chain(F, B, E), NEW i \in D \ E
  PROVE  LET F1 == [F EXCEPT ![i] = Head, ![B[Head]] = i]
             B1 == [B EXCEPT ![i] = B[Head], ![Head] = i]
         IN F1 \in [D -> D] /\ B1 \in [D -> D] /\ Chain(F1, B1, E \cup {i})
<1> DEFINE l == B[Head]
           F1 == [F EXCEPT ![i] = Head, ![l] = i]
           B1 == [B EXCEPT ![i] = l, ![Head] = i]
<1>1. l \in E /\ F[l] = Head /\ Head \in D /\ i # Head /\ l # i /\ l \in D
  BY DEF Chain
<1>2. /\ F1 \in [D -> D] /\ F1[i] = Head /\ F1[l] = i
      /\ \A e \in D \ {i, l} : F1[e] = F[e]
  BY <1>1
<1>3. /\ B1 \in [D -> D] /\ B1[i] = l /\ B1[Head] = i
      /\ \A e \in D \ {i, Head} : B1[e] = B[e]
  BY <1>1
<1>3a. l = B[Head]
  OBVIOUS
<1> HIDE DEF F1, B1, l
<1>4. \A e \in E \cup {i} : F1[e] \in E \cup {i} /\ B1[F1[e]] = e
  <2>1. ASSUME NEW e \in E, e # l PROVE F1[e] \in E /\ B1[F1[e]] = e
    <3>1. F1[e] = F[e] /\ F[e] \in E /\ B[F[e]] = e
      BY <1>2, <2>1 DEF Chain
    <3>2. F[e] # Head /\ F[e] # i /\ F[e] \in D
      BY <1>3a, <2>1, <3>1
    <3> QED
      BY <1>3, <3>1, <3>2
  <2> QED
    BY <1>1, <1>2, <1>3, <2>1
<1>5. \A e \in E \cup {i} : B1[e] \in E \cup {i} /\ F1[B1[e]] = e
  <2>1. ASSUME NEW e \in E, e # Head PROVE B1[e] \in E /\ F1[B1[e]] = e
    <3>1. B1[e] = B[e] /\ B[e] \in E /\ F[B[e]] = e
      BY <1>3, <2>1 DEF Chain
    <3>2. B[e] # l /\ B[e] # i /\ B[e] \in D
      BY <1>1, <2>1, <3>1
    <3> QED
      BY <1>2, <3>1, <3>2
  <2> QED
    BY <1>1, <1>2, <1>3, <2>1
<1>6. ASSUME NEW S \in SUBSET ((E \cup {i}) \ {Head}), S # {} PROVE \E e \in S : F1[e] \notin S
  <2>1. CASE i \in S
    BY <1>2, <2>1
  <2>2. CASE i \notin S
    <3>1. PICK e \in S : F[e] \notin S
      BY <1>6, <2>2 DEF Chain
    <3>2. e \in D /\ e # i
      BY <2>2, Zenon
    <3> QED
      BY <1>2, <2>2, <3>1, <3>2
  <2> QED
    BY <2>1, <2>2
<1>7. Chain(F1, B1, E \cup {i})
  BY <1>4, <1>5, <1>6 DEF Chain
<1> QED
  BY <1>2, <1>3, <1>7 DEF F1, B1, l

Nodes == Instance \cup {Head}

\* RemoveEntryList(i) makes F1 of F and B1 of B.
Unlinks(F, B, i, F1, B1) ==
  F1 = [F EXCEPT ![B[i]] = F[i]] /\ B1 = [B EXCEPT ![F[i]] = B[i]]

(* RemoveEntryList.                                                        *)
LEMMA RemoveChain ==
  ASSUME NEW F \in [Nodes -> Nodes], NEW B \in [Nodes -> Nodes], NEW E \in SUBSET Nodes,
         Head \in E, Chain(F, B, E), NEW i \in E, i # Head,
         NEW F1, NEW B1, Unlinks(F, B, i, F1, B1)
  PROVE  F1 \in [Nodes -> Nodes] /\ B1 \in [Nodes -> Nodes] /\ Chain(F1, B1, E \ {i})
<1> DEFINE p == B[i]
           n == F[i]
           D == Nodes
<1>0. F1 = [F EXCEPT ![p] = n] /\ B1 = [B EXCEPT ![n] = p]
  BY DEF Unlinks
<1>1. p \in E /\ F[p] = i /\ n \in E /\ B[n] = i /\ p \in D /\ n \in D
  BY DEF Chain
<1>2. n # i
  <2>1. {i} \in SUBSET (E \ {Head}) /\ {i} # {}
    OBVIOUS
  <2>2. \E e \in {i} : F[e] \notin {i}
    BY <2>1, Zenon DEF Chain
  <2> QED
    BY <2>2
<1>3. p # i
  BY <1>0, <1>1, <1>2
<1>4. /\ F1 \in [D -> D] /\ F1[p] = n /\ F1[i] = n /\ \A e \in D \ {p} : F1[e] = F[e]
  BY <1>0, <1>1, <1>3
<1>5. /\ B1 \in [D -> D] /\ B1[n] = p /\ B1[i] = p /\ \A e \in D \ {n} : B1[e] = B[e]
  BY <1>0, <1>1, <1>2
<1>5a. p = B[i] /\ n = F[i]
  BY Zenon
<1> HIDE DEF p, n
<1>6. ASSUME NEW e \in E \ {i} PROVE F1[e] \in E \ {i} /\ B1[F1[e]] = e
  <2>1. CASE e = p
    BY <1>1, <1>2, <1>4, <1>5, <2>1, Zenon
  <2>2. CASE e # p
    <3>1. F1[e] = F[e] /\ F[e] \in E /\ B[F[e]] = e
      BY <1>4, <2>2, Zenon DEF Chain
    <3>2. F[e] # i /\ F[e] # n /\ F[e] \in D
      BY <1>1, <1>5a, <2>2, <3>1, Zenon
    <3> QED
      BY <1>5, <3>1, <3>2
  <2> QED
    BY <2>1, <2>2
<1>7. ASSUME NEW e \in E \ {i} PROVE B1[e] \in E \ {i} /\ F1[B1[e]] = e
  <2>1. CASE e = n
    BY <1>1, <1>3, <1>4, <1>5, <2>1
  <2>2. CASE e # n
    <3>1. B1[e] = B[e] /\ B[e] \in E /\ F[B[e]] = e
      BY <1>5, <2>2, Zenon DEF Chain
    <3>2. B[e] # i /\ B[e] # p /\ B[e] \in D
      BY <1>1, <1>5a, <2>2, <3>1
    <3> QED
      BY <1>4, <3>1, <3>2
  <2> QED
    BY <2>1, <2>2
<1>8. ASSUME NEW S \in SUBSET ((E \ {i}) \ {Head}), S # {} PROVE \E e \in S : F1[e] \notin S
  <2>1. CASE p \in S
    <3>1. S \cup {i} \in SUBSET (E \ {Head}) /\ S \cup {i} # {}
      OBVIOUS
    <3>2. PICK e \in S \cup {i} : F[e] \notin S \cup {i}
      BY <3>1, Zenon DEF Chain
    <3>3. CASE e = i
      BY <1>4, <1>5a, <2>1, <3>2, <3>3
    <3>4. CASE e # i
      <4>1. e \in S /\ e # p /\ e \in D
        BY <1>1, <3>2, <3>4
      <4> QED
        BY <1>4, <3>2, <4>1
    <3> QED
      BY <3>3, <3>4
  <2>2. CASE p \notin S
    <3>1. PICK e \in S : F[e] \notin S
      BY <1>8 DEF Chain
    <3>2. e # p /\ e \in D
      BY <2>2, Zenon
    <3> QED
      BY <1>4, <3>1, <3>2
  <2> QED
    BY <2>1, <2>2, Zenon
<1>9. Chain(F1, B1, E \ {i})
  BY <1>6, <1>7, <1>8 DEF Chain
<1> QED
  BY <1>4, <1>5, <1>9

ThreadType == [Thread -> [pc : Stages \cup {"sweep"}, inst : Instance \cup {Head}]]

(* A step on the entry of i in the list owes what it changes.              *)
LEMMA EntryStep ==
  ASSUME InstanceInv, NEW i \in Instance, NEW p \in InstType, p.mem = "live" => pool,
         inst' = [inst EXCEPT ![i] = p], UNCHANGED <<globals, volume>>,
         th' \in ThreadType, \A j \in Instance \ {i} : Stage(j)' = Stage(j),
         Flink' \in [Instance \cup {Head} -> Instance \cup {Head}],
         Blink' \in [Instance \cup {Head} -> Instance \cup {Head}],
         ThreadsApart', Linked', TakenOut', Sound(p, Stage(i)', volume[i])
  PROVE  InstanceInv'
<1>1. InstanceTypes /\ InstancesSound /\ PoolsOutlive
  BY DEF InstanceInv
<1>2. inst' \in [Instance -> InstType] /\ inst'[i] = p /\ \A j \in Instance \ {i} : inst'[j] = inst[j]
  BY <1>1 DEF InstanceTypes
<1>3. InstanceTypes'
  BY <1>1, <1>2 DEF InstanceTypes, ThreadType, globals
<1>4. InstancesSound'
  <2>1. ASSUME NEW j \in Instance, j # i PROVE Sound(inst'[j], Stage(j)', volume'[j])
    <3>1. inst'[j] = inst[j] /\ Stage(j)' = Stage(j) /\ volume' = volume
      BY <1>2, <2>1
    <3> QED
      BY <1>1, <3>1 DEF InstancesSound
  <2> QED
    BY <1>2, <2>1 DEF InstancesSound
<1>5. PoolsOutlive'
  BY <1>1, <1>2, Zenon DEF PoolsOutlive, globals
<1> QED
  BY <1>3, <1>4, <1>5 DEF InstanceInv

(* What the invariant says of the list.                                    *)
LEMMA ListFound ==
  ASSUME InstanceInv
  PROVE  /\ Flink \in [Instance \cup {Head} -> Instance \cup {Head}]
         /\ Blink \in [Instance \cup {Head} -> Instance \cup {Head}]
         /\ Entries \in SUBSET (Instance \cup {Head}) /\ Head \in Entries
         /\ Chain(Flink, Blink, Entries) /\ Head \notin Instance
  BY InstanceAssumption DEF InstanceInv, InstanceTypes, Linked, Entries

(* An instance is made and put into the list, or nothing is left.          *)
LEMMA BeginStep ==
  ASSUME InstanceInv, NEW i \in Instance, CreateBegin(i)
  PROVE  InstanceInv'
<1>1. /\ th[i].pc = "idle" /\ th["shutdown"].pc = "idle" /\ g = NoThread
      /\ UNCHANGED <<globals, g, volume>>
  BY Zenon DEF CreateBegin
<1>2. /\ inst[i] \in InstType /\ volume[i] \in VolumeState
      /\ Sound(inst[i], "idle", volume[i])
  BY <1>1, Found
<1>3. "gone" \in Stages /\ "global" \in Stages
  BY Zenon DEF Stages, Creating
<1>4. CASE Goto(i, "gone") /\ UNCHANGED <<inst, list>>
  <2>1. Sound(inst[i], "gone", volume[i])
    BY <1>2, Zenon DEF Sound, Using, Up, Deleting, Creating
  <2> QED
    BY <1>1, <1>2, <1>3, <1>4, <2>1, OwnStep, Zenon
<1>5. CASE NewDokanInstance(i) /\ Goto(i, "global")
  <2> DEFINE p == [inst[i] EXCEPT !.mem = "live"]
  <2>1. /\ inst' = [inst EXCEPT ![i] = p] /\ pool
        /\ Flink' = [Flink EXCEPT ![i] = Head, ![Blink[Head]] = i]
        /\ Blink' = [Blink EXCEPT ![i] = Blink[Head], ![Head] = i]
    BY <1>5 DEF NewDokanInstance, InsertTailList
  <2>2. /\ p \in InstType /\ p.mem = "live" /\ p.closed = inst[i].closed
        /\ p.running = inst[i].running /\ p.notifying = inst[i].notifying
        /\ p.UnmountedCalled = inst[i].UnmountedCalled /\ p.unmounted = inst[i].unmounted
        /\ p.mounted = inst[i].mounted /\ p.lost = inst[i].lost
    BY <1>2 DEF InstType
  <2>3. inst' \in [Instance -> InstType] /\ inst'[i] = p /\ \A j \in Instance \ {i} : inst'[j] = inst[j]
    BY <2>1, <2>2, Zenon DEF InstanceInv, InstanceTypes
  <2> HIDE DEF p
  <2>4. g' # "shutdown"
    BY <1>1, InstanceAssumption, Zenon
  <2>5. ThreadsApart' /\ StagesOf(i) /\ Stage(i)' = "global"
    BY <1>1, <1>3, <1>5, <2>4, OwnMove, Zenon
  <2>6. inst[i].notifying = 0
    BY <1>2 DEF Sound, InstType
  <2>7. Sound(p, "global", volume[i])
    <3>1. /\ p.mem = "live" /\ p.mounted = "no" /\ ~p.closed /\ volume[i] = "none"
          /\ p.running = 0 /\ p.notifying = 0 /\ p.UnmountedCalled = 0 /\ p.unmounted = 0
      BY <1>2, <2>2, <2>6, Zenon DEF Sound, Creating
    <3>2. /\ "global" \notin {"idle", "gone", "queue", "ready", "unlist"}
          /\ "global" \notin Up /\ "global" \notin Deleting
      BY Zenon DEF Up, Deleting
    <3> QED
      BY <3>1, <3>2 DEF Sound
  <2>8. th["shutdown"].inst = Head /\ th'["shutdown"].inst = Head /\ Head \notin Instance
    BY <1>1, <2>5, InstanceAssumption, Zenon DEF InstanceInv, ThreadsApart, StagesOf
  <2>9. inst[i].mem # "live"
    BY <1>2, Zenon DEF Sound
  <2>10. i \notin Entries
    BY <2>8, <2>9, Zenon DEF Entries, Listed
  <2>11. Entries' = Entries \cup {i}
    BY <2>2, <2>3, <2>8 DEF Entries, Listed
  <2>12. i \in (Instance \cup {Head}) \ Entries
    BY <2>10
  <2>13. /\ Flink' \in [Instance \cup {Head} -> Instance \cup {Head}]
         /\ Blink' \in [Instance \cup {Head} -> Instance \cup {Head}]
         /\ Chain(Flink', Blink', Entries \cup {i})
    BY <2>1, <2>12, ListFound, InsertChain, Zenon
  <2>14. Linked' /\ TakenOut'
    BY <2>8, <2>11, <2>13 DEF Linked, TakenOut
  <2>15. Sound(p, Stage(i)', volume[i])
    BY <2>5, <2>7
  <2>16. th' \in ThreadType /\ \A j \in Instance \ {i} : Stage(j)' = Stage(j)
    BY <2>5 DEF StagesOf, ThreadType
  <2> QED
    BY <1>1, <2>1, <2>2, <2>5, <2>13, <2>14, <2>15, <2>16, EntryStep, Zenon
<1> QED
  BY <1>4, <1>5 DEF CreateBegin

(* What is left of an instance without callbacks.                          *)
LEMMA FreedSound ==
  ASSUME NEW o \in InstType, NEW v, Sound(o, "unlist", v), NEW s \in {"gone", "owned"}
  PROVE  Freed(o) \in InstType /\ Freed(o).mem = "freed" /\ Sound(Freed(o), s, v)
<1> DEFINE p == Freed(o)
<1>1. /\ o.running = 0 /\ o.notifying = 0 /\ Ended(o, v) /\ o.unmounted =< 1
      /\ (o.mounted # "no" => o.unmounted = 1)
  BY DEF Sound, InstType, Using, Deleting
<1>2. p \in InstType
  <2>1. NoInstance \in InstType
    BY DEF NoInstance, InstType
  <2> QED
    BY <2>1, Zenon DEF Freed, InstType
<1>3. /\ p.mem = "freed" /\ p.closed = FALSE /\ p.running = o.running /\ p.notifying = 0
      /\ p.UnmountedCalled = 0 /\ p.unmounted = o.unmounted /\ p.mounted = o.mounted
      /\ p.lost = o.lost
  BY Zenon DEF Freed, NoInstance
<1> HIDE DEF p
<1>4. Sound(p, s, v)
  BY <1>1, <1>3 DEF Sound, Ended, Using, Up, Deleting, Creating
<1> QED
  BY <1>2, <1>3, <1>4, Zenon DEF p

(* DokanShutdown moves to stage s with entry e; the host's threads do not. *)
LEMMA ShutdownMoves ==
  ASSUME InstanceInv, NEW s \in Stages \cup {"sweep"}, NEW e \in Instance \cup {Head},
         th' = [th EXCEPT !["shutdown"].pc = s, !["shutdown"].inst = e]
           \/ (Goto("shutdown", s) /\ e = th["shutdown"].inst)
  PROVE  /\ th' \in ThreadType /\ th'["shutdown"].pc = s /\ th'["shutdown"].inst = e
         /\ \A j \in Instance : th'[j] = th[j]
<1>1. th \in ThreadType /\ "shutdown" \in Thread
  BY DEF InstanceInv, InstanceTypes, ThreadType, Thread
<1>2. \A j \in Instance : j \in Thread /\ j # "shutdown"
  BY InstanceAssumption DEF Thread
<1>3. CASE th' = [th EXCEPT !["shutdown"].pc = s, !["shutdown"].inst = e]
  BY <1>1, <1>2, <1>3, Zenon DEF ThreadType
<1>4. CASE Goto("shutdown", s) /\ e = th["shutdown"].inst
  BY <1>1, <1>2, <1>4 DEF ThreadType, Goto
<1> QED
  BY <1>3, <1>4

(* The thread of the host leaves the list with its instance.               *)
LEMMA OwnUnlistStep ==
  ASSUME InstanceInv, NEW i \in Instance, DeleteUnlist(i)
  PROVE  InstanceInv'
<1>1. i # "shutdown" /\ NoThread # "shutdown" /\ th[i].inst = i
  BY InstanceAssumption DEF InstanceInv, ThreadsApart
<1>2. /\ th[i].pc = "unlist" /\ inst' = [inst EXCEPT ![i] = Freed(inst[i])]
      /\ Flink' = [Flink EXCEPT ![Blink[i]] = Flink[i]]
      /\ Blink' = [Blink EXCEPT ![Flink[i]] = Blink[i]]
      /\ Goto(i, "gone") /\ g' # "shutdown" /\ UNCHANGED <<globals, volume>>
  BY <1>1 DEF DeleteUnlist, RemoveEntryList
<1>3. th["shutdown"].pc = "idle"
  BY <1>2, InProgress
<1>4. /\ inst[i] \in InstType /\ volume[i] \in VolumeState
      /\ Sound(inst[i], "unlist", volume[i])
  BY <1>2, <1>3, Found, Zenon
<1> DEFINE p == Freed(inst[i])
<1>5. p \in InstType /\ p.mem = "freed" /\ Sound(p, "gone", volume[i])
  BY <1>4, FreedSound
<1>6. inst' = [inst EXCEPT ![i] = p]
  BY <1>2
<1> HIDE DEF p
<1>7. inst'[i] = p /\ \A j \in Instance \ {i} : inst'[j] = inst[j]
  BY <1>6 DEF InstanceInv, InstanceTypes
<1>8. "gone" \in Stages
  BY DEF Stages
<1>9. ThreadsApart' /\ StagesOf(i) /\ Stage(i)' = "gone"
  BY <1>2, <1>3, <1>8, OwnMove, Zenon
<1>10. th["shutdown"].inst = Head /\ th'["shutdown"].inst = Head /\ Head \notin Instance
  BY <1>3, <1>9, InstanceAssumption, Zenon DEF InstanceInv, ThreadsApart, StagesOf
<1>11. inst[i].mem = "live"
  BY <1>4, Zenon DEF Sound, Using
<1>12. i \in Entries /\ i # Head
  BY <1>10, <1>11, Zenon DEF Entries, Listed
<1>13. Entries' = Entries \ {i}
  BY <1>5, <1>7, <1>10 DEF Entries, Listed
<1>14. /\ Flink' \in [Nodes -> Nodes] /\ Blink' \in [Nodes -> Nodes]
       /\ Chain(Flink', Blink', Entries \ {i})
  <2>1. /\ Flink \in [Nodes -> Nodes] /\ Blink \in [Nodes -> Nodes]
        /\ Entries \in SUBSET Nodes /\ Head \in Entries /\ Chain(Flink, Blink, Entries)
    BY ListFound DEF Nodes
  <2>2. Unlinks(Flink, Blink, i, Flink', Blink')
    BY <1>2, Zenon DEF Unlinks
  <2> QED
    BY <1>12, <2>1, <2>2, RemoveChain, Zenon
<1>15. Linked' /\ TakenOut'
  BY <1>10, <1>13, <1>14, Zenon DEF Linked, TakenOut
<1>16. /\ th' \in ThreadType /\ \A j \in Instance \ {i} : Stage(j)' = Stage(j)
       /\ Sound(p, Stage(i)', volume[i]) /\ p.mem # "live"
  BY <1>5, <1>9 DEF StagesOf, ThreadType
<1> QED
  BY <1>2, <1>5, <1>6, <1>9, <1>14, <1>15, <1>16, EntryStep, Zenon DEF Nodes

(* DokanShutdown removes an entry it has removed before.                   *)
LEMMA ShutdownUnlistStep ==
  ASSUME InstanceInv, DeleteUnlist("shutdown")
  PROVE  InstanceInv'
<1>1. ThreadsApart /\ InstanceTypes /\ TakenOut /\ "shutdown" \in Thread
  BY DEF InstanceInv, Thread
<1>2. PICK i \in Instance : /\ i = th["shutdown"].inst /\ Stage(i) = th["shutdown"].pc
                            /\ inst[i] \in InstType /\ volume[i] \in VolumeState
                            /\ Sound(inst[i], "unlist", volume[i])
  BY <1>1, CloserFound DEF DeleteUnlist, Deleting
<1>3. /\ th["shutdown"].pc = "unlist" /\ inst' = [inst EXCEPT ![i] = Freed(inst[i])]
      /\ Flink' = [Flink EXCEPT ![Blink[i]] = Flink[i]]
      /\ Blink' = [Blink EXCEPT ![Flink[i]] = Blink[i]]
      /\ th' = [th EXCEPT !["shutdown"].pc = "sweep", !["shutdown"].inst = Head]
      /\ UNCHANGED <<globals, g, volume>>
  BY <1>2, Zenon DEF DeleteUnlist, RemoveEntryList
<1> DEFINE p == Freed(inst[i])
<1>4. p \in InstType /\ p.mem = "freed" /\ Sound(p, "owned", volume[i])
  BY <1>2, FreedSound, Zenon
<1>5. inst' = [inst EXCEPT ![i] = p]
  BY <1>3
<1> HIDE DEF p
<1>6. inst'[i] = p /\ \A j \in Instance \ {i} : inst'[j] = inst[j]
  BY <1>1, <1>5 DEF InstanceTypes
<1>7. /\ th' \in ThreadType /\ th'["shutdown"].pc = "sweep" /\ th'["shutdown"].inst = Head
      /\ \A j \in Instance : th'[j] = th[j]
  BY <1>3, ShutdownMoves, Zenon
<1>8. Head \notin Instance /\ th[i].pc = "owned"
  BY <1>1, <1>2, InstanceAssumption, Zenon DEF ThreadsApart
<1>9. ThreadsApart'
  <2>1. th["shutdown"].pc # "idle" /\ g' = "shutdown"
    BY <1>1, <1>3, Zenon DEF ThreadsApart
  <2>2. \A j \in Instance : th'[j].inst = j /\ th'[j].pc \in Stages /\ Settled(j)'
    BY <1>1, <1>7, <2>1, Zenon DEF ThreadsApart, Settled
  <2> QED
    BY <1>7, <1>8, <2>1, <2>2 DEF ThreadsApart
<1>10. Stage(i)' = "owned" /\ \A j \in Instance \ {i} : Stage(j)' = Stage(j)
  BY <1>2, <1>7, <1>8, Zenon DEF Stage
<1>11. Entries' = Entries
  BY <1>2, <1>4, <1>6, <1>7, <1>8 DEF Entries, Listed
<1>12. Blink[i] = Head /\ Flink[i] = Flink[Head]
  BY <1>1, <1>2, <1>8, Zenon DEF TakenOut
<1>13. Flink' = Flink /\ Blink' = Blink
  <2>1. Blink[Flink[Head]] = Head
    BY ListFound, Zenon DEF Chain
  <2> QED
    BY <1>3, <1>12, <2>1, ListFound, Zenon
<1>14. Linked' /\ TakenOut'
  BY <1>7, <1>11, <1>13, ListFound DEF Linked, TakenOut
<1>15. Sound(p, Stage(i)', volume[i]) /\ p.mem # "live"
  BY <1>4, <1>10
<1>16. /\ Flink' \in [Instance \cup {Head} -> Instance \cup {Head}]
       /\ Blink' \in [Instance \cup {Head} -> Instance \cup {Head}]
  BY <1>13, ListFound
<1>17. UNCHANGED <<globals, volume>>
  BY <1>3
<1> QED
  BY <1>4, <1>5, <1>7, <1>9, <1>10, <1>14, <1>15, <1>16, <1>17, EntryStep, Zenon

(* A list without a first entry is empty.                                  *)
LEMMA EmptyList ==
  ASSUME InstanceInv, Flink[Head] = Head, NEW i \in Instance
  PROVE  ~Listed(i)
<1> SUFFICES ASSUME Listed(i) PROVE FALSE
  OBVIOUS
<1> DEFINE S == Entries \ {Head}
<1>1. Head \in Entries /\ Chain(Flink, Blink, Entries) /\ Head \notin Instance
  BY ListFound, Zenon
<1>2. S \in SUBSET (Entries \ {Head}) /\ S # {}
  BY <1>1 DEF Entries
<1>3. PICK e \in S : Flink[e] \notin S
  BY <1>1, <1>2, Zenon DEF Chain
<1>4. Flink[e] = Head /\ Blink[Flink[e]] = e /\ Blink[Flink[Head]] = Head
  BY <1>1, <1>3 DEF Chain
<1> QED
  BY <1>3, <1>4

(* DokanShutdown has closed all; the pools go.                             *)
LEMMA SweepEndStep ==
  ASSUME InstanceInv, ShutdownSweep, Flink[Head] = Head
  PROVE  InstanceInv'
<1>1. /\ th["shutdown"].pc = "sweep" /\ pool' = FALSE /\ g' = NoThread
      /\ Goto("shutdown", "idle")
      /\ UNCHANGED <<Flink, Blink, g_DokanInitialized, inits, inst, volume>>
  BY DEF ShutdownSweep, list
<1>2. /\ InstanceTypes /\ ThreadsApart /\ InstancesSound /\ Linked /\ TakenOut
      /\ Head \notin Instance /\ NoThread # "shutdown"
  BY InstanceAssumption, Zenon DEF InstanceInv
<1>3. th["shutdown"].inst = Head
  BY <1>1, <1>2 DEF ThreadsApart
<1>4. "idle" \in Stages \cup {"sweep"} /\ Head \in Instance \cup {Head}
  BY DEF Stages, Creating
<1>5. /\ th' \in ThreadType /\ th'["shutdown"].pc = "idle" /\ th'["shutdown"].inst = Head
      /\ \A j \in Instance : th'[j] = th[j]
  BY <1>1, <1>3, <1>4, ShutdownMoves, Zenon
<1>6. InstanceTypes'
  BY <1>1, <1>2, <1>5, Zenon DEF InstanceTypes, ThreadType
<1>7. ThreadsApart'
  BY <1>1, <1>2, <1>5 DEF ThreadsApart
<1>8. \A j \in Instance : Stage(j)' = Stage(j)
  BY <1>2, <1>3, <1>5, Zenon DEF Stage
<1>9. InstancesSound'
  BY <1>1, <1>2, <1>8, Zenon DEF InstancesSound
<1>10. PoolsOutlive'
  <2>1. \A i \in Instance : ~Listed(i) /\ th["shutdown"].inst # i
    BY <1>2, <1>3, EmptyList, Zenon
  <2> QED
    BY <1>1, <2>1 DEF PoolsOutlive, Listed
<1>11. Entries' = Entries
  BY <1>1, <1>3, <1>5, Zenon DEF Entries, Listed
<1>12. Linked' /\ TakenOut'
  BY <1>1, <1>2, <1>5, <1>11, Zenon DEF Linked, TakenOut
<1> QED
  BY <1>6, <1>7, <1>9, <1>10, <1>12 DEF InstanceInv

(* DokanShutdown takes out the first entry to close it.                    *)
LEMMA SweepTakesStep ==
  ASSUME InstanceInv, ShutdownSweep, Flink[Head] # Head
  PROVE  InstanceInv'
<1>1. /\ Flink \in [Nodes -> Nodes] /\ Blink \in [Nodes -> Nodes]
      /\ Entries \in SUBSET Nodes /\ Head \in Entries /\ Chain(Flink, Blink, Entries)
  BY ListFound DEF Nodes
<1>2. PICK i \in Instance : i = Flink[Head] /\ Listed(i) /\ Blink[i] = Head
  BY <1>1 DEF Chain, Entries
<1>3. /\ th["shutdown"].pc = "sweep" /\ Unlinks(Flink, Blink, i, Flink', Blink')
      /\ th' = [th EXCEPT !["shutdown"].pc = "close", !["shutdown"].inst = i]
      /\ UNCHANGED <<globals, g, inst, volume>>
  BY <1>2 DEF ShutdownSweep, RemoveEntryList, Unlinks, globals
<1>4. /\ InstanceTypes /\ ThreadsApart /\ InstancesSound /\ PoolsOutlive
      /\ Head \notin Instance
  BY InstanceAssumption DEF InstanceInv
<1>5. "close" \in Stages \cup {"sweep"}
  BY DEF Stages
<1>6. /\ th' \in ThreadType /\ th'["shutdown"].pc = "close" /\ th'["shutdown"].inst = i
      /\ \A j \in Instance : th'[j] = th[j]
  BY <1>3, <1>5, ShutdownMoves, Zenon
<1>7. th["shutdown"].inst = Head /\ g = "shutdown" /\ \A j \in Instance : Settled(j)
  BY <1>3, <1>4 DEF ThreadsApart
<1>8. \A j \in Instance : Stage(j) = th[j].pc
  BY <1>4, <1>7, Zenon DEF Stage
<1>9. Sound(inst[i], th[i].pc, volume[i]) /\ inst[i].mem = "live"
  BY <1>2, <1>4, <1>8, Zenon DEF InstancesSound, Listed
<1>10. th[i].pc = "owned"
  BY <1>7, <1>9, Zenon DEF Settled, Sound
<1>11. Sound(inst[i], "close", volume[i])
  BY <1>9, <1>10, Zenon DEF Sound, Using, Up, Deleting, Creating
<1>12. ThreadsApart'
  <2>1. \A j \in Instance : th'[j].inst = j /\ th'[j].pc \in Stages /\ Settled(j)'
    BY <1>4, <1>6, <1>7 DEF ThreadsApart, Settled
  <2>2. i # Head /\ g' = "shutdown"
    BY <1>3, <1>4, <1>7, Zenon
  <2> QED
    BY <1>6, <1>10, <2>1, <2>2, Zenon DEF ThreadsApart
<1>13. Stage(i)' = "close" /\ \A j \in Instance \ {i} : Stage(j)' = Stage(j)
  BY <1>6, <1>7, <1>8 DEF Stage
<1>14. InstancesSound'
  <2>1. ASSUME NEW j \in Instance PROVE Sound(inst'[j], Stage(j)', volume'[j])
    <3>1. inst'[j] = inst[j] /\ volume'[j] = volume[j]
      BY <1>3, Zenon
    <3>2. CASE j = i
      BY <1>11, <1>13, <3>1, <3>2, Zenon
    <3>3. CASE j # i
      BY <1>4, <1>13, <3>1, <3>3, Zenon DEF InstancesSound
    <3> QED
      BY <3>2, <3>3
  <2> QED
    BY <2>1, Zenon DEF InstancesSound
<1>15. i \in Entries /\ i # Head
  BY <1>2, <1>4, Zenon DEF Entries
<1>16. /\ Flink' \in [Nodes -> Nodes] /\ Blink' \in [Nodes -> Nodes]
       /\ Chain(Flink', Blink', Entries \ {i})
       /\ Flink'[Head] = Flink[i] /\ Flink'[i] = Flink[i] /\ Blink'[i] = Head
  <2>1. Unlinks(Flink, Blink, i, Flink', Blink')
    BY <1>3
  <2>2. /\ Flink' \in [Nodes -> Nodes] /\ Blink' \in [Nodes -> Nodes]
        /\ Chain(Flink', Blink', Entries \ {i})
    BY <1>1, <1>15, <2>1, RemoveChain, Zenon
  <2>3. Flink'[Head] = Flink[i] /\ Flink'[i] = Flink[i] /\ Blink'[i] = Head
    BY <1>1, <1>2, <1>15, <2>1 DEF Unlinks
  <2> QED
    BY <2>2, <2>3
<1>17. Entries' = Entries \ {i}
  BY <1>3, <1>4, <1>6, <1>7, Zenon DEF Entries, Listed
<1>18. Linked'
  BY <1>16, <1>17, Zenon DEF Linked
<1>19. TakenOut'
  BY <1>2, <1>6, <1>16 DEF TakenOut
<1>20. InstanceTypes'
  BY <1>3, <1>4, <1>6, <1>16 DEF InstanceTypes, ThreadType, Nodes, globals
<1>21. PoolsOutlive'
  BY <1>3, <1>4 DEF PoolsOutlive, globals
<1> QED
  BY <1>12, <1>14, <1>18, <1>19, <1>20, <1>21, Zenon DEF InstanceInv

(* DokanInit and DokanShutdown count; the last DokanShutdown begins.       *)
LEMMA CountStep ==
  ASSUME Careful, InstanceInv, DokanInit \/ DokanShutdown
  PROVE  InstanceInv'
<1>1. /\ InstanceTypes /\ ThreadsApart /\ InstancesSound /\ PoolsOutlive
      /\ Linked /\ TakenOut /\ Head \notin Instance
  BY InstanceAssumption, Zenon DEF InstanceInv
<1>2. th["shutdown"].pc = "idle" /\ th["shutdown"].inst = Head
  BY <1>1, Zenon DEF DokanInit, DokanShutdown, ThreadsApart
<1>3. UNCHANGED <<Flink, Blink, inst, volume>>
  BY Zenon DEF DokanInit, DokanShutdown, list
<1>4. ASSUME th' \in ThreadType, th'["shutdown"].inst = Head,
             \A j \in Instance : th'[j] = th[j], ThreadsApart',
             pool' \in BOOLEAN, pool => pool', g_DokanInitialized' \in Nat, inits' \in Nat
      PROVE  InstanceInv'
  <2>1. InstanceTypes'
    BY <1>1, <1>3, <1>4, Zenon DEF InstanceTypes, ThreadType
  <2>2. \A j \in Instance : Stage(j)' = Stage(j)
    BY <1>1, <1>2, <1>4, Zenon DEF Stage
  <2>3. InstancesSound'
    BY <1>1, <1>3, <2>2 DEF InstancesSound
  <2>4. PoolsOutlive'
    BY <1>1, <1>3, <1>4, Zenon DEF PoolsOutlive
  <2>5. Entries' = Entries
    BY <1>2, <1>3, <1>4, Zenon DEF Entries, Listed
  <2>6. Linked' /\ TakenOut'
    BY <1>1, <1>3, <1>4, <2>5 DEF Linked, TakenOut
  <2> QED
    BY <1>4, <2>1, <2>3, <2>4, <2>6, Zenon DEF InstanceInv
<1>5. CASE DokanInit
  <2>1. UNCHANGED <<th, g>> /\ pool' = TRUE
    BY <1>5, Zenon DEF DokanInit
  <2>2. g_DokanInitialized' \in Nat /\ inits' \in Nat
    BY <1>1, <1>5 DEF DokanInit, InstanceTypes
  <2>3. ThreadsApart' /\ th' \in ThreadType
    BY <1>1, <2>1, Zenon DEF ThreadsApart, Settled, InstanceTypes, ThreadType
  <2> QED
    BY <1>2, <1>4, <2>1, <2>2, <2>3
<1>6. CASE DokanShutdown
  <2>1. /\ \A i \in Instance : Settled(i)
        /\ g_DokanInitialized' \in Nat /\ inits' \in Nat /\ pool' = pool /\ pool \in BOOLEAN
    BY <1>1, <1>6 DEF DokanShutdown, InstanceTypes
  <2>2. CASE UNCHANGED <<g, th>>
    <3>1. ThreadsApart' /\ th' \in ThreadType
      BY <1>1, <2>2, Zenon DEF ThreadsApart, Settled, InstanceTypes, ThreadType
    <3> QED
      BY <1>2, <1>4, <2>1, <2>2, <3>1, Zenon
  <2>3. CASE g' = "shutdown" /\ Goto("shutdown", "sweep")
    <3>1. /\ th' \in ThreadType /\ th'["shutdown"].pc = "sweep" /\ th'["shutdown"].inst = Head
          /\ \A j \in Instance : th'[j] = th[j]
      BY <1>2, <2>3, ShutdownMoves, Zenon
    <3>2. \A j \in Instance : th'[j].inst = j /\ th'[j].pc \in Stages /\ Settled(j)'
      BY <1>1, <2>1, <3>1, Zenon DEF ThreadsApart, Settled
    <3>3. ThreadsApart'
      BY <1>1, <2>3, <3>1, <3>2, Zenon DEF ThreadsApart
    <3> QED
      BY <1>4, <2>1, <3>1, <3>3
  <2> QED
    BY <1>6, <2>2, <2>3, Zenon DEF DokanShutdown
<1> QED
  BY <1>5, <1>6

-----------------------------------------------------------------------------
(* The invariant holds.                                                      *)

(* ... before DokanInit,                                                   *)
LEMMA InstanceInit == Init => InstanceInv
<1> SUFFICES ASSUME Init PROVE InstanceInv
  OBVIOUS
<1>1. \A i \in Instance : inst[i] = NoInstance /\ volume[i] = "none"
  BY Zenon DEF Init
<1>2. /\ \A i \in Instance : th[i].pc = "idle" /\ th[i].inst = i
      /\ th["shutdown"].pc = "idle" /\ th["shutdown"].inst = Head
      /\ th \in ThreadType
  <2>1. th = [t \in Thread |-> [pc |-> "idle", inst |-> IF t = "shutdown" THEN Head ELSE t]]
    BY DEF Init
  <2>2. "idle" \in Stages
    BY Zenon DEF Stages, Creating
  <2> QED
    BY <2>1, <2>2, InstanceAssumption, Zenon DEF ThreadType, Thread
<1>3. NoInstance \in InstType
  BY DEF NoInstance, InstType
<1>4. /\ \A e \in Nodes : Flink[e] = e /\ Blink[e] = e
      /\ Flink \in [Nodes -> Nodes] /\ Blink \in [Nodes -> Nodes]
  BY Zenon DEF Init, Nodes
<1>5. InstanceTypes
  <2>1. inst \in [Instance -> InstType] /\ volume \in [Instance -> {"none", "mounted", "released"}]
    BY <1>3 DEF Init
  <2>2. g_DokanInitialized \in Nat /\ inits \in Nat
    BY DEF Init
  <2>3. pool \in BOOLEAN
    BY Zenon DEF Init
  <2> QED
    BY <1>2, <1>4, <2>1, <2>2, <2>3, Zenon DEF InstanceTypes, ThreadType, Nodes
<1>6. ThreadsApart
  <2>1. g # "shutdown" /\ Head \notin Instance /\ "idle" \in Stages
    BY InstanceAssumption DEF Init, Stages, Creating
  <2> QED
    BY <1>2, <2>1, Zenon DEF ThreadsApart
<1>7. InstancesSound
  <2>1. Sound(NoInstance, "idle", "none")
    <3>1. /\ NoInstance.mem = "none" /\ NoInstance.mounted = "no" /\ ~NoInstance.closed
          /\ NoInstance.running = 0 /\ NoInstance.notifying = 0
          /\ NoInstance.UnmountedCalled = 0 /\ NoInstance.unmounted = 0
      BY DEF NoInstance
    <3>2. /\ "idle" \notin {"gone", "queue", "ready", "unlist"} /\ "idle" \notin Using
          /\ "idle" \notin Up /\ "idle" \notin Deleting
      BY DEF Using, Up, Deleting
    <3> QED
      BY <3>1, <3>2 DEF Sound
  <2>2. \A i \in Instance : Stage(i) = "idle"
    BY <1>2, InstanceAssumption, Zenon DEF Stage
  <2> QED
    BY <1>1, <2>1, <2>2, Zenon DEF InstancesSound
<1>8. \A i \in Instance : inst[i].mem = "none"
  <2>1. NoInstance.mem = "none"
    BY DEF NoInstance
  <2> QED
    BY <1>1, <2>1, Zenon
<1>9. PoolsOutlive /\ Entries = {Head}
  BY <1>8, Zenon DEF PoolsOutlive, Entries, Listed
<1>10. Linked /\ TakenOut
  <2>1. Head \in Nodes
    BY Zenon DEF Nodes
  <2> QED
    BY <1>2, <1>4, <1>9, <2>1 DEF Linked, Chain, TakenOut
<1> QED
  BY <1>5, <1>6, <1>7, <1>9, <1>10 DEF InstanceInv

(* Every step keeps it, when the host shuts down with no call in progress. *)
LEMMA InstanceStep ==
  ASSUME Careful
  PROVE  InstanceInv /\ [Next]_vars => InstanceInv'
<1> SUFFICES ASSUME InstanceInv, [Next]_vars PROVE InstanceInv'
  BY Zenon
<1>1. ASSUME NEW i \in Instance, DokanCreateFileSystemInternal(i) PROVE InstanceInv'
  BY <1>1, BeginStep, PlainMoveStep, StartStep, OpenDeviceStep, MountStep, MountedStep,
     ReleaseFailedStep, Zenon DEF DokanCreateFileSystemInternal
<1>2. ASSUME NEW i \in Instance,
             \/ Cancel(i) \/ RequestUnmount(i) \/ DokanRemoveMountPoint(i) \/ PullStarted(i)
             \/ PullFailed(i) \/ PullOutOfMemory(i) \/ DokanNotifyUnmounted(i)
             \/ DokanMain(i) \/ CloseHandle(i)
      PROVE  InstanceInv'
  BY <1>2, CancelStep, RequestUnmountStep, RemoveMountPointStep, PullFailedStep, NotifyStep,
     PlainMoveStep, CloseHandleStep, Zenon
<1>3. ASSUME NEW t \in Thread, DokanCloseHandle(t) PROVE InstanceInv'
  BY <1>3, CloseRequestStep, CloseWaitStep DEF DokanCloseHandle
<1>4. ASSUME NEW t \in Thread, DeleteDokanInstance(t) PROVE InstanceInv'
  <2>1. CASE DeleteUnlist(t)
    BY <2>1, OwnUnlistStep, ShutdownUnlistStep DEF Thread
  <2> QED
    BY <1>4, <2>1, DeleteSetClosedStep, DeleteJoinStep DEF DeleteDokanInstance
<1>5. CASE DokanInit \/ DokanShutdown
  BY <1>5, CountStep
<1>6. CASE ShutdownSweep
  BY <1>6, SweepEndStep, SweepTakesStep
<1>7. CASE UNCHANGED vars
  <2>1. UNCHANGED <<g_DokanInitialized, inits, pool, g, Flink, Blink, inst, volume, th>>
    BY <1>7 DEF vars
  <2> QED
    BY <2>1, Zenon DEF InstanceInv, InstanceTypes, ThreadsApart, Settled, InstancesSound, Stage,
                PoolsOutlive, Linked, Entries, Listed, TakenOut
<1> QED
  BY <1>1, <1>2, <1>3, <1>4, <1>5, <1>6, <1>7, Zenon DEF Next

(* ... and so always, if the host keeps DokanShutdown for the end.         *)
LEMMA InstanceInvariant ==
  ASSUME Careful
  PROVE  Spec => []InstanceInv
  BY InstanceInit, InstanceStep, PTL DEF Spec

-----------------------------------------------------------------------------
(* What follows.                                                             *)

(* The memory of an instance outlives the thread that creates, closes or   *)
(* deletes it and the callbacks of its cleanup group, two threads never    *)
(* delete it, and the pools outlive all instances (DeleteDokanInstance,    *)
(* dokan.c 154-186, CleanupPool in DokanShutdown), when the host calls     *)
(* DokanShutdown with no call in progress.                                 *)
THEOREM UsersOutlived ==
  ASSUME Careful
  PROVE  Spec => []InstanceOutlivesUsers
<1>1. InstanceInv => InstanceOutlivesUsers
  <2> SUFFICES ASSUME InstanceInv PROVE InstanceOutlivesUsers
    BY Zenon
  <2>1. ASSUME NEW t \in Thread, th[t].pc \in Using PROVE inst[th[t].inst].mem = "live"
    <3>1. CASE t \in Instance
      <4>1. th["shutdown"].pc = "idle" /\ th[t].inst = t
        BY <2>1, <3>1, InProgress, Zenon DEF Using, InstanceInv, ThreadsApart
      <4> QED
        BY <2>1, <3>1, <4>1, Found, Zenon DEF Sound
    <3>2. CASE t = "shutdown"
      <4>1. th[t].pc \in {"close", "wait"} \cup Deleting
        BY <2>1, <3>2, Zenon DEF InstanceInv, ThreadsApart, Using
      <4>2. PICK i \in Instance : i = th[t].inst /\ Sound(inst[i], th[t].pc, volume[i])
        BY <4>1, CloserFound, Zenon
      <4> QED
        BY <2>1, <4>2, Zenon DEF Sound
    <3> QED
      BY <3>1, <3>2 DEF Thread
  <2>2. ASSUME NEW i \in Instance
        PROVE  /\ inst[i].mem # "live" => inst[i].running = 0
               /\ inst[i].mem = "live" => pool
    BY Found, Zenon DEF Sound, InstanceInv, PoolsOutlive
  <2>3. ASSUME NEW i \in Instance, NEW t \in Thread, th[t].inst = i,
               th[t].pc \in {"delete", "join", "unlist"}
        PROVE  t = IF th["shutdown"].inst = i THEN "shutdown" ELSE i
    <3>1. CASE t \in Instance
      <4>1. t = i /\ th["shutdown"].inst # i
        BY <2>3, <3>1, Zenon DEF InstanceInv, ThreadsApart
      <4> QED
        BY <4>1, Zenon
    <3>2. CASE t = "shutdown"
      BY <2>3, <3>2, Zenon
    <3> QED
      BY <3>1, <3>2, Zenon DEF Thread
  <2> QED
    BY <2>1, <2>2, <2>3 DEF InstanceOutlivesUsers
<1> QED
  BY <1>1, InstanceInvariant, PTL

(* g_InstanceList holds the live instances and nothing else, although an   *)
(* entry that DokanShutdown has taken out is removed again by              *)
(* DeleteDokanInstance (dokan.c 180 and 1914).                             *)
THEOREM ListKept ==
  ASSUME Careful
  PROVE  Spec => []ListExact
<1>1. InstanceInv => ListExact
  <2> SUFFICES ASSUME InstanceInv PROVE ListExact
    OBVIOUS
  <2> DEFINE on == {i \in Instance : Listed(i)}
  <2>1. Chain(Flink, Blink, on \cup {Head}) /\ Head \notin on
    BY ListFound, Zenon DEF Entries
  <2> HIDE DEF on
  <2>2. \A e \in on \cup {Head} : Flink[e] \in on \cup {Head} /\ Blink[Flink[e]] = e
    BY <2>1, Zenon DEF Chain
  <2>3. \A S \in SUBSET on : S # {} => \E e \in S : Flink[e] \notin S
    <3>1. (on \cup {Head}) \ {Head} = on
      BY <2>1, Zenon
    <3> QED
      BY <2>1, <3>1 DEF Chain
  <2> QED
    BY <2>2, <2>3 DEF ListExact, on
<1> QED
  BY <1>1, InstanceInvariant, PTL

(* No volume stays mounted when its instance is gone, but for a release    *)
(* the driver refused and a pull thread without memory: every way out of   *)
(* DokanCreateFileSystem behind DokanStart and every way to close sends a  *)
(* release.                                                                *)
THEOREM VolumeReleased ==
  ASSUME Careful
  PROVE  Spec => []VolumeFollowsInstance
<1>1. InstanceInv => VolumeFollowsInstance
  BY Found, Zenon DEF VolumeFollowsInstance, Sound, Ended
<1> QED
  BY <1>1, InstanceInvariant, PTL

(* The Unmounted operation is called at most once, and has returned before *)
(* the instance of a file system that came up is freed                     *)
(* (OnDeviceIoCtlFailed, dokan.c 370).                                     *)
THEOREM UnmountedCalledOnce ==
  ASSUME Careful
  PROVE  Spec => []UnmountedOnce
<1>1. InstanceInv => UnmountedOnce
  BY Found, Zenon DEF UnmountedOnce, Sound
<1> QED
  BY <1>1, InstanceInvariant, PTL

(* Whoever waits in DokanMain or DokanCloseHandle for the end has a pull   *)
(* thread left that will mark the device as closed (dokan.c 382, 649, 895  *)
(* and 911).                                                               *)
THEOREM WaitersWoken ==
  ASSUME Careful
  PROVE  Spec => []WaiterIsWoken
<1>1. InstanceInv => WaiterIsWoken
  <2> SUFFICES ASSUME InstanceInv, NEW t \in Thread, th[t].pc \in {"main", "wait"},
                      ~inst[th[t].inst].closed
               PROVE  inst[th[t].inst].running > 0
    BY DEF WaiterIsWoken
  <2>1. CASE th[t].pc = "wait"
    <3>1. PICK i \in Instance : i = th[t].inst /\ Sound(inst[i], "wait", volume[i])
      BY <2>1, CloserFound, Zenon
    <3> QED
      BY <3>1, Zenon DEF Sound, Up, Using
  <2>2. CASE th[t].pc = "main"
    <3>1. t \in Instance
      BY <2>2, Zenon DEF InstanceInv, ThreadsApart, Thread, Deleting
    <3>2. th["shutdown"].pc = "idle" /\ th[t].inst = t
      BY <2>2, <3>1, InProgress, Zenon DEF InstanceInv, ThreadsApart
    <3>3. Sound(inst[t], "main", volume[t])
      BY <2>2, <3>1, <3>2, Found
    <3> QED
      BY <3>2, <3>3, Zenon DEF Sound, Up, Using
  <2> QED
    BY <2>1, <2>2, Zenon
<1> QED
  BY <1>1, InstanceInvariant, PTL
=============================================================================
