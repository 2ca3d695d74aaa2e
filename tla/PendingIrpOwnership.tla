------------------------ MODULE PendingIrpOwnership ------------------------
(***************************************************************************)
(* PendingIrp proved for every set of requests, entries and replying       *)
(* threads, every mix of kinds and every bound on breaks and resets: the   *)
(* types, the inductive invariant Ownership, and what follows from it, a   *)
(* request is completed and settled at most once and no freed entry is     *)
(* used.                                                                   *)
(***************************************************************************)
EXTENDS PendingIrp, TLAPS

(* The pool's records keep their type when one is freed or changed.        *)
LEMMA FreeEntryType == FreeEntry \in EntryType
  BY DEF FreeEntry, EntryType, Places, Status

(* An entry taken out of its list, owned or not, has the type of entries. *)
LEMMA TakeOutType ==
  ASSUME TypeOK, NEW S, NEW dest \in Lists \cup Places, TakeOut(S, dest)
  PROVE  /\ entry' \in [Entry -> EntryType]
         /\ routine' \in [Irp -> BOOLEAN]
<1>1. ASSUME NEW e \in Entry PROVE entry'[e] \in EntryType
  <2>1. entry[e] \in EntryType
    BY DEF TypeOK
  <2>2. GivenUp(entry[e]) \in EntryType
    <3>1. CASE entry[e].nulled
      BY <3>1, FreeEntryType DEF GivenUp
    <3>2. CASE ~entry[e].nulled
      <4>1. GivenUp(entry[e]) = [entry[e] EXCEPT !.at = "gone", !.freeMemory = TRUE]
        BY <3>2 DEF GivenUp
      <4> QED
        BY <2>1, <4>1 DEF EntryType, Places
    <3> QED
      BY <3>1, <3>2
  <2>3. [entry[e] EXCEPT !.at = dest] \in EntryType
    BY <2>1 DEF EntryType
  <2> QED
    BY <2>1, <2>2, <2>3 DEF TakeOut
<1>2. entry' = [e \in Entry |-> entry'[e]]
  BY DEF TakeOut
<1>3. routine' \in [Irp -> BOOLEAN]
  BY DEF TakeOut, TypeOK
<1> QED
  BY <1>1, <1>2, <1>3

(* So has the pool when DokanFreeIrpEntry returns an entry to it. *)
LEMMA FreeType ==
  ASSUME TypeOK, NEW e, DokanFreeIrpEntry(e)
  PROVE  entry' \in [Entry -> EntryType]
  BY FreeEntryType DEF TypeOK, DokanFreeIrpEntry

(* An assignment of a well-typed value to a field keeps the type. *)
LEMMA FieldTypes ==
  ASSUME NEW x \in EntryType
  PROVE  /\ \A n \in Nat : [x EXCEPT !.serial = n] \in EntryType
         /\ \A p \in Lists \cup Places : [x EXCEPT !.at = p] \in EntryType
         /\ \A t \in {"future", "past", "zero"} : [x EXCEPT !.tick = t] \in EntryType
         /\ [x EXCEPT !.tick = "zero", !.async = "CANCELLED"] \in EntryType
         /\ [x EXCEPT !.forced = TRUE] \in EntryType
         /\ [x EXCEPT !.at = "gone", !.nulled = TRUE] \in EntryType
<1> USE DEF EntryType
<1>1. \A n \in Nat : [x EXCEPT !.serial = n] \in EntryType
  OBVIOUS
<1>2. \A p \in Lists \cup Places : [x EXCEPT !.at = p] \in EntryType
  OBVIOUS
<1>3. \A t \in {"future", "past", "zero"} : [x EXCEPT !.tick = t] \in EntryType
  OBVIOUS
<1>4. [x EXCEPT !.tick = "zero", !.async = "CANCELLED"] \in EntryType
  BY DEF Status
<1>5. [x EXCEPT !.forced = TRUE] \in EntryType
  OBVIOUS
<1>6. [x EXCEPT !.at = "gone", !.nulled = TRUE] \in EntryType
  BY DEF Places
<1> QED
  BY <1>1, <1>2, <1>3, <1>4, <1>5, <1>6

(* The pool keeps its type when one record is replaced. *)
LEMMA OneEntryType ==
  ASSUME TypeOK, NEW e, NEW x, e \in Entry => x \in EntryType,
         entry' = [entry EXCEPT ![e] = x]
  PROVE  entry' \in [Entry -> EntryType]
  BY DEF TypeOK

(* DokanCompleteIrpRequest records a status for the IRP. *)
LEMMA CompleteType ==
  ASSUME TypeOK, NEW i, NEW s \in Status, Complete(i, s)
  PROVE  result' \in [Irp -> Seq(Status)]
<1>1. result \in [Irp -> Seq(Status)]
  BY DEF TypeOK
<1>2. i \in Irp => Append(result[i], s) \in Seq(Status)
  BY <1>1
<1> QED
  BY <1>1, <1>2 DEF Complete

(* Settling is counted for each request. *)
LEMMA SettleType ==
  ASSUME TypeOK, NEW i, NEW kinds, SettleIf(i, kinds)
  PROVE  settled' \in [Irp -> Nat]
<1>1. settled \in [Irp -> Nat]
  BY DEF TypeOK
<1>2. settled' = settled \/ settled' = [settled EXCEPT ![i] = settled[i] + 1]
  BY DEF SettleIf, Settle
<1>3. i \in Irp => settled[i] + 1 \in Nat
  BY <1>1
<1> QED
  BY <1>1, <1>2, <1>3

Stages == {"new", "redispatch", "oplock", "register", "allocated",
           "set", "notify", "pended", "failed", "dropped"}

(* A refused request is completed and leaves the driver. *)
LEMMA RefuseType ==
  ASSUME TypeOK, NEW i \in Irp, NEW s \in Status, Refuse(i, s)
  PROVE  /\ dpc' \in [Irp -> Stages]
         /\ result' \in [Irp -> Seq(Status)]
         /\ settled' \in [Irp -> Nat]
<1>1. dpc' \in [Irp -> Stages]
  BY DEF TypeOK, Refuse, Stages
<1>2. result' \in [Irp -> Seq(Status)]
  BY CompleteType DEF TypeOK, Refuse, doneVars
<1>3. settled' \in [Irp -> Nat]
  BY SettleType DEF TypeOK, Refuse, doneVars
<1> QED
  BY <1>1, <1>2, <1>3

(* Types hold in every reachable state; a tick count in particular is      *)
(* always one that comes, so that no reset keeps a request for ever.       *)
THEOREM TypeCorrect == Spec => []TypeOK
<1>1. Init => TypeOK
  <2> SUFFICES ASSUME Init PROVE TypeOK
    OBVIOUS
  <2>1. entry \in [Entry -> EntryType]
    BY Zenon, FreeEntryType DEF Init
  <2>2. result \in [Irp -> Seq(Status)]
    BY DEF Init
  <2> QED
    BY Zenon, <2>1, <2>2 DEF Init, TypeOK
<1>2. TypeOK /\ [Next]_vars => TypeOK'
  <2> SUFFICES ASSUME TypeOK, [Next]_vars PROVE TypeOK'
    OBVIOUS
  <2> USE DEF dispatchVars, irpVars, doneVars, cancelVars, libraryVars
  <2>1. ASSUME NEW i \in Irp, DispatchUnmounted(i) PROVE TypeOK'
    <3>1. result' \in [Irp -> Seq(Status)]
      BY Zenon, <2>1, CompleteType DEF DispatchUnmounted, Status
    <3>2. settled' \in [Irp -> Nat]
      BY Zenon, <2>1, SettleType DEF DispatchUnmounted, TypeOK
    <3> QED
      BY Zenon, <2>1, <3>1, <3>2 DEF DispatchUnmounted, TypeOK
  <2>2. ASSUME NEW i \in Irp, DispatchToRegister(i) PROVE TypeOK'
    BY Zenon, <2>2 DEF DispatchToRegister, TypeOK
  <2>3. ASSUME NEW i \in Irp, DispatchToOplock(i) PROVE TypeOK'
    <3>1. breaks[i] + 1 \in Nat
      BY DEF TypeOK
    <3> QED
      BY Zenon, <2>3, <3>1 DEF DispatchToOplock, TypeOK
  <2>4. ASSUME NEW i \in Irp, OplockBroken(i) PROVE TypeOK'
    BY Zenon, <2>4 DEF OplockBroken, TypeOK
  <2>5. ASSUME NEW i \in Irp, OplockFailed(i) PROVE TypeOK'
    <3>1. result' \in [Irp -> Seq(Status)]
      BY Zenon, <2>5, CompleteType DEF OplockFailed, TypeOK, Status
    <3> QED
      BY Zenon, <2>5, <3>1 DEF OplockFailed, TypeOK
  <2>6. ASSUME NEW i \in Irp, RegisterRefused(i) PROVE TypeOK'
    <3>1. /\ dpc' \in [Irp -> Stages]
         /\ result' \in [Irp -> Seq(Status)]
         /\ settled' \in [Irp -> Nat]
      BY Zenon, <2>6, RefuseType DEF RegisterRefused, Status
    <3> QED
      BY Zenon, <2>6, <3>1 DEF RegisterRefused, TypeOK, Stages
  <2>7. ASSUME NEW i \in Irp, RegisterAllocate(i) PROVE TypeOK'
    <3>1. PICK e \in Entry :
            /\ entry' = [entry EXCEPT ![e] =
                 [FreeEntry EXCEPT !.irp = i, !.at = "register", !.list = ListOf(i),
                    !.async = IF path[i] = "async" THEN "OPLOCK_FAILURE" ELSE "SUCCESS"]]
            /\ regEntry' = [regEntry EXCEPT ![i] = e]
      BY Zenon, <2>7 DEF RegisterAllocate
    <3>2. [FreeEntry EXCEPT !.irp = i, !.at = "register", !.list = ListOf(i),
             !.async = IF path[i] = "async" THEN "OPLOCK_FAILURE" ELSE "SUCCESS"]
            \in EntryType
      BY Zenon DEF FreeEntry, EntryType, Places, Status, ListOf, Lists
    <3>3. entry' \in [Entry -> EntryType]
      BY Zenon, <3>1, <3>2, OneEntryType
    <3> QED
      BY Zenon, <2>7, <3>1, <3>3 DEF RegisterAllocate, TypeOK
  <2>8. ASSUME NEW i \in Irp, RegisterUnmounted(i) PROVE TypeOK'
    <3>1. entry' \in [Entry -> EntryType]
      BY Zenon, <2>8, FreeType DEF RegisterUnmounted
    <3>2. /\ dpc' \in [Irp -> Stages]
         /\ result' \in [Irp -> Seq(Status)]
         /\ settled' \in [Irp -> Nat]
      BY Zenon, <2>8, RefuseType DEF RegisterUnmounted, Status
    <3> QED
      BY Zenon, <2>8, <3>1, <3>2 DEF RegisterUnmounted, TypeOK, Stages
  <2>9. ASSUME NEW i \in Irp, RegisterSetRoutine(i) PROVE TypeOK'
    <3>1. CASE path[i] \in {"retry", "async"}
      BY Zenon, <2>9, <3>1 DEF RegisterSetRoutine, TypeOK
    <3>2. CASE path[i] \notin {"retry", "async"}
      <4>1. /\ serial' = serial + 1
            /\ eventSerial' = [eventSerial EXCEPT ![i] = serial + 1]
            /\ entry' = [entry EXCEPT ![regEntry[i]].serial = serial + 1]
        BY Zenon, <2>9, <3>2 DEF RegisterSetRoutine
      <4>0. serial + 1 \in Nat
        BY DEF TypeOK
      <4>2. serial' \in Nat /\ eventSerial' \in [Irp -> Nat]
        BY Zenon, <4>0, <4>1 DEF TypeOK
      <4>3. entry' \in [Entry -> EntryType]
        <5> DEFINE x == [entry[regEntry[i]] EXCEPT !.serial = serial + 1]
        <5>1. entry' = [entry EXCEPT ![regEntry[i]] = x]
          BY Zenon, <4>1
        <5>2. ASSUME regEntry[i] \in Entry PROVE x \in EntryType
          <6>1. serial + 1 \in Nat /\ entry[regEntry[i]] \in EntryType
            BY Zenon, <4>0, <5>2 DEF TypeOK
          <6> QED
            BY Zenon, <6>1, FieldTypes
        <5> HIDE DEF x
        <5> QED
          BY Zenon, <5>1, <5>2, OneEntryType
      <4> QED
        BY Zenon, <2>9, <4>2, <4>3 DEF RegisterSetRoutine, TypeOK
    <3> QED
      BY Zenon, <3>1, <3>2
  <2>10. ASSUME NEW i \in Irp, RegisterBackOut(i) PROVE TypeOK'
    <3>1. entry' \in [Entry -> EntryType]
      BY Zenon, <2>10, FreeType DEF RegisterBackOut
    <3>2. /\ dpc' \in [Irp -> Stages]
         /\ result' \in [Irp -> Seq(Status)]
         /\ settled' \in [Irp -> Nat]
      BY Zenon, <2>10, RefuseType DEF RegisterBackOut, Status
    <3> QED
      BY Zenon, <2>10, <3>1, <3>2 DEF RegisterBackOut, TypeOK, Stages
  <2>11. ASSUME NEW i \in Irp, RegisterInsert(i) PROVE TypeOK'
    <3>1. entry' \in [Entry -> EntryType]
      BY Zenon, <2>11, FieldTypes DEF RegisterInsert, TypeOK, ListOf, Lists
    <3> QED
      BY Zenon, <2>11, <3>1 DEF RegisterInsert, TypeOK
  <2>12. ASSUME NEW i \in Irp, Notify(i) PROVE TypeOK'
    BY Zenon, <2>12 DEF Notify, TypeOK
  <2>13. ASSUME NEW i \in Irp, IoCancelIrp(i) PROVE TypeOK'
    BY Zenon, <2>13 DEF IoCancelIrp, TypeOK
  <2>14. ASSUME NEW i \in Irp, IoCancelTake(i) PROVE TypeOK'
    BY Zenon, <2>14 DEF IoCancelTake, TypeOK
  <2>15. ASSUME NEW i \in Irp, CancelReadEntry(i) PROVE TypeOK'
    BY Zenon, <2>15 DEF CancelReadEntry, TypeOK
  <2>16. ASSUME NEW i \in Irp, CreateCancelMark(i) PROVE TypeOK'
    <3>1. entry' \in [Entry -> EntryType]
      BY Zenon, <2>16, FieldTypes DEF CreateCancelMark, TypeOK
    <3> QED
      BY Zenon, <2>16, <3>1 DEF CreateCancelMark, TypeOK
  <2>17. ASSUME NEW i \in Irp, CreateCancelForce(i) PROVE TypeOK'
    <3>1. entry' \in [Entry -> EntryType]
      BY Zenon, <2>17, FieldTypes DEF CreateCancelForce, TypeOK
    <3> QED
      BY Zenon, <2>17, <3>1 DEF CreateCancelForce, TypeOK
  <2>18. ASSUME NEW i \in Irp, IrpCancelUnlink(i) PROVE TypeOK'
    <3>1. entry' \in [Entry -> EntryType]
      BY Zenon, <2>18, FieldTypes, FreeEntryType DEF IrpCancelUnlink, TypeOK
    <3> QED
      BY Zenon, <2>18, <3>1 DEF IrpCancelUnlink, TypeOK
  <2>19. ASSUME NEW i \in Irp, IrpCancelComplete(i) PROVE TypeOK'
    <3>1. result' \in [Irp -> Seq(Status)]
      BY Zenon, <2>19, CompleteType DEF IrpCancelComplete, Status
    <3>2. settled' \in [Irp -> Nat]
      BY Zenon, <2>19, SettleType DEF IrpCancelComplete, TypeOK
    <3> QED
      BY Zenon, <2>19, <3>1, <3>2 DEF IrpCancelComplete, TypeOK
  <2>20. ASSUME NEW r \in Replier, ReplyStart(r) PROVE TypeOK'
    BY Zenon, <2>20 DEF ReplyStart, TypeOK
  <2>21. ASSUME NEW r \in Replier, ReplyNoMatch(r) PROVE TypeOK'
    BY Zenon, <2>21 DEF ReplyNoMatch, TypeOK
  <2>22. ASSUME NEW r \in Replier, ReplyTake(r) PROVE TypeOK'
    <3>1. PICK e \in Matching(rserial[r]) :
            /\ TakeOut({e}, "reply")
            /\ ClearContexts({e})
            /\ rpc' = [rpc EXCEPT ![r] = IF LeftToRoutine(e) THEN "idle"
                                         ELSE IF entry[e].forced THEN "force"
                                         ELSE "complete"]
            /\ rentry' = [rentry EXCEPT ![r] = IF LeftToRoutine(e) THEN None ELSE e]
      BY Zenon, <2>22 DEF ReplyTake
    <3>2. e \in Entry
      BY Zenon DEF Matching, At
    <3>3. entry' \in [Entry -> EntryType] /\ routine' \in [Irp -> BOOLEAN]
      BY Zenon, <3>1, TakeOutType DEF Places
    <3>4. context' \in [Irp -> Entry \cup {None}]
      BY Zenon, <3>1 DEF ClearContexts, TypeOK
    <3> QED
      BY Zenon, <2>22, <3>1, <3>2, <3>3, <3>4 DEF ReplyTake, TypeOK
  <2>23. ASSUME NEW r \in Replier, ReplyAbandon(r) PROVE TypeOK'
    <3>1. entry' \in [Entry -> EntryType]
      BY Zenon, <2>23, FieldTypes DEF ReplyAbandon, TypeOK, Places
    <3> QED
      BY Zenon, <2>23, <3>1 DEF ReplyAbandon, TypeOK
  <2>24. ASSUME NEW r \in Replier, ReplyComplete(r) PROVE TypeOK'
    <3>1. entry' \in [Entry -> EntryType]
      BY Zenon, <2>24, FreeType DEF ReplyComplete
    <3>2. result' \in [Irp -> Seq(Status)]
      BY Zenon, <2>24, CompleteType DEF ReplyComplete, Status
    <3>3. settled' \in [Irp -> Nat]
      BY Zenon, <2>24, SettleType DEF ReplyComplete
    <3> QED
      BY Zenon, <2>24, <3>1, <3>2, <3>3 DEF ReplyComplete, TypeOK
  <2>25. ASSUME NEW e \in Entry, Expire(e) PROVE TypeOK'
    <3>1. entry' \in [Entry -> EntryType]
      BY Zenon, <2>25, FieldTypes DEF Expire, TypeOK
    <3> QED
      BY Zenon, <2>25, <3>1 DEF Expire, TypeOK
  <2>26. ASSUME NEW e \in Entry, ScanComplete(e) PROVE TypeOK'
    <3>1. entry' \in [Entry -> EntryType]
      BY Zenon, <2>26, FreeType DEF ScanComplete
    <3>2. result' \in [Irp -> Seq(Status)]
      BY Zenon, <2>26, CompleteType DEF ScanComplete, Status
    <3>3. settled' \in [Irp -> Nat]
      BY Zenon, <2>26, SettleType DEF ScanComplete
    <3> QED
      BY Zenon, <2>26, <3>1, <3>2, <3>3 DEF ScanComplete, TypeOK
  <2>27. ASSUME NEW e \in Entry, ReleaseComplete(e) PROVE TypeOK'
    <3>1. entry' \in [Entry -> EntryType]
      BY Zenon, <2>27, FreeType DEF ReleaseComplete
    <3>2. result' \in [Irp -> Seq(Status)]
      BY Zenon, <2>27, CompleteType DEF ReleaseComplete, Status
    <3>3. settled' \in [Irp -> Nat]
      BY Zenon, <2>27, SettleType DEF ReleaseComplete
    <3> QED
      BY Zenon, <2>27, <3>1, <3>2, <3>3 DEF ReleaseComplete, TypeOK
  <2>28. ASSUME NEW e \in Entry, RetryDispatch(e) PROVE TypeOK'
    <3>1. entry' \in [Entry -> EntryType]
      BY Zenon, <2>28, FreeType DEF RetryDispatch
    <3> QED
      BY Zenon, <2>28, <3>1 DEF RetryDispatch, TypeOK
  <2>29. ASSUME NEW s \in events, DokanResetPendingIrpTimeout(s) PROVE TypeOK'
    <3>1. entry' \in [Entry -> EntryType]
      BY Zenon, <2>29, FieldTypes DEF DokanResetPendingIrpTimeout, TypeOK
    <3>2. resets + 1 \in Nat
      BY DEF TypeOK
    <3> QED
      BY Zenon, <2>29, <3>1, <3>2 DEF DokanResetPendingIrpTimeout, TypeOK
  <2>30. CASE ScanCollect
    <3>1. entry' \in [Entry -> EntryType] /\ routine' \in [Irp -> BOOLEAN]
      BY Zenon, <2>30, TakeOutType DEF ScanCollect, Places
    <3>2. context' \in [Irp -> Entry \cup {None}]
      BY Zenon, <2>30 DEF ScanCollect, ClearContexts, TypeOK
    <3> QED
      BY Zenon, <2>30, <3>1, <3>2 DEF ScanCollect, TypeOK
  <2>31. CASE ReleaseClaim
    BY Zenon, <2>31 DEF ReleaseClaim, TypeOK
  <2>32. CASE ReleaseMove
    <3>1. entry' \in [Entry -> EntryType] /\ routine' \in [Irp -> BOOLEAN]
      BY Zenon, <2>32, TakeOutType DEF ReleaseMove, MoveIrpList, Places
    <3> QED
      BY Zenon, <2>32, <3>1 DEF ReleaseMove, TypeOK, MoveIrpList
  <2>33. CASE RetryMove
    <3>1. entry' \in [Entry -> EntryType] /\ routine' \in [Irp -> BOOLEAN]
      BY Zenon, <2>33, TakeOutType DEF RetryMove, MoveIrpList, Places
    <3> QED
      BY Zenon, <2>33, <3>1 DEF RetryMove, TypeOK, MoveIrpList
  <2>34. CASE UNCHANGED vars
    BY Zenon, <2>34 DEF vars, TypeOK
  <2>35. ASSUME NEW r \in Replier, ReplyAccept(r) PROVE TypeOK'
    BY Zenon, <2>35 DEF ReplyAccept, TypeOK, dispatchVars, irpVars, doneVars, cancelVars
  <2> QED
    BY Zenon, <2>1, <2>2, <2>3, <2>4, <2>5, <2>6, <2>7, <2>8, <2>9, <2>10,
       <2>11, <2>12, <2>13, <2>14, <2>15, <2>16, <2>17, <2>18, <2>19,
       <2>20, <2>21, <2>22, <2>23, <2>24, <2>25, <2>26, <2>27, <2>28,
       <2>29, <2>30, <2>31, <2>32, <2>33, <2>34, <2>35
       DEF Next, Dispatching, Cancelling, Replying
<1> QED
  BY <1>1, <1>2, PTL DEF Spec

-----------------------------------------------------------------------------
(* The steps that dispatch, register and complete a request.               *)

Uniq == \A e, f \in Entry :
          (entry[e].irp = entry[f].irp /\ entry[e].irp # None) => e = f

Replies ==
  \A r \in Replier :
    /\ rpc[r] \in {"complete", "answer", "force"} => rentry[r] \in Entry
    /\ rentry[r] # None => entry[rentry[r]].at = "reply"
    /\ \A q \in Replier : (rentry[q] = rentry[r] /\ rentry[r] # None) => q = r

(* The fields of the invariant have their types. *)
LEMMA EntryFields ==
  ASSUME TypeOK, NEW e \in Entry
  PROVE  /\ entry[e].irp \in Irp \cup {None}
         /\ entry[e].at \in Lists \cup Places
         /\ entry[e].forced \in BOOLEAN
         /\ entry[e].freeMemory \in BOOLEAN
         /\ entry[e].nulled \in BOOLEAN
<1>1. entry[e] \in EntryType
  BY Zenon DEF TypeOK
<1> QED
  BY Zenon, <1>1 DEF EntryType

\* The fields of entry y are those of entry x, except for its place.
SameBut(y, x, place) ==
  /\ y.irp = x.irp
  /\ y.at = place
  /\ y.list = x.list
  /\ y.forced = x.forced
  /\ y.freeMemory = x.freeMemory
  /\ y.nulled = x.nulled

Same(y, x) == SameBut(y, x, x.at)

IsFree(y) ==
  /\ y.irp = None
  /\ y.at = "free"
  /\ ~y.forced /\ ~y.freeMemory /\ ~y.nulled

(* What each kind of update does to the fields the invariant is about. *)
LEMMA FieldUpdates ==
  ASSUME NEW x \in EntryType
  PROVE  /\ IsFree(FreeEntry)
         /\ \A n : Same([x EXCEPT !.serial = n], x)
         /\ \A t : Same([x EXCEPT !.tick = t], x)
         /\ Same([x EXCEPT !.tick = "zero", !.async = "CANCELLED"], x)
         /\ \A p : SameBut([x EXCEPT !.at = p], x, p)
<1> USE DEF EntryType, SameBut, Same
<1>1. IsFree(FreeEntry)
  BY Zenon DEF FreeEntry, IsFree
<1>2. \A n : Same([x EXCEPT !.serial = n], x)
  BY Zenon
<1>3. \A t : Same([x EXCEPT !.tick = t], x)
  BY Zenon
<1>4. Same([x EXCEPT !.tick = "zero", !.async = "CANCELLED"], x)
  BY Zenon
<1>5. \A p : SameBut([x EXCEPT !.at = p], x, p)
  BY Zenon
<1> QED
  BY Zenon, <1>1, <1>2, <1>3, <1>4, <1>5

(* DokanFreeIrpEntry leaves a free record and no other changed. *)
LEMMA Freed ==
  ASSUME TypeOK, NEW e \in Entry, DokanFreeIrpEntry(e)
  PROVE  /\ IsFree(entry'[e])
         /\ \A f \in Entry \ {e} : entry'[f] = entry[f]
<1>1. entry' = [entry EXCEPT ![e] = FreeEntry] /\ entry \in [Entry -> EntryType]
  BY Zenon DEF DokanFreeIrpEntry, TypeOK
<1>2. IsFree(FreeEntry)
  BY Zenon DEF IsFree, FreeEntry
<1> QED
  BY Zenon, <1>1, <1>2

(* An uncompleted IRP is completed, and settled with it or not at all. *)
LEMMA Finished ==
  ASSUME TypeOK, NEW i \in Irp, \E s \in Status : Complete(i, s),
         result[i] = <<>>, settled[i] <= Len(result[i]),
         settled' = settled \/ \E kinds : SettleIf(i, kinds)
  PROVE  /\ Len(result'[i]) <= 1 /\ settled'[i] <= Len(result'[i])
         /\ \A j \in Irp \ {i} : result'[j] = result[j] /\ settled'[j] = settled[j]
<1>0. PICK s \in Status : Complete(i, s)
  BY Zenon
<1>1. result \in [Irp -> Seq(Status)] /\ settled \in [Irp -> Nat]
  BY Zenon DEF TypeOK
<1>2. settled[i] = 0
  <2>1. Len(result[i]) = 0
    OBVIOUS
  <2> QED
    BY <1>1, <2>1
<1>3. result' = [result EXCEPT ![i] = Append(result[i], s)]
  BY Zenon, <1>0 DEF Complete
<1>4. Len(Append(result[i], s)) = 1
  <2>1. Append(result[i], s) = <<s>>
    OBVIOUS
  <2> QED
    BY <2>1
<1>5. settled' = settled \/ settled' = [settled EXCEPT ![i] = settled[i] + 1]
  BY Zenon DEF SettleIf, Settle
<1>6. settled'[i] <= 1 /\ \A j \in Irp \ {i} : settled'[j] = settled[j]
  BY <1>1, <1>2, <1>5
<1>7. result'[i] = Append(result[i], s) /\ \A j \in Irp \ {i} : result'[j] = result[j]
  BY Zenon, <1>1, <1>3
<1>8. Len(result'[i]) = 1
  BY Zenon, <1>4, <1>7
<1> QED
  BY <1>6, <1>7, <1>8

(* An entry whose fields and whose request's state a step keeps, keeps its *)
(* owner.                                                                  *)
LEMMA EntryKept ==
  ASSUME TypeOK, NEW f \in Entry, EntryOwnership(f), Same(entry'[f], entry[f]),
         entry[f].irp \in Irp =>
           /\ dpc'[entry[f].irp] = dpc[entry[f].irp]
           /\ regEntry'[entry[f].irp] = regEntry[entry[f].irp]
           /\ routine'[entry[f].irp] = routine[entry[f].irp]
           /\ result'[entry[f].irp] = result[entry[f].irp]
           /\ cpc'[entry[f].irp] = cpc[entry[f].irp]
  PROVE  EntryOwnership(f)'
<1> USE DEF Same, SameBut
<1>1. f \in InHand' <=> f \in InHand
  BY Zenon DEF InHand
<1>2. CASE entry[f].irp = None
  <2>1. entry'[f].irp = None /\ entry'[f].at = "free"
    BY Zenon, <1>2 DEF EntryOwnership
  <2>2. entry[f].at = "free"
    BY Zenon, <1>2 DEF EntryOwnership
  <2>3. ~entry[f].forced /\ ~entry[f].nulled /\ ~entry[f].freeMemory
    BY Zenon, <1>2, <2>2 DEF EntryOwnership
  <2>4. ~entry'[f].forced /\ ~entry'[f].nulled /\ ~entry'[f].freeMemory
    BY Zenon, <2>3
  <2> QED
    BY Zenon, <2>1, <2>4 DEF EntryOwnership, InHand, Lists
<1>3. CASE entry[f].irp \in Irp
  <2>1. PICK i \in Irp : entry[f].irp = i
    BY Zenon, <1>3
  <2>2. /\ dpc'[i] = dpc[i] /\ regEntry'[i] = regEntry[i] /\ routine'[i] = routine[i]
        /\ result'[i] = result[i] /\ cpc'[i] = cpc[i]
    BY Zenon, <2>1
  <2>3. (Quiet(i)' <=> Quiet(i)) /\ (Registered(i)' <=> Registered(i))
    BY Zenon, <2>2 DEF Quiet, Registered
  <2>4. i # None /\ entry'[f].irp = i
    BY Zenon, <2>1, PendingIrpAssumption
  <2> QED
    BY Zenon, <1>1, <2>1, <2>2, <2>3, <2>4 DEF EntryOwnership
<1> QED
  BY Zenon, <1>2, <1>3, EntryFields

(* What a request owns is kept by a step that changes nothing of it and    *)
(* leaves its entry in place.                                              *)
LEMMA IrpKept ==
  ASSUME NEW j \in Irp, IrpOwnership(j),
         dpc'[j] = dpc[j], path'[j] = path[j], regEntry'[j] = regEntry[j],
         routine'[j] = routine[j], context'[j] = context[j], result'[j] = result[j],
         settled'[j] = settled[j], cpc'[j] = cpc[j], holds'[j] = holds[j],
         \A f \in Entry : HeldBy(j, f) =>
           /\ HeldBy(j, f)'
           /\ entry[f].at = "register"
                => entry'[f].at = "register" /\ entry'[f].list = entry[f].list,
         \A f \in Entry : entry'[f].irp = j =>
           entry[f].irp = j /\ (entry[f].nulled => entry'[f].nulled)
  PROVE  IrpOwnership(j)'
<1>1. /\ Quiet(j)' <=> Quiet(j)
      /\ Registered(j)' <=> Registered(j)
      /\ ListOf(j)' = ListOf(j)
  BY Zenon DEF Quiet, Registered, ListOf
<1>2. \A f : HeldBy(j, f) => f \in Entry
  BY Zenon DEF HeldBy
<1>3. /\ dpc[j] \in {"new", "redispatch", "oplock", "register"}
           => \A f \in Entry : entry'[f].irp # j
      /\ cpc[j] = "unlinked" => \A f \in Entry : entry'[f].irp = j => entry'[f].nulled
  BY Zenon DEF IrpOwnership
<1>4. dpc[j] \in {"allocated", "set"}
        => /\ HeldBy(j, regEntry[j])'
           /\ entry'[regEntry[j]].at = "register"
           /\ entry'[regEntry[j]].list = ListOf(j)
  BY Zenon, <1>2 DEF IrpOwnership
<1>5. /\ routine[j] => HeldBy(j, context[j])'
      /\ cpc[j] = "called" => HeldBy(j, context[j])'
      /\ cpc[j] \in {"holding", "marked"} => HeldBy(j, holds[j])'
  BY Zenon, <1>2 DEF IrpOwnership
<1> QED
  BY Zenon, <1>1, <1>3, <1>4, <1>5 DEF IrpOwnership, HeldBy

(* The step of whoever completes a request, or drops it, for good: its     *)
(* entry is freed and no cancel routine will touch it.                     *)
LEMMA Leave ==
  ASSUME TypeOK, Ownership, NEW i \in Irp,
         cpc[i] \in {"idle", "flagged", "over"},
         dpc'[i] \in {"notify", "pended", "failed", "dropped"},
         \A j \in Irp \ {i} : dpc'[j] = dpc[j],
         \A f \in Entry : IF entry[f].irp = i THEN IsFree(entry'[f])
                                              ELSE entry'[f] = entry[f],
         Len(result'[i]) <= 1, settled'[i] <= Len(result'[i]),
         \A j \in Irp \ {i} : result'[j] = result[j] /\ settled'[j] = settled[j],
         ~routine'[i],
         \A j \in Irp \ {i} : routine'[j] = routine[j] /\ context'[j] = context[j],
         regEntry'[i] = None,
         \A j \in Irp \ {i} : regEntry'[j] = regEntry[j],
         UNCHANGED <<path, cpc, holds>>
  PROVE  /\ Uniq'
         /\ \A f \in Entry : EntryOwnership(f)'
         /\ \A j \in Irp : IrpOwnership(j)'
<1>1. Uniq'
  BY DEF Uniq, Ownership, IsFree
<1>2. ASSUME NEW f \in Entry PROVE EntryOwnership(f)'
  <2>1. CASE entry[f].irp = i
    BY Zenon, <2>1, PendingIrpAssumption DEF EntryOwnership, IsFree, InHand, Lists
  <2>2. CASE entry[f].irp # i
    <3>1. entry'[f] = entry[f] /\ EntryOwnership(f)
      BY Zenon, <2>2 DEF Ownership
    <3>2. Same(entry'[f], entry[f])
      BY Zenon, <3>1 DEF Same, SameBut
    <3>3. entry[f].irp \in Irp =>
            /\ dpc'[entry[f].irp] = dpc[entry[f].irp]
            /\ regEntry'[entry[f].irp] = regEntry[entry[f].irp]
            /\ routine'[entry[f].irp] = routine[entry[f].irp]
            /\ result'[entry[f].irp] = result[entry[f].irp]
            /\ cpc'[entry[f].irp] = cpc[entry[f].irp]
      BY Zenon, <2>2
    <3> QED
      BY Zenon, <3>1, <3>2, <3>3, EntryKept
  <2> QED
    BY Zenon, <2>1, <2>2
<1>3. ASSUME NEW j \in Irp PROVE IrpOwnership(j)'
  <2>1. CASE j = i
    <3>1. \A f \in Entry : entry'[f].irp # i
      BY SMTT(30), PendingIrpAssumption DEF IsFree
    <3>2. holds[i] = None
      BY Zenon DEF Ownership, IrpOwnership
    <3> QED
      BY Zenon, <2>1, <3>1, <3>2 DEF IrpOwnership, Quiet, Registered
  <2>2. CASE j # i
    <3>1. IrpOwnership(j)
      BY Zenon DEF Ownership
    <3>2. \A f \in Entry : HeldBy(j, f) => HeldBy(j, f)' /\ entry'[f] = entry[f]
      BY Zenon, <2>2 DEF HeldBy, IsFree
    <3>3. \A f \in Entry : entry'[f].irp = j => entry[f].irp = j /\ entry'[f] = entry[f]
      BY SMTT(30), <2>2, PendingIrpAssumption DEF IsFree
    <3> QED
      BY Zenon, <2>2, <3>1, <3>2, <3>3, IrpKept
  <2> QED
    BY Zenon, <2>1, <2>2
<1> QED
  BY Zenon, <1>1, <1>2, <1>3

(* A dispatch that answers, drops or refuses a request without an entry. *)
LEMMA OwnDispatchEnds ==
  ASSUME TypeOK, Ownership, NEW i \in Irp,
         DispatchUnmounted(i) \/ RegisterRefused(i)
           \/ (OplockFailed(i) /\ Kind[i] # "create")
  PROVE  Ownership'
<1> USE DEF dispatchVars, irpVars, doneVars, cancelVars, libraryVars
<1>1. /\ Quiet(i) /\ result[i] = <<>> /\ settled[i] <= Len(result[i])
      /\ \A f \in Entry : entry[f].irp # i
      /\ regEntry[i] = None
  BY Zenon DEF Ownership, IrpOwnership, DispatchUnmounted, RegisterRefused, OplockFailed
<1>2. /\ UNCHANGED <<entry, path, cpc, holds, routine, context, regEntry, rpc, rentry>>
      /\ dpc'[i] \in {"notify", "pended", "failed", "dropped"}
      /\ \A j \in Irp \ {i} : dpc'[j] = dpc[j]
  BY Zenon DEF DispatchUnmounted, RegisterRefused, Refuse, OplockFailed, TypeOK
<1>3. \/ UNCHANGED doneVars
      \/ /\ \E s \in Status : Complete(i, s)
         /\ settled' = settled \/ \E kinds : SettleIf(i, kinds)
  BY Zenon DEF DispatchUnmounted, RegisterRefused, Refuse, OplockFailed, Status
<1>4. /\ Len(result'[i]) <= 1 /\ settled'[i] <= Len(result'[i])
      /\ \A j \in Irp \ {i} : result'[j] = result[j] /\ settled'[j] = settled[j]
  <2>1. CASE UNCHANGED doneVars
    BY <1>1, <2>1
  <2>2. CASE /\ \E s \in Status : Complete(i, s)
             /\ settled' = settled \/ \E kinds : SettleIf(i, kinds)
    BY Zenon, <1>1, <2>2, Finished
  <2> QED
    BY Zenon, <1>3, <2>1, <2>2
<1>5. /\ Uniq'
      /\ \A f \in Entry : EntryOwnership(f)'
      /\ \A j \in Irp : IrpOwnership(j)'
  BY Zenon, <1>1, <1>2, <1>4, Leave DEF Quiet
<1>6. Replies'
  BY Zenon, <1>2 DEF Replies, Ownership
<1> QED
  BY Zenon, <1>5, <1>6 DEF Ownership, Uniq, Replies

(* A registration that frees its entry and refuses the request. *)
LEMMA OwnRegisterEnds ==
  ASSUME TypeOK, Ownership, NEW i \in Irp,
         RegisterUnmounted(i) \/ RegisterBackOut(i)
  PROVE  Ownership'
<1> USE DEF dispatchVars, irpVars, doneVars, cancelVars, libraryVars
<1>1. /\ result[i] = <<>> /\ settled[i] <= Len(result[i])
      /\ cpc[i] \in {"idle", "flagged", "over"}
      /\ regEntry[i] \in Entry /\ entry[regEntry[i]].irp = i
      /\ entry[regEntry[i]].at = "register"
  BY Zenon DEF Ownership, IrpOwnership, RegisterUnmounted, RegisterBackOut, HeldBy, Quiet
<1>2. /\ UNCHANGED <<path, cpc, holds, rpc, rentry>>
      /\ dpc'[i] \in {"notify", "pended", "failed", "dropped"}
      /\ \A j \in Irp \ {i} : dpc'[j] = dpc[j]
      /\ regEntry'[i] = None
      /\ \A j \in Irp \ {i} : regEntry'[j] = regEntry[j]
      /\ \A j \in Irp \ {i} : routine'[j] = routine[j] /\ context'[j] = context[j]
  BY DEF RegisterUnmounted, RegisterBackOut, Refuse, TypeOK
<1>3. ~routine'[i]
  <2>1. CASE RegisterUnmounted(i)
    BY Zenon, <2>1 DEF RegisterUnmounted, Ownership, IrpOwnership, Quiet
  <2>2. CASE RegisterBackOut(i)
    BY Zenon, <2>2 DEF RegisterBackOut, TypeOK
  <2> QED
    BY Zenon, <2>1, <2>2
<1>4. /\ IsFree(entry'[regEntry[i]])
      /\ \A f \in Entry \ {regEntry[i]} : entry'[f] = entry[f] /\ entry[f].irp # i
  <2>1. DokanFreeIrpEntry(regEntry[i])
    BY Zenon DEF RegisterUnmounted, RegisterBackOut
  <2>2. \A f \in Entry \ {regEntry[i]} : entry[f].irp # i
    BY Zenon, <1>1, PendingIrpAssumption DEF Ownership
  <2> QED
    BY Zenon, <1>1, <2>1, <2>2, Freed
<1>5. /\ Len(result'[i]) <= 1 /\ settled'[i] <= Len(result'[i])
      /\ \A j \in Irp \ {i} : result'[j] = result[j] /\ settled'[j] = settled[j]
  <2>1. CASE UNCHANGED doneVars
    BY <1>1, <2>1
  <2>2. CASE /\ \E s \in Status : Complete(i, s)
             /\ \E kinds : SettleIf(i, kinds)
    BY Zenon, <1>1, <2>2, Finished
  <2>3. \/ UNCHANGED doneVars
        \/ /\ \E s \in Status : Complete(i, s)
           /\ \E kinds : SettleIf(i, kinds)
    BY Zenon DEF RegisterUnmounted, RegisterBackOut, Refuse, Status
  <2> QED
    BY Zenon, <2>1, <2>2, <2>3
<1>6. /\ Uniq'
      /\ \A f \in Entry : EntryOwnership(f)'
      /\ \A j \in Irp : IrpOwnership(j)'
  BY Zenon, <1>1, <1>2, <1>3, <1>4, <1>5, Leave
<1>7. Replies'
  <2>1. \A r \in Replier : rentry[r] # None => rentry[r] \in Entry \ {regEntry[i]}
    BY Zenon, <1>1 DEF Ownership, TypeOK
  <2> QED
    BY SMTT(30), <1>2, <1>4, <2>1 DEF Replies, Ownership
<1> QED
  BY Zenon, <1>6, <1>7 DEF Ownership, Uniq, Replies

(* The entry in the hands of the scanner, the unmount, the retry or a reply *)
(* is that of an uncompleted request no cancel routine can reach.           *)
LEMMA HandIsOwner ==
  ASSUME TypeOK, Ownership, NEW e \in InHand
  PROVE  /\ e \in Entry /\ entry[e].irp \in Irp
         /\ Quiet(entry[e].irp) /\ Registered(entry[e].irp)
         /\ result[entry[e].irp] = <<>>
         /\ settled[entry[e].irp] <= Len(result[entry[e].irp])
         /\ regEntry[entry[e].irp] = None
         /\ \A f \in Entry \ {e} : entry[f].irp # entry[e].irp
         /\ ~entry[e].nulled /\ ~entry[e].freeMemory
<1>1. e \in Entry /\ EntryOwnership(e)
  BY Zenon DEF InHand, Ownership
<1>2. entry[e].irp \in Irp
  BY Zenon, <1>1, EntryFields DEF InHand, EntryOwnership
<1>3. IrpOwnership(entry[e].irp)
  BY Zenon, <1>2 DEF Ownership
<1>4. /\ Quiet(entry[e].irp) /\ Registered(entry[e].irp)
      /\ result[entry[e].irp] = <<>>
      /\ ~entry[e].nulled /\ ~entry[e].freeMemory
  BY Zenon, <1>1 DEF EntryOwnership, InHand
<1>5. /\ settled[entry[e].irp] <= Len(result[entry[e].irp])
      /\ regEntry[entry[e].irp] = None
  BY Zenon, <1>3, <1>4 DEF IrpOwnership, Registered
<1>6. \A f \in Entry \ {e} : entry[f].irp # entry[e].irp
  BY Zenon, <1>1, <1>2, PendingIrpAssumption DEF Ownership
<1> QED
  BY Zenon, <1>1, <1>2, <1>4, <1>5, <1>6

(* Whoever holds an entry in hand completes its request and frees it. *)
LEMMA OwnHandEnds ==
  ASSUME TypeOK, Ownership, NEW e \in InHand,
         DokanFreeIrpEntry(e),
         \E s \in Status : Complete(entry[e].irp, s),
         \E kinds : SettleIf(entry[e].irp, kinds),
         UNCHANGED <<dispatchVars, irpVars, cancelVars>>
  PROVE  /\ Uniq'
         /\ \A f \in Entry : EntryOwnership(f)'
         /\ \A j \in Irp : IrpOwnership(j)'
         /\ IsFree(entry'[e])
         /\ \A f \in Entry \ {e} : entry'[f] = entry[f]
<1> DEFINE i == entry[e].irp
<1>1. /\ e \in Entry /\ i \in Irp /\ Quiet(i) /\ Registered(i) /\ result[i] = <<>>
      /\ settled[i] <= Len(result[i]) /\ regEntry[i] = None
      /\ \A f \in Entry \ {e} : entry[f].irp # i
  BY Zenon, HandIsOwner
<1>2. /\ IsFree(entry'[e])
      /\ \A f \in Entry \ {e} : entry'[f] = entry[f]
  BY Zenon, <1>1, Freed
<1>3. /\ Len(result'[i]) <= 1 /\ settled'[i] <= Len(result'[i])
      /\ \A j \in Irp \ {i} : result'[j] = result[j] /\ settled'[j] = settled[j]
  BY Zenon, <1>1, Finished
<1>4. entry[e].irp = i
  BY Zenon
<1> HIDE DEF i
<1>5. /\ cpc[i] \in {"idle", "flagged", "over"}
      /\ dpc'[i] \in {"notify", "pended", "failed", "dropped"}
      /\ \A j \in Irp \ {i} : dpc'[j] = dpc[j]
      /\ \A f \in Entry : IF entry[f].irp = i THEN IsFree(entry'[f])
                                              ELSE entry'[f] = entry[f]
      /\ ~routine'[i]
      /\ \A j \in Irp \ {i} : routine'[j] = routine[j] /\ context'[j] = context[j]
      /\ regEntry'[i] = None
      /\ \A j \in Irp \ {i} : regEntry'[j] = regEntry[j]
      /\ UNCHANGED <<path, cpc, holds>>
  BY Zenon, <1>1, <1>2, <1>4 DEF Quiet, Registered, dispatchVars, irpVars, cancelVars
<1>6. /\ Uniq'
      /\ \A f \in Entry : EntryOwnership(f)'
      /\ \A j \in Irp : IrpOwnership(j)'
  BY Zenon, <1>1, <1>3, <1>5, Leave
<1> QED
  BY Zenon, <1>2, <1>6

(* The timeout scan completes an entry it took out of the list. *)
LEMMA OwnScanComplete ==
  ASSUME TypeOK, Ownership, NEW e \in Entry, ScanComplete(e) \/ ReleaseComplete(e)
  PROVE  Ownership'
<1>1. /\ e \in InHand /\ entry[e].at # "reply"
      /\ DokanFreeIrpEntry(e)
      /\ \E s \in Status : Complete(entry[e].irp, s)
      /\ \E kinds : SettleIf(entry[e].irp, kinds)
      /\ UNCHANGED <<dispatchVars, irpVars, cancelVars>>
      /\ UNCHANGED <<rpc, rentry>>
  BY Zenon DEF ScanComplete, ReleaseComplete, InHand, Status, libraryVars
<1>2. /\ Uniq'
      /\ \A f \in Entry : EntryOwnership(f)'
      /\ \A j \in Irp : IrpOwnership(j)'
      /\ \A f \in Entry \ {e} : entry'[f] = entry[f]
  BY Zenon, <1>1, OwnHandEnds
<1>3. Replies'
  <2>1. \A r \in Replier : rentry[r] # None => rentry[r] \in Entry \ {e}
    BY Zenon, <1>1 DEF Ownership, TypeOK
  <2> QED
    BY Zenon, <1>1, <1>2, <2>1 DEF Replies, Ownership
<1> QED
  BY Zenon, <1>2, <1>3 DEF Ownership, Uniq, Replies

(* A reply completes the request whose entry it took. *)
LEMMA OwnReplyComplete ==
  ASSUME TypeOK, Ownership, NEW r \in Replier, ReplyComplete(r)
  PROVE  Ownership'
<1> DEFINE e == rentry[r]
<1>1. e \in Entry /\ entry[e].at = "reply"
  BY Zenon, PendingIrpAssumption DEF Ownership, ReplyComplete
<1>2. /\ e \in InHand
      /\ DokanFreeIrpEntry(e)
      /\ \E s \in Status : Complete(entry[e].irp, s)
      /\ \E kinds : SettleIf(entry[e].irp, kinds)
      /\ UNCHANGED <<dispatchVars, irpVars, cancelVars>>
      /\ rentry' = [rentry EXCEPT ![r] = None]
      /\ rpc' = [rpc EXCEPT ![r] = "idle"]
  BY Zenon, <1>1 DEF ReplyComplete, InHand, Status
<1>3. \A q \in Replier \ {r} : rentry[q] # None => rentry[q] \in Entry \ {e}
  BY Zenon, <1>1, PendingIrpAssumption DEF Ownership, TypeOK
<1> HIDE DEF e
<1>4. /\ Uniq'
      /\ \A f \in Entry : EntryOwnership(f)'
      /\ \A j \in Irp : IrpOwnership(j)'
      /\ \A f \in Entry \ {e} : entry'[f] = entry[f]
  BY Zenon, <1>2, OwnHandEnds
<1>5. Replies'
  BY ZenonT(60), <1>2, <1>3, <1>4 DEF Replies, Ownership, TypeOK
<1> QED
  BY Zenon, <1>4, <1>5 DEF Ownership, Uniq, Replies

(* Steps that change at most serial numbers, tick counts and statuses of   *)
(* entries, and the library's own state.                                   *)
LEMMA OwnSame ==
  ASSUME TypeOK, Ownership, \A f \in Entry : Same(entry'[f], entry[f]),
         UNCHANGED <<dpc, path, regEntry, routine, context, doneVars, cancelVars, rentry>>,
         \A r \in Replier : rpc'[r] \in {"complete", "answer", "force"} =>
                              rpc[r] \in {"complete", "answer", "force"}
  PROVE  Ownership'
<1> USE DEF Same, SameBut, doneVars, cancelVars
<1>1. Uniq'
  BY DEF Uniq, Ownership
<1>2. ASSUME NEW f \in Entry PROVE EntryOwnership(f)'
  BY Zenon, EntryKept DEF Ownership
<1>3. ASSUME NEW j \in Irp PROVE IrpOwnership(j)'
  <2>1. \A f \in Entry : HeldBy(j, f) =>
           HeldBy(j, f)' /\ entry'[f].at = entry[f].at /\ entry'[f].list = entry[f].list
    BY Zenon DEF HeldBy
  <2>2. IrpOwnership(j)
    BY Zenon DEF Ownership
  <2> QED
    BY Zenon, <2>1, <2>2, IrpKept
<1>4. \A r \in Replier : rentry[r] # None => rentry[r] \in Entry
  BY Zenon DEF TypeOK
<1>5. Replies'
  BY ZenonT(60), <1>4 DEF Replies, Ownership
<1> QED
  BY Zenon, <1>1, <1>2, <1>3, <1>5 DEF Ownership, Uniq, Replies

(* The second unmount check of a reply changes its program counter only. *)
LEMMA OwnReplyAccept ==
  ASSUME TypeOK, Ownership, NEW r \in Replier, ReplyAccept(r)
  PROVE  Ownership'
<1>1. /\ UNCHANGED <<dpc, path, regEntry, routine, context, doneVars, cancelVars, rentry>>
      /\ \A f \in Entry : Same(entry'[f], entry[f])
  BY Zenon DEF ReplyAccept, dispatchVars, irpVars, Same, SameBut
<1>2. \A q \in Replier : rpc'[q] \in {"complete", "answer", "force"} =>
                           rpc[q] \in {"complete", "answer", "force"}
  BY Zenon DEF ReplyAccept, TypeOK
<1> QED
  BY Zenon, <1>1, <1>2, OwnSame

(* A reply that finds no entry changes nothing the invariant reads. *)
LEMMA OwnReplyNotFound ==
  ASSUME TypeOK, Ownership, NEW r \in Replier, ReplyStart(r) \/ ReplyNoMatch(r)
  PROVE  Ownership'
<1> USE DEF dispatchVars, irpVars
<1>1. \A f \in Entry : Same(entry'[f], entry[f])
  BY Zenon DEF ReplyStart, ReplyNoMatch, Same, SameBut
<1>2. \A q \in Replier : rpc'[q] \in {"complete", "answer", "force"} => rpc'[q] = rpc[q]
  BY ZenonT(60) DEF ReplyStart, ReplyNoMatch, TypeOK
<1>3. UNCHANGED <<dpc, path, regEntry, routine, context, doneVars, cancelVars, rentry>>
  BY Zenon DEF ReplyStart, ReplyNoMatch
<1> QED
  BY Zenon, <1>1, <1>2, <1>3, OwnSame

(* A deadline that passes or is extended keeps the invariant. *)
LEMMA OwnTick ==
  ASSUME TypeOK, Ownership,
         \/ \E e \in Entry : Expire(e)
         \/ \E s \in events : DokanResetPendingIrpTimeout(s)
  PROVE  Ownership'
<1> USE DEF dispatchVars, irpVars, libraryVars
<1>1. \A f \in Entry : Same(entry[f], entry[f])
  BY Zenon DEF Same, SameBut
<1>2. \A f \in Entry : Same(entry'[f], entry[f])
  <2>1. \A f \in Entry : entry[f] \in EntryType
    BY Zenon DEF TypeOK
  <2>2. ASSUME NEW e \in Entry, Expire(e), NEW f \in Entry
        PROVE  Same(entry'[f], entry[f])
    <3>1. entry'[f] = IF f = e THEN [entry[f] EXCEPT !.tick = "past"] ELSE entry[f]
      BY Zenon, <2>2 DEF Expire, TypeOK
    <3> QED
      BY ZenonT(60), <1>1, <2>1, <3>1, FieldUpdates
  <2>3. ASSUME NEW s \in events, DokanResetPendingIrpTimeout(s), NEW f \in Entry
        PROVE  Same(entry'[f], entry[f])
    <3>1. entry'[f] = IF f \in Matching(s) THEN [entry[f] EXCEPT !.tick = "future"]
                                           ELSE entry[f]
      BY Zenon, <2>3 DEF DokanResetPendingIrpTimeout
    <3> QED
      BY Zenon, <1>1, <2>1, <3>1, FieldUpdates
  <2> QED
    BY Zenon, <2>2, <2>3
<1>3. UNCHANGED <<dpc, path, regEntry, routine, context, doneVars, cancelVars, rentry, rpc>>
  BY Zenon DEF Expire, DokanResetPendingIrpTimeout
<1> QED
  BY Zenon, <1>2, <1>3, OwnSame

(* A step of none of these parts keeps the invariant. *)
LEMMA OwnUnchanged ==
  ASSUME TypeOK, Ownership, ReleaseClaim \/ UNCHANGED vars
  PROVE  Ownership'
<1> USE DEF dispatchVars, irpVars, libraryVars
<1>1. \A f \in Entry : Same(entry'[f], entry[f])
  BY Zenon DEF ReleaseClaim, vars, Same, SameBut
<1>2. UNCHANGED <<dpc, path, regEntry, routine, context, doneVars, cancelVars, rentry, rpc>>
  BY Zenon DEF ReleaseClaim, vars
<1> QED
  BY Zenon, <1>1, <1>2, OwnSame

(* Steps of the dispatching thread before it has an entry. *)
LEMMA OwnDispatch ==
  ASSUME TypeOK, Ownership, NEW i \in Irp,
         \/ DispatchToRegister(i) \/ DispatchToOplock(i) \/ OplockBroken(i)
         \/ OplockFailed(i) /\ Kind[i] = "create"
  PROVE  Ownership'
<1>1. /\ dpc[i] \in {"new", "redispatch", "oplock", "register"}
      /\ dpc'[i] \in {"new", "redispatch", "oplock", "register"}
      /\ \A j \in Irp \ {i} : dpc'[j] = dpc[j] /\ path'[j] = path[j]
      /\ UNCHANGED <<entry, regEntry, routine, context, doneVars, cancelVars, rentry, rpc>>
  BY SMTT(30) DEF DispatchToRegister, DispatchToOplock, OplockBroken, OplockFailed, TypeOK,
         irpVars, libraryVars, doneVars
<1> USE DEF doneVars, cancelVars
<1>2. Uniq'
  BY Zenon, <1>1 DEF Uniq, Ownership
<1>3. ASSUME NEW f \in Entry PROVE EntryOwnership(f)'
  <2>1. EntryOwnership(f) /\ entry[f].irp # i
    BY Zenon, <1>1 DEF Ownership, IrpOwnership
  <2>2. Same(entry'[f], entry[f])
    BY Zenon, <1>1 DEF Same, SameBut
  <2> QED
    BY Zenon, <1>1, <2>1, <2>2, EntryKept
<1>4. ASSUME NEW j \in Irp PROVE IrpOwnership(j)'
  <2>1. IrpOwnership(j)
    BY Zenon DEF Ownership
  <2>2. CASE j = i
    BY Zenon, <1>1, <2>1, <2>2 DEF IrpOwnership, Quiet, HeldBy
  <2>3. CASE j # i
    BY Zenon, <1>1, <2>1, <2>3, IrpKept DEF HeldBy
  <2> QED
    BY Zenon, <2>2, <2>3
<1>5. Replies'
  BY Zenon, <1>1 DEF Replies, Ownership
<1> QED
  BY Zenon, <1>2, <1>3, <1>4, <1>5 DEF Ownership, Uniq, Replies

(* The event of a registered request is queued after the insertion. *)
LEMMA OwnNotify ==
  ASSUME TypeOK, Ownership, NEW i \in Irp, Notify(i)
  PROVE  Ownership'
<1>1. /\ dpc[i] = "notify" /\ dpc'[i] = "pended"
      /\ \A j \in Irp \ {i} : dpc'[j] = dpc[j]
      /\ UNCHANGED <<path, entry, regEntry, routine, context, doneVars, cancelVars, rentry, rpc>>
  BY Zenon DEF Notify, TypeOK, irpVars
<1> USE DEF doneVars, cancelVars
<1>2. Uniq'
  BY Zenon, <1>1 DEF Uniq, Ownership
<1>3. ASSUME NEW f \in Entry PROVE EntryOwnership(f)'
  <2>1. entry[f].irp \in Irp \/ entry[f].irp = None
    BY Zenon, EntryFields
  <2> QED
    BY SMTT(30), <1>1, <2>1 DEF Ownership, EntryOwnership, Quiet, Registered, InHand, Lists
<1>4. ASSUME NEW j \in Irp PROVE IrpOwnership(j)'
  <2>1. IrpOwnership(j)
    BY Zenon DEF Ownership
  <2>2. CASE j = i
    BY Zenon, <1>1, <2>1, <2>2 DEF IrpOwnership, Quiet, Registered, HeldBy
  <2>3. CASE j # i
    BY Zenon, <1>1, <2>1, <2>3, IrpKept DEF HeldBy
  <2> QED
    BY Zenon, <2>2, <2>3
<1>5. Replies'
  BY Zenon, <1>1 DEF Replies, Ownership
<1> QED
  BY Zenon, <1>2, <1>3, <1>4, <1>5 DEF Ownership, Uniq, Replies

(* RegisterPendingIrpMain takes a free entry for its request. *)
LEMMA OwnRegisterAllocate ==
  ASSUME TypeOK, Ownership, NEW i \in Irp, RegisterAllocate(i)
  PROVE  Ownership'
<1>1. /\ Quiet(i) /\ result[i] = <<>>
      /\ \A f \in Entry : entry[f].irp # i
  BY Zenon DEF RegisterAllocate, Ownership, IrpOwnership
<1>2. PICK e \in Entry :
        /\ entry[e].irp = None
        /\ entry' = [entry EXCEPT ![e] =
             [FreeEntry EXCEPT !.irp = i, !.at = "register", !.list = ListOf(i),
                !.async = IF path[i] = "async" THEN "OPLOCK_FAILURE" ELSE "SUCCESS"]]
        /\ regEntry' = [regEntry EXCEPT ![i] = e]
  BY Zenon DEF RegisterAllocate
<1>3. /\ entry'[e].irp = i /\ entry'[e].at = "register" /\ entry'[e].list = ListOf(i)
      /\ ~entry'[e].forced /\ ~entry'[e].freeMemory /\ ~entry'[e].nulled
  BY Zenon, <1>2 DEF TypeOK, FreeEntry
<1>4. \A f \in Entry \ {e} : entry'[f] = entry[f]
  BY Zenon, <1>2 DEF TypeOK
<1>5. /\ dpc'[i] = "allocated" /\ regEntry'[i] = e
      /\ \A j \in Irp \ {i} : dpc'[j] = dpc[j] /\ regEntry'[j] = regEntry[j]
      /\ UNCHANGED <<path, routine, context, result, settled, cpc, holds, rentry, rpc>>
  BY Zenon, <1>2 DEF RegisterAllocate, TypeOK, irpVars, libraryVars, doneVars, cancelVars
<1>6. Uniq'
  BY <1>1, <1>3, <1>4 DEF Uniq, Ownership
<1>7. ASSUME NEW f \in Entry PROVE EntryOwnership(f)'
  <2>1. CASE f = e
    BY Zenon, <1>3, <1>5, <2>1, PendingIrpAssumption DEF EntryOwnership, InHand, Lists
  <2>2. CASE f # e
    <3>1. entry'[f] = entry[f] /\ EntryOwnership(f)
      BY Zenon, <1>4, <2>2 DEF Ownership
    <3>2. entry[f].irp \in Irp \ {i} \/ entry[f].irp = None
      BY Zenon, <1>1, EntryFields
    <3> QED
      BY Zenon, <1>5, <3>1, <3>2 DEF EntryOwnership, Quiet, Registered, InHand, Lists
  <2> QED
    BY Zenon, <2>1, <2>2
<1>8. ASSUME NEW j \in Irp PROVE IrpOwnership(j)'
  <2>1. IrpOwnership(j)
    BY Zenon DEF Ownership
  <2>2. CASE j = i
    BY Zenon, <1>1, <1>3, <1>5, <2>1, <2>2 DEF IrpOwnership, Quiet, HeldBy, ListOf
  <2>3. CASE j # i
    <3>1. \A f \in Entry : HeldBy(j, f) => HeldBy(j, f)' /\ entry'[f] = entry[f]
      BY Zenon, <1>2, <1>4, PendingIrpAssumption DEF HeldBy
    <3>2. \A f \in Entry : entry'[f].irp = j => entry[f].irp = j /\ entry'[f] = entry[f]
      BY Zenon, <1>3, <1>4, <2>3
    <3> QED
      BY Zenon, <1>5, <2>1, <2>3, <3>1, <3>2, IrpKept
  <2> QED
    BY Zenon, <2>2, <2>3
<1>9. Replies'
  <2>1. \A r \in Replier : rentry[r] # None => rentry[r] \in Entry \ {e}
    <3>1. entry[e].at = "free"
      BY Zenon, <1>2 DEF Ownership, EntryOwnership
    <3> QED
      BY Zenon, <3>1 DEF Ownership, TypeOK
  <2> QED
    BY Zenon, <1>4, <1>5, <2>1 DEF Replies, Ownership
<1> QED
  BY Zenon, <1>6, <1>7, <1>8, <1>9 DEF Ownership, Uniq, Replies

(* The cancel routine is set with the entry still out of the lists. *)
LEMMA OwnRegisterSetRoutine ==
  ASSUME TypeOK, Ownership, NEW i \in Irp, RegisterSetRoutine(i)
  PROVE  Ownership'
<1>1. /\ dpc[i] = "allocated" /\ Quiet(i) /\ result[i] = <<>>
      /\ HeldBy(i, regEntry[i])
      /\ entry[regEntry[i]].at = "register"
      /\ entry[regEntry[i]].list = ListOf(i)
  BY Zenon DEF RegisterSetRoutine, Ownership, IrpOwnership
<1>2. /\ dpc'[i] = "set" /\ routine'[i] /\ context'[i] = regEntry[i]
      /\ \A j \in Irp \ {i} : /\ dpc'[j] = dpc[j]
                              /\ routine'[j] = routine[j]
                              /\ context'[j] = context[j]
      /\ UNCHANGED <<path, regEntry, result, settled, cpc, holds, rentry, rpc>>
  BY Zenon DEF RegisterSetRoutine, TypeOK, libraryVars, doneVars, cancelVars
<1>3. ASSUME NEW f \in Entry PROVE Same(entry'[f], entry[f])
  <2>1. entry[f] \in EntryType
    BY Zenon DEF TypeOK
  <2>2. Same(entry[f], entry[f])
    BY Zenon DEF Same, SameBut
  <2>3. CASE path[i] \in {"retry", "async"}
    BY Zenon, <2>2, <2>3 DEF RegisterSetRoutine
  <2>4. CASE path[i] \notin {"retry", "async"}
    <3> DEFINE n == serial + 1
    <3>1. entry' = [entry EXCEPT ![regEntry[i]].serial = n]
      BY Zenon, <2>4 DEF RegisterSetRoutine
    <3> HIDE DEF n
    <3>2. entry'[f] = IF f = regEntry[i] THEN [entry[f] EXCEPT !.serial = n]
                                         ELSE entry[f]
      BY Zenon, <3>1 DEF TypeOK
    <3>3. CASE f = regEntry[i]
      <4>1. Same([entry[f] EXCEPT !.serial = n], entry[f])
        BY Zenon, <2>1, FieldUpdates
      <4> QED
        BY Zenon, <3>2, <3>3, <4>1
    <3> QED
      BY Zenon, <2>2, <3>2, <3>3
  <2> QED
    BY Zenon, <2>3, <2>4
<1> USE DEF Same, SameBut
<1>4. Uniq'
  BY <1>3 DEF Uniq, Ownership
<1>5. ASSUME NEW f \in Entry PROVE EntryOwnership(f)'
  <2>1. EntryOwnership(f)
    BY Zenon DEF Ownership
  <2>2. CASE entry[f].irp = i
    <3>1. f = regEntry[i]
      BY Zenon, <1>1, <2>2, PendingIrpAssumption DEF Ownership, HeldBy
    <3>2. /\ entry'[f].irp = i /\ entry'[f].at = "register" /\ i # None
          /\ regEntry'[i] = f /\ dpc'[i] = "set" /\ cpc'[i] = cpc[i]
          /\ entry'[f].forced = entry[f].forced
          /\ entry'[f].nulled = entry[f].nulled
          /\ entry'[f].freeMemory = entry[f].freeMemory
      <4>1. entry[f].at = "register" /\ i # None
        BY Zenon, <1>1, <3>1, PendingIrpAssumption
      <4>2. regEntry'[i] = f /\ dpc'[i] = "set" /\ cpc'[i] = cpc[i]
        BY Zenon, <1>2, <3>1
      <4>3. Same(entry'[f], entry[f])
        BY Zenon, <1>3
      <4> QED
        BY Zenon, <2>2, <4>1, <4>2, <4>3
    <3>3. /\ entry[f].forced => cpc[i] = "over"
          /\ ~entry[f].nulled /\ ~entry[f].freeMemory
      BY Zenon, <1>1, <2>1, <2>2, <3>1 DEF EntryOwnership
    <3> QED
      BY Zenon, <3>2, <3>3 DEF EntryOwnership, InHand, Lists
  <2>3. CASE entry[f].irp # i
    BY Zenon, <1>2, <1>3, <2>1, <2>3, EntryKept
  <2> QED
    BY Zenon, <2>2, <2>3
<1>6. ASSUME NEW j \in Irp PROVE IrpOwnership(j)'
  <2>1. IrpOwnership(j)
    BY Zenon DEF Ownership
  <2>2. \A f \in Entry : HeldBy(j, f) =>
           HeldBy(j, f)' /\ entry'[f].at = entry[f].at /\ entry'[f].list = entry[f].list
    BY Zenon, <1>3 DEF HeldBy
  <2>3. CASE j = i
    <3>1. /\ HeldBy(i, regEntry[i])' /\ HeldBy(i, context[i])'
          /\ entry'[regEntry[i]].at = "register"
          /\ entry'[regEntry[i]].list = ListOf(i)
          /\ regEntry'[i] = regEntry[i]
      <4>1. regEntry[i] \in Entry
        BY Zenon, <1>1 DEF HeldBy
      <4>2. /\ entry'[regEntry[i]].irp = i /\ ~entry'[regEntry[i]].nulled
            /\ entry'[regEntry[i]].at = "register"
            /\ entry'[regEntry[i]].list = ListOf(i)
        BY Zenon, <1>1, <2>2, <2>3, <4>1 DEF HeldBy
      <4> QED
        BY Zenon, <1>2, <4>1, <4>2 DEF HeldBy
    <3> QED
      BY Zenon, <1>1, <1>2, <2>1, <2>3, <3>1 DEF IrpOwnership, Quiet, HeldBy, ListOf
  <2>4. CASE j # i
    BY Zenon, <1>2, <1>3, <2>1, <2>2, <2>4, IrpKept
  <2> QED
    BY Zenon, <2>3, <2>4
<1>7. Replies'
  <2>1. \A r \in Replier : rentry[r] # None => rentry[r] \in Entry
    BY Zenon DEF TypeOK
  <2> QED
    BY Zenon, <1>2, <1>3, <2>1 DEF Replies, Ownership
<1> QED
  BY Zenon, <1>4, <1>5, <1>6, <1>7 DEF Ownership, Uniq, Replies

(* The entry goes into its list and the list lock is released. *)
LEMMA OwnRegisterInsert ==
  ASSUME TypeOK, Ownership, NEW i \in Irp, RegisterInsert(i)
  PROVE  Ownership'
<1> DEFINE e == regEntry[i]
<1>1. /\ dpc[i] = "set" /\ result[i] = <<>>
      /\ HeldBy(i, e)
      /\ entry[e].at = "register"
      /\ entry[e].list = ListOf(i)
  BY Zenon DEF RegisterInsert, Ownership, IrpOwnership
<1>2. /\ dpc'[i] \in {"notify", "pended"} /\ regEntry'[i] = None
      /\ \A j \in Irp \ {i} : dpc'[j] = dpc[j] /\ regEntry'[j] = regEntry[j]
      /\ UNCHANGED <<path, routine, context, result, settled, cpc, holds, rentry, rpc>>
  BY Zenon DEF RegisterInsert, TypeOK, libraryVars, doneVars, cancelVars, irpVars
<1>3. e \in Entry /\ entry[e].irp = i /\ ~entry[e].nulled
  BY Zenon, <1>1 DEF HeldBy
<1>4. SameBut(entry'[e], entry[e], ListOf(i))
  <2>1. entry[e] \in EntryType
    BY Zenon, <1>3 DEF TypeOK
  <2>2. entry'[e] = [entry[e] EXCEPT !.at = ListOf(i)]
    BY Zenon, <1>3 DEF TypeOK, RegisterInsert
  <2> QED
    BY Zenon, <2>1, <2>2, FieldUpdates
<1>5. \A f \in Entry \ {e} : entry'[f] = entry[f] /\ entry[f].irp # i
  <2>1. \A f \in Entry \ {e} : entry'[f] = entry[f]
    BY Zenon DEF TypeOK, RegisterInsert
  <2>2. \A f \in Entry \ {e} : entry[f].irp # i
    BY Zenon, <1>3, PendingIrpAssumption DEF Ownership
  <2> QED
    BY Zenon, <2>1, <2>2
<1> HIDE DEF e
<1> USE DEF SameBut
<1>6. Uniq'
  BY <1>3, <1>4, <1>5 DEF Uniq, Ownership
<1>7. ASSUME NEW f \in Entry PROVE EntryOwnership(f)'
  <2>1. EntryOwnership(f)
    BY Zenon DEF Ownership
  <2>2. CASE f = e
    <3>1. ListOf(i) \in Lists
      BY Zenon DEF ListOf, Lists
    <3> QED
      BY Zenon, <1>1, <1>2, <1>3, <1>4, <2>1, <2>2, <3>1, PendingIrpAssumption
         DEF EntryOwnership, InHand, Lists, Registered
  <2>3. CASE f # e
    <3>1. entry[f].irp \in Irp \ {i} \/ entry[f].irp = None
      BY Zenon, <1>5, <2>3, EntryFields
    <3> QED
      BY Zenon, <1>2, <1>5, <2>1, <2>3, <3>1 DEF EntryOwnership, Quiet, Registered, InHand, Lists
  <2> QED
    BY Zenon, <2>2, <2>3
<1>8. ASSUME NEW j \in Irp PROVE IrpOwnership(j)'
  <2>1. IrpOwnership(j)
    BY Zenon DEF Ownership
  <2>2. CASE j = i
    BY Zenon, <1>1, <1>2, <1>3, <1>4, <1>5, <2>1, <2>2
       DEF IrpOwnership, Quiet, Registered, HeldBy
  <2>3. CASE j # i
    <3>1. \A f \in Entry : HeldBy(j, f) => HeldBy(j, f)' /\ entry'[f] = entry[f]
      BY Zenon, <1>3, <1>5, <2>3 DEF HeldBy
    <3>2. \A f \in Entry : entry'[f].irp = j => entry[f].irp = j /\ entry'[f] = entry[f]
      BY Zenon, <1>3, <1>4, <1>5, <2>3
    <3> QED
      BY Zenon, <1>2, <2>1, <2>3, <3>1, <3>2, IrpKept
  <2> QED
    BY Zenon, <2>2, <2>3
<1>9. Replies'
  <2>1. \A r \in Replier : rentry[r] # None => rentry[r] \in Entry \ {e}
    BY Zenon, <1>1 DEF Ownership, TypeOK
  <2> QED
    BY Zenon, <1>2, <1>5, <2>1 DEF Replies, Ownership
<1> QED
  BY Zenon, <1>6, <1>7, <1>8, <1>9 DEF Ownership, Uniq, Replies

-----------------------------------------------------------------------------
(* The steps of the others.                                                *)

(* The steps of a cancellation that leave the entries alone. *)
LEMMA OwnCancelStart ==
  ASSUME TypeOK, Ownership, NEW i \in Irp,
         IoCancelIrp(i) \/ IoCancelTake(i) \/ CancelReadEntry(i)
  PROVE  Ownership'
<1> USE DEF dispatchVars, irpVars, doneVars, cancelVars, libraryVars
<1>1. IrpOwnership(i)
  BY Zenon DEF Ownership
<1>2. /\ \A j \in Irp \ {i} : /\ cpc'[j] = cpc[j] /\ holds'[j] = holds[j]
                              /\ routine'[j] = routine[j]
      /\ UNCHANGED <<entry, dpc, path, regEntry, context, result, settled, rentry, rpc>>
  BY ZenonT(60) DEF IoCancelIrp, IoCancelTake, CancelReadEntry, TypeOK
<1>3. \/ /\ cpc[i] = "idle" /\ cpc'[i] = "flagged"
         /\ routine'[i] = routine[i] /\ holds'[i] = holds[i]
      \/ /\ cpc[i] = "flagged" /\ ~routine[i] /\ cpc'[i] = "over"
         /\ ~routine'[i] /\ holds'[i] = holds[i]
      \/ /\ cpc[i] = "flagged" /\ routine[i] /\ cpc'[i] = "called"
         /\ ~routine'[i] /\ holds'[i] = holds[i]
      \/ /\ cpc[i] = "called" /\ cpc'[i] = "holding"
         /\ ~routine'[i] /\ holds'[i] = context[i]
  <2>1. CASE IoCancelIrp(i)
    BY Zenon, <2>1 DEF IoCancelIrp, TypeOK
  <2>2. CASE IoCancelTake(i)
    BY Zenon, <2>2 DEF IoCancelTake, TypeOK
  <2>3. CASE CancelReadEntry(i)
    <3>1. ~routine[i] /\ context[i] # None
      BY Zenon, <1>1, <2>3, PendingIrpAssumption DEF CancelReadEntry, IrpOwnership, HeldBy
    <3> QED
      BY Zenon, <2>3, <3>1 DEF CancelReadEntry, TypeOK
  <2> QED
    BY Zenon, <2>1, <2>2, <2>3
<1>4. Uniq'
  BY Zenon, <1>2 DEF Uniq, Ownership
<1>5. ASSUME NEW f \in Entry PROVE EntryOwnership(f)'
  <2>1. EntryOwnership(f)
    BY Zenon DEF Ownership
  <2>2. entry[f].irp = i \/ entry[f].irp \in Irp \ {i} \/ entry[f].irp = None
    BY Zenon, EntryFields
  <2>3. CASE entry[f].irp = i
    <3>1. f \in InHand => ~routine[i]
      BY Zenon, <2>1, <2>3 DEF EntryOwnership, Quiet
    <3> QED
      BY Zenon, <1>2, <1>3, <2>1, <2>3, <3>1
         DEF EntryOwnership, Quiet, Registered, InHand, Lists
  <2>4. CASE entry[f].irp # i
    BY Zenon, <1>2, <2>1, <2>2, <2>4 DEF EntryOwnership, Quiet, Registered, InHand, Lists
  <2> QED
    BY Zenon, <2>3, <2>4
<1>6. ASSUME NEW j \in Irp PROVE IrpOwnership(j)'
  <2>1. CASE j = i
    <3>1. Quiet(i) => Quiet(i)'
      BY Zenon, <1>3 DEF Quiet
    <3>2. dpc[i] \in {"new", "redispatch", "oplock", "register", "allocated"} => Quiet(i)
      BY Zenon, <1>1 DEF IrpOwnership
    <3> QED
      BY Zenon, <1>1, <1>2, <1>3, <2>1, <3>1, <3>2 DEF IrpOwnership, Registered, HeldBy, ListOf
  <2>2. CASE j # i
    <3>1. IrpOwnership(j)
      BY Zenon DEF Ownership
    <3>2. /\ cpc'[j] = cpc[j] /\ holds'[j] = holds[j] /\ routine'[j] = routine[j]
          /\ entry' = entry /\ dpc' = dpc /\ path' = path /\ regEntry' = regEntry
          /\ context' = context /\ result' = result /\ settled' = settled
      BY Zenon, <1>2, <2>2
    <3> QED
      BY Zenon, <3>1, <3>2 DEF IrpOwnership, Quiet, Registered, HeldBy, ListOf
  <2> QED
    BY Zenon, <2>1, <2>2
<1>7. Replies'
  BY Zenon, <1>2 DEF Replies, Ownership
<1> QED
  BY Zenon, <1>4, <1>5, <1>6, <1>7 DEF Ownership, Uniq, Replies

(* The cancel routine of a create writes into the entry it holds. *)
LEMMA OwnCreateCancel ==
  ASSUME TypeOK, Ownership, NEW i \in Irp, CreateCancelMark(i) \/ CreateCancelForce(i)
  PROVE  Ownership'
<1> USE DEF dispatchVars, irpVars, doneVars, cancelVars, libraryVars
<1> DEFINE e == holds[i]
<1>1. IrpOwnership(i) /\ ~routine[i] /\ HeldBy(i, e) /\ cpc[i] \in {"holding", "marked"}
  BY Zenon DEF Ownership, IrpOwnership, CreateCancelMark, CreateCancelForce
<1>2. /\ \A j \in Irp \ {i} : cpc'[j] = cpc[j] /\ holds'[j] = holds[j]
      /\ UNCHANGED <<dpc, path, regEntry, routine, context, result, settled, rentry, rpc>>
      /\ \/ cpc'[i] = "marked" /\ holds'[i] = holds[i]
         \/ cpc'[i] = "over" /\ holds'[i] = None
  BY SMTT(30) DEF CreateCancelMark, CreateCancelForce, TypeOK
<1>3. \A f \in Entry \ {e} : entry'[f] = entry[f] /\ entry[f].irp # i
  <2>1. \A f \in Entry \ {e} : entry'[f] = entry[f]
    BY SMTT(30) DEF CreateCancelMark, CreateCancelForce, TypeOK
  <2>2. \A f \in Entry \ {e} : entry[f].irp # i
    BY Zenon, <1>1, PendingIrpAssumption DEF Ownership, HeldBy
  <2> QED
    BY Zenon, <2>1, <2>2
<1>4. /\ entry'[e].irp = i /\ entry'[e].at = entry[e].at /\ entry'[e].list = entry[e].list
      /\ entry'[e].freeMemory = entry[e].freeMemory /\ entry'[e].nulled = entry[e].nulled
      /\ entry'[e].forced => entry[e].forced \/ cpc'[i] = "over"
  <2>1. e \in Entry /\ entry[e] \in EntryType /\ entry[e].irp = i
    BY Zenon, <1>1 DEF HeldBy, TypeOK
  <2>2. CASE CreateCancelMark(i)
    <3>1. entry'[e] = [entry[e] EXCEPT !.tick = "zero", !.async = "CANCELLED"]
      BY Zenon, <2>1, <2>2 DEF CreateCancelMark, TypeOK
    <3> QED
      BY <2>1, <3>1, FieldUpdates DEF Same, SameBut
  <2>3. CASE CreateCancelForce(i)
    <3>1. entry'[e] = [entry[e] EXCEPT !.forced = TRUE]
      BY Zenon, <2>1, <2>3 DEF CreateCancelForce, TypeOK
    <3>2. cpc'[i] = "over"
      BY Zenon, <2>3 DEF CreateCancelForce, TypeOK
    <3> QED
      BY Zenon, <2>1, <3>1, <3>2 DEF EntryType
  <2> QED
    BY Zenon, <2>2, <2>3
<1>5. e \in Entry /\ entry[e].irp = i /\ ~entry[e].nulled
  BY Zenon, <1>1 DEF HeldBy
<1>6. holds[i] = e
  BY Zenon
<1> HIDE DEF e
<1>7. Uniq'
  BY SMTT(30), <1>3, <1>4, <1>5 DEF Uniq, Ownership
<1>8. ASSUME NEW f \in Entry PROVE EntryOwnership(f)'
  <2>1. EntryOwnership(f)
    BY Zenon DEF Ownership
  <2>2. CASE f = e
    BY ZenonT(60), <1>1, <1>2, <1>4, <1>5, <2>1, <2>2, PendingIrpAssumption
       DEF EntryOwnership, Quiet, Registered, InHand, Lists
  <2>3. CASE f # e
    <3>1. entry[f].irp \in Irp \ {i} \/ entry[f].irp = None
      BY Zenon, <1>3, <2>3, EntryFields
    <3> QED
      BY Zenon, <1>2, <1>3, <2>1, <2>3, <3>1 DEF EntryOwnership, Quiet, Registered, InHand, Lists
  <2> QED
    BY Zenon, <2>2, <2>3
<1>9. ASSUME NEW j \in Irp PROVE IrpOwnership(j)'
  <2>1. IrpOwnership(j)
    BY Zenon DEF Ownership
  <2>2. \A f \in Entry : /\ entry'[f].irp = entry[f].irp /\ entry'[f].at = entry[f].at
                        /\ entry'[f].list = entry[f].list
                        /\ entry'[f].nulled = entry[f].nulled
                        /\ entry'[f].freeMemory = entry[f].freeMemory
    BY Zenon, <1>3, <1>4, <1>5
  <2>3. \A k \in Irp : \A f : HeldBy(k, f) => HeldBy(k, f)'
    BY Zenon, <2>2 DEF HeldBy
  <2>4. CASE j = i
    <3>1. dpc[i] \notin {"new", "redispatch", "oplock", "register", "allocated"}
      BY Zenon, <1>1 DEF IrpOwnership, Quiet
    <3>2. CASE cpc'[i] = "marked" /\ holds'[i] = holds[i]
      <4>1. /\ dpc'[i] = dpc[i] /\ routine'[i] = routine[i] /\ result'[i] = result[i]
            /\ regEntry'[i] = regEntry[i] /\ settled'[i] = settled[i] /\ path'[i] = path[i]
        BY Zenon, <1>2
      <4> QED
        BY SMTT(30), <1>1, <1>6, <2>2, <2>3, <2>4, <3>1, <3>2, <4>1
           DEF IrpOwnership, Quiet, Registered, HeldBy, ListOf
    <3>3. CASE cpc'[i] = "over" /\ holds'[i] = None
      <4>1. /\ dpc'[i] = dpc[i] /\ routine'[i] = routine[i] /\ result'[i] = result[i]
            /\ regEntry'[i] = regEntry[i] /\ settled'[i] = settled[i] /\ path'[i] = path[i]
        BY Zenon, <1>2
      <4> QED
        BY SMTT(30), <1>1, <2>2, <2>3, <2>4, <3>1, <3>3, <4>1
           DEF IrpOwnership, Quiet, Registered, HeldBy, ListOf
    <3> QED
      BY Zenon, <1>2, <3>2, <3>3
  <2>5. CASE j # i
    <3>1. /\ dpc'[j] = dpc[j] /\ routine'[j] = routine[j] /\ result'[j] = result[j]
          /\ regEntry'[j] = regEntry[j] /\ cpc'[j] = cpc[j] /\ holds'[j] = holds[j]
          /\ context'[j] = context[j] /\ settled'[j] = settled[j] /\ path'[j] = path[j]
      BY Zenon, <1>2, <2>5
    <3> QED
      BY SMTT(30), <2>1, <2>2, <2>3, <2>5, <3>1
         DEF IrpOwnership, Quiet, Registered, HeldBy, ListOf
  <2> QED
    BY Zenon, <2>4, <2>5
<1>10. Replies'
  <2>1. \A r \in Replier : rentry[r] # None => rentry[r] \in Entry
    BY Zenon DEF TypeOK
  <2>2. \A f \in Entry : entry'[f].at = entry[f].at
    BY Zenon, <1>3, <1>4
  <2> QED
    BY Zenon, <1>2, <2>1, <2>2 DEF Replies, Ownership
<1> QED
  BY Zenon, <1>7, <1>8, <1>9, <1>10 DEF Ownership, Uniq, Replies

(* The critical section of DokanIrpCancelRoutine: the routine of a request *)
(* that is not a create becomes its only owner.                            *)
LEMMA OwnIrpCancelUnlink ==
  ASSUME TypeOK, Ownership, NEW i \in Irp, IrpCancelUnlink(i)
  PROVE  Ownership'
<1> USE DEF dispatchVars, irpVars, doneVars, cancelVars, libraryVars
<1> DEFINE e == holds[i]
<1>1. /\ IrpOwnership(i) /\ ~routine[i] /\ HeldBy(i, e)
      /\ cpc[i] = "holding" /\ result[i] = <<>>
  BY Zenon DEF Ownership, IrpOwnership, IrpCancelUnlink
<1>2. e \in Entry /\ entry[e].irp = i /\ ~entry[e].nulled /\ entry[e] \in EntryType
  BY Zenon, <1>1 DEF HeldBy, TypeOK
<1>3. Registered(i) /\ entry[e].at # "reply"
  <2>1. EntryOwnership(e) /\ entry[e].at # "free"
    BY SMTT(30), <1>2, PendingIrpAssumption DEF Ownership, EntryOwnership
  <2>2. e \notin InHand
    BY Zenon, <1>1, <1>2, <2>1 DEF EntryOwnership, Quiet
  <2>3. entry[e].at # "register"
    <3>1. SUFFICES ASSUME entry[e].at = "register" PROVE FALSE
      BY Zenon
    <3>2. regEntry[i] = e /\ dpc[i] \in {"allocated", "set"}
      BY Zenon, <1>2, <2>1, <3>1 DEF EntryOwnership
    <3>3. dpc[i] = "set" /\ entry[e].list = ListOf(i)
      BY Zenon, <1>1, <3>2 DEF IrpOwnership, Quiet
    <3> QED
      BY Zenon, <3>3 DEF IrpCancelUnlink, Unlocked
  <2> QED
    BY Zenon, <1>2, <2>1, <2>2, <2>3, EntryFields DEF EntryOwnership, InHand, Places, Lists
<1>4. /\ cpc'[i] = "unlinked" /\ holds'[i] = None
      /\ \A j \in Irp \ {i} : /\ cpc'[j] = cpc[j] /\ holds'[j] = holds[j]
                              /\ context'[j] = context[j]
      /\ UNCHANGED <<dpc, path, regEntry, routine, result, settled, rentry, rpc>>
  BY Zenon DEF IrpCancelUnlink, TypeOK
<1>5. \A f \in Entry \ {e} : entry'[f] = entry[f] /\ entry[f].irp # i
  <2>1. \A f \in Entry \ {e} : entry'[f] = entry[f]
    BY Zenon DEF IrpCancelUnlink, TypeOK
  <2>2. \A f \in Entry \ {e} : entry[f].irp # i
    BY Zenon, <1>2, PendingIrpAssumption DEF Ownership
  <2> QED
    BY Zenon, <2>1, <2>2
<1>6. \/ IsFree(entry'[e])
      \/ /\ entry'[e].irp = i /\ entry'[e].at = "gone" /\ entry'[e].nulled
         /\ entry'[e].forced = entry[e].forced
  <2>1. entry'[e] = IF entry[e].freeMemory THEN FreeEntry
                    ELSE [entry[e] EXCEPT !.at = "gone", !.nulled = TRUE]
    BY Zenon, <1>2 DEF IrpCancelUnlink, TypeOK
  <2>2. LET y == [entry[e] EXCEPT !.at = "gone", !.nulled = TRUE]
        IN y.irp = i /\ y.at = "gone" /\ y.nulled /\ y.forced = entry[e].forced
    BY Zenon, <1>2 DEF EntryType
  <2>3. IsFree(FreeEntry)
    BY Zenon DEF IsFree, FreeEntry
  <2> QED
    BY Zenon, <2>1, <2>2, <2>3
<1>7. ~entry[e].forced
  BY Zenon, <1>1, <1>2 DEF Ownership, EntryOwnership
<1> HIDE DEF e
<1>8. Uniq'
  BY <1>2, <1>5, <1>6 DEF Uniq, Ownership, IsFree
<1>9. ASSUME NEW f \in Entry PROVE EntryOwnership(f)'
  <2>1. CASE f = e
    BY Zenon, <1>1, <1>3, <1>4, <1>6, <1>7, <2>1, PendingIrpAssumption
       DEF EntryOwnership, IsFree, Registered, InHand, Lists
  <2>2. CASE f # e
    <3>1. entry[f].irp \in Irp \ {i} \/ entry[f].irp = None
      BY Zenon, <1>5, <2>2, EntryFields
    <3> QED
      BY SMTT(30), <1>4, <1>5, <2>2, <3>1
         DEF Ownership, EntryOwnership, Quiet, Registered, InHand, Lists
  <2> QED
    BY Zenon, <2>1, <2>2
<1>10. ASSUME NEW j \in Irp PROVE IrpOwnership(j)'
  <2>1. IrpOwnership(j)
    BY Zenon DEF Ownership
  <2>2. CASE j = i
    <3>1. \A f \in Entry : entry'[f].irp = i => entry'[f].nulled
      BY Zenon, <1>5, <1>6, PendingIrpAssumption DEF IsFree
    <3> QED
      BY Zenon, <1>1, <1>3, <1>4, <2>2, <3>1 DEF IrpOwnership, Registered
  <2>3. CASE j # i
    <3>1. \A f : HeldBy(j, f) => f \in Entry /\ HeldBy(j, f)' /\ entry'[f] = entry[f]
      BY Zenon, <1>2, <1>5, <2>3 DEF HeldBy
    <3>2. \A f \in Entry : entry'[f].irp = j => entry[f].irp = j /\ entry'[f] = entry[f]
      BY Zenon, <1>5, <1>6, <2>3, PendingIrpAssumption DEF IsFree
    <3> QED
      BY Zenon, <1>4, <2>1, <2>3, <3>1, <3>2 DEF IrpOwnership, Quiet, Registered, ListOf
  <2> QED
    BY Zenon, <2>2, <2>3
<1>11. Replies'
  <2>1. \A r \in Replier : rentry[r] # None => rentry[r] \in Entry \ {e}
    BY Zenon, <1>3 DEF Ownership, TypeOK
  <2> QED
    BY Zenon, <1>4, <1>5, <2>1 DEF Replies, Ownership
<1> QED
  BY Zenon, <1>8, <1>9, <1>10, <1>11 DEF Ownership, Uniq, Replies

(* The cancel routine completes the request it unlinked. *)
LEMMA OwnIrpCancelComplete ==
  ASSUME TypeOK, Ownership, NEW i \in Irp, IrpCancelComplete(i)
  PROVE  Ownership'
<1> USE DEF dispatchVars, irpVars, doneVars, cancelVars, libraryVars
<1>1. /\ IrpOwnership(i) /\ ~routine[i] /\ Registered(i) /\ result[i] = <<>>
      /\ settled[i] <= Len(result[i]) /\ holds[i] = None
      /\ \A f \in Entry : entry[f].irp = i => entry[f].nulled
  BY Zenon DEF Ownership, IrpOwnership, IrpCancelComplete
<1>2. /\ cpc'[i] = "over"
      /\ \A j \in Irp \ {i} : cpc'[j] = cpc[j]
      /\ UNCHANGED <<entry, dpc, path, regEntry, routine, context, holds, rentry, rpc>>
  BY Zenon DEF IrpCancelComplete, TypeOK
<1>3. /\ Len(result'[i]) <= 1 /\ settled'[i] <= Len(result'[i])
      /\ \A j \in Irp \ {i} : result'[j] = result[j] /\ settled'[j] = settled[j]
  <2>1. \E s \in Status : Complete(i, s)
    BY Zenon DEF IrpCancelComplete, Status
  <2>2. settled' = settled \/ \E kinds : SettleIf(i, kinds)
    BY Zenon DEF IrpCancelComplete
  <2> QED
    BY Zenon, <1>1, <2>1, <2>2, Finished
<1>4. Uniq'
  BY Zenon, <1>2 DEF Uniq, Ownership
<1>5. ASSUME NEW f \in Entry PROVE EntryOwnership(f)'
  <2>1. EntryOwnership(f)
    BY Zenon DEF Ownership
  <2>2. CASE entry[f].irp = i
    <3>1. entry[f].at = "gone"
      BY Zenon, <1>1, <2>1, <2>2 DEF EntryOwnership
    <3> QED
      BY Zenon, <1>1, <1>2, <2>1, <2>2, <3>1 DEF EntryOwnership, Registered, InHand, Lists
  <2>3. CASE entry[f].irp # i
    <3>1. entry[f].irp \in Irp \ {i} \/ entry[f].irp = None
      BY Zenon, <2>3, EntryFields
    <3> QED
      BY Zenon, <1>2, <1>3, <2>1, <3>1 DEF EntryOwnership, Quiet, Registered, InHand, Lists
  <2> QED
    BY Zenon, <2>2, <2>3
<1>6. ASSUME NEW j \in Irp PROVE IrpOwnership(j)'
  <2>1. IrpOwnership(j)
    BY Zenon DEF Ownership
  <2>2. CASE j = i
    BY Zenon, <1>1, <1>2, <1>3, <2>2 DEF IrpOwnership, Registered
  <2>3. CASE j # i
    BY Zenon, <1>2, <1>3, <2>1, <2>3 DEF IrpOwnership, Quiet, Registered, HeldBy, ListOf
  <2> QED
    BY Zenon, <2>2, <2>3
<1>7. Replies'
  BY Zenon, <1>2 DEF Replies, Ownership
<1> QED
  BY Zenon, <1>4, <1>5, <1>6, <1>7 DEF Ownership, Uniq, Replies

(* A reply that meets the unmount leaves the entry to nobody. *)
LEMMA OwnReplyAbandon ==
  ASSUME TypeOK, Ownership, NEW r \in Replier, ReplyAbandon(r)
  PROVE  Ownership'
<1> USE DEF dispatchVars, irpVars, doneVars, cancelVars
<1> DEFINE e == rentry[r]
<1>1. e \in Entry /\ entry[e].at = "reply"
  BY Zenon, PendingIrpAssumption DEF Ownership, ReplyAbandon
<1>2. e \in InHand
  BY Zenon, <1>1 DEF InHand
<1>3. /\ rentry' = [rentry EXCEPT ![r] = None]
      /\ rpc' = [rpc EXCEPT ![r] = "closed"]
      /\ UNCHANGED <<dpc, path, regEntry, routine, context, doneVars, cancelVars>>
  BY Zenon DEF ReplyAbandon
<1>4. \A q \in Replier \ {r} : rentry[q] # None => rentry[q] \in Entry \ {e}
  BY Zenon, <1>1, PendingIrpAssumption DEF Ownership, TypeOK
<1>5. SameBut(entry'[e], entry[e], "gone")
  <2>1. entry'[e] = [entry[e] EXCEPT !.at = "gone"] /\ entry[e] \in EntryType
    BY Zenon, <1>1 DEF ReplyAbandon, TypeOK
  <2> QED
    BY Zenon, <2>1, FieldUpdates
<1>6. \A f \in Entry \ {e} : entry'[f] = entry[f]
  BY Zenon DEF ReplyAbandon, TypeOK
<1> HIDE DEF e
<1> USE DEF SameBut
<1>7. /\ entry[e].irp \in Irp
      /\ Quiet(entry[e].irp) /\ Registered(entry[e].irp)
      /\ \A f \in Entry \ {e} : entry[f].irp # entry[e].irp
  BY Zenon, <1>2, HandIsOwner
<1>8. Uniq'
  BY <1>1, <1>5, <1>6 DEF Uniq, Ownership
<1>9. ASSUME NEW f \in Entry PROVE EntryOwnership(f)'
  <2>1. EntryOwnership(f)
    BY Zenon DEF Ownership
  <2>2. CASE f = e
    BY Zenon, <1>2, <1>3, <1>5, <1>7, <2>1, <2>2, PendingIrpAssumption
       DEF EntryOwnership, Quiet, Registered, InHand, Lists
  <2>3. CASE f # e
    BY Zenon, <1>3, <1>6, <2>1, <2>3 DEF EntryOwnership, Quiet, Registered, InHand, Lists
  <2> QED
    BY Zenon, <2>2, <2>3
<1>10. ASSUME NEW j \in Irp PROVE IrpOwnership(j)'
  <2>1. IrpOwnership(j)
    BY Zenon DEF Ownership
  <2>2. /\ \A f : HeldBy(j, f) => HeldBy(j, f)'
        /\ \A f \in Entry : entry'[f].irp = entry[f].irp /\ entry'[f].nulled = entry[f].nulled
        /\ \A f \in Entry : entry[f].at = "register" => entry'[f] = entry[f]
    BY Zenon, <1>1, <1>5, <1>6 DEF HeldBy
  <2>3. \A f : HeldBy(j, f) => f \in Entry
    BY Zenon DEF HeldBy
  <2> QED
    BY Zenon, <1>3, <2>1, <2>2, <2>3 DEF IrpOwnership, Quiet, Registered, ListOf
<1>11. Replies'
  <2>1. rpc'[r] = "closed" /\ rentry'[r] = None
    BY Zenon, <1>3 DEF TypeOK
  <2>2. \A q \in Replier \ {r} : rpc'[q] = rpc[q] /\ rentry'[q] = rentry[q]
    BY Zenon, <1>3 DEF TypeOK
  <2>3. Replies
    BY Zenon DEF Ownership, Replies
  <2>4. ASSUME NEW q \in Replier
        PROVE  /\ rpc'[q] \in {"complete", "answer", "force"} => rentry'[q] \in Entry
               /\ rentry'[q] # None => entry'[rentry'[q]].at = "reply"
    <3>1. CASE q = r
      BY Zenon, <2>1, <3>1
    <3>2. CASE q # r
      BY Zenon, <1>4, <1>6, <2>2, <2>3, <3>2 DEF Replies
    <3> QED
      BY Zenon, <3>1, <3>2
  <2>5. ASSUME NEW q \in Replier, NEW p \in Replier,
               rentry'[p] = rentry'[q], rentry'[q] # None
        PROVE  p = q
    <3>1. q # r /\ p # r
      BY Zenon, <2>1, <2>5
    <3> QED
      BY Zenon, <2>2, <2>3, <2>5, <3>1 DEF Replies
  <2> QED
    BY Zenon, <2>4, <2>5 DEF Replies
<1> QED
  BY Zenon, <1>8, <1>9, <1>10, <1>11 DEF Ownership, Uniq, Replies

(* The retry thread dispatches a request again and frees its entry. *)
LEMMA OwnRetryDispatch ==
  ASSUME TypeOK, Ownership, NEW e \in Entry, RetryDispatch(e)
  PROVE  Ownership'
<1> USE DEF dispatchVars, irpVars, doneVars, cancelVars
<1> DEFINE i == entry[e].irp
<1>1. e \in InHand /\ entry[e].at = "retrying"
  BY Zenon DEF RetryDispatch, InHand
<1>2. /\ i \in Irp /\ Quiet(i) /\ result[i] = <<>> /\ regEntry[i] = None
      /\ settled[i] <= Len(result[i])
      /\ \A f \in Entry \ {e} : entry[f].irp # i
  BY Zenon, <1>1, HandIsOwner
<1>3. IsFree(entry'[e]) /\ \A f \in Entry \ {e} : entry'[f] = entry[f]
  BY Zenon, Freed DEF RetryDispatch
<1>4. /\ dpc'[i] = "redispatch"
      /\ \A j \in Irp \ {i} : dpc'[j] = dpc[j]
      /\ UNCHANGED <<path, regEntry, routine, context, doneVars, cancelVars, rentry, rpc>>
  BY Zenon, <1>2 DEF RetryDispatch, TypeOK, libraryVars
<1>5. entry[e].irp = i
  BY Zenon
<1> HIDE DEF i
<1>6. Uniq'
  BY <1>3 DEF Uniq, Ownership, IsFree
<1>7. ASSUME NEW f \in Entry PROVE EntryOwnership(f)'
  <2>1. CASE f = e
    BY Zenon, <1>3, <2>1 DEF EntryOwnership, IsFree, InHand, Lists
  <2>2. CASE f # e
    <3>1. entry[f].irp \in Irp \ {i} \/ entry[f].irp = None
      BY Zenon, <1>2, <2>2, EntryFields
    <3>2. entry'[f] = entry[f] /\ EntryOwnership(f)
      BY Zenon, <1>3, <2>2 DEF Ownership
    <3> QED
      BY Zenon, <1>4, <3>1, <3>2 DEF EntryOwnership, Quiet, Registered, InHand, Lists
  <2> QED
    BY Zenon, <2>1, <2>2
<1>8. ASSUME NEW j \in Irp PROVE IrpOwnership(j)'
  <2>1. IrpOwnership(j)
    BY Zenon DEF Ownership
  <2>2. CASE j = i
    <3>1. \A f \in Entry : entry'[f].irp # i
      BY Zenon, <1>2, <1>3, PendingIrpAssumption DEF IsFree
    <3> QED
      BY Zenon, <1>2, <1>4, <2>1, <2>2, <3>1 DEF IrpOwnership, Quiet
  <2>3. CASE j # i
    <3>1. \A f : HeldBy(j, f) => f \in Entry /\ HeldBy(j, f)' /\ entry'[f] = entry[f]
      BY Zenon, <1>3, <1>5, <2>3 DEF HeldBy
    <3>2. \A f \in Entry : entry'[f].irp = j => entry[f].irp = j /\ entry'[f] = entry[f]
      BY Zenon, <1>3, <2>3, PendingIrpAssumption DEF IsFree
    <3> QED
      BY Zenon, <1>4, <2>1, <2>3, <3>1, <3>2 DEF IrpOwnership, Quiet, Registered, ListOf
  <2> QED
    BY Zenon, <2>2, <2>3
<1>9. Replies'
  <2>1. \A r \in Replier : rentry[r] # None => rentry[r] \in Entry \ {e}
    BY Zenon, <1>1 DEF Ownership, TypeOK
  <2> QED
    BY Zenon, <1>3, <1>4, <2>1 DEF Replies, Ownership
<1> QED
  BY Zenon, <1>6, <1>7, <1>8, <1>9 DEF Ownership, Uniq, Replies

(* A searcher takes entries out of a list: it becomes the owner of those   *)
(* whose cancel routine it cleared, or whose routine is over, and leaves   *)
(* the others to the routine that runs.                                    *)
LEMMA OwnTakeOut ==
  ASSUME TypeOK, Ownership, NEW S \in SUBSET Entry,
         \A e \in S : entry[e].at \in Lists,
         NEW dest \in {"releasing", "retrying", "timedOut", "reply"},
         TakeOut(S, dest),
         context' = context \/ ClearContexts(S),
         UNCHANGED <<dpc, path, regEntry, result, settled, cpc, holds>>
  PROVE  /\ Uniq'
         /\ \A f \in Entry : EntryOwnership(f)'
         /\ \A j \in Irp : IrpOwnership(j)'
         /\ \A f \in Entry \ S : entry'[f] = entry[f]
         /\ \A f \in S : entry'[f].at = IF LeftToRoutine(f) THEN "gone" ELSE dest
<1>1. ASSUME NEW e \in S
      PROVE  /\ entry[e].irp \in Irp
             /\ ~entry[e].nulled /\ ~entry[e].freeMemory
             /\ Registered(entry[e].irp) /\ result[entry[e].irp] = <<>>
             /\ LeftToRoutine(e) <=> ~entry[e].forced /\ ~routine[entry[e].irp]
             /\ ~LeftToRoutine(e) => cpc[entry[e].irp] \in {"idle", "flagged", "over"}
  <2>1. EntryOwnership(e) /\ entry[e].at \in Lists
    BY Zenon DEF Ownership
  <2>2. /\ entry[e].irp \in Irp /\ ~entry[e].nulled /\ ~entry[e].freeMemory
        /\ Registered(entry[e].irp) /\ result[entry[e].irp] = <<>>
        /\ entry[e].forced => cpc[entry[e].irp] = "over"
    BY Zenon, <2>1, EntryFields DEF EntryOwnership, Lists
  <2>3. routine[entry[e].irp] => cpc[entry[e].irp] \in {"idle", "flagged", "over"}
    BY Zenon, <2>2 DEF Ownership, IrpOwnership
  <2> QED
    BY Zenon, <2>2, <2>3 DEF LeftToRoutine
<1>2. \A f \in Entry \ S : entry'[f] = entry[f]
  BY Zenon DEF TakeOut
<1>3. ASSUME NEW f \in S
      PROVE  /\ entry'[f].irp = entry[f].irp /\ entry'[f].list = entry[f].list
             /\ entry'[f].forced = entry[f].forced /\ ~entry'[f].nulled
             /\ entry'[f].at = IF LeftToRoutine(f) THEN "gone" ELSE dest
             /\ entry'[f].freeMemory => entry'[f].at = "gone"
  <2>1. f \in Entry /\ entry[f] \in EntryType /\ ~entry[f].nulled
    BY Zenon, <1>1 DEF TypeOK
  <2>2. CASE LeftToRoutine(f)
    <3>1. entry'[f] = [entry[f] EXCEPT !.at = "gone", !.freeMemory = TRUE]
      BY Zenon, <2>1, <2>2 DEF TakeOut, GivenUp
    <3> QED
      BY Zenon, <2>1, <2>2, <3>1 DEF EntryType
  <2>3. CASE ~LeftToRoutine(f)
    <3>1. entry'[f] = [entry[f] EXCEPT !.at = dest]
      BY Zenon, <2>1, <2>3 DEF TakeOut
    <3>2. SameBut(entry'[f], entry[f], dest)
      BY Zenon, <2>1, <3>1, FieldUpdates
    <3>3. ~entry[f].freeMemory
      BY Zenon, <1>1
    <3>4. ~entry'[f].freeMemory /\ ~entry'[f].nulled
      BY Zenon, <2>1, <3>2, <3>3 DEF SameBut
    <3> QED
      BY Zenon, <2>3, <3>2, <3>4 DEF SameBut
  <2> QED
    BY Zenon, <2>2, <2>3
<1>4. /\ \A j \in Irp : routine'[j] => routine[j]
      /\ \A e \in S : ~routine'[entry[e].irp]
      /\ \A j \in Irp : (\A e \in S : entry[e].irp # j) => routine'[j] = routine[j]
  BY Zenon, <1>1 DEF TakeOut, TypeOK
<1>5. ASSUME NEW j \in Irp, routine'[j] \/ cpc[j] = "called"
      PROVE  context'[j] = context[j]
  <2>1. ~ \E e \in S : entry[e].irp = j /\ ~LeftToRoutine(e)
    <3>1. SUFFICES ASSUME NEW e \in S, entry[e].irp = j, ~LeftToRoutine(e) PROVE FALSE
      BY Zenon
    <3> QED
      BY Zenon, <1>1, <1>4, <1>5, <3>1
  <2> QED
    BY <2>1 DEF ClearContexts, TypeOK
<1>6. \A f \in Entry : entry'[f].irp = entry[f].irp /\ entry'[f].nulled = entry[f].nulled
  <2>1. ASSUME NEW f \in Entry
        PROVE  entry'[f].irp = entry[f].irp /\ entry'[f].nulled = entry[f].nulled
    <3>1. entry'[f].nulled \in BOOLEAN /\ entry[f].nulled \in BOOLEAN
      <4>1. entry' \in [Entry -> EntryType]
        BY Zenon, TakeOutType DEF Places
      <4> QED
        BY Zenon, <4>1 DEF EntryType, TypeOK
    <3> QED
      BY Zenon, <1>1, <1>2, <1>3, <3>1
  <2> QED
    BY Zenon, <2>1
<1>7. Uniq'
  BY SMTT(30), <1>6 DEF Uniq, Ownership
<1>8. ASSUME NEW f \in Entry PROVE EntryOwnership(f)'
  <2>1. CASE f \in S
    <3>1. EntryOwnership(f)
      BY Zenon DEF Ownership
    <3>2. entry[f].irp # None
      BY Zenon, <1>1, <2>1, PendingIrpAssumption
    <3> QED
      BY Zenon, <1>1, <1>3, <1>4, <2>1, <3>1, <3>2
         DEF EntryOwnership, Quiet, Registered, InHand, Lists
  <2>2. CASE f \notin S
    <3>1. EntryOwnership(f) /\ entry'[f] = entry[f]
      BY Zenon, <1>2, <2>2 DEF Ownership
    <3>2. entry[f].irp \in Irp \/ entry[f].irp = None
      BY Zenon, EntryFields
    <3> QED
      BY Zenon, <1>4, <3>1, <3>2 DEF EntryOwnership, Quiet, Registered, InHand, Lists
  <2> QED
    BY Zenon, <2>1, <2>2
<1>9. ASSUME NEW j \in Irp PROVE IrpOwnership(j)'
  <2>1. IrpOwnership(j)
    BY Zenon DEF Ownership
  <2>2. \A f : HeldBy(j, f) <=> HeldBy(j, f)'
    BY Zenon, <1>6 DEF HeldBy
  <2>3. HeldBy(j, regEntry[j]) /\ entry[regEntry[j]].at = "register"
          => entry'[regEntry[j]] = entry[regEntry[j]]
    BY Zenon, <1>2 DEF HeldBy, Lists
  <2> QED
    BY Zenon, <1>4, <1>5, <1>6, <2>1, <2>2, <2>3 DEF IrpOwnership, Quiet, Registered, ListOf
<1> QED
  BY Zenon, <1>2, <1>3, <1>7, <1>8, <1>9

(* The scan and the release take entries out of a list. *)
LEMMA OwnCollect ==
  ASSUME TypeOK, Ownership, ScanCollect \/ ReleaseMove \/ RetryMove
  PROVE  Ownership'
<1>1. PICK S \in SUBSET Entry, dest \in {"releasing", "retrying", "timedOut"} :
        /\ \A e \in S : entry[e].at \in Lists
        /\ TakeOut(S, dest)
        /\ context' = context \/ ClearContexts(S)
  BY Zenon DEF ScanCollect, Expired, ReleaseMove, RetryMove, MoveIrpList, At, Lists
<1>2. UNCHANGED <<dpc, path, regEntry, result, settled, cpc, holds, rpc, rentry>>
  BY Zenon DEF ScanCollect, ReleaseMove, RetryMove,
         dispatchVars, doneVars, cancelVars, libraryVars
<1>3. /\ Uniq'
      /\ \A f \in Entry : EntryOwnership(f)'
      /\ \A j \in Irp : IrpOwnership(j)'
      /\ \A f \in Entry \ S : entry'[f] = entry[f]
  BY SMTT(30), <1>1, <1>2, OwnTakeOut
<1>4. Replies'
  <2>1. \A r \in Replier : rentry[r] # None => rentry[r] \in Entry \ S
    BY Zenon, <1>1 DEF Ownership, TypeOK, Lists
  <2> QED
    BY Zenon, <1>2, <1>3, <2>1 DEF Replies, Ownership
<1> QED
  BY Zenon, <1>3, <1>4 DEF Ownership, Uniq, Replies

(* A reply takes the entry with its serial number out of the list. *)
LEMMA OwnReplyTake ==
  ASSUME TypeOK, Ownership, NEW r \in Replier, ReplyTake(r)
  PROVE  Ownership'
<1>1. PICK e \in Matching(rserial[r]) :
        /\ TakeOut({e}, "reply")
        /\ ClearContexts({e})
        /\ rpc' = [rpc EXCEPT ![r] = IF LeftToRoutine(e) THEN "idle"
                                     ELSE IF entry[e].forced THEN "force"
                                     ELSE "complete"]
        /\ rentry' = [rentry EXCEPT ![r] = IF LeftToRoutine(e) THEN None ELSE e]
  BY Zenon DEF ReplyTake
<1>2. e \in Entry /\ entry[e].at = "PendingIrp"
  BY Zenon DEF Matching, At
<1>3. UNCHANGED <<dpc, path, regEntry, result, settled, cpc, holds>>
  BY Zenon DEF ReplyTake, dispatchVars, doneVars, cancelVars
<1>4. /\ Uniq'
      /\ \A f \in Entry : EntryOwnership(f)'
      /\ \A j \in Irp : IrpOwnership(j)'
      /\ \A f \in Entry \ {e} : entry'[f] = entry[f]
      /\ entry'[e].at = IF LeftToRoutine(e) THEN "gone" ELSE "reply"
  <2>1. {e} \in SUBSET Entry /\ \A f \in {e} : entry[f].at \in Lists
    BY Zenon, <1>2 DEF Lists
  <2> QED
    BY Zenon, <1>1, <1>3, <2>1, OwnTakeOut
<1>5. Replies'
  <2>1. \A q \in Replier : rentry[q] # None => rentry[q] \in Entry \ {e}
    BY Zenon, <1>2 DEF Ownership, TypeOK
  <2>2. /\ \A q \in Replier \ {r} : rentry'[q] = rentry[q] /\ rpc'[q] = rpc[q]
        /\ rentry'[r] = IF LeftToRoutine(e) THEN None ELSE e
        /\ rpc'[r] \in {"complete", "answer", "force"} => ~LeftToRoutine(e)
    BY Zenon, <1>1 DEF TypeOK
  <2> QED
    BY <1>2, <1>4, <2>1, <2>2, PendingIrpAssumption DEF Replies, Ownership
<1> QED
  BY Zenon, <1>4, <1>5 DEF Ownership, Uniq, Replies

(* The invariant: a registered request has exactly one owner at a time,    *)
(* through every interleaving of dispatch, reply, timeout, cancellation,   *)
(* unmount and retry.                                                      *)
THEOREM OwnershipInvariant == Spec => []Ownership
<1>1. Init => Ownership
  <2> SUFFICES ASSUME Init PROVE Ownership
    BY Zenon
  <2>1. \A e \in Entry : IsFree(entry[e])
    BY Zenon DEF Init, IsFree, FreeEntry
  <2>2. Uniq
    BY Zenon, <2>1 DEF Uniq, IsFree
  <2>3. ASSUME NEW e \in Entry PROVE EntryOwnership(e)
    BY Zenon, <2>1 DEF EntryOwnership, IsFree, InHand, Lists
  <2>4. ASSUME NEW i \in Irp PROVE IrpOwnership(i)
    <3>1. /\ dpc[i] = "new" /\ result[i] = <<>> /\ settled[i] = 0 /\ ~routine[i]
          /\ cpc[i] = "idle" /\ holds[i] = None /\ regEntry[i] = None
      BY Zenon DEF Init
    <3>2. Len(result[i]) = 0
      BY Zenon, <3>1
    <3>3. \A e \in Entry : entry[e].irp # i
      BY Zenon, <2>1, PendingIrpAssumption DEF IsFree
    <3> QED
      BY <3>1, <3>2, <3>3 DEF IrpOwnership, Quiet
  <2>5. Replies
    BY Zenon, PendingIrpAssumption DEF Init, Replies
  <2> QED
    BY Zenon, <2>2, <2>3, <2>4, <2>5 DEF Ownership, Uniq, Replies
<1>2. TypeOK /\ Ownership /\ [Next]_vars => Ownership'
  <2> SUFFICES ASSUME TypeOK, Ownership, [Next]_vars PROVE Ownership'
    BY Zenon
  <2>1. ASSUME NEW i \in Irp, Dispatching(i) PROVE Ownership'
    BY Zenon, <2>1, OwnDispatchEnds, OwnRegisterEnds, OwnDispatch, OwnNotify,
       OwnRegisterAllocate, OwnRegisterSetRoutine, OwnRegisterInsert DEF Dispatching
  <2>2. ASSUME NEW i \in Irp, IoCancelIrp(i) \/ Cancelling(i) PROVE Ownership'
    BY Zenon, <2>2, OwnCancelStart, OwnCreateCancel, OwnIrpCancelUnlink,
       OwnIrpCancelComplete DEF Cancelling
  <2>3. ASSUME NEW r \in Replier, ReplyStart(r) \/ Replying(r) PROVE Ownership'
    BY Zenon, <2>3, OwnReplyNotFound, OwnReplyTake, OwnReplyAbandon, OwnReplyAccept,
       OwnReplyComplete DEF Replying
  <2>4. CASE \E s \in events : DokanResetPendingIrpTimeout(s)
    BY Zenon, <2>4, OwnTick
  <2>5. ASSUME NEW e \in Entry,
               Expire(e) \/ ScanComplete(e) \/ ReleaseComplete(e) \/ RetryDispatch(e)
        PROVE  Ownership'
    BY Zenon, <2>5, OwnTick, OwnScanComplete, OwnRetryDispatch
  <2>6. CASE ScanCollect \/ ReleaseMove \/ RetryMove
    BY Zenon, <2>6, OwnCollect
  <2>7. CASE ReleaseClaim \/ UNCHANGED vars
    BY Zenon, <2>7, OwnUnchanged
  <2> QED
    BY Zenon, <2>1, <2>2, <2>3, <2>4, <2>5, <2>6, <2>7 DEF Next
<1> QED
  BY <1>1, <1>2, TypeCorrect, PTL DEF Spec

(* No IRP is ever completed twice (DokanCompleteIrpRequest runs at most    *)
(* once for it), whichever of its five completers race for it.             *)
THEOREM NeverCompletedTwice == Spec => []CompletedOnce
<1>1. Ownership => CompletedOnce
  BY Zenon DEF Ownership, IrpOwnership, CompletedOnce
<1> QED
  BY <1>1, OwnershipInvariant, PTL

(* DokanExecuteCleanup of a cleanup, and the completion or back-out of a   *)
(* create, run at most once for each request.                              *)
THEOREM NeverSettledTwice == Spec => []SettledOnce
<1>1. TypeOK /\ Ownership => SettledOnce
  <2> SUFFICES ASSUME TypeOK, Ownership, NEW i \in Irp PROVE settled[i] <= 1
    BY Zenon DEF SettledOnce
  <2>1. Len(result[i]) <= 1 /\ settled[i] <= Len(result[i])
    BY Zenon DEF Ownership, IrpOwnership
  <2>2. settled[i] \in Nat /\ Len(result[i]) \in Nat
    BY DEF TypeOK
  <2> QED
    BY <2>1, <2>2
<1> QED
  BY <1>1, TypeCorrect, OwnershipInvariant, PTL

(* The entry a cancel routine read without a lock is still that request's  *)
(* when it is written, and no list or searcher holds a freed entry.        *)
THEOREM NoStaleEntry == Spec => []EntryValid
<1>1. Ownership => EntryValid
  <2> SUFFICES ASSUME Ownership PROVE EntryValid
    BY Zenon
  <2>1. \A i \in Irp : holds[i] # None => entry[holds[i]].irp = i
    BY Zenon DEF Ownership, IrpOwnership, HeldBy
  <2>2. \A i \in Irp : regEntry[i] # None => entry[regEntry[i]].irp = i
    BY Zenon DEF Ownership, IrpOwnership, HeldBy
  <2>3. ASSUME NEW e \in Listed \cup InHand
        PROVE  entry[e].irp # None /\ ~entry[e].nulled /\ ~entry[e].freeMemory
    <3>1. EntryOwnership(e) /\ entry[e].at # "free" /\ entry[e].at # "gone"
      BY Zenon DEF Ownership, Listed, InHand, Lists
    <3> QED
      BY Zenon, <3>1 DEF EntryOwnership
  <2> QED
    BY Zenon, <2>1, <2>2, <2>3 DEF EntryValid
<1> QED
  BY <1>1, OwnershipInvariant, PTL

(* With the emptied lists no registration is left that holds their lock. *)
DrainedInv ==
  /\ DrainedStaysEmpty
  /\ unmount \in {"drained", "released"} => Unlocked("PendingIrp")
  /\ unmount = "released" => Unlocked("PendingRetryIrp")

\* A step puts no entry into a list and takes no list's lock.
NothingAdded ==
  /\ \A f \in Entry : entry'[f].at \in Lists => entry'[f].at = entry[f].at
  /\ \A i \in Irp : dpc'[i] = "set" => dpc[i] = "set" /\ path'[i] = path[i]
  /\ unmount' = unmount \/ unmount' = "flagged"

(* A drained list stays empty over a step that adds nothing to it. *)
LEMMA NothingAddedKeeps ==
  ASSUME DrainedInv, NothingAdded
  PROVE  DrainedInv'
  BY Zenon DEF DrainedInv, NothingAdded, DrainedStaysEmpty, Unlocked, ListOf, At, Lists

(* Freeing an entry adds nothing to a list. *)
LEMMA FreeAddsNothing ==
  ASSUME TypeOK, NEW e, DokanFreeIrpEntry(e)
  PROVE  \A f \in Entry : entry'[f].at \in Lists => entry'[f].at = entry[f].at
<1>1. FreeEntry.at = "free"
  BY Zenon DEF FreeEntry
<1> QED
  BY Zenon, <1>1 DEF TypeOK, DokanFreeIrpEntry, Lists

(* Taking entries out of a list adds nothing to any list. *)
LEMMA TakeOutAddsNothing ==
  ASSUME TypeOK, NEW S, NEW dest \in {"releasing", "retrying", "timedOut", "reply"},
         TakeOut(S, dest)
  PROVE  /\ \A f \in Entry : entry'[f].at \in Lists => entry'[f].at = entry[f].at
         /\ \A f \in Entry \cap S : entry'[f].at \notin Lists
<1>1. ASSUME NEW f \in Entry \cap S PROVE entry'[f].at \notin Lists
  <2>1. entry[f] \in EntryType
    BY Zenon DEF TypeOK
  <2>2. FreeEntry.at = "free"
    BY Zenon DEF FreeEntry
  <2>3. [entry[f] EXCEPT !.at = "gone", !.freeMemory = TRUE].at = "gone"
    BY Zenon, <2>1 DEF EntryType
  <2>4. [entry[f] EXCEPT !.at = dest].at = dest
    BY Zenon, <2>1 DEF EntryType
  <2> QED
    BY Zenon, <2>2, <2>3, <2>4 DEF TakeOut, GivenUp, Lists
<1>2. \A f \in Entry \ S : entry'[f] = entry[f]
  BY Zenon DEF TakeOut
<1> QED
  BY Zenon, <1>1, <1>2

(* "Once DokanEventRelease has set the unmount-pending flag and canceled   *)
(* all IRPs, any IRP added to those list will never be completed": the two *)
(* unmount checks of RegisterPendingIrpMain let none be added.             *)
THEOREM ListsStayDrained == Spec => []DrainedStaysEmpty
<1>1. Init => DrainedInv
  BY Zenon DEF Init, DrainedInv, DrainedStaysEmpty
<1>2. TypeOK /\ DrainedInv /\ [Next]_vars => DrainedInv'
  <2> SUFFICES ASSUME TypeOK, DrainedInv, [Next]_vars PROVE DrainedInv'
    BY Zenon
  <2> USE DEF dispatchVars, irpVars, doneVars, cancelVars, libraryVars
  <2>1. ASSUME NEW i \in Irp,
               \/ DispatchUnmounted(i) \/ DispatchToRegister(i) \/ DispatchToOplock(i)
               \/ OplockBroken(i) \/ OplockFailed(i) \/ RegisterRefused(i)
               \/ Notify(i) \/ IoCancelIrp(i) \/ IoCancelTake(i) \/ CancelReadEntry(i)
               \/ IrpCancelComplete(i)
        PROVE  DrainedInv'
    <3>1. entry' = entry /\ unmount' = unmount
      BY Zenon, <2>1 DEF DispatchUnmounted, DispatchToRegister, DispatchToOplock, OplockBroken,
         OplockFailed, RegisterRefused, Notify, IoCancelIrp, IoCancelTake,
         CancelReadEntry, IrpCancelComplete
    <3>2. \/ dpc' = dpc /\ path' = path
          \/ /\ \E d \in {"register", "oplock", "failed", "dropped", "pended"} :
                  dpc' = [dpc EXCEPT ![i] = d]
             /\ path' = path \/ \E q : path' = [path EXCEPT ![i] = q]
      BY Zenon, <2>1 DEF DispatchUnmounted, DispatchToRegister, DispatchToOplock,
         OplockBroken, OplockFailed, RegisterRefused, Refuse, Notify, IoCancelIrp,
         IoCancelTake, CancelReadEntry, IrpCancelComplete, dispatchVars
    <3>3. \A j \in Irp : dpc'[j] = "set" => dpc[j] = "set" /\ path'[j] = path[j]
      BY Zenon, <3>2 DEF TypeOK
    <3> QED
      BY Zenon, <3>1, <3>3, NothingAddedKeeps DEF NothingAdded
  <2>2. ASSUME NEW i \in Irp, RegisterAllocate(i) PROVE DrainedInv'
    <3>1. PICK e \in Entry : \E x : /\ entry' = [entry EXCEPT ![e] = x]
                                    /\ x.at = "register"
      <4>1. LET x == [FreeEntry EXCEPT !.irp = i, !.at = "register", !.list = ListOf(i),
                        !.async = IF path[i] = "async" THEN "OPLOCK_FAILURE" ELSE "SUCCESS"]
            IN x.at = "register"
        BY Zenon DEF FreeEntry
      <4> QED
        BY Zenon, <2>2, <4>1 DEF RegisterAllocate
    <3>2. NothingAdded
      BY Zenon, <2>2, <3>1 DEF RegisterAllocate, NothingAdded, TypeOK, Lists
    <3> QED
      BY Zenon, <3>2, NothingAddedKeeps
  <2>3. ASSUME NEW i \in Irp, RegisterUnmounted(i) \/ RegisterBackOut(i) PROVE DrainedInv'
    <3>1. /\ DokanFreeIrpEntry(regEntry[i]) /\ unmount' = unmount /\ path' = path
          /\ \E d \in {"failed", "dropped"} : dpc' = [dpc EXCEPT ![i] = d]
      BY Zenon, <2>3 DEF RegisterUnmounted, RegisterBackOut, Refuse
    <3>2. \A f \in Entry : entry'[f].at \in Lists => entry'[f].at = entry[f].at
      BY Zenon, <3>1, FreeAddsNothing
    <3>3. \A j \in Irp : dpc'[j] = "set" => dpc[j] = "set" /\ path'[j] = path[j]
      BY Zenon, <3>1 DEF TypeOK
    <3>4. NothingAdded
      BY Zenon, <3>1, <3>2, <3>3 DEF NothingAdded
    <3> QED
      BY Zenon, <3>4, NothingAddedKeeps
  <2>4. ASSUME NEW i \in Irp, RegisterSetRoutine(i) PROVE DrainedInv'
    BY Zenon, <2>4 DEF RegisterSetRoutine, IsUnmountPendingVcb, DrainedInv, DrainedStaysEmpty
  <2>5. ASSUME NEW i \in Irp, RegisterInsert(i) PROVE DrainedInv'
    <3>1. \A f \in Entry : entry'[f].at \in Lists
                             => entry'[f].at = entry[f].at \/ entry'[f].at = ListOf(i)
      <4>1. regEntry[i] \in Entry
              => [entry[regEntry[i]] EXCEPT !.at = ListOf(i)].at = ListOf(i)
        BY DEF TypeOK, EntryType
      <4> QED
        BY Zenon, <2>5, <4>1 DEF RegisterInsert, TypeOK
    <3>2. /\ dpc[i] = "set" /\ UNCHANGED <<unmount, path>>
          /\ \A j \in Irp : dpc'[j] = "set" => dpc[j] = "set"
      BY Zenon, <2>5 DEF RegisterInsert, TypeOK
    <3> QED
      BY Zenon, <3>1, <3>2 DEF DrainedInv, DrainedStaysEmpty, Unlocked, ListOf, At, Lists
  <2>6. ASSUME NEW i \in Irp, CreateCancelMark(i) \/ CreateCancelForce(i) PROVE DrainedInv'
    <3>1. \A f \in Entry : entry'[f].at = entry[f].at
      <4>1. \A f \in Entry :
              /\ [entry[f] EXCEPT !.tick = "zero", !.async = "CANCELLED"].at = entry[f].at
              /\ [entry[f] EXCEPT !.forced = TRUE].at = entry[f].at
        BY SMTT(30) DEF TypeOK, EntryType
      <4>2. \A f \in Entry :
              \/ entry'[f] = entry[f]
              \/ entry'[f] = [entry[f] EXCEPT !.tick = "zero", !.async = "CANCELLED"]
              \/ entry'[f] = [entry[f] EXCEPT !.forced = TRUE]
        <5>1. ASSUME CreateCancelMark(i), NEW f \in Entry
              PROVE  \/ entry'[f] = entry[f]
                     \/ entry'[f] = [entry[f] EXCEPT !.tick = "zero", !.async = "CANCELLED"]
          <6>1. CASE f = holds[i]
            BY Zenon, <5>1, <6>1 DEF CreateCancelMark, TypeOK
          <6>2. CASE f # holds[i]
            BY Zenon, <5>1, <6>2 DEF CreateCancelMark, TypeOK
          <6> QED
            BY Zenon, <6>1, <6>2
        <5>2. ASSUME CreateCancelForce(i), NEW f \in Entry
              PROVE  entry'[f] = entry[f] \/ entry'[f] = [entry[f] EXCEPT !.forced = TRUE]
          BY Zenon, <5>2 DEF CreateCancelForce, TypeOK
        <5> QED
          BY Zenon, <2>6, <5>1, <5>2
      <4> QED
        BY Zenon, <4>1, <4>2
    <3>2. NothingAdded
      BY Zenon, <2>6, <3>1 DEF CreateCancelMark, CreateCancelForce, NothingAdded
    <3> QED
      BY Zenon, <3>2, NothingAddedKeeps
  <2>7. ASSUME NEW i \in Irp, IrpCancelUnlink(i) PROVE DrainedInv'
    <3>1. \A f \in Entry : entry'[f].at = entry[f].at \/ entry'[f].at \notin Lists
      <4>1. FreeEntry.at \notin Lists
        BY Zenon DEF FreeEntry, Lists
      <4>2. \A f \in Entry :
              [entry[f] EXCEPT !.at = "gone", !.nulled = TRUE].at \notin Lists
        BY SMTT(30) DEF TypeOK, EntryType, Lists
      <4>3. \A f \in Entry :
              \/ entry'[f] = entry[f] \/ entry'[f] = FreeEntry
              \/ entry'[f] = [entry[f] EXCEPT !.at = "gone", !.nulled = TRUE]
        BY Zenon, <2>7 DEF IrpCancelUnlink, TypeOK
      <4> QED
        BY Zenon, <4>1, <4>2, <4>3
    <3>2. NothingAdded
      BY Zenon, <2>7, <3>1 DEF IrpCancelUnlink, NothingAdded
    <3> QED
      BY Zenon, <3>2, NothingAddedKeeps
  <2>8. ASSUME NEW r \in Replier, ReplyStart(r) \/ ReplyNoMatch(r) \/ ReplyAccept(r)
        PROVE  DrainedInv'
    <3>1. NothingAdded
      BY Zenon, <2>8 DEF ReplyStart, ReplyNoMatch, ReplyAccept, NothingAdded
    <3> QED
      BY Zenon, <3>1, NothingAddedKeeps
  <2>9. ASSUME NEW r \in Replier, ReplyTake(r) PROVE DrainedInv'
    <3>1. NothingAdded
      BY Zenon, <2>9, TakeOutAddsNothing DEF ReplyTake, NothingAdded
    <3> QED
      BY Zenon, <3>1, NothingAddedKeeps
  <2>10. ASSUME NEW r \in Replier, ReplyAbandon(r) PROVE DrainedInv'
    <3>1. \A f \in Entry : entry'[f].at = entry[f].at \/ entry'[f].at \notin Lists
      <4>1. \A f \in Entry : [entry[f] EXCEPT !.at = "gone"].at \notin Lists
        BY SMTT(30) DEF TypeOK, EntryType, Lists
      <4>2. \A f \in Entry : \/ entry'[f] = entry[f]
                             \/ entry'[f] = [entry[f] EXCEPT !.at = "gone"]
        BY Zenon, <2>10 DEF ReplyAbandon, TypeOK
      <4> QED
        BY Zenon, <4>1, <4>2
    <3>2. NothingAdded
      BY Zenon, <2>10, <3>1 DEF ReplyAbandon, NothingAdded
    <3> QED
      BY Zenon, <3>2, NothingAddedKeeps
  <2>11. ASSUME NEW r \in Replier, ReplyComplete(r) PROVE DrainedInv'
    <3>1. NothingAdded
      BY Zenon, <2>11, FreeAddsNothing DEF ReplyComplete, NothingAdded
    <3> QED
      BY Zenon, <3>1, NothingAddedKeeps
  <2>12. ASSUME NEW s \in events, DokanResetPendingIrpTimeout(s) PROVE DrainedInv'
    <3>1. \A f \in Entry : entry'[f].at = entry[f].at
      <4>1. \A f \in Entry : [entry[f] EXCEPT !.tick = "future"].at = entry[f].at
        BY SMTT(30) DEF TypeOK, EntryType
      <4> QED
        BY Zenon, <2>12, <4>1 DEF DokanResetPendingIrpTimeout
    <3>2. NothingAdded
      BY Zenon, <2>12, <3>1 DEF DokanResetPendingIrpTimeout, NothingAdded
    <3> QED
      BY Zenon, <3>2, NothingAddedKeeps
  <2>13. ASSUME NEW e \in Entry, Expire(e) PROVE DrainedInv'
    <3>1. \A f \in Entry : entry'[f].at = entry[f].at
      <4>1. [entry[e] EXCEPT !.tick = "past"].at = entry[e].at
        BY SMTT(30) DEF TypeOK, EntryType
      <4> QED
        BY Zenon, <2>13, <4>1 DEF Expire, TypeOK
    <3>2. NothingAdded
      BY Zenon, <2>13, <3>1 DEF Expire, NothingAdded
    <3> QED
      BY Zenon, <3>2, NothingAddedKeeps
  <2>14. ASSUME NEW e \in Entry, ScanComplete(e) \/ ReleaseComplete(e) \/ RetryDispatch(e)
         PROVE  DrainedInv'
    <3>1. NothingAdded
      BY Zenon, <2>14, FreeAddsNothing
         DEF ScanComplete, ReleaseComplete, RetryDispatch, NothingAdded, TypeOK
    <3> QED
      BY Zenon, <3>1, NothingAddedKeeps
  <2>15. CASE ScanCollect \/ RetryMove
    <3>1. NothingAdded
      BY Zenon, <2>15, TakeOutAddsNothing DEF ScanCollect, RetryMove, MoveIrpList, NothingAdded
    <3> QED
      BY Zenon, <3>1, NothingAddedKeeps
  <2>16. CASE ReleaseMove
    <3>1. PICK l \in Lists : /\ Unlocked(l) /\ TakeOut(At(l), "releasing")
                             /\ \/ l = "PendingIrp" /\ unmount' = "drained"
                                \/ /\ l = "PendingRetryIrp"
                                   /\ unmount = "drained" /\ unmount' = "released"
      BY Zenon, <2>16 DEF ReleaseMove, MoveIrpList, Lists
    <3>2. At(l)' = {} /\ \A k \in Lists : At(k)' \subseteq At(k)
      BY SMTT(30), <3>1, TakeOutAddsNothing DEF At
    <3>3. UNCHANGED <<dpc, path>>
      BY Zenon, <2>16 DEF ReleaseMove
    <3> QED
      BY Zenon, <3>1, <3>2, <3>3 DEF DrainedInv, DrainedStaysEmpty, Unlocked, ListOf, Lists
  <2>17. CASE ReleaseClaim \/ UNCHANGED vars
    <3>1. NothingAdded
      BY Zenon, <2>17 DEF ReleaseClaim, vars, NothingAdded
    <3> QED
      BY Zenon, <3>1, NothingAddedKeeps
  <2> QED
    BY Zenon, <2>1, <2>2, <2>3, <2>4, <2>5, <2>6, <2>7, <2>8, <2>9, <2>10, <2>11, <2>12,
       <2>13, <2>14, <2>15, <2>16, <2>17
       DEF Next, Dispatching, Cancelling, Replying
<1>3. DrainedInv => DrainedStaysEmpty
  BY Zenon DEF DrainedInv
<1> QED
  BY <1>1, <1>2, <1>3, TypeCorrect, PTL DEF Spec
=============================================================================
