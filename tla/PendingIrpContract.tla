------------------------- MODULE PendingIrpContract -------------------------
(***************************************************************************)
(* PendingIrp implements RequestContract.  The statuses need a second      *)
(* inductive invariant besides Ownership: what makes somebody complete a   *)
(* request as cancelled is never there without a reason.  An answer that   *)
(* was accepted is given because the request is in one hand only.          *)
(*                                                                         *)
(* Nobody loses a request of a mounted volume, except in the two ways that *)
(* OrphanedOnlyThen names, and no completion forgets the file object.      *)
(***************************************************************************)
EXTENDS PendingIrpOwnership

(* A cancellation that runs, or has marked an entry, was asked for; only   *)
(* an unmount releases entries; a reply forces a create that was marked;   *)
(* a cleanup does not wait for an oplock break.                            *)
Reason ==
  /\ \A i \in Irp : dpc[i] = "oplock" => Kind[i] # "cleanup"
  /\ \A i \in Irp : cpc[i] # "idle" => cancel[i]
  /\ \A e \in Entry : (entry[e].tick = "zero" \/ entry[e].forced)
                        => entry[e].irp \in Irp /\ cancel[entry[e].irp]
  /\ \A e \in Entry : entry[e].at = "releasing" => IsUnmountPendingVcb
  /\ \A r \in Replier : rpc[r] = "force"
                          => rentry[r] \in Entry /\ entry[rentry[r]].forced

\* The marks on entry x are those on y, or there are none on y.
Calm(y, x) ==
  /\ y.irp = x.irp
  /\ y.tick = "zero" => x.tick = "zero"
  /\ y.forced = x.forced

Blank(y) == y.tick # "zero" /\ ~y.forced

(* What each kind of update does to the marks. *)
LEMMA MarkUpdates ==
  ASSUME NEW x \in EntryType
  PROVE  /\ Blank(FreeEntry)
         /\ \A n : Calm([x EXCEPT !.serial = n], x)
         /\ Calm([x EXCEPT !.tick = "future"], x)
         /\ Calm([x EXCEPT !.tick = "past"], x)
         /\ \A p : Calm([x EXCEPT !.at = p], x)
         /\ Calm([x EXCEPT !.at = "gone", !.freeMemory = TRUE], x)
         /\ Calm([x EXCEPT !.at = "gone", !.nulled = TRUE], x)
<1> USE DEF EntryType, Calm
<1>1. Blank(FreeEntry)
  BY Zenon DEF FreeEntry, Blank
<1>2. \A n : Calm([x EXCEPT !.serial = n], x)
  BY Zenon
<1>3. Calm([x EXCEPT !.tick = "future"], x)
  BY SMT
<1>4. Calm([x EXCEPT !.tick = "past"], x)
  BY SMT
<1>5. \A p : Calm([x EXCEPT !.at = p], x)
  BY Zenon
<1>6. Calm([x EXCEPT !.at = "gone", !.freeMemory = TRUE], x)
  BY Zenon
<1>7. Calm([x EXCEPT !.at = "gone", !.nulled = TRUE], x)
  BY Zenon
<1> QED
  BY Zenon, <1>1, <1>2, <1>3, <1>4, <1>5, <1>6, <1>7

\* A step that marks nothing; an entry that a reply holds keeps its marks.
MarksNothing ==
  /\ \A i \in Irp : dpc'[i] = "oplock" => dpc[i] = "oplock" \/ Kind[i] # "cleanup"
  /\ \A i \in Irp : cancel[i] => cancel'[i]
  /\ \A i \in Irp : cpc'[i] # "idle" => cpc[i] # "idle" \/ cancel'[i]
  /\ \A f \in Entry : \/ Calm(entry'[f], entry[f])
                      \/ Blank(entry'[f]) /\ entry[f].at # "reply"
  /\ \A f \in Entry : entry'[f].at = "releasing"
                        => entry[f].at = "releasing" \/ IsUnmountPendingVcb'
  /\ IsUnmountPendingVcb => IsUnmountPendingVcb'

(* All but the last conjunct of Reason are kept by such a step. *)
LEMMA MarksKept ==
  ASSUME Reason, MarksNothing
  PROVE  /\ \A i \in Irp : dpc'[i] = "oplock" => Kind[i] # "cleanup"
         /\ \A i \in Irp : cpc'[i] # "idle" => cancel'[i]
         /\ \A e \in Entry : (entry'[e].tick = "zero" \/ entry'[e].forced)
                               => entry'[e].irp \in Irp /\ cancel'[entry'[e].irp]
         /\ \A e \in Entry : entry'[e].at = "releasing" => IsUnmountPendingVcb'
<1>1. \A i \in Irp : /\ dpc'[i] = "oplock" => Kind[i] # "cleanup"
                     /\ cpc'[i] # "idle" => cancel'[i]
  BY Zenon DEF Reason, MarksNothing
<1>2. ASSUME NEW e \in Entry, entry'[e].tick = "zero" \/ entry'[e].forced
      PROVE  entry'[e].irp \in Irp /\ cancel'[entry'[e].irp]
  <2>1. Calm(entry'[e], entry[e])
    BY Zenon, <1>2 DEF MarksNothing, Blank
  <2>2. entry[e].irp \in Irp /\ cancel[entry[e].irp]
    BY Zenon, <1>2, <2>1 DEF Reason, Calm
  <2> QED
    BY Zenon, <2>1, <2>2 DEF Calm, MarksNothing
<1>3. \A e \in Entry : entry'[e].at = "releasing" => IsUnmountPendingVcb'
  BY Zenon DEF Reason, MarksNothing
<1> QED
  BY Zenon, <1>1, <1>2, <1>3

\* No reply moves, and each holds on to the request it has taken.
HandsKept ==
  /\ UNCHANGED <<rpc, rentry>>
  /\ \A f \in Entry : entry[f].at = "reply" => entry'[f].irp = entry[f].irp

(* And the last one too, if no reply moves. *)
LEMMA ReasonKept ==
  ASSUME Ownership, Reason, MarksNothing, UNCHANGED <<rpc, rentry>>, TypeOK
  PROVE  Reason' /\ HandsKept
<1>1. ASSUME NEW r \in Replier, rpc'[r] = "force"
      PROVE  rentry'[r] \in Entry /\ entry'[rentry'[r]].forced
  <2>1. PICK e \in Entry : rentry[r] = e /\ rentry'[r] = e /\ entry[e].forced
    BY Zenon, <1>1 DEF Reason
  <2>2. entry[e].at = "reply"
    BY Zenon, <2>1, PendingIrpAssumption DEF Ownership
  <2>3. Calm(entry'[e], entry[e])
    BY Zenon, <2>2 DEF MarksNothing
  <2> QED
    BY Zenon, <2>1, <2>3 DEF Calm
<1>2. HandsKept
  BY Zenon DEF MarksNothing, HandsKept, Calm
<1> QED
  BY Zenon, <1>1, <1>2, MarksKept DEF Reason

-----------------------------------------------------------------------------
(* The steps that leave the entries, or only the clock, alone. *)
LEMMA ReasonQuiet ==
  ASSUME TypeOK, Ownership, Reason,
         \/ \E i \in Irp :
              \/ DispatchUnmounted(i) \/ DispatchToRegister(i) \/ DispatchToOplock(i)
              \/ OplockBroken(i) \/ OplockFailed(i) \/ RegisterRefused(i) \/ Notify(i)
              \/ IoCancelIrp(i) \/ IoCancelTake(i) \/ CancelReadEntry(i)
              \/ IrpCancelComplete(i)
         \/ ReleaseClaim
         \/ UNCHANGED vars
  PROVE  Reason' /\ HandsKept
<1> USE DEF dispatchVars, irpVars, doneVars, cancelVars, libraryVars
<1>1. UNCHANGED <<entry, rpc, rentry>> /\ (unmount' = unmount \/ unmount' = "flagged")
  BY Zenon DEF DispatchUnmounted, DispatchToRegister, DispatchToOplock, OplockBroken,
     OplockFailed, RegisterRefused, Notify, IoCancelIrp, IoCancelTake, CancelReadEntry,
     IrpCancelComplete, ReleaseClaim, vars
<1>2. \A j \in Irp : dpc'[j] = "oplock" => dpc[j] = "oplock" \/ Kind[j] # "cleanup"
  <2>1. \/ dpc' = dpc
        \/ \E i \in Irp, d \in {"failed", "register", "pended", "dropped"} :
             dpc' = [dpc EXCEPT ![i] = d]
        \/ \E i \in Irp : Kind[i] # "cleanup" /\ dpc' = [dpc EXCEPT ![i] = "oplock"]
    BY Zenon DEF DispatchUnmounted, DispatchToRegister, DispatchToOplock, OplockBroken,
       OplockFailed, RegisterRefused, Refuse, Notify, IoCancelIrp, IoCancelTake,
       CancelReadEntry, IrpCancelComplete, ReleaseClaim, vars
  <2> QED
    BY Zenon, <2>1 DEF TypeOK
<1>3. /\ \A j \in Irp : cancel[j] => cancel'[j]
      /\ \A j \in Irp : cpc'[j] # "idle" => cpc[j] # "idle" \/ cancel'[j]
  <2>1. \/ UNCHANGED <<cancel, cpc>>
        \/ \E i \in Irp : \/ IoCancelIrp(i) \/ IoCancelTake(i) \/ CancelReadEntry(i)
                          \/ IrpCancelComplete(i)
    BY Zenon DEF DispatchUnmounted, DispatchToRegister, DispatchToOplock, OplockBroken,
       OplockFailed, RegisterRefused, Notify, ReleaseClaim, vars
  <2>2. ASSUME NEW i \in Irp, IoCancelIrp(i)
        PROVE  /\ \A j \in Irp : cancel'[j] = (cancel[j] \/ j = i)
               /\ \A j \in Irp \ {i} : cpc'[j] = cpc[j]
    BY Zenon, <2>2 DEF IoCancelIrp, TypeOK
  <2>3. ASSUME NEW i \in Irp, IoCancelTake(i) \/ CancelReadEntry(i) \/ IrpCancelComplete(i)
        PROVE  /\ cancel' = cancel /\ cpc[i] # "idle"
               /\ \A j \in Irp \ {i} : cpc'[j] = cpc[j]
    BY Zenon, <2>3 DEF IoCancelTake, CancelReadEntry, IrpCancelComplete, TypeOK
  <2> QED
    BY Zenon, <2>1, <2>2, <2>3
<1>4. MarksNothing
  BY Zenon, <1>1, <1>2, <1>3 DEF MarksNothing, Calm, IsUnmountPendingVcb
<1> QED
  BY Zenon, <1>1, <1>4, ReasonKept

(* One entry that no reply holds is freed. *)
LEMMA ReasonFreed ==
  ASSUME TypeOK, Ownership, Reason, NEW e \in Entry, DokanFreeIrpEntry(e),
         entry[e].at # "reply", UNCHANGED <<cancel, cpc, unmount, rpc, rentry>>,
         \A j \in Irp : dpc'[j] = "oplock" => dpc[j] = "oplock"
  PROVE  Reason' /\ HandsKept
<1>1. Blank(FreeEntry) /\ FreeEntry.at = "free"
  BY Zenon DEF FreeEntry, Blank
<1>2. \A f \in Entry : entry'[f] = IF f = e THEN FreeEntry ELSE entry[f]
  BY Zenon DEF DokanFreeIrpEntry, TypeOK
<1>3. MarksNothing
  BY Zenon, <1>1, <1>2 DEF MarksNothing, Calm, IsUnmountPendingVcb
<1> QED
  BY Zenon, <1>3, ReasonKept

(* The steps that only do that. *)
LEMMA ReasonFrees ==
  ASSUME TypeOK, Ownership, Reason,
         \/ \E i \in Irp : RegisterUnmounted(i) \/ RegisterBackOut(i)
         \/ \E e \in Entry : ScanComplete(e) \/ ReleaseComplete(e) \/ RetryDispatch(e)
  PROVE  Reason' /\ HandsKept
<1> USE DEF dispatchVars, irpVars, doneVars, cancelVars, libraryVars
<1>1. ASSUME NEW i \in Irp, RegisterUnmounted(i) \/ RegisterBackOut(i) PROVE Reason' /\ HandsKept
  <2>0. IrpOwnership(i) /\ dpc[i] \in {"allocated", "set"}
    BY Zenon, <1>1 DEF RegisterUnmounted, RegisterBackOut, Ownership
  <2>1. PICK e \in Entry : regEntry[i] = e /\ entry[e].at = "register"
    BY Zenon, <2>0 DEF IrpOwnership, HeldBy
  <2>2. /\ DokanFreeIrpEntry(e)
        /\ UNCHANGED <<cancel, cpc, unmount, rpc, rentry>>
        /\ \E s : Refuse(i, s)
    <3>1. CASE RegisterUnmounted(i)
      BY Zenon, <3>1, <2>1 DEF RegisterUnmounted
    <3>2. CASE RegisterBackOut(i)
      BY Zenon, <3>2, <2>1 DEF RegisterBackOut
    <3> QED
      BY Zenon, <1>1, <3>1, <3>2
  <2>3. \A j \in Irp : dpc'[j] = "oplock" => dpc[j] = "oplock"
    BY Zenon, <2>2 DEF Refuse, TypeOK
  <2> QED
    BY Zenon, <2>1, <2>2, <2>3, ReasonFreed
<1>2. ASSUME NEW e \in Entry, ScanComplete(e) \/ ReleaseComplete(e) \/ RetryDispatch(e)
      PROVE  Reason' /\ HandsKept
  <2>1. DokanFreeIrpEntry(e) /\ UNCHANGED <<cancel, cpc, unmount, rpc, rentry>>
    BY Zenon, <1>2 DEF ScanComplete, ReleaseComplete, RetryDispatch
  <2>2. entry[e].at # "reply"
    BY Zenon, <1>2 DEF ScanComplete, ReleaseComplete, RetryDispatch
  <2>3. \A j \in Irp : dpc'[j] = "oplock" => dpc[j] = "oplock"
    BY Zenon, <1>2 DEF ScanComplete, ReleaseComplete, RetryDispatch, TypeOK
  <2> QED
    BY Zenon, <2>1, <2>2, <2>3, ReasonFreed
<1> QED
  BY Zenon, <1>1, <1>2

-----------------------------------------------------------------------------
(* Registration: the entry is new, or its marks are left alone. *)
LEMMA ReasonRegister ==
  ASSUME TypeOK, Ownership, Reason, NEW i \in Irp,
         RegisterAllocate(i) \/ RegisterSetRoutine(i) \/ RegisterInsert(i)
  PROVE  Reason' /\ HandsKept
<1> USE DEF dispatchVars, irpVars, doneVars, cancelVars, libraryVars
<1>1. /\ UNCHANGED <<cancel, cpc, unmount, rpc, rentry>>
      /\ \E d \in {"allocated", "set", "pended", "notify"} : dpc' = [dpc EXCEPT ![i] = d]
  BY Zenon DEF RegisterAllocate, RegisterSetRoutine, RegisterInsert
<1>2. \A j \in Irp : dpc'[j] = "oplock" => dpc[j] = "oplock"
  BY Zenon, <1>1 DEF TypeOK
<1>3. \A f \in Entry : /\ \/ Calm(entry'[f], entry[f])
                          \/ Blank(entry'[f]) /\ entry[f].at # "reply"
                       /\ entry'[f].at = "releasing" => entry[f].at = "releasing"
  <2>1. CASE RegisterAllocate(i)
    <3> DEFINE x == [FreeEntry EXCEPT !.irp = i, !.at = "register", !.list = ListOf(i),
                       !.async = IF path[i] = "async" THEN "OPLOCK_FAILURE" ELSE "SUCCESS"]
    <3>1. Blank(x) /\ x.at = "register"
      BY Zenon DEF FreeEntry, Blank
    <3>2. PICK e \in Entry : entry[e].irp = None /\ entry' = [entry EXCEPT ![e] = x]
      BY Zenon, <2>1 DEF RegisterAllocate
    <3>3. entry[e].at = "free"
      BY Zenon, <3>2 DEF Ownership, EntryOwnership
    <3>4. \A f \in Entry : entry'[f] = IF f = e THEN x ELSE entry[f]
      BY Zenon, <3>2 DEF TypeOK
    <3> HIDE DEF x
    <3> QED
      BY Zenon, <3>1, <3>3, <3>4 DEF Calm
  <2>2. CASE RegisterSetRoutine(i)
    <3>1. \/ entry' = entry
          \/ \E e, n : entry' = [entry EXCEPT ![e].serial = n]
      BY Zenon, <2>2 DEF RegisterSetRoutine
    <3>2. CASE entry' = entry
      BY Zenon, <3>2 DEF Calm
    <3>3. ASSUME NEW e, NEW n, entry' = [entry EXCEPT ![e].serial = n], NEW f \in Entry
          PROVE  Calm(entry'[f], entry[f]) /\ entry'[f].at = entry[f].at
      <4>1. entry[f] \in EntryType
        BY Zenon DEF TypeOK
      <4>2. entry'[f] = IF f = e THEN [entry[f] EXCEPT !.serial = n] ELSE entry[f]
        BY Zenon, <3>3 DEF TypeOK
      <4>3. /\ Calm([entry[f] EXCEPT !.serial = n], entry[f])
            /\ [entry[f] EXCEPT !.serial = n].at = entry[f].at
        BY Zenon, <4>1, MarkUpdates DEF EntryType
      <4> QED
        BY Zenon, <4>2, <4>3 DEF Calm
    <3> QED
      BY Zenon, <3>1, <3>2, <3>3
  <2>3. CASE RegisterInsert(i)
    <3>0. ListOf(i) \in Lists
      BY Zenon DEF ListOf, Lists
    <3>1. PICK p \in Lists : \E e : entry' = [entry EXCEPT ![e].at = p]
      BY Zenon, <2>3, <3>0 DEF RegisterInsert
    <3>a. PICK e : entry' = [entry EXCEPT ![e].at = p]
      BY Zenon, <3>1
    <3>2. ASSUME NEW f \in Entry
          PROVE  /\ Calm(entry'[f], entry[f])
                 /\ entry'[f].at = "releasing" => entry[f].at = "releasing"
      <4>1. entry[f] \in EntryType
        BY Zenon DEF TypeOK
      <4>2. entry'[f] = IF f = e THEN [entry[f] EXCEPT !.at = p] ELSE entry[f]
        BY Zenon, <3>a DEF TypeOK
      <4>3. /\ Calm([entry[f] EXCEPT !.at = p], entry[f])
            /\ [entry[f] EXCEPT !.at = p].at = p
        BY Zenon, <4>1, MarkUpdates DEF EntryType
      <4> QED
        BY Zenon, <4>2, <4>3 DEF Calm, Lists
    <3> QED
      BY Zenon, <3>2
  <2> QED
    BY Zenon, <2>1, <2>2, <2>3
<1>4. MarksNothing
  BY Zenon, <1>1, <1>2, <1>3 DEF MarksNothing, IsUnmountPendingVcb
<1> QED
  BY Zenon, <1>1, <1>4, ReasonKept

(* The clock of an entry: time passes, or the library asks for more. *)
LEMMA ReasonTick ==
  ASSUME TypeOK, Ownership, Reason,
         \/ \E e \in Entry : Expire(e)
         \/ \E s \in events : DokanResetPendingIrpTimeout(s)
  PROVE  Reason' /\ HandsKept
<1> USE DEF dispatchVars, irpVars, doneVars, cancelVars, libraryVars
<1>1. UNCHANGED <<cancel, cpc, dpc, unmount, rpc, rentry>>
  BY Zenon DEF Expire, DokanResetPendingIrpTimeout
<1>2. ASSUME NEW f \in Entry
      PROVE  \/ entry'[f] = entry[f]
             \/ entry'[f] = [entry[f] EXCEPT !.tick = "past"]
             \/ entry'[f] = [entry[f] EXCEPT !.tick = "future"]
  <2>1. entry[f] \in EntryType
    BY Zenon DEF TypeOK
  <2>2. ASSUME NEW e \in Entry, Expire(e)
        PROVE  entry'[f] = entry[f] \/ entry'[f] = [entry[f] EXCEPT !.tick = "past"]
    BY Zenon, <2>2 DEF Expire, TypeOK
  <2>3. CASE \E s \in events : DokanResetPendingIrpTimeout(s)
    BY Zenon, <2>3 DEF DokanResetPendingIrpTimeout
  <2> QED
    BY Zenon, <2>2, <2>3
<1>3. ASSUME NEW f \in Entry
      PROVE  Calm(entry'[f], entry[f]) /\ entry'[f].at = entry[f].at
  <2>1. entry[f] \in EntryType
    BY Zenon DEF TypeOK
  <2>2. /\ Calm(entry[f], entry[f])
        /\ Calm([entry[f] EXCEPT !.tick = "past"], entry[f])
        /\ Calm([entry[f] EXCEPT !.tick = "future"], entry[f])
    BY Zenon, <2>1, MarkUpdates DEF Calm
  <2>3. \A t : [entry[f] EXCEPT !.tick = t].at = entry[f].at
    BY Zenon, <2>1 DEF EntryType
  <2> QED
    BY Zenon, <1>2, <2>2, <2>3
<1>4. MarksNothing
  BY Zenon, <1>1, <1>3 DEF MarksNothing, IsUnmountPendingVcb
<1> QED
  BY Zenon, <1>1, <1>4, ReasonKept

-----------------------------------------------------------------------------
(* Taking entries out of a list keeps their marks. *)
LEMMA TakeOutMarks ==
  ASSUME TypeOK, Ownership, NEW S \in SUBSET Listed, NEW dest \in Places,
         TakeOut(S, dest), NEW f \in Entry
  PROVE  /\ Calm(entry'[f], entry[f])
         /\ entry'[f].at = entry[f].at \/ entry'[f].at \in {"gone", dest}
<1>1. entry[f] \in EntryType
  BY Zenon DEF TypeOK
<1>2. f \in S => ~entry[f].nulled
  BY Zenon DEF Ownership, EntryOwnership, Listed, Lists
<1>3. \/ entry'[f] = entry[f]
      \/ entry'[f] = [entry[f] EXCEPT !.at = "gone", !.freeMemory = TRUE]
      \/ entry'[f] = [entry[f] EXCEPT !.at = dest]
  BY Zenon, <1>2 DEF TakeOut, GivenUp
<1>4. /\ Calm(entry[f], entry[f])
      /\ Calm([entry[f] EXCEPT !.at = "gone", !.freeMemory = TRUE], entry[f])
      /\ Calm([entry[f] EXCEPT !.at = dest], entry[f])
  BY Zenon, <1>1, MarkUpdates DEF Calm
<1>5. /\ [entry[f] EXCEPT !.at = "gone", !.freeMemory = TRUE].at = "gone"
      /\ [entry[f] EXCEPT !.at = dest].at = dest
  BY Zenon, <1>1 DEF EntryType
<1> QED
  BY Zenon, <1>3, <1>4, <1>5

(* The scanner's, the unmount's and the retry's collections. *)
LEMMA ReasonCollect ==
  ASSUME TypeOK, Ownership, Reason, ScanCollect \/ ReleaseMove \/ RetryMove
  PROVE  Reason' /\ HandsKept
<1> USE DEF dispatchVars, irpVars, doneVars, cancelVars, libraryVars
<1>1. /\ UNCHANGED <<cancel, cpc, dpc, rpc, rentry>>
      /\ unmount' = unmount \/ unmount' \in {"drained", "released"}
  BY Zenon DEF ScanCollect, ReleaseMove, RetryMove
<1>2. \E S \in SUBSET Listed, dest \in {"timedOut", "retrying", "releasing"} :
        /\ TakeOut(S, dest)
        /\ dest = "releasing" => unmount' \in {"drained", "released"}
  <2>1. /\ At("PendingIrp") \in SUBSET Listed
        /\ At("PendingRetryIrp") \in SUBSET Listed
        /\ Expired \in SUBSET Listed
    BY Zenon DEF At, Listed, Lists, Expired
  <2>2. CASE ScanCollect
    BY Zenon, <2>1, <2>2 DEF ScanCollect
  <2>3. CASE ReleaseMove
    BY Zenon, <2>1, <2>3 DEF ReleaseMove, MoveIrpList
  <2>4. CASE RetryMove
    BY Zenon, <2>1, <2>4 DEF RetryMove, MoveIrpList
  <2> QED
    BY Zenon, <2>2, <2>3, <2>4
<1>3. PICK S \in SUBSET Listed, dest \in {"timedOut", "retrying", "releasing"} :
        /\ TakeOut(S, dest)
        /\ dest = "releasing" => unmount' \in {"drained", "released"}
  BY Zenon, <1>2
<1>4. dest \in Places
  BY Zenon DEF Places
<1>5. \A f \in Entry : /\ Calm(entry'[f], entry[f])
                       /\ entry'[f].at = entry[f].at \/ entry'[f].at \in {"gone", dest}
  BY Zenon, <1>3, <1>4, TakeOutMarks
<1>6. MarksNothing
  BY Zenon, <1>1, <1>3, <1>5 DEF MarksNothing, IsUnmountPendingVcb
<1> QED
  BY Zenon, <1>1, <1>6, ReasonKept

(* The cancel routine of a create marks the entry of a cancelled request. *)
LEMMA ReasonCreateCancel ==
  ASSUME TypeOK, Ownership, Reason, NEW i \in Irp,
         CreateCancelMark(i) \/ CreateCancelForce(i)
  PROVE  Reason' /\ HandsKept
<1> USE DEF dispatchVars, irpVars, doneVars, cancelVars, libraryVars
<1>1. PICK e \in Entry : holds[i] = e /\ entry[e].irp = i
  <2>1. cpc[i] \in {"holding", "marked"} /\ IrpOwnership(i)
    BY Zenon DEF CreateCancelMark, CreateCancelForce, Ownership
  <2> QED
    BY Zenon, <2>1 DEF IrpOwnership, HeldBy
<1>2. /\ UNCHANGED <<cancel, dpc, unmount, rpc, rentry>>
      /\ cancel[i]
      /\ \E c : cpc' = [cpc EXCEPT ![i] = c]
  BY Zenon DEF CreateCancelMark, CreateCancelForce, Reason
<1>3. ASSUME NEW f \in Entry
      PROVE  \/ entry'[f] = entry[f]
             \/ /\ f = e
                /\ \/ entry'[f] = [entry[f] EXCEPT !.tick = "zero", !.async = "CANCELLED"]
                   \/ entry'[f] = [entry[f] EXCEPT !.forced = TRUE]
  <2>1. CASE CreateCancelMark(i)
    BY Zenon, <2>1, <1>1 DEF CreateCancelMark, TypeOK
  <2>2. CASE CreateCancelForce(i)
    BY Zenon, <2>2, <1>1 DEF CreateCancelForce, TypeOK
  <2> QED
    BY Zenon, <2>1, <2>2
<1>4. ASSUME NEW f \in Entry
      PROVE  /\ entry'[f].irp = entry[f].irp /\ entry'[f].at = entry[f].at
             /\ entry[f].forced => entry'[f].forced
             /\ \/ entry'[f] = entry[f]
                \/ f = e
  <2>1. entry[f] \in EntryType
    BY Zenon DEF TypeOK
  <2>2. LET x == [entry[f] EXCEPT !.tick = "zero", !.async = "CANCELLED"]
        IN x.irp = entry[f].irp /\ x.at = entry[f].at /\ x.forced = entry[f].forced
    BY Zenon, <2>1 DEF EntryType
  <2>3. LET x == [entry[f] EXCEPT !.forced = TRUE]
        IN x.irp = entry[f].irp /\ x.at = entry[f].at /\ x.forced
    BY Zenon, <2>1 DEF EntryType
  <2> QED
    BY Zenon, <1>3, <2>2, <2>3
<1>5. \A j \in Irp : /\ dpc'[j] = "oplock" => Kind[j] # "cleanup"
                     /\ cpc'[j] # "idle" => cancel'[j]
  <2>1. \A j \in Irp \ {i} : cpc'[j] = cpc[j]
    BY Zenon, <1>2 DEF TypeOK
  <2> QED
    BY Zenon, <1>2, <2>1 DEF Reason
<1>6. ASSUME NEW f \in Entry, entry'[f].tick = "zero" \/ entry'[f].forced
      PROVE  entry'[f].irp \in Irp /\ cancel'[entry'[f].irp]
  <2>1. CASE f = e
    BY Zenon, <1>1, <1>2, <1>4, <2>1
  <2>2. CASE entry'[f] = entry[f]
    BY Zenon, <1>2, <1>6, <2>2 DEF Reason
  <2> QED
    BY Zenon, <1>4, <2>1, <2>2
<1>7. \A f \in Entry : entry'[f].at = "releasing" => IsUnmountPendingVcb'
  <2>1. IsUnmountPendingVcb' <=> IsUnmountPendingVcb
    BY Zenon, <1>2 DEF IsUnmountPendingVcb
  <2> QED
    BY Zenon, <2>1, <1>4 DEF Reason
<1>8. \A r \in Replier : rpc'[r] = "force" => rentry'[r] \in Entry /\ entry'[rentry'[r]].forced
  BY Zenon, <1>2, <1>4 DEF Reason
<1>9. HandsKept
  BY Zenon, <1>2, <1>4 DEF HandsKept
<1> QED
  BY Zenon, <1>5, <1>6, <1>7, <1>8, <1>9 DEF Reason

(* The cancel routine of the other requests takes their entry away. *)
LEMMA ReasonUnlink ==
  ASSUME TypeOK, Ownership, Reason, NEW i \in Irp, IrpCancelUnlink(i)
  PROVE  Reason' /\ HandsKept
<1> USE DEF dispatchVars, irpVars, doneVars, cancelVars, libraryVars
<1>1. PICK e \in Entry : holds[i] = e /\ entry[e].irp = i
  <2>1. cpc[i] = "holding" /\ IrpOwnership(i)
    BY Zenon DEF IrpCancelUnlink, Ownership
  <2> QED
    BY Zenon, <2>1 DEF IrpOwnership, HeldBy
<1>2. entry[e].freeMemory => entry[e].at = "gone"
  BY Zenon DEF Ownership, EntryOwnership
<1>3. /\ UNCHANGED <<cancel, dpc, unmount, rpc, rentry>>
      /\ cpc[i] = "holding" /\ cpc' = [cpc EXCEPT ![i] = "unlinked"]
  BY Zenon DEF IrpCancelUnlink
<1>4. \A f \in Entry : entry'[f] =
        IF f # e THEN entry[f]
        ELSE IF entry[f].freeMemory THEN FreeEntry
        ELSE [entry[f] EXCEPT !.at = "gone", !.nulled = TRUE]
  BY Zenon, <1>1 DEF IrpCancelUnlink, TypeOK
<1>5. ASSUME NEW f \in Entry
      PROVE  /\ \/ Calm(entry'[f], entry[f])
                \/ Blank(entry'[f]) /\ entry[f].at # "reply"
             /\ entry'[f].at = "releasing" => entry[f].at = "releasing"
  <2>1. entry[f] \in EntryType
    BY Zenon DEF TypeOK
  <2>2. /\ Blank(FreeEntry) /\ FreeEntry.at = "free"
        /\ Calm([entry[f] EXCEPT !.at = "gone", !.nulled = TRUE], entry[f])
        /\ [entry[f] EXCEPT !.at = "gone", !.nulled = TRUE].at = "gone"
    BY Zenon, <2>1, MarkUpdates DEF FreeEntry, EntryType
  <2> QED
    BY Zenon, <1>2, <1>4, <2>2 DEF Calm
<1>6. \A j \in Irp : cpc'[j] # "idle" => cpc[j] # "idle"
  BY Zenon, <1>3 DEF TypeOK
<1>7. MarksNothing
  BY Zenon, <1>3, <1>5, <1>6 DEF MarksNothing, IsUnmountPendingVcb
<1> QED
  BY Zenon, <1>3, <1>7, ReasonKept

(* A reply that ends, or finds nothing. *)
LEMMA ReasonReply ==
  ASSUME TypeOK, Ownership, Reason, NEW r \in Replier,
         \/ ReplyStart(r) \/ ReplyNoMatch(r) \/ ReplyAbandon(r) \/ ReplyAccept(r)
         \/ ReplyComplete(r)
  PROVE  Reason'
<1> USE DEF dispatchVars, irpVars, doneVars, cancelVars, libraryVars
<1>1. /\ UNCHANGED <<cancel, cpc, dpc, unmount>>
      /\ \E c \in {"closed", "search", "idle", "answer"} : rpc' = [rpc EXCEPT ![r] = c]
      /\ rentry' = rentry \/ rentry' = [rentry EXCEPT ![r] = None]
  BY Zenon DEF ReplyStart, ReplyNoMatch, ReplyAbandon, ReplyAccept, ReplyComplete
<1>2. \A q \in Replier : rpc'[q] = "force"
        => rpc[q] = "force" /\ q # r /\ rentry'[q] = rentry[q]
  BY Zenon, <1>1 DEF TypeOK
<1>3. \A f \in Entry :
        \/ entry'[f] = entry[f]
        \/ /\ f = rentry[r]
           /\ entry'[f] \in {FreeEntry, [entry[f] EXCEPT !.at = "gone"]}
  <2>1. CASE ReplyStart(r) \/ ReplyNoMatch(r) \/ ReplyAccept(r)
    BY Zenon, <2>1 DEF ReplyStart, ReplyNoMatch, ReplyAccept
  <2>2. CASE ReplyAbandon(r)
    BY Zenon, <2>2 DEF ReplyAbandon, TypeOK
  <2>3. CASE ReplyComplete(r)
    BY Zenon, <2>3 DEF ReplyComplete, DokanFreeIrpEntry, TypeOK
  <2> QED
    BY Zenon, <2>1, <2>2, <2>3
<1>4. \A f \in Entry : /\ Calm(entry'[f], entry[f]) \/ Blank(entry'[f])
                       /\ entry'[f].at = "releasing" => entry[f].at = "releasing"
  <2> TAKE f \in Entry
  <2>1. entry[f] \in EntryType
    BY Zenon DEF TypeOK
  <2>2. /\ Blank(FreeEntry) /\ FreeEntry.at = "free"
        /\ Calm([entry[f] EXCEPT !.at = "gone"], entry[f])
        /\ [entry[f] EXCEPT !.at = "gone"].at = "gone"
    BY Zenon, <2>1, MarkUpdates DEF FreeEntry, EntryType
  <2> QED
    BY Zenon, <1>3, <2>2 DEF Calm
<1>5. ASSUME NEW f \in Entry, entry'[f].tick = "zero" \/ entry'[f].forced
      PROVE  entry'[f].irp \in Irp /\ cancel'[entry'[f].irp]
  <2>1. Calm(entry'[f], entry[f])
    BY Zenon, <1>4, <1>5 DEF Blank
  <2>2. entry[f].irp \in Irp /\ cancel[entry[f].irp]
    BY Zenon, <1>5, <2>1 DEF Reason, Calm
  <2> QED
    BY Zenon, <1>1, <2>1, <2>2 DEF Calm
<1>6. \A f \in Entry : entry'[f].at = "releasing" => IsUnmountPendingVcb'
  BY Zenon, <1>1, <1>4 DEF Reason, IsUnmountPendingVcb
<1>7. ASSUME NEW q \in Replier, rpc'[q] = "force"
      PROVE  rentry'[q] \in Entry /\ entry'[rentry'[q]].forced
  <2>1. rentry[q] \in Entry /\ entry[rentry[q]].forced
    BY Zenon, <1>2, <1>7 DEF Reason
  <2>2. rentry[q] # rentry[r]
    BY Zenon, <1>2, <1>7, <2>1, PendingIrpAssumption DEF Ownership
  <2> QED
    BY Zenon, <1>2, <1>3, <1>7, <2>1, <2>2
<1>8. \A j \in Irp : /\ dpc'[j] = "oplock" => Kind[j] # "cleanup"
                     /\ cpc'[j] # "idle" => cancel'[j]
  BY Zenon, <1>1 DEF Reason
<1> QED
  BY Zenon, <1>5, <1>6, <1>7, <1>8 DEF Reason

(* A reply that takes an entry out of the list goes by its mark. *)
LEMMA ReasonReplyTake ==
  ASSUME TypeOK, Ownership, Reason, NEW r \in Replier, ReplyTake(r)
  PROVE  Reason'
<1> USE DEF dispatchVars, irpVars, doneVars, cancelVars, libraryVars
<1>1. PICK e \in Matching(rserial[r]) :
        /\ TakeOut({e}, "reply")
        /\ rpc' = [rpc EXCEPT ![r] = IF LeftToRoutine(e) THEN "idle"
                                     ELSE IF entry[e].forced THEN "force"
                                     ELSE "complete"]
        /\ rentry' = [rentry EXCEPT ![r] = IF LeftToRoutine(e) THEN None ELSE e]
  BY Zenon DEF ReplyTake
<1>2. e \in Entry /\ {e} \in SUBSET Listed
  BY Zenon DEF Matching, At, Listed, Lists
<1>3. \A f \in Entry : /\ Calm(entry'[f], entry[f])
                       /\ entry'[f].at = entry[f].at \/ entry'[f].at \in {"gone", "reply"}
  <2>1. "reply" \in Places
    BY Zenon DEF Places
  <2> QED
    BY Zenon, <1>1, <1>2, <2>1, TakeOutMarks
<1>4. UNCHANGED <<cancel, cpc, dpc, unmount>>
  BY Zenon DEF ReplyTake
<1>5. MarksNothing
  BY Zenon, <1>3, <1>4 DEF MarksNothing, IsUnmountPendingVcb
<1>6. ASSUME NEW q \in Replier, rpc'[q] = "force"
      PROVE  rentry'[q] \in Entry /\ entry'[rentry'[q]].forced
  <2>1. CASE q = r
    <3>1. rentry'[q] = e /\ entry[e].forced
      BY Zenon, <1>1, <1>6, <2>1 DEF TypeOK
    <3> QED
      BY Zenon, <1>2, <1>3, <3>1 DEF Calm
  <2>2. CASE q # r
    <3>1. rpc[q] = "force" /\ rentry'[q] = rentry[q]
      BY Zenon, <1>1, <1>6, <2>2 DEF TypeOK
    <3> QED
      BY Zenon, <1>3, <3>1 DEF Calm, Reason
  <2> QED
    BY Zenon, <2>1, <2>2
<1> QED
  BY Zenon, <1>5, <1>6, MarksKept DEF Reason

(* Nobody completes a request as cancelled without a reason. *)
THEOREM ReasonInvariant == Spec => []Reason
<1>1. Init => Reason
  <2> SUFFICES ASSUME Init PROVE Reason
    BY Zenon
  <2>1. \A e \in Entry : Blank(entry[e]) /\ entry[e].at = "free"
    BY Zenon DEF Init, FreeEntry, Blank
  <2>2. /\ \A i \in Irp : dpc[i] = "new" /\ cpc[i] = "idle"
        /\ \A r \in Replier : rpc[r] = "idle"
    BY Zenon DEF Init
  <2> QED
    BY Zenon, <2>1, <2>2 DEF Reason, Blank
<1>2. TypeOK /\ Ownership /\ Reason /\ [Next]_vars => Reason'
  <2> SUFFICES ASSUME TypeOK, Ownership, Reason, [Next]_vars PROVE Reason'
    BY Zenon
  <2>1. ASSUME NEW i \in Irp, Dispatching(i) PROVE Reason'
    BY Zenon, <2>1, ReasonQuiet, ReasonFrees, ReasonRegister DEF Dispatching
  <2>2. ASSUME NEW i \in Irp, IoCancelIrp(i) \/ Cancelling(i) PROVE Reason'
    BY Zenon, <2>2, ReasonQuiet, ReasonCreateCancel, ReasonUnlink DEF Cancelling
  <2>3. ASSUME NEW r \in Replier, ReplyStart(r) \/ Replying(r) PROVE Reason'
    BY Zenon, <2>3, ReasonReply, ReasonReplyTake DEF Replying
  <2>4. CASE \E s \in events : DokanResetPendingIrpTimeout(s)
    BY Zenon, <2>4, ReasonTick
  <2>5. ASSUME NEW e \in Entry,
               Expire(e) \/ ScanComplete(e) \/ ReleaseComplete(e) \/ RetryDispatch(e)
        PROVE  Reason'
    BY Zenon, <2>5, ReasonTick, ReasonFrees
  <2>6. CASE ScanCollect \/ ReleaseMove \/ RetryMove
    BY Zenon, <2>6, ReasonCollect
  <2>7. CASE ReleaseClaim \/ UNCHANGED vars
    BY Zenon, <2>7, ReasonQuiet
  <2> QED
    BY Zenon, <2>1, <2>2, <2>3, <2>4, <2>5, <2>6, <2>7 DEF Next
<1> QED
  BY <1>1, <1>2, TypeCorrect, OwnershipInvariant, PTL DEF Spec

-----------------------------------------------------------------------------
(* Who is accepted, before and after a step. *)
LEMMA AcceptedMembers ==
  /\ \A i : i \in Accepted
       <=> \E r \in Replier : rpc[r] = "answer" /\ entry[rentry[r]].irp = i
  /\ \A i : i \in Accepted'
       <=> \E r \in Replier : rpc'[r] = "answer" /\ entry'[rentry'[r]].irp = i
BY Zenon DEF Accepted

(* An accepted request is in the hands of the reply that accepted it. *)
LEMMA AcceptedInHand ==
  ASSUME TypeOK, Ownership, NEW r \in Replier, rpc[r] = "answer"
  PROVE  /\ rentry[r] \in InHand /\ rentry[r] # None
         /\ entry[rentry[r]].at = "reply"
<1>1. rentry[r] \in Entry /\ rentry[r] # None
  BY Zenon, PendingIrpAssumption DEF Ownership
<1> QED
  BY Zenon, <1>1 DEF Ownership, InHand

(* Nothing happens to it while no reply moves. *)
LEMMA AcceptedSame ==
  ASSUME TypeOK, Ownership, HandsKept
  PROVE  Accepted' = Accepted
<1>1. ASSUME NEW r \in Replier, rpc[r] = "answer"
      PROVE  entry'[rentry'[r]].irp = entry[rentry[r]].irp
  <2>1. rentry[r] \in Entry /\ entry[rentry[r]].at = "reply" /\ rentry'[r] = rentry[r]
    BY Zenon, <1>1, AcceptedInHand DEF InHand, HandsKept
  <2> QED
    BY Zenon, <2>1 DEF HandsKept
<1>2. \A i : i \in Accepted' <=> i \in Accepted
  BY Zenon, <1>1, AcceptedMembers DEF HandsKept
<1> QED
  BY Zenon, <1>2

(* Nobody but that reply has it: not the dispatching thread, not a cancel  *)
(* routine, not the scanner or the unmount, not another reply.             *)
LEMMA NotAccepted ==
  ASSUME TypeOK, Ownership, NEW i \in Irp,
         \/ ~Registered(i) \/ ~Quiet(i)
         \/ \E e \in InHand : entry[e].irp = i /\ entry[e].at # "reply"
         \/ \E r \in Replier : /\ rpc[r] = "force" /\ rentry[r] \in InHand
                               /\ entry[rentry[r]].irp = i
  PROVE  i \notin Accepted
<1> SUFFICES ASSUME i \in Accepted PROVE FALSE
  BY Zenon
<1>1. PICK q \in Replier : rpc[q] = "answer" /\ entry[rentry[q]].irp = i
  BY Zenon, AcceptedMembers
<1>2. rentry[q] \in InHand /\ rentry[q] # None /\ entry[rentry[q]].at = "reply"
  BY Zenon, <1>1, AcceptedInHand
<1>3. Quiet(i) /\ Registered(i) /\ \A f \in Entry \ {rentry[q]} : entry[f].irp # i
  BY Zenon, <1>1, <1>2, HandIsOwner
<1>4. ASSUME NEW e \in InHand, entry[e].irp = i PROVE e = rentry[q]
  BY Zenon, <1>3, <1>4 DEF InHand
<1>5. ASSUME NEW r \in Replier, rentry[r] = rentry[q] PROVE r = q
  BY Zenon, <1>2, <1>5 DEF Ownership
<1> QED
  BY Zenon, <1>1, <1>2, <1>3, <1>4, <1>5

(* A completion with a status there is reason for is a step of the         *)
(* contract, with the effect or without it.                                *)
LEMMA CompletionAllowed ==
  ASSUME TypeOK, NEW i \in Irp, NEW s \in Status, Complete(i, s),
         result[i] = <<>>, settled[i] <= Len(result[i]),
         settled' = settled
           \/ \E kinds \in SUBSET {"create", "cleanup"} : SettleIf(i, kinds),
         i \in Accepted <=> s = "ANSWER", Accepted' = Accepted \ {i},
         Contract!Allowed(i, s), UNCHANGED <<cancel, unmount>>
  PROVE  Contract!Next
<1>1. result' = [result EXCEPT ![i] = <<s>>]
  <2>1. Append(result[i], s) = <<s>>
    BY SMT
  <2> QED
    BY Zenon, <2>1 DEF Complete
<1>2. settled[i] = 0
  <2>1. settled[i] \in Nat /\ Len(result[i]) = 0
    BY SMT DEF TypeOK
  <2> QED
    BY SMT, <2>1
<1>3. \/ settled' = settled
      \/ Kind[i] \in {"create", "cleanup"} /\ settled' = [settled EXCEPT ![i] = 1]
  <2>1. settled[i] + 1 = 1
    BY SMT, <1>2
  <2> QED
    BY Zenon, <2>1 DEF SettleIf, Settle
<1>4. UNCHANGED <<cancel, IsUnmountPendingVcb>>
  BY SMT DEF IsUnmountPendingVcb
<1>5. Contract!Complete(i, s)
  BY Zenon, <1>1, <1>2, <1>3, <1>4 DEF Contract!Complete
<1>6. s \in Contract!Statuses
  BY Zenon DEF Status, Contract!Statuses
<1> QED
  BY Zenon, <1>5, <1>6 DEF Contract!Next

(* The same for whoever completes a request that no reply has accepted. *)
LEMMA OtherCompletion ==
  ASSUME TypeOK, Ownership, HandsKept, NEW i \in Irp, NEW s \in Status \ {"ANSWER"},
         Complete(i, s), result[i] = <<>>, settled[i] <= Len(result[i]),
         settled' = settled
           \/ \E kinds \in SUBSET {"create", "cleanup"} : SettleIf(i, kinds),
         i \notin Accepted, Contract!Allowed(i, s), UNCHANGED <<cancel, unmount>>
  PROVE  Contract!Next
<1>1. Accepted' = Accepted
  BY Zenon, AcceptedSame
<1>2. Accepted' = Accepted \ {i}
  BY Zenon, <1>1
<1> QED
  BY Zenon, <1>2, CompletionAllowed

(* The dispatching thread gives a request up: the volume goes away, there  *)
(* is no memory, the request was cancelled or its oplock break failed.     *)
LEMMA RefusalAllowed ==
  ASSUME TypeOK, Ownership, Reason, NEW i \in Irp,
         \/ DispatchUnmounted(i) \/ OplockFailed(i) \/ RegisterRefused(i)
         \/ RegisterUnmounted(i) \/ RegisterBackOut(i)
  PROVE  Contract!Next \/ UNCHANGED Contract!vars
<1> USE DEF dispatchVars, irpVars, doneVars, cancelVars, libraryVars
<1>0. HandsKept
  BY Zenon, ReasonQuiet, ReasonFrees
<1>1. /\ result[i] = <<>> /\ settled[i] <= Len(result[i])
      /\ UNCHANGED <<cancel, unmount>>
      /\ i \notin Accepted
  <2>1. IrpOwnership(i) /\ UNCHANGED <<cancel, unmount>>
    BY Zenon DEF Ownership, DispatchUnmounted, OplockFailed, RegisterRefused,
       RegisterUnmounted, RegisterBackOut
  <2>2. dpc[i] \in {"new", "redispatch", "oplock", "register", "allocated", "set"}
    BY Zenon DEF DispatchUnmounted, OplockFailed, RegisterRefused, RegisterUnmounted,
       RegisterBackOut
  <2>3. i \notin Accepted
    <3>1. ~Registered(i)
      BY Zenon, <2>2 DEF Registered
    <3> QED
      BY Zenon, <3>1, NotAccepted
  <2> QED
    BY Zenon, <2>1, <2>2, <2>3 DEF IrpOwnership
<1>2. UNCHANGED <<IsUnmountPendingVcb, Accepted>>
  <2>1. UNCHANGED IsUnmountPendingVcb
    BY SMT, <1>1 DEF IsUnmountPendingVcb
  <2> QED
    BY Zenon, <1>0, <2>1, AcceptedSame
<1>3. ASSUME NEW s \in Status \ {"ANSWER"}, Refuse(i, s), Contract!Allowed(i, s)
      PROVE  Contract!Next \/ UNCHANGED Contract!vars
  <2>1. CASE UNCHANGED <<result, settled>>
    BY Zenon, <1>1, <1>2, <2>1 DEF Contract!vars
  <2>2. CASE Complete(i, s) /\ SettleIf(i, {"create"})
    BY Zenon, <1>0, <1>1, <1>3, <2>2, OtherCompletion
  <2> QED
    BY Zenon, <1>3, <2>1, <2>2 DEF Refuse
<1>4. CASE DispatchUnmounted(i)
  <2>1. PICK s \in {"SUCCESS", "NO_SUCH_DEVICE"} :
          Complete(i, s) /\ (s = "SUCCESS" => Kind[i] = "cleanup")
    BY Zenon, <1>4 DEF DispatchUnmounted
  <2>2. s \in Status \ {"ANSWER"} /\ Contract!Allowed(i, s)
    BY Zenon, <1>4, <2>1 DEF DispatchUnmounted, Contract!Allowed, Status
  <2>3. settled' = settled \/ \E kinds \in SUBSET {"create", "cleanup"} : SettleIf(i, kinds)
    BY Zenon, <1>4 DEF DispatchUnmounted
  <2> QED
    BY Zenon, <1>0, <1>1, <2>1, <2>2, <2>3, OtherCompletion
<1>5. CASE OplockFailed(i)
  <2>1. CASE Kind[i] = "create"
    BY Zenon, <1>1, <1>2, <1>5, <2>1 DEF OplockFailed, Contract!vars
  <2>2. CASE Kind[i] # "create"
    <3>1. Complete(i, "OPLOCK_FAILURE") /\ settled' = settled
      BY Zenon, <1>5, <2>2 DEF OplockFailed
    <3>2. Kind[i] = "other"
      BY Zenon, <1>5, <2>2, PendingIrpAssumption DEF OplockFailed, Reason, Kinds
    <3>3. /\ "OPLOCK_FAILURE" \in Status \ {"ANSWER"}
          /\ Contract!Allowed(i, "OPLOCK_FAILURE")
      BY Zenon, <3>2 DEF Status, Contract!Allowed
    <3> QED
      BY Zenon, <1>0, <1>1, <3>1, <3>3, OtherCompletion
  <2> QED
    BY Zenon, <2>1, <2>2
<1>6. CASE RegisterRefused(i) \/ RegisterUnmounted(i) \/ RegisterBackOut(i)
  <2>1. PICK s \in {"NO_SUCH_DEVICE", "INSUFFICIENT_RESOURCES", "CANCELLED"} :
          /\ Refuse(i, s)
          /\ s = "NO_SUCH_DEVICE" => IsUnmountPendingVcb
          /\ s = "CANCELLED" => cancel[i]
    BY Zenon, <1>6 DEF RegisterRefused, RegisterUnmounted, RegisterBackOut
  <2>2. s \in Status \ {"ANSWER"} /\ Contract!Allowed(i, s)
    BY Zenon, <2>1 DEF Status, Contract!Allowed
  <2> QED
    BY Zenon, <1>3, <2>1, <2>2
<1> QED
  BY Zenon, <1>4, <1>5, <1>6

(* The cancel routine completes what somebody cancelled. *)
LEMMA CancellationAllowed ==
  ASSUME TypeOK, Ownership, Reason, NEW i \in Irp, IrpCancelComplete(i)
  PROVE  Contract!Next
<1>1. /\ cpc[i] = "unlinked" /\ result[i] = <<>> /\ settled[i] <= Len(result[i])
  BY Zenon DEF IrpCancelComplete, Ownership, IrpOwnership
<1>2. /\ Complete(i, "CANCELLED") /\ SettleIf(i, {"cleanup"})
      /\ UNCHANGED <<cancel, unmount>>
  BY Zenon, <1>1 DEF IrpCancelComplete, irpVars
<1>3. "CANCELLED" \in Status \ {"ANSWER"} /\ Contract!Allowed(i, "CANCELLED")
  BY Zenon, <1>1 DEF Reason, Status, Contract!Allowed
<1>4. i \notin Accepted
  <2>1. ~Quiet(i)
    BY Zenon, <1>1 DEF Quiet
  <2> QED
    BY Zenon, <2>1, NotAccepted
<1>5. HandsKept
  BY Zenon, ReasonQuiet
<1> QED
  BY Zenon, <1>1, <1>2, <1>3, <1>4, <1>5, OtherCompletion

(* The scanner and the unmount complete what they took out of a list. *)
LEMMA CollectedAllowed ==
  ASSUME TypeOK, Ownership, Reason, NEW e \in Entry, ScanComplete(e) \/ ReleaseComplete(e)
  PROVE  Contract!Next
<1>1. PICK s \in {"CANCELLED", "INSUFFICIENT_RESOURCES"} :
        /\ Complete(entry[e].irp, s)
        /\ \E kinds \in SUBSET {"create", "cleanup"} : SettleIf(entry[e].irp, kinds)
        /\ s = "CANCELLED" => entry[e].tick = "zero" \/ entry[e].at = "releasing"
  <2>1. CASE ScanComplete(e)
    BY Zenon, <2>1 DEF ScanComplete
  <2>2. CASE ReleaseComplete(e)
    BY Zenon, <2>2 DEF ReleaseComplete
  <2> QED
    BY Zenon, <2>1, <2>2
<1>2. e \in InHand /\ entry[e].at # "reply" /\ UNCHANGED <<cancel, unmount>>
  BY Zenon DEF ScanComplete, ReleaseComplete, InHand, irpVars
<1>3. PICK i \in Irp : entry[e].irp = i
  BY Zenon, <1>2, HandIsOwner
<1>4. result[i] = <<>> /\ settled[i] <= Len(result[i])
  BY Zenon, <1>2, <1>3, HandIsOwner
<1>5. s \in Status \ {"ANSWER"} /\ Contract!Allowed(i, s)
  BY Zenon, <1>1, <1>3 DEF Reason, Status, Contract!Allowed
<1>6. i \notin Accepted
  BY Zenon, <1>2, <1>3, NotAccepted
<1>7. HandsKept
  BY Zenon, ReasonFrees
<1> QED
  BY Zenon, <1>1, <1>2, <1>3, <1>4, <1>5, <1>6, <1>7, OtherCompletion

(* A reply completes the request it holds, and nobody else's answer is     *)
(* touched by that.                                                        *)
LEMMA ReplyReleases ==
  ASSUME TypeOK, Ownership, NEW r \in Replier, ReplyComplete(r)
  PROVE  Accepted' = Accepted \ {entry[rentry[r]].irp}
<1>1. /\ rpc[r] \in {"answer", "force"}
      /\ DokanFreeIrpEntry(rentry[r])
      /\ rentry' = [rentry EXCEPT ![r] = None]
      /\ rpc' = [rpc EXCEPT ![r] = "idle"]
  BY Zenon DEF ReplyComplete
<1>2. rentry[r] \in Entry /\ rentry[r] # None
  BY Zenon, <1>1, PendingIrpAssumption DEF Ownership
<1>3. rentry[r] \in InHand
  BY Zenon, <1>2 DEF Ownership, InHand
<1>4. \A f \in Entry \ {rentry[r]} : entry[f].irp # entry[rentry[r]].irp
  BY Zenon, <1>3, HandIsOwner
<1>5. ASSUME NEW q \in Replier, q # r, rpc[q] = "answer"
      PROVE  /\ entry[rentry[q]].irp # entry[rentry[r]].irp
             /\ entry'[rentry[q]] = entry[rentry[q]]
  <2>1. rentry[q] \in Entry
    BY Zenon, <1>5, AcceptedInHand DEF InHand
  <2>2. rentry[q] # rentry[r]
    BY Zenon, <1>2, <1>5 DEF Ownership
  <2>3. entry' = [entry EXCEPT ![rentry[r]] = FreeEntry]
    BY Zenon, <1>1 DEF DokanFreeIrpEntry
  <2> QED
    BY Zenon, <1>4, <2>1, <2>2, <2>3 DEF TypeOK
<1>6. \A q \in Replier : /\ q # r => rpc'[q] = rpc[q] /\ rentry'[q] = rentry[q]
                         /\ q = r => rpc'[q] = "idle"
  BY Zenon, <1>1 DEF TypeOK
<1>7. \A i : i \in Accepted' <=> i \in Accepted /\ i # entry[rentry[r]].irp
  <2>1. ASSUME NEW i, i \in Accepted' PROVE i \in Accepted /\ i # entry[rentry[r]].irp
    <3>1. PICK q \in Replier : rpc'[q] = "answer" /\ entry'[rentry'[q]].irp = i
      BY Zenon, <2>1, AcceptedMembers
    <3>2. q # r /\ rpc[q] = "answer" /\ rentry'[q] = rentry[q]
      BY Zenon, <1>6, <3>1
    <3>3. entry[rentry[q]].irp = i /\ i # entry[rentry[r]].irp
      BY Zenon, <1>5, <3>1, <3>2
    <3> QED
      BY Zenon, <3>2, <3>3, AcceptedMembers
  <2>2. ASSUME NEW i, i \in Accepted, i # entry[rentry[r]].irp PROVE i \in Accepted'
    <3>1. PICK q \in Replier : rpc[q] = "answer" /\ entry[rentry[q]].irp = i
      BY Zenon, <2>2, AcceptedMembers
    <3>2. q # r
      BY Zenon, <2>2, <3>1
    <3>3. rpc'[q] = "answer" /\ entry'[rentry'[q]].irp = i
      BY Zenon, <1>5, <1>6, <3>1, <3>2
    <3> QED
      BY Zenon, <3>3, AcceptedMembers
  <2> QED
    BY Zenon, <2>1, <2>2
<1> QED
  BY Zenon, <1>7

(* A reply completes a request with the answer that was accepted, or, as   *)
(* cancelled, a create that was marked.                                    *)
LEMMA ReplyAllowed ==
  ASSUME TypeOK, Ownership, Reason, NEW r \in Replier, ReplyComplete(r)
  PROVE  Contract!Next
<1>1. PICK s \in {"ANSWER", "CANCELLED"} :
        /\ Complete(entry[rentry[r]].irp, s)
        /\ s = "ANSWER" => rpc[r] = "answer"
        /\ s = "CANCELLED" => rpc[r] = "force"
  BY Zenon DEF ReplyComplete
<1>2. /\ \E kinds \in SUBSET {"create", "cleanup"} : SettleIf(entry[rentry[r]].irp, kinds)
      /\ UNCHANGED <<cancel, unmount>>
  BY Zenon DEF ReplyComplete, irpVars
<1>3. rentry[r] \in InHand
  <2>1. rentry[r] \in Entry /\ rentry[r] # None
    BY Zenon, <1>1, PendingIrpAssumption DEF Ownership
  <2> QED
    BY Zenon, <2>1 DEF Ownership, InHand
<1>4. PICK i \in Irp : entry[rentry[r]].irp = i
  BY Zenon, <1>3, HandIsOwner
<1>5. result[i] = <<>> /\ settled[i] <= Len(result[i])
  BY Zenon, <1>3, <1>4, HandIsOwner
<1>6. s \in Status /\ Contract!Allowed(i, s)
  BY Zenon, <1>1, <1>4 DEF Reason, Status, Contract!Allowed
<1>7. i \in Accepted <=> s = "ANSWER"
  <2>1. CASE s = "ANSWER"
    BY Zenon, <1>1, <1>4, <2>1, AcceptedMembers
  <2>2. CASE s = "CANCELLED"
    BY Zenon, <1>1, <1>3, <1>4, <2>2, NotAccepted
  <2> QED
    BY Zenon, <2>1, <2>2
<1>8. Accepted' = Accepted \ {i}
  BY Zenon, <1>4, ReplyReleases
<1> QED
  BY Zenon, <1>1, <1>2, <1>4, <1>5, <1>6, <1>7, <1>8, CompletionAllowed

(* The second unmount check accepts an answer only while the volume is     *)
(* there, and for a request that nobody has completed.                     *)
LEMMA AcceptAllowed ==
  ASSUME TypeOK, Ownership, NEW r \in Replier, ReplyAccept(r)
  PROVE  Contract!Next
<1> USE DEF dispatchVars, irpVars, doneVars, cancelVars, libraryVars
<1>1. /\ rpc[r] = "complete" /\ ~IsUnmountPendingVcb
      /\ rpc' = [rpc EXCEPT ![r] = "answer"]
      /\ UNCHANGED <<result, settled, cancel, unmount, entry, rentry>>
  BY Zenon DEF ReplyAccept
<1>2. rentry[r] \in InHand
  <2>1. rentry[r] \in Entry /\ rentry[r] # None
    BY Zenon, <1>1, PendingIrpAssumption DEF Ownership
  <2> QED
    BY Zenon, <2>1 DEF Ownership, InHand
<1>3. PICK i \in Irp : entry[rentry[r]].irp = i /\ result[i] = <<>>
  BY Zenon, <1>2, HandIsOwner
<1>4. \A q \in Replier : rpc'[q] = "answer" <=> rpc[q] = "answer" \/ q = r
  BY Zenon, <1>1 DEF TypeOK
<1>5. \A j : j \in Accepted' <=> j \in Accepted \/ j = i
  <2>1. \A q \in Replier : entry'[rentry'[q]].irp = entry[rentry[q]].irp
    BY Zenon, <1>1
  <2>2. ASSUME NEW j, j \in Accepted' PROVE j \in Accepted \/ j = i
    <3>1. PICK q \in Replier : rpc'[q] = "answer" /\ entry'[rentry'[q]].irp = j
      BY Zenon, <2>2, AcceptedMembers
    <3>2. entry[rentry[q]].irp = j /\ (rpc[q] = "answer" \/ q = r)
      BY Zenon, <1>4, <2>1, <3>1
    <3> QED
      BY Zenon, <1>3, <3>2, AcceptedMembers
  <2>3. ASSUME NEW j, j \in Accepted PROVE j \in Accepted'
    <3>1. PICK q \in Replier : rpc[q] = "answer" /\ entry[rentry[q]].irp = j
      BY Zenon, <2>3, AcceptedMembers
    <3>2. rpc'[q] = "answer" /\ entry'[rentry'[q]].irp = j
      BY Zenon, <1>4, <2>1, <3>1
    <3> QED
      BY Zenon, <3>2, AcceptedMembers
  <2>4. i \in Accepted'
    <3>1. rpc'[r] = "answer" /\ entry'[rentry'[r]].irp = i
      BY Zenon, <1>3, <1>4, <2>1
    <3> QED
      BY Zenon, <3>1, AcceptedMembers
  <2> QED
    BY Zenon, <2>2, <2>3, <2>4
<1>6. Accepted' = Accepted \cup {i}
  BY Zenon, <1>5
<1>7. UNCHANGED IsUnmountPendingVcb
  BY SMT, <1>1 DEF IsUnmountPendingVcb
<1>8. Contract!Accept(i)
  BY Zenon, <1>1, <1>3, <1>6, <1>7 DEF Contract!Accept
<1> QED
  BY Zenon, <1>8 DEF Contract!Next

(* The other steps of a reply accept nothing and give up nothing that was  *)
(* accepted.                                                               *)
LEMMA ReplyElsewhere ==
  ASSUME TypeOK, Ownership, NEW r \in Replier,
         ReplyStart(r) \/ ReplyNoMatch(r) \/ ReplyTake(r) \/ ReplyAbandon(r)
  PROVE  Accepted' = Accepted
<1> USE DEF dispatchVars, irpVars, doneVars, cancelVars, libraryVars
<1>1. /\ rpc[r] # "answer"
      /\ \E c \in {"closed", "search", "idle", "force", "complete"} :
           rpc' = [rpc EXCEPT ![r] = c]
      /\ rentry' = rentry \/ \E e : rentry' = [rentry EXCEPT ![r] = e]
  BY Zenon DEF ReplyStart, ReplyNoMatch, ReplyTake, ReplyAbandon
<1>2. \A q \in Replier : /\ rpc'[q] = "answer" <=> rpc[q] = "answer"
                         /\ rpc[q] = "answer" => rentry'[q] = rentry[q]
  BY Zenon, <1>1 DEF TypeOK
<1>3. ASSUME NEW f \in Entry PROVE entry'[f].irp = entry[f].irp
  <2>0. entry[f] \in EntryType
    BY Zenon DEF TypeOK
  <2>1. CASE ReplyStart(r) \/ ReplyNoMatch(r)
    BY Zenon, <2>1 DEF ReplyStart, ReplyNoMatch
  <2>2. CASE ReplyTake(r)
    <3>1. PICK e \in Matching(rserial[r]) : TakeOut({e}, "reply")
      BY Zenon, <2>2 DEF ReplyTake
    <3>2. {e} \in SUBSET Listed /\ "reply" \in Places
      BY Zenon DEF Matching, At, Listed, Lists, Places
    <3> QED
      BY Zenon, <3>1, <3>2, TakeOutMarks DEF Calm
  <2>3. CASE ReplyAbandon(r)
    <3>1. entry'[f] = entry[f] \/ entry'[f] = [entry[f] EXCEPT !.at = "gone"]
      BY Zenon, <2>3 DEF ReplyAbandon, TypeOK
    <3>2. [entry[f] EXCEPT !.at = "gone"].irp = entry[f].irp
      BY Zenon, <2>0 DEF EntryType
    <3> QED
      BY Zenon, <3>1, <3>2
  <2> QED
    BY Zenon, <2>1, <2>2, <2>3
<1>4. \A q \in Replier : rpc[q] = "answer" => rentry[q] \in Entry
  BY Zenon DEF Ownership
<1>5. \A i : i \in Accepted' <=> i \in Accepted
  <2>1. \A q \in Replier : rpc[q] = "answer"
          => entry'[rentry'[q]].irp = entry[rentry[q]].irp
    BY Zenon, <1>2, <1>3, <1>4
  <2>2. \A i : (\E q \in Replier : rpc'[q] = "answer" /\ entry'[rentry'[q]].irp = i)
          <=> (\E q \in Replier : rpc[q] = "answer" /\ entry[rentry[q]].irp = i)
    BY Zenon, <1>2, <2>1
  <2> QED
    BY Zenon, <2>2, AcceptedMembers
<1> QED
  BY Zenon, <1>5

(* All other steps of the driver and the library are nothing to it, except *)
(* that somebody cancels, and that the volume goes away.                   *)
LEMMA OthersAllowed ==
  ASSUME TypeOK, Ownership, Reason,
         \/ \E i \in Irp :
              \/ DispatchToRegister(i) \/ DispatchToOplock(i) \/ OplockBroken(i)
              \/ RegisterAllocate(i) \/ RegisterSetRoutine(i) \/ RegisterInsert(i)
              \/ Notify(i) \/ IoCancelIrp(i) \/ IoCancelTake(i) \/ CancelReadEntry(i)
              \/ CreateCancelMark(i) \/ CreateCancelForce(i) \/ IrpCancelUnlink(i)
         \/ \E r \in Replier :
              ReplyStart(r) \/ ReplyNoMatch(r) \/ ReplyTake(r) \/ ReplyAbandon(r)
         \/ \E s \in events : DokanResetPendingIrpTimeout(s)
         \/ \E e \in Entry : Expire(e) \/ RetryDispatch(e)
         \/ ScanCollect \/ ReleaseClaim \/ ReleaseMove \/ RetryMove
         \/ UNCHANGED vars
  PROVE  Contract!Next \/ UNCHANGED Contract!vars
<1> USE DEF dispatchVars, irpVars, doneVars, cancelVars, libraryVars
<1>0. Accepted' = Accepted
  <2>1. CASE \E r \in Replier :
               ReplyStart(r) \/ ReplyNoMatch(r) \/ ReplyTake(r) \/ ReplyAbandon(r)
    BY Zenon, <2>1, ReplyElsewhere
  <2>2. CASE \E i \in Irp :
               \/ DispatchToRegister(i) \/ DispatchToOplock(i) \/ OplockBroken(i)
               \/ RegisterAllocate(i) \/ RegisterSetRoutine(i) \/ RegisterInsert(i)
               \/ Notify(i) \/ IoCancelIrp(i) \/ IoCancelTake(i) \/ CancelReadEntry(i)
               \/ CreateCancelMark(i) \/ CreateCancelForce(i) \/ IrpCancelUnlink(i)
    BY Zenon, <2>2, ReasonQuiet, ReasonRegister, ReasonCreateCancel, ReasonUnlink, AcceptedSame
  <2>3. CASE \/ \E s \in events : DokanResetPendingIrpTimeout(s)
             \/ \E e \in Entry : Expire(e) \/ RetryDispatch(e)
             \/ ScanCollect \/ ReleaseClaim \/ ReleaseMove \/ RetryMove
             \/ UNCHANGED vars
    BY Zenon, <2>3, ReasonQuiet, ReasonTick, ReasonFrees, ReasonCollect, AcceptedSame
  <2> QED
    BY Zenon, <2>1, <2>2, <2>3
<1>1. \/ UNCHANGED <<result, settled, cancel, unmount>>
      \/ \E i \in Irp : IoCancelIrp(i)
      \/ ReleaseClaim
      \/ ReleaseMove
  <2>1. ASSUME NEW i \in Irp,
               \/ DispatchToRegister(i) \/ DispatchToOplock(i) \/ OplockBroken(i)
               \/ RegisterAllocate(i) \/ RegisterSetRoutine(i) \/ RegisterInsert(i)
               \/ Notify(i)
        PROVE  UNCHANGED <<result, settled, cancel, unmount>>
    BY Zenon, <2>1 DEF DispatchToRegister, DispatchToOplock, OplockBroken,
       RegisterAllocate, RegisterSetRoutine, RegisterInsert, Notify
  <2>2. ASSUME NEW i \in Irp,
               \/ IoCancelTake(i) \/ CancelReadEntry(i) \/ CreateCancelMark(i)
               \/ CreateCancelForce(i) \/ IrpCancelUnlink(i)
        PROVE  UNCHANGED <<result, settled, cancel, unmount>>
    BY Zenon, <2>2 DEF IoCancelTake, CancelReadEntry, CreateCancelMark, CreateCancelForce,
       IrpCancelUnlink
  <2>3. ASSUME NEW r \in Replier,
               ReplyStart(r) \/ ReplyNoMatch(r) \/ ReplyTake(r) \/ ReplyAbandon(r)
        PROVE  UNCHANGED <<result, settled, cancel, unmount>>
    BY Zenon, <2>3 DEF ReplyStart, ReplyNoMatch, ReplyTake, ReplyAbandon
  <2>4. ASSUME \/ \E s \in events : DokanResetPendingIrpTimeout(s)
               \/ \E e \in Entry : Expire(e) \/ RetryDispatch(e)
               \/ ScanCollect \/ RetryMove \/ UNCHANGED vars
        PROVE  UNCHANGED <<result, settled, cancel, unmount>>
    BY Zenon, <2>4 DEF DokanResetPendingIrpTimeout, Expire, RetryDispatch, ScanCollect,
       RetryMove, vars
  <2> QED
    BY Zenon, <2>1, <2>2, <2>3, <2>4
<1>2. CASE UNCHANGED <<result, settled, cancel, unmount>>
  <2>1. UNCHANGED IsUnmountPendingVcb
    BY SMT, <1>2 DEF IsUnmountPendingVcb
  <2> QED
    BY Zenon, <1>0, <1>2, <2>1 DEF Contract!vars
<1>3. ASSUME NEW i \in Irp, IoCancelIrp(i) PROVE Contract!Next
  <2>1. UNCHANGED IsUnmountPendingVcb
    BY SMT, <1>3 DEF IoCancelIrp, IsUnmountPendingVcb
  <2>2. Contract!Cancel(i)
    BY Zenon, <1>0, <1>3, <2>1 DEF IoCancelIrp, Contract!Cancel
  <2> QED
    BY Zenon, <2>2 DEF Contract!Next
<1>4. CASE ReleaseClaim
  <2>1. IsUnmountPendingVcb' = TRUE
    BY SMT, <1>4 DEF ReleaseClaim, IsUnmountPendingVcb
  <2>2. Contract!Close
    BY Zenon, <1>0, <1>4, <2>1 DEF ReleaseClaim, Contract!Close
  <2> QED
    BY Zenon, <2>2 DEF Contract!Next
<1>5. CASE ReleaseMove
  <2>1. UNCHANGED IsUnmountPendingVcb
    BY SMT, <1>5 DEF ReleaseMove, IsUnmountPendingVcb
  <2> QED
    BY Zenon, <1>0, <1>5, <2>1 DEF ReleaseMove, Contract!vars
<1> QED
  BY Zenon, <1>1, <1>2, <1>3, <1>4, <1>5

(* The pending-request machinery (DokanCompleteIrp, the timeout scanner,   *)
(* the cancel routines, DokanEventRelease and RegisterPendingIrpMain)      *)
(* implements what the driver promises the I/O manager.  The unmount may   *)
(* come between the second check of DokanCompleteIrp (event.c:604) and the *)
(* completion: then the accepted request is the reply's alone, and it gets *)
(* the answer and nothing else.                                            *)
THEOREM KeepsContract == Spec => ContractKept
<1>1. Init => Contract!Init
  <2> SUFFICES ASSUME Init PROVE Contract!Init
    BY Zenon
  <2>1. IsUnmountPendingVcb = FALSE
    BY SMT DEF Init, IsUnmountPendingVcb
  <2>2. Accepted = {}
    BY Zenon DEF Init, Accepted
  <2> QED
    BY Zenon, <2>1, <2>2 DEF Init, Contract!Init
<1>2. TypeOK /\ Ownership /\ Reason /\ [Next]_vars => [Contract!Next]_(Contract!vars)
  <2> SUFFICES ASSUME TypeOK, Ownership, Reason, [Next]_vars
               PROVE  Contract!Next \/ UNCHANGED Contract!vars
    BY Zenon
  <2>1. ASSUME NEW i \in Irp, Dispatching(i)
        PROVE  Contract!Next \/ UNCHANGED Contract!vars
    BY Zenon, <2>1, RefusalAllowed, OthersAllowed DEF Dispatching
  <2>2. ASSUME NEW i \in Irp, IoCancelIrp(i) \/ Cancelling(i)
        PROVE  Contract!Next \/ UNCHANGED Contract!vars
    BY Zenon, <2>2, CancellationAllowed, OthersAllowed DEF Cancelling
  <2>3. ASSUME NEW r \in Replier, ReplyStart(r) \/ Replying(r)
        PROVE  Contract!Next \/ UNCHANGED Contract!vars
    BY Zenon, <2>3, AcceptAllowed, ReplyAllowed, OthersAllowed DEF Replying
  <2>4. CASE \E s \in events : DokanResetPendingIrpTimeout(s)
    BY Zenon, <2>4, OthersAllowed
  <2>5. ASSUME NEW e \in Entry,
               Expire(e) \/ ScanComplete(e) \/ ReleaseComplete(e) \/ RetryDispatch(e)
        PROVE  Contract!Next \/ UNCHANGED Contract!vars
    BY Zenon, <2>5, CollectedAllowed, OthersAllowed
  <2>6. CASE ScanCollect \/ ReleaseClaim \/ ReleaseMove \/ RetryMove \/ UNCHANGED vars
    BY Zenon, <2>6, OthersAllowed
  <2> QED
    BY Zenon, <2>1, <2>2, <2>3, <2>4, <2>5, <2>6 DEF Next
<1> QED
  BY <1>1, <1>2, TypeCorrect, OwnershipInvariant, ReasonInvariant, PTL
     DEF Spec, ContractKept, Contract!Spec

-----------------------------------------------------------------------------
(* Requests are not lost.                                                  *)

\* The I/O manager has taken the cancel routine, which has not let go yet.
Taken(i) ==
  /\ cpc[i] \notin {"idle", "flagged"}
  /\ Kind[i] # "create" => cpc[i] \in {"called", "holding"}

\* IRP i is in a list, or about to be put there.
Waits(i) == dpc[i] = "set" \/ \E e \in Entry : entry[e].irp = i /\ entry[e].at \in Lists

(* A request that waits can be cancelled, or is being cancelled; and each  *)
(* kind of request has a cancel routine of its own.                        *)
Armed ==
  \A i \in Irp : /\ Waits(i) => routine[i] \/ Taken(i)
                 /\ cpc[i] = "unlinked" => Kind[i] # "create"
                 /\ cpc[i] = "marked" => Kind[i] = "create"

\* A step that starts no wait of IRP i and leaves its cancellation alone.
Undisturbed(i) ==
  /\ cpc'[i] = cpc[i]
  /\ Waits(i)' => Waits(i) /\ routine'[i] = routine[i]

(* Such a step keeps Armed for IRP i. *)
LEMMA UndisturbedKeeps ==
  ASSUME Armed, NEW i \in Irp, Undisturbed(i)
  PROVE  /\ Waits(i)' => routine'[i] \/ Taken(i)'
         /\ cpc'[i] = "unlinked" => Kind[i] # "create"
         /\ cpc'[i] = "marked" => Kind[i] = "create"
  BY Zenon DEF Armed, Undisturbed, Taken

(* A request that waits is registered or being registered. *)
LEMMA WaitsIsRegistered ==
  ASSUME Ownership, NEW i \in Irp, Waits(i)
  PROVE  dpc[i] \in {"set", "notify", "pended"}
  BY ZenonT(60) DEF Ownership, EntryOwnership, Waits, Registered

(* Steps of the dispatching threads that put nothing into a list. *)
LEMMA ArmedDispatch ==
  ASSUME TypeOK, Ownership, Armed, NEW i \in Irp,
         \/ DispatchUnmounted(i) \/ DispatchToRegister(i) \/ DispatchToOplock(i)
         \/ OplockBroken(i) \/ OplockFailed(i) \/ RegisterRefused(i) \/ Notify(i)
  PROVE  Armed'
<1> USE DEF dispatchVars, irpVars, doneVars, cancelVars, libraryVars
<1>1. /\ UNCHANGED <<entry, routine, cpc>>
      /\ \E d \in {"failed", "register", "oplock", "pended", "dropped"} :
           dpc' = [dpc EXCEPT ![i] = d]
  BY Zenon DEF DispatchUnmounted, DispatchToRegister, DispatchToOplock, OplockBroken,
     OplockFailed, RegisterRefused, Refuse, Notify
<1>2. \A j \in Irp : dpc'[j] = "set" => dpc[j] = "set"
  BY Zenon, <1>1 DEF TypeOK
<1>3. \A j \in Irp : Undisturbed(j)
  BY Zenon, <1>1, <1>2 DEF Undisturbed, Waits
<1> QED
  BY Zenon, <1>3, UndisturbedKeeps DEF Armed

(* Steps that free one entry, which was in no list. *)
LEMMA ArmedFrees ==
  ASSUME TypeOK, Ownership, Armed,
         \/ \E i \in Irp : RegisterUnmounted(i) \/ RegisterBackOut(i)
         \/ \E r \in Replier : ReplyComplete(r) \/ ReplyAbandon(r)
         \/ \E e \in Entry : ScanComplete(e) \/ ReleaseComplete(e) \/ RetryDispatch(e)
  PROVE  Armed'
<1> USE DEF dispatchVars, irpVars, doneVars, cancelVars, libraryVars
<1>1. \A f \in Entry : entry'[f].at \in Lists => entry'[f] = entry[f]
  <2>0. FreeEntry.at \notin Lists
    BY Zenon DEF FreeEntry, Lists
  <2>1. ASSUME NEW e, DokanFreeIrpEntry(e), NEW f \in Entry, entry'[f].at \in Lists
        PROVE  entry'[f] = entry[f]
    BY Zenon, <2>0, <2>1 DEF DokanFreeIrpEntry, TypeOK
  <2>2. ASSUME NEW r \in Replier, ReplyAbandon(r), NEW f \in Entry, entry'[f].at \in Lists
        PROVE  entry'[f] = entry[f]
    <3>1. entry'[f] = IF f = rentry[r] THEN [entry[f] EXCEPT !.at = "gone"] ELSE entry[f]
      BY Zenon, <2>2 DEF ReplyAbandon, TypeOK
    <3>2. [entry[f] EXCEPT !.at = "gone"].at = "gone"
      <4>1. entry[f] \in EntryType
        BY Zenon DEF TypeOK
      <4> QED
        BY Zenon, <4>1 DEF EntryType
    <3> QED
      BY Zenon, <2>2, <3>1, <3>2 DEF Lists
  <2>3. (\E e : DokanFreeIrpEntry(e)) \/ (\E r \in Replier : ReplyAbandon(r))
    BY Zenon DEF RegisterUnmounted, RegisterBackOut, ReplyComplete, ScanComplete,
       ReleaseComplete, RetryDispatch
  <2> QED
    BY Zenon, <2>1, <2>2, <2>3
<1>2. /\ cpc' = cpc
      /\ \/ dpc' = dpc
         \/ \E i, d : d \in {"failed", "dropped", "redispatch"} /\ dpc' = [dpc EXCEPT ![i] = d]
  BY Zenon DEF RegisterUnmounted, RegisterBackOut, Refuse, ReplyComplete, ReplyAbandon,
     ScanComplete, ReleaseComplete, RetryDispatch
<1>3. \A j \in Irp : dpc'[j] = "set" => dpc[j] = "set"
  BY Zenon, <1>2 DEF TypeOK
<1>4. ASSUME NEW j \in Irp, Waits(j)' PROVE Waits(j) /\ routine'[j] = routine[j]
  <2>1. Waits(j)
    BY Zenon, <1>1, <1>3, <1>4 DEF Waits
  <2>2. CASE routine' = routine
    BY Zenon, <2>1, <2>2
  <2>3. ASSUME NEW i \in Irp, RegisterBackOut(i) PROVE routine'[j] = routine[j]
    <3>1. dpc'[i] # "set" /\ \A k \in Irp \ {i} : routine'[k] = routine[k]
      BY Zenon, <2>3 DEF RegisterBackOut, Refuse, TypeOK
    <3>2. CASE j # i
      BY Zenon, <3>1, <3>2
    <3>3. CASE j = i
      <4>1. PICK f \in Entry : entry'[f].irp = i /\ entry'[f].at \in Lists
        BY Zenon, <1>4, <3>1, <3>3 DEF Waits
      <4>2. entry[f].irp = i /\ entry[f].at \in Lists
        BY Zenon, <1>1, <4>1
      <4>3. dpc[i] = "set" /\ dpc[i] \in {"notify", "pended"}
        BY Zenon, <2>3, <4>2 DEF RegisterBackOut, Ownership, EntryOwnership, Registered
      <4> QED
        BY Zenon, <4>3
    <3> QED
      BY Zenon, <3>2, <3>3
  <2>4. routine' = routine \/ \E i \in Irp : RegisterBackOut(i)
    BY Zenon DEF RegisterUnmounted, ReplyComplete, ReplyAbandon, ScanComplete,
       ReleaseComplete, RetryDispatch
  <2> QED
    BY Zenon, <2>1, <2>2, <2>3, <2>4
<1>5. \A j \in Irp : Undisturbed(j)
  BY Zenon, <1>2, <1>4 DEF Undisturbed
<1> QED
  BY Zenon, <1>5, UndisturbedKeeps DEF Armed

(* An update of another field leaves an entry's IRP and place alone. *)
LEMMA SamePlace ==
  ASSUME NEW x \in EntryType, NEW y,
         \/ y = x
         \/ \E n : y = [x EXCEPT !.serial = n]
         \/ \E t : y = [x EXCEPT !.tick = t]
         \/ \E t, s : y = [x EXCEPT !.tick = t, !.async = s]
         \/ \E b : y = [x EXCEPT !.forced = b]
  PROVE  y.irp = x.irp /\ y.at = x.at
  BY Zenon DEF EntryType

(* A step after which every entry is where it was, with the same IRP, and  *)
(* no registration reaches the list, starts no wait.                       *)
LEMMA StaysWaiting ==
  ASSUME NEW j \in Irp, dpc'[j] = "set" => dpc[j] = "set",
         \A f \in Entry : entry'[f].at \in Lists /\ entry'[f].irp = j
                          => entry[f].at \in Lists /\ entry[f].irp = j
  PROVE  Waits(j)' => Waits(j)
  BY Zenon DEF Waits

(* The registration. *)
LEMMA ArmedRegister ==
  ASSUME TypeOK, Ownership, Armed, NEW i \in Irp,
         RegisterAllocate(i) \/ RegisterSetRoutine(i) \/ RegisterInsert(i)
  PROVE  Armed'
<1> USE DEF dispatchVars, irpVars, doneVars, cancelVars, libraryVars
<1>0. cpc' = cpc /\ \A j \in Irp \ {i} : dpc'[j] = dpc[j] /\ routine'[j] = routine[j]
  BY Zenon DEF RegisterAllocate, RegisterSetRoutine, RegisterInsert, TypeOK
<1>1. CASE RegisterAllocate(i)
  <2>1. dpc'[i] # "set" /\ routine' = routine
    BY Zenon, <1>1 DEF RegisterAllocate, TypeOK
  <2>2. \A f \in Entry : entry'[f].at \in Lists => entry'[f] = entry[f]
    <3>1. PICK e \in Entry, x \in {"SUCCESS", "OPLOCK_FAILURE"} :
            entry' = [entry EXCEPT ![e] = [FreeEntry EXCEPT !.irp = i, !.at = "register",
                                             !.list = ListOf(i), !.async = x]]
      BY Zenon, <1>1 DEF RegisterAllocate
    <3>2. [FreeEntry EXCEPT !.irp = i, !.at = "register", !.list = ListOf(i), !.async = x].at
            = "register"
      BY Zenon DEF FreeEntry
    <3>3. entry'[e].at \notin Lists /\ \A f \in Entry \ {e} : entry'[f] = entry[f]
      BY <3>1, <3>2 DEF Lists, TypeOK
    <3> QED
      BY Zenon, <3>3
  <2>3. \A j \in Irp : Undisturbed(j)
    BY Zenon, <1>0, <2>1, <2>2 DEF Undisturbed, Waits
  <2> QED
    BY Zenon, <2>3, UndisturbedKeeps DEF Armed
<1>2. CASE RegisterSetRoutine(i)
  <2>1. routine'[i] /\ cpc'[i] = cpc[i]
    BY Zenon, <1>2 DEF RegisterSetRoutine, TypeOK
  <2>2. ASSUME NEW f \in Entry PROVE entry'[f].irp = entry[f].irp /\ entry'[f].at = entry[f].at
    <3>1. \/ entry'[f] = entry[f]
          \/ \E n : entry'[f] = [entry[f] EXCEPT !.serial = n]
      <4>1. entry' = entry \/ entry' = [entry EXCEPT ![regEntry[i]].serial = serial + 1]
        BY Zenon, <1>2 DEF RegisterSetRoutine
      <4>2. DOMAIN entry = Entry
        BY Zenon DEF TypeOK
      <4>3. \/ entry'[f] = entry[f]
            \/ entry'[f] = [entry[f] EXCEPT !.serial = serial + 1]
        BY ZenonT(60), <4>1, <4>2
      <4> QED
        BY Zenon, <4>3
    <3>2. entry[f] \in EntryType
      BY Zenon DEF TypeOK
    <3> QED
      BY Zenon, <3>1, <3>2, SamePlace
  <2>3. \A j \in Irp \ {i} : Undisturbed(j)
    BY Zenon, <1>0, <2>2 DEF Undisturbed, Waits
  <2> QED
    BY Zenon, <2>1, <2>3, UndisturbedKeeps DEF Armed
<1>3. CASE RegisterInsert(i)
  <2>1. dpc[i] = "set" /\ routine' = routine /\ dpc'[i] # "set"
    BY Zenon, <1>3 DEF RegisterInsert, TypeOK
  <2>2. HeldBy(i, regEntry[i])
    BY Zenon, <2>1 DEF Ownership, IrpOwnership
  <2>3. ASSUME NEW f \in Entry PROVE entry'[f] = entry[f] \/ entry'[f].irp = i
    <3>1. entry[f] \in EntryType
      BY Zenon DEF TypeOK
    <3>2. \A l : [entry[f] EXCEPT !.at = l].irp = entry[f].irp
      BY Zenon, <3>1 DEF EntryType
    <3>3. CASE f = regEntry[i]
      BY Zenon, <1>3, <2>2, <3>2, <3>3 DEF RegisterInsert, HeldBy, TypeOK
    <3>4. CASE f # regEntry[i]
      BY Zenon, <1>3, <3>4 DEF RegisterInsert, TypeOK
    <3> QED
      BY Zenon, <3>3, <3>4
  <2>4. \A j \in Irp : Undisturbed(j)
    BY Zenon, <1>0, <2>1, <2>3 DEF Undisturbed, Waits
  <2> QED
    BY Zenon, <2>4, UndisturbedKeeps DEF Armed
<1> QED
  BY Zenon, <1>1, <1>2, <1>3

(* The cancel routine is called, and reads the entry. *)
LEMMA ArmedCancelStart ==
  ASSUME TypeOK, Ownership, Armed, NEW i \in Irp,
         IoCancelIrp(i) \/ IoCancelTake(i) \/ CancelReadEntry(i)
  PROVE  Armed'
<1> USE DEF dispatchVars, irpVars, doneVars, cancelVars, libraryVars
<1>1. /\ UNCHANGED <<entry, dpc>>
      /\ \A j \in Irp \ {i} : cpc'[j] = cpc[j] /\ routine'[j] = routine[j]
  BY ZenonT(60) DEF IoCancelIrp, IoCancelTake, CancelReadEntry, TypeOK
<1>2. \A j \in Irp \ {i} : Undisturbed(j)
  BY Zenon, <1>1 DEF Undisturbed, Waits
<1>3. Waits(i)' => Waits(i)
  BY Zenon, <1>1 DEF Waits
<1>4. cpc'[i] \notin {"unlinked", "marked"}
  BY ZenonT(60) DEF IoCancelIrp, IoCancelTake, CancelReadEntry, TypeOK
<1>5. Waits(i) => routine'[i] \/ Taken(i)'
  <2>1. CASE IoCancelIrp(i)
    BY Zenon, <2>1 DEF IoCancelIrp, Armed, Taken
  <2>2. CASE IoCancelTake(i)
    <3>1. cpc[i] = "flagged" /\ cpc'[i] = IF routine[i] THEN "called" ELSE "over"
      BY Zenon, <2>2 DEF IoCancelTake, TypeOK
    <3>2. Waits(i) => routine[i]
      BY Zenon, <3>1 DEF Armed, Taken
    <3>3. routine[i] => Taken(i)'
      BY Zenon, <3>1 DEF Taken
    <3> QED
      BY Zenon, <3>2, <3>3
  <2>3. CASE CancelReadEntry(i)
    <3>1. HeldBy(i, context[i])
      BY Zenon, <2>3 DEF CancelReadEntry, Ownership, IrpOwnership
    <3>2. context[i] # None
      BY Zenon, <3>1, PendingIrpAssumption DEF HeldBy
    <3>3. cpc'[i] = "holding"
      BY Zenon, <2>3, <3>2 DEF CancelReadEntry, TypeOK
    <3> QED
      BY Zenon, <3>3 DEF Taken
  <2> QED
    BY Zenon, <2>1, <2>2, <2>3
<1> QED
  BY Zenon, <1>2, <1>3, <1>4, <1>5, UndisturbedKeeps DEF Armed

(* The marks of that cancel routine leave every entry at its place. *)
LEMMA CreateCancelPlaces ==
  ASSUME TypeOK, NEW i \in Irp, CreateCancelMark(i) \/ CreateCancelForce(i),
         NEW f \in Entry
  PROVE  entry'[f].irp = entry[f].irp /\ entry'[f].at = entry[f].at
<1>0. entry[f] \in EntryType
  BY Zenon DEF TypeOK
<1>1. CASE CreateCancelMark(i)
  <2>1. \/ entry'[f] = entry[f]
        \/ entry'[f] = [entry[f] EXCEPT !.tick = "zero", !.async = "CANCELLED"]
    BY <1>1 DEF CreateCancelMark, TypeOK
  <2>2. \/ entry'[f] = entry[f]
        \/ \E t, s : entry'[f] = [entry[f] EXCEPT !.tick = t, !.async = s]
    BY Zenon, <2>1
  <2> QED
    BY Zenon, <1>0, <2>2, SamePlace
<1>2. CASE CreateCancelForce(i)
  <2>1. \/ entry'[f] = entry[f]
        \/ entry'[f] = [entry[f] EXCEPT !.forced = TRUE]
    BY Zenon, <1>2 DEF CreateCancelForce, TypeOK
  <2> QED
    BY Zenon, <1>0, <2>1, SamePlace
<1> QED
  BY Zenon, <1>1, <1>2

(* The cancel routine of a create marks the entry. *)
LEMMA ArmedCreateCancel ==
  ASSUME TypeOK, Ownership, Armed, NEW i \in Irp,
         CreateCancelMark(i) \/ CreateCancelForce(i)
  PROVE  Armed'
<1> USE DEF dispatchVars, irpVars, doneVars, cancelVars, libraryVars
<1>1. /\ UNCHANGED <<dpc, routine>>
      /\ \A j \in Irp \ {i} : cpc'[j] = cpc[j]
  BY ZenonT(60) DEF CreateCancelMark, CreateCancelForce, TypeOK
<1>2. Kind[i] = "create" /\ cpc'[i] \in {"marked", "over"}
  BY Zenon DEF CreateCancelMark, CreateCancelForce, TypeOK, Armed
<1>3. \A f \in Entry : entry'[f].irp = entry[f].irp /\ entry'[f].at = entry[f].at
  BY Zenon, CreateCancelPlaces
<1>4. \A j \in Irp \ {i} : Undisturbed(j)
  BY Zenon, <1>1, <1>3 DEF Undisturbed, Waits
<1>5. Taken(i)' /\ cpc'[i] # "unlinked"
  BY Zenon, <1>2 DEF Taken
<1> QED
  BY Zenon, <1>2, <1>4, <1>5, UndisturbedKeeps DEF Armed

(* The cancel routine of the other requests takes the entry out of its     *)
(* list: the request waits no longer, and no registration of it is under   *)
(* way, for that would hold the list's lock.                               *)
LEMMA ArmedUnlink ==
  ASSUME TypeOK, Ownership, Armed, NEW i \in Irp, IrpCancelUnlink(i)
  PROVE  Armed'
<1> USE DEF dispatchVars, irpVars, doneVars, cancelVars, libraryVars
<1>1. /\ UNCHANGED <<dpc, routine>>
      /\ \A j \in Irp \ {i} : cpc'[j] = cpc[j]
      /\ cpc'[i] = "unlinked" /\ Kind[i] # "create" /\ cpc[i] = "holding"
  BY Zenon DEF IrpCancelUnlink, TypeOK
<1>2. PICK h \in Entry : h = holds[i] /\ entry[h].irp = i
  <2>1. HeldBy(i, holds[i])
    BY Zenon, <1>1 DEF Ownership, IrpOwnership
  <2> QED
    BY Zenon, <2>1 DEF HeldBy
<1>3. entry'[h].at \notin Lists /\ \A f \in Entry \ {h} : entry'[f] = entry[f]
  <2>1. \/ entry'[h] = FreeEntry
        \/ entry'[h] = [entry[h] EXCEPT !.at = "gone", !.nulled = TRUE]
    BY Zenon, <1>2 DEF IrpCancelUnlink, TypeOK
  <2>2. entry[h] \in EntryType
    BY Zenon DEF TypeOK
  <2>3. [entry[h] EXCEPT !.at = "gone", !.nulled = TRUE].at = "gone"
    BY Zenon, <2>2 DEF EntryType
  <2>4. \A f \in Entry \ {h} : entry'[f] = entry[f]
    BY Zenon, <1>2 DEF IrpCancelUnlink, TypeOK
  <2>5. FreeEntry.at = "free"
    BY Zenon DEF FreeEntry
  <2>6. entry'[h].at \in {"free", "gone"}
    BY Zenon, <2>1, <2>3, <2>5
  <2> QED
    BY Zenon, <2>4, <2>6 DEF Lists
<1>4. \A j \in Irp \ {i} : Undisturbed(j)
  BY Zenon, <1>1, <1>3 DEF Undisturbed, Waits
<1>5. dpc[i] # "set"
  <2> SUFFICES ASSUME dpc[i] = "set" PROVE FALSE
    BY Zenon
  <2>1. /\ regEntry[i] \in Entry /\ entry[regEntry[i]].irp = i
        /\ entry[regEntry[i]].list = ListOf(i)
    BY Zenon DEF Ownership, IrpOwnership, HeldBy
  <2>2. i # None
    BY Zenon, PendingIrpAssumption
  <2>3. regEntry[i] = h
    BY Zenon, <1>2, <2>1, <2>2 DEF Ownership
  <2>4. Unlocked(ListOf(i))
    BY Zenon, <1>2, <2>1, <2>3 DEF IrpCancelUnlink
  <2> QED
    BY Zenon, <2>4 DEF Unlocked
<1>6. ~Waits(i)'
  <2>1. i # None
    BY Zenon, PendingIrpAssumption
  <2>2. \A f \in Entry \ {h} : entry[f].irp # i
    BY Zenon, <1>2, <2>1 DEF Ownership
  <2> QED
    BY Zenon, <1>1, <1>3, <1>5, <2>2 DEF Waits
<1> QED
  BY Zenon, <1>1, <1>4, <1>6, UndisturbedKeeps DEF Armed

(* It completes the request, which waits no longer. *)
LEMMA ArmedCancelComplete ==
  ASSUME TypeOK, Ownership, Armed, NEW i \in Irp, IrpCancelComplete(i)
  PROVE  Armed'
<1> USE DEF dispatchVars, irpVars, doneVars, cancelVars, libraryVars
<1>1. /\ UNCHANGED <<entry, dpc, routine>>
      /\ \A j \in Irp \ {i} : cpc'[j] = cpc[j]
      /\ cpc'[i] = "over" /\ cpc[i] \in {"unlinked", "unowned"}
  BY Zenon DEF IrpCancelComplete, TypeOK
<1>2. cpc[i] = "unlinked" /\ ~routine[i]
  BY Zenon, <1>1 DEF Ownership, IrpOwnership
<1>3. ~Waits(i)
  BY Zenon, <1>2 DEF Armed, Taken
<1>4. Waits(i)' => Waits(i)
  BY Zenon, <1>1 DEF Waits
<1>5. \A j \in Irp \ {i} : Undisturbed(j)
  BY Zenon, <1>1 DEF Undisturbed, Waits
<1> QED
  BY Zenon, <1>1, <1>3, <1>4, <1>5, UndisturbedKeeps DEF Armed

(* Entries are taken out of the lists. *)
LEMMA ArmedTakeOut ==
  ASSUME TypeOK, Ownership, Armed, NEW S \in SUBSET Listed,
         NEW dest \in {"releasing", "retrying", "timedOut", "reply"},
         TakeOut(S, dest), UNCHANGED <<dpc, cpc>>
  PROVE  Armed'
<1>1. \A f \in Entry : f \in S => entry'[f].at \notin Lists
  BY Zenon, TakeOutAddsNothing
<1>2. \A f \in Entry : f \notin S => entry'[f] = entry[f]
  BY Zenon DEF TakeOut
<1>3. ASSUME NEW j \in Irp, Waits(j)' PROVE Waits(j) /\ routine'[j] = routine[j]
  <2>1. S \subseteq Entry /\ \A e \in S : entry[e].at \in Lists
    BY Zenon DEF Listed
  <2>2. Waits(j)
    BY Zenon, <1>1, <1>2, <1>3 DEF Waits
  <2>3. \A e \in S : entry[e].irp # j
    <3>1. CASE dpc[j] = "set"
      BY Zenon, <2>1, <3>1 DEF Ownership, EntryOwnership, Registered
    <3>2. CASE dpc[j] # "set"
      <4>1. PICK f \in Entry : entry'[f].irp = j /\ entry'[f].at \in Lists
        BY Zenon, <1>3, <3>2 DEF Waits
      <4>2. f \notin S /\ entry[f].irp = j
        BY Zenon, <1>1, <1>2, <4>1
      <4>3. j # None
        BY Zenon, PendingIrpAssumption
      <4> QED
        BY Zenon, <2>1, <4>2, <4>3 DEF Ownership
    <3> QED
      BY Zenon, <3>1, <3>2
  <2>4. routine'[j] = routine[j]
    <3>1. routine'[j] = (routine[j] /\ \A e \in S : entry[e].irp # j)
      BY Zenon DEF TakeOut
    <3>2. routine[j] \in BOOLEAN
      BY Zenon DEF TypeOK
    <3> QED
      BY Zenon, <2>3, <3>1, <3>2
  <2> QED
    BY Zenon, <2>2, <2>4
<1>4. \A j \in Irp : Undisturbed(j)
  BY Zenon, <1>3 DEF Undisturbed
<1> QED
  BY Zenon, <1>4, UndisturbedKeeps DEF Armed

(* What is collected was in a list. *)
LEMMA CollectsListed ==
  ASSUME ScanCollect \/ ReleaseMove \/ RetryMove \/ \E r \in Replier : ReplyTake(r)
  PROVE  \E S \in SUBSET Listed, dest \in {"releasing", "retrying", "timedOut", "reply"} :
           TakeOut(S, dest)
<1>1. /\ At("PendingIrp") \in SUBSET Listed
      /\ At("PendingRetryIrp") \in SUBSET Listed
      /\ Expired \in SUBSET Listed
      /\ \A s : Matching(s) \in SUBSET Listed
  BY Zenon DEF At, Listed, Lists, Expired, Matching
<1>2. CASE ScanCollect
  BY Zenon, <1>1, <1>2 DEF ScanCollect
<1>3. CASE ReleaseMove
  BY Zenon, <1>1, <1>3 DEF ReleaseMove, MoveIrpList
<1>4. CASE RetryMove
  BY Zenon, <1>1, <1>4 DEF RetryMove, MoveIrpList
<1>5. ASSUME NEW r \in Replier, ReplyTake(r)
      PROVE  \E S \in SUBSET Listed : TakeOut(S, "reply")
  <2>1. PICK e \in Matching(rserial[r]) : TakeOut({e}, "reply")
    BY Zenon, <1>5 DEF ReplyTake
  <2>2. {e} \in SUBSET Listed
    BY Zenon, <1>1
  <2> QED
    BY Zenon, <2>1, <2>2
<1> QED
  BY Zenon, <1>2, <1>3, <1>4, <1>5

(* The scanner's, the unmount's and the retry's collections, and a reply's. *)
LEMMA ArmedCollect ==
  ASSUME TypeOK, Ownership, Armed,
         ScanCollect \/ ReleaseMove \/ RetryMove \/ \E r \in Replier : ReplyTake(r)
  PROVE  Armed'
<1> USE DEF dispatchVars, irpVars, doneVars, cancelVars, libraryVars
<1>1. UNCHANGED <<dpc, cpc>>
  BY Zenon DEF ScanCollect, ReleaseMove, RetryMove, ReplyTake
<1>2. \E S \in SUBSET Listed, dest \in {"releasing", "retrying", "timedOut", "reply"} :
        TakeOut(S, dest)
  BY Zenon, CollectsListed
<1> QED
  BY Zenon, <1>1, <1>2, ArmedTakeOut

(* Steps that leave every entry at its place. *)
LEMMA OtherPlaces ==
  ASSUME TypeOK, NEW f \in Entry,
         \/ \E r \in Replier : ReplyStart(r) \/ ReplyNoMatch(r) \/ ReplyAccept(r)
         \/ \E s \in events : DokanResetPendingIrpTimeout(s)
         \/ \E e \in Entry : Expire(e)
         \/ ReleaseClaim
         \/ UNCHANGED vars
  PROVE  entry'[f].irp = entry[f].irp /\ entry'[f].at = entry[f].at
<1> USE DEF dispatchVars, irpVars, doneVars, cancelVars, libraryVars
<1>0. entry[f] \in EntryType
  BY Zenon DEF TypeOK
<1>1. CASE entry' = entry
  BY Zenon, <1>1
<1>2. ASSUME NEW s \in events, DokanResetPendingIrpTimeout(s)
      PROVE  entry'[f].irp = entry[f].irp /\ entry'[f].at = entry[f].at
  <2>1. entry'[f] = entry[f] \/ \E t : entry'[f] = [entry[f] EXCEPT !.tick = t]
    BY Zenon, <1>2 DEF DokanResetPendingIrpTimeout
  <2> QED
    BY Zenon, <1>0, <2>1, SamePlace
<1>3. ASSUME NEW e \in Entry, Expire(e)
      PROVE  entry'[f].irp = entry[f].irp /\ entry'[f].at = entry[f].at
  <2>1. entry'[f] = entry[f] \/ entry'[f] = [entry[f] EXCEPT !.tick = "past"]
    BY Zenon, <1>3 DEF Expire, TypeOK
  <2>2. entry'[f] = entry[f] \/ \E t : entry'[f] = [entry[f] EXCEPT !.tick = t]
    BY Zenon, <2>1
  <2> QED
    BY Zenon, <1>0, <2>2, SamePlace
<1>4. \/ entry' = entry
      \/ \E s \in events : DokanResetPendingIrpTimeout(s)
      \/ \E e \in Entry : Expire(e)
  BY Zenon DEF ReplyStart, ReplyNoMatch, ReplyAccept, ReleaseClaim, vars
<1> QED
  BY Zenon, <1>1, <1>2, <1>3, <1>4

(* Steps that touch neither a place nor a cancellation. *)
LEMMA ArmedOther ==
  ASSUME TypeOK, Armed,
         \/ \E r \in Replier : ReplyStart(r) \/ ReplyNoMatch(r) \/ ReplyAccept(r)
         \/ \E s \in events : DokanResetPendingIrpTimeout(s)
         \/ \E e \in Entry : Expire(e)
         \/ ReleaseClaim
         \/ UNCHANGED vars
  PROVE  Armed'
<1> USE DEF dispatchVars, irpVars, doneVars, cancelVars, libraryVars
<1>1. UNCHANGED <<dpc, cpc, routine>>
  BY Zenon DEF ReplyStart, ReplyNoMatch, ReplyAccept, DokanResetPendingIrpTimeout, Expire,
     ReleaseClaim, vars
<1>2. \A f \in Entry : entry'[f].irp = entry[f].irp /\ entry'[f].at = entry[f].at
  BY Zenon, OtherPlaces
<1>3. \A j \in Irp : Undisturbed(j)
  BY Zenon, <1>1, <1>2 DEF Undisturbed, Waits
<1> QED
  BY Zenon, <1>3, UndisturbedKeeps DEF Armed

(* A request in a list has its cancel routine, or the I/O manager has      *)
(* taken the routine and it has not let go of the request: whoever takes   *)
(* it out of the list and finds the routine gone may leave it alone.       *)
THEOREM ArmedInvariant == Spec => []Armed
<1>1. Init => Armed
  <2> SUFFICES ASSUME Init PROVE Armed
    BY Zenon
  <2>1. \A e \in Entry : entry[e].at \notin Lists
    BY Zenon DEF Init, FreeEntry, Lists
  <2>2. \A i \in Irp : dpc[i] = "new" /\ cpc[i] = "idle"
    BY Zenon DEF Init
  <2> QED
    BY Zenon, <2>1, <2>2 DEF Armed, Waits
<1>2. TypeOK /\ Ownership /\ Armed /\ [Next]_vars => Armed'
  <2> SUFFICES ASSUME TypeOK, Ownership, Armed, [Next]_vars PROVE Armed'
    BY Zenon
  <2>1. ASSUME NEW i \in Irp, Dispatching(i) PROVE Armed'
    BY Zenon, <2>1, ArmedDispatch, ArmedFrees, ArmedRegister DEF Dispatching
  <2>2. ASSUME NEW i \in Irp, IoCancelIrp(i) \/ Cancelling(i) PROVE Armed'
    BY Zenon, <2>2, ArmedCancelStart, ArmedCreateCancel, ArmedUnlink, ArmedCancelComplete
       DEF Cancelling
  <2>3. ASSUME NEW r \in Replier, ReplyStart(r) \/ Replying(r) PROVE Armed'
    BY Zenon, <2>3, ArmedOther, ArmedCollect, ArmedFrees DEF Replying
  <2>4. CASE \E s \in events : DokanResetPendingIrpTimeout(s)
    BY Zenon, <2>4, ArmedOther
  <2>5. ASSUME NEW e \in Entry,
               Expire(e) \/ ScanComplete(e) \/ ReleaseComplete(e) \/ RetryDispatch(e)
        PROVE  Armed'
    BY Zenon, <2>5, ArmedOther, ArmedFrees
  <2>6. CASE ScanCollect \/ ReleaseMove \/ RetryMove
    BY Zenon, <2>6, ArmedCollect
  <2>7. CASE ReleaseClaim \/ UNCHANGED vars
    BY Zenon, <2>7, ArmedOther
  <2> QED
    BY Zenon, <2>1, <2>2, <2>3, <2>4, <2>5, <2>6, <2>7 DEF Next
<1> QED
  BY <1>1, <1>2, TypeCorrect, OwnershipInvariant, PTL DEF Spec
-----------------------------------------------------------------------------
\* Why nobody may be left to complete IRP i.
Excused(i) ==
  IsUnmountPendingVcb \/ (Kind[i] = "create" /\ cancel[i]) \/ dpc[i] = "dropped"

\* Whoever was going to complete IRP i still is, and an excuse stays one.
Kept(i) ==
  /\ InDispatch(i) => InDispatch(i)'
  /\ InCancelRoutine(i) => InCancelRoutine(i)'
  /\ Completed(i) => Completed(i)'
  /\ dpc[i] = "dropped" => dpc'[i] = "dropped"
  /\ \A e \in Entry : entry[e].irp = i => entry'[e].irp = i /\ entry'[e].at = entry[e].at

\* Cancellations and the unmount are not taken back.
Onward ==
  /\ IsUnmountPendingVcb => IsUnmountPendingVcb'
  /\ \A i \in Irp : cancel[i] => cancel'[i]

(* So a request that is kept stays with somebody. *)
LEMMA KeptStays ==
  ASSUME OrphanedOnlyThen, Onward, NEW i \in Irp, Kept(i)
  PROVE  Orphaned(i)' => Excused(i)'
<1>1. InList(i) => InList(i)'
  BY Zenon DEF Kept, InList, Listed
<1>2. InTransit(i) => InTransit(i)'
  BY Zenon DEF Kept, InTransit, InHand
<1>3. Orphaned(i)' => Orphaned(i)
  BY Zenon, <1>1, <1>2 DEF Kept, Orphaned
<1>4. Excused(i) => Excused(i)'
  BY Zenon DEF Onward, Kept, Excused
<1> QED
  BY Zenon, <1>3, <1>4 DEF OrphanedOnlyThen, Excused

(* A request nothing was done to is kept. *)
LEMMA UntouchedKept ==
  ASSUME NEW i \in Irp, dpc'[i] = dpc[i], cpc'[i] = cpc[i], result'[i] = result[i],
         \A e \in Entry : entry[e].irp = i => entry'[e].irp = i /\ entry'[e].at = entry[e].at
  PROVE  Kept(i)
  BY Zenon DEF Kept, InDispatch, InCancelRoutine, Completed

(* A completed request is not orphaned. *)
LEMMA CompletesIt ==
  ASSUME TypeOK, NEW i \in Irp, NEW s \in Status, Complete(i, s)
  PROVE  /\ ~Orphaned(i)' /\ Completed(i)'
         /\ \A j \in Irp \ {i} : result'[j] = result[j]
<1>1. result[i] \in Seq(Status) /\ result'[i] = Append(result[i], s)
  BY Zenon DEF TypeOK, Complete
<1>2. result'[i] # <<>>
  BY SMT, <1>1
<1>3. \A j \in Irp \ {i} : result'[j] = result[j]
  BY Zenon DEF TypeOK, Complete
<1> QED
  BY Zenon, <1>2, <1>3 DEF Orphaned, Completed

(* No step takes a cancellation or the unmount back. *)
LEMMA StepsOnward ==
  ASSUME TypeOK, [Next]_vars
  PROVE  Onward
<1> USE DEF dispatchVars, irpVars, doneVars, cancelVars, libraryVars
<1>1. ASSUME UNCHANGED <<cancel, unmount>> PROVE Onward
  BY Zenon, <1>1 DEF Onward, IsUnmountPendingVcb
<1>2. ASSUME NEW i \in Irp, Dispatching(i) PROVE Onward
  <2>1. CASE \/ DispatchUnmounted(i) \/ DispatchToRegister(i) \/ DispatchToOplock(i)
             \/ OplockBroken(i) \/ OplockFailed(i) \/ RegisterRefused(i)
    BY Zenon, <1>1, <2>1 DEF DispatchUnmounted, DispatchToRegister, DispatchToOplock,
       OplockBroken, OplockFailed, RegisterRefused
  <2>2. CASE \/ RegisterAllocate(i) \/ RegisterUnmounted(i) \/ RegisterSetRoutine(i)
             \/ RegisterBackOut(i) \/ RegisterInsert(i) \/ Notify(i)
    BY Zenon, <1>1, <2>2 DEF RegisterAllocate, RegisterUnmounted, RegisterSetRoutine,
       RegisterBackOut, RegisterInsert, Notify
  <2> QED
    BY Zenon, <1>2, <2>1, <2>2 DEF Dispatching
<1>3. ASSUME NEW i \in Irp, Cancelling(i) PROVE Onward
  BY Zenon, <1>1, <1>3 DEF Cancelling, IoCancelTake, CancelReadEntry, CreateCancelMark,
     CreateCancelForce, IrpCancelUnlink, IrpCancelComplete
<1>4. ASSUME NEW i \in Irp, IoCancelIrp(i) PROVE Onward
  <2>1. unmount' = unmount /\ \A j \in Irp : cancel[j] => cancel'[j]
    BY Zenon, <1>4 DEF IoCancelIrp, TypeOK
  <2> QED
    BY Zenon, <2>1 DEF Onward, IsUnmountPendingVcb
<1>5. ASSUME NEW r \in Replier, ReplyStart(r) \/ Replying(r) PROVE Onward
  BY Zenon, <1>1, <1>5 DEF ReplyStart, Replying, ReplyNoMatch, ReplyTake, ReplyAbandon,
     ReplyAccept, ReplyComplete
<1>6. CASE \/ \E s \in events : DokanResetPendingIrpTimeout(s)
           \/ \E e \in Entry : Expire(e) \/ ScanComplete(e) \/ ReleaseComplete(e)
                               \/ RetryDispatch(e)
  BY Zenon, <1>1, <1>6 DEF DokanResetPendingIrpTimeout, Expire, ScanComplete,
     ReleaseComplete, RetryDispatch
<1>7. CASE ScanCollect \/ RetryMove \/ UNCHANGED vars
  BY Zenon, <1>1, <1>7 DEF ScanCollect, RetryMove, vars
<1>8. CASE ReleaseClaim \/ ReleaseMove
  BY Zenon, <1>8 DEF ReleaseClaim, ReleaseMove, Onward, IsUnmountPendingVcb
<1> QED
  BY Zenon, <1>2, <1>3, <1>4, <1>5, <1>6, <1>7, <1>8 DEF Next

\* Every request is kept by the step, or is accounted for after it.
Accounted == \A j \in Irp : Kept(j) \/ ~Orphaned(j)' \/ Excused(j)'

(* A refused registration completes the request, or drops it. *)
LEMMA RefuseAccounts ==
  ASSUME TypeOK, NEW i \in Irp, NEW s \in Status, Refuse(i, s)
  PROVE  /\ ~Orphaned(i)' \/ Excused(i)'
         /\ \A j \in Irp \ {i} : dpc'[j] = dpc[j] /\ result'[j] = result[j]
<1>1. CASE path[i] \in {"dispatch", "redispatch"}
  <2>1. Complete(i, s) /\ \A j \in Irp \ {i} : dpc'[j] = dpc[j]
    BY Zenon, <1>1 DEF Refuse, TypeOK
  <2> QED
    BY Zenon, <2>1, CompletesIt
<1>2. CASE path[i] \notin {"dispatch", "redispatch"}
  <2>1. dpc'[i] = "dropped" /\ result' = result /\ \A j \in Irp \ {i} : dpc'[j] = dpc[j]
    BY Zenon, <1>2 DEF Refuse, TypeOK, doneVars
  <2> QED
    BY Zenon, <2>1 DEF Excused
<1> QED
  BY Zenon, <1>1, <1>2

(* Dispatch steps that leave the entries alone. *)
LEMMA AccountDispatch ==
  ASSUME TypeOK, Ownership, Onward, NEW i \in Irp,
         \/ DispatchUnmounted(i) \/ DispatchToRegister(i) \/ DispatchToOplock(i)
         \/ OplockBroken(i) \/ OplockFailed(i) \/ RegisterRefused(i) \/ Notify(i)
  PROVE  Accounted
<1> USE DEF dispatchVars, irpVars, doneVars, cancelVars, libraryVars
<1>1. UNCHANGED <<entry, cpc>>
  BY Zenon DEF DispatchUnmounted, DispatchToRegister, DispatchToOplock, OplockBroken,
     OplockFailed, RegisterRefused, Notify
<1>2. ASSUME \A j \in Irp \ {i} : dpc'[j] = dpc[j] /\ result'[j] = result[j],
             Kept(i) \/ ~Orphaned(i)' \/ Excused(i)'
      PROVE  Accounted
  BY Zenon, <1>1, <1>2, UntouchedKept DEF Accounted
<1>3. CASE DispatchUnmounted(i)
  <2>1. Excused(i)'
    BY Zenon, <1>3 DEF DispatchUnmounted, Onward, Excused
  <2>2. \A j \in Irp \ {i} : dpc'[j] = dpc[j] /\ result'[j] = result[j]
    BY Zenon, <1>3 DEF DispatchUnmounted, Complete, TypeOK
  <2> QED
    BY Zenon, <1>2, <2>1, <2>2
<1>4. CASE DispatchToRegister(i) \/ DispatchToOplock(i) \/ OplockBroken(i)
  <2>1. /\ dpc'[i] \in {"register", "oplock"} /\ result' = result
        /\ \A j \in Irp \ {i} : dpc'[j] = dpc[j]
    BY Zenon, <1>4 DEF DispatchToRegister, DispatchToOplock, OplockBroken, TypeOK
  <2>2. ~Orphaned(i)'
    BY Zenon, <2>1 DEF Orphaned, InDispatch
  <2> QED
    BY Zenon, <1>2, <2>1, <2>2
<1>5. CASE OplockFailed(i)
  <2>1. \A j \in Irp \ {i} : dpc'[j] = dpc[j]
    BY Zenon, <1>5 DEF OplockFailed, TypeOK
  <2>2. CASE Kind[i] = "create"
    <3>1. dpc'[i] = "register" /\ result' = result
      BY Zenon, <1>5, <2>2 DEF OplockFailed, TypeOK
    <3>2. ~Orphaned(i)'
      BY Zenon, <3>1 DEF Orphaned, InDispatch
    <3> QED
      BY Zenon, <1>2, <2>1, <3>1, <3>2
  <2>3. CASE Kind[i] # "create"
    <3>1. Complete(i, "OPLOCK_FAILURE") /\ "OPLOCK_FAILURE" \in Status
      BY Zenon, <1>5, <2>3 DEF OplockFailed, Status
    <3> QED
      BY Zenon, <1>2, <2>1, <3>1, CompletesIt
  <2> QED
    BY Zenon, <2>2, <2>3
<1>6. CASE RegisterRefused(i)
  <2>1. PICK s \in Status : Refuse(i, s)
    BY Zenon, <1>6 DEF RegisterRefused, Status
  <2> QED
    BY Zenon, <1>2, <2>1, RefuseAccounts
<1>7. CASE Notify(i)
  <2>1. /\ result' = result /\ dpc[i] = "notify"
        /\ \A j \in Irp \ {i} : dpc'[j] = dpc[j]
    BY Zenon, <1>7 DEF Notify, TypeOK
  <2>2. Kept(i)
    BY Zenon, <1>1, <2>1 DEF Kept, InDispatch, InCancelRoutine, Completed
  <2> QED
    BY Zenon, <1>2, <2>1, <2>2
<1> QED
  BY Zenon, <1>3, <1>4, <1>5, <1>6, <1>7

(* Registration steps that work on the request's own entry. *)
LEMMA AccountRegister ==
  ASSUME TypeOK, Ownership, NEW i \in Irp,
         \/ RegisterAllocate(i) \/ RegisterUnmounted(i) \/ RegisterSetRoutine(i)
         \/ RegisterBackOut(i) \/ RegisterInsert(i)
  PROVE  Accounted
<1> USE DEF dispatchVars, irpVars, doneVars, cancelVars, libraryVars
<1>0. cpc' = cpc
  BY Zenon DEF RegisterAllocate, RegisterUnmounted, RegisterSetRoutine, RegisterBackOut,
     RegisterInsert
<1>1. ASSUME NEW e \in Entry, entry[e].irp \in {i, None},
             \A f \in Entry \ {e} : entry'[f] = entry[f],
             \A j \in Irp \ {i} : dpc'[j] = dpc[j] /\ result'[j] = result[j],
             ~Orphaned(i)' \/ Excused(i)'
      PROVE  Accounted
  <2>1. \A j \in Irp \ {i} : entry[e].irp # j
    BY Zenon, <1>1, PendingIrpAssumption
  <2>2. \A j \in Irp \ {i} : Kept(j)
    BY Zenon, <1>0, <1>1, <2>1, UntouchedKept
  <2> QED
    BY Zenon, <1>1, <2>2 DEF Accounted
<1>2. CASE RegisterAllocate(i)
  <2>1. PICK e \in Entry : entry[e].irp = None /\ \A f \in Entry \ {e} : entry'[f] = entry[f]
    BY Zenon, <1>2 DEF RegisterAllocate, TypeOK
  <2>2. /\ dpc'[i] = "allocated" /\ result' = result
        /\ \A j \in Irp \ {i} : dpc'[j] = dpc[j]
    BY Zenon, <1>2 DEF RegisterAllocate, TypeOK
  <2>3. ~Orphaned(i)'
    BY Zenon, <2>2 DEF Orphaned, InDispatch
  <2> QED
    BY Zenon, <1>1, <2>1, <2>2, <2>3
<1>3. CASE RegisterUnmounted(i) \/ RegisterSetRoutine(i) \/ RegisterBackOut(i)
           \/ RegisterInsert(i)
  <2>1. PICK e \in Entry : e = regEntry[i] /\ entry[e].irp = i
    <3>1. dpc[i] \in {"allocated", "set"}
      BY Zenon, <1>3 DEF RegisterUnmounted, RegisterSetRoutine, RegisterBackOut, RegisterInsert
    <3>2. HeldBy(i, regEntry[i])
      BY Zenon, <3>1 DEF Ownership, IrpOwnership
    <3> QED
      BY Zenon, <3>2 DEF HeldBy
  <2>2. \A f \in Entry \ {e} : entry'[f] = entry[f]
    BY ZenonT(60), <1>3, <2>1 DEF RegisterUnmounted, RegisterSetRoutine, RegisterBackOut,
       RegisterInsert, DokanFreeIrpEntry, TypeOK
  <2>3. CASE RegisterUnmounted(i) \/ RegisterBackOut(i)
    <3>1. PICK s \in Status : Refuse(i, s)
      BY Zenon, <2>3 DEF RegisterUnmounted, RegisterBackOut, Status
    <3> QED
      BY Zenon, <1>1, <2>1, <2>2, <3>1, RefuseAccounts
  <2>4. CASE RegisterSetRoutine(i)
    <3>1. /\ dpc'[i] = "set" /\ result' = result
          /\ \A j \in Irp \ {i} : dpc'[j] = dpc[j]
      BY Zenon, <2>4 DEF RegisterSetRoutine, TypeOK
    <3>2. ~Orphaned(i)'
      BY Zenon, <3>1 DEF Orphaned, InDispatch
    <3> QED
      BY Zenon, <1>1, <2>1, <2>2, <3>1, <3>2
  <2>5. CASE RegisterInsert(i)
    <3>1. /\ result' = result /\ \A j \in Irp \ {i} : dpc'[j] = dpc[j]
          /\ entry'[e] = [entry[e] EXCEPT !.at = ListOf(i)]
      BY Zenon, <2>1, <2>5 DEF RegisterInsert, TypeOK
    <3>2. entry[e] \in EntryType /\ ListOf(i) \in Lists
      BY Zenon DEF TypeOK, ListOf, Lists
    <3>3. entry'[e].irp = i /\ entry'[e].at \in Lists
      BY Zenon, <2>1, <3>1, <3>2 DEF EntryType
    <3>4. ~Orphaned(i)'
      BY Zenon, <3>3 DEF Orphaned, InList, Listed
    <3> QED
      BY Zenon, <1>1, <2>1, <2>2, <3>1, <3>4
  <2> QED
    BY Zenon, <1>3, <2>3, <2>4, <2>5
<1> QED
  BY Zenon, <1>2, <1>3

(* The I/O manager and the cancel routines. *)
LEMMA AccountCancel ==
  ASSUME TypeOK, Ownership, Armed, NEW i \in Irp, IoCancelIrp(i) \/ Cancelling(i)
  PROVE  Accounted
<1> USE DEF dispatchVars, irpVars, doneVars, cancelVars, libraryVars
<1>0. dpc' = dpc /\ \A j \in Irp \ {i} : cpc'[j] = cpc[j]
  BY Zenon DEF IoCancelIrp, Cancelling, IoCancelTake, CancelReadEntry, CreateCancelMark,
     CreateCancelForce, IrpCancelUnlink, IrpCancelComplete, TypeOK
<1>1. ASSUME \A f \in Entry : entry'[f].irp = entry[f].irp /\ entry'[f].at = entry[f].at,
             result' = result, InCancelRoutine(i) => InCancelRoutine(i)'
      PROVE  Accounted
  <2>1. Kept(i)
    BY Zenon, <1>0, <1>1 DEF Kept, InDispatch, Completed
  <2>2. \A j \in Irp \ {i} : Kept(j)
    BY Zenon, <1>0, <1>1, UntouchedKept
  <2> QED
    BY Zenon, <2>1, <2>2 DEF Accounted
<1>2. CASE IoCancelIrp(i) \/ IoCancelTake(i)
  <2>1. entry' = entry /\ result' = result /\ cpc[i] \in {"idle", "flagged"}
    BY Zenon, <1>2 DEF IoCancelIrp, IoCancelTake
  <2>2. ~InCancelRoutine(i)
    BY Zenon, <2>1 DEF InCancelRoutine
  <2> QED
    BY Zenon, <1>1, <2>1, <2>2
<1>3. CASE CancelReadEntry(i)
  <2>1. HeldBy(i, context[i])
    BY Zenon, <1>3 DEF CancelReadEntry, Ownership, IrpOwnership
  <2>2. context[i] # None
    BY Zenon, <2>1, PendingIrpAssumption DEF HeldBy
  <2>3. entry' = entry /\ result' = result /\ cpc'[i] = "holding"
    BY Zenon, <1>3, <2>2 DEF CancelReadEntry, TypeOK
  <2>4. InCancelRoutine(i) => InCancelRoutine(i)'
    BY Zenon, <2>3 DEF InCancelRoutine
  <2> QED
    BY Zenon, <1>1, <2>3, <2>4
<1>4. CASE CreateCancelMark(i) \/ CreateCancelForce(i)
  <2>1. Kind[i] = "create" /\ result' = result
    BY Zenon, <1>4 DEF CreateCancelMark, CreateCancelForce, Armed
  <2>2. \A f \in Entry : entry'[f].irp = entry[f].irp /\ entry'[f].at = entry[f].at
    BY Zenon, <1>4, CreateCancelPlaces
  <2>3. ~InCancelRoutine(i)
    BY Zenon, <2>1 DEF InCancelRoutine
  <2> QED
    BY Zenon, <1>1, <2>1, <2>2, <2>3
<1>5. CASE IrpCancelUnlink(i)
  <2>1. cpc[i] = "holding" /\ cpc'[i] = "unlinked" /\ Kind[i] # "create" /\ result' = result
    BY Zenon, <1>5 DEF IrpCancelUnlink, TypeOK
  <2>2. ~Orphaned(i)'
    BY Zenon, <2>1 DEF Orphaned, InCancelRoutine
  <2>3. HeldBy(i, holds[i])
    BY Zenon, <2>1 DEF Ownership, IrpOwnership
  <2>4. \A f \in Entry : f # holds[i] => entry'[f] = entry[f]
    BY Zenon, <1>5 DEF IrpCancelUnlink, TypeOK
  <2>5. \A j \in Irp \ {i} : Kept(j)
    BY Zenon, <1>0, <2>1, <2>3, <2>4, UntouchedKept DEF HeldBy
  <2> QED
    BY Zenon, <2>2, <2>5 DEF Accounted
<1>6. CASE IrpCancelComplete(i)
  <2>1. entry' = entry /\ Complete(i, "CANCELLED") /\ "CANCELLED" \in Status
    BY Zenon, <1>6 DEF IrpCancelComplete, Status
  <2>2. ~Orphaned(i)' /\ \A j \in Irp \ {i} : result'[j] = result[j]
    BY Zenon, <2>1, CompletesIt
  <2>3. \A j \in Irp \ {i} : Kept(j)
    BY Zenon, <1>0, <2>1, <2>2, UntouchedKept
  <2> QED
    BY Zenon, <2>2, <2>3 DEF Accounted
<1> QED
  BY Zenon, <1>2, <1>3, <1>4, <1>5, <1>6 DEF Cancelling

(* Whoever has taken a request out of its list completes it, or dispatches *)
(* it again.                                                               *)
LEMMA AccountHand ==
  ASSUME TypeOK, Ownership,
         \/ \E r \in Replier : ReplyComplete(r)
         \/ \E e \in Entry : ScanComplete(e) \/ ReleaseComplete(e) \/ RetryDispatch(e)
  PROVE  Accounted
<1> USE DEF dispatchVars, irpVars, doneVars, cancelVars, libraryVars
<1>1. PICK e \in InHand :
        /\ DokanFreeIrpEntry(e)
        /\ \/ dpc' = dpc /\ \E s \in Status : Complete(entry[e].irp, s)
           \/ result' = result /\ dpc' = [dpc EXCEPT ![entry[e].irp] = "redispatch"]
  <2>1. ASSUME NEW r \in Replier, ReplyComplete(r)
        PROVE  \E e \in InHand : /\ DokanFreeIrpEntry(e) /\ dpc' = dpc
                                 /\ \E s \in Status : Complete(entry[e].irp, s)
    <3>1. rpc[r] \in {"complete", "answer", "force"}
      BY Zenon, <2>1 DEF ReplyComplete
    <3>2. rentry[r] \in InHand
      BY Zenon, <3>1, PendingIrpAssumption DEF Ownership, InHand
    <3> QED
      BY Zenon, <2>1, <3>2 DEF ReplyComplete, Status
  <2>2. ASSUME NEW e \in Entry, ScanComplete(e) \/ ReleaseComplete(e)
        PROVE  /\ e \in InHand /\ DokanFreeIrpEntry(e) /\ dpc' = dpc
               /\ \E s \in Status : Complete(entry[e].irp, s)
    BY Zenon, <2>2 DEF ScanComplete, ReleaseComplete, InHand, Status
  <2>3. ASSUME NEW e \in Entry, RetryDispatch(e)
        PROVE  /\ e \in InHand /\ DokanFreeIrpEntry(e) /\ result' = result
               /\ dpc' = [dpc EXCEPT ![entry[e].irp] = "redispatch"]
    BY Zenon, <2>3 DEF RetryDispatch, InHand
  <2> QED
    BY Zenon, <2>1, <2>2, <2>3
<1>2. cpc' = cpc
  BY Zenon DEF ReplyComplete, ScanComplete, ReleaseComplete, RetryDispatch
<1>3. PICK i \in Irp : entry[e].irp = i
  BY Zenon, HandIsOwner
<1>4. \A f \in Entry \ {e} : entry'[f] = entry[f]
  BY ZenonT(60), <1>1 DEF DokanFreeIrpEntry, TypeOK
<1>5. ~Orphaned(i)' /\ \A j \in Irp \ {i} : dpc'[j] = dpc[j] /\ result'[j] = result[j]
  <2>1. CASE dpc' = dpc /\ \E s \in Status : Complete(i, s)
    BY Zenon, <2>1, CompletesIt
  <2>2. CASE result' = result /\ dpc' = [dpc EXCEPT ![i] = "redispatch"]
    <3>1. dpc'[i] = "redispatch" /\ \A j \in Irp \ {i} : dpc'[j] = dpc[j]
      BY Zenon, <2>2 DEF TypeOK
    <3> QED
      BY Zenon, <2>2, <3>1 DEF Orphaned, InDispatch
  <2> QED
    BY Zenon, <1>1, <1>3, <2>1, <2>2
<1>6. \A j \in Irp \ {i} : Kept(j)
  BY Zenon, <1>2, <1>3, <1>4, <1>5, UntouchedKept
<1> QED
  BY Zenon, <1>5, <1>6 DEF Accounted

(* A request taken out of its list is in the hands of the thread that took *)
(* it; or its cancel routine was called and has it: of a create, which is  *)
(* cancelled then, or of another request, which it will complete.          *)
LEMMA AccountTakeOut ==
  ASSUME TypeOK, Ownership, Reason, Armed, Onward, NEW S \in SUBSET Listed,
         NEW dest \in {"releasing", "retrying", "timedOut", "reply"},
         TakeOut(S, dest), UNCHANGED <<dpc, cpc, result>>
  PROVE  Accounted
<1>1. SUFFICES ASSUME NEW j \in Irp PROVE Kept(j) \/ ~Orphaned(j)' \/ Excused(j)'
  BY Zenon DEF Accounted
<1>2. \A f \in Entry : f \notin S => entry'[f] = entry[f]
  BY Zenon DEF TakeOut
<1>3. CASE \A e \in S : entry[e].irp # j
  BY Zenon, <1>2, <1>3, UntouchedKept
<1>4. ASSUME NEW e \in S, entry[e].irp = j PROVE ~Orphaned(j)' \/ Excused(j)'
  <2>1. e \in Entry /\ entry[e].at \in Lists /\ entry[e] \in EntryType
    BY Zenon DEF Listed, TypeOK
  <2>2. Waits(j) /\ ~entry[e].nulled
    BY Zenon, <1>4, <2>1 DEF Waits, Ownership, EntryOwnership, Lists
  <2>3. CASE LeftToRoutine(e)
    <3>1. ~routine[j]
      BY Zenon, <1>4, <2>2, <2>3 DEF LeftToRoutine
    <3>2. Taken(j)
      BY Zenon, <2>2, <3>1 DEF Armed
    <3>3. CASE Kind[j] = "create"
      <4>1. cancel'[j]
        BY Zenon, <3>2 DEF Taken, Reason, Onward
      <4> QED
        BY Zenon, <3>3, <4>1 DEF Excused
    <3>4. CASE Kind[j] # "create"
      BY Zenon, <3>2, <3>4 DEF Taken, Orphaned, InCancelRoutine
    <3> QED
      BY Zenon, <3>3, <3>4
  <2>4. CASE ~LeftToRoutine(e)
    <3>1. entry'[e] = [entry[e] EXCEPT !.at = dest]
      BY Zenon, <2>1, <2>4 DEF TakeOut
    <3>2. entry'[e].irp = j /\ entry'[e].at = dest
      BY Zenon, <1>4, <2>1, <3>1 DEF EntryType
    <3> QED
      BY Zenon, <2>1, <3>2 DEF Orphaned, InTransit, InHand
  <2> QED
    BY Zenon, <2>3, <2>4
<1> QED
  BY Zenon, <1>3, <1>4

(* All other steps. *)
LEMMA AccountOther ==
  ASSUME TypeOK, Ownership, Reason, Armed, Onward,
         \/ \E r \in Replier : \/ ReplyStart(r) \/ ReplyNoMatch(r) \/ ReplyTake(r)
                              \/ ReplyAbandon(r) \/ ReplyAccept(r)
         \/ \E s \in events : DokanResetPendingIrpTimeout(s)
         \/ \E e \in Entry : Expire(e)
         \/ ScanCollect \/ ReleaseMove \/ RetryMove \/ ReleaseClaim
         \/ UNCHANGED vars
  PROVE  Accounted
<1> USE DEF dispatchVars, irpVars, doneVars, cancelVars, libraryVars
<1>1. UNCHANGED <<dpc, cpc, result>>
  BY Zenon DEF ReplyStart, ReplyNoMatch, ReplyTake, ReplyAbandon, ReplyAccept,
     DokanResetPendingIrpTimeout, Expire, ScanCollect, ReleaseMove, RetryMove, ReleaseClaim,
     vars
<1>2. CASE ScanCollect \/ ReleaseMove \/ RetryMove \/ \E r \in Replier : ReplyTake(r)
  <2>1. \E S \in SUBSET Listed, dest \in {"releasing", "retrying", "timedOut", "reply"} :
          TakeOut(S, dest)
    BY Zenon, <1>2, CollectsListed
  <2> QED
    BY Zenon, <1>1, <2>1, AccountTakeOut
<1>3. ASSUME NEW r \in Replier, ReplyAbandon(r) PROVE Accounted
  BY Zenon, <1>3 DEF ReplyAbandon, Onward, Accounted, Excused
<1>4. CASE \/ \E r \in Replier : ReplyStart(r) \/ ReplyNoMatch(r) \/ ReplyAccept(r)
           \/ \E s \in events : DokanResetPendingIrpTimeout(s)
           \/ \E e \in Entry : Expire(e)
           \/ ReleaseClaim
           \/ UNCHANGED vars
  <2>1. \A f \in Entry : entry'[f].irp = entry[f].irp /\ entry'[f].at = entry[f].at
    BY Zenon, <1>4, OtherPlaces
  <2>2. \A j \in Irp : Kept(j)
    BY Zenon, <1>1, <2>1, UntouchedKept
  <2> QED
    BY Zenon, <2>2 DEF Accounted
<1> QED
  BY Zenon, <1>2, <1>3, <1>4

(* As long as the volume stays mounted a request is never left without     *)
(* anybody who will complete it, except a create that was cancelled and a  *)
(* request whose registration after an oplock break was refused; however   *)
(* registration, reply, scanner, cancel routines and retry interleave.     *)
THEOREM NobodyLosesARequest == Spec => []OrphanedOnlyThen
<1>1. Init => OrphanedOnlyThen
  BY Zenon DEF Init, OrphanedOnlyThen, Orphaned, InDispatch
<1>2. TypeOK /\ Ownership /\ Reason /\ Armed /\ OrphanedOnlyThen /\ [Next]_vars
        => OrphanedOnlyThen'
  <2> SUFFICES ASSUME TypeOK, Ownership, Reason, Armed, OrphanedOnlyThen, [Next]_vars
               PROVE  OrphanedOnlyThen'
    BY Zenon
  <2>1. Onward
    BY Zenon, StepsOnward
  <2>2. Accounted
    <3>1. ASSUME NEW i \in Irp, Dispatching(i) PROVE Accounted
      BY Zenon, <2>1, <3>1, AccountDispatch, AccountRegister DEF Dispatching
    <3>2. ASSUME NEW i \in Irp, IoCancelIrp(i) \/ Cancelling(i) PROVE Accounted
      BY Zenon, <3>2, AccountCancel
    <3>3. ASSUME NEW r \in Replier, ReplyStart(r) \/ Replying(r) PROVE Accounted
      BY Zenon, <2>1, <3>3, AccountOther, AccountHand DEF Replying
    <3>4. CASE \E s \in events : DokanResetPendingIrpTimeout(s)
      BY Zenon, <2>1, <3>4, AccountOther
    <3>5. ASSUME NEW e \in Entry,
                 Expire(e) \/ ScanComplete(e) \/ ReleaseComplete(e) \/ RetryDispatch(e)
          PROVE  Accounted
      BY Zenon, <2>1, <3>5, AccountOther, AccountHand
    <3>6. CASE ScanCollect \/ ReleaseClaim \/ ReleaseMove \/ RetryMove \/ UNCHANGED vars
      BY Zenon, <2>1, <3>6, AccountOther
    <3> QED
      BY Zenon, <3>1, <3>2, <3>3, <3>4, <3>5, <3>6 DEF Next
  <2>3. \A i \in Irp : Orphaned(i)' => Excused(i)'
    BY Zenon, <2>1, <2>2, KeptStays DEF Accounted
  <2> QED
    BY Zenon, <2>3 DEF OrphanedOnlyThen, Excused
<1> QED
  BY <1>1, <1>2, TypeCorrect, OwnershipInvariant, ReasonInvariant, ArmedInvariant, PTL DEF Spec
-----------------------------------------------------------------------------
\* The file object has what it should of IRP i.
HasEffect(i) ==
  (Completed(i) /\ Kind[i] # "other" /\ settled[i] = 0)
    => IsUnmountPendingVcb \/ (Kind[i] = "cleanup" /\ dpc[i] = "failed")

(* A step that neither completes IRP i nor takes its failure back. *)
LEMMA EffectKept ==
  ASSUME SettledUnlessUnmounted, Onward, NEW i \in Irp, result'[i] = result[i],
         settled'[i] = settled[i], dpc[i] = "failed" => dpc'[i] = "failed"
  PROVE  HasEffect(i)'
<1>1. HasEffect(i)
  BY Zenon DEF SettledUnlessUnmounted, HasEffect
<1> QED
  BY Zenon, <1>1 DEF HasEffect, Onward, Completed

(* Settling counts, for the request and for no other. *)
LEMMA SettleCounts ==
  ASSUME TypeOK, NEW i \in Irp, NEW kinds, SettleIf(i, kinds)
  PROVE  /\ Kind[i] \in kinds => settled'[i] # 0
         /\ \A j \in Irp \ {i} : settled'[j] = settled[j]
<1>1. settled[i] \in Nat /\ settled \in [Irp -> Nat]
  BY Zenon DEF TypeOK
<1>2. CASE Kind[i] \in kinds
  <2>1. settled' = [settled EXCEPT ![i] = settled[i] + 1]
    BY Zenon, <1>2 DEF SettleIf, Settle
  <2>2. settled'[i] = settled[i] + 1 /\ \A j \in Irp \ {i} : settled'[j] = settled[j]
    BY Zenon, <1>1, <2>1
  <2>3. settled'[i] # 0
    BY SMT, <1>1, <2>2
  <2> QED
    BY Zenon, <2>2, <2>3
<1>3. CASE Kind[i] \notin kinds
  BY Zenon, <1>3 DEF SettleIf
<1> QED
  BY Zenon, <1>2, <1>3

(* The completion of one request. *)
LEMMA EffectCompleted ==
  ASSUME TypeOK, SettledUnlessUnmounted, Onward, NEW i \in Irp, NEW s, Complete(i, s),
         \A j \in Irp \ {i} : dpc'[j] = dpc[j],
         NEW kinds, SettleIf(i, kinds),
         \/ Kind[i] \in kinds \/ Kind[i] = "other" \/ IsUnmountPendingVcb
         \/ Kind[i] = "cleanup" /\ dpc'[i] = "failed"
  PROVE  \A j \in Irp : HasEffect(j)'
<1>1. \A j \in Irp \ {i} : result'[j] = result[j]
  BY Zenon DEF Complete, TypeOK
<1>2. /\ Kind[i] \in kinds => settled'[i] # 0
      /\ \A j \in Irp \ {i} : settled'[j] = settled[j]
  BY Zenon, SettleCounts
<1>3. \A j \in Irp \ {i} : HasEffect(j)'
  BY Zenon, <1>1, <1>2, EffectKept
<1>4. HasEffect(i)'
  BY Zenon, <1>2 DEF HasEffect, Onward
<1> QED
  BY Zenon, <1>3, <1>4

(* The dispatch gives up, or the registration is refused. *)
LEMMA EffectRefused ==
  ASSUME TypeOK, Reason, SettledUnlessUnmounted, Onward, NEW i \in Irp,
         \/ DispatchUnmounted(i) \/ OplockFailed(i) \/ RegisterRefused(i)
         \/ RegisterUnmounted(i) \/ RegisterBackOut(i)
  PROVE  \A j \in Irp : HasEffect(j)'
<1> USE DEF dispatchVars, irpVars, doneVars, cancelVars, libraryVars
<1>1. CASE DispatchUnmounted(i)
  BY Zenon, <1>1 DEF DispatchUnmounted, HasEffect, Onward
<1>2. CASE OplockFailed(i)
  <2>0. dpc[i] = "oplock" /\ \A j \in Irp \ {i} : dpc'[j] = dpc[j]
    BY Zenon, <1>2 DEF OplockFailed, TypeOK
  <2>1. CASE Kind[i] = "create"
    <3>1. UNCHANGED <<result, settled>>
      BY Zenon, <1>2, <2>1 DEF OplockFailed
    <3> QED
      BY Zenon, <2>0, <3>1, EffectKept
  <2>2. CASE Kind[i] # "create"
    <3>1. Kind[i] = "other"
      BY Zenon, <2>0, <2>2, PendingIrpAssumption DEF Reason, Kinds
    <3>2. Complete(i, "OPLOCK_FAILURE") /\ SettleIf(i, {})
      BY Zenon, <1>2, <2>2 DEF OplockFailed, SettleIf
    <3> QED
      BY Zenon, <2>0, <3>1, <3>2, EffectCompleted
  <2> QED
    BY Zenon, <2>1, <2>2
<1>3. CASE RegisterRefused(i) \/ RegisterUnmounted(i) \/ RegisterBackOut(i)
  <2>1. PICK s \in Status : Refuse(i, s)
    BY Zenon, <1>3 DEF RegisterRefused, RegisterUnmounted, RegisterBackOut, Status
  <2>2. dpc[i] # "failed" /\ \A j \in Irp \ {i} : dpc'[j] = dpc[j]
    <3>1. dpc[i] \in {"register", "allocated", "set"}
      BY Zenon, <1>3 DEF RegisterRefused, RegisterUnmounted, RegisterBackOut
    <3> QED
      BY Zenon, <2>1, <3>1 DEF Refuse, TypeOK
  <2>3. CASE UNCHANGED <<result, settled>>
    BY Zenon, <2>2, <2>3, EffectKept
  <2>4. CASE Complete(i, s) /\ SettleIf(i, {"create"}) /\ dpc'[i] = "failed"
    <3>1. Kind[i] \in {"create"} \/ Kind[i] = "other" \/ Kind[i] = "cleanup"
      BY Zenon, PendingIrpAssumption DEF Kinds
    <3> QED
      BY Zenon, <2>2, <2>4, <3>1, EffectCompleted
  <2> QED
    BY Zenon, <2>1, <2>3, <2>4 DEF Refuse, TypeOK
<1> QED
  BY Zenon, <1>1, <1>2, <1>3

(* The cancel routine, the reply, the scanner and the unmount. *)
LEMMA EffectOfOwners ==
  ASSUME TypeOK, Ownership, Reason, Armed, SettledUnlessUnmounted, Onward,
         \/ \E i \in Irp : IrpCancelComplete(i)
         \/ \E r \in Replier : ReplyComplete(r)
         \/ \E e \in Entry : ScanComplete(e) \/ ReleaseComplete(e)
  PROVE  \A j \in Irp : HasEffect(j)'
<1> USE DEF dispatchVars, irpVars, doneVars, cancelVars, libraryVars
<1>0. \A i \in Irp : Kind[i] \in {"create", "cleanup"} \/ Kind[i] = "other"
  BY Zenon, PendingIrpAssumption DEF Kinds
<1>1. dpc' = dpc
  BY Zenon DEF IrpCancelComplete, ReplyComplete, ScanComplete, ReleaseComplete
<1>2. ASSUME NEW i \in Irp, IrpCancelComplete(i) PROVE \A j \in Irp : HasEffect(j)'
  <2>1. cpc[i] = "unlinked"
    BY Zenon, <1>2 DEF IrpCancelComplete, Ownership, IrpOwnership
  <2>2. Kind[i] \in {"cleanup"} \/ Kind[i] = "other"
    BY Zenon, <1>0, <2>1 DEF Armed
  <2>3. Complete(i, "CANCELLED") /\ SettleIf(i, {"cleanup"})
    BY Zenon, <1>2, <2>1 DEF IrpCancelComplete
  <2> QED
    BY Zenon, <1>1, <2>2, <2>3, EffectCompleted
<1>3. ASSUME NEW e \in InHand, NEW s, Complete(entry[e].irp, s),
             SettleIf(entry[e].irp, {"create", "cleanup"})
      PROVE  \A j \in Irp : HasEffect(j)'
  <2>1. PICK i \in Irp : entry[e].irp = i
    BY Zenon, HandIsOwner
  <2> QED
    BY Zenon, <1>0, <1>1, <1>3, <2>1, EffectCompleted
<1>4. ASSUME NEW r \in Replier, ReplyComplete(r) PROVE \A j \in Irp : HasEffect(j)'
  <2>1. rpc[r] \in {"complete", "answer", "force"}
    BY Zenon, <1>4 DEF ReplyComplete
  <2>2. rentry[r] \in InHand
    BY Zenon, <2>1, PendingIrpAssumption DEF Ownership, InHand
  <2>3. \E s : /\ Complete(entry[rentry[r]].irp, s)
               /\ SettleIf(entry[rentry[r]].irp, {"create", "cleanup"})
    BY Zenon, <1>4 DEF ReplyComplete
  <2> QED
    BY Zenon, <1>3, <2>2, <2>3
<1>5. ASSUME NEW e \in Entry, ScanComplete(e) PROVE \A j \in Irp : HasEffect(j)'
  <2>1. e \in InHand
    BY Zenon, <1>5 DEF ScanComplete, InHand
  <2>2. \E s : Complete(entry[e].irp, s) /\ SettleIf(entry[e].irp, {"create", "cleanup"})
    BY Zenon, <1>5 DEF ScanComplete
  <2> QED
    BY Zenon, <1>3, <2>1, <2>2
<1>6. ASSUME NEW e \in Entry, ReleaseComplete(e) PROVE \A j \in Irp : HasEffect(j)'
  <2>1. IsUnmountPendingVcb
    BY Zenon, <1>6 DEF ReleaseComplete, Reason
  <2> QED
    BY Zenon, <2>1 DEF Onward, HasEffect
<1> QED
  BY Zenon, <1>2, <1>4, <1>5, <1>6

(* The steps that complete nothing. *)
LEMMA EffectElsewhere ==
  ASSUME TypeOK, Ownership, SettledUnlessUnmounted, Onward,
         \/ \E i \in Irp :
              \/ DispatchToRegister(i) \/ DispatchToOplock(i) \/ OplockBroken(i)
              \/ RegisterAllocate(i) \/ RegisterSetRoutine(i) \/ RegisterInsert(i)
              \/ Notify(i) \/ IoCancelIrp(i) \/ IoCancelTake(i) \/ CancelReadEntry(i)
              \/ CreateCancelMark(i) \/ CreateCancelForce(i) \/ IrpCancelUnlink(i)
         \/ \E r \in Replier :
              \/ ReplyStart(r) \/ ReplyNoMatch(r) \/ ReplyTake(r)
              \/ ReplyAbandon(r) \/ ReplyAccept(r)
         \/ \E s \in events : DokanResetPendingIrpTimeout(s)
         \/ \E e \in Entry : Expire(e) \/ RetryDispatch(e)
         \/ ScanCollect \/ ReleaseClaim \/ ReleaseMove \/ RetryMove
         \/ UNCHANGED vars
  PROVE  \A j \in Irp : HasEffect(j)'
<1> USE DEF dispatchVars, irpVars, doneVars, cancelVars, libraryVars
<1>1. ASSUME UNCHANGED <<result, settled>>, \A j \in Irp : dpc[j] = "failed" => dpc'[j] = "failed"
      PROVE  \A j \in Irp : HasEffect(j)'
  BY Zenon, <1>1, EffectKept
<1>2. ASSUME NEW i \in Irp,
             \/ DispatchToRegister(i) \/ DispatchToOplock(i) \/ OplockBroken(i)
             \/ RegisterAllocate(i) \/ RegisterSetRoutine(i) \/ RegisterInsert(i)
             \/ Notify(i)
      PROVE  \A j \in Irp : HasEffect(j)'
  <2>1. /\ UNCHANGED <<result, settled>>
        /\ dpc[i] \in {"new", "redispatch", "oplock", "register", "allocated", "set", "notify"}
        /\ \A j \in Irp \ {i} : dpc'[j] = dpc[j]
    BY Zenon, <1>2 DEF DispatchToRegister, DispatchToOplock, OplockBroken, RegisterAllocate,
       RegisterSetRoutine, RegisterInsert, Notify, TypeOK
  <2> QED
    BY Zenon, <1>1, <2>1
<1>3. ASSUME NEW e \in Entry, RetryDispatch(e) PROVE \A j \in Irp : HasEffect(j)'
  <2>1. e \in InHand
    BY Zenon, <1>3 DEF RetryDispatch, InHand
  <2>2. PICK i \in Irp : entry[e].irp = i
    BY Zenon, <2>1, HandIsOwner
  <2>3. dpc[i] \in {"notify", "pended"}
    BY Zenon, <2>1, <2>2 DEF Ownership, EntryOwnership, Registered, InHand
  <2>4. UNCHANGED <<result, settled>> /\ \A j \in Irp \ {i} : dpc'[j] = dpc[j]
    BY Zenon, <1>3, <2>2 DEF RetryDispatch, TypeOK
  <2> QED
    BY Zenon, <1>1, <2>3, <2>4
<1>4. CASE \E i \in Irp : \/ IoCancelIrp(i) \/ IoCancelTake(i) \/ CancelReadEntry(i)
                          \/ CreateCancelMark(i) \/ CreateCancelForce(i) \/ IrpCancelUnlink(i)
  <2>1. UNCHANGED <<result, settled, dpc>>
    BY Zenon, <1>4 DEF IoCancelIrp, IoCancelTake, CancelReadEntry, CreateCancelMark,
       CreateCancelForce, IrpCancelUnlink
  <2> QED
    BY Zenon, <1>1, <2>1
<1>5. CASE \/ \E r \in Replier :
                \/ ReplyStart(r) \/ ReplyNoMatch(r) \/ ReplyTake(r)
                \/ ReplyAbandon(r) \/ ReplyAccept(r)
           \/ \E s \in events : DokanResetPendingIrpTimeout(s)
           \/ \E e \in Entry : Expire(e)
  <2>1. UNCHANGED <<result, settled, dpc>>
    BY Zenon, <1>5 DEF ReplyStart, ReplyNoMatch, ReplyTake, ReplyAbandon, ReplyAccept,
       DokanResetPendingIrpTimeout, Expire
  <2> QED
    BY Zenon, <1>1, <2>1
<1>6. CASE ScanCollect \/ ReleaseClaim \/ ReleaseMove \/ RetryMove \/ UNCHANGED vars
  <2>1. UNCHANGED <<result, settled, dpc>>
    BY Zenon, <1>6 DEF ScanCollect, ReleaseClaim, ReleaseMove, RetryMove, vars
  <2> QED
    BY Zenon, <1>1, <2>1
<1> QED
  BY Zenon, <1>2, <1>3, <1>4, <1>5, <1>6

(* While the volume stays mounted no completion forgets the file object:   *)
(* a completed create was completed or backed out, and a completed cleanup *)
(* executed, unless its registration was refused.                          *)
THEOREM EffectIsSettled == Spec => []SettledUnlessUnmounted
<1>1. Init => SettledUnlessUnmounted
  BY ZenonT(60) DEF Init, SettledUnlessUnmounted, Completed
<1>2. TypeOK /\ Ownership /\ Reason /\ Armed /\ SettledUnlessUnmounted /\ [Next]_vars
        => SettledUnlessUnmounted'
  <2> SUFFICES ASSUME TypeOK, Ownership, Reason, Armed, SettledUnlessUnmounted, [Next]_vars
               PROVE  SettledUnlessUnmounted'
    BY Zenon
  <2>1. Onward
    BY Zenon, StepsOnward
  <2>2. \A j \in Irp : HasEffect(j)'
    <3>1. ASSUME NEW i \in Irp, Dispatching(i) PROVE \A j \in Irp : HasEffect(j)'
      BY Zenon, <2>1, <3>1, EffectRefused, EffectElsewhere DEF Dispatching
    <3>2. ASSUME NEW i \in Irp, IoCancelIrp(i) \/ Cancelling(i)
          PROVE  \A j \in Irp : HasEffect(j)'
      BY Zenon, <2>1, <3>2, EffectOfOwners, EffectElsewhere DEF Cancelling
    <3>3. ASSUME NEW r \in Replier, ReplyStart(r) \/ Replying(r)
          PROVE  \A j \in Irp : HasEffect(j)'
      BY Zenon, <2>1, <3>3, EffectOfOwners, EffectElsewhere DEF Replying
    <3>4. CASE \E s \in events : DokanResetPendingIrpTimeout(s)
      BY Zenon, <2>1, <3>4, EffectElsewhere
    <3>5. ASSUME NEW e \in Entry,
                 Expire(e) \/ ScanComplete(e) \/ ReleaseComplete(e) \/ RetryDispatch(e)
          PROVE  \A j \in Irp : HasEffect(j)'
      BY Zenon, <2>1, <3>5, EffectOfOwners, EffectElsewhere
    <3>6. CASE ScanCollect \/ ReleaseClaim \/ ReleaseMove \/ RetryMove \/ UNCHANGED vars
      BY Zenon, <2>1, <3>6, EffectElsewhere
    <3> QED
      BY Zenon, <3>1, <3>2, <3>3, <3>4, <3>5, <3>6 DEF Next
  <2> QED
    BY Zenon, <2>2 DEF SettledUnlessUnmounted, HasEffect
<1> QED
  BY <1>1, <1>2, TypeCorrect, OwnershipInvariant, ReasonInvariant, ArmedInvariant, PTL DEF Spec
=============================================================================
