------------------------- MODULE FileHandlesTables -------------------------
(***************************************************************************)
(* More of FileHandles proved, on the references of FileHandlesProofs: the *)
(* CCB list and the UncleanCount of an FCB, the wake-up of the garbage     *)
(* collector and the table of FCBs.                                        *)
(***************************************************************************)
EXTENDS FileHandlesProofs

-----------------------------------------------------------------------------
(* What an FCB says of its file objects: CCBs, unclean count, share access.  *)

\* The FCB is new or freed, and nobody refers to it.
Fresh(f) ==
  /\ At(f, Referencing) = {}
  /\ fcb'[f].ccbs = {} /\ fcb'[f].share = NoShare /\ fcb'[f].UncleanCount = 0

\* A step outside the life of the CCBs.
Quiet ==
  /\ \A f \in Fcb : SameUse(f) \/ Fresh(f)
  /\ \A f \in Fcb : \A S \in SUBSET WithCcb : At(f, S)' = At(f, S)

(* An FCB that is freed had no reference, so it comes back empty.          *)
LEMMA FreesFresh ==
  ASSUME RefInv, NEW f \in Fcb, Frees(f)
  PROVE  Fresh(f)
<1>1. Cardinality(At(f, Referencing)) = 0
  BY DEF Frees, RefInv, OpenCountExact
<1>2. At(f, Referencing) = {}
  BY <1>1, AtFinite
<1> QED
  BY <1>2 DEF Frees, Fresh, FreedFcb

(* DokanGetFCB leaves the lists and counters of referenced FCBs alone.     *)
LEMMA GetQuiet ==
  ASSUME RefInv, NEW h \in Handle, handle[h].pc = "entered", NEW n \in Name,
         NEW fs \in [Fcb -> FcbType], Fits(fs), NEW table \in [Name -> Fcb \cup {None}],
         \A x \in Fcb : fs[x] = fcb[x] \/ (fs[x] = FreedFcb /\ fcb[x].OpenCount = 0),
         GetOrCreate(h, n, fs, table)
  PROVE  Quiet
<1>. handle \in [Handle -> HandleType]
  BY DEF RefInv, TypeOK
<1>1. PICK f \in Fcb : Got(h, n, fs, table, f)
  BY GetEffect
<1>2. ASSUME NEW x \in Fcb, fs[x] = FreedFcb, fcb[x].OpenCount = 0
      PROVE  At(x, Referencing) = {}
  BY <1>2, AtFinite DEF RefInv, OpenCountExact
<1>3. ASSUME NEW x \in Fcb \ {f} PROVE SameUse(x) \/ Fresh(x)
  <2>1. fcb'[x] = fs[x]
    BY <1>1 DEF Got
  <2> QED
    BY <1>2, <2>1 DEF SameUse, Fresh, FreedFcb
<1>4. SameUse(f) \/ Fresh(f)
  <2>1. CASE fs[f].live
    <3>1. fs[f] = fcb[f]
      BY <2>1 DEF FreedFcb
    <3> QED
      BY <1>1, <2>1, <3>1 DEF Got, SameUse
  <2>2. CASE ~fs[f].live
    <3>1. At(f, Referencing) = {}
      BY <2>2 DEF Fits
    <3> QED
      BY <1>1, <2>2, <3>1 DEF Got, Fresh
  <2> QED
    BY <2>1, <2>2
<1>5. ASSUME NEW x \in Fcb, NEW S \in SUBSET WithCcb PROVE At(x, S)' = At(x, S)
  <2>1. OthersSame(h) /\ handle'[h].pc = "got"
    BY <1>1 DEF Got
  <2>2. handle[h].pc \notin S /\ handle'[h].pc \notin S
    BY <2>1 DEF WithCcb, Opened
  <2> QED
    BY <2>1, <2>2, AtSame
<1> QED
  BY <1>3, <1>4, <1>5 DEF Quiet

(* So do these steps.                                                      *)
LEMMA QuietSteps ==
  ASSUME RefInv
  PROVE  /\ Collector \/ Unmount \/ UNCHANGED vars => Quiet
         /\ \A h \in Handle :
              \/ DispatchCreate(h) \/ CreateFails(h)
              \/ \E n \in Name : DokanGetFCB(h, n) \/ GetFcbForced(h, n) \/ DokanRenameFcb(h, n)
              \/ DokanFreeFCB(h) \/ FreeLast(h)
              => Quiet
<1>1. ASSUME Collector \/ Unmount \/ UNCHANGED vars PROVE Quiet
  <2>1. UNCHANGED handle /\ \A x \in Fcb : SameUse(x) \/ Frees(x)
    BY <1>1, CollectorActs
  <2> QED
    BY <2>1, FreesFresh DEF Quiet, At
<1>2. ASSUME NEW h \in Handle, OthersSame(h), \A x \in Fcb : SameUse(x) \/ Frees(x),
             \/ handle[h].pc \notin WithCcb /\ handle'[h].pc \notin WithCcb
             \/ handle'[h].pc = handle[h].pc /\ handle'[h].fcb = handle[h].fcb
      PROVE  Quiet
  <2>1. ASSUME NEW f \in Fcb, NEW S \in SUBSET WithCcb PROVE At(f, S)' = At(f, S)
    BY <1>2, AtSame
  <2> QED
    BY <1>2, <2>1, FreesFresh DEF Quiet
<1>3. ASSUME NEW h \in Handle, DispatchCreate(h) \/ CreateFails(h) PROVE Quiet
  <2>1. UNCHANGED fcb /\ OthersSame(h)
    BY <1>3 DEF DispatchCreate, CreateFails, OthersSame, RefInv, TypeOK
  <2>2. handle[h] \in HandleType
    BY DEF RefInv, TypeOK
  <2>3. handle[h].pc \in {"none", "entered"} /\ handle'[h].pc \in {"none", "entered"}
    BY <1>3, <2>2 DEF DispatchCreate, CreateFails, NoHandle, RefInv, TypeOK, HandleType
  <2> QED
    BY <1>2, <2>1, <2>3 DEF WithCcb, Opened, SameUse
<1>4. ASSUME NEW h \in Handle, NEW n \in Name, DokanGetFCB(h, n) PROVE Quiet
  <2>1. /\ handle[h].pc = "entered" /\ GetOrCreate(h, n, fcb, FcbTable) /\ Fits(fcb)
        /\ fcb \in [Fcb -> FcbType] /\ FcbTable \in [Name -> Fcb \cup {None}]
    BY <1>4, RefInvFits DEF DokanGetFCB, RefInv, TypeOK
  <2> QED
    BY <2>1, GetQuiet
<1>5. ASSUME NEW h \in Handle, NEW n \in Name, GetFcbForced(h, n) PROVE Quiet
  <2>1. handle[h].pc = "entered"
    BY <1>5 DEF GetFcbForced
  <2>2. \A x \in Fcb : Deleted(Garbage)[x] = fcb[x]
                       \/ (Deleted(Garbage)[x] = FreedFcb /\ fcb[x].OpenCount = 0)
    BY DEF Deleted, RefInv, GarbageUnused
  <2>3. CASE GetOrCreate(h, n, Deleted(Garbage), WithoutNamesOf(Garbage))
    BY <2>1, <2>2, <2>3, ForcedFits, GetQuiet
  <2>4. CASE fcb' = Deleted(Garbage) /\ handle' = [handle EXCEPT ![h] = NoHandle]
    <3>1. OthersSame(h) /\ handle'[h] = NoHandle
      BY <2>4 DEF OthersSame, RefInv, TypeOK
    <3>2. handle[h].pc \notin WithCcb /\ handle'[h].pc \notin WithCcb
      BY <2>1, <3>1 DEF NoHandle, WithCcb, Opened
    <3> QED
      BY <1>2, <2>2, <2>4, <3>1, <3>2 DEF SameUse, Frees
  <2> QED
    BY <1>5, <2>3, <2>4 DEF GetFcbForced
<1>6. ASSUME NEW h \in Handle, NEW n \in Name, DokanRenameFcb(h, n) PROVE Quiet
  BY <1>2, <1>6, RenameActs
<1>7. ASSUME NEW h \in Handle, DokanFreeFCB(h) PROVE Quiet
  <2>1. TypeOK' /\ HandlesPoint'
    BY <1>7, TypeStep, HandlesPointStep DEF Next, Close
  <2>2. /\ OthersSame(h) /\ handle'[h].pc \in {"none", "last"}
        /\ \A x \in Fcb : SameUse(x)
    BY <1>7, <2>1, FreeRefs DEF SameUse
  <2>3. handle[h].pc = "release"
    BY <1>7 DEF DokanFreeFCB
  <2> QED
    BY <1>2, <2>2, <2>3 DEF WithCcb, Opened
<1>8. ASSUME NEW h \in Handle, FreeLast(h) PROVE Quiet
  BY <1>2, <1>8, FreeLastActs DEF Referencing
<1> QED
  BY <1>1, <1>3, <1>4, <1>5, <1>6, <1>7, <1>8

(* A quiet step keeps the CCB lists exact.                                 *)
LEMMA QuietCcbs ==
  ASSUME CcbsExact, Quiet
  PROVE  CcbsExact'
<1> SUFFICES ASSUME NEW f \in Fcb PROVE fcb'[f].ccbs = At(f, WithCcb)'
  BY DEF CcbsExact
<1>1. At(f, WithCcb)' = At(f, WithCcb)
  BY DEF Quiet
<1>2. CASE SameUse(f)
  BY <1>1, <1>2 DEF SameUse, CcbsExact
<1>3. CASE Fresh(f)
  <2>1. At(f, WithCcb) = {}
    BY <1>3 DEF Fresh, At, Referencing
  <2> QED
    BY <1>1, <1>3, <2>1 DEF Fresh
<1> QED
  BY <1>2, <1>3 DEF Quiet

(* So does a step that inserts or removes the CCB of the one who moves.    *)
LEMMA ActsCcbs ==
  ASSUME RefInv, CcbsExact, NEW h \in Handle, NEW pc, NEW ccbs, NEW unclean, NEW share,
         Acts(h, pc, ccbs, unclean, share),
         pc \in WithCcb => ccbs = fcb[handle[h].fcb].ccbs \cup {h},
         pc \notin WithCcb => ccbs = fcb[handle[h].fcb].ccbs \ {h}
  PROVE  CcbsExact'
<1>. PICK f \in Fcb : f = handle[h].fcb
  BY Held DEF RefInv, Acts
<1>1. OthersSame(h) /\ handle'[h].pc = pc /\ handle'[h].fcb = f /\ fcb'[f].ccbs = ccbs
  BY DEF Acts
<1>2. fcb'[f].ccbs = At(f, WithCcb)'
  <2>1. fcb[f].ccbs = At(f, WithCcb)
    BY DEF CcbsExact
  <2>2. CASE pc \in WithCcb
    <3>1. At(f, WithCcb)' = At(f, WithCcb) \cup {h}
      BY <1>1, <2>2, AtMoves
    <3> QED
      BY <1>1, <2>1, <2>2, <3>1
  <2>3. CASE pc \notin WithCcb
    <3>1. At(f, WithCcb)' = At(f, WithCcb) \ {h}
      BY <1>1, <2>3, AtMoves
    <3> QED
      BY <1>1, <2>1, <2>3, <3>1
  <2> QED
    BY <2>2, <2>3
<1>3. ASSUME NEW x \in Fcb \ {f} PROVE fcb'[x].ccbs = At(x, WithCcb)'
  <2>1. fcb'[x] = fcb[x]
    BY DEF Acts
  <2>2. At(x, WithCcb)' = At(x, WithCcb)
    BY <1>1, AtSame
  <2> QED
    BY <2>1, <2>2 DEF CcbsExact
<1> QED
  BY <1>2, <1>3 DEF CcbsExact

(* Every step keeps the CCB lists exact.                                   *)
LEMMA CcbsStep ==
  ASSUME RefInv, CcbsExact, [Next]_vars
  PROVE  CcbsExact'
<1>1. CASE Quiet
  BY <1>1, QuietCcbs
<1>2. ASSUME NEW h \in Handle, NEW pc, OnlyMoves(h, pc),
             pc \in WithCcb <=> handle[h].pc \in WithCcb
      PROVE  CcbsExact'
  <2> DEFINE f == handle[h].fcb
  <2>1. f \in Fcb
    BY <1>2, Held DEF RefInv, OnlyMoves, Acts
  <2>2. h \in fcb[f].ccbs <=> handle[h].pc \in WithCcb
    BY <2>1 DEF CcbsExact, At
  <2>3. /\ pc \in WithCcb => fcb[f].ccbs = fcb[f].ccbs \cup {h}
        /\ pc \notin WithCcb => fcb[f].ccbs = fcb[f].ccbs \ {h}
    BY <1>2, <2>2
  <2> QED
    BY <1>2, <2>3, ActsCcbs DEF OnlyMoves
<1>3. ASSUME NEW h \in Handle, Create(h), ~Quiet PROVE CcbsExact'
  <2>1. CASE CreateDenied(h) \/ CreateUnwound(h)
    BY <2>1, CreateActs, ActsCcbs DEF WithCcb, Opened
  <2>2. CASE CreateBreaksHandles(h) \/ CreateBreaksOplock(h) \/ CreateSent(h)
    BY <2>2, CreateActs, ActsCcbs DEF WithCcb
  <2>3. CASE CreateRefused(h) \/ CreateRetried(h) \/ CreateRetryFails(h) \/ CreateDropped(h)
    BY <1>2, <2>3, CreateActs DEF CreateRefused, CreateRetried, CreateRetryFails,
       CreateDropped, WithCcb, Opened
  <2>4. CASE BreakFailed(h) \/ DokanCompleteCreate(h)
    <3> DEFINE f == handle[h].fcb
    <3>1. CASE BreakFailed(h) \/ CompleteCreateFailed(h)
      BY <2>4, <3>1, CompleteCreateActs, ActsCcbs DEF WithCcb, Opened
    <3>2. CASE DokanCompleteCreate(h) /\ ~CompleteCreateFailed(h)
      <4>1. Acts(h, "open", fcb[f].ccbs, fcb[f].UncleanCount + 1, fcb[f].share)
        BY <3>2, CompleteCreateActs
      <4>2. f \in Fcb /\ handle[h].pc = "pending"
        BY <3>2, <4>1, Held DEF RefInv, Acts, DokanCompleteCreate
      <4>3. h \in fcb[f].ccbs
        BY <4>2 DEF CcbsExact, At, WithCcb
      <4>4. fcb[f].ccbs = fcb[f].ccbs \cup {h} /\ "open" \in WithCcb
        BY <4>3 DEF WithCcb, Opened
      <4> QED
        BY <4>1, <4>4, ActsCcbs
    <3> QED
      BY <2>4, <3>1, <3>2
  <2> QED
    BY <1>3, <2>1, <2>2, <2>3, <2>4, QuietSteps DEF Create
<1>4. ASSUME NEW h \in Handle, SetInformation(h), ~Quiet PROVE CcbsExact'
  <2>1. OnlyMoves(h, handle[h].pc)
    BY <1>4, DispositionActs, QuietSteps DEF SetInformation
  <2> QED
    BY <1>2, <2>1
<1>5. ASSUME NEW h \in Handle, Cleanup(h) PROVE CcbsExact'
  <2>1. CASE CleanupUnmounted(h) \/ DokanCompleteCleanup(h)
    <3> DEFINE f == handle[h].fcb
    <3>1. Acts(h, "cleaned", fcb[f].ccbs, fcb[f].UncleanCount - 1,
               IoRemoveShareAccess(h, fcb[f].share))
      BY <2>1, CleanupActs
    <3>2. f \in Fcb /\ handle[h].pc \in WithCcb
      BY <2>1, <3>1, Held DEF RefInv, Acts, CleanupUnmounted, DokanCompleteCleanup, WithCcb, Opened
    <3>3. h \in fcb[f].ccbs
      BY <3>2 DEF CcbsExact, At
    <3>4. fcb[f].ccbs = fcb[f].ccbs \cup {h} /\ "cleaned" \in WithCcb
      BY <3>3 DEF WithCcb
    <3> QED
      BY <3>1, <3>4, ActsCcbs
  <2>2. CASE DokanDispatchCleanup(h) \/ CleanupFlushes(h) \/ CleanupSent(h) \/ CleanupFails(h)
    BY <1>2, <2>2, CleanupActs DEF DokanDispatchCleanup, CleanupFlushes, CleanupSent,
       CleanupFails, WithCcb, Opened
  <2> QED
    BY <1>5, <2>1, <2>2 DEF Cleanup
<1>6. ASSUME NEW h \in Handle, Close(h), ~Quiet PROVE CcbsExact'
  <2>1. DokanDispatchClose(h)
    BY <1>6, QuietSteps DEF Close
  <2> QED
    BY <2>1, CleanupActs, ActsCcbs DEF WithCcb, Opened
<1> QED
  BY <1>1, <1>3, <1>4, <1>5, <1>6, QuietSteps DEF Next

(* The CCBs of an FCB are those of its file objects, from the create that  *)
(* allocates one to the close that frees it, so that the list is empty     *)
(* when DokanDeleteFcb asserts it.                                         *)
THEOREM CcbListExact == Spec => []CcbsExact
<1>1. Init => CcbsExact
  BY DEF Init, CcbsExact, At, FreedFcb, NoHandle, WithCcb, Opened
<1> QED
  BY <1>1, CcbsStep, RefInvariant, PTL DEF Spec

\* Failures and oplock breaks are counted, and an unmount is final.
Later ==
  /\ failures =< failures' /\ breaks =< breaks'
  /\ failures' = 0 => failures = 0
  /\ breaks' = 0 => breaks = 0
  /\ ~unmount' => ~unmount

(* Failures and oplock breaks are only added up, an unmount is final.      *)
LEMMA Monotone ==
  ASSUME TypeOK, [Next]_vars
  PROVE  Later
<1>1. failures \in Nat /\ breaks \in Nat
  BY FileHandlesAssumption DEF TypeOK
<1>2. ASSUME failures' = failures \/ failures' = failures + 1,
             breaks' = breaks \/ breaks' = breaks + 1,
             ~unmount' => ~unmount
      PROVE  Later
  BY <1>1, <1>2 DEF Later
<1>3. CASE Collector \/ Unmount \/ UNCHANGED vars
  BY <1>2, <1>3 DEF Collector, CollectorWakes, CollectorPass, CollectorTimer, CollectorEnds,
     DokanStopFcbGarbageCollectorThread, Unmount, vars
<1>4. ASSUME NEW h \in Handle, Create(h) PROVE Later
  <2>1. failures' = failures \/ failures' = failures + 1
    BY <1>4 DEF Create, DispatchCreate, CreateFails, CreateRefused, DokanGetFCB, GetFcbForced,
       OneFails, CreateDenied, CreateBreaksHandles, CreateBreaksOplock, CreateUnwound, CreateSent,
       CreateRetried, CreateRetryFails, BreakFailed, DokanCompleteCreate, CreateDropped
  <2>2. breaks' = breaks \/ breaks' = breaks + 1
    BY <1>4 DEF Create, DispatchCreate, CreateFails, CreateRefused, DokanGetFCB, GetFcbForced,
       CreateDenied, CreateBreaksHandles, CreateBreaksOplock, CreateUnwound, CreateSent,
       CreateRetried, CreateRetryFails, BreakFailed, DokanCompleteCreate, CreateDropped
  <2>3. unmount' = unmount
    BY <1>4 DEF Create, DispatchCreate, CreateFails, CreateRefused, DokanGetFCB, GetFcbForced,
       CreateDenied, CreateBreaksHandles, CreateBreaksOplock, CreateUnwound, CreateSent,
       CreateRetried, CreateRetryFails, BreakFailed, DokanCompleteCreate, CreateDropped,
       CompleteCreateFailed, CreateTo
  <2> QED
    BY <1>2, <2>1, <2>2, <2>3
<1>5. ASSUME NEW h \in Handle, SetInformation(h) \/ Close(h) PROVE Later
  <2>1. UNCHANGED <<failures, breaks, unmount>>
    BY <1>5, Zenon DEF SetInformation, DokanDispatchSetInformation, SetInformationFails,
       CompleteDisposition, DokanRenameFcb, Close, DokanDispatchClose, DokanFreeFCB, FreeLast
  <2> QED
    BY <1>2, <2>1
<1>6. ASSUME NEW h \in Handle, Cleanup(h) PROVE Later
  <2>1. (failures' = failures \/ failures' = failures + 1) /\ UNCHANGED <<breaks, unmount>>
    BY <1>6 DEF Cleanup, DokanDispatchCleanup, CleanupUnmounted, CleanupFlushes, CleanupSent,
       CleanupFails, OneFails, DokanCompleteCleanup
  <2> QED
    BY <1>2, <2>1
<1> QED
  BY <1>3, <1>4, <1>5, <1>6 DEF Next

(* A quiet step does not make UncleanCount fall short.                     *)
LEMMA QuietUnclean ==
  ASSUME RefInv, UncleanNeverShort, Quiet, [Next]_vars
  PROVE  UncleanNeverShort'
<1>1. (failures' = 0 => failures = 0) /\ (~unmount' => ~unmount)
  BY Monotone DEF RefInv, Later
<1> SUFFICES ASSUME NEW f \in Fcb
             PROVE  /\ fcb'[f].UncleanCount >= Cardinality(At(f, Opened)')
                    /\ failures' = 0 /\ ~unmount' =>
                         fcb'[f].UncleanCount = Cardinality(At(f, Opened)')
  BY DEF UncleanNeverShort
<1>2. At(f, Opened)' = At(f, Opened)
  BY DEF Quiet, WithCcb
<1>3. CASE SameUse(f)
  BY <1>1, <1>2, <1>3 DEF SameUse, UncleanNeverShort
<1>4. CASE Fresh(f)
  <2>1. At(f, Opened) = {}
    BY <1>4 DEF Fresh, At, Referencing, WithCcb
  <2>2. Cardinality(At(f, Opened)) = 0
    BY <2>1, AtFinite
  <2> QED
    BY <1>2, <1>4, <2>2 DEF Fresh
<1> QED
  BY <1>3, <1>4 DEF Quiet

(* Neither does a step that counts the one who enters or leaves.           *)
LEMMA ActsUnclean ==
  ASSUME RefInv, UncleanNeverShort, [Next]_vars, NEW h \in Handle,
         NEW pc, NEW ccbs, NEW unclean, NEW share, Acts(h, pc, ccbs, unclean, share),
         LET U == fcb[handle[h].fcb].UncleanCount
         IN \/ unclean = U /\ (pc \in Opened <=> handle[h].pc \in Opened)
            \/ unclean = U + 1 /\ pc \in Opened /\ handle[h].pc \notin Opened
            \/ unclean = U - 1 /\ pc \notin Opened /\ handle[h].pc \in Opened
            \/ /\ unclean = U /\ pc \notin Opened /\ handle[h].pc \in Opened
               /\ failures' # 0 \/ unmount'
  PROVE  UncleanNeverShort'
<1>. PICK f \in Fcb : f = handle[h].fcb
  BY Held DEF RefInv, Acts
<1>1. (failures' = 0 => failures = 0) /\ (~unmount' => ~unmount)
  BY Monotone DEF RefInv, Later
<1>2. OthersSame(h) /\ handle'[h].pc = pc /\ handle'[h].fcb = f /\ fcb'[f].UncleanCount = unclean
  BY DEF Acts
<1>3. ASSUME NEW x \in Fcb \ {f}
      PROVE  /\ fcb'[x].UncleanCount >= Cardinality(At(x, Opened)')
             /\ failures' = 0 /\ ~unmount' =>
                  fcb'[x].UncleanCount = Cardinality(At(x, Opened)')
  <2>1. fcb'[x] = fcb[x]
    BY DEF Acts
  <2>2. At(x, Opened)' = At(x, Opened)
    BY <1>2, AtSame
  <2> QED
    BY <1>1, <2>1, <2>2 DEF UncleanNeverShort
<1>4. /\ fcb'[f].UncleanCount >= Cardinality(At(f, Opened)')
      /\ failures' = 0 /\ ~unmount' =>
           fcb'[f].UncleanCount = Cardinality(At(f, Opened)')
  <2> DEFINE U == fcb[f].UncleanCount
             c == Cardinality(At(f, Opened))
             d == Cardinality(At(f, Opened)')
  <2>1. U \in Int /\ c \in Nat
    BY AtFinite DEF RefInv, TypeOK, FcbType
  <2>2. U >= c /\ (failures = 0 /\ ~unmount => U = c)
    BY DEF UncleanNeverShort
  <2>3. h \in At(f, Opened) <=> handle[h].pc \in Opened
    BY DEF At
  <2>4. CASE pc \in Opened <=> handle[h].pc \in Opened
    <3>1. At(f, Opened)' = At(f, Opened)
      BY <1>2, <2>4, AtSame
    <3>2. unclean = U
      BY <2>1, <2>4
    <3> QED
      BY <1>1, <1>2, <2>2, <3>1, <3>2
  <2>5. CASE pc \in Opened /\ handle[h].pc \notin Opened
    <3>1. At(f, Opened)' = At(f, Opened) \cup {h}
      BY <1>2, <2>5, AtMoves
    <3>2. d = c + 1
      BY <2>3, <2>5, <3>1, AtFinite
    <3>3. unclean = U + 1
      BY <2>5
    <3> HIDE DEF U, c, d
    <3>4. unclean >= d /\ (failures' = 0 /\ ~unmount' => unclean = d)
      BY <1>1, <2>1, <2>2, <3>2, <3>3
    <3> QED
      BY <1>2, <3>4 DEF d
  <2>6. CASE pc \notin Opened /\ handle[h].pc \in Opened
    <3>1. At(f, Opened)' = At(f, Opened) \ {h}
      BY <1>2, <2>6, AtMoves
    <3>2. d = c - 1
      BY <2>3, <2>6, <3>1, AtFinite
    <3>3. unclean = U - 1 \/ (unclean = U /\ (failures' # 0 \/ unmount'))
      BY <2>6
    <3> HIDE DEF U, c, d
    <3>4. unclean >= d /\ (failures' = 0 /\ ~unmount' => unclean = d)
      BY <1>1, <2>1, <2>2, <3>2, <3>3
    <3> QED
      BY <1>2, <3>4 DEF d
  <2> QED
    BY <2>4, <2>5, <2>6
<1> QED
  BY <1>3, <1>4 DEF UncleanNeverShort

(* No step makes UncleanCount fall short.                                  *)
LEMMA UncleanStep ==
  ASSUME RefInv, UncleanNeverShort, [Next]_vars
  PROVE  UncleanNeverShort'
<1>1. CASE Quiet
  BY <1>1, QuietUnclean
<1>2. ASSUME NEW h \in Handle, NEW pc, NEW ccbs, NEW share,
             Acts(h, pc, ccbs, fcb[handle[h].fcb].UncleanCount, share),
             pc \in Opened <=> handle[h].pc \in Opened
      PROVE  UncleanNeverShort'
  BY <1>2, ActsUnclean
<1>3. ASSUME NEW h \in Handle, Create(h), ~Quiet PROVE UncleanNeverShort'
  <2>1. CASE CreateRefused(h) \/ CreateDenied(h) \/ CreateBreaksHandles(h)
             \/ CreateBreaksOplock(h) \/ CreateUnwound(h) \/ CreateSent(h)
    BY <1>2, <2>1, CreateActs DEF CreateRefused, CreateDenied, CreateBreaksHandles,
       CreateBreaksOplock, CreateUnwound, CreateSent, Creating, OnlyMoves, Opened
  <2>2. CASE CreateRetried(h) \/ CreateRetryFails(h) \/ CreateDropped(h)
    BY <1>2, <2>2, CreateActs DEF CreateRetried, CreateRetryFails, CreateDropped,
       OnlyMoves, Opened
  <2>3. CASE BreakFailed(h) \/ (DokanCompleteCreate(h) /\ CompleteCreateFailed(h))
    <3> DEFINE f == handle[h].fcb
    <3>1. Acts(h, "release", fcb[f].ccbs \ {h}, fcb[f].UncleanCount,
               IoRemoveShareAccess(h, fcb[f].share))
      BY <2>3, CompleteCreateActs
    <3>2. "release" \notin Opened /\ handle[h].pc \notin Opened
      BY <2>3 DEF BreakFailed, DokanCompleteCreate, Opened
    <3> QED
      BY <1>2, <3>1, <3>2
  <2>4. CASE DokanCompleteCreate(h) /\ ~CompleteCreateFailed(h)
    <3> DEFINE f == handle[h].fcb
    <3>1. Acts(h, "open", fcb[f].ccbs, fcb[f].UncleanCount + 1, fcb[f].share)
      BY <2>4, CompleteCreateActs
    <3>2. "open" \in Opened /\ handle[h].pc \notin Opened
      BY <2>4 DEF DokanCompleteCreate, Opened
    <3> QED
      BY <3>1, <3>2, ActsUnclean
  <2> QED
    BY <1>3, <2>1, <2>2, <2>3, <2>4, QuietSteps DEF Create
<1>4. ASSUME NEW h \in Handle, SetInformation(h), ~Quiet PROVE UncleanNeverShort'
  <2>1. OnlyMoves(h, handle[h].pc)
    BY <1>4, DispositionActs, QuietSteps DEF SetInformation
  <2> QED
    BY <1>2, <2>1 DEF OnlyMoves
<1>5. ASSUME NEW h \in Handle, Cleanup(h) PROVE UncleanNeverShort'
  <2> DEFINE f == handle[h].fcb
  <2>1. CASE CleanupUnmounted(h) \/ DokanCompleteCleanup(h)
    <3>1. Acts(h, "cleaned", fcb[f].ccbs, fcb[f].UncleanCount - 1,
               IoRemoveShareAccess(h, fcb[f].share))
      BY <2>1, CleanupActs
    <3>2. "cleaned" \notin Opened /\ handle[h].pc \in Opened
      BY <2>1 DEF CleanupUnmounted, DokanCompleteCleanup, Opened
    <3> QED
      BY <3>1, <3>2, ActsUnclean
  <2>2. CASE CleanupFails(h)
    <3>1. Acts(h, "cleaned", fcb[f].ccbs, fcb[f].UncleanCount, fcb[f].share)
      BY <2>2, CleanupActs DEF OnlyMoves
    <3>2. "cleaned" \notin Opened /\ handle[h].pc \in Opened
      BY <2>2 DEF CleanupFails, Opened
    <3>3. failures' # 0 \/ unmount'
      <4>1. failures \in Nat
        BY FileHandlesAssumption DEF RefInv, TypeOK
      <4> QED
        BY <2>2, <4>1 DEF CleanupFails, OneFails
    <3> QED
      BY <3>1, <3>2, <3>3, ActsUnclean
  <2>3. CASE DokanDispatchCleanup(h) \/ CleanupFlushes(h) \/ CleanupSent(h)
    BY <1>2, <2>3, CleanupActs DEF DokanDispatchCleanup, CleanupFlushes, CleanupSent,
       OnlyMoves, Opened
  <2> QED
    BY <1>5, <2>1, <2>2, <2>3 DEF Cleanup
<1>6. ASSUME NEW h \in Handle, Close(h), ~Quiet PROVE UncleanNeverShort'
  <2>1. DokanDispatchClose(h)
    BY <1>6, QuietSteps DEF Close
  <2> QED
    BY <1>2, <2>1, CleanupActs DEF DokanDispatchClose, Opened
<1> QED
  BY <1>1, <1>3, <1>4, <1>5, <1>6, QuietSteps DEF Next

(* UncleanCount never falls below the number of open handles, whatever     *)
(* fails, so no cleanup takes itself for the last one while another handle *)
(* is open; it is exact as long as no cleanup was failed.                  *)
THEOREM UncleanCovers == Spec => []UncleanNeverShort
<1>1. Init => UncleanNeverShort
  <2> SUFFICES ASSUME Init, NEW f \in Fcb
               PROVE  fcb[f].UncleanCount = 0 /\ Cardinality(At(f, Opened)) = 0
    BY DEF UncleanNeverShort
  <2>1. At(f, Opened) = {}
    BY DEF Init, At, NoHandle, Opened
  <2> QED
    BY <2>1, AtFinite DEF Init, FreedFcb
<1> QED
  BY <1>1, UncleanStep, RefInvariant, PTL DEF Spec

-----------------------------------------------------------------------------
(* The collector sleeps only on an empty list.                               *)

(* No step leaves garbage behind a collector that sleeps.                  *)
LEMMA WakeStep ==
  ASSUME RefInv, GarbageWakesCollector, [Next]_vars
  PROVE  GarbageWakesCollector'
<1> USE DEF GarbageWakesCollector
<1>1. ASSUME \A x \in Fcb : fcb'[x].garbage # "no" => fcb[x].garbage # "no",
             UNCHANGED <<collector, notEmpty>>
      PROVE  GarbageWakesCollector'
  BY <1>1 DEF Garbage
<1>2. ASSUME NEW h \in Handle, NEW pc, NEW ccbs, NEW unclean, NEW share,
             Acts(h, pc, ccbs, unclean, share)
      PROVE  GarbageWakesCollector'
  <2>1. \A x \in Fcb : fcb'[x].garbage = fcb[x].garbage
    BY <1>2 DEF Acts, SameReferences
  <2>2. UNCHANGED <<collector, notEmpty>>
    BY <1>2 DEF Acts
  <2> QED
    BY <1>1, <2>1, <2>2
<1>3. ASSUME NEW h \in Handle, NEW n \in Name, NEW fs \in [Fcb -> FcbType], Fits(fs),
             NEW table \in [Name -> Fcb \cup {None}], GetOrCreate(h, n, fs, table)
      PROVE  \A x \in Fcb : fcb'[x].garbage # "no" => fs[x].garbage # "no"
  <2>1. handle \in [Handle -> HandleType]
    BY DEF RefInv, TypeOK
  <2>2. PICK f \in Fcb : Got(h, n, fs, table, f)
    BY <1>3, <2>1, GetEffect
  <2> QED
    BY <2>2 DEF Got
<1>4. ASSUME NEW h \in Handle, Create(h) PROVE GarbageWakesCollector'
  <2>1. CASE DispatchCreate(h) \/ CreateFails(h)
    BY <1>1, <2>1 DEF DispatchCreate, CreateFails
  <2>2. ASSUME NEW n \in Name, DokanGetFCB(h, n) PROVE GarbageWakesCollector'
    <3>1. /\ GetOrCreate(h, n, fcb, FcbTable) /\ Fits(fcb)
          /\ fcb \in [Fcb -> FcbType] /\ FcbTable \in [Name -> Fcb \cup {None}]
      BY <2>2, RefInvFits DEF DokanGetFCB, RefInv, TypeOK
    <3> QED
      BY <1>1, <1>3, <2>2, <3>1 DEF DokanGetFCB
  <2>3. ASSUME NEW n \in Name, GetFcbForced(h, n) PROVE GarbageWakesCollector'
    <3>1. \A x \in Fcb : Deleted(Garbage)[x].garbage = "no"
      BY DEF Deleted, Garbage, FreedFcb
    <3>2. \A x \in Fcb : fcb'[x].garbage # "no" => Deleted(Garbage)[x].garbage # "no"
      BY <1>3, <2>3, ForcedFits DEF GetFcbForced
    <3> QED
      BY <3>1, <3>2 DEF Garbage
  <2>4. CASE CreateRefused(h) \/ CreateDenied(h) \/ CreateBreaksHandles(h)
             \/ CreateBreaksOplock(h) \/ CreateUnwound(h) \/ CreateSent(h)
             \/ CreateRetried(h) \/ CreateRetryFails(h) \/ CreateDropped(h)
    BY <1>2, <2>4, CreateActs DEF OnlyMoves
  <2>5. CASE BreakFailed(h) \/ DokanCompleteCreate(h)
    BY <1>2, <2>5, CompleteCreateActs
  <2> QED
    BY <1>4, <2>1, <2>2, <2>3, <2>4, <2>5 DEF Create
<1>5. ASSUME NEW h \in Handle, SetInformation(h) PROVE GarbageWakesCollector'
  <2>1. ASSUME NEW n \in Name, DokanRenameFcb(h, n) PROVE GarbageWakesCollector'
    BY <1>1, <2>1, RenameActs DEF DokanRenameFcb
  <2> QED
    BY <1>2, <1>5, <2>1, DispositionActs DEF SetInformation, OnlyMoves
<1>6. ASSUME NEW h \in Handle, Cleanup(h) PROVE GarbageWakesCollector'
  BY <1>2, <1>6, CleanupActs DEF Cleanup, OnlyMoves
<1>7. ASSUME NEW h \in Handle, Close(h) PROVE GarbageWakesCollector'
  <2>1. CASE DokanDispatchClose(h)
    BY <1>2, <2>1, CleanupActs
  <2>2. CASE DokanFreeFCB(h)
    <3>1. TypeOK' /\ HandlesPoint'
      BY TypeStep, HandlesPointStep
    <3> QED
      BY <1>1, <2>2, <3>1, FreeRefs
  <2>3. CASE FreeLast(h)
    <3>1. CASE notEmpty'
      BY <3>1
    <3>2. CASE UNCHANGED <<fcb, notEmpty>>
      BY <1>1, <2>3, <3>2 DEF FreeLast
    <3>3. CASE UNCHANGED notEmpty /\ fcb' = Deleted({handle[h].fcb})
      BY <1>1, <2>3, <3>3 DEF FreeLast, Deleted, FreedFcb
    <3> QED
      BY <2>3, <3>1, <3>2, <3>3 DEF FreeLast
  <2> QED
    BY <1>7, <2>1, <2>2, <2>3 DEF Close
<1>8. CASE CollectorPass
  <2> DEFINE aged  == {f \in Fcb : fcb[f].garbage = "aged"}
             young == {f \in Fcb : fcb[f].garbage = "young"}
  <2>1. CASE young = {}
    <3>1. \A f \in Fcb : fcb'[f] = Deleted(aged)[f]
      BY <1>8, <2>1 DEF CollectorPass
    <3>2. \A f \in Fcb \ aged : fcb[f].garbage = "no"
      BY <2>1 DEF RefInv, TypeOK, FcbType
    <3> QED
      BY <3>1, <3>2 DEF Garbage, Deleted, FreedFcb
  <2>2. CASE young # {}
    BY <1>8, <2>2 DEF CollectorPass
  <2> QED
    BY <2>1, <2>2
<1>9. CASE CollectorWakes
  BY <1>9 DEF CollectorWakes
<1>10. CASE CollectorTimer \/ CollectorEnds \/ DokanStopFcbGarbageCollectorThread
  BY <1>10 DEF CollectorTimer, CollectorEnds, DokanStopFcbGarbageCollectorThread
<1>11. CASE Unmount \/ UNCHANGED vars
  BY <1>1, <1>11 DEF Unmount, vars
<1> QED
  BY <1>4, <1>5, <1>6, <1>7, <1>8, <1>9, <1>10, <1>11 DEF Next, Collector

(* No wakeup of the collector is lost: while FcbGarbageCollectorThread     *)
(* waits for garbage and there is some, its event is set.  A pass, a       *)
(* forced collection and the wait itself clear the event, and a create may *)
(* take an FCB off the list at any time.                                   *)
THEOREM CollectorNeverSleepsOnGarbage == Spec => []GarbageWakesCollector
<1>1. Init => GarbageWakesCollector
  BY DEF Init, GarbageWakesCollector, Garbage, FreedFcb
<1> QED
  BY <1>1, WakeStep, RefInvariant, PTL DEF Spec

-----------------------------------------------------------------------------
(* The table of names.                                                       *)

\* The table leads to the FCBs fs: what TableExact says of FcbTable and fcb.
Leads(fs, table) ==
  \A f \in Fcb, n \in Name :
    table[n] = f <=> fs[f].live /\ fs[f].name = n /\ ~fs[f].ReplacedByRename

\* TableExact with the fact it rests on: before the first rename no FCB is
\* marked as replaced.
TableInv ==
  /\ TableExact
  /\ renames = 0 => \A f \in Fcb : ~fcb[f].ReplacedByRename

\* Where a block is and what it is called.
SamePlace(f) ==
  /\ fcb'[f].live = fcb[f].live /\ fcb'[f].name = fcb[f].name
  /\ fcb'[f].ReplacedByRename = fcb[f].ReplacedByRename

(* The table leads where it led when no FCB changes its place.             *)
LEMMA SamePlaces ==
  ASSUME TableInv, \A f \in Fcb : SamePlace(f), UNCHANGED <<FcbTable, renames>>
  PROVE  TableInv'
  BY DEF TableInv, TableExact, SamePlace

(* Deleting FCBs with their names leaves a table that leads to the rest.   *)
LEMMA DeletedLeads ==
  ASSUME TypeOK, TableExact, NEW G \in SUBSET Fcb,
         \A g \in G : fcb[g].live /\ ~fcb[g].ReplacedByRename
  PROVE  Leads(Deleted(G), WithoutNamesOf(G))
<1> SUFFICES ASSUME NEW f \in Fcb, NEW n \in Name
             PROVE  WithoutNamesOf(G)[n] = f <=>
                      /\ Deleted(G)[f].live /\ Deleted(G)[f].name = n
                      /\ ~Deleted(G)[f].ReplacedByRename
  BY DEF Leads
<1>1. FcbTable[n] = f <=> fcb[f].live /\ fcb[f].name = n /\ ~fcb[f].ReplacedByRename
  BY DEF TableExact
<1>2. WithoutNamesOf(G)[n] = f <=> FcbTable[n] = f /\ ~(\E g \in G : fcb[g].name = n)
  BY FileHandlesAssumption DEF WithoutNamesOf
<1>3. CASE f \in G
  <2>1. ~Deleted(G)[f].live
    BY <1>3 DEF Deleted, FreedFcb
  <2> QED
    BY <1>1, <1>2, <1>3, <2>1
<1>4. CASE f \notin G
  <2>1. Deleted(G)[f] = fcb[f]
    BY <1>4 DEF Deleted
  <2>2. ASSUME NEW g \in G, fcb[g].name = n PROVE FcbTable[n] = g /\ g # f
    BY <2>2, <1>4 DEF TableExact
  <2> QED
    BY <1>1, <1>2, <2>1, <2>2
<1> QED
  BY <1>3, <1>4

(* DokanGetFCB finds the FCB of the name or enters a new one under it.     *)
LEMMA GetLeads ==
  ASSUME RefInv, NEW h \in Handle, NEW n \in Name, NEW fs \in [Fcb -> FcbType], Fits(fs),
         NEW table \in [Name -> Fcb \cup {None}], Leads(fs, table),
         GetOrCreate(h, n, fs, table)
  PROVE  /\ TableExact'
         /\ \A x \in Fcb : fcb'[x].ReplacedByRename => fs[x].ReplacedByRename
<1>. handle \in [Handle -> HandleType]
  BY DEF RefInv, TypeOK
<1>1. PICK f \in Fcb : Got(h, n, fs, table, f)
  BY GetEffect
<1>2. \A x \in Fcb : fcb'[x].ReplacedByRename => fs[x].ReplacedByRename
  BY <1>1 DEF Got
<1>3. ASSUME NEW x \in Fcb, NEW m \in Name
      PROVE  FcbTable'[m] = x <=>
               fcb'[x].live /\ fcb'[x].name = m /\ ~fcb'[x].ReplacedByRename
  <2>1. table[m] = x <=> fs[x].live /\ fs[x].name = m /\ ~fs[x].ReplacedByRename
    BY DEF Leads
  <2>2. CASE fs[f].live
    <3>1. /\ fcb'[f].live = fs[f].live /\ fcb'[f].name = fs[f].name
          /\ fcb'[f].ReplacedByRename = fs[f].ReplacedByRename /\ FcbTable' = table
      BY <1>1, <2>2 DEF Got
    <3>2. x # f => fcb'[x] = fs[x]
      BY <1>1 DEF Got
    <3> QED
      BY <2>1, <3>1, <3>2
  <2>3. CASE ~fs[f].live
    <3>1. /\ fcb'[f].live /\ fcb'[f].name = n /\ ~fcb'[f].ReplacedByRename
          /\ table[n] = None /\ FcbTable' = [table EXCEPT ![n] = f]
      BY <1>1, <2>3 DEF Got
    <3>2. x # f => fcb'[x] = fs[x]
      BY <1>1 DEF Got
    <3>3. table[m] # f
      BY <2>3 DEF Leads
    <3>4. FcbTable'[m] = IF m = n THEN f ELSE table[m]
      BY <3>1
    <3>5. None \notin Fcb
      BY FileHandlesAssumption
    <3> QED
      BY <2>1, <3>1, <3>2, <3>3, <3>4, <3>5
  <2> QED
    BY <2>2, <2>3
<1> QED
  BY <1>2, <1>3 DEF TableExact

(* The first rename: the old entry goes, the new one is the renamed FCB's, *)
(* and the FCB it displaces is marked or freed.                            *)
LEMMA RenameTable ==
  ASSUME RefInv, TableInv, renames = 0,
         NEW h \in Handle, NEW n \in Name, DokanRenameFcb(h, n)
  PROVE  TableExact'
<1>. DEFINE f == handle[h].fcb
            o == fcb[f].name
            table == [FcbTable EXCEPT ![o] = None]
            g == table[n]
<1>1. f \in Fcb /\ fcb[f].live
  <2>1. handle[h].pc \in Referencing
    BY DEF DokanRenameFcb, RefInv, HandlesPoint, Referencing, WithCcb
  <2> QED
    BY <2>1, Counted
<1>2. o \in Name /\ FcbTable \in [Name -> Fcb \cup {None}] /\ fcb \in [Fcb -> FcbType]
  BY <1>1 DEF RefInv, NamesKnown, TypeOK
<1>3. \A x \in Fcb, m \in Name :
        FcbTable[m] = x <=> fcb[x].live /\ fcb[x].name = m /\ ~fcb[x].ReplacedByRename
  BY DEF TableInv, TableExact
<1>4. ~fcb[f].ReplacedByRename /\ FcbTable[o] = f
  BY <1>1, <1>2, <1>3 DEF TableInv
<1>5. fcb' = Renamed(f, n, g) /\ FcbTable' = [table EXCEPT ![n] = f]
  BY DEF DokanRenameFcb
<1>6. \A m \in Name : table[m] = IF m = o THEN None ELSE FcbTable[m]
  BY <1>2
<1>7. \A m \in Name : FcbTable'[m] = IF m = n THEN f ELSE table[m]
  BY <1>2, <1>5
<1>8. None \notin Fcb
  BY FileHandlesAssumption
<1> HIDE DEF g, table, o
<1>9. ASSUME NEW x \in Fcb, NEW m \in Name
      PROVE  FcbTable'[m] = x <=>
               fcb'[x].live /\ fcb'[x].name = m /\ ~fcb'[x].ReplacedByRename
  <2>1. CASE x = f
    <3>1. fcb'[x] = [fcb[f] EXCEPT !.name = n] /\ fcb[f] \in FcbType
      BY <1>1, <1>2, <1>5, <2>1 DEF Renamed
    <3>2. fcb'[x].live = fcb[f].live /\ fcb'[x].name = n
          /\ fcb'[x].ReplacedByRename = fcb[f].ReplacedByRename
      BY <3>1 DEF FcbType
    <3>3. m # n => FcbTable'[m] # f
      BY <1>3, <1>6, <1>7, <1>8, <1>1 DEF o
    <3> QED
      BY <1>1, <1>4, <1>7, <2>1, <3>2, <3>3
  <2>2. CASE x # f /\ x = g
    <3>1. ~fcb'[x].live \/ fcb'[x].ReplacedByRename
      <4>1. CASE fcb[g].garbage # "no"
        BY <1>5, <2>2, <4>1 DEF Renamed, FreedFcb
      <4>2. CASE fcb[g].garbage = "no"
        <5>1. fcb'[x] = [fcb[g] EXCEPT !.ReplacedByRename = TRUE] /\ fcb[g] \in FcbType
          BY <1>2, <1>5, <2>2, <4>2 DEF Renamed
        <5> QED
          BY <5>1 DEF FcbType
      <4> QED
        BY <4>1, <4>2
    <3>2. FcbTable[n] = x
      BY <1>6, <1>8, <2>2 DEF g
    <3>3. FcbTable'[m] # x
      BY <1>3, <1>6, <1>7, <1>8, <2>2, <3>2
    <3> QED
      BY <3>1, <3>3
  <2>3. CASE x # f /\ x # g
    <3>1. fcb'[x] = fcb[x]
      BY <1>5, <2>3 DEF Renamed
    <3>2. FcbTable'[m] = x <=> FcbTable[m] = x
      <4>1. CASE m = n
        BY <1>4, <1>6, <1>7, <2>3, <4>1 DEF g
      <4>2. CASE m # n
        BY <1>4, <1>6, <1>7, <1>8, <2>3, <4>2
      <4> QED
        BY <4>1, <4>2
    <3> QED
      BY <1>3, <3>1, <3>2
  <2> QED
    BY <2>1, <2>2, <2>3
<1> QED
  BY <1>9 DEF TableExact

(* The last DokanFreeFCB takes the name out with the FCB.                  *)
LEMMA FreeLastTable ==
  ASSUME RefInv, TableInv, NEW h \in Handle, FreeLast(h)
  PROVE  TableInv'
<1> DEFINE f == handle[h].fcb
<1>1. f \in Fcb /\ fcb[f].live /\ UNCHANGED renames /\ fcb \in [Fcb -> FcbType]
  BY Held DEF FreeLast, RefInv, TypeOK
<1>2. CASE UNCHANGED <<fcb, FcbTable>>
  BY <1>1, <1>2, SamePlaces DEF SamePlace
<1>3. CASE fcb' = [fcb EXCEPT ![f].garbage = "young"] /\ UNCHANGED FcbTable
  <2>1. /\ \A x \in Fcb \ {f} : fcb'[x] = fcb[x]
        /\ fcb'[f] = [fcb[f] EXCEPT !.garbage = "young"] /\ fcb[f] \in FcbType
    BY <1>1, <1>3
  <2>2. SamePlace(f)
    BY <2>1 DEF FcbType, SamePlace
  <2>3. \A x \in Fcb : SamePlace(x)
    BY <2>1, <2>2 DEF SamePlace
  <2> QED
    BY <1>1, <1>3, <2>3, SamePlaces
<1>4. CASE /\ fcb' = Deleted({f})
           /\ FcbTable' = IF fcb[f].ReplacedByRename THEN FcbTable ELSE WithoutNamesOf({f})
  <2>1. \A x \in Fcb : fcb'[x].ReplacedByRename => fcb[x].ReplacedByRename
    BY <1>4 DEF Deleted, FreedFcb
  <2>2. TableExact'
    <3>1. CASE ~fcb[f].ReplacedByRename
      <4>1. Leads(Deleted({f}), WithoutNamesOf({f}))
        BY <1>1, <3>1, DeletedLeads DEF RefInv, TableInv
      <4> QED
        BY <1>4, <3>1, <4>1 DEF Leads, TableExact
    <3>2. CASE fcb[f].ReplacedByRename
      <4>1. \A m \in Name : FcbTable[m] # f
        BY <1>1, <3>2 DEF TableInv, TableExact
      <4>2. ~fcb'[f].live /\ \A x \in Fcb \ {f} : fcb'[x] = fcb[x]
        BY <1>1, <1>4 DEF Deleted, FreedFcb
      <4>3. \A x \in Fcb, m \in Name :
              FcbTable[m] = x <=> fcb[x].live /\ fcb[x].name = m /\ ~fcb[x].ReplacedByRename
        BY DEF TableInv, TableExact
      <4>4. UNCHANGED FcbTable
        BY <1>4, <3>2
      <4>5. \A x \in Fcb, m \in Name :
              FcbTable'[m] = x <=>
                fcb'[x].live /\ fcb'[x].name = m /\ ~fcb'[x].ReplacedByRename
        <5> HIDE DEF f
        <5> QED
          BY <1>1, <4>1, <4>2, <4>3, <4>4
      <4> QED
        BY <4>5 DEF TableExact
    <3> QED
      BY <3>1, <3>2
  <2> QED
    BY <1>1, <2>1, <2>2 DEF TableInv
<1> QED
  BY <1>2, <1>3, <1>4 DEF FreeLast

(* So do the garbage collector and the unmount.                            *)
LEMMA CollectorTable ==
  ASSUME RefInv, TableInv, Collector \/ Unmount \/ UNCHANGED vars
  PROVE  TableInv'
<1>1. CASE CollectorPass
  <2> DEFINE aged  == {f \in Fcb : fcb[f].garbage = "aged"}
             young == {f \in Fcb : fcb[f].garbage = "young"}
  <2>1. \A g \in aged : fcb[g].live /\ ~fcb[g].ReplacedByRename
    BY DEF RefInv, GarbageUnused, Garbage
  <2>2. Leads(Deleted(aged), WithoutNamesOf(aged))
    BY <2>1, DeletedLeads DEF RefInv, TableInv
  <2>3. fcb' = [f \in Fcb |-> IF f \in young THEN [fcb[f] EXCEPT !.garbage = "aged"]
                              ELSE Deleted(aged)[f]]
        /\ FcbTable' = WithoutNamesOf(aged) /\ UNCHANGED renames
    BY <1>1 DEF CollectorPass
  <2>4. ASSUME NEW f \in Fcb
        PROVE  /\ fcb'[f].live = Deleted(aged)[f].live
               /\ fcb'[f].name = Deleted(aged)[f].name
               /\ fcb'[f].ReplacedByRename = Deleted(aged)[f].ReplacedByRename
    <3>1. CASE f \in young
      <4>1. /\ fcb'[f] = [fcb[f] EXCEPT !.garbage = "aged"] /\ fcb[f] \in FcbType
            /\ Deleted(aged)[f] = fcb[f]
        BY <2>3, <3>1 DEF RefInv, TypeOK, Deleted
      <4> QED
        BY <4>1 DEF FcbType
    <3>2. CASE f \notin young
      BY <2>3, <3>2
    <3> QED
      BY <3>1, <3>2
  <2>5. TableExact'
    BY <2>2, <2>3, <2>4 DEF Leads, TableExact
  <2>6. \A f \in Fcb : Deleted(aged)[f].ReplacedByRename => fcb[f].ReplacedByRename
    BY DEF Deleted, FreedFcb
  <2> QED
    BY <2>3, <2>4, <2>5, <2>6 DEF TableInv
<1>2. CASE ~CollectorPass
  <2>1. UNCHANGED <<fcb, FcbTable, renames>>
    BY <1>2 DEF Collector, CollectorWakes, CollectorTimer, CollectorEnds,
       DokanStopFcbGarbageCollectorThread, Unmount, vars
  <2> QED
    BY <2>1, SamePlaces DEF SamePlace
<1> QED
  BY <1>1, <1>2

(* DokanFreeFCB changes a count only.                                      *)
LEMMA FreeTable ==
  ASSUME RefInv, TableInv, NEW h \in Handle, DokanFreeFCB(h)
  PROVE  TableInv'
<1> DEFINE f == handle[h].fcb
           n == fcb[f].OpenCount - 1
<1>1. fcb \in [Fcb -> FcbType] /\ fcb' = [fcb EXCEPT ![f].OpenCount = n]
      /\ UNCHANGED <<FcbTable, renames>>
  BY DEF DokanFreeFCB, RefInv, TypeOK
<1> HIDE DEF n, f
<1>2. ASSUME NEW x \in Fcb PROVE SamePlace(x)
  <2>1. fcb'[x] = fcb[x] \/ fcb'[x] = [fcb[x] EXCEPT !.OpenCount = n]
    BY <1>1
  <2>2. fcb[x] \in FcbType
    BY <1>1
  <2> QED
    BY <2>1, <2>2 DEF FcbType, SamePlace
<1> QED
  BY <1>1, <1>2, SamePlaces

(* DokanGetFCB, with the forced collection of a failed allocation or       *)
(* without.                                                                *)
LEMMA GetTable ==
  ASSUME RefInv, TableInv, NEW h \in Handle, NEW n \in Name,
         DokanGetFCB(h, n) \/ GetFcbForced(h, n)
  PROVE  TableInv'
<1>0. UNCHANGED renames
  BY DEF DokanGetFCB, GetFcbForced
<1>1. CASE DokanGetFCB(h, n)
  <2>1. /\ GetOrCreate(h, n, fcb, FcbTable) /\ Fits(fcb) /\ Leads(fcb, FcbTable)
        /\ fcb \in [Fcb -> FcbType] /\ FcbTable \in [Name -> Fcb \cup {None}]
    BY <1>1, RefInvFits DEF DokanGetFCB, RefInv, TypeOK, TableInv, TableExact, Leads
  <2> QED
    BY <1>0, <2>1, GetLeads DEF TableInv
<1>2. CASE GetFcbForced(h, n)
  <2>1. Garbage \in SUBSET Fcb
        /\ \A g \in Garbage : fcb[g].live /\ ~fcb[g].ReplacedByRename
    BY DEF RefInv, GarbageUnused, Garbage
  <2>2. Leads(Deleted(Garbage), WithoutNamesOf(Garbage))
    BY <2>1, DeletedLeads DEF RefInv, TableInv
  <2>3. \A f \in Fcb : Deleted(Garbage)[f].ReplacedByRename => fcb[f].ReplacedByRename
    BY DEF Deleted, FreedFcb
  <2>4. CASE GetOrCreate(h, n, Deleted(Garbage), WithoutNamesOf(Garbage))
    <3>1. /\ TableExact'
          /\ \A f \in Fcb :
               fcb'[f].ReplacedByRename => Deleted(Garbage)[f].ReplacedByRename
      BY <2>2, <2>4, ForcedFits, GetLeads
    <3> QED
      BY <1>0, <2>3, <3>1 DEF TableInv
  <2>5. CASE fcb' = Deleted(Garbage) /\ FcbTable' = WithoutNamesOf(Garbage)
    <3>1. TableExact'
      BY <2>2, <2>5 DEF TableExact, Leads
    <3> QED
      BY <1>0, <2>3, <2>5, <3>1 DEF TableInv
  <2> QED
    BY <1>2, <2>4, <2>5 DEF GetFcbForced
<1> QED
  BY <1>1, <1>2

\* Up to the first rename the table is exact.
TableKept == renames =< 1 => TableInv

(* Every step keeps the table exact while at most one rename was made.     *)
LEMMA TableStep ==
  ASSUME RefInv, TableKept, [Next]_vars
  PROVE  TableKept'
<1>0. renames \in Nat
  BY FileHandlesAssumption DEF RefInv, TypeOK
<1>1. CASE Collector \/ Unmount \/ UNCHANGED vars
  <2>1. UNCHANGED renames
    BY <1>1 DEF Collector, CollectorWakes, CollectorPass, CollectorTimer, CollectorEnds,
       DokanStopFcbGarbageCollectorThread, Unmount, vars
  <2> QED
    BY <1>1, <2>1, CollectorTable DEF TableKept
<1>2. ASSUME NEW h \in Handle, NEW pc, NEW ccbs, NEW unclean, NEW share,
             Acts(h, pc, ccbs, unclean, share)
      PROVE  TableKept'
  <2>1. \A f \in Fcb : SamePlace(f)
    BY <1>2 DEF Acts, SameReferences, SamePlace
  <2>2. UNCHANGED <<FcbTable, renames>>
    BY <1>2 DEF Acts
  <2> QED
    BY <2>1, <2>2, SamePlaces DEF TableKept
<1>3. ASSUME NEW h \in Handle, Create(h) PROVE TableKept'
  <2>1. CASE DispatchCreate(h) \/ CreateFails(h)
    <3>1. UNCHANGED <<fcb, FcbTable, renames>>
      BY <2>1 DEF DispatchCreate, CreateFails
    <3>2. \A f \in Fcb : SamePlace(f)
      BY <3>1 DEF SamePlace
    <3> QED
      BY <3>1, <3>2, SamePlaces DEF TableKept
  <2>2. ASSUME NEW n \in Name, DokanGetFCB(h, n) \/ GetFcbForced(h, n) PROVE TableKept'
    <3>1. UNCHANGED renames
      BY <2>2 DEF DokanGetFCB, GetFcbForced
    <3> QED
      BY <2>2, <3>1, GetTable DEF TableKept
  <2>3. CASE CreateRefused(h) \/ CreateDenied(h) \/ CreateBreaksHandles(h)
             \/ CreateBreaksOplock(h) \/ CreateUnwound(h) \/ CreateSent(h)
             \/ CreateRetried(h) \/ CreateRetryFails(h) \/ CreateDropped(h)
    BY <1>2, <2>3, CreateActs DEF OnlyMoves
  <2>4. CASE BreakFailed(h) \/ DokanCompleteCreate(h)
    BY <1>2, <2>4, CompleteCreateActs
  <2> QED
    BY <1>3, <2>1, <2>2, <2>3, <2>4 DEF Create
<1>4. ASSUME NEW h \in Handle, SetInformation(h) PROVE TableKept'
  <2>1. ASSUME NEW n \in Name, DokanRenameFcb(h, n) PROVE TableKept'
    <3>1. renames' = renames + 1
      BY <2>1 DEF DokanRenameFcb
    <3> QED
      BY <1>0, <2>1, <3>1, RenameTable DEF TableKept, TableInv
  <2> QED
    BY <1>2, <1>4, <2>1, DispositionActs DEF SetInformation, OnlyMoves
<1>5. ASSUME NEW h \in Handle, Cleanup(h) PROVE TableKept'
  BY <1>2, <1>5, CleanupActs DEF Cleanup, OnlyMoves
<1>6. ASSUME NEW h \in Handle, Close(h) PROVE TableKept'
  <2>1. CASE DokanDispatchClose(h)
    BY <1>2, <2>1, CleanupActs
  <2>2. CASE DokanFreeFCB(h)
    BY <2>2, FreeTable DEF TableKept, DokanFreeFCB
  <2>3. CASE FreeLast(h)
    BY <2>3, FreeLastTable DEF TableKept, FreeLast
  <2> QED
    BY <1>6, <2>1, <2>2, <2>3 DEF Close
<1> QED
  BY <1>1, <1>3, <1>4, <1>5, <1>6 DEF Next

(* Until a second rename, FcbTable has an entry for a name exactly when an *)
(* FCB that is live and not displaced bears it, and the entry leads to     *)
(* that FCB: DokanGetFCB never misses a block that is in use and never     *)
(* finds one that was freed.  A second rename may move a displaced FCB     *)
(* back into the table with its mark still set, and the equivalence ends.  *)
THEOREM TableLeads == Spec => [](renames =< 1 => TableExact)
<1>1. Init => TableKept
  BY FileHandlesAssumption DEF Init, TableKept, TableInv, TableExact, FreedFcb
<1>2. TableKept => (renames =< 1 => TableExact)
  BY DEF TableKept, TableInv
<1> QED
  BY <1>1, <1>2, TableStep, RefInvariant, PTL DEF Spec
=============================================================================
