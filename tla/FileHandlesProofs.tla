------------------------- MODULE FileHandlesProofs -------------------------
(***************************************************************************)
(* FileHandles proved for every set of file objects, FCBs and names, for   *)
(* any number of failures, oplock breaks and renames, with and without     *)
(* the collector and the unmount.                                          *)
(***************************************************************************)
EXTENDS FileHandles, FiniteSetTheorems, TLAPS

-----------------------------------------------------------------------------
(* The inductive invariant: the types, the exact reference counts, and what  *)
(* they rest on.                                                             *)

\* A thread that refers to an FCB, or has just dropped the last reference,
\* knows the block; a set-information request is under way only between the
\* create and the close of its handle.
HandlesPoint ==
  \A h \in Handle :
    /\ handle[h].fcb \in Fcb <=> handle[h].pc \in Referencing \cup {"last"}
    /\ handle[h].op # "no" => handle[h].pc \in Opened \cup {"cleaned"}

\* An allocated FCB has a name: a rename removes that entry of the table.
NamesKnown == \A f \in Fcb : fcb[f].live => fcb[f].name \in Name

RefInv == TypeOK /\ HandlesPoint /\ NamesKnown /\ GarbageUnused /\ OpenCountExact

-----------------------------------------------------------------------------
(* Types.                                                                    *)

(* Share access counters stay counters, whichever side they are moved to.  *)
LEMMA ShareTypes ==
  ASSUME NEW h \in Handle, NEW s \in [open : Counter, shared : Counter]
  PROVE  /\ Wanted(h) \in [open : Counter, shared : Counter]
         /\ IoUpdateShareAccess(h, s) \in [open : Counter, shared : Counter]
         /\ IoRemoveShareAccess(h, s) \in [open : Counter, shared : Counter]
<1> USE FileHandlesAssumption DEF Counter
<1>1. Wanted(h) \in [open : Counter, shared : Counter] /\ Wanted(h).shared \in {0, 1}
  BY DEF Wanted
<1>2. ASSUME NEW x \in Int PROVE x % Modulus \in Counter
  OBVIOUS
<1>3. s.open \in Int /\ s.shared \in Int
  OBVIOUS
<1> QED
  BY <1>1, <1>2, <1>3 DEF IoUpdateShareAccess, IoRemoveShareAccess

(* A freed FCB and an unused file object are of their types.               *)
LEMMA FreedTypes == FreedFcb \in FcbType /\ NoHandle \in HandleType
  BY FileHandlesAssumption DEF FreedFcb, FcbType, NoHandle, HandleType, NoShare, Counter, Stage

(* A field of an FCB takes a value of its type.                            *)
LEMMA FcbUpdates ==
  ASSUME NEW r \in FcbType
  PROVE  /\ \A x \in SUBSET Handle : [r EXCEPT !.ccbs = x] \in FcbType
         /\ \A x \in [open : Counter, shared : Counter] : [r EXCEPT !.share = x] \in FcbType
         /\ \A x \in Nat : [r EXCEPT !.OpenCount = x] \in FcbType
         /\ \A x \in Int : [r EXCEPT !.UncleanCount = x] \in FcbType
         /\ \A x \in BOOLEAN : [r EXCEPT !.deletePending = x] \in FcbType
         /\ \A x \in BOOLEAN : [r EXCEPT !.deleted = x] \in FcbType
         /\ \A x \in BOOLEAN : [r EXCEPT !.ReplacedByRename = x] \in FcbType
         /\ \A x \in {"no", "young", "aged"} : [r EXCEPT !.garbage = x] \in FcbType
         /\ \A x \in Name : [r EXCEPT !.name = x] \in FcbType
<1> USE DEF FcbType
<1>1. \A x \in SUBSET Handle : [r EXCEPT !.ccbs = x] \in FcbType
  OBVIOUS
<1>2. \A x \in [open : Counter, shared : Counter] : [r EXCEPT !.share = x] \in FcbType
  OBVIOUS
<1>3. \A x \in Nat : [r EXCEPT !.OpenCount = x] \in FcbType
  OBVIOUS
<1>4. \A x \in Int : [r EXCEPT !.UncleanCount = x] \in FcbType
  OBVIOUS
<1>5. \A x \in BOOLEAN : [r EXCEPT !.deletePending = x] \in FcbType
  OBVIOUS
<1>6. \A x \in BOOLEAN : [r EXCEPT !.deleted = x] \in FcbType
  OBVIOUS
<1>7. \A x \in BOOLEAN : [r EXCEPT !.ReplacedByRename = x] \in FcbType
  OBVIOUS
<1>8. \A x \in {"no", "young", "aged"} : [r EXCEPT !.garbage = x] \in FcbType
  OBVIOUS
<1>9. \A x \in Name : [r EXCEPT !.name = x] \in FcbType
  OBVIOUS
<1> QED
  BY <1>1, <1>2, <1>3, <1>4, <1>5, <1>6, <1>7, <1>8, <1>9, Zenon

(* DokanDeleteFcb leaves well-typed FCBs and a well-typed table.           *)
LEMMA DeletedTypes ==
  ASSUME TypeOK, NEW G \in SUBSET Fcb
  PROVE  /\ Deleted(G) \in [Fcb -> FcbType]
         /\ WithoutNamesOf(G) \in [Name -> Fcb \cup {None}]
  BY FreedTypes DEF TypeOK, Deleted, WithoutNamesOf

(* A step of a create on its FCB is well typed.                            *)
LEMMA CreateToTypes ==
  ASSUME TypeOK, NEW h \in Handle, NEW pc \in Stage, NEW ccbs \in SUBSET Handle,
         NEW share \in [open : Counter, shared : Counter],
         handle[h].fcb \in Fcb, CreateTo(h, pc, ccbs, share)
  PROVE  fcb' \in [Fcb -> FcbType] /\ handle' \in [Handle -> HandleType]
<1>1. handle' \in [Handle -> HandleType]
  BY DEF TypeOK, CreateTo, HandleType
<1>2. fcb' \in [Fcb -> FcbType]
  <2> DEFINE f == handle[h].fcb
             v == [fcb[f] EXCEPT !.ccbs = ccbs]
             w == [v EXCEPT !.share = share]
  <2>1. v \in FcbType
    BY FcbUpdates, Zenon DEF TypeOK
  <2>2. w \in FcbType
    BY <2>1, FcbUpdates, Zenon
  <2>3. fcb' = [fcb EXCEPT ![f] = w]
    BY Zenon DEF CreateTo, TypeOK
  <2> QED
    BY <2>2, <2>3 DEF TypeOK
<1> QED
  BY <1>1, <1>2

(* A create that got its FCB is well typed.                                *)
LEMMA GotTypes ==
  ASSUME TypeOK, NEW h \in Handle, NEW f \in Fcb,
         handle' = [handle EXCEPT ![h].pc = "got", ![h].fcb = f]
  PROVE  handle' \in [Handle -> HandleType]
<1> DEFINE v == [handle[h] EXCEPT !.pc = "got"]
           w == [v EXCEPT !.fcb = f]
<1>1. v \in HandleType
  BY DEF TypeOK, HandleType, Stage
<1>2. w \in HandleType
  BY <1>1, Zenon DEF HandleType
<1>3. handle' = [handle EXCEPT ![h] = w]
  BY Zenon DEF TypeOK
<1> QED
  BY <1>2, <1>3 DEF TypeOK

(* DokanGetFCB is well typed, on whatever FCBs and table it runs.          *)
LEMMA GetTypes ==
  ASSUME TypeOK, NEW h \in Handle, NEW n \in Name, NEW fs \in [Fcb -> FcbType],
         NEW table \in [Name -> Fcb \cup {None}], GetOrCreate(h, n, fs, table)
  PROVE  /\ fcb' \in [Fcb -> FcbType] /\ handle' \in [Handle -> HandleType]
         /\ FcbTable' \in [Name -> Fcb \cup {None}]
<1>1. CASE Find(h, n, fs, table)
  <2>1. table[n] \in Fcb
    BY <1>1 DEF Find
  <2>2. handle' \in [Handle -> HandleType]
    BY <1>1, <2>1, GotTypes, Zenon DEF Find
  <2>3. fcb' \in [Fcb -> FcbType]
    <3> DEFINE f == table[n]
               u == [fs[f] EXCEPT !.garbage = "no"]
               v == [u EXCEPT !.deletePending = FALSE]
               g == IF fs[f].garbage = "no" THEN fs[f]
                    ELSE [v EXCEPT !.deleted = FALSE]
               w == [g EXCEPT !.OpenCount = @ + 1]
    <3>1. g \in FcbType
      <4>1. u \in FcbType
        BY <2>1, FcbUpdates, Zenon
      <4>2. v \in FcbType
        BY <4>1, FcbUpdates, Zenon
      <4> QED
        BY <4>2, <2>1, FcbUpdates, Zenon
    <3>2. w \in FcbType
      <4> HIDE DEF g
      <4>1. g.OpenCount + 1 \in Nat
        BY <3>1 DEF FcbType
      <4> QED
        BY <3>1, <4>1, FcbUpdates, Zenon
    <3>3. fcb' = [fs EXCEPT ![f] = w]
      BY <1>1 DEF Find
    <3> QED
      BY <3>2, <3>3, <2>1
  <2> QED
    BY <1>1, <2>2, <2>3 DEF Find
<1>2. CASE Insert(h, n, fs, table)
  <2>1. PICK f \in Fcb :
          /\ fcb' = [fs EXCEPT ![f] =
                       [FreedFcb EXCEPT !.live = TRUE, !.name = n, !.OpenCount = 1]]
          /\ FcbTable' = [table EXCEPT ![n] = f]
          /\ handle' = [handle EXCEPT ![h].pc = "got", ![h].fcb = f]
    BY <1>2, Zenon DEF Insert
  <2>2. handle' \in [Handle -> HandleType]
    BY <2>1, GotTypes, Zenon
  <2>3. fcb' \in [Fcb -> FcbType]
    BY <2>1, FreedTypes, Zenon DEF FcbType, FreedFcb
  <2> QED
    BY <2>1, <2>2, <2>3
<1> QED
  BY <1>1, <1>2 DEF GetOrCreate

(* A field of a handle takes a value of its type.                          *)
LEMMA HandleUpdates ==
  ASSUME NEW r \in HandleType
  PROVE  /\ \A x \in Stage : [r EXCEPT !.pc = x] \in HandleType
         /\ \A x \in Fcb : [r EXCEPT !.fcb = x] \in HandleType
         /\ \A x \in BOOLEAN : [r EXCEPT !.delOnClose = x] \in HandleType
         /\ \A x \in BOOLEAN : [r EXCEPT !.deletes = x] \in HandleType
         /\ \A x \in {"no", "delete", "undelete", "rename"} : [r EXCEPT !.op = x] \in HandleType
  BY DEF HandleType

(* A file object that only moves on is well typed.                         *)
LEMMA PcTypes ==
  ASSUME TypeOK, NEW h \in Handle, NEW pc \in Stage,
         handle' = [handle EXCEPT ![h].pc = pc]
  PROVE  handle' \in [Handle -> HandleType]
<1>1. [handle[h] EXCEPT !.pc = pc] \in HandleType
  BY HandleUpdates, Zenon DEF TypeOK
<1> QED
  BY <1>1 DEF TypeOK

(* So is one that begins or ends a set-information request.                *)
LEMMA OpTypes ==
  ASSUME TypeOK, NEW h \in Handle, NEW op \in {"no", "delete", "undelete", "rename"},
         handle' = [handle EXCEPT ![h].op = op]
  PROVE  handle' \in [Handle -> HandleType]
<1>1. [handle[h] EXCEPT !.op = op] \in HandleType
  BY HandleUpdates, Zenon DEF TypeOK
<1> QED
  BY <1>1 DEF TypeOK

(* A file object that holds a reference points to an FCB.                  *)
LEMMA Held ==
  ASSUME HandlesPoint, NEW h \in Handle,
         handle[h].pc \in Referencing \cup {"last"} \/ handle[h].op # "no"
  PROVE  handle[h].fcb \in Fcb
  BY DEF HandlesPoint, Referencing, WithCcb, Opened

(* What a create does once it has its FCB keeps the types.                 *)
LEMMA CreateTypes ==
  ASSUME RefInv, NEW h \in Handle, Create(h)
  PROVE  TypeOK'
<1> USE DEF RefInv
<1>1. CASE DispatchCreate(h)
  BY <1>1, PcTypes, Zenon DEF DispatchCreate, TypeOK, Stage
<1>2. CASE CreateFails(h)
  BY <1>2, FreedTypes DEF CreateFails, TypeOK
<1>3. CASE CreateRefused(h)
  BY <1>3, PcTypes, Zenon DEF CreateRefused, TypeOK, Stage
<1>4. ASSUME NEW n \in Name, DokanGetFCB(h, n) PROVE TypeOK'
  BY <1>4, GetTypes DEF DokanGetFCB, TypeOK
<1>5. ASSUME NEW n \in Name, GetFcbForced(h, n) PROVE TypeOK'
  <2>1. /\ Deleted(Garbage) \in [Fcb -> FcbType]
        /\ WithoutNamesOf(Garbage) \in [Name -> Fcb \cup {None}]
    BY DeletedTypes DEF Garbage
  <2>2. failures' \in 0 .. MaxFailures
    BY <1>5, FileHandlesAssumption DEF GetFcbForced, OneFails, TypeOK
  <2>3. CASE GetOrCreate(h, n, Deleted(Garbage), WithoutNamesOf(Garbage))
    BY <1>5, <2>1, <2>2, <2>3, GetTypes, Zenon DEF GetFcbForced, TypeOK
  <2>4. CASE /\ fcb' = Deleted(Garbage) /\ FcbTable' = WithoutNamesOf(Garbage)
             /\ handle' = [handle EXCEPT ![h] = NoHandle]
    BY <1>5, <2>1, <2>2, <2>4, FreedTypes, Zenon DEF GetFcbForced, TypeOK
  <2> QED
    BY <1>5, <2>3, <2>4 DEF GetFcbForced
<1> DEFINE f == handle[h].fcb
           Share == [open : Counter, shared : Counter]
<1>6. ASSUME Creating(h) \/ handle[h].pc \in {"breaking", "pending"}
      PROVE  /\ f \in Fcb /\ fcb[f].ccbs \in SUBSET Handle
             /\ fcb[f].share \in Share /\ WithShare(h, f) \in Share
             /\ IoRemoveShareAccess(h, WithShare(h, f)) \in Share
             /\ IoRemoveShareAccess(h, fcb[f].share) \in Share
  <2>1. f \in Fcb
    BY <1>6, Held DEF Creating, Referencing, WithCcb
  <2>2. fcb[f].ccbs \in SUBSET Handle /\ fcb[f].share \in Share
    BY <2>1, Zenon DEF TypeOK, FcbType
  <2>3. WithShare(h, f) \in Share
    BY <2>2, ShareTypes, Zenon DEF WithShare
  <2> QED
    BY <2>1, <2>2, <2>3, ShareTypes
<1>7. ASSUME NEW pc \in Stage, NEW ccbs \in SUBSET Handle, NEW share \in Share,
             CreateTo(h, pc, ccbs, share), f \in Fcb,
             failures' \in 0 .. MaxFailures, breaks' \in 0 .. MaxBreaks
      PROVE  TypeOK'
  BY <1>7, CreateToTypes, Zenon DEF CreateTo, TypeOK
<1>8. CASE CreateDenied(h)
  <2>1. failures' \in 0 .. MaxFailures /\ breaks' \in 0 .. MaxBreaks
    BY <1>8, FileHandlesAssumption DEF CreateDenied, OneFails, TypeOK
  <2>2. CreateTo(h, "release", fcb[f].ccbs \ {h}, fcb[f].share) /\ Creating(h)
    BY <1>8, Zenon DEF CreateDenied
  <2>3. fcb[f].ccbs \ {h} \in SUBSET Handle
    BY <2>2, <1>6
  <2> QED
    BY <2>1, <2>2, <2>3, <1>6, <1>7 DEF Stage
<1>9. CASE CreateBreaksHandles(h)
  <2>1. failures' \in 0 .. MaxFailures /\ breaks' \in 0 .. MaxBreaks
    BY <1>9, FileHandlesAssumption DEF CreateBreaksHandles, TypeOK
  <2>2. CreateTo(h, "breaking", fcb[f].ccbs \cup {h}, fcb[f].share) /\ Creating(h)
    BY <1>9, Zenon DEF CreateBreaksHandles
  <2>3. fcb[f].ccbs \cup {h} \in SUBSET Handle
    BY <2>2, <1>6, Zenon
  <2> QED
    BY <2>1, <2>2, <2>3, <1>6, <1>7 DEF Stage
<1>10. CASE CreateBreaksOplock(h)
  <2>1. failures' \in 0 .. MaxFailures /\ breaks' \in 0 .. MaxBreaks
    BY <1>10, FileHandlesAssumption DEF CreateBreaksOplock, TypeOK
  <2>2. CreateTo(h, "breaking", fcb[f].ccbs \cup {h}, WithShare(h, f)) /\ Creating(h)
    BY <1>10, Zenon DEF CreateBreaksOplock
  <2>3. fcb[f].ccbs \cup {h} \in SUBSET Handle
    BY <2>2, <1>6, Zenon
  <2> QED
    BY <2>1, <2>2, <2>3, <1>6, <1>7 DEF Stage
<1>11. CASE CreateUnwound(h)
  <2>1. failures' \in 0 .. MaxFailures /\ breaks' \in 0 .. MaxBreaks
    BY <1>11 DEF CreateUnwound, TypeOK
  <2>2. CreateTo(h, "release", fcb[f].ccbs \ {h}, IoRemoveShareAccess(h, WithShare(h, f)))
        /\ Creating(h)
    BY <1>11, Zenon DEF CreateUnwound
  <2>3. fcb[f].ccbs \ {h} \in SUBSET Handle
    BY <2>2, <1>6, Zenon
  <2> QED
    BY <2>1, <2>2, <2>3, <1>6, <1>7 DEF Stage
<1>12. CASE CreateSent(h)
  <2>1. failures' \in 0 .. MaxFailures /\ breaks' \in 0 .. MaxBreaks
    BY <1>12 DEF CreateSent, TypeOK
  <2>2. CreateTo(h, "pending", fcb[f].ccbs \cup {h}, WithShare(h, f)) /\ Creating(h)
    BY <1>12, Zenon DEF CreateSent
  <2>3. fcb[f].ccbs \cup {h} \in SUBSET Handle
    BY <2>2, <1>6
  <2> QED
    BY <2>1, <2>2, <2>3, <1>6, <1>7 DEF Stage
<1>13. CASE CreateRetried(h)
  BY <1>13, PcTypes, Zenon DEF CreateRetried, TypeOK, Stage
<1>14. CASE CreateRetryFails(h)
  <2>1. failures' \in 0 .. MaxFailures
    BY <1>14, FileHandlesAssumption DEF CreateRetryFails, OneFails, TypeOK
  <2> QED
    BY <1>14, <2>1, PcTypes, Zenon DEF CreateRetryFails, TypeOK, Stage
<1>15. ASSUME CompleteCreateFailed(h), handle[h].pc \in {"breaking", "pending"},
              UNCHANGED <<failures, breaks>>
       PROVE  TypeOK'
  <2>1. failures' \in 0 .. MaxFailures /\ breaks' \in 0 .. MaxBreaks
    BY <1>15 DEF TypeOK
  <2>2. CreateTo(h, "release", fcb[f].ccbs \ {h}, IoRemoveShareAccess(h, fcb[f].share))
    BY <1>15, Zenon DEF CompleteCreateFailed
  <2>3. fcb[f].ccbs \ {h} \in SUBSET Handle
    BY <1>15, <1>6
  <2> QED
    BY <1>15, <2>1, <2>2, <2>3, <1>6, <1>7 DEF Stage
<1>16. CASE BreakFailed(h)
  BY <1>15, <1>16 DEF BreakFailed
<1>17. CASE DokanCompleteCreate(h)
  <2>1. CASE CompleteCreateFailed(h)
    BY <2>1, <1>15, <1>17 DEF DokanCompleteCreate
  <2>2. CASE /\ handle' = [handle EXCEPT ![h].pc = "open",
                                         ![h].delOnClose = (h \in DeleteOnClose)]
             /\ fcb' = [fcb EXCEPT ![handle[h].fcb].UncleanCount = @ + 1]
             /\ UNCHANGED <<FcbTable, unmount, collector, notEmpty, renames>>
    <3>1. f \in Fcb
      BY <1>17, <1>6 DEF DokanCompleteCreate
    <3>2. fcb' \in [Fcb -> FcbType]
      <4>1. fcb[f] \in FcbType /\ fcb[f].UncleanCount + 1 \in Int
        BY <3>1 DEF TypeOK, FcbType
      <4>2. [fcb[f] EXCEPT !.UncleanCount = @ + 1] \in FcbType
        BY <4>1, FcbUpdates, Zenon
      <4> QED
        BY <2>2, <3>1, <4>2 DEF TypeOK
    <3>3. handle' \in [Handle -> HandleType]
      <4> DEFINE d == h \in DeleteOnClose
                 v == [handle[h] EXCEPT !.pc = "open"]
                 w == [v EXCEPT !.delOnClose = d]
      <4>1. v \in HandleType
        BY HandleUpdates, Zenon DEF TypeOK, Stage
      <4>2. w \in HandleType
        <5>1. d \in BOOLEAN
          OBVIOUS
        <5> HIDE DEF d
        <5> QED
          BY <4>1, <5>1, HandleUpdates, Zenon
      <4>3. handle' = [handle EXCEPT ![h] = w]
        BY <2>2, Zenon DEF TypeOK
      <4> QED
        BY <4>2, <4>3 DEF TypeOK
    <3> QED
      BY <2>2, <3>2, <3>3, <1>17, Zenon DEF DokanCompleteCreate, TypeOK
  <2> QED
    BY <1>17, <2>1, <2>2 DEF DokanCompleteCreate
<1>18. CASE CreateDropped(h)
  BY <1>18, PcTypes, Zenon DEF CreateDropped, TypeOK, Stage
<1> QED
  BY <1>1, <1>2, <1>3, <1>4, <1>5, <1>8, <1>9, <1>10, <1>11, <1>12, <1>13, <1>14,
     <1>16, <1>17, <1>18 DEF Create

(* Every step of DokanDispatchSetInformation is well typed.                *)
LEMMA SetInformationTypes ==
  ASSUME RefInv, NEW h \in Handle, SetInformation(h)
  PROVE  TypeOK'
<1> USE DEF RefInv
<1> DEFINE f == handle[h].fcb
<1>1. ASSUME NEW op \in Ops, DokanDispatchSetInformation(h, op) PROVE TypeOK'
  BY <1>1, OpTypes, FileHandlesAssumption, Zenon DEF DokanDispatchSetInformation, TypeOK
<1>2. CASE SetInformationFails(h)
  BY <1>2, OpTypes, Zenon DEF SetInformationFails, TypeOK
<1>3. CASE CompleteDisposition(h)
  <2>1. f \in Fcb
    BY <1>3, Held DEF CompleteDisposition
  <2>2. [fcb[f] EXCEPT !.deletePending = (handle[h].op = "delete")] \in FcbType
    BY <2>1, FcbUpdates, Zenon DEF TypeOK
  <2>3. fcb' \in [Fcb -> FcbType]
    BY <1>3, <2>1, <2>2 DEF CompleteDisposition, TypeOK
  <2>4. handle' \in [Handle -> HandleType]
    BY <1>3, OpTypes, Zenon DEF CompleteDisposition, TypeOK
  <2> QED
    BY <1>3, <2>3, <2>4 DEF CompleteDisposition, TypeOK
<1>4. ASSUME NEW n \in Name, DokanRenameFcb(h, n) PROVE TypeOK'
  <2> DEFINE table == [FcbTable EXCEPT ![fcb[f].name] = None]
             g == table[n]
  <2>1. f \in Fcb
    BY <1>4, Held DEF DokanRenameFcb
  <2>2. table \in [Name -> Fcb \cup {None}]
    BY Zenon DEF TypeOK
  <2>3. Renamed(f, n, g) \in [Fcb -> FcbType]
    <3>1. [fcb[f] EXCEPT !.name = n] \in FcbType
      BY <2>1, FcbUpdates, Zenon DEF TypeOK
    <3>2. ASSUME g \in Fcb PROVE [fcb[g] EXCEPT !.ReplacedByRename = TRUE] \in FcbType
      BY <3>2, FcbUpdates, Zenon DEF TypeOK
    <3>3. ASSUME NEW x \in Fcb
          PROVE  (CASE x = f -> [fcb[f] EXCEPT !.name = n]
                    [] x # f /\ x = g /\ fcb[g].garbage # "no" -> FreedFcb
                    [] x # f /\ x = g /\ fcb[g].garbage = "no" ->
                         [fcb[g] EXCEPT !.ReplacedByRename = TRUE]
                    [] OTHER -> fcb[x]) \in FcbType
      BY <3>1, <3>2, FreedTypes DEF TypeOK
    <3> QED
      BY <3>3, Zenon DEF Renamed
  <2>4. fcb' \in [Fcb -> FcbType] /\ FcbTable' \in [Name -> Fcb \cup {None}]
    BY <1>4, <2>1, <2>2, <2>3, Zenon DEF DokanRenameFcb
  <2>5. handle' \in [Handle -> HandleType]
    BY <1>4, OpTypes, Zenon DEF DokanRenameFcb, TypeOK
  <2>6. renames' \in 0 .. MaxRenames
    BY <1>4, FileHandlesAssumption DEF DokanRenameFcb, TypeOK
  <2> QED
    BY <1>4, <2>4, <2>5, <2>6 DEF DokanRenameFcb, TypeOK
<1> QED
  BY <1>1, <1>2, <1>3, <1>4 DEF SetInformation

(* Every step of DokanDispatchCleanup and its completion is well typed.    *)
LEMMA CleanupTypes ==
  ASSUME RefInv, NEW h \in Handle, Cleanup(h)
  PROVE  TypeOK'
<1> USE DEF RefInv
<1> DEFINE f == handle[h].fcb
<1>1. f \in Fcb /\ fcb[f] \in FcbType /\ handle[h] \in HandleType
  BY Held, Zenon DEF TypeOK, Cleanup, DokanDispatchCleanup, CleanupUnmounted, CleanupFlushes,
     CleanupSent, CleanupFails, DokanCompleteCleanup, Referencing, WithCcb, Opened
<1>2. CASE DokanDispatchCleanup(h)
  <2> DEFINE pending == fcb[f].deletePending \/ handle[h].delOnClose
             last == pending /\ fcb[f].UncleanCount = 1
             u == [handle[h] EXCEPT !.pc = "cleanup"]
             v == [u EXCEPT !.delOnClose = FALSE]
             w == [v EXCEPT !.deletes = last]
  <2>1. fcb[f].deletePending \in BOOLEAN /\ handle[h].delOnClose \in BOOLEAN
    BY <1>1 DEF FcbType, HandleType
  <2>2. pending \in BOOLEAN /\ last \in BOOLEAN
    BY <2>1
  <2>3. [fcb[f] EXCEPT !.deletePending = pending] \in FcbType
    BY <1>1, <2>2, FcbUpdates, Zenon
  <2>4. fcb' \in [Fcb -> FcbType]
    BY <1>1, <1>2, <2>3 DEF DokanDispatchCleanup, TypeOK
  <2>5. w \in HandleType
    <3> HIDE DEF last
    <3>1. u \in HandleType
      BY <1>1, HandleUpdates, Zenon DEF Stage
    <3>2. v \in HandleType
      BY <3>1, HandleUpdates, Zenon
    <3> QED
      BY <3>2, <2>2, HandleUpdates, Zenon
  <2>6. handle' = [handle EXCEPT ![h] = w]
    BY <1>2, Zenon DEF DokanDispatchCleanup, TypeOK
  <2>7. handle' \in [Handle -> HandleType]
    BY <2>5, <2>6 DEF TypeOK
  <2> QED
    BY <1>2, <2>4, <2>7 DEF DokanDispatchCleanup, TypeOK
<1>3. ASSUME DokanExecuteCleanup(h)
      PROVE  fcb' \in [Fcb -> FcbType] /\ handle' \in [Handle -> HandleType]
  <2> DEFINE v == [fcb[f] EXCEPT !.UncleanCount = @ - 1]
             w == [v EXCEPT !.share = IoRemoveShareAccess(h, @)]
  <2>1. fcb[f].UncleanCount - 1 \in Int
    BY <1>1 DEF FcbType
  <2>2. v \in FcbType
    BY <1>1, <2>1, FcbUpdates, Zenon
  <2>3. IoRemoveShareAccess(h, v.share) \in [open : Counter, shared : Counter]
    BY <2>2, ShareTypes DEF FcbType
  <2>4. w \in FcbType
    BY <2>2, <2>3, FcbUpdates, Zenon
  <2>5. fcb' = [fcb EXCEPT ![f] = w]
    BY <1>3, <1>1, Zenon DEF DokanExecuteCleanup, TypeOK
  <2>6. handle' \in [Handle -> HandleType]
    BY <1>3, PcTypes, Zenon DEF DokanExecuteCleanup, TypeOK, Stage
  <2> QED
    BY <2>4, <2>5, <2>6, Zenon DEF TypeOK
<1>4. CASE CleanupUnmounted(h)
  BY <1>3, <1>4 DEF CleanupUnmounted, TypeOK
<1>5. CASE CleanupFlushes(h)
  BY <1>5, PcTypes, Zenon DEF CleanupFlushes, TypeOK, Stage
<1>6. CASE CleanupSent(h)
  <2>1. fcb[f].deleted \in BOOLEAN /\ handle[h].deletes \in BOOLEAN
    BY <1>1 DEF FcbType, HandleType
  <2>2. (fcb[f].deleted \/ handle[h].deletes) \in BOOLEAN
    BY <2>1
  <2>3. [fcb[f] EXCEPT !.deleted = @ \/ handle[h].deletes] \in FcbType
    BY <1>1, <2>2, FcbUpdates, Zenon
  <2>4. fcb' \in [Fcb -> FcbType]
    BY <1>1, <1>6, <2>3 DEF CleanupSent, TypeOK
  <2>5. handle' \in [Handle -> HandleType]
    BY <1>6, PcTypes, Zenon DEF CleanupSent, TypeOK, Stage
  <2> QED
    BY <1>6, <2>4, <2>5, Zenon DEF CleanupSent, TypeOK
<1>7. CASE CleanupFails(h)
  <2>1. failures' \in 0 .. MaxFailures
    BY <1>7, FileHandlesAssumption DEF CleanupFails, OneFails, TypeOK
  <2> QED
    BY <1>7, <2>1, PcTypes, Zenon DEF CleanupFails, TypeOK, Stage
<1>8. CASE DokanCompleteCleanup(h)
  BY <1>3, <1>8 DEF DokanCompleteCleanup, TypeOK
<1> QED
  BY <1>2, <1>4, <1>5, <1>6, <1>7, <1>8, Zenon DEF Cleanup

(* Whoever still refers to an FCB is counted.                              *)
LEMMA Counted ==
  ASSUME RefInv, NEW h \in Handle, handle[h].pc \in Referencing
  PROVE  /\ handle[h].fcb \in Fcb /\ fcb[handle[h].fcb].live
         /\ fcb[handle[h].fcb].OpenCount \in Nat \ {0}
<1> DEFINE f == handle[h].fcb
<1>1. f \in Fcb
  BY Held DEF RefInv
<1>2. h \in At(f, Referencing)
  BY DEF At
<1>3. IsFiniteSet(At(f, Referencing))
  BY FileHandlesAssumption, FS_Subset DEF At
<1>4. Cardinality(At(f, Referencing)) # 0 /\ Cardinality(At(f, Referencing)) \in Nat
  BY <1>2, <1>3, FS_EmptySet, FS_CardinalityType
<1> QED
  BY <1>1, <1>2, <1>4 DEF RefInv, OpenCountExact

(* Every step of DokanDispatchClose and DokanFreeFCB is well typed.        *)
LEMMA CloseTypes ==
  ASSUME RefInv, NEW h \in Handle, Close(h)
  PROVE  TypeOK'
<1> USE DEF RefInv
<1> DEFINE f == handle[h].fcb
<1>1. f \in Fcb /\ fcb[f] \in FcbType
  BY Held, Zenon DEF TypeOK, Close, DokanDispatchClose, DokanFreeFCB, FreeLast, Referencing, WithCcb
<1>2. CASE DokanDispatchClose(h)
  <2>1. fcb[f].ccbs \ {h} \in SUBSET Handle
    BY <1>1 DEF FcbType
  <2>2. [fcb[f] EXCEPT !.ccbs = @ \ {h}] \in FcbType
    BY <1>1, <2>1, FcbUpdates, Zenon
  <2>3. fcb' \in [Fcb -> FcbType]
    BY <1>1, <1>2, <2>2 DEF DokanDispatchClose, TypeOK
  <2>4. handle' \in [Handle -> HandleType]
    BY <1>2, PcTypes, Zenon DEF DokanDispatchClose, TypeOK, Stage
  <2> QED
    BY <1>2, <2>3, <2>4 DEF DokanDispatchClose, TypeOK
<1>3. CASE DokanFreeFCB(h)
  <2>1. fcb[f].OpenCount - 1 \in Nat
    BY <1>3, Counted DEF DokanFreeFCB, Referencing
  <2>2. [fcb[f] EXCEPT !.OpenCount = fcb[f].OpenCount - 1] \in FcbType
    BY <1>1, <2>1, FcbUpdates, Zenon
  <2>3. fcb' \in [Fcb -> FcbType]
    BY <1>1, <1>3, <2>2 DEF DokanFreeFCB, TypeOK
  <2>4. [NoHandle EXCEPT !.pc = "last", !.fcb = f] \in HandleType
    BY <1>1, FreedTypes, Zenon DEF NoHandle, HandleType, Stage
  <2>5. handle' \in [Handle -> HandleType]
    BY <1>3, <2>4, FreedTypes, Zenon DEF DokanFreeFCB, TypeOK
  <2> QED
    BY <1>3, <2>3, <2>5, Zenon DEF DokanFreeFCB, TypeOK
<1>4. CASE FreeLast(h)
  <2>1. Deleted({f}) \in [Fcb -> FcbType] /\ WithoutNamesOf({f}) \in [Name -> Fcb \cup {None}]
    BY <1>1, DeletedTypes
  <2>2. [fcb[f] EXCEPT !.garbage = "young"] \in FcbType
    BY <1>1, FcbUpdates, Zenon
  <2>3. [fcb EXCEPT ![f].garbage = "young"] \in [Fcb -> FcbType]
    BY <1>1, <2>2, Zenon DEF TypeOK
  <2>4. handle' \in [Handle -> HandleType]
    BY <1>4, FreedTypes DEF FreeLast, TypeOK
  <2>5. fcb' \in [Fcb -> FcbType] /\ FcbTable' \in [Name -> Fcb \cup {None}] /\ notEmpty' \in BOOLEAN
    BY <1>4, <2>1, <2>3, Zenon DEF FreeLast, TypeOK
  <2> QED
    BY <1>4, <2>4, <2>5 DEF FreeLast, TypeOK
<1> QED
  BY <1>2, <1>3, <1>4, Zenon DEF Close

(* The garbage collector and the unmount are well typed.                   *)
LEMMA CollectorTypes ==
  ASSUME TypeOK, Collector \/ Unmount
  PROVE  TypeOK'
<1>1. CASE CollectorWakes
  BY <1>1, Zenon DEF CollectorWakes, TypeOK
<1>2. CASE CollectorPass
  <2> DEFINE aged  == {f \in Fcb : fcb[f].garbage = "aged"}
             young == {f \in Fcb : fcb[f].garbage = "young"}
  <2>1. Deleted(aged) \in [Fcb -> FcbType] /\ WithoutNamesOf(aged) \in [Name -> Fcb \cup {None}]
    BY DeletedTypes
  <2>2. ASSUME NEW f \in Fcb PROVE [fcb[f] EXCEPT !.garbage = "aged"] \in FcbType
    BY FcbUpdates, Zenon DEF TypeOK
  <2>3. fcb' \in [Fcb -> FcbType]
    BY <1>2, <2>1, <2>2 DEF CollectorPass
  <2>4. FcbTable' \in [Name -> Fcb \cup {None}]
    BY <1>2, <2>1 DEF CollectorPass
  <2>5. (notEmpty /\ young # {}) \in BOOLEAN
    OBVIOUS
  <2>6. notEmpty' \in BOOLEAN /\ collector' \in {"wait", "timer"}
    BY <1>2, <2>5 DEF CollectorPass
  <2> QED
    BY <1>2, <2>3, <2>4, <2>6, Zenon DEF CollectorPass, TypeOK
<1>3. CASE CollectorTimer
  BY <1>3 DEF CollectorTimer, TypeOK
<1>4. CASE CollectorEnds
  BY <1>4 DEF CollectorEnds, TypeOK
<1>5. CASE DokanStopFcbGarbageCollectorThread
  BY <1>5 DEF DokanStopFcbGarbageCollectorThread, TypeOK
<1>6. CASE Unmount
  BY <1>6 DEF Unmount, TypeOK
<1> QED
  BY <1>1, <1>2, <1>3, <1>4, <1>5, <1>6 DEF Collector

(* Every step is well typed.                                               *)
LEMMA TypeStep ==
  ASSUME RefInv, [Next]_vars
  PROVE  TypeOK'
<1>1. CASE UNCHANGED vars
  BY <1>1 DEF vars, RefInv, TypeOK
<1>2. CASE Collector \/ Unmount
  BY <1>2, CollectorTypes DEF RefInv
<1>3. ASSUME NEW h \in Handle, Create(h) \/ SetInformation(h) \/ Cleanup(h) \/ Close(h)
      PROVE  TypeOK'
  BY <1>3, CreateTypes, SetInformationTypes, CleanupTypes, CloseTypes
<1> QED
  BY <1>1, <1>2, <1>3 DEF Next

-----------------------------------------------------------------------------
(* What the steps between DokanGetFCB and DokanFreeFCB do: a file object     *)
(* goes on to another stage, and of its FCB only the list of CCBs, the       *)
(* unclean count and the share access may change.                            *)

OthersSame(h) == \A k \in Handle \ {h} : handle'[k] = handle[k]

SameReferences(f) ==
  /\ fcb'[f].live = fcb[f].live /\ fcb'[f].name = fcb[f].name
  /\ fcb'[f].OpenCount = fcb[f].OpenCount /\ fcb'[f].garbage = fcb[f].garbage
  /\ fcb'[f].ReplacedByRename = fcb[f].ReplacedByRename

Acts(h, pc, ccbs, unclean, share) ==
  LET f == handle[h].fcb
  IN /\ handle[h].pc \in Referencing /\ pc \in Referencing
     /\ handle'[h].pc = pc /\ handle'[h].fcb = f
     /\ OthersSame(h)
     /\ \A x \in Fcb \ {f} : fcb'[x] = fcb[x]
     /\ SameReferences(f)
     /\ fcb'[f].ccbs = ccbs /\ fcb'[f].UncleanCount = unclean /\ fcb'[f].share = share
     /\ UNCHANGED <<FcbTable, collector, notEmpty, renames>>

\* The same with an FCB that is not touched at all.
OnlyMoves(h, pc) ==
  LET f == handle[h].fcb
  IN Acts(h, pc, fcb[f].ccbs, fcb[f].UncleanCount, fcb[f].share)

(* A step of a create on its FCB changes one FCB and one file object.      *)
LEMMA CreateToActs ==
  ASSUME RefInv, NEW h \in Handle, handle[h].pc \in Referencing, NEW pc \in Referencing,
         NEW ccbs, NEW share, CreateTo(h, pc, ccbs, share)
  PROVE  Acts(h, pc, ccbs, fcb[handle[h].fcb].UncleanCount, share)
<1> DEFINE f == handle[h].fcb
<1>1. f \in Fcb
  BY Held DEF RefInv
<1>2. fcb[f] \in FcbType /\ handle[h] \in HandleType
  BY <1>1 DEF RefInv, TypeOK
<1>3. \A x \in Fcb \ {f} : fcb'[x] = fcb[x]
  BY DEF RefInv, TypeOK, CreateTo
<1>4. fcb'[f] = [fcb[f] EXCEPT !.ccbs = ccbs, !.share = share]
  BY <1>1, Zenon DEF RefInv, TypeOK, CreateTo
<1>5. SameReferences(f) /\ fcb'[f].UncleanCount = fcb[f].UncleanCount
      /\ fcb'[f].ccbs = ccbs /\ fcb'[f].share = share
  BY <1>2, <1>4 DEF FcbType, SameReferences
<1>6. OthersSame(h) /\ handle'[h] = [handle[h] EXCEPT !.pc = pc]
  BY DEF RefInv, TypeOK, CreateTo, OthersSame
<1>7. handle'[h].pc = pc /\ handle'[h].fcb = f
  BY <1>2, <1>6 DEF HandleType
<1>8. UNCHANGED <<FcbTable, collector, notEmpty, renames>>
  BY DEF CreateTo
<1> QED
  BY <1>3, <1>5, <1>6, <1>7, <1>8 DEF Acts

(* A step that only moves the file object on changes no FCB.               *)
LEMMA MoveActs ==
  ASSUME RefInv, NEW h \in Handle, handle[h].pc \in Referencing, NEW pc \in Referencing,
         handle' = [handle EXCEPT ![h].pc = pc], UNCHANGED <<fcb, FcbTable, collector, notEmpty, renames>>
  PROVE  OnlyMoves(h, pc)
<1>1. handle[h] \in HandleType
  BY DEF RefInv, TypeOK
<1>2. OthersSame(h) /\ handle'[h] = [handle[h] EXCEPT !.pc = pc]
  BY DEF RefInv, TypeOK, OthersSame
<1>3. handle'[h].pc = pc /\ handle'[h].fcb = handle[h].fcb
  BY <1>1, <1>2 DEF HandleType
<1> QED
  BY <1>2, <1>3 DEF Acts, OnlyMoves, SameReferences

(* Neither does the start or the end of a set-information request.         *)
LEMMA OpActs ==
  ASSUME RefInv, NEW h \in Handle, handle[h].pc \in Referencing, NEW op,
         handle' = [handle EXCEPT ![h].op = op], UNCHANGED <<fcb, FcbTable, collector, notEmpty, renames>>
  PROVE  OnlyMoves(h, handle[h].pc)
<1>1. handle[h] \in HandleType
  BY DEF RefInv, TypeOK
<1>2. OthersSame(h) /\ handle'[h] = [handle[h] EXCEPT !.op = op]
  BY DEF RefInv, TypeOK, OthersSame
<1>3. handle'[h].pc = handle[h].pc /\ handle'[h].fcb = handle[h].fcb
  BY <1>1, <1>2 DEF HandleType
<1> QED
  BY <1>2, <1>3 DEF Acts, OnlyMoves, SameReferences

(* The steps of a create once it has its FCB.                              *)
LEMMA CreateActs ==
  ASSUME RefInv, NEW h \in Handle
  PROVE  LET f == handle[h].fcb
         IN /\ CreateRefused(h) => OnlyMoves(h, "release")
            /\ CreateDenied(h) =>
                 Acts(h, "release", fcb[f].ccbs \ {h}, fcb[f].UncleanCount, fcb[f].share)
            /\ CreateBreaksHandles(h) =>
                 Acts(h, "breaking", fcb[f].ccbs \cup {h}, fcb[f].UncleanCount, fcb[f].share)
            /\ CreateBreaksOplock(h) =>
                 Acts(h, "breaking", fcb[f].ccbs \cup {h}, fcb[f].UncleanCount, WithShare(h, f))
            /\ CreateUnwound(h) =>
                 Acts(h, "release", fcb[f].ccbs \ {h}, fcb[f].UncleanCount,
                      IoRemoveShareAccess(h, WithShare(h, f)))
            /\ CreateSent(h) =>
                 Acts(h, "pending", fcb[f].ccbs \cup {h}, fcb[f].UncleanCount, WithShare(h, f))
            /\ CreateRetried(h) => OnlyMoves(h, "retry")
            /\ CreateRetryFails(h) \/ CreateDropped(h) => OnlyMoves(h, "lost")
<1> DEFINE f == handle[h].fcb
<1> USE DEF Referencing, WithCcb, Opened
<1>1. CreateRefused(h) => OnlyMoves(h, "release")
  BY MoveActs, Zenon DEF CreateRefused
<1>2. Creating(h) => handle[h].pc \in Referencing
  BY Zenon DEF Creating
<1>3. CreateDenied(h) =>
        Acts(h, "release", fcb[f].ccbs \ {h}, fcb[f].UncleanCount, fcb[f].share)
  BY <1>2, CreateToActs, Zenon DEF CreateDenied
<1>4. CreateBreaksHandles(h) =>
        Acts(h, "breaking", fcb[f].ccbs \cup {h}, fcb[f].UncleanCount, fcb[f].share)
  BY <1>2, CreateToActs, Zenon DEF CreateBreaksHandles
<1>5. CreateBreaksOplock(h) =>
        Acts(h, "breaking", fcb[f].ccbs \cup {h}, fcb[f].UncleanCount, WithShare(h, f))
  BY <1>2, CreateToActs, Zenon DEF CreateBreaksOplock
<1>6. CreateUnwound(h) =>
        Acts(h, "release", fcb[f].ccbs \ {h}, fcb[f].UncleanCount,
             IoRemoveShareAccess(h, WithShare(h, f)))
  BY <1>2, CreateToActs, Zenon DEF CreateUnwound
<1>7. CreateSent(h) =>
        Acts(h, "pending", fcb[f].ccbs \cup {h}, fcb[f].UncleanCount, WithShare(h, f))
  BY <1>2, CreateToActs DEF CreateSent
<1>8. CreateRetried(h) => OnlyMoves(h, "retry")
  BY MoveActs, Zenon DEF CreateRetried
<1>9. CreateRetryFails(h) \/ CreateDropped(h) => OnlyMoves(h, "lost")
  BY MoveActs, Zenon DEF CreateRetryFails, CreateDropped
<1> QED
  BY <1>1, <1>3, <1>4, <1>5, <1>6, <1>7, <1>8, <1>9, Zenon

(* What the outcomes of DokanCompleteCreate do to the FCB.                 *)
LEMMA CompleteCreateActs ==
  ASSUME RefInv, NEW h \in Handle
  PROVE  LET f == handle[h].fcb
         IN /\ BreakFailed(h) \/ (DokanCompleteCreate(h) /\ CompleteCreateFailed(h)) =>
                 Acts(h, "release", fcb[f].ccbs \ {h}, fcb[f].UncleanCount,
                      IoRemoveShareAccess(h, fcb[f].share))
            /\ DokanCompleteCreate(h) /\ ~CompleteCreateFailed(h) =>
                 Acts(h, "open", fcb[f].ccbs, fcb[f].UncleanCount + 1, fcb[f].share)
<1> DEFINE f == handle[h].fcb
<1>1. ASSUME BreakFailed(h) \/ (DokanCompleteCreate(h) /\ CompleteCreateFailed(h))
      PROVE  Acts(h, "release", fcb[f].ccbs \ {h}, fcb[f].UncleanCount,
                  IoRemoveShareAccess(h, fcb[f].share))
  <2>1. handle[h].pc \in Referencing /\ "release" \in Referencing
    BY <1>1, Zenon DEF BreakFailed, DokanCompleteCreate, Referencing, WithCcb
  <2>2. CreateTo(h, "release", fcb[f].ccbs \ {h}, IoRemoveShareAccess(h, fcb[f].share))
    BY <1>1, Zenon DEF BreakFailed, CompleteCreateFailed
  <2> QED
    BY <2>1, <2>2, CreateToActs
<1>2. ASSUME DokanCompleteCreate(h), ~CompleteCreateFailed(h)
      PROVE  Acts(h, "open", fcb[f].ccbs, fcb[f].UncleanCount + 1, fcb[f].share)
  <2>1. handle[h].pc \in Referencing /\ "open" \in Referencing
    BY <1>2 DEF DokanCompleteCreate, Referencing, WithCcb, Opened
  <2>2. /\ handle' = [handle EXCEPT ![h].pc = "open",
                                    ![h].delOnClose = (h \in DeleteOnClose)]
        /\ fcb' = [fcb EXCEPT ![f].UncleanCount = @ + 1]
        /\ UNCHANGED <<FcbTable, collector, notEmpty, renames>>
    BY <1>2 DEF DokanCompleteCreate
  <2>3. f \in Fcb /\ fcb[f] \in FcbType /\ handle[h] \in HandleType
    BY <2>1, Held DEF RefInv, TypeOK
  <2>4. /\ \A x \in Fcb \ {f} : fcb'[x] = fcb[x]
        /\ fcb'[f] = [fcb[f] EXCEPT !.UncleanCount = @ + 1]
    BY <2>2, <2>3, Zenon DEF RefInv, TypeOK
  <2>5. SameReferences(f) /\ fcb'[f].UncleanCount = fcb[f].UncleanCount + 1
        /\ fcb'[f].ccbs = fcb[f].ccbs /\ fcb'[f].share = fcb[f].share
    BY <2>3, <2>4 DEF FcbType, SameReferences
  <2>6. OthersSame(h) /\ handle'[h] = [handle[h] EXCEPT !.pc = "open",
                                                 !.delOnClose = (h \in DeleteOnClose)]
    BY <2>2 DEF RefInv, TypeOK, OthersSame
  <2>7. handle'[h].pc = "open" /\ handle'[h].fcb = f
    BY <2>3, <2>6 DEF HandleType
  <2> QED
    BY <2>1, <2>2, <2>4, <2>5, <2>6, <2>7 DEF Acts
<1> QED
  BY <1>1, <1>2, Zenon

(* The set-information requests other than a rename.                       *)
LEMMA DispositionActs ==
  ASSUME RefInv, NEW h \in Handle,
         \/ \E op \in Ops : DokanDispatchSetInformation(h, op)
         \/ SetInformationFails(h) \/ CompleteDisposition(h)
  PROVE  OnlyMoves(h, handle[h].pc)
<1> DEFINE f == handle[h].fcb
<1>1. handle[h].pc \in Referencing
  BY Zenon DEF DokanDispatchSetInformation, SetInformationFails, CompleteDisposition, RefInv,
     HandlesPoint, Referencing, WithCcb, Opened
<1>2. CASE (\E op \in Ops : DokanDispatchSetInformation(h, op)) \/ SetInformationFails(h)
  BY <1>1, <1>2, OpActs, Zenon DEF DokanDispatchSetInformation, SetInformationFails
<1>3. CASE CompleteDisposition(h)
  <2>1. /\ fcb' = [fcb EXCEPT ![f].deletePending = (handle[h].op = "delete")]
        /\ handle' = [handle EXCEPT ![h].op = "no"]
        /\ UNCHANGED <<FcbTable, collector, notEmpty, renames>>
    BY <1>3 DEF CompleteDisposition
  <2>2. f \in Fcb /\ fcb[f] \in FcbType /\ handle[h] \in HandleType
    BY <1>1, Held DEF RefInv, TypeOK
  <2>3. /\ \A x \in Fcb \ {f} : fcb'[x] = fcb[x]
        /\ fcb'[f] = [fcb[f] EXCEPT !.deletePending = (handle[h].op = "delete")]
    BY <2>1, <2>2, Zenon DEF RefInv, TypeOK
  <2>4. SameReferences(f) /\ fcb'[f].UncleanCount = fcb[f].UncleanCount
        /\ fcb'[f].ccbs = fcb[f].ccbs /\ fcb'[f].share = fcb[f].share
    BY <2>2, <2>3 DEF FcbType, SameReferences
  <2>5. OthersSame(h) /\ handle'[h] = [handle[h] EXCEPT !.op = "no"]
    BY <2>1 DEF RefInv, TypeOK, OthersSame
  <2>6. handle'[h].pc = handle[h].pc /\ handle'[h].fcb = f
    BY <2>2, <2>5, Zenon DEF HandleType
  <2> QED
    BY <1>1, <2>1, <2>3, <2>4, <2>5, <2>6 DEF Acts, OnlyMoves
<1> QED
  BY <1>2, <1>3, Zenon

(* Cleanup and close.                                                      *)
LEMMA CleanupActs ==
  ASSUME RefInv, NEW h \in Handle
  PROVE  LET f == handle[h].fcb
         IN /\ DokanDispatchCleanup(h) => OnlyMoves(h, "cleanup")
            /\ CleanupFlushes(h) => OnlyMoves(h, "flushed")
            /\ CleanupSent(h) => OnlyMoves(h, "cleaning")
            /\ CleanupFails(h) => OnlyMoves(h, "cleaned")
            /\ CleanupUnmounted(h) \/ DokanCompleteCleanup(h) =>
                 Acts(h, "cleaned", fcb[f].ccbs, fcb[f].UncleanCount - 1,
                      IoRemoveShareAccess(h, fcb[f].share))
            /\ DokanDispatchClose(h) =>
                 Acts(h, "release", fcb[f].ccbs \ {h}, fcb[f].UncleanCount, fcb[f].share)
<1> DEFINE f == handle[h].fcb
<1> USE DEF Referencing, WithCcb, Opened
<1>1. CleanupFlushes(h) => OnlyMoves(h, "flushed")
  BY MoveActs, Zenon DEF CleanupFlushes
<1>2. CleanupFails(h) => OnlyMoves(h, "cleaned")
  BY MoveActs, Zenon DEF CleanupFails
<1>3. ASSUME handle[h].pc \in Referencing
      PROVE  f \in Fcb /\ fcb[f] \in FcbType /\ handle[h] \in HandleType
  BY <1>3, Held DEF RefInv, TypeOK
<1>4. ASSUME DokanDispatchCleanup(h) PROVE OnlyMoves(h, "cleanup")
  <2>1. PICK pending, last :
          /\ fcb' = [fcb EXCEPT ![f].deletePending = pending]
          /\ handle' = [handle EXCEPT ![h].pc = "cleanup", ![h].delOnClose = FALSE,
                                      ![h].deletes = last]
    BY <1>4, Zenon DEF DokanDispatchCleanup
  <2>2. handle[h].pc = "open" /\ UNCHANGED <<FcbTable, collector, notEmpty, renames>>
    BY <1>4 DEF DokanDispatchCleanup
  <2>3. f \in Fcb /\ fcb[f] \in FcbType /\ handle[h] \in HandleType
    BY <1>3, <2>2
  <2>4. /\ \A x \in Fcb \ {f} : fcb'[x] = fcb[x]
        /\ fcb'[f] = [fcb[f] EXCEPT !.deletePending = pending]
    BY <2>1, <2>3 DEF RefInv, TypeOK
  <2>5. SameReferences(f) /\ fcb'[f].UncleanCount = fcb[f].UncleanCount
        /\ fcb'[f].ccbs = fcb[f].ccbs /\ fcb'[f].share = fcb[f].share
    BY <2>3, <2>4 DEF FcbType, SameReferences
  <2>6. OthersSame(h) /\ handle'[h] = [handle[h] EXCEPT !.pc = "cleanup",
                                          !.delOnClose = FALSE, !.deletes = last]
    BY <2>1 DEF RefInv, TypeOK, OthersSame
  <2>7. handle'[h].pc = "cleanup" /\ handle'[h].fcb = f
    BY <2>3, <2>6, Zenon DEF HandleType
  <2> QED
    BY <2>2, <2>4, <2>5, <2>6, <2>7, Zenon DEF Acts, OnlyMoves
<1>5. ASSUME CleanupSent(h) PROVE OnlyMoves(h, "cleaning")
  <2>1. /\ fcb' = [fcb EXCEPT ![f].deleted = @ \/ handle[h].deletes]
        /\ handle' = [handle EXCEPT ![h].pc = "cleaning"]
        /\ handle[h].pc = "flushed" /\ UNCHANGED <<FcbTable, collector, notEmpty, renames>>
    BY <1>5 DEF CleanupSent
  <2>2. f \in Fcb /\ fcb[f] \in FcbType /\ handle[h] \in HandleType
    BY <1>3, <2>1
  <2>3. /\ \A x \in Fcb \ {f} : fcb'[x] = fcb[x]
        /\ fcb'[f] = [fcb[f] EXCEPT !.deleted = @ \/ handle[h].deletes]
    BY <2>1, <2>2, Zenon DEF RefInv, TypeOK
  <2>4. SameReferences(f) /\ fcb'[f].UncleanCount = fcb[f].UncleanCount
        /\ fcb'[f].ccbs = fcb[f].ccbs /\ fcb'[f].share = fcb[f].share
    BY <2>2, <2>3 DEF FcbType, SameReferences
  <2>5. OthersSame(h) /\ handle'[h] = [handle[h] EXCEPT !.pc = "cleaning"]
    BY <2>1 DEF RefInv, TypeOK, OthersSame
  <2>6. handle'[h].pc = "cleaning" /\ handle'[h].fcb = f
    BY <2>2, <2>5 DEF HandleType
  <2> QED
    BY <2>1, <2>3, <2>4, <2>5, <2>6 DEF Acts, OnlyMoves
<1>6. ASSUME CleanupUnmounted(h) \/ DokanCompleteCleanup(h)
      PROVE  Acts(h, "cleaned", fcb[f].ccbs, fcb[f].UncleanCount - 1,
                  IoRemoveShareAccess(h, fcb[f].share))
  <2>1. /\ DokanExecuteCleanup(h) /\ handle[h].pc \in {"cleanup", "cleaning"}
        /\ UNCHANGED <<FcbTable, collector, notEmpty, renames>>
    BY <1>6 DEF CleanupUnmounted, DokanCompleteCleanup
  <2>2. f \in Fcb /\ fcb[f] \in FcbType /\ handle[h] \in HandleType
    BY <1>3, <2>1, Zenon
  <2>3. /\ \A x \in Fcb \ {f} : fcb'[x] = fcb[x]
        /\ fcb'[f] = [fcb[f] EXCEPT !.UncleanCount = fcb[f].UncleanCount - 1,
                                    !.share = IoRemoveShareAccess(h, fcb[f].share)]
    <3> DEFINE v == [fcb EXCEPT ![f].UncleanCount = @ - 1]
               w == [v EXCEPT ![f].share = IoRemoveShareAccess(h, @)]
    <3>1. v[f].share = fcb[f].share /\ fcb' = w
      BY <2>1, <2>2 DEF RefInv, TypeOK, FcbType, DokanExecuteCleanup
    <3> QED
      BY <2>2, <3>1, Zenon DEF RefInv, TypeOK
  <2>4. SameReferences(f) /\ fcb'[f].UncleanCount = fcb[f].UncleanCount - 1
        /\ fcb'[f].ccbs = fcb[f].ccbs
        /\ fcb'[f].share = IoRemoveShareAccess(h, fcb[f].share)
    BY <2>2, <2>3 DEF FcbType, SameReferences
  <2>5. OthersSame(h) /\ handle'[h] = [handle[h] EXCEPT !.pc = "cleaned"]
    BY <2>1 DEF RefInv, TypeOK, OthersSame, DokanExecuteCleanup
  <2>6. handle'[h].pc = "cleaned" /\ handle'[h].fcb = f
    BY <2>2, <2>5, Zenon DEF HandleType
  <2> QED
    BY <2>1, <2>3, <2>4, <2>5, <2>6, Zenon DEF Acts
<1>7. ASSUME DokanDispatchClose(h)
      PROVE  Acts(h, "release", fcb[f].ccbs \ {h}, fcb[f].UncleanCount, fcb[f].share)
  <2>1. /\ fcb' = [fcb EXCEPT ![f].ccbs = @ \ {h}]
        /\ handle' = [handle EXCEPT ![h].pc = "release"]
        /\ handle[h].pc = "cleaned" /\ UNCHANGED <<FcbTable, collector, notEmpty, renames>>
    BY <1>7 DEF DokanDispatchClose
  <2>2. f \in Fcb /\ fcb[f] \in FcbType /\ handle[h] \in HandleType
    BY <1>3, <2>1
  <2>3. /\ \A x \in Fcb \ {f} : fcb'[x] = fcb[x]
        /\ fcb'[f] = [fcb[f] EXCEPT !.ccbs = @ \ {h}]
    BY <2>1, <2>2, Zenon DEF RefInv, TypeOK
  <2>4. SameReferences(f) /\ fcb'[f].UncleanCount = fcb[f].UncleanCount
        /\ fcb'[f].ccbs = fcb[f].ccbs \ {h} /\ fcb'[f].share = fcb[f].share
    BY <2>2, <2>3 DEF FcbType, SameReferences
  <2>5. OthersSame(h) /\ handle'[h] = [handle[h] EXCEPT !.pc = "release"]
    BY <2>1 DEF RefInv, TypeOK, OthersSame
  <2>6. handle'[h].pc = "release" /\ handle'[h].fcb = f
    BY <2>2, <2>5 DEF HandleType
  <2> QED
    BY <2>1, <2>3, <2>4, <2>5, <2>6 DEF Acts
<1> QED
  BY <1>1, <1>2, <1>4, <1>5, <1>6, <1>7

-----------------------------------------------------------------------------
(* How the file objects at a stage change when one of them moves.            *)

(* The file objects at an FCB after a step of h: with h or without it.     *)
LEMMA AtMoves ==
  ASSUME NEW h \in Handle, OthersSame(h), NEW f, NEW S
  PROVE  /\ handle'[h].fcb = f /\ handle'[h].pc \in S => At(f, S)' = At(f, S) \cup {h}
         /\ ~(handle'[h].fcb = f /\ handle'[h].pc \in S) => At(f, S)' = At(f, S) \ {h}
  BY DEF At, OthersSame

(* They are the same when h stays where it was.                            *)
LEMMA AtSame ==
  ASSUME NEW h \in Handle, OthersSame(h), NEW f, NEW S,
         (handle[h].fcb = f /\ handle[h].pc \in S) <=> (handle'[h].fcb = f /\ handle'[h].pc \in S)
  PROVE  At(f, S)' = At(f, S)
  BY DEF At, OthersSame

(* Counting them.                                                          *)
LEMMA AtFinite ==
  ASSUME NEW f, NEW S
  PROVE  /\ IsFiniteSet(At(f, S)) /\ Cardinality(At(f, S)) \in Nat
         /\ Cardinality(At(f, S)) = 0 <=> At(f, S) = {}
         /\ \A h \in Handle :
              /\ h \in At(f, S) =>
                   Cardinality(At(f, S) \ {h}) = Cardinality(At(f, S)) - 1
              /\ h \notin At(f, S) =>
                   Cardinality(At(f, S) \cup {h}) = Cardinality(At(f, S)) + 1
<1>1. IsFiniteSet(At(f, S))
  BY FileHandlesAssumption, FS_Subset DEF At
<1> QED
  BY <1>1, FS_CardinalityType, FS_EmptySet, FS_AddElement, FS_RemoveElement, Zenon

-----------------------------------------------------------------------------
(* The reference counts.                                                     *)

\* The FCBs fs fit the file objects: what RefInv says of fcb.
Fits(fs) ==
  \A f \in Fcb :
    /\ fs[f].OpenCount = Cardinality(At(f, Referencing))
    /\ At(f, Referencing) # {} => fs[f].live
    /\ fs[f].live => fs[f].name \in Name
    /\ fs[f].garbage # "no" =>
         fs[f].live /\ fs[f].OpenCount = 0 /\ ~fs[f].ReplacedByRename

(* The invariant is the fit of the FCBs to the file objects.               *)
LEMMA RefInvFits == RefInv <=> TypeOK /\ HandlesPoint /\ Fits(fcb)
  BY DEF RefInv, Fits, OpenCountExact, NamesKnown, GarbageUnused, Garbage

(* A step that changes no reference has only to keep the fit.              *)
LEMMA FitsStep ==
  ASSUME \A f \in Fcb : At(f, Referencing)' = At(f, Referencing), Fits(fcb'),
         TypeOK', HandlesPoint'
  PROVE  RefInv'
<1>1. Fits(fcb)'
  BY Zenon DEF Fits
<1> QED
  BY <1>1, Zenon DEF RefInv, Fits, OpenCountExact, NamesKnown, GarbageUnused, Garbage

(* FCBs that nobody refers to may be freed: the collector, a forced        *)
(* collection and the last close free only such FCBs.                      *)
LEMMA DeletedFits ==
  ASSUME Fits(fcb), NEW G \in SUBSET Fcb, \A f \in G : fcb[f].OpenCount = 0
  PROVE  Fits(Deleted(G))
<1> SUFFICES ASSUME NEW f \in Fcb
             PROVE  /\ Deleted(G)[f].OpenCount = Cardinality(At(f, Referencing))
                    /\ At(f, Referencing) # {} => Deleted(G)[f].live
                    /\ Deleted(G)[f].live => Deleted(G)[f].name \in Name
                    /\ Deleted(G)[f].garbage # "no" =>
                         /\ Deleted(G)[f].live /\ Deleted(G)[f].OpenCount = 0
                         /\ ~Deleted(G)[f].ReplacedByRename
  BY Zenon DEF Fits
<1>1. CASE f \in G
  <2>1. Deleted(G)[f] = FreedFcb
    BY <1>1, Zenon DEF Deleted
  <2>2. Cardinality(At(f, Referencing)) = 0 /\ At(f, Referencing) = {}
    BY <1>1, AtFinite, Zenon DEF Fits
  <2> QED
    BY <2>1, <2>2 DEF FreedFcb
<1>2. CASE f \notin G
  <2>1. Deleted(G)[f] = fcb[f]
    BY <1>2 DEF Deleted
  <2> QED
    BY <2>1 DEF Fits
<1> QED
  BY <1>1, <1>2, Zenon

(* A step on a referenced FCB keeps the references counted.                *)
LEMMA ActsRefs ==
  ASSUME RefInv, TypeOK', HandlesPoint', NEW h \in Handle,
         NEW pc, NEW ccbs, NEW unclean, NEW share, Acts(h, pc, ccbs, unclean, share)
  PROVE  RefInv'
<1>1. ASSUME NEW f \in Fcb PROVE At(f, Referencing)' = At(f, Referencing)
  BY AtSame DEF Acts
<1>2. ASSUME NEW f \in Fcb PROVE SameReferences(f)
  BY Zenon DEF Acts, SameReferences
<1>3. Fits(fcb')
  BY <1>2, RefInvFits, Zenon DEF Fits, SameReferences
<1> QED
  BY <1>1, <1>3, FitsStep, Zenon

(* Only where a thread takes or drops its FCB does it enter or leave the   *)
(* set of those that refer to one.                                         *)
LEMMA HandlesPointStep ==
  ASSUME RefInv, [Next]_vars
  PROVE  HandlesPoint'
<1> USE DEF Referencing, WithCcb, Opened
<1>1. CASE UNCHANGED vars
  BY <1>1, Zenon DEF vars, RefInv, HandlesPoint
<1>2. CASE Collector \/ Unmount
  <2>1. UNCHANGED handle
    BY <1>2, Zenon DEF Collector, CollectorWakes, CollectorPass, CollectorTimer, CollectorEnds,
       DokanStopFcbGarbageCollectorThread, Unmount
  <2> QED
    BY <2>1 DEF RefInv, HandlesPoint
<1>3. ASSUME NEW h \in Handle, Create(h) \/ SetInformation(h) \/ Cleanup(h) \/ Close(h)
      PROVE  HandlesPoint'
  <2> USE DEF RefInv, TypeOK, HandlesPoint
  <2>1. handle[h] \in HandleType /\ None \notin Fcb
    BY FileHandlesAssumption, Zenon
  <2>2. ASSUME OthersSame(h), handle'[h].fcb \in Fcb <=> handle'[h].pc \in Referencing \cup {"last"},
               handle'[h].op # "no" => handle'[h].pc \in Opened \cup {"cleaned"}
        PROVE  HandlesPoint'
    BY <2>2 DEF OthersSame
  <2>3. ASSUME NEW p \in Referencing, handle[h].pc \in Referencing,
               handle' = [handle EXCEPT ![h].pc = p],
               handle[h].pc \in Opened \cup {"cleaned"} => p \in Opened \cup {"cleaned"} \/ handle[h].op = "no"
        PROVE  HandlesPoint'
    <3>1. OthersSame(h) /\ handle'[h] = [handle[h] EXCEPT !.pc = p]
      BY <2>3 DEF OthersSame
    <3>2. handle'[h].pc = p /\ handle'[h].fcb = handle[h].fcb /\ handle'[h].op = handle[h].op
      BY <3>1, <2>1, Zenon DEF HandleType
    <3> QED
      BY <2>2, <2>3, <3>1, <3>2
  <2>4. ASSUME handle' = [handle EXCEPT ![h] = NoHandle] PROVE HandlesPoint'
    <3>1. OthersSame(h) /\ handle'[h] = NoHandle
      BY <2>4, Zenon DEF OthersSame
    <3> QED
      BY <2>1, <2>2, <3>1 DEF NoHandle
  <2>5. ASSUME NEW f \in Fcb, handle' = [handle EXCEPT ![h].pc = "got", ![h].fcb = f],
               handle[h].pc = "entered"
        PROVE  HandlesPoint'
    <3>1. OthersSame(h) /\ handle'[h] = [handle[h] EXCEPT !.pc = "got", !.fcb = f]
      BY <2>5 DEF OthersSame
    <3>2. handle'[h].pc = "got" /\ handle'[h].fcb = f /\ handle'[h].op = handle[h].op
      BY <3>1, <2>1, Zenon DEF HandleType
    <3> QED
      BY <2>2, <2>5, <3>1, <3>2
  <2>6. ASSUME NEW n \in Name, NEW fs, NEW table \in [Name -> Fcb \cup {None}],
               GetOrCreate(h, n, fs, table), handle[h].pc = "entered"
        PROVE  HandlesPoint'
    BY <2>5, <2>6 DEF GetOrCreate, Find, Insert
  <2>7. ASSUME Create(h) PROVE HandlesPoint'
    <3>1. CASE DispatchCreate(h)
      <4>1. OthersSame(h) /\ handle'[h] = [handle[h] EXCEPT !.pc = "entered"]
        BY <3>1 DEF OthersSame, DispatchCreate
      <4>2. /\ handle'[h].pc = "entered" /\ handle'[h].fcb = handle[h].fcb
            /\ handle'[h].op = handle[h].op
        BY <4>1, <2>1 DEF HandleType
      <4> QED
        BY <2>2, <3>1, <4>1, <4>2 DEF DispatchCreate
    <3>2. CASE CreateFails(h)
      BY <3>2, <2>4, Zenon DEF CreateFails
    <3>3. CASE CreateRefused(h) \/ CreateRetried(h) \/ CreateRetryFails(h) \/ CreateDropped(h)
      BY <3>3, <2>3, Zenon DEF CreateRefused, CreateRetried, CreateRetryFails, CreateDropped
    <3>4. ASSUME NEW n \in Name, DokanGetFCB(h, n) PROVE HandlesPoint'
      BY <3>4, <2>6, Zenon DEF DokanGetFCB
    <3>5. ASSUME NEW n \in Name, GetFcbForced(h, n) PROVE HandlesPoint'
      <4>1. WithoutNamesOf(Garbage) \in [Name -> Fcb \cup {None}]
        BY DeletedTypes, Zenon DEF Garbage
      <4> QED
        BY <3>5, <4>1, <2>6, <2>4, Zenon DEF GetFcbForced
    <3>6. CASE CreateDenied(h) \/ CreateBreaksHandles(h) \/ CreateBreaksOplock(h)
               \/ CreateUnwound(h) \/ CreateSent(h) \/ BreakFailed(h)
      <4>1. PICK p \in {"release", "breaking", "pending"} :
              handle' = [handle EXCEPT ![h].pc = p]
        BY <3>6, Zenon DEF CreateDenied, CreateBreaksHandles, CreateBreaksOplock, CreateUnwound,
           CreateSent, BreakFailed, CompleteCreateFailed, CreateTo
      <4>2. handle[h].pc \in {"got", "retry", "breaking"}
        BY <3>6, Zenon DEF CreateDenied, CreateBreaksHandles, CreateBreaksOplock, CreateUnwound,
           CreateSent, BreakFailed, Creating
      <4> QED
        BY <4>1, <4>2, <2>3
    <3>7. CASE DokanCompleteCreate(h)
      <4>1. CASE CompleteCreateFailed(h)
        BY <3>7, <4>1, <2>3, Zenon DEF DokanCompleteCreate, CompleteCreateFailed, CreateTo
      <4>2. CASE handle' = [handle EXCEPT ![h].pc = "open",
                                          ![h].delOnClose = (h \in DeleteOnClose)]
        <5>1. OthersSame(h) /\ handle'[h] = [handle[h] EXCEPT !.pc = "open",
                                                 !.delOnClose = (h \in DeleteOnClose)]
          BY <4>2 DEF OthersSame
        <5>2. /\ handle'[h].pc = "open" /\ handle'[h].fcb = handle[h].fcb
              /\ handle'[h].op = handle[h].op
          BY <5>1, <2>1, Zenon DEF HandleType
        <5> QED
          BY <2>2, <3>7, <5>1, <5>2 DEF DokanCompleteCreate
      <4> QED
        BY <3>7, <4>1, <4>2, Zenon DEF DokanCompleteCreate
    <3> QED
      BY <2>7, <3>1, <3>2, <3>3, <3>4, <3>5, <3>6, <3>7, Zenon DEF Create
  <2>8. ASSUME SetInformation(h) PROVE HandlesPoint'
    <3>1. PICK op : handle' = [handle EXCEPT ![h].op = op]
      BY <2>8, Zenon DEF SetInformation, DokanDispatchSetInformation, SetInformationFails,
         CompleteDisposition, DokanRenameFcb
    <3>2. handle[h].pc \in Opened \cup {"cleaned"}
      BY <2>8 DEF SetInformation, DokanDispatchSetInformation, SetInformationFails,
         CompleteDisposition, DokanRenameFcb
    <3>3. OthersSame(h) /\ handle'[h] = [handle[h] EXCEPT !.op = op]
      BY <3>1 DEF OthersSame
    <3>4. handle'[h].pc = handle[h].pc /\ handle'[h].fcb = handle[h].fcb
      BY <3>3, <2>1, Zenon DEF HandleType
    <3> QED
      BY <2>2, <3>2, <3>3, <3>4
  <2>9. ASSUME Cleanup(h) PROVE HandlesPoint'
    <3>1. CASE DokanDispatchCleanup(h)
      <4>1. PICK last : handle' = [handle EXCEPT ![h].pc = "cleanup", ![h].delOnClose = FALSE,
                                                 ![h].deletes = last]
        BY <3>1, Zenon DEF DokanDispatchCleanup
      <4>2. OthersSame(h) /\ handle'[h] = [handle[h] EXCEPT !.pc = "cleanup",
                                            !.delOnClose = FALSE, !.deletes = last]
        BY <4>1 DEF OthersSame
      <4>3. /\ handle'[h].pc = "cleanup" /\ handle'[h].fcb = handle[h].fcb
            /\ handle'[h].op = handle[h].op
        BY <4>2, <2>1 DEF HandleType
      <4> QED
        BY <2>2, <3>1, <4>2, <4>3 DEF DokanDispatchCleanup
    <3>2. CASE ~DokanDispatchCleanup(h)
      BY <2>9, <3>2, <2>3, Zenon DEF Cleanup, CleanupUnmounted, CleanupFlushes, CleanupSent,
         CleanupFails, DokanCompleteCleanup, DokanExecuteCleanup
    <3> QED
      BY <3>1, <3>2, Zenon
  <2>10. ASSUME Close(h) PROVE HandlesPoint'
    <3>1. CASE DokanDispatchClose(h)
      BY <3>1, <2>3, Zenon DEF DokanDispatchClose
    <3>2. CASE DokanFreeFCB(h)
      <4> DEFINE f == handle[h].fcb
                 last == [NoHandle EXCEPT !.pc = "last", !.fcb = f]
      <4>1. CASE handle' = [handle EXCEPT ![h] = NoHandle]
        BY <4>1, <2>4
      <4>2. CASE handle' = [handle EXCEPT ![h] = last]
        <5>1. OthersSame(h) /\ handle'[h] = last
          BY <4>2 DEF OthersSame
        <5>2. handle'[h].pc = "last" /\ handle'[h].fcb = f /\ handle'[h].op = "no"
          BY <5>1, Zenon DEF NoHandle
        <5> QED
          BY <2>2, <3>2, <5>1, <5>2 DEF DokanFreeFCB
      <4> QED
        BY <3>2, <4>1, <4>2, Zenon DEF DokanFreeFCB
    <3>3. CASE FreeLast(h)
      BY <3>3, <2>4 DEF FreeLast
    <3> QED
      BY <2>10, <3>1, <3>2, <3>3, Zenon DEF Close
  <2> QED
    BY <1>3, <2>7, <2>8, <2>9, <2>10
<1> QED
  BY <1>1, <1>2, <1>3 DEF Next

\* What DokanGetFCB leaves of the FCBs fs: f has one reference more, is
\* allocated, has a name and is not garbage.
Got(h, n, fs, table, f) ==
  /\ OthersSame(h) /\ handle'[h].pc = "got" /\ handle'[h].fcb = f
  /\ \A x \in Fcb \ {f} : fcb'[x] = fs[x]
  /\ fcb'[f].live /\ fcb'[f].garbage = "no"
  /\ fcb'[f].OpenCount = Cardinality(At(f, Referencing)) + 1
  /\ \/ /\ fcb'[f].ccbs = fs[f].ccbs /\ fcb'[f].share = fs[f].share
        /\ fcb'[f].UncleanCount = fs[f].UncleanCount /\ fcb'[f].name = fs[f].name
        /\ fcb'[f].ReplacedByRename = fs[f].ReplacedByRename
        /\ fs[f].live /\ FcbTable' = table
     \/ /\ fcb'[f].ccbs = {} /\ fcb'[f].share = NoShare
        /\ fcb'[f].UncleanCount = 0 /\ fcb'[f].name = n
        /\ ~fcb'[f].ReplacedByRename /\ ~fs[f].live
        /\ table[n] = None /\ FcbTable' = [table EXCEPT ![n] = f]

(* DokanGetFCB takes a reference to one FCB and touches no other.          *)
LEMMA GetEffect ==
  ASSUME NEW h \in Handle, NEW n \in Name, NEW fs \in [Fcb -> FcbType], Fits(fs),
         handle \in [Handle -> HandleType],
         NEW table \in [Name -> Fcb \cup {None}], GetOrCreate(h, n, fs, table)
  PROVE  \E f \in Fcb : Got(h, n, fs, table, f)
<1>1. ASSUME NEW f \in Fcb, handle' = [handle EXCEPT ![h].pc = "got", ![h].fcb = f]
      PROVE  OthersSame(h) /\ handle'[h].pc = "got" /\ handle'[h].fcb = f
  <2>1. OthersSame(h) /\ handle'[h] = [handle[h] EXCEPT !.pc = "got", !.fcb = f]
    BY <1>1 DEF OthersSame
  <2> QED
    BY <2>1 DEF HandleType
<1>2. CASE Find(h, n, fs, table)
  <2> DEFINE f == table[n]
             g == IF fs[f].garbage = "no" THEN fs[f]
                  ELSE [fs[f] EXCEPT !.garbage = "no", !.deletePending = FALSE,
                                     !.deleted = FALSE]
  <2>1. f \in Fcb /\ fs[f].live /\ FcbTable' = table
    BY <1>2 DEF Find
  <2>2. fs[f] \in FcbType
    BY <2>1
  <2>3. /\ g.ccbs = fs[f].ccbs /\ g.share = fs[f].share /\ g.UncleanCount = fs[f].UncleanCount
        /\ g.name = fs[f].name /\ g.ReplacedByRename = fs[f].ReplacedByRename
        /\ g.live = fs[f].live /\ g.garbage = "no" /\ g.OpenCount = fs[f].OpenCount
        /\ DOMAIN g = DOMAIN fs[f]
    BY <2>2 DEF FcbType
  <2>4. /\ \A x \in Fcb \ {f} : fcb'[x] = fs[x]
        /\ fcb'[f] = [g EXCEPT !.OpenCount = @ + 1]
    BY <1>2, <2>1, Zenon DEF Find
  <2> HIDE DEF g
  <2>5. /\ fcb'[f].ccbs = g.ccbs /\ fcb'[f].share = g.share /\ fcb'[f].UncleanCount = g.UncleanCount
        /\ fcb'[f].name = g.name /\ fcb'[f].ReplacedByRename = g.ReplacedByRename
        /\ fcb'[f].live = g.live /\ fcb'[f].garbage = g.garbage
        /\ fcb'[f].OpenCount = g.OpenCount + 1
    BY <2>2, <2>3, <2>4 DEF FcbType
  <2>6. OthersSame(h) /\ handle'[h].pc = "got" /\ handle'[h].fcb = f
    BY <1>1, <1>2, <2>1, Zenon DEF Find
  <2>7. fs[f].OpenCount = Cardinality(At(f, Referencing))
    BY <2>1 DEF Fits
  <2>8. Got(h, n, fs, table, f)
    BY <2>1, <2>3, <2>4, <2>5, <2>6, <2>7, Zenon DEF Got
  <2> QED
    BY <2>1, <2>8
<1>3. CASE Insert(h, n, fs, table)
  <2>1. PICK f \in Fcb :
          /\ table[n] = None /\ ~fs[f].live
          /\ fcb' = [fs EXCEPT ![f] =
                       [FreedFcb EXCEPT !.live = TRUE, !.name = n, !.OpenCount = 1]]
          /\ FcbTable' = [table EXCEPT ![n] = f]
          /\ handle' = [handle EXCEPT ![h].pc = "got", ![h].fcb = f]
    BY <1>3, Zenon DEF Insert
  <2>2. At(f, Referencing) = {} /\ Cardinality(At(f, Referencing)) = 0
    BY <2>1, AtFinite DEF Fits
  <2>3. /\ \A x \in Fcb \ {f} : fcb'[x] = fs[x]
        /\ fcb'[f] = [FreedFcb EXCEPT !.live = TRUE, !.name = n, !.OpenCount = 1]
    BY <2>1
  <2>4. /\ fcb'[f].live /\ fcb'[f].name = n /\ fcb'[f].OpenCount = 1
        /\ fcb'[f].garbage = "no" /\ fcb'[f].ccbs = {} /\ fcb'[f].share = NoShare
        /\ fcb'[f].UncleanCount = 0 /\ ~fcb'[f].ReplacedByRename
    BY <2>3 DEF FreedFcb
  <2>5. OthersSame(h) /\ handle'[h].pc = "got" /\ handle'[h].fcb = f
    BY <1>1, <2>1, Zenon
  <2>6. fcb'[f].OpenCount = Cardinality(At(f, Referencing)) + 1
    BY <2>2, <2>4
  <2> QED
    BY <2>1, <2>3, <2>4, <2>5, <2>6, Zenon DEF Got
<1> QED
  BY <1>2, <1>3 DEF GetOrCreate

(* DokanGetFCB keeps the references counted.                               *)
LEMMA GetRefs ==
  ASSUME RefInv, TypeOK', HandlesPoint', NEW h \in Handle, handle[h].pc = "entered",
         NEW n \in Name, NEW fs \in [Fcb -> FcbType], Fits(fs),
         NEW table \in [Name -> Fcb \cup {None}], GetOrCreate(h, n, fs, table)
  PROVE  RefInv'
<1>. handle \in [Handle -> HandleType]
  BY DEF RefInv, TypeOK
<1>0. PICK f \in Fcb : Got(h, n, fs, table, f)
  BY GetEffect, Zenon
<1>1. /\ OthersSame(h) /\ handle'[h].pc = "got" /\ handle'[h].fcb = f
      /\ \A x \in Fcb \ {f} : fcb'[x] = fs[x]
      /\ fcb'[f].live /\ fcb'[f].name \in Name /\ fcb'[f].garbage = "no"
      /\ fcb'[f].OpenCount = Cardinality(At(f, Referencing)) + 1
  BY <1>0 DEF Got, Fits
<1>2. ASSUME NEW x \in Fcb PROVE h \notin At(x, Referencing)
  BY DEF At, Referencing, WithCcb, Opened
<1>3. "got" \in Referencing
  BY Zenon DEF Referencing
<1>4. ASSUME NEW x \in Fcb \ {f} PROVE At(x, Referencing)' = At(x, Referencing)
  <2>1. handle[h].pc \notin Referencing
    BY Zenon DEF Referencing, WithCcb, Opened
  <2> QED
    BY <1>1, <2>1, AtSame
<1>5. At(f, Referencing)' = At(f, Referencing) \cup {h}
  BY <1>1, <1>3, AtMoves
<1>6. Cardinality(At(f, Referencing)') = Cardinality(At(f, Referencing)) + 1
  BY <1>2, <1>5, AtFinite
<1>7. Fits(fcb)'
  BY <1>1, <1>4, <1>6 DEF Fits
<1> QED
  BY <1>7, Zenon DEF RefInv, Fits, OpenCountExact, NamesKnown, GarbageUnused, Garbage

(* DokanFreeFCB: one reference less.                                       *)
LEMMA FreeRefs ==
  ASSUME RefInv, TypeOK', HandlesPoint', NEW h \in Handle, DokanFreeFCB(h)
  PROVE  /\ RefInv' /\ OthersSame(h) /\ handle'[h].pc \in {"none", "last"}
         /\ UNCHANGED <<FcbTable, collector, notEmpty, renames>>
         /\ \A x \in Fcb :
              /\ fcb'[x].ccbs = fcb[x].ccbs /\ fcb'[x].share = fcb[x].share
              /\ fcb'[x].UncleanCount = fcb[x].UncleanCount /\ fcb'[x].live = fcb[x].live
              /\ fcb'[x].name = fcb[x].name /\ fcb'[x].garbage = fcb[x].garbage
              /\ fcb'[x].ReplacedByRename = fcb[x].ReplacedByRename
<1>1. handle[h].pc = "release" /\ UNCHANGED <<FcbTable, collector, notEmpty, renames>>
  BY Zenon DEF DokanFreeFCB
<1>. PICK f \in Fcb : f = handle[h].fcb
  BY <1>1, Held, Zenon DEF RefInv, Referencing
<1>2. /\ f \in Fcb /\ fcb[f] \in FcbType /\ fcb[f].OpenCount \in Nat \ {0}
      /\ h \in At(f, Referencing) /\ fcb[f].live
  <2>1. handle[h].pc \in Referencing
    BY <1>1, Zenon DEF Referencing
  <2> QED
    BY <2>1, Counted DEF RefInv, TypeOK, At
<1>3. /\ \A x \in Fcb \ {f} : fcb'[x] = fcb[x]
      /\ fcb'[f] = [fcb[f] EXCEPT !.OpenCount = fcb[f].OpenCount - 1]
  BY <1>2, Zenon DEF DokanFreeFCB, RefInv, TypeOK
<1>4. \A x \in Fcb :
        /\ fcb'[x].ccbs = fcb[x].ccbs /\ fcb'[x].share = fcb[x].share
        /\ fcb'[x].UncleanCount = fcb[x].UncleanCount /\ fcb'[x].live = fcb[x].live
        /\ fcb'[x].name = fcb[x].name /\ fcb'[x].garbage = fcb[x].garbage
        /\ fcb'[x].ReplacedByRename = fcb[x].ReplacedByRename
  BY <1>2, <1>3 DEF FcbType
<1>5. fcb'[f].OpenCount = fcb[f].OpenCount - 1
  BY <1>2, <1>3 DEF FcbType
<1>6. OthersSame(h) /\ handle'[h].pc \in {"none", "last"}
  <2>1. OthersSame(h)
    BY DEF DokanFreeFCB, RefInv, TypeOK, OthersSame
  <2>2. handle'[h] \in {NoHandle, [NoHandle EXCEPT !.pc = "last", !.fcb = f]}
    BY DEF DokanFreeFCB, RefInv, TypeOK
  <2> QED
    <3>1. NoHandle.pc = "none" /\ [NoHandle EXCEPT !.pc = "last", !.fcb = f].pc = "last"
      BY DEF NoHandle
    <3> QED
      BY <2>1, <2>2, <3>1, Zenon
<1>7. handle'[h].pc \notin Referencing
  BY <1>6 DEF Referencing, WithCcb, Opened
<1>8. At(f, Referencing)' = At(f, Referencing) \ {h}
  BY <1>6, <1>7, AtMoves
<1>9. Cardinality(At(f, Referencing)') = Cardinality(At(f, Referencing)) - 1
  BY <1>2, <1>8, AtFinite, Zenon
<1>10. ASSUME NEW x \in Fcb \ {f} PROVE At(x, Referencing)' = At(x, Referencing)
  BY <1>6, <1>7, AtSame, Zenon
<1>11. fcb[f].garbage = "no" /\ fcb[f].name \in Name
       /\ fcb[f].OpenCount = Cardinality(At(f, Referencing))
  BY <1>2, RefInvFits, Zenon DEF Fits
<1>12. Fits(fcb)'
  <2> SUFFICES ASSUME NEW x \in Fcb
               PROVE  /\ fcb'[x].OpenCount = Cardinality(At(x, Referencing)')
                      /\ At(x, Referencing)' # {} => fcb'[x].live
                      /\ fcb'[x].live => fcb'[x].name \in Name
                      /\ fcb'[x].garbage # "no" =>
                           fcb'[x].live /\ fcb'[x].OpenCount = 0 /\ ~fcb'[x].ReplacedByRename
    BY Zenon DEF Fits
  <2>1. CASE x = f
    BY <2>1, <1>2, <1>4, <1>5, <1>9, <1>11
  <2>2. CASE x # f
    BY <2>2, <1>3, <1>10, RefInvFits DEF Fits
  <2> QED
    BY <2>1, <2>2, Zenon
<1>13. RefInv'
  BY <1>12, Zenon DEF RefInv, Fits, OpenCountExact, NamesKnown, GarbageUnused, Garbage
<1> QED
  BY <1>1, <1>4, <1>6, <1>13, Zenon

\* The other steps leave what an FCB says of its file objects alone, or free
\* the FCB when nobody refers to it.
SameUse(f) ==
  /\ fcb'[f].ccbs = fcb[f].ccbs /\ fcb'[f].share = fcb[f].share
  /\ fcb'[f].UncleanCount = fcb[f].UncleanCount

Frees(f) == fcb'[f] = FreedFcb /\ fcb[f].OpenCount = 0

(* The last close: the FCB is freed, or left to the collector, or was      *)
(* opened again meanwhile.                                                 *)
LEMMA FreeLastActs ==
  ASSUME RefInv, NEW h \in Handle, FreeLast(h)
  PROVE  /\ Fits(fcb') /\ OthersSame(h)
         /\ handle[h].pc \notin Referencing /\ handle'[h].pc \notin Referencing
         /\ \A x \in Fcb : SameUse(x) \/ Frees(x)
<1> DEFINE f == handle[h].fcb
<1>1. f \in Fcb /\ handle[h].pc = "last" /\ fcb[f].live
  BY Held DEF FreeLast, RefInv
<1>2. fcb \in [Fcb -> FcbType] /\ fcb[f] \in FcbType /\ Fits(fcb)
  BY <1>1, RefInvFits DEF RefInv, TypeOK
<1>3. OthersSame(h) /\ handle'[h] = NoHandle
  BY Zenon DEF FreeLast, RefInv, TypeOK, OthersSame
<1>4. handle[h].pc \notin Referencing /\ handle'[h].pc \notin Referencing
  BY <1>1, <1>3 DEF NoHandle, Referencing, WithCcb, Opened
<1>5. CASE UNCHANGED fcb
  BY <1>2, <1>3, <1>4, <1>5, Zenon DEF SameUse
<1>6. CASE /\ fcb[f].OpenCount = 0 /\ Schedules(f)
           /\ fcb' = [fcb EXCEPT ![f].garbage = "young"]
  <2>1. /\ \A x \in Fcb \ {f} : fcb'[x] = fcb[x]
        /\ fcb'[f] = [fcb[f] EXCEPT !.garbage = "young"]
    BY <1>1, <1>2, <1>6, Zenon
  <2>2. SameUse(f) /\ fcb'[f].live = fcb[f].live /\ fcb'[f].name = fcb[f].name
        /\ fcb'[f].OpenCount = fcb[f].OpenCount
        /\ fcb'[f].ReplacedByRename = fcb[f].ReplacedByRename
    BY <1>2, <2>1 DEF FcbType, SameUse
  <2>3. \A x \in Fcb : SameUse(x)
    BY <2>1, <2>2, Zenon DEF SameUse
  <2>4. Fits(fcb')
    BY <1>1, <1>2, <1>6, <2>1, <2>2 DEF Fits, Schedules
  <2> QED
    BY <1>3, <1>4, <2>3, <2>4, Zenon
<1>7. CASE fcb[f].OpenCount = 0 /\ fcb' = Deleted({f})
  <2>1. Fits(fcb')
    BY <1>1, <1>2, <1>7, DeletedFits, Zenon
  <2>2. \A x \in Fcb : SameUse(x) \/ Frees(x)
    BY <1>7, Zenon DEF Deleted, SameUse, Frees
  <2> QED
    BY <1>3, <1>4, <2>1, <2>2
<1> QED
  BY <1>5, <1>6, <1>7, Zenon DEF FreeLast

(* A pass of the collector, with no file object involved.                  *)
LEMMA CollectorActs ==
  ASSUME RefInv, Collector \/ Unmount \/ UNCHANGED vars
  PROVE  /\ Fits(fcb') /\ UNCHANGED handle
         /\ \A x \in Fcb : SameUse(x) \/ Frees(x)
<1>1. fcb \in [Fcb -> FcbType] /\ Fits(fcb)
  BY RefInvFits DEF RefInv, TypeOK
<1>2. UNCHANGED handle
  BY DEF Collector, CollectorWakes, CollectorPass, CollectorTimer, CollectorEnds,
     DokanStopFcbGarbageCollectorThread, Unmount, vars
<1>3. CASE UNCHANGED fcb
  BY <1>1, <1>2, <1>3 DEF SameUse
<1>4. CASE CollectorPass
  <2> DEFINE aged  == {f \in Fcb : fcb[f].garbage = "aged"}
             young == {f \in Fcb : fcb[f].garbage = "young"}
  <2>1. \A f \in aged : fcb[f].OpenCount = 0
    BY <1>1 DEF Fits
  <2>2. Fits(Deleted(aged))
    BY <1>1, <2>1, DeletedFits
  <2>3. fcb' = [f \in Fcb |-> IF f \in young THEN [fcb[f] EXCEPT !.garbage = "aged"]
                              ELSE Deleted(aged)[f]]
    BY <1>4 DEF CollectorPass
  <2>4. ASSUME NEW f \in Fcb, f \in young
        PROVE  /\ SameUse(f) /\ fcb'[f].live = fcb[f].live /\ fcb'[f].name = fcb[f].name
               /\ fcb'[f].OpenCount = fcb[f].OpenCount
               /\ fcb'[f].ReplacedByRename = fcb[f].ReplacedByRename
    <3>1. fcb'[f] = [fcb[f] EXCEPT !.garbage = "aged"] /\ fcb[f] \in FcbType
      BY <1>1, <2>3, <2>4
    <3> QED
      BY <3>1 DEF FcbType, SameUse
  <2>5. ASSUME NEW f \in Fcb, f \notin young PROVE fcb'[f] = Deleted(aged)[f]
    BY <2>3, <2>5, Zenon
  <2>6. ASSUME NEW f \in Fcb
        PROVE  /\ fcb'[f].OpenCount = Cardinality(At(f, Referencing))
               /\ At(f, Referencing) # {} => fcb'[f].live
               /\ fcb'[f].live => fcb'[f].name \in Name
               /\ fcb'[f].garbage # "no" =>
                    fcb'[f].live /\ fcb'[f].OpenCount = 0 /\ ~fcb'[f].ReplacedByRename
    <3>1. CASE f \in young
      BY <1>1, <2>4, <3>1, Zenon DEF Fits
    <3>2. CASE f \notin young
      BY <2>2, <2>5, <3>2, Zenon DEF Fits
    <3> QED
      BY <3>1, <3>2, Zenon
  <2>7. Fits(fcb')
    BY <2>6 DEF Fits
  <2>8. ASSUME NEW f \in Fcb PROVE SameUse(f) \/ Frees(f)
    <3>1. CASE f \in young
      BY <2>4, <3>1, Zenon
    <3>2. CASE f \notin young
      BY <2>1, <2>5, <3>2, Zenon DEF Deleted, SameUse, Frees
    <3> QED
      BY <3>1, <3>2
  <2> QED
    BY <1>2, <2>7, <2>8, Zenon
<1> QED
  BY <1>3, <1>4, Zenon DEF Collector, CollectorWakes, CollectorTimer, CollectorEnds,
     DokanStopFcbGarbageCollectorThread, Unmount, vars

(* A rename: the FCB that held the new name is freed if it is garbage, and *)
(* is only marked otherwise.                                               *)
LEMMA RenameActs ==
  ASSUME RefInv, NEW h \in Handle, NEW n \in Name, DokanRenameFcb(h, n)
  PROVE  /\ Fits(fcb') /\ OthersSame(h)
         /\ handle'[h].pc = handle[h].pc /\ handle'[h].fcb = handle[h].fcb
         /\ \A x \in Fcb : SameUse(x) \/ Frees(x)
         /\ \A x \in Fcb : fcb'[x].garbage # "no" => fcb[x].garbage # "no"
<1> DEFINE f == handle[h].fcb
           g == [FcbTable EXCEPT ![fcb[f].name] = None][n]
<1>1. handle[h].pc \in Referencing
  BY Zenon DEF DokanRenameFcb, RefInv, HandlesPoint, Referencing, WithCcb
<1>2. f \in Fcb /\ fcb[f].live /\ fcb[f].OpenCount # 0
  BY <1>1, Counted, Zenon
<1>3. fcb \in [Fcb -> FcbType] /\ fcb[f] \in FcbType /\ handle[h] \in HandleType /\ Fits(fcb)
  BY <1>2, RefInvFits DEF RefInv, TypeOK
<1>4. OthersSame(h) /\ handle'[h].pc = handle[h].pc /\ handle'[h].fcb = handle[h].fcb
  <2>1. OthersSame(h) /\ handle'[h] = [handle[h] EXCEPT !.op = "no"]
    BY DEF DokanRenameFcb, RefInv, TypeOK, OthersSame
  <2> QED
    BY <2>1, <1>3 DEF HandleType
<1>5. fcb' = Renamed(f, n, g)
  BY DEF DokanRenameFcb
<1> HIDE DEF g
<1>6. ASSUME NEW x \in Fcb
      PROVE  /\ SameUse(x) \/ Frees(x)
             /\ fcb'[x].garbage # "no" => fcb[x].garbage # "no"
             /\ fcb'[x].OpenCount = Cardinality(At(x, Referencing))
             /\ At(x, Referencing) # {} => fcb'[x].live
             /\ fcb'[x].live => fcb'[x].name \in Name
             /\ fcb'[x].garbage # "no" =>
                  fcb'[x].live /\ fcb'[x].OpenCount = 0 /\ ~fcb'[x].ReplacedByRename
  <2>1. CASE x = f
    <3>1. fcb'[x] = [fcb[f] EXCEPT !.name = n]
      BY <1>5, <2>1, Zenon DEF Renamed
    <3>2. SameUse(x) /\ fcb'[x].live = fcb[x].live /\ fcb'[x].name = n
          /\ fcb'[x].OpenCount = fcb[x].OpenCount /\ fcb'[x].garbage = fcb[x].garbage
      BY <1>3, <2>1, <3>1, Zenon DEF FcbType, SameUse
    <3>3. fcb[x].garbage = "no"
      BY <1>2, <1>3, <2>1, Zenon DEF Fits
    <3> QED
      BY <1>3, <3>2, <3>3, Zenon DEF Fits
  <2>2. CASE x # f /\ x = g /\ fcb[x].garbage # "no"
    <3>1. fcb'[x] = FreedFcb
      BY <1>5, <2>2, Zenon DEF Renamed
    <3>2. fcb[x].OpenCount = 0 /\ Cardinality(At(x, Referencing)) = 0
      BY <1>3, <2>2, Zenon DEF Fits
    <3>3. At(x, Referencing) = {}
      BY <3>2, AtFinite, Zenon
    <3> QED
      BY <3>1, <3>2, <3>3 DEF FreedFcb, Frees
  <2>3. CASE x # f /\ x = g /\ fcb[x].garbage = "no"
    <3>1. fcb'[x] = [fcb[x] EXCEPT !.ReplacedByRename = TRUE] /\ fcb[x] \in FcbType
      BY <1>3, <1>5, <2>3 DEF Renamed
    <3>2. SameUse(x) /\ fcb'[x].live = fcb[x].live /\ fcb'[x].name = fcb[x].name
          /\ fcb'[x].OpenCount = fcb[x].OpenCount /\ fcb'[x].garbage = fcb[x].garbage
      BY <3>1, Zenon DEF FcbType, SameUse
    <3> QED
      BY <1>3, <2>3, <3>2 DEF Fits
  <2>4. CASE x # f /\ x # g
    <3>1. fcb'[x] = fcb[x]
      BY <1>5, <2>4, Zenon DEF Renamed
    <3> QED
      BY <1>3, <3>1 DEF Fits, SameUse
  <2> QED
    BY <2>1, <2>2, <2>3, <2>4, Zenon
<1>7. Fits(fcb')
  BY <1>6, Zenon DEF Fits
<1> QED
  BY <1>4, <1>6, <1>7, Zenon

(* A step that neither takes nor drops a reference, in the terms of the    *)
(* lemmas above.                                                           *)
LEMMA ForcedFits ==
  ASSUME RefInv
  PROVE  /\ Deleted(Garbage) \in [Fcb -> FcbType] /\ Fits(Deleted(Garbage))
         /\ WithoutNamesOf(Garbage) \in [Name -> Fcb \cup {None}]
<1>1. Garbage \in SUBSET Fcb /\ \A f \in Garbage : fcb[f].OpenCount = 0
  BY DEF RefInv, GarbageUnused, Garbage
<1> QED
  BY <1>1, DeletedTypes, DeletedFits, RefInvFits, Zenon DEF RefInv

(* RefInv is inductive.                                                    *)
LEMMA RefStep ==
  ASSUME RefInv, [Next]_vars
  PROVE  RefInv'
<1>1. TypeOK' /\ HandlesPoint'
  BY TypeStep, HandlesPointStep
<1>2. CASE Collector \/ Unmount \/ UNCHANGED vars
  <2>1. Fits(fcb') /\ UNCHANGED handle
    BY <1>2, CollectorActs
  <2>2. \A f \in Fcb : At(f, Referencing)' = At(f, Referencing)
    BY <2>1, Zenon DEF At
  <2> QED
    BY <1>1, <2>1, <2>2, FitsStep
<1>3. ASSUME NEW h \in Handle, Fits(fcb'), OthersSame(h),
             \/ handle[h].pc \notin Referencing /\ handle'[h].pc \notin Referencing
             \/ handle'[h].pc = handle[h].pc /\ handle'[h].fcb = handle[h].fcb
      PROVE  RefInv'
  <2>1. ASSUME NEW f \in Fcb PROVE At(f, Referencing)' = At(f, Referencing)
    BY <1>3, AtSame
  <2> QED
    BY <1>1, <1>3, <2>1, FitsStep, Zenon
<1>4. ASSUME NEW h \in Handle, NEW pc, NEW ccbs, NEW unclean, NEW share,
             Acts(h, pc, ccbs, unclean, share)
      PROVE  RefInv'
  BY <1>1, <1>4, ActsRefs, Zenon
<1>5. ASSUME NEW h \in Handle, Create(h) PROVE RefInv'
  <2>1. CASE DispatchCreate(h) \/ CreateFails(h)
    <3>1. UNCHANGED fcb /\ OthersSame(h)
      BY <2>1 DEF DispatchCreate, CreateFails, OthersSame, RefInv, TypeOK
    <3>2. handle[h] \in HandleType
      BY DEF RefInv, TypeOK
    <3>3. handle[h].pc \in {"none", "entered"} /\ handle'[h].pc \in {"none", "entered"}
      BY <2>1, <3>2 DEF DispatchCreate, CreateFails, NoHandle, RefInv, TypeOK, HandleType
    <3> QED
      BY <1>3, <3>1, <3>3, RefInvFits DEF Referencing, WithCcb, Opened
  <2>2. ASSUME NEW n \in Name, DokanGetFCB(h, n) PROVE RefInv'
    <3>1. /\ handle[h].pc = "entered" /\ GetOrCreate(h, n, fcb, FcbTable) /\ Fits(fcb)
          /\ fcb \in [Fcb -> FcbType] /\ FcbTable \in [Name -> Fcb \cup {None}]
      BY <2>2, RefInvFits, Zenon DEF DokanGetFCB, RefInv, TypeOK
    <3> QED
      BY <1>1, <3>1, GetRefs, Zenon
  <2>3. ASSUME NEW n \in Name, GetFcbForced(h, n) PROVE RefInv'
    <3>1. handle[h].pc = "entered"
      BY <2>3, Zenon DEF GetFcbForced
    <3>2. CASE GetOrCreate(h, n, Deleted(Garbage), WithoutNamesOf(Garbage))
      BY <1>1, <3>1, <3>2, ForcedFits, GetRefs, Zenon
    <3>3. CASE fcb' = Deleted(Garbage) /\ handle' = [handle EXCEPT ![h] = NoHandle]
      <4>1. OthersSame(h) /\ handle'[h] = NoHandle
        BY <3>3, Zenon DEF OthersSame, RefInv, TypeOK
      <4>2. handle[h].pc \notin Referencing /\ handle'[h].pc \notin Referencing
        BY <3>1, <4>1 DEF NoHandle, Referencing, WithCcb, Opened
      <4> QED
        BY <1>3, <3>3, <4>1, <4>2, ForcedFits, Zenon
    <3> QED
      BY <2>3, <3>2, <3>3, Zenon DEF GetFcbForced
  <2>4. CASE CreateRefused(h) \/ CreateDenied(h) \/ CreateBreaksHandles(h)
             \/ CreateBreaksOplock(h) \/ CreateUnwound(h) \/ CreateSent(h)
             \/ CreateRetried(h) \/ CreateRetryFails(h) \/ CreateDropped(h)
    BY <1>4, <2>4, CreateActs, Zenon DEF OnlyMoves
  <2>5. CASE BreakFailed(h) \/ DokanCompleteCreate(h)
    BY <1>4, <2>5, CompleteCreateActs, Zenon
  <2> QED
    BY <1>5, <2>1, <2>2, <2>3, <2>4, <2>5 DEF Create
<1>6. ASSUME NEW h \in Handle, SetInformation(h) PROVE RefInv'
  <2>1. ASSUME NEW n \in Name, DokanRenameFcb(h, n) PROVE RefInv'
    BY <1>3, <2>1, RenameActs
  <2> QED
    BY <1>4, <1>6, <2>1, DispositionActs, Zenon DEF SetInformation, OnlyMoves
<1>7. ASSUME NEW h \in Handle, Cleanup(h) PROVE RefInv'
  BY <1>4, <1>7, CleanupActs, Zenon DEF Cleanup, OnlyMoves
<1>8. ASSUME NEW h \in Handle, Close(h) PROVE RefInv'
  <2>1. CASE DokanDispatchClose(h)
    BY <1>4, <2>1, CleanupActs, Zenon
  <2>2. CASE DokanFreeFCB(h)
    BY <1>1, <2>2, FreeRefs
  <2>3. CASE FreeLast(h)
    BY <1>3, <2>3, FreeLastActs
  <2> QED
    BY <1>8, <2>1, <2>2, <2>3, Zenon DEF Close
<1> QED
  BY <1>2, <1>5, <1>6, <1>7, <1>8 DEF Next

(* The invariant holds at the start.                                       *)
LEMMA InitRefs == Init => RefInv
<1> SUFFICES ASSUME Init PROVE RefInv
  OBVIOUS
<1>1. \A f \in Fcb : fcb[f] = FreedFcb
  BY DEF Init
<1>2. \A h \in Handle : handle[h] = NoHandle
  BY Zenon DEF Init
<1>3. TypeOK
  <2>1. /\ fcb \in [Fcb -> FcbType] /\ handle \in [Handle -> HandleType]
        /\ FcbTable \in [Name -> Fcb \cup {None}]
    BY FreedTypes DEF Init
  <2>2. 0 \in 0 .. MaxFailures /\ 0 \in 0 .. MaxBreaks /\ 0 \in 0 .. MaxRenames
    BY FileHandlesAssumption
  <2> QED
    BY <2>1, <2>2, Zenon DEF Init, TypeOK
<1>4. HandlesPoint
  BY <1>2, FileHandlesAssumption DEF HandlesPoint, NoHandle, Referencing, WithCcb, Opened
<1>5. ASSUME NEW f \in Fcb PROVE At(f, Referencing) = {} /\ Cardinality(At(f, Referencing)) = 0
  <2>1. At(f, Referencing) = {}
    BY <1>2 DEF At, NoHandle, Referencing, WithCcb, Opened
  <2> QED
    BY <2>1, AtFinite, Zenon
<1>6. Fits(fcb)
  BY <1>1, <1>5 DEF Fits, FreedFcb
<1> QED
  BY <1>3, <1>4, <1>6, RefInvFits

(* The invariant of the references holds throughout.                       *)
LEMMA RefInvariant == Spec => []RefInv
  BY InitRefs, RefStep, PTL DEF Spec

(* The OpenCount of an FCB is at any time the number of file objects that  *)
(* refer to it, and what a file object refers to is not freed: GetFCB      *)
(* counts under the VCB lock, DokanFreeFCB discounts without it, and the   *)
(* collector, a forced collection, a rename and the last close free only   *)
(* what nobody refers to.                                                  *)
THEOREM ReferencesCounted == Spec => []OpenCountExact
<1>1. RefInv => OpenCountExact
  BY DEF RefInv
<1> QED
  BY <1>1, RefInvariant, PTL

=============================================================================
