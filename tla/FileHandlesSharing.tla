------------------------- MODULE FileHandlesSharing -------------------------
(***************************************************************************)
(* The share access of FileHandles proved: the counters of an FCB count    *)
(* the file objects that hold it, and two of them share their access.      *)
(***************************************************************************)
EXTENDS FileHandlesTables

\* The file objects that are counted in the share access of their FCB.
Holding == {"pending"} \cup Opened

\* s counts the file objects of H and at most n that are gone: those whose
\* cleanup was failed, which takes nothing back.
ShareFits(s, H, n) ==
  \E x, y \in 0 .. n :
    /\ y =< x
    /\ s.open = Cardinality(H) + x
    /\ s.shared = Cardinality(H \ Exclusive) + y

\* Fewer file objects and failures than a counter can count.
CountersSuffice == Cardinality(Handle) + MaxFailures < Modulus

(* Counting the file objects of a set and those that share their access.   *)
LEMMA SharersCount ==
  ASSUME NEW H \in SUBSET Handle
  PROVE  /\ IsFiniteSet(H) /\ Cardinality(H) \in Nat /\ Cardinality(H \ Exclusive) \in Nat
         /\ Cardinality(H \ Exclusive) =< Cardinality(H)
         /\ Cardinality(H) =< Cardinality(Handle) /\ Cardinality(Handle) \in Nat
         /\ Cardinality(H \ Exclusive) = Cardinality(H) => H \cap Exclusive = {}
         /\ Cardinality(H) = 0 <=> H = {}
<1>1. IsFiniteSet(Handle)
  BY FileHandlesAssumption
<1>2. IsFiniteSet(H) /\ Cardinality(H) =< Cardinality(Handle)
  BY <1>1, FS_Subset
<1>3. /\ IsFiniteSet(H \ Exclusive) /\ Cardinality(H \ Exclusive) =< Cardinality(H)
      /\ Cardinality(H) = Cardinality(H \ Exclusive) => H = H \ Exclusive
  BY <1>2, FS_Subset
<1>4. /\ Cardinality(H) \in Nat /\ Cardinality(H \ Exclusive) \in Nat
      /\ Cardinality(Handle) \in Nat
  BY <1>1, <1>2, <1>3, FS_CardinalityType
<1>5. Cardinality(H) = 0 <=> H = {}
  BY <1>2, FS_EmptySet
<1> QED
  BY <1>2, <1>3, <1>4, <1>5

(* One file object more or less, counted in both counters.                 *)
LEMMA SharersMove ==
  ASSUME NEW H \in SUBSET Handle, NEW h \in Handle
  PROVE  /\ h \in H =>
              /\ Cardinality(H \ {h}) = Cardinality(H) - 1
              /\ Cardinality((H \ {h}) \ Exclusive) =
                   Cardinality(H \ Exclusive) - Wanted(h).shared
         /\ h \notin H =>
              /\ Cardinality(H \cup {h}) = Cardinality(H) + 1
              /\ Cardinality((H \cup {h}) \ Exclusive) =
                   Cardinality(H \ Exclusive) + Wanted(h).shared
<1>1. /\ IsFiniteSet(H) /\ IsFiniteSet(H \ Exclusive)
      /\ Cardinality(H) \in Nat /\ Cardinality(H \ Exclusive) \in Nat
  BY SharersCount, FS_Subset
<1>2. CASE h \in H
  <2>1. Cardinality(H \ {h}) = Cardinality(H) - 1
    BY <1>1, <1>2, FS_RemoveElement
  <2>2. CASE h \in Exclusive
    <3>1. (H \ {h}) \ Exclusive = H \ Exclusive /\ Wanted(h).shared = 0
      BY <2>2 DEF Wanted
    <3> QED
      BY <1>1, <1>2, <2>1, <3>1
  <2>3. CASE h \notin Exclusive
    <3>1. (H \ {h}) \ Exclusive = (H \ Exclusive) \ {h} /\ Wanted(h).shared = 1
      BY <2>3 DEF Wanted
    <3>2. Cardinality((H \ Exclusive) \ {h}) = Cardinality(H \ Exclusive) - 1
      BY <1>1, <1>2, <2>3, FS_RemoveElement
    <3> QED
      BY <1>2, <2>1, <3>1, <3>2
  <2> QED
    BY <2>2, <2>3
<1>3. CASE h \notin H
  <2>1. Cardinality(H \cup {h}) = Cardinality(H) + 1
    BY <1>1, <1>3, FS_AddElement
  <2>2. CASE h \in Exclusive
    <3>1. (H \cup {h}) \ Exclusive = H \ Exclusive /\ Wanted(h).shared = 0
      BY <2>2 DEF Wanted
    <3>2. Cardinality((H \cup {h}) \ Exclusive) = Cardinality(H \ Exclusive)
      BY <3>1, Zenon
    <3> QED
      BY <1>1, <1>3, <2>1, <3>1, <3>2
  <2>3. CASE h \notin Exclusive
    <3>1. (H \cup {h}) \ Exclusive = (H \ Exclusive) \cup {h} /\ Wanted(h).shared = 1
      BY <2>3 DEF Wanted
    <3>2. Cardinality((H \ Exclusive) \cup {h}) = Cardinality(H \ Exclusive) + 1
      BY <1>1, <1>3, <2>3, FS_AddElement
    <3> QED
      BY <1>3, <2>1, <3>1, <3>2
  <2> QED
    BY <2>2, <2>3
<1> QED
  BY <1>2, <1>3

(* A count below the modulus is not reduced.                               *)
LEMMA NoWrap ==
  ASSUME NEW a \in Nat, a < Modulus
  PROVE  a % Modulus = a
  BY FileHandlesAssumption

(* IoRemoveShareAccess takes out what the file object had put in.          *)
LEMMA ShareRemoved ==
  ASSUME CountersSuffice, NEW H \in SUBSET Handle, NEW h \in H, NEW s,
         NEW n \in 0 .. MaxFailures, ShareFits(s, H, n)
  PROVE  ShareFits(IoRemoveShareAccess(h, s), H \ {h}, n)
<1>1. PICK x \in 0 .. n, y \in 0 .. n :
         y =< x /\ s.open = Cardinality(H) + x /\ s.shared = Cardinality(H \ Exclusive) + y
  BY DEF ShareFits
<1> DEFINE c == Cardinality(H)
           d == Cardinality(H \ Exclusive)
           w == Wanted(h).shared
<1>2. Cardinality(H \ {h}) = c - 1 /\ Cardinality((H \ {h}) \ Exclusive) = d - w
  BY SharersMove
<1>3. c - 1 \in Nat /\ d - w \in Nat /\ w \in {0, 1} /\ d \in Nat /\ c \in Nat
  <2>1. H \ {h} \in SUBSET Handle
    OBVIOUS
  <2>2. Cardinality(H \ {h}) \in Nat /\ Cardinality((H \ {h}) \ Exclusive) \in Nat
    BY <2>1, SharersCount
  <2> QED
    BY <1>2, <2>2, SharersCount DEF Wanted
<1>4. c + x < Modulus /\ d + y < Modulus
  <2>1. /\ Cardinality(Handle) \in Nat /\ Cardinality(Handle) + MaxFailures < Modulus
        /\ c =< Cardinality(Handle) /\ d =< c
    BY SharersCount DEF CountersSuffice
  <2> HIDE DEF c, d, w
  <2> QED
    BY <1>1, <1>3, <2>1, FileHandlesAssumption
<1> HIDE DEF c, d, w
<1>5. (c + x - 1) % Modulus = c - 1 + x /\ (d + y - w) % Modulus = d - w + y
  <2>1. c + x - 1 \in Nat /\ c + x - 1 < Modulus /\ d + y - w \in Nat /\ d + y - w < Modulus
    BY <1>3, <1>4, FileHandlesAssumption
  <2>2. (c + x - 1) % Modulus = c + x - 1 /\ (d + y - w) % Modulus = d + y - w
    BY <2>1, NoWrap
  <2> QED
    BY <1>3, <2>2
<1>6. /\ IoRemoveShareAccess(h, s).open = Cardinality(H \ {h}) + x
      /\ IoRemoveShareAccess(h, s).shared = Cardinality((H \ {h}) \ Exclusive) + y
  <2>1. /\ IoRemoveShareAccess(h, s).open = (s.open - 1) % Modulus
        /\ IoRemoveShareAccess(h, s).shared = (s.shared - w) % Modulus
    BY DEF IoRemoveShareAccess, w
  <2>2. s.open = c + x /\ s.shared = d + y
    BY <1>1 DEF c, d
  <2>3. IoRemoveShareAccess(h, s).open = c - 1 + x /\ IoRemoveShareAccess(h, s).shared = d - w + y
    BY <1>3, <1>5, <2>1, <2>2
  <2> QED
    BY <1>2, <2>3, Zenon
<1> QED
  BY <1>1, <1>6 DEF ShareFits

(* IoUpdateShareAccess puts it in, and removal undoes it.                  *)
LEMMA ShareUpdated ==
  ASSUME CountersSuffice, NEW H \in SUBSET Handle, NEW h \in Handle \ H, NEW s,
         NEW n \in 0 .. MaxFailures, ShareFits(s, H, n)
  PROVE  /\ ShareFits(IoUpdateShareAccess(h, s), H \cup {h}, n)
         /\ ShareFits(IoRemoveShareAccess(h, IoUpdateShareAccess(h, s)), H, n)
<1>1. PICK x \in 0 .. n, y \in 0 .. n :
         y =< x /\ s.open = Cardinality(H) + x /\ s.shared = Cardinality(H \ Exclusive) + y
  BY DEF ShareFits
<1> DEFINE c == Cardinality(H)
           d == Cardinality(H \ Exclusive)
           w == Wanted(h).shared
<1>2. Cardinality(H \cup {h}) = c + 1 /\ Cardinality((H \cup {h}) \ Exclusive) = d + w
  BY SharersMove
<1>3. d \in Nat /\ c \in Nat /\ d =< c /\ w \in {0, 1} /\ c + 1 =< Cardinality(Handle)
  <2>1. H \cup {h} \in SUBSET Handle
    OBVIOUS
  <2>2. Cardinality(H \cup {h}) =< Cardinality(Handle)
    BY <2>1, SharersCount
  <2> QED
    BY <1>2, <2>2, SharersCount DEF Wanted
<1>4. c + 1 + x < Modulus /\ d + w + y < Modulus
  <2>1. Cardinality(Handle) \in Nat /\ Cardinality(Handle) + MaxFailures < Modulus
    BY SharersCount DEF CountersSuffice
  <2>2. d + w =< Cardinality(Handle) /\ x =< MaxFailures /\ y =< MaxFailures
    BY <1>1, <1>3, <2>1, FileHandlesAssumption
  <2> HIDE DEF c, d, w
  <2> QED
    BY <1>1, <1>3, <2>1, <2>2, FileHandlesAssumption
<1> HIDE DEF c, d, w
<1>5. (c + x + 1) % Modulus = c + 1 + x /\ (d + y + w) % Modulus = d + w + y
  <2>1. c + x + 1 \in Nat /\ c + x + 1 < Modulus /\ d + y + w \in Nat /\ d + y + w < Modulus
    BY <1>3, <1>4, FileHandlesAssumption
  <2>2. (c + x + 1) % Modulus = c + x + 1 /\ (d + y + w) % Modulus = d + y + w
    BY <2>1, NoWrap
  <2> QED
    BY <1>3, <2>2
<1>6. /\ IoUpdateShareAccess(h, s).open = Cardinality(H \cup {h}) + x
      /\ IoUpdateShareAccess(h, s).shared = Cardinality((H \cup {h}) \ Exclusive) + y
  BY <1>1, <1>2, <1>5 DEF IoUpdateShareAccess, c, d, w
<1>7. ShareFits(IoUpdateShareAccess(h, s), H \cup {h}, n)
  BY <1>1, <1>6 DEF ShareFits
<1>8. (H \cup {h}) \ {h} = H /\ h \in H \cup {h} /\ H \cup {h} \in SUBSET Handle
  OBVIOUS
<1> QED
  BY <1>7, <1>8, ShareRemoved

(* A file object that goes without IoRemoveShareAccess leaves one count.   *)
LEMMA ShareLeaked ==
  ASSUME NEW H \in SUBSET Handle, NEW s, NEW n \in Nat, ShareFits(s, H, n)
  PROVE  /\ \A m \in Nat : n =< m => ShareFits(s, H, m)
         /\ \A h \in H : ShareFits(s, H \ {h}, n + 1)
<1>1. PICK x \in 0 .. n, y \in 0 .. n :
         y =< x /\ s.open = Cardinality(H) + x /\ s.shared = Cardinality(H \ Exclusive) + y
  BY DEF ShareFits
<1>2. ASSUME NEW m \in Nat, n =< m PROVE ShareFits(s, H, m)
  <2>1. x \in 0 .. m /\ y \in 0 .. m
    BY <1>2
  <2> QED
    BY <1>1, <2>1 DEF ShareFits
<1>3. ASSUME NEW h \in H PROVE ShareFits(s, H \ {h}, n + 1)
  <2> DEFINE w == Wanted(h).shared
  <2>1. /\ Cardinality(H \ {h}) = Cardinality(H) - 1
        /\ Cardinality((H \ {h}) \ Exclusive) = Cardinality(H \ Exclusive) - w
    BY SharersMove
  <2>2. w \in {0, 1} /\ Cardinality(H) \in Nat /\ Cardinality(H \ Exclusive) \in Nat
    BY SharersCount DEF Wanted
  <2> HIDE DEF w
  <2>3. /\ x + 1 \in 0 .. n + 1 /\ y + w \in 0 .. n + 1 /\ y + w =< x + 1
        /\ s.open = Cardinality(H \ {h}) + (x + 1)
        /\ s.shared = Cardinality((H \ {h}) \ Exclusive) + (y + w)
    BY <1>1, <2>1, <2>2
  <2> QED
    BY <2>3 DEF ShareFits
<1> QED
  BY <1>2, <1>3

(* The first file object of an FCB sets the share access.                  *)
LEMMA ShareFirst ==
  ASSUME NEW h \in Handle, NEW n \in Nat
  PROVE  /\ ShareFits(NoShare, {}, n) /\ ShareFits(Wanted(h), {h}, n)
         /\ ShareFits(IoRemoveShareAccess(h, Wanted(h)), {}, n)
<1>1. Cardinality({}) = 0 /\ {} \ Exclusive = {} /\ 0 \in 0 .. n
  BY FS_EmptySet
<1>2. Cardinality({h}) = 1 /\ Cardinality({h} \ Exclusive) = Wanted(h).shared
  <2>1. {} \in SUBSET Handle /\ {} \cup {h} = {h} /\ Wanted(h).shared \in {0, 1}
    BY DEF Wanted
  <2>2. /\ Cardinality({} \cup {h}) = Cardinality({}) + 1
        /\ Cardinality(({} \cup {h}) \ Exclusive) = Cardinality({} \ Exclusive) + Wanted(h).shared
    BY <2>1, SharersMove
  <2> QED
    BY <1>1, <2>1, <2>2
<1>3. IoRemoveShareAccess(h, Wanted(h)) = NoShare
  <2>1. (1 - 1) % Modulus = 0 /\ (0 - 0) % Modulus = 0
    BY FileHandlesAssumption
  <2> QED
    BY <2>1 DEF IoRemoveShareAccess, Wanted, NoShare
<1>4. ShareFits(NoShare, {}, n)
  BY <1>1 DEF NoShare, ShareFits
<1>5. ShareFits(Wanted(h), {h}, n)
  <2>1. Wanted(h).open = 1 /\ Wanted(h).shared \in {0, 1}
    BY DEF Wanted
  <2> QED
    BY <1>1, <1>2, <2>1 DEF ShareFits
<1> QED
  BY <1>3, <1>4, <1>5

(* What IoCheckShareAccess lets through.                                   *)
LEMMA ShareAdmits ==
  ASSUME NEW H \in SUBSET Handle, NEW h \in Handle, NEW s, NEW n \in Nat,
         ShareFits(s, H, n), IoCheckShareAccess(h, s)
  PROVE  H \cap Exclusive = {} /\ (h \in Exclusive => H = {})
<1>1. PICK x \in 0 .. n, y \in 0 .. n :
         y =< x /\ s.open = Cardinality(H) + x /\ s.shared = Cardinality(H \ Exclusive) + y
  BY DEF ShareFits
<1> DEFINE c == Cardinality(H)
           d == Cardinality(H \ Exclusive)
<1>2. c \in Nat /\ d \in Nat /\ d =< c
  BY SharersCount
<1>3. d + y >= c + x /\ (h \in Exclusive => c + x = 0)
  BY <1>1 DEF IoCheckShareAccess
<1>4. d = c /\ (h \in Exclusive => c = 0)
  <2> HIDE DEF c, d
  <2> QED
    BY <1>1, <1>2, <1>3
<1> QED
  BY <1>4, SharersCount

Waiting == {"breaking", "retry"}

SharesCounted == \A f \in Fcb : ShareFits(fcb[f].share, At(f, Holding), failures)

\* SharingRespected with what it rests on, before the first oplock break: the
\* share access of an FCB counts the file objects that hold it.  An unmount
\* drops creates without taking their counts back, and lets no more through.
ShareInv ==
  breaks = 0 =>
    /\ \A f \in Fcb : At(f, Waiting) = {}
    /\ ~unmount => SharesCounted
    /\ SharingRespected

(* The file objects at an FCB are file objects.                            *)
LEMMA AtHandles ==
  ASSUME NEW f, NEW S
  PROVE  At(f, S) \in SUBSET Handle
  BY DEF At

(* The FCB of a file object, and the failures so far.                      *)
LEMMA FailureTypes ==
  ASSUME RefInv, [Next]_vars
  PROVE  /\ failures \in 0 .. MaxFailures /\ failures' \in 0 .. MaxFailures
         /\ failures \in Nat /\ failures' \in Nat /\ Later
<1>1. TypeOK' /\ Later
  BY TypeStep, Monotone DEF RefInv
<1> QED
  BY <1>1, FileHandlesAssumption DEF RefInv, TypeOK

(* A quiet step keeps the share counters fitting.                          *)
LEMMA QuietShare ==
  ASSUME RefInv, ShareInv, [Next]_vars, Quiet
  PROVE  ShareInv'
<1>0. failures \in Nat /\ failures' \in Nat /\ Later
  BY FailureTypes
<1>1. \A f \in Fcb : At(f, Waiting)' = At(f, Waiting) /\ At(f, Holding)' = At(f, Holding)
  BY DEF Quiet, Waiting, Holding, WithCcb
<1>2. ASSUME SharesCounted, NEW f \in Fcb
      PROVE  ShareFits(fcb'[f].share, At(f, Holding)', failures')
  <2>1. CASE SameUse(f)
    <3>1. ShareFits(fcb[f].share, At(f, Holding), failures)
      BY <1>2 DEF SharesCounted
    <3>2. ShareFits(fcb[f].share, At(f, Holding), failures')
      BY <1>0, <3>1, AtHandles, ShareLeaked DEF Later
    <3> QED
      BY <1>1, <2>1, <3>2 DEF SameUse
  <2>2. CASE Fresh(f)
    <3>1. At(f, Holding) = {}
      BY <2>2 DEF Fresh, At, Referencing, WithCcb, Holding
    <3>2. CASE Handle = {}
      <4>1. Cardinality({}) = 0 /\ {} \ Exclusive = {} /\ 0 \in 0 .. failures'
        BY <1>0, FS_EmptySet
      <4>2. ShareFits(NoShare, {}, failures')
        BY <4>1 DEF NoShare, ShareFits
      <4> QED
        BY <1>1, <2>2, <3>1, <4>2 DEF Fresh
    <3>3. CASE Handle # {}
      <4>1. ShareFits(NoShare, {}, failures')
        BY <1>0, <3>3, ShareFirst
      <4> QED
        BY <1>1, <2>2, <3>1, <4>1 DEF Fresh
    <3> QED
      BY <3>2, <3>3
  <2> QED
    BY <2>1, <2>2 DEF Quiet
<1>3. SharesCounted => SharesCounted'
  BY <1>2 DEF SharesCounted
<1>4. SharingRespected => SharingRespected'
  BY <1>1 DEF SharingRespected, Holding
<1> QED
  BY <1>0, <1>1, <1>3, <1>4 DEF ShareInv, Later

\* Who holds FCB f when file object h goes to pc.
After(f, h, pc) == IF pc \in Holding THEN At(f, Holding) \cup {h} ELSE At(f, Holding) \ {h}

\* The file objects of H can hold a file together.
AllShare(H) == \A j, k \in H : j # k => j \notin Exclusive /\ k \notin Exclusive

(* A file object that joins the others of its FCB, leaves them or stays.   *)
LEMMA ActsShare ==
  ASSUME RefInv, ShareInv, [Next]_vars, NEW h \in Handle,
         NEW pc, NEW ccbs, NEW unclean, NEW share, Acts(h, pc, ccbs, unclean, share),
         pc \notin Waiting,
         NEW f \in Fcb, f = handle[h].fcb,
         breaks = 0 /\ ~unmount /\ SharesCounted => ShareFits(share, After(f, h, pc), failures'),
         breaks = 0 => AllShare(After(f, h, pc))
  PROVE  ShareInv'
<1>0. failures \in Nat /\ failures' \in Nat /\ Later
  BY FailureTypes
<1>1. OthersSame(h) /\ handle'[h].pc = pc /\ handle'[h].fcb = f /\ fcb'[f].share = share
  BY DEF Acts
<1>2. At(f, Holding)' = After(f, h, pc)
  BY <1>1, AtMoves DEF After
<1>3. ASSUME NEW x \in Fcb \ {f}
      PROVE  At(x, Holding)' = At(x, Holding) /\ fcb'[x] = fcb[x]
  <2>1. At(x, Holding)' = At(x, Holding)
    BY <1>1, AtSame
  <2> QED
    BY <2>1 DEF Acts
<1>4. ASSUME NEW x \in Fcb PROVE At(x, Waiting)' \subseteq At(x, Waiting)
  <2>1. ~(handle'[h].fcb = x /\ handle'[h].pc \in Waiting)
    BY <1>1
  <2>2. At(x, Waiting)' = At(x, Waiting) \ {h}
    BY <1>1, <2>1, AtMoves
  <2> QED
    BY <2>2
<1>5. breaks = 0 /\ ~unmount /\ SharesCounted => SharesCounted'
  <2> SUFFICES ASSUME breaks = 0, ~unmount, SharesCounted, NEW x \in Fcb
               PROVE  ShareFits(fcb'[x].share, At(x, Holding)', failures')
    BY DEF SharesCounted
  <2>1. CASE x = f
    BY <1>1, <1>2, <2>1
  <2>2. CASE x # f
    <3>1. ShareFits(fcb[x].share, At(x, Holding), failures)
      BY DEF SharesCounted
    <3>2. ShareFits(fcb[x].share, At(x, Holding), failures')
      BY <1>0, <3>1, AtHandles, ShareLeaked DEF Later
    <3> QED
      BY <1>3, <2>2, <3>2
  <2> QED
    BY <2>1, <2>2
<1>6. breaks = 0 /\ SharingRespected => SharingRespected'
  <2> SUFFICES ASSUME breaks = 0, SharingRespected, NEW x \in Fcb,
                      NEW j \in At(x, Holding)', NEW k \in At(x, Holding)', j # k
               PROVE  j \notin Exclusive /\ k \notin Exclusive
    BY DEF SharingRespected, Holding
  <2>1. CASE x = f
    BY <1>2, <2>1 DEF AllShare
  <2>2. CASE x # f
    BY <1>3, <2>2 DEF SharingRespected, Holding
  <2> QED
    BY <2>1, <2>2
<1> QED
  BY <1>0, <1>4, <1>5, <1>6 DEF ShareInv, Later

(* Those who hold the file open together share it.                         *)
LEMMA HoldersShare ==
  ASSUME ShareInv, NEW f \in Fcb, NEW H, H \subseteq At(f, Holding)
  PROVE  breaks = 0 => AllShare(H)
  BY DEF ShareInv, SharingRespected, Holding, AllShare

(* A file object that holds its FCB goes on holding it, or one that does   *)
(* not goes on without.                                                    *)
LEMMA StaysShare ==
  ASSUME RefInv, ShareInv, [Next]_vars, NEW h \in Handle,
         NEW pc, NEW ccbs, NEW unclean, Acts(h, pc, ccbs, unclean, fcb[handle[h].fcb].share),
         pc \notin Waiting, pc \in Holding <=> handle[h].pc \in Holding
  PROVE  ShareInv'
<1>. PICK f \in Fcb : f = handle[h].fcb
  BY Held DEF RefInv, Acts
<1> DEFINE H == After(f, h, pc)
<1>1. H = At(f, Holding)
  BY DEF At, After
<1>2. breaks = 0 /\ ~unmount /\ SharesCounted => ShareFits(fcb[f].share, H, failures')
  <2>1. failures \in Nat /\ failures' \in Nat /\ failures =< failures'
    BY FailureTypes DEF Later
  <2> HIDE DEF H
  <2> QED
    BY <1>1, <2>1, AtHandles, ShareLeaked DEF SharesCounted
<1>3. breaks = 0 => AllShare(H)
  <2> HIDE DEF H
  <2> QED
    BY <1>1, HoldersShare
<1> QED
  BY <1>2, <1>3, ActsShare

(* One that holds it leaves, and its count is taken back, or is lost with  *)
(* a failure or an unmount.                                                *)
LEMMA LeavesShare ==
  ASSUME CountersSuffice, RefInv, ShareInv, [Next]_vars, NEW h \in Handle,
         NEW pc, NEW ccbs, NEW unclean, NEW share, Acts(h, pc, ccbs, unclean, share),
         pc \notin Waiting, pc \notin Holding, handle[h].pc \in Holding,
         \/ share = IoRemoveShareAccess(h, fcb[handle[h].fcb].share)
         \/ share = fcb[handle[h].fcb].share /\ (unmount \/ failures' = failures + 1)
  PROVE  ShareInv'
<1>. PICK f \in Fcb : f = handle[h].fcb
  BY Held DEF RefInv, Acts
<1> DEFINE H == After(f, h, pc)
<1>1. H = At(f, Holding) \ {h} /\ h \in At(f, Holding)
  BY DEF At, After
<1>2. ASSUME breaks = 0, ~unmount, SharesCounted PROVE ShareFits(share, H, failures')
  <2>1. /\ failures \in 0 .. MaxFailures /\ failures' \in 0 .. MaxFailures
        /\ failures \in Nat /\ failures' \in Nat /\ failures =< failures'
    BY FailureTypes DEF Later
  <2>2. ShareFits(fcb[f].share, At(f, Holding), failures) /\ At(f, Holding) \in SUBSET Handle
    BY <1>2, AtHandles DEF SharesCounted
  <2>3. ShareFits(fcb[f].share, At(f, Holding), failures')
    BY <2>1, <2>2, ShareLeaked
  <2> HIDE DEF H
  <2>4. CASE share = IoRemoveShareAccess(h, fcb[f].share)
    BY <1>1, <2>1, <2>2, <2>3, <2>4, ShareRemoved
  <2>5. CASE share = fcb[f].share /\ failures' = failures + 1
    BY <1>1, <2>1, <2>2, <2>5, ShareLeaked
  <2> QED
    BY <1>2, <2>4, <2>5
<1>3. breaks = 0 => AllShare(H)
  BY <1>1, HoldersShare
<1> QED
  BY <1>2, <1>3, ActsShare

(* A create that is let through joins the file objects of its FCB; one     *)
(* that is unwound later leaves the share access as it was.                *)
LEMMA JoinsShare ==
  ASSUME CountersSuffice, RefInv, ShareInv, [Next]_vars, NEW h \in Handle,
         CreateSent(h) \/ CreateUnwound(h), handle[h].pc = "got"
  PROVE  ShareInv'
<1>0. handle[h].pc \in Referencing
  BY DEF Referencing
<1>. PICK f \in Fcb : f = handle[h].fcb
  BY <1>0, Held DEF RefInv
<1>1. h \notin At(f, Holding) /\ h \in At(f, Referencing)
  BY <1>0 DEF At, Holding, Opened
<1>2. /\ failures \in 0 .. MaxFailures /\ failures' \in 0 .. MaxFailures
      /\ failures \in Nat /\ failures' \in Nat /\ failures =< failures'
  BY FailureTypes DEF Later
<1>3. fcb[f].OpenCount \in Nat /\ fcb[f].OpenCount = Cardinality(At(f, Referencing))
  BY AtFinite DEF RefInv, OpenCountExact
<1>4. ASSUME ~(fcb[f].OpenCount > 1) PROVE At(f, Holding) = {}
  <2>1. Cardinality(At(f, Referencing)) =< 1
    BY <1>3, <1>4
  <2>2. Cardinality(At(f, Referencing) \ {h}) = Cardinality(At(f, Referencing)) - 1
    BY <1>1, AtFinite
  <2>3. IsFiniteSet(At(f, Referencing) \ {h}) /\ Cardinality(At(f, Referencing) \ {h}) \in Nat
    BY AtFinite, FS_Subset, FS_CardinalityType
  <2>4. Cardinality(At(f, Referencing)) \in Nat
    BY AtFinite
  <2>5. Cardinality(At(f, Referencing) \ {h}) = 0
    BY <2>1, <2>2, <2>3, <2>4
  <2>6. At(f, Referencing) \ {h} = {}
    BY <2>3, <2>5, FS_EmptySet
  <2> QED
    BY <1>1, <2>6 DEF At, Referencing, WithCcb, Holding
<1>5. MayShare(h, f)
  BY DEF CreateSent, CreateUnwound
<1>6. ASSUME breaks = 0, ~unmount, SharesCounted
      PROVE  /\ ShareFits(WithShare(h, f), At(f, Holding) \cup {h}, failures')
             /\ ShareFits(IoRemoveShareAccess(h, WithShare(h, f)), At(f, Holding), failures')
             /\ At(f, Holding) \cap Exclusive = {}
             /\ h \in Exclusive => At(f, Holding) = {}
  <2>1. ShareFits(fcb[f].share, At(f, Holding), failures) /\ At(f, Holding) \in SUBSET Handle
    BY <1>6, AtHandles DEF SharesCounted
  <2>2. ShareFits(fcb[f].share, At(f, Holding), failures')
    BY <1>2, <2>1, ShareLeaked
  <2>3. CASE fcb[f].OpenCount > 1
    <3>1. WithShare(h, f) = IoUpdateShareAccess(h, fcb[f].share)
          /\ IoCheckShareAccess(h, fcb[f].share)
      BY <1>5, <2>3 DEF WithShare, MayShare
    <3>2. /\ ShareFits(IoUpdateShareAccess(h, fcb[f].share), At(f, Holding) \cup {h}, failures')
          /\ ShareFits(IoRemoveShareAccess(h, IoUpdateShareAccess(h, fcb[f].share)),
                       At(f, Holding), failures')
      BY <1>1, <1>2, <2>1, <2>2, ShareUpdated
    <3>3. /\ At(f, Holding) \cap Exclusive = {}
          /\ h \in Exclusive => At(f, Holding) = {}
      BY <1>2, <2>1, <3>1, ShareAdmits
    <3> QED
      BY <3>1, <3>2, <3>3
  <2>4. CASE ~(fcb[f].OpenCount > 1)
    <3>1. WithShare(h, f) = Wanted(h) /\ At(f, Holding) = {}
      BY <1>4, <2>4 DEF WithShare
    <3>2. ShareFits(Wanted(h), {h}, failures')
          /\ ShareFits(IoRemoveShareAccess(h, Wanted(h)), {}, failures')
      BY <1>2, ShareFirst
    <3>3. {} \cup {h} = {h}
      OBVIOUS
    <3> QED
      BY <3>1, <3>2, <3>3
  <2> QED
    BY <2>3, <2>4
<1>7. CASE CreateSent(h)
  <2> DEFINE H == After(f, h, "pending")
  <2>1. H = At(f, Holding) \cup {h} /\ "pending" \notin Waiting
    BY DEF Holding, Waiting, After
  <2>2. ~unmount /\ (breaks = 0 => SharesCounted)
    BY <1>7 DEF CreateSent, ShareInv
  <2>3. Acts(h, "pending", fcb[f].ccbs \cup {h}, fcb[f].UncleanCount, WithShare(h, f))
    BY <1>7, CreateActs
  <2>4. breaks = 0 => AllShare(H)
    <3> HIDE DEF H
    <3>1. breaks = 0 => At(f, Holding) \cap Exclusive = {}
                        /\ (h \in Exclusive => At(f, Holding) = {})
      BY <1>6, <2>2
    <3> QED
      BY <2>1, <3>1 DEF AllShare
  <2>5. breaks = 0 /\ ~unmount /\ SharesCounted => ShareFits(WithShare(h, f), H, failures')
    <3> HIDE DEF H
    <3> QED
      BY <1>6, <2>1
  <2> QED
    BY <2>1, <2>3, <2>4, <2>5, ActsShare
<1>8. CASE CreateUnwound(h)
  <2> DEFINE H == After(f, h, "release")
  <2>1. H = At(f, Holding) /\ "release" \notin Waiting
    BY <1>1 DEF Holding, Waiting, Opened, After
  <2>3. Acts(h, "release", fcb[f].ccbs \ {h}, fcb[f].UncleanCount,
             IoRemoveShareAccess(h, WithShare(h, f)))
    BY <1>8, CreateActs
  <2>4. breaks = 0 => AllShare(H)
    <3> HIDE DEF H
    <3> QED
      BY <2>1, HoldersShare
  <2>5. breaks = 0 /\ ~unmount /\ SharesCounted =>
          ShareFits(IoRemoveShareAccess(h, WithShare(h, f)), H, failures')
    <3> HIDE DEF H
    <3> QED
      BY <1>6, <2>1
  <2> QED
    BY <2>1, <2>3, <2>4, <2>5, ActsShare
<1> QED
  BY <1>7, <1>8

(* Every step keeps the share counters fitting and sharing respected.      *)
LEMMA ShareStep ==
  ASSUME CountersSuffice, RefInv, ShareInv, [Next]_vars
  PROVE  ShareInv'
<1>1. CASE Quiet
  BY <1>1, QuietShare
<1>2. CASE breaks' # 0
  BY <1>2 DEF ShareInv
<1>3. ASSUME NEW h \in Handle, handle[h].pc \in Waiting PROVE breaks' # 0
  <2>1. handle[h].fcb \in Fcb
    BY <1>3, Held DEF RefInv, Waiting, Referencing, WithCcb
  <2>2. breaks # 0
    BY <1>3, <2>1 DEF ShareInv, At
  <2> QED
    BY <2>2, FailureTypes DEF Later
<1>4. ASSUME NEW h \in Handle, Create(h), ~Quiet, breaks' = 0 PROVE ShareInv'
  <2>1. CASE CreateRefused(h) \/ CreateDenied(h)
    <3>1. handle[h].pc = "got"
      BY <1>3, <1>4, <2>1 DEF CreateRefused, CreateDenied, Creating, Waiting
    <3>2. "release" \notin Waiting /\ "release" \notin Holding /\ handle[h].pc \notin Holding
      BY <3>1 DEF Waiting, Holding, Opened
    <3> QED
      BY <2>1, <3>2, CreateActs, StaysShare DEF OnlyMoves
  <2>2. CASE CreateBreaksHandles(h) \/ CreateBreaksOplock(h)
    <3>1. breaks' = breaks + 1
      BY <2>2 DEF CreateBreaksHandles, CreateBreaksOplock
    <3>2. breaks \in Nat
      BY FileHandlesAssumption DEF RefInv, TypeOK
    <3> QED
      BY <1>4, <3>1, <3>2
  <2>3. CASE CreateUnwound(h) \/ CreateSent(h)
    <3>1. handle[h].pc = "got"
      BY <1>3, <1>4, <2>3 DEF CreateUnwound, CreateSent, Creating, Waiting
    <3> QED
      BY <2>3, <3>1, JoinsShare
  <2>4. CASE CreateRetried(h) \/ CreateRetryFails(h) \/ BreakFailed(h)
    BY <1>3, <1>4, <2>4 DEF CreateRetried, CreateRetryFails, BreakFailed, Waiting
  <2>5. CASE CreateDropped(h)
    <3>1. OnlyMoves(h, "lost") /\ handle[h].pc = "pending" /\ unmount
      BY <2>5, CreateActs DEF CreateDropped
    <3>2. "lost" \notin Waiting /\ "lost" \notin Holding /\ handle[h].pc \in Holding
      BY <3>1 DEF Waiting, Holding, Opened
    <3> QED
      BY <3>1, <3>2, LeavesShare DEF OnlyMoves
  <2>6. CASE DokanCompleteCreate(h) /\ CompleteCreateFailed(h)
    <3>1. "release" \notin Waiting /\ "release" \notin Holding /\ handle[h].pc \in Holding
      BY <2>6 DEF DokanCompleteCreate, Waiting, Holding, Opened
    <3> QED
      BY <2>6, <3>1, CompleteCreateActs, LeavesShare
  <2>7. CASE DokanCompleteCreate(h) /\ ~CompleteCreateFailed(h)
    <3>1. "open" \notin Waiting /\ "open" \in Holding /\ handle[h].pc \in Holding
      BY <2>7 DEF DokanCompleteCreate, Waiting, Holding, Opened
    <3> QED
      BY <2>7, <3>1, CompleteCreateActs, StaysShare
  <2> QED
    BY <1>4, <2>1, <2>2, <2>3, <2>4, <2>5, <2>6, <2>7, QuietSteps DEF Create
<1>5. ASSUME NEW h \in Handle, SetInformation(h), ~Quiet, breaks' = 0 PROVE ShareInv'
  <2>1. OnlyMoves(h, handle[h].pc)
    BY <1>5, DispositionActs, QuietSteps DEF SetInformation
  <2>2. handle[h].pc \notin Waiting
    BY <1>3, <1>5
  <2> QED
    BY <2>1, <2>2, StaysShare DEF OnlyMoves
<1>6. ASSUME NEW h \in Handle, Cleanup(h) PROVE ShareInv'
  <2>1. CASE CleanupUnmounted(h) \/ DokanCompleteCleanup(h)
    <3>1. "cleaned" \notin Waiting /\ "cleaned" \notin Holding /\ handle[h].pc \in Holding
      BY <2>1 DEF CleanupUnmounted, DokanCompleteCleanup, Waiting, Holding, Opened
    <3> QED
      BY <2>1, <3>1, CleanupActs, LeavesShare
  <2>2. CASE CleanupFails(h)
    <3>1. /\ OnlyMoves(h, "cleaned") /\ handle[h].pc = "flushed"
          /\ unmount \/ failures' = failures + 1
      BY <2>2, CleanupActs DEF CleanupFails, OneFails
    <3>2. "cleaned" \notin Waiting /\ "cleaned" \notin Holding /\ handle[h].pc \in Holding
      BY <3>1 DEF Waiting, Holding, Opened
    <3> QED
      BY <3>1, <3>2, LeavesShare DEF OnlyMoves
  <2>3. CASE DokanDispatchCleanup(h) \/ CleanupFlushes(h) \/ CleanupSent(h)
    <3>1. PICK pc \in {"cleanup", "flushed", "cleaning"} : OnlyMoves(h, pc)
      BY <2>3, CleanupActs
    <3>2. pc \notin Waiting /\ pc \in Holding /\ handle[h].pc \in Holding
      BY <2>3 DEF DokanDispatchCleanup, CleanupFlushes, CleanupSent, Waiting, Holding, Opened
    <3> QED
      BY <3>1, <3>2, StaysShare DEF OnlyMoves
  <2> QED
    BY <1>6, <2>1, <2>2, <2>3 DEF Cleanup
<1>7. ASSUME NEW h \in Handle, Close(h), ~Quiet PROVE ShareInv'
  <2>1. DokanDispatchClose(h)
    BY <1>7, QuietSteps DEF Close
  <2>2. "release" \notin Waiting /\ "release" \notin Holding /\ handle[h].pc \notin Holding
    BY <2>1 DEF DokanDispatchClose, Waiting, Holding, Opened
  <2> QED
    BY <2>1, <2>2, CleanupActs, StaysShare
<1> QED
  BY <1>1, <1>2, <1>4, <1>5, <1>6, <1>7, QuietSteps DEF Next

(* Until an oplock break is waited for, two file objects that hold an FCB  *)
(* at the same time both share their access: DokanCheckShareAccess looks   *)
(* at a share access that counts every holder, although a cleanup that was *)
(* failed leaves its count behind for good and the first create of an FCB  *)
(* overwrites what is left.  The counters must be wide enough for the file *)
(* objects and the counts left behind.  (A create that is failed while it  *)
(* waits for an oplock break takes back a count it never took.)            *)
THEOREM SharingKept ==
  ASSUME CountersSuffice
  PROVE  Spec => [](breaks = 0 => SharingRespected)
<1>1. Init => ShareInv
  <2> SUFFICES ASSUME Init
               PROVE  /\ \A f \in Fcb : At(f, Waiting) = {}
                      /\ SharesCounted /\ SharingRespected
    BY DEF ShareInv
  <2>1. \A f \in Fcb : At(f, Waiting) = {} /\ At(f, Holding) = {}
    BY DEF Init, At, NoHandle, Waiting, Holding, Opened
  <2>2. Cardinality({}) = 0 /\ {} \ Exclusive = {} /\ 0 \in 0 .. failures /\ failures = 0
    BY FS_EmptySet DEF Init
  <2>3. ShareFits(NoShare, {}, failures)
    BY <2>2 DEF ShareFits, NoShare
  <2>4. \A f \in Fcb : fcb[f].share = NoShare
    BY DEF Init, FreedFcb
  <2>5. SharesCounted
    BY <2>1, <2>3, <2>4 DEF SharesCounted
  <2> QED
    BY <2>1, <2>5 DEF SharingRespected, Holding
<1>2. ShareInv => (breaks = 0 => SharingRespected)
  BY DEF ShareInv
<1>3. RefInv /\ ShareInv /\ [Next]_vars => ShareInv'
  BY ShareStep
<1> QED
  BY <1>1, <1>2, <1>3, RefInvariant, PTL DEF Spec
=============================================================================
