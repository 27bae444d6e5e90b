------------------------- MODULE PstoreCleanProofs --------------------------
(***************************************************************************)
(* The properties of PstoreClean for every set of dumps, rules and failing *)
(* system calls, and any number of reboots; at the end, getbasefilename.   *)
(***************************************************************************)
EXTENDS PstoreClean, BaseFileName, WellFoundedInduction, TLAPS

\* The places inside the loop body, where main treats the dump Current.
Treating == {"move", "copymove", "default", "copydst", "unlink"}

\* The types, and that the body has a dump to treat and an entry to fill.
TypeInv == /\ TypeOK
           /\ pc \in Treating => todo # {}
           /\ pc = "copydst" => dst # <<>> /\ old < Len(dst)

\* Each branch of the body is that of the dump's rule.
PlaceInv ==
    /\ pc = "move" => RuleOf(Current) \in {"move", "devnull"}
    /\ pc = "copymove" => RuleOf(Current) = "move"
    /\ pc \in {"default", "copydst"} => RuleOf(Current) = "default"
    /\ pc = "unlink" => RuleOf(Current) # "keep"

\* The loop leaves behind only what the rules keep; it is not entered when
\* readdir fails.
CleanInv ==
    /\ pc \in {"loop"} \cup Treating =>
          \A f \in pstore \ todo : RuleOf(f) = "keep"
    /\ pc \in {"done", "rmdir", "success"} =>
          \A f \in pstore : RuleOf(f) = "keep" \/ "readdir" \in ignored
    /\ pc \in {"rmdir", "success"} => ~mounted
    /\ pc = "success" => (mntdir => "rmdir" \in ignored)

\* DST is in order, and the dumps still to treat belong behind what it has
\* but for the entries that stat missed;
\* the dump of its last entry may be the one being treated.
OrderInv ==
    /\ DstInOrder
    /\ pc = "scan" => old = Len(dst)
    /\ pc \in {"loop", "move", "copymove", "default"} =>
          \A n \in DOMAIN dst, x \in todo : old < n => dst[n].file > x
    /\ pc \in {"copydst", "unlink"} =>
          \A n \in DOMAIN dst, x \in todo : old < n => dst[n].file >= x
    /\ pc = "copydst" => dst[Len(dst)].file = Current

\* A dump about to be unlinked is in a safe place, or given up.
UnlinkInv ==
    pc = "unlink" => \/ WholeInDst(Current)
                     \/ moved[Current] = "whole"
                     \/ RuleOf(Current) = "devnull"
                     \/ Current \in forgone

\* A kept dump has no copy.
KeptInv ==
    \A f \in Files : RuleOf(f) = "keep" =>
        /\ moved[f] = "absent"
        /\ \A n \in DOMAIN dst : dst[n].file # f

IInv == /\ TypeInv /\ PlaceInv /\ CleanInv /\ OrderInv /\ UnlinkInv
        /\ KeptInv /\ NoDumpVanishes

-----------------------------------------------------------------------------
(* The dump the loop is at.                                                *)

\* The numbers are well ordered.
LEMMA LeastNat ==
    ASSUME NEW T \in SUBSET Nat, T # {}
    PROVE  \E x \in T : \A y \in T : x <= y
<1> DEFINE R == OpToRel(<, Nat)
<1>1. IsWellFoundedOn(R, Nat)
  BY NatLessThanWellFounded
<1>2. \A x, y \in Nat : y < x => <<y, x>> \in R
  BY DEF OpToRel
<1> HIDE DEF R
<1>3. PICK x \in T : \A y \in T : ~(<<y, x>> \in R)
  BY <1>1, WFMin
<1>4. \A y \in T : ~(y < x)
  BY <1>2, <1>3
<1> QED BY <1>4

\* A set of dumps that is not empty has a last one.
LEMMA LastFile ==
    ASSUME NEW T \in SUBSET Files, T # {}
    PROVE  \E x \in T : \A y \in T : y <= x
<1> DEFINE U == {MaxFile - x : x \in T}
<1>1. U \in SUBSET Nat
  BY PstoreBounds DEF Files
<1>2. U # {}
  <2>1. PICK x \in T : TRUE
    OBVIOUS
  <2>2. MaxFile - x \in U
    BY <2>1
  <2> QED BY <2>2
<1>3. PICK u \in U : \A y \in U : u <= y
  <2> HIDE DEF U
  <2> QED BY <1>1, <1>2, LeastNat
<1>4. PICK x \in T : u = MaxFile - x
  BY <1>3
<1>5. \A y \in T : MaxFile - x <= MaxFile - y
  BY <1>3, <1>4
<1> QED BY <1>5, PstoreBounds DEF Files

\* The loop is at the last dump of the list.
LEMMA CurrentIsLast ==
    ASSUME TypeOK, todo # {}
    PROVE  /\ Current \in todo /\ Current \in pstore /\ Current \in Files
           /\ \A x \in todo : x <= Current
<1>1. \E f \in todo : \A x \in todo : x <= f
  BY LastFile DEF TypeOK
<1>2. Current \in todo /\ \A x \in todo : x <= Current
  BY <1>1 DEF Current
<1> QED BY <1>2 DEF TypeOK

\* It stays there while the list does not change.
LEMMA CurrentStays ==
    ASSUME UNCHANGED todo
    PROVE  Current' = Current
BY DEF Current

-----------------------------------------------------------------------------
(* The entries of DST.                                                     *)

Entry == [file : Files, whole : BOOLEAN]

\* No entry.
LEMMA EmptyDst == <<>> \in Seq(Entry)
OBVIOUS

\* A new header behind the others.
LEMMA AppendEntry ==
    ASSUME NEW s \in Seq(Entry), NEW e \in Entry
    PROVE  /\ Append(s, e) \in Seq(Entry)
           /\ Len(Append(s, e)) = Len(s) + 1
           /\ DOMAIN Append(s, e) = 1 .. Len(s) + 1
           /\ DOMAIN s = 1 .. Len(s)
           /\ \A n \in 1..Len(s) : Append(s, e)[n] = s[n]
           /\ Append(s, e)[Len(s) + 1] = e
OBVIOUS

\* The last entry completed.
LEMMA ReplaceLast ==
    ASSUME NEW s \in Seq(Entry), NEW e \in Entry, s # <<>>
    PROVE  /\ [s EXCEPT ![Len(s)] = e] \in Seq(Entry)
           /\ DOMAIN [s EXCEPT ![Len(s)] = e] = DOMAIN s
           /\ Len(s) \in DOMAIN s
           /\ [s EXCEPT ![Len(s)] = e][Len(s)] = e
           /\ \A n \in DOMAIN s : n # Len(s) => [s EXCEPT ![Len(s)] = e][n] = s[n]
OBVIOUS

\* What a reboot makes of an entry.
LEMMA EntryAfterReboot ==
    ASSUME NEW r \in Entry, NEW lost
    PROVE  LET e == [r EXCEPT !.whole = @ /\ r.file \notin lost]
           IN  e \in Entry /\ e.file = r.file
                 /\ (e.whole <=> r.whole /\ r.file \notin lost)
BY DEF Entry

\* A reboot leaves the headers, and the copies that are not lost.
LEMMA RebootDst ==
    ASSUME dst \in Seq(Entry), NEW new, NEW lost, Reboot(new, lost)
    PROVE  /\ DOMAIN dst' = DOMAIN dst
           /\ \A n \in DOMAIN dst :
                 /\ dst'[n].file = dst[n].file
                 /\ dst'[n].whole <=> dst[n].whole /\ dst[n].file \notin lost
<1>1. dst' = [n \in DOMAIN dst |->
                 [dst[n] EXCEPT !.whole = @ /\ dst[n].file \notin lost]]
  BY DEF Reboot
<1>2. \A n \in DOMAIN dst : dst[n] \in Entry
  OBVIOUS
<1>3. \A n \in DOMAIN dst :
          dst'[n] = [dst[n] EXCEPT !.whole = @ /\ dst[n].file \notin lost]
  BY <1>1
<1> QED BY <1>1, <1>2, <1>3, EntryAfterReboot

-----------------------------------------------------------------------------
(* Types.                                                                  *)

\* The first boot.
LEMMA TypeInit == Init => TypeInv
<1> SUFFICES ASSUME Init PROVE TypeInv
  OBVIOUS
<1>1. mounted \in BOOLEAN /\ mntdir \in BOOLEAN /\ dstOpen \in BOOLEAN
  BY DEF Init
<1> QED BY <1>1, PstoreBounds DEF Init, TypeInv, TypeOK, Files, Treating

\* Every step keeps the types.
LEMMA TypeStep == TypeInv /\ [Next]_vars => TypeInv'
<1> SUFFICES ASSUME TypeInv, [Next]_vars PROVE TypeInv'
  OBVIOUS
<1>e. dst \in Seq(Entry)
  BY DEF TypeInv, TypeOK, Entry
<1>0. pc \in Treating => Current \in todo /\ Current \in Files
  BY CurrentIsLast DEF TypeInv
<1> USE DEF TypeInv, TypeOK, Treating, mount, history
<1>1. CASE UNCHANGED vars
  BY <1>1 DEF vars
<1>2. CASE CheckMount
  BY <1>2 DEF CheckMount
<1>3. CASE CheckEmpty
  BY <1>3 DEF CheckEmpty
<1>4. CASE RemoveDst
  <2>1. dst' \in Seq(Entry)
    <3>1. dst' = <<>> \/ dst' = dst
      BY <1>4 DEF RemoveDst
    <3> QED BY <1>e, <3>1, EmptyDst
  <2>2. forgone' \subseteq Files
    BY <1>4 DEF RemoveDst
  <2> QED BY <1>4, <2>1, <2>2 DEF RemoveDst, Entry
<1>5. CASE Scandir
  BY <1>5 DEF Scandir
<1>6. CASE Dispatch
  BY <1>6 DEF Dispatch
<1>7. CASE LoopEnds
  BY <1>7 DEF LoopEnds
<1>8. CASE OpenDestination
  <2>1. moved' \in [Files -> {"absent", "partial", "whole"}]
    BY <1>0, <1>8 DEF OpenDestination
  <2>2. forgone' \subseteq Files
    BY <1>0, <1>8 DEF OpenDestination
  <2> QED BY <1>8, <2>1, <2>2 DEF OpenDestination
<1>9. CASE CopyToDestination
  <2>1. moved' \in [Files -> {"absent", "partial", "whole"}]
    BY <1>0, <1>9 DEF CopyToDestination
  <2>2. forgone' \subseteq Files /\ dirty' \subseteq Files
    BY <1>0, <1>9 DEF CopyToDestination
  <2> QED BY <1>9, <2>1, <2>2 DEF CopyToDestination
<1>10. CASE OpenDst
  <2>1. dst' \in Seq(Entry)
    <3>1. [file |-> Current, whole |-> FALSE] \in Entry
      BY <1>0, <1>10 DEF OpenDst, Entry
    <3> QED BY <1>10, <1>e, <3>1, AppendEntry DEF OpenDst
  <2>2. dstOpen' \in BOOLEAN
    BY <1>10 DEF OpenDst
  <2> QED BY <1>10, <2>1, <2>2 DEF OpenDst, Entry
<1>11. CASE CopyToDst
  <2>1. dst' \in Seq(Entry)
    <3>1. [file |-> Current, whole |-> TRUE] \in Entry
      BY <1>0, <1>11 DEF CopyToDst, Entry
    <3>2. dst # <<>>
      BY <1>11 DEF CopyToDst
    <3>3. [dst EXCEPT ![Len(dst)] = [file |-> Current, whole |-> TRUE]] \in Seq(Entry)
      BY <1>e, <3>1, <3>2, ReplaceLast
    <3>4. \/ dst' = [dst EXCEPT ![Len(dst)] = [file |-> Current, whole |-> TRUE]]
          \/ dst' = dst
      BY <1>11 DEF CopyToDst
    <3> QED BY <1>e, <3>3, <3>4
  <2>2. forgone' \subseteq Files /\ dirty' \subseteq Files
    BY <1>0, <1>11 DEF CopyToDst
  <2> QED BY <1>11, <2>1, <2>2 DEF CopyToDst, Entry
<1>12. CASE Unlink
  BY <1>12 DEF Unlink
<1>13. CASE Umount
  BY <1>13 DEF Umount
<1>14. CASE Exit
  BY <1>14 DEF Exit
<1>15. ASSUME NEW new \in SUBSET Files, NEW lost \in SUBSET dirty, Reboot(new, lost)
       PROVE  TypeInv'
  <2>1. dst' \in Seq(Entry)
    <3>1. \A n \in DOMAIN dst :
              [dst[n] EXCEPT !.whole = @ /\ dst[n].file \notin lost] \in Entry
      <4> SUFFICES ASSUME NEW n \in DOMAIN dst
                   PROVE  [dst[n] EXCEPT !.whole = @ /\ dst[n].file \notin lost] \in Entry
        OBVIOUS
      <4>1. dst[n] \in Entry
        BY <1>e
      <4> QED BY <4>1, EntryAfterReboot
    <3> QED BY <1>15, <1>e, <3>1 DEF Reboot
  <2>2. mounted' \in BOOLEAN /\ mntdir' \in BOOLEAN /\ dstOpen' \in BOOLEAN
    BY <1>15 DEF Reboot
  <2>3. moved' \in [Files -> {"absent", "partial", "whole"}]
    BY <1>15 DEF Reboot
  <2>4. boots' \in 0..MaxBoots
    BY <1>15, PstoreBounds DEF Reboot
  <2> QED BY <1>15, <2>1, <2>2, <2>3, <2>4 DEF Reboot, Entry
<1> QED
  BY <1>1, <1>2, <1>3, <1>4, <1>5, <1>6, <1>7, <1>8, <1>9, <1>10, <1>11, <1>12,
     <1>13, <1>14, <1>15
  DEF Next, Step

-----------------------------------------------------------------------------
(* The branches of the body, and what the loop leaves.                     *)

\* The first boot.
LEMMA InvInit == Init => IInv
<1> SUFFICES ASSUME Init PROVE IInv
  OBVIOUS
<1>1. TypeInv
  BY TypeInit
<1>2. PlaceInv /\ CleanInv /\ UnlinkInv
  BY DEF Init, PlaceInv, CleanInv, UnlinkInv, Treating
<1>3. OrderInv /\ KeptInv
  BY DEF Init, OrderInv, DstInOrder, KeptInv
<1>4. NoDumpVanishes
  BY DEF Init, NoDumpVanishes, Safe
<1> QED BY <1>1, <1>2, <1>3, <1>4 DEF IInv

\* main enters the branch of the rule and stays in it.
LEMMA PlaceStep == TypeInv /\ PlaceInv /\ [Next]_vars => PlaceInv'
<1> SUFFICES ASSUME TypeInv, PlaceInv, [Next]_vars PROVE PlaceInv'
  OBVIOUS
<1>1. CASE pc' \notin Treating
  BY <1>1 DEF PlaceInv, Treating
<1>2. CASE pc' \in Treating
  <2>1. todo' = todo
    BY <1>2 DEF Next, Step, vars, CheckMount, CheckEmpty, RemoveDst, Scandir,
       Dispatch, LoopEnds, OpenDestination, CopyToDestination, OpenDst, CopyToDst,
       Unlink, Umount, Exit, Reboot, Treating
  <2>2. Current' = Current
    BY <2>1, CurrentStays
  <2>3. CASE UNCHANGED pc
    BY <2>2, <2>3 DEF PlaceInv
  <2>4. CASE Dispatch
    <3>1. RuleOf(Current) \in Actions
      BY RulesAssumption DEF RuleOf, Actions
    <3> QED BY <2>2, <2>4, <3>1, <1>2 DEF PlaceInv, Dispatch, Treating, Actions
  <2>5. CASE OpenDestination
    BY <2>2, <2>5 DEF PlaceInv, OpenDestination
  <2>6. CASE CopyToDestination
    BY <2>2, <2>6 DEF PlaceInv, CopyToDestination
  <2>7. CASE OpenDst
    BY <2>2, <2>7 DEF PlaceInv, OpenDst
  <2>8. CASE CopyToDst
    BY <2>2, <2>8 DEF PlaceInv, CopyToDst
  <2> QED
    BY <1>2, <2>3, <2>4, <2>5, <2>6, <2>7, <2>8
    DEF Next, Step, vars, CheckMount, CheckEmpty, RemoveDst, Scandir, LoopEnds,
        Unlink, Umount, Exit, Reboot, Treating
<1> QED BY <1>1, <1>2

\* A dump leaves the list when it is kept or removed.
LEMMA CleanStep == TypeInv /\ CleanInv /\ [Next]_vars => CleanInv'
<1> SUFFICES ASSUME TypeInv, CleanInv, [Next]_vars PROVE CleanInv'
  OBVIOUS
<1> USE DEF CleanInv, Treating, mount, history
<1>0. TypeOK
  BY DEF TypeInv
<1>1. CASE UNCHANGED vars
  BY <1>1 DEF vars
<1>2. CASE CheckMount \/ CheckEmpty \/ RemoveDst \/ Scandir
  BY <1>2 DEF CheckMount, CheckEmpty, RemoveDst, Scandir
<1>3. CASE Dispatch
  <2>1. pc = "loop" /\ UNCHANGED <<pstore, mount>>
    BY <1>3 DEF Dispatch
  <2>2. pc' \in {"loop", "move", "default"}
    BY <1>3 DEF Dispatch
  <2>3. todo' = todo \/ (todo' = todo \ {Current} /\ RuleOf(Current) = "keep")
    BY <1>3 DEF Dispatch
  <2>4. \A f \in pstore' \ todo' : RuleOf(f) = "keep"
    BY <2>1, <2>3
  <2> QED BY <2>2, <2>4
<1>4. CASE LoopEnds
  BY <1>4 DEF LoopEnds
<1>5. CASE OpenDestination \/ CopyToDestination \/ OpenDst \/ CopyToDst
  BY <1>5 DEF OpenDestination, CopyToDestination, OpenDst, CopyToDst
<1>6. CASE Unlink
  BY <1>6 DEF Unlink
<1>7. CASE Umount
  BY <1>7 DEF Umount
<1>8. CASE Exit
  BY <1>8 DEF Exit
<1>9. ASSUME NEW new \in SUBSET Files, NEW lost \in SUBSET dirty, Reboot(new, lost)
      PROVE  CleanInv'
  BY <1>9 DEF Reboot
<1> QED
  BY <1>1, <1>2, <1>3, <1>4, <1>5, <1>6, <1>7, <1>8, <1>9 DEF Next, Step

-----------------------------------------------------------------------------
(* The order of DST.                                                       *)

\* A dump is appended when every entry is of a later one.
LEMMA OrderStep == TypeInv /\ TypeInv' /\ OrderInv /\ [Next]_vars => OrderInv'
<1> SUFFICES ASSUME TypeInv, TypeInv', OrderInv, [Next]_vars PROVE OrderInv'
  OBVIOUS
<1>e. dst \in Seq(Entry)
  BY DEF TypeInv, TypeOK, Entry
<1>f. \A n \in DOMAIN dst : dst[n].file \in Nat
  <2>1. \A n \in DOMAIN dst : dst[n] \in Entry
    BY <1>e
  <2>2. \A r \in Entry : r.file \in Nat
    BY PstoreBounds DEF Entry, Files
  <2> QED BY <2>1, <2>2
<1>g. todo \subseteq Nat
  BY DEF TypeInv, TypeOK, Files
<1>c. todo # {} => /\ Current \in todo /\ Current \in Nat
                   /\ \A x \in todo : x <= Current
  BY <1>g, CurrentIsLast DEF TypeInv
<1>t. pc \in Treating => todo # {}
  BY DEF TypeInv
<1> USE DEF OrderInv, DstInOrder
<1>o. old \in Nat /\ Len(dst) \in Nat /\ DOMAIN dst = 1..Len(dst)
  BY <1>e DEF TypeInv, TypeOK
<1>1. CASE UNCHANGED <<pc, dst, todo, old>>
  BY <1>1, CurrentStays
<1>2. CASE CheckMount \/ CheckEmpty \/ LoopEnds
  BY <1>2 DEF CheckMount, CheckEmpty, LoopEnds, history
<1>3. CASE RemoveDst
  <2>1. CASE dst' = <<>> /\ old' = 0 /\ pc' = "scan"
    BY <2>1
  <2>2. CASE dst' = dst /\ old' = Len(dst) /\ pc' = "scan"
    <3>1. \A n \in DOMAIN dst : ~(old' < n)
      BY <2>2, <1>o
    <3> QED BY <2>2, <3>1
  <2>3. CASE dst' = dst /\ old' = old /\ pc' = "error2"
    BY <2>3
  <2> QED BY <1>3, <2>1, <2>2, <2>3 DEF RemoveDst
<1>4. CASE Scandir
  <2>1. UNCHANGED <<dst, old>> /\ old = Len(dst) /\ pc' \in {"loop", "error2"}
    BY <1>4 DEF Scandir, history
  <2>2. \A n \in DOMAIN dst : ~(old < n)
    BY <2>1, <1>o
  <2> QED BY <2>1, <2>2
<1>5. CASE Dispatch
  <2>1. pc = "loop" /\ UNCHANGED <<dst, old>> /\ todo' \subseteq todo
    BY <1>5 DEF Dispatch, history
  <2>2. pc' \in {"loop", "move", "default"}
    BY <1>5 DEF Dispatch
  <2> QED BY <2>1, <2>2
<1>6. CASE OpenDestination
  BY <1>6, <1>f, <1>g DEF OpenDestination
<1>7. CASE CopyToDestination
  BY <1>7, <1>f, <1>g DEF CopyToDestination
<1>8. CASE OpenDst
  <2>1. CASE pc' = "error2"
    BY <1>8, <2>1 DEF OpenDst, history
  <2>2. CASE pc' = "copydst"
    <3> DEFINE e == [file |-> Current, whole |-> FALSE]
    <3>1. pc = "default" /\ dst' = Append(dst, e) /\ todo' = todo /\ old' = old
      BY <1>8, <2>2 DEF OpenDst, history
    <3>2. Current' = Current
      BY <3>1, CurrentStays
    <3>3. todo # {}
      BY <3>1, <1>t DEF Treating
    <3>4. e \in Entry /\ e.file = Current
      BY <3>3, <1>c, CurrentIsLast DEF TypeInv, Entry
    <3> HIDE DEF e
    <3>5. /\ Len(dst') = Len(dst) + 1 /\ DOMAIN dst' = 1 .. Len(dst) + 1
          /\ DOMAIN dst = 1 .. Len(dst) /\ Len(dst) \in Nat
          /\ \A n \in 1..Len(dst) : dst'[n] = dst[n]
          /\ dst'[Len(dst) + 1] = e
      BY <3>1, <3>4, <1>e, AppendEntry
    <3>6. \A n \in DOMAIN dst : old < n => dst[n].file > Current
      BY <3>1, <3>3, <1>c
    <3>7. DstInOrder'
      <4> SUFFICES ASSUME NEW n \in DOMAIN dst', NEW j \in DOMAIN dst', old < n, n < j
                   PROVE  dst'[n].file > dst'[j].file
        BY <3>1
      <4>1. n \in 1..Len(dst)
        BY <3>5
      <4>2. CASE j = Len(dst) + 1
        BY <4>1, <4>2, <3>5, <3>6, <3>4
      <4>3. CASE j \in 1..Len(dst)
        BY <4>1, <4>3, <3>5
      <4> QED BY <4>2, <4>3, <3>5
    <3>8. \A n \in DOMAIN dst', x \in todo' : old' < n => dst'[n].file >= x
      <4> SUFFICES ASSUME NEW n \in DOMAIN dst', NEW x \in todo, old < n
                   PROVE  dst'[n].file >= x
        BY <3>1
      <4>1. CASE n = Len(dst) + 1
        BY <4>1, <3>3, <3>4, <3>5, <1>c, <1>g
      <4>2. CASE n \in 1..Len(dst)
        <5>1. dst[n].file > x /\ dst'[n] = dst[n] /\ dst[n].file \in Nat
          BY <4>2, <3>1, <3>5, <1>f
        <5> QED BY <5>1, <1>g
      <4> QED BY <4>1, <4>2, <3>5
    <3>9. dst'[Len(dst')].file = Current'
      BY <3>2, <3>4, <3>5
    <3> QED BY <2>2, <3>7, <3>8, <3>9
  <2> QED BY <1>8, <2>1, <2>2 DEF OpenDst
<1>9. CASE CopyToDst
  <2>1. pc = "copydst" /\ pc' = "unlink" /\ todo' = todo /\ dst # <<>> /\ old' = old
    BY <1>9 DEF CopyToDst, TypeInv
  <2>2. DOMAIN dst' = DOMAIN dst /\ \A n \in DOMAIN dst : dst'[n].file = dst[n].file
    <3> DEFINE e == [file |-> Current, whole |-> TRUE]
    <3>1. e \in Entry /\ e.file = Current
      BY <2>1, <1>t, CurrentIsLast DEF TypeInv, Entry, Treating
    <3>2. dst' = [dst EXCEPT ![Len(dst)] = e] \/ dst' = dst
      BY <1>9 DEF CopyToDst
    <3> HIDE DEF e
    <3>3. CASE dst' = dst
      BY <3>3
    <3>4. CASE dst' = [dst EXCEPT ![Len(dst)] = e]
      <4>1. /\ DOMAIN dst' = DOMAIN dst /\ dst'[Len(dst)] = e
            /\ \A n \in DOMAIN dst : n # Len(dst) => dst'[n] = dst[n]
        BY <3>1, <3>4, <2>1, <1>e, ReplaceLast
      <4>2. dst[Len(dst)].file = Current
        BY <2>1
      <4> QED BY <4>1, <4>2, <3>1
    <3> QED BY <3>2, <3>3, <3>4
  <2> QED BY <2>1, <2>2
<1>10. CASE Unlink
  <2>1. CASE pc' = "loop"
    <3>1. pc = "unlink" /\ UNCHANGED <<dst, old>> /\ todo' = todo \ {Current}
      BY <1>10, <2>1 DEF Unlink, history
    <3>2. todo # {}
      BY <3>1, <1>t DEF Treating
    <3>3. \A x \in todo' : x < Current /\ x \in Nat
      BY <3>1, <3>2, <1>c, <1>g
    <3>4. \A n \in DOMAIN dst : old < n => dst[n].file >= Current
      BY <3>1, <3>2, <1>c
    <3>5. \A n \in DOMAIN dst', x \in todo' : old' < n => dst'[n].file > x
      BY <3>1, <3>2, <3>3, <3>4, <1>c, <1>f
    <3> QED BY <2>1, <3>1, <3>5
  <2>2. CASE pc' = "error2"
    BY <1>10, <2>2 DEF Unlink, history
  <2> QED BY <1>10, <2>1, <2>2 DEF Unlink
<1>11. CASE Umount \/ Exit
  BY <1>11 DEF Umount, Exit, history
<1>12. ASSUME NEW new \in SUBSET Files, NEW lost \in SUBSET dirty, Reboot(new, lost)
       PROVE  OrderInv'
  <2>1. DOMAIN dst' = DOMAIN dst /\ \A n \in DOMAIN dst : dst'[n].file = dst[n].file
    BY <1>12, <1>e, RebootDst
  <2> QED BY <1>12, <2>1 DEF Reboot
<1> QED
  BY <1>1, <1>2, <1>3, <1>4, <1>5, <1>6, <1>7, <1>8, <1>9, <1>10, <1>11, <1>12
  DEF Next, Step, vars, history

-----------------------------------------------------------------------------
(* No dump is lost.                                                        *)

\* How a step changes the places a dump can be in.
LEMMA CopyToDstDst ==
    ASSUME TypeInv, CopyToDst,
           dst' = [dst EXCEPT ![Len(dst)] = [file |-> Current, whole |-> TRUE]]
    PROVE  /\ DOMAIN dst' = DOMAIN dst /\ Len(dst) \in DOMAIN dst
           /\ dst'[Len(dst)].file = Current /\ dst'[Len(dst)].whole
           /\ \A n \in DOMAIN dst : n # Len(dst) => dst'[n] = dst[n]
<1> DEFINE e == [file |-> Current, whole |-> TRUE]
<1>1. dst \in Seq(Entry) /\ dst # <<>> /\ todo # {}
  BY DEF TypeInv, TypeOK, Entry, CopyToDst, Treating
<1>2. e \in Entry /\ e.file = Current /\ e.whole
  BY <1>1, CurrentIsLast DEF TypeInv, Entry
<1> HIDE DEF e
<1>3. dst' = [dst EXCEPT ![Len(dst)] = e]
  BY DEF e
<1>4. /\ DOMAIN dst' = DOMAIN dst /\ Len(dst) \in DOMAIN dst
      /\ dst'[Len(dst)] = e
      /\ \A n \in DOMAIN dst : n # Len(dst) => dst'[n] = dst[n]
  BY <1>1, <1>2, <1>3, ReplaceLast
<1> QED BY <1>2, <1>4

\* A new header does not touch the copies.
LEMMA OpenDstDst ==
    ASSUME TypeInv, OpenDst, dst' # dst
    PROVE  /\ Len(dst) \in Nat /\ DOMAIN dst = 1..Len(dst)
           /\ DOMAIN dst' = 1 .. Len(dst) + 1
           /\ \A n \in DOMAIN dst : dst'[n] = dst[n]
           /\ dst'[Len(dst) + 1].file = Current
<1> DEFINE e == [file |-> Current, whole |-> FALSE]
<1>1. dst \in Seq(Entry) /\ todo # {}
  BY DEF TypeInv, TypeOK, Entry, OpenDst, Treating
<1>2. e \in Entry /\ e.file = Current
  BY <1>1, CurrentIsLast DEF TypeInv, Entry
<1>3. dst' = Append(dst, e)
  BY DEF OpenDst
<1> HIDE DEF e
<1> QED BY <1>1, <1>2, <1>3, AppendEntry

\* The copy comes before the unlink.
LEMMA UnlinkStep ==
    TypeInv /\ PlaceInv /\ UnlinkInv /\ [Next]_vars => UnlinkInv'
<1> SUFFICES ASSUME TypeInv, PlaceInv, UnlinkInv, [Next]_vars, pc' = "unlink"
             PROVE  \/ WholeInDst(Current)'
                    \/ moved'[Current'] = "whole"
                    \/ RuleOf(Current') = "devnull"
                    \/ Current' \in forgone'
  BY DEF UnlinkInv
<1>1. todo' = todo
  BY DEF Next, Step, vars, CheckMount, CheckEmpty, RemoveDst, Scandir,
     Dispatch, LoopEnds, OpenDestination, CopyToDestination, OpenDst, CopyToDst,
     Unlink, Umount, Exit, Reboot
<1>2. Current' = Current
  BY <1>1, CurrentStays
<1>3. pc \in Treating => Current \in Files
  BY CurrentIsLast DEF TypeInv
<1>4. CASE UNCHANGED vars
  BY <1>2, <1>4 DEF vars, UnlinkInv, WholeInDst, history
<1>5. CASE OpenDestination
  BY <1>2, <1>5 DEF OpenDestination
<1>6. CASE CopyToDestination
  BY <1>2, <1>3, <1>6 DEF CopyToDestination, Treating, TypeInv, TypeOK
<1>7. CASE CopyToDst
  <2>1. CASE dst' = [dst EXCEPT ![Len(dst)] = [file |-> Current, whole |-> TRUE]]
    BY <1>2, <1>7, <2>1, CopyToDstDst DEF WholeInDst
  <2>2. CASE forgone' = forgone \cup {Current}
    BY <1>2, <2>2
  <2> QED BY <1>7, <2>1, <2>2 DEF CopyToDst
<1> QED
  BY <1>4, <1>5, <1>6, <1>7
  DEF Next, Step, CheckMount, CheckEmpty, RemoveDst, Scandir, Dispatch, LoopEnds,
      OpenDst, Unlink, Umount, Exit, Reboot

\* A kept dump gets neither an entry nor a destination.
LEMMA KeptStep == TypeInv /\ PlaceInv /\ KeptInv /\ [Next]_vars => KeptInv'
<1> SUFFICES ASSUME TypeInv, PlaceInv, KeptInv, [Next]_vars,
                    NEW f \in Files, RuleOf(f) = "keep"
             PROVE  /\ moved'[f] = "absent"
                    /\ \A n \in DOMAIN dst' : dst'[n].file # f
  BY DEF KeptInv
<1>1. moved[f] = "absent" /\ \A n \in DOMAIN dst : dst[n].file # f
  BY DEF KeptInv
<1>2. dst \in Seq(Entry) /\ moved \in [Files -> {"absent", "partial", "whole"}]
  BY DEF TypeInv, TypeOK, Entry
<1>3. CASE UNCHANGED <<dst, moved>>
  BY <1>1, <1>3
<1>4. CASE RemoveDst
  BY <1>1, <1>4 DEF RemoveDst
<1>5. CASE OpenDestination
  <2>1. Current # f
    BY <1>5 DEF OpenDestination, PlaceInv
  <2> QED BY <1>1, <1>2, <1>5, <2>1 DEF OpenDestination
<1>6. CASE CopyToDestination
  <2>1. Current # f
    BY <1>6 DEF CopyToDestination, PlaceInv
  <2> QED BY <1>1, <1>2, <1>6, <2>1 DEF CopyToDestination
<1>7. CASE OpenDst
  <2>1. Current # f /\ UNCHANGED moved
    BY <1>7 DEF OpenDst, PlaceInv
  <2>2. CASE dst' # dst
    <3> SUFFICES ASSUME NEW n \in DOMAIN dst' PROVE dst'[n].file # f
      BY <1>1, <2>1
    <3>1. n = Len(dst) + 1 \/ n \in DOMAIN dst
      BY <1>7, <2>2, OpenDstDst
    <3>2. CASE n = Len(dst) + 1
      BY <1>7, <2>1, <2>2, <3>2, OpenDstDst
    <3>3. CASE n \in DOMAIN dst
      BY <1>7, <1>1, <2>2, <3>3, OpenDstDst
    <3> QED BY <3>1, <3>2, <3>3
  <2> QED BY <1>1, <2>1, <2>2
<1>8. CASE CopyToDst
  <2>1. Current # f /\ UNCHANGED moved
    BY <1>8 DEF CopyToDst, PlaceInv
  <2>2. CASE dst' = [dst EXCEPT ![Len(dst)] = [file |-> Current, whole |-> TRUE]]
    BY <1>1, <1>8, <2>1, <2>2, CopyToDstDst
  <2> QED BY <1>1, <1>8, <2>1, <2>2 DEF CopyToDst
<1>9. ASSUME NEW new \in SUBSET Files, NEW lost \in SUBSET dirty, Reboot(new, lost)
      PROVE  /\ moved'[f] = "absent"
             /\ \A n \in DOMAIN dst' : dst'[n].file # f
  <2>1. moved'[f] = "absent"
    BY <1>1, <1>9 DEF Reboot
  <2> QED BY <1>1, <1>2, <1>9, <2>1, RebootDst
<1> QED
  BY <1>3, <1>4, <1>5, <1>6, <1>7, <1>8, <1>9
  DEF Next, Step, vars, CheckMount, CheckEmpty, Scandir, Dispatch, LoopEnds,
      Unlink, Umount, Exit

\* A dump leaves a safe place for another one, or is given up.
LEMMA VanishStep ==
    TypeInv /\ OrderInv /\ UnlinkInv /\ NoDumpVanishes /\ [Next]_vars
      => NoDumpVanishes'
<1> SUFFICES ASSUME TypeInv, OrderInv, UnlinkInv, NoDumpVanishes, [Next]_vars,
                    NEW f \in dumped'
             PROVE  Safe(f)' \/ f \in forgone'
  BY DEF NoDumpVanishes
<1>1. dumped \subseteq Files /\ pstore \subseteq Files /\ dst \in Seq(Entry)
      /\ moved \in [Files -> {"absent", "partial", "whole"}]
  BY DEF TypeInv, TypeOK, Entry
<1>2. f \in dumped => Safe(f) \/ f \in forgone
  BY DEF NoDumpVanishes
<1>3. CASE UNCHANGED <<pstore, dst, moved, dumped, forgone>>
  BY <1>2, <1>3 DEF Safe, WholeInDst
<1>4. CASE RemoveDst
  BY <1>1, <1>2, <1>4 DEF RemoveDst, Safe, WholeInDst
<1>5. CASE OpenDestination
  <2>1. Current \in pstore /\ UNCHANGED <<pstore, dst, dumped>>
    BY <1>5, CurrentIsLast DEF OpenDestination, TypeInv, Treating
  <2>2. CASE f = Current
    BY <2>1, <2>2 DEF Safe
  <2>3. CASE f # Current
    <3>1. moved'[f] = moved[f] /\ forgone \subseteq forgone'
      BY <1>1, <1>5, <2>1, <2>3 DEF OpenDestination
    <3> QED BY <1>2, <2>1, <3>1 DEF Safe, WholeInDst
  <2> QED BY <2>2, <2>3
<1>6. CASE CopyToDestination
  <2>1. Current \in pstore /\ UNCHANGED <<pstore, dst, dumped>>
    BY <1>6, CurrentIsLast DEF CopyToDestination, TypeInv, Treating
  <2>2. CASE f = Current
    BY <2>1, <2>2 DEF Safe
  <2>3. CASE f # Current
    <3>1. moved'[f] = moved[f] /\ (f \in forgone => f \in forgone')
      BY <1>1, <1>6, <2>1, <2>3 DEF CopyToDestination
    <3> QED BY <1>2, <2>1, <3>1 DEF Safe, WholeInDst
  <2> QED BY <2>2, <2>3
<1>7. CASE OpenDst
  <2>1. UNCHANGED <<pstore, moved, dumped, forgone>>
    BY <1>7 DEF OpenDst, history
  <2>2. WholeInDst(f) => WholeInDst(f)'
    <3>1. CASE dst' # dst
      <4>1. \A n \in DOMAIN dst : n \in DOMAIN dst' /\ dst'[n] = dst[n]
        BY <1>7, <3>1, OpenDstDst
      <4> QED BY <4>1 DEF WholeInDst
    <3> QED BY <3>1 DEF WholeInDst
  <2> QED BY <1>2, <2>1, <2>2 DEF Safe
<1>8. CASE CopyToDst
  <2>1. Current \in pstore /\ UNCHANGED <<pstore, moved, dumped>>
    BY <1>8, CurrentIsLast DEF CopyToDst, TypeInv, Treating
  <2>2. CASE f = Current
    BY <2>1, <2>2 DEF Safe
  <2>3. CASE f # Current
    <3>1. f \in forgone => f \in forgone'
      BY <1>8, <2>3 DEF CopyToDst
    <3>2. WholeInDst(f) => WholeInDst(f)'
      <4>1. CASE dst' = [dst EXCEPT ![Len(dst)] = [file |-> Current, whole |-> TRUE]]
        <5> SUFFICES ASSUME NEW n \in DOMAIN dst, dst[n].file = f, dst[n].whole
                     PROVE  WholeInDst(f)'
          BY DEF WholeInDst
        <5>1. CASE n # Len(dst)
          BY <1>8, <4>1, <5>1, CopyToDstDst DEF WholeInDst
        <5>2. CASE n = Len(dst)
          BY <1>8, <2>3, <5>2 DEF CopyToDst, OrderInv
        <5> QED BY <5>1, <5>2
      <4> QED BY <1>8, <4>1 DEF CopyToDst, WholeInDst
    <3> QED BY <1>2, <2>1, <3>1, <3>2 DEF Safe
  <2> QED BY <2>2, <2>3
<1>9. CASE Unlink
  <2>1. UNCHANGED <<dst, moved, dumped, forgone>> /\ pc = "unlink"
    BY <1>9 DEF Unlink, history
  <2>2. WholeInDst(f)' <=> WholeInDst(f)
    BY <2>1 DEF WholeInDst
  <2>3. CASE f = Current
    BY <2>1, <2>2, <2>3 DEF UnlinkInv, Safe
  <2>4. CASE f # Current
    <3>1. f \in pstore => f \in pstore'
      BY <1>9, <2>4 DEF Unlink
    <3> QED BY <1>2, <2>1, <2>2, <3>1 DEF Safe
  <2> QED BY <2>3, <2>4
<1>10. ASSUME NEW new \in SUBSET Files, NEW lost \in SUBSET dirty, Reboot(new, lost)
       PROVE  Safe(f)' \/ f \in forgone'
  <2>1. /\ pstore' = pstore \cup new /\ dumped' = dumped \cup new
        /\ forgone' = (forgone \cup lost) \ new
    BY <1>10 DEF Reboot
  <2>2. CASE f \in new
    BY <2>1, <2>2 DEF Safe
  <2>3. CASE f \in lost \ new
    BY <2>1, <2>3
  <2>4. CASE f \notin lost /\ f \notin new
    <3>1. f \in Files /\ f \in dumped
      BY <1>1, <2>1, <2>4
    <3>2. moved'[f] = moved[f]
      BY <1>10, <2>4, <3>1 DEF Reboot
    <3>3. WholeInDst(f) => WholeInDst(f)'
      BY <1>1, <1>10, <2>4, RebootDst DEF WholeInDst
    <3> QED BY <1>2, <2>1, <2>4, <3>1, <3>2, <3>3 DEF Safe
  <2> QED BY <2>2, <2>3, <2>4
<1> QED
  BY <1>3, <1>4, <1>5, <1>6, <1>7, <1>8, <1>9, <1>10
  DEF Next, Step, vars, history, CheckMount, CheckEmpty, Scandir, Dispatch,
      LoopEnds, Umount, Exit

-----------------------------------------------------------------------------
(* The theorems.                                                           *)

\* Every step keeps the invariant.
LEMMA InvStep == IInv /\ [Next]_vars => IInv'
BY TypeStep, PlaceStep, CleanStep, OrderStep, UnlinkStep, KeptStep, VanishStep
DEF IInv

\* The invariant holds in every state.
LEMMA Invariant == Spec => []IInv
BY InvInit, InvStep, PTL DEF Spec

\* main returns 0 only when pstore is unmounted, its directory removed unless
\* rmdir failed, and nothing but kept dumps left in it unless readdir failed:
\* every other failure on the way is reported.
THEOREM CleanOnSuccess == Spec => []SuccessMeansClean
<1>1. IInv => SuccessMeansClean
  BY DEF IInv, CleanInv, SuccessMeansClean
<1> QED BY Invariant, <1>1, PTL

\* The loop over the list from its end, and the removal of an older DST, keep
\* DST in reverse alphabetical order without repetition.
THEOREM DstStaysInOrder == Spec => []DstInOrder
<1>1. IInv => DstInOrder
  BY DEF IInv, OrderInv
<1> QED BY Invariant, <1>1, PTL

\* A dump is unlinked only after it was copied, discarded or given up, so a
\* reboot between any two steps loses none.
THEOREM DumpsAreSafe == Spec => []NoDumpVanishes
<1>1. IInv => NoDumpVanishes
  BY DEF IInv
<1> QED BY Invariant, <1>1, PTL

\* Every variable keeps its type, and the list stays within pstore.
THEOREM TypeCorrect == Spec => []TypeOK
<1>1. IInv => TypeOK
  BY DEF IInv, TypeInv
<1> QED BY Invariant, <1>1, PTL

\* A dump with a keep rule is neither removed from pstore nor copied by any
\* step.
THEOREM KeptDumpsStay == Spec => KeptStays
<1> DEFINE Stay ==
      \A f \in Files :
          Base[f] \in DOMAIN Rules /\ Rules[Base[f]] = "keep" =>
             /\ f \in pstore => f \in pstore'
             /\ moved'[f] = "absent"
             /\ \A n \in DOMAIN dst' : dst'[n].file # f
<1>1. IInv /\ IInv' /\ [Next]_vars => [Stay]_vars
  <2> SUFFICES ASSUME IInv, IInv', [Next]_vars, NEW f \in Files,
                      Base[f] \in DOMAIN Rules, Rules[Base[f]] = "keep"
               PROVE  /\ f \in pstore => f \in pstore'
                      /\ moved'[f] = "absent"
                      /\ \A n \in DOMAIN dst' : dst'[n].file # f
    OBVIOUS
  <2>1. RuleOf(f) = "keep"
    BY DEF RuleOf
  <2>2. f \in pstore => f \in pstore'
    <3>1. CASE Unlink
      <4>1. RuleOf(Current) # "keep"
        BY <3>1 DEF Unlink, IInv, PlaceInv
      <4> QED BY <2>1, <3>1, <4>1 DEF Unlink
    <3> QED
      BY <3>1
      DEF Next, Step, vars, CheckMount, CheckEmpty, RemoveDst, Scandir, Dispatch,
          LoopEnds, OpenDestination, CopyToDestination, OpenDst, CopyToDst,
          Umount, Exit, Reboot
  <2>3. moved'[f] = "absent" /\ \A n \in DOMAIN dst' : dst'[n].file # f
    BY <2>1 DEF IInv, KeptInv
  <2> QED BY <2>2, <2>3
<1>2. Spec => [][Stay]_vars
  BY Invariant, <1>1, PTL DEF Spec
<1> QED BY <1>2, PTL DEF KeptStays

-----------------------------------------------------------------------------
(***************************************************************************)
(* getbasefilename, the module BaseFileName, for every buffer size and     *)
(* every terminated name.                                                  *)
(***************************************************************************)

\* lastoccurance is the last separator in 1 .. m - 1, or 0 if there is none.
LastBelow(m) ==
    /\ lastoccurance # 0 => lastoccurance < m /\ filename[lastoccurance] = "-"
    /\ \A j \in 1 .. m - 1 : j > lastoccurance => filename[j] # "-"

\* The loop invariant, and what holds between the loop and the cut.
NameInv ==
    /\ BaseTypeOK
    /\ phase = "scan" =>
          /\ LastBelow(i)
          /\ \A j \in 0 .. i - 1 : /\ filename[j] # "NUL"
                                   /\ basefilename[j] = filename[j]
    /\ phase = "cut" =>
          /\ LastBelow(i)
          /\ filename_len = i
          /\ IsLength(filename, i)
          /\ \A j \in 0 .. i : basefilename[j] = filename[j]
    /\ BaseIsCorrect

\* Nothing has been scanned.
LEMMA InitNameInv ==
    ASSUME BaseInit
    PROVE  NameInv
BY MaxLenAssumption, NamesAssumption
DEF BaseInit, NameInv, BaseTypeOK, Index, Char, LastBelow, BaseIsCorrect

\* One iteration of the loop.
LEMMA ScanKeeps ==
    ASSUME NameInv, Scan
    PROVE  NameInv'
<1>1. /\ phase = "scan" /\ filename \in [Index -> Char] /\ i \in Int /\ i >= 0
      /\ MaxLen \in Int /\ i < MaxLen /\ lastoccurance \in Int
      /\ lastoccurance >= 0 /\ filename' = filename
  BY MaxLenAssumption, NamesAssumption DEF NameInv, BaseTypeOK, Scan, Index
<1>2. /\ LastBelow(i)
      /\ \A j \in 0 .. i - 1 : filename[j] # "NUL" /\ basefilename[j] = filename[j]
  BY <1>1 DEF NameInv
<1>3. \A j \in 0 .. i : basefilename'[j] = filename[j]
  BY <1>1, <1>2 DEF Scan, NameInv, BaseTypeOK, Index
<1>4. basefilename' \in [Index -> Char]
  BY <1>1 DEF Scan, NameInv, BaseTypeOK, Index
<1>5. CASE filename[i] = "NUL"
  <2>1. phase' = "cut" /\ i' = i /\ filename_len' = i /\ lastoccurance' = lastoccurance
    BY <1>5 DEF Scan
  <2>2. IsLength(filename, i)
    BY <1>2, <1>5 DEF IsLength
  <2>3. LastBelow(i)' /\ (lastoccurance' # 0 => lastoccurance' + 1 \in Index)
    BY <1>1, <1>2, <2>1 DEF LastBelow, Index
  <2> QED
    BY <1>1, <1>3, <1>4, <2>1, <2>2, <2>3
    DEF NameInv, BaseTypeOK, BaseIsCorrect, IsLength, Index
<1>6. CASE filename[i] # "NUL"
  <2>1. /\ phase' = "scan" /\ i' = i + 1 /\ filename_len' = filename_len
        /\ lastoccurance' = IF filename[i] = "-" THEN i ELSE lastoccurance
    BY <1>1, <1>6 DEF Scan
  <2>2. i + 1 \in Index
    <3>1. PICK k \in Index : filename[k] = "NUL"
      BY NamesAssumption DEF NameInv, BaseTypeOK
    <3>2. k > i
      BY <1>1, <1>2, <1>6, <3>1 DEF Index
    <3> QED BY <1>1, <3>2 DEF Index
  <2>3. LastBelow(i)'
    BY <1>1, <1>2, <2>1 DEF LastBelow
  <2>4. lastoccurance' \in Index
    BY <1>1, <2>1 DEF NameInv, BaseTypeOK, Index
  <2>5. \A j \in 0 .. i' - 1 : filename'[j] # "NUL" /\ basefilename'[j] = filename'[j]
    BY <1>1, <1>2, <1>3, <1>6, <2>1
  <2> QED
    BY <1>1, <1>4, <2>1, <2>2, <2>3, <2>4, <2>5
    DEF NameInv, BaseTypeOK, BaseIsCorrect
<1> QED BY <1>5, <1>6

\* The cut.
LEMMA CutKeeps ==
    ASSUME NameInv, Cut
    PROVE  NameInv'
<1>1. /\ phase = "cut" /\ phase' = "done" /\ i \in Index /\ lastoccurance \in Index
      /\ UNCHANGED <<filename, i, lastoccurance>>
      /\ basefilename \in [Index -> Char]
      /\ LastBelow(i) /\ filename_len = i /\ IsLength(filename, i)
      /\ \A j \in 0 .. i : basefilename[j] = filename[j]
  BY DEF NameInv, BaseTypeOK, Cut
<1>2. MaxLen \in Int /\ \A j \in Index : j \in Int /\ j >= 0 /\ j < MaxLen
  BY MaxLenAssumption DEF Index
<1>3. basefilename' \in [Index -> Char] /\ filename_len' \in 0 .. MaxLen
  BY <1>1, <1>2 DEF Cut, Char
<1>4. CASE lastoccurance # 0 /\ filename[lastoccurance + 1] = "digit"
  <2>1. /\ basefilename' = [basefilename EXCEPT ![lastoccurance] = "NUL"]
        /\ filename_len' = lastoccurance
    BY <1>4 DEF Cut
  <2>2. lastoccurance \in 1 .. i - 1 /\ filename[lastoccurance] = "-"
    BY <1>1, <1>2, <1>4 DEF LastBelow
  <2>3. \A j \in lastoccurance + 1 .. i - 1 : filename[j] # "-"
    BY <1>1, <1>2, <2>2 DEF LastBelow
  <2>4. IsBaseLength(filename, i, lastoccurance)
    BY <1>4, <2>2, <2>3 DEF IsBaseLength
  <2>5. /\ \A j \in 0 .. lastoccurance - 1 : basefilename'[j] = filename[j]
        /\ basefilename'[lastoccurance] = "NUL"
    BY <1>1, <1>2, <2>1, <2>2
  <2>6. BaseIsCorrect'
    BY <1>1, <2>1, <2>4, <2>5 DEF BaseIsCorrect, IsLength, IsBaseLength
  <2> QED BY <1>1, <1>3, <2>6 DEF NameInv, BaseTypeOK
<1>5. CASE ~(lastoccurance # 0 /\ filename[lastoccurance + 1] = "digit")
  <2>1. basefilename' = basefilename /\ filename_len' = i
    BY <1>1, <1>5 DEF Cut
  <2>2. ASSUME NEW c \in 1 .. i - 1, filename[c] = "-", filename[c + 1] = "digit",
               \A j \in c + 1 .. i - 1 : filename[j] # "-"
        PROVE  FALSE
    <3>1. c <= lastoccurance
      BY <1>1, <1>2, <2>2 DEF LastBelow
    <3>2. lastoccurance <= c
      BY <1>1, <1>2, <2>2, <3>1 DEF LastBelow
    <3> QED BY <1>1, <1>2, <1>5, <2>2, <3>1, <3>2
  <2>3. IsBaseLength(filename, i, i)
    BY <2>2 DEF IsBaseLength
  <2>4. /\ \A j \in 0 .. i - 1 : basefilename'[j] = filename[j]
        /\ basefilename'[i] = "NUL"
    BY <1>1, <1>2, <2>1 DEF IsLength
  <2>5. BaseIsCorrect'
    BY <1>1, <2>1, <2>3, <2>4 DEF BaseIsCorrect, IsLength, IsBaseLength
  <2> QED BY <1>1, <1>3, <2>5 DEF NameInv, BaseTypeOK
<1> QED BY <1>4, <1>5

\* For every buffer size and every terminated name: the accesses are in
\* bounds and the result is the base name.
THEOREM BaseNameCorrect == BaseSpec => [](BaseTypeOK /\ BaseIsCorrect)
<1>1. BaseInit => NameInv
  BY InitNameInv
<1>2. NameInv /\ [BaseNext]_baseVars => NameInv'
  <2> SUFFICES ASSUME NameInv, [BaseNext]_baseVars PROVE NameInv'
    OBVIOUS
  <2>1. CASE UNCHANGED baseVars
    BY <2>1 DEF baseVars, NameInv, BaseTypeOK, LastBelow, BaseIsCorrect,
                IsLength, IsBaseLength
  <2> QED BY <2>1, ScanKeeps, CutKeeps DEF BaseNext
<1>3. NameInv => BaseTypeOK /\ BaseIsCorrect
  BY DEF NameInv
<1> QED BY <1>1, <1>2, <1>3, PTL DEF BaseSpec
=============================================================================
