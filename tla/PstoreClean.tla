---------------------------- MODULE PstoreClean -----------------------------
(***************************************************************************)
(* pstore/pstore-clean.c: a one-shot service that, at every boot, moves    *)
(* the kernel's crash dumps out of the pstore file system, by default into *)
(* one file, DST, and unmounts pstore.  The machine may reboot at any      *)
(* step, and a panic leaves new dumps.                                     *)
(*                                                                         *)
(* Dumps are numbered in the order alphasort lists them; the loop over the *)
(* list from its end takes the greatest number left.                       *)
(***************************************************************************)
EXTENDS Integers, Sequences

CONSTANTS
    MaxFile,     \* bound: the dumps are 1..MaxFile
    Base,        \* getbasefilename: the base name of each dump
    Rules,       \* pstore_rules: base name -> action, for some base names
    Faults,      \* the system calls that may fail
    PowerLoss,   \* whether a reboot may lose what was written since the last
    MaxBoots     \* bound on the number of reboots

Files == 1..MaxFile
Actions == {"keep", "move", "devnull", "default"}

ASSUME BaseAssumption == DOMAIN Base = Files
ASSUME RulesAssumption == \A b \in DOMAIN Rules : Rules[b] \in Actions
ASSUME PstoreBounds == MaxFile \in Nat /\ MaxBoots \in Nat /\ PowerLoss \in BOOLEAN

VARIABLES
    pc,          \* where main is
    todo,        \* the dumps of namelist not treated yet
    dstOpen,     \* whether dstfd is open
    mounted,     \* whether pstore is mounted on MNT
    mntdir,      \* whether the directory MNT exists
    pstore,      \* the dumps in the pstore file system
    dst,         \* DST: the dumps appended to it, each whole or not
    moved,       \* per dump: what its rule's destination holds
    boots,       \* reboots so far
    dirty,       \* history: dumps copied since the last boot
    dumped,      \* history: dumps that were in pstore at some time
    forgone,     \* history: dumps given up: not copied, or lost from the
                 \* disk, or in a DST that a later run started over
    ignored,     \* history: the failures of this run that main takes for
                 \* success: of readdir, and of the last rmdir
    old          \* history: how many entries of DST a run did not see, and
                 \* appended to

mount == <<mounted, mntdir>>
history == <<boots, dirty, dumped, forgone, ignored, old>>
vars == <<pc, todo, dstOpen, mount, pstore, dst, moved, history>>

May(fault) == fault \in Faults

\* The dump the loop is at.
Current == CHOOSE f \in todo : \A x \in todo : x <= f

WholeInDst(f) == \E i \in DOMAIN dst : dst[i].file = f /\ dst[i].whole

\* perform_rule_check; a move without destination goes to /dev/null.
RuleOf(f) == IF Base[f] \in DOMAIN Rules THEN Rules[Base[f]] ELSE "default"

-----------------------------------------------------------------------------
Init ==
    /\ pc = "start"
    /\ todo = {} /\ dstOpen = FALSE
    /\ mounted \in (IF May("mount") THEN BOOLEAN ELSE {TRUE}) /\ mntdir = TRUE
    /\ pstore \in SUBSET Files
    /\ dst = <<>>
    /\ moved = [f \in Files |-> "absent"]
    /\ boots = 0 /\ dirty = {} /\ dumped = pstore /\ forgone = {}
    /\ ignored = {} /\ old = 0

\* is_fs_mounted; without /proc/mounts nothing is.
CheckMount ==
    /\ pc = "start"
    /\ \/ pc' = IF mounted THEN "check" ELSE "error1"
       \/ May("fopen") /\ pc' = "error1"
    /\ UNCHANGED <<todo, dstOpen, mount, pstore, dst, moved, history>>

\* dir_not_empty; nothing to do is success.  readdir returns NULL at the end
\* of the directory and on an error: the loop does not tell them apart.
CheckEmpty ==
    /\ pc = "check"
    /\ \/ pc' = (IF pstore = {} THEN "done" ELSE "rmdst") /\ UNCHANGED ignored
       \/ May("opendir") /\ pc' = "error2" /\ UNCHANGED ignored
       \/ /\ May("readdir") /\ pstore # {}
          /\ pc' = "done"
          /\ ignored' = ignored \cup {"readdir"}
    /\ UNCHANGED <<todo, dstOpen, mount, pstore, dst, moved,
                   boots, dirty, dumped, forgone, old>>

\* Mutant: an old DST is appended to.
RemoveDst_keeps_old ==
    /\ pc = "rmdst"
    /\ pc' = "scan"
    /\ UNCHANGED <<todo, dstOpen, mount, pstore, dst, moved, history>>

\* The DST of an earlier run is unlinked, unless stat does not find it: then
\* it stays and the dumps of this run are appended.
RemoveDst ==
    /\ pc = "rmdst"
    /\ \/ /\ pc' = "scan"
          /\ dst' = <<>>
          /\ forgone' = forgone \cup {f \in Files \ pstore : WholeInDst(f)}
          /\ old' = 0
       \/ /\ May("stat")
          /\ pc' = "scan"
          /\ old' = Len(dst)
          /\ UNCHANGED <<dst, forgone>>
       \/ /\ May("rmdst") /\ dst # <<>>
          /\ pc' = "error2"
          /\ UNCHANGED <<dst, forgone, old>>
    /\ UNCHANGED <<todo, dstOpen, mount, pstore, moved, boots, dirty, dumped, ignored>>

Scandir ==
    /\ pc = "scan"
    /\ \/ pc' = "loop" /\ todo' = pstore
       \/ May("scandir") /\ pc' = "error2" /\ UNCHANGED todo
    /\ UNCHANGED <<dstOpen, mount, pstore, dst, moved, history>>

\* Mutant: KEEP does not advance the loop.
Dispatch_keep_stays ==
    /\ pc = "loop"
    /\ todo # {}
    /\ LET a == RuleOf(Current)
       IN  pc' = CASE a = "keep" -> "loop"
                   [] a \in {"move", "devnull"} -> "move"
                   [] OTHER -> "default"
    /\ UNCHANGED <<todo, dstOpen, mount, pstore, dst, moved, history>>

\* Mutant: KEEP falls through to the default action.
Dispatch_keep_falls_through ==
    /\ pc = "loop"
    /\ todo # {}
    /\ pc' = IF RuleOf(Current) \in {"move", "devnull"} THEN "move" ELSE "default"
    /\ UNCHANGED <<todo, dstOpen, mount, pstore, dst, moved, history>>

\* The head of the loop and the switch on the action; KEEP does nothing.
Dispatch ==
    /\ pc = "loop"
    /\ todo # {}
    /\ LET a == RuleOf(Current)
       IN  /\ pc' = CASE a = "keep" -> "loop"
                      [] a \in {"move", "devnull"} -> "move"
                      [] OTHER -> "default"
           /\ todo' = IF a = "keep" THEN todo \ {Current} ELSE todo
    /\ UNCHANGED <<dstOpen, mount, pstore, dst, moved, history>>

LoopEnds ==
    /\ pc = "loop"
    /\ todo = {}
    /\ pc' = "done"
    /\ UNCHANGED <<todo, dstOpen, mount, pstore, dst, moved, history>>

\* MOVE: the destination is opened with O_TRUNC.  Below /dev/null, and when
\* the open fails, nothing is copied and the dump is unlinked all the same.
OpenDestination ==
    /\ pc = "move"
    /\ \/ /\ RuleOf(Current) = "move"
          /\ moved' = [moved EXCEPT ![Current] = "partial"]
          /\ pc' = "copymove"
          /\ UNCHANGED forgone
       \/ /\ RuleOf(Current) = "devnull" \/ May("openmove")
          /\ pc' = "unlink"
          /\ forgone' = forgone \cup {Current}
          /\ UNCHANGED moved
    /\ UNCHANGED <<todo, dstOpen, mount, pstore, dst, boots, dirty, dumped, ignored, old>>

\* Mutant: the dump is unlinked before it is copied.
CopyToDestination_unlinks_first ==
    /\ pc = "copymove"
    /\ IF Current \in pstore
       THEN /\ pstore' = pstore \ {Current}
            /\ UNCHANGED <<pc, moved, dirty>>
       ELSE /\ moved' = [moved EXCEPT ![Current] = "whole"]
            /\ dirty' = dirty \cup {Current}
            /\ pc' = "unlink"
            /\ UNCHANGED pstore
    /\ UNCHANGED <<todo, dstOpen, mount, dst, boots, dumped, forgone, ignored, old>>

\* MOVE: filecopy.  A read or write error, or a short write, leaves a part.
CopyToDestination ==
    /\ pc = "copymove"
    /\ pc' = "unlink"
    /\ \/ /\ moved' = [moved EXCEPT ![Current] = "whole"]
          /\ dirty' = dirty \cup {Current}
          /\ forgone' = forgone \ {Current}
       \/ May("copy") /\ forgone' = forgone \cup {Current} /\ UNCHANGED <<moved, dirty>>
    /\ UNCHANGED <<todo, dstOpen, mount, pstore, dst, boots, dumped, ignored, old>>

\* DEFAULT: DST is opened for the first dump, and a header is appended.
OpenDst ==
    /\ pc = "default"
    /\ \/ /\ dstOpen' = TRUE
          /\ dst' = Append(dst, [file |-> Current, whole |-> FALSE])
          /\ pc' = "copydst"
       \/ /\ ~dstOpen /\ May("opendst")
          /\ pc' = "error2"
          /\ UNCHANGED <<dstOpen, dst>>
    /\ UNCHANGED <<todo, mount, pstore, moved, history>>

\* DEFAULT: filecopy; its failure is logged only.
CopyToDst ==
    /\ pc = "copydst"
    /\ pc' = "unlink"
    /\ \/ /\ dst' = [dst EXCEPT ![Len(dst)] = [file |-> Current, whole |-> TRUE]]
          /\ dirty' = dirty \cup {Current}
          /\ forgone' = forgone \ {Current}
       \/ May("copy") /\ forgone' = forgone \cup {Current} /\ UNCHANGED <<dst, dirty>>
    /\ UNCHANGED <<todo, dstOpen, mount, pstore, moved, boots, dumped, ignored, old>>

\* Mutant: a dump that cannot be removed is skipped.
Unlink_skips_failure ==
    /\ pc = "unlink"
    /\ \/ pstore' = pstore \ {Current}
       \/ May("unlink") /\ UNCHANGED pstore
    /\ todo' = todo \ {Current} /\ pc' = "loop"
    /\ UNCHANGED <<dstOpen, mount, dst, moved, history>>

\* The dump is removed from pstore, whatever became of its copy.
Unlink ==
    /\ pc = "unlink"
    /\ \/ /\ pstore' = pstore \ {Current}
          /\ todo' = todo \ {Current}
          /\ pc' = "loop"
       \/ May("unlink") /\ pc' = "error2" /\ UNCHANGED <<pstore, todo>>
    /\ UNCHANGED <<dstOpen, mount, dst, moved, history>>

\* done: and error2: unmount; a failure of the first is an error.
Umount ==
    /\ pc \in {"done", "error2"}
    /\ \/ mounted' = FALSE /\ pc' = IF pc = "done" THEN "rmdir" ELSE "error1"
       \/ May("umount") /\ pc' = "error1" /\ UNCHANGED mounted
    /\ dstOpen' = (dstOpen /\ pc = "done")
    /\ UNCHANGED <<todo, mntdir, pstore, dst, moved, history>>

\* rmdir(MNT), which always fails on a mount point and is never an error;
\* main returns 0 or -1.
Exit ==
    /\ pc \in {"rmdir", "error1"}
    /\ \/ mntdir' = mounted /\ UNCHANGED ignored
       \/ May("rmdir") /\ ignored' = ignored \cup {"rmdir"} /\ UNCHANGED mntdir
    /\ dstOpen' = FALSE
    /\ pc' = IF pc = "rmdir" THEN "success" ELSE "failure"
    /\ UNCHANGED <<todo, mounted, pstore, dst, moved,
                   boots, dirty, dumped, forgone, old>>

\* A reboot at any step.  init mounts pstore again and starts the service; a
\* panic has left the dumps new, and the copies in lost, never synced, are
\* gone from the disk.
Reboot(new, lost) ==
    /\ boots < MaxBoots
    /\ boots' = boots + 1
    /\ pc' = "start" /\ todo' = {} /\ dstOpen' = FALSE
    /\ mounted' \in (IF May("mount") THEN BOOLEAN ELSE {TRUE}) /\ mntdir' = TRUE
    /\ pstore' = pstore \cup new
    /\ dst' = [i \in DOMAIN dst |->
                  [dst[i] EXCEPT !.whole = @ /\ dst[i].file \notin lost]]
    /\ moved' = [f \in Files |-> IF f \in lost /\ moved[f] = "whole"
                                 THEN "partial" ELSE moved[f]]
    /\ dirty' = {}
    /\ dumped' = dumped \cup new
    /\ forgone' = (forgone \cup lost) \ new
    /\ ignored' = {}
    /\ UNCHANGED old

Step == \/ CheckMount \/ CheckEmpty \/ RemoveDst \/ Scandir
        \/ Dispatch \/ LoopEnds
        \/ OpenDestination \/ CopyToDestination
        \/ OpenDst \/ CopyToDst \/ Unlink \/ Umount \/ Exit

Next == \/ Step
        \/ \E new \in SUBSET Files, lost \in SUBSET dirty :
              (PowerLoss \/ lost = {}) /\ Reboot(new, lost)

Spec == Init /\ [][Next]_vars /\ WF_vars(Step)

-----------------------------------------------------------------------------
(* Properties.                                                             *)

\* Every variable has its type, and the dumps still to treat exist.
TypeOK ==
    /\ pc \in {"start", "check", "rmdst", "scan", "loop", "move", "copymove",
               "default", "copydst", "unlink", "done", "rmdir", "error1",
               "error2", "success", "failure"}
    /\ todo \subseteq pstore /\ dstOpen \in BOOLEAN
    /\ mounted \in BOOLEAN /\ mntdir \in BOOLEAN
    /\ pstore \subseteq Files
    /\ dst \in Seq([file : Files, whole : BOOLEAN])
    /\ moved \in [Files -> {"absent", "partial", "whole"}]
    /\ boots \in 0..MaxBoots
    /\ dirty \subseteq Files /\ dumped \subseteq Files /\ forgone \subseteq Files
    /\ ignored \subseteq {"readdir", "rmdir"} /\ old \in 0..Len(dst)

\* "the file is supposed to remain in pstore and be excluded from
\* apanic_console": a dump whose base name has a keep rule is never removed
\* or copied, over any number of runs, failures and reboots.
KeptStays ==
    [][\A f \in Files :
          Base[f] \in DOMAIN Rules /\ Rules[Base[f]] = "keep" =>
             /\ f \in pstore => f \in pstore'
             /\ moved'[f] = "absent"
             /\ \A n \in DOMAIN dst' : dst'[n].file # f]_vars

\* When main returns 0, pstore is unmounted, its directory is gone, and what
\* is left in pstore is what the rules keep: of all the failures on the way to
\* it, two are not reported.  A refused rmdir leaves the directory, and dumps
\* that readdir failed to list stay in a pstore that is taken for clean.
SuccessMeansClean ==
    pc = "success" =>
        /\ ~mounted
        /\ mntdir => "rmdir" \in ignored
        /\ \A f \in pstore : RuleOf(f) = "keep" \/ "readdir" \in ignored

\* DST holds no dump twice and holds them in reverse alphabetical order, also
\* after runs that a reboot cut short between a copy and its unlink; entries
\* that stat missed, and that the run then appended to, do not count.
DstInOrder ==
    \A i, j \in DOMAIN dst : old < i /\ i < j => dst[i].file > dst[j].file

\* Where the tool means a dump to be: still in pstore, or whole in DST or at
\* its destination; a devnull rule discards it.
Safe(f) == \/ f \in pstore
           \/ WholeInDst(f)
           \/ moved[f] = "whole"
           \/ RuleOf(f) = "devnull"

\* No dump is lost at any step, also when a reboot comes between any two: it
\* is safe unless its copy failed, a power loss took the copy from the disk,
\* or a later run has started a new DST.
NoDumpVanishes == \A f \in dumped : Safe(f) \/ f \in forgone

\* A run ends, whatever fails.
RunEnds == pc = "start" ~> pc \in {"success", "failure"}
=============================================================================
