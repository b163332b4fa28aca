------------------------- MODULE UninstallTransaction -------------------------
(***************************************************************************)
(* `dcc-mcp-gimp uninstall --yes` (install_files.py _execute_uninstall and *)
(* _restore_owned_bytes) in a profile in which installers may be at work.  *)
(* A remover keeps the bytes of tree and receipt in memory, copies them to *)
(* a private snapshot, moves tree and receipt into a private quarantine,   *)
(* and removes quarantine and snapshot.  Whatever fails, it rebuilds tree  *)
(* and receipt from memory.                                                *)
(*                                                                         *)
(* It shares the profile with InstallTransaction: target and receipt, and  *)
(* the lock of the receipt's directory.  The bounds on faults, kills and   *)
(* unrecorded changes count for both.                                      *)
(***************************************************************************)
EXTENDS InstallTransaction

ASSUME RemoversAssumption ==
    Removers \cap (Installers \cup {Old, Nothing, Broken, NoOne}) = {}

VARIABLES
    at,             \* where each remover is
    job,            \* what each has planned, captured and put away
    answer          \* what each told its user

installVars == <<pc, stage, backup, failed, recovery, planVars, txVars, outcome>>
allVars == <<vars, at, job, answer>>

NoJob == [tree |-> Absent, paper |-> Absent, owned |-> FALSE, held |-> Absent,
          snapshot |-> Absent, box |-> Absent, boxedPaper |-> Absent,
          recorded |-> FALSE, cleanable |-> FALSE, preserve |-> FALSE]

RemoverInit ==
    /\ Init
    /\ at = [r \in Removers |-> "idle"]
    /\ job = [r \in Removers |-> NoJob]
    /\ answer = [r \in Removers |-> "none"]

To(r, point) == at' = [at EXCEPT ![r] = point]
Ends(r, told) == To(r, "done") /\ answer' = [answer EXCEPT ![r] = told]

(* A copy of c that r has made.                                            *)
Copy(c, r) == [of |-> c, by |-> r]

(* The receipt's directory is locked while a remover moves the receipt, or *)
(* has set it aside to write another.                                      *)
Locked == \E r \in Removers : at[r] \in {"keepReceipt", "linkReceipt"}

-----------------------------------------------------------------------------
(* plan, as InstallTransaction has it.                                     *)

RPlanReceipt(r) ==
    /\ at[r] = "idle"
    /\ \E p \in Readable(r) : job' = [job EXCEPT ![r].paper = p]
    /\ To(r, "plan")
    /\ UNCHANGED <<target, receipt, answer, countVars>>

RPlanTarget(r) ==
    /\ at[r] = "plan"
    /\ \E p \in Readable(r) :
          job' = [job EXCEPT ![r] = [@ EXCEPT !.tree = target, !.owned = Classified(p) = "owned"]]
    /\ To(r, "begin")
    /\ UNCHANGED <<target, receipt, answer, countVars>>

-----------------------------------------------------------------------------
(* Until the private transaction is made a failure changes nothing.        *)

AlreadyAbsent(r) ==
    /\ at[r] = "begin"
    /\ job[r].paper = Absent /\ Absent \in Readable(r) /\ target = Absent
    /\ Ends(r, "ok")
    /\ UNCHANGED <<target, receipt, job, countVars>>

TreeAsPlanned(r) == job[r].tree # Absent => target = job[r].tree

BeginRemoval(r) ==
    /\ at[r] = "begin"
    /\ job[r].paper # Absent /\ job[r].paper \in Readable(r)
    /\ TreeAsPlanned(r) /\ target.of = job[r].paper.of
    /\ To(r, "capture")
    /\ UNCHANGED <<target, receipt, job, answer, countVars>>

(* No receipt, a stale plan, or a tree the receipt does not own.  An absent *)
(* receipt that was planned is no precondition for the next checks.        *)
RefuseRemoval(r) ==
    /\ at[r] = "begin"
    /\ \/ job[r].paper = Absent /\ (target # Absent \/ \E p \in Readable(r) : p # Absent)
       \/ job[r].paper # Absent /\ \E p \in Readable(r) : p # job[r].paper
       \/ job[r].paper # Absent /\ (~TreeAsPlanned(r) \/ target.of # job[r].paper.of)
    /\ Ends(r, "failed")
    /\ UNCHANGED <<target, receipt, job, countVars>>

(* The bytes of tree and receipt are read into memory, and the identities  *)
(* of the entries are kept.  Entries and sizes must be those the receipt   *)
(* declares.                                                               *)
CaptureBytes(r) ==
    /\ at[r] = "capture"
    /\ target.of \notin {Nothing, Broken} /\ TreeAsPlanned(r)
    /\ job[r].paper \in Readable(r)
    /\ job' = [job EXCEPT ![r].held = target]
    /\ To(r, "copy")
    /\ UNCHANGED <<target, receipt, answer, countVars>>

CaptureRefused(r) ==
    /\ at[r] = "capture"
    /\ \/ ~TreeAsPlanned(r) \/ target.of # job[r].paper.of
       \/ \E p \in Readable(r) : p # job[r].paper
    /\ Ends(r, "failed")
    /\ UNCHANGED <<target, receipt, job, countVars>>

(* A locked tree, or anything that cannot be read or made.                 *)
BeginFailsUnchanged(r) ==
    /\ at[r] \in {"begin", "capture"}
    /\ Fault
    /\ Ends(r, IF at[r] = "begin" THEN "restart" ELSE "failed")
    /\ UNCHANGED <<target, receipt, job>>

-----------------------------------------------------------------------------
(* The transaction.  From here on every failure goes to "restore".         *)

(* Mutant of CopySnapshot: the bytes in memory are thought to be enough.   *)
CopySnapshotSkipped(r) ==
    /\ at[r] = "copy"
    /\ target # Absent
    /\ To(r, "takeTree")
    /\ UNCHANGED <<target, receipt, job, answer, countVars>>

(* _copy_validated_recovery: the copy is compared with what was copied.    *)
CopySnapshot(r) ==
    /\ at[r] = "copy"
    /\ target # Absent
    /\ job' = [job EXCEPT ![r].snapshot = Copy(target.of, r)]
    /\ To(r, "takeTree")
    /\ UNCHANGED <<target, receipt, answer, countVars>>

(* The tree must hold the planned files; when the plan knew of none        *)
(* whatever has the name is moved.                                         *)
FilesAsPlanned(r) == job[r].owned => target = job[r].tree

TakeTree(r) ==
    /\ at[r] = "takeTree"
    /\ target # Absent /\ FilesAsPlanned(r)
    /\ job' = [job EXCEPT ![r].box = target]
    /\ target' = Absent
    /\ To(r, "takeReceipt")
    /\ UNCHANGED <<receipt, answer, countVars>>

(* The rename is done, and what follows it fails: the check of the root,   *)
(* or of the moved files.                                                  *)
TakeTreeInterrupted(r) ==
    /\ at[r] = "takeTree"
    /\ target # Absent /\ FilesAsPlanned(r)
    /\ interrupts < MaxInterrupts /\ interrupts' = interrupts + 1
    /\ job' = [job EXCEPT ![r] = [@ EXCEPT !.box = target, !.preserve = @ \/ job[r].owned]]
    /\ target' = Absent
    /\ To(r, "restore")
    /\ UNCHANGED <<receipt, answer, faults, crashes>>

TreeGone(r) ==
    /\ \/ at[r] = "copy" /\ target = Absent
       \/ at[r] = "takeTree" /\ (target = Absent \/ ~FilesAsPlanned(r))
    /\ To(r, "restore")
    /\ UNCHANGED <<target, receipt, job, answer, countVars>>

(* Mutant of TakeReceipt: whatever receipt is there is moved.              *)
TakeReceiptUnchecked(r) ==
    /\ at[r] = "takeReceipt" /\ ~Locked
    /\ job' = [job EXCEPT ![r].boxedPaper = receipt]
    /\ receipt' = Absent
    /\ To(r, "keepReceipt")
    /\ UNCHANGED <<target, answer, countVars>>

(* _replace_receipt_owned sets the receipt aside, copies it into the       *)
(* quarantine and removes it, under the lock.                              *)
TakeReceipt(r) ==
    /\ at[r] = "takeReceipt" /\ ~Locked
    /\ receipt = job[r].paper
    /\ job' = [job EXCEPT ![r].boxedPaper = receipt]
    /\ receipt' = Absent
    /\ To(r, "keepReceipt")
    /\ UNCHANGED <<target, answer, countVars>>

TakeReceiptRefused(r) ==
    /\ at[r] = "takeReceipt" /\ ~Locked
    /\ receipt # job[r].paper
    /\ To(r, "restore")
    /\ UNCHANGED <<target, receipt, job, answer, countVars>>

KeepReceipt(r) ==
    /\ at[r] = "keepReceipt"
    /\ job' = [job EXCEPT ![r].recorded = TRUE]
    /\ To(r, "checkBox")
    /\ UNCHANGED <<target, receipt, answer, countVars>>

(* _restore_failed_receipt_move gives the receipt its name back.           *)
KeepReceiptFails(r) ==
    /\ at[r] = "keepReceipt"
    /\ Fault
    /\ receipt' = job[r].boxedPaper
    /\ job' = [job EXCEPT ![r].boxedPaper = Absent]
    /\ To(r, "restore")
    /\ UNCHANGED <<target, answer>>

(* The receipt is moved and receipt_quarantined not set: when the check of *)
(* the root failed the quarantined copy is removed too.                    *)
KeepReceiptInterrupted(r) ==
    /\ at[r] = "keepReceipt"
    /\ interrupts < MaxInterrupts /\ interrupts' = interrupts + 1
    /\ \E p \in {Absent, job[r].boxedPaper} : job' = [job EXCEPT ![r].boxedPaper = p]
    /\ To(r, "restore")
    /\ UNCHANGED <<target, receipt, answer, faults, crashes>>

(* Nothing but the captured tree is removed from the quarantine, and       *)
(* nothing but the validated copy with it.                                 *)
CheckBox(r) ==
    /\ at[r] = "checkBox"
    /\ IF job[r].box = job[r].held
       THEN job' = [job EXCEPT ![r].cleanable = TRUE] /\ To(r, "cleanBox")
       ELSE To(r, "restore") /\ UNCHANGED job
    /\ UNCHANGED <<target, receipt, answer, countVars>>

CleanBox(r) ==
    /\ at[r] = "cleanBox"
    /\ job' = [job EXCEPT ![r] = [@ EXCEPT !.box = Absent, !.boxedPaper = Absent]]
    /\ To(r, "cleanSnapshot")
    /\ UNCHANGED <<target, receipt, answer, countVars>>

HalfRemoved(tree) == {tree, [tree EXCEPT !.of = Broken]}

(* Mutant of CleanBoxFails: the failure is reported, and nothing restored. *)
CleanBoxFailsForGood(r) ==
    /\ at[r] = "cleanBox"
    /\ Fault
    /\ \E b \in HalfRemoved(job[r].box) : job' = [job EXCEPT ![r].box = b]
    /\ Ends(r, "failed")
    /\ UNCHANGED <<target, receipt>>

CleanBoxFails(r) ==
    /\ at[r] = "cleanBox"
    /\ Fault
    /\ \E b \in HalfRemoved(job[r].box), p \in {Absent, job[r].boxedPaper}, kept \in BOOLEAN :
          job' = [job EXCEPT ![r] = [@ EXCEPT !.box = b, !.boxedPaper = p, !.preserve = kept]]
    /\ To(r, "restore")
    /\ UNCHANGED <<target, receipt, answer>>

CleanSnapshot(r) ==
    /\ at[r] = "cleanSnapshot"
    /\ job' = [job EXCEPT ![r].snapshot = Absent]
    /\ Ends(r, "ok")
    /\ UNCHANGED <<target, receipt, countVars>>

CleanSnapshotFails(r) ==
    /\ at[r] = "cleanSnapshot"
    /\ Fault
    /\ \E s \in HalfRemoved(job[r].snapshot) : job' = [job EXCEPT ![r].snapshot = s]
    /\ To(r, "restore")
    /\ UNCHANGED <<target, receipt, answer>>

(* Any other operation of the transaction fails.                           *)
RemovalFails(r) ==
    /\ at[r] \in {"copy", "takeTree", "takeReceipt", "checkBox"}
    /\ Fault
    /\ To(r, "restore")
    /\ UNCHANGED <<target, receipt, job, answer>>

-----------------------------------------------------------------------------
(* _restore_owned_bytes                                                    *)

ReceiptAsLeft(r) == IF job[r].recorded THEN Absent ELSE job[r].paper

(* Mutant of RemoveRemains: whatever has the name makes way.               *)
RemoveRemainsUnchecked(r) ==
    /\ at[r] = "restore"
    /\ ReceiptAsLeft(r) \in Readable(r)
    /\ target' = Absent
    /\ To(r, "rebuild")
    /\ UNCHANGED <<receipt, job, answer, countVars>>

(* The receipt must be as the transaction left it.  What is left of the    *)
(* tree is removed when it is the captured one.                            *)
RemoveRemains(r) ==
    /\ at[r] = "restore"
    /\ ReceiptAsLeft(r) \in Readable(r)
    /\ target \in {Absent, job[r].held}
    /\ target' = Absent
    /\ To(r, "rebuild")
    /\ UNCHANGED <<receipt, job, answer, countVars>>

Rebuild(r) ==
    /\ at[r] = "rebuild"
    /\ target = Absent
    /\ target' = Copy(Broken, r)
    /\ To(r, "fill")
    /\ UNCHANGED <<receipt, job, answer, countVars>>

Fill(r) ==
    /\ at[r] = "fill"
    /\ target = Copy(Broken, r)
    /\ target' = Copy(job[r].held.of, r)
    /\ To(r, "restoreReceipt")
    /\ UNCHANGED <<receipt, job, answer, countVars>>

(* A receipt that is there is set aside before the new one is linked.      *)
RestoreReceipt(r) ==
    /\ at[r] = "restoreReceipt" /\ ~Locked
    /\ receipt = ReceiptAsLeft(r)
    /\ receipt' = Absent
    /\ To(r, "linkReceipt")
    /\ UNCHANGED <<target, job, answer, countVars>>

LinkReceipt(r) ==
    /\ at[r] = "linkReceipt"
    /\ receipt' = Copy(job[r].paper.of, r)
    /\ To(r, "validate")
    /\ UNCHANGED <<target, job, answer, countVars>>

(* The transaction is removed only when its content is known, it need not  *)
(* be preserved, and nothing but the whole snapshot is in it.              *)
Tidied(r) ==
    IF /\ job[r].cleanable /\ ~job[r].preserve
       /\ job[r].box = Absent /\ job[r].boxedPaper = Absent
       /\ job[r].snapshot.of # Broken
    THEN {Absent, job[r].snapshot} ELSE {job[r].snapshot}

Validate(r) ==
    /\ at[r] = "validate"
    /\ target.of = job[r].paper.of /\ \E p \in Readable(r) : p # Absent
    /\ \E s \in Tidied(r) : job' = [job EXCEPT ![r].snapshot = s]
    /\ Ends(r, "failed")
    /\ UNCHANGED <<target, receipt, countVars>>

(* "Uninstall rollback could not restore prior state"                      *)
RestoreRefused(r) ==
    /\ \/ at[r] = "restore" /\ \/ \E p \in Readable(r) : p # ReceiptAsLeft(r)
                               \/ target \notin {Absent, job[r].held}
       \/ at[r] = "rebuild" /\ target # Absent
       \/ at[r] = "fill" /\ target # Copy(Broken, r)
       \/ at[r] = "restoreReceipt" /\ ~Locked /\ receipt # ReceiptAsLeft(r)
       \/ at[r] = "validate" /\ (target.of # job[r].paper.of \/ Absent \in Readable(r))
    /\ Ends(r, "stranded")
    /\ UNCHANGED <<target, receipt, job, countVars>>

(* A failing restore stops where it is; the receipt that was set aside is  *)
(* put back.                                                               *)
RestoreFails(r) ==
    /\ at[r] \in {"restore", "rebuild", "fill", "restoreReceipt", "linkReceipt", "validate"}
    /\ Fault
    /\ \/ UNCHANGED target
       \/ at[r] = "restore" /\ target = job[r].held /\ target' = Absent
    /\ receipt' = IF at[r] = "linkReceipt" THEN ReceiptAsLeft(r) ELSE receipt
    /\ Ends(r, "stranded")
    /\ UNCHANGED job

-----------------------------------------------------------------------------
(* The remover is killed, perhaps while it removes a tree.                 *)
KillRemover(r) ==
    /\ at[r] \notin {"idle", "done", "dead"}
    /\ crashes < MaxCrashes /\ crashes' = crashes + 1
    /\ \/ UNCHANGED job
       \/ at[r] = "cleanBox" /\ \E b \in HalfRemoved(job[r].box) : job' = [job EXCEPT ![r].box = b]
       \/ /\ at[r] = "cleanSnapshot"
          /\ \E s \in HalfRemoved(job[r].snapshot) : job' = [job EXCEPT ![r].snapshot = s]
    /\ \/ UNCHANGED target
       \/ at[r] = "restore" /\ target = job[r].held /\ target' = Absent
    /\ To(r, "dead")
    /\ UNCHANGED <<receipt, answer, faults, interrupts>>

Remove(r) ==
    \/ RPlanReceipt(r) \/ RPlanTarget(r) \/ AlreadyAbsent(r) \/ BeginRemoval(r)
    \/ RefuseRemoval(r) \/ CaptureBytes(r) \/ CaptureRefused(r) \/ BeginFailsUnchanged(r)
    \/ CopySnapshot(r) \/ TakeTree(r) \/ TakeTreeInterrupted(r) \/ TreeGone(r)
    \/ TakeReceipt(r) \/ TakeReceiptRefused(r)
    \/ KeepReceipt(r) \/ KeepReceiptFails(r) \/ KeepReceiptInterrupted(r)
    \/ CheckBox(r) \/ CleanBox(r) \/ CleanBoxFails(r)
    \/ CleanSnapshot(r) \/ CleanSnapshotFails(r) \/ RemovalFails(r)

Restore(r) ==
    \/ RemoveRemains(r) \/ Rebuild(r) \/ Fill(r) \/ RestoreReceipt(r) \/ LinkReceipt(r)
    \/ Validate(r) \/ RestoreRefused(r) \/ RestoreFails(r)

(* An installer waits for the lock before it touches the receipt.          *)
InstallStep(i) ==
    /\ pc[i] \in {"receipt", "undoReceipt"} => ~Locked
    /\ Forward(i) \/ Interrupted(i) \/ Commit(i) \/ Rollback(i)

RemoverNext ==
    \/ /\ \E i \in Installers : InstallStep(i) \/ Crash(i)
       /\ UNCHANGED <<at, job, answer>>
    \/ /\ \E r \in Removers : Remove(r) \/ Restore(r) \/ KillRemover(r)
       /\ UNCHANGED installVars

RemoverSpec == RemoverInit /\ [][RemoverNext]_allVars

-----------------------------------------------------------------------------
RemoverPoints == {"idle", "plan", "begin", "capture", "copy", "takeTree", "takeReceipt",
                  "keepReceipt", "checkBox", "cleanBox", "cleanSnapshot", "restore", "rebuild",
                  "fill", "restoreReceipt", "linkReceipt", "validate", "done", "dead"}
Jobs == [tree : Objects, paper : Objects, owned : BOOLEAN, held : Objects,
         snapshot : Objects, box : Objects, boxedPaper : Objects,
         recorded : BOOLEAN, cleanable : BOOLEAN, preserve : BOOLEAN]

(* The types.  A receipt in quarantine is the one that was planned, and a  *)
(* snapshot is a copy the remover made.                                    *)
RemovalTypeOK ==
    /\ TypeOK
    /\ at \in [Removers -> RemoverPoints]
    /\ job \in [Removers -> Jobs]
    /\ answer \in [Removers -> Reports]
    /\ \A r \in Removers :
          /\ job[r].boxedPaper \in {Absent, job[r].paper}
          /\ job[r].snapshot # Absent => job[r].snapshot.by = r

RemovedAlone(r) ==
    /\ \A i \in Installers : pc[i] = "idle"
    /\ \A s \in Removers \ {r} : at[s] = "idle"

(* install.md, Uninstall: "Its validated recovery preserves owned bytes    *)
(* and POSIX modes if cleanup fails."  Whichever step fails, a remover     *)
(* that was alone and does not own up to a failed restore leaves tree and  *)
(* receipt with the content they had.                                      *)
RemovalFailureRestores ==
    \A r \in Removers :
        at[r] = "done" /\ answer[r] = "failed" /\ RemovedAlone(r) =>
            target.of = job[r].tree.of /\ receipt.of = job[r].paper.of

Somewhere(c) ==
    \/ OnDisk(c)
    \/ \E r \in Removers : c \in {job[r].snapshot.of, job[r].box.of}

(* The order of the steps keeps the captured bytes on disk: after one      *)
(* failure, kill or unrecorded change they are in the profile or in a      *)
(* private tree until a removal is through, or a remover that holds them   *)
(* is alive.  Installers may meanwhile plan, refuse and move trees aside;  *)
(* one that publishes takes the place of the tree, and one that puts back  *)
(* what it moved may offer it to a remover that has gone on.               *)
Undisturbed ==
    /\ published = {}
    /\ \A i \in moved : backup[i] # Absent
    /\ interrupts = 0 \/ \A i \in Installers :
            pc[i] \notin {"undoPublish", "undoAside", "undoReceipt", "undoClean", "done"}

Through(r) == job[r].recorded /\ job[r].box = Absent /\ job[r].boxedPaper = Absent
CapturedBytesSurvive ==
    faults + crashes + interrupts <= 1 /\ Undisturbed =>
        \A r \in Removers : job[r].held # Absent =>
            \/ Somewhere(job[r].held.of)
            \/ \E s \in Removers : /\ job[s].held.of = job[r].held.of
                                   /\ Through(s) \/ at[s] \notin {"done", "dead"}

(* install.md: a swap "fails closed and leaves the foreign object          *)
(* untouched".  A remover removes or breaks no tree but the one it         *)
(* captured and the copies it made: every other tree it touches is only    *)
(* moved.                                                                  *)
Standing(t) == target = t \/ \E r \in Removers : job[r].box = t
ForeignKept ==
    [][\A r \in Removers : at'[r] # at[r] =>
          \A t \in {target} \cup {job[s].box : s \in Removers} :
              t \notin {Absent, job[r].held} /\ t.by # r => Standing(t)']_allVars

(* An acknowledged removal is remembered by nobody: whatever the others    *)
(* had planned or replaced before, no receipt ever vouches again for what  *)
(* was removed, so that status and the next install find no trace of it.   *)
RemovedIsForgotten ==
    \A r \in Removers : answer[r] = "ok" /\ job[r].held # Absent => receipt.of # job[r].paper.of

(* An acknowledged removal is final: when all are through and nobody was   *)
(* killed, what was removed is not back, nor half of it.  Tree and receipt *)
(* are gone or belong to each other, an installer's or what another remover *)
(* put back; or the tree is the publication of an installer that got no    *)
(* receipt for it and could not withdraw it, whatever it told its user.    *)
(* (Excepted are a remover that could not restore, an installer that had   *)
(* moved a tree aside and brings it back when it gives up, and one that    *)
(* had written its receipt and failed to roll back.)                       *)
Unwithdrawn(i) == outcome[i] \in {"stranded", "swallowed"}
RemovalIsFinal ==
    Quiet /\ crashes + interrupts = 0
    /\ (\A i \in moved \cup committed : ~Unwithdrawn(i))
    /\ (\A i \in moved : outcome[i] # "failed")
    /\ (\A r \in Removers : at[r] \in {"idle", "done"} /\ answer[r] # "stranded") =>
        \A r \in Removers :
            answer[r] = "ok" /\ job[r].held # Absent =>
                /\ target.of \notin {job[r].held.of, Broken}
                /\ \/ receipt.of = target.of
                   \/ receipt = Absent /\ \E i \in Installers : Unwithdrawn(i) /\ target = Original(i)
===============================================================================
