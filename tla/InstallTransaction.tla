-------------------------- MODULE InstallTransaction --------------------------
(***************************************************************************)
(* `dcc-mcp-gimp install --yes` and `upgrade --yes`: the transaction that  *)
(* replaces the plug-in tree of a GIMP profile and its receipt, verifies   *)
(* the result and commits or rolls back (install.py run,                   *)
(* install_files.py InstallTransaction and _begin_replace_plugin).         *)
(*                                                                         *)
(* Several installer processes may run at once: nothing but the identity   *)
(* checks and the no-replace renames keeps them apart.  Any file operation *)
(* may fail, any installer may be killed between two operations, and a     *)
(* rename may be done and yet not recorded: Ctrl-C arrives before the      *)
(* assignment, or the check of the root that follows the rename fails.     *)
(*                                                                         *)
(* A tree is the content it holds and the process that copied it: a copy   *)
(* has the same bytes and another identity.  The receipt likewise names    *)
(* the content it vouches for and the process that wrote it.  The private  *)
(* names of a transaction (stage, backup, failed, recovery) carry a fresh  *)
(* uuid, so they are one place per installer.                              *)
(***************************************************************************)
EXTENDS Naturals

CONSTANTS
    Installers,     \* the installer processes; also the content each installs
    Removers,       \* the uninstalling processes (UninstallTransaction)
    Old,            \* the content installed before
    Nothing,        \* the content of an absent tree or receipt
    Broken,         \* a content no receipt vouches for
    NoOne,          \* the copier of an original, the writer of an old receipt
    MaxFaults,      \* bound: file operations that fail
    MaxCrashes,     \* bound: installers killed
    MaxInterrupts   \* bound: changes that are made and not recorded

ASSUME ContentsAssumption ==
    /\ Old \notin Installers /\ Nothing \notin Installers /\ Broken \notin Installers
    /\ NoOne \notin Installers
    /\ Old # Nothing /\ Old # Broken /\ Nothing # Broken
ASSUME BoundsAssumption == MaxFaults \in Nat /\ MaxCrashes \in Nat /\ MaxInterrupts \in Nat

VARIABLES
    target,         \* the plug-in directory of the profile
    receipt,        \* ~/.dcc-mcp/receipts/gimp.json
    stage, backup, failed, recovery,    \* private trees of each installer
    pc,             \* where each installer is
    verb,           \* install or upgrade
    seenTree,       \* the planned target identity
    seenReceipt,    \* the planned receipt identity
    state,          \* the planned installation_state
    previous,       \* previous_manifest
    moved,          \* installers with previous_moved
    published,      \* installers with replacement_moved
    committed,      \* installers with receipt_committed_identity
    closed,         \* installers whose commit closed the transaction
    outcome,        \* how each installer ended; Told is what it told its user
    faults, crashes, interrupts

diskVars == <<target, receipt, stage, backup, failed, recovery>>
planVars == <<verb, seenTree, seenReceipt, state, previous>>
txVars == <<moved, published, committed, closed>>
countVars == <<faults, crashes, interrupts>>
vars == <<diskVars, pc, planVars, txVars, outcome, countVars>>

Contents == Installers \cup {Old, Nothing, Broken}
Objects == [of : Contents, by : Installers \cup Removers \cup {NoOne}]
Absent == [of |-> Nothing, by |-> NoOne]
Original(c) == [of |-> c, by |-> NoOne]

States == {"fresh", "partial", "repair", "owned"}
(* What a user is told: "failed" stands for exit 50 as well, "stranded" is  *)
(* a failure whose rollback is reported to have failed too.  A rollback    *)
(* that fails in silence is "swallowed".                                   *)
Reports == {"none", "ok", "restart", "failed", "stranded"}
Outcomes == Reports \cup {"swallowed"}
Points == {"idle", "plan", "begin", "stage", "aside", "publish", "receipt", "check", "verify",
           "commit", "clean", "cleanRecovery",
           "undoPublish", "undoAside", "undoReceipt", "undoClean", "done", "dead"}

(* A profile is fresh, owned, or in one of the states no receipt explains. *)
Init ==
    /\ \/ target = Absent /\ receipt = Absent
       \/ target = Original(Old) /\ receipt = Original(Old)
       \/ target = Original(Old) /\ receipt = Absent
       \/ target = Absent /\ receipt = Original(Old)
       \/ target = Original(Broken) /\ receipt = Original(Old)
    /\ stage = [i \in Installers |-> Absent]
    /\ backup = [i \in Installers |-> Absent]
    /\ failed = [i \in Installers |-> Absent]
    /\ recovery = [i \in Installers |-> Absent]
    /\ pc = [i \in Installers |-> "idle"]
    /\ verb \in [Installers -> {"install", "upgrade"}]
    /\ seenTree = [i \in Installers |-> Absent]
    /\ seenReceipt = [i \in Installers |-> Absent]
    /\ state = [i \in Installers |-> "fresh"]
    /\ previous = [i \in Installers |-> Nothing]
    /\ moved = {}
    /\ published = {}
    /\ committed = {}
    /\ closed = {}
    /\ outcome = [i \in Installers |-> "none"]
    /\ faults = 0
    /\ crashes = 0
    /\ interrupts = 0

Goto(i, point) == pc' = [pc EXCEPT ![i] = point]

Finish(i, answer) ==
    /\ Goto(i, "done")
    /\ outcome' = [outcome EXCEPT ![i] = answer]

(* A file operation fails. *)
Fault ==
    /\ faults < MaxFaults
    /\ faults' = faults + 1
    /\ UNCHANGED <<crashes, interrupts>>

-------------------------------------------------------------------------------
(* The receipt file.  Writers hold a lock on its directory, compare the     *)
(* receipt with the one they expect, move it away and link the new one.    *)
(* Readers take no lock: in between they find no receipt.                  *)

Wrote(i) == receipt = [of |-> i, by |-> i]

Replacing(j) ==
    \/ pc[j] = "receipt" /\ receipt = seenReceipt[j]
    \/ pc[j] = "undoReceipt" /\ j \in committed /\ Wrote(j)

Readable(i) ==
    IF \E j \in Installers \ {i} : Replacing(j) THEN {receipt, Absent} ELSE {receipt}

-------------------------------------------------------------------------------
(* plan: the receipt is read first, the target is classified later. *)

PlanReceipt(i) ==
    /\ pc[i] = "idle"
    /\ \E r \in Readable(i) : seenReceipt' = [seenReceipt EXCEPT ![i] = r]
    /\ Goto(i, "plan")
    /\ UNCHANGED <<diskVars, verb, seenTree, state, previous, txVars, outcome, countVars>>

(* _installation_state; "owned" stands for its current and upgrade. *)
Classified(r) ==
    CASE target = Absent /\ r = Absent -> "fresh"
      [] (target = Absent) # (r = Absent) -> "partial"
      [] target # Absent /\ r # Absent /\ target.of = r.of -> "owned"
      [] OTHER -> "repair"

PlanTarget(i) ==
    /\ pc[i] = "plan"
    /\ \E r \in Readable(i) : state' = [state EXCEPT ![i] = Classified(r)]
    /\ seenTree' = [seenTree EXCEPT ![i] = target]
    /\ Goto(i, "begin")
    /\ UNCHANGED <<diskVars, verb, seenReceipt, previous, txVars, outcome, countVars>>

-------------------------------------------------------------------------------
(* _begin_replace_plugin *)

(* A target that was planned absent is not compared with anything. *)
TargetAsPlanned(i) == seenTree[i] # Absent => target = seenTree[i]

Begin(i) ==
    /\ pc[i] = "begin"
    /\ seenReceipt[i] \in Readable(i)
    /\ TargetAsPlanned(i)
    /\ state[i] \in {"fresh", "owned"}
    /\ ~(verb[i] = "upgrade" /\ state[i] = "fresh")
    /\ Goto(i, "stage")
    /\ UNCHANGED <<diskVars, planVars, txVars, outcome, countVars>>

(* The plan is stale, the state is not ours to replace, or an upgrade has  *)
(* nothing to replace.                                                     *)
Refuse(i) ==
    /\ pc[i] = "begin"
    /\ \/ \E r \in Readable(i) : r # seenReceipt[i]
       \/ ~TargetAsPlanned(i)
       \/ state[i] \in {"partial", "repair"}
       \/ verb[i] = "upgrade" /\ state[i] = "fresh"
    /\ Finish(i, "failed")
    /\ UNCHANGED <<diskVars, planVars, txVars, countVars>>

(* inspect_install_root reports a locked tree (exit 50), or staging fails. *)
RefuseByFault(i) ==
    /\ pc[i] \in {"begin", "stage"}
    /\ Fault
    /\ Finish(i, IF pc[i] = "begin" THEN "restart" ELSE "failed")
    /\ UNCHANGED <<diskVars, planVars, txVars>>

Stage(i) ==
    /\ pc[i] = "stage"
    /\ stage' = [stage EXCEPT ![i] = Original(i)]
    /\ previous' = [previous EXCEPT ![i] = target.of]
    /\ Goto(i, "aside")
    /\ UNCHANGED <<target, receipt, backup, failed, recovery, verb, seenTree, seenReceipt, state,
                   txVars, outcome, countVars>>

(* Gives up: the stage is removed and the transaction is rolled back. *)
Undo(i) ==
    /\ Goto(i, "undoPublish")
    /\ stage' = [stage EXCEPT ![i] = Absent]

MoveAside(i) ==
    /\ pc[i] = "aside"
    /\ target # Absent
    /\ TargetAsPlanned(i)
    /\ backup' = [backup EXCEPT ![i] = target]
    /\ target' = Absent
    /\ moved' = moved \cup {i}
    /\ Goto(i, "publish")
    /\ UNCHANGED <<receipt, stage, failed, recovery, planVars, published, committed, closed,
                   outcome,
                   countVars>>

(* The tree was moved, previous_moved was not set. *)
MoveAsideInterrupted(i) ==
    /\ pc[i] = "aside"
    /\ target # Absent
    /\ TargetAsPlanned(i)
    /\ interrupts < MaxInterrupts
    /\ interrupts' = interrupts + 1
    /\ backup' = [backup EXCEPT ![i] = target]
    /\ target' = Absent
    /\ Undo(i)
    /\ UNCHANGED <<receipt, failed, recovery, planVars, txVars, outcome, faults, crashes>>

(* The target is gone: whoever moved it, there is nothing to move aside. *)
NothingToMove(i) ==
    /\ pc[i] = "aside"
    /\ target = Absent
    /\ Goto(i, "publish")
    /\ UNCHANGED <<diskVars, planVars, txVars, outcome, countVars>>

MoveAsideRefused(i) ==
    /\ pc[i] = "aside"
    /\ target # Absent
    /\ ~TargetAsPlanned(i)
    /\ Undo(i)
    /\ UNCHANGED <<target, receipt, backup, failed, recovery, planVars, txVars, outcome, countVars>>

(* The rename does not replace an occupant. *)
Publish(i) ==
    /\ pc[i] = "publish"
    /\ target = Absent
    /\ target' = stage[i]
    /\ stage' = [stage EXCEPT ![i] = Absent]
    /\ published' = published \cup {i}
    /\ Goto(i, "receipt")
    /\ UNCHANGED <<receipt, backup, failed, recovery, planVars, moved, committed, closed, outcome,
                   countVars>>

PublishInterrupted(i) ==
    /\ pc[i] = "publish"
    /\ target = Absent
    /\ interrupts < MaxInterrupts
    /\ interrupts' = interrupts + 1
    /\ target' = stage[i]
    /\ Undo(i)
    /\ UNCHANGED <<receipt, backup, failed, recovery, planVars, txVars, outcome, faults, crashes>>

PublishRefused(i) ==
    /\ pc[i] = "publish"
    /\ target # Absent
    /\ Undo(i)
    /\ UNCHANGED <<target, receipt, backup, failed, recovery, planVars, txVars, outcome, countVars>>

(* Mutant of WriteReceipt: the precondition is not checked. *)
WriteReceiptUnchecked(i) ==
    /\ pc[i] = "receipt"
    /\ receipt' = [of |-> i, by |-> i]
    /\ committed' = committed \cup {i}
    /\ Goto(i, "check")
    /\ UNCHANGED <<target, stage, backup, failed, recovery, planVars, moved, published, closed, outcome,
                   countVars>>

(* The receipt is replaced only if it is still the planned one. *)
WriteReceipt(i) ==
    /\ pc[i] = "receipt"
    /\ receipt = seenReceipt[i]
    /\ receipt' = [of |-> i, by |-> i]
    /\ committed' = committed \cup {i}
    /\ Goto(i, "check")
    /\ UNCHANGED <<target, stage, backup, failed, recovery, planVars, moved, published, closed, outcome,
                   countVars>>

WriteReceiptInterrupted(i) ==
    /\ pc[i] = "receipt"
    /\ receipt = seenReceipt[i]
    /\ interrupts < MaxInterrupts
    /\ interrupts' = interrupts + 1
    /\ receipt' = [of |-> i, by |-> i]
    /\ Undo(i)
    /\ UNCHANGED <<target, backup, failed, recovery, planVars, txVars, outcome, faults, crashes>>

WriteReceiptRefused(i) ==
    /\ pc[i] = "receipt"
    /\ receipt # seenReceipt[i]
    /\ Undo(i)
    /\ UNCHANGED <<target, receipt, backup, failed, recovery, planVars, txVars, outcome, countVars>>

(* _validate_owned_install of what was just written. *)
Check(i) ==
    /\ pc[i] = "check"
    /\ target.of = i /\ receipt.of = i
    /\ Goto(i, "verify")
    /\ UNCHANGED <<diskVars, planVars, txVars, outcome, countVars>>

CheckRefused(i) ==
    /\ pc[i] = "check"
    /\ target.of # i \/ \E r \in Readable(i) : r.of # i
    /\ Undo(i)
    /\ UNCHANGED <<target, receipt, backup, failed, recovery, planVars, txVars, outcome, countVars>>

(* An operation of _begin_replace_plugin fails and leaves the disk alone. *)
BeginFails(i) ==
    /\ pc[i] \in {"aside", "publish", "receipt", "check"}
    /\ Fault
    /\ Undo(i)
    /\ UNCHANGED <<target, receipt, backup, failed, recovery, planVars, txVars, outcome>>

-------------------------------------------------------------------------------
(* run: verify_install and what follows from it. *)

(* directly_usable: the artifact is ours and a live GIMP proved readiness. *)
VerifyUsable(i) ==
    /\ pc[i] = "verify"
    /\ target = Original(i) /\ receipt.of = i
    /\ Goto(i, "commit")
    /\ UNCHANGED <<diskVars, planVars, txVars, outcome, countVars>>

(* The artifact is fine, no GIMP answered: a first install stays, and its  *)
(* user is asked to restart GIMP; an upgrade is undone.                    *)
VerifyNotReady(i) ==
    /\ pc[i] = "verify"
    /\ target = Original(i) /\ receipt.of = i
    /\ Goto(i, IF i \in moved THEN "undoPublish" ELSE "commit")
    /\ outcome' = [outcome EXCEPT ![i] = IF i \in moved THEN "failed" ELSE "restart"]
    /\ UNCHANGED <<diskVars, planVars, txVars, countVars>>

(* Artifact, import or identity: undone in every case. *)
VerifyFails(i) ==
    /\ pc[i] = "verify"
    /\ Goto(i, "undoPublish")
    /\ outcome' = [outcome EXCEPT ![i] = "failed"]
    /\ UNCHANGED <<diskVars, planVars, txVars, countVars>>

-------------------------------------------------------------------------------
(* InstallTransaction.commit *)

Committed(i) == Finish(i, IF outcome[i] = "restart" THEN "restart" ELSE "ok")

(* The asserts of commit raise, and nobody rolls back. *)
CommitRefused(i) ==
    /\ pc[i] \in {"commit", "clean"}
    /\ \/ target # Original(i) /\ UNCHANGED countVars
       \/ Fault
    /\ Finish(i, "failed")
    /\ UNCHANGED <<diskVars, planVars, txVars>>

(* Mutant of CopyRecovery: the backup is removed without a copy. *)
CopyRecoverySkipped(i) ==
    /\ pc[i] = "commit"
    /\ target = Original(i)
    /\ Goto(i, "clean")
    /\ UNCHANGED <<diskVars, planVars, txVars, outcome, countVars>>

CopyRecovery(i) ==
    /\ pc[i] = "commit"
    /\ target = Original(i)
    /\ recovery' = IF i \in moved
                   THEN [recovery EXCEPT ![i] = [of |-> backup[i].of, by |-> i]]
                   ELSE recovery
    /\ Goto(i, "clean")
    /\ UNCHANGED <<target, receipt, stage, backup, failed, planVars, txVars, outcome, countVars>>

CopyRecoveryFails(i) ==
    /\ pc[i] = "commit"
    /\ target = Original(i)
    /\ i \in moved
    /\ Fault
    /\ Goto(i, "undoPublish")
    /\ UNCHANGED <<diskVars, planVars, txVars, outcome>>

CleanBackup(i) ==
    /\ pc[i] = "clean"
    /\ target = Original(i)
    /\ backup' = [backup EXCEPT ![i] = Absent]
    /\ closed' = closed \cup {i}
    /\ Goto(i, "cleanRecovery")
    /\ UNCHANGED <<target, receipt, stage, failed, recovery, planVars, moved, published, committed,
                   outcome, countVars>>

(* The backup may be half removed when the removal fails. *)
CleanBackupFails(i) ==
    /\ pc[i] = "clean"
    /\ target = Original(i)
    /\ backup[i] # Absent
    /\ Fault
    /\ \/ UNCHANGED backup
       \/ backup' = [backup EXCEPT ![i] = [of |-> Broken, by |-> @.by]]
    /\ Goto(i, "undoPublish")
    /\ UNCHANGED <<target, receipt, stage, failed, recovery, planVars, txVars, outcome>>

CleanRecovery(i) ==
    /\ pc[i] = "cleanRecovery"
    /\ recovery' = [recovery EXCEPT ![i] = Absent]
    /\ Committed(i)
    /\ UNCHANGED <<target, receipt, stage, backup, failed, planVars, txVars, countVars>>

(* A removal that reports no success is ignored; one that raises makes the *)
(* run report a failure of a transaction that is closed.                   *)
CleanRecoveryFails(i) ==
    /\ pc[i] = "cleanRecovery"
    /\ recovery[i] # Absent
    /\ Fault
    /\ Committed(i) \/ Finish(i, "failed")
    /\ UNCHANGED <<diskVars, planVars, txVars>>

-------------------------------------------------------------------------------
(* InstallTransaction.rollback *)

(* Rolling back never turns a verdict into success. *)
RolledBack(i) == Finish(i, "failed")

(* The rollback fails.  run has its verdict when it rolls back, and adds   *)
(* that the rollback failed; _begin_replace_plugin and commit raise the    *)
(* failure they roll back for, and nothing is said of this one.            *)
Stranded(i) == Finish(i, IF outcome[i] = "failed" THEN "stranded" ELSE "swallowed")

(* What the report of an installer says. *)
Told(i) == IF outcome[i] = "swallowed" THEN "failed" ELSE outcome[i]

(* Mutant of UndoPublish: whatever has the name is parked. *)
UndoPublishUnchecked(i) ==
    /\ pc[i] = "undoPublish"
    /\ IF i \in published /\ target # Absent
       THEN /\ failed' = [failed EXCEPT ![i] = target]
            /\ target' = Absent
       ELSE UNCHANGED <<failed, target>>
    /\ Goto(i, "undoAside")
    /\ UNCHANGED <<receipt, stage, backup, recovery, planVars, txVars, outcome, countVars>>

(* The replacement is parked if it is still the one that was published. *)
UndoPublish(i) ==
    /\ pc[i] = "undoPublish"
    /\ IF i \in published /\ target # Absent
       THEN /\ target = Original(i)
            /\ failed' = [failed EXCEPT ![i] = target]
            /\ target' = Absent
       ELSE UNCHANGED <<failed, target>>
    /\ Goto(i, "undoAside")
    /\ UNCHANGED <<receipt, stage, backup, recovery, planVars, txVars, outcome, countVars>>

UndoPublishRefused(i) ==
    /\ pc[i] = "undoPublish"
    /\ i \in published /\ target # Absent
    /\ target # Original(i)
    /\ Stranded(i)
    /\ UNCHANGED <<diskVars, planVars, txVars, countVars>>

(* A tree that still has the content of the previous install. *)
Restorable(i, tree) ==
    /\ tree # Absent
    /\ previous[i] # Nothing => tree.of = previous[i]

(* The recovery copy is preferred to the backup it was made from. *)
UndoAside(i) ==
    /\ pc[i] = "undoAside"
    /\ i \in moved
    /\ target = Absent
    /\ \/ /\ Restorable(i, recovery[i])
          /\ target' = recovery[i]
          /\ recovery' = [recovery EXCEPT ![i] = Absent]
          /\ UNCHANGED backup
       \/ /\ ~Restorable(i, recovery[i])
          /\ Restorable(i, backup[i])
          /\ target' = backup[i]
          /\ backup' = [backup EXCEPT ![i] = Absent]
          /\ UNCHANGED recovery
    /\ Goto(i, "undoReceipt")
    /\ UNCHANGED <<receipt, stage, failed, planVars, txVars, outcome, countVars>>

NothingToRestore(i) ==
    /\ pc[i] = "undoAside"
    /\ i \notin moved
    /\ Goto(i, "undoReceipt")
    /\ UNCHANGED <<diskVars, planVars, txVars, outcome, countVars>>

(* The receipt as it was, in the writing of i. *)
RestoredReceipt(i) ==
    IF seenReceipt[i] = Absent THEN Absent ELSE [of |-> seenReceipt[i].of, by |-> i]

(* No candidate is left, or the target is taken.  When a candidate changed *)
(* the receipt is still restored.                                          *)
UndoAsideRefused(i) ==
    /\ pc[i] = "undoAside"
    /\ i \in moved
    /\ \/ /\ Restorable(i, recovery[i]) \/ Restorable(i, backup[i])
          /\ target # Absent
          /\ UNCHANGED <<receipt, failed>>
       \/ /\ ~Restorable(i, recovery[i]) /\ ~Restorable(i, backup[i])
          /\ IF i \in committed => Wrote(i)
             THEN /\ receipt' = IF i \in committed THEN RestoredReceipt(i) ELSE receipt
                  /\ failed' = [failed EXCEPT ![i] = Absent]
             ELSE UNCHANGED <<receipt, failed>>
    /\ Stranded(i)
    /\ UNCHANGED <<target, stage, backup, recovery, planVars, txVars, countVars>>

(* Mutant of UndoReceipt: _restore_receipt is not called. *)
UndoReceiptForgotten(i) ==
    /\ pc[i] = "undoReceipt"
    /\ Goto(i, "undoClean")
    /\ UNCHANGED <<diskVars, planVars, txVars, outcome, countVars>>

(* The receipt is put back only over the one this transaction wrote. *)
UndoReceipt(i) ==
    /\ pc[i] = "undoReceipt"
    /\ i \in committed => Wrote(i)
    /\ receipt' = IF i \in committed THEN RestoredReceipt(i) ELSE receipt
    /\ Goto(i, "undoClean")
    /\ UNCHANGED <<target, stage, backup, failed, recovery, planVars, txVars, outcome, countVars>>

UndoReceiptRefused(i) ==
    /\ pc[i] = "undoReceipt"
    /\ i \in committed
    /\ \/ ~Wrote(i) /\ UNCHANGED countVars
       \/ Fault
    /\ failed' = [failed EXCEPT ![i] = Absent]
    /\ backup' = [backup EXCEPT ![i] = Absent]
    /\ Stranded(i)
    /\ UNCHANGED <<target, receipt, stage, recovery, planVars, txVars>>

UndoClean(i) ==
    /\ pc[i] = "undoClean"
    /\ failed' = [failed EXCEPT ![i] = Absent]
    /\ backup' = [backup EXCEPT ![i] = Absent]
    /\ recovery' = [recovery EXCEPT ![i] = Absent]
    /\ RolledBack(i)
    /\ UNCHANGED <<target, receipt, stage, planVars, txVars, countVars>>

(* An operation of rollback fails: it stops there. *)
UndoFails(i) ==
    /\ pc[i] \in {"undoPublish", "undoAside", "undoReceipt", "undoClean"}
    /\ Fault
    /\ Stranded(i)
    /\ UNCHANGED <<diskVars, planVars, txVars>>

-------------------------------------------------------------------------------
(* The installer is killed, perhaps while it replaces the receipt. *)
Crash(i) ==
    /\ pc[i] \notin {"idle", "done", "dead"}
    /\ crashes < MaxCrashes
    /\ crashes' = crashes + 1
    /\ Goto(i, "dead")
    /\ \/ UNCHANGED receipt
       \/ Replacing(i) /\ receipt' = Absent
    /\ UNCHANGED <<target, stage, backup, failed, recovery, planVars, txVars, outcome, faults,
                   interrupts>>

Forward(i) ==
    \/ PlanReceipt(i) \/ PlanTarget(i) \/ Begin(i) \/ Refuse(i) \/ RefuseByFault(i) \/ Stage(i)
    \/ MoveAside(i) \/ NothingToMove(i) \/ MoveAsideRefused(i)
    \/ Publish(i) \/ PublishRefused(i)
    \/ WriteReceipt(i) \/ WriteReceiptRefused(i)
    \/ Check(i) \/ CheckRefused(i) \/ BeginFails(i)
    \/ VerifyUsable(i) \/ VerifyNotReady(i) \/ VerifyFails(i)

Interrupted(i) ==
    MoveAsideInterrupted(i) \/ PublishInterrupted(i) \/ WriteReceiptInterrupted(i)

Commit(i) ==
    \/ CommitRefused(i) \/ CopyRecovery(i) \/ CopyRecoveryFails(i)
    \/ CleanBackup(i) \/ CleanBackupFails(i) \/ CleanRecovery(i) \/ CleanRecoveryFails(i)

Rollback(i) ==
    \/ UndoPublish(i) \/ UndoPublishRefused(i)
    \/ UndoAside(i) \/ NothingToRestore(i) \/ UndoAsideRefused(i)
    \/ UndoReceipt(i) \/ UndoReceiptRefused(i) \/ UndoClean(i) \/ UndoFails(i)

Next == \E i \in Installers :
            Forward(i) \/ Interrupted(i) \/ Commit(i) \/ Rollback(i) \/ Crash(i)

Spec == Init /\ [][Next]_vars

-------------------------------------------------------------------------------
(* A parked replacement, a stage and a recovery copy are the installer's own. *)
TypeOK ==
    /\ target \in Objects /\ receipt \in Objects
    /\ backup \in [Installers -> Objects]
    /\ recovery \in [Installers -> Objects]
    /\ \A i \in Installers : {stage[i], failed[i]} \subseteq {Absent, Original(i)}
    /\ stage \in [Installers -> Objects] /\ failed \in [Installers -> Objects]
    /\ pc \in [Installers -> Points]
    /\ verb \in [Installers -> {"install", "upgrade"}]
    /\ seenTree \in [Installers -> Objects]
    /\ seenReceipt \in [Installers -> Objects]
    /\ state \in [Installers -> States]
    /\ previous \in [Installers -> Contents]
    /\ moved \subseteq Installers /\ published \subseteq Installers
    /\ committed \subseteq Installers /\ closed \subseteq Installers
    /\ outcome \in [Installers -> Outcomes]
    /\ faults \in Nat /\ crashes \in Nat /\ interrupts \in Nat

Alone(i) == \A j \in Installers \ {i} : pc[j] = "idle"
Quiet == \A i \in Installers : pc[i] \in {"idle", "done", "dead"}

(* The places where a tree may be. *)
OnDisk(c) ==
    \/ target.of = c
    \/ \E i \in Installers : c \in {stage[i].of, backup[i].of, failed[i].of, recovery[i].of}

AsPlanned(i) == target.of = seenTree[i].of /\ receipt.of = seenReceipt[i].of
Installed(c) == target.of = c /\ receipt.of = c
Acknowledged(i) == pc[i] = "done" /\ i \in committed /\ outcome[i] \in {"ok", "restart"}

(* install.md, Upgrade: "If replacement or receipt commit fails, the       *)
(* previous plug-in and receipt are restored."  Whatever fails, and for    *)
(* whatever reason the rollback starts, an installer that was alone and    *)
(* does not report a failed rollback leaves tree and receipt as they were, *)
(* or, when only cleaning up failed, the complete replacement.             *)
FailureRestores ==
    interrupts = 0 =>
        \A i \in Installers :
            pc[i] = "done" /\ Told(i) = "failed" /\ Alone(i) => AsPlanned(i) \/ Installed(i)

(* The same of a rollback that came to its end, where a change may have    *)
(* been made and not recorded.                                             *)
RollbackRestores ==
    \A i \in Installers :
        pc[i] = "done" /\ outcome[i] = "failed" /\ Alone(i) => AsPlanned(i) \/ Installed(i)

(* What the code keeps of it: after one failure the profile is as reported, *)
(* in whichever operation of the replacement, the commit or the rollback it *)
(* was.  Only when a rollback that began inside _begin_replace_plugin or    *)
(* commit meets a second failure the report is silent, and even then the    *)
(* previous tree is still somewhere in the profile.                         *)
OneFailureRestores ==
    interrupts = 0 =>
        \A i \in Installers :
            pc[i] = "done" /\ Told(i) = "failed" /\ Alone(i) =>
                \/ AsPlanned(i) \/ Installed(i)
                \/ outcome[i] = "swallowed" /\ faults > 1 /\ OnDisk(seenTree[i].of)

(* install.md, Troubleshooting: "Review `status --json`, then run          *)
(* `install --yes` for partial/repair": such a profile can be replaced.    *)
RepairReplaces ==
    \A i \in Installers :
        pc[i] = "done" /\ verb[i] = "install" /\ state[i] \in {"partial", "repair"} /\ faults = 0
            => i \in published

(* The last copy of what was installed is given up only when another       *)
(* installer has verified and closed its replacement, or by the installer  *)
(* that withdraws its own: whatever fails and whoever is killed, it is     *)
(* still somewhere in the profile.                                         *)
LastCopyKept ==
    [][interrupts' = 0 =>
         \A c \in Contents \ {Nothing, Broken} :
            OnDisk(c) /\ ~OnDisk(c)' =>
                \/ closed \ {c} # {}
                \/ c \in Installers /\ pc'[c] # pc[c]]_vars

(* A rollback failed, whether its user was told or not. *)
RollbackFailed == \E i \in Installers : outcome[i] \in {"stranded", "swallowed"}

(* Installers that overlap may undo each other.  Once an installation was  *)
(* acknowledged, whatever fails and whoever is killed afterwards, a plug-in *)
(* whose verification succeeded is still on disk, in place or kept by an   *)
(* installer; and when all of them are through, nobody was killed and no   *)
(* rollback failed, reported or not, one is in place with its receipt.     *)
AcknowledgedStays ==
    interrupts = 0 =>
        \A i \in Installers : Acknowledged(i) =>
            /\ \E j \in closed : OnDisk(j)
            /\ Quiet /\ crashes = 0 /\ ~RollbackFailed => \E j \in Installers : Installed(j)

(* Of the installers that planned on the same receipt one succeeds at most: *)
(* the receipt decides between them.                                       *)
OneWinner ==
    crashes = 0 =>
        \A i, j \in Installers :
            Acknowledged(i) /\ Acknowledged(j) /\ seenReceipt[i] = seenReceipt[j] => i = j
===============================================================================
