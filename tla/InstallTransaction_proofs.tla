----------------------- MODULE InstallTransaction_proofs -----------------------
(***************************************************************************)
(* Theorems about InstallTransaction, for every number of installers and   *)
(* every number of failures, kills and interruptions.                      *)
(***************************************************************************)
EXTENDS InstallTransaction, TLAPS

(* The points before an installer writes its receipt, and before it        *)
(* publishes its tree.                                                     *)
Unwritten == {"idle", "plan", "begin", "stage", "aside", "publish", "receipt"}
Unstaged == {"idle", "plan", "begin", "stage"}

-----------------------------------------------------------------------------
(* The receipts.  No receipt is written twice: what k wrote names k, and   *)
(* only k restores over it.                                                *)
Stems(r) ==
    \A k \in Installers :
        /\ r.by = k \/ r.of = k => pc[k] \notin Unwritten
        /\ r.by = k /\ r.of # k => pc[k] \in {"undoClean", "done", "dead"}

(* An installer whose receipt counts: it wrote one and has neither         *)
(* restored the earlier one nor reported a failure.                        *)
Live(i) ==
    /\ i \in committed
    /\ pc[i] # "undoClean"
    /\ ~(pc[i] = "done" /\ outcome[i] \in {"failed", "stranded", "swallowed"})

Receipts ==
    /\ Stems(receipt)
    /\ \A i \in Installers : Stems(seenReceipt[i]) /\ seenReceipt[i].of # i
    /\ \A i \in committed : pc[i] \notin Unwritten
    /\ crashes = 0 =>
          /\ \A i \in Installers : Live(i) => receipt # seenReceipt[i]
          /\ \A i, j \in Installers :
                Live(i) /\ Live(j) /\ seenReceipt[i] = seenReceipt[j] => i = j

-----------------------------------------------------------------------------
(* The private trees of an installer at each of its points.                *)
Keeping == {"publish", "receipt", "check", "verify", "commit", "clean", "undoPublish", "undoAside"}

Private(i) ==
    /\ recovery[i] # Absent => recovery[i].by = i /\ recovery[i].of # Broken /\ i \in moved
    /\ pc[i] \in Unstaged \cup {"aside"} =>
          backup[i] = Absent /\ recovery[i] = Absent /\ i \notin moved
    /\ pc[i] \in {"publish", "receipt", "check", "verify", "commit"} =>
          recovery[i] = Absent /\ backup[i].of # Broken
    /\ pc[i] \in {"publish", "receipt", "check", "verify", "commit", "clean"} /\ i \notin moved
          => backup[i] = Absent
    /\ interrupts = 0 /\ i \notin moved => backup[i] = Absent
    /\ pc[i] = "clean" /\ i \in moved =>
          recovery[i].by = i /\ recovery[i].of = backup[i].of
    /\ pc[i] = "clean" => backup[i].of # Broken
    /\ pc[i] \in {"undoPublish", "undoAside"} =>
          /\ recovery[i] # Absent => backup[i].of \in {recovery[i].of, Broken}
          /\ backup[i].of = Broken => recovery[i] # Absent
    /\ pc[i] = "cleanRecovery" => i \in closed
    /\ pc[i] \in {"aside", "publish"} => stage[i] = Original(i)
    /\ previous[i] # Broken

Privates == \A i \in Installers : Private(i)

(* A tree no receipt vouches for is never moved.                           *)
BrokenStays ==
    /\ receipt.of # Broken /\ \A i \in Installers : seenReceipt[i].of # Broken
    /\ target.of = Broken =>
          \A i \in Installers :
              \/ pc[i] \in {"idle", "plan", "done", "dead"}
              \/ pc[i] = "begin" /\ state[i] \in {"partial", "repair"}

InPrivate(j, c) == c \in {backup[j].of, recovery[j].of}

(* Where what c installs may be: the original is in one place, and there   *)
(* is no copy unless somebody moved the original aside and copied it.      *)
Lineage ==
    \A c \in Installers :
        /\ pc[c] \in Unstaged => stage[c].of # c
        /\ pc[c] \in Unstaged \/ stage[c].of = c =>
              target.of # c /\ failed[c].of # c /\ \A j \in Installers : ~InPrivate(j, c)
        /\ failed[c].of = c => target.of # c /\ \A j \in Installers : ~InPrivate(j, c)
        /\ target = Original(c) => \A j \in Installers : ~InPrivate(j, c)
        /\ \A j \in Installers :
              pc[j] \in Keeping /\ backup[j] = Original(c) /\ recovery[j].of # c =>
                  target.of # c /\ \A k \in Installers \ {j} : ~InPrivate(k, c)
        /\ ~InPrivate(c, c)

(* A place from which nobody but an installer that closes its transaction  *)
(* or withdraws its own tree removes the last copy.                        *)
Safe(c) ==
    \/ target.of = c
    \/ \E i \in Installers : stage[i].of = c \/ failed[i].of = c
    \/ \E i \in Installers : pc[i] \notin {"undoReceipt", "undoClean"} /\ InPrivate(i, c)

Kept ==
    interrupts = 0 =>
        \A c \in Contents \ {Nothing, Broken} :
            closed \subseteq {c} /\ OnDisk(c) => Safe(c)

IInv == TypeOK /\ Receipts /\ Privates /\ BrokenStays /\ Lineage /\ Kept

-----------------------------------------------------------------------------
(* Every step keeps the types. *)

(* What installers copy and write is an object like any other.             *)
LEMMA ObjectsMade ==
    /\ Absent \in Objects
    /\ \A c \in Contents, j \in Installers \cup {NoOne} : [of |-> c, by |-> j] \in Objects
    /\ \A c \in Installers : Original(c) \in Objects
    /\ \A o \in Objects : o.of \in Contents
BY DEF Objects, Contents, Absent, Original

(* The steps that go on.                                                   *)
LEMMA ForwardTypes ==
    ASSUME TypeOK, NEW i \in Installers, Forward(i)
    PROVE  TypeOK'
<1>. USE ObjectsMade DEF TypeOK, Goto, Points, States, diskVars, planVars, txVars, countVars
<1>1. CASE PlanReceipt(i)
    BY <1>1 DEF PlanReceipt, Readable
<1>2. CASE PlanTarget(i)
    BY <1>2 DEF PlanTarget, Classified
<1>3. CASE Begin(i)
    BY <1>3 DEF Begin
<1>4. CASE Refuse(i)
    BY <1>4 DEF Refuse, Finish, Outcomes, Reports
<1>5. CASE RefuseByFault(i)
    BY <1>5 DEF RefuseByFault, Finish, Fault, Outcomes, Reports
<1>6. CASE Stage(i)
    BY <1>6 DEF Stage
<1>7. CASE MoveAside(i)
    BY <1>7 DEF MoveAside
<1>8. CASE NothingToMove(i)
    BY <1>8 DEF NothingToMove
<1>9. CASE MoveAsideRefused(i)
    BY <1>9 DEF MoveAsideRefused, Undo
<1>10. CASE Publish(i)
    BY <1>10 DEF Publish
<1>11. CASE PublishRefused(i)
    BY <1>11 DEF PublishRefused, Undo
<1>12. CASE WriteReceipt(i)
    BY <1>12 DEF WriteReceipt, Contents
<1>13. CASE WriteReceiptRefused(i)
    BY <1>13 DEF WriteReceiptRefused, Undo
<1>14. CASE Check(i)
    BY <1>14 DEF Check
<1>15. CASE CheckRefused(i)
    BY <1>15 DEF CheckRefused, Undo
<1>16. CASE BeginFails(i)
    BY <1>16 DEF BeginFails, Undo, Fault
<1>17. CASE VerifyUsable(i)
    BY <1>17 DEF VerifyUsable
<1>18. CASE VerifyNotReady(i)
    BY <1>18 DEF VerifyNotReady, Outcomes, Reports
<1>19. CASE VerifyFails(i)
    BY <1>19 DEF VerifyFails, Outcomes, Reports
<1>. QED
    BY <1>1, <1>2, <1>3, <1>4, <1>5, <1>6, <1>7, <1>8, <1>9, <1>10, <1>11, <1>12, <1>13, <1>14,
       <1>15, <1>16, <1>17, <1>18, <1>19 DEF Forward

(* The steps that are made and not recorded.                               *)
LEMMA InterruptedTypes ==
    ASSUME TypeOK, NEW i \in Installers, Interrupted(i)
    PROVE  TypeOK'
<1>. USE ObjectsMade DEF TypeOK, Goto, Undo, Points, planVars, txVars
<1>1. CASE MoveAsideInterrupted(i)
    BY <1>1 DEF MoveAsideInterrupted
<1>2. CASE PublishInterrupted(i)
    BY <1>2 DEF PublishInterrupted
<1>3. CASE WriteReceiptInterrupted(i)
    BY <1>3 DEF WriteReceiptInterrupted, Contents
<1>. QED
    BY <1>1, <1>2, <1>3 DEF Interrupted

(* The steps that close the transaction.                                   *)
LEMMA CommitTypes ==
    ASSUME TypeOK, NEW i \in Installers, Commit(i)
    PROVE  TypeOK'
<1>. USE ObjectsMade
     DEF TypeOK, Goto, Finish, Fault, Points, Outcomes, Reports, diskVars, planVars, txVars,
         countVars
<1>1. CASE CommitRefused(i)
    BY <1>1 DEF CommitRefused
<1>2. CASE CopyRecovery(i)
    BY <1>2 DEF CopyRecovery
<1>3. CASE CopyRecoveryFails(i)
    BY <1>3 DEF CopyRecoveryFails
<1>4. CASE CleanBackup(i)
    BY <1>4 DEF CleanBackup
<1>5. CASE CleanBackupFails(i)
    <2>1. [of |-> Broken, by |-> backup[i].by] \in Objects
        BY DEF Objects, Contents
    <2>2. backup' \in [Installers -> Objects]
        BY <1>5, <2>1 DEF CleanBackupFails
    <2>3. pc' \in [Installers -> Points] /\ faults' \in Nat
        BY <1>5 DEF CleanBackupFails
    <2>4. UNCHANGED <<target, receipt, stage, failed, recovery, planVars, txVars, outcome, crashes,
                      interrupts>>
        BY <1>5 DEF CleanBackupFails
    <2>. QED
        BY <2>2, <2>3, <2>4
<1>6. CASE CleanRecovery(i)
    BY <1>6 DEF CleanRecovery, Committed
<1>7. CASE CleanRecoveryFails(i)
    <2>1. /\ pc' \in [Installers -> Points]
          /\ outcome' \in [Installers -> Outcomes]
        BY <1>7 DEF CleanRecoveryFails, Committed
    <2>. QED
        BY <1>7, <2>1 DEF CleanRecoveryFails
<1>. QED
    BY <1>1, <1>2, <1>3, <1>4, <1>5, <1>6, <1>7 DEF Commit

(* The steps back, and the kill.                                           *)
LEMMA RollbackTypes ==
    ASSUME TypeOK, NEW i \in Installers, Rollback(i) \/ Crash(i)
    PROVE  TypeOK'
<1>1. RestoredReceipt(i) \in Objects
    BY ObjectsMade DEF RestoredReceipt, TypeOK
<1>. USE <1>1, ObjectsMade
     DEF TypeOK, Goto, Finish, Fault, RolledBack, Stranded, Points, Outcomes, Reports, diskVars,
         planVars, txVars, countVars
<1>2. CASE UndoPublish(i)
    BY <1>2 DEF UndoPublish
<1>3. CASE UndoPublishRefused(i)
    BY <1>3 DEF UndoPublishRefused
<1>4. CASE UndoAside(i)
    <2>1. /\ target' = recovery[i] \/ target' = backup[i]
          /\ backup' = backup \/ backup' = [backup EXCEPT ![i] = Absent]
          /\ recovery' = recovery \/ recovery' = [recovery EXCEPT ![i] = Absent]
        BY <1>4 DEF UndoAside
    <2>2. target' \in Objects
        BY <2>1
    <2>3. backup' \in [Installers -> Objects]
        BY <2>1
    <2>4. recovery' \in [Installers -> Objects]
        BY <2>1
    <2>. QED
        BY <1>4, <2>2, <2>3, <2>4 DEF UndoAside
<1>5. CASE NothingToRestore(i)
    BY <1>5 DEF NothingToRestore
<1>6. CASE UndoAsideRefused(i)
    BY <1>6 DEF UndoAsideRefused
<1>7. CASE UndoReceipt(i)
    BY <1>7 DEF UndoReceipt
<1>8. CASE UndoReceiptRefused(i)
    BY <1>8 DEF UndoReceiptRefused
<1>9. CASE UndoClean(i)
    BY <1>9 DEF UndoClean
<1>10. CASE UndoFails(i)
    BY <1>10 DEF UndoFails
<1>11. CASE Crash(i)
    BY <1>11 DEF Crash
<1>. QED
    BY <1>2, <1>3, <1>4, <1>5, <1>6, <1>7, <1>8, <1>9, <1>10, <1>11 DEF Rollback

(* Every step of an installer, and stuttering.                             *)
LEMMA StepTypes ==
    ASSUME TypeOK, [Next]_vars
    PROVE  TypeOK'
<1>1. CASE Next
    BY <1>1, ForwardTypes, InterruptedTypes, CommitTypes, RollbackTypes DEF Next
<1>2. CASE UNCHANGED vars
    BY <1>2 DEF TypeOK, vars, diskVars, planVars, txVars, countVars
<1>. QED
    BY <1>1, <1>2

(* Before any installer starts the types are right.                        *)
LEMMA InitTypes == Init => TypeOK
BY ObjectsMade DEF Init, TypeOK, Contents, Original, Objects, Points, States, Outcomes, Reports

(* Every variable of the transaction keeps its type: in particular a stage *)
(* and a parked replacement hold what their installer copied, or nothing.  *)
THEOREM InstallTypeCorrect == Spec => []TypeOK
BY InitTypes, StepTypes, PTL DEF Spec

-----------------------------------------------------------------------------
(* The receipt decides between installers. *)

(* A step of i that leaves the receipt alone: it does not return to a      *)
(* point before the receipt, and what gave up its receipt reports so.      *)
Walk(i) ==
    /\ UNCHANGED <<receipt, seenReceipt, committed, crashes>>
    /\ pc[i] \notin {"done", "dead"}
    /\ pc[i] \notin Unwritten => pc'[i] \notin Unwritten
    /\ pc[i] = "undoClean" => pc'[i] = "done" /\ outcome'[i] \in {"failed", "stranded", "swallowed"}
    /\ \A j \in Installers \ {i} : pc'[j] = pc[j] /\ outcome'[j] = outcome[j]

(* All other steps walk. *)
LEMMA Walks ==
    ASSUME TypeOK, NEW i \in Installers,
           \/ Forward(i) /\ ~PlanReceipt(i) /\ ~WriteReceipt(i)
           \/ Interrupted(i) /\ ~WriteReceiptInterrupted(i)
           \/ Commit(i)
           \/ Rollback(i) /\ ~UndoAsideRefused(i) /\ ~UndoReceipt(i)
    PROVE  Walk(i)
<1>. USE DEF TypeOK, Walk, Unwritten, Goto, Finish, Fault, Undo, diskVars, planVars, txVars,
             countVars
<1>1. CASE Forward(i) /\ ~PlanReceipt(i) /\ ~WriteReceipt(i)
    <2>1. CASE PlanTarget(i) \/ Begin(i) \/ Refuse(i) \/ RefuseByFault(i) \/ Stage(i)
        BY <2>1 DEF PlanTarget, Begin, Refuse, RefuseByFault, Stage
    <2>2. CASE \/ MoveAside(i) \/ NothingToMove(i) \/ MoveAsideRefused(i)
               \/ Publish(i) \/ PublishRefused(i)
        BY <2>2 DEF MoveAside, NothingToMove, MoveAsideRefused, Publish, PublishRefused
    <2>3. CASE WriteReceiptRefused(i) \/ Check(i) \/ CheckRefused(i) \/ BeginFails(i)
        BY <2>3 DEF WriteReceiptRefused, Check, CheckRefused, BeginFails
    <2>4. CASE VerifyUsable(i) \/ VerifyNotReady(i) \/ VerifyFails(i)
        BY <2>4 DEF VerifyUsable, VerifyNotReady, VerifyFails
    <2>. QED
        BY <1>1, <2>1, <2>2, <2>3, <2>4 DEF Forward
<1>2. CASE Interrupted(i) /\ ~WriteReceiptInterrupted(i)
    BY <1>2 DEF Interrupted, MoveAsideInterrupted, PublishInterrupted
<1>3. CASE Commit(i)
    <2>1. CASE CommitRefused(i) \/ CopyRecovery(i) \/ CopyRecoveryFails(i)
        BY <2>1 DEF CommitRefused, CopyRecovery, CopyRecoveryFails
    <2>2. CASE CleanBackup(i) \/ CleanBackupFails(i)
        BY <2>2 DEF CleanBackup, CleanBackupFails
    <2>3. CASE CleanRecovery(i) \/ CleanRecoveryFails(i)
        BY <2>3 DEF CleanRecovery, CleanRecoveryFails, Committed
    <2>. QED
        BY <1>3, <2>1, <2>2, <2>3 DEF Commit
<1>4. CASE Rollback(i) /\ ~UndoAsideRefused(i) /\ ~UndoReceipt(i)
    <2>1. CASE UndoPublish(i) \/ UndoPublishRefused(i) \/ UndoAside(i) \/ NothingToRestore(i)
        BY <2>1 DEF UndoPublish, UndoPublishRefused, UndoAside, NothingToRestore, Stranded
    <2>2. CASE UndoReceiptRefused(i) \/ UndoClean(i) \/ UndoFails(i)
        BY <2>2 DEF UndoReceiptRefused, UndoClean, UndoFails, RolledBack, Stranded
    <2>. QED
        BY <1>4, <2>1, <2>2 DEF Rollback
<1>. QED
    BY <1>1, <1>2, <1>3, <1>4

(* Walking disturbs no receipt. *)
LEMMA WalkKeepsReceipts ==
    ASSUME TypeOK, Receipts, NEW i \in Installers, Walk(i)
    PROVE  Receipts'
<1>1. \A r : Stems(r) => Stems(r)'
    BY DEF Walk, Stems, Unwritten
<1>2. \A j \in Installers : Live(j)' => Live(j)
    BY DEF Walk, Live
<1>. QED
    <2>1. Stems(receipt)' /\ \A j \in Installers : Stems(seenReceipt[j])'
        BY <1>1 DEF Walk, Receipts, Stems
    <2>2. \A j \in committed' : pc'[j] \notin Unwritten
        BY DEF Walk, Receipts, TypeOK
    <2>. QED
        BY <1>2, <2>1, <2>2 DEF Walk, Receipts

(* An absent receipt names nobody. *)
LEMMA AbsentStems == Stems(Absent) /\ Stems(Absent)'
BY ContentsAssumption DEF Stems, Absent

(* i reads the receipt before it has written one.                          *)
LEMMA PlanKeepsReceipts ==
    ASSUME TypeOK, Receipts, NEW i \in Installers, PlanReceipt(i)
    PROVE  Receipts'
<1>1. PICK r \in {receipt, Absent} : seenReceipt' = [seenReceipt EXCEPT ![i] = r]
    BY DEF PlanReceipt, Readable
<1>2. /\ pc[i] = "idle" /\ pc' = [pc EXCEPT ![i] = "plan"]
      /\ UNCHANGED <<receipt, committed, crashes, outcome>>
    BY DEF PlanReceipt, Goto, diskVars, txVars, countVars
<1>3. \A s : Stems(s) => Stems(s)'
    BY <1>2 DEF TypeOK, Stems, Unwritten
<1>4. Stems(r) /\ Stems(r)'
    BY <1>3, AbsentStems DEF Receipts
<1>5. r.of # i
    BY <1>2, <1>4 DEF Stems, Unwritten
<1>6. i \notin committed
    BY <1>2 DEF Receipts, Unwritten
<1>7. \A j \in Installers : Live(j)' => Live(j) /\ j # i
    BY <1>2, <1>6 DEF TypeOK, Live
<1>8. \A j \in Installers \ {i} : seenReceipt'[j] = seenReceipt[j]
    BY <1>1 DEF TypeOK
<1>9. seenReceipt'[i] = r
    BY <1>1 DEF TypeOK
<1>10. \A j \in Installers : Stems(seenReceipt[j])' /\ seenReceipt'[j].of # j
    BY <1>3, <1>4, <1>5, <1>8, <1>9 DEF Receipts, Stems
<1>11. Stems(receipt)'
    BY <1>2, <1>3 DEF Receipts, Stems
<1>12. \A j \in committed' : pc'[j] \notin Unwritten
    BY <1>2, <1>6 DEF TypeOK, Receipts
<1>. QED
    BY <1>2, <1>7, <1>8, <1>10, <1>11, <1>12 DEF Receipts

(* i writes its receipt over the one it planned on: a receipt nobody has   *)
(* seen, and nobody else whose receipt counts planned on the same.         *)
LEMMA WriteKeepsReceipts ==
    ASSUME TypeOK, Receipts, NEW i \in Installers,
           WriteReceipt(i) \/ WriteReceiptInterrupted(i)
    PROVE  Receipts'
<1>1. /\ pc[i] = "receipt" /\ receipt = seenReceipt[i]
      /\ receipt' = [of |-> i, by |-> i]
      /\ committed' \in {committed, committed \cup {i}}
      /\ UNCHANGED <<seenReceipt, outcome, crashes>>
    BY DEF WriteReceipt, WriteReceiptInterrupted, planVars, txVars, countVars
<1>2. pc' = [pc EXCEPT ![i] = "check"] \/ pc' = [pc EXCEPT ![i] = "undoPublish"]
    BY DEF WriteReceipt, WriteReceiptInterrupted, Goto, Undo
<1>3. /\ pc'[i] \notin Unwritten
      /\ \A j \in Installers \ {i} : pc'[j] = pc[j]
    BY <1>2 DEF TypeOK, Unwritten
<1>4. \A s : Stems(s) => Stems(s)' /\ s.of # i
    BY <1>1, <1>3 DEF Stems, Unwritten
<1>5. Stems(receipt)'
    BY <1>1, <1>3 DEF Stems
<1>6. \A j \in Installers : Live(j)' => j = i \/ Live(j)
    BY <1>1, <1>3 DEF Live
<1>7. \A j \in Installers : seenReceipt[j].of # i
    BY <1>4 DEF Receipts
<1>8. \A j \in Installers : receipt' # seenReceipt[j]
    BY <1>1, <1>7
<1>9. \A j \in committed' : pc'[j] \notin Unwritten
    BY <1>1, <1>3 DEF TypeOK, Receipts
<1>10. \A j \in Installers : Stems(seenReceipt[j])' /\ seenReceipt'[j].of # j
    BY <1>1, <1>4 DEF Receipts, Stems
<1>11. ASSUME crashes' = 0, NEW j \in Installers, NEW k \in Installers, Live(j)', Live(k)',
              seenReceipt'[j] = seenReceipt'[k]
       PROVE  j = k
    BY <1>1, <1>6, <1>11 DEF Receipts
<1>. QED
    BY <1>1, <1>5, <1>8, <1>9, <1>10, <1>11 DEF Receipts

(* i restores the receipt it had replaced: its own receipt counts no more, *)
(* and what it restores is new or absent.                                  *)
LEMMA RestoreKeepsReceipts ==
    ASSUME TypeOK, Receipts, NEW i \in Installers,
           UndoAsideRefused(i) \/ UndoReceipt(i)
    PROVE  Receipts'
<1>1. /\ pc[i] \in {"undoAside", "undoReceipt"}
      /\ UNCHANGED <<seenReceipt, committed, crashes>>
      /\ receipt' = receipt \/ (i \in committed /\ receipt' = RestoredReceipt(i))
    <2>1. CASE UndoAsideRefused(i)
        BY <2>1 DEF UndoAsideRefused, Wrote, planVars, txVars, countVars
    <2>2. CASE UndoReceipt(i)
        BY <2>2 DEF UndoReceipt, Wrote, planVars, txVars, countVars
    <2>. QED
        BY <2>1, <2>2
<1>2. /\ \/ pc'[i] = "undoClean"
         \/ pc'[i] = "done" /\ outcome'[i] \in {"stranded", "swallowed"}
      /\ \A j \in Installers \ {i} : pc'[j] = pc[j] /\ outcome'[j] = outcome[j]
    BY DEF UndoAsideRefused, UndoReceipt, Stranded, Finish, Goto, TypeOK
<1>3. \A s : Stems(s) => Stems(s)'
    BY <1>2 DEF Stems, Unwritten
<1>4. \A j \in Installers : Live(j)' => Live(j) /\ j # i
    BY <1>1, <1>2 DEF Live
<1>5. CASE receipt' = receipt
    <2>1. Stems(receipt)' /\ \A j \in Installers : Stems(seenReceipt[j])'
        BY <1>1, <1>3, <1>5 DEF Receipts, Stems
    <2>2. \A j \in committed' : pc'[j] \notin Unwritten
        BY <1>1, <1>2 DEF Receipts, TypeOK, Unwritten
    <2>. QED
        BY <1>1, <1>4, <1>5, <2>1, <2>2 DEF Receipts
<1>6. CASE i \in committed /\ receipt' = RestoredReceipt(i)
    <2>1. Stems(seenReceipt[i])' /\ seenReceipt[i].of # i
        BY <1>1, <1>3 DEF Receipts, Stems
    <2>2. receipt' = Absent \/ receipt' = [of |-> seenReceipt[i].of, by |-> i]
        BY <1>6 DEF RestoredReceipt
    <2>3. Stems(receipt)'
        <3>1. CASE receipt' = Absent
            BY <3>1, AbsentStems DEF Stems
        <3>2. CASE receipt' = [of |-> seenReceipt[i].of, by |-> i]
            BY <1>1, <1>2, <2>1, <3>2 DEF Stems, Unwritten
        <3>. QED
            BY <2>2, <3>1, <3>2
    <2>4. Live(i)
        BY <1>1, <1>6 DEF Live
    <2>5. ASSUME crashes' = 0, NEW j \in Installers, Live(j)'
          PROVE  receipt' # seenReceipt[j]
        <3>1. Live(j) /\ j # i /\ seenReceipt[j] # seenReceipt[i]
            BY <1>1, <1>4, <2>4, <2>5 DEF Receipts
        <3>2. Stems(seenReceipt[j])
            BY DEF Receipts
        <3>3. CASE receipt' = Absent
            BY <1>6, <3>1, <3>3, ContentsAssumption DEF RestoredReceipt, Absent
        <3>4. CASE receipt' = [of |-> seenReceipt[i].of, by |-> i]
            BY <1>1, <2>1, <3>2, <3>4 DEF Stems
        <3>. QED
            BY <2>2, <3>3, <3>4
    <2>6. \A j \in committed' : pc'[j] \notin Unwritten
        BY <1>1, <1>2 DEF Receipts, TypeOK, Unwritten
    <2>7. \A j \in Installers : Stems(seenReceipt[j])' /\ seenReceipt'[j].of # j
        BY <1>1, <1>3 DEF Receipts, Stems
    <2>. QED
        BY <1>1, <1>4, <2>3, <2>5, <2>6, <2>7 DEF Receipts
<1>. QED
    BY <1>1, <1>5, <1>6

(* A killed installer leaves the receipt, or none.                         *)
LEMMA CrashKeepsReceipts ==
    ASSUME TypeOK, Receipts, NEW i \in Installers, Crash(i)
    PROVE  Receipts'
<1>1. /\ receipt' \in {receipt, Absent}
      /\ crashes' # 0
      /\ UNCHANGED <<seenReceipt, committed>>
      /\ pc'[i] = "dead" /\ \A j \in Installers \ {i} : pc'[j] = pc[j]
    BY DEF Crash, Goto, TypeOK, planVars, txVars
<1>2. \A s : Stems(s) => Stems(s)'
    BY <1>1 DEF Stems, Unwritten
<1>3. Stems(receipt)'
    BY <1>1, <1>2, AbsentStems DEF Receipts, Stems
<1>4. \A j \in Installers : Stems(seenReceipt[j])' /\ seenReceipt'[j].of # j
    BY <1>1, <1>2 DEF Receipts, Stems
<1>5. \A j \in committed' : pc'[j] \notin Unwritten
    BY <1>1 DEF Receipts, TypeOK, Unwritten
<1>. QED
    BY <1>1, <1>3, <1>4, <1>5 DEF Receipts

(* Every step keeps the receipts apart.                                    *)
LEMMA StepReceipts ==
    ASSUME TypeOK, Receipts, [Next]_vars
    PROVE  Receipts'
<1>1. CASE Next
    <2>1. PICK i \in Installers :
              Forward(i) \/ Interrupted(i) \/ Commit(i) \/ Rollback(i) \/ Crash(i)
        BY <1>1 DEF Next
    <2>. QED
        BY <2>1, Walks, WalkKeepsReceipts, PlanKeepsReceipts, WriteKeepsReceipts,
           RestoreKeepsReceipts, CrashKeepsReceipts
<1>2. CASE UNCHANGED vars
    BY <1>2 DEF Receipts, Stems, Live, vars, diskVars, planVars, txVars, countVars
<1>. QED
    BY <1>1, <1>2

(* No receipt names an installer before it starts. *)
LEMMA InitReceipts == Init => Receipts
BY ContentsAssumption DEF Init, Receipts, Stems, Live, Absent, Original, Unwritten

(* Of the installers that planned on the same receipt one succeeds at      *)
(* most, however many run and whatever fails, unless one is killed.        *)
THEOREM OneWinnerHolds == Spec => []OneWinner
<1>1. Init => TypeOK /\ Receipts
    BY InitReceipts, InitTypes
<1>2. TypeOK /\ Receipts /\ [Next]_vars => (TypeOK /\ Receipts)'
    BY StepTypes, StepReceipts
<1>3. TypeOK /\ Receipts => OneWinner
    BY DEF Receipts, OneWinner, Acknowledged, Live
<1>. QED
    BY <1>1, <1>2, <1>3, PTL DEF Spec

-----------------------------------------------------------------------------
(* What a step does to the trees. *)

(* A step of i touches nothing of another installer. *)
Frame(i) ==
    /\ \A j \in Installers \ {i} :
          /\ pc'[j] = pc[j] /\ stage'[j] = stage[j] /\ backup'[j] = backup[j]
          /\ failed'[j] = failed[j] /\ recovery'[j] = recovery[j]
          /\ previous'[j] = previous[j] /\ state'[j] = state[j]
          /\ (j \in moved') = (j \in moved)
    /\ closed \subseteq closed'
    /\ interrupts' = 0 => interrupts = 0

(* i goes on or back and no tree moves.                                    *)
Pace(i) ==
    /\ UNCHANGED <<target, stage, backup, failed, recovery, moved, closed, previous>>
    /\ pc'[i] # pc[i]
    /\ pc'[i] \notin {"idle", "aside", "cleanRecovery"}
    /\ pc'[i] \in Unstaged => pc[i] \in Unstaged
    /\ pc'[i] \in {"publish", "receipt", "check", "verify", "commit"} =>
          pc[i] \in {"aside", "receipt", "check", "verify"}
    /\ pc'[i] = "publish" => pc[i] = "aside"
    /\ pc'[i] = "clean" => pc[i] = "commit" /\ i \notin moved
    /\ pc'[i] \in {"undoPublish", "undoAside"} => pc[i] \in {"verify", "commit", "undoPublish"}
    /\ pc'[i] \in {"undoReceipt", "undoClean"} => pc[i] = "undoReceipt" \/ i \notin moved

(* i removes its stage and starts to roll back.                            *)
Withdraw(i) ==
    /\ pc[i] \in {"aside", "publish", "receipt", "check"} /\ pc'[i] = "undoPublish"
    /\ stage'[i] = Absent
    /\ UNCHANGED <<target, backup, failed, recovery, moved, closed, previous>>

(* i removes what it keeps for itself and reports a failure.               *)
Discard(i) ==
    /\ pc[i] \in {"undoAside", "undoReceipt", "undoClean"} /\ pc'[i] = "done"
    /\ UNCHANGED <<target, stage, moved, closed, previous>>
    /\ failed'[i] = Absent
    /\ backup'[i] \in {backup[i], Absent} /\ recovery'[i] \in {recovery[i], Absent}
    /\ pc[i] = "undoAside" => backup'[i] = backup[i] /\ recovery'[i] = recovery[i]

(* The steps that move, copy or remove a tree. *)
Carries(i) ==
    \/ Stage(i) \/ MoveAside(i) \/ MoveAsideInterrupted(i) \/ Publish(i) \/ PublishInterrupted(i)
    \/ CopyRecovery(i) \/ CleanBackup(i) \/ CleanBackupFails(i) \/ CleanRecovery(i)
    \/ UndoPublish(i) \/ UndoAside(i)

(* Every step leaves the others' trees alone.                              *)
LEMMA Frames ==
    ASSUME TypeOK, NEW i \in Installers,
           Forward(i) \/ Interrupted(i) \/ Commit(i) \/ Rollback(i) \/ Crash(i)
    PROVE  Frame(i)
<1>. USE DEF TypeOK, Frame, Goto, Finish, Fault, Undo, diskVars, planVars, txVars, countVars
<1>1. CASE Forward(i)
    <2>1. CASE PlanReceipt(i) \/ PlanTarget(i) \/ Begin(i) \/ Refuse(i) \/ RefuseByFault(i)
        BY <2>1 DEF PlanReceipt, PlanTarget, Begin, Refuse, RefuseByFault
    <2>2. CASE Stage(i) \/ MoveAside(i) \/ NothingToMove(i) \/ MoveAsideRefused(i)
        BY <2>2 DEF Stage, MoveAside, NothingToMove, MoveAsideRefused
    <2>3. CASE Publish(i) \/ PublishRefused(i) \/ WriteReceipt(i) \/ WriteReceiptRefused(i)
        BY <2>3 DEF Publish, PublishRefused, WriteReceipt, WriteReceiptRefused
    <2>4. CASE Check(i) \/ CheckRefused(i) \/ BeginFails(i)
        BY <2>4 DEF Check, CheckRefused, BeginFails
    <2>5. CASE VerifyUsable(i) \/ VerifyNotReady(i) \/ VerifyFails(i)
        BY <2>5 DEF VerifyUsable, VerifyNotReady, VerifyFails
    <2>. QED
        BY <1>1, <2>1, <2>2, <2>3, <2>4, <2>5 DEF Forward
<1>2. CASE Interrupted(i)
    BY <1>2 DEF Interrupted, MoveAsideInterrupted, PublishInterrupted, WriteReceiptInterrupted
<1>3. CASE Commit(i)
    <2>1. CASE CommitRefused(i) \/ CopyRecovery(i) \/ CopyRecoveryFails(i)
        BY <2>1 DEF CommitRefused, CopyRecovery, CopyRecoveryFails
    <2>2. CASE CleanBackup(i) \/ CleanBackupFails(i)
        BY <2>2 DEF CleanBackup, CleanBackupFails
    <2>3. CASE CleanRecovery(i) \/ CleanRecoveryFails(i)
        BY <2>3 DEF CleanRecovery, CleanRecoveryFails, Committed
    <2>. QED
        BY <1>3, <2>1, <2>2, <2>3 DEF Commit
<1>4. CASE Rollback(i)
    <2>1. CASE UndoPublish(i) \/ UndoPublishRefused(i) \/ NothingToRestore(i)
        BY <2>1 DEF UndoPublish, UndoPublishRefused, NothingToRestore, Stranded
    <2>2. CASE UndoAside(i) \/ UndoAsideRefused(i)
        BY <2>2 DEF UndoAside, UndoAsideRefused, Stranded
    <2>3. CASE UndoReceipt(i) \/ UndoReceiptRefused(i) \/ UndoClean(i) \/ UndoFails(i)
        BY <2>3 DEF UndoReceipt, UndoReceiptRefused, UndoClean, UndoFails, RolledBack, Stranded
    <2>. QED
        BY <1>4, <2>1, <2>2, <2>3 DEF Rollback
<1>5. CASE Crash(i)
    BY <1>5 DEF Crash
<1>. QED
    BY <1>1, <1>2, <1>3, <1>4, <1>5

(* Every step is of one of the four kinds.                                 *)
LEMMA Effects ==
    ASSUME TypeOK, NEW i \in Installers,
           Forward(i) \/ Interrupted(i) \/ Commit(i) \/ Rollback(i) \/ Crash(i)
    PROVE  Pace(i) \/ Withdraw(i) \/ Discard(i) \/ Carries(i)
<1>. USE DEF TypeOK, Pace, Withdraw, Unstaged, Goto, Finish, Fault, Undo, diskVars, planVars,
             txVars, countVars
<1>1. CASE Forward(i)
    <2>1. CASE PlanReceipt(i) \/ PlanTarget(i) \/ Begin(i) \/ Refuse(i) \/ RefuseByFault(i)
        BY <2>1 DEF PlanReceipt, PlanTarget, Begin, Refuse, RefuseByFault
    <2>2. CASE Stage(i) \/ MoveAside(i) \/ Publish(i)
        BY <2>2 DEF Carries
    <2>3. CASE NothingToMove(i) \/ MoveAsideRefused(i) \/ PublishRefused(i)
        BY <2>3 DEF NothingToMove, MoveAsideRefused, PublishRefused
    <2>4. CASE WriteReceipt(i) \/ WriteReceiptRefused(i)
        BY <2>4 DEF WriteReceipt, WriteReceiptRefused
    <2>5. CASE Check(i) \/ CheckRefused(i) \/ BeginFails(i)
        BY <2>5 DEF Check, CheckRefused, BeginFails
    <2>6. CASE VerifyUsable(i) \/ VerifyNotReady(i) \/ VerifyFails(i)
        BY <2>6 DEF VerifyUsable, VerifyNotReady, VerifyFails
    <2>. QED
        BY <1>1, <2>1, <2>2, <2>3, <2>4, <2>5, <2>6 DEF Forward
<1>2. CASE Interrupted(i)
    BY <1>2 DEF Interrupted, Carries, WriteReceiptInterrupted
<1>3. CASE Commit(i)
    <2>1. CASE CommitRefused(i) \/ CopyRecoveryFails(i)
        BY <2>1 DEF CommitRefused, CopyRecoveryFails
    <2>2. CASE CleanRecoveryFails(i)
        BY <2>2 DEF CleanRecoveryFails, Committed
    <2>. QED
        BY <1>3, <2>1, <2>2 DEF Commit, Carries
<1>4. CASE Rollback(i)
    <2>1. CASE UndoPublishRefused(i) \/ NothingToRestore(i) \/ UndoReceipt(i) \/ UndoFails(i)
        BY <2>1 DEF UndoPublishRefused, NothingToRestore, UndoReceipt, UndoFails, Stranded
    <2>2. CASE UndoAsideRefused(i)
        <3>1. CASE UNCHANGED failed
            BY <2>2, <3>1 DEF UndoAsideRefused, Stranded
        <3>2. CASE failed' = [failed EXCEPT ![i] = Absent]
            BY <2>2, <3>2 DEF UndoAsideRefused, Stranded, Discard
        <3>. QED
            BY <2>2, <3>1, <3>2 DEF UndoAsideRefused
    <2>3. CASE UndoReceiptRefused(i) \/ UndoClean(i)
        BY <2>3 DEF UndoReceiptRefused, UndoClean, RolledBack, Stranded, Discard
    <2>. QED
        BY <1>4, <2>1, <2>2, <2>3 DEF Rollback, Carries
<1>5. CASE Crash(i)
    BY <1>5 DEF Crash
<1>. QED
    BY <1>1, <1>2, <1>3, <1>4, <1>5

-----------------------------------------------------------------------------
(* The private trees. *)

(* Where a tree no receipt vouches for stands, no installer moves it.      *)
LEMMA MovesNoBroken ==
    ASSUME BrokenStays, NEW i \in Installers,
           pc[i] \in {"stage", "aside", "publish", "undoAside"}
    PROVE  target.of # Broken
BY DEF BrokenStays

(* A backup that lost some of its files is not restored: either nothing is *)
(* restored then, or the copy made from it.                                *)
LEMMA RestoresWhole ==
    ASSUME TypeOK, Privates, NEW i \in Installers, UndoAside(i)
    PROVE  /\ target'.of # Broken
           /\ \/ /\ target' = recovery[i] /\ backup' = backup
                 /\ recovery' = [recovery EXCEPT ![i] = Absent]
              \/ /\ target' = backup[i] /\ recovery' = recovery
                 /\ backup' = [backup EXCEPT ![i] = Absent]
                 /\ recovery[i].of = backup[i].of => recovery[i] = Absent
<1>1. CASE Restorable(i, recovery[i]) /\ target' = recovery[i] /\ UNCHANGED backup
           /\ recovery' = [recovery EXCEPT ![i] = Absent]
    BY <1>1 DEF Restorable, Privates, Private
<1>2. CASE ~Restorable(i, recovery[i]) /\ Restorable(i, backup[i]) /\ target' = backup[i]
           /\ UNCHANGED recovery /\ backup' = [backup EXCEPT ![i] = Absent]
    <2>1. recovery[i].of = backup[i].of => recovery[i] = Absent
        BY <1>2 DEF Restorable
    <2>2. pc[i] = "undoAside"
        BY DEF UndoAside
    <2>3. ASSUME backup[i].of = Broken PROVE FALSE
        <3>1. recovery[i] # Absent
            BY <2>2, <2>3 DEF Privates, Private
        <3>2. previous[i] # Nothing
            BY <1>2, <3>1 DEF Restorable
        <3>3. previous[i] = Broken
            BY <1>2, <2>3, <3>2 DEF Restorable
        <3>. QED
            BY <3>3 DEF Privates, Private
    <2>. QED
        BY <1>2, <2>1, <2>3
<1>. QED
    BY <1>1, <1>2 DEF UndoAside

(* What i keeps, at its next point. *)
LEMMA OwnPrivates ==
    ASSUME TypeOK, Privates, BrokenStays, NEW i \in Installers, Frame(i),
           Pace(i) \/ Withdraw(i) \/ Discard(i) \/ Carries(i)
    PROVE  Private(i)'
<1>1. Private(i)
    BY DEF Privates
<1>2. Absent.of = Nothing /\ Absent.by = NoOne
    BY DEF Absent
<1>. USE <1>1, <1>2, ContentsAssumption DEF Private, Unstaged
<1>3. CASE Pace(i)
    BY <1>3 DEF Pace, Frame
<1>4. CASE Withdraw(i)
    BY <1>4 DEF Withdraw, Frame
<1>5. CASE Discard(i)
    BY <1>5 DEF Discard, Frame
<1>. USE DEF TypeOK, Goto, Undo, planVars, txVars, countVars
<1>6. CASE Stage(i)
    BY <1>6, MovesNoBroken DEF Stage, diskVars
<1>7. CASE MoveAside(i) \/ MoveAsideInterrupted(i)
    BY <1>7, MovesNoBroken DEF MoveAside, MoveAsideInterrupted
<1>8. CASE Publish(i) \/ PublishInterrupted(i)
    BY <1>8 DEF Publish, PublishInterrupted
<1>9. CASE CopyRecovery(i)
    BY <1>9 DEF CopyRecovery
<1>10. CASE CleanBackup(i) \/ CleanRecovery(i)
    BY <1>10 DEF CleanBackup, CleanRecovery, Committed, Finish
<1>11. CASE CleanBackupFails(i)
    BY <1>11 DEF CleanBackupFails, Fault
<1>12. CASE UndoPublish(i)
    BY <1>12 DEF UndoPublish
<1>13. CASE UndoAside(i)
    BY <1>13, RestoresWhole DEF UndoAside
<1>. QED
    BY <1>3, <1>4, <1>5, <1>6, <1>7, <1>8, <1>9, <1>10, <1>11, <1>12, <1>13 DEF Carries

(* A step of i leaves what the others keep as it was.                      *)
LEMMA PrivatesStep ==
    ASSUME TypeOK, Privates, BrokenStays, NEW i \in Installers, Frame(i),
           Pace(i) \/ Withdraw(i) \/ Discard(i) \/ Carries(i)
    PROVE  Privates'
<1>1. Private(i)'
    BY OwnPrivates
<1>2. ASSUME NEW j \in Installers \ {i}
      PROVE  Private(j)'
    <2>1. Private(j)
        BY DEF Privates
    <2>2. /\ pc'[j] = pc[j] /\ stage'[j] = stage[j] /\ backup'[j] = backup[j]
          /\ recovery'[j] = recovery[j] /\ previous'[j] = previous[j]
          /\ (j \in moved') = (j \in moved)
          /\ j \in closed => j \in closed'
          /\ interrupts' = 0 => interrupts = 0
        BY DEF Frame
    <2>. QED
        BY <2>1, <2>2 DEF Private
<1>. QED
    BY <1>1, <1>2 DEF Privates

(* An installer at its first points plans, begins or refuses. *)
LEMMA FirstSteps ==
    ASSUME NEW i \in Installers,
           Forward(i) \/ Interrupted(i) \/ Commit(i) \/ Rollback(i) \/ Crash(i),
           pc[i] \in {"idle", "plan", "begin", "done", "dead"}
    PROVE  \/ PlanReceipt(i) \/ PlanTarget(i) \/ Begin(i) \/ Refuse(i) \/ RefuseByFault(i)
           \/ Crash(i)
<1>1. CASE Forward(i)
    BY <1>1 DEF Forward, Stage, MoveAside, NothingToMove, MoveAsideRefused, Publish,
                PublishRefused, WriteReceipt, WriteReceiptRefused, Check, CheckRefused,
                BeginFails, VerifyUsable, VerifyNotReady, VerifyFails
<1>2. CASE Interrupted(i)
    BY <1>2 DEF Interrupted, MoveAsideInterrupted, PublishInterrupted, WriteReceiptInterrupted
<1>3. CASE Commit(i)
    BY <1>3 DEF Commit, CommitRefused, CopyRecovery, CopyRecoveryFails, CleanBackup,
                CleanBackupFails, CleanRecovery, CleanRecoveryFails
<1>4. CASE Rollback(i)
    BY <1>4 DEF Rollback, UndoPublish, UndoPublishRefused, UndoAside, NothingToRestore,
                UndoAsideRefused, UndoReceipt, UndoReceiptRefused, UndoClean, UndoFails
<1>. QED
    BY <1>1, <1>2, <1>3, <1>4

(* No step makes or moves a tree that no receipt vouches for.              *)
LEMMA BrokenStep ==
    ASSUME TypeOK, Receipts, Privates, BrokenStays, NEW i \in Installers, Frame(i),
           Forward(i) \/ Interrupted(i) \/ Commit(i) \/ Rollback(i) \/ Crash(i)
    PROVE  BrokenStays'
<1>. USE ContentsAssumption
<1>1. Absent.of # Broken
    BY DEF Absent
<1>2. receipt'.of # Broken /\ \A j \in Installers : seenReceipt'[j].of # Broken
    <2>1. receipt.of # Broken /\ \A j \in Installers : seenReceipt[j].of # Broken
        BY DEF BrokenStays
    <2>2. CASE Walk(i)
        BY <2>1, <2>2 DEF Walk
    <2>3. CASE PlanReceipt(i)
        <3>1. PICK r \in {receipt, Absent} : seenReceipt' = [seenReceipt EXCEPT ![i] = r]
            BY <2>3 DEF PlanReceipt, Readable
        <3>. QED
            BY <1>1, <2>1, <2>3, <3>1 DEF PlanReceipt, TypeOK, diskVars
    <2>4. CASE WriteReceipt(i) \/ WriteReceiptInterrupted(i)
        BY <2>1, <2>4 DEF WriteReceipt, WriteReceiptInterrupted, planVars
    <2>5. CASE UndoReceipt(i)
        BY <1>1, <2>1, <2>5 DEF UndoReceipt, RestoredReceipt, planVars
    <2>6. CASE UndoAsideRefused(i)
        <3>1. UNCHANGED seenReceipt
            BY <2>6 DEF UndoAsideRefused, planVars
        <3>2. receipt' \in {receipt, RestoredReceipt(i)}
            BY <2>6 DEF UndoAsideRefused
        <3>. QED
            BY <1>1, <2>1, <3>1, <3>2 DEF RestoredReceipt
    <2>7. CASE Crash(i)
        BY <1>1, <2>1, <2>7 DEF Crash, planVars
    <2>. QED
        BY <2>2, <2>3, <2>4, <2>5, <2>6, <2>7, Walks
<1>3. ASSUME target'.of = Broken
      PROVE  target' = target
    <2>1. CASE Pace(i) \/ Withdraw(i) \/ Discard(i)
        BY <2>1 DEF Pace, Withdraw, Discard
    <2>2. CASE Stage(i) \/ CopyRecovery(i) \/ CleanBackup(i) \/ CleanBackupFails(i) \/ CleanRecovery(i)
        BY <2>2 DEF Stage, CopyRecovery, CleanBackup, CleanBackupFails, CleanRecovery
    <2>3. CASE MoveAside(i) \/ MoveAsideInterrupted(i) \/ UndoPublish(i)
        BY <1>1, <1>3, <2>3 DEF MoveAside, MoveAsideInterrupted, UndoPublish
    <2>4. CASE Publish(i) \/ PublishInterrupted(i)
        <3>1. pc[i] = "publish" /\ target' = stage[i]
            BY <2>4 DEF Publish, PublishInterrupted
        <3>2. target' = Original(i)
            BY <3>1 DEF Privates, Private
        <3>. QED
            BY <1>3, <3>2 DEF Original
    <2>5. CASE UndoAside(i)
        BY <1>3, <2>5, RestoresWhole
    <2>. QED
        BY <2>1, <2>2, <2>3, <2>4, <2>5, Effects DEF Carries
<1>4. ASSUME target'.of = Broken, NEW j \in Installers
      PROVE  \/ pc'[j] \in {"idle", "plan", "done", "dead"}
             \/ pc'[j] = "begin" /\ state'[j] \in {"partial", "repair"}
    <2>1. target.of = Broken
        BY <1>3, <1>4
    <2>2. \/ pc[j] \in {"idle", "plan", "done", "dead"}
          \/ pc[j] = "begin" /\ state[j] \in {"partial", "repair"}
        BY <2>1 DEF BrokenStays
    <2>3. CASE j # i
        BY <2>2, <2>3 DEF Frame
    <2>4. CASE j = i
        <3>. USE DEF TypeOK, Goto, Finish, diskVars, planVars
        <3>1. CASE PlanReceipt(i)
            BY <2>4, <3>1 DEF PlanReceipt
        <3>2. CASE PlanTarget(i)
            <4>1. PICK r \in {receipt, Absent} : state' = [state EXCEPT ![i] = Classified(r)]
                BY <3>2 DEF PlanTarget, Readable
            <4>2. Classified(r) \in {"partial", "repair"}
                BY <1>1, <2>1 DEF Classified, BrokenStays
            <4>. QED
                BY <2>4, <3>2, <4>1, <4>2 DEF PlanTarget
        <3>3. CASE Begin(i)
            BY <2>2, <2>4, <3>3 DEF Begin
        <3>4. CASE Refuse(i) \/ RefuseByFault(i) \/ Crash(i)
            BY <2>2, <2>4, <3>4 DEF Refuse, RefuseByFault, Crash
        <3>. QED
            BY <2>2, <2>4, <3>1, <3>2, <3>3, <3>4, FirstSteps
    <2>. QED
        BY <2>3, <2>4
<1>. QED
    BY <1>2, <1>4 DEF BrokenStays

-----------------------------------------------------------------------------
(* Where what an installer installs may be. *)

(* i goes on or back: no tree moves, and it keeps a backup already.        *)
LEMMA PaceLineage ==
    ASSUME TypeOK, Privates, Lineage, NEW i \in Installers, Frame(i), Pace(i)
    PROVE  Lineage'
<1>1. \A j \in Installers :
          /\ pc'[j] \in Unstaged => pc[j] \in Unstaged
          /\ pc'[j] \in Keeping => pc[j] \in Keeping \/ backup[j] = Absent
    BY DEF Frame, Pace, Keeping, Privates, Private
<1>2. \A c \in Installers : Absent # Original(c)
    BY ContentsAssumption DEF Absent, Original
<1>. QED
    BY <1>1, <1>2 DEF Pace, Lineage, InPrivate

(* i removes its stage or what it keeps for itself. *)
LEMMA RemovalLineage ==
    ASSUME TypeOK, Privates, Lineage, NEW i \in Installers, Frame(i),
           Withdraw(i) \/ Discard(i) \/ CleanBackup(i) \/ CleanBackupFails(i) \/ CleanRecovery(i)
    PROVE  Lineage'
<1>. USE ContentsAssumption
<1>1. Absent.of = Nothing /\ \A c \in Installers : Absent # Original(c)
    BY DEF Absent, Original
<1>2. /\ target' = target
      /\ stage'[i] \in {stage[i], Absent} /\ failed'[i] \in {failed[i], Absent}
      /\ \/ backup'[i] \in {backup[i], Absent}
         \/ backup'[i].of = Broken
      /\ recovery'[i] \in {recovery[i], Absent}
      /\ pc'[i] \notin Unstaged
      /\ pc'[i] \in Keeping =>
            /\ \/ pc[i] \in Keeping
               \/ backup'[i] = Absent
            /\ recovery'[i] = recovery[i]
    <2>1. CASE Withdraw(i)
        BY <2>1 DEF Withdraw, Unstaged, Keeping, Privates, Private
    <2>2. CASE Discard(i)
        BY <2>2 DEF Discard, Unstaged, Keeping
    <2>3. CASE CleanBackup(i) \/ CleanBackupFails(i)
        BY <2>3 DEF CleanBackup, CleanBackupFails, Goto, TypeOK, Unstaged, Keeping
    <2>4. CASE CleanRecovery(i)
        BY <2>4 DEF CleanRecovery, Committed, Finish, Goto, TypeOK, Unstaged, Keeping
    <2>. QED
        BY <2>1, <2>2, <2>3, <2>4
<1>3. \A j, c \in Installers : InPrivate(j, c)' => InPrivate(j, c)
    BY <1>1, <1>2 DEF Frame, InPrivate
<1>4. \A c \in Installers :
          /\ pc'[c] \in Unstaged => pc[c] \in Unstaged
          /\ stage'[c].of = c => stage[c].of = c
          /\ pc'[c] \in Unstaged => stage'[c] = stage[c]
          /\ failed'[c].of = c => failed[c].of = c
    BY <1>1, <1>2 DEF Frame
<1>5. ASSUME NEW j \in Installers, NEW c \in Installers,
             pc'[j] \in Keeping, backup'[j] = Original(c), recovery'[j].of # c
      PROVE  pc[j] \in Keeping /\ backup[j] = Original(c) /\ recovery[j].of # c
    <2>1. Original(c).of # Broken
        BY DEF Original
    <2>. QED
        BY <1>1, <1>2, <1>5, <2>1 DEF Frame
<1>. QED
    BY <1>2, <1>3, <1>4, <1>5 DEF Lineage

(* i copies its plug-in: what was copied is nowhere yet.                   *)
LEMMA StageLineage ==
    ASSUME TypeOK, Privates, Lineage, NEW i \in Installers, Frame(i), Stage(i)
    PROVE  Lineage'
<1>1. /\ pc[i] = "stage" /\ pc'[i] = "aside" /\ stage'[i] = Original(i)
      /\ UNCHANGED <<target, backup, failed, recovery>>
    BY DEF Stage, Goto, TypeOK
<1>2. \A j \in Installers :
          /\ pc'[j] \in Unstaged => pc[j] \in Unstaged /\ stage'[j] = stage[j]
          /\ pc'[j] \in Keeping => pc[j] \in Keeping
          /\ stage'[j].of = j => stage[j].of = j \/ pc[j] \in Unstaged
    BY <1>1 DEF Frame, Unstaged, Keeping
<1>. QED
    BY <1>1, <1>2 DEF Lineage, InPrivate

(* i moves the target aside.                                               *)
LEMMA AsideLineage ==
    ASSUME TypeOK, Privates, Lineage, NEW i \in Installers, Frame(i),
           MoveAside(i) \/ MoveAsideInterrupted(i)
    PROVE  Lineage'
<1>. USE ContentsAssumption
<1>1. Absent.of = Nothing /\ \A c \in Installers : Absent # Original(c) /\ Original(c).of = c
    BY DEF Absent, Original
<1>2. /\ pc[i] = "aside" /\ pc'[i] \in {"publish", "undoPublish"}
      /\ backup'[i] = target /\ target' = Absent
      /\ stage'[i] \in {stage[i], Absent}
      /\ UNCHANGED <<failed, recovery>>
    BY DEF MoveAside, MoveAsideInterrupted, Goto, Undo, TypeOK
<1>3. /\ backup[i] = Absent /\ recovery[i] = Absent /\ stage[i] = Original(i)
    BY <1>2 DEF Privates, Private
<1>4. target.of # i
    BY <1>1, <1>3 DEF Lineage
<1>5. \A j, c \in Installers : InPrivate(j, c)' => InPrivate(j, c) \/ (j = i /\ target.of = c)
    BY <1>1, <1>2, <1>3 DEF Frame, InPrivate
<1>6. \A c \in Installers :
          /\ pc'[c] \in Unstaged => pc[c] \in Unstaged /\ stage'[c] = stage[c]
          /\ stage'[c].of = c => stage[c].of = c
    BY <1>1, <1>2 DEF Frame, Unstaged
<1>7. \A c \in Installers :
          /\ pc'[c] \in Unstaged => stage'[c].of # c
          /\ pc'[c] \in Unstaged \/ stage'[c].of = c =>
                target'.of # c /\ failed'[c].of # c /\ \A j \in Installers : ~InPrivate(j, c)'
    BY <1>1, <1>2, <1>5, <1>6 DEF Lineage
<1>8. \A c \in Installers :
          /\ failed'[c].of = c => target'.of # c /\ \A j \in Installers : ~InPrivate(j, c)'
          /\ target' = Original(c) => \A j \in Installers : ~InPrivate(j, c)'
          /\ ~InPrivate(c, c)'
    BY <1>1, <1>2, <1>4, <1>5 DEF Lineage
<1>9. ASSUME NEW c \in Installers, NEW j \in Installers,
             pc'[j] \in Keeping, backup'[j] = Original(c), recovery'[j].of # c
      PROVE  target'.of # c /\ \A k \in Installers \ {j} : ~InPrivate(k, c)'
    <2>1. CASE j = i
        BY <1>1, <1>2, <1>5, <1>9, <2>1 DEF Lineage
    <2>2. CASE j # i
        <3>1. pc[j] \in Keeping /\ backup[j] = Original(c) /\ recovery[j].of # c
            BY <1>9, <2>2 DEF Frame
        <3>2. target.of # c /\ \A k \in Installers \ {j} : ~InPrivate(k, c)
            BY <3>1 DEF Lineage
        <3>. QED
            BY <1>1, <1>2, <1>5, <3>2
    <2>. QED
        BY <2>1, <2>2
<1>. QED
    BY <1>7, <1>8, <1>9 DEF Lineage

(* i publishes its stage. *)
LEMMA PublishLineage ==
    ASSUME TypeOK, Privates, Lineage, NEW i \in Installers, Frame(i),
           Publish(i) \/ PublishInterrupted(i)
    PROVE  Lineage'
<1>. USE ContentsAssumption
<1>1. Absent.of = Nothing /\ \A c \in Installers : Original(c).of = c
    BY DEF Absent, Original
<1>2. /\ pc[i] = "publish" /\ pc'[i] \in {"receipt", "undoPublish"}
      /\ target' = stage[i] /\ stage'[i] = Absent
      /\ UNCHANGED <<backup, failed, recovery>>
    BY DEF Publish, PublishInterrupted, Goto, Undo, TypeOK
<1>3. stage[i] = Original(i)
    BY <1>2 DEF Privates, Private
<1>4. failed[i].of # i /\ \A j \in Installers : ~InPrivate(j, i)
    BY <1>1, <1>3 DEF Lineage
<1>5. \A j, c \in Installers : InPrivate(j, c)' = InPrivate(j, c)
    BY <1>2 DEF InPrivate
<1>6. \A c \in Installers :
          /\ pc'[c] \in Unstaged => pc[c] \in Unstaged /\ stage'[c] = stage[c] /\ c # i
          /\ stage'[c].of = c => stage[c].of = c /\ c # i
          /\ pc'[c] \in Keeping => pc[c] \in Keeping
    BY <1>1, <1>2 DEF Frame, Unstaged, Keeping
<1>7. \A c \in Installers :
          /\ pc'[c] \in Unstaged => stage'[c].of # c
          /\ pc'[c] \in Unstaged \/ stage'[c].of = c =>
                target'.of # c /\ failed'[c].of # c /\ \A j \in Installers : ~InPrivate(j, c)'
    BY <1>1, <1>2, <1>3, <1>5, <1>6 DEF Lineage
<1>8. \A c \in Installers :
          /\ failed'[c].of = c => target'.of # c /\ \A j \in Installers : ~InPrivate(j, c)'
          /\ target' = Original(c) => \A j \in Installers : ~InPrivate(j, c)'
          /\ ~InPrivate(c, c)'
    BY <1>1, <1>2, <1>3, <1>4, <1>5 DEF Lineage
<1>9. ASSUME NEW c \in Installers, NEW j \in Installers,
             pc'[j] \in Keeping, backup'[j] = Original(c), recovery'[j].of # c
      PROVE  target'.of # c /\ \A k \in Installers \ {j} : ~InPrivate(k, c)'
    <2>1. pc[j] \in Keeping /\ backup[j] = Original(c) /\ recovery[j].of # c
        BY <1>2, <1>6, <1>9
    <2>2. \A k \in Installers \ {j} : ~InPrivate(k, c)
        BY <2>1 DEF Lineage
    <2>3. InPrivate(j, c)
        BY <1>1, <2>1 DEF InPrivate
    <2>. QED
        BY <1>1, <1>2, <1>3, <1>4, <1>5, <2>2, <2>3
<1>. QED
    BY <1>7, <1>8, <1>9 DEF Lineage

(* i copies its backup: the content is where it was, and the copy is i's.  *)
LEMMA CopyLineage ==
    ASSUME TypeOK, Privates, Lineage, NEW i \in Installers, Frame(i), CopyRecovery(i)
    PROVE  Lineage'
<1>. USE ContentsAssumption
<1>1. Absent.of = Nothing
    BY DEF Absent
<1>2. /\ pc[i] = "commit" /\ pc'[i] = "clean"
      /\ UNCHANGED <<target, stage, backup, failed>>
      /\ recovery'[i] = recovery[i] \/ recovery'[i].of = backup[i].of
    BY DEF CopyRecovery, Goto, TypeOK
<1>3. recovery[i] = Absent
    BY <1>2 DEF Privates, Private
<1>4. \A j, c \in Installers : InPrivate(j, c)' = InPrivate(j, c)
    BY <1>1, <1>2, <1>3 DEF Frame, InPrivate
<1>5. \A j, c \in Installers : recovery[j].of = c => recovery'[j].of = c
    BY <1>1, <1>3 DEF Frame
<1>6. \A c \in Installers :
          /\ pc'[c] \in Unstaged => pc[c] \in Unstaged
          /\ pc'[c] \in Keeping => pc[c] \in Keeping
    BY <1>2 DEF Frame, Unstaged, Keeping
<1>. QED
    BY <1>2, <1>4, <1>5, <1>6 DEF Lineage

(* i parks what it published: there is no copy of it anywhere.             *)
LEMMA ParkLineage ==
    ASSUME TypeOK, Privates, Lineage, NEW i \in Installers, Frame(i), UndoPublish(i)
    PROVE  Lineage'
<1>. USE ContentsAssumption
<1>1. Absent.of = Nothing /\ \A c \in Installers : Absent # Original(c) /\ Original(c).of = c
    BY DEF Absent, Original
<1>2. /\ pc[i] = "undoPublish" /\ pc'[i] = "undoAside"
      /\ UNCHANGED <<stage, backup, recovery>>
    BY DEF UndoPublish, Goto, TypeOK
<1>3. \A j, c \in Installers : InPrivate(j, c)' = InPrivate(j, c)
    BY <1>2 DEF InPrivate
<1>4. \A c \in Installers :
          /\ pc'[c] \in Unstaged => pc[c] \in Unstaged /\ c # i
          /\ pc'[c] \in Keeping => pc[c] \in Keeping
    BY <1>2 DEF Frame, Unstaged, Keeping
<1>5. CASE UNCHANGED <<failed, target>>
    BY <1>2, <1>3, <1>4, <1>5 DEF Lineage
<1>6. CASE target = Original(i) /\ failed'[i] = Original(i) /\ target' = Absent
    <2>1. stage[i].of # i /\ \A j \in Installers : ~InPrivate(j, i)
        BY <1>1, <1>6 DEF Lineage
    <2>2. \A c \in Installers : failed'[c].of = c => failed[c].of = c \/ c = i
        BY DEF Frame
    <2>. QED
        BY <1>1, <1>2, <1>3, <1>4, <1>6, <2>1, <2>2 DEF Lineage
<1>. QED
    BY <1>5, <1>6 DEF UndoPublish, TypeOK

(* i restores what it moved aside.  The original leaves i's private names, *)
(* and where there is a copy, the copy is restored.                        *)
LEMMA RestoreLineage ==
    ASSUME TypeOK, Privates, Lineage, NEW i \in Installers, Frame(i), UndoAside(i)
    PROVE  Lineage'
<1>. USE ContentsAssumption
<1>1. Absent.of = Nothing /\ \A c \in Installers : Absent # Original(c) /\ Original(c).of = c
    BY DEF Absent, Original
<1>2. /\ pc[i] = "undoAside" /\ pc'[i] = "undoReceipt"
      /\ target = Absent
      /\ UNCHANGED <<stage, failed>>
    BY DEF UndoAside, Goto, TypeOK
<1>3. \/ /\ target' = recovery[i] /\ backup' = backup
         /\ recovery' = [recovery EXCEPT ![i] = Absent]
      \/ /\ target' = backup[i] /\ recovery' = recovery
         /\ backup' = [backup EXCEPT ![i] = Absent]
         /\ recovery[i].of = backup[i].of => recovery[i] = Absent
    BY RestoresWhole
<1>4. /\ backup'[i] \in {backup[i], Absent} /\ recovery'[i] \in {recovery[i], Absent}
    BY <1>3 DEF TypeOK
<1>5. \A j, c \in Installers : InPrivate(j, c)' => InPrivate(j, c)
    BY <1>1, <1>4 DEF Frame, InPrivate
<1>6. \A c \in Installers : target'.of = c => InPrivate(i, c)
    BY <1>3 DEF InPrivate
<1>7. \A c \in Installers :
          /\ pc'[c] \in Unstaged => pc[c] \in Unstaged
          /\ pc'[c] \in Keeping => pc[c] \in Keeping /\ c # i
    BY <1>2 DEF Frame, Unstaged, Keeping
<1>8. \A c \in Installers :
          /\ pc'[c] \in Unstaged => stage'[c].of # c
          /\ pc'[c] \in Unstaged \/ stage'[c].of = c =>
                target'.of # c /\ failed'[c].of # c /\ \A j \in Installers : ~InPrivate(j, c)'
          /\ failed'[c].of = c => target'.of # c /\ \A j \in Installers : ~InPrivate(j, c)'
          /\ ~InPrivate(c, c)'
    BY <1>2, <1>5, <1>6, <1>7 DEF Lineage
<1>9. ASSUME NEW c \in Installers, target' = Original(c)
      PROVE  \A j \in Installers : ~InPrivate(j, c)'
    <2>1. CASE target' = recovery[i]
        <3>1. recovery[i] # Absent /\ recovery[i].by = NoOne
            BY <1>1, <1>9, <2>1 DEF Original
        <3>. QED
            BY <3>1 DEF Privates, Private
    <2>2. CASE /\ target' = backup[i] /\ recovery' = recovery
               /\ backup' = [backup EXCEPT ![i] = Absent]
               /\ recovery[i].of = backup[i].of => recovery[i] = Absent
        <3>1. backup[i] = Original(c) /\ recovery[i].of # c /\ pc[i] \in Keeping
            BY <1>1, <1>2, <1>9, <2>2 DEF Keeping
        <3>2. \A k \in Installers \ {i} : ~InPrivate(k, c)
            BY <3>1 DEF Lineage
        <3>3. backup'[i] = Absent /\ recovery'[i].of # c
            BY <2>2, <3>1 DEF TypeOK
        <3>4. ~InPrivate(i, c)'
            BY <1>1, <3>3 DEF InPrivate
        <3>. QED
            BY <1>5, <3>2, <3>4
    <2>. QED
        BY <1>3, <2>1, <2>2
<1>10. ASSUME NEW c \in Installers, NEW j \in Installers,
              pc'[j] \in Keeping, backup'[j] = Original(c), recovery'[j].of # c
       PROVE  target'.of # c /\ \A k \in Installers \ {j} : ~InPrivate(k, c)'
    <2>1. j # i /\ pc[j] \in Keeping /\ backup[j] = Original(c) /\ recovery[j].of # c
        BY <1>7, <1>10 DEF Frame
    <2>2. \A k \in Installers \ {j} : ~InPrivate(k, c)
        BY <2>1 DEF Lineage
    <2>. QED
        BY <1>5, <1>6, <2>1, <2>2
<1>. QED
    BY <1>8, <1>9, <1>10 DEF Lineage

(* Every step keeps the lineage. *)
LEMMA LineageStep ==
    ASSUME TypeOK, Privates, Lineage, NEW i \in Installers, Frame(i),
           Pace(i) \/ Withdraw(i) \/ Discard(i) \/ Carries(i)
    PROVE  Lineage'
BY PaceLineage, RemovalLineage, StageLineage, AsideLineage, PublishLineage, CopyLineage,
   ParkLineage, RestoreLineage DEF Carries

-----------------------------------------------------------------------------
(* The last copy. *)

(* A stage and a parked tree hold their installer's content.               *)
LEMMA OwnStage ==
    ASSUME TypeOK
    PROVE  \A j \in Installers, c \in Contents \ {Nothing, Broken} :
              stage[j].of = c \/ failed[j].of = c => c = j
BY DEF TypeOK, Absent, Original

(* A content that was nowhere is copied to a stage.                        *)
LEMMA DiskStep ==
    ASSUME TypeOK, NEW i \in Installers, Frame(i),
           Pace(i) \/ Withdraw(i) \/ Discard(i) \/ Carries(i),
           NEW c \in Contents \ {Nothing, Broken}, OnDisk(c)'
    PROVE  OnDisk(c) \/ Safe(c)'
<1>1. Absent.of # c
    BY DEF Absent
<1>2. CASE stage'[i].of = c
    BY <1>2 DEF Safe
<1>3. CASE target'.of = c
    BY <1>3 DEF Safe
<1>4. CASE failed'[i].of = c
    BY <1>4 DEF Safe
<1>5. CASE \E j \in Installers \ {i} :
              c \in {stage'[j].of, backup'[j].of, failed'[j].of, recovery'[j].of}
    BY <1>5 DEF Frame, OnDisk
<1>6. CASE c \in {backup'[i].of, recovery'[i].of}
    <2>1. \/ c \in {backup[i].of, recovery[i].of}
          \/ target.of = c
        <3>1. CASE Pace(i) \/ Withdraw(i)
            BY <1>6, <3>1 DEF Pace, Withdraw
        <3>2. CASE Discard(i)
            BY <1>1, <1>6, <3>2 DEF Discard
        <3>3. CASE Stage(i) \/ Publish(i) \/ PublishInterrupted(i) \/ UndoPublish(i)
            BY <1>6, <3>3 DEF Stage, Publish, PublishInterrupted, UndoPublish
        <3>4. CASE MoveAside(i) \/ MoveAsideInterrupted(i)
            BY <1>6, <3>4 DEF MoveAside, MoveAsideInterrupted, TypeOK
        <3>5. CASE CopyRecovery(i)
            BY <1>6, <3>5 DEF CopyRecovery, TypeOK
        <3>6. CASE CleanBackup(i) \/ CleanBackupFails(i) \/ CleanRecovery(i)
            BY <1>1, <1>6, <3>6 DEF CleanBackup, CleanBackupFails, CleanRecovery, TypeOK
        <3>7. CASE UndoAside(i)
            BY <1>1, <1>6, <3>7 DEF UndoAside, TypeOK
        <3>. QED
            BY <3>1, <3>2, <3>3, <3>4, <3>5, <3>6, <3>7 DEF Carries
    <2>. QED
        BY <2>1 DEF OnDisk
<1>. QED
    BY <1>2, <1>3, <1>4, <1>5, <1>6 DEF OnDisk

(* What is safe stays so, unless i withdraws its own.                      *)
LEMMA SafeStep ==
    ASSUME TypeOK, Privates, Lineage, NEW i \in Installers, Frame(i),
           Pace(i) \/ Withdraw(i) \/ Discard(i) \/ Carries(i),
           interrupts' = 0, NEW c \in Contents \ {Nothing, Broken}, closed \subseteq {c}, Safe(c)
    PROVE  Safe(c)' \/ (c = i /\ pc'[i] # pc[i] /\ ~OnDisk(c)')
<1>. USE ContentsAssumption
<1>1. /\ Absent.of # c /\ Absent.of = Nothing
      /\ \A j \in Installers : Original(j).of = j
    BY DEF Absent, Original
<1>2. interrupts = 0 /\ Private(i)
    BY DEF Frame, Privates
<1>3. \A j \in Installers : stage[j].of = c \/ failed[j].of = c => c = j
    BY OwnStage
(* What another installer holds, it still holds. *)
<1>4. CASE \E j \in Installers \ {i} :
              \/ stage[j].of = c \/ failed[j].of = c
              \/ pc[j] \notin {"undoReceipt", "undoClean"} /\ InPrivate(j, c)
    BY <1>4 DEF Frame, Safe, InPrivate
(* Where it is in the profile, i moves it aside, or parks its own. *)
<1>5. CASE target.of = c
    <2>1. CASE target' = target
        BY <1>5, <2>1 DEF Safe
    <2>2. CASE MoveAside(i)
        <3>1. backup'[i].of = c /\ pc'[i] = "publish"
            BY <1>5, <2>2 DEF MoveAside, Goto, TypeOK
        <3>. QED
            BY <3>1 DEF Safe, InPrivate
    <2>3. CASE UndoPublish(i) /\ failed'[i] = target
        BY <1>5, <2>3 DEF Safe
    <2>4. target' = target \/ MoveAside(i) \/ (UndoPublish(i) /\ failed'[i] = target)
        <3>1. CASE Pace(i) \/ Withdraw(i) \/ Discard(i)
            BY <3>1 DEF Pace, Withdraw, Discard
        <3>2. CASE Stage(i) \/ CopyRecovery(i) \/ CleanBackup(i) \/ CleanBackupFails(i)
                   \/ CleanRecovery(i)
            BY <3>2 DEF Stage, CopyRecovery, CleanBackup, CleanBackupFails, CleanRecovery
        <3>3. CASE MoveAsideInterrupted(i) \/ PublishInterrupted(i)
            BY <1>2, <3>3 DEF MoveAsideInterrupted, PublishInterrupted
        <3>4. CASE Publish(i) \/ UndoAside(i)
            BY <1>1, <1>5, <3>4 DEF Publish, UndoAside
        <3>5. CASE UndoPublish(i)
            BY <3>5 DEF UndoPublish, TypeOK
        <3>. QED
            BY <3>1, <3>2, <3>3, <3>4, <3>5 DEF Carries
    <2>. QED
        BY <2>1, <2>2, <2>3, <2>4
(* What i staged or parked is published, or withdrawn and nowhere else. *)
<1>6. CASE stage[i].of = c
    <2>1. /\ c = i /\ target.of # c /\ failed[i].of # c
          /\ \A j \in Installers : ~InPrivate(j, c)
        BY <1>3, <1>6 DEF Lineage
    <2>2. CASE stage'[i] = stage[i]
        BY <1>6, <2>2 DEF Safe
    <2>3. CASE Publish(i)
        BY <1>6, <2>3 DEF Publish, Safe
    <2>4. CASE Withdraw(i)
        <3>1. \A j \in Installers :
                 c \notin {stage'[j].of, backup'[j].of, failed'[j].of, recovery'[j].of}
            BY <1>1, <1>3, <2>1, <2>4 DEF Withdraw, Frame, InPrivate
        <3>2. target'.of # c
            BY <2>1, <2>4 DEF Withdraw
        <3>. QED
            BY <2>1, <2>4, <3>1, <3>2 DEF Withdraw, OnDisk
    <2>5. CASE Stage(i)
        BY <2>1, <2>5 DEF Stage, Safe, TypeOK, Original
    <2>6. CASE MoveAsideInterrupted(i) \/ PublishInterrupted(i)
        BY <1>2, <2>6 DEF MoveAsideInterrupted, PublishInterrupted
    <2>7. CASE Pace(i) \/ Discard(i)
        BY <2>2, <2>7 DEF Pace, Discard
    <2>8. CASE \/ MoveAside(i) \/ CopyRecovery(i) \/ CleanBackup(i) \/ CleanBackupFails(i)
               \/ CleanRecovery(i) \/ UndoPublish(i) \/ UndoAside(i)
        BY <2>2, <2>8 DEF MoveAside, CopyRecovery, CleanBackup, CleanBackupFails, CleanRecovery,
                          UndoPublish, UndoAside
    <2>. QED
        BY <2>3, <2>4, <2>5, <2>6, <2>7, <2>8 DEF Carries
<1>7. CASE failed[i].of = c
    <2>1. c = i /\ target.of # c /\ \A j \in Installers : ~InPrivate(j, c)
        BY <1>3, <1>7 DEF Lineage
    <2>2. CASE failed'[i] = failed[i]
        BY <1>7, <2>2 DEF Safe
    <2>3. CASE Discard(i)
        <3>1. CASE stage[i].of = c
            BY <2>3, <3>1 DEF Discard, Safe
        <3>2. CASE stage[i].of # c
            <4>1. \A j \in Installers :
                     c \notin {stage'[j].of, backup'[j].of, failed'[j].of, recovery'[j].of}
                BY <1>1, <1>3, <2>1, <2>3, <3>2 DEF Discard, Frame, InPrivate
            <4>2. target'.of # c
                BY <2>1, <2>3 DEF Discard
            <4>. QED
                BY <2>1, <2>3, <4>1, <4>2 DEF Discard, OnDisk
        <3>. QED
            BY <3>1, <3>2
    <2>4. CASE UndoPublish(i)
        BY <1>7, <2>1, <2>2, <2>4, <1>1 DEF UndoPublish, TypeOK, Safe
    <2>5. CASE Pace(i) \/ Withdraw(i)
        BY <2>2, <2>5 DEF Pace, Withdraw
    <2>6. CASE Carries(i) /\ ~UndoPublish(i)
        BY <2>2, <2>6 DEF Carries, Stage, MoveAside, MoveAsideInterrupted, Publish,
                          PublishInterrupted, CopyRecovery, CleanBackup, CleanBackupFails,
                          CleanRecovery, UndoAside
    <2>. QED
        BY <2>3, <2>4, <2>5, <2>6
(* What i keeps is restored, or removed after it was copied. *)
<1>8. CASE pc[i] \notin {"undoReceipt", "undoClean"} /\ InPrivate(i, c)
    <2>1. CASE pc'[i] \notin {"undoReceipt", "undoClean"} /\ InPrivate(i, c)'
        BY <2>1 DEF Safe
    <2>2. CASE Pace(i)
        <3>1. pc'[i] \in {"undoReceipt", "undoClean"} => i \notin moved
            BY <1>8, <2>2 DEF Pace
        <3>2. i \in moved
            BY <1>1, <1>2, <1>8 DEF Private, InPrivate
        <3>. QED
            BY <1>8, <2>1, <2>2, <3>1, <3>2 DEF Pace, InPrivate
    <2>3. CASE Withdraw(i)
        BY <1>8, <2>1, <2>3 DEF Withdraw, InPrivate
    <2>4. CASE Discard(i)
        BY <1>8, <2>1, <2>4 DEF Discard, InPrivate
    <2>5. CASE Stage(i) \/ MoveAside(i)
        BY <1>1, <1>2, <1>8, <2>5 DEF Stage, MoveAside, Private, InPrivate, Unstaged
    <2>6. CASE Publish(i) \/ UndoPublish(i)
        BY <1>8, <2>1, <2>6 DEF Publish, UndoPublish, InPrivate, Goto, TypeOK
    <2>7. CASE MoveAsideInterrupted(i) \/ PublishInterrupted(i)
        BY <1>2, <2>7 DEF MoveAsideInterrupted, PublishInterrupted
    <2>8. CASE CopyRecovery(i)
        <3>1. pc[i] = "commit" /\ pc'[i] = "clean" /\ backup' = backup
            BY <2>8 DEF CopyRecovery, Goto, TypeOK
        <3>2. backup[i].of = c
            BY <1>1, <1>2, <1>8, <3>1 DEF Private, InPrivate
        <3>. QED
            BY <2>1, <3>1, <3>2 DEF InPrivate
    <2>9. CASE CleanBackup(i) \/ CleanBackupFails(i)
        <3>1. /\ pc[i] = "clean" /\ pc'[i] \in {"cleanRecovery", "undoPublish"}
              /\ recovery' = recovery
            BY <2>9 DEF CleanBackup, CleanBackupFails, Goto, TypeOK
        <3>2. recovery[i].of = c
            BY <1>1, <1>2, <1>8, <3>1 DEF Private, InPrivate
        <3>. QED
            BY <2>1, <3>1, <3>2 DEF InPrivate
    <2>10. CASE CleanRecovery(i)
        <3>1. c = i
            BY <1>2, <2>10 DEF CleanRecovery, Private
        <3>. QED
            BY <1>8, <3>1 DEF Lineage
    <2>11. CASE UndoAside(i)
        <3>1. pc[i] = "undoAside"
            BY <2>11 DEF UndoAside
        <3>2. target'.of = c
            <4>1. target'.of # Broken /\ target'.of \in {backup[i].of, recovery[i].of}
                BY <2>11, RestoresWhole
            <4>2. recovery[i] = Absent \/ backup[i].of \in {recovery[i].of, Broken}
                BY <1>2, <3>1 DEF Private
            <4>3. CASE recovery[i] = Absent
                <5>1. target' = backup[i] /\ backup[i].of = c
                    BY <1>1, <1>8, <2>11, <4>3 DEF UndoAside, Restorable, InPrivate
                <5>. QED
                    BY <5>1
            <4>. QED
                BY <1>8, <4>1, <4>2, <4>3 DEF InPrivate
        <3>. QED
            BY <3>2 DEF Safe
    <2>. QED
        BY <2>2, <2>3, <2>4, <2>5, <2>6, <2>7, <2>8, <2>9, <2>10, <2>11 DEF Carries
<1>. QED
    BY <1>4, <1>5, <1>6, <1>7, <1>8 DEF Safe

-----------------------------------------------------------------------------
(* The invariant, and the step that could lose a copy. *)

(* The invariant holds before any installer starts. *)
LEMMA InitIInv == Init => IInv
<1>. SUFFICES ASSUME Init PROVE IInv
    OBVIOUS
<1>. USE ContentsAssumption
<1>1. Absent.of = Nothing /\ Absent.by = NoOne /\ \A c \in Contents : Original(c).of = c
    BY DEF Absent, Original
<1>2. Privates
    BY <1>1 DEF Init, Privates, Private, Unstaged
<1>3. BrokenStays
    BY <1>1 DEF Init, BrokenStays, Contents
<1>4. target.of \notin Installers
    BY <1>1 DEF Init, Contents
<1>5. Lineage
    BY <1>1, <1>4 DEF Init, Lineage, InPrivate, Keeping, Unstaged, Original
<1>6. Kept
    BY <1>1 DEF Init, Kept, OnDisk, Safe
<1>. QED
    BY <1>2, <1>3, <1>5, <1>6, InitTypes, InitReceipts DEF IInv

(* One step of an installer. *)
LEMMA InstallerStep ==
    ASSUME IInv, NEW i \in Installers,
           Forward(i) \/ Interrupted(i) \/ Commit(i) \/ Rollback(i) \/ Crash(i)
    PROVE  /\ IInv'
           /\ interrupts' = 0 =>
                \A c \in Contents \ {Nothing, Broken} :
                    OnDisk(c) /\ ~OnDisk(c)' =>
                        closed \ {c} # {} \/ (c \in Installers /\ pc'[c] # pc[c])
<1>. USE DEF IInv
<1>1. Next
    BY DEF Next
<1>2. Frame(i) /\ (Pace(i) \/ Withdraw(i) \/ Discard(i) \/ Carries(i))
    BY Frames, Effects
<1>3. TypeOK' /\ Receipts'
    BY <1>1, StepTypes, StepReceipts
<1>4. Privates' /\ BrokenStays' /\ Lineage'
    BY <1>2, PrivatesStep, BrokenStep, LineageStep
<1>5. ASSUME interrupts' = 0, NEW c \in Contents \ {Nothing, Broken}, closed \subseteq {c},
             OnDisk(c)
      PROVE  Safe(c)' \/ (c = i /\ pc'[i] # pc[i] /\ ~OnDisk(c)')
    <2>1. interrupts = 0
        BY <1>2, <1>5 DEF Frame
    <2>2. Safe(c)
        BY <1>5, <2>1 DEF Kept
    <2>. QED
        BY <1>2, <1>5, <2>2, SafeStep
<1>6. Kept'
    <2>. SUFFICES ASSUME interrupts' = 0, NEW c \in Contents \ {Nothing, Broken},
                         closed' \subseteq {c}, OnDisk(c)'
                  PROVE  Safe(c)'
        BY DEF Kept
    <2>1. closed \subseteq {c}
        BY <1>2 DEF Frame
    <2>2. OnDisk(c) \/ Safe(c)'
        BY <1>2, DiskStep
    <2>. QED
        BY <1>5, <2>1, <2>2
<1>7. \A c : Safe(c)' => OnDisk(c)'
    BY DEF Safe, OnDisk, InPrivate
<1>. QED
    BY <1>3, <1>4, <1>5, <1>6, <1>7

(* Every step keeps the invariant. *)
LEMMA InvariantStep == IInv /\ [Next]_vars => IInv'
<1>. SUFFICES ASSUME IInv, [Next]_vars PROVE IInv'
    OBVIOUS
<1>1. CASE Next
    BY <1>1, InstallerStep DEF Next
<1>2. CASE UNCHANGED vars
    <2>1. TypeOK' /\ Receipts'
        BY StepTypes, StepReceipts DEF IInv
    <2>2. Privates' /\ BrokenStays'
        BY <1>2 DEF IInv, Privates, Private, BrokenStays, vars, diskVars, planVars, txVars, countVars
    <2>3. Lineage'
        BY <1>2 DEF IInv, Lineage, InPrivate, vars, diskVars
    <2>4. Kept'
        BY <1>2 DEF IInv, Kept, OnDisk, Safe, InPrivate, vars, diskVars, txVars, countVars
    <2>. QED
        BY <2>1, <2>2, <2>3, <2>4 DEF IInv
<1>. QED
    BY <1>1, <1>2

(* However many installers run, whatever fails and whoever is killed, the  *)
(* last copy of what was installed is given up only when another installer *)
(* has closed its transaction, or by the installer whose own it is.        *)
THEOREM LastCopyHolds == Spec => LastCopyKept
<1>1. IInv /\ [Next]_vars =>
          [interrupts' = 0 =>
              \A c \in Contents \ {Nothing, Broken} :
                  OnDisk(c) /\ ~OnDisk(c)' =>
                      \/ closed \ {c} # {}
                      \/ c \in Installers /\ pc'[c] # pc[c]]_vars
    BY InstallerStep DEF Next
<1>. QED
    BY <1>1, InitIInv, InvariantStep, PTL DEF Spec, LastCopyKept

-----------------------------------------------------------------------------
(* An installer that is alone. *)

(* What a profile may hold before any installer runs. *)
Before == {Absent, Original(Old), Original(Broken)}

(* The tree and the receipt while i alone has started: as planned, or i's, *)
(* or on the way back.  A rollback that began without a verdict began with *)
(* a failed operation.                                                     *)
Solo(i) ==
    LET T == seenTree[i]
        R == seenReceipt[i] IN
    /\ pc[i] \in {"idle", "plan", "begin"} => target \in Before /\ receipt \in Before
    /\ pc[i] \in Unwritten \ {"idle"} => receipt = R
    /\ pc[i] \in {"begin", "stage", "aside"} => target = T
    /\ pc[i] \notin {"idle", "plan", "dead"} => T \in Before
    /\ pc[i] \notin Unstaged \cup {"done", "dead"} => previous[i] = T.of
    /\ pc[i] \in Unstaged \cup {"aside", "publish"} => i \notin published /\ i \notin committed
    /\ pc[i] = "publish" => target = Absent
    /\ pc[i] \in {"receipt", "check", "verify", "commit", "clean", "cleanRecovery"} =>
          target = Original(i) /\ i \in published
    /\ pc[i] = "receipt" => i \notin committed
    /\ pc[i] \in {"check", "verify", "commit", "clean", "cleanRecovery"} =>
          Wrote(i) /\ i \in committed
    /\ pc[i] \in {"publish", "receipt", "check", "verify", "commit", "clean"} =>
          (i \in moved) = (T # Absent)
    /\ pc[i] \in {"undoPublish", "undoAside"} /\ i \in moved => T # Absent
    /\ pc[i] = "undoPublish" =>
          /\ i \in published => target = Original(i) /\ (i \notin moved => T = Absent)
          /\ i \notin published /\ i \in moved => target = Absent
          /\ i \notin published /\ i \notin moved => target = T
    /\ pc[i] = "undoAside" =>
          /\ i \in moved => target = Absent
          /\ i \notin moved => target = T
    /\ pc[i] \in {"undoPublish", "undoAside", "undoReceipt"} =>
          /\ i \in committed => Wrote(i)
          /\ i \notin committed => receipt = R
    /\ pc[i] \in {"undoReceipt", "undoClean"} => target.of = T.of
    /\ pc[i] = "undoClean" => receipt.of = R.of
    /\ pc[i] \in Keeping /\ i \in moved => InPrivate(i, T.of)
    /\ pc[i] \in {"undoPublish", "undoAside", "undoReceipt", "undoClean"} /\ outcome[i] # "failed"
          => faults > 0
    /\ pc[i] = "done" /\ outcome[i] = "failed" => AsPlanned(i) \/ Installed(i)
    /\ pc[i] = "done" /\ outcome[i] = "swallowed" => faults > 1 /\ OnDisk(T.of)

Solos == interrupts = 0 => \A i \in Installers : Alone(i) => Solo(i)

(* What is never Absent, and what a reader who is alone reads.             *)
LEMMA SoloFacts ==
    ASSUME NEW i \in Installers, Alone(i)
    PROVE  /\ Readable(i) = {receipt}
           /\ Original(i) # Absent /\ Original(i).of = i
           /\ Absent.of = Nothing
           /\ \A T \in Before : T # Absent => T.of # Nothing
BY ContentsAssumption DEF Alone, Readable, Replacing, Before, Original, Absent

(* Planning, alone. *)
LEMMA SoloPlan ==
    ASSUME TypeOK, Privates, NEW i \in Installers, Alone(i), Solo(i),
           \/ PlanReceipt(i) \/ PlanTarget(i) \/ Begin(i) \/ Refuse(i) \/ RefuseByFault(i)
           \/ Stage(i)
    PROVE  Solo(i)'
<1>. USE SoloFacts DEF Solo, TypeOK, Unwritten, Unstaged, Keeping, AsPlanned, Goto, Finish, Fault,
                       planVars, txVars, countVars, diskVars
<1>1. CASE PlanReceipt(i)
    BY <1>1 DEF PlanReceipt
<1>2. CASE PlanTarget(i)
    BY <1>2 DEF PlanTarget
<1>3. CASE Begin(i)
    BY <1>3 DEF Begin
<1>4. CASE Refuse(i)
    BY <1>4 DEF Refuse
<1>5. CASE RefuseByFault(i)
    BY <1>5 DEF RefuseByFault
<1>6. CASE Stage(i)
    BY <1>6 DEF Stage
<1>. QED
    BY <1>1, <1>2, <1>3, <1>4, <1>5, <1>6

(* Replacing the tree and the receipt, alone. *)
LEMMA SoloReplace ==
    ASSUME TypeOK, Privates, NEW i \in Installers, Alone(i), Solo(i),
           \/ MoveAside(i) \/ NothingToMove(i) \/ MoveAsideRefused(i)
           \/ Publish(i) \/ PublishRefused(i) \/ WriteReceipt(i) \/ WriteReceiptRefused(i)
           \/ Check(i) \/ CheckRefused(i) \/ BeginFails(i)
    PROVE  Solo(i)'
<1>0. /\ pc[i] \in {"aside", "publish"} => stage[i] = Original(i)
      /\ pc[i] = "aside" => i \notin moved
    BY DEF Privates, Private
<1>. USE <1>0, SoloFacts DEF Solo, TypeOK, Unwritten, Unstaged, Keeping, InPrivate, Wrote, Goto,
                            Undo, Fault, planVars, txVars, countVars, diskVars
<1>1. CASE MoveAside(i)
    BY <1>1 DEF MoveAside
<1>2. CASE NothingToMove(i)
    BY <1>2 DEF NothingToMove
<1>3. ~MoveAsideRefused(i)
    BY DEF MoveAsideRefused, TargetAsPlanned
<1>4. CASE Publish(i)
    BY <1>4 DEF Publish
<1>5. CASE PublishRefused(i)
    BY <1>5 DEF PublishRefused
<1>6. CASE WriteReceipt(i)
    BY <1>6 DEF WriteReceipt
<1>7. CASE WriteReceiptRefused(i)
    BY <1>7 DEF WriteReceiptRefused
<1>8. CASE Check(i) \/ CheckRefused(i)
    BY <1>8 DEF Check, CheckRefused
<1>9. CASE BeginFails(i)
    BY <1>9 DEF BeginFails
<1>. QED
    BY <1>1, <1>2, <1>3, <1>4, <1>5, <1>6, <1>7, <1>8, <1>9

(* Verifying and closing, alone. *)
LEMMA SoloCommit ==
    ASSUME TypeOK, Privates, NEW i \in Installers, Alone(i), Solo(i),
           VerifyUsable(i) \/ VerifyNotReady(i) \/ VerifyFails(i) \/ Commit(i)
    PROVE  Solo(i)'
<1>0. pc[i] = "clean" /\ i \in moved => recovery[i].of = backup[i].of
    BY DEF Privates, Private
<1>. USE SoloFacts DEF Solo, TypeOK, Unwritten, Unstaged, Keeping, InPrivate, Wrote, Installed, Goto,
                       Finish, Fault, planVars, txVars, countVars, diskVars
<1>1. CASE VerifyUsable(i) \/ VerifyFails(i)
    BY <1>1 DEF VerifyUsable, VerifyFails
<1>2. CASE VerifyNotReady(i)
    BY <1>2 DEF VerifyNotReady
<1>3. CASE CommitRefused(i)
    BY <1>3 DEF CommitRefused
<1>4. CASE CopyRecovery(i) \/ CopyRecoveryFails(i)
    <2>1. backup' = backup
        BY <1>4 DEF CopyRecovery, CopyRecoveryFails
    <2>2. pc[i] = "commit" /\ (i \in moved => backup[i].of = seenTree[i].of)
        BY <1>4 DEF CopyRecovery, CopyRecoveryFails, Privates, Private
    <2>3. CASE CopyRecovery(i)
        BY <2>1, <2>2, <2>3 DEF CopyRecovery
    <2>4. CASE CopyRecoveryFails(i)
        BY <2>4 DEF CopyRecoveryFails
    <2>. QED
        BY <1>4, <2>3, <2>4
<1>5. CASE CleanBackup(i)
    BY <1>5 DEF CleanBackup
<1>7. CASE CleanBackupFails(i)
    BY <1>0, <1>7 DEF CleanBackupFails
<1>6. CASE CleanRecovery(i) \/ CleanRecoveryFails(i)
    BY <1>6 DEF CleanRecovery, CleanRecoveryFails, Committed
<1>. QED
    BY <1>1, <1>2, <1>3, <1>4, <1>5, <1>6, <1>7 DEF Commit

(* Rolling back, alone. *)
LEMMA SoloRollback ==
    ASSUME TypeOK, Privates, interrupts = 0, NEW i \in Installers, Alone(i), Solo(i),
           Rollback(i) \/ Crash(i)
    PROVE  Solo(i)'
<1>. USE SoloFacts DEF Solo, TypeOK, Unwritten, Unstaged, Keeping, Wrote, Goto, Finish, Fault,
                       Stranded, planVars, txVars, countVars, diskVars
<1>1. CASE UndoPublish(i)
    BY <1>1 DEF UndoPublish, InPrivate
<1>2. CASE UndoPublishRefused(i)
    BY <1>2 DEF UndoPublishRefused
<1>3. CASE UndoAside(i)
    <2>1. target'.of = seenTree[i].of
        BY <1>3 DEF UndoAside, Restorable
    <2>. QED
        BY <1>3, <2>1 DEF UndoAside
<1>4. CASE NothingToRestore(i)
    BY <1>4 DEF NothingToRestore
<1>5. ~UndoAsideRefused(i)
    <2>1. pc[i] = "undoAside" /\ i \in moved => Restorable(i, recovery[i]) \/ Restorable(i, backup[i])
        BY DEF InPrivate, Restorable
    <2>. QED
        BY <2>1 DEF UndoAsideRefused
<1>9. CASE UndoReceiptRefused(i) \/ UndoFails(i)
    <2>1. OnDisk(seenTree[i].of)
        <3>1. pc[i] \in {"undoPublish", "undoAside"} /\ i \in moved => InPrivate(i, seenTree[i].of)
            OBVIOUS
        <3>2. pc[i] \in {"undoPublish", "undoAside"} /\ i \notin moved =>
                  target = seenTree[i] \/ seenTree[i] = Absent
            OBVIOUS
        <3>3. i \notin moved => backup[i] = Absent
            BY DEF Privates, Private
        <3>4. pc[i] \in {"undoReceipt", "undoClean"} => target.of = seenTree[i].of
            OBVIOUS
        <3>5. pc[i] \in {"undoPublish", "undoAside", "undoReceipt", "undoClean"}
            BY <1>9 DEF UndoReceiptRefused, UndoFails
        <3>. QED
            BY <3>1, <3>2, <3>3, <3>4, <3>5 DEF OnDisk, InPrivate
    <2>. QED
        BY <1>9, <2>1 DEF UndoReceiptRefused, UndoFails, OnDisk
<1>6. CASE UndoReceipt(i)
    BY <1>6 DEF UndoReceipt, RestoredReceipt
<1>7. CASE UndoClean(i)
    BY <1>7 DEF UndoClean, RolledBack, AsPlanned
<1>8. CASE Crash(i)
    BY <1>8 DEF Crash
<1>. QED
    BY <1>1, <1>2, <1>3, <1>4, <1>5, <1>6, <1>7, <1>8, <1>9 DEF Rollback

(* No step leads back to the first point. *)
LEMMA Started ==
    ASSUME TypeOK, NEW i \in Installers,
           Forward(i) \/ Interrupted(i) \/ Commit(i) \/ Rollback(i) \/ Crash(i)
    PROVE  pc'[i] # "idle"
<1>1. CASE Pace(i) \/ Withdraw(i) \/ Discard(i)
    BY <1>1 DEF Pace, Withdraw, Discard
<1>2. CASE Carries(i)
    BY <1>2 DEF Carries, Stage, MoveAside, MoveAsideInterrupted, Publish, PublishInterrupted,
                CopyRecovery, CleanBackup, CleanBackupFails, CleanRecovery, Committed,
                UndoPublish, UndoAside, Finish, Goto, Undo, TypeOK
<1>. QED
    BY <1>1, <1>2, Effects

(* Every step keeps what is known of an installer that is alone.           *)
LEMMA SoloStep ==
    ASSUME IInv, Solos, [Next]_vars
    PROVE  Solos'
<1>. USE DEF IInv
<1>1. CASE UNCHANGED vars
    BY <1>1 DEF Solos, Solo, Alone, Wrote, AsPlanned, Installed, InPrivate, OnDisk, vars, diskVars,
                planVars, txVars, countVars
<1>2. CASE Next
    <2>1. PICK i \in Installers :
              Forward(i) \/ Interrupted(i) \/ Commit(i) \/ Rollback(i) \/ Crash(i)
        BY <1>2 DEF Next
    <2>2. Frame(i) /\ pc'[i] # "idle"
        BY <2>1, Frames, Started
    <2>3. ASSUME interrupts' = 0, NEW j \in Installers, Alone(j)'
          PROVE  Solo(j)'
        <3>1. j = i
            BY <2>2, <2>3 DEF Alone
        <3>2. Alone(i)
            BY <2>2, <2>3, <3>1 DEF Alone, Frame
        <3>3. interrupts = 0 /\ Solo(i)
            BY <2>2, <2>3, <3>2 DEF Frame, Solos
        <3>4. ~Interrupted(i)
            BY <2>3, <3>3 DEF Interrupted, MoveAsideInterrupted, PublishInterrupted,
                              WriteReceiptInterrupted
        <3>5. Solo(i)'
            BY <2>1, <3>2, <3>3, <3>4, SoloPlan, SoloReplace, SoloCommit, SoloRollback DEF Forward
        <3>. QED
            BY <3>1, <3>5
    <2>. QED
        BY <2>3 DEF Solos
<1>. QED
    BY <1>1, <1>2

(* An installer that was alone, whatever fails and for whatever reason it  *)
(* rolls back, leaves the profile as it was, or its complete replacement,  *)
(* unless it reports that its rollback failed, or a second failure, in a   *)
(* rollback that begin or commit began, was swallowed; the previous tree   *)
(* is then still on disk.                                                  *)
THEOREM RestoresWhenAlone == Spec => []OneFailureRestores
<1>1. Init => Solos
    BY ContentsAssumption DEF Init, Solos, Solo, Before, Unwritten, Unstaged, Keeping
<1>2. Solos => OneFailureRestores
    BY DEF Solos, Solo, OneFailureRestores, Told
<1>. QED
    BY <1>1, <1>2, InitIInv, InvariantStep, SoloStep, PTL DEF Spec

-----------------------------------------------------------------------------
(* Installers that overlap. *)

(* The points of an installer that goes on with the receipt it wrote, the  *)
(* points of one that has verified what it put in place, and those where   *)
(* it may still put back the receipt it replaced, or have to.              *)
Verifying == {"check", "verify", "commit", "clean", "cleanRecovery"}
Settled == {"commit", "clean", "cleanRecovery", "done"}
Answerable == {"check", "verify", "commit", "clean", "undoPublish", "undoAside", "undoReceipt"}

Calm == crashes = 0 /\ interrupts = 0 /\ ~RollbackFailed

(* Whose rollback failed is through, and nobody is dead whom nobody killed. *)
Ended ==
    \A i \in Installers :
        /\ outcome[i] \in {"stranded", "swallowed"} => pc[i] = "done"
        /\ crashes = 0 => pc[i] # "dead"

(* Who verifies or commits has written its receipt, and a receipt that     *)
(* names an installer was written by it.                                   *)
Written ==
    /\ \A i \in Installers : pc[i] \in Verifying => i \in committed
    /\ interrupts = 0 =>
          /\ receipt.of \in Installers => receipt.of \in committed
          /\ \A i \in Installers : seenReceipt[i].of \in Installers => seenReceipt[i].of \in committed

(* The receipt names w, or its writer still may put back one that does.    *)
Claim(w) ==
    \/ receipt.of = w
    \/ \E l \in committed : Wrote(l) /\ seenReceipt[l].of = w /\ pc[l] \in Answerable

(* What k would put back: the copy if there is one, else the backup.       *)
Keeps(k) == IF recovery[k] # Absent THEN recovery[k].of ELSE backup[k].of

(* k moved w's tree aside and has not closed its transaction; nobody has   *)
(* replaced its receipt, if it wrote one.                                  *)
Holds(k, w) ==
    /\ k # w
    /\ k \in moved
    /\ pc[k] \in Keeping
    /\ Keeps(k) = w
    /\ k \in committed => Wrote(k)

(* The tree of a settled installer the receipt may come back to is in      *)
(* place, or kept by one that cannot close its transaction without being   *)
(* the only one the receipt may come back to.                              *)
Backed ==
    \A w \in Installers :
        Claim(w) /\ pc[w] \in Settled => target.of = w \/ \E k \in Installers : Holds(k, w)

(* Who gave its receipt back is not named again.                           *)
Given == \A w \in Installers : pc[w] = "undoClean" => ~Claim(w)

(* An installer whose receipt was not given back.                          *)
Counts(i) ==
    /\ i \in committed
    /\ \/ pc[i] \in Answerable \cup {"cleanRecovery"}
       \/ pc[i] = "done" /\ outcome[i] \in {"ok", "restart"}

(* While there is one, the receipt names an installer, and nobody else can *)
(* put back a receipt that names none.                                     *)
Chain ==
    \A i \in Installers : Counts(i) =>
        /\ receipt.of \in Installers
        /\ \A l \in Installers : Wrote(l) /\ seenReceipt[l].of \notin Installers => i = l

Links == Backed /\ Given /\ Chain

Overlap == Ended /\ Written /\ (Calm => Links)

(* Only a claimed installer that wrote a receipt is followed. *)
LEMMA ClaimsWritten ==
    ASSUME TypeOK, Written, interrupts = 0, NEW w \in Installers, Claim(w)
    PROVE  w \in committed
BY DEF Written, Claim, TypeOK

(* Planning, writing the receipt and putting one back, moving a tree aside  *)
(* and restoring it are looked at one by one; every other step is a stride. *)
Turns(i) ==
    PlanReceipt(i) \/ WriteReceipt(i) \/ UndoReceipt(i) \/ MoveAside(i) \/ UndoAside(i)

(* A stride of i leaves the receipts alone.  The target changes only when  *)
(* it is free, or when i parks its own; what i keeps it goes on keeping    *)
(* until it closes its transaction.                                        *)
Stride(i) ==
    /\ UNCHANGED <<receipt, seenReceipt, committed>>
    /\ \/ target' = target
       \/ target = Absent
       \/ target = Original(i) /\ pc[i] = "undoPublish"
    /\ pc'[i] \in Settled =>
          \/ pc[i] \in Settled
          \/ pc[i] = "verify" /\ target'.of = i
          \/ i \notin committed
          \/ pc[i] = "undoClean"
    /\ pc'[i] # "undoClean"
    /\ i \in moved /\ pc[i] \in Keeping =>
          \/ i \in moved' /\ pc'[i] \in Keeping /\ Keeps(i)' = Keeps(i)
          \/ i \in committed /\ pc'[i] \notin Answerable
    /\ i \in committed /\ pc'[i] \in Answerable => pc[i] \in Answerable
    /\ Counts(i)' => Counts(i)

(* Every other step is a stride, unless it is a rollback that fails.        *)
LEMMA Strides ==
    ASSUME TypeOK, Receipts, Privates, Written, NEW i \in Installers,
           Forward(i) \/ Commit(i) \/ Rollback(i), ~Turns(i), ~RollbackFailed'
    PROVE  Stride(i)
<1>1. /\ outcome'[i] \notin {"stranded", "swallowed"}
      /\ Private(i)
      /\ i \in committed => pc[i] \notin Unwritten
      /\ pc[i] \in Verifying => i \in committed
    BY DEF RollbackFailed, Privates, Receipts, Written
<1>2. Original(i).of = i /\ Absent.by = NoOne /\ NoOne # i
    BY ContentsAssumption DEF Original, Absent
<1>. USE <1>1 DEF TypeOK, Stride, Verifying, Keeps, Counts, Unwritten, Settled, Answerable, Keeping,
                  Goto, Finish, Fault, Undo, diskVars, planVars, txVars, countVars
<1>3. CASE Forward(i)
    <2>1. CASE PlanTarget(i) \/ Begin(i) \/ Refuse(i) \/ RefuseByFault(i) \/ Stage(i)
        BY <2>1 DEF PlanTarget, Begin, Refuse, RefuseByFault, Stage
    <2>2. CASE NothingToMove(i) \/ MoveAsideRefused(i)
        BY <2>2 DEF NothingToMove, MoveAsideRefused
    <2>3. CASE Publish(i) \/ PublishRefused(i)
        BY <2>3 DEF Publish, PublishRefused
    <2>4. CASE WriteReceiptRefused(i) \/ Check(i) \/ CheckRefused(i) \/ BeginFails(i)
        BY <2>4 DEF WriteReceiptRefused, Check, CheckRefused, BeginFails
    <2>5. CASE VerifyUsable(i) \/ VerifyNotReady(i) \/ VerifyFails(i)
        BY <2>5, <1>2 DEF VerifyUsable, VerifyNotReady, VerifyFails
    <2>. QED
        BY <1>3, <2>1, <2>2, <2>3, <2>4, <2>5 DEF Forward, Turns
<1>4. CASE Commit(i)
    <2>1. CASE CommitRefused(i) \/ CopyRecoveryFails(i)
        BY <2>1 DEF CommitRefused, CopyRecoveryFails
    <2>2. CASE CopyRecovery(i)
        BY <2>2, <1>2 DEF CopyRecovery, Private
    <2>3. CASE CleanBackup(i)
        BY <2>3 DEF CleanBackup
    <2>4. CASE CleanBackupFails(i)
        BY <2>4, <1>2 DEF CleanBackupFails, Private
    <2>5. CASE CleanRecovery(i) \/ CleanRecoveryFails(i)
        BY <2>5 DEF CleanRecovery, CleanRecoveryFails, Committed
    <2>. QED
        BY <1>4, <2>1, <2>2, <2>3, <2>4, <2>5 DEF Commit
<1>5. CASE Rollback(i)
    <2>1. CASE UndoPublish(i) \/ UndoPublishRefused(i)
        BY <2>1 DEF UndoPublish, UndoPublishRefused, Stranded
    <2>2. CASE NothingToRestore(i) \/ UndoAsideRefused(i)
        BY <2>2 DEF NothingToRestore, UndoAsideRefused, Stranded
    <2>3. CASE UndoReceiptRefused(i) \/ UndoClean(i) \/ UndoFails(i)
        BY <2>3 DEF UndoReceiptRefused, UndoClean, UndoFails, RolledBack, Stranded
    <2>. QED
        BY <1>5, <2>1, <2>2, <2>3 DEF Rollback, Turns
<1>. QED
    BY <1>3, <1>4, <1>5

(* A step of i answers for nobody else, takes back no answer, and verifies *)
(* nothing before the receipt is written.                                  *)
Answers(i) ==
    /\ \A j \in Installers \ {i} : pc'[j] = pc[j] /\ outcome'[j] = outcome[j]
    /\ pc[i] # "done"
    /\ pc'[i] \in Verifying => pc[i] \in Verifying \/ WriteReceipt(i)
    /\ outcome'[i] \in {"stranded", "swallowed"} =>
          outcome[i] \in {"stranded", "swallowed"} \/ pc'[i] = "done"
    /\ crashes' = 0 => crashes = 0 /\ pc'[i] # "dead" /\ ~Crash(i)
    /\ interrupts' = 0 => interrupts = 0 /\ ~Interrupted(i)

(* Every step of an installer answers so.                                  *)
LEMMA Answering ==
    ASSUME TypeOK, NEW i \in Installers,
           Forward(i) \/ Interrupted(i) \/ Commit(i) \/ Rollback(i) \/ Crash(i)
    PROVE  Answers(i)
<1>1. interrupts' = 0 => interrupts = 0 /\ ~Interrupted(i)
    BY Frames DEF Frame, Interrupted, MoveAsideInterrupted, PublishInterrupted,
                  WriteReceiptInterrupted, TypeOK
<1>2. crashes' = 0 => ~Crash(i)
    BY DEF Crash, TypeOK
<1>. USE <1>1, <1>2 DEF Answers, Verifying, TypeOK, Goto, Finish, Fault, Undo, planVars, txVars, countVars
<1>3. CASE Forward(i)
    <2>1. CASE PlanReceipt(i) \/ PlanTarget(i) \/ Begin(i) \/ Refuse(i) \/ RefuseByFault(i)
        BY <2>1 DEF PlanReceipt, PlanTarget, Begin, Refuse, RefuseByFault
    <2>2. CASE Stage(i) \/ MoveAside(i) \/ NothingToMove(i) \/ MoveAsideRefused(i)
        BY <2>2 DEF Stage, MoveAside, NothingToMove, MoveAsideRefused
    <2>3. CASE Publish(i) \/ PublishRefused(i) \/ WriteReceipt(i) \/ WriteReceiptRefused(i)
        BY <2>3 DEF Publish, PublishRefused, WriteReceipt, WriteReceiptRefused
    <2>4. CASE Check(i) \/ CheckRefused(i) \/ BeginFails(i)
        BY <2>4 DEF Check, CheckRefused, BeginFails
    <2>5. CASE VerifyUsable(i) \/ VerifyNotReady(i) \/ VerifyFails(i)
        BY <2>5 DEF VerifyUsable, VerifyNotReady, VerifyFails
    <2>. QED
        BY <1>3, <2>1, <2>2, <2>3, <2>4, <2>5 DEF Forward
<1>4. CASE Interrupted(i)
    BY <1>4 DEF Interrupted, MoveAsideInterrupted, PublishInterrupted, WriteReceiptInterrupted
<1>5. CASE Commit(i)
    <2>1. CASE CommitRefused(i) \/ CopyRecovery(i) \/ CopyRecoveryFails(i)
        BY <2>1 DEF CommitRefused, CopyRecovery, CopyRecoveryFails
    <2>2. CASE CleanBackup(i) \/ CleanBackupFails(i)
        BY <2>2 DEF CleanBackup, CleanBackupFails
    <2>3. CASE CleanRecovery(i) \/ CleanRecoveryFails(i)
        BY <2>3 DEF CleanRecovery, CleanRecoveryFails, Committed
    <2>. QED
        BY <1>5, <2>1, <2>2, <2>3 DEF Commit
<1>6. CASE Rollback(i)
    <2>1. CASE UndoPublish(i) \/ UndoPublishRefused(i) \/ NothingToRestore(i)
        BY <2>1 DEF UndoPublish, UndoPublishRefused, NothingToRestore, Stranded
    <2>2. CASE UndoAside(i) \/ UndoAsideRefused(i)
        BY <2>2 DEF UndoAside, UndoAsideRefused, Stranded
    <2>3. CASE UndoReceipt(i) \/ UndoReceiptRefused(i) \/ UndoClean(i) \/ UndoFails(i)
        BY <2>3 DEF UndoReceipt, UndoReceiptRefused, UndoClean, UndoFails, RolledBack, Stranded
    <2>. QED
        BY <1>6, <2>1, <2>2, <2>3 DEF Rollback
<1>7. CASE Crash(i)
    BY <1>7 DEF Crash
<1>. QED
    BY <1>3, <1>4, <1>5, <1>6, <1>7

(* A failed rollback, a kill and an interruption stay known.               *)
LEMMA CalmStep ==
    ASSUME Ended, NEW i \in Installers, Answers(i)
    PROVE  /\ Ended'
           /\ Calm' => Calm /\ ~Interrupted(i) /\ ~Crash(i)
BY DEF Answers, Ended, Calm, RollbackFailed

(* Every receipt that names an installer was written by it.                *)
LEMMA WrittenStep ==
    ASSUME TypeOK, Receipts, Written, NEW i \in Installers, Answers(i),
           Forward(i) \/ Interrupted(i) \/ Commit(i) \/ Rollback(i) \/ Crash(i)
    PROVE  Written'
<1>1. \A j \in Installers \ {i} : pc'[j] = pc[j]
    BY DEF Answers
<1>2. committed \subseteq committed' /\ committed' \subseteq Installers
    <2>1. committed' = committed \/ committed' = committed \cup {i}
        <3>1. CASE Walk(i)
            BY <3>1 DEF Walk
        <3>2. CASE WriteReceipt(i)
            BY <3>2 DEF WriteReceipt
        <3>3. CASE PlanReceipt(i) \/ WriteReceiptInterrupted(i) \/ UndoAsideRefused(i)
                   \/ UndoReceipt(i) \/ Crash(i)
            BY <3>3 DEF PlanReceipt, WriteReceiptInterrupted, UndoAsideRefused, UndoReceipt,
                        Crash, txVars
        <3>. QED
            BY <3>1, <3>2, <3>3, Walks
    <2>. QED
        BY <2>1 DEF TypeOK
<1>3. \A j \in Installers : pc'[j] \in Verifying => j \in committed'
    <2>1. WriteReceipt(i) => i \in committed'
        BY DEF WriteReceipt
    <2>. QED
        BY <1>1, <1>2, <2>1 DEF Answers, Written
<1>4. ASSUME interrupts' = 0
      PROVE  /\ receipt'.of \in Installers => receipt'.of \in committed'
             /\ \A j \in Installers : seenReceipt'[j].of \in Installers => seenReceipt'[j].of \in committed'
    <2>1. /\ receipt.of \in Installers => receipt.of \in committed'
          /\ \A j \in Installers : seenReceipt[j].of \in Installers => seenReceipt[j].of \in committed'
          /\ ~Interrupted(i)
        BY <1>2, <1>4 DEF Answers, Written
    <2>2. Absent.of \notin Installers
        BY ContentsAssumption DEF Absent
    <2>3. CASE Walk(i)
        BY <2>1, <2>3 DEF Walk
    <2>4. CASE PlanReceipt(i)
        <3>1. PICK r \in {receipt, Absent} : seenReceipt' = [seenReceipt EXCEPT ![i] = r]
            BY <2>4 DEF PlanReceipt, Readable
        <3>2. \A j \in Installers : seenReceipt'[j] \in {seenReceipt[j], receipt, Absent}
            BY <3>1 DEF TypeOK
        <3>3. receipt' = receipt
            BY <2>4 DEF PlanReceipt, diskVars
        <3>. QED
            BY <2>1, <2>2, <3>2, <3>3
    <2>5. CASE WriteReceipt(i)
        BY <2>1, <2>5 DEF WriteReceipt, planVars
    <2>6. CASE UndoAsideRefused(i) \/ UndoReceipt(i) \/ Crash(i)
        <3>1. receipt' \in {receipt, Absent, RestoredReceipt(i)} /\ seenReceipt' = seenReceipt
            BY <2>6 DEF UndoAsideRefused, UndoReceipt, Crash, planVars
        <3>2. RestoredReceipt(i).of \in {Absent.of, seenReceipt[i].of}
            BY DEF RestoredReceipt
        <3>. QED
            BY <2>1, <2>2, <3>1, <3>2
    <2>. QED
        BY <2>1, <2>3, <2>4, <2>5, <2>6, Walks
<1>. QED
    BY <1>3, <1>4 DEF Written

(* A step of i leaves what another installer holds.                        *)
LEMMA OthersHold ==
    ASSUME NEW i \in Installers, Frame(i), NEW k \in Installers \ {i}, NEW w,
           Holds(k, w), k \in committed' => Wrote(k)'
    PROVE  Holds(k, w)'
BY DEF Frame, Holds, Keeps

(* Nobody comes to be claimed by a stride, and what is claimed stays       *)
(* backed: who gives up a tree it holds has closed its transaction, and    *)
(* as the receipt is its own, nobody else is claimed.                      *)
LEMMA StrideLinks ==
    ASSUME TypeOK, Written, Links, interrupts = 0, NEW i \in Installers, Frame(i), Answers(i),
           Stride(i)
    PROVE  Links'
<1>1. /\ \A j \in Installers \ {i} : pc'[j] = pc[j] /\ outcome'[j] = outcome[j]
      /\ UNCHANGED <<receipt, seenReceipt, committed>>
      /\ committed \subseteq Installers
    BY DEF Stride, Answers, TypeOK
<1>2. ASSUME NEW w \in Installers, Claim(w)'
      PROVE  Claim(w) /\ w \in committed
    <2>1. Claim(w)
        BY <1>1, <1>2 DEF Claim, Wrote, Stride
    <2>. QED
        BY <2>1, ClaimsWritten
<1>3. ASSUME NEW w \in Installers, Claim(w)', pc'[w] \in Settled
      PROVE  target'.of = w \/ \E k \in Installers : Holds(k, w)'
    <2>1. CASE pc[w] \notin Settled
        BY <1>1, <1>2, <1>3, <2>1 DEF Stride, Links, Given
    <2>2. CASE pc[w] \in Settled /\ target.of = w
        <3>1. Absent.of # w /\ Original(i).of = i
            BY ContentsAssumption DEF Absent, Original
        <3>. QED
            BY <2>2, <3>1 DEF Stride, Settled
    <2>3. ASSUME NEW k \in Installers, Holds(k, w)
          PROVE  \E j \in Installers : Holds(j, w)'
        <3>1. CASE k # i
            <4>1. k \in committed' => Wrote(k)'
                BY <1>1, <2>3 DEF Holds, Wrote
            <4>. QED
                BY <2>3, <3>1, <4>1, OthersHold
        <3>2. CASE k = i
            <4>1. i # w /\ i \in moved /\ pc[i] \in Keeping /\ Keeps(i) = w
                  /\ (i \in committed => Wrote(i))
                BY <2>3, <3>2 DEF Holds
            <4>2. ~(i \in committed /\ pc'[i] \notin Answerable)
                BY <1>1, <1>3, <4>1 DEF Claim, Wrote
            <4>3. i \in moved' /\ pc'[i] \in Keeping /\ Keeps(i)' = w
                BY <4>1, <4>2 DEF Stride
            <4>4. Holds(i, w)'
                BY <1>1, <4>1, <4>3 DEF Holds, Wrote
            <4>. QED
                BY <4>4
        <3>. QED
            BY <3>1, <3>2
    <2>. QED
        BY <1>2, <1>3, <2>1, <2>2, <2>3 DEF Links, Backed
<1>4. Given'
    BY <1>1, <1>2 DEF Links, Given, Stride
<1>5. \A j \in Installers : Counts(j)' => Counts(j)
    BY <1>1 DEF Stride, Counts
<1>6. Chain'
    BY <1>1, <1>5 DEF Links, Chain, Wrote
<1>. QED
    BY <1>3, <1>4, <1>6 DEF Links, Backed

(* Who plans has not written its receipt: nobody is claimed through it.    *)
LEMMA PlanLinks ==
    ASSUME TypeOK, Receipts, Links, NEW i \in Installers, Frame(i), Answers(i), PlanReceipt(i)
    PROVE  Links'
<1>1. /\ pc[i] = "idle" /\ pc'[i] = "plan"
      /\ \A j \in Installers \ {i} :
            pc'[j] = pc[j] /\ outcome'[j] = outcome[j] /\ seenReceipt'[j] = seenReceipt[j]
      /\ UNCHANGED <<target, receipt, committed>>
      /\ committed \subseteq Installers
    BY DEF PlanReceipt, Answers, TypeOK, Goto, diskVars, txVars
<1>2. i \notin committed /\ ~Wrote(i) /\ ~Wrote(i)'
    BY <1>1 DEF Receipts, Stems, Unwritten, Wrote
<1>3. \A w : Claim(w)' => Claim(w)
    BY <1>1, <1>2 DEF Claim, Wrote
<1>4. ASSUME NEW w, NEW k \in Installers, Holds(k, w)
      PROVE  Holds(k, w)'
    <2>1. k # i
        BY <1>1, <1>4 DEF Holds, Keeping
    <2>2. k \in committed' => Wrote(k)'
        BY <1>1, <1>4 DEF Holds, Wrote
    <2>. QED
        BY <1>4, <2>1, <2>2, OthersHold
<1>5. Backed'
    BY <1>1, <1>3, <1>4 DEF Links, Backed, Settled
<1>6. Given'
    BY <1>1, <1>3 DEF Links, Given
<1>7. Chain'
    BY <1>1, <1>2 DEF Links, Chain, Counts, Wrote
<1>. QED
    BY <1>5, <1>6, <1>7 DEF Links

(* i writes over the receipt it planned on: who was named by that one may  *)
(* still be named again, by i; nobody else is claimed any more.            *)
LEMMA WriteLinks ==
    ASSUME TypeOK, Receipts, Links, NEW i \in Installers, Frame(i), Answers(i), WriteReceipt(i)
    PROVE  Links'
<1>1. /\ pc[i] = "receipt" /\ pc'[i] = "check"
      /\ receipt = seenReceipt[i] /\ receipt' = [of |-> i, by |-> i]
      /\ committed' = committed \cup {i}
      /\ \A j \in Installers \ {i} : pc'[j] = pc[j] /\ outcome'[j] = outcome[j]
      /\ UNCHANGED <<target, seenReceipt, backup, recovery, moved>>
      /\ committed \subseteq Installers
    BY DEF WriteReceipt, Answers, TypeOK, Goto, planVars
<1>2. i \notin committed
    BY <1>1 DEF Receipts, Unwritten
<1>3. \A l : Wrote(l)' => l = i
    BY <1>1 DEF Wrote
<1>4. \A w \in Installers : Claim(w)' => w = i \/ receipt.of = w
    BY <1>1, <1>3 DEF Claim
<1>5. \A w \in Installers : Claim(w)' => w = i \/ Claim(w)
    BY <1>4 DEF Claim
<1>6. ASSUME NEW w \in Installers, w # i, Claim(w)', NEW k \in Installers, Holds(k, w)
      PROVE  Holds(k, w)'
    <2>1. CASE k # i
        <3>1. k \notin committed
            BY <1>4, <1>6 DEF Holds, Wrote
        <3>. QED
            BY <1>1, <1>6, <2>1, <3>1, OthersHold
    <2>2. CASE k = i
        <3>1. Keeps(i)' = Keeps(i) /\ Wrote(i)'
            BY <1>1 DEF Keeps, Wrote
        <3>. QED
            BY <1>1, <1>6, <2>2, <3>1 DEF Holds, Keeping
    <2>. QED
        BY <2>1, <2>2
<1>7. Backed'
    BY <1>1, <1>5, <1>6 DEF Links, Backed, Settled
<1>8. Given'
    BY <1>1, <1>5 DEF Links, Given
<1>9. ASSUME NEW j \in Installers, Counts(j)'
      PROVE  /\ receipt'.of \in Installers
             /\ \A l \in Installers : Wrote(l)' /\ seenReceipt'[l].of \notin Installers => j = l
    <2>1. j = i \/ Counts(j)
        BY <1>1, <1>9 DEF Counts
    <2>2. j = i \/ receipt.of \in Installers
        BY <2>1 DEF Links, Chain
    <2>. QED
        BY <1>1, <1>3, <2>2
<1>10. Chain'
    BY <1>9 DEF Chain
<1>. QED
    BY <1>7, <1>8, <1>10 DEF Links

(* i puts back the receipt it replaced: whom that one names was claimed    *)
(* through i, and whoever holds that tree has written no receipt.          *)
LEMMA GiveLinks ==
    ASSUME TypeOK, Receipts, Written, Links, interrupts = 0,
           NEW i \in Installers, Frame(i), Answers(i), UndoReceipt(i)
    PROVE  Links'
<1>1. /\ pc[i] = "undoReceipt" /\ pc'[i] = "undoClean"
      /\ i \in committed => Wrote(i)
      /\ receipt' = IF i \in committed THEN RestoredReceipt(i) ELSE receipt
      /\ \A j \in Installers \ {i} : pc'[j] = pc[j] /\ outcome'[j] = outcome[j]
      /\ UNCHANGED <<target, seenReceipt, committed>>
      /\ committed \subseteq Installers
    BY DEF UndoReceipt, Answers, TypeOK, Goto, planVars, txVars
<1>2. /\ seenReceipt[i].of # i
      /\ Absent.of \notin Installers /\ Absent.by \notin Installers
    BY ContentsAssumption DEF Receipts, Absent
<1>3. i \in committed => \A l \in Installers : ~Wrote(l)'
    BY <1>1, <1>2 DEF Wrote, RestoredReceipt
<1>4. i \in committed => \A l \in Installers : Wrote(l) => l = i
    BY <1>1 DEF Wrote
<1>5. ASSUME NEW w \in Installers, Claim(w)'
      PROVE  Claim(w) /\ w # i
    <2>1. CASE i \in committed
        <3>1. receipt'.of = w
            BY <1>1, <1>3, <1>5, <2>1 DEF Claim
        <3>2. seenReceipt[i].of = w
            BY <1>1, <1>2, <2>1, <3>1 DEF RestoredReceipt
        <3>. QED
            BY <1>1, <1>2, <2>1, <3>2 DEF Claim, Answerable
    <2>2. CASE i \notin committed
        <3>1. Claim(w)
            BY <1>1, <1>5, <2>2 DEF Claim, Wrote
        <3>. QED
            BY <2>2, <3>1, ClaimsWritten
    <2>. QED
        BY <2>1, <2>2
<1>6. ASSUME NEW w \in Installers, NEW k \in Installers, Holds(k, w)
      PROVE  Holds(k, w)'
    <2>1. k # i
        BY <1>1, <1>6 DEF Holds, Keeping
    <2>2. k \in committed' => Wrote(k)'
        BY <1>1, <1>4, <1>6, <2>1 DEF Holds, Wrote
    <2>. QED
        BY <1>6, <2>1, <2>2, OthersHold
<1>7. Backed'
    BY <1>1, <1>5, <1>6 DEF Links, Backed
<1>8. Given'
    BY <1>1, <1>5 DEF Links, Given
<1>9. ASSUME NEW j \in Installers, Counts(j)'
      PROVE  /\ receipt'.of \in Installers
             /\ \A l \in Installers : Wrote(l)' /\ seenReceipt'[l].of \notin Installers => j = l
    <2>1. j # i /\ Counts(j)
        BY <1>1, <1>9 DEF Counts, Answerable
    <2>2. CASE i \in committed
        <3>1. seenReceipt[i].of \in Installers
            BY <1>1, <2>1, <2>2 DEF Links, Chain
        <3>2. receipt'.of = seenReceipt[i].of
            BY <1>1, <1>2, <2>2, <3>1 DEF RestoredReceipt
        <3>. QED
            BY <1>3, <2>2, <3>1, <3>2
    <2>3. CASE i \notin committed
        BY <1>1, <2>1, <2>3 DEF Links, Chain, Wrote
    <2>. QED
        BY <2>2, <2>3
<1>10. Chain'
    BY <1>9 DEF Chain
<1>. QED
    BY <1>7, <1>8, <1>10 DEF Links

(* i moves a tree aside, and holds it from then on. *)
LEMMA AsideLinks ==
    ASSUME TypeOK, Receipts, Privates, Links, NEW i \in Installers, Frame(i), Answers(i),
           MoveAside(i)
    PROVE  Links'
<1>1. /\ pc[i] = "aside" /\ pc'[i] = "publish"
      /\ backup'[i] = target /\ i \in moved' /\ recovery'[i] = recovery[i]
      /\ \A j \in Installers \ {i} : pc'[j] = pc[j] /\ outcome'[j] = outcome[j]
      /\ UNCHANGED <<receipt, seenReceipt, committed>>
      /\ committed \subseteq Installers
    BY DEF MoveAside, Answers, TypeOK, Goto, planVars
<1>2. i \notin committed /\ recovery[i] = Absent
    BY <1>1 DEF Receipts, Unwritten, Privates, Private
<1>3. \A w : Claim(w)' => Claim(w)
    BY <1>1, <1>2 DEF Claim, Wrote
<1>4. ASSUME NEW w \in Installers, w # i, target.of = w
      PROVE  Holds(i, w)'
    BY <1>1, <1>2, <1>4 DEF Holds, Keeps, Keeping
<1>5. ASSUME NEW w, NEW k \in Installers, Holds(k, w)
      PROVE  Holds(k, w)'
    <2>1. k # i
        BY <1>1, <1>5 DEF Holds, Keeping
    <2>2. k \in committed' => Wrote(k)'
        BY <1>1, <1>5 DEF Holds, Wrote
    <2>. QED
        BY <1>5, <2>1, <2>2, OthersHold
<1>6. Backed'
    BY <1>1, <1>3, <1>4, <1>5 DEF Links, Backed, Settled
<1>7. Given'
    BY <1>1, <1>3 DEF Links, Given
<1>8. Chain'
    BY <1>1, <1>2 DEF Links, Chain, Counts, Wrote
<1>. QED
    BY <1>6, <1>7, <1>8 DEF Links

(* What i puts back is what it kept. *)
LEMMA RestoresKept ==
    ASSUME TypeOK, Privates, NEW i \in Installers, UndoAside(i), Keeps(i) # Nothing
    PROVE  target'.of = Keeps(i)
<1>1. pc[i] = "undoAside"
    BY DEF UndoAside
<1>2. CASE target' = recovery[i]
    <2>1. recovery[i] # Absent
        BY <1>2 DEF UndoAside, Restorable
    <2>. QED
        BY <1>2, <2>1 DEF Keeps
<1>3. CASE target' = backup[i] /\ (recovery[i].of = backup[i].of => recovery[i] = Absent)
    <2>1. recovery[i] = Absent \/ backup[i].of \in {recovery[i].of, Broken}
        BY <1>1 DEF Privates, Private
    <2>2. recovery[i] = Absent
        BY <1>3, <2>1, RestoresWhole
    <2>. QED
        BY <1>3, <2>2 DEF Keeps
<1>. QED
    BY <1>2, <1>3, RestoresWhole

(* i puts a tree back: where it held one, that one is in place.            *)
LEMMA RestoreLinks ==
    ASSUME TypeOK, Receipts, Privates, Links, NEW i \in Installers, Frame(i), Answers(i),
           UndoAside(i)
    PROVE  Links'
<1>1. /\ pc[i] = "undoAside" /\ pc'[i] = "undoReceipt"
      /\ target = Absent
      /\ \A j \in Installers \ {i} : pc'[j] = pc[j] /\ outcome'[j] = outcome[j]
      /\ UNCHANGED <<receipt, seenReceipt, committed>>
      /\ committed \subseteq Installers
    BY DEF UndoAside, Answers, TypeOK, Goto, planVars, txVars
<1>2. Nothing \notin Installers /\ Absent.of = Nothing
    BY ContentsAssumption DEF Absent
<1>3. \A w : Claim(w)' => Claim(w)
    BY <1>1 DEF Claim, Wrote, Answerable
<1>4. ASSUME NEW w \in Installers, NEW k \in Installers, Holds(k, w)
      PROVE  target'.of = w \/ Holds(k, w)'
    <2>1. CASE k = i
        BY <1>2, <1>4, <2>1, RestoresKept DEF Holds
    <2>2. CASE k # i
        <3>1. k \in committed' => Wrote(k)'
            BY <1>1, <1>4 DEF Holds, Wrote
        <3>. QED
            BY <1>4, <2>2, <3>1, OthersHold
    <2>. QED
        BY <2>1, <2>2
<1>5. Backed'
    BY <1>1, <1>2, <1>3, <1>4 DEF Links, Backed, Settled
<1>6. Given'
    BY <1>1, <1>3 DEF Links, Given
<1>7. Chain'
    BY <1>1 DEF Links, Chain, Counts, Wrote, Answerable
<1>. QED
    BY <1>5, <1>6, <1>7 DEF Links

(* Every step keeps the receipts and the trees of overlapping installers   *)
(* together.                                                               *)
LEMMA OverlapStep ==
    ASSUME IInv, Overlap, [Next]_vars
    PROVE  Overlap'
<1>. USE DEF IInv
<1>1. CASE UNCHANGED vars
    BY <1>1 DEF Overlap, Ended, Written, Calm, RollbackFailed, Links, Backed, Given, Chain, Counts,
                Claim, Wrote, Holds, Keeps, vars, diskVars, planVars, txVars, countVars
<1>2. CASE Next
    <2>1. PICK i \in Installers :
              Forward(i) \/ Interrupted(i) \/ Commit(i) \/ Rollback(i) \/ Crash(i)
        BY <1>2 DEF Next
    <2>2. Frame(i) /\ Answers(i)
        BY <2>1, Frames, Answering
    <2>3. Ended' /\ Written'
        BY <2>1, <2>2, CalmStep, WrittenStep DEF Overlap
    <2>4. ASSUME Calm'
          PROVE  Links'
        <3>1. Calm /\ ~Interrupted(i) /\ ~Crash(i) /\ ~RollbackFailed'
            BY <2>2, <2>4, CalmStep DEF Overlap, Calm
        <3>2. Links /\ Written /\ interrupts = 0
            BY <3>1 DEF Overlap, Calm
        <3>3. CASE Turns(i)
            BY <2>2, <3>2, <3>3, PlanLinks, WriteLinks, GiveLinks, AsideLinks, RestoreLinks
               DEF Turns
        <3>4. CASE ~Turns(i)
            BY <2>1, <2>2, <3>1, <3>2, <3>4, Strides, StrideLinks
        <3>. QED
            BY <3>3, <3>4
    <2>. QED
        BY <2>3, <2>4 DEF Overlap
<1>. QED
    BY <1>1, <1>2

(* Before any installer starts nobody is named.                            *)
LEMMA InitOverlap == Init => Overlap
BY ContentsAssumption DEF Init, Overlap, Ended, Written, Links, Backed, Given, Chain, Counts,
   Claim, Wrote, Verifying, Absent, Original

-----------------------------------------------------------------------------
(* A verified plug-in is kept, whatever fails. *)

(* c is in place, or kept by one that is not about to remove what it keeps. *)
Firm(c) ==
    \/ target.of = c
    \/ \E j \in Installers :
          pc[j] \notin {"undoReceipt", "undoClean", "cleanRecovery"} /\ InPrivate(j, c)

(* Who closed its transaction does not roll back; one of those that did is *)
(* in the profile, or kept by an installer that has not removed its backup. *)
Lasting ==
    /\ \A c \in closed : pc[c] \in {"cleanRecovery", "done", "dead"}
    /\ \A i \in Installers : Acknowledged(i) => i \in closed
    /\ interrupts = 0 /\ closed # {} => \E c \in closed : Firm(c)

(* Only the removal of the backup closes a transaction.                    *)
LEMMA ClosedStep ==
    ASSUME TypeOK, NEW i \in Installers,
           Pace(i) \/ Withdraw(i) \/ Discard(i) \/ Carries(i)
    PROVE  \/ closed' = closed
           \/ CleanBackup(i) /\ closed' = closed \cup {i} /\ target' = Original(i)
              /\ pc'[i] = "cleanRecovery"
BY DEF Pace, Withdraw, Discard, Carries, Stage, MoveAside, MoveAsideInterrupted, Publish,
       PublishInterrupted, CopyRecovery, CleanBackup, CleanBackupFails, CleanRecovery,
       UndoPublish, UndoAside, txVars, Goto, TypeOK

(* Who is told of success has closed its transaction.                      *)
LEMMA SuccessCloses ==
    ASSUME TypeOK, Receipts, Privates, NEW i \in Installers,
           Forward(i) \/ Interrupted(i) \/ Commit(i) \/ Rollback(i) \/ Crash(i),
           pc'[i] = "done", i \in committed', outcome'[i] \in {"ok", "restart"}
    PROVE  pc[i] = "cleanRecovery" /\ i \in closed
<1>1. /\ i \in committed => pc[i] \notin Unwritten
      /\ pc[i] = "cleanRecovery" => i \in closed
    BY DEF Receipts, Privates, Private
<1>. USE <1>1 DEF TypeOK, Unwritten, Goto, Finish, Fault, Undo, planVars, txVars, countVars
<1>2. CASE Forward(i)
    <2>1. CASE PlanReceipt(i) \/ PlanTarget(i) \/ Begin(i) \/ Refuse(i) \/ RefuseByFault(i)
        BY <2>1 DEF PlanReceipt, PlanTarget, Begin, Refuse, RefuseByFault
    <2>2. CASE Stage(i) \/ MoveAside(i) \/ NothingToMove(i) \/ MoveAsideRefused(i)
        BY <2>2 DEF Stage, MoveAside, NothingToMove, MoveAsideRefused
    <2>3. CASE Publish(i) \/ PublishRefused(i) \/ WriteReceipt(i) \/ WriteReceiptRefused(i)
        BY <2>3 DEF Publish, PublishRefused, WriteReceipt, WriteReceiptRefused
    <2>4. CASE Check(i) \/ CheckRefused(i) \/ BeginFails(i)
        BY <2>4 DEF Check, CheckRefused, BeginFails
    <2>5. CASE VerifyUsable(i) \/ VerifyNotReady(i) \/ VerifyFails(i)
        BY <2>5 DEF VerifyUsable, VerifyNotReady, VerifyFails
    <2>. QED
        BY <1>2, <2>1, <2>2, <2>3, <2>4, <2>5 DEF Forward
<1>3. CASE Interrupted(i)
    BY <1>3 DEF Interrupted, MoveAsideInterrupted, PublishInterrupted, WriteReceiptInterrupted
<1>4. CASE Commit(i)
    BY <1>4 DEF Commit, CommitRefused, CopyRecovery, CopyRecoveryFails, CleanBackup,
                CleanBackupFails, CleanRecovery, CleanRecoveryFails
<1>5. CASE Rollback(i)
    <2>1. CASE UndoPublish(i) \/ UndoPublishRefused(i) \/ NothingToRestore(i)
        BY <2>1 DEF UndoPublish, UndoPublishRefused, NothingToRestore, Stranded
    <2>2. CASE UndoAside(i) \/ UndoAsideRefused(i)
        BY <2>2 DEF UndoAside, UndoAsideRefused, Stranded
    <2>3. CASE UndoReceipt(i) \/ UndoReceiptRefused(i) \/ UndoClean(i) \/ UndoFails(i)
        BY <2>3 DEF UndoReceipt, UndoReceiptRefused, UndoClean, UndoFails, RolledBack, Stranded
    <2>. QED
        BY <1>5, <2>1, <2>2, <2>3 DEF Rollback
<1>6. CASE Crash(i)
    BY <1>6 DEF Crash
<1>. QED
    BY <1>2, <1>3, <1>4, <1>5, <1>6

(* What is firm is moved aside, restored or copied, or removed by one that *)
(* closes its transaction and leaves its own tree in place.                *)
LEMMA FirmStep ==
    ASSUME TypeOK, Privates, NEW i \in Installers, Frame(i),
           Pace(i) \/ Withdraw(i) \/ Discard(i) \/ Carries(i), interrupts' = 0,
           NEW c \in Installers, c = i => pc[i] \in {"cleanRecovery", "done", "dead"}, Firm(c)
    PROVE  Firm(c)' \/ (CleanBackup(i) /\ Firm(i)')
<1>. USE ContentsAssumption
<1>1. /\ Absent.of # c /\ Absent.of = Nothing
      /\ \A j \in Installers : Original(j).of = j
    BY DEF Absent, Original
<1>2. interrupts = 0 /\ Private(i)
    BY DEF Frame, Privates
(* What another installer keeps, it still keeps. *)
<1>3. CASE \E j \in Installers \ {i} :
              pc[j] \notin {"undoReceipt", "undoClean", "cleanRecovery"} /\ InPrivate(j, c)
    BY <1>3 DEF Frame, Firm, InPrivate
(* Where it is in place, i moves it aside. *)
<1>4. CASE target.of = c
    <2>1. CASE target' = target
        BY <1>4, <2>1 DEF Firm
    <2>2. CASE MoveAside(i)
        <3>1. backup'[i].of = c /\ pc'[i] = "publish"
            BY <1>4, <2>2 DEF MoveAside, Goto, TypeOK
        <3>. QED
            BY <3>1 DEF Firm, InPrivate
    <2>3. target' = target \/ MoveAside(i)
        <3>1. CASE Pace(i) \/ Withdraw(i) \/ Discard(i)
            BY <3>1 DEF Pace, Withdraw, Discard
        <3>2. CASE Stage(i) \/ CopyRecovery(i) \/ CleanBackup(i) \/ CleanBackupFails(i)
                   \/ CleanRecovery(i)
            BY <3>2 DEF Stage, CopyRecovery, CleanBackup, CleanBackupFails, CleanRecovery
        <3>3. CASE MoveAsideInterrupted(i) \/ PublishInterrupted(i)
            BY <1>2, <3>3 DEF MoveAsideInterrupted, PublishInterrupted
        <3>4. CASE Publish(i) \/ UndoAside(i)
            BY <1>1, <1>4, <3>4 DEF Publish, UndoAside
        <3>5. CASE UndoPublish(i)
            BY <1>1, <1>4, <3>5 DEF UndoPublish
        <3>. QED
            BY <3>1, <3>2, <3>3, <3>4, <3>5 DEF Carries
    <2>. QED
        BY <2>1, <2>2, <2>3
(* What i keeps is restored, or removed after it was copied. *)
<1>5. CASE pc[i] \notin {"undoReceipt", "undoClean", "cleanRecovery"} /\ InPrivate(i, c)
    <2>1. CASE pc'[i] \notin {"undoReceipt", "undoClean", "cleanRecovery"} /\ InPrivate(i, c)'
        BY <2>1 DEF Firm
    <2>2. CASE Pace(i)
        <3>1. pc'[i] \in {"undoReceipt", "undoClean"} => i \notin moved
            BY <1>5, <2>2 DEF Pace
        <3>2. i \in moved
            BY <1>1, <1>2, <1>5 DEF Private, InPrivate
        <3>. QED
            BY <1>5, <2>1, <2>2, <3>1, <3>2 DEF Pace, InPrivate
    <2>3. CASE Withdraw(i)
        BY <1>5, <2>1, <2>3 DEF Withdraw, InPrivate
    <2>4. CASE Discard(i)
        BY <1>5, <2>1, <2>4 DEF Discard, InPrivate
    <2>5. CASE Stage(i) \/ MoveAside(i)
        BY <1>1, <1>2, <1>5, <2>5 DEF Stage, MoveAside, Private, InPrivate, Unstaged
    <2>6. CASE Publish(i) \/ UndoPublish(i)
        BY <1>5, <2>1, <2>6 DEF Publish, UndoPublish, InPrivate, Goto, TypeOK
    <2>7. CASE MoveAsideInterrupted(i) \/ PublishInterrupted(i)
        BY <1>2, <2>7 DEF MoveAsideInterrupted, PublishInterrupted
    <2>8. CASE CopyRecovery(i)
        <3>1. pc[i] = "commit" /\ pc'[i] = "clean" /\ backup' = backup
            BY <2>8 DEF CopyRecovery, Goto, TypeOK
        <3>2. backup[i].of = c
            BY <1>1, <1>2, <1>5, <3>1 DEF Private, InPrivate
        <3>. QED
            BY <2>1, <3>1, <3>2 DEF InPrivate
    <2>9. CASE CleanBackup(i)
        BY <1>1, <2>9 DEF CleanBackup, Firm
    <2>10. CASE CleanBackupFails(i)
        <3>1. /\ pc[i] = "clean" /\ pc'[i] = "undoPublish"
              /\ recovery' = recovery
            BY <2>10 DEF CleanBackupFails, Goto, TypeOK
        <3>2. recovery[i].of = c
            BY <1>1, <1>2, <1>5, <3>1 DEF Private, InPrivate
        <3>. QED
            BY <2>1, <3>1, <3>2 DEF InPrivate
    <2>11. CASE CleanRecovery(i)
        BY <1>5, <2>11 DEF CleanRecovery
    <2>12. CASE UndoAside(i)
        <3>1. pc[i] = "undoAside"
            BY <2>12 DEF UndoAside
        <3>2. target'.of = c
            <4>1. target'.of # Broken /\ target'.of \in {backup[i].of, recovery[i].of}
                BY <2>12, RestoresWhole
            <4>2. recovery[i] = Absent \/ backup[i].of \in {recovery[i].of, Broken}
                BY <1>2, <3>1 DEF Private
            <4>3. CASE recovery[i] = Absent
                <5>1. target' = backup[i] /\ backup[i].of = c
                    BY <1>1, <1>5, <2>12, <4>3 DEF UndoAside, Restorable, InPrivate
                <5>. QED
                    BY <5>1
            <4>. QED
                BY <1>5, <4>1, <4>2, <4>3 DEF InPrivate
        <3>. QED
            BY <3>2 DEF Firm
    <2>. QED
        BY <2>2, <2>3, <2>4, <2>5, <2>6, <2>7, <2>8, <2>9, <2>10, <2>11, <2>12 DEF Carries
<1>. QED
    BY <1>3, <1>4, <1>5 DEF Firm

(* Who closed its transaction takes no further step but its last.          *)
LEMMA ClosedEnds ==
    ASSUME TypeOK, NEW i \in Installers, pc[i] \in {"cleanRecovery", "done", "dead"},
           Pace(i) \/ Withdraw(i) \/ Discard(i) \/ Carries(i),
           Forward(i) \/ Interrupted(i) \/ Commit(i) \/ Rollback(i) \/ Crash(i)
    PROVE  pc'[i] \in {"done", "dead"}
<1>1. CASE pc[i] \in {"done", "dead"}
    BY <1>1, FirstSteps DEF PlanReceipt, PlanTarget, Begin, Refuse, RefuseByFault, Crash
<1>2. CASE pc[i] = "cleanRecovery"
    <2>1. ~Forward(i) /\ ~Interrupted(i) /\ ~Rollback(i)
        BY <1>2 DEF Forward, Interrupted, Rollback, PlanReceipt, PlanTarget, Begin, Refuse,
            RefuseByFault, Stage, MoveAside, NothingToMove, MoveAsideRefused, Publish,
            PublishRefused, WriteReceipt, WriteReceiptRefused, Check, CheckRefused, BeginFails,
            VerifyUsable, VerifyNotReady, VerifyFails, MoveAsideInterrupted, PublishInterrupted,
            WriteReceiptInterrupted, UndoPublish, UndoPublishRefused, UndoAside, NothingToRestore,
            UndoAsideRefused, UndoReceipt, UndoReceiptRefused, UndoClean, UndoFails
    <2>2. CASE Crash(i)
        BY <2>2 DEF Crash, Goto, TypeOK
    <2>3. CASE Commit(i)
        BY <1>2, <2>3 DEF Commit, CommitRefused, CopyRecovery, CopyRecoveryFails, CleanBackup,
            CleanBackupFails, CleanRecovery, CleanRecoveryFails, Committed, Finish, Goto, TypeOK
    <2>. QED
        BY <2>1, <2>2, <2>3
<1>. QED
    BY <1>1, <1>2

(* A step of i writes no receipt in the name of another.                   *)
LEMMA OthersCommitted ==
    ASSUME TypeOK, NEW i \in Installers,
           Forward(i) \/ Interrupted(i) \/ Commit(i) \/ Rollback(i) \/ Crash(i)
    PROVE  committed' \subseteq committed \cup {i}
<1>1. CASE Walk(i)
    BY <1>1 DEF Walk
<1>2. CASE WriteReceipt(i)
    BY <1>2 DEF WriteReceipt
<1>3. CASE PlanReceipt(i) \/ WriteReceiptInterrupted(i) \/ UndoAsideRefused(i)
           \/ UndoReceipt(i) \/ Crash(i)
    BY <1>3 DEF PlanReceipt, WriteReceiptInterrupted, UndoAsideRefused, UndoReceipt, Crash, txVars
<1>. QED
    BY <1>1, <1>2, <1>3, Walks

(* Every step keeps a verified plug-in.                                    *)
LEMMA LastingStep ==
    ASSUME IInv, Lasting, [Next]_vars
    PROVE  Lasting'
<1>. USE DEF IInv
<1>1. CASE UNCHANGED vars
    BY <1>1 DEF Lasting, Acknowledged, Firm, InPrivate, vars, diskVars, planVars, txVars, countVars
<1>2. CASE Next
    <2>1. PICK i \in Installers :
              Forward(i) \/ Interrupted(i) \/ Commit(i) \/ Rollback(i) \/ Crash(i)
        BY <1>2 DEF Next
    <2>2. Frame(i) /\ Answers(i) /\ (Pace(i) \/ Withdraw(i) \/ Discard(i) \/ Carries(i))
        BY <2>1, Frames, Answering, Effects
    <2>3. \/ closed' = closed
          \/ CleanBackup(i) /\ closed' = closed \cup {i} /\ target' = Original(i)
             /\ pc'[i] = "cleanRecovery"
        BY <2>2, ClosedStep
    <2>4. \A c \in closed' : pc'[c] \in {"cleanRecovery", "done", "dead"}
        BY <2>1, <2>2, <2>3, ClosedEnds DEF Lasting, Frame, TypeOK
    <2>5. ASSUME NEW j \in Installers, Acknowledged(j)'
          PROVE  j \in closed'
        <3>1. CASE j = i
            BY <2>1, <2>2, <2>5, <3>1, SuccessCloses DEF Acknowledged, Frame
        <3>2. CASE j # i
            <4>1. j \in committed
                BY <2>1, <2>5, <3>2, OthersCommitted DEF Acknowledged
            <4>. QED
                BY <2>2, <2>5, <3>2, <4>1 DEF Answers, Acknowledged, Lasting, Frame
        <3>. QED
            BY <3>1, <3>2
    <2>6. ASSUME interrupts' = 0, closed' # {}
          PROVE  \E c \in closed' : Firm(c)'
        <3>1. CASE CleanBackup(i)
            <4>1. target'.of = i /\ i \in closed'
                BY <3>1 DEF CleanBackup, Original
            <4>. QED
                BY <4>1 DEF Firm
        <3>2. CASE ~CleanBackup(i)
            <4>1. closed' = closed /\ interrupts = 0
                BY <2>2, <2>3, <2>6, <3>2 DEF Frame
            <4>2. PICK c \in closed : Firm(c)
                BY <2>6, <4>1 DEF Lasting
            <4>3. c \in Installers /\ pc[c] \in {"cleanRecovery", "done", "dead"}
                BY <4>2 DEF Lasting, TypeOK
            <4>. QED
                BY <2>2, <2>6, <3>2, <4>1, <4>2, <4>3, FirmStep
        <3>. QED
            BY <3>1, <3>2
    <2>. QED
        BY <2>4, <2>5, <2>6 DEF Lasting
<1>. QED
    BY <1>1, <1>2

(* However many installers overlap, whatever fails and whoever is killed:  *)
(* once one was told of success, a plug-in whose verification succeeded is *)
(* in place or kept; and when all are through, none was killed and no      *)
(* rollback failed, reported or not, one is in place with its receipt.     *)
THEOREM AcknowledgedHolds == Spec => []AcknowledgedStays
<1>1. ASSUME IInv, Overlap, Quiet, ~RollbackFailed, crashes + interrupts = 0,
             NEW i \in Installers, Acknowledged(i)
      PROVE  \E j \in Installers : Installed(j)
    <2>1. crashes = 0 /\ interrupts = 0
        BY <1>1 DEF IInv, TypeOK
    <2>2. Calm /\ Links /\ Written /\ Ended
        BY <1>1, <2>1 DEF Calm, Overlap
    <2>3. Counts(i)
        BY <1>1 DEF Acknowledged, Counts
    <2>. DEFINE w == receipt.of
    <2>4. w \in Installers /\ w \in committed
        BY <2>1, <2>2, <2>3 DEF Links, Chain, Written
    <2>5. pc[w] = "done"
        BY <1>1, <2>1, <2>2, <2>4 DEF Quiet, Ended, IInv, Receipts, Unwritten
    <2>6. \A k \in Installers : ~Holds(k, w)
        BY <1>1 DEF Quiet, Holds, Keeping
    <2>7. target.of = w
        BY <2>2, <2>4, <2>5, <2>6 DEF Links, Backed, Claim, Settled
    <2>. QED
        BY <2>4, <2>7 DEF Installed
<1>2. ASSUME IInv, Lasting, interrupts = 0, NEW i \in Installers, Acknowledged(i)
      PROVE  \E j \in closed : OnDisk(j)
    <2>1. \E c \in closed : Firm(c)
        BY <1>2 DEF Lasting
    <2>. QED
        BY <1>2, <2>1 DEF Firm, InPrivate, OnDisk
<1>3. IInv /\ Overlap /\ Lasting => AcknowledgedStays
    BY <1>1, <1>2 DEF AcknowledgedStays, IInv, TypeOK
<1>4. Init => Lasting
    BY DEF Init, Lasting, Acknowledged
<1>. QED
    BY <1>3, <1>4, InitIInv, InvariantStep, InitOverlap, OverlapStep, LastingStep, PTL DEF Spec
===============================================================================
