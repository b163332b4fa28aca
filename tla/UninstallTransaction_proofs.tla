---------------------- MODULE UninstallTransaction_proofs ----------------------
(***************************************************************************)
(* Theorems about UninstallTransaction, for every number of installers and *)
(* removers and every number of failures, kills and unrecorded changes.    *)
(***************************************************************************)
EXTENDS UninstallTransaction, InstallTransaction_proofs

(* The points between the copy and the end of a removal.                   *)
Stocked == {"takeTree", "takeReceipt", "keepReceipt", "checkBox", "cleanBox", "cleanSnapshot"}

(* What is in the quarantine before anything is moved, and when it is      *)
(* removed.                                                                *)
Boxes ==
    \A r \in Removers :
        /\ at[r] \in {"idle", "plan", "begin", "capture", "copy", "takeTree"} =>
              job[r].box = Absent /\ job[r].boxedPaper = Absent
        /\ at[r] = "cleanBox" => job[r].box = job[r].held
        /\ at[r] \in Stocked => job[r].snapshot.by = r

RInv == RemovalTypeOK /\ Boxes

Acts(r) == Remove(r) \/ Restore(r) \/ KillRemover(r)
Works(i) == Forward(i) \/ Interrupted(i) \/ Commit(i) \/ Rollback(i) \/ Crash(i)

-----------------------------------------------------------------------------
(* Every step keeps the types.                                             *)

(* What removers copy is an object like any other.                         *)
LEMMA CopiesMade ==
    /\ \A c \in Contents, r \in Removers : Copy(c, r) \in Objects
    /\ \A o \in Objects : HalfRemoved(o) \subseteq Objects
    /\ \A o \in Objects : \A h \in HalfRemoved(o) : h.by = o.by
    /\ \A c, r : Copy(c, r).by = r /\ Copy(c, r).of = c
BY DEF Copy, HalfRemoved, Objects, Contents

(* What an installer does leaves the removers alone.                       *)
LEMMA InstallersKeepTypes ==
    ASSUME RemovalTypeOK, NEW i \in Installers, Works(i), UNCHANGED <<at, job, answer>>
    PROVE  RemovalTypeOK'
BY ForwardTypes, InterruptedTypes, CommitTypes, RollbackTypes DEF RemovalTypeOK, Works

(* What a remover can do to the profile keeps the types of installers.     *)
LEMMA ProfileTypes ==
    ASSUME TypeOK, UNCHANGED installVars, target' \in Objects, receipt' \in Objects,
           faults' \in Nat, crashes' \in Nat, interrupts' \in Nat
    PROVE  TypeOK'
BY DEF TypeOK, installVars, planVars, txVars

Unboxed == {"idle", "plan", "begin", "capture", "copy", "takeTree"}

(* r goes on to point a, with the job j, and whatever it does to the       *)
(* profile is done to typed objects.                                       *)
Goes(r, j, a) ==
    /\ j \in Jobs /\ job' = [job EXCEPT ![r] = j]
    /\ a \in RemoverPoints \ {"idle"} /\ at' = [at EXCEPT ![r] = a]
    /\ j.boxedPaper \in {Absent, j.paper}
    /\ j.snapshot # Absent => j.snapshot.by = r
    /\ a \in Unboxed => j.box = Absent /\ j.boxedPaper = Absent
    /\ a = "cleanBox" => j.box = j.held
    /\ a \in Stocked => j.snapshot.by = r
    /\ answer' \in [Removers -> Reports]
    /\ target' \in Objects /\ receipt' \in Objects
    /\ faults' \in Nat /\ crashes' \in Nat /\ interrupts' \in Nat

(* One remover takes a step.                                               *)
LEMMA JobTypes ==
    ASSUME RInv, NEW r \in Removers, NEW j, NEW a, Goes(r, j, a), UNCHANGED installVars
    PROVE  RInv'
<1>. USE DEF Goes
<1>1. TypeOK'
    BY ProfileTypes DEF RInv, RemovalTypeOK
<1>2. /\ job' \in [Removers -> Jobs] /\ at' \in [Removers -> RemoverPoints]
      /\ answer' \in [Removers -> Reports]
    BY DEF RInv, RemovalTypeOK
<1>3. ASSUME NEW s \in Removers
      PROVE  \/ s = r /\ job'[s] = j /\ at'[s] = a
             \/ s # r /\ job'[s] = job[s] /\ at'[s] = at[s]
    BY DEF RInv, RemovalTypeOK
<1>. QED
    BY <1>1, <1>2, <1>3 DEF RInv, RemovalTypeOK, Boxes, Unboxed

(* What a step finds.                                                      *)
LEMMA Found ==
    ASSUME RInv, NEW r \in Removers
    PROVE  /\ target \in Objects /\ receipt \in Objects /\ Absent \in Objects
           /\ faults \in Nat /\ crashes \in Nat /\ interrupts \in Nat
           /\ job[r] \in Jobs /\ Readable(r) \subseteq Objects
           /\ job = [job EXCEPT ![r] = job[r]]
           /\ job[r].boxedPaper \in {Absent, job[r].paper}
           /\ job[r].snapshot # Absent => job[r].snapshot.by = r
           /\ at[r] \in Unboxed => job[r].box = Absent /\ job[r].boxedPaper = Absent
           /\ at[r] = "cleanBox" => job[r].box = job[r].held
           /\ at[r] \in Stocked => job[r].snapshot.by = r
           /\ job[r].boxedPaper \in Objects /\ job[r].snapshot \in Objects
           /\ answer \in [Removers -> Reports]
           /\ \A told \in Reports : [answer EXCEPT ![r] = told] \in [Removers -> Reports]
<1>1. TypeOK => /\ target \in Objects /\ receipt \in Objects
                /\ faults \in Nat /\ crashes \in Nat /\ interrupts \in Nat
    BY DEF TypeOK
<1>2. RemovalTypeOK /\ Boxes
    BY DEF RInv
<1>3. /\ answer \in [Removers -> Reports]
      /\ \A told \in Reports : [answer EXCEPT ![r] = told] \in [Removers -> Reports]
    BY <1>2 DEF RemovalTypeOK
<1>. QED
    BY <1>1, <1>2, <1>3, ObjectsMade DEF RemovalTypeOK, Boxes, Jobs, Readable, Unboxed

(* The steps of a remover up to the transaction.                           *)
LEMMA PlanningTypes ==
    ASSUME RInv, NEW r \in Removers,
           \/ RPlanReceipt(r) \/ RPlanTarget(r) \/ AlreadyAbsent(r) \/ BeginRemoval(r)
           \/ RefuseRemoval(r) \/ CaptureBytes(r) \/ CaptureRefused(r) \/ BeginFailsUnchanged(r)
    PROVE  \E j, a : Goes(r, j, a)
<1>. USE Found DEF Goes, To, Ends, RemoverPoints, Reports, countVars, Unboxed, Stocked
<1>1. CASE RPlanReceipt(r)
    <2>1. PICK p \in Readable(r) : job' = [job EXCEPT ![r] = [@ EXCEPT !.paper = p]]
        BY <1>1 DEF RPlanReceipt
    <2>. DEFINE j == [job[r] EXCEPT !.paper = p]
    <2>2. /\ j \in Jobs /\ j.box = job[r].box /\ j.boxedPaper = job[r].boxedPaper
          /\ j.snapshot = job[r].snapshot
        BY <2>1 DEF Jobs
    <2>. HIDE DEF j
    <2>3. job' = [job EXCEPT ![r] = j]
        BY <2>1 DEF j
    <2>4. Goes(r, j, "plan")
        BY <1>1, <2>2, <2>3 DEF RPlanReceipt
    <2>. QED
        BY <2>4
<1>2. CASE RPlanTarget(r)
    <2>1. PICK owned \in BOOLEAN :
              job' = [job EXCEPT ![r] = [@ EXCEPT !.tree = target, !.owned = owned]]
        BY <1>2 DEF RPlanTarget
    <2>. DEFINE j == [job[r] EXCEPT !.tree = target, !.owned = owned]
    <2>2. /\ j \in Jobs /\ j.box = job[r].box /\ j.boxedPaper = job[r].boxedPaper
          /\ j.snapshot = job[r].snapshot /\ j.paper = job[r].paper
        BY <2>1 DEF Jobs
    <2>. HIDE DEF j
    <2>3. job' = [job EXCEPT ![r] = j]
        BY <2>1 DEF j
    <2>5. /\ UNCHANGED <<target, receipt, answer, countVars>> /\ at[r] = "plan"
          /\ at' = [at EXCEPT ![r] = "begin"]
        BY <1>2 DEF RPlanTarget
    <2>4. Goes(r, j, "begin")
        BY <2>2, <2>3, <2>5
    <2>. QED
        BY <2>4
<1>3. CASE CaptureBytes(r)
    <2>2. Goes(r, [job[r] EXCEPT !.held = target], "copy")
        BY <1>3 DEF CaptureBytes, Jobs
    <2>. QED
        BY <2>2
<1>4. CASE BeginRemoval(r)
    <2>1. Goes(r, job[r], "capture")
        BY <1>4 DEF BeginRemoval
    <2>. QED
        BY <2>1
<1>5. CASE AlreadyAbsent(r) \/ RefuseRemoval(r) \/ CaptureRefused(r) \/ BeginFailsUnchanged(r)
    <2>1. Goes(r, job[r], "done")
        BY <1>5 DEF AlreadyAbsent, RefuseRemoval, CaptureRefused, BeginFailsUnchanged, Fault
    <2>. QED
        BY <2>1
<1>. QED
    BY <1>1, <1>2, <1>3, <1>4, <1>5

(* The steps of the transaction.                                           *)
LEMMA TransactionTypes ==
    ASSUME RInv, NEW r \in Removers,
           \/ CopySnapshot(r) \/ TakeTree(r) \/ TakeTreeInterrupted(r) \/ TreeGone(r)
           \/ TakeReceipt(r) \/ TakeReceiptRefused(r)
           \/ KeepReceipt(r) \/ KeepReceiptFails(r) \/ KeepReceiptInterrupted(r)
           \/ CheckBox(r) \/ CleanBox(r) \/ CleanBoxFails(r)
           \/ CleanSnapshot(r) \/ CleanSnapshotFails(r) \/ RemovalFails(r)
    PROVE  \E j, a : Goes(r, j, a)
<1>. USE Found DEF Goes, To, Ends, RemoverPoints, Reports, countVars, Unboxed, Stocked
<1>0. /\ Copy(target.of, r) \in Objects /\ Copy(target.of, r).by = r
      /\ HalfRemoved(job[r].box) \subseteq Objects
      /\ \A h \in HalfRemoved(job[r].snapshot) : h \in Objects /\ h.by = job[r].snapshot.by
    BY CopiesMade, ObjectsMade DEF Jobs
<1>1. CASE CopySnapshot(r)
    <2>. DEFINE j == [job[r] EXCEPT !.snapshot = Copy(target.of, r)]
    <2>2. /\ j \in Jobs /\ j.box = job[r].box /\ j.boxedPaper = job[r].boxedPaper
          /\ j.snapshot = Copy(target.of, r) /\ j.paper = job[r].paper /\ j.held = job[r].held
        BY <1>1, <1>0 DEF Jobs, CopySnapshot
    <2>. HIDE DEF j
    <2>3. job' = [job EXCEPT ![r] = j]
        BY <1>1 DEF j, CopySnapshot
    <2>4. Goes(r, j, "takeTree")
        BY <1>0, <1>1, <2>2, <2>3 DEF CopySnapshot
    <2>. QED
        BY <2>4
<1>2. CASE TakeTree(r)
    <2>. DEFINE j == [job[r] EXCEPT !.box = target]
    <2>2. /\ j \in Jobs /\ j.box = target /\ j.boxedPaper = job[r].boxedPaper
          /\ j.snapshot = job[r].snapshot /\ j.paper = job[r].paper /\ j.held = job[r].held
        BY <1>2 DEF Jobs, TakeTree
    <2>. HIDE DEF j
    <2>3. job' = [job EXCEPT ![r] = j]
        BY <1>2 DEF j, TakeTree
    <2>4. Goes(r, j, "takeReceipt")
        BY <1>2, <2>2, <2>3 DEF TakeTree
    <2>. QED
        BY <2>4
<1>3. CASE TakeTreeInterrupted(r)
    <2>1. PICK kept \in BOOLEAN : job' = [job EXCEPT ![r] = [@ EXCEPT !.box = target, !.preserve = kept]]
        <3>1. (job[r].preserve \/ job[r].owned) \in BOOLEAN
            OBVIOUS
        <3>. QED
            BY <1>3, <3>1 DEF TakeTreeInterrupted
    <2>. DEFINE j == [job[r] EXCEPT !.box = target, !.preserve = kept]
    <2>2. /\ j \in Jobs /\ j.box = target /\ j.boxedPaper = job[r].boxedPaper
          /\ j.snapshot = job[r].snapshot /\ j.paper = job[r].paper /\ j.held = job[r].held
        BY <2>1 DEF Jobs
    <2>. HIDE DEF j
    <2>3. job' = [job EXCEPT ![r] = j]
        BY <2>1 DEF j
    <2>5. faults' \in Nat /\ crashes' \in Nat /\ interrupts' \in Nat
        BY <1>3 DEF TakeTreeInterrupted
    <2>6. /\ target' \in Objects /\ receipt' \in Objects
          /\ answer' \in [Removers -> Reports] /\ at' = [at EXCEPT ![r] = "restore"]
        BY <1>3 DEF TakeTreeInterrupted
    <2>4. Goes(r, j, "restore")
        BY <2>2, <2>3, <2>5, <2>6
    <2>. QED
        BY <2>4
<1>4. CASE TakeReceipt(r)
    <2>. DEFINE j == [job[r] EXCEPT !.boxedPaper = receipt]
    <2>2. /\ j \in Jobs /\ j.box = job[r].box /\ j.boxedPaper = receipt
          /\ j.snapshot = job[r].snapshot /\ j.paper = job[r].paper /\ j.held = job[r].held
        BY <1>4 DEF Jobs, TakeReceipt
    <2>. HIDE DEF j
    <2>3. job' = [job EXCEPT ![r] = j]
        BY <1>4 DEF j, TakeReceipt
    <2>4. Goes(r, j, "keepReceipt")
        BY <1>4, <2>2, <2>3 DEF TakeReceipt
    <2>. QED
        BY <2>4
<1>5. CASE KeepReceipt(r)
    <2>. DEFINE j == [job[r] EXCEPT !.recorded = TRUE]
    <2>2. /\ j \in Jobs /\ j.box = job[r].box /\ j.boxedPaper = job[r].boxedPaper
          /\ j.snapshot = job[r].snapshot /\ j.paper = job[r].paper /\ j.held = job[r].held
        BY <1>5 DEF Jobs, KeepReceipt
    <2>. HIDE DEF j
    <2>3. job' = [job EXCEPT ![r] = j]
        BY <1>5 DEF j, KeepReceipt
    <2>4. Goes(r, j, "checkBox")
        BY <1>5, <2>2, <2>3 DEF KeepReceipt
    <2>. QED
        BY <2>4
<1>6. CASE KeepReceiptFails(r)
    <2>. DEFINE j == [job[r] EXCEPT !.boxedPaper = Absent]
    <2>2. /\ j \in Jobs /\ j.box = job[r].box /\ j.boxedPaper = Absent
          /\ j.snapshot = job[r].snapshot /\ j.paper = job[r].paper /\ j.held = job[r].held
        BY <1>6 DEF Jobs, KeepReceiptFails, Fault
    <2>. HIDE DEF j
    <2>3. job' = [job EXCEPT ![r] = j]
        BY <1>6 DEF j, KeepReceiptFails, Fault
    <2>5. faults' \in Nat /\ crashes' \in Nat /\ interrupts' \in Nat
        BY <1>6 DEF KeepReceiptFails, Fault
    <2>6. /\ target' \in Objects /\ receipt' \in Objects
          /\ answer' \in [Removers -> Reports] /\ at' = [at EXCEPT ![r] = "restore"]
        BY <1>6 DEF KeepReceiptFails, Fault
    <2>4. Goes(r, j, "restore")
        BY <2>2, <2>3, <2>5, <2>6
    <2>. QED
        BY <2>4
<1>7. CASE KeepReceiptInterrupted(r)
    <2>1. PICK p \in {Absent, job[r].boxedPaper} : job' = [job EXCEPT ![r] = [@ EXCEPT !.boxedPaper = p]]
        BY <1>7 DEF KeepReceiptInterrupted
    <2>. DEFINE j == [job[r] EXCEPT !.boxedPaper = p]
    <2>2. /\ j \in Jobs /\ j.box = job[r].box /\ j.boxedPaper = p
          /\ j.snapshot = job[r].snapshot /\ j.paper = job[r].paper /\ j.held = job[r].held
        BY <2>1 DEF Jobs
    <2>. HIDE DEF j
    <2>3. job' = [job EXCEPT ![r] = j]
        BY <2>1 DEF j
    <2>5. faults' \in Nat /\ crashes' \in Nat /\ interrupts' \in Nat
        BY <1>7 DEF KeepReceiptInterrupted
    <2>6. /\ target' \in Objects /\ receipt' \in Objects
          /\ answer' \in [Removers -> Reports] /\ at' = [at EXCEPT ![r] = "restore"]
        BY <1>7 DEF KeepReceiptInterrupted
    <2>4. Goes(r, j, "restore")
        BY <2>1, <2>2, <2>3, <2>5, <2>6
    <2>. QED
        BY <2>4
<1>8. CASE CleanBox(r)
    <2>. DEFINE j == [job[r] EXCEPT !.box = Absent, !.boxedPaper = Absent]
    <2>2. /\ j \in Jobs /\ j.box = Absent /\ j.boxedPaper = Absent
          /\ j.snapshot = job[r].snapshot /\ j.paper = job[r].paper /\ j.held = job[r].held
        BY DEF Jobs
    <2>. HIDE DEF j
    <2>3. job' = [job EXCEPT ![r] = j]
        BY <1>8 DEF j, CleanBox
    <2>4. Goes(r, j, "cleanSnapshot")
        BY <1>8, <2>2, <2>3 DEF CleanBox
    <2>. QED
        BY <2>4
<1>9. CASE CleanBoxFails(r)
    <2>0. Fault /\ UNCHANGED <<target, receipt, answer>> /\ at' = [at EXCEPT ![r] = "restore"]
        BY <1>9 DEF CleanBoxFails
    <2>1. PICK b \in HalfRemoved(job[r].box), p \in {Absent, job[r].boxedPaper}, kept \in BOOLEAN :
              job' = [job EXCEPT ![r] = [@ EXCEPT !.box = b, !.boxedPaper = p, !.preserve = kept]]
        BY <1>9 DEF CleanBoxFails
    <2>2. b \in Objects /\ p \in Objects
        BY <1>0
    <2>. DEFINE j == [job[r] EXCEPT !.box = b, !.boxedPaper = p, !.preserve = kept]
    <2>3. /\ j \in Jobs /\ j.boxedPaper = p
          /\ j.snapshot = job[r].snapshot /\ j.paper = job[r].paper
        BY <2>2 DEF Jobs
    <2>. HIDE DEF j
    <2>4. job' = [job EXCEPT ![r] = j]
        BY <2>1 DEF j
    <2>5. Goes(r, j, "restore")
        BY <2>0, <2>3, <2>4 DEF Fault
    <2>. QED
        BY <2>5
<1>10. CASE CleanSnapshot(r)
    <2>. DEFINE j == [job[r] EXCEPT !.snapshot = Absent]
    <2>2. /\ j \in Jobs /\ j.box = job[r].box /\ j.boxedPaper = job[r].boxedPaper
          /\ j.snapshot = Absent /\ j.paper = job[r].paper /\ j.held = job[r].held
        BY <1>10 DEF Jobs, CleanSnapshot
    <2>. HIDE DEF j
    <2>3. job' = [job EXCEPT ![r] = j]
        BY <1>10 DEF j, CleanSnapshot
    <2>4. Goes(r, j, "done")
        BY <1>10, <2>2, <2>3 DEF CleanSnapshot
    <2>. QED
        BY <2>4
<1>11. CASE CleanSnapshotFails(r)
    <2>0. /\ Fault /\ UNCHANGED <<target, receipt, answer>> /\ at' = [at EXCEPT ![r] = "restore"]
          /\ at[r] = "cleanSnapshot"
        BY <1>11 DEF CleanSnapshotFails
    <2>1. PICK s \in HalfRemoved(job[r].snapshot) :
              job' = [job EXCEPT ![r] = [@ EXCEPT !.snapshot = s]]
        BY <1>11 DEF CleanSnapshotFails
    <2>2. s \in Objects /\ s.by = r
        BY <1>0, <2>0
    <2>. DEFINE j == [job[r] EXCEPT !.snapshot = s]
    <2>3. /\ j \in Jobs /\ j.boxedPaper = job[r].boxedPaper
          /\ j.snapshot = s /\ j.paper = job[r].paper
        BY <2>2 DEF Jobs
    <2>. HIDE DEF j
    <2>4. job' = [job EXCEPT ![r] = j]
        BY <2>1 DEF j
    <2>5. Goes(r, j, "restore")
        BY <2>0, <2>2, <2>3, <2>4 DEF Fault
    <2>. QED
        BY <2>5
<1>12. CASE CheckBox(r)
    <2>1. CASE job[r].box = job[r].held
        <3>. DEFINE j == [job[r] EXCEPT !.cleanable = TRUE]
        <3>2. /\ j \in Jobs /\ j.box = job[r].box /\ j.boxedPaper = job[r].boxedPaper
              /\ j.snapshot = job[r].snapshot /\ j.paper = job[r].paper /\ j.held = job[r].held
            BY DEF Jobs
        <3>. HIDE DEF j
        <3>3. job' = [job EXCEPT ![r] = j]
            BY <1>12, <2>1 DEF j, CheckBox
        <3>4. Goes(r, j, "cleanBox")
            BY <1>12, <2>1, <3>2, <3>3 DEF CheckBox
        <3>. QED
            BY <3>4
    <2>2. CASE job[r].box # job[r].held
        <3>1. Goes(r, job[r], "restore")
            BY <1>12, <2>2 DEF CheckBox
        <3>. QED
            BY <3>1
    <2>. QED
        BY <2>1, <2>2
<1>13. CASE TreeGone(r) \/ TakeReceiptRefused(r) \/ RemovalFails(r)
    <2>1. Goes(r, job[r], "restore")
        BY <1>13 DEF TreeGone, TakeReceiptRefused, RemovalFails, Fault
    <2>. QED
        BY <2>1
<1>. QED
    BY <1>1, <1>2, <1>3, <1>4, <1>5, <1>6, <1>7, <1>8, <1>9, <1>10, <1>11, <1>12, <1>13

(* The steps of a restore.                                                 *)
LEMMA RestoreTypes ==
    ASSUME RInv, NEW r \in Removers, Restore(r)
    PROVE  \E j, a : Goes(r, j, a)
<1>. USE Found DEF Goes, To, Ends, RemoverPoints, Reports, countVars, Unboxed, Stocked
<1>0. /\ Copy(Broken, r) \in Objects /\ Copy(job[r].held.of, r) \in Objects
      /\ Copy(job[r].paper.of, r) \in Objects /\ ReceiptAsLeft(r) \in Objects
    BY CopiesMade, ObjectsMade DEF Jobs, ReceiptAsLeft, Contents
<1>1. CASE RemoveRemains(r)
    <2>1. Goes(r, job[r], "rebuild")
        BY <1>1 DEF RemoveRemains
    <2>. QED
        BY <2>1
<1>2. CASE Rebuild(r)
    <2>1. Goes(r, job[r], "fill")
        BY <1>0, <1>2 DEF Rebuild
    <2>. QED
        BY <2>1
<1>3. CASE Fill(r)
    <2>1. Goes(r, job[r], "restoreReceipt")
        BY <1>0, <1>3 DEF Fill
    <2>. QED
        BY <2>1
<1>4. CASE RestoreReceipt(r)
    <2>1. Goes(r, job[r], "linkReceipt")
        BY <1>0, <1>4 DEF RestoreReceipt
    <2>. QED
        BY <2>1
<1>5. CASE LinkReceipt(r)
    <2>1. Goes(r, job[r], "validate")
        BY <1>0, <1>5 DEF LinkReceipt
    <2>. QED
        BY <2>1
<1>6. CASE RestoreRefused(r)
    <2>1. Goes(r, job[r], "done")
        BY <1>6 DEF RestoreRefused
    <2>. QED
        BY <2>1
<1>7. CASE RestoreFails(r)
    <2>1. target' \in Objects /\ receipt' \in Objects
        BY <1>0, <1>7 DEF RestoreFails
    <2>2. Goes(r, job[r], "done")
        BY <1>7, <2>1 DEF RestoreFails, Fault
    <2>. QED
        BY <2>2
<1>8. CASE Validate(r)
    <2>1. PICK s \in {Absent, job[r].snapshot} : job' = [job EXCEPT ![r] = [@ EXCEPT !.snapshot = s]]
        BY <1>8 DEF Validate, Tidied
    <2>. DEFINE j == [job[r] EXCEPT !.snapshot = s]
    <2>2. /\ j \in Jobs /\ j.box = job[r].box /\ j.boxedPaper = job[r].boxedPaper
          /\ j.snapshot = s /\ j.paper = job[r].paper /\ j.held = job[r].held
        BY <2>1 DEF Jobs
    <2>. HIDE DEF j
    <2>3. job' = [job EXCEPT ![r] = j]
        BY <2>1 DEF j
    <2>5. /\ UNCHANGED <<target, receipt, countVars>> /\ at' = [at EXCEPT ![r] = "done"]
          /\ answer' = [answer EXCEPT ![r] = "failed"]
        BY <1>8 DEF Validate
    <2>4. Goes(r, j, "done")
        BY <2>1, <2>2, <2>3, <2>5
    <2>. QED
        BY <2>4
<1>. QED
    BY <1>1, <1>2, <1>3, <1>4, <1>5, <1>6, <1>7, <1>8 DEF Restore

(* The kill.                                                               *)
LEMMA KillTypes ==
    ASSUME RInv, NEW r \in Removers, KillRemover(r)
    PROVE  Goes(r, job'[r], "dead")
<1>. USE Found DEF Goes, To, RemoverPoints, countVars, Unboxed, Stocked
<1>1. /\ target' \in Objects /\ UNCHANGED <<receipt, answer, faults, interrupts>>
      /\ crashes' \in Nat /\ at' = [at EXCEPT ![r] = "dead"]
    BY DEF KillRemover
<1>2. CASE UNCHANGED job
    BY <1>1, <1>2
<1>3. CASE /\ at[r] = "cleanBox"
           /\ \E b \in HalfRemoved(job[r].box) : job' = [job EXCEPT ![r].box = b]
    <2>1. PICK b \in Objects : job' = [job EXCEPT ![r] = [@ EXCEPT !.box = b]]
        BY <1>3, CopiesMade DEF Jobs
    <2>. DEFINE j == [job[r] EXCEPT !.box = b]
    <2>2. /\ j \in Jobs /\ j.box = b /\ j.boxedPaper = job[r].boxedPaper
          /\ j.snapshot = job[r].snapshot /\ j.paper = job[r].paper /\ j.held = job[r].held
        BY <2>1 DEF Jobs
    <2>. HIDE DEF j
    <2>3. job' = [job EXCEPT ![r] = j] /\ job'[r] = j
        BY <2>1 DEF j, RInv, RemovalTypeOK
    <2>4. Goes(r, j, "dead")
        BY <1>1, <2>2, <2>3
    <2>. QED
        BY <2>3, <2>4
<1>4. CASE /\ at[r] = "cleanSnapshot"
           /\ \E s \in HalfRemoved(job[r].snapshot) : job' = [job EXCEPT ![r].snapshot = s]
    <2>1. PICK s \in HalfRemoved(job[r].snapshot) : job' = [job EXCEPT ![r] = [@ EXCEPT !.snapshot = s]]
        BY <1>4
    <2>0. s \in Objects /\ s.by = job[r].snapshot.by
        BY CopiesMade DEF Jobs
    <2>. DEFINE j == [job[r] EXCEPT !.snapshot = s]
    <2>2. /\ j \in Jobs /\ j.box = job[r].box /\ j.boxedPaper = job[r].boxedPaper
          /\ j.snapshot = s /\ j.paper = job[r].paper /\ j.held = job[r].held
        BY <2>0 DEF Jobs
    <2>. HIDE DEF j
    <2>3. job' = [job EXCEPT ![r] = j] /\ job'[r] = j
        BY <2>1 DEF j, RInv, RemovalTypeOK
    <2>. QED
        BY <1>1, <1>4, <2>0, <2>2, <2>3
<1>. QED
    BY <1>2, <1>3, <1>4 DEF KillRemover

(* Any step of the profile's processes.                                    *)
LEMMA Steps ==
    ASSUME RemoverNext
    PROVE  \/ \E i \in Installers : Works(i) /\ UNCHANGED <<at, job, answer>>
           \/ \E r \in Removers : Acts(r) /\ UNCHANGED installVars
BY DEF RemoverNext, InstallStep, Works, Acts

(* Every step of a remover goes from one typed point to another.           *)
LEMMA ActTypes ==
    ASSUME RInv, NEW r \in Removers, Acts(r)
    PROVE  \E j, a : Goes(r, j, a)
BY PlanningTypes, TransactionTypes, RestoreTypes, KillTypes DEF Acts, Remove

(* Types and quarantines are kept by every step.                           *)
LEMMA RInvStep == RInv /\ [RemoverNext]_allVars => RInv'
<1>. SUFFICES ASSUME RInv, [RemoverNext]_allVars PROVE RInv'
    OBVIOUS
<1>1. CASE UNCHANGED allVars
    <2>1. UNCHANGED vars /\ UNCHANGED <<at, job, answer>>
        BY <1>1 DEF allVars
    <2>2. TypeOK'
        BY <2>1, StepTypes DEF RInv, RemovalTypeOK
    <2>. QED
        BY <2>1, <2>2 DEF RInv, RemovalTypeOK, Boxes
<1>2. CASE RemoverNext
    <2>1. ASSUME NEW i \in Installers, Works(i), UNCHANGED <<at, job, answer>>
          PROVE  RInv'
        BY <2>1, InstallersKeepTypes DEF RInv, Boxes
    <2>2. ASSUME NEW r \in Removers, Acts(r), UNCHANGED installVars
          PROVE  RInv'
        BY <2>2, ActTypes, JobTypes
    <2>. QED
        BY <1>2, <2>1, <2>2, Steps
<1>. QED
    BY <1>1, <1>2

(* They hold before anybody starts.                                        *)
LEMMA RInvInit == RemoverInit => RInv
<1>. SUFFICES ASSUME RemoverInit PROVE RInv
    OBVIOUS
<1>1. TypeOK
    BY InitTypes DEF RemoverInit
<1>2. NoJob \in Jobs
    BY ObjectsMade DEF NoJob, Jobs
<1>. QED
    BY <1>1, <1>2 DEF RInv, RemovalTypeOK, Boxes, RemoverInit, NoJob, RemoverPoints, Reports, Stocked

(* Every variable of the profile, of installers and of removers keeps its  *)
(* type, however many of them there are; what a remover has in quarantine  *)
(* and snapshot is what it planned and copied (_execute_uninstall).        *)
THEOREM RemovalTypeCorrect == RemoverSpec => []RemovalTypeOK
<1>1. RInv => RemovalTypeOK
    BY DEF RInv
<1>. QED
    BY <1>1, RInvInit, RInvStep, PTL DEF RemoverSpec

-----------------------------------------------------------------------------
(* The trees a remover does not own.                                       *)

(* What a step of r does to a tree that is not r's, in the profile.        *)
LEMMA TargetKept ==
    ASSUME RInv, NEW r \in Removers, Acts(r),
           target \notin {Absent, job[r].held}, target.by # r
    PROVE  target' = target \/ job'[r].box = target
<1>. USE DEF RInv, RemovalTypeOK, Jobs
<1>1. CASE Restore(r)
    <2>1. Copy(Broken, r).by = r
        BY CopiesMade
    <2>. QED
        BY <1>1, <2>1 DEF Restore, RemoveRemains, Rebuild, Fill, RestoreReceipt, LinkReceipt, Validate,
                          RestoreRefused, RestoreFails
<1>2. CASE KillRemover(r)
    BY <1>2 DEF KillRemover
<1>3. CASE TakeTree(r) \/ TakeTreeInterrupted(r)
    <2>0. job[r] \in Jobs
        OBVIOUS
    <2>1. CASE TakeTree(r)
        <3>1. [job[r] EXCEPT !.box = target].box = target
            BY <2>0
        <3>. QED
            BY <2>1, <3>1 DEF TakeTree
    <2>2. CASE TakeTreeInterrupted(r)
        <3>1. PICK kept :
                  job' = [job EXCEPT ![r] = [@ EXCEPT !.box = target, !.preserve = kept]]
            BY <2>2 DEF TakeTreeInterrupted
        <3>2. [job[r] EXCEPT !.box = target, !.preserve = kept].box = target
            BY <2>0
        <3>. QED
            BY <3>1, <3>2
    <2>. QED
        BY <1>3, <2>1, <2>2
<1>4. CASE Remove(r) /\ ~TakeTree(r) /\ ~TakeTreeInterrupted(r)
    BY <1>4 DEF Remove, RPlanReceipt, RPlanTarget, AlreadyAbsent, BeginRemoval, RefuseRemoval,
                CaptureBytes, CaptureRefused, BeginFailsUnchanged, CopySnapshot, TreeGone,
                TakeReceipt, TakeReceiptRefused, KeepReceipt, KeepReceiptFails,
                KeepReceiptInterrupted, CheckBox, CleanBox, CleanBoxFails, CleanSnapshot,
                CleanSnapshotFails, RemovalFails
<1>. QED
    BY <1>1, <1>2, <1>3, <1>4 DEF Acts

(* What it does to the quarantine.                                         *)
LEMMA BoxKept ==
    ASSUME RInv, NEW r \in Removers, Acts(r), job[r].box \notin {Absent, job[r].held}
    PROVE  job'[r].box = job[r].box
<1>. USE DEF RInv, RemovalTypeOK, Jobs
<1>1. at[r] \notin Unboxed \cup {"cleanBox"}
    BY DEF Boxes, Unboxed
<1>2. CASE KillRemover(r)
    BY <1>1, <1>2 DEF KillRemover
<1>3. CASE UNCHANGED job
    BY <1>3
<1>4. CASE Remove(r) /\ ~UNCHANGED job
    <2>1. \/ TakeReceipt(r) \/ KeepReceipt(r) \/ KeepReceiptFails(r) \/ KeepReceiptInterrupted(r)
          \/ CheckBox(r) \/ CleanSnapshot(r) \/ CleanSnapshotFails(r)
        BY <1>1, <1>4 DEF Remove, RPlanReceipt, RPlanTarget, AlreadyAbsent, BeginRemoval,
              RefuseRemoval, CaptureBytes, CaptureRefused, BeginFailsUnchanged, CopySnapshot,
              TreeGone, TakeTree, TakeTreeInterrupted, TakeReceiptRefused, CleanBox,
              CleanBoxFails, RemovalFails, Unboxed
    <2>2. CASE TakeReceipt(r) \/ KeepReceipt(r) \/ KeepReceiptFails(r)
        BY <2>2 DEF TakeReceipt, KeepReceipt, KeepReceiptFails
    <2>3. CASE KeepReceiptInterrupted(r) \/ CheckBox(r)
        BY <2>3 DEF KeepReceiptInterrupted, CheckBox
    <2>4. CASE CleanSnapshot(r) \/ CleanSnapshotFails(r)
        BY <2>4 DEF CleanSnapshot, CleanSnapshotFails
    <2>. QED
        BY <2>1, <2>2, <2>3, <2>4
<1>5. CASE Restore(r) /\ ~UNCHANGED job
    BY <1>5 DEF Restore, RemoveRemains, Rebuild, Fill, RestoreReceipt, LinkReceipt, Validate,
                RestoreRefused, RestoreFails
<1>. QED
    BY <1>2, <1>3, <1>4, <1>5 DEF Acts

(* A remover removes or breaks no tree but the one it captured and the     *)
(* copies it made, whatever installers and other removers do between its   *)
(* steps (_execute_uninstall: identities are compared before anything is   *)
(* removed; install.md: a swap leaves the foreign object untouched).       *)
THEOREM ForeignTreesAreKept == RemoverSpec => ForeignKept
<1>1. ASSUME RInv, RemoverNext, NEW r \in Removers, at'[r] # at[r],
             NEW t \in {target} \cup {job[s].box : s \in Removers},
             t \notin {Absent, job[r].held}, t.by # r
      PROVE  Standing(t)'
    <2>1. Acts(r)
        <3>1. ASSUME NEW s \in Removers, Acts(s), s # r PROVE FALSE
            BY <1>1, <3>1, ActTypes DEF Goes, RInv, RemovalTypeOK
        <3>. QED
            BY <1>1, <3>1, Steps
    <2>2. CASE t = target
        BY <1>1, <2>1, <2>2, TargetKept DEF Standing
    <2>3. ASSUME NEW s \in Removers, t = job[s].box
          PROVE  job'[s].box = t
        <3>1. CASE s = r
            BY <1>1, <2>1, <2>3, <3>1, BoxKept
        <3>2. CASE s # r
            BY <1>1, <2>1, <2>3, <3>2, ActTypes DEF Goes, RInv, RemovalTypeOK
        <3>. QED
            BY <3>1, <3>2
    <2>. QED
        BY <1>1, <2>2, <2>3 DEF Standing
<1>2. RInv /\ [RemoverNext]_allVars =>
        [\A r \in Removers : at'[r] # at[r] =>
          \A t \in {target} \cup {job[s].box : s \in Removers} :
              t \notin {Absent, job[r].held} /\ t.by # r => Standing(t)']_allVars
    BY <1>1
<1>. QED
    BY <1>2, RInvInit, RInvStep, PTL DEF RemoverSpec, ForeignKept

-----------------------------------------------------------------------------
(* A remover that is alone.                                                *)

(* Tree and receipt while r alone has started: as planned, or on the way   *)
(* back.                                                                   *)
Lone(r) ==
    LET T == job[r].tree
        P == job[r].paper IN
    /\ at[r] \in {"plan", "begin", "capture"} => receipt = P
    /\ at[r] \in {"begin", "capture"} => target = T
    /\ at[r] \notin {"idle", "plan", "begin", "done", "dead"} => T.of = P.of
    /\ at[r] \notin {"idle", "plan", "begin", "capture", "done", "dead"} => job[r].held = T
    /\ at[r] \in {"restoreReceipt", "linkReceipt", "validate"} => target.of = T.of
    /\ at[r] = "validate" => receipt.of = P.of
    /\ at[r] = "done" /\ answer[r] = "failed" => target.of = T.of /\ receipt.of = P.of

Lones == \A r \in Removers : RemovedAlone(r) => Lone(r)

(* Nobody interferes with what a remover reads when it is alone.           *)
LEMMA LoneReads ==
    ASSUME NEW r \in Removers, RemovedAlone(r)
    PROVE  Readable(r) = {receipt}
BY DEF RemovedAlone, Readable, Replacing

(* Planning and capturing find tree and receipt as planned.                *)
LEMMA LonePlans ==
    ASSUME RInv, NEW r \in Removers, RemovedAlone(r), Lone(r),
           \/ RPlanReceipt(r) \/ RPlanTarget(r) \/ AlreadyAbsent(r) \/ BeginRemoval(r)
           \/ RefuseRemoval(r) \/ CaptureBytes(r) \/ CaptureRefused(r) \/ BeginFailsUnchanged(r)
    PROVE  Lone(r)'
<1>0. at \in [Removers -> RemoverPoints] /\ job \in [Removers -> Jobs] /\ answer \in [Removers -> Reports]
    BY DEF RInv, RemovalTypeOK
<1>. USE <1>0, LoneReads DEF Lone, To, Ends, Jobs
<1>1. CASE RPlanReceipt(r)
    BY <1>1 DEF RPlanReceipt
<1>2. CASE RPlanTarget(r)
    <2>0. at[r] = "plan" /\ at'[r] = "begin" /\ UNCHANGED <<target, receipt>>
        BY <1>2 DEF RPlanTarget
    <2>2. PICK owned : job' = [job EXCEPT ![r] = [@ EXCEPT !.tree = target, !.owned = owned]]
        BY <1>2 DEF RPlanTarget
    <2>1. job'[r].tree = target /\ job'[r].paper = job[r].paper
        BY <2>2
    <2>. QED
        BY <2>0, <2>1
<1>3. CASE AlreadyAbsent(r) \/ BeginRemoval(r) \/ RefuseRemoval(r)
    BY <1>3 DEF AlreadyAbsent, BeginRemoval, RefuseRemoval
<1>4. CASE CaptureBytes(r)
    BY <1>4 DEF CaptureBytes
<1>5. CASE CaptureRefused(r) \/ BeginFailsUnchanged(r)
    BY <1>5 DEF CaptureRefused, BeginFailsUnchanged, Fault
<1>. QED
    BY <1>1, <1>2, <1>3, <1>4, <1>5

(* What the steps of a transaction leave of the job, and where they go.    *)
LEMMA LoneRemoves ==
    ASSUME RInv, NEW r \in Removers, Lone(r),
           \/ CopySnapshot(r) \/ TakeTree(r) \/ TakeTreeInterrupted(r) \/ TreeGone(r)
           \/ TakeReceipt(r) \/ TakeReceiptRefused(r)
           \/ KeepReceipt(r) \/ KeepReceiptFails(r) \/ KeepReceiptInterrupted(r)
           \/ CheckBox(r) \/ CleanBox(r) \/ CleanBoxFails(r)
           \/ CleanSnapshot(r) \/ CleanSnapshotFails(r) \/ RemovalFails(r)
    PROVE  Lone(r)'
<1>0. at \in [Removers -> RemoverPoints] /\ job \in [Removers -> Jobs] /\ answer \in [Removers -> Reports]
    BY DEF RInv, RemovalTypeOK
<1>1. /\ at[r] \notin {"idle", "plan", "begin", "capture", "done", "dead"}
      /\ \/ at'[r] \in {"takeTree", "takeReceipt", "keepReceipt", "checkBox", "cleanBox",
                         "cleanSnapshot", "restore"}
         \/ at'[r] = "done" /\ answer'[r] = "ok"
    BY <1>0 DEF CopySnapshot, TakeTree, TakeTreeInterrupted, TreeGone, TakeReceipt,
                TakeReceiptRefused, KeepReceipt, KeepReceiptFails, KeepReceiptInterrupted, CheckBox,
                CleanBox, CleanBoxFails, CleanSnapshot, CleanSnapshotFails, RemovalFails, To, Ends
<1>2. job'[r].tree = job[r].tree /\ job'[r].paper = job[r].paper /\ job'[r].held = job[r].held
    <2>. USE <1>0 DEF Jobs
    <2>1. CASE CopySnapshot(r) \/ TakeTree(r) \/ TreeGone(r)
        BY <2>1 DEF CopySnapshot, TakeTree, TreeGone
    <2>2. CASE TakeTreeInterrupted(r)
        BY <2>2 DEF TakeTreeInterrupted
    <2>3. CASE TakeReceipt(r) \/ TakeReceiptRefused(r) \/ KeepReceipt(r) \/ KeepReceiptFails(r)
        BY <2>3 DEF TakeReceipt, TakeReceiptRefused, KeepReceipt, KeepReceiptFails
    <2>4. CASE KeepReceiptInterrupted(r) \/ CheckBox(r)
        BY <2>4 DEF KeepReceiptInterrupted, CheckBox
    <2>5. CASE CleanBox(r)
        BY <2>5 DEF CleanBox
    <2>6. CASE CleanBoxFails(r)
        BY <2>6 DEF CleanBoxFails
    <2>7. CASE CleanSnapshot(r) \/ CleanSnapshotFails(r) \/ RemovalFails(r)
        BY <2>7 DEF CleanSnapshot, CleanSnapshotFails, RemovalFails
    <2>. QED
        BY <2>1, <2>2, <2>3, <2>4, <2>5, <2>6, <2>7
<1>. QED
    BY <1>1, <1>2 DEF Lone

(* The restoration brings tree and receipt back.                           *)
LEMMA LoneRestores ==
    ASSUME RInv, NEW r \in Removers, RemovedAlone(r), Lone(r), Restore(r) \/ KillRemover(r)
    PROVE  Lone(r)'
<1>0. at \in [Removers -> RemoverPoints] /\ job \in [Removers -> Jobs] /\ answer \in [Removers -> Reports]
    BY DEF RInv, RemovalTypeOK
<1>. USE <1>0, LoneReads, CopiesMade DEF Lone, To, Ends
<1>1. CASE RemoveRemains(r) \/ Rebuild(r) \/ Fill(r)
    BY <1>1 DEF RemoveRemains, Rebuild, Fill
<1>2. CASE RestoreReceipt(r) \/ LinkReceipt(r)
    BY <1>2 DEF RestoreReceipt, LinkReceipt
<1>3. CASE Validate(r)
    <2>1. job'[r].tree = job[r].tree /\ job'[r].paper = job[r].paper
        BY <1>3 DEF Validate, Jobs
    <2>. QED
        BY <1>3, <2>1 DEF Validate
<1>4. CASE RestoreRefused(r) \/ RestoreFails(r)
    <2>1. at'[r] = "done" /\ answer'[r] = "stranded"
        BY <1>4 DEF RestoreRefused, RestoreFails
    <2>. QED
        BY <2>1
<1>5. CASE KillRemover(r)
    <2>1. at'[r] = "dead"
        BY <1>5 DEF KillRemover
    <2>. QED
        BY <2>1
<1>. QED
    BY <1>1, <1>2, <1>3, <1>4, <1>5 DEF Restore

(* A step that somebody else takes ends the solitude of r.                 *)
LEMMA LonesStep == RInv /\ Lones /\ [RemoverNext]_allVars => Lones'
<1>. SUFFICES ASSUME RInv, Lones, [RemoverNext]_allVars, NEW r \in Removers, RemovedAlone(r)'
              PROVE  Lone(r)'
    BY DEF Lones
<1>1. CASE UNCHANGED allVars
    BY <1>1 DEF Lones, Lone, RemovedAlone, allVars, vars, diskVars
<1>2. ASSUME NEW i \in Installers, Works(i)
      PROVE  FALSE
    BY <1>2, Started DEF RInv, RemovalTypeOK, Works, RemovedAlone
<1>3. ASSUME NEW s \in Removers, Acts(s), UNCHANGED installVars
      PROVE  Lone(r)'
    <2>1. /\ at'[s] # "idle" /\ pc' = pc
          /\ \A q \in Removers \ {s} : at'[q] = at[q]
        <3>1. PICK a : a # "idle" /\ at' = [at EXCEPT ![s] = a]
            BY <1>3, ActTypes DEF Goes
        <3>. QED
            BY <1>3, <3>1 DEF RInv, RemovalTypeOK, installVars
    <2>2. s = r /\ RemovedAlone(r)
        BY <2>1 DEF RemovedAlone
    <2>. QED
        BY <1>3, <2>2, LonePlans, LoneRemoves, LoneRestores DEF Lones, Acts, Remove
<1>. QED
    BY <1>1, <1>2, <1>3, Steps

(* Whichever step of an uninstall fails, a remover that was alone and does *)
(* not own up to a failed restore leaves tree and receipt with the content *)
(* they had (_execute_uninstall, _restore_owned_bytes).                    *)
THEOREM RemovalRestoresWhenAlone == RemoverSpec => []RemovalFailureRestores
<1>1. RemoverInit => Lones
    BY DEF RemoverInit, Lones, Lone
<1>2. Lones => RemovalFailureRestores
    BY DEF Lones, Lone, RemovalFailureRestores
<1>. QED
    BY <1>1, <1>2, RInvInit, RInvStep, LonesStep, PTL DEF RemoverSpec

-----------------------------------------------------------------------------
(* What was acknowledged as removed.  A receipt's content is in one place: *)
(* in the receipt, with a remover that set it aside, or with an installer  *)
(* that replaced it and may yet put it back.  It passes from hand to hand, *)
(* and who acknowledges a removal keeps it.                                *)

(* No receipt vouches for an installer that has not written its own.       *)
Early == {"idle", "plan", "begin", "stage", "aside", "publish", "receipt"}
Named(c) == \A k \in Installers : c = k => pc[k] \notin Early

Vouching == {"checkBox", "cleanBox", "cleanSnapshot", "restore", "rebuild", "fill", "restoreReceipt"}
(* r has the receipt under a private name, or has removed it.              *)
HoldsReceipt(r) ==
    \/ at[r] \in {"keepReceipt", "linkReceipt"}
    \/ at[r] \in Vouching /\ job[r].recorded
    \/ answer[r] = "ok" /\ job[r].held # Absent

Returning == {"check", "verify", "commit", "clean", "undoPublish", "undoAside", "undoReceipt"}
(* Installer i has written its receipt and may put back the one before it. *)
Returns(i) == i \in committed /\ pc[i] \in Returning

Parties == Installers \cup Removers
(* What the receipt that x holds vouches for.                              *)
Hand(x) ==
    IF x \in Removers
    THEN IF HoldsReceipt(x) THEN job[x].paper.of ELSE Nothing
    ELSE IF Returns(x) THEN seenReceipt[x].of ELSE Nothing

(* Two never hold the same, and what is held is not in the receipt.        *)
Unshared ==
    /\ \A x \in Parties : Hand(x) # Nothing => Hand(x) # receipt.of
    /\ \A x, y \in Parties : Hand(x) # Nothing /\ Hand(x) = Hand(y) => x = y

(* A receipt that vouches for nothing is no receipt.                       *)
Whole(o) == o.of = Nothing => o = Absent
(* Receipts, present and planned on, name who has written one.             *)
Heard ==
    /\ Named(receipt.of) /\ Whole(receipt)
    /\ \A i \in Installers : Named(seenReceipt[i].of) /\ Whole(seenReceipt[i])
    /\ \A r \in Removers : Named(job[r].paper.of) /\ Whole(job[r].paper)

(* What the point of a remover tells of its job.                           *)
Course(r) ==
    /\ at[r] # "done" => answer[r] = "none"
    /\ at[r] \in {"idle", "plan", "begin", "capture"} => job[r].held = Absent
    /\ at[r] \in Unboxed \cup {"takeReceipt", "keepReceipt"} => ~job[r].recorded
    /\ at[r] \in {"checkBox", "cleanBox", "cleanSnapshot"} => job[r].recorded
    /\ at[r] \notin {"idle", "plan", "begin", "done", "dead"} => job[r].paper # Absent
    /\ answer[r] = "ok" /\ job[r].held # Absent => job[r].paper # Absent

Papers ==
    /\ Unshared
    /\ Heard
    /\ \A i \in committed : pc[i] \notin Early
    /\ \A r \in Removers : Course(r)

(* x passes on what it holds, takes what the receipt vouched for, or lets  *)
(* go; a receipt that is written vouches for something unheard of.         *)
Unheard == {c \in Installers : pc[c] \in Early}
Passes(x) ==
    /\ \A y \in Parties \ {x} : Hand(y)' = Hand(y)
    /\ \/ Hand(x)' \in {Hand(x), Nothing} /\ receipt'.of \in {receipt.of, Nothing} \cup Unheard
       \/ Hand(x)' = receipt.of /\ receipt'.of \in {Nothing} \cup Unheard
       \/ Hand(x)' = Nothing /\ receipt'.of = Hand(x)

(* An unwritten receipt is in nobody's hand.                               *)
LEMMA NamedHands ==
    ASSUME RInv, Heard
    PROVE  /\ receipt.of \notin Unheard
           /\ \A x \in Parties : Hand(x) \notin Unheard
           /\ Nothing \notin Unheard
<1>1. Nothing \notin Installers
    BY ContentsAssumption
<1>2. ASSUME NEW c, Named(c) PROVE c \notin Unheard
    BY <1>2 DEF Named, Unheard
<1>. QED
    BY <1>1, <1>2 DEF Heard, Hand, Unheard, Parties

(* Passing on leaves every content in one place.                           *)
LEMMA PassingOn ==
    ASSUME RInv, Heard, Unshared, NEW x \in Parties, Passes(x)
    PROVE  Unshared'
<1>. USE NamedHands
<1>1. \A y \in Parties \ {x} : Hand(y)' = Hand(y)
    BY DEF Passes
<1>2. ASSUME NEW y \in Parties, Hand(y)' # Nothing
      PROVE  Hand(y)' # receipt'.of
    BY <1>1, <1>2 DEF Passes, Unshared
<1>3. ASSUME NEW y \in Parties, NEW z \in Parties, Hand(y)' # Nothing, Hand(y)' = Hand(z)'
      PROVE  y = z
    BY <1>1, <1>3 DEF Passes, Unshared
<1>. QED
    BY <1>2, <1>3 DEF Unshared

-----------------------------------------------------------------------------
(* What installers do with receipts.                                       *)
(* The others keep their plan, and what was written stays written.         *)
OfOthers(i) ==
    /\ \A k \in Installers \ {i} : pc'[k] = pc[k] /\ seenReceipt'[k] = seenReceipt[k]
    /\ committed' \subseteq committed \cup {i}
    /\ committed \subseteq committed'

(* i plans on a receipt, writes its own over the planned one, puts the     *)
(* planned one back, or does nothing to it but, at most, move it away.     *)
Penned(i) ==
    \/ /\ pc[i] = "idle" /\ pc'[i] = "plan" /\ UNCHANGED <<committed, receipt>>
       /\ seenReceipt'[i] \in Readable(i)
    \/ /\ pc[i] = "receipt" /\ receipt = seenReceipt[i] /\ receipt' = [of |-> i, by |-> i]
       /\ UNCHANGED seenReceipt
       /\ \/ pc'[i] = "check" /\ i \in committed'
          \/ pc'[i] = "undoPublish" /\ UNCHANGED committed
    \/ /\ Returns(i) /\ receipt' = RestoredReceipt(i) /\ pc'[i] \in {"undoClean", "done"}
       /\ UNCHANGED <<committed, seenReceipt>>
    \/ /\ receipt' \in {receipt, Absent} /\ UNCHANGED <<committed, seenReceipt>>
       /\ pc[i] \notin Early => pc'[i] \notin Early
       /\ pc'[i] \in Returning => pc[i] \in Returning \cup Early

(* Every step of an installer is one of these.                             *)
LEMMA Pens ==
    ASSUME RInv, NEW i \in Installers, Works(i)
    PROVE  OfOthers(i) /\ Penned(i)
<1>0. pc \in [Installers -> Points] /\ seenReceipt \in [Installers -> Objects] /\ committed \subseteq Installers
    BY DEF RInv, RemovalTypeOK, TypeOK
<1>. USE <1>0 DEF OfOthers, Penned, Goto, Finish, Undo, diskVars, planVars, txVars, Returning, Early
<1>1. CASE Forward(i)
    <2>1. CASE PlanReceipt(i)
        BY <2>1 DEF PlanReceipt
    <2>2. CASE PlanTarget(i) \/ Begin(i) \/ Refuse(i) \/ RefuseByFault(i) \/ Stage(i)
        BY <2>2 DEF PlanTarget, Begin, Refuse, RefuseByFault, Stage
    <2>3. CASE MoveAside(i) \/ NothingToMove(i) \/ MoveAsideRefused(i) \/ Publish(i) \/ PublishRefused(i)
        BY <2>3 DEF MoveAside, NothingToMove, MoveAsideRefused, Publish, PublishRefused
    <2>4. CASE WriteReceipt(i)
        BY <2>4 DEF WriteReceipt
    <2>5. CASE WriteReceiptRefused(i) \/ Check(i) \/ CheckRefused(i) \/ BeginFails(i)
        BY <2>5 DEF WriteReceiptRefused, Check, CheckRefused, BeginFails
    <2>6. CASE VerifyUsable(i) \/ VerifyNotReady(i) \/ VerifyFails(i)
        BY <2>6 DEF VerifyUsable, VerifyNotReady, VerifyFails
    <2>. QED
        BY <1>1, <2>1, <2>2, <2>3, <2>4, <2>5, <2>6 DEF Forward
<1>2. CASE Interrupted(i)
    BY <1>2 DEF Interrupted, MoveAsideInterrupted, PublishInterrupted, WriteReceiptInterrupted
<1>3. CASE Commit(i)
    BY <1>3 DEF Commit, CommitRefused, CopyRecovery, CopyRecoveryFails, CleanBackup,
                CleanBackupFails, CleanRecovery, CleanRecoveryFails, Committed
<1>4. CASE Rollback(i)
    <2>1. CASE UndoPublish(i) \/ UndoPublishRefused(i)
        BY <2>1 DEF UndoPublish, UndoPublishRefused, Stranded
    <2>2. CASE UndoAside(i) \/ NothingToRestore(i)
        BY <2>2 DEF UndoAside, NothingToRestore
    <2>3. CASE UndoAsideRefused(i)
        BY <2>3 DEF UndoAsideRefused, Stranded, Returns
    <2>4. CASE UndoReceipt(i)
        BY <2>4 DEF UndoReceipt, Returns
    <2>5. CASE UndoReceiptRefused(i) \/ UndoClean(i) \/ UndoFails(i)
        BY <2>5 DEF UndoReceiptRefused, UndoClean, UndoFails, Stranded, RolledBack
    <2>. QED
        BY <1>4, <2>1, <2>2, <2>3, <2>4, <2>5 DEF Rollback
<1>5. CASE Crash(i)
    BY <1>5 DEF Crash
<1>. QED
    BY <1>1, <1>2, <1>3, <1>4, <1>5 DEF Works

(* Hands, spelt out before and after a step.                               *)
LEMMA HandOf ==
    /\ \A r \in Removers : Hand(r) = IF HoldsReceipt(r) THEN job[r].paper.of ELSE Nothing
    /\ \A i \in Installers : Hand(i) = IF Returns(i) THEN seenReceipt[i].of ELSE Nothing
    /\ \A r \in Removers : Hand(r)' = (IF HoldsReceipt(r)' THEN job'[r].paper.of ELSE Nothing)
    /\ \A i \in Installers : Hand(i)' = (IF Returns(i)' THEN seenReceipt'[i].of ELSE Nothing)
BY RemoversAssumption DEF Hand

(* Named stays named.                                                      *)
LEMMA StaysNamed ==
    ASSUME NEW i \in Installers, OfOthers(i), pc[i] \notin Early => pc'[i] \notin Early,
           NEW c, Named(c)
    PROVE  Named(c)'
BY DEF OfOthers, Named

(* An installer keeps the contents in one place.                           *)
LEMMA InstallerPapers ==
    ASSUME RInv, Papers, NEW i \in Installers, OfOthers(i), Penned(i), UNCHANGED <<at, job, answer>>
    PROVE  Papers'
<1>. DEFINE H == Hand(i)
<1>0. pc[i] \notin Early => pc'[i] \notin Early
    BY DEF Penned, Early, Returns, Returning
<1>1. \A y \in Parties \ {i} : Hand(y)' = Hand(y)
    <2>1. ASSUME NEW r \in Removers PROVE Hand(r)' = Hand(r)
        BY HandOf DEF HoldsReceipt
    <2>2. ASSUME NEW k \in Installers \ {i} PROVE Hand(k)' = Hand(k)
        BY HandOf DEF OfOthers, Returns
    <2>. QED
        BY <2>1, <2>2 DEF Parties
<1>2. \A r \in Removers : Course(r)'
    BY DEF Papers, Course
<1>3. i \in committed' => pc'[i] \notin Early
    BY DEF Penned, Papers, Early, Returning
<1>4. \A k \in committed' : pc'[k] \notin Early
    BY <1>3 DEF OfOthers, Papers, RInv, RemovalTypeOK, TypeOK
<1>5. CASE pc[i] = "idle" /\ pc'[i] = "plan" /\ UNCHANGED <<committed, receipt>>
           /\ seenReceipt'[i] \in Readable(i)
    <2>1. Hand(i)' = Nothing
        BY <1>5, HandOf DEF Returns, Returning
    <2>2. Unshared'
        BY <1>1, <1>5, <2>1, PassingOn DEF Passes, Parties, Papers
    <2>3. Named(seenReceipt'[i].of) /\ Whole(seenReceipt'[i])
        BY <1>5, ContentsAssumption DEF Readable, Absent, Whole, Papers, Heard, Named
    <2>4. Heard'
        BY <1>0, <1>5, <2>3, StaysNamed DEF Heard, Papers, OfOthers
    <2>. QED
        BY <1>2, <1>4, <2>2, <2>4 DEF Papers
<1>6. CASE /\ pc[i] = "receipt" /\ receipt = seenReceipt[i] /\ receipt' = [of |-> i, by |-> i]
           /\ UNCHANGED seenReceipt
           /\ \/ pc'[i] = "check" /\ i \in committed'
              \/ pc'[i] = "undoPublish" /\ UNCHANGED committed
    <2>1. Hand(i)' \in {receipt.of, Nothing} /\ Hand(i) = Nothing
        BY <1>6, HandOf DEF Returns, Returning
    <2>2. i \in Unheard /\ receipt'.of = i
        BY <1>6 DEF Unheard, Early
    <2>3. Unshared'
        BY <1>1, <2>1, <2>2, PassingOn DEF Passes, Parties, Papers
    <2>4. Named(i)'
        BY <1>6 DEF Named, Early
    <2>5. Heard'
        <3>1. Named(receipt.of)' /\ Whole(receipt)'
            BY <1>6, <2>4, ContentsAssumption DEF Whole
        <3>. QED
            BY <1>0, <1>6, <3>1, StaysNamed DEF Heard, Papers, OfOthers
    <2>. QED
        BY <1>2, <1>4, <2>3, <2>5 DEF Papers
<1>7. CASE /\ Returns(i) /\ receipt' = RestoredReceipt(i) /\ pc'[i] \in {"undoClean", "done"}
           /\ UNCHANGED <<committed, seenReceipt>>
    <2>1. Hand(i)' = Nothing /\ Hand(i) = seenReceipt[i].of
        BY <1>7, HandOf DEF Returns, Returning
    <2>2. receipt'.of = seenReceipt[i].of /\ (Whole(seenReceipt[i]) => Whole(receipt'))
        BY <1>7 DEF RestoredReceipt, Absent, Whole
    <2>3. Unshared'
        BY <1>1, <2>1, <2>2, PassingOn DEF Passes, Parties, Papers
    <2>4. Heard'
        BY <1>0, <1>7, <2>2, StaysNamed DEF Heard, Papers, OfOthers
    <2>. QED
        BY <1>2, <1>4, <2>3, <2>4 DEF Papers
<1>8. CASE /\ receipt' \in {receipt, Absent} /\ UNCHANGED <<committed, seenReceipt>>
           /\ pc'[i] \in Returning => pc[i] \in Returning \cup Early
    <2>1. Hand(i)' \in {Hand(i), Nothing}
        BY <1>8, HandOf DEF Returns, Papers
    <2>2. receipt'.of \in {receipt.of, Nothing}
        BY <1>8 DEF Absent
    <2>3. Unshared'
        BY <1>1, <2>1, <2>2, PassingOn DEF Passes, Parties, Papers
    <2>4. Named(Absent.of) /\ Whole(Absent)
        BY ContentsAssumption DEF Absent, Whole, Named
    <2>5. Heard'
        BY <1>0, <1>8, <2>4, StaysNamed DEF Heard, Papers, OfOthers
    <2>. QED
        BY <1>2, <1>4, <2>3, <2>5 DEF Papers
<1>. QED
    BY <1>5, <1>6, <1>7, <1>8 DEF Penned

-----------------------------------------------------------------------------
(* What removers do with receipts.                                         *)

(* The other removers and the installers stay as they are.                 *)
Leaves(r) ==
    /\ \A s \in Removers \ {r} : at'[s] = at[s] /\ job'[s] = job[s] /\ answer'[s] = answer[s]
    /\ UNCHANGED <<pc, seenReceipt, committed>>

(* The job of r tells the same of the receipt.                             *)
SameJob(r) ==
    /\ job'[r].paper = job[r].paper /\ job'[r].held = job[r].held
    /\ job'[r].recorded = job[r].recorded

(* Steps of r that have nothing to do with the receipt.                    *)
Onward ==
    {<<"plan", "begin">>, <<"copy", "takeTree">>, <<"takeTree", "takeReceipt">>,
     <<"checkBox", "cleanBox">>, <<"cleanBox", "cleanSnapshot">>, <<"restore", "rebuild">>,
     <<"rebuild", "fill">>, <<"fill", "restoreReceipt">>}
    \cup {"copy", "takeTree", "takeReceipt", "keepReceipt", "checkBox", "cleanBox", "cleanSnapshot"}
         \X {"restore"}

(* Every step of r, by what it does to the receipt: it plans on one, sets  *)
(* it aside, keeps it, gives it back, or leaves it alone.                  *)
Handles(r) ==
    \/ /\ at[r] = "idle" /\ at'[r] = "plan" /\ job'[r].paper \in Readable(r)
       /\ job'[r].held = job[r].held /\ job'[r].recorded = job[r].recorded
       /\ UNCHANGED receipt /\ answer'[r] = answer[r]
    \/ /\ at[r] = "begin" /\ at'[r] = "capture" /\ job[r].paper # Absent
       /\ SameJob(r) /\ UNCHANGED receipt /\ answer'[r] = answer[r]
    \/ /\ at[r] = "begin" /\ at'[r] = "done"
       /\ SameJob(r) /\ UNCHANGED receipt /\ answer'[r] # "none"
    \/ /\ at[r] = "capture" /\ at'[r] = "copy"
       /\ job'[r].paper = job[r].paper /\ job'[r].recorded = job[r].recorded
       /\ UNCHANGED receipt /\ answer'[r] = answer[r]
    \/ /\ at[r] = "takeReceipt" /\ at'[r] = "keepReceipt"
       /\ receipt = job[r].paper /\ receipt' = Absent
       /\ SameJob(r) /\ answer'[r] = answer[r]
    \/ /\ at[r] = "keepReceipt" /\ at'[r] = "checkBox"
       /\ job'[r].paper = job[r].paper /\ job'[r].held = job[r].held /\ job'[r].recorded
       /\ UNCHANGED receipt /\ answer'[r] = answer[r]
    \/ /\ at[r] = "keepReceipt" /\ at'[r] = "restore" /\ receipt' \in {job[r].paper, Absent}
       /\ SameJob(r) /\ answer'[r] = answer[r]
    \/ /\ at[r] = "cleanSnapshot" /\ at'[r] = "done" /\ answer'[r] = "ok"
       /\ SameJob(r) /\ UNCHANGED receipt
    \/ /\ at[r] = "restoreReceipt" /\ at'[r] = "linkReceipt"
       /\ receipt = ReceiptAsLeft(r) /\ receipt' = Absent
       /\ SameJob(r) /\ answer'[r] = answer[r]
    \/ /\ at[r] = "linkReceipt" /\ at'[r] = "validate" /\ receipt' = Copy(job[r].paper.of, r)
       /\ SameJob(r) /\ answer'[r] = answer[r]
    \/ /\ at[r] = "linkReceipt" /\ at'[r] = "done" /\ receipt' = ReceiptAsLeft(r)
       /\ SameJob(r) /\ answer'[r] = "stranded"
    \/ /\ <<at[r], at'[r]>> \in Onward
       /\ SameJob(r) /\ UNCHANGED receipt /\ answer'[r] = answer[r]
    \/ /\ at[r] \notin {"idle", "done", "dead"} /\ at'[r] = "done"
       /\ SameJob(r) /\ UNCHANGED receipt /\ answer'[r] \in {"failed", "restart", "stranded"}
    \/ /\ at[r] \notin {"idle", "done", "dead"} /\ at'[r] = "dead"
       /\ SameJob(r) /\ UNCHANGED receipt /\ answer'[r] = answer[r]

(* Every step of a remover is one of these.                                *)
LEMMA Handling ==
    ASSUME RInv, NEW r \in Removers, Acts(r), UNCHANGED installVars
    PROVE  Leaves(r) /\ Handles(r)
<1>0. at \in [Removers -> RemoverPoints] /\ job \in [Removers -> Jobs] /\ answer \in [Removers -> Reports]
    BY DEF RInv, RemovalTypeOK
<1>. USE <1>0 DEF Handles, SameJob, To, Ends, Onward, Jobs
<1>1. \A s \in Removers \ {r} : at'[s] = at[s] /\ job'[s] = job[s]
    BY ActTypes DEF Goes
<1>2. \A s \in Removers \ {r} : answer'[s] = answer[s]
    BY DEF Acts, Remove, Restore, RPlanReceipt, RPlanTarget, AlreadyAbsent, BeginRemoval,
           RefuseRemoval, CaptureBytes, CaptureRefused, BeginFailsUnchanged, CopySnapshot, TreeGone,
           TakeTree, TakeTreeInterrupted, TakeReceipt, TakeReceiptRefused, KeepReceipt,
           KeepReceiptFails, KeepReceiptInterrupted, CheckBox, CleanBox, CleanBoxFails,
           CleanSnapshot, CleanSnapshotFails, RemovalFails, RemoveRemains, Rebuild, Fill,
           RestoreReceipt, LinkReceipt, Validate, RestoreRefused, RestoreFails, KillRemover
<1>3. Leaves(r)
    BY <1>1, <1>2 DEF Leaves, installVars, planVars, txVars
<1>. SUFFICES Handles(r)
    BY <1>3
<1>4. CASE RPlanReceipt(r)
    BY <1>4 DEF RPlanReceipt
<1>5. CASE RPlanTarget(r)
    <2>1. PICK owned : job' = [job EXCEPT ![r] = [@ EXCEPT !.tree = target, !.owned = owned]]
        BY <1>5 DEF RPlanTarget
    <2>2. SameJob(r)
        BY <2>1
    <2>3. at[r] = "plan" /\ at'[r] = "begin" /\ UNCHANGED <<receipt, answer>>
        BY <1>5 DEF RPlanTarget
    <2>. QED
        BY <2>2, <2>3
<1>6. CASE AlreadyAbsent(r) \/ BeginRemoval(r) \/ RefuseRemoval(r)
    BY <1>6 DEF AlreadyAbsent, BeginRemoval, RefuseRemoval
<1>7. CASE CaptureBytes(r) \/ CaptureRefused(r) \/ BeginFailsUnchanged(r)
    BY <1>7 DEF CaptureBytes, CaptureRefused, BeginFailsUnchanged
<1>8. CASE CopySnapshot(r) \/ TakeTree(r) \/ TreeGone(r)
    BY <1>8 DEF CopySnapshot, TakeTree, TreeGone
<1>9. CASE TakeTreeInterrupted(r)
    <2>2. SameJob(r)
        BY <1>9 DEF TakeTreeInterrupted
    <2>3. at[r] = "takeTree" /\ at'[r] = "restore" /\ UNCHANGED <<receipt, answer>>
        BY <1>9 DEF TakeTreeInterrupted
    <2>. QED
        BY <2>2, <2>3
<1>10. CASE TakeReceipt(r) \/ TakeReceiptRefused(r) \/ KeepReceipt(r)
    BY <1>10 DEF TakeReceipt, TakeReceiptRefused, KeepReceipt
<1>11. CASE KeepReceiptFails(r)
    <2>1. job[r].boxedPaper \in {job[r].paper, Absent}
        BY DEF RInv, RemovalTypeOK
    <2>. QED
        BY <1>11, <2>1 DEF KeepReceiptFails
<1>12. CASE KeepReceiptInterrupted(r) \/ CheckBox(r)
    BY <1>12 DEF KeepReceiptInterrupted, CheckBox
<1>13. CASE CleanBox(r)
    BY <1>13 DEF CleanBox
<1>14. CASE CleanBoxFails(r)
    <2>2. SameJob(r)
        BY <1>14 DEF CleanBoxFails
    <2>3. at[r] = "cleanBox" /\ at'[r] = "restore" /\ UNCHANGED <<receipt, answer>>
        BY <1>14 DEF CleanBoxFails
    <2>. QED
        BY <2>2, <2>3
<1>15. CASE CleanSnapshot(r) \/ CleanSnapshotFails(r) \/ RemovalFails(r)
    BY <1>15 DEF CleanSnapshot, CleanSnapshotFails, RemovalFails
<1>16. CASE RemoveRemains(r) \/ Rebuild(r) \/ Fill(r) \/ RestoreReceipt(r) \/ LinkReceipt(r)
    BY <1>16 DEF RemoveRemains, Rebuild, Fill, RestoreReceipt, LinkReceipt
<1>17. CASE Validate(r)
    <2>2. SameJob(r)
        BY <1>17 DEF Validate
    <2>3. at[r] = "validate" /\ at'[r] = "done" /\ UNCHANGED receipt /\ answer'[r] = "failed"
        BY <1>17 DEF Validate
    <2>. QED
        BY <2>2, <2>3
<1>18. CASE RestoreRefused(r) \/ RestoreFails(r)
    <2>1. at'[r] = "done" /\ answer'[r] = "stranded" /\ SameJob(r) /\ at[r] \notin {"idle", "done", "dead"}
        <3>1. CASE RestoreRefused(r)
            BY <3>1 DEF RestoreRefused
        <3>2. CASE RestoreFails(r)
            BY <3>2 DEF RestoreFails
        <3>. QED
            BY <1>18, <3>1, <3>2
    <2>2. \/ receipt' = receipt
          \/ at[r] = "linkReceipt" /\ receipt' = ReceiptAsLeft(r)
        <3>1. CASE RestoreRefused(r)
            BY <3>1 DEF RestoreRefused
        <3>2. CASE RestoreFails(r)
            BY <3>2 DEF RestoreFails
        <3>. QED
            BY <1>18, <3>1, <3>2
    <2>. QED
        BY <2>1, <2>2
<1>19. CASE KillRemover(r)
    <2>1. SameJob(r)
        BY <1>19 DEF KillRemover
    <2>2. at[r] \notin {"idle", "done", "dead"} /\ at'[r] = "dead" /\ UNCHANGED <<receipt, answer>>
        BY <1>19 DEF KillRemover
    <2>. QED
        BY <2>1, <2>2
<1>. QED
    BY <1>4, <1>5, <1>6, <1>7, <1>8, <1>9, <1>10, <1>11, <1>12, <1>13, <1>14, <1>15, <1>16,
       <1>17, <1>18, <1>19 DEF Acts, Remove, Restore

(* A remover keeps the contents in one place.                              *)
LEMMA RemoverPapers ==
    ASSUME RInv, Papers, NEW r \in Removers, Leaves(r), Handles(r)
    PROVE  Papers'
<1>. USE DEF Handles, SameJob, Onward, Unboxed, Vouching
<1>1. \A y \in Parties \ {r} : Hand(y)' = Hand(y)
    <2>1. ASSUME NEW s \in Removers \ {r} PROVE Hand(s)' = Hand(s)
        BY ONLY HandOf, s \in Removers \ {r}, Leaves(r) DEF Leaves, HoldsReceipt
    <2>2. ASSUME NEW i \in Installers PROVE Hand(i)' = Hand(i)
        BY ONLY HandOf, i \in Installers, Leaves(r) DEF Leaves, Returns
    <2>. QED
        BY ONLY <2>1, <2>2 DEF Parties
<1>2. Course(r)
    BY DEF Papers
<1>3. Course(r)'
    BY <1>2 DEF Course
<1>4. \A s \in Removers : Course(s)'
    BY ONLY Leaves(r), Papers, <1>3 DEF Leaves, Papers, Course
<1>5. \A c : Named(c) => Named(c)'
    BY ONLY Leaves(r) DEF Leaves, Named
<1>6. Named(Nothing) /\ Whole(Absent) /\ Absent.of = Nothing
    BY ContentsAssumption DEF Named, Whole, Absent
<1>7. Named(job[r].paper.of) /\ Whole(job[r].paper) /\ Named(receipt.of) /\ Whole(receipt)
    BY DEF Papers, Heard
<1>8. receipt' \in {receipt, Absent, job[r].paper, Copy(job[r].paper.of, r)}
    BY DEF ReceiptAsLeft
<1>9. at[r] = "linkReceipt" => job[r].paper.of # Nothing
    BY <1>2, <1>7, <1>6 DEF Course, Whole
<1>10. Named(receipt'.of) /\ Whole(receipt')
    <2>1. receipt' = Copy(job[r].paper.of, r) => at[r] = "linkReceipt" \/ receipt' \in {receipt, Absent, job[r].paper}
        BY DEF ReceiptAsLeft
    <2>. QED
        BY <1>6, <1>7, <1>8, <1>9, <2>1, CopiesMade DEF Whole
<1>11. job'[r].paper \in {job[r].paper, receipt, Absent}
    BY DEF Readable
<1>12. Heard'
    <2>1. Named(receipt.of)' /\ Whole(receipt)'
        BY ONLY <1>10, Leaves(r) DEF Leaves, Named, Whole
    <2>2. Named(job'[r].paper.of) /\ Whole(job'[r].paper)
        BY ONLY <1>6, <1>7, <1>11
    <2>3. Named(job[r].paper.of)' /\ Whole(job[r].paper)'
        BY ONLY <2>2, Leaves(r) DEF Leaves, Named, Whole
    <2>4. \A i \in Installers : Named(seenReceipt[i].of)' /\ Whole(seenReceipt[i])'
        BY ONLY Leaves(r), Papers DEF Leaves, Papers, Heard, Named, Whole
    <2>5. \A s \in Removers \ {r} : Named(job[s].paper.of)' /\ Whole(job[s].paper)'
        BY ONLY Leaves(r), Papers DEF Leaves, Papers, Heard, Named, Whole
    <2>. QED
        BY ONLY <2>1, <2>3, <2>4, <2>5 DEF Heard
<1>13. \A i \in committed' : pc'[i] \notin Early
    BY ONLY Leaves(r), Papers DEF Leaves, Papers
<1>14. Passes(r)
    <2>1. Hand(r) = (IF HoldsReceipt(r) THEN job[r].paper.of ELSE Nothing)
        BY HandOf
    <2>2. Hand(r)' = (IF HoldsReceipt(r)' THEN job'[r].paper.of ELSE Nothing)
        BY HandOf
    <2>3. \/ Hand(r)' \in {Hand(r), Nothing} /\ receipt'.of \in {receipt.of, Nothing}
          \/ Hand(r)' = receipt.of /\ receipt'.of = Nothing
          \/ Hand(r)' = Nothing /\ receipt'.of = Hand(r)
        BY <1>2, <1>3, <1>6, <2>1, <2>2, CopiesMade DEF Course, HoldsReceipt, ReceiptAsLeft
    <2>. QED
        BY ONLY <1>1, <2>3 DEF Passes
<1>15. Unshared'
    BY <1>14, PassingOn DEF Papers, Parties
<1>. QED
    BY <1>4, <1>12, <1>13, <1>15 DEF Papers

(* At first nobody holds a receipt.                                        *)
LEMMA PapersInit == RemoverInit => Papers
<1>. SUFFICES ASSUME RemoverInit PROVE Papers
    OBVIOUS
<1>0. /\ \A i \in Installers : pc[i] = "idle" /\ seenReceipt[i] = Absent
      /\ committed = {} /\ receipt \in {Absent, Original(Old)}
      /\ \A r \in Removers : at[r] = "idle" /\ job[r] = NoJob /\ answer[r] = "none"
    BY DEF RemoverInit, Init
<1>1. \A x \in Parties : Hand(x) = Nothing
    BY <1>0, HandOf DEF Parties, HoldsReceipt, Returns, Vouching
<1>2. Heard
    BY <1>0, ContentsAssumption DEF Heard, Named, Whole, Absent, Original, NoJob
<1>3. \A r \in Removers : Course(r)
    BY <1>0 DEF Course, NoJob
<1>. QED
    BY <1>0, <1>1, <1>2, <1>3 DEF Papers, Unshared

(* Every step leaves each content in one place.                            *)
LEMMA PapersStep == RInv /\ Papers /\ [RemoverNext]_allVars => Papers'
<1>. SUFFICES ASSUME RInv, Papers, [RemoverNext]_allVars PROVE Papers'
    OBVIOUS
<1>1. CASE UNCHANGED allVars
    <2>1. UNCHANGED <<pc, seenReceipt, committed, receipt, at, job, answer>>
        BY <1>1 DEF allVars, vars, diskVars, planVars, txVars
    <2>2. \A x \in Parties : Hand(x)' = Hand(x)
        BY <2>1, HandOf DEF Parties, HoldsReceipt, Returns
    <2>3. Unshared'
        BY <2>1, <2>2 DEF Papers, Unshared
    <2>4. Heard'
        BY <2>1 DEF Papers, Heard, Named
    <2>. QED
        BY <2>1, <2>3, <2>4 DEF Papers, Course
<1>2. ASSUME NEW i \in Installers, Works(i), UNCHANGED <<at, job, answer>>
      PROVE  Papers'
    BY <1>2, Pens, InstallerPapers
<1>3. ASSUME NEW r \in Removers, Acts(r), UNCHANGED installVars
      PROVE  Papers'
    BY <1>3, Handling, RemoverPapers
<1>. QED
    BY <1>1, <1>2, <1>3, Steps

(* What a remover acknowledged as removed no receipt vouches for again,    *)
(* whatever installers and other removers had planned, replaced or set     *)
(* aside before, and whichever of them fail, stop halfway or are killed    *)
(* (_execute_uninstall, _replace_receipt_owned, _restore_receipt).         *)
THEOREM RemovedStaysForgotten == RemoverSpec => []RemovedIsForgotten
<1>1. ASSUME Papers, NEW r \in Removers, answer[r] = "ok", job[r].held # Absent
      PROVE  receipt.of # job[r].paper.of
    <2>1. HoldsReceipt(r) /\ job[r].paper # Absent /\ Whole(job[r].paper)
        BY <1>1 DEF HoldsReceipt, Papers, Course, Heard
    <2>2. Hand(r) = job[r].paper.of /\ Hand(r) # Nothing
        BY <2>1, HandOf DEF Whole
    <2>. QED
        BY <1>1, <2>2 DEF Papers, Unshared, Parties
<1>2. Papers => RemovedIsForgotten
    BY <1>1 DEF RemovedIsForgotten
<1>. QED
    BY <1>2, RInvInit, RInvStep, PapersInit, PapersStep, PTL DEF RemoverSpec

-----------------------------------------------------------------------------
(* The captured bytes.                                                     *)

(* What a remover's job tells of the point it has reached.                 *)
Trace(r) ==
    /\ job[r].cleanable => job[r].recorded
    /\ job[r].recorded => job[r].held # Absent
    /\ job[r].snapshot # Absent => job[r].held # Absent
    /\ at[r] \in Unboxed \cup {"takeReceipt", "keepReceipt"} => ~job[r].recorded
    /\ at[r] \in Unboxed \ {"takeTree"} => job[r].snapshot = Absent
    /\ at[r] \in {"idle", "plan", "begin", "capture"} => job[r].held = Absent
    /\ at[r] \in {"checkBox", "cleanBox", "cleanSnapshot"} => job[r].recorded
    /\ at[r] = "cleanSnapshot" => job[r].box = Absent /\ job[r].boxedPaper = Absent
    /\ at[r] \notin {"idle", "plan", "begin", "capture", "done", "dead"} => job[r].held # Absent

(* A removal that is through stays so, and the snapshot goes no sooner.    *)
Stays(r) ==
    /\ Through(r) => Through(r)'
    /\ job[r].snapshot.of = Old => job'[r].snapshot.of = Old \/ Through(r)

(* The traces of planning and capturing.                                   *)
LEMMA PlanTraces ==
    ASSUME RInv, NEW r \in Removers, Trace(r),
           \/ RPlanReceipt(r) \/ RPlanTarget(r) \/ AlreadyAbsent(r) \/ BeginRemoval(r)
           \/ RefuseRemoval(r) \/ CaptureBytes(r) \/ CaptureRefused(r) \/ BeginFailsUnchanged(r)
    PROVE  Trace(r)' /\ Stays(r)
<1>0. at \in [Removers -> RemoverPoints] /\ job \in [Removers -> Jobs]
    BY DEF RInv, RemovalTypeOK
<1>. USE <1>0 DEF To, Ends, Jobs, Unboxed, Trace, Stays, Through
<1>1. CASE RPlanReceipt(r)
    BY <1>1 DEF RPlanReceipt
<1>2. CASE RPlanTarget(r)
    <2>1. PICK owned : job' = [job EXCEPT ![r] = [@ EXCEPT !.tree = target, !.owned = owned]]
        BY <1>2 DEF RPlanTarget
    <2>2. /\ job'[r].held = job[r].held /\ job'[r].snapshot = job[r].snapshot
          /\ job'[r].recorded = job[r].recorded /\ job'[r].cleanable = job[r].cleanable
          /\ job'[r].box = job[r].box /\ job'[r].boxedPaper = job[r].boxedPaper
        BY <2>1
    <2>3. at[r] = "plan" /\ at'[r] = "begin"
        BY <1>2 DEF RPlanTarget
    <2>. QED
        BY <2>2, <2>3
<1>3. CASE CaptureBytes(r)
    <2>1. target # Absent
        BY <1>3 DEF CaptureBytes, Absent
    <2>. QED
        BY <1>3, <2>1 DEF CaptureBytes
<1>4. CASE AlreadyAbsent(r) \/ BeginRemoval(r) \/ RefuseRemoval(r)
    BY <1>4 DEF AlreadyAbsent, BeginRemoval, RefuseRemoval
<1>5. CASE CaptureRefused(r) \/ BeginFailsUnchanged(r)
    BY <1>5 DEF CaptureRefused, BeginFailsUnchanged
<1>. QED
    BY <1>1, <1>2, <1>3, <1>4, <1>5

(* The traces of the removal.                                              *)
LEMMA RemoveTraces ==
    ASSUME RInv, NEW r \in Removers, Trace(r),
           \/ CopySnapshot(r) \/ TakeTree(r) \/ TakeTreeInterrupted(r) \/ TreeGone(r)
           \/ TakeReceipt(r) \/ TakeReceiptRefused(r)
           \/ KeepReceipt(r) \/ KeepReceiptFails(r) \/ KeepReceiptInterrupted(r)
           \/ CheckBox(r) \/ CleanBox(r) \/ CleanBoxFails(r)
           \/ CleanSnapshot(r) \/ CleanSnapshotFails(r) \/ RemovalFails(r)
    PROVE  Trace(r)' /\ Stays(r)
<1>0. at \in [Removers -> RemoverPoints] /\ job \in [Removers -> Jobs]
    BY DEF RInv, RemovalTypeOK
<1>. USE <1>0, ContentsAssumption DEF To, Ends, Jobs, Unboxed, Trace, Stays, Through
<1>1. CASE CopySnapshot(r) \/ TakeTree(r)
    BY <1>1 DEF CopySnapshot, TakeTree, Absent
<1>2. CASE TakeTreeInterrupted(r)
    <2>1. /\ job'[r].held = job[r].held /\ job'[r].snapshot = job[r].snapshot
          /\ job'[r].recorded = job[r].recorded /\ job'[r].cleanable = job[r].cleanable
          /\ job'[r].boxedPaper = job[r].boxedPaper
        BY <1>2 DEF TakeTreeInterrupted
    <2>2. at[r] = "takeTree" /\ at'[r] = "restore"
        BY <1>2 DEF TakeTreeInterrupted
    <2>. QED
        BY <2>1, <2>2
<1>3. CASE TreeGone(r) \/ TakeReceiptRefused(r) \/ RemovalFails(r)
    BY <1>3 DEF TreeGone, TakeReceiptRefused, RemovalFails
<1>4. CASE TakeReceipt(r) \/ KeepReceipt(r)
    BY <1>4 DEF TakeReceipt, KeepReceipt
<1>5. CASE KeepReceiptFails(r) \/ KeepReceiptInterrupted(r)
    BY <1>5 DEF KeepReceiptFails, KeepReceiptInterrupted
<1>6. CASE CheckBox(r)
    BY <1>6 DEF CheckBox
<1>7. CASE CleanBox(r)
    <2>1. /\ job'[r].held = job[r].held /\ job'[r].snapshot = job[r].snapshot
          /\ job'[r].recorded = job[r].recorded /\ job'[r].cleanable = job[r].cleanable
          /\ job'[r].box = Absent /\ job'[r].boxedPaper = Absent
        BY <1>7 DEF CleanBox
    <2>2. at[r] = "cleanBox" /\ at'[r] = "cleanSnapshot"
        BY <1>7 DEF CleanBox
    <2>. QED
        BY <2>1, <2>2
<1>8. CASE CleanBoxFails(r)
    <2>1. /\ job'[r].held = job[r].held /\ job'[r].snapshot = job[r].snapshot
          /\ job'[r].recorded = job[r].recorded /\ job'[r].cleanable = job[r].cleanable
        <3>1. PICK b \in HalfRemoved(job[r].box), p \in {Absent, job[r].boxedPaper}, kept \in BOOLEAN :
                  job' = [job EXCEPT ![r] = [@ EXCEPT !.box = b, !.boxedPaper = p, !.preserve = kept]]
            BY <1>8 DEF CleanBoxFails
        <3>2. LET j == [job[r] EXCEPT !.box = b, !.boxedPaper = p, !.preserve = kept]
              IN  /\ j.held = job[r].held /\ j.snapshot = job[r].snapshot
                  /\ j.recorded = job[r].recorded /\ j.cleanable = job[r].cleanable
            BY ONLY <1>0 DEF Jobs
        <3>. QED
            BY <3>1, <3>2
    <2>2. at[r] = "cleanBox" /\ at'[r] = "restore" /\ job[r].box = job[r].held
        BY <1>8 DEF CleanBoxFails, RInv, Boxes
    <2>. QED
        BY <2>1, <2>2
<1>9. CASE CleanSnapshot(r)
    BY <1>9 DEF CleanSnapshot
<1>10. CASE CleanSnapshotFails(r)
    <2>1. PICK s : job' = [job EXCEPT ![r] = [@ EXCEPT !.snapshot = s]]
        BY <1>10 DEF CleanSnapshotFails
    <2>2. /\ job'[r].held = job[r].held
          /\ job'[r].recorded = job[r].recorded /\ job'[r].cleanable = job[r].cleanable
          /\ job'[r].box = job[r].box /\ job'[r].boxedPaper = job[r].boxedPaper
        BY <2>1
    <2>3. at[r] = "cleanSnapshot" /\ at'[r] = "restore"
        BY <1>10 DEF CleanSnapshotFails
    <2>. QED
        BY <2>2, <2>3
<1>. QED
    BY <1>1, <1>2, <1>3, <1>4, <1>5, <1>6, <1>7, <1>8, <1>9, <1>10

(* The traces of the restoration.                                          *)
LEMMA RestoreTraces ==
    ASSUME RInv, NEW r \in Removers, Trace(r), Restore(r) \/ KillRemover(r)
    PROVE  Trace(r)' /\ Stays(r)
<1>0. at \in [Removers -> RemoverPoints] /\ job \in [Removers -> Jobs]
    BY DEF RInv, RemovalTypeOK
<1>. USE <1>0, ContentsAssumption DEF To, Ends, Jobs, Unboxed, Trace, Stays, Through
<1>1. CASE RemoveRemains(r) \/ Rebuild(r) \/ Fill(r) \/ RestoreReceipt(r) \/ LinkReceipt(r)
    BY <1>1 DEF RemoveRemains, Rebuild, Fill, RestoreReceipt, LinkReceipt
<1>2. CASE Validate(r)
    <2>1. PICK s \in Tidied(r) : job' = [job EXCEPT ![r] = [@ EXCEPT !.snapshot = s]]
        BY <1>2 DEF Validate
    <2>2. /\ job'[r].held = job[r].held /\ job'[r].snapshot = s
          /\ job'[r].recorded = job[r].recorded /\ job'[r].cleanable = job[r].cleanable
          /\ job'[r].box = job[r].box /\ job'[r].boxedPaper = job[r].boxedPaper
        BY <2>1
    <2>3. at[r] = "validate" /\ at'[r] = "done"
        BY <1>2 DEF Validate
    <2>4. s = job[r].snapshot \/ (s = Absent /\ Through(r))
        BY <2>1 DEF Tidied
    <2>. QED
        BY <2>2, <2>3, <2>4
<1>3. CASE RestoreRefused(r)
    BY <1>3 DEF RestoreRefused
<1>4. CASE RestoreFails(r)
    BY <1>4 DEF RestoreFails
<1>5. CASE KillRemover(r)
    <2>0. at'[r] = "dead"
        BY <1>5 DEF KillRemover
    <2>1. CASE UNCHANGED job
        BY <2>0, <2>1
    <2>2. CASE /\ at[r] = "cleanBox"
               /\ \E b \in HalfRemoved(job[r].box) : job' = [job EXCEPT ![r].box = b]
        <3>1. PICK b : job' = [job EXCEPT ![r] = [@ EXCEPT !.box = b]]
            BY <2>2
        <3>2. /\ job'[r].held = job[r].held /\ job'[r].snapshot = job[r].snapshot
              /\ job'[r].recorded = job[r].recorded /\ job'[r].cleanable = job[r].cleanable
            BY <3>1
        <3>3. job[r].box = job[r].held /\ job[r].held # Absent
            BY <2>2 DEF RInv, Boxes
        <3>. QED
            BY <2>0, <3>2, <3>3
    <2>3. CASE /\ at[r] = "cleanSnapshot"
               /\ \E s \in HalfRemoved(job[r].snapshot) : job' = [job EXCEPT ![r].snapshot = s]
        <3>1. PICK s : job' = [job EXCEPT ![r] = [@ EXCEPT !.snapshot = s]]
            BY <2>3
        <3>2. /\ job'[r].held = job[r].held
              /\ job'[r].recorded = job[r].recorded /\ job'[r].cleanable = job[r].cleanable
              /\ job'[r].box = job[r].box /\ job'[r].boxedPaper = job[r].boxedPaper
            BY <3>1
        <3>3. Through(r) /\ job[r].held # Absent
            BY <2>3
        <3>. QED
            BY <2>0, <3>2, <3>3
    <2>. QED
        BY <1>5, <2>1, <2>2, <2>3 DEF KillRemover
<1>. QED
    BY <1>1, <1>2, <1>3, <1>4, <1>5 DEF Restore

(* Every step of a remover leaves its trace.                               *)
LEMMA Traces ==
    ASSUME RInv, NEW r \in Removers, Trace(r), Acts(r)
    PROVE  Trace(r)' /\ Stays(r)
BY PlanTraces, RemoveTraces, RestoreTraces DEF Acts, Remove

-----------------------------------------------------------------------------
(* What the names of the model say of an installer's past.                 *)
Replaces == {"receipt", "check", "verify", "commit", "clean", "cleanRecovery"}
(* An installer that is past its publication has published, and one that   *)
(* has moved a tree is past the plan.                                      *)
Trail(i) ==
    /\ pc[i] \in Replaces \/ i \in committed \/ recovery[i] # Absent => i \in published
    /\ i \in moved => pc[i] \notin {"idle", "plan", "begin", "stage", "aside"}

Trails ==
    /\ \A i \in Installers : Trail(i)
    /\ \A r \in Removers : Trace(r)

Ending == {"undoPublish", "undoAside", "undoReceipt", "undoClean", "done"}
(* A step of installer i uses up at most one failure or kill, and what was *)
(* published or moved stays on record.                                     *)
Marches(i) ==
    /\ \A k \in Installers \ {i} :
          /\ pc'[k] = pc[k] /\ recovery'[k] = recovery[k] /\ backup'[k] = backup[k]
          /\ state'[k] = state[k] /\ seenTree'[k] = seenTree[k]
    /\ published \subseteq published' /\ moved \subseteq moved' /\ moved' \subseteq moved \cup {i}
    /\ published' \subseteq published \cup {i} /\ committed' \subseteq committed \cup {i}
    /\ i \in moved /\ backup[i] = Absent => backup'[i] = Absent
    /\ pc[i] \in Ending => pc'[i] \in Ending \/ crashes' = crashes + 1
    /\ \/ UNCHANGED countVars
       \/ faults' = faults + 1 /\ UNCHANGED <<crashes, interrupts>>
       \/ crashes' = crashes + 1 /\ UNCHANGED <<faults, interrupts>>
       \/ interrupts' = interrupts + 1 /\ UNCHANGED <<faults, crashes>>

(* Every step of an installer does so.                                     *)
LEMMA Marching ==
    ASSUME RInv, NEW i \in Installers, Trail(i), Works(i)
    PROVE  Marches(i) /\ Trail(i)'
<1>0. /\ pc \in [Installers -> Points] /\ recovery \in [Installers -> Objects]
      /\ backup \in [Installers -> Objects] /\ seenTree \in [Installers -> Objects]
      /\ state \in [Installers -> States]
      /\ committed \subseteq Installers /\ published \subseteq Installers /\ moved \subseteq Installers
    BY DEF RInv, RemovalTypeOK, TypeOK
<1>. USE <1>0 DEF Marches, Trail, Goto, Finish, Undo, Fault, diskVars, planVars, txVars, countVars,
                  Replaces, Ending
<1>1. CASE Forward(i)
    <2>1. CASE PlanReceipt(i) \/ PlanTarget(i) \/ Begin(i) \/ Refuse(i) \/ RefuseByFault(i) \/ Stage(i)
        BY <2>1 DEF PlanReceipt, PlanTarget, Begin, Refuse, RefuseByFault, Stage
    <2>2. CASE MoveAside(i) \/ NothingToMove(i) \/ MoveAsideRefused(i)
        BY <2>2 DEF MoveAside, NothingToMove, MoveAsideRefused
    <2>3. CASE Publish(i) \/ PublishRefused(i) \/ WriteReceipt(i) \/ WriteReceiptRefused(i)
        BY <2>3 DEF Publish, PublishRefused, WriteReceipt, WriteReceiptRefused
    <2>4. CASE Check(i) \/ CheckRefused(i) \/ BeginFails(i)
        BY <2>4 DEF Check, CheckRefused, BeginFails
    <2>5. CASE VerifyUsable(i) \/ VerifyNotReady(i) \/ VerifyFails(i)
        BY <2>5 DEF VerifyUsable, VerifyNotReady, VerifyFails
    <2>. QED
        BY <1>1, <2>1, <2>2, <2>3, <2>4, <2>5 DEF Forward
<1>2. CASE Interrupted(i)
    BY <1>2 DEF Interrupted, MoveAsideInterrupted, PublishInterrupted, WriteReceiptInterrupted
<1>3. CASE Commit(i)
    <2>1. CASE CommitRefused(i) \/ CopyRecovery(i) \/ CopyRecoveryFails(i)
        BY <2>1 DEF CommitRefused, CopyRecovery, CopyRecoveryFails
    <2>2. CASE CleanBackup(i) \/ CleanBackupFails(i)
        BY <2>2 DEF CleanBackup, CleanBackupFails
    <2>3. CASE CleanRecovery(i) \/ CleanRecoveryFails(i)
        BY <2>3 DEF CleanRecovery, CleanRecoveryFails, Committed
    <2>. QED
        BY <1>3, <2>1, <2>2, <2>3 DEF Commit
<1>4. CASE Rollback(i)
    <2>1. CASE UndoPublish(i) \/ UndoPublishRefused(i)
        BY <2>1 DEF UndoPublish, UndoPublishRefused, Stranded
    <2>2. CASE UndoAside(i)
        BY <2>2 DEF UndoAside
    <2>3. CASE NothingToRestore(i) \/ UndoAsideRefused(i)
        BY <2>3 DEF NothingToRestore, UndoAsideRefused, Stranded
    <2>4. CASE UndoReceipt(i) \/ UndoReceiptRefused(i)
        BY <2>4 DEF UndoReceipt, UndoReceiptRefused, Stranded
    <2>5. CASE UndoClean(i) \/ UndoFails(i)
        BY <2>5 DEF UndoClean, UndoFails, RolledBack, Stranded
    <2>. QED
        BY <1>4, <2>1, <2>2, <2>3, <2>4, <2>5 DEF Rollback
<1>5. CASE Crash(i)
    BY <1>5 DEF Crash
<1>. QED
    BY <1>1, <1>2, <1>3, <1>4, <1>5 DEF Works

-----------------------------------------------------------------------------
(* The steps after which the captured bytes are still expected.            *)

(* Failures and kills so far, and the premise of CapturedBytesSurvive.     *)
Failures == faults + crashes + interrupts
Calmly == Failures <= 1 /\ Undisturbed

(* The premise held before the step of an installer if it holds after it.  *)
LEMMA MarchesCalmly ==
    ASSUME RInv, Trails, NEW i \in Installers, Marches(i), Calmly'
    PROVE  Calmly
<1>0. faults \in Nat /\ crashes \in Nat /\ interrupts \in Nat
    BY DEF RInv, RemovalTypeOK, TypeOK
<1>1. Failures <= 1 /\ (interrupts # 0 => crashes' = crashes /\ interrupts' # 0)
    BY <1>0 DEF Marches, Calmly, Failures, countVars
<1>2. published = {}
    BY DEF Marches, Calmly, Undisturbed
<1>3. ASSUME NEW k \in moved PROVE backup[k] # Absent
    BY DEF Marches, Calmly, Undisturbed, RInv, RemovalTypeOK, TypeOK
<1>4. ASSUME interrupts # 0, NEW k \in Installers PROVE pc[k] \notin Ending
    <2>1. pc'[k] \notin Ending /\ crashes' # crashes + 1
        BY <1>0, <1>1, <1>4 DEF Calmly, Undisturbed, Ending
    <2>. QED
        BY <2>1 DEF Marches
<1>. QED
    BY <1>1, <1>2, <1>3, <1>4 DEF Calmly, Undisturbed, Ending

(* What an installer may do meanwhile.                                     *)

(* k may yet move a tree aside.                                            *)
Eligible(k) ==
    pc[k] \in {"stage", "aside"} \/ (pc[k] = "begin" /\ state[k] \in {"fresh", "owned"})
Meanwhile(i) ==
    /\ receipt' = receipt
    /\ \A k \in moved : k \in moved' /\ backup'[k] = backup[k]
    /\ \/ target' = target
       \/ /\ pc[i] = "aside" /\ TargetAsPlanned(i) /\ target # Absent
          /\ target' = Absent /\ i \in moved' /\ backup'[i] = target
    /\ Eligible(i)' =>
         \/ Eligible(i) /\ seenTree'[i] = seenTree[i]
         \/ /\ pc'[i] = "begin" /\ seenTree'[i] = target
            /\ \E p \in Readable(i) : state'[i] = Classified(p)

(* Under the premise every step of an installer does no more.              *)
LEMMA Quietly ==
    ASSUME RInv, Trails, NEW i \in Installers, Works(i), Calmly, Calmly'
    PROVE  Meanwhile(i)
<1>0. /\ pc \in [Installers -> Points] /\ recovery \in [Installers -> Objects]
      /\ backup \in [Installers -> Objects] /\ seenTree \in [Installers -> Objects]
      /\ state \in [Installers -> States] /\ moved \subseteq Installers
      /\ interrupts \in Nat
    BY DEF RInv, RemovalTypeOK, TypeOK
<1>1. pc[i] \notin Replaces /\ i \notin committed /\ i \notin published /\ recovery[i] = Absent
    BY DEF Calmly, Undisturbed, Trails, Trail
<1>2. i \in moved => pc[i] \notin {"idle", "plan", "begin", "stage", "aside"}
    BY DEF Trails, Trail
<1>3. published' = {} /\ \A k \in moved' : backup'[k] # Absent
    BY DEF Calmly, Undisturbed
<1>4. interrupts' = 0 \/ pc'[i] \notin Ending
    BY DEF Calmly, Undisturbed, Ending
<1>. USE <1>0, <1>1 DEF Meanwhile, Goto, Finish, Undo, Fault, diskVars, planVars, txVars, countVars,
                  Replaces, Ending
<1>5. CASE Forward(i)
    <2>1. CASE PlanReceipt(i)
        BY <2>1 DEF PlanReceipt, Eligible
    <2>2. CASE PlanTarget(i)
        BY <2>2 DEF PlanTarget, Eligible
    <2>3. CASE Begin(i) \/ Refuse(i) \/ RefuseByFault(i) \/ Stage(i)
        BY <2>3 DEF Begin, Refuse, RefuseByFault, Stage, Eligible
    <2>4. CASE MoveAside(i)
        BY <1>2, <2>4 DEF MoveAside, Eligible
    <2>5. CASE NothingToMove(i) \/ MoveAsideRefused(i)
        BY <2>5 DEF NothingToMove, MoveAsideRefused, Eligible
    <2>6. CASE Publish(i)
        BY <1>3, <2>6 DEF Publish
    <2>7. CASE PublishRefused(i) \/ BeginFails(i)
        BY <2>7 DEF PublishRefused, BeginFails, Eligible
    <2>8. CASE \/ WriteReceipt(i) \/ WriteReceiptRefused(i) \/ Check(i) \/ CheckRefused(i)
               \/ VerifyUsable(i) \/ VerifyNotReady(i) \/ VerifyFails(i)
        BY <2>8 DEF WriteReceipt, WriteReceiptRefused, Check, CheckRefused, VerifyUsable,
                    VerifyNotReady, VerifyFails
    <2>. QED
        BY <1>5, <2>1, <2>2, <2>3, <2>4, <2>5, <2>6, <2>7, <2>8 DEF Forward
<1>6. CASE Interrupted(i)
    BY <1>4, <1>6 DEF Interrupted, MoveAsideInterrupted, PublishInterrupted, WriteReceiptInterrupted
<1>7. CASE Commit(i)
    BY <1>7 DEF Commit, CommitRefused, CopyRecovery, CopyRecoveryFails, CleanBackup,
                CleanBackupFails, CleanRecovery, CleanRecoveryFails
<1>8. CASE Rollback(i)
    <2>1. CASE UndoPublish(i) \/ UndoPublishRefused(i)
        BY <2>1 DEF UndoPublish, UndoPublishRefused, Stranded, Eligible
    <2>2. CASE UndoAside(i)
        <3>1. backup'[i] = Absent /\ i \in moved'
            BY <2>2 DEF UndoAside, Restorable
        <3>. QED
            BY <1>3, <3>1
    <2>3. CASE NothingToRestore(i) \/ UndoAsideRefused(i)
        BY <2>3 DEF NothingToRestore, UndoAsideRefused, Stranded, Eligible
    <2>4. CASE UndoReceipt(i) \/ UndoReceiptRefused(i)
        BY <2>4 DEF UndoReceipt, UndoReceiptRefused, Stranded, Eligible
    <2>5. CASE UndoClean(i)
        <3>1. backup'[i] = Absent /\ UNCHANGED moved
            BY <2>5 DEF UndoClean
        <3>2. i \notin moved
            BY <1>3, <3>1
        <3>. QED
            BY <2>5, <3>2 DEF UndoClean, RolledBack, Eligible
    <2>6. CASE UndoFails(i)
        BY <2>6 DEF UndoFails, Stranded, Eligible
    <2>. QED
        BY <1>8, <2>1, <2>2, <2>3, <2>4, <2>5, <2>6 DEF Rollback
<1>9. CASE Crash(i)
    BY <1>9 DEF Crash, Replacing, Eligible
<1>. QED
    BY <1>5, <1>6, <1>7, <1>8, <1>9 DEF Works

-----------------------------------------------------------------------------
(* What removers do with trees.                                            *)

(* r keeps what it planned and captured.                                   *)
Rests(r) ==
    /\ job'[r].tree = job[r].tree /\ job'[r].owned = job[r].owned
    /\ job'[r].held = job[r].held

(* A step that uses up no failure, and one that does.                      *)
Free == UNCHANGED countVars
Spent ==
    \/ faults' = faults + 1 /\ UNCHANGED <<crashes, interrupts>>
    \/ crashes' = crashes + 1 /\ UNCHANGED <<faults, interrupts>>
    \/ interrupts' = interrupts + 1 /\ UNCHANGED <<faults, crashes>>

(* The points where the tree has been moved.                               *)
Moving == {"takeReceipt", "keepReceipt", "checkBox", "cleanBox", "cleanSnapshot"}
Late == Moving \cup {"restoreReceipt", "linkReceipt", "validate"}

(* Steps that only look.                                                   *)
Looks(r) ==
    /\ Free /\ UNCHANGED <<target, receipt>> /\ job'[r].held = job[r].held
    /\ \/ at[r] = "idle" /\ at'[r] = "plan" /\ Rests(r)
       \/ /\ at[r] = "plan" /\ at'[r] = "begin" /\ job'[r].tree = target
          /\ \E p \in Readable(r) : job'[r].owned = (Classified(p) = "owned")
       \/ /\ at[r] = "begin" /\ at'[r] = "capture" /\ Rests(r)
          /\ job[r].paper # Absent /\ job[r].paper \in Readable(r) /\ target.of = job[r].paper.of
       \/ at[r] \in {"begin", "capture"} /\ at'[r] = "done" /\ Rests(r)

(* Steps that keep what is there.                                          *)
Captures(r) ==
    /\ Free /\ UNCHANGED <<target, receipt>>
    /\ job'[r].tree = job[r].tree /\ job'[r].owned = job[r].owned
    /\ \/ /\ at[r] = "capture" /\ at'[r] = "copy"
          /\ target.of \notin {Nothing, Broken} /\ TreeAsPlanned(r) /\ job'[r].held = target
       \/ /\ at[r] = "copy" /\ at'[r] = "takeTree" /\ job'[r].held = job[r].held
          /\ target # Absent /\ job'[r].snapshot.of = target.of

(* Steps that find the tree gone, or give up.                              *)
Yields(r) ==
    /\ UNCHANGED <<target, receipt>> /\ Rests(r)
    /\ at[r] \in {"copy", "takeTree"} /\ at'[r] = "restore"
    /\ \/ Free /\ (target = Absent \/ (at[r] = "takeTree" /\ ~FilesAsPlanned(r)))
       \/ Spent

Rebuilds(r) ==
    /\ Free /\ UNCHANGED receipt /\ Rests(r)
    /\ \/ at[r] = "restore" /\ at'[r] = "rebuild" /\ target \in {Absent, job[r].held} /\ target' = Absent
       \/ at[r] = "rebuild" /\ at'[r] = "fill" /\ target = Absent /\ target' = Copy(Broken, r)
       \/ /\ at[r] = "fill" /\ at'[r] = "restoreReceipt" /\ target = Copy(Broken, r)
          /\ target' = Copy(job[r].held.of, r)

(* The restoration finds something else and gives up.                      *)
Refused(r) ==
    /\ Free /\ UNCHANGED <<target, receipt>> /\ Rests(r) /\ at'[r] = "done"
    /\ \/ /\ at[r] = "restore"
          /\ (\E p \in Readable(r) : p # ReceiptAsLeft(r)) \/ target \notin {Absent, job[r].held}
       \/ at[r] = "rebuild" /\ target # Absent
       \/ at[r] = "fill" /\ target # Copy(Broken, r)

(* Steps that use up a failure or a kill.                                  *)
Breaks(r) ==
    /\ Spent /\ Rests(r) /\ UNCHANGED receipt
    /\ at[r] \notin {"idle", "done", "dead"} /\ at'[r] \in {"done", "dead"}
    /\ target' = target \/ (at[r] = "restore" /\ target = job[r].held /\ target' = Absent)

(* The tree goes into the quarantine.                                      *)
TakesTree(r) ==
    /\ at[r] = "takeTree" /\ target # Absent /\ FilesAsPlanned(r)
    /\ target' = Absent /\ Rests(r) /\ (Free \/ Spent)

(* Steps with the tree in the quarantine, or with the tree restored.       *)
Lates(r) ==
    /\ Free \/ Spent
    /\ at[r] \in Late /\ Rests(r) /\ UNCHANGED target
    /\ at[r] \notin Moving => at'[r] \in {"linkReceipt", "validate", "done", "dead"}

(* What a step of a remover does to the tree.                              *)
Hauls(r) ==
    \/ Looks(r) \/ Captures(r) \/ Yields(r) \/ Rebuilds(r) \/ Refused(r) \/ Breaks(r)
    \/ TakesTree(r) \/ Lates(r)

(* Every step of a remover is one of these.                                *)
LEMMA Hauling ==
    ASSUME RInv, NEW r \in Removers, Acts(r), UNCHANGED installVars
    PROVE  Hauls(r)
<1>0. at \in [Removers -> RemoverPoints] /\ job \in [Removers -> Jobs]
    BY DEF RInv, RemovalTypeOK
<1>. USE <1>0 DEF Hauls, Rests, Free, Late, Moving, To, Ends, Jobs, countVars
<1>1. CASE RPlanReceipt(r)
    BY <1>1 DEF RPlanReceipt, Looks
<1>2. CASE RPlanTarget(r)
    <2>1. PICK p \in Readable(r) :
              job' = [job EXCEPT ![r] = [@ EXCEPT !.tree = target, !.owned = Classified(p) = "owned"]]
        BY <1>2 DEF RPlanTarget
    <2>2. /\ job'[r].held = job[r].held /\ job'[r].tree = target
          /\ job'[r].owned = (Classified(p) = "owned")
        BY <2>1
    <2>3. at[r] = "plan" /\ at'[r] = "begin" /\ UNCHANGED <<target, receipt, countVars>>
        BY <1>2 DEF RPlanTarget
    <2>. QED
        BY <2>2, <2>3 DEF Looks
<1>3. CASE AlreadyAbsent(r) \/ BeginRemoval(r) \/ RefuseRemoval(r) \/ CaptureRefused(r)
    BY <1>3 DEF AlreadyAbsent, BeginRemoval, RefuseRemoval, CaptureRefused, Looks
<1>4. CASE CaptureBytes(r)
    BY <1>4 DEF CaptureBytes, Captures
<1>5. CASE BeginFailsUnchanged(r)
    BY <1>5 DEF BeginFailsUnchanged, Fault, Breaks, Spent
<1>6. CASE CopySnapshot(r)
    BY <1>6, CopiesMade DEF CopySnapshot, Captures
<1>7. CASE TakeTree(r) \/ TakeTreeInterrupted(r)
    <2>1. /\ at[r] = "takeTree" /\ target # Absent /\ FilesAsPlanned(r)
          /\ target' = Absent /\ (Free \/ Spent)
        BY <1>7 DEF TakeTree, TakeTreeInterrupted, Spent
    <2>2. Rests(r)
        <3>1. CASE TakeTree(r)
            BY <3>1 DEF TakeTree
        <3>2. CASE TakeTreeInterrupted(r)
            BY <3>2 DEF TakeTreeInterrupted
        <3>. QED
            BY <1>7, <3>1, <3>2
    <2>. QED
        BY <2>1, <2>2 DEF TakesTree
<1>8. CASE TreeGone(r)
    BY <1>8 DEF TreeGone, Yields
<1>9. CASE TakeReceipt(r) \/ TakeReceiptRefused(r) \/ KeepReceipt(r)
    BY <1>9 DEF TakeReceipt, TakeReceiptRefused, KeepReceipt, Lates
<1>10. CASE KeepReceiptFails(r) \/ KeepReceiptInterrupted(r)
    BY <1>10 DEF KeepReceiptFails, KeepReceiptInterrupted, Fault, Spent, Lates
<1>11. CASE CheckBox(r)
    BY <1>11 DEF CheckBox, Lates
<1>12. CASE CleanBox(r)
    BY <1>12 DEF CleanBox, Lates
<1>13. CASE CleanBoxFails(r)
    <2>1. PICK b \in HalfRemoved(job[r].box), p \in {Absent, job[r].boxedPaper}, kept \in BOOLEAN :
              job' = [job EXCEPT ![r] = [@ EXCEPT !.box = b, !.boxedPaper = p, !.preserve = kept]]
        BY <1>13 DEF CleanBoxFails
    <2>2. LET j == [job[r] EXCEPT !.box = b, !.boxedPaper = p, !.preserve = kept]
          IN  /\ j.held = job[r].held /\ j.tree = job[r].tree /\ j.owned = job[r].owned
        BY ONLY <1>0 DEF Jobs
    <2>3. Rests(r)
        BY <2>1, <2>2
    <2>. QED
        BY <1>13, <2>3 DEF CleanBoxFails, Fault, Spent, Lates
<1>14. CASE CleanSnapshot(r) \/ CleanSnapshotFails(r)
    BY <1>14 DEF CleanSnapshot, CleanSnapshotFails, Fault, Spent, Lates
<1>15. CASE RemovalFails(r)
    BY <1>15 DEF RemovalFails, Fault, Spent, Lates, Yields
<1>16. CASE RemoveRemains(r) \/ Rebuild(r) \/ Fill(r)
    BY <1>16 DEF RemoveRemains, Rebuild, Fill, Rebuilds
<1>17. CASE RestoreReceipt(r) \/ LinkReceipt(r) \/ Validate(r)
    BY <1>17 DEF RestoreReceipt, LinkReceipt, Validate, Lates
<1>18. CASE RestoreRefused(r)
    BY <1>18 DEF RestoreRefused, Refused, Lates
<1>19. CASE RestoreFails(r)
    BY <1>19 DEF RestoreFails, Fault, Spent, Breaks, Lates
<1>20. CASE KillRemover(r)
    <2>1. Rests(r)
        BY <1>20 DEF KillRemover
    <2>. QED
        BY <1>20, <2>1 DEF KillRemover, Spent, Breaks
<1>. QED
    BY <1>1, <1>2, <1>3, <1>4, <1>5, <1>6, <1>7, <1>8, <1>9, <1>10, <1>11, <1>12, <1>13, <1>14, <1>15,
       <1>16, <1>17, <1>18, <1>19, <1>20 DEF Acts, Remove, Restore

-----------------------------------------------------------------------------
(* Where the captured bytes are, until the first removal is through.       *)

(* There is nothing that a remover captures.                               *)
Unowned ==
    /\ \A r \in Removers : at[r] \in {"idle", "plan", "begin", "done", "dead"} /\ job[r].held = Absent
    /\ receipt \in {Absent, Original(Old)}
    /\ receipt = Original(Old) => target.of # Old

(* A snapshot or a backup has the bytes, or a removal is through.          *)
Saved ==
    \/ \E r \in Removers : Through(r) \/ job[r].snapshot.of = Old
    \/ \E i \in moved : backup[i].of = Old

(* r has captured the first tree, as planned.                              *)
Mine(r) == job[r].held = Original(Old) /\ job[r].tree = Original(Old) /\ job[r].owned

(* The tree has its name.                                                  *)
InPlace ==
    /\ target = Original(Old) /\ receipt = Original(Old)
    /\ \A r \in Removers :
          /\ at[r] \in {"idle", "plan", "begin", "capture", "copy", "restore", "done", "dead"}
          /\ at[r] = "restore" => Failures = 1
          /\ at[r] \in {"begin", "capture"} => job[r].tree = Original(Old) /\ job[r].owned
          /\ job[r].held # Absent => Mine(r)

(* A remover that failed is about to rebuild it, or rebuilds it.           *)
NoneFills == \A r \in Removers : at[r] # "fill"
Rebuilding ==
    /\ Failures = 1 /\ receipt = Original(Old)
    /\ \A r \in Removers : at[r] \notin Late /\ (job[r].held # Absent => Mine(r))
    /\ \/ target = Absent /\ NoneFills /\ \E s \in Removers : at[s] = "rebuild"
       \/ \E s \in Removers : /\ target = Copy(Broken, s) /\ at[s] = "fill"
                              /\ \A r \in Removers : at[r] = "fill" => r = s

(* A remover that failed has rebuilt it: nobody captures the first tree    *)
(* any more.                                                               *)
Rebuilt ==
    /\ Failures = 1 /\ target.of = Old /\ target.by # NoOne
    /\ \A r \in Removers :
          /\ at[r] \notin Moving
          /\ job[r].held # Absent => Mine(r) \/ (job[r].held = target /\ at[r] = "copy")

(* An installer that may move the tree aside has planned on it.            *)
PlannedOld == \A i \in Installers : Eligible(i) => seenTree[i].of = Old

Unsaved == PlannedOld /\ (InPlace \/ Rebuilding \/ Rebuilt)
(* No tree of an installer is there, and none was captured.                *)
OldOnly ==
    /\ target.of \in {Old, Nothing, Broken}
    /\ \A r \in Removers : job[r].held = Absent \/ job[r].held.of = Old
World == OldOnly /\ (Unowned \/ Saved \/ Unsaved)

(* Nobody replaces the receipt meanwhile.                                  *)
LEMMA CalmReads ==
    ASSUME Trails, Calmly
    PROVE  \A x : Readable(x) = {receipt}
<1>1. \A i \in Installers : ~Replacing(i)
    BY DEF Trails, Trail, Calmly, Undisturbed, Replacing, Replaces
<1>. QED
    BY <1>1 DEF Readable

(* The first tree, the copies and the absent one are told apart.           *)
LEMMA Olds ==
    /\ Original(Old) # Absent /\ Original(Old).of = Old /\ Original(Old).by = NoOne
    /\ Absent.of = Nothing /\ Absent.by = NoOne
    /\ Old # Nothing /\ Old # Broken /\ Nothing # Broken
    /\ \A c, r : Copy(c, r).of = c /\ Copy(c, r).by = r
    /\ \A r \in Removers : r # NoOne
BY ContentsAssumption, RemoversAssumption DEF Original, Absent, Copy

(* How the number of failures moves.                                       *)
LEMMA CountsMove ==
    ASSUME RInv
    PROVE  /\ Failures \in Nat
           /\ Free => Failures' = Failures
           /\ Spent => Failures' = Failures + 1
<1>1. faults \in Nat /\ crashes \in Nat /\ interrupts \in Nat
    BY DEF RInv, RemovalTypeOK, TypeOK
<1>. QED
    BY <1>1 DEF Free, Spent, Failures, countVars

(* Bytes in a snapshot or a backup stay there until a removal is through.  *)
LEMMA SavedStays ==
    ASSUME Saved, \A r \in Removers : Stays(r),
           \A k \in moved : k \in moved' /\ backup'[k] = backup[k]
    PROVE  Saved'
BY DEF Saved, Stays

-----------------------------------------------------------------------------
(* An installer that publishes nothing leaves the bytes findable.          *)
LEMMA InstallerWorld ==
    ASSUME RInv, Trails, Calmly, World, NEW i \in Installers, Marches(i), Meanwhile(i), Calmly',
           UNCHANGED <<at, job, answer>>
    PROVE  World'
<1>. USE Olds
<1>1. OldOnly'
    BY DEF World, OldOnly, Meanwhile
<1>2. CASE Saved
    <2>1. \A r \in Removers : Stays(r)
        BY DEF Stays, Through
    <2>. QED
        BY <1>1, <1>2, <2>1, SavedStays DEF World, Meanwhile
<1>3. CASE Unowned
    <2>1. Unowned'
        BY <1>3 DEF Unowned, Meanwhile
    <2>. QED
        BY <1>1, <2>1 DEF World
<1>4. CASE Unsaved
    <2>0. /\ receipt' = receipt
          /\ \A k \in Installers \ {i} : Eligible(k)' = Eligible(k) /\ seenTree'[k] = seenTree[k]
        BY DEF Meanwhile, Marches, Eligible
    <2>1. Failures' = 1 \/ Failures # 1
        <3>1. Failures \in Nat /\ Failures' \in Nat /\ Failures' >= Failures /\ Failures' <= 1
            <4>1. faults \in Nat /\ crashes \in Nat /\ interrupts \in Nat
                BY DEF RInv, RemovalTypeOK, TypeOK
            <4>. QED
                BY <4>1 DEF Failures, Calmly, Marches, countVars
        <3>. QED
            BY ONLY <3>1
    <2>2. Eligible(i)' => seenTree'[i].of = Old
        <3>1. CASE Eligible(i) /\ seenTree'[i] = seenTree[i]
            BY <1>4, <3>1 DEF Unsaved, PlannedOld
        <3>2. ASSUME pc'[i] = "begin", seenTree'[i] = target,
                     NEW p \in Readable(i), state'[i] = Classified(p), Eligible(i)'
              PROVE  target.of = Old
            <4>1. p = receipt /\ Classified(receipt) \in {"fresh", "owned"}
                BY <3>2, CalmReads DEF Eligible
            <4>2. CASE Rebuilding
                <5>1. receipt = Original(Old) /\ (target = Absent \/ target.of = Broken)
                    BY <4>2 DEF Rebuilding
                <5>. QED
                    BY <4>1, <5>1 DEF Classified
            <4>. QED
                BY <1>4, <4>2 DEF Unsaved, InPlace, Rebuilt
        <3>. QED
            BY <3>1, <3>2 DEF Meanwhile
    <2>3. PlannedOld'
        BY <1>4, <2>0, <2>2 DEF PlannedOld, Unsaved
    <2>4. CASE target' = target
        <3>1. CASE InPlace
            BY <1>1, <2>0, <2>1, <2>3, <2>4, <3>1 DEF World, Unsaved, InPlace, Mine
        <3>2. CASE Rebuilding
            <4>1. Rebuilding'
                BY <2>0, <2>1, <2>4, <3>2 DEF Rebuilding, NoneFills, Mine
            <4>. QED
                BY <1>1, <2>3, <4>1 DEF World, Unsaved
        <3>3. CASE Rebuilt
            <4>1. Rebuilt'
                BY <2>1, <2>4, <3>3 DEF Rebuilt, Mine
            <4>. QED
                BY <1>1, <2>3, <4>1 DEF World, Unsaved
        <3>. QED
            BY <1>4, <3>1, <3>2, <3>3 DEF Unsaved
    <2>5. CASE /\ pc[i] = "aside" /\ TargetAsPlanned(i) /\ target # Absent
               /\ target' = Absent /\ i \in moved' /\ backup'[i] = target
        <3>1. seenTree[i].of = Old
            BY <1>4, <2>5 DEF Unsaved, PlannedOld, Eligible
        <3>2. target.of = Old
            BY <2>5, <3>1 DEF TargetAsPlanned
        <3>. QED
            BY <1>1, <2>5, <3>2 DEF World, Saved
    <2>. QED
        BY <2>4, <2>5 DEF Meanwhile
<1>. QED
    BY <1>2, <1>3, <1>4 DEF World

-----------------------------------------------------------------------------
(* A step of r under the premise.                                          *)
Hauled(r) ==
    /\ RInv /\ Trails /\ Calmly /\ Calmly'
    /\ Hauls(r) /\ Leaves(r) /\ UNCHANGED installVars

(* What such a step has to do with the others and with the counts.         *)
LEMMA HauledFacts ==
    ASSUME NEW r \in Removers, Hauled(r)
    PROVE  /\ Trace(r)
           /\ \A s \in Removers \ {r} : at'[s] = at[s] /\ job'[s] = job[s]
           /\ Readable(r) = {receipt}
           /\ Failures \in Nat /\ Failures <= 1 /\ Failures' <= 1
           /\ Free => Failures' = Failures
           /\ Spent => Failures = 0 /\ Failures' = 1
           /\ \A i \in Installers : Eligible(i)' = Eligible(i)
           /\ UNCHANGED <<seenTree, moved, backup>>
<1>1. /\ Failures \in Nat /\ Failures <= 1 /\ Failures' <= 1
      /\ Free => Failures' = Failures
      /\ Spent => Failures' = Failures + 1
    BY CountsMove DEF Hauled, Calmly
<1>2. Spent => Failures = 0 /\ Failures' = 1
    BY ONLY <1>1
<1>3. /\ Trace(r) /\ Readable(r) = {receipt}
      /\ \A s \in Removers \ {r} : at'[s] = at[s] /\ job'[s] = job[s]
    BY CalmReads DEF Hauled, Trails, Leaves
<1>4. UNCHANGED <<seenTree, moved, backup, pc, state>>
    BY DEF Hauled, installVars, planVars, txVars
<1>. QED
    BY <1>1, <1>2, <1>3, <1>4 DEF Eligible

(* Removers put nothing but the first content under the name.              *)
LEMMA OldStays ==
    ASSUME OldOnly, NEW r \in Removers, Hauled(r)
    PROVE  OldOnly'
<1>. USE HauledFacts, Olds
<1>1. target'.of \in {Old, Nothing, Broken}
    <2>1. target' \in {target, Absent, Copy(Broken, r), Copy(job[r].held.of, r)}
        BY DEF Hauled, Hauls, Looks, Captures, Yields, Rebuilds, Refused, Breaks, TakesTree, Lates
    <2>. QED
        BY <2>1 DEF OldOnly
<1>2. job'[r].held = Absent \/ job'[r].held.of = Old
    <2>1. \/ job'[r].held = job[r].held
          \/ job'[r].held = target /\ target.of \notin {Nothing, Broken}
        BY DEF Hauled, Hauls, Looks, Captures, Yields, Rebuilds, Refused, Breaks, TakesTree, Lates, Rests
    <2>. QED
        BY <2>1 DEF OldOnly
<1>. QED
    BY <1>1, <1>2 DEF OldOnly

(* Where nothing can be captured nothing is taken.                         *)
LEMMA UnownedStays ==
    ASSUME Unowned, NEW r \in Removers, Hauled(r)
    PROVE  Unowned'
<1>. USE HauledFacts, Olds
<1>1. /\ at[r] \in {"idle", "plan", "begin", "done", "dead"} /\ job[r].held = Absent
      /\ receipt \in {Absent, Original(Old)} /\ (receipt = Original(Old) => target.of # Old)
    BY DEF Unowned
<1>2. Looks(r) \/ Breaks(r)
    BY <1>1 DEF Hauled, Hauls, Captures, Yields, Rebuilds, Refused, TakesTree, Lates, Late, Moving
<1>3. /\ at'[r] \in {"plan", "begin", "done", "dead"} /\ job'[r].held = Absent
      /\ UNCHANGED <<target, receipt>>
    BY <1>1, <1>2 DEF Looks, Breaks, Rests
<1>. QED
    BY <1>1, <1>3 DEF Unowned

(* The tree is taken by a remover that has copied it, or removed by one that *)
(* rebuilds it.                                                            *)
LEMMA InPlaceStays ==
    ASSUME InPlace, NEW r \in Removers, Hauled(r)
    PROVE  InPlace' \/ Rebuilding' \/ Saved'
<1>. USE HauledFacts, Olds
<1>1. /\ target = Original(Old) /\ receipt = Original(Old)
      /\ at[r] \in {"idle", "plan", "begin", "capture", "copy", "restore", "done", "dead"}
      /\ at[r] = "restore" => Failures = 1
      /\ at[r] \in {"begin", "capture"} => job[r].tree = Original(Old) /\ job[r].owned
      /\ job[r].held # Absent => Mine(r)
    BY DEF InPlace
<1>2. ASSUME UNCHANGED <<target, receipt>>, Failures = 1 => Failures' = 1,
             at'[r] \in {"idle", "plan", "begin", "capture", "copy", "restore", "done", "dead"},
             at'[r] = "restore" => Failures' = 1,
             at'[r] \in {"begin", "capture"} => job'[r].tree = Original(Old) /\ job'[r].owned,
             job'[r].held # Absent => Mine(r)'
      PROVE  InPlace'
    BY <1>2 DEF InPlace, Mine
<1>3. CASE Looks(r)
    <2>1. Classified(receipt) = "owned"
        BY <1>1 DEF Classified
    <2>2. job[r].held = Absent
        BY <1>3 DEF Looks, Trace
    <2>3. /\ UNCHANGED <<target, receipt>> /\ Failures' = Failures /\ job'[r].held = Absent
          /\ at'[r] \in {"plan", "begin", "capture", "done"}
        BY <1>3, <2>2 DEF Looks
    <2>4. at'[r] \in {"begin", "capture"} => job'[r].tree = Original(Old) /\ job'[r].owned
        BY <1>1, <1>3, <2>1 DEF Looks, Rests
    <2>. QED
        BY <1>2, <2>3, <2>4
<1>4. CASE Captures(r)
    <2>1. CASE at[r] = "capture"
        BY <1>1, <1>2, <1>4, <2>1 DEF Captures, Mine
    <2>2. CASE at[r] = "copy"
        BY <1>1, <1>4, <2>2 DEF Captures, Saved
    <2>. QED
        BY <1>4, <2>1, <2>2 DEF Captures
<1>5. CASE Yields(r)
    <2>1. Spent
        BY <1>1, <1>5 DEF Yields
    <2>. QED
        BY <1>1, <1>2, <1>5, <2>1 DEF Yields, Rests, Mine
<1>6. CASE Rebuilds(r)
    <2>1. at[r] = "restore" /\ at'[r] = "rebuild" /\ target' = Absent /\ receipt' = receipt
        BY <1>1, <1>6 DEF Rebuilds
    <2>2. Failures' = 1
        BY <1>1, <1>6, <2>1 DEF Rebuilds
    <2>3. Mine(r) => Mine(r)'
        BY <1>6 DEF Rebuilds, Rests, Mine
    <2>4. job'[r].held = job[r].held
        BY <1>6 DEF Rebuilds, Rests
    <2>5. \A s \in Removers : at'[s] \notin Late \cup {"fill"} /\ (job'[s].held # Absent => Mine(s)')
        BY <2>1, <2>3, <2>4 DEF InPlace, Mine, Late, Moving
    <2>. QED
        BY <1>1, <2>1, <2>2, <2>5 DEF Rebuilding, NoneFills
<1>7. CASE Refused(r)
    BY <1>1, <1>2, <1>7 DEF Refused, Rests, Mine
<1>8. CASE Breaks(r)
    <2>1. at[r] # "restore" /\ target' = target
        BY <1>1, <1>8 DEF Breaks
    <2>. QED
        BY <1>1, <1>2, <1>8, <2>1 DEF Breaks, Rests, Mine
<1>. QED
    BY <1>1, <1>3, <1>4, <1>5, <1>6, <1>7, <1>8 DEF Hauled, Hauls, TakesTree, Lates, Late, Moving

(* With the failure used up the rebuilding comes to its end.               *)
LEMMA RebuildingStays ==
    ASSUME Rebuilding, NEW r \in Removers, Hauled(r)
    PROVE  Rebuilding' \/ Rebuilt'
<1>. USE HauledFacts, Olds
<1>1. /\ Failures = 1 /\ receipt = Original(Old) /\ ~Spent
      /\ at[r] \notin Late /\ (job[r].held # Absent => Mine(r))
    BY DEF Rebuilding
<1>2. target = Absent \/ target.of = Broken
    BY DEF Rebuilding
<1>3. at[r] \notin {"idle", "plan", "begin", "capture", "done", "dead"} => Mine(r)
    BY <1>1 DEF Trace
<1>4. ASSUME Free, Rests(r), UNCHANGED <<target, receipt>>, at'[r] \notin Late \cup {"fill", "rebuild"},
             at[r] = "rebuild" => target # Absent,
             at[r] = "fill" => target # Copy(Broken, r)
      PROVE  Rebuilding'
    <2>1. job'[r].held # Absent => Mine(r)'
        BY <1>1, <1>4 DEF Rests, Mine
    <2>2. \A s \in Removers : at'[s] \notin Late /\ (job'[s].held # Absent => Mine(s)')
        BY <1>4, <2>1 DEF Rebuilding, Mine
    <2>3. CASE target = Absent /\ NoneFills /\ \E s \in Removers : at[s] = "rebuild"
        <3>1. NoneFills'
            BY <1>4, <2>3 DEF NoneFills
        <3>. QED
            BY <1>1, <1>4, <2>2, <2>3, <3>1 DEF Rebuilding
    <2>4. CASE \E s \in Removers : /\ target = Copy(Broken, s) /\ at[s] = "fill"
                                   /\ \A q \in Removers : at[q] = "fill" => q = s
        BY <1>1, <1>4, <2>2, <2>4 DEF Rebuilding
    <2>. QED
        BY <2>3, <2>4 DEF Rebuilding
<1>5. ASSUME job'[r].held = job[r].held, job[r].held = Absent, Free, UNCHANGED <<target, receipt>>,
             at'[r] \notin Late \cup {"fill", "rebuild"}, at[r] \notin {"fill", "rebuild"}
      PROVE  Rebuilding'
    <2>2. \A s \in Removers : at'[s] \notin Late /\ (job'[s].held # Absent => Mine(s)')
        BY <1>5 DEF Rebuilding, Mine
    <2>3. NoneFills => NoneFills'
        BY <1>5 DEF NoneFills
    <2>. QED
        BY <1>1, <1>5, <2>2, <2>3 DEF Rebuilding
<1>6. CASE Looks(r)
    <2>1. job[r].held = Absent /\ at'[r] \in {"plan", "begin", "capture", "done"}
        BY <1>6 DEF Looks, Trace
    <2>. QED
        BY <1>5, <1>6, <2>1 DEF Looks, Late, Moving
<1>7. CASE Captures(r)
    <2>1. at[r] = "copy" /\ at'[r] = "takeTree" /\ Rests(r)
        BY <1>2, <1>7 DEF Captures, Rests
    <2>. QED
        BY <1>4, <1>7, <2>1 DEF Captures, Late, Moving
<1>8. CASE Yields(r) \/ Refused(r)
    BY <1>1, <1>4, <1>8 DEF Yields, Refused, Late, Moving
<1>9. CASE Rebuilds(r)
    <2>0. /\ Free /\ receipt' = receipt /\ Rests(r) /\ Mine(r)
        BY <1>3, <1>9 DEF Rebuilds
    <2>1. job'[r].held # Absent /\ Mine(r)'
        BY <2>0 DEF Rests, Mine
    <2>2. at'[r] \notin Late =>
             \A s \in Removers : at'[s] \notin Late /\ (job'[s].held # Absent => Mine(s)')
        BY <2>1 DEF Rebuilding, Mine
    <2>3. CASE at[r] = "restore" /\ at'[r] = "rebuild" /\ target \in {Absent, job[r].held} /\ target' = Absent
        <3>1. target = Absent
            BY <1>2, <2>0, <2>3 DEF Mine
        <3>2. NoneFills'
            BY <2>3, <3>1 DEF Rebuilding, NoneFills
        <3>. QED
            BY <1>1, <2>0, <2>2, <2>3, <3>2 DEF Rebuilding, Late, Moving
    <2>4. CASE at[r] = "rebuild" /\ at'[r] = "fill" /\ target = Absent /\ target' = Copy(Broken, r)
        <3>1. \A s \in Removers : at'[s] = "fill" => s = r
            BY <2>4 DEF Rebuilding, NoneFills
        <3>. QED
            BY <1>1, <2>0, <2>2, <2>4, <3>1 DEF Rebuilding, Late, Moving
    <2>5. CASE /\ at[r] = "fill" /\ at'[r] = "restoreReceipt" /\ target = Copy(Broken, r)
               /\ target' = Copy(job[r].held.of, r)
        <3>1. target'.of = Old /\ target'.by # NoOne
            BY <2>0, <2>5 DEF Mine
        <3>2. \A s \in Removers : at'[s] \notin Moving /\ (job'[s].held # Absent => Mine(s)')
            BY <2>1, <2>5 DEF Rebuilding, Mine, Late, Moving
        <3>. QED
            BY <1>1, <2>0, <3>1, <3>2 DEF Rebuilt
    <2>. QED
        BY <1>9, <2>3, <2>4, <2>5 DEF Rebuilds
<1>10. CASE TakesTree(r)
    BY <1>2, <1>3, <1>10 DEF TakesTree, FilesAsPlanned, Mine
<1>. QED
    BY <1>1, <1>6, <1>7, <1>8, <1>9, <1>10 DEF Hauled, Hauls, Breaks, Lates

(* The rebuilt tree stays until it is copied.                              *)
LEMMA RebuiltStays ==
    ASSUME Rebuilt, NEW r \in Removers, Hauled(r)
    PROVE  Rebuilt' \/ Saved'
<1>. USE HauledFacts, Olds
<1>1. /\ Failures = 1 /\ ~Spent /\ target.of = Old /\ target.by # NoOne
      /\ at[r] \notin Moving
      /\ job[r].held # Absent => Mine(r) \/ (job[r].held = target /\ at[r] = "copy")
    BY DEF Rebuilt
<1>2. at[r] \notin {"idle", "plan", "begin", "capture", "copy", "done", "dead"} => Mine(r)
    BY <1>1 DEF Trace
<1>3. ASSUME Free, UNCHANGED target, at'[r] \notin Moving,
             job'[r].held # Absent => Mine(r)' \/ (job'[r].held = target /\ at'[r] = "copy")
      PROVE  Rebuilt'
    BY <1>1, <1>3 DEF Rebuilt, Mine
<1>4. Rests(r) => (Mine(r) => Mine(r)')
    BY DEF Rests, Mine
<1>5. CASE Looks(r)
    <2>1. job'[r].held = Absent
        BY <1>5 DEF Looks, Trace
    <2>. QED
        BY <1>3, <1>5, <2>1 DEF Looks, Moving
<1>6. CASE Captures(r)
    <2>1. CASE at[r] = "capture"
        BY <1>3, <1>6, <2>1 DEF Captures, Moving
    <2>2. CASE at[r] = "copy"
        BY <1>1, <1>6, <2>2 DEF Captures, Saved
    <2>. QED
        BY <1>6, <2>1, <2>2 DEF Captures
<1>7. CASE Yields(r)
    <2>1. Free /\ at[r] = "takeTree" /\ Rests(r) /\ UNCHANGED target /\ at'[r] = "restore"
        BY <1>1, <1>7 DEF Yields
    <2>. QED
        BY <1>2, <1>3, <1>4, <2>1 DEF Moving
<1>8. CASE Refused(r)
    BY <1>2, <1>3, <1>4, <1>8 DEF Refused, Moving
<1>9. CASE Rebuilds(r)
    BY <1>1, <1>2, <1>9 DEF Rebuilds, Mine
<1>10. CASE TakesTree(r)
    BY <1>1, <1>2, <1>10 DEF TakesTree, FilesAsPlanned, Mine
<1>11. CASE Lates(r)
    <2>1. /\ Free /\ Rests(r) /\ UNCHANGED target /\ at'[r] \in {"linkReceipt", "validate", "done", "dead"}
          /\ at[r] \in {"restoreReceipt", "linkReceipt", "validate"}
        BY <1>1, <1>11 DEF Lates, Late
    <2>. QED
        BY <1>2, <1>3, <1>4, <2>1 DEF Moving
<1>. QED
    BY <1>1, <1>5, <1>6, <1>7, <1>8, <1>9, <1>10, <1>11 DEF Hauled, Hauls, Breaks

(* A remover leaves the bytes findable.                                    *)
LEMMA RemoverWorld ==
    ASSUME World, NEW r \in Removers, Hauled(r), Stays(r)
    PROVE  World'
<1>. USE HauledFacts
<1>1. OldOnly'
    BY OldStays DEF World
<1>2. CASE Saved
    <2>1. \A s \in Removers : Stays(s)
        BY DEF Stays, Through
    <2>. QED
        BY <1>1, <1>2, <2>1, SavedStays DEF World
<1>3. CASE Unowned
    BY <1>1, <1>3, UnownedStays DEF World
<1>4. CASE Unsaved
    <2>1. PlannedOld'
        BY <1>4 DEF Unsaved, PlannedOld
    <2>. QED
        BY <1>1, <1>4, <2>1, InPlaceStays, RebuildingStays, RebuiltStays DEF World, Unsaved
<1>. QED
    BY <1>2, <1>3, <1>4 DEF World

-----------------------------------------------------------------------------
(* The inductive invariant: as long as the premise holds the bytes are     *)
(* somewhere.                                                              *)
SInv == Trails /\ (Calmly => World)

(* It holds before anybody starts.                                         *)
LEMMA SavedInit == RemoverInit => SInv
<1>. SUFFICES ASSUME RemoverInit PROVE SInv
    OBVIOUS
<1>. USE Olds
<1>0. /\ \A i \in Installers : pc[i] = "idle" /\ recovery[i] = Absent
      /\ committed = {} /\ moved = {} /\ faults = 0 /\ crashes = 0 /\ interrupts = 0
      /\ \A r \in Removers : at[r] = "idle" /\ job[r] = NoJob
    BY DEF RemoverInit, Init
<1>1. Trails
    BY <1>0 DEF Trails, Trail, Trace, NoJob, Replaces, Unboxed
<1>2. OldOnly
    <2>1. target.of \in {Old, Nothing, Broken}
        <3>1. Original(Broken).of = Broken
            BY DEF Original
        <3>. QED
            BY <3>1 DEF RemoverInit, Init
    <2>. QED
        BY <1>0, <2>1 DEF OldOnly, NoJob
<1>3. CASE target = Original(Old) /\ receipt = Original(Old)
    <2>1. InPlace
        BY <1>0, <1>3 DEF InPlace, NoJob
    <2>2. PlannedOld
        BY <1>0 DEF PlannedOld, Eligible
    <2>. QED
        BY <1>1, <1>2, <2>1, <2>2 DEF SInv, World, Unsaved
<1>4. CASE receipt = Absent \/ (receipt = Original(Old) /\ target.of # Old)
    BY <1>0, <1>1, <1>2, <1>4 DEF SInv, World, Unowned, NoJob
<1>5. \/ target = Original(Old) /\ receipt = Original(Old)
      \/ receipt = Absent \/ (receipt = Original(Old) /\ target.of # Old)
    <2>1. Original(Broken).of = Broken
        BY DEF Original
    <2>. QED
        BY <2>1 DEF RemoverInit, Init
<1>. QED
    BY <1>3, <1>4, <1>5

(* The premise held before the step of a remover if it holds after it.     *)
LEMMA RemoverCalmly ==
    ASSUME RInv, NEW r \in Removers, Hauls(r), UNCHANGED installVars, Calmly'
    PROVE  Calmly
<1>0. faults \in Nat /\ crashes \in Nat /\ interrupts \in Nat
    BY DEF RInv, RemovalTypeOK, TypeOK
<1>1. Free \/ Spent \/ TakesTree(r)
    BY DEF Hauls, Looks, Captures, Yields, Rebuilds, Refused, Breaks, Lates
<1>2. Free \/ Spent
    BY <1>1 DEF TakesTree
<1>3. Failures <= 1 /\ (interrupts' = 0 => interrupts = 0)
    BY <1>0, <1>2 DEF Free, Spent, countVars, Calmly, Failures
<1>4. UNCHANGED <<pc, published, moved, backup>>
    BY DEF installVars, txVars
<1>. QED
    BY <1>3, <1>4 DEF Calmly, Undisturbed

(* Every step keeps it.                                                    *)
LEMMA SavedStep == RInv /\ SInv /\ [RemoverNext]_allVars => SInv'
<1>. SUFFICES ASSUME RInv, SInv, [RemoverNext]_allVars PROVE SInv'
    OBVIOUS
<1>1. CASE UNCHANGED allVars
    <2>1. UNCHANGED <<pc, seenTree, state, committed, moved, published, recovery, backup, target, receipt,
                      countVars, at, job>>
        BY <1>1 DEF allVars, vars, diskVars, planVars, txVars
    <2>2. Trails'
        BY <2>1 DEF SInv, Trails, Trail, Trace
    <2>3. Failures' = Failures /\ Calmly' = Calmly
        BY <2>1 DEF Failures, Calmly, Undisturbed, countVars
    <2>4. World' = World
        BY <2>1, <2>3 DEF World, OldOnly, Unowned, Saved, Through, Unsaved, PlannedOld, Eligible,
                          InPlace, Rebuilding, Rebuilt, Mine, NoneFills
    <2>. QED
        BY <2>2, <2>3, <2>4 DEF SInv
<1>2. ASSUME NEW i \in Installers, Works(i), UNCHANGED <<at, job, answer>>
      PROVE  SInv'
    <2>1. Marches(i) /\ Trail(i)'
        BY <1>2, Marching DEF SInv, Trails
    <2>2. Trails'
        <3>1. \A k \in Installers \ {i} : Trail(k)'
            BY <2>1 DEF Marches, SInv, Trails, Trail
        <3>2. \A r \in Removers : Trace(r)'
            BY <1>2 DEF SInv, Trails, Trace
        <3>. QED
            BY <2>1, <3>1, <3>2 DEF Trails
    <2>3. ASSUME Calmly' PROVE World'
        <3>1. Calmly
            BY <2>1, <2>3, MarchesCalmly DEF SInv
        <3>2. Meanwhile(i)
            BY <1>2, <2>3, <3>1, Quietly DEF SInv
        <3>. QED
            BY <1>2, <2>1, <2>3, <3>1, <3>2, InstallerWorld DEF SInv
    <2>. QED
        BY <2>2, <2>3 DEF SInv
<1>3. ASSUME NEW r \in Removers, Acts(r), UNCHANGED installVars
      PROVE  SInv'
    <2>1. Trace(r)' /\ Stays(r) /\ Hauls(r) /\ Leaves(r)
        BY <1>3, Traces, Hauling, Handling DEF SInv, Trails
    <2>2. Trails'
        <3>1. \A i \in Installers : Trail(i)'
            BY <1>3 DEF SInv, Trails, Trail, installVars, txVars
        <3>2. \A s \in Removers \ {r} : Trace(s)'
            BY <2>1 DEF SInv, Trails, Trace, Leaves
        <3>. QED
            BY <2>1, <3>1, <3>2 DEF Trails
    <2>3. ASSUME Calmly' PROVE World'
        <3>1. Calmly
            BY <1>3, <2>1, <2>3, RemoverCalmly
        <3>2. Hauled(r)
            BY <1>3, <2>1, <2>3, <3>1 DEF Hauled, SInv
        <3>. QED
            BY <2>1, <3>1, <3>2, RemoverWorld DEF SInv
    <2>. QED
        BY <2>2, <2>3 DEF SInv
<1>. QED
    BY <1>1, <1>2, <1>3, Steps

(* After one failure, kill or unrecorded change the captured bytes are in  *)
(* the profile or in a private tree until a removal is through, or a       *)
(* remover that holds them is alive; installers may meanwhile plan, refuse *)
(* and move trees aside (_execute_uninstall copies before it moves, and    *)
(* removes the copy last; _restore_owned_bytes).                           *)
THEOREM CapturedBytesKept == RemoverSpec => []CapturedBytesSurvive
<1>1. ASSUME RInv, SInv, Calmly, NEW r \in Removers, job[r].held # Absent
      PROVE  \/ Somewhere(job[r].held.of)
             \/ \E s \in Removers : /\ job[s].held.of = job[r].held.of
                                    /\ Through(s) \/ at[s] \notin {"done", "dead"}
    <2>. USE Olds
    <2>1. World /\ \A s \in Removers : Trace(s)
        BY <1>1 DEF SInv, Trails
    <2>2. job[r].held.of = Old /\ \A s \in Removers : job[s].held # Absent => job[s].held.of = Old
        BY <1>1, <2>1 DEF World, OldOnly
    <2>3. CASE Saved
        <3>1. CASE \E s \in Removers : Through(s)
            BY <2>1, <2>2, <3>1 DEF Through, Trace
        <3>2. CASE \E s \in Removers : job[s].snapshot.of = Old
            BY <2>2, <3>2 DEF Somewhere
        <3>3. CASE \E i \in moved : backup[i].of = Old
            BY <1>1, <2>2, <3>3 DEF Somewhere, OnDisk, RInv, RemovalTypeOK, TypeOK
        <3>. QED
            BY <2>3, <3>1, <3>2, <3>3 DEF Saved
    <2>4. CASE InPlace \/ Rebuilt
        BY <2>2, <2>4 DEF InPlace, Rebuilt, Somewhere, OnDisk
    <2>5. CASE Rebuilding
        <3>1. \E s \in Removers : at[s] \in {"rebuild", "fill"}
            BY <2>5 DEF Rebuilding
        <3>. QED
            BY <2>1, <2>2, <3>1 DEF Trace
    <2>6. ~Unowned
        BY <1>1 DEF Unowned
    <2>. QED
        BY <2>1, <2>3, <2>4, <2>5, <2>6 DEF World, Unsaved
<1>2. RInv /\ SInv => CapturedBytesSurvive
    BY <1>1 DEF CapturedBytesSurvive, Calmly, Failures
<1>. QED
    BY <1>2, RInvInit, RInvStep, SavedInit, SavedStep, PTL DEF RemoverSpec

-----------------------------------------------------------------------------
(* What was removed is not back.  A removal takes tree and receipt away in *)
(* two steps, and so do those that overlap with it; each of them goes on   *)
(* only if it finds the receipt it planned on.  Whoever has taken a tree   *)
(* away or is about to needs that receipt to end well (Needs), and of two  *)
(* that need the same one will fail to go back.  So where nobody does, tree *)
(* and receipt are what those at work need them to be (Trust).  One that   *)
(* needs no receipt, having moved nothing and written none, may fail to go *)
(* back: its tree stays, and no receipt vouches for it (Occupies).         *)

(* The points at which an installer takes back what it did.                *)
Retreat == {"undoPublish", "undoAside", "undoReceipt", "undoClean"}
(* Nobody was killed or interrupted, no remover failed to restore, no      *)
(* installer that moved a tree aside has given up, and none that wrote its *)
(* receipt failed to roll back.                                            *)
Orderly ==
    /\ crashes = 0 /\ interrupts = 0
    /\ \A i \in moved \cup committed : ~Unwithdrawn(i)
    /\ \A r \in Removers : answer[r] # "stranded"
    /\ \A i \in moved : pc[i] \notin Retreat /\ outcome[i] # "failed"

(* An installer has its stage until it publishes, nothing to clean unless  *)
(* it moved a tree, and a failure on record only when it gives up.         *)
Fare(i) ==
    /\ pc[i] \in {"aside", "publish"} => stage[i] = Original(i)
    /\ interrupts = 0 /\ i \notin moved => backup[i] = Absent
    /\ outcome[i] = "failed" => pc[i] \in Retreat \cup {"done", "dead"}

(* A receipt that is set aside is the one that was planned, and a tree     *)
(* that was planned is the receipt's.                                      *)
Hold(r) ==
    /\ at[r] = "keepReceipt" => job[r].boxedPaper = job[r].paper
    /\ at[r] = "capture" /\ job[r].tree # Absent => job[r].tree.of = job[r].paper.of
    /\ at[r] # "dead"
(* One remover at a time has the lock, and meanwhile there is no receipt.  *)
Locker == {"keepReceipt", "linkReceipt"}
Held ==
    /\ \A r \in Removers : Hold(r)
    /\ \A r \in Removers : at[r] \in Locker => receipt = Absent
    /\ \A r, s \in Removers : at[r] \in Locker /\ at[s] \in Locker => r = s
Fares ==
    /\ Ended
    /\ \A i \in Installers : Fare(i)
    /\ Orderly => Held

(* A failure is on record from the moment an installer gives up.           *)
LEMMA FaringOn ==
    ASSUME RInv, NEW i \in Installers, Trail(i), Fare(i), Works(i)
    PROVE  /\ Fare(i)'
           /\ pc[i] \in Retreat => \/ pc'[i] \in Retreat
                                   \/ pc'[i] = "done" /\ outcome'[i] \in {"failed", "stranded", "swallowed"}
                                   \/ Crash(i)
<1>0. /\ pc \in [Installers -> Points] /\ stage \in [Installers -> Objects]
      /\ backup \in [Installers -> Objects] /\ outcome \in [Installers -> Outcomes]
      /\ moved \subseteq Installers
    BY DEF RInv, RemovalTypeOK, TypeOK
<1>1. interrupts' = 0 => interrupts = 0
    BY Frames DEF Frame, Works, RInv, RemovalTypeOK
<1>. USE <1>0, <1>1 DEF Fare, Trail, Retreat, Goto, Finish, Undo, Fault, diskVars, planVars, txVars, countVars
<1>2. CASE Forward(i)
    <2>1. CASE PlanReceipt(i) \/ PlanTarget(i) \/ Begin(i) \/ Refuse(i) \/ RefuseByFault(i)
        BY <2>1 DEF PlanReceipt, PlanTarget, Begin, Refuse, RefuseByFault
    <2>2. CASE Stage(i) \/ MoveAside(i) \/ NothingToMove(i) \/ MoveAsideRefused(i)
        BY <2>2 DEF Stage, MoveAside, NothingToMove, MoveAsideRefused
    <2>3. CASE Publish(i) \/ PublishRefused(i) \/ WriteReceipt(i) \/ WriteReceiptRefused(i)
        BY <2>3 DEF Publish, PublishRefused, WriteReceipt, WriteReceiptRefused
    <2>4. CASE Check(i) \/ CheckRefused(i) \/ BeginFails(i)
        BY <2>4 DEF Check, CheckRefused, BeginFails
    <2>5. CASE VerifyUsable(i) \/ VerifyNotReady(i) \/ VerifyFails(i)
        BY <2>5 DEF VerifyUsable, VerifyNotReady, VerifyFails
    <2>. QED
        BY <1>2, <2>1, <2>2, <2>3, <2>4, <2>5 DEF Forward
<1>3. CASE Interrupted(i)
    BY <1>3 DEF Interrupted, MoveAsideInterrupted, PublishInterrupted, WriteReceiptInterrupted, RInv,
                RemovalTypeOK, TypeOK
<1>4. CASE Commit(i)
    <2>1. CASE CommitRefused(i) \/ CopyRecovery(i) \/ CopyRecoveryFails(i)
        BY <2>1 DEF CommitRefused, CopyRecovery, CopyRecoveryFails
    <2>2. CASE CleanBackup(i) \/ CleanBackupFails(i)
        BY <2>2 DEF CleanBackup, CleanBackupFails
    <2>3. CASE CleanRecovery(i) \/ CleanRecoveryFails(i)
        BY <2>3 DEF CleanRecovery, CleanRecoveryFails, Committed
    <2>. QED
        BY <1>4, <2>1, <2>2, <2>3 DEF Commit
<1>5. CASE Rollback(i)
    <2>1. CASE UndoPublish(i) \/ UndoPublishRefused(i) \/ NothingToRestore(i)
        BY <2>1 DEF UndoPublish, UndoPublishRefused, NothingToRestore, Stranded
    <2>2. CASE UndoAside(i) \/ UndoAsideRefused(i)
        BY <2>2 DEF UndoAside, UndoAsideRefused, Stranded
    <2>3. CASE UndoReceipt(i) \/ UndoReceiptRefused(i) \/ UndoClean(i) \/ UndoFails(i)
        BY <2>3 DEF UndoReceipt, UndoReceiptRefused, UndoClean, UndoFails, RolledBack, Stranded
    <2>. QED
        BY <1>5, <2>1, <2>2, <2>3 DEF Rollback
<1>6. CASE Crash(i)
    BY <1>6 DEF Crash
<1>. QED
    BY <1>2, <1>3, <1>4, <1>5, <1>6 DEF Works

(* What went before an orderly state of affairs was orderly.               *)
LEMMA InstallersOrderly ==
    ASSUME RInv, Trails, Fares, NEW i \in Installers, Works(i), UNCHANGED <<at, job, answer>>
    PROVE  /\ Ended' /\ \A k \in Installers : Fare(k)'
           /\ Orderly' => Orderly /\ ~Interrupted(i) /\ ~Crash(i)
<1>1. Trail(i) /\ Fare(i)
    BY DEF Trails, Fares
<1>2. Marches(i)
    BY <1>1, Marching
<1>3. Answers(i) /\ Frame(i)
    BY Answering, Frames DEF Works, RInv, RemovalTypeOK
<1>4. /\ Ended'
      /\ crashes' = 0 /\ interrupts' = 0 =>
            crashes = 0 /\ interrupts = 0 /\ ~Interrupted(i) /\ ~Crash(i)
    BY <1>3, CalmStep DEF Fares, Answers
<1>5. /\ Fare(i)'
      /\ pc[i] \in Retreat => \/ pc'[i] \in Retreat
                              \/ pc'[i] = "done" /\ outcome'[i] \in {"failed", "stranded", "swallowed"}
                              \/ Crash(i)
    BY <1>1, FaringOn
<1>6. ASSUME NEW k \in Installers \ {i} PROVE Fare(k)'
    <2>1. /\ pc'[k] = pc[k] /\ stage'[k] = stage[k] /\ backup'[k] = backup[k] /\ outcome'[k] = outcome[k]
          /\ (k \in moved') = (k \in moved) /\ (interrupts' = 0 => interrupts = 0)
        BY <1>3 DEF Answers, Frame
    <2>. QED
        BY <2>1 DEF Fare, Fares
<1>7. crashes' = 0 => crashes = 0
    BY <1>3 DEF Answers
<1>8. Ended' /\ \A k \in Installers : Fare(k)'
    BY <1>4, <1>5, <1>6
<1>9. ASSUME Orderly' PROVE Orderly /\ ~Interrupted(i) /\ ~Crash(i)
    <2>1. crashes = 0 /\ interrupts = 0 /\ ~Interrupted(i) /\ ~Crash(i)
        BY <1>4, <1>9 DEF Orderly
    <2>2. ASSUME NEW k \in moved PROVE pc[k] \notin Retreat /\ outcome[k] # "failed"
        <3>1. k \in Installers /\ k \in moved'
            BY <1>2 DEF Marches, RInv, RemovalTypeOK, TypeOK
        <3>2. pc'[k] \notin Retreat /\ outcome'[k] \notin {"failed", "stranded", "swallowed"}
            BY <1>9, <3>1 DEF Orderly, Unwithdrawn
        <3>3. CASE k = i
            <4>1. pc[i] \notin Retreat
                BY <1>5, <2>1, <3>2, <3>3
            <4>2. pc[i] \notin {"done", "dead"}
                BY <1>4, <2>1, <1>3 DEF Answers, Fares, Ended
            <4>. QED
                BY <1>1, <3>3, <4>1, <4>2 DEF Fare
        <3>4. CASE k # i
            BY <1>3, <3>1, <3>2, <3>4 DEF Answers
        <3>. QED
            BY <3>3, <3>4
    <2>3. ASSUME NEW k \in moved \cup committed PROVE ~Unwithdrawn(k)
        <3>1. k \in Installers /\ k \in moved' \cup committed'
            BY <1>2, Pens DEF Marches, OfOthers, RInv, RemovalTypeOK, TypeOK
        <3>2. CASE k = i
            BY <1>3, <3>2 DEF Answers, Fares, Ended, Unwithdrawn
        <3>3. CASE k # i
            BY <1>3, <1>9, <3>1, <3>3 DEF Answers, Orderly, Unwithdrawn
        <3>. QED
            BY <3>2, <3>3
    <2>. QED
        BY <1>9, <2>1, <2>2, <2>3 DEF Orderly
<1>. QED
    BY <1>8, <1>9

(* What went before an orderly state of affairs was orderly.               *)
LEMMA RemoversFare ==
    ASSUME RInv, Papers, Fares, NEW r \in Removers, Acts(r), UNCHANGED installVars
    PROVE  /\ Ended' /\ \A k \in Installers : Fare(k)'
           /\ Orderly' => Orderly
<1>0. /\ at \in [Removers -> RemoverPoints] /\ job \in [Removers -> Jobs]
      /\ crashes \in Nat /\ interrupts \in Nat
    BY DEF RInv, RemovalTypeOK, TypeOK
<1>1. Leaves(r) /\ Handles(r) /\ Hauls(r)
    BY Handling, Hauling
<1>2. UNCHANGED <<pc, stage, backup, outcome, moved, committed>>
    BY DEF installVars, txVars
<1>3. (crashes' = 0 => crashes = 0) /\ (interrupts' = 0 => interrupts = 0)
    BY <1>0, <1>1 DEF Hauls, Looks, Captures, Yields, Rebuilds, Refused, Breaks, TakesTree, Lates,
                      Free, Spent, countVars
<1>4. answer[r] = "none"
    <2>1. at[r] # "done"
        BY <1>1 DEF Handles, Onward
    <2>. QED
        BY <2>1 DEF Papers, Course
<1>5. Orderly' => Orderly
    BY <1>1, <1>2, <1>3, <1>4 DEF Orderly, Unwithdrawn, Leaves
<1>6. Ended' /\ \A i \in Installers : Fare(i)'
    BY <1>2, <1>3 DEF Fares, Ended, Fare
<1>. QED
    BY <1>5, <1>6

(* What a step of a remover does where all is in order.                    *)
Alike(r) ==
    /\ job'[r].paper = job[r].paper /\ job'[r].held = job[r].held
    /\ job'[r].recorded = job[r].recorded /\ job'[r].tree = job[r].tree
Gives == {"copy", "takeTree", "takeReceipt", "checkBox", "cleanBox", "cleanSnapshot"}
Strolls ==
    {<<"begin", "done">>, <<"capture", "done">>, <<"copy", "takeTree">>, <<"checkBox", "cleanBox">>,
     <<"cleanBox", "cleanSnapshot">>, <<"cleanSnapshot", "done">>} \cup (Gives \X {"restore"})

(* It looks around and leaves tree and receipt alone.                      *)
Sees(r) ==
    /\ UNCHANGED <<target, receipt>>
    /\ \/ /\ at[r] = "idle" /\ at'[r] = "plan" /\ job'[r].paper \in {receipt, Absent}
          /\ job'[r].held = job[r].held /\ job'[r].recorded = job[r].recorded
       \/ /\ at[r] = "plan" /\ at'[r] = "begin" /\ job'[r].tree = target
          /\ job'[r].paper = job[r].paper /\ job'[r].held = job[r].held
          /\ job'[r].recorded = job[r].recorded
       \/ /\ at[r] = "begin" /\ at'[r] = "capture" /\ Alike(r)
          /\ job[r].paper # Absent /\ receipt = job[r].paper
          /\ TreeAsPlanned(r) /\ target.of = job[r].paper.of
       \/ /\ at[r] = "capture" /\ at'[r] = "copy" /\ receipt = job[r].paper
          /\ TreeAsPlanned(r) /\ target.of \notin {Nothing, Broken}
          /\ job'[r].held = target /\ job'[r].paper = job[r].paper
          /\ job'[r].recorded = job[r].recorded /\ job'[r].tree = job[r].tree
       \/ /\ at[r] = "validate" /\ at'[r] = "done" /\ Alike(r) /\ target.of = job[r].paper.of
       \/ <<at[r], at'[r]>> \in Strolls /\ Alike(r)

(* It moves or makes a tree.                                               *)
Bears(r) ==
    /\ UNCHANGED receipt /\ Alike(r)
    /\ \/ at[r] = "takeTree" /\ at'[r] = "takeReceipt" /\ target' = Absent
       \/ at[r] = "restore" /\ at'[r] = "rebuild" /\ target' = Absent
       \/ at[r] = "rebuild" /\ at'[r] = "fill" /\ target = Absent /\ target' = Copy(Broken, r)
       \/ /\ at[r] = "fill" /\ at'[r] = "restoreReceipt" /\ target = Copy(Broken, r)
          /\ target' = Copy(job[r].held.of, r)

(* It moves or writes a receipt.                                           *)
Files(r) ==
    /\ UNCHANGED target
    /\ job'[r].paper = job[r].paper /\ job'[r].held = job[r].held /\ job'[r].tree = job[r].tree
    /\ job'[r].recorded = (at'[r] = "checkBox" \/ job[r].recorded)
    /\ \/ /\ at[r] = "takeReceipt" /\ at'[r] = "keepReceipt" /\ ~Locked
          /\ receipt = job[r].paper /\ receipt' = Absent /\ job'[r].boxedPaper = receipt
       \/ at[r] = "keepReceipt" /\ at'[r] = "checkBox" /\ UNCHANGED receipt
       \/ at[r] = "keepReceipt" /\ at'[r] = "restore" /\ receipt' = job[r].paper
       \/ /\ at[r] = "restoreReceipt" /\ at'[r] = "linkReceipt" /\ ~Locked
          /\ receipt = ReceiptAsLeft(r) /\ receipt' = Absent
       \/ at[r] = "linkReceipt" /\ at'[r] = "validate" /\ receipt' = Copy(job[r].paper.of, r)

(* Who is not r stays as it is.                                            *)
Aside(r) ==
    /\ Leaves(r) /\ UNCHANGED <<moved, published, outcome>>
    /\ at[r] \notin {"done", "dead"} /\ at'[r] # "idle"

(* Every orderly step of a remover is one of these.                        *)
LEMMA RemoversOrderly ==
    ASSUME RInv, Papers, Fares, NEW r \in Removers, Acts(r), UNCHANGED installVars, Orderly'
    PROVE  Aside(r) /\ (Sees(r) \/ Bears(r) \/ Files(r))
<1>0. /\ at \in [Removers -> RemoverPoints] /\ job \in [Removers -> Jobs]
      /\ answer \in [Removers -> Reports]
      /\ crashes \in Nat /\ interrupts \in Nat
    BY DEF RInv, RemovalTypeOK, TypeOK
<1>1. Leaves(r)
    BY Handling
<1>2. /\ answer'[r] # "stranded" /\ crashes' = 0 /\ interrupts' = 0
    BY DEF Orderly
<1>3. Hold(r) /\ Course(r)
    BY RemoversFare DEF Fares, Held, Papers
<1>. USE <1>0 DEF To, Ends, Jobs
<1>4. Aside(r)
    <2>1. UNCHANGED <<moved, published, outcome>>
        BY DEF installVars, txVars
    <2>2. at[r] \notin {"done", "dead"} /\ at'[r] # "idle"
        BY Handling DEF Handles, Onward
    <2>. QED
        BY <1>1, <2>1, <2>2 DEF Aside
<1>. SUFFICES Sees(r) \/ Bears(r) \/ Files(r)
    BY <1>4
<1>. USE DEF Sees, Bears, Files, Alike, Strolls, Gives
<1>5. CASE RPlanReceipt(r)
    BY <1>5 DEF RPlanReceipt, Readable
<1>6. CASE RPlanTarget(r)
    <2>1. PICK owned : job' = [job EXCEPT ![r] = [@ EXCEPT !.tree = target, !.owned = owned]]
        BY <1>6 DEF RPlanTarget
    <2>2. /\ SameJob(r) /\ job'[r].tree = target
        BY <2>1 DEF SameJob
    <2>3. at[r] = "plan" /\ at'[r] = "begin" /\ UNCHANGED <<target, receipt>>
        BY <1>6 DEF RPlanTarget
    <2>. QED
        BY <2>2, <2>3 DEF SameJob
<1>7. CASE AlreadyAbsent(r) \/ RefuseRemoval(r) \/ CaptureRefused(r) \/ BeginFailsUnchanged(r)
    BY <1>7 DEF AlreadyAbsent, RefuseRemoval, CaptureRefused, BeginFailsUnchanged
<1>8. CASE BeginRemoval(r)
    BY <1>8 DEF BeginRemoval, Readable
<1>9. CASE CaptureBytes(r)
    <2>1. job[r].paper # Absent
        BY <1>3, <1>9 DEF Course, CaptureBytes
    <2>. QED
        BY <1>9, <2>1 DEF CaptureBytes, Readable
<1>10. CASE CopySnapshot(r) \/ TreeGone(r) \/ TakeTree(r)
    BY <1>10 DEF CopySnapshot, TreeGone, TakeTree
<1>11. CASE TakeTreeInterrupted(r) \/ KeepReceiptInterrupted(r) \/ KillRemover(r)
    BY <1>2, <1>11 DEF TakeTreeInterrupted, KeepReceiptInterrupted, KillRemover
<1>12. CASE TakeReceipt(r) \/ TakeReceiptRefused(r) \/ KeepReceipt(r)
    <2>1. CASE TakeReceipt(r) \/ TakeReceiptRefused(r)
        BY <2>1 DEF TakeReceipt, TakeReceiptRefused
    <2>2. CASE KeepReceipt(r)
        BY <2>2 DEF KeepReceipt
    <2>. QED
        BY <1>12, <2>1, <2>2
<1>13. CASE KeepReceiptFails(r)
    BY <1>13, <1>3 DEF KeepReceiptFails, Hold
<1>14. CASE CheckBox(r) \/ CleanBox(r)
    <2>1. CASE CheckBox(r)
        BY <2>1 DEF CheckBox
    <2>2. CASE CleanBox(r)
        BY <2>2 DEF CleanBox
    <2>. QED
        BY <1>14, <2>1, <2>2
<1>15. CASE CleanBoxFails(r)
    <2>1. PICK b \in HalfRemoved(job[r].box), p \in {Absent, job[r].boxedPaper}, kept \in BOOLEAN :
              job' = [job EXCEPT ![r] = [@ EXCEPT !.box = b, !.boxedPaper = p, !.preserve = kept]]
        BY <1>15 DEF CleanBoxFails
    <2>2. LET j == [job[r] EXCEPT !.box = b, !.boxedPaper = p, !.preserve = kept]
          IN  /\ j.held = job[r].held /\ j.tree = job[r].tree /\ j.paper = job[r].paper
              /\ j.recorded = job[r].recorded
        BY ONLY <1>0 DEF Jobs
    <2>3. Alike(r)
        BY <2>1, <2>2
    <2>. QED
        BY <1>15, <2>3 DEF CleanBoxFails
<1>16. CASE CleanSnapshot(r) \/ CleanSnapshotFails(r) \/ RemovalFails(r)
    BY <1>16 DEF CleanSnapshot, CleanSnapshotFails, RemovalFails
<1>17. CASE RemoveRemains(r) \/ Rebuild(r) \/ Fill(r)
    BY <1>17 DEF RemoveRemains, Rebuild, Fill
<1>18. CASE RestoreReceipt(r) \/ LinkReceipt(r)
    BY <1>18 DEF RestoreReceipt, LinkReceipt
<1>19. CASE Validate(r)
    BY <1>19 DEF Validate
<1>20. CASE RestoreRefused(r) \/ RestoreFails(r)
    BY <1>2, <1>20 DEF RestoreRefused, RestoreFails
<1>. QED
    BY <1>5, <1>6, <1>7, <1>8, <1>9, <1>10, <1>11, <1>12, <1>13, <1>14, <1>15, <1>16, <1>17, <1>18,
       <1>19, <1>20 DEF Acts, Remove, Restore

-----------------------------------------------------------------------------
(* What a step of an installer does where all is in order.                 *)
Treads ==
    {<<"plan", "begin">>, <<"begin", "stage">>, <<"stage", "aside">>, <<"commit", "clean">>,
     <<"clean", "cleanRecovery">>, <<"undoAside", "undoReceipt">>}
    \cup ({"begin", "stage", "commit", "clean", "cleanRecovery", "undoClean"} \X {"done"})

(* It looks around and leaves tree and receipt alone.                      *)
Surveys(i) ==
    /\ UNCHANGED <<target, receipt, moved, published, committed>>
    /\ \/ pc[i] = "idle" /\ pc'[i] = "plan" /\ seenReceipt'[i] \in {receipt, Absent}
       \/ /\ UNCHANGED seenReceipt
          /\ \/ <<pc[i], pc'[i]>> \in Treads
             \/ pc[i] = "aside" /\ pc'[i] = "publish" /\ i \notin moved /\ target = Absent
             \/ pc[i] = "check" /\ pc'[i] = "verify"
             \/ pc[i] = "verify" /\ pc'[i] = "commit" /\ target = Original(i)
             \/ /\ pc[i] \in {"aside", "publish", "receipt", "check", "verify"}
                /\ pc'[i] = "undoPublish" /\ i \notin moved
             \/ pc[i] = "undoPublish" /\ pc'[i] = "undoAside" /\ (i \notin published \/ target = Absent)
             \/ pc[i] = "undoReceipt" /\ pc'[i] = "undoClean" /\ i \notin committed
             \/ /\ pc[i] \in {"undoPublish", "undoAside", "undoReceipt"} /\ pc'[i] = "done"
                /\ i \notin moved /\ i \notin committed /\ Unwithdrawn(i)'

(* It moves a tree.                                                        *)
Shifts(i) ==
    /\ UNCHANGED <<receipt, seenReceipt, committed>>
    /\ \/ /\ pc[i] = "aside" /\ pc'[i] = "publish" /\ target' = Absent
          /\ moved' = moved \cup {i} /\ UNCHANGED published
       \/ /\ pc[i] = "publish" /\ pc'[i] = "receipt" /\ target = Absent /\ target' = Original(i)
          /\ published' = published \cup {i} /\ UNCHANGED moved
       \/ /\ pc[i] = "undoPublish" /\ pc'[i] = "undoAside" /\ i \in published
          /\ target = Original(i) /\ target' = Absent /\ UNCHANGED <<moved, published>>

(* It writes a receipt.                                                    *)
Signs(i) ==
    /\ UNCHANGED <<target, seenReceipt, moved, published>> /\ ~Locked
    /\ \/ /\ pc[i] = "receipt" /\ pc'[i] = "check" /\ receipt = seenReceipt[i]
          /\ receipt' = [of |-> i, by |-> i] /\ committed' = committed \cup {i}
       \/ /\ pc[i] = "undoReceipt" /\ pc'[i] = "undoClean" /\ i \in committed
          /\ receipt = [of |-> i, by |-> i] /\ receipt' = RestoredReceipt(i) /\ UNCHANGED committed

(* Who is not i stays as it is.                                            *)
Alongside(i) ==
    /\ \A k \in Installers \ {i} :
          pc'[k] = pc[k] /\ seenReceipt'[k] = seenReceipt[k] /\ outcome'[k] = outcome[k]
    /\ UNCHANGED <<at, job, answer>>

(* An installer that goes forward.                                         *)
LEMMA ForwardOrderly ==
    ASSUME RInv, NEW i \in Installers, Fare(i), Trail(i), Forward(i), Orderly',
           pc[i] \in {"receipt", "undoReceipt"} => ~Locked
    PROVE  Surveys(i) \/ Shifts(i) \/ Signs(i)
<1>0. /\ pc \in [Installers -> Points] /\ seenReceipt \in [Installers -> Objects]
      /\ moved \subseteq Installers /\ outcome \in [Installers -> Outcomes]
    BY DEF RInv, RemovalTypeOK, TypeOK
<1>1. i \in moved' => pc'[i] \notin Retreat /\ outcome'[i] # "failed"
    BY DEF Orderly
<1>2. stage[i] = Original(i) \/ pc[i] # "publish"
    BY DEF Fare
<1>3. i \in moved => pc[i] # "aside"
    BY DEF Trail
<1>. USE <1>0 DEF Surveys, Shifts, Signs, Treads, Retreat, Goto, Finish, Undo, Fault, diskVars, planVars,
                  txVars
<1>4. CASE PlanReceipt(i)
    BY <1>4 DEF PlanReceipt, Readable
<1>5. CASE PlanTarget(i) \/ Begin(i) \/ Refuse(i) \/ RefuseByFault(i) \/ Stage(i)
    BY <1>5 DEF PlanTarget, Begin, Refuse, RefuseByFault, Stage
<1>6. CASE MoveAside(i)
    BY <1>6 DEF MoveAside
<1>7. CASE NothingToMove(i) \/ MoveAsideRefused(i)
    BY <1>7, <1>1, <1>3 DEF NothingToMove, MoveAsideRefused
<1>8. CASE Publish(i)
    BY <1>8, <1>2 DEF Publish
<1>9. CASE PublishRefused(i) \/ WriteReceiptRefused(i) \/ CheckRefused(i) \/ BeginFails(i)
    BY <1>9, <1>1 DEF PublishRefused, WriteReceiptRefused, CheckRefused, BeginFails
<1>10. CASE WriteReceipt(i)
    BY <1>10 DEF WriteReceipt
<1>11. CASE Check(i) \/ VerifyUsable(i)
    BY <1>11 DEF Check, VerifyUsable
<1>12. CASE VerifyNotReady(i) \/ VerifyFails(i)
    BY <1>12, <1>1 DEF VerifyNotReady, VerifyFails
<1>. QED
    BY <1>4, <1>5, <1>6, <1>7, <1>8, <1>9, <1>10, <1>11, <1>12 DEF Forward

(* An installer that commits or rolls back.                                *)
LEMMA BackwardOrderly ==
    ASSUME RInv, NEW i \in Installers, Fare(i), Orderly, Commit(i) \/ Rollback(i), Orderly',
           pc[i] \in {"receipt", "undoReceipt"} => ~Locked
    PROVE  Surveys(i) \/ Shifts(i) \/ Signs(i)
<1>0. /\ pc \in [Installers -> Points] /\ seenReceipt \in [Installers -> Objects]
      /\ moved \subseteq Installers /\ outcome \in [Installers -> Outcomes]
    BY DEF RInv, RemovalTypeOK, TypeOK
<1>1. /\ i \in moved' => pc'[i] \notin Retreat /\ outcome'[i] # "failed"
      /\ i \in moved' \cup committed' => ~Unwithdrawn(i)'
      /\ i \in moved => pc[i] \notin Retreat
    BY DEF Orderly
<1>2. i \notin moved => backup[i] = Absent
    BY DEF Fare, Orderly
<1>. USE <1>0 DEF Surveys, Shifts, Signs, Treads, Retreat, Goto, Finish, Fault, diskVars, planVars, txVars
<1>3. CASE CommitRefused(i) \/ CopyRecovery(i) \/ CleanBackup(i)
    BY <1>3 DEF CommitRefused, CopyRecovery, CleanBackup
<1>4. CASE CopyRecoveryFails(i) \/ CleanBackupFails(i)
    BY <1>4, <1>1, <1>2 DEF CopyRecoveryFails, CleanBackupFails
<1>5. CASE CleanRecovery(i) \/ CleanRecoveryFails(i)
    BY <1>5 DEF CleanRecovery, CleanRecoveryFails, Committed
<1>6. CASE UndoPublish(i)
    BY <1>6 DEF UndoPublish
<1>7. CASE UndoPublishRefused(i) \/ UndoAsideRefused(i) \/ UndoReceiptRefused(i) \/ UndoFails(i)
    <2>1. outcome'[i] \in {"stranded", "swallowed"} /\ pc'[i] = "done"
          /\ UNCHANGED <<seenReceipt, moved, published, committed>>
        BY <1>7 DEF UndoPublishRefused, UndoAsideRefused, UndoReceiptRefused, UndoFails, Stranded
    <2>2. i \notin moved /\ i \notin committed /\ Unwithdrawn(i)'
        BY <1>1, <2>1 DEF Unwithdrawn
    <2>. QED
        BY <1>7, <2>1, <2>2 DEF UndoPublishRefused, UndoAsideRefused, UndoReceiptRefused, UndoFails
<1>8. CASE UndoAside(i) \/ NothingToRestore(i)
    BY <1>8, <1>1 DEF UndoAside, NothingToRestore
<1>9. CASE UndoReceipt(i)
    BY <1>9 DEF UndoReceipt, Wrote
<1>10. CASE UndoClean(i)
    BY <1>10 DEF UndoClean, RolledBack
<1>. QED
    BY <1>3, <1>4, <1>5, <1>6, <1>7, <1>8, <1>9, <1>10 DEF Commit, Rollback

(* A step that leaves all in order.                                        *)
Kinds ==
    \/ \E i \in Installers : Alongside(i) /\ (Surveys(i) \/ Shifts(i) \/ Signs(i))
    \/ \E r \in Removers : Aside(r) /\ (Sees(r) \/ Bears(r) \/ Files(r))

(* Every step leaves what went before in order, and is of these kinds.     *)
LEMMA OrderlySteps ==
    ASSUME RInv, Papers, Trails, Fares, RemoverNext
    PROVE  /\ Ended' /\ \A k \in Installers : Fare(k)'
           /\ Orderly' => Orderly /\ Kinds
<1>1. ASSUME NEW i \in Installers, InstallStep(i) \/ Crash(i), UNCHANGED <<at, job, answer>>
      PROVE  /\ Ended' /\ \A k \in Installers : Fare(k)'
             /\ Orderly' => Orderly /\ Kinds
    <2>1. Works(i)
        BY <1>1 DEF Works, InstallStep
    <2>2. /\ Ended' /\ \A k \in Installers : Fare(k)'
          /\ Orderly' => Orderly /\ ~Interrupted(i) /\ ~Crash(i)
        BY <1>1, <2>1, InstallersOrderly
    <2>3. ASSUME Orderly' PROVE Kinds
        <3>1. /\ Forward(i) \/ Commit(i) \/ Rollback(i)
              /\ pc[i] \in {"receipt", "undoReceipt"} => ~Locked
            BY <1>1, <2>2, <2>3 DEF InstallStep
        <3>2. Surveys(i) \/ Shifts(i) \/ Signs(i)
            BY <2>2, <2>3, <3>1, ForwardOrderly, BackwardOrderly DEF Fares, Trails
        <3>3. Alongside(i)
            BY <1>1, <2>1, Pens, Answering DEF Alongside, OfOthers, Answers, Works, RInv, RemovalTypeOK
        <3>. QED
            BY <3>2, <3>3 DEF Kinds
    <2>. QED
        BY <2>2, <2>3
<1>2. ASSUME NEW r \in Removers, Acts(r), UNCHANGED installVars
      PROVE  /\ Ended' /\ \A k \in Installers : Fare(k)'
             /\ Orderly' => Orderly /\ Kinds
    BY <1>2, RemoversFare, RemoversOrderly DEF Kinds
<1>. QED
    BY <1>1, <1>2 DEF RemoverNext, Acts

-----------------------------------------------------------------------------
(* The receipt counts as in place while a remover has it under a private   *)
(* name and may yet put it back.                                           *)
Vouched(o) ==
    o # Absent /\ (receipt = o \/ \E r \in Removers : at[r] = "keepReceipt" /\ job[r].paper = o)
Vacant == receipt = Absent /\ \A r \in Removers : at[r] # "keepReceipt"

(* A receipt that someone has read was written: by the installer it names, *)
(* by one that has rolled back, or by a remover that has restored.         *)
Sealed(o) ==
    /\ o.of \in Installers => o.of \in committed
    /\ o.of # Broken
    /\ o.by \in Installers /\ o.by # o.of => pc[o.by] \in {"undoClean", "done"}
    /\ o.by \in Removers => at[o.by] \in {"validate", "done"}
    /\ o.by = NoOne => o.of \notin Installers
Sheets ==
    /\ Sealed(receipt)
    /\ \A i \in Installers : Sealed(seenReceipt[i]) /\ seenReceipt[i].of # i
    /\ \A r \in Removers : Sealed(job[r].paper)

(* What the steps of this section start from.                              *)
Sound == RInv /\ Papers /\ Trails /\ Held /\ Sheets
Facing == Sound /\ Orderly /\ Orderly' /\ Kinds

(* The constants and the contents told apart.                              *)
LEMMA Apart ==
    /\ Absent.of = Nothing /\ Absent.by = NoOne
    /\ \A c : Original(c).of = c /\ Original(c).by = NoOne
    /\ \A c, r : Copy(c, r).of = c /\ Copy(c, r).by = r
    /\ \A i \in Installers : i \notin Removers /\ i # NoOne /\ i # Nothing /\ i # Broken
    /\ \A r \in Removers : r \notin Installers /\ r # NoOne
    /\ Nothing # Broken /\ NoOne \notin Installers /\ NoOne \notin Removers
    /\ Nothing \notin Installers /\ Broken \notin Installers
BY ContentsAssumption, RemoversAssumption DEF Absent, Original, Copy

(* Who has the lock keeps it until the receipt has its name again.         *)
LEMMA HeldStays ==
    ASSUME RInv, Papers, Held, Orderly', Kinds
    PROVE  Held'
<1>1. ASSUME NEW i \in Installers, Alongside(i), Surveys(i) \/ Shifts(i) \/ Signs(i)
      PROVE  Held'
    <2>1. receipt' = receipt \/ ~Locked
        BY <1>1 DEF Surveys, Shifts, Signs
    <2>. QED
        BY <1>1, <2>1 DEF Held, Hold, Alongside, Locker, Locked
<1>2. ASSUME NEW r \in Removers, Aside(r), Sees(r) \/ Bears(r) \/ Files(r)
      PROVE  Held'
    <2>1. \A s \in Removers \ {r} : at'[s] = at[s] /\ job'[s] = job[s]
        BY <1>2 DEF Aside, Leaves
    <2>2. at'[r] \in Locker => ~Locked \/ at[r] \in Locker
        BY <1>2 DEF Sees, Bears, Files, Locker, Strolls, Gives
    <2>3. at'[r] \in Locker => receipt' = Absent
        BY <1>2 DEF Sees, Bears, Files, Locker, Strolls, Gives
    <2>4. receipt' = receipt \/ ~Locked \/ at[r] \in Locker
        BY <1>2 DEF Files, Sees, Bears, Locker
    <2>5. Hold(r)'
        <3>1. at'[r] # "dead"
            BY <1>2 DEF Sees, Bears, Files, Strolls, Gives
        <3>2. at'[r] = "keepReceipt" => job'[r].boxedPaper = job'[r].paper
            BY <1>2 DEF Sees, Bears, Files, Strolls, Gives
        <3>3. at'[r] = "capture" /\ job'[r].tree # Absent => job'[r].tree.of = job'[r].paper.of
            BY <1>2 DEF Sees, Bears, Files, Strolls, Gives, Alike, TreeAsPlanned
        <3>. QED
            BY <3>1, <3>2, <3>3 DEF Hold
    <2>6. \A s \in Removers : Hold(s)'
        BY <2>1, <2>5 DEF Held, Hold
    <2>7. ASSUME NEW s \in Removers, at'[s] \in Locker
          PROVE  receipt' = Absent
        BY <2>1, <2>2, <2>3, <2>4, <2>7 DEF Held, Locker, Locked
    <2>8. ASSUME NEW s \in Removers, NEW t \in Removers, at'[s] \in Locker, at'[t] \in Locker
          PROVE  s = t
        BY <2>1, <2>2, <2>8 DEF Held, Locker, Locked
    <2>. QED
        BY <2>6, <2>7, <2>8 DEF Held
<1>. QED
    BY <1>1, <1>2 DEF Kinds

(* What was written stays written.                                         *)
LEMMA SealedStays ==
    ASSUME Facing, NEW o, Sealed(o)
    PROVE  Sealed(o)'
<1>1. ASSUME NEW i \in Installers, Alongside(i), Surveys(i) \/ Shifts(i) \/ Signs(i)
      PROVE  Sealed(o)'
    <2>1. committed \subseteq committed'
        BY <1>1 DEF Surveys, Shifts, Signs
    <2>2. pc[i] \in {"undoClean", "done"} => pc'[i] \in {"undoClean", "done"}
        BY <1>1 DEF Surveys, Shifts, Signs, Treads
    <2>. QED
        BY <1>1, <2>1, <2>2 DEF Sealed, Alongside
<1>2. ASSUME NEW r \in Removers, Aside(r), Sees(r) \/ Bears(r) \/ Files(r)
      PROVE  Sealed(o)'
    <2>1. \A s \in Removers \ {r} : at'[s] = at[s]
        BY <1>2 DEF Aside, Leaves
    <2>2. at[r] \in {"validate", "done"} => at'[r] \in {"validate", "done"}
        BY <1>2 DEF Sees, Bears, Files, Strolls, Gives
    <2>3. UNCHANGED <<committed, pc>>
        BY <1>2 DEF Aside, Leaves
    <2>. QED
        BY <2>1, <2>2, <2>3 DEF Sealed
<1>. QED
    BY <1>1, <1>2 DEF Facing, Kinds

(* What is read was written.                                               *)
LEMMA SheetsStay == Facing => Sheets'
<1>. SUFFICES ASSUME Facing PROVE Sheets'
    OBVIOUS
<1>0. Sealed(Absent)' /\ Sealed(Absent)
    BY Apart DEF Sealed
<1>1. /\ Sealed(receipt) /\ \A i \in Installers : Sealed(seenReceipt[i]) /\ seenReceipt[i].of # i
      /\ \A r \in Removers : Sealed(job[r].paper)
    BY DEF Facing, Sound, Sheets
<1>2. \A o : Sealed(o) => Sealed(o)'
    BY SealedStays
<1>3. ASSUME NEW i \in Installers, Alongside(i), Surveys(i) \/ Shifts(i) \/ Signs(i)
      PROVE  Sheets'
    <2>1. ASSUME NEW k \in Installers PROVE Sealed(seenReceipt[k])' /\ seenReceipt'[k].of # k
        <3>1. CASE seenReceipt'[k] = seenReceipt[k]
            BY <1>1, <1>2, <3>1 DEF Sealed
        <3>2. CASE seenReceipt'[k] # seenReceipt[k]
            <4>1. k = i /\ pc[i] = "idle" /\ seenReceipt'[i] \in {receipt, Absent}
                BY <1>3, <3>2 DEF Alongside, Surveys, Shifts, Signs
            <4>2. receipt.of # i
                BY <4>1 DEF Facing, Sound, Papers, Heard, Named, Early
            <4>. QED
                BY <1>0, <1>1, <1>2, <4>1, <4>2, Apart DEF Sealed
        <3>. QED
            BY <3>1, <3>2
    <2>2. Sealed(receipt)'
        <3>1. CASE receipt' = receipt
            BY <1>1, <1>2, <3>1 DEF Sealed
        <3>2. CASE Signs(i) /\ pc[i] = "receipt"
            BY <3>2, Apart DEF Signs, Sealed
        <3>3. CASE Signs(i) /\ pc[i] = "undoReceipt"
            <4>1. receipt' = Absent \/ (receipt'.of = seenReceipt[i].of /\ receipt'.by = i)
                BY <3>3 DEF Signs, RestoredReceipt
            <4>2. pc'[i] = "undoClean"
                BY <3>3 DEF Signs
            <4>3. \A o : o = seenReceipt[i] => Sealed(o)'
                BY <1>1, <1>2
            <4>. QED
                BY <1>0, <4>1, <4>2, <4>3, Apart DEF Sealed
        <3>. QED
            BY <1>3, <3>1, <3>2, <3>3 DEF Surveys, Shifts, Signs
    <2>. QED
        BY <1>1, <1>2, <1>3, <2>1, <2>2 DEF Sheets, Alongside
<1>4. ASSUME NEW r \in Removers, Aside(r), Sees(r) \/ Bears(r) \/ Files(r)
      PROVE  Sheets'
    <2>1. /\ \A s \in Removers \ {r} : job'[s] = job[s]
          /\ UNCHANGED seenReceipt
        BY <1>4 DEF Aside, Leaves
    <2>2. job'[r].paper \in {job[r].paper, receipt, Absent}
        BY <1>4 DEF Sees, Bears, Files, Alike
    <2>3. receipt' \in {receipt, Absent, job[r].paper} \/ (receipt' = Copy(job[r].paper.of, r) /\ at'[r] = "validate")
        BY <1>4 DEF Sees, Bears, Files
    <2>4. \A o : o \in {receipt, Absent, job[r].paper} => Sealed(o)'
        BY <1>0, <1>1, <1>2
    <2>5. Sealed(receipt)'
        <3>1. CASE receipt' = Copy(job[r].paper.of, r) /\ at'[r] = "validate"
            BY <2>4, <3>1, Apart DEF Sealed, Facing, Sound, Papers, Heard
        <3>. QED
            BY <2>3, <2>4, <3>1 DEF Sealed
    <2>6. Sealed(job[r].paper)'
        BY <2>2, <2>4 DEF Sealed
    <2>. QED
        BY <1>1, <1>2, <2>1, <2>5, <2>6 DEF Sheets
<1>. QED
    BY <1>3, <1>4 DEF Facing, Kinds

-----------------------------------------------------------------------------
(* How the receipt passes from one to the next.                            *)
OwnReceipt(i) == [of |-> i, by |-> i]

(* Nothing changes; or i writes its receipt over the one it planned on,    *)
(* puts that one back, or r removes it, sets it aside or writes it anew.   *)
SameReceipt == (\A o : Vouched(o)' <=> Vouched(o)) /\ (Vacant' <=> Vacant)
WritesOver(i) ==
    /\ pc[i] = "receipt" /\ pc'[i] = "check" /\ i \notin committed
    /\ \A o : Vouched(o) <=> o = seenReceipt[i] /\ o # Absent
    /\ seenReceipt[i] = Absent <=> Vacant
    /\ (\A o : Vouched(o)' <=> o = OwnReceipt(i)) /\ ~Vacant'
PutsBack(i) ==
    /\ pc[i] = "undoReceipt" /\ pc'[i] = "undoClean" /\ i \in committed /\ i \notin moved
    /\ (\A o : Vouched(o) <=> o = OwnReceipt(i)) /\ ~Vacant
    /\ \A o : Vouched(o)' <=> o = [of |-> seenReceipt[i].of, by |-> i] /\ seenReceipt[i] # Absent
    /\ Vacant' <=> seenReceipt[i] = Absent
Empties(r) ==
    /\ at[r] = "keepReceipt" /\ at'[r] = "checkBox"
    /\ (\A o : Vouched(o) <=> o = job[r].paper) /\ ~Vacant
    /\ (\A o : ~Vouched(o)') /\ Vacant'
Unlinks(r) ==
    /\ at[r] = "restoreReceipt" /\ at'[r] = "linkReceipt"
    /\ (job[r].recorded /\ Vacant) \/ (~job[r].recorded /\ ~Vacant)
    /\ \A o : Vouched(o) <=> o = job[r].paper /\ ~job[r].recorded
    /\ (\A o : ~Vouched(o)') /\ Vacant'
Relinks(r) ==
    /\ at[r] = "linkReceipt" /\ at'[r] = "validate"
    /\ (\A o : ~Vouched(o)) /\ Vacant
    /\ (\A o : Vouched(o)' <=> o = Copy(job[r].paper.of, r)) /\ ~Vacant'

(* There is at most one receipt.                                           *)
LEMMA OneReceipt ==
    ASSUME Sound
    PROVE  /\ \A o, p : Vouched(o) /\ Vouched(p) => o = p
           /\ \A o : Vouched(o) => ~Vacant /\ Sealed(o) /\ o.of # Nothing /\ Named(o.of)
           /\ Vacant \/ \E o : Vouched(o)
           /\ \A r \in Removers : at[r] = "keepReceipt" => Vouched(job[r].paper)
           /\ receipt # Absent => Vouched(receipt)
           /\ ~Locked => (Vacant <=> receipt = Absent) /\ \A o : Vouched(o) <=> o = receipt /\ o # Absent
<1>1. \A r \in Removers : at[r] = "keepReceipt" => job[r].paper # Absent
    BY DEF Sound, Papers, Course
<1>2. \A o : Vouched(o) => ~Vacant
    BY DEF Vouched, Vacant
<1>3. \A o, p : Vouched(o) /\ Vouched(p) => o = p
    BY DEF Vouched, Sound, Held, Locker
<1>4. \A o : Vouched(o) => Sealed(o) /\ o.of # Nothing /\ Named(o.of)
    BY DEF Vouched, Sound, Sheets, Papers, Heard, Whole
<1>5. Vacant \/ \E o : Vouched(o)
    BY <1>1 DEF Vouched, Vacant
<1>6. receipt # Absent => Vouched(receipt)
    BY DEF Vouched
<1>7. ~Locked => (Vacant <=> receipt = Absent) /\ \A o : Vouched(o) <=> o = receipt /\ o # Absent
    BY DEF Locked, Vouched, Vacant
<1>8. \A r \in Removers : at[r] = "keepReceipt" => Vouched(job[r].paper)
    BY <1>1 DEF Vouched
<1>. QED
    BY <1>2, <1>3, <1>4, <1>5, <1>6, <1>7, <1>8

(* What a step of an installer does to the receipt.                        *)
LEMMA InstallersPass ==
    ASSUME Facing, NEW i \in Installers, Alongside(i), Surveys(i) \/ Shifts(i) \/ Signs(i)
    PROVE  /\ Surveys(i) \/ Shifts(i) => SameReceipt
           /\ Signs(i) => WritesOver(i) \/ PutsBack(i)
<1>1. ASSUME Surveys(i) \/ Shifts(i) PROVE SameReceipt
    BY <1>1 DEF SameReceipt, Vouched, Vacant, Alongside, Surveys, Shifts
<1>2. ASSUME Signs(i) PROVE WritesOver(i) \/ PutsBack(i)
    <2>1. /\ Vacant <=> receipt = Absent
          /\ \A o : Vouched(o) <=> o = receipt /\ o # Absent
        BY <1>2, OneReceipt DEF Signs, Facing
    <2>2. /\ Vacant' <=> receipt' = Absent
          /\ \A o : Vouched(o)' <=> o = receipt' /\ o # Absent
        BY <1>2 DEF Signs, Alongside, Locked, Vouched, Vacant
    <2>3. CASE pc[i] = "receipt"
        <3>1. i \notin committed
            BY <2>3 DEF Facing, Sound, Papers, Early
        <3>2. OwnReceipt(i) # Absent
            BY Apart DEF OwnReceipt
        <3>. QED
            BY <1>2, <2>1, <2>2, <2>3, <3>1, <3>2 DEF Signs, WritesOver, OwnReceipt
    <2>4. CASE pc[i] = "undoReceipt"
        <3>1. i \notin moved
            BY <2>4 DEF Facing, Orderly, Retreat
        <3>2. OwnReceipt(i) # Absent /\ [of |-> seenReceipt[i].of, by |-> i] # Absent
            BY Apart DEF OwnReceipt
        <3>3. receipt' = IF seenReceipt[i] = Absent THEN Absent ELSE [of |-> seenReceipt[i].of, by |-> i]
            BY <1>2, <2>4 DEF Signs, RestoredReceipt
        <3>. QED
            BY <1>2, <2>1, <2>2, <2>4, <3>1, <3>2, <3>3 DEF Signs, PutsBack, OwnReceipt
    <2>. QED
        BY <1>2, <2>3, <2>4 DEF Signs
<1>. QED
    BY <1>1, <1>2

(* What a step of a remover does to the receipt.                           *)
LEMMA RemoversPass ==
    ASSUME Facing, NEW r \in Removers, Aside(r), Sees(r) \/ Bears(r) \/ Files(r)
    PROVE  /\ Sees(r) \/ Bears(r) => SameReceipt
           /\ Files(r) => \/ at'[r] \in {"keepReceipt", "restore"} /\ SameReceipt
                          \/ Empties(r) \/ Unlinks(r) \/ Relinks(r)
<1>1. \A s \in Removers \ {r} : at'[s] = at[s] /\ job'[s] = job[s]
    BY DEF Aside, Leaves
<1>2. Course(r) /\ Sound
    BY DEF Facing, Sound, Papers
<1>3. ASSUME Sees(r) \/ Bears(r) PROVE SameReceipt
    <2>1. receipt' = receipt /\ at[r] # "keepReceipt" /\ at'[r] # "keepReceipt"
        BY <1>3 DEF Sees, Bears, Strolls, Gives
    <2>. QED
        BY <1>1, <2>1 DEF SameReceipt, Vouched, Vacant
<1>4. ASSUME Files(r), at[r] = "takeReceipt"
      PROVE  at'[r] = "keepReceipt" /\ SameReceipt
    <2>1. /\ receipt = job[r].paper /\ receipt' = Absent /\ at'[r] = "keepReceipt"
          /\ job'[r].paper = job[r].paper /\ job[r].paper # Absent
        BY <1>2, <1>4 DEF Files, Course
    <2>2. \A s \in Removers : at[s] # "keepReceipt"
        BY <1>4 DEF Files, Locked
    <2>. QED
        BY <1>1, <1>4, <2>1, <2>2 DEF SameReceipt, Vouched, Vacant
<1>5. ASSUME Files(r), at[r] = "keepReceipt"
      PROVE  (at'[r] = "restore" /\ SameReceipt) \/ Empties(r)
    <2>1. receipt = Absent /\ job'[r].paper = job[r].paper /\ job[r].paper # Absent
        BY <1>2, <1>5 DEF Files, Course, Sound, Held, Locker
    <2>2. \A s \in Removers \ {r} : at[s] # "keepReceipt"
        BY <1>2, <1>5 DEF Sound, Held, Locker
    <2>3. \/ at'[r] = "checkBox" /\ receipt' = receipt
          \/ at'[r] = "restore" /\ receipt' = job[r].paper
        BY <1>5 DEF Files
    <2>. QED
        BY <1>1, <1>5, <2>1, <2>2, <2>3 DEF SameReceipt, Empties, Vouched, Vacant
<1>6. ASSUME Files(r), at[r] = "restoreReceipt"
      PROVE  Unlinks(r)
    <2>1. /\ receipt = ReceiptAsLeft(r) /\ receipt' = Absent /\ at'[r] = "linkReceipt"
          /\ job[r].paper # Absent /\ ~Locked
        BY <1>2, <1>6 DEF Files, Course
    <2>2. \A s \in Removers : at[s] # "keepReceipt" /\ at'[s] # "keepReceipt"
        BY <1>1, <2>1 DEF Locked
    <2>3. job[r].recorded \in BOOLEAN
        BY <1>2 DEF Sound, RInv, RemovalTypeOK, Jobs
    <2>. QED
        BY <1>6, <2>1, <2>2, <2>3 DEF Unlinks, Vouched, Vacant, ReceiptAsLeft
<1>7. ASSUME Files(r), at[r] = "linkReceipt"
      PROVE  Relinks(r)
    <2>1. receipt = Absent /\ receipt' = Copy(job[r].paper.of, r) /\ at'[r] = "validate"
        BY <1>2, <1>7 DEF Files, Sound, Held, Locker
    <2>2. \A s \in Removers : at[s] # "keepReceipt" /\ at'[s] # "keepReceipt"
        BY <1>1, <1>2, <1>7, <2>1 DEF Sound, Held, Locker
    <2>3. Copy(job[r].paper.of, r) # Absent
        BY Apart
    <2>. QED
        BY <1>7, <2>1, <2>2, <2>3 DEF Relinks, Vouched, Vacant
<1>. QED
    BY <1>3, <1>4, <1>5, <1>6, <1>7 DEF Files

(* What becomes of the receipt in a step.                                  *)
Passed ==
    \/ SameReceipt
    \/ \E i \in Installers : Alongside(i) /\ Signs(i) /\ (WritesOver(i) \/ PutsBack(i))
    \/ \E r \in Removers : Aside(r) /\ Files(r) /\ (Empties(r) \/ Unlinks(r) \/ Relinks(r))

(* In every step the receipt passes in one of these ways.                  *)
LEMMA Passing == Facing => Passed
BY InstallersPass, RemoversPass DEF Facing, Kinds, Passed

(* A receipt that someone has read does not come back.                     *)
LEMMA NoReceiptReturns ==
    ASSUME Facing, NEW o, Sealed(o), Vouched(o)'
    PROVE  Vouched(o)
<1>1. ASSUME NEW i \in Installers, WritesOver(i) \/ PutsBack(i), ~Vouched(o) PROVE FALSE
    <2>1. seenReceipt[i].of # i
        BY DEF Facing, Sound, Sheets
    <2>2. o.by = i /\ (o.of = i => i \notin committed) /\ (o.of # i => pc[i] = "undoReceipt")
        BY <1>1, <2>1 DEF WritesOver, PutsBack, OwnReceipt
    <2>. QED
        BY <2>2 DEF Sealed
<1>2. ASSUME NEW r \in Removers, Empties(r) \/ Unlinks(r) \/ Relinks(r), ~Vouched(o) PROVE FALSE
    <2>1. o.by = r /\ at[r] = "linkReceipt"
        BY <1>2, Apart DEF Empties, Unlinks, Relinks
    <2>. QED
        BY <2>1 DEF Sealed
<1>. QED
    BY <1>1, <1>2, Passing DEF Passed, SameReceipt

-----------------------------------------------------------------------------
(* Who cannot end well unless the receipt is the one it needs: an installer *)
(* that moved a tree, one whose tree is not in place after it wrote its    *)
(* receipt, and a remover that has captured, until the receipt is set      *)
(* aside or written anew.                                                  *)
Pledged == {"copy", "takeTree", "takeReceipt", "keepReceipt", "restore", "rebuild", "fill",
            "restoreReceipt"}
Withdrawing == {"undoPublish", "undoAside", "undoReceipt"}
Needs(x) ==
    IF x \in Removers
    THEN IF at[x] \in Pledged /\ ~job[x].recorded THEN job[x].paper ELSE Absent
    ELSE IF x \in moved /\ pc[x] \in {"publish", "receipt"} THEN seenReceipt[x]
    ELSE IF /\ x \in committed
            /\ pc[x] \in Withdrawing \/ (pc[x] \in {"check", "verify"} /\ target # Original(x))
         THEN OwnReceipt(x) ELSE Absent

Needed(o) == \E x \in Parties : Needs(x) = o
(* Somebody will not end well: what it needs is not the receipt, or        *)
(* somebody else needs the same.                                           *)
Lacks(x) == Needs(x) # Absent /\ ~Vouched(Needs(x))
Rivals(x, y) == x # y /\ Needs(x) # Absent /\ Needs(x) = Needs(y)
Hopeless == (\E x \in Parties : Lacks(x)) \/ \E x, y \in Parties : Rivals(x, y)

(* Needs, spelt out before and after a step.                               *)
LEMMA NeedsOf ==
    /\ \A r \in Removers :
          Needs(r) = IF at[r] \in Pledged /\ ~job[r].recorded THEN job[r].paper ELSE Absent
    /\ \A i \in Installers :
          Needs(i) = IF i \in moved /\ pc[i] \in {"publish", "receipt"} THEN seenReceipt[i]
                     ELSE IF /\ i \in committed
                             /\ \/ pc[i] \in Withdrawing
                                \/ pc[i] \in {"check", "verify"} /\ target # Original(i)
                          THEN OwnReceipt(i) ELSE Absent
    /\ \A r \in Removers :
          Needs(r)' = (IF at'[r] \in Pledged /\ ~job'[r].recorded THEN job'[r].paper ELSE Absent)
    /\ \A i \in Installers :
          Needs(i)' = (IF i \in moved' /\ pc'[i] \in {"publish", "receipt"} THEN seenReceipt'[i]
                       ELSE IF /\ i \in committed'
                               /\ \/ pc'[i] \in Withdrawing
                                  \/ pc'[i] \in {"check", "verify"} /\ target' # Original(i)
                            THEN OwnReceipt(i) ELSE Absent)
BY RemoversAssumption DEF Needs, OwnReceipt, Original

(* What someone needs was written.                                         *)
LEMMA NeedsSealed ==
    ASSUME Sound, NEW x \in Parties, Needs(x) # Absent
    PROVE  Sealed(Needs(x))
<1>1. \A i \in Installers : i \in committed => Sealed(OwnReceipt(i))
    BY Apart DEF Sealed, OwnReceipt
<1>. QED
    BY <1>1, NeedsOf DEF Parties, Sound, Sheets

(* An installer keeps its need until it meets it.                          *)
LEMMA InstallersNeed ==
    ASSUME Facing, NEW i \in Installers, Alongside(i), Surveys(i) \/ Shifts(i) \/ Signs(i)
    PROVE  /\ \A y \in Parties \ {i} : Needs(y) # Absent => Needs(y)' = Needs(y)
           /\ Needs(i) # Absent => \/ Needs(i)' = Needs(i)
                                   \/ Vouched(Needs(i)) /\ \A o : o = Needs(i) => ~Vouched(o)'
<1>1. ASSUME NEW r \in Removers PROVE Needs(r)' = Needs(r)
    BY NeedsOf DEF Alongside
<1>2. ASSUME NEW k \in Installers \ {i}, Needs(k) # Absent PROVE Needs(k)' = Needs(k)
    <2>1. /\ pc'[k] = pc[k] /\ seenReceipt'[k] = seenReceipt[k]
          /\ (k \in moved') = (k \in moved) /\ (k \in committed') = (k \in committed)
        BY DEF Alongside, Surveys, Shifts, Signs
    <2>2. target # Original(k) => target' # Original(k)
        BY Apart DEF Surveys, Shifts, Signs
    <2>. QED
        BY <2>1, <2>2, <1>2, NeedsOf
<1>3. ASSUME Needs(i) # Absent
      PROVE  \/ Needs(i)' = Needs(i)
             \/ Vouched(Needs(i)) /\ \A o : o = Needs(i) => ~Vouched(o)'
    <2>1. /\ i \in committed => pc[i] \notin Early
          /\ i \in moved => pc[i] \notin Retreat /\ pc[i] # "aside"
          /\ i \in moved' => pc'[i] \notin Retreat
          /\ seenReceipt[i].of # i
        BY DEF Facing, Orderly, Sound, Papers, Sheets, Trails, Trail
    <2>. USE DEF Early, Withdrawing, Retreat
    <2>2. CASE Surveys(i)
        BY <1>3, <2>1, <2>2, NeedsOf DEF Surveys, Treads
    <2>3. CASE Shifts(i)
        BY <1>3, <2>1, <2>3, NeedsOf, Apart DEF Shifts
    <2>4. CASE WritesOver(i) /\ Signs(i)
        <3>1. Needs(i) = seenReceipt[i] /\ seenReceipt[i] # OwnReceipt(i)
            BY <1>3, <2>1, <2>4, NeedsOf DEF WritesOver, OwnReceipt
        <3>. QED
            BY <1>3, <2>4, <3>1 DEF WritesOver
    <2>5. CASE PutsBack(i) /\ Signs(i)
        <3>1. Needs(i) = OwnReceipt(i) /\ OwnReceipt(i) # [of |-> seenReceipt[i].of, by |-> i]
            BY <1>3, <2>1, <2>5, NeedsOf DEF PutsBack, OwnReceipt
        <3>. QED
            BY <2>5, <3>1 DEF PutsBack
    <2>6. Signs(i) => WritesOver(i) \/ PutsBack(i)
        BY InstallersPass
    <2>. QED
        BY <2>2, <2>3, <2>4, <2>5, <2>6
<1>. QED
    BY <1>1, <1>2, <1>3 DEF Parties

(* So does a remover.                                                      *)
LEMMA RemoversNeed ==
    ASSUME Facing, NEW r \in Removers, Aside(r), Sees(r) \/ Bears(r) \/ Files(r)
    PROVE  /\ \A y \in Parties \ {r} : Needs(y) # Absent => Needs(y)' = Needs(y)
           /\ Needs(r) # Absent => \/ Needs(r)' = Needs(r)
                                   \/ Vouched(Needs(r)) /\ \A o : o = Needs(r) => ~Vouched(o)'
<1>1. ASSUME NEW s \in Removers \ {r} PROVE Needs(s)' = Needs(s)
    BY NeedsOf DEF Aside, Leaves
<1>2. ASSUME NEW k \in Installers, Needs(k) # Absent PROVE Needs(k)' = Needs(k)
    <2>1. UNCHANGED <<pc, seenReceipt, moved, committed>>
        BY DEF Aside, Leaves
    <2>2. target # Original(k) => target' # Original(k)
        BY Apart DEF Sees, Bears, Files
    <2>. QED
        BY <2>1, <2>2, <1>2, NeedsOf
<1>3. ASSUME Needs(r) # Absent
      PROVE  \/ Needs(r)' = Needs(r)
             \/ Vouched(Needs(r)) /\ \A o : o = Needs(r) => ~Vouched(o)'
    <2>1. Needs(r) = job[r].paper /\ at[r] \in Pledged /\ ~job[r].recorded
        BY <1>3, NeedsOf
    <2>2. CASE Sees(r)
        BY <2>1, <2>2, NeedsOf DEF Sees, Alike, Strolls, Gives, Pledged
    <2>3. CASE Bears(r)
        BY <2>1, <2>3, NeedsOf DEF Bears, Alike, Pledged
    <2>4. CASE Files(r) /\ Empties(r)
        BY <2>1, <2>4 DEF Empties
    <2>5. CASE Files(r) /\ Unlinks(r)
        BY <2>1, <2>5 DEF Unlinks
    <2>6. CASE Files(r) /\ Relinks(r)
        BY <2>1, <2>6 DEF Relinks, Pledged
    <2>7. CASE Files(r) /\ at'[r] \in {"keepReceipt", "restore"}
        BY <2>1, <2>7, NeedsOf DEF Files, Pledged
    <2>8. Files(r) => Empties(r) \/ Unlinks(r) \/ Relinks(r) \/ at'[r] \in {"keepReceipt", "restore"}
        BY RemoversPass
    <2>. QED
        BY <2>2, <2>3, <2>4, <2>5, <2>6, <2>7, <2>8
<1>. QED
    BY <1>1, <1>2, <1>3 DEF Parties

(* At most one party meets its need in a step, and the receipt is another  *)
(* then.                                                                   *)
NeedsKept(x) ==
    /\ \A y \in Parties \ {x} : Needs(y) # Absent => Needs(y)' = Needs(y)
    /\ Needs(x) # Absent => \/ Needs(x)' = Needs(x)
                            \/ Vouched(Needs(x)) /\ \A o : o = Needs(x) => ~Vouched(o)'

(* Every step leaves all needs alone but one, which it may meet.           *)
LEMMA NeedsStay == Facing => \E x \in Parties : NeedsKept(x)
BY InstallersNeed, RemoversNeed DEF Facing, Kinds, Parties, NeedsKept

(* There is no hope again.                                                 *)
LEMMA HopelessStays ==
    ASSUME Facing, Hopeless
    PROVE  Hopeless'
<1>1. PICK x \in Parties : NeedsKept(x)
    BY NeedsStay
<1>2. ASSUME NEW y \in Parties, Lacks(y)
      PROVE  Lacks(y)'
    <2>1. Needs(y)' = Needs(y)
        BY <1>1, <1>2 DEF NeedsKept, Lacks
    <2>2. \A o : o = Needs(y) => ~Vouched(o)'
        BY <1>2, NeedsSealed, NoReceiptReturns DEF Lacks, Facing
    <2>3. Needs(y) # Absent
        BY <1>2 DEF Lacks
    <2>. QED
        BY <2>1, <2>2, <2>3 DEF Lacks, Vouched
<1>3. ASSUME NEW y \in Parties, NEW z \in Parties, Rivals(y, z)
      PROVE  Hopeless'
    <2>1. y # z /\ Needs(y) # Absent /\ Needs(y) = Needs(z)
        BY <1>3 DEF Rivals
    <2>2. CASE Needs(y)' = Needs(y) /\ Needs(z)' = Needs(z)
        BY <2>1, <2>2 DEF Hopeless, Rivals
    <2>3. CASE Needs(y)' # Needs(y) \/ Needs(z)' # Needs(z)
        <3>1. PICK w \in {y, z} : Needs(w)' = Needs(w) /\ \A o : o = Needs(w) => ~Vouched(o)'
            BY <1>1, <2>1, <2>3 DEF NeedsKept
        <3>2. w \in Parties /\ Needs(w) # Absent
            BY <2>1
        <3>3. Lacks(w)'
            BY <3>1, <3>2 DEF Lacks, Vouched
        <3>. QED
            BY <3>2, <3>3 DEF Hopeless
    <2>. QED
        BY <2>2, <2>3
<1>. QED
    BY <1>2, <1>3 DEF Hopeless

-----------------------------------------------------------------------------
(* Where the tree is that a receipt was written for.                       *)
Home(o) == IF o.by = o.of THEN Original(o.of) ELSE o

(* Somebody who ends well leaves a receipt where there is none: a mover    *)
(* that planned on none, or a remover that took it and restores.           *)
Owes(x) ==
    IF x \in Removers
    THEN at[x] = "linkReceipt"
         \/ (job[x].recorded /\ at[x] \in {"restore", "rebuild", "fill", "restoreReceipt"})
    ELSE x \in moved /\ pc[x] \in {"publish", "receipt"} /\ seenReceipt[x] = Absent
Owed == \E x \in Parties : Owes(x)
(* The tree in place is a publication that has no receipt yet, and is      *)
(* withdrawn if it gets none, unless that fails.                           *)
Occupies(i) ==
    /\ i \notin moved /\ i \notin committed /\ i \in published
    /\ pc[i] \in {"receipt", "undoPublish", "done"} /\ target = Original(i)
    /\ pc[i] = "done" => Unwithdrawn(i)
Open == target = Absent \/ (\E i \in Installers : Occupies(i)) \/ Owed
(* A remover has written the receipt for c anew, and will find another tree. *)
Awaits(s, c) == at[s] = "validate" /\ job[s].paper.of = c /\ target # Copy(c, s)
Awaited(c) == \E s \in Removers : Awaits(s, c)

(* How trees come and go.                                                  *)
Publishes(i) == pc[i] = "publish" /\ pc'[i] = "receipt" /\ target = Absent /\ target' = Original(i)
Remakes(r) == at[r] = "rebuild" /\ at'[r] = "fill" /\ target = Absent /\ target' = Copy(Broken, r)
Fills(r) ==
    /\ at[r] = "fill" /\ at'[r] = "restoreReceipt"
    /\ target = Copy(Broken, r) /\ target' = Copy(job[r].held.of, r)

(* No step brings a tree in another way.                                   *)
LEMMA TreeMoves ==
    ASSUME Facing
    PROVE  \/ target' \in {target, Absent}
           \/ \E i \in Installers : Alongside(i) /\ Shifts(i) /\ Publishes(i)
           \/ \E r \in Removers : Aside(r) /\ Bears(r) /\ (Remakes(r) \/ Fills(r))
BY DEF Facing, Kinds, Surveys, Shifts, Signs, Sees, Bears, Files, Publishes, Remakes, Fills

(* Owing, spelt out before and after a step.                               *)
LEMMA OwesOf ==
    /\ \A r \in Removers :
          Owes(r) <=> \/ at[r] = "linkReceipt"
                      \/ job[r].recorded /\ at[r] \in {"restore", "rebuild", "fill", "restoreReceipt"}
    /\ \A i \in Installers :
          Owes(i) <=> i \in moved /\ pc[i] \in {"publish", "receipt"} /\ seenReceipt[i] = Absent
    /\ \A r \in Removers :
          Owes(r)' <=> \/ at'[r] = "linkReceipt"
                       \/ job'[r].recorded /\ at'[r] \in {"restore", "rebuild", "fill", "restoreReceipt"}
    /\ \A i \in Installers :
          Owes(i)' <=> i \in moved' /\ pc'[i] \in {"publish", "receipt"} /\ seenReceipt'[i] = Absent
BY RemoversAssumption DEF Owes

(* Hope, before and after a step: what one needs is the receipt, and nobody *)
(* else needs it.                                                          *)
LEMMA HopeOf ==
    /\ ~Hopeless => /\ \A x \in Parties : Needs(x) # Absent => Vouched(Needs(x))
                    /\ \A x, y \in Parties : Needs(x) # Absent /\ Needs(x) = Needs(y) => x = y
    /\ ~Hopeless' => /\ \A x \in Parties : Needs(x)' # Absent => \A o : o = Needs(x)' => Vouched(o)'
                     /\ \A x, y \in Parties : Needs(x)' # Absent /\ Needs(x)' = Needs(y)' => x = y
<1>1. ~Hopeless => /\ \A x \in Parties : Needs(x) # Absent => Vouched(Needs(x))
                   /\ \A x, y \in Parties : Needs(x) # Absent /\ Needs(x) = Needs(y) => x = y
    BY DEF Hopeless, Lacks, Rivals
<1>2. ~Hopeless' => /\ \A x \in Parties : Needs(x)' # Absent => \A o : o = Needs(x)' => Vouched(o)'
                    /\ \A x, y \in Parties : Needs(x)' # Absent /\ Needs(x)' = Needs(y)' => x = y
    BY DEF Hopeless, Lacks, Rivals, Vouched
<1>. QED
    BY <1>1, <1>2

(* No tree comes to the place that a receipt was written for.              *)
LEMMA NoReturn ==
    ASSUME Facing, NEW o, Sealed(o), o.of # Nothing, target # Home(o)
    PROVE  target' # Home(o)
<1>1. Home(o).of = o.of /\ (Home(o).by = NoOne \/ (Home(o) = o /\ o.by # o.of))
    BY Apart DEF Home
<1>2. CASE target' \in {target, Absent}
    BY <1>1, <1>2, Apart
<1>3. ASSUME NEW i \in Installers, Publishes(i) PROVE target' # Home(o)
    <2>1. i \notin committed
        BY <1>3 DEF Facing, Sound, Papers, Early, Publishes
    <2>. QED
        BY <1>1, <1>3, <2>1, Apart DEF Sealed, Publishes
<1>4. ASSUME NEW r \in Removers, Remakes(r) \/ Fills(r) PROVE target' # Home(o)
    <2>1. CASE Remakes(r)
        BY <1>1, <2>1, Apart DEF Sealed, Remakes
    <2>2. CASE Fills(r)
        <3>1. target'.by = r /\ at[r] = "fill"
            BY <2>2, Apart DEF Fills
        <3>. QED
            BY <1>1, <3>1, Apart DEF Sealed
    <2>. QED
        BY <1>4, <2>1, <2>2
<1>. QED
    BY <1>2, <1>3, <1>4, TreeMoves

(* The receipt that someone needs is needed as long as it is in place.     *)
LEMMA NeededStays ==
    ASSUME Facing, NEW o, o # Absent, Vouched(o)', Needed(o)
    PROVE  Needed(o)'
<1>1. PICK x \in Parties : Needs(x) = o
    BY DEF Needed
<1>2. PICK y \in Parties : NeedsKept(y)
    BY NeedsStay
<1>3. Needs(x)' = o
    BY <1>1, <1>2 DEF NeedsKept
<1>. QED
    BY <1>3 DEF Needed

(* What the receipt vouches for is in no other hand.                       *)
LEMMA VouchedHands ==
    ASSUME Sound, NEW o, Vouched(o), NEW x \in Parties, Hand(x) = o.of
    PROVE  x \in Removers /\ at[x] = "keepReceipt"
<1>1. o.of # Nothing /\ Unshared
    BY OneReceipt DEF Sound, Papers
<1>2. CASE receipt = o
    BY <1>1, <1>2 DEF Unshared
<1>3. ASSUME NEW r \in Removers, at[r] = "keepReceipt", job[r].paper = o
      PROVE  x \in Removers /\ at[x] = "keepReceipt"
    <2>1. Hand(r) = o.of /\ r \in Parties
        BY <1>3, HandOf DEF HoldsReceipt, Parties
    <2>2. r = x
        BY <1>1, <2>1 DEF Unshared
    <2>. QED
        BY <1>3, <2>2
<1>. QED
    BY <1>2, <1>3 DEF Vouched

(* A remover that restores holds the receipt in its hand or needs it.      *)
LEMMA RestorerHolds ==
    ASSUME Sound, ~Hopeless, NEW r \in Removers,
           at[r] \in {"restore", "rebuild", "fill", "restoreReceipt"}
    PROVE  \/ job[r].recorded /\ Owes(r) /\ Hand(r) = job[r].paper.of
           \/ /\ ~job[r].recorded /\ Needs(r) = job[r].paper /\ job[r].paper # Absent
              /\ Vouched(job[r].paper)
<1>1. job[r].recorded \in BOOLEAN /\ job[r].paper # Absent
    BY DEF Sound, RInv, RemovalTypeOK, Jobs, Papers, Course
<1>2. CASE job[r].recorded
    BY <1>2, OwesOf, HandOf DEF HoldsReceipt, Vouching
<1>3. CASE ~job[r].recorded
    BY <1>1, <1>3, NeedsOf, HopeOf DEF Pledged, Parties
<1>. QED
    BY <1>1, <1>2, <1>3

(* A receipt that is owed is owed until there is one.                      *)
LEMMA OwedStays ==
    ASSUME Facing, Owed, ~Vacant \/ Vacant'
    PROVE  Owed'
<1>1. PICK x \in Parties : Owes(x)
    BY DEF Owed
<1>. SUFFICES Owes(x)'
    BY DEF Owed
<1>2. ASSUME NEW i \in Installers, Alongside(i), Surveys(i) \/ Shifts(i) \/ Signs(i)
      PROVE  Owes(x)'
    <2>1. CASE x \in Removers
        BY <1>1, <1>2, <2>1, OwesOf DEF Alongside
    <2>2. CASE x \in Installers \ {i}
        BY <1>1, <1>2, <2>2, OwesOf DEF Alongside, Surveys, Shifts, Signs
    <2>3. CASE x = i
        <3>1. i \in moved /\ pc[i] \in {"publish", "receipt"} /\ seenReceipt[i] = Absent
            BY <1>1, <2>3, OwesOf
        <3>2. ~WritesOver(i) /\ ~PutsBack(i)
            BY <3>1 DEF WritesOver, PutsBack
        <3>3. Surveys(i) \/ Shifts(i)
            BY <1>2, <3>2, InstallersPass
        <3>4. ~Surveys(i)
            BY <3>1 DEF Surveys, Treads
        <3>. QED
            BY <2>3, <3>1, <3>3, <3>4, OwesOf DEF Shifts
    <2>. QED
        BY <2>1, <2>2, <2>3 DEF Parties
<1>3. ASSUME NEW r \in Removers, Aside(r), Sees(r) \/ Bears(r) \/ Files(r)
      PROVE  Owes(x)'
    <2>1. CASE x \in Installers
        BY <1>1, <1>3, <2>1, OwesOf DEF Aside, Leaves
    <2>2. CASE x \in Removers \ {r}
        BY <1>1, <1>3, <2>2, OwesOf DEF Aside, Leaves
    <2>3. CASE x = r
        <3>1. \/ at[r] = "linkReceipt"
              \/ job[r].recorded /\ at[r] \in {"restore", "rebuild", "fill", "restoreReceipt"}
            BY <1>1, <2>3, OwesOf
        <3>2. ~Relinks(r)
            BY DEF Relinks
        <3>3. ~Sees(r)
            BY <3>1 DEF Sees, Strolls, Gives
        <3>4. CASE Bears(r)
            BY <2>3, <3>1, <3>4, OwesOf DEF Bears, Alike
        <3>5. CASE Files(r)
            <4>1. ~Empties(r)
                BY <3>1 DEF Empties
            <4>2. ~(at'[r] \in {"keepReceipt", "restore"} /\ Files(r))
                BY <3>1 DEF Files
            <4>3. at'[r] = "linkReceipt"
                BY <1>3, <3>2, <3>5, <4>1, <4>2, RemoversPass DEF Unlinks
            <4>. QED
                BY <2>3, <4>3, OwesOf
        <3>. QED
            BY <1>3, <3>3, <3>4, <3>5
    <2>. QED
        BY <2>1, <2>2, <2>3 DEF Parties
<1>. QED
    BY <1>2, <1>3 DEF Facing, Kinds

(* A remover that awaits c does so until it finds a tree of it.            *)
LEMMA AwaitsStays ==
    ASSUME Facing, NEW c, NEW s \in Removers, Awaits(s, c)
    PROVE  Awaits(s, c)' \/ (target.of = c /\ target' = target)
<1>1. at[s] = "validate" /\ job[s].paper.of = c /\ target # Copy(c, s)
    BY DEF Awaits
<1>2. target' # Copy(c, s)
    BY <1>1, TreeMoves, Apart DEF Publishes, Remakes, Fills
<1>3. \/ at'[s] = "validate" /\ job'[s].paper.of = c
      \/ target.of = c /\ target' = target
    <2>1. ASSUME NEW r \in Removers, Aside(r), Sees(r) \/ Bears(r) \/ Files(r)
          PROVE  \/ at'[s] = "validate" /\ job'[s].paper.of = c
                 \/ target.of = c /\ target' = target
        <3>1. CASE r = s
            BY <1>1, <2>1, <3>1 DEF Sees, Bears, Files, Strolls, Gives
        <3>2. CASE r # s
            BY <1>1, <2>1, <3>2 DEF Aside, Leaves
        <3>. QED
            BY <3>1, <3>2
    <2>. QED
        BY <1>1, <2>1 DEF Facing, Kinds, Alongside
<1>. QED
    BY <1>2, <1>3 DEF Awaits

(* Who has taken away what it needed and keeps needing it.                 *)
Bars(x) ==
    /\ Needs(x) # Absent /\ Needs(x)' = Needs(x)
    /\ x \in Removers => at[x] \in {"takeReceipt", "keepReceipt"}
    /\ x \in Installers => pc[x] \in {"undoAside", "undoReceipt"}

(* While there is no receipt, or somebody else than who would bring a tree *)
(* needs it, no tree comes to stay.                                        *)
LEMMA OpenStays ==
    ASSUME Facing, ~Hopeless, ~Hopeless', Open,
           (Vacant /\ Vacant') \/ \E x \in Parties : Bars(x)
    PROVE  Open'
<1>1. \A x \in Parties : Bars(x) => Vouched(Needs(x)) /\ \A o : o = Needs(x) => Vouched(o)'
    <2>1. ASSUME NEW x \in Parties, Bars(x), NEW o, o = Needs(x) PROVE Vouched(o)'
        BY <2>1, HopeOf DEF Bars
    <2>. QED
        BY <2>1, HopeOf DEF Bars
<1>2. ~Vacant \/ Vacant'
    BY <1>1, OneReceipt DEF Facing
<1>3. Owed => Open'
    BY <1>2, OwedStays DEF Open
<1>4. ASSUME NEW y \in Parties, Needs(y) # Absent,
             y \in Installers => pc[y] \in {"publish", "receipt"},
             y \in Removers => at[y] \in {"rebuild", "fill"}
      PROVE  FALSE
    <2>1. Vouched(Needs(y)) /\ ~Vacant
        BY <1>4, HopeOf, OneReceipt DEF Facing
    <2>2. PICK x \in Parties : Bars(x)
        BY <2>1
    <2>3. Needs(x) = Needs(y)
        BY <1>1, <2>1, <2>2, OneReceipt DEF Facing
    <2>4. x = y
        BY <1>4, <2>3, HopeOf
    <2>. QED
        BY <1>4, <2>2, <2>4 DEF Bars, Parties
<1>5. CASE target = Absent
    <2>1. ASSUME NEW i \in Installers, Shifts(i), Publishes(i)
          PROVE  Open'
        <3>1. CASE i \notin moved
            <4>1. i \notin committed
                BY <2>1 DEF Facing, Sound, Papers, Early, Publishes
            <4>2. Occupies(i)'
                BY <2>1, <3>1, <4>1 DEF Occupies, Publishes, Shifts, Original
            <4>. QED
                BY <4>2 DEF Open
        <3>2. CASE i \in moved
            <4>1. Needs(i) = seenReceipt[i]
                BY <2>1, <3>2, NeedsOf DEF Publishes
            <4>2. seenReceipt[i] = Absent
                BY <1>4, <2>1, <4>1, Apart DEF Parties, Publishes
            <4>3. Owes(i)
                BY <2>1, <3>2, <4>2, OwesOf DEF Publishes
            <4>. QED
                BY <1>3, <4>3 DEF Owed, Parties
        <3>. QED
            BY <3>1, <3>2
    <2>2. ASSUME NEW r \in Removers, Remakes(r) \/ Fills(r)
          PROVE  Open'
        <3>1. at[r] \in {"rebuild", "fill"}
            BY <2>2 DEF Remakes, Fills
        <3>2. Needs(r) = Absent
            BY <1>4, <3>1, Apart DEF Parties
        <3>3. Owes(r)
            BY <3>1, <3>2, RestorerHolds DEF Facing
        <3>. QED
            BY <1>3, <3>3 DEF Owed, Parties
    <2>3. CASE target' \in {target, Absent}
        BY <1>5, <2>3 DEF Open
    <2>. QED
        BY <2>1, <2>2, <2>3, TreeMoves
<1>6. ASSUME NEW i \in Installers, Occupies(i)
      PROVE  Open'
    <2>1. /\ i \notin moved /\ i \notin committed /\ i \in published
          /\ pc[i] \in {"receipt", "undoPublish", "done"} /\ target = Original(i)
          /\ pc[i] = "done" => Unwithdrawn(i)
        BY <1>6 DEF Occupies
    <2>2. target # Absent /\ \A c, r : r \in Removers => target # Copy(c, r)
        BY <2>1, Apart
    <2>3. target' \in {target, Absent}
        BY <2>2, TreeMoves DEF Publishes, Remakes, Fills
    <2>4. ~WritesOver(i)
        <3>1. ASSUME WritesOver(i) PROVE FALSE
            <4>1. PICK x \in Parties : Bars(x)
                BY <3>1 DEF WritesOver
            <4>2. Needs(x) = seenReceipt[i] /\ Needs(x) = OwnReceipt(i)
                BY <1>1, <3>1, <4>1 DEF WritesOver
            <4>3. seenReceipt[i].of # i
                BY DEF Facing, Sound, Sheets
            <4>4. seenReceipt[i] = OwnReceipt(i)
                BY <4>2
            <4>. QED
                BY <4>3, <4>4 DEF OwnReceipt
        <3>. QED
            BY <3>1
    <2>5. CASE target' = target
        <3>1. ASSUME Alongside(i), Surveys(i) \/ Shifts(i) \/ Signs(i)
              PROVE  Occupies(i)'
            <4>1. Surveys(i) \/ Shifts(i)
                BY <2>1, <2>4, <3>1, InstallersPass DEF PutsBack
            <4>2. ~Shifts(i)
                BY <2>1, <2>2, <2>5 DEF Shifts
            <4>3. Surveys(i)
                BY <4>1, <4>2
            <4>. QED
                BY <2>1, <2>2, <2>5, <4>3 DEF Occupies, Surveys, Treads, Original, Unwithdrawn
        <3>2. ASSUME NEW k \in Installers \ {i}, Alongside(k), Surveys(k) \/ Shifts(k) \/ Signs(k)
              PROVE  Occupies(i)'
            BY <2>1, <2>5, <3>2
               DEF Occupies, Alongside, Surveys, Shifts, Signs, Original, Unwithdrawn
        <3>3. ASSUME NEW r \in Removers, Aside(r) PROVE Occupies(i)'
            BY <2>1, <2>5, <3>3 DEF Occupies, Aside, Leaves, Original, Unwithdrawn
        <3>. QED
            BY <3>1, <3>2, <3>3 DEF Facing, Kinds, Open
    <2>. QED
        BY <2>3, <2>5 DEF Open
<1>. QED
    BY <1>3, <1>5, <1>6 DEF Open

-----------------------------------------------------------------------------
(* What is true where all is in order and there is hope.                   *)

(* What is captured is the receipt's.                                      *)
Matches(r) == job[r].held # Absent => job[r].held.of = job[r].paper.of
(* A remover that planned on no tree finds another one than the receipt's, *)
(* and if it has not noticed somebody needs the receipt.                   *)
Misses(r) ==
    job[r].tree = Absent /\ Vouched(job[r].paper) =>
        /\ at[r] \in {"begin", "capture"} => target # Home(job[r].paper)
        /\ at[r] = "capture" => Needed(job[r].paper)
(* A remover that has filled the tree finds its own, if any of the content. *)
Finds(r) ==
    at[r] \in {"restoreReceipt", "linkReceipt"} =>
        (target.of = job[r].paper.of => target = Copy(job[r].paper.of, r))
(* A remover that has moved the tree finds it gone, and nothing that stays. *)
Strips(r) ==
    at[r] \in {"takeReceipt", "keepReceipt"} => target # Home(job[r].paper) /\ Open
(* So does an installer, until it writes its receipt.                      *)
Vacates(i) ==
    pc[i] \in {"publish", "receipt"} /\ Vouched(seenReceipt[i]) => target # Home(seenReceipt[i])
(* An installer that has written its receipt checks with it in place.      *)
Attests(i) ==
    i \in committed /\ pc[i] \in {"check", "verify"} => Vouched(OwnReceipt(i))
(* One that withdraws its tree leaves nothing that stays.                  *)
Withdraws(i) ==
    i \in committed /\ i \notin moved /\ pc[i] \in {"undoAside", "undoReceipt"} => Open
(* The tree of the receipt it may put back is not there, and will not be   *)
(* taken for it.                                                           *)
Recalling == {"check", "verify", "undoPublish", "undoAside", "undoReceipt"}
Recalls(i) ==
    i \in committed /\ i \notin moved /\ pc[i] \in Recalling /\ seenReceipt[i] # Absent =>
        (Owed \/ Awaited(seenReceipt[i].of)) /\ target.of # seenReceipt[i].of
(* A tree of an installer's content is its publication, or its receipt is  *)
(* written.                                                                *)
Genuine == target.of \in Installers => target = Original(target.of) \/ target.of \in committed
(* A tree of the receipt's content is the one it was written for, and that *)
(* one is there, unless somebody depends on the receipt.                   *)
Placed(o) == target.of = o.of => target = Home(o) \/ Needed(o)
Accounted(o) == target = Home(o) \/ Needed(o) \/ Owed \/ Awaited(o.of)

Trust ==
    /\ \A r \in Removers : Matches(r) /\ Misses(r) /\ Finds(r) /\ Strips(r)
    /\ \A i \in Installers : Vacates(i) /\ Attests(i) /\ Withdraws(i) /\ Recalls(i)
    /\ Genuine
    /\ \A o : Vouched(o) => Placed(o) /\ Accounted(o)
    /\ Vacant => Open

(* What the steps below start from.                                        *)
Going == Facing /\ ~Hopeless /\ ~Hopeless' /\ Trust

(* Every receipt that was planned on was written by somebody else.         *)
LEMMA SealedPapers ==
    ASSUME Sound
    PROVE  /\ \A r \in Removers : Sealed(job[r].paper) /\ Whole(job[r].paper) /\ Named(job[r].paper.of)
           /\ \A i \in Installers : /\ Sealed(seenReceipt[i]) /\ Whole(seenReceipt[i])
                                     /\ Named(seenReceipt[i].of) /\ seenReceipt[i].of # i
BY DEF Sound, Sheets, Papers, Heard

(* A receipt that was read and is in place was in place before.            *)
LEMMA VouchedBefore ==
    ASSUME Facing, NEW o, Sealed(o), Vouched(o)'
    PROVE  Vouched(o) /\ o.of # Nothing
BY NoReceiptReturns, OneReceipt DEF Facing

(* What is captured is the receipt's.                                      *)
LEMMA MatchesStays ==
    ASSUME Going, NEW r \in Removers
    PROVE  Matches(r)'
<1>1. ASSUME NEW s \in Removers, Aside(s), Sees(s) \/ Bears(s) \/ Files(s)
      PROVE  Matches(r)'
    <2>1. CASE job'[r].paper = job[r].paper /\ job'[r].held = job[r].held
        BY <2>1 DEF Matches, Going, Trust
    <2>2. CASE s = r /\ at[r] = "idle" /\ job'[r].held = job[r].held
        BY <2>2 DEF Matches, Going, Facing, Sound, Papers, Course
    <2>3. CASE /\ s = r /\ at[r] = "capture" /\ at'[r] = "copy" /\ receipt = job[r].paper
               /\ TreeAsPlanned(r) /\ job'[r].held = target /\ job'[r].paper = job[r].paper
               /\ job'[r].recorded = job[r].recorded
        <3>1. job[r].paper # Absent /\ ~job[r].recorded
            BY <2>3 DEF Going, Facing, Sound, Papers, Course, Unboxed
        <3>2. CASE job[r].tree # Absent
            BY <2>3, <3>2 DEF Matches, TreeAsPlanned, Going, Facing, Sound, Held, Hold
        <3>3. CASE job[r].tree = Absent
            <4>1. Needed(job[r].paper)
                BY <2>3, <3>1, <3>3 DEF Going, Trust, Misses, Vouched
            <4>2. PICK x \in Parties : Needs(x) = job[r].paper
                BY <4>1 DEF Needed
            <4>3. Needs(r) = Absent /\ Needs(r)' = job[r].paper
                BY <2>3, <3>1, NeedsOf DEF Pledged
            <4>4. x # r /\ Needs(x)' = job[r].paper
                BY <1>1, <2>3, <3>1, <4>2, <4>3, RemoversNeed DEF Going
            <4>5. ~Hopeless' /\ r \in Parties
                BY DEF Going, Parties
            <4>. QED
                BY <3>1, <4>2, <4>3, <4>4, <4>5, HopeOf
        <3>. QED
            BY <3>2, <3>3
    <2>4. CASE s # r
        BY <1>1, <2>1, <2>4 DEF Aside, Leaves
    <2>. QED
        BY <1>1, <2>1, <2>2, <2>3, <2>4 DEF Sees, Bears, Files, Alike
<1>2. ASSUME UNCHANGED job PROVE Matches(r)'
    BY <1>2 DEF Matches, Going, Trust
<1>. QED
    BY <1>1, <1>2 DEF Going, Facing, Kinds, Alongside

(* A remover that planned on no tree.                                      *)
LEMMA MissesStays ==
    ASSUME Going, NEW r \in Removers
    PROVE  Misses(r)'
<1>0. Facing /\ Trust /\ Sound
    BY DEF Going, Facing
<1>1. CASE /\ job'[r].tree = job[r].tree /\ job'[r].paper = job[r].paper
           /\ at'[r] \in {"begin", "capture"} => at'[r] = at[r]
    <2>1. ASSUME job[r].tree = Absent, Vouched(job[r].paper)', at[r] \in {"begin", "capture"}
          PROVE  target' # Home(job[r].paper) /\ (at[r] = "capture" => Needed(job[r].paper)')
        <3>1. Sealed(job[r].paper)
            BY <1>0, SealedPapers
        <3>2. \A o : o = job[r].paper => Vouched(o)'
            BY <1>1, <2>1 DEF Vouched
        <3>3. Vouched(job[r].paper) /\ job[r].paper.of # Nothing
            BY <1>0, <3>1, <3>2, VouchedBefore
        <3>4. target # Home(job[r].paper) /\ (at[r] = "capture" => Needed(job[r].paper))
            BY <1>0, <2>1, <3>3 DEF Trust, Misses
        <3>5. \A o : o = job[r].paper => target' # Home(o)
            BY <1>0, <3>1, <3>3, <3>4, NoReturn
        <3>6. \A o : o = job[r].paper => (at[r] = "capture" => Needed(o)')
            BY <1>0, <3>2, <3>3, <3>4, NeededStays, Apart
        <3>. QED
            BY <1>1, <3>5, <3>6 DEF Needed
    <2>. QED
        BY <1>1, <2>1 DEF Misses, Home, Original, Vouched, Needed
<1>2. ASSUME Aside(r), Sees(r), at[r] = "plan", at'[r] = "begin"
      PROVE  Misses(r)'
    <2>1. job'[r].tree = target /\ target' = target /\ job'[r].paper = job[r].paper
        BY <1>2 DEF Sees, Strolls, Gives
    <2>2. ASSUME target = Absent, Vouched(job[r].paper)' PROVE target' # Home(job[r].paper)
        <3>1. \A o : o = job[r].paper => Vouched(o)'
            BY <2>1, <2>2 DEF Vouched
        <3>2. job[r].paper.of # Nothing
            BY <1>0, <3>1, SealedPapers, VouchedBefore
        <3>. QED
            BY <2>1, <2>2, <3>2, Apart DEF Home
    <2>. QED
        BY <1>2, <2>1, <2>2 DEF Misses, Home, Original, Vouched
<1>3. ASSUME Aside(r), Sees(r), at[r] = "begin", at'[r] = "capture"
      PROVE  Misses(r)'
    <2>1. /\ target' = target /\ Alike(r) /\ receipt = job[r].paper /\ job[r].paper # Absent
          /\ target.of = job[r].paper.of
        BY <1>3 DEF Sees, Strolls, Gives
    <2>2. ASSUME job[r].tree = Absent
          PROVE  target # Home(job[r].paper) /\ Needed(job[r].paper)'
        <3>1. Vouched(job[r].paper) /\ Vouched(job[r].paper)'
            BY <1>3, <2>1 DEF Vouched, Sees, Alike
        <3>2. target # Home(job[r].paper)
            BY <1>0, <1>3, <2>2, <3>1 DEF Trust, Misses
        <3>3. Needed(job[r].paper)
            BY <1>0, <2>1, <3>1, <3>2 DEF Trust, Placed
        <3>4. \A o : o = job[r].paper => Vouched(o)'
            BY <1>3, <2>1 DEF Vouched, Sees
        <3>5. \A o : o = job[r].paper => Needed(o)'
            BY <1>0, <2>1, <3>3, <3>4, NeededStays
        <3>. QED
            BY <2>1, <3>2, <3>5 DEF Needed, Alike
    <2>. QED
        BY <2>1, <2>2 DEF Misses, Alike, Home, Original
<1>4. ASSUME NEW s \in Removers, Aside(s), Sees(s) \/ Bears(s) \/ Files(s)
      PROVE  \/ /\ job'[r].tree = job[r].tree /\ job'[r].paper = job[r].paper
                /\ at'[r] \in {"begin", "capture"} => at'[r] = at[r]
             \/ at'[r] \notin {"begin", "capture"}
             \/ s = r /\ Sees(r) /\ <<at[r], at'[r]>> \in {<<"plan", "begin">>, <<"begin", "capture">>}
    BY <1>4 DEF Aside, Leaves, Sees, Bears, Files, Alike, Strolls, Gives
<1>5. CASE at'[r] \notin {"begin", "capture"}
    BY <1>5 DEF Misses
<1>6. ASSUME NEW i \in Installers, Alongside(i) PROVE Misses(r)'
    BY <1>1, <1>6 DEF Alongside
<1>. QED
    BY <1>0, <1>1, <1>2, <1>3, <1>4, <1>5, <1>6 DEF Facing, Kinds

(* The trees of a content that comes to the place are written for.         *)
LEMMA GenuineStays == Going => Genuine'
<1>. SUFFICES ASSUME Going PROVE Genuine'
    OBVIOUS
<1>0. Facing /\ Trust /\ Sound
    BY DEF Going, Facing
<1>1. committed \subseteq committed'
    BY <1>0 DEF Facing, Kinds, Surveys, Shifts, Signs, Aside, Leaves
<1>2. ASSUME NEW r \in Removers, Fills(r) PROVE Genuine'
    <2>1. job[r].held.of = job[r].paper.of
        BY <1>0, <1>2 DEF Trust, Matches, Fills, Sound, Trails, Trace, Unboxed
    <2>2. Sealed(job[r].paper)
        BY <1>0, SealedPapers
    <2>. QED
        BY <1>1, <1>2, <2>1, <2>2, Apart DEF Genuine, Fills, Sealed
<1>3. CASE target' \in {target, Absent}
    BY <1>0, <1>1, <1>3, Apart DEF Genuine, Trust, Original
<1>4. ASSUME NEW i \in Installers, Publishes(i) PROVE Genuine'
    BY <1>4, Apart DEF Genuine, Publishes, Original
<1>5. ASSUME NEW r \in Removers, Remakes(r) PROVE Genuine'
    BY <1>5, Apart DEF Genuine, Remakes
<1>. QED
    BY <1>0, <1>2, <1>3, <1>4, <1>5, TreeMoves

(* A remover fills a tree of its receipt's content, and nobody else has it.*)
LEMMA FillsAlone ==
    ASSUME Going, NEW r \in Removers, Fills(r)
    PROVE  /\ target'.of = job[r].paper.of /\ target'.by = r
           /\ \A x \in Parties \ {r} : Hand(x) # job[r].paper.of
           /\ \A o : Vouched(o) /\ o.of = job[r].paper.of => Needs(r) = o
<1>0. Trust /\ Sound /\ ~Hopeless /\ at[r] = "fill" /\ r \in Parties
    BY DEF Going, Facing, Fills, Parties
<1>1. job[r].held.of = job[r].paper.of /\ job[r].paper # Absent
    BY <1>0 DEF Trust, Matches, Sound, Trails, Trace, Unboxed, Papers, Course
<1>2. target'.of = job[r].paper.of /\ target'.by = r
    BY <1>1, Apart DEF Fills
<1>3. job[r].paper.of # Nothing
    BY <1>0, <1>1, SealedPapers DEF Whole
<1>4. CASE Hand(r) = job[r].paper.of
    <2>1. \A x \in Parties \ {r} : Hand(x) # job[r].paper.of
        BY <1>0, <1>3, <1>4 DEF Sound, Papers, Unshared
    <2>2. \A o : Vouched(o) => o.of # job[r].paper.of
        BY <1>0, <1>4, VouchedHands
    <2>. QED
        BY <1>2, <2>1, <2>2
<1>5. CASE Needs(r) = job[r].paper /\ Vouched(job[r].paper)
    <2>1. ASSUME NEW x \in Parties, Hand(x) = job[r].paper.of PROVE FALSE
        <3>1. x \in Removers /\ at[x] = "keepReceipt"
            BY <1>0, <1>5, <2>1, VouchedHands
        <3>2. Vouched(job[x].paper)
            BY <1>0, <3>1, OneReceipt
        <3>3. job[x].paper = job[r].paper
            BY <1>0, <1>5, <3>2, OneReceipt
        <3>4. Needs(x) = job[x].paper /\ job[x].paper # Absent
            BY <1>0, <3>1, NeedsOf DEF Pledged, Sound, Papers, Course
        <3>5. x = r
            BY <1>0, <1>5, <2>1, <3>3, <3>4, HopeOf
        <3>. QED
            BY <1>0, <3>1, <3>5
    <2>2. \A o : Vouched(o) /\ o.of = job[r].paper.of => Needs(r) = o
        BY <1>0, <1>5, OneReceipt
    <2>. QED
        BY <1>2, <2>1, <2>2
<1>. QED
    BY <1>0, <1>4, <1>5, RestorerHolds

(* A remover that has filled the tree.                                     *)
LEMMA FindsStays ==
    ASSUME Going, NEW s \in Removers
    PROVE  Finds(s)'
<1>0. Facing /\ Trust /\ Sound /\ ~Hopeless /\ s \in Parties
    BY DEF Going, Facing, Parties
<1>1. Sealed(job[s].paper) /\ Whole(job[s].paper) /\ Named(job[s].paper.of)
    BY <1>0, SealedPapers
<1>2. ASSUME at[s] \in {"restoreReceipt", "linkReceipt"}, target'.of = job[s].paper.of
      PROVE  target' = Copy(job[s].paper.of, s)
    <2>1. job[s].paper # Absent
        BY <1>0, <1>2 DEF Sound, Papers, Course
    <2>2. CASE target' = target
        BY <1>0, <1>2, <2>2 DEF Trust, Finds
    <2>3. CASE target' = Absent
        BY <1>1, <1>2, <2>1, <2>3, Apart DEF Whole
    <2>4. ASSUME NEW i \in Installers, Publishes(i) PROVE FALSE
        BY <1>1, <1>2, <2>4, Apart DEF Publishes, Named, Early
    <2>5. ASSUME NEW r \in Removers, Remakes(r) PROVE FALSE
        BY <1>1, <1>2, <2>5, Apart DEF Remakes, Sealed
    <2>6. ASSUME NEW r \in Removers, Fills(r) PROVE FALSE
        <3>1. r # s /\ r \in Parties
            BY <1>2, <2>6 DEF Fills, Parties
        <3>2. job[s].paper.of = job[r].paper.of /\ Hand(s) # job[s].paper.of
            BY <1>0, <1>2, <2>6, <3>1, FillsAlone
        <3>3. at[s] = "restoreReceipt"
            BY <1>2, <3>2, HandOf DEF HoldsReceipt
        <3>4. Needs(s) = job[s].paper /\ Vouched(job[s].paper)
            BY <1>0, <3>2, <3>3, RestorerHolds
        <3>5. Needs(r) = job[s].paper
            BY <2>6, <3>2, <3>4, FillsAlone
        <3>. QED
            BY <1>0, <2>1, <3>1, <3>4, <3>5, HopeOf
    <2>. QED
        BY <1>0, <2>2, <2>3, <2>4, <2>5, <2>6, TreeMoves
<1>3. CASE /\ job'[s].paper = job[s].paper
           /\ at'[s] \in {"restoreReceipt", "linkReceipt"} =>
                 at[s] \in {"restoreReceipt", "linkReceipt"}
    BY <1>2, <1>3 DEF Finds, Copy
<1>4. CASE Bears(s) /\ Fills(s)
    <2>1. job'[s].paper = job[s].paper /\ target' = Copy(job[s].held.of, s)
        BY <1>4 DEF Bears, Alike, Fills
    <2>2. job[s].held.of = job[s].paper.of
        BY <1>4, <2>1, FillsAlone, Apart
    <2>. QED
        BY <2>1, <2>2 DEF Finds, Copy
<1>5. ASSUME NEW r \in Removers, Aside(r), Sees(r) \/ Bears(r) \/ Files(r)
      PROVE  \/ /\ job'[s].paper = job[s].paper
                /\ at'[s] \in {"restoreReceipt", "linkReceipt"} =>
                      at[s] \in {"restoreReceipt", "linkReceipt"}
             \/ at'[s] \notin {"restoreReceipt", "linkReceipt"}
             \/ Bears(s) /\ Fills(s)
    BY <1>5 DEF Aside, Leaves, Sees, Bears, Files, Alike, Strolls, Gives, Fills
<1>6. CASE at'[s] \notin {"restoreReceipt", "linkReceipt"}
    BY <1>6 DEF Finds
<1>7. ASSUME NEW i \in Installers, Alongside(i) PROVE Finds(s)'
    BY <1>3, <1>7 DEF Alongside
<1>. QED
    BY <1>0, <1>3, <1>4, <1>5, <1>6, <1>7 DEF Facing, Kinds

(* A remover that has moved the tree.                                      *)
LEMMA StripsStays ==
    ASSUME Going, NEW r \in Removers
    PROVE  Strips(r)'
<1>0. Facing /\ Trust /\ Sound /\ ~Hopeless /\ ~Hopeless' /\ r \in Parties
    BY DEF Going, Facing, Parties
<1>1. CASE /\ job'[r].paper = job[r].paper /\ job'[r].recorded = job[r].recorded
           /\ {at[r], at'[r]} \subseteq {"takeReceipt", "keepReceipt"}
    <2>1. job[r].paper # Absent /\ ~job[r].recorded
        BY <1>0, <1>1 DEF Sound, Papers, Course
    <2>2. Sealed(job[r].paper) /\ job[r].paper.of # Nothing
        BY <1>0, <2>1, SealedPapers DEF Whole
    <2>3. target # Home(job[r].paper) /\ Open
        BY <1>0, <1>1 DEF Trust, Strips
    <2>4. \A o : o = job[r].paper => target' # Home(o)
        BY <1>0, <2>2, <2>3, NoReturn
    <2>5. Bars(r)
        BY <1>0, <1>1, <2>1, NeedsOf, Apart DEF Bars, Pledged
    <2>6. Open'
        BY <1>0, <2>3, <2>5, OpenStays
    <2>. QED
        BY <1>1, <2>4, <2>6 DEF Strips, Home, Original
<1>2. CASE at[r] = "takeTree" /\ target' = Absent /\ job'[r].paper = job[r].paper
    <2>1. job[r].paper.of # Nothing
        BY <1>0, <1>2, SealedPapers DEF Sound, Papers, Course, Whole
    <2>. QED
        BY <1>2, <2>1, Apart DEF Strips, Open, Home
<1>3. ASSUME NEW s \in Removers, Aside(s), Sees(s) \/ Bears(s) \/ Files(s)
      PROVE  \/ /\ job'[r].paper = job[r].paper /\ job'[r].recorded = job[r].recorded
                /\ {at[r], at'[r]} \subseteq {"takeReceipt", "keepReceipt"}
             \/ at'[r] \notin {"takeReceipt", "keepReceipt"}
             \/ at[r] = "takeTree" /\ target' = Absent /\ job'[r].paper = job[r].paper
    <2>1. job[r].recorded \in BOOLEAN
        BY <1>0 DEF Sound, RInv, RemovalTypeOK, Jobs
    <2>. QED
        BY <1>3, <2>1 DEF Aside, Leaves, Sees, Bears, Files, Alike, Strolls, Gives
<1>4. CASE at'[r] \notin {"takeReceipt", "keepReceipt"}
    BY <1>4 DEF Strips
<1>5. ASSUME NEW i \in Installers, Alongside(i) PROVE Strips(r)'
    BY <1>1, <1>4, <1>5 DEF Alongside
<1>. QED
    BY <1>0, <1>1, <1>2, <1>3, <1>4, <1>5 DEF Facing, Kinds

(* An installer that has moved the tree or found none.                     *)
LEMMA VacatesStays ==
    ASSUME Going, NEW i \in Installers
    PROVE  Vacates(i)'
<1>0. Facing /\ Trust /\ Sound
    BY DEF Going, Facing
<1>1. SUFFICES ASSUME pc'[i] \in {"publish", "receipt"}, Vouched(seenReceipt[i])'
               PROVE  target' # Home(seenReceipt'[i])
    BY DEF Vacates, Home, Original
<1>2. /\ seenReceipt'[i] = seenReceipt[i]
      /\ \/ pc[i] \in {"publish", "receipt"}
         \/ target' = Absent
    BY <1>0, <1>1 DEF Facing, Kinds, Alongside, Aside, Leaves, Surveys, Shifts, Signs, Treads
<1>3. \A o : o = seenReceipt[i] => Vouched(o)'
    BY <1>1, <1>2 DEF Vouched
<1>4. /\ Sealed(seenReceipt[i]) /\ Vouched(seenReceipt[i]) /\ seenReceipt[i].of # Nothing
    BY <1>0, <1>3, SealedPapers, VouchedBefore
<1>5. CASE target' = Absent
    BY <1>2, <1>4, <1>5, Apart DEF Home
<1>6. CASE pc[i] \in {"publish", "receipt"}
    <2>1. target # Home(seenReceipt[i])
        BY <1>0, <1>4, <1>6 DEF Trust, Vacates
    <2>. QED
        BY <1>0, <1>2, <1>4, <2>1, NoReturn
<1>. QED
    BY <1>2, <1>5, <1>6

(* An installer that checks what it has written.                           *)
LEMMA AttestsStays ==
    ASSUME Going, NEW i \in Installers
    PROVE  Attests(i)'
<1>0. Facing /\ Trust /\ Sound /\ ~Hopeless' /\ i \in Parties
    BY DEF Going, Facing, Parties
<1>1. SUFFICES ASSUME i \in committed', pc'[i] \in {"check", "verify"},
                      ~Vouched(OwnReceipt(i))'
               PROVE  FALSE
    BY DEF Attests
<1>. DEFINE own == OwnReceipt(i)
<1>2. Home(own) = Original(i) /\ own.of = i
    BY DEF Home, OwnReceipt
<1>3. \A o : o = own => ~Vouched(o)'
    BY <1>1 DEF Vouched, OwnReceipt
<1>4. ~WritesOver(i)
    BY <1>3 DEF WritesOver
<1>5. i \in committed /\ pc[i] \in {"check", "verify"}
    <2>1. ASSUME Alongside(i), Surveys(i) \/ Shifts(i) \/ Signs(i)
          PROVE  i \in committed /\ pc[i] \in {"check", "verify"}
        <3>1. Surveys(i)
            BY <1>1, <1>4, <2>1, <1>0, InstallersPass DEF PutsBack, Shifts
        <3>. QED
            BY <1>1, <3>1 DEF Surveys, Treads
    <2>2. ASSUME NEW k \in Installers \ {i}, Alongside(k), Surveys(k) \/ Shifts(k) \/ Signs(k)
          PROVE  i \in committed /\ pc[i] \in {"check", "verify"}
        BY <1>1, <2>2 DEF Alongside, Surveys, Shifts, Signs
    <2>3. ASSUME NEW r \in Removers, Aside(r) PROVE i \in committed /\ pc[i] \in {"check", "verify"}
        BY <1>1, <2>3 DEF Aside, Leaves
    <2>. QED
        BY <1>0, <2>1, <2>2, <2>3 DEF Facing, Kinds
<1>6. Vouched(own)
    BY <1>0, <1>5 DEF Trust, Attests
<1>7. target = Original(i) /\ target' = Original(i)
    <2>1. target' = Original(i)
        <3>1. CASE target' # Original(i)
            <4>1. Needs(i)' = own /\ own # Absent
                BY <1>1, <1>5, <3>1, NeedsOf, Apart DEF OwnReceipt, Facing, Sound, Papers, Early
            <4>. QED
                BY <1>0, <1>3, <4>1, HopeOf
        <3>. QED
            BY <3>1
    <2>2. target' # Original(i) \/ target = Original(i)
        <3>1. Sealed(own) /\ own.of # Nothing
            BY <1>0, <1>6, OneReceipt
        <3>. QED
            BY <1>0, <1>2, <3>1, NoReturn
    <2>. QED
        BY <2>1, <2>2
<1>8. ASSUME NEW j \in Installers, Signs(j), WritesOver(j) PROVE FALSE
    <2>1. seenReceipt[j] = own /\ Vouched(seenReceipt[j]) /\ pc[j] = "receipt"
        BY <1>6, <1>8 DEF WritesOver
    <2>2. target # Home(own)
        BY <1>0, <2>1 DEF Trust, Vacates
    <2>. QED
        BY <1>2, <1>7, <2>2
<1>9. ASSUME NEW j \in Installers, PutsBack(j) PROVE FALSE
    <2>1. own = OwnReceipt(j) /\ pc[j] = "undoReceipt"
        BY <1>6, <1>9 DEF PutsBack
    <2>. QED
        BY <1>5, <2>1 DEF OwnReceipt
<1>10. ASSUME NEW r \in Removers, Empties(r) \/ Unlinks(r) \/ Relinks(r) PROVE FALSE
    <2>1. ~Relinks(r) /\ job[r].paper = own
        BY <1>6, <1>10 DEF Empties, Unlinks, Relinks
    <2>2. CASE Empties(r)
        BY <1>0, <1>2, <1>7, <2>1, <2>2 DEF Trust, Strips, Empties
    <2>3. CASE Unlinks(r)
        <3>1. target = Copy(i, r)
            BY <1>0, <1>2, <1>7, <2>1, <2>3, Apart DEF Trust, Finds, Unlinks
        <3>2. Copy(i, r).by = r /\ Original(i).by = NoOne /\ r # NoOne
            BY Apart
        <3>. QED
            BY <1>7, <3>1, <3>2
    <2>. QED
        BY <1>10, <2>1, <2>2, <2>3
<1>. QED
    BY <1>0, <1>3, <1>6, <1>8, <1>9, <1>10, Passing DEF Passed, SameReceipt

(* An installer that may put back the receipt before its own.              *)
LEMMA RecallsStays ==
    ASSUME Going, NEW i \in Installers
    PROVE  Recalls(i)'
<1>0. Facing /\ Trust /\ Sound /\ ~Hopeless /\ ~Hopeless' /\ i \in Parties
    BY DEF Going, Facing, Parties
<1>1. SUFFICES ASSUME i \in committed', i \notin moved', pc'[i] \in Recalling, seenReceipt'[i] # Absent
               PROVE  (Owed' \/ Awaited(seenReceipt[i].of)') /\ target'.of # seenReceipt'[i].of
    BY DEF Recalls, Awaited, Awaits, Copy
<1>. DEFINE c == seenReceipt[i].of
<1>2. /\ seenReceipt'[i] = seenReceipt[i] /\ i \notin moved
      /\ \/ i \in committed /\ pc[i] \in Recalling
         \/ Alongside(i) /\ Signs(i) /\ pc[i] = "receipt"
    <2>1. i \in committed => pc[i] \notin Early
        BY <1>0 DEF Sound, Papers
    <2>. QED
        BY <1>0, <1>1, <2>1 DEF Facing, Kinds, Alongside, Aside, Leaves, Surveys, Shifts, Signs, Treads,
                                Recalling, Early
<1>3. /\ c # Nothing /\ c # i /\ Named(c) /\ Sealed(seenReceipt[i])
    BY <1>0, <1>1, <1>2, SealedPapers DEF Whole
<1>4. ASSUME Owed \/ Awaited(c), ~Vacant, target.of # c
      PROVE  Owed' \/ Awaited(c)'
    <2>1. CASE Owed
        BY <1>0, <1>4, <2>1, OwedStays
    <2>2. CASE Awaited(c)
        <3>1. PICK d : d = c
            OBVIOUS
        <3>2. PICK s \in Removers : Awaits(s, d)
            BY <2>2, <3>1 DEF Awaited
        <3>3. Awaits(s, d)'
            BY <1>0, <1>4, <3>1, <3>2, AwaitsStays
        <3>. QED
            BY <1>2, <3>1, <3>3 DEF Awaited, Awaits, Copy
    <2>. QED
        BY <1>4, <2>1, <2>2
<1>5. CASE i \in committed /\ pc[i] \in Recalling
    <2>1. (Owed \/ Awaited(c)) /\ target.of # c
        BY <1>0, <1>1, <1>2, <1>5 DEF Trust, Recalls
    <2>2. ~Vacant
        <3>1. CASE pc[i] \in {"check", "verify"}
            BY <1>0, <1>5, <3>1, OneReceipt DEF Trust, Attests
        <3>2. CASE pc[i] \notin {"check", "verify"}
            <4>1. Needs(i) = OwnReceipt(i) /\ OwnReceipt(i) # Absent
                BY <1>2, <1>5, <3>2, NeedsOf, Apart DEF Withdrawing, Recalling, OwnReceipt
            <4>. QED
                BY <1>0, <4>1, HopeOf, OneReceipt
        <3>. QED
            BY <3>1, <3>2
    <2>3. Hand(i) = c
        BY <1>5, HandOf DEF Returns, Returning, Recalling
    <2>4. target'.of # c
        <3>1. CASE target' \in {target, Absent}
            BY <1>3, <2>1, <3>1, Apart
        <3>2. ASSUME NEW k \in Installers, Publishes(k) PROVE target'.of # c
            BY <1>3, <3>2, Apart DEF Publishes, Named, Early
        <3>3. ASSUME NEW r \in Removers, Remakes(r) PROVE target'.of # c
            BY <1>3, <3>3, Apart DEF Remakes, Sealed
        <3>4. ASSUME NEW r \in Removers, Fills(r) PROVE target'.of # c
            <4>1. i # r
                BY Apart
            <4>. QED
                BY <1>0, <2>3, <3>4, <4>1, FillsAlone
        <3>. QED
            BY <1>0, <3>1, <3>2, <3>3, <3>4, TreeMoves
    <2>. QED
        BY <1>2, <1>4, <2>1, <2>2, <2>4
<1>6. CASE Alongside(i) /\ Signs(i) /\ pc[i] = "receipt" /\ i \notin committed
    <2>1. WritesOver(i) /\ target' = target
        BY <1>0, <1>6, InstallersPass DEF PutsBack, Signs
    <2>2. Vouched(seenReceipt[i]) /\ ~Vacant
        BY <1>1, <1>2, <2>1 DEF WritesOver
    <2>3. target # Home(seenReceipt[i])
        BY <1>0, <1>6, <2>2 DEF Trust, Vacates
    <2>4. ~Needed(seenReceipt[i])
        <3>1. ASSUME NEW x \in Parties, Needs(x) = seenReceipt[i] PROVE FALSE
            <4>1. Needs(i) = Absent
                BY <1>2, <1>6, NeedsOf
            <4>2. x # i
                BY <1>1, <1>2, <3>1, <4>1
            <4>3. Needs(x)' = seenReceipt[i]
                BY <1>0, <1>1, <1>2, <1>6, <3>1, <4>2, InstallersNeed
            <4>4. seenReceipt[i] = OwnReceipt(i)
                BY <1>0, <1>1, <1>2, <2>1, <4>3, HopeOf DEF WritesOver
            <4>. QED
                BY <1>3, <4>4 DEF OwnReceipt
        <3>. QED
            BY <3>1 DEF Needed
    <2>5. (Owed \/ Awaited(c)) /\ target.of # c
        BY <1>0, <2>2, <2>3, <2>4 DEF Trust, Placed, Accounted
    <2>. QED
        BY <1>2, <1>4, <2>1, <2>2, <2>5
<1>. QED
    BY <1>0, <1>2, <1>5, <1>6 DEF Sound, Papers, Early

(* An installer that has withdrawn its tree.                               *)
LEMMA WithdrawsStays ==
    ASSUME Going, NEW i \in Installers
    PROVE  Withdraws(i)'
<1>0. Facing /\ Trust /\ Sound /\ ~Hopeless /\ ~Hopeless' /\ i \in Parties
    BY DEF Going, Facing, Parties
<1>1. SUFFICES ASSUME i \in committed', i \notin moved', pc'[i] \in {"undoAside", "undoReceipt"}
               PROVE  Open'
    BY DEF Withdraws
<1>2. i \in published \/ i \notin committed
    BY <1>0 DEF Sound, Trails, Trail
<1>3. /\ i \in committed /\ i \notin moved
      /\ pc[i] \in {"undoAside", "undoReceipt"} \/ (pc[i] = "undoPublish" /\ target' = Absent)
    <2>1. ASSUME Alongside(i), Surveys(i) \/ Shifts(i) \/ Signs(i)
          PROVE  /\ i \in committed /\ i \notin moved
                 /\ \/ pc[i] \in {"undoAside", "undoReceipt"}
                    \/ pc[i] = "undoPublish" /\ target' = Absent
        BY <1>1, <1>2, <2>1 DEF Surveys, Shifts, Signs, Treads
    <2>2. ASSUME NEW k \in Installers \ {i}, Alongside(k), Surveys(k) \/ Shifts(k) \/ Signs(k)
          PROVE  i \in committed /\ i \notin moved /\ pc[i] \in {"undoAside", "undoReceipt"}
        BY <1>1, <2>2 DEF Alongside, Surveys, Shifts, Signs
    <2>. QED
        BY <1>0, <1>1, <2>1, <2>2 DEF Facing, Kinds, Aside, Leaves
<1>4. CASE target' = Absent
    BY <1>4 DEF Open
<1>5. CASE pc[i] \in {"undoAside", "undoReceipt"}
    <2>1. Bars(i)
        BY <1>1, <1>3, <1>5, NeedsOf, Apart DEF Bars, Withdrawing, OwnReceipt
    <2>2. Open
        BY <1>0, <1>3, <1>5 DEF Trust, Withdraws
    <2>. QED
        BY <1>0, <2>1, <2>2, OpenStays
<1>. QED
    BY <1>3, <1>4, <1>5

(* How there comes to be a receipt that was not in place.                  *)
LEMMA Renewed ==
    ASSUME Going, NEW o, Vouched(o)', ~Vouched(o)
    PROVE  \/ /\ \E i \in Installers : Alongside(i) /\ Signs(i) /\ WritesOver(i) /\ o = OwnReceipt(i)
              /\ target' = target
           \/ /\ \E i \in Installers : /\ Alongside(i) /\ Signs(i) /\ PutsBack(i)
                                        /\ o = [of |-> seenReceipt[i].of, by |-> i]
                                        /\ seenReceipt[i] # Absent
              /\ target' = target
           \/ /\ \E r \in Removers : Aside(r) /\ Files(r) /\ Relinks(r) /\ o = Copy(job[r].paper.of, r)
              /\ target' = target
<1>1. Passed
    BY Passing DEF Going
<1>. QED
    BY <1>1 DEF Passed, SameReceipt, WritesOver, PutsBack, Empties, Unlinks, Relinks, Signs, Files

(* A tree of the receipt's content.                                        *)
LEMMA PlacedStays ==
    ASSUME Going, NEW o, Vouched(o)'
    PROVE  Placed(o)'
<1>0. Facing /\ Trust /\ Sound /\ ~Hopeless
    BY DEF Going, Facing
<1>1. SUFFICES ASSUME target'.of = o.of
               PROVE  target' = Home(o) \/ Needed(o)'
    BY DEF Placed, Home, Original
<1>2. CASE Vouched(o)
    <2>1. Sealed(o) /\ o.of # Nothing /\ Named(o.of) /\ o # Absent
        BY <1>0, <1>2, OneReceipt DEF Vouched
    <2>2. Needed(o) => Needed(o)'
        BY <1>0, <2>1, NeededStays
    <2>3. CASE target' = target
        BY <1>0, <1>1, <1>2, <2>2, <2>3 DEF Trust, Placed
    <2>4. target' # Absent
        BY <1>1, <2>1, Apart
    <2>5. ASSUME NEW i \in Installers, Publishes(i) PROVE FALSE
        BY <1>1, <2>1, <2>5, Apart DEF Publishes, Named, Early
    <2>6. ASSUME NEW r \in Removers, Remakes(r) PROVE FALSE
        BY <1>1, <2>1, <2>6, Apart DEF Remakes, Sealed
    <2>7. ASSUME NEW r \in Removers, Fills(r) PROVE Needed(o)
        BY <1>1, <1>2, <2>7, FillsAlone DEF Needed, Parties
    <2>. QED
        BY <1>0, <2>2, <2>3, <2>4, <2>5, <2>6, <2>7, TreeMoves
<1>3. CASE ~Vouched(o)
    <2>1. ASSUME NEW i \in Installers, WritesOver(i), o = OwnReceipt(i), target' = target
          PROVE  target' = Home(o)
        <3>1. o.of = i /\ Home(o) = Original(i)
            BY <2>1 DEF OwnReceipt, Home
        <3>2. i \notin committed
            BY <2>1 DEF WritesOver
        <3>. QED
            BY <1>0, <1>1, <2>1, <3>1, <3>2 DEF Trust, Genuine
    <2>2. ASSUME NEW i \in Installers, PutsBack(i), o = [of |-> seenReceipt[i].of, by |-> i],
                 seenReceipt[i] # Absent, target' = target
          PROVE  FALSE
        <3>1. target.of # seenReceipt[i].of
            BY <1>0, <2>2 DEF Trust, Recalls, Recalling, PutsBack
        <3>. QED
            BY <1>1, <2>2, <3>1
    <2>3. ASSUME NEW r \in Removers, Relinks(r), o = Copy(job[r].paper.of, r), target' = target
          PROVE  target' = Home(o)
        <3>1. target = Copy(job[r].paper.of, r)
            BY <1>0, <1>1, <2>3, Apart DEF Trust, Finds, Relinks
        <3>2. o.by # o.of
            BY <1>0, <2>3, Apart, RemoversAssumption
               DEF Sound, RInv, RemovalTypeOK, Jobs, Objects, Contents
        <3>. QED
            BY <2>3, <3>1, <3>2 DEF Home
    <2>. QED
        BY <1>3, <2>1, <2>2, <2>3, Renewed
<1>. QED
    BY <1>2, <1>3

(* Whoever takes the receipt's tree away needs the receipt, or owes one.   *)
LEMMA TakenWithCause ==
    ASSUME Going, NEW o, Vouched(o), target = Home(o), target' # target
    PROVE  Needed(o)' \/ Owed'
<1>0. Facing /\ Trust /\ Sound /\ ~Hopeless /\ ~Hopeless'
    BY DEF Going, Facing
<1>1. Sealed(o) /\ o.of # Nothing /\ o # Absent /\ Home(o).of = o.of
    BY <1>0, OneReceipt, Apart DEF Vouched, Home
<1>2. target # Absent /\ \A r \in Removers : target # Copy(Broken, r)
    BY <1>1, Apart DEF Sealed
<1>3. ASSUME NEW i \in Installers, Alongside(i), Shifts(i)
      PROVE  Needed(o)' \/ Owed'
    <2>1. i \in Parties
        BY DEF Parties
    <2>2. SameReceipt
        BY <1>0, <1>3, InstallersPass
    <2>3. CASE pc[i] = "aside"
        <3>1. i \in moved' /\ pc'[i] = "publish" /\ seenReceipt'[i] = seenReceipt[i]
            BY <1>3, <2>3 DEF Shifts
        <3>2. Needs(i)' = seenReceipt[i]
            BY <3>1, NeedsOf
        <3>3. CASE seenReceipt[i] = Absent
            BY <2>1, <3>1, <3>3, OwesOf DEF Owed
        <3>4. CASE seenReceipt[i] # Absent
            <4>1. Vouched(seenReceipt[i])
                BY <1>0, <2>1, <2>2, <3>2, <3>4, HopeOf DEF SameReceipt
            <4>2. seenReceipt[i] = o
                BY <1>0, <4>1, OneReceipt
            <4>. QED
                BY <2>1, <3>2, <4>2 DEF Needed
        <3>. QED
            BY <3>3, <3>4
    <2>4. CASE pc[i] = "undoPublish" /\ target = Original(i) /\ pc'[i] = "undoAside"
        <3>1. i \notin moved
            BY <1>0, <2>4 DEF Facing, Orderly, Retreat
        <3>2. o.of = i /\ Sealed(o) /\ i \in committed
            BY <1>1, <2>4, Apart DEF Sealed
        <3>3. o.by = o.of
            BY <1>1, <2>4, <3>2, Apart DEF Home, Sealed
        <3>4. Needs(i) = OwnReceipt(i) /\ Needs(i)' = OwnReceipt(i)
            BY <1>3, <2>4, <3>1, <3>2, NeedsOf DEF Withdrawing, Shifts
        <3>5. Vouched(OwnReceipt(i))
            BY <1>0, <2>1, <3>4, HopeOf, Apart DEF OwnReceipt
        <3>6. o = OwnReceipt(i)
            BY <1>0, <3>5, OneReceipt
        <3>. QED
            BY <2>1, <3>4, <3>6 DEF Needed
    <2>. QED
        BY <1>2, <1>3, <2>3, <2>4 DEF Shifts
<1>4. ASSUME NEW r \in Removers, Aside(r), Bears(r)
      PROVE  Needed(o)' \/ Owed'
    <2>1. /\ r \in Parties /\ Alike(r)
          /\ \/ at[r] = "takeTree" /\ at'[r] = "takeReceipt"
             \/ at[r] = "restore" /\ at'[r] = "rebuild"
        BY <1>2, <1>4 DEF Bears, Parties
    <2>2. job[r].paper # Absent /\ (at[r] = "takeTree" => ~job[r].recorded)
        BY <1>0, <2>1 DEF Sound, Papers, Course, Unboxed
    <2>3. CASE job[r].recorded
        BY <2>1, <2>2, <2>3, OwesOf DEF Owed, Alike
    <2>4. CASE ~job[r].recorded
        <3>1. Needs(r) = job[r].paper /\ Needs(r)' = job[r].paper
            BY <2>1, <2>4, NeedsOf DEF Pledged, Alike
        <3>2. job[r].paper = o
            BY <1>0, <2>1, <2>2, <3>1, HopeOf, OneReceipt
        <3>. QED
            BY <2>1, <3>1, <3>2 DEF Needed
    <2>5. job[r].recorded \in BOOLEAN
        BY <1>0 DEF Sound, RInv, RemovalTypeOK, Jobs
    <2>. QED
        BY <2>3, <2>4, <2>5
<1>. QED
    BY <1>0, <1>3, <1>4 DEF Facing, Kinds, Surveys, Signs, Sees, Files

(* The tree of the receipt is there, or there is a reason.                 *)
LEMMA AccountedStays ==
    ASSUME Going, NEW o, Vouched(o)'
    PROVE  Accounted(o)'
<1>0. Facing /\ Trust /\ Sound /\ ~Hopeless
    BY DEF Going, Facing
<1>1. SUFFICES target' = Home(o) \/ Needed(o)' \/ Owed' \/ Awaited(o.of)'
    BY DEF Accounted, Home, Original
<1>2. Owed /\ ~Vacant => Owed'
    BY <1>0, OwedStays
<1>3. CASE Vouched(o)
    <2>1. o # Absent /\ ~Vacant
        BY <1>0, <1>3, OneReceipt DEF Vouched
    <2>2. Needed(o) => Needed(o)'
        BY <1>0, <2>1, NeededStays
    <2>3. CASE target = Home(o)
        BY <1>3, <2>3, TakenWithCause
    <2>4. CASE Awaited(o.of)
        <3>1. PICK s \in Removers : Awaits(s, o.of)
            BY <2>4 DEF Awaited
        <3>2. CASE Awaits(s, o.of)'
            BY <3>2 DEF Awaited
        <3>3. CASE target.of = o.of
            BY <1>0, <1>3, <2>2, <2>3, <3>3 DEF Trust, Placed
        <3>. QED
            BY <1>0, <3>1, <3>2, <3>3, AwaitsStays
    <2>. QED
        BY <1>0, <1>2, <1>3, <2>1, <2>2, <2>3, <2>4 DEF Trust, Accounted
<1>4. CASE ~Vouched(o)
    <2>1. ASSUME NEW i \in Installers, Signs(i), WritesOver(i), o = OwnReceipt(i)
          PROVE  target' = Home(o) \/ Needed(o)'
        <3>1. Home(o) = Original(i)
            BY <2>1 DEF OwnReceipt, Home
        <3>2. target' # Original(i) => Needs(i)' = OwnReceipt(i)
            BY <2>1, NeedsOf DEF WritesOver, Signs
        <3>. QED
            BY <2>1, <3>1, <3>2 DEF Needed, Parties
    <2>2. ASSUME NEW i \in Installers, Alongside(i), Signs(i), PutsBack(i),
                 o = [of |-> seenReceipt[i].of, by |-> i], seenReceipt[i] # Absent
          PROVE  Owed' \/ Awaited(o.of)'
        <3>1. Owed \/ Awaited(o.of)
            BY <1>0, <2>2 DEF Trust, Recalls, Recalling, PutsBack
        <3>2. ~Vacant
            BY <2>2 DEF PutsBack
        <3>3. Awaited(o.of) => Awaited(o.of)'
            BY <2>2 DEF Awaited, Awaits, Alongside, Signs, Copy
        <3>. QED
            BY <1>2, <3>1, <3>2, <3>3
    <2>3. ASSUME NEW r \in Removers, Files(r), Relinks(r), o = Copy(job[r].paper.of, r)
          PROVE  target' = Home(o) \/ Awaited(o.of)'
        <3>1. o.by # o.of
            BY <1>0, <2>3, Apart, RemoversAssumption
               DEF Sound, RInv, RemovalTypeOK, Jobs, Objects, Contents
        <3>2. Home(o) = Copy(o.of, r)
            BY <2>3, <3>1, Apart DEF Home
        <3>3. at'[r] = "validate" /\ job'[r].paper.of = o.of
            BY <2>3, Apart DEF Files, Relinks
        <3>. QED
            BY <3>2, <3>3 DEF Awaited, Awaits, Copy
    <2>. QED
        BY <1>4, <2>1, <2>2, <2>3, Renewed
<1>. QED
    BY <1>3, <1>4

(* Where there is no receipt there is no tree to stay.                     *)
LEMMA VacantStays ==
    ASSUME Going, Vacant'
    PROVE  Open'
<1>0. Facing /\ Trust /\ Sound /\ ~Hopeless /\ ~Hopeless'
    BY DEF Going, Facing
<1>1. CASE Vacant
    BY <1>0, <1>1, OpenStays DEF Trust
<1>2. CASE ~Vacant
    <2>1. Owed => Owed'
        BY <1>0, <1>2, OwedStays
    <2>2. ASSUME NEW i \in Installers, Alongside(i), Signs(i), WritesOver(i) \/ PutsBack(i)
          PROVE  Open'
        <3>1. PutsBack(i)
            BY <2>2 DEF WritesOver
        <3>2. Open /\ i \in committed /\ target' = target
            BY <1>0, <2>2, <3>1 DEF Trust, Withdraws, PutsBack, Signs
        <3>3. ASSUME NEW k \in Installers, Occupies(k) PROVE Occupies(k)'
            BY <2>2, <3>1, <3>2, <3>3 DEF Occupies, Alongside, Signs, PutsBack, Original, Unwithdrawn
        <3>. QED
            BY <2>1, <3>2, <3>3 DEF Open
    <2>3. ASSUME NEW r \in Removers, Aside(r), Files(r), Empties(r) \/ Unlinks(r) \/ Relinks(r)
          PROVE  Open'
        <3>1. CASE Empties(r)
            <4>1. Open /\ target' = target
                BY <1>0, <2>3, <3>1 DEF Trust, Strips, Empties, Files
            <4>2. ASSUME NEW k \in Installers, Occupies(k) PROVE Occupies(k)'
                BY <2>3, <4>1, <4>2 DEF Occupies, Aside, Leaves, Original, Unwithdrawn
            <4>. QED
                BY <2>1, <4>1, <4>2 DEF Open
        <3>2. CASE Unlinks(r)
            BY <3>2, OwesOf DEF Unlinks, Open, Owed, Parties
        <3>. QED
            BY <2>3, <3>1, <3>2 DEF Relinks
    <2>. QED
        BY <1>0, <1>2, <2>2, <2>3, Passing DEF Passed, SameReceipt
<1>. QED
    BY <1>1, <1>2

(* All of it stays true.                                                   *)
LEMMA TrustStays == Going => Trust'
<1>. SUFFICES ASSUME Going PROVE Trust'
    OBVIOUS
<1>1. \A r \in Removers : Matches(r)' /\ Misses(r)' /\ Finds(r)' /\ Strips(r)'
    BY MatchesStays, MissesStays, FindsStays, StripsStays
<1>2. \A i \in Installers : Vacates(i)' /\ Attests(i)' /\ Withdraws(i)' /\ Recalls(i)'
    BY VacatesStays, AttestsStays, WithdrawsStays, RecallsStays
<1>3. \A o : Vouched(o)' => Placed(o)' /\ Accounted(o)'
    BY PlacedStays, AccountedStays
<1>. QED
    BY <1>1, <1>2, <1>3, GenuineStays, VacantStays DEF Trust

-----------------------------------------------------------------------------
(* A profile whose tree no receipt explains is left as it is: nobody gets  *)
(* past the preconditions.                                                 *)
Stuck ==
    /\ target.of # receipt.of
    /\ \A i \in Installers : /\ pc[i] \in {"idle", "plan", "begin", "done", "dead"}
                             /\ pc[i] = "begin" => state[i] \in {"partial", "repair"}
    /\ \A r \in Removers : /\ at[r] \in {"idle", "plan", "begin", "done", "dead"}
                           /\ job[r].held = Absent

(* Every step leaves it so.                                                *)
LEMMA StuckStays ==
    ASSUME RInv, Stuck, RemoverNext
    PROVE  Stuck'
<1>0. /\ pc \in [Installers -> Points] /\ state \in [Installers -> States]
      /\ at \in [Removers -> RemoverPoints] /\ job \in [Removers -> Jobs]
    BY DEF RInv, RemovalTypeOK, TypeOK
<1>1. \A x : Readable(x) = {receipt}
    BY DEF Stuck, Readable, Replacing
<1>2. ASSUME NEW i \in Installers, Works(i), UNCHANGED <<at, job, answer>>
      PROVE  Stuck'
    <2>1. /\ pc[i] \in {"idle", "plan", "begin", "done", "dead"}
          /\ pc[i] = "begin" => state[i] \in {"partial", "repair"}
        BY DEF Stuck
    <2>2. PlanReceipt(i) \/ PlanTarget(i) \/ Refuse(i) \/ RefuseByFault(i) \/ Crash(i)
        <3>1. CASE Forward(i)
            BY <2>1, <3>1 DEF Forward, Begin, Stage, MoveAside, NothingToMove, MoveAsideRefused, Publish,
                              PublishRefused, WriteReceipt, WriteReceiptRefused, Check, CheckRefused,
                              BeginFails, VerifyUsable, VerifyNotReady, VerifyFails
        <3>2. ~Interrupted(i)
            BY <2>1 DEF Interrupted, MoveAsideInterrupted, PublishInterrupted, WriteReceiptInterrupted
        <3>3. ~Commit(i)
            BY <2>1 DEF Commit, CommitRefused, CopyRecovery, CopyRecoveryFails, CleanBackup,
                        CleanBackupFails, CleanRecovery, CleanRecoveryFails
        <3>4. ~Rollback(i)
            BY <2>1 DEF Rollback, UndoPublish, UndoPublishRefused, UndoAside, NothingToRestore,
                        UndoAsideRefused, UndoReceipt, UndoReceiptRefused, UndoClean, UndoFails
        <3>. QED
            BY <1>2, <3>1, <3>2, <3>3, <3>4 DEF Works
    <2>3. Classified(receipt) \in {"partial", "repair"}
        BY DEF Classified, Stuck
    <2>4. UNCHANGED <<target, receipt>>
        BY <2>1, <2>2 DEF PlanReceipt, PlanTarget, Refuse, RefuseByFault, Crash, Replacing, diskVars
    <2>5. /\ pc'[i] \in {"plan", "begin", "done", "dead"}
          /\ pc'[i] = "begin" => state'[i] \in {"partial", "repair"}
        BY <1>0, <1>1, <2>2, <2>3 DEF PlanReceipt, PlanTarget, Refuse, RefuseByFault, Crash, Goto, Finish
    <2>6. \A k \in Installers \ {i} : pc'[k] = pc[k] /\ state'[k] = state[k]
        BY <1>0, <2>2 DEF PlanReceipt, PlanTarget, Refuse, RefuseByFault, Crash, Goto, Finish, planVars
    <2>. QED
        BY <1>2, <2>4, <2>5, <2>6 DEF Stuck
<1>3. ASSUME NEW r \in Removers, Acts(r), UNCHANGED installVars
      PROVE  Stuck'
    <2>1. at[r] \in {"idle", "plan", "begin", "done", "dead"}
        BY DEF Stuck
    <2>2. \/ RPlanReceipt(r) \/ RPlanTarget(r) \/ AlreadyAbsent(r) \/ RefuseRemoval(r)
          \/ BeginFailsUnchanged(r) \/ KillRemover(r)
        <3>1. ~BeginRemoval(r)
            BY <1>1 DEF BeginRemoval, Stuck
        <3>2. ~Restore(r)
            BY <2>1 DEF Restore, RemoveRemains, Rebuild, Fill, RestoreReceipt, LinkReceipt, Validate,
                        RestoreRefused, RestoreFails
        <3>3. CASE Remove(r)
            BY <2>1, <3>1, <3>3 DEF Remove, CaptureBytes, CaptureRefused, CopySnapshot, TakeTree,
                        TakeTreeInterrupted, TreeGone, TakeReceipt, TakeReceiptRefused, KeepReceipt,
                        KeepReceiptFails, KeepReceiptInterrupted, CheckBox, CleanBox, CleanBoxFails,
                        CleanSnapshot, CleanSnapshotFails, RemovalFails
        <3>. QED
            BY <1>3, <3>2, <3>3 DEF Acts
    <2>3. UNCHANGED <<target, receipt>>
        BY <2>1, <2>2 DEF RPlanReceipt, RPlanTarget, AlreadyAbsent, RefuseRemoval, BeginFailsUnchanged,
                          KillRemover
    <2>4. at'[r] \in {"plan", "begin", "done", "dead"}
        BY <1>0, <2>1, <2>2 DEF RPlanReceipt, RPlanTarget, AlreadyAbsent, RefuseRemoval,
                                BeginFailsUnchanged, KillRemover, To, Ends
    <2>5. job'[r].held = job[r].held
        <3>1. CASE RPlanTarget(r)
            <4>1. PICK owned : job' = [job EXCEPT ![r] = [@ EXCEPT !.tree = target, !.owned = owned]]
                BY <3>1 DEF RPlanTarget
            <4>. QED
                BY <1>0, <4>1 DEF Jobs
        <3>2. CASE ~RPlanTarget(r)
            BY <1>0, <2>1, <2>2, <3>2 DEF RPlanReceipt, AlreadyAbsent, RefuseRemoval, BeginFailsUnchanged,
                                          KillRemover, Jobs
        <3>. QED
            BY <3>1, <3>2
    <2>6. \A s \in Removers \ {r} : at'[s] = at[s] /\ job'[s] = job[s]
        BY <1>3, Handling DEF Leaves
    <2>7. UNCHANGED <<pc, state>>
        BY <1>3 DEF installVars, planVars
    <2>. QED
        BY <2>3, <2>4, <2>5, <2>6, <2>7 DEF Stuck
<1>. QED
    BY <1>2, <1>3 DEF RemoverNext, Works, Acts, InstallStep

(* The inductive invariant: where all is in order and there is hope, tree  *)
(* and receipt are what those still at work need them to be.               *)
FInv ==
    /\ Fares
    /\ Orderly => Sheets
    /\ Stuck \/ (Orderly /\ ~Hopeless => Trust)

(* It holds before anybody starts.                                         *)
LEMMA FinalInit == RemoverInit => FInv
<1>. SUFFICES ASSUME RemoverInit PROVE FInv
    OBVIOUS
<1>0. /\ \A i \in Installers : /\ pc[i] = "idle" /\ seenReceipt[i] = Absent /\ backup[i] = Absent
                               /\ outcome[i] = "none"
      /\ committed = {} /\ moved = {}
      /\ \A r \in Removers : at[r] = "idle" /\ job[r].held = Absent /\ job[r].paper = Absent
    BY DEF RemoverInit, Init, NoJob
<1>1. Fares
    BY <1>0 DEF Fares, Ended, Fare, Held, Hold, Locker
<1>2. /\ receipt \in {Absent, Original(Old)}
      /\ \/ target.of # receipt.of
         \/ target = Absent /\ receipt = Absent
         \/ target = Original(Old) /\ receipt = Original(Old)
    BY Apart, ContentsAssumption DEF RemoverInit, Init
<1>3. Sheets
    <2>1. Sealed(Absent) /\ Sealed(Original(Old))
        BY Apart, ContentsAssumption DEF Sealed
    <2>. QED
        BY <1>0, <1>2, <2>1, Apart DEF Sheets
<1>4. CASE target.of # receipt.of
    BY <1>0, <1>1, <1>3, <1>4 DEF FInv, Stuck
<1>5. CASE \/ target = Absent /\ receipt = Absent
           \/ target = Original(Old) /\ receipt = Original(Old)
    <2>1. \A r \in Removers : Matches(r) /\ Misses(r) /\ Finds(r) /\ Strips(r)
        BY <1>0 DEF Matches, Misses, Finds, Strips
    <2>2. \A i \in Installers : Vacates(i) /\ Attests(i) /\ Withdraws(i) /\ Recalls(i)
        BY <1>0 DEF Vacates, Attests, Withdraws, Recalls
    <2>3. Genuine
        BY <1>5, Apart, ContentsAssumption DEF Genuine
    <2>4. ASSUME NEW o, Vouched(o) PROVE target = Home(o)
        <3>1. o = receipt /\ o # Absent
            BY <1>0, <2>4 DEF Vouched
        <3>. QED
            BY <1>5, <3>1, Apart DEF Home
    <2>5. Vacant => target = Absent
        BY <1>5, Apart, ContentsAssumption DEF Vacant
    <2>6. Trust
        BY <2>1, <2>2, <2>3, <2>4, <2>5 DEF Trust, Placed, Accounted, Open
    <2>. QED
        BY <1>1, <1>3, <2>6 DEF FInv
<1>. QED
    BY <1>2, <1>4, <1>5

(* Nothing changes when nothing changes.                                   *)
LEMMA FinalStutter ==
    ASSUME FInv, UNCHANGED allVars
    PROVE  FInv'
<1>1. UNCHANGED <<target, receipt, stage, backup, pc, seenReceipt, state, moved, published, committed,
                  outcome, faults, crashes, interrupts, at, job, answer>>
    BY DEF allVars, vars, diskVars, planVars, txVars, countVars
<1>2. Orderly' <=> Orderly
    BY <1>1 DEF Orderly, Unwithdrawn
<1>3. Fares'
    BY <1>1, <1>2 DEF FInv, Fares, Ended, Fare, Held, Hold
<1>4. Sheets' <=> Sheets
    BY <1>1 DEF Sheets, Sealed
<1>5. Stuck' <=> Stuck
    BY <1>1 DEF Stuck
<1>6. /\ \A o : Vouched(o)' <=> Vouched(o)
      /\ Vacant' <=> Vacant
    BY <1>1 DEF Vouched, Vacant
<1>7. \A x \in Parties : Needs(x)' = Needs(x) /\ (Owes(x)' <=> Owes(x))
    BY <1>1, NeedsOf, OwesOf DEF Parties
<1>8. /\ Hopeless' <=> Hopeless
      /\ \A o : Needed(o)' <=> Needed(o)
      /\ Owed' <=> Owed
    BY <1>6, <1>7 DEF Hopeless, Lacks, Rivals, Needed, Owed, Vouched
<1>9. \A c : Awaited(c)' <=> Awaited(c)
    BY <1>1 DEF Awaited, Awaits, Copy
<1>10. Open' <=> Open
    BY <1>1, <1>8 DEF Open, Occupies, Original, Unwithdrawn
<1>11. ASSUME Trust PROVE Trust'
    <2>1. \A r \in Removers : Matches(r)' /\ Misses(r)' /\ Finds(r)' /\ Strips(r)'
        BY <1>1, <1>6, <1>8, <1>10, <1>11
           DEF Trust, Matches, Misses, Finds, Strips, Home, Original, Copy, Vouched, Needed
    <2>2. \A i \in Installers : Vacates(i)' /\ Attests(i)' /\ Withdraws(i)'
        BY <1>1, <1>6, <1>10, <1>11
           DEF Trust, Vacates, Attests, Withdraws, Home, Original, Vouched, OwnReceipt
    <2>3. \A i \in Installers : Recalls(i)'
        BY <1>1, <1>8, <1>9, <1>11 DEF Trust, Recalls, Awaited, Awaits, Copy
    <2>4. Genuine'
        BY <1>1, <1>11 DEF Trust, Genuine, Original
    <2>5. \A o : Vouched(o)' => Placed(o)' /\ Accounted(o)'
        BY <1>1, <1>6, <1>8, <1>9, <1>11 DEF Trust, Placed, Accounted, Home, Original
    <2>. QED
        BY <1>6, <1>10, <1>11, <2>1, <2>2, <2>3, <2>4, <2>5 DEF Trust
<1>. QED
    BY <1>2, <1>3, <1>4, <1>5, <1>8, <1>11 DEF FInv

(* Every step keeps it.                                                    *)
LEMMA FinalStep ==
    ASSUME RInv, Papers, SInv, FInv, [RemoverNext]_allVars
    PROVE  FInv'
<1>1. CASE UNCHANGED allVars
    BY <1>1, FinalStutter
<1>2. CASE RemoverNext
    <2>1. /\ Ended' /\ \A k \in Installers : Fare(k)'
          /\ Orderly' => Orderly /\ Kinds
        BY <1>2, OrderlySteps DEF SInv, FInv
    <2>2. Orderly' => Facing
        BY <2>1 DEF FInv, Fares, SInv, Facing, Sound
    <2>3. Fares'
        BY <2>1, HeldStays DEF FInv, Fares
    <2>4. Orderly' => Sheets'
        BY <2>2, SheetsStay
    <2>5. Stuck => Stuck'
        BY <1>2, StuckStays
    <2>6. ASSUME Orderly', ~Hopeless', ~Stuck PROVE Trust'
        <3>1. Facing /\ ~Hopeless
            BY <2>2, <2>6, HopelessStays
        <3>2. Going
            BY <2>6, <3>1 DEF Going, FInv, Facing
        <3>. QED
            BY <3>2, TrustStays
    <2>. QED
        BY <2>3, <2>4, <2>5, <2>6 DEF FInv
<1>. QED
    BY <1>1, <1>2

(* An acknowledged removal is final: when all are through and nobody was   *)
(* killed or interrupted, what was removed is not back, nor half of it,    *)
(* whoever else installed or removed at the time and whatever failed; tree *)
(* and receipt are gone or belong to each other, or the tree is one that   *)
(* an installer without a receipt could not withdraw, told or not          *)
(* (_execute_uninstall, _restore_owned_bytes, _validate_owned_install,     *)
(* InstallTransaction.rollback, _rollback_preserving).                     *)
THEOREM RemovalsAreFinal == RemoverSpec => []RemovalIsFinal
<1>1. ASSUME RInv, Papers, FInv,
             Quiet, crashes + interrupts = 0,
             \A i \in moved \cup committed : ~Unwithdrawn(i),
             \A i \in moved : outcome[i] # "failed",
             \A r \in Removers : at[r] \in {"idle", "done"} /\ answer[r] # "stranded",
             NEW r \in Removers, answer[r] = "ok", job[r].held # Absent
      PROVE  /\ target.of \notin {job[r].held.of, Broken}
             /\ \/ receipt.of = target.of
                \/ receipt = Absent /\ \E i \in Installers : Unwithdrawn(i) /\ target = Original(i)
    <2>1. crashes = 0 /\ interrupts = 0
        <3>1. crashes \in Nat /\ interrupts \in Nat
            BY <1>1 DEF RInv, RemovalTypeOK, TypeOK
        <3>. QED
            BY <1>1, <3>1
    <2>2. moved \subseteq Installers
        BY <1>1 DEF RInv, RemovalTypeOK, TypeOK
    <2>3. \A i \in Installers : pc[i] \in {"idle", "done", "dead"}
        BY <1>1 DEF Quiet
    <2>4. Orderly
        BY <1>1, <2>1, <2>2, <2>3 DEF Orderly, Retreat
    <2>5. \A x \in Parties : Needs(x) = Absent /\ ~Owes(x)
        BY <1>1, <2>3, NeedsOf, OwesOf DEF Parties, Pledged, Withdrawing
    <2>6. ~Hopeless /\ ~Owed /\ \A o : o # Absent => ~Needed(o)
        BY <2>5 DEF Hopeless, Lacks, Rivals, Owed, Needed
    <2>7. ~Stuck
        BY <1>1 DEF Stuck
    <2>8. Trust /\ Sheets
        BY <1>1, <2>4, <2>6, <2>7 DEF FInv
    <2>. DEFINE Left(i) == Unwithdrawn(i) /\ target = Original(i) /\ i \notin committed
    <2>9. receipt.of = target.of \/ (receipt = Absent /\ \E i \in Installers : Left(i))
        <3>1. CASE receipt = Absent
            <4>1. Vacant
                BY <1>1, <3>1 DEF Vacant
            <4>2. \A i \in Installers : Occupies(i) => Left(i)
                BY <2>3 DEF Occupies
            <4>. QED
                BY <2>6, <2>8, <3>1, <4>1, <4>2 DEF Trust, Open
        <3>2. CASE receipt # Absent
            <4>1. Vouched(receipt)
                BY <3>2 DEF Vouched
            <4>2. \A c : ~Awaited(c)
                BY <1>1 DEF Awaited, Awaits
            <4>3. target = Home(receipt)
                BY <2>6, <2>8, <3>2, <4>1, <4>2 DEF Trust, Accounted
            <4>. QED
                BY <4>3, Apart DEF Home
        <3>. QED
            BY <3>1, <3>2
    <2>10. receipt.of # Broken
        BY <2>8 DEF Sheets, Sealed
    <2>11. job[r].held.of = job[r].paper.of
        BY <1>1, <2>8 DEF Trust, Matches
    <2>12. receipt.of # job[r].paper.of
        <3>1. HoldsReceipt(r) /\ job[r].paper # Absent /\ Whole(job[r].paper)
            BY <1>1 DEF HoldsReceipt, Papers, Course, Heard
        <3>2. Hand(r) = job[r].paper.of /\ Hand(r) # Nothing
            BY <3>1, HandOf DEF Whole
        <3>. QED
            BY <1>1, <3>2 DEF Papers, Unshared, Parties
    <2>13. \A i \in Installers : Left(i) => target.of # job[r].held.of /\ target.of # Broken
        <3>1. Sealed(job[r].paper) /\ \A i \in Installers : Original(i).of = i /\ i # Broken
            BY <2>8, Apart DEF Sheets
        <3>. QED
            BY <2>11, <3>1 DEF Sealed
    <2>. QED
        BY <2>9, <2>10, <2>11, <2>12, <2>13
<1>2. RInv /\ Papers /\ FInv => RemovalIsFinal
    BY <1>1 DEF RemovalIsFinal
<1>. QED
    BY <1>2, RInvInit, RInvStep, PapersInit, PapersStep, SavedInit, SavedStep, FinalInit, FinalStep,
       PTL DEF RemoverSpec
===============================================================================
