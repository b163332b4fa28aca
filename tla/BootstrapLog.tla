----------------------------- MODULE BootstrapLog -----------------------------
(***************************************************************************)
(* The log of failed starts (dcc_mcp_gimp.py _capture_bootstrap_error on   *)
(* POSIX).  Every GIMP process that cannot start its bridge appends one    *)
(* record to the same file, or, when the file is full, replaces the file   *)
(* by its last records and the new one.  Nothing locks the file between    *)
(* processes: a capture looks at the file, works, and compares identities. *)
(* Any file operation may fail, and a process may be killed anywhere; what *)
(* goes wrong is swallowed.                                                *)
(*                                                                         *)
(* A file is the process that made it; its content is a sequence of        *)
(* records of one size, some of them broken off.  Names are the variables  *)
(* log, backup, temp and foreign; a file without a name is gone.  Files    *)
(* are told apart by identity, which the model never uses twice.           *)
(***************************************************************************)
EXTENDS Naturals, Sequences, FiniteSets

CONSTANTS
    Starts,         \* the GIMP processes that are started
    Before,         \* the file and the records there were before
    None,           \* no file
    Cap,            \* _MAX_BOOTSTRAP_LOG_BYTES, in records
    Keep,           \* the records a rotation keeps
    MaxFaults,      \* bound: operations that fail
    MaxKills        \* bound: processes killed

ASSUME LogAssumption ==
    /\ Before \notin Starts /\ None \notin Starts /\ Before # None
    /\ IsFiniteSet(Starts) /\ Starts # {}
    /\ Cap \in Nat /\ Keep \in Nat /\ Keep < Cap
ASSUME FaultAssumption == MaxFaults \in Nat /\ MaxKills \in Nat

VARIABLES
    log,            \* the file at the log's name
    backup, temp, foreign,  \* the files at the private names of each process
    content,        \* the records of each file
    at,             \* where each process is
    work,           \* the local variables of each capture
    faults, kills,
    alone,          \* history: captures no other overlapped, up to the next one
    earlier         \* history: the log each of them found

nameVars == <<log, backup, temp, foreign>>
captureVars == <<nameVars, content, at, work, faults, kills, alone, earlier>>

Files == Starts \cup {Before}
Records == [of : Files, whole : BOOLEAN]
Whole(p) == [of |-> p, whole |-> TRUE]
Broken(p) == [of |-> p, whole |-> FALSE]
Rested == [seen |-> None, size |-> 0, payload |-> <<>>, kept |-> FALSE,
           done |-> FALSE]

CapturePoints == {"look", "create", "open", "append", "cut", "read", "stage", "aside", "link",
                  "check", "foreign", "restore", "clean"}
Capturing == {p \in Starts : at[p] \in CapturePoints}

CaptureInit ==
    /\ \/ log = None /\ content = [f \in Files |-> <<>>]
       \/ /\ log = Before
          /\ \E n \in 0..Cap :
                content = [f \in Files |->
                              IF f = Before THEN [i \in 1..n |-> Whole(Before)] ELSE <<>>]
    /\ backup = [p \in Starts |-> None]
    /\ temp = [p \in Starts |-> None]
    /\ foreign = [p \in Starts |-> None]
    /\ work = [p \in Starts |-> Rested]
    /\ faults = 0 /\ kills = 0
    /\ alone = {}
    /\ earlier = [file |-> None, holds |-> <<>>]

Last(s, n) == SubSeq(s, (IF Len(s) > n THEN Len(s) - n ELSE 0) + 1, Len(s))
Rotated(s, p) == Append(Last(s, Keep), Whole(p))

To(p, a) == at' = [at EXCEPT ![p] = a]
Faulty == faults < MaxFaults /\ faults' = faults + 1
Well == UNCHANGED faults

(* The capture is over, and its error swallowed.                           *)
End(p) ==
    /\ To(p, "failed")
    /\ work' = [work EXCEPT ![p] = [Rested EXCEPT !.kept = work[p].kept]]

steady == <<kills, alone, earlier>>

-----------------------------------------------------------------------------
(* os.stat of the log: its identity and its size, which decide what to do. *)
Look(p) ==
    /\ at[p] = "look"
    /\ \/ /\ Well
          /\ LET size == IF log = None THEN 0 ELSE Len(content[log])
             IN  /\ work' = [work EXCEPT ![p].seen = log, ![p].size = size]
                 /\ at' = [at EXCEPT ![p] = IF size + 1 > Cap THEN "read"
                                            ELSE IF log = None THEN "create" ELSE "open"]
       \/ Faulty /\ End(p)
    /\ alone' = IF Capturing = {p} THEN {p} ELSE {}
    /\ earlier' = [file |-> log, holds |-> IF log = None THEN <<>> ELSE content[log]]
    /\ UNCHANGED <<nameVars, content, kills>>

(* O_CREAT and O_EXCL: only a file that is not there is made.              *)
Create(p) ==
    /\ at[p] = "create"
    /\ \/ log = None /\ log' = p /\ Well /\ To(p, "append") /\ UNCHANGED work
       \/ log # None /\ Well /\ End(p) /\ UNCHANGED log
       \/ Faulty /\ End(p) /\ UNCHANGED log
    /\ UNCHANGED <<backup, temp, foreign, content, steady>>

(* The file that is opened must be the one that was looked at.             *)
Open(p) ==
    /\ at[p] = "open"
    /\ \/ log = work[p].seen /\ Well /\ To(p, "append") /\ UNCHANGED work
       \/ log # work[p].seen /\ Well /\ End(p)
       \/ Faulty /\ End(p)
    /\ UNCHANGED <<nameVars, content, steady>>

Descriptor(p) == IF work[p].seen = None THEN p ELSE work[p].seen

(* O_APPEND: the record lands at the end the file has by now.  A write     *)
(* that fails may leave a part of it.                                      *)
AppendRecord(p) ==
    /\ at[p] = "append"
    /\ \/ /\ content' = [content EXCEPT ![Descriptor(p)] = Append(@, Whole(p))]
          /\ Well /\ End(p)
       \/ /\ content' \in {content, [content EXCEPT ![Descriptor(p)] = Append(@, Broken(p))]}
          /\ Faulty
          /\ IF work[p].seen = None THEN End(p)
             ELSE To(p, "cut") /\ UNCHANGED work
    /\ UNCHANGED <<nameVars, steady>>

(* ftruncate to the size that was looked at: what others appended since is *)
(* cut off, and a shorter file is filled up.                               *)
Cut(p) ==
    /\ at[p] = "cut"
    /\ \/ /\ content' = [content EXCEPT ![work[p].seen] =
                [i \in 1..work[p].size |-> IF i <= Len(@) THEN @[i] ELSE Broken(p)]]
          /\ Well
       \/ UNCHANGED content /\ Faulty
    /\ End(p)
    /\ UNCHANGED <<nameVars, steady>>

(* Mutant of Read: every record is kept.                                   *)
ReadAll(p) ==
    /\ at[p] = "read"
    /\ \/ /\ log = work[p].seen /\ Well /\ To(p, "stage")
          /\ work' = [work EXCEPT ![p].payload = Append(content[log], Whole(p))]
       \/ log # work[p].seen /\ Well /\ End(p)
    /\ UNCHANGED <<nameVars, content, steady>>

(* The end of a log that was full, without the line that may be cut off.   *)
ReadLines(s, size) ==
    LET first == IF size > Cap THEN size - Cap ELSE 0
        last == IF first + Cap < Len(s) THEN first + Cap ELSE Len(s)
        existing == SubSeq(s, first + 1, last)
    IN  IF first > 0 /\ existing # <<>> THEN Tail(existing) ELSE existing

(* The last lines of the old log, and the new record.                      *)
Read(p) ==
    /\ at[p] = "read"
    /\ \/ /\ log = work[p].seen /\ Well /\ To(p, "stage")
          /\ work' = [work EXCEPT ![p].payload =
                                Rotated(ReadLines(content[log], work[p].size), p)]
       \/ log # work[p].seen /\ Well /\ End(p)
       \/ Faulty /\ End(p)
    /\ UNCHANGED <<nameVars, content, steady>>

(* The new log is complete under a private name before the old one moves.  *)
Stage(p) ==
    /\ at[p] = "stage"
    /\ \/ /\ temp' = [temp EXCEPT ![p] = p]
          /\ content' = [content EXCEPT ![p] = work[p].payload]
          /\ Well /\ To(p, "aside") /\ UNCHANGED work
       \/ Faulty /\ End(p) /\ UNCHANGED <<temp, content>>
    /\ UNCHANGED <<log, backup, foreign, steady>>

(* The log is renamed to the backup, whatever is there by now; it must be  *)
(* the one that was looked at.  When its identity cannot be read again the *)
(* backup is not remembered.                                               *)
MoveAside(p) ==
    /\ at[p] = "aside"
    /\ \/ /\ log # None
          /\ backup' = [backup EXCEPT ![p] = log] /\ log' = None
          /\ \/ /\ Well /\ work' = [work EXCEPT ![p].kept = TRUE]
                /\ To(p, IF log = work[p].seen THEN "link" ELSE "restore")
             \/ Faulty /\ To(p, "clean") /\ UNCHANGED work
       \/ log = None /\ Well /\ To(p, "clean") /\ UNCHANGED <<log, backup, work>>
       \/ Faulty /\ To(p, "clean") /\ UNCHANGED <<log, backup, work>>
    /\ UNCHANGED <<temp, foreign, content, steady>>

(* os.link: a log that another process made meanwhile is not replaced.     *)
Link(p) ==
    /\ at[p] = "link"
    /\ \/ /\ log = None /\ log' = p
          /\ Well /\ To(p, "check")
       \/ log # None /\ Well /\ To(p, "restore") /\ UNCHANGED log
       \/ Faulty /\ To(p, "restore") /\ UNCHANGED log
    /\ UNCHANGED <<backup, temp, foreign, content, work, steady>>

(* What is at the name must be what was linked.                            *)
Check(p) ==
    /\ at[p] = "check"
    /\ \/ /\ log = p /\ Well /\ To(p, "clean")
          /\ work' = [work EXCEPT ![p].done = TRUE]
       \/ log # p /\ Well /\ To(p, "foreign") /\ UNCHANGED work
       \/ Faulty /\ To(p, "foreign") /\ UNCHANGED work
    /\ UNCHANGED <<nameVars, content, steady>>

(* After a link, a log of another process is moved out of the way.         *)
SetForeignAside(p) ==
    /\ at[p] = "foreign"
    /\ \/ /\ log \notin {None, p}
          /\ foreign' = [foreign EXCEPT ![p] = log] /\ log' = None /\ Well
       \/ log \in {None, p} /\ Well /\ UNCHANGED <<log, foreign>>
       \/ Faulty /\ UNCHANGED <<log, foreign>>
    /\ To(p, "restore")
    /\ UNCHANGED <<backup, temp, content, work, steady>>

(* Mutant of Restore: the failure is swallowed at once.                    *)
RestoreNothing(p) ==
    /\ at[p] = "restore"
    /\ Well /\ To(p, "clean")
    /\ UNCHANGED <<nameVars, content, work, steady>>

(* The old log gets its name back when the name is free.                   *)
Restore(p) ==
    /\ at[p] = "restore"
    /\ \/ /\ work[p].kept /\ log = None
          /\ log' = backup[p] /\ Well
          /\ backup' = [backup EXCEPT ![p] = None]
       \/ /\ work[p].kept /\ log = None /\ Faulty
          /\ log' \in {None, backup[p]} /\ UNCHANGED backup
       \/ ~(work[p].kept /\ log = None) /\ Well /\ UNCHANGED <<log, backup>>
    /\ To(p, "clean")
    /\ UNCHANGED <<temp, foreign, content, work, steady>>

(* The backup of a log that was replaced goes, and the temporary name.     *)
Clean(p) ==
    /\ at[p] = "clean"
    /\ \/ /\ backup' = IF work[p].done THEN [backup EXCEPT ![p] = None] ELSE backup
          /\ temp' = [temp EXCEPT ![p] = None]
          /\ Well
       \/ /\ Faulty
          /\ \/ temp' = [temp EXCEPT ![p] = None] /\ UNCHANGED backup
             \/ /\ UNCHANGED temp
                /\ backup' = IF work[p].done THEN [backup EXCEPT ![p] = None] ELSE backup
    /\ End(p)
    /\ UNCHANGED <<log, foreign, content, steady>>

CaptureStep(p) ==
    \/ Look(p) \/ Create(p) \/ Open(p) \/ AppendRecord(p) \/ Cut(p)
    \/ Read(p) \/ Stage(p) \/ MoveAside(p) \/ Link(p) \/ Check(p)
    \/ SetForeignAside(p) \/ Restore(p) \/ Clean(p)

-----------------------------------------------------------------------------
CaptureTypeOK ==
    /\ log \in Files \cup {None}
    /\ {backup, temp, foreign} \subseteq [Starts -> Files \cup {None}]
    /\ content \in [Files -> Seq(Records)]
    /\ work \in [Starts -> [seen : Files \cup {None}, size : Nat, payload : Seq(Records),
                            kept : BOOLEAN, done : BOOLEAN]]
    /\ faults \in 0..MaxFaults /\ kills \in 0..MaxKills
    /\ alone \subseteq Starts
    /\ earlier \in [file : Files \cup {None}, holds : Seq(Records)]

(* The limit of the log is checked by each process for itself: however     *)
(* many fail to start at once, the log passes it by at most one record for *)
(* each of the others.                                                     *)
LogBounded == log # None => Len(content[log]) <= Cap + Cardinality(Starts) - 1

(* A capture that no other overlaps never loses the log it found: at every *)
(* moment, killed or not, the log is the old one, the old one with the new *)
(* record or a part of it, or its last records with the new one, or else   *)
(* the old one is the backup.  When the capture ends after one failure the *)
(* log is the old or the new one, unless the backup could not be verified  *)
(* or the file did not exist before.                                       *)
CaptureIsAtomic ==
    \A p \in alone :
        LET old == earlier.holds
            new == {Append(old, Whole(p)), Rotated(old, p)}
            now == IF log = None THEN <<>> ELSE content[log]
            saved == IF backup[p] = None THEN <<>> ELSE content[backup[p]]
            torn == Append(old, Broken(p))
        IN  /\ now \in {old, torn} \cup new \/ saved = old
            /\ at[p] = "failed" /\ faults <= 1 =>
                \/ now \in {old} \cup new
                \/ now = torn /\ earlier.file = None
                \/ saved = old /\ ~work[p].kept
===============================================================================
