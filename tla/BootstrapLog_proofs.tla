--------------------------- MODULE BootstrapLog_proofs ---------------------------
(***************************************************************************)
(* Facts about the steps of a capture, for every number of processes, every*)
(* limit of the log and every number of faults: they keep the types, the   *)
(* bound of the log and what a capture without company promises.  The      *)
(* theorems of the whole specification are in PluginStart_proofs.          *)
(***************************************************************************)
EXTENDS BootstrapLog, TLAPS, SequenceTheorems, FiniteSetTheorems

-----------------------------------------------------------------------------
(* The last n records of a sequence.                                       *)
LEMMA LastProperties ==
    ASSUME NEW S, NEW s \in Seq(S), NEW n \in Nat
    PROVE  /\ Last(s, n) \in Seq(S)
           /\ Len(Last(s, n)) = IF Len(s) > n THEN n ELSE Len(s)
           /\ \A i \in 1..Len(Last(s, n)) :
                 Last(s, n)[i] = s[(IF Len(s) > n THEN Len(s) - n ELSE 0) + i]
<1> DEFINE k == IF Len(s) > n THEN Len(s) - n ELSE 0
<1>1. Len(s) \in Nat /\ k \in Nat /\ k <= Len(s) /\ k + 1 \in Int /\ Len(s) \in Int
  BY LenProperties
<1>2. \A i \in (k + 1)..Len(s) : s[i] \in S
  BY <1>1, ElementOfSeq
<1> DEFINE t == SubSeq(s, k + 1, Len(s))
<1>3. Last(s, n) = t
  BY DEF Last
<1>4. /\ t \in Seq(S)
      /\ Len(t) = IF k + 1 <= Len(s) THEN Len(s) - (k + 1) + 1 ELSE 0
      /\ \A i \in 1..(Len(s) - (k + 1) + 1) : t[i] = s[(k + 1) + i - 1]
  <2> HIDE DEF k
  <2> QED BY <1>1, <1>2, SubSeqProperties
<1>5. Len(t) = Len(s) - k
  <2> HIDE DEF k, t
  <2> QED BY <1>1, <1>4
<1>6. \A i \in 1..Len(t) : t[i] = s[k + i]
  <2> HIDE DEF k, t
  <2> QED BY <1>1, <1>4, <1>5
<1>7. Len(s) - k = IF Len(s) > n THEN n ELSE Len(s)
  BY <1>1
<1> HIDE DEF t
<1> QED BY <1>3, <1>4, <1>5, <1>6, <1>7

(* The last records of an end of a sequence are its own last records.      *)
LEMMA LastOfEnd ==
    ASSUME NEW S, NEW s \in Seq(S), NEW n \in Nat, NEW i \in 1..(Len(s) + 1),
           n <= Len(s) - i + 1
    PROVE  Last(SubSeq(s, i, Len(s)), n) = Last(s, n)
<1> DEFINE t == SubSeq(s, i, Len(s))
<1>1. Len(s) \in Nat /\ i \in Int /\ Len(s) \in Int
  BY LenProperties
<1>2. \A j \in i..Len(s) : s[j] \in S
  BY <1>1, ElementOfSeq
<1>3. /\ t \in Seq(S)
      /\ Len(t) = IF i <= Len(s) THEN Len(s) - i + 1 ELSE 0
      /\ \A j \in 1..(Len(s) - i + 1) : t[j] = s[i + j - 1]
  BY <1>1, <1>2, SubSeqProperties
<1> HIDE DEF t
<1>4. Len(t) = Len(s) - i + 1 /\ Len(t) >= n /\ Len(s) >= n
  BY <1>1, <1>3
<1>5. Len(Last(t, n)) = n /\ Len(Last(s, n)) = n
  BY <1>1, <1>3, <1>4, LastProperties
<1>6. ASSUME NEW j \in 1..n PROVE Last(t, n)[j] = Last(s, n)[j]
  <2>1. Last(t, n)[j] = t[(IF Len(t) > n THEN Len(t) - n ELSE 0) + j]
    BY <1>3, <1>5, LastProperties
  <2>2. Last(s, n)[j] = s[(IF Len(s) > n THEN Len(s) - n ELSE 0) + j]
    BY <1>5, LastProperties
  <2>3. (IF Len(t) > n THEN Len(t) - n ELSE 0) + j \in 1..(Len(s) - i + 1)
    BY <1>1, <1>4
  <2>4. i + ((IF Len(t) > n THEN Len(t) - n ELSE 0) + j) - 1
           = (IF Len(s) > n THEN Len(s) - n ELSE 0) + j
    BY <1>1, <1>4
  <2> QED BY <1>3, <2>1, <2>2, <2>3, <2>4
<1>7. Last(t, n) \in Seq(S) /\ Last(s, n) \in Seq(S)
  BY <1>3, LastProperties
<1>8. Last(t, n) = Last(s, n)
  BY <1>5, <1>6, <1>7, SeqEqual
<1> QED BY <1>8 DEF t

(* A rotation keeps at most Keep records and adds its own.                 *)
LEMMA RotatedProperties ==
    ASSUME NEW s \in Seq(Records), NEW p \in Starts
    PROVE  Rotated(s, p) \in Seq(Records) /\ Len(Rotated(s, p)) <= Keep + 1
<1>1. Last(s, Keep) \in Seq(Records) /\ Len(Last(s, Keep)) \in Nat /\ Len(Last(s, Keep)) <= Keep
  <2>1. Last(s, Keep) \in Seq(Records)
    BY LogAssumption, LastProperties
  <2> QED BY <2>1, LogAssumption, LastProperties, LenProperties
<1>2. Whole(p) \in Records
  BY DEF Whole, Records, Files
<1> HIDE DEF Last
<1> QED BY <1>1, <1>2, LogAssumption, AppendProperties DEF Rotated

(* What is read is a sequence of records.                                  *)
LEMMA ReadLinesType ==
    ASSUME NEW s \in Seq(Records), NEW size \in Nat
    PROVE  ReadLines(s, size) \in Seq(Records)
<1> DEFINE first == IF size > Cap THEN size - Cap ELSE 0
           last == IF first + Cap < Len(s) THEN first + Cap ELSE Len(s)
           existing == SubSeq(s, first + 1, last)
<1>1. Len(s) \in Nat /\ first \in Nat /\ first + 1 \in Int /\ last \in Int
  BY LogAssumption, LenProperties
<1>2. \A i \in (first + 1)..last : s[i] \in Records
  <2>1. last <= Len(s)
    BY <1>1, LogAssumption
  <2> HIDE DEF first, last
  <2> QED BY <1>1, <2>1, ElementOfSeq
<1>3. existing \in Seq(Records)
  <2> HIDE DEF first, last
  <2> QED BY <1>1, <1>2, SubSeqProperties
<1>4. \/ ReadLines(s, size) = existing
      \/ existing # <<>> /\ ReadLines(s, size) = Tail(existing)
  <2>1. ReadLines(s, size) = IF first > 0 /\ existing # <<>> THEN Tail(existing) ELSE existing
    BY DEF ReadLines
  <2> HIDE DEF first, existing
  <2> QED BY <2>1
<1> HIDE DEF existing
<1> QED BY <1>3, <1>4, HeadTailProperties

(* Of a log that is full and still as long as it was, what is read ends as *)
(* the log does.                                                           *)
LEMMA ReadLinesEnd ==
    ASSUME NEW s \in Seq(Records), Len(s) >= Cap
    PROVE  Last(ReadLines(s, Len(s)), Keep) = Last(s, Keep)
<1> DEFINE size == Len(s)
<1>0. size \in Nat /\ Cap \in Nat /\ Keep \in Nat /\ Keep < Cap /\ Cap <= size
  BY LogAssumption, LenProperties
<1>1. CASE size = Cap
  <2>1. ReadLines(s, Len(s)) = SubSeq(s, 1, Len(s))
    BY <1>0, <1>1 DEF ReadLines
  <2> QED BY <2>1, SubSeqFull
<1>2. CASE size > Cap
  <2> DEFINE existing == SubSeq(s, size - Cap + 1, size)
  <2>1. existing # <<>> /\ Tail(existing) = SubSeq(s, size - Cap + 2, size)
    <3>1. size - Cap + 1 \in 1..size /\ size \in (size - Cap + 1)..size
      BY <1>0, <1>2
    <3>2. Tail(existing) = SubSeq(s, size - Cap + 1 + 1, size)
      BY <3>1, HeadTailOfSubSeq
    <3>3. \A i \in (size - Cap + 1)..size : s[i] \in Records
      BY <1>0, <1>2, ElementOfSeq
    <3>4. Len(existing) = Cap
      BY <1>0, <1>2, <3>3, SubSeqProperties
    <3>5. size - Cap + 1 + 1 = size - Cap + 2 /\ Cap # 0
      BY <1>0
    <3> QED BY <3>2, <3>4, <3>5, EmptySeq
  <2>2. ReadLines(s, Len(s)) = Tail(existing)
    <3>1. size - Cap > 0 /\ size - Cap + Cap = size
      BY <1>0, <1>2
    <3> QED BY <1>2, <2>1, <3>1 DEF ReadLines
  <2>3. size - Cap + 2 \in 1..(Len(s) + 1) /\ Keep <= Len(s) - (size - Cap + 2) + 1
    BY <1>0, <1>2
  <2>4. Last(SubSeq(s, size - Cap + 2, Len(s)), Keep) = Last(s, Keep)
    BY <1>0, <2>3, LastOfEnd
  <2> QED BY <2>1, <2>2, <2>4
<1> QED BY <1>0, <1>1, <1>2

-----------------------------------------------------------------------------
Works == [seen : Files \cup {None}, size : Nat, payload : Seq(Records),
          kept : BOOLEAN, done : BOOLEAN]

(* What a step leaves alone, and where it ends, do not disturb the types.  *)
LEMMA EndTypes ==
    ASSUME work \in [Starts -> Works], NEW p \in Starts, End(p)
    PROVE  work' \in [Starts -> Works]
<1> DEFINE w == [Rested EXCEPT !.kept = work[p].kept]
<1>1. <<>> \in Seq(Records)
  BY EmptySeq
<1>2. w \in Works
  BY <1>1 DEF Works, Rested
<1>3. work' = [work EXCEPT ![p] = w]
  BY DEF End
<1> HIDE DEF w
<1> QED BY <1>2, <1>3

(* Only a failing step counts, and it is counted.                          *)
LEMMA FaultTypes ==
    ASSUME faults \in 0..MaxFaults, Well \/ Faulty
    PROVE  faults' \in 0..MaxFaults /\ faults <= faults' /\ (Faulty => faults' = faults + 1)
BY FaultAssumption DEF Well, Faulty

(* Every step of a capture keeps the types of its variables.               *)
LEMMA CaptureTypes ==
    ASSUME CaptureTypeOK, NEW p \in Starts, CaptureStep(p),
           at[p] = "read" => work[p].seen # None
    PROVE  CaptureTypeOK'
<1> USE LogAssumption
<1>0. /\ work \in [Starts -> Works] /\ content \in [Files -> Seq(Records)]
      /\ log \in Files \cup {None} /\ faults \in 0..MaxFaults /\ kills \in 0..MaxKills
      /\ backup \in [Starts -> Files \cup {None}] /\ temp \in [Starts -> Files \cup {None}]
      /\ foreign \in [Starts -> Files \cup {None}]
      /\ alone \subseteq Starts /\ earlier \in [file : Files \cup {None}, holds : Seq(Records)]
      /\ p \in Files /\ work[p] \in Works
  BY DEF CaptureTypeOK, Works, Files
<1>e. End(p) => work' \in [Starts -> Works]
  BY <1>0, EndTypes
<1>f. Well \/ Faulty => faults' \in 0..MaxFaults
  BY <1>0, FaultTypes
<1>g. SUFFICES
      /\ work' \in [Starts -> Works] /\ content' \in [Files -> Seq(Records)]
      /\ log' \in Files \cup {None} /\ faults' \in 0..MaxFaults /\ kills' \in 0..MaxKills
      /\ backup' \in [Starts -> Files \cup {None}] /\ temp' \in [Starts -> Files \cup {None}]
      /\ foreign' \in [Starts -> Files \cup {None}]
      /\ alone' \subseteq Starts /\ earlier' \in [file : Files \cup {None}, holds : Seq(Records)]
  BY DEF CaptureTypeOK, Works
<1> USE DEF nameVars, steady
<1>1. CASE Look(p)
  <2> DEFINE size == IF log = None THEN 0 ELSE Len(content[log])
             w == [work[p] EXCEPT !.seen = log, !.size = size]
  <2>1. size \in Nat /\ w \in Works
    <3>1. size \in Nat
      BY <1>0, LenProperties
    <3> HIDE DEF size
    <3> QED BY <1>0, <3>1 DEF Works
  <2>2. work' \in [Starts -> Works]
    <3>1. CASE End(p)
      BY <1>e, <3>1
    <3>2. CASE work' = [work EXCEPT ![p].seen = log, ![p].size = size]
      <4>1. work' = [work EXCEPT ![p] = w]
        <5> HIDE DEF size
        <5> QED BY <1>0, <3>2
      <4> HIDE DEF w, size
      <4> QED BY <1>0, <2>1, <4>1
    <3> QED BY <1>1, <3>1, <3>2 DEF Look
  <2>3. earlier' \in [file : Files \cup {None}, holds : Seq(Records)] /\ alone' \subseteq Starts
    BY <1>0, <1>1, EmptySeq DEF Look
  <2>4. (Well \/ Faulty) /\ UNCHANGED <<nameVars, content, kills>>
    BY <1>1 DEF Look
  <2> QED BY <1>0, <1>f, <2>2, <2>3, <2>4
<1>2. CASE Create(p)
  BY <1>0, <1>2, <1>e, <1>f DEF Create
<1>3. CASE Open(p)
  BY <1>0, <1>3, <1>e, <1>f DEF Open
<1>4. CASE AppendRecord(p)
  <2>1. Descriptor(p) \in Files
    BY <1>0 DEF Descriptor, Works
  <2>2. Whole(p) \in Records /\ Broken(p) \in Records
    BY <1>0 DEF Whole, Broken, Records
  <2>3. /\ Append(content[Descriptor(p)], Whole(p)) \in Seq(Records)
        /\ Append(content[Descriptor(p)], Broken(p)) \in Seq(Records)
    BY <1>0, <2>1, <2>2, AppendProperties
  <2> HIDE DEF Descriptor
  <2>4. content' \in [Files -> Seq(Records)]
    BY <1>0, <1>4, <2>1, <2>3 DEF AppendRecord
  <2>5. work' \in [Starts -> Works]
    BY <1>0, <1>4, <1>e DEF AppendRecord
  <2> QED BY <1>0, <1>4, <1>f, <2>4, <2>5 DEF AppendRecord
<1>5. CASE Cut(p)
  <2> DEFINE s == [i \in 1..work[p].size |->
                      IF i <= Len(content[work[p].seen]) THEN content[work[p].seen][i] ELSE Broken(p)]
  <2>1. CASE content' = content
    BY <1>0, <1>5, <1>e, <1>f, <2>1 DEF Cut
  <2>2. CASE content' = [content EXCEPT ![work[p].seen] = s]
    <3>1. ASSUME work[p].seen \in Files PROVE s \in Seq(Records)
      <4>1. work[p].size \in Nat /\ Broken(p) \in Records
        BY <1>0 DEF Works, Broken, Records
      <4>2. content[work[p].seen] \in Seq(Records)
        BY <1>0, <3>1
      <4>3. \A i \in 1..work[p].size :
              (IF i <= Len(content[work[p].seen]) THEN content[work[p].seen][i] ELSE Broken(p))
              \in Records
        BY <4>1, <4>2, ElementOfSeq, LenProperties
      <4> QED BY <4>1, <4>3, IsASeq
    <3> HIDE DEF s
    <3>2. content' \in [Files -> Seq(Records)]
      BY <1>0, <2>2, <3>1
    <3> QED BY <1>0, <1>5, <1>e, <1>f, <3>2 DEF Cut
  <2> QED BY <1>5, <2>1, <2>2 DEF Cut
<1>6. CASE Read(p)
  <2>1. CASE End(p)
    BY <1>0, <1>6, <1>e, <1>f, <2>1 DEF Read
  <2>2. CASE /\ log = work[p].seen
             /\ work' = [work EXCEPT ![p].payload =
                                    Rotated(ReadLines(content[log], work[p].size), p)]
    <3> DEFINE r == Rotated(ReadLines(content[log], work[p].size), p)
    <3>1. PICK w \in Works : work' = [work EXCEPT ![p] = w]
      <4>1. ASSUME log # None PROVE r \in Seq(Records)
        <5>1. ReadLines(content[log], work[p].size) \in Seq(Records)
          BY <1>0, <4>1, ReadLinesType DEF Works
        <5> QED BY <5>1, RotatedProperties
      <4>2. log # None
        BY <1>6, <2>2 DEF Read
      <4> QED BY <1>0, <2>2, <4>1, <4>2 DEF Works
    <3> QED BY <1>0, <1>6, <1>f, <3>1 DEF Read
  <2> QED BY <1>6, <2>1, <2>2 DEF Read
<1>7. CASE Stage(p)
  <2>1. work[p].payload \in Seq(Records)
    BY <1>0 DEF Works
  <2>2. /\ content' \in [Files -> Seq(Records)] /\ temp' \in [Starts -> Files \cup {None}]
        /\ work' \in [Starts -> Works]
    <3>1. CASE End(p) /\ UNCHANGED <<temp, content>>
      BY <1>0, <1>e, <3>1
    <3>2. CASE /\ temp' = [temp EXCEPT ![p] = p]
               /\ content' = [content EXCEPT ![p] = work[p].payload] /\ UNCHANGED work
      BY <1>0, <2>1, <3>2
    <3> QED BY <1>7, <3>1, <3>2 DEF Stage
  <2> QED BY <1>0, <1>7, <1>f, <2>2 DEF Stage
<1>8. CASE MoveAside(p)
  <2>1. work' \in [Starts -> Works]
    <3>1. CASE work' = [work EXCEPT ![p].kept = TRUE]
      BY <1>0, <3>1 DEF Works
    <3> QED BY <1>0, <1>8, <3>1 DEF MoveAside
  <2> QED BY <1>0, <1>8, <1>f, <2>1 DEF MoveAside
<1>9. CASE Link(p)
  BY <1>0, <1>9, <1>f DEF Link
<1>10. CASE Check(p)
  <2>1. work' \in [Starts -> Works]
    <3>1. CASE work' = [work EXCEPT ![p].done = TRUE]
      BY <1>0, <3>1 DEF Works
    <3> QED BY <1>0, <1>10, <3>1 DEF Check
  <2> QED BY <1>0, <1>10, <1>f, <2>1 DEF Check
<1>11. CASE SetForeignAside(p)
  <2>1. log' \in Files \cup {None} /\ foreign' \in [Starts -> Files \cup {None}]
    BY <1>0, <1>11 DEF SetForeignAside
  <2> QED BY <1>0, <1>11, <1>f, <2>1 DEF SetForeignAside
<1>12. CASE Restore(p)
  BY <1>0, <1>12, <1>f DEF Restore
<1>13. CASE Clean(p)
  BY <1>0, <1>13, <1>e, <1>f DEF Clean
<1> QED
  BY <1>1, <1>2, <1>3, <1>4, <1>5, <1>6, <1>7, <1>8, <1>9, <1>10, <1>11, <1>12, <1>13
  DEF CaptureStep

-----------------------------------------------------------------------------
Placed == at = [p \in Starts |-> at[p]]

(* The points after which the file of a process may exist, and those at    *)
(* which it appends no more.                                               *)
Made == {"append", "cut", "aside", "link", "check", "foreign", "restore", "clean",
         "failed", "killed"}
SpentPoints == {"cut", "failed", "killed"}
Late == {"link", "check", "foreign", "restore", "clean", "failed", "killed"}

(* A capture moves on among its points until it ends.                      *)
LEMMA CaptureMoves ==
    ASSUME Placed, NEW p \in Starts, CaptureStep(p)
    PROVE  /\ at[p] \in CapturePoints
           /\ \E a \in (CapturePoints \ {"look"}) \cup {"failed"} :
                 /\ at' = [at EXCEPT ![p] = a]
                 /\ at[p] \in Made => a \in Made
                 /\ at[p] \in SpentPoints => a \in SpentPoints
           /\ Well \/ Faulty
<1> USE DEF To, End, CapturePoints, Made, SpentPoints
<1>1. CASE Look(p)
  <2>1. at' = [at EXCEPT ![p] = "read"] \/ at' = [at EXCEPT ![p] = "create"]
        \/ at' = [at EXCEPT ![p] = "open"] \/ at' = [at EXCEPT ![p] = "failed"]
    BY <1>1 DEF Look
  <2> QED BY <1>1, <2>1 DEF Look
<1>2. CASE Create(p)           BY <1>2 DEF Create
<1>3. CASE Open(p)             BY <1>3 DEF Open
<1>4. CASE AppendRecord(p)     BY <1>4 DEF AppendRecord
<1>5. CASE Cut(p)              BY <1>5 DEF Cut
<1>6. CASE Read(p)             BY <1>6 DEF Read
<1>7. CASE Stage(p)            BY <1>7 DEF Stage
<1>8. CASE MoveAside(p)        BY <1>8 DEF MoveAside
<1>9. CASE Link(p)             BY <1>9 DEF Link
<1>10. CASE Check(p)           BY <1>10 DEF Check
<1>11. CASE SetForeignAside(p) BY <1>11 DEF SetForeignAside
<1>12. CASE Restore(p)         BY <1>12 DEF Restore
<1>13. CASE Clean(p)           BY <1>13 DEF Clean
<1> QED
  BY <1>1, <1>2, <1>3, <1>4, <1>5, <1>6, <1>7, <1>8, <1>9, <1>10, <1>11, <1>12, <1>13
  DEF CaptureStep

(* A process that has not made its file has no file: no name, nothing in   *)
(* it, and nobody has seen it.                                             *)
Fresh ==
    \A q \in Starts : at[q] \notin Made =>
        /\ log # q /\ content[q] = <<>> /\ earlier.file # q
        /\ \A r \in Starts : backup[r] # q /\ work[r].seen # q

(* What a capture remembers of the log it looked at.                       *)
Looked ==
    \A q \in Starts :
        /\ at[q] \in {"create", "open", "append", "cut"} => work[q].size + 1 <= Cap
        /\ at[q] = "create" => work[q].seen = None
        /\ at[q] \in {"open", "cut", "read", "stage", "aside"} => work[q].seen # None
        /\ Len(work[q].payload) <= Keep + 1
        /\ at[q] \notin Late => ~work[q].kept /\ ~work[q].done

(* A file has one record at most for every capture that is done with       *)
(* appending, the first of which finds it below its limit.                 *)
Spent == {q \in Starts : at[q] \in SpentPoints}
Limit == IF Spent = {} THEN Cap ELSE Cap + Cardinality(Spent) - 1
Room ==
    /\ \A f \in Files : Len(content[f]) <= Limit
    /\ Spent = {} =>
          \A q \in Starts : at[q] \in {"create", "open", "append"} =>
              Len(content[Descriptor(q)]) + 1 <= Cap

(* Every step keeps what was made apart.                                   *)
LEMMA FreshStep ==
    ASSUME CaptureTypeOK, Placed, Fresh, NEW p \in Starts, CaptureStep(p)
    PROVE  Fresh'
<1> USE LogAssumption
<1>1. PICK a : /\ at' = [at EXCEPT ![p] = a] /\ (at[p] \in Made => a \in Made)
  BY CaptureMoves
<1>2. /\ work \in [Starts -> Works] /\ content \in [Files -> Seq(Records)]
      /\ log \in Files \cup {None} /\ backup \in [Starts -> Files \cup {None}]
      /\ p \in Files
  BY DEF CaptureTypeOK, Works, Files
<1> SUFFICES ASSUME NEW q \in Starts, at'[q] \notin Made
             PROVE  /\ log' # q /\ content'[q] = <<>> /\ earlier'.file # q
                    /\ \A r \in Starts : backup'[r] # q /\ work'[r].seen # q
  BY DEF Fresh
<1>3. /\ at[q] \notin Made /\ q # None /\ q \in Files
      /\ log # q /\ content[q] = <<>> /\ earlier.file # q
      /\ \A r \in Starts : backup[r] # q /\ work[r].seen # q
  BY <1>1 DEF Fresh, Placed, Files
<1>4. at'[p] \in Made => p # q
  OBVIOUS
<1>5. at'[p] = a
  BY <1>1 DEF Placed
<1>e. ASSUME End(p) PROVE p # q /\ \A r \in Starts : work'[r].seen # q
  <2>1. at'[p] = "failed"
    BY <1>e DEF End, To, Placed
  <2>2. \A r \in Starts : work'[r].seen \in {work[r].seen, None}
    BY <1>2, <1>e DEF End, Rested
  <2> QED BY <1>3, <1>4, <2>1, <2>2 DEF Made
<1> USE DEF nameVars, steady
<1>t. \A b \in Made : To(p, b) => p # q
  BY <1>4, <1>1 DEF To, Placed
<1>6. CASE Look(p)
  <2>1. \A r \in Starts : work'[r].seen # q
    <3>1. CASE work' = [work EXCEPT ![p].seen = log,
                                    ![p].size = IF log = None THEN 0 ELSE Len(content[log])]
      <4>1. \A r \in Starts : work'[r].seen = IF r = p THEN log ELSE work[r].seen
        BY <1>2, <3>1 DEF Works
      <4> QED BY <1>3, <4>1
    <3> QED BY <1>6, <1>e, <3>1 DEF Look
  <2>2. earlier'.file = log /\ UNCHANGED <<nameVars, content>>
    BY <1>6 DEF Look
  <2> QED BY <1>3, <2>1, <2>2
<1>7. CASE Create(p)
  BY <1>3, <1>7, <1>e, <1>t DEF Create, Made
<1>8. CASE Open(p)
  BY <1>3, <1>8, <1>e DEF Open
<1>9. CASE AppendRecord(p)
  <2>1. p # q
    BY <1>9, <1>e, <1>t DEF AppendRecord, Made
  <2>2. Descriptor(p) # q
    BY <1>3, <2>1 DEF Descriptor
  <2>3. content'[q] = content[q]
    BY <1>2, <1>3, <1>9, <2>2 DEF AppendRecord
  <2>4. \A r \in Starts : work'[r].seen # q
    BY <1>3, <1>9, <1>e DEF AppendRecord
  <2> QED BY <1>3, <1>9, <2>3, <2>4 DEF AppendRecord
<1>10. CASE Cut(p)
  <2>1. content'[q] = content[q]
    BY <1>2, <1>3, <1>10 DEF Cut
  <2> QED BY <1>3, <1>10, <1>e, <2>1 DEF Cut
<1>11. CASE Read(p)
  <2>1. \A r \in Starts : work'[r].seen # q
    <3>1. CASE work' = [work EXCEPT ![p].payload =
                                    Rotated(ReadLines(content[log], work[p].size), p)]
      <4>1. \A r \in Starts : work'[r].seen = work[r].seen
        BY <1>2, <3>1 DEF Works
      <4> QED BY <1>3, <4>1
    <3> QED BY <1>11, <1>e, <3>1 DEF Read
  <2> QED BY <1>3, <1>11, <2>1 DEF Read
<1>12. CASE Stage(p)
  <2>1. p # q
    BY <1>12, <1>e, <1>t DEF Stage, Made
  <2>2. content'[q] = content[q]
    BY <1>2, <1>3, <1>12, <2>1 DEF Stage
  <2>3. \A r \in Starts : work'[r].seen # q
    BY <1>3, <1>12, <1>e DEF Stage
  <2> QED BY <1>3, <1>12, <2>2, <2>3 DEF Stage
<1>13. CASE MoveAside(p)
  <2>1. \A r \in Starts : work'[r].seen = work[r].seen
    <3>1. CASE work' = [work EXCEPT ![p].kept = TRUE]
      BY <1>2, <3>1 DEF Works
    <3> QED BY <1>13, <3>1 DEF MoveAside
  <2>2. log' # q /\ \A r \in Starts : backup'[r] # q
    BY <1>2, <1>3, <1>13 DEF MoveAside
  <2> QED BY <1>3, <1>13, <2>1, <2>2 DEF MoveAside
<1>14. CASE Link(p)
  BY <1>3, <1>14, <1>t DEF Link, Made
<1>15. CASE Check(p)
  <2>1. \A r \in Starts : work'[r].seen = work[r].seen
    BY <1>2, <1>15 DEF Check, Works
  <2> QED BY <1>3, <1>15, <2>1 DEF Check
<1>16. CASE SetForeignAside(p)
  BY <1>3, <1>16 DEF SetForeignAside
<1>17. CASE Restore(p)
  <2>1. log' # q /\ \A r \in Starts : backup'[r] # q
    BY <1>2, <1>3, <1>17 DEF Restore
  <2> QED BY <1>3, <1>17, <2>1 DEF Restore
<1>18. CASE Clean(p)
  <2>1. \A r \in Starts : backup'[r] # q
    BY <1>2, <1>3, <1>18 DEF Clean
  <2> QED BY <1>3, <1>18, <1>e, <2>1 DEF Clean
<1> QED
  BY <1>6, <1>7, <1>8, <1>9, <1>10, <1>11, <1>12, <1>13, <1>14, <1>15, <1>16, <1>17, <1>18
  DEF CaptureStep

(* A step of one capture leaves the others where they are.                 *)
LEMMA OthersWait ==
    ASSUME CaptureTypeOK, Placed, NEW p \in Starts, CaptureStep(p), NEW q \in Starts \ {p}
    PROVE  work'[q] = work[q] /\ at'[q] = at[q]
<1>1. work \in [Starts -> Works]
  BY DEF CaptureTypeOK, Works
<1>2. at'[q] = at[q]
  BY CaptureMoves DEF Placed
<1>3. ASSUME End(p) PROVE work'[q] = work[q]
  BY <1>1, <1>3 DEF End
<1>4. CASE Look(p)             BY <1>1, <1>2, <1>3, <1>4 DEF Look
<1>5. CASE Create(p)           BY <1>2, <1>3, <1>5 DEF Create
<1>6. CASE Open(p)             BY <1>2, <1>3, <1>6 DEF Open
<1>7. CASE AppendRecord(p)     BY <1>2, <1>3, <1>7 DEF AppendRecord
<1>8. CASE Cut(p)              BY <1>2, <1>3, <1>8 DEF Cut
<1>9. CASE Read(p)             BY <1>1, <1>2, <1>3, <1>9 DEF Read
<1>10. CASE Stage(p)           BY <1>2, <1>3, <1>10 DEF Stage
<1>11. CASE MoveAside(p)
  <2>1. CASE work' = [work EXCEPT ![p].kept = TRUE]
    BY <1>1, <1>2, <2>1
  <2> QED BY <1>2, <1>11, <2>1 DEF MoveAside
<1>12. CASE Link(p)            BY <1>2, <1>12 DEF Link
<1>13. CASE Check(p)           BY <1>1, <1>2, <1>13 DEF Check
<1>14. CASE SetForeignAside(p) BY <1>2, <1>14 DEF SetForeignAside
<1>15. CASE Restore(p)         BY <1>2, <1>15 DEF Restore
<1>16. CASE Clean(p)           BY <1>2, <1>3, <1>16 DEF Clean
<1> QED
  BY <1>4, <1>5, <1>6, <1>7, <1>8, <1>9, <1>10, <1>11, <1>12, <1>13, <1>14, <1>15, <1>16
  DEF CaptureStep

(* Every step keeps what a capture has looked at.                          *)
LEMMA LookedStep ==
    ASSUME CaptureTypeOK, Placed, Looked, NEW p \in Starts, CaptureStep(p)
    PROVE  Looked'
<1> USE LogAssumption
<1> DEFINE L(a, w) ==
        /\ a \in {"create", "open", "append", "cut"} => w.size + 1 <= Cap
        /\ a = "create" => w.seen = None
        /\ a \in {"open", "cut", "read", "stage", "aside"} => w.seen # None
        /\ Len(w.payload) <= Keep + 1
        /\ a \notin Late => ~w.kept /\ ~w.done
<1>1. /\ work \in [Starts -> Works] /\ content \in [Files -> Seq(Records)]
      /\ log \in Files \cup {None} /\ work[p] \in Works
  BY DEF CaptureTypeOK, Works
<1>2. L(at[p], work[p])
  BY DEF Looked
<1> SUFFICES L(at'[p], work'[p])
  BY OthersWait DEF Looked
<1>t. \A b : To(p, b) => at'[p] = b
  BY DEF To, Placed
<1>e. ASSUME End(p) PROVE L(at'[p], work'[p])
  <2>1. at'[p] = "failed" /\ work'[p].payload = <<>>
    BY <1>1, <1>e, <1>t DEF End, Rested
  <2> QED BY <2>1 DEF Late
<1>u. ASSUME NEW b, To(p, b), work'[p] = work[p], L(b, work[p]) PROVE L(at'[p], work'[p])
  BY <1>t, <1>u
<1>3. CASE Look(p)
  <2> DEFINE size == IF log = None THEN 0 ELSE Len(content[log])
  <2>1. CASE /\ work' = [work EXCEPT ![p].seen = log, ![p].size = size]
             /\ at' = [at EXCEPT ![p] = IF size + 1 > Cap THEN "read"
                                         ELSE IF log = None THEN "create" ELSE "open"]
    <3>1. /\ work'[p].seen = log /\ work'[p].size = size /\ work'[p].payload = work[p].payload
          /\ work'[p].kept = work[p].kept /\ work'[p].done = work[p].done
      BY <1>1, <2>1 DEF Works
    <3>2. at'[p] = IF size + 1 > Cap THEN "read"
                   ELSE IF log = None THEN "create" ELSE "open"
      BY <2>1 DEF Placed
    <3>3. size \in Nat /\ (log = None => size = 0)
      BY <1>1, LenProperties
    <3> HIDE DEF size
    <3> QED BY <1>2, <1>3, <3>1, <3>2, <3>3 DEF Look, Late
  <2> QED BY <1>3, <1>e, <2>1 DEF Look
<1>4. CASE Create(p)
  <2>1. CASE To(p, "append") /\ UNCHANGED work
    BY <1>2, <1>4, <1>u, <2>1 DEF Create, Late
  <2> QED BY <1>4, <1>e, <2>1 DEF Create
<1>5. CASE Open(p)
  <2>1. CASE To(p, "append") /\ UNCHANGED work
    BY <1>2, <1>5, <1>u, <2>1 DEF Open, Late
  <2> QED BY <1>5, <1>e, <2>1 DEF Open
<1>6. CASE AppendRecord(p)
  <2>1. CASE work[p].seen # None /\ To(p, "cut") /\ UNCHANGED work
    BY <1>2, <1>6, <1>u, <2>1 DEF AppendRecord, Late
  <2> QED BY <1>6, <1>e, <2>1 DEF AppendRecord
<1>7. CASE Cut(p)
  BY <1>7, <1>e DEF Cut
<1>8. CASE Read(p)
  <2> DEFINE r == Rotated(ReadLines(content[log], work[p].size), p)
  <2>1. CASE log = work[p].seen /\ To(p, "stage") /\ work' = [work EXCEPT ![p].payload = r]
    <3>1. at'[p] = "stage" /\ work[p].seen # None /\ log # None
      BY <1>2, <1>8, <1>t, <2>1 DEF Read
    <3>2. /\ work'[p].seen = work[p].seen /\ work'[p].payload = r
          /\ work'[p].kept = work[p].kept /\ work'[p].done = work[p].done
      BY <1>1, <2>1 DEF Works
    <3>3. ReadLines(content[log], work[p].size) \in Seq(Records)
      BY <1>1, <3>1, ReadLinesType DEF Works
    <3>4. Len(r) <= Keep + 1
      BY <3>3, RotatedProperties
    <3> HIDE DEF r
    <3> QED BY <1>2, <1>8, <3>1, <3>2, <3>4 DEF Read, Late
  <2> QED BY <1>8, <1>e, <2>1 DEF Read
<1>9. CASE Stage(p)
  <2>1. CASE To(p, "aside") /\ UNCHANGED work
    BY <1>2, <1>9, <1>u, <2>1 DEF Stage, Late
  <2> QED BY <1>9, <1>e, <2>1 DEF Stage
<1>10. CASE MoveAside(p)
  <2>1. work'[p].payload = work[p].payload
    <3>1. CASE work' = [work EXCEPT ![p].kept = TRUE]
      BY <1>1, <3>1 DEF Works
    <3> QED BY <1>10, <3>1 DEF MoveAside
  <2>2. at'[p] \in {"link", "restore", "clean"}
    BY <1>10, <1>t DEF MoveAside
  <2> QED BY <1>2, <2>1, <2>2 DEF Late
<1>11. CASE Link(p)
  <2>1. at'[p] \in {"check", "restore"} /\ UNCHANGED work
    BY <1>11, <1>t DEF Link
  <2> QED BY <1>2, <2>1 DEF Late
<1>12. CASE Check(p)
  <2>1. work'[p].payload = work[p].payload
    BY <1>1, <1>12 DEF Check, Works
  <2>2. at'[p] \in {"clean", "foreign"}
    BY <1>12, <1>t DEF Check
  <2> QED BY <1>2, <2>1, <2>2 DEF Late
<1>13. CASE SetForeignAside(p)
  <2>1. at'[p] = "restore" /\ UNCHANGED work
    BY <1>13, <1>t DEF SetForeignAside
  <2> QED BY <1>2, <2>1 DEF Late
<1>14. CASE Restore(p)
  <2>1. at'[p] = "clean" /\ UNCHANGED work
    BY <1>14, <1>t DEF Restore
  <2> QED BY <1>2, <2>1 DEF Late
<1>15. CASE Clean(p)
  BY <1>15, <1>e DEF Clean
<1> QED
  BY <1>3, <1>4, <1>5, <1>6, <1>7, <1>8, <1>9, <1>10, <1>11, <1>12, <1>13, <1>14, <1>15
  DEF CaptureStep

(* The limit never falls; it rises with every later capture that is done.  *)
LEMMA LimitGrows ==
    ASSUME Placed, NEW p \in Starts, NEW a, at' = [at EXCEPT ![p] = a],
           at[p] \in SpentPoints => a \in SpentPoints
    PROVE  /\ Limit \in Nat /\ Limit' \in Nat /\ Cap <= Limit /\ Limit <= Limit'
           /\ Spent' = {} => Spent = {}
           /\ at[p] \notin SpentPoints /\ a \in SpentPoints =>
                 Spent' # {} /\ (Spent # {} => Limit' = Limit + 1)
<1> USE LogAssumption
<1>1. /\ IsFiniteSet(Spent) /\ Cardinality(Spent) \in Nat
      /\ Cardinality(Spent) = 0 <=> Spent = {}
  <2>1. Spent \in SUBSET Starts
    BY DEF Spent
  <2> QED BY <2>1, FS_Subset, FS_CardinalityType, FS_EmptySet
<1>2. CASE at[p] \notin SpentPoints /\ a \in SpentPoints
  <2>1. Spent' = Spent \cup {p} /\ p \notin Spent
    BY <1>2 DEF Spent, Placed
  <2>2. IsFiniteSet(Spent') /\ Cardinality(Spent') = Cardinality(Spent) + 1
    BY <1>1, <2>1, FS_AddElement
  <2> HIDE DEF Spent
  <2> QED BY <1>1, <1>2, <2>1, <2>2 DEF Limit
<1>3. CASE ~(at[p] \notin SpentPoints /\ a \in SpentPoints)
  <2>1. Spent' = Spent
    BY <1>3 DEF Spent, Placed
  <2> HIDE DEF Spent
  <2> QED BY <1>1, <1>3, <2>1 DEF Limit
<1> QED BY <1>2, <1>3

(* Every step keeps the log in its room.                                   *)
LEMMA RoomStep ==
    ASSUME CaptureTypeOK, Placed, Fresh, Looked, Room, NEW p \in Starts, CaptureStep(p)
    PROVE  Room'
<1> USE LogAssumption
<1>1. PICK a : /\ at' = [at EXCEPT ![p] = a]
               /\ (at[p] \in Made => a \in Made) /\ (at[p] \in SpentPoints => a \in SpentPoints)
  BY CaptureMoves
<1>2. at'[p] = a
  BY <1>1 DEF Placed
<1>3. /\ work \in [Starts -> Works] /\ content \in [Files -> Seq(Records)]
      /\ log \in Files \cup {None} /\ work[p] \in Works /\ p \in Files
      /\ \A f \in Files : Len(content[f]) \in Nat
  BY LenProperties DEF CaptureTypeOK, Works, Files
<1>4. /\ Limit \in Nat /\ Limit' \in Nat /\ Cap <= Limit /\ Limit <= Limit'
      /\ Spent' = {} => Spent = {}
      /\ at[p] \notin SpentPoints /\ a \in SpentPoints =>
            Spent' # {} /\ (Spent # {} => Limit' = Limit + 1)
  BY <1>1, LimitGrows
<1>5. /\ \A f \in Files : Len(content[f]) <= Limit
      /\ Spent = {} => \A q \in Starts : at[q] \in {"create", "open", "append"} =>
              Len(content[Descriptor(q)]) + 1 <= Cap
  BY DEF Room
<1>6. \A q \in Starts \ {p} : Descriptor(q)' = Descriptor(q) /\ at'[q] = at[q]
  BY OthersWait DEF Descriptor
<1>7. \A q \in Starts : Descriptor(q) \in Files
  BY <1>3 DEF Descriptor, Works, Files
<1> HIDE DEF Limit, Spent
<1>s. ASSUME content' = content,
             a \in {"create", "open", "append"} /\ Spent = {} =>
                 Len(content[Descriptor(p)']) + 1 <= Cap
      PROVE  Room'
  <2>1. \A f \in Files : Len(content'[f]) <= Limit'
    BY <1>3, <1>4, <1>5, <1>s
  <2>2. ASSUME Spent' = {}, NEW q \in Starts, at'[q] \in {"create", "open", "append"}
        PROVE  Len(content'[Descriptor(q)']) + 1 <= Cap
    <3>1. CASE q = p BY <1>2, <1>4, <1>s, <2>2, <3>1
    <3>2. CASE q # p BY <1>4, <1>5, <1>6, <1>s, <2>2, <3>2
    <3> QED BY <3>1, <3>2
  <2> QED BY <2>1, <2>2 DEF Room
<1>t. \A b : To(p, b) => a = b
  BY <1>2 DEF To, Placed
<1>e. End(p) => a = "failed"
  BY <1>t DEF End
<1>8. CASE Look(p)
  <2> DEFINE size == IF log = None THEN 0 ELSE Len(content[log])
  <2>1. CASE /\ work' = [work EXCEPT ![p].seen = log, ![p].size = size]
             /\ at' = [at EXCEPT ![p] = IF size + 1 > Cap THEN "read"
                                         ELSE IF log = None THEN "create" ELSE "open"]
    <3>1. work'[p].seen = log
      BY <1>3, <2>1 DEF Works
    <3>2. a = IF size + 1 > Cap THEN "read" ELSE IF log = None THEN "create" ELSE "open"
      BY <1>2, <2>1 DEF Placed
    <3>3. size \in Nat
      BY <1>3
    <3>4. content[p] = <<>>
      BY <1>8 DEF Look, Fresh, Made
    <3>5. ASSUME a \in {"create", "open", "append"} PROVE Len(content[Descriptor(p)']) + 1 <= Cap
      <4>1. size + 1 <= Cap
        <5> HIDE DEF size
        <5> QED BY <3>2, <3>3, <3>5
      <4>2. CASE log = None
        BY <3>1, <3>4, <4>1, <4>2 DEF Descriptor
      <4>3. CASE log # None
        BY <3>1, <4>1, <4>3 DEF Descriptor
      <4> QED BY <4>2, <4>3
    <3> QED BY <1>8, <1>s, <3>5 DEF Look
  <2>2. CASE End(p)
    BY <1>8, <1>s, <1>e, <2>2 DEF Look
  <2> QED BY <1>8, <2>1, <2>2 DEF Look
<1>9. CASE Create(p)
  <2>1. CASE End(p)
    BY <1>9, <1>s, <1>e, <2>1 DEF Create
  <2>2. CASE UNCHANGED work
    <3>1. Descriptor(p)' = Descriptor(p)
      BY <2>2 DEF Descriptor
    <3> QED BY <1>5, <1>9, <1>s, <3>1 DEF Create
  <2> QED BY <1>9, <2>1, <2>2 DEF Create
<1>10. CASE Open(p)
  <2>1. CASE End(p)
    BY <1>10, <1>s, <1>e, <2>1 DEF Open
  <2>2. CASE UNCHANGED work
    <3>1. Descriptor(p)' = Descriptor(p)
      BY <2>2 DEF Descriptor
    <3> QED BY <1>5, <1>10, <1>s, <3>1 DEF Open
  <2> QED BY <1>10, <2>1, <2>2 DEF Open
<1>11. CASE AppendRecord(p)
  <2> DEFINE d == Descriptor(p)
  <2>1. d \in Files /\ Whole(p) \in Records /\ Broken(p) \in Records
    BY <1>3, <1>7 DEF Whole, Broken, Records
  <2>2. /\ Len(Append(content[d], Whole(p))) = Len(content[d]) + 1
        /\ Len(Append(content[d], Broken(p))) = Len(content[d]) + 1
    BY <1>3, <2>1, AppendProperties
  <2> HIDE DEF d
  <2>3. content' \in {content, [content EXCEPT ![d] = Append(content[d], Whole(p))],
                      [content EXCEPT ![d] = Append(content[d], Broken(p))]}
    BY <1>11 DEF AppendRecord, d
  <2>4. at[p] = "append" /\ a \in SpentPoints /\ at[p] \notin SpentPoints
    BY <1>11, <1>t, <1>e DEF AppendRecord, SpentPoints
  <2>5. Spent' # {} /\ (Spent # {} => Limit' = Limit + 1)
    BY <1>4, <2>4
  <2>6. Len(content[d]) + 1 <= Limit'
    <3>1. CASE Spent = {}
      BY <1>3, <1>4, <1>5, <2>1, <2>4, <3>1 DEF d
    <3>2. CASE Spent # {}
      BY <1>3, <1>4, <1>5, <2>1, <2>5, <3>2
    <3> QED BY <3>1, <3>2
  <2>7. ASSUME NEW f \in Files PROVE Len(content'[f]) <= Limit'
    <3>1. CASE f = d
      BY <1>3, <1>4, <1>5, <2>1, <2>2, <2>3, <2>6, <3>1
    <3>2. CASE f # d
      BY <1>3, <1>4, <1>5, <2>3, <3>2
    <3> QED BY <3>1, <3>2
  <2> QED BY <2>5, <2>7 DEF Room
<1>12. CASE Cut(p)
  <2> DEFINE c == [i \in 1..work[p].size |->
                      IF i <= Len(content[work[p].seen]) THEN content[work[p].seen][i] ELSE Broken(p)]
  <2>1. content' \in {content, [content EXCEPT ![work[p].seen] = c]}
    BY <1>12 DEF Cut
  <2>2. Len(c) = work[p].size /\ work[p].size \in Nat /\ work[p].size + 1 <= Cap
    <3>1. work[p].size \in Nat /\ work[p].size + 1 <= Cap
      BY <1>3, <1>12 DEF Works, Cut, Looked
    <3> QED BY <3>1
  <2> HIDE DEF c
  <2>3. Spent' # {}
    BY <1>2, <1>12, <1>e DEF Spent, Cut, SpentPoints
  <2>4. ASSUME NEW f \in Files PROVE Len(content'[f]) <= Limit'
    <3>1. content'[f] \in {content[f], c}
      BY <1>3, <2>1
    <3> QED BY <1>3, <1>4, <1>5, <2>2, <3>1
  <2> QED BY <2>3, <2>4 DEF Room
<1>13. CASE Read(p)
  <2>1. a \notin {"create", "open", "append"}
    BY <1>13, <1>t, <1>e DEF Read
  <2> QED BY <1>13, <1>s, <2>1 DEF Read
<1>14. CASE Stage(p)
  <2>1. CASE UNCHANGED content
    <3>1. a \notin {"create", "open", "append"}
      BY <1>14, <1>t, <1>e DEF Stage
    <3> QED BY <1>s, <2>1, <3>1
  <2>2. CASE content' = [content EXCEPT ![p] = work[p].payload]
    <3>1. Len(work[p].payload) <= Cap
      <4>1. work[p].payload \in Seq(Records) /\ Len(work[p].payload) <= Keep + 1
        BY <1>3 DEF Works, Looked
      <4> QED BY <4>1, LenProperties
    <3>2. Len(work[p].payload) \in Nat
      BY <1>3, LenProperties DEF Works
    <3>3. ASSUME NEW f \in Files PROVE Len(content'[f]) <= Limit'
      <4>1. content'[f] \in {content[f], work[p].payload}
        BY <1>3, <2>2
      <4> QED BY <1>3, <1>4, <1>5, <3>1, <3>2, <4>1
    <3>4. ASSUME Spent' = {}, NEW q \in Starts, at'[q] \in {"create", "open", "append"}
          PROVE  Len(content'[Descriptor(q)']) + 1 <= Cap
      <4>1. q # p
        BY <1>2, <1>14, <1>t, <1>e, <3>4 DEF Stage
      <4>2. Descriptor(q) # p /\ at[q] \in {"create", "open", "append"}
        BY <1>6, <1>14, <3>4, <4>1 DEF Stage, Fresh, Made, Descriptor
      <4>3. content'[Descriptor(q)'] = content[Descriptor(q)]
        BY <1>3, <1>6, <1>7, <2>2, <4>1, <4>2
      <4> QED BY <1>4, <1>5, <3>4, <4>2, <4>3
    <3> QED BY <3>3, <3>4 DEF Room
  <2> QED BY <1>14, <2>1, <2>2 DEF Stage
<1>15. CASE MoveAside(p)
  <2>1. a \notin {"create", "open", "append"}
    BY <1>15, <1>t DEF MoveAside
  <2> QED BY <1>15, <1>s, <2>1 DEF MoveAside
<1>16. CASE Link(p)
  <2>1. a \notin {"create", "open", "append"}
    BY <1>16, <1>t DEF Link
  <2> QED BY <1>16, <1>s, <2>1 DEF Link
<1>17. CASE Check(p)
  <2>1. a \notin {"create", "open", "append"}
    BY <1>17, <1>t DEF Check
  <2> QED BY <1>17, <1>s, <2>1 DEF Check
<1>18. CASE SetForeignAside(p)
  <2>1. a \notin {"create", "open", "append"}
    BY <1>18, <1>t DEF SetForeignAside
  <2> QED BY <1>18, <1>s, <2>1 DEF SetForeignAside
<1>19. CASE Restore(p)
  <2>1. a \notin {"create", "open", "append"}
    BY <1>19, <1>t DEF Restore
  <2> QED BY <1>19, <1>s, <2>1 DEF Restore
<1>20. CASE Clean(p)
  <2>1. a \notin {"create", "open", "append"}
    BY <1>20, <1>e DEF Clean
  <2> QED BY <1>20, <1>s, <2>1 DEF Clean
<1> QED
  BY <1>8, <1>9, <1>10, <1>11, <1>12, <1>13, <1>14, <1>15, <1>16, <1>17, <1>18, <1>19, <1>20
  DEF CaptureStep

-----------------------------------------------------------------------------
(* What a capture without company found, what is at the name of the log    *)
(* now, and what its backup holds.                                         *)
OldLog == earlier.holds
Now == IF log = None THEN <<>> ELSE content[log]
Saved(p) == IF backup[p] = None THEN <<>> ELSE content[backup[p]]
Torn(p) == Append(OldLog, Broken(p))

(* The log through a capture without company: untouched before the record  *)
(* is written or the new log is complete, in the backup while the name is  *)
(* free or taken by the new log, and at the end the old or the new one.    *)
LoneAt(p) ==
    /\ at[p] \in {"create", "open", "append", "cut", "read", "stage", "aside"} =>
          work[p].seen = earlier.file /\ work[p].size = Len(OldLog)
    /\ at[p] \in {"create", "open", "read", "stage", "aside"} =>
          log = earlier.file /\ Now = OldLog
    /\ at[p] \in {"read", "stage"} => Len(OldLog) >= Cap
    /\ at[p] = "stage" => work[p].payload = Rotated(OldLog, p)
    /\ at[p] = "append" => log = Descriptor(p) /\ Now = OldLog
    /\ at[p] = "cut" =>
          log = work[p].seen /\ Now \in {OldLog, Torn(p)} /\ faults >= 1
    /\ at[p] \in {"aside", "link", "check", "foreign", "restore"} =>
          content[p] = Rotated(OldLog, p)
    /\ at[p] \in {"link", "check", "foreign", "restore"} =>
          backup[p] # None /\ Saved(p) = OldLog /\ work[p].kept /\ ~work[p].done
    /\ at[p] = "link" => log = None
    /\ at[p] \in {"check", "foreign"} => log = p
    /\ at[p] = "foreign" => faults >= 1
    /\ at[p] = "restore" => log \in {None, p} /\ faults >= 1
    /\ at[p] = "clean" =>
          \/ Now \in {OldLog, Rotated(OldLog, p)}
          \/ ~work[p].done /\ Saved(p) = OldLog /\ (~work[p].kept \/ faults >= 2)
    /\ at[p] = "failed" =>
          /\ Now \in {OldLog, Torn(p), Append(OldLog, Whole(p)), Rotated(OldLog, p)}
             \/ Saved(p) = OldLog
          /\ faults <= 1 =>
                \/ Now \in {OldLog, Append(OldLog, Whole(p)), Rotated(OldLog, p)}
                \/ Now = Torn(p) /\ earlier.file = None
                \/ Saved(p) = OldLog /\ ~work[p].kept
    /\ at[p] = "killed" =>
          Now \in {OldLog, Torn(p), Append(OldLog, Whole(p)), Rotated(OldLog, p)}
          \/ Saved(p) = OldLog

Lone ==
    \A p \in alone :
        /\ at[p] \in (CapturePoints \ {"look"}) \cup {"failed", "killed"}
        /\ \A q \in Starts \ {p} : q \notin alone /\ at[q] \notin CapturePoints \ {"look"}
        /\ LoneAt(p)

(* The look of a capture that no other overlaps.                           *)
LEMMA LoneLook ==
    ASSUME CaptureTypeOK, Placed, Fresh, NEW p \in Starts, Look(p)
    PROVE  LoneAt(p)'
<1> USE LogAssumption
<1>1. /\ work \in [Starts -> Works] /\ content \in [Files -> Seq(Records)]
      /\ log \in Files \cup {None} /\ work[p] \in Works
  BY DEF CaptureTypeOK, Works
<1>2. /\ earlier' = [file |-> log, holds |-> IF log = None THEN <<>> ELSE content[log]]
      /\ UNCHANGED <<log, backup, content>>
  BY DEF Look, nameVars
<1>3. OldLog' = Now /\ Now' = Now /\ earlier'.file = log
  BY <1>2 DEF OldLog, Now
<1>4. CASE End(p)
  <2>1. at'[p] = "failed"
    BY <1>4 DEF End, To, Placed
  <2> QED BY <1>3, <2>1 DEF LoneAt
<1> DEFINE size == IF log = None THEN 0 ELSE Len(content[log])
<1>5. CASE /\ work' = [work EXCEPT ![p].seen = log, ![p].size = size]
           /\ at' = [at EXCEPT ![p] = IF size + 1 > Cap THEN "read"
                                       ELSE IF log = None THEN "create" ELSE "open"]
  <2>1. work'[p].seen = log /\ work'[p].size = size
    BY <1>1, <1>5 DEF Works
  <2>2. at'[p] = IF size + 1 > Cap THEN "read" ELSE IF log = None THEN "create" ELSE "open"
    BY <1>5 DEF Placed
  <2>3. size = Len(Now) /\ size \in Nat
    <3>1. Len(<<>>) = 0
      OBVIOUS
    <3> QED BY <1>1, <3>1, LenProperties DEF Now
  <2>4. at'[p] \in {"read", "create", "open"} /\ (at'[p] = "read" => size >= Cap)
    <3> HIDE DEF size
    <3> QED BY <2>2, <2>3
  <2> HIDE DEF size
  <2> QED BY <1>2, <1>3, <2>1, <2>3, <2>4 DEF LoneAt
<1> QED BY <1>4, <1>5 DEF Look

(* Every other step of a capture that no other overlaps.                   *)
LEMMA LoneCapture ==
    ASSUME CaptureTypeOK, Placed, Fresh, Looked, NEW p \in Starts, CaptureStep(p), ~Look(p),
           LoneAt(p)
    PROVE  LoneAt(p)'
<1> USE LogAssumption
<1>1. /\ work \in [Starts -> Works] /\ content \in [Files -> Seq(Records)]
      /\ log \in Files \cup {None} /\ work[p] \in Works /\ faults \in Nat
      /\ backup \in [Starts -> Files \cup {None}] /\ p \in Files /\ p # None
      /\ OldLog \in Seq(Records)
  BY FaultAssumption DEF CaptureTypeOK, Works, Files, OldLog
<1>t. \A b : To(p, b) => at'[p] = b
  BY DEF To, Placed
<1>e. ASSUME End(p) PROVE at'[p] = "failed" /\ work'[p].kept = work[p].kept
  <2>1. work' = [work EXCEPT ![p] = [Rested EXCEPT !.kept = work[p].kept]]
    BY <1>e DEF End
  <2> QED BY <1>1, <1>e, <1>t, <2>1 DEF End, Rested
<1>k. ASSUME UNCHANGED <<log, content, earlier>>
      PROVE  Now' = Now /\ OldLog' = OldLog /\ earlier'.file = earlier.file
  BY <1>k DEF Now, OldLog
<1>x. ASSUME End(p), UNCHANGED <<log, content, earlier>>, Now = OldLog PROVE LoneAt(p)'
  BY <1>e, <1>k, <1>x DEF LoneAt
<1>2. CASE Create(p)
  <2>0. at[p] = "create" /\ UNCHANGED <<content, earlier>>
    BY <1>2 DEF Create, steady
  <2>1. CASE log = None /\ log' = p /\ To(p, "append") /\ UNCHANGED work
    <3>1. content[p] = <<>> /\ work[p].seen = None
      BY <2>0 DEF Fresh, Looked, Made
    <3>2. at'[p] = "append" /\ Descriptor(p)' = p /\ OldLog' = OldLog
      BY <1>t, <2>0, <2>1, <3>1 DEF Descriptor, OldLog
    <3>3. OldLog = <<>> /\ Now' = <<>>
      BY <1>1, <2>0, <2>1, <3>1 DEF LoneAt, Now
    <3> QED BY <2>0, <2>1, <3>1, <3>2, <3>3 DEF LoneAt
  <2>2. CASE End(p) /\ UNCHANGED log
    BY <1>x, <2>0, <2>2 DEF LoneAt
  <2> QED BY <1>2, <2>1, <2>2 DEF Create
<1>3. CASE Open(p)
  <2>0. at[p] = "open" /\ UNCHANGED <<log, content, earlier>>
    BY <1>3 DEF Open, nameVars, steady
  <2>1. CASE log = work[p].seen /\ To(p, "append") /\ UNCHANGED work
    <3>1. at'[p] = "append" /\ Descriptor(p)' = log'
      BY <1>t, <2>0, <2>1 DEF Descriptor, Looked
    <3> QED BY <1>k, <2>0, <2>1, <3>1 DEF LoneAt
  <2>2. CASE End(p)
    BY <1>x, <2>0, <2>2 DEF LoneAt
  <2> QED BY <1>3, <2>1, <2>2 DEF Open
<1>4. CASE AppendRecord(p)
  <2>0. /\ at[p] = "append" /\ UNCHANGED <<log, backup, earlier>> /\ log = Descriptor(p)
        /\ Now = OldLog /\ work[p].seen = earlier.file /\ work[p].size = Len(OldLog)
    BY <1>4 DEF AppendRecord, nameVars, steady, LoneAt
  <2>1. /\ log \in Files /\ log # None /\ content[log] = OldLog
        /\ OldLog' = OldLog /\ earlier'.file = earlier.file
    <3>1. log # None
      BY <1>1, <2>0 DEF Descriptor
    <3> QED BY <1>1, <2>0, <3>1 DEF OldLog, Now
  <2>2. CASE content' = [content EXCEPT ![log] = Append(content[log], Whole(p))] /\ End(p)
    <3>1. Now' = Append(OldLog, Whole(p))
      BY <1>1, <2>0, <2>1, <2>2 DEF Now
    <3> QED BY <1>e, <2>1, <2>2, <3>1 DEF LoneAt
  <2>3. CASE /\ content' \in {content, [content EXCEPT ![log] = Append(content[log], Broken(p))]}
             /\ Faulty
             /\ IF work[p].seen = None THEN End(p) ELSE To(p, "cut") /\ UNCHANGED work
    <3>1. Now' \in {OldLog, Torn(p)} /\ Torn(p)' = Torn(p)
      BY <1>1, <2>0, <2>1, <2>3 DEF Now, Torn, Broken
    <3>2. faults' >= 1
      BY <1>1, <2>3 DEF Faulty
    <3>3. CASE work[p].seen = None /\ End(p)
      BY <1>e, <2>0, <2>1, <3>1, <3>3 DEF LoneAt
    <3>4. CASE work[p].seen # None /\ To(p, "cut") /\ UNCHANGED work
      <4>1. at'[p] = "cut" /\ log' = work'[p].seen
        BY <1>t, <2>0, <3>4 DEF Descriptor
      <4> QED BY <2>0, <2>1, <3>1, <3>2, <3>4, <4>1 DEF LoneAt
    <3> QED BY <2>3, <3>3, <3>4
  <2> QED BY <1>4, <2>0, <2>2, <2>3 DEF AppendRecord
<1>5. CASE Cut(p)
  <2> DEFINE c == [i \in 1..work[p].size |->
                      IF i <= Len(content[work[p].seen]) THEN content[work[p].seen][i] ELSE Broken(p)]
  <2>0. /\ at[p] = "cut" /\ End(p) /\ UNCHANGED <<log, backup, earlier>>
        /\ log = work[p].seen /\ Now \in {OldLog, Torn(p)} /\ faults >= 1
        /\ work[p].size = Len(OldLog)
    BY <1>5 DEF Cut, nameVars, steady, LoneAt
  <2>1. /\ log \in Files /\ log # None /\ content[log] = Now
        /\ OldLog' = OldLog /\ Torn(p)' = Torn(p)
    BY <1>1, <2>0 DEF OldLog, Now, Looked, Torn, Broken
  <2>2. CASE content' = [content EXCEPT ![work[p].seen] = c]
    <3>1. c = OldLog
      <4>1. Broken(p) \in Records /\ Len(OldLog) \in Nat
        BY <1>1, LenProperties DEF Broken, Records
      <4>2. /\ Len(Torn(p)) = Len(OldLog) + 1
            /\ \A i \in 1..Len(OldLog) : Torn(p)[i] = OldLog[i]
        BY <1>1, <4>1, AppendProperties DEF Torn
      <4>3. \A i \in 1..Len(OldLog) : i <= Len(content[work[p].seen])
                                       /\ content[work[p].seen][i] = OldLog[i]
        BY <2>0, <2>1, <4>1, <4>2
      <4>4. c = [i \in 1..Len(OldLog) |-> OldLog[i]]
        BY <2>0, <4>3
      <4>5. OldLog = [i \in 1..Len(OldLog) |-> OldLog[i]]
        BY <1>1, LenProperties
      <4> QED BY <4>4, <4>5
    <3> HIDE DEF c
    <3>2. Now' = OldLog
      BY <1>1, <2>0, <2>1, <2>2, <3>1 DEF Now
    <3> QED BY <1>e, <2>0, <2>1, <3>2 DEF LoneAt
  <2>3. CASE UNCHANGED content /\ Faulty
    <3>1. faults' >= 2 /\ Now' = Now /\ ~(faults' <= 1)
      BY <1>1, <2>0, <2>3 DEF Faulty, Now
    <3> QED BY <1>e, <2>0, <2>1, <3>1 DEF LoneAt
  <2> QED BY <1>5, <2>2, <2>3 DEF Cut
<1>6. CASE Read(p)
  <2> DEFINE r == Rotated(ReadLines(content[log], work[p].size), p)
  <2>0. /\ at[p] = "read" /\ UNCHANGED <<log, content, earlier>> /\ Now = OldLog
        /\ log = earlier.file /\ work[p].size = Len(OldLog) /\ Len(OldLog) >= Cap
        /\ work[p].seen = earlier.file /\ work[p].seen # None
    BY <1>6 DEF Read, nameVars, steady, LoneAt, Looked
  <2>1. CASE End(p)
    BY <1>x, <2>0, <2>1
  <2>2. CASE To(p, "stage") /\ work' = [work EXCEPT ![p].payload = r]
    <3>1. r = Rotated(OldLog, p)
      <4>1. content[log] = OldLog /\ work[p].size = Len(OldLog)
        BY <2>0 DEF Now
      <4> QED BY <1>1, <2>0, <4>1, ReadLinesEnd DEF Rotated
    <3>2. /\ work'[p].payload = Rotated(OldLog, p) /\ work'[p].seen = work[p].seen
          /\ work'[p].size = work[p].size
      <4> HIDE DEF r
      <4> QED BY <1>1, <2>2, <3>1 DEF Works
    <3>3. at'[p] = "stage" /\ Rotated(OldLog, p)' = Rotated(OldLog, p)
      BY <1>k, <1>t, <2>0, <2>2 DEF Rotated, Last, Whole
    <3> QED BY <1>k, <2>0, <3>2, <3>3 DEF LoneAt
  <2> QED BY <1>6, <2>1, <2>2 DEF Read
<1>7. CASE Stage(p)
  <2>0. /\ at[p] = "stage" /\ UNCHANGED <<log, backup, earlier>> /\ Now = OldLog
        /\ log = earlier.file /\ work[p].size = Len(OldLog)
        /\ work[p].seen = earlier.file /\ work[p].seen # None /\ log # p
        /\ work[p].payload = Rotated(OldLog, p)
    BY <1>7 DEF Stage, steady, LoneAt, Looked, Fresh, Made
  <2>1. CASE End(p) /\ UNCHANGED content
    BY <1>x, <2>0, <2>1
  <2>2. CASE /\ content' = [content EXCEPT ![p] = work[p].payload]
             /\ To(p, "aside") /\ UNCHANGED work
    <3>1. Now' = Now /\ content'[p] = Rotated(OldLog, p) /\ OldLog' = OldLog
      BY <1>1, <2>0, <2>2 DEF Now, OldLog
    <3>2. at'[p] = "aside" /\ Rotated(OldLog, p)' = Rotated(OldLog, p)
      BY <1>t, <2>0, <2>2, <3>1 DEF Rotated, Last, Whole
    <3> QED BY <2>0, <2>2, <3>1, <3>2 DEF LoneAt
  <2> QED BY <1>7, <2>1, <2>2 DEF Stage
<1>r. ASSUME UNCHANGED <<content, earlier>>
      PROVE  /\ OldLog' = OldLog /\ earlier'.file = earlier.file
             /\ Rotated(OldLog, p)' = Rotated(OldLog, p) /\ content'[p] = content[p]
  BY <1>r DEF OldLog, Rotated, Last, Whole
<1>8. CASE MoveAside(p)
  <2>0. /\ at[p] = "aside" /\ UNCHANGED <<content, earlier>> /\ Now = OldLog
        /\ log = work[p].seen /\ log # None /\ content[p] = Rotated(OldLog, p)
        /\ ~work[p].kept /\ ~work[p].done
    BY <1>8 DEF MoveAside, steady, LoneAt, Looked, Late
  <2>1. CASE backup' = [backup EXCEPT ![p] = log] /\ log' = None
    <3>1. backup'[p] # None /\ Saved(p)' = OldLog
      BY <1>1, <2>0, <2>1 DEF Saved, Now
    <3>2. CASE work' = [work EXCEPT ![p].kept = TRUE] /\ To(p, "link")
      <4>1. work'[p].kept /\ ~work'[p].done
        BY <1>1, <2>0, <3>2 DEF Works
      <4>2. at'[p] = "link"
        BY <1>t, <3>2
      <4> QED BY <1>r, <2>0, <2>1, <3>1, <4>1, <4>2 DEF LoneAt
    <3>3. CASE To(p, "clean") /\ UNCHANGED work
      BY <1>r, <1>t, <2>0, <3>1, <3>3 DEF LoneAt
    <3> QED BY <1>8, <2>0, <2>1, <3>2, <3>3 DEF MoveAside
  <2>2. CASE To(p, "clean") /\ UNCHANGED log
    <3>1. Now' = OldLog /\ at'[p] = "clean"
      BY <1>t, <2>0, <2>2 DEF Now
    <3> QED BY <1>r, <2>0, <3>1 DEF LoneAt
  <2> QED BY <1>8, <2>1, <2>2 DEF MoveAside
<1>9. CASE Link(p)
  <2>0. /\ at[p] = "link" /\ UNCHANGED <<content, earlier, backup, work>> /\ log = None
        /\ content[p] = Rotated(OldLog, p) /\ backup[p] # None /\ Saved(p) = OldLog
        /\ work[p].kept /\ ~work[p].done /\ Saved(p)' = Saved(p)
    BY <1>9 DEF Link, steady, LoneAt, Saved
  <2>1. CASE log' = p /\ To(p, "check")
    BY <1>r, <1>t, <2>0, <2>1 DEF LoneAt
  <2>2. CASE UNCHANGED log /\ Faulty /\ To(p, "restore")
    <3>1. faults' >= 1 /\ at'[p] = "restore"
      BY <1>1, <1>t, <2>2 DEF Faulty
    <3> QED BY <1>r, <2>0, <2>2, <3>1 DEF LoneAt
  <2> QED BY <1>9, <2>0, <2>1, <2>2 DEF Link
<1>10. CASE Check(p)
  <2>0. /\ at[p] = "check" /\ UNCHANGED <<log, content, earlier, backup>> /\ log = p
        /\ content[p] = Rotated(OldLog, p) /\ backup[p] # None /\ Saved(p) = OldLog
        /\ work[p].kept /\ ~work[p].done /\ Saved(p)' = Saved(p)
    BY <1>10 DEF Check, nameVars, steady, LoneAt, Saved
  <2>1. CASE To(p, "clean")
    <3>1. Now' = Rotated(OldLog, p) /\ at'[p] = "clean"
      BY <1>1, <1>t, <2>0, <2>1 DEF Now
    <3> QED BY <1>r, <2>0, <3>1 DEF LoneAt
  <2>2. CASE Faulty /\ To(p, "foreign") /\ UNCHANGED work
    <3>1. faults' >= 1 /\ at'[p] = "foreign"
      BY <1>1, <1>t, <2>2 DEF Faulty
    <3> QED BY <1>r, <2>0, <2>2, <3>1 DEF LoneAt
  <2> QED BY <1>10, <2>0, <2>1, <2>2 DEF Check
<1>11. CASE SetForeignAside(p)
  <2>0. /\ at[p] = "foreign" /\ UNCHANGED <<content, earlier, backup, work>> /\ log = p
        /\ content[p] = Rotated(OldLog, p) /\ backup[p] # None /\ Saved(p) = OldLog
        /\ work[p].kept /\ ~work[p].done /\ Saved(p)' = Saved(p) /\ faults >= 1
    BY <1>11 DEF SetForeignAside, steady, LoneAt, Saved
  <2>1. log' = log /\ faults' >= 1 /\ at'[p] = "restore"
    BY <1>1, <1>t, <1>11, <2>0 DEF SetForeignAside, Well, Faulty
  <2> QED BY <1>r, <2>0, <2>1 DEF LoneAt
<1>12. CASE Restore(p)
  <2>0. /\ at[p] = "restore" /\ UNCHANGED <<content, earlier, work>> /\ log \in {None, p}
        /\ content[p] = Rotated(OldLog, p) /\ backup[p] # None /\ Saved(p) = OldLog
        /\ work[p].kept /\ ~work[p].done /\ faults >= 1 /\ at'[p] = "clean"
    BY <1>t, <1>12 DEF Restore, steady, LoneAt
  <2>1. CASE log = None /\ log' = backup[p]
    <3>1. Now' = OldLog
      BY <2>0, <2>1 DEF Now, Saved
    <3> QED BY <1>r, <2>0, <3>1 DEF LoneAt
  <2>2. CASE Faulty /\ UNCHANGED backup
    <3>1. faults' >= 2 /\ Saved(p)' = OldLog
      BY <1>1, <2>0, <2>2 DEF Faulty, Saved
    <3> QED BY <1>r, <2>0, <3>1 DEF LoneAt
  <2>3. CASE log = p /\ log' = p
    <3>1. Now' = Rotated(OldLog, p)
      BY <1>1, <2>0, <2>3 DEF Now
    <3> QED BY <1>r, <2>0, <3>1 DEF LoneAt
  <2> QED BY <1>1, <1>12, <2>0, <2>1, <2>2, <2>3 DEF Restore
<1>13. CASE Clean(p)
  <2>0. /\ at[p] = "clean" /\ UNCHANGED <<log, content, earlier>> /\ End(p)
        /\ \/ Now \in {OldLog, Rotated(OldLog, p)}
           \/ ~work[p].done /\ Saved(p) = OldLog /\ (~work[p].kept \/ faults >= 2)
    BY <1>13 DEF Clean, steady, LoneAt
  <2>1. at'[p] = "failed" /\ work'[p].kept = work[p].kept
    BY <1>e, <2>0
  <2>2. CASE Now \in {OldLog, Rotated(OldLog, p)}
    BY <1>k, <1>r, <2>0, <2>1, <2>2 DEF LoneAt
  <2>3. CASE ~work[p].done /\ Saved(p) = OldLog /\ (~work[p].kept \/ faults >= 2)
    <3>1. backup' = backup /\ faults' \in Nat /\ faults' >= faults
      BY <1>1, <1>13, <2>3 DEF Clean, Well, Faulty
    <3>2. Saved(p)' = OldLog
      BY <2>0, <2>3, <3>1 DEF Saved
    <3>3. ~work[p].kept \/ ~(faults' <= 1)
      BY <1>1, <2>3, <3>1
    <3> QED BY <1>r, <2>0, <2>1, <3>2, <3>3 DEF LoneAt
  <2> QED BY <2>0, <2>2, <2>3
<1> QED
  BY <1>2, <1>3, <1>4, <1>5, <1>6, <1>7, <1>8, <1>9, <1>10, <1>11, <1>12, <1>13
  DEF CaptureStep

(* Every step of a capture that nobody overlaps keeps its earlier log.     *)
LEMMA LoneStep ==
    ASSUME CaptureTypeOK, Placed, Fresh, Looked, Lone, NEW p \in Starts, CaptureStep(p)
    PROVE  Lone'
<1>0. alone \subseteq Starts
  BY DEF CaptureTypeOK
<1>1. at[p] \in CapturePoints /\ at'[p] \in (CapturePoints \ {"look"}) \cup {"failed"}
  BY CaptureMoves DEF Placed
<1>2. \A q \in Starts \ {p} : at'[q] = at[q]
  BY OthersWait
<1>3. CASE Look(p)
  <2>1. CASE Capturing = {p}
    <3>1. alone' = {p}
      BY <1>3, <2>1 DEF Look
    <3>2. \A q \in Starts \ {p} : at[q] \notin CapturePoints
      BY <2>1 DEF Capturing
    <3>3. LoneAt(p)'
      BY <1>3, LoneLook
    <3> QED BY <1>1, <1>2, <3>1, <3>2, <3>3 DEF Lone
  <2>2. CASE Capturing # {p}
    BY <1>3, <2>2 DEF Look, Lone
  <2> QED BY <2>1, <2>2
<1>4. CASE ~Look(p)
  <2>1. at[p] # "look" /\ alone' = alone
    BY <1>4 DEF CaptureStep, Look, Create, Open, AppendRecord, Cut, Read, Stage, MoveAside, Link,
                Check, SetForeignAside, Restore, Clean, steady
  <2>2. SUFFICES ASSUME NEW r \in alone
                 PROVE  /\ at'[r] \in (CapturePoints \ {"look"}) \cup {"failed", "killed"}
                        /\ \A q \in Starts \ {r} : /\ q \notin alone
                                                   /\ at'[q] \notin CapturePoints \ {"look"}
                        /\ LoneAt(r)'
    BY <2>1 DEF Lone
  <2>3. r = p /\ LoneAt(p)
    BY <1>0, <1>1, <2>1 DEF Lone
  <2>4. LoneAt(p)'
    BY <1>4, <2>3, LoneCapture
  <2> QED BY <1>1, <1>2, <2>3, <2>4 DEF Lone
<1> QED BY <1>3, <1>4

(* A step of a process that is not capturing, and the death of a process.  *)
Outside == {"off", "token", "write", "read token", "bind", "serving", "quit"}
Elsewhere(p) ==
    /\ \/ at[p] \in Outside /\ work' = work /\ \E a \in Outside \cup {"look"} : To(p, a)
       \/ at[p] \notin {"failed", "killed"} /\ work' = [work EXCEPT ![p] = Rested] /\ To(p, "killed")
    /\ Well \/ Faulty
    /\ kills' \in 0..MaxKills
    /\ UNCHANGED <<nameVars, content, alone, earlier>>

(* Steps of a start outside its capture keep all this.                     *)
LEMMA ElsewhereStep ==
    ASSUME CaptureTypeOK, Placed, Fresh, Looked, Room, Lone, NEW p \in Starts, Elsewhere(p)
    PROVE  CaptureTypeOK' /\ Fresh' /\ Looked' /\ Room' /\ Lone'
<1> USE LogAssumption
<1>0. PICK a \in Outside \cup {"look", "killed"} :
          /\ at' = [at EXCEPT ![p] = a]
          /\ IF a = "killed" THEN /\ work' = [work EXCEPT ![p] = Rested]
                                  /\ at[p] \notin {"failed", "killed"}
             ELSE at[p] \in Outside /\ work' = work
  BY DEF Elsewhere, To, Outside
<1>1. /\ work \in [Starts -> Works] /\ content \in [Files -> Seq(Records)] /\ faults \in 0..MaxFaults
      /\ alone \subseteq Starts
      /\ UNCHANGED <<log, backup, temp, foreign, content, alone, earlier>>
  BY DEF CaptureTypeOK, Works, Elsewhere, nameVars
<1>2. at'[p] = a /\ \A q \in Starts \ {p} : at'[q] = at[q] /\ work'[q] = work[q]
  BY <1>0, <1>1 DEF Placed
<1>3. /\ Rested \in Works /\ Rested.seen = None /\ Rested.payload = <<>> /\ ~Rested.kept
      /\ ~Rested.done
  <2>1. <<>> \in Seq(Records)
    BY EmptySeq
  <2> QED BY <2>1 DEF Rested, Works
<1>4. faults' \in 0..MaxFaults /\ faults <= faults'
  BY <1>1, FaultTypes DEF Elsewhere
<1> HIDE DEF Rested
<1>5. CaptureTypeOK'
  <2>1. work' \in [Starts -> Works] /\ kills' \in 0..MaxKills
    BY <1>0, <1>1, <1>3 DEF Elsewhere
  <2> QED BY <1>1, <1>4, <2>1 DEF CaptureTypeOK, Works
<1>6. Fresh'
  <2> SUFFICES ASSUME NEW q \in Starts, at'[q] \notin Made
               PROVE  /\ log # q /\ content[q] = <<>> /\ earlier.file # q
                      /\ \A r \in Starts : backup[r] # q /\ work'[r].seen # q
    BY <1>1 DEF Fresh
  <2>1. at[q] \notin Made
    BY <1>0, <1>2 DEF Made, Outside
  <2>2. \A r \in Starts : work'[r].seen \in {work[r].seen, None}
    BY <1>0, <1>1, <1>3
  <2> QED BY <2>1, <2>2 DEF Fresh
<1>7. Looked'
  <2>1. CASE a = "killed"
    <3>1. work'[p] = Rested /\ at'[p] = "killed" /\ Len(<<>>) = 0
      BY <1>0, <1>1, <1>2, <2>1
    <3> QED BY <1>2, <1>3, <3>1 DEF Looked, Late
  <2>2. CASE a # "killed"
    <3>1. work' = work /\ at[p] \notin Late
      BY <1>0, <2>2 DEF Outside, Late
    <3> QED BY <1>2, <2>2, <3>1 DEF Looked, Outside
  <2> QED BY <2>1, <2>2
<1>8. Room'
  <2>1. /\ Limit \in Nat /\ Limit' \in Nat /\ Limit <= Limit'
        /\ Spent' = {} => Spent = {}
    BY <1>0, LimitGrows DEF SpentPoints, Outside
  <2>2. \A f \in Files : Len(content[f]) \in Nat
    BY <1>1, LenProperties
  <2>3. \A f \in Files : Len(content'[f]) <= Limit'
    <3> HIDE DEF Limit
    <3> QED BY <1>1, <2>1, <2>2 DEF Room
  <2>4. ASSUME Spent' = {}, NEW q \in Starts, at'[q] \in {"create", "open", "append"}
        PROVE  Len(content'[Descriptor(q)']) + 1 <= Cap
    <3>1. q # p
      BY <1>2, <2>4 DEF Outside
    <3> HIDE DEF Spent
    <3>2. Descriptor(q)' = Descriptor(q) /\ at[q] \in {"create", "open", "append"}
      BY <1>2, <2>4, <3>1 DEF Descriptor
    <3> QED BY <1>1, <2>1, <2>4, <3>2 DEF Room
  <2> QED BY <2>3, <2>4 DEF Room
<1>9. Lone'
  <2> SUFFICES ASSUME NEW r \in alone
               PROVE  /\ at'[r] \in (CapturePoints \ {"look"}) \cup {"failed", "killed"}
                      /\ \A q \in Starts \ {r} : /\ q \notin alone
                                                 /\ at'[q] \notin CapturePoints \ {"look"}
                      /\ LoneAt(r)'
    BY <1>1 DEF Lone
  <2>1. /\ at[r] \in (CapturePoints \ {"look"}) \cup {"failed", "killed"} /\ r \in Starts
        /\ \A q \in Starts \ {r} : q \notin alone /\ at[q] \notin CapturePoints \ {"look"}
        /\ LoneAt(r)
    BY <1>1 DEF Lone
  <2>2. /\ Now' = Now /\ OldLog' = OldLog /\ earlier' = earlier /\ Saved(r)' = Saved(r)
        /\ Torn(r)' = Torn(r) /\ Rotated(OldLog, r)' = Rotated(OldLog, r)
        /\ content' = content /\ log' = log /\ backup' = backup
    BY <1>1 DEF Now, OldLog, Saved, Torn, Rotated, Last, Whole, Broken
  <2>3. \A q \in Starts \ {r} : at'[q] \notin CapturePoints \ {"look"}
    BY <1>2, <2>1 DEF Outside, CapturePoints
  <2>4. CASE r = p
    <3>1. a = "killed" /\ at[p] # "failed" /\ at[p] # "killed"
      BY <1>0, <2>1, <2>4 DEF Outside, CapturePoints, SpentPoints
    <3>2. \/ Now \in {OldLog, Torn(p), Append(OldLog, Whole(p)), Rotated(OldLog, p)}
          \/ Saved(p) = OldLog
      <4>1. CASE at[p] \in {"create", "open", "read", "stage", "aside", "append", "cut"}
        BY <2>1, <2>4, <4>1 DEF LoneAt
      <4>2. CASE at[p] \in {"link", "check", "foreign", "restore"}
        BY <2>1, <2>4, <4>2 DEF LoneAt
      <4>3. CASE at[p] = "clean"
        BY <2>1, <2>4, <4>3 DEF LoneAt
      <4> QED BY <2>1, <2>4, <3>1, <4>1, <4>2, <4>3 DEF CapturePoints
    <3>3. at'[p] = "killed"
      BY <1>2, <3>1
    <3>4. LoneAt(p)'
      BY <2>2, <2>4, <3>2, <3>3 DEF LoneAt
    <3> QED BY <2>1, <2>3, <2>4, <3>3, <3>4
  <2>5. CASE r # p
    <3>1. at'[r] = at[r] /\ work'[r] = work[r] /\ Descriptor(r)' = Descriptor(r)
      BY <1>2, <2>1, <2>5 DEF Descriptor
    <3>2. /\ faults >= 1 => faults' >= 1
          /\ faults >= 2 => faults' >= 2
          /\ faults' <= 1 => faults <= 1
      BY <1>1, <1>4, FaultAssumption
    <3>3. LoneAt(r)'
      BY <2>1, <2>2, <3>1, <3>2 DEF LoneAt
    <3> QED BY <2>1, <2>3, <3>1, <3>3
  <2> QED BY <2>4, <2>5
<1> QED BY <1>5, <1>6, <1>7, <1>8, <1>9
===============================================================================
