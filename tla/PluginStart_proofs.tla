--------------------------- MODULE PluginStart_proofs ---------------------------
(***************************************************************************)
(* Theorems about PluginStart, for every number of processes, every limit  *)
(* of the log and every number of faults and kills.                        *)
(***************************************************************************)
EXTENDS PluginStart, BootstrapLog_proofs

(* Who may write the token file, and what a process that is past it holds. *)
TokenInv ==
    /\ \A p \in Starts : at[p] = "write" => tokenFile = Short
    /\ \A p, q \in Starts : at[p] = "write" /\ at[q] = "write" => p = q
    /\ \A p \in Starts : at[p] = "read token" => tokenFile # None
    /\ \A p \in Starts : at[p] \in {"bind", "serving"} =>
          token[p] = tokenFile /\ tokenFile \in Starts
    /\ \A p \in Starts : at[p] = "serving" => port = p

IInv == StartTypeOK /\ TokenInv

(* With what the captures of failed starts rely on.                        *)
LogInv == CaptureTypeOK /\ Fresh /\ Looked /\ Room /\ Lone

-----------------------------------------------------------------------------
(* The types of a start and who holds which token, step by step.           *)
LEMMA TokenStep ==
    ASSUME IInv, [Next]_vars PROVE IInv'
<1> USE LogAssumption, TokenAssumption
<1> USE DEF IInv, StartTypeOK, TokenInv
<1>1. ASSUME NEW p \in Starts, Start(p) PROVE IInv'
  BY <1>1 DEF Start, To, startVars
<1>2. ASSUME NEW p \in Starts, MakeToken(p) PROVE IInv'
  <2>0. at[p] = "token" /\ UNCHANGED <<token, tries, port>>
    BY <1>2 DEF MakeToken
  <2>1. CASE tokenFile = None /\ tokenFile' = Short /\ at' = [at EXCEPT ![p] = "write"]
    BY <2>0, <2>1
  <2>2. CASE tokenFile # None /\ at' = [at EXCEPT ![p] = "read token"] /\ UNCHANGED tokenFile
    BY <2>0, <2>2
  <2>3. CASE at' = [at EXCEPT ![p] = "look"] /\ UNCHANGED tokenFile
    BY <2>0, <2>3 DEF CapturePoints
  <2> QED BY <1>2, <2>1, <2>2, <2>3 DEF MakeToken, To
<1>3. ASSUME NEW p \in Starts, WriteToken(p) PROVE IInv'
  <2>0. at[p] = "write" /\ UNCHANGED <<tries, port>>
    BY <1>3 DEF WriteToken
  <2>1. CASE /\ tokenFile' = p /\ token' = [token EXCEPT ![p] = p]
             /\ at' = [at EXCEPT ![p] = "bind"]
    BY <2>0, <2>1
  <2>2. CASE at' = [at EXCEPT ![p] = "look"] /\ UNCHANGED <<tokenFile, token>>
    BY <2>0, <2>2 DEF CapturePoints
  <2> QED BY <1>3, <2>1, <2>2 DEF WriteToken, To
<1>4. ASSUME NEW p \in Starts, ReadToken(p) PROVE IInv'
  <2>0. at[p] = "read token" /\ UNCHANGED <<tokenFile, port>>
    BY <1>4 DEF ReadToken
  <2>1. CASE /\ tokenFile # Short /\ token' = [token EXCEPT ![p] = tokenFile]
             /\ at' = [at EXCEPT ![p] = "bind"] /\ UNCHANGED tries
    BY <2>0, <2>1
  <2>2. CASE /\ tries' = [tries EXCEPT ![p] = IF @ + 1 = Tries THEN 0 ELSE @ + 1]
             /\ at' = [at EXCEPT ![p] = IF tries[p] + 1 = Tries THEN "look" ELSE @]
             /\ UNCHANGED token
    <3>1. tries' \in [Starts -> 0..(Tries - 1)]
      <4> DEFINE n == IF tries[p] + 1 = Tries THEN 0 ELSE tries[p] + 1
      <4>1. Tries \in Nat \ {0} /\ tries[p] \in 0..(Tries - 1)
        OBVIOUS
      <4>2. n \in 0..(Tries - 1)
        BY ONLY <4>1
      <4>3. tries' = [tries EXCEPT ![p] = n] /\ tries \in [Starts -> 0..(Tries - 1)]
        BY <2>2
      <4> HIDE DEF n
      <4> QED BY ONLY <4>2, <4>3
    <3>2. at' = [at EXCEPT ![p] = "look"] \/ at' = at
      BY <2>0, <2>2
    <3> QED BY <2>0, <2>2, <3>1, <3>2 DEF CapturePoints
  <2> QED BY <1>4, <2>1, <2>2 DEF ReadToken
<1>5. ASSUME NEW p \in Starts, Bind(p) PROVE IInv'
  <2>0. at[p] = "bind" /\ UNCHANGED <<tokenFile, token, tries>>
    BY <1>5 DEF Bind
  <2>1. CASE port = None /\ port' = p /\ at' = [at EXCEPT ![p] = "serving"]
    BY <2>0, <2>1
  <2>2. CASE at' = [at EXCEPT ![p] = "look"] /\ UNCHANGED port
    BY <2>0, <2>2 DEF CapturePoints
  <2> QED BY <1>5, <2>1, <2>2 DEF Bind, To
<1>6. ASSUME NEW p \in Starts, CaptureStep(p), UNCHANGED startVars PROVE IInv'
  <2>1. PICK a \in CapturePoints \cup {"failed"} : at' = [at EXCEPT ![p] = a]
    BY <1>6, CaptureMoves DEF Placed
  <2>2. \A q \in Starts : at'[q] = at[q] \/ at'[q] \in CapturePoints \cup {"failed"}
    BY <2>1
  <2> QED BY <1>6, <2>1, <2>2 DEF startVars, CapturePoints
<1>7. ASSUME NEW p \in Starts, Quit(p) PROVE IInv'
  BY <1>7 DEF Quit, To
<1>8. ASSUME NEW p \in Starts, Kill(p) PROVE IInv'
  BY <1>8 DEF Kill, CapturePoints
<1>9. CASE UNCHANGED vars
  BY <1>9 DEF vars, captureVars, startVars
<1> QED BY <1>1, <1>2, <1>3, <1>4, <1>5, <1>6, <1>7, <1>8, <1>9 DEF Next, StartStep

(* Whoever made the token file, and however many processes were killed or  *)
(* failed: the process that serves alone holds the port and requires the   *)
(* token that clients read (_load_or_create_token, bridge.py _load_token). *)
THEOREM TokenSharing == Spec => []TokenShared
<1>1. Init => IInv
  BY LogAssumption, TokenAssumption DEF Init, IInv, StartTypeOK, TokenInv
<1>2. IInv /\ [Next]_vars => IInv'
  BY TokenStep
<1>3. IInv => TokenShared
  BY DEF IInv, TokenInv, TokenShared
<1> QED BY <1>1, <1>2, <1>3, PTL DEF Spec

-----------------------------------------------------------------------------
(* Outside a capture a step changes no log, and a kill forgets the capture.*)
LEMMA StepsElsewhere ==
    ASSUME IInv, NEW p \in Starts,
           Start(p) \/ MakeToken(p) \/ WriteToken(p) \/ ReadToken(p) \/ Bind(p) \/ Quit(p) \/ Kill(p),
           kills \in 0..MaxKills
    PROVE  Elsewhere(p)
<1> USE DEF Elsewhere, Outside, logs, steady, Well
<1>1. CASE Start(p)      BY <1>1 DEF Start
<1>2. CASE MakeToken(p)  BY <1>2 DEF MakeToken
<1>3. CASE WriteToken(p) BY <1>3 DEF WriteToken
<1>4. CASE ReadToken(p)
  <2>1. To(p, "bind") \/ To(p, "look") \/ To(p, "read token")
    BY <1>4 DEF ReadToken, To, IInv, StartTypeOK
  <2> QED BY <1>4, <2>1 DEF ReadToken
<1>5. CASE Bind(p)       BY <1>5 DEF Bind
<1>6. CASE Quit(p)       BY <1>6 DEF Quit
<1>7. CASE Kill(p)
  <2>1. kills' \in 0..MaxKills
    <3>1. kills < MaxKills /\ kills' = kills + 1
      BY <1>7 DEF Kill
    <3> QED BY ONLY <3>1, FaultAssumption, kills \in 0..MaxKills
  <2> QED BY <1>7, <2>1 DEF Kill, To, CapturePoints
<1> QED BY <1>1, <1>2, <1>3, <1>4, <1>5, <1>6, <1>7

(* The log invariant holds before anybody starts.                          *)
LEMMA LogInit == Init => LogInv
<1> SUFFICES ASSUME Init PROVE LogInv
  OBVIOUS
<1> USE LogAssumption, FaultAssumption
<1>1. <<>> \in Seq(Records) /\ Len(<<>>) = 0
  BY EmptySeq
<1>2. \A f \in Files : content[f] \in Seq(Records) /\ Len(content[f]) <= Cap
  <2>1. CASE content = [f \in Files |-> <<>>]
    BY <1>1, <2>1
  <2>2. ASSUME NEW n \in 0..Cap,
               content = [f \in Files |->
                             IF f = Before THEN [i \in 1..n |-> Whole(Before)] ELSE <<>>]
        PROVE  \A f \in Files : content[f] \in Seq(Records) /\ Len(content[f]) <= Cap
    <3>1. Whole(Before) \in Records
      BY DEF Whole, Records, Files
    <3>2. [i \in 1..n |-> Whole(Before)] \in Seq(Records) /\ Len([i \in 1..n |-> Whole(Before)]) = n
      BY <3>1, IsASeq
    <3> QED BY <1>1, <2>2, <3>2
  <2> QED BY <2>1, <2>2 DEF Init, CaptureInit
<1>3. /\ log \in {None, Before} /\ at = [p \in Starts |-> "off"]
      /\ \A p \in Starts : content[p] = <<>>
      /\ content = [f \in Files |-> content[f]]
  BY DEF Init, CaptureInit, Files
<1>4. /\ backup = [p \in Starts |-> None] /\ temp = [p \in Starts |-> None]
      /\ foreign = [p \in Starts |-> None] /\ work = [p \in Starts |-> Rested]
      /\ faults = 0 /\ kills = 0 /\ alone = {} /\ earlier = [file |-> None, holds |-> <<>>]
  BY DEF Init, CaptureInit
<1>5. CaptureTypeOK
  <2>1. log \in Files \cup {None} /\ content \in [Files -> Seq(Records)]
    BY <1>2, <1>3 DEF Files
  <2>2. Rested \in Works
    BY <1>1 DEF Rested, Works
  <2> HIDE DEF Rested
  <2> QED BY <1>1, <1>4, <2>1, <2>2 DEF CaptureTypeOK, Works
<1>6. Fresh
  BY <1>3, <1>4 DEF Fresh, Rested, Files
<1>7. Looked
  BY <1>1, <1>3, <1>4 DEF Looked, Rested
<1>8. Room
  <2>1. Spent = {}
    BY <1>3 DEF Spent, SpentPoints
  <2> QED BY <1>2, <1>3, <2>1 DEF Room, Limit
<1>9. Lone
  BY <1>4 DEF Lone
<1> QED BY <1>5, <1>6, <1>7, <1>8, <1>9 DEF LogInv

(* Every step of a start keeps it.                                         *)
LEMMA LogStep ==
    ASSUME IInv, LogInv, [Next]_vars PROVE LogInv'
<1>0. Placed
  BY DEF IInv, StartTypeOK, Placed
<1>1. ASSUME NEW p \in Starts, CaptureStep(p) PROVE LogInv'
  <2>1. at[p] = "read" => work[p].seen # None
    BY DEF LogInv, Looked
  <2> QED BY <1>0, <1>1, <2>1, CaptureTypes, FreshStep, LookedStep, RoomStep, LoneStep DEF LogInv
<1>2. ASSUME NEW p \in Starts, Elsewhere(p) PROVE LogInv'
  BY <1>0, <1>2, ElsewhereStep DEF LogInv
<1>3. CASE UNCHANGED vars
  <2>1. UNCHANGED <<log, backup, temp, foreign, content, at, work, faults, kills, alone, earlier>>
    BY <1>3 DEF vars, captureVars, nameVars
  <2>2. CaptureTypeOK' /\ Fresh' /\ Looked'
    BY <2>1 DEF LogInv, CaptureTypeOK, Fresh, Looked
  <2>3. Room'
    BY <2>1 DEF LogInv, Room, Limit, Spent, Descriptor
  <2>4. Lone'
    <3>1. ASSUME NEW p \in alone, LoneAt(p) PROVE LoneAt(p)'
      <4>1. /\ Now' = Now /\ OldLog' = OldLog /\ Saved(p)' = Saved(p) /\ Torn(p)' = Torn(p)
            /\ Rotated(OldLog, p)' = Rotated(OldLog, p) /\ Descriptor(p)' = Descriptor(p)
        BY <2>1 DEF Now, OldLog, Saved, Torn, Rotated, Last, Whole, Broken, Descriptor
      <4> QED BY <2>1, <3>1, <4>1 DEF LoneAt
    <3> QED BY <2>1, <3>1 DEF LogInv, Lone
  <2> QED BY <2>2, <2>3, <2>4 DEF LogInv
<1>4. kills \in 0..MaxKills
  BY DEF LogInv, CaptureTypeOK
<1> QED BY <1>1, <1>2, <1>3, <1>4, StepsElsewhere DEF Next, StartStep

(* Types, token and log together.                                          *)
LEMMA StartInv == Spec => [](IInv /\ LogInv)
<1>1. Init => IInv
  BY LogAssumption, TokenAssumption DEF Init, IInv, StartTypeOK, TokenInv
<1>2. Init => LogInv
  BY LogInit
<1>3. IInv /\ LogInv /\ [Next]_vars => IInv' /\ LogInv'
  BY TokenStep, LogStep
<1> QED BY <1>1, <1>2, <1>3, PTL DEF Spec

(* Every variable of the starts and of the log keeps its type.             *)
THEOREM StartTypeCorrect == Spec => []TypeOK
<1>1. IInv /\ LogInv => TypeOK
  BY DEF IInv, LogInv, TypeOK
<1> QED BY <1>1, StartInv, PTL

(* However many processes fail to start at once, and whatever fails or is  *)
(* killed: the log passes its limit by one record at most for each of the  *)
(* others (_capture_bootstrap_error checks the size before it writes).     *)
THEOREM LogStaysBounded == Spec => []LogBounded
<1>1. IInv /\ LogInv => LogBounded
  <2> SUFFICES ASSUME IInv, LogInv, log # None
               PROVE  Len(content[log]) <= Cap + Cardinality(Starts) - 1
    BY DEF LogBounded
  <2>1. log \in Files /\ content[log] \in Seq(Records)
    BY DEF LogInv, CaptureTypeOK
  <2>2. Len(content[log]) \in Nat /\ Len(content[log]) <= Limit
    BY <2>1, LenProperties DEF LogInv, Room
  <2>3. Spent \in SUBSET Starts
    BY DEF Spent
  <2>4. /\ Cardinality(Spent) \in Nat /\ Cardinality(Starts) \in Nat
        /\ Cardinality(Spent) <= Cardinality(Starts) /\ Cardinality(Starts) # 0
    BY <2>3, LogAssumption, FS_Subset, FS_CardinalityType, FS_EmptySet
  <2> HIDE DEF Spent
  <2> QED BY <2>2, <2>4, LogAssumption DEF Limit
<1> QED BY <1>1, StartInv, PTL

(* A capture that no other overlaps never loses the log it found, at any   *)
(* moment and after any failure or kill; what it leaves after one failure  *)
(* is the old log or the new one, with the exceptions CaptureIsAtomic names*)
(* (the staging, moving and linking of _capture_bootstrap_error).          *)
THEOREM CapturesAreAtomic == Spec => []CaptureIsAtomic
<1>1. IInv /\ LogInv => CaptureIsAtomic
  <2> SUFFICES ASSUME IInv, LogInv, NEW p \in alone
               PROVE  /\ \/ Now \in {OldLog, Torn(p), Append(OldLog, Whole(p)), Rotated(OldLog, p)}
                         \/ Saved(p) = OldLog
                      /\ at[p] = "failed" /\ faults <= 1 =>
                            \/ Now \in {OldLog, Append(OldLog, Whole(p)), Rotated(OldLog, p)}
                            \/ Now = Torn(p) /\ earlier.file = None
                            \/ Saved(p) = OldLog /\ ~work[p].kept
    BY DEF CaptureIsAtomic, Now, OldLog, Torn, Saved
  <2>1. LoneAt(p) /\ at[p] \in (CapturePoints \ {"look"}) \cup {"failed", "killed"}
    BY DEF LogInv, Lone
  <2>2. log = p => Now = content[p]
    BY LogAssumption DEF Now, LogInv, CaptureTypeOK
  <2>3. CASE at[p] \in {"create", "open", "read", "stage", "aside", "append", "cut"}
    BY <2>1, <2>3 DEF LoneAt
  <2>4. CASE at[p] \in {"link", "check", "foreign", "restore", "clean"}
    BY <2>1, <2>4 DEF LoneAt
  <2>5. CASE at[p] \in {"failed", "killed"}
    BY <2>1, <2>5 DEF LoneAt
  <2> QED BY <2>1, <2>3, <2>4, <2>5 DEF CapturePoints
<1> QED BY <1>1, StartInv, PTL
===============================================================================
