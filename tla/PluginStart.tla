------------------------------ MODULE PluginStart ------------------------------
(***************************************************************************)
(* The start of the bridge in every GIMP of one user (dcc_mcp_gimp.py _run,*)
(* _run_bridge, _load_or_create_token, capture_bootstrap_errors): a        *)
(* process makes or reads the token file, takes the port and serves; the   *)
(* error of a process that cannot goes through BootstrapLog.  A client     *)
(* reads the token file by itself (bridge.py _load_token).                 *)
(***************************************************************************)
EXTENDS BootstrapLog

CONSTANTS
    Short,          \* a token file that is empty or cut off
    Tries           \* how often a short file is read

ASSUME TokenAssumption == Short \notin Starts \cup {None} /\ Tries \in Nat \ {0}

VARIABLES
    tokenFile,      \* whose token the file holds
    token,          \* the token each process requires of its clients
    tries,          \* reads of a short file
    port            \* the process that listens

startVars == <<tokenFile, token, tries, port>>
vars == <<captureVars, startVars>>

Init ==
    /\ CaptureInit
    /\ at = [p \in Starts |-> "off"]
    /\ tokenFile = None
    /\ token = [p \in Starts |-> None]
    /\ tries = [p \in Starts |-> 0]
    /\ port = None

logs == <<nameVars, content, work, steady>>

-----------------------------------------------------------------------------
Start(p) == at[p] = "off" /\ To(p, "token") /\ UNCHANGED <<logs, faults, startVars>>

(* Mutant of MakeToken: the file is opened for writing whether it is there *)
(* or not.                                                                 *)
MakeTokenAnew(p) ==
    /\ at[p] = "token"
    /\ tokenFile' = Short /\ Well /\ To(p, "write")
    /\ UNCHANGED <<logs, token, tries, port>>

(* path.open("x"): the first process makes the file, the others read it.   *)
MakeToken(p) ==
    /\ at[p] = "token"
    /\ \/ tokenFile = None /\ tokenFile' = Short /\ Well /\ To(p, "write")
       \/ tokenFile # None /\ Well /\ To(p, "read token") /\ UNCHANGED tokenFile
       \/ Faulty /\ To(p, "look") /\ UNCHANGED tokenFile
    /\ UNCHANGED <<logs, token, tries, port>>

(* The write may fail, and leaves the file short.                          *)
WriteToken(p) ==
    /\ at[p] = "write"
    /\ \/ /\ tokenFile' = p /\ token' = [token EXCEPT ![p] = p]
          /\ Well /\ To(p, "bind")
       \/ Faulty /\ To(p, "look") /\ UNCHANGED <<tokenFile, token>>
    /\ UNCHANGED <<logs, tries, port>>

(* Mutant of ReadToken: the attempts are not counted.                      *)
ReadTokenForever(p) ==
    /\ at[p] = "read token"
    /\ \/ /\ tokenFile # Short /\ Well
          /\ token' = [token EXCEPT ![p] = tokenFile]
          /\ at' = [at EXCEPT ![p] = "bind"]
       \/ tokenFile = Short /\ Well /\ UNCHANGED <<at, token>>
    /\ UNCHANGED <<logs, tokenFile, tries, port>>

(* Mutant of ReadToken: one attempt too many.                              *)
ReadTokenOnceMore(p) ==
    /\ at[p] = "read token"
    /\ \/ /\ tokenFile # Short /\ Well
          /\ token' = [token EXCEPT ![p] = tokenFile]
          /\ at' = [at EXCEPT ![p] = "bind"] /\ UNCHANGED tries
       \/ /\ (tokenFile = Short /\ Well) \/ Faulty
          /\ tries' = [tries EXCEPT ![p] = IF @ = Tries THEN 0 ELSE @ + 1]
          /\ at' = [at EXCEPT ![p] = IF tries[p] = Tries THEN "look" ELSE @]
          /\ UNCHANGED token
    /\ UNCHANGED <<logs, tokenFile, port>>

(* A short file is read again and again while its maker may be writing it, *)
(* and then the start fails.  A read that fails is one more attempt.       *)
ReadToken(p) ==
    /\ at[p] = "read token"
    /\ \/ /\ tokenFile # Short /\ Well
          /\ token' = [token EXCEPT ![p] = tokenFile]
          /\ at' = [at EXCEPT ![p] = "bind"] /\ UNCHANGED tries
       \/ /\ (tokenFile = Short /\ Well) \/ Faulty
          /\ tries' = [tries EXCEPT ![p] = IF @ + 1 = Tries THEN 0 ELSE @ + 1]
          /\ at' = [at EXCEPT ![p] = IF tries[p] + 1 = Tries THEN "look" ELSE @]
          /\ UNCHANGED token
    /\ UNCHANGED <<logs, tokenFile, port>>

(* _Server binds the port: one process at a time.                          *)
Bind(p) ==
    /\ at[p] = "bind"
    /\ \/ port = None /\ port' = p /\ Well /\ To(p, "serving")
       \/ port # None /\ Well /\ To(p, "look") /\ UNCHANGED port
       \/ Faulty /\ To(p, "look") /\ UNCHANGED port
    /\ UNCHANGED <<logs, tokenFile, token, tries>>

(* GIMP quits and the port is free again.                                  *)
Quit(p) ==
    /\ at[p] = "serving"
    /\ To(p, "quit")
    /\ port' = None
    /\ UNCHANGED <<logs, faults, tokenFile, token, tries>>

Kill(p) ==
    /\ at[p] \in CapturePoints \cup {"token", "write", "read token", "bind", "serving"}
    /\ kills < MaxKills /\ kills' = kills + 1
    /\ at' = [at EXCEPT ![p] = "killed"]
    /\ port' = IF port = p THEN None ELSE port
    /\ work' = [work EXCEPT ![p] = Rested]
    /\ UNCHANGED <<nameVars, content, faults, alone, earlier, tokenFile, token, tries>>

StartStep(p) ==
    \/ MakeToken(p) \/ WriteToken(p) \/ ReadToken(p) \/ Bind(p)
    \/ CaptureStep(p) /\ UNCHANGED startVars

Next == \E p \in Starts : Start(p) \/ StartStep(p) \/ Quit(p) \/ Kill(p)

(* The operating system runs every process that is started.                *)
Fairness == \A p \in Starts : WF_vars(StartStep(p))

Spec == Init /\ [][Next]_vars
FairSpec == Spec /\ Fairness

-----------------------------------------------------------------------------
(* The type of a start and of its capture.                                 *)
StartTypeOK ==
    /\ at \in [Starts -> CapturePoints \cup {"off", "token", "write", "read token", "bind",
                                             "serving", "quit", "failed", "killed"}]
    /\ tokenFile \in Starts \cup {None, Short}
    /\ token \in [Starts -> Starts \cup {None}]
    /\ tries \in [Starts -> 0..(Tries - 1)]
    /\ port \in Starts \cup {None}

TypeOK == CaptureTypeOK /\ StartTypeOK

(* README.md: plug-in and client share a per-user token.  The process that *)
(* serves requires the token that is in the file, whoever wrote it, so a   *)
(* client that reads the file at any time is let in.                       *)
TokenShared == \A p \in Starts : at[p] = "serving" => port = p /\ token[p] = tokenFile

(* A start ends: it serves, or it fails, also when the token file was left *)
(* short by a process that was killed.                                     *)
EveryStartEnds ==
    \A p \in Starts : at[p] = "token" ~> at[p] \in {"serving", "quit", "failed", "killed"}
===============================================================================
