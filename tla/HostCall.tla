------------------------------- MODULE HostCall -------------------------------
(***************************************************************************)
(* What the bridge promises about one remote call: the GIMP host runs the  *)
(* command at most once, one command at a time, and what the caller is     *)
(* told about it is true.                                                  *)
(*                                                                         *)
(*   - "done"    : the command ran to its end before the caller heard;     *)
(*   - "refused" : the command has not run and never will, so the caller   *)
(*                 may repeat it;                                          *)
(*   - "unknown" : nothing is promised (a timeout after the start, a lost  *)
(*                 connection, a host that stopped): the caller inspects   *)
(*                 the host before a retry.                                *)
(*                                                                         *)
(* BridgeDispatch implements this specification.                           *)
(***************************************************************************)
CONSTANT Requests

VARIABLES
    phase,      \* what the host did with the command of each call
    outcome     \* what the caller of each call was told

hostVars == <<phase, outcome>>

Phases == {"offered", "running", "done", "lost", "barred"}
Outcomes == {"none", "done", "refused", "unknown"}

HostInit ==
    /\ phase = [r \in Requests |-> "offered"]
    /\ outcome = [r \in Requests |-> "none"]

(* The main thread takes a command: one at a time, and never a barred one. *)
Begin(r) ==
    /\ phase[r] = "offered"
    /\ \A q \in Requests : phase[q] # "running"
    /\ phase' = [phase EXCEPT ![r] = "running"]
    /\ UNCHANGED outcome

Finish(r) ==
    /\ phase[r] = "running"
    /\ phase' = [phase EXCEPT ![r] = "done"]
    /\ UNCHANGED outcome

(* The bridge decides that a command that has not begun never will. *)
Bar(r) ==
    /\ phase[r] = "offered"
    /\ phase' = [phase EXCEPT ![r] = "barred"]
    /\ UNCHANGED outcome

(* The caller is told o, and o is true when it is told. *)
Return(r, o) ==
    /\ outcome[r] = "none"
    /\ o = "done" => phase[r] = "done"
    /\ o = "refused" => phase[r] = "barred"
    /\ outcome' = [outcome EXCEPT ![r] = o]
    /\ UNCHANGED phase

(* The host process ends: a running command is cut short and the callers   *)
(* in S lose their connections.                                            *)
HostEnds(S) ==
    /\ phase' = [r \in Requests |-> IF phase[r] = "running" THEN "lost" ELSE phase[r]]
    /\ \A r \in S : outcome[r] = "none"
    /\ outcome' = [r \in Requests |-> IF r \in S THEN "unknown" ELSE outcome[r]]

HostNext ==
    \/ \E r \in Requests :
        \/ Begin(r)
        \/ Finish(r)
        \/ Bar(r)
        \/ \E o \in Outcomes \ {"none"} : Return(r, o)
    \/ \E S \in SUBSET Requests : HostEnds(S)

HostSpec == HostInit /\ [][HostNext]_hostVars
===============================================================================
