------------------------------ MODULE PaintShape ------------------------------
(***************************************************************************)
(* The command gimp.paint_shape (dcc_mcp_gimp.py _paint_shape and          *)
(* _push_shape_context), called again and again on one image.              *)
(*                                                                         *)
(* The command borrows two things of the artist: the selection, which it   *)
(* replaces by the shape, and the paint context, which it overrides.  Both *)
(* are saved in GIMP itself, in a channel of the image and on the stack of *)
(* contexts.  Every call into GIMP may fail, by returning false or by      *)
(* raising, in the painting as in the cleanup that follows it, and what a  *)
(* failed call leaves is what the next call starts from.                   *)
(*                                                                         *)
(* A selection is a mask: the artist's, the shape of some call, or the     *)
(* remains of an inexact or broken restoration by some call.               *)
(***************************************************************************)
EXTENDS Naturals, Sequences

CONSTANTS
    MaxCalls,       \* bound: calls of the command
    UserMask,       \* the mask the artist selected
    NoMask          \* an absent channel

Calls == 1..MaxCalls
Shape(k) == <<k, "shape">>
Spoiled(k) == <<k, "spoiled">>
Masks == {UserMask} \cup {Shape(k) : k \in Calls} \cup {Spoiled(k) : k \in Calls}

ASSUME BoundAssumption == MaxCalls \in Nat
ASSUME MasksAssumption == NoMask \notin Masks

VARIABLES
    selection,      \* the mask selected in the image
    channel,        \* channel[k]: the mask in the channel saved by call k
    context,        \* the stack of paint contexts, the active one last
    painted,        \* the pixels of the last call are changed
    call,           \* the number of calls
    feather,        \* the shape of the last call is feathered
    pc,             \* where the last call is
    told,           \* the parts of its report
    original,       \* history: the mask selected when each call began
    start           \* history: the stack when the last call began

vars == <<selection, channel, context, painted, call, feather, pc, told, original, start>>

(* What selecting and filling depend on; the last field stands for opacity *)
(* and foreground.                                                         *)
Settings == [feather : BOOLEAN, antialias : BOOLEAN, paint : {"user", "shape"}]

(* "ok" is the result; the others are the errors, the ones that are joined *)
(* into one message included.  Only "refused", "unsaved" and "unpushed"    *)
(* say that the shape was not painted.  "recovery", "left" and "unused"    *)
(* name the saved channel; "raised" is the exception of its removal, which *)
(* does not.                                                               *)
Reports == {"ok", "refused", "unsaved", "unpushed", "unused", "shape", "recovery", "left",
            "raised", "context", "flush"}
AboutChannel == {"recovery", "left", "raised", "unused"}
Points == {"idle", "save", "push", "release", "configure", "select", "colour", "fill",
           "exact", "restore", "remove", "pop", "flush"}

Init ==
    /\ selection = UserMask
    /\ channel = [k \in Calls |-> NoMask]
    /\ context \in {<<[feather |-> f, antialias |-> a, paint |-> "user"]>> :
                       f \in BOOLEAN, a \in BOOLEAN}
    /\ painted = FALSE
    /\ call = 0
    /\ feather = FALSE
    /\ pc = "idle"
    /\ told = {}
    /\ original = [k \in Calls |-> UserMask]
    /\ start = context

Active == context[Len(context)]
Activate(s) == context' = [context EXCEPT ![Len(context)] = s]
KeepMask(m) == channel' = [channel EXCEPT ![call] = m]

(* The end of a step: to the next point, or to another one with an error.  *)
Go(p) == pc' = p /\ told' = told
Fail(error, p) == pc' = p /\ told' = told \cup {error}

historyVars == <<call, feather, original, start>>

-----------------------------------------------------------------------------
(* A call arrives.  It is refused for its parameters, a group or a locked  *)
(* layer before anything is touched, or begins.                            *)
Arrive ==
    /\ pc = "idle" /\ call < MaxCalls
    /\ call' = call + 1
    /\ feather' \in BOOLEAN
    /\ painted' = FALSE
    /\ original' = [original EXCEPT ![call + 1] = selection]
    /\ start' = context
    /\ \/ pc' = "save" /\ told' = {}
       \/ pc' = "idle" /\ told' = {"refused"}
    /\ UNCHANGED <<selection, channel, context>>

(* Gimp.Selection.save *)
SaveSelection ==
    /\ pc = "save"
    /\ \/ KeepMask(selection) /\ Go("push")
       \/ UNCHANGED channel /\ Fail("unsaved", "idle")
    /\ UNCHANGED <<selection, context, painted, historyVars>>

(* Mutant of PushContext: a failed push takes the way of the finally       *)
(* clause, as if pushed were not looked at.                                *)
PushThenCleanUp ==
    /\ pc = "push"
    /\ \/ context' = Append(context, Active) /\ Go("configure")
       \/ UNCHANGED context /\ Fail("unpushed", "exact")
    /\ UNCHANGED <<selection, channel, painted, historyVars>>

(* Gimp.context_push: the copy on top of the stack becomes the active one. *)
PushContext ==
    /\ pc = "push"
    /\ \/ context' = Append(context, Active) /\ Go("configure")
       \/ UNCHANGED context /\ Fail("unpushed", "release")
    /\ UNCHANGED <<selection, channel, painted, historyVars>>

(* _push_shape_context releases the channel that nobody needs.             *)
ReleaseUnused ==
    /\ pc = "release"
    /\ \/ KeepMask(NoMask) /\ Go("idle")
       \/ UNCHANGED channel /\ Fail("unused", "idle")
    /\ UNCHANGED <<selection, context, painted, historyVars>>

(* The four settings are tried before any of them is looked at, unless one *)
(* raises: a failure leaves some of them made.                             *)
Configure ==
    /\ pc = "configure"
    /\ LET wanted == [feather |-> feather, antialias |-> TRUE, paint |-> "shape"]
       IN  \/ Activate(wanted) /\ Go("select")
           \/ \E f \in {Active.feather, wanted.feather},
                 a \in {Active.antialias, wanted.antialias},
                 p \in {Active.paint, wanted.paint} :
                 /\ Activate([feather |-> f, antialias |-> a, paint |-> p])
                 /\ Fail("shape", "exact")
    /\ UNCHANGED <<selection, channel, painted, historyVars>>

(* image.select_polygon, select_ellipse or select_rectangle, REPLACE       *)
SelectShape ==
    /\ pc = "select"
    /\ \/ selection' = Shape(call) /\ Go("colour")
       \/ selection' \in {selection, Shape(call)} /\ Fail("shape", "exact")
    /\ UNCHANGED <<channel, context, painted, historyVars>>

(* Gimp.context_set_foreground *)
SetForeground ==
    /\ pc = "colour"
    /\ \/ Activate([Active EXCEPT !.paint = "shape"]) /\ Go("fill")
       \/ UNCHANGED context /\ Fail("shape", "exact")
    /\ UNCHANGED <<selection, channel, painted, historyVars>>

(* Mutant of Fill: a failed fill is not an error.                          *)
FillUnchecked ==
    /\ pc = "fill"
    /\ painted' \in BOOLEAN
    /\ Go("exact")
    /\ UNCHANGED <<selection, channel, context, historyVars>>

(* layer.edit_fill; of a failed one nobody knows what it painted.          *)
Fill ==
    /\ pc = "fill"
    /\ \/ painted' = TRUE /\ Go("exact")
       \/ painted' \in BOOLEAN /\ Fail("shape", "exact")
    /\ UNCHANGED <<selection, channel, context, historyVars>>

(* Mutant of MakeExact: the restoration is tried under the settings of the *)
(* shape when they cannot be switched off.                                 *)
MakeExactOrTry ==
    /\ pc = "exact"
    /\ \E f \in {Active.feather, FALSE}, a \in {Active.antialias, FALSE} :
          Activate([Active EXCEPT !.feather = f, !.antialias = a])
    /\ Go("restore")
    /\ UNCHANGED <<selection, channel, painted, historyVars>>

(* From here on it is the finally clause.  The saved mask would be blurred *)
(* by a restoration under the settings of the shape: both are switched off *)
(* first, and without both the restoration is not tried.                   *)
MakeExact ==
    /\ pc = "exact"
    /\ \/ /\ Activate([Active EXCEPT !.feather = FALSE, !.antialias = FALSE])
          /\ Go("restore")
       \/ \E f \in {Active.feather, FALSE}, a \in {Active.antialias, FALSE} :
             /\ Activate([Active EXCEPT !.feather = f, !.antialias = a])
             /\ Fail("recovery", "pop")
    /\ UNCHANGED <<selection, channel, painted, historyVars>>

(* image.select_item(REPLACE, saved_selection) selects under the active    *)
(* context; a failed one may leave any selection.                          *)
Selected(mask) ==
    IF Active.feather \/ Active.antialias THEN Spoiled(call) ELSE mask

(* Mutant of RestoreSelection: the channel is removed though GIMP did not  *)
(* confirm the restoration.                                                *)
RestoreUnconfirmed ==
    /\ pc = "restore"
    /\ \/ selection' = Selected(channel[call]) /\ Go("remove")
       \/ selection' \in {selection, Spoiled(call)} /\ Fail("recovery", "remove")
    /\ UNCHANGED <<channel, context, painted, historyVars>>

RestoreSelection ==
    /\ pc = "restore"
    /\ \/ selection' = Selected(channel[call]) /\ Go("remove")
       \/ selection' \in {selection, Spoiled(call)} /\ Fail("recovery", "pop")
    /\ UNCHANGED <<channel, context, painted, historyVars>>

(* image.remove_channel, only after a restoration that GIMP confirmed      *)
RemoveSaved ==
    /\ pc = "remove"
    /\ \/ KeepMask(NoMask) /\ Go("pop")
       \/ UNCHANGED channel /\ (Fail("left", "pop") \/ Fail("raised", "pop"))
    /\ UNCHANGED <<selection, context, painted, historyVars>>

(* Mutant of PopContext: a failed restoration ends the cleanup.            *)
PopAfterRestore ==
    /\ pc = "pop"
    /\ \/ /\ context' = IF "recovery" \in told THEN context
                          ELSE SubSeq(context, 1, Len(context) - 1)
          /\ Go(IF told = {} THEN "flush" ELSE "idle")
       \/ UNCHANGED context /\ Fail("context", "idle")
    /\ UNCHANGED <<selection, channel, painted, historyVars>>

(* Gimp.context_pop, whatever happened before; then the errors so far are  *)
(* raised together.                                                        *)
PopContext ==
    /\ pc = "pop"
    /\ \/ /\ context' = SubSeq(context, 1, Len(context) - 1)
          /\ Go(IF told = {} THEN "flush" ELSE "idle")
       \/ UNCHANGED context /\ Fail("context", "idle")
    /\ UNCHANGED <<selection, channel, painted, historyVars>>

(* Gimp.displays_flush may still raise.                                    *)
Flush ==
    /\ pc = "flush"
    /\ pc' = "idle"
    /\ told' \in {{"ok"}, {"flush"}}
    /\ UNCHANGED <<selection, channel, context, painted, historyVars>>

Next ==
    \/ Arrive
    \/ SaveSelection \/ PushContext \/ ReleaseUnused
    \/ Configure \/ SelectShape \/ SetForeground \/ Fill
    \/ MakeExact \/ RestoreSelection \/ RemoveSaved \/ PopContext \/ Flush

Spec == Init /\ [][Next]_vars

-----------------------------------------------------------------------------
TypeOK ==
    /\ selection \in Masks
    /\ channel \in [Calls -> Masks \cup {NoMask}]
    /\ context \in Seq(Settings) /\ context # <<>>
    /\ painted \in BOOLEAN
    /\ call \in 0..MaxCalls
    /\ feather \in BOOLEAN
    /\ pc \in Points
    /\ told \subseteq Reports
    /\ original \in [Calls -> Masks]
    /\ start \in Seq(Settings) /\ start # <<>>

(* No mask is ever lost: what was selected when a call began is selected,  *)
(* or in some channel of the image, at every moment of that call and of    *)
(* all later ones.  Restoration, its settings and the removal of the       *)
(* channel may fail in any call (1747-1775).                               *)
EveryMaskKept ==
    \A k \in 1..call :
       original[k] = selection \/ \E j \in Calls : channel[j] = original[k]

Returned == pc = "idle" /\ call > 0

(* A report that does not mention the selection means that it is the       *)
(* original one; a report that retains a channel for recovery means that   *)
(* this channel holds it; a channel stays in the image exactly if there is *)
(* an error about it (1660-1680, 1746-1775).                               *)
SelectionIsReported ==
    Returned =>
       /\ "recovery" \notin told => selection = original[call]
       /\ "recovery" \in told => channel[call] = original[call]
       /\ channel[call] # NoMask <=> told \cap AboutChannel # {}

(* Success means painted, with everything given back; "not painted" means  *)
(* that neither the pixels nor the selection changed (1711-1718, 1797).    *)
PaintIsReported ==
    Returned =>
       /\ "ok" \in told => /\ told = {"ok"} /\ painted
                           /\ selection = original[call] /\ channel[call] = NoMask
                           /\ context = start
       /\ told \cap {"refused", "unsaved", "unpushed"} # {} =>
             ~painted /\ selection = original[call]

(* No setting of a context that was there before the call is changed by    *)
(* it, and the stack is as high as before unless the report says so        *)
(* (1714-1730, 1776-1780).                                                 *)
ContextIsKept ==
    /\ Len(context) \geq Len(start)
    /\ \A i \in 1..Len(start) : context[i] = start[i]
    /\ Returned /\ "context" \notin told => Len(context) = Len(start)
===============================================================================
