----------------------------- MODULE ExportPreview -----------------------------
(***************************************************************************)
(* The command gimp.export_preview (dcc_mcp_gimp.py                        *)
(* _export_preview_checked) among the other commands of ImageCommands.     *)
(*                                                                         *)
(* It duplicates an image, scales and saves the duplicate into a private   *)
(* directory beside the destination, cleans up in GIMP, checks that the    *)
(* source is what it was, and only then links or moves the file to its     *)
(* destination.  Meanwhile the artist may change images, undo changes, and *)
(* another program may create the destination.                             *)
(***************************************************************************)
EXTENDS ImageCommands, Sequences

VARIABLES
    target,         \* what is at the destination
    staging,        \* the private directory of the last preview
    context,        \* the stack of interpolation settings, the active one last
    interpolation,  \* the setting to come back to
    pushed,         \* a context was pushed
    faults,         \* native_error and cleanup_error
    published,      \* published
    drift,          \* the source is not in the state of the first fingerprint
    picture,        \* drift when the source was duplicated
    swings,         \* history: the changes of the artist since that fingerprint
    start           \* history: the stack when the preview began

previewVars == <<target, staging, context, interpolation, pushed, faults, published, drift,
                 picture, swings, start>>
vars == <<storeVars, commandVars, previewVars>>

Previews == {"export_preview"}
Active == context[Len(context)]
Activate(v) == [context EXCEPT ![Len(context)] = v]

Init ==
    /\ CommandInit
    /\ target \in {"free", "foreign"}
    /\ staging = "none"
    /\ context = <<"user">> /\ start = context
    /\ interpolation = "user"
    /\ pushed = FALSE /\ faults = {} /\ published = FALSE
    /\ drift = FALSE /\ picture = FALSE /\ swings = 0

Previewed == pc = "idle" /\ cmd.op = "export_preview"
fileVars == <<target, staging>>
contextVars == <<context, interpolation, pushed>>
sourceVars == <<drift, picture, swings, start>>
unmoved == <<item, inserted, wrote, excused, frame>>

-----------------------------------------------------------------------------
(* The parameters, the destination and the source are checked; then the    *)
(* first fingerprint of the source and the setting of the context.         *)
Admit ==
    /\ pc = "admit"
    /\ \/ /\ Alive /\ (target # "free" => cmd.consent)
          /\ Go("stage")
          /\ drift' = FALSE /\ picture' = FALSE /\ swings' = 0
          /\ interpolation' = Active /\ start' = context
       \/ Report({"refused"}) /\ UNCHANGED <<sourceVars, interpolation>>
    /\ staging' = "none" /\ pushed' = FALSE /\ faults' = {} /\ published' = FALSE
    /\ UNCHANGED <<storeVars, made, unmoved, target, context>>

(* mkdtemp, and the descriptors of the directory and its parent.           *)
Stage ==
    /\ pc = "stage"
    /\ \/ staging' = "dir" /\ Go("push")
       \/ staging' = "dir" /\ pc' = "sweep" /\ told' = {"stage"}
       \/ staging' = "none" /\ Report({"stage"})
    /\ UNCHANGED <<storeVars, made, unmoved, target, contextVars, faults, published, sourceVars>>

Native(p) == pc' = p /\ faults' = faults \cup {"native"} /\ told' = told
Onward(p) == Go(p) /\ UNCHANGED faults

PushContext ==
    /\ pc = "push"
    /\ \/ context' = Append(context, Active) /\ pushed' = TRUE /\ Onward("nohalo")
       \/ UNCHANGED <<context, pushed>> /\ Native("release")
    /\ UNCHANGED <<storeVars, made, unmoved, fileVars, interpolation, published, sourceVars>>

(* context_set_interpolation, read back.                                   *)
SelectNoHalo ==
    /\ pc = "nohalo"
    /\ \/ context' = Activate("nohalo") /\ Onward("duplicate")
       \/ context' \in {context, Activate("nohalo")} /\ Native("release")
    /\ UNCHANGED <<storeVars, made, unmoved, fileVars, interpolation, pushed, published,
                   sourceVars>>

Duplicate ==
    /\ pc = "duplicate"
    /\ \/ /\ Alive /\ CanMakeImage
          /\ made' = NextImage /\ image' = NewImage
          /\ picture' = drift
          /\ Onward("render")
       \/ UNCHANGED <<made, image, picture>> /\ Native("release")
    /\ UNCHANGED <<layer, owned, unmoved, fileVars, contextVars, published, drift, swings, start>>

(* The duplicate is scaled and saved, and the file is checked.             *)
Render ==
    /\ pc = "render"
    /\ \/ staging' = "file" /\ Onward("release")
       \/ staging' \in {"dir", "file"} /\ Native("release")
    /\ UNCHANGED <<storeVars, made, unmoved, target, contextVars, published, sourceVars>>

(* The finally clause: delete the duplicate, pop the context, and compare  *)
(* the setting; each of them is tried whatever the others did.             *)
Uncleaned(p) == pc' = p /\ faults' = faults \cup {"cleanup"} /\ told' = told

ReleaseDuplicate ==
    /\ pc = "release"
    /\ \/ made = 0 /\ Onward("pop") /\ UNCHANGED <<image, layer>>
       \/ made # 0 /\ Deleted(made) /\ Onward("pop")
       \/ made # 0 /\ Uncleaned("pop") /\ UNCHANGED <<image, layer>>
    /\ UNCHANGED <<owned, made, unmoved, fileVars, contextVars, published, sourceVars>>

(* Mutant of PopContext: pushed is not looked at.                          *)
PopAlways ==
    /\ pc = "pop"
    /\ \/ context' = SubSeq(context, 1, Len(context) - 1) /\ Onward("compare")
       \/ Uncleaned("compare") /\ UNCHANGED context
    /\ UNCHANGED <<storeVars, made, unmoved, fileVars, interpolation, pushed, published,
                   sourceVars>>

PopContext ==
    /\ pc = "pop"
    /\ \/ ~pushed /\ Onward("compare") /\ UNCHANGED context
       \/ pushed /\ context' = SubSeq(context, 1, Len(context) - 1) /\ Onward("compare")
       \/ pushed /\ Uncleaned("compare") /\ UNCHANGED context
    /\ UNCHANGED <<storeVars, made, unmoved, fileVars, interpolation, pushed, published,
                   sourceVars>>

CompareSetting ==
    /\ pc = "compare"
    /\ \/ Active = interpolation /\ Onward("verify") /\ UNCHANGED context
       \/ /\ Active # interpolation /\ Uncleaned("verify")
          /\ context' = Activate(interpolation)
       \/ Uncleaned("verify") /\ UNCHANGED context
    /\ UNCHANGED <<storeVars, made, unmoved, fileVars, interpolation, pushed, published,
                   sourceVars>>

(* Mutant of Verify: a failed cleanup does not stop the publication.       *)
VerifyIgnoringCleanup ==
    /\ pc = "verify"
    /\ \/ "native" \in faults /\ pc' = "sweep" /\ told' = {"native"}
       \/ /\ "native" \notin faults
          /\ pc' = "sweep" /\ told' = {"changed"}
       \/ /\ "native" \notin faults /\ Alive /\ ~drift /\ (target # "free" => cmd.consent)
          /\ Go("publish")
    /\ UNCHANGED <<storeVars, made, unmoved, previewVars>>

(* Mutant of Verify: the second fingerprint is not compared.               *)
VerifyOnce ==
    /\ pc = "verify"
    /\ \/ "cleanup" \in faults /\ pc' = "sweep" /\ told' = {"cleanup"}
       \/ faults = {"native"} /\ pc' = "sweep" /\ told' = {"native"}
       \/ faults = {} /\ pc' = "sweep" /\ told' = {"changed"}
       \/ faults = {} /\ Alive /\ (target # "free" => cmd.consent) /\ Go("publish")
    /\ UNCHANGED <<storeVars, made, unmoved, previewVars>>

(* Nothing failed, the source has its first fingerprint again, and the     *)
(* destination is still allowed; any of the checks may itself fail.        *)
Verify ==
    /\ pc = "verify"
    /\ \/ "cleanup" \in faults /\ pc' = "sweep" /\ told' = {"cleanup"}
       \/ faults = {"native"} /\ pc' = "sweep" /\ told' = {"native"}
       \/ faults = {} /\ pc' = "sweep" /\ told' = {"changed"}
       \/ faults = {} /\ Alive /\ ~drift /\ (target # "free" => cmd.consent) /\ Go("publish")
    /\ UNCHANGED <<storeVars, made, unmoved, previewVars>>

(* Mutant of Publish: the file is moved, whatever is there.                *)
PublishByReplace ==
    /\ pc = "publish" /\ pc' = "sweep"
    /\ \/ /\ target' = "picture" /\ staging' = "dir"
          /\ published' = TRUE /\ told' = told
       \/ told' = {"publish"} /\ UNCHANGED <<fileVars, published>>
    /\ UNCHANGED <<storeVars, made, unmoved, contextVars, faults, sourceVars>>

(* Mutant of Publish: published is set before the file is linked.          *)
PublishClaimedFirst ==
    /\ pc = "publish" /\ pc' = "sweep"
    /\ published' = TRUE
    /\ \/ /\ target' = "picture" /\ told' = told
          /\ \/ cmd.consent /\ staging' = "dir"
             \/ ~cmd.consent /\ target = "free" /\ UNCHANGED staging
       \/ told' = {"publish"} /\ UNCHANGED fileVars
    /\ UNCHANGED <<storeVars, made, unmoved, contextVars, faults, sourceVars>>

(* os.replace, or os.link, which fails when the destination exists.        *)
Publish ==
    /\ pc = "publish" /\ pc' = "sweep"
    /\ \/ /\ target' = "picture" /\ published' = TRUE /\ told' = told
          /\ \/ cmd.consent /\ staging' = "dir"
             \/ ~cmd.consent /\ target = "free" /\ UNCHANGED staging
       \/ told' = {"publish"} /\ UNCHANGED <<fileVars, published>>
    /\ UNCHANGED <<storeVars, made, unmoved, contextVars, faults, sourceVars>>

(* The outer finally clause: the staged file and its directory go.  Its    *)
(* own failure replaces whatever was to be reported.                       *)
Sweep ==
    /\ pc = "sweep" /\ pc' = "idle"
    /\ \/ staging' = "none" /\ told' = IF told = {} THEN {"ok"} ELSE told
       \/ staging' \in {"dir", staging}
          /\ told' = IF published THEN {"publishedUnswept"} ELSE {"unswept"}
    /\ drift' = FALSE /\ picture' = FALSE /\ swings' = 0
    /\ pushed' = FALSE /\ faults' = {}
    /\ UNCHANGED <<storeVars, made, unmoved, target, context, interpolation, published, start>>

-----------------------------------------------------------------------------
(* The artist changes the source, or undoes what was changed; opening and  *)
(* closing another image changes the order of images, which is part of the *)
(* fingerprint.                                                            *)
ArtistMoves(i) ==
    /\ Artist(i)
    /\ IF Previewed \/ cmd.op # "export_preview" THEN UNCHANGED <<drift, swings>>
       ELSE /\ drift' \in IF i = cmd.on /\ image'[i].open THEN BOOLEAN
                          ELSE {drift \/ ~image'[i].open}
            /\ swings' = swings + 1
    /\ UNCHANGED <<fileVars, contextVars, faults, published, picture, start>>

(* Another program writes a file of its own at the destination.            *)
Outsider ==
    /\ target # "foreign" /\ count.changes < MaxChanges
    /\ count' = [count EXCEPT !.changes = @ + 1]
    /\ target' = "foreign"
    /\ UNCHANGED <<storeVars, cmd, pc, made, item, inserted, wrote, told, excused, staging,
                   contextVars, faults, published, sourceVars>>

PreviewStep ==
    \/ Admit \/ Stage \/ PushContext \/ SelectNoHalo \/ Duplicate \/ Render
    \/ ReleaseDuplicate \/ PopContext \/ CompareSetting \/ Verify \/ Publish \/ Sweep

Next ==
    \/ (Arrive(Commands \cup Previews) \/ CommandStep) /\ UNCHANGED previewVars
    \/ PreviewStep
    \/ \E i \in Images : ArtistMoves(i)
    \/ Outsider

Spec == Init /\ [][Next]_vars

-----------------------------------------------------------------------------
TypeOK ==
    /\ CommandTypeOK
    /\ target \in {"free", "foreign", "picture"}
    /\ staging \in {"none", "dir", "file"}
    /\ context \in Seq({"user", "nohalo"}) /\ Len(context) \in 1..MaxCommands + 1
    /\ interpolation \in {"user", "nohalo"}
    /\ faults \subseteq {"native", "cleanup"}
    /\ {pushed, published, drift, picture} \subseteq BOOLEAN
    /\ swings \in 0..MaxChanges

(* README.md says what a failed staging cleanup reports: the caller of a   *)
(* preview can tell from the report whether the destination was written,   *)
(* and that a private directory was left beside it.                        *)
PreviewReportIsTrue ==
    Previewed /\ "refused" \notin told =>
        /\ published <=> told \cap {"ok", "publishedUnswept"} # {}
        /\ staging # "none" => told \cap {"unswept", "publishedUnswept"} # {}

(* Without overwrite a preview replaces no file, not even one that appears *)
(* at the last moment.                                                     *)
NeverReplacedUnasked ==
    [][target = "foreign" /\ target' = "picture" => cmd.consent]_vars

(* A preview is published only when GIMP is as it was found: the duplicate *)
(* is deleted, and the stack of contexts is the one the command met.       *)
PublishedAfterCleanup ==
    [][pc = "publish" /\ target' # target =>
        context = start /\ made \notin Open]_vars

(* A published picture shows the fingerprinted source, unless the artist   *)
(* changed it and undid the change around the duplication.                 *)
PictureIsOfTheSource ==
    [][pc = "publish" /\ published' => ~picture \/ swings > 1]_vars
===============================================================================
