----------------------------- MODULE ImageCommands -----------------------------
(***************************************************************************)
(* The commands of the plug-in that make, change, save, export and close   *)
(* images and layers (dcc_mcp_gimp.py _execute_command, _new_layer,        *)
(* _cleanup_new_layer).  The main thread runs one command at a time, call  *)
(* by call; any call into GIMP may fail by its result or by raising, and   *)
(* the artist may edit or close an image between two calls.                *)
(*                                                                         *)
(* `alter' stands for the commands that set something on a layer and have  *)
(* nothing to undo (fill_layer, set_layer_mode, set_layer_properties,      *)
(* set_active_layer).  The commands that only read are left out.           *)
(***************************************************************************)
EXTENDS ImageStore

CONSTANTS
    MaxCommands,    \* bound: commands
    MaxChanges      \* bound: what the artist does

ASSUME CommandsAssumption == MaxCommands \in Nat /\ MaxChanges \in Nat

VARIABLES
    cmd,            \* the last command: what, on which image, with consent or not
    pc,             \* where it is
    made,           \* the image it made
    item,           \* the layer it made
    inserted,       \* create_text: inserted
    wrote,          \* the last file_save wrote its file
    told,           \* its report: "ok", or what went wrong
    count,          \* commands and changes so far
    excused         \* history: images changed while they were saved or closed, or
                    \* whose save GIMP claimed and did not write

commandVars == <<cmd, pc, made, item, inserted, wrote, told, count, excused>>
commandStepVars == <<storeVars, commandVars>>

LayerMakers == {"create_layer", "create_group", "create_text", "import_layer"}
First(op) ==
    CASE op \in {"create_image", "open_image"} -> "image"
      [] op \in LayerMakers -> "layer"
      [] op = "place_layer" -> "place"
      [] op = "alter" -> "alter"
      [] op = "delete_layer" -> "remove"
      [] op = "flatten_image" -> "flatten"
      [] op \in {"save_image", "export_image"} -> "write"
      [] op = "export_layer" -> "isolate"
      [] op = "close_image" -> "close"
      [] op = "export_preview" -> "admit"
ImageMakers == {"create_image", "open_image"}
Commands == ImageMakers \cup LayerMakers \cup
            {"place_layer", "alter", "delete_layer", "flatten_image", "save_image",
             "export_image", "export_layer", "close_image"}

CommandInit ==
    /\ StoreInit
    /\ cmd = [op |-> "none", on |-> 0, consent |-> FALSE]
    /\ pc = "idle"
    /\ made = 0 /\ item = 0 /\ inserted = FALSE /\ wrote = FALSE
    /\ told = {}
    /\ count = [commands |-> 0, changes |-> 0]
    /\ excused = {}

Here == IF cmd.op \in ImageMakers THEN made ELSE cmd.on
Alive == image[Here].open
Groups == {l \in Tree(Here) : layer[l].group}

Go(p) == pc' = p /\ told' = told
Report(words) == pc' = "idle" /\ told' = told \cup words
Refuse == Report({"refused"}) /\ UNCHANGED storeVars

locals == <<made, item, inserted, wrote>>
frame == <<cmd, count>>

-----------------------------------------------------------------------------
(* A request reaches the main thread; _resolve_image finds its image.      *)
Arrive(ops) ==
    /\ pc = "idle" /\ count.commands < MaxCommands
    /\ count' = [count EXCEPT !.commands = @ + 1]
    /\ \E op \in ops, i \in {0} \cup Open, consent \in BOOLEAN :
        /\ i = 0 <=> op \in ImageMakers
        /\ cmd' = [op |-> op, on |-> i, consent |-> consent]
        /\ pc' = First(op)
    /\ told' = {}
    /\ made' = 0 /\ item' = 0 /\ inserted' = FALSE /\ wrote' = FALSE
    /\ UNCHANGED <<storeVars, excused>>

(* Gimp.Image.new, or file_load, which brings a layer along; both refuse   *)
(* bad parameters first.                                                   *)
MakeImage ==
    /\ pc = "image"
    /\ \/ /\ CanMakeImage
          /\ made' = NextImage
          /\ image' = NewImage
          /\ \/ cmd.op = "create_image" /\ Go("layer") /\ UNCHANGED layer
             \/ /\ cmd.op = "open_image" /\ CanMakeLayer
                /\ layer' = [layer EXCEPT ![NextLayer] =
                       [NoLayer EXCEPT !.of = NextImage, !.attached = TRUE, !.made = TRUE]]
                /\ Go("display")
       \/ Report({"image"}) /\ UNCHANGED <<image, layer, made>>
    /\ UNCHANGED <<owned, item, inserted, wrote, excused, frame>>

(* Gimp.Layer.new, GroupLayer.new, TextLayer.new or file_load_layer, after *)
(* the checks of the parameters.                                           *)
MakeLayer ==
    /\ pc = "layer"
    /\ \/ /\ Alive /\ CanMakeLayer
          /\ layer' = Allocated(Here, cmd.op = "create_group")
          /\ item' = NextLayer
          /\ Go(CASE cmd.op \in {"create_image", "create_layer"} -> "fill"
                  [] cmd.op \in {"create_text", "import_layer"} -> "name"
                  [] cmd.op = "create_group" -> "insert")
       \/ Report({"layer"}) /\ UNCHANGED <<layer, item>>
    /\ UNCHANGED <<image, owned, made, inserted, wrote, excused, frame>>

(* _new_layer fills the new layer; a failure leaves it as it is.           *)
FillNew ==
    /\ pc = "fill"
    /\ Go("insert") \/ Report({"fill"})
    /\ UNCHANGED <<storeVars, locals, excused, frame>>

(* A failing setup: _cleanup_new_layer takes over, or the layer is         *)
(* released where it stands; that call may fail as well, and a call that   *)
(* raised releases nothing.                                                *)
Abandon(word) ==
    \/ /\ cmd.op \in {"create_group", "create_text"}
       /\ pc' = "undo" /\ told' = told \cup {word}
       /\ UNCHANGED layer
    \/ /\ cmd.op \notin {"create_group", "create_text"}
       /\ Report({word})
       /\ layer' = Without({item}) \/ UNCHANGED layer

(* The size limit and the name of a text or an imported layer.             *)
NameNew ==
    /\ pc = "name"
    /\ \/ Go("insert") /\ UNCHANGED layer
       \/ Abandon("name")
    /\ UNCHANGED <<image, owned, locals, excused, frame>>

InsertNew ==
    /\ pc = "insert"
    /\ \/ /\ Alive
          /\ \E p \in {0} \cup (IF cmd.op \in {"create_image", "create_layer"} THEN {} ELSE Groups) :
                layer' = Attached(item, p)
          /\ image' = Changed(Here)
          /\ inserted' = (cmd.op = "create_text")
          /\ Go(CASE cmd.op \in {"create_image", "create_layer"} -> "select"
                  [] cmd.op = "create_text" -> "settle"
                  [] cmd.op \in {"create_group", "import_layer"} -> "flush")
       \/ Abandon("insert") /\ UNCHANGED <<image, inserted>>
    /\ UNCHANGED <<owned, made, item, wrote, excused, frame>>

(* set_offsets and set_color of a text that is in the tree.                *)
SettleText ==
    /\ pc = "settle"
    /\ \/ Alive /\ Go("flush")
       \/ Abandon("settle")
    /\ UNCHANGED <<image, owned, layer, locals, excused, frame>>

(* Mutant of Undo: the layer is always taken for one that is not inserted. *)
UndoDetached ==
    /\ pc = "undo"
    /\ \/ /\ ~layer[item].attached
          /\ layer' = Without({item}) /\ Report({})
       \/ Report({"cleanup"}) /\ UNCHANGED layer
       \/ layer[item].attached /\ Report({}) /\ UNCHANGED layer
    /\ UNCHANGED <<image, owned, locals, excused, frame>>

(* _cleanup_new_layer: remove_layer takes a layer out of the tree, delete  *)
(* releases a loose one.                                                   *)
Undo ==
    /\ pc = "undo"
    /\ \/ /\ inserted = layer[item].attached
          /\ layer' = Without({item}) /\ Report({})
       \/ Report({"cleanup"}) /\ UNCHANGED layer
    /\ UNCHANGED <<image, owned, locals, excused, frame>>

SelectNew ==
    /\ pc = "select"
    /\ \/ Alive /\ Go(IF cmd.op = "create_image" THEN "display" ELSE "flush")
       \/ Report({"select"})
    /\ UNCHANGED <<storeVars, locals, excused, frame>>

(* Display.new: without one the image is deleted again, if GIMP does; an   *)
(* exception deletes nothing.                                              *)
Display ==
    /\ pc = "display"
    /\ \/ /\ Alive
          /\ image' = [image EXCEPT ![made].shown = TRUE]
          /\ owned' = owned \cup {made}
          /\ Go("flush") /\ UNCHANGED layer
       \/ /\ Report({"display"})
          /\ Deleted(made) \/ UNCHANGED <<image, layer>>
          /\ UNCHANGED owned
    /\ UNCHANGED <<locals, excused, frame>>

(* displays_flush and the readback: _layer_info walks the whole tree, and  *)
(* import_layer reads its file again.                                      *)
Flush ==
    /\ pc = "flush"
    /\ \/ Report({"readback"})
       \/ /\ cmd.op \in LayerMakers \cup {"place_layer"} => ~WalkFails(Here)
          /\ Report({"ok"})
    /\ UNCHANGED <<storeVars, locals, excused, frame>>

-----------------------------------------------------------------------------
(* place_layer: reorder_item, then set_offsets.  GIMP takes no group below *)
(* itself.                                                                 *)
Place ==
    /\ pc = "place"
    /\ \/ /\ Alive
          /\ \E l \in Tree(Here), p \in {0} \cup Groups :
                p \notin Subtree(l) /\ layer' = Attached(l, p)
          /\ image' = Changed(Here)
          /\ Go("flush") \/ Report({"offsets"})
       \/ Report({"refused"}) /\ UNCHANGED <<image, layer>>
    /\ UNCHANGED <<owned, locals, excused, frame>>

(* Each call sets one property; a later one may fail.                      *)
Alter ==
    /\ pc = "alter"
    /\ \/ Alive /\ image' = Changed(Here) /\ (Go("alter") \/ Go("flush"))
       \/ Report({"alter"}) /\ UNCHANGED image
    /\ UNCHANGED <<layer, owned, locals, excused, frame>>

(* delete_layer counts the nodes of the tree, and removes a layer with all *)
(* that is below it.                                                       *)
Remove ==
    /\ pc = "remove"
    /\ \/ /\ Alive /\ Cardinality(Tree(Here)) > 1 /\ ~WalkFails(Here)
          /\ \E l \in Tree(Here) : layer' = Without(Subtree(l))
          /\ image' = Changed(Here)
          /\ Go("flush")
       \/ Refuse
    /\ UNCHANGED <<owned, locals, excused, frame>>

Flatten ==
    /\ pc = "flatten"
    /\ \/ /\ cmd.consent /\ Alive /\ CanMakeLayer
          /\ item' = NextLayer
          /\ layer' = [l \in Layers |->
                CASE l = NextLayer -> [NoLayer EXCEPT !.of = Here, !.attached = TRUE, !.made = TRUE]
                  [] l \in Tree(Here) -> [NoLayer EXCEPT !.made = TRUE]
                  [] OTHER -> layer[l]]
          /\ image' = Changed(Here)
          /\ Go("flush")
       \/ Report({"refused"}) /\ UNCHANGED <<image, layer, item>>
    /\ UNCHANGED <<owned, made, inserted, wrote, excused, frame>>

-----------------------------------------------------------------------------
(* save_image and export_image: _output_path, then Gimp.file_save, which   *)
(* may claim success and write no file.                                    *)
Write ==
    /\ pc = "write"
    /\ \/ Refuse /\ UNCHANGED <<wrote, excused>>
       \/ /\ Alive
          /\ wrote' \in BOOLEAN
          /\ excused' = IF wrote' THEN excused ELSE excused \cup {Here}
          /\ image' = IF wrote' /\ cmd.op = "save_image"
                      THEN [image EXCEPT ![Here].unsaved = FALSE] ELSE image
          /\ UNCHANGED <<layer, owned>>
          /\ Go(IF cmd.op = "save_image" THEN "clean" ELSE "artifact")
    /\ UNCHANGED <<made, item, inserted, frame>>

(* image.clean_all comes before the check of the artifact; its result is   *)
(* not looked at.                                                          *)
CleanAll ==
    /\ pc = "clean"
    /\ \/ Alive /\ image' = [image EXCEPT ![Here].dirty = FALSE] /\ Go("artifact")
       \/ Go("artifact") /\ UNCHANGED image
       \/ Report({"clean"}) /\ UNCHANGED image
    /\ UNCHANGED <<layer, owned, locals, excused, frame>>

(* A file from before that is to be replaced passes the check as a new one *)
(* does.                                                                   *)
CheckArtifact ==
    /\ pc = "artifact"
    /\ \/ (wrote \/ cmd.consent) /\ Report({"ok"})
       \/ Report({"artifact"})
    /\ UNCHANGED <<storeVars, locals, excused, frame>>

-----------------------------------------------------------------------------
(* export_layer copies the layer into an image of its own.                 *)
Isolate ==
    /\ pc = "isolate"
    /\ \/ /\ Alive /\ CanMakeImage
          /\ made' = NextImage /\ image' = NewImage
          /\ Go("copy") /\ UNCHANGED <<layer, owned>>
       \/ Refuse /\ UNCHANGED made
    /\ UNCHANGED <<item, inserted, wrote, excused, frame>>

(* The copy, the file and its checks; the copied layer goes with its image.*)
CopyAndSave ==
    /\ pc = "copy"
    /\ pc' = "drop" /\ (told' = told \/ told' = told \cup {"copy"})
    /\ UNCHANGED <<storeVars, locals, excused, frame>>

(* finally: isolated.delete(), whose result is not looked at; an exception *)
(* takes the place of the result.                                          *)
DropIsolated ==
    /\ pc = "drop"
    /\ \/ /\ Report(IF told = {} THEN {"ok"} ELSE {})
          /\ Deleted(made) \/ (UNCHANGED <<image, layer>> /\ image[made].open)
       \/ Report({"drop"}) /\ UNCHANGED <<image, layer>>
    /\ UNCHANGED <<owned, locals, excused, frame>>

-----------------------------------------------------------------------------
(* Mutant of Close: the dirty flag is not looked at.                       *)
CloseUnasked ==
    /\ pc = "close"
    /\ \/ Here \in owned /\ Go("shut")
       \/ Report({"refused"})
    /\ UNCHANGED <<storeVars, locals, excused, frame>>

(* close_image: only an owned display, and a dirty image only on demand.   *)
Close ==
    /\ pc = "close"
    /\ \/ Here \in owned /\ (image[Here].dirty => cmd.consent) /\ Go("shut")
       \/ Report({"refused"})
    /\ UNCHANGED <<storeVars, locals, excused, frame>>

(* Mutant of Shut: the display is forgotten before it is deleted.          *)
ShutForgetting ==
    /\ pc = "shut"
    /\ owned' = owned \ {Here}
    /\ \/ Alive /\ Deleted(Here) /\ Report({"ok"})
       \/ Report({"shut"}) /\ UNCHANGED <<image, layer>>
    /\ UNCHANGED <<locals, excused, frame>>

(* display.delete(): the image goes with its last display.                 *)
Shut ==
    /\ pc = "shut"
    /\ \/ Alive /\ Deleted(Here) /\ owned' = owned \ {Here} /\ Report({"ok"})
       \/ Report({"shut"}) /\ UNCHANGED storeVars
    /\ UNCHANGED <<locals, excused, frame>>

-----------------------------------------------------------------------------
(* The artist paints on an image or closes it.                             *)
Artist(i) ==
    /\ image[i].open /\ image[i].shown /\ count.changes < MaxChanges
    /\ count' = [count EXCEPT !.changes = @ + 1]
    /\ \/ image' = Changed(i) /\ UNCHANGED layer
       \/ Deleted(i)
    /\ excused' = IF pc # "idle" /\ cmd.op \in {"save_image", "close_image"} /\ i = cmd.on
                  THEN excused \cup {i} ELSE excused
    /\ UNCHANGED <<owned, cmd, pc, made, item, inserted, wrote, told>>

CommandStep ==
    \/ MakeImage \/ MakeLayer \/ FillNew \/ NameNew \/ InsertNew \/ SettleText \/ Undo
    \/ SelectNew \/ Display \/ Flush \/ Place \/ Alter \/ Remove \/ Flatten
    \/ Write \/ CleanAll \/ CheckArtifact \/ Isolate \/ CopyAndSave \/ DropIsolated
    \/ Close \/ Shut

CommandNext == Arrive(Commands) \/ CommandStep \/ \E i \in Images : Artist(i)

CommandSpec == CommandInit /\ [][CommandNext]_commandStepVars

-----------------------------------------------------------------------------
CommandTypeOK ==
    /\ StoreTypeOK
    /\ cmd \in [op : Commands \cup {"none", "export_preview"}, on : {0} \cup Images,
                consent : BOOLEAN]
    /\ made \in {0} \cup Images /\ item \in {0} \cup Layers
    /\ inserted \in BOOLEAN /\ wrote \in BOOLEAN
    /\ count \in [commands : 0..MaxCommands, changes : 0..MaxChanges]
    /\ excused \subseteq Images

(* The displays of the plug-in are the ones it knows: whatever fails, an   *)
(* image it put on screen can be closed with close_image until it is gone, *)
(* and the artist's own image never can.                                   *)
DisplaysAreOwned ==
    /\ \A i \in Open \ {1} : image[i].shown => i \in owned
    /\ 1 \notin owned

(* A group or a text whose creation failed is gone, in the tree and out of *)
(* it, unless the report names the failed cleanup or the readback.         *)
CreationIsUndone ==
    pc = "idle" /\ cmd.op \in {"create_group", "create_text"} /\ item # 0 =>
        \/ told \cap {"ok", "readback", "cleanup"} # {}
        \/ item \notin Tree(cmd.on) \cup Loose

(* close_image drops work no file holds only with discard_changes, however *)
(* the saves before it went, unless the artist changed the image during    *)
(* the save or the close, or GIMP claimed a save it did not write.         *)
ClosedWithConsent ==
    [][\A i \in owned : image[i].unsaved /\ image[i].open /\ ~image'[i].open /\ pc = "shut"
            /\ pc' = "idle" => cmd.consent \/ i \in excused]_commandStepVars

(* tools.yaml says delete_layer preserves at least one image layer.        *)
DeletionLeavesALayer ==
    [][pc = "remove" /\ layer' # layer => Tree(cmd.on)' # {}]_commandStepVars
===============================================================================
