------------------------------ MODULE ImageStore ------------------------------
(***************************************************************************)
(* The images of one GIMP process as the commands of the plug-in see them: *)
(* images with a display or without, the layer tree of each, and the       *)
(* displays the plug-in opened (_owned_displays).  GIMP is modelled from   *)
(* the calls the plug-in makes; the artist works on the same images while  *)
(* a command runs, between any two of its calls.                           *)
(*                                                                         *)
(* An allocated layer belongs to an image, and is attached to its tree or  *)
(* loose.  Image and layer numbers are never used twice; 0 is none of      *)
(* them, and the parent of a layer at the top of the tree.                 *)
(***************************************************************************)
EXTENDS Naturals, FiniteSets

CONSTANTS
    MaxImages,      \* bound: images ever made
    MaxLayers,      \* bound: layers ever made
    MaxNodes        \* MAX_LAYER_NODES

ASSUME StoreAssumption == /\ MaxImages \in Nat \ {0} /\ MaxLayers \in Nat \ {0}
                          /\ MaxNodes \in Nat \ {0}

VARIABLES
    image,          \* image[i]: does it exist, is it shown, dirty, unsaved
    layer,          \* layer[l]: its image, its parent, a group or not, attached or not
    owned           \* the images in _owned_displays

storeVars == <<image, layer, owned>>

Images == 1..MaxImages
Layers == 1..MaxLayers

(* `unsaved': the image holds changes that no XCF file holds; `dirty' is   *)
(* what GIMP says of it.                                                   *)
ImageState == [made : BOOLEAN, open : BOOLEAN, shown : BOOLEAN, dirty : BOOLEAN,
               unsaved : BOOLEAN]
LayerState == [of : {0} \cup Images, under : {0} \cup Layers, group : BOOLEAN,
               attached : BOOLEAN, made : BOOLEAN]
NoImage == [made |-> FALSE, open |-> FALSE, shown |-> FALSE, dirty |-> FALSE, unsaved |-> FALSE]
NoLayer == [of |-> 0, under |-> 0, group |-> FALSE, attached |-> FALSE, made |-> FALSE]

(* The artist has one image with one layer on screen.                      *)
StoreInit ==
    /\ image = [i \in Images |->
                   IF i = 1 THEN [NoImage EXCEPT !.made = TRUE, !.open = TRUE, !.shown = TRUE]
                            ELSE NoImage]
    /\ layer = [l \in Layers |->
                   IF l = 1 THEN [NoLayer EXCEPT !.of = 1, !.attached = TRUE, !.made = TRUE]
                            ELSE NoLayer]
    /\ owned = {}

StoreTypeOK ==
    /\ image \in [Images -> ImageState]
    /\ layer \in [Layers -> LayerState]
    /\ owned \subseteq Images

Open == {i \in Images : image[i].open}
Tree(i) == {l \in Layers : layer[l].attached /\ layer[l].of = i}
Loose == {l \in Layers : layer[l].of # 0 /\ ~layer[l].attached}
NextImage == Cardinality({i \in Images : image[i].made}) + 1
NextLayer == Cardinality({l \in Layers : layer[l].made}) + 1
CanMakeImage == NextImage \in Images
CanMakeLayer == NextLayer \in Layers

(* _walk_layers raises when a tree has more nodes than the limit.          *)
WalkFails(i) == Cardinality(Tree(i)) > MaxNodes

(* A layer and everything below it.                                        *)
Subtree(l) ==
    {m \in Layers : \A S \in SUBSET Layers :
        (l \in S /\ \A n \in Layers : layer[n].under \in S => n \in S) => m \in S}

-----------------------------------------------------------------------------
(* Calls into GIMP, as the next value of `image' or of `layer'.            *)
Without(S) == [l \in Layers |-> IF l \in S THEN [NoLayer EXCEPT !.made = TRUE] ELSE layer[l]]
Allocated(i, isGroup) ==
    [layer EXCEPT ![NextLayer] = [NoLayer EXCEPT !.of = i, !.group = isGroup, !.made = TRUE]]
Attached(l, p) == [layer EXCEPT ![l].attached = TRUE, ![l].under = p]
Changed(i) == [image EXCEPT ![i].dirty = TRUE, ![i].unsaved = TRUE]
NewImage == [image EXCEPT ![NextImage] = [NoImage EXCEPT !.made = TRUE, !.open = TRUE]]

(* An image that goes takes its layers along. *)
Deleted(i) ==
    /\ image' = [image EXCEPT ![i] = [NoImage EXCEPT !.made = TRUE]]
    /\ layer' = Without({l \in Layers : layer[l].of = i})
===============================================================================
