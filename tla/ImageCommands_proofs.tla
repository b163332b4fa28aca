-------------------------- MODULE ImageCommands_proofs --------------------------
(***************************************************************************)
(* The inductive invariant of the image commands, for every number of      *)
(* images, layers, nodes, commands and changes, and lemmas that each step  *)
(* of a command and of the artist preserves it.  ExportPreview_proofs adds *)
(* the preview and concludes.                                              *)
(***************************************************************************)
EXTENDS ImageCommands, TLAPS, FiniteSetTheorems

CommandPoints ==
    {"image", "layer", "fill", "name", "insert", "settle", "undo", "select", "display", "flush",
     "place", "alter", "remove", "flatten", "write", "clean", "artifact", "isolate", "copy",
     "drop", "close", "shut"}
PreviewPoints ==
    {"admit", "stage", "push", "nohalo", "duplicate", "render", "release", "pop", "compare",
     "verify", "publish", "sweep"}

(* Which command can be at which point.                                    *)
Points ==
    /\ pc \in CommandPoints \cup PreviewPoints \cup {"idle"}
    /\ cmd.op = "none" => pc = "idle"
    /\ cmd.op = "export_preview" => pc \in PreviewPoints \cup {"idle"}
    /\ pc \in PreviewPoints => cmd.op = "export_preview"
    /\ pc \in {"image", "display"} => cmd.op \in ImageMakers
    /\ pc \in {"layer", "fill", "name", "insert"} => cmd.op \in LayerMakers \cup {"create_image"}
    /\ pc \in {"fill", "select"} => cmd.op \in {"create_image", "create_layer"}
    /\ cmd.op \in LayerMakers =>
          pc \in {"idle", "layer", "fill", "name", "insert", "settle", "undo", "select", "flush"}
    /\ pc = "write" => cmd.op \in {"save_image", "export_image"}
    /\ pc = "clean" => cmd.op = "save_image"
    /\ pc \in {"close", "shut"} => cmd.op = "close_image"
    /\ cmd.on = 0 <=> cmd.op \in ImageMakers \cup {"none"}

(* Image 1 is the artist's; images are numbered on from there.             *)
Displays ==
    /\ image[1].made /\ made # 1
    /\ cmd.op \in ImageMakers /\ pc \notin {"image", "idle"} => made \in Images
    /\ DisplaysAreOwned

(* What GIMP calls clean and no file holds is excused; so is the image that *)
(* is about to be called clean, and the one that is about to be closed.    *)
Savings ==
    /\ \A i \in Images : image[i].unsaved => image[i].dirty \/ i \in excused
    /\ pc = "clean" => (image[cmd.on].unsaved => cmd.on \in excused)
    /\ pc = "shut" => (image[cmd.on].unsaved => cmd.consent \/ cmd.on \in excused)

(* Success is reported at the end.                                         *)
Creations ==
    /\ pc # "idle" => "ok" \notin told
    /\ pc = "layer" => item = 0
    /\ pc = "image" => item = 0
    /\ CreationIsUndone

CommandInv == CommandTypeOK /\ Points /\ Displays /\ Savings /\ Creations

-----------------------------------------------------------------------------
(* The number of the next image is not the artist's.                       *)
LEMMA NextImageIsNew ==
    ASSUME StoreTypeOK, image[1].made PROVE NextImage # 1
<1> DEFINE M == {i \in Images : image[i].made}
<1>1. IsFiniteSet(Images)
  BY StoreAssumption, FS_Interval DEF Images
<1>2. IsFiniteSet(M) /\ Cardinality(M) \in Nat
  BY <1>1, FS_Subset, FS_CardinalityType
<1>3. 1 \in M
  BY StoreAssumption DEF Images
<1>4. Cardinality(M) # 0
  BY <1>2, <1>3, FS_EmptySet
<1> QED BY <1>2, <1>4 DEF NextImage

(* A command goes from one point to the next of its own. *)
LEMMA PointsStep ==
    ASSUME CommandInv, CommandStep PROVE Points' /\ pc \in CommandPoints /\ cmd' = cmd /\ count' = count
<1> USE DEF CommandInv, Points, CommandPoints, PreviewPoints, ImageMakers, LayerMakers, Go,
            Report, Refuse, Abandon, frame
<1>1. CASE MakeImage BY <1>1 DEF MakeImage
<1>2. CASE MakeLayer BY <1>2 DEF MakeLayer
<1>3. CASE FillNew BY <1>3 DEF FillNew
<1>4. CASE NameNew BY <1>4 DEF NameNew
<1>5. CASE InsertNew BY <1>5 DEF InsertNew
<1>6. CASE SettleText BY <1>6 DEF SettleText
<1>7. CASE Undo BY <1>7 DEF Undo
<1>8. CASE SelectNew BY <1>8 DEF SelectNew
<1>9. CASE Display BY <1>9 DEF Display
<1>10. CASE Flush BY <1>10 DEF Flush
<1>11. CASE Place BY <1>11 DEF Place
<1>12. CASE Alter BY <1>12 DEF Alter
<1>13. CASE Remove BY <1>13 DEF Remove
<1>14. CASE Flatten BY <1>14 DEF Flatten
<1>15. CASE Write BY <1>15 DEF Write
<1>16. CASE CleanAll BY <1>16 DEF CleanAll
<1>17. CASE CheckArtifact BY <1>17 DEF CheckArtifact
<1>18. CASE Isolate BY <1>18 DEF Isolate
<1>19. CASE CopyAndSave BY <1>19 DEF CopyAndSave
<1>20. CASE DropIsolated BY <1>20 DEF DropIsolated
<1>21. CASE Close BY <1>21 DEF Close
<1>22. CASE Shut BY <1>22 DEF Shut
<1> QED
  BY <1>1, <1>2, <1>3, <1>4, <1>5, <1>6, <1>7, <1>8, <1>9, <1>10, <1>11, <1>12, <1>13, <1>14,
     <1>15, <1>16, <1>17, <1>18, <1>19, <1>20, <1>21, <1>22 DEF CommandStep

ImageType == image \in [Images -> ImageState]
LayerType == layer \in [Layers -> LayerState]

(* Every call of ImageStore keeps the types of what it sets.               *)
LEMMA ChangedType == ASSUME ImageType, NEW i PROVE Changed(i) \in [Images -> ImageState]
BY DEF Changed, ImageType, ImageState

(* A new image has the type of an image. *)
LEMMA NewImageType == ASSUME ImageType PROVE NewImage \in [Images -> ImageState]
<1>1. [NoImage EXCEPT !.made = TRUE, !.open = TRUE] \in ImageState
  BY DEF NoImage, ImageState
<1> QED BY <1>1 DEF NewImage, ImageType

(* So have the layers when some are gone, *)
LEMMA WithoutType == ASSUME LayerType, NEW S PROVE Without(S) \in [Layers -> LayerState]
<1>1. [NoLayer EXCEPT !.made = TRUE] \in LayerState
  BY DEF NoLayer, LayerState
<1> QED BY <1>1 DEF Without, LayerType

(* when one is allocated, *)
LEMMA AllocatedType ==
    ASSUME LayerType, NEW i \in {0} \cup Images, NEW g \in BOOLEAN
    PROVE  Allocated(i, g) \in [Layers -> LayerState]
<1>1. [NoLayer EXCEPT !.of = i, !.group = g, !.made = TRUE] \in LayerState
  BY DEF NoLayer, LayerState
<1> QED BY <1>1 DEF Allocated, LayerType

(* when one is attached to its image, *)
LEMMA AttachedType ==
    ASSUME LayerType, NEW l, NEW q \in {0} \cup Layers
    PROVE  Attached(l, q) \in [Layers -> LayerState]
BY DEF LayerType, Attached, LayerState

(* when an image gets its first layer, *)
LEMMA RootLayerType ==
    ASSUME NEW i \in {0} \cup Images
    PROVE  [NoLayer EXCEPT !.of = i, !.attached = TRUE, !.made = TRUE] \in LayerState
BY DEF NoLayer, LayerState

(* and when an image and its layers are deleted. *)
LEMMA DeletedType ==
    ASSUME ImageType, LayerType, NEW i, Deleted(i) PROVE ImageType' /\ LayerType'
<1>1. [NoImage EXCEPT !.made = TRUE] \in ImageState
  BY DEF NoImage, ImageState
<1>2. ImageType'
  BY <1>1 DEF Deleted, ImageType
<1> QED BY <1>2, WithoutType DEF Deleted, LayerType

(* Every call of a command keeps the types. *)
LEMMA CommandTypes ==
    ASSUME CommandInv, CommandStep PROVE CommandTypeOK'
<1>0. /\ Here \in {0} \cup Images /\ ImageType /\ LayerType
      /\ Groups \subseteq Layers
      /\ CommandTypeOK /\ Points /\ Displays
  BY DEF Here, CommandInv, CommandTypeOK, StoreTypeOK, ImageType, LayerType, Tree, Groups
<1> USE DEF Report, Refuse, Abandon, frame, locals, storeVars
<1>1. CASE MakeImage
  <2>1. ImageType'
    BY <1>0, <1>1, NewImageType DEF MakeImage, ImageType
  <2>2. [NoLayer EXCEPT !.of = NextImage, !.attached = TRUE, !.made = TRUE] \in LayerState
        \/ ~CanMakeImage
    BY RootLayerType DEF CanMakeImage
  <2>3. LayerType'
    BY <1>0, <1>1, <2>2 DEF MakeImage, LayerType
  <2>4. made' \in {0} \cup Images /\ UNCHANGED <<owned, item, inserted, wrote, excused, frame>>
    BY <1>0, <1>1 DEF MakeImage, CanMakeImage, CommandTypeOK
  <2> QED BY <1>0, <2>1, <2>3, <2>4 DEF CommandTypeOK, StoreTypeOK, ImageType, LayerType
<1>2. CASE MakeLayer
  <2>1. LayerType'
    <3> DEFINE g == cmd.op = "create_group"
    <3>1. g \in BOOLEAN
      OBVIOUS
    <3>2. layer' = Allocated(Here, g) \/ layer' = layer
      BY <1>2 DEF MakeLayer
    <3> HIDE DEF g
    <3> QED BY <1>0, <3>1, <3>2, AllocatedType DEF LayerType
  <2> QED
    BY <1>0, <1>2, <2>1
    DEF CommandTypeOK, StoreTypeOK, ImageType, LayerType, MakeLayer, CanMakeLayer
<1>3. CASE FillNew BY <1>0, <1>3 DEF FillNew, CommandTypeOK, StoreTypeOK
<1>4. CASE NameNew
  <2>1. ImageType' /\ LayerType'
    BY <1>0, <1>4, WithoutType
    DEF NameNew, ImageType, LayerType, Abandon, frame, locals, storeVars
  <2> QED BY <1>0, <1>4, <2>1 DEF CommandTypeOK, StoreTypeOK, ImageType, LayerType, NameNew
<1>5. CASE InsertNew
  <2>1. ImageType' /\ LayerType'
    BY <1>0, <1>5, WithoutType, AttachedType, ChangedType
    DEF InsertNew, ImageType, LayerType, Abandon, frame, locals, storeVars
  <2> QED BY <1>0, <1>5, <2>1 DEF CommandTypeOK, StoreTypeOK, ImageType, LayerType, InsertNew
<1>6. CASE SettleText BY <1>0, <1>6 DEF SettleText, CommandTypeOK, StoreTypeOK
<1>7. CASE Undo
  <2>1. ImageType' /\ LayerType'
    BY <1>0, <1>7, WithoutType DEF Undo, ImageType, LayerType, frame, locals, storeVars
  <2> QED BY <1>0, <1>7, <2>1 DEF CommandTypeOK, StoreTypeOK, ImageType, LayerType, Undo
<1>8. CASE SelectNew BY <1>0, <1>8 DEF SelectNew, CommandTypeOK, StoreTypeOK
<1>9. CASE Display
  <2>0. pc = "display" /\ made \in Images /\ Here = made
    BY <1>0, <1>9 DEF Display, Points, Displays, Here
  <2>1. ASSUME image' = [image EXCEPT ![made].shown = TRUE], layer' = layer
        PROVE  ImageType' /\ LayerType'
    BY <1>0, <2>1 DEF ImageType, LayerType, ImageState
  <2>2. ASSUME Deleted(made) PROVE ImageType' /\ LayerType'
    BY <1>0, <2>2, DeletedType
  <2>3. ASSUME UNCHANGED <<image, layer>> PROVE ImageType' /\ LayerType'
    BY <1>0, <2>3 DEF ImageType, LayerType
  <2>4. ImageType' /\ LayerType'
    BY <1>9, <2>1, <2>2, <2>3 DEF Display
  <2> QED BY <1>0, <1>9, <2>0, <2>4 DEF CommandTypeOK, StoreTypeOK, ImageType, LayerType, Display
<1>10. CASE Flush BY <1>0, <1>10 DEF Flush, CommandTypeOK, StoreTypeOK
<1>11. CASE Place
  <2>1. ImageType' /\ LayerType'
    BY <1>0, <1>11, AttachedType, ChangedType
    DEF Place, ImageType, LayerType, frame, locals, storeVars
  <2> QED BY <1>0, <1>11, <2>1 DEF CommandTypeOK, StoreTypeOK, ImageType, LayerType, Place
<1>12. CASE Alter
  <2>1. ImageType' /\ LayerType'
    BY <1>0, <1>12, ChangedType DEF Alter, ImageType, LayerType, frame, locals, storeVars
  <2> QED BY <1>0, <1>12, <2>1 DEF CommandTypeOK, StoreTypeOK, ImageType, LayerType, Alter
<1>13. CASE Remove
  <2>1. ImageType' /\ LayerType'
    BY <1>0, <1>13, WithoutType, ChangedType
    DEF Remove, ImageType, LayerType, Refuse, frame, locals, storeVars
  <2> QED BY <1>0, <1>13, <2>1 DEF CommandTypeOK, StoreTypeOK, ImageType, LayerType, Remove
<1>14. CASE Flatten
  <2>1. ImageType'
    BY <1>0, <1>14, ChangedType DEF Flatten, ImageType
  <2>2. /\ [NoLayer EXCEPT !.made = TRUE] \in LayerState
        /\ [NoLayer EXCEPT !.of = Here, !.attached = TRUE, !.made = TRUE] \in LayerState
    BY <1>0 DEF NoLayer, LayerState
  <2>3. LayerType'
    BY <1>0, <1>14, <2>2 DEF Flatten, LayerType
  <2> QED
    BY <1>0, <1>14, <2>1, <2>3
    DEF CommandTypeOK, StoreTypeOK, ImageType, LayerType, Flatten, CanMakeLayer
<1>15. CASE Write
  <2>0. Here \in Images
    BY <1>0, <1>15 DEF Write, Points, Here, ImageMakers
  <2>1. image' = image \/ image' = [image EXCEPT ![Here].unsaved = FALSE]
    BY <1>15 DEF Write
  <2>2. ImageType' /\ UNCHANGED <<layer, owned, made, item, inserted, frame>>
    BY <1>0, <1>15, <2>1 DEF Write, ImageType, ImageState
  <2>3. wrote' \in BOOLEAN /\ excused' \subseteq Images
    BY <1>0, <1>15, <2>0 DEF Write, CommandTypeOK
  <2> QED BY <1>0, <2>2, <2>3 DEF CommandTypeOK, StoreTypeOK, ImageType, LayerType
<1>16. CASE CleanAll
  <2>1. ImageType' /\ LayerType'
    BY <1>0, <1>16 DEF CleanAll, ImageType, LayerType, ImageState, frame, locals, storeVars
  <2> QED BY <1>0, <1>16, <2>1 DEF CommandTypeOK, StoreTypeOK, ImageType, LayerType, CleanAll
<1>17. CASE CheckArtifact BY <1>0, <1>17 DEF CheckArtifact, CommandTypeOK, StoreTypeOK
<1>18. CASE Isolate
  <2>1. ImageType' /\ LayerType'
    BY <1>0, <1>18, NewImageType
    DEF Isolate, ImageType, LayerType, Refuse, frame, locals, storeVars
  <2> QED
    BY <1>0, <1>18, <2>1
    DEF CommandTypeOK, StoreTypeOK, ImageType, LayerType, Isolate, CanMakeImage
<1>19. CASE CopyAndSave BY <1>0, <1>19 DEF CopyAndSave, CommandTypeOK, StoreTypeOK
<1>20. CASE DropIsolated
  <2>1. ImageType' /\ LayerType'
    BY <1>0, <1>20, DeletedType DEF DropIsolated, ImageType, LayerType, frame, locals, storeVars
  <2> QED BY <1>0, <1>20, <2>1 DEF CommandTypeOK, StoreTypeOK, ImageType, LayerType, DropIsolated
<1>21. CASE Close BY <1>0, <1>21 DEF Close, CommandTypeOK, StoreTypeOK
<1>22. CASE Shut
  <2>1. ImageType' /\ LayerType'
    BY <1>0, <1>22, DeletedType DEF Shut, ImageType, LayerType, frame, locals, storeVars
  <2> QED BY <1>0, <1>22, <2>1 DEF CommandTypeOK, StoreTypeOK, ImageType, LayerType, Shut
<1> QED
  BY <1>1, <1>2, <1>3, <1>4, <1>5, <1>6, <1>7, <1>8, <1>9, <1>10, <1>11, <1>12, <1>13, <1>14,
     <1>15, <1>16, <1>17, <1>18, <1>19, <1>20, <1>21, <1>22 DEF CommandStep

(* A new image is open, on no screen, and holds nothing.                   *)
LEMMA NewImageIs ==
    ASSUME ImageType, CanMakeImage
    PROVE  /\ \A i \in Images \ {NextImage} : NewImage[i] = image[i]
           /\ LET n == NewImage[NextImage]
              IN n.made /\ n.open /\ ~n.shown /\ ~n.dirty /\ ~n.unsaved
BY DEF ImageType, CanMakeImage, NewImage, NoImage

(* Every call keeps what the bridge displays its own. *)
LEMMA DisplaysStep ==
    ASSUME CommandInv, CommandStep PROVE Displays'
<1>0. /\ image[1].made /\ 1 \in Images /\ NextImage # 1
      /\ image \in [Images -> ImageState] /\ ImageType
      /\ Points /\ Displays
  BY NextImageIsNew, StoreAssumption
  DEF CommandInv, CommandTypeOK, StoreTypeOK, ImageType, Displays, Images
<1> USE DEF Points, Displays, DisplaysAreOwned, ImageState, Open, NoImage, Changed, Deleted, Go,
            Report, Refuse, Abandon, frame, locals, storeVars, Here, Alive
<1>1. CASE MakeImage
  <2>1. CASE CanMakeImage /\ made' = NextImage /\ image' = NewImage
    BY <1>0, <1>1, <2>1, NewImageIs DEF MakeImage, CanMakeImage
  <2>2. CASE UNCHANGED <<image, made>> /\ pc' = "idle"
    BY <1>0, <1>1, <2>2 DEF MakeImage
  <2> QED BY <1>1, <2>1, <2>2 DEF MakeImage
<1>2. CASE MakeLayer BY <1>0, <1>2 DEF MakeLayer
<1>3. CASE FillNew BY <1>0, <1>3 DEF FillNew
<1>4. CASE NameNew BY <1>0, <1>4 DEF NameNew
<1>5. CASE InsertNew BY <1>0, <1>5 DEF InsertNew
<1>6. CASE SettleText BY <1>0, <1>6 DEF SettleText
<1>7. CASE Undo BY <1>0, <1>7 DEF Undo
<1>8. CASE SelectNew BY <1>0, <1>8 DEF SelectNew
<1>9. CASE Display BY <1>0, <1>9 DEF Display
<1>10. CASE Flush BY <1>0, <1>10 DEF Flush
<1>11. CASE Place BY <1>0, <1>11 DEF Place
<1>12. CASE Alter BY <1>0, <1>12 DEF Alter
<1>13. CASE Remove BY <1>0, <1>13 DEF Remove
<1>14. CASE Flatten BY <1>0, <1>14 DEF Flatten
<1>15. CASE Write BY <1>0, <1>15 DEF Write
<1>16. CASE CleanAll BY <1>0, <1>16 DEF CleanAll
<1>17. CASE CheckArtifact BY <1>0, <1>17 DEF CheckArtifact
<1>18. CASE Isolate
  <2>1. CASE CanMakeImage /\ made' = NextImage /\ image' = NewImage
    BY <1>0, <1>18, <2>1, NewImageIs DEF Isolate, CanMakeImage, ImageMakers
  <2>2. CASE UNCHANGED <<image, made>> /\ pc' = "idle"
    BY <1>0, <1>18, <2>2 DEF Isolate
  <2> QED BY <1>18, <2>1, <2>2 DEF Isolate
<1>19. CASE CopyAndSave BY <1>0, <1>19 DEF CopyAndSave
<1>20. CASE DropIsolated BY <1>0, <1>20 DEF DropIsolated
<1>21. CASE Close BY <1>0, <1>21 DEF Close
<1>22. CASE Shut BY <1>0, <1>22 DEF Shut
<1> QED
  BY <1>1, <1>2, <1>3, <1>4, <1>5, <1>6, <1>7, <1>8, <1>9, <1>10, <1>11, <1>12, <1>13, <1>14,
     <1>15, <1>16, <1>17, <1>18, <1>19, <1>20, <1>21, <1>22 DEF CommandStep

(* Every call keeps what is known of saved and dirty images. *)
LEMMA SavingsStep ==
    ASSUME CommandInv, CommandStep PROVE Savings'
<1>0. image \in [Images -> ImageState] /\ ImageType /\ Points /\ Savings
  BY DEF CommandInv, CommandTypeOK, StoreTypeOK, ImageType
<1> USE DEF ImageState, Points, Savings, NoImage, Changed, Deleted, Go, Report, Refuse, Abandon,
            frame, locals, storeVars, Here, Alive, ImageMakers
<1>1. CASE MakeImage
  <2>1. CASE CanMakeImage /\ made' = NextImage /\ image' = NewImage
    BY <1>0, <1>1, <2>1, NewImageIs DEF MakeImage, CanMakeImage
  <2>2. CASE UNCHANGED <<image, made>> /\ pc' = "idle"
    BY <1>0, <1>1, <2>2 DEF MakeImage
  <2> QED BY <1>1, <2>1, <2>2 DEF MakeImage
<1>2. CASE MakeLayer
  <2>1. pc' \notin {"clean", "shut"} /\ UNCHANGED <<image, excused>>
    BY <1>0, <1>2, PointsStep DEF MakeLayer
  <2> QED BY <1>0, <2>1
<1>3. CASE FillNew BY <1>0, <1>3 DEF FillNew
<1>4. CASE NameNew BY <1>0, <1>4 DEF NameNew
<1>5. CASE InsertNew
  <2>1. pc' \notin {"clean", "shut"} /\ UNCHANGED excused
    BY <1>0, <1>5, PointsStep DEF InsertNew
  <2>2. image' = image \/ image' = Changed(Here)
    BY <1>5 DEF InsertNew
  <2> QED BY <1>0, <2>1, <2>2
<1>6. CASE SettleText BY <1>0, <1>6 DEF SettleText
<1>7. CASE Undo BY <1>0, <1>7 DEF Undo
<1>8. CASE SelectNew BY <1>0, <1>8 DEF SelectNew
<1>9. CASE Display BY <1>0, <1>9 DEF Display
<1>10. CASE Flush BY <1>0, <1>10 DEF Flush
<1>11. CASE Place BY <1>0, <1>11 DEF Place
<1>12. CASE Alter BY <1>0, <1>12 DEF Alter
<1>13. CASE Remove BY <1>0, <1>13 DEF Remove
<1>14. CASE Flatten BY <1>0, <1>14 DEF Flatten
<1>15. CASE Write
  <2>1. CASE Refuse /\ UNCHANGED excused
    BY <1>0, <2>1
  <2>2. CASE image' = image /\ excused' = excused \cup {Here} /\ pc' \in {"clean", "artifact"}
    BY <1>0, <1>15, <2>2 DEF Write
  <2>3. CASE /\ image' = image /\ excused' = excused /\ pc' = "artifact"
    BY <1>0, <2>3
  <2>4. CASE /\ image' = [image EXCEPT ![Here].unsaved = FALSE] /\ excused' = excused
             /\ pc' = "clean"
    <3>1. Here = cmd.on /\ cmd.on \in Images /\ cmd' = cmd
      BY <1>0, <1>15 DEF Write, CommandInv, CommandTypeOK
    <3>2. \A i \in Images : image'[i].dirty = image[i].dirty
                           /\ image'[i].unsaved = IF i = Here THEN FALSE ELSE image[i].unsaved
      BY <1>0, <2>4
    <3> QED BY <1>0, <2>4, <3>1, <3>2
  <2> QED BY <1>15, <2>1, <2>2, <2>3, <2>4 DEF Write
<1>16. CASE CleanAll BY <1>0, <1>16 DEF CleanAll
<1>17. CASE CheckArtifact BY <1>0, <1>17 DEF CheckArtifact
<1>18. CASE Isolate
  <2>1. CASE CanMakeImage /\ made' = NextImage /\ image' = NewImage
    BY <1>0, <1>18, <2>1, NewImageIs DEF Isolate, CanMakeImage
  <2>2. CASE UNCHANGED <<image, made>> /\ pc' = "idle"
    BY <1>0, <1>18, <2>2 DEF Isolate
  <2> QED BY <1>18, <2>1, <2>2 DEF Isolate
<1>19. CASE CopyAndSave BY <1>0, <1>19 DEF CopyAndSave
<1>20. CASE DropIsolated BY <1>0, <1>20 DEF DropIsolated
<1>21. CASE Close
  <2>1. CASE Report({"refused"})
    BY <1>0, <1>21, <2>1 DEF Close
  <2>2. CASE pc' = "shut" /\ (image[Here].dirty => cmd.consent)
    <3>1. Here = cmd.on /\ cmd.on \in Images /\ UNCHANGED <<image, excused, cmd>>
      BY <1>0, <1>21 DEF Close, CommandInv, CommandTypeOK
    <3> QED BY <1>0, <2>2, <3>1
  <2> QED BY <1>21, <2>1, <2>2 DEF Close
<1>22. CASE Shut BY <1>0, <1>22 DEF Shut
<1> QED
  BY <1>1, <1>2, <1>3, <1>4, <1>5, <1>6, <1>7, <1>8, <1>9, <1>10, <1>11, <1>12, <1>13, <1>14,
     <1>15, <1>16, <1>17, <1>18, <1>19, <1>20, <1>21, <1>22 DEF CommandStep

(* Every call keeps what is known of what a command created. *)
LEMMA CreationsStep ==
    ASSUME CommandInv, CommandStep PROVE Creations'
<1>0. layer \in [Layers -> LayerState] /\ Points /\ Creations
  BY DEF CommandInv, CommandTypeOK, StoreTypeOK
<1> USE DEF LayerState, Points, Creations, CreationIsUndone,
            NoLayer, Without, Tree, Loose, Go, Report, Refuse, Abandon, frame,
            locals, storeVars, Here, Alive, LayerMakers, ImageMakers
<1>1. CASE MakeImage BY <1>0, <1>1 DEF MakeImage
<1>2. CASE MakeLayer
  <2>1. CASE Report({"layer"}) /\ UNCHANGED <<layer, item>>
    BY <1>0, <1>2, <2>1 DEF MakeLayer
  <2>2. CASE told' = told /\ pc' \in {"fill", "name", "insert"}
    BY <1>0, <1>2, <2>2 DEF MakeLayer
  <2> QED BY <1>0, <1>2, <2>1, <2>2 DEF MakeLayer
<1>3. CASE FillNew BY <1>0, <1>3 DEF FillNew
<1>4. CASE NameNew BY <1>0, <1>4 DEF NameNew
<1>5. CASE InsertNew
  <2>1. CASE told' = told /\ pc' \in {"select", "settle", "flush"}
    BY <1>0, <1>5, <2>1 DEF InsertNew
  <2>2. CASE Abandon("insert")
    BY <1>0, <1>5, <2>2 DEF InsertNew
  <2> QED BY <1>0, <1>5, <2>1, <2>2 DEF InsertNew
<1>6. CASE SettleText BY <1>0, <1>6 DEF SettleText
<1>7. CASE Undo BY <1>0, <1>7 DEF Undo
<1>8. CASE SelectNew BY <1>0, <1>8 DEF SelectNew
<1>9. CASE Display BY <1>0, <1>9 DEF Display
<1>10. CASE Flush BY <1>0, <1>10 DEF Flush
<1>11. CASE Place BY <1>0, <1>11 DEF Place
<1>12. CASE Alter BY <1>0, <1>12 DEF Alter
<1>13. CASE Remove BY <1>0, <1>13 DEF Remove
<1>14. CASE Flatten BY <1>0, <1>14 DEF Flatten
<1>15. CASE Write BY <1>0, <1>15 DEF Write
<1>16. CASE CleanAll BY <1>0, <1>16 DEF CleanAll
<1>17. CASE CheckArtifact BY <1>0, <1>17 DEF CheckArtifact
<1>18. CASE Isolate BY <1>0, <1>18 DEF Isolate
<1>19. CASE CopyAndSave BY <1>0, <1>19 DEF CopyAndSave
<1>20. CASE DropIsolated BY <1>0, <1>20 DEF DropIsolated
<1>21. CASE Close BY <1>0, <1>21 DEF Close
<1>22. CASE Shut BY <1>0, <1>22 DEF Shut
<1> QED
  BY <1>1, <1>2, <1>3, <1>4, <1>5, <1>6, <1>7, <1>8, <1>9, <1>10, <1>11, <1>12, <1>13, <1>14,
     <1>15, <1>16, <1>17, <1>18, <1>19, <1>20, <1>21, <1>22 DEF CommandStep

(* A step of a command.                                                    *)
LEMMA CommandStepKeeps ==
    ASSUME CommandInv, CommandStep PROVE CommandInv'
BY PointsStep, CommandTypes, DisplaysStep, SavingsStep, CreationsStep DEF CommandInv

(* The arrival of a command.                                               *)
LEMMA ArriveKeeps ==
    ASSUME CommandInv, Arrive(Commands \cup {"export_preview"}) PROVE CommandInv'
<1>0. PICK op \in Commands \cup {"export_preview"}, i \in {0} \cup Open, consent \in BOOLEAN :
         /\ i = 0 <=> op \in ImageMakers
         /\ cmd' = [op |-> op, on |-> i, consent |-> consent]
         /\ pc' = First(op)
  BY DEF Arrive
<1>1. CommandTypeOK'
  <2>1. cmd' \in [op : Commands \cup {"none", "export_preview"}, on : {0} \cup Images,
                  consent : BOOLEAN]
    BY <1>0 DEF Open
  <2>2. count' \in [commands : 0..MaxCommands, changes : 0..MaxChanges]
    BY CommandsAssumption DEF Arrive, CommandInv, CommandTypeOK
  <2> QED BY <2>1, <2>2 DEF Arrive, CommandInv, CommandTypeOK, StoreTypeOK, storeVars
<1>2. Points' /\ pc' # "idle"
  <2>1. cmd'.op = op /\ cmd'.on = i
    BY <1>0
  <2> QED
    BY <1>0, <2>1
    DEF Points, Commands, First, CommandPoints, PreviewPoints, ImageMakers, LayerMakers
<1>3. pc' \notin {"clean", "shut"} /\ (cmd'.op \in ImageMakers => pc' = "image")
  BY <1>0 DEF First, Commands, ImageMakers, LayerMakers
<1>4. Displays' /\ Savings'
  <2>1. UNCHANGED <<image, owned, excused>> /\ made' = 0
    BY DEF Arrive, storeVars
  <2> QED BY <1>3, <2>1 DEF CommandInv, Displays, DisplaysAreOwned, Savings, Open
<1>5. Creations'
  BY <1>2 DEF Arrive, Creations, CreationIsUndone
<1> QED BY <1>1, <1>2, <1>4, <1>5 DEF CommandInv

(* An image that goes, with its layers.                                    *)
LEMMA DeletedIs ==
    ASSUME ImageType, LayerType, NEW i \in Images, Deleted(i)
    PROVE  /\ \A j \in Images \ {i} : image'[j] = image[j]
           /\ LET n == image'[i] IN n.made /\ ~n.open /\ ~n.shown /\ ~n.dirty /\ ~n.unsaved
           /\ \A j \in Images : Tree(j)' \subseteq Tree(j)
           /\ Loose' \subseteq Loose
<1>1. image' = [image EXCEPT ![i] = [NoImage EXCEPT !.made = TRUE]]
  BY DEF Deleted
<1>2. \A l \in Layers : layer'[l] = layer[l] \/ layer'[l] = [NoLayer EXCEPT !.made = TRUE]
  BY DEF Deleted, Without
<1>3. [NoLayer EXCEPT !.made = TRUE].of = 0 /\ ~[NoLayer EXCEPT !.made = TRUE].attached
  BY DEF NoLayer
<1>4. 0 \notin Images
  BY StoreAssumption DEF Images
<1>5. /\ \A j \in Images : Tree(j)' \subseteq Tree(j)
      /\ Loose' \subseteq Loose
  BY <1>2, <1>3, <1>4 DEF Tree, Loose
<1> QED BY <1>1, <1>5 DEF ImageType, NoImage

(* What the artist does.                                                   *)
LEMMA ArtistKeeps ==
    ASSUME CommandInv, NEW i \in Images, Artist(i) PROVE CommandInv'
<1>0. /\ ImageType /\ LayerType /\ UNCHANGED <<owned, cmd, pc, made, item, inserted, wrote, told>>
      /\ (image' = Changed(i) /\ UNCHANGED layer) \/ Deleted(i)
      /\ CommandTypeOK /\ Points /\ Displays /\ Savings /\ Creations
  BY DEF Artist, CommandInv, CommandTypeOK, StoreTypeOK, ImageType, LayerType
<1>1. ImageType' /\ LayerType'
  BY <1>0, ChangedType, DeletedType DEF ImageType, LayerType
<1>2. count' \in [commands : 0..MaxCommands, changes : 0..MaxChanges] /\ excused' \subseteq Images
  BY <1>0, CommandsAssumption DEF Artist, CommandTypeOK
<1>3. CommandTypeOK'
  BY <1>0, <1>1, <1>2 DEF CommandTypeOK, StoreTypeOK, ImageType, LayerType
<1>4. Points'
  BY <1>0 DEF Points
<1>5. \A j \in Images : image'[j].open => image[j].open
  BY <1>0, DeletedIs DEF ImageType, Changed, ImageState
<1>6. Displays'
  <2>1. \A j \in Images : image'[j].shown => image[j].shown
    BY <1>0, DeletedIs DEF ImageType, Changed, ImageState
  <2>2. image'[1].made
    BY <1>0, DeletedIs, StoreAssumption DEF ImageType, Changed, ImageState, Displays, Images
  <2> QED BY <1>0, <1>5, <2>1, <2>2 DEF Displays, DisplaysAreOwned, Open
<1>7. Savings'
  <2>1. excused \subseteq excused'
    BY DEF Artist
  <2>2. \A j \in Images : \/ image'[j].dirty = image[j].dirty /\ image'[j].unsaved = image[j].unsaved
                          \/ ~image'[j].unsaved
                          \/ j = i /\ image'[j].dirty
    BY <1>0, DeletedIs DEF ImageType, Changed, ImageState
  <2>3. pc \in {"clean", "shut"} /\ i = cmd.on => cmd.on \in excused'
    BY <1>0 DEF Artist, Points
  <2>4. pc \in {"clean", "shut"} => cmd.on \in Images
    BY <1>0 DEF Points, CommandTypeOK, ImageMakers
  <2> QED BY <1>0, <2>1, <2>2, <2>3, <2>4 DEF Savings
<1>8. Creations'
  <2>1. \A j \in Images : Tree(j)' \subseteq Tree(j)
    BY <1>0, DeletedIs DEF Tree
  <2>2. Loose' \subseteq Loose
    BY <1>0, DeletedIs DEF Loose
  <2> QED
    BY <1>0, <2>1, <2>2 DEF Creations, CreationIsUndone, Points, CommandTypeOK, ImageMakers, Tree
<1> QED BY <1>3, <1>4, <1>6, <1>7, <1>8 DEF CommandInv

(* The invariant holds before the first command. *)
LEMMA CommandInitHolds == ASSUME CommandInit PROVE CommandInv
<1>1. 1 \in Images /\ 0 \notin Images
  BY StoreAssumption DEF Images
<1>2. ImageType /\ LayerType
  <2>1. NoImage \in ImageState
        /\ [NoImage EXCEPT !.made = TRUE, !.open = TRUE, !.shown = TRUE] \in ImageState
    BY DEF NoImage, ImageState
  <2>2. NoLayer \in LayerState
        /\ [NoLayer EXCEPT !.of = 1, !.attached = TRUE, !.made = TRUE] \in LayerState
    BY <1>1 DEF NoLayer, LayerState
  <2> QED BY <2>1, <2>2 DEF CommandInit, StoreInit, ImageType, LayerType
<1>3. CommandTypeOK
  <2>1. cmd \in [op : Commands \cup {"none", "export_preview"}, on : {0} \cup Images,
                 consent : BOOLEAN]
    BY DEF CommandInit
  <2>2. count \in [commands : 0..MaxCommands, changes : 0..MaxChanges]
    BY CommandsAssumption DEF CommandInit
  <2> QED
    BY <1>2, <2>1, <2>2
    DEF CommandInit, StoreInit, CommandTypeOK, StoreTypeOK, ImageType, LayerType
<1>4. Displays
  BY <1>1 DEF CommandInit, StoreInit, NoImage, Displays, DisplaysAreOwned, Open, ImageMakers
<1>5. \A i \in Images : ~image[i].unsaved
  BY DEF CommandInit, StoreInit, NoImage
<1> QED
  BY <1>3, <1>4, <1>5
  DEF CommandInv, CommandInit, Points, Savings, Creations, CreationIsUndone, CommandPoints,
      PreviewPoints, ImageMakers, LayerMakers

(* Images are closed by close_image at "shut", and by nothing else there.  *)
LEMMA ShutWithConsent ==
    ASSUME CommandInv, CommandStep, NEW i \in Images, image[i].unsaved, image[i].open,
           ~image'[i].open, pc = "shut"
    PROVE  cmd.consent \/ i \in excused
<1>1. Shut
  BY
  DEF CommandStep, MakeImage, MakeLayer, FillNew, NameNew, InsertNew, SettleText, Undo,
      SelectNew,
         Display, Flush, Place, Alter, Remove, Flatten, Write, CleanAll, CheckArtifact, Isolate,
         CopyAndSave, DropIsolated, Close
<1>2. image' # image /\ cmd.op = "close_image"
  BY DEF CommandInv, Points
<1>3. Here = cmd.on /\ cmd.on \in Images
  BY <1>2 DEF Here, ImageMakers, CommandInv, CommandTypeOK, Points
<1>4. Deleted(cmd.on)
  BY <1>1, <1>2, <1>3 DEF Shut, storeVars
<1>5. i = cmd.on
  BY <1>3, <1>4, DeletedIs DEF CommandInv, CommandTypeOK, StoreTypeOK, ImageType, LayerType
<1> QED BY <1>5 DEF CommandInv, Savings
===============================================================================
