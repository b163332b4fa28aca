-------------------------- MODULE ExportPreview_proofs --------------------------
(***************************************************************************)
(* Theorems about the image commands and the preview, for every number of  *)
(* images, layers, commands and changes.                                   *)
(***************************************************************************)
EXTENDS ExportPreview, ImageCommands_proofs, SequenceTheorems

Settings == {"user", "nohalo"}

(* The context of the preview is on the stack the command met.             *)
OnTop == /\ Len(context) = Len(start) + 1
         /\ \A n \in 1..Len(start) : context[n] = start[n]

PreviewTypeOK ==
    /\ target \in {"free", "foreign", "picture"}
    /\ staging \in {"none", "dir", "file"}
    /\ context \in Seq(Settings) /\ start \in Seq(Settings)
    /\ Len(start) >= 1 /\ Len(context) >= 1 /\ Len(context) <= count.commands + 1
    /\ pc \in {"admit", "stage", "push"} => Len(context) <= count.commands
    /\ interpolation \in Settings
    /\ faults \subseteq {"native", "cleanup"}
    /\ pushed \in BOOLEAN /\ published \in BOOLEAN /\ drift \in BOOLEAN /\ picture \in BOOLEAN
    /\ swings \in 0..count.changes

(* What is left to clean up at each point, unless a cleanup failed.        *)
Cleaning ==
    /\ pc \in {"stage", "push"} => context = start /\ ~pushed
    /\ pc \in {"nohalo", "duplicate", "render"} => OnTop /\ pushed
    /\ pc \in {"release", "pop"} => IF pushed THEN OnTop ELSE context = start
    /\ pc = "pop" /\ "cleanup" \notin faults => made \notin Open
    /\ pc \in {"compare", "verify"} /\ "cleanup" \notin faults =>
          context = start /\ made \notin Open
    /\ pc = "publish" => context = start /\ made \notin Open

(* What the errors say at the end of a preview.                            *)
Reporting ==
    /\ pc \in PreviewPoints \ {"sweep"} => told = {}
    /\ pc \in PreviewPoints \ {"admit", "sweep"} => ~published
    /\ pc = "sweep" /\ published => told = {}
    /\ pc = "sweep" /\ ~published => told # {} /\ told \cap {"ok", "publishedUnswept"} = {}
    /\ PreviewReportIsTrue

(* The source leaves its first state by a change, and returns by another.  *)
Drifting ==
    /\ drift => swings >= 1
    /\ picture => swings >= 1
    /\ picture /\ ~drift => swings >= 2
    /\ pc = "publish" => ~picture \/ swings >= 2

PreviewInv == PreviewTypeOK /\ Cleaning /\ Reporting /\ Drifting
IInv == CommandInv /\ PreviewInv

-----------------------------------------------------------------------------
(* Points of a preview, and what its steps leave alone.                    *)
LEMMA PreviewMoves ==
    ASSUME IInv, PreviewStep
    PROVE  /\ pc \in PreviewPoints /\ cmd.op = "export_preview"
           /\ pc' \in PreviewPoints \cup {"idle"}
           /\ pc' # "idle" => "ok" \notin told'
           /\ UNCHANGED <<owned, unmoved>>
           /\ \/ UNCHANGED <<image, layer, made>>
              \/ Duplicate \/ ReleaseDuplicate
<1>1. Points /\ Creations
  BY DEF IInv, CommandInv
<1> USE DEF Points, Creations, PreviewPoints, Go, Report, Native, Onward, Uncleaned,
            storeVars, unmoved,
            frame
<1>2. CASE Admit BY <1>1, <1>2 DEF Admit
<1>3. CASE Stage BY <1>1, <1>3 DEF Stage
<1>4. CASE PushContext BY <1>1, <1>4 DEF PushContext
<1>5. CASE SelectNoHalo BY <1>1, <1>5 DEF SelectNoHalo
<1>6. CASE Duplicate BY <1>1, <1>6 DEF Duplicate
<1>7. CASE Render BY <1>1, <1>7 DEF Render
<1>8. CASE ReleaseDuplicate BY <1>1, <1>8 DEF ReleaseDuplicate, Deleted
<1>9. CASE PopContext BY <1>1, <1>9 DEF PopContext
<1>10. CASE CompareSetting BY <1>1, <1>10 DEF CompareSetting
<1>11. CASE Verify BY <1>1, <1>11 DEF Verify
<1>12. CASE Publish BY <1>1, <1>12 DEF Publish
<1>13. CASE Sweep BY <1>1, <1>13 DEF Sweep
<1> QED
  BY <1>2, <1>3, <1>4, <1>5, <1>6, <1>7, <1>8, <1>9, <1>10, <1>11, <1>12, <1>13 DEF PreviewStep

(* The images are as well kept by a preview as by the other commands.      *)
LEMMA PreviewKeepsImages ==
    ASSUME IInv, PreviewStep PROVE CommandInv'
<1>0. CommandInv /\ CommandTypeOK /\ Points /\ Displays /\ Savings /\ ImageType /\ LayerType
  BY DEF IInv, CommandInv, CommandTypeOK, StoreTypeOK, ImageType, LayerType
<1>1. Points' /\ Creations'
  BY <1>0, PreviewMoves
  DEF Points, Creations, CreationIsUndone, PreviewPoints, ImageMakers, LayerMakers, unmoved, frame
<1>2. /\ CommandTypeOK' /\ image'[1].made /\ made' # 1
      /\ \A i \in Images : image'[i].shown /\ image'[i].open => image[i].shown /\ image[i].open
      /\ \A i \in Images : \/ ~image'[i].unsaved
                           \/ image'[i].unsaved = image[i].unsaved /\ image'[i].dirty = image[i].dirty
  <2>1. CASE UNCHANGED <<image, layer, made>>
    BY <1>0, <2>1, PreviewMoves DEF CommandTypeOK, StoreTypeOK, Displays, unmoved, frame
  <2>2. CASE Duplicate
    <3>1. CASE CanMakeImage /\ made' = NextImage /\ image' = NewImage /\ layer' = layer
      <4>1. CommandTypeOK'
        BY <1>0, <3>1, NewImageType, PreviewMoves
        DEF CommandTypeOK, StoreTypeOK, ImageType, CanMakeImage, unmoved, frame
      <4>2. NextImage # 1 /\ image[1].made /\ 1 \in Images
        BY <1>0, NextImageIsNew, StoreAssumption DEF Displays, CommandTypeOK, Images
      <4> QED BY <1>0, <3>1, <4>1, <4>2, NewImageIs DEF CanMakeImage
    <3>2. \/ UNCHANGED <<image, layer, made>>
          \/ (CanMakeImage /\ made' = NextImage /\ image' = NewImage /\ layer' = layer)
      BY <2>2 DEF Duplicate
    <3> QED BY <2>1, <3>1, <3>2
  <2>3. CASE ReleaseDuplicate
    <3>1. CASE made # 0 /\ Deleted(made) /\ made' = made
      <4>1. CommandTypeOK'
        BY <1>0, <3>1, DeletedType, PreviewMoves
        DEF CommandTypeOK, StoreTypeOK, ImageType, LayerType, unmoved, frame
      <4>2. made \in Images /\ made # 1
        BY <1>0, <3>1 DEF CommandTypeOK, Displays
      <4> QED BY <1>0, <3>1, <4>1, <4>2, DeletedIs, StoreAssumption DEF Displays, Images
    <3>2. UNCHANGED <<image, layer, made>> \/ (made # 0 /\ Deleted(made) /\ made' = made)
      BY <2>3 DEF ReleaseDuplicate
    <3> QED BY <2>1, <3>1, <3>2
  <2> QED BY <2>1, <2>2, <2>3, PreviewMoves
<1>3. Displays'
  BY <1>0, <1>2, PreviewMoves DEF Displays, DisplaysAreOwned, Open, ImageMakers, unmoved, frame
<1>4. Savings'
  BY <1>0, <1>2, PreviewMoves DEF Savings, PreviewPoints, unmoved, frame
<1> QED BY <1>1, <1>2, <1>3, <1>4 DEF CommandInv

-----------------------------------------------------------------------------
(* The stack of contexts.                                                  *)
LEMMA ActiveType ==
    ASSUME context \in Seq(Settings), Len(context) >= 1 PROVE Active \in Settings
BY DEF Active

(* A pushed context is on top, *)
LEMMA PushedTop ==
    ASSUME context \in Seq(Settings), Len(context) >= 1, NEW v \in Settings,
           context' = Append(context, v)
    PROVE  /\ context' \in Seq(Settings) /\ Len(context') = Len(context) + 1
           /\ \A n \in 1..Len(context) : context'[n] = context[n]
OBVIOUS

(* a changed one stays there, *)
LEMMA ActivatedTop ==
    ASSUME context \in Seq(Settings), Len(context) >= 1, NEW v \in Settings, context' = Activate(v)
    PROVE  /\ context' \in Seq(Settings) /\ Len(context') = Len(context)
           /\ \A n \in 1..(Len(context) - 1) : context'[n] = context[n]
BY DEF Activate

(* and popping brings back the one below. *)
LEMMA PoppedTop ==
    ASSUME context \in Seq(Settings), start \in Seq(Settings), OnTop,
           context' = SubSeq(context, 1, Len(context) - 1)
    PROVE  context' = start
<1>1. Len(context) = Len(start) + 1 /\ Len(start) \in Nat
  BY DEF OnTop
<1>2. context' \in Seq(Settings) /\ Len(context') = Len(start)
  BY <1>1
<1>3. \A n \in 1..Len(start) : context'[n] = start[n]
  BY <1>1 DEF OnTop
<1> QED BY <1>2, <1>3, SeqEqual

(* A step of a preview.                                                    *)
LEMMA PreviewStepKeeps ==
    ASSUME IInv, PreviewStep PROVE PreviewInv'
<1>0. /\ PreviewTypeOK /\ Cleaning /\ Reporting /\ Drifting
      /\ pc \in PreviewPoints /\ cmd.op = "export_preview"
      /\ count.commands \in Nat /\ count.changes \in Nat
      /\ 0 \notin Open /\ made \in {0} \cup Images
  BY PreviewMoves, StoreAssumption, CommandsAssumption
  DEF IInv, PreviewInv, CommandInv, CommandTypeOK, Open, Images
<1>1. CASE Admit
  <2>0. /\ pc = "admit" /\ staging' = "none" /\ pushed' = FALSE /\ faults' = {} /\ published' = FALSE
        /\ UNCHANGED <<target, context, cmd, count>>
    BY <1>1 DEF Admit, unmoved, frame
  <2>1. CASE /\ Go("stage") /\ drift' = FALSE /\ picture' = FALSE /\ swings' = 0
             /\ interpolation' = Active /\ start' = context
    <3>1. ~drift' /\ ~picture' /\ drift' \in BOOLEAN /\ picture' \in BOOLEAN
      BY <2>1
    <3>2. /\ swings' \in 0..count'.changes /\ start' = context' /\ Len(start') >= 1
          /\ interpolation' \in Settings /\ pc' = "stage" /\ told' = {}
      BY <1>0, <2>0, <2>1, ActiveType DEF Go, PreviewTypeOK, Reporting, PreviewPoints
    <3>3. ~published' /\ ~pushed' /\ published' \in BOOLEAN /\ pushed' \in BOOLEAN
      BY <2>0
    <3>4. PreviewTypeOK'
      BY <1>0, <1>1, <2>0, <3>1, <3>2, <3>3 DEF Admit, PreviewTypeOK
    <3> QED
      BY <1>0, <2>0, <3>1, <3>2, <3>3, <3>4
      DEF PreviewInv, Cleaning, Reporting, PreviewReportIsTrue, Previewed, Drifting, PreviewPoints
  <2>2. CASE Report({"refused"}) /\ UNCHANGED <<sourceVars, interpolation>>
    BY <1>0, <2>0, <2>2
    DEF PreviewInv, PreviewTypeOK, Cleaning, Reporting, PreviewReportIsTrue, Previewed, Drifting,
        Report, sourceVars, PreviewPoints
  <2> QED BY <1>1, <2>1, <2>2 DEF Admit
<1>2. CASE Stage
  BY <1>0, <1>2
  DEF Stage, PreviewInv, PreviewTypeOK, Cleaning, Reporting, PreviewReportIsTrue, Previewed,
      Drifting,
      OnTop, Go, Report, unmoved, frame, sourceVars, contextVars, storeVars, PreviewPoints
<1>3. CASE PushContext
  <2>1. CASE context' = Append(context, Active) /\ pushed' = TRUE /\ Onward("nohalo")
    BY <1>0, <1>3, <2>1, ActiveType, PushedTop
    DEF PushContext, PreviewInv, PreviewTypeOK, Cleaning, Reporting, PreviewReportIsTrue,
        Previewed,
        Drifting, OnTop, Onward, Go, unmoved, frame, sourceVars, fileVars, storeVars,
        PreviewPoints
  <2>2. CASE UNCHANGED <<context, pushed>> /\ Native("release")
    BY <1>0, <1>3, <2>2
    DEF PushContext, PreviewInv, PreviewTypeOK, Cleaning, Reporting, PreviewReportIsTrue,
        Previewed,
        Drifting, OnTop, Native, unmoved, frame, sourceVars, fileVars, storeVars, PreviewPoints
  <2> QED BY <1>3, <2>1, <2>2 DEF PushContext
<1>4. CASE SelectNoHalo
  <2>1. context' = context \/ context' = Activate("nohalo")
    BY <1>4 DEF SelectNoHalo
  <2>2. /\ context' \in Seq(Settings) /\ Len(context') = Len(context)
        /\ OnTop'
    BY <1>0, <1>4, <2>1, ActivatedTop
    DEF SelectNoHalo, PreviewTypeOK, Cleaning, OnTop, Settings, sourceVars
  <2> QED
    BY <1>0, <1>4, <2>2
    DEF SelectNoHalo, PreviewInv, PreviewTypeOK, Cleaning, Reporting, PreviewReportIsTrue,
        Previewed,
        Drifting, Onward, Native, Go, unmoved, frame, sourceVars, fileVars, storeVars,
        PreviewPoints
<1>5. CASE Duplicate
  <2>0. /\ pc = "duplicate" /\ pc' \in {"render", "release"} /\ told' = told
        /\ faults' \subseteq {"native", "cleanup"}
        /\ UNCHANGED <<fileVars, contextVars, published, drift, swings, start, cmd, count>>
    BY <1>0, <1>5 DEF Duplicate, PreviewTypeOK, Onward, Native, Go, unmoved, frame
  <2>1. picture' = picture \/ picture' = drift
    BY <1>5 DEF Duplicate
  <2>2. picture' \in BOOLEAN
    BY <1>0, <2>1 DEF PreviewTypeOK
  <2>3. (picture' <=> picture) \/ (picture' <=> drift)
    BY <2>1
  <2> QED
    BY <1>0, <2>0, <2>2, <2>3
    DEF PreviewInv, PreviewTypeOK, Cleaning, Reporting, PreviewReportIsTrue, Previewed, Drifting,
        OnTop, contextVars, fileVars, PreviewPoints
<1>6. CASE Render
  BY <1>0, <1>6
  DEF Render, PreviewInv, PreviewTypeOK, Cleaning, Reporting, PreviewReportIsTrue, Previewed,
      Drifting, OnTop, Onward, Native, Go, unmoved, frame, contextVars, sourceVars,
      storeVars, PreviewPoints
<1>7. CASE ReleaseDuplicate
  <2>1. "cleanup" \notin faults' => made' \notin Open'
    BY <1>0, <1>7, DeletedIs
    DEF ReleaseDuplicate, Onward, Uncleaned, Go, Open, IInv, CommandInv, CommandTypeOK,
        StoreTypeOK,
        ImageType, LayerType, Images
  <2> QED
    BY <1>0, <1>7, <2>1
    DEF ReleaseDuplicate, PreviewInv, PreviewTypeOK, Cleaning, Reporting, PreviewReportIsTrue,
        Previewed, Drifting, OnTop, Onward, Uncleaned, Go, unmoved, frame, contextVars,
        sourceVars, fileVars, PreviewPoints
<1>8. CASE PopContext
  <2>1. CASE pushed /\ context' = SubSeq(context, 1, Len(context) - 1) /\ Onward("compare")
    <3>1. context' = start /\ Len(start) = Len(context) - 1 /\ Len(start) >= 1
      BY <1>0, <1>8, <2>1, PoppedTop DEF PopContext, Cleaning, PreviewTypeOK, OnTop
    <3> QED
      BY <1>0, <1>8, <2>1, <3>1
      DEF PopContext, PreviewInv, PreviewTypeOK, Cleaning, Reporting, PreviewReportIsTrue,
        Previewed, Drifting, Onward, Uncleaned, Go, unmoved, frame, sourceVars, storeVars,
        fileVars, PreviewPoints, Open
  <2>2. CASE UNCHANGED context /\ (Uncleaned("compare") \/ (~pushed /\ Onward("compare")))
    BY <1>0, <1>8, <2>2
    DEF PopContext, PreviewInv, PreviewTypeOK, Cleaning, Reporting, PreviewReportIsTrue,
        Previewed, Drifting, Onward, Uncleaned, Go, unmoved, frame, sourceVars, storeVars,
        fileVars, PreviewPoints, Open
  <2> QED BY <1>8, <2>1, <2>2 DEF PopContext
<1>9. CASE CompareSetting
  <2>1. context' \in Seq(Settings) /\ Len(context') = Len(context)
    BY <1>0, <1>9, ActivatedTop DEF CompareSetting, PreviewTypeOK
  <2> QED
    BY <1>0, <1>9, <2>1
    DEF CompareSetting, PreviewInv, PreviewTypeOK, Cleaning, Reporting, PreviewReportIsTrue,
        Previewed, Drifting, Onward, Uncleaned, Go, unmoved, frame, sourceVars, storeVars,
        fileVars, PreviewPoints, Open
<1>10. CASE Verify
  BY <1>0, <1>10
  DEF Verify, PreviewInv, PreviewTypeOK, Cleaning, Reporting, PreviewReportIsTrue, Previewed,
      Drifting, Go, unmoved, frame, previewVars, storeVars, PreviewPoints, Open
<1>11. CASE Publish
  <2>0. /\ pc = "publish" /\ pc' = "sweep"
        /\ UNCHANGED <<contextVars, faults, sourceVars, cmd, count>>
    BY <1>11 DEF Publish, unmoved, frame
  <2>1. CASE /\ published' = TRUE /\ told' = told /\ target' = "picture"
             /\ staging' \in {staging, "dir"}
    BY <1>0, <2>0, <2>1
    DEF PreviewInv, PreviewTypeOK, Cleaning, Reporting, PreviewReportIsTrue, Previewed, Drifting,
        contextVars, sourceVars, PreviewPoints
  <2>2. CASE told' = {"publish"} /\ UNCHANGED <<fileVars, published>>
    BY <1>0, <2>0, <2>2
    DEF PreviewInv, PreviewTypeOK, Cleaning, Reporting, PreviewReportIsTrue, Previewed, Drifting,
        contextVars, sourceVars, fileVars, PreviewPoints
  <2> QED BY <1>11, <2>1, <2>2 DEF Publish
<1>12. CASE Sweep
  <2>0. /\ pc = "sweep" /\ pc' = "idle"
        /\ drift' = FALSE /\ picture' = FALSE /\ swings' = 0 /\ pushed' = FALSE /\ faults' = {}
        /\ UNCHANGED <<target, context, interpolation, published, start, cmd, count>>
    BY <1>12 DEF Sweep, unmoved, frame
  <2>1. staging' \in {"none", "dir", "file"}
    BY <1>0, <1>12 DEF Sweep, PreviewTypeOK
  <2>2. PreviewReportIsTrue'
    <3>1. CASE staging' = "none" /\ told' = IF told = {} THEN {"ok"} ELSE told
      BY <1>0, <2>0, <3>1 DEF Reporting, PreviewReportIsTrue
    <3>2. CASE told' = IF published THEN {"publishedUnswept"} ELSE {"unswept"}
      BY <2>0, <3>2 DEF PreviewReportIsTrue
    <3> QED BY <1>12, <3>1, <3>2 DEF Sweep
  <2>3. /\ ~drift' /\ ~picture' /\ ~pushed'
        /\ drift' \in BOOLEAN /\ picture' \in BOOLEAN /\ pushed' \in BOOLEAN
    BY <2>0
  <2>4. swings' \in 0..count'.changes
    BY <1>0, <2>0
  <2>5. PreviewTypeOK'
    BY <1>0, <2>0, <2>1, <2>3, <2>4 DEF PreviewTypeOK
  <2> QED
    BY <1>0, <2>0, <2>2, <2>3, <2>5
    DEF PreviewInv, Cleaning, Reporting, Drifting, PreviewPoints
<1> QED
  BY <1>1, <1>2, <1>3, <1>4, <1>5, <1>6, <1>7, <1>8, <1>9, <1>10, <1>11, <1>12 DEF PreviewStep

(* A step of another command leaves the preview alone.                     *)
LEMMA CommandsKeepPreview ==
    ASSUME IInv, Arrive(Commands \cup Previews) \/ CommandStep, UNCHANGED previewVars
    PROVE  IInv'
<1>0. /\ PreviewTypeOK /\ Cleaning /\ Reporting /\ Drifting /\ CommandInv
      /\ count.commands \in Nat /\ count.changes \in Nat
  BY CommandsAssumption DEF IInv, PreviewInv, CommandInv, CommandTypeOK
<1>1. CASE Arrive(Commands \cup Previews)
  <2>1. CommandInv'
    BY <1>0, <1>1, ArriveKeeps DEF Previews
  <2>2. /\ pc = "idle" /\ pc' \notin (PreviewPoints \ {"admit"}) \cup {"idle"} /\ told' = {}
        /\ count' = [count EXCEPT !.commands = @ + 1]
    BY <1>1 DEF Arrive, First, Commands, Previews, ImageMakers, LayerMakers, PreviewPoints
  <2>3. count'.commands = count.commands + 1 /\ count'.changes = count.changes
    BY <1>0, <2>2 DEF CommandInv, CommandTypeOK
  <2>4. PreviewTypeOK'
    BY <1>0, <2>2, <2>3 DEF PreviewTypeOK, previewVars
  <2>5. Cleaning' /\ Reporting' /\ Drifting'
    BY <1>0, <2>2 DEF Cleaning, Reporting, PreviewReportIsTrue, Previewed, Drifting, previewVars,
                      PreviewPoints
  <2> QED BY <2>1, <2>4, <2>5 DEF IInv, PreviewInv
<1>2. CASE CommandStep
  <2>1. CommandInv'
    BY <1>0, <1>2, CommandStepKeeps
  <2>2. /\ pc' \in CommandPoints \cup {"idle"} /\ cmd.op # "export_preview"
        /\ UNCHANGED <<cmd, count>>
    BY <1>0, <1>2, <2>1, PointsStep DEF CommandInv, Points, CommandPoints, PreviewPoints
  <2>3. PreviewInv'
    BY <1>0, <2>2
    DEF PreviewInv, PreviewTypeOK, Cleaning, Reporting, PreviewReportIsTrue, Previewed, Drifting,
        previewVars, CommandPoints, PreviewPoints, OnTop
  <2> QED BY <2>1, <2>3 DEF IInv
<1> QED BY <1>1, <1>2

(* What the artist and another program do.                                 *)
LEMMA OthersKeep ==
    ASSUME IInv, (\E i \in Images : ArtistMoves(i)) \/ Outsider PROVE IInv'
<1>0. /\ PreviewTypeOK /\ Cleaning /\ Reporting /\ Drifting /\ CommandInv
      /\ count.commands \in Nat /\ count.changes \in Nat
  BY CommandsAssumption DEF IInv, PreviewInv, CommandInv, CommandTypeOK
<1>1. ASSUME NEW i \in Images, ArtistMoves(i) PROVE IInv'
  <2>1. CommandInv'
    BY <1>0, <1>1, ArtistKeeps DEF ArtistMoves
  <2>2. /\ UNCHANGED <<cmd, pc, made, told, fileVars, contextVars, faults, published, picture, start>>
        /\ count' = [count EXCEPT !.changes = @ + 1]
    BY <1>1 DEF ArtistMoves, Artist
  <2>3. count'.commands = count.commands /\ count'.changes = count.changes + 1
    BY <1>0, <2>2 DEF CommandInv, CommandTypeOK
  <2>4. Open' \subseteq Open
    BY <1>0, <1>1, DeletedIs
    DEF ArtistMoves, Artist, Open, Changed, CommandInv, CommandTypeOK, StoreTypeOK, ImageState,
        ImageType, LayerType
  <2>5. /\ drift' \in BOOLEAN
        /\ \/ (drift' <=> drift) /\ swings' = swings
           \/ swings' = swings + 1
    BY <1>0, <1>1 DEF ArtistMoves, PreviewTypeOK
  <2>6. Drifting'
    BY <1>0, <2>2, <2>5 DEF Drifting, PreviewTypeOK
  <2>7. PreviewTypeOK'
    BY <1>0, <2>2, <2>3, <2>5 DEF PreviewTypeOK, fileVars, contextVars
  <2>8. Cleaning' /\ Reporting'
    BY <1>0, <2>2, <2>4 DEF Cleaning, Reporting, PreviewReportIsTrue, Previewed, OnTop, fileVars,
                            contextVars
  <2> QED BY <2>1, <2>6, <2>7, <2>8 DEF IInv, PreviewInv
<1>2. CASE Outsider
  <2>1. /\ UNCHANGED <<storeVars, cmd, pc, made, item, inserted, wrote, told, excused, staging,
                       contextVars, faults, published, sourceVars>>
        /\ target' = "foreign"
        /\ count' = [count EXCEPT !.changes = @ + 1] /\ count.changes < MaxChanges
    BY <1>2 DEF Outsider
  <2>2. count' \in [commands : 0..MaxCommands, changes : 0..MaxChanges]
        /\ count'.commands = count.commands /\ count'.changes = count.changes + 1
    BY <1>0, <2>1, CommandsAssumption DEF CommandInv, CommandTypeOK
  <2>3. CommandInv'
    BY <1>0, <2>1, <2>2
    DEF CommandInv, CommandTypeOK, StoreTypeOK, Points, Displays, DisplaysAreOwned, Open, Savings,
        Creations, CreationIsUndone, Tree, Loose, storeVars
  <2>4. PreviewInv'
    BY <1>0, <2>1, <2>2
    DEF PreviewInv, PreviewTypeOK, Cleaning, Reporting, PreviewReportIsTrue, Previewed, Drifting,
        OnTop, Open, storeVars, contextVars, sourceVars
  <2> QED BY <2>3, <2>4 DEF IInv
<1> QED BY <1>1, <1>2

(* Stuttering keeps the invariant. *)
LEMMA Stutter == ASSUME IInv, UNCHANGED vars PROVE IInv'
BY DEF vars, commandVars, storeVars, previewVars, IInv, PreviewInv, PreviewTypeOK, Cleaning,
       Reporting, PreviewReportIsTrue, Previewed, Drifting, OnTop, Open, CommandInv, CommandTypeOK,
       StoreTypeOK, Points, Displays, DisplaysAreOwned, Savings, Creations, CreationIsUndone,
       Tree, Loose

-----------------------------------------------------------------------------
(* IInv is an invariant of the commands and the preview together.          *)
THEOREM ImagesHold == Spec => []IInv
<1>1. Init => IInv
  <2> SUFFICES ASSUME Init PROVE IInv
    OBVIOUS
  <2>1. CommandInv
    BY CommandInitHolds DEF Init
  <2>2. <<"user">> \in Seq(Settings) /\ Len(<<"user">>) = 1
    BY DEF Settings
  <2>3. /\ pc = "idle" /\ cmd.op = "none" /\ count.commands = 0 /\ count.changes = 0
        /\ context = <<"user">> /\ start = <<"user">> /\ swings = 0
        /\ ~pushed /\ ~published /\ ~drift /\ ~picture
        /\ {pushed, published, drift, picture} \subseteq BOOLEAN
    BY DEF Init, CommandInit
  <2>4. PreviewTypeOK
    BY <2>2, <2>3 DEF Init, PreviewTypeOK, Settings
  <2>5. PreviewInv
    BY <2>3, <2>4
    DEF PreviewInv, Cleaning, Reporting, PreviewReportIsTrue, Previewed, Drifting, PreviewPoints
  <2> QED BY <2>1, <2>5 DEF IInv
<1>2. IInv /\ [Next]_vars => IInv'
  BY CommandsKeepPreview, PreviewKeepsImages, PreviewStepKeeps, OthersKeep, Stutter
  DEF Next, IInv
<1> QED BY <1>1, <1>2, PTL DEF Spec

(* Every variable keeps its type, whatever fails.                          *)
THEOREM ImagesTypeCorrect == Spec => []TypeOK
<1>1. IInv => TypeOK
  <2> SUFFICES ASSUME IInv PROVE TypeOK
    OBVIOUS
  <2>1. Len(context) \in 1..MaxCommands + 1 /\ swings \in 0..MaxChanges
    BY CommandsAssumption DEF IInv, PreviewInv, PreviewTypeOK, CommandInv, CommandTypeOK
  <2>2. {pushed, published, drift, picture} \subseteq BOOLEAN
    BY DEF IInv, PreviewInv, PreviewTypeOK
  <2> QED
    BY <2>1, <2>2 DEF IInv, PreviewInv, PreviewTypeOK, CommandInv, TypeOK, Settings
<1> QED BY <1>1, ImagesHold, PTL

(* The plug-in knows every display it opened (_owned_displays), and none   *)
(* of the artist's.                                                        *)
THEOREM DisplaysStayOwned == Spec => []DisplaysAreOwned
<1>1. IInv => DisplaysAreOwned
  BY DEF IInv, CommandInv, Displays
<1> QED BY <1>1, ImagesHold, PTL

(* A failed group or text is gone or reported (_cleanup_new_layer).        *)
THEOREM CreationsAreSettled == Spec => []CreationIsUndone
<1>1. IInv => CreationIsUndone
  BY DEF IInv, CommandInv, Creations
<1> QED BY <1>1, ImagesHold, PTL

(* What export_preview reports of the destination and of what it left.     *)
THEOREM PreviewReportsAreTrue == Spec => []PreviewReportIsTrue
<1>1. IInv => PreviewReportIsTrue
  BY DEF IInv, PreviewInv, Reporting
<1> QED BY <1>1, ImagesHold, PTL

(* close_image drops no unsaved work without consent.                      *)
THEOREM ConsentToClose == Spec => ClosedWithConsent
<1>1. ASSUME IInv, [Next]_vars, NEW i \in owned, image[i].unsaved, image[i].open, ~image'[i].open,
             pc = "shut", pc' = "idle"
      PROVE  cmd.consent \/ i \in excused
  <2>1. i \in Images /\ CommandInv
    BY <1>1 DEF IInv, CommandInv, CommandTypeOK, StoreTypeOK
  <2>2. CASE CommandStep
    BY <1>1, <2>1, <2>2, ShutWithConsent
  <2>3. CASE PreviewStep
    BY <1>1, <2>3, PreviewMoves DEF PreviewPoints
  <2>4. CASE Arrive(Commands \cup Previews)
    BY <1>1, <2>4 DEF Arrive
  <2>5. CASE (\E j \in Images : ArtistMoves(j)) \/ Outsider \/ UNCHANGED vars
    BY <1>1, <2>5 DEF ArtistMoves, Artist, Outsider, vars, commandVars
  <2> QED BY <1>1, <2>2, <2>3, <2>4, <2>5 DEF Next
<1>2. IInv /\ [Next]_vars =>
        [\A i \in owned : image[i].unsaved /\ image[i].open /\ ~image'[i].open /\ pc = "shut"
            /\ pc' = "idle" => cmd.consent \/ i \in excused]_commandStepVars
  BY <1>1
<1> QED BY <1>2, ImagesHold, PTL DEF Spec, ClosedWithConsent

(* Only Publish puts the picture at the destination.                       *)
LEMMA OnlyPublish ==
    ASSUME [Next]_vars, target' # target PROVE Publish \/ (Outsider /\ target' = "foreign")
BY DEF Next, PreviewStep, Admit, Stage, PushContext, SelectNoHalo, Duplicate, Render,
       ReleaseDuplicate, PopContext, CompareSetting, Verify, Sweep, ArtistMoves, Outsider,
       vars, previewVars, fileVars

(* A file that is there is replaced only where the caller asked for it.    *)
THEOREM NothingReplacedUnasked == Spec => NeverReplacedUnasked
<1>1. ASSUME [Next]_vars, target = "foreign", target' = "picture" PROVE cmd.consent
  <2>1. Publish
    BY <1>1, OnlyPublish
  <2> QED BY <1>1, <2>1 DEF Publish, fileVars
<1>2. [Next]_vars => [target = "foreign" /\ target' = "picture" => cmd.consent]_vars
  BY <1>1
<1> QED BY <1>2, PTL DEF Spec, NeverReplacedUnasked

(* Nothing is published before GIMP is as it was found.                    *)
THEOREM CleanBeforePublished == Spec => PublishedAfterCleanup
<1>1. IInv /\ [Next]_vars =>
        [pc = "publish" /\ target' # target => context = start /\ made \notin Open]_vars
  BY DEF IInv, PreviewInv, Cleaning
<1> QED BY <1>1, ImagesHold, PTL DEF Spec, PublishedAfterCleanup

(* A published picture is of the fingerprinted source, unless the artist   *)
(* changed it and undid the change.                                        *)
THEOREM PicturesAreOfTheSource == Spec => PictureIsOfTheSource
<1>1. IInv /\ [Next]_vars => [pc = "publish" /\ published' => ~picture \/ swings > 1]_vars
  BY CommandsAssumption
  DEF IInv, PreviewInv, PreviewTypeOK, Drifting, CommandInv, CommandTypeOK
<1> QED BY <1>1, ImagesHold, PTL DEF Spec, PictureIsOfTheSource
===============================================================================
