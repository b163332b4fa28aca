--------------------------- MODULE PaintShape_proofs ---------------------------
(***************************************************************************)
(* Theorems about PaintShape, for every number of calls.                   *)
(***************************************************************************)
EXTENDS PaintShape, TLAPS

(* The points at which the context of the command is on the stack.         *)
Pushed == {"configure", "select", "colour", "fill", "exact", "restore", "remove", "pop"}

(* The stack is one higher than before the call exactly between push and   *)
(* pop, and nothing below the top is touched.                              *)
Stack ==
    /\ pc # "idle" => call \in Calls
    /\ pc \in Pushed => Len(context) = Len(start) + 1
    /\ pc \in {"save", "push", "release", "flush"} => Len(context) = Len(start)
    /\ ContextIsKept

(* A restoration is tried under an exact context only.                     *)
Exactness == pc = "restore" => ~Active.feather /\ ~Active.antialias

(* Where the original selection of the current call is at each point, and  *)
(* what the errors so far say of it.                                       *)
Custody ==
    /\ pc = "save" => /\ selection = original[call] /\ channel[call] = NoMask
                      /\ told = {}
    /\ pc = "push" => /\ selection = original[call] /\ channel[call] = original[call]
                      /\ told = {}
    /\ pc = "release" => /\ selection = original[call] /\ channel[call] = original[call]
                         /\ told = {"unpushed"}
    /\ pc \in {"configure", "select", "colour", "fill"} =>
          channel[call] = original[call] /\ told = {}
    /\ pc \in {"exact", "restore"} =>
          channel[call] = original[call] /\ told \subseteq {"shape"}
    /\ pc = "remove" => /\ selection = original[call] /\ channel[call] = original[call]
                        /\ told \subseteq {"shape"}
    /\ pc = "pop" => /\ told \subseteq {"shape", "recovery", "left", "raised"}
                     /\ "recovery" \notin told => selection = original[call]
                     /\ "recovery" \in told => channel[call] = original[call]
                     /\ channel[call] # NoMask <=> told \cap AboutChannel # {}
    /\ pc = "flush" => selection = original[call] /\ channel[call] = NoMask /\ told = {}

(* What is known of the pixels at each point.                              *)
Pixels ==
    /\ pc \in {"save", "push", "release", "configure", "select", "colour", "fill"} => ~painted
    /\ pc \in {"exact", "restore", "remove", "pop", "flush"} /\ "shape" \notin told => painted

(* A channel is saved by a call that began, and the originals of earlier   *)
(* calls are the one of this call or in channels of earlier calls.         *)
Earlier ==
    /\ \A j \in Calls : j > call => channel[j] = NoMask
    /\ \A k \in 1..call : \/ original[k] = original[call]
                          \/ \E j \in 1..(call - 1) : channel[j] = original[k]

IInv == TypeOK /\ Stack /\ Exactness /\ Custody /\ Pixels /\ Earlier
           /\ SelectionIsReported /\ PaintIsReported

-----------------------------------------------------------------------------
(* Sequences with the same elements are the same: the stack after the pop. *)
LEMMA SameSequence ==
    ASSUME NEW S, NEW s \in Seq(S), NEW t \in Seq(S), Len(s) = Len(t),
           \A i \in 1..Len(t) : s[i] = t[i]
    PROVE  s = t
OBVIOUS

(* Activating settings changes the top of the stack and nothing else.      *)
LEMMA ActivateTop ==
    ASSUME TypeOK, NEW s \in Settings, Activate(s)
    PROVE  /\ context' \in Seq(Settings) /\ Len(context') = Len(context)
           /\ Active' = s
           /\ \A i \in 1..(Len(context) - 1) : context'[i] = context[i]
           /\ context' # <<>>
<1>1. context \in Seq(Settings) /\ Len(context) \in Nat /\ Len(context) > 0
  BY DEF TypeOK
<1>2. context' = [context EXCEPT ![Len(context)] = s]
  BY DEF Activate
<1>3. context' \in Seq(Settings) /\ Len(context') = Len(context)
  BY <1>1, <1>2
<1>4. \A i \in 1..Len(context) : context'[i] = IF i = Len(context) THEN s ELSE context[i]
  BY <1>1, <1>2
<1>5. context'[Len(context')] = s
  BY <1>1, <1>3, <1>4
<1> QED BY <1>1, <1>3, <1>4, <1>5 DEF Active

(* The active settings are settings.                                       *)
LEMMA ActiveType ==
    ASSUME TypeOK
    PROVE  /\ Active \in Settings
           /\ Active.feather \in BOOLEAN /\ Active.antialias \in BOOLEAN
           /\ Active.paint \in {"user", "shape"}
<1>1. Active \in Settings
  BY DEF TypeOK, Active
<1> QED BY <1>1 DEF Settings

(* What each step does to the stack: a lemma for the actions that only     *)
(* change settings, which are the only ones that touch the top.            *)
LEMMA SettingsSteps ==
    ASSUME TypeOK, Configure \/ SetForeground \/ MakeExact
    PROVE  /\ context' \in Seq(Settings) /\ Len(context') = Len(context)
           /\ \A i \in 1..(Len(context) - 1) : context'[i] = context[i]
           /\ context' # <<>>
           /\ pc' = "restore" => ~Active'.feather /\ ~Active'.antialias
<1>a. /\ Active \in Settings
      /\ Active.feather \in BOOLEAN /\ Active.antialias \in BOOLEAN
      /\ Active.paint \in {"user", "shape"}
      /\ feather \in BOOLEAN
  BY ActiveType DEF TypeOK
<1>b. context \in Seq(Settings) /\ context # <<>>
  BY DEF TypeOK
<1>1. CASE Configure
  <2>1. PICK s \in Settings : Activate(s)
    BY <1>a, <1>1 DEF Configure, Settings
  <2>2. pc' # "restore"
    BY <1>1 DEF Configure, Go, Fail
  <2> QED BY <2>1, <2>2, ActivateTop
<1>2. CASE SetForeground
  <2>2. pc' # "restore"
    BY <1>2 DEF SetForeground, Go, Fail
  <2>3. CASE UNCHANGED context
    BY <1>b, <2>2, <2>3
  <2>4. CASE Activate([Active EXCEPT !.paint = "shape"])
    <3>1. [Active EXCEPT !.paint = "shape"] \in Settings
      BY <1>a DEF Settings
    <3> QED BY <2>2, <2>4, <3>1, ActivateTop
  <2> QED BY <1>2, <2>3, <2>4 DEF SetForeground
<1>3. CASE MakeExact
  <2>1. PICK f \in BOOLEAN, a \in BOOLEAN :
           /\ Activate([Active EXCEPT !.feather = f, !.antialias = a])
           /\ pc' = "restore" => f = FALSE /\ a = FALSE
    BY <1>a, <1>3 DEF MakeExact, Go, Fail
  <2>2. [Active EXCEPT !.feather = f, !.antialias = a] \in Settings
    BY <1>a, <2>1 DEF Settings
  <2>3. /\ [Active EXCEPT !.feather = f, !.antialias = a].feather = f
        /\ [Active EXCEPT !.feather = f, !.antialias = a].antialias = a
    BY <1>a DEF Settings
  <2> QED BY <2>1, <2>2, <2>3, ActivateTop
<1> QED BY <1>1, <1>2, <1>3

-----------------------------------------------------------------------------
(* The invariant holds at the start.                                       *)
LEMMA InitIInv == Init => IInv
<1> SUFFICES ASSUME Init PROVE IInv
  OBVIOUS
<1>1. TypeOK
  <2>1. PICK f \in BOOLEAN, a \in BOOLEAN :
           context = <<[feather |-> f, antialias |-> a, paint |-> "user"]>>
    BY DEF Init
  <2>2. [feather |-> f, antialias |-> a, paint |-> "user"] \in Settings
    BY DEF Settings
  <2>3. context \in Seq(Settings) /\ context # <<>>
    BY <2>1, <2>2
  <2>4. UserMask \in Masks
    BY DEF Masks
  <2>5. /\ channel \in [Calls -> Masks \cup {NoMask}]
        /\ original \in [Calls -> Masks]
    BY <2>4 DEF Init
  <2>6. call \in 0..MaxCalls
    BY BoundAssumption DEF Init
  <2> QED BY <2>3, <2>4, <2>5, <2>6 DEF Init, TypeOK, Points
<1>2. Stack /\ Exactness
  BY BoundAssumption DEF Init, Stack, Exactness, Pushed, ContextIsKept, Returned
<1>3. Custody /\ Pixels /\ SelectionIsReported /\ PaintIsReported
  BY DEF Init, Custody, Pixels, SelectionIsReported, PaintIsReported, Returned
<1>4. Earlier
  BY BoundAssumption DEF Init, Earlier, Calls
<1> QED BY <1>1, <1>2, <1>3, <1>4 DEF IInv

(* Types and the stack, one action at a time.                              *)
LEMMA StackStep == IInv /\ [Next]_vars => TypeOK' /\ Stack' /\ Exactness'
<1> SUFFICES ASSUME IInv, [Next]_vars
             PROVE  TypeOK' /\ Stack' /\ Exactness'
  OBVIOUS
<1> USE BoundAssumption, MasksAssumption
<1>a. TypeOK /\ Stack /\ Exactness
  BY DEF IInv
<1>b. /\ call \in Nat /\ MaxCalls \in Nat
      /\ context \in Seq(Settings) /\ context # <<>> /\ Len(context) \in Nat
      /\ start \in Seq(Settings) /\ start # <<>> /\ Len(start) \in Nat
      /\ Len(context) > 0 /\ Len(start) > 0
  BY <1>a DEF TypeOK
<1>1. CASE Arrive
  <2>1. TypeOK'
    <3>1. call' \in 0..MaxCalls
      BY <1>b, <1>1 DEF Arrive
    <3>2. /\ feather' \in BOOLEAN /\ painted' \in BOOLEAN
          /\ pc' \in Points /\ told' \subseteq Reports
      BY <1>1 DEF Arrive, Points, Reports
    <3>3. original' \in [Calls -> Masks]
      BY <1>a, <1>1 DEF TypeOK, Arrive
    <3>4. /\ UNCHANGED <<selection, channel, context>> /\ start' = context
      BY <1>1 DEF Arrive
    <3> QED BY <1>a, <3>1, <3>2, <3>3, <3>4 DEF TypeOK
  <2>2. call' \in Calls
    BY <1>b, <1>1 DEF Arrive, Calls
  <2>3. Stack' /\ Exactness'
    BY <1>b, <1>1, <2>2 DEF Stack, Exactness, Arrive, Pushed, ContextIsKept, Returned
  <2> QED BY <2>1, <2>3
<1>2. CASE SaveSelection
  <2>1. TypeOK'
    BY <1>a, <1>2 DEF TypeOK, SaveSelection, KeepMask, Go, Fail, historyVars, Points, Reports
  <2>2. Stack' /\ Exactness'
    BY <1>a, <1>b, <1>2 DEF Stack, Exactness, SaveSelection, Go, Fail, historyVars, Pushed,
                            ContextIsKept, Returned
  <2> QED BY <2>1, <2>2
<1>3. CASE PushContext
  <2>1. Active \in Settings
    BY <1>a, ActiveType
  <2>2. /\ Append(context, Active) \in Seq(Settings)
        /\ Len(Append(context, Active)) = Len(context) + 1
        /\ \A i \in 1..Len(context) : Append(context, Active)[i] = context[i]
        /\ Append(context, Active) # <<>>
    BY <1>b, <2>1
  <2>3. TypeOK'
    BY <1>a, <1>3, <2>2 DEF TypeOK, PushContext, Go, Fail, historyVars, Points, Reports
  <2>4. Stack' /\ Exactness'
    BY <1>a, <1>b, <1>3, <2>2 DEF Stack, Exactness, PushContext, Go, Fail, historyVars, Pushed,
                                  ContextIsKept, Returned
  <2> QED BY <2>3, <2>4
<1>4. CASE ReleaseUnused
  <2>1. TypeOK'
    BY <1>a, <1>4 DEF TypeOK, ReleaseUnused, KeepMask, Go, Fail, historyVars, Points, Reports
  <2>2. Stack' /\ Exactness'
    BY <1>a, <1>b, <1>4 DEF Stack, Exactness, ReleaseUnused, Go, Fail, historyVars, Pushed,
                            ContextIsKept, Returned
  <2> QED BY <2>1, <2>2
<1>5. CASE Configure \/ SetForeground \/ MakeExact
  <2>1. /\ context' \in Seq(Settings) /\ Len(context') = Len(context)
        /\ \A i \in 1..(Len(context) - 1) : context'[i] = context[i]
        /\ context' # <<>>
        /\ pc' = "restore" => ~Active'.feather /\ ~Active'.antialias
    BY <1>a, <1>5, SettingsSteps
  <2>2. /\ pc \in Pushed /\ pc' \in Pushed /\ pc' \in Points
        /\ told' \subseteq Reports
        /\ UNCHANGED <<selection, channel, painted, call, feather, original, start>>
    BY <1>a, <1>5 DEF Configure, SetForeground, MakeExact, Go, Fail, Pushed, historyVars,
                      TypeOK, Points, Reports
  <2>3. TypeOK'
    BY <1>a, <2>1, <2>2 DEF TypeOK
  <2>4. Stack'
    BY <1>a, <1>b, <2>1, <2>2 DEF Stack, Pushed, ContextIsKept, Returned
  <2> QED BY <2>1, <2>3, <2>4 DEF Exactness
<1>6. CASE SelectShape
  <2>1. TypeOK'
    BY <1>a, <1>6 DEF TypeOK, Stack, SelectShape, Go, Fail, historyVars, Points, Reports, Masks
  <2>2. Stack' /\ Exactness'
    BY <1>a, <1>b, <1>6 DEF Stack, Exactness, SelectShape, Go, Fail, historyVars, Pushed,
                            ContextIsKept, Returned
  <2> QED BY <2>1, <2>2
<1>7. CASE Fill
  <2>1. TypeOK'
    BY <1>a, <1>7 DEF TypeOK, Fill, Go, Fail, historyVars, Points, Reports
  <2>2. Stack' /\ Exactness'
    BY <1>a, <1>b, <1>7 DEF Stack, Exactness, Fill, Go, Fail, historyVars, Pushed,
                            ContextIsKept, Returned
  <2> QED BY <2>1, <2>2
<1>8. CASE RestoreSelection
  <2>0. channel[call] = original[call] /\ call \in Calls /\ original[call] \in Masks
    BY <1>8 DEF IInv, Custody, RestoreSelection, Stack, TypeOK
  <2>1. TypeOK'
    <3>1. selection' \in Masks
      <4>1. Spoiled(call) \in Masks
        BY <2>0 DEF Masks
      <4> QED BY <1>a, <1>8, <2>0, <4>1 DEF TypeOK, RestoreSelection, Selected
    <3> QED BY <1>a, <1>8, <3>1 DEF TypeOK, RestoreSelection, Go, Fail, historyVars,
                                    Points, Reports
  <2>2. Stack' /\ Exactness'
    BY <1>a, <1>b, <1>8 DEF Stack, Exactness, RestoreSelection, Go, Fail, historyVars, Pushed,
                            ContextIsKept, Returned
  <2> QED BY <2>1, <2>2
<1>9. CASE RemoveSaved
  <2>1. TypeOK'
    BY <1>a, <1>9 DEF TypeOK, RemoveSaved, KeepMask, Go, Fail, historyVars, Points, Reports
  <2>2. Stack' /\ Exactness'
    BY <1>a, <1>b, <1>9 DEF Stack, Exactness, RemoveSaved, Go, Fail, historyVars, Pushed,
                            ContextIsKept, Returned
  <2> QED BY <2>1, <2>2
<1>10. CASE PopContext
  <2>1. Len(context) = Len(start) + 1
    BY <1>a, <1>10 DEF Stack, PopContext, Pushed
  <2>2. /\ SubSeq(context, 1, Len(context) - 1) \in Seq(Settings)
        /\ Len(SubSeq(context, 1, Len(context) - 1)) = Len(start)
        /\ \A i \in 1..Len(start) : SubSeq(context, 1, Len(context) - 1)[i] = context[i]
        /\ SubSeq(context, 1, Len(context) - 1) # <<>>
    <3>2. SubSeq(context, 1, Len(context) - 1) \in Seq(Settings)
      BY <1>b, <2>1
    <3>3. Len(SubSeq(context, 1, Len(context) - 1)) = Len(start)
      BY <1>b, <2>1
    <3>4. \A i \in 1..Len(start) : SubSeq(context, 1, Len(context) - 1)[i] = context[i]
      BY <1>b, <2>1
    <3> QED BY <1>b, <3>2, <3>3, <3>4
  <2>3. TypeOK'
    BY <1>a, <1>10, <2>2 DEF TypeOK, PopContext, Go, Fail, historyVars, Points, Reports
  <2>4. Stack' /\ Exactness'
    BY <1>a, <1>b, <1>10, <2>1, <2>2 DEF Stack, Exactness, PopContext, Go, Fail, historyVars,
                                         Pushed, ContextIsKept, Returned
  <2> QED BY <2>3, <2>4
<1>11. CASE Flush
  <2>1. TypeOK'
    BY <1>a, <1>11 DEF TypeOK, Flush, historyVars, Points, Reports
  <2>2. Stack' /\ Exactness'
    BY <1>a, <1>b, <1>11 DEF Stack, Exactness, Flush, historyVars, Pushed, ContextIsKept, Returned
  <2> QED BY <2>1, <2>2
<1>12. CASE UNCHANGED vars
  BY <1>a, <1>12 DEF TypeOK, Stack, Exactness, ContextIsKept, Returned, Active, vars
<1> QED BY <1>1, <1>2, <1>3, <1>4, <1>5, <1>6, <1>7, <1>8, <1>9, <1>10, <1>11, <1>12 DEF Next

(* The original selection, its channel and the report, one action at a     *)
(* time.                                                                   *)
LEMMA CustodyStep ==
    IInv /\ [Next]_vars =>
       Custody' /\ Pixels' /\ SelectionIsReported' /\ PaintIsReported'
<1> SUFFICES ASSUME IInv, [Next]_vars
             PROVE  Custody' /\ Pixels' /\ SelectionIsReported' /\ PaintIsReported'
  OBVIOUS
<1> USE BoundAssumption, MasksAssumption
<1>a. /\ TypeOK /\ Stack /\ Exactness /\ Custody /\ Pixels /\ Earlier
      /\ SelectionIsReported /\ PaintIsReported
  BY DEF IInv
<1>b. /\ call \in Nat /\ selection \in Masks /\ NoMask \notin Masks
      /\ channel \in [Calls -> Masks \cup {NoMask}] /\ original \in [Calls -> Masks]
      /\ pc # "idle" => call \in Calls /\ original[call] # NoMask
  BY <1>a DEF TypeOK, Stack
<1>1. CASE Arrive
  <2>1. call' \in Calls /\ call' > call /\ original'[call'] = selection
    BY <1>b, <1>1 DEF Arrive, Calls
  <2>2. channel'[call'] = NoMask
    BY <1>a, <1>1, <2>1 DEF Earlier, Arrive
  <2> QED BY <1>1, <2>1, <2>2 DEF Arrive, Custody, Pixels, SelectionIsReported,
                                  PaintIsReported, Returned, AboutChannel
<1>2. CASE SaveSelection
  BY <1>a, <1>b, <1>2 DEF SaveSelection, KeepMask, Go, Fail, historyVars, Custody, Pixels,
                          SelectionIsReported, PaintIsReported, Returned, AboutChannel
<1>3. CASE PushContext
  BY <1>a, <1>b, <1>3 DEF PushContext, Go, Fail, historyVars, Custody, Pixels,
                          SelectionIsReported, PaintIsReported, Returned, AboutChannel
<1>4. CASE ReleaseUnused
  BY <1>a, <1>b, <1>4 DEF ReleaseUnused, KeepMask, Go, Fail, historyVars, Custody, Pixels,
                          SelectionIsReported, PaintIsReported, Returned, AboutChannel
<1>5. CASE Configure \/ SetForeground \/ MakeExact
  BY <1>a, <1>b, <1>5 DEF Configure, SetForeground, MakeExact, Go, Fail, historyVars, Custody,
                          Pixels, SelectionIsReported, PaintIsReported, Returned, AboutChannel
<1>6. CASE SelectShape
  BY <1>a, <1>b, <1>6 DEF SelectShape, Go, Fail, historyVars, Custody, Pixels,
                          SelectionIsReported, PaintIsReported, Returned, AboutChannel
<1>7. CASE Fill
  BY <1>a, <1>b, <1>7 DEF Fill, Go, Fail, historyVars, Custody, Pixels,
                          SelectionIsReported, PaintIsReported, Returned, AboutChannel
<1>8. CASE RestoreSelection
  <2>1. Selected(channel[call]) = original[call]
    BY <1>a, <1>8 DEF RestoreSelection, Exactness, Custody, Selected
  <2> QED BY <1>a, <1>b, <1>8, <2>1 DEF RestoreSelection, Go, Fail, historyVars, Custody, Pixels,
                          SelectionIsReported, PaintIsReported, Returned, AboutChannel
<1>9. CASE RemoveSaved
  BY <1>a, <1>b, <1>9 DEF RemoveSaved, KeepMask, Go, Fail, historyVars, Custody, Pixels,
                          SelectionIsReported, PaintIsReported, Returned, AboutChannel
<1>10. CASE PopContext
  BY <1>a, <1>b, <1>10 DEF PopContext, Go, Fail, historyVars, Custody, Pixels,
                          SelectionIsReported, PaintIsReported, Returned, AboutChannel
<1>11. CASE Flush
  <2>1. context = start
    BY <1>a, <1>11, SameSequence DEF TypeOK, Stack, ContextIsKept, Flush
  <2> QED BY <1>a, <1>b, <1>11, <2>1 DEF Flush, historyVars, Custody, Pixels,
                          SelectionIsReported, PaintIsReported, Returned, AboutChannel
<1>12. CASE UNCHANGED vars
  BY <1>a, <1>12 DEF Custody, Pixels, SelectionIsReported, PaintIsReported, Returned, vars
<1> QED BY <1>1, <1>2, <1>3, <1>4, <1>5, <1>6, <1>7, <1>8, <1>9, <1>10, <1>11, <1>12 DEF Next

(* A call touches no channel but its own, and begins with what is left.    *)
LEMMA EarlierStep == IInv /\ [Next]_vars => Earlier'
<1> SUFFICES ASSUME IInv, [Next]_vars PROVE Earlier'
  OBVIOUS
<1> USE BoundAssumption
<1>a. TypeOK /\ Stack /\ Custody /\ Earlier /\ SelectionIsReported
  BY DEF IInv
<1>b. /\ call \in Nat /\ MaxCalls \in Nat
      /\ channel \in [Calls -> Masks \cup {NoMask}] /\ original \in [Calls -> Masks]
  BY <1>a DEF TypeOK
<1>1. CASE Arrive
  <2>1. /\ call' = call + 1 /\ call' \in Calls /\ channel' = channel
        /\ original'[call'] = selection
        /\ \A k \in 1..call : original'[k] = original[k]
    BY <1>b, <1>1 DEF Arrive, Calls
  <2>2. ASSUME call > 0
        PROVE  original[call] = selection \/ channel[call] = original[call]
    BY <1>a, <1>1, <2>2 DEF Arrive, SelectionIsReported, Returned
  <2>3. ASSUME NEW k \in 1..call'
        PROVE  \/ original'[k] = original'[call']
               \/ \E j \in 1..(call' - 1) : channel'[j] = original'[k]
    <3>1. CASE k = call'
      BY <3>1
    <3>2. CASE k \in 1..call
      <4>1. /\ call > 0 /\ call \in 1..(call' - 1)
            /\ \A j \in 1..(call - 1) : j \in 1..(call' - 1)
        BY <1>b, <2>1, <3>2
      <4>2. CASE original[k] = original[call]
        BY <2>1, <2>2, <3>2, <4>1, <4>2
      <4>3. CASE \E j \in 1..(call - 1) : channel[j] = original[k]
        BY <2>1, <3>2, <4>1, <4>3
      <4> QED BY <1>a, <3>2, <4>2, <4>3 DEF Earlier
    <3> QED BY <1>b, <2>1, <3>1, <3>2
  <2>4. \A j \in Calls : j > call' => channel'[j] = NoMask
    BY <1>a, <1>b, <2>1 DEF Earlier, Calls
  <2> QED BY <2>3, <2>4 DEF Earlier
<1>2. CASE ~Arrive
  <2>1. /\ call' = call /\ original' = original
        /\ \A j \in Calls : j # call => channel'[j] = channel[j]
    BY <1>b, <1>2 DEF Next, vars, historyVars, SaveSelection, PushContext, ReleaseUnused,
           Configure, SelectShape, SetForeground, Fill, MakeExact, RestoreSelection,
           RemoveSaved, PopContext, Flush, KeepMask
  <2>2. \A j \in 1..(call - 1) : j \in Calls /\ j # call
    BY <1>a, <1>b DEF TypeOK, Calls
  <2>3. \A j \in Calls : j > call => channel'[j] = NoMask
    BY <1>a, <1>b, <2>1 DEF Earlier, Calls
  <2> QED BY <1>a, <2>1, <2>2, <2>3 DEF Earlier
<1> QED BY <1>1, <1>2

(* The invariant is inductive: the three lemmas together.                  *)
THEOREM CustodyHolds == Spec => []IInv
<1>1. IInv /\ [Next]_vars => IInv'
  BY StackStep, CustodyStep, EarlierStep DEF IInv
<1> QED BY InitIInv, <1>1, PTL DEF Spec

(* Every variable of the command keeps its type; the stack is never empty. *)
THEOREM PaintTypeCorrect == Spec => []TypeOK
<1>1. IInv => TypeOK
  BY DEF IInv
<1> QED BY CustodyHolds, <1>1, PTL

(* No mask that was selected when a call began is ever lost (1747-1775).   *)
THEOREM NoMaskIsLost == Spec => []EveryMaskKept
<1>1. IInv => EveryMaskKept
  <2> SUFFICES ASSUME IInv, NEW k \in 1..call
               PROVE  original[k] = selection \/ \E j \in Calls : channel[j] = original[k]
    BY DEF EveryMaskKept
  <2>a. TypeOK /\ Stack /\ Custody /\ Earlier /\ SelectionIsReported
    BY DEF IInv
  <2>b. call \in Calls /\ call > 0 /\ \A j \in 1..(call - 1) : j \in Calls
    BY <2>a, BoundAssumption DEF TypeOK, Calls
  <2>1. original[call] = selection \/ channel[call] = original[call]
    BY <2>a, <2>b DEF Custody, SelectionIsReported, Returned, TypeOK, Points
  <2> QED BY <2>a, <2>b, <2>1 DEF Earlier
<1> QED BY CustodyHolds, <1>1, PTL

(* What the report says, or does not say, of selection, channel and pixels *)
(* is so (1660-1680, 1711-1718, 1744-1798).                                *)
THEOREM ReportsAreTrue == Spec => [](SelectionIsReported /\ PaintIsReported)
<1>1. IInv => SelectionIsReported /\ PaintIsReported
  BY DEF IInv
<1> QED BY CustodyHolds, <1>1, PTL

(* A success painted, and a refusal did not (_paint_shape).                *)
THEOREM PaintReportsAreTrue == Spec => []PaintIsReported
BY ReportsAreTrue, PTL

(* The contexts below the one of the command are never touched, and the    *)
(* stack comes back unless the report says otherwise (1714-1780).          *)
THEOREM ContextsAreKept == Spec => []ContextIsKept
<1>1. IInv => ContextIsKept
  BY DEF IInv, Stack
<1> QED BY CustodyHolds, <1>1, PTL
================================================================================
