------------------------------ MODULE LayersProofs ------------------------------
(***************************************************************************)
(* Proofs about Layers, for any set of items and any number of events.     *)
(*                                                                         *)
(* Every action of the store but setActiveInfoSection returns what         *)
(* normalizeOpenedLayers made, and that is sound whatever it is given      *)
(* (NormalizeIsSound); setActiveInfoSection changes a section for another. *)
(* So the type and StackIsSound are inductive together.                    *)
(*                                                                         *)
(* A sound stack is one of six (Stacks), and for each the path that        *)
(* getPathByState makes of it opens it again (PathRoundTrip).  The effect  *)
(* that compares the two is due after every event that changes either, so  *)
(* that they stay in step unless a navigation to the rendered path takes   *)
(* the place of the one the effect asked for (StepKeepsInStep).            *)
(***************************************************************************)
EXTENDS Layers, TLAPS

SoundState(s) == s \in LayersState /\ Sound(s)

\* Whatever normalizeOpenedLayers is given, it returns a sound stack.
LEMMA NormalizeIsSound ==
  ASSUME NEW opened \in SUBSET Layer, NEW last, NEW object \in Object \cup {""},
         NEW section \in Section \cup {""}
  PROVE  SoundState(normalizeOpenedLayers(opened, last, object, section))
<1> DEFINE exclusive ==
             IF "info" \notin opened THEN {}
             ELSE IF "checkout" \in opened THEN {"info"}
             ELSE IF "details" \notin opened THEN {}
             ELSE IF last = "details" THEN {"info"} ELSE {"details"}
           noObject == IF object = "" THEN {"details"} ELSE {}
           kept     == opened \ (exclusive \cup noObject)
           above    == {"objects", "details", "info", "checkout"}
           stack    == IF kept \cap above = {} THEN {"about"}
                       ELSE kept \cup {"about", "objects"}
           result   == normalizeOpenedLayers(opened, last, object, section)
<1>1. /\ kept \subseteq Layer
      /\ "info" \in kept => kept \cap {"details", "checkout"} = {}
      /\ "details" \in kept => object # ""
  BY DEF Layer
<1>2. /\ result.opened = stack
      /\ result.object = IF "objects" \in stack THEN object ELSE ""
      /\ result.section = IF "objects" \notin stack THEN ""
                          ELSE IF "info" \in stack /\ section = "" THEN DefaultSection
                          ELSE section
      /\ result = [opened |-> result.opened, object |-> result.object,
                   section |-> result.section]
  BY DEF normalizeOpenedLayers
<1> HIDE DEF kept, result
<1>3. /\ stack \subseteq Layer /\ "about" \in stack
      /\ stack \cap {"details", "info", "checkout"} # {} => "objects" \in stack
      /\ "info" \in stack => stack \cap {"details", "checkout"} = {}
      /\ "details" \in stack => object # ""
  BY <1>1 DEF Layer
<1> HIDE DEF stack
<1>4. DefaultSection \in Section /\ "" \notin Section
  BY DEF DefaultSection, Section
<1>5. result \in LayersState
  BY <1>2, <1>3, <1>4 DEF LayersState
<1>6. Sound(result)
  BY <1>2, <1>3, <1>4 DEF Sound, Layer
<1> QED
  BY <1>5, <1>6 DEF SoundState, result

\* So does each action of the store.
LEMMA openLayerSound ==
  ASSUME NEW s, SoundState(s), NEW layer \in Layer
  PROVE  SoundState(openLayer(s, layer))
<1>1. /\ s.opened \cup {layer} \in SUBSET Layer
      /\ s.object \in Object \cup {""} /\ s.section \in Section \cup {""}
  BY DEF SoundState, LayersState
<1>2. SoundState(normalizeOpenedLayers(s.opened \cup {layer}, layer, s.object, s.section))
  BY <1>1, NormalizeIsSound
<1> QED
  BY <1>2 DEF openLayer

LEMMA closeLayerSound ==
  ASSUME NEW s, SoundState(s), NEW layer
  PROVE  SoundState(closeLayer(s, layer))
  BY NormalizeIsSound DEF closeLayer, SoundState, LayersState

LEMMA toggleLayerSound ==
  ASSUME NEW s, SoundState(s), NEW layer \in Layer
  PROVE  SoundState(toggleLayer(s, layer))
  BY openLayerSound, closeLayerSound DEF toggleLayer

LEMMA setActiveObjectIdSound ==
  ASSUME NEW s, SoundState(s), NEW id \in Object
  PROVE  SoundState(setActiveObjectId(s, id))
  BY NormalizeIsSound DEF setActiveObjectId, SoundState, LayersState

LEMMA setActiveInfoSectionSound ==
  ASSUME NEW s, SoundState(s), NEW section \in Section
  PROVE  SoundState(setActiveInfoSection(s, section))
  BY DEF setActiveInfoSection, SoundState, LayersState, Sound, Section

LEMMA setRouteStateSound ==
  ASSUME NEW s, SoundState(s), NEW p \in Path
  PROVE  SoundState(setRouteState(s, p))
<1> DEFINE id == IF p.route \in {"/object/:id", "/object/:id/checkout"} THEN p.arg
                 ELSE s.object
           section == IF p.route = "/info/:section" /\ p.arg \in Section THEN p.arg ELSE ""
<1>1. id \in Object \cup {""}
  BY DEF Path, SoundState, LayersState
<1>2. section \in Section \cup {""}
  OBVIOUS
<1>3. getLayersByPath(p) \in SUBSET Layer
  BY DEF getLayersByPath, Layer
<1> QED
  BY <1>1, <1>2, <1>3, NormalizeIsSound DEF setRouteState

LEMMA ClosedLayersSound == SoundState(ClosedLayers)
  BY DEF ClosedLayers, SoundState, LayersState, Sound, Layer

LEMMA PathOfState ==
  ASSUME NEW s \in LayersState
  PROVE  getPathByState(s) \in Path
  BY DEF getPathByState, Path, Plain, LayersState, DefaultSection, Section

\* The count of events stays within its bound.
LEMMA NextEvent ==
  ASSUME NEW n \in 0 .. MaxEvents, n < MaxEvents
  PROVE  n + 1 \in 0 .. MaxEvents
<1>1. MaxEvents \in Nat
  BY LayersAssumption
<1> QED
  BY <1>1

SoundInv == LayersTypeOK /\ StackIsSound

\* What a handler leaves is sound if its new state is.
LEMMA UserEventInv ==
  ASSUME SoundInv, NEW next, SoundState(next), NEW newArray \in BOOLEAN,
         UserEvent(next, newArray)
  PROVE  SoundInv'
<1>1. events' \in 0 .. MaxEvents
  BY NextEvent DEF SoundInv, LayersTypeOK, UserEvent
<1>2. effect' \in BOOLEAN
  BY DEF SoundInv, LayersTypeOK, UserEvent
<1>3. layers' \in LayersState /\ StackIsSound'
  BY DEF SoundState, StackIsSound, UserEvent
<1> QED
  BY <1>1, <1>2, <1>3 DEF SoundInv, LayersTypeOK, UserEvent

LEMMA LayersInitInv == LayersInit => SoundInv
<1> SUFFICES ASSUME LayersInit PROVE SoundInv
  OBVIOUS
<1>1. SoundState(layers)
  BY ClosedLayersSound, setRouteStateSound DEF LayersInit
<1>2. navigation = {}
  BY DEF LayersInit
<1>3. events \in 0 .. MaxEvents
  <2>1. MaxEvents \in Nat
    BY LayersAssumption
  <2>2. events = 0
    BY DEF LayersInit
  <2> QED
    BY <2>1, <2>2
<1> QED
  BY <1>1, <1>2, <1>3 DEF LayersInit, SoundInv, LayersTypeOK, StackIsSound, SoundState

LEMMA LayersStep == SoundInv /\ [LayersNext]_layersVars => SoundInv'
<1> SUFFICES ASSUME SoundInv, [LayersNext]_layersVars PROVE SoundInv'
  OBVIOUS
<1>0. SoundState(layers)
  BY DEF SoundInv, LayersTypeOK, StackIsSound, SoundState
<1>1. ASSUME NEW id \in Object, ClickCard(id) PROVE SoundInv'
  <2>1. SoundState(openLayer(setActiveObjectId(layers, id), "details"))
    BY <1>0, setActiveObjectIdSound, openLayerSound DEF Layer
  <2> QED
    BY <1>1, <2>1, UserEventInv DEF ClickCard
<1>2. CASE CloseDetails
  BY <1>0, <1>2, closeLayerSound, UserEventInv DEF CloseDetails
<1>3. CASE ClickCartButton
  <2>1. SoundState(toggleLayer(layers, "checkout"))
    BY <1>0, toggleLayerSound DEF Layer
  <2> QED
    BY <1>3, <2>1, UserEventInv DEF ClickCartButton
<1>4. CASE CloseInfo
  BY <1>0, <1>4, closeLayerSound, UserEventInv DEF CloseInfo
<1>5. CASE ClickCircle
  BY <1>5, ClosedLayersSound, UserEventInv DEF ClickCircle
<1>6. ASSUME NEW section \in Section, ClickInfo(section) PROVE SoundInv'
  <2>1. SoundState(openLayer(setActiveInfoSection(layers, section), "info"))
    BY <1>0, setActiveInfoSectionSound, openLayerSound DEF Layer
  <2>2. ("info" \notin layers.opened) \in BOOLEAN
    OBVIOUS
  <2> QED
    BY <1>6, <2>1, <2>2, UserEventInv DEF ClickInfo
<1>7. ASSUME NEW p \in Path, Browse(p) PROVE SoundInv'
  <2>1. events' \in 0 .. MaxEvents
    BY <1>7, NextEvent DEF Browse, SoundInv, LayersTypeOK
  <2>2. navigation' \in SUBSET Path /\ \A q, r \in navigation' : q = r
    BY <1>7 DEF Browse
  <2> QED
    BY <1>7, <2>1, <2>2 DEF Browse, SoundInv, LayersTypeOK, StackIsSound
<1>8. CASE Navigated
  <2>1. PICK p \in navigation :
          /\ navigation' = {} /\ path' = p /\ UNCHANGED events
          /\ IF p = path THEN UNCHANGED <<layers, effect>>
             ELSE layers' = setRouteState(layers, p) /\ effect' = TRUE
    BY <1>8 DEF Navigated
  <2>2. p \in Path /\ effect' \in BOOLEAN
    BY <2>1 DEF SoundInv, LayersTypeOK
  <2>3. SoundState(layers')
    BY <1>0, <2>1, <2>2, setRouteStateSound
  <2> QED
    BY <2>1, <2>2, <2>3 DEF SoundInv, LayersTypeOK, StackIsSound, SoundState
<1>9. CASE SyncPath
  <2>1. getPathByState(layers) \in Path
    BY <1>0, PathOfState DEF SoundState
  <2> QED
    BY <1>9, <2>1 DEF SyncPath, SoundInv, LayersTypeOK, StackIsSound
<1>10. CASE UNCHANGED layersVars
  BY <1>10 DEF layersVars, SoundInv, LayersTypeOK, StackIsSound
<1> QED
  BY <1>1, <1>2, <1>3, <1>4, <1>5, <1>6, <1>7, <1>8, <1>9, <1>10 DEF LayersNext

\* The store, the path and the navigations keep their types.
THEOREM LayersTypeCorrect == LayersSpec => []LayersTypeOK
<1>1. SoundInv => LayersTypeOK
  BY DEF SoundInv
<1> QED
  BY <1>1, LayersInitInv, LayersStep, PTL DEF LayersSpec

\* The layers are stacked as designed, whatever the user does.
THEOREM StackIsSoundTheorem == LayersSpec => []StackIsSound
<1>1. SoundInv => StackIsSound
  BY DEF SoundInv
<1> QED
  BY <1>1, LayersInitInv, LayersStep, PTL DEF LayersSpec
-------------------------------------------------------------------------------
\* A page load of the path

\* The six stacks there are.
Designed ==
  {{"about"}, {"about", "objects"}, {"about", "objects", "details"},
   {"about", "objects", "checkout"}, {"about", "objects", "info"},
   {"about", "objects", "details", "checkout"}}

LEMMA Stacks ==
  ASSUME NEW s, SoundState(s)
  PROVE  s.opened \in Designed
<1> USE DEF Designed
<1>1. s.opened \subseteq Layer /\ "about" \in s.opened
  BY DEF SoundState, LayersState, Sound
<1>2. CASE "objects" \notin s.opened
  <2>1. s.opened = {"about"}
    BY <1>1, <1>2 DEF SoundState, Sound, Layer
  <2> QED
    BY <2>1
<1>3. CASE "objects" \in s.opened /\ "info" \in s.opened
  <2>1. s.opened = {"about", "objects", "info"}
    BY <1>1, <1>3 DEF SoundState, Sound, Layer
  <2> QED
    BY <2>1
<1>4. CASE "objects" \in s.opened /\ "info" \notin s.opened
  <2>1. CASE "details" \in s.opened /\ "checkout" \in s.opened
    <3>1. s.opened = {"about", "objects", "details", "checkout"}
      BY <1>1, <1>4, <2>1 DEF Layer
    <3> QED
      BY <3>1
  <2>2. CASE "details" \in s.opened /\ "checkout" \notin s.opened
    <3>1. s.opened = {"about", "objects", "details"}
      BY <1>1, <1>4, <2>2 DEF Layer
    <3> QED
      BY <3>1
  <2>3. CASE "details" \notin s.opened /\ "checkout" \in s.opened
    <3>1. s.opened = {"about", "objects", "checkout"}
      BY <1>1, <1>4, <2>3 DEF Layer
    <3> QED
      BY <3>1
  <2>4. CASE "details" \notin s.opened /\ "checkout" \notin s.opened
    <3>1. s.opened = {"about", "objects"}
      BY <1>1, <1>4, <2>4 DEF Layer
    <3> QED
      BY <3>1
  <2> QED
    BY <2>1, <2>2, <2>3, <2>4
<1> QED
  BY <1>2, <1>3, <1>4

\* normalizeOpenedLayers leaves a stack that is already as designed.
LEMMA NormalizeKeeps ==
  ASSUME NEW opened \in Designed, NEW last, NEW object, "details" \in opened => object \in Object,
         NEW section
  PROVE  /\ normalizeOpenedLayers(opened, last, object, section).opened = opened
         /\ "details" \in opened =>
              normalizeOpenedLayers(opened, last, object, section).object = object
<1> DEFINE exclusive ==
             IF "info" \notin opened THEN {}
             ELSE IF "checkout" \in opened THEN {"info"}
             ELSE IF "details" \notin opened THEN {}
             ELSE IF last = "details" THEN {"info"} ELSE {"details"}
           noObject == IF object = "" THEN {"details"} ELSE {}
           kept     == opened \ (exclusive \cup noObject)
           above    == {"objects", "details", "info", "checkout"}
           stack    == IF kept \cap above = {} THEN {"about"}
                       ELSE kept \cup {"about", "objects"}
<1>1. exclusive = {}
  BY DEF Designed
<1>2. kept = opened
  BY <1>1, LayersAssumption
<1>3. stack = opened
  <2>1. CASE opened = {"about"}
    <3>1. kept \cap above = {}
      BY <1>2, <2>1
    <3> QED
      BY <2>1, <3>1
  <2>2. CASE opened # {"about"}
    <3>1. "about" \in opened /\ "objects" \in opened
      BY <2>2 DEF Designed
    <3>2. kept \cap above # {}
      BY <1>2, <3>1
    <3> HIDE DEF kept
    <3> QED
      BY <1>2, <3>1, <3>2
  <2> QED
    BY <2>1, <2>2
<1>4. /\ normalizeOpenedLayers(opened, last, object, section).opened = stack
      /\ normalizeOpenedLayers(opened, last, object, section).object =
           IF "objects" \in stack THEN object ELSE ""
  BY DEF normalizeOpenedLayers
<1>5. "details" \in opened => "objects" \in opened
  BY DEF Designed
<1> HIDE DEF stack
<1> QED
  BY <1>3, <1>4, <1>5

\* The deep link: the path of a sound stack opens that stack again.
LEMMA PathRoundTrip ==
  ASSUME NEW s, SoundState(s)
  PROVE  LET restored == setRouteState(ClosedLayers, getPathByState(s))
         IN  /\ restored.opened = s.opened
             /\ "details" \in s.opened => restored.object = s.object
<1> DEFINE p == getPathByState(s)
           id == IF p.route \in {"/object/:id", "/object/:id/checkout"} THEN p.arg
                 ELSE ""
           section == IF p.route = "/info/:section" /\ p.arg \in Section THEN p.arg ELSE ""
           none == ""
<1>1. /\ getLayersByPath(p) = s.opened
      /\ "details" \in s.opened => id = s.object
  <2>1. CASE s.opened = {"about"}
    <3>2. p.route = "/about"
      BY <2>1 DEF getPathByState, Plain
    <3>4. "details" \notin s.opened
      BY <2>1
    <3>3. getLayersByPath(p) = s.opened
      BY <2>1, <3>2 DEF getLayersByPath
    <3> QED
      BY <3>3, <3>4
  <2>2. CASE s.opened = {"about", "objects"}
    <3>2. p.route = "/"
      BY <2>2 DEF getPathByState, Plain
    <3>4. "details" \notin s.opened
      BY <2>2
    <3>3. getLayersByPath(p) = s.opened
      BY <2>2, <3>2 DEF getLayersByPath
    <3> QED
      BY <3>3, <3>4
  <2>3. CASE s.opened = {"about", "objects", "details"}
    <3>1. p = [route |-> "/object/:id", arg |-> s.object]
      BY <2>3 DEF getPathByState, SoundState, Sound
    <3> QED
      BY <2>3, <3>1 DEF getLayersByPath
  <2>4. CASE s.opened = {"about", "objects", "checkout"}
    <3>2. p.route = "/checkout"
      BY <2>4 DEF getPathByState, Plain
    <3>4. "details" \notin s.opened
      BY <2>4
    <3>3. getLayersByPath(p) = s.opened
      BY <2>4, <3>2 DEF getLayersByPath
    <3> QED
      BY <3>3, <3>4
  <2>5. CASE s.opened = {"about", "objects", "info"}
    <3>1. p.route = "/info/:section"
      BY <2>5 DEF getPathByState
    <3> QED
      BY <2>5, <3>1 DEF getLayersByPath
  <2>6. CASE s.opened = {"about", "objects", "details", "checkout"}
    <3>1. p = [route |-> "/object/:id/checkout", arg |-> s.object]
      BY <2>6 DEF getPathByState, SoundState, Sound
    <3> QED
      BY <2>6, <3>1 DEF getLayersByPath
  <2> QED
    BY <2>1, <2>2, <2>3, <2>4, <2>5, <2>6, Stacks DEF Designed
<1>2. setRouteState(ClosedLayers, p) = normalizeOpenedLayers(s.opened, none, id, section)
  BY <1>1 DEF setRouteState, ClosedLayers
<1>3. "details" \in s.opened => id \in Object
  BY <1>1 DEF SoundState, Sound, LayersState
<1> HIDE DEF p, id, section, none
<1>4. /\ normalizeOpenedLayers(s.opened, none, id, section).opened = s.opened
      /\ "details" \in s.opened =>
           normalizeOpenedLayers(s.opened, none, id, section).object = id
  <2>1. s.opened \in Designed
    BY Stacks
  <2> QED
    BY <1>3, <2>1, NormalizeKeeps
<1> QED
  BY <1>1, <1>2, <1>4 DEF p

-------------------------------------------------------------------------------
\* Layers and path stay in step

LEMMA StepKeepsInStep ==
  SoundInv /\ [LayersNext]_layersVars => (InStep => InStep' \/ Browse(path))
<1> SUFFICES ASSUME SoundInv, [LayersNext]_layersVars, InStep, ~Browse(path)
             PROVE  InStep'
  OBVIOUS
<1>0. SoundState(layers) /\ effect \in BOOLEAN
  BY DEF SoundInv, LayersTypeOK, StackIsSound, SoundState
<1>1. ASSUME effect' = TRUE PROVE InStep'
  BY <1>1 DEF InStep
<1>2. CASE (\E id \in Object : ClickCard(id)) \/ CloseDetails \/ ClickCartButton
             \/ CloseInfo \/ ClickCircle
  BY <1>1, <1>2 DEF ClickCard, CloseDetails, ClickCartButton, CloseInfo, ClickCircle,
                    UserEvent
<1>3. ASSUME NEW section \in Section, ClickInfo(section) PROVE InStep'
  <2>1. CASE "info" \notin layers.opened
    BY <1>1, <1>3, <2>1 DEF ClickInfo, UserEvent
  <2>2. CASE "info" \in layers.opened
    <3>1. "details" \notin layers.opened
      BY <1>0, <2>2 DEF SoundState, Sound
    <3>2. /\ layers' = setActiveInfoSection(layers, section)
          /\ UNCHANGED <<path, navigation>> /\ effect' = (effect \/ FALSE)
      <4>1. setActiveInfoSection(layers, section).opened = layers.opened
        BY <1>0 DEF setActiveInfoSection, SoundState, LayersState
      <4> QED
        BY <1>3, <2>2, <4>1 DEF ClickInfo, UserEvent, openLayer
    <3>3. layers'.opened = layers.opened /\ effect' = effect
      BY <1>0, <3>2 DEF setActiveInfoSection, SoundState, LayersState
    <3> QED
      BY <3>1, <3>2, <3>3 DEF InStep, PathRestores
  <2> QED
    BY <2>1, <2>2
<1>4. ASSUME NEW p \in Path, Browse(p) PROVE InStep'
  BY <1>4 DEF Browse, InStep
<1>5. CASE Navigated
  <2>1. PICK p \in navigation :
          /\ navigation' = {} /\ path' = p
          /\ IF p = path THEN UNCHANGED <<layers, effect>>
             ELSE layers' = setRouteState(layers, p) /\ effect' = TRUE
    BY <1>5 DEF Navigated
  <2>2. CASE p # path
    BY <1>1, <2>1, <2>2
  <2>3. CASE p = path
    <3>1. \A q \in navigation : q = path
      BY <2>1, <2>3 DEF SoundInv, LayersTypeOK
    <3> QED
      BY <2>1, <2>3, <3>1 DEF InStep, PathRestores
  <2> QED
    BY <2>2, <2>3
<1>6. CASE SyncPath
  <2>1. CASE getPathByState(layers) # path
    <3>1. navigation' = {getPathByState(layers)} /\ path' = path
      BY <1>6, <2>1 DEF SyncPath
    <3> QED
      BY <2>1, <3>1 DEF InStep
  <2>2. CASE getPathByState(layers) = path
    <3>1. UNCHANGED <<layers, path, navigation>>
      BY <1>6, <2>2 DEF SyncPath
    <3>2. PathRestores
      BY <1>0, <2>2, PathRoundTrip DEF PathRestores
    <3> QED
      BY <3>1, <3>2 DEF InStep, PathRestores
  <2> QED
    BY <2>1, <2>2
<1>7. CASE UNCHANGED layersVars
  BY <1>7 DEF layersVars, InStep, PathRestores
<1> QED
  BY <1>2, <1>3, <1>4, <1>5, <1>6, <1>7 DEF LayersNext

\* Only a navigation to the rendered path takes layers and path out of step, which
\* they are when the first render has hydrated the store: at rest and in step, a
\* page load of the path opens the layers that are open, however clicks, effects
\* and navigations came (App, getPathByState, setRouteState).
THEOREM StaysInStepTheorem ==
  LayersSpec => /\ StaysInStep
                /\ InStep
                /\ [](InStep => PathRestoresLayers)
<1> DEFINE Stays == InStep => InStep' \/ Browse(path)
<1>1. SoundInv /\ [LayersNext]_layersVars => [Stays]_layersVars
  BY StepKeepsInStep
<1>2. LayersInit => InStep
  BY DEF LayersInit, InStep
<1>3. InStep => PathRestoresLayers
  BY DEF InStep, PathRestoresLayers, AtRest
<1> QED
  BY <1>1, <1>2, <1>3, LayersInitInv, LayersStep, PTL DEF LayersSpec, StaysInStep
================================================================================
