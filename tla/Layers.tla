-------------------------------- MODULE Layers --------------------------------
(***************************************************************************)
(* The layered interface of the storefront: layers.store, the translation  *)
(* between layers and paths, the two effects of App that keep them in step *)
(* with React Router, and the controls that open and close layers.         *)
(*                                                                         *)
(* An event handler is one action.  App's layout effect runs with the      *)
(* render of a new path; its second effect runs some time after a render,  *)
(* and the navigation it asks for completes some time after that, with     *)
(* events in between.  activeLayer and lastActiveObjectId are left out:    *)
(* nothing reads the one, and the id in the URL precedes the other.        *)
(***************************************************************************)
EXTENDS Naturals

CONSTANTS
  Object,      \* ids of the items
  MaxEvents    \* events of the user (a bound)

ASSUME LayersAssumption == "" \notin Object /\ MaxEvents \in Nat

VARIABLES
  layers,      \* useLayersStore: openedLayers, activeObjectId, activeInfoSection
  path,        \* the path that is rendered
  effect,      \* App's second effect is due: a dependency of it changed
  navigation,  \* the navigation under way, at most one
  events       \* events of the user so far

layersVars == <<layers, path, effect, navigation, events>>

-------------------------------------------------------------------------------
Layer   == {"about", "objects", "details", "info", "checkout"}
Section == {"contacts", "delivery", "offer", "privacy", "personal-data-consent",
            "requisites"}
DefaultSection == "contacts"

\* openedLayers keeps LAYER_ORDER, so the set says it all; "" stands for null.
LayersState == [opened : SUBSET Layer, object : Object \cup {""},
                section : Section \cup {""}]

\* A path, by its route and the parameter of it.
Path == [route : {"/object/:id", "/object/:id/checkout"}, arg : Object]
        \cup [route : {"/info/:section"}, arg : Section \cup {"unknown"}]
        \cup [route : {"/about", "/", "/checkout", "/info", "*"}, arg : {""}]

Plain(route) == [route |-> route, arg |-> ""]

\* Mutant: details may stay without an object.
normalizeKeepsDetails(opened, last, object, section) ==
  LET kept  == IF {"info", "checkout"} \subseteq opened THEN opened \ {"info"} ELSE opened
      stack == IF kept \cap {"objects", "details", "info", "checkout"} = {}
               THEN {"about"} ELSE kept \cup {"about", "objects"}
  IN [opened |-> stack, object |-> IF "objects" \in stack THEN object ELSE "",
      section |-> IF "objects" \notin stack THEN ""
                  ELSE IF "info" \in stack /\ section = "" THEN DefaultSection ELSE section]

\* last is the layer that was appended to openedLayers: of info and details it
\* is the one kept, and without one the later in LAYER_ORDER, info.
normalizeOpenedLayers(opened, last, object, section) ==
  LET exclusive ==
        IF "info" \notin opened THEN {}
        ELSE IF "checkout" \in opened THEN {"info"}
        ELSE IF "details" \notin opened THEN {}
        ELSE IF last = "details" THEN {"info"} ELSE {"details"}
      noObject == IF object = "" THEN {"details"} ELSE {}
      kept     == opened \ (exclusive \cup noObject)
      stack    == IF kept \cap {"objects", "details", "info", "checkout"} = {}
                  THEN {"about"}
                  ELSE kept \cup {"about", "objects"}
  IN [opened  |-> stack,
      object  |-> IF "objects" \in stack THEN object ELSE "",
      section |-> IF "objects" \notin stack THEN ""
                  ELSE IF "info" \in stack /\ section = "" THEN DefaultSection
                  ELSE section]

getLayersByPath(p) ==
  CASE p.route = "/about"                    -> {"about"}
    [] p.route = "/checkout"                 -> {"about", "objects", "checkout"}
    [] p.route \in {"/info", "/info/:section"} -> {"about", "objects", "info"}
    [] p.route = "/object/:id"               -> {"about", "objects", "details"}
    [] p.route = "/object/:id/checkout"      ->
         {"about", "objects", "details", "checkout"}
    [] OTHER                                 -> {"about", "objects"}

\* Mutant: the card takes precedence over the checkout above it.
getPathByStateNoCheckout(s) ==
  IF "objects" \notin s.opened THEN Plain("/about")
  ELSE IF "details" \in s.opened /\ s.object # ""
       THEN [route |-> "/object/:id", arg |-> s.object]
  ELSE IF "info" \in s.opened
       THEN [route |-> "/info/:section",
             arg |-> IF s.section = "" THEN DefaultSection ELSE s.section]
  ELSE IF "checkout" \in s.opened THEN Plain("/checkout") ELSE Plain("/")

getPathByState(s) ==
  IF "about" \notin s.opened \/ "objects" \notin s.opened THEN Plain("/about")
  ELSE IF "details" \in s.opened /\ s.object # ""
       THEN [route |-> IF "checkout" \in s.opened THEN "/object/:id/checkout"
                       ELSE "/object/:id",
             arg |-> s.object]
  ELSE IF "info" \in s.opened
       THEN [route |-> "/info/:section",
             arg |-> IF s.section = "" THEN DefaultSection ELSE s.section]
  ELSE IF "checkout" \in s.opened THEN Plain("/checkout")
  ELSE Plain("/")

\* setRouteState with what App's layout effect reads from the path.
setRouteState(s, p) ==
  LET id == IF p.route \in {"/object/:id", "/object/:id/checkout"} THEN p.arg ELSE s.object
      section == IF p.route = "/info/:section" /\ p.arg \in Section THEN p.arg ELSE ""
  IN normalizeOpenedLayers(getLayersByPath(p), "", id, section)

-------------------------------------------------------------------------------
\* The actions of the store, as functions of its state.

openLayer(s, layer) ==
  IF layer \in s.opened THEN s
  ELSE normalizeOpenedLayers(s.opened \cup {layer}, layer, s.object, s.section)

closeLayer(s, layer) ==
  normalizeOpenedLayers(s.opened \ {layer}, "",
                        IF layer = "objects" THEN "" ELSE s.object,
                        IF layer = "info" THEN "" ELSE s.section)

toggleLayer(s, layer) ==
  IF layer \in s.opened THEN closeLayer(s, layer) ELSE openLayer(s, layer)

setActiveObjectId(s, id) == normalizeOpenedLayers(s.opened, "", id, s.section)

setActiveInfoSection(s, section) == [s EXCEPT !.section = section]

ClosedLayers == [opened |-> {"about"}, object |-> "", section |-> ""]

-------------------------------------------------------------------------------
\* The store is created closed; the first render hydrates it from the URL.
LayersInit ==
  /\ path \in Path
  /\ layers = setRouteState(ClosedLayers, path)
  /\ effect = TRUE /\ navigation = {} /\ events = 0

\* Every action of the store puts a new openedLayers array, so that the effect
\* becomes due, except openLayer of an open layer and setActiveInfoSection.
UserEvent(next, newArray) ==
  /\ events < MaxEvents /\ events' = events + 1
  /\ layers' = next
  /\ effect' = (effect \/ newArray)
  /\ UNCHANGED <<path, navigation>>

\* A card of ObjectsLayer: setActiveObjectId, then openLayer("details").
ClickCard(id) ==
  /\ "objects" \in layers.opened
  /\ UserEvent(openLayer(setActiveObjectId(layers, id), "details"), TRUE)

\* The close button of DetailsLayer, or a press outside of its box; the layer
\* may be on its way out already.
CloseDetails == UserEvent(closeLayer(layers, "details"), TRUE)

\* A_CardButton, which App shows while objects is open.
ClickCartButton ==
  /\ "objects" \in layers.opened
  /\ UserEvent(toggleLayer(layers, "checkout"), TRUE)

\* handleInfoClick of A_InfoButtons, in ObjectsLayer and in InfoLayer.
ClickInfo(section) ==
  /\ "objects" \in layers.opened
  /\ UserEvent(openLayer(setActiveInfoSection(layers, section), "info"),
               "info" \notin layers.opened)

\* The arrow of A_InfoButtons, or a press outside of InfoLayer's box.
CloseInfo ==
  /\ "info" \in layers.opened
  /\ UserEvent(closeLayer(layers, "info"), TRUE)

\* A_Circle, disabled on /about and while info is open.
ClickCircle ==
  /\ path.route # "/about" /\ "info" \notin layers.opened
  /\ UserEvent(ClosedLayers, TRUE)

\* A link (M_BackButton, the legal texts in O_CheckoutCustomerFields), or back
\* and forward: a navigation that replaces the one under way, be it to the path
\* that is rendered.
Browse(p) ==
  /\ events < MaxEvents /\ events' = events + 1
  /\ navigation' = {p}
  /\ UNCHANGED <<layers, path, effect>>

\* A navigation completes: App renders with the new path, and its layout effect
\* hydrates the store.
Navigated ==
  \E p \in navigation :
    /\ navigation' = {}
    /\ path' = p
    /\ IF p = path THEN UNCHANGED <<layers, effect>>
       ELSE layers' = setRouteState(layers, p) /\ effect' = TRUE
    /\ UNCHANGED events

\* Mutant: the effect hydrates the store again, whose new array makes it due.
SyncPathHydrates ==
  /\ effect
  /\ layers' = setRouteState(layers, path) /\ effect' = TRUE
  /\ UNCHANGED <<path, navigation, events>>

\* App's second effect compares the path it was rendered with to the store.
SyncPath ==
  /\ effect /\ effect' = FALSE
  /\ navigation' = IF getPathByState(layers) # path THEN {getPathByState(layers)}
                   ELSE navigation
  /\ UNCHANGED <<layers, path, events>>

LayersNext ==
  \/ \E id \in Object : ClickCard(id)
  \/ CloseDetails \/ ClickCartButton \/ CloseInfo \/ ClickCircle
  \/ \E section \in Section : ClickInfo(section)
  \/ \E p \in Path : Browse(p)
  \/ Navigated \/ SyncPath

LayersFairness == WF_layersVars(Navigated) /\ WF_layersVars(SyncPath)

LayersSpec == LayersInit /\ [][LayersNext]_layersVars /\ LayersFairness

-------------------------------------------------------------------------------
\* Properties

LayersTypeOK ==
  /\ layers \in LayersState /\ path \in Path
  /\ effect \in BOOLEAN /\ navigation \in SUBSET Path
  /\ \A p, q \in navigation : p = q
  /\ events \in 0 .. MaxEvents

\* The stack as designed: about at the bottom, nothing above objects without
\* objects, info apart from details and checkout, details with an object and
\* info with a section.
Sound(s) ==
  /\ "about" \in s.opened
  /\ s.opened \cap {"details", "info", "checkout"} # {} => "objects" \in s.opened
  /\ "info" \in s.opened => s.opened \cap {"details", "checkout"} = {}
  /\ "details" \in s.opened => s.object # ""
  /\ "info" \in s.opened => s.section # ""
  /\ "objects" \notin s.opened => s.object = ""

\* Whatever is opened, closed and navigated, in whatever order and however late
\* a navigation completes, the layers are stacked as designed (the actions of
\* layers.store, normalizeOpenedLayers).
StackIsSound == Sound(layers)

AtRest == ~effect /\ navigation = {}

\* A page load of the path opens the same layers, with the same object, as are open.
PathRestores ==
  LET restored == setRouteState(ClosedLayers, path)
  IN /\ restored.opened = layers.opened
     /\ "details" \in layers.opened => restored.object = layers.object

\* README: "preserving deep links": once the effects have run, a page load of the
\* path opens what is open.
PathRestoresLayers == AtRest => PathRestores

\* It does, or an effect or a navigation that is due will see to it.
InStep == effect \/ (\E p \in navigation : p # path) \/ PathRestores

\* Only a link, or back, to the path that is rendered takes layers and path out of
\* step: it may replace the navigation the layers were waiting for, and the effect
\* that would ask for it again depends on a path that did not change.  Everything
\* else that is opened, closed and navigated, in whatever order and however late it
\* completes, keeps them in step (App's two effects, getPathByState, getLayersByPath).
StaysInStep == [][InStep => InStep' \/ Browse(path)]_layersVars

\* The two effects do not chase each other: when the user stops, path and
\* layers come to rest (App).
ComesToRest == <>[]AtRest
===============================================================================
