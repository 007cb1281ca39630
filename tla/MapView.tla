------------------------------ MODULE MapView -------------------------------
(***************************************************************************)
(* The map view plugin (src/plugins/map_view/map_view_plugin.cpp) with its *)
(* follow-vehicle controller, as a client of TileService.  Everything runs *)
(* in the GUI thread and a slot runs to completion, so each slot is one    *)
(* action: a position, a button, a wheel turn, a drag, a tick of the pan   *)
(* timer, an answer of the tile loader.  A tile that is cached is answered *)
(* inside the request for it, in the middle of the slot that makes it.     *)
(*                                                                         *)
(* One axis of the map is modelled; on it the code is the same on both.    *)
(* Scene coordinates are in units that make positions whole numbers at     *)
(* every zoom: the world is 2^zoom tiles, a tile TileSize units.           *)
(* Pixmaps, the vehicle marker and its track do not feed back and are left *)
(* out; the view is never empty, so updateVisibleTiles() is never skipped. *)
(***************************************************************************)
EXTENDS FollowVehicle, Integers, FiniteSets

CONSTANTS
  MaxZoom,    \* zooms run from 1 to MaxZoom
  Positions,  \* vehicle positions, in tiles of MaxZoom
  Home,       \* the centre of the map before the first fix, likewise
  HalfWidth,  \* half the width of the viewport, in scene units
  TileRadius, \* TILE_RADIUS
  TilesFail,  \* may a tile fail for good?
  Repeats,    \* may the loader answer a request more than once?
  CacheTiles  \* how many tiles the loader's cache holds

ASSUME ZoomAssumption == MaxZoom \in Nat \ {0}

VARIABLES
  zoom,      \* m_zoom
  centre,    \* m_centerLat, m_centerLon: the position at scene coordinate 0
  hasFix,    \* m_hasFix
  view,      \* the scene coordinate at the centre of m_view
  target,    \* m_target of the controller
  items,     \* m_tileItems: from the tile to where it lies in the scene
  loaded,    \* m_loadedTileKeys, without the zoom they all have
  visible,   \* m_visibleTileKeys, likewise
  fc,        \* the controller
  published, \* the last value of map/tilesReady
  asked, waiting, cached  \* the tile loader, as in TileService

window == <<zoom, centre, hasFix, view, target>>
tiles  == <<items, loaded, visible>>
service == <<asked, waiting, cached>>
vars   == <<window, tiles, fc, published, service>>

Zooms == 1 .. MaxZoom
Column(z) == 0 .. 2 ^ z - 1
Coord(z, xs) == {[z |-> z, x |-> x] : x \in xs}
Tiles == UNION {Coord(z, Column(z)) : z \in Zooms}

TileSize == 2 ^ (MaxZoom - 1)
WorldPixel(position, z) == position * 2 ^ (z - 1)
ToScene(position, z, origin) == WorldPixel(position, z) - WorldPixel(origin, z)
TileToScene(x, z, origin) == x * TileSize - WorldPixel(origin, z)

(* How far setSceneRect() lets the centre of the view go; HalfExtent is    *)
(* half of TILE_SIZE * (TILE_RADIUS * 2 + 3).                              *)
HalfExtent == (TileSize * (TileRadius * 2 + 3)) \div 2
Limit == IF HalfExtent > HalfWidth THEN HalfExtent - HalfWidth ELSE 0
CenterOn(s) == IF s > Limit THEN Limit ELSE IF s < -Limit THEN -Limit ELSE s

(* map_math::visibleTileRange() *)
VisibleTileRange(z, origin) ==
  {x \in Column(z) :
     /\ x >= (view - HalfWidth + WorldPixel(origin, z)) \div TileSize
     /\ x <= (view + HalfWidth + WorldPixel(origin, z)) \div TileSize}

(* The range of updateTiles(), around the centre of the map. *)
AroundCentre(z, origin) ==
  LET centerTile == WorldPixel(origin, z) \div TileSize
  IN  {x \in Column(z) : x \in centerTile - TileRadius .. centerTile + TileRadius}

(* removeOffscreenTiles() keeps what is within two tiles of the viewport. *)
NearView(at) ==
  /\ at < view + HalfWidth + 2 * TileSize
  /\ at + TileSize > view - HalfWidth - 2 * TileSize

-----------------------------------------------------------------------------
(* Parts of the slots. *)

(* updateTileReadiness(): with nothing visible the controller is not told, *)
(* and map/tilesReady becomes true.                                        *)
Report(controller, shown, done) ==
  IF shown = {} THEN controller
    ELSE SetViewportFullyLoaded(controller, shown \subseteq done)

(* requestTile() for a range: tiles that have an item are only moved to    *)
(* their place, the others get a placeholder and are asked for.            *)
Wanted(range, old) == range \ DOMAIN old
Answered(range, z, old) == {x \in Wanted(range, old) : [z |-> z, x |-> x] \in cached}

Placed(range, z, origin, old) ==
  [x \in DOMAIN old \cup range |-> IF x \in range THEN TileToScene(x, z, origin) ELSE old[x]]

Ask(wanted) ==
  /\ asked' = asked \cup (wanted \ cached)
  /\ waiting' = (waiting \ (wanted \cap cached)) \cup (wanted \ cached)
  /\ UNCHANGED cached

(* Cached tiles are reported one by one while `shown' is still the visible *)
(* set of before; readiness only grows meanwhile, so the last one decides. *)
DuringRequests(controller, answered, shown, done) ==
  IF answered = {} THEN controller ELSE Report(controller, shown, done \cup answered)

(* The end of every slot that touches the tiles. *)
Settle(controller, shown, done) ==
  /\ visible' = shown /\ loaded' = done
  /\ fc' = Report(controller, shown, done)
  /\ published' = (shown \subseteq done)

-----------------------------------------------------------------------------
(* The vehicle. *)

(* onPositionChanged(): the first fix becomes the centre of the map, while *)
(* tiles that are already there stay where they lie until asked for again. *)
PositionChanged_KeepsOffscreen(position) ==
  LET origin   == IF hasFix THEN centre ELSE position
      range    == VisibleTileRange(zoom, origin)
      answered == Answered(range, zoom, items)
      there    == Placed(range, zoom, origin, items)
      kept     == {x \in DOMAIN there : NearView(there[x])}
      settled  == Report(DuringRequests(fc, answered, visible, loaded),
                         range, (loaded \cup answered) \ (DOMAIN there \ kept))
  IN  /\ centre' = origin /\ hasFix' = TRUE
      /\ target' = ToScene(position, zoom, origin)
      /\ items' = there
      /\ Ask(Coord(zoom, Wanted(range, items)))
      /\ visible' = range
      /\ loaded' = (loaded \cup answered) \ (DOMAIN there \ kept)
      /\ fc' = SetTarget(settled)
      /\ published' = (visible' \subseteq loaded')
      /\ UNCHANGED <<zoom, view>>

PositionChanged_TargetFirst(position) ==
  LET origin   == IF hasFix THEN centre ELSE position
      range    == VisibleTileRange(zoom, origin)
      answered == Answered(range, zoom, items)
      there    == Placed(range, zoom, origin, items)
      kept     == {x \in DOMAIN there : NearView(there[x])}
  IN  /\ centre' = origin /\ hasFix' = TRUE
      /\ target' = ToScene(position, zoom, origin)
      /\ items' = [x \in kept |-> there[x]]
      /\ Ask(Coord(zoom, Wanted(range, items)))
      /\ visible' = range \cap kept
      /\ loaded' = (loaded \cup answered) \ (DOMAIN there \ kept)
      /\ fc' = SetTarget(DuringRequests(fc, answered, visible, loaded))
      /\ published' = (visible' \subseteq loaded')
      /\ UNCHANGED <<zoom, view>>

PositionChanged(position) ==
  LET origin   == IF hasFix THEN centre ELSE position
      range    == VisibleTileRange(zoom, origin)
      answered == Answered(range, zoom, items)
      there    == Placed(range, zoom, origin, items)
      kept     == {x \in DOMAIN there : NearView(there[x])}
      gone     == DOMAIN there \ kept
      settled  == Report(DuringRequests(fc, answered, visible, loaded),
                         range \ gone, (loaded \cup answered) \ gone)
  IN  /\ centre' = origin /\ hasFix' = TRUE
      /\ target' = ToScene(position, zoom, origin)
      /\ items' = [x \in kept |-> there[x]]
      /\ Ask(Coord(zoom, Wanted(range, items)))
      /\ visible' = range \ gone
      /\ loaded' = (loaded \cup answered) \ gone
      /\ fc' = SetTarget(settled)
      /\ published' = (visible' \subseteq loaded')
      /\ UNCHANGED <<zoom, view>>

-----------------------------------------------------------------------------
(* The user. *)

(* applyZoom(), then updateTiles().  Nothing is taken back from the loader *)
(* and neither the view nor the target is moved to the new scale.          *)
ApplyZoom_CancelsOld(z) ==
  LET range == AroundCentre(z, centre)
  IN  /\ zoom' = z
      /\ items' = Placed(range, z, centre, <<>>)
      /\ asked' = Coord(z, range) \ cached /\ waiting' = asked'
      /\ UNCHANGED cached
      /\ Settle(fc, range, Answered(range, z, <<>>))
      /\ UNCHANGED <<centre, hasFix, view, target>>

ApplyZoom(z) ==
  LET range    == AroundCentre(z, centre)
      answered == Answered(range, z, <<>>)
  IN  /\ zoom' = z
      /\ items' = Placed(range, z, centre, <<>>)
      /\ Ask(Coord(z, range))
      /\ Settle(fc, range, answered)
      /\ UNCHANGED <<centre, hasFix, view, target>>

ZoomIn == zoom < MaxZoom /\ ApplyZoom(zoom + 1)
ZoomOut == zoom > 1 /\ ApplyZoom(zoom - 1)

(* eventFilter(): the mouse moves with the left button held.  No drag mode *)
(* is ever set, so the view itself does not move.                          *)
UserPanned ==
  /\ fc' = OnUserPanned(fc)
  /\ UNCHANGED <<window, tiles, published, service>>

(* A turn of the wheel scrolls the view; the plugin does not notice. *)
Scroll ==
  /\ \E step \in {-1, 1} : view' = CenterOn(view + step)
  /\ UNCHANGED <<zoom, centre, hasFix, target, tiles, fc, published, service>>

RecenterClicked ==
  /\ fc.state = "Disabled"
  /\ fc' = RequestRecenter(fc)
  /\ UNCHANGED <<window, tiles, published, service>>

-----------------------------------------------------------------------------
(* onPanTick(): a step towards the target, 12 % of the way in the code,    *)
(* one unit here; at the target the timer stops.  The tiles are not looked *)
(* at: the next position does that.                                        *)
PanTick ==
  /\ fc.panning
  /\ IF fc.state # "Active" \/ target = view
       THEN fc' = StopPan(fc) /\ UNCHANGED view
       ELSE /\ view' = CenterOn(IF target > view THEN view + 1 ELSE view - 1)
            /\ UNCHANGED fc
  /\ UNCHANGED <<zoom, centre, hasFix, target, tiles, published, service>>

(* What the loader's signals do to its client: an answer for a tile of     *)
(* another zoom counts for the tile of the same x at this one.             *)
Answer(c) ==
  /\ c \in asked
  /\ asked' = asked \ {c} \/ (Repeats /\ asked' = asked)
  /\ waiting' = waiting \ {c}
  /\ items' = items
  /\ Settle(fc, visible, loaded \cup {c.x})
  /\ UNCHANGED window

(* The cache with one more tile: another one goes when it is full. *)
Caching(c) ==
  {kept \in SUBSET (cached \cup {c}) :
     /\ Cardinality(kept) <= CacheTiles
     /\ c \in kept \/ CacheTiles = 0
     /\ kept = cached \cup {c} \/ Cardinality(kept) = CacheTiles}

(* onTileReady() *)
TileReady(c) == Answer(c) /\ cached' \in Caching(c)

(* onTileFailed(): the placeholder counts as loaded. *)
TileFailed_NotLoaded(c) ==
  /\ TilesFail /\ c \in asked
  /\ asked' = asked \ {c} /\ waiting' = waiting \ {c}
  /\ UNCHANGED <<window, tiles, fc, published, cached>>

TileFailed(c) == TilesFail /\ Answer(c) /\ UNCHANGED cached

User == ZoomIn \/ ZoomOut \/ UserPanned \/ Scroll \/ RecenterClicked

(* After initialize(): the tiles around the configured centre are on their *)
(* way, so the controller is already suspended.                            *)
Init ==
  LET range == AroundCentre(zoom, Home)
  IN  /\ zoom \in Zooms
      /\ centre = Home /\ hasFix = FALSE /\ view = 0 /\ target = 0
      /\ items = Placed(range, zoom, Home, <<>>)
      /\ visible = range /\ loaded = {}
      /\ fc = Report(NewController, range, {})
      /\ published = (range = {})
      /\ asked = Coord(zoom, range) /\ waiting = asked /\ cached = {}

Next ==
  \/ \E position \in Positions : PositionChanged(position)
  \/ ZoomIn \/ ZoomOut \/ UserPanned \/ Scroll \/ RecenterClicked
  \/ PanTick
  \/ \E c \in Tiles : TileReady(c) \/ TileFailed(c)

(* Every request is answered: RequestsAnswered of TileLoader, which holds  *)
(* there as long as some attempt at each tile is the last one.             *)
Fairness == \A c \in Tiles : WF_vars(TileReady(c) \/ TileFailed(c))

Spec == Init /\ [][Next]_vars
FairSpec == Spec /\ Fairness

-----------------------------------------------------------------------------
(* Properties. *)

(* The controller's state, what it was told of the tiles and its pan timer *)
(* agree: it follows only over loaded tiles, is suspended only while some  *)
(* are missing, and the timer only runs while it follows.                  *)
FollowConsistent ==
  /\ fc.state = "Active" => fc.loaded
  /\ fc.state = "Suspended" => ~fc.loaded
  /\ fc.panning => fc.state = "Active"

(* What the controller and the bus were told last is true of the tiles as  *)
(* they are now, after any order of answers, zooms and positions.          *)
ReadinessCurrent ==
  /\ published = (visible \subseteq loaded)
  /\ visible # {} => fc.loaded = (visible \subseteq loaded)

(* A tile shown as a placeholder has an answer under way. *)
EveryGapAsked == \A x \in DOMAIN items \ loaded : [z |-> zoom, x |-> x] \in waiting

(* Of itself the view only moves while every visible tile is loaded. *)
PansOverLoadedTiles ==
  [][PanTick /\ view' # view => visible \subseteq loaded]_vars

(* Once the user has panned, only the re-center button resumes following.  *)
UserWins ==
  [][fc.state = "Disabled" /\ fc'.state # "Disabled" => RecenterClicked]_vars

(* The map view is a client of the loader as TileService describes it. *)
Loader == INSTANCE TileService
UsesLoader == Loader!Spec

(* Once the user leaves it alone, a view stays suspended for good only if  *)
(* it shows no tile for good, as one that was scrolled off the map: then   *)
(* updateTileReadiness() does not tell the controller.  Whatever positions *)
(* come and tiles fail, any other view resumes.                            *)
ResumesAtLast ==
  <>[][~User]_vars => (<>[](fc.state = "Suspended") => <>[](visible = {}))

(* P1-009_review.md: "The view resumes follow-vehicle mode only after all  *)
(* visible tiles have loaded successfully."  With tiles that never fail    *)
(* this asks that none of them still waits for its answer.                 *)
ResumesOnlyWhenLoaded ==
  [][fc.state = "Suspended" /\ fc'.state = "Active" =>
       \A x \in visible' : [z |-> zoom', x |-> x] \notin waiting']_vars
=============================================================================
