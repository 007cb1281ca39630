-------------------------- MODULE MapView_proofs ----------------------------
(***************************************************************************)
(* Theorems about the map view, for every geometry, every set of positions *)
(* and every way the loader answers.  FollowInv is inductive: the parts of *)
(* FollowConsistent and ReadinessCurrent need each other, because a state  *)
(* is only allowed for what the controller was last told.                  *)
(***************************************************************************)
EXTENDS MapView, TLAPS

Controllers == [state : FollowStates, loaded : BOOLEAN, panning : BOOLEAN]

Consistent(f) ==
  /\ f \in Controllers
  /\ f.state = "Active" => f.loaded
  /\ f.state = "Suspended" => ~f.loaded
  /\ f.panning => f.state = "Active"

FollowInv == Consistent(fc) /\ ReadinessCurrent

-----------------------------------------------------------------------------
(* The operations of the controller. *)

(* Reporting readiness keeps a controller consistent, makes it remember    *)
(* the report and never takes it out of the hands of the user.             *)
LEMMA Telling ==
  ASSUME NEW f, Consistent(f), NEW ready \in BOOLEAN
  PROVE  /\ Consistent(SetViewportFullyLoaded(f, ready))
         /\ SetViewportFullyLoaded(f, ready).loaded = ready
         /\ f.state = "Disabled" => SetViewportFullyLoaded(f, ready).state = "Disabled"
BY DEF Consistent, Controllers, FollowStates, SetViewportFullyLoaded

(* The same of updateTileReadiness(), which tells nothing when nothing is  *)
(* visible.                                                                *)
LEMMA Reporting ==
  ASSUME NEW f, Consistent(f), NEW shown, NEW done
  PROVE  /\ Consistent(Report(f, shown, done))
         /\ shown # {} => Report(f, shown, done).loaded = (shown \subseteq done)
         /\ f.state = "Disabled" => Report(f, shown, done).state = "Disabled"
<1>1. (shown \subseteq done) \in BOOLEAN
  OBVIOUS
<1> QED
  BY <1>1, Telling DEF Report

(* The reports in the middle of a slot do no more than that. *)
LEMMA ReportingDuringRequests ==
  ASSUME NEW f, Consistent(f), NEW answered, NEW shown, NEW done
  PROVE  /\ Consistent(DuringRequests(f, answered, shown, done))
         /\ f.state = "Disabled" =>
              DuringRequests(f, answered, shown, done).state = "Disabled"
BY Reporting DEF DuringRequests

(* A new target starts the timer only in a controller that follows. *)
LEMMA Targeting ==
  ASSUME NEW f, Consistent(f)
  PROVE  /\ Consistent(SetTarget(f))
         /\ SetTarget(f).loaded = f.loaded /\ SetTarget(f).state = f.state
BY DEF Consistent, Controllers, FollowStates, SetTarget

(* The buttons, the drag and the timer keep a controller consistent and do *)
(* not touch what it was told.                                             *)
LEMMA Operating ==
  ASSUME NEW f, Consistent(f)
  PROVE  /\ Consistent(OnUserPanned(f)) /\ OnUserPanned(f).loaded = f.loaded
         /\ Consistent(RequestRecenter(f)) /\ RequestRecenter(f).loaded = f.loaded
         /\ Consistent(StopPan(f)) /\ StopPan(f).loaded = f.loaded
         /\ OnUserPanned(f).state = "Disabled" /\ StopPan(f).state = f.state
<1>1. Consistent(OnUserPanned(f)) /\ OnUserPanned(f).loaded = f.loaded
  BY DEF Consistent, Controllers, FollowStates, OnUserPanned
<1>2. f.state # "Disabled" \/ ~f.panning
  BY DEF Consistent
<1>3. f.state = "Disabled" =>
        Consistent(RequestRecenter(f)) /\ RequestRecenter(f).loaded = f.loaded
  BY DEF Consistent, Controllers, FollowStates, RequestRecenter
<1>4. f.state # "Disabled" =>
        Consistent(RequestRecenter(f)) /\ RequestRecenter(f).loaded = f.loaded
  BY DEF Consistent, Controllers, FollowStates, RequestRecenter
<1>5. Consistent(StopPan(f)) /\ StopPan(f).loaded = f.loaded /\ StopPan(f).state = f.state
  BY DEF Consistent, Controllers, FollowStates, StopPan
<1>6. OnUserPanned(f).state = "Disabled"
  BY DEF Consistent, Controllers, FollowStates, OnUserPanned
<1> QED
  BY <1>1, <1>3, <1>4, <1>5, <1>6

-----------------------------------------------------------------------------
(* The steps. *)

(* Every slot that ends in updateTileReadiness() establishes readiness. *)
LEMMA Settling ==
  ASSUME NEW f, Consistent(f), NEW shown, NEW done, Settle(f, shown, done)
  PROVE  /\ FollowInv'
         /\ f.state = "Disabled" => fc'.state = "Disabled"
<1>1. Consistent(Report(f, shown, done))
      /\ (shown # {} => Report(f, shown, done).loaded = (shown \subseteq done))
      /\ (f.state = "Disabled" => Report(f, shown, done).state = "Disabled")
  BY Reporting
<1>2. visible' = shown /\ loaded' = done /\ fc' = Report(f, shown, done)
      /\ published' = (shown \subseteq done)
  BY DEF Settle
<1>3. Consistent(fc)'
  BY <1>1, <1>2 DEF Consistent
<1>4. ReadinessCurrent'
  BY <1>1, <1>2 DEF ReadinessCurrent
<1> QED
  BY <1>1, <1>2, <1>3, <1>4 DEF FollowInv

(* A position does, too, and then sets the target. *)
LEMMA PositionStep ==
  ASSUME FollowInv, NEW position, PositionChanged(position)
  PROVE  FollowInv' /\ (fc.state = "Disabled" => fc'.state = "Disabled")
<1> DEFINE origin   == IF hasFix THEN centre ELSE position
           range    == VisibleTileRange(zoom, origin)
           answered == Answered(range, zoom, items)
           there    == Placed(range, zoom, origin, items)
           gone     == DOMAIN there \ {x \in DOMAIN there : NearView(there[x])}
           shown    == range \ gone
           done     == (loaded \cup answered) \ gone
           during   == DuringRequests(fc, answered, visible, loaded)
           settled  == Report(during, shown, done)
<1>1. visible' = shown /\ loaded' = done /\ fc' = SetTarget(settled)
      /\ published' = (visible' \subseteq loaded')
  BY DEF PositionChanged
<1> HIDE DEF shown, done, answered
<1>2. Consistent(during) /\ (fc.state = "Disabled" => during.state = "Disabled")
  BY ReportingDuringRequests DEF FollowInv
<1> HIDE DEF during
<1>3. /\ Consistent(settled)
      /\ shown # {} => settled.loaded = (shown \subseteq done)
      /\ during.state = "Disabled" => settled.state = "Disabled"
  BY <1>2, Reporting
<1> HIDE DEF settled
<1>4. /\ Consistent(SetTarget(settled))
      /\ SetTarget(settled).loaded = settled.loaded
      /\ SetTarget(settled).state = settled.state
  BY <1>3, Targeting
<1>5. Consistent(fc)'
  BY <1>1, <1>4 DEF Consistent
<1>6. ReadinessCurrent'
  BY <1>1, <1>3, <1>4 DEF ReadinessCurrent
<1> QED
  BY <1>1, <1>2, <1>3, <1>4, <1>5, <1>6 DEF FollowInv

(* Zooming starts from scratch. *)
LEMMA ZoomStep ==
  ASSUME FollowInv, NEW z, ApplyZoom(z)
  PROVE  FollowInv' /\ (fc.state = "Disabled" => fc'.state = "Disabled")
<1>1. PICK shown, done : Settle(fc, shown, done)
  BY DEF ApplyZoom
<1> QED
  BY <1>1, Settling DEF FollowInv

(* So does an answer of the loader. *)
LEMMA AnswerStep ==
  ASSUME FollowInv, NEW c, Answer(c)
  PROVE  FollowInv' /\ (fc.state = "Disabled" => fc'.state = "Disabled")
BY Settling DEF Answer, FollowInv

(* The steps that leave the tiles alone. *)
LEMMA ViewStep ==
  ASSUME FollowInv, UserPanned \/ Scroll \/ PanTick \/ RecenterClicked
  PROVE  FollowInv' /\ (fc.state = "Disabled" /\ ~RecenterClicked => fc'.state = "Disabled")
<1>1. UNCHANGED <<visible, loaded, published>>
  BY DEF UserPanned, Scroll, PanTick, RecenterClicked, tiles
<1>2. fc' \in {fc, OnUserPanned(fc), StopPan(fc), RequestRecenter(fc)}
  BY DEF UserPanned, Scroll, PanTick, RecenterClicked
<1>3. ~RecenterClicked => fc' \in {fc, OnUserPanned(fc), StopPan(fc)}
  BY DEF UserPanned, Scroll, PanTick
<1>4. Consistent(fc')  /\ fc'.loaded = fc.loaded
  BY <1>2, Operating DEF FollowInv
<1>5. Consistent(fc)'
  BY <1>4 DEF Consistent
<1>6. ReadinessCurrent'
  BY <1>1, <1>4 DEF FollowInv, ReadinessCurrent
<1> QED
  BY <1>3, <1>5, <1>6, Operating DEF FollowInv

(* What every step does to the controller. *)
LEMMA EveryStep ==
  ASSUME FollowInv, [Next]_vars
  PROVE  FollowInv' /\ (fc.state = "Disabled" /\ ~RecenterClicked => fc'.state = "Disabled")
<1>1. CASE \E position \in Positions : PositionChanged(position)
  BY <1>1, PositionStep
<1>2. CASE ZoomIn \/ ZoomOut
  BY <1>2, ZoomStep DEF ZoomIn, ZoomOut
<1>3. CASE UserPanned \/ Scroll \/ PanTick \/ RecenterClicked
  BY <1>3, ViewStep
<1>4. CASE \E c \in Tiles : TileReady(c) \/ TileFailed(c)
  BY <1>4, AnswerStep DEF TileReady, TileFailed
<1>5. CASE UNCHANGED vars
  <2>1. UNCHANGED <<fc, visible, loaded, published>>
    BY <1>5 DEF vars, tiles
  <2> QED
    BY <2>1 DEF FollowInv, Consistent, ReadinessCurrent
<1> QED
  BY <1>1, <1>2, <1>3, <1>4, <1>5 DEF Next

-----------------------------------------------------------------------------
(* The theorems. *)

(* Controller, tiles and bus agree in every reachable state. *)
THEOREM Following == Spec => []FollowInv
<1>1. Init => FollowInv
  <2> SUFFICES ASSUME Init PROVE FollowInv
    OBVIOUS
  <2>1. PICK range : /\ fc = Report(NewController, range, {})
                     /\ visible = range /\ loaded = {} /\ published = (range = {})
    BY DEF Init
  <2>2. Consistent(NewController)
    BY DEF NewController, Consistent, Controllers, FollowStates
  <2>3. (range = {}) = (range \subseteq {})
    OBVIOUS
  <2> QED
    BY <2>1, <2>2, <2>3, Reporting DEF FollowInv, ReadinessCurrent
<1>2. FollowInv /\ [Next]_vars => FollowInv'
  BY EveryStep
<1> QED
  BY <1>1, <1>2, PTL DEF Spec

(* The controller's state, its timer and what it was told agree. *)
THEOREM FollowsConsistently == Spec => []FollowConsistent
<1>1. FollowInv => FollowConsistent
  BY DEF FollowInv, Consistent, FollowConsistent
<1> QED
  BY <1>1, Following, PTL

(* What the controller and the bus were told is true of the tiles. *)
THEOREM ReadinessIsCurrent == Spec => []ReadinessCurrent
<1>1. FollowInv => ReadinessCurrent
  BY DEF FollowInv
<1> QED
  BY <1>1, Following, PTL

(* The view moves of itself only over tiles that are loaded. *)
THEOREM PansOnlyOverLoaded == Spec => PansOverLoadedTiles
<1>1. FollowInv /\ [Next]_vars => [PanTick /\ view' # view => visible \subseteq loaded]_vars
  <2> SUFFICES ASSUME FollowInv, PanTick, view' # view
               PROVE  visible \subseteq loaded
    OBVIOUS
  <2>1. fc.state = "Active"
    BY DEF PanTick
  <2>2. fc.loaded
    BY <2>1 DEF FollowInv, Consistent
  <2> QED
    BY <2>2 DEF FollowInv, ReadinessCurrent
<1> QED
  BY <1>1, Following, PTL DEF Spec, PansOverLoadedTiles

(* Only the re-center button takes the view back from the user. *)
THEOREM UserDecides == Spec => UserWins
<1>1. FollowInv /\ [Next]_vars =>
        [fc.state = "Disabled" /\ fc'.state # "Disabled" => RecenterClicked]_vars
  BY EveryStep
<1> QED
  BY <1>1, Following, PTL DEF Spec, UserWins

-----------------------------------------------------------------------------
(* Placeholders. *)

(* What a slot asks for is answered on the spot or waited for, and nothing *)
(* else stops waiting.                                                     *)
LEMMA Asking ==
  ASSUME NEW wanted, Ask(wanted), NEW c
  PROVE  /\ c \in wanted => c \in cached \/ c \in waiting'
         /\ c \in waiting /\ c \notin wanted => c \in waiting'
BY DEF Ask

(* A coordinate is determined by its zoom and column. *)
LEMMA Coordinates ==
  ASSUME NEW z, NEW xs, NEW x
  PROVE  [z |-> z, x |-> x] \in Coord(z, xs) <=> x \in xs
BY DEF Coord

(* A position asks for every tile that gets a placeholder. *)
LEMMA GapsAfterPosition ==
  ASSUME EveryGapAsked, NEW position, PositionChanged(position)
  PROVE  EveryGapAsked'
<1> DEFINE origin   == IF hasFix THEN centre ELSE position
           range    == VisibleTileRange(zoom, origin)
           wanted   == Wanted(range, items)
           answered == Answered(range, zoom, items)
           there    == Placed(range, zoom, origin, items)
           kept     == {x \in DOMAIN there : NearView(there[x])}
<1> SUFFICES ASSUME NEW x \in DOMAIN items' \ loaded'
             PROVE  [z |-> zoom', x |-> x] \in waiting'
  BY DEF EveryGapAsked
<1>1. /\ items' = [i \in kept |-> there[i]]
      /\ loaded' = (loaded \cup answered) \ (DOMAIN there \ kept)
      /\ zoom' = zoom /\ Ask(Coord(zoom, wanted))
  BY DEF PositionChanged
<1>2. DOMAIN there = DOMAIN items \cup range
  BY DEF Placed
<1>3. x \in kept /\ x \in DOMAIN items \cup range /\ x \notin loaded /\ x \notin answered
  BY <1>1, <1>2
<1>4. CASE x \in DOMAIN items
  <2>1. x \notin wanted
    BY <1>4 DEF Wanted
  <2>2. [z |-> zoom, x |-> x] \in waiting
    BY <1>3, <1>4 DEF EveryGapAsked
  <2> QED
    BY <1>1, <2>1, <2>2, Asking, Coordinates
<1>5. CASE x \notin DOMAIN items
  <2>1. x \in wanted
    BY <1>3, <1>5 DEF Wanted
  <2>2. [z |-> zoom, x |-> x] \notin cached
    BY <1>3, <2>1 DEF Answered
  <2>3. [z |-> zoom, x |-> x] \in Coord(zoom, wanted)
    BY <2>1, Coordinates
  <2> QED
    BY <1>1, <2>2, <2>3, Asking
<1> QED
  BY <1>4, <1>5

(* Zooming asks for every tile there is. *)
LEMMA GapsAfterZoom ==
  ASSUME NEW z, ApplyZoom(z)
  PROVE  EveryGapAsked'
<1> DEFINE range    == AroundCentre(z, centre)
           answered == Answered(range, z, <<>>)
<1> SUFFICES ASSUME NEW x \in DOMAIN items' \ loaded'
             PROVE  [z |-> zoom', x |-> x] \in waiting'
  BY DEF EveryGapAsked
<1>1. /\ items' = Placed(range, z, centre, <<>>) /\ loaded' = answered
      /\ zoom' = z /\ Ask(Coord(z, range))
  BY DEF ApplyZoom, Settle
<1>2. x \in range /\ x \notin answered
  BY <1>1 DEF Placed
<1>3. [z |-> z, x |-> x] \notin cached
  BY <1>2 DEF Answered, Wanted
<1>4. [z |-> z, x |-> x] \in Coord(z, range)
  BY <1>2, Coordinates
<1> QED
  BY <1>1, <1>3, <1>4, Asking

(* An answer ends the wait of one tile, which then counts as loaded. *)
LEMMA GapsAfterAnswer ==
  ASSUME EveryGapAsked, NEW c, Answer(c)
  PROVE  EveryGapAsked'
<1> SUFFICES ASSUME NEW x \in DOMAIN items' \ loaded'
             PROVE  [z |-> zoom', x |-> x] \in waiting'
  BY DEF EveryGapAsked
<1>1. /\ items' = items /\ loaded' = loaded \cup {c.x} /\ zoom' = zoom
      /\ waiting' = waiting \ {c}
  BY DEF Answer, Settle, window
<1>2. [z |-> zoom, x |-> x] \in waiting
  BY <1>1 DEF EveryGapAsked
<1>3. x # c.x
  BY <1>1
<1>4. [z |-> zoom, x |-> x] # c
  BY <1>3
<1> QED
  BY <1>1, <1>2, <1>4

(* Every placeholder on the map has an answer under way. *)
THEOREM GapsAreAsked == Spec => []EveryGapAsked
<1>1. Init => EveryGapAsked
  <2> SUFFICES ASSUME Init, NEW x \in DOMAIN items
               PROVE  [z |-> zoom, x |-> x] \in waiting
    BY DEF EveryGapAsked
  <2>1. PICK range : /\ items = Placed(range, zoom, Home, <<>>)
                     /\ asked = Coord(zoom, range) /\ waiting = asked
    BY DEF Init
  <2>2. x \in range
    BY <2>1 DEF Placed
  <2> QED
    BY <2>1, <2>2, Coordinates
<1>2. EveryGapAsked /\ [Next]_vars => EveryGapAsked'
  <2> SUFFICES ASSUME EveryGapAsked, [Next]_vars PROVE EveryGapAsked'
    OBVIOUS
  <2>1. CASE \E position \in Positions : PositionChanged(position)
    BY <2>1, GapsAfterPosition
  <2>2. CASE ZoomIn \/ ZoomOut
    BY <2>2, GapsAfterZoom DEF ZoomIn, ZoomOut
  <2>3. CASE \E c \in Tiles : TileReady(c) \/ TileFailed(c)
    BY <2>3, GapsAfterAnswer DEF TileReady, TileFailed
  <2>4. CASE UserPanned \/ Scroll \/ PanTick \/ RecenterClicked
    <3>1. UNCHANGED <<zoom, items, loaded, waiting>>
      BY <2>4 DEF UserPanned, Scroll, PanTick, RecenterClicked, tiles, window, service
    <3> QED
      BY <3>1 DEF EveryGapAsked
  <2>5. CASE UNCHANGED vars
    <3>1. UNCHANGED <<zoom, items, loaded, waiting>>
      BY <2>5 DEF vars, tiles, window, service
    <3> QED
      BY <3>1 DEF EveryGapAsked
  <2> QED
    BY <2>1, <2>2, <2>3, <2>4, <2>5 DEF Next
<1> QED
  BY <1>1, <1>2, PTL DEF Spec

-----------------------------------------------------------------------------
(* The loader, as the map view uses it. *)

(* The tiles of a zoom are tiles.                                          *)
LEMMA TilesOfZoom ==
  ASSUME NEW z \in Zooms, NEW xs, xs \subseteq Column(z)
  PROVE  Coord(z, xs) \in SUBSET Tiles
BY DEF Coord, Tiles

(* The zoom stays in its range.                                            *)
LEMMA ZoomKept == zoom \in Zooms /\ [Next]_vars => zoom' \in Zooms
<1> SUFFICES ASSUME zoom \in Zooms, [Next]_vars PROVE zoom' \in Zooms
  OBVIOUS
<1>1. CASE ZoomIn \/ ZoomOut
  BY <1>1, ZoomAssumption DEF ZoomIn, ZoomOut, ApplyZoom, Zooms
<1>2. CASE \E position \in Positions : PositionChanged(position)
  BY <1>2 DEF PositionChanged
<1>3. CASE \E c \in Tiles : TileReady(c) \/ TileFailed(c)
  BY <1>3 DEF TileReady, TileFailed, Answer, window
<1>4. CASE UserPanned \/ Scroll \/ PanTick \/ RecenterClicked \/ UNCHANGED vars
  BY <1>4 DEF UserPanned, Scroll, PanTick, RecenterClicked, window, vars
<1> QED
  BY <1>1, <1>2, <1>3, <1>4 DEF Next

(* A slot that makes requests makes them of the service, in one go.        *)
LEMMA AsksService ==
  ASSUME NEW wanted \in SUBSET Tiles, Ask(wanted)
  PROVE  Loader!Next
<1>1. Loader!Ask(wanted)
  BY DEF Ask, Loader!Ask
<1> QED
  BY <1>1 DEF Loader!Next

(* What every step is to the service.                                      *)
LEMMA LoaderStep == zoom \in Zooms /\ [Next]_vars => [Loader!Next]_(Loader!service)
<1> SUFFICES ASSUME zoom \in Zooms, [Next]_vars PROVE Loader!Next \/ UNCHANGED service
  BY DEF Loader!service, service
<1>1. ASSUME NEW position \in Positions, PositionChanged(position)
      PROVE  Loader!Next
  <2> DEFINE origin == IF hasFix THEN centre ELSE position
             range  == VisibleTileRange(zoom, origin)
  <2>1. Ask(Coord(zoom, Wanted(range, items)))
    BY <1>1 DEF PositionChanged
  <2>2. Wanted(range, items) \subseteq Column(zoom)
    BY DEF Wanted, VisibleTileRange
  <2> QED
    BY <2>1, <2>2, TilesOfZoom, AsksService
<1>2. ASSUME NEW z \in Zooms, ApplyZoom(z) PROVE Loader!Next
  <2>1. Ask(Coord(z, AroundCentre(z, centre)))
    BY <1>2 DEF ApplyZoom
  <2>2. AroundCentre(z, centre) \subseteq Column(z)
    BY DEF AroundCentre
  <2> QED
    BY <2>1, <2>2, TilesOfZoom, AsksService
<1>3. CASE ZoomIn \/ ZoomOut
  <2>1. PICK z \in Zooms : ApplyZoom(z)
    BY <1>3, ZoomAssumption DEF ZoomIn, ZoomOut, Zooms
  <2> QED
    BY <1>2, <2>1
<1>4. ASSUME NEW c \in Tiles, TileReady(c) \/ TileFailed(c) PROVE Loader!Next
  <2>1. Loader!Answer(c)
    BY <1>4 DEF TileReady, TileFailed, Answer, Loader!Answer
  <2>2. Loader!Ready(c) \/ Loader!Failed(c)
    BY <1>4, <2>1 DEF TileReady, TileFailed, Caching, Loader!Ready, Loader!Failed
  <2> QED
    BY <2>2 DEF Loader!Next
<1>5. CASE UserPanned \/ Scroll \/ PanTick \/ RecenterClicked \/ UNCHANGED vars
  BY <1>5 DEF UserPanned, Scroll, PanTick, RecenterClicked, vars
<1> QED
  BY <1>1, <1>3, <1>4, <1>5 DEF Next

(* The map view is a client of the tile service: it asks for tiles that    *)
(* exist, and takes answers as they come, of the zoom of the moment or of  *)
(* another.                                                                *)
THEOREM IsClientOfLoader == Spec => UsesLoader
<1>1. Init => zoom \in Zooms /\ Loader!Init
  <2> SUFFICES ASSUME Init PROVE zoom \in Zooms /\ Loader!Init
    OBVIOUS
  <2>1. /\ zoom \in Zooms /\ asked = Coord(zoom, AroundCentre(zoom, Home))
        /\ waiting = asked /\ cached = {}
    BY DEF Init
  <2>2. AroundCentre(zoom, Home) \subseteq Column(zoom)
    BY DEF AroundCentre
  <2> QED
    BY <2>1, <2>2, TilesOfZoom DEF Loader!Init
<1>2. zoom \in Zooms /\ [Next]_vars => (zoom \in Zooms)'
  BY ZoomKept DEF Zooms
<1>3. zoom \in Zooms /\ [Next]_vars => [Loader!Next]_(Loader!service)
  BY LoaderStep
<1> QED
  BY <1>1, <1>2, <1>3, PTL DEF Spec, UsesLoader, Loader!Spec
=============================================================================
