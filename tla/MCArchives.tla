------------------------------ MODULE MCArchives ------------------------------
(* What the chart is drawn from: the archives behind the sources, how a tile  *)
(* is found in them, the sets the server has installed, and the outlines and  *)
(* pads drawn over what is rendered.                                          *)
EXTENDS Naturals, Sequences, FiniteSets

CONSTANTS MaxFails, MaxDrops, MaxPans, Held, MaxMisses, MaxLeaves, MaxRequests, Packs,
          MaxEvents, Nothing, Cell, Small, Callout, Pack, OverlayEvents

VARIABLES part, \* the component this behaviour is one of; the variables of the others rest
          hosted, saved, bands, multi, live, shownAt, scamin, timer, lat, call, imported, has,
          broken, lost, crossed, dropped, fails, drops, pans, held, dir, misses, leaves, last,
          reg, gen, job, asked, runs, installed, disabled, cells, catalog, coverage, chips,
          sets, style, engine, view, boot, task, left, card, drawer, nc, opened, ended, pill, told,
          ever, failed, events, zoom, moving, rendered, busy, indexed, callouts, scale, shown,
          raw, source, lastSig, raf, regrow, recent, covRecent, pads, padTimer, skipped

Archives == INSTANCE ChartArchives
Tiles == INSTANCE TileArchive
Installed == INSTANCE InstalledSets WITH None <- Nothing
Overlays == INSTANCE MapOverlays WITH None <- Nothing, MaxEvents <- OverlayEvents

vars == <<part, hosted, saved, bands, multi, live, shownAt, scamin, timer, lat, call, imported,
           has, broken, lost, crossed, dropped, fails, drops, pans, held, dir, misses, leaves,
           last, reg, gen, job, asked, runs, installed, disabled, cells, catalog, coverage,
           chips, sets, style, engine, view, boot, task, left, card, drawer, nc, opened, ended, pill,
           told, ever, failed, events, zoom, moving, rendered, busy, indexed, callouts, scale,
           shown, raw, source, lastSig, raf, regrow, recent, covRecent, pads, padTimer, skipped>>
NotArchives == <<held, dir, misses, leaves, last, reg, gen, job, asked, runs, installed,
                 disabled, cells, catalog, coverage, chips, sets, style, engine, view, boot, task, left,
                 card, drawer, nc, opened, ended, pill, told, ever, failed, events, zoom,
                 moving, rendered, busy, indexed, callouts, scale, shown, raw, source, lastSig,
                 raf, regrow, recent, covRecent, pads, padTimer, skipped>>
NotTiles == <<hosted, saved, bands, multi, live, shownAt, scamin, timer, lat, call, imported,
              has, broken, lost, crossed, dropped, fails, drops, pans, reg, gen, job, asked,
              runs, installed, disabled, cells, catalog, coverage, chips, sets, style, engine,
              view, boot, task, left, card, drawer, nc, opened, ended, pill, told, ever, failed,
              events, zoom, moving, rendered, busy, indexed, callouts, scale, shown, raw,
              source, lastSig, raf, regrow, recent, covRecent, pads, padTimer, skipped>>
NotInstalled == <<hosted, saved, bands, multi, live, shownAt, scamin, timer, lat, call,
                  imported, broken, lost, dropped, fails, drops, pans, held, dir, misses,
                  leaves, last, zoom, moving, rendered, busy, indexed, callouts, scale, shown,
                  raw, source, lastSig, raf, regrow, recent, covRecent, pads, padTimer, skipped>>
NotOverlays == <<hosted, saved, bands, multi, live, shownAt, scamin, timer, lat, call, imported,
                 has, broken, lost, crossed, dropped, fails, drops, pans, held, dir, misses,
                 leaves, last, reg, gen, job, asked, runs, installed, disabled, cells, catalog,
                 coverage, chips, sets, engine, boot, task, left, card, drawer, nc, opened, ended, pill,
                 told, ever, failed>>

Init ==
  \/ /\ part = "archives" /\ Archives!Init
     /\ held = 0 /\ dir = 0 /\ misses = 0 /\ leaves = 0 /\ last = 0 /\ reg = 0 /\ gen = 0
     /\ job = 0 /\ asked = 0 /\ runs = 0 /\ installed = 0 /\ disabled = 0 /\ cells = 0
     /\ catalog = 0 /\ coverage = 0 /\ chips = 0 /\ sets = 0 /\ style = 0 /\ engine = 0 /\ view = 0
     /\ boot = 0 /\ task = 0 /\ left = 0 /\ card = 0 /\ drawer = 0 /\ nc = 0 /\ opened = 0
     /\ ended = 0 /\ pill = 0 /\ told = 0 /\ ever = 0 /\ failed = 0 /\ events = 0 /\ zoom = 0
     /\ moving = 0 /\ rendered = 0 /\ busy = 0 /\ indexed = 0 /\ callouts = 0 /\ scale = 0
     /\ shown = 0 /\ raw = 0 /\ source = 0 /\ lastSig = 0 /\ raf = 0 /\ regrow = 0
     /\ recent = 0 /\ covRecent = 0 /\ pads = 0 /\ padTimer = 0 /\ skipped = 0
  \/ /\ part = "tiles" /\ Tiles!Init
     /\ hosted = 0 /\ saved = 0 /\ bands = 0 /\ multi = 0 /\ live = 0 /\ shownAt = 0
     /\ scamin = 0 /\ timer = 0 /\ lat = 0 /\ call = 0 /\ imported = 0 /\ has = 0 /\ broken = 0
     /\ lost = 0 /\ crossed = 0 /\ dropped = 0 /\ fails = 0 /\ drops = 0 /\ pans = 0 /\ reg = 0
     /\ gen = 0 /\ job = 0 /\ asked = 0 /\ runs = 0 /\ installed = 0 /\ disabled = 0
     /\ cells = 0 /\ catalog = 0 /\ coverage = 0 /\ chips = 0 /\ sets = 0 /\ style = 0
     /\ engine = 0 /\ view = 0 /\ boot = 0 /\ task = 0 /\ left = 0 /\ card = 0 /\ drawer = 0 /\ nc = 0
     /\ opened = 0 /\ ended = 0 /\ pill = 0 /\ told = 0 /\ ever = 0 /\ failed = 0 /\ events = 0
     /\ zoom = 0 /\ moving = 0 /\ rendered = 0 /\ busy = 0 /\ indexed = 0 /\ callouts = 0
     /\ scale = 0 /\ shown = 0 /\ raw = 0 /\ source = 0 /\ lastSig = 0 /\ raf = 0 /\ regrow = 0
     /\ recent = 0 /\ covRecent = 0 /\ pads = 0 /\ padTimer = 0 /\ skipped = 0
  \/ /\ part = "installed" /\ Installed!Init
     /\ hosted = 0 /\ saved = 0 /\ bands = 0 /\ multi = 0 /\ live = 0 /\ shownAt = 0
     /\ scamin = 0 /\ timer = 0 /\ lat = 0 /\ call = 0 /\ imported = 0 /\ broken = 0
     /\ lost = 0 /\ dropped = 0 /\ fails = 0 /\ drops = 0 /\ pans = 0 /\ held = 0 /\ dir = 0
     /\ misses = 0 /\ leaves = 0 /\ last = 0 /\ zoom = 0 /\ moving = 0 /\ rendered = 0
     /\ busy = 0 /\ indexed = 0 /\ callouts = 0 /\ scale = 0 /\ shown = 0 /\ raw = 0
     /\ source = 0 /\ lastSig = 0 /\ raf = 0 /\ regrow = 0 /\ recent = 0 /\ covRecent = 0
     /\ pads = 0 /\ padTimer = 0 /\ skipped = 0
  \/ /\ part = "overlays" /\ Overlays!Init
     /\ hosted = 0 /\ saved = 0 /\ bands = 0 /\ multi = 0 /\ live = 0 /\ shownAt = 0
     /\ scamin = 0 /\ timer = 0 /\ lat = 0 /\ call = 0 /\ imported = 0 /\ has = 0 /\ broken = 0
     /\ lost = 0 /\ crossed = 0 /\ dropped = 0 /\ fails = 0 /\ drops = 0 /\ pans = 0
     /\ held = 0 /\ dir = 0 /\ misses = 0 /\ leaves = 0 /\ last = 0 /\ reg = 0 /\ gen = 0
     /\ job = 0 /\ asked = 0 /\ runs = 0 /\ installed = 0 /\ disabled = 0 /\ cells = 0
     /\ catalog = 0 /\ coverage = 0 /\ chips = 0 /\ sets = 0 /\ engine = 0 /\ boot = 0 /\ task = 0
     /\ left = 0 /\ card = 0 /\ drawer = 0 /\ nc = 0 /\ opened = 0 /\ ended = 0 /\ pill = 0
     /\ told = 0 /\ ever = 0 /\ failed = 0
Next ==
  \/ part = "archives" /\ Archives!Next /\ UNCHANGED <<part, NotArchives>>
  \/ part = "tiles" /\ Tiles!Next /\ UNCHANGED <<part, NotTiles>>
  \/ part = "installed" /\ Installed!Next /\ UNCHANGED <<part, NotInstalled>>
  \/ part = "overlays" /\ Overlays!Next /\ UNCHANGED <<part, NotOverlays>>
Spec == Init /\ [][Next]_vars

(* Each component under the fairness its own module states.                     *)
ArchivesStep(A) == part = "archives" /\ A /\ UNCHANGED <<part, NotArchives>>
Fairness ==
  /\ WF_vars(ArchivesStep(Archives!Settle))
LiveSpec == Spec /\ Fairness
-----------------------------------------------------------------------------
(* The state of each component is typed.                                      *)
TypeOK ==
  /\ part = "archives" => Archives!TypeOK
  /\ part = "tiles" => Tiles!TypeOK
  /\ part = "installed" => Installed!TypeOK
  /\ part = "overlays" => Overlays!TypeOK

(* A tile is answered by what the archives hold, whatever their directories,  *)
(* caches and earlier requests; a tile has one id, and an id one tile.        *)
TilesAreTrue == part = "tiles" => Tiles!AnswersAreTrue /\ Tiles!DepthIsTrue /\ Tiles!IdsNumberTiles

(* At rest the shell's pills, lists, coverage and style are the server's sets,*)
(* the progress row shows work that goes on, and the welcome card stands      *)
(* exactly over an empty chart; between loads every source of the style       *)
(* decodes and shows the archives of its band, imports among them; a map at   *)
(* rest outlines the charts it renders and has a pad on every callout, unless *)
(* an idle event was dropped.                                                 *)
SetsAreTrue ==
  /\ part = "installed" => Installed!RefreshIsTrue /\ Installed!PillIsWork /\ Installed!CardIsWelcome
  /\ part = "archives" => Archives!SourcesMatch /\ Archives!ImportsSurvive
  /\ part = "overlays" => Overlays!OverlaysAreTrue

(* Once the map is left alone, the layers are those of the archives' SCAMIN   *)
(* values, gated for the latitude in view, unless a rebuild was called off.   *)
BucketsFollow == <>[](part = "archives" => Archives!BucketsCurrent)
=============================================================================
