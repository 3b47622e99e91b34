# chartplotter, in TLA+

TLA+ models of chartplotter: the server (`src/internal/engine`, Go), which keeps chart cells
on disk, has the tile57 engine bake them into tile archives, serves them, and merges own-ship
and AIS data from network connections and plugins; and the browser (`src/web/src`, JavaScript),
which draws the chart and runs the panels, tools and plugins over it. They are model-checked
with TLC and, in part, proved with TLAPS. Both sides do almost everything concurrently: the
server in goroutines over maps and files that requests change at the same time, the browser in
async functions, timers, map events and streams that cross at every `await`. That is what the
models are about.

`PROJECT.json` lists, for every definition, the lines it models; for every run, what it
checks; and every hazard of the code at the line where it bites.

## 1. The system

The server:

| Component | Where | State it keeps | Operations | What is hard |
|---|---|---|---|---|
| Provider bake | `server/live_provider.go`, `tile57_bake.go`, `provider.go`, `tilesets.go`, `http.go` | `ENC_ROOT/<district>/*.000`, `tiles/*.pmtiles`, `tiles.next`, `.enginever`, `live.gen`, registered sets, prefs | download, delete, re-bake, enable, disable, start-up recovery and self-heal | long bakes beside unlocked downloads, a swap of directories that a crash can cut anywhere, restarts under another engine |
| Cell index | `server/cellindex.go` | name to bounds, in memory and in `cells-index.json` | kick, scan, forget, reconcile, save | single flight with a dirty flag, a scan beside forgetting, restarts |
| Attachment index | `server/auxfiles.go` | referenced file to location | invalidate, rebuild on lookup | invalidation during a rebuild |
| Plugin manager | `plugin/manager.go`, `state.go`, `install.go`, `server/plugins.go` | `plugins.json`, unpacked versions, one runner per plugin | install, enable, disable, re-grant, remove, the runner's restart loop and circuit breaker | stop that waits for a goroutine, requests interleaving between critical sections |
| Plugin broker | `plugin/broker.go`, `capabilities.go`, `session.go` | grants, pending requests, I/O handles, key-value files | JSON-RPC in both directions, host-mediated TCP, storage, fetch | capability checks before slow calls, revocation, lost updates |
| NMEA connections | `server/connections.go`, `nmea/manager.go`, `nmea/source.go` | `connections.json`, one runner per connection | create, change, delete, reconnect | requests that are applied out of order |
| Vessel and AIS stores | `nmea/state.go`, `publish.go`, `ais.go`, `server/vessel.go` | readings and targets with their sources | decode, publish, evict, clear, SSE streams | several writers of one value, change detection |
| Imports | `server/import.go`, `import_packs.go` | jobs | upload, fetch, packs, cancel, status stream | progress and end states from several goroutines |
| Formats | `pmtiles`, `tilesource`, `nmea/parse0183.go`, `nmea/cpa.go`, `catalog`, `baker` | none | pure functions | numeric edges |
| SDK, bundled plugins | `sdk`, `plugins` | | the other end of the plugin protocol | |
| tile57 engine | outside the repository | | bakes one directory of cells, composes tiles | modelled only as `compose.go` and `live_provider.go` use it |

The browser, under `web/src` but for the weather plugin:

| Component | Where | State it keeps | Operations | What is hard |
|---|---|---|---|---|
| Chart canvas | `chart-canvas/chart-canvas.mjs`, `chart-sources.mjs` | the map's style, the settings it was made for, sets and their generations | settings, packs, basemap, restyle by difference, rebuild | answers that cross, failures, rebuilds that undo updates |
| Style builder | `chart-canvas/chart-style.mjs`, `s52-style.mjs` | layers, filters, paint | build, in-place updaters | updaters that must agree with a build |
| Archives | `chart-canvas/pmtiles-source.mjs`, `chart-sources.mjs` | opened archives per band, directory caches, SCAMIN buckets | open, add, read a tile, rebuild buckets | opens that interleave, one timer for two jobs |
| Installed sets | `chartplotter.mjs`, `data/chart-service.mjs` | what the shell believes installed, progress rows | refresh in four awaited steps, flush, resume, rebuild | crossing refreshes |
| Chart library | `plugins/chart-library.mjs` | selections, batch, detail picture | download, import, remove, switch | flows that overlap at every await |
| Shell panels | `chartplotter.mjs`, `plugins/pick-report.mjs`, `dev-tools.mjs` | drawers, pick report, inspector, partition overlay | taps, boxes, keys | handing the map's gestures back, sources lost in a rebuild |
| Search | `plugins/search-box.mjs` | query, hits | type, open, go to | ranking |
| Overlays | `plugins/coverage-boxes.mjs`, `info-callouts.mjs` | outlines, pads | refresh on move, idle, zoom | throttles and debounces |
| Own ship, AIS | `plugins/own-ship.mjs`, `orientation-control.mjs`, `ais-overlay.mjs` | drawn pose, camera mode, markers | fix, tween, follow, gestures | eases that cancel each other |
| Wheel zoom | `plugins/wheel-zoom.mjs`, `hud.mjs` | detent, floor, ceiling | wheel, settle, probe | state across gestures |
| Weather | `core.weather/ui/plugin.mjs` | documents, grids, window | load, refresh, poll, write config | polls and read-modify-writes interleave |
| Plugin host and tabs | `core/plugin-host.mjs`, `plugins/plugins-panel.mjs`, `connections-panel.mjs` | controllers, layers, lists, forms, streams | sync, load, poll, edit, sniff | answers of two requests crossing |
| Settings | `chartplotter.mjs`, `core/core-settings.mjs` | one blob per screen, one at the server | change, debounce, save, boot | whole blobs that overwrite each other |

They meet as follows. HTTP handlers write cells (provider.go), ask the cell index for a
rebuild, and start a job; the job holds `bakeMu`, bakes the provider, registers its set and
invalidates the attachment index. Tile requests read the registered set. Connections and
plugin sessions write the two stores, which streams poll. A restart rebuilds everything
from the files. In the browser the library starts the jobs and hears their status; each end
makes the shell refresh its sets and hand them to the canvas, which rebuilds its style; and a
rebuilt style drops whatever overlays, panels and plugins had put on it, which each of them
puts back at `style.load`. The streams of the two stores feed own ship and the AIS overlay;
the plugins' list feeds the host and the Plugins tab.

## 2. Modules

| Module | Models | State and actions |
|---|---|---|
| `ProviderBake` | one provider with its districts | `src` (cells by edition), `tiles` and `next` (trees of archives with their stamp), `gen` (live.gen), what is registered, the job that holds `bakeMu` and the step it is at. One action per request (`Download`, `RequestRebake`, `RequestDelete`, `DeleteSet`, `SetEnabled`) and one per step of `bakeProvider` and `prepareLiveProvider` between which another goroutine or a crash can come; `Crash`, `BootRecover` and `Boot` are a restart, possibly under another engine |
| `ProviderBakeProofs` | | theorems about `ProviderBake` |
| `Rescan` | what an index builder promises | `asked`, `begun`, `passing` |
| `CellIndex` | the cell index, with the requests around it | `disk`, `bbox`, `saved`, the flags of `kick`, and each scanner goroutine with its locals. `ReadDir` lists a directory, `Visit` looks at each cell found; reading a file and inserting its bounds are two steps |
| `CellIndexProofs` | | theorems about `CellIndex` |
| `AuxIndex` | the attachment index | `loaded`, `entries`, and each lookup with its walk |
| `PluginManager` | one plugin | the record, the unpacked versions, the map entry, the requests and the runners. Requests and runners share the steps of `stopRunner` (`Take`, `Cancel`, `Await`) |
| `PluginSession` | one instance of a plugin | the runtime (a native process, whose pipe has room and which a kill ends, or a WASM guest, for which neither holds), the plugin (running, wedged, gone), the pipe to it, the three requests of the host with their channels, the read loop with the notifications it handles inline and the lines it cannot read, `runOnce`, `pingLoop` and `stop` |
| `PluginBroker` | what a session holds for its plugin | grants, the handle table and each dialed connection, AIS targets, the storage file with saves that fail; `setGrants`, `shutdown` and the plugin's requests in their steps |
| `PluginsProofs` | | theorems about `PluginBroker` alone, and about the components of `MCPlugins` |
| `NmeaManager` | one connection | its record, the manager's map entry, requests in their steps (`Accept`, `Apply` or `Remove`, `Cancel`, `Await`), the runners with their dial, read and retry loop, the channel of a client that watches raw lines |
| `VesselData` | the two stores and the streams | the last writer of each reading and target, with the provenance the code keeps; `VesselTick` and the four steps of a tick of the AIS stream |
| `FeedsProofs` | | theorems about `NmeaManager`, `VesselData` and `AuxIndex`, as `MCFeeds` puts them together |
| `ChartCanvas` | the style in server mode | the settings changed, last applied and shown, the chrome the client colours itself, each request in flight with what it captured; one action per handler up to its next await |
| `ScaminGate` | the filter gate of `?scaminexact` | the scale, the cutoff in the filters and in each loaded tile, the settle pass and its retry; the frames and tiles of the map library are external |
| `ChartStyle` | the style the browser builds | the templates (`point_symbols-north` among them), how they expand over sets and SCAMIN values and what is drawn over what; the layers of a build as records of what each was computed from; the updaters (`SetMariner`, `SetScheme`, ...) as they touch them |
| `Portrayal` | what filters and expressions draw | a feature and the settings, chosen freely; the predicates of `s52-style.mjs` against their reference definitions |
| `ChartProofs` | | theorems about `ChartCanvas`, `ScaminGate`, `ChartStyle` and `Portrayal`, as `MCChart` puts them together |
| `TileArchive` | reading PMTiles archives | directories and leaves with what is remembered of them, requests and answers; ids against the Hilbert curve's definition |
| `ChartArchives` | archives behind the sources | opens in flight, archives per band, the style's sources, buckets with their one timer, boot and imports |
| `InstalledSets` | the shell's view of the server | refreshes with what each has read so far, the style's sets (a single one under the source `chart`), tasks with ids that are reused and the progress row, the welcome card |
| `MapOverlays` | outlines and callout pads | what is rendered, pushed and placed; the zoom hook's frame and timer, the idle throttle, the pads' debounce |
| `ChartLibrary`, `PackDetail` | the library and its detail pane | flows in their awaited steps, jobs at the server, what each column was rendered from; snapshots with their timeout |
| `ShellPanels` | what floats over the chart | drawer, search, agreement, pick report with its reads, inspector, partition overlay, the camera mode with the drag that turns the map, and the gestures they borrow (box zoom and pan have two writers) |
| `SearchBox` | the search | catalog, loaded features, field, rows; the fuzzy score as a recursive function |
| `OwnShip` | own ship, follow and orientation | fix, tween, eases, mode, freshness, the user's gestures |
| `AisTargets` | other vessels | the stream and what it dropped, markers, the Layers switch, the card |
| `ZoomStops` | the wheel's detent and floor | zoom, park, latch, pull, probes in flight, the settle timer |
| `WindForecast`, `WindGrid` | the weather overlay | documents, config, polls; a grid's row with NaN, two interpolations and the reference |
| `MotionProofs` | | theorems about `OwnShip`, `AisTargets`, `ZoomStops`, `WindForecast` and `WindGrid`, as `MCMotion` puts them together |
| `PluginHost` | the browser's plugin host | list, controllers, layers through rebuilds, handles kept after the end of a controller, the Layers control |
| `PluginsPanel`, `ConnectionsPanel` | two tabs | the lists shown, forms open, requests and answers in flight (the two refreshes at mount and the polls of the host panel among them), log viewer, sniffer |
| `ScreenSettings` | settings of every screen | each screen's settings, storage and posts in flight, the server's blob |
| `TabsProofs` | | theorems about `PluginHost`, the two tabs and `ScreenSettings`, as `MCTabs` puts them together |
| `ShellProofs` | | theorems about `ChartLibrary`, `PackDetail`, `ShellPanels` and the types of `SearchBox`, as `MCShell` puts them together |

The runs of the components other than `ProviderBake` and `CellIndex` are put together by
`MCPlugins`, `MCFeeds`, `MCChart`, `MCArchives`, `MCShell`, `MCMotion` and `MCTabs`. Each
instantiates components that share a theme and lets `part` choose one of them at the start;
the variables of the others rest at 0. A behaviour is one of one component, so that the state
space is the sum of theirs and not the product, and a property says, for each part, what its
component promises. What components hand one another is therefore inside one module, where it
matters: `ShellPanels`, `PluginHost`, `MapOverlays` and `ScaminGate` each contain the style
rebuilds of the canvas that undo their work, `InstalledSets` the library's jobs. The runs
of `ProviderBake` and `CellIndex` instantiate these modules themselves; the switch
CHARTPLOTTER_NO_REBAKE is off in them but in `provider_live`, which lets it change.

## 3. Runs

"pass" runs check that a property holds; the "violation" run shows that the code does
something one of its own comments denies, and has an entry under `findings` that quotes
the comment.

| Run | Shows |
|---|---|
| `provider_safe` (pass) | Downloads, deletes, re-bakes, enabling and disabling of two districts with two editions each, one restart at any step under the same or another engine: the stamps tell the truth, jobs register what is installed, and charts that were on the map stay on disk and return to the map. Checks `TypeOK`, `StampTruthful`, `ChartsSurvive`, `RestartKeepsCharts`. |
| `provider_live` (pass) | Under fair scheduling of the lock holder, with a bake that may fail and the no-rebake switch, an installed provider comes to be served, and with archives of the running engine. Checks `Recovers`. |
| `provider_disabled` (violation) | The self-heal bake of a restart enables a provider its user had disabled. Checks `DisabledSurvivesRestart`. |
| `cells_safe` (pass) | Two cells with two editions each, downloads, deletes and a restart while scans run: one scan at a time, and at rest the index names the installed cells with their bounds. Checks `TypeOK`, `SingleFlight`, `IndexIsCurrent`. |
| `cells_live` (pass) | The single-flight loop implements Rescan: every rebuild asked for is followed by a whole pass. Checks `ImplementsRescan`. |
| `plugins` (pass) | Two overlapping requests of any kind, crashes and a restart around one plugin; one session, native or WASM, with a plugin that may hang or exit at any step; its handles while grants change, and its storage file with saves that fail: what runs is what is recorded and granted but for the overlaps the history variables name, and a session comes to its end unless its read loop is stuck in a write of its own or its guest ignores its context. Checks `TypeOK`, `OneRuns`, `RunsAsGranted`, `HandlesAreTrue`, `AcknowledgedIsStored`, `PluginsEnd`. |
| `feeds` (pass) | Two overlapping requests on one connection with a restart; the stores with their writers and two streams; lookups and changes of the attachment index: what runs is configured, what is shown is stored, and what is indexed is there. Checks `TypeOK`, `RunningIsConfigured`, `NothingIsStale`, `FeedsCatchUp`. |
| `chart` (pass) | Changes of settings, packs, schemes and basemap with requests that fail and answers that cross, with one installed set (live source `chart`) and several; the SCAMIN gate over moves and style changes; the JavaScript style builder with its buckets and its north-up clone against its updaters; every feature of a small world under every setting. Checks `TypeOK`, `StyleIsCurrent`, `DrawnRight`, `MapSettles`. |
| `archives` (pass) | Archives opened at boot and dropped on the page, in any order and failing; requests for tiles in directories of three layouts; refreshes, bakes, shell jobs and library tasks, their ids reused, over two installed sets or a single one; outlines and callout pads over moves, re-bakes and rebuilt styles. Checks `TypeOK`, `TilesAreTrue`, `SetsAreTrue`, `BucketsFollow`. |
| `shell` (pass) | Downloads, removals and imports of the library with two clicks and two faults; its detail's pictures, however late; taps, boxes, keys, panels, camera modes, turning drags and rebuilt styles in every order; the search box over typed texts, changing charts and loaded tiles. Checks `TypeOK`, `LibraryIsTrue`, `ToolsLetGo`, `SearchAnswers`, `ShellCatchesUp`. |
| `motion` (pass) | Fixes, frames, eases, gestures and camera modes; the wheel's detent and floor over two places; the forecast's documents, polls and writes; every pair of small wind grids; the targets of other vessels, their stream and their switch. Checks `TypeOK`, `NoPhantomBoat`, `WindIsOne`, `CameraArrives`. |
| `tabs` (pass) | A plugin enabled, disabled and re-loaded while its layers outlive style rebuilds and a kept handle draws on after its end; the Plugins and Connections tabs with crossing answers, polls that land late, forms and streams; two screens with one settings blob. Checks `TypeOK`, `PluginsShown`, `SettingsAgree`, `TabsCatchUp`. |

### Bounds

Every bound is a CONSTANT whose comment says "bound". The interesting cases need very
little: two districts or cells (one that changes while the other is untouched), two editions
(an old and a new one), two engines (what the stamp must tell apart), one or two restarts
(one that cuts a step, one that cuts the recovery from it), two scanners or lookups (one
would make single flight trivial), two crashes to open a breaker (so that one crash does
not). `PluginManager` has two requests of any kinds, which overlap at every step, and two
events (crashes and restarts) beside them, the crashes a breaker needs among them.
`PluginSession` has the code's own limit of missed pings, `MaxMisses = 3`, and for a native
plugin a pipe of four messages, which the pings before that limit and the goodbye do not fill,
while notifications to the plugin do; the pipe of a WASM plugin holds nothing (`io.Pipe`). `NmeaManager` has two requests, which overlap, with two
runners, and a channel of one line, which fills at once. `VesselData` has one plugin and
the connections, two writers of one path and one target: paths and targets do not touch one
another, and the streams copy all of them together. `PluginBroker` needs one dialed connection, because dials
share nothing but the grants and the flag of the session. The pool of runners is large
enough that no request waits for ever for one that is free: `FeedsCatchUp` and `PluginsEnd`
would be violated. Runs that check liveness use no symmetry.

In the browser the interesting cases need two of what can cross and one of the rest: two
requests in flight (`MaxCalls`), two or three changes beside them, one failure, one rebuild,
two packs of which one may be the only one, two screens for the settings, two stacked features
for the reports. `ScaminGate` has three
scales, so that a band can be left and entered again. `TileArchive` has a flat directory, one
with a leaf, and an empty archive, and caches of one entry, so that entries are forgotten.
`Portrayal` draws its depths and days from three or four values around each threshold.
`ZoomStops` has two places with different detents and depths. `WindGrid` takes winds that are
multiples of 32, for which quarters of quarters are exact, and `NaN`. `SearchBox` scores every
text of up to four characters over two letters and a blank, alone and behind nine others,
where an early match stops counting; its lists are cut at one or two rows instead of 5, 8 and
40, so that something is left out. `MapOverlays` has two charts, one of them small.

`CHECK_DEADLOCK FALSE` stands where the bound on
requests, or a shutdown, lets the system stop.

### Fairness

Weak fairness of the steps of a goroutine that has something to do: the scheduler of Go runs
it eventually, and no step is enabled only now and then. Nothing is assumed of clients, of
crashes, or of plugins that have not been cancelled. A process that restarts does so a
bounded number of times. A native plugin that is cancelled ends, because its process is bound
to the context; a WASM plugin that hangs need not, because nothing asks the runtime to look at
the context while the guest runs (`Immortal`). In `PluginSession` every timeout of the host
comes in the end, while the plugin need never read or answer, and the peer of a connection
that the read loop writes to need never read (`Unread`). In `NmeaManager` a dial and a backoff end, by
their timers, and a connection whose context has ended is closed; no device need ever send
or accept. The streams of `VesselData` tick on. In `ProviderBake` the holder
of `bakeMu` moves on and the engine ends each bake, with success or failure; the liveness
properties ask for success only when failures stop.

In the browser: a promise settles, a timer fires, the map draws frames and loads the tiles in
view, an interval polls on while its tab is mounted, and the server answers. The poll of the
Plugins tab and the repeated fixes of own ship are under strong fairness, as they are enabled
again and again between other work. In `ChartCanvas` one condition covers what is due: while a
request, the debounce timer or the map's idle event is, one of them happens. In
`ChartArchives` only the idle event and the timer must come: no open need ever answer.
Nothing is assumed of users, of other screens, of failing
requests, or of a dropped connection's return but that a stream reconnects by itself.

### Known disagreements

One violation run shows behaviour that the code's own comments deny. The models contain
more of it. Each is exempted from the property below by a premise, mostly a history
variable that names the event, and TLC produces the counterexample when the premise is
dropped. Paths are under `src/internal/engine`, but for those of `docs`.

| Where | What the code does | What it says | Exempted by |
|---|---|---|---|
| `server/live_provider.go:254` | a first import is staged too; a crash in it leaves an unfinished `tiles.next` that recovery moves into place (the self-heal bake then finishes it) | 252-254: "the staged tree was complete" | `RestartKeepsCharts` accepts a queued bake |
| `server/live_provider.go:201` | a process that dies inside `RemoveAll(tiles)` and returns under the older engine finds a matching stamp and serves what is left | 31-33: an interrupted bake "is completed by rebakeMissingProviders instead of served" | the roll-back named in `RestartKeepsCharts`; nothing in `ChartsNeverLost` |
| `server/live_provider.go:168` | after such a death, a bake of a third engine begins by discarding the staged tree, which has the only archives of what was removed; the charts are gone until that bake is through | 192-193: the swap "is the ONLY point the previous archives are dropped" | `"discarded"` in `ChartsNeverLost` |
| `server/live_provider.go:176` | a bake under CHARTPLOTTER_NO_REBAKE stamps the older engine's archives as current | 228-229: "this only suppresses the "engine changed" staleness re-bake" | `"muted"` |
| `server/tilesets.go:122` | a provider deleted while a job bakes it is registered again | 107-108: the set "stops appearing in /tiles/ and rendering immediately" | `"raced"`: what such a job registers is not among the charts to be kept |
| `server/tile57_bake.go:147` | a district downloaded between the listing and the drop is removed with the provider | 139-140: "a provider whose ENC_ROOT is now empty" | no property; `DropEmpty` |
| `server/tile57_bake.go:84` | a cell rewritten while it is baked gets an archive newer than its new source, which the next job skips | 83-84: "the archive is a pure function of the ENC_ROOT" | `rewritten`, the edition of that district |
| `server/tilesets.go:299` | enabling after a bake that failed half way serves new content under the old token | 28-29 of live_provider.go: it "changes exactly when the cell set or any cell's content changes" | no property; `SetEnabled` |
| `server/http.go:115` | a further district whose bake a restart interrupted is not missing, so nothing bakes it | 111-113: "The provider's charts reappear without a re-download" | `SelfHeal` is about the provider |
| `server/cellindex.go:179` | a scan inserts bounds it parsed before the cell was downloaded again and forgotten, and no later pass looks again | 172: "forget() drops a re-imported cell so it re-parses" | `raced` |
| `server/cellindex.go:353` | `forget` does not save: after a restart the old bounds stay | 348-349: "so the next build re-parses them" | `cut` |
| `server/tilesets.go:155` | deleting a district asks for no rebuild of the cell index | cellindex.go:187-188: "never reports a chart that isn't installed anymore" | `unasked` |
| `server/auxfiles.go:91` | an invalidate during the walk of a lookup is lost | 40-41: attachments "resolve without a restart" | `tainted` |
| `plugin/manager.go:310` | `startRunner` stops the runner in the map and registers its own in two critical sections: of two concurrent `Enable`s the later forgets the runner of the earlier, which nothing can stop any more | 19-20: "the lifecycle of one runner per active plugin" | `crossed`, runner by runner |
| `plugin/manager.go:369` | a stop that `Enable` asked for can open the breaker, which disables the record while `Enable` registers a runner | 21-22: "N crashes in M minutes -> disabled" | `"overtaken"`, until a later request takes or registers the runner |
| `plugin/manager.go:138` | installing over a running plugin resets its record and leaves it running under its grants | 131-132: "disabled, ungranted" | `"replaced"`, until then too |
| `plugin/manager.go:370` | the goroutine of a runner whose breaker trips calls `stopRunner` of its own id, whose stop waits for that goroutine: it never ends | 104-105: "ctx bounds every runner" | `PluginsEnd` is about requests |
| `plugin/session.go:57` | a write to a plugin that has stopped reading, with its pipe full, has no deadline: pings count no miss, and a stop does not end | docs/docs/plugins/packaging.md:191: "3 missed pings → restart" | `Blocked` |
| `plugin/manager.go:393` | grants that change as a broker is attached never reach it | 188-189: "hot-applying it to a running plugin" | `stale`, runner by runner |
| `plugin/manager.go:207` | `hotApply` mutates the record under one lock and pushes to the runner after it: of two that cross, the earlier may push last, and the session stays under the older grants | 188-189, as above | `outdated`, runner by runner |
| `plugin/manager.go:224` | an `Enable` that began before a `Remove` leaves a runner of the removed plugin | 221: "stops, disables, and deletes" | `"overtaken"`, `crossed` |
| `plugin/install.go:98` | a restart between the unpacked files and the record, or between the record and the removal of the files, leaves files that no record names | (no claim found) | `torn` in `FilesMatchRecord` |
| `plugin/manager.go:416` | a plugin that exits by itself leaves the connections the host dialed for it open | (no claim found) | `orderly` |
| `plugin/capabilities.go:299` | two overlapping storage requests lose an acknowledged key | (no claim found) | `doubt`, key by key |
| `plugin/capabilities.go:314` | `storage.delete` replies ok although its save failed, as `storage.set` does not: the key is back with the next read | 301-304: `storage.set` answers the error of its save | `doubt`, that key |
| `plugin/broker.go:119` | notifications are handled inline, `tcp.send` among them, which writes without a deadline (`plugin/capabilities.go:208`): a peer that does not read holds up the read loop, with every answer and the end of the session behind it | 108-109: "they are fast store writes" | `Unread` in `PluginsEnd` |
| `plugin/runtime/wasm/wasm.go:65` | the runtime is made without `WithCloseOnContextDone`: a guest that loops does not end with its context | 103-104: "(or the context is cancelled — how Kill aborts a wedged module)" | `Immortal` |
| `plugin/capabilities.go:178` | a dial under way when its grant is revoked ends as an open connection | broker.go:234-236: revoking "tears down the host-mediated connections it authorized" | `late`, dial by dial |
| `nmea/manager.go:88` | of two changes that overlap, one can drop the runner the other has started, or apply the older settings last | 75-76: "any existing runner for the id is stopped" | `raced` |
| `nmea/publish.go:66` | `ClearSource` also clears a reading that a connection has renewed since, because `Store.Apply` leaves the provenance alone | 58: "every reading last written by source" | no property |
| `server/connections.go:265` | removing a connection clears none of its readings | nmea/publish.go:58-60: "a plugin or connection the user deliberately disabled/removed" | `NoPhantom` is about plugins |
| `nmea/ais.go:215` | `EvictSource` removes a target that a connection keeps alive | 209: "last written by source" | `TargetsAreAttributed` is about plugins |
| `nmea/ais.go:285` | expired targets are dropped without a new version, so that a stream with nothing else to tell goes on showing them | docs/docs/nmea0183.md:36: "AIS targets fade out on their own after a few minutes" | `faded` |

### Known disagreements and gaps of the browser code

What the models of the browser contain, or leave out, of behaviour that differs from a
comment or would surprise. Paths are under `src/web/src` where they are not given in full.

| Part | What the code does | In the model |
|---|---|---|
| Canvas | a setting changed while an earlier change's request is in flight is recorded as applied and never shown | `overlapped` in `SerialChangesShow` |
| Canvas | after a full style failed to arrive, setting the same packs again fetches the style and only refreshes the tiles (`chart-canvas/chart-sources.mjs:431`): the next difference starts from settings the map does not show (`chart-canvas/chart-canvas.mjs:1493`) | `live.kept` in `DiffBaseIsShown` |
| Canvas | with one installed set the engine's style has its live source under `chart`, while `refresh()` and `flushTiles()` look up `chart-<set>` only (`chart-canvas/chart-sources.mjs:345,369`): after a re-bake the map keeps asking for the tiles of the old generation until the style is rebuilt (358-359: "points the source at the new tile URL") | `Alone` in `SerialChangesShow` and `RefreshIsTrue` |
| Canvas | in engine mode `setScheme` returns once the engine's style is asked for (`chart-canvas/chart-canvas.mjs:732`): what the client colours itself keeps the old scheme until a rebuild | `live.chrome`, of which `SerialChangesShow` speaks without an engine style only |
| SCAMIN gate | `setBasemap` brings back the placeholder cutoff until the next crossing (`chart-canvas/chart-canvas.mjs:801`: "the settled chart is always SCAMIN-exact") | `bare` |
| Styles built in the browser | `setScheme` skips the sector lines, scale boundaries, meta boundary, placed text and vector basemap, and gives the data-quality labels another ink; `setMariner`'s text filter drops a clause; `setBaseFilter` loses the SCAMIN clauses of bucket layers (`chart-canvas/chart-style.mjs:299`); hidden cells are forgotten by a rebuild; changes in place made while a new style loads are lost | `Unpainted`, `Unfiltered`, `Unswitched` and `late` in `UpdatersMatchRebuild` |
| Styles built in the browser | `_bandOfLayerId` reads the text after the last `@` (`chart-canvas/chart-canvas.mjs:1346`), which in a SCAMIN bucket ends in `#no` or `#sm<n>`: buckets do not follow their band, and those that a rebuild made while it was off stay hidden when it comes back | `"band"` in `late`: then a bucket is only known not to be shown against its own switch |
| Styles built in the browser | the clone of `point_symbols-north` for SCAMIN has that id as its base, so that the updater of the safety contour, which names `point_symbols`, misses it (`chart-canvas/chart-style.mjs:296-298`: "every live restyle/visibility/filter update [...] also hits the clone") | `Unlaid` |
| Zoom | the wheel re-bases only on its 200 ms gap, though `wheel-zoom.mjs:20` says also after another gesture moved the camera; a zoom at the cursor toward a pole lowers the detent, which depends on latitude, under the same throw; probes of the data's depth land out of order and apply the ceiling of a place left behind | `Absorbs` speaks of a target that has not passed the detent; probes answer in any order |
| Archives | a changed set of SCAMIN values should rebuild the layers, but one timer serves that and the finer gate, and a move within 450 ms calls the rebuild off; the `_hasArchive` flag follows the list of regions, even if none of them opens | `dropped` |
| Overlays | an idle event inside the 250 ms throttle is dropped, and outlines stay stale until the next (`chartplotter.mjs:789`); a re-baked footprint of the same charts is not drawn again | `skipped` |
| Installed sets | `cells()` answers an empty set on an HTTP error; `packs()` failing blanks the map; refreshes that cross leave the style behind the sets | `failed`, `crossed` and `ever` in `RefreshIsTrue` |
| Installed sets | a task id is used again while handles of the earlier task live (`core/notification-center.mjs:38` looks for the id only): a late report of an ended job writes the row of the next, and an old end removes its task | both happen in `InstalledSets`; `PillIsWork` says only that the row names a task that is there |
| Search | a scattered match that begins earlier is taken before a clean substring, against the comment of `fuzzyScore` that a substring wins; of a feature's further texts only the first that matches counts; rows are not ranked again when charts or tiles change under an open box | `ScoreRanks` compares what matches at once from the start; `RowsAnswer` is of the moment the rows were made |
| AIS | the card keeps the data of the tap, also when its target has gone | `card` is outside `MarkersFollow` |
| Weather | a refresh ends early only for a newer GFS cycle: newer HRRR hours under the same cycle are polled for and not taken; `destroy()` during `start()` leaves an interval; the window's centre and the refresh nonce are read, changed and written as one config (`overlap`); the strip and the readout treat one missing side of an interval differently; `_docArr` does not wrap a grid of 0 to 360 degrees | `RefreshOver` asks for the end only; `CentreKept` excuses `overlap`; `SameWindEverywhere` compares where both sides are present |
| Settings | a reload within 400 ms loses the save; two screens overwrite each other's blob; a pitch that was reset never reaches screens that stored one | `clean` in `ChangesAreStored` |
| Chart library | a tick in the second pane leaves the Select button stale; packs ticked during a batch are lost at its end; `deleteDistrict` ignores `res.ok` | `PanelAtRest`, `DoneIsDone` state what remains |
| Chart library | the Terms link (`chartplotter.mjs:2125`) opens the agreement without a click that waits; pressed while a download waits for it, it takes over `_agreeResolve` and the download waits for good | not modelled in `ChartLibrary`, where a second click does the same |
| Shell panels | callout pads open the report while inspecting; Escape in the search field with the drawer open closes both; a rebuilt style loses the pick mark under an open report; Escape during a drag of the box leaves a marked inspection with the inspector off; the partition overlay is not added again after a style load | `ReportIsOne` and `OverlaySwitched` state what remains: a mark, a text or an overlay that is there is the right one |
| Shell panels | box zoom has two writers: the inspector frees SHIFT for its box (`plugins/dev-tools.mjs:396`), and the camera mode frees it for the turning drag (`chart-canvas/chart-canvas.mjs:956`: "box-zoom yields to it in free mode"). Cycling to a follow mode while inspecting turns it on under the inspector's box, and disarming in free mode turns it on beside the turning drag | `MapIsHandedBack` says nothing of it there |
| Shell panels | a second pointer pressed during a box forgets the element of the first, which stays on the map (`plugins/dev-tools.mjs:302-312`) | not modelled |
| Camera | `updateFollow` remembers the fix in free mode, so cycling through the modes centres again; a gesture in the 300 ms ease leaves the bearing part-way; leaving free mode need not level the map (`chart-canvas/chart-canvas.mjs:889`) | `Arrived`, unless moves go on |
| Plugin host | a rebuilt style loses a plugin's layers until it sends data again; two list answers may cross | `Healed` for plugins that send; `raced` in `HostFollowsList` |
| Plugin host | a handle that a controller keeps after its end draws again: `setData` calls `_ensure`, which re-creates source and layers that nobody removes (`plugins/plugin-layers.mjs:56`, against docs/docs/plugins/ui.md:43-45: the host "removes all your layers") | `revived` in `HostFollowsList` and `DrawnAsTold` |
| Plugin host | a module without a default export stays in `_installed` and is never loaded (`core/plugin-host.mjs:111-112`) | `bare` |
| Plugins tab | a tick loses the draft of an open editor (`plugins/plugins-panel.mjs:7`); a late log answer fills another plugin's viewer for up to 2 s; the log interval outlives the tab; a failed save rebuilds the editor; `_patchBadges` leaves the detail line of a row as it was | `RowsShowList` is about buttons and badges |
| Connections | refreshes that cross leave a stale list, and the mount starts two (`plugins/connections-panel.mjs:99-118`); a poll of the host panel that was asked before a refresh and is answered after it overwrites the plugins' rows with an older list; other screens' changes are seen on reopening; a pause PUTs the cached source whole; Save is not disabled in flight and creates twice | `crossed` in `ListIsServer` |
| Vessel state store | stopping and starting it while its poll sleeps leaves two loops | not modelled |

## 4. What is proved

Every theorem is of the specification a run checks, or of the module it is built from, for
every value of the constants that satisfies the module's assumptions: any number of districts,
cells, requests, runners, plugins, keys and restarts. The assumptions are about what the
constants are (that a bound is a number, that the name for nothing is nobody's, that there is
a goroutine to run) and TLC evaluates each of them in a passing run. The strengthened invariants were
checked by TLC on the instances of the runs before they were proved.

### Provider bake

`ProviderBakeProofs`:

- `TypeCorrect`: `Spec => []TypeOK`. The type invariant is inductive with a finite case per
  action once two facts are added: that a stopped process has no job, and that the record
  fields of trees and jobs keep their types under the updates the actions make (the lemmas
  `TreeTypes`, `WriteTypes`, `RemoveTypes` and `JobTypes`, which keep the record sets
  folded up for the solver).
- `StampsAreTruthful`: `Spec => []StampTruthful`, that is, until a bake runs under
  CHARTPLOTTER_NO_REBAKE. The property is not inductive: a step of a bake writes an archive
  of the running engine into a tree, which keeps the stamp true only if the stamp of that
  tree is the running engine's. `BakeTreeStamped` says so for the tree the job in flight
  writes, and `StoppedIsIdle` says that no job survives a restart under another engine.
  With `TypeOK` and the truth of both trees they make the inductive invariant `StampInv`.
  The premise is needed: under the switch a bake stamps archives it did not make.
- `ChartsAreKept`: `Spec => []ChartsSurvive`. Charts that were on the map are, at any moment,
  in the tree that is served, in the staged one, or still to be baked by the job in flight.
  `Whereabouts` says which, by the step of the job: from the removal of the old tree on all of
  them are in the new one, and a process that dies in that removal (`"torn"`) or between it and
  the rename leaves them there. A torn tree is no exemption; what follows it is, when a bake of a
  third engine discards the staged tree (`"discarded"`), until that bake is through. The second half of the property, that a job registers what is installed, is about
  editions, and has an invariant of its own: `Fresh` (an archive that would be skipped is of the
  edition on disk), `ReadsOnce` (a cell being baked is) and `Baked` (so is what the job has
  done), each but for the districts in `rewritten`, whose source changed while the engine read
  it. That every installed district is registered needs no such exemption. A deletion under a
  job (`"raced"`) takes what was there out of what is to be kept and ends with the job.
- `RestartsKeepCharts`: `Spec => RestartKeepsCharts`, an action property, from the same
  invariant: a start either registers every chart that is to be kept or has queued a bake of
  the provider (whose arrival is liveness, `Recovers`, and stays with TLC). The one exemption is
  a start that takes what is left of a torn tree for its own engine's.

### Cell index

`CellIndexProofs`:

- `CellsTypeCorrect`: `Spec => []TypeOK`. `TypeOK` is inductive because it says which
  locals a scanner holds at which step: `Insert` writes bounds only of a cell it holds.
- `OneScanAtATime`: `Spec => []SingleFlight`, by the inductive invariant `FlightInv`. The
  lemma `StepKinds` sorts the fifteen actions into six kinds by what they do to the flags
  and the scanners; the proof has one step per kind.
- `CellsRescanSafely`: `Spec => Abstract!Init /\ [][Abstract!Next]_(Abstract!vars)`, the
  safety of `Rescan` under the mapping of `ImplementsRescan`. `FlightInv` carries the
  conjunct `Wanted` for it: a scanner begins a pass only while the index is dirty, and a
  dirty index has a request that the last pass began before. Single flight is what makes
  the end of one pass the end of all.
- `IndexIsTrueAtRest`: `Spec => []IndexIsCurrent`. That every installed cell has bounds is
  without exemption; that the bounds are those of its file leaves out single cells only, `raced`
  and `cut`. That bounds are those of the file has to
  hold on their way too: `BoundsInv` follows them from the file (`ReadBounds`) into the index
  (`KeptBounds`). That the names are those of the directory is true only of cells no request
  has touched since the pass began, `Still`; of these `PassInv` says what the pass knows as
  far as it has come (`Walked`), and what the index has when it is over (`Named`).

### What the server is fed

`FeedsProofs` proves the invariants of the run `feeds`; each is that of one of its components
in turn.

- `FeedsAreTyped`: `Spec => []TypeOK`.
- `RunnerIsTheRecords`: `Spec => []RunningIsConfigured`. However many requests overlap, the
  runner of the manager's map is not cancelled (`LiveMap`), requests stop others than that, a
  different one each (`Apart`), and an open connection shows as connected (`Badges`). While no
  two requests have overlapped, at most one is served (`Alone`) and it knows what to stop and
  what to start (`Serving`), so that at its end what runs is what is configured.
- `FeedsAreCurrent`: `Spec => []NothingIsStale`. Of the stores, that every reading is
  attributed to the writer the provenance names makes clearing a source complete; of the
  attachment index, a lookup that has not been overtaken by an invalidate has listed what is in
  the directories it has walked (`WalksAreCurrent`).

### Plugins

`PluginsProofs` proves, of `PluginBroker` alone, `BrokerKeepsFaith`: its type invariant,
its three properties of handles and its property of the storage file. What `closeHandles` has
taken is out of the table for good, and an open connection is in the table, taken, or about to
be entered (`Held`); whoever revokes a grant has still to close, or to evict, what is left of
it (`Revoked`); a shutdown leaves late dials only (`Emptied`). Of the keys that are not in
doubt, the file has those that were acknowledged, and so has the copy each storage request has
read, which is why what it writes is right; two requests under way put their own keys in doubt,
two writes under way all of them (`Kept`).

It proves the invariants of the run `plugins` too:

- `PluginsAreTyped`: `Spec => []TypeOK`, whatever requests overlap. The manager's needs that a
  push goes to a session that is still there (`Pushes`) and that a runner short of its breaker
  has crashes to spare (`Spare`); the session's, that only a request that waits has an answer
  under way (`HeldWaits`) and that pings stop at the last miss (`Misses`).
- `HandlesStayTrue` and `AcknowledgedStaysStored`: `Spec => []HandlesAreTrue` and
  `Spec => []AcknowledgedIsStored`, from the same lemmas.
- `OneStaysRunning` and `GrantsStayCurrent`: `Spec => []OneRuns` and `Spec => []RunsAsGranted`, for
  any number of requests that overlap in any way. What overlapping does break in the code is left
  out runner by runner, not by a premise: a runner that was registered while another was being
  stopped or was about to be registered is in `crossed`, one whose session was attached under
  changing grants in `stale`, one that a crossing `SetGrants` reached last in `outdated`; `excuse`
  says that the record was changed behind the registered runner (`"replaced"`, `"overtaken"`) and
  is emptied by the next request that takes or registers a runner. The inductive invariant
  `ManagerInv` has six parts. `Typed` are the types. `Runs` accounts for every other runner that
  has not returned: it is the registered one, or some request stops it, or its breaker tripped and
  it waits for itself (`Accounted`); who waits for a runner has cancelled it (`Awaited`); the
  registered one is not cancelled (`CurLives`) and nobody is stopping it (`Taken`), and unless it
  crossed another nobody is about to register or stop one (`Alone`), so that one lives (`Single`).
  `Recorded` says what each request has left of the record and of the files at each of its steps
  (`Ops`, `Closing`, `Files`). `AsRecorded` says that what is to run runs, or some request is on
  its way to start it (`EnabledRuns`, `Coming`), and that what is not to run is on its way to be
  stopped (`DisabledRests`). `Granted` follows new grants from the record into the runner
  (`RunnerGrants`) and from the runner into its session (`SessionGrants`), through whichever of
  several requests carries them. That a plugin turned off leaves no readings (`Silent`) needs that
  the request clears them when no runner is left that could publish.

### Browser tabs

`TabsProofs` proves the invariants of the run `tabs`: `TabsAreTyped`, `PluginsStayShown` and
`SettingsStayAgreed`, that is, `Spec => []` of `TypeOK`, of `PluginsShown` and of
`SettingsAgree`. Each of the four components has an inductive invariant, and `TabsInv` is the
four of them, each for its part.

- The plugin host (`HostInv`): only a loaded controller has anything in the Layers control or among
  the overlays, or on the map, but for plugins whose kept handle wrote there after their end
  (`LoadedOnly`, `revived`), and a list that has been taken is the last one
  sent (`LastList`), so that the host has caught up once the stream is empty. Until a list drops
  a plugin that is still being imported, or comes after a newer one (`raced`), a plugin that is
  installed and not loaded has one import under way, unless its module had no controller (`bare`),
  and any other none (`ImportsOnce`), and what
  is subscribed belongs to a loaded controller (`Owned`).
- The Plugins tab (`TabInv`): what is shown is the invariant of the run itself,
  `RowsShowList`, once the drill-down of the connections is known to hide the list
  (`DrilledAway`); the lemmas `RenderKeeps` and `PatchShows` are about the two ways rows change,
  by a rendering and in place.
- The Connections tab (`ConnsInv`): any number of refreshes and polls may be under way, two
  refreshes from the mount on. Every answer in flight, of a list or of a poll, the panel between
  the two requests of a refresh, and the panel when no refresh is under way have what the server
  has (`Told`), unless a refresh has begun with another one's or a poll's answer on its way
  (`crossed`), or the server has applied a change whose answer is still to come and will start
  another refresh (`Owed`); `Fresh` is the invariant. A badge that a poll patches leaves what the row says otherwise (`PatchDraws`).
- The settings (`SettingsInv`): every control is tied to the screen's settings at every step
  (`Synced`), so that one change of one setting keeps it by whichever control it is made
  (`ControlsShow`). The last post of a screen carries its settings unless a save is still
  due (`LastIsCurrent`), from which a screen nobody crossed has its changes stored
  (`CleanIsStored`).

### Browser shell

`ShellProofs` proves three invariants of the run `shell`: `ShellIsTyped`, `LibraryStaysTrue` and
`ToolsAlwaysLetGo`, that is, `Spec => []` of `TypeOK`, of `LibraryIsTrue` and of `ToolsLetGo`.
`ShellInv` is the invariant of each component for its part.

- The chart library (`LibraryInv`): a flow at work follows a job of its own kind and any other
  flow none (`FollowsJobs`), so that a job that ends can be laid to one flow; the modal is of a
  click that still waits for it, and while it is up nothing has been accepted (`Gate`), so that
  the click it settles finds no batch under way; while the batch is busy exactly one click works
  (`OneWorks`); and a finished job that a click still watches has made that click's packs
  (`JobIsMade`), which is what a download needs in order to be reported done. A click whose
  modal was taken by another stays where it is for good, which `Gate` allows. The panes are
  compared with what they would show now only at rest, and only the last step of a flow comes
  to rest, which renders; but a box ticked in pane 2 does not go through a rendering (`Ticking`).
- Its detail pane (`DetailInv`): the picture waited for is the selected pack's (`WantsSelected`);
  the map in the slot is still at work (`SlotWorks`), since a picture that ends either empties
  the slot, or was not the slot's, or leaves another of the same pack; and a picture is cut off
  only after it has a map (`ShotsCount`), without which a pack could have more pictures under
  way than are let in.
- The panels (`PanelsInv`): a late read that still counts is of the feature that shows
  (`ReadsShown`), and no mark survives into a style that is loading (`Report`, `Inspector`). Box
  zoom is written by the inspector and by the camera mode: `Inspector` says what holds of it
  whichever wrote last. `Rest` has the pan, which the box and the turning drag both borrow.

Of the search only the types are proved.

### What moves over the chart

`MotionProofs` proves the invariants of the run `motion`, `MotionIsTyped`, `NoBoatIsPhantom` and
`WindStaysOne`, that is, `Spec => []` of `TypeOK`, of `NoPhantomBoat` and of `WindIsOne`; and the
first part of `CameraArrives`, `ThrowsAreAbsorbed`: `Spec => [][part = "stops" => Stops!Absorbs]_vars`.

- Own ship (`ShipInv`): there is a state of the GPS, and an age, exactly when there is a fix, so
  that what hides the boat hides what was drawn from it.
- The other vessels (`AisInv`): the markers are of the last message even while nobody listens
  (`Follows`), and shown as the switch says (`ShownAsSaid`), which a switch in between two
  messages and a message in between two switches both have to keep.
- The wheel (`StopsInv`): a gesture that the detent has stopped keeps it armed and has a target,
  until the pause that ends the gesture.
- The forecast (`ForecastInv`): the grids are of the documents last read, and while no two writes
  overlap the server has the centre the user chose, the window and the refresh do not write at
  once, and what the refresh will write back has that centre too (`WritesApart`).
- The grids (`GridInv`): a document is one of the planes it was made from, with the same holes in
  its planes. The two interpolations are compared by cases of the hour and of the missing values,
  for every set of winds that are multiples of 32, so that quarters of quarters are whole numbers.

### The chart canvas

`ChartProofs` proves the three invariants of the run `chart`: `ChartIsTyped`, `StyleStaysCurrent` and
`MapIsDrawnRight` state `Spec => []` of `TypeOK`, of `StyleIsCurrent` and of `DrawnRight`; of `MapSettles` it
proves the two action properties.

- The style in server mode (`StyleInv`). While changes come one at a time, a call that sets packs
  is alone, there is one restyle at most (`InTurn`), and each request carries what is current
  (`CarriesCurrent`); the cached style and `_lastMariner` go together, and so does the map except
  between the answer for new packs and their arrival (`Synced`). As long as no full style failed
  to arrive, the map shows the packs it was given, and the settings but for a restyle on its way
  (`Faithful`), their tiles at the generation last read unless it has a single set (`Fetched`,
  `Alone`), and without packs the chrome in the scheme chosen (`ChromeShown`). `FreshId` is a pigeonhole argument: while fewer than `MaxCalls` requests are in
  flight there is an id that none of them has, for any `MaxCalls`.

  On a longer instance than that of `chart` (three calls of `setServerSets`, two failures) an earlier
  form of the property was violated: when a full style has failed and the same packs are set again,
  `setServerSets` keeps the map's style and only refreshes its tiles
  (`chart-sources.mjs:415-432`), while `_initEngineStyle` has set `_lastMariner`
  (`chart-canvas.mjs:1493`) to the settings of a style that the map never gets. `live.kept` names the event, and `DiffBaseIsShown` excepts it.
- The gate (`GateShape`, `GateFlags`): `GateWaitsForRest` states the action property `ReloadsAtRest`.
- The style the browser builds (`StyleDrawn`). `UpdatersMatchRebuild` is not inductive: a band that
  comes back is shown from what the layer remembers of its switch, so `Current` keeps that too (`Visible` says less of a bucket once a band has been off, which it
  does not follow), and
  with it each part of a layer as computed from the settings it depends on. The lemmas
  `PaintHasUpdater` to `SwitchHasUpdater` are the heart of it: a setting that a part of a layer is made
  of has an updater that names the layer, unless the layer is of those known to be left alone; a
  setting it is not made of does not change it (`Unaffected`). `StyleStacks` derives the drawing order
  from the expansion of a template over sets, halves and SCAMIN values.
- What the expressions draw: `DepthsAgree`, `DatesAgree`, `LabelsAgree` and `QualityAgrees`, the second
  half of `DrawnRight`, for any depths and days, and `SwitchesOnlyAdd` the action property `AddsOnly`.

Only model-checked:

- the tiles and the sets of the run `archives` with their types. Directories, leaves and ids on the
  Hilbert curve are computed by recursion (`TilesAreTrue`);
- what the search finds (`SearchAnswers`), whose score is a recursion over the text;
- liveness, which is out of the prover's reach with its fairness, so that of the refinement of
  `Rescan` the theorem has the safety and the run `cells_live` the rest;
- induction over data: the recursive scores, curves and interpolations are compared with their
  definitions by TLC, over bounded inputs.

## 5. What is left out

Formatting, parsing and serving of files; the contents of tiles and archives; HTTP itself;
time, but for the order of events (a timer may fire at any moment, a file time is newer or
older). Metadata sidecars that nothing decides on. A cell that the engine cannot parse is
not modelled in `CellIndex`: it stays without bounds and is tried again on every scan.
Files are written whole: that some of them are written in place, and a crash can leave
half of one, is a hazard that no property covers. Of the plugin broker,
`config.set`, `http.fetch` and the serving of artifacts are left out, and a storage file that is
there is taken to be readable; so are the import jobs
of the server but for what the browser sees of them, the SDK, and the Go side of the bundled
plugins.

Of the browser: markup, styles and wording, sprites and fonts, colours but for which scheme
they are of, the drawing of the weather overlay, unit conversion, byte-level decoding of
archives and zips, and MapLibre, of which the models take what the code relies on (a new style
has none of the sources added to the old one, an ease ends the one before, a source reload
re-reads its tiles). Of the weather plugin the look-around grid; of the archives an import
while the server provides the charts; of a style's layers the zoom caps of coarse bands.

## 6. How it could go on

- `TileSets`: readers of a registered source against its replacement and closing, and the
  cache tokens; `ImportJobs`: the server's jobs and status streams, of which the models of
  the browser have the part that the browser sees.
- An abstract "one runner per record" that `NmeaManager` and `PluginManager` implement when
  requests are serialised.
- The server's pure algorithms against reference definitions: the host allowlist, NMEA
  checksums and fragments, closest point of approach.
- The SDK, whose instance end of the protocol `PluginSession` treats as any behaviour.
- Proofs about the rest of the browser: the tiles and sets of `MCArchives`.
