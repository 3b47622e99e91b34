----------------------------- MODULE PluginHost -----------------------------
(* The browser's plugin host (core/plugin-host.mjs): it follows the server's   *)
(* list of plugins, imports the entry module of each enabled one, hands its    *)
(* controller a context and tears down what the context gave out when the      *)
(* plugin goes.  The layers a plugin draws (plugins/plugin-layers.mjs) are put  *)
(* back after a style rebuild and follow the Layers control                    *)
(* (core/layer-registry.mjs).                                                  *)
EXTENDS Naturals, Sequences, FiniteSets

CONSTANTS Plugin,      \* installed plugins that ship a UI
          None,        \* no list, no layer
          MaxToggles,  \* enables and disables on the server
          MaxClicks,   \* switches of the Layers control
          MaxRebuilds, \* style rebuilds
          MaxFails     \* imports that fail, or bring no controller
HostConstants == None \notin Plugin /\ {MaxToggles, MaxClicks, MaxRebuilds, MaxFails} \subseteq Nat

VARIABLES
  enabled,    \* the plugins the server has enabled
  sent,       \* the last list the status stream wrote
  stream,     \* lists on their way to the browser
  fetched,    \* the first GET /api/plugins: "asked", "answered" or "done"
  first,      \* its answer
  installed,  \* this._installed
  loaded,     \* the keys of this._loaded
  imports,    \* import() calls in flight, per plugin
  starts,     \* controllers inside start(): <<plugin, owned by the host or not>>
  subs,       \* what a controller registered after an await in start()
  overlays,   \* the entries of the LayerRegistry
  hidden,     \* LayerRegistry._hidden, which the browser stores
  recs,       \* PluginLayers._layers: [data, hidden] per plugin, or None
  onMap,      \* the layers the map has
  styleReady, \* map.isStyleLoaded()
  kept,       \* handles that controllers hold of removed layers: <<plugin, hidden>>
  left,       \* what the bounds leave
  raced,      \* history: a list dropped a plugin still loading, or came after a newer one
  failed,     \* history: an import failed
  bare,       \* history: installed, and the module had no default export
  revived     \* history: a kept handle has written to the map since the last rebuild
lists == <<enabled, sent, stream, fetched, first>>
host == <<installed, loaded, imports, starts, subs, overlays>>
draw == <<recs, onMap>>
ghosts == <<failed, bare, revived>>
vars == <<lists, host, draw, hidden, styleReady, kept, left, raced, ghosts>>

Layer == [data : 0..1, hidden : BOOLEAN]
Owner == {"host", "nobody"}
TypeOK == /\ enabled \subseteq Plugin /\ installed \subseteq Plugin /\ loaded \subseteq Plugin
          /\ sent \in (SUBSET Plugin) \cup {{None}} /\ first \subseteq Plugin /\ stream \in Seq(SUBSET Plugin)
          /\ fetched \in {"asked", "answered", "done"}
          /\ imports \in [Plugin -> Nat]
          /\ starts \subseteq Plugin \X Owner /\ subs \subseteq Plugin \X Owner
          /\ overlays \subseteq Plugin /\ hidden \subseteq Plugin
          /\ recs \in [Plugin -> Layer \cup {None}] /\ onMap \in [Plugin -> Layer \cup {None}]
          /\ styleReady \in BOOLEAN /\ raced \in BOOLEAN /\ failed \in BOOLEAN
          /\ kept \subseteq Plugin \X BOOLEAN /\ bare \subseteq Plugin /\ revived \subseteq Plugin
          /\ left \in [toggles : 0..MaxToggles, clicks : 0..MaxClicks, rebuilds : 0..MaxRebuilds, fails : 0..MaxFails]

(* start(): the first list is asked for and the stream opened. *)
Init == /\ enabled \in SUBSET Plugin
        /\ sent = {None} /\ stream = <<>> /\ fetched = "asked" /\ first = {}
        /\ installed = {} /\ loaded = {} /\ imports = [p \in Plugin |-> 0]
        /\ starts = {} /\ subs = {} /\ overlays = {} /\ hidden \in SUBSET Plugin
        /\ recs = [p \in Plugin |-> None] /\ onMap = [p \in Plugin |-> None]
        /\ styleReady = TRUE /\ raced = FALSE /\ failed = FALSE
        /\ kept = {} /\ bare = {} /\ revived = {}
        /\ left = [toggles |-> MaxToggles, clicks |-> MaxClicks, rebuilds |-> MaxRebuilds, fails |-> MaxFails]

Use(k) == left[k] > 0 /\ left' = [left EXCEPT ![k] = @ - 1]
-----------------------------------------------------------------------------
Toggle(p) == /\ Use("toggles")
             /\ enabled' = IF p \in enabled THEN enabled \ {p} ELSE enabled \cup {p}
             /\ UNCHANGED <<sent, stream, fetched, first, host, draw, hidden, styleReady, kept, raced, ghosts>>

(* servePluginsStream writes the list when it differs from the last one. *)
Push == /\ sent # enabled /\ sent' = enabled /\ stream' = Append(stream, enabled)
        /\ UNCHANGED <<enabled, fetched, first, host, draw, hidden, styleReady, kept, left, raced, ghosts>>
AnswerFetch == /\ fetched = "asked" /\ fetched' = "answered" /\ first' = enabled
               /\ UNCHANGED <<enabled, sent, stream, host, draw, hidden, styleReady, kept, left, raced, ghosts>>

(* unregister: destroy the controller, run its cleanups, remove its layers.    *)
(* What its start() registers from now on is nobody's, and the handles of its   *)
(* layers, which the controller may keep, still work.                          *)
Unregister(gone) ==
  /\ loaded' = loaded \ gone
  /\ subs' = subs \ (gone \X {"host"})
  /\ overlays' = overlays \ gone
  /\ starts' = {<<s[1], IF s[1] \in gone THEN "nobody" ELSE s[2]>> : s \in starts}
  /\ recs' = [p \in Plugin |-> IF p \in gone THEN None ELSE recs[p]]
  /\ onMap' = [p \in Plugin |-> IF p \in gone \cap loaded THEN None ELSE onMap[p]]
  /\ kept' = kept \cup {<<p, recs[p].hidden>> : p \in {q \in gone \cap loaded : recs[q] # None}}

(* _syncInstalled with a list: import what is new, unload what is not wanted.  *)
SyncInstalled(want, older) ==
  LET new == want \ (loaded \cup installed)
      gone == installed \ want
  IN /\ imports' = [p \in Plugin |-> imports[p] + (IF p \in new THEN 1 ELSE 0)]
     /\ installed' = (installed \cup new) \ gone
     /\ Unregister(gone)
     /\ raced' = \/ raced \/ \E p \in gone : imports[p] > 0
                 \/ \E s \in starts : s[1] \in gone
                 \/ older
     /\ bare' = bare \ gone
     /\ UNCHANGED <<enabled, sent, hidden, styleReady, left, failed, revived>>

StreamMessage == /\ stream # <<>> /\ stream' = Tail(stream)
                 /\ SyncInstalled(Head(stream), FALSE) /\ UNCHANGED <<fetched, first>>
FirstList == /\ fetched = "answered" /\ fetched' = "done"
             /\ SyncInstalled(first, sent \notin {{None}, first}) /\ UNCHANGED <<stream, first>>

Ensure(ready, rec, there) == IF ~ready \/ there # None THEN there ELSE rec
(* setLayoutProperty and setData of what is on the map.                        *)
Drawn(there, hide) == IF there = None THEN None ELSE [there EXCEPT !.hidden = hide]
Filled(there, data) == IF there = None THEN None ELSE [there EXCEPT !.data = data]

RegisterUnseeded(p) == \* mutant: the layer starts with null in place of no features
  /\ loaded' = loaded \cup {p} /\ starts' = starts \cup {<<p, "host">>} /\ overlays' = overlays \cup {p}
  /\ recs' = [recs EXCEPT ![p] = [data |-> None, hidden |-> p \in hidden]] /\ UNCHANGED onMap

(* register: the controller's start() runs up to its first await, drawing a     *)
(* layer and registering its overlay, whose setter is called at once.  A source *)
(* that is there keeps the data it has.                                         *)
Register(p) ==
  LET rec == [data |-> 0, hidden |-> p \in hidden] IN
  /\ loaded' = loaded \cup {p}
  /\ starts' = starts \cup {<<p, "host">>}
  /\ overlays' = overlays \cup {p}
  /\ recs' = [recs EXCEPT ![p] = rec]
  /\ onMap' = [onMap EXCEPT ![p] = Drawn(Ensure(styleReady, rec, @), rec.hidden)]

(* _loadInstalled after import(). *)
ImportDone(p) ==
  /\ imports[p] > 0 /\ imports' = [imports EXCEPT ![p] = @ - 1]
  /\ IF p \in loaded THEN UNCHANGED <<loaded, starts, overlays, draw>> ELSE Register(p)
  /\ UNCHANGED <<lists, installed, subs, hidden, styleReady, kept, left, raced, ghosts>>
(* A module without a default export: its plugin stays installed, not loaded.  *)
ImportBare(p) ==
  /\ imports[p] > 0 /\ imports' = [imports EXCEPT ![p] = @ - 1]
  /\ Use("fails") /\ bare' = bare \cup {p}
  /\ UNCHANGED <<lists, installed, loaded, starts, subs, overlays, draw, hidden, styleReady, kept, raced, failed, revived>>

ImportFailed(p) ==
  /\ imports[p] > 0 /\ imports' = [imports EXCEPT ![p] = @ - 1]
  /\ Use("fails") /\ failed' = TRUE
  /\ installed' = installed \ {p}
  /\ UNCHANGED <<lists, loaded, starts, subs, overlays, draw, hidden, styleReady, kept, raced, bare, revived>>

(* start() goes on after its await: it subscribes to vessel, AIS and taps. *)
StartContinues(s) ==
  /\ s \in starts /\ starts' = starts \ {s}
  /\ subs' = subs \cup {s}
  /\ UNCHANGED <<lists, installed, loaded, imports, overlays, draw, hidden, styleReady, kept, left, raced, ghosts>>
-----------------------------------------------------------------------------
(* setData of the handle that a loaded controller has of its layer, and of one  *)
(* kept from a load before: its record is in nobody's list, and is ensured.     *)
SetData(p) ==
  /\ recs[p] # None
  /\ LET rec == [recs[p] EXCEPT !.data = 1 - @]
     IN /\ recs' = [recs EXCEPT ![p] = rec]
        /\ onMap' = [onMap EXCEPT ![p] = Filled(Ensure(styleReady, rec, @), rec.data)]
  /\ UNCHANGED <<lists, host, hidden, styleReady, kept, left, raced, ghosts>>
LateData(p) ==
  /\ \E data \in 0 .. 1, hide \in BOOLEAN :
       /\ <<p, hide>> \in kept
       /\ onMap' = [onMap EXCEPT ![p] =
                      Filled(Ensure(styleReady, [data |-> data, hidden |-> hide], @), data)]
  /\ revived' = revived \cup {p}
  /\ UNCHANGED <<lists, host, recs, hidden, styleReady, kept, left, raced, failed, bare>>

(* LayerRegistry.setVisible and the layer's own setVisible. *)
SetVisible(p) ==
  /\ p \in overlays /\ Use("clicks")
  /\ hidden' = IF p \in hidden THEN hidden \ {p} ELSE hidden \cup {p}
  /\ recs' = [recs EXCEPT ![p] = Drawn(@, p \in hidden')]
  /\ onMap' = [onMap EXCEPT ![p] = Drawn(@, p \in hidden')]
  /\ UNCHANGED <<lists, host, styleReady, kept, raced, ghosts>>

(* A rebuild drops every layer; style.load runs _ensure, with the style loaded  *)
(* or, as long as a source of it is still loading, not.                        *)
Rebuild ==
  /\ Use("rebuilds")
  /\ styleReady' \in BOOLEAN
  /\ onMap' = [p \in Plugin |-> IF recs[p] = None THEN None ELSE Ensure(styleReady', recs[p], None)]
  /\ revived' = {}
  /\ UNCHANGED <<lists, host, recs, hidden, kept, raced, failed, bare>>
Settle == /\ ~styleReady /\ styleReady' = TRUE
          /\ UNCHANGED <<lists, host, draw, hidden, kept, left, raced, ghosts>>

Sync == Push \/ AnswerFetch \/ StreamMessage \/ FirstList
Load(p) == ImportDone(p) \/ ImportBare(p) \/ ImportFailed(p) \/ \E o \in Owner : StartContinues(<<p, o>>)
Next == \/ Sync \/ Rebuild \/ Settle
        \/ \E p \in Plugin : Toggle(p) \/ Load(p) \/ SetData(p) \/ LateData(p) \/ SetVisible(p)
Spec == Init /\ [][Next]_vars
(* The stream and the map go on; a plugin that draws keeps sending its data.   *)
Fairness == /\ WF_vars(Sync) /\ WF_vars(Settle)
            /\ \A p \in Plugin : WF_vars(Load(p)) /\ WF_vars(SetData(p))
LiveSpec == Spec /\ Fairness
-----------------------------------------------------------------------------
Quiet == stream = <<>> /\ fetched = "done" /\ sent = enabled /\ \A p \in Plugin : imports[p] = 0

(* Once the lists have arrived and the imports ended, the UIs that run are the  *)
(* enabled plugins' (all that have a controller, unless an import failed), and  *)
(* none was loaded out of reach of the next list; nothing a controller          *)
(* registered outlives it, but for what a handle it keeps draws again.  For     *)
(* lists applied one at a time (_syncInstalled, _loadInstalled, unregister).    *)
HostFollowsList ==
  ~raced => /\ Quiet => /\ loaded = installed \ bare /\ loaded \subseteq enabled
                        /\ failed \/ loaded = enabled \ bare
            /\ \A p \in Plugin \ loaded : /\ recs[p] = None /\ p \notin overlays
                                          /\ onMap[p] = None \/ p \in revived
            /\ \A s \in subs : s[1] \in loaded /\ s[2] = "host"

(* What the map draws for a plugin is its last data, shown or hidden as the     *)
(* Layers control says, through rebuilds, reloads and toggles that came while   *)
(* the layer was not on the map (PluginLayers._ensure, LayerRegistry), unless a *)
(* handle of an earlier load has written to the same source since the rebuild.  *)
DrawnAsTold ==
  \A p \in Plugin : recs[p] # None =>
    /\ recs[p].hidden = (p \in hidden)
    /\ onMap[p] # None => onMap[p] = recs[p] \/ p \in revived

(* A rebuild costs a plugin that keeps sending data its layers only for a time. *)
Healed(p) == recs[p] # None => onMap[p] # None \/ p \notin loaded

=============================================================================
