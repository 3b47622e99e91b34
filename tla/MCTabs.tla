-------------------------------- MODULE MCTabs --------------------------------
(* Plugins in the browser: the host and the layers it draws, the Plugins and  *)
(* Connections tabs; and the settings of every screen.                        *)
EXTENDS Naturals, Sequences, FiniteSets

CONSTANTS Plugin, None, MaxToggles, MaxClicks, MaxRebuilds, MaxFails, Plugins, Sources,
          MaxCalls, TabEvents, Ids, Plug, Blank, ConnEvents, Screens, MaxEvents

VARIABLES part, \* the component this behaviour is one of; the variables of the others rest
          enabled, sent, stream, fetched, first, installed, loaded, imports, starts, subs,
          overlays, hidden, recs, onMap, styleReady, left, raced, failed, server, calls,
          answers, mounted, plugins, err, open, rows, view, editor, logs, logTimer, events,
          conns, editing, kind, draft, sniff, streams, lines, crossed, posts, phase, local, st,
          map, chrome, panel, timer, clean, kept, bare, revived

Host == INSTANCE PluginHost
Tab == INSTANCE PluginsPanel WITH MaxEvents <- TabEvents
Conns == INSTANCE ConnectionsPanel WITH MaxEvents <- ConnEvents
Settings == INSTANCE ScreenSettings

ASSUME ConstantsAssumption ==
  /\ Host!HostConstants /\ Tab!PanelConstants
  /\ Conns!ConnsConstants /\ Settings!SettingsConstants

vars == <<part, enabled, sent, stream, fetched, first, installed, loaded, imports, starts, subs,
           overlays, hidden, recs, onMap, styleReady, left, raced, failed, server, calls,
           answers, mounted, plugins, err, open, rows, view, editor, logs, logTimer, events,
           conns, editing, kind, draft, sniff, streams, lines, crossed, posts, phase, local, st,
           map, chrome, panel, timer, clean, kept, bare, revived>>
NotHost == <<server, calls, answers, mounted, plugins, err, open, rows, view, editor, logs,
             logTimer, events, conns, editing, kind, draft, sniff, streams, lines, crossed,
             posts, phase, local, st, map, chrome, panel, timer, clean>>
NotTab == <<enabled, sent, stream, fetched, first, installed, loaded, imports, starts, subs,
            overlays, hidden, recs, onMap, styleReady, left, raced, failed, conns, editing,
            kind, draft, sniff, streams, lines, crossed, posts, phase, local, st, map, chrome,
            panel, timer, clean, kept, bare, revived>>
NotConns == <<enabled, sent, stream, fetched, first, installed, loaded, imports, starts, subs,
              overlays, hidden, recs, onMap, styleReady, left, raced, failed, plugins, err,
              open, view, editor, logs, logTimer, posts, phase, local, st, map, chrome, panel,
              timer, clean, kept, bare, revived>>
NotSettings == <<enabled, stream, fetched, first, installed, loaded, imports, starts, subs,
                 overlays, hidden, recs, onMap, styleReady, left, raced, failed, calls, answers,
                 mounted, plugins, err, open, rows, view, editor, logs, logTimer, conns,
                 editing, kind, draft, sniff, streams, lines, crossed, kept, bare, revived>>

Init ==
  \/ /\ part = "host" /\ Host!Init
     /\ server = 0 /\ calls = 0 /\ answers = 0 /\ mounted = 0 /\ plugins = 0 /\ err = 0
     /\ open = 0 /\ rows = 0 /\ view = 0 /\ editor = 0 /\ logs = 0 /\ logTimer = 0
     /\ events = 0 /\ conns = 0 /\ editing = 0 /\ kind = 0 /\ draft = 0 /\ sniff = 0
     /\ streams = 0 /\ lines = 0 /\ crossed = 0 /\ posts = 0 /\ phase = 0 /\ local = 0
     /\ st = 0 /\ map = 0 /\ chrome = 0 /\ panel = 0 /\ timer = 0 /\ clean = 0
  \/ /\ part = "tab" /\ Tab!Init
     /\ kept = 0 /\ bare = 0 /\ revived = 0
     /\ enabled = 0 /\ sent = 0 /\ stream = 0 /\ fetched = 0 /\ first = 0 /\ installed = 0
     /\ loaded = 0 /\ imports = 0 /\ starts = 0 /\ subs = 0 /\ overlays = 0 /\ hidden = 0
     /\ recs = 0 /\ onMap = 0 /\ styleReady = 0 /\ left = 0 /\ raced = 0 /\ failed = 0
     /\ conns = 0 /\ editing = 0 /\ kind = 0 /\ draft = 0 /\ sniff = 0 /\ streams = 0
     /\ lines = 0 /\ crossed = 0 /\ posts = 0 /\ phase = 0 /\ local = 0 /\ st = 0 /\ map = 0
     /\ chrome = 0 /\ panel = 0 /\ timer = 0 /\ clean = 0
  \/ /\ part = "conns" /\ Conns!Init
     /\ kept = 0 /\ bare = 0 /\ revived = 0
     /\ enabled = 0 /\ sent = 0 /\ stream = 0 /\ fetched = 0 /\ first = 0 /\ installed = 0
     /\ loaded = 0 /\ imports = 0 /\ starts = 0 /\ subs = 0 /\ overlays = 0 /\ hidden = 0
     /\ recs = 0 /\ onMap = 0 /\ styleReady = 0 /\ left = 0 /\ raced = 0 /\ failed = 0
     /\ plugins = 0 /\ err = 0 /\ open = 0 /\ view = 0 /\ editor = 0 /\ logs = 0
     /\ logTimer = 0 /\ posts = 0 /\ phase = 0 /\ local = 0 /\ st = 0 /\ map = 0 /\ chrome = 0
     /\ panel = 0 /\ timer = 0 /\ clean = 0
  \/ /\ part = "settings" /\ Settings!Init
     /\ kept = 0 /\ bare = 0 /\ revived = 0
     /\ enabled = 0 /\ stream = 0 /\ fetched = 0 /\ first = 0 /\ installed = 0 /\ loaded = 0
     /\ imports = 0 /\ starts = 0 /\ subs = 0 /\ overlays = 0 /\ hidden = 0 /\ recs = 0
     /\ onMap = 0 /\ styleReady = 0 /\ left = 0 /\ raced = 0 /\ failed = 0 /\ calls = 0
     /\ answers = 0 /\ mounted = 0 /\ plugins = 0 /\ err = 0 /\ open = 0 /\ rows = 0
     /\ view = 0 /\ editor = 0 /\ logs = 0 /\ logTimer = 0 /\ conns = 0 /\ editing = 0
     /\ kind = 0 /\ draft = 0 /\ sniff = 0 /\ streams = 0 /\ lines = 0 /\ crossed = 0
Next ==
  \/ part = "host" /\ Host!Next /\ UNCHANGED <<part, NotHost>>
  \/ part = "tab" /\ Tab!Next /\ UNCHANGED <<part, NotTab>>
  \/ part = "conns" /\ Conns!Next /\ UNCHANGED <<part, NotConns>>
  \/ part = "settings" /\ Settings!Next /\ UNCHANGED <<part, NotSettings>>
Spec == Init /\ [][Next]_vars

(* Each component under the fairness its own module states.                     *)
HostStep(A) == part = "host" /\ A /\ UNCHANGED <<part, NotHost>>
TabStep(A) == part = "tab" /\ A /\ UNCHANGED <<part, NotTab>>
Fairness ==
  /\ WF_vars(HostStep(Host!Sync))
  /\ WF_vars(HostStep(Host!Settle))
  /\ \A p \in Plugin : WF_vars(HostStep(Host!Load(p)))
  /\ \A p \in Plugin : WF_vars(HostStep(Host!SetData(p)))
  /\ SF_vars(TabStep(Tab!Poll))
  /\ SF_vars(TabStep(Tab!Served("poll")))
  /\ WF_vars(TabStep(Tab!Answered("poll")))
  /\ WF_vars(TabStep(\E c \in calls, d, ok \in BOOLEAN : Tab!Serve(c, d, ok)))
  /\ WF_vars(TabStep(\E a \in answers : Tab!Answer(a)))
LiveSpec == Spec /\ Fairness
-----------------------------------------------------------------------------
(* The state of each component is typed.                                      *)
TypeOK ==
  /\ part = "host" => Host!TypeOK
  /\ part = "tab" => Tab!TypeOK
  /\ part = "conns" => Conns!TypeOK
  /\ part = "settings" => Settings!TypeOK

(* Controllers and layers are those of the last list and drawn as the Layers  *)
(* control says; the tabs' rows show the lists they hold, and at rest the     *)
(* server's; one stream at most, of the row whose lines are shown.            *)
PluginsShown ==
  /\ part = "host" => Host!HostFollowsList /\ Host!DrawnAsTold
  /\ part = "tab" => Tab!RowsShowList
  /\ part = "conns" => Conns!ListIsServer /\ Conns!SnifferIsOwn

(* Every control of a screen shows the same settings, and a screen whose posts*)
(* no other screen's come between has its changes stored.                     *)
SettingsAgree == part = "settings" => Settings!SurfacesAgree /\ Settings!ChangesAreStored

(* A plugin that keeps sending data has its layers back after a rebuild, the  *)
(* Plugins tab comes to show the server's list, and no poll or push disturbs  *)
(* an open form.                                                              *)
TabsCatchUp ==
  /\ [][part = "conns" => Conns!KeepsForm]_vars
  /\ \A p \in Plugin : []<>(part = "host" => Host!Healed(p))
  /\ <>[](part = "tab" => (mounted => plugins = server))
=============================================================================
