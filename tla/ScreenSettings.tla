--------------------------- MODULE ScreenSettings ---------------------------
(* The display settings of the boat's screens: each <chart-plotter> seeds its *)
(* settings from its own storage, adopts the server's blob at boot, applies   *)
(* every change to its map and to the controls that show it, and posts its    *)
(* whole blob 400 ms after the last change.  A setting stands for all that    *)
(* take its path, off (0) or on (1); a pitch of 0 is an uncalibrated screen.  *)
EXTENDS Naturals, FiniteSets

CONSTANTS Screens, None,
          MaxEvents  \* bound: changes, reloads and lost posts

Keys == {"scheme", "groups", "pitch", "hidden"}
Shown == {"scheme", "groups"}     \* the palette button and the rail of groups
Rows == {"groups", "pitch"}       \* what the settings panel renders
Blob == [Keys -> 0 .. 1]
SettingsConstants == None \notin Screens \cup Blob \cup [Rows -> 0 .. 1]

VARIABLES server,   \* the stored blob, None before the first
          posts,    \* POSTs on their way: [from, n, blob], from None when its page is gone
          phase,    \* each screen: "off", "chrome" (no map yet) or "ready"
          local,    \* localStorage
          st,       \* the shell's own fields
          map,      \* what <chart-canvas> was told
          chrome,   \* the palette button and the rail
          panel,    \* the rows of <settings-dialog>, None before its first show
          timer,    \* a save is due
          sent,     \* counts a screen's posts
          clean,    \* ghost: the server has answered to this screen alone
          events
screen == <<phase, local, st, map, chrome, panel, timer>>
vars == <<server, posts, screen, sent, clean, events>>

Of(s) == {p \in posts : p.from = s}
Event == events < MaxEvents /\ events' = events + 1
On(b, ks) == [k \in ks |-> b[k]]
Zero == [k \in Keys |-> 0]

Init ==
  /\ server = None /\ posts = {} /\ sent = [s \in Screens |-> 0]
  /\ phase = [s \in Screens |-> "off"] /\ local = [s \in Screens |-> Zero]
  /\ st = local /\ map = st /\ chrome = [s \in Screens |-> On(Zero, Shown)]
  /\ panel = [s \in Screens |-> None] /\ timer = [s \in Screens |-> FALSE]
  /\ clean = [s \in Screens |-> FALSE] /\ events = 0
-----------------------------------------------------------------------------
(* _loadServerSettings over the constructor's copy: a pitch only if there is one. *)
Adopt(b, mine) ==
  IF b = None THEN mine ELSE [k \in Keys |-> IF k = "pitch" /\ b[k] = 0 THEN mine[k] ELSE b[k]]
(* boot: the settings are taken over before the chrome is rendered.           *)
Boot(s, ok) ==
  /\ phase[s] = "off" /\ phase' = [phase EXCEPT ![s] = "chrome"]
  /\ LET b == Adopt(IF ok THEN server ELSE None, local[s]) IN
       /\ st' = [st EXCEPT ![s] = b]
       /\ chrome' = [chrome EXCEPT ![s] = On(b, Shown)]
  /\ clean' = [clean EXCEPT ![s] = ok /\ server # None /\ posts = {}]
  /\ UNCHANGED <<server, posts, local, map, panel, timer, sent, events>>
(* onReady: the map is told what it would not know, and the rail is mounted.  *)
Ready(s) ==
  /\ phase[s] = "chrome" /\ phase' = [phase EXCEPT ![s] = "ready"]
  /\ map' = [map EXCEPT ![s] = st[s]] /\ chrome' = [chrome EXCEPT ![s] = On(st[s], Shown)]
  /\ UNCHANGED <<server, posts, local, st, panel, timer, sent, clean, events>>
(* A reload or a closed tab: the fields, the timer and what is shown go.      *)
Reload(s) ==
  /\ Event /\ phase[s] = "ready" /\ phase' = [phase EXCEPT ![s] = "off"]
  /\ map' = [map EXCEPT ![s] = Zero] /\ panel' = [panel EXCEPT ![s] = None]
  /\ timer' = [timer EXCEPT ![s] = FALSE] /\ clean' = [clean EXCEPT ![s] = FALSE]
  /\ posts' = {IF p.from = s THEN [p EXCEPT !.from = None] ELSE p : p \in posts}
  /\ UNCHANGED <<server, local, st, chrome, sent>>
-----------------------------------------------------------------------------
PersistOnce(s) ==  \* (mutant) no new save while one is on its way
  timer' = [timer EXCEPT ![s] = timer[s] \/ Of(s) = {}]
(* _persistSettings: the save starts its 400 ms anew.                         *)
Persist(s) == timer' = [timer EXCEPT ![s] = TRUE]
(* A change reaches the fields, the map, the screen's storage and the timer.  *)
Apply(s, k, v) ==
  /\ st' = [st EXCEPT ![s][k] = v] /\ map' = [map EXCEPT ![s][k] = v]
  /\ local' = [local EXCEPT ![s][k] = v] /\ Persist(s)
(* The panel's rows, each as coreGet reads it.                                *)
Rendered(b) == On(b, Rows)
RefreshDialog(s) ==
  panel' = [panel EXCEPT ![s] = IF @ = None THEN None ELSE Rendered(st'[s])]

SyncSchemeUI(s) ==
  chrome' = [chrome EXCEPT ![s]["scheme"] = st'[s]["scheme"]] /\ RefreshDialog(s)
(* applyScheme, as the palette button cycles it.                              *)
ApplyScheme(s) ==
  /\ Event /\ phase[s] = "ready" /\ Apply(s, "scheme", 1 - st[s]["scheme"])
  /\ SyncSchemeUI(s) /\ UNCHANGED <<server, posts, phase, sent, clean>>
(* VgRail.refresh: every pill as vgGroupOn has it.                             *)
RailRefresh(s) == chrome' = [chrome EXCEPT ![s]["groups"] = st'[s]["groups"]]
(* applyMariner of the viewing groups: the rail and the panel are synced.     *)
ApplyMariner(s, v) ==
  Apply(s, "groups", v) /\ RailRefresh(s) /\ RefreshDialog(s)
(* A group reads on when none of its numbers is denied; a toggle denies all.  *)
VgSetGroupOn(s, v) == ApplyMariner(s, v)
(* A pill flips what the fields hold ...                                      *)
PillTap(s) ==
  /\ Event /\ phase[s] = "ready" /\ VgSetGroupOn(s, 1 - st[s]["groups"])
  /\ UNCHANGED <<server, posts, phase, sent, clean>>
(* setPxPitch: the readout and the map's sizes follow.                        *)
SetPxPitch(s, v) == Apply(s, "pitch", v) /\ UNCHANGED chrome
(* The calibration tab: a measured box, or back to the reference pixel; it    *)
(* draws its box again.                                                       *)
Calibrate(s, v) ==
  /\ Event /\ panel[s] # None /\ phase[s] = "ready" /\ v # st[s]["pitch"]
  /\ SetPxPitch(s, v) /\ RefreshDialog(s)
  /\ UNCHANGED <<server, posts, phase, sent, clean>>
(* coreSet: each key by its own setter.                                       *)
CoreSet(s, k, v) ==
  \/ k = "scheme" /\ Apply(s, k, v) /\ SyncSchemeUI(s)
  \/ k = "groups" /\ VgSetGroupOn(s, v)
(* ... and a row of the panel what was rendered.                              *)
RowToggle(s) ==
  /\ Event /\ panel[s] # None /\ phase[s] = "ready"
  /\ \E k \in Rows \ {"pitch"} : CoreSet(s, k, 1 - panel[s][k])
  /\ UNCHANGED <<server, posts, phase, sent, clean>>
(* The library's per-cell show and hide ("cells-hidden-changed").             *)
HideCells(s) ==
  /\ Event /\ phase[s] = "ready" /\ Apply(s, "hidden", 1 - st[s]["hidden"])
  /\ UNCHANGED <<server, posts, phase, chrome, panel, sent, clean>>
Show(s) == \* the drawer opens on the settings, which stay active from then on
  /\ phase[s] # "off" /\ panel[s] = None
  /\ panel' = [panel EXCEPT ![s] = Rendered(st[s])]
  /\ UNCHANGED <<server, posts, phase, local, st, map, chrome, timer, sent, clean, events>>
-----------------------------------------------------------------------------
(* The timer: the blob as it is now.                                          *)
Save(s) ==
  /\ timer[s] /\ timer' = [timer EXCEPT ![s] = FALSE]
  /\ posts' = posts \cup {[from |-> s, n |-> sent[s], blob |-> st[s]]}
  /\ sent' = [sent EXCEPT ![s] = @ + 1]
  /\ UNCHANGED <<server, phase, local, st, map, chrome, panel, clean, events>>
(* The server keeps the last blob that reaches it, in whatever order.         *)
Stored(p) ==
  /\ server' = p.blob /\ posts' = posts \ {p}
  /\ clean' = [s \in Screens |-> s = p.from /\ Of(s) = {p} /\ p.n + 1 = sent[s]
                             /\ phase[s] = "ready"]
  /\ UNCHANGED <<screen, sent, events>>
Lost(p) ==
  /\ Event /\ posts' = posts \ {p} /\ clean' = [s \in Screens |-> clean[s] /\ s # p.from]
  /\ UNCHANGED <<server, screen, sent>>

Next ==
  \/ \E s \in Screens : \/ \E ok \in BOOLEAN : Boot(s, ok)
                        \/ Ready(s) \/ Reload(s) \/ ApplyScheme(s) \/ PillTap(s) \/ RowToggle(s)
                        \/ HideCells(s) \/ (\E v \in 0 .. 1 : Calibrate(s, v)) \/ Show(s) \/ Save(s)
  \/ \E p \in posts : Stored(p) \/ Lost(p)
Spec == Init /\ [][Next]_vars
-----------------------------------------------------------------------------
(* Every variable has its type.                                               *)
TypeOK ==
  /\ server \in Blob \cup {None} /\ \A p \in posts : p.from \in Screens \cup {None} /\ p.blob \in Blob
  /\ phase \in [Screens -> {"off", "chrome", "ready"}]
  /\ {local, st, map} \subseteq [Screens -> Blob] /\ chrome \in [Screens -> [Shown -> 0 .. 1]]
  /\ panel \in [Screens -> [Rows -> 0 .. 1] \cup {None}]
  /\ timer \in [Screens -> BOOLEAN] /\ clean \in [Screens -> BOOLEAN]

(* Whichever control made the last change, the map, the palette button, the   *)
(* rail and the settings panel of a screen show the same settings.            *)
SurfacesAgree ==
  \A s \in Screens : phase[s] = "ready" =>
    /\ map[s] = st[s] /\ chrome[s] = On(st[s], Shown)
    /\ panel[s] # None => panel[s] = On(st[s], Rows)
(* A screen whose posts reach the server one by one, with no other screen's   *)
(* between, has all its changes stored once no save is due or on its way.     *)
ChangesAreStored ==
  \A s \in Screens : clean[s] /\ phase[s] = "ready" /\ ~timer[s] /\ Of(s) = {} =>
    /\ server # None
    /\ \A k \in Keys \ {"pitch"} : server[k] = st[s][k]
    /\ server["pitch"] = 1 => st[s]["pitch"] = 1
=============================================================================
