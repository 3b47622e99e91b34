----------------------------- MODULE TabsProofs ------------------------------
(***************************************************************************)
(* Proofs about MCTabs: the invariants of the plugin host, of the Plugins  *)
(* and Connections tabs and of the screens' settings, for any plugins,     *)
(* connections, screens and bounds.  A behaviour is one of one component,  *)
(* so that the invariant of each is proved by itself.                      *)
(***************************************************************************)
EXTENDS MCTabs, TLAPS

-----------------------------------------------------------------------------
(* The settings of the screens.                                            *)

(* What a screen that is not there has: no rows, no timer, no post.        *)
Away ==
  \A s \in Screens :
    /\ phase[s] = "off" => panel[s] = None /\ ~clean[s]
    /\ phase[s] # "ready" => ~timer[s] /\ \A p \in posts : p.from # s

(* The panel shows the fields from its first show on, the map and the      *)
(* chrome from the moment the map is ready; only a ready screen changes.   *)
Synced ==
  \A s \in Screens :
    /\ panel[s] # None => panel[s] = Settings!On(st[s], Settings!Rows)
    /\ phase[s] = "ready" => map[s] = st[s] /\ chrome[s] = Settings!On(st[s], Settings!Shown)

(* A screen's last post carries its settings, unless a save is due.        *)
LastIsCurrent ==
  \A p \in posts : p.from # None =>
    /\ p.n < sent[p.from]
    /\ p.n + 1 = sent[p.from] /\ ~timer[p.from] => p.blob = st[p.from]

Matches(b, mine) ==
  /\ b # None
  /\ \A k \in Settings!Keys \ {"pitch"} : b[k] = mine[k]
  /\ b["pitch"] = 1 => mine["pitch"] = 1

(* What the server answered to this screen alone is what it has.           *)
CleanIsStored ==
  \A s \in Screens : clean[s] /\ ~timer[s] /\ (\A p \in posts : p.from # s) => Matches(server, st[s])

Post == [from : Screens \cup {None}, n : Nat, blob : Settings!Blob]
SettingsTypes ==
  /\ Settings!TypeOK /\ posts \subseteq Post /\ sent \in [Screens -> Nat]
SettingsInv == SettingsTypes /\ Away /\ Synced /\ LastIsCurrent /\ CleanIsStored

LEMMA SettingsInit == Settings!Init => SettingsInv
<1> SUFFICES ASSUME Settings!Init PROVE SettingsInv
  OBVIOUS
<1> USE DEF Settings!Init, Settings!Zero
<1>1. Settings!Zero \in Settings!Blob
  BY DEF Settings!Blob
<1>2. Settings!On(Settings!Zero, Settings!Shown) \in [Settings!Shown -> 0 .. 1]
  BY DEF Settings!On, Settings!Shown, Settings!Keys
<1>3. Settings!TypeOK
  BY <1>1, <1>2 DEF Settings!TypeOK
<1>4. SettingsTypes
  BY <1>3 DEF SettingsTypes
<1> QED
  BY <1>4 DEF SettingsInv, Away, Synced, LastIsCurrent, CleanIsStored

(* A part of a blob is typed.                                              *)
LEMMA Parts ==
  ASSUME NEW b \in Settings!Blob
  PROVE  /\ Settings!On(b, Settings!Shown) \in [Settings!Shown -> 0 .. 1]
         /\ Settings!On(b, Settings!Rows) \in [Settings!Rows -> 0 .. 1]
         /\ Settings!On(b, Settings!Rows) # None
BY ConstantsAssumption DEF Settings!SettingsConstants, Settings!Blob, Settings!Keys, Settings!On,
   Settings!Shown, Settings!Rows

(* A change of a setting, by whichever control, reaches whatever shows it. *)
LEMMA ChangeKeeps ==
  ASSUME SettingsInv, NEW s \in Screens, NEW k \in Settings!Keys, NEW v \in 0 .. 1,
         phase[s] = "ready", Settings!Apply(s, k, v),
         UNCHANGED <<server, posts, phase, sent, clean>>,
         chrome' = [chrome EXCEPT ![s] = Settings!On(st'[s], Settings!Shown)],
         panel' = [panel EXCEPT ![s] = IF @ = None THEN None ELSE Settings!On(st'[s], Settings!Rows)]
  PROVE  SettingsInv'
<1> USE DEF SettingsInv, SettingsTypes, Settings!TypeOK
<1>1. /\ st[s] \in Settings!Blob /\ map[s] = st[s]
      /\ st \in [Screens -> Settings!Blob] /\ map \in [Screens -> Settings!Blob]
      /\ local \in [Screens -> Settings!Blob]
  BY DEF Synced
<1>2. /\ st' \in [Screens -> Settings!Blob] /\ map' \in [Screens -> Settings!Blob]
      /\ local' \in [Screens -> Settings!Blob]
  BY <1>1 DEF Settings!Apply, Settings!Blob
<1>3. /\ map'[s] = st'[s] /\ timer' = [timer EXCEPT ![s] = TRUE]
      /\ \A r \in Screens \ {s} : st'[r] = st[r] /\ map'[r] = map[r]
  BY <1>1 DEF Settings!Apply, Settings!Persist, Settings!Blob
<1>4. SettingsTypes'
  BY <1>2, <1>3, Parts
<1>5. Away'
  BY <1>3 DEF Away
<1>6. Synced'
  BY <1>3, <1>4 DEF Synced
<1>7. LastIsCurrent'
  BY <1>3 DEF LastIsCurrent, Post
<1>8. CleanIsStored'
  BY <1>3 DEF CleanIsStored
<1> QED
  BY <1>4, <1>5, <1>6, <1>7, <1>8

(* What the controls set is what is shown: the palette button and the rail *)
(* by their own key, the panel's rows as they are rendered.                *)
LEMMA ControlsShow ==
  ASSUME SettingsInv, NEW s \in Screens, phase[s] = "ready",
         NEW k \in Settings!Keys, NEW v \in 0 .. 1, Settings!Apply(s, k, v)
  PROVE  /\ k \in Settings!Shown =>
              [chrome EXCEPT ![s][k] = st'[s][k]] = [chrome EXCEPT ![s] = Settings!On(st'[s], Settings!Shown)]
         /\ k \notin Settings!Shown => chrome = [chrome EXCEPT ![s] = Settings!On(st'[s], Settings!Shown)]
         /\ k \notin Settings!Rows =>
              panel = [panel EXCEPT ![s] = IF @ = None THEN None ELSE Settings!On(st'[s], Settings!Rows)]
<1> USE DEF SettingsInv, SettingsTypes, Settings!TypeOK, Settings!On
<1>1. /\ st[s] \in Settings!Blob /\ st \in [Screens -> Settings!Blob]
      /\ chrome[s] = Settings!On(st[s], Settings!Shown)
      /\ panel[s] # None => panel[s] = Settings!On(st[s], Settings!Rows)
  BY DEF Synced
<1>2. \A j \in Settings!Keys \ {k} : st'[s][j] = st[s][j]
  BY <1>1 DEF Settings!Apply, Settings!Blob
<1>3. Settings!Shown \subseteq Settings!Keys /\ Settings!Rows \subseteq Settings!Keys
  BY DEF Settings!Shown, Settings!Rows, Settings!Keys
<1>4. ASSUME k \in Settings!Shown
      PROVE  [chrome[s] EXCEPT ![k] = st'[s][k]] = Settings!On(st'[s], Settings!Shown)
  BY <1>1, <1>2, <1>3, <1>4
<1>5. ASSUME k \notin Settings!Shown
      PROVE  chrome[s] = Settings!On(st'[s], Settings!Shown)
  BY <1>1, <1>2, <1>3, <1>5
<1>6. ASSUME k \notin Settings!Rows, panel[s] # None
      PROVE  panel[s] = Settings!On(st'[s], Settings!Rows)
  BY <1>1, <1>2, <1>3, <1>6
<1> HIDE DEF Settings!On
<1> QED
  BY <1>4, <1>5, <1>6

LEMMA Flips ==
  ASSUME Settings!TypeOK, NEW s \in Screens, NEW k \in Settings!Keys
  PROVE  1 - st[s][k] \in 0 .. 1
<1>1. st[s] \in Settings!Blob
  BY DEF Settings!TypeOK
<1>2. st[s][k] \in 0 .. 1
  BY <1>1 DEF Settings!Blob
<1> QED
  BY <1>2

LEMMA SettingsNext == SettingsInv /\ [Settings!Next]_(Settings!vars) => SettingsInv'
<1> SUFFICES ASSUME SettingsInv, [Settings!Next]_(Settings!vars) PROVE SettingsInv'
  OBVIOUS
<1> USE ConstantsAssumption
<1>0. SettingsTypes /\ Settings!TypeOK /\ Away /\ Synced /\ LastIsCurrent /\ CleanIsStored
  BY DEF SettingsInv, SettingsTypes
<1>1. CASE UNCHANGED Settings!vars
  BY <1>1 DEF Settings!vars, Settings!screen, SettingsInv, SettingsTypes, Settings!TypeOK,
     Away, Synced, LastIsCurrent, CleanIsStored, Matches
<1>2. ASSUME NEW s \in Screens, NEW ok \in BOOLEAN, Settings!Boot(s, ok) PROVE SettingsInv'
  <2>1. /\ phase[s] = "off" /\ phase' = [phase EXCEPT ![s] = "chrome"]
        /\ UNCHANGED <<server, posts, local, map, panel, timer, sent>>
        /\ clean' = [clean EXCEPT ![s] = ok /\ server # None /\ posts = {}]
    BY <1>2 DEF Settings!Boot
  <2> DEFINE b == Settings!Adopt(IF ok THEN server ELSE None, local[s])
  <2>2. /\ st' = [st EXCEPT ![s] = b]
        /\ chrome' = [chrome EXCEPT ![s] = Settings!On(b, Settings!Shown)]
    BY <1>2 DEF Settings!Boot
  <2>3. local[s] \in Settings!Blob /\ server \in Settings!Blob \cup {None}
    BY <1>0 DEF Settings!TypeOK
  <2>4. b \in Settings!Blob
    BY <2>3 DEF Settings!Adopt, Settings!Blob
  <2>5. ok /\ server # None => Matches(server, b)
    BY <2>3 DEF Settings!Adopt, Settings!Blob, Settings!Keys, Matches
  <2> HIDE DEF b
  <2>6. st'[s] = b /\ \A r \in Screens \ {s} : st'[r] = st[r] /\ phase'[r] = phase[r]
    BY <1>0, <2>1, <2>2 DEF Settings!TypeOK
  <2>7. panel[s] = None /\ ~timer[s] /\ \A p \in posts : p.from # s
    BY <1>0, <2>1 DEF Away
  <2>8. SettingsTypes'
    BY <1>0, <2>1, <2>2, <2>4, Parts DEF SettingsTypes, Settings!TypeOK
  <2>9. Away' /\ Synced' /\ LastIsCurrent'
    BY <1>0, <2>1, <2>2, <2>6, <2>7 DEF Away, Synced, LastIsCurrent, Settings!TypeOK, SettingsTypes
  <2>10. CleanIsStored'
    BY <1>0, <2>1, <2>5, <2>6 DEF CleanIsStored, Settings!TypeOK
  <2> QED
    BY <2>8, <2>9, <2>10 DEF SettingsInv
<1>3. ASSUME NEW s \in Screens, Settings!Ready(s) PROVE SettingsInv'
  <2>1. /\ phase[s] = "chrome" /\ phase' = [phase EXCEPT ![s] = "ready"]
        /\ map' = [map EXCEPT ![s] = st[s]]
        /\ chrome' = [chrome EXCEPT ![s] = Settings!On(st[s], Settings!Shown)]
        /\ UNCHANGED <<server, posts, local, st, panel, timer, sent, clean>>
    BY <1>3 DEF Settings!Ready
  <2>2. st[s] \in Settings!Blob
    BY <1>0 DEF Settings!TypeOK
  <2>3. SettingsTypes'
    BY <1>0, <2>1, <2>2, Parts DEF SettingsTypes, Settings!TypeOK
  <2> QED
    BY <1>0, <2>1, <2>3 DEF SettingsInv, Away, Synced, LastIsCurrent, CleanIsStored, Settings!TypeOK
<1>4. ASSUME NEW s \in Screens, Settings!Reload(s) PROVE SettingsInv'
  <2>1. /\ phase' = [phase EXCEPT ![s] = "off"] /\ map' = [map EXCEPT ![s] = Settings!Zero]
        /\ panel' = [panel EXCEPT ![s] = None] /\ timer' = [timer EXCEPT ![s] = FALSE]
        /\ clean' = [clean EXCEPT ![s] = FALSE]
        /\ UNCHANGED <<server, local, st, chrome, sent>>
    BY <1>4 DEF Settings!Reload
  <2>2. posts' = {IF p.from = s THEN [p EXCEPT !.from = None] ELSE p : p \in posts}
    BY <1>4 DEF Settings!Reload
  <2>3. Settings!Zero \in Settings!Blob
    BY DEF Settings!Zero, Settings!Blob
  <2>4. \A q \in posts' : q \in Post /\ q.from # s /\ (q.from # None => q \in posts)
    BY <1>0, <2>2 DEF SettingsTypes, Post, Settings!SettingsConstants
  <2>5. \A r \in Screens \ {s} : \A q \in posts : q.from = r => q \in posts'
    BY <2>2
  <2>6. SettingsTypes'
    BY <1>0, <2>1, <2>3, <2>4 DEF SettingsTypes, Settings!TypeOK, Post
  <2>7. Away' /\ Synced'
    BY <1>0, <2>1, <2>4 DEF Away, Synced, Settings!TypeOK, Settings!SettingsConstants
  <2>8. LastIsCurrent'
    BY <1>0, <2>1, <2>4 DEF LastIsCurrent, Settings!TypeOK, Post
  <2>9. CleanIsStored'
    BY <1>0, <2>1, <2>5 DEF CleanIsStored, Settings!TypeOK
  <2> QED
    BY <2>6, <2>7, <2>8, <2>9 DEF SettingsInv
<1>5. ASSUME NEW s \in Screens, Settings!ApplyScheme(s) PROVE SettingsInv'
  <2>1. /\ phase[s] = "ready" /\ UNCHANGED <<server, posts, phase, sent, clean>>
        /\ Settings!Apply(s, "scheme", 1 - st[s]["scheme"])
        /\ chrome' = [chrome EXCEPT ![s]["scheme"] = st'[s]["scheme"]]
        /\ panel' = [panel EXCEPT ![s] = IF @ = None THEN None ELSE Settings!On(st'[s], Settings!Rows)]
    BY <1>5 DEF Settings!ApplyScheme, Settings!SyncSchemeUI, Settings!RefreshDialog, Settings!Rendered
  <2>2. 1 - st[s]["scheme"] \in 0 .. 1 /\ "scheme" \in Settings!Keys /\ "scheme" \in Settings!Shown
    BY <1>0, Flips DEF Settings!Keys, Settings!Shown
  <2> QED
    BY <2>1, <2>2, ControlsShow, ChangeKeeps
<1>6. ASSUME NEW s \in Screens, Settings!PillTap(s) PROVE SettingsInv'
  <2>1. /\ phase[s] = "ready" /\ UNCHANGED <<server, posts, phase, sent, clean>>
        /\ Settings!Apply(s, "groups", 1 - st[s]["groups"])
        /\ chrome' = [chrome EXCEPT ![s]["groups"] = st'[s]["groups"]]
        /\ panel' = [panel EXCEPT ![s] = IF @ = None THEN None ELSE Settings!On(st'[s], Settings!Rows)]
    BY <1>6 DEF Settings!PillTap, Settings!VgSetGroupOn, Settings!ApplyMariner, Settings!RailRefresh,
       Settings!RefreshDialog, Settings!Rendered
  <2>2. 1 - st[s]["groups"] \in 0 .. 1 /\ "groups" \in Settings!Keys /\ "groups" \in Settings!Shown
    BY <1>0, Flips DEF Settings!Keys, Settings!Shown
  <2> QED
    BY <2>1, <2>2, ControlsShow, ChangeKeeps
<1>7. ASSUME NEW s \in Screens, Settings!RowToggle(s) PROVE SettingsInv'
  <2>1. panel[s]["groups"] \in 0 .. 1
    BY <1>0, <1>7 DEF Settings!RowToggle, Settings!TypeOK, Settings!Rows
  <2>2. /\ phase[s] = "ready" /\ UNCHANGED <<server, posts, phase, sent, clean>>
        /\ Settings!Apply(s, "groups", 1 - panel[s]["groups"])
        /\ chrome' = [chrome EXCEPT ![s]["groups"] = st'[s]["groups"]]
        /\ panel' = [panel EXCEPT ![s] = IF @ = None THEN None ELSE Settings!On(st'[s], Settings!Rows)]
    BY <1>7 DEF Settings!RowToggle, Settings!CoreSet, Settings!Rows, Settings!VgSetGroupOn,
       Settings!ApplyMariner, Settings!RailRefresh, Settings!RefreshDialog, Settings!Rendered
  <2>3. 1 - panel[s]["groups"] \in 0 .. 1 /\ "groups" \in Settings!Keys /\ "groups" \in Settings!Shown
    BY <2>1 DEF Settings!Keys, Settings!Shown
  <2> QED
    BY <2>2, <2>3, ControlsShow, ChangeKeeps
<1>8. ASSUME NEW s \in Screens, Settings!HideCells(s) PROVE SettingsInv'
  <2>1. /\ phase[s] = "ready" /\ UNCHANGED <<server, posts, phase, chrome, panel, sent, clean>>
        /\ Settings!Apply(s, "hidden", 1 - st[s]["hidden"])
    BY <1>8 DEF Settings!HideCells
  <2>2. /\ 1 - st[s]["hidden"] \in 0 .. 1 /\ "hidden" \in Settings!Keys
        /\ "hidden" \notin Settings!Shown /\ "hidden" \notin Settings!Rows
    BY <1>0, Flips DEF Settings!Keys, Settings!Shown, Settings!Rows
  <2> QED
    BY <2>1, <2>2, ControlsShow, ChangeKeeps
<1>9. ASSUME NEW s \in Screens, NEW v \in 0 .. 1, Settings!Calibrate(s, v) PROVE SettingsInv'
  <2>1. /\ phase[s] = "ready" /\ UNCHANGED <<server, posts, phase, chrome, sent, clean>>
        /\ Settings!Apply(s, "pitch", v)
        /\ panel' = [panel EXCEPT ![s] = IF @ = None THEN None ELSE Settings!On(st'[s], Settings!Rows)]
    BY <1>9 DEF Settings!Calibrate, Settings!SetPxPitch, Settings!RefreshDialog, Settings!Rendered
  <2>2. "pitch" \in Settings!Keys /\ "pitch" \notin Settings!Shown
    BY DEF Settings!Keys, Settings!Shown
  <2> QED
    BY <2>1, <2>2, ControlsShow, ChangeKeeps
<1>10. ASSUME NEW s \in Screens, Settings!Show(s) PROVE SettingsInv'
  <2>1. /\ phase[s] # "off" /\ panel' = [panel EXCEPT ![s] = Settings!On(st[s], Settings!Rows)]
        /\ UNCHANGED <<server, posts, phase, local, st, map, chrome, timer, sent, clean>>
    BY <1>10 DEF Settings!Show, Settings!Rendered
  <2>2. st[s] \in Settings!Blob
    BY <1>0 DEF Settings!TypeOK
  <2>3. SettingsTypes'
    BY <1>0, <2>1, <2>2, Parts DEF SettingsTypes, Settings!TypeOK
  <2> QED
    BY <1>0, <2>1, <2>3 DEF SettingsInv, Away, Synced, LastIsCurrent, CleanIsStored, Settings!TypeOK
<1>11. ASSUME NEW s \in Screens, Settings!Save(s) PROVE SettingsInv'
  <2> DEFINE new == [from |-> s, n |-> sent[s], blob |-> st[s]]
  <2>1. /\ timer[s] /\ timer' = [timer EXCEPT ![s] = FALSE] /\ posts' = posts \cup {new}
        /\ sent' = [sent EXCEPT ![s] = @ + 1]
        /\ UNCHANGED <<server, phase, local, st, map, chrome, panel, clean>>
    BY <1>11 DEF Settings!Save
  <2>2. new \in Post /\ new.from = s /\ new.n = sent[s] /\ new.blob = st[s]
    BY <1>0 DEF Post, SettingsTypes, Settings!TypeOK
  <2> HIDE DEF new
  <2>3. phase[s] = "ready" /\ s # None
    BY <1>0, <2>1 DEF Away, Settings!SettingsConstants
  <2>4. SettingsTypes'
    BY <1>0, <2>1, <2>2 DEF SettingsTypes, Settings!TypeOK, Post
  <2>5. Away' /\ Synced'
    BY <1>0, <2>1, <2>2, <2>3 DEF Away, Synced, Settings!TypeOK
  <2>6. LastIsCurrent'
    BY <1>0, <2>1, <2>2 DEF LastIsCurrent, SettingsTypes, Settings!TypeOK, Post
  <2>7. CleanIsStored'
    BY <1>0, <2>1, <2>2 DEF CleanIsStored, Settings!TypeOK
  <2> QED
    BY <2>4, <2>5, <2>6, <2>7 DEF SettingsInv
<1>12. ASSUME NEW p \in posts, Settings!Stored(p) PROVE SettingsInv'
  <2>1. /\ server' = p.blob /\ posts' = posts \ {p}
        /\ clean' = [s \in Screens |-> /\ s = p.from /\ Settings!Of(s) = {p}
                                       /\ p.n + 1 = sent[s] /\ phase[s] = "ready"]
        /\ UNCHANGED <<phase, local, st, map, chrome, panel, timer, sent>>
    BY <1>12 DEF Settings!Stored, Settings!screen
  <2>2. p \in Post /\ p.blob \in Settings!Blob
    BY <1>0 DEF SettingsTypes, Post
  <2>3. SettingsTypes'
    BY <1>0, <2>1, <2>2 DEF SettingsTypes, Settings!TypeOK
  <2>4. Away' /\ Synced' /\ LastIsCurrent'
    BY <1>0, <2>1 DEF Away, Synced, LastIsCurrent
  <2>5. ASSUME NEW s \in Screens, clean'[s], ~timer[s] PROVE Matches(p.blob, st[s])
    <3>1. s = p.from /\ p.n + 1 = sent[s] /\ s # None
      BY <2>1, <2>5 DEF Settings!SettingsConstants
    <3>2. p.blob = st[s]
      BY <1>0, <2>5, <3>1 DEF LastIsCurrent
    <3> QED
      BY <2>2, <3>2 DEF Matches, Settings!SettingsConstants
  <2> QED
    BY <2>1, <2>3, <2>4, <2>5 DEF SettingsInv, CleanIsStored
<1>13. ASSUME NEW p \in posts, Settings!Lost(p) PROVE SettingsInv'
  <2>1. /\ posts' = posts \ {p} /\ clean' = [s \in Screens |-> clean[s] /\ s # p.from]
        /\ UNCHANGED <<server, phase, local, st, map, chrome, panel, timer, sent>>
    BY <1>13 DEF Settings!Lost, Settings!screen
  <2>2. SettingsTypes'
    BY <1>0, <2>1 DEF SettingsTypes, Settings!TypeOK
  <2>3. Away' /\ Synced' /\ LastIsCurrent'
    BY <1>0, <2>1 DEF Away, Synced, LastIsCurrent
  <2>4. CleanIsStored'
    BY <1>0, <2>1 DEF CleanIsStored
  <2> QED
    BY <2>2, <2>3, <2>4 DEF SettingsInv
<1> QED
  BY <1>1, <1>2, <1>3, <1>4, <1>5, <1>6, <1>7, <1>8, <1>9, <1>10, <1>11, <1>12, <1>13
     DEF Settings!Next

LEMMA SettingsSafe ==
  SettingsInv => Settings!TypeOK /\ Settings!SurfacesAgree /\ Settings!ChangesAreStored
<1> SUFFICES ASSUME SettingsInv
             PROVE  Settings!TypeOK /\ Settings!SurfacesAgree /\ Settings!ChangesAreStored
  OBVIOUS
<1>1. Settings!TypeOK /\ Settings!SurfacesAgree
  BY DEF SettingsInv, SettingsTypes, Synced, Settings!SurfacesAgree
<1>2. Settings!ChangesAreStored
  <2> SUFFICES ASSUME NEW s \in Screens, clean[s], ~timer[s], Settings!Of(s) = {}
               PROVE  Matches(server, st[s])
    BY DEF Settings!ChangesAreStored, Matches
  <2>1. \A p \in posts : p.from # s
    BY DEF Settings!Of
  <2> QED
    BY <2>1 DEF SettingsInv, CleanIsStored
<1> QED
  BY <1>1, <1>2

-----------------------------------------------------------------------------
(* The plugin host.                                                        *)

(* What a plugin has on the map, in the Layers control and on the host's   *)
(* buses it has while its controller is loaded.                            *)
LoadedOnly ==
  \A p \in Plugin \ loaded : /\ recs[p] = None /\ p \notin overlays
                             /\ onMap[p] = None \/ p \in revived
Owned == \A s \in starts \cup subs : s[1] \in loaded /\ s[2] = "host"

(* A plugin that is installed and not loaded has one import under way, or  *)
(* its module had no controller; any other has none.                       *)
ImportsOnce ==
  /\ loaded \subseteq installed /\ bare \subseteq installed \ loaded
  /\ \A p \in Plugin : imports[p] = IF p \in installed \ (loaded \cup bare) THEN 1 ELSE 0

(* The last list in the stream is the last one sent; when it has been      *)
(* taken, it is what is installed, but for an import that failed.          *)
LastList ==
  /\ stream # <<>> => sent # {None} /\ stream[Len(stream)] = sent
  /\ stream = <<>> /\ sent # {None} /\ ~raced =>
       installed \subseteq sent /\ (failed \/ installed = sent)

HostInv ==
  /\ Host!TypeOK /\ LoadedOnly /\ LastList /\ Host!DrawnAsTold
  /\ ~raced => Owned /\ ImportsOnce

Left == [toggles : 0 .. MaxToggles, clicks : 0 .. MaxClicks,
         rebuilds : 0 .. MaxRebuilds, fails : 0 .. MaxFails]

LEMMA HostInit == Host!Init => HostInv
<1> SUFFICES ASSUME Host!Init PROVE HostInv
  OBVIOUS
<1> USE ConstantsAssumption DEF Host!HostConstants, Host!Init
<1>1. left \in Left
  <2>1. /\ MaxToggles \in 0 .. MaxToggles /\ MaxClicks \in 0 .. MaxClicks
        /\ MaxRebuilds \in 0 .. MaxRebuilds /\ MaxFails \in 0 .. MaxFails
    OBVIOUS
  <2> QED
    BY <2>1 DEF Left
<1>2. stream \in Seq(SUBSET Plugin)
  OBVIOUS
<1>3. Host!TypeOK
  BY <1>1, <1>2 DEF Host!TypeOK, Left
<1>4. LoadedOnly /\ LastList /\ Host!DrawnAsTold
  BY DEF LoadedOnly, LastList, Host!DrawnAsTold
<1>5. Owned /\ ImportsOnce
  BY DEF Owned, ImportsOnce
<1> QED
  BY <1>3, <1>4, <1>5 DEF HostInv

LEMMA HostSafe ==
  HostInv => Host!TypeOK /\ Host!HostFollowsList /\ Host!DrawnAsTold
<1> SUFFICES ASSUME HostInv, ~raced PROVE Host!HostFollowsList
  BY DEF HostInv, Host!HostFollowsList
<1>1. Host!TypeOK /\ LoadedOnly /\ LastList /\ Owned /\ ImportsOnce
  BY DEF HostInv
<1>2. ASSUME Host!Quiet
      PROVE  /\ loaded = installed \ bare /\ loaded \subseteq enabled
             /\ failed \/ loaded = enabled \ bare
  <2>1. /\ stream = <<>> /\ sent = enabled /\ \A p \in Plugin : imports[p] = 0
        /\ loaded \subseteq Plugin /\ installed \subseteq Plugin /\ enabled \subseteq Plugin
    BY <1>1, <1>2 DEF Host!Quiet, Host!TypeOK
  <2>2. sent # {None}
    BY <2>1, ConstantsAssumption DEF Host!HostConstants
  <2> QED
    BY <1>1, <2>1, <2>2 DEF LastList, ImportsOnce
<1>3. /\ \A p \in Plugin \ loaded : /\ recs[p] = None /\ p \notin overlays
                                    /\ onMap[p] = None \/ p \in revived
      /\ \A s \in subs : s[1] \in loaded /\ s[2] = "host"
  BY <1>1 DEF LoadedOnly, Owned
<1> QED
  BY <1>2, <1>3, Zenon DEF Host!HostFollowsList

(* A list that is applied: what goes is off the map and off the buses, and *)
(* unless it overtook a load, what is installed is the list.               *)
LEMMA SyncKeeps ==
  ASSUME HostInv, NEW want \in SUBSET Plugin, NEW older \in BOOLEAN,
         Host!SyncInstalled(want, older)
  PROVE  /\ installed' \subseteq Plugin /\ loaded' \subseteq Plugin /\ imports' \in [Plugin -> Nat]
         /\ starts' \subseteq Plugin \X Host!Owner /\ subs' \subseteq Plugin \X Host!Owner
         /\ overlays' \subseteq Plugin /\ raced' \in BOOLEAN
         /\ recs' \in [Plugin -> Host!Layer \cup {None}] /\ onMap' \in [Plugin -> Host!Layer \cup {None}]
         /\ kept' \subseteq Plugin \X BOOLEAN /\ bare' \subseteq Plugin
         /\ LoadedOnly' /\ Host!DrawnAsTold'
         /\ ~raced' => /\ ~raced /\ ~older /\ Owned' /\ ImportsOnce'
                       /\ installed' \subseteq want /\ (failed \/ installed' = want)
<1> DEFINE new == want \ (loaded \cup installed)
           gone == installed \ want
<1>0. /\ Host!TypeOK /\ LoadedOnly /\ Host!DrawnAsTold
      /\ ~raced => Owned /\ ImportsOnce
  BY DEF HostInv
<1>1. /\ imports' = [p \in Plugin |-> imports[p] + (IF p \in new THEN 1 ELSE 0)]
      /\ installed' = (installed \cup new) \ gone
      /\ loaded' = loaded \ gone /\ overlays' = overlays \ gone
      /\ subs' = subs \ (gone \X {"host"})
      /\ starts' = {<<s[1], IF s[1] \in gone THEN "nobody" ELSE s[2]>> : s \in starts}
      /\ recs' = [p \in Plugin |-> IF p \in gone THEN None ELSE recs[p]]
      /\ onMap' = [p \in Plugin |-> IF p \in gone \cap loaded THEN None ELSE onMap[p]]
      /\ kept' = kept \cup {<<p, recs[p].hidden>> : p \in {q \in gone \cap loaded : recs[q] # None}}
      /\ bare' = bare \ gone
      /\ raced' = (\/ raced \/ \E p \in gone : imports[p] > 0
                   \/ \E s \in starts : s[1] \in gone
                   \/ older)
      /\ hidden' = hidden /\ failed' = failed /\ revived' = revived
  BY DEF Host!SyncInstalled, Host!Unregister
<1>2. /\ installed' \subseteq Plugin /\ loaded' \subseteq Plugin /\ overlays' \subseteq Plugin
      /\ imports' \in [Plugin -> Nat] /\ raced' \in BOOLEAN
      /\ subs' \subseteq Plugin \X Host!Owner
  BY <1>0, <1>1 DEF Host!TypeOK
<1>3. starts' \subseteq Plugin \X Host!Owner
  <2> SUFFICES ASSUME NEW s \in starts
               PROVE  <<s[1], IF s[1] \in gone THEN "nobody" ELSE s[2]>> \in Plugin \X Host!Owner
    BY <1>1
  <2>1. s \in Plugin \X Host!Owner /\ "nobody" \in Host!Owner
    BY <1>0 DEF Host!TypeOK, Host!Owner
  <2> QED
    BY <2>1
<1>4. recs' \in [Plugin -> Host!Layer \cup {None}] /\ onMap' \in [Plugin -> Host!Layer \cup {None}]
  BY <1>0, <1>1 DEF Host!TypeOK
<1>40. kept' \subseteq Plugin \X BOOLEAN /\ bare' \subseteq Plugin
  <2>1. ASSUME NEW p \in gone \cap loaded, recs[p] # None
        PROVE  <<p, recs[p].hidden>> \in Plugin \X BOOLEAN
    <3>1. p \in Plugin /\ recs[p] \in Host!Layer
      BY <1>0, <2>1 DEF Host!TypeOK
    <3> QED
      BY <3>1 DEF Host!Layer
  <2> QED
    BY <1>0, <1>1, <2>1 DEF Host!TypeOK
<1>5. LoadedOnly'
  BY <1>0, <1>1 DEF LoadedOnly
<1>6. Host!DrawnAsTold'
  BY <1>0, <1>1 DEF Host!DrawnAsTold
<1>7. ASSUME ~raced'
      PROVE  /\ ~raced /\ ~older /\ Owned' /\ ImportsOnce'
             /\ installed' \subseteq want /\ (failed \/ installed' = want)
  <2>1. /\ ~raced /\ ~older /\ Owned /\ ImportsOnce
        /\ \A p \in gone : ~(imports[p] > 0)
        /\ \A s \in starts : s[1] \notin gone
    BY <1>0, <1>1, <1>7
  <2>2. \A p \in Plugin : imports[p] = IF p \in installed \ (loaded \cup bare) THEN 1 ELSE 0
    BY <2>1 DEF ImportsOnce
  <2>3. /\ loaded \subseteq installed /\ bare \subseteq installed \ loaded
        /\ gone \subseteq loaded \cup bare /\ gone \subseteq Plugin
    BY <1>0, <2>1, <2>2 DEF ImportsOnce, Host!TypeOK
  <2>4. installed' = want
    BY <1>1, <2>3
  <2>5. ImportsOnce'
    <3>1. loaded' \subseteq installed' /\ bare' \subseteq installed' \ loaded'
      BY <1>1, <2>3
    <3>2. ASSUME NEW p \in Plugin
          PROVE  imports'[p] = IF p \in installed' \ (loaded' \cup bare') THEN 1 ELSE 0
      BY <1>1, <2>2, <2>3
    <3> QED
      BY <3>1, <3>2 DEF ImportsOnce
  <2>6. starts' = starts
    <3>1. \A s \in starts : <<s[1], IF s[1] \in gone THEN "nobody" ELSE s[2]>> = s
      BY <1>0, <2>1 DEF Host!TypeOK
    <3> QED
      BY <1>1, <3>1
  <2>7. ASSUME NEW s \in starts' \cup subs' PROVE s[1] \in loaded' /\ s[2] = "host"
    <3>1. s[1] \in loaded /\ s[2] = "host" /\ s = <<s[1], s[2]>>
      BY <1>0, <1>1, <2>1, <2>6 DEF Owned, Host!TypeOK
    <3> QED
      BY <1>1, <2>1, <2>6, <3>1
  <2> QED
    BY <2>1, <2>4, <2>5, <2>7 DEF Owned
<1> QED
  BY <1>2, <1>3, <1>4, <1>40, <1>5, <1>6, <1>7

(* What the bounds leave.                                                  *)
LEMMA LeftTypes ==
  ASSUME left \in Left, NEW k \in {"toggles", "clicks", "rebuilds", "fails"}, Host!Use(k)
  PROVE  left' \in Left
BY ConstantsAssumption DEF Host!HostConstants, Host!Use, Left

LEMMA HostNext == HostInv /\ [Host!Next]_(Host!vars) => HostInv'
<1> SUFFICES ASSUME HostInv, [Host!Next]_(Host!vars) PROVE HostInv'
  OBVIOUS
<1>0. /\ Host!TypeOK /\ left \in Left /\ LoadedOnly /\ LastList /\ Host!DrawnAsTold
      /\ ~raced => Owned /\ ImportsOnce
  BY DEF HostInv, Host!TypeOK, Left
<1> USE DEF Host!lists, Host!host, Host!draw, Host!ghosts
<1>1. CASE UNCHANGED Host!vars
  BY <1>0, <1>1 DEF Host!vars, HostInv, Host!TypeOK, LoadedOnly, LastList, Host!DrawnAsTold,
     Owned, ImportsOnce
<1>2. CASE Host!Push
  <2>1. /\ sent' = enabled /\ stream' = Append(stream, enabled) /\ enabled \in SUBSET Plugin
        /\ UNCHANGED <<enabled, fetched, first, installed, loaded, imports, starts, subs, overlays,
                       recs, onMap, hidden, styleReady, kept, left, raced, failed, bare, revived>>
    BY <1>0, <1>2 DEF Host!Push, Host!TypeOK
  <2>2. stream' \in Seq(SUBSET Plugin) /\ stream' # <<>> /\ stream'[Len(stream')] = enabled
    BY <1>0, <2>1 DEF Host!TypeOK
  <2>3. enabled # {None}
    BY <2>1, ConstantsAssumption DEF Host!HostConstants
  <2>4. Host!TypeOK'
    BY <1>0, <2>1, <2>2 DEF Host!TypeOK
  <2>5. LastList'
    BY <2>1, <2>2, <2>3 DEF LastList
  <2> QED
    BY <1>0, <2>1, <2>4, <2>5 DEF HostInv, LoadedOnly, Host!DrawnAsTold, Owned, ImportsOnce
<1>3. CASE Host!AnswerFetch
  BY <1>0, <1>3 DEF Host!AnswerFetch, HostInv, Host!TypeOK, LoadedOnly, LastList, Host!DrawnAsTold,
     Owned, ImportsOnce
<1>4. CASE Host!StreamMessage
  <2>1. /\ stream # <<>> /\ stream' = Tail(stream) /\ Host!SyncInstalled(Head(stream), FALSE)
        /\ UNCHANGED <<fetched, first, enabled, sent, hidden, styleReady, left, failed, revived>>
    BY <1>4 DEF Host!StreamMessage, Host!SyncInstalled
  <2>2. stream \in Seq(SUBSET Plugin) /\ Head(stream) \in SUBSET Plugin
    BY <1>0, <2>1 DEF Host!TypeOK
  <2>3. /\ Tail(stream) \in Seq(SUBSET Plugin)
        /\ Tail(stream) = <<>> => Head(stream) = stream[Len(stream)]
        /\ Tail(stream) # <<>> => Tail(stream)[Len(Tail(stream))] = stream[Len(stream)]
    <3>1. /\ Len(stream) \in Nat \ {0} /\ Tail(stream) \in Seq(SUBSET Plugin)
          /\ Len(Tail(stream)) = Len(stream) - 1
          /\ \A i \in 1 .. Len(stream) - 1 : Tail(stream)[i] = stream[i + 1]
      BY <2>1, <2>2
    <3>2. Tail(stream) # <<>> => Len(stream) - 1 \in 1 .. Len(stream) - 1
      BY <3>1
    <3>3. Tail(stream) = <<>> => Len(stream) = 1 /\ Head(stream) = stream[1]
      <4>1. Len(<<>>) = 0
        OBVIOUS
      <4>2. Tail(stream) = <<>> => Len(Tail(stream)) = 0
        BY <4>1
      <4>3. Head(stream) = stream[1]
        BY <2>1, <2>2
      <4> QED
        BY <3>1, <4>2, <4>3
    <3>4. Tail(stream) # <<>> => Tail(stream)[Len(stream) - 1] = stream[Len(stream) - 1 + 1]
      BY <3>1, <3>2
    <3>5. Len(stream) - 1 + 1 = Len(stream)
      BY <3>1
    <3> QED
      BY <3>1, <3>3, <3>4, <3>5
  <2>4. sent # {None} /\ stream[Len(stream)] = sent
    BY <1>0, <2>1 DEF LastList
  <2>5. LastList' /\ Host!TypeOK' /\ LoadedOnly' /\ Host!DrawnAsTold' /\ (~raced' => Owned' /\ ImportsOnce')
    BY <1>0, <2>1, <2>2, <2>3, <2>4, SyncKeeps DEF LastList, Host!TypeOK
  <2> QED
    BY <2>5 DEF HostInv
<1>5. CASE Host!FirstList
  <2> DEFINE older == sent \notin {{None}, first}
  <2>1. /\ fetched' = "done" /\ Host!SyncInstalled(first, older)
        /\ UNCHANGED <<stream, first, enabled, sent, hidden, styleReady, left, failed, revived>>
    BY <1>5 DEF Host!FirstList, Host!SyncInstalled
  <2>2. first \in SUBSET Plugin /\ older \in BOOLEAN
    BY <1>0 DEF Host!TypeOK
  <2>3. LastList' /\ Host!TypeOK' /\ LoadedOnly' /\ Host!DrawnAsTold' /\ (~raced' => Owned' /\ ImportsOnce')
    BY <1>0, <2>1, <2>2, SyncKeeps DEF LastList, Host!TypeOK
  <2> QED
    BY <2>3 DEF HostInv
<1>6. CASE Host!Rebuild
  <2>1. /\ Host!Use("rebuilds") /\ styleReady' \in BOOLEAN
        /\ onMap' = [p \in Plugin |-> IF recs[p] = None THEN None ELSE Host!Ensure(styleReady', recs[p], None)]
        /\ revived' = {}
        /\ UNCHANGED <<enabled, sent, stream, fetched, first, installed, loaded, imports, starts,
                       subs, overlays, recs, hidden, kept, raced, failed, bare>>
    BY <1>6 DEF Host!Rebuild
  <2>2. left' \in Left
    BY <1>0, <2>1, LeftTypes
  <2>3. onMap' \in [Plugin -> Host!Layer \cup {None}]
    BY <1>0, <2>1 DEF Host!TypeOK, Host!Ensure
  <2>4. Host!TypeOK'
    BY <1>0, <2>1, <2>2, <2>3 DEF Host!TypeOK, Left
  <2>5. \A p \in Plugin : onMap'[p] \in {None, recs[p]} /\ (recs[p] = None => onMap'[p] = None)
    BY <2>1 DEF Host!Ensure
  <2>6. LoadedOnly'
    BY <1>0, <2>1, <2>5 DEF LoadedOnly
  <2>7. Host!DrawnAsTold'
    BY <1>0, <2>1, <2>5 DEF Host!DrawnAsTold
  <2> QED
    BY <1>0, <2>1, <2>4, <2>6, <2>7 DEF HostInv, LastList, Owned, ImportsOnce
<1>7. CASE Host!Settle
  BY <1>0, <1>7 DEF Host!Settle, HostInv, Host!TypeOK, LoadedOnly, LastList, Host!DrawnAsTold,
     Owned, ImportsOnce
<1>8. ASSUME NEW p \in Plugin, Host!Toggle(p) PROVE HostInv'
  <2>1. /\ Host!Use("toggles") /\ enabled' \subseteq Plugin
        /\ UNCHANGED <<sent, stream, fetched, first, installed, loaded, imports, starts, subs,
                       overlays, recs, onMap, hidden, styleReady, kept, raced, failed, bare, revived>>
    BY <1>0, <1>8 DEF Host!Toggle, Host!TypeOK
  <2>2. left' \in Left
    BY <1>0, <2>1, LeftTypes
  <2> QED
    BY <1>0, <2>1, <2>2 DEF HostInv, Host!TypeOK, Left, LoadedOnly, LastList, Host!DrawnAsTold,
       Owned, ImportsOnce
<1>9. ASSUME NEW p \in Plugin, Host!ImportDone(p) PROVE HostInv'
  <2>1. /\ imports[p] > 0 /\ imports' = [imports EXCEPT ![p] = @ - 1]
        /\ UNCHANGED <<enabled, sent, stream, fetched, first, installed, subs, hidden, styleReady,
                       kept, left, raced, failed, bare, revived>>
    BY <1>9 DEF Host!ImportDone
  <2>2. imports' \in [Plugin -> Nat] /\ (~raced => p \in installed \ (loaded \cup bare) /\ imports[p] = 1)
    BY <1>0, <2>1 DEF Host!TypeOK, ImportsOnce
  <2>3. CASE p \in loaded
    <3>1. UNCHANGED <<loaded, starts, overlays, recs, onMap>> /\ raced
      BY <1>9, <2>2, <2>3 DEF Host!ImportDone
    <3> QED
      BY <1>0, <2>1, <2>2, <3>1 DEF HostInv, Host!TypeOK, LoadedOnly, LastList, Host!DrawnAsTold
  <2>4. CASE p \notin loaded
    <3> DEFINE rec == [data |-> 0, hidden |-> p \in hidden]
    <3>1. /\ loaded' = loaded \cup {p} /\ starts' = starts \cup {<<p, "host">>}
          /\ overlays' = overlays \cup {p} /\ recs' = [recs EXCEPT ![p] = rec]
          /\ onMap' = [onMap EXCEPT ![p] = Host!Drawn(Host!Ensure(styleReady, rec, onMap[p]), rec.hidden)]
      BY <1>9, <2>4 DEF Host!ImportDone, Host!Register
    <3>2. rec \in Host!Layer /\ rec.hidden = (p \in hidden)
      BY DEF Host!Layer
    <3> HIDE DEF rec
    <3> DEFINE there == Host!Drawn(Host!Ensure(styleReady, rec, onMap[p]), rec.hidden)
    <3>30. /\ there \in Host!Layer \cup {None}
           /\ onMap[p] = None => there \in {rec, None}
      <4>1. onMap[p] \in Host!Layer \cup {None} /\ rec.hidden \in BOOLEAN
        BY <1>0, <3>2 DEF Host!TypeOK, Host!Layer
      <4>2. Host!Ensure(styleReady, rec, onMap[p]) \in Host!Layer \cup {None}
        BY <3>2, <4>1 DEF Host!Ensure
      <4>3. \A l \in Host!Layer : [l EXCEPT !.hidden = rec.hidden] \in Host!Layer
        BY <4>1 DEF Host!Layer
      <4>4. [rec EXCEPT !.hidden = rec.hidden] = rec
        BY <3>2 DEF Host!Layer
      <4>5. onMap[p] = None => Host!Ensure(styleReady, rec, onMap[p]) \in {rec, None}
        BY DEF Host!Ensure
      <4> QED
        BY <4>2, <4>3, <4>4, <4>5 DEF Host!Drawn
    <3>3. onMap' = [onMap EXCEPT ![p] = there] /\ (onMap[p] = None \/ p \in revived)
      BY <1>0, <2>4, <3>1 DEF LoadedOnly
    <3> HIDE DEF there
    <3>4. Host!TypeOK'
      BY <1>0, <2>1, <2>2, <3>1, <3>2, <3>3, <3>30 DEF Host!TypeOK, Host!Owner
    <3>5. LoadedOnly' /\ LastList' /\ Host!DrawnAsTold'
      BY <1>0, <2>1, <3>1, <3>2, <3>3, <3>30 DEF LoadedOnly, LastList, Host!DrawnAsTold, Host!TypeOK
    <3>6. ~raced' => Owned' /\ ImportsOnce'
      BY <1>0, <2>1, <2>2, <3>1 DEF Owned, ImportsOnce, Host!TypeOK
    <3> QED
      BY <3>4, <3>5, <3>6 DEF HostInv
  <2> QED
    BY <2>3, <2>4
<1>10. ASSUME NEW p \in Plugin, Host!ImportFailed(p) PROVE HostInv'
  <2>1. /\ imports[p] > 0 /\ imports' = [imports EXCEPT ![p] = @ - 1] /\ Host!Use("fails")
        /\ failed' = TRUE /\ installed' = installed \ {p}
        /\ UNCHANGED <<enabled, sent, stream, fetched, first, loaded, starts, subs, overlays, recs,
                       onMap, hidden, styleReady, kept, raced, bare, revived>>
    BY <1>10 DEF Host!ImportFailed
  <2>2. imports' \in [Plugin -> Nat] /\ (~raced => p \in installed \ (loaded \cup bare) /\ imports[p] = 1)
    BY <1>0, <2>1 DEF Host!TypeOK, ImportsOnce
  <2>3. left' \in Left
    BY <1>0, <2>1, LeftTypes
  <2>4. Host!TypeOK'
    BY <1>0, <2>1, <2>2, <2>3 DEF Host!TypeOK, Left
  <2>5. LoadedOnly' /\ LastList' /\ Host!DrawnAsTold'
    BY <1>0, <2>1 DEF LoadedOnly, LastList, Host!DrawnAsTold
  <2>6. ~raced' => Owned' /\ ImportsOnce'
    BY <1>0, <2>1, <2>2 DEF Owned, ImportsOnce, Host!TypeOK
  <2> QED
    BY <2>4, <2>5, <2>6 DEF HostInv
<1>11. ASSUME NEW p \in Plugin, NEW o \in Host!Owner, Host!StartContinues(<<p, o>>) PROVE HostInv'
  BY <1>0, <1>11 DEF Host!StartContinues, HostInv, Host!TypeOK, LoadedOnly, LastList,
     Host!DrawnAsTold, Owned, ImportsOnce
<1>12. ASSUME NEW p \in Plugin, Host!SetData(p) PROVE HostInv'
  <2> DEFINE rec == [recs[p] EXCEPT !.data = 1 - @]
             there == Host!Filled(Host!Ensure(styleReady, rec, onMap[p]), rec.data)
  <2>1. /\ recs[p] # None /\ recs' = [recs EXCEPT ![p] = rec]
        /\ onMap' = [onMap EXCEPT ![p] = there]
        /\ UNCHANGED <<enabled, sent, stream, fetched, first, installed, loaded, imports, starts,
                       subs, overlays, hidden, styleReady, kept, left, raced, failed, bare, revived>>
    BY <1>12 DEF Host!SetData
  <2>2. /\ recs[p] \in Host!Layer /\ rec \in Host!Layer /\ rec.hidden = recs[p].hidden
        /\ onMap[p] \in Host!Layer \cup {None}
    BY <1>0, <2>1 DEF Host!TypeOK, Host!Layer
  <2>30. \A l \in Host!Layer : /\ [l EXCEPT !.data = rec.data] \in Host!Layer
                               /\ l.hidden = rec.hidden => [l EXCEPT !.data = rec.data] = rec
    BY <2>2 DEF Host!Layer
  <2>3. there \in Host!Layer \cup {None} /\ (there # None => there = rec \/ p \in revived)
    <3>1. Host!Ensure(styleReady, rec, onMap[p]) \in Host!Layer \cup {None}
      BY <2>2 DEF Host!Ensure
    <3>2. /\ Host!Ensure(styleReady, rec, onMap[p]) # None
          => Host!Ensure(styleReady, rec, onMap[p]).hidden = rec.hidden \/ p \in revived
      BY <1>0, <2>1, <2>2 DEF Host!Ensure, Host!DrawnAsTold
    <3> QED
      BY <2>30, <3>1, <3>2 DEF Host!Filled
  <2> HIDE DEF rec, there
  <2>4. Host!TypeOK'
    BY <1>0, <2>1, <2>2, <2>3 DEF Host!TypeOK
  <2>5. LoadedOnly' /\ LastList' /\ Host!DrawnAsTold'
    BY <1>0, <2>1, <2>2, <2>3 DEF LoadedOnly, LastList, Host!DrawnAsTold, Host!TypeOK
  <2> QED
    BY <1>0, <2>1, <2>4, <2>5 DEF HostInv, Owned, ImportsOnce
<1>13. ASSUME NEW p \in Plugin, Host!SetVisible(p) PROVE HostInv'
  <2> DEFINE out == p \in hidden'
  <2>1. /\ p \in overlays /\ Host!Use("clicks")
        /\ hidden' = (IF p \in hidden THEN hidden \ {p} ELSE hidden \cup {p})
        /\ recs' = [recs EXCEPT ![p] = IF @ = None THEN None ELSE [@ EXCEPT !.hidden = out]]
        /\ onMap' = [onMap EXCEPT ![p] = IF @ = None THEN None ELSE [@ EXCEPT !.hidden = out]]
        /\ UNCHANGED <<enabled, sent, stream, fetched, first, installed, loaded, imports, starts,
                       subs, overlays, styleReady, kept, raced, failed, bare, revived>>
    BY <1>13 DEF Host!SetVisible, Host!Drawn
  <2>2. left' \in Left
    BY <1>0, <2>1, LeftTypes
  <2>3. out \in BOOLEAN /\ (out <=> p \in hidden')
    OBVIOUS
  <2> HIDE DEF out
  <2>4. \A r \in Host!Layer : /\ [r EXCEPT !.hidden = out] \in Host!Layer
                              /\ [r EXCEPT !.hidden = out].hidden = out
    BY <2>3 DEF Host!Layer
  <2>5. Host!TypeOK'
    BY <1>0, <2>1, <2>2, <2>4 DEF Host!TypeOK, Left
  <2>6. LoadedOnly' /\ LastList'
    BY <1>0, <2>1 DEF LoadedOnly, LastList
  <2>7. ASSUME NEW q \in Plugin, recs'[q] # None
        PROVE  /\ recs'[q].hidden = (q \in hidden')
               /\ onMap'[q] # None => onMap'[q] = recs'[q] \/ q \in revived'
    <3>1. CASE q = p
      <4>1. /\ recs[p] \in Host!Layer /\ recs'[p] = [recs[p] EXCEPT !.hidden = out]
            /\ onMap[p] # None => onMap[p] = recs[p] \/ p \in revived
            /\ revived' = revived
            /\ onMap'[p] = IF onMap[p] = None THEN None ELSE [onMap[p] EXCEPT !.hidden = out]
        BY <1>0, <2>1, <2>7, <3>1 DEF Host!DrawnAsTold, Host!TypeOK
      <4> QED
        BY <2>3, <2>4, <3>1, <4>1
    <3>2. CASE q # p
      <4>1. /\ recs'[q] = recs[q] /\ onMap'[q] = onMap[q] /\ (q \in hidden' <=> q \in hidden)
            /\ revived' = revived
        BY <1>0, <2>1, <3>2 DEF Host!TypeOK
      <4> QED
        BY <1>0, <2>7, <4>1 DEF Host!DrawnAsTold
    <3> QED
      BY <3>1, <3>2
  <2> QED
    BY <1>0, <2>1, <2>5, <2>6, <2>7 DEF HostInv, Host!DrawnAsTold, Owned, ImportsOnce
<1>14. ASSUME NEW p \in Plugin, Host!ImportBare(p) PROVE HostInv'
  <2>1. /\ imports[p] > 0 /\ imports' = [imports EXCEPT ![p] = @ - 1] /\ Host!Use("fails")
        /\ bare' = bare \cup {p}
        /\ UNCHANGED <<enabled, sent, stream, fetched, first, installed, loaded, starts, subs,
                       overlays, recs, onMap, hidden, styleReady, kept, raced, failed, revived>>
    BY <1>14 DEF Host!ImportBare
  <2>2. imports' \in [Plugin -> Nat] /\ (~raced => p \in installed \ (loaded \cup bare) /\ imports[p] = 1)
    BY <1>0, <2>1 DEF Host!TypeOK, ImportsOnce
  <2>3. left' \in Left
    BY <1>0, <2>1, LeftTypes
  <2>4. Host!TypeOK'
    BY <1>0, <2>1, <2>2, <2>3 DEF Host!TypeOK, Left
  <2>5. LoadedOnly' /\ LastList' /\ Host!DrawnAsTold'
    BY <1>0, <2>1 DEF LoadedOnly, LastList, Host!DrawnAsTold
  <2>6. ~raced' => Owned' /\ ImportsOnce'
    BY <1>0, <2>1, <2>2 DEF Owned, ImportsOnce, Host!TypeOK
  <2> QED
    BY <2>4, <2>5, <2>6 DEF HostInv
<1>15. ASSUME NEW p \in Plugin, Host!LateData(p) PROVE HostInv'
  <2>1. PICK data \in 0 .. 1, hide \in BOOLEAN :
          onMap' = [onMap EXCEPT ![p] =
                     Host!Filled(Host!Ensure(styleReady, [data |-> data, hidden |-> hide], @), data)]
    BY <1>15 DEF Host!LateData
  <2>2. /\ revived' = revived \cup {p}
        /\ UNCHANGED <<enabled, sent, stream, fetched, first, installed, loaded, imports, starts, subs,
                       overlays, recs, hidden, styleReady, kept, left, raced, failed, bare>>
    BY <1>15 DEF Host!LateData
  <2>3. onMap' \in [Plugin -> Host!Layer \cup {None}] /\ \A q \in Plugin \ {p} : onMap'[q] = onMap[q]
    <3>1. onMap[p] \in Host!Layer \cup {None} /\ [data |-> data, hidden |-> hide] \in Host!Layer
      BY <1>0 DEF Host!TypeOK, Host!Layer
    <3>2. Host!Ensure(styleReady, [data |-> data, hidden |-> hide], onMap[p]) \in Host!Layer \cup {None}
      BY <3>1 DEF Host!Ensure
    <3>3. \A l \in Host!Layer : [l EXCEPT !.data = data] \in Host!Layer
      BY DEF Host!Layer
    <3>4. Host!Filled(Host!Ensure(styleReady, [data |-> data, hidden |-> hide], onMap[p]), data)
            \in Host!Layer \cup {None}
      BY <3>2, <3>3 DEF Host!Filled
    <3> QED
      BY <1>0, <2>1, <3>4 DEF Host!TypeOK
  <2>4. Host!TypeOK' /\ LastList'
    BY <1>0, <2>2, <2>3 DEF Host!TypeOK, LastList
  <2>5. LoadedOnly' /\ Host!DrawnAsTold'
    BY <1>0, <2>2, <2>3 DEF LoadedOnly, Host!DrawnAsTold
  <2> QED
    BY <1>0, <2>2, <2>4, <2>5 DEF HostInv, Owned, ImportsOnce
<1> QED
  BY <1>1, <1>2, <1>3, <1>4, <1>5, <1>6, <1>7, <1>8, <1>9, <1>10, <1>11, <1>12, <1>13, <1>14, <1>15
     DEF Host!Next, Host!Sync, Host!Load

-----------------------------------------------------------------------------
(* The Plugins tab.                                                        *)

Entry == Tab!Rec \cup {None}
List == [Plugins -> Entry]
Draft == [id : Plugins, draft : 0 .. 1]
AskTypes(cs) == \A c \in cs : c.id \in Plugins \cup {None} /\ c.v \in 0 .. 1
TabTypes ==
  /\ Tab!TypeOK /\ AskTypes(calls) /\ editor \in Draft \cup {None}
  /\ view = "list" => rows \in [Plugins -> Tab!Shown \cup {None}]
  /\ \A a \in answers : a.list \in List

(* The drill-down of the connections, which no list redraws, hides the list.*)
DrilledAway == open # None /\ open.mode = "connections" => view # "list"

TabInv == TabTypes /\ DrilledAway /\ Tab!RowsShowList

(* What a rendering leaves: the rows of the list it was given and an editor*)
(* of what is open, under its row.                                         *)
LEMMA DrawnSays ==
  ASSUME NEW list \in List
  PROVE  /\ Tab!Drawn(list) \in [Plugins -> Tab!Shown \cup {None}]
         /\ \A p \in Plugins : Tab!Says(Tab!Drawn(list)[p], list[p])
<1> SUFFICES ASSUME NEW p \in Plugins
             PROVE  Tab!Row(list[p]) \in Tab!Shown \cup {None} /\ Tab!Says(Tab!Row(list[p]), list[p])
  BY DEF Tab!Drawn
<1>1. CASE list[p] = None
  BY <1>1 DEF Tab!Row, Tab!Says
<1>2. CASE list[p] # None
  <2>1. list[p] \in Tab!Rec
    BY <1>2 DEF List, Entry
  <2>2. Tab!Row(list[p]) = [toggle |-> list[p].on, badge |-> Tab!Badge(list[p]), meta |-> list[p].up]
    BY <1>2 DEF Tab!Row
  <2>3. Tab!Row(list[p]) \in Tab!Shown
    BY <2>1, <2>2 DEF Tab!Rec, Tab!Shown, Tab!Badge
  <2>4. Tab!Row(list[p]) # None
    BY <2>3, ConstantsAssumption DEF Tab!PanelConstants
  <2> QED
    BY <1>2, <2>2, <2>3, <2>4 DEF Tab!Says
<1> QED
  BY <1>1, <1>2

LEMMA RenderShows ==
  ASSUME NEW list \in List, NEW o \in Tab!Open, NEW cs, AskTypes(cs), Tab!Render(list, o, cs),
         logTimer \in Plugins \cup {None}
  PROVE  /\ AskTypes(calls') /\ view' \in {"list", "logs", "connections"}
         /\ logTimer' \in Plugins \cup {None} /\ editor' \in Draft \cup {None}
         /\ view' = "list" => rows' \in [Plugins -> Tab!Shown \cup {None}]
         /\ view' = "list" => \A p \in Plugins : Tab!Says(rows'[p], list[p])
         /\ o # None /\ o.mode = "connections" => view' # "list"
         /\ editor' # None => /\ o # None /\ editor'.id = o.id /\ o.mode \in {"grants", "config"}
                              /\ rows'[editor'.id] # None
<1>1. o # None => o.id \in Plugins /\ o.mode \in {"grants", "config", "logs", "connections"}
  BY DEF Tab!Open
<1>2. CASE o # None /\ o.mode = "logs"
  <2>1. /\ view' = "logs" /\ logTimer' = o.id /\ editor' = None
        /\ calls' = cs \cup {Tab!Call("logs", o.id, 0)}
    BY <1>2 DEF Tab!Render
  <2>2. AskTypes(calls')
    BY <1>1, <1>2, <2>1 DEF AskTypes, Tab!Call
  <2> QED
    BY <1>1, <1>2, <2>1, <2>2
<1>3. CASE o # None /\ o.mode = "connections"
  <2>1. view' = "connections" /\ editor' = None /\ logTimer' = logTimer /\ calls' = cs
    BY <1>3 DEF Tab!Render
  <2> QED
    BY <1>3, <2>1
<1>4. CASE o = None \/ o.mode \in {"grants", "config"}
  <2>1. /\ view' = "list" /\ rows' = Tab!Drawn(list) /\ editor' = Tab!Editor(list, o)
        /\ logTimer' = logTimer /\ calls' = cs
    BY <1>4 DEF Tab!Render
  <2>2. ASSUME o # None, list[o.id] # None
        PROVE  /\ [id |-> o.id, draft |-> IF o.mode = "grants" THEN list[o.id].grants ELSE list[o.id].config] \in Draft
               /\ Tab!Drawn(list)[o.id] # None
    <3>1. list[o.id] \in Tab!Rec
      BY <1>1, <2>2 DEF List, Entry
    <3>2. list[o.id].grants \in 0 .. 1 /\ list[o.id].config \in 0 .. 1
      BY <3>1 DEF Tab!Rec
    <3>3. Tab!Drawn(list)[o.id] # None
      BY <1>1, <2>2, DrawnSays DEF Tab!Says
    <3> QED
      BY <1>1, <2>2, <3>2, <3>3 DEF Draft
  <2>3. editor' = IF o # None /\ list[o.id] # None
                  THEN [id |-> o.id, draft |-> IF o.mode = "grants" THEN list[o.id].grants ELSE list[o.id].config]
                  ELSE None
    BY <2>1 DEF Tab!Editor
  <2>4. /\ rows' \in [Plugins -> Tab!Shown \cup {None}]
        /\ \A p \in Plugins : Tab!Says(rows'[p], list[p])
    BY <2>1, DrawnSays
  <2> QED
    BY <1>4, <2>1, <2>2, <2>3, <2>4
<1> QED
  BY <1>1, <1>2, <1>3, <1>4

(* A rendering of what the panel knows and has open keeps the invariant.   *)
LEMMA RenderKeeps ==
  ASSUME TabInv, NEW cs, AskTypes(cs), plugins' \in List, open' \in Tab!Open,
         Tab!Render(plugins', open', cs), server' \in List,
         \A a \in answers' : a.list \in List
  PROVE  TabInv'
<1>1. Tab!TypeOK /\ logTimer \in Plugins \cup {None}
  BY DEF TabInv, TabTypes, Tab!TypeOK
<1>2. /\ AskTypes(calls') /\ view' \in {"list", "logs", "connections"}
      /\ logTimer' \in Plugins \cup {None} /\ editor' \in Draft \cup {None}
      /\ view' = "list" => rows' \in [Plugins -> Tab!Shown \cup {None}]
      /\ view' = "list" => \A p \in Plugins : Tab!Says(rows'[p], plugins'[p])
      /\ open' # None /\ open'.mode = "connections" => view' # "list"
      /\ editor' # None => /\ open' # None /\ editor'.id = open'.id
                           /\ open'.mode \in {"grants", "config"} /\ rows'[editor'.id] # None
  BY <1>1, RenderShows
<1> QED
  BY <1>1, <1>2 DEF TabInv, TabTypes, Tab!TypeOK, DrilledAway, Tab!RowsShowList, List, Entry

LEMMA TabInit == Tab!Init => TabInv
<1> SUFFICES ASSUME Tab!Init PROVE TabInv
  OBVIOUS
<1> USE DEF Tab!Init, Tab!Nobody
<1>1. [on |-> TRUE, grants |-> 0, config |-> 0, up |-> "running"] \in Tab!Rec
  BY DEF Tab!Rec
<1>2. server \in List /\ plugins \in List
  BY <1>1 DEF List, Entry
<1> QED
  BY <1>2 DEF TabInv, TabTypes, Tab!TypeOK, Tab!Open, AskTypes, DrilledAway, Tab!RowsShowList,
     List, Entry

(* A request on its way disturbs nothing, nor does an answer to one.       *)
LEMMA AskKeeps ==
  ASSUME TabInv, AskTypes(calls'), server' \in List,
         \A a \in answers' : a.list \in List,
         UNCHANGED <<plugins, open, rows, view, logTimer>>, editor' \in Draft \cup {None},
         editor' # None => editor # None /\ editor'.id = editor.id
  PROVE  TabInv'
BY DEF TabInv, TabTypes, Tab!TypeOK, DrilledAway, Tab!RowsShowList, List, Entry

(* A list that says the same of buttons and editors patches the badges.    *)
LEMMA PatchShows ==
  ASSUME NEW old \in List, NEW list \in List, rows \in [Plugins -> Tab!Shown \cup {None}],
         \A p \in Plugins : Tab!Says(rows[p], old[p]),
         Tab!StructureSig(list) = Tab!StructureSig(old)
  PROVE  /\ Tab!Patched(list) \in [Plugins -> Tab!Shown \cup {None}]
         /\ \A p \in Plugins : Tab!Says(Tab!Patched(list)[p], list[p])
<1> DEFINE new(p) == IF list[p] = None THEN None ELSE [rows[p] EXCEPT !.badge = Tab!Badge(list[p])]
<1> SUFFICES ASSUME NEW p \in Plugins
             PROVE  new(p) \in Tab!Shown \cup {None} /\ Tab!Says(new(p), list[p])
  BY DEF Tab!Patched
<1>1. CASE list[p] = None
  BY <1>1 DEF Tab!Says
<1>2. CASE list[p] # None
  <2>1. list[p] \in Tab!Rec
    BY <1>2 DEF List, Entry
  <2>2. Tab!StructureSig(list)[p] = <<list[p].on, list[p].grants, list[p].config>>
    BY <1>2 DEF Tab!StructureSig
  <2>3. Tab!StructureSig(list)[p] # None
    BY <2>1, <2>2, ConstantsAssumption DEF Tab!PanelConstants, Tab!Rec
  <2>4. Tab!StructureSig(old)[p] = IF old[p] = None THEN None ELSE <<old[p].on, old[p].grants, old[p].config>>
    BY DEF Tab!StructureSig
  <2>5. old[p] # None /\ old[p].on = list[p].on
    BY <2>2, <2>3, <2>4
  <2>6. rows[p] # None /\ rows[p] \in Tab!Shown /\ rows[p].toggle = list[p].on
    BY <2>5 DEF Tab!Says
  <2>7. Tab!Badge(list[p]) \in {"running", "error", "disabled"}
    BY <2>1 DEF Tab!Badge, Tab!Rec
  <2>8. /\ [rows[p] EXCEPT !.badge = Tab!Badge(list[p])] \in Tab!Shown
        /\ [rows[p] EXCEPT !.badge = Tab!Badge(list[p])].badge = Tab!Badge(list[p])
        /\ [rows[p] EXCEPT !.badge = Tab!Badge(list[p])].toggle = rows[p].toggle
    BY <2>6, <2>7 DEF Tab!Shown
  <2>9. [rows[p] EXCEPT !.badge = Tab!Badge(list[p])] # None
    BY <2>8, ConstantsAssumption DEF Tab!PanelConstants
  <2> QED
    BY <1>2, <2>6, <2>8, <2>9 DEF Tab!Says
<1> QED
  BY <1>1, <1>2

LEMMA TabNext == TabInv /\ [Tab!Next]_(Tab!vars) => TabInv'
<1> SUFFICES ASSUME TabInv, [Tab!Next]_(Tab!vars) PROVE TabInv'
  OBVIOUS
<1>0. /\ Tab!TypeOK /\ AskTypes(calls) /\ editor \in Draft \cup {None}
      /\ view = "list" => rows \in [Plugins -> Tab!Shown \cup {None}]
      /\ server \in List /\ plugins \in List /\ open \in Tab!Open
      /\ DrilledAway /\ Tab!RowsShowList
      /\ \A a \in answers : a.list \in List
  BY DEF TabInv, TabTypes, Tab!TypeOK, List, Entry
<1>00. None \in Tab!Open
  BY DEF Tab!Open
<1> USE DEF Tab!dom
<1>1. CASE UNCHANGED Tab!vars
  BY <1>0, <1>1, AskKeeps DEF Tab!vars, AskTypes
<1>2. CASE Tab!Mount
  <2>1. /\ open' = open /\ Tab!Render(plugins, open, calls \cup {Tab!Call("load", None, 0)})
        /\ UNCHANGED <<server, answers, plugins>>
    BY <1>2 DEF Tab!Mount, Tab!Load
  <2>2. AskTypes(calls \cup {Tab!Call("load", None, 0)})
    BY <1>0 DEF AskTypes, Tab!Call
  <2> QED
    BY <1>0, <2>1, <2>2, RenderKeeps
<1>3. CASE Tab!Unmount
  BY <1>0, <1>3, AskKeeps DEF Tab!Unmount, AskTypes
<1>4. CASE Tab!Poll
  <2>1. /\ calls' = calls \cup {Tab!Call("poll", None, 0)}
        /\ UNCHANGED <<server, answers, plugins, open, rows, view, editor, logTimer>>
    BY <1>4 DEF Tab!Poll
  <2>2. AskTypes(calls')
    BY <1>0, <2>1 DEF AskTypes, Tab!Call
  <2> QED
    BY <1>0, <2>1, <2>2, AskKeeps
<1>5. CASE Tab!LogTick
  <2>1. /\ logTimer # None /\ calls' = calls \cup {Tab!Call("logs", logTimer, 0)}
        /\ UNCHANGED <<server, answers, plugins, open, rows, view, editor, logTimer>>
    BY <1>5 DEF Tab!LogTick
  <2>2. AskTypes(calls')
    BY <1>0, <2>1 DEF AskTypes, Tab!Call, Tab!TypeOK
  <2> QED
    BY <1>0, <2>1, <2>2, AskKeeps
<1>6. CASE Tab!User
  <2>0. UNCHANGED <<server, answers, mounted, plugins, err>>
    BY <1>6 DEF Tab!User
  <2>1. ASSUME NEW op, NEW id \in Plugins, NEW v \in 0 .. 1, Tab!Ask(op, id, v) PROVE TabInv'
    <3>1. /\ calls' = calls \cup {Tab!Call(op, id, v)}
          /\ UNCHANGED <<open, rows, view, editor, logs, logTimer>>
      BY <2>1 DEF Tab!Ask
    <3>2. AskTypes(calls')
      BY <1>0, <3>1 DEF AskTypes, Tab!Call
    <3> QED
      BY <1>0, <2>0, <3>1, <3>2, AskKeeps
  <2>2. CASE Tab!Type
    <3>1. /\ editor # None /\ editor' = [editor EXCEPT !.draft = 1 - @]
          /\ UNCHANGED <<calls, open, rows, view, logTimer>>
      BY <2>2 DEF Tab!Type
    <3>2. editor' \in Draft /\ editor'.id = editor.id
      BY <1>0, <3>1 DEF Draft
    <3> QED
      BY <1>0, <2>0, <3>1, <3>2, AskKeeps DEF AskTypes
  <2>3. CASE Tab!SaveGrants \/ Tab!SaveConfig
    <3>1. editor.id \in Plugins /\ editor.draft \in 0 .. 1
      BY <1>0, <2>3 DEF Tab!SaveGrants, Tab!SaveConfig, Draft
    <3> QED
      BY <2>1, <2>3, <3>1 DEF Tab!SaveGrants, Tab!SaveConfig
  <2>4. CASE Tab!Cancel
    <3>1. open' = None /\ Tab!Render(plugins', open', calls)
      BY <2>0, <2>4 DEF Tab!Cancel
    <3> QED
      BY <1>0, <1>00, <2>0, <3>1, RenderKeeps
  <2>5. CASE Tab!Back
    <3>1. /\ open' = None /\ view' = "list" /\ rows' = Tab!Drawn(plugins) /\ editor' = None
          /\ calls' = calls /\ logTimer' \in {None, logTimer}
      BY <2>5 DEF Tab!Back
    <3>2. rows' \in [Plugins -> Tab!Shown \cup {None}] /\ \A p \in Plugins : Tab!Says(rows'[p], plugins[p])
      BY <1>0, <3>1, DrawnSays
    <3> QED
      BY <1>0, <1>00, <2>0, <3>1, <3>2 DEF TabInv, TabTypes, Tab!TypeOK, DrilledAway, Tab!RowsShowList,
         AskTypes, List, Entry
  <2>6. ASSUME NEW p \in Plugins, Tab!Toggle(p) \/ Tab!Remove(p) \/ Tab!Install(p) PROVE TabInv'
    BY <2>1, <2>6 DEF Tab!Toggle, Tab!Remove, Tab!Install
  <2>7. ASSUME NEW p \in Plugins, NEW m \in {"grants", "config", "logs", "connections"}, Tab!Drill(p, m)
        PROVE  TabInv'
    <3>1. /\ open' = (IF open = [id |-> p, mode |-> m] THEN None ELSE [id |-> p, mode |-> m])
          /\ Tab!Render(plugins', open', calls)
      BY <2>0, <2>7 DEF Tab!Drill
    <3>2. open' \in Tab!Open
      BY <3>1 DEF Tab!Open
    <3> QED
      BY <1>0, <2>0, <3>1, <3>2, RenderKeeps
  <2> QED
    BY <1>6, <2>2, <2>3, <2>4, <2>5, <2>6, <2>7 DEF Tab!User
<1>7. ASSUME NEW c \in calls, NEW d \in BOOLEAN, NEW ok \in BOOLEAN, Tab!Serve(c, d, ok) PROVE TabInv'
  <2>1. /\ calls' = calls \ {c}
        /\ server' = server \/ Tab!Apply(c)
        /\ answers' = answers \cup {[op |-> c.op, id |-> c.id, ok |-> ok,
                                     list |-> IF c.op \in {"load", "poll"} /\ ok THEN server ELSE Tab!Nobody]}
        /\ UNCHANGED <<plugins, open, rows, view, editor, logTimer>>
    BY <1>7 DEF Tab!Serve
  <2>2. AskTypes(calls') /\ c.id \in Plugins \cup {None} /\ c.v \in 0 .. 1
    BY <1>0, <2>1 DEF AskTypes
  <2>3. Tab!Nobody \in List /\ Tab!Fresh \in Tab!Rec
    BY DEF Tab!Nobody, List, Entry, Tab!Fresh, Tab!Rec
  <2>4. \A a \in answers' : a.list \in List
    BY <1>0, <2>1, <2>3
  <2>5. server' \in List
    <3> DEFINE r == IF c.id = None THEN None ELSE server[c.id]
    <3>1. r # None => c.id \in Plugins /\ r \in Tab!Rec
      BY <1>0, <2>2 DEF List, Entry
    <3>2. r # None => /\ [r EXCEPT !.on = c.op = "enable"] \in Tab!Rec
                      /\ [r EXCEPT !.grants = c.v] \in Tab!Rec /\ [r EXCEPT !.config = c.v] \in Tab!Rec
      BY <2>2, <3>1 DEF Tab!Rec
    <3>3. \A e \in Entry : [server EXCEPT ![c.id] = e] \in List
      BY <1>0 DEF List
    <3>4. None \in Entry /\ Tab!Rec \subseteq Entry
      BY DEF Entry
    <3>5. CASE Tab!Apply(c)
      <4>1. server' = server \/ \E e \in Entry : server' = [server EXCEPT ![c.id] = e]
        BY <2>3, <3>2, <3>4, <3>5 DEF Tab!Apply, Tab!Put
      <4> QED
        BY <1>0, <3>3, <4>1
    <3> QED
      BY <1>0, <2>1, <3>5
  <2> QED
    BY <1>0, <2>1, <2>2, <2>4, <2>5, AskKeeps
<1>8. ASSUME NEW a \in answers, Tab!Answer(a) PROVE TabInv'
  <2>1. answers' = answers \ {a} /\ server' = server /\ a.list \in List
    BY <1>0, <1>8 DEF Tab!Answer
  <2>2. \A b \in answers' : b.list \in List
    BY <1>0, <2>1
  <2>3. AskTypes(calls \cup {Tab!Call("load", None, 0)})
    BY <1>0 DEF AskTypes, Tab!Call
  <2>4. ASSUME NEW o \in Tab!Open, plugins' = plugins, Tab!Load(calls, o) PROVE TabInv'
    <3>1. open' = o /\ Tab!Render(plugins', open', calls \cup {Tab!Call("load", None, 0)})
      BY <2>4 DEF Tab!Load
    <3> QED
      BY <1>0, <2>1, <2>2, <2>3, <2>4, <3>1, RenderKeeps
  <2>5. ASSUME plugins' = plugins, Tab!Failed PROVE TabInv'
    <3>1. open' = open /\ Tab!Render(plugins', open', calls)
      BY <2>5 DEF Tab!Failed
    <3> QED
      BY <1>0, <2>1, <2>2, <2>5, <3>1, RenderKeeps
  <2>6. CASE Tab!Loaded(a)
    <3>1. /\ plugins' \in List /\ open' = open /\ Tab!Render(plugins', open', calls)
      BY <1>0, <2>1, <2>6 DEF Tab!Loaded
    <3> QED
      BY <1>0, <2>1, <2>2, <3>1, RenderKeeps
  <2>7. CASE Tab!Polled(a)
    <3>1. open' = open
      BY <2>7 DEF Tab!Polled
    <3>2. CASE UNCHANGED <<plugins, calls, rows, view, editor, logs, logTimer>>
      BY <1>0, <2>1, <2>2, <3>1, <3>2, AskKeeps DEF AskTypes
    <3>3. CASE plugins' = a.list /\ Tab!OnStream(a.list, calls)
      <4>1. CASE open # None /\ open.mode = "connections"
        <5>1. calls' = calls /\ UNCHANGED <<rows, view, editor, logs, logTimer>> /\ plugins' \in List
          BY <2>1, <3>3, <4>1 DEF Tab!OnStream
        <5> QED
          BY <1>0, <2>1, <2>2, <3>1, <4>1, <5>1 DEF TabInv, TabTypes, Tab!TypeOK, DrilledAway,
             Tab!RowsShowList, List, Entry, AskTypes
      <4>2. CASE open = None /\ Tab!StructureSig(a.list) = Tab!StructureSig(plugins)
        <5>1. /\ rows' = Tab!Patched(a.list) /\ calls' = calls /\ plugins' = a.list
              /\ UNCHANGED <<view, editor, logs, logTimer>>
          BY <3>3, <4>2 DEF Tab!OnStream
        <5>2. view = "list" => /\ rows' \in [Plugins -> Tab!Shown \cup {None}]
                               /\ \A p \in Plugins : Tab!Says(rows'[p], plugins'[p])
          BY <1>0, <2>1, <4>2, <5>1, PatchShows DEF Tab!RowsShowList
        <5>3. editor = None
          BY <1>0, <4>2 DEF Tab!RowsShowList
        <5> QED
          BY <1>0, <2>1, <2>2, <3>1, <4>2, <5>1, <5>2, <5>3 DEF TabInv, TabTypes, Tab!TypeOK,
             DrilledAway, Tab!RowsShowList, List, Entry, AskTypes
      <4>3. CASE Tab!Render(a.list, open, calls)
        BY <1>0, <2>1, <2>2, <3>1, <3>3, <4>3, RenderKeeps
      <4> QED
        BY <3>3, <4>1, <4>2, <4>3 DEF Tab!OnStream
    <3> QED
      BY <2>7, <3>2, <3>3 DEF Tab!Polled
  <2>8. CASE Tab!Logged(a)
    BY <1>0, <2>1, <2>2, <2>8, AskKeeps DEF Tab!Logged, AskTypes
  <2>9. CASE Tab!Acted(a) \/ Tab!Saved(a) \/ Tab!Installed(a)
    BY <1>0, <1>00, <2>4, <2>5, <2>9 DEF Tab!Acted, Tab!Saved, Tab!Installed
  <2> QED
    BY <1>8, <2>6, <2>7, <2>8, <2>9 DEF Tab!Answer
<1>9. ASSUME NEW p \in Plugins, Tab!Other(p) PROVE TabInv'
  <2>1. PICK e \in Entry : server' = [server EXCEPT ![p] = e]
    BY <1>9 DEF Tab!Other, Tab!Put, Entry
  <2>2. server' \in List
    BY <1>0, <2>1 DEF List
  <2> QED
    BY <1>0, <1>9, <2>2, AskKeeps DEF Tab!Other, AskTypes
<1> QED
  BY <1>1, <1>2, <1>3, <1>4, <1>5, <1>6, <1>7, <1>8, <1>9 DEF Tab!Next

LEMMA TabSafe == TabInv => Tab!TypeOK /\ Tab!RowsShowList
BY DEF TabInv, TabTypes

-----------------------------------------------------------------------------
(* The Connections tab.                                                    *)

Listing == [Conns!Rows -> Conns!Conn \cup {None}]
Request(c) ==
  /\ c.op \in {"create", "save", "pause"} => c.rec \in Conns!Conn
  /\ c.op = "remove" => c.id # Plug
  /\ c.op = "psave" => c.rec.host \in Conns!Values
  /\ c.op \in {"penable", "ppause"} => c.rec.on \in BOOLEAN
ConnsTypes ==
  /\ Conns!TypeOK /\ server[Plug] # None
  /\ \A c \in calls : Request(c)
  /\ \A a \in answers : a.list \in Listing

(* The requests and answers of a refresh, and whether a change that the    *)
(* server has applied still has its refresh to come.                       *)
OfRefresh(q) == q.op \in {"list", "plugins"}
Owed == \/ \E a \in answers : a.ok /\ a.op \notin {"list", "plugins", "tick", "poll"}
        \/ \E c \in calls : c.op = "penable"

(* Two records of a connection that differ at most in its status.          *)
Same(x, y) == (x = None <=> y = None) /\ (x # None => x.host = y.host /\ x.on = y.on)
Agrees(list, rs) == \A r \in rs : Same(list[r], server[r])

(* How far a refresh or a poll has come, it knows what the server has.     *)
Told ==
  /\ \A a \in answers : a.op = "list" => Agrees(a.list, Ids)
  /\ \A c \in calls : c.op = "plugins" => Agrees(conns, Ids)
  /\ \A a \in answers : a.op = "plugins" => Agrees(conns, Ids) /\ Agrees(a.list, {Plug})
  /\ \A a \in answers : a.op = "poll" => Agrees(a.list, {Plug})
  /\ mounted /\ ~Conns!Refreshing =>
       Agrees(conns, Conns!Rows) /\ (editing = None => rows = Conns!Drawn(conns))
Fresh == ~crossed /\ ~Owed => Told

ConnsInv == ConnsTypes /\ Conns!SnifferIsOwn /\ Fresh

LEMMA ConnsInit == Conns!Init => ConnsInv
<1> SUFFICES ASSUME Conns!Init PROVE ConnsInv
  OBVIOUS
<1> USE ConstantsAssumption DEF Conns!Init, Conns!ConnsConstants, Conns!Empty
<1>1. /\ [host |-> Blank, on |-> FALSE, st |-> "connected"] \in Conns!Conn
      /\ [host |-> 0, on |-> TRUE, st |-> "connected"] \in Conns!Conn
  BY DEF Conns!Conn, Conns!Values
<1>2. Plug \in Conns!Rows /\ None \notin Conns!Conn
  BY DEF Conns!Rows
<1>3. server \in Listing /\ server[Plug] # None
  BY <1>1, <1>2 DEF Listing
<1>4. ConnsTypes
  BY <1>3 DEF ConnsTypes, Conns!TypeOK, Listing
<1> QED
  BY <1>4 DEF ConnsInv, Conns!SnifferIsOwn, Fresh, Told

LEMMA ConnsSafe == ConnsInv => Conns!TypeOK /\ Conns!ListIsServer /\ Conns!SnifferIsOwn
<1> SUFFICES ASSUME ConnsInv, mounted, calls = {}, answers = {}, ~crossed PROVE Conns!ListIsServer
  BY DEF ConnsInv, ConnsTypes, Conns!ListIsServer
<1>1. ~Owed /\ ~Conns!Refreshing
  BY DEF Owed, Conns!Refreshing
<1>2. Agrees(conns, Conns!Rows) /\ (editing = None => rows = Conns!Drawn(conns))
  BY <1>1 DEF ConnsInv, Fresh, Told
<1> QED
  BY <1>2 DEF Conns!ListIsServer, Agrees, Same

Form == /\ editing \in Conns!Rows \cup {None, "new"} /\ kind \in {"tcp", "plugin"}
        /\ draft \in Conns!Values \cup {None}

(* A rendered form has fields of the record it edits.                      *)
LEMMA FormTypes ==
  ASSUME NEW list \in Listing, NEW e \in Conns!Rows \cup {None, "new"}, NEW k \in {"tcp", "plugin"},
         Conns!Render(list, e, k)
  PROVE  Form'
<1>1. \A r \in Conns!Rows : Conns!Host(list, r) \in Conns!Values
  BY DEF Conns!Host, Listing, Conns!Conn, Conns!Values
<1>2. Plug \in Conns!Rows /\ Blank \in Conns!Values
  BY DEF Conns!Rows, Conns!Values
<1>3. Conns!Fields(list, e, k) \in Conns!Values \cup {None}
  BY <1>1, <1>2 DEF Conns!Fields
<1> QED
  BY <1>3 DEF Conns!Render, Form

(* What the server makes of a request.                                     *)
LEMMA ChangedTypes ==
  ASSUME ConnsTypes, NEW c \in calls
  PROVE  Conns!Changed(c) \in Listing /\ Conns!Changed(c)[Plug] # None
<1> USE ConstantsAssumption DEF Conns!ConnsConstants
<1>1. server \in Listing /\ server[Plug] # None /\ Plug \in Conns!Rows /\ Request(c) /\ None \notin Conns!Conn
  BY DEF ConnsTypes, Conns!TypeOK, Listing, Conns!Rows
<1>2. server[Plug] \in Conns!Conn
  BY <1>1 DEF Listing
<1>3. CASE c.op \in {"create", "save", "pause"}
  <2>1. Conns!Changed(c) = [server EXCEPT ![c.id] = c.rec] /\ c.rec \in Conns!Conn
    BY <1>1, <1>3 DEF Conns!Changed, Request
  <2> QED
    BY <1>1, <2>1 DEF Listing
<1>4. CASE c.op = "remove"
  <2>1. Conns!Changed(c) = [server EXCEPT ![c.id] = None] /\ c.id # Plug
    BY <1>1, <1>4 DEF Conns!Changed, Request
  <2> QED
    BY <1>1, <2>1 DEF Listing
<1>5. CASE c.op = "psave"
  <2>1. Conns!Changed(c) = [server EXCEPT ![Plug].host = c.rec.host] /\ c.rec.host \in Conns!Values
    BY <1>1, <1>5 DEF Conns!Changed, Request
  <2>2. [server[Plug] EXCEPT !.host = c.rec.host] \in Conns!Conn
    BY <1>2, <2>1 DEF Conns!Conn
  <2> QED
    BY <1>1, <2>1, <2>2 DEF Listing
<1>6. CASE c.op \in {"penable", "ppause"}
  <2>1. Conns!Changed(c) = [server EXCEPT ![Plug].on = c.rec.on] /\ c.rec.on \in BOOLEAN
    BY <1>1, <1>6 DEF Conns!Changed, Request
  <2>2. [server[Plug] EXCEPT !.on = c.rec.on] \in Conns!Conn
    BY <1>2, <2>1 DEF Conns!Conn
  <2> QED
    BY <1>1, <2>1, <2>2 DEF Listing
<1>7. CASE c.op \notin {"create", "save", "pause", "remove", "psave", "penable", "ppause"}
  BY <1>1, <1>7 DEF Conns!Changed
<1> QED
  BY <1>3, <1>4, <1>5, <1>6, <1>7

LEMMA ConnsTypesNext == ConnsTypes /\ [Conns!Next]_(Conns!vars) => ConnsTypes'
<1> SUFFICES ASSUME ConnsTypes, [Conns!Next]_(Conns!vars) PROVE ConnsTypes'
  OBVIOUS
<1> USE ConstantsAssumption DEF Conns!ConnsConstants, Conns!ui, Conns!raw
<1>0. /\ server \in Listing /\ server[Plug] # None /\ conns \in Listing /\ Form
      /\ sniff \in Conns!Rows \cup {None} /\ mounted \in BOOLEAN /\ crossed \in BOOLEAN
      /\ \A c \in calls : Request(c)
      /\ \A a \in answers : a.list \in Listing
      /\ Plug \in Conns!Rows /\ Ids \subseteq Conns!Rows /\ None \notin Conns!Conn
  BY DEF ConnsTypes, Conns!TypeOK, Listing, Form, Conns!Rows
<1>00. ASSUME server' \in Listing, server'[Plug] # None, conns' \in Listing, Form',
              sniff' \in Conns!Rows \cup {None}, mounted' \in BOOLEAN, crossed' \in BOOLEAN,
              \A c \in calls' : Request(c), \A a \in answers' : a.list \in Listing
       PROVE  ConnsTypes'
  BY <1>00 DEF ConnsTypes, Conns!TypeOK, Listing, Form
<1>01. /\ \A who : \A op \in {"list", "plugins", "tick", "poll"} : Request(Conns!Call(op, who, None))
       /\ \A who : Request(Conns!Asked(who))
  BY DEF Request, Conns!Call, Conns!Asked
<1>1. CASE UNCHANGED Conns!vars
  BY <1>0, <1>00, <1>1 DEF Conns!vars, Form
<1>2. ASSUME NEW b \in BOOLEAN, Conns!Mount(b) PROVE ConnsTypes'
  <2>1. (\A c \in calls' : Request(c)) /\ crossed' \in BOOLEAN /\ Form'
    BY <1>0, <1>01, <1>2 DEF Conns!Mount, Conns!Refresh, Conns!Refreshing, Conns!Pushing, Form
  <2> QED
    BY <1>0, <1>00, <1>01, <1>2, <2>1 DEF Conns!Mount
<1>3. CASE Conns!Unmount
  BY <1>0, <1>00, <1>3 DEF Conns!Unmount, Conns!StopSniff, Form
<1>4. CASE Conns!Tick
  BY <1>0, <1>00, <1>01, <1>4 DEF Conns!Tick, Form
<1>5. CASE Conns!Poll
  BY <1>0, <1>00, <1>01, <1>5 DEF Conns!Poll, Form
<1>6. CASE Conns!User
  <2>1. UNCHANGED <<server, answers, mounted, conns, crossed>>
    BY <1>6 DEF Conns!User
  <2>2. ASSUME NEW q, Request(q), calls' = calls \cup {q}, Form',
               sniff' \in Conns!Rows \cup {None}
        PROVE  ConnsTypes'
    BY <1>0, <1>00, <2>1, <2>2
  <2>3. ASSUME NEW e \in Conns!Rows \cup {None, "new"}, NEW k \in {"tcp", "plugin"},
               Conns!Render(conns, e, k), calls' = calls, sniff' \in Conns!Rows \cup {None}
        PROVE  ConnsTypes'
    BY <1>0, <1>00, <2>1, <2>3, FormTypes
  <2>4. \A r \in Conns!Rows : Conns!Quiet(r) => sniff' \in Conns!Rows \cup {None}
    BY <1>0 DEF Conns!Quiet, Conns!StopSniff
  <2>5. CASE Conns!Add \/ Conns!Kind \/ Conns!Cancel \/ \E r \in Conns!Rows : Conns!Edit(r)
    BY <1>0, <2>3, <2>5 DEF Conns!Add, Conns!Kind, Conns!Cancel, Conns!Edit, Conns!StopSniff, Form
  <2>6. CASE Conns!Type
    BY <1>0, <1>00, <2>1, <2>6 DEF Conns!Type, Form, Conns!Values
  <2>7. CASE Conns!Save
    <3>1. /\ draft \in Conns!Values /\ UNCHANGED <<sniff, rows, editing, kind, draft>>
          /\ editing \in Conns!Rows \cup {None, "new"}
      BY <1>0, <2>7 DEF Conns!Save, Form
    <3>2. \A on \in BOOLEAN : Conns!FormValues(on) \in Conns!Conn
      BY <3>1 DEF Conns!FormValues, Conns!Conn
    <3>3. \A i : \A on \in BOOLEAN :
            /\ Request(Conns!Call("create", i, Conns!FormValues(on)))
            /\ Request(Conns!Call("save", i, Conns!FormValues(on)))
      BY <3>2 DEF Request, Conns!Call
    <3>4. Request(Conns!Call("psave", Plug, Conns!PluginFormValues))
      BY <3>1 DEF Request, Conns!Call, Conns!PluginFormValues
    <3>5. PICK q : Request(q) /\ calls' = calls \cup {q}
      BY <2>7, <3>3, <3>4 DEF Conns!Save, Conns!Ask
    <3> QED
      BY <1>0, <2>2, <3>1, <3>5 DEF Form
  <2>8. CASE Conns!TogglePluginPause
    <3>1. conns[Plug] \in Conns!Conn
      BY <1>0, <2>8 DEF Conns!TogglePluginPause, Listing
    <3>2. Request(Conns!Call("ppause", Plug, [on |-> ~conns[Plug].on]))
      BY <3>1 DEF Request, Conns!Call, Conns!Conn
    <3> QED
      BY <1>0, <2>2, <2>4, <2>8, <3>2 DEF Conns!TogglePluginPause, Conns!Ask, Form
  <2>9. ASSUME NEW r \in Conns!Rows, Conns!TogglePause(r) PROVE ConnsTypes'
    <3>1. conns[r] \in Conns!Conn
      BY <1>0, <2>9 DEF Conns!TogglePause, Listing
    <3>2. [conns[r] EXCEPT !.on = ~@] \in Conns!Conn
      BY <3>1 DEF Conns!Conn
    <3>3. Request(Conns!Call("pause", r, [conns[r] EXCEPT !.on = ~@]))
      BY <3>2 DEF Request, Conns!Call
    <3> QED
      BY <1>0, <2>2, <2>4, <2>9, <3>3 DEF Conns!TogglePause, Conns!Ask, Form
  <2>10. ASSUME NEW r \in Conns!Rows, Conns!Delete(r) PROVE ConnsTypes'
    <3>1. Request(Conns!Call("remove", r, None))
      BY <2>10 DEF Request, Conns!Call, Conns!Delete
    <3> QED
      BY <1>0, <2>2, <2>4, <2>10, <3>1 DEF Conns!Delete, Conns!Ask, Form
  <2>11. ASSUME NEW r \in Conns!Rows, Conns!ToggleSniff(r) PROVE ConnsTypes'
    BY <1>0, <1>00, <2>1, <2>11 DEF Conns!ToggleSniff, Conns!StopSniff, Conns!OpenSniff, Conns!Still, Form
  <2> QED
    BY <1>6, <2>5, <2>6, <2>7, <2>8, <2>9, <2>10, <2>11 DEF Conns!User
<1>7. CASE Conns!OnSniffLine
  BY <1>0, <1>00, <1>7 DEF Conns!OnSniffLine, Form
<1>8. ASSUME NEW c \in calls, NEW d \in BOOLEAN, NEW ok \in BOOLEAN, Conns!Serve(c, d, ok) PROVE ConnsTypes'
  <2>1. server' \in Listing /\ server'[Plug] # None
    BY <1>0, <1>8, ChangedTypes DEF Conns!Serve
  <2>2. Conns!Empty \in Listing
    BY DEF Conns!Empty, Listing
  <2>3. \A a \in answers' : a.list \in Listing
    BY <1>0, <1>8, <2>2 DEF Conns!Serve
  <2> QED
    BY <1>0, <1>00, <1>8, <2>1, <2>3 DEF Conns!Serve, Form
<1>9. ASSUME NEW a \in answers, Conns!Answer(a) PROVE ConnsTypes'
  <2>1. UNCHANGED <<server, mounted, sniff>> /\ a.list \in Listing
    BY <1>0, <1>9 DEF Conns!Answer
  <2>2. CASE Conns!Listed(a)
    BY <1>0, <1>00, <1>01, <2>1, <2>2 DEF Conns!Listed, Conns!Part, Conns!After, Listing, Form
  <2>3. CASE Conns!Rendered(a)
    <3>1. conns' \in Listing
      BY <1>0, <2>1, <2>3 DEF Conns!Rendered, Conns!Part, Listing
    <3>2. Form'
      BY <1>0, <2>3, <3>1, FormTypes DEF Conns!Rendered, Form
    <3> QED
      BY <1>0, <1>00, <2>1, <2>3, <3>1, <3>2 DEF Conns!Rendered, Conns!After
  <2>7. CASE Conns!Polled(a)
    <3>1. conns' \in Listing
      BY <1>0, <2>1, <2>7 DEF Conns!Polled, Conns!PluginsPush, Conns!Part, Listing
    <3>2. Form'
      BY <1>0, <2>7, <3>1, FormTypes DEF Conns!Polled, Conns!PluginsPush, Form
    <3> QED
      BY <1>0, <1>00, <2>1, <2>7, <3>1, <3>2 DEF Conns!Polled, Conns!After
  <2>4. CASE Conns!Ticked(a)
    <3>1. conns' \in Listing
      <4>1. ASSUME NEW r \in Conns!Rows, conns[r] # None, a.list[r] # None
            PROVE  [conns[r] EXCEPT !.st = a.list[r].st] \in Conns!Conn
        <5>1. conns[r] \in Conns!Conn /\ a.list[r] \in Conns!Conn
          BY <1>0, <2>1, <4>1 DEF Listing
        <5> QED
          BY <5>1 DEF Conns!Conn
      <4> QED
        BY <1>0, <2>4, <4>1 DEF Conns!Ticked, Listing
    <3> QED
      BY <1>0, <1>00, <2>1, <2>4, <3>1 DEF Conns!Ticked, Conns!After, Form
  <2>5. CASE Conns!Enabling(a)
    <3>1. Request(Conns!Call("penable", Plug, [on |-> TRUE]))
      BY DEF Request, Conns!Call
    <3> QED
      BY <1>0, <1>00, <2>1, <2>5, <3>1 DEF Conns!Enabling, Conns!After, Form
  <2>6. CASE Conns!Done(a)
    <3>1. Request(Conns!Asked(None))
      BY DEF Request, Conns!Call, Conns!Asked
    <3>2. calls' = calls \/ calls' = calls \cup {Conns!Asked(None)}
      BY <2>6 DEF Conns!Done, Conns!Refresh
    <3>3. \A c \in calls' : Request(c)
      BY <1>0, <3>1, <3>2
    <3>4. crossed' \in BOOLEAN
      BY <1>0, <2>6 DEF Conns!Done, Conns!Refresh, Conns!Refreshing, Conns!Pushing
    <3>5. Form' /\ conns' = conns /\ answers' = answers \ {a}
      BY <1>0, <2>6 DEF Conns!Done, Form
    <3> QED
      BY <1>0, <1>00, <2>1, <3>3, <3>4, <3>5
  <2> QED
    BY <1>9, <2>2, <2>3, <2>4, <2>5, <2>6, <2>7 DEF Conns!Answer
<1>10. ASSUME NEW r \in Conns!Rows, Conns!Other(r) PROVE ConnsTypes'
  <2>1. server' \in Listing /\ server'[Plug] # None
    <3>1. CASE r # Plug /\ server' = [server EXCEPT ![r] = None]
      BY <1>0, <3>1 DEF Listing
    <3>2. ASSUME NEW s \in {"connected", "error"}, NEW on \in BOOLEAN, server[r] # None,
                 server' = [server EXCEPT ![r].st = s, ![r].on = on]
          PROVE  server' \in Listing /\ server'[Plug] # None
      <4>1. server[r] \in Conns!Conn
        BY <1>0, <3>2 DEF Listing
      <4>2. [[server[r] EXCEPT !.st = s] EXCEPT !.on = on] \in Conns!Conn
        BY <3>2, <4>1 DEF Conns!Conn
      <4>3. server' = [server EXCEPT ![r] = [[server[r] EXCEPT !.st = s] EXCEPT !.on = on]]
        BY <1>0, <3>2 DEF Listing
      <4> QED
        BY <1>0, <4>2, <4>3 DEF Listing
    <3> QED
      BY <1>10, <3>1, <3>2 DEF Conns!Other
  <2> QED
    BY <1>0, <1>00, <1>10, <2>1 DEF Conns!Other, Form
<1> QED
  BY <1>1, <1>2, <1>3, <1>4, <1>5, <1>6, <1>7, <1>8, <1>9, <1>10 DEF Conns!Next

(* One stream at most: a sniffer opens where the last one stopped.         *)
LEMMA SniffNext ==
  ConnsTypes /\ Conns!SnifferIsOwn /\ [Conns!Next]_(Conns!vars) => Conns!SnifferIsOwn'
<1> SUFFICES ASSUME ConnsTypes, Conns!SnifferIsOwn, [Conns!Next]_(Conns!vars) PROVE Conns!SnifferIsOwn'
  OBVIOUS
<1> USE ConstantsAssumption DEF Conns!ConnsConstants, Conns!raw, Conns!SnifferIsOwn
<1>1. /\ UNCHANGED <<sniff, streams, lines>> /\ (mounted' = mounted \/ mounted')
         => Conns!SnifferIsOwn'
  OBVIOUS
<1>2. Conns!StopSniff => Conns!SnifferIsOwn'
  BY DEF Conns!StopSniff
<1>3. \A r \in Conns!Rows : Conns!Quiet(r) /\ mounted' = mounted => Conns!SnifferIsOwn'
  BY <1>1, <1>2 DEF Conns!Quiet
<1>4. CASE UNCHANGED Conns!vars
  BY <1>1, <1>4 DEF Conns!vars
<1>5. CASE \/ (\E b \in BOOLEAN : Conns!Mount(b)) \/ Conns!Tick \/ Conns!Poll
           \/ \E c \in calls, d, ok \in BOOLEAN : Conns!Serve(c, d, ok)
           \/ \E a \in answers : Conns!Answer(a)
           \/ \E r \in Conns!Rows : Conns!Other(r)
  BY <1>1, <1>5 DEF Conns!Mount, Conns!Tick, Conns!Poll, Conns!Serve, Conns!Answer, Conns!Other
<1>6. CASE Conns!Unmount
  BY <1>2, <1>6 DEF Conns!Unmount
<1>7. CASE Conns!User
  <2>1. mounted /\ mounted' = mounted
    BY <1>7 DEF Conns!User
  <2>2. ASSUME NEW r \in Conns!Rows, Conns!ToggleSniff(r) PROVE Conns!SnifferIsOwn'
    <3>1. r # None
      OBVIOUS
    <3> QED
      BY <1>2, <2>1, <2>2, <3>1 DEF Conns!ToggleSniff, Conns!OpenSniff
  <2>3. CASE Conns!Add \/ Conns!Kind \/ Conns!Cancel \/ Conns!Type \/ Conns!Save
             \/ \E r \in Conns!Rows : Conns!Edit(r)
    BY <1>1, <1>2, <2>1, <2>3 DEF Conns!Add, Conns!Kind, Conns!Cancel, Conns!Type, Conns!Save, Conns!Edit
  <2>4. CASE Conns!TogglePluginPause \/ \E r \in Conns!Rows : Conns!TogglePause(r) \/ Conns!Delete(r)
    <3>1. Plug \in Conns!Rows
      BY DEF Conns!Rows
    <3> QED
      BY <1>3, <2>1, <2>4, <3>1 DEF Conns!TogglePluginPause, Conns!TogglePause, Conns!Delete
  <2> QED
    BY <1>7, <2>2, <2>3, <2>4 DEF Conns!User
<1>8. CASE Conns!OnSniffLine
  BY <1>8 DEF Conns!OnSniffLine
<1> QED
  BY <1>4, <1>5, <1>6, <1>7, <1>8 DEF Conns!Next

(* What is drawn follows a badge that a poll patches.                      *)
LEMMA PatchDraws ==
  ASSUME NEW list \in Listing, NEW new \in Listing, NEW r \in Conns!Rows, NEW was,
         Same(new[r], list[r]),
         was = IF r = Plug THEN Conns!PluginRow(list[r]) ELSE Conns!Row(list[r])
  PROVE  (IF was # None /\ new[r] # None THEN [was EXCEPT !.st = new[r].st] ELSE was)
           = IF r = Plug THEN Conns!PluginRow(new[r]) ELSE Conns!Row(new[r])
<1> USE ConstantsAssumption DEF Conns!ConnsConstants
<1>1. CASE list[r] = None
  BY <1>1 DEF Same, Conns!PluginRow, Conns!Row
<1>2. CASE list[r] # None
  <2>1. list[r] \in Conns!Conn /\ new[r] \in Conns!Conn /\ new[r] # None
    BY <1>2 DEF Listing, Same
  <2>2. new[r].host = list[r].host /\ new[r].on = list[r].on
    BY <1>2 DEF Same
  <2>3. Conns!Row(list[r]) = [on |-> list[r].on, st |-> list[r].st]
    BY <1>2 DEF Conns!Row
  <2>4. Conns!Row(new[r]) = [on |-> list[r].on, st |-> new[r].st]
    BY <2>1, <2>2 DEF Conns!Row
  <2>5. Conns!Row(list[r]) \in Conns!Shown /\ None \notin Conns!Shown
    BY <2>1, <2>3 DEF Conns!Shown, Conns!Conn
  <2>6. [Conns!Row(list[r]) EXCEPT !.st = new[r].st] = Conns!Row(new[r])
    BY <2>3, <2>4
  <2> QED
    BY <1>2, <2>1, <2>2, <2>5, <2>6 DEF Conns!PluginRow
<1> QED
  BY <1>1, <1>2

(* What the panel knows outlasts a step that leaves the server and the     *)
(* panel's list alone, and adds no request or answer of a refresh.         *)
LEMMA FreshKept ==
  ASSUME Fresh, crossed' = crossed, UNCHANGED <<server, conns>>,
         \A c \in calls' : OfRefresh(c) => c \in calls,
         \A a \in answers' : OfRefresh(a) \/ a.op = "poll" => a \in answers,
         Conns!Refreshing' = Conns!Refreshing, ~Owed' => ~Owed,
         mounted' => mounted,
         mounted /\ editing' = None /\ (editing = None => rows = Conns!Drawn(conns)) => rows' = Conns!Drawn(conns)
  PROVE  Fresh'
<1>1. SUFFICES ASSUME ~Owed', Told PROVE Told'
  BY DEF Fresh
<1>2. \A c \in calls' : c.op = "plugins" => c \in calls
  BY DEF OfRefresh
<1>3. \A a \in answers' : a.op \in {"list", "plugins", "poll"} => a \in answers
  BY DEF OfRefresh
<1> QED
  BY <1>1, <1>2, <1>3 DEF Told, Agrees

(* A refresh that nothing else is under way for starts over.               *)
LEMMA FreshStarted ==
  ASSUME NEW whose, whose # {}, answers' \subseteq answers, Conns!Refresh(whose)
  PROVE  Fresh'
<1>1. /\ calls' = calls \cup {Conns!Asked(who) : who \in whose}
      /\ crossed' = (Conns!Refreshing \/ Conns!Pushing)
  BY DEF Conns!Refresh
<1>2. SUFFICES ASSUME ~Conns!Refreshing, ~Conns!Pushing PROVE Told'
  BY <1>1 DEF Fresh
<1>3. \A who : Conns!Asked(who).op = "list"
  BY DEF Conns!Asked, Conns!Call
<1>4. /\ \A c \in calls' : c.op # "plugins"
      /\ \A a \in answers' : a.op \notin {"list", "plugins", "poll"}
  BY <1>1, <1>2, <1>3 DEF Conns!Refreshing, Conns!Pushing
<1>5. Conns!Refreshing'
  BY <1>1, <1>3 DEF Conns!Refreshing
<1> QED
  BY <1>4, <1>5 DEF Told

LEMMA RefreshNext == ConnsTypes /\ Fresh /\ [Conns!Next]_(Conns!vars) => Fresh'
<1> SUFFICES ASSUME ConnsTypes, Fresh, [Conns!Next]_(Conns!vars) PROVE Fresh'
  OBVIOUS
<1> USE ConstantsAssumption DEF Conns!ConnsConstants, Conns!ui, Conns!raw
<1>0. /\ server \in Listing /\ server[Plug] # None /\ conns \in Listing /\ Form
      /\ \A a \in answers : a.list \in Listing
      /\ Conns!Rows = Ids \cup {Plug} /\ Plug \notin Ids
  BY DEF ConnsTypes, Conns!TypeOK, Listing, Form, Conns!Rows
<1>1. CASE UNCHANGED Conns!vars
  <2>1. Conns!Refreshing' = Conns!Refreshing /\ (~Owed' => ~Owed)
    BY <1>1 DEF Conns!vars, Conns!Refreshing, Owed
  <2> QED
    BY <1>1, <2>1, FreshKept DEF Conns!vars
<1>2. ASSUME NEW b \in BOOLEAN, Conns!Mount(b) PROVE Fresh'
  BY <1>2, FreshStarted, Zenon DEF Conns!Mount
<1>3. CASE Conns!Unmount
  <2>1. Conns!Refreshing' = Conns!Refreshing /\ (~Owed' => ~Owed)
    BY <1>3 DEF Conns!Unmount, Conns!Refreshing, Owed
  <2> QED
    BY <1>3, <2>1, FreshKept DEF Conns!Unmount
<1>4. ASSUME NEW q, ~OfRefresh(q), UNCHANGED <<server, answers, mounted, conns, crossed>>,
             calls' = calls \cup {q},
             editing' = None /\ (editing = None => rows = Conns!Drawn(conns)) => rows' = Conns!Drawn(conns)
      PROVE  Fresh'
  <2>1. Conns!Refreshing' = Conns!Refreshing /\ (~Owed' => ~Owed)
    BY <1>4 DEF Conns!Refreshing, Owed, OfRefresh
  <2> QED
    BY <1>4, <2>1, FreshKept
<1>5. ASSUME UNCHANGED <<server, calls, answers, mounted, conns, crossed>>,
             editing' = None /\ (editing = None => rows = Conns!Drawn(conns)) => rows' = Conns!Drawn(conns)
      PROVE  Fresh'
  <2>1. Conns!Refreshing' = Conns!Refreshing /\ (~Owed' => ~Owed)
    BY <1>5 DEF Conns!Refreshing, Owed
  <2> QED
    BY <1>5, <2>1, FreshKept
<1>6. CASE Conns!Tick
  <2>1. ~OfRefresh(Conns!Call("tick", None, None))
    BY DEF OfRefresh, Conns!Call
  <2> QED
    BY <1>4, <1>6, <2>1 DEF Conns!Tick
<1>7. CASE Conns!Poll
  <2>1. ~OfRefresh(Conns!Call("poll", None, None))
    BY DEF OfRefresh, Conns!Call
  <2> QED
    BY <1>4, <1>7, <2>1 DEF Conns!Poll
<1>8. CASE Conns!User
  <2>1. mounted /\ UNCHANGED <<server, answers, mounted, conns, crossed>>
    BY <1>8 DEF Conns!User
  <2>2. \A id, rec : \A op \in {"pause", "ppause", "remove", "psave", "create", "save"} :
          ~OfRefresh(Conns!Call(op, id, rec))
    BY DEF OfRefresh, Conns!Call
  <2>3. CASE \/ Conns!Add \/ Conns!Kind \/ Conns!Cancel \/ Conns!Type
             \/ \E r \in Conns!Rows : Conns!Edit(r) \/ Conns!ToggleSniff(r)
    BY <1>5, <2>1, <2>3 DEF Conns!Add, Conns!Kind, Conns!Cancel, Conns!Type, Conns!Edit, Conns!ToggleSniff,
       Conns!Render, Conns!Still
  <2>4. CASE \/ Conns!Save \/ Conns!TogglePluginPause
             \/ \E r \in Conns!Rows : Conns!TogglePause(r) \/ Conns!Delete(r)
    <3>1. UNCHANGED <<rows, editing>>
      BY <2>4 DEF Conns!Save, Conns!TogglePluginPause, Conns!TogglePause, Conns!Delete
    <3>2. PICK q : ~OfRefresh(q) /\ calls' = calls \cup {q}
      BY <2>2, <2>4 DEF Conns!Save, Conns!TogglePluginPause, Conns!TogglePause, Conns!Delete, Conns!Ask
    <3> QED
      BY <1>4, <2>1, <3>1, <3>2
  <2> QED
    BY <1>8, <2>3, <2>4 DEF Conns!User
<1>9. CASE Conns!OnSniffLine
  BY <1>5, <1>9 DEF Conns!OnSniffLine
<1>10. ASSUME NEW c \in calls, NEW d \in BOOLEAN, NEW ok \in BOOLEAN, Conns!Serve(c, d, ok) PROVE Fresh'
  <2> DEFINE new == [op |-> c.op, id |-> c.id, ok |-> ok,
                     list |-> IF c.op \in {"list", "plugins", "tick", "poll"} /\ ok THEN server ELSE Conns!Empty]
  <2>1. /\ calls' = calls \ {c} /\ answers' = answers \cup {new} /\ crossed' = (crossed \/ ~ok)
        /\ UNCHANGED <<mounted, conns, rows, editing>>
    BY <1>10 DEF Conns!Serve
  <2>2. new.op = c.op /\ new.ok = ok
    OBVIOUS
  <2>3. c.op \in {"list", "plugins", "tick", "poll"} /\ ok => server' = server /\ new.list = server
    BY <1>10 DEF Conns!Serve, Conns!Changed
  <2> HIDE DEF new
  <2>4. SUFFICES ASSUME ok, ~crossed, ~Owed' PROVE Told'
    BY <2>1 DEF Fresh
  <2>5. c.op \in {"list", "plugins", "tick", "poll"}
    BY <2>1, <2>2, <2>4 DEF Owed
  <2>6. ~Owed
    BY <2>1, <2>4, <2>5 DEF Owed
  <2>7. Told /\ server' = server /\ new.list = server
    BY <2>3, <2>4, <2>5, <2>6 DEF Fresh
  <2>8. Conns!Refreshing' = Conns!Refreshing
    BY <2>1, <2>2 DEF Conns!Refreshing
  <2>9. \A rs : Agrees(server, rs)
    BY DEF Agrees, Same
  <2>10. c.op = "plugins" => Agrees(conns, Ids)
    BY <2>7 DEF Told
  <2> QED
    BY <2>1, <2>2, <2>7, <2>8, <2>9, <2>10 DEF Told, Agrees
<1>11. ASSUME NEW a \in answers, Conns!Answer(a) PROVE Fresh'
  <2>1. UNCHANGED <<server, mounted>> /\ a.list \in Listing
    BY <1>0, <1>11 DEF Conns!Answer
  <2>2. CASE Conns!Listed(a)
    <3>1. /\ a.op = "list" /\ conns' = Conns!Part(a.list, Ids) /\ answers' = answers \ {a}
          /\ calls' = calls \cup {Conns!Call("plugins", a.id, None)} /\ crossed' = crossed
      BY <2>2 DEF Conns!Listed, Conns!After
    <3>2. Conns!Call("plugins", a.id, None).op = "plugins"
      BY DEF Conns!Call
    <3>3. SUFFICES ASSUME ~crossed, ~Owed' PROVE Told'
      BY <3>1 DEF Fresh
    <3>4. Told
      BY <3>1, <3>2, <3>3 DEF Owed, Fresh
    <3>5. Agrees(a.list, Ids) /\ \A r \in Ids : conns'[r] = a.list[r]
      BY <1>0, <3>1, <3>4 DEF Told, Conns!Part
    <3>6. Agrees(conns, Ids)'
      BY <2>1, <3>5 DEF Agrees
    <3>7. Conns!Refreshing'
      BY <3>1, <3>2 DEF Conns!Refreshing
    <3>8. /\ \A b \in answers' : b.op = "list" => Agrees(b.list, Ids)'
          /\ \A b \in answers' : b.op \in {"plugins", "poll"} => Agrees(b.list, {Plug})'
      BY <2>1, <3>1, <3>4 DEF Told, Agrees
    <3> QED
      BY <3>6, <3>7, <3>8 DEF Told
  <2>3. CASE Conns!Rendered(a)
    <3>1. /\ a.op = "plugins" /\ conns' = Conns!Part(a.list, {Plug}) /\ answers' = answers \ {a}
          /\ calls' = calls /\ crossed' = crossed /\ rows' = Conns!Drawn(conns')
      BY <2>3 DEF Conns!Rendered, Conns!After, Conns!Render
    <3>2. SUFFICES ASSUME ~crossed, ~Owed' PROVE Told'
      BY <3>1 DEF Fresh
    <3>3. Told
      BY <3>1, <3>2 DEF Owed, Fresh
    <3>4. Agrees(conns, Ids) /\ Agrees(a.list, {Plug})
      BY <3>1, <3>3 DEF Told
    <3>5. \A r \in Conns!Rows : conns'[r] = IF r = Plug THEN a.list[r] ELSE conns[r]
      BY <1>0, <3>1 DEF Conns!Part
    <3>6. Agrees(conns, Ids)' /\ Agrees(conns, Conns!Rows)'
      BY <1>0, <2>1, <3>4, <3>5 DEF Agrees, Conns!Rows
    <3>7. /\ \A b \in answers' : b.op = "list" => Agrees(b.list, Ids)'
          /\ \A b \in answers' : b.op \in {"plugins", "poll"} => Agrees(b.list, {Plug})'
      BY <2>1, <3>1, <3>3 DEF Told, Agrees
    <3> QED
      BY <3>1, <3>6, <3>7 DEF Told
  <2>7. CASE Conns!Polled(a) /\ UNCHANGED <<conns, rows, editing>>
    <3>1. a.op = "poll" /\ answers' = answers \ {a} /\ calls' = calls /\ crossed' = crossed
      BY <2>7 DEF Conns!Polled, Conns!After
    <3>2. Conns!Refreshing' = Conns!Refreshing /\ (~Owed' => ~Owed)
      BY <3>1 DEF Conns!Refreshing, Owed
    <3> QED
      BY <2>1, <2>7, <3>1, <3>2, FreshKept
  <2>8. CASE Conns!Polled(a) /\ Conns!PluginsPush(a.list)
    <3>1. /\ a.op = "poll" /\ answers' = answers \ {a} /\ calls' = calls /\ crossed' = crossed
          /\ conns' = Conns!Part(a.list, {Plug})
      BY <2>8 DEF Conns!Polled, Conns!After, Conns!PluginsPush
    <3>2. SUFFICES ASSUME ~crossed, ~Owed' PROVE Told'
      BY <3>1 DEF Fresh
    <3>3. Told /\ Conns!Refreshing' = Conns!Refreshing
      BY <3>1, <3>2 DEF Owed, Fresh, Conns!Refreshing
    <3>4. conns' \in Listing /\ conns'[Plug] = a.list[Plug] /\ \A r \in Ids : conns'[r] = conns[r]
      BY <1>0, <2>1, <3>1 DEF Conns!Part, Listing
    <3>5. Same(a.list[Plug], server[Plug])
      BY <3>1, <3>3 DEF Told, Agrees
    <3>6. Agrees(conns, Ids) => Agrees(conns, Ids)' /\ Agrees(conns, Conns!Rows)'
      BY <1>0, <2>1, <3>4, <3>5 DEF Agrees, Conns!Rows
    <3>7. ASSUME Agrees(conns, Conns!Rows), editing = None => rows = Conns!Drawn(conns), editing' = None
          PROVE  rows' = Conns!Drawn(conns')
      <4>1. CASE editing = None /\ (conns[Plug] = None \/ conns[Plug].on # a.list[Plug].on)
        BY <2>8, <3>7, <4>1 DEF Conns!PluginsPush, Conns!Render
      <4>2. CASE ~(editing = None /\ (conns[Plug] = None \/ conns[Plug].on # a.list[Plug].on))
        <5>1. rows' = [rows EXCEPT ![Plug] = Conns!PatchStatus(Plug, conns'[Plug])] /\ editing = None
          BY <2>8, <3>7, <4>2 DEF Conns!PluginsPush, Conns!PatchPluginStatus
        <5>2. rows = Conns!Drawn(conns) /\ Plug \in Conns!Rows
          BY <1>0, <3>7, <5>1
        <5>3. rows[Plug] = IF Plug = Plug THEN Conns!PluginRow(conns[Plug]) ELSE Conns!Row(conns[Plug])
          BY <5>2 DEF Conns!Drawn
        <5>4. Same(conns'[Plug], conns[Plug])
          BY <1>0, <3>4, <3>5, <3>7 DEF Agrees, Same
        <5>5. (IF rows[Plug] # None /\ conns'[Plug] # None
               THEN [rows[Plug] EXCEPT !.st = conns'[Plug].st] ELSE rows[Plug])
                = IF Plug = Plug THEN Conns!PluginRow(conns'[Plug]) ELSE Conns!Row(conns'[Plug])
          BY <1>0, <3>4, <5>2, <5>3, <5>4, PatchDraws
        <5>6. Conns!PatchStatus(Plug, conns'[Plug]) = Conns!PluginRow(conns'[Plug])
          BY <5>5 DEF Conns!PatchStatus
        <5> QED
          BY <1>0, <3>4, <5>1, <5>2, <5>6 DEF Conns!Drawn
      <4> QED
        BY <4>1, <4>2
    <3>8. /\ \A b \in answers' : b.op = "list" => Agrees(b.list, Ids)'
          /\ \A b \in answers' : b.op \in {"plugins", "poll"} => Agrees(b.list, {Plug})'
      BY <2>1, <3>1, <3>3 DEF Told, Agrees
    <3>9. /\ \A c \in calls' : c.op = "plugins" => Agrees(conns, Ids)'
          /\ \A b \in answers' : b.op = "plugins" => Agrees(conns, Ids)'
      BY <3>1, <3>3, <3>6 DEF Told
    <3>10. Agrees(conns, Conns!Rows) => Agrees(conns, Ids)
      BY <1>0 DEF Agrees
    <3>11. mounted' /\ ~Conns!Refreshing' =>
             Agrees(conns, Conns!Rows)' /\ (editing' = None => rows' = Conns!Drawn(conns'))
      BY <2>1, <3>3, <3>6, <3>7, <3>10 DEF Told
    <3> QED
      BY <3>8, <3>9, <3>11 DEF Told
  <2>4. CASE Conns!Ticked(a)
    <3>1. /\ a.op = "tick" /\ answers' = answers \ {a} /\ calls' = calls /\ crossed' = crossed
          /\ editing' = editing
          /\ conns' = [r \in Conns!Rows |-> IF r \in Ids /\ conns[r] # None /\ a.list[r] # None
                                             THEN [conns[r] EXCEPT !.st = a.list[r].st] ELSE conns[r]]
          /\ rows' = [r \in Conns!Rows |-> IF r \in Ids THEN Conns!PatchStatus(r, conns'[r]) ELSE rows[r]]
      BY <2>4 DEF Conns!Ticked, Conns!After
    <3>2. conns' \in Listing /\ \A r \in Conns!Rows : Same(conns'[r], conns[r])
      <4>1. ASSUME NEW r \in Conns!Rows
            PROVE  conns'[r] \in Conns!Conn \cup {None} /\ Same(conns'[r], conns[r])
        <5>1. CASE r \in Ids /\ conns[r] # None /\ a.list[r] # None
          <6>1. conns[r] \in Conns!Conn /\ a.list[r] \in Conns!Conn
            BY <1>0, <2>1, <5>1 DEF Listing
          <6>2. conns'[r] = [conns[r] EXCEPT !.st = a.list[r].st]
            BY <3>1, <5>1
          <6>3. conns'[r] \in Conns!Conn
            BY <6>1, <6>2 DEF Conns!Conn
          <6>4. conns'[r].host = conns[r].host /\ conns'[r].on = conns[r].on
            BY <6>1, <6>2 DEF Conns!Conn
          <6> QED
            BY <5>1, <6>3, <6>4 DEF Same
        <5>2. CASE ~(r \in Ids /\ conns[r] # None /\ a.list[r] # None)
          <6>1. conns'[r] = conns[r]
            BY <3>1, <5>2
          <6> QED
            BY <1>0, <6>1 DEF Same, Listing
        <5> QED
          BY <5>1, <5>2
      <4>2. conns' = [r \in Conns!Rows |-> conns'[r]]
        BY <3>1
      <4> QED
        BY <4>1, <4>2 DEF Listing
    <3>4. Conns!Refreshing' = Conns!Refreshing /\ (~Owed' => ~Owed)
      BY <3>1 DEF Conns!Refreshing, Owed
    <3>5. \A rs \in SUBSET Conns!Rows : Agrees(conns, rs) => Agrees(conns, rs)'
      <4>1. \A r \in Conns!Rows : Same(conns[r], server[r]) => Same(conns'[r], server[r])
        BY <3>2 DEF Same
      <4> QED
        BY <2>1, <4>1 DEF Agrees
    <3>6. ASSUME rows = Conns!Drawn(conns) PROVE rows' = Conns!Drawn(conns')
      <4>1. ASSUME NEW r \in Conns!Rows
            PROVE  rows'[r] = IF r = Plug THEN Conns!PluginRow(conns'[r]) ELSE Conns!Row(conns'[r])
        <5>1. rows[r] = IF r = Plug THEN Conns!PluginRow(conns[r]) ELSE Conns!Row(conns[r])
          BY <3>6 DEF Conns!Drawn
        <5>2. CASE r \in Ids
          <6>1. rows'[r] = IF rows[r] # None /\ conns'[r] # None
                           THEN [rows[r] EXCEPT !.st = conns'[r].st] ELSE rows[r]
            BY <3>1, <5>2 DEF Conns!PatchStatus
          <6> QED
            BY <1>0, <3>2, <5>1, <6>1, PatchDraws
        <5>3. CASE r \notin Ids
          BY <3>1, <5>1, <5>3
        <5> QED
          BY <5>2, <5>3
      <4> QED
        BY <3>1, <4>1 DEF Conns!Drawn
    <3>7. ASSUME Told PROVE Told'
      <4>1. /\ \A b \in answers' : b.op = "list" => Agrees(b.list, Ids)'
            /\ \A b \in answers' : b.op \in {"plugins", "poll"} => Agrees(b.list, {Plug})'
        BY <2>1, <3>1, <3>7 DEF Told, Agrees
      <4>2. /\ \A c \in calls' : c.op = "plugins" => Agrees(conns, Ids)'
            /\ \A b \in answers' : b.op = "plugins" => Agrees(conns, Ids)'
        BY <1>0, <3>1, <3>5, <3>7 DEF Told
      <4>3. mounted' /\ ~Conns!Refreshing' =>
              Agrees(conns, Conns!Rows)' /\ (editing' = None => rows' = Conns!Drawn(conns'))
        BY <2>1, <3>1, <3>4, <3>5, <3>6, <3>7 DEF Told
      <4> QED
        BY <4>1, <4>2, <4>3 DEF Told
    <3> QED
      BY <3>1, <3>4, <3>7 DEF Fresh
  <2>5. CASE Conns!Enabling(a)
    <3>1. /\ calls' = calls \cup {Conns!Call("penable", Plug, [on |-> TRUE])}
          /\ answers' = answers \ {a} /\ crossed' = crossed
      BY <2>5 DEF Conns!Enabling, Conns!After
    <3>2. Conns!Call("penable", Plug, [on |-> TRUE]).op = "penable"
      BY DEF Conns!Call
    <3>3. Owed' /\ ~OfRefresh(Conns!Call("penable", Plug, [on |-> TRUE]))
      BY <3>1, <3>2 DEF Owed, OfRefresh
    <3> QED
      BY <3>3 DEF Fresh
  <2>6. CASE Conns!Done(a)
    <3>1. a.op \notin {"list", "plugins"} /\ answers' = answers \ {a} /\ UNCHANGED <<conns, rows>>
      BY <2>6 DEF Conns!Done
    <3>2. CASE a.ok
      <4>1. Conns!Refresh({None})
        BY <2>6, <3>2 DEF Conns!Done
      <4> QED
        BY <3>1, <4>1, FreshStarted
    <3>3. CASE ~a.ok
      <4>1. UNCHANGED <<calls, crossed, editing>>
        BY <2>6, <3>3 DEF Conns!Done
      <4>2. Conns!Refreshing' = Conns!Refreshing /\ (~Owed' => ~Owed)
        BY <3>1, <3>3, <4>1 DEF Conns!Refreshing, Owed
      <4> QED
        BY <2>1, <3>1, <4>1, <4>2, FreshKept
    <3> QED
      BY <3>2, <3>3
  <2> QED
    <3>1. CASE Conns!Polled(a)
      BY <2>7, <2>8, <3>1 DEF Conns!Polled
    <3> QED
      BY <1>11, <2>2, <2>3, <2>4, <2>5, <2>6, <3>1 DEF Conns!Answer
<1>12. ASSUME NEW r \in Conns!Rows, Conns!Other(r) PROVE Fresh'
  BY <1>12 DEF Conns!Other, Fresh
<1> QED
  BY <1>1, <1>2, <1>3, <1>6, <1>7, <1>8, <1>9, <1>10, <1>11, <1>12 DEF Conns!Next

LEMMA ConnsNext == ConnsInv /\ [Conns!Next]_(Conns!vars) => ConnsInv'
BY ConnsTypesNext, SniffNext, RefreshNext DEF ConnsInv

-----------------------------------------------------------------------------
(* The four together: each component keeps the invariant of its own.       *)
TabsInv ==
  /\ part = "host" => HostInv
  /\ part = "tab" => TabInv
  /\ part = "conns" => ConnsInv
  /\ part = "settings" => SettingsInv

LEMMA TabsInit == Init => TabsInv
BY HostInit, TabInit, ConnsInit, SettingsInit DEF Init, TabsInv

LEMMA TabsNext == TabsInv /\ [Next]_vars => TabsInv'
<1> SUFFICES ASSUME TabsInv, [Next]_vars PROVE TabsInv'
  OBVIOUS
<1>1. part' = part
  BY DEF Next, vars
<1>2. CASE part = "host"
  <2>1. [Host!Next]_(Host!vars)
    BY <1>2 DEF Next, vars, Host!vars, Host!lists, Host!host, Host!draw, Host!ghosts
  <2> QED
    BY <1>1, <1>2, <2>1, HostNext DEF TabsInv
<1>3. CASE part = "tab"
  <2>1. [Tab!Next]_(Tab!vars)
    BY <1>3 DEF Next, vars, Tab!vars, Tab!dom
  <2> QED
    BY <1>1, <1>3, <2>1, TabNext DEF TabsInv
<1>4. CASE part = "conns"
  <2>1. [Conns!Next]_(Conns!vars)
    BY <1>4 DEF Next, vars, Conns!vars, Conns!ui, Conns!raw
  <2> QED
    BY <1>1, <1>4, <2>1, ConnsNext DEF TabsInv
<1>5. CASE part = "settings"
  <2>1. [Settings!Next]_(Settings!vars)
    BY <1>5 DEF Next, vars, Settings!vars, Settings!screen
  <2> QED
    BY <1>1, <1>5, <2>1, SettingsNext DEF TabsInv
<1> QED
  BY <1>1, <1>2, <1>3, <1>4, <1>5 DEF TabsInv

LEMMA TabsSafe == TabsInv => TypeOK /\ PluginsShown /\ SettingsAgree
BY HostSafe, TabSafe, ConnsSafe, SettingsSafe DEF TabsInv, TypeOK, PluginsShown, SettingsAgree

LEMMA TabsHold == Spec => []TabsInv
<1> HIDE DEF TabsInv, Init, Next, vars
<1> QED
  BY TabsInit, TabsNext, PTL DEF Spec

(* The state of each component is typed, for any plugins, connections and  *)
(* screens: plugin-host.mjs, plugins-panel.mjs, connections-panel.mjs and  *)
(* settings.mjs.                                                           *)
THEOREM TabsAreTyped == Spec => []TypeOK
<1> HIDE DEF TabsInv, TypeOK
<1> QED
  BY TabsHold, TabsSafe, PTL

(* Controllers and layers are those of the last list the host has and      *)
(* drawn as the Layers control says; the Plugins tab's rows show the list  *)
(* it holds; at rest, after a refresh that nothing crossed, the            *)
(* Connections tab lists what the server has; and the sniffer's stream is  *)
(* of the row whose lines are shown.                                       *)
THEOREM PluginsStayShown == Spec => []PluginsShown
<1> HIDE DEF TabsInv, PluginsShown
<1> QED
  BY TabsHold, TabsSafe, PTL

(* Every control of a screen shows the same settings, and a screen whose   *)
(* posts no other screen's come between has its changes stored once they   *)
(* are answered: the settings modules' apply, persist and saveSettings.    *)
THEOREM SettingsStayAgreed == Spec => []SettingsAgree
<1> HIDE DEF TabsInv, SettingsAgree
<1> QED
  BY TabsHold, TabsSafe, PTL

=============================================================================
