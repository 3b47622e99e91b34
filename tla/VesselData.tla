----------------------------- MODULE VesselData ------------------------------
(***************************************************************************)
(* The two stores connections and plugins write, and the two streams every *)
(* screen reads: own-ship readings (nmea/state.go, publish.go), AIS        *)
(* targets (nmea/ais.go), and the SSE loops of server/vessel.go.           *)
(*                                                                         *)
(* A reading or a target is named by its last writer, which is the code's  *)
(* provenance for a plugin and nothing the code keeps for a connection.    *)
(* A stream compares VesselState.Updated and AISStore.ver with what it     *)
(* saw last; each write makes both new, so the model keeps whether they    *)
(* are the ones seen.                                                      *)
(***************************************************************************)
EXTENDS Naturals

CONSTANTS Plugins,     \* plugins that hold vessel.write
          AISWriters,  \* those that hold ais.write too
          Connection,  \* the built-in runners, one writer as nothing tells them apart
          Paths,       \* paths of readings
          Targets,     \* MMSIs
          None

VesselConstants ==
  /\ Connection \notin Plugins /\ None \notin Plugins \cup {Connection}
  /\ AISWriters \subseteq Plugins

Writers == Plugins \cup {Connection}
Readings == [Paths -> Writers \cup {None}]
Contacts == [Targets -> Writers \cup {None}]

VARIABLES
  reading, prov,     \* Store.state and Store.prov
  target, source,    \* AISStore.targets and AISStore.sources
  old,               \* targets not heard from for the ttl
  on, clearing,      \* plugins that run, and requests that go on to clear their readings
  seen,              \* lastUpd of the vessel stream is still Updated
  shown,             \* what its client shows
  tick,              \* the AIS stream: "version", "updated", "targets" or "own"
  verSeen, updSeen,  \* its lastVer and lastUpd are still the current ones
  changed, listed,   \* its locals: has one changed, and the targets it has copied
  shownTargets, shownOwn,   \* what its client shows
  faded              \* history: targets that expired since targets were last copied

vessel == <<reading, prov>>
ais == <<target, source, old>>
vesselStream == <<seen, shown>>
plugins == <<on, clearing>>
aisStream == <<tick, verSeen, updSeen, changed, listed, shownTargets, shownOwn>>
vars == <<vessel, ais, plugins, vesselStream, aisStream, faded>>

(* Two streams that have sent nothing yet: both are due.                   *)
Init ==
  /\ reading = [p \in Paths |-> None] /\ prov = reading
  /\ target = [m \in Targets |-> None] /\ source = target /\ old = {}
  /\ on = {} /\ clearing = {}
  /\ seen = FALSE /\ shown = reading
  /\ tick = "version" /\ verSeen = FALSE /\ updSeen = FALSE /\ changed = FALSE
  /\ listed = target /\ shownTargets = target /\ shownOwn = reading
  /\ faded = {}

-----------------------------------------------------------------------------
(* Own-ship readings.  Updated is new: neither stream has seen it.         *)
Touched == seen' = FALSE /\ updSeen' = FALSE
RestOfStreams == UNCHANGED <<shown, tick, verSeen, changed, listed, shownTargets, shownOwn>>

(* Store.Apply: a sentence of a connection sets some paths, or none.       *)
Sentence(S) ==
  /\ reading' = [p \in Paths |-> IF p \in S THEN Connection ELSE reading[p]]
  /\ Touched /\ RestOfStreams
  /\ UNCHANGED <<prov, ais, plugins, faded>>

(* PublishDeltas: the valid deltas of a batch.  Mutant: a path somebody    *)
(* has written is not attributed anew.                                     *)
FirstKeeps(S, w) == [p \in Paths |-> IF p \in S /\ reading[p] = None THEN w ELSE prov[p]]
Attribute(S, w) == [p \in Paths |-> IF p \in S THEN w ELSE prov[p]]
PublishDeltas(w, S) ==
  /\ w \in on /\ S # {}
  /\ reading' = [p \in Paths |-> IF p \in S THEN w ELSE reading[p]]
  /\ prov' = Attribute(S, w)
  /\ Touched /\ RestOfStreams
  /\ UNCHANGED <<ais, plugins, faded>>

(* servePluginItem enables a plugin, or disables or removes it.  That      *)
(* waits for its runner, and so for its last publication.                  *)
Enable(w) ==
  /\ w \notin on /\ on' = on \cup {w}
  /\ UNCHANGED <<clearing, vessel, ais, vesselStream, aisStream, faded>>

Disable(w) ==
  /\ w \in on /\ on' = on \ {w} /\ clearing' = clearing \cup {w}
  /\ UNCHANGED <<vessel, ais, vesselStream, aisStream, faded>>

(* The same request then clears its readings; one that a connection has    *)
(* renewed since goes too.                                                 *)
Attributed(w) == {p \in Paths : prov[p] = w}
TouchedIf(S) == IF S # {} THEN Touched ELSE UNCHANGED <<seen, updSeen>>
ClearSource(w) ==
  /\ w \in clearing /\ clearing' = clearing \ {w}
  /\ reading' = [p \in Paths |-> IF p \in Attributed(w) THEN None ELSE reading[p]]
  /\ prov' = [p \in Paths |-> IF p \in Attributed(w) THEN None ELSE prov[p]]
  /\ TouchedIf(Attributed(w)) /\ RestOfStreams
  /\ UNCHANGED <<on, ais, faded>>

-----------------------------------------------------------------------------
(* AIS targets.  ver is new: the AIS stream has not seen it.               *)
Bumped == verSeen' = FALSE
RestOfAIS == UNCHANGED <<tick, updSeen, changed, listed, shownTargets, shownOwn>>

Hear(m, w) ==
  /\ target' = [target EXCEPT ![m] = w] /\ old' = old \ {m} /\ faded' = faded \ {m}
  /\ Bumped /\ RestOfAIS
  /\ UNCHANGED <<vessel, plugins, vesselStream>>

(* AISStore.apply leaves sources alone; Upsert attributes the target.         *)
Message(m) == Hear(m, Connection) /\ UNCHANGED source
UpsertSource(m, w) == [source EXCEPT ![m] = w]
Upsert(m, w) ==
  /\ w \in on \cap AISWriters
  /\ Hear(m, w) /\ source' = UpsertSource(m, w)

(* EvictSource: the targets of a running plugin whose ais.write grant was  *)
(* revoked.                                                                *)
BumpedIf(S) == IF S # {} THEN Bumped ELSE UNCHANGED verSeen
EvictSource(w) ==
  LET S == {m \in Targets : source[m] = w}
  IN /\ w \in on
     /\ target' = [m \in Targets |-> IF m \in S THEN None ELSE target[m]]
     /\ source' = [m \in Targets |-> IF m \in S THEN None ELSE source[m]]
     /\ old' = old \ S /\ BumpedIf(S) /\ RestOfAIS
     /\ UNCHANGED <<vessel, plugins, vesselStream, faded>>

(* Time passes for a target nobody has heard from.                         *)
Expire(m) ==
  /\ target[m] # None /\ m \notin old
  /\ old' = old \cup {m} /\ faded' = faded \cup {m}
  /\ UNCHANGED <<vessel, target, source, plugins, vesselStream, aisStream>>

(* Snapshot leaves the expired targets out, and drops them.  ver stays.    *)
Live == [m \in Targets |-> IF m \in old THEN None ELSE target[m]]
Prune ==
  /\ target' = Live /\ old' = {}
  /\ source' = [m \in Targets |-> IF m \in old THEN None ELSE source[m]]

(* serveAIS: another client asks for the list once.                        *)
Poll ==
  /\ old # {} /\ Prune
  /\ UNCHANGED <<vessel, plugins, vesselStream, aisStream, faded>>

-----------------------------------------------------------------------------
(* serveVesselStream: one copy of the state, sent when Updated is new.     *)
VesselTick ==
  /\ ~seen
  /\ seen' = TRUE /\ shown' = reading
  /\ UNCHANGED <<vessel, ais, plugins, aisStream, faded>>

(* serveAISStream: the version, Updated, then the targets and own ship,    *)
(* each under its own lock.                                                *)
Version ==
  /\ tick = "version" /\ tick' = "updated"
  /\ changed' = ~verSeen /\ verSeen' = TRUE
  /\ UNCHANGED <<vessel, ais, plugins, vesselStream, updSeen, listed, shownTargets, shownOwn,
                 faded>>

Updated ==
  /\ tick = "updated"
  /\ tick' = IF changed \/ ~updSeen THEN "targets" ELSE "version"
  /\ changed' = FALSE /\ updSeen' = TRUE
  /\ UNCHANGED <<vessel, ais, plugins, vesselStream, verSeen, listed, shownTargets, shownOwn,
                 faded>>

(* aisDTOs copies the targets, then own ship, and the list is sent.        *)
(* Mutant: what is sent counts as the latest.                              *)
LatestOf(flag) == TRUE
AsRead(flag) == flag
Copy ==
  /\ tick = "targets" /\ tick' = "own"
  /\ listed' = Live /\ Prune /\ faded' = {}
  /\ UNCHANGED <<vessel, plugins, vesselStream, verSeen, updSeen, changed, shownTargets,
                 shownOwn>>

Send ==
  /\ tick = "own" /\ tick' = "version"
  /\ shownTargets' = listed /\ shownOwn' = reading
  /\ verSeen' = AsRead(verSeen) /\ updSeen' = AsRead(updSeen)
  /\ UNCHANGED <<vessel, ais, plugins, vesselStream, changed, listed, faded>>

-----------------------------------------------------------------------------
Write ==
  \/ \E S \in SUBSET Paths : Sentence(S) \/ \E w \in Plugins : PublishDeltas(w, S)
  \/ \E w \in Plugins : ClearSource(w) \/ EvictSource(w)
  \/ \E m \in Targets : Message(m) \/ \E w \in Plugins : Upsert(m, w)
Admin == \E w \in Plugins : Enable(w) \/ Disable(w)
Age == Poll \/ \E m \in Targets : Expire(m)
AISTick == Version \/ Updated \/ Copy \/ Send

Next == Write \/ Admin \/ Age \/ VesselTick \/ AISTick

Spec == Init /\ [][Next]_vars

(* The streams tick, for as long as their clients stay; a request that has *)
(* stopped a plugin goes on to clear its readings.                         *)
Fairness ==
  /\ WF_vars(VesselTick) /\ WF_vars(AISTick)
  /\ \A w \in Plugins : WF_vars(ClearSource(w))
LiveSpec == Spec /\ Fairness

-----------------------------------------------------------------------------
(* Properties.                                                             *)

TypeOK ==
  /\ reading \in Readings /\ prov \in [Paths -> Plugins \cup {None}]
  /\ target \in Contacts /\ source \in [Targets -> Plugins \cup {None}]
  /\ old \subseteq {m \in Targets : target[m] # None}
  /\ on \subseteq Plugins /\ clearing \subseteq Plugins
  /\ seen \in BOOLEAN /\ shown \in Readings
  /\ tick \in {"version", "updated", "targets", "own"} /\ verSeen \in BOOLEAN
  /\ updSeen \in BOOLEAN /\ changed \in BOOLEAN
  /\ listed \in Contacts /\ shownTargets \in Contacts /\ shownOwn \in Readings
  /\ faded \subseteq Targets

(* No phantom vessel: when a plugin has been turned off, nothing it wrote  *)
(* is left among the readings, whoever else wrote the same paths.          *)
NoPhantom == \A w \in Plugins, p \in Paths : w \notin on \cup clearing => reading[p] # w

(* What a plugin wrote last can be found by its name, so that revoking     *)
(* ais.write removes it.  No target is attributed that is not there.       *)
TargetsAreAttributed ==
  \A m \in Targets : /\ target[m] \in Plugins => source[m] = target[m]
                     /\ source[m] # None => target[m] # None

(* Once nobody writes any more, every screen comes to show the readings    *)
(* and the targets, cleared and evicted ones included, and the own-ship    *)
(* state the closest approach is computed from, though the AIS stream      *)
(* looks at the version, at Updated, at the targets and at own ship one    *)
(* after another.  Expired targets are excused.                            *)
Writes == Write /\ <<vessel, ais>>' # <<vessel, ais>>
CaughtUp ==
  /\ shown = reading /\ shownOwn = reading
  /\ \A m \in Targets \ faded : shownTargets[m] = Live[m]

=============================================================================
