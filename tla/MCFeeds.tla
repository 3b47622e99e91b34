------------------------------- MODULE MCFeeds --------------------------------
(* What the server is fed: the NMEA connections, the stores they and the      *)
(* plugins write with the streams that screens read, and the index of         *)
(* attachments.                                                               *)
EXTENDS Naturals, Sequences, FiniteSets

CONSTANTS Requests, Runners, Configs, Enabled, None, TapCap, MaxRequests, MaxRestarts, Plugins,
          AISWriters, Connection, Paths, Targets, Providers, Readers, MaxVersion, MaxChanges

VARIABLES part, \* the component this behaviour is one of; the variables of the others rest
          rec, born, known, cur, at, arg, target, pc, cfg, ctx, badge, tap, raced, asked,
          restarts, reading, prov, source, old, on, clearing, seen, shown, tick, verSeen,
          updSeen, changed, listed, shownTargets, shownOwn, faded, disk, writing, loaded,
          entries, found, unread, changes, late, tainted

Nmea == INSTANCE NmeaManager
Vessel == INSTANCE VesselData
Aux == INSTANCE AuxIndex

ASSUME ConstantsAssumption == Nmea!NmeaConstants /\ Vessel!VesselConstants /\ Aux!AuxConstants

vars == <<part, rec, born, known, cur, at, arg, target, pc, cfg, ctx, badge, tap, raced, asked,
           restarts, reading, prov, source, old, on, clearing, seen, shown, tick, verSeen,
           updSeen, changed, listed, shownTargets, shownOwn, faded, disk, writing, loaded,
           entries, found, unread, changes, late, tainted>>
NotNmea == <<reading, prov, source, old, on, clearing, seen, shown, tick, verSeen, updSeen,
             changed, listed, shownTargets, shownOwn, faded, disk, writing, loaded, entries,
             found, unread, changes, late, tainted>>
NotVessel == <<rec, born, known, cur, at, arg, pc, cfg, ctx, badge, tap, raced, asked, restarts,
               disk, writing, loaded, entries, found, unread, changes, late, tainted>>
NotAux == <<rec, born, known, cur, at, arg, target, cfg, ctx, badge, tap, raced, asked,
            restarts, reading, prov, source, old, on, clearing, seen, shown, tick, verSeen,
            updSeen, changed, listed, shownTargets, shownOwn, faded>>

Init ==
  \/ /\ part = "nmea" /\ Nmea!Init
     /\ reading = 0 /\ prov = 0 /\ source = 0 /\ old = 0 /\ on = 0 /\ clearing = 0 /\ seen = 0
     /\ shown = 0 /\ tick = 0 /\ verSeen = 0 /\ updSeen = 0 /\ changed = 0 /\ listed = 0
     /\ shownTargets = 0 /\ shownOwn = 0 /\ faded = 0 /\ disk = 0 /\ writing = 0 /\ loaded = 0
     /\ entries = 0 /\ found = 0 /\ unread = 0 /\ changes = 0 /\ late = 0 /\ tainted = 0
  \/ /\ part = "vessel" /\ Vessel!Init
     /\ rec = 0 /\ born = 0 /\ known = 0 /\ cur = 0 /\ at = 0 /\ arg = 0 /\ pc = 0 /\ cfg = 0
     /\ ctx = 0 /\ badge = 0 /\ tap = 0 /\ raced = 0 /\ asked = 0 /\ restarts = 0 /\ disk = 0
     /\ writing = 0 /\ loaded = 0 /\ entries = 0 /\ found = 0 /\ unread = 0 /\ changes = 0
     /\ late = 0 /\ tainted = 0
  \/ /\ part = "aux" /\ Aux!Init
     /\ rec = 0 /\ born = 0 /\ known = 0 /\ cur = 0 /\ at = 0 /\ arg = 0 /\ target = 0
     /\ cfg = 0 /\ ctx = 0 /\ badge = 0 /\ tap = 0 /\ raced = 0 /\ asked = 0 /\ restarts = 0
     /\ reading = 0 /\ prov = 0 /\ source = 0 /\ old = 0 /\ on = 0 /\ clearing = 0 /\ seen = 0
     /\ shown = 0 /\ tick = 0 /\ verSeen = 0 /\ updSeen = 0 /\ changed = 0 /\ listed = 0
     /\ shownTargets = 0 /\ shownOwn = 0 /\ faded = 0
Next ==
  \/ part = "nmea" /\ Nmea!Next /\ UNCHANGED <<part, NotNmea>>
  \/ part = "vessel" /\ Vessel!Next /\ UNCHANGED <<part, NotVessel>>
  \/ part = "aux" /\ Aux!Next /\ UNCHANGED <<part, NotAux>>
Spec == Init /\ [][Next]_vars

(* Each component under the fairness its own module states.                     *)
NmeaStep(A) == part = "nmea" /\ A /\ UNCHANGED <<part, NotNmea>>
VesselStep(A) == part = "vessel" /\ A /\ UNCHANGED <<part, NotVessel>>
Fairness ==
  /\ \A q \in Requests : WF_vars(NmeaStep(Nmea!Serve(q)))
  /\ \A r \in Runners : WF_vars(NmeaStep(Nmea!Connect(r) \/ Nmea!DialError(r)))
  /\ \A r \in Runners : WF_vars(NmeaStep(Nmea!Wake(r)))
  /\ \A r \in Runners : WF_vars(NmeaStep(Nmea!Line(r)))
  /\ \A r \in Runners : WF_vars(NmeaStep(ctx[r] /\ Nmea!Hangup(r)))
  /\ WF_vars(VesselStep(Vessel!VesselTick))
  /\ WF_vars(VesselStep(Vessel!AISTick))
  /\ \A w \in Plugins : WF_vars(VesselStep(Vessel!ClearSource(w)))
LiveSpec == Spec /\ Fairness
-----------------------------------------------------------------------------
(* The state of each component is typed.                                      *)
TypeOK ==
  /\ part = "nmea" => Nmea!TypeOK
  /\ part = "vessel" => Vessel!TypeOK
  /\ part = "aux" => Aux!TypeOK

(* With no request in flight the one runner is that of the record; the manager*)
(* holds no runner that is stopped, and an open connection shows as connected.*)
RunningIsConfigured == part = "nmea" => Nmea!RunningIsConfigured /\ Nmea!MapIsLive /\ Nmea!BadgeIsTrue

(* A plugin that was turned off has left no reading, and its targets are found*)
(* by its name; a loaded index is that of the cache directory.                *)
NothingIsStale ==
  /\ part = "vessel" => Vessel!NoPhantom /\ Vessel!TargetsAreAttributed
  /\ part = "aux" => Aux!LoadedIsCurrent

(* Requests complete, a connection that is lost is dialled again while it is  *)
(* configured, and once writes stop every screen shows the readings and the   *)
(* targets.                                                                   *)
FeedsCatchUp ==
  /\ \A q \in Requests : []<>(part = "nmea" => Nmea!Complete(q))
  /\ \A r \in Runners : (part = "nmea" /\ Nmea!Lost(r)) ~> (part = "nmea" => Nmea!Dials(r))
  /\ []<><<part = "vessel" /\ Vessel!Writes>>_vars \/ <>[](part = "vessel" => Vessel!CaughtUp)
=============================================================================
