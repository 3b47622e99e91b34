------------------------------ MODULE MCPlugins -------------------------------
(* A plugin on the server: its record and its runner, the session of one      *)
(* instance, and what the session holds: handles as grants change, and the    *)
(* storage file.                                                              *)
EXTENDS Naturals, Sequences, FiniteSets

CONSTANTS Requests, Runners, Versions, None, BreakerCrashes, MaxGrants, MaxEvents,
          PipeCap, MaxMisses, Dials, Setters, Keys, MaxChanges, MaxSaves

VARIABLES part, \* the component this behaviour is one of; the variables of the others rest
          rec, unpacked, cur, at, target, arg, run, readings, closed, excuse, stale, outdated,
          crossed, quiet, torn, events, plug, runtime, stdin, shut, cut, out, owed, chan,
          reader, held, runner, pinger, misses, stopper, ctx, grants, table, dial, conn,
          setter, lost, victims, session, orderly, targets, file, store, copy, acked, late,
          tardy, doubt, changes, saves

Manager == INSTANCE PluginManager
Session == INSTANCE PluginSession
Broker == INSTANCE PluginBroker

ASSUME ConstantsAssumption ==
  Manager!PluginConstants /\ Session!SessionConstants /\ Broker!BrokerConstants

OfManager == <<rec, unpacked, cur, target, arg, run, readings, excuse, stale, outdated,
               crossed, quiet, torn, events>>
OfSession == <<plug, runtime, stdin, shut, cut, out, owed, chan, held, runner, pinger, misses,
               stopper, ctx>>
OfBroker == <<grants, table, dial, conn, setter, lost, victims, session, orderly, targets,
              file, store, copy, acked, late, tardy, doubt, changes, saves>>
vars == <<part, OfManager, at, closed, OfSession, reader, OfBroker>>
NotManager == <<OfSession, reader, OfBroker>>
NotSession == <<OfManager, OfBroker>>
NotBroker == <<OfManager, at, closed, OfSession>>

NoManager ==
  /\ rec = 0 /\ unpacked = 0 /\ cur = 0 /\ target = 0 /\ arg = 0 /\ run = 0 /\ readings = 0
  /\ excuse = 0 /\ stale = 0 /\ outdated = 0 /\ crossed = 0 /\ quiet = 0 /\ torn = 0
  /\ events = 0
NoSession ==
  /\ plug = 0 /\ runtime = 0 /\ stdin = 0 /\ shut = 0 /\ cut = 0 /\ out = 0 /\ owed = 0
  /\ chan = 0 /\ held = 0 /\ runner = 0 /\ pinger = 0 /\ misses = 0 /\ stopper = 0 /\ ctx = 0
NoBroker ==
  /\ grants = 0 /\ table = 0 /\ dial = 0 /\ conn = 0 /\ setter = 0 /\ lost = 0 /\ victims = 0
  /\ session = 0 /\ orderly = 0 /\ targets = 0 /\ file = 0 /\ store = 0 /\ copy = 0
  /\ acked = 0 /\ late = 0 /\ tardy = 0 /\ doubt = 0 /\ changes = 0 /\ saves = 0

Init ==
  \/ part = "manager" /\ Manager!Init /\ NoSession /\ reader = 0 /\ NoBroker
  \/ part = "session" /\ Session!Init /\ NoManager /\ NoBroker
  \/ /\ part = "broker" /\ Broker!Init /\ NoManager /\ at = 0 /\ closed = 0 /\ NoSession
     /\ changes = MaxChanges \/ saves = MaxSaves  \* grants that change, or storage
Next ==
  \/ part = "manager" /\ Manager!Next /\ UNCHANGED <<part, NotManager>>
  \/ part = "session" /\ Session!Next /\ UNCHANGED <<part, NotSession>>
  \/ part = "broker" /\ Broker!Next /\ UNCHANGED <<part, NotBroker>>
Spec == Init /\ [][Next]_vars

(* Each component under the fairness its own module states.                     *)
ManagerStep(A) == part = "manager" /\ A /\ UNCHANGED <<part, NotManager>>
SessionStep(A) == part = "session" /\ A /\ UNCHANGED <<part, NotSession>>
Fairness ==
  /\ \A q \in Requests : WF_vars(ManagerStep(Manager!Serve(q)))
  /\ \A r \in Runners : WF_vars(ManagerStep(Manager!Step(r)))
  /\ \A r \in Runners : WF_vars(ManagerStep(run[r].cancelled /\ Manager!Exit(r)))
  /\ \A q \in Session!Requesters : WF_vars(SessionStep(Session!Send(q)))
  /\ \A q \in Session!Requesters : WF_vars(SessionStep(Session!Receive(q) \/ Session!Fail(q)))
  /\ WF_vars(SessionStep(Session!Served))
  /\ WF_vars(SessionStep(Session!KillInstance))
  /\ WF_vars(SessionStep(Session!Reap))
  /\ WF_vars(SessionStep(Session!Tick))
  /\ WF_vars(SessionStep(Session!PingDone))
  /\ WF_vars(SessionStep(Session!PingKill))
  /\ WF_vars(SessionStep(Session!CloseSession))
  /\ WF_vars(SessionStep(Session!Cancel))
  /\ WF_vars(SessionStep(Session!Await))
  /\ WF_vars(SessionStep(Session!Killed))
  /\ WF_vars(SessionStep(Session!ReadLoop))
  /\ WF_vars(SessionStep(Session!Leave))
LiveSpec == Spec /\ Fairness
-----------------------------------------------------------------------------
(* The state of each component is typed.                                      *)
TypeOK ==
  /\ part = "manager" => Manager!TypeOK
  /\ part = "session" => Session!TypeOK
  /\ part = "broker" => Broker!TypeOK

(* However requests overlap, one instance of the plugin runs at a time; with  *)
(* none in flight exactly the plugin that is enabled runs, and what is        *)
(* recorded is what is unpacked.  Excused are runners registered while        *)
(* another was being stopped or started, a runner whose record was replaced   *)
(* or that was started or stopped last against the record, and an install     *)
(* that crossed a removal or a restart.                                       *)
OneRuns == part = "manager" =>
  Manager!OneInstance /\ Manager!RunsAsRecorded /\ Manager!FilesMatchRecord

(* With no request in flight, however requests overlapped, a session runs     *)
(* under the grants on record, unless they changed as its broker was being    *)
(* installed or it was last given those of an overtaken request; and of a     *)
(* plugin that was turned off, with nothing else under way, no reading is     *)
(* left.                                                                      *)
RunsAsGranted == part = "manager" => Manager!GrantsAreCurrent /\ Manager!NoPhantomReadings

(* The handle table is the truth about the open connections, and what a grant *)
(* or a session authorised goes with it.                                      *)
HandlesAreTrue == part = "broker" =>
  Broker!RevokedIsGone /\ Broker!HandlesAreOpen /\ Broker!ShutdownCloses

(* The storage file holds of each key what was acknowledged last, unless that *)
(* request overlapped another's, was a delete whose save failed, or the file  *)
(* was lost.                                                                  *)
AcknowledgedIsStored == part = "broker" => Broker!AcknowledgedIsStored

(* Requests complete; a session ends once its plugin has gone, a plugin that  *)
(* hangs is killed, and a stop comes back: unless a write to the plugin has   *)
(* blocked, one the read loop makes for it has blocked for good, or a guest   *)
(* that hangs under wazero does not look at its context.                      *)
PluginsEnd ==
  /\ \A q \in Requests : []<>(part = "manager" => Manager!Complete(q))
  /\ []<>(part = "session" => Session!Unstuck)
  /\ \/ <>[](part = "session" /\ Session!Unread)
     \/ /\ []<>(part = "session" => Session!Ended)
        /\ []<>(part = "session" => Session!Stopped)
=============================================================================
