---------------------------- MODULE NmeaManager -----------------------------
(***************************************************************************)
(* One NMEA 0183 connection: its record in connections.json                *)
(* (server/connections.go), the manager that starts and stops its runner   *)
(* (nmea/manager.go), the runner, which dials, reads lines and dials       *)
(* again (nmea/source.go), and a client that watches the raw lines.        *)
(*                                                                         *)
(* Requests hold no lock between the record and the manager, nor while     *)
(* they wait for a runner they stop, so they may overlap.                  *)
(***************************************************************************)
EXTENDS Naturals

CONSTANTS Requests,      \* goroutines that serve /api/connections
          Runners,       \* bound: runners at a time
          Configs,       \* settings of the connection
          Enabled,       \* those that have it enabled
          None,          \* no settings, no runner
          TapCap,        \* lines the channel of a watching client holds
          MaxRequests,   \* bound: requests
          MaxRestarts    \* bound: restarts of the process

NmeaConstants ==
  /\ None \notin Runners \cup Configs /\ Runners # {} /\ Enabled \subseteq Configs
  /\ TapCap \in Nat /\ MaxRequests \in Nat /\ MaxRestarts \in Nat

VARIABLES
  rec,       \* connectionsStore: the record, in memory and on disk
  born,      \* its id has been given out; a removed id is not used again
  known,     \* m.sources[id]
  cur,       \* m.runners[id]
  at,        \* where each request is
  arg,       \* what it applies, None for a removal
  target,    \* the runner it stops
  pc,        \* run() of each runner: "none", "dial", "read", "line" or "sleep"
  cfg, ctx,  \* r.src, and is its context cancelled
  badge,     \* r.state
  tap,       \* lines in the watching client's channel, or None without one
  raced,     \* history: two requests have been in the manager at once
  asked, restarts   \* counted against their bounds

record == <<rec, born>>
manager == <<known, cur>>
requests == <<at, arg, target>>
runner == <<pc, cfg, ctx, badge>>
bounds == <<asked, restarts>>
vars == <<record, manager, requests, runner, tap, raced, bounds>>

Rest == \A q \in Requests : at[q] = "idle"

(* Nobody else runs this runner, waits for it or finds it in the map.      *)
Free(q) == {r \in Runners : /\ pc[r] = "none" /\ cur # r
                            /\ \A p \in Requests \ {q} : target[p] # r}

(* initNMEA: a runner for an enabled record, and nothing else going on.    *)
BootWith(source, r) ==
  /\ known' = source /\ cur' = r
  /\ at' = [q \in Requests |-> "idle"] /\ arg' = [q \in Requests |-> None]
  /\ target' = [q \in Requests |-> None]
  /\ pc' = [s \in Runners |-> IF s = r THEN "dial" ELSE "none"]
  /\ cfg' = [s \in Runners |-> source] /\ ctx' = [s \in Runners |-> FALSE]
  /\ badge' = [s \in Runners |-> "connecting"]
  /\ tap' = None /\ raced' = FALSE

Init ==
  /\ rec \in Configs \cup {None} /\ born = (rec # None)
  /\ known = rec /\ cur \in IF rec \in Enabled THEN Runners ELSE {None}
  /\ at = [q \in Requests |-> "idle"] /\ arg = [q \in Requests |-> None]
  /\ target = [q \in Requests |-> None]
  /\ pc = [s \in Runners |-> IF s = cur THEN "dial" ELSE "none"]
  /\ cfg = [s \in Runners |-> rec] /\ ctx = [s \in Runners |-> FALSE]
  /\ badge = [s \in Runners |-> "connecting"]
  /\ tap = None /\ raced = FALSE
  /\ asked = 0 /\ restarts = 0

Restart ==
  /\ restarts < MaxRestarts /\ restarts' = restarts + 1
  /\ \E r \in IF rec \in Enabled THEN Runners ELSE {None} : BootWith(rec, r)
  /\ UNCHANGED <<record, asked>>

-----------------------------------------------------------------------------
(* Requests: the record is changed and saved under the lock of the store.  *)
Accept(q, source, step) ==
  /\ at[q] = "idle" /\ asked < MaxRequests /\ asked' = asked + 1
  /\ rec' = source /\ arg' = [arg EXCEPT ![q] = source]
  /\ at' = [at EXCEPT ![q] = step]
  /\ raced' = (raced \/ ~Rest)
  /\ UNCHANGED <<manager, target, runner, tap, restarts>>

Create(q, c) == ~born /\ born' = TRUE /\ Accept(q, c, "apply")
Update(q, c) == rec # None /\ UNCHANGED born /\ Accept(q, c, "apply")
Delete(q) == rec # None /\ UNCHANGED born /\ Accept(q, None, "remove")

(* Apply's last part, under the lock of the manager: start a runner.  A    *)
(* runner that another request has registered meanwhile is forgotten.      *)
Start(q) ==
  /\ at' = [at EXCEPT ![q] = "idle"]
  /\ target' = [target EXCEPT ![q] = None]
  /\ IF arg[q] \in Enabled
     THEN \E r \in Free(q) :
            /\ cur' = r
            /\ pc' = [pc EXCEPT ![r] = "dial"] /\ cfg' = [cfg EXCEPT ![r] = arg[q]]
            /\ ctx' = [ctx EXCEPT ![r] = FALSE]
            /\ badge' = [badge EXCEPT ![r] = "connecting"]
     ELSE UNCHANGED <<cur, runner>>

(* Apply and Remove take the runner from the map.  Mutant: it stays there  *)
(* while it is being stopped.                                              *)
LeaveInMap(q) ==
  /\ target' = [target EXCEPT ![q] = cur] /\ UNCHANGED cur
  /\ at' = [at EXCEPT ![q] = "cancel"]
Take(q) ==
  /\ target' = [target EXCEPT ![q] = cur] /\ cur' = None
  /\ at' = [at EXCEPT ![q] = "cancel"]

Apply(q) ==
  /\ at[q] = "apply"
  /\ known' = arg[q]
  /\ IF cur # None THEN Take(q) /\ UNCHANGED runner ELSE Start(q)
  /\ UNCHANGED <<record, arg, tap, raced, bounds>>

Remove(q) ==
  /\ at[q] = "remove"
  /\ known' = None
  /\ IF cur # None THEN Take(q)
                   ELSE at' = [at EXCEPT ![q] = "idle"] /\ UNCHANGED <<target, cur>>
  /\ UNCHANGED <<record, arg, runner, tap, raced, bounds>>

(* stop(): cancel the context ...                                          *)
Cancel(q) ==
  /\ at[q] = "cancel"
  /\ ctx' = [ctx EXCEPT ![target[q]] = TRUE]
  /\ at' = [at EXCEPT ![q] = "await"]
  /\ UNCHANGED <<record, manager, arg, target, pc, cfg, badge, tap, raced, bounds>>

(* ... and wait for run() to return.                                       *)
Returned(q) == pc[target[q]] = "none"
Await(q) ==
  /\ at[q] = "await" /\ Returned(q)
  /\ IF arg[q] # None THEN Start(q)
     ELSE /\ at' = [at EXCEPT ![q] = "idle"] /\ target' = [target EXCEPT ![q] = None]
          /\ UNCHANGED <<cur, runner>>
  /\ UNCHANGED <<record, known, arg, tap, raced, bounds>>

-----------------------------------------------------------------------------
(* run(): dial, and wait before the next attempt when that fails.          *)
Step(r, from, to) ==
  /\ pc[r] = from /\ pc' = [pc EXCEPT ![r] = to]
  /\ UNCHANGED <<record, manager, requests, cfg, ctx, raced, bounds>>

Connect(r) ==
  /\ Step(r, "dial", "read")
  /\ badge' = [badge EXCEPT ![r] = "connected"] /\ UNCHANGED tap

(* recordError: an open connection stays "connected".                         *)
ErrorBadge(r) == IF badge[r] = "connected" THEN "connected" ELSE "error"

DialError(r) ==
  /\ Step(r, "dial", "sleep")
  /\ badge' = [badge EXCEPT ![r] = ErrorBadge(r)] /\ UNCHANGED tap

(* Sleep ends with the backoff, or with the context.                       *)
Wake(r) ==
  /\ IF ctx[r] THEN Step(r, "sleep", "none") /\ UNCHANGED badge
     ELSE Step(r, "sleep", "dial") /\ badge' = [badge EXCEPT ![r] = "connecting"]
  /\ UNCHANGED tap

(* readLoop: a line has come and the runner is not cancelled.              *)
Scan(r) == ~ctx[r] /\ Step(r, "read", "line") /\ UNCHANGED <<badge, tap>>

(* onRaw (rawHub.publish drops the line when the channel of the client is  *)
(* full), then recordRx and the stores, or recordError for a bad line.     *)
Line(r) ==
  /\ Step(r, "line", "read")
  /\ tap' = IF tap # None /\ tap < TapCap THEN tap + 1 ELSE tap
  /\ \E b \in {"connected", ErrorBadge(r)} : badge' = [badge EXCEPT ![r] = b]

(* The connection ends: the far side closes it or fails, or the context ends  *)
(* and the watching goroutine closes it.                                      *)
Retry(r) == IF ctx[r] THEN "none" ELSE "sleep"
Hangup(r) == Step(r, "read", Retry(r)) /\ UNCHANGED <<badge, tap>>

(* serveConnectionRaw: a client subscribes, takes lines, goes.             *)
Watch ==
  /\ tap' \in {None, 0} \cup (IF tap \in {None, 0} THEN {} ELSE {tap - 1})
  /\ tap' # tap
  /\ UNCHANGED <<record, manager, requests, runner, raced, bounds>>

-----------------------------------------------------------------------------
Client(q) == (\E c \in Configs : Create(q, c) \/ Update(q, c)) \/ Delete(q)
Serve(q) == Apply(q) \/ Remove(q) \/ Cancel(q) \/ Await(q)
Run(r) == Connect(r) \/ DialError(r) \/ Wake(r) \/ Scan(r) \/ Line(r) \/ Hangup(r)

Next ==
  \/ \E q \in Requests : Client(q) \/ Serve(q)
  \/ \E r \in Runners : Run(r)
  \/ Watch \/ Restart

Spec == Init /\ [][Next]_vars

(* Requests that have begun run on.  A dial and a backoff end, by timers;  *)
(* a line that was read is handled; a connection whose context has ended   *)
(* is closed.  Nothing is assumed of the device or of the client.          *)
Fairness ==
  /\ \A q \in Requests : WF_vars(Serve(q))
  /\ \A r \in Runners : /\ WF_vars(Connect(r) \/ DialError(r)) /\ WF_vars(Wake(r))
                        /\ WF_vars(Line(r)) /\ WF_vars(ctx[r] /\ Hangup(r))
LiveSpec == Spec /\ Fairness

-----------------------------------------------------------------------------
(* Properties.                                                             *)

(* What a request stops is known from its stop() until that is over.       *)
TypeOK ==
  /\ rec \in Configs \cup {None} /\ born \in BOOLEAN /\ (rec # None => born)
  /\ known \in Configs \cup {None} /\ cur \in Runners \cup {None}
  /\ at \in [Requests -> {"idle", "apply", "remove", "cancel", "await"}]
  /\ arg \in [Requests -> Configs \cup {None}]
  /\ target \in [Requests -> Runners \cup {None}]
  /\ \A q \in Requests : (target[q] # None) = (at[q] \in {"cancel", "await"})
  /\ pc \in [Runners -> {"none", "dial", "read", "line", "sleep"}]
  /\ cfg \in [Runners -> Configs \cup {None}] /\ ctx \in [Runners -> BOOLEAN]
  /\ badge \in [Runners -> {"connecting", "connected", "error"}]
  /\ tap \in 0 .. TapCap \cup {None} /\ raced \in BOOLEAN
  /\ asked \in 0 .. MaxRequests /\ restarts \in 0 .. MaxRestarts

Running == {r \in Runners : pc[r] # "none"}

(* When no request is being served the one runner is that of the record:   *)
(* the new settings after a change, nothing after a removal or a disabling, *)
(* whatever the old runner was doing when it was stopped.  Requests that   *)
(* overlapped are excused until the next restart.                          *)
RunningIsConfigured ==
  Rest /\ ~raced =>
    /\ known = rec
    /\ Running = IF rec \in Enabled THEN {cur} ELSE {}
    /\ \A r \in Running : cfg[r] = rec

(* The manager never holds a runner that is stopped or being stopped, even *)
(* when requests overlap: no status is that of a dead runner, and no two   *)
(* requests stop the same one.                                             *)
MapIsLive ==
  /\ cur # None => pc[cur] # "none" /\ ~ctx[cur] /\ cfg[cur] \in Enabled
  /\ \A p, q \in Requests : p # q /\ target[p] # None => target[p] # target[q] /\ target[p] # cur

(* Manager.Status, as the list of connections shows it.                    *)
Status == IF cur # None THEN badge[cur] ELSE IF known # None THEN "disabled" ELSE "unknown"

(* An open connection never shows as connecting or failed, whatever lines  *)
(* it sends; and at rest exactly the disabled record shows as disabled.    *)
BadgeIsTrue ==
  /\ cur # None /\ pc[cur] \in {"read", "line"} => Status = "connected"
  /\ Rest /\ ~raced => /\ (Status = "disabled") = (rec \in Configs \ Enabled)
                       /\ (Status = "unknown") = (rec = None)

(* Every request ends: a runner that is cancelled returns, be it dialling, *)
(* waiting, reading, or handing a line to a client that reads nothing.     *)
Complete(q) == at[q] = "idle"

(* A connection that is lost or refused is dialled again, for as long as   *)
(* it is configured.                                                       *)
Lost(r) == cur = r /\ pc[r] \notin {"read", "line"}
Dials(r) == cur = r => pc[r] = "dial"
=============================================================================
