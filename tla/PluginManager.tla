---------------------------- MODULE PluginManager -----------------------------
(***************************************************************************)
(* internal/engine/plugin/manager.go: the life of one plugin.  API         *)
(* requests change its record in plugins.json and start, stop and re-grant *)
(* its runner; the runner's goroutine starts instance after instance until *)
(* it is cancelled or its circuit breaker trips; the process may be killed *)
(* and started at any moment.  Requests are served by goroutines of their  *)
(* own, and nothing orders them but the locks of the record and of the map *)
(* of runners.                                                             *)
(*                                                                         *)
(* Sets of grants are numbered, 0 being none.  Requests and runners are    *)
(* the agents that stop a runner: take it from the map, cancel it, wait.   *)
(***************************************************************************)
EXTENDS Naturals

CONSTANTS Requests,        \* goroutines that serve /api/plugins
          Runners,         \* bound: pluginRunners at a time
          Versions,        \* versions of the plugin that may be installed
          None,            \* no runner
          BreakerCrashes,  \* crashes that open the breaker
          MaxGrants,       \* bound: sets of grants
          MaxEvents        \* bound: requests and restarts of the process

PluginConstants ==
  /\ None \notin Runners /\ Requests \cap Runners = {} /\ Runners # {}
  /\ Versions # {} /\ BreakerCrashes \in Nat \ {0}
  /\ MaxGrants \in Nat /\ MaxEvents \in Nat

Agents == Requests \cup Runners
GrantSets == 0 .. MaxGrants
Record == [there : BOOLEAN, enabled : BOOLEAN, version : Versions, grants : GrantSets]
Runner == [version : Versions, grants : GrantSets, sess : SUBSET GrantSets,
           cancelled : BOOLEAN, crashes : 0 .. BreakerCrashes]
Op == [op : {"enable", "disable", "remove", "grant", "install", "close"},
       version : Versions, grants : GrantSets]

VARIABLES
  rec,       \* the plugin's record in plugins.json
  unpacked,  \* versions under <dataDir>/plugins
  cur,       \* m.runners[id]
  at,        \* where each request and each runner is
  target,    \* the runner each of them stops or re-grants
  arg,       \* what each request was asked for, and the record it works from
  run,       \* each pluginRunner; sess is the grants of its broker session
  readings,  \* has the vessel store readings of this plugin
  closed,    \* has Close been called
  excuse,    \* history: why the registered runner is not what the record says
  stale,     \* history: runners re-granted as their broker was being installed
  outdated,  \* history: runners last given grants that were no longer the record's
  crossed,   \* history: runners registered while another was being stopped or started
  quiet,     \* history: the plugin was turned off, and not on since
  torn,      \* history: an install and a removal, or a restart, crossed
  events     \* counted against their bound

record == <<rec, unpacked>>
agents == <<at, target, arg>>
history == <<excuse, stale, outdated, crossed, quiet, torn>>
vars == <<record, cur, agents, run, readings, closed, history, events>>

New(version, grants) ==
  [version |-> version, grants |-> grants, sess |-> {}, cancelled |-> FALSE, crashes |-> 0]

(* Runners are interchangeable, and so are goroutines: the model takes any. *)
Any(S) == CHOOSE x \in S : TRUE

(* A runner that is not in use: it has returned and nobody waits for it.   *)
Free(r) == at[r] = "done" /\ \A a \in Agents : target[a] # r

(* NewManager: nothing is running but the runner of an enabled plugin.     *)
Booted == IF rec.there /\ rec.enabled /\ rec.version \in unpacked THEN Any(Runners) ELSE None
Idle(c) == [a \in Agents |-> IF a \in Requests THEN "idle" ELSE IF a = c THEN "head" ELSE "done"]
Started == [r \in Runners |-> New(rec.version, rec.grants)]
NoTarget == [a \in Agents |-> None]
NoOp == [op |-> "close", version |-> rec.version, grants |-> 0]

Init ==
  /\ rec \in {r \in Record : ~r.there => ~r.enabled /\ r.grants = 0}
  /\ unpacked = IF rec.there THEN {rec.version} ELSE {}
  /\ cur = Booted
  /\ at = Idle(cur) /\ target = NoTarget /\ arg = [q \in Requests |-> NoOp]
  /\ run = Started
  /\ readings = FALSE /\ closed = FALSE
  /\ excuse = {} /\ stale = {} /\ outdated = {} /\ crossed = {}
  /\ quiet = ~rec.enabled /\ torn = FALSE
  /\ events = 0

-----------------------------------------------------------------------------
(* Requests.                                                               *)
Accept(q, op, version, grants, pc) ==
  /\ at[q] = "idle" /\ q = Any({p \in Requests : at[p] = "idle"}) /\ ~closed /\ events < MaxEvents
  /\ events' = events + 1
  /\ arg' = [arg EXCEPT ![q] = [op |-> op, version |-> version, grants |-> grants]]
  /\ at' = [at EXCEPT ![q] = pc]

(* What the record asks for.                                               *)
Wanted == rec.enabled /\ ~closed

(* Another agent is stopping a runner, or about to register one.           *)
Busy(q) == \E a \in Agents \ {q} :
  at[a] = "register" \/ (at[a] \in {"cancel", "await"} /\ target[a] # a)

(* A request gives a runner the grants of its copy of the record.          *)
Gives(q, r) ==
  IF arg[q].grants = rec.grants THEN outdated \ {r} ELSE outdated \cup {r}

(* Enable: record it, and start a runner from the copy of the record.      *)
Enable(q) ==
  /\ rec.there
  /\ Accept(q, "enable", rec.version, rec.grants, "load")
  /\ rec' = [rec EXCEPT !.enabled = TRUE]
  /\ UNCHANGED <<unpacked, cur, target, run, readings, closed, history>>

(* startRunner: load the manifest, which may have gone by now, stop the    *)
(* runner there is, register the new one.  Mutant: the old runner is left  *)
(* running.                                                                *)
LoadOnly(q) ==
  /\ at[q] = "load"
  /\ at' = [at EXCEPT ![q] = IF arg[q].version \in unpacked THEN "register" ELSE "idle"]
  /\ UNCHANGED <<record, cur, target, arg, run, readings, closed, history, events>>
Load(q) ==
  /\ at[q] = "load"
  /\ IF arg[q].version \in unpacked
     THEN at' = [at EXCEPT ![q] = "take"] /\ UNCHANGED excuse
     ELSE /\ at' = [at EXCEPT ![q] = "idle"]
          /\ excuse' = IF Wanted THEN excuse \cup {"overtaken"} ELSE excuse
  /\ UNCHANGED <<record, cur, target, arg, run, readings, closed, stale, outdated, crossed,
                 quiet, torn, events>>

(* The new runner takes the place of whichever is in the map by now.       *)
Register(q) ==
  /\ at[q] = "register"
  /\ \E r \in {s \in Runners : Free(s) /\ cur # s} :
       /\ r = Any({s \in Runners : Free(s) /\ cur # s})
       /\ run' = [run EXCEPT ![r] = New(arg[q].version, arg[q].grants)]
       /\ cur' = r
       /\ at' = [at EXCEPT ![q] = "idle", ![r] = "head"]
       /\ stale' = stale \ {r} /\ outdated' = Gives(q, r)
       /\ crossed' = IF Busy(q) THEN crossed \cup {r} ELSE crossed \ {r}
  /\ excuse' = IF Wanted THEN {} ELSE {"overtaken"}
  /\ quiet' = FALSE
  /\ UNCHANGED <<record, target, arg, readings, closed, torn, events>>

(* Disable: record it, stop the runner, and (servePluginItem) drop the        *)
(* readings of the plugin.                                                    *)
Disable(q) ==
  /\ rec.there
  /\ Accept(q, "disable", rec.version, rec.grants, "take")
  /\ rec' = [rec EXCEPT !.enabled = FALSE]
  /\ UNCHANGED <<unpacked, cur, target, run, readings, closed, history>>

ClearSource(q) ==
  /\ at[q] = "clear"
  /\ at' = [at EXCEPT ![q] = "idle"]
  /\ readings' = FALSE
  /\ quiet' = (cur = None /\ ~Busy(q) /\ \A r \in crossed : at[r] = "done")
  /\ UNCHANGED <<record, cur, target, arg, run, closed, excuse, stale, outdated, crossed,
                 torn, events>>

(* Remove: stop the runner, drop the record, remove the unpacked versions. *)
Remove(q) ==
  /\ Accept(q, "remove", rec.version, rec.grants, "take")
  /\ UNCHANGED <<record, cur, target, run, readings, closed, history>>

Delete(q) ==
  /\ at[q] = "delete"
  /\ rec' = [rec EXCEPT !.there = FALSE, !.enabled = FALSE, !.grants = 0]
  /\ at' = [at EXCEPT ![q] = IF rec.there THEN "purge" ELSE "idle"]
  /\ excuse' = IF cur = None \/ ~rec.there THEN excuse ELSE excuse \cup {"replaced"}
  /\ UNCHANGED <<unpacked, cur, target, arg, run, readings, closed, stale, outdated, crossed,
                 quiet, torn, events>>

Purge(q) ==
  /\ at[q] = "purge"
  /\ unpacked' = {}
  /\ at' = [at EXCEPT ![q] = "clear"]
  /\ torn' = (torn \/ rec.there \/ \E p \in Requests : at[p] = "put")
  /\ UNCHANGED <<rec, cur, target, arg, run, readings, closed, excuse, stale, outdated,
                 crossed, quiet, events>>

(* Install: unpack a version that is not there, then put a fresh record.   *)
Install(q, v) ==
  /\ v \notin unpacked
  /\ Accept(q, "install", v, 0, "put")
  /\ unpacked' = unpacked \cup {v}
  /\ UNCHANGED <<rec, cur, target, run, readings, closed, history>>

Put(q) ==
  /\ at[q] = "put"
  /\ rec' = [there |-> TRUE, enabled |-> FALSE, version |-> arg[q].version, grants |-> 0]
  /\ excuse' = IF cur = None THEN excuse ELSE excuse \cup {"replaced"}
  /\ at' = [at EXCEPT ![q] = "idle"]
  /\ UNCHANGED <<unpacked, cur, target, arg, run, readings, closed, stale, outdated, crossed,
                 quiet, torn, events>>

(* SetGrants: record the grants, look up the runner, put them in its       *)
(* record, and push them to the broker session it had at that moment.      *)
SetGrants(q, g) ==
  /\ rec.there
  /\ Accept(q, "grant", rec.version, g, "find")
  /\ rec' = [rec EXCEPT !.grants = g]
  /\ UNCHANGED <<unpacked, cur, target, run, readings, closed, history>>

Find(q) ==
  /\ at[q] = "find"
  /\ target' = [target EXCEPT ![q] = cur]
  /\ at' = [at EXCEPT ![q] = IF cur = None THEN "idle" ELSE "apply"]
  /\ UNCHANGED <<record, cur, arg, run, readings, closed, history, events>>

(* Mutant: the runner's own record keeps the old grants.                   *)
ApplyToSession(q) ==
  /\ at[q] = "apply"
  /\ at' = [at EXCEPT ![q] = "push"]
  /\ target' = [target EXCEPT ![q] = IF at[target[q]] = "serve" THEN @ ELSE None]
  /\ UNCHANGED <<record, cur, arg, run, readings, closed, history, events>>
Apply(q) ==
  /\ at[q] = "apply"
  /\ run' = [run EXCEPT ![target[q]].grants = arg[q].grants]
  /\ at' = [at EXCEPT ![q] = "push"]
  /\ target' = [target EXCEPT ![q] = IF at[target[q]] = "serve" THEN @ ELSE None]
  /\ stale' = IF at[target[q]] = "attach" THEN stale \cup {target[q]} ELSE stale
  /\ outdated' = Gives(q, target[q])
  /\ UNCHANGED <<record, cur, arg, readings, closed, excuse, crossed, quiet, torn, events>>

(* The session may have ended by now: then nobody is told.                 *)
Push(q) ==
  /\ at[q] = "push"
  /\ IF target[q] = None THEN UNCHANGED <<run, outdated>>
     ELSE /\ run' = [run EXCEPT ![target[q]].sess = {arg[q].grants}]
          /\ outdated' = IF arg[q].grants = rec.grants THEN outdated
                         ELSE outdated \cup {target[q]}
  /\ stale' = stale \ {target[q]}
  /\ target' = [target EXCEPT ![q] = None]
  /\ at' = [at EXCEPT ![q] = "idle"]
  /\ UNCHANGED <<record, cur, arg, readings, closed, excuse, crossed, quiet, torn, events>>

Close(q) ==
  /\ Accept(q, "close", rec.version, 0, "take")
  /\ closed' = TRUE
  /\ UNCHANGED <<record, cur, target, run, readings, history>>

-----------------------------------------------------------------------------
(* stopRunner, by a request or by the breaker of a runner: take the runner *)
(* from the map; stop() asks its plugin to shut down (it may exit before   *)
(* or after), cancels it, and waits until its goroutine has returned.      *)
AfterStop(a) ==
  IF a \in Runners THEN "done"
  ELSE CASE arg[a].op = "enable" -> "register" [] arg[a].op = "disable" -> "clear"
         [] arg[a].op = "remove" -> "delete" [] OTHER -> "idle"

(* Who stops the runner because it has disabled the plugin.                *)
Disables(a) == a \in Runners \/ (a \in Requests /\ arg[a].op = "disable")
Take(a) ==
  /\ at[a] = "take"
  /\ target' = [target EXCEPT ![a] = cur]
  /\ cur' = None
  /\ at' = [at EXCEPT ![a] = IF cur = None THEN AfterStop(a) ELSE "cancel"]
  /\ excuse' = IF Wanted /\ Disables(a) THEN {"overtaken"} ELSE {}
  /\ UNCHANGED <<record, arg, run, readings, closed, stale, outdated, crossed, quiet, torn,
                 events>>

Cancel(a) ==
  /\ at[a] = "cancel"
  /\ run' = [run EXCEPT ![target[a]].cancelled = TRUE]
  /\ at' = [at EXCEPT ![a] = "await"]
  /\ UNCHANGED <<record, cur, target, arg, readings, closed, history, events>>

Await(a) ==
  /\ at[a] = "await" /\ at[target[a]] = "done"
  /\ target' = [target EXCEPT ![a] = None]
  /\ at' = [at EXCEPT ![a] = AfterStop(a)]
  /\ UNCHANGED <<record, cur, arg, run, readings, closed, history, events>>

-----------------------------------------------------------------------------
(* run() and runOnce(): the goroutine of a runner.                         *)
Head(r) ==
  /\ at[r] \in {"head", "backoff"}
  /\ at' = [at EXCEPT ![r] = IF run[r].cancelled THEN "done" ELSE "start"]
  /\ UNCHANGED <<record, cur, target, arg, run, readings, closed, history, events>>

(* The instance starts, and its broker session gets the grants the record  *)
(* has now; or it fails to start, as it must when its files have gone.     *)
Start(r) ==
  /\ at[r] = "start"
  /\ \/ /\ run[r].version \in unpacked
        /\ run' = [run EXCEPT ![r].sess = {run[r].grants}]
        /\ at' = [at EXCEPT ![r] = "attach"]
     \/ at' = [at EXCEPT ![r] = "exited"] /\ UNCHANGED run
  /\ UNCHANGED <<record, cur, target, arg, readings, closed, history, events>>

(* setBroker: from here on applyGrants and stop see the session.           *)
Attach(r) ==
  /\ at[r] = "attach"
  /\ at' = [at EXCEPT ![r] = "serve"]
  /\ UNCHANGED <<record, cur, target, arg, run, readings, closed, history, events>>

(* The read loop handles a vessel.publish.                                 *)
Publish(r) ==
  /\ at[r] = "serve" /\ 0 \notin run[r].sess
  /\ readings' = TRUE
  /\ UNCHANGED <<record, cur, agents, run, closed, history, events>>

(* The plugin exits, crashes, misses its pings, or is killed; the session  *)
(* ends, and a push that was on its way reaches nobody.  Mutant: the       *)
(* broker is not taken back.                                               *)
ExitAttached(r) ==
  /\ at[r] = "serve"
  /\ at' = [at EXCEPT ![r] = "exited"]
  /\ UNCHANGED <<record, cur, target, arg, run, readings, closed, history, events>>
Exit(r) ==
  /\ at[r] = "serve"
  /\ at' = [at EXCEPT ![r] = "exited"]
  /\ run' = [run EXCEPT ![r].sess = {}]
  /\ target' = [a \in Agents |-> IF at[a] = "push" /\ target[a] = r THEN None ELSE target[a]]
  /\ stale' = stale \ {r}
  /\ UNCHANGED <<record, cur, arg, readings, closed, excuse, outdated, crossed, quiet, torn,
                 events>>

(* tripBreaker counts the crashes that are not too old, and this one.      *)
Exited(r) ==
  /\ at[r] = "exited"
  /\ IF run[r].cancelled
     THEN at' = [at EXCEPT ![r] = "done"] /\ UNCHANGED run
     ELSE \E kept \in 0 .. run[r].crashes :
            /\ run' = [run EXCEPT ![r].crashes = kept + 1]
            /\ at' = [at EXCEPT ![r] = IF kept + 1 >= BreakerCrashes THEN "trip" ELSE "backoff"]
  /\ UNCHANGED <<record, cur, target, arg, readings, closed, history, events>>

(* The breaker is open: disable the plugin, then stop whatever runner it   *)
(* has.                                                                    *)
Trip(r) ==
  /\ at[r] = "trip"
  /\ rec' = [rec EXCEPT !.enabled = FALSE]
  /\ at' = [at EXCEPT ![r] = "take"]
  /\ UNCHANGED <<unpacked, cur, target, arg, run, readings, closed, history, events>>

-----------------------------------------------------------------------------
(* The process is killed and started: plugins.json and the files remain.   *)
Restart ==
  /\ events < MaxEvents
  /\ events' = events + 1
  /\ cur' = Booted
  /\ at' = Idle(cur') /\ target' = NoTarget /\ arg' = [q \in Requests |-> NoOp]
  /\ run' = Started
  /\ readings' = FALSE /\ closed' = FALSE
  /\ excuse' = {} /\ stale' = {} /\ outdated' = {} /\ crossed' = {} /\ quiet' = ~rec.enabled
  /\ torn' = (torn \/ \E q \in Requests : at[q] \in {"put", "purge"})
  /\ UNCHANGED record

Call(q) ==
  \/ Enable(q) \/ Disable(q) \/ Remove(q) \/ Close(q)
  \/ \E g \in GrantSets : SetGrants(q, g)
  \/ \E v \in Versions : Install(q, v)
Stop(a) == Take(a) \/ Cancel(a) \/ Await(a)
Serve(q) ==
  \/ Load(q) \/ Stop(q) \/ Register(q) \/ ClearSource(q) \/ Delete(q) \/ Purge(q)
  \/ Put(q) \/ Find(q) \/ Apply(q) \/ Push(q)
Step(r) == Head(r) \/ Start(r) \/ Attach(r) \/ Exited(r) \/ Trip(r) \/ Stop(r)

Next ==
  \/ \E q \in Requests : Call(q) \/ Serve(q)
  \/ \E r \in Runners : Step(r) \/ Publish(r) \/ Exit(r)
  \/ Restart

Spec == Init /\ [][Next]_vars

(* Goroutines run on, and a plugin whose context is cancelled is killed.   *)
Fairness ==
  /\ \A q \in Requests : WF_vars(Serve(q))
  /\ \A r \in Runners : WF_vars(Step(r)) /\ WF_vars(run[r].cancelled /\ Exit(r))
LiveSpec == Spec /\ Fairness

-----------------------------------------------------------------------------
(* Properties.                                                             *)

(* No request is in flight, and no breaker is stopping a runner but its own. *)
Rest ==
  /\ \A q \in Requests : at[q] = "idle"
  /\ \A r \in Runners :
       at[r] # "take" /\ (at[r] \in {"cancel", "await"} => target[r] = r)
Live(r) ==
  /\ at[r] \in {"head", "start", "attach", "serve", "exited", "backoff", "trip"}
  /\ ~run[r].cancelled

TypeOK ==
  /\ rec \in Record /\ unpacked \subseteq Versions /\ cur \in Runners \cup {None}
  /\ at \in [Agents -> {"idle", "load", "register", "clear", "delete", "purge", "put",
                        "find", "apply", "push", "take", "cancel", "await", "done", "head",
                        "start", "attach", "serve", "exited", "backoff", "trip"}]
  /\ target \in [Agents -> Runners \cup {None}]
  /\ \A a \in Agents : at[a] \in {"cancel", "await", "apply"} => target[a] # None
  /\ arg \in [Requests -> Op] /\ run \in [Runners -> Runner]
  /\ \A r \in Runners : run[r].sess # {} <=> at[r] \in {"attach", "serve"}
  /\ readings \in BOOLEAN /\ closed \in BOOLEAN
  /\ excuse \subseteq {"replaced", "overtaken"}
  /\ stale \subseteq Runners /\ outdated \subseteq Runners /\ crossed \subseteq Runners
  /\ quiet \in BOOLEAN /\ torn \in BOOLEAN
  /\ events \in 0 .. MaxEvents

(* However requests overlap, one instance of the plugin runs at a time,    *)
(* also while Enable replaces a runner whose breaker is tripping or that   *)
(* does not want to stop, and every other runner that goes on is being     *)
(* stopped: but for runners that were registered while another was being   *)
(* stopped or was about to be registered.                                  *)
OneInstance ==
  /\ \A r, s \in Runners \ crossed : run[r].sess # {} /\ run[s].sess # {} => r = s
  /\ \A r \in Runners \ crossed : Live(r) =>
       r = cur \/ \E a \in Agents : at[a] = "cancel" /\ target[a] = r

(* With no request in flight, and however requests overlapped: an enabled  *)
(* plugin whose files are there has a runner that is neither cancelled nor *)
(* gone; and one that is disabled, removed or closed has no runner that    *)
(* would start another instance, but one that crossed another.  Unless a   *)
(* version was installed over the runner or its record removed under it    *)
(* ("replaced"), or the last that started or stopped it did so when the    *)
(* record already said otherwise ("overtaken").                            *)
RunsAsRecorded ==
  Rest /\ excuse = {} =>
    /\ Wanted /\ rec.version \in unpacked => cur # None /\ Live(cur)
    /\ ~Wanted => cur = None /\ \A r \in Runners \ crossed : ~Live(r)

(* With no request in flight, and however requests overlapped, the session *)
(* of the registered runner has the grants on record, whatever crashes and *)
(* restarts of instances came in between: unless they changed as its       *)
(* broker was being installed, or what it was given last was the grants of *)
(* a request that another had overtaken.                                   *)
GrantsAreCurrent ==
  Rest /\ "replaced" \notin excuse =>
    \A r \in Runners \ (stale \cup outdated) :
      r = cur /\ at[r] = "serve" => run[r].sess = {rec.grants}

(* servePluginItem clears what the plugin published after it has stopped:  *)
(* nothing of it comes back until it is enabled again, unless some runner  *)
(* was being stopped or started meanwhile, or one that crossed another     *)
(* went on.                                                                *)
NoPhantomReadings == quiet => ~readings

(* With no request in flight, the record and the unpacked files agree, so  *)
(* that what is not installed can be installed, unless a restart cut an    *)
(* install or a removal in two, or the files of an install went with those *)
(* of a removal.                                                           *)
FilesMatchRecord ==
  Rest /\ ~torn => (rec.there => rec.version \in unpacked) /\ (~rec.there => unpacked = {})

(* Every request completes: no stop waits for a runner that cannot return. *)
Complete(q) == at[q] = "idle"

=============================================================================
