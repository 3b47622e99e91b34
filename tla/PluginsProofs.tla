---------------------------- MODULE PluginsProofs ---------------------------
(***************************************************************************)
(* Proofs about a plugin on the server: the invariants the run of          *)
(* MCPlugins checks, for any numbers of requests, runners, versions,       *)
(* grants, dials and keys.                                                 *)
(***************************************************************************)
EXTENDS MCPlugins, TLAPS

-----------------------------------------------------------------------------
(* The session.  Answers are for requests that wait; pings start when the  *)
(* handshake is over, and a kill is decided at the last miss.              *)
HeldWaits == held # Session!Nobody => at[held] = "wait"
Misses ==
  /\ pinger \in {"sleep", "ask"} => misses < MaxMisses
  /\ runner = "hello" => pinger = "off" /\ misses = 0
SessionInv == Session!TypeOK /\ HeldWaits /\ Misses

LEMMA SessionInit ==
  ASSUME Session!Init PROVE SessionInv
<1> USE ConstantsAssumption DEF Session!SessionConstants, Session!Requesters, Session!Init
<1>1. 0 \in 0 .. PipeCap /\ 0 \in 0 .. MaxMisses
  OBVIOUS
<1>2. \A q \in Session!Requesters : at[q] = IF q = "hello" THEN "send" ELSE "none"
  OBVIOUS
<1>3. Session!TypeOK
  BY <1>1, <1>2 DEF Session!TypeOK
<1>4. HeldWaits /\ Misses
  BY DEF HeldWaits, Misses
<1> QED
  BY <1>3, <1>4 DEF SessionInv

(* A request that ends leaves nothing of itself, and its caller goes on.   *)
LEMMA EndKeepsSession ==
  ASSUME SessionInv, NEW q \in Session!Requesters, NEW ok \in BOOLEAN,
         at[q] # "none", Session!Ends(q), Session!Proceed(q, ok),
         UNCHANGED <<plug, runtime, stdin, shut, cut, closed, reader, ctx>>
  PROVE  SessionInv'
<1> USE ConstantsAssumption
    DEF SessionInv, Session!TypeOK, HeldWaits, Misses, Session!SessionConstants,
        Session!Requesters, Session!Ends, Session!Proceed, Session!pings
<1>1. CASE q = "hello"
  BY <1>1
<1>2. CASE q = "ping"
  <2>1. misses' \in 0 .. MaxMisses /\ (pinger' = "sleep" => misses' < MaxMisses)
    BY <1>2
  <2> QED
    BY <1>2, <2>1
<1>3. CASE q = "bye"
  BY <1>3
<1> QED
  BY <1>1, <1>2, <1>3

LEMMA SessionNext ==
  ASSUME SessionInv, [Session!Next]_(Session!vars) PROVE SessionInv'
<1> USE ConstantsAssumption
    DEF SessionInv, Session!TypeOK, HeldWaits, Misses, Session!SessionConstants,
        Session!Requesters, Session!pipe, Session!calls, Session!loop, Session!pings,
        Session!stop
<1>1. ASSUME NEW q \in Session!Requesters, Session!Send(q) PROVE SessionInv'
  <2>1. stdin' \in 0 .. PipeCap
    BY <1>1 DEF Session!Send, Session!Room
  <2> QED
    BY <1>1, <2>1 DEF Session!Send
<1>2. ASSUME NEW q \in Session!Requesters, Session!Receive(q) \/ Session!Fail(q)
      PROVE  SessionInv'
  <2>1. PICK ok \in BOOLEAN : Session!Ends(q) /\ Session!Proceed(q, ok)
    BY <1>2 DEF Session!Receive, Session!Fail
  <2>2. at[q] # "none" /\ UNCHANGED <<plug, runtime, stdin, shut, cut, closed, reader, ctx>>
    BY <1>2 DEF Session!Receive, Session!Fail, Session!TimesOut
  <2>3. SessionInv
    OBVIOUS
  <2> HIDE DEF SessionInv, Session!Requesters
  <2> QED
    BY <2>1, <2>2, <2>3, EndKeepsSession
<1>3. ASSUME NEW q \in Session!Requesters, Session!Answer(q) PROVE SessionInv'
  BY <1>3 DEF Session!Answer
<1>4. CASE Session!Wedge \/ Session!Exit \/ Session!Killed \/ Session!Leave
  BY <1>4 DEF Session!Wedge, Session!Exit, Session!Killed, Session!Leave
<1>5. CASE Session!Notify
  <2>1. stdin' \in 0 .. PipeCap
    BY <1>5 DEF Session!Notify, Session!Room
  <2> QED
    BY <1>5, <2>1 DEF Session!Notify
<1>6. ASSUME NEW q \in Session!Requesters, Session!Recv(q) PROVE SessionInv'
  BY <1>6 DEF Session!Recv
<1>7. CASE Session!Deliver
  BY <1>7 DEF Session!Deliver, Session!HasRoom, Session!Nobody
<1>8. CASE Session!Eof \/ Session!ProtocolError \/ Session!Inline \/ Session!Written
  <2>1. held = Session!Nobody
    BY <1>8 DEF Session!Eof, Session!ProtocolError, Session!Inline, Session!Written
  <2> QED
    BY <1>8, <2>1 DEF Session!Eof, Session!ProtocolError, Session!Inline, Session!Written
<1>9. CASE Session!Served \/ Session!KillInstance \/ Session!Reap
  <2>1. at["hello"] = "none" /\ runner' # "hello" /\ UNCHANGED <<at, pinger, misses, held, stopper>>
    BY <1>9 DEF Session!Served, Session!KillInstance, Session!Reap
  <2>2. ((at["hello"] # "none") = (runner = "hello"))'
    BY <2>1
  <2>3. shut' \in BOOLEAN /\ cut' \in BOOLEAN /\ closed' \in BOOLEAN /\ ctx' \in BOOLEAN
    BY <1>9 DEF Session!Served, Session!KillInstance, Session!Kill, Session!Reap
  <2> QED
    BY <1>9, <2>1, <2>2, <2>3 DEF Session!Served, Session!KillInstance, Session!Kill, Session!Reap
<1>10. CASE Session!Tick
  <2>1. CASE closed
    <3>1. misses' \in 0 .. MaxMisses /\ (pinger' = "sleep" => misses' < MaxMisses)
      BY <1>10, <2>1 DEF Session!Tick
    <3> QED
      BY <1>10, <2>1, <3>1 DEF Session!Tick
  <2>2. CASE ~closed
    BY <1>10, <2>2 DEF Session!Tick
  <2> QED
    BY <2>1, <2>2
<1>11. CASE Session!PingDone \/ Session!PingKill
  <2>1. at["ping"] = "none" /\ pinger' = "off" /\ UNCHANGED <<at, runner, misses, held, stopper>>
    BY <1>11 DEF Session!PingDone, Session!PingKill
  <2>2. ((at["ping"] # "none") = (pinger = "ask"))'
    BY <2>1
  <2>3. shut' \in BOOLEAN /\ cut' \in BOOLEAN /\ closed' \in BOOLEAN /\ ctx' \in BOOLEAN
    BY <1>11 DEF Session!PingDone, Session!PingKill, Session!Kill
  <2> QED
    BY <1>11, <2>1, <2>2, <2>3 DEF Session!PingDone, Session!PingKill, Session!Kill
<1>12. CASE Session!Stop
  BY <1>12 DEF Session!Stop
<1>13. CASE Session!CloseSession \/ Session!Cancel \/ Session!Await
  <2>1. at["bye"] = "none" /\ stopper' # "bye" /\ UNCHANGED <<at, runner, pinger, misses, held>>
    BY <1>13 DEF Session!CloseSession, Session!Cancel, Session!Await
  <2>2. ((at["bye"] # "none") = (stopper = "bye"))'
    BY <2>1
  <2>3. shut' \in BOOLEAN /\ cut' \in BOOLEAN /\ closed' \in BOOLEAN /\ ctx' \in BOOLEAN
    BY <1>13 DEF Session!CloseSession, Session!Cancel, Session!Await
  <2> QED
    BY <1>13, <2>1, <2>2, <2>3 DEF Session!CloseSession, Session!Cancel, Session!Await
<1>14. CASE UNCHANGED Session!vars
  BY <1>14 DEF Session!vars
<1> QED
  BY <1>1, <1>2, <1>3, <1>4, <1>5, <1>6, <1>7, <1>8, <1>9, <1>10, <1>11, <1>12, <1>13, <1>14
     DEF Session!Next, Session!Host, Session!ReadLoop, Session!Plugin

-----------------------------------------------------------------------------
(* The manager.                                                            *)

(* Types: requests and runners each have their own steps; a runner short   *)
(* of its breaker has crashes to spare; a push is to a session that is     *)
(* still there.                                                            *)
RequestSteps == {"idle", "load", "register", "clear", "delete", "purge", "put", "find", "apply",
                 "push", "take", "cancel", "await"}
LiveSteps == {"head", "start", "attach", "serve", "exited", "backoff", "trip", "take"}
Roles == /\ \A q \in Requests : at[q] \in RequestSteps
         /\ \A r \in Runners : at[r] \in LiveSteps \cup {"cancel", "await", "done"}
Spare == \A r \in Runners :
  at[r] \in {"head", "start", "attach", "serve", "exited", "backoff"} =>
    run[r].crashes < BreakerCrashes
Pushes == \A q \in Requests : at[q] = "push" /\ target[q] # None => at[target[q]] = "serve"
Typed == Manager!TypeOK /\ Roles /\ Spare /\ Pushes

(* Every runner that has not returned is the registered one, or being      *)
(* stopped by somebody, or waits for itself after its breaker tripped; but *)
(* for those that crossed another.  The registered one is not being        *)
(* stopped, and one that crossed no other is alone.                        *)
Stopping(a) == at[a] \in {"cancel", "await"}
Stuck(r) == Stopping(r) /\ target[r] = r
Accounted == \A r \in Runners \ crossed : at[r] # "done" =>
  cur = r \/ Stuck(r) \/ \E a \in Manager!Agents : Stopping(a) /\ target[a] = r
Awaited == \A a \in Manager!Agents : at[a] = "await" => run[target[a]].cancelled
CurLives == cur # None => ~run[cur].cancelled /\ at[cur] \in LiveSteps
Taken == \A a \in Manager!Agents : Stopping(a) => target[a] # cur
Alone == cur # None /\ cur \notin crossed => \A a \in Manager!Agents :
  at[a] # "register" /\ (Stopping(a) => target[a] = a)
Single == \A r, s \in Runners \ crossed :
  at[r] # "done" /\ at[s] # "done" /\ ~Stuck(r) /\ ~Stuck(s) => r = s
Runs == Accounted /\ Awaited /\ CurLives /\ Taken /\ Alone /\ Single

(* The steps of each request, and the unpacked files.                      *)
Serving(op, steps) == {q \in Requests : arg[q].op = op /\ at[q] \in steps}
StopSteps == {"take", "cancel", "await"}
Ops == \A q \in Requests : at[q] # "idle" =>
  q \in UNION {Serving("enable", StopSteps \cup {"load", "register"}),
               Serving("disable", StopSteps \cup {"clear"}),
               Serving("remove", StopSteps \cup {"delete", "purge", "clear"}),
               Serving("grant", {"find", "apply", "push"}), Serving("install", {"put"}),
               Serving("close", StopSteps)}
Closing == \A q \in Requests : at[q] # "idle" /\ arg[q].op = "close" => closed
Files ==
  /\ ~rec.there => ~rec.enabled /\ rec.grants = 0
  /\ ~torn =>
       /\ rec.there => rec.version \in unpacked
       /\ \A q \in Requests : at[q] = "put" => arg[q].version \in unpacked
       /\ (\A q \in Requests : at[q] \notin {"put", "purge"}) => (~rec.there => unpacked = {})
Recorded == Ops /\ Closing /\ Files

(* What is recorded runs, or somebody is on the way to start it; what is   *)
(* not to run is on the way to be stopped.                                 *)
Coming ==
  Serving("enable", StopSteps \cup {"load", "register"})
  \cup Serving("remove", {"cancel", "await", "delete"}) \cup Serving("install", {"put"})
EnabledRuns ==
  Manager!Wanted /\ rec.version \in unpacked /\ excuse = {} => cur # None \/ Coming # {}
DisabledRests ==
  ~Manager!Wanted /\ excuse = {} /\ cur # None =>
    \/ \E r \in Runners : at[r] = "take"
    \/ \E q \in Requests : at[q] = "take" /\ arg[q].op # "enable"
AsRecorded == EnabledRuns /\ DisabledRests

(* The grants of the registered runner, and of its session, are those on   *)
(* record, or a request is on its way with them.                           *)
Granting(r) ==
  {q \in Serving("grant", {"find"}) : arg[q].grants = rec.grants}
  \cup {q \in Serving("grant", {"apply"}) : arg[q].grants = rec.grants /\ target[q] = r}
Pushing(r) == {q \in Requests : at[q] = "push" /\ target[q] = r /\ arg[q].grants = rec.grants}
RunnerGrants ==
  "replaced" \notin excuse /\ cur # None /\ cur \notin outdated =>
    run[cur].grants = rec.grants \/ Granting(cur) # {}
SessionGrants ==
  "replaced" \notin excuse /\ cur # None /\ cur \notin stale \cup outdated
  /\ at[cur] \in {"attach", "serve"} =>
    run[cur].sess = {rec.grants} \/ Granting(cur) # {} \/ Pushing(cur) # {}
Granted == RunnerGrants /\ SessionGrants

(* A plugin that was turned off publishes nothing.                         *)
Silent == quiet => ~readings /\ \A r \in Runners : at[r] \in {"done", "cancel", "await"}

ManagerInv == Typed /\ Runs /\ Recorded /\ AsRecorded /\ Granted /\ Silent

(* The history variables.                                                  *)
Histories ==
  /\ excuse \subseteq {"replaced", "overtaken"} /\ stale \subseteq Runners
  /\ outdated \subseteq Runners /\ crossed \subseteq Runners
  /\ quiet \in BOOLEAN /\ torn \in BOOLEAN

LEMMA Agencies ==
  /\ None \notin Runners /\ Requests \cap Runners = {} /\ BreakerCrashes \in Nat \ {0}
  /\ MaxGrants \in Nat /\ MaxEvents \in Nat /\ Runners # {}
  BY ConstantsAssumption DEF Manager!PluginConstants

(* What a boot leaves, at the start and after a restart.                   *)
Boot ==
  /\ rec \in Manager!Record /\ unpacked \subseteq Versions /\ cur = Manager!Booted
  /\ at = Manager!Idle(cur) /\ target = Manager!NoTarget
  /\ arg = [q \in Requests |-> Manager!NoOp] /\ run = Manager!Started
  /\ readings = FALSE /\ closed = FALSE
  /\ excuse = {} /\ stale = {} /\ outdated = {} /\ crossed = {}
  /\ quiet = ~rec.enabled /\ torn \in BOOLEAN /\ events \in 0 .. MaxEvents

LEMMA BootIsTyped == Boot => Typed
<1> SUFFICES ASSUME Boot PROVE Typed
  OBVIOUS
<1> USE Agencies
<1>1. cur \in Runners \cup {None}
  BY DEF Boot, Manager!Booted, Manager!Any
<1>2. /\ \A q \in Requests : at[q] = "idle"
      /\ \A r \in Runners : at[r] = IF r = cur THEN "head" ELSE "done"
      /\ at \in [Manager!Agents -> {"idle", "head", "done"}]
  BY DEF Boot, Manager!Idle, Manager!Agents
<1>3. target \in [Manager!Agents -> Runners \cup {None}]
  BY DEF Boot, Manager!NoTarget
<1>4. rec.version \in Versions /\ rec.grants \in Manager!GrantSets
  BY DEF Boot, Manager!Record
<1>5. arg \in [Requests -> Manager!Op]
  <2>1. 0 \in Manager!GrantSets
    BY DEF Manager!GrantSets
  <2>2. Manager!NoOp \in Manager!Op
    BY <1>4, <2>1 DEF Manager!NoOp, Manager!Op
  <2> QED
    BY <2>2 DEF Boot
<1>6. run \in [Runners -> Manager!Runner]
  <2>1. 0 \in 0 .. BreakerCrashes
    OBVIOUS
  <2>2. Manager!New(rec.version, rec.grants) \in Manager!Runner
    BY <1>4, <2>1 DEF Manager!New, Manager!Runner
  <2> QED
    BY <2>2 DEF Boot, Manager!Started
<1>7. \A r \in Runners : run[r].sess = {} /\ run[r].crashes = 0
  BY DEF Boot, Manager!Started, Manager!New
<1>8. Manager!TypeOK
  <2>1. \A a \in Manager!Agents : at[a] \notin {"cancel", "await", "apply", "attach", "serve"}
    BY <1>2 DEF Manager!Agents
  <2>2. \A r \in Runners : run[r].sess # {} <=> at[r] \in {"attach", "serve"}
    BY <1>2, <1>7
  <2> QED
    BY <1>1, <1>2, <1>3, <1>5, <1>6, <2>1, <2>2 DEF Boot, Manager!TypeOK
<1> QED
  BY <1>2, <1>7, <1>8 DEF Typed, Roles, Spare, Pushes, RequestSteps, LiveSteps

LEMMA RestartBoots ==
  ASSUME Typed, Manager!Restart PROVE Boot'
<1>1. rec \in Manager!Record /\ unpacked \subseteq Versions /\ torn \in BOOLEAN
      /\ events \in 0 .. MaxEvents
  BY DEF Typed, Manager!TypeOK
<1>2. events' \in 0 .. MaxEvents /\ torn' \in BOOLEAN
  BY <1>1, Agencies DEF Manager!Restart
<1>3. cur' = Manager!Booted'
  BY DEF Manager!Restart, Manager!Booted, Manager!record
<1> QED
  BY <1>1, <1>2, <1>3
     DEF Manager!Restart, Boot, Manager!Idle, Manager!Started, Manager!NoTarget, Manager!NoOp,
         Manager!record

LEMMA RecordTypes ==
  ASSUME NEW x \in Manager!Record
  PROVE  /\ x.there \in BOOLEAN /\ x.enabled \in BOOLEAN /\ x.version \in Versions
         /\ x.grants \in Manager!GrantSets
         /\ [x EXCEPT !.enabled = TRUE] \in Manager!Record
         /\ [x EXCEPT !.enabled = FALSE] \in Manager!Record
         /\ \A g \in Manager!GrantSets : [x EXCEPT !.grants = g] \in Manager!Record
         /\ [x EXCEPT !.there = FALSE, !.enabled = FALSE, !.grants = 0] \in Manager!Record
         /\ \A v \in Versions :
              [there |-> TRUE, enabled |-> FALSE, version |-> v, grants |-> 0] \in Manager!Record
<1>1. 0 \in Manager!GrantSets
  BY Agencies DEF Manager!GrantSets
<1>2. /\ x.there \in BOOLEAN /\ x.enabled \in BOOLEAN /\ x.version \in Versions
      /\ x.grants \in Manager!GrantSets
  BY DEF Manager!Record
<1>3. [x EXCEPT !.enabled = TRUE] \in Manager!Record /\ [x EXCEPT !.enabled = FALSE] \in Manager!Record
  BY DEF Manager!Record
<1>4. \A g \in Manager!GrantSets : [x EXCEPT !.grants = g] \in Manager!Record
  BY DEF Manager!Record
<1>5. [x EXCEPT !.there = FALSE, !.enabled = FALSE, !.grants = 0] \in Manager!Record
  BY <1>1 DEF Manager!Record
<1>6. \A v \in Versions :
        [there |-> TRUE, enabled |-> FALSE, version |-> v, grants |-> 0] \in Manager!Record
  BY <1>1 DEF Manager!Record
<1> QED
  BY <1>2, <1>3, <1>4, <1>5, <1>6

LEMMA RunnerTypes ==
  ASSUME NEW x \in Manager!Runner
  PROVE  /\ x.grants \in Manager!GrantSets /\ x.crashes \in 0 .. BreakerCrashes
         /\ [x EXCEPT !.cancelled = TRUE] \in Manager!Runner
         /\ \A g \in Manager!GrantSets : [x EXCEPT !.grants = g] \in Manager!Runner
         /\ \A s \in SUBSET Manager!GrantSets : [x EXCEPT !.sess = s] \in Manager!Runner
         /\ \A n \in 0 .. BreakerCrashes : [x EXCEPT !.crashes = n] \in Manager!Runner
  BY DEF Manager!Runner

LEMMA NewTypes ==
  ASSUME NEW v \in Versions, NEW g \in Manager!GrantSets
  PROVE  /\ Manager!New(v, g) \in Manager!Runner
         /\ Manager!New(v, g).sess = {} /\ Manager!New(v, g).crashes = 0
         /\ Manager!New(v, g).cancelled = FALSE /\ Manager!New(v, g).grants = g
<1>1. 0 \in 0 .. BreakerCrashes
  BY Agencies
<1> QED
  BY <1>1 DEF Manager!New, Manager!Runner

LEMMA OpTypes ==
  ASSUME NEW x \in Manager!Op
  PROVE  x.version \in Versions /\ x.grants \in Manager!GrantSets
  BY DEF Manager!Op

LEMMA HistoriesNext ==
  ASSUME Typed, [Manager!Next]_(Manager!vars) PROVE Histories'
<1> USE DEF Typed, Manager!TypeOK, Histories, Manager!history
<1>1. ASSUME NEW q \in Requests, Manager!Call(q) PROVE Histories'
  BY <1>1 DEF Manager!Call, Manager!Enable, Manager!Disable, Manager!Remove, Manager!SetGrants,
              Manager!Install, Manager!Close
<1>2. ASSUME NEW q \in Requests, Manager!Load(q) \/ Manager!Delete(q) \/ Manager!Put(q)
      PROVE  Histories'
  BY <1>2 DEF Manager!Load, Manager!Delete, Manager!Put
<1>3. ASSUME NEW q \in Requests, Manager!Register(q) PROVE Histories'
  <2>1. PICK r \in Runners :
          /\ stale' = stale \ {r} /\ outdated' = Manager!Gives(q, r)
          /\ crossed' = IF Manager!Busy(q) THEN crossed \cup {r} ELSE crossed \ {r}
          /\ excuse' = IF Manager!Wanted THEN {} ELSE {"overtaken"}
          /\ quiet' = FALSE /\ torn' = torn
    BY <1>3 DEF Manager!Register
  <2> QED
    BY <2>1 DEF Manager!Gives
<1>4. ASSUME NEW q \in Requests, Manager!ClearSource(q) \/ Manager!Purge(q) \/ Manager!Find(q)
      PROVE  Histories'
  <2>1. UNCHANGED <<excuse, stale, outdated, crossed>>
    BY <1>4 DEF Manager!ClearSource, Manager!Purge, Manager!Find
  <2>2. quiet' \in BOOLEAN /\ torn' \in BOOLEAN
    BY <1>4 DEF Manager!ClearSource, Manager!Purge, Manager!Find
  <2> QED
    BY <2>1, <2>2
<1>5. ASSUME NEW q \in Requests, Manager!Apply(q) \/ Manager!Push(q) PROVE Histories'
  <2>1. at[q] = "apply" => target[q] \in Runners
    BY Agencies DEF Manager!Agents
  <2>2. outdated' \subseteq Runners /\ stale' \subseteq Runners
    BY <1>5, <2>1, Agencies DEF Manager!Apply, Manager!Push, Manager!Gives, Manager!Agents
  <2> QED
    BY <1>5, <2>2 DEF Manager!Apply, Manager!Push
<1>6. ASSUME NEW a \in Manager!Agents, Manager!Stop(a) PROVE Histories'
  BY <1>6 DEF Manager!Stop, Manager!Take, Manager!Cancel, Manager!Await
<1>7. ASSUME NEW r \in Runners,
             \/ Manager!Head(r) \/ Manager!Start(r) \/ Manager!Attach(r) \/ Manager!Exited(r)
             \/ Manager!Trip(r) \/ Manager!Publish(r) \/ Manager!Exit(r)
      PROVE  Histories'
  BY <1>7 DEF Manager!Head, Manager!Start, Manager!Attach, Manager!Exited, Manager!Trip,
              Manager!Publish, Manager!Exit
<1>8. CASE Manager!Restart
  <2>1. /\ excuse' = {} /\ stale' = {} /\ outdated' = {} /\ crossed' = {}
        /\ quiet' \in BOOLEAN /\ torn' \in BOOLEAN
    BY <1>8 DEF Manager!Restart
  <2> QED
    BY <2>1
<1>9. CASE UNCHANGED Manager!vars
  BY <1>9 DEF Manager!vars
<1> QED
  BY <1>1, <1>2, <1>3, <1>4, <1>5, <1>6, <1>7, <1>8, <1>9
     DEF Manager!Next, Manager!Serve, Manager!Step, Manager!Agents

LEMMA TypedNext ==
  ASSUME Typed, [Manager!Next]_(Manager!vars) PROVE Typed'
<1> USE Agencies
    DEF Manager!Agents, Manager!record, Manager!agents, Typed, Manager!TypeOK, Roles, Spare,
        Pushes, RequestSteps, LiveSteps, Histories
<1>0. Histories'
  BY HistoriesNext
<1> USE <1>0
<1>1. ASSUME NEW q \in Requests, Manager!Call(q) PROVE Typed'
  <2>1. PICK op \in {"enable", "disable", "remove", "grant", "install", "close"},
             version \in Versions, grantsOf \in Manager!GrantSets,
             step \in {"load", "take", "put", "find"} :
          Manager!Accept(q, op, version, grantsOf, step)
    <3>1. 0 \in Manager!GrantSets
      BY DEF Manager!GrantSets
    <3> QED
      BY <1>1, <3>1, RecordTypes
         DEF Manager!Call, Manager!Enable, Manager!Disable, Manager!Remove, Manager!SetGrants,
             Manager!Install, Manager!Close
  <2>2. rec' \in Manager!Record
    <3>1. \/ rec' = rec \/ rec' = [rec EXCEPT !.enabled = TRUE]
          \/ rec' = [rec EXCEPT !.enabled = FALSE]
          \/ \E g \in Manager!GrantSets : rec' = [rec EXCEPT !.grants = g]
      BY <1>1
         DEF Manager!Call, Manager!Enable, Manager!Disable, Manager!Remove, Manager!SetGrants,
             Manager!Install, Manager!Close
    <3>2. rec \in Manager!Record
      OBVIOUS
    <3>3. \A g \in Manager!GrantSets : [rec EXCEPT !.grants = g] \in Manager!Record
      BY <3>2, RecordTypes
    <3>4. [rec EXCEPT !.enabled = TRUE] \in Manager!Record /\ [rec EXCEPT !.enabled = FALSE] \in Manager!Record
      BY <3>2, RecordTypes
    <3> HIDE DEF Typed
    <3> QED
      BY <3>1, <3>2, <3>3, <3>4
  <2>3. /\ unpacked' \subseteq Versions /\ closed' \in BOOLEAN
        /\ UNCHANGED <<cur, target, run, readings>>
    BY <1>1
       DEF Manager!Call, Manager!Enable, Manager!Disable, Manager!Remove, Manager!SetGrants,
           Manager!Install, Manager!Close
  <2>4. /\ events' \in 0 .. MaxEvents
        /\ arg' \in [Requests -> Manager!Op]
    <3>1. [op |-> op, version |-> version, grants |-> grantsOf] \in Manager!Op
      BY DEF Manager!Op
    <3> QED
      BY <2>1, <3>1 DEF Manager!Accept
  <2>5. at' = [at EXCEPT ![q] = step]
    BY <2>1 DEF Manager!Accept
  <2> QED
    BY <2>2, <2>3, <2>4, <2>5
<1>2. ASSUME NEW q \in Requests, Manager!Load(q) PROVE Typed'
  BY <1>2 DEF Manager!Load
<1>3. ASSUME NEW q \in Requests, Manager!Register(q) PROVE Typed'
  <2>1. PICK r \in Runners :
          /\ Manager!Free(r) /\ cur # r
          /\ run' = [run EXCEPT ![r] = Manager!New(arg[q].version, arg[q].grants)]
          /\ cur' = r
          /\ at' = [at EXCEPT ![q] = "idle", ![r] = "head"]
    BY <1>3 DEF Manager!Register
  <2>2. /\ Manager!New(arg[q].version, arg[q].grants) \in Manager!Runner
        /\ Manager!New(arg[q].version, arg[q].grants).sess = {}
        /\ Manager!New(arg[q].version, arg[q].grants).crashes = 0
    <3>1. arg[q] \in Manager!Op
      OBVIOUS
    <3>2. arg[q].version \in Versions /\ arg[q].grants \in Manager!GrantSets
      BY <3>1, OpTypes
    <3>3. Manager!New(arg[q].version, arg[q].grants) \in Manager!Runner
      BY <3>2, NewTypes
    <3> QED
      BY <3>3 DEF Manager!New
  <2>3. at[r] = "done" /\ \A p \in Requests : target[p] # r
    BY <2>1 DEF Manager!Free
  <2>4. run' \in [Runners -> Manager!Runner] /\ cur' \in Runners
    BY <2>1, <2>2
  <2>5. /\ \A p \in Requests : at'[p] = IF p = q THEN "idle" ELSE at[p]
        /\ \A s \in Runners : at'[s] = IF s = r THEN "head" ELSE at[s]
        /\ at' \in [Manager!Agents ->
                      {"idle", "load", "register", "clear", "delete", "purge", "put",
                       "find", "apply", "push", "take", "cancel", "await", "done", "head",
                       "start", "attach", "serve", "exited", "backoff", "trip"}]
    BY <1>3, <2>1
  <2>6. \A s \in Runners :
          \/ s = r /\ run'[s].sess = {} /\ run'[s].crashes = 0
          \/ s # r /\ run'[s] = run[s]
    <3> HIDE DEF Typed
    <3>1. run \in [Runners -> Manager!Runner]
      BY DEF Typed
    <3> QED
      BY <2>1, <2>2, <3>1
  <2>7. \A s \in Runners : run'[s].sess # {} <=> at'[s] \in {"attach", "serve"}
    BY <2>5, <2>6
  <2>8. Spare'
    BY <2>5, <2>6
  <2>9. UNCHANGED <<rec, unpacked, target, arg, readings, closed, events>>
    BY <1>3, <2>1 DEF Manager!Register
  <2>10. \A a \in Manager!Agents : at'[a] \in {"cancel", "await", "apply"} => target[a] # None
    BY <2>1, <2>5
  <2>11. Pushes'
    BY <2>3, <2>5, <2>9
  <2>12. Roles'
    BY <2>5
  <2>13. Manager!TypeOK'
    BY <2>4, <2>5, <2>7, <2>9, <2>10
  <2> QED
    BY <2>8, <2>11, <2>12, <2>13
<1>4. ASSUME NEW q \in Requests, Manager!ClearSource(q) PROVE Typed'
  <2>1. /\ at[q] = "clear" /\ at' = [at EXCEPT ![q] = "idle"] /\ readings' = FALSE
        /\ UNCHANGED <<rec, unpacked, cur, target, arg, run, closed, events>>
    BY <1>4 DEF Manager!ClearSource
  <2>2. readings' \in BOOLEAN
    BY <2>1
  <2> QED
    BY <2>1, <2>2
<1>5. ASSUME NEW q \in Requests, Manager!Delete(q) \/ Manager!Purge(q) PROVE Typed'
  <2>1. [rec EXCEPT !.there = FALSE, !.enabled = FALSE, !.grants = 0] \in Manager!Record
    BY RecordTypes
  <2>2. rec' \in Manager!Record /\ unpacked' \subseteq Versions
    BY <1>5, <2>1 DEF Manager!Delete, Manager!Purge
  <2> QED
    BY <1>5, <2>2 DEF Manager!Delete, Manager!Purge
<1>6. ASSUME NEW q \in Requests, Manager!Put(q) PROVE Typed'
  BY <1>6, RecordTypes, OpTypes DEF Manager!Put
<1>7. ASSUME NEW q \in Requests, Manager!Find(q) PROVE Typed'
  BY <1>7 DEF Manager!Find
<1>8. ASSUME NEW q \in Requests, Manager!Apply(q) PROVE Typed'
  <2>1. target[q] \in Runners /\ arg[q].grants \in Manager!GrantSets /\ run[target[q]] \in Manager!Runner
    <3>1. arg[q] \in Manager!Op /\ target[q] \in Runners
      BY <1>8 DEF Manager!Apply
    <3> QED
      BY <3>1, OpTypes
  <2>2. /\ run' = [run EXCEPT ![target[q]] = [run[target[q]] EXCEPT !.grants = arg[q].grants]]
        /\ at' = [at EXCEPT ![q] = "push"]
        /\ target' = [target EXCEPT ![q] = IF at[target[q]] = "serve" THEN target[q] ELSE None]
        /\ UNCHANGED <<rec, unpacked, cur, arg, readings, closed, events>>
    BY <1>8, <2>1 DEF Manager!Apply
  <2>3. run' \in [Runners -> Manager!Runner]
    <3>1. [run[target[q]] EXCEPT !.grants = arg[q].grants] \in Manager!Runner
      BY <2>1, RunnerTypes
    <3> QED
      BY <2>2, <3>1
  <2>4. \A s \in Runners : run'[s].sess = run[s].sess /\ run'[s].crashes = run[s].crashes
    BY <2>1, <2>2 DEF Manager!Runner
  <2>5. /\ \A s \in Runners : at'[s] = at[s]
        /\ at[q] \in {"apply"}
    BY <1>8, <2>2 DEF Manager!Apply
  <2>6. \A s \in Runners : run'[s].sess # {} <=> at'[s] \in {"attach", "serve"}
    BY <2>4, <2>5
  <2>7. Spare'
    BY <2>4, <2>5
  <2> QED
    BY <2>1, <2>2, <2>3, <2>5, <2>6, <2>7
<1>9. ASSUME NEW q \in Requests, Manager!Push(q) PROVE Typed'
  <2>1. /\ at' = [at EXCEPT ![q] = "idle"] /\ target' = [target EXCEPT ![q] = None]
        /\ UNCHANGED <<rec, unpacked, cur, arg, readings, closed, events>>
    BY <1>9 DEF Manager!Push
  <2>2. run' \in [Runners -> Manager!Runner]
        /\ \A s \in Runners : run'[s].crashes = run[s].crashes
                                /\ (run'[s].sess # {} <=> run[s].sess # {})
    <3>1. CASE target[q] = None
      BY <1>9, <3>1 DEF Manager!Push
    <3>2. CASE target[q] # None
      <4>1. arg[q] \in Manager!Op /\ target[q] \in Runners /\ at[target[q]] = "serve"
        BY <1>9, <3>2 DEF Manager!Push
      <4>2. {arg[q].grants} \in SUBSET Manager!GrantSets /\ run[target[q]] \in Manager!Runner
        BY <4>1, OpTypes
      <4>3. [run[target[q]] EXCEPT !.sess = {arg[q].grants}] \in Manager!Runner
        BY <4>2, RunnerTypes
      <4>4. run' = [run EXCEPT ![target[q]] = [run[target[q]] EXCEPT !.sess = {arg[q].grants}]]
        BY <1>9, <3>2 DEF Manager!Push
      <4>5. run' \in [Runners -> Manager!Runner]
        BY <4>3, <4>4
      <4>6. run[target[q]].sess # {}
        BY <4>1
      <4>7. /\ run'[target[q]].sess = {arg[q].grants}
            /\ run'[target[q]].crashes = run[target[q]].crashes
            /\ \A s \in Runners \ {target[q]} : run'[s] = run[s]
        BY <4>1, <4>2, <4>4 DEF Manager!Runner
      <4> QED
        BY <4>5, <4>6, <4>7
    <3> QED
      BY <3>1, <3>2
  <2> QED
    BY <2>1, <2>2
<1>10. ASSUME NEW a \in Manager!Agents, Manager!Take(a) PROVE Typed'
  BY <1>10 DEF Manager!Take, Manager!AfterStop
<1>11. ASSUME NEW a \in Manager!Agents, Manager!Cancel(a) PROVE Typed'
  BY <1>11, RunnerTypes DEF Manager!Cancel
<1>12. ASSUME NEW a \in Manager!Agents, Manager!Await(a) PROVE Typed'
  BY <1>12 DEF Manager!Await, Manager!AfterStop
<1>13. ASSUME NEW r \in Runners, Manager!Head(r) \/ Manager!Attach(r) PROVE Typed'
  <2>1. CASE Manager!Head(r)
    BY <2>1 DEF Manager!Head
  <2>2. CASE Manager!Attach(r)
    <3>1. \A s \in Runners : at'[s] \in {"attach", "serve"} <=> at[s] \in {"attach", "serve"}
      BY <2>2 DEF Manager!Attach
    <3>2. at' = [at EXCEPT ![r] = "serve"] /\ at[r] = "attach"
          /\ UNCHANGED <<rec, unpacked, cur, target, arg, run, readings, closed, events>>
      BY <2>2 DEF Manager!Attach
    <3> QED
      BY <3>1, <3>2
  <2> QED
    BY <1>13, <2>1, <2>2
<1>14. ASSUME NEW r \in Runners, Manager!Start(r) PROVE Typed'
  <2>1. run[r] \in Manager!Runner /\ {run[r].grants} \in SUBSET Manager!GrantSets
    <3>1. run[r] \in Manager!Runner
      OBVIOUS
    <3>2. run[r].grants \in Manager!GrantSets
      BY <3>1, RunnerTypes
    <3> QED
      BY <3>1, <3>2
  <2>2. UNCHANGED <<rec, unpacked, cur, target, arg, readings, closed, events>> /\ at[r] = "start"
    BY <1>14 DEF Manager!Start
  <2>3. CASE at' = [at EXCEPT ![r] = "exited"] /\ UNCHANGED run
    BY <2>2, <2>3
  <2>4. CASE /\ run' = [run EXCEPT ![r] = [run[r] EXCEPT !.sess = {run[r].grants}]]
             /\ at' = [at EXCEPT ![r] = "attach"]
    <3>1. [run[r] EXCEPT !.sess = {run[r].grants}] \in Manager!Runner
      BY <2>1, RunnerTypes
    <3>2. run' \in [Runners -> Manager!Runner]
      BY <2>4, <3>1
    <3>3. /\ run'[r].sess = {run[r].grants} /\ run'[r].crashes = run[r].crashes
          /\ \A s \in Runners \ {r} : run'[s] = run[s]
      BY <2>1, <2>4 DEF Manager!Runner
    <3>4. \A s \in Runners : run'[s].sess # {} <=> at'[s] \in {"attach", "serve"}
      BY <2>4, <3>3
    <3> QED
      BY <2>2, <2>4, <3>2, <3>3, <3>4
  <2> QED
    BY <1>14, <2>3, <2>4 DEF Manager!Start
<1>15. ASSUME NEW r \in Runners, Manager!Exited(r) PROVE Typed'
  <2>1. run[r] \in Manager!Runner
    OBVIOUS
  <2>2. UNCHANGED <<rec, unpacked, cur, target, arg, readings, closed, events>> /\ at[r] = "exited"
    BY <1>15 DEF Manager!Exited
  <2>3. CASE at' = [at EXCEPT ![r] = "done"] /\ UNCHANGED run
    BY <2>2, <2>3
  <2>4. CASE ~run[r].cancelled
    <3>1. PICK kept \in 0 .. run[r].crashes :
            /\ run' = [run EXCEPT ![r] = [run[r] EXCEPT !.crashes = kept + 1]]
            /\ at' = [at EXCEPT ![r] = IF kept + 1 >= BreakerCrashes THEN "trip" ELSE "backoff"]
      BY <1>15, <2>4 DEF Manager!Exited
    <3>2. run[r].crashes \in 0 .. BreakerCrashes /\ run[r].crashes < BreakerCrashes
      BY <2>1, <2>2, RunnerTypes
    <3>3. kept + 1 \in 0 .. BreakerCrashes
      BY <3>2
    <3>4. [run[r] EXCEPT !.crashes = kept + 1] \in Manager!Runner
      BY <2>1, <3>3, RunnerTypes
    <3>5. run' \in [Runners -> Manager!Runner]
      BY <3>1, <3>4
    <3>6. /\ run'[r].sess = run[r].sess /\ run'[r].crashes = kept + 1
          /\ \A s \in Runners \ {r} : run'[s] = run[s]
      BY <2>1, <3>1 DEF Manager!Runner
    <3>7. \A s \in Runners : run'[s].sess # {} <=> at'[s] \in {"attach", "serve"}
      BY <2>2, <3>1, <3>6
    <3>8. Spare'
      <4>1. at'[r] = IF kept + 1 >= BreakerCrashes THEN "trip" ELSE "backoff"
        BY <3>1
      <4>2. \A s \in Runners \ {r} : at'[s] = at[s]
        BY <3>1
      <4> QED
        BY <3>3, <3>6, <4>1, <4>2
    <3> QED
      BY <2>2, <3>1, <3>5, <3>7, <3>8
  <2> QED
    BY <1>15, <2>3, <2>4 DEF Manager!Exited
<1>16. ASSUME NEW r \in Runners, Manager!Trip(r) PROVE Typed'
  BY <1>16, RecordTypes DEF Manager!Trip
<1>17. ASSUME NEW r \in Runners, Manager!Publish(r) PROVE Typed'
  BY <1>17 DEF Manager!Publish
<1>18. ASSUME NEW r \in Runners, Manager!Exit(r) PROVE Typed'
  <2>1. /\ run' = [run EXCEPT ![r] = [run[r] EXCEPT !.sess = {}]] /\ run[r] \in Manager!Runner
        /\ at' = [at EXCEPT ![r] = "exited"] /\ at[r] = "serve"
        /\ target' = [a \in Manager!Agents |->
                        IF at[a] = "push" /\ target[a] = r THEN None ELSE target[a]]
        /\ UNCHANGED <<rec, unpacked, cur, arg, readings, closed, events>>
    BY <1>18 DEF Manager!Exit
  <2>2. [run[r] EXCEPT !.sess = {}] \in Manager!Runner
    BY <2>1, RunnerTypes
  <2>3. run' \in [Runners -> Manager!Runner]
    BY <2>1, <2>2
  <2>4. /\ run'[r].sess = {} /\ run'[r].crashes = run[r].crashes
        /\ \A s \in Runners \ {r} : run'[s] = run[s]
    BY <2>1 DEF Manager!Runner
  <2>5. \A s \in Runners : run'[s].sess # {} <=> at'[s] \in {"attach", "serve"}
    BY <2>1, <2>4
  <2>6. Spare'
    BY <2>1, <2>4
  <2>7. target' \in [Manager!Agents -> Runners \cup {None}]
        /\ \A a \in Manager!Agents : at'[a] \in {"cancel", "await", "apply"} => target'[a] # None
    BY <2>1
  <2>8. Pushes'
    BY <2>1
  <2> QED
    BY <2>1, <2>3, <2>5, <2>6, <2>7, <2>8
<1>19. CASE Manager!Restart
  BY <1>19, RestartBoots, BootIsTyped, PTL
<1>20. CASE UNCHANGED Manager!vars
  BY <1>20 DEF Manager!vars
<1> QED
  BY <1>1, <1>2, <1>3, <1>4, <1>5, <1>6, <1>7, <1>8, <1>9, <1>10, <1>11, <1>12, <1>13, <1>14,
     <1>15, <1>16, <1>17, <1>18, <1>19, <1>20
     DEF Manager!Next, Manager!Serve, Manager!Step, Manager!Stop

(* What runs.                                                              *)
LEMMA BootRuns ==
  ASSUME Boot PROVE Runs
<1>1. /\ \A q \in Requests : at[q] = "idle"
      /\ \A r \in Runners : at[r] = IF r = cur THEN "head" ELSE "done"
  BY Agencies DEF Boot, Manager!Idle, Manager!Agents
<1>2. \A r \in Runners : ~run[r].cancelled
  BY DEF Boot, Manager!Started, Manager!New
<1>3. cur \in Runners \cup {None}
  BY Agencies DEF Boot, Manager!Booted, Manager!Any
<1>4. \A a \in Manager!Agents : at[a] \in {"idle", "head", "done"}
  BY <1>1 DEF Manager!Agents
<1>5. Accounted /\ Awaited /\ Taken /\ Alone
  BY <1>1, <1>4 DEF Accounted, Awaited, Taken, Alone, Stopping
<1>6. CurLives /\ Single
  BY <1>1, <1>2, <1>3 DEF CurLives, Single, LiveSteps
<1> QED
  BY <1>5, <1>6 DEF Runs

LEMMA RunsNext ==
  ASSUME Typed, Runs, Manager!Next PROVE Runs'
<1> USE Agencies
    DEF Runs, Accounted, Awaited, CurLives, Taken, Alone, Single, Stuck, Stopping,
        Manager!Agents, RequestSteps, LiveSteps, Manager!history
<1>0. /\ at \in [Manager!Agents -> RequestSteps \cup LiveSteps \cup {"done"}]
      /\ Roles /\ cur \in Runners \cup {None}
      /\ target \in [Manager!Agents -> Runners \cup {None}]
      /\ run \in [Runners -> Manager!Runner]
      /\ \A a \in Manager!Agents : at[a] \in {"cancel", "await", "apply"} => target[a] # None
  BY DEF Typed, Manager!TypeOK
<1>1. ASSUME NEW q \in Requests, Manager!Call(q) PROVE Runs'
  <2>1. PICK step \in {"load", "take", "put", "find"} : at' = [at EXCEPT ![q] = step]
    BY <1>1
       DEF Manager!Call, Manager!Enable, Manager!Disable, Manager!Remove, Manager!SetGrants,
           Manager!Install, Manager!Close, Manager!Accept
  <2>2. at[q] = "idle" /\ UNCHANGED <<cur, target, run, crossed>>
    BY <1>1
       DEF Manager!Call, Manager!Enable, Manager!Disable, Manager!Remove, Manager!SetGrants,
           Manager!Install, Manager!Close, Manager!Accept
  <2> QED
    BY <1>0, <2>1, <2>2
<1>2. ASSUME NEW q \in Requests,
             \/ Manager!Load(q) \/ Manager!ClearSource(q) \/ Manager!Delete(q)
             \/ Manager!Purge(q) \/ Manager!Put(q) \/ Manager!Find(q)
      PROVE  Runs'
  <2>1. PICK step \in {"take", "idle", "purge", "clear", "apply"} : at' = [at EXCEPT ![q] = step]
    BY <1>2
       DEF Manager!Load, Manager!ClearSource, Manager!Delete, Manager!Purge, Manager!Put,
           Manager!Find
  <2>2. /\ UNCHANGED <<cur, run, crossed>> /\ at[q] \notin {"cancel", "await"}
        /\ \A a \in Manager!Agents \ {q} : target'[a] = target[a]
    BY <1>0, <1>2, <2>1
       DEF Manager!Load, Manager!ClearSource, Manager!Delete, Manager!Purge, Manager!Put,
           Manager!Find
  <2> QED
    BY <1>0, <2>1, <2>2
<1>3. ASSUME NEW q \in Requests, Manager!Register(q) PROVE Runs'
  <2>1. PICK r \in Runners :
          /\ Manager!Free(r) /\ cur # r /\ cur' = r
          /\ run' = [run EXCEPT ![r] = Manager!New(arg[q].version, arg[q].grants)]
          /\ at' = [at EXCEPT ![q] = "idle", ![r] = "head"]
          /\ crossed' = IF Manager!Busy(q) THEN crossed \cup {r} ELSE crossed \ {r}
    BY <1>3 DEF Manager!Register
  <2>2. ~run'[r].cancelled /\ at[q] = "register" /\ UNCHANGED target
    BY <1>0, <1>3, <2>1 DEF Manager!Register, Manager!New
  <2>3. /\ at[r] = "done" /\ \A a \in Manager!Agents : target[a] # r
        /\ at'[r] = "head" /\ at'[q] = "idle"
        /\ \A a \in Manager!Agents \ {q, r} : at'[a] = at[a]
        /\ \A s \in Runners \ {r} : run'[s] = run[s]
        /\ \A s \in Runners \ {r} : s \in crossed' <=> s \in crossed
    BY <1>0, <2>1 DEF Manager!Free
  <2>4. cur = None \/ cur \in crossed
    BY <2>2
  <2>5. \A s \in Runners \ crossed : at[s] # "done" =>
          Stuck(s) \/ \E a \in Manager!Agents : Stopping(a) /\ target[a] = s
    BY <2>4
  <2>6. r \notin crossed' => \A a \in Manager!Agents \ {q} :
          at[a] # "register" /\ (Stopping(a) => target[a] = a)
    BY <2>1 DEF Manager!Busy
  <2>7. Accounted'
    <3> SUFFICES ASSUME NEW s \in Runners, s \notin crossed', at'[s] # "done", s # r
                 PROVE  Stuck(s)' \/ \E a \in Manager!Agents : Stopping(a)' /\ target'[a] = s
      BY <2>1
    <3>1. Stuck(s) \/ \E a \in Manager!Agents : Stopping(a) /\ target[a] = s
      BY <2>2, <2>3, <2>5
    <3>2. \A a \in Manager!Agents : at[a] \in {"cancel", "await"} => at'[a] = at[a]
      BY <2>2, <2>3
    <3> QED
      BY <2>2, <3>1, <3>2
  <2>8. Awaited' /\ CurLives' /\ Taken'
    <3>1. \A a \in Manager!Agents : at'[a] \in {"cancel", "await"} =>
            a # q /\ a # r /\ at'[a] = at[a] /\ target'[a] = target[a] /\ target[a] # r
      BY <2>2, <2>3
    <3>2. \A a \in Manager!Agents : at'[a] \in {"cancel", "await"} => target[a] \in Runners
      BY <1>0, <3>1
    <3>3. Awaited'
      BY <2>3, <3>1, <3>2
    <3>4. CurLives' /\ Taken'
      BY <2>1, <2>2, <2>3, <3>1
    <3> QED
      BY <3>3, <3>4
  <2>9. Alone'
    <3> SUFFICES ASSUME r \notin crossed', NEW a \in Manager!Agents
                 PROVE  at'[a] # "register" /\ (Stopping(a)' => target'[a] = a)
      BY <2>1
    <3>1. CASE a \in {q, r}
      BY <2>3, <3>1
    <3>2. CASE a \notin {q, r}
      BY <2>2, <2>3, <2>6, <3>2
    <3> QED
      BY <3>1, <3>2
  <2>10. Single'
    <3>1. ASSUME NEW s \in Runners \ crossed', at'[s] # "done", ~Stuck(s)', s # r, r \notin crossed'
          PROVE  FALSE
      BY <2>2, <2>3, <2>5, <2>6, <3>1
    <3> QED
      BY <2>2, <2>3, <3>1
  <2> QED
    BY <2>7, <2>8, <2>9, <2>10
<1>4. ASSUME NEW q \in Requests, Manager!Apply(q) \/ Manager!Push(q) PROVE Runs'
  <2>1. /\ UNCHANGED <<cur, crossed>> /\ at[q] \in {"apply", "push"}
        /\ \E step \in {"push", "idle"} : at' = [at EXCEPT ![q] = step]
        /\ \A a \in Manager!Agents \ {q} : target'[a] = target[a]
    BY <1>0, <1>4 DEF Manager!Apply, Manager!Push
  <2>2. \A r \in Runners : run'[r].cancelled = run[r].cancelled
    BY <1>0, <1>4 DEF Manager!Apply, Manager!Push, Manager!Runner
  <2> QED
    BY <1>0, <2>1, <2>2
<1>5. ASSUME NEW a \in Manager!Agents, Manager!Take(a) PROVE Runs'
  <2>1. at[a] = "take" /\ cur' = None /\ UNCHANGED <<run, crossed>>
        /\ target' = [target EXCEPT ![a] = cur]
    BY <1>5 DEF Manager!Take
  <2>2. CASE cur = None
    <3>1. \E step \in {"register", "clear", "delete", "idle", "done"} :
            at' = [at EXCEPT ![a] = step] /\ (a \in Runners => step = "done")
      BY <1>5, <2>2 DEF Manager!Take, Manager!AfterStop
    <3> QED
      BY <1>0, <2>1, <2>2, <3>1
  <2>3. CASE cur # None
    <3>1. at' = [at EXCEPT ![a] = "cancel"]
      BY <1>5, <2>3 DEF Manager!Take
    <3>2. /\ at'[a] = "cancel" /\ target'[a] = cur
          /\ \A b \in Manager!Agents \ {a} : at'[b] = at[b] /\ target'[b] = target[b]
      BY <1>0, <2>1, <3>1
    <3>3. Accounted'
      BY <1>0, <2>1, <3>2
    <3>4. Awaited' /\ CurLives' /\ Taken' /\ Alone'
      BY <1>0, <2>1, <2>3, <3>2
    <3>5. Single'
      BY <1>0, <2>1, <3>2
    <3> QED
      BY <3>3, <3>4, <3>5
  <2> QED
    BY <2>2, <2>3
<1>6. ASSUME NEW a \in Manager!Agents, Manager!Cancel(a) PROVE Runs'
  <2>1. at[a] = "cancel" /\ at' = [at EXCEPT ![a] = "await"] /\ UNCHANGED <<cur, target, crossed>>
    BY <1>6 DEF Manager!Cancel
  <2>2. /\ \A r \in Runners : r # target[a] => run'[r].cancelled = run[r].cancelled
        /\ target[a] \in Runners /\ run'[target[a]].cancelled
    BY <1>0, <1>6, <2>1 DEF Manager!Cancel, Manager!Runner
  <2>3. cur # target[a] /\ (cur # None => cur # a)
    BY <1>0, <2>1
  <2>4. \A r \in Runners : run[r].cancelled => run'[r].cancelled
    BY <2>2
  <2>5. Awaited'
    BY <1>0, <2>1, <2>2, <2>4
  <2>6. CurLives'
    BY <1>0, <2>1, <2>2, <2>3
  <2>7. Accounted' /\ Taken' /\ Alone' /\ Single'
    BY <1>0, <2>1
  <2> QED
    BY <2>5, <2>6, <2>7
<1>7. ASSUME NEW a \in Manager!Agents, Manager!Await(a) PROVE Runs'
  <2>1. /\ at[a] = "await" /\ at[target[a]] = "done" /\ target[a] \in Runners
        /\ target' = [target EXCEPT ![a] = None] /\ UNCHANGED <<cur, run, crossed>>
    BY <1>0, <1>7 DEF Manager!Await
  <2>2. cur = None \/ cur \in crossed
    BY <2>1
  <2>3. \E step \in {"register", "clear", "delete", "idle", "done"} :
            at' = [at EXCEPT ![a] = step] /\ (a \in Runners => step = "done")
    BY <1>7 DEF Manager!Await, Manager!AfterStop
  <2>4. /\ at'[a] \notin {"cancel", "await"} /\ (a \in Runners => at'[a] = "done")
        /\ \A b \in Manager!Agents \ {a} : at'[b] = at[b] /\ target'[b] = target[b]
    BY <1>0, <2>1, <2>3
  <2>5. Accounted' /\ Single'
    BY <1>0, <2>1, <2>4
  <2>6. Awaited' /\ CurLives' /\ Taken' /\ Alone'
    BY <1>0, <2>1, <2>2, <2>4
  <2> QED
    BY <2>5, <2>6
<1>8. ASSUME NEW r \in Runners, Manager!Step(r), ~Manager!Stop(r) PROVE Runs'
  <2>1. /\ UNCHANGED <<cur, target, crossed>> /\ at[r] \in LiveSteps
        /\ \E step \in LiveSteps \cup {"done"} :
             at' = [at EXCEPT ![r] = step] /\ (step = "done" => run[r].cancelled)
    BY <1>0, <1>8
       DEF Manager!Step, Manager!Head, Manager!Start, Manager!Attach, Manager!Exited, Manager!Trip
  <2>2. \A s \in Runners : run'[s].cancelled = run[s].cancelled
    BY <1>0, <1>8
       DEF Manager!Step, Manager!Head, Manager!Start, Manager!Attach, Manager!Exited,
           Manager!Trip, Manager!Runner
  <2> QED
    BY <1>0, <2>1, <2>2
<1>9. ASSUME NEW r \in Runners, Manager!Publish(r) PROVE Runs'
  BY <1>9 DEF Manager!Publish, Manager!agents
<1>10. ASSUME NEW r \in Runners, Manager!Exit(r) PROVE Runs'
  <2>1. /\ UNCHANGED <<cur, crossed>> /\ at[r] = "serve" /\ at' = [at EXCEPT ![r] = "exited"]
        /\ \A a \in Manager!Agents : at[a] # "push" => target'[a] = target[a]
    BY <1>10 DEF Manager!Exit
  <2>2. \A s \in Runners : run'[s].cancelled = run[s].cancelled
    BY <1>0, <1>10 DEF Manager!Exit, Manager!Runner
  <2> QED
    BY <1>0, <2>1, <2>2
<1>11. CASE Manager!Restart
  <2>1. Boot'
    BY <1>11, RestartBoots
  <2> HIDE DEF Runs
  <2> QED
    BY <2>1, BootRuns, PTL
<1> QED
  BY <1>1, <1>2, <1>3, <1>4, <1>5, <1>6, <1>7, <1>8, <1>9, <1>10, <1>11
     DEF Manager!Next, Manager!Serve, Manager!Step, Manager!Stop

(* What is recorded.                                                       *)
LEMMA BootRecorded ==
  ASSUME Boot, Files PROVE Recorded
<1>1. \A q \in Requests : at[q] = "idle"
  BY Agencies DEF Boot, Manager!Idle, Manager!Agents
<1> QED
  BY <1>1 DEF Recorded, Ops, Closing

LEMMA RecordedNext ==
  ASSUME Typed, Recorded, Manager!Next PROVE Recorded'
<1> USE Agencies
    DEF Recorded, Ops, Closing, Files, Serving, StopSteps, Manager!Agents,
        RequestSteps, LiveSteps, Manager!record, Manager!agents, Manager!history
<1>0. /\ at \in [Manager!Agents -> RequestSteps \cup LiveSteps \cup {"done"}]
      /\ Roles /\ rec \in Manager!Record /\ arg \in [Requests -> Manager!Op]
      /\ torn \in BOOLEAN
  BY DEF Typed, Manager!TypeOK
<1>1. ASSUME NEW q \in Requests, Manager!Enable(q) \/ Manager!Disable(q) PROVE Recorded'
  BY <1>0, <1>1 DEF Manager!Enable, Manager!Disable, Manager!Accept, Manager!Record
<1>2. ASSUME NEW q \in Requests, Manager!Remove(q) \/ Manager!Close(q) PROVE Recorded'
  BY <1>0, <1>2 DEF Manager!Remove, Manager!Close, Manager!Accept
<1>3. ASSUME NEW q \in Requests, NEW g \in Manager!GrantSets, Manager!SetGrants(q, g)
      PROVE  Recorded'
  BY <1>0, <1>3 DEF Manager!SetGrants, Manager!Accept, Manager!Record
<1>4. ASSUME NEW q \in Requests, NEW v \in Versions, Manager!Install(q, v) PROVE Recorded'
  BY <1>0, <1>4 DEF Manager!Install, Manager!Accept
<1>5. ASSUME NEW q \in Requests, Manager!Load(q) \/ Manager!Find(q) PROVE Recorded'
  BY <1>0, <1>5 DEF Manager!Load, Manager!Find
<1>6. ASSUME NEW q \in Requests, Manager!Register(q) PROVE Recorded'
  <2>1. PICK r \in Runners : at' = [at EXCEPT ![q] = "idle", ![r] = "head"]
    BY <1>6 DEF Manager!Register
  <2>2. at[q] = "register" /\ UNCHANGED <<rec, unpacked, arg, closed, torn>>
    BY <1>6 DEF Manager!Register
  <2> QED
    BY <1>0, <2>1, <2>2
<1>7. ASSUME NEW q \in Requests, Manager!ClearSource(q) PROVE Recorded'
  BY <1>0, <1>7 DEF Manager!ClearSource
<1>8. ASSUME NEW q \in Requests, Manager!Delete(q) PROVE Recorded'
  BY <1>0, <1>8 DEF Manager!Delete, Manager!Record
<1>9. ASSUME NEW q \in Requests, Manager!Purge(q) PROVE Recorded'
  <2>1. /\ at[q] = "purge" /\ unpacked' = {} /\ at' = [at EXCEPT ![q] = "clear"]
        /\ UNCHANGED <<rec, arg, closed>>
        /\ torn' <=> (torn \/ rec.there \/ \E p \in Requests : at[p] = "put")
    BY <1>9 DEF Manager!Purge
  <2>2. Ops' /\ Closing'
    BY <1>0, <2>1
  <2>3. Files'
    BY <1>0, <2>1
  <2> QED
    BY <2>2, <2>3
<1>10. ASSUME NEW q \in Requests, Manager!Put(q) PROVE Recorded'
  BY <1>0, <1>10 DEF Manager!Put
<1>11. ASSUME NEW q \in Requests, Manager!Apply(q) \/ Manager!Push(q) PROVE Recorded'
  BY <1>0, <1>11 DEF Manager!Apply, Manager!Push
<1>12. ASSUME NEW a \in Manager!Agents, Manager!Take(a) PROVE Recorded'
  BY <1>0, <1>12 DEF Manager!Take, Manager!AfterStop
<1>13. ASSUME NEW a \in Manager!Agents, Manager!Cancel(a) PROVE Recorded'
  BY <1>0, <1>13 DEF Manager!Cancel
<1>14. ASSUME NEW a \in Manager!Agents, Manager!Await(a) PROVE Recorded'
  BY <1>0, <1>14 DEF Manager!Await, Manager!AfterStop
<1>15. ASSUME NEW r \in Runners, Manager!Trip(r) PROVE Recorded'
  BY <1>0, <1>15 DEF Manager!Trip, Manager!Record
<1>16. ASSUME NEW r \in Runners,
              \/ Manager!Head(r) \/ Manager!Start(r) \/ Manager!Attach(r) \/ Manager!Exited(r)
              \/ Manager!Exit(r)
       PROVE  Recorded'
  <2>1. \E step \in LiveSteps \cup {"done"} : at' = [at EXCEPT ![r] = step]
    BY <1>16
       DEF Manager!Head, Manager!Start, Manager!Attach, Manager!Exited, Manager!Exit
  <2>2. UNCHANGED <<rec, unpacked, arg, closed, torn>>
    BY <1>16
       DEF Manager!Head, Manager!Start, Manager!Attach, Manager!Exited, Manager!Exit
  <2> QED
    BY <1>0, <2>1, <2>2
<1>17. ASSUME NEW r \in Runners, Manager!Publish(r) PROVE Recorded'
  BY <1>17 DEF Manager!Publish
<1>18. CASE Manager!Restart
  <2>1. Files'
    BY <1>0, <1>18, RestartBoots DEF Manager!Restart, Boot, Manager!Idle
  <2>2. Boot'
    BY <1>18, RestartBoots
  <2> HIDE DEF Files, Recorded
  <2> QED
    BY <2>1, <2>2, BootRecorded, PTL
<1> QED
  BY <1>1, <1>2, <1>3, <1>4, <1>5, <1>6, <1>7, <1>8, <1>9, <1>10, <1>11, <1>12, <1>13, <1>14,
     <1>15, <1>16, <1>17, <1>18
     DEF Manager!Next, Manager!Call, Manager!Serve, Manager!Step, Manager!Stop

(* What runs is what is recorded.                                          *)
LEMMA BootAsRecorded ==
  ASSUME Boot, Files PROVE AsRecorded
<1>1. cur = IF rec.there /\ rec.enabled /\ rec.version \in unpacked THEN Manager!Any(Runners)
            ELSE None
  BY DEF Boot, Manager!Booted
<1>2. Manager!Any(Runners) # None
  BY Agencies DEF Manager!Any
<1> QED
  BY <1>1, <1>2 DEF Boot, Files, AsRecorded, EnabledRuns, DisabledRests, Manager!Wanted

LEMMA AsRecordedNext ==
  ASSUME Typed, Runs, Recorded, AsRecorded, Manager!Next PROVE AsRecorded'
<1> USE Agencies
    DEF AsRecorded, EnabledRuns, DisabledRests, Coming, Serving, StopSteps, Manager!Wanted,
        Manager!Agents, Manager!record, Manager!agents, Manager!history
<1>0. /\ at \in [Manager!Agents -> RequestSteps \cup LiveSteps \cup {"done"}]
      /\ Roles /\ rec \in Manager!Record /\ cur \in Runners \cup {None}
      /\ arg \in [Requests -> Manager!Op] /\ closed \in BOOLEAN
  BY DEF Typed, Manager!TypeOK, RequestSteps, LiveSteps
<1>1. ASSUME NEW q \in Requests, Manager!Enable(q) PROVE AsRecorded'
  <2>1. q \in Coming' /\ Manager!Wanted'
    BY <1>0, <1>1 DEF Manager!Enable, Manager!Accept, Manager!Record
  <2> QED
    BY <2>1
<1>2. ASSUME NEW q \in Requests, Manager!Disable(q) \/ Manager!Close(q) PROVE AsRecorded'
  <2>1. at'[q] = "take" /\ arg'[q].op # "enable" /\ ~Manager!Wanted'
    BY <1>0, <1>2 DEF Manager!Disable, Manager!Close, Manager!Accept, Manager!Record
  <2> QED
    BY <2>1
<1>3. ASSUME NEW q \in Requests,
             \/ Manager!Remove(q) \/ \E g \in Manager!GrantSets : Manager!SetGrants(q, g)
             \/ \E v \in Versions : Manager!Install(q, v)
      PROVE  AsRecorded'
  <2>1. /\ at[q] = "idle" /\ \A a \in Manager!Agents \ {q} : at'[a] = at[a]
        /\ \A p \in Requests \ {q} : arg'[p] = arg[p]
        /\ UNCHANGED <<cur, closed, excuse>>
        /\ rec'.enabled = rec.enabled /\ rec'.version = rec.version
    BY <1>0, <1>3
       DEF Manager!Remove, Manager!SetGrants, Manager!Install, Manager!Accept, Manager!Record
  <2>2. UNCHANGED unpacked \/ q \in Coming'
    <3>1. CASE \E v \in Versions : Manager!Install(q, v)
      <4>1. PICK v \in Versions : Manager!Install(q, v)
        BY <3>1
      <4>2. /\ at' = [at EXCEPT ![q] = "put"]
            /\ arg' = [arg EXCEPT ![q] = [op |-> "install", version |-> v, grants |-> 0]]
        BY <4>1 DEF Manager!Install, Manager!Accept
      <4>3. at'[q] = "put" /\ arg'[q].op = "install"
        BY <1>0, <4>2
      <4> QED
        BY <4>3
    <3>2. CASE ~ \E v \in Versions : Manager!Install(q, v)
      BY <1>3, <3>2 DEF Manager!Remove, Manager!SetGrants
    <3> QED
      BY <3>1, <3>2
  <2> QED
    BY <1>0, <2>1, <2>2
<1>4. ASSUME NEW q \in Requests, Manager!Load(q) PROVE AsRecorded'
  <2>1. /\ at[q] = "load" /\ UNCHANGED <<cur, closed, rec, unpacked, arg>>
        /\ \A a \in Manager!Agents \ {q} : at'[a] = at[a]
        /\ excuse \subseteq excuse'
        /\ at'[q] = "take" \/ (Manager!Wanted => excuse' # {})
    BY <1>0, <1>4 DEF Manager!Load
  <2> QED
    BY <1>0, <2>1 DEF Recorded, Ops
<1>5. ASSUME NEW q \in Requests, Manager!Register(q) PROVE AsRecorded'
  <2>1. cur' \in Runners /\ (excuse' = {} => Manager!Wanted) /\ UNCHANGED <<rec, closed>>
    BY <1>5 DEF Manager!Register
  <2> QED
    BY <2>1
<1>6. ASSUME NEW q \in Requests,
             \/ Manager!ClearSource(q) \/ Manager!Find(q) \/ Manager!Apply(q) \/ Manager!Push(q)
      PROVE  AsRecorded'
  <2>1. /\ at[q] \in {"clear", "find", "apply", "push"}
        /\ \A a \in Manager!Agents \ {q} : at'[a] = at[a]
        /\ UNCHANGED <<cur, closed, excuse, rec, unpacked, arg>>
    BY <1>0, <1>6 DEF Manager!ClearSource, Manager!Find, Manager!Apply, Manager!Push
  <2> QED
    BY <1>0, <2>1
<1>7. ASSUME NEW q \in Requests, Manager!Delete(q) PROVE AsRecorded'
  <2>1. /\ ~rec'.enabled /\ at[q] = "delete" /\ UNCHANGED <<cur, closed, arg>>
        /\ excuse \subseteq excuse' /\ (cur = None \/ ~rec.there \/ excuse' # {})
        /\ \A a \in Manager!Agents \ {q} : at'[a] = at[a]
    BY <1>0, <1>7 DEF Manager!Delete, Manager!Record
  <2>2. ~rec.there => ~rec.enabled
    BY DEF Recorded, Files
  <2> QED
    BY <1>0, <2>1, <2>2
<1>8. ASSUME NEW q \in Requests, Manager!Purge(q) PROVE AsRecorded'
  <2>1. /\ at[q] = "purge" /\ \A a \in Manager!Agents \ {q} : at'[a] = at[a]
        /\ UNCHANGED <<cur, closed, excuse, rec, arg>> /\ unpacked' = {}
    BY <1>0, <1>8 DEF Manager!Purge
  <2> QED
    BY <1>0, <2>1
<1>9. ASSUME NEW q \in Requests, Manager!Put(q) PROVE AsRecorded'
  <2>1. ~rec'.enabled /\ UNCHANGED cur /\ (cur = None \/ excuse' # {})
    BY <1>9 DEF Manager!Put
  <2> QED
    BY <2>1
<1>10. ASSUME NEW a \in Manager!Agents, Manager!Take(a) PROVE AsRecorded'
  <2>1. cur' = None /\ at[a] = "take" /\ UNCHANGED <<rec, unpacked, closed, arg>>
    BY <1>10 DEF Manager!Take
  <2>2. ASSUME Manager!Wanted, excuse' = {} PROVE a \in Coming'
    <3>1. a \in Requests /\ arg[a].op # "disable"
      BY <1>10, <2>2 DEF Manager!Take, Manager!Disables
    <3>2. arg[a].op \in {"enable", "remove"}
      BY <2>1, <2>2, <3>1 DEF Recorded, Ops, Closing
    <3>3. at'[a] \in {"cancel", Manager!AfterStop(a)}
      BY <1>0, <1>10 DEF Manager!Take
    <3>4. /\ arg[a].op = "enable" => Manager!AfterStop(a) = "register"
          /\ arg[a].op = "remove" => Manager!AfterStop(a) = "delete"
      BY <3>1, <3>2 DEF Manager!AfterStop
    <3> QED
      BY <2>1, <3>1, <3>2, <3>3, <3>4
  <2> QED
    BY <2>1, <2>2
<1>11. ASSUME NEW a \in Manager!Agents, Manager!Cancel(a) PROVE AsRecorded'
  <2>1. /\ at' = [at EXCEPT ![a] = "await"] /\ at[a] = "cancel"
        /\ UNCHANGED <<cur, rec, unpacked, closed, excuse, arg>>
    BY <1>11 DEF Manager!Cancel
  <2> QED
    BY <1>0, <2>1
<1>12. ASSUME NEW a \in Manager!Agents, Manager!Await(a) PROVE AsRecorded'
  <2>1. /\ UNCHANGED <<cur, rec, unpacked, closed, excuse, arg>> /\ at[a] = "await"
        /\ at'[a] = Manager!AfterStop(a) /\ \A b \in Manager!Agents \ {a} : at'[b] = at[b]
    BY <1>0, <1>12 DEF Manager!Await
  <2>2. a \in Requests =>
          /\ arg[a].op = "enable" => Manager!AfterStop(a) = "register"
          /\ arg[a].op = "remove" => Manager!AfterStop(a) = "delete"
    BY DEF Manager!AfterStop
  <2>3. Coming \subseteq Coming'
    BY <1>0, <2>1, <2>2
  <2> HIDE DEF Coming
  <2> QED
    BY <2>1, <2>3
<1>13. ASSUME NEW r \in Runners, Manager!Trip(r) PROVE AsRecorded'
  <2>1. at'[r] = "take" /\ ~rec'.enabled
    BY <1>0, <1>13 DEF Manager!Trip, Manager!Record
  <2> QED
    BY <2>1
<1>14. ASSUME NEW r \in Runners,
              \/ Manager!Head(r) \/ Manager!Start(r) \/ Manager!Attach(r) \/ Manager!Exited(r)
              \/ Manager!Exit(r)
       PROVE  AsRecorded'
  <2>1. /\ at[r] # "take" /\ \A a \in Manager!Agents \ {r} : at'[a] = at[a]
        /\ UNCHANGED <<rec, unpacked, arg, closed, excuse, cur>>
    BY <1>0, <1>14
       DEF Manager!Head, Manager!Start, Manager!Attach, Manager!Exited, Manager!Exit
  <2> QED
    BY <1>0, <2>1
<1>15. ASSUME NEW r \in Runners, Manager!Publish(r) PROVE AsRecorded'
  BY <1>15 DEF Manager!Publish
<1>16. CASE Manager!Restart
  <2>1. Boot' /\ Files'
    BY <1>16, RestartBoots, RecordedNext DEF Manager!Next, Recorded
  <2> HIDE DEF AsRecorded
  <2> QED
    BY <2>1, BootAsRecorded, PTL
<1> QED
  BY <1>1, <1>2, <1>3, <1>4, <1>5, <1>6, <1>7, <1>8, <1>9, <1>10, <1>11, <1>12, <1>13, <1>14,
     <1>15, <1>16
     DEF Manager!Next, Manager!Call, Manager!Serve, Manager!Step, Manager!Stop

(* What runs is granted what is recorded.                                  *)
LEMMA BootGranted ==
  ASSUME Boot PROVE Granted
<1>1. \A r \in Runners : at[r] = IF r = cur THEN "head" ELSE "done"
  BY Agencies DEF Boot, Manager!Idle, Manager!Agents
<1>2. \A r \in Runners : run[r].grants = rec.grants
  BY DEF Boot, Manager!Started, Manager!New
<1>3. cur \in Runners \cup {None}
  BY Agencies DEF Boot, Manager!Booted, Manager!Any
<1> QED
  BY <1>1, <1>2, <1>3 DEF Granted, SessionGrants, RunnerGrants

(* A step that leaves the registered runner, the grants on record and the  *)
(* requests that are on their way with grants as they were.                *)
LEMMA GrantedStays ==
  ASSUME Granted, UNCHANGED cur, rec'.grants = rec.grants,
         "replaced" \in excuse => "replaced" \in excuse',
         stale \subseteq stale', outdated \subseteq outdated',
         cur # None => /\ run'[cur].grants = run[cur].grants /\ run'[cur].sess = run[cur].sess
                       /\ at'[cur] \in {"attach", "serve"} => at[cur] \in {"attach", "serve"},
         \A q \in Requests : at[q] \in {"find", "apply", "push"} =>
           at'[q] = at[q] /\ arg'[q] = arg[q] /\ target'[q] = target[q]
  PROVE  Granted'
<1>1. cur # None => Granting(cur) \subseteq Granting(cur)' /\ Pushing(cur) \subseteq Pushing(cur)'
  BY DEF Granting, Pushing, Serving
<1> QED
  BY <1>1 DEF Granted, RunnerGrants, SessionGrants

LEMMA GrantedNext ==
  ASSUME Typed, Runs, Recorded, Granted, Manager!Next PROVE Granted'
<1> USE Agencies
    DEF Manager!Agents, Manager!record, Manager!agents, Manager!history
<1>0. /\ at \in [Manager!Agents -> RequestSteps \cup LiveSteps \cup {"done"}]
      /\ Roles /\ rec \in Manager!Record /\ cur \in Runners \cup {None}
      /\ target \in [Manager!Agents -> Runners \cup {None}]
      /\ run \in [Runners -> Manager!Runner] /\ arg \in [Requests -> Manager!Op]
      /\ \A a \in Manager!Agents : at[a] \in {"cancel", "await", "apply"} => target[a] # None
      /\ Pushes /\ stale \subseteq Runners
  BY DEF Typed, Manager!TypeOK, RequestSteps, LiveSteps
<1>1. ASSUME NEW q \in Requests, NEW g \in Manager!GrantSets, Manager!SetGrants(q, g)
      PROVE  Granted'
  <2>1. at'[q] = "find" /\ arg'[q].op = "grant" /\ arg'[q].grants = g /\ rec'.grants = g
    BY <1>0, <1>1 DEF Manager!SetGrants, Manager!Accept, Manager!Record
  <2>2. \A r \in Runners : q \in Granting(r)'
    BY <2>1 DEF Granting, Serving
  <2>3. UNCHANGED cur
    BY <1>1 DEF Manager!SetGrants
  <2> QED
    BY <1>0, <2>2, <2>3 DEF Granted, RunnerGrants, SessionGrants
<1>2. ASSUME NEW q \in Requests, Manager!Call(q), ~\E g \in Manager!GrantSets : Manager!SetGrants(q, g)
      PROVE  Granted'
  <2>1. /\ at[q] = "idle" /\ \A a \in Manager!Agents \ {q} : at'[a] = at[a]
        /\ \A p \in Requests \ {q} : arg'[p] = arg[p]
        /\ UNCHANGED <<cur, target, run, stale, outdated, excuse>>
    BY <1>0, <1>2
       DEF Manager!Call, Manager!Enable, Manager!Disable, Manager!Remove, Manager!Install,
           Manager!Close, Manager!Accept
  <2>2. rec'.grants = rec.grants
    BY <1>0, <1>2
       DEF Manager!Call, Manager!Enable, Manager!Disable, Manager!Remove, Manager!Install,
           Manager!Close, Manager!Record
  <2>3. cur # None => at'[cur] = at[cur]
    BY <1>0, <2>1
  <2> QED
    BY <1>0, <2>1, <2>2, <2>3, GrantedStays
<1>3. ASSUME NEW q \in Requests, Manager!Load(q) \/ Manager!ClearSource(q) \/ Manager!Purge(q)
      PROVE  Granted'
  <2>1. /\ at[q] \in {"load", "clear", "purge"} /\ \A a \in Manager!Agents \ {q} : at'[a] = at[a]
        /\ UNCHANGED <<cur, target, arg, run, rec, stale, outdated>> /\ excuse \subseteq excuse'
    BY <1>0, <1>3 DEF Manager!Load, Manager!ClearSource, Manager!Purge
  <2>2. cur # None => at'[cur] = at[cur]
    BY <1>0, <2>1
  <2> QED
    BY <1>0, <2>1, <2>2, GrantedStays
<1>4. ASSUME NEW q \in Requests, Manager!Delete(q) PROVE Granted'
  <2>1. /\ at[q] = "delete" /\ \A a \in Manager!Agents \ {q} : at'[a] = at[a]
        /\ UNCHANGED <<cur, target, arg, run, stale, outdated>> /\ excuse \subseteq excuse'
        /\ rec'.grants = 0 /\ (cur = None \/ ~rec.there \/ "replaced" \in excuse')
    BY <1>0, <1>4 DEF Manager!Delete, Manager!Record
  <2>2. CASE cur = None \/ "replaced" \in excuse'
    BY <2>1, <2>2 DEF Granted, RunnerGrants, SessionGrants
  <2>3. CASE ~rec.there
    <3>1. rec'.grants = rec.grants
      BY <2>1, <2>3 DEF Recorded, Files
    <3>2. cur # None => at'[cur] = at[cur]
      BY <1>0, <2>1
    <3> QED
      BY <1>0, <2>1, <3>1, <3>2, GrantedStays
  <2> QED
    BY <2>1, <2>2, <2>3
<1>5. ASSUME NEW q \in Requests, Manager!Put(q) PROVE Granted'
  <2>1. UNCHANGED cur /\ (cur = None \/ "replaced" \in excuse')
    BY <1>5 DEF Manager!Put
  <2> QED
    BY <2>1 DEF Granted, RunnerGrants, SessionGrants
<1>6. ASSUME NEW q \in Requests, Manager!Register(q) PROVE Granted'
  <2>1. PICK r \in Runners :
          /\ cur' = r /\ outdated' = Manager!Gives(q, r)
          /\ run' = [run EXCEPT ![r] = Manager!New(arg[q].version, arg[q].grants)]
          /\ at' = [at EXCEPT ![q] = "idle", ![r] = "head"]
    BY <1>6 DEF Manager!Register
  <2>2. run'[r].grants = arg[q].grants /\ at'[r] = "head" /\ UNCHANGED rec
    BY <1>0, <1>6, <2>1 DEF Manager!New, Manager!Register
  <2>3. r \notin outdated' => arg[q].grants = rec.grants
    BY <2>1 DEF Manager!Gives
  <2> QED
    BY <2>1, <2>2, <2>3 DEF Granted, RunnerGrants, SessionGrants
<1>7. ASSUME NEW q \in Requests, Manager!Find(q) PROVE Granted'
  <2>1. /\ at[q] = "find" /\ at' = [at EXCEPT ![q] = IF cur = None THEN "idle" ELSE "apply"]
        /\ target' = [target EXCEPT ![q] = cur]
        /\ UNCHANGED <<cur, rec, run, arg, excuse, stale, outdated>>
    BY <1>7 DEF Manager!Find
  <2>2. cur # None => Granting(cur) \subseteq Granting(cur)' /\ Pushing(cur) \subseteq Pushing(cur)'
                      /\ at'[cur] = at[cur]
    BY <1>0, <2>1 DEF Granting, Pushing, Serving
  <2> QED
    BY <2>1, <2>2 DEF Granted, RunnerGrants, SessionGrants
<1>8. ASSUME NEW q \in Requests, Manager!Apply(q) PROVE Granted'
  <2>1. /\ at[q] = "apply" /\ at' = [at EXCEPT ![q] = "push"] /\ target[q] \in Runners
        /\ target' = [target EXCEPT ![q] = IF at[target[q]] = "serve" THEN target[q] ELSE None]
        /\ stale' = IF at[target[q]] = "attach" THEN stale \cup {target[q]} ELSE stale
        /\ outdated' = Manager!Gives(q, target[q]) /\ UNCHANGED <<cur, rec, arg, excuse>>
    BY <1>0, <1>8 DEF Manager!Apply
  <2>2. /\ run'[target[q]].grants = arg[q].grants /\ run'[target[q]].sess = run[target[q]].sess
        /\ \A s \in Runners \ {target[q]} : run'[s] = run[s]
    BY <1>0, <1>8, <2>1 DEF Manager!Apply, Manager!Runner
  <2>3. \A r \in Runners : at'[r] = at[r]
    BY <1>0, <2>1
  <2>4. CASE cur = target[q]
    <3>1. cur \notin outdated' => arg[q].grants = rec.grants
      BY <2>1, <2>4 DEF Manager!Gives
    <3>2. at[cur] = "serve" /\ arg[q].grants = rec.grants => q \in Pushing(cur)'
      BY <1>0, <2>1, <2>4 DEF Pushing
    <3>3. at[cur] = "attach" => cur \in stale'
      BY <2>1, <2>4
    <3> QED
      BY <2>1, <2>2, <2>3, <2>4, <3>1, <3>2, <3>3 DEF Granted, RunnerGrants, SessionGrants
  <2>5. CASE cur # target[q]
    <3>1. cur # None => Granting(cur) \subseteq Granting(cur)' /\ Pushing(cur) \subseteq Pushing(cur)'
      BY <1>0, <2>1, <2>5 DEF Granting, Pushing, Serving
    <3>2. cur \in outdated => cur \in outdated'
      BY <2>1, <2>5 DEF Manager!Gives
    <3>3. cur \in stale => cur \in stale'
      BY <2>1
    <3>4. cur # None => run'[cur] = run[cur] /\ at'[cur] = at[cur]
      BY <1>0, <2>2, <2>3, <2>5
    <3> QED
      BY <2>1, <3>1, <3>2, <3>3, <3>4 DEF Granted, RunnerGrants, SessionGrants
  <2> QED
    BY <2>4, <2>5
<1>9. ASSUME NEW q \in Requests, Manager!Push(q) PROVE Granted'
  <2>1. /\ at[q] = "push" /\ at' = [at EXCEPT ![q] = "idle"] /\ stale' = stale \ {target[q]}
        /\ target' = [target EXCEPT ![q] = None] /\ UNCHANGED <<cur, rec, arg, excuse>>
        /\ outdated \subseteq outdated'
    BY <1>9 DEF Manager!Push
  <2>2. cur # None => at'[cur] = at[cur] /\ Granting(cur) \subseteq Granting(cur)'
    BY <1>0, <2>1 DEF Granting, Serving
  <2>3. \A r \in Runners : run'[r].grants = run[r].grants
    BY <1>0, <1>9 DEF Manager!Push, Manager!Runner
  <2>4. CASE cur = None \/ cur # target[q]
    <3>1. cur # None => Pushing(cur) \subseteq Pushing(cur)'
      BY <1>0, <2>1, <2>4 DEF Pushing
    <3>2. cur # None => run'[cur].sess = run[cur].sess
      BY <1>0, <1>9, <2>4 DEF Manager!Push
    <3>3. cur # None => (cur \in stale => cur \in stale')
      BY <2>1, <2>4
    <3> QED
      BY <1>0, <2>1, <2>2, <2>3, <3>1, <3>2, <3>3 DEF Granted, RunnerGrants, SessionGrants
  <2>5. CASE cur # None /\ cur = target[q]
    <3>1. /\ run' = [run EXCEPT ![cur] = [run[cur] EXCEPT !.sess = {arg[q].grants}]]
          /\ arg[q].grants = rec.grants \/ cur \in outdated'
      BY <1>0, <1>9, <2>5 DEF Manager!Push
    <3>2. run'[cur].sess = {arg[q].grants}
      BY <1>0, <2>5, <3>1 DEF Manager!Runner
    <3> QED
      BY <1>0, <2>1, <2>2, <2>3, <2>5, <3>1, <3>2 DEF Granted, RunnerGrants, SessionGrants
  <2> QED
    BY <2>4, <2>5
<1>10. ASSUME NEW a \in Manager!Agents, Manager!Take(a) PROVE Granted'
  <2>1. cur' = None
    BY <1>10 DEF Manager!Take
  <2> QED
    BY <2>1 DEF Granted, RunnerGrants, SessionGrants
<1>11. ASSUME NEW a \in Manager!Agents, Manager!Cancel(a) \/ Manager!Await(a) PROVE Granted'
  <2>1. /\ at[a] \in {"cancel", "await"} /\ \A b \in Manager!Agents \ {a} : at'[b] = at[b]
        /\ at'[a] \notin {"attach", "serve"}
        /\ \A b \in Manager!Agents \ {a} : target'[b] = target[b]
        /\ UNCHANGED <<cur, rec, arg, excuse, stale, outdated>>
    BY <1>0, <1>11 DEF Manager!Cancel, Manager!Await, Manager!AfterStop
  <2>2. \A s \in Runners : run'[s].grants = run[s].grants /\ run'[s].sess = run[s].sess
    BY <1>0, <1>11 DEF Manager!Cancel, Manager!Await, Manager!Runner
  <2>3. cur # None /\ at'[cur] \in {"attach", "serve"} => at[cur] \in {"attach", "serve"}
    BY <1>0, <2>1
  <2> QED
    BY <1>0, <2>1, <2>2, <2>3, GrantedStays
<1>12. ASSUME NEW r \in Runners, Manager!Start(r) PROVE Granted'
  <2>1. at[r] = "start" /\ UNCHANGED <<cur, target, arg, rec, stale, outdated, excuse>>
        /\ \E step \in {"attach", "exited"} : at' = [at EXCEPT ![r] = step]
    BY <1>12 DEF Manager!Start
  <2>2. /\ \A s \in Runners : run'[s].grants = run[s].grants
        /\ \A s \in Runners \ {r} : run'[s] = run[s]
        /\ at'[r] = "attach" => run'[r].sess = {run[r].grants}
    <3>1. CASE at' = [at EXCEPT ![r] = "exited"] /\ UNCHANGED run
      <4>1. at'[r] = "exited"
        BY <1>0, <3>1
      <4> QED
        BY <3>1, <4>1
    <3>2. CASE run' = [run EXCEPT ![r] = [run[r] EXCEPT !.sess = {run[r].grants}]]
      BY <1>0, <3>2
    <3> QED
      BY <1>12, <3>1, <3>2 DEF Manager!Start
  <2>3. \A s \in Runners : Granting(s) \subseteq Granting(s)' /\ Pushing(s) \subseteq Pushing(s)'
    BY <1>0, <2>1 DEF Granting, Pushing, Serving
  <2>4. RunnerGrants'
    BY <1>0, <2>1, <2>2, <2>3 DEF Granted, RunnerGrants
  <2>5. CASE cur = r
    <3>1. SessionGrants'
      BY <2>1, <2>2, <2>4, <2>5 DEF RunnerGrants, SessionGrants
    <3> QED
      BY <2>4, <3>1 DEF Granted
  <2>6. CASE cur # r
    <3>1. cur # None => at'[cur] = at[cur] /\ run'[cur] = run[cur]
      BY <1>0, <2>1, <2>2, <2>6
    <3>2. SessionGrants'
      BY <1>0, <2>1, <2>3, <3>1 DEF Granted, SessionGrants
    <3> QED
      BY <2>4, <3>2 DEF Granted
  <2> QED
    BY <2>5, <2>6
<1>13. ASSUME NEW r \in Runners,
              \/ Manager!Head(r) \/ Manager!Attach(r) \/ Manager!Exited(r) \/ Manager!Trip(r)
       PROVE  Granted'
  <2>1. /\ UNCHANGED <<cur, target, arg, stale, outdated, excuse>> /\ rec'.grants = rec.grants
        /\ \A a \in Manager!Agents \ {r} : at'[a] = at[a]
        /\ at'[r] \in {"attach", "serve"} => at[r] = "attach"
    BY <1>0, <1>13 DEF Manager!Head, Manager!Attach, Manager!Exited, Manager!Trip, Manager!Record
  <2>2. \A s \in Runners : run'[s].grants = run[s].grants /\ run'[s].sess = run[s].sess
    BY <1>0, <1>13 DEF Manager!Head, Manager!Attach, Manager!Exited, Manager!Trip, Manager!Runner
  <2>3. cur # None /\ at'[cur] \in {"attach", "serve"} => at[cur] \in {"attach", "serve"}
    BY <1>0, <2>1
  <2> QED
    BY <1>0, <2>1, <2>2, <2>3, GrantedStays
<1>14. ASSUME NEW r \in Runners, Manager!Publish(r) PROVE Granted'
  <2>1. UNCHANGED <<cur, target, arg, stale, outdated, excuse, rec, at, run>>
    BY <1>14 DEF Manager!Publish
  <2> QED
    BY <1>0, <2>1, GrantedStays
<1>15. ASSUME NEW r \in Runners, Manager!Exit(r) PROVE Granted'
  <2>1. /\ at[r] = "serve" /\ at' = [at EXCEPT ![r] = "exited"] /\ stale' = stale \ {r}
        /\ UNCHANGED <<cur, arg, rec, excuse, outdated>>
        /\ \A a \in Manager!Agents :
             \/ target'[a] = target[a]
             \/ target[a] = r /\ target'[a] = None /\ at[a] = "push"
    BY <1>15 DEF Manager!Exit
  <2>2. /\ \A s \in Runners : run'[s].grants = run[s].grants
        /\ \A s \in Runners \ {r} : run'[s] = run[s]
    BY <1>0, <1>15 DEF Manager!Exit, Manager!Runner
  <2>3. /\ \A s \in Runners : Granting(s) \subseteq Granting(s)'
        /\ \A s \in Runners \ {r} : Pushing(s) \subseteq Pushing(s)'
    BY <1>0, <2>1 DEF Granting, Pushing, Serving
  <2>4. RunnerGrants'
    BY <1>0, <2>1, <2>2, <2>3 DEF Granted, RunnerGrants
  <2>5. SessionGrants'
    <3>1. CASE cur = r
      BY <1>0, <2>1, <3>1 DEF SessionGrants
    <3>2. CASE cur # r
      <4>1. cur # None => at'[cur] = at[cur] /\ run'[cur] = run[cur]
        BY <1>0, <2>1, <2>2, <3>2
      <4> QED
        BY <1>0, <2>1, <2>3, <3>2, <4>1 DEF Granted, SessionGrants
    <3> QED
      BY <3>1, <3>2
  <2> QED
    BY <2>4, <2>5 DEF Granted
<1>16. CASE Manager!Restart
  <2>1. Boot'
    BY <1>16, RestartBoots
  <2> QED
    BY <2>1, BootGranted, PTL
<1> QED
  BY <1>1, <1>2, <1>3, <1>4, <1>5, <1>6, <1>7, <1>8, <1>9, <1>10, <1>11, <1>12, <1>13, <1>14,
     <1>15, <1>16
     DEF Manager!Next, Manager!Serve, Manager!Step, Manager!Stop

(* What was turned off is silent.                                          *)
LEMMA BootSilent ==
  ASSUME Boot PROVE Silent
<1>1. \A r \in Runners : at[r] = IF r = cur THEN "head" ELSE "done"
  BY Agencies DEF Boot, Manager!Idle, Manager!Agents
<1> QED
  BY <1>1, Agencies DEF Boot, Manager!Booted, Silent

LEMMA SilentNext ==
  ASSUME Typed, Runs, Silent, Manager!Next PROVE Silent'
<1> USE Agencies
    DEF Silent, Manager!Agents, Manager!record, Manager!agents, Manager!history
<1>0. /\ at \in [Manager!Agents -> RequestSteps \cup LiveSteps \cup {"done"}]
      /\ Roles
  BY DEF Typed, Manager!TypeOK, RequestSteps, LiveSteps
<1>1. ASSUME NEW q \in Requests, Manager!Call(q) PROVE Silent'
  BY <1>0, <1>1
     DEF Manager!Call, Manager!Enable, Manager!Disable, Manager!Remove, Manager!SetGrants,
         Manager!Install, Manager!Close, Manager!Accept
<1>2. ASSUME NEW q \in Requests,
             \/ Manager!Load(q) \/ Manager!Delete(q) \/ Manager!Purge(q) \/ Manager!Put(q)
             \/ Manager!Find(q) \/ Manager!Apply(q) \/ Manager!Push(q)
      PROVE  Silent'
  <2>1. UNCHANGED <<quiet, readings>> /\ \A r \in Runners : at'[r] = at[r]
    BY <1>0, <1>2
       DEF Manager!Load, Manager!Delete, Manager!Purge, Manager!Put, Manager!Find,
           Manager!Apply, Manager!Push
  <2> QED
    BY <2>1
<1>3. ASSUME NEW q \in Requests, Manager!Register(q) PROVE Silent'
  BY <1>3 DEF Manager!Register
<1>4. ASSUME NEW q \in Requests, Manager!ClearSource(q) PROVE Silent'
  <2>1. /\ ~readings' /\ \A r \in Runners : at'[r] = at[r]
        /\ at[q] = "clear"
        /\ quiet' => cur = None /\ ~Manager!Busy(q) /\ \A r \in crossed : at[r] = "done"
    BY <1>0, <1>4 DEF Manager!ClearSource
  <2>2. ASSUME quiet', NEW r \in Runners \ crossed, at[r] # "done"
        PROVE  at[r] \in {"cancel", "await"}
    <3>1. Stuck(r) \/ \E a \in Manager!Agents \ {q} : Stopping(a) /\ target[a] = r
      BY <2>1, <2>2 DEF Runs, Accounted, Stopping
    <3>2. \A a \in Manager!Agents \ {q} : Stopping(a) => target[a] = a
      BY <2>1, <2>2 DEF Manager!Busy, Stopping
    <3> QED
      BY <3>1, <3>2 DEF Stuck, Stopping
  <2> QED
    BY <2>1, <2>2
<1>5. ASSUME NEW a \in Manager!Agents, Manager!Stop(a) PROVE Silent'
  <2>1. UNCHANGED <<quiet, readings>>
    BY <1>5 DEF Manager!Stop, Manager!Take, Manager!Cancel, Manager!Await
  <2>2. \A r \in Runners \ {a} : at'[r] = at[r]
    BY <1>0, <1>5 DEF Manager!Stop, Manager!Take, Manager!Cancel, Manager!Await
  <2>3. a \in Runners => at'[a] \in {"done", "cancel", "await"}
    BY <1>0, <1>5
       DEF Manager!Stop, Manager!Take, Manager!Cancel, Manager!Await, Manager!AfterStop
  <2> QED
    BY <2>1, <2>2, <2>3
<1>6. ASSUME NEW r \in Runners,
             \/ Manager!Head(r) \/ Manager!Start(r) \/ Manager!Attach(r) \/ Manager!Exited(r)
             \/ Manager!Trip(r) \/ Manager!Exit(r) \/ Manager!Publish(r)
      PROVE  Silent'
  <2>1. at[r] \notin {"done", "cancel", "await"} /\ UNCHANGED quiet
    BY <1>6
       DEF Manager!Head, Manager!Start, Manager!Attach, Manager!Exited, Manager!Trip,
           Manager!Exit, Manager!Publish
  <2> QED
    BY <2>1
<1>7. CASE Manager!Restart
  <2>1. Boot'
    BY <1>7, RestartBoots
  <2> HIDE DEF Silent
  <2> QED
    BY <2>1, BootSilent, PTL
<1> QED
  BY <1>1, <1>2, <1>3, <1>4, <1>5, <1>6, <1>7
     DEF Manager!Next, Manager!Serve, Manager!Step

(* The invariant, and what it says of the properties.                      *)
LEMMA ManagerInit ==
  ASSUME Manager!Init PROVE ManagerInv
<1>1. Boot /\ Files
  <2>1. 0 \in 0 .. MaxEvents
    BY Agencies
  <2>2. rec \in Manager!Record /\ unpacked \subseteq Versions
    BY DEF Manager!Init, Manager!Record
  <2>3. \A q \in Requests : at[q] = "idle"
    BY Agencies DEF Manager!Init, Manager!Idle, Manager!Agents
  <2> QED
    BY <2>1, <2>2, <2>3 DEF Manager!Init, Boot, Files
<1> QED
  BY <1>1, BootIsTyped, BootRuns, BootRecorded, BootAsRecorded, BootGranted, BootSilent
     DEF ManagerInv

LEMMA ManagerNext ==
  ASSUME ManagerInv, [Manager!Next]_(Manager!vars) PROVE ManagerInv'
<1>1. CASE Manager!Next
  BY <1>1, TypedNext, RunsNext, RecordedNext, AsRecordedNext, GrantedNext, SilentNext
     DEF ManagerInv
<1>2. CASE UNCHANGED Manager!vars
  <2>1. UNCHANGED <<rec, unpacked, cur, at, target, arg, run, readings, closed, excuse, stale,
                    outdated, crossed, quiet, torn, events>>
    BY <1>2 DEF Manager!vars, Manager!record, Manager!agents, Manager!history
  <2>2. Typed' /\ Runs'
    BY <2>1
       DEF ManagerInv, Typed, Manager!TypeOK, Roles, Spare, Pushes, Runs, Accounted, Awaited,
           CurLives, Taken, Alone, Single, Stuck, Stopping
  <2>3. Recorded' /\ AsRecorded'
    BY <2>1
       DEF ManagerInv, Recorded, Ops, Closing, Files, Serving, AsRecorded, EnabledRuns,
           DisabledRests, Coming, Manager!Wanted
  <2>4. Granted' /\ Silent'
    BY <2>1
       DEF ManagerInv, Granted, RunnerGrants, SessionGrants, Granting, Pushing, Serving, Silent
  <2> QED
    BY <2>2, <2>3, <2>4 DEF ManagerInv
<1> QED
  BY <1>1, <1>2

LEMMA ManagerIsTrue ==
  ASSUME ManagerInv
  PROVE  /\ Manager!OneInstance /\ Manager!RunsAsRecorded /\ Manager!FilesMatchRecord
         /\ Manager!GrantsAreCurrent /\ Manager!NoPhantomReadings
<1> USE DEF ManagerInv, Runs, Recorded, AsRecorded, Granted, Manager!Rest
<1>1. \A r \in Runners : run[r].sess # {} \/ Manager!Live(r) => at[r] # "done" /\ ~Stuck(r)
  BY DEF Typed, Manager!TypeOK, Manager!Live, Stuck, Stopping
<1>2. Manager!OneInstance
  <2>1. ASSUME NEW r \in Runners \ crossed, Manager!Live(r), r # cur
        PROVE  \E a \in Manager!Agents : at[a] = "cancel" /\ target[a] = r
    <3>1. PICK a \in Manager!Agents : Stopping(a) /\ target[a] = r
      BY <1>1, <2>1 DEF Accounted
    <3>2. at[a] # "await"
      BY <2>1, <3>1 DEF Awaited, Manager!Live
    <3> QED
      BY <3>1, <3>2 DEF Stopping
  <2>2. \A r, s \in Runners \ crossed : run[r].sess # {} /\ run[s].sess # {} => r = s
    BY <1>1 DEF Single
  <2> QED
    BY <2>1, <2>2 DEF Manager!OneInstance
<1>3. Manager!RunsAsRecorded
  <2> SUFFICES ASSUME Manager!Rest, excuse = {}
               PROVE  /\ Manager!Wanted /\ rec.version \in unpacked =>
                           cur # None /\ Manager!Live(cur)
                      /\ ~Manager!Wanted =>
                           cur = None /\ \A r \in Runners \ crossed : ~Manager!Live(r)
    BY DEF Manager!RunsAsRecorded
  <2>1. Coming = {}
    BY DEF Coming, Serving, StopSteps
  <2>2. cur # None => Manager!Live(cur)
    BY DEF CurLives, LiveSteps, Manager!Live, Typed, Manager!TypeOK
  <2>3. ASSUME ~Manager!Wanted PROVE cur = None
    BY <2>3 DEF DisabledRests
  <2>4. ASSUME NEW r \in Runners \ crossed, cur = None PROVE ~Manager!Live(r)
    <3>1. \A a \in Manager!Agents : Stopping(a) => a \in Runners /\ target[a] = a
      BY DEF Stopping, Manager!Agents
    <3> QED
      BY Agencies, <1>1, <2>4, <3>1 DEF Accounted, Stuck
  <2> QED
    BY <2>1, <2>2, <2>3, <2>4 DEF EnabledRuns
<1>4. Manager!FilesMatchRecord
  BY DEF Files, Manager!FilesMatchRecord
<1>5. Manager!GrantsAreCurrent
  <2> SUFFICES ASSUME Manager!Rest, "replaced" \notin excuse, NEW r \in Runners \ (stale \cup outdated),
                      r = cur, at[r] = "serve"
               PROVE  run[r].sess = {rec.grants}
    BY DEF Manager!GrantsAreCurrent
  <2>1. cur # None
    BY Agencies
  <2>2. Granting(cur) = {} /\ Pushing(cur) = {}
    BY DEF Granting, Pushing, Serving
  <2> QED
    BY <2>1, <2>2 DEF SessionGrants
<1>6. Manager!NoPhantomReadings
  BY DEF Silent, Manager!NoPhantomReadings
<1> QED
  BY <1>2, <1>3, <1>4, <1>5, <1>6

-----------------------------------------------------------------------------
(* The broker.                                                             *)
LEMMA BrokerTypeInit ==
  ASSUME Broker!Init PROVE Broker!TypeOK
<1>1. {0, MaxChanges} \subseteq 0 .. MaxChanges /\ {0, MaxSaves} \subseteq 0 .. MaxSaves
  BY ConstantsAssumption DEF Broker!BrokerConstants
<1>2. (session = "ended") = (reader = "done")
  BY DEF Broker!Init
<1> QED
  BY <1>1, <1>2 DEF Broker!Init, Broker!TypeOK

LEMMA BrokerTypeNext ==
  ASSUME Broker!TypeOK, [Broker!Next]_(Broker!vars) PROVE Broker!TypeOK'
<1> USE DEF Broker!TypeOK, Broker!connections, Broker!setting, Broker!ais, Broker!storage
<1>1. ASSUME NEW c \in Dials, Broker!Connect(c) \/ Broker!Dialed(c) PROVE Broker!TypeOK'
  BY <1>1 DEF Broker!Connect, Broker!Dialed
<1>2. ASSUME NEW c \in Dials, Broker!AddHandle(c) PROVE Broker!TypeOK'
  BY <1>2 DEF Broker!AddHandle
<1>3. ASSUME NEW c \in Dials, Broker!IOClose(c) \/ Broker!PumpEnds(c) PROVE Broker!TypeOK'
  BY <1>3 DEF Broker!IOClose, Broker!PumpEnds, Broker!DropHandle, Broker!Closers
<1>4. ASSUME NEW a \in Broker!Closers, Broker!CloseTaken(a) PROVE Broker!TypeOK'
  BY <1>4 DEF Broker!CloseTaken
<1>5. ASSUME NEW s \in Setters, NEW g \in SUBSET Broker!Caps, Broker!Swap(s, g) PROVE Broker!TypeOK'
  <2>1. changes' \in 0 .. MaxChanges
    BY <1>5, ConstantsAssumption DEF Broker!Swap, Broker!BrokerConstants
  <2>2. late' \subseteq Dials
    BY <1>5 DEF Broker!Swap, Broker!Dialing
  <2>3. grants' = g /\ lost' \in [Setters -> SUBSET Broker!Caps] /\ tardy' \in BOOLEAN
    BY <1>5 DEF Broker!Swap
  <2> QED
    BY <1>5, <2>1, <2>2, <2>3 DEF Broker!Swap
<1>6. ASSUME NEW s \in Setters, Broker!CloseRevoked(s) PROVE Broker!TypeOK'
  BY <1>6 DEF Broker!CloseRevoked, Broker!TakeHandles, Broker!Closers
<1>7. ASSUME NEW s \in Setters, Broker!EvictRevoked(s) PROVE Broker!TypeOK'
  BY <1>7 DEF Broker!EvictRevoked
<1>8. CASE Broker!CheckPublish \/ Broker!Publish
  BY <1>8 DEF Broker!CheckPublish, Broker!Publish
<1>9. CASE Broker!Shutdown \/ Broker!End
  BY <1>9 DEF Broker!Shutdown, Broker!End
<1>10. CASE Broker!ShutdownHandles
  BY <1>10 DEF Broker!ShutdownHandles, Broker!TakeHandles, Broker!Closers, Broker!Dialing
<1>11. ASSUME NEW k \in Keys, NEW set \in BOOLEAN, Broker!LoadKV(k, set) PROVE Broker!TypeOK'
  <2>1. saves' \in 0 .. MaxSaves
    BY <1>11, ConstantsAssumption DEF Broker!LoadKV, Broker!BrokerConstants
  <2>2. copy' \in [Keys -> SUBSET Keys] /\ doubt' \subseteq Keys
    BY <1>11 DEF Broker!LoadKV, Broker!Storing
  <2> QED
    BY <1>11, <2>1, <2>2 DEF Broker!LoadKV
<1>12. ASSUME NEW k \in Keys, Broker!Truncate(k) PROVE Broker!TypeOK'
  BY <1>12 DEF Broker!Truncate
<1>13. ASSUME NEW k \in Keys, Broker!WriteKV(k) \/ Broker!Refuse(k) \/ Broker!LoseFile(k)
      PROVE  Broker!TypeOK'
  <2>1. acked' \subseteq Keys /\ file' \subseteq Keys /\ doubt' \subseteq Keys
    BY <1>13 DEF Broker!WriteKV, Broker!Refuse, Broker!LoseFile, Broker!Saved, Broker!Fails,
                 Broker!Acknowledge
  <2>2. /\ store' = [store EXCEPT ![k] = "idle"] /\ copy' = [copy EXCEPT ![k] = {}]
        /\ UNCHANGED <<saves, Broker!connections, victims, Broker!setting, session, orderly,
                       reader, Broker!ais>>
    BY <1>13 DEF Broker!WriteKV, Broker!Refuse, Broker!LoseFile, Broker!Replied
  <2> QED
    BY <2>1, <2>2
<1>14. CASE UNCHANGED Broker!vars
  BY <1>14 DEF Broker!vars
<1> QED
  BY <1>1, <1>2, <1>3, <1>4, <1>5, <1>6, <1>7, <1>8, <1>9, <1>10, <1>11, <1>12, <1>13, <1>14
     DEF Broker!Next, Broker!Plugin, Broker!Host, Broker!Client

-----------------------------------------------------------------------------
(* The handles.  What closeHandles has taken is out of the table for good, *)
(* and nobody takes a second time before it has closed what it took.       *)
InTable == \A c \in table : dial[c] = "pump" /\ conn[c] = "open"
OutOfTable ==
  \A a \in Broker!Closers : \A c \in victims[a] : c \notin table /\ dial[c] \in {"pump", "done"}
OpenIsHeld ==
  \A c \in Dials : conn[c] = "open" =>
    dial[c] = "add" \/ c \in table \/ \E a \in Broker!Closers : c \in victims[a]
AddIsOpen == \A c \in Dials : dial[c] = "add" => conn[c] = "open"
TakesOnce ==
  /\ \A s \in Setters : setter[s] # "evict" => victims[s] = {}
  /\ session \in {"open", "shutdown"} => victims["shutdown"] = {}
Held == InTable /\ OutOfTable /\ OpenIsHeld /\ AddIsOpen /\ TakesOnce

(* The grants.  Without the grant nothing is dialed but what was under way *)
(* when it went, and a setter that has still to close, or to evict, is     *)
(* there for what was dialed, or published, before.                        *)
Closes(s) == setter[s] = "close" /\ "net.tcp-client" \in lost[s]
Evicts(s) == setter[s] \in {"close", "evict"} /\ "ais.write" \in lost[s]
Revoked ==
  /\ "net.tcp-client" \notin grants =>
       /\ Broker!Dialing \subseteq late
       /\ \A c \in table \ late : \E s \in Setters : Closes(s)
  /\ "ais.write" \notin grants /\ ~tardy =>
       /\ reader # "publish"
       /\ targets => \E s \in Setters : Evicts(s)

(* The end.  After shutdown has taken the table, it has only late dials.   *)
Emptied ==
  orderly => session \in {"closing", "ended"} /\ Broker!Dialing \subseteq late /\ table \subseteq late
HandleInv == Broker!TypeOK /\ Held /\ Revoked /\ Emptied

LEMMA HandleInit ==
  ASSUME Broker!Init PROVE HandleInv
  BY BrokerTypeInit
     DEF Broker!Init, HandleInv, Held, InTable, OutOfTable, OpenIsHeld, AddIsOpen, TakesOnce,
         Revoked, Emptied, Broker!Dialing, Broker!Closers

LEMMA HeldNext ==
  ASSUME Broker!TypeOK, Held, [Broker!Next]_(Broker!vars) PROVE Held'
<1> USE ConstantsAssumption
    DEF Broker!BrokerConstants, Broker!TypeOK, Held, InTable, OutOfTable, OpenIsHeld,
        AddIsOpen, TakesOnce, Broker!connections, Broker!setting, Broker!ais, Broker!storage
<1>1. ASSUME NEW c \in Dials, Broker!Connect(c) PROVE Held'
  BY <1>1 DEF Broker!Connect
<1>2. ASSUME NEW c \in Dials, Broker!Dialed(c) PROVE Held'
  BY <1>2 DEF Broker!Dialed
<1>3. ASSUME NEW c \in Dials, Broker!AddHandle(c) PROVE Held'
  BY <1>3 DEF Broker!AddHandle
<1>4. ASSUME NEW c \in Dials, Broker!PumpEnds(c) PROVE Held'
  BY <1>4 DEF Broker!PumpEnds, Broker!DropHandle, Broker!Closers
<1>5. ASSUME NEW c \in Dials, Broker!IOClose(c) PROVE Held'
  BY <1>5 DEF Broker!IOClose, Broker!DropHandle, Broker!Closers
<1>6. ASSUME NEW a \in Broker!Closers, Broker!CloseTaken(a) PROVE Held'
  BY <1>6 DEF Broker!CloseTaken, Broker!Closers
<1>7. ASSUME NEW s \in Setters, NEW g \in SUBSET Broker!Caps, Broker!Swap(s, g) PROVE Held'
  BY <1>7 DEF Broker!Swap
<1>8. ASSUME NEW s \in Setters, Broker!CloseRevoked(s) PROVE Held'
  BY <1>8 DEF Broker!CloseRevoked, Broker!TakeHandles, Broker!Closers
<1>9. ASSUME NEW s \in Setters, Broker!EvictRevoked(s) PROVE Held'
  BY <1>9 DEF Broker!EvictRevoked
<1>10. CASE Broker!CheckPublish \/ Broker!Publish \/ Broker!Shutdown \/ Broker!End
  BY <1>10 DEF Broker!CheckPublish, Broker!Publish, Broker!Shutdown, Broker!End
<1>11. CASE Broker!ShutdownHandles
  BY <1>11 DEF Broker!ShutdownHandles, Broker!TakeHandles, Broker!Closers
<1>12. CASE (\E k \in Keys : \/ Broker!Truncate(k) \/ Broker!WriteKV(k) \/ Broker!Refuse(k)
                              \/ Broker!LoseFile(k) \/ \E set \in BOOLEAN : Broker!LoadKV(k, set))
            \/ UNCHANGED Broker!vars
  BY <1>12 DEF Broker!Truncate, Broker!WriteKV, Broker!Refuse, Broker!LoseFile, Broker!LoadKV, Broker!vars
<1> QED
  BY <1>1, <1>2, <1>3, <1>4, <1>5, <1>6, <1>7, <1>8, <1>9, <1>10, <1>11, <1>12
     DEF Broker!Next, Broker!Plugin, Broker!Host, Broker!Client

LEMMA RevokedNext ==
  ASSUME Broker!TypeOK, Held, Revoked, Emptied, [Broker!Next]_(Broker!vars)
  PROVE  Revoked' /\ Emptied'
<1> USE ConstantsAssumption
    DEF Broker!BrokerConstants, Broker!TypeOK, Revoked, Emptied, Broker!Dialing, Closes,
        Evicts, Broker!connections, Broker!setting, Broker!ais, Broker!storage
<1>1. ASSUME NEW c \in Dials, Broker!Connect(c) PROVE Revoked' /\ Emptied'
  BY <1>1 DEF Broker!Connect
<1>2. ASSUME NEW c \in Dials, Broker!Dialed(c) PROVE Revoked' /\ Emptied'
  BY <1>2 DEF Broker!Dialed
<1>3. ASSUME NEW c \in Dials, Broker!AddHandle(c) PROVE Revoked' /\ Emptied'
  BY <1>3 DEF Broker!AddHandle
<1>4. ASSUME NEW c \in Dials, Broker!PumpEnds(c) \/ Broker!IOClose(c) PROVE Revoked' /\ Emptied'
  BY <1>4 DEF Broker!PumpEnds, Broker!IOClose, Broker!DropHandle
<1>5. ASSUME NEW a \in Broker!Closers, Broker!CloseTaken(a) PROVE Revoked' /\ Emptied'
  BY <1>5 DEF Broker!CloseTaken
<1>6. ASSUME NEW s \in Setters, NEW g \in SUBSET Broker!Caps, Broker!Swap(s, g) PROVE Revoked' /\ Emptied'
  <2>1. /\ setter' = [setter EXCEPT ![s] = "close"] /\ lost'[s] = grants \ g /\ grants' = g
        /\ setter[s] = "idle" /\ \A t \in Setters : t # s => lost'[t] = lost[t]
        /\ UNCHANGED <<table, dial, session, orderly, reader, targets>>
    BY <1>6 DEF Broker!Swap
  <2>2. /\ "net.tcp-client" \in grants \ g => Closes(s)' /\ late' = late \cup Broker!Dialing
        /\ "ais.write" \in grants \ g => Evicts(s)'
        /\ tardy' = (tardy \/ (reader = "publish" /\ "ais.write" \in grants \ g))
        /\ late \subseteq late'
    BY <1>6, <2>1 DEF Broker!Swap
  <2>3. \A t \in Setters : (Closes(t) => Closes(t)') /\ (Evicts(t) => Evicts(t)')
    BY <2>1
  <2> QED
    BY <2>1, <2>2, <2>3
<1>7. ASSUME NEW s \in Setters, Broker!CloseRevoked(s) PROVE Revoked' /\ Emptied'
  BY <1>7 DEF Broker!CloseRevoked, Broker!RevokesTransport, Broker!TakeHandles
<1>8. ASSUME NEW s \in Setters, Broker!EvictRevoked(s) PROVE Revoked' /\ Emptied'
  BY <1>8 DEF Broker!EvictRevoked, Broker!RevokesAIS
<1>9. CASE Broker!CheckPublish \/ Broker!Publish \/ Broker!Shutdown \/ Broker!End
  BY <1>9 DEF Broker!CheckPublish, Broker!Publish, Broker!Shutdown, Broker!End
<1>10. CASE Broker!ShutdownHandles
  BY <1>10 DEF Broker!ShutdownHandles, Broker!TakeHandles
<1>11. CASE (\E k \in Keys : \/ Broker!Truncate(k) \/ Broker!WriteKV(k) \/ Broker!Refuse(k)
                              \/ Broker!LoseFile(k) \/ \E set \in BOOLEAN : Broker!LoadKV(k, set))
            \/ UNCHANGED Broker!vars
  BY <1>11 DEF Broker!Truncate, Broker!WriteKV, Broker!Refuse, Broker!LoseFile, Broker!LoadKV, Broker!vars
<1> QED
  BY <1>1, <1>2, <1>3, <1>4, <1>5, <1>6, <1>7, <1>8, <1>9, <1>10, <1>11
     DEF Broker!Next, Broker!Plugin, Broker!Host, Broker!Client

LEMMA HandleNext ==
  ASSUME HandleInv, [Broker!Next]_(Broker!vars) PROVE HandleInv'
  BY BrokerTypeNext, HeldNext, RevokedNext DEF HandleInv

LEMMA HandlesAreSafe ==
  ASSUME HandleInv PROVE Broker!RevokedIsGone /\ Broker!HandlesAreOpen /\ Broker!ShutdownCloses
<1> USE DEF HandleInv, Broker!TypeOK, Held
<1>1. Broker!RevokedIsGone
  BY DEF Broker!RevokedIsGone, Broker!Settled, Broker!Established, Revoked, OpenIsHeld, Closes,
         Evicts
<1>2. Broker!HandlesAreOpen
  BY DEF Broker!HandlesAreOpen, Broker!Established, InTable, OpenIsHeld
<1>3. Broker!ShutdownCloses
  BY DEF Broker!ShutdownCloses, Broker!Settled, Emptied, OpenIsHeld, Broker!Dialing
<1> QED
  BY <1>1, <1>2, <1>3

-----------------------------------------------------------------------------
(* The storage file, off the keys in doubt: when nobody is writing it is   *)
(* what was acknowledged, and so is the copy of each request under way,    *)
(* but for the key of that request.  Two under way are in doubt, and while *)
(* two write everything is.                                                *)
Stored(f, keys) == \A k \in keys : k \in f <=> k \in acked
Kept ==
  /\ Broker!Writing = {} => Stored(file, Keys \ doubt)
  /\ \A k \in Broker!Storing : Stored(copy[k], Keys \ (doubt \cup {k}))
  /\ \A k, l \in Broker!Storing : k # l => k \in doubt
  /\ \A k, l \in Broker!Writing : k # l => doubt = Keys
StorageInv == Broker!TypeOK /\ Kept

LEMMA StorageInit ==
  ASSUME Broker!Init PROVE StorageInv
  BY BrokerTypeInit DEF Broker!Init, StorageInv, Kept, Stored, Broker!Storing, Broker!Writing

LEMMA StorageNext ==
  ASSUME StorageInv, [Broker!Next]_(Broker!vars) PROVE StorageInv'
<1> SUFFICES Kept'
  BY BrokerTypeNext DEF StorageInv
<1> USE DEF StorageInv, Broker!TypeOK, Kept, Stored, Broker!Storing, Broker!Writing
<1>1. ASSUME NEW k \in Keys, NEW set \in BOOLEAN, Broker!LoadKV(k, set) PROVE Kept'
  <2>1. /\ store' = [store EXCEPT ![k] = "save"] /\ store[k] = "idle"
        /\ copy'[k] = (IF set THEN file \cup {k} ELSE file \ {k})
        /\ \A l \in Keys \ {k} : copy'[l] = copy[l]
        /\ UNCHANGED <<file, acked>>
    BY <1>1 DEF Broker!LoadKV
  <2>2. CASE Broker!Writing # {}
    <3>1. doubt' = Keys
      BY <1>1, <2>2 DEF Broker!LoadKV
    <3> QED
      BY <2>1, <3>1
  <2>3. CASE Broker!Writing = {} /\ Broker!Storing # {}
    <3>1. doubt' = doubt \cup Broker!Storing \cup {k}
      BY <1>1, <2>3 DEF Broker!LoadKV
    <3> QED
      BY <2>1, <2>3, <3>1
  <2>4. CASE Broker!Storing = {}
    <3>1. doubt' = doubt
      BY <1>1, <2>4 DEF Broker!LoadKV
    <3> QED
      BY <2>1, <2>4, <3>1
  <2> QED
    BY <2>2, <2>3, <2>4
<1>2. ASSUME NEW k \in Keys, Broker!Truncate(k) PROVE Kept'
  BY <1>2 DEF Broker!Truncate
<1>3. ASSUME NEW k \in Keys, Broker!WriteKV(k) PROVE Kept'
  <2>1. /\ store' = [store EXCEPT ![k] = "idle"] /\ store[k] = "write" /\ file' = copy[k]
        /\ \A l \in Keys \ {k} : copy'[l] = copy[l] /\ (l \in acked' <=> l \in acked)
        /\ k \in acked' <=> k \in copy[k]
        /\ doubt' = IF Broker!Storing = {k} THEN doubt \ {k} ELSE doubt
    BY <1>3 DEF Broker!WriteKV, Broker!Replied, Broker!Saved, Broker!Acknowledge
  <2>2. CASE Broker!Storing = {k}
    BY <2>1, <2>2
  <2>3. CASE Broker!Storing # {k}
    <3>1. k \in doubt /\ doubt' = doubt
      BY <2>1, <2>3
    <3> QED
      BY <2>1, <3>1
  <2> QED
    BY <2>2, <2>3
<1>4. ASSUME NEW k \in Keys, Broker!Refuse(k) PROVE Kept'
  <2>1. /\ store' = [store EXCEPT ![k] = "idle"] /\ store[k] = "save" /\ UNCHANGED file
        /\ \A l \in Keys \ {k} : copy'[l] = copy[l]
        /\ IF k \in copy[k] THEN UNCHANGED <<acked, doubt>>
                           ELSE acked' = acked \ {k} /\ doubt' = doubt \cup {k}
    BY <1>4 DEF Broker!Refuse, Broker!Replied, Broker!Fails, Broker!Acknowledge
  <2>2. CASE UNCHANGED <<acked, doubt>>
    BY <2>1, <2>2
  <2>3. CASE acked' = acked \ {k} /\ doubt' = doubt \cup {k}
    <3>1. (Broker!Writing = {} => Stored(file, Keys \ doubt))'
      BY <2>1, <2>3
    <3>2. (\A l \in Broker!Storing : Stored(copy[l], Keys \ (doubt \cup {l})))'
      BY <2>1, <2>3
    <3>3. /\ (\A l, m \in Broker!Storing : l # m => l \in doubt)'
          /\ (\A l, m \in Broker!Writing : l # m => doubt = Keys)'
      BY <2>1, <2>3
    <3> QED
      BY <3>1, <3>2, <3>3
  <2> QED
    BY <2>1, <2>2, <2>3
<1>5. ASSUME NEW k \in Keys, Broker!LoseFile(k) PROVE Kept'
  BY <1>5 DEF Broker!LoseFile, Broker!Replied
<1>6. ASSUME UNCHANGED Broker!storage PROVE Kept'
  BY <1>6 DEF Broker!storage
<1> QED
  BY <1>1, <1>2, <1>3, <1>4, <1>5, <1>6
     DEF Broker!Next, Broker!Plugin, Broker!Host, Broker!Client, Broker!Connect, Broker!Dialed,
         Broker!AddHandle, Broker!PumpEnds, Broker!IOClose, Broker!CloseTaken, Broker!Swap,
         Broker!CloseRevoked, Broker!EvictRevoked, Broker!CheckPublish, Broker!Publish,
         Broker!Shutdown, Broker!ShutdownHandles, Broker!End, Broker!vars

LEMMA StorageIsSafe ==
  ASSUME StorageInv PROVE Broker!AcknowledgedIsStored
  BY DEF StorageInv, Kept, Stored, Broker!AcknowledgedIsStored, Broker!Storing, Broker!Writing

-----------------------------------------------------------------------------
(* For any numbers of dials, setters of grants and storage keys, all at    *)
(* once: the state is typed; what a revoked grant or a shut-down session   *)
(* authorised is gone, the table is the truth about the connections; and   *)
(* the file has of each key what was acknowledged last.  Excused are dials *)
(* and publishes that were under way when their grant went, keys whose     *)
(* last request overlapped another's or was a delete that was acknowledged *)
(* though its save failed, and a file lost in a write.                     *)
THEOREM BrokerKeepsFaith ==
  Broker!Spec => [](/\ Broker!TypeOK
                    /\ Broker!RevokedIsGone /\ Broker!HandlesAreOpen /\ Broker!ShutdownCloses
                    /\ Broker!AcknowledgedIsStored)
<1>1. HandleInv /\ StorageInv =>
        /\ Broker!TypeOK /\ Broker!RevokedIsGone /\ Broker!HandlesAreOpen
        /\ Broker!ShutdownCloses /\ Broker!AcknowledgedIsStored
  BY HandlesAreSafe, StorageIsSafe DEF HandleInv
<1>2. Broker!Init => HandleInv /\ StorageInv
  BY HandleInit, StorageInit
<1>3. HandleInv /\ StorageInv /\ [Broker!Next]_(Broker!vars) => (HandleInv /\ StorageInv)'
  BY HandleNext, StorageNext
<1> QED
  BY <1>1, <1>2, <1>3, PTL DEF Broker!Spec

-----------------------------------------------------------------------------
(* The properties of the run.                                              *)
PluginsInv ==
  /\ part = "manager" => ManagerInv
  /\ part = "session" => SessionInv
  /\ part = "broker" => HandleInv /\ StorageInv

LEMMA PluginsInit == Init => PluginsInv
  BY ManagerInit, SessionInit, HandleInit, StorageInit DEF Init, PluginsInv

LEMMA PluginsNext == PluginsInv /\ [Next]_vars => PluginsInv'
<1> SUFFICES ASSUME PluginsInv, [Next]_vars PROVE PluginsInv'
  OBVIOUS
<1>1. UNCHANGED part
  BY DEF Next, vars
<1>2. CASE part = "manager"
  <2>1. [Manager!Next]_(Manager!vars)
    BY <1>2
       DEF Next, vars, OfManager, Manager!vars, Manager!record, Manager!agents,
           Manager!history
  <2> QED
    BY <1>1, <1>2, <2>1, ManagerNext DEF PluginsInv
<1>3. CASE part = "session"
  <2>1. [Session!Next]_(Session!vars)
    BY <1>3
       DEF Next, vars, OfSession, Session!vars, Session!pipe, Session!calls, Session!loop,
           Session!pings, Session!stop
  <2> QED
    BY <1>1, <1>3, <2>1, SessionNext DEF PluginsInv
<1>4. CASE part = "broker"
  <2>1. [Broker!Next]_(Broker!vars)
    BY <1>4
       DEF Next, vars, OfBroker, Broker!vars, Broker!connections, Broker!setting, Broker!ais,
           Broker!storage
  <2> QED
    BY <1>1, <1>4, <2>1, HandleNext, StorageNext DEF PluginsInv
<1> QED
  BY <1>1, <1>2, <1>3, <1>4 DEF Init, PluginsInv

LEMMA PluginsAreInv == Spec => []PluginsInv
  BY PluginsInit, PluginsNext, PTL DEF Spec

(* Every component's state is typed, whatever requests overlap (MCPlugins).*)
THEOREM PluginsAreTyped == Spec => []TypeOK
<1>1. PluginsInv => TypeOK
  BY DEF PluginsInv, ManagerInv, TypeOK, Typed, SessionInv, HandleInv
<1> QED
  BY <1>1, PluginsAreInv, PTL

(* closeHandles, dropHandle and a grant revoked in the middle of a dial or *)
(* a publish: the table tells the truth (broker.go, capabilities.go).      *)
THEOREM HandlesStayTrue == Spec => []HandlesAreTrue
<1>1. PluginsInv => HandlesAreTrue
  BY HandlesAreSafe DEF PluginsInv, HandlesAreTrue
<1> QED
  BY <1>1, PluginsAreInv, PTL

(* handleStorage reads, changes and writes a whole file: what was          *)
(* acknowledged of a key is in it, unless that request overlapped another, *)
(* was a delete whose save failed, or the file was lost (capabilities.go). *)
THEOREM AcknowledgedStaysStored == Spec => []AcknowledgedIsStored
<1>1. PluginsInv => AcknowledgedIsStored
  BY StorageIsSafe DEF PluginsInv, AcknowledgedIsStored
<1> QED
  BY <1>1, PluginsAreInv, PTL

(* stopRunner, the breaker and a restart, with any number of requests that *)
(* overlap: every instance but one is being stopped, and once requests are *)
(* answered the plugin that is recorded and unpacked runs.  What crossing  *)
(* requests do break is named, runner by runner (manager.go).              *)
THEOREM OneStaysRunning == Spec => []OneRuns
<1>1. PluginsInv => OneRuns
  BY ManagerIsTrue DEF PluginsInv, OneRuns
<1> QED
  BY <1>1, PluginsAreInv, PTL

(* SetGrants reaches the session there is and the instances to come, and a *)
(* plugin that was turned off leaves no readings, with any number of       *)
(* requests that overlap (manager.go, plugins.go).                         *)
THEOREM GrantsStayCurrent == Spec => []RunsAsGranted
<1>1. PluginsInv => RunsAsGranted
  BY ManagerIsTrue DEF PluginsInv, RunsAsGranted
<1> QED
  BY <1>1, PluginsAreInv, PTL
=============================================================================
