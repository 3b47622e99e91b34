--------------------------- MODULE PluginsPanel ---------------------------
(* <plugins-panel>: the Plugins tab lists the server's plugins, polls them     *)
(* every two seconds while it is mounted, and opens an editor, the log viewer  *)
(* or the connections of one.  Its requests and their answers cross freely.    *)
(* What is granted and what is configured are each 0 or 1.                     *)
EXTENDS Naturals, FiniteSets

CONSTANTS Plugins, Sources,  \* the plugins, those that provide nmea.source
          None, MaxEvents,   \* bound: acts of the user, changes by others
          MaxCalls           \* bound: requests under way
Rec == [on : BOOLEAN, grants : 0 .. 1, config : 0 .. 1, up : {"running", "error"}]
Shown == [toggle : BOOLEAN, badge : {"running", "error", "disabled"}, meta : {"running", "error"}]
PanelConstants ==  \* nothing is neither a row nor a signature
  /\ None \notin Shown
  /\ None \notin BOOLEAN \X (0 .. 1) \X (0 .. 1)
Nobody == [p \in Plugins |-> None]
Open == {None} \cup [id : Plugins, mode : {"grants", "config", "logs", "connections"}]

VARIABLES server,    \* the plugins and their status on the server
          calls,     \* requests on their way: [op, id, v]
          answers,   \* answers on their way: [op, id, ok, list]
          mounted,   \* in the settings dialog
          plugins, err, open,  \* _plugins, _err, _open
          rows,      \* the rows rendered: [toggle, badge, meta]
          view,      \* what #root holds
          editor,    \* the open editor: [id, draft]
          logs,      \* whose lines the log viewer shows
          logTimer,  \* whose interval runs
          events
dom == <<rows, view, editor, logs, logTimer>>
vars == <<server, calls, answers, mounted, plugins, err, open, dom, events>>

Event == events < MaxEvents /\ events' = events + 1
Call(op, id, v) == [op |-> op, id |-> id, v |-> v]
Room(cs) == Cardinality(cs) + Cardinality(answers) < MaxCalls

Init ==
  /\ server \in {[p \in Plugins |-> [on |-> TRUE, grants |-> 0, config |-> 0, up |-> "running"]], Nobody}
  /\ calls = {} /\ answers = {} /\ mounted = FALSE /\ plugins = Nobody /\ err = FALSE /\ open = None
  /\ rows = Nobody /\ view = "none" /\ editor = None /\ logs = None /\ logTimer = None /\ events = 0
-----------------------------------------------------------------------------
Badge(r) == IF r.on THEN r.up ELSE "disabled"
(* _rowHTML; the line under the name has the detail of the status.            *)
Row(r) == IF r = None THEN None ELSE [toggle |-> r.on, badge |-> Badge(r), meta |-> r.up]
Drawn(list) == [p \in Plugins |-> Row(list[p])]
(* _renderEditor, with the boxes ticked or the fields filled from the record. *)
Editor(list, o) ==
  IF o # None /\ list[o.id] # None
  THEN [id |-> o.id, draft |-> IF o.mode = "grants" THEN list[o.id].grants ELSE list[o.id].config]
  ELSE None
(* _render; the log viewer asks for its lines and restarts its interval.      *)
Render(list, o, cs) ==
  IF o # None /\ o.mode = "logs"
  THEN /\ view' = "logs" /\ logs' = None /\ logTimer' = o.id /\ editor' = None
       /\ calls' = cs \cup {Call("logs", o.id, 0)} /\ UNCHANGED rows
  ELSE /\ logs' = None /\ calls' = cs /\ UNCHANGED logTimer
       /\ IF o # None /\ o.mode = "connections"
          THEN view' = "connections" /\ editor' = None /\ UNCHANGED rows
          ELSE view' = "list" /\ rows' = Drawn(list) /\ editor' = Editor(list, o)
(* _load: the frame is painted before the list lands.                         *)
Load(cs, o) == open' = o /\ Render(plugins, o, cs \cup {Call("load", None, 0)})
(* structureSig: everything but the status.                                   *)
StructureSig(list) == [p \in Plugins |-> IF list[p] = None THEN None ELSE <<list[p].on, list[p].grants, list[p].config>>]
(* _patchBadges: the line under the name stays.                               *)
Patched(list) == [p \in Plugins |-> IF list[p] = None THEN None ELSE [rows[p] EXCEPT !.badge = Badge(list[p])]]
(* _onStream: a poll's list; the drill-downs draw themselves.                 *)
OnStream(list, cs) ==
  IF open # None /\ open.mode = "connections"
  THEN calls' = cs /\ UNCHANGED dom
  ELSE IF open = None /\ StructureSig(list) = StructureSig(plugins)
  THEN rows' = Patched(list) /\ calls' = cs /\ UNCHANGED <<view, editor, logs, logTimer>>
  ELSE Render(list, open, cs)

Mount ==
  /\ Event /\ ~mounted /\ mounted' = TRUE /\ Room(calls) /\ Load(calls, open)
  /\ UNCHANGED <<server, answers, plugins, err>>
Unmount ==
  /\ Event /\ mounted /\ mounted' = FALSE
  /\ UNCHANGED <<server, calls, answers, plugins, err, open, dom>>
PollWhenClosed ==
  /\ mounted /\ open = None /\ Room(calls) /\ calls' = calls \cup {Call("poll", None, 0)}
  /\ UNCHANGED <<server, answers, mounted, plugins, err, open, dom, events>>
Poll ==
  /\ mounted /\ Room(calls) /\ calls' = calls \cup {Call("poll", None, 0)}
  /\ UNCHANGED <<server, answers, mounted, plugins, err, open, dom, events>>
(* The interval of _renderLogs; _logTick looks at what is open before it asks. *)
LogTick ==
  /\ logTimer # None /\ open # None /\ open.mode = "logs" /\ open.id = logTimer /\ Room(calls)
  /\ calls' = calls \cup {Call("logs", logTimer, 0)}
  /\ UNCHANGED <<server, answers, mounted, plugins, err, open, dom, events>>

Put(p, r) == server' = [server EXCEPT ![p] = r]
Fresh == [on |-> FALSE, grants |-> 0, config |-> 0, up |-> "running"]
(* The server, at any time between a request and its answer.                  *)
Apply(c) ==
  LET r == IF c.id = None THEN None ELSE server[c.id] IN
    CASE c.op = "install" -> Put(c.id, Fresh)
      [] c.op = "remove" -> Put(c.id, None)
      [] c.op \in {"enable", "disable"} /\ r # None -> Put(c.id, [r EXCEPT !.on = c.op = "enable"])
      [] c.op = "grants" /\ r # None -> Put(c.id, [r EXCEPT !.grants = c.v])
      [] c.op = "config" /\ r # None -> Put(c.id, [r EXCEPT !.config = c.v])
      [] OTHER -> UNCHANGED server
Serve(c, applied, ok) ==
  /\ c \in calls /\ calls' = calls \ {c} /\ (ok => applied)
  /\ IF applied THEN Apply(c) ELSE UNCHANGED server
  /\ answers' = answers \cup {[op |-> c.op, id |-> c.id, ok |-> ok,
                               list |-> IF c.op \in {"load", "poll"} /\ ok THEN server ELSE Nobody]}
  /\ UNCHANGED <<mounted, plugins, err, open, dom, events>>
Loaded(a) ==
  /\ a.op = "load" /\ plugins' = IF a.ok THEN a.list ELSE plugins
  /\ err' = ~a.ok /\ Render(plugins', open, calls) /\ UNCHANGED open
Polled(a) ==
  /\ a.op = "poll" /\ UNCHANGED <<err, open>>
  /\ IF a.ok THEN plugins' = a.list /\ OnStream(a.list, calls) ELSE UNCHANGED <<plugins, calls, dom>>
(* _logTick after its request: into the log viewer, if there is one now.      *)
Logged(a) ==
  /\ a.op = "logs" /\ logs' = IF view = "logs" THEN a.id ELSE logs
  /\ UNCHANGED <<calls, plugins, err, open, rows, view, editor, logTimer>>
Failed == err' = TRUE /\ Render(plugins, open, calls) /\ UNCHANGED open
Acted(a) ==
  /\ a.op \in {"enable", "disable", "remove"} /\ UNCHANGED plugins
  /\ IF a.ok THEN Load(calls, IF a.op = "remove" THEN None ELSE open) /\ UNCHANGED err ELSE Failed
(* _save closes whatever is open by then.                                     *)
Saved(a) ==
  /\ a.op \in {"grants", "config"} /\ UNCHANGED plugins
  /\ IF a.ok THEN Load(calls, None) /\ err' = FALSE ELSE Failed
Installed(a) ==
  /\ a.op = "install" /\ UNCHANGED plugins
  /\ IF a.ok THEN Load(calls, open) /\ err' = FALSE ELSE Failed
Answer(a) ==
  /\ a \in answers /\ answers' = answers \ {a}
  /\ (Loaded(a) \/ Polled(a) \/ Logged(a) \/ Acted(a) \/ Saved(a) \/ Installed(a))
  /\ UNCHANGED <<server, mounted, events>>

(* _action                                                                    *)
Ask(op, id, v) == Room(calls) /\ calls' = calls \cup {Call(op, id, v)} /\ UNCHANGED <<open, dom>>
Listed(p) == mounted /\ view = "list" /\ rows[p] # None
Toggle(p) == Listed(p) /\ Ask(IF plugins[p] # None /\ plugins[p].on THEN "disable" ELSE "enable", p, 0)
Remove(p) == Listed(p) /\ Ask("remove", p, 0)
Drill(p, mode) ==
  /\ Listed(p) /\ mode # (IF p \in Sources THEN "config" ELSE "connections")
  /\ open' = IF open = [id |-> p, mode |-> mode] THEN None ELSE [id |-> p, mode |-> mode]
  /\ Render(plugins, open', calls)
(* The back button of a drill-down.                                           *)
Back ==
  /\ mounted /\ view \in {"logs", "connections"} /\ open' = None
  /\ view' = "list" /\ rows' = Drawn(plugins) /\ editor' = None /\ logs' = None /\ UNCHANGED calls
  /\ logTimer' = IF view = "logs" THEN None ELSE logTimer
(* The editor: the user types, saves or cancels.                              *)
Type == mounted /\ editor # None /\ editor' = [editor EXCEPT !.draft = 1 - @] /\ UNCHANGED <<calls, open, rows, view, logs, logTimer>>
SaveGrants == mounted /\ editor # None /\ open.mode = "grants" /\ Ask("grants", editor.id, editor.draft)
SaveConfig == mounted /\ editor # None /\ open.mode = "config" /\ Ask("config", editor.id, editor.draft)
Cancel == mounted /\ editor # None /\ open' = None /\ Render(plugins, None, calls)
Install(p) == mounted /\ view = "list" /\ server[p] = None /\ Ask("install", p, 0)
User ==
  /\ Event /\ (Type \/ SaveGrants \/ SaveConfig \/ Cancel \/ Back \/ \E p \in Plugins :
                 Toggle(p) \/ Remove(p) \/ Install(p) \/ \E m \in {"grants", "config", "logs", "connections"} : Drill(p, m))
  /\ UNCHANGED <<server, answers, mounted, plugins, err>>
(* Another screen, or the plugin's own status.                                *)
Other(p) ==
  /\ Event /\ server[p] # None
  /\ \E r \in Rec \cup {None} : r # server[p] /\ Put(p, r)
  /\ UNCHANGED <<calls, answers, mounted, plugins, err, open, dom>>

Next ==
  \/ Mount \/ Unmount \/ Poll \/ LogTick \/ User
  \/ \E c \in calls, d, ok \in BOOLEAN : Serve(c, d, ok)
  \/ \E a \in answers : Answer(a)
  \/ \E p \in Plugins : Other(p)
Served(op) == \E c \in calls : c.op = op /\ Serve(c, TRUE, TRUE)
Answered(op) == \E a \in answers : a.op = op /\ a.ok /\ Answer(a)
(* The intervals repeat, and their requests succeed in the end.               *)
Fairness ==
  /\ SF_vars(Poll) /\ SF_vars(Served("poll")) /\ WF_vars(Answered("poll"))
  /\ WF_vars(\E c \in calls, d, ok \in BOOLEAN : Serve(c, d, ok)) /\ WF_vars(\E a \in answers : Answer(a))
Spec == Init /\ [][Next]_vars
LiveSpec == Spec /\ Fairness
-----------------------------------------------------------------------------
TypeOK ==
  /\ server \in [Plugins -> Rec \cup {None}] /\ plugins \in [Plugins -> Rec \cup {None}]
  /\ open \in Open /\ view \in {"none", "list", "logs", "connections"}
  /\ logTimer \in Plugins \cup {None}

(* Patched or rebuilt, the list's rows say what the panel knows, buttons and   *)
(* badges alike: a press means what its label says, and an editor stands under *)
(* a row of the plugin that is open.                                          *)
Says(row, r) ==
  /\ (row = None) = (r = None)
  /\ r # None => row.toggle = r.on /\ row.badge = Badge(r)
RowsShowList ==
  /\ view = "list" => \A p \in Plugins : Says(rows[p], plugins[p])
  /\ editor # None => open # None /\ editor.id = open.id /\ open.mode \in {"grants", "config"} /\ rows[editor.id] # None

=============================================================================
