------------------------- MODULE ConnectionsPanel -------------------------
(* <connections-panel>: the NMEA connections and the plugin that provides one, *)
(* with an add/edit form, pause buttons, live badges and a sniffer of raw      *)
(* sentences.  refresh() asks twice, for the connections and for the plugins;  *)
(* a two-second tick patches the badges, and the host panel pushes the plugins *)
(* it polls.  Hosts and configs are 0, 1 or blank.                             *)
EXTENDS Naturals, FiniteSets

CONSTANTS Ids, Plug,         \* connections, the plugin source
          None, Blank, MaxEvents, MaxCalls   \* bounds: acts; requests under way
Values == 0 .. 1 \cup {Blank}
Conn == [host : Values, on : BOOLEAN, st : {"connected", "error"}]
Rows == Ids \cup {Plug}
Shown == [on : BOOLEAN, st : {"connected", "error"}]
ConnsConstants == None \notin Rows \cup Conn \cup Shown /\ Plug \notin Ids

VARIABLES server,     \* the connections, and the plugin as one more
          calls,      \* requests on their way: [op, id, rec]
          answers,    \* answers on their way: [op, id, ok, list]
          mounted, conns,   \* _conns and _plugSources
          rows,       \* the rows rendered: their pause button and badge
          editing,    \* None, "new", or a row of Rows
          kind,       \* _newKind: "tcp" or "plugin"
          draft,      \* the fields of the form rendered, None without a form
          sniff, streams, lines,  \* _sniffId, the streams open, whose lines are shown
          crossed,    \* ghost: a refresh began with another one's or a poll's answer
                      \* to come, a request failed, or another screen acted
          events
ui == <<rows, editing, kind, draft>>
raw == <<sniff, streams, lines>>
vars == <<server, calls, answers, mounted, conns, ui, raw, crossed, events>>

Event == events < MaxEvents /\ events' = events + 1
Call(op, id, rec) == [op |-> op, id |-> id, rec |-> rec]
Empty == [r \in Rows |-> None]
Room == Cardinality(calls) + Cardinality(answers) < MaxCalls
Refreshing == \E q \in calls \cup answers : q.op \in {"list", "plugins"}
Pushing == \E a \in answers : a.op = "poll"

Init ==
  /\ \/ server = [Empty EXCEPT ![Plug] = [host |-> Blank, on |-> FALSE, st |-> "connected"]]
     \/ server = [r \in Rows |-> [host |-> 0, on |-> TRUE, st |-> "connected"]]
  /\ calls = {} /\ answers = {} /\ mounted = FALSE /\ conns = Empty /\ rows = Empty
  /\ editing = None /\ kind = "tcp" /\ draft = None
  /\ sniff = None /\ streams = {} /\ lines = {} /\ crossed = FALSE /\ events = 0
-----------------------------------------------------------------------------
Host(list, r) == IF list[r] = None THEN Blank ELSE list[r].host
(* _formHtml: the fields of a form that is rendered anew.                     *)
Fields(list, e, k) ==
  IF e = None THEN None
  ELSE IF e = "new" THEN (IF k = "plugin" THEN Host(list, Plug) ELSE Blank) ELSE Host(list, e)
Row(c) == IF c = None THEN None ELSE [on |-> c.on, st |-> c.st]
(* A plugin that is neither on nor configured has no row.                     *)
PluginRow(p) == IF p # None /\ ~p.on /\ p.host = Blank THEN None ELSE Row(p)
Drawn(list) == [r \in Rows |-> IF r = Plug THEN PluginRow(list[r]) ELSE Row(list[r])]
(* _render: all of it, an open form included.                                 *)
Render(list, e, k) == editing' = e /\ kind' = k /\ draft' = Fields(list, e, k) /\ rows' = Drawn(list)
(* refresh, for whoever asked for it                                           *)
Asked(who) == Call("list", who, None)
Refresh(whose) ==
  calls' = calls \cup {Asked(who) : who \in whose} /\ crossed' = (Refreshing \/ Pushing)
StopSniff == sniff' = None /\ streams' = {} /\ lines' = {}

(* connectedCallback, after setPlugin when the panel is scoped to a new plugin: *)
(* both refresh.                                                              *)
Mount(scoped) ==
  /\ Event /\ ~mounted /\ mounted' = TRUE /\ Room
  /\ Refresh(IF scoped THEN {None, Plug} ELSE {None})
  /\ rows' = Empty /\ draft' = None /\ editing' = IF scoped THEN None ELSE editing
  /\ UNCHANGED <<server, answers, conns, kind, raw>>
Unmount ==
  /\ Event /\ mounted /\ mounted' = FALSE /\ StopSniff
  /\ UNCHANGED <<server, calls, answers, conns, ui, crossed>>
Tick ==
  /\ mounted /\ Room /\ calls' = calls \cup {Call("tick", None, None)}
  /\ UNCHANGED <<server, answers, mounted, conns, ui, raw, crossed, events>>
(* The host panel's poll, PluginsPanel's _pollLoop.                           *)
Poll ==
  /\ mounted /\ Room /\ calls' = calls \cup {Call("poll", None, None)}
  /\ UNCHANGED <<server, answers, mounted, conns, ui, raw, crossed, events>>

(* The server, between a request and its answer.                              *)
Changed(c) ==
  CASE c.op = "create" -> [server EXCEPT ![c.id] = c.rec]
    [] c.op = "remove" -> [server EXCEPT ![c.id] = None]
    [] c.op \in {"save", "pause"} -> [server EXCEPT ![c.id] = c.rec]
    [] c.op = "psave" -> [server EXCEPT ![Plug].host = c.rec.host]
    [] c.op \in {"penable", "ppause"} -> [server EXCEPT ![Plug].on = c.rec.on]
    [] OTHER -> server
Missing(c) == c.op \in {"save", "pause", "remove"} /\ (c.id = None \/ server[c.id] = None)
Serve(c, applied, ok) ==
  /\ c \in calls /\ calls' = calls \ {c} /\ (ok => applied) /\ (applied => ~Missing(c))
  /\ server' = IF applied THEN Changed(c) ELSE server
  /\ answers' = answers \cup {[op |-> c.op, id |-> c.id, ok |-> ok,
                               list |-> IF c.op \in {"list", "plugins", "tick", "poll"} /\ ok THEN server ELSE Empty]}
  /\ crossed' = (crossed \/ ~ok)
  /\ UNCHANGED <<mounted, conns, ui, raw, events>>

Part(list, part) == [r \in Rows |-> IF r \in part THEN list[r] ELSE conns[r]]
(* _patchStatus, _patchPluginStatus: rows that are there, in place.           *)
PatchStatus(r, c) == IF rows[r] # None /\ c # None THEN [rows[r] EXCEPT !.st = c.st] ELSE rows[r]
PatchPluginStatus(p) == [rows EXCEPT ![Plug] = PatchStatus(Plug, p)]
After(a, cs) == answers' = answers \ {a} /\ calls' = cs
(* refresh: the connections first, then the plugins, then the rendering.      *)
Listed(a) ==
  /\ a.op = "list" /\ conns' = Part(a.list, Ids) /\ After(a, calls \cup {Call("plugins", a.id, None)})
  /\ UNCHANGED <<ui, crossed>>
Rendered(a) ==
  /\ a.op = "plugins" /\ conns' = Part(a.list, {Plug}) /\ Render(conns', editing, kind)
  /\ After(a, calls) /\ UNCHANGED crossed
(* pluginsPush, with the list a poll has brought; a panel that has left the    *)
(* host's view is not told.                                                   *)
PluginsPush(list) ==
  /\ conns' = Part(list, {Plug})
  /\ IF editing = None /\ (conns[Plug] = None \/ conns[Plug].on # list[Plug].on)
     THEN Render(conns', editing, kind)
     ELSE rows' = PatchPluginStatus(conns'[Plug]) /\ UNCHANGED <<editing, kind, draft>>
Polled(a) ==
  /\ a.op = "poll" /\ After(a, calls) /\ UNCHANGED crossed
  /\ \/ a.ok /\ PluginsPush(a.list)
     \/ ~(a.ok /\ mounted) /\ UNCHANGED <<conns, ui>>
(* _applyStatuses: known connections only.                                    *)
Ticked(a) ==
  /\ a.op = "tick" /\ After(a, calls) /\ UNCHANGED <<editing, kind, draft, crossed>>
  /\ conns' = [r \in Rows |-> IF r \in Ids /\ conns[r] # None /\ a.list[r] # None
                               THEN [conns[r] EXCEPT !.st = a.list[r].st] ELSE conns[r]]
  /\ rows' = [r \in Rows |-> IF r \in Ids THEN PatchStatus(r, conns'[r]) ELSE rows[r]]
(* savePluginSource: the config, then the plugin is enabled.                  *)
Enabling(a) ==
  /\ a.op = "psave" /\ a.ok /\ After(a, calls \cup {Call("penable", Plug, [on |-> TRUE])})
  /\ UNCHANGED <<conns, ui, crossed>>
(* The end of _save, _delete, _togglePause and _togglePluginPause: a success  *)
(* refreshes, and a save's closes the form; a failure is only told.           *)
Done(a) ==
  /\ a.op \in {"create", "save", "penable", "pause", "ppause", "remove"} \/ (a.op = "psave" /\ ~a.ok)
  /\ editing' = IF a.ok /\ a.op \in {"create", "save", "penable"} THEN None ELSE editing
  /\ answers' = answers \ {a}
  /\ IF a.ok THEN Refresh({None}) ELSE UNCHANGED <<calls, crossed>>
  /\ UNCHANGED <<conns, rows, kind, draft>>
Answer(a) ==
  /\ a \in answers /\ (Listed(a) \/ Rendered(a) \/ Polled(a) \/ Ticked(a) \/ Enabling(a) \/ Done(a))
  /\ UNCHANGED <<server, mounted, raw, events>>

(* _onClick: what the rows and the form offer.                                *)
Ask(op, id, rec) == Room /\ calls' = calls \cup {Call(op, id, rec)}
Still == UNCHANGED <<calls, ui>>
Quiet(r) == IF sniff = r THEN StopSniff ELSE UNCHANGED raw
Add == StopSniff /\ Render(conns, "new", "tcp") /\ UNCHANGED calls
Edit(r) == rows[r] # None /\ StopSniff /\ Render(conns, r, kind) /\ UNCHANGED calls
Kind == draft # None /\ editing = "new" /\ Render(conns, editing, IF kind = "tcp" THEN "plugin" ELSE "tcp") /\ UNCHANGED <<calls, raw>>
Cancel == draft # None /\ Render(conns, None, kind) /\ UNCHANGED <<calls, raw>>
Type == draft # None /\ \E v \in 0 .. 1 : draft' = v /\ UNCHANGED <<calls, rows, editing, kind, raw>>
(* _togglePause puts the source as it was listed, but for its switch.         *)
TogglePause(r) ==
  /\ r # Plug /\ rows[r] # None /\ conns[r] # None /\ Quiet(r)
  /\ Ask("pause", r, [conns[r] EXCEPT !.on = ~@]) /\ UNCHANGED ui
TogglePluginPause ==
  /\ rows[Plug] # None /\ conns[Plug] # None /\ Quiet(Plug)
  /\ Ask("ppause", Plug, [on |-> ~conns[Plug].on]) /\ UNCHANGED ui
Delete(r) == r # Plug /\ rows[r] # None /\ Quiet(r) /\ Ask("remove", r, None) /\ UNCHANGED ui
(* What a press of Save reads off the form.                                   *)
FormValues(on) == [host |-> draft, on |-> on, st |-> "connected"]
PluginFormValues == [host |-> draft]
(* _save: by what is being edited when the button is pressed.                 *)
Save ==
  /\ draft # None /\ UNCHANGED <<raw, ui>>
  /\ IF editing = Plug \/ (editing = "new" /\ kind = "plugin") THEN Ask("psave", Plug, PluginFormValues)
     ELSE \E on \in BOOLEAN :
       IF editing = "new" THEN \E r \in Ids : server[r] = None /\ Ask("create", r, FormValues(on))
       ELSE Ask("save", editing, FormValues(on))
Stacked(r) == sniff' = r /\ streams' = streams \cup {r} /\ lines' = {}
(* _toggleSniff                                                               *)
OpenSniff(r) == sniff' = r /\ streams' = {r} /\ lines' = {}
ToggleSniff(r) == rows[r] # None /\ (IF sniff = r THEN StopSniff ELSE OpenSniff(r)) /\ Still
User ==
  /\ Event /\ mounted /\ UNCHANGED <<server, answers, mounted, conns, crossed>>
  /\ \/ Add \/ Kind \/ Cancel \/ Type \/ Save \/ TogglePluginPause
     \/ \E r \in Rows : Edit(r) \/ TogglePause(r) \/ Delete(r) \/ ToggleSniff(r)
OnSniffLine ==
  /\ \E r \in streams : lines' = lines \cup {r}
  /\ UNCHANGED <<server, calls, answers, mounted, conns, ui, sniff, streams, crossed, events>>
(* Another screen, or a source's own status.                                  *)
Other(r) ==
  /\ Event /\ crossed' = TRUE
  /\ \/ server[r] # None /\ \E st \in {"connected", "error"}, on \in BOOLEAN :
           server' = [server EXCEPT ![r].st = st, ![r].on = on]
     \/ r # Plug /\ server' = [server EXCEPT ![r] = None]
  /\ UNCHANGED <<calls, answers, mounted, conns, ui, raw>>

Next ==
  \/ (\E b \in BOOLEAN : Mount(b)) \/ Unmount \/ Tick \/ Poll \/ User \/ OnSniffLine
  \/ \E c \in calls, d, ok \in BOOLEAN : Serve(c, d, ok)
  \/ \E a \in answers : Answer(a)
  \/ \E r \in Rows : Other(r)
Spec == Init /\ [][Next]_vars
-----------------------------------------------------------------------------
TypeOK ==
  /\ server \in [Rows -> Conn \cup {None}] /\ conns \in [Rows -> Conn \cup {None}]
  /\ editing \in Rows \cup {None, "new"} /\ kind \in {"tcp", "plugin"} /\ draft \in Values \cup {None}
  /\ sniff \in Rows \cup {None} /\ mounted \in BOOLEAN /\ crossed \in BOOLEAN

(* At rest, after a refresh that began with no older list on its way and was  *)
(* followed by no failure and no other screen's change, the panel lists what  *)
(* the server has, and its rows and buttons say it (refresh, pluginsPush).    *)
ListIsServer ==
  mounted /\ calls = {} /\ answers = {} /\ ~crossed =>
    /\ \A r \in Rows : (conns[r] = None) = (server[r] = None)
         /\ conns[r] # None => conns[r].host = server[r].host /\ conns[r].on = server[r].on
    /\ editing = None => rows = Drawn(conns)

(* Polls and pushes leave an open form to its user (connections-panel.mjs:7). *)
KeepsForm == editing # None /\ (\E a \in answers : a.op \in {"tick", "poll"} /\ Answer(a))
               => draft' = draft /\ editing' = editing

(* One stream at most, of the row whose lines are shown, and none once the    *)
(* panel is gone.                                                             *)
SnifferIsOwn ==
  /\ streams = (IF sniff = None THEN {} ELSE {sniff}) /\ lines \subseteq streams
  /\ ~mounted => streams = {}
=============================================================================
