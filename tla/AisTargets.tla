----------------------------- MODULE AisTargets -----------------------------
(* Other vessels on the chart: the feed every plugin shares (plugin-host.mjs   *)
(* AISFeed), the built-in overlay that keeps a marker per target                *)
(* (plugins/ais-overlay.mjs), its switch in the Layers control and the card of  *)
(* a tapped target (plugins/target-info.mjs).  The feed is a stream that        *)
(* reconnects by itself or, without EventSource, a poll.                        *)
EXTENDS Naturals, FiniteSets, Sequences

CONSTANTS Mmsi, Place, None,
          MaxChanges, \* bound: changes of a target at the server
          MaxClicks   \* bound: switches and taps
Target == [at : Place \cup {None}, dir : 0 .. 1 \cup {None}, danger : BOOLEAN]
Marker == [at : Place, turned : 0 .. 1, glyph : [directed : BOOLEAN, danger : BOOLEAN], t : Target, shown : BOOLEAN]
AisConstants == {MaxChanges, MaxClicks} \subseteq Nat /\ None \notin Marker \cup Target

VARIABLES
  server,  \* the targets the server would send
  wire,    \* messages of the stream, or the answer of a poll, on their way
  last,    \* AISFeed._last
  started, \* core.ais has subscribed, and the stream is open
  markers, \* _markers: what each marker shows, and whether its element does
  visible, \* _visible
  hidden,  \* LayerRegistry._hidden has "core.ais:targets"
  card,    \* the target and the data the card shows, None when hidden
  changes, clicks
vars == <<server, wire, last, started, markers, visible, hidden, card, changes, clicks>>

Nothing == [m \in Mmsi |-> None]
Init ==
  /\ server = Nothing /\ wire = <<>> /\ last = Nothing /\ started = FALSE /\ markers = Nothing
  /\ visible = TRUE /\ hidden \in BOOLEAN /\ card = None /\ changes = 0 /\ clicks = 0
-----------------------------------------------------------------------------
(* The server hears of a target, or loses it.                                 *)
Change(m, t) ==
  /\ changes < MaxChanges /\ changes' = changes + 1 /\ t # server[m]
  /\ server' = [server EXCEPT ![m] = t]
  /\ UNCHANGED <<wire, last, started, markers, visible, hidden, card, clicks>>
Send ==
  /\ started /\ Len(wire) < 2 /\ wire' = Append(wire, server)
  /\ (wire # <<>> => wire[Len(wire)] # server) /\ server # last
  /\ UNCHANGED <<server, last, started, markers, visible, hidden, card, changes, clicks>>
(* The stream drops what it carried and reconnects; a poll fails.             *)
Drop ==
  /\ wire # <<>> /\ wire' = <<>> /\ changes < MaxChanges /\ changes' = changes + 1
  /\ UNCHANGED <<server, last, started, markers, visible, hidden, card, clicks>>

(* _upsert: a new marker honours the switch; glyph and colour are set when the *)
(* direction or the danger appears or goes, the rotation every time.           *)
Placed(t) == t # None /\ t.at # None
Glyph(t) == [directed |-> t.dir # None, danger |-> t.danger]
UpsertShown(rec, t) == \* mutant: a new marker shows whatever the switch says
  [at |-> t.at, turned |-> IF t.dir = None THEN 0 ELSE t.dir, glyph |-> Glyph(t), t |-> t,
   shown |-> IF rec = None THEN TRUE ELSE rec.shown]
Upsert(rec, t) ==
  [at |-> t.at, turned |-> IF t.dir = None THEN 0 ELSE t.dir, glyph |-> Glyph(t), t |-> t,
   shown |-> IF rec = None THEN visible ELSE rec.shown]
(* _apply: the markers of targets no longer in the feed go.                    *)
Apply(ts) == markers' = [m \in Mmsi |-> IF Placed(ts[m]) THEN Upsert(markers[m], ts[m]) ELSE None]
(* _emit: kept for a later subscriber, and handed to those there are.          *)
Emit ==
  /\ wire # <<>> /\ wire' = Tail(wire) /\ last' = Head(wire)
  /\ Apply(Head(wire))
  /\ UNCHANGED <<server, started, visible, hidden, card, changes, clicks>>
(* start(): the first subscriber opens the stream; the switch is registered and *)
(* told its stored state at once.                                              *)
SetVisible(v) ==
  /\ visible' = v
  /\ markers' = [m \in Mmsi |-> IF markers[m] = None THEN None ELSE [markers[m] EXCEPT !.shown = v]]
Start ==
  /\ ~started /\ started' = TRUE
  /\ SetVisible(~hidden)
  /\ UNCHANGED <<server, wire, last, hidden, card, changes, clicks>>
Toggle ==
  /\ started /\ clicks < MaxClicks /\ clicks' = clicks + 1
  /\ hidden' = ~hidden /\ SetVisible(hidden)
  /\ UNCHANGED <<server, wire, last, started, card, changes>>
(* A tap on a marker that shows: the card has its latest data; a drag, a tap on *)
(* the chart, Escape or its button hides it.                                    *)
Select(m) ==
  /\ clicks < MaxClicks /\ clicks' = clicks + 1
  /\ markers[m] # None /\ markers[m].shown /\ card' = [of |-> m, t |-> markers[m].t]
  /\ UNCHANGED <<server, wire, last, started, markers, visible, hidden, changes>>
HideCard ==
  /\ card # None /\ card' = None
  /\ UNCHANGED <<server, wire, last, started, markers, visible, hidden, changes, clicks>>

Next ==
  \/ \E m \in Mmsi : Select(m) \/ \E t \in Target \cup {None} : Change(m, t)
  \/ Send \/ Drop \/ Emit \/ Start \/ Toggle \/ HideCard
Spec == Init /\ [][Next]_vars
(* The server sends what changed, and the page reads it.                       *)
Fairness == WF_vars(Send) /\ WF_vars(Emit) /\ WF_vars(Start)
LiveSpec == Spec /\ Fairness
-----------------------------------------------------------------------------
TypeOK ==
  /\ {server, last} \subseteq [Mmsi -> Target \cup {None}] /\ Len(wire) <= 2
  /\ markers \in [Mmsi -> Marker \cup {None}]
  /\ started \in BOOLEAN /\ visible \in BOOLEAN /\ hidden \in BOOLEAN
  /\ changes \in 0 .. MaxChanges /\ clicks \in 0 .. MaxClicks

(* The markers are those of the last message, placed, turned and coloured as    *)
(* it says, and every one of them shows exactly when the switch is on: those    *)
(* that came while it was off, too.                                             *)
MarkersFollow ==
  started => \A m \in Mmsi :
    /\ markers[m] # None <=> Placed(last[m])
    /\ markers[m] # None =>
         /\ markers[m].t = last[m] /\ markers[m].at = last[m].at
         /\ markers[m].glyph = Glyph(last[m]) /\ (markers[m].shown <=> ~hidden)
(* The chart comes to show the server's targets, dropped messages or not.       *)
Shows == \A m \in Mmsi : IF Placed(server[m]) THEN markers[m] # None /\ markers[m].t = server[m] ELSE markers[m] = None
=============================================================================
