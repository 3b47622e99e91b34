---------------------------- MODULE WindForecast ----------------------------
(* The wind overlay and the plugin behind it. The plugin pulls a GFS series    *)
(* and an HRRR window and serves each as a document; the overlay loads them,   *)
(* asks for newer ones by writing a nonce into the plugin's config, moves the  *)
(* window by writing its centre there, and polls for what comes of it. Every   *)
(* request waits, so loads, polls and config writes interleave. The HRRR       *)
(* look-around layer, fetched right after the window, is left out.             *)
EXTENDS Naturals, FiniteSets

CONSTANTS Polls,        \* polls after a write (20 in the code)
          MaxRefreshes, \* bound: refreshes asked for
          MaxEvents     \* bound: in all, new cycles upstream, moves of the view, tens of
                        \* minutes gone by, failures, and the plugin's being disabled
ForecastConstants == Polls \in Nat \ {0} /\ MaxRefreshes \in Nat /\ MaxEvents \in Nat

VARIABLES
  upstream, \* the newest cycle of each model
  config,   \* the plugin's config: the refresh nonce and the window's centre (0: none)
  seen,     \* the config the plugin acted on last
  window,   \* hiLat and hiLon of its last HRRR chain
  chain,    \* its fetch chains: per model the document to come, None when idle
  pub,      \* the documents it serves
  docs,     \* _doc and _hi
  grids,    \* the documents the grids in use were built from
  load,     \* _loadDoc waits for the documents, or has returned
  refresh,  \* _refresh and _pollRefresh: where they are, the polls left, the answer on its way
  centre,   \* _writeCenter likewise
  hi,       \* _pollHi: the polls left of the timer armed (0: none), and the callbacks awaiting
  recent,   \* _centerSetAt is less than ten minutes ago
  pos,      \* the place read out: the vessel or the map's centre (0: too vague)
  auto,     \* the ten-minute interval is set
  gone,     \* destroy() was called
  wanted,   \* history: the centre written last
  overlap,  \* history: two config writes were in flight together
  refreshes, events
server == <<upstream, config, seen, window, chain, pub>>
data == <<docs, grids>>
writes == <<refresh, centre, hi>>
hist == <<wanted, overlap>>
bounds == <<refreshes, events>>
vars == <<server, data, load, writes, recent, pos, auto, gone, hist, bounds>>

Layer == {"base", "hi"}
None == <<0, 0>> \* a document: its cycle and the place its window is around
NoDocs == [l \in Layer |-> None]
Place == 0 .. 2
Off == [step |-> "off", left |-> 0, copy |-> [nonce |-> 0, at |-> 0], got |-> None]
Idle == [gfs |-> None, hrrr |-> None]

TypeOK == /\ config.at \in Place /\ pos \in Place /\ \A l \in Layer : pub[l][1] <= MaxEvents + 1 /\ docs[l][1] <= MaxEvents + 1
          /\ refresh.step \in {"off", "list", "post", "timer", "base", "hi", "mid", "cleared"} /\ refresh.left <= Polls
          /\ centre.step \in {"off", "list", "post"} /\ hi.timer <= Polls
          /\ \A c \in hi.calls : c.left \in 1 .. Polls
          /\ docs["base"] = None => grids = NoDocs
(* The plugin has started; its first chains run or are done.                   *)
Init == /\ upstream = [gfs |-> 1, hrrr |-> 1] /\ \E at \in {0, 1} : config = [nonce |-> 0, at |-> at]
        /\ seen = config /\ window = config.at
        /\ \/ chain = Idle /\ pub = [base |-> <<1, 0>>, hi |-> IF config.at = 0 THEN None ELSE <<1, config.at>>]
           \/ chain = [gfs |-> <<1, 0>>, hrrr |-> <<1, config.at>>] /\ pub = NoDocs
        /\ docs = NoDocs /\ grids = NoDocs /\ load = "asked"
        /\ refresh = Off /\ centre = Off /\ hi = [timer |-> 0, calls |-> {}]
        /\ recent = FALSE /\ pos = 1 /\ auto = FALSE /\ gone = FALSE
        /\ wanted = config.at /\ overlap = FALSE /\ refreshes = 0 /\ events = 0
Event == events < MaxEvents /\ events' = events + 1
Fails(ok) == IF ok THEN events' = events ELSE Event
-----------------------------------------------------------------------------
(* The plugin. A new nonce restarts both chains; else the HRRR chain follows   *)
(* the centre (ConfigChanged, maybeStartHRRR).                                 *)
ConfigChanged ==
  LET again == config.nonce # seen.nonce
      start == again \/ (config.at # 0 /\ config.at # window)
  IN /\ seen # config /\ seen' = config
     /\ window' = IF start THEN config.at ELSE window
     /\ chain' = [gfs  |-> IF again THEN <<upstream.gfs, 0>> ELSE chain.gfs,
                  hrrr |-> IF start THEN <<upstream.hrrr, config.at>> ELSE chain.hrrr]
     /\ UNCHANGED <<upstream, config, pub, data, load, writes, recent, pos, auto, gone, hist, bounds>>
Plugin(c, p) == /\ chain' = c /\ pub' = p
                /\ UNCHANGED <<upstream, config, seen, window, data, load, writes, recent, pos, auto, gone, hist, refreshes>>
GfsDone == /\ chain.gfs # None /\ Plugin([chain EXCEPT !.gfs = None], [pub EXCEPT !["base"] = chain.gfs]) /\ UNCHANGED events
(* Without a centre the series has no window to serve.                         *)
HrrrDone == /\ chain.hrrr # None /\ UNCHANGED events
            /\ Plugin([chain EXCEPT !.hrrr = None], IF chain.hrrr[2] = 0 THEN pub ELSE [pub EXCEPT !["hi"] = chain.hrrr])
ChainFails == /\ chain # Idle /\ Fails(FALSE)
              /\ \/ chain.gfs # None /\ Plugin([chain EXCEPT !.gfs = None], pub)
                 \/ chain.hrrr # None /\ Plugin([chain EXCEPT !.hrrr = None], pub)
Cycle(m) == /\ Event /\ upstream' = [upstream EXCEPT ![m] = @ + 1]
            /\ UNCHANGED <<config, seen, window, chain, pub, data, load, writes, recent, pos, auto, gone, hist, refreshes>>
-----------------------------------------------------------------------------
(* The overlay. The grids are built from the documents at the scrubbed time    *)
(* (_setStep); without the base document there is nothing to build.            *)
SetStep(d) == grids' = IF d["base"] = None THEN grids ELSE d
(* _maybeSetCenter at place p with documents d: a window that does not fit, a  *)
(* place to put it at, no write waiting, and none for ten minutes.             *)
MaybeSetCenter(d, p) ==
  IF centre.step = "off" /\ p # 0 /\ ~(d["hi"] # None /\ d["hi"][2] = p) /\ ~recent
  THEN /\ centre' = [Off EXCEPT !.step = "list", !.copy.at = p] /\ recent' = TRUE
       /\ overlap' = (overlap \/ refresh.step \in {"list", "post"})
  ELSE UNCHANGED <<centre, recent, overlap>>
(* start() goes on once the documents are there, and sets the interval.        *)
Started == load = "asked" /\ load' = "done" /\ auto' = TRUE
(* The three documents are asked for at once (_loadDoc).                       *)
LoadDoc(lost) ==
  LET d == [l \in Layer |-> IF l \in lost THEN None ELSE pub[l]]
  IN /\ Started /\ Fails(lost = {})
     /\ IF d["base"] = None THEN UNCHANGED <<data, centre, recent, overlap>>
        ELSE docs' = d /\ SetStep(d) /\ MaybeSetCenter(d, pos)
     /\ UNCHANGED <<server, refresh, hi, pos, gone, wanted, refreshes>>
Scrub == /\ ~gone /\ SetStep(docs) /\ UNCHANGED <<server, docs, load, writes, recent, pos, auto, gone, hist, bounds>>
(* A fix, here or elsewhere (the vessel subscription).                         *)
Fix(p) ==
  /\ ~gone /\ Fails(p = pos) /\ pos' = p /\ MaybeSetCenter(docs, p)
  /\ UNCHANGED <<server, data, load, refresh, hi, auto, gone, wanted, refreshes>>
Later == /\ recent /\ recent' = FALSE /\ Event
         /\ UNCHANGED <<server, data, load, writes, pos, auto, gone, hist, refreshes>>

(* _writeCenter: read the plugin's config, write it back with the centre.      *)
WriteCenter(ok) ==
  /\ centre.step # "off" /\ Fails(ok)
  /\ IF ~ok THEN centre' = Off /\ UNCHANGED <<config, hi, wanted>>
     ELSE IF centre.step = "list"
     THEN centre' = [centre EXCEPT !.step = "post", !.copy = [config EXCEPT !.at = centre.copy.at]] /\ UNCHANGED <<config, hi, wanted>>
     ELSE centre' = Off /\ config' = centre.copy /\ hi' = [hi EXCEPT !.timer = Polls] /\ wanted' = centre.copy.at
  /\ UNCHANGED <<upstream, seen, window, chain, pub, data, load, refresh, recent, pos, auto, gone, overlap, refreshes>>
(* _pollHi: the timer's callback asks for wind-hi.bin; a fresh one is taken,   *)
(* then wind-mid.bin. It arms the timer anew, whoever armed it last.           *)
HiFire == /\ hi.timer # 0 /\ hi' = [timer |-> 0, calls |-> hi.calls \cup {[left |-> hi.timer, step |-> "hi", got |-> pub["hi"]]}]
          /\ UNCHANGED <<server, data, load, refresh, centre, recent, pos, auto, gone, hist, bounds>>
HiAnswer(c, ok) ==
  /\ c \in hi.calls /\ c.step = "hi" /\ Fails(ok)
  /\ IF ok /\ c.got # None /\ c.got # docs["hi"]
     THEN docs' = [docs EXCEPT !["hi"] = c.got] /\ hi' = [hi EXCEPT !.calls = (@ \ {c}) \cup {[c EXCEPT !.step = "mid", !.got = None]}]
     ELSE hi' = [timer |-> c.left - 1, calls |-> hi.calls \ {c}] /\ UNCHANGED docs
  /\ UNCHANGED <<server, grids, load, refresh, centre, recent, pos, auto, gone, hist, refreshes>>
HiMid(c, ok) ==
  /\ c \in hi.calls /\ c.step = "mid" /\ Fails(ok)
  /\ SetStep(docs) /\ UNCHANGED docs /\ hi' = [hi EXCEPT !.calls = @ \ {c}]
  /\ UNCHANGED <<server, load, refresh, centre, recent, pos, auto, gone, hist, refreshes>>

(* _refresh, by the button or by the interval when a document is old.          *)
Stale == docs["base"] # None /\ (docs["base"][1] < upstream.gfs \/ (docs["hi"] # None /\ docs["hi"][1] < upstream.hrrr))
Refresh ==
  /\ refresh.step = "off" /\ refreshes < MaxRefreshes /\ (~gone \/ (auto /\ Stale))
  /\ refresh' = [Off EXCEPT !.step = "list"] /\ refreshes' = refreshes + 1
  /\ overlap' = (overlap \/ centre.step # "off")
  /\ UNCHANGED <<server, data, load, centre, hi, recent, pos, auto, gone, wanted, events>>
RefreshList(ok) ==
  /\ refresh.step = "list" /\ Fails(ok)
  /\ refresh' = IF ok THEN [refresh EXCEPT !.step = "post", !.copy = [config EXCEPT !.nonce = refreshes]] ELSE Off
  /\ UNCHANGED <<server, data, load, centre, hi, recent, pos, auto, gone, hist, refreshes>>
(* Mutant: the nonce alone is written.                                         *)
RefreshPostAlone(ok) ==
  /\ refresh.step = "post" /\ Fails(ok)
  /\ IF ok THEN config' = [nonce |-> refresh.copy.nonce, at |-> 0] /\ refresh' = [Off EXCEPT !.step = "timer", !.left = Polls]
     ELSE refresh' = Off /\ UNCHANGED config
  /\ UNCHANGED <<upstream, seen, window, chain, pub, data, load, centre, hi, recent, pos, auto, gone, hist, refreshes>>
RefreshPost(ok) ==
  /\ refresh.step = "post" /\ Fails(ok)
  /\ IF ok THEN config' = refresh.copy /\ refresh' = [Off EXCEPT !.step = "timer", !.left = Polls]
     ELSE refresh' = Off /\ UNCHANGED config
  /\ UNCHANGED <<upstream, seen, window, chain, pub, data, load, centre, hi, recent, pos, auto, gone, hist, refreshes>>
(* _pollRefresh: only a newer base document ends it early; then the other two  *)
(* are taken as they are, a failure leaving none.                              *)
RefreshFire == /\ refresh.step = "timer" /\ refresh' = [refresh EXCEPT !.step = "base", !.got = pub["base"]]
               /\ UNCHANGED <<server, data, load, centre, hi, recent, pos, auto, gone, hist, bounds>>
RefreshBase(ok) ==
  /\ refresh.step = "base" /\ Fails(ok)
  /\ IF ok /\ refresh.got # None /\ refresh.got # docs["base"]
     THEN docs' = [docs EXCEPT !["base"] = refresh.got] /\ refresh' = [refresh EXCEPT !.step = "hi", !.got = pub["hi"]]
     ELSE /\ refresh' = IF refresh.left = 1 THEN Off ELSE [refresh EXCEPT !.step = "timer", !.left = @ - 1]
          /\ UNCHANGED docs
  /\ UNCHANGED <<server, grids, load, centre, hi, recent, pos, auto, gone, hist, refreshes>>
RefreshHi(ok) ==
  /\ refresh.step = "hi" /\ Fails(ok)
  /\ docs' = [docs EXCEPT !["hi"] = IF ok THEN refresh.got ELSE None]
  /\ refresh' = [Off EXCEPT !.step = "mid"]
  /\ UNCHANGED <<server, grids, load, centre, hi, recent, pos, auto, gone, hist, refreshes>>
RefreshMid(ok) ==
  /\ refresh.step = "mid" /\ Fails(ok) /\ refresh' = Off /\ SetStep(docs)
  /\ UNCHANGED <<server, docs, load, centre, hi, recent, pos, auto, gone, hist, refreshes>>
(* The plugin is disabled: destroy() clears the timers there are.              *)
Destroy ==
  /\ ~gone /\ gone' = TRUE /\ Event /\ auto' = FALSE
  /\ hi' = [hi EXCEPT !.timer = 0] /\ refresh' = IF refresh.step = "timer" THEN [refresh EXCEPT !.step = "cleared"] ELSE refresh
  /\ UNCHANGED <<server, data, load, centre, recent, pos, hist, refreshes>>

Answers(ok) == \/ (\E lost \in SUBSET Layer : ok = (lost = {}) /\ LoadDoc(lost))
               \/ WriteCenter(ok) \/ RefreshList(ok) \/ RefreshPost(ok) \/ RefreshBase(ok) \/ RefreshHi(ok) \/ RefreshMid(ok)
               \/ \E c \in hi.calls : HiAnswer(c, ok) \/ HiMid(c, ok)
Work == GfsDone \/ HrrrDone \/ ConfigChanged
Timers == HiFire \/ RefreshFire
Next == \/ Work \/ ChainFails \/ (\E m \in {"gfs", "hrrr"} : Cycle(m))
        \/ Answers(TRUE) \/ Answers(FALSE) \/ Timers
        \/ Scrub \/ (\E p \in Place : Fix(p)) \/ Later \/ Refresh \/ Destroy
Spec == Init /\ [][Next]_vars
(* Requests are answered, each in its turn, and timers fire.                   *)
Fairness == /\ WF_vars(RefreshList(TRUE)) /\ WF_vars(RefreshPost(TRUE)) /\ WF_vars(RefreshFire)
            /\ WF_vars(RefreshBase(TRUE)) /\ WF_vars(RefreshHi(TRUE)) /\ WF_vars(RefreshMid(TRUE))
LiveSpec == Spec /\ Fairness
-----------------------------------------------------------------------------
(* The wind on the chart is that of the documents last taken: no load, poll or *)
(* refresh leaves grids of an older one, whatever other call it overtook       *)
(* (_pollHi, _pollRefresh and the slider each build them anew).                *)
GridsFollowDocs ==
  refresh.step \notin {"hi", "mid"} /\ (\A c \in hi.calls : c.step = "hi") /\ docs["base"] # None => grids = docs

(* A refresh keeps the window's centre in the config and a move of the window  *)
(* keeps the nonce, as long as one write ends before the next begins.          *)
CentreKept == ~overlap => config.at = wanted

(* The refresh button comes to rest after every refresh, answered or not; a    *)
(* refresh in the way of no other keeps none from starting.                    *)
RefreshOver == refresh.step = "off" \/ gone

=============================================================================
