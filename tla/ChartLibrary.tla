---------------------------- MODULE ChartLibrary ----------------------------
(* The chart library panel (plugins/chart-library.mjs), the service it calls   *)
(* (data/chart-service.mjs) and the server's jobs and pack registry as the     *)
(* client sees them.  Downloads, removals, imports, switches and refreshes are *)
(* async functions that overlap wherever one awaits; each ends by reading the  *)
(* registry again, telling the shell and rendering.  Panes are rendered one at *)
(* a time, so what is on the screen is state of its own.                       *)
EXTENDS Naturals, FiniteSets

CONSTANTS Noaa,       \* NOAA packs, one per district of the catalogue
          User,       \* the pack an imported file becomes
          Clicks,     \* clicks on "Download selected", a flow each
          None,
          MaxOps,     \* bound: downloads, removals, imports, switches and refreshes begun
          MaxFaults   \* bound: requests and jobs that fail

VARIABLES
  have, off,    \* the server's registry: packs installed, providers disabled
  job,          \* the server's jobs: "none", "running", "done" or "error"
  snap,         \* _installedSets and _disabled
  prov, sel,    \* _selProvider and _selPack
  ticked,       \* _selected
  agreed,       \* _agreed
  modal,        \* the flow whose promise _agreeResolve settles
  batchBusy, uninstalling,
  at,           \* where each flow awaits
  on,           \* the job it follows
  packs,        \* the packs it is about
  reply,        \* the answer of /api/packs on its way to it
  column,       \* pane 2 as rendered
  detail,       \* pane 3 as rendered
  claimed,      \* history: packs whose download was reported done
  made,         \* history: packs whose download the server finished
  unheard,      \* history: the registry changed and the shell was not told
  abandoned,    \* history: a flow gave up on a job that goes on
  boxed,        \* history: a box was ticked since the detail pane was rendered
  ops, faults   \* counted against their bounds

registry == <<have, off>>
choice == <<prov, sel, ticked>>
gate == <<agreed, modal>>
busyFlags == <<batchBusy, uninstalling>>
flows == <<at, on, packs, reply>>
screen == <<column, detail, boxed>>
history == <<claimed, made, unheard, abandoned>>
vars == <<registry, job, snap, choice, gate, busyFlags, flows, screen, history, ops, faults>>

Packs == Noaa \cup {User}
Jobs == {"bundle", "percell", "remove", "import"}
Flow == Clicks \cup {"remove", "switch", "refresh", "import"}
LibraryConstants ==
  /\ User \notin Noaa /\ None \notin Packs \cup Flow \cup Jobs
  /\ Clicks \cap {"remove", "switch", "refresh", "import"} = {}
  /\ MaxOps \in Nat /\ MaxFaults \in Nat
Provider(k) == IF k \in Noaa THEN "noaa" ELSE "user"
Registry == [have : SUBSET Packs, off : SUBSET {"noaa", "user"}, ok : BOOLEAN]
Now == [have |-> have, off |-> off, ok |-> TRUE]
Nothing == [have |-> {}, off |-> {}, ok |-> FALSE]

Busy == batchBusy \/ uninstalling
Selected(k) == k # None /\ k \in IF prov = "user" THEN snap.have \ Noaa ELSE Noaa
Cells(k) == IF k \in snap.have /\ Provider(k) \notin snap.off THEN {k} ELSE {}

(* Pane 2: a row per pack with its badge and box, and either the button that   *)
(* downloads the ticked packs or the banner of the download under way.         *)
Rows(p) == IF p = None THEN {} ELSE IF p = "noaa" THEN Noaa ELSE snap.have \ Noaa
Badge(k) == IF k \notin snap.have THEN "none"
            ELSE IF Provider(k) \in snap.off THEN "off" ELSE "on"
PacksCol == [rows |-> [k \in Rows(prov) |-> Badge(k)], ticked |-> ticked, banner |-> batchBusy]

(* Pane 3: the selected pack, with Enable or Disable and Remove when it is     *)
(* installed, Select when it is not, and the drop zone with no pack selected.  *)
DetailCol == [sel |-> sel, known |-> Selected(sel),
              inst |-> sel \in snap.have, off |-> Provider(sel) \in snap.off,
              busy |-> Busy /\ sel \in snap.have, tick |-> sel \in ticked /\ sel \notin snap.have,
              cells |-> Cells(sel), drop |-> sel = None /\ prov = "user"]

TypeOK ==
  /\ have \subseteq Packs /\ off \subseteq {"noaa", "user"} /\ snap \in Registry
  /\ job \in [Jobs -> {"none", "running", "done", "error"}]
  /\ prov \in {None, "noaa", "user"} /\ sel \in Packs \cup {None} /\ ticked \subseteq Noaa
  /\ agreed \in BOOLEAN /\ modal \in Clicks \cup {None}
  /\ batchBusy \in BOOLEAN /\ uninstalling \in BOOLEAN
  /\ at \in [Flow -> {"idle", "agree", "post", "stream", "poll", "ask", "answer", "cells"}]
  /\ on \in [Flow -> Jobs \cup {None}] /\ packs \in [Flow -> SUBSET Packs]
  /\ reply \in [Flow -> Registry]
  /\ column.ticked \subseteq Noaa /\ detail.sel \in Packs \cup {None}
  /\ claimed \subseteq Packs /\ made \subseteq Packs /\ ops \in 0 .. MaxOps /\ faults \in 0 .. MaxFaults

(* The panel has been opened with no provider and has read the registry.       *)
Init ==
  /\ have \in SUBSET Packs /\ off = {}
  /\ job = [j \in Jobs |-> "none"]
  /\ snap = Now
  /\ prov = None /\ sel = None /\ ticked = {}
  /\ agreed = FALSE /\ modal = None /\ batchBusy = FALSE /\ uninstalling = FALSE
  /\ at = [f \in Flow |-> "idle"]
  /\ on = [f \in Flow |-> None] /\ packs = [f \in Flow |-> {}]
  /\ reply = [f \in Flow |-> Nothing]
  /\ column = PacksCol /\ detail = DetailCol /\ boxed = FALSE
  /\ claimed = {} /\ made = {} /\ unheard = FALSE /\ abandoned = FALSE /\ ops = 0 /\ faults = 0

Begin == ops < MaxOps /\ ops' = ops + 1
Fault == faults < MaxFaults /\ faults' = faults + 1
Go(f, w) == at' = [at EXCEPT ![f] = w]
RenderPacks == column' = PacksCol'
RenderDetail == detail' = DetailCol' /\ boxed' = FALSE
Render == RenderPacks /\ RenderDetail
-----------------------------------------------------------------------------
(* Choosing.  A provider's ticks do not carry over to the next.                *)
SelectProvider(p) ==
  /\ p # prov /\ prov' = p /\ sel' = None /\ ticked' = {}
  /\ UNCHANGED <<registry, job, snap, gate, busyFlags, flows, history, ops, faults>>
  /\ Render
SelectPack(k) ==
  /\ k \in DOMAIN column.rows /\ k # sel /\ sel' = k
  /\ UNCHANGED <<registry, job, snap, prov, ticked, gate, busyFlags, flows, column, history, ops, faults>>
  /\ RenderDetail
Flip(k) == ticked' = IF k \in ticked THEN ticked \ {k} ELSE ticked \cup {k}

(* A box in pane 2 updates the button above it in place.                       *)
TickBox(k) ==
  /\ k \in DOMAIN column.rows \cap Noaa /\ column.rows[k] = "none" /\ Flip(k)
  /\ column' = [column EXCEPT !.ticked = ticked']
  /\ boxed' = (boxed \/ k = sel)
  /\ UNCHANGED <<registry, job, snap, prov, sel, gate, busyFlags, flows, detail, history, ops, faults>>
TickDetail ==
  /\ detail.known /\ ~detail.inst /\ detail.sel \in Noaa /\ Flip(detail.sel)
  /\ UNCHANGED <<registry, job, snap, prov, sel, gate, busyFlags, flows, history, ops, faults>>
  /\ Render
-----------------------------------------------------------------------------
(* Downloads.  The packs are those ticked and not installed at the click; with *)
(* the agreement accepted before, no other click comes in between.             *)
Start(bs) ==
  /\ batchBusy' = TRUE
  /\ at' = [f \in Flow |-> IF f \in bs THEN "post" ELSE at[f]]
  /\ on' = [f \in Flow |-> IF f \in bs THEN "bundle" ELSE on[f]]
  /\ UNCHANGED <<registry, job, snap, choice, uninstalling, reply, detail, boxed, history, faults>>
  /\ RenderPacks
Picked == {k \in ticked : prov = "noaa" /\ k \notin snap.have}
Download(b) ==
  /\ at[b] = "idle" /\ column.ticked # {} /\ ~column.banner /\ ~batchBusy /\ Picked # {}
  /\ Begin /\ packs' = [packs EXCEPT ![b] = Picked]
  /\ IF agreed THEN Start({b}) /\ UNCHANGED gate
     ELSE \* a second modal takes the place of the first, whose promise stays pending
          /\ modal' = b /\ Go(b, "agree")
          /\ UNCHANGED <<registry, job, snap, choice, agreed, busyFlags, on, reply, screen, history, faults>>
(* Mutant: every click that waits for the agreement goes on.                   *)
SettlesAll == {b \in Clicks : at[b] = "agree"}
(* The one resolve function that is kept.                                      *)
Settles == {modal}
Accept ==
  /\ modal # None /\ agreed' = TRUE /\ modal' = None
  /\ Start(Settles) /\ UNCHANGED <<packs, ops>>
Decline ==
  /\ modal # None /\ modal' = None /\ Go(modal, "idle")
  /\ UNCHANGED <<registry, job, snap, choice, agreed, busyFlags, on, packs, reply, screen, history, ops, faults>>

(* The batch ends, ok or not: the selection is cleared, the registry read.     *)
EndBatch(b, ok) ==
  /\ ticked' = {} /\ batchBusy' = FALSE /\ Go(b, "ask") /\ on' = [on EXCEPT ![b] = None]
  /\ claimed' = IF ok THEN claimed \cup packs[b] ELSE claimed
  /\ UNCHANGED <<prov, sel, uninstalling>>
EndRemove == /\ Go("remove", "ask") /\ on' = [on EXCEPT !["remove"] = None]
             /\ UNCHANGED <<choice, busyFlags, claimed>>
(* An import that succeeded shows its pack.                                    *)
EndImport(ok) ==
  /\ Go("import", "ask") /\ on' = [on EXCEPT !["import"] = None]
  /\ IF ok THEN prov' = "user" /\ sel' = User ELSE UNCHANGED <<prov, sel>>
  /\ UNCHANGED <<ticked, busyFlags, claimed>>
Ended(f, ok) == IF f \in Clicks THEN EndBatch(f, ok) ELSE IF f = "remove" THEN EndRemove ELSE EndImport(ok)

(* The catch blocks: a bundle that failed is asked for cell by cell.           *)
Failed(f) == IF on[f] = "bundle"
             THEN /\ Go(f, "post") /\ on' = [on EXCEPT ![f] = "percell"]
                  /\ UNCHANGED <<choice, busyFlags, claimed>>
             ELSE Ended(f, FALSE)

(* The import request; the server answers with a job.                          *)
Post(f) ==
  /\ at[f] = "post" /\ job[on[f]] = "none" /\ ~(on[f] = "remove" /\ packs[f] \cap have = {})
  /\ job' = [job EXCEPT ![on[f]] = "running"] /\ Go(f, "stream")
  /\ UNCHANGED <<registry, snap, choice, gate, busyFlags, on, packs, reply, screen, history, ops, faults>>
(* A district that is gone already is answered without a job.                  *)
PostGone ==
  /\ at["remove"] = "post" /\ packs["remove"] \cap have = {} /\ EndRemove
  /\ UNCHANGED <<registry, job, snap, gate, packs, reply, screen, made, unheard, abandoned, ops, faults>>
PostFails(f) ==
  /\ at[f] = "post" /\ Fault /\ Failed(f)
  /\ UNCHANGED <<registry, job, snap, gate, packs, reply, screen, made, unheard, abandoned, ops>>

(* The server works; a job that fails may have installed some of its packs.    *)
Owner(j) == CHOOSE f \in Flow : on[f] = j
Becomes(h) == have' = h /\ unheard' = (unheard \/ h # have)
JobEnds(j) ==
  /\ job[j] = "running" /\ \E f \in Flow : on[f] = j
  /\ LET f == Owner(j)
     IN \/ /\ job' = [job EXCEPT ![j] = "done"] /\ UNCHANGED faults
           /\ Becomes(IF j = "remove" THEN have \ packs[f] ELSE have \cup packs[f])
           /\ made' = IF j = "remove" THEN made ELSE made \cup packs[f]
        \/ /\ job' = [job EXCEPT ![j] = "error"] /\ Fault /\ UNCHANGED made
           /\ \E got \in SUBSET (packs[f] \ IF j = "remove" THEN packs[f] ELSE {}) : Becomes(have \cup got)
  /\ UNCHANGED <<off, snap, choice, gate, busyFlags, flows, screen, claimed, abandoned, ops>>

(* _streamJob and pollJob: the end of the job, by either way.  An error on the *)
(* stream sends the flow to polling, which meets it again.                     *)
Hear(f) ==
  /\ at[f] \in {"stream", "poll"} /\ job[on[f]] \in {"done", "error"}
  /\ IF job[on[f]] = "done"
     THEN Ended(f, TRUE) /\ job' = [job EXCEPT ![on[f]] = "none"]
     ELSE IF at[f] = "stream" THEN Go(f, "poll") /\ UNCHANGED <<job, choice, busyFlags, on, claimed>>
     ELSE Failed(f) /\ job' = [job EXCEPT ![on[f]] = "none"]
  /\ UNCHANGED <<registry, snap, gate, packs, reply, screen, made, unheard, abandoned, ops, faults>>
StreamCloses(f) ==
  /\ at[f] = "stream" /\ Fault /\ Go(f, "poll")
  /\ UNCHANGED <<registry, job, snap, choice, gate, busyFlags, on, packs, reply, screen, history, ops>>
(* A status request that throws, or the last one: the job goes on unwatched.   *)
PollFails(f) ==
  /\ at[f] = "poll" /\ job[on[f]] = "running" /\ Fault /\ Failed(f) /\ abandoned' = TRUE
  /\ UNCHANGED <<registry, job, snap, gate, packs, reply, screen, made, unheard, ops>>
-----------------------------------------------------------------------------
(* Remove, by the detail pane's button as it was rendered.                     *)
Uninstall ==
  /\ detail.inst /\ ~detail.busy /\ detail.sel # None
  /\ ~uninstalling /\ detail.sel \in snap.have /\ at["remove"] = "idle" /\ Begin
  /\ uninstalling' = TRUE /\ Go("remove", "post") /\ on' = [on EXCEPT !["remove"] = "remove"]
  /\ packs' = [packs EXCEPT !["remove"] = {detail.sel}]
  /\ UNCHANGED <<registry, job, snap, choice, gate, batchBusy, reply, history, faults>>
  /\ Render
(* Enable and Disable; what the server answers is not looked at.               *)
Switch ==
  /\ detail.inst /\ ~detail.busy /\ detail.known /\ at["switch"] = "idle" /\ Begin
  /\ \/ /\ off' = IF detail.off THEN off \ {Provider(detail.sel)} ELSE off \cup {Provider(detail.sel)}
        /\ unheard' = (unheard \/ off' # off) /\ UNCHANGED faults
     \/ Fault /\ UNCHANGED <<off, unheard>>
  /\ Go("switch", "ask")
  /\ UNCHANGED <<have, job, snap, choice, gate, busyFlags, on, packs, reply, screen, claimed, made, abandoned>>
(* openFiles with a zip or a cell.                                             *)
OpenFiles ==
  /\ detail.drop /\ at["import"] = "idle" /\ Begin
  /\ Go("import", "post") /\ on' = [on EXCEPT !["import"] = "import"]
  /\ packs' = [packs EXCEPT !["import"] = {User}]
  /\ UNCHANGED <<registry, job, snap, choice, gate, busyFlags, reply, screen, history, faults>>
(* show() and refresh().                                                       *)
Refresh ==
  /\ at["refresh"] = "idle" /\ Begin /\ Go("refresh", "ask")
  /\ UNCHANGED <<registry, job, snap, choice, gate, busyFlags, on, packs, reply, history, faults>>
  /\ Render
-----------------------------------------------------------------------------
(* _syncRegistry.  ChartService.packs answers a failure with an empty list.    *)
Read(f) ==
  /\ at[f] = "ask" /\ Go(f, "answer")
  /\ \/ reply' = [reply EXCEPT ![f] = Now] /\ UNCHANGED faults
     \/ reply' = [reply EXCEPT ![f] = Nothing] /\ Fault
  /\ UNCHANGED <<registry, job, snap, choice, gate, busyFlags, on, packs, screen, history, ops>>
Apply(f) ==
  /\ at[f] = "answer" /\ snap' = reply[f] /\ Go(f, "cells")
  /\ reply' = [reply EXCEPT ![f] = Nothing]
  /\ UNCHANGED <<registry, job, choice, gate, busyFlags, on, packs, screen, history, ops, faults>>
(* Mutant: the shell is not told when a download ends.    *)
TellsDownloads(f) == unheard' = (unheard /\ f \in Clicks \cup {"refresh"})
(* What follows the sync.  A refresh tells the shell nothing.                  *)
Tells(f) == unheard' = (unheard /\ f = "refresh")
Finish(f) ==
  /\ at[f] = "cells" /\ Go(f, "idle") /\ packs' = [packs EXCEPT ![f] = {}] /\ Tells(f)
  /\ uninstalling' = (uninstalling /\ f # "remove")
  /\ UNCHANGED <<registry, job, snap, choice, gate, batchBusy, on, reply, claimed, made, abandoned, ops, faults>>
  /\ Render
-----------------------------------------------------------------------------
Jobbed(f) == Post(f) \/ PostFails(f) \/ Hear(f) \/ StreamCloses(f) \/ PollFails(f)
Synced(f) == Read(f) \/ Apply(f) \/ Finish(f)
Next ==
  \/ \E p \in {"noaa", "user"} : SelectProvider(p)
  \/ \E k \in Packs : SelectPack(k) \/ TickBox(k)
  \/ TickDetail \/ Accept \/ Decline \/ Uninstall \/ Switch \/ OpenFiles \/ Refresh \/ PostGone
  \/ \E b \in Clicks : Download(b)
  \/ \E f \in Flow : Jobbed(f) \/ Synced(f)
  \/ \E j \in Jobs : JobEnds(j)
Spec == Init /\ [][Next]_vars
Fairness == /\ \A f \in Flow : WF_vars(Post(f) \/ Hear(f)) /\ WF_vars(Synced(f))
            /\ WF_vars(PostGone) /\ \A j \in Jobs : WF_vars(JobEnds(j))
LiveSpec == Spec /\ Fairness
-----------------------------------------------------------------------------
Working(f) == at[f] \in {"post", "stream", "poll"}
Rest == \A f \in Flow : at[f] \in {"idle", "agree"}

(* At most one download runs, however the clicks and the agreement fall, while *)
(* _batchBusy is set; and nothing is fetched before the agreement is accepted. *)
OneBatch ==
  /\ Cardinality({b \in Clicks : Working(b)}) = IF batchBusy THEN 1 ELSE 0
  /\ (\E b \in Clicks : Working(b)) => agreed

(* A download reported done was done: the server finished it, whichever of the *)
(* two attempts and the two ways to watch a job it took.                       *)
DoneIsDone == claimed \subseteq made

(* With no flow under way both panes show what the panel holds, though they    *)
(* are rendered apart; a box ticked in pane 2 leaves the detail's Select       *)
(* button as it was.                                                           *)
PanelAtRest ==
  Rest => /\ column = PacksCol
          /\ [detail EXCEPT !.tick = 0] = [DetailCol EXCEPT !.tick = 0]
          /\ boxed \/ detail.tick = DetailCol.tick

(* The shell hears of every change a flow made, failures included, unless a    *)
(* flow gave up on its job.                                                    *)
Heard == ~unheard \/ abandoned

=============================================================================
