---------------------------- MODULE ChartArchives ----------------------------
(* Charts rendered from .pmtiles archives: <ChartSources>, which puts opened   *)
(* archives behind one source per band and keeps the live style's sources in   *)
(* step with them, and the shell, which loads archives at boot and when one is *)
(* dropped on the page (restoreArchive, _applyArchives, _importArchiveFile).   *)
(* Every open reads over the network: calls interleave while they wait.        *)
EXTENDS Naturals, FiniteSets, Sequences, SequencesExt

CONSTANTS MaxFails, \* bound: opens that fail
          MaxDrops, \* bound: archives dropped on the page
          MaxPans   \* bound: moves of the view to another latitude
VARIABLES
  hosted,   \* what the deployment provides: a pinned archive, districts or regions
  saved,    \* an archive kept in IndexedDB by an earlier visit
  bands,    \* _bands: per band its MultiArchive, 0 when it has none
  multi,    \* every MultiArchive made: the archives in it
  live,     \* the style on the map: per source its encoding, maxzoom and the archives its tiles came from
  shownAt,  \* and the SCAMIN values and the latitude its bucket layers were made for
  scamin,   \* _scaminValues and _scaminLat (0: not set)
  timer,    \* _scaminRebuildT: "none", "rebuild" or "regate"
  lat,      \* the latitude of the centre
  call,     \* per caller, the load it is in
  imported, \* _importedArchives
  has,      \* _hasArchive
  broken,   \* history: an open failed and no call has completed since
  lost,     \* history: the archives whose open failed
  crossed,  \* history: the bands were reset while another call was opening an archive
  dropped,  \* history: a rebuild of the buckets was called off
  fails, drops, pans
vars == <<hosted, saved, bands, multi, live, shownAt, scamin, timer, lat, call, imported, has, broken, lost, crossed, dropped, fails, drops, pans>>

Band == {"general", "harbor", "all"}
Fan(b) == IF b = "all" THEN <<"general", "harbor">> ELSE <<b>> \* _fanBands
BandBake(b) == CASE b = "general" -> 9 [] b = "harbor" -> 16 [] b = "all" -> 18
(* What init() reads of an archive's header and metadata.                      *)
Archive == {"old", "new", "user"}
ArchiveMlt(a) == a # "old"
ArchiveMax(a) == CASE a = "old" -> 12 [] a = "new" -> 16 [] a = "user" -> 14
ArchiveScamin(a) == CASE a = "old" -> {} [] a = "new" -> {12} [] a = "user" -> {12, 22}

Arcs(b) == IF bands[b] = 0 THEN {} ELSE multi[bands[b]]
(* MultiArchive._recompute *)
Mlt(S) == S # {} /\ \A a \in S : ArchiveMlt(a)
Deepest(b, S) == IF S = {} THEN BandBake(b) ELSE CHOOSE z \in {ArchiveMax(a) : a \in S} : \A a \in S : ArchiveMax(a) <= z
Values(S) == UNION {ArchiveScamin(a) : a \in S}
Loaded == UNION {Arcs(b) : b \in Band}
-----------------------------------------------------------------------------
(* The loads. A call adds archives one after the other: todo holds the pairs   *)
(* <<archive, band>>, at the bands still to open for the head of todo, into    *)
(* the MultiArchive the open in flight will join.                              *)
Caller == {"boot", "drop"}
Idle == [kind |-> "none", todo |-> <<>>, at |-> <<>>, into |-> {}, ok |-> FALSE]
Busy(c) == call[c].kind # "none"
Opening(c) == call[c].into # {}

Empty == [b \in Band |-> [mlt |-> FALSE, max |-> BandBake(b), tiles |-> {}]]
(* What the catalog can name (loadCatalog); an attribute names one archive.      *)
Deployment == {"pinned", "districts", "regions", "attribute"}
Init == /\ hosted \in Deployment /\ saved \in BOOLEAN
        /\ bands = [b \in Band |-> 0] /\ multi = <<>> /\ live = Empty
        /\ shownAt = [values |-> {}, lat |-> 1]
        /\ scamin = [values |-> {}, lat |-> 0] /\ timer = "none" /\ lat = 1
        /\ call = [c \in Caller |-> IF c = "boot" THEN [Idle EXCEPT !.kind = "restore"] ELSE Idle]
        /\ imported = {} /\ has = FALSE /\ broken = FALSE /\ lost = {} /\ crossed = FALSE /\ dropped = FALSE
        /\ fails = 0 /\ drops = 0 /\ pans = 0
TypeOK == /\ bands \in [Band -> 0 .. Len(multi)] /\ \A i \in 1 .. Len(multi) : multi[i] \subseteq Archive
          /\ timer \in {"none", "rebuild", "regate"} /\ lat \in {1, 2} /\ scamin.lat \in 0 .. 2
          /\ \A c \in Caller : Opening(c) => Busy(c) /\ call[c].into \subseteq 1 .. Len(multi)
          /\ has \in BOOLEAN /\ imported \subseteq Archive

(* The source manager's effects on the map. sourcesDict: the sources a style   *)
(* built now has; refresh: every source asks for its tiles again.              *)
Built(bs, ms) == [b \in Band |-> LET S == IF bs[b] = 0 THEN {} ELSE ms[bs[b]]
                                 IN [mlt |-> Mlt(S), max |-> Deepest(b, S), tiles |-> S]]
Buckets == [values |-> scamin.values, lat |-> IF scamin.lat = 0 THEN lat ELSE scamin.lat]
(* _updateSourceZoom, then a rebuild when a decoder changed, or a refresh: it  *)
(* leaves alone the maxzoom of a source that no longer has archives.           *)
Update(bs, ms) ==
  LET new == Built(bs, ms)
      switch == \E b \in Band : bs[b] # 0 /\ live[b].mlt # new[b].mlt
  IN IF switch THEN live' = new /\ shownAt' = Buckets
     ELSE /\ live' = [b \in Band |-> [new[b] EXCEPT !.mlt = live[b].mlt, !.max = IF bs[b] = 0 THEN live[b].max ELSE @]]
          /\ UNCHANGED shownAt
(* The bands with a MultiArchive for band b: an existing one, or a new one.    *)
Ensure(bs, ms, b) == IF bs[b] # 0 THEN [bands |-> bs, multi |-> ms]
                     ELSE [bands |-> [bs EXCEPT ![b] = Len(ms) + 1], multi |-> Append(ms, {})]
(* The head of a caller's todo starts to open for its first band.              *)
Begin(c, todo, bs, ms, k, ok) ==
  IF todo = <<>> THEN /\ call' = [call EXCEPT ![c] = [Idle EXCEPT !.kind = k, !.ok = ok]]
                      /\ bands' = bs /\ multi' = ms
  ELSE LET fan == Fan(todo[1][2]) e == Ensure(bs, ms, fan[1])
       IN /\ call' = [call EXCEPT ![c] = [kind |-> k, todo |-> todo, at |-> fan, into |-> {e.bands[fan[1]]}, ok |-> ok]]
          /\ bands' = e.bands /\ multi' = e.multi

(* An open answers (addArchive): the archive joins the MultiArchive its band   *)
(* had when the open began; then its next band, or the update.                 *)
Joined(c) == LET i == CHOOSE i \in call[c].into : TRUE
             IN [multi EXCEPT ![i] = @ \cup {call[c].todo[1][1]}]
Opened(c) ==
  /\ Opening(c) /\ call[c].kind # "addAll" /\ Len(call[c].at) > 1
  /\ LET rest == Tail(call[c].at) e == Ensure(bands, Joined(c), rest[1])
     IN /\ bands' = e.bands /\ multi' = e.multi
        /\ call' = [call EXCEPT ![c] = [@ EXCEPT !.at = rest, !.into = {e.bands[rest[1]]}]]
  /\ UNCHANGED <<hosted, saved, live, shownAt, scamin, timer, lat, imported, has, broken, lost, crossed, dropped, fails, drops, pans>>
Added(c) ==
  /\ Opening(c) /\ call[c].kind # "addAll" /\ Len(call[c].at) = 1
  /\ Update(bands, Joined(c)) /\ multi' = Joined(c) /\ broken' = FALSE
  /\ call' = [call EXCEPT ![c] = [@ EXCEPT !.todo = Tail(@), !.at = <<>>, !.into = {}, !.ok = TRUE]]
  /\ has' = (has \/ call[c].kind \in {"import", "again", "saved", "blob", "bake"})
  /\ imported' = IF call[c].kind \in {"import", "saved"} THEN imported \cup {call[c].todo[1][1]} ELSE imported
  /\ UNCHANGED <<hosted, saved, bands, scamin, timer, lat, lost, crossed, dropped, fails, drops, pans>>
(* It fails: that archive is given up, half way through its bands perhaps.     *)
OpenFails(c) ==
  /\ Opening(c) /\ call[c].kind # "addAll" /\ fails < MaxFails
  /\ fails' = fails + 1 /\ broken' = TRUE /\ lost' = lost \cup {call[c].todo[1][1]}
  /\ call' = [call EXCEPT ![c] = [@ EXCEPT !.todo = Tail(@), !.at = <<>>, !.into = {}]]
  /\ UNCHANGED <<hosted, saved, bands, multi, live, shownAt, scamin, timer, lat, imported, has, crossed, dropped, drops, pans>>
(* The next archive of the call.                                               *)
NextOf(c) ==
  /\ Busy(c) /\ ~Opening(c) /\ call[c].todo # <<>> /\ Begin(c, call[c].todo, bands, multi, call[c].kind, call[c].ok)
  /\ UNCHANGED <<hosted, saved, live, shownAt, scamin, timer, lat, imported, has, broken, lost, crossed, dropped, fails, drops, pans>>
-----------------------------------------------------------------------------
(* restoreArchive. A pinned archive replaces the coverage (setArchive).        *)
Others(c) == \E d \in Caller \ {c} : Opening(d)
NoBands == [b \in Band |-> 0]
Pinned ==
  /\ (call["boot"].kind = "restore" /\ hosted = "pinned") \/ call["boot"].kind = "attribute"
  /\ Begin("boot", <<<<"old", "all">>>>, NoBands, multi, "pinned", FALSE) /\ crossed' = (crossed \/ Others("boot"))
  /\ UNCHANGED <<hosted, saved, live, shownAt, scamin, timer, lat, imported, has, broken, lost, dropped, fails, drops, pans>>
PinnedDone ==
  /\ call["boot"].kind = "pinned" /\ call["boot"].todo = <<>> /\ ~Opening("boot")
  /\ call' = [call EXCEPT !["boot"] = IF call["boot"].ok \/ hosted = "attribute" THEN Idle ELSE [Idle EXCEPT !.kind = "regions"]]
  /\ has' = (has \/ call["boot"].ok)
  /\ UNCHANGED <<hosted, saved, bands, multi, live, shownAt, scamin, timer, lat, imported, broken, lost, crossed, dropped, fails, drops, pans>>
(* Districts open side by side, each into its own band (addArchives).          *)
Districts ==
  /\ call["boot"].kind = "restore" /\ hosted = "districts"
  /\ LET e == Ensure(Ensure(bands, multi, "general").bands, Ensure(bands, multi, "general").multi, "all")
     IN /\ bands' = e.bands /\ multi' = e.multi
        /\ call' = [call EXCEPT !["boot"] = [Idle EXCEPT !.kind = "addAll", !.todo = <<<<"old", "general">>, <<"new", "all">>>>,
                                                         !.into = {e.bands["general"], e.bands["all"]}]]
  /\ UNCHANGED <<hosted, saved, live, shownAt, scamin, timer, lat, imported, has, broken, lost, crossed, dropped, fails, drops, pans>>
DistrictOpened(i, ok) ==
  /\ call["boot"].kind = "addAll" /\ i \in 1 .. Len(call["boot"].todo) /\ (ok \/ fails < MaxFails)
  /\ LET d == call["boot"].todo[i]
     IN multi' = IF ok THEN [multi EXCEPT ![bands[d[2]]] = @ \cup {d[1]}] ELSE multi
  /\ call' = [call EXCEPT !["boot"] = [@ EXCEPT !.todo = RemoveAt(@, i), !.ok = @ \/ ok]]
  /\ fails' = IF ok THEN fails ELSE fails + 1
  /\ UNCHANGED <<hosted, saved, bands, live, shownAt, scamin, timer, lat, imported, has, broken, lost, crossed, dropped, drops, pans>>
DistrictsDone ==
  /\ call["boot"].kind = "addAll" /\ call["boot"].todo = <<>>
  /\ Update(bands, multi) /\ has' = (has \/ call["boot"].ok) /\ broken' = FALSE /\ UNCHANGED lost
  /\ call' = [call EXCEPT !["boot"] = IF saved THEN [Idle EXCEPT !.kind = "blob", !.todo = <<<<"user", "all">>>>] ELSE Idle]
  /\ UNCHANGED <<hosted, saved, bands, multi, scamin, timer, lat, imported, lost, crossed, dropped, fails, drops, pans>>
(* The manifest's regions, or none when the manifest cannot be read            *)
(* (_loadManifest, loadRegions): the bands are emptied first.                  *)
Regions(urls) ==
  /\ call["boot"].kind = "regions" \/ (call["boot"].kind = "restore" /\ hosted \in {"regions", "attribute"})
  /\ crossed' = (crossed \/ Others("boot"))
  /\ Begin("boot", urls, NoBands, multi, "applied", urls # <<>>)
  /\ IF urls = <<>> THEN live' = [b \in Band |-> [live[b] EXCEPT !.tiles = {}]] ELSE UNCHANGED live
  /\ UNCHANGED <<hosted, saved, shownAt, scamin, timer, lat, imported, has, broken, lost, dropped, fails, drops, pans>>
(* _applyArchives goes on: what was imported is added again, or else the saved *)
(* archive.                                                                    *)
Again == IF imported # {} THEN [kind |-> "again", todo |-> SetToSeq({<<a, "all">> : a \in imported})]
         ELSE [kind |-> "saved", todo |-> IF saved THEN <<<<"user", "all">>>> ELSE <<>>]
Ended(k) == call["boot"].kind \in k /\ call["boot"].todo = <<>> /\ ~Opening("boot")
Applied ==
  /\ Ended({"applied"}) /\ has' = (has \/ call["boot"].ok) \* ok: the manifest had regions, opened or not
  /\ call' = [call EXCEPT !["boot"] = [Idle EXCEPT !.kind = Again.kind, !.todo = Again.todo]]
  /\ UNCHANGED <<hosted, saved, bands, multi, live, shownAt, scamin, timer, lat, imported, broken, lost, crossed, dropped, fails, drops, pans>>
(* Then charts-user.pmtiles, if there is one; at last, when nothing was        *)
(* loaded, the archive the pmtiles attribute names.                            *)
UserBake(there) ==
  /\ Ended({"again", "saved"})
  /\ call' = [call EXCEPT !["boot"] = [Idle EXCEPT !.kind = "bake", !.todo = IF there THEN <<<<"old", "all">>>> ELSE <<>>]]
  /\ UNCHANGED <<hosted, saved, bands, multi, live, shownAt, scamin, timer, lat, imported, has, broken, lost, crossed, dropped, fails, drops, pans>>
BootDone ==
  /\ Ended({"blob", "bake"})
  /\ call' = [call EXCEPT !["boot"] = IF call["boot"].kind = "bake" /\ ~has /\ hosted = "attribute" THEN [Idle EXCEPT !.kind = "attribute"] ELSE Idle]
  /\ UNCHANGED <<hosted, saved, bands, multi, live, shownAt, scamin, timer, lat, imported, has, broken, lost, crossed, dropped, fails, drops, pans>>

(* An archive is dropped on the page (_importArchiveFile).                     *)
Drop ==
  /\ ~Busy("drop") /\ drops < MaxDrops /\ drops' = drops + 1
  /\ Begin("drop", <<<<"new", "all">>>>, bands, multi, "import", FALSE)
  /\ UNCHANGED <<hosted, saved, live, shownAt, scamin, timer, lat, imported, has, broken, lost, crossed, dropped, fails, pans>>
DropDone ==
  /\ call["drop"].kind = "import" /\ call["drop"].todo = <<>> /\ ~Opening("drop")
  /\ call' = [call EXCEPT !["drop"] = Idle] /\ saved' = (saved \/ call["drop"].ok)
  /\ UNCHANGED <<hosted, bands, multi, live, shownAt, scamin, timer, lat, imported, has, broken, lost, crossed, dropped, fails, drops, pans>>
-----------------------------------------------------------------------------
(* Mutant: only new values are followed, not the latitude.                     *)
QuietValues ==
  /\ Values(Loaded) # scamin.values /\ timer' = "rebuild" /\ scamin' = [values |-> Values(Loaded), lat |-> lat]
  /\ UNCHANGED <<hosted, saved, bands, multi, live, shownAt, lat, call, imported, has, broken, lost, crossed, dropped, fails, drops, pans>>
(* The map is idle (_refreshScaminBuckets). The moment is a later one than the *)
(* last change: the latitude counts as shifted when it is not the one the      *)
(* buckets were gated for.                                                     *)
Quiet ==
  LET next == Values(Loaded) changed == next # scamin.values shift == scamin.lat # lat
  IN /\ changed \/ (shift /\ timer # "regate")
     /\ timer' = IF changed THEN "rebuild" ELSE "regate"
     /\ dropped' = (dropped \/ (timer = "rebuild" /\ ~changed))
     /\ scamin' = [values |-> next, lat |-> IF changed THEN lat ELSE scamin.lat]
     /\ UNCHANGED <<hosted, saved, bands, multi, live, shownAt, lat, call, imported, has, broken, lost, crossed, fails, drops, pans>>
Fire ==
  /\ timer # "none" /\ timer' = "none"
  /\ IF timer = "rebuild" THEN live' = Built(bands, multi) /\ shownAt' = Buckets /\ UNCHANGED scamin
     ELSE /\ scamin' = [scamin EXCEPT !.lat = lat] /\ shownAt' = [shownAt EXCEPT !.lat = lat] /\ UNCHANGED live
  /\ UNCHANGED <<hosted, saved, bands, multi, lat, call, imported, has, broken, lost, crossed, dropped, fails, drops, pans>>
Pan == /\ pans < MaxPans /\ pans' = pans + 1 /\ lat' = 3 - lat
       /\ UNCHANGED <<hosted, saved, bands, multi, live, shownAt, scamin, timer, call, imported, has, broken, lost, crossed, dropped, fails, drops>>

Progress == \/ \E c \in Caller : Opened(c) \/ Added(c) \/ NextOf(c)
            \/ Pinned \/ PinnedDone \/ Districts \/ DistrictsDone \/ \E i \in 1 .. 2 : DistrictOpened(i, TRUE)
            \/ (\E urls \in {<<>>, <<<<"new", "all">>>>} : Regions(urls)) \/ Applied \/ (\E there \in BOOLEAN : UserBake(there)) \/ BootDone \/ DropDone
Settle == Quiet \/ Fire
Next == \/ Progress \/ Settle \/ Drop \/ Pan
        \/ \E c \in Caller : OpenFails(c)
        \/ \E i \in 1 .. 2 : DistrictOpened(i, FALSE)
Spec == Init /\ [][Next]_vars
(* The map comes to rest and timers fire; opens may never answer.              *)
Fairness == WF_vars(Settle)
LiveSpec == Spec /\ Fairness
-----------------------------------------------------------------------------
AtRest == \A c \in Caller : ~Busy(c)
(* Between calls, unless the last one failed half way, every source of the     *)
(* live style decodes what its archives hold, asks no deeper than they go and  *)
(* shows the tiles of all of them (_updateSourceZoom, refresh, rebuild).       *)
SourcesMatch == AtRest /\ ~broken => \A b \in Band :
  /\ live[b].tiles = Arcs(b)
  /\ bands[b] # 0 => live[b].mlt = Mlt(Arcs(b)) /\ live[b].max = Deepest(b, Arcs(b))

(* An imported archive stays on the map through every reload of the coverage   *)
(* ("otherwise a box-select re-applying coverage would drop them from the      *)
(* map"), unless it was opening when the bands were reset; a pinned archive      *)
(* replaces everything.                                                        *)
ImportsSurvive == AtRest /\ ~crossed /\ hosted \in {"districts", "regions"} => \A a \in imported \ lost : a \in Arcs("general") \cap Arcs("harbor")

(* Once the map is left alone, the layers are those of the archives' SCAMIN    *)
(* values, gated for the latitude in view, unless a rebuild was called off.    *)
BucketsCurrent == dropped \/ (shownAt.values = Values(Loaded) /\ shownAt.lat = lat)
BucketsFollow == <>[]BucketsCurrent

=============================================================================
