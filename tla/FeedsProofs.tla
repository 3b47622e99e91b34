----------------------------- MODULE FeedsProofs ----------------------------
(***************************************************************************)
(* Proofs about what the server is fed: the invariants the run of MCFeeds  *)
(* checks, for any numbers of requests, runners, settings, plugins, paths, *)
(* targets, providers and lookups.                                         *)
(***************************************************************************)
EXTENDS MCFeeds, TLAPS

(* The index of attachments.  A walk no invalidate has fallen into has     *)
(* read what it has reached as it still is, but for the changes whose      *)
(* invalidate is to come.                                                  *)
WalksAreCurrent ==
  \A r \in Readers : pc[r] = "walk" /\ r \notin late =>
    \A p \in Providers \ (unread[r] \cup writing) : found[r][p] = disk[p]
AuxInv == Aux!TypeOK /\ Aux!LoadedIsCurrent /\ WalksAreCurrent

-----------------------------------------------------------------------------
LEMMA AuxTypeInit ==
  ASSUME Aux!Init PROVE Aux!TypeOK
<1>1. 0 \in 0 .. MaxVersion /\ 0 \in 0 .. MaxChanges
  BY ConstantsAssumption DEF Aux!AuxConstants
<1>2. Aux!Nothing \in Aux!Index
  BY <1>1 DEF Aux!Nothing, Aux!Index
<1>3. \A r \in Readers : pc[r] = "idle" /\ found[r] = Aux!Nothing /\ unread[r] = {}
  BY DEF Aux!Init
<1>4. /\ pc \in [Readers -> {"idle", "check", "walk", "answer"}]
      /\ found \in [Readers -> Aux!Index] /\ unread \in [Readers -> SUBSET Providers]
  BY <1>2 DEF Aux!Init
<1> QED
  BY <1>1, <1>2, <1>3, <1>4 DEF Aux!Init, Aux!TypeOK

LEMMA AuxTypeNext ==
  ASSUME Aux!TypeOK, [Aux!Next]_(Aux!vars)
  PROVE  Aux!TypeOK'
<1> USE ConstantsAssumption DEF Aux!AuxConstants, Aux!TypeOK, Aux!Index
<1>1. ASSUME NEW p \in Providers, Aux!WriteAux(p) \/ Aux!RemoveAux(p) PROVE Aux!TypeOK'
  <2>1. disk[p] \in 0 .. MaxVersion /\ MaxVersion \in Nat /\ MaxChanges \in Nat
    OBVIOUS
  <2>2. changes' \in 0 .. MaxChanges
    BY <1>1, <2>1 DEF Aux!WriteAux, Aux!RemoveAux
  <2>3. disk' \in [Providers -> 0 .. MaxVersion]
    <3>1. CASE Aux!WriteAux(p)
      <4>1. disk[p] + 1 \in 0 .. MaxVersion
        BY <2>1, <3>1 DEF Aux!WriteAux
      <4> QED
        BY <3>1, <4>1 DEF Aux!WriteAux
    <3>2. CASE Aux!RemoveAux(p)
      <4>1. 0 \in 0 .. MaxVersion
        BY <2>1
      <4> QED
        BY <3>2, <4>1 DEF Aux!RemoveAux
    <3> QED
      BY <1>1, <3>1, <3>2
  <2> QED
    BY <1>1, <2>2, <2>3 DEF Aux!WriteAux, Aux!RemoveAux
<1>2. ASSUME NEW p \in Providers, Aux!Invalidate(p) PROVE Aux!TypeOK'
  BY <1>2 DEF Aux!Invalidate
<1>3. ASSUME NEW r \in Readers, Aux!Lookup(r) PROVE Aux!TypeOK'
  BY <1>3 DEF Aux!Lookup
<1>4. ASSUME NEW r \in Readers, Aux!Check(r) PROVE Aux!TypeOK'
  BY <1>4 DEF Aux!Check, Aux!Nothing
<1>5. ASSUME NEW r \in Readers, NEW p \in Providers, Aux!WalkDir(r, p) PROVE Aux!TypeOK'
  BY <1>5 DEF Aux!WalkDir
<1>6. ASSUME NEW r \in Readers, Aux!Install(r) PROVE Aux!TypeOK'
  BY <1>6 DEF Aux!Install, Aux!Walked
<1>7. ASSUME NEW r \in Readers, Aux!Answer(r) PROVE Aux!TypeOK'
  BY <1>7 DEF Aux!Answer, Aux!Nothing
<1>8. CASE UNCHANGED Aux!vars
  BY <1>8 DEF Aux!vars
<1> QED
  BY <1>1, <1>2, <1>3, <1>4, <1>5, <1>6, <1>7, <1>8 DEF Aux!Next


-----------------------------------------------------------------------------
LEMMA AuxInvInit ==
  ASSUME Aux!Init PROVE AuxInv
  BY AuxTypeInit DEF Aux!Init, AuxInv, Aux!LoadedIsCurrent, WalksAreCurrent

LEMMA AuxInvNext ==
  ASSUME AuxInv, [Aux!Next]_(Aux!vars)
  PROVE  AuxInv'
<1> SUFFICES Aux!LoadedIsCurrent' /\ WalksAreCurrent'
  BY AuxTypeNext DEF AuxInv
<1> USE DEF AuxInv, Aux!TypeOK, Aux!Index, Aux!LoadedIsCurrent, WalksAreCurrent
<1>1. ASSUME NEW p \in Providers, Aux!WriteAux(p) \/ Aux!RemoveAux(p)
      PROVE  Aux!LoadedIsCurrent' /\ WalksAreCurrent'
  <2>1. /\ \A q \in Providers : q \notin writing' => q \notin writing /\ disk'[q] = disk[q]
        /\ UNCHANGED <<loaded, entries, pc, found, unread, late, tainted>>
    BY <1>1 DEF Aux!WriteAux, Aux!RemoveAux
  <2> QED
    BY <2>1
<1>2. ASSUME NEW p \in Providers, Aux!Invalidate(p) PROVE Aux!LoadedIsCurrent' /\ WalksAreCurrent'
  BY <1>2 DEF Aux!Invalidate
<1>3. ASSUME NEW r \in Readers, Aux!Lookup(r) PROVE Aux!LoadedIsCurrent' /\ WalksAreCurrent'
  BY <1>3 DEF Aux!Lookup
<1>4. ASSUME NEW r \in Readers, Aux!Check(r) PROVE Aux!LoadedIsCurrent' /\ WalksAreCurrent'
  BY <1>4 DEF Aux!Check
<1>5. ASSUME NEW r \in Readers, NEW p \in Providers, Aux!WalkDir(r, p)
      PROVE  Aux!LoadedIsCurrent' /\ WalksAreCurrent'
  BY <1>5 DEF Aux!WalkDir
<1>6. ASSUME NEW r \in Readers, Aux!Install(r) PROVE Aux!LoadedIsCurrent' /\ WalksAreCurrent'
  BY <1>6 DEF Aux!Install, Aux!Walked
<1>7. ASSUME NEW r \in Readers, Aux!Answer(r) PROVE Aux!LoadedIsCurrent' /\ WalksAreCurrent'
  BY <1>7 DEF Aux!Answer
<1>8. CASE UNCHANGED Aux!vars
  BY <1>8 DEF Aux!vars
<1> QED
  BY <1>1, <1>2, <1>3, <1>4, <1>5, <1>6, <1>7, <1>8 DEF Aux!Next-----------------------------------------------------------------------------
(* The stores.  A reading of a plugin is attributed to it, which is what   *)
(* clearing goes by; a connection may have written over one.               *)
ReadingsAreAttributed ==
  \A p \in Paths : reading[p] \in Plugins => prov[p] = reading[p]
VesselInv ==
  /\ Vessel!TypeOK /\ Vessel!NoPhantom /\ Vessel!TargetsAreAttributed /\ ReadingsAreAttributed

LEMMA VesselTypeInit ==
  ASSUME Vessel!Init PROVE Vessel!TypeOK
<1>1. /\ reading \in Vessel!Readings /\ prov \in [Paths -> Plugins \cup {None}]
      /\ target \in Vessel!Contacts /\ source \in [Targets -> Plugins \cup {None}]
      /\ shown = reading /\ shownOwn = reading /\ listed = target /\ shownTargets = target
  BY DEF Vessel!Init, Vessel!Readings, Vessel!Contacts, Vessel!Writers
<1> QED
  BY <1>1 DEF Vessel!Init, Vessel!TypeOK

LEMMA VesselTypeNext ==
  ASSUME Vessel!TypeOK, [Vessel!Next]_(Vessel!vars)
  PROVE  Vessel!TypeOK'
<1> USE DEF Vessel!TypeOK, Vessel!Readings, Vessel!Contacts, Vessel!Writers, Vessel!vessel,
            Vessel!ais, Vessel!plugins, Vessel!vesselStream, Vessel!aisStream,
            Vessel!Touched, Vessel!RestOfStreams
<1>1. ASSUME NEW S \in SUBSET Paths, Vessel!Sentence(S) PROVE Vessel!TypeOK'
  BY <1>1 DEF Vessel!Sentence
<1>2. ASSUME NEW S \in SUBSET Paths, NEW w \in Plugins, Vessel!PublishDeltas(w, S)
      PROVE  Vessel!TypeOK'
  BY <1>2 DEF Vessel!PublishDeltas, Vessel!Attribute
<1>3. ASSUME NEW w \in Plugins, Vessel!ClearSource(w) PROVE Vessel!TypeOK'
  BY <1>3 DEF Vessel!ClearSource, Vessel!TouchedIf, Vessel!Attributed
<1>4. ASSUME NEW w \in Plugins, Vessel!EvictSource(w) PROVE Vessel!TypeOK'
  BY <1>4 DEF Vessel!EvictSource, Vessel!BumpedIf, Vessel!Bumped, Vessel!RestOfAIS
<1>5. ASSUME NEW m \in Targets, Vessel!Message(m) PROVE Vessel!TypeOK'
  BY <1>5, ConstantsAssumption
     DEF Vessel!Message, Vessel!Hear, Vessel!Bumped, Vessel!RestOfAIS, Vessel!VesselConstants
<1>6. ASSUME NEW m \in Targets, NEW w \in Plugins, Vessel!Upsert(m, w) PROVE Vessel!TypeOK'
  BY <1>6, ConstantsAssumption
     DEF Vessel!Upsert, Vessel!UpsertSource, Vessel!Hear, Vessel!Bumped, Vessel!RestOfAIS,
         Vessel!VesselConstants
<1>7. ASSUME NEW w \in Plugins, Vessel!Enable(w) \/ Vessel!Disable(w) PROVE Vessel!TypeOK'
  BY <1>7 DEF Vessel!Enable, Vessel!Disable
<1>8. CASE Vessel!Poll
  BY <1>8 DEF Vessel!Poll, Vessel!Prune, Vessel!Live
<1>9. ASSUME NEW m \in Targets, Vessel!Expire(m) PROVE Vessel!TypeOK'
  BY <1>9 DEF Vessel!Expire
<1>10. CASE Vessel!VesselTick
  BY <1>10 DEF Vessel!VesselTick
<1>11. CASE Vessel!Version \/ Vessel!Updated \/ Vessel!Send
  BY <1>11 DEF Vessel!Version, Vessel!Updated, Vessel!Send, Vessel!AsRead
<1>12. CASE Vessel!Copy
  BY <1>12 DEF Vessel!Copy, Vessel!Prune, Vessel!Live
<1>13. CASE UNCHANGED Vessel!vars
  BY <1>13 DEF Vessel!vars
<1> QED
  BY <1>1, <1>2, <1>3, <1>4, <1>5, <1>6, <1>7, <1>8, <1>9, <1>10, <1>11, <1>12, <1>13
     DEF Vessel!Next, Vessel!Write, Vessel!Admin, Vessel!Age, Vessel!AISTick

LEMMA VesselInvInit ==
  ASSUME Vessel!Init PROVE VesselInv
  BY VesselTypeInit, ConstantsAssumption
     DEF Vessel!Init, Vessel!VesselConstants, VesselInv, Vessel!NoPhantom,
         Vessel!TargetsAreAttributed, ReadingsAreAttributed

LEMMA NoPhantomNext ==
  ASSUME VesselInv, [Vessel!Next]_(Vessel!vars)
  PROVE  (Vessel!NoPhantom /\ ReadingsAreAttributed)'
<1> USE ConstantsAssumption
    DEF Vessel!VesselConstants, VesselInv, Vessel!TypeOK, Vessel!Readings, Vessel!Writers,
        Vessel!NoPhantom, ReadingsAreAttributed, Vessel!vessel, Vessel!plugins
<1>1. ASSUME NEW S \in SUBSET Paths, Vessel!Sentence(S)
      PROVE  (Vessel!NoPhantom /\ ReadingsAreAttributed)'
  BY <1>1 DEF Vessel!Sentence
<1>2. ASSUME NEW S \in SUBSET Paths, NEW w \in Plugins, Vessel!PublishDeltas(w, S)
      PROVE  (Vessel!NoPhantom /\ ReadingsAreAttributed)'
  BY <1>2 DEF Vessel!PublishDeltas, Vessel!Attribute
<1>3. ASSUME NEW w \in Plugins, Vessel!ClearSource(w)
      PROVE  (Vessel!NoPhantom /\ ReadingsAreAttributed)'
  BY <1>3 DEF Vessel!ClearSource, Vessel!Attributed
<1>4. ASSUME NEW w \in Plugins, Vessel!Enable(w) \/ Vessel!Disable(w)
      PROVE  (Vessel!NoPhantom /\ ReadingsAreAttributed)'
  BY <1>4 DEF Vessel!Enable, Vessel!Disable
<1>5. CASE UNCHANGED <<Vessel!vessel, Vessel!plugins>>
  BY <1>5
<1>6. CASE \/ \E w \in Plugins : Vessel!EvictSource(w)
           \/ \E m \in Targets : Vessel!Message(m) \/ \E w \in Plugins : Vessel!Upsert(m, w)
           \/ Vessel!Age \/ Vessel!VesselTick \/ Vessel!AISTick \/ UNCHANGED Vessel!vars
  <2>1. UNCHANGED <<Vessel!vessel, Vessel!plugins>>
    BY <1>6 DEF Vessel!EvictSource, Vessel!Message, Vessel!Upsert, Vessel!Hear, Vessel!Age,
                Vessel!Poll, Vessel!Expire, Vessel!VesselTick, Vessel!AISTick, Vessel!Version,
                Vessel!Updated, Vessel!Copy, Vessel!Send, Vessel!vars
  <2> QED
    BY <1>5, <2>1
<1> QED
  BY <1>1, <1>2, <1>3, <1>4, <1>6 DEF Vessel!Next, Vessel!Write, Vessel!Admin

LEMMA TargetsAreAttributedNext ==
  ASSUME VesselInv, [Vessel!Next]_(Vessel!vars)
  PROVE  Vessel!TargetsAreAttributed'
<1> USE ConstantsAssumption
    DEF Vessel!VesselConstants, VesselInv, Vessel!TypeOK, Vessel!Contacts, Vessel!Writers,
        Vessel!TargetsAreAttributed
<1>1. ASSUME NEW m \in Targets, Vessel!Message(m) PROVE Vessel!TargetsAreAttributed'
  BY <1>1 DEF Vessel!Message, Vessel!Hear
<1>2. ASSUME NEW m \in Targets, NEW w \in Plugins, Vessel!Upsert(m, w)
      PROVE  Vessel!TargetsAreAttributed'
  BY <1>2 DEF Vessel!Upsert, Vessel!Hear, Vessel!UpsertSource
<1>3. ASSUME NEW w \in Plugins, Vessel!EvictSource(w) PROVE Vessel!TargetsAreAttributed'
  BY <1>3 DEF Vessel!EvictSource
<1>4. CASE Vessel!Prune
  BY <1>4 DEF Vessel!Prune, Vessel!Live
<1>5. CASE UNCHANGED <<target, source>>
  BY <1>5
<1>6. CASE \/ \E S \in SUBSET Paths :
                Vessel!Sentence(S) \/ \E w \in Plugins : Vessel!PublishDeltas(w, S)
           \/ \E w \in Plugins : Vessel!ClearSource(w)
           \/ Vessel!Admin \/ Vessel!Age \/ Vessel!VesselTick \/ Vessel!AISTick
           \/ UNCHANGED Vessel!vars
  <2>1. Vessel!Prune \/ UNCHANGED <<target, source>>
    BY <1>6 DEF Vessel!Sentence, Vessel!PublishDeltas, Vessel!ClearSource, Vessel!Admin,
                Vessel!Enable, Vessel!Disable, Vessel!Age, Vessel!Poll, Vessel!Expire,
                Vessel!VesselTick, Vessel!AISTick, Vessel!Version, Vessel!Updated, Vessel!Copy,
                Vessel!Send, Vessel!ais, Vessel!vars
  <2> QED
    BY <1>4, <1>5, <2>1
<1> QED
  BY <1>1, <1>2, <1>3, <1>6 DEF Vessel!Next, Vessel!Write

LEMMA VesselInvNext ==
  ASSUME VesselInv, [Vessel!Next]_(Vessel!vars)
  PROVE  VesselInv'
  BY VesselTypeNext, NoPhantomNext, TargetsAreAttributedNext DEF VesselInv

-----------------------------------------------------------------------------
(* The connections.  The runner of the map runs and is not cancelled; the  *)
(* runners that requests stop are others, a different one each; an open    *)
(* connection shows as connected.                                          *)
LiveMap == cur # None => pc[cur] # "none" /\ ~ctx[cur] /\ cfg[cur] \in Enabled
Apart ==
  \A q \in Requests : target[q] # None =>
    target[q] # cur /\ \A p \in Requests \ {q} : target[p] # target[q]
Badges == \A r \in Runners : pc[r] \in {"read", "line"} => badge[r] = "connected"

(* While no two requests have overlapped, at most one is being served, it  *)
(* applies the record, and what runs is the runner it has to stop.         *)
Alone == ~raced => \A p, q \in Requests : p # q => at[p] = "idle" \/ at[q] = "idle"
Takes(q) == Nmea!Running \subseteq {cur} /\ (at[q] = "remove" => arg[q] = None)
Stops(q) == known = rec /\ cur = None /\ Nmea!Running \subseteq {target[q]}
Serving ==
  ~raced => \A q \in Requests : at[q] # "idle" =>
    /\ arg[q] = rec
    /\ IF at[q] \in {"apply", "remove"} THEN Takes(q) ELSE Stops(q)
Manager == Nmea!TypeOK /\ LiveMap /\ Apart /\ Badges
NmeaInv == Manager /\ Alone /\ Serving /\ Nmea!RunningIsConfigured

LEMMA ManagerInit ==
  ASSUME Nmea!Init PROVE Manager
<1> USE ConstantsAssumption DEF Nmea!NmeaConstants, Nmea!Init
<1>1. cur \in Runners \cup {None} /\ (cur # None => rec \in Enabled)
  OBVIOUS
<1>2. /\ 0 \in 0 .. MaxRequests /\ 0 \in 0 .. MaxRestarts
      /\ at \in [Requests -> {"idle"}] /\ target \in [Requests -> {None}]
      /\ pc \in [Runners -> {"none", "dial"}]
      /\ ctx \in [Runners -> {FALSE}] /\ badge \in [Runners -> {"connecting"}]
      /\ cfg \in [Runners -> Configs \cup {None}] /\ arg \in [Requests -> {None}]
  OBVIOUS
<1>3. Nmea!TypeOK
  <2>1. \A q \in Requests : target[q] = None /\ at[q] = "idle"
    OBVIOUS
  <2>2. rec \in Configs \cup {None} /\ born \in BOOLEAN /\ (rec # None => born)
    OBVIOUS
  <2>3. \A q \in Requests : (target[q] # None) = (at[q] \in {"cancel", "await"})
    BY <2>1
  <2> QED
    BY <1>1, <1>2, <2>2, <2>3 DEF Nmea!TypeOK
<1>4. LiveMap /\ Apart /\ Badges
  BY <1>1, <1>2 DEF LiveMap, Apart, Badges
<1> QED
  BY <1>3, <1>4 DEF Manager

(* A runner that is started is nobody else's.                              *)
LEMMA StartKeepsManager ==
  ASSUME Manager, NEW q \in Requests, Nmea!Start(q), known' \in Configs \cup {None},
         UNCHANGED <<rec, born, arg, tap, raced, asked, restarts>>
  PROVE  Manager'
<1> USE ConstantsAssumption DEF Nmea!NmeaConstants, Manager, Nmea!Start, Nmea!runner
<1>1. CASE arg[q] \in Enabled
  <2>1. PICK r \in Nmea!Free(q) :
          /\ cur' = r
          /\ pc' = [pc EXCEPT ![r] = "dial"] /\ cfg' = [cfg EXCEPT ![r] = arg[q]]
          /\ ctx' = [ctx EXCEPT ![r] = FALSE]
          /\ badge' = [badge EXCEPT ![r] = "connecting"]
    BY <1>1
  <2>2. /\ r \in Runners /\ r # None
        /\ \A p \in Requests \ {q} : target[p] # r
    BY DEF Nmea!Free
  <2>3. Nmea!TypeOK'
    BY <1>1, <2>1, <2>2 DEF Nmea!TypeOK
  <2>4. LiveMap' /\ Badges'
    BY <1>1, <2>1, <2>2 DEF Nmea!TypeOK, LiveMap, Badges
  <2>5. Apart'
    BY <2>1, <2>2 DEF Nmea!TypeOK, Apart
  <2> QED
    BY <2>3, <2>4, <2>5
<1>2. CASE arg[q] \notin Enabled
  BY <1>2 DEF Nmea!TypeOK, LiveMap, Badges, Apart
<1> QED
  BY <1>1, <1>2

(* A runner that is taken from the map is the stopping request's alone.    *)
LEMMA TakeKeepsManager ==
  ASSUME Manager, NEW q \in Requests, at[q] \in {"apply", "remove"}, cur # None,
         Nmea!Take(q), known' \in Configs \cup {None},
         UNCHANGED <<rec, born, arg, pc, cfg, ctx, badge, tap, raced, asked, restarts>>
  PROVE  Manager'
<1> USE ConstantsAssumption DEF Nmea!NmeaConstants, Manager, Nmea!Take
<1>1. Nmea!TypeOK'
  BY DEF Nmea!TypeOK
<1>2. LiveMap' /\ Badges'
  BY DEF LiveMap, Badges, Nmea!TypeOK
<1>3. Apart'
  BY DEF Apart, Nmea!TypeOK
<1> QED
  BY <1>1, <1>2, <1>3

LEMMA ManagerNext ==
  ASSUME Manager, [Nmea!Next]_(Nmea!vars)
  PROVE  Manager'
<1> USE ConstantsAssumption
    DEF Nmea!NmeaConstants, Nmea!record, Nmea!manager, Nmea!requests, Nmea!runner, Nmea!bounds
<1>0. /\ Nmea!TypeOK /\ LiveMap /\ Apart /\ Badges
      /\ MaxRequests \in Nat /\ MaxRestarts \in Nat /\ TapCap \in Nat
  BY DEF Manager
<1>1. ASSUME NEW q \in Requests, Nmea!Client(q) PROVE Manager'
  <2>1. PICK config \in Configs \cup {None}, step \in {"apply", "remove"} :
          Nmea!Accept(q, config, step) /\ born' \in BOOLEAN /\ (config # None => born')
    BY <1>0, <1>1 DEF Nmea!Client, Nmea!Create, Nmea!Update, Nmea!Delete, Nmea!TypeOK
  <2>2. Nmea!TypeOK'
    <3>1. asked' \in 0 .. MaxRequests
      BY <1>0, <2>1 DEF Nmea!Accept, Nmea!TypeOK
    <3> QED
      BY <1>0, <2>1, <3>1 DEF Nmea!Accept, Nmea!TypeOK
  <2>3. LiveMap' /\ Apart' /\ Badges'
    BY <1>0, <2>1 DEF Nmea!Accept, LiveMap, Apart, Badges
  <2> QED
    BY <2>2, <2>3 DEF Manager
<1>2. ASSUME NEW q \in Requests, Nmea!Apply(q) PROVE Manager'
  <2>1. known' \in Configs \cup {None}
    BY <1>0, <1>2 DEF Nmea!Apply, Nmea!TypeOK
  <2> QED
    BY <1>2, <2>1, StartKeepsManager, TakeKeepsManager DEF Nmea!Apply
<1>3. ASSUME NEW q \in Requests, Nmea!Remove(q) PROVE Manager'
  <2>1. CASE cur # None
    BY <1>3, <2>1, TakeKeepsManager DEF Nmea!Remove
  <2>2. CASE cur = None
    BY <1>0, <1>3, <2>2 DEF Nmea!Remove, Manager, Nmea!TypeOK, LiveMap, Apart, Badges
  <2> QED
    BY <2>1, <2>2
<1>4. ASSUME NEW q \in Requests, Nmea!Cancel(q) PROVE Manager'
  <2>1. target[q] \in Runners /\ target[q] # cur
    BY <1>0, <1>4 DEF Nmea!Cancel, Nmea!TypeOK, Apart
  <2>2. Nmea!TypeOK'
    BY <1>0, <1>4, <2>1 DEF Nmea!Cancel, Nmea!TypeOK
  <2>3. LiveMap' /\ Apart' /\ Badges'
    BY <1>0, <1>4, <2>1 DEF Nmea!Cancel, Nmea!TypeOK, LiveMap, Apart, Badges
  <2> QED
    BY <2>2, <2>3 DEF Manager
<1>5. ASSUME NEW q \in Requests, Nmea!Await(q) PROVE Manager'
  <2>1. CASE arg[q] # None
    <3>1. known' \in Configs \cup {None}
      BY <1>0, <1>5 DEF Nmea!Await, Nmea!TypeOK
    <3> QED
      BY <1>5, <2>1, <3>1, StartKeepsManager DEF Nmea!Await
  <2>2. CASE arg[q] = None
    BY <1>0, <1>5, <2>2 DEF Nmea!Await, Manager, Nmea!TypeOK, LiveMap, Apart, Badges
  <2> QED
    BY <2>1, <2>2
<1>6. ASSUME NEW r \in Runners, Nmea!Run(r) PROVE Manager'
  <2>1. /\ UNCHANGED <<rec, born, known, cur, at, arg, target, cfg, ctx, raced, asked, restarts>>
        /\ pc' \in [Runners -> {"none", "dial", "read", "line", "sleep"}]
    BY <1>0, <1>6 DEF Nmea!Run, Nmea!Step, Nmea!Connect, Nmea!DialError, Nmea!Wake, Nmea!Scan,
                      Nmea!Line, Nmea!Hangup, Nmea!Retry, Nmea!TypeOK
  <2>2. badge' \in [Runners -> {"connecting", "connected", "error"}]
    BY <1>0, <1>6 DEF Nmea!Run, Nmea!Connect, Nmea!DialError, Nmea!ErrorBadge, Nmea!Wake,
                      Nmea!Scan, Nmea!Line, Nmea!Hangup, Nmea!TypeOK
  <2>3. tap' \in 0 .. TapCap \cup {None}
    BY <1>0, <1>6 DEF Nmea!Run, Nmea!Connect, Nmea!DialError, Nmea!Wake, Nmea!Scan, Nmea!Line,
                      Nmea!Hangup, Nmea!TypeOK
  <2>4. Nmea!TypeOK'
    BY <1>0, <2>1, <2>2, <2>3 DEF Nmea!TypeOK
  <2>5. LiveMap'
    BY <1>0, <1>6, <2>1
       DEF Nmea!Run, Nmea!Step, Nmea!Connect, Nmea!DialError, Nmea!Wake, Nmea!Scan, Nmea!Line,
           Nmea!Hangup, Nmea!Retry, Nmea!TypeOK, LiveMap
  <2>6. Badges'
    BY <1>0, <1>6
       DEF Nmea!Run, Nmea!Step, Nmea!Connect, Nmea!DialError, Nmea!ErrorBadge, Nmea!Wake,
           Nmea!Scan, Nmea!Line, Nmea!Hangup, Nmea!Retry, Nmea!TypeOK, Badges
  <2> QED
    BY <1>0, <2>1, <2>4, <2>5, <2>6 DEF Manager, Apart
<1>7. CASE Nmea!Watch
  <2>1. tap' \in 0 .. TapCap \cup {None}
    BY <1>0, <1>7 DEF Nmea!Watch, Nmea!TypeOK
  <2> QED
    BY <1>0, <1>7, <2>1 DEF Nmea!Watch, Manager, Nmea!TypeOK, LiveMap, Apart, Badges
<1>8. CASE Nmea!Restart
  <2>1. PICK r \in IF rec \in Enabled THEN Runners ELSE {None} : Nmea!BootWith(rec, r)
    BY <1>8 DEF Nmea!Restart
  <2>2. r \in Runners \cup {None} /\ (r # None => rec \in Enabled)
    BY <2>1
  <2>3. restarts' \in 0 .. MaxRestarts
    BY <1>0, <1>8 DEF Nmea!Restart, Nmea!TypeOK
  <2>4. /\ at' \in [Requests -> {"idle"}] /\ target' \in [Requests -> {None}]
        /\ arg' \in [Requests -> {None}] /\ pc' \in [Runners -> {"none", "dial"}]
        /\ ctx' \in [Runners -> {FALSE}] /\ badge' \in [Runners -> {"connecting"}]
        /\ cfg' \in [Runners -> Configs \cup {None}]
    BY <1>0, <2>1 DEF Nmea!BootWith, Nmea!TypeOK
  <2>5. Nmea!TypeOK'
    <3>1. \A q \in Requests : (target'[q] # None) = (at'[q] \in {"cancel", "await"})
      BY <2>4
    <3> QED
      BY <1>0, <1>8, <2>1, <2>2, <2>3, <2>4, <3>1
         DEF Nmea!Restart, Nmea!BootWith, Nmea!TypeOK
  <2>6. LiveMap' /\ Apart' /\ Badges'
    BY <2>1, <2>2, <2>4 DEF Nmea!BootWith, LiveMap, Apart, Badges
  <2> QED
    BY <2>5, <2>6 DEF Manager
<1>9. CASE UNCHANGED Nmea!vars
  BY <1>0, <1>9 DEF Nmea!vars, Manager, Nmea!TypeOK, LiveMap, Apart, Badges
<1> QED
  BY <1>1, <1>2, <1>3, <1>4, <1>5, <1>6, <1>7, <1>8, <1>9 DEF Nmea!Next, Nmea!Serve

(* The end of a request that was alone: what runs is what it applied.      *)
AtRest == /\ known = rec /\ Nmea!Running = IF rec \in Enabled THEN {cur} ELSE {}
          /\ \A r \in Nmea!Running : cfg[r] = rec
Alike == Alone /\ Serving /\ Nmea!RunningIsConfigured

LEMMA NothingRuns ==
  ASSUME Manager, cur = None, Nmea!Running \subseteq {cur} PROVE Nmea!Running = {}
  BY ConstantsAssumption DEF Nmea!NmeaConstants, Nmea!Running

LEMMA LastEnds ==
  ASSUME NEW q \in Requests, \A p \in Requests : p # q => at[p] = "idle",
         Nmea!TypeOK, at' = [at EXCEPT ![q] = "idle"], AtRest'
  PROVE  Alike'
  BY DEF Nmea!TypeOK, Alike, Alone, Serving, AtRest, Nmea!RunningIsConfigured

LEMMA StartServes ==
  ASSUME Manager, NEW q \in Requests, Nmea!Start(q), Nmea!Running = {}, arg[q] = rec,
         rec' = rec, known' = rec, \A p \in Requests : p # q => at[p] = "idle"
  PROVE  Alike'
<1>1. AtRest'
  <2>1. CASE arg[q] \in Enabled
    <3>1. PICK r \in Nmea!Free(q) :
            /\ cur' = r
            /\ pc' = [pc EXCEPT ![r] = "dial"] /\ cfg' = [cfg EXCEPT ![r] = arg[q]]
      BY <2>1 DEF Nmea!Start
    <3> QED
      BY <2>1, <3>1 DEF Manager, Nmea!TypeOK, Nmea!Free, Nmea!Running, AtRest
  <2>2. CASE arg[q] \notin Enabled
    BY <2>2 DEF Nmea!Start, Nmea!runner, Nmea!Running, AtRest
  <2> QED
    BY <2>1, <2>2
<1>2. at' = [at EXCEPT ![q] = "idle"] /\ Nmea!TypeOK
  BY DEF Nmea!Start, Manager
<1> QED
  BY <1>1, <1>2, LastEnds

LEMMA TakeServes ==
  ASSUME Manager, NEW q \in Requests, Nmea!Take(q), Nmea!Running \subseteq {cur}, arg[q] = rec,
         known' = rec, UNCHANGED <<rec, arg, pc>>, \A p \in Requests : p # q => at[p] = "idle"
  PROVE  Alike'
<1>1. at'[q] = "cancel" /\ target'[q] = cur /\ \A p \in Requests : p # q => at'[p] = "idle"
  BY DEF Nmea!Take, Manager, Nmea!TypeOK
<1>2. Stops(q)'
  BY <1>1 DEF Stops, Nmea!Take, Nmea!Running
<1> QED
  BY <1>1, <1>2 DEF Alike, Alone, Serving, Nmea!RunningIsConfigured, Nmea!Rest

(* A runner that is not cancelled does not end.                            *)
LEMMA RunnersRun ==
  ASSUME Manager, NEW r \in Runners, Nmea!Run(r)
  PROVE  /\ Nmea!Running' \subseteq Nmea!Running
         /\ \A s \in Nmea!Running : ~ctx[s] => s \in Nmea!Running'
  BY DEF Manager, Nmea!TypeOK, Nmea!Run, Nmea!Step, Nmea!Connect, Nmea!DialError, Nmea!Wake,
         Nmea!Scan, Nmea!Line, Nmea!Hangup, Nmea!Retry, Nmea!Running

LEMMA AlikeNext ==
  ASSUME NmeaInv, [Nmea!Next]_(Nmea!vars)
  PROVE  Alike'
<1> USE ConstantsAssumption
    DEF Nmea!NmeaConstants, Nmea!record, Nmea!manager, Nmea!requests, Nmea!runner, Nmea!bounds
<1>0. Manager /\ Alone /\ Serving /\ Nmea!RunningIsConfigured /\ Nmea!TypeOK
  BY DEF NmeaInv, Manager
<1>a. raced' => Alike'
  BY DEF Alike, Alone, Serving, Nmea!RunningIsConfigured
<1>b. ASSUME NEW q \in Requests, Nmea!Serve(q), ~raced
      PROVE  /\ arg[q] = rec /\ \A p \in Requests : p # q => at[p] = "idle"
             /\ IF at[q] \in {"apply", "remove"} THEN Takes(q) ELSE Stops(q)
  <2>1. at[q] # "idle"
    BY <1>b DEF Nmea!Serve, Nmea!Apply, Nmea!Remove, Nmea!Cancel, Nmea!Await
  <2> QED
    BY <1>0, <1>b, <2>1 DEF Alone, Serving
<1>c. ASSUME NEW q \in Requests, Nmea!Serve(q) PROVE raced' = raced /\ rec' = rec /\ arg' = arg
  BY <1>c DEF Nmea!Serve, Nmea!Apply, Nmea!Remove, Nmea!Cancel, Nmea!Await
<1>d. ASSUME NEW r \in Runners, Nmea!Run(r) PROVE raced' = raced
  BY <1>d DEF Nmea!Run, Nmea!Step, Nmea!Connect, Nmea!DialError, Nmea!Wake, Nmea!Scan,
              Nmea!Line, Nmea!Hangup
<1>1. ASSUME NEW q \in Requests, Nmea!Client(q), ~raced' PROVE Alike'
  <2>1. PICK config \in Configs \cup {None}, step \in {"apply", "remove"} :
          Nmea!Accept(q, config, step) /\ (step = "remove" => config = None)
    BY <1>0, <1>1 DEF Nmea!Client, Nmea!Create, Nmea!Update, Nmea!Delete, Nmea!TypeOK
  <2>2. ~raced /\ Nmea!Rest
    BY <1>0, <1>1, <2>1 DEF Nmea!Accept, Nmea!TypeOK
  <2>3. Nmea!Running \subseteq {cur}
    BY <1>0, <2>2 DEF Nmea!RunningIsConfigured
  <2>4. at'[q] = step /\ arg'[q] = rec' /\ \A p \in Requests : p # q => at'[p] = "idle"
    BY <1>0, <2>1, <2>2 DEF Nmea!Accept, Nmea!Rest, Nmea!TypeOK
  <2>5. Takes(q)'
    BY <1>0, <2>1, <2>3, <2>4 DEF Nmea!Accept, Takes, Nmea!Running, Nmea!TypeOK
  <2> QED
    BY <2>4, <2>5 DEF Alike, Alone, Serving, Nmea!RunningIsConfigured, Nmea!Rest
<1>2. ASSUME NEW q \in Requests, Nmea!Apply(q), ~raced PROVE Alike'
  <2>1. /\ arg[q] = rec /\ Nmea!Running \subseteq {cur} /\ known' = rec /\ rec' = rec
        /\ \A p \in Requests : p # q => at[p] = "idle"
    BY <1>2, <1>b DEF Nmea!Serve, Nmea!Apply, Takes
  <2> QED
    BY <1>0, <1>2, <2>1, NothingRuns, StartServes, TakeServes DEF Nmea!Apply
<1>3. ASSUME NEW q \in Requests, Nmea!Remove(q), ~raced PROVE Alike'
  <2>1. /\ arg[q] = rec /\ Nmea!Running \subseteq {cur} /\ known' = rec /\ rec' = rec /\ rec = None
        /\ \A p \in Requests : p # q => at[p] = "idle"
    BY <1>3, <1>b DEF Nmea!Serve, Nmea!Remove, Takes
  <2>2. CASE cur # None
    BY <1>0, <1>3, <2>1, <2>2, TakeServes DEF Nmea!Remove
  <2>3. CASE cur = None
    <3>1. AtRest'
      <4>1. Nmea!Running = {}
        BY <1>0, <2>1, <2>3, NothingRuns
      <4> QED
        BY <1>3, <2>1, <2>3, <4>1 DEF Nmea!Remove, AtRest, Nmea!Running
    <3>2. at' = [at EXCEPT ![q] = "idle"]
      BY <1>3, <2>3 DEF Nmea!Remove
    <3> QED
      BY <1>0, <2>1, <3>1, <3>2, LastEnds
  <2> QED
    BY <2>2, <2>3
<1>4. ASSUME NEW q \in Requests, Nmea!Cancel(q), ~raced PROVE Alike'
  <2>1. /\ arg[q] = rec /\ Stops(q) /\ \A p \in Requests : p # q => at[p] = "idle"
    BY <1>4, <1>b DEF Nmea!Serve, Nmea!Cancel
  <2>2. at'[q] = "await" /\ \A p \in Requests : p # q => at'[p] = "idle"
    BY <1>0, <1>4, <2>1 DEF Nmea!Cancel, Nmea!TypeOK
  <2>3. Stops(q)' /\ arg'[q] = rec'
    BY <1>4, <2>1 DEF Nmea!Cancel, Stops, Nmea!Running
  <2> QED
    BY <2>2, <2>3 DEF Alike, Alone, Serving, Nmea!RunningIsConfigured, Nmea!Rest
<1>5. ASSUME NEW q \in Requests, Nmea!Await(q), ~raced PROVE Alike'
  <2>1. /\ arg[q] = rec /\ Stops(q) /\ \A p \in Requests : p # q => at[p] = "idle"
        /\ rec' = rec /\ known' = known
    BY <1>5, <1>b DEF Nmea!Serve, Nmea!Await
  <2>2. Nmea!Running = {}
    BY <1>5, <2>1 DEF Nmea!Await, Nmea!Returned, Stops, Nmea!Running
  <2>3. CASE arg[q] # None
    BY <1>0, <1>5, <2>1, <2>2, <2>3, StartServes DEF Nmea!Await, Stops
  <2>4. CASE arg[q] = None
    <3>1. AtRest'
      BY <1>5, <2>1, <2>2, <2>4 DEF Nmea!Await, Stops, AtRest, Nmea!Running
    <3>2. at' = [at EXCEPT ![q] = "idle"]
      BY <1>5, <2>4 DEF Nmea!Await
    <3> QED
      BY <1>0, <2>1, <3>1, <3>2, LastEnds
  <2> QED
    BY <2>3, <2>4
<1>6. ASSUME NEW r \in Runners, Nmea!Run(r), ~raced PROVE Alike'
  <2>1. UNCHANGED <<rec, known, cur, at, arg, target, cfg, raced>>
    BY <1>6 DEF Nmea!Run, Nmea!Step, Nmea!Connect, Nmea!DialError, Nmea!Wake, Nmea!Scan,
                Nmea!Line, Nmea!Hangup
  <2>2. Nmea!Running' \subseteq Nmea!Running
    BY <1>0, <1>6, RunnersRun
  <2>3. Alone' /\ Serving'
    BY <1>0, <2>1, <2>2 DEF Alone, Serving, Takes, Stops
  <2>4. Nmea!RunningIsConfigured'
    <3>1. cur # None => cur \in Runners /\ ~ctx[cur]
      BY <1>0 DEF Manager, LiveMap, Nmea!TypeOK
    <3>2. cur \in Nmea!Running => cur # None /\ cur \in Nmea!Running'
      BY <1>0, <1>6, <3>1, RunnersRun DEF Nmea!Running
    <3> QED
      BY <1>0, <2>1, <2>2, <3>2 DEF Nmea!RunningIsConfigured, Nmea!Rest
  <2> QED
    BY <2>3, <2>4 DEF Alike
<1>7. CASE Nmea!Watch \/ UNCHANGED Nmea!vars
  <2>1. UNCHANGED <<rec, known, cur, at, arg, target, pc, cfg, raced>>
    BY <1>7 DEF Nmea!Watch, Nmea!vars
  <2> QED
    BY <1>0, <2>1 DEF Alike, Alone, Serving, Takes, Stops, Nmea!RunningIsConfigured, Nmea!Rest,
                      Nmea!Running
<1>8. CASE Nmea!Restart
  <2>1. PICK r \in IF rec \in Enabled THEN Runners ELSE {None} : Nmea!BootWith(rec, r)
    BY <1>8 DEF Nmea!Restart
  <2>2. Nmea!Running' = IF rec \in Enabled THEN {r} ELSE {}
    BY <2>1 DEF Nmea!BootWith, Nmea!Running
  <2>3. AtRest' /\ Nmea!Rest'
    BY <1>8, <2>1, <2>2 DEF Nmea!Restart, Nmea!BootWith, Nmea!Running, Nmea!Rest, AtRest
  <2> QED
    BY <2>3 DEF Alike, Alone, Serving, Nmea!RunningIsConfigured, Nmea!Rest, AtRest
<1> QED
  BY <1>a, <1>c, <1>d, <1>1, <1>2, <1>3, <1>4, <1>5, <1>6, <1>7, <1>8
     DEF Nmea!Next, Nmea!Serve

LEMMA NmeaInvInit ==
  ASSUME Nmea!Init PROVE NmeaInv
<1>1. Nmea!Running = IF rec \in Enabled THEN {cur} ELSE {}
  BY ConstantsAssumption DEF Nmea!NmeaConstants, Nmea!Init, Nmea!Running
<1>2. Alone /\ Serving /\ Nmea!RunningIsConfigured
  BY <1>1 DEF Nmea!Init, Alone, Serving, Nmea!RunningIsConfigured, Nmea!Running
<1> QED
  BY <1>2, ManagerInit DEF NmeaInv

LEMMA NmeaInvNext ==
  ASSUME NmeaInv, [Nmea!Next]_(Nmea!vars)
  PROVE  NmeaInv'
  BY ManagerNext, AlikeNext DEF NmeaInv, Alike

LEMMA StatusIsTrue ==
  ASSUME NmeaInv PROVE Nmea!MapIsLive /\ Nmea!BadgeIsTrue
<1> USE ConstantsAssumption DEF Nmea!NmeaConstants, NmeaInv, Manager, Nmea!TypeOK
<1>1. Nmea!MapIsLive
  BY DEF LiveMap, Apart, Nmea!MapIsLive
<1>2. cur # None /\ pc[cur] \in {"read", "line"} => Nmea!Status = "connected"
  BY DEF Badges, Nmea!Status
<1>3. ASSUME Nmea!Rest, ~raced
      PROVE  /\ (Nmea!Status = "disabled") = (rec \in Configs \ Enabled)
             /\ (Nmea!Status = "unknown") = (rec = None)
  <2>1. CASE rec \in Enabled
    <3>1. cur \in Runners
      BY <1>3, <2>1 DEF Nmea!RunningIsConfigured, Nmea!Running
    <3> QED
      BY <2>1, <3>1 DEF Nmea!Status
  <2>2. CASE rec \notin Enabled
    <3>1. known = rec /\ cur = None
      BY <1>3, <2>2 DEF Nmea!RunningIsConfigured, Nmea!Running, LiveMap
    <3> QED
      BY <2>2, <3>1 DEF Nmea!Status
  <2> QED
    BY <2>1, <2>2
<1> QED
  BY <1>1, <1>2, <1>3 DEF Nmea!BadgeIsTrue

-----------------------------------------------------------------------------
(* What the server is fed, whichever of the three it is.                   *)
FeedInv ==
  /\ part = "nmea" => NmeaInv
  /\ part = "vessel" => VesselInv
  /\ part = "aux" => AuxInv

LEMMA FeedInit ==
  ASSUME Init PROVE FeedInv
  BY NmeaInvInit, VesselInvInit, AuxInvInit DEF Init, FeedInv

LEMMA FeedNext ==
  ASSUME FeedInv, [Next]_vars PROVE FeedInv'
<1>1. part' = part
  BY DEF Next, vars
<1>2. /\ part = "nmea" => [Nmea!Next]_(Nmea!vars)
      /\ part = "vessel" => [Vessel!Next]_(Vessel!vars)
      /\ part = "aux" => [Aux!Next]_(Aux!vars)
  BY DEF Next, vars, Aux!vars, Nmea!vars, Nmea!record, Nmea!manager, Nmea!requests, Nmea!runner,
         Nmea!bounds, Vessel!vars, Vessel!vessel, Vessel!ais, Vessel!plugins,
         Vessel!vesselStream, Vessel!aisStream
<1> QED
  BY <1>1, <1>2, NmeaInvNext, VesselInvNext, AuxInvNext DEF FeedInv

LEMMA FeedsAreSafe ==
  ASSUME FeedInv PROVE TypeOK /\ RunningIsConfigured /\ NothingIsStale
  BY StatusIsTrue DEF FeedInv, NmeaInv, Manager, VesselInv, AuxInv, TypeOK,
                      RunningIsConfigured, NothingIsStale

(* The state of the connections, of the stores and their streams, and of   *)
(* the index of attachments is typed, whatever their numbers.              *)
THEOREM FeedsAreTyped == Spec => []TypeOK
  BY FeedInit, FeedNext, FeedsAreSafe, PTL DEF Spec

(* However many requests, runners and settings there are: with no request  *)
(* being served the one runner is that of the record (overlaps excused);   *)
(* the manager never holds a runner that is stopped, and no two requests   *)
(* stop the same one; the status of a connection is what its runner is.    *)
THEOREM RunnerIsTheRecords == Spec => []RunningIsConfigured
  BY FeedInit, FeedNext, FeedsAreSafe, PTL DEF Spec

(* However many plugins, paths, targets, providers and lookups there are:  *)
(* a plugin that was turned off has left no reading, what a plugin wrote   *)
(* can be revoked by its name, and a loaded index is that of the cache     *)
(* directory unless an invalidate fell into the walk that loaded it.       *)
THEOREM FeedsAreCurrent == Spec => []NothingIsStale
  BY FeedInit, FeedNext, FeedsAreSafe, PTL DEF Spec
=============================================================================
