---------------------------- MODULE PluginBroker ----------------------------
(***************************************************************************)
(* What a plugin session holds for its plugin (broker.go setGrants and     *)
(* closeHandles, capabilities.go): connections the host dialed under the   *)
(* net.tcp-client grant, the AIS targets it published under ais.write, and *)
(* the storage file.  Every request of the plugin runs in a goroutine of   *)
(* its own, notifications run in the read loop, and grants change from     *)
(* HTTP handlers; b.mu covers the tables and the grants, and neither a     *)
(* dial, a publish nor the storage file.                                   *)
(***************************************************************************)
EXTENDS Naturals, FiniteSets

CONSTANTS Dials,       \* bound: the tcp.connect requests, one handle each
          Setters,     \* the callers of setGrants
          Keys,        \* storage keys; the request that sets or deletes one
          MaxChanges,  \* bound: calls of setGrants
          MaxSaves     \* bound: storage requests

BrokerConstants ==
  /\ MaxChanges \in Nat /\ MaxSaves \in Nat
  /\ "shutdown" \notin Setters \cup Dials /\ Dials \cap Setters = {}

Caps == {"net.tcp-client", "ais.write"}

VARIABLES
  grants,    \* brokerSession.grants
  table,     \* brokerSession.handles
  dial,      \* each tcp.connect: "idle", "dial", "add", "pump", "done"
  conn,      \* its connection: "none", "open" or "closed"
  setter,    \* each setGrants: "idle", "close", "evict"
  lost,      \* the capabilities it revoked
  victims,   \* the handles each has taken out of the table and has still to close
  session,   \* "open", "shutdown" (closeHandles), "closing" or "ended"
  orderly,   \* it was ended by shutdown, not by the plugin's exit
  reader,    \* the read loop: "recv", "publish" or "done"
  targets,   \* the AIS store holds targets of this plugin
  file,      \* the keys in storage.json
  store,     \* each storage request: "idle", "save" or "write"
  copy,      \* the keys it read, with its change
  acked,     \* history: the keys whose last acknowledged request was a set
  late,      \* history: dials under way when their grant was revoked or the session
             \* was shut down, and dials asked for after that
  tardy,     \* history: a publish was under way when ais.write was revoked
  doubt,     \* history: the keys whose last request failed, or overlapped another's,
             \* and all of them once the file was lost, or read or cut while being written
  changes, saves  \* counted against their bounds

connections == <<table, dial, conn, late>>
setting == <<grants, setter, lost, changes>>
ais == <<targets, tardy>>
storage == <<file, store, copy, acked, doubt, saves>>
vars == <<connections, victims, setting, session, orderly, reader, ais, storage>>

(* Who closes handles; that of a dial by its pump or on its plugin's word. *)
Closers == Setters \cup Dials \cup {"shutdown"}

Init ==
  /\ grants \in SUBSET Caps
  /\ table = {} /\ dial = [c \in Dials |-> "idle"] /\ conn = [c \in Dials |-> "none"]
  /\ setter = [s \in Setters |-> "idle"] /\ lost = [s \in Setters |-> {}]
  /\ victims = [a \in Closers |-> {}]
  /\ session = "open" /\ orderly = FALSE /\ reader = "recv" /\ targets = FALSE
  /\ file = {} /\ store = [k \in Keys |-> "idle"] /\ copy = [k \in Keys |-> {}]
  /\ acked = {} /\ late = {} /\ tardy = FALSE /\ doubt = {}
  /\ changes \in {0, MaxChanges} /\ saves \in {0, MaxSaves}  \* all a bound allows, or none

-----------------------------------------------------------------------------
(* tcp.connect and the connections.                                        *)

Dialing == {c \in Dials : dial[c] \in {"dial", "add"}}

(* handleTCPConnect: check the grant ...                                   *)
Connect(c) ==
  /\ dial[c] = "idle" /\ reader # "done"
  /\ dial' = [dial EXCEPT ![c] = IF "net.tcp-client" \in grants THEN "dial" ELSE "done"]
  /\ late' = IF session = "closing" THEN late \cup {c} ELSE late
  /\ UNCHANGED <<table, conn, victims, setting, session, orderly, reader, ais, storage>>

(* ... dial, which fails when the session has ended or the peer is away,   *)
(* and does not look at the grants again ...                               *)
Dialed(c) ==
  /\ dial[c] = "dial"
  /\ \/ /\ session # "ended"
        /\ dial' = [dial EXCEPT ![c] = "add"] /\ conn' = [conn EXCEPT ![c] = "open"]
     \/ dial' = [dial EXCEPT ![c] = "done"] /\ UNCHANGED conn
  /\ UNCHANGED <<table, late, victims, setting, session, orderly, reader, ais, storage>>

(* ... enter the connection in the table, reply and start its pump.        *)
AddHandle(c) ==
  /\ dial[c] = "add"
  /\ table' = table \cup {c}
  /\ dial' = [dial EXCEPT ![c] = "pump"]
  /\ UNCHANGED <<conn, late, victims, setting, session, orderly, reader, ais, storage>>

(* dropHandle: out of the table under the lock, and closed after the unlock, *)
(* if it was still in it.                                                    *)
DropHandle(c) ==
  /\ table' = table \ {c}
  /\ victims' = [victims EXCEPT ![c] = @ \cup (table \cap {c})]

(* The read of pumpConn fails: the host closed the connection, or the peer *)
(* did.  It says so to the plugin and drops the handle.                    *)
PumpEnds(c) ==
  /\ dial[c] = "pump"
  /\ DropHandle(c)
  /\ dial' = [dial EXCEPT ![c] = "done"]
  /\ UNCHANGED <<conn, late, setting, session, orderly, reader, ais, storage>>

(* handleIOClose: the plugin closes one of its handles.                    *)
IOClose(c) ==
  /\ reader # "done" /\ c \in table
  /\ DropHandle(c)
  /\ UNCHANGED <<dial, conn, late, setting, session, orderly, reader, ais, storage>>

(* closeHandles takes the whole table under the lock ...                      *)
TakeHandles(a) ==
  /\ victims' = [victims EXCEPT ![a] = table]
  /\ table' = {}

(* ... and closes what it took, as dropHandle does.                        *)
CloseTaken(a) ==
  /\ victims[a] # {}
  /\ conn' = [c \in Dials |-> IF c \in victims[a] THEN "closed" ELSE conn[c]]
  /\ victims' = [victims EXCEPT ![a] = {}]
  /\ UNCHANGED <<table, dial, late, setting, session, orderly, reader, ais, storage>>

-----------------------------------------------------------------------------
(* setGrants.                                                              *)

(* Swap the grants under the lock, and note what was revoked.              *)
Swap(s, g) ==
  /\ setter[s] = "idle" /\ victims[s] = {} /\ changes < MaxChanges
  /\ grants' = g /\ changes' = changes + 1
  /\ lost' = [lost EXCEPT ![s] = grants \ g]
  /\ setter' = [setter EXCEPT ![s] = "close"]
  /\ late' = IF "net.tcp-client" \in grants \ g THEN late \cup Dialing ELSE late
  /\ tardy' = (tardy \/ (reader = "publish" /\ "ais.write" \in grants \ g))
  /\ UNCHANGED <<table, dial, conn, victims, session, orderly, reader, targets, storage>>

(* Which handles to close when something was revoked.  Mutant: none.       *)
KeepsHandles(s) == FALSE
RevokesTransport(s) == "net.tcp-client" \in lost[s]
CloseRevoked(s) ==
  /\ setter[s] = "close"
  /\ setter' = [setter EXCEPT ![s] = "evict"]
  /\ IF RevokesTransport(s) THEN TakeHandles(s) ELSE UNCHANGED <<victims, table>>
  /\ UNCHANGED <<dial, conn, late, grants, lost, changes, session, orderly, reader, ais, storage>>

(* EvictAIS, then the notification.  The eviction waits for the closing.   *)
RevokesAIS(s) == "ais.write" \in lost[s]
EvictRevoked(s) ==
  /\ setter[s] = "evict" /\ victims[s] = {}
  /\ targets' = (targets /\ ~RevokesAIS(s))
  /\ setter' = [setter EXCEPT ![s] = "idle"] /\ lost' = [lost EXCEPT ![s] = {}]
  /\ UNCHANGED <<connections, victims, grants, changes, session, orderly, reader, tardy, storage>>

(* handleAISPublish in the read loop: check the grant, then publish.       *)
CheckPublish ==
  /\ reader = "recv" /\ session # "ended" /\ "ais.write" \in grants
  /\ reader' = "publish"
  /\ UNCHANGED <<connections, victims, setting, session, orderly, ais, storage>>

Publish ==
  /\ reader = "publish"
  /\ targets' = TRUE
  /\ reader' = "recv"
  /\ UNCHANGED <<connections, victims, setting, session, orderly, tardy, storage>>

-----------------------------------------------------------------------------
(* The end of the session.                                                 *)

(* shutdown: when the plugin has answered or the grace is over, close the  *)
(* handles, then the session.                                              *)
Shutdown ==
  /\ session = "open"
  /\ session' = "shutdown"
  /\ UNCHANGED <<connections, victims, setting, orderly, reader, ais, storage>>

ShutdownHandles ==
  /\ session = "shutdown"
  /\ TakeHandles("shutdown")
  /\ late' = late \cup Dialing
  /\ orderly' = TRUE
  /\ session' = "closing"
  /\ UNCHANGED <<dial, conn, setting, reader, ais, storage>>

(* The plugin's output ends, after a shutdown or without one: runOnce cancels *)
(* the context that dials run under, and closes no handle.                    *)
End ==
  /\ reader = "recv" /\ session # "ended"
  /\ victims["shutdown"] = {} /\ session # "shutdown"
  /\ reader' = "done" /\ session' = "ended"
  /\ UNCHANGED <<connections, victims, setting, orderly, ais, storage>>

-----------------------------------------------------------------------------
(* handleStorage: load the file, change one key, save the file.            *)

Storing == {k \in Keys : store[k] # "idle"}
Writing == {k \in Keys : store[k] = "write"}

LoadKV(k, set) ==
  /\ store[k] = "idle" /\ reader # "done" /\ saves < MaxSaves
  /\ saves' = saves + 1
  /\ copy' = [copy EXCEPT ![k] = IF set THEN file \cup {k} ELSE file \ {k}]
  /\ store' = [store EXCEPT ![k] = "save"]
  /\ doubt' = IF Writing # {} THEN Keys
              ELSE IF Storing # {} THEN doubt \cup Storing \cup {k} ELSE doubt
  /\ UNCHANGED <<file, acked, connections, victims, setting, session, orderly, reader, ais>>

(* The reply: a failed save of a set is an error, one of a delete is not.  *)
Acknowledge(k) == acked' = IF k \in copy[k] THEN acked \cup {k} ELSE acked \ {k}
Fails(k) == IF k \in copy[k] THEN UNCHANGED acked ELSE Acknowledge(k)
Replied(k) == /\ store' = [store EXCEPT ![k] = "idle"]
              /\ copy' = [copy EXCEPT ![k] = {}]

(* saveKV: os.WriteFile truncates the file first.                          *)
Truncate(k) ==
  /\ store[k] = "save"
  /\ store' = [store EXCEPT ![k] = "write"] /\ file' = {}
  /\ doubt' = IF Writing # {} THEN Keys ELSE doubt
  /\ UNCHANGED <<copy, acked, saves, connections, victims, setting, session, orderly,
                 reader, ais>>

(* What is over the quota is refused, and a file may not open.             *)
Refuse(k) ==
  /\ store[k] = "save"
  /\ Replied(k) /\ Fails(k)
  /\ doubt' = IF k \in copy[k] THEN doubt ELSE doubt \cup {k}
  /\ UNCHANGED <<file, saves, connections, victims, setting, session, orderly, reader, ais>>

(* Then it writes, and the request is acknowledged.  Mutant: only the key  *)
(* of the request is written.                                              *)
OwnKey(k) == copy[k] \cap {k}
Saved(k) == copy[k]
WriteKV(k) ==
  /\ store[k] = "write"
  /\ file' = Saved(k)
  /\ Replied(k) /\ Acknowledge(k)
  /\ doubt' = IF Storing = {k} THEN doubt \ {k} ELSE doubt
  /\ UNCHANGED <<saves, connections, victims, setting, session, orderly, reader, ais>>

(* A write that fails half way, or lands in another's, leaves what no      *)
(* loadKV can parse.                                                       *)
LoseFile(k) ==
  /\ store[k] = "write"
  /\ file' = {}
  /\ Replied(k) /\ Fails(k)
  /\ doubt' = Keys
  /\ UNCHANGED <<saves, connections, victims, setting, session, orderly, reader, ais>>

-----------------------------------------------------------------------------
Plugin ==
  \/ \E c \in Dials : Connect(c) \/ IOClose(c)
  \/ CheckPublish \/ End
  \/ \E k \in Keys, set \in BOOLEAN : LoadKV(k, set)

Host ==
  \/ \E c \in Dials : Dialed(c) \/ AddHandle(c) \/ PumpEnds(c)
  \/ \E a \in Closers : CloseTaken(a)
  \/ \E s \in Setters : CloseRevoked(s) \/ EvictRevoked(s)
  \/ Publish \/ ShutdownHandles
  \/ \E k \in Keys : Truncate(k) \/ Refuse(k) \/ WriteKV(k) \/ LoseFile(k)

Client == Shutdown \/ \E s \in Setters, g \in SUBSET Caps : Swap(s, g)

Next == Plugin \/ Host \/ Client

Spec == Init /\ [][Next]_vars

-----------------------------------------------------------------------------
(* Properties.                                                             *)

TypeOK ==
  /\ grants \subseteq Caps /\ table \subseteq Dials
  /\ dial \in [Dials -> {"idle", "dial", "add", "pump", "done"}]
  /\ conn \in [Dials -> {"none", "open", "closed"}]
  /\ setter \in [Setters -> {"idle", "close", "evict"}] /\ lost \in [Setters -> SUBSET Caps]
  /\ victims \in [Closers -> SUBSET Dials]
  /\ session \in {"open", "shutdown", "closing", "ended"} /\ orderly \in BOOLEAN
  /\ reader \in {"recv", "publish", "done"} /\ (session = "ended") = (reader = "done")
  /\ targets \in BOOLEAN /\ tardy \in BOOLEAN /\ late \subseteq Dials /\ doubt \subseteq Keys
  /\ file \subseteq Keys /\ acked \subseteq Keys /\ copy \in [Keys -> SUBSET Keys]
  /\ store \in [Keys -> {"idle", "save", "write"}]
  /\ changes \in 0 .. MaxChanges /\ saves \in 0 .. MaxSaves

Settled ==
  (\A s \in Setters : setter[s] = "idle") /\ (\A a \in Closers : victims[a] = {})
Established == {c \in Dials : dial[c] = "pump"}

(* Once setGrants has returned, no connection that was dialed under a      *)
(* revoked grant is open, however changes of the grants overlap, but for   *)
(* those whose dial was under way when the grant went.  The same of        *)
(* targets: none of a plugin without ais.write is on the chart, but for    *)
(* those of a publish that was under way.                                  *)
RevokedIsGone ==
  Settled =>
    /\ "net.tcp-client" \notin grants => \A c \in Established \ late : conn[c] # "open"
    /\ "ais.write" \notin grants /\ ~tardy => ~targets

(* The handle table is the truth about the connections: what is open can   *)
(* be closed by its handle, and a handle leads to an open connection.      *)
HandlesAreOpen ==
  /\ \A c \in Established : conn[c] = "open" =>
       c \in table \/ \E a \in Closers : c \in victims[a]
  /\ \A c \in table : conn[c] = "open"

(* A session that was shut down leaves no connection open, but for dials   *)
(* that were under way or came after.                                      *)
ShutdownCloses ==
  Settled /\ orderly /\ session = "ended" => \A c \in Dials \ late : conn[c] # "open"

(* A key whose set was acknowledged last is in the file, and a key whose   *)
(* delete was is not, while no request is under way: but for keys whose    *)
(* last request overlapped another's, keys whose delete was acknowledged   *)
(* although its save failed, and all of them when the file was lost.       *)
AcknowledgedIsStored ==
  Storing = {} => \A k \in Keys \ doubt : k \in file <=> k \in acked
=============================================================================
