--------------------------- MODULE PluginSession ----------------------------
(***************************************************************************)
(* One instance of a plugin and the JSON-RPC session the host has with it: *)
(* broker.go (request, serve, shutdown), session.go (the pipes) and the    *)
(* part of manager.go that runs an instance (runOnce, pingLoop, stop), over *)
(* one of the two runtimes: a native process, which a kill or the end of    *)
(* its context ends, or a WASM guest in this process, which is not closed   *)
(* with its context: a kill closes its pipes, and a guest that reads then   *)
(* sees the end of its input; one that is wedged goes on.                  *)
(* Five goroutines meet: the runner, the read loop, the ping loop, a       *)
(* client's stop, and whoever else writes to the plugin.                   *)
(*                                                                         *)
(* A plugin that is wedged has stopped reading and answering; what is      *)
(* written to it stays in the pipe until that is full, and a write to a    *)
(* full pipe blocks; the pipe of a guest holds nothing.  Timeouts may      *)
(* strike at any moment.                                                   *)
(***************************************************************************)
EXTENDS Naturals

CONSTANTS PipeCap,    \* messages the pipe of a process takes that nobody reads
          MaxMisses   \* manager.go maxPingMisses

SessionConstants == PipeCap \in Nat /\ MaxMisses \in Nat \ {0}

Requesters == {"hello", "ping", "bye"}  \* handshake, pingLoop, shutdown
Nobody == "nobody"

VARIABLES
  runtime,  \* what it runs on: "native" or "wasm"
  plug,     \* the plugin: "running", "wedged" or "gone"
  stdin,    \* unread messages in the pipe to it
  shut,     \* the host's end of that pipe is closed
  cut,      \* and so is its end of the pipe from the plugin
  out,      \* requests whose answer the plugin has written, not yet read
  owed,     \* requests it has received and not answered
  at,       \* each request: "none", "send" or "wait"
  chan,     \* requests whose channel holds an answer
  closed,   \* brokerSession.closed
  reader,   \* the read loop: "recv", "deliver", "inline" or "done"
  held,     \* the request whose channel it has looked up
  runner,   \* runOnce: "hello", "serve", "kill", "reap" or "ended"
  pinger,   \* pingLoop: "off", "sleep", "ask" or "kill"
  misses,   \* its count
  stopper,  \* stop: "idle", "bye", "close", "cancel", "await" or "done"
  ctx       \* the runner's context is cancelled

pipe == <<runtime, stdin, shut, cut>>
calls == <<out, owed, at, chan>>
loop == <<reader, held>>
pings == <<pinger, misses>>
stop == <<stopper, ctx>>
vars == <<plug, pipe, calls, closed, loop, runner, pings, stop>>

(* runOnce: the broker is attached, the read loop runs, host.hello is next. *)
Init ==
  /\ runtime \in {"native", "wasm"}
  /\ plug = "running" /\ stdin = 0 /\ shut = FALSE /\ cut = FALSE
  /\ out = {} /\ owed = {} /\ chan = {}
  /\ at = [q \in Requesters |-> IF q = "hello" THEN "send" ELSE "none"]
  /\ closed = FALSE /\ reader = "recv" /\ held = Nobody
  /\ runner = "hello" /\ pinger = "off" /\ misses = 0
  /\ stopper = "idle" /\ ctx = FALSE

-----------------------------------------------------------------------------
(* broker.go request, and the plugin's side of it.                         *)

(* The pipe is broken: a write to it fails.                                *)
Broken == shut \/ plug = "gone"

(* What the pipe to the plugin holds: io.Pipe hands over, and holds none.  *)
Room == IF runtime = "wasm" THEN 0 ELSE PipeCap

(* session.go Send.  A plugin that runs reads what it is sent.  A wedged   *)
(* one does not, and with a full pipe this step is not enabled.            *)
Send(q) ==
  /\ at[q] = "send" /\ ~Broken
  /\ \/ plug = "running" /\ owed' = owed \cup {q} /\ UNCHANGED stdin
     \/ plug = "wedged" /\ stdin < Room /\ stdin' = stdin + 1 /\ UNCHANGED owed
  /\ at' = [at EXCEPT ![q] = "wait"]
  /\ UNCHANGED <<runtime, plug, shut, cut, out, chan, closed, loop, runner, pings, stop>>

(* request returns: its pending entry goes, so a later answer is dropped   *)
(* by deliverResponse, unless the read loop has the channel already.       *)
Ends(q) ==
  /\ at' = [at EXCEPT ![q] = "none"]
  /\ chan' = chan \ {q} /\ owed' = owed \ {q} /\ out' = out \ {q}
  /\ held' = IF held = q THEN Nobody ELSE held

(* The callers of request go on with its outcome.                          *)
Proceed(q, ok) ==
  /\ q = "hello" => runner' = IF ok THEN "serve" ELSE "kill"
  /\ q # "hello" => UNCHANGED runner
  /\ q = "ping" =>
       /\ misses' = IF ok THEN 0 ELSE misses + 1
       /\ pinger' = IF misses' >= MaxMisses THEN "kill" ELSE "sleep"
  /\ q = "hello" /\ ok => pinger' = "sleep" /\ UNCHANGED misses
  /\ q = "bye" \/ (q = "hello" /\ ~ok) => UNCHANGED pings
  /\ q = "bye" => stopper' = "close"
  /\ q # "bye" => UNCHANGED stopper

(* The answer has come, a result or an error ...                           *)
Receive(q) ==
  /\ at[q] = "wait" /\ q \in chan
  /\ Ends(q) /\ \E ok \in BOOLEAN : Proceed(q, ok)
  /\ UNCHANGED <<plug, pipe, closed, reader, ctx>>

TimesOut(q) == at[q] = "wait"
Fail(q) ==
  /\ (at[q] = "send" /\ Broken) \/ TimesOut(q)
  /\ Ends(q) /\ Proceed(q, FALSE)
  /\ UNCHANGED <<plug, pipe, closed, reader, ctx>>

(* The plugin answers what it has received, gets stuck, or exits.          *)
Answer(q) ==
  /\ plug = "running" /\ q \in owed
  /\ owed' = owed \ {q} /\ out' = out \cup {q}
  /\ UNCHANGED <<plug, pipe, at, chan, closed, loop, runner, pings, stop>>

Wedge ==
  /\ plug = "running" /\ plug' = "wedged"
  /\ UNCHANGED <<pipe, calls, closed, loop, runner, pings, stop>>

Exit ==
  /\ plug # "gone" /\ plug' = "gone"
  /\ UNCHANGED <<pipe, calls, closed, loop, runner, pings, stop>>

(* Its input has ended: a plugin that reads sees it, and exits.            *)
Leave ==
  /\ plug = "running" /\ shut /\ plug' = "gone"
  /\ UNCHANGED <<pipe, calls, closed, loop, runner, pings, stop>>

(* notify: replies, connection data and grant changes fill the pipe too.   *)
Notify ==
  /\ plug = "wedged" /\ ~shut /\ stdin < Room
  /\ stdin' = stdin + 1
  /\ UNCHANGED <<runtime, plug, shut, cut, calls, closed, loop, runner, pings, stop>>

-----------------------------------------------------------------------------
(* The goroutines of the host.                                             *)

(* serve reads an answer and looks its channel up ...                      *)
Recv(q) ==
  /\ reader = "recv" /\ q \in out
  /\ out' = out \ {q}
  /\ reader' = "deliver" /\ held' = q
  /\ UNCHANGED <<plug, pipe, owed, at, chan, closed, runner, pings, stop>>

(* ... and puts it into the channel, which has room for one.  Mutant: a    *)
(* channel without room, which needs the requester to be there still.      *)
HasReceiver == held # Nobody
HasRoom == held \notin chan
Deliver ==
  /\ reader = "deliver" /\ HasRoom
  /\ chan' = IF held = Nobody THEN chan ELSE chan \cup {held}
  /\ reader' = "recv" /\ held' = Nobody
  /\ UNCHANGED <<plug, pipe, out, owed, at, closed, runner, pings, stop>>

(* A notification is handled in the loop itself.  Most are writes to a     *)
(* store; tcp.send writes to a connection, without a deadline: it returns  *)
(* when the peer has read, or when the connection is closed ...            *)
Inline ==
  /\ reader = "recv" /\ plug = "running"
  /\ reader' = "inline"
  /\ UNCHANGED <<plug, pipe, calls, closed, held, runner, pings, stop>>

(* ... of which nobody is sure.                                            *)
Written ==
  /\ reader = "inline"
  /\ reader' = "recv"
  /\ UNCHANGED <<plug, pipe, calls, closed, held, runner, pings, stop>>

(* A line that is no message ends the loop, whatever the plugin goes on    *)
(* to do.                                                                  *)
ProtocolError ==
  /\ reader = "recv" /\ plug = "running"
  /\ reader' = "done"
  /\ UNCHANGED <<plug, pipe, calls, closed, held, runner, pings, stop>>

(* The plugin's stdout has ended; what it wrote before may be lost.        *)
Eof ==
  /\ reader = "recv" /\ (plug = "gone" \/ cut)
  /\ reader' = "done"
  /\ UNCHANGED <<plug, pipe, calls, closed, held, runner, pings, stop>>

(* session.go Kill: end the process, or close both pipes of a guest.       *)
Kill ==
  /\ shut' = TRUE
  /\ IF runtime = "native" THEN plug' = "gone" /\ UNCHANGED cut
     ELSE cut' = TRUE /\ UNCHANGED plug

(* runOnce after serve has returned, or after a handshake that failed.     *)
Served ==
  /\ runner = "serve" /\ reader = "done"
  /\ runner' = "kill"
  /\ UNCHANGED <<plug, pipe, calls, closed, loop, pings, stop>>

KillInstance ==
  /\ runner = "kill" /\ Kill
  /\ runner' = "reap"
  /\ UNCHANGED <<runtime, stdin, calls, closed, loop, pings, stop>>

(* <-serveDone, inst.Wait; the deferred cancel ends the ping loop.         *)
Reap ==
  /\ runner = "reap" /\ reader = "done" /\ plug = "gone"
  /\ runner' = "ended"
  /\ UNCHANGED <<plug, pipe, calls, closed, loop, pings, stop>>

(* pingLoop's ticker fires; request refuses once the session is closed.    *)
Tick ==
  /\ pinger = "sleep" /\ runner # "ended" /\ ~ctx
  /\ IF closed
     THEN /\ misses' = misses + 1
          /\ pinger' = IF misses' >= MaxMisses THEN "kill" ELSE "sleep"
          /\ UNCHANGED at
     ELSE /\ pinger' = "ask" /\ at' = [at EXCEPT !["ping"] = "send"]
          /\ UNCHANGED misses
  /\ UNCHANGED <<plug, pipe, out, owed, chan, closed, loop, runner, stop>>

(* Its context, which runOnce cancels on its way out, has ended.           *)
PingDone ==
  /\ pinger = "sleep" /\ (runner = "ended" \/ ctx)
  /\ pinger' = "off"
  /\ UNCHANGED <<plug, pipe, calls, closed, loop, runner, misses, stop>>

(* maxPingMisses in a row: kill the instance, which ends the read loop.    *)
PingKill ==
  /\ pinger = "kill" /\ Kill
  /\ pinger' = "off"
  /\ UNCHANGED <<runtime, stdin, calls, closed, loop, runner, misses, stop>>

(* stop: shutdown asks the plugin to go, waits for the grace period ...    *)
Stop ==
  /\ stopper = "idle"
  /\ stopper' = "bye" /\ at' = [at EXCEPT !["bye"] = "send"]
  /\ UNCHANGED <<plug, pipe, out, owed, chan, closed, loop, runner, pings, ctx>>

(* ... closes the connections, which ends a write to one, and the session, *)
(* whatever the answer was ...                                             *)
CloseSession ==
  /\ stopper = "close"
  /\ closed' = TRUE /\ shut' = TRUE
  /\ stopper' = "cancel"
  /\ reader' = IF reader = "inline" THEN "recv" ELSE reader
  /\ UNCHANGED <<runtime, plug, stdin, cut, calls, held, runner, pings, ctx>>

(* ... and stop cancels the context of the runner and waits for its end.   *)
Cancel ==
  /\ stopper = "cancel"
  /\ ctx' = TRUE /\ stopper' = "await"
  /\ UNCHANGED <<plug, pipe, calls, closed, loop, runner, pings>>

Await ==
  /\ stopper = "await" /\ runner = "ended"
  /\ stopper' = "done"
  /\ UNCHANGED <<plug, pipe, calls, closed, loop, runner, pings, ctx>>

(* A process is bound to the context of its runner; a guest is too, but    *)
(* looks at it never.                                                      *)
Killed ==
  /\ runtime = "native" /\ ctx /\ plug # "gone" /\ plug' = "gone"
  /\ UNCHANGED <<pipe, calls, closed, loop, runner, pings, stop>>

-----------------------------------------------------------------------------
Host ==
  \/ \E q \in Requesters : Send(q) \/ Receive(q) \/ Fail(q)
  \/ Served \/ KillInstance \/ Reap \/ Tick \/ PingDone \/ PingKill
  \/ CloseSession \/ Cancel \/ Await \/ Killed
ReadLoop == (\E q \in Requesters : Recv(q)) \/ Deliver \/ Eof
Plugin == (\E q \in Requesters : Answer(q)) \/ Wedge \/ Exit \/ Leave

Next == Host \/ ReadLoop \/ Plugin \/ Notify \/ Inline \/ Written \/ ProtocolError \/ Stop

Spec == Init /\ [][Next]_vars

(* Goroutines run on and timeouts come in the end; a plugin need not answer *)
(* and need not exit while its input is open, and a write to one of its    *)
(* peers need not return.                                                  *)
Fairness ==
  /\ \A q \in Requesters : WF_vars(Send(q)) /\ WF_vars(Receive(q) \/ Fail(q))
  /\ WF_vars(Served) /\ WF_vars(KillInstance) /\ WF_vars(Reap)
  /\ WF_vars(Tick) /\ WF_vars(PingDone) /\ WF_vars(PingKill)
  /\ WF_vars(CloseSession) /\ WF_vars(Cancel) /\ WF_vars(Await) /\ WF_vars(Killed)
  /\ WF_vars(ReadLoop) /\ WF_vars(Leave)
LiveSpec == Spec /\ Fairness

-----------------------------------------------------------------------------
(* Properties.                                                             *)

TypeOK ==
  /\ runtime \in {"native", "wasm"} /\ plug \in {"running", "wedged", "gone"}
  /\ stdin \in 0 .. PipeCap /\ shut \in BOOLEAN /\ cut \in BOOLEAN
  /\ out \cup owed \cup chan \subseteq Requesters
  /\ at \in [Requesters -> {"none", "send", "wait"}]
  /\ \A q \in out \cup owed \cup chan : at[q] = "wait"
  /\ closed \in BOOLEAN /\ reader \in {"recv", "deliver", "inline", "done"}
  /\ held \in Requesters \cup {Nobody} /\ (held # Nobody => reader = "deliver")
  /\ runner \in {"hello", "serve", "kill", "reap", "ended"}
  /\ (at["hello"] # "none") = (runner = "hello")
  /\ pinger \in {"off", "sleep", "ask", "kill"} /\ (at["ping"] # "none") = (pinger = "ask")
  /\ misses \in 0 .. MaxMisses
  /\ stopper \in {"idle", "bye", "close", "cancel", "await", "done"}
  /\ (at["bye"] # "none") = (stopper = "bye")
  /\ ctx \in BOOLEAN

(* What no timeout ends: a request stuck in its write to a plugin that     *)
(* reads no more, the read loop in a write to a peer that does not read,   *)
(* and a guest that is wedged.                                             *)
Blocked == plug = "wedged" /\ stdin = Room /\ \E q \in Requesters : at[q] = "send"
Unread == reader = "inline"
Immortal == runtime = "wasm" /\ plug = "wedged"

(* When the plugin has gone, for whatever reason, the runner comes back:   *)
(* neither a late answer, a request in flight nor a line it could not read *)
(* holds the read loop or the runner up (a write to a peer may).           *)
Ended == plug = "gone" => runner = "ended"

(* A process that hangs is killed, by the handshake's timeout, the missed  *)
(* pings or a stop, unless a write to it has blocked.                      *)
Unstuck == plug = "wedged" => Blocked \/ Immortal

(* A stop ends, whatever the plugin does, unless a write to it has blocked *)
(* or a guest hangs (or a write to a peer holds the read loop up).         *)
Stopped == stopper \in {"idle", "done"} \/ Blocked \/ Immortal

=============================================================================
