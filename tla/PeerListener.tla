--------------------------- MODULE PeerListener ---------------------------
(***************************************************************************)
(* The administrator web service's listener                                *)
(* (internal/adminweb/listener_linux.go) under the HTTP server that        *)
(* internal/adminweb/run.go starts and shuts down: the accept loop with    *)
(* its connection slots, the peer check, connections that several          *)
(* goroutines close, the signal handler, and systemd, which owns the       *)
(* socket and starts the service again when somebody connects.             *)
(*                                                                         *)
(* A connection is a member of Conns; it is used again once every call of  *)
(* Close on its previous peerConn has returned.                            *)
(***************************************************************************)
EXTENDS Naturals, Sequences, FiniteSets

CONSTANTS Conns,        \* connections a client may make
          Trusted,      \* those made by tailscaled running as root
          Cap,          \* capacity of peerListener.slots (8)
          Backlog,      \* the socket unit's Backlog (8)
          MaxFaults     \* bound on signals, failing accepts and failing activations

ASSUME ListenerAssumption ==
    /\ IsFiniteSet(Conns)
    /\ Trusted \subseteq Conns
    /\ Cap \in Nat \ {0}
    /\ Backlog \in Nat \ {0}
    /\ MaxFaults \in Nat

VARIABLES
    lpc,        \* the goroutine in http.Server.Serve and peerListener.Accept
    spc,        \* the goroutine that waits for a signal
    backlog,    \* connections in the kernel's queue, oldest first
    conn,       \* where each connection is
    calls,      \* the calls of peerConn.Close by the two goroutines that make one
    released,   \* peerConn.once has run
    slots,      \* len(peerListener.slots)
    done,       \* peerListener.done and the listener are closed
    faults      \* signals, failed accepts and failed activations so far

vars == <<lpc, spc, backlog, conn, calls, released, slots, done, faults>>

\* The connection's own goroutine closes it at its end; Shutdown closes it when idle.
Closers == {"serve", "shutdown"}
NotClosing == [k \in Closers |-> "none"]

\* Connections the process holds, and those the HTTP server knows of.
Held == {c \in Conns : conn[c] \notin {"away", "queued"}}
Served == {c \in Conns : conn[c] \in {"active", "idle"}}

\* Type invariant: goroutines, connections and the slot channel (peerListener, peerConn).
TypeOK ==
    /\ lpc \in {"off", "slot", "accept", "check", "dispatch", "failed", "finished"}
    /\ spc \in {"off", "waiting", "signalled", "closing", "draining", "done"}
    /\ backlog \in Seq(Conns) /\ Len(backlog) <= Backlog
    /\ conn \in [Conns -> {"away", "queued", "accepted", "active", "idle", "closed"}]
    /\ calls \in [Conns -> [Closers -> {"none", "closing", "returned"}]]
    /\ released \in [Conns -> BOOLEAN]
    /\ slots \in 0 .. Cap
    /\ done \in BOOLEAN
    /\ faults \in 0 .. MaxFaults

Init ==
    /\ lpc = "off"
    /\ spc = "off"
    /\ backlog = <<>>
    /\ conn = [c \in Conns |-> "away"]
    /\ calls = [c \in Conns |-> NotClosing]
    /\ released = [c \in Conns |-> FALSE]
    /\ slots = 0
    /\ done = FALSE
    /\ faults = 0

---------------------------------------------------------------------------
(* Clients and systemd.                                                    *)

Connect(c) ==
    /\ conn[c] = "away"
    /\ Len(backlog) < Backlog
    /\ backlog' = Append(backlog, c)
    /\ conn' = [conn EXCEPT ![c] = "queued"]
    /\ UNCHANGED <<lpc, spc, calls, released, slots, done, faults>>

\* A waiting connection activates the service: Run makes a new peerListener
\* on the inherited socket and starts the two goroutines.
Activate ==
    /\ lpc = "off"
    /\ backlog # <<>>
    /\ lpc' = "slot"
    /\ spc' = "waiting"
    /\ slots' = 0
    /\ done' = FALSE
    /\ UNCHANGED <<backlog, conn, calls, released, faults>>

\* The configuration, tailscale's state, the socket file or the inherited
\* descriptor is not as it should be: Run returns before it accepts anything.
\* The connection stays in systemd's queue and activates the service again.
ActivateFails ==
    /\ lpc = "off"
    /\ backlog # <<>>
    /\ faults < MaxFaults
    /\ faults' = faults + 1
    /\ UNCHANGED <<lpc, spc, backlog, conn, calls, released, slots, done>>

---------------------------------------------------------------------------
(* peerListener.Accept, called in a loop by http.Server.Serve.             *)

\* Mutant of TakeSlot: it does not wait for a free slot.
TakeSlotAnyway ==
    /\ lpc = "slot"
    /\ slots' = slots + 1
    /\ lpc' = "accept"
    /\ UNCHANGED <<spc, backlog, conn, calls, released, done, faults>>

\* The two cases of the select; either may be chosen when both are ready.
TakeSlot ==
    /\ lpc = "slot"
    /\ slots < Cap
    /\ slots' = slots + 1
    /\ lpc' = "accept"
    /\ UNCHANGED <<spc, backlog, conn, calls, released, done, faults>>

AcceptClosed ==
    /\ lpc = "slot"
    /\ done
    /\ lpc' = "failed"
    /\ UNCHANGED <<spc, backlog, conn, calls, released, slots, done, faults>>

AcceptConn ==
    /\ lpc = "accept"
    /\ ~done
    /\ backlog # <<>>
    /\ conn' = [conn EXCEPT ![Head(backlog)] = "accepted"]
    /\ backlog' = Tail(backlog)
    /\ lpc' = "check"
    /\ UNCHANGED <<spc, calls, released, slots, done, faults>>

\* The slot is given back before the error is returned.  Serve ends on it,
\* unless the error is temporary and no shutdown has begun: it then tries again.
AcceptError ==
    /\ lpc = "accept"
    /\ slots > 0
    /\ slots' = slots - 1
    /\ \/ done /\ lpc' = "failed" /\ UNCHANGED faults
       \/ /\ ~done /\ faults < MaxFaults
          /\ faults' = faults + 1
          /\ lpc' \in {"slot", "failed"}
    /\ UNCHANGED <<spc, backlog, conn, calls, released, done>>

\* Mutant of PeerRefused: the refused connection keeps its slot.
PeerRefusedKeepsSlot ==
    /\ lpc = "check"
    /\ conn' = [c \in Conns |-> IF conn[c] = "accepted" THEN "away" ELSE conn[c]]
    /\ lpc' = "slot"
    /\ UNCHANGED <<spc, backlog, calls, released, slots, done, faults>>

\* check fails: always for a stranger, and for tailscaled when its credentials
\* or /proc entry cannot be read.
PeerRefused ==
    /\ lpc = "check"
    /\ slots > 0
    /\ conn' = [c \in Conns |-> IF conn[c] = "accepted" THEN "away" ELSE conn[c]]
    /\ slots' = slots - 1
    /\ lpc' = "slot"
    /\ UNCHANGED <<spc, backlog, calls, released, done, faults>>

\* Mutant of PeerTrusted: any peer will do.
PeerTrustedAnyone ==
    /\ lpc = "check"
    /\ lpc' = "dispatch"
    /\ UNCHANGED <<spc, backlog, conn, calls, released, slots, done, faults>>

\* Accept returns a fresh peerConn.
PeerTrusted ==
    /\ lpc = "check"
    /\ \A c \in Conns : conn[c] = "accepted" => c \in Trusted
    /\ lpc' = "dispatch"
    /\ UNCHANGED <<spc, backlog, conn, calls, released, slots, done, faults>>

\* Serve starts the connection's goroutine and calls Accept again.
Dispatch ==
    /\ lpc = "dispatch"
    /\ conn' = [c \in Conns |-> IF conn[c] = "accepted" THEN "active" ELSE conn[c]]
    /\ lpc' = "slot"
    /\ UNCHANGED <<spc, backlog, calls, released, slots, done, faults>>

\* Serve closes the listener, if nobody has, and returns; Run closes finished.
ServeReturns ==
    /\ lpc = "failed"
    /\ lpc' = "finished"
    /\ done' = TRUE
    /\ UNCHANGED <<spc, backlog, conn, calls, released, slots, faults>>

---------------------------------------------------------------------------
(* Connections.                                                            *)

RequestDone(c) ==
    /\ conn[c] = "active"
    /\ calls[c]["serve"] = "none"
    /\ conn' = [conn EXCEPT ![c] = "idle"]
    /\ UNCHANGED <<lpc, spc, backlog, calls, released, slots, done, faults>>

NextRequest(c) ==
    /\ conn[c] = "idle"
    /\ conn' = [conn EXCEPT ![c] = "active"]
    /\ UNCHANGED <<lpc, spc, backlog, calls, released, slots, done, faults>>

\* peerConn.Close, first half: the connection itself is closed.
CloseConn(c, k) ==
    /\ calls[c][k] = "none"
    /\ calls' = [calls EXCEPT ![c][k] = "closing"]
    /\ conn' = [conn EXCEPT ![c] = "closed"]
    /\ UNCHANGED <<lpc, spc, backlog, released, slots, done, faults>>

\* The connection's goroutine ends: the client hung up, a timeout passed, or
\* reading failed because Shutdown closed the connection.
ConnEnds(c) == conn[c] \in {"active", "idle", "closed"} /\ CloseConn(c, "serve")

\* Shutdown's closeIdleConns.
CloseIdle(c) == spc = "draining" /\ conn[c] = "idle" /\ CloseConn(c, "shutdown")

\* Mutant of Release: without the sync.Once.
ReleaseEveryTime(c, k) ==
    /\ calls[c][k] = "closing"
    /\ calls' = [calls EXCEPT ![c][k] = "returned"]
    /\ slots > 0
    /\ slots' = slots - 1
    /\ released' = [released EXCEPT ![c] = TRUE]
    /\ UNCHANGED <<lpc, spc, backlog, conn, done, faults>>

\* peerConn.Close, second half: once.Do(release).  Receiving from slots blocks
\* while the channel is empty.
Release(c, k) ==
    /\ calls[c][k] = "closing"
    /\ calls' = [calls EXCEPT ![c][k] = "returned"]
    /\ \/ released[c] /\ UNCHANGED <<slots, released>>
       \/ /\ ~released[c]
          /\ slots > 0
          /\ slots' = slots - 1
          /\ released' = [released EXCEPT ![c] = TRUE]
    /\ UNCHANGED <<lpc, spc, backlog, conn, done, faults>>

\* Nobody refers to the peerConn any more.
Forget(c) ==
    /\ conn[c] = "closed"
    /\ calls[c]["serve"] = "returned"
    /\ calls[c]["shutdown"] # "closing"
    /\ conn' = [conn EXCEPT ![c] = "away"]
    /\ calls' = [calls EXCEPT ![c] = NotClosing]
    /\ released' = [released EXCEPT ![c] = FALSE]
    /\ UNCHANGED <<lpc, spc, backlog, slots, done, faults>>

---------------------------------------------------------------------------
(* The goroutine that waits for a signal, and the end of Run.              *)

Signal ==
    /\ spc = "waiting"
    /\ faults < MaxFaults
    /\ faults' = faults + 1
    /\ spc' = "signalled"
    /\ UNCHANGED <<lpc, backlog, conn, calls, released, slots, done>>

\* The select's other case; with a signal pending too, either may be chosen.
Finished ==
    /\ spc \in {"waiting", "signalled"}
    /\ lpc = "finished"
    /\ spc' = "done"
    /\ UNCHANGED <<lpc, backlog, conn, calls, released, slots, done, faults>>

\* Mutant of Shutdown: the listener is not closed.
ShutdownKeepsListener ==
    /\ spc = "signalled"
    /\ spc' = "closing"
    /\ UNCHANGED <<lpc, backlog, conn, calls, released, slots, done, faults>>

\* Shutdown closes the listener (done, then the socket) and waits for Serve.
Shutdown ==
    /\ spc = "signalled"
    /\ spc' = "closing"
    /\ done' = TRUE
    /\ UNCHANGED <<lpc, backlog, conn, calls, released, slots, faults>>

ServeEnded ==
    /\ spc = "closing"
    /\ lpc = "finished"
    /\ spc' = "draining"
    /\ UNCHANGED <<lpc, backlog, conn, calls, released, slots, done, faults>>

\* Shutdown returns: no connection is left, or its 35 seconds are over.
Drained ==
    /\ spc = "draining"
    /\ spc' = "done"
    /\ UNCHANGED <<lpc, backlog, conn, calls, released, slots, done, faults>>

\* Run returns and the process ends; what it still holds is cut off.  The
\* queue belongs to systemd's socket and stays.
Exit ==
    /\ lpc = "finished"
    /\ spc = "done"
    /\ lpc' = "off"
    /\ spc' = "off"
    /\ conn' = [c \in Conns |-> IF c \in Held THEN "away" ELSE conn[c]]
    /\ calls' = [c \in Conns |-> NotClosing]
    /\ released' = [c \in Conns |-> FALSE]
    /\ slots' = 0
    /\ done' = FALSE
    /\ UNCHANGED <<backlog, faults>>

Accept == TakeSlot \/ AcceptClosed \/ AcceptConn \/ AcceptError \/ PeerRefused \/ PeerTrusted

Next ==
    \/ \E c \in Conns : Connect(c) \/ RequestDone(c) \/ NextRequest(c)
    \/ \E c \in Conns : ConnEnds(c) \/ CloseIdle(c) \/ Forget(c)
    \/ \E c \in Conns, k \in Closers : Release(c, k)
    \/ Activate \/ ActivateFails \/ Accept \/ Dispatch \/ ServeReturns
    \/ Signal \/ Finished \/ Shutdown \/ ServeEnded \/ Drained \/ Exit

Spec == Init /\ [][Next]_vars

\* Goroutines run, systemd activates the service, Shutdown's timeout passes.
\* Activations, which may fail, do not fail for ever: an operator repairs what
\* Run objects to (they count among the faults, of which there are MaxFaults).
\* Every connection ends: ReadTimeout, WriteTimeout and bounded handlers end a
\* request, IdleTimeout a connection without one, and tailscaled is taken not
\* to keep one connection busy for ever.
Fairness ==
    /\ WF_vars(Activate) /\ WF_vars(TakeSlot) /\ WF_vars(AcceptClosed)
    /\ WF_vars(AcceptConn) /\ WF_vars(AcceptError /\ done)
    /\ WF_vars(PeerRefused \/ PeerTrusted) /\ WF_vars(Dispatch) /\ WF_vars(ServeReturns)
    /\ WF_vars(Finished) /\ WF_vars(Shutdown) /\ WF_vars(ServeEnded)
    /\ WF_vars(Drained) /\ WF_vars(Exit)
    /\ \A c \in Conns :
          /\ WF_vars(ConnEnds(c)) /\ WF_vars(Forget(c))
          /\ \A k \in Closers : WF_vars(Release(c, k))

FairSpec == Spec /\ Fairness

---------------------------------------------------------------------------
(* Properties.                                                             *)

\* The channel holds one token for every connection that has not released its
\* own and one for the accept under way: no slot leaks and none is given back
\* twice, so no Close ever blocks in its receive from slots.  The service hence
\* talks over at most Cap connections at a time ("Cap ... concurrent connections
\* at eight", decisions/0022), and to tailscaled only.
SlotsAccounted ==
    /\ TypeOK
    /\ slots = Cardinality({c \in Held : ~released[c]}) + (IF lpc = "accept" THEN 1 ELSE 0)
    /\ Cardinality({c \in Held : conn[c] # "closed"}) <= Cap
    /\ Served \subseteq Trusted

\* Whoever waits in the queue gets an answer - served or turned away - also
\* when all slots are taken, peers are refused, or the service is stopped,
\* fails to start and is activated again, as long as it does start in the end.
QueueMoves == \A c \in Conns : conn[c] = "queued" ~> conn[c] # "queued"

\* A signal ends the process, whatever its goroutines are waiting for at that
\* moment: a free slot, a connection, each other (Run's finished, shutdownDone).
SignalStops == spc = "signalled" ~> lpc = "off"
===========================================================================
