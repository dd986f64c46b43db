-------------------------- MODULE ListenerProofs --------------------------
(***************************************************************************)
(* The connection slots of the administrator web service, for any set of   *)
(* connections, any number of slots and any length of the queue.           *)
(***************************************************************************)
EXTENDS PeerListener, FiniteSetTheorems, SequenceTheorems, TLAPS

\* A leaf is first-order reasoning unless it calls the SMT solver.
USE ZenonT(20)

\* The connections that have a token in peerListener.slots.
Holding == {c \in Held : ~released[c]}

\* A token belongs to a connection, or to the Accept that waits for one.
Accounted == slots = Cardinality(Holding) + (IF lpc = "accept" THEN 1 ELSE 0)

\* The queue holds different connections, none of which was accepted yet.
QueueDistinct ==
    /\ \A i \in 1 .. Len(backlog) : conn[backlog[i]] = "queued"
    /\ \A i, j \in 1 .. Len(backlog) : backlog[i] = backlog[j] => i = j

\* Accept deals with one connection at a time, and returns only tailscaled's.
OneAccepted ==
    /\ \A c, d \in Conns : conn[c] = "accepted" /\ conn[d] = "accepted" => c = d
    /\ lpc \in {"check", "dispatch"} <=> \E c \in Conns : conn[c] = "accepted"
    /\ lpc = "dispatch" => \A c \in Conns : conn[c] = "accepted" => c \in Trusted

\* Close is called only on what Accept returned, a call returns only after the
\* slot was given back, and a process that ended holds nothing.
CloseProgress ==
    /\ \A c \in Conns : conn[c] # "closed" => calls[c] = NotClosing /\ ~released[c]
    /\ \A c \in Conns, k \in Closers : calls[c][k] = "returned" => released[c]
    /\ lpc = "off" => Held = {}

ListenerInv ==
    /\ TypeOK /\ Accounted /\ QueueDistinct /\ OneAccepted /\ CloseProgress
    /\ Served \subseteq Trusted

---------------------------------------------------------------------------

\* Slots, queue and goroutines keep their types.
LEMMA ListenerTypeStep == TypeOK /\ [Next]_vars => TypeOK'
  <1> SUFFICES ASSUME TypeOK, [Next]_vars PROVE TypeOK'
    OBVIOUS
  <1> USE ListenerAssumption DEF TypeOK, Closers, NotClosing
  <1>1. ASSUME NEW c \in Conns, Connect(c) PROVE TypeOK'
    BY <1>1, SMTT(30) DEF Connect
  <1>2. ASSUME NEW c \in Conns, RequestDone(c) \/ NextRequest(c) PROVE TypeOK'
    BY <1>2 DEF RequestDone, NextRequest
  <1>3. ASSUME NEW c \in Conns, NEW k \in Closers, CloseConn(c, k) PROVE TypeOK'
    BY <1>3 DEF CloseConn
  <1>4. ASSUME NEW c \in Conns, ConnEnds(c) \/ CloseIdle(c) PROVE TypeOK'
    BY <1>3, <1>4 DEF ConnEnds, CloseIdle
  <1>5. ASSUME NEW c \in Conns, Forget(c) PROVE TypeOK'
    BY <1>5 DEF Forget
  <1>6. ASSUME NEW c \in Conns, NEW k \in Closers, Release(c, k) PROVE TypeOK'
    <2>1. slots' \in 0 .. Cap BY <1>6, SMTT(30) DEF Release
    <2>2. released' \in [Conns -> BOOLEAN] BY <1>6 DEF Release
    <2> QED BY <1>6, <2>1, <2>2 DEF Release
  <1>7. CASE Activate
    <2>1. slots' \in 0 .. Cap BY <1>7, SMTT(30) DEF Activate
    <2>2. done' \in BOOLEAN BY <1>7 DEF Activate
    <2> QED BY <1>7, <2>1, <2>2 DEF Activate
  <1>8. CASE TakeSlot BY <1>8, SMTT(30) DEF TakeSlot
  <1>9. CASE AcceptClosed BY <1>9 DEF AcceptClosed
  <1>10. CASE AcceptConn
    <2>1. Head(backlog) \in Conns /\ Tail(backlog) \in Seq(Conns) /\ Len(Tail(backlog)) <= Backlog
      BY <1>10, HeadTailProperties, SMTT(30) DEF AcceptConn
    <2> QED BY <1>10, <2>1 DEF AcceptConn
  <1>11. CASE AcceptError BY <1>11, SMTT(30) DEF AcceptError
  <1>12. CASE PeerRefused BY <1>12, SMTT(30) DEF PeerRefused
  <1>13. CASE PeerTrusted BY <1>13 DEF PeerTrusted
  <1>14. CASE Dispatch BY <1>14 DEF Dispatch
  <1>15. CASE ServeReturns BY <1>15 DEF ServeReturns
  <1>16. CASE Signal BY <1>16, SMTT(30) DEF Signal
  <1>17. CASE Finished BY <1>17 DEF Finished
  <1>18. CASE Shutdown BY <1>18 DEF Shutdown
  <1>19. CASE ServeEnded BY <1>19 DEF ServeEnded
  <1>20. CASE Drained BY <1>20 DEF Drained
  <1>21. CASE Exit
    <2>1. slots' \in 0 .. Cap BY <1>21, SMTT(30) DEF Exit
    <2>2. done' \in BOOLEAN /\ released' \in [Conns -> BOOLEAN] BY <1>21 DEF Exit
    <2> QED BY <1>21, <2>1, <2>2 DEF Exit
  <1>22. CASE UNCHANGED vars BY <1>22 DEF vars
  <1>23. CASE ActivateFails BY <1>23, SMTT(30) DEF ActivateFails
  <1> QED BY <1>1, <1>2, <1>4, <1>5, <1>6, <1>7, <1>8, <1>9, <1>10, <1>11, <1>12, <1>13, <1>14,
             <1>15, <1>16, <1>17, <1>18, <1>19, <1>20, <1>21, <1>22, <1>23 DEF Next, Accept

\* The connections that hold a token are finitely many.
LEMMA HoldingFinite == IsFiniteSet(Holding) /\ Cardinality(Holding) \in Nat
  BY ListenerAssumption, FS_Subset, FS_CardinalityType DEF Holding, Held

\* A step of one connection: only Release touches the slots, and it gives back
\* the connection's token the first time it is called.
LEMMA ConnectionStep ==
  ASSUME ListenerInv, TypeOK', NEW c \in Conns,
         \/ Connect(c) \/ RequestDone(c) \/ NextRequest(c)
         \/ ConnEnds(c) \/ CloseIdle(c) \/ Forget(c)
         \/ \E k \in Closers : Release(c, k)
  PROVE  ListenerInv'
  <1> USE HoldingFinite DEF ListenerInv, TypeOK
  <1>1. CASE Connect(c)
    <2>1. Holding' = Holding /\ Served' = Served /\ Held' = Held
      BY <1>1 DEF Connect, Holding, Held, Served
    <2>2. Accounted' BY <1>1, <2>1 DEF Connect, Accounted
    <2>3. QueueDistinct' BY <1>1, SMTT(30) DEF Connect, QueueDistinct
    <2>4. OneAccepted' BY <1>1, SMTT(30) DEF Connect, OneAccepted
    <2>5. CloseProgress' BY <1>1, <2>1 DEF Connect, CloseProgress
    <2> QED BY <2>1, <2>2, <2>3, <2>4, <2>5
  <1>2. CASE RequestDone(c) \/ NextRequest(c)
    <2>1. Holding' = Holding /\ Served' = Served /\ Held' = Held
      BY <1>2 DEF RequestDone, NextRequest, Holding, Held, Served
    <2>2. Accounted' BY <1>2, <2>1 DEF RequestDone, NextRequest, Accounted
    <2>3. QueueDistinct' BY <1>2, SMTT(30) DEF RequestDone, NextRequest, QueueDistinct
    <2>4. OneAccepted' BY <1>2 DEF RequestDone, NextRequest, OneAccepted
    <2>5. CloseProgress' BY <1>2, <2>1, SMTT(30) DEF RequestDone, NextRequest, CloseProgress
    <2> QED BY <2>1, <2>2, <2>3, <2>4, <2>5
  <1>3. ASSUME NEW k \in Closers, CloseConn(c, k), conn[c] \in {"active", "idle", "closed"}
        PROVE  ListenerInv'
    <2>1. Holding' = Holding /\ Served' \subseteq Served /\ Held' = Held
      BY <1>3 DEF CloseConn, Holding, Held, Served
    <2>2. Accounted' BY <1>3, <2>1 DEF CloseConn, Accounted
    <2>3. QueueDistinct' BY <1>3, SMTT(30) DEF CloseConn, QueueDistinct
    <2>4. OneAccepted' BY <1>3, SMTT(30) DEF CloseConn, OneAccepted
    <2>5. CloseProgress' BY <1>3, <2>1, SMTT(30) DEF CloseConn, CloseProgress, Closers
    <2> QED BY <2>1, <2>2, <2>3, <2>4, <2>5
  <1>4. CASE Forget(c)
    <2>0. released[c] BY <1>4 DEF Forget, CloseProgress, Closers
    <2>1. Holding' = Holding /\ Served' = Served /\ Held' = Held \ {c}
      BY <1>4, <2>0 DEF Forget, Holding, Held, Served
    <2>2. Accounted' BY <1>4, <2>1 DEF Forget, Accounted
    <2>3. QueueDistinct' BY <1>4, SMTT(30) DEF Forget, QueueDistinct
    <2>4. OneAccepted' BY <1>4, SMTT(30) DEF Forget, OneAccepted
    <2>5. CloseProgress' BY <1>4, <2>1, SMTT(30) DEF Forget, CloseProgress, NotClosing
    <2> QED BY <2>1, <2>2, <2>3, <2>4, <2>5
  <1>5. ASSUME NEW k \in Closers, Release(c, k) PROVE ListenerInv'
    <2>0. conn[c] = "closed" BY <1>5, SMTT(30) DEF Release, CloseProgress, NotClosing
    <2>1. Holding' = Holding \ {c} /\ Served' = Served /\ Held' = Held
      BY <1>5, SMTT(30) DEF Release, Holding, Held, Served
    <2>2. Accounted'
      <3>1. CASE released[c]
        <4>1. c \notin Holding BY <3>1 DEF Holding
        <4>2. Holding' = Holding BY <2>1, <4>1
        <4> QED BY <1>5, <3>1, <4>2 DEF Release, Accounted
      <3>2. CASE ~released[c]
        <4>1. c \in Holding BY <2>0, <3>2 DEF Holding, Held
        <4>2. Cardinality(Holding') = Cardinality(Holding) - 1
          BY <2>1, <4>1, FS_RemoveElement
        <4> QED BY <1>5, <3>2, <4>2, SMTT(30) DEF Release, Accounted
      <3> QED BY <3>1, <3>2
    <2>3. QueueDistinct' BY <1>5, SMTT(30) DEF Release, QueueDistinct
    <2>4. OneAccepted' BY <1>5, SMTT(30) DEF Release, OneAccepted
    <2>5. CloseProgress' BY <1>5, <2>0, <2>1, SMTT(30) DEF Release, CloseProgress
    <2> QED BY <2>1, <2>2, <2>3, <2>4, <2>5
  <1> QED BY <1>1, <1>2, <1>3, <1>4, <1>5 DEF ConnEnds, CloseIdle, Closers

\* A step of the accept loop: it takes a token for the connection to come and
\* hands it to the connection that came, or gives it back.
LEMMA AcceptStep ==
  ASSUME ListenerInv, TypeOK', Activate \/ Accept \/ Dispatch \/ ServeReturns
  PROVE  ListenerInv'
  <1> USE HoldingFinite DEF ListenerInv, TypeOK
  <1>1. CASE Activate
    <2>1. Holding' = {} /\ Served' = Served /\ Held' = {}
      BY <1>1 DEF Activate, Holding, Held, Served, CloseProgress
    <2>2. Accounted' BY <1>1, <2>1, FS_EmptySet, SMTT(30) DEF Activate, Accounted
    <2>3. QueueDistinct' BY <1>1 DEF Activate, QueueDistinct
    <2>4. OneAccepted' BY <1>1 DEF Activate, OneAccepted
    <2>5. CloseProgress' BY <1>1 DEF Activate, CloseProgress
    <2> QED BY <2>1, <2>2, <2>3, <2>4, <2>5
  <1>2. CASE TakeSlot
    <2>1. Holding' = Holding /\ Served' = Served /\ Held' = Held
      BY <1>2 DEF TakeSlot, Holding, Held, Served
    <2>2. Accounted' BY <1>2, <2>1, SMTT(30) DEF TakeSlot, Accounted
    <2>3. QueueDistinct' BY <1>2 DEF TakeSlot, QueueDistinct
    <2>4. OneAccepted' BY <1>2 DEF TakeSlot, OneAccepted
    <2>5. CloseProgress' BY <1>2 DEF TakeSlot, CloseProgress
    <2> QED BY <2>1, <2>2, <2>3, <2>4, <2>5
  <1>3. CASE AcceptClosed \/ ServeReturns
    <2>1. Holding' = Holding /\ Served' = Served /\ Held' = Held
      BY <1>3 DEF AcceptClosed, ServeReturns, Holding, Held, Served
    <2>2. Accounted' BY <1>3, <2>1 DEF AcceptClosed, ServeReturns, Accounted
    <2>3. QueueDistinct' BY <1>3 DEF AcceptClosed, ServeReturns, QueueDistinct
    <2>4. OneAccepted' BY <1>3 DEF AcceptClosed, ServeReturns, OneAccepted
    <2>5. CloseProgress' BY <1>3 DEF AcceptClosed, ServeReturns, CloseProgress
    <2> QED BY <2>1, <2>2, <2>3, <2>4, <2>5
  <1>4. CASE AcceptConn
    <2> DEFINE h == Head(backlog)
    <2>0. h \in Conns /\ conn[h] = "queued" /\ h = backlog[1] /\ Len(backlog) > 0
      BY <1>4, HeadTailProperties, SMTT(30) DEF AcceptConn, QueueDistinct
    <2>1. Holding' = Holding \cup {h} /\ h \notin Holding /\ Served' = Served
      BY <1>4, <2>0, SMTT(30) DEF AcceptConn, Holding, Held, Served, CloseProgress
    <2>2. Accounted'
      <3>1. Cardinality(Holding') = Cardinality(Holding) + 1
        BY <2>1, FS_AddElement
      <3> QED BY <1>4, <3>1, SMTT(30) DEF AcceptConn, Accounted
    <2>3. QueueDistinct'
      <3>1. /\ Len(backlog') = Len(backlog) - 1
            /\ \A i \in 1 .. Len(backlog') : backlog'[i] = backlog[i + 1]
        BY <1>4, HeadTailProperties DEF AcceptConn
      <3>2. \A i \in 1 .. Len(backlog') : i + 1 \in 1 .. Len(backlog) /\ backlog'[i] # h
        <4> SUFFICES ASSUME NEW i \in 1 .. Len(backlog')
                     PROVE  i + 1 \in 1 .. Len(backlog) /\ backlog'[i] # h
          OBVIOUS
        <4>1. i + 1 \in 1 .. Len(backlog) /\ 1 \in 1 .. Len(backlog) /\ i + 1 # 1
          BY <2>0, <3>1, SMTT(30)
        <4> QED BY <2>0, <3>1, <4>1 DEF QueueDistinct
      <3> QED BY <1>4, <3>1, <3>2, SMTT(30) DEF AcceptConn, QueueDistinct
    <2>4. OneAccepted' BY <1>4, <2>0 DEF AcceptConn, OneAccepted
    <2>5. CloseProgress' BY <1>4, <2>0, SMTT(30) DEF AcceptConn, CloseProgress
    <2> QED BY <2>1, <2>2, <2>3, <2>4, <2>5
  <1>5. CASE AcceptError
    <2>1. Holding' = Holding /\ Served' = Served /\ Held' = Held
      BY <1>5 DEF AcceptError, Holding, Held, Served
    <2>2. Accounted' BY <1>5, <2>1, SMTT(30) DEF AcceptError, Accounted
    <2>3. QueueDistinct' BY <1>5 DEF AcceptError, QueueDistinct
    <2>4. OneAccepted' BY <1>5 DEF AcceptError, OneAccepted
    <2>5. CloseProgress' BY <1>5 DEF AcceptError, CloseProgress
    <2> QED BY <2>1, <2>2, <2>3, <2>4, <2>5
  <1>6. CASE PeerRefused
    <2>0. PICK a \in Conns : conn[a] = "accepted" BY <1>6 DEF PeerRefused, OneAccepted
    <2>1. Holding' = Holding \ {a} /\ a \in Holding /\ Served' = Served
      BY <1>6, <2>0, SMTT(30) DEF PeerRefused, Holding, Held, Served, OneAccepted, CloseProgress
    <2>2. Accounted'
      <3>1. Cardinality(Holding') = Cardinality(Holding) - 1
        BY <2>1, FS_RemoveElement
      <3> QED BY <1>6, <3>1, SMTT(30) DEF PeerRefused, Accounted
    <2>3. QueueDistinct' BY <1>6, SMTT(30) DEF PeerRefused, QueueDistinct
    <2>4. OneAccepted' BY <1>6 DEF PeerRefused, OneAccepted
    <2>5. CloseProgress' BY <1>6, SMTT(30) DEF PeerRefused, CloseProgress
    <2> QED BY <2>1, <2>2, <2>3, <2>4, <2>5
  <1>7. CASE PeerTrusted
    <2>1. Holding' = Holding /\ Served' = Served /\ Held' = Held
      BY <1>7 DEF PeerTrusted, Holding, Held, Served
    <2>2. Accounted' BY <1>7, <2>1 DEF PeerTrusted, Accounted
    <2>3. QueueDistinct' BY <1>7 DEF PeerTrusted, QueueDistinct
    <2>4. OneAccepted' BY <1>7 DEF PeerTrusted, OneAccepted
    <2>5. CloseProgress' BY <1>7 DEF PeerTrusted, CloseProgress
    <2> QED BY <2>1, <2>2, <2>3, <2>4, <2>5
  <1>8. CASE Dispatch
    <2>1. Holding' = Holding /\ Held' = Held
      BY <1>8 DEF Dispatch, Holding, Held
    <2>2. Served' \subseteq Trusted BY <1>8 DEF Dispatch, Served, OneAccepted
    <2>3. Accounted' BY <1>8, <2>1 DEF Dispatch, Accounted
    <2>4. QueueDistinct' BY <1>8, SMTT(30) DEF Dispatch, QueueDistinct
    <2>5. OneAccepted' BY <1>8 DEF Dispatch, OneAccepted
    <2>6. CloseProgress' BY <1>8 DEF Dispatch, CloseProgress
    <2> QED BY <2>2, <2>3, <2>4, <2>5, <2>6
  <1> QED BY <1>1, <1>2, <1>3, <1>4, <1>5, <1>6, <1>7, <1>8 DEF Accept

\* A step of the signal handler, the end of the process, or a start that fails.
LEMMA ShutdownStep ==
  ASSUME ListenerInv, TypeOK',
         Signal \/ Finished \/ Shutdown \/ ServeEnded \/ Drained \/ Exit
         \/ ActivateFails \/ UNCHANGED vars
  PROVE  ListenerInv'
  <1> USE HoldingFinite DEF ListenerInv, TypeOK
  <1>1. CASE UNCHANGED <<lpc, backlog, conn, calls, released, slots>>
    <2>1. Holding' = Holding /\ Served' = Served /\ Held' = Held
      BY <1>1 DEF Holding, Held, Served
    <2>2. Accounted' BY <1>1, <2>1 DEF Accounted
    <2>3. QueueDistinct' BY <1>1 DEF QueueDistinct
    <2>4. OneAccepted' BY <1>1 DEF OneAccepted
    <2>5. CloseProgress' BY <1>1, <2>1 DEF CloseProgress
    <2> QED BY <2>1, <2>2, <2>3, <2>4, <2>5
  <1>2. CASE Exit
    <2>1. Holding' = {} /\ Served' = {} /\ Held' = {}
      BY <1>2 DEF Exit, Holding, Held, Served
    <2>2. Accounted' BY <1>2, <2>1, FS_EmptySet, SMTT(30) DEF Exit, Accounted
    <2>3. QueueDistinct' BY <1>2, SMTT(30) DEF Exit, QueueDistinct, Held
    <2>4. OneAccepted' BY <1>2 DEF Exit, OneAccepted, Held
    <2>5. CloseProgress' BY <1>2, <2>1 DEF Exit, CloseProgress, NotClosing
    <2> QED BY <2>1, <2>2, <2>3, <2>4, <2>5
  <1> QED BY <1>1, <1>2 DEF Signal, Finished, Shutdown, ServeEnded, Drained, ActivateFails, vars

\* The invariant of listener, connections and signal handler holds throughout.
THEOREM ListenerInvariant == Spec => []ListenerInv
  <1>1. Init => ListenerInv
    <2> SUFFICES ASSUME Init PROVE ListenerInv
      OBVIOUS
    <2> USE ListenerAssumption DEF Init
    <2>1. TypeOK
      <3>1. done \in BOOLEAN /\ released \in [Conns -> BOOLEAN] OBVIOUS
      <3>2. slots \in 0 .. Cap /\ faults \in 0 .. MaxFaults BY SMTT(30)
      <3>3. backlog \in Seq(Conns) /\ Len(backlog) <= Backlog BY SMTT(30)
      <3> QED BY <3>1, <3>2, <3>3 DEF TypeOK, NotClosing
    <2>2. Held = {} /\ Holding = {} /\ Served = {} BY DEF Held, Holding, Served
    <2>3. Accounted BY <2>2, FS_EmptySet, SMTT(30) DEF Accounted
    <2>4. QueueDistinct /\ OneAccepted BY SMTT(30) DEF QueueDistinct, OneAccepted
    <2>5. CloseProgress BY <2>2 DEF CloseProgress, NotClosing
    <2> QED BY <2>1, <2>2, <2>3, <2>4, <2>5 DEF ListenerInv
  <1>2. ListenerInv /\ [Next]_vars => ListenerInv'
    <2> SUFFICES ASSUME ListenerInv, [Next]_vars PROVE ListenerInv'
      OBVIOUS
    <2>1. TypeOK' BY ListenerTypeStep DEF ListenerInv
    <2> QED BY <2>1, ConnectionStep, AcceptStep, ShutdownStep DEF Next
  <1> QED BY <1>1, <1>2, PTL DEF Spec

\* Whatever the number of clients and slots: no slot leaks or is given back
\* twice, at most Cap connections are open at a time, and only tailscaled's are
\* served.
THEOREM SlotsStayAccounted == Spec => []SlotsAccounted
  <1>1. ListenerInv => SlotsAccounted
    <2> SUFFICES ASSUME ListenerInv PROVE SlotsAccounted
      OBVIOUS
    <2> DEFINE Talking == {c \in Held : conn[c] # "closed"}
    <2>1. Talking \in SUBSET Holding BY DEF ListenerInv, CloseProgress, Holding, Held
    <2>2. /\ Cardinality(Talking) <= Cardinality(Holding)
          /\ Cardinality(Talking) \in Nat /\ Cardinality(Holding) \in Nat
      BY <2>1, HoldingFinite, FS_Subset, FS_CardinalityType
    <2>3. Cardinality(Talking) <= Cap
      BY <2>2, ListenerAssumption, SMTT(30) DEF ListenerInv, Accounted, TypeOK
    <2> QED BY <2>3 DEF ListenerInv, Accounted, Holding, SlotsAccounted
  <1> QED BY <1>1, ListenerInvariant, PTL
===========================================================================
