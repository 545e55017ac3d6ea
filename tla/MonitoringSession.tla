--------------------------- MODULE MonitoringSession ---------------------------
(***************************************************************************)
(* The WSJT-X listener: the receiver thread of UDPReceiver, the queue that *)
(* carries its events to the Tk thread, and what the Tk thread does with   *)
(* it: Start and Stop, the polled events, and the Configure request that   *)
(* prepares the target in WSJT-X.                                          *)
(*                                                                         *)
(* The dashboard's life cycle is reduced to what the receiver can tell     *)
(* apart: LISTENING stands for MONITORING, TARGET_DECODED and DEGRADED,    *)
(* which BandSearch keeps apart.                                           *)
(***************************************************************************)
EXTENDS Integers, Sequences, FiniteSets

CONSTANTS Instances,    \* WSJT-X instances (an id and the endpoint it sends from)
          Packets,      \* what they send
          MaxSessions,  \* how often Start is selected
          MaxEvents,    \* queued events beyond which no datagram arrives
          NoEndpoint, NoPacket

ASSUME SessionAssumption ==
  /\ MaxSessions \in Nat /\ MaxEvents \in Nat
  /\ Packets \subseteq [status : BOOLEAN, from : Instances, tx : BOOLEAN]
  /\ NoEndpoint \notin Instances /\ NoPacket \notin Packets

VARIABLES
  \* the Tk thread
  machine,                 \* AppState
  main,                    \* "free", or "joining": in stop(), waiting for the thread
  session,                 \* history: how often Start was selected
  target_prepare_pending,
  wsjtx_status_available,
  tx_active,               \* engine.state.tx_enabled or .transmitting
  events,                  \* the queue
  \* shared
  stop_event,              \* UDPReceiver._stop
  thread,                  \* _thread, by the session that started it; 0: None
  socket,                  \* _socket, by the session that opened it; 0: None
  endpoint, last_status,   \* _wsjtx_address, _last_status
  \* the receiver threads
  stage,                   \* where each is
  received,                \* the packet each has in hand
  late                     \* history: a thread has outlived a join of 2 s

tk_vars       == <<machine, main, session, target_prepare_pending,
                   wsjtx_status_available, tx_active>>
receiver_vars == <<stop_event, thread, socket>>
reply_vars    == <<endpoint, last_status>>
thread_vars   == <<stage, received>>
vars == <<tk_vars, events, receiver_vars, reply_vars, thread_vars, late>>

Sessions == 1 .. MaxSessions
Stages == {"none", "announce", "check", "recv", "parsed", "deliver", "failed", "ending", "dead"}
Event  == [kind : {"receiver_started", "receiver_error"}]
          \cup [kind : {"packet"}, packet : Packets]

TypeOK ==
  /\ machine \in {"STOPPED", "STARTING", "LISTENING", "ERROR"}
  /\ main \in {"free", "joining"}
  /\ session \in 0 .. MaxSessions
  /\ target_prepare_pending \in BOOLEAN /\ wsjtx_status_available \in BOOLEAN
  /\ tx_active \in BOOLEAN /\ stop_event \in BOOLEAN /\ late \in BOOLEAN
  /\ events \in Seq(Event)
  /\ thread \in 0 .. MaxSessions /\ socket \in 0 .. MaxSessions
  /\ endpoint \in Instances \cup {NoEndpoint}
  /\ last_status \in {packet \in Packets : packet.status} \cup {NoPacket}
  /\ stage \in [Sessions -> Stages]
  /\ received \in [Sessions -> Packets \cup {NoPacket}]
  /\ \A s \in Sessions : stage[s] \in {"parsed", "deliver"} => received[s] \in Packets

Init ==
  /\ machine = "STOPPED" /\ main = "free" /\ session = 0
  /\ target_prepare_pending = TRUE
  /\ wsjtx_status_available = FALSE /\ tx_active = FALSE
  /\ events = <<>>
  /\ stop_event = FALSE /\ thread = 0 /\ socket = 0
  /\ endpoint = NoEndpoint /\ last_status = NoPacket
  /\ stage = [s \in Sessions |-> "none"]
  /\ received = [s \in Sessions |-> NoPacket]
  /\ late = FALSE

Alive(s)  == s # 0 /\ stage[s] \notin {"none", "dead"}
Put(event) == events' = Append(events, event)

-----------------------------------------------------------------------------
(* Start and stop, on the Tk thread.                                       *)

\* mutant: the listener that is still alive is not noticed
StartReceiverAnyway ==
  /\ stop_event' = FALSE
  /\ \/ /\ socket' = session' /\ thread' = session'
        /\ stage' = [stage EXCEPT ![session'] = "announce"]
        /\ UNCHANGED <<events, received>>
     \/ /\ Put([kind |-> "receiver_error"])
        /\ UNCHANGED <<socket, thread, thread_vars>>

\* mutant: the stop flag is cleared first
StartReceiverClearsFirst ==
  /\ stop_event' = FALSE
  /\ IF Alive(thread)
     THEN UNCHANGED <<thread, socket, events, thread_vars>>
     ELSE \/ /\ socket' = session' /\ thread' = session'
             /\ stage' = [stage EXCEPT ![session'] = "announce"]
             /\ UNCHANGED <<events, received>>
          \/ /\ Put([kind |-> "receiver_error"])
             /\ UNCHANGED <<socket, thread, thread_vars>>

\* UDPReceiver.start: nothing when the thread lives; otherwise the port is bound,
\* or taken by another program.
StartReceiver ==
  IF Alive(thread)
  THEN UNCHANGED <<receiver_vars, events, thread_vars>>
  ELSE /\ stop_event' = FALSE
       /\ \/ /\ socket' = session' /\ thread' = session'
             /\ stage' = [stage EXCEPT ![session'] = "announce"]
             /\ UNCHANGED <<events, received>>
          \/ /\ Put([kind |-> "receiver_error"])
             /\ UNCHANGED <<socket, thread, thread_vars>>

Start ==
  /\ main = "free" /\ machine \in {"STOPPED", "ERROR"} /\ session < MaxSessions
  /\ machine' = "STARTING"
  /\ session' = session + 1
  /\ target_prepare_pending' = TRUE
  /\ StartReceiver
  /\ UNCHANGED <<main, wsjtx_status_available, tx_active, reply_vars, late>>

\* Stop: UDPReceiver.stop sets the flag, closes the socket and joins the thread.
Stop ==
  /\ main = "free" /\ machine # "STOPPED"
  /\ stop_event' = TRUE
  /\ main' = "joining"
  /\ UNCHANGED <<machine, session, target_prepare_pending, wsjtx_status_available, tx_active,
                 events, thread, socket, reply_vars, thread_vars, late>>

\* The last lines of UDPReceiver.stop.
Forget ==
  /\ thread' = IF Alive(thread) THEN thread ELSE 0
  /\ endpoint' = NoEndpoint /\ last_status' = NoPacket

\* mutant: stop does not wait for the thread
JoinedWithoutWaiting ==
  /\ main = "joining"
  /\ Forget
  /\ main' = "free" /\ machine' = "STOPPED"
  /\ wsjtx_status_available' = FALSE
  /\ UNCHANGED <<session, target_prepare_pending, tx_active, stop_event, socket, thread_vars,
                 late, events>>

\* The join returns, at the latest after 2 s; Dashboard.stop finishes.
Joined ==
  /\ main = "joining"
  /\ IF Alive(thread)
     THEN late' = TRUE /\ Put([kind |-> "receiver_error"])
     ELSE UNCHANGED <<late, events>>
  /\ Forget
  /\ main' = "free" /\ machine' = "STOPPED"
  /\ wsjtx_status_available' = FALSE
  /\ UNCHANGED <<session, target_prepare_pending, tx_active, stop_event, socket, thread_vars>>

\* A new target: a new engine, which has seen no Status.
ChangeTarget ==
  /\ main = "free" /\ machine = "STOPPED"
  /\ target_prepare_pending' = TRUE
  /\ tx_active' = FALSE
  /\ UNCHANGED <<machine, main, session, wsjtx_status_available, events, receiver_vars,
                 reply_vars, thread_vars, late>>

-----------------------------------------------------------------------------
(* The Configure request, and the events as the Tk thread polls them.      *)

\* UDPReceiver.prepare_dx has a socket, which stop has not closed, an endpoint and
\* a Status to mirror.
CanPrepare ==
  /\ socket # 0 /\ ~stop_event
  /\ endpoint # NoEndpoint /\ last_status # NoPacket

\* _send_prepare_dx: sent, or refused by the socket and still pending.
SendPrepare ==
  \/ CanPrepare /\ target_prepare_pending' = FALSE
  \/ UNCHANGED target_prepare_pending

\* The button "Re-send target to WSJT-X".
PrepareDx ==
  /\ main = "free" /\ machine = "LISTENING"
  /\ wsjtx_status_available /\ ~tx_active
  /\ SendPrepare
  /\ UNCHANGED <<machine, main, session, wsjtx_status_available, tx_active, events,
                 receiver_vars, reply_vars, thread_vars, late>>

HandleStarted ==
  /\ machine' = IF machine = "STARTING" THEN "LISTENING" ELSE machine
  /\ UNCHANGED <<target_prepare_pending, wsjtx_status_available, tx_active>>

\* mutant: a listener error is noticed only while starting
HandleErrorWhileStarting ==
  /\ machine' = IF machine = "STARTING" THEN "ERROR" ELSE machine
  /\ UNCHANGED <<target_prepare_pending, wsjtx_status_available, tx_active>>

HandleError ==
  /\ machine' = IF machine = "STOPPED" THEN machine ELSE "ERROR"
  /\ UNCHANGED <<target_prepare_pending, wsjtx_status_available, tx_active>>

\* _handle_packet, as far as Status goes: other packets change nothing here.
HandlePacket(packet) ==
  /\ UNCHANGED machine
  /\ IF machine = "STOPPED" \/ ~packet.status
     THEN UNCHANGED <<target_prepare_pending, wsjtx_status_available, tx_active>>
     ELSE /\ wsjtx_status_available' = TRUE
          /\ tx_active' = packet.tx
          /\ IF target_prepare_pending /\ ~packet.tx
             THEN SendPrepare
             ELSE UNCHANGED target_prepare_pending

PollEvent ==
  /\ main = "free" /\ events # <<>>
  /\ LET event == Head(events) IN
       \/ event.kind = "receiver_started" /\ HandleStarted
       \/ event.kind = "receiver_error" /\ HandleError
       \/ event.kind = "packet" /\ HandlePacket(event.packet)
  /\ events' = Tail(events)
  /\ UNCHANGED <<main, session, receiver_vars, reply_vars, thread_vars, late>>

-----------------------------------------------------------------------------
(* The receiver thread of session s: UDPReceiver._run.                     *)

Moves(s, from, to) ==
  /\ stage[s] = from
  /\ stage' = [stage EXCEPT ![s] = to]
  /\ UNCHANGED <<tk_vars, late, thread, stop_event>>

Announce(s) ==
  /\ Moves(s, "announce", "check")
  /\ Put([kind |-> "receiver_started"])
  /\ UNCHANGED <<socket, reply_vars, received>>

CheckStop(s) ==
  /\ Moves(s, "check", IF stop_event THEN "ending" ELSE "recv")
  /\ UNCHANGED <<socket, events, reply_vars, received>>

\* recvfrom returns a datagram, even one it had when the socket was closed
Receive(s) ==
  /\ Len(events) < MaxEvents
  /\ Moves(s, "recv", "parsed")
  /\ \E packet \in Packets : received' = [received EXCEPT ![s] = packet]
  /\ UNCHANGED <<socket, events, reply_vars>>

\* recvfrom times out after 0.5 s, or what came is not a packet.
NothingReceived(s) ==
  /\ Moves(s, "recv", "check")
  /\ UNCHANGED <<socket, events, reply_vars, received>>

\* recvfrom raises: the socket was closed by stop, or failed by itself.
SocketFails(s) ==
  /\ Moves(s, "recv", IF stop_event THEN "ending" ELSE "failed")
  /\ UNCHANGED <<socket, events, reply_vars, received>>

\* Under the lock, the endpoint that any packet came from and the last Status.
StoreReply(s) ==
  /\ Moves(s, "parsed", "deliver")
  /\ endpoint' = received[s].from
  /\ IF received[s].status
     THEN last_status' = received[s]
     ELSE UNCHANGED last_status
  /\ UNCHANGED <<socket, events, received>>

Deliver(s) ==
  /\ Moves(s, "deliver", "check")
  /\ Put([kind |-> "packet", packet |-> received[s]])
  /\ received' = [received EXCEPT ![s] = NoPacket]
  /\ UNCHANGED <<socket, reply_vars>>

ReportError(s) ==
  /\ Moves(s, "failed", "ending")
  /\ Put([kind |-> "receiver_error"])
  /\ UNCHANGED <<socket, reply_vars, received>>

\* finally: the socket is given up, unless a later one took its place.
Finish(s) ==
  /\ Moves(s, "ending", "dead")
  /\ socket' = IF socket = s THEN 0 ELSE socket
  /\ UNCHANGED <<events, reply_vars, received>>

Thread(s) ==
  \/ Announce(s) \/ CheckStop(s) \/ Receive(s) \/ NothingReceived(s) \/ SocketFails(s)
  \/ StoreReply(s) \/ Deliver(s) \/ ReportError(s) \/ Finish(s)

Next ==
  \/ Start \/ Stop \/ Joined \/ ChangeTarget \/ PrepareDx \/ PollEvent
  \/ \E s \in Sessions : Thread(s)

Spec == Init /\ [][Next]_vars

\* The threads run; the Tk loop polls every 100 ms.
FairSpec == Spec /\ WF_vars(PollEvent) /\ WF_vars(Joined) /\ \A s \in Sessions : WF_vars(Thread(s))

-----------------------------------------------------------------------------
(* What the listener promises.                                             *)

\* Two receiver threads never live at once, and the one that lives is the one stop
\* would join, even if a join timed out: start finds it by is_alive (receiver.py:32)
\* and stop forgets it only once it is dead (67).
OneListener == \A s \in Sessions : Alive(s) => s = thread

\* Stop leaves no endpoint behind that a later session could send a Configure request
\* to, unless the thread outlived the join: it joins before it forgets (61-66), so
\* that a datagram in the thread's hand cannot be stored afterwards.
StopForgets ==
  machine = "STOPPED" /\ main = "free" /\ ~late =>
    endpoint = NoEndpoint /\ last_status = NoPacket

\* While the dashboard shows Listening the thread lives, or the error that ended it is
\* on its way (85-108, dashboard 1194).  Left out is what StaleEventsDiscarded is about,
\* a Start that began no listener because the earlier one, told to stop, had outlived
\* its join: the flag is up then while Listening is shown.
ListeningIsHeard ==
  machine = "LISTENING" /\ main = "free" /\ ~stop_event =>
    Alive(thread) \/ \E i \in DOMAIN events : events[i].kind = "receiver_error"

\* A listener asked to stop ends, also when the join gave up on it and Start was
\* selected again: start clears the flag only when no thread lives (32-34).
ListenerStops == stop_event ~> \A s \in Sessions : ~Alive(s)

-----------------------------------------------------------------------------
(* What the documents say and the code does not do.                        *)

\* "stale receiver events after rapid Start/Stop are safely discarded"
\* (documentation/PROJECT_STATUS.md:36): the receiver_started that turns Starting into
\* Listening is that of the listener the present Start has begun.
StaleEventsDiscarded ==
  [][machine = "STARTING" /\ machine' = "LISTENING" => thread = session]_vars
=============================================================================
