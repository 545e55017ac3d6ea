----------------------- MODULE MonitoringSessionProofs -----------------------
(***************************************************************************)
(* Proofs about the listener, for every number of sessions, every set of   *)
(* instances and packets, and a queue of every length.                     *)
(***************************************************************************)
EXTENDS MonitoringSession, TLAPS

-----------------------------------------------------------------------------
(* Type correctness.                                                       *)

\* A queue stays a queue of events.
LEMMA QueueTypes ==
  ASSUME TypeOK
  PROVE  /\ \A event \in Event : Append(events, event) \in Seq(Event)
         /\ events # <<>> => Head(events) \in Event /\ Tail(events) \in Seq(Event)
BY DEF TypeOK

\* Start keeps the types.
LEMMA StartTypes == TypeOK /\ Start => TypeOK'
<1> USE SessionAssumption
<1> SUFFICES ASSUME TypeOK, Start PROVE TypeOK'
  OBVIOUS
<1>1. /\ machine' = "STARTING" /\ main' = main /\ session' = session + 1
      /\ session' \in Sessions /\ session' \in 0 .. MaxSessions
      /\ target_prepare_pending' = TRUE
      /\ UNCHANGED <<wsjtx_status_available, tx_active, endpoint, last_status, late>>
  BY DEF Start, reply_vars, TypeOK, Sessions
<1>2. CASE UNCHANGED <<receiver_vars, events, thread_vars>>
  BY <1>1, <1>2 DEF receiver_vars, thread_vars, TypeOK, Sessions
<1>3. CASE /\ stop_event' = FALSE /\ socket' = session' /\ thread' = session'
           /\ stage' = [stage EXCEPT ![session'] = "announce"]
           /\ UNCHANGED <<events, received>>
  <2>1. stage' \in [Sessions -> Stages]
    BY <1>1, <1>3 DEF TypeOK, Stages
  <2>2. \A s \in Sessions : stage'[s] \in {"parsed", "deliver"} => received'[s] \in Packets
    BY <1>1, <1>3 DEF TypeOK
  <2>3. thread' \in 0 .. MaxSessions /\ socket' \in 0 .. MaxSessions
    BY <1>1, <1>3
  <2> QED BY <1>1, <1>3, <2>1, <2>2, <2>3 DEF TypeOK
<1>4. CASE /\ stop_event' = FALSE
           /\ Put([kind |-> "receiver_error"])
           /\ UNCHANGED <<socket, thread, thread_vars>>
  <2>1. [kind |-> "receiver_error"] \in Event
    BY <1>1 DEF Event, Sessions
  <2>2. events' \in Seq(Event)
    BY <1>4, <2>1, QueueTypes DEF Put
  <2> QED BY <1>1, <1>4, <2>2 DEF thread_vars, TypeOK
<1> QED BY <1>2, <1>3, <1>4 DEF Start, StartReceiver

\* So do the other steps of the Tk thread.
LEMMA TkTypes ==
  TypeOK /\ (Stop \/ Joined \/ ChangeTarget \/ PrepareDx \/ PollEvent) => TypeOK'
<1> SUFFICES ASSUME TypeOK, Stop \/ Joined \/ ChangeTarget \/ PrepareDx \/ PollEvent
             PROVE  TypeOK'
  OBVIOUS
<1> USE SessionAssumption
<1>1. CASE Stop
  BY <1>1 DEF Stop, reply_vars, thread_vars, TypeOK
<1>2. CASE Joined
  <2>1. [kind |-> "receiver_error"] \in Event
    BY DEF Event, TypeOK
  <2>2. events' \in Seq(Event) /\ late' \in BOOLEAN
    BY <1>2, <2>1, QueueTypes DEF Joined, Put, TypeOK
  <2>3. /\ thread' \in 0 .. MaxSessions
        /\ endpoint' = NoEndpoint /\ last_status' = NoPacket
    BY <1>2 DEF Joined, Forget, TypeOK
  <2>4. /\ main' = "free" /\ machine' = "STOPPED" /\ wsjtx_status_available' = FALSE
        /\ UNCHANGED <<session, target_prepare_pending, tx_active, stop_event, socket, stage, received>>
    BY <1>2 DEF Joined, thread_vars
  <2> QED BY <2>2, <2>3, <2>4 DEF TypeOK
<1>3. CASE ChangeTarget
  BY <1>3 DEF ChangeTarget, receiver_vars, reply_vars, thread_vars, TypeOK
<1>4. CASE PrepareDx
  BY <1>4 DEF PrepareDx, SendPrepare, receiver_vars, reply_vars, thread_vars, TypeOK
<1>5. CASE PollEvent
  <2>1. Head(events) \in Event /\ Tail(events) \in Seq(Event)
    BY <1>5, QueueTypes DEF PollEvent
  <2>2. Head(events).kind = "packet" => Head(events).packet \in Packets
    BY <2>1 DEF Event
  <2>3. /\ machine' \in {"STOPPED", "STARTING", "LISTENING", "ERROR"}
        /\ target_prepare_pending' \in BOOLEAN /\ wsjtx_status_available' \in BOOLEAN
        /\ tx_active' \in BOOLEAN
    BY <1>5, <2>2 DEF PollEvent, HandleStarted, HandleError, HandlePacket, SendPrepare, TypeOK
  <2>4. events' \in Seq(Event)
    BY <1>5, <2>1 DEF PollEvent
  <2>5. UNCHANGED <<main, session, receiver_vars, reply_vars, thread_vars, late>>
    BY <1>5 DEF PollEvent
  <2> QED BY <2>3, <2>4, <2>5 DEF receiver_vars, reply_vars, thread_vars, TypeOK
<1> QED BY <1>1, <1>2, <1>3, <1>4, <1>5

\* So do the steps of a receiver thread.
LEMMA ThreadTypes ==
  ASSUME TypeOK, NEW s \in Sessions, Thread(s)
  PROVE  TypeOK'
<1> USE SessionAssumption
<1>1. PICK to \in Stages \ {"none"} :
        /\ stage' = [stage EXCEPT ![s] = to]
        /\ UNCHANGED <<tk_vars, late, thread, stop_event>>
        /\ to = "deliver" => stage[s] = "parsed" /\ received' = received
        /\ to = "parsed" => \E packet \in Packets : received' = [received EXCEPT ![s] = packet]
  BY DEF Thread, Announce, CheckStop, Receive, NothingReceived, SocketFails, StoreReply,
     Deliver, ReportError, Finish, Moves, Stages
<1>2. stage' \in [Sessions -> Stages]
  BY <1>1 DEF TypeOK
<1>3. /\ received' \in [Sessions -> Packets \cup {NoPacket}]
      /\ \A r \in Sessions \ {s} : received'[r] = received[r]
  BY DEF Thread, Announce, CheckStop, Receive, NothingReceived, SocketFails, StoreReply,
     Deliver, ReportError, Finish, TypeOK
<1>4. \A r \in Sessions : stage'[r] \in {"parsed", "deliver"} => received'[r] \in Packets
  <2>1. \A r \in Sessions \ {s} : stage'[r] = stage[r]
    BY <1>1 DEF TypeOK
  <2>2. to = "parsed" => received'[s] \in Packets
    BY <1>1 DEF TypeOK
  <2>3. to = "deliver" => received'[s] \in Packets
    BY <1>1 DEF TypeOK
  <2>4. stage'[s] = to
    BY <1>1 DEF TypeOK
  <2> QED BY <1>3, <2>1, <2>2, <2>3, <2>4 DEF TypeOK
<1>5. /\ endpoint' \in Instances \cup {NoEndpoint}
      /\ last_status' \in {packet \in Packets : packet.status} \cup {NoPacket}
  <2>1. CASE StoreReply(s)
    <3>1. received[s] \in Packets
      BY <2>1 DEF StoreReply, Moves, TypeOK
    <3>2. received[s].from \in Instances
      BY <3>1
    <3> QED BY <2>1, <3>1, <3>2 DEF StoreReply, TypeOK, Sessions
  <2>2. CASE UNCHANGED reply_vars
    BY <2>2 DEF reply_vars, TypeOK
  <2> QED BY <2>1, <2>2 DEF Thread, Announce, CheckStop, Receive, NothingReceived, SocketFails,
     Deliver, ReportError, Finish, reply_vars
<1>6. events' \in Seq(Event)
  <2>1. CASE Announce(s)
    <3>1. [kind |-> "receiver_started"] \in Event
      BY DEF Event, Sessions
    <3> QED BY <2>1, <3>1, QueueTypes DEF Announce, Put
  <2>2. CASE ReportError(s)
    <3>1. [kind |-> "receiver_error"] \in Event
      BY DEF Event, Sessions
    <3> QED BY <2>2, <3>1, QueueTypes DEF ReportError, Put
  <2>3. CASE Deliver(s)
    <3>1. received[s] \in Packets
      BY <2>3 DEF Deliver, Moves, TypeOK
    <3>2. [kind |-> "packet", packet |-> received[s]] \in Event
      BY <3>1 DEF Event
    <3> QED BY <2>3, <3>2, QueueTypes DEF Deliver, Put
  <2>4. CASE UNCHANGED events
    BY <2>4 DEF TypeOK
  <2> QED BY <2>1, <2>2, <2>3, <2>4 DEF Thread, CheckStop, Receive, NothingReceived, SocketFails,
     StoreReply, Finish
<1>7. socket' \in 0 .. MaxSessions
  BY DEF Thread, Announce, CheckStop, Receive, NothingReceived, SocketFails, StoreReply,
     Deliver, ReportError, Finish, TypeOK
<1> QED BY <1>1, <1>2, <1>3, <1>4, <1>5, <1>6, <1>7 DEF tk_vars, TypeOK

\* Every reachable state is well typed; a thread that stores or delivers has a packet.
THEOREM TypeCorrect == Spec => []TypeOK
<1>1. Init => TypeOK
  <2>1. <<>> \in Seq(Event)
    OBVIOUS
  <2>2. ASSUME Init
        PROVE  /\ session \in 0 .. MaxSessions /\ thread \in 0 .. MaxSessions
               /\ socket \in 0 .. MaxSessions
               /\ stage \in [Sessions -> Stages]
               /\ received \in [Sessions -> Packets \cup {NoPacket}]
               /\ \A s \in Sessions : stage[s] = "none"
    BY <2>2, SessionAssumption DEF Init, Stages
  <2> QED BY <2>1, <2>2 DEF Init, TypeOK
<1>2. TypeOK /\ [Next]_vars => TypeOK'
  <2>1. TypeOK /\ UNCHANGED vars => TypeOK'
    BY DEF vars, tk_vars, receiver_vars, reply_vars, thread_vars, TypeOK
  <2> QED BY <2>1, StartTypes, TkTypes, ThreadTypes DEF Next
<1> QED BY <1>1, <1>2, PTL DEF Spec

-----------------------------------------------------------------------------
(* The inductive invariant.                                                *)

\* The listener, if there is one, will deliver nothing more.
Doomed == thread = 0 \/ stage[thread] \in {"none", "ending", "dead"}

ErrorQueued == \E j \in DOMAIN events : events[j].kind = "receiver_error"

\* Whatever start is still to be polled, an error is to be polled after it.
ErrorsFollow ==
  \A i \in DOMAIN events : events[i].kind = "receiver_started" =>
    \E j \in DOMAIN events : j > i /\ events[j].kind = "receiver_error"

StoppedIsQuiet ==
  machine = "STOPPED" /\ main = "free" /\ ~late =>
    /\ \A s \in Sessions : ~Alive(s)
    /\ endpoint = NoEndpoint /\ last_status = NoPacket

\* A thread that lives beyond Stop has been told to end.
StopIsTold ==
  /\ main = "joining" => stop_event
  /\ machine = "STOPPED" /\ main = "free" /\ ~stop_event => ~Alive(thread)

DoomIsReported ==
  machine # "STOPPED" /\ main = "free" /\ ~stop_event =>
    (Doomed => ErrorsFollow /\ (machine = "LISTENING" => ErrorQueued))

Kept        == OneListener /\ StoppedIsQuiet /\ StopIsTold /\ DoomIsReported
ListenerInv == TypeOK /\ Kept

\* What an event put or polled does to the errors in the queue.
LEMMA PutKeepsErrors ==
  ASSUME TypeOK, NEW event \in Event, Put(event)
  PROVE  /\ event.kind = "receiver_error" => ErrorQueued' /\ ErrorsFollow'
         /\ event.kind # "receiver_started" /\ ErrorsFollow => ErrorsFollow'
         /\ ErrorQueued => ErrorQueued'
<1>1. /\ events \in Seq(Event) /\ events' = Append(events, event)
  BY DEF Put, TypeOK
<1>2. /\ Len(events) \in Nat
      /\ DOMAIN events = 1 .. Len(events) /\ DOMAIN events' = 1 .. Len(events) + 1
      /\ \A i \in DOMAIN events : events'[i] = events[i]
      /\ events'[Len(events) + 1] = event
  BY <1>1
<1> QED BY <1>2 DEF ErrorQueued, ErrorsFollow

\* A message taken from the queue leaves the errors behind it there.
LEMMA PollKeepsErrors ==
  ASSUME TypeOK, events # <<>>, events' = Tail(events)
  PROVE  /\ ErrorsFollow => ErrorsFollow'
         /\ ErrorsFollow /\ Head(events).kind = "receiver_started" => ErrorQueued'
         /\ ErrorQueued /\ Head(events).kind # "receiver_error" => ErrorQueued'
<1>1. events \in Seq(Event)
  BY DEF TypeOK
<1>2. /\ Len(events) \in Nat /\ Len(events) > 0 /\ Head(events) = events[1]
      /\ DOMAIN events = 1 .. Len(events) /\ DOMAIN events' = 1 .. Len(events) - 1
      /\ \A i \in DOMAIN events' : events'[i] = events[i + 1]
  BY <1>1
<1>3. ASSUME NEW j \in DOMAIN events, j > 1, events[j].kind = "receiver_error"
      PROVE  j - 1 \in DOMAIN events' /\ events'[j - 1].kind = "receiver_error"
  BY <1>2, <1>3
<1>4. ASSUME ErrorsFollow PROVE ErrorsFollow'
  <2> SUFFICES ASSUME NEW i \in DOMAIN events', events'[i].kind = "receiver_started"
               PROVE  \E j \in DOMAIN events' : j > i /\ events'[j].kind = "receiver_error"
    BY DEF ErrorsFollow
  <2>1. i + 1 \in DOMAIN events /\ events[i + 1].kind = "receiver_started"
    BY <1>2
  <2>2. PICK j \in DOMAIN events : j > i + 1 /\ events[j].kind = "receiver_error"
    BY <1>4, <2>1 DEF ErrorsFollow
  <2>3. j > 1 /\ j - 1 > i
    BY <1>2, <2>2
  <2> QED BY <1>3, <2>2, <2>3
<1>5. ASSUME ErrorsFollow, Head(events).kind = "receiver_started" PROVE ErrorQueued'
  <2>1. PICK j \in DOMAIN events : j > 1 /\ events[j].kind = "receiver_error"
    BY <1>2, <1>5 DEF ErrorsFollow
  <2> QED BY <1>3, <2>1 DEF ErrorQueued
<1>6. ASSUME ErrorQueued, Head(events).kind # "receiver_error" PROVE ErrorQueued'
  <2>1. PICK j \in DOMAIN events : events[j].kind = "receiver_error"
    BY <1>6 DEF ErrorQueued
  <2>2. j > 1
    BY <1>2, <1>6, <2>1
  <2> QED BY <1>3, <2>1, <2>2 DEF ErrorQueued
<1> QED BY <1>4, <1>5, <1>6

-----------------------------------------------------------------------------
(* The invariant is kept.                                                  *)

\* Start keeps the invariant.
LEMMA StartKeeps ==
  ASSUME ListenerInv, Start
  PROVE  Kept'
<1> USE SessionAssumption DEF Kept
<1>1. /\ main = "free" /\ machine' = "STARTING" /\ main' = main /\ late' = late
      /\ session' \in Sessions /\ session' # 0
  BY DEF Start, ListenerInv, TypeOK, Sessions
<1>2. StoppedIsQuiet' /\ StopIsTold'
  BY <1>1 DEF StoppedIsQuiet, StopIsTold
<1>3. CASE Alive(thread) /\ UNCHANGED <<receiver_vars, events, thread_vars>>
  <2>1. OneListener'
    BY <1>3 DEF ListenerInv, OneListener, Alive, receiver_vars, thread_vars
  <2>2. ASSUME ~stop_event PROVE machine # "STOPPED"
    BY <1>1, <1>3, <2>2 DEF ListenerInv, StopIsTold
  <2>3. DoomIsReported'
    BY <1>1, <1>3, <2>2 DEF ListenerInv, DoomIsReported, Doomed, ErrorsFollow, receiver_vars,
       thread_vars
  <2> QED BY <1>2, <2>1, <2>3
<1>4. CASE /\ ~Alive(thread)
           /\ stop_event' = FALSE /\ thread' = session'
           /\ stage' = [stage EXCEPT ![session'] = "announce"]
  <2>1. stage'[session'] = "announce"
    BY <1>1, <1>4 DEF ListenerInv, TypeOK
  <2>2. \A s \in Sessions : ~Alive(s)
    BY <1>4 DEF ListenerInv, OneListener
  <2>3. OneListener'
    BY <1>1, <1>4, <2>2 DEF OneListener, Alive, ListenerInv, TypeOK
  <2>4. DoomIsReported'
    BY <1>1, <1>4, <2>1 DEF DoomIsReported, Doomed
  <2> QED BY <1>2, <2>3, <2>4
<1>5. CASE /\ ~Alive(thread)
           /\ stop_event' = FALSE
           /\ Put([kind |-> "receiver_error"])
           /\ UNCHANGED <<socket, thread, thread_vars>>
  <2>1. [kind |-> "receiver_error"] \in Event
    BY <1>1 DEF Event, Sessions
  <2>2. ErrorsFollow'
    BY <1>5, <2>1, PutKeepsErrors DEF ListenerInv
  <2>3. OneListener'
    BY <1>5 DEF ListenerInv, OneListener, Alive, thread_vars
  <2>4. DoomIsReported'
    BY <1>1, <1>5, <2>2 DEF DoomIsReported
  <2> QED BY <1>2, <2>3, <2>4
<1> QED BY <1>3, <1>4, <1>5 DEF Start, StartReceiver

\* So does Stop.
LEMMA StopKeeps ==
  ASSUME ListenerInv, Stop
  PROVE  Kept'
BY DEF Stop, Kept, ListenerInv, OneListener, Alive, StoppedIsQuiet, StopIsTold, DoomIsReported,
       thread_vars

\* So does the return of the join.
LEMMA JoinedKeeps ==
  ASSUME ListenerInv, Joined
  PROVE  Kept'
<1> USE DEF Kept
<1>1. /\ machine' = "STOPPED" /\ main' = "free" /\ stage' = stage
      /\ main = "joining" /\ stop_event' = stop_event
      /\ endpoint' = NoEndpoint /\ last_status' = NoPacket
      /\ Alive(thread) => late' /\ thread' = thread
      /\ ~Alive(thread) => thread' = 0
  BY DEF Joined, Forget, thread_vars
<1>2. OneListener'
  BY <1>1 DEF ListenerInv, OneListener, Alive
<1>3. ASSUME ~late', NEW s \in Sessions PROVE ~Alive(s)'
  BY <1>1, <1>3 DEF ListenerInv, OneListener, Alive
<1>4. StoppedIsQuiet'
  BY <1>1, <1>3 DEF StoppedIsQuiet
<1> QED BY <1>1, <1>2, <1>4 DEF ListenerInv, StopIsTold, DoomIsReported

\* So do the steps of the Tk thread that are about the target only.
LEMMA OtherTkKeeps ==
  ASSUME ListenerInv, ChangeTarget \/ PrepareDx \/ UNCHANGED vars
  PROVE  Kept'
<1> USE DEF Kept
<1>1. UNCHANGED <<machine, main, late, events, receiver_vars, reply_vars, thread_vars>>
  BY DEF ChangeTarget, PrepareDx, vars, tk_vars
<1>2. OneListener' /\ StoppedIsQuiet' /\ StopIsTold'
  BY <1>1 DEF ListenerInv, OneListener, Alive, StoppedIsQuiet, StopIsTold, receiver_vars,
     reply_vars, thread_vars
<1>3. DoomIsReported'
  BY <1>1 DEF ListenerInv, DoomIsReported, Doomed, ErrorsFollow, ErrorQueued, receiver_vars,
     thread_vars
<1> QED BY <1>2, <1>3

\* So does a message taken from the queue.
LEMMA PollKeeps ==
  ASSUME ListenerInv, PollEvent
  PROVE  Kept'
<1> USE DEF Kept
<1>1. /\ events # <<>> /\ events' = Tail(events) /\ main = "free"
      /\ UNCHANGED <<main, receiver_vars, reply_vars, thread_vars, late>>
  BY DEF PollEvent
<1>2. /\ machine' = "STOPPED" <=> machine = "STOPPED"
      /\ machine' = "LISTENING" =>
           \/ machine = "LISTENING" /\ Head(events).kind # "receiver_error"
           \/ Head(events).kind = "receiver_started"
  BY DEF PollEvent, HandleStarted, HandleError, HandlePacket
<1>3. OneListener' /\ StoppedIsQuiet' /\ StopIsTold'
  BY <1>1, <1>2 DEF ListenerInv, OneListener, Alive, StoppedIsQuiet, StopIsTold, receiver_vars,
     reply_vars, thread_vars
<1>4. ASSUME machine' # "STOPPED", ~stop_event', Doomed'
      PROVE  ErrorsFollow' /\ (machine' = "LISTENING" => ErrorQueued')
  <2>1. Doomed
    BY <1>1, <1>4 DEF Doomed, receiver_vars, thread_vars
  <2>2. ErrorsFollow /\ (machine = "LISTENING" => ErrorQueued)
    BY <1>1, <1>2, <1>4, <2>1 DEF ListenerInv, DoomIsReported, receiver_vars
  <2> QED BY <1>1, <1>2, <2>2, PollKeepsErrors DEF ListenerInv
<1> QED BY <1>3, <1>4 DEF DoomIsReported

\* So do the steps of a receiver thread.
LEMMA ThreadKeeps ==
  ASSUME ListenerInv, NEW s \in Sessions, Thread(s)
  PROVE  Kept'
<1> USE DEF Kept
<1>1. /\ UNCHANGED <<machine, main, late, thread, stop_event>>
      /\ Alive(s) /\ \A r \in Sessions \ {s} : stage'[r] = stage[r]
  <2>1. PICK from, to :
          /\ from \in {"announce", "check", "recv", "parsed", "deliver", "failed", "ending"}
          /\ Moves(s, from, to)
    BY DEF Thread, Announce, CheckStop, Receive, NothingReceived, SocketFails, StoreReply,
       Deliver, ReportError, Finish
  <2>2. s # 0
    BY SessionAssumption DEF Sessions
  <2> QED BY <2>1, <2>2 DEF Moves, tk_vars, ListenerInv, TypeOK, Alive
<1>2. thread = s
  BY <1>1 DEF ListenerInv, OneListener
<1>3. OneListener'
  BY <1>1, <1>2 DEF ListenerInv, OneListener, Alive
<1>4. StoppedIsQuiet' /\ StopIsTold'
  BY <1>1, <1>2 DEF ListenerInv, StoppedIsQuiet, StopIsTold
<1>5. ASSUME machine' # "STOPPED", main' = "free", ~stop_event' PROVE DoomIsReported'
  <2>1. /\ ~stop_event /\ ~stop_event'
        /\ Doomed => ErrorsFollow /\ (machine = "LISTENING" => ErrorQueued)
    BY <1>1, <1>5 DEF ListenerInv, DoomIsReported
  <2>2. CASE ReportError(s)
    <3>1. [kind |-> "receiver_error"] \in Event
      BY DEF Event, Sessions
    <3>2. ErrorsFollow' /\ ErrorQueued'
      BY <2>2, <3>1, PutKeepsErrors DEF ReportError, ListenerInv
    <3> QED BY <2>1, <3>2 DEF DoomIsReported
  <2>3. CASE Finish(s)
    <3>1. Doomed /\ events' = events
      BY <1>2, <2>3 DEF Finish, Moves, Doomed
    <3> QED BY <1>1, <2>1, <3>1 DEF DoomIsReported, ErrorsFollow, ErrorQueued
  <2>4. CASE \/ Announce(s) \/ CheckStop(s) \/ Receive(s) \/ NothingReceived(s)
             \/ SocketFails(s) \/ StoreReply(s) \/ Deliver(s)
    <3>1. stage'[s] \in {"check", "recv", "parsed", "deliver", "failed"}
      BY <2>1, <2>4 DEF Announce, CheckStop, Receive, NothingReceived, SocketFails, StoreReply,
         Deliver, Moves, ListenerInv, TypeOK
    <3>2. ~Doomed'
      BY <1>1, <1>2, <3>1, SessionAssumption DEF Doomed, Sessions
    <3> QED BY <2>1, <3>2 DEF DoomIsReported
  <2> QED BY <2>2, <2>3, <2>4 DEF Thread
<1>6. DoomIsReported'
  BY <1>5 DEF DoomIsReported
<1> QED BY <1>3, <1>4, <1>6

\* The invariant holds in every reachable state.
LEMMA ListenerInvariant == Spec => []ListenerInv
<1>1. Init => Kept
  BY DEF Init, Kept, OneListener, StoppedIsQuiet, StopIsTold, DoomIsReported, Alive
<1>2. TypeOK /\ Kept /\ [Next]_vars
        => Kept'
  BY StartKeeps, StopKeeps, JoinedKeeps, OtherTkKeeps, PollKeeps, ThreadKeeps
     DEF Next, ListenerInv
<1>3. Spec => []Kept
  BY <1>1, <1>2, TypeCorrect, PTL DEF Spec
<1>4. TypeOK /\ Kept => ListenerInv
  BY DEF ListenerInv
<1> QED BY <1>3, <1>4, TypeCorrect, PTL

-----------------------------------------------------------------------------
(* What it gives.                                                          *)

\* At most one receiver thread lives, and it is the one stop would join.
THEOREM SingleListener == Spec => []OneListener
<1>1. ListenerInv => OneListener
  BY DEF ListenerInv, Kept
<1> QED BY <1>1, ListenerInvariant, PTL

\* A clean Stop leaves nothing to send a Configure request to.
THEOREM StopIsClean == Spec => []StopForgets
<1>1. ListenerInv => StopForgets
  BY DEF ListenerInv, Kept, StoppedIsQuiet, StopForgets
<1> QED BY <1>1, ListenerInvariant, PTL

\* While the dashboard shows Listening a thread lives or its error is queued, but after
\* a Start that found the earlier listener, told to stop, still alive.
THEOREM ListeningIsReal == Spec => []ListeningIsHeard
<1>1. ListenerInv => ListeningIsHeard
  <2> SUFFICES ASSUME ListenerInv, machine = "LISTENING", main = "free", ~stop_event,
                      ~Alive(thread)
               PROVE  \E i \in DOMAIN events : events[i].kind = "receiver_error"
    BY DEF ListeningIsHeard
  <2>1. Doomed
    BY DEF Alive, Doomed
  <2> QED BY <2>1 DEF ListenerInv, Kept, DoomIsReported, ErrorQueued
<1> QED BY <1>1, ListenerInvariant, PTL
=============================================================================
