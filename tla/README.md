# A TLA+ model of DX Assistant

DX Assistant listens to WSJT-X over UDP, waits for one target station, and can
move the two VFOs of a radio through OmniRig to search the bands for it. It
never transmits; its promise to the operator is that it moves the VFOs only
when it was asked to, only in receive, and stops as soon as the operator
wants the radio. This directory holds the TLA+ specification of that promise
and of the code that has to keep it, the TLC configurations that check it on
small instances, and TLAPS proofs for every instance.

All paths below are relative to the repository (`source/dxassistant/` where
only a file name is given). `PROJECT.json` names, for every definition that
models code, the lines it stands for.

## The system

One Tk main thread owns all state. Three kinds of worker thread report to it
through one `queue.Queue`, polled every 100 ms.

    WSJT-X ==UDP==> receiver thread --events--+
      ^                                       |
      +--Configure-- UDPReceiver.prepare_dx   v
                                        Dashboard (Tk thread)
    OmniRig <--bridge script-- worker --events--^  ^  ^-- timers: 100 ms, 250 ms, 1 s, 1 s
    PSK Reporter <--HTTP-- worker -----events------+  ^
    Pushover <--HTTP-- worker ---------events---------+-- buttons

| Part | State | Operations | Hard behaviour | What makes it correct |
|---|---|---|---|---|
| Life cycle (`state.py`) | `current` | `transition` | a forbidden transition raises in the middle of a handler | only allowed transitions are asked for |
| Search session (`hopping.py`) | state, current band, deadline | begin, tuned, next_band, pause, hand_to_operator, stop, fail | the list of bands changes under it | a fair rotation over enabled bands |
| Dashboard core (`dashboard.py`) | life cycle, search, `tune_in_progress`, alert, suppressed band, engine state, band plan, PSK focus | buttons, four timers, queue messages | result of an alignment arriving after a hold, pause or handover; modal dialogs; stale results; silence of WSJT-X | see BandSearch below |
| OmniRig bridge (`omnirig.py`, `omnirig_bridge.ps1`) | original frequencies, what was moved | align (12 s limit) | asynchronous writes, transmit or tuning by the operator between two calls, exceptions, kill | success means aligned; failure means restored |
| WSJT-X listener (`receiver.py`) | stop event, thread, socket, endpoint, last Status | start, stop, prepare_dx, thread loop | rapid Stop and Start, a join that times out, a datagram in hand, two WSJT-X instances | one listener; no stale endpoint; Listening means a listener, where the code keeps to that |
| Protocol (`protocol.py`) | none | parse_packet, build_prepare_dx | optional trailing fields | every version of Status is read, nothing is read out of another field |
| Target detection (`engine.py`) | last Status, counters, the target's locator | handle | which word is the sender, whose locator is it | only the target's own transmissions alert |
| Band table (`bands.py`) | none | band_for_frequency | edges | ranges are disjoint |
| PSK Reporter (`pskreporter.py`, dashboard timer) | next poll, in-progress flag, focus | poll, rank, apply | late results, reset of the interval, ties and edges of the ranking | one request at a time, none hurried but by the operator; a result only for the present question; a ranking by evidence |
| Mobile alerts (`pushover.py`, dashboard) | settings, a worker for each notification | send with retries | lost answers, settings changed meanwhile | to the account it was for, once for an alarm, and answered |
| Logs (`logging.py`) | buffer of 250 unwritten records | write | failure part of the way, a line cut | order kept, bounded loss |
| Configuration (`config.py`, `app.py`) | the JSON file, its copy in the session | save_*, load, first run | failure or end of the process between two steps, edits by hand | the file changes by whole saves, and the session agrees with it |
| Window, installer, simulator | - | layout, colours, development tools | - | - |

Components interact only by calls on the Tk thread, by the events queue, and
by what `UDPReceiver` keeps under its lock (socket, endpoint, last Status).

## The modules

| Module | Models | Uses |
|---|---|---|
| `AppState` | abstract: the life cycle of `state.py` | |
| `VfoControl` | abstract: who may move the VFOs | |
| `SettingsFile` | abstract: a configuration file that changes by whole saves | |
| `SearchSession` | `hopping.py`, as operators | |
| `BandSearch` | the Tk thread: buttons, timers and queue messages that touch the search, the alert, the alignment and the life cycle | SearchSession; implements AppState and VfoControl |
| `BandRotation` | the order of bands, against the list code | BandSearch |
| `RigBridge` | one alignment, call by call, with OmniRig, the radio and its operator | |
| `MonitoringSession` | receiver thread, Start and Stop, the queue, the Configure request | |
| `PskPolling` | the poll timer, the worker, its result, and what resets them | |
| `BandRanking` | `rank_bands`, against a definition that does not fold | |
| `TargetDetection` | from the words of a message to target found and the target's locator | |
| `WsjtxProtocol` | `parse_packet` on whole and cut datagrams | |
| `MobileAlerts` | notifications, their threads and retries, the settings | |
| `EventLog` | the audit log with its buffer | |
| `ConfigStore` | first run, launch, saves step by step, the session's copy | implements SettingsFile |
| `MCBandSearch`, `MCBandRotation`, `MCRigBridge`, `MCMonitoringSession`, `MCInputs`, `MCOutputs` | values for TLC; MCInputs joins TargetDetection, BandRanking and WsjtxProtocol in one run, MCOutputs joins MobileAlerts, EventLog and ConfigStore | |
| `BandSearchProofs`, `RigBridgeProofs`, `MonitoringSessionProofs`, `PskPollingProofs`, `MobileAlertsProofs`, `EventLogProofs`, `ConfigStoreProofs`, `InputsProofs` | theorems; the rotation is in BandSearchProofs, and all of TargetDetection, BandRanking and WsjtxProtocol in InputsProofs | |

Components meet where the code lets them: `BandSearch` takes the outcome of
`RigBridge` (verified or failed, at any time), of `MonitoringSession` (started,
error, any packet), of `PskPolling` (any focus list) and of
`TargetDetection` (a target decode or another) as free choices, so that what
is shown of it holds whatever these do, and each of these takes what the dashboard asks
of it as a free choice in turn. Their compositions would be products of what is
already unrestricted.

### BandSearch

Each action is one Tk callback, which runs to completion. A button's guard is
the condition under which `_update_controls` enables it together with the
early returns of its handler. `_update_controls` runs after most messages and every
250 ms, so that a button may lag behind the state by that much; the handlers
that would be dangerous then check again, and the model takes the enabled
state as exact. Concretely: `_begin_search` and `monitor_selected_band` repeat
all checks, `acknowledge` checks the alert, `_resume_search` repeats
`can_resume`; Stop and Pause rely on the button alone, which `_start_tune`
disables in the callback that raises the flag. Modal dialogs block buttons and not timers: the model
keeps the one where this matters, the close question (`window`).

* A dial frequency is the band it lies in, `OffBand` outside all bands,
  `ZeroHz` before the first Status; `tx` is `tx_enabled or transmitting`, which
  the code never reads apart.
* The dwell deadline is absent, ahead or passed; the last packet is absent,
  recent or old. `DwellElapses` and `PacketAges` are the clock.
* The queue is over-approximated: any packet, receiver event or PSK result may be
  the next one polled. Results of alignments are kept in `tunes` until polled.
* An alignment is `running` until its worker reports `verified` or `failed`.
* A failed alignment carries a message that is not empty (an exception without a text would pass
  `if error`, `dashboard.py:573`).
* `ChangeTarget`, `ToggleBand`, `RestoreDefaultFrequencies` and
  `ApplyPskSearchArea` are the paths on which the save succeeds; when it
  fails nothing changes. A result of PSK Reporter for another target or area
  changes nothing but its in-progress flag, and is left out.

Not in it: dwell selection, frequencies of the plan, mute timer, log output,
the message of a rig check; mobile alerts are in `MobileAlerts`.

### RigBridge

`pc` walks through the script; each step is one COM call and its test. Writes
go to a queue that OmniRig executes in order (`OmniRigExecutes`) or loses
(`OmniRigLoses`), at any time; the sleeps of the script are where these have
their time, so that a verification may come before the write it verifies. Any
COM call may throw before it has taken effect; the operator may turn a VFO, key the
transmitter, and set split and routing between any two steps; the 12 s limit
may kill the script anywhere. `excused` records what ends the promises: the
operator tuned, writes of an earlier alignment were left over, the rollback
was forgone because the radio transmits, was itself cut short or its writes
were lost, or the answer got lost after the last step. A killed bridge promises
nothing (no rollback can run), which is why `killed` is neither `verified` nor
`failed` here, though the dashboard shows it as a failure.

### MonitoringSession

The receiver thread of each session (a session is one Start) walks through
`stage`, one step per access to shared state. Stop is two actions on the Tk
thread: the flag and the closed socket, then the return of the join, after the
thread ended or after 2 s (`late`). `LISTENING` stands for MONITORING,
TARGET_DECODED and DEGRADED. `_handle_packet` is kept as far as Status and
the Configure request go. Closing the window is left out (it is Stop without
a later Start); so is the rate limit of warnings about malformed packets.

### PskPolling

`_pskr_tick` (`PskrTick`), its worker (`WorkerReturns`) and
`_handle_pskr_result`, against everything that writes `pskr_next_poll` or
the question: Stop, a new target, a new area. `wait` is the time left
to the next poll. `query` is the target with the area; a worker carries the query it
was begun with, as the closure does. LISTENING stands for the three states in
which the timer asks. `since` (time since the last request) and `undisturbed` (no Stop, new target or new
area since then) are history.

### MobileAlerts

Each notification is a record of `sends` with its thread: pushing, sleeping,
ended; three attempts for a target, one for a test. An attempt may fail before or after it
was delivered (`answer_lost`). `reached` is what the phone has got. The repeat suppression
of a held band is in BandSearch; here a decode rings when no alarm is active.

### EventLog

A write of `n` buffered records with the new one succeeds, or fails after any number of
whole lines and perhaps a piece of one (`cut`); the next write then continues that
line, so that its first record is spoilt (0). `outcome` remembers how each write ended.
Midnight changes the file, a restart
drops the buffer. The decode log keeps nothing: a row it cannot write is dropped, and is one
audit record more.

### ConfigStore

A save is four steps (`BeginSave` reads and changes, `WriteTemporary`, `Replace`, then
`Remember` in the session); each may fail, the process may end between any two, and the
file may be edited by hand at any time, which `raced` and `current` remember. A
content is its plain settings and its bands; a standard band the file lacks
gets its default on load and on the first save that touches it. `Launch`, `CopyEnds` and
`CopyFails` are the first run. `SettingsFile` is the promise: whole saves of one change
each, applied to what the file says at that time. Its `SaveOverEdit` admits the one
exception, an edit by hand between read and replace, which the save takes back.

### TargetDetection, BandRanking, WsjtxProtocol

Data only. A message is its sender, its form and its words, for the forms WSJT-X sends:
conventional, unusual (the code finds no sender, or none that is a station), and misleading
(contest messages with `TU;` and free text, where the second word is not the sender). A
reception report is the five things `rank_bands` looks at. A datagram is the whole message
of its sender and how many bytes of it arrive; a field is read as its own, out
of the bytes of another field, or gets its default. All texts of a datagram have one
length (0, which is also that of a null text, or 3).

## Runs

Passing:

| Run | Shows |
|---|---|
| BandSearch | every interleaving of buttons, timers, messages and the alignment worker: one alignment at a time, no "Aligning" without one, nothing alive when stopped, only enabled bands, the hold lasts until acknowledged, the search yields to transmit and comes back only when asked; refines AppState and VfoControl; every alignment ends in a handled result; a search that nobody ends visits every enabled band again and again, though WSJT-X keeps putting hops off by decoding |
| BandRotation | the set-valued choice of the next band is what the list code picks, for every plan, order of focus, current band and dial; each round visits each band once |
| RigBridge | what success and failure of an alignment mean, whatever OmniRig, the operator and exceptions do |
| MonitoringSession | one listener, no endpoint left after Stop, no Listening without a listener unless Start found the earlier one, told to stop, still alive (see Findings), at every interleaving of Start, Stop and the thread; a listener asked to stop ends, even if the join gave up and Start was selected again |
| PskPolling | one request at a time, none brought forward by anything but Stop, a new target or a new area (see Findings), no answer to an earlier question in use, the question asked again and again |
| Outputs | a notification reaches the account it was begun for and nobody else, rings once for an alarm but for lost answers, and is answered; what the buffer of the audit log keeps over failures, what a cut line costs, and in which order records reach the files; the configuration changes by whole saves (refines SettingsFile), and the session is what the next launch loads |
| Inputs | every version of Status is read as sent and no cut datagram shows a false frequency, transmit flag or text; the target is found when and only when it sends; the locator kept is the target's; the ranking is that of the reference, counts a receiver once, and more evidence never demotes a band |

Runs that TLC must find violated, each against a sentence of the documents or
of the program itself (quoted in `PROJECT.json`):

| Run | What the code does |
|---|---|
| DegradedDoesNotTune | the search timer does not look at the life cycle, and hops while WSJT-X is silent |
| SearchStartsOnLiveStatus | Stop keeps the dial frequency, so that after Start a search may begin before any Status has come |
| CloseWaitsForAlignment | the alignment flag is read before the close question; the search timer runs on beneath it |
| QueriedNoMoreOften | Stop, a new target and a new area reset the time of the next request, so that it begins before the interval is over |
| StaleEventsDiscarded | a late `receiver_started` of the session before turns Starting into Listening, though Start has begun no listener |

None of these moves a VFO in transmit: the bridge checks the radio itself
(`FreshMoves`) before every forward move.

### Bounds, and why they are enough

* Two bands, one band outside the plan and three focus lists in `BandSearch`: enough for a
  band that is enabled, disabled, current, focused and stale, for "the next band
  is the same one" and for "another one". Three bands in
  `BandRotation`, so that a rotation that skips or sticks is seen. `Dwell` ends after two
  rounds, which contain a full round from any start.
* `Frequencies` = 0, 1, 7 with target 0 and tolerance 1: on target, within the
  tolerance, off it. `MaxPending` = 1: one write an earlier alignment left behind.
  The queue itself is bounded by the script (at most four writes).
* `MaxSessions` = 3: a session, one that overlaps it, and one after
  both. `MaxEvents` = 3: no datagram is taken while three events wait; the other events
  are not bounded by it.
* `Interval` = 3 ticks in `PskPolling`, two targets and two areas: room for changes and for a late
  answer within one interval.
* Each behaviour of `Outputs` is about one of its three modules (`part`), which do not meet.
* `MaxSends` = 2: two notifications of one alarm, of two alarms, or one of them a test.
* `MaxBuffered` = 2, `MaxRecords` = 5, `MaxDays` = 2 for `EventLog`: the buffer overflows, and a
  write that was cut is followed by one on the same day and one on the next.
* `MaxEdits` = 1 for `ConfigStore`, two settings, a standard band and another: an edit before, during
  and after a save.
* Three stations in `Inputs`, of which one has a call of the form of a locator; lists of up to three
  reports out of those on either side of each limit of `rank_bands`.
* The proofs have none of these bounds on the size of sets, queues and buffers.

Deadlock is checked in every run but `Inputs`, which ends when there is nothing more to
read; `Closed` is the one state in which BandSearch stops.

### Fairness

`SearchTick`, `CheckTimeout`: each timer re-arms itself in a `finally`.
`HandleTuneResult`, `PollEvent`: the queue is drained every 100 ms. `DwellElapses`,
`PacketAges`: time passes. `AlignReturns`: `subprocess.run` ends within 12 s and
the worker reports every exception. `Joined`: the join has a limit of 2 s. `Thread(s)`: threads run, and
`recvfrom` has a timeout of 0.5 s. In `PskPolling` the poll timer and the polling of the queue
re-arm themselves, and a request ends by its timeout, the worker reporting whatever it raises;
in `MobileAlerts` a push ends by its timeout and the sleeps by themselves, so that each `Thread(i)`
goes on, and results are handled. `PollsGoOn` asks that the
operator leaves the question alone from some point on.

All of it is weak fairness but one: `SearchTick` is strongly fair. A hop is put off while WSJT-X
decodes, which it does every period; the pause between two decodings lasts for seconds, and the
timer looks every 250 ms, so that a hop that becomes possible again and again is made. Weak
fairness would let every tick fall into a decoding. Nothing is assumed of the operator, of WSJT-X
or of the radio; what `RoundRobin` needs of them is its premise: from some point on nothing ends
the search (no button, target, transmission or failure), no focus is in use and "Monitor selected band" is left
alone, and WSJT-X is, again and again, not decoding. If its decoding flag stays up for ever, because WSJT-X
went silent while decoding, the search does stand still.

## Proofs

`tlapm` checks eight modules. Every invariant and action property of a passing run is a
theorem there, for every value of the constants that the named assumptions admit, and so are the three
refinements. Left to TLC alone is liveness (`AlignmentSettles`, `RoundRobin`, `ListenerStops`,
`PollsGoOn`, `EachIsAnswered`), which needs fairness and ENABLED. The type invariants
`TypeOK` (`LogTypeOK`, `AlertTypeOK`) are the other way round: proved for every instance (`TypeCorrect`) rather than run.

What the code computes in a loop is a recursive function on `0 .. N` in the models, and the
proofs about it follow one scheme. The induction theorems of the library take an operator and cannot be
used; instead the set of the numbers for which a statement holds is shown to be all of `Nat`
(`SetInduction`, from the well-foundedness of `<`). A recursive function is a CHOOSE, so that it says
nothing until one is shown to exist; that is the first lemma about each of them (`KeptUnfolds`,
`Recursion`, `EndsUnfold`, `SumExists`). After that its values follow from one argument to the next.

**BandSearchProofs**, from `PlanAssumption` (the plan has no repetitions, focus
lists are lists of its bands, the empty one is among them) and
`NamesAssumption` (the special names are different from the bands):
`TypeCorrect`; one theorem for each safety invariant (`SingleAlignment`, `AligningIsReal`,
`StopIsQuiet`, `TunesEnabledBands`, `TargetHolds`, `TransmitExcludesSearch`); `HeldUntilResumed`
(`ResumeIsExplicit`), `LifeCycleImplemented` and `OwnershipImplemented` (every step
of BandSearch is a step or a stutter of AppState and of VfoControl). The safety
invariants are not inductive one by one: that an alignment is only for an enabled band
needs that bands are edited only when Stopped and that Stopped has no alignment;
that needs Stop to be disabled during an alignment, and `OneAlignment` to make
the flag say so. Their conjunction with the type invariant is what is
carried through every action.

The second half is about `BandRotation`, from `FocusAssumption` (a ranking has each band once, as the
one of `RankedRanks` below has): `SetsChooseAsLists` and `RoundVisitsEveryBand`. The lists of the code
are the plan, or the focus, without the disabled bands and in the same order (`KeptProperties`), so that the least
place among the eligible bands is that of the band the code picks. For the round, `RotationInv` says of any two
dwells less than a round apart how far apart their bands are in the list; it
mentions no beginning, and therefore survives whatever band was current when the list changed.

**RigBridgeProofs**, from `FrequencyAssumption`: `TypeCorrect`, `VerifiedIsAligned`,
`TransmitMovesFirst`, `FailureRollsBack`, `MovesAreFresh`. The invariant `BridgeInv` adds to
the types `Undisturbed` (what is known of the VFOs at each step of the script as long as no
one else has interfered: `original` is `before`; a VFO not moved is where it was;
what the queue may still do to each VFO) and `Order` (where the script is when
a VFO is noted as moved or `fresh` holds). The rollback needs the queue in it: a write of the
forward part that is executed after the failure is followed in the queue by
the one that undoes it.

**MonitoringSessionProofs**, from `SessionAssumption`: `TypeCorrect`, `SingleListener`,
`StopIsClean`, `ListeningIsReal`. `ListenerInv` strengthens them by what
a clean Stop leaves behind (`StoppedIsQuiet`: no live thread, no endpoint and no Status), by
`StopIsTold` (the flag is up during the join, and while a thread lives on in Stopped) and by `DoomIsReported`: a thread that is to end, without having been told to, while the
dashboard does not know has its error on the way. `ListeningIsReal` has the exclusion of `ListeningIsHeard`: the
stop flag is up while Listening is shown only after a Start that found the earlier listener still alive.

**PskPollingProofs**, from `PollAssumption`: `TypeCorrect`, `SingleRequest`, `NoLateAnswer`,
`HurriedByOperator` (`OnlyTheOperatorHurries`). `OneRequest` and `FocusIsCurrent` carry themselves; the last
needs `Spacing`: as long as nobody resets the wait, it and the time since the last request make up the interval.
The sentence of the documents, without the exception, is false (`QueriedNoMoreOften`).

**MobileAlertsProofs**, from `AlertAssumption`: `TypeCorrect`, `ReachesTheAccount`, `RingsOnce`. The
invariant says of each notification how its stage bounds its attempts, and that until it
ends whatever reached the phone was taken for lost (`Fine`); that two of them share no alarm
(`SendsFine`); and that a result says what became of the notification it names (`ResultsTrue`).

**EventLogProofs**, from `LogAssumption`: `TypeCorrect`, `BufferLosesNothing`, `CutCostsOne`,
`FirstCopiesOrdered`. `Newest` is what makes it
inductive: the buffer holds the newest records in order, each since its own write failed, so that the one it
drops has seen as many failures as it can hold. `Accounted` is the balance of cut lines: a cut leaves a file that ends inside a line, a
record is lost only when such an end is written over, so the files with such an end
and the lost records together are never more than the cuts; without a cut there is neither
(`UncutIsWhole`). For the order, `OrderInv` says
that among the buffered records those already in a file are the oldest (`Filled`), because a
write that fails part of the way has put the first ones there; a first copy
then never comes after one of a later record.

**ConfigStoreProofs**, from `StoreAssumption`: `TypeCorrect`, `SessionMatchesFile`, `SavesImplementPromise`.
`SaveUnderWay` is what a save has in hand at each step unless the file was edited under it;
`SessionFollows` is what the session is, or will be once the save that has replaced the file is remembered.
The lemma under both is `LoadApply`: to load a changed file is to change the loaded one, also
where the file lacks the entry of a band.

**InputsProofs** has three parts.

*Target detection*, from `CallAssumption` (no station's call is a locator in use or another word of the
messages) and `GridAssumption` (no locator in use is one of those words): `FoundIsSent`, `SentIsFound` and
`GridIsTargets`, form by form. `GridInv` adds to the property that the target is a station.

*The ranking*, from `AgesAssumption` (ages are whole seconds), for lists of any number of reports:
`RepeatsIgnored`, `RankingIsEvidence`, `EvidenceKeepsRank`. After `n` reports the dictionary has each receiver
once on a band (`Dictionary`), something as new as every usable report (`Covers`), and nothing but reports that
count among the first `n` (`HoldsVotes`). The entries of a band and its `Votes` are thus in bijection, and what
they are worth is the same entry by entry; that their sums are the same is `SumSame`, which needs
that a sum does not depend on the order of the summands (`SumAny`) and does not fall when they
grow (`SumBelow`). `Sorted` is a CHOOSE, and `SortingExists` shows that there is a
sorting, each priority in the place behind those before it; `BeforeIsOrder` is why. For `EvidenceKeepsRank`
the dictionary gets one report more, or a newer one in place of another (`KeepShapes`): the score and the
number of receivers do not fall, and when that number stays, no tie break gets worse (`NoWorse`).

*Datagrams*, from `TextAssumption` (lengths are natural numbers): `PacketsAreSenders`, for texts of every length
and datagrams cut at every byte. The invariant over the fields read so far (`ReadRight`) is that the reader either
stands where the sender's next field begins, or has skipped a text and has fewer than four bytes left, in which case
no field of more than a byte can be read any more.

## Findings

The five violated runs above are listed in `PROJECT.json` under `findings`, with the
line of the code and the sentence it disagrees with. Two are bugs by the
program's own messages (SearchStartsOnLiveStatus, CloseWaitsForAlignment), the others
disagree with the documentation:

* DegradedDoesNotTune: see the table.
* QueriedNoMoreOften: `source/README.md:147-148` says that the service is "never queried more
  frequently than its requested five-minute interval" (`RELEASE_NOTES.md:271` says the same), and Stop,
  Change target and Apply set `pskr_next_poll` to 0 (`dashboard.py:402`, `676`, `702`). For Apply `source/README.md:126-128` asks
  for the fresh request; for Stop and Start nothing does. `OnlyTheOperatorHurries` is what remains true.
* StaleEventsDiscarded: a receiver event carries no session. When the join of Stop gives up on a thread that
  has not yet announced itself, Start finds it alive and returns (`receiver.py:32-33`), its late
  `receiver_started` shows Listening, and the thread then ends because it was told to, without an error.
  `ListeningIsHeard` leaves this case out. A Start from Error while the failed thread is
  still ending returns in the same way and stays at Starting.

The following are in the models and have no run:

* Acknowledge suppresses `search.current_band`, which is not the band of the hold when an alignment
  ended in between (`dashboard.py:421`; `RELEASE_NOTES.md:259`, "on that held band").
* The rollback reads receive once, writes B, waits 500 ms and writes A (`omnirig_bridge.ps1:88-90`;
  `OMNIRIG_COMPATIBILITY_STUDY.md:58`, "only while the rig still reports RX").
* The endpoint of the Configure request follows every packet, the mirrored Status only Status packets
  (`receiver.py:101`; `RELEASE_NOTES.md:293`, "endpoint that supplied Status").
* After a listener error and Start the Status of the failed session still counts for a Configure
  request (`dashboard.py:1450`; `README.md:170`, "a live receive-only Status").
* The pending Configure request is permitted by the Status just polled but mirrors the last one
  stored, which may report transmit by then.
* Split and routing are read once before both moves (`omnirig_bridge.ps1:64-65`); a change of them between the
  check and a move goes unseen. `FreshMoves` is about the reading of receive only.
* Free text and contest messages whose second word is the target's call are taken for the target's
  (`Misleading` in `TargetDetection`); `RR73` at the end of a decode of the target has the form of a
  locator and replaces the one that was kept.
* A Status cut inside a number is still read, and a flag after the cut is read out of the bytes
  left over. Whole datagrams of any version are not affected.
* An edit of the file by hand between the read and the replace of a save is lost; a first run that ends
  while it copies the template leaves a file that no later launch replaces.

`hazards` lists what the code is exposed to, with the
property that covers it or the reason why none does.

## Not modelled, and what is left to do

* `build_prepare_dx`: copies fields of the last Status behind a check of the call; no state.
* The limits of `band_for_frequency`, the frequencies of the plan, the dwell selection and the mute
  timer: data that no decision but the one they are for depends on.
* Validation of values in `load_config`: a file is a configuration or it is not.
* The rate limit of warnings about malformed packets, and the decode log (see EventLog).
* Window layout and texts (no state the program reads back other than the button states, which are
  guards in BandSearch), the crash report, paths and fonts of `app.py`, the simulator, the installer.

Left to do, by importance: properties for the divergences listed above that have no run; an event
queue that carries sessions, as a design to compare `MonitoringSession` with.
