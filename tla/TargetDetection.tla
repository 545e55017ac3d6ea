---------------------------- MODULE TargetDetection ----------------------------
(***************************************************************************)
(* From the text of a decoded message to "target found" (engine.py), and   *)
(* to the locator that WSJT-X is then told (dashboard.py).                 *)
(*                                                                         *)
(* A message is who sent it, in which form, and its words as _tokens finds *)
(* them: without the brackets of hashed calls, without signs, and without  *)
(* the <...> of a call WSJT-X could not resolve.  The forms are WSJT-X's.  *)
(***************************************************************************)
EXTENDS Integers, Sequences, SequencesExt, FiniteSets

CONSTANTS Calls,           \* callsigns
          LocatorLikeCalls, \* those of the form of a six character locator, as OL30AA
          Locator(_)       \* the locator of a station

VARIABLES
  target_call,         \* engine.state.target_call
  latest_target_grid,  \* "" or a word
  last,                \* the last decode and what handle made of it
  sent                 \* history: the stations that have sent their locator

vars == <<target_call, latest_target_grid, last, sent>>

-----------------------------------------------------------------------------
(* The words of messages.                                                  *)

CQ_MODIFIERS == {"DX", "TEST"}         \* two of the thirteen of the code
Numbers == {"145", "73", "05", "579"}
Grids == {Locator(call) : call \in Calls}

\* No station has the call of a locator in use, nor of another word of the messages.
\* OL30AA, a call that has the form of a locator, is allowed.
ASSUME CallAssumption ==
  Calls \cap (Grids \cup CQ_MODIFIERS \cup Numbers \cup {"CQ", "JA", "R", "RR73", "none"}) = {}

\* The words below that are no calls do not have the form of a locator; RR73 has.
ASSUME GridAssumption ==
  Grids \cap (CQ_MODIFIERS \cup Numbers
              \cup {"CQ", "QRZ", "DE", "JA", "R", "TU", "MA", "TNX"}) = {}

LooksLikeCall(word) == word \in Calls \cup Grids \cup {"RR73"}
LooksLikeLocator(word) == word \in Grids \cup LocatorLikeCalls \cup {"RR73"}

Message(form, from, words) == [form |-> form, from |-> from, words |-> words]

Reports == {<<"05">>, <<"R", "05">>, <<"RR73">>, <<"73">>}

\* The forms transmitting_call documents, and that WSJT-X sends most.
BareCq     == {Message("cq", f, <<"CQ", f>>) : f \in Calls}
LocatedCq  == {Message("cq", f, <<"CQ", f, Locator(f)>>) : f \in Calls}
ModifiedCq == {Message("cq", f, <<"CQ", modifier, f, Locator(f)>>) :
                 f \in Calls, modifier \in {"DX", "145"}}
Prefixed   == {Message("call", f, <<prefix, f>>) : f \in Calls, prefix \in {"QRZ", "DE"}}
Answers    == {Message("directed", f, <<to, f, Locator(f)>>) : f \in Calls, to \in Calls}
Directed   == {Message("directed", f, <<to, f>> \o report) :
                 f \in Calls, to \in Calls, report \in Reports}
Conventional == BareCq \cup LocatedCq \cup ModifiedCq \cup Prefixed \cup Answers \cup Directed

\* A modifier the code does not know, a call that is not resolved, a Fox that
\* answers two Hounds at once.
RegionalCq == {Message("regional", f, <<"CQ", "JA", f, Locator(f)>>) : f \in Calls}
Unresolved == {Message("unresolved", f, <<call, Locator(f)>>) : f \in Calls, call \in Calls}
HalfHeard  == {Message("unresolved", f, <<call>> \o report) :
                 f \in Calls, call \in Calls, report \in Reports}
Foxes      == {Message("fox", f, <<to, "RR73", other, f, "05">>) :
                 f \in Calls, to \in Calls, other \in Calls}
Unusual == RegionalCq \cup Unresolved \cup HalfHeard \cup Foxes

\* The sender is not the second word of these, or not in them at all.
Misleading ==
  {Message("contest", f, <<"TU", to, f, "R", "579", "MA">>) : f, to \in Calls}
  \cup {Message("text", f, <<"TNX", about, "73">>) : f, about \in Calls}

Messages == Conventional \cup Unusual \cup Misleading
NoMessage == Message("none", "", <<>>)

-----------------------------------------------------------------------------
(* engine.py                                                               *)

\* Where the sender stands.
AlwaysSecond(words) == 2                                          \* mutant
SenderPlace(words) ==
  IF words[1] = "CQ" /\ Len(words) > 2 /\ words[2] \in CQ_MODIFIERS \cup Numbers
  THEN 3 ELSE 2

transmitting_call(words) ==
  IF Len(words) >= 2 /\ LooksLikeCall(words[SenderPlace(words)])
  THEN words[SenderPlace(words)] ELSE "none"

\* target_found of DXEngine.handle.
AnyWord(words, target) == Contains(words, target)                 \* mutant
TargetFound(words, target) == transmitting_call(words) = target

\* The last word that has the form of a locator.
transmitting_grid(words) ==
  LET place == SelectLastInSeq(words, LooksLikeLocator)
  IN  IF place = 0 THEN "" ELSE words[place]

-----------------------------------------------------------------------------
(* dashboard.py                                                            *)

Init ==
  /\ target_call \in Calls
  /\ latest_target_grid = "" /\ last = [message |-> NoMessage, found |-> FALSE]
  /\ sent = {}

\* A decode; one that WSJT-X only replays is not looked at.
HandleDecode ==
  \E message \in Messages :
    LET found == TargetFound(message.words, target_call)
        grid  == transmitting_grid(message.words)
    IN  /\ last' = [message |-> message, found |-> found]
        /\ latest_target_grid' = IF found /\ grid # "" THEN grid ELSE latest_target_grid
        /\ sent' = IF Contains(message.words, Locator(message.from))
                    THEN sent \cup {message.from} ELSE sent
        /\ UNCHANGED target_call

KeepLocator(call) == target_call' = call /\ UNCHANGED latest_target_grid   \* mutant
NewTarget(call)   == target_call' = call /\ latest_target_grid' = ""

ChangeTarget ==
  /\ \E call \in Calls : NewTarget(call)
  /\ UNCHANGED <<last, sent>>

Next == HandleDecode \/ ChangeTarget
Spec == Init /\ [][Next]_vars

-----------------------------------------------------------------------------
\* A message is taken for the target's only if the target sent it, in every form
\* that names its sender in its second place or after a CQ: never for being called,
\* mentioned after another sender, or standing beside an unresolved call
\* (engine.py:24-43, 106).
FoundMeansSent ==
  [][last'.found /\ last'.message \notin Misleading => last'.message.from = target_call]_last

\* What the target sends in a conventional form is found (engine.py:36-43).
SentMeansFound ==
  [][last'.message \in Conventional => (last'.message.from = target_call) = last'.found]_last

\* The locator WSJT-X is told with the target is one the target itself has sent, or
\* a word that only looks like one (RR73, OL30AA): never that of an earlier target
\* or of the station the target works (dashboard.py:673, 717, 1369; engine.py:46-48).
LocatorIsTargets ==
  \/ latest_target_grid \in {"", "RR73"} \cup LocatorLikeCalls
  \/ latest_target_grid = Locator(target_call) /\ target_call \in sent
=============================================================================
