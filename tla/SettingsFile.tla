----------------------------- MODULE SettingsFile -----------------------------
(***************************************************************************)
(* What the configuration promises ("Atomic configuration saves"): the     *)
(* file changes by whole saves only, each of which makes its own change to *)
(* what the file says at that time, and nothing else.                      *)
(***************************************************************************)
EXTENDS Integers

CONSTANTS Contents,                      \* what a readable file says
          Changes,
          Accepts(_, _), Apply(_, _),    \* of a content and a change
          Template, Absent, Unreadable

VARIABLES
  file,
  edits,     \* how often the file was changed by hand
  raced,     \* it was so during the present save
  copying    \* the first run is copying the template

Init ==
  /\ file \in Contents \cup {Absent, Unreadable}
  /\ edits = 0 /\ raced = FALSE /\ copying = FALSE

Save ==
  /\ file \in Contents /\ ~raced
  /\ \E change \in Changes : Accepts(file, change) /\ file' = Apply(file, change)
  /\ UNCHANGED <<edits, raced, copying>>

\* The one way in which a change is lost.
SaveOverEdit ==
  /\ raced /\ file' \in Contents
  /\ raced' = FALSE /\ UNCHANGED <<edits, copying>>

\* A save that was raced fails, or its process ends.
NothingSaved == raced /\ raced' = FALSE /\ UNCHANGED <<file, edits, copying>>

FirstRun ==
  /\ \/ file = Absent /\ file' = Unreadable /\ copying' = TRUE
     \/ copying /\ file' = Template /\ copying' = FALSE
     \/ copying /\ file' = file /\ copying' = FALSE             \* interrupted
  /\ UNCHANGED <<edits, raced>>

ByHand ==
  /\ file' \in Contents \cup {Absent, Unreadable}
  /\ edits' = edits + 1
  /\ UNCHANGED copying

Next == Save \/ SaveOverEdit \/ NothingSaved \/ FirstRun \/ ByHand
Spec == Init /\ [][Next]_<<file, edits, raced, copying>>
=============================================================================
