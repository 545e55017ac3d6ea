------------------------------- MODULE EventLog -------------------------------
(***************************************************************************)
(* The daily audit log (logging.py), whose failed writes are kept in a     *)
(* bounded buffer and written again with the next record.  It is written   *)
(* by the Tk thread only.  The decode log keeps nothing: a row it cannot   *)
(* write is one audit record more (dashboard.py).                          *)
(*                                                                         *)
(* A write fails when the file cannot be opened or part of the way: some   *)
(* leading lines are in the file then, and perhaps a piece of the next     *)
(* one, which spoils the first line of the next write.  Audit records are  *)
(* numbered; a spoilt line is 0.                                           *)
(***************************************************************************)
EXTENDS Integers, Sequences, SequencesExt, FiniteSetsExt

CONSTANTS MaxBuffered,   \* maximum_buffered
          MaxRecords,    \* bound: audit records
          MaxDays        \* bound: days

ASSUME LogAssumption ==
  /\ MaxBuffered \in Nat \ {0} /\ MaxDays \in Nat \ {0}
  /\ MaxRecords \in Nat

VARIABLES
  day,          \* the date in the names of the files
  files,        \* the lines of each day's events file
  torn,         \* the days whose events file ends inside a line
  pending,      \* EventLogger.pending
  outcome,      \* history: how the write of each record ended
  first         \* history: the first record of this run of the program

event_vars == <<files, torn, pending, outcome>>
log_vars   == <<day, event_vars, first>>

Days    == 1 .. MaxDays
Records == 1 .. MaxRecords
Count   == Len(outcome)

LogTypeOK ==
  /\ day \in Days
  /\ files \in [Days -> Seq(Records \cup {0})]
  /\ torn \subseteq Days
  /\ pending \in Seq(Records) /\ Len(pending) <= MaxBuffered
  /\ outcome \in Seq({"ok", "failed", "torn"}) /\ Count <= MaxRecords
  /\ first \in 1 .. MaxRecords + 1

NothingLogged ==
  /\ day = 1 /\ files = [d \in Days |-> <<>>] /\ torn = {}
  /\ pending = <<>> /\ outcome = <<>> /\ first = 1

-----------------------------------------------------------------------------
(* EventLogger.write                                                       *)

\* What a line joined to a cut one becomes.
Joined(lines) == IF lines # <<>> /\ day \in torn THEN [lines EXCEPT ![1] = 0] ELSE lines
AppendLines(lines) == files' = [files EXCEPT ![day] = @ \o Joined(lines)]

OldestRecords(records) ==                                         \* mutant
  IF Len(records) <= MaxBuffered THEN records ELSE SubSeq(records, 1, MaxBuffered)
LastRecords(records) ==
  IF Len(records) <= MaxBuffered THEN records
  ELSE SubSeq(records, Len(records) - MaxBuffered + 1, Len(records))

\* mutant: the file is written newest first
WriteSucceedsReversed(records) ==
  /\ AppendLines(Reverse(records))
  /\ torn' = torn \ {day} /\ pending' = <<>> /\ outcome' = Append(outcome, "ok")

WriteSucceeds(records) ==
  /\ AppendLines(records)
  /\ torn' = torn \ {day}
  /\ pending' = <<>>
  /\ outcome' = Append(outcome, "ok")

\* mutant: what was begun in the file leaves the buffer
WriteFailsKeepingRest(records) == \E n \in 0 .. Len(records), cut \in BOOLEAN :
  /\ cut => n < Len(records)
  /\ AppendLines(SubSeq(records, 1, n))
  /\ torn' = IF cut THEN torn \cup {day} ELSE IF n = 0 THEN torn ELSE torn \ {day}
  /\ pending' = LastRecords(SubSeq(records, (IF cut THEN n + 2 ELSE n + 1), Len(records)))
  /\ outcome' = Append(outcome, IF cut THEN "torn" ELSE "failed")

WriteFails(records) == \E n \in 0 .. Len(records), cut \in BOOLEAN :
  /\ cut => n < Len(records)
  /\ AppendLines(SubSeq(records, 1, n))
  /\ torn' = IF cut THEN torn \cup {day} ELSE IF n = 0 THEN torn ELSE torn \ {day}
  /\ pending' = LastRecords(records)
  /\ outcome' = Append(outcome, IF cut THEN "torn" ELSE "failed")

WriteEvent ==
  /\ Count < MaxRecords
  /\ LET records == Append(pending, Count + 1)
     IN  WriteSucceeds(records) \/ WriteFails(records)

\* _audit
Audit == WriteEvent /\ UNCHANGED <<day, first>>

-----------------------------------------------------------------------------
Midnight ==
  /\ day < MaxDays /\ day' = day + 1
  /\ UNCHANGED <<event_vars, first>>

\* The program ends, orderly or not, and is started again: nothing flushes the
\* buffer.
Restart ==
  /\ first' = Count + 1 /\ pending' = <<>>
  /\ UNCHANGED <<day, files, torn, outcome>>

LogNext == Audit \/ Midnight \/ Restart
LogSpec == NothingLogged /\ [][LogNext]_log_vars

-----------------------------------------------------------------------------
(* What the buffer is for.                                                 *)

InFile(r) == \E d \in Days : \E i \in DOMAIN files[d] : files[d][i] = r
Buffered(r) == \E i \in DOMAIN pending : pending[i] = r

\* The write of the record and MaxBuffered writes after it all failed.
Outlived(r) == /\ r + MaxBuffered <= Count
               /\ \A j \in r .. r + MaxBuffered : outcome[j] # "ok"

Lost == {r \in first .. Count : ~InFile(r) /\ ~Buffered(r) /\ ~Outlived(r)}
Cuts == {j \in 1 .. Count : outcome[j] = "torn"}

\* As long as no write was cut inside a line, every record of this run of the
\* program is in a file or in the buffer, unless it was followed by as many
\* failures as the buffer holds (logging.py:61-72; "up to 250 audit records are
\* buffered in memory and flushed after writing recovers", source/README.md:97).
NothingLost == Cuts = {} => Lost = {}

\* A write that was cut inside a line costs at most one record: the first of the
\* next write shares its line (logging.py:65-69).
OneLostPerCut == Cardinality(Lost) <= Cardinality(Cuts)

\* The first copies of the records are in the files in the order in which they
\* were written, over any number of failures between lines, of repeated lines, of
\* records dropped by the buffer and of midnights (logging.py:61-72).
FirstCopiesInOrder ==
  Cuts = {} =>
    \A r, s \in {r \in 1 .. Count : InFile(r)} :
      r < s => \A d \in Days : \A i \in DOMAIN files[d] :
                 files[d][i] = s =>
                   \E e \in 1 .. d : \E j \in DOMAIN files[e] :
                     files[e][j] = r /\ (e = d => j < i)
=============================================================================
