---------------------------- MODULE EventLogProofs ----------------------------
(***************************************************************************)
(* Proofs about EventLog, for every size of the buffer and every number of *)
(* records and days: types, and that the buffer loses nothing.             *)
(***************************************************************************)
EXTENDS EventLog, SequenceTheorems, FiniteSetTheorems, TLAPS

-----------------------------------------------------------------------------
(* What a write does, wherever it fails.                                   *)

\* The slice pending[-maximum_buffered:] (logging.py:69).
LEMMA LastRecordsProperties ==
  ASSUME NEW S, NEW records \in Seq(S)
  PROVE  LET last == LastRecords(records)
         IN  /\ last \in Seq(S)
             /\ Len(last) = IF Len(records) <= MaxBuffered THEN Len(records) ELSE MaxBuffered
             /\ \A i \in 1 .. Len(last) : last[i] = records[Len(records) - Len(last) + i]
<1>0. MaxBuffered \in Nat /\ MaxBuffered > 0 /\ Len(records) \in Nat
  BY LogAssumption, LenProperties DEF LogAssumption
<1>1. CASE Len(records) <= MaxBuffered
  BY <1>0, <1>1 DEF LastRecords
<1>2. CASE ~(Len(records) <= MaxBuffered)
  <2> DEFINE low == Len(records) - MaxBuffered + 1
  <2>1. low \in Int /\ Len(records) \in Int /\ low <= Len(records) /\ low >= 1
    BY <1>0, <1>2
  <2>2. \A i \in low .. Len(records) : records[i] \in S
    BY <2>1, <1>0, ElementOfSeq
  <2>3. LastRecords(records) = SubSeq(records, low, Len(records))
    BY <1>2 DEF LastRecords
  <2> HIDE DEF low
  <2>4. /\ SubSeq(records, low, Len(records)) \in Seq(S)
        /\ Len(SubSeq(records, low, Len(records))) = Len(records) - low + 1
        /\ \A i \in 1 .. Len(records) - low + 1 :
             SubSeq(records, low, Len(records))[i] = records[low + i - 1]
    BY <2>1, <2>2, SubSeqProperties
  <2> QED BY <1>0, <1>2, <2>3, <2>4 DEF low
<1> QED BY <1>1, <1>2

\* Where a record stands: day, line and record.
Place(d, i, r) == d \in Days /\ i \in DOMAIN files[d] /\ files[d][i] = r

\* A record is in the files if it has a place in one.
LEMMA InFileIsPlace ==
  ASSUME NEW r
  PROVE  /\ InFile(r) <=> \E d, i : Place(d, i, r)
         /\ InFile(r)' <=> \E d, i : Place(d, i, r)'
BY DEF InFile, Place

\* The step added the lines new at the end of today's file, and nothing else: the
\* records as they are, but for the first when the file ended inside a line.
WrittenAs(new, records) ==
  /\ new \in Seq(Records \cup {0}) /\ Len(new) <= Len(records)
  /\ \A k \in 1 .. Len(new) : new[k] = records[k] \/ (new[k] = 0 /\ k = 1 /\ day \in torn)
  /\ \A d, i, r : Place(d, i, r)' <=>
       \/ Place(d, i, r)
       \/ d = day /\ \E k \in 1 .. Len(new) : i = Len(files[day]) + k /\ r = new[k]

\* Lines are only added to a file, and after a whole line each is added as it is
\* (logging.py:65-67).
LEMMA AppendedLines ==
  ASSUME LogTypeOK, NEW lines \in Seq(Records), AppendLines(lines)
  PROVE  /\ files' \in [Days -> Seq(Records \cup {0})]
         /\ Len(Joined(lines)) = Len(lines)
         /\ WrittenAs(Joined(lines), lines)
<1> DEFINE Lines == Records \cup {0}
           old == files[day]
           new == Joined(lines)
<1>1. day \in Days /\ files \in [Days -> Seq(Lines)] /\ old \in Seq(Lines)
  BY DEF LogTypeOK
<1>2. lines \in Seq(Lines) /\ Len(lines) \in Nat
  BY SeqMonotonic, LenProperties
<1>3. /\ new \in Seq(Lines) /\ Len(new) = Len(lines)
      /\ \A k \in 1 .. Len(new) : new[k] = lines[k] \/ (new[k] = 0 /\ k = 1 /\ day \in torn)
  <2>1. CASE lines # <<>> /\ day \in torn
    <3>1. 1 \in 1 .. Len(lines)
      BY <1>2, <2>1, EmptySeq
    <3>2. /\ [lines EXCEPT ![1] = 0] \in Seq(Lines)
          /\ Len([lines EXCEPT ![1] = 0]) = Len(lines)
          /\ \A k \in 1 .. Len(lines) :
               [lines EXCEPT ![1] = 0][k] = IF k = 1 THEN 0 ELSE lines[k]
      BY <1>2, <3>1, ExceptSeq
    <3>3. new = [lines EXCEPT ![1] = 0]
      BY <2>1 DEF Joined
    <3> QED BY <2>1, <3>2, <3>3
  <2>2. CASE ~(lines # <<>> /\ day \in torn)
    BY <1>2, <2>2 DEF Joined
  <2> QED BY <2>1, <2>2
<1>4. files' = [files EXCEPT ![day] = old \o new]
  BY DEF AppendLines
<1> HIDE DEF old, new, Lines
<1>5. /\ old \o new \in Seq(Lines)
      /\ Len(old \o new) = Len(old) + Len(new) /\ Len(old) \in Nat /\ Len(new) \in Nat
      /\ \A i \in 1 .. Len(old) + Len(new) :
           (old \o new)[i] = IF i <= Len(old) THEN old[i] ELSE new[i - Len(old)]
      /\ DOMAIN old = 1 .. Len(old) /\ DOMAIN (old \o new) = 1 .. Len(old) + Len(new)
  <2>1. /\ old \o new \in Seq(Lines) /\ Len(old \o new) = Len(old) + Len(new)
        /\ \A i \in 1 .. Len(old) + Len(new) :
             (old \o new)[i] = IF i <= Len(old) THEN old[i] ELSE new[i - Len(old)]
    BY <1>1, <1>3, ConcatProperties
  <2>2. /\ Len(old) \in Nat /\ Len(new) \in Nat /\ DOMAIN old = 1 .. Len(old)
        /\ DOMAIN (old \o new) = 1 .. Len(old \o new)
    BY <1>1, <1>3, <2>1, LenProperties
  <2> QED BY <2>1, <2>2
<1>6. files' \in [Days -> Seq(Lines)] /\ files'[day] = old \o new
  BY <1>1, <1>4, <1>5
<1>7. ASSUME NEW d, NEW i, NEW r
      PROVE  Place(d, i, r)' <=>
               \/ Place(d, i, r)
               \/ d = day /\ \E k \in 1 .. Len(new) : i = Len(old) + k /\ r = new[k]
  <2>1. CASE d # day
    <3>1. d \in Days => files'[d] = files[d]
      BY <1>1, <1>4, <2>1
    <3> QED BY <2>1, <3>1 DEF Place
  <2>2. CASE d = day
    <3>1. Place(d, i, r) <=> i \in 1 .. Len(old) /\ old[i] = r
      BY <1>1, <1>5, <2>2 DEF Place, old
    <3>2. Place(d, i, r)' <=> i \in 1 .. Len(old) + Len(new) /\ (old \o new)[i] = r
      BY <1>1, <1>5, <1>6, <2>2 DEF Place
    <3>3. ASSUME i \in 1 .. Len(old) + Len(new)
          PROVE  (old \o new)[i] = r
                   <=> \/ i \in 1 .. Len(old) /\ old[i] = r
                       \/ \E k \in 1 .. Len(new) : i = Len(old) + k /\ r = new[k]
      <4>1. CASE i <= Len(old)
        BY <1>5, <3>3, <4>1
      <4>2. CASE ~(i <= Len(old))
        <5>1. i - Len(old) \in 1 .. Len(new) /\ i = Len(old) + (i - Len(old))
          BY <1>5, <3>3, <4>2
        <5>2. (old \o new)[i] = new[i - Len(old)]
          BY <1>5, <3>3, <4>2
        <5>3. \A k \in 1 .. Len(new) : i = Len(old) + k => k = i - Len(old)
          BY <1>5, <3>3
        <5> QED BY <4>2, <5>1, <5>2, <5>3
      <4> QED BY <4>1, <4>2
    <3>4. \A k \in 1 .. Len(new) : Len(old) + k \in 1 .. Len(old) + Len(new)
      BY <1>5
    <3>5. i \in 1 .. Len(old) => i \in 1 .. Len(old) + Len(new)
      BY <1>5
    <3> QED BY <2>2, <3>1, <3>2, <3>3, <3>4, <3>5
  <2> QED BY <2>1, <2>2
<1>8. Len(new) <= Len(lines)
  BY <1>2, <1>3
<1>9. WrittenAs(new, lines)
  BY <1>3, <1>7, <1>8 DEF WrittenAs, Lines, old
<1> QED BY <1>3, <1>6, <1>9 DEF Lines, new

\* EventLogger.write puts the first lines in the file, then either empties the buffer
\* or keeps the newest records; only a write that fails leaves a cut line, and the
\* next one to that file ends it (logging.py:61-74).
LEMMA WriteEffect ==
  ASSUME LogTypeOK, WriteEvent
  PROVE  LET records == Append(pending, Count + 1)
         IN  /\ records \in Seq(Records) /\ Len(records) = Len(pending) + 1
             /\ files' \in [Days -> Seq(Records \cup {0})] /\ torn' \subseteq Days
             /\ pending' \in Seq(Records) /\ Len(pending') <= MaxBuffered
             /\ outcome' \in Seq({"ok", "failed", "torn"})
             /\ Count' = Count + 1 /\ Count' <= MaxRecords
             /\ \A j \in 1 .. Count : outcome'[j] = outcome[j]
             /\ \E new : /\ WrittenAs(new, records)
                         /\ outcome'[Count + 1] = "ok" => Len(new) = Len(records)
             /\ \/ /\ outcome'[Count + 1] = "ok"
                   /\ pending' = <<>> /\ torn' = torn \ {day}
                \/ /\ outcome'[Count + 1] = "failed"
                   /\ pending' = LastRecords(records) /\ torn' \subseteq torn
                \/ /\ outcome'[Count + 1] = "torn"
                   /\ pending' = LastRecords(records) /\ torn' = torn \cup {day}
<1> DEFINE records == Append(pending, Count + 1)
           Outcomes == {"ok", "failed", "torn"}
<1>0. MaxRecords \in Nat /\ MaxBuffered \in Nat /\ MaxBuffered > 0
  BY LogAssumption DEF LogAssumption
<1>1. /\ pending \in Seq(Records) /\ outcome \in Seq(Outcomes) /\ Count \in Nat
      /\ Len(pending) \in Nat /\ torn \subseteq Days /\ day \in Days
  BY LenProperties DEF LogTypeOK, Count
<1>2. Count + 1 \in Records /\ Count < MaxRecords
  BY <1>0, <1>1 DEF WriteEvent, Records
<1>3. records \in Seq(Records) /\ Len(records) = Len(pending) + 1
  BY <1>1, <1>2, AppendProperties
<1>4. WriteSucceeds(records) \/ WriteFails(records)
  BY DEF WriteEvent
<1> HIDE DEF records
<1>5. ASSUME NEW word \in Outcomes, outcome' = Append(outcome, word)
      PROVE  /\ outcome' \in Seq(Outcomes)
             /\ Count' = Count + 1 /\ Count' <= MaxRecords
             /\ outcome'[Count + 1] = word
             /\ \A j \in 1 .. Count : outcome'[j] = outcome[j]
  <2>1. /\ Append(outcome, word) \in Seq(Outcomes)
        /\ Len(Append(outcome, word)) = Len(outcome) + 1
        /\ \A j \in 1 .. Len(outcome) : Append(outcome, word)[j] = outcome[j]
        /\ Append(outcome, word)[Len(outcome) + 1] = word
    BY <1>1, AppendProperties
  <2> QED BY <1>0, <1>1, <1>2, <1>5, <2>1 DEF Count
<1>6. CASE WriteSucceeds(records)
  <2>1. AppendLines(records) /\ torn' = torn \ {day} /\ pending' = <<>>
           /\ outcome' = Append(outcome, "ok")
    BY <1>6 DEF WriteSucceeds
  <2>2. /\ files' \in [Days -> Seq(Records \cup {0})]
        /\ WrittenAs(Joined(records), records) /\ Len(Joined(records)) = Len(records)
    BY <1>3, <2>1, AppendedLines
  <2>3. pending' \in Seq(Records) /\ Len(pending') <= MaxBuffered
    BY <1>0, <2>1, EmptySeq
  <2>4. torn' \subseteq Days
    BY <1>1, <2>1
  <2> QED BY <1>3, <1>5, <2>1, <2>2, <2>3, <2>4 DEF records
<1>7. CASE WriteFails(records)
  <2>1. PICK n \in 0 .. Len(records), cut \in BOOLEAN :
          /\ AppendLines(SubSeq(records, 1, n))
          /\ torn' = IF cut THEN torn \cup {day} ELSE IF n = 0 THEN torn ELSE torn \ {day}
          /\ pending' = LastRecords(records)
          /\ outcome' = Append(outcome, IF cut THEN "torn" ELSE "failed")
    BY <1>7 DEF WriteFails
  <2> DEFINE lines == SubSeq(records, 1, n)
  <2>2. /\ lines \in Seq(Records) /\ Len(lines) = n /\ n <= Len(records) /\ n \in Nat
        /\ \A k \in 1 .. n : lines[k] = records[k]
    <3>1. \A i \in 1 .. n : records[i] \in Records
      BY <1>1, <1>3, ElementOfSeq
    <3>2. n \in Nat /\ n <= Len(records)
      BY <1>1, <1>3
    <3> QED BY <3>1, <3>2, SubSeqProperties
  <2> HIDE DEF lines
  <2>3. files' \in [Days -> Seq(Records \cup {0})]
           /\ Len(Joined(lines)) = n /\ WrittenAs(Joined(lines), lines)
    BY <2>1, <2>2, AppendedLines DEF lines
  <2>4. WrittenAs(Joined(lines), records)
    BY <2>2, <2>3 DEF WrittenAs
  <2>5. pending' \in Seq(Records) /\ Len(pending') <= MaxBuffered
    BY <1>0, <1>1, <1>3, <2>1, LastRecordsProperties
  <2>6. torn' \subseteq Days
    BY <1>1, <2>1
  <2>7. CASE cut
    <3>1. outcome' = Append(outcome, "torn")
      BY <2>1, <2>7
    <3>2. /\ outcome' \in Seq(Outcomes) /\ Count' = Count + 1 /\ Count' <= MaxRecords
          /\ outcome'[Count + 1] = "torn" /\ \A j \in 1 .. Count : outcome'[j] = outcome[j]
      BY <1>5, <3>1
    <3> QED BY <1>3, <2>1, <2>3, <2>4, <2>5, <2>6, <2>7, <3>2 DEF records
  <2>8. CASE ~cut
    <3>1. torn' \subseteq torn
      BY <2>1, <2>8
    <3>2. outcome' = Append(outcome, "failed")
      BY <2>1, <2>8
    <3>3. /\ outcome' \in Seq(Outcomes) /\ Count' = Count + 1 /\ Count' <= MaxRecords
          /\ outcome'[Count + 1] = "failed" /\ \A j \in 1 .. Count : outcome'[j] = outcome[j]
      BY <1>5, <3>2
    <3> QED BY <1>3, <2>1, <2>3, <2>4, <2>5, <2>6, <3>1, <3>3 DEF records
  <2> QED BY <2>7, <2>8
<1> QED BY <1>4, <1>6, <1>7

-----------------------------------------------------------------------------
\* Every reachable state is well typed; in particular the buffer keeps its bound
\* (logging.py:45-74).
THEOREM TypeCorrect == LogSpec => []LogTypeOK
<1> USE DEF event_vars
<1>0. /\ MaxBuffered \in Nat \ {0} /\ MaxDays \in Nat \ {0}
      /\ MaxRecords \in Nat
  BY LogAssumption DEF LogAssumption
<1>1. NothingLogged => LogTypeOK
  <2> SUFFICES ASSUME NothingLogged PROVE LogTypeOK
    OBVIOUS
  <2>1. /\ pending \in Seq(Records) /\ Len(pending) = 0
        /\ outcome \in Seq({"ok", "failed", "torn"}) /\ Len(outcome) = 0
    BY EmptySeq DEF NothingLogged
  <2>2. files \in [Days -> Seq(Records \cup {0})]
    BY EmptySeq DEF NothingLogged
  <2>3. day \in Days /\ first \in 1 .. MaxRecords + 1
    BY <1>0 DEF NothingLogged, Days
  <2> QED BY <1>0, <2>1, <2>2, <2>3 DEF NothingLogged, LogTypeOK, Count
<1>2. LogTypeOK /\ [LogNext]_log_vars => LogTypeOK'
  <2> SUFFICES ASSUME LogTypeOK, [LogNext]_log_vars PROVE LogTypeOK'
    OBVIOUS
  <2>0. Count \in Nat /\ day \in Days
    BY LenProperties DEF LogTypeOK, Count
  <2>1. CASE Audit
    BY <2>1, WriteEffect DEF Audit, LogTypeOK
  <2>2. CASE Midnight
    <3>1. day' \in Days
      BY <1>0, <2>0, <2>2 DEF Midnight, Days
    <3> QED BY <2>2, <3>1 DEF Midnight, LogTypeOK, Count
  <2>3. CASE Restart
    <3>1. first' \in 1 .. MaxRecords + 1
      BY <1>0, <2>0, <2>3 DEF Restart, LogTypeOK
    <3>2. pending' \in Seq(Records) /\ Len(pending') <= MaxBuffered
      BY <1>0, <2>3, EmptySeq DEF Restart
    <3> QED BY <2>3, <3>1, <3>2 DEF Restart, LogTypeOK, Count
  <2>4. CASE UNCHANGED log_vars
    BY <2>4 DEF log_vars, LogTypeOK, Count
  <2> QED BY <2>1, <2>2, <2>3, <2>4 DEF LogNext
<1> QED BY <1>1, <1>2, PTL DEF LogSpec

-----------------------------------------------------------------------------
(* The buffer holds the newest records in order, each since its own write  *)
(* failed, so that the one it drops has seen as many failures as it can    *)
(* hold.                                                                   *)

Newest ==
  /\ Len(pending) <= Count
  /\ \A i \in 1 .. Len(pending) : pending[i] = Count - Len(pending) + i
  /\ \A j \in Count - Len(pending) + 1 .. Count : outcome[j] # "ok"

\* What the sequence numbers of the buffered records are, in any state.
LEMMA BufferedIsNewest ==
  ASSUME LogTypeOK, Newest
  PROVE  \A r : Buffered(r) <=> r \in Count - Len(pending) + 1 .. Count
<1> SUFFICES ASSUME NEW r
             PROVE  Buffered(r) <=> r \in Count - Len(pending) + 1 .. Count
  OBVIOUS
<1>1. Count \in Nat /\ Len(pending) \in Nat /\ DOMAIN pending = 1 .. Len(pending)
  BY LenProperties DEF LogTypeOK, Count
<1>2. ASSUME Buffered(r) PROVE r \in Count - Len(pending) + 1 .. Count
  <2>1. PICK i \in 1 .. Len(pending) : pending[i] = r
    BY <1>1, <1>2 DEF Buffered
  <2> QED BY <1>1, <2>1 DEF Newest
<1>3. ASSUME r \in Count - Len(pending) + 1 .. Count PROVE Buffered(r)
  <2> DEFINE i == r - (Count - Len(pending))
  <2>1. i \in 1 .. Len(pending) /\ r = Count - Len(pending) + i
    BY <1>1, <1>3
  <2>2. pending[i] = r
    BY <2>1 DEF Newest
  <2> HIDE DEF i
  <2> QED BY <1>1, <2>1, <2>2 DEF Buffered
<1> QED BY <1>2, <1>3

\* A write keeps the newest records; what it drops has outlived its chances.
LEMMA NewestKept ==
  ASSUME LogTypeOK, LogTypeOK', Newest, WriteEvent
  PROVE  /\ \A k \in 1 .. Len(pending) + 1 :
              Append(pending, Count + 1)[k] = Count - Len(pending) + k
         /\ Newest' /\ Count' - Len(pending') >= Count - Len(pending)
         /\ \A r \in 1 .. Count : Outlived(r) => Outlived(r)'
         /\ outcome'[Count + 1] # "ok" =>
              \A r \in Count - Len(pending) + 1 .. Count + 1 : Buffered(r)' \/ Outlived(r)'
<1> DEFINE records == Append(pending, Count + 1)
           kept == Len(pending')
<1>0. /\ Count \in Nat /\ Len(pending) \in Nat /\ Len(pending) <= Count
      /\ pending \in Seq(Records) /\ Len(pending) <= MaxBuffered
      /\ MaxBuffered \in Nat /\ MaxBuffered > 0 /\ kept \in Nat
  BY LenProperties, LogAssumption DEF LogTypeOK, Count, Newest, LogAssumption
<1>1. /\ records \in Seq(Records) /\ Len(records) = Len(pending) + 1
      /\ Count' = Count + 1 /\ \A j \in 1 .. Count : outcome'[j] = outcome[j]
      /\ \/ outcome'[Count + 1] = "ok" /\ pending' = <<>>
         \/ outcome'[Count + 1] # "ok" /\ pending' = LastRecords(records)
  BY WriteEffect
<1>2. \A k \in 1 .. Len(pending) + 1 : records[k] = Count - Len(pending) + k
  <2>1. Count + 1 \in Records
    BY <1>0, LogAssumption DEF Records, WriteEvent, LogAssumption
  <2>2. /\ \A i \in 1 .. Len(pending) : records[i] = pending[i]
        /\ records[Len(pending) + 1] = Count + 1
    BY <1>0, <2>1, AppendProperties
  <2> HIDE DEF records
  <2> QED BY <1>0, <2>2 DEF Newest
<1> HIDE DEF records, kept
<1>3. \A r \in 1 .. Count : Outlived(r) => Outlived(r)'
  <2> SUFFICES ASSUME NEW r \in 1 .. Count, Outlived(r) PROVE Outlived(r)'
    OBVIOUS
  <2>1. r + MaxBuffered <= Count /\ \A j \in r .. r + MaxBuffered : outcome[j] # "ok"
    BY DEF Outlived
  <2>2. \A j \in r .. r + MaxBuffered : outcome'[j] # "ok"
    BY <1>0, <1>1, <2>1
  <2> QED BY <1>0, <1>1, <2>1, <2>2 DEF Outlived
<1>4. CASE outcome'[Count + 1] = "ok"
  <2>1. pending' = <<>> /\ kept = 0
    BY <1>1, <1>4, EmptySeq DEF kept
  <2>2. Newest' /\ Count' - Len(pending') >= Count - Len(pending)
    BY <1>0, <1>1, <2>1 DEF Newest, kept
  <2> QED BY <1>2, <1>3, <1>4, <2>2 DEF records
<1>5. CASE outcome'[Count + 1] # "ok"
  <2>1. /\ kept <= Len(pending) + 1 /\ kept <= MaxBuffered
        /\ kept = Len(pending) + 1 \/ kept = MaxBuffered
        /\ \A i \in 1 .. kept : pending'[i] = records[Len(pending) + 1 - kept + i]
    <3>1. pending' = LastRecords(records)
      BY <1>1, <1>5
    <3>2. /\ Len(LastRecords(records))
                = IF Len(records) <= MaxBuffered THEN Len(records) ELSE MaxBuffered
          /\ \A i \in 1 .. Len(LastRecords(records)) :
               LastRecords(records)[i] = records[Len(records) - Len(LastRecords(records)) + i]
      BY <1>1, LastRecordsProperties
    <3>3. \A i \in 1 .. kept : pending'[i] = records[Len(pending) + 1 - kept + i]
      BY <1>1, <3>1, <3>2 DEF kept
    <3>4. kept = IF Len(pending) + 1 <= MaxBuffered THEN Len(pending) + 1 ELSE MaxBuffered
      BY <1>1, <3>1, <3>2 DEF kept
    <3>5. /\ kept <= Len(pending) + 1 /\ kept <= MaxBuffered
          /\ (kept = Len(pending) + 1 \/ kept = MaxBuffered)
      BY <1>0, <3>4
    <3> QED BY <3>3, <3>5
  <2>2. \A i \in 1 .. kept : pending'[i] = Count + 1 - kept + i
    <3> SUFFICES ASSUME NEW i \in 1 .. kept PROVE pending'[i] = Count + 1 - kept + i
      OBVIOUS
    <3>1. Len(pending) + 1 - kept + i \in 1 .. Len(pending) + 1
      BY <1>0, <2>1
    <3>2. records[Len(pending) + 1 - kept + i]
            = Count - Len(pending) + (Len(pending) + 1 - kept + i)
      BY <1>2, <3>1
    <3> QED BY <1>0, <2>1, <3>2
  <2>3. \A j \in Count + 1 - Len(pending) .. Count + 1 : outcome'[j] # "ok"
    <3> SUFFICES ASSUME NEW j \in Count + 1 - Len(pending) .. Count + 1
                 PROVE  outcome'[j] # "ok"
      OBVIOUS
    <3>1. CASE j = Count + 1
      BY <1>5, <3>1
    <3>2. CASE j # Count + 1
      <4>1. j \in Count - Len(pending) + 1 .. Count /\ j \in 1 .. Count
        BY <1>0, <3>2
      <4> QED BY <1>1, <4>1 DEF Newest
    <3> QED BY <3>1, <3>2
  <2>4. Newest' /\ Count' - Len(pending') >= Count - Len(pending)
    <3>1. kept <= Count + 1 /\ Count + 1 - kept >= Count - Len(pending)
      BY <1>0, <2>1
    <3>2. \A j \in Count + 1 - kept + 1 .. Count + 1 : outcome'[j] # "ok"
      BY <1>0, <2>1, <2>3
    <3>3. /\ kept <= Count' /\ Count' - kept >= Count - Len(pending)
          /\ \A i \in 1 .. kept : pending'[i] = Count' - kept + i
          /\ \A j \in Count' - kept + 1 .. Count' : outcome'[j] # "ok"
      <4>1. Count' = Count + 1
        BY <1>1
      <4> QED BY <1>0, <2>2, <3>1, <3>2, <4>1
    <3> QED BY <3>3 DEF Newest, kept
  <2>5. ASSUME NEW r \in Count - Len(pending) + 1 .. Count + 1
        PROVE  Buffered(r)' \/ Outlived(r)'
    <3>1. CASE r > Count + 1 - kept
      <4> DEFINE i == r - (Count + 1 - kept)
      <4>1. i \in 1 .. kept /\ pending'[i] = r
        BY <1>0, <2>1, <2>2, <3>1
      <4>2. i \in DOMAIN pending'
        BY <4>1, LenProperties DEF kept, LogTypeOK
      <4> HIDE DEF i
      <4> QED BY <4>1, <4>2 DEF Buffered
    <3>2. CASE ~(r > Count + 1 - kept)
      <4>1. kept = MaxBuffered /\ Len(pending) = MaxBuffered /\ r = Count + 1 - MaxBuffered
        BY <1>0, <2>1, <3>2
      <4>2. \A j \in r .. r + MaxBuffered : outcome'[j] # "ok"
        BY <1>0, <2>3, <4>1
      <4> QED BY <1>0, <1>1, <4>1, <4>2 DEF Outlived
    <3> QED BY <3>1, <3>2
  <2> QED BY <1>2, <1>3, <2>4, <2>5 DEF records
<1> QED BY <1>4, <1>5

-----------------------------------------------------------------------------
(* What a cut line costs.  A cut leaves a file that ends inside a line, and *)
(* a record is lost only when such an end is closed: together the torn     *)
(* files and the lost records are never more than the cuts.                *)

Accounted == Cardinality(torn) + Cardinality(Lost) <= Cardinality(Cuts)

\* What is counted is finite.
LEMMA FiniteCounts ==
  ASSUME LogTypeOK
  PROVE  IsFiniteSet(torn) /\ IsFiniteSet(Lost) /\ IsFiniteSet(Cuts)
<1>1. Count \in Nat /\ MaxDays \in Nat /\ first \in Int
  BY LenProperties, LogAssumption DEF LogTypeOK, Count, LogAssumption
<1>2. IsFiniteSet(1 .. MaxDays) /\ IsFiniteSet(first .. Count) /\ IsFiniteSet(1 .. Count)
  BY <1>1, FS_Interval
<1>3. torn \subseteq 1 .. MaxDays /\ Lost \subseteq first .. Count /\ Cuts \subseteq 1 .. Count
  BY DEF LogTypeOK, Days, Lost, Cuts
<1> QED BY <1>2, <1>3, FS_Subset

\* A write loses a record only when it succeeds after a cut: the first of its lines.
LEMMA WriteLoses ==
  ASSUME LogTypeOK, LogTypeOK', Newest, WriteEvent, first' = first
  PROVE  Lost' \subseteq IF outcome'[Count + 1] = "ok" /\ day \in torn
                         THEN Lost \cup {Count - Len(pending) + 1} ELSE Lost
<1> DEFINE records == Append(pending, Count + 1)
<1>0. /\ Count \in Nat /\ Len(pending) \in Nat /\ Len(pending) <= Count
      /\ first \in Nat /\ first >= 1
  BY LenProperties DEF LogTypeOK, Count, Newest
<1>1. Count' = Count + 1 /\ Len(records) = Len(pending) + 1
  BY WriteEffect
<1>2. PICK new : /\ WrittenAs(new, records)
                 /\ outcome'[Count + 1] = "ok" => Len(new) = Len(records)
  BY WriteEffect
<1>3. \A k \in 1 .. Len(pending) + 1 : records[k] = Count - Len(pending) + k
  BY NewestKept
<1> HIDE DEF records
<1>4. \A r : InFile(r) => InFile(r)'
  BY <1>2, InFileIsPlace DEF WrittenAs
<1> SUFFICES ASSUME NEW r \in Lost', r \notin Lost
             PROVE  /\ outcome'[Count + 1] = "ok" /\ day \in torn
                    /\ r = Count - Len(pending) + 1
  OBVIOUS
<1>5. r \in first .. Count + 1 /\ ~InFile(r)' /\ ~Buffered(r)' /\ ~Outlived(r)'
  BY <1>1 DEF Lost
<1>6. r \in Count - Len(pending) + 1 .. Count + 1
  <2>1. CASE r = Count + 1
    BY <1>0, <2>1
  <2>2. CASE r # Count + 1
    <3>1. r \in first .. Count /\ r \in 1 .. Count
      BY <1>0, <1>5, <2>2
    <3>2. InFile(r) \/ Buffered(r) \/ Outlived(r)
      BY <3>1 DEF Lost
    <3>3. Buffered(r)
      BY <1>4, <1>5, <3>1, <3>2, NewestKept
    <3> QED BY <1>0, <3>3, BufferedIsNewest
  <2> QED BY <2>1, <2>2
<1>7. outcome'[Count + 1] = "ok"
  BY <1>5, <1>6, NewestKept
<1> DEFINE k == r - (Count - Len(pending))
<1>8. k \in 1 .. Len(new) /\ k \in 1 .. Len(pending) + 1 /\ r = Count - Len(pending) + k
  BY <1>0, <1>1, <1>2, <1>6, <1>7
<1> HIDE DEF k
<1>9. new[k] # r
  <2> SUFFICES ASSUME new[k] = r PROVE FALSE
    OBVIOUS
  <2>1. \A d, i : d = day /\ i = Len(files[day]) + k => Place(d, i, r)'
    BY <1>2, <1>8 DEF WrittenAs
  <2> QED BY <1>5, <2>1, InFileIsPlace
<1>10. k = 1 /\ day \in torn
  BY <1>2, <1>3, <1>8, <1>9 DEF WrittenAs
<1> QED BY <1>7, <1>8, <1>10

\* A write, however it ends, keeps the account.
LEMMA WriteAccounted ==
  ASSUME LogTypeOK, LogTypeOK', Newest, Accounted, WriteEvent, first' = first
  PROVE  Accounted'
<1>0. Count \in Nat /\ DOMAIN outcome = 1 .. Count
  BY LenProperties DEF LogTypeOK, Count
<1>1. /\ IsFiniteSet(torn) /\ IsFiniteSet(Lost) /\ IsFiniteSet(Cuts)
      /\ IsFiniteSet(torn') /\ IsFiniteSet(Lost') /\ IsFiniteSet(Cuts')
  <2>1. IsFiniteSet(torn) /\ IsFiniteSet(Lost) /\ IsFiniteSet(Cuts)
    BY FiniteCounts
  <2>2. (IsFiniteSet(torn) /\ IsFiniteSet(Lost) /\ IsFiniteSet(Cuts))'
    BY FiniteCounts, PTL
  <2> QED BY <2>1, <2>2
<1>2. /\ Cardinality(torn) \in Nat /\ Cardinality(Lost) \in Nat /\ Cardinality(Cuts) \in Nat
      /\ Cardinality(torn') \in Nat /\ Cardinality(Lost') \in Nat
      /\ Cardinality(Cuts') \in Nat
  BY <1>1, FS_CardinalityType
<1>3. Count' = Count + 1 /\ \A j \in 1 .. Count : outcome'[j] = outcome[j]
  BY WriteEffect
<1>4. Cuts' = IF outcome'[Count + 1] = "torn" THEN Cuts \cup {Count + 1} ELSE Cuts
  BY <1>0, <1>3 DEF Cuts
<1>5. CASE outcome'[Count + 1] = "ok" /\ day \in torn
  <2>1. Lost' \subseteq Lost \cup {Count - Len(pending) + 1}
    BY <1>5, WriteLoses
  <2>2. Cardinality(Lost') <= Cardinality(Lost) + 1
    <3> DEFINE more == Lost \cup {Count - Len(pending) + 1}
    <3>1. /\ IsFiniteSet(more)
          /\ Cardinality(more) = Cardinality(Lost)
               \/ Cardinality(more) = Cardinality(Lost) + 1
      BY <1>1, FS_AddElement
    <3>2. Cardinality(Lost') <= Cardinality(more)
      BY <2>1, <3>1, FS_Subset
    <3> QED BY <1>2, <3>1, <3>2
  <2>3. torn' = torn \ {day}
    BY <1>5, WriteEffect
  <2>4. Cardinality(torn') = Cardinality(torn) - 1
    BY <1>1, <1>5, <2>3, FS_RemoveElement
  <2> QED BY <1>2, <1>4, <1>5, <2>2, <2>4 DEF Accounted
<1>6. CASE ~(outcome'[Count + 1] = "ok" /\ day \in torn)
  <2>1. Lost' \subseteq Lost
    BY <1>6, WriteLoses
  <2>2. Cardinality(Lost') <= Cardinality(Lost)
    BY <1>1, <2>1, FS_Subset
  <2>3. CASE outcome'[Count + 1] = "torn"
    <3>1. torn' = torn \cup {day}
      BY <2>3, WriteEffect
    <3>2. Cardinality(torn') <= Cardinality(torn) + 1
      BY <1>1, <1>2, <3>1, FS_AddElement
    <3>3. Cardinality(Cuts') = Cardinality(Cuts) + 1
      <4>1. Count + 1 \notin Cuts
        BY <1>0 DEF Cuts
      <4> QED BY <1>1, <1>4, <2>3, <4>1, FS_AddElement
    <3> QED BY <1>2, <2>2, <3>2, <3>3 DEF Accounted
  <2>4. CASE outcome'[Count + 1] # "torn"
    <3>1. torn' \subseteq torn
      BY <2>4, WriteEffect
    <3>2. Cardinality(torn') <= Cardinality(torn)
      BY <1>1, <3>1, FS_Subset
    <3> QED BY <1>2, <1>4, <2>2, <2>4, <3>2 DEF Accounted
  <2> QED BY <2>3, <2>4
<1> QED BY <1>5, <1>6

IInv == LogTypeOK /\ Newest /\ Accounted

\* The invariant holds in every reachable state.
LEMMA InvariantHolds == LogSpec => []IInv
<1> USE DEF event_vars
<1>1. NothingLogged /\ LogTypeOK => IInv
  <2> SUFFICES ASSUME NothingLogged, LogTypeOK PROVE Newest /\ Accounted
    BY DEF IInv
  <2>1. Len(pending) = 0 /\ Count = 0 /\ torn = {} /\ first = 1
    BY EmptySeq DEF NothingLogged, Count
  <2>2. Lost = {} /\ Cuts = {} /\ Cardinality({}) = 0
    BY <2>1, FS_EmptySet DEF Lost, Cuts
  <2> QED BY <2>1, <2>2 DEF Newest, Accounted
<1>2. IInv /\ LogTypeOK' /\ [LogNext]_log_vars => IInv'
  <2> SUFFICES ASSUME IInv, LogTypeOK', [LogNext]_log_vars
               PROVE  Newest' /\ Accounted'
    BY DEF IInv
  <2> USE DEF IInv
  <2>1. CASE Audit
    <3>1. WriteEvent /\ first' = first
      BY <2>1 DEF Audit
    <3> QED BY <3>1, NewestKept, WriteAccounted
  <2>2. CASE Midnight \/ UNCHANGED log_vars
    <3>1. UNCHANGED <<event_vars, first>>
      BY <2>2 DEF Midnight, log_vars
    <3>2. Newest'
      BY <3>1 DEF Newest, Count
    <3>3. Lost' = Lost /\ Cuts' = Cuts
      BY <3>1 DEF Lost, Cuts, Count, InFile, Buffered, Outlived
    <3> QED BY <3>1, <3>2, <3>3 DEF Accounted
  <2>3. CASE Restart
    <3>0. Count \in Nat
      BY LenProperties DEF LogTypeOK, Count
    <3>1. pending' = <<>> /\ Len(pending') = 0 /\ first' = Count + 1
             /\ UNCHANGED <<files, torn, outcome>> /\ Count' = Count
      BY <2>3, EmptySeq DEF Restart, Count
    <3>2. Newest' /\ Cuts' = Cuts
      BY <3>0, <3>1 DEF Newest, Cuts, Count
    <3>3. Lost' = {}
      BY <3>0, <3>1 DEF Lost
    <3>4. /\ Cardinality(Lost') = 0 /\ Cardinality(Lost) \in Nat
          /\ Cardinality(torn) \in Nat /\ Cardinality(Cuts) \in Nat
      BY <3>3, FiniteCounts, FS_EmptySet, FS_CardinalityType
    <3> QED BY <3>1, <3>2, <3>4 DEF Accounted
  <2> QED BY <2>1, <2>2, <2>3 DEF LogNext
<1> QED BY <1>1, <1>2, TypeCorrect, PTL DEF LogSpec

\* A cut costs at most one record of this run of the program, over any number of
\* failures, days and restarts (logging.py:61-74).
THEOREM CutCostsOne == LogSpec => []OneLostPerCut
<1>1. IInv => OneLostPerCut
  <2> SUFFICES ASSUME IInv PROVE OneLostPerCut
    OBVIOUS
  <2>1. /\ Cardinality(torn) \in Nat /\ Cardinality(Lost) \in Nat
        /\ Cardinality(Cuts) \in Nat
    BY FiniteCounts, FS_CardinalityType DEF IInv
  <2> QED BY <2>1 DEF IInv, Accounted, OneLostPerCut
<1> QED BY <1>1, InvariantHolds, PTL

\* Without cuts nothing is torn or lost.
LEMMA UncutIsWhole ==
  ASSUME IInv, Cuts = {}
  PROVE  torn = {} /\ Lost = {}
<1>1. IsFiniteSet(torn) /\ IsFiniteSet(Lost)
  BY FiniteCounts DEF IInv
<1>2. Cardinality(torn) \in Nat /\ Cardinality(Lost) \in Nat /\ Cardinality(Cuts) = 0
  BY <1>1, FS_CardinalityType, FS_EmptySet
<1>3. Cardinality(torn) = 0 /\ Cardinality(Lost) = 0
  BY <1>2 DEF IInv, Accounted
<1> QED BY <1>1, <1>3, FS_EmptySet

\* As long as no write is cut inside a line, a record of this run is lost only after
\* as many failures as the buffer holds (logging.py:61-72).
THEOREM BufferLosesNothing == LogSpec => []NothingLost
<1>1. IInv => NothingLost
  BY UncutIsWhole DEF NothingLost
<1> QED BY <1>1, InvariantHolds, PTL

-----------------------------------------------------------------------------
(* The order of the records in the files.  What is in a file already is    *)
(* downward closed among the buffered records, because a write that fails  *)
(* has put the first ones there; so a first copy never comes late.         *)

Placed == \A d, i, r : Place(d, i, r) => /\ d \in 1 .. day /\ i \in 1 .. Len(files[d])
                                         /\ r \in 0 .. Count
Filled == \A r, s \in Count - Len(pending) + 1 .. Count :
            r < s /\ InFile(s) => InFile(r)
Earlier(r, d, i) == \E e, j : Place(e, j, r) /\ (e < d \/ (e = d /\ j < i))
Ordered == \A r, s \in 1 .. Count : InFile(r) /\ r < s =>
             \A d, i : Place(d, i, s) => Earlier(r, d, i)
OrderInv == Placed /\ (Cuts = {} => Filled /\ Ordered)

\* A write keeps the places.
LEMMA WritePlaced ==
  ASSUME LogTypeOK, LogTypeOK', Newest, Placed, WriteEvent, day' = day
  PROVE  Placed'
<1> DEFINE records == Append(pending, Count + 1)
<1>0. /\ Count \in Nat /\ Len(pending) \in Nat /\ Len(pending) <= Count /\ day \in Nat
      /\ day >= 1
  BY LenProperties, LogAssumption DEF LogTypeOK, Count, Newest, Days, LogAssumption
<1>1. Count' = Count + 1 /\ Len(records) = Len(pending) + 1
  BY WriteEffect
<1>2. PICK new : WrittenAs(new, records)
  BY WriteEffect
<1>3. \A k \in 1 .. Len(pending) + 1 : records[k] = Count - Len(pending) + k
  BY NewestKept
<1> HIDE DEF records
<1> SUFFICES ASSUME NEW d, NEW i, NEW r, Place(d, i, r)'
             PROVE  d \in 1 .. day /\ i \in 1 .. Len(files'[d]) /\ r \in 0 .. Count + 1
  BY <1>1 DEF Placed
<1>4. i \in 1 .. Len(files'[d])
  BY LenProperties DEF Place, LogTypeOK
<1>5. CASE Place(d, i, r)
  BY <1>0, <1>4, <1>5 DEF Placed
<1>6. CASE ~Place(d, i, r)
  <2>1. PICK k \in 1 .. Len(new) : d = day /\ r = new[k]
    BY <1>2, <1>6 DEF WrittenAs
  <2>2. k \in 1 .. Len(pending) + 1
    BY <1>0, <1>1, <1>2, LenProperties DEF WrittenAs
  <2>3. r = 0 \/ r = Count - Len(pending) + k
    BY <1>2, <1>3, <2>1, <2>2 DEF WrittenAs
  <2> QED BY <1>0, <1>4, <2>1, <2>2, <2>3
<1> QED BY <1>5, <1>6

\* Without cuts it keeps the order.
LEMMA WriteOrdered ==
  ASSUME IInv, LogTypeOK', OrderInv, WriteEvent, Cuts' = {}
  PROVE  Filled' /\ Ordered'
<1> USE DEF IInv
<1> DEFINE records == Append(pending, Count + 1)
           low == Count - Len(pending)
<1>0. /\ Count \in Nat /\ Len(pending) \in Nat /\ Len(pending) <= Count
      /\ day \in Nat /\ DOMAIN outcome = 1 .. Count /\ low \in Nat
  BY LenProperties, LogAssumption DEF LogTypeOK, Count, Newest, Days, LogAssumption
<1>1. /\ Count' = Count + 1 /\ Len(records) = Len(pending) + 1
      /\ \A j \in 1 .. Count : outcome'[j] = outcome[j]
  BY WriteEffect
<1>2. Cuts = {} /\ torn = {}
  <2>1. Cuts = {}
    BY <1>0, <1>1 DEF Cuts
  <2> QED BY <2>1, UncutIsWhole
<1>3. PICK new : WrittenAs(new, records)
  BY WriteEffect
<1>4. /\ \A k \in 1 .. Len(pending) + 1 : records[k] = low + k
      /\ Count' - Len(pending') >= low /\ Len(pending') \in Nat
  BY NewestKept, LenProperties DEF LogTypeOK
<1> HIDE DEF records, low
<1>5. Len(new) \in Nat /\ Len(new) <= Len(pending) + 1
         /\ \A k \in 1 .. Len(new) : new[k] = low + k
  <2>1. Len(new) \in Nat /\ Len(new) <= Len(pending) + 1
    BY <1>1, <1>3, LenProperties DEF WrittenAs
  <2> QED BY <1>0, <1>2, <1>3, <1>4, <2>1 DEF WrittenAs
<1> DEFINE length == Len(files[day])
<1>6. length \in Nat
  BY LenProperties DEF LogTypeOK
<1>7. \A d, i, r : Place(d, i, r)' <=>
        Place(d, i, r) \/ (d = day /\ \E k \in 1 .. Len(new) : i = length + k /\ r = low + k)
  BY <1>3, <1>5 DEF WrittenAs
<1> HIDE DEF length
<1>8. \A r : InFile(r)' <=> InFile(r) \/ r \in low + 1 .. low + Len(new)
  <2> SUFFICES ASSUME NEW r
               PROVE  InFile(r)' <=> InFile(r) \/ r \in low + 1 .. low + Len(new)
    OBVIOUS
  <2>1. ASSUME InFile(r)' PROVE InFile(r) \/ r \in low + 1 .. low + Len(new)
    BY <1>0, <1>5, <1>7, <2>1, InFileIsPlace
  <2>2. ASSUME InFile(r) PROVE InFile(r)'
    BY <1>7, <2>2, InFileIsPlace
  <2>3. ASSUME r \in low + 1 .. low + Len(new) PROVE InFile(r)'
    <3>1. r - low \in 1 .. Len(new) /\ r = low + (r - low)
      BY <1>0, <1>5, <2>3
    <3>2. \A d, i : d = day /\ i = length + (r - low) => Place(d, i, r)'
      BY <1>7, <3>1
    <3> QED BY <3>2, InFileIsPlace
  <2> QED BY <2>1, <2>2, <2>3
<1>9. \A r : InFile(r) /\ r \in Nat => r <= Count
  BY <1>0, InFileIsPlace DEF OrderInv, Placed
<1>10. \A r, s \in low + 1 .. Count + 1 : r < s /\ InFile(s)' => InFile(r)'
  <2> SUFFICES ASSUME NEW r \in low + 1 .. Count + 1, NEW s \in low + 1 .. Count + 1,
                      r < s, InFile(s)'
               PROVE  InFile(r)'
    OBVIOUS
  <2>1. CASE InFile(s)
    <3>1. s <= Count
      BY <1>0, <1>9, <2>1
    <3>2. r \in Count - Len(pending) + 1 .. Count /\ s \in Count - Len(pending) + 1 .. Count
      BY <1>0, <3>1 DEF low
    <3> QED BY <1>2, <1>8, <2>1, <3>2 DEF OrderInv, Filled
  <2>2. CASE ~InFile(s)
    <3>1. r \in low + 1 .. low + Len(new)
      BY <1>0, <1>5, <1>8, <2>2
    <3> QED BY <1>8, <3>1
  <2> QED BY <2>1, <2>2
<1>11. Filled'
  <2> SUFFICES ASSUME NEW r \in Count' - Len(pending') + 1 .. Count',
                      NEW s \in Count' - Len(pending') + 1 .. Count', r < s, InFile(s)'
               PROVE  InFile(r)'
    BY DEF Filled
  <2>1. r \in low + 1 .. Count + 1 /\ s \in low + 1 .. Count + 1
    BY <1>0, <1>1, <1>4
  <2> QED BY <1>10, <2>1
<1>12. Ordered'
  <2> SUFFICES ASSUME NEW r \in 1 .. Count', NEW s \in 1 .. Count',
                      InFile(r)', r < s, NEW d, NEW i, Place(d, i, s)'
               PROVE  Earlier(r, d, i)'
    BY DEF Ordered
  <2> SUFFICES \E e, j : Place(e, j, r)' /\ (e < d \/ (e = d /\ j < i))
    BY DEF Earlier
  <2>0. r \in 1 .. Count + 1 /\ s \in 1 .. Count + 1
    BY <1>1
  <2>1. CASE Place(d, i, s)
    <3>0. InFile(s)
      BY <2>1, InFileIsPlace
    <3>1. s <= Count /\ s \in 1 .. Count /\ r \in 1 .. Count
      BY <1>0, <1>9, <2>0, <3>0
    <3>2. InFile(r)
      <4> SUFFICES ASSUME ~InFile(r) PROVE FALSE
        OBVIOUS
      <4>1. r \in low + 1 .. low + Len(new)
        BY <1>8
      <4>2. r \in Count - Len(pending) + 1 .. Count /\ s \in Count - Len(pending) + 1 .. Count
        BY <1>0, <1>5, <3>1, <4>1 DEF low
      <4> QED BY <1>2, <3>0, <3>1, <4>2 DEF OrderInv, Filled
    <3>3. Earlier(r, d, i)
      BY <1>2, <2>1, <3>1, <3>2 DEF OrderInv, Ordered
    <3> QED BY <1>7, <3>3 DEF Earlier
  <2>2. CASE ~Place(d, i, s)
    <3>1. PICK k \in 1 .. Len(new) : d = day /\ i = length + k /\ s = low + k
      BY <1>7, <2>2
    <3>2. CASE InFile(r)
      <4>1. PICK e, j : Place(e, j, r)
        BY <3>2, InFileIsPlace
      <4>2. e \in 1 .. day /\ j \in 1 .. Len(files[e])
        BY <4>1 DEF OrderInv, Placed
      <4>3. e < day \/ (e = day /\ j \in 1 .. length)
        BY <1>0, <4>2 DEF length
      <4>4. e < d \/ (e = d /\ j < i)
        BY <1>5, <1>6, <3>1, <4>3
      <4> QED BY <1>7, <4>1, <4>4
    <3>3. CASE ~InFile(r)
      <4>1. r \in low + 1 .. low + Len(new)
        BY <1>8, <3>3
      <4>2. r - low \in 1 .. Len(new) /\ r = low + (r - low) /\ r - low < k
        BY <1>0, <1>5, <2>0, <3>1, <4>1
      <4>3. PICK j : j = length + (r - low)
        OBVIOUS
      <4>4. Place(d, j, r)'
        BY <1>7, <3>1, <4>2, <4>3
      <4>5. j < i
        BY <1>0, <1>5, <1>6, <3>1, <4>2, <4>3
      <4> QED BY <4>4, <4>5
    <3> QED BY <3>2, <3>3
  <2> QED BY <2>1, <2>2
<1> QED BY <1>11, <1>12

\* So does that of the order.
LEMMA OrderInvariant == LogSpec => []OrderInv
<1> USE DEF event_vars
<1>1. NothingLogged => OrderInv
  <2> SUFFICES ASSUME NothingLogged PROVE OrderInv
    OBVIOUS
  <2>1. /\ \A d \in Days : DOMAIN files[d] = {}
        /\ Len(pending) = 0 /\ Count = 0
    BY EmptySeq DEF NothingLogged, Count
  <2>2. Placed
    BY <2>1 DEF Placed, Place
  <2> QED BY <2>1, <2>2 DEF OrderInv, Filled, Ordered
<1>2. IInv /\ IInv' /\ OrderInv /\ [LogNext]_log_vars => OrderInv'
  <2> SUFFICES ASSUME IInv, IInv', OrderInv, [LogNext]_log_vars PROVE OrderInv'
    OBVIOUS
  <2>0. Count \in Nat /\ Len(pending) \in Nat /\ day \in Nat
    BY LenProperties, LogAssumption DEF IInv, LogTypeOK, Count, Days, LogAssumption
  <2>1. CASE Audit
    <3>1. WriteEvent /\ day' = day
      BY <2>1 DEF Audit
    <3> QED BY <3>1, WritePlaced, WriteOrdered DEF IInv, OrderInv
  <2>2. CASE Restart \/ Midnight \/ UNCHANGED log_vars
    <3>1. /\ UNCHANGED <<files, outcome>> /\ day' >= day /\ day' \in Nat
          /\ pending' = pending \/ Len(pending') = 0
      BY <2>0, <2>2, EmptySeq DEF Restart, Midnight, log_vars
    <3>2. Count' = Count /\ Cuts' = Cuts
      BY <3>1 DEF Count, Cuts
    <3>3. \A d, i, r : Place(d, i, r)' <=> Place(d, i, r)
      BY <3>1 DEF Place
    <3>4. \A r : InFile(r)' <=> InFile(r)
      BY <3>1 DEF InFile
    <3>5. Placed'
      BY <2>0, <3>1, <3>2, <3>3 DEF OrderInv, Placed
    <3>6. Filled => Filled'
      BY <2>0, <3>1, <3>2, <3>4 DEF Filled
    <3>7. Ordered => Ordered'
      BY <3>2, <3>3, <3>4 DEF Ordered, Earlier
    <3> QED BY <3>2, <3>5, <3>6, <3>7 DEF OrderInv
  <2> QED BY <2>1, <2>2 DEF LogNext
<1> QED BY <1>1, <1>2, InvariantHolds, PTL DEF LogSpec

\* The first copies of the records are in the files in the order in which they were
\* written: a failed write begins with the oldest record that is not in a file yet, and
\* a record is never put behind a later one's first copy (logging.py:61-72).
THEOREM FirstCopiesOrdered == LogSpec => []FirstCopiesInOrder
<1>1. LogTypeOK /\ OrderInv => FirstCopiesInOrder
  <2> SUFFICES ASSUME LogTypeOK, OrderInv, Cuts = {},
                      NEW r \in 1 .. Count, NEW s \in 1 .. Count, InFile(r), r < s,
                      NEW d \in Days, NEW i \in DOMAIN files[d], files[d][i] = s
               PROVE  \E e \in 1 .. d : \E j \in DOMAIN files[e] :
                        files[e][j] = r /\ (e = d => j < i)
    BY DEF FirstCopiesInOrder
  <2>1. Earlier(r, d, i)
    BY DEF OrderInv, Ordered, Place
  <2>2. PICK e, j : Place(e, j, r) /\ (e < d \/ (e = d /\ j < i))
    BY <2>1 DEF Earlier
  <2>3. e \in 1 .. d
    BY <2>2, LogAssumption DEF Place, Days, LogAssumption
  <2> QED BY <2>2, <2>3 DEF Place, Days
<1> QED BY <1>1, TypeCorrect, OrderInvariant, PTL
=============================================================================
