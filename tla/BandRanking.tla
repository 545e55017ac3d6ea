------------------------------ MODULE BandRanking ------------------------------
(***************************************************************************)
(* rank_bands (pskreporter.py): from the reception reports of the target   *)
(* to the bands the search is to focus on, as the fold the code makes and  *)
(* as what it stands for.                                                  *)
(*                                                                         *)
(* A report is reduced to who heard it (the call, or the locator without   *)
(* one), on which band, how long ago in seconds (negative: in the future), *)
(* at what distance (-1: the locator is invalid) and whether its mode is   *)
(* FT8 or missing.  Scores are doubled, to stay whole.                     *)
(***************************************************************************)
EXTENDS Integers, Sequences, SequencesExt, FiniteSetsExt

CONSTANTS RankedBands,      \* the enabled bands
          NoReceiver,       \* neither call nor locator
          Lookback,         \* seconds: lookback_minutes * 60
          MaximumKm,        \* maximum_distance_km
          SampleReports,    \* reports an answer may hold
          MaxReports        \* bound: how many

ASSUME AgesAssumption == \A report \in SampleReports : report.age \in Int

VARIABLE reports            \* the answer, as far as it has been read

Usable(report) ==
  /\ report.ft8
  /\ report.age \in -300 .. Lookback
  /\ report.band \in RankedBands
  /\ report.receiver # NoReceiver
  /\ report.km \in 0 .. MaximumKm

ProximityBelow(km) ==                                             \* mutant
  IF km < 500 THEN 4 ELSE IF km < 1000 THEN 3 ELSE IF km < 1500 THEN 2 ELSE 1
ProximityWeight(km) ==
  IF km <= 500 THEN 4 ELSE IF km <= 1000 THEN 3 ELSE IF km <= 1500 THEN 2 ELSE 1
OldestFirst(age) ==                                               \* mutant
  IF age <= 10 * 60 THEN 2 ELSE IF age <= 20 * 60 THEN 3 ELSE 4
RecencyWeight(age) ==
  IF age <= 10 * 60 THEN 4 ELSE IF age <= 20 * 60 THEN 3 ELSE 2

\* The dictionary of the newest report of each receiver on each band, in its order.
SameKey(r, s) == r.band = s.band /\ r.receiver = s.receiver
KeepEvery(newest, report) == Append(newest, report)               \* mutant
Keep(newest, report) ==
  LET at == SelectInSeq(newest, LAMBDA r : SameKey(r, report))
  IN  IF at = 0 THEN Append(newest, report)
      ELSE IF report.age < newest[at].age THEN [newest EXCEPT ![at] = report]
      ELSE newest
NewestByReceiver(list) ==
  LET newest[n \in 0 .. Len(list)] ==
        IF n = 0 THEN <<>>
        ELSE IF Usable(list[n]) THEN Keep(newest[n - 1], list[n]) ELSE newest[n - 1]
  IN  newest[Len(list)]

\* The priority of a band: its values in the dictionary, summed up.
PriorityOf(newest, band) ==
  LET values == {i \in DOMAIN newest : newest[i].band = band}
      weights == [i \in values |-> ProximityWeight(newest[i].km)
                                     * RecencyWeight(Max({0, newest[i].age}))]
  IN  [band |-> band, score |-> SumFunction(weights),
       count |-> Cardinality(values),
       minutes |-> Max({0, Min({newest[i].age : i \in values})}) \div 60,
       nearest |-> Min({newest[i].km : i \in values}),
       place |-> Min(values)]

\* The sort key of the code, and the place that a stable sort keeps.
Before(p, q) ==
  \/ p.score > q.score
  \/ p.score = q.score /\ p.count > q.count
  \/ p.score = q.score /\ p.count = q.count /\ p.minutes < q.minutes
  \/ p.score = q.score /\ p.count = q.count /\ p.minutes = q.minutes /\ p.nearest < q.nearest
  \/ p.score = q.score /\ p.count = q.count /\ p.minutes = q.minutes /\ p.nearest = q.nearest
       /\ p.place < q.place

Sorted(priorities) ==
  CHOOSE ranking \in [1 .. Cardinality(priorities) -> priorities] :
    \A i, j \in DOMAIN ranking : i < j => Before(ranking[i], ranking[j])

Priorities(newest) == {PriorityOf(newest, r.band) : r \in ToSet(newest)}
rank_bands(list) == Sorted(Priorities(NewestByReceiver(list)))

-----------------------------------------------------------------------------
(* The answer, report by report.  Each of its beginnings is an answer too.  *)

NoReports == reports = <<>>
ReadReport ==
  /\ Len(reports) < MaxReports
  /\ \E report \in SampleReports : reports' = Append(reports, report)
Reading == NoReports /\ [][ReadReport]_reports

-----------------------------------------------------------------------------
(* What a ranking is.                                                      *)

Ranked(list) == LET ranking == rank_bands(list)
                IN  [i \in DOMAIN ranking |-> ranking[i].band]
Ahead(list, a, b) == /\ Contains(list, a)
                     /\ Contains(list, b) => SelectInSeq(list, LAMBDA x : x = a)
                                               < SelectInSeq(list, LAMBDA x : x = b)

\* The report that counts for a receiver on a band: the first of its newest.
Votes(band) ==
  {i \in DOMAIN reports :
     /\ Usable(reports[i]) /\ reports[i].band = band
     /\ \A j \in DOMAIN reports : Usable(reports[j]) /\ SameKey(reports[i], reports[j]) =>
          reports[i].age < reports[j].age \/ (reports[i].age = reports[j].age /\ i <= j)}

\* Near (500, 1000 and 1500 km) and recent (10 and 20 minutes) evidence counts more.
Zone(limits, x) == 1 + Cardinality({l \in limits : x > l})
Evidence(band) ==
  SumFunction([i \in Votes(band) |-> (5 - Zone({500, 1000, 1500}, reports[i].km))
                                     * (5 - Zone({600, 1200}, reports[i].age))])

\* The focus is exactly the bands with a usable report, by falling evidence of their
\* receivers' newest reports, and among equals by the number of receivers
\* (pskreporter.py:119-167).
RankingAgrees ==
  LET list == Ranked(reports)
  IN  /\ ToSet(list) = {reports[i].band : i \in {i \in DOMAIN reports : Usable(reports[i])}}
      /\ \A i, j \in DOMAIN list : i < j =>
           \/ Evidence(list[i]) > Evidence(list[j])
           \/ /\ Evidence(list[i]) = Evidence(list[j])
              /\ Cardinality(Votes(list[i])) >= Cardinality(Votes(list[j]))

\* "Repeated transmissions decoded by the same receiver must not overwhelm the
\* majority signal" (pskreporter.py:117): what a receiver reported again, and no
\* newer, changes nothing.
RepeatsAddNothing ==
  [][\A i \in DOMAIN reports :
       /\ Usable(reports[i]) /\ SameKey(Last(reports'), reports[i])
       /\ Last(reports').age >= reports[i].age
       => Ranked(reports') = Ranked(reports)]_reports

\* A further report of a band, of a receiver that has not moved, never puts it behind
\* a band it was ahead of (pskreporter.py:139, 150-167).
EvidenceNeverDemotes ==
  [][LET more == Last(reports')
     IN  \A other \in RankedBands :
           /\ reports' # reports /\ Usable(more) /\ other # more.band
           /\ Ahead(Ranked(reports), more.band, other)
           /\ \A i \in DOMAIN reports : SameKey(reports[i], more) => reports[i].km = more.km
           => Ahead(Ranked(reports'), more.band, other)]_reports
=============================================================================
