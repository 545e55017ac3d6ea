----------------------------- MODULE InputsProofs -----------------------------
(***************************************************************************)
(* What is read out of the data of others, for every set of callsigns and  *)
(* locators, for reports of any number and datagrams of any lengths: who   *)
(* is the sender of a message and what locator is the target's, that the   *)
(* ranking of the bands is by the evidence of their receivers, each once,  *)
(* and that a packet holds what its sender put in.                         *)
(***************************************************************************)
EXTENDS TargetDetection, BandRanking, WsjtxProtocol, FiniteSetTheorems,
        FunctionTheorems, SequenceTheorems, WellFoundedInduction, TLAPS

-----------------------------------------------------------------------------
(* transmitting_call on the forms of messages.                             *)

\* A word that is a call and stands where the sender stands is the sender.
LEMMA SenderIsRead ==
  ASSUME NEW words, Len(words) >= 2, words[SenderPlace(words)] \in Calls
  PROVE  transmitting_call(words) = words[SenderPlace(words)]
  BY DEF transmitting_call, LooksLikeCall

\* Any other word there is never taken for a station.
LEMMA OthersAreNoStation ==
  ASSUME NEW words, words[SenderPlace(words)] \notin Calls
  PROVE  transmitting_call(words) \notin Calls
  BY CallAssumption DEF transmitting_call

\* A call that is no modifier of a CQ.
LEMMA CallsAreNoModifiers ==
  ASSUME NEW call \in Calls
  PROVE  call \notin CQ_MODIFIERS \cup Numbers \cup {"CQ"}
  BY CallAssumption

\* In the conventional forms the sender is read.
LEMMA ConventionalSender ==
  ASSUME NEW message \in Conventional
  PROVE  message.from \in Calls /\ transmitting_call(message.words) = message.from
<1>1. CASE message \in BareCq
  <2>1. PICK f \in Calls : message = Message("cq", f, <<"CQ", f>>)
    BY <1>1 DEF BareCq
  <2>2. message.from = f /\ message.words = <<"CQ", f>>
    BY <2>1 DEF Message
  <2>3. SenderPlace(message.words) = 2
    BY <2>2 DEF SenderPlace
  <2> QED BY <2>2, <2>3, SenderIsRead
<1>2. CASE message \in LocatedCq
  <2>1. PICK f \in Calls : message = Message("cq", f, <<"CQ", f, Locator(f)>>)
    BY <1>2 DEF LocatedCq
  <2>2. message.from = f /\ message.words = <<"CQ", f, Locator(f)>>
    BY <2>1 DEF Message
  <2>3. SenderPlace(message.words) = 2
    BY <2>2, CallsAreNoModifiers DEF SenderPlace
  <2> QED BY <2>2, <2>3, SenderIsRead
<1>3. CASE message \in ModifiedCq
  <2>1. PICK f \in Calls, modifier \in {"DX", "145"} :
          message = Message("cq", f, <<"CQ", modifier, f, Locator(f)>>)
    BY <1>3 DEF ModifiedCq
  <2>2. message.from = f /\ message.words = <<"CQ", modifier, f, Locator(f)>>
    BY <2>1 DEF Message
  <2>3. SenderPlace(message.words) = 3
    BY <2>2 DEF SenderPlace, CQ_MODIFIERS, Numbers
  <2> QED BY <2>2, <2>3, SenderIsRead
<1>4. CASE message \in Prefixed
  <2>1. PICK f \in Calls, prefix \in {"QRZ", "DE"} : message = Message("call", f, <<prefix, f>>)
    BY <1>4 DEF Prefixed
  <2>2. message.from = f /\ message.words = <<prefix, f>>
    BY <2>1 DEF Message
  <2>3. SenderPlace(message.words) = 2
    BY <2>2 DEF SenderPlace
  <2> QED BY <2>2, <2>3, SenderIsRead
<1>5. CASE message \in Answers
  <2>1. PICK f \in Calls, to \in Calls : message = Message("directed", f, <<to, f, Locator(f)>>)
    BY <1>5 DEF Answers
  <2>2. message.from = f /\ message.words = <<to, f, Locator(f)>>
    BY <2>1 DEF Message
  <2>3. SenderPlace(message.words) = 2
    BY <2>2, CallsAreNoModifiers DEF SenderPlace
  <2> QED BY <2>2, <2>3, SenderIsRead
<1>6. CASE message \in Directed
  <2>1. PICK f \in Calls, to \in Calls, report \in Reports :
          message = Message("directed", f, <<to, f>> \o report)
    BY <1>6 DEF Directed
  <2>2. message.from = f /\ message.words = <<to, f>> \o report
    BY <2>1 DEF Message
  <2>3. Len(message.words) >= 2 /\ message.words[1] = to /\ message.words[2] = f
    BY <2>2 DEF Reports
  <2>4. SenderPlace(message.words) = 2
    BY <2>3, CallsAreNoModifiers DEF SenderPlace
  <2> QED BY <2>2, <2>3, <2>4, SenderIsRead
<1> QED BY <1>1, <1>2, <1>3, <1>4, <1>5, <1>6 DEF Conventional

\* In the unusual forms nobody is.
LEMMA UnusualIsNoStation ==
  ASSUME NEW message \in Unusual
  PROVE  transmitting_call(message.words) \notin Calls
<1>1. CASE message \in RegionalCq
  <2>1. PICK f \in Calls : message.words = <<"CQ", "JA", f, Locator(f)>>
    BY <1>1 DEF RegionalCq, Message
  <2>2. message.words[SenderPlace(message.words)] = "JA"
    BY <2>1 DEF SenderPlace, CQ_MODIFIERS, Numbers
  <2> QED BY <2>2, OthersAreNoStation, CallAssumption
<1>2. CASE message \in Unresolved
  <2>1. PICK f \in Calls, call \in Calls : message.words = <<call, Locator(f)>>
    BY <1>2 DEF Unresolved, Message
  <2>2. SenderPlace(message.words) = 2
    BY <2>1, CallsAreNoModifiers DEF SenderPlace
  <2>3. Locator(f) \notin Calls
    BY CallAssumption DEF Grids
  <2> QED BY <2>1, <2>2, <2>3, OthersAreNoStation
<1>3. CASE message \in HalfHeard
  <2>0. PICK f \in Calls, call \in Calls, report \in Reports :
          message = Message("unresolved", f, <<call>> \o report)
    BY <1>3 DEF HalfHeard
  <2>1. message.words = <<call>> \o report
    BY <2>0 DEF Message
  <2>2. /\ message.words[1] = call
        /\ message.words[2] \in {"05", "R", "RR73", "73"}
    BY <2>1 DEF Reports
  <2>3. SenderPlace(message.words) = 2
    BY <2>2, CallsAreNoModifiers DEF SenderPlace
  <2>4. message.words[2] \notin Calls
    BY <2>2, CallAssumption DEF Numbers
  <2> QED BY <2>3, <2>4, OthersAreNoStation
<1>4. CASE message \in Foxes
  <2>1. PICK f \in Calls, to \in Calls, other \in Calls :
          message.words = <<to, "RR73", other, f, "05">>
    BY <1>4 DEF Foxes, Message
  <2>2. SenderPlace(message.words) = 2
    BY <2>1, CallsAreNoModifiers DEF SenderPlace
  <2> QED BY <2>1, <2>2, OthersAreNoStation, CallAssumption
<1> QED BY <1>1, <1>2, <1>3, <1>4 DEF Unusual

-----------------------------------------------------------------------------
(* The handling of decodes.                                                *)

\* The target is always a station.
LEMMA TargetIsStation == Spec => [](target_call \in Calls)
<1>1. Init => target_call \in Calls
  BY DEF Init
<1>2. target_call \in Calls /\ [Next]_vars => (target_call \in Calls)'
  BY DEF Next, vars, HandleDecode, ChangeTarget, NewTarget
<1> QED BY <1>1, <1>2, PTL DEF Spec

\* What a decode leaves in last.
LEMMA DecodeStep ==
  ASSUME [Next]_vars, last' # last
  PROVE  \E message \in Messages :
           /\ last' = [message |-> message, found |-> TargetFound(message.words, target_call)]
  BY DEF Next, vars, HandleDecode, ChangeTarget

\* What sounds like the target's is the target's, in every form of message that has
\* its sender where transmitting_call looks for it, and in every other but free text and
\* contest messages (engine.py:24-43, 106).
THEOREM FoundIsSent == Spec => FoundMeansSent
<1>1. ASSUME target_call \in Calls, [Next]_vars
      PROVE  [last'.found /\ last'.message \notin Misleading
                => last'.message.from = target_call]_last
  <2> SUFFICES ASSUME last' # last, last'.found, last'.message \notin Misleading
               PROVE  last'.message.from = target_call
    OBVIOUS
  <2>1. PICK message \in Messages :
          last' = [message |-> message, found |-> TargetFound(message.words, target_call)]
    BY <1>1, DecodeStep
  <2>2. last'.message = message /\ transmitting_call(message.words) = target_call
    BY <2>1 DEF TargetFound
  <2>3. message \notin Unusual
    BY <2>2, <1>1, UnusualIsNoStation
  <2>4. message \in Conventional
    BY <2>2, <2>3 DEF Messages
  <2> QED BY <2>2, <2>4, ConventionalSender
<1> QED BY <1>1, TargetIsStation, PTL DEF Spec, FoundMeansSent

\* What the target sends in a conventional form is found, and nothing else in these
\* forms (engine.py:36-43).
THEOREM SentIsFound == Spec => SentMeansFound
<1>1. ASSUME [Next]_vars
      PROVE  [last'.message \in Conventional
                => (last'.message.from = target_call) = last'.found]_last
  <2> SUFFICES ASSUME last' # last, last'.message \in Conventional
               PROVE  (last'.message.from = target_call) = last'.found
    OBVIOUS
  <2>1. PICK message \in Messages :
          last' = [message |-> message, found |-> TargetFound(message.words, target_call)]
    BY <1>1, DecodeStep
  <2>2. last'.message = message /\ last'.found = (transmitting_call(message.words) = target_call)
    BY <2>1 DEF TargetFound
  <2> QED BY <2>2, ConventionalSender
<1> QED BY <1>1, PTL DEF Spec, SentMeansFound

-----------------------------------------------------------------------------
(* The locator.                                                            *)

\* A set of places in a list has a greatest one.
LEMMA MaxIsMember ==
  ASSUME NEW n \in Nat, NEW I \in SUBSET (1 .. n), I # {}
  PROVE  Max(I) \in I
<1> DEFINE bounds == {m \in Nat : \A i \in I : i <= m}
<1>1. n \in bounds
  OBVIOUS
<1>2. PICK least \in bounds : \A m \in bounds : ~(<<m, least>> \in OpToRel(<, Nat))
  BY <1>1, NatLessThanWellFounded, WFMin
<1>3. least \in I
  <2> SUFFICES ASSUME least \notin I PROVE FALSE
    OBVIOUS
  <2>1. \A i \in I : i \in 1 .. n /\ i <= least /\ i # least
    BY <1>2
  <2>2. least - 1 \in bounds /\ least - 1 < least
    <3>1. PICK i \in 1 .. n : i <= least
      BY <2>1
    <3>2. least - 1 \in Nat /\ least \in Nat
      <4>1. least \in Nat
        OBVIOUS
      <4> QED BY <3>1, <4>1
    <3>3. \A j \in I : j <= least - 1
      BY <2>1, <3>2
    <3> QED BY <3>2, <3>3
  <2>3. <<least - 1, least>> \in OpToRel(<, Nat)
    BY <1>2, <2>2 DEF OpToRel
  <2> QED BY <1>2, <2>2, <2>3
<1>4. \A i \in I : least >= i
  BY <1>2
<1> QED BY <1>3, <1>4 DEF Max

\* What is taken for a locator is a word of the message and has the form of one.
LEMMA GridIsWord ==
  ASSUME NEW words, Len(words) \in Nat, transmitting_grid(words) # ""
  PROVE  \E i \in 1 .. Len(words) :
           transmitting_grid(words) = words[i] /\ LooksLikeLocator(words[i])
<1> DEFINE I == {i \in 1 .. Len(words) : LooksLikeLocator(words[i])}
           place == SelectLastInSeq(words, LooksLikeLocator)
<1>1. place = IF I # {} THEN Max(I) ELSE 0
  BY DEF SelectLastInSeq
<1>2. transmitting_grid(words) = IF place = 0 THEN "" ELSE words[place]
  BY DEF transmitting_grid
<1>3. place = Max(I) /\ I # {}
  BY <1>1, <1>2
<1>4. place \in I
  BY <1>3, MaxIsMember
<1> QED BY <1>2, <1>4

\* Where the sender is read, the only locator in use among the words, but for RR73,
\* is the sender's.
LEMMA GridIsSenders ==
  ASSUME NEW message \in Conventional \cup Misleading
  PROVE  /\ Len(message.words) \in Nat
         /\ \A i \in 1 .. Len(message.words) :
              message.words[i] \in Grids \ {"RR73"}
                => message \in Conventional /\ message.words[i] = Locator(message.from)
<1>0. \A call \in Calls : call \notin Grids
  BY CallAssumption
<1>1. CASE message \in BareCq
  <2>1. PICK f \in Calls : message = Message("cq", f, <<"CQ", f>>)
    BY <1>1 DEF BareCq
  <2>2. message.from = f /\ message.words = <<"CQ", f>>
    BY <2>1 DEF Message
  <2> QED BY <1>0, <1>1, <2>2, GridAssumption
<1>2. CASE message \in LocatedCq
  <2>1. PICK f \in Calls : message = Message("cq", f, <<"CQ", f, Locator(f)>>)
    BY <1>2 DEF LocatedCq
  <2>2. message.from = f /\ message.words = <<"CQ", f, Locator(f)>>
    BY <2>1 DEF Message
  <2> QED BY <1>0, <1>2, <2>2, GridAssumption DEF Conventional
<1>3. CASE message \in ModifiedCq
  <2>1. PICK f \in Calls, modifier \in {"DX", "145"} :
          message = Message("cq", f, <<"CQ", modifier, f, Locator(f)>>)
    BY <1>3 DEF ModifiedCq
  <2>2. message.from = f /\ message.words = <<"CQ", modifier, f, Locator(f)>>
    BY <2>1 DEF Message
  <2> QED BY <1>0, <1>3, <2>2, GridAssumption DEF Conventional, CQ_MODIFIERS, Numbers
<1>4. CASE message \in Prefixed
  <2>1. PICK f \in Calls, prefix \in {"QRZ", "DE"} : message = Message("call", f, <<prefix, f>>)
    BY <1>4 DEF Prefixed
  <2>2. message.from = f /\ message.words = <<prefix, f>>
    BY <2>1 DEF Message
  <2> QED BY <1>0, <2>2, GridAssumption
<1>5. CASE message \in Answers
  <2>1. PICK f \in Calls, to \in Calls : message = Message("directed", f, <<to, f, Locator(f)>>)
    BY <1>5 DEF Answers
  <2>2. message.from = f /\ message.words = <<to, f, Locator(f)>>
    BY <2>1 DEF Message
  <2> QED BY <1>0, <1>5, <2>2 DEF Conventional
<1>6. CASE message \in Directed
  <2>1. PICK f \in Calls, to \in Calls, report \in Reports :
          message = Message("directed", f, <<to, f>> \o report)
    BY <1>6 DEF Directed
  <2>2. message.from = f /\ message.words = <<to, f>> \o report
    BY <2>1 DEF Message
  <2>3. CASE report = <<"R", "05">>
    BY <1>0, <2>2, <2>3, GridAssumption DEF Numbers
  <2>4. CASE report = <<"05">> \/ report = <<"73">>
    BY <1>0, <2>2, <2>4, GridAssumption DEF Numbers
  <2>5. CASE report = <<"RR73">>
    BY <1>0, <2>2, <2>5, GridAssumption DEF Numbers
  <2> QED BY <2>3, <2>4, <2>5, Zenon DEF Reports
<1>7. CASE message \in Misleading
  <2>1. \/ \E f, to \in Calls : message.words = <<"TU", to, f, "R", "579", "MA">>
        \/ \E f, about \in Calls : message.words = <<"TNX", about, "73">>
    BY <1>7 DEF Misleading, Message
  <2> QED BY <1>0, <2>1, GridAssumption DEF Numbers
<1> QED BY <1>1, <1>2, <1>3, <1>4, <1>5, <1>6, <1>7 DEF Conventional

\* The locator of latest_target_grid is that of the target of now.
GridInv == target_call \in Calls /\ LocatorIsTargets

\* A decode found to be the target's brings its own locator, or a word that only
\* looks like one, or none.
LEMMA DecodeKeepsGrid == GridInv /\ HandleDecode => GridInv'
<1> SUFFICES ASSUME GridInv, HandleDecode PROVE GridInv'
  OBVIOUS
<1> DEFINE found(m) == TargetFound(m.words, target_call)
           grid(m) == transmitting_grid(m.words)
<1>1. PICK m \in Messages :
        /\ latest_target_grid' = IF found(m) /\ grid(m) # "" THEN grid(m)
                                 ELSE latest_target_grid
        /\ sent' = IF Contains(m.words, Locator(m.from)) THEN sent \cup {m.from} ELSE sent
        /\ target_call' = target_call
  BY DEF HandleDecode
<1>2. target_call \in Calls /\ sent \subseteq sent'
  BY <1>1 DEF GridInv
<1>3. CASE found(m) /\ grid(m) # ""
  <2>1. transmitting_call(m.words) = target_call
    BY <1>3 DEF TargetFound
  <2>2. m \in Conventional \cup Misleading
    BY <1>2, <2>1, UnusualIsNoStation DEF Messages
  <2>3. PICK i \in 1 .. Len(m.words) :
          grid(m) = m.words[i] /\ LooksLikeLocator(m.words[i])
    BY <1>3, <2>2, GridIsSenders, GridIsWord
  <2>4. CASE grid(m) \in {"RR73"} \cup LocatorLikeCalls
    BY <1>1, <1>2, <1>3, <2>4 DEF GridInv, LocatorIsTargets
  <2>5. CASE grid(m) \notin {"RR73"} \cup LocatorLikeCalls
    <3>1. m.words[i] \in Grids \ {"RR73"}
      BY <2>3, <2>5 DEF LooksLikeLocator
    <3>2. m \in Conventional /\ m.words[i] = Locator(m.from)
      BY <2>2, <3>1, GridIsSenders
    <3>3. m.from = target_call
      BY <2>1, <3>2, ConventionalSender
    <3>4. Contains(m.words, Locator(m.from))
      BY <3>2 DEF Contains
    <3>5. latest_target_grid' = Locator(target_call) /\ target_call \in sent'
      BY <1>1, <1>3, <2>3, <3>2, <3>3, <3>4
    <3> QED BY <1>1, <1>2, <3>5 DEF GridInv, LocatorIsTargets
  <2> QED BY <2>4, <2>5
<1>4. CASE ~(found(m) /\ grid(m) # "")
  <2>1. latest_target_grid' = latest_target_grid
    BY <1>1, <1>4
  <2> QED BY <1>1, <1>2, <2>1 DEF GridInv, LocatorIsTargets
<1> QED BY <1>3, <1>4

\* WSJT-X is never told, with the target, the locator of an earlier target or of the
\* station the target works (dashboard.py:673, 717, 1369; engine.py:46-48).
THEOREM GridIsTargets == Spec => []LocatorIsTargets
<1>1. Init => GridInv
  BY DEF Init, GridInv, LocatorIsTargets
<1>2. GridInv /\ [Next]_vars => GridInv'
  <2>1. GridInv /\ ChangeTarget => GridInv'
    BY DEF GridInv, ChangeTarget, NewTarget, LocatorIsTargets
  <2>2. GridInv /\ UNCHANGED vars => GridInv'
    BY DEF GridInv, vars, LocatorIsTargets
  <2> QED BY <2>1, <2>2, DecodeKeepsGrid DEF Next
<1>3. GridInv => LocatorIsTargets
  BY DEF GridInv
<1> QED BY <1>1, <1>2, <1>3, PTL DEF Spec
-----------------------------------------------------------------------------
(* Functions on 0 .. N that are defined from each argument to the next.    *)

\* What holds of 0, and of n + 1 when it holds of n, holds of every number.
LEMMA SetInduction ==
  ASSUME NEW T, 0 \in T, \A n \in Nat : n \in T => n + 1 \in T
  PROVE  Nat \subseteq T
<1> SUFFICES ASSUME Nat \ T # {} PROVE FALSE
  OBVIOUS
<1>1. PICK m \in Nat \ T : \A y \in Nat \ T : ~(<<y, m>> \in OpToRel(<, Nat))
  BY NatLessThanWellFounded, WFMin
<1>2. m - 1 \in Nat \ T /\ m - 1 < m
  OBVIOUS
<1>3. <<m - 1, m>> \in OpToRel(<, Nat)
  BY <1>2 DEF OpToRel
<1> QED BY <1>1, <1>2, <1>3

Steps(N, S) == [1 .. N -> [S -> S]]
Follows(f, N, first, step) ==
  f[0] = first /\ \A n \in 1 .. N : f[n] = step[n][f[n - 1]]

\* There is one for every first value and every step.
LEMMA Recursion ==
  ASSUME NEW N \in Nat, NEW S, NEW first \in S, NEW step \in Steps(N, S)
  PROVE  \E f \in [0 .. N -> S] : Follows(f, N, first, step)
<1> USE DEF Steps
<1> DEFINE Good(f, m) == f[0] = first /\ \A n \in 1 .. m : f[n] = step[n][f[n - 1]]
           T == {m \in Nat : m <= N => \E f \in [0 .. m -> S] : Good(f, m)}
<1>1. 0 \in T
  <2> DEFINE f == [n \in 0 .. 0 |-> first]
  <2>1. f \in [0 .. 0 -> S] /\ Good(f, 0)
    OBVIOUS
  <2> QED BY <2>1
<1>2. ASSUME NEW m \in Nat, m \in T PROVE m + 1 \in T
  <2> SUFFICES ASSUME m + 1 <= N PROVE \E g \in [0 .. m + 1 -> S] : Good(g, m + 1)
    OBVIOUS
  <2>1. PICK f \in [0 .. m -> S] : Good(f, m)
    BY <1>2
  <2> DEFINE next == step[m + 1][f[m]]
             g == [n \in 0 .. m + 1 |-> IF n <= m THEN f[n] ELSE next]
  <2>2. next \in S
    <3>1. f[m] \in S /\ m + 1 \in 1 .. N
      OBVIOUS
    <3> QED BY <3>1
  <2> HIDE DEF next
  <2>3. /\ g \in [0 .. m + 1 -> S] /\ \A n \in 0 .. m : g[n] = f[n]
        /\ g[m + 1] = next
    BY <2>2
  <2> HIDE DEF g
  <2>4. g[0] = first
    BY <2>1, <2>3
  <2>5. ASSUME NEW n \in 1 .. m + 1 PROVE g[n] = step[n][g[n - 1]]
    <3>1. CASE n = m + 1
      BY <2>3, <3>1 DEF next
    <3>2. CASE n \in 1 .. m
      <4>1. n \in 0 .. m /\ n - 1 \in 0 .. m
        BY <3>2
      <4> QED BY <2>1, <2>3, <3>2, <4>1
    <3> QED BY <3>1, <3>2
  <2> QED BY <2>3, <2>4, <2>5
<1>3. N \in T
  BY <1>1, <1>2, SetInduction
<1> QED BY <1>3 DEF Follows
-----------------------------------------------------------------------------
(* The dictionary of the newest reports.                                   *)

\* A set of places in a list has a least one.
LEMMA MinIsMember ==
  ASSUME NEW n \in Nat, NEW I \in SUBSET (1 .. n), I # {}
  PROVE  Min(I) \in I
<1>1. I \subseteq Nat
  OBVIOUS
<1>2. PICK least \in I : \A i \in I : ~(<<i, least>> \in OpToRel(<, Nat))
  BY <1>1, NatLessThanWellFounded, WFMin
<1>3. ASSUME NEW i \in I PROVE least <= i
  <2> SUFFICES ASSUME ~(least <= i) PROVE FALSE
    OBVIOUS
  <2>1. i \in Nat /\ least \in Nat
    BY <1>1
  <2>2. i < least
    BY <2>1
  <2>3. <<i, least>> \in OpToRel(<, Nat)
    BY <2>1, <2>2 DEF OpToRel
  <2> QED BY <1>2, <2>3
<1> QED BY <1>3 DEF Min

PlaceOf(newest, report) == SelectInSeq(newest, LAMBDA r : SameKey(r, report))

\* Where a report of the same receiver and band is, if there is one.
LEMMA PlaceIsFound ==
  ASSUME NEW newest \in Seq(SampleReports), NEW report
  PROVE  \/ /\ PlaceOf(newest, report) = 0
            /\ \A i \in 1 .. Len(newest) : ~SameKey(newest[i], report)
         \/ /\ PlaceOf(newest, report) \in 1 .. Len(newest)
            /\ SameKey(newest[PlaceOf(newest, report)], report)
<1> DEFINE I == {i \in 1 .. Len(newest) : SameKey(newest[i], report)}
<1>1. PlaceOf(newest, report) = IF I # {} THEN Min(I) ELSE 0
  BY DEF PlaceOf, SelectInSeq
<1>2. I # {} => Min(I) \in I
  <2>1. Len(newest) \in Nat /\ I \in SUBSET (1 .. Len(newest))
    BY LenProperties
  <2> HIDE DEF I
  <2> QED BY <2>1, MinIsMember
<1> QED BY <1>1, <1>2

\* There is one report of a receiver on a band, and there is one as new as this.
Dictionary(newest) ==
  /\ newest \in Seq(SampleReports)
  /\ \A i, j \in 1 .. Len(newest) : SameKey(newest[i], newest[j]) => i = j
Covers(newest, report) ==
  \E i \in 1 .. Len(newest) : SameKey(newest[i], report) /\ newest[i].age <= report.age

\* Keep leaves a dictionary that covers what it covered, and the report besides.
LEMMA KeepCovers ==
  ASSUME NEW newest, Dictionary(newest), NEW report \in SampleReports
  PROVE  /\ Dictionary(Keep(newest, report))
         /\ Covers(Keep(newest, report), report)
         /\ \A r \in SampleReports :
              Covers(newest, r) => Covers(Keep(newest, report), r)
<1> DEFINE at == PlaceOf(newest, report)
           kept == Keep(newest, report)
<1>1. /\ newest \in Seq(SampleReports) /\ Len(newest) \in Nat
      /\ \A i \in 1 .. Len(newest) : newest[i] \in SampleReports
  BY LenProperties, ElementOfSeq DEF Dictionary
<1>2. kept = IF at = 0 THEN Append(newest, report)
             ELSE IF report.age < newest[at].age THEN [newest EXCEPT ![at] = report]
             ELSE newest
  BY DEF Keep, PlaceOf
<1>3. \A i, j \in 1 .. Len(newest) : SameKey(newest[i], newest[j]) => i = j
  BY DEF Dictionary
<1> HIDE DEF at, kept
<1>4. CASE at = 0
  <2>1. /\ kept \in Seq(SampleReports) /\ Len(kept) = Len(newest) + 1
        /\ \A i \in 1 .. Len(newest) : kept[i] = newest[i]
        /\ kept[Len(newest) + 1] = report
    BY <1>1, <1>2, <1>4, AppendProperties
  <2>2. \A i \in 1 .. Len(newest) : ~SameKey(newest[i], report)
    BY <1>1, <1>4, PlaceIsFound DEF at
  <2>3. Dictionary(kept)
    <3> SUFFICES ASSUME NEW i \in 1 .. Len(newest) + 1, NEW j \in 1 .. Len(newest) + 1,
                        SameKey(kept[i], kept[j]), i # j
                 PROVE  FALSE
      BY <2>1 DEF Dictionary
    <3>1. ~(i \in 1 .. Len(newest) /\ j \in 1 .. Len(newest))
      BY <1>3, <2>1
    <3>2. ~(i \in 1 .. Len(newest) /\ j = Len(newest) + 1)
      BY <2>1, <2>2
    <3>3. ~(j \in 1 .. Len(newest) /\ i = Len(newest) + 1)
      BY <2>1, <2>2 DEF SameKey
    <3> QED BY <1>1, <3>1, <3>2, <3>3
  <2>4. Covers(kept, report)
    <3>1. Len(newest) + 1 \in 1 .. Len(kept) /\ report.age <= report.age
      BY <1>1, <2>1, AgesAssumption
    <3> QED BY <2>1, <3>1 DEF Covers, SameKey
  <2>5. ASSUME NEW r \in SampleReports, Covers(newest, r) PROVE Covers(kept, r)
    <3>1. PICK i \in 1 .. Len(newest) : SameKey(newest[i], r) /\ newest[i].age <= r.age
      BY <2>5 DEF Covers
    <3>2. i \in 1 .. Len(kept) /\ kept[i] = newest[i]
      BY <1>1, <2>1
    <3> QED BY <3>1, <3>2 DEF Covers
  <2> QED BY <2>3, <2>4, <2>5 DEF kept
<1>5. ASSUME at # 0
      PROVE  at \in 1 .. Len(newest) /\ SameKey(newest[at], report)
  BY <1>1, <1>5, PlaceIsFound DEF at
<1>6. CASE at # 0 /\ report.age < newest[at].age
  <2>1. /\ kept \in Seq(SampleReports) /\ Len(kept) = Len(newest)
        /\ \A i \in 1 .. Len(newest) : kept[i] = IF i = at THEN report ELSE newest[i]
    BY <1>1, <1>2, <1>5, <1>6
  <2>2. \A i \in 1 .. Len(newest) : \A r : SameKey(kept[i], r) <=> SameKey(newest[i], r)
    BY <1>5, <1>6, <2>1 DEF SameKey
  <2>3. \A i, j \in 1 .. Len(newest) :
          SameKey(kept[i], kept[j]) <=> SameKey(newest[i], newest[j])
    BY <1>5, <1>6, <2>1 DEF SameKey
  <2>4. Dictionary(kept)
    BY <1>3, <2>1, <2>3 DEF Dictionary
  <2>5. \A i \in 1 .. Len(newest) : kept[i].age <= newest[i].age
    BY <1>1, <1>6, <2>1, AgesAssumption
  <2>6. Covers(kept, report)
    <3>1. report.age <= report.age
      BY AgesAssumption
    <3> QED BY <1>5, <1>6, <2>1, <3>1 DEF Covers, SameKey
  <2>7. ASSUME NEW r \in SampleReports, Covers(newest, r) PROVE Covers(kept, r)
    <3>1. PICK i \in 1 .. Len(newest) : SameKey(newest[i], r) /\ newest[i].age <= r.age
      BY <2>7 DEF Covers
    <3>2. kept[i].age \in Int /\ newest[i].age \in Int /\ r.age \in Int
      BY <1>1, <2>1, AgesAssumption
    <3>3. kept[i].age <= r.age
      BY <2>5, <3>1, <3>2
    <3> QED BY <2>1, <2>2, <3>1, <3>3 DEF Covers
  <2> QED BY <2>4, <2>6, <2>7 DEF kept
<1>7. CASE at # 0 /\ ~(report.age < newest[at].age)
  <2>1. kept = newest
    BY <1>2, <1>7
  <2>2. newest[at].age <= report.age
    BY <1>1, <1>5, <1>7, AgesAssumption
  <2> QED BY <1>5, <1>7, <2>1, <2>2 DEF Covers, kept
<1> QED BY <1>4, <1>6, <1>7

\* A report that is no newer than one of the same receiver and band is dropped.
LEMMA KeepIdle ==
  ASSUME NEW newest, Dictionary(newest), NEW r \in SampleReports, Covers(newest, r),
         NEW report \in SampleReports, SameKey(report, r), report.age >= r.age
  PROVE  Keep(newest, report) = newest
<1> DEFINE at == PlaceOf(newest, report)
<1>1. /\ newest \in Seq(SampleReports)
      /\ \A i \in 1 .. Len(newest) : newest[i] \in SampleReports
  BY ElementOfSeq DEF Dictionary
<1>2. PICK i \in 1 .. Len(newest) : SameKey(newest[i], r) /\ newest[i].age <= r.age
  BY DEF Covers
<1>3. SameKey(newest[i], report)
  BY <1>2 DEF SameKey
<1>4. at \in 1 .. Len(newest) /\ SameKey(newest[at], report)
  BY <1>1, <1>3, PlaceIsFound
<1>5. at = i
  <2>1. SameKey(newest[at], newest[i])
    BY <1>3, <1>4 DEF SameKey
  <2> QED BY <1>4, <2>1 DEF Dictionary
<1>6. at # 0 /\ ~(report.age < newest[at].age)
  BY <1>1, <1>2, <1>4, <1>5, AgesAssumption
<1> QED BY <1>6 DEF Keep, PlaceOf

NextNewest(list, n, newest) ==
  IF Usable(list[n]) THEN Keep(newest, list[n]) ELSE newest
IsReadOff(f, list) ==
  f[0] = <<>> /\ \A n \in 1 .. Len(list) : f[n] = NextNewest(list, n, f[n - 1])

\* NewestByReceiver takes one report after the other.
LEMMA NewestUnfolds ==
  ASSUME NEW list \in Seq(SampleReports)
  PROVE  \E f : IsReadOff(f, list) /\ NewestByReceiver(list) = f[Len(list)]
<1> DEFINE N == Len(list)
           S == {newest \in Seq(SampleReports) : Dictionary(newest)}
           Step(f, n) == IF n = 0 THEN <<>> ELSE NextNewest(list, n, f[n - 1])
<1>1. N \in Nat /\ \A n \in 1 .. N : list[n] \in SampleReports
  BY LenProperties, ElementOfSeq
<1>2. ASSUME NEW newest \in S, NEW n \in 1 .. N PROVE NextNewest(list, n, newest) \in S
  <2>1. Dictionary(newest) /\ list[n] \in SampleReports
    BY <1>1
  <2>2. Dictionary(Keep(newest, list[n])) /\ Keep(newest, list[n]) \in Seq(SampleReports)
    BY <2>1, KeepCovers DEF Dictionary
  <2> QED BY <2>2 DEF NextNewest
<1>3. <<>> \in S
  BY EmptySeq DEF Dictionary
<1>4. \E f : f = [n \in 0 .. N |-> Step(f, n)]
  <2> DEFINE step == [n \in 1 .. N |-> [x \in S |-> NextNewest(list, n, x)]]
  <2>1. step \in Steps(N, S)
    <3> HIDE DEF S
    <3> QED BY <1>2 DEF Steps
  <2>2. PICK f \in [0 .. N -> S] :
          f[0] = <<>> /\ \A n \in 1 .. N : f[n] = step[n][f[n - 1]]
    <3> HIDE DEF step, N, S
    <3>1. \E f \in [0 .. N -> S] : Follows(f, N, <<>>, step)
      BY <1>1, <1>3, <2>1, Recursion
    <3> QED BY <3>1 DEF Follows
  <2> HIDE DEF S
  <2>3. ASSUME NEW n \in 0 .. N PROVE f[n] = Step(f, n)
    <3>1. n # 0 => n \in 1 .. N /\ f[n - 1] \in S
      BY <1>1
    <3> QED BY <2>2, <3>1
  <2>4. f = [n \in 0 .. N |-> f[n]]
    OBVIOUS
  <2>5. f = [n \in 0 .. N |-> Step(f, n)]
    <3> HIDE DEF Step
    <3> QED BY <2>3, <2>4
  <2> QED BY <2>5
<1> DEFINE read == CHOOSE f : f = [n \in 0 .. N |-> Step(f, n)]
<1>5. NewestByReceiver(list) = read[N]
  BY DEF NewestByReceiver, NextNewest
<1>6. read = [n \in 0 .. N |-> Step(read, n)]
  BY <1>4
<1> HIDE DEF read
<1>7. \A n \in 0 .. N : read[n] = Step(read, n)
  BY <1>6
<1>8. IsReadOff(read, list)
  BY <1>1, <1>7 DEF IsReadOff
<1> QED BY <1>5, <1>8

\* What has been read so far is a dictionary that covers every usable report.
LEMMA ReadOffCovers ==
  ASSUME NEW list \in Seq(SampleReports), NEW f, IsReadOff(f, list)
  PROVE  \A n \in 0 .. Len(list) :
           /\ Dictionary(f[n])
           /\ \A i \in 1 .. n : Usable(list[i]) => Covers(f[n], list[i])
<1> DEFINE N == Len(list)
           Right(n) == /\ Dictionary(f[n])
                       /\ \A i \in 1 .. n : Usable(list[i]) => Covers(f[n], list[i])
           T == {n \in Nat : n <= N => Right(n)}
<1>1. N \in Nat /\ \A n \in 1 .. N : list[n] \in SampleReports
  BY LenProperties, ElementOfSeq
<1>2. 0 \in T
  <2>1. f[0] = <<>> /\ Len(<<>>) = 0 /\ <<>> \in Seq(SampleReports)
    BY EmptySeq DEF IsReadOff
  <2>2. Dictionary(<<>>)
    BY <2>1 DEF Dictionary
  <2>3. Dictionary(f[0])
    BY <2>1, <2>2
  <2> QED BY <2>3
<1>3. ASSUME NEW n \in Nat, n \in T PROVE n + 1 \in T
  <2> SUFFICES ASSUME n + 1 <= N PROVE Right(n + 1)
    OBVIOUS
  <2>1. Right(n) /\ n + 1 \in 1 .. N /\ (n + 1) - 1 = n
    BY <1>1, <1>3
  <2>2. f[n + 1] = NextNewest(list, n + 1, f[n]) /\ list[n + 1] \in SampleReports
    BY <1>1, <2>1 DEF IsReadOff
  <2>3. /\ Dictionary(f[n + 1])
        /\ Usable(list[n + 1]) => Covers(f[n + 1], list[n + 1])
        /\ \A r \in SampleReports : Covers(f[n], r) => Covers(f[n + 1], r)
    <3>1. CASE Usable(list[n + 1])
      <4>1. f[n + 1] = Keep(f[n], list[n + 1])
        BY <2>2, <3>1 DEF NextNewest
      <4> QED BY <2>1, <2>2, <4>1, KeepCovers
    <3>2. CASE ~Usable(list[n + 1])
      BY <2>1, <2>2, <3>2 DEF NextNewest
    <3> QED BY <3>1, <3>2
  <2>4. ASSUME NEW i \in 1 .. n + 1, Usable(list[i]) PROVE Covers(f[n + 1], list[i])
    <3>1. i = n + 1 \/ (i \in 1 .. n /\ i \in 1 .. N)
      BY <1>1, <2>1
    <3> QED BY <1>1, <2>1, <2>3, <2>4, <3>1
  <2> QED BY <2>3, <2>4
<1>4. ASSUME NEW n \in 0 .. N PROVE Right(n)
  <2> HIDE DEF T
  <2>1. Nat \subseteq T
    BY <1>2, <1>3, SetInduction
  <2>2. n \in Nat /\ n <= N
    BY <1>1
  <2> QED BY <2>1, <2>2 DEF T
<1> QED BY <1>4

\* The dictionary of a longer answer.
LEMMA NewestOfMore ==
  ASSUME NEW list \in Seq(SampleReports), NEW report \in SampleReports
  PROVE  NewestByReceiver(Append(list, report))
           = IF Usable(report) THEN Keep(NewestByReceiver(list), report)
             ELSE NewestByReceiver(list)
<1> DEFINE more == Append(list, report)
           N == Len(list)
<1>1. /\ N \in Nat /\ more \in Seq(SampleReports) /\ Len(more) = N + 1
      /\ \A n \in 1 .. N : more[n] = list[n]
      /\ more[N + 1] = report
  BY LenProperties, AppendProperties
<1> HIDE DEF more
<1>2. PICK f : IsReadOff(f, list) /\ NewestByReceiver(list) = f[N]
  BY NewestUnfolds
<1>3. PICK g : IsReadOff(g, more) /\ NewestByReceiver(more) = g[N + 1]
  BY <1>1, NewestUnfolds
<1> DEFINE T == {n \in Nat : n <= N => f[n] = g[n]}
<1>4. 0 \in T
  BY <1>2, <1>3 DEF IsReadOff
<1>5. ASSUME NEW n \in Nat, n \in T PROVE n + 1 \in T
  <2> SUFFICES ASSUME n + 1 <= N PROVE f[n + 1] = g[n + 1]
    OBVIOUS
  <2>1. f[n] = g[n] /\ n + 1 \in 1 .. N /\ n + 1 \in 1 .. N + 1 /\ (n + 1) - 1 = n
    BY <1>1, <1>5
  <2>2. /\ f[n + 1] = NextNewest(list, n + 1, f[n])
        /\ g[n + 1] = NextNewest(more, n + 1, g[n])
    BY <1>1, <1>2, <1>3, <2>1 DEF IsReadOff
  <2> QED BY <1>1, <2>1, <2>2 DEF NextNewest
<1>6. f[N] = g[N]
  <2> HIDE DEF T
  <2>1. Nat \subseteq T
    BY <1>4, <1>5, SetInduction
  <2> QED BY <1>1, <2>1 DEF T
<1>7. g[N + 1] = NextNewest(more, N + 1, g[N])
  <2>1. N + 1 \in 1 .. Len(more) /\ (N + 1) - 1 = N
    BY <1>1
  <2> QED BY <1>3, <2>1 DEF IsReadOff
<1> QED BY <1>1, <1>2, <1>3, <1>6, <1>7 DEF NextNewest, more

\* However long the answer and whatever is in it: a report that a receiver repeats, no
\* newer than one already read, leaves the ranking as it is (pskreporter.py:117-137).
THEOREM RepeatsIgnored == Reading => RepeatsAddNothing
<1> DEFINE Inv == reports \in Seq(SampleReports)
<1>1. NoReports => Inv
  BY EmptySeq DEF NoReports
<1>2. Inv /\ [ReadReport]_reports => Inv'
  BY AppendProperties DEF ReadReport
<1>3. Inv /\ [ReadReport]_reports
        => [\A i \in DOMAIN reports :
              /\ Usable(reports[i]) /\ SameKey(Last(reports'), reports[i])
              /\ Last(reports').age >= reports[i].age
              => Ranked(reports') = Ranked(reports)]_reports
  <2> SUFFICES ASSUME reports \in Seq(SampleReports), ReadReport,
                      NEW i \in DOMAIN reports, Usable(reports[i]),
                      SameKey(Last(reports'), reports[i]),
                      Last(reports').age >= reports[i].age
               PROVE  Ranked(reports') = Ranked(reports)
    OBVIOUS
  <2>1. PICK report \in SampleReports : reports' = Append(reports, report)
    BY DEF ReadReport
  <2>2. Last(reports') = report /\ i \in 1 .. Len(reports) /\ reports[i] \in SampleReports
    <3>1. /\ Len(reports) \in Nat /\ DOMAIN reports = 1 .. Len(reports)
          /\ \A j \in 1 .. Len(reports) : reports[j] \in SampleReports
      BY LenProperties, ElementOfSeq
    <3>2. Len(reports') = Len(reports) + 1 /\ reports'[Len(reports) + 1] = report
      BY <2>1, AppendProperties
    <3> QED BY <3>1, <3>2 DEF Last
  <2>3. PICK f : IsReadOff(f, reports) /\ NewestByReceiver(reports) = f[Len(reports)]
    BY NewestUnfolds
  <2>4. /\ Dictionary(NewestByReceiver(reports))
        /\ Covers(NewestByReceiver(reports), reports[i])
    <3>1. Len(reports) \in 0 .. Len(reports)
      BY LenProperties
    <3> QED BY <2>2, <2>3, <3>1, ReadOffCovers
  <2>5. Keep(NewestByReceiver(reports), report) = NewestByReceiver(reports)
    BY <2>2, <2>4, KeepIdle
  <2>6. NewestByReceiver(reports') = NewestByReceiver(reports)
    BY <2>1, <2>5, NewestOfMore
  <2> QED BY <2>6 DEF Ranked, rank_bands
<1> QED BY <1>1, <1>2, <1>3, PTL DEF Reading, RepeatsAddNothing

-----------------------------------------------------------------------------
(* Sums.                                                                   *)

Picked(s) == CHOOSE x \in s : TRUE

\* f gives the sum of the values of w over every part of S.
IsSum(f, w, S) ==
  /\ f \in [SUBSET S -> Nat]
  /\ f[{}] = 0
  /\ \A s \in SUBSET S : s # {} => f[s] = w[Picked(s)] + f[s \ {Picked(s)}]

\* Every function on a finite set has sums.
LEMMA SumExists ==
  ASSUME NEW S, IsFiniteSet(S), NEW w \in [S -> Nat]
  PROVE  \E f : IsSum(f, w, S)
<1> DEFINE UpTo(f, n) ==
             /\ f \in [SUBSET S -> Nat]
             /\ f[{}] = 0
             /\ \A s \in SUBSET S : s # {} /\ Cardinality(s) <= n =>
                  f[s] = w[Picked(s)] + f[s \ {Picked(s)}]
           T == {n \in Nat : \E f : UpTo(f, n)}
<1>1. \A s \in SUBSET S : /\ Cardinality(s) \in Nat
                          /\ Cardinality(s) = 0 <=> s = {}
  BY FS_Subset, FS_CardinalityType, FS_EmptySet
<1>2. ASSUME NEW s \in SUBSET S, s # {}
      PROVE  /\ Picked(s) \in s /\ Picked(s) \in S /\ s \ {Picked(s)} \in SUBSET S
             /\ Cardinality(s \ {Picked(s)}) = Cardinality(s) - 1
  <2>1. Picked(s) \in s
    BY <1>2 DEF Picked
  <2>2. IsFiniteSet(s)
    BY FS_Subset
  <2> QED BY <2>1, <2>2, FS_RemoveElement
<1>3. 0 \in T
  <2> DEFINE f == [s \in SUBSET S |-> 0]
  <2>1. f \in [SUBSET S -> Nat] /\ f[{}] = 0
    OBVIOUS
  <2>2. \A s \in SUBSET S : s # {} => ~(Cardinality(s) <= 0)
    BY <1>1
  <2> HIDE DEF f
  <2>3. UpTo(f, 0)
    BY <2>1, <2>2
  <2> QED BY <2>3
<1>4. ASSUME NEW n \in Nat, n \in T PROVE n + 1 \in T
  <2>1. PICK f : UpTo(f, n)
    BY <1>4
  <2> DEFINE g == [s \in SUBSET S |-> IF Cardinality(s) <= n THEN f[s]
                                      ELSE w[Picked(s)] + f[s \ {Picked(s)}]]
  <2>2. ASSUME NEW s \in SUBSET S, Cardinality(s) <= n PROVE g[s] = f[s]
    BY <2>2
  <2>3. ASSUME NEW s \in SUBSET S, ~(Cardinality(s) <= n)
        PROVE  g[s] = w[Picked(s)] + f[s \ {Picked(s)}]
    BY <2>3
  <2>4. g \in [SUBSET S -> Nat]
    <3> SUFFICES ASSUME NEW s \in SUBSET S PROVE g[s] \in Nat
      OBVIOUS
    <3> HIDE DEF g
    <3>1. CASE Cardinality(s) <= n
      BY <2>1, <2>2, <3>1
    <3>2. CASE ~(Cardinality(s) <= n)
      <4>1. s # {}
        BY <1>1, <3>2
      <4>2. w[Picked(s)] \in Nat /\ f[s \ {Picked(s)}] \in Nat
        BY <1>2, <2>1, <4>1
      <4> QED BY <2>3, <3>2, <4>2
    <3> QED BY <3>1, <3>2
  <2> HIDE DEF g
  <2>5. g[{}] = 0
    BY <1>1, <2>1, <2>2
  <2>6. ASSUME NEW s \in SUBSET S, s # {}, Cardinality(s) <= n + 1
        PROVE  g[s] = w[Picked(s)] + g[s \ {Picked(s)}]
    <3>1. Cardinality(s \ {Picked(s)}) <= n /\ s \ {Picked(s)} \in SUBSET S
      BY <1>1, <1>2, <2>6
    <3>2. g[s \ {Picked(s)}] = f[s \ {Picked(s)}]
      BY <2>2, <3>1
    <3>3. CASE Cardinality(s) <= n
      BY <2>1, <2>2, <2>6, <3>2, <3>3
    <3>4. CASE ~(Cardinality(s) <= n)
      BY <2>3, <3>2, <3>4
    <3> QED BY <3>3, <3>4
  <2>7. UpTo(g, n + 1)
    BY <2>4, <2>5, <2>6
  <2> QED BY <2>7
<1>5. Cardinality(S) \in T
  <2> HIDE DEF T
  <2>1. Nat \subseteq T
    BY <1>3, <1>4, SetInduction
  <2> QED BY <1>1, <2>1
<1>6. PICK f : UpTo(f, Cardinality(S))
  BY <1>5
<1>7. \A s \in SUBSET S : Cardinality(s) <= Cardinality(S)
  BY FS_Subset
<1> QED BY <1>6, <1>7 DEF IsSum

\* SumFunction is one of them.
LEMMA SumFunctionIsSum ==
  ASSUME NEW S, IsFiniteSet(S), NEW w \in [S -> Nat]
  PROVE  \E f : IsSum(f, w, S) /\ SumFunction(w) = f[S]
<1> DEFINE Step(f, s) == IF s = {} THEN 0 ELSE w[Picked(s)] + f[s \ {Picked(s)}]
           iter == CHOOSE f : f = [s \in SUBSET S |-> Step(f, s)]
<1>1. SumFunction(w) = iter[S]
  <2>1. DOMAIN w = S
    OBVIOUS
  <2>2. SumFunction(w) = SumFunctionOnSet(w, S)
    BY <2>1 DEF SumFunction
  <2> QED BY <2>2 DEF SumFunctionOnSet, FoldFunctionOnSet, MapThenFoldSet, Picked
<1>2. PICK f : IsSum(f, w, S)
  BY SumExists
<1>3. f = [s \in SUBSET S |-> Step(f, s)]
  <2>1. f = [s \in SUBSET S |-> f[s]]
    BY <1>2 DEF IsSum
  <2>2. \A s \in SUBSET S : f[s] = Step(f, s)
    BY <1>2 DEF IsSum
  <2> HIDE DEF Step
  <2> QED BY <2>1, <2>2
<1>4. iter = [s \in SUBSET S |-> Step(iter, s)]
  <2> HIDE DEF Step
  <2> QED BY <1>3
<1> HIDE DEF iter
<1>5. \A s \in SUBSET S : /\ Cardinality(s) \in Nat
                          /\ Cardinality(s) = 0 <=> s = {}
  BY FS_Subset, FS_CardinalityType, FS_EmptySet
<1> DEFINE T == {n \in Nat : \A s \in SUBSET S : Cardinality(s) <= n => iter[s] = f[s]}
<1>6. \A s \in SUBSET S : iter[s] = Step(iter, s) /\ f[s] = Step(f, s)
  <2> HIDE DEF Step
  <2> QED BY <1>3, <1>4
<1>7. 0 \in T
  <2> SUFFICES ASSUME NEW s \in SUBSET S, Cardinality(s) <= 0 PROVE iter[s] = f[s]
    OBVIOUS
  <2>1. s = {}
    BY <1>5
  <2> QED BY <1>6, <2>1
<1>8. ASSUME NEW n \in Nat, n \in T PROVE n + 1 \in T
  <2> SUFFICES ASSUME NEW s \in SUBSET S, Cardinality(s) <= n + 1, s # {}
               PROVE  iter[s] = f[s]
    BY <1>6
  <2>1. IsFiniteSet(s) /\ Picked(s) \in s
    BY FS_Subset DEF Picked
  <2>2. s \ {Picked(s)} \in SUBSET S /\ Cardinality(s \ {Picked(s)}) <= n
    <3>1. Cardinality(s \ {Picked(s)}) = Cardinality(s) - 1
      BY <2>1, FS_RemoveElement
    <3> QED BY <1>5, <3>1
  <2>3. iter[s \ {Picked(s)}] = f[s \ {Picked(s)}]
    BY <1>8, <2>2
  <2> QED BY <1>6, <2>3
<1>9. iter[S] = f[S]
  <2> HIDE DEF T
  <2>1. Nat \subseteq T
    BY <1>7, <1>8, SetInduction
  <2> QED BY <1>5, <2>1 DEF T
<1> QED BY <1>1, <1>2, <1>9

\* Any of the elements may be taken out first.
LEMMA SumAny ==
  ASSUME NEW S, IsFiniteSet(S), NEW w \in [S -> Nat], NEW f, IsSum(f, w, S),
         NEW t \in SUBSET S, NEW e \in t
  PROVE  f[t] = w[e] + f[t \ {e}]
<1> DEFINE T == {n \in Nat : \A s \in SUBSET S : Cardinality(s) <= n =>
                               \A x \in s : f[s] = w[x] + f[s \ {x}]}
<1>1. \A s \in SUBSET S : /\ IsFiniteSet(s) /\ Cardinality(s) \in Nat
                          /\ Cardinality(s) = 0 <=> s = {}
  BY FS_Subset, FS_CardinalityType, FS_EmptySet
<1>2. /\ f \in [SUBSET S -> Nat]
      /\ \A s \in SUBSET S : s # {} => f[s] = w[Picked(s)] + f[s \ {Picked(s)}]
  BY DEF IsSum
<1>3. 0 \in T
  BY <1>1
<1>4. ASSUME NEW n \in Nat, n \in T PROVE n + 1 \in T
  <2> SUFFICES ASSUME NEW s \in SUBSET S, Cardinality(s) <= n + 1, NEW x \in s
               PROVE  f[s] = w[x] + f[s \ {x}]
    OBVIOUS
  <2> DEFINE y == Picked(s)
  <2>1. y \in s
    BY DEF Picked
  <2>2. f[s] = w[y] + f[s \ {y}]
    BY <1>2, <2>1
  <2> HIDE DEF y
  <2>3. CASE x = y
    BY <2>2, <2>3
  <2>4. CASE x # y
    <3>1. /\ s \ {y} \in SUBSET S /\ Cardinality(s \ {y}) <= n /\ x \in s \ {y}
          /\ s \ {x} \in SUBSET S /\ Cardinality(s \ {x}) <= n /\ y \in s \ {x}
      BY <1>1, <2>1, <2>4, FS_RemoveElement
    <3>2. f[s \ {y}] = w[x] + f[(s \ {y}) \ {x}]
      BY <1>4, <3>1
    <3>3. f[s \ {x}] = w[y] + f[(s \ {x}) \ {y}]
      BY <1>4, <3>1
    <3> DEFINE rest == f[(s \ {x}) \ {y}]
    <3>4. (s \ {y}) \ {x} = (s \ {x}) \ {y} /\ (s \ {x}) \ {y} \in SUBSET S
      OBVIOUS
    <3>5. rest \in Nat /\ w[x] \in Nat /\ w[y] \in Nat
      BY <1>2, <2>1, <3>4
    <3>6. f[s \ {y}] = w[x] + rest
      BY <3>2, <3>4
    <3>7. f[s] = w[y] + (w[x] + rest) /\ f[s \ {x}] = w[y] + rest
      BY <2>2, <3>3, <3>6
    <3> HIDE DEF rest
    <3> QED BY <3>5, <3>7
  <2> QED BY <2>3, <2>4
<1>5. Cardinality(t) \in T
  <2> HIDE DEF T
  <2>1. Nat \subseteq T
    BY <1>3, <1>4, SetInduction
  <2> QED BY <1>1, <2>1
<1> QED BY <1>1, <1>5

\* A sum over more elements, or of greater ones, is no less.
LEMMA SumBelow ==
  ASSUME NEW S, IsFiniteSet(S), NEW w \in [S -> Nat],
         NEW R, IsFiniteSet(R), NEW v \in [R -> Nat],
         NEW h \in [S -> R], \A x, y \in S : h[x] = h[y] => x = y,
         \A x \in S : w[x] <= v[h[x]]
  PROVE  SumFunction(w) <= SumFunction(v) /\ SumFunction(w) \in Nat
<1>1. PICK f : IsSum(f, w, S) /\ SumFunction(w) = f[S]
  BY SumFunctionIsSum
<1>2. PICK g : IsSum(g, v, R) /\ SumFunction(v) = g[R]
  BY SumFunctionIsSum
<1>3. /\ f \in [SUBSET S -> Nat] /\ f[{}] = 0
      /\ g \in [SUBSET R -> Nat]
  BY <1>1, <1>2 DEF IsSum
<1>4. \A t \in SUBSET R : /\ IsFiniteSet(t) /\ Cardinality(t) \in Nat
                          /\ Cardinality(t) = 0 <=> t = {}
  BY FS_Subset, FS_CardinalityType, FS_EmptySet
<1> DEFINE T == {n \in Nat : \A t \in SUBSET R : Cardinality(t) <= n =>
                   \A s \in SUBSET S : (\A x \in s : h[x] \in t) => f[s] <= g[t]}
<1>5. 0 \in T
  <2> SUFFICES ASSUME NEW t \in SUBSET R, Cardinality(t) <= 0,
                      NEW s \in SUBSET S, \A x \in s : h[x] \in t
               PROVE  f[s] <= g[t]
    OBVIOUS
  <2>1. t = {} /\ s = {}
    BY <1>4
  <2> QED BY <1>3, <2>1
<1>6. ASSUME NEW n \in Nat, n \in T PROVE n + 1 \in T
  <2> SUFFICES ASSUME NEW t \in SUBSET R, Cardinality(t) <= n + 1,
                      NEW s \in SUBSET S, \A x \in s : h[x] \in t
               PROVE  f[s] <= g[t]
    OBVIOUS
  <2>1. CASE t = {}
    <3>1. s = {}
      BY <2>1
    <3> QED BY <1>3, <2>1, <3>1
  <2>2. CASE t # {}
    <3>1. PICK y \in t : TRUE
      BY <2>2
    <3> DEFINE u == t \ {y}
    <3>2. u \in SUBSET R /\ Cardinality(u) <= n
      BY <1>4, <3>1, FS_RemoveElement
    <3>3. g[t] = v[y] + g[u] /\ v[y] \in Nat /\ g[u] \in Nat
      BY <1>2, <1>3, <3>2, SumAny
    <3> HIDE DEF u
    <3>4. CASE \E x \in s : h[x] = y
      <4>1. PICK x \in s : h[x] = y
        BY <3>4
      <4> DEFINE r == s \ {x}
      <4>2. r \in SUBSET S /\ \A z \in r : h[z] \in u
        BY <4>1 DEF u
      <4>3. f[s] = w[x] + f[r] /\ w[x] \in Nat /\ f[r] \in Nat
        BY <1>1, <1>3, <4>2, SumAny
      <4>4. f[r] <= g[u] /\ w[x] <= v[y]
        BY <1>6, <3>2, <4>1, <4>2
      <4> HIDE DEF r
      <4> QED BY <3>3, <4>3, <4>4
    <3>5. CASE ~\E x \in s : h[x] = y
      <4>1. \A x \in s : h[x] \in u
        BY <3>5 DEF u
      <4>2. f[s] <= g[u] /\ f[s] \in Nat
        BY <1>3, <1>6, <3>2, <4>1
      <4> QED BY <3>3, <4>2
    <3> QED BY <3>4, <3>5
  <2> QED BY <2>1, <2>2
<1>7. f[S] <= g[R]
  <2> HIDE DEF T
  <2>1. Nat \subseteq T
    BY <1>5, <1>6, SetInduction
  <2>2. Cardinality(R) \in T /\ Cardinality(R) <= Cardinality(R)
    BY <1>4, <2>1
  <2> QED BY <2>2 DEF T
<1> QED BY <1>1, <1>2, <1>3, <1>7

\* Sums over the same values are the same.
LEMMA SumSame ==
  ASSUME NEW S, IsFiniteSet(S), NEW w \in [S -> Nat],
         NEW R, IsFiniteSet(R), NEW v \in [R -> Nat],
         NEW h \in Bijection(S, R), \A x \in S : w[x] = v[h[x]]
  PROVE  SumFunction(w) = SumFunction(v) /\ SumFunction(w) \in Nat
<1>1. /\ h \in [S -> R] /\ \A x, y \in S : h[x] = h[y] => x = y
      /\ \A y \in R : \E x \in S : h[x] = y
  BY DEF Bijection, Injection, Surjection, IsInjective
<1> DEFINE k == [y \in R |-> CHOOSE x \in S : h[x] = y]
<1>2. k \in [R -> S] /\ \A y \in R : h[k[y]] = y
  <2>1. \A y \in R : (CHOOSE x \in S : h[x] = y) \in S /\ h[CHOOSE x \in S : h[x] = y] = y
    BY <1>1
  <2> QED BY <2>1
<1> HIDE DEF k
<1>3. \A x, y \in R : k[x] = k[y] => x = y
  BY <1>2
<1>4. (\A x \in S : w[x] <= v[h[x]]) /\ (\A y \in R : v[y] <= w[k[y]])
  BY <1>1, <1>2
<1>5. SumFunction(w) <= SumFunction(v) /\ SumFunction(w) \in Nat
  BY <1>1, <1>4, SumBelow
<1>6. SumFunction(v) <= SumFunction(w) /\ SumFunction(v) \in Nat
  BY <1>2, <1>3, <1>4, SumBelow
<1> QED BY <1>5, <1>6

-----------------------------------------------------------------------------
(* What the dictionary holds: the reports that count.                      *)

\* Of the first n reports, the j-th is the one that counts for its receiver on its band.
IsVote(list, n, j) ==
  /\ j \in 1 .. n /\ Usable(list[j])
  /\ \A k \in 1 .. n : Usable(list[k]) /\ SameKey(list[j], list[k]) =>
       list[j].age < list[k].age \/ (list[j].age = list[k].age /\ j <= k)
HoldsVotes(list, n, newest) ==
  \A i \in 1 .. Len(newest) : \E j : IsVote(list, n, j) /\ newest[i] = list[j]

\* A report of another receiver or band takes no vote away.
LEMMA VoteStays ==
  ASSUME NEW list, NEW n \in Nat, NEW j, IsVote(list, n, j),
         Usable(list[n + 1]) /\ SameKey(list[j], list[n + 1])
           => list[j].age <= list[n + 1].age,
         list[j].age \in Int, list[n + 1].age \in Int
  PROVE  IsVote(list, n + 1, j)
<1>1. j \in 1 .. n + 1 /\ j <= n + 1
  BY DEF IsVote
<1>2. ASSUME NEW k \in 1 .. n + 1, Usable(list[k]), SameKey(list[j], list[k])
      PROVE  list[j].age < list[k].age \/ (list[j].age = list[k].age /\ j <= k)
  <2>1. CASE k = n + 1
    BY <1>1, <1>2, <2>1
  <2>2. CASE k \in 1 .. n
    BY <1>2, <2>2 DEF IsVote
  <2>3. k = n + 1 \/ k \in 1 .. n
    OBVIOUS
  <2> QED BY <2>1, <2>2, <2>3
<1> QED BY <1>1, <1>2 DEF IsVote

\* One more report.
LEMMA KeepVotes ==
  ASSUME NEW list \in Seq(SampleReports), NEW n \in Nat, n + 1 <= Len(list),
         NEW newest, Dictionary(newest), HoldsVotes(list, n, newest),
         \A i \in 1 .. n : Usable(list[i]) => Covers(newest, list[i])
  PROVE  HoldsVotes(list, n + 1, NextNewest(list, n + 1, newest))
<1> DEFINE report == list[n + 1]
           at == PlaceOf(newest, report)
           kept == NextNewest(list, n + 1, newest)
<1>1. /\ newest \in Seq(SampleReports) /\ Len(newest) \in Nat
      /\ \A i \in 1 .. Len(newest) : newest[i] \in SampleReports
      /\ \A i, j \in 1 .. Len(newest) : SameKey(newest[i], newest[j]) => i = j
      /\ report \in SampleReports
      /\ \A j \in 1 .. n + 1 : list[j] \in SampleReports
  BY LenProperties, ElementOfSeq DEF Dictionary
<1>2. \A r \in SampleReports : r.age \in Int
  BY AgesAssumption
\* What the dictionary holds of others stays.
<1>3. ASSUME NEW i \in 1 .. Len(newest),
             Usable(report) /\ SameKey(newest[i], report) => newest[i].age <= report.age
      PROVE  \E j : IsVote(list, n + 1, j) /\ newest[i] = list[j]
  <2>1. PICK j : IsVote(list, n, j) /\ newest[i] = list[j]
    BY DEF HoldsVotes
  <2>2. IsVote(list, n + 1, j)
    BY <1>1, <1>2, <1>3, <2>1, VoteStays
  <2> QED BY <2>1, <2>2
<1>4. CASE ~Usable(report)
  <2>1. kept = newest
    BY <1>4 DEF NextNewest
  <2>2. \A i \in 1 .. Len(newest) : \E j : IsVote(list, n + 1, j) /\ newest[i] = list[j]
    BY <1>3, <1>4
  <2> QED BY <2>1, <2>2 DEF HoldsVotes
<1>5. CASE Usable(report) /\ at = 0
  <2>1. \A i \in 1 .. Len(newest) : ~SameKey(newest[i], report)
    BY <1>1, <1>5, PlaceIsFound
  <2>2. kept = Append(newest, report)
    BY <1>5 DEF NextNewest, Keep, PlaceOf
  <2>3. /\ Len(kept) = Len(newest) + 1
        /\ \A i \in 1 .. Len(newest) : kept[i] = newest[i]
        /\ kept[Len(newest) + 1] = report
    BY <1>1, <2>2, AppendProperties
  <2>4. IsVote(list, n + 1, n + 1)
    <3>1. ASSUME NEW k \in 1 .. n, Usable(list[k]) PROVE ~SameKey(report, list[k])
      <4>1. PICK i \in 1 .. Len(newest) : SameKey(newest[i], list[k])
        BY <3>1 DEF Covers
      <4> QED BY <2>1, <4>1 DEF SameKey
    <3>2. \A k \in 1 .. n + 1 : k = n + 1 \/ k \in 1 .. n
      OBVIOUS
    <3> QED BY <1>5, <3>1, <3>2 DEF IsVote
  <2>5. ASSUME NEW i \in 1 .. Len(newest) + 1
        PROVE  \E j : IsVote(list, n + 1, j) /\ kept[i] = list[j]
    <3>1. i = Len(newest) + 1 \/ i \in 1 .. Len(newest)
      BY <1>1
    <3> QED BY <1>3, <2>1, <2>3, <2>4, <3>1
  <2> HIDE DEF kept
  <2> QED BY <2>3, <2>5 DEF HoldsVotes, kept
<1>6. ASSUME at # 0
      PROVE  at \in 1 .. Len(newest) /\ SameKey(newest[at], report)
  BY <1>1, <1>6, PlaceIsFound
<1>7. CASE Usable(report) /\ at # 0 /\ report.age < newest[at].age
  <2>1. kept = [newest EXCEPT ![at] = report]
    BY <1>7 DEF NextNewest, Keep, PlaceOf
  <2> HIDE DEF at
  <2>2. /\ Len(kept) = Len(newest)
        /\ \A i \in 1 .. Len(newest) : kept[i] = IF i = at THEN report ELSE newest[i]
    BY <1>1, <1>6, <1>7, <2>1
  <2>3. PICK j : IsVote(list, n, j) /\ newest[at] = list[j]
    BY <1>6, <1>7 DEF HoldsVotes
  <2>4. IsVote(list, n + 1, n + 1)
    <3>1. ASSUME NEW k \in 1 .. n, Usable(list[k]), SameKey(report, list[k])
          PROVE  report.age < list[k].age
      <4>1. SameKey(list[j], list[k])
        BY <1>6, <1>7, <2>3, <3>1 DEF SameKey
      <4>2. list[j].age <= list[k].age
        BY <1>1, <1>2, <2>3, <3>1, <4>1 DEF IsVote
      <4>3. list[j].age \in Int /\ list[k].age \in Int /\ report.age \in Int
        BY <1>1, <1>2, <2>3 DEF IsVote
      <4>4. report.age < list[j].age
        BY <1>7, <2>3
      <4> QED BY <4>2, <4>3, <4>4
    <3>2. \A k \in 1 .. n + 1 : k = n + 1 \/ k \in 1 .. n
      OBVIOUS
    <3> QED BY <1>7, <3>1, <3>2 DEF IsVote
  <2>5. ASSUME NEW i \in 1 .. Len(newest)
        PROVE  \E m : IsVote(list, n + 1, m) /\ kept[i] = list[m]
    <3>1. CASE i = at
      BY <2>2, <2>4, <3>1
    <3>2. CASE i # at
      <4>1. ~SameKey(newest[i], report)
        BY <1>1, <1>6, <1>7, <3>2 DEF SameKey
      <4> QED BY <1>3, <2>2, <3>2, <4>1
    <3> QED BY <3>1, <3>2
  <2> HIDE DEF kept
  <2> QED BY <2>2, <2>5 DEF HoldsVotes, kept
<1>8. CASE Usable(report) /\ at # 0 /\ ~(report.age < newest[at].age)
  <2>1. kept = newest
    BY <1>8 DEF NextNewest, Keep, PlaceOf
  <2> HIDE DEF at
  <2>2. ASSUME NEW i \in 1 .. Len(newest), SameKey(newest[i], report)
        PROVE  newest[i].age <= report.age
    <3>1. i = at
      BY <1>1, <1>6, <1>8, <2>2 DEF SameKey
    <3> QED BY <1>1, <1>2, <1>8, <3>1
  <2>3. \A i \in 1 .. Len(newest) : \E j : IsVote(list, n + 1, j) /\ newest[i] = list[j]
    BY <1>3, <2>2
  <2> QED BY <2>1, <2>3 DEF HoldsVotes
<1> QED BY <1>4, <1>5, <1>7, <1>8

\* The dictionary of an answer: each usable report is covered, and what is held counts.
LEMMA NewestHoldsVotes ==
  ASSUME NEW list \in Seq(SampleReports)
  PROVE  /\ Dictionary(NewestByReceiver(list))
         /\ HoldsVotes(list, Len(list), NewestByReceiver(list))
         /\ \A i \in 1 .. Len(list) :
              Usable(list[i]) => Covers(NewestByReceiver(list), list[i])
<1> DEFINE N == Len(list)
<1>1. PICK f : IsReadOff(f, list) /\ NewestByReceiver(list) = f[N]
  BY NewestUnfolds
<1>2. N \in Nat
  BY LenProperties
<1>3. \A n \in 0 .. N : /\ Dictionary(f[n])
                        /\ \A i \in 1 .. n : Usable(list[i]) => Covers(f[n], list[i])
  BY <1>1, ReadOffCovers
<1> DEFINE T == {n \in Nat : n <= N => HoldsVotes(list, n, f[n])}
<1>4. 0 \in T
  <2>1. f[0] = <<>> /\ Len(<<>>) = 0
    BY <1>1 DEF IsReadOff
  <2> QED BY <2>1 DEF HoldsVotes
<1>5. ASSUME NEW n \in Nat, n \in T PROVE n + 1 \in T
  <2> SUFFICES ASSUME n + 1 <= N PROVE HoldsVotes(list, n + 1, f[n + 1])
    OBVIOUS
  <2>1. n \in 0 .. N /\ n + 1 \in 1 .. N /\ (n + 1) - 1 = n /\ HoldsVotes(list, n, f[n])
    BY <1>2, <1>5
  <2>2. f[n + 1] = NextNewest(list, n + 1, f[n])
    BY <1>1, <2>1 DEF IsReadOff
  <2>3. HoldsVotes(list, n + 1, NextNewest(list, n + 1, f[n]))
    BY <1>3, <2>1, KeepVotes
  <2> QED BY <2>2, <2>3
<1>6. HoldsVotes(list, N, f[N])
  <2> HIDE DEF T
  <2>1. Nat \subseteq T
    BY <1>4, <1>5, SetInduction
  <2> QED BY <1>2, <2>1 DEF T
<1>7. N \in 0 .. N
  BY <1>2
<1> QED BY <1>1, <1>3, <1>6, <1>7

-----------------------------------------------------------------------------
(* The order of priorities.                                                *)

IsPriority(p) ==
  p.score \in Int /\ p.count \in Int /\ p.minutes \in Int /\ p.nearest \in Int
  /\ p.place \in Int

\* Before puts any two priorities of different places in an order.
LEMMA BeforeIsOrder ==
  /\ \A p, q : IsPriority(p) /\ IsPriority(q) =>
       /\ ~(Before(p, q) /\ Before(q, p))
       /\ p.place # q.place => Before(p, q) \/ Before(q, p)
  /\ \A p, q, r : IsPriority(p) /\ IsPriority(q) /\ IsPriority(r) =>
       (Before(p, q) /\ Before(q, r) => Before(p, r))
<1>1. ASSUME NEW p, NEW q, IsPriority(p), IsPriority(q)
      PROVE  /\ ~(Before(p, q) /\ Before(q, p))
             /\ p.place # q.place => Before(p, q) \/ Before(q, p)
  BY <1>1 DEF IsPriority, Before
<1>2. ASSUME NEW p, NEW q, NEW r, IsPriority(p), IsPriority(q), IsPriority(r),
             Before(p, q), Before(q, r)
      PROVE  Before(p, r)
  BY <1>2 DEF IsPriority, Before
<1> QED BY <1>1, <1>2

\* Different priorities of a set are those of different places.
Placed(P) == /\ IsFiniteSet(P) /\ \A p \in P : IsPriority(p)
             /\ \A p, q \in P : p.place = q.place => p = q
IsSorting(ranking, P) ==
  /\ ranking \in [1 .. Cardinality(P) -> P]
  /\ \A i, j \in DOMAIN ranking : i < j => Before(ranking[i], ranking[j])

\* There is an order of all of them: each has its place behind those before it.
LEMMA SortingExists ==
  ASSUME NEW P, Placed(P)
  PROVE  \E ranking : IsSorting(ranking, P)
<1> DEFINE n == Cardinality(P)
           Preceding(p) == {q \in P : Before(q, p)}
           rank == [p \in P |-> Cardinality(Preceding(p)) + 1]
<1>1. IsFiniteSet(P) /\ n \in Nat /\ \A p \in P : IsPriority(p)
  BY FS_CardinalityType DEF Placed
<1>2. ASSUME NEW p \in P
      PROVE  /\ IsFiniteSet(Preceding(p)) /\ Cardinality(Preceding(p)) \in Nat
             /\ Cardinality(Preceding(p)) + 1 <= n
  <2>1. Preceding(p) \in SUBSET P /\ p \notin Preceding(p) /\ Preceding(p) \cup {p} \in SUBSET P
    BY <1>1, BeforeIsOrder
  <2> HIDE DEF Preceding
  <2>2. IsFiniteSet(Preceding(p)) /\ Cardinality(Preceding(p)) \in Nat
    BY <1>1, <2>1, FS_Subset, FS_CardinalityType
  <2>3. Cardinality(Preceding(p) \cup {p}) = Cardinality(Preceding(p)) + 1
    BY <2>1, <2>2, FS_AddElement
  <2>4. Cardinality(Preceding(p) \cup {p}) <= n
    BY <1>1, <2>1, FS_Subset
  <2> QED BY <2>2, <2>3, <2>4
<1>3. ASSUME NEW p \in P, NEW q \in P, Before(p, q)
      PROVE  Cardinality(Preceding(p)) < Cardinality(Preceding(q))
  <2>1. Preceding(p) \cup {p} \in SUBSET Preceding(q) /\ p \notin Preceding(p)
    BY <1>1, <1>3, BeforeIsOrder
  <2>2. /\ IsFiniteSet(Preceding(p)) /\ Cardinality(Preceding(p)) \in Nat
        /\ IsFiniteSet(Preceding(q)) /\ Cardinality(Preceding(q)) \in Nat
    BY <1>2
  <2> HIDE DEF Preceding
  <2>3. Cardinality(Preceding(p) \cup {p}) = Cardinality(Preceding(p)) + 1
    BY <2>1, <2>2, FS_AddElement
  <2>4. Cardinality(Preceding(p) \cup {p}) <= Cardinality(Preceding(q))
    BY <2>1, <2>2, FS_Subset
  <2> QED BY <2>2, <2>3, <2>4
<1> HIDE DEF Preceding
<1>4. rank \in [P -> 1 .. n] /\ \A p \in P : rank[p] = Cardinality(Preceding(p)) + 1
  <2>1. \A p \in P : Cardinality(Preceding(p)) + 1 \in 1 .. n
    BY <1>1, <1>2
  <2> QED BY <2>1
<1> HIDE DEF rank
<1>5. \A p, q \in P : Before(p, q) => rank[p] < rank[q]
  BY <1>2, <1>3, <1>4
<1>6. \A p, q \in P : rank[p] = rank[q] => p = q
  <2> SUFFICES ASSUME NEW p \in P, NEW q \in P, rank[p] = rank[q], p # q PROVE FALSE
    OBVIOUS
  <2>1. Before(p, q) \/ Before(q, p)
    <3>1. p.place # q.place
      BY DEF Placed
    <3> QED BY <1>1, <3>1, BeforeIsOrder
  <2>2. rank[p] \in Nat /\ rank[q] \in Nat
    BY <1>1, <1>4
  <2> QED BY <1>5, <2>1, <2>2
<1>7. rank \in Surjection(P, 1 .. n)
  <2>1. rank \in Injection(P, 1 .. n)
    BY <1>4, <1>6, Fun_IsInj
  <2>2. IsFiniteSet(1 .. n) /\ Cardinality(1 .. n) = n
    BY <1>1, FS_Interval
  <2> QED BY <2>1, <2>2, FS_Injection
<1> DEFINE ranking == [i \in 1 .. n |-> CHOOSE p \in P : rank[p] = i]
<1>8. /\ ranking \in [1 .. n -> P]
      /\ \A i \in 1 .. n : rank[ranking[i]] = i
  <2>1. \A i \in 1 .. n : \E p \in P : rank[p] = i
    BY <1>7 DEF Surjection
  <2>2. \A i \in 1 .. n : /\ (CHOOSE p \in P : rank[p] = i) \in P
                          /\ rank[CHOOSE p \in P : rank[p] = i] = i
    BY <2>1
  <2> QED BY <2>2
<1> HIDE DEF ranking
<1>9. ASSUME NEW i \in 1 .. n, NEW j \in 1 .. n, i < j
      PROVE  Before(ranking[i], ranking[j])
  <2>1. ranking[i] \in P /\ ranking[j] \in P /\ rank[ranking[i]] < rank[ranking[j]]
    BY <1>8, <1>9
  <2>2. ~Before(ranking[j], ranking[i])
    <3>1. i \in Nat /\ j \in Nat
      BY <1>1
    <3> QED BY <1>5, <1>8, <1>9, <2>1, <3>1
  <2>3. ranking[i] # ranking[j]
    BY <1>1, <1>8, <1>9
  <2>4. ranking[i].place # ranking[j].place
    BY <2>1, <2>3 DEF Placed
  <2> QED BY <1>1, <2>1, <2>2, <2>4, BeforeIsOrder
<1>10. IsSorting(ranking, P)
  BY <1>8, <1>9 DEF IsSorting
<1> QED BY <1>10

\* Sorted puts each in its place, once.
LEMMA SortedSorts ==
  ASSUME NEW P, Placed(P)
  PROVE  /\ Sorted(P) \in [1 .. Cardinality(P) -> P] /\ Cardinality(P) \in Nat
         /\ \A i, j \in 1 .. Cardinality(P) :
              i < j <=> Before(Sorted(P)[i], Sorted(P)[j])
         /\ \A p \in P : \E i \in 1 .. Cardinality(P) : Sorted(P)[i] = p
<1> DEFINE n == Cardinality(P)
           ranking == Sorted(P)
<1>1. IsFiniteSet(P) /\ n \in Nat /\ \A p \in P : IsPriority(p)
  BY FS_CardinalityType DEF Placed
<1>2. IsSorting(ranking, P)
  <2>1. PICK r : IsSorting(r, P)
    BY SortingExists
  <2> QED BY <2>1 DEF IsSorting, Sorted
<1> HIDE DEF ranking
<1>3. /\ ranking \in [1 .. n -> P]
      /\ \A i, j \in 1 .. n : i < j => Before(ranking[i], ranking[j])
  BY <1>2 DEF IsSorting
<1>4. ASSUME NEW i \in 1 .. n, NEW j \in 1 .. n, Before(ranking[i], ranking[j])
      PROVE  i < j
  <2>1. ~Before(ranking[j], ranking[i])
    BY <1>1, <1>3, <1>4, BeforeIsOrder
  <2>2. ~(j < i)
    BY <1>3, <2>1
  <2>3. i # j
    BY <1>4, <2>1
  <2> QED BY <1>1, <2>2, <2>3
<1>5. \A i, j \in 1 .. n : ranking[i] = ranking[j] => i = j
  <2> SUFFICES ASSUME NEW i \in 1 .. n, NEW j \in 1 .. n, ranking[i] = ranking[j], i < j
               PROVE  FALSE
    BY <1>1
  <2> QED BY <1>1, <1>3, BeforeIsOrder
<1>6. ranking \in Injection(1 .. n, P)
  BY <1>3, <1>5, Fun_IsInj
<1>7. ranking \in Surjection(1 .. n, P)
  <2>1. IsFiniteSet(1 .. n) /\ Cardinality(1 .. n) = n
    BY <1>1, FS_Interval
  <2> QED BY <1>1, <1>6, <2>1, FS_Injection
<1>8. \A p \in P : \E i \in 1 .. n : ranking[i] = p
  BY <1>7 DEF Surjection
<1> QED BY <1>1, <1>3, <1>4, <1>8 DEF ranking

-----------------------------------------------------------------------------
(* The priority of a band.                                                 *)

\* A set of integers that has a lower bound has a least element.
LEMMA LeastInteger ==
  ASSUME NEW I \in SUBSET Int, I # {}, NEW b \in Int, \A x \in I : b <= x
  PROVE  Min(I) \in I /\ Min(I) \in Int /\ \A x \in I : Min(I) <= x
<1> DEFINE J == {n \in Nat : b + n \in I}
<1>1. J # {}
  <2>1. PICK x \in I : TRUE
    OBVIOUS
  <2>2. x - b \in Nat /\ b + (x - b) = x
    OBVIOUS
  <2> QED BY <2>2
<1>2. PICK n \in J : \A m \in J : ~(<<m, n>> \in OpToRel(<, Nat))
  BY <1>1, NatLessThanWellFounded, WFMin
<1>3. ASSUME NEW x \in I PROVE b + n <= x
  <2> SUFFICES ASSUME ~(b + n <= x) PROVE FALSE
    OBVIOUS
  <2>1. x - b \in Nat /\ b + (x - b) = x /\ x - b < n /\ n \in Nat
    OBVIOUS
  <2>2. <<x - b, n>> \in OpToRel(<, Nat)
    BY <2>1 DEF OpToRel
  <2> QED BY <1>2, <2>1, <2>2
<1>4. b + n \in I
  OBVIOUS
<1> QED BY <1>3, <1>4 DEF Min

\* No age counts as less than none.
LEMMA AgeFromNow ==
  ASSUME NEW a \in Int
  PROVE  Max({0, a}) = IF a > 0 THEN a ELSE 0
<1> DEFINE g == IF a > 0 THEN a ELSE 0
<1>1. g \in {0, a} /\ \A y \in {0, a} : g >= y
  OBVIOUS
<1>2. \A x \in {0, a} : (\A y \in {0, a} : x >= y) => x = g
  OBVIOUS
<1> HIDE DEF g
<1>3. Max({0, a}) = g
  BY <1>1, <1>2 DEF Max
<1> QED BY <1>3 DEF g

\* What a report is worth, as the code has it and by the zones it is in.
Worth(km, age) == ProximityWeight(km) * RecencyWeight(Max({0, age}))
WorthInZones(km, age) ==
  (5 - Zone({500, 1000, 1500}, km)) * (5 - Zone({600, 1200}, age))

\* Both are the same.
LEMMA WorthIsInZones ==
  ASSUME NEW km \in Int, NEW age \in Int
  PROVE  /\ ProximityWeight(km) \in 1 .. 4 /\ RecencyWeight(Max({0, age})) \in 1 .. 4
         /\ Worth(km, age) \in Nat
         /\ Worth(km, age) = WorthInZones(km, age)
<1>1. Cardinality({}) = 0 /\ Cardinality({500}) = 1 /\ Cardinality({600}) = 1
  <2>1. \A x : Cardinality({x}) = 1
    BY FS_Singleton, Zenon
  <2> QED BY <2>1, FS_EmptySet, Zenon
<1>2. Cardinality({500, 1000}) = 2 /\ Cardinality({600, 1200}) = 2
      /\ Cardinality({500, 1000, 1500}) = 3
  <2>0. ASSUME NEW a \in Int, NEW b \in Int, a # b
        PROVE  IsFiniteSet({a} \cup {b}) /\ Cardinality({a} \cup {b}) = 2
    <3>1. IsFiniteSet({a}) /\ Cardinality({a}) = 1 /\ b \notin {a}
      BY <2>0, FS_Singleton
    <3> QED BY <3>1, FS_AddElement
  <2>1. /\ IsFiniteSet({500} \cup {1000}) /\ Cardinality({500} \cup {1000}) = 2
        /\ Cardinality({600} \cup {1200}) = 2
    BY <2>0
  <2>2. {500} \cup {1000} = {500, 1000} /\ {600} \cup {1200} = {600, 1200}
        /\ {500, 1000} \cup {1500} = {500, 1000, 1500} /\ 1500 \notin {500, 1000}
    OBVIOUS
  <2>3. Cardinality({500, 1000} \cup {1500}) = 3
    BY <2>1, <2>2, FS_AddElement
  <2> QED BY <2>1, <2>2, <2>3
<1>3. /\ ProximityWeight(km) \in 1 .. 4
      /\ ProximityWeight(km) = 5 - Zone({500, 1000, 1500}, km)
  <2> DEFINE beyond == {l \in {500, 1000, 1500} : km > l}
  <2>1. CASE km <= 500
    <3>1. beyond = {} /\ ProximityWeight(km) = 4
      BY <2>1 DEF ProximityWeight
    <3> QED BY <1>1, <3>1 DEF Zone
  <2>2. CASE ~(km <= 500) /\ km <= 1000
    <3>1. beyond = {500} /\ ProximityWeight(km) = 3
      BY <2>2 DEF ProximityWeight
    <3> QED BY <1>1, <3>1 DEF Zone
  <2>3. CASE ~(km <= 1000) /\ km <= 1500
    <3>1. beyond = {500, 1000} /\ ProximityWeight(km) = 2
      BY <2>3 DEF ProximityWeight
    <3> QED BY <1>2, <3>1 DEF Zone
  <2>4. CASE ~(km <= 1500)
    <3>1. beyond = {500, 1000, 1500} /\ ProximityWeight(km) = 1
      BY <2>4 DEF ProximityWeight
    <3> QED BY <1>2, <3>1 DEF Zone
  <2> QED BY <2>1, <2>2, <2>3, <2>4
<1>4. /\ RecencyWeight(Max({0, age})) \in 1 .. 4
      /\ RecencyWeight(Max({0, age})) = 5 - Zone({600, 1200}, age)
  <2> DEFINE beyond == {l \in {600, 1200} : age > l}
             spent == Max({0, age})
  <2>0. spent = IF age > 0 THEN age ELSE 0
    BY AgeFromNow
  <2> HIDE DEF spent
  <2>1. CASE age <= 600
    <3>1. beyond = {} /\ RecencyWeight(spent) = 4
      BY <2>0, <2>1 DEF RecencyWeight
    <3> QED BY <1>1, <3>1 DEF Zone, spent
  <2>2. CASE ~(age <= 600) /\ age <= 1200
    <3>1. beyond = {600} /\ RecencyWeight(spent) = 3
      BY <2>0, <2>2 DEF RecencyWeight
    <3> QED BY <1>1, <3>1 DEF Zone, spent
  <2>3. CASE ~(age <= 1200)
    <3>1. beyond = {600, 1200} /\ RecencyWeight(spent) = 2
      BY <2>0, <2>3 DEF RecencyWeight
    <3> QED BY <1>2, <3>1 DEF Zone, spent
  <2> QED BY <2>1, <2>2, <2>3
<1>5. \A a, b \in 1 .. 4 : a * b \in Nat
  OBVIOUS
<1> QED BY <1>3, <1>4, <1>5 DEF Worth, WorthInZones

\* A dictionary of usable reports, and what it holds of a band.
Newest(newest) ==
  Dictionary(newest) /\ \A i \in 1 .. Len(newest) : Usable(newest[i])
Values(newest, band) == {i \in 1 .. Len(newest) : newest[i].band = band}
Weights(newest, band) ==
  [i \in Values(newest, band) |-> Worth(newest[i].km, newest[i].age)]

\* The fields of a priority are numbers, and its place is one of its band's.
LEMMA PriorityShape ==
  ASSUME NEW newest, Newest(newest), NEW band
  PROVE  /\ IsFiniteSet(Values(newest, band))
         /\ Weights(newest, band) \in [Values(newest, band) -> Nat]
         /\ PriorityOf(newest, band).band = band
         /\ PriorityOf(newest, band).score = SumFunction(Weights(newest, band))
         /\ PriorityOf(newest, band).count = Cardinality(Values(newest, band))
         /\ Values(newest, band) # {} =>
              /\ IsPriority(PriorityOf(newest, band))
              /\ PriorityOf(newest, band).place \in Values(newest, band)
<1> DEFINE values == Values(newest, band)
           p == PriorityOf(newest, band)
           ages == {newest[i].age : i \in values}
           kms == {newest[i].km : i \in values}
<1>1. /\ Len(newest) \in Nat /\ DOMAIN newest = 1 .. Len(newest)
      /\ \A i \in 1 .. Len(newest) :
           /\ newest[i].age \in Int /\ -300 <= newest[i].age
           /\ newest[i].km \in Int /\ 0 <= newest[i].km
  BY LenProperties DEF Newest, Dictionary, Usable
<1>2. p = [band |-> band, score |-> SumFunction(Weights(newest, band)),
           count |-> Cardinality(values),
           minutes |-> Max({0, Min(ages)}) \div 60,
           nearest |-> Min(kms),
           place |-> Min(values)]
  BY <1>1 DEF PriorityOf, Values, Weights, Worth
<1>3. IsFiniteSet(values) /\ Cardinality(values) \in Nat
  <2>1. IsFiniteSet(1 .. Len(newest))
    BY <1>1, FS_Interval
  <2> QED BY <2>1, FS_Subset, FS_CardinalityType DEF Values
<1>4. Weights(newest, band) \in [values -> Nat]
  <2>1. ASSUME NEW i \in values
        PROVE  Worth(newest[i].km, newest[i].age) \in Nat
    <3>1. newest[i].km \in Int /\ newest[i].age \in Int
      BY <1>1 DEF Values
    <3> QED BY <3>1, WorthIsInZones
  <2> QED BY <2>1 DEF Weights
<1>5. ASSUME values # {}
      PROVE  IsPriority(p) /\ p.place \in values
  <2>1. Min(values) \in values /\ Min(values) \in Int
    <3>1. values \in SUBSET Int /\ \A i \in values : 1 <= i
      BY DEF Values
    <3> HIDE DEF values
    <3> QED BY <1>5, <3>1, LeastInteger
  <2>2. Min(ages) \in Int
    <3>1. ages \in SUBSET Int /\ ages # {} /\ \A a \in ages : -300 <= a
      BY <1>1, <1>5 DEF Values
    <3> HIDE DEF ages
    <3> QED BY <3>1, LeastInteger
  <2>3. Min(kms) \in Int
    <3>1. kms \in SUBSET Int /\ kms # {} /\ \A a \in kms : 0 <= a
      BY <1>1, <1>5 DEF Values
    <3> HIDE DEF kms
    <3> QED BY <3>1, LeastInteger
  <2>4. Max({0, Min(ages)}) \div 60 \in Int
    <3>1. Max({0, Min(ages)}) \in Int
      BY <2>2, AgeFromNow
    <3> HIDE DEF ages
    <3>2. \A x \in Int : x \div 60 \in Int
      OBVIOUS
    <3> QED BY <3>1, <3>2
  <2>5. SumFunction(Weights(newest, band)) \in Int
    <3> DEFINE w == Weights(newest, band)
    <3>1. PICK f : IsSum(f, w, values) /\ SumFunction(w) = f[values]
      BY <1>3, <1>4, SumFunctionIsSum
    <3> QED BY <3>1 DEF IsSum
  <2> HIDE DEF p, ages, kms, values
  <2>6. p.score \in Int /\ p.count \in Int /\ p.minutes \in Int /\ p.nearest \in Int
        /\ p.place \in Int /\ p.place \in values
    BY <1>2, <1>3, <2>1, <2>3, <2>4, <2>5
  <2> QED BY <2>6 DEF IsPriority
<1>6. /\ p.band = band /\ p.score = SumFunction(Weights(newest, band))
      /\ p.count = Cardinality(values)
  <2> HIDE DEF p, ages, kms, values
  <2> QED BY <1>2
<1> QED BY <1>3, <1>4, <1>5, <1>6

\* The priorities can be sorted, and are one for each band in the dictionary.
LEMMA PrioritiesPlaced ==
  ASSUME NEW newest, Newest(newest)
  PROVE  /\ Placed(Priorities(newest))
         /\ \A p \in Priorities(newest) :
              p = PriorityOf(newest, p.band) /\ Values(newest, p.band) # {}
         /\ \A i \in 1 .. Len(newest) :
              PriorityOf(newest, newest[i].band) \in Priorities(newest)
<1> DEFINE P == Priorities(newest)
           N == Len(newest)
<1>1. N \in Nat /\ DOMAIN newest = 1 .. N
  BY LenProperties DEF Newest, Dictionary
<1>2. P = {PriorityOf(newest, newest[i].band) : i \in 1 .. N}
  BY <1>1 DEF Priorities, ToSet
<1> HIDE DEF P
<1>3. \A i \in 1 .. N : i \in Values(newest, newest[i].band)
  BY DEF Values
<1>4. ASSUME NEW p \in P
      PROVE  p = PriorityOf(newest, p.band) /\ Values(newest, p.band) # {}
             /\ IsPriority(p) /\ p.place \in Values(newest, p.band)
  <2>1. PICK i \in 1 .. N : p = PriorityOf(newest, newest[i].band)
    BY <1>2
  <2>2. p.band = newest[i].band
    BY <2>1, PriorityShape
  <2> QED BY <1>3, <2>1, <2>2, PriorityShape
<1>5. IsFiniteSet(P)
  <2> DEFINE f == [i \in 1 .. N |-> PriorityOf(newest, newest[i].band)]
  <2>1. f \in Surjection(1 .. N, P)
    <3>1. f \in [1 .. N -> P] /\ \A p \in P : \E i \in 1 .. N : f[i] = p
      BY <1>2
    <3> HIDE DEF f
    <3> QED BY <3>1 DEF Surjection
  <2>2. IsFiniteSet(1 .. N)
    BY <1>1, FS_Interval
  <2> HIDE DEF f
  <2> QED BY <2>1, <2>2, FS_Surjection
<1>6. ASSUME NEW p \in P, NEW q \in P, p.place = q.place PROVE p = q
  <2>1. p.band = q.band
    BY <1>4, <1>6 DEF Values
  <2> QED BY <1>4, <2>1
<1> QED BY <1>2, <1>4, <1>5, <1>6 DEF Placed, P

-----------------------------------------------------------------------------
(* The ranking.                                                            *)

\* The dictionary of an answer is one of usable reports.
LEMMA NewestIsNewest ==
  ASSUME NEW list \in Seq(SampleReports)
  PROVE  Newest(NewestByReceiver(list))
<1>1. /\ Dictionary(NewestByReceiver(list))
      /\ HoldsVotes(list, Len(list), NewestByReceiver(list))
  BY NewestHoldsVotes
<1> QED BY <1>1 DEF Newest, HoldsVotes, IsVote

\* The bands of a ranking are those of the dictionary, by their priorities.
Ranks(bands, newest) ==
  /\ Len(bands) \in Nat /\ DOMAIN bands = 1 .. Len(bands)
  /\ \A i \in 1 .. Len(bands) : Values(newest, bands[i]) # {}
  /\ \A i, j \in 1 .. Len(bands) :
       i < j <=> Before(PriorityOf(newest, bands[i]), PriorityOf(newest, bands[j]))
  /\ \A k \in 1 .. Len(newest) : \E i \in 1 .. Len(bands) : bands[i] = newest[k].band

\* Ranked gives such a ranking of the dictionary of the answer.
LEMMA RankedRanks ==
  ASSUME NEW list \in Seq(SampleReports)
  PROVE  Ranks(Ranked(list), NewestByReceiver(list))
<1> DEFINE newest == NewestByReceiver(list)
           P == Priorities(newest)
           n == Cardinality(P)
           ranking == Sorted(P)
           bands == Ranked(list)
<1>1. Newest(newest)
  BY NewestIsNewest
<1> HIDE DEF newest
<1>2. /\ Placed(P)
      /\ \A p \in P : p = PriorityOf(newest, p.band) /\ Values(newest, p.band) # {}
      /\ \A k \in 1 .. Len(newest) : PriorityOf(newest, newest[k].band) \in P
  BY <1>1, PrioritiesPlaced
<1>3. bands = [i \in DOMAIN ranking |-> ranking[i].band]
  BY DEF Ranked, rank_bands, newest
<1> HIDE DEF P, bands
<1>4. /\ ranking \in [1 .. n -> P] /\ n \in Nat
      /\ \A i, j \in 1 .. n : i < j <=> Before(ranking[i], ranking[j])
      /\ \A p \in P : \E i \in 1 .. n : ranking[i] = p
  BY <1>2, SortedSorts
<1> HIDE DEF ranking, n
<1>5. /\ bands \in [1 .. n -> {p.band : p \in P}]
      /\ \A i \in 1 .. n : bands[i] = ranking[i].band
  BY <1>3, <1>4
<1>6. Len(bands) = n /\ DOMAIN bands = 1 .. n
  <2>1. bands \in Seq({p.band : p \in P}) /\ DOMAIN bands = 1 .. n
    BY <1>4, <1>5, SeqDef
  <2>2. Len(bands) \in Nat /\ DOMAIN bands = 1 .. Len(bands)
    BY <2>1, LenProperties
  <2> QED BY <1>4, <2>1, <2>2
<1>7. \A i \in 1 .. n : /\ Values(newest, bands[i]) # {}
                        /\ PriorityOf(newest, bands[i]) = ranking[i]
  BY <1>2, <1>4, <1>5
<1>8. ASSUME NEW k \in 1 .. Len(newest)
      PROVE  \E i \in 1 .. n : bands[i] = newest[k].band
  <2>1. PICK i \in 1 .. n : ranking[i] = PriorityOf(newest, newest[k].band)
    BY <1>2, <1>4
  <2>2. ranking[i].band = newest[k].band
    BY <1>1, <2>1, PriorityShape
  <2> QED BY <1>5, <2>2
<1>9. \A i, j \in 1 .. n :
        i < j <=> Before(PriorityOf(newest, bands[i]), PriorityOf(newest, bands[j]))
  BY <1>4, <1>7
<1> QED BY <1>4, <1>6, <1>7, <1>8, <1>9 DEF Ranks, newest, bands

\* The score of a band is its evidence, and its count the number of its votes.
LEMMA EvidenceIsScored ==
  ASSUME reports \in Seq(SampleReports), NEW band
  PROVE  /\ PriorityOf(NewestByReceiver(reports), band).score = Evidence(band)
         /\ PriorityOf(NewestByReceiver(reports), band).count = Cardinality(Votes(band))
         /\ Evidence(band) \in Nat /\ Cardinality(Votes(band)) \in Nat
<1> DEFINE newest == NewestByReceiver(reports)
           N == Len(reports)
           values == Values(newest, band)
           votes == Votes(band)
           Vote(i) == CHOOSE j : IsVote(reports, N, j) /\ newest[i] = reports[j]
           h == [i \in values |-> Vote(i)]
           Weight(j) == WorthInZones(reports[j].km, reports[j].age)
           v == [j \in votes |-> Weight(j)]
           w == Weights(newest, band)
<1>1. Newest(newest)
  BY NewestIsNewest
<1>2. /\ Dictionary(newest) /\ HoldsVotes(reports, N, newest)
      /\ \A i \in 1 .. N : Usable(reports[i]) => Covers(newest, reports[i])
  BY NewestHoldsVotes
<1>3. N \in Nat /\ DOMAIN reports = 1 .. N
      /\ \A j \in 1 .. N : reports[j] \in SampleReports /\ reports[j].age \in Int
  BY LenProperties, ElementOfSeq, AgesAssumption
<1>4. votes = {j \in 1 .. N : IsVote(reports, N, j) /\ reports[j].band = band}
  BY <1>3 DEF Votes, IsVote
<1> HIDE DEF newest, votes
<1>5. \A i \in 1 .. Len(newest) : /\ IsVote(reports, N, Vote(i))
                                  /\ newest[i] = reports[Vote(i)]
  <2>1. \A i \in 1 .. Len(newest) : \E j : IsVote(reports, N, j) /\ newest[i] = reports[j]
    BY <1>2 DEF HoldsVotes
  <2> QED BY <2>1
<1> HIDE DEF Vote
<1>6. h \in Bijection(values, votes)
  <2>1. h \in [values -> votes]
    <3>1. \A i \in values : Vote(i) \in votes
      BY <1>4, <1>5 DEF Values, IsVote
    <3> HIDE DEF values
    <3> QED BY <3>1
  <2>2. \A i, k \in values : h[i] = h[k] => i = k
    <3> SUFFICES ASSUME NEW i \in values, NEW k \in values, Vote(i) = Vote(k) PROVE i = k
      OBVIOUS
    <3>1. newest[i] = newest[k] /\ i \in 1 .. Len(newest) /\ k \in 1 .. Len(newest)
      BY <1>5 DEF Values
    <3> QED BY <1>2, <3>1 DEF Dictionary, SameKey
  <2>3. ASSUME NEW j \in votes PROVE \E i \in values : h[i] = j
    <3>1. IsVote(reports, N, j) /\ reports[j].band = band /\ j \in 1 .. N /\ Usable(reports[j])
      BY <1>4 DEF IsVote
    <3>2. PICK i \in 1 .. Len(newest) : SameKey(newest[i], reports[j])
      BY <1>2, <3>1 DEF Covers
    <3>3. i \in values
      BY <3>1, <3>2 DEF Values, SameKey
    <3> DEFINE m == Vote(i)
    <3>4. IsVote(reports, N, m) /\ newest[i] = reports[m]
      BY <1>5
    <3> HIDE DEF m
    <3>5. /\ SameKey(reports[m], reports[j]) /\ SameKey(reports[j], reports[m])
          /\ m \in 1 .. N /\ Usable(reports[m])
      BY <3>2, <3>4 DEF SameKey, IsVote
    <3>6. /\ reports[m].age < reports[j].age \/ (reports[m].age = reports[j].age /\ m <= j)
          /\ reports[j].age < reports[m].age \/ (reports[j].age = reports[m].age /\ j <= m)
      BY <3>1, <3>4, <3>5 DEF IsVote
    <3>7. m = j
      BY <1>3, <3>1, <3>5, <3>6
    <3> QED BY <3>3, <3>7 DEF m
  <2> HIDE DEF h, values
  <2> QED BY <2>1, <2>2, <2>3 DEF Bijection, Injection, Surjection, IsInjective
<1>7. /\ IsFiniteSet(values) /\ w \in [values -> Nat]
      /\ PriorityOf(newest, band).score = SumFunction(w)
      /\ PriorityOf(newest, band).count = Cardinality(values)
  BY <1>1, PriorityShape
<1>8. IsFiniteSet(votes) /\ Cardinality(votes) = Cardinality(values)
      /\ Cardinality(votes) \in Nat
  <2> HIDE DEF h, values
  <2> QED BY <1>6, <1>7, FS_Bijection, FS_CardinalityType DEF ExistsBijection
<1>9. \A i \in values : w[i] = Weight(h[i])
  <2> SUFFICES ASSUME NEW i \in values PROVE w[i] = Weight(h[i])
    OBVIOUS
  <2>1. h[i] = Vote(i) /\ i \in 1 .. Len(newest)
    BY DEF Values
  <2>2. newest[i] = reports[h[i]]
    BY <1>5, <2>1
  <2>3. newest[i].km \in Int /\ newest[i].age \in Int
    BY <1>1, <2>1 DEF Newest, Usable
  <2>4. Worth(newest[i].km, newest[i].age) = WorthInZones(newest[i].km, newest[i].age)
    BY <2>3, WorthIsInZones
  <2>5. w[i] = Worth(newest[i].km, newest[i].age)
    BY DEF Weights
  <2> HIDE DEF h
  <2> QED BY <2>2, <2>4, <2>5
<1> HIDE DEF h, values, w, Weight
<1>10. /\ v \in [votes -> Nat]
       /\ \A i \in values : w[i] = v[h[i]]
  <2>1. ASSUME NEW j \in votes PROVE \E i \in values : h[i] = j
    BY <1>6 DEF Bijection, Surjection
  <2>2. \A j \in votes : Weight(j) \in Nat
    BY <1>7, <1>9, <2>1
  <2>3. \A i \in values : h[i] \in votes
    BY <1>6 DEF Bijection, Injection
  <2> QED BY <1>9, <2>2, <2>3
<1>11. SumFunction(w) = SumFunction(v) /\ SumFunction(w) \in Nat
  <2> HIDE DEF v
  <2> QED BY <1>6, <1>7, <1>8, <1>10, SumSame
<1>12. Evidence(band) = SumFunction(v)
  BY DEF Evidence, votes, Weight, WorthInZones
<1> HIDE DEF v
<1> QED BY <1>7, <1>8, <1>11, <1>12 DEF newest, votes

\* The reports of the answer are reports.
LEMMA ReportsAreSamples == Reading => [](reports \in Seq(SampleReports))
<1>1. NoReports => reports \in Seq(SampleReports)
  BY EmptySeq DEF NoReports
<1>2. reports \in Seq(SampleReports) /\ [ReadReport]_reports
        => (reports \in Seq(SampleReports))'
  BY AppendProperties DEF ReadReport
<1> QED BY <1>1, <1>2, PTL DEF Reading

\* Whatever is in the answer: the focus is exactly the bands with a usable report, by
\* falling evidence of their receivers' newest reports, and among equals by the number of
\* receivers (pskreporter.py:119-167).
THEOREM RankingIsEvidence == Reading => []RankingAgrees
<1>1. ASSUME reports \in Seq(SampleReports) PROVE RankingAgrees
  <2> DEFINE newest == NewestByReceiver(reports)
             list == Ranked(reports)
             usable == {i \in DOMAIN reports : Usable(reports[i])}
  <2>1. Ranks(list, newest)
    BY <1>1, RankedRanks
  <2>2. Newest(newest)
    BY <1>1, NewestIsNewest
  <2>3. /\ HoldsVotes(reports, Len(reports), newest)
        /\ \A i \in 1 .. Len(reports) : Usable(reports[i]) => Covers(newest, reports[i])
    BY <1>1, NewestHoldsVotes
  <2>4. DOMAIN reports = 1 .. Len(reports)
    BY <1>1, LenProperties
  <2> HIDE DEF newest, list
  <2>5. ToSet(list) \subseteq {reports[i].band : i \in usable}
    <3> SUFFICES ASSUME NEW k \in 1 .. Len(list)
                 PROVE  list[k] \in {reports[i].band : i \in usable}
      BY <2>1 DEF ToSet, Ranks
    <3>1. PICK i \in 1 .. Len(newest) : newest[i].band = list[k]
      BY <2>1 DEF Ranks, Values
    <3>2. PICK j : IsVote(reports, Len(reports), j) /\ newest[i] = reports[j]
      BY <2>3 DEF HoldsVotes
    <3>3. j \in usable
      BY <2>4, <3>2 DEF IsVote
    <3> QED BY <3>1, <3>2, <3>3
  <2>6. {reports[i].band : i \in usable} \subseteq ToSet(list)
    <3> SUFFICES ASSUME NEW i \in 1 .. Len(reports), Usable(reports[i])
                 PROVE  reports[i].band \in ToSet(list)
      BY <2>4
    <3>1. PICK k \in 1 .. Len(newest) : SameKey(newest[k], reports[i])
      BY <2>3 DEF Covers
    <3>2. PICK m \in 1 .. Len(list) : list[m] = newest[k].band
      BY <2>1 DEF Ranks
    <3> QED BY <2>1, <3>1, <3>2 DEF SameKey, ToSet, Ranks
  <2>7. ASSUME NEW i \in DOMAIN list, NEW j \in DOMAIN list, i < j
        PROVE  \/ Evidence(list[i]) > Evidence(list[j])
               \/ /\ Evidence(list[i]) = Evidence(list[j])
                  /\ Cardinality(Votes(list[i])) >= Cardinality(Votes(list[j]))
    <3>1. Before(PriorityOf(newest, list[i]), PriorityOf(newest, list[j]))
      BY <2>1, <2>7 DEF Ranks
    <3>2. \A band : /\ PriorityOf(newest, band).score = Evidence(band)
                    /\ PriorityOf(newest, band).count = Cardinality(Votes(band))
                    /\ Evidence(band) \in Nat /\ Cardinality(Votes(band)) \in Nat
      BY <1>1, EvidenceIsScored DEF newest
    <3> QED BY <3>1, <3>2 DEF Before
  <2> QED BY <2>5, <2>6, <2>7 DEF RankingAgrees, list
<1> QED BY <1>1, ReportsAreSamples, PTL

\* A band is ahead of another if it has a priority, before that of the other if it has one.
LEMMA AheadIsBefore ==
  ASSUME NEW bands, NEW newest, Newest(newest), Ranks(bands, newest), NEW a, NEW b, a # b
  PROVE  Ahead(bands, a, b) <=>
           /\ Values(newest, a) # {}
           /\ Values(newest, b) # {} =>
                Before(PriorityOf(newest, a), PriorityOf(newest, b))
<1> DEFINE n == Len(bands)
           Place(x) == SelectInSeq(bands, LAMBDA y : y = x)
<1>1. /\ n \in Nat /\ DOMAIN bands = 1 .. n
      /\ \A i \in 1 .. n : Values(newest, bands[i]) # {}
      /\ \A i, j \in 1 .. n :
           i < j <=> Before(PriorityOf(newest, bands[i]), PriorityOf(newest, bands[j]))
      /\ \A k \in 1 .. Len(newest) : \E i \in 1 .. n : bands[i] = newest[k].band
  BY DEF Ranks
<1>2. \A x : Contains(bands, x) <=> Values(newest, x) # {}
  BY <1>1 DEF Contains, Values
<1>3. ASSUME NEW x, Contains(bands, x)
      PROVE  Place(x) \in 1 .. n /\ bands[Place(x)] = x
  <2> DEFINE I == {i \in 1 .. n : bands[i] = x}
  <2>1. I # {} /\ I \in SUBSET (1 .. n)
    BY <1>3 DEF Contains
  <2>2. Place(x) = Min(I)
    BY <2>1 DEF SelectInSeq
  <2>3. Place(x) \in I
    <3> HIDE DEF I
    <3> QED BY <1>1, <2>1, <2>2, MinIsMember
  <2> QED BY <2>3
<1>4. Ahead(bands, a, b) <=>
        Contains(bands, a) /\ (Contains(bands, b) => Place(a) < Place(b))
  BY DEF Ahead
<1> HIDE DEF Place
<1>5. ASSUME Contains(bands, a), Contains(bands, b)
      PROVE  Place(a) < Place(b)
               <=> Before(PriorityOf(newest, a), PriorityOf(newest, b))
  BY <1>1, <1>3, <1>5
<1> QED BY <1>2, <1>4, <1>5

\* The priority of a band is that of its reports.
LEMMA PriorityOfSame ==
  ASSUME NEW newest, Newest(newest), NEW kept, Newest(kept), NEW band,
         Values(kept, band) = Values(newest, band),
         \A i \in Values(newest, band) : kept[i] = newest[i]
  PROVE  PriorityOf(kept, band) = PriorityOf(newest, band)
<1>1. /\ DOMAIN newest = 1 .. Len(newest) /\ DOMAIN kept = 1 .. Len(kept)
  BY LenProperties DEF Newest, Dictionary
<1> DEFINE values == Values(newest, band)
           Priority(d) ==
             [band |-> band,
              score |-> SumFunction([i \in values |-> ProximityWeight(d[i].km)
                                        * RecencyWeight(Max({0, d[i].age}))]),
              count |-> Cardinality(values),
              minutes |-> Max({0, Min({d[i].age : i \in values})}) \div 60,
              nearest |-> Min({d[i].km : i \in values}),
              place |-> Min(values)]
<1>2. /\ PriorityOf(newest, band) = Priority(newest)
      /\ PriorityOf(kept, band) = Priority(kept)
  BY <1>1 DEF PriorityOf, Values
<1>3. Weights(kept, band) = Weights(newest, band)
  BY DEF Weights
<1>4. /\ {kept[i].age : i \in values} = {newest[i].age : i \in values}
      /\ {kept[i].km : i \in values} = {newest[i].km : i \in values}
  OBVIOUS
<1>5. [i \in values |-> ProximityWeight(kept[i].km) * RecencyWeight(Max({0, kept[i].age}))]
        = [i \in values |-> ProximityWeight(newest[i].km)
                              * RecencyWeight(Max({0, newest[i].age}))]
  BY <1>3 DEF Weights, Worth
<1> QED BY <1>2, <1>4, <1>5, Zenon

\* What may change in the priority of a band that gets a further report.
NoWorse(p, q) ==
  /\ p.score <= q.score /\ p.count <= q.count
  /\ p.count = q.count =>
       q.minutes <= p.minutes /\ q.nearest = p.nearest /\ q.place = p.place

\* Such a change leaves the band before those it was before.
LEMMA NoWorseStaysBefore ==
  ASSUME NEW p, NEW q, NEW r, IsPriority(p), IsPriority(q), IsPriority(r),
         NoWorse(p, q), Before(p, r)
  PROVE  Before(q, r)
  BY DEF NoWorse, Before, IsPriority

\* A newer report is worth no less.
LEMMA NewerIsWorthMore ==
  ASSUME NEW km \in Int, NEW a \in Int, NEW b \in Int, a <= b
  PROVE  Worth(km, b) <= Worth(km, a)
<1> DEFINE m == ProximityWeight(km)
           x == RecencyWeight(Max({0, a}))
           y == RecencyWeight(Max({0, b}))
<1>1. m \in 1 .. 4 /\ x \in 1 .. 4 /\ y \in 1 .. 4
  BY WorthIsInZones
<1>2. y <= x
  BY AgeFromNow DEF RecencyWeight
<1> HIDE DEF m, x, y
<1>3. m * y <= m * x
  <2>1. m = 1 \/ m = 2 \/ m = 3 \/ m = 4
    BY <1>1
  <2>2. 1 * y <= 1 * x /\ 2 * y <= 2 * x /\ 3 * y <= 3 * x /\ 4 * y <= 4 * x
    BY <1>1, <1>2
  <2> QED BY <2>1, <2>2
<1> QED BY <1>3 DEF Worth, m, x, y

\* What Keep makes of the dictionary: a report more, a newer one in the place of that of
\* the same receiver and band, or nothing new.
Appended(newest, report, kept) ==
  /\ Len(kept) = Len(newest) + 1
  /\ \A i \in 1 .. Len(newest) : kept[i] = newest[i]
  /\ kept[Len(newest) + 1] = report
Replaced(newest, report, kept) ==
  /\ Len(kept) = Len(newest)
  /\ \E at \in 1 .. Len(newest) :
       /\ SameKey(newest[at], report) /\ report.age < newest[at].age
       /\ \A i \in 1 .. Len(newest) : kept[i] = IF i = at THEN report ELSE newest[i]

\* One of the three.
LEMMA KeepShapes ==
  ASSUME NEW newest, Newest(newest), NEW report \in SampleReports, Usable(report)
  PROVE  /\ Newest(Keep(newest, report))
         /\ \/ Appended(newest, report, Keep(newest, report))
            \/ Replaced(newest, report, Keep(newest, report))
            \/ Keep(newest, report) = newest
<1> DEFINE at == PlaceOf(newest, report)
           kept == Keep(newest, report)
<1>1. /\ newest \in Seq(SampleReports) /\ Len(newest) \in Nat /\ Dictionary(newest)
      /\ \A i \in 1 .. Len(newest) : newest[i] \in SampleReports /\ Usable(newest[i])
  BY LenProperties, ElementOfSeq DEF Newest, Dictionary
<1>2. kept = IF at = 0 THEN Append(newest, report)
             ELSE IF report.age < newest[at].age THEN [newest EXCEPT ![at] = report]
             ELSE newest
  BY DEF Keep, PlaceOf
<1>3. at # 0 => at \in 1 .. Len(newest) /\ SameKey(newest[at], report)
  BY <1>1, PlaceIsFound
<1>4. Dictionary(kept)
  BY <1>1, KeepCovers
<1> HIDE DEF at, kept
<1>5. \/ Appended(newest, report, kept)
      \/ Replaced(newest, report, kept)
      \/ kept = newest
  <2>1. CASE at = 0
    <3>1. kept = Append(newest, report)
      BY <1>2, <2>1
    <3> QED BY <1>1, <3>1, AppendProperties DEF Appended
  <2>2. CASE at # 0 /\ report.age < newest[at].age
    <3>1. kept = [newest EXCEPT ![at] = report]
      BY <1>2, <2>2
    <3>2. /\ Len(kept) = Len(newest)
          /\ \A i \in 1 .. Len(newest) : kept[i] = IF i = at THEN report ELSE newest[i]
      BY <1>1, <1>3, <2>2, <3>1
    <3> QED BY <1>3, <2>2, <3>2 DEF Replaced
  <2>3. CASE at # 0 /\ ~(report.age < newest[at].age)
    BY <1>2, <2>3
  <2> QED BY <2>1, <2>2, <2>3
<1>6. ASSUME NEW i \in 1 .. Len(kept) PROVE Usable(kept[i])
  <2>1. CASE Appended(newest, report, kept)
    <3>1. i \in 1 .. Len(newest) \/ i = Len(newest) + 1
      BY <1>1, <2>1 DEF Appended
    <3> QED BY <1>1, <2>1, <3>1 DEF Appended
  <2>2. CASE Replaced(newest, report, kept)
    BY <1>1, <2>2 DEF Replaced
  <2>3. CASE kept = newest
    BY <1>1, <2>3
  <2> QED BY <1>5, <2>1, <2>2, <2>3
<1> QED BY <1>4, <1>5, <1>6 DEF Newest, kept

\* The other bands keep their reports, and with them their priorities.
LEMMA OthersKeepTheirs ==
  ASSUME NEW newest, Newest(newest), NEW report \in SampleReports, Usable(report),
         NEW other, other # report.band
  PROVE  /\ Values(Keep(newest, report), other) = Values(newest, other)
         /\ PriorityOf(Keep(newest, report), other) = PriorityOf(newest, other)
<1> DEFINE kept == Keep(newest, report)
<1>1. Newest(kept) /\ Len(newest) \in Nat
  BY KeepShapes, LenProperties DEF Newest, Dictionary
<1>2. \/ Appended(newest, report, kept) \/ Replaced(newest, report, kept)
      \/ kept = newest
  BY KeepShapes
<1> HIDE DEF kept
<1>3. /\ Values(kept, other) = Values(newest, other)
      /\ \A i \in Values(newest, other) : kept[i] = newest[i]
  <2>1. CASE Appended(newest, report, kept)
    <3>1. \A i \in 1 .. Len(kept) : i \in 1 .. Len(newest) \/ i = Len(newest) + 1
      BY <1>1, <2>1 DEF Appended
    <3>2. \A i \in 1 .. Len(newest) : i \in 1 .. Len(kept)
      BY <1>1, <2>1 DEF Appended
    <3> QED BY <2>1, <3>1, <3>2 DEF Appended, Values
  <2>2. CASE Replaced(newest, report, kept)
    BY <2>2 DEF Replaced, Values, SameKey
  <2>3. CASE kept = newest
    BY <2>3
  <2> QED BY <1>2, <2>1, <2>2, <2>3
<1> QED BY <1>1, <1>3, PriorityOfSame DEF kept

\* What the tie breaks of a priority are.
LEMMA TieBreaks ==
  ASSUME NEW newest, Newest(newest), NEW band
  PROVE  /\ PriorityOf(newest, band).minutes
              = Max({0, Min({newest[i].age : i \in Values(newest, band)})}) \div 60
         /\ PriorityOf(newest, band).nearest
              = Min({newest[i].km : i \in Values(newest, band)})
         /\ PriorityOf(newest, band).place = Min(Values(newest, band))
<1>1. DOMAIN newest = 1 .. Len(newest)
  BY LenProperties DEF Newest, Dictionary
<1> QED BY <1>1 DEF PriorityOf, Values

\* The younger the newest report, the fewer minutes.
LEMMA MinutesFall ==
  ASSUME NEW a \in Int, NEW b \in Int, a <= b
  PROVE  Max({0, a}) \div 60 <= Max({0, b}) \div 60
<1> DEFINE x == Max({0, a})
           y == Max({0, b})
<1>1. x \in Int /\ y \in Int /\ x <= y
  BY AgeFromNow
<1> HIDE DEF x, y
<1>2. x \div 60 <= y \div 60
  BY <1>1
<1> QED BY <1>2 DEF x, y

\* A further report of a band, of a receiver that has not moved, makes its priority no worse.
LEMMA KeepNoWorse ==
  ASSUME NEW newest, Newest(newest), NEW report \in SampleReports, Usable(report),
         Values(newest, report.band) # {},
         \A i \in 1 .. Len(newest) : SameKey(newest[i], report) => newest[i].km = report.km
  PROVE  /\ Values(Keep(newest, report), report.band) # {}
         /\ NoWorse(PriorityOf(newest, report.band),
                    PriorityOf(Keep(newest, report), report.band))
<1> DEFINE band == report.band
           kept == Keep(newest, report)
           p == PriorityOf(newest, band)
           q == PriorityOf(kept, band)
           V == Values(newest, band)
           R == Values(kept, band)
           w == Weights(newest, band)
           v == Weights(kept, band)
           h == [i \in V |-> i]
<1>1. /\ Newest(kept) /\ Len(newest) \in Nat /\ Len(kept) \in Nat
      /\ \/ Appended(newest, report, kept) \/ Replaced(newest, report, kept)
         \/ kept = newest
  BY KeepShapes, LenProperties DEF Newest, Dictionary
<1>2. \A i \in 1 .. Len(newest) : newest[i].age \in Int /\ newest[i].km \in Int
                                  /\ -300 <= newest[i].age /\ 0 <= newest[i].km
  BY DEF Newest, Usable
<1>3. \A i \in 1 .. Len(kept) : kept[i].age \in Int /\ kept[i].km \in Int
                                /\ -300 <= kept[i].age /\ 0 <= kept[i].km
  BY <1>1 DEF Newest, Usable
<1> HIDE DEF kept
<1>4. /\ IsFiniteSet(V) /\ w \in [V -> Nat] /\ p.score = SumFunction(w)
      /\ p.count = Cardinality(V)
      /\ IsFiniteSet(R) /\ v \in [R -> Nat] /\ q.score = SumFunction(v)
      /\ q.count = Cardinality(R)
  BY <1>1, PriorityShape
\* The reports of the band stay, or become younger.
<1>5. /\ V \subseteq R
      /\ \A i \in V : kept[i].km = newest[i].km /\ kept[i].age <= newest[i].age
  <2>1. CASE Appended(newest, report, kept)
    <3>1. \A i \in 1 .. Len(newest) : i \in 1 .. Len(kept)
      BY <1>1, <2>1 DEF Appended
    <3> QED BY <1>2, <2>1, <3>1 DEF Appended, Values
  <2>2. CASE Replaced(newest, report, kept)
    <3>1. PICK at \in 1 .. Len(newest) :
            /\ SameKey(newest[at], report) /\ report.age < newest[at].age
            /\ \A i \in 1 .. Len(newest) : kept[i] = IF i = at THEN report ELSE newest[i]
      BY <2>2 DEF Replaced
    <3>2. ASSUME NEW i \in V
          PROVE  i \in R /\ kept[i].km = newest[i].km /\ kept[i].age <= newest[i].age
      <4>1. i \in 1 .. Len(newest) /\ newest[i].band = band /\ Len(kept) = Len(newest)
        BY <2>2 DEF Values, Replaced
      <4>2. CASE i = at
        <5>1. kept[i] = report /\ report.km = newest[i].km
          BY <3>1, <4>2
        <5>2. kept[i].age <= newest[i].age
          BY <1>2, <1>3, <3>1, <4>1, <4>2, <5>1
        <5> QED BY <4>1, <5>1, <5>2 DEF Values
      <4>3. CASE i # at
        <5>1. kept[i] = newest[i]
          BY <3>1, <4>1, <4>3
        <5> QED BY <1>2, <4>1, <5>1 DEF Values
      <4> QED BY <4>2, <4>3
    <3> HIDE DEF V, R
    <3> QED BY <3>2
  <2>3. CASE kept = newest
    BY <1>2, <2>3 DEF Values
  <2> QED BY <1>1, <2>1, <2>2, <2>3
<1>6. p.score <= q.score
  <2>1. \A i \in V : w[i] <= v[h[i]]
    <3> SUFFICES ASSUME NEW i \in V PROVE w[i] <= v[i]
      OBVIOUS
    <3>1. i \in R /\ i \in 1 .. Len(newest) /\ i \in 1 .. Len(kept)
      BY <1>5 DEF Values
    <3>2. Worth(newest[i].km, newest[i].age) <= Worth(kept[i].km, kept[i].age)
      BY <1>2, <1>3, <1>5, <3>1, NewerIsWorthMore
    <3> QED BY <3>1, <3>2 DEF Weights
  <2>2. h \in [V -> R] /\ \A x, y \in V : h[x] = h[y] => x = y
    BY <1>5
  <2> HIDE DEF V, R, w, v, h
  <2>3. SumFunction(w) <= SumFunction(v)
    BY <1>4, <2>1, <2>2, SumBelow
  <2> QED BY <1>4, <2>3
<1>7. R # {} /\ (p.count <= q.count) /\ (p.count = q.count => V = R)
  <2> HIDE DEF V, R, w, v, h
  <2>1. Cardinality(V) <= Cardinality(R) /\ (Cardinality(V) = Cardinality(R) => V = R)
    BY <1>4, <1>5, FS_Subset
  <2>2. V # {}
    BY DEF V
  <2> QED BY <1>4, <1>5, <2>1, <2>2
<1>8. ASSUME V = R
      PROVE  q.minutes <= p.minutes /\ q.nearest = p.nearest /\ q.place = p.place
  <2> DEFINE ages == {newest[i].age : i \in V}
             younger == {kept[i].age : i \in R}
  <2>1. /\ p.minutes = Max({0, Min(ages)}) \div 60
        /\ q.minutes = Max({0, Min(younger)}) \div 60
        /\ p.nearest = Min({newest[i].km : i \in V})
        /\ q.nearest = Min({kept[i].km : i \in R})
        /\ p.place = Min(V) /\ q.place = Min(R)
    <3>1. /\ p.minutes = Max({0, Min(ages)}) \div 60
          /\ p.nearest = Min({newest[i].km : i \in V})
          /\ p.place = Min(V)
      BY TieBreaks
    <3>2. /\ q.minutes = Max({0, Min(younger)}) \div 60
          /\ q.nearest = Min({kept[i].km : i \in R})
          /\ q.place = Min(R)
      BY <1>1, TieBreaks
    <3> HIDE DEF p, q, V, R, ages, younger
    <3> QED BY <3>1, <3>2
  <2>2. {newest[i].km : i \in V} = {kept[i].km : i \in R}
    <3> HIDE DEF V, R
    <3> QED BY <1>5, <1>8
  <2>3. Min(ages) \in ages /\ Min(ages) \in Int
    <3>1. ages \in SUBSET Int /\ ages # {} /\ \A a \in ages : -300 <= a
      BY <1>2 DEF Values
    <3> HIDE DEF ages, V
    <3>2. -300 \in Int
      OBVIOUS
    <3> QED BY <3>1, <3>2, LeastInteger
  <2>4. Min(younger) \in Int /\ \A a \in younger : Min(younger) <= a
    <3>1. younger \in SUBSET Int /\ younger # {} /\ \A a \in younger : -300 <= a
      BY <1>3, <1>7 DEF Values
    <3> HIDE DEF younger, R
    <3>2. -300 \in Int
      OBVIOUS
    <3> QED BY <3>1, <3>2, LeastInteger
  <2>5. Min(younger) <= Min(ages)
    <3>1. PICK i \in V : Min(ages) = newest[i].age
      BY <2>3
    <3>2. kept[i].age \in younger /\ kept[i].age <= newest[i].age
          /\ kept[i].age \in Int /\ newest[i].age \in Int
      BY <1>2, <1>3, <1>5, <1>8 DEF Values
    <3> HIDE DEF younger, ages
    <3> QED BY <2>4, <3>1, <3>2
  <2> HIDE DEF ages, younger, V, R, p, q
  <2>6. q.minutes <= p.minutes
    BY <2>1, <2>3, <2>4, <2>5, MinutesFall
  <2> QED BY <1>8, <2>1, <2>2, <2>6
<1> HIDE DEF p, q, V, R
<1>9. NoWorse(p, q)
  BY <1>6, <1>7, <1>8 DEF NoWorse
<1> QED BY <1>7, <1>9 DEF p, q, R, kept

\* However long the answer: a further report of a band, of a receiver that has not moved,
\* leaves it ahead of every band it was ahead of (pskreporter.py:139, 150-167).
THEOREM EvidenceKeepsRank == Reading => EvidenceNeverDemotes
<1> DEFINE Inv == reports \in Seq(SampleReports)
<1>1. Reading => []Inv
  BY ReportsAreSamples
<1>2. Inv /\ [ReadReport]_reports
        => [LET more == Last(reports')
            IN  \A other \in RankedBands :
                  /\ reports' # reports /\ Usable(more) /\ other # more.band
                  /\ Ahead(Ranked(reports), more.band, other)
                  /\ \A i \in DOMAIN reports :
                       SameKey(reports[i], more) => reports[i].km = more.km
                  => Ahead(Ranked(reports'), more.band, other)]_reports
  <2> SUFFICES ASSUME reports \in Seq(SampleReports), ReadReport,
                      NEW other \in RankedBands,
                      Usable(Last(reports')), other # Last(reports').band,
                      Ahead(Ranked(reports), Last(reports').band, other),
                      \A i \in DOMAIN reports : SameKey(reports[i], Last(reports'))
                                                  => reports[i].km = Last(reports').km
               PROVE  Ahead(Ranked(reports'), Last(reports').band, other)
    OBVIOUS
  <2>1. PICK report \in SampleReports : reports' = Append(reports, report)
    BY DEF ReadReport
  <2>2. Last(reports') = report /\ reports' \in Seq(SampleReports)
    BY <2>1, LenProperties, AppendProperties DEF Last
  <2> DEFINE newest == NewestByReceiver(reports)
             kept == NewestByReceiver(reports')
             band == report.band
  <2>3. kept = Keep(newest, report)
    BY <2>1, <2>2, NewestOfMore
  <2>4. /\ Newest(newest) /\ Ranks(Ranked(reports), newest)
        /\ Newest(kept) /\ Ranks(Ranked(reports'), kept)
    BY <2>2, NewestIsNewest, RankedRanks
  <2>5. \A i \in 1 .. Len(newest) :
          SameKey(newest[i], report) => newest[i].km = report.km
    <3> SUFFICES ASSUME NEW i \in 1 .. Len(newest), SameKey(newest[i], report)
                 PROVE  newest[i].km = report.km
      OBVIOUS
    <3>1. PICK j : IsVote(reports, Len(reports), j) /\ newest[i] = reports[j]
      BY NewestHoldsVotes DEF HoldsVotes
    <3>2. j \in DOMAIN reports
      BY <3>1, LenProperties DEF IsVote
    <3> QED BY <2>2, <3>1, <3>2
  <2> HIDE DEF newest, kept
  <2>6. /\ Values(newest, band) # {}
        /\ Values(newest, other) # {}
             => Before(PriorityOf(newest, band), PriorityOf(newest, other))
    BY <2>2, <2>4, AheadIsBefore
  <2>7. /\ Values(kept, band) # {}
        /\ NoWorse(PriorityOf(newest, band), PriorityOf(kept, band))
    BY <2>2, <2>3, <2>4, <2>5, <2>6, KeepNoWorse
  <2>8. /\ Values(kept, other) = Values(newest, other)
        /\ PriorityOf(kept, other) = PriorityOf(newest, other)
    BY <2>2, <2>3, <2>4, OthersKeepTheirs
  <2>9. ASSUME Values(kept, other) # {}
        PROVE  Before(PriorityOf(kept, band), PriorityOf(kept, other))
    <3>1. /\ IsPriority(PriorityOf(newest, band)) /\ IsPriority(PriorityOf(kept, band))
          /\ IsPriority(PriorityOf(newest, other))
      BY <2>4, <2>6, <2>7, <2>8, <2>9, PriorityShape
    <3> QED BY <2>6, <2>7, <2>8, <2>9, <3>1, NoWorseStaysBefore
  <2> QED BY <2>2, <2>4, <2>7, <2>9, AheadIsBefore
<1> QED BY <1>1, <1>2, PTL DEF Reading, EvidenceNeverDemotes

-----------------------------------------------------------------------------
(* The layout of datagrams.                                                *)

Kinds == {"byte", "number", "long", "text"}

\* What the two kinds of fields are.
LEMMA FieldShape ==
  \A name, kind : /\ Always(name, kind).kind = kind /\ Always(name, kind).optional = FALSE
                  /\ Since(name, kind).kind = kind /\ Since(name, kind).optional = TRUE
  BY DEF Always, Since, Field

\* The first m fields are always there, the others optional.
Shape(fields, m) ==
  /\ Len(fields) \in Nat /\ DOMAIN fields = 1 .. Len(fields) /\ m \in 0 .. Len(fields)
  /\ \A i \in 1 .. Len(fields) : fields[i].kind \in Kinds
  /\ \A i \in 1 .. m : fields[i].optional = FALSE
  /\ \A i \in m + 1 .. Len(fields) : fields[i].optional = TRUE

\* Every layout begins with the header.
LEMMA HeaderFirst ==
  ASSUME NEW S, NEW rest \in Seq(S), NEW m, Shape(rest, m)
  PROVE  Shape(Header \o rest, 4 + m)
<1>0. /\ Len(rest) \in Nat /\ m \in 0 .. Len(rest)
      /\ \A i \in 1 .. Len(rest) : rest[i].kind \in Kinds
      /\ \A i \in 1 .. m : rest[i].optional = FALSE
      /\ \A i \in m + 1 .. Len(rest) : rest[i].optional = TRUE
  BY DEF Shape
<1> DEFINE fields == Header \o rest
<1>1. /\ Len(Header) = 4 /\ Header \in Seq({Header[i] : i \in 1 .. 4})
      /\ \A i \in 1 .. 4 : Header[i].kind \in Kinds /\ Header[i].optional = FALSE
  <2>1. Len(Header) = 4 /\ Header \in Seq({Header[i] : i \in 1 .. 4})
    BY DEF Header
  <2>2. \A i \in 1 .. 4 : Header[i].kind \in Kinds
    BY FieldShape DEF Header, Kinds
  <2>3. \A i \in 1 .. 4 : Header[i].optional = FALSE
    BY FieldShape DEF Header
  <2> QED BY <2>1, <2>2, <2>3
<1>2. /\ Len(fields) = 4 + Len(rest) /\ Len(rest) \in Nat
      /\ DOMAIN fields = 1 .. Len(fields)
      /\ \A i \in 1 .. 4 : fields[i] = Header[i]
      /\ \A i \in 1 .. Len(rest) : fields[4 + i] = rest[i]
  <2> DEFINE R == {Header[i] : i \in 1 .. 4} \cup S
  <2>1. Header \in Seq(R) /\ rest \in Seq(R)
    <3>1. \A A, B, s : s \in Seq(A) /\ A \subseteq B => s \in Seq(B)
      BY LenProperties, ElementOfSeq, SeqDef
    <3> QED BY <1>1, <3>1
  <2> HIDE DEF R
  <2>2. /\ fields \in Seq(R) /\ Len(fields) = 4 + Len(rest)
        /\ \A i \in 1 .. 4 + Len(rest) :
             fields[i] = IF i <= 4 THEN Header[i] ELSE rest[i - 4]
    <3>1. /\ fields \in Seq(R) /\ Len(fields) = Len(Header) + Len(rest)
          /\ \A i \in 1 .. Len(Header) + Len(rest) :
               fields[i] = IF i <= Len(Header) THEN Header[i] ELSE rest[i - Len(Header)]
      BY <2>1, ConcatProperties
    <3> QED BY <1>1, <3>1
  <2> HIDE DEF fields
  <2>3. Len(rest) \in Nat /\ DOMAIN fields = 1 .. Len(fields)
    BY <2>1, <2>2, LenProperties
  <2>4. \A i \in 1 .. 4 : i \in 1 .. 4 + Len(rest) /\ i <= 4
    BY <2>3
  <2>5. \A i \in 1 .. Len(rest) :
          4 + i \in 1 .. 4 + Len(rest) /\ ~(4 + i <= 4) /\ (4 + i) - 4 = i
    BY <2>3
  <2> QED BY <2>2, <2>3, <2>4, <2>5
<1> HIDE DEF fields
<1>3. ASSUME NEW i \in 1 .. Len(fields), i > 4
      PROVE  i - 4 \in 1 .. Len(rest) /\ fields[i] = rest[i - 4]
  <2>1. i - 4 \in 1 .. Len(rest) /\ 4 + (i - 4) = i
    BY <1>2, <1>3
  <2> QED BY <1>2, <2>1
<1>4. ASSUME NEW i \in 1 .. Len(fields) PROVE fields[i].kind \in Kinds
  <2>1. CASE i > 4
    BY <1>0, <1>3, <2>1
  <2>2. CASE i \in 1 .. 4
    BY <1>1, <1>2, <2>2
  <2> QED BY <1>2, <2>1, <2>2
<1>5. ASSUME NEW i \in 1 .. 4 + m PROVE fields[i].optional = FALSE
  <2>1. CASE i > 4
    <3>1. i - 4 \in 1 .. m /\ i \in 1 .. Len(fields)
      BY <1>0, <1>2, <2>1
    <3> QED BY <1>0, <1>3, <2>1, <3>1
  <2>2. CASE i \in 1 .. 4
    BY <1>1, <1>2, <2>2
  <2>3. i \in 1 .. 4 \/ i > 4
    BY <1>0
  <2> QED BY <2>1, <2>2, <2>3
<1>6. ASSUME NEW i \in (4 + m) + 1 .. Len(fields) PROVE fields[i].optional = TRUE
  <2>1. i > 4 /\ i - 4 \in m + 1 .. Len(rest) /\ i \in 1 .. Len(fields)
    BY <1>0, <1>2
  <2> QED BY <1>0, <1>3, <2>1
<1>7. Len(fields) \in Nat /\ 4 + m \in 0 .. Len(fields)
  BY <1>0, <1>2
<1> QED BY <1>2, <1>4, <1>5, <1>6, <1>7 DEF Shape, fields

\* Every message is of fields that are always there, and then of optional ones.
LEMMA LayoutShape ==
  ASSUME NEW type \in DOMAIN Layout
  PROVE  \E m \in Nat \ {0} : Shape(Layout[type], m)
<1>1. CASE type = "unknown"
  <2>1. Layout[type] = Header \o <<>>
    BY <1>1 DEF Layout, Header
  <2>2. Len(<<>>) = 0 /\ <<>> \in Seq({})
    OBVIOUS
  <2>3. Shape(<<>>, 0)
    BY <2>2 DEF Shape
  <2>4. Shape(Header \o <<>>, 4 + 0)
    BY <2>2, <2>3, HeaderFirst
  <2> QED BY <2>1, <2>4
<1>2. CASE type = "heartbeat"
  <2> DEFINE rest == <<Always("max_schema", "number"), Always("version", "text"),
                       Always("revision", "text")>>
  <2>1. Layout[type] = Header \o rest
    BY <1>2 DEF Layout
  <2>2. Len(rest) = 3 /\ DOMAIN rest = 1 .. 3 /\ rest \in Seq({rest[i] : i \in 1 .. 3})
    OBVIOUS
  <2>3. \A i \in 1 .. 3 : rest[i].kind \in Kinds
    BY FieldShape DEF Kinds
  <2>4. \A i \in 1 .. 3 : rest[i].optional = FALSE
    BY FieldShape
  <2> HIDE DEF rest
  <2>5. Shape(rest, 3)
    BY <2>2, <2>3, <2>4 DEF Shape
  <2>6. Shape(Header \o rest, 4 + 3)
    BY <2>2, <2>5, HeaderFirst
  <2> QED BY <2>1, <2>6
<1>3. CASE type = "decode"
  <2> DEFINE rest == <<Always("is_new", "byte"), Always("time", "number"),
                       Always("snr", "number"), Always("delta_time", "long"),
                       Always("audio_frequency_hz", "number"), Always("mode", "text"),
                       Always("message", "text")>>
  <2>1. Layout[type] = Header \o rest
    BY <1>3 DEF Layout
  <2>2. Len(rest) = 7 /\ DOMAIN rest = 1 .. 7 /\ rest \in Seq({rest[i] : i \in 1 .. 7})
    OBVIOUS
  <2>3. \A i \in 1 .. 7 : rest[i].kind \in Kinds
    BY FieldShape DEF Kinds
  <2>4. \A i \in 1 .. 7 : rest[i].optional = FALSE
    BY FieldShape
  <2> HIDE DEF rest
  <2>5. Shape(rest, 7)
    BY <2>2, <2>3, <2>4 DEF Shape
  <2>6. Shape(Header \o rest, 4 + 7)
    BY <2>2, <2>5, HeaderFirst
  <2> QED BY <2>1, <2>6
<1>4. CASE type = "status"
  <2> DEFINE rest == <<Always("dial_frequency_hz", "long"), Always("mode", "text"),
                       Always("dx_call", "text"), Always("report", "text"),
                       Always("tx_mode", "text"), Always("tx_enabled", "byte"),
                       Always("transmitting", "byte"), Always("decoding", "byte"),
                       Since("rx_df_hz", "number"), Since("tx_df_hz", "number"),
                       Since("de_call", "text"), Since("de_grid", "text"),
                       Since("dx_grid", "text"), Since("tx_watchdog", "byte"),
                       Since("sub_mode", "text"), Since("fast_mode", "byte"),
                       Since("special_operation_mode", "byte"),
                       Since("frequency_tolerance_hz", "number"),
                       Since("tr_period_seconds", "number"),
                       Since("configuration_name", "text"), Since("tx_message", "text")>>
  <2>1. Layout[type] = Header \o rest
    BY <1>4 DEF Layout
  <2>2. Len(rest) = 21 /\ DOMAIN rest = 1 .. 21 /\ rest \in Seq({rest[i] : i \in 1 .. 21})
    OBVIOUS
  <2>3. \A i \in 1 .. 21 : rest[i].kind \in Kinds
    BY FieldShape DEF Kinds
  <2>4. \A i \in 1 .. 8 : rest[i].optional = FALSE
    BY FieldShape
  <2>5. \A i \in 9 .. 21 : rest[i].optional = TRUE
    BY FieldShape
  <2> HIDE DEF rest
  <2>6. Shape(rest, 8)
    BY <2>2, <2>3, <2>4, <2>5 DEF Shape
  <2>7. Shape(Header \o rest, 4 + 8)
    BY <2>2, <2>6, HeaderFirst
  <2> QED BY <2>1, <2>7
<1> QED BY <1>1, <1>2, <1>3, <1>4 DEF Layout

-----------------------------------------------------------------------------
(* Where fields end.                                                       *)

\* A field has a byte at least, and as many as are asked for before it is read.
LEMMA Sizes ==
  ASSUME NEW kind \in Kinds, NEW texts \in Nat
  PROVE  /\ Size(kind, texts) \in Nat /\ Least(kind) \in {1, 4}
         /\ Size(kind, texts) >= Least(kind)
         /\ Least(kind) = 1 <=> kind = "byte"
         /\ kind = "byte" => Size(kind, texts) = 1
  BY DEF Kinds, Size, Least

\* The ends as a function on the fields.
LEMMA EndsUnfold ==
  ASSUME NEW fields, NEW m, Shape(fields, m), NEW texts \in Nat
  PROVE  /\ Ends(fields, texts) \in [0 .. Len(fields) -> Nat]
         /\ Ends(fields, texts)[0] = 0
         /\ \A n \in 1 .. Len(fields) :
              Ends(fields, texts)[n]
                = Ends(fields, texts)[n - 1] + Size(fields[n].kind, texts)
<1> DEFINE N == Len(fields)
           Bytes(n) == Size(fields[n].kind, texts)
           Step(f, n) == IF n = 0 THEN 0 ELSE f[n - 1] + Bytes(n)
<1>1. N \in Nat /\ \A n \in 1 .. N : Bytes(n) \in Nat
  BY Sizes DEF Shape
<1> HIDE DEF Bytes
<1>2. \E f : f = [n \in 0 .. N |-> Step(f, n)]
  <2> DEFINE step == [n \in 1 .. N |-> [x \in Nat |-> x + Bytes(n)]]
  <2>1. step \in Steps(N, Nat)
    BY <1>1 DEF Steps
  <2>2. PICK f \in [0 .. N -> Nat] :
          f[0] = 0 /\ \A n \in 1 .. N : f[n] = step[n][f[n - 1]]
    <3> HIDE DEF step, N
    <3>1. \E f \in [0 .. N -> Nat] : Follows(f, N, 0, step)
      BY <1>1, <2>1, Recursion
    <3> QED BY <3>1 DEF Follows
  <2>3. ASSUME NEW n \in 0 .. N PROVE f[n] = Step(f, n)
    <3>1. n # 0 => n \in 1 .. N /\ f[n - 1] \in Nat
      BY <1>1
    <3> QED BY <2>2, <3>1
  <2>4. f = [n \in 0 .. N |-> f[n]]
    OBVIOUS
  <2>5. f = [n \in 0 .. N |-> Step(f, n)]
    <3> HIDE DEF Step
    <3> QED BY <2>3, <2>4
  <2> QED BY <2>5
<1> DEFINE ends == CHOOSE f : f = [n \in 0 .. N |-> Step(f, n)]
<1>3. Ends(fields, texts) = ends
  BY DEF Ends, Bytes
<1>4. ends = [n \in 0 .. N |-> Step(ends, n)]
  BY <1>2
<1> HIDE DEF ends
<1>5. DOMAIN ends = 0 .. N /\ \A n \in 0 .. N : ends[n] = Step(ends, n)
  BY <1>4
<1>6. ends[0] = 0 /\ \A n \in 1 .. N : ends[n] = ends[n - 1] + Bytes(n)
  BY <1>1, <1>5
<1> DEFINE T == {n \in Nat : n <= N => ends[n] \in Nat}
<1>7. N \in Nat /\ 0 \in T
  BY <1>1, <1>6
<1>8. ASSUME NEW n \in Nat, n \in T PROVE n + 1 \in T
  <2>1. n + 1 <= N => n + 1 \in 1 .. N /\ (n + 1) - 1 = n /\ n <= N
    BY <1>7
  <2> QED BY <1>1, <1>6, <1>8, <2>1
<1>9. \A n \in 0 .. N : ends[n] \in Nat
  <2>1. Nat \subseteq T
    BY <1>7, <1>8, SetInduction
  <2> QED BY <1>7, <2>1
<1>10. ends \in [0 .. N -> Nat]
  BY <1>4, <1>5, <1>9
<1> QED BY <1>3, <1>6, <1>10 DEF Bytes

\* Every field ends after the fields before it.
LEMMA EndsGrow ==
  ASSUME NEW fields, NEW m, Shape(fields, m), NEW texts \in Nat,
         NEW i \in 0 .. Len(fields), NEW j \in 0 .. Len(fields), i < j
  PROVE  Ends(fields, texts)[i] < Ends(fields, texts)[j]
<1> DEFINE N == Len(fields)
           ends == Ends(fields, texts)
           T == {n \in Nat : i + n + 1 <= N => ends[i] < ends[i + n + 1]}
<1>1. N \in Nat /\ \A n \in 0 .. N : ends[n] \in Nat
  <2>1. ends \in [0 .. N -> Nat]
    BY EndsUnfold
  <2> HIDE DEF ends
  <2> QED BY <2>1 DEF Shape
<1>2. ASSUME NEW n \in 0 .. N, n + 1 <= N PROVE ends[n] < ends[n + 1]
  <2>1. n + 1 \in 1 .. N /\ (n + 1) - 1 = n
    BY <1>1, <1>2
  <2>2. ends[n + 1] = ends[n] + Size(fields[n + 1].kind, texts)
    BY <2>1, EndsUnfold
  <2>3. Size(fields[n + 1].kind, texts) \in Nat /\ Size(fields[n + 1].kind, texts) >= 1
    BY <2>1, Sizes DEF Shape
  <2> QED BY <1>1, <2>2, <2>3
<1> HIDE DEF ends
<1>3. 0 \in T
  BY <1>1, <1>2
<1>4. ASSUME NEW n \in Nat, n \in T PROVE n + 1 \in T
  <2> SUFFICES ASSUME i + (n + 1) + 1 <= N PROVE ends[i] < ends[i + (n + 1) + 1]
    OBVIOUS
  <2>1. /\ i + n + 1 \in 0 .. N /\ (i + n + 1) + 1 <= N
        /\ i + (n + 1) + 1 = (i + n + 1) + 1 /\ (i + n + 1) + 1 \in 0 .. N
    BY <1>1
  <2>2. ends[i] < ends[i + n + 1]
    BY <1>4, <2>1
  <2>3. ends[i + n + 1] < ends[(i + n + 1) + 1]
    BY <1>2, <2>1
  <2> QED BY <1>1, <2>1, <2>2, <2>3
<1>5. j - i - 1 \in T /\ i + (j - i - 1) + 1 = j
  <2>1. j - i - 1 \in Nat
    BY <1>1
  <2> HIDE DEF T
  <2>2. Nat \subseteq T
    BY <1>3, <1>4, SetInduction
  <2> QED BY <1>1, <2>1, <2>2
<1> QED BY <1>1, <1>5 DEF ends

-----------------------------------------------------------------------------
(* The reading of a datagram.                                              *)

Readings == [at : Nat, ok : BOOLEAN, got : Seq({"own", "stray", "default"})]

\* The datagram ends where one of its fields ends.
Between(fields, d) == \E i \in 1 .. Len(fields) : Ends(fields, d.texts)[i] = d.length

\* The datagram is of a version: the fields it leaves out are optional ones.
OfVersion(fields, m, d) ==
  /\ Between(fields, d)
  /\ \A i \in 1 .. Len(fields) : Ends(fields, d.texts)[i] > d.length => i > m

\* All fields so far have been whole, or one has been skipped with less than four
\* bytes left, which are not a field of the sender.
Aligned(fields, d, n, r) ==
  Ends(fields, d.texts)[n] <= d.length /\ r.at = Ends(fields, d.texts)[n]
Skipped(fields, m, d, n, r) ==
  \E k \in 1 .. n : /\ k > m /\ d.length < Ends(fields, d.texts)[k]
                    /\ r.at <= d.length /\ d.length - r.at < 4
                    /\ r.at < d.length => ~Between(fields, d)

GotRight(fields, d, n, got) ==
  /\ Len(got) = n
  /\ \A j \in 1 .. n :
       /\ Ends(fields, d.texts)[j] <= d.length <=> got[j] = "own"
       /\ got[j] = "stray" => /\ fields[j].optional = TRUE /\ fields[j].kind = "byte"
                              /\ ~Between(fields, d)

ReadRight(fields, m, d, n, r) ==
  /\ r \in Readings
  /\ OfVersion(fields, m, d) => r.ok
  /\ r.ok => /\ Aligned(fields, d, n, r) \/ Skipped(fields, m, d, n, r)
             /\ GotRight(fields, d, n, r.got)

\* One more field.
LEMMA GotOneMore ==
  ASSUME NEW fields, NEW d, NEW n \in Nat,
         NEW got \in Seq({"own", "stray", "default"}), GotRight(fields, d, n, got),
         NEW how \in {"own", "stray", "default"},
         Ends(fields, d.texts)[n + 1] <= d.length <=> how = "own",
         how = "stray" => /\ fields[n + 1].optional = TRUE /\ fields[n + 1].kind = "byte"
                          /\ ~Between(fields, d)
  PROVE  /\ Append(got, how) \in Seq({"own", "stray", "default"})
         /\ GotRight(fields, d, n + 1, Append(got, how))
<1> DEFINE more == Append(got, how)
<1>1. /\ more \in Seq({"own", "stray", "default"}) /\ Len(more) = n + 1
      /\ \A j \in 1 .. n : more[j] = got[j]
      /\ more[n + 1] = how
  BY AppendProperties DEF GotRight
<1> HIDE DEF more
<1>2. ASSUME NEW j \in 1 .. n + 1
      PROVE  /\ Ends(fields, d.texts)[j] <= d.length <=> more[j] = "own"
             /\ more[j] = "stray" => /\ fields[j].optional = TRUE /\ fields[j].kind = "byte"
                                     /\ ~Between(fields, d)
  <2>1. CASE j = n + 1
    BY <1>1, <2>1
  <2>2. CASE j \in 1 .. n
    <3>1. more[j] = got[j]
      BY <1>1, <2>2
    <3>2. /\ Ends(fields, d.texts)[j] <= d.length <=> got[j] = "own"
          /\ got[j] = "stray" => /\ fields[j].optional = TRUE /\ fields[j].kind = "byte"
                                 /\ ~Between(fields, d)
      BY <2>2 DEF GotRight
    <3> QED BY <3>1, <3>2, Zenon
  <2>3. j = n + 1 \/ j \in 1 .. n
    OBVIOUS
  <2> QED BY <2>1, <2>2, <2>3
<1> QED BY <1>1, <1>2 DEF GotRight, more

\* ReadField leaves the reading right.
LEMMA FieldReadRight ==
  ASSUME NEW fields, NEW m, Shape(fields, m),
         NEW d, d.texts \in Nat, d.length \in Nat,
         NEW n \in Nat, n + 1 <= Len(fields),
         NEW r, ReadRight(fields, m, d, n, r)
  PROVE  ReadRight(fields, m, d, n + 1,
                   ReadField(r, fields[n + 1], Ends(fields, d.texts)[n], d))
<1> DEFINE ends == Ends(fields, d.texts)
           field == fields[n + 1]
           size == Size(field.kind, d.texts)
           left == d.length - r.at
           next == ReadField(r, field, ends[n], d)
           N == Len(fields)
<1>1. /\ N \in Nat /\ n \in 0 .. N /\ n + 1 \in 1 .. N /\ n + 1 \in 0 .. N
      /\ m \in 0 .. N
      /\ field.kind \in Kinds /\ (n + 1) - 1 = n
  BY DEF Shape
<1>2. /\ ends \in [0 .. N -> Nat]
      /\ ends[n + 1] = ends[n] + size
  BY <1>1, EndsUnfold
<1>3. /\ size \in Nat /\ Least(field.kind) \in {1, 4} /\ size >= Least(field.kind)
      /\ Least(field.kind) = 1 => field.kind = "byte" /\ size = 1
  BY <1>1, Sizes
<1>4. /\ n + 1 <= m => field.optional = FALSE
      /\ n + 1 > m => field.optional = TRUE
  BY <1>1 DEF Shape
<1>5. \A i, j \in 0 .. N : i < j => ends[i] < ends[j]
  BY EndsGrow
<1>6. r \in Readings /\ r.at \in Nat /\ r.ok \in BOOLEAN
      /\ r.got \in Seq({"own", "stray", "default"})
  BY DEF ReadRight, Readings
<1> HIDE DEF ends, size, field
<1>7. CASE ~r.ok
  <2>1. next = r
    BY <1>7 DEF ReadField
  <2> QED BY <1>7, <2>1 DEF ReadRight, ends, field
<1>8. ASSUME r.ok, Aligned(fields, d, n, r)
      PROVE  ReadRight(fields, m, d, n + 1, next)
  <2>1. r.at = ends[n] /\ r.at <= d.length /\ left \in Nat /\ GotRight(fields, d, n, r.got)
    BY <1>1, <1>2, <1>6, <1>8 DEF Aligned, ReadRight, ends
  <2>2. CASE field.optional /\ left < Least(field.kind)
    <3>1. next = [r EXCEPT !.got = Append(@, "default")]
      BY <1>8, <2>2 DEF ReadField
    <3>2. d.length < ends[n + 1]
      BY <1>1, <1>2, <1>3, <2>1, <2>2
    <3>3. GotRight(fields, d, n + 1, next.got) /\ next \in Readings
      <4>1. ~(ends[n + 1] <= d.length)
        BY <1>1, <1>2, <3>2
      <4>2. /\ Append(r.got, "default") \in Seq({"own", "stray", "default"})
            /\ GotRight(fields, d, n + 1, Append(r.got, "default"))
        BY <1>6, <2>1, <4>1, GotOneMore DEF ends
      <4> QED BY <1>6, <3>1, <4>2 DEF Readings
    <3>4. n + 1 > m
      BY <1>1, <1>4, <2>2
    <3>5. r.at < d.length => ~Between(fields, d)
      <4> SUFFICES ASSUME r.at < d.length, NEW i \in 1 .. N, ends[i] = d.length PROVE FALSE
        BY DEF Between, ends
      <4>1. i # n /\ i # n + 1 /\ ~(i < n) /\ ~(n + 1 < i)
        BY <1>1, <1>2, <1>5, <2>1, <3>2
      <4> QED BY <1>1, <4>1
    <3>6. Skipped(fields, m, d, n + 1, next)
      <4>1. next.at = r.at /\ n + 1 \in 1 .. n + 1
        BY <1>1, <1>6, <3>1 DEF Readings
      <4>2. left < 4
        BY <1>3, <2>1, <2>2
      <4> QED BY <2>1, <3>2, <3>4, <3>5, <4>1, <4>2 DEF Skipped, ends
    <3>7. next.ok
      BY <1>6, <1>8, <3>1 DEF Readings
    <3> QED BY <3>3, <3>6, <3>7 DEF ReadRight
  <2>3. CASE ~(field.optional /\ left < Least(field.kind)) /\ left < size
    <3>1. next = [r EXCEPT !.ok = FALSE]
      BY <1>8, <2>3 DEF ReadField, size
    <3>2. next \in Readings /\ ~next.ok
      BY <1>6, <3>1 DEF Readings
    <3>3. ~OfVersion(fields, m, d)
      <4> SUFFICES ASSUME OfVersion(fields, m, d) PROVE FALSE
        OBVIOUS
      <4>1. PICK i \in 1 .. N : ends[i] = d.length
        BY DEF OfVersion, Between, ends
      <4>2. d.length < ends[n + 1]
        BY <1>1, <1>2, <1>3, <2>1, <2>3
      <4>3. ~(n + 1 < i) /\ i # n + 1
        BY <1>1, <1>2, <1>5, <4>1, <4>2
      <4>4. i <= n
        BY <1>1, <4>3
      <4>5. ends[n] = d.length
        BY <1>1, <1>2, <1>5, <2>1, <4>1, <4>4
      <4>6. left = 0
        BY <1>6, <2>1, <4>5
      <4>7. n + 1 > m
        BY <1>1, <1>2, <4>2 DEF OfVersion, ends
      <4> QED BY <1>3, <1>4, <2>3, <4>6, <4>7
    <3> QED BY <3>2, <3>3 DEF ReadRight
  <2>4. CASE ~(field.optional /\ left < Least(field.kind)) /\ ~(left < size)
    <3>1. next = [r EXCEPT !.got = Append(@, "own"), !.at = @ + size]
      BY <1>8, <2>1, <2>4 DEF ReadField, size
    <3>2. ends[n + 1] <= d.length /\ ends[n + 1] = r.at + size
      BY <1>1, <1>2, <1>3, <1>6, <2>1, <2>4
    <3>3. GotRight(fields, d, n + 1, next.got) /\ next \in Readings
      <4>1. /\ Append(r.got, "own") \in Seq({"own", "stray", "default"})
            /\ GotRight(fields, d, n + 1, Append(r.got, "own"))
        BY <1>6, <2>1, <3>2, GotOneMore DEF ends
      <4>2. r.at + size \in Nat
        BY <1>3, <1>6
      <4> QED BY <1>6, <3>1, <4>1, <4>2 DEF Readings
    <3>4. next.at = r.at + size /\ next.ok
      BY <1>6, <1>8, <3>1 DEF Readings
    <3>5. Aligned(fields, d, n + 1, next)
      BY <3>2, <3>4 DEF Aligned, ends
    <3> QED BY <3>3, <3>4, <3>5 DEF ReadRight
  <2> QED BY <2>2, <2>3, <2>4
<1>9. ASSUME r.ok, Skipped(fields, m, d, n, r)
      PROVE  ReadRight(fields, m, d, n + 1, next)
  <2>1. PICK k \in 1 .. n : /\ k > m /\ d.length < ends[k]
                            /\ r.at <= d.length /\ d.length - r.at < 4
                            /\ r.at < d.length => ~Between(fields, d)
    <3>1. Skipped(fields, m, d, n, r)
      BY <1>9
    <3> QED BY <3>1, Zenon DEF Skipped, ends
  <2>2. GotRight(fields, d, n, r.got) /\ left \in Nat /\ left < 4
    BY <1>6, <1>9, <2>1 DEF ReadRight
  <2>3. d.length < ends[n] /\ d.length < ends[n + 1] /\ n + 1 > m /\ k \in 1 .. n + 1
    <3>1. k \in 0 .. N /\ k < n + 1 /\ (k = n \/ k < n)
      BY <1>1
    <3>2. ends[k] < ends[n + 1] /\ (k = n \/ ends[k] < ends[n])
      BY <1>1, <1>5, <3>1
    <3> QED BY <1>1, <1>2, <2>1, <3>1, <3>2
  <2>4. ~(ends[n + 1] <= d.length) /\ field.optional = TRUE
    BY <1>1, <1>2, <1>4, <2>3
  <2>5. CASE left < Least(field.kind)
    <3>1. next = [r EXCEPT !.got = Append(@, "default")]
      BY <1>9, <2>4, <2>5 DEF ReadField
    <3>2. /\ Append(r.got, "default") \in Seq({"own", "stray", "default"})
          /\ GotRight(fields, d, n + 1, Append(r.got, "default"))
      BY <1>6, <2>2, <2>4, GotOneMore DEF ends
    <3>3. /\ next \in Readings /\ next.ok /\ next.at = r.at
          /\ GotRight(fields, d, n + 1, next.got)
      BY <1>6, <1>9, <3>1, <3>2 DEF Readings
    <3>4. Skipped(fields, m, d, n + 1, next)
      BY <2>1, <2>3, <3>3 DEF Skipped, ends
    <3> QED BY <3>3, <3>4 DEF ReadRight
  <2>6. CASE ~(left < Least(field.kind)) /\ left < size
    <3>1. next = [r EXCEPT !.ok = FALSE]
      BY <1>9, <2>6 DEF ReadField, size
    <3>2. next \in Readings /\ ~next.ok
      BY <1>6, <3>1 DEF Readings
    <3>3. r.at < d.length
      BY <1>3, <1>6, <2>1, <2>2, <2>6
    <3>4. ~OfVersion(fields, m, d)
      BY <2>1, <3>3 DEF OfVersion
    <3> QED BY <3>2, <3>4 DEF ReadRight
  <2>7. CASE ~(left < Least(field.kind)) /\ ~(left < size)
    <3>1. field.kind = "byte" /\ size = 1 /\ left >= 1
      BY <1>3, <2>2, <2>7
    <3>2. r.at # ends[n] /\ r.at < d.length
      BY <1>1, <1>2, <1>6, <2>1, <2>3, <3>1
    <3>3. next = [r EXCEPT !.got = Append(@, "stray"), !.at = @ + size]
      BY <1>9, <2>7, <3>2 DEF ReadField, size
    <3>4. /\ Append(r.got, "stray") \in Seq({"own", "stray", "default"})
          /\ GotRight(fields, d, n + 1, Append(r.got, "stray"))
      BY <1>6, <2>1, <2>2, <2>4, <3>1, <3>2, GotOneMore DEF ends, field
    <3>5. /\ next \in Readings /\ next.ok /\ next.at = r.at + 1
          /\ GotRight(fields, d, n + 1, next.got)
      <4>1. r.at + size \in Nat /\ r.at + size = r.at + 1
        BY <1>6, <3>1
      <4> QED BY <1>6, <1>9, <3>3, <3>4, <4>1 DEF Readings
    <3>6. /\ next.at <= d.length /\ d.length - next.at < 4
          /\ next.at < d.length => ~Between(fields, d)
      BY <1>6, <2>1, <2>2, <3>1, <3>2, <3>5
    <3>7. Skipped(fields, m, d, n + 1, next)
      BY <2>1, <2>3, <3>6 DEF Skipped, ends
    <3> QED BY <3>5, <3>7 DEF ReadRight
  <2> QED BY <2>5, <2>6, <2>7
<1> QED BY <1>7, <1>8, <1>9 DEF ReadRight, ends, field

-----------------------------------------------------------------------------
(* The whole of a datagram.                                                *)

\* A datagram is no longer than the message of its sender.
LEMMA DatagramShape ==
  ASSUME NEW d \in Datagrams
  PROVE  /\ d.type \in DOMAIN Layout /\ d.texts \in Nat /\ d.length \in Nat
<1>1. PICK type \in DOMAIN Layout, texts \in TextLengths :
        d \in [type : {type}, texts : {texts},
               length : 0 .. Ends(Layout[type], texts)[Len(Layout[type])]]
  BY DEF Datagrams
<1>2. d.type = type /\ d.texts = texts
      /\ d.length \in 0 .. Ends(Layout[type], texts)[Len(Layout[type])]
  BY <1>1
<1>3. texts \in Nat
  BY TextAssumption
<1> QED BY <1>2, <1>3

First == [at |-> 0, ok |-> TRUE, got |-> <<>>]

\* parse_packet reads one field after the other.
LEMMA Parsed ==
  ASSUME NEW d \in Datagrams, NEW m, Shape(Layout[d.type], m)
  PROVE  \E reading :
           /\ parse_packet[d] = reading[Len(Layout[d.type])]
           /\ reading[0] = First
           /\ \A n \in 1 .. Len(Layout[d.type]) :
                reading[n] = ReadField(reading[n - 1], Layout[d.type][n],
                                       Ends(Layout[d.type], d.texts)[n - 1], d)
<1> DEFINE fields == Layout[d.type]
           N == Len(fields)
           ReadNext(r, n) == ReadField(r, fields[n], Ends(fields, d.texts)[n - 1], d)
           Step(f, n) == IF n = 0 THEN First ELSE ReadNext(f[n - 1], n)
           size(n) == Size(fields[n].kind, d.texts)
<1>1. N \in Nat /\ d.texts \in Nat /\ d.length \in Nat
      /\ \A n \in 1 .. N : size(n) \in Nat
  BY DatagramShape, Sizes DEF Shape
<1>2. ASSUME NEW r \in Readings, NEW n \in 1 .. N PROVE ReadNext(r, n) \in Readings
  <2> DEFINE how == IF r.at = Ends(fields, d.texts)[n - 1] THEN "own" ELSE "stray"
  <2>1. /\ Append(r.got, "default") \in Seq({"own", "stray", "default"})
        /\ Append(r.got, how) \in Seq({"own", "stray", "default"})
        /\ r.at + size(n) \in Nat
    BY <1>1, AppendProperties DEF Readings
  <2>2. \/ ReadNext(r, n) = r
        \/ ReadNext(r, n) = [r EXCEPT !.got = Append(@, "default")]
        \/ ReadNext(r, n) = [r EXCEPT !.ok = FALSE]
        \/ ReadNext(r, n) = [r EXCEPT !.got = Append(@, how), !.at = @ + size(n)]
    BY Zenon DEF ReadField
  <2> HIDE DEF ReadNext, how, size
  <2> QED BY <2>1, <2>2 DEF Readings
<1>3. First \in Readings
  BY EmptySeq DEF First, Readings
<1> HIDE DEF ReadNext, size
<1>4. \E f : f = [n \in 0 .. N |-> Step(f, n)]
  <2> DEFINE step == [n \in 1 .. N |-> [x \in Readings |-> ReadNext(x, n)]]
  <2>1. step \in Steps(N, Readings)
    BY <1>2 DEF Steps
  <2>2. PICK f \in [0 .. N -> Readings] :
          f[0] = First /\ \A n \in 1 .. N : f[n] = step[n][f[n - 1]]
    <3> HIDE DEF step, N
    <3>1. \E f \in [0 .. N -> Readings] : Follows(f, N, First, step)
      BY <1>1, <1>3, <2>1, Recursion
    <3> QED BY <3>1 DEF Follows
  <2>3. ASSUME NEW n \in 0 .. N PROVE f[n] = Step(f, n)
    <3>1. n # 0 => n \in 1 .. N /\ f[n - 1] \in Readings
      BY <1>1
    <3> QED BY <2>2, <3>1
  <2>4. f = [n \in 0 .. N |-> f[n]]
    OBVIOUS
  <2>5. f = [n \in 0 .. N |-> Step(f, n)]
    <3> HIDE DEF Step
    <3> QED BY <2>3, <2>4
  <2> QED BY <2>5
<1> DEFINE reading == CHOOSE f : f = [n \in 0 .. N |-> Step(f, n)]
<1>5. parse_packet[d] = reading[N]
  BY DEF parse_packet, ReadNext, First
<1>6. reading = [n \in 0 .. N |-> Step(reading, n)]
  BY <1>4
<1> HIDE DEF reading
<1>7. \A n \in 0 .. N : reading[n] = Step(reading, n)
  BY <1>6
<1>8. /\ reading[0] = First
      /\ \A n \in 1 .. N : reading[n] = ReadNext(reading[n - 1], n)
  BY <1>1, <1>7
<1> QED BY <1>5, <1>8 DEF ReadNext

\* The fields are read right up to the last one.
LEMMA ParsedRight ==
  ASSUME NEW d \in Datagrams, NEW m, Shape(Layout[d.type], m)
  PROVE  ReadRight(Layout[d.type], m, d, Len(Layout[d.type]), parse_packet[d])
<1> DEFINE fields == Layout[d.type]
           N == Len(fields)
<1>1. PICK reading :
        /\ parse_packet[d] = reading[N]
        /\ reading[0] = First
        /\ \A n \in 1 .. N : reading[n] = ReadField(reading[n - 1], fields[n],
                                                    Ends(fields, d.texts)[n - 1], d)
  BY Parsed
<1>2. d.texts \in Nat /\ d.length \in Nat /\ N \in Nat
  BY DatagramShape DEF Shape
<1> DEFINE T == {n \in Nat : n <= N => ReadRight(fields, m, d, n, reading[n])}
<1>3. ReadRight(fields, m, d, 0, First)
  <2>1. Ends(fields, d.texts)[0] = 0
    BY <1>2, EndsUnfold
  <2>2. First \in Readings /\ First.ok /\ First.at = 0 /\ Len(First.got) = 0
    BY EmptySeq DEF First, Readings
  <2>3. Aligned(fields, d, 0, First)
    BY <1>2, <2>1, <2>2 DEF Aligned
  <2>4. GotRight(fields, d, 0, First.got)
    BY <2>2 DEF GotRight
  <2> QED BY <2>2, <2>3, <2>4 DEF ReadRight
<1> HIDE DEF fields, N
<1>4. 0 \in T
  BY <1>1, <1>3
<1>5. ASSUME NEW n \in Nat, n \in T PROVE n + 1 \in T
  <2> SUFFICES ASSUME n + 1 <= N PROVE ReadRight(fields, m, d, n + 1, reading[n + 1])
    OBVIOUS
  <2>1. ReadRight(fields, m, d, n, reading[n]) /\ n + 1 \in 1 .. N /\ (n + 1) - 1 = n
    BY <1>2, <1>5
  <2>2. ReadRight(fields, m, d, n + 1,
                  ReadField(reading[n], fields[n + 1], Ends(fields, d.texts)[n], d))
    BY <1>2, <2>1, FieldReadRight DEF fields, N
  <2>3. reading[n + 1] = ReadField(reading[n], fields[n + 1], Ends(fields, d.texts)[n], d)
    BY <1>1, <2>1
  <2> QED BY <2>2, <2>3
<1>6. ReadRight(fields, m, d, N, reading[N])
  <2> HIDE DEF T
  <2>1. Nat \subseteq T
    BY <1>4, <1>5, SetInduction
  <2> QED BY <1>2, <2>1 DEF T
<1> QED BY <1>1, <1>6 DEF fields, N

\* The Status of every version is read.
LEMMA VersionsAreRead == EveryVersionIsRead
<1> SUFFICES ASSUME NEW d \in Versions PROVE parse_packet[d].ok
  BY DEF EveryVersionIsRead
<1> DEFINE fields == Layout[d.type]
<1>1. /\ d \in Datagrams /\ d.type = "status" /\ EndsBetweenFields(d)
      /\ \A i \in DOMAIN fields \ Arrived(d) : fields[i].optional
  BY DEF Versions
<1>2. PICK m : Shape(fields, m)
  BY <1>1, DatagramShape, LayoutShape
<1>3. DOMAIN fields = 1 .. Len(fields) /\ Len(fields) \in Nat /\ m \in 0 .. Len(fields)
      /\ \A i \in 1 .. m : fields[i].optional = FALSE
  BY <1>2 DEF Shape
<1>4. Ends(fields, d.texts) \in [0 .. Len(fields) -> Nat] /\ d.length \in Nat
  BY <1>1, <1>2, DatagramShape, EndsUnfold
<1>5. Between(fields, d)
  BY <1>1, <1>3 DEF Between, EndsBetweenFields
<1>6. ASSUME NEW i \in 1 .. Len(fields), Ends(fields, d.texts)[i] > d.length
      PROVE  i > m
  <2>1. ~(Ends(fields, d.texts)[i] <= d.length)
    BY <1>3, <1>4, <1>6
  <2>2. i \in DOMAIN fields \ Arrived(d)
    BY <1>3, <2>1 DEF Arrived
  <2>3. fields[i].optional
    BY <1>1, <2>2
  <2> QED BY <1>3, <2>3
<1>7. OfVersion(fields, m, d)
  BY <1>5, <1>6 DEF OfVersion
<1>8. ReadRight(fields, m, d, Len(fields), parse_packet[d])
  BY <1>1, <1>2, ParsedRight
<1> QED BY <1>7, <1>8 DEF ReadRight

\* The packet that is passed on is a datagram as parse_packet read it.
PacketInv ==
  packet # NoPacket =>
    /\ packet.of \in Datagrams /\ parse_packet[packet.of].ok
    /\ packet.got = parse_packet[packet.of].got

\* What is passed on has every field of the sender and the defaults of the fields left
\* out; only flags behind a cut may be read out of other bytes.
LEMMA PacketReadRight ==
  ASSUME PacketInv PROVE PacketIsSenders
<1> SUFFICES ASSUME packet # NoPacket, NEW i \in DOMAIN Layout[packet.of.type]
             PROVE  /\ i \in Arrived(packet.of) <=> packet.got[i] = "own"
                    /\ packet.got[i] = "stray" =>
                         /\ Layout[packet.of.type][i].optional
                         /\ Layout[packet.of.type][i].kind = "byte"
                         /\ ~EndsBetweenFields(packet.of)
  BY VersionsAreRead, Zenon DEF PacketIsSenders
<1> DEFINE d == packet.of
           fields == Layout[d.type]
           got == packet.got
<1>1. d \in Datagrams /\ parse_packet[d].ok /\ got = parse_packet[d].got
  BY DEF PacketInv
<1>2. PICK m : Shape(fields, m)
  BY <1>1, DatagramShape, LayoutShape
<1>3. DOMAIN fields = 1 .. Len(fields)
  BY <1>2 DEF Shape
<1>4. GotRight(fields, d, Len(fields), got)
  BY <1>1, <1>2, ParsedRight DEF ReadRight
<1> HIDE DEF got
<1>5. /\ Ends(fields, d.texts)[i] <= d.length <=> got[i] = "own"
      /\ got[i] = "stray" => /\ fields[i].optional = TRUE /\ fields[i].kind = "byte"
                             /\ ~Between(fields, d)
  BY <1>3, <1>4 DEF GotRight
<1>6. i \in Arrived(d) <=> Ends(fields, d.texts)[i] <= d.length
  BY DEF Arrived
<1>7. EndsBetweenFields(d) <=> Between(fields, d)
  BY <1>3 DEF EndsBetweenFields, Between
<1> QED BY <1>5, <1>6, <1>7 DEF got

\* Whatever datagrams arrive, of any sender whose texts have any lengths and cut at any
\* byte: the Status of every version is read, and a packet that is passed on has the
\* fields its sender put in (protocol.py:151-218).
THEOREM PacketsAreSenders == Listening => []PacketIsSenders
<1>1. NothingReceived => PacketInv
  BY DEF NothingReceived, PacketInv
<1>2. PacketInv /\ [PacketArrives]_packet => PacketInv'
  <2> SUFFICES ASSUME PacketInv, [PacketArrives]_packet PROVE PacketInv'
    OBVIOUS
  <2>1. CASE PacketArrives
    <3>1. PICK d \in Datagrams : /\ parse_packet[d].ok
                                 /\ packet' = [of |-> d, got |-> parse_packet[d].got]
      BY <2>1 DEF PacketArrives
    <3> QED BY <3>1 DEF PacketInv
  <2>2. CASE UNCHANGED packet
    BY <2>2 DEF PacketInv
  <2> QED BY <2>1, <2>2
<1>3. PacketInv => PacketIsSenders
  BY PacketReadRight
<1> QED BY <1>1, <1>2, <1>3, PTL DEF Listening
==============================================================================
