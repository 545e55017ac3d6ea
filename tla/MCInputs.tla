------------------------------- MODULE MCInputs -------------------------------
(* What is read out of the data of others: datagrams, the messages of       *)
(* stations, and the reports of PSK Reporter.  The three never meet; a      *)
(* behaviour has one of them.                                               *)
EXTENDS TargetDetection, BandRanking, WsjtxProtocol

CONSTANTS b20, b17, b60, r1, r2

Locators == [T22TT |-> "RI49", G8AJM |-> "JO03", OL30AA |-> "JN79"]
LocatorOf(call) == Locators[call]

Good == {[receiver |-> place[1], band |-> band, age |-> age, km |-> place[2], ft8 |-> TRUE] :
           place \in {<<r1, 500>>, <<r2, 501>>, <<r2, 1500>>},
           band \in {b20, b17}, age \in {600, 601, 1201}}

One == [receiver |-> r1, band |-> b20, age |-> 0, km |-> 0, ft8 |-> TRUE]
Odd == {[One EXCEPT !.age = -300], [One EXCEPT !.age = -301],
        [One EXCEPT !.age = 1801], [One EXCEPT !.km = -1], [One EXCEPT !.km = 2501],
        [One EXCEPT !.receiver = NoReceiver], [One EXCEPT !.band = b60],
        [One EXCEPT !.ft8 = FALSE]}

Samples == Good \cup Odd

MCInit == Init /\ NoReports /\ NothingReceived
MCNext == \/ NoReports /\ NothingReceived /\ Next /\ UNCHANGED <<reports, packet>>
          \/ last.message = NoMessage /\ NothingReceived /\ ReadReport
             /\ UNCHANGED <<vars, packet>>
          \/ last.message = NoMessage /\ NoReports /\ target_call = "T22TT"
             /\ PacketArrives /\ UNCHANGED <<vars, reports>>
MCSpec == MCInit /\ [][MCNext]_<<vars, reports, packet>>
=============================================================================
