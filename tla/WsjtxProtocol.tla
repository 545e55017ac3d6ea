----------------------------- MODULE WsjtxProtocol -----------------------------
(***************************************************************************)
(* Datagrams of WSJT-X and of other senders, as parse_packet takes them    *)
(* apart (protocol.py).  WSJT-X appends fields to its Status from version  *)
(* to version, so a Status may end early; a datagram that ends elsewhere   *)
(* is not WSJT-X's.                                                        *)
(*                                                                         *)
(* A datagram is the whole message of its sender and the number of bytes   *)
(* of it that arrive.  The bytes are told apart by the field they belong   *)
(* to, their values are not: a field is read as the sender's ("own"), out  *)
(* of bytes of another field ("stray"), or is given its "default".         *)
(***************************************************************************)
EXTENDS Integers, Sequences

CONSTANT TextLengths    \* bytes of the texts; 0 is also that of a null text
ASSUME TextAssumption == TextLengths \subseteq Nat

VARIABLE packet    \* the last one the listener passed on: its datagram and how it was read

NoPacket == [of |-> "none"]

-----------------------------------------------------------------------------
(* The layout.                                                             *)

Field(name, kind, optional) == [name |-> name, kind |-> kind, optional |-> optional]
Always(name, kind) == Field(name, kind, FALSE)
Since(name, kind)  == Field(name, kind, TRUE)

Header == <<Always("magic", "number"), Always("schema", "number"), Always("type", "number"),
          Always("wsjtx_id", "text")>>

Layout ==
  [unknown   |-> Header,
   heartbeat |-> Header \o <<Always("max_schema", "number"), Always("version", "text"),
                           Always("revision", "text")>>,
   decode    |-> Header \o <<Always("is_new", "byte"), Always("time", "number"),
                           Always("snr", "number"), Always("delta_time", "long"),
                           Always("audio_frequency_hz", "number"), Always("mode", "text"),
                           Always("message", "text")>>,
   status    |-> Header \o <<Always("dial_frequency_hz", "long"), Always("mode", "text"),
                           Always("dx_call", "text"), Always("report", "text"),
                           Always("tx_mode", "text"), Always("tx_enabled", "byte"),
                           Always("transmitting", "byte"), Always("decoding", "byte"),
                           Since("rx_df_hz", "number"), Since("tx_df_hz", "number"),
                           Since("de_call", "text"), Since("de_grid", "text"),
                           Since("dx_grid", "text"), Since("tx_watchdog", "byte"),
                           Since("sub_mode", "text"), Since("fast_mode", "byte"),
                           Since("special_operation_mode", "byte"),
                           Since("frequency_tolerance_hz", "number"),
                           Since("tr_period_seconds", "number"),
                           Since("configuration_name", "text"), Since("tx_message", "text")>>]

Size(kind, texts) == CASE kind = "byte" -> 1 [] kind = "number" -> 4
                       [] kind = "long" -> 8 [] kind = "text"   -> 4 + texts

\* The bytes up to the end of each field, of a sender whose texts have a length.
Ends(fields, texts) ==
  LET ends[n \in 0 .. Len(fields)] ==
        IF n = 0 THEN 0 ELSE ends[n - 1] + Size(fields[n].kind, texts)
  IN  ends

Datagrams ==
  UNION {UNION {[type : {type}, texts : {texts},
                  length : 0 .. Ends(Layout[type], texts)[Len(Layout[type])]] :
                  texts \in TextLengths} : type \in DOMAIN Layout}

-----------------------------------------------------------------------------
(* protocol.py                                                             *)

\* What must be left for an optional field to be read at all: of a text, its length.
LeastFour(kind) == 4                                              \* mutant
Least(kind) == IF kind = "byte" THEN 1 ELSE 4

\* One read of parse_packet, at byte at.  A number or a text that is not skipped
\* starts where the sender put it; a skipped one leaves up to three bytes behind.
ReadField(reading, field, begins, d) ==
  LET left == d.length - reading.at
  IN  IF ~reading.ok THEN reading
      ELSE IF field.optional /\ left < Least(field.kind)
      THEN [reading EXCEPT !.got = Append(@, "default")]
      ELSE IF left < Size(field.kind, d.texts)
      THEN [reading EXCEPT !.ok = FALSE]
      ELSE [reading EXCEPT !.got = Append(@, IF reading.at = begins THEN "own" ELSE "stray"),
                           !.at = @ + Size(field.kind, d.texts)]

\* The fields one after the other; ~ok is a ValueError.
parse_packet ==
  [d \in Datagrams |->
     LET fields == Layout[d.type]
         reading[n \in 0 .. Len(fields)] ==
           IF n = 0 THEN [at |-> 0, ok |-> TRUE, got |-> <<>>]
           ELSE ReadField(reading[n - 1], fields[n], Ends(fields, d.texts)[n - 1], d)
     IN  reading[Len(fields)]]

NothingReceived == packet = NoPacket

\* A datagram that is a packet.  Nothing comes of any other one: of one too short to
\* be looked at or of another type there is no packet, and one that ends too early is
\* reported.
PacketArrives ==
  \E d \in Datagrams :
    /\ d.length >= 12 /\ d.type # "unknown" /\ parse_packet[d].ok
    /\ packet' = [of |-> d, got |-> parse_packet[d].got]

-----------------------------------------------------------------------------
\* The fields of the sender that have arrived as a whole.
Arrived(d) == {i \in DOMAIN Layout[d.type] : Ends(Layout[d.type], d.texts)[i] <= d.length}
EndsBetweenFields(d) ==
  \E i \in DOMAIN Layout[d.type] : Ends(Layout[d.type], d.texts)[i] = d.length

\* The Status of every version: some of the fields are left out at the end.
Versions == {d \in Datagrams : d.type = "status" /\ EndsBetweenFields(d)
                                 /\ \A i \in DOMAIN Layout.status \ Arrived(d) : Layout.status[i].optional}
Listening == NothingReceived /\ [][PacketArrives]_packet

EveryVersionIsRead == \A d \in Versions : parse_packet[d].ok

\* The Status of every version of WSJT-X is read, and a packet that is passed on has
\* every field its sender put in and the default for every field left out.  A datagram
\* that is cut inside a field is refused, or is a Status without its last fields: such a
\* one may show a false flag among the later fields, but never a false frequency,
\* transmit flag or text, and nothing before the cut is touched (protocol.py:151-218;
\* test_core.py:46).
PacketIsSenders ==
  /\ EveryVersionIsRead
  /\ packet # NoPacket =>
       \A i \in DOMAIN Layout[packet.of.type] :
         LET field == Layout[packet.of.type][i]
             how   == packet.got[i]
         IN  /\ i \in Arrived(packet.of) <=> how = "own"
             /\ how = "stray" => /\ field.optional /\ field.kind = "byte"
                                 /\ ~EndsBetweenFields(packet.of)
=============================================================================
