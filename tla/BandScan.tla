------------------------------ MODULE BandScan -------------------------------
(***************************************************************************)
(* The reload button beside the Channel option: one scan of the Wi-Fi      *)
(* band, and what the dialog then says of each channel.  The board sends a *)
(* record for each access point and then its reply, which counts them; its *)
(* ring may refuse any of these, and a record may not decode.  Handing the *)
(* receiver back before the scan is in Session.                            *)
(***************************************************************************)
EXTENDS Integers, Sequences, FiniteSets

CONSTANTS Bands,     \* what a scan may find: the channel of each access point
          Channels   \* the channels the dialog offers

ASSUME BandsAssumption == \A b \in Bands : b \in Seq(Nat)

VARIABLES
  band,    \* what the board's scan finds
  client,  \* "ready", "settling", "scanning", "done"
  queue,   \* commands the board has yet to handle
  sending, \* the access point it sends next, or after the last its reply;
           \* 0 before and after
  link,    \* frames sent and not read
  found,   \* the access points that arrived
  result,  \* how the scan ended: "whole", "short" or "failed"
  missed   \* history: access points whose record did not arrive

bvars == <<band, client, queue, sending, link, found, result, missed>>

ScanInit(bands) ==
  /\ band \in bands
  /\ client = "ready" /\ queue = <<>> /\ sending = 0 /\ link = <<>>
  /\ found = <<>> /\ result = "none" /\ missed = {}

Record(ap, reads) == [is |-> "AP_RECORD", ap |-> ap, reads |-> reads]
Reply(command, ok, value) ==
  [is |-> "CONTROL_REPLY", command |-> command, ok |-> ok, value |-> value]

-----------------------------------------------------------------------------
(* The board *)

\* A frame its ring takes or refuses.
Sends(frame) == link' \in {link, Append(link, frame)}

Selects ==
  /\ queue # <<>> /\ Head(queue) = "SET_RADIO"
  /\ queue' = Tail(queue) /\ Sends(Reply("SET_RADIO", TRUE, 0))
  /\ UNCHANGED <<band, client, sending, found, result, missed>>

\* The driver may refuse; otherwise it counts what it found, and each is sent.
Sweeps ==
  /\ queue # <<>> /\ Head(queue) = "WIFI_SCAN" /\ sending = 0
  /\ \/ /\ queue' = Tail(queue) /\ Sends(Reply("WIFI_SCAN", FALSE, 0))
        /\ UNCHANGED sending
     \/ /\ sending' = 1
        /\ UNCHANGED <<queue, link>>
  /\ UNCHANGED <<band, client, found, result, missed>>

\* An access point's record: sent, garbled or refused.
SendsRecord ==
  /\ sending \in 1 .. Len(band)
  /\ \/ link' = Append(link, Record(sending, TRUE)) /\ UNCHANGED missed
     \/ /\ link' \in {link, Append(link, Record(sending, FALSE))}
        /\ missed' = missed \cup {sending}
  /\ sending' = sending + 1
  /\ UNCHANGED <<band, client, queue, found, result>>

SendsReply ==
  /\ sending = Len(band) + 1 /\ sending' = 0
  /\ queue' = Tail(queue) /\ Sends(Reply("WIFI_SCAN", TRUE, Len(band)))
  /\ UNCHANGED <<band, client, found, result, missed>>

-----------------------------------------------------------------------------
(* scan_access_points *)

Opens ==
  /\ client = "ready"
  /\ client' = "settling" /\ queue' = <<"SET_RADIO">>
  /\ UNCHANGED <<band, sending, link, found, result, missed>>

\* While the radio settles, whatever is read is thrown away.
Settles ==
  /\ client = "settling" /\ link # <<>>
  /\ link' = Tail(link)
  /\ UNCHANGED <<band, client, queue, sending, found, result, missed>>

Asks ==
  /\ client = "settling"
  /\ client' = "scanning" /\ queue' = Append(queue, "WIFI_SCAN")
  /\ UNCHANGED <<band, sending, link, found, result, missed>>

\* decode_reply, and whose reply it is.
IsScanReply(frame) == frame.is = "CONTROL_REPLY" /\ frame.command = "WIFI_SCAN"

\* scan_result: the reply says how many there should be.
\* mutant: a reply is the end of the list, whatever it counts
ScanResultUncounted(aps, reply) == IF reply.ok THEN "whole" ELSE "failed"
ScanResult(aps, reply) ==
  CASE ~reply.ok -> "failed"
    [] reply.ok /\ Len(aps) < reply.value -> "short"
    [] OTHER -> "whole"

\* A read: records that decode are kept until the reply, and what is behind it
\* is left.
Gathers ==
  /\ client = "scanning" /\ link # <<>>
  /\ LET frame == Head(link) IN
     \/ /\ frame.is = "AP_RECORD"
        /\ found' = IF frame.reads THEN Append(found, frame.ap) ELSE found
        /\ UNCHANGED <<client, result>>
     \/ /\ frame.is = "CONTROL_REPLY" /\ ~IsScanReply(frame)
        /\ UNCHANGED <<found, client, result>>
     \/ /\ IsScanReply(frame)
        /\ client' = "done" /\ result' = ScanResult(found, frame)
        /\ UNCHANGED found
  /\ link' = Tail(link)
  /\ UNCHANGED <<band, queue, sending, missed>>

\* No reply in time, or the port fails.
GivesUp ==
  /\ client # "done"
  /\ client' = "done" /\ result' = "failed"
  /\ UNCHANGED <<band, queue, sending, link, found, missed>>

ScanNext ==
  \/ Selects \/ Sweeps \/ SendsRecord \/ SendsReply
  \/ Opens \/ Settles \/ Asks \/ Gathers \/ GivesUp

-----------------------------------------------------------------------------
\* busiest_channels
BusiestChannels(aps) ==
  [c \in Channels |-> Cardinality({i \in 1 .. Len(aps) : band[aps[i]] = c})]

\* scanned_channel_labels: the number of networks, whether there may be more,
\* and whether the scan failed.
ScannedChannelLabels ==
  [c \in Channels |->
     IF result = "failed" THEN [networks |-> 0, more |-> FALSE, failed |-> TRUE]
     ELSE [networks |-> BusiestChannels(found)[c], more |-> result = "short",
           failed |-> FALSE]]

\* The access points there are.
Band == [a \in 1 .. Len(band) |-> a]

(* A channel labelled with a number of networks, or quiet, has exactly     *)
(* those the board found, unless the label says that there may be more;    *)
(* and then it has at least those, and some record did not arrive.         *)
LabelsTellTheBand ==
  client = "done" =>
    \A c \in Channels :
      LET label == ScannedChannelLabels[c] IN
      label.failed \/
        /\ label.networks <= BusiestChannels(Band)[c]
        /\ label.more <=> missed # {}
        /\ ~label.more => label.networks = BusiestChannels(Band)[c]

=============================================================================
