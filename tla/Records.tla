------------------------------ MODULE Records -------------------------------
(***************************************************************************)
(* From the bytes a serial port delivers to the records a capture holds:   *)
(* the loop of records() round the stream parser, packets that travel one  *)
(* by one and in batches, the board's clock mapped onto the host's, and    *)
(* the Wi-Fi handshakes noticed on the way.                                *)
(*                                                                         *)
(* A script is what the board heard and how it framed it.  A run of its    *)
(* bytes may be lost on the way, and what is left is read in pieces.       *)
(***************************************************************************)
EXTENDS StreamParser

\* heard: the packets, in order; frames: the kind of each frame and the packets
\* it carries; loses: no bytes, the first ones, or any run of them; pieces: a
\* read ends anywhere, where a frame does, or takes all; ticks: whether time passes.
CONSTANTS Scripts,     \* a set of [radio, heard, frames, loses, pieces, ticks]
          Ticks,       \* how far the host's clock may move at a time
          MaxNow       \* bound: where it stops

\* What a radio hands up with a packet: its time, channel, bytes cut off, and
\* the handshake message it is.
Packet ==
  [at : Nat, channel : Int, lost : Nat,
   air : [ap : STRING, station : STRING,
          step : {"1", "2", "3", "4", "group1", "group2", "none"}]]
Kinds == {"PACKET", "LONG", "CHANCE", "PACKET_BATCH", "BLE_BATCH", "STATS"}
ASSUME ScriptsAssumption ==
  \A s \in Scripts :
    /\ s.heard \in Seq(Packet)
    /\ s.frames \in Seq([kind : Kinds, ps : Seq(1 .. Len(s.heard))])
    /\ \A f \in 1 .. Len(s.frames) :
         s.frames[f].kind # "STATS" => s.frames[f].ps # <<>>
\* A batch holds so many packets at most.  One of 802.15.4's has one channel for
\* them all; BLE's packets have none.
MAX_BATCH_ENTRIES == 32
ASSUME FramesAssumption ==
  \A s \in Scripts : \A f \in 1 .. Len(s.frames) :
    LET kind == s.frames[f].kind  ps == s.frames[f].ps
        channels == {s.heard[ps[i]].channel : i \in 1 .. Len(ps)}
    IN  /\ kind \in {"PACKET", "LONG", "CHANCE"} => Len(ps) = 1
        /\ kind \in {"PACKET_BATCH", "BLE_BATCH"} => Len(ps) <= MAX_BATCH_ENTRIES
        /\ kind = "PACKET_BATCH" =>
             s.radio = "802154" /\ channels = {s.heard[ps[1]].channel}
        /\ kind = "BLE_BATCH" => s.radio = "ble" /\ channels = {0}
        /\ kind = "STATS" => ps = <<>>
\* A packet is sent once, after those heard before it.
ASSUME OrderAssumption ==
  \A s \in Scripts : \A f, g \in 1 .. Len(s.frames) :
    \A i \in 1 .. Len(s.frames[f].ps), j \in 1 .. Len(s.frames[g].ps) :
      f < g \/ (f = g /\ i < j) => s.frames[f].ps[i] < s.frames[g].ps[j]
ASSUME TicksAssumption == Ticks \subseteq Nat

\* The first sequence number: two frames later the numbers wrap.
FirstSeq == 65534
MaxDt == 65535
MaxSkew == 60
None == -1

VARIABLES
  script, \* what was heard, and how it was framed
  intact, \* history: the frames no byte of which is lost
  wire,   \* bytes not yet read
  buf,    \* the parser's buffer
  pend,   \* records of the last frame, not yet delivered
  hole,   \* history: what the run lost cost the frame it cut
  spliced,\* history: a cut frame was filled by the bytes of another
  now,    \* the host's clock
  clock,  \* [device, host, last]: the anchor, and the last stamp given
  out,    \* the records delivered, each with the host's time when it was
  eapol,  \* handshake messages seen, as <<access point, station, message>>
  told    \* handshakes reported complete, in order

rvars == <<script, intact, wire, buf, pend, hole, spliced, now, clock, out, eapol, told>>

-----------------------------------------------------------------------------
(* What the board sends *)

\* A PACKET: its metadata, then the packet as heard.
PacketPayload(f, p, heard) ==
  <<[t |-> "meta", f |-> f, at |-> heard[p].at, channel |-> heard[p].channel],
    [t |-> "packet", f |-> f, pkt |-> p, lost |-> heard[p].lost]>>

\* Two packets whose times are in order and near enough share a batch.
Batchable(ps, heard) ==
  \A i \in 2 .. Len(ps) :
    heard[ps[i]].at - heard[ps[i - 1]].at \in 0 .. MaxDt

Dt(ps, i, heard) == IF i = 1 THEN 0 ELSE heard[ps[i]].at - heard[ps[i - 1]].at

\* encode_packet_batch: one channel for the batch, its first packet's time, and
\* each packet's distance from the one before.
EncodePacketBatch(f, ps, heard) ==
  <<[t |-> "batch", f |-> f, base |-> heard[ps[1]].at,
     channel |-> heard[ps[1]].channel, count |-> Len(ps)]>>
  \o [i \in 1 .. Len(ps) |->
        [t |-> "entry", f |-> f, dt |-> Dt(ps, i, heard), pkt |-> ps[i]]]

\* encode_ble_batch: no channel; each entry says what its packet's length was.
EncodeBleBatch(f, ps, heard) ==
  <<[t |-> "bleBatch", f |-> f, base |-> heard[ps[1]].at, count |-> Len(ps)]>>
  \o [i \in 1 .. Len(ps) |->
        [t |-> "bleEntry", f |-> f, dt |-> Dt(ps, i, heard), pkt |-> ps[i],
         lost |-> heard[ps[i]].lost]]

\* A LONG frame is a PACKET with more bytes to its packet; a CHANCE frame one
\* with bytes among them that form a header.
Payload(f, frame, heard) ==
  CASE frame.kind = "PACKET_BATCH" -> EncodePacketBatch(f, frame.ps, heard)
    [] frame.kind = "BLE_BATCH" -> EncodeBleBatch(f, frame.ps, heard)
    [] frame.kind = "STATS" -> <<[t |-> "counters", f |-> f]>>
    [] frame.kind = "LONG" ->
         PacketPayload(f, frame.ps[1], heard) \o [k \in 1 .. 4 |-> [t |-> "more", f |-> f]]
    [] frame.kind = "CHANCE" ->
         PacketPayload(f, frame.ps[1], heard)
           \o Encode(f, "PACKET", FirstSeq + f + 1,
                     <<[t |-> "chance", f |-> f], [t |-> "chance", f |-> f]>>)
    [] OTHER -> PacketPayload(f, frame.ps[1], heard)

\* A frame's bytes; and all that is sent.
Framed(s, f) ==
  Encode(f, IF s.frames[f].kind \in {"LONG", "CHANCE"} THEN "PACKET"
            ELSE s.frames[f].kind,
         FirstSeq + f - 1, Payload(f, s.frames[f], s.heard))

Sent(s) == FlattenSeq([f \in 1 .. Len(s.frames) |-> Framed(s, f)])

\* A piece of some bytes up to n ends where those of a frame do.
EndsFrame(bytes, n) ==
  IF n = Len(bytes) THEN TRUE ELSE bytes[n].f # bytes[n + 1].f

\* What may be lost, by its first byte and its last: any run, or the first bytes
\* where the host comes in.  A run from inside the magic of one frame to the same
\* place in another's is left out: byte for byte, it is a run of whole frames.
Lost(sent, loses) ==
  {c \in (1 .. Len(sent)) \X (1 .. Len(sent)) :
     CASE loses = "run" ->
            /\ c[1] <= c[2]
            /\ sent[c[1]].t \in {"magic1", "rest"} /\ c[2] < Len(sent)
                 => sent[c[1]].t # sent[c[2] + 1].t
       [] loses = "start" -> c[1] = 1
       [] OTHER -> FALSE}

\* The place where the frame ends that has a byte at k.
LastOf(sent, k) == Max({j \in 1 .. Len(sent) : sent[j].f = sent[k].f})

\* A run cuts a frame when it leaves its header.  What follows the run, the tail
\* of a frame and then whole ones, fills the cut frame up: short bytes of it are
\* missing once the tail is in, and after bytes are still to come then.
LeavesHeader(sent, k) == k > HEADER_LEN /\ sent[k - HEADER_LEN].f = sent[k].f
NoHole == [short |-> HEADER_LEN, after |-> 0]
Hole(sent, cut) ==
  LET first == cut[1]  last == cut[2] IN
  IF first > last \/ ~LeavesHeader(sent, first) THEN NoHole
  ELSE [short |-> (LastOf(sent, first) - first + 1) - (LastOf(sent, last) - last),
        after |-> Len(sent) - LastOf(sent, last)]

RecordsInit(scripts) ==
  /\ script \in {s \in scripts : \A f \in 1 .. Len(s.frames) :
                                   Batchable(s.frames[f].ps, s.heard)}
  /\ LET sent == Sent(script)
     IN  \E cut \in Lost(sent, script.loses) \cup {<<1, 0>>} :
           /\ wire = SubSeq(sent, 1, cut[1] - 1)
                      \o SubSeq(sent, cut[2] + 1, Len(sent))
           /\ intact = (1 .. Len(script.frames))
                         \ {sent[k].f : k \in cut[1] .. cut[2]}
           /\ hole = Hole(sent, cut)
  /\ spliced = (hole.short <= 0)
  /\ buf = <<>> /\ pend = <<>> /\ now = 0
  /\ clock = [device |-> None, host |-> 0, last |-> None]
  /\ out = <<>> /\ eapol = {} /\ told = <<>>

-----------------------------------------------------------------------------
(* What a frame holds *)

\* The channels each radio's records can name; BLE's name none.
ChannelsOf(radio) ==
  CASE radio = "802154" -> 11 .. 26 [] radio = "wifi" -> 1 .. 14 [] OTHER -> Int

\* A packet all of whose bytes are of the frame that sent it, or 0: something
\* else, that nobody heard.
PktOf(p, pkt) == IF \A k \in 1 .. Len(p) : p[k].f = p[1].f THEN pkt ELSE 0

\* _build_record_inner: only Wi-Fi's record says that its packet was cut short.
BuildRecordInner(p) ==
  IF p[1].t # "meta" \/ p[2].t # "packet"
  THEN [pkt |-> 0, at |-> 0, channel |-> 0, lost |-> 0]
  ELSE [pkt |-> PktOf(p, p[2].pkt), at |-> p[1].at, channel |-> p[1].channel,
        lost |-> IF script.radio = "wifi" THEN p[2].lost ELSE 0]

\* _build_record: none for a payload with no packet after its metadata, or with
\* metadata no packet can have.
BuildRecord(p) ==
  LET r == BuildRecordInner(p)
  IN  IF /\ Len(p) >= 2
         /\ r.pkt = 0 \/ r.channel \in ChannelsOf(script.radio)
      THEN <<r>> ELSE <<>>

\* The bytes of a batch: its header and as many entries as it says, no more.
WellFormed(p, header, entry) ==
  /\ Len(p) > 0 /\ p[1].t = header /\ Len(p) = 1 + p[1].count
  /\ p[1].count \in 1 .. MAX_BATCH_ENTRIES
  /\ \A k \in 2 .. Len(p) : p[k].t = entry

\* The time of entry i: the base, and every distance up to it.
TimeOf(p, i) ==
  LET at[k \in 0 .. p[1].count] == IF k = 0 THEN p[1].base ELSE at[k - 1] + p[k + 1].dt
  IN  at[i]

\* decode_packet_batch and decode_ble_batch: each entry with its own time.
DecodePacketBatch(p) ==
  [i \in 1 .. p[1].count |-> [at |-> TimeOf(p, i), f |-> p[i + 1].f,
                              pkt |-> p[i + 1].pkt, lost |-> 0]]
DecodeBleBatch(p) ==
  [i \in 1 .. p[1].count |-> [at |-> TimeOf(p, i), f |-> p[i + 1].f,
                              pkt |-> p[i + 1].pkt, lost |-> p[i + 1].lost]]

\* What the board would have sent for an entry on its own.
Single(e, channel) ==
  <<[t |-> "meta", f |-> e.f, at |-> e.at, channel |-> channel],
    [t |-> "packet", f |-> e.f, pkt |-> e.pkt, lost |-> e.lost]>>

\* _expand_batch and _expand_ble_batch: one that will not decode whole is
\* dropped whole.
ExpandBatch(p) ==
  IF ~WellFormed(p, "batch", "entry") THEN <<>>
  ELSE [i \in 1 .. p[1].count |-> Single(DecodePacketBatch(p)[i], p[1].channel)]
ExpandBleBatch(p) ==
  IF ~WellFormed(p, "bleBatch", "bleEntry") THEN <<>>
  ELSE [i \in 1 .. p[1].count |-> Single(DecodeBleBatch(p)[i], 0)]

\* _records_from: the PACKET payloads a frame stands for, each built alike.
RecordsOf(frame) ==
  LET payloads == CASE frame.kind = "PACKET" -> <<frame.payload>>
                    [] frame.kind = "PACKET_BATCH" -> ExpandBatch(frame.payload)
                    [] frame.kind = "BLE_BATCH" -> ExpandBleBatch(frame.payload)
                    [] OTHER -> <<>>
  IN  FlattenSeq([i \in 1 .. Len(payloads) |-> BuildRecord(payloads[i])])

-----------------------------------------------------------------------------
(* Time *)

\* _anchor: the first packet pins the board's clock to the host's; the rest are
\* offsets from it, unless that strays too far from what the host's clock says,
\* and never before the last.
\* mutant: only a clock that runs ahead is noticed
AnchorAhead(c, at) ==
  LET d == IF c.device = None THEN at ELSE c.device
      h == IF c.device = None THEN now ELSE c.host
      stamp == h + at - d
  IN  IF stamp - now > MaxSkew
      THEN [device |-> at, host |-> now, last |-> Max({now, c.last})]
      ELSE [device |-> d, host |-> h, last |-> Max({stamp, c.last})]
Anchor(c, at) ==
  LET d == IF c.device = None THEN at ELSE c.device
      h == IF c.device = None THEN now ELSE c.host
      stamp == h + at - d
  IN  IF stamp - now \notin -MaxSkew .. MaxSkew
      THEN [device |-> at, host |-> now, last |-> Max({now, c.last})]
      ELSE [device |-> d, host |-> h, last |-> Max({stamp, c.last})]

-----------------------------------------------------------------------------
(* Handshakes *)

\* What a message of a handshake looks like on the air: who sends it to whom,
\* and the bits of its key information.
OnAir(m) ==
  [from_ds |-> m.step \in {"1", "3", "group1"},
   address1 |-> IF m.step \in {"1", "3", "group1"} THEN m.station ELSE m.ap,
   address2 |-> IF m.step \in {"1", "3", "group1"} THEN m.ap ELSE m.station,
   pairwise |-> m.step \in {"1", "2", "3", "4"},
   ack |-> m.step \in {"1", "3", "group1"},
   mic |-> m.step # "1",
   secure |-> m.step \in {"3", "4", "group1", "group2"},
   data |-> m.step \in {"2", "3", "group1"}]

\* parse_eapol_key: {} or the one message a frame is.
ParseEapolKey(a) ==
  LET messages ==
        {n \in 1 .. 4 : a.pairwise /\ CASE n = 1 -> a.ack /\ ~a.mic
                                       [] n = 2 -> ~a.ack /\ a.mic /\ ~a.secure
                                       [] n = 3 -> a.ack /\ a.mic
                                       [] n = 4 -> ~a.ack /\ a.mic /\ a.secure /\ ~a.data}
  IN  IF a.from_ds THEN {<<a.address2, a.address1, n>> : n \in messages}
                   ELSE {<<a.address1, a.address2, n>> : n \in messages}

\* What a record holds of a handshake: nothing when it was cut short.
MessageIn(r) ==
  IF r.pkt = 0 \/ r.lost # 0 THEN {}
  ELSE LET air == script.heard[r.pkt].air
       IN  IF air.step = "none" THEN {} ELSE ParseEapolKey(OnAir(air))

\* The conversations all four of whose messages have been seen.
\* mutant: a conversation is an access point's
CompletePerAP(seen) ==
  {<<m[1], m[2]>> : m \in {k \in seen : \A n \in 1 .. 4 :
                             \E s \in seen : s[1] = k[1] /\ s[3] = n}}
Complete(seen) ==
  {<<m[1], m[2]>> : m \in {k \in seen : \A n \in 1 .. 4 :
                             <<k[1], k[2], n>> \in seen}}

\* HandshakeTracker.feed: the one a frame completes is reported once.
Feed(r) ==
  /\ eapol' = eapol \cup MessageIn(r)
  /\ told' = told \o SetToSeq(Complete(eapol') \ Range(told))

-----------------------------------------------------------------------------
(* The loop *)

\* Where a read may end.
Pieces ==
  {n \in 1 .. Len(wire) :
     CASE script.pieces = "all" -> n = Len(wire)
       [] script.pieces = "frames" -> EndsFrame(wire, n)
       [] OTHER -> TRUE}

\* A read that leaves w unread ends inside the header after the hole, with as
\* much of it as fills the cut frame: only a header wholly buffered is looked for.
FilledByHeader(w) ==
  /\ 0 < hole.short /\ hole.short <= hole.after - Len(w)
  /\ hole.after - Len(w) < HEADER_LEN

\* records(): a read, of as much as has come.
Read ==
  /\ pend = <<>> /\ Waits(buf) /\ wire # <<>>
  /\ \E n \in Pieces :
       /\ buf' = buf \o SubSeq(wire, 1, n)
       /\ wire' = SubSeq(wire, n + 1, Len(wire))
  /\ spliced' = (spliced \/ FilledByHeader(wire'))
  /\ UNCHANGED <<script, intact, pend, hole, now, clock, out, eapol, told>>

\* _try_one: bytes thrown away, or a frame for _records_from.
Skip ==
  /\ pend = <<>> /\ ~Waits(buf) /\ ~Delivers(buf)
  /\ buf' = Skipped(buf)
  /\ UNCHANGED <<script, intact, wire, pend, hole, spliced, now, clock, out, eapol, told>>

Parse ==
  /\ pend = <<>> /\ Delivers(buf)
  /\ buf' = Rest(buf)
  /\ pend' = RecordsOf(HeadFrame(buf))
  /\ UNCHANGED <<script, intact, wire, hole, spliced, now, clock, out, eapol, told>>

\* _records_from: its records one by one, each stamped as it is taken, and the
\* handshakes noticed.
Yield ==
  /\ pend # <<>> /\ pend' = Tail(pend)
  /\ clock' = Anchor(clock, pend[1].at)
  /\ out' = Append(out, [pkt |-> pend[1].pkt, at |-> pend[1].at,
                          channel |-> pend[1].channel, lost |-> pend[1].lost,
                          stamp |-> clock'.last, now |-> now])
  /\ Feed(pend[1])
  /\ UNCHANGED <<script, intact, wire, buf, hole, spliced, now>>

\* The board does not fall silent inside a frame.
Silence ==
  /\ pend = <<>> /\ Waits(buf) /\ buf # <<>>
  /\ IF wire = <<>> THEN TRUE ELSE Last(buf).f # wire[1].f

\* force_resync, after half a second with nothing more: a frame received whole,
\* held only for what follows it, is released; anything else is given up.
\* mutant: the frame held is given up too
ForceResyncInside ==
  /\ Silence
  /\ buf' = Resynced(buf)
  /\ UNCHANGED <<script, intact, wire, pend, hole, spliced, now, clock, out, eapol, told>>
ForceResync ==
  /\ Silence
  /\ \/ /\ Whole(buf)
        /\ buf' = Rest(buf) /\ pend' = RecordsOf(HeadFrame(buf))
        /\ spliced' = (spliced \/ script.loses = "run")
     \/ /\ ~Whole(buf)
        /\ buf' = Resynced(buf)
        /\ UNCHANGED <<pend, spliced>>
  /\ UNCHANGED <<script, intact, wire, hole, now, clock, out, eapol, told>>

\* The host's clock, which does not step back.
Tick ==
  /\ script.ticks
  /\ \E d \in Ticks : now + d <= MaxNow /\ now' = now + d
  /\ UNCHANGED <<script, intact, wire, buf, pend, hole, spliced, clock, out, eapol, told>>

Loop == Read \/ Skip \/ Parse \/ Yield \/ ForceResync

RecordsNext == Loop \/ Tick

-----------------------------------------------------------------------------
(* What the parser cannot tell.  A frame that lost its tail is told from   *)
(* one with a header in its payload by what starts where it says it ends,  *)
(* and by the headers wholly in the buffer when it is looked at.  A burst  *)
(* the board drops (usb_link.c:69-98) starts and ends anywhere.  So it is  *)
(* not told when:                                                          *)
(*   - the tail of a later frame, not lost, fills all that was lost of it; *)
(*   - the next frame's header fills it, and a read ends inside that       *)
(*     header: the frame is released before there is a header to see;      *)
(*   - the next frames fill it, and silence comes before what starts where *)
(*     it ends: force_resync has released a mixture of them;               *)
(*   - the next frame is numbered beyond the window;                       *)
(*   - bytes are lost, and some payload holds bytes that are a header by   *)
(*     chance: what is left of a frame may begin with them.                *)
BeyondWindow ==
  \E f \in 1 .. Len(script.frames) :
    \A g \in f .. f + Window : g \in (1 .. Len(script.frames)) \ intact
ChanceAmidLoss ==
  /\ intact # 1 .. Len(script.frames)
  /\ \E f \in 1 .. Len(script.frames) : script.frames[f].kind = "CHANCE"
Untold == spliced \/ BeyondWindow \/ ChanceAmidLoss

(* No record is of anything but a packet the board heard, with the time,   *)
(* the channel and, on Wi-Fi, the length lost that it had, and none comes  *)
(* twice or out of order, whatever run of bytes is lost and wherever a     *)
(* read ends, but for what the parser cannot tell.                         *)
OnlyWhatWasHeard ==
  Untold \/
    /\ \A k \in 1 .. Len(out) :
         /\ out[k].pkt # 0
         /\ \A field \in {"at", "channel"} :
              out[k][field] = script.heard[out[k].pkt][field]
         /\ script.radio = "wifi" => out[k].lost = script.heard[out[k].pkt].lost
    /\ \A k \in 2 .. Len(out) : out[k - 1].pkt < out[k].pkt

\* Every packet of a frame that arrived whole, but for a channel no radio has.
WholeFrames ==
  \A f \in intact : \A k \in 1 .. Len(script.frames[f].ps) :
    LET p == script.frames[f].ps[k] IN
    script.heard[p].channel \in ChannelsOf(script.radio)
      => p \in {out[j].pkt : j \in 1 .. Len(out)}

(* Every packet of a frame that arrives whole is delivered, those held     *)
(* back for what follows them included: not swallowed by a damaged one     *)
(* before it, nor left waiting on a link that has gone quiet, nor given up *)
(* with it.  A channel no radio has costs that packet and no other.        *)
WholeFramesDelivered == <>(Untold \/ WholeFrames)

(* The times of a capture never go back, and each is within a minute of    *)
(* the host's clock when the record came, though the board's clock starts  *)
(* again, or a time is corrupted, and records arrive late.                 *)
StampsInOrder ==
  /\ \A k \in 1 .. Len(out) : out[k].stamp - out[k].now \in -MaxSkew .. MaxSkew
  /\ \A k \in 2 .. Len(out) : out[k - 1].stamp <= out[k].stamp

(* The user is told of a handshake once, and of exactly those whose four   *)
(* messages are whole in the capture: not of one put together from the     *)
(* messages of two stations, of a group handshake, or of one cut short.    *)
HandshakesTold ==
  LET have == {script.heard[out[k].pkt].air :
                 k \in {j \in 1 .. Len(out) : out[j].pkt # 0 /\ out[j].lost = 0}}
  IN  /\ Range(told) = {<<m.ap, m.station>> :
                          m \in {a \in have : a.step # "none" /\
                            \A s \in {"1", "2", "3", "4"} :
                               [ap |-> a.ap, station |-> a.station, step |-> s]
                                 \in have}}
      /\ Len(told) = Cardinality(Range(told))

=============================================================================
