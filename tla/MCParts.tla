------------------------------ MODULE MCParts -------------------------------
(* The parts that keep a state of their own and share none: the host's     *)
(* decoders of what a capture brings, and two of the firmware's receivers. *)
(* A behaviour is of one of them, and the others stay where they start.    *)
EXTENDS Records, Following, KeyTables, BandScan, WifiClock, BleSync

-----------------------------------------------------------------------------
(* Records *)

P(p) == [kind |-> "PACKET", ps |-> <<p>>]
G(p) == [kind |-> "LONG", ps |-> <<p>>]
C(p) == [kind |-> "CHANCE", ps |-> <<p>>]
B(ps) == [kind |-> "PACKET_BATCH", ps |-> ps]
L(ps) == [kind |-> "BLE_BATCH", ps |-> ps]
S == [kind |-> "STATS", ps |-> <<>>]

No == [ap |-> "none", station |-> "none", step |-> "none"]
At(times) == [p \in 1 .. Len(times) |->
                [at |-> times[p], channel |-> 11, lost |-> 0, air |-> No]]
\* The second packet's channel was corrupted in the radio's descriptor.
Odd(times) == [At(times) EXCEPT ![2].channel = 0]
Ble(times) == [p \in 1 .. Len(times) |->
                [at |-> times[p], channel |-> 0, lost |-> p % 2, air |-> No]]

Script(radio, packets, frames, loses, pieces, ticks) ==
  [radio |-> radio, heard |-> packets, frames |-> frames, loses |-> loses, pieces |-> pieces,
   ticks |-> ticks]

Cuts ==
  {Script("802154", At(<<0, 1, 2, 3, 5>>), <<B(<<1, 2, 3, 4>>), S, P(5)>>, "run", "frames", FALSE),
   Script("802154", At(<<0, 1, 2, 3>>), <<P(1), B(<<2, 3>>), P(4)>>, "run", "any", FALSE),
   Script("802154", At(<<0, 1>>), <<G(1), S, P(2)>>, "run", "any", FALSE),
   Script("802154", At(<<0, 1, 2, 3>>), <<P(1), B(<<2, 3>>), P(4)>>, "start", "any", FALSE),
   Script("ble", Ble(<<0, 1, 2, 3>>), <<L(<<1, 2, 3>>), S, P(4)>>, "run", "frames", FALSE),
   Script("802154", At(<<0, 1, 2>>), <<C(1), P(2), C(3)>>, "none", "any", FALSE),
   Script("802154", Odd(<<0, 1, 2>>), <<P(1), P(2), P(3)>>, "start", "any", FALSE)}

\* The board's clock, restarted and corrupted.
Clocks ==
  {Script("802154", At(times), <<P(1), P(2), P(3)>>, "none", "frames", TRUE) :
     times \in {<<0, 10, 20>>, <<100, 110, 0>>, <<0, 9000, 20>>, <<200, 0, 150>>}}

M(s, step) == [at |-> 0, channel |-> 6, lost |-> 0,
               air |-> [ap |-> "ap", station |-> s, step |-> step]]
Join(first, second) ==
  <<M("x", "1"), M("y", "1"), M("x", "2"), M("y", "2"), M("y", "3"),
    [M("x", "3") EXCEPT !.lost = first], M("x", "4"), M("y", second),
    M("x", "group1"), M("x", "group2"),
    M("x", "1"), M("x", "2"), M("x", "3"), M("x", "4")>>
Joins ==
  {Script("wifi", Join(lost, step),
          [i \in 1 .. Len(kept) |-> P(kept[i])],
          "none", "all", FALSE) :
     lost \in {0, 1}, step \in {"4", "group2"},
     kept \in {SelectSeq([i \in 1 .. 14 |-> i], LAMBDA i : i \notin gap) :
                 gap \in {{}, {1}, 11 .. 14, {3}, {3, 9, 10, 13}}}}

MCScripts == Cuts \cup Clocks \cup Joins
MCTicks == {50}

-----------------------------------------------------------------------------
(* Following *)

Line(address, type, of, reversed) ==
  [address |-> address, type |-> type, form |-> "key",
   key |-> [of |-> of, reversed |-> reversed]]
Near(name, type, private) == [name |-> name, type |-> type, private |-> private]
Phone == Near("phone", "random", TRUE)
Watch == Near("watch", "random", TRUE)
Tag == Near("tag", "random", FALSE)
Lamp == Near("lamp", "public", FALSE)

KeySetup(lines, typed, near, holds) ==
  [lines |-> lines, typed |-> typed, near |-> near, holds |-> holds]

MCKeySetups ==
  {KeySetup(lines, typed, {Phone, Watch, Tag}, holds) :
     lines \in {<<Line("id1", "public", "phone", FALSE)>>,
               <<Line("id1", "random", "phone", TRUE),
                 Line("id2", "public", "watch", FALSE)>>,
               <<Line("tag", "public", "nobody", FALSE),
                 Line("id1", "public", "phone", TRUE)>>},
     typed \in {{}, {"id1"}, {"id1", "tag"}},
     holds \in {1, 8}}
  \cup {KeySetup(<<>>, typed, {Tag, Lamp}, 8) :
          typed \in {{}, {"tag"}, {"tag", "lamp"},
                    {"a", "b", "c", "d", "e"}, {"tag", "malformed"}}}
  \cup {KeySetup(<<l>>, {"tag"}, {Tag}, 8) :
          l \in {[Line("id1", "public", "phone", FALSE) EXCEPT !.form = "zero"],
                [Line("id1", "either", "phone", FALSE) EXCEPT !.form = "key"]}}
MCAddresses == {1, 2}

-----------------------------------------------------------------------------
(* KeyTables *)

Tlv(type, length, present, value) ==
  [type |-> type, length |-> length, present |-> present, value |-> value]
Source(tlvs, extra, bare) ==
  [readable |-> TRUE, hex |-> TRUE, odd |-> FALSE, tlvs |-> tlvs,
   extra |-> extra, bare |-> bare]
Row(kind, pairing) ==
  [kind |-> kind, short |-> TRUE, long |-> TRUE, pairing |-> pairing]

Command(tool, file, key, child, pan, list) ==
  [tool |-> tool, file |-> file, key |-> key, child |-> child, pan |-> pan, list |-> list]

Bare == Source(<<>>, 16, "key 1")
Dataset == Source(<<Tlv("channel", 3, 3, "15"), Tlv("PAN", 2, 2, "1234"),
                    Tlv("network key", 16, 16, "key 2")>>, 0, "none")
Cut == Source(<<Tlv("network key", 16, 12, "key 3")>>, 0, "none")
Children == <<Row("skip", "none"), Row("header", "none"), Row("cells", "child 1"),
              Row("pair", "child 2")>>
Headless == <<Row("cells", "child 3")>>
Typed(digits) == [hex |-> TRUE, digits |-> digits, bare |-> "key 1"]

MCCommands ==
  {Command("capture", {Bare}, {}, {}, {}, FALSE),
   Command("capture", {Cut}, {}, {}, {}, FALSE),
   Command("thread_key", {Dataset}, {}, {Children}, {}, FALSE),
   Command("thread_key", {Bare}, {Typed(32)}, {}, {}, FALSE),
   Command("thread_key", {}, {Typed(32)}, {Headless}, {"5678"}, FALSE),
   Command("zigbee_key", {}, {}, {}, {}, FALSE),
   Command("zigbee_key", {}, {}, {}, {"5678"}, FALSE),
   Command("zigbee_key", {}, {}, {}, {}, TRUE)}
MCProfiles == {"ESP32-C6 Thread"}
MCUsers ==
  {[keys |-> {[key |-> "key 1", as |-> "0"]}, addresses |-> {},
    zigbee |-> {[key |-> "ZigBeeAlliance09", as |-> "Reverse"]}],
   [keys |-> {[key |-> "key 1", as |-> "1"]}, addresses |-> {}, zigbee |-> {}]}
MCBands == {<<1, 1, 6>>, <<6, 6, 11>>}
MCChannels == {1, 6, 11}
NoUser == [keys |-> {}, addresses |-> {}, zigbee |-> {}]

-----------------------------------------------------------------------------
VARIABLE part   \* the part that runs
vars == <<part, rvars, fvars, kvars, bvars, wvars, svars>>

NoScript == Script("802154", <<>>, <<>>, "none", "all", FALSE)
NoKeys == KeySetup(<<>>, {}, {}, 8)

\* What the part that runs starts from, or the one thing the others do.
Inputs(p, all, idle) == IF part = p THEN all ELSE {idle}

Init ==
  /\ part \in {"records", "following", "tables", "zigbee", "scan", "clock", "sync"}
  /\ RecordsInit(Inputs("records", MCScripts, NoScript))
  /\ FollowingInit(Inputs("following", MCKeySetups, NoKeys))
  /\ TablesInit(IF part = "zigbee" THEN MCUsers ELSE Inputs("tables", MCUsers, NoUser))
  /\ ScanInit(Inputs("scan", MCBands, <<>>))
  /\ ClockInit(Inputs("clock", {0, Wrap - 2}, 0))
  /\ SyncInit
  /\ part \notin {"tables", "zigbee"} => profiles = {}

Runs(p) == part = p /\ UNCHANGED part
RecordsStep == Runs("records") /\ UNCHANGED <<fvars, kvars, bvars, wvars, svars>>
FollowingStep ==
  Runs("following") /\ UNCHANGED <<rvars, kvars, bvars, wvars, svars>>
\* The commands at the Zigbee tables, which no other command opens, or the rest.
TablesStep ==
  /\ Runs("tables") \/ Runs("zigbee")
  /\ \A c \in Commands :
       job'[c] # job[c] => (c.tool = "zigbee_key" <=> part = "zigbee")
  /\ UNCHANGED <<rvars, fvars, bvars, wvars, svars>>
ScanStep == Runs("scan") /\ UNCHANGED <<rvars, fvars, kvars, wvars, svars>>
ClockStep == Runs("clock") /\ UNCHANGED <<rvars, fvars, kvars, bvars, svars>>
SyncStep == Runs("sync") /\ UNCHANGED <<rvars, fvars, kvars, bvars, wvars>>

\* Where a part has nothing left to do.
Done ==
  /\ \/ part = "records" /\ wire = <<>> /\ buf = <<>> /\ pend = <<>>
     \/ stage = "refused"
     \/ client = "done"
     \/ part = "clock" /\ sec = MaxSec
  /\ UNCHANGED vars

Next ==
  \/ RecordsNext /\ RecordsStep
  \/ FollowingNext /\ FollowingStep
  \/ TablesNext /\ TablesStep
  \/ ScanNext /\ ScanStep
  \/ ClockNext /\ ClockStep
  \/ SyncNext /\ SyncStep
  \/ Done

\* The host reads on; every device in the room goes on advertising, the
\* heartbeat beats, and a user who is told of a silence checks the keys.
Spec ==
  /\ Init /\ [][Next]_vars
  /\ WF_vars(Loop /\ RecordsStep)
  /\ WF_vars((Begin \/ CheckKeys) /\ FollowingStep)
  /\ WF_vars(HeartBeat /\ FollowingStep)
  /\ \A d \in {Phone, Watch, Tag, Lamp} :
       WF_vars(d \in setup.near /\ Hear(d) /\ FollowingStep)
=============================================================================
