------------------------------- MODULE Dialog -------------------------------
(***************************************************************************)
(* What the Wireshark plugin offers and what it accepts: the interfaces it *)
(* advertises for the boards it finds, the options its dialog lists, the   *)
(* toolbar's channels, and the checks main makes when a capture starts.    *)
(*                                                                         *)
(* Wireshark asks for each in a run of its own, so what one run offered    *)
(* comes back to another as text: these are functions of the boards that   *)
(* are attached, and of what comes back.                                   *)
(***************************************************************************)
EXTENDS Integers, Sequences, SequencesExt, FiniteSets

\* An option the dialog did not pass.
NotGiven == 99999

BOARDS == [esp32c6 |-> {"802154", "ble", "wifi"}, nrf54l15 |-> {"802154", "ble"}]

RADIOS ==
  [r \in {"802154", "ble", "wifi"} |->
     CASE r = "802154" -> [prefix |-> "z", channels |-> 11 .. 26, default |-> 11]
       [] r = "ble" -> [prefix |-> "b", channels |-> {}, default |-> 0]
       [] r = "wifi" -> [prefix |-> "w", channels |-> 1 .. 14, default |-> 6]]

HOP_SETS ==
  [r \in {"802154", "ble", "wifi"} |->
     CASE r = "wifi" -> [s \in 0 .. 2 |-> CASE s = 0 -> <<>> [] s = 1 -> <<1, 6, 11>>
                                           [] s = 2 -> [i \in 1 .. 13 |-> i]]
       [] r = "802154" -> [s \in 0 .. 4 |-> CASE s = 0 -> <<>> [] s = 1 -> <<11, 15, 20, 25>>
                                             [] s = 2 -> [i \in 1 .. 16 |-> 10 + i]
                                             [] s = 3 -> [i \in 1 .. 8 |-> 10 + i]
                                             [] s = 4 -> [i \in 1 .. 8 |-> 18 + i]]
       [] r = "ble" -> [s \in {0} |-> <<>>]]

\* Every board with each of the radios its firmware implements.
INTERFACES ==
  {i \in [board : DOMAIN BOARDS, radio : DOMAIN RADIOS] :
     i.radio \in BOARDS[i.board]}

HopSets(i) == HOP_SETS[i.radio]

-----------------------------------------------------------------------------
(* The ports *)

\* attached: the serial ports, in the order they enumerate, each with what
\* its USB id says is on it.  Found are the places of those with a board.
FindBoardPorts(attached) ==
  {n \in DOMAIN attached : attached[n].board \in DOMAIN BOARDS}

\* The first port found, of one board or of any.
DefaultPort(attached, boards) ==
  LET found == {n \in FindBoardPorts(attached) : attached[n].board \in boards}
  IN  IF found = {} THEN "COM3" ELSE attached[Min(found)].port

\* board_interfaces: bare names for one board, as they were before there could
\* be two, and for none; a port in the name when there are more.
BoardInterfaces(attached) ==
  LET found == FindBoardPorts(attached) IN
  IF \A n, m \in found : n = m
  THEN {[interface |-> i, port |-> "default"] :
          i \in {i \in INTERFACES : \A n \in found : i.board = attached[n].board}}
  ELSE {c \in [interface : INTERFACES, port : {attached[n].port : n \in found}] :
          \E n \in found : attached[n].port = c.port
                              /\ attached[n].board = c.interface.board}

\* main: the port in the name wins over the dialog's, which wins over a guess.
OpensPort(attached, chosen, args) ==
  IF chosen.port # "default" THEN chosen.port
  ELSE IF args.port # "default" THEN args.port
  ELSE DefaultPort(attached, DOMAIN BOARDS)

Holds(attached, port, board) ==
  \E p \in Range(attached) : p.port = port /\ p.board = board

-----------------------------------------------------------------------------
(* The options *)

\* print_config, for each radio: what its dialog can pass.  Of a range its
\* ends and its default.
Options154 ==
  [hop |-> 0 .. 4, dwell |-> {100, 2000, 10000}, snaplen |-> {NotGiven},
   phys |-> {NotGiven}]
OptionsBle ==
  [hop |-> {0}, dwell |-> {500}, snaplen |-> {NotGiven}, phys |-> {0, 1, 5}]
OptionsWifi ==
  [hop |-> 0 .. 2, dwell |-> {100, 500, 10000}, snaplen |-> {64, 256, 512},
   phys |-> {NotGiven}]

Offered(attached, i) ==
  LET r == i.radio
      options == CASE r = "802154" -> Options154 [] r = "ble" -> OptionsBle
                   [] r = "wifi" -> OptionsWifi
  IN  [port : {DefaultPort(attached, {i.board}), "default"},
       channel : IF r = "ble" THEN {NotGiven} ELSE RADIOS[r].channels,
       hop : options.hop, dwell : options.dwell, snaplen : options.snaplen,
       phys : options.phys]

\* main: what a capture may be asked for, by anybody.
Snaplens == 1 .. 512 \cup {NotGiven}
Dwells == 100 .. 10000
Accepted(i, a) ==
  /\ IF RADIOS[i.radio].channels = {} THEN a.channel = NotGiven
     ELSE a.channel \in RADIOS[i.radio].channels \cup {NotGiven}
  /\ a.snaplen \in Snaplens
  /\ a.phys \in {0, 1, 4, 5, NotGiven}
  /\ a.hop \in DOMAIN HopSets(i)
  /\ a.dwell \in Dwells

\* The channel a capture is to be on: a Thread dataset's, which is looked at
\* after the checks; then the dialog's; then the radio's usual one.
ChannelOf(i, a, dataset) ==
  CASE dataset # NotGiven -> dataset
    [] dataset = NotGiven /\ a.channel # NotGiven -> a.channel
    [] OTHER -> RADIOS[i.radio].default

\* hop_start: a hopping capture opens inside its set, on the channel asked
\* for if that is in it.
HopStart(channel, hops) ==
  IF channel \in Range(hops)
  THEN CHOOSE n \in DOMAIN hops : hops[n] = channel ELSE 1
OpensOn(i, a, dataset) ==
  LET c == ChannelOf(i, a, dataset)
      hops == HopSets(i)[a.hop]
  IN  IF hops = <<>> THEN c ELSE hops[HopStart(c, hops)]

\* CaptureSession: only a Thread dataset brings a wrong channel this far.
HasChannel(i, c) == IF i.radio = "ble" THEN c = 0 ELSE c \in RADIOS[i.radio].channels

-----------------------------------------------------------------------------
(* The toolbar, one for every interface *)

\* The channels of every radio that has any.  11 to 14 are in two.
Tokens ==
  UNION {[prefix : {RADIOS[r].prefix}, number : RADIOS[r].channels] :
           r \in DOMAIN RADIOS}

\* mutant: the prefix is cut off and forgotten
ParseNumber(i, t) ==
  {n \in {t.number} : n \in RADIOS[i.radio].channels}
\* parse_channel_token: the channel, or none, which is a refusal.
ParseToken(i, t) ==
  {n \in {t.number} :
     t.prefix = RADIOS[i.radio].prefix /\ n \in RADIOS[i.radio].channels}

\* request_channel: BLE has none to select, and nothing outside the range is
\* put in front of the capture thread.
Requestable(i) == IF i.radio = "ble" THEN {} ELSE RADIOS[i.radio].channels

\* What the toolbar shows beside a channel, and where the radio then listens.
Frequency(prefix, n) ==
  CASE prefix = "z" -> 2405 + 5 * (n - 11)
    [] prefix = "w" /\ n = 14 -> 2484
    [] OTHER -> 2412 + 5 * (n - 1)

=============================================================================
