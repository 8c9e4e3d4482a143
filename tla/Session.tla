------------------------------ MODULE Session -------------------------------
(***************************************************************************)
(* Opening a capture: CaptureSession.open() against a board, with the      *)
(* recovery of a deaf Wi-Fi receiver, which opens the same port itself,    *)
(* and BoardLink.open(), which the bench tools use instead.                *)
(*                                                                         *)
(* A client is one thread: it sends a command, waits for its reply, and    *)
(* goes on or raises.  What can happen to it is what the board and the     *)
(* port do: a refusal, a reply that never comes (with the command obeyed   *)
(* or not), a port that is gone, a receiver that hears nothing.            *)
(*                                                                         *)
(* Of a setting the model keeps whose it is: this session's own (mine), or *)
(* left by an earlier one (left), and what the radio was started with.     *)
(***************************************************************************)
EXTENDS Naturals, Sequences

CONSTANTS
  Sessions,   \* the ways a client may be asked to open a board
  MaxHeard    \* bound on packets heard from one start of the radio

Radios == {"802154", "wifi", "ble"}
Optional == {"snaplen", "filter", "ctrl", "bandwidth", "csi", "phys"}
BleAlways == {"periodic", "scan", "lists"}
Settings == Optional \cup BleAlways \cup {"antenna"}

ASSUME SessionsAreKnown ==
  Sessions \subseteq [client : {"session", "link"}, radio : Radios,
                      recover : BOOLEAN, asked : SUBSET Optional,
                      hears : SUBSET {"mgmt", "data", "ctrl"},
                      bridged : BOOLEAN]
\* The one bridged board has no Wi-Fi.
ASSUME WifiIsNotBridged ==
  \A o \in Sessions : o.radio = "wifi" => ~o.bridged
ASSUME MaxHeardIsNat == MaxHeard \in Nat

VARIABLES
  opts,      \* what the client was made with
  pc, todo,  \* where it is, and the commands it has yet to send there
  round,     \* the deafness checks still to come: first, second, or none
  held,      \* who has the port open: nobody, the client, or the recovery
  board,     \* the board: radio, on, mine, left, force
  deaf,      \* its Wi-Fi receiver: "no", "left" by 802.15.4, or "other"
  stale,     \* a bridge holds the tail of the last session
  matches,   \* the firmware is the version expected
  wire, deferred,  \* packets sent and not read, and _deferred
  heard,     \* history: packets heard since the radio was started
  fault, gone,     \* history: something failed; the port itself did
  handBacks, cycles, silent  \* history: cures, and scans that found nothing

device == <<board, deaf, stale>>
packets == <<wire, deferred, heard>>
history == <<fault, gone, handBacks, cycles, silent>>
vars == <<opts, pc, todo, round, held, device, matches, packets, history>>

Nothing == [old |-> FALSE, new |-> 0]

-----------------------------------------------------------------------------
(* The board *)

\* A C6 resets as its port opens; a bridged board keeps what it had.
Opened(b) ==
  IF opts.bridged THEN b
  ELSE [radio |-> "802154", on |-> FALSE, mine |-> {}, left |-> {},
        force |-> b.force]

Stopped(b) == [b EXCEPT !.on = FALSE]

Starts(c) == c \in {"SET_CHANNEL", "START"}

\* A channel is judged against the selected radio; BLE has none to select.
Accepts(b, c, radio) ==
  CASE c = "SET_CHANNEL" -> radio = b.radio /\ radio # "ble"
    [] c = "START" -> b.radio = "ble"
    [] OTHER -> TRUE

\* What a command does to the board.  Started while it runs, a radio is only
\* retuned: it keeps what it was started with.
After(b, c, radio) ==
  CASE c = "SET_RADIO" -> [b EXCEPT !.radio = radio, !.on = FALSE]
    [] c \in {"STOP", "WIFI_SCAN"} -> Stopped(b)
    [] Starts(c) /\ b.on -> b
    [] Starts(c) /\ ~b.on -> [b EXCEPT !.on = TRUE, !.force = b.mine]
    [] c \in {"GET_INFO", "RADIO_DIRTY"} -> b
    [] OTHER -> [b EXCEPT !.mine = @ \cup {c}, !.left = @ \ {c}]

\* A clean stop of 802.15.4 hands the front end back, which cures what its
\* being left running caused -- so far always, which the host does not trust.
MayCure(b, c) ==
  IF c \in {"STOP", "SET_RADIO"} /\ b.on /\ b.radio = "802154" /\ deaf = "left"
  THEN {"no", "left"} ELSE {deaf}

\* The radio hears a packet, which is at once on its way to the host.
Hear ==
  /\ board.on /\ heard < MaxHeard /\ held = "client"
  /\ board.radio = "wifi" => deaf = "no"
  /\ wire' = wire + 1 /\ heard' = heard + 1
  /\ UNCHANGED <<opts, pc, todo, round, held, device, matches, deferred,
                 history>>

-----------------------------------------------------------------------------
(* What the client asks for *)

\* Control frames with no subtypes named means all of them; the PHYs are
\* only for the radio that has any.
Asked(o) ==
  {s \in Optional :
     /\ s = "phys" => o.radio = "ble"
     /\ \/ s \in o.asked
        \/ s = "ctrl" /\ "filter" \in o.asked /\ "ctrl" \in o.hears}

IfAsked(o, s) == IF s \in Asked(o) THEN <<s>> ELSE <<>>

Tune(o) ==
  <<"SET_RADIO", "antenna">> \o IfAsked(o, "snaplen") \o IfAsked(o, "filter")
    \o IfAsked(o, "ctrl") \o IfAsked(o, "bandwidth") \o IfAsked(o, "csi")
    \o IfAsked(o, "phys")

\* mutant: the counting starts once the radio has
ConfigurationCountsLate(o) ==
  Tune(o) \o IF o.radio = "ble"
             THEN <<"periodic", "scan", "lists", "START", "COUNT">>
             ELSE <<"SET_CHANNEL", "COUNT">>
\* mutant: the lists follow the start
ConfigurationListsLate(o) ==
  Tune(o) \o IF o.radio = "ble"
             THEN <<"periodic", "scan", "COUNT", "START", "lists">>
             ELSE <<"COUNT", "SET_CHANNEL">>

\* _configure: the commands of a session, in the order the board needs.
\* COUNT is _start_counting, which sends nothing.
Configuration(o) ==
  Tune(o) \o IF o.radio = "ble"
             THEN <<"periodic", "scan", "lists", "COUNT", "START">>
             ELSE <<"COUNT", "SET_CHANNEL">>

\* _hand_back_on: 802.15.4 started, on any channel, and stopped cleanly.
HandBack == <<"SET_RADIO", "SET_CHANNEL", "STOP">>

\* A filter that drops management frames drops every beacon.
ShouldHearBeacons(o) ==
  o.radio = "wifi" /\ ("filter" \notin o.asked \/ "mgmt" \in o.hears)

\* A fresh open of this board: what an earlier session left on it.
Init ==
  /\ opts \in Sessions
  /\ matches \in BOOLEAN
  /\ stale \in {FALSE, opts.bridged}
  /\ deaf \in IF opts.radio = "wifi" THEN {"no", "left", "other"} ELSE {"no"}
  /\ board \in [radio : {"802154"}, on : {FALSE, opts.bridged}, mine : {{}},
                left : {{}, BleAlways}, force : {{}}]
  /\ pc = "ready" /\ todo = <<>> /\ round = "first" /\ held = "nobody"
  /\ wire = 0 /\ deferred = Nothing /\ heard = 0
  /\ fault = FALSE /\ gone = FALSE /\ handBacks = 0 /\ cycles = 0 /\ silent = 0

-----------------------------------------------------------------------------
(* Ways a step can end *)

\* Every frame read up to a reply, and behind it in the same read, is kept.
Reads ==
  /\ deferred' = [deferred EXCEPT !.new = @ + wire]
  /\ wire' = 0

\* Command c to the session's own radio is answered.  The radio it starts may
\* be heard in the very read that brings the reply: n packets.
Answered(c) ==
  /\ Accepts(board, c, opts.radio)
  /\ board' = After(board, c, opts.radio)
  /\ deaf' \in MayCure(board, c)
  /\ IF Starts(c) /\ ~board.on
     THEN \E n \in IF opts.radio = "wifi" /\ deaf # "no" THEN {0} ELSE 0 .. MaxHeard :
            /\ heard' = n
            /\ deferred' = [old |-> deferred.old \/ deferred.new + wire > 0,
                            new |-> n]
            /\ wire' = 0
     ELSE heard' = heard /\ Reads
  /\ UNCHANGED <<opts, held, stale, matches>>

\* open() raises: the session stops the radio and closes the port first, and
\* BoardLink closes it.  A port that is gone carries no STOP.
\* mutant: the port is left to __exit__, which a raising __enter__ skips
RaiseLeavesOpen(b, dead, why) ==
  /\ pc' = "failed" /\ todo' = <<>>
  /\ fault' = (fault \/ why) /\ gone' = (gone \/ dead)
  /\ board' = b
  /\ UNCHANGED <<opts, round, held, deaf, stale, matches, packets, handBacks,
                 cycles, silent>>
Raise(b, dead, why) ==
  /\ pc' = "failed" /\ todo' = <<>> /\ held' = "nobody"
  /\ fault' = (fault \/ why) /\ gone' = (gone \/ dead)
  /\ board' = IF dead \/ opts.client = "link" THEN b ELSE Stopped(b)
  /\ UNCHANGED <<opts, round, deaf, stale, matches, packets, handBacks, cycles,
                 silent>>

\* A command is refused (with no fault, when the board could not take it), or
\* unanswered, obeyed or not; or the port goes under it.
Fails(c) ==
  \/ Raise(board, FALSE, Accepts(board, c, opts.radio))
  \/ Raise(board, TRUE, TRUE)
  \/ /\ Accepts(board, c, opts.radio)
     /\ Raise(After(board, c, opts.radio), FALSE, TRUE)

\* _connect and _open: tried until it opens or 30 s have passed.  A port
\* this process has open already never opens.
TakesPort(who) ==
  /\ held = "nobody"
  /\ held' = who
  /\ board' = Opened(board)
  /\ UNCHANGED <<opts, round, deaf, stale, matches, heard, history>>
CannotOpen ==
  /\ pc' = "failed" /\ todo' = <<>>
  /\ fault' = (fault \/ held = "nobody")
  /\ gone' = (gone \/ held = "nobody")
  /\ held' = "nobody"
  /\ UNCHANGED <<opts, round, device, matches, packets, handBacks, cycles,
                 silent>>

-----------------------------------------------------------------------------
(* open(): the flag, before the port is opened *)

Start ==
  /\ pc = "ready"
  /\ pc' = IF opts.client = "session" /\ opts.radio = "wifi" /\ opts.recover
           THEN "flag" ELSE "connect"
  /\ UNCHANGED <<opts, todo, round, held, device, matches, packets, history>>

\* The recovery opens the port for itself.
RecoveryOpens ==
  /\ pc \in {"flag", "hand back", "cycle"} /\ held # "recovery"
  /\ \/ /\ TakesPort("recovery")
        /\ todo' = IF pc = "hand back" THEN HandBack ELSE <<>>
        /\ UNCHANGED <<pc, wire, deferred>>
     \/ CannotOpen

\* ensure_wifi_ready: RADIO_DIRTY; no answer, a refusal and a clear flag all
\* leave the board alone.
AskDirty ==
  /\ pc = "flag" /\ held = "recovery"
  /\ \/ /\ pc' = "hand back" /\ todo' = HandBack /\ UNCHANGED held
     \/ /\ pc' = "connect" /\ todo' = <<>> /\ held' = "nobody"
  /\ UNCHANGED <<opts, round, device, matches, packets, history>>

\* One command of the hand-back.  Nothing looks at its answer: lost or
\* refused, the next one follows.
HandingBack ==
  /\ pc = "hand back" /\ held = "recovery" /\ todo # <<>>
  /\ LET c == Head(todo) IN
     \/ /\ Accepts(board, c, "802154")
        /\ board' = After(board, c, "802154")
        /\ deaf' \in MayCure(board, c)
        /\ UNCHANGED fault
     \/ /\ fault' = TRUE
        /\ UNCHANGED <<board, deaf>>
  /\ todo' = Tail(todo)
  /\ UNCHANGED <<opts, pc, round, held, stale, matches, packets, gone,
                 handBacks, cycles, silent>>

\* RADIO_POWER_CYCLE: the board sleeps and comes back, which usually cures.
PowerCycling ==
  /\ pc = "cycle" /\ held = "recovery"
  /\ \/ /\ deaf' \in {deaf, "no"} /\ board' = Opened(board)
        /\ UNCHANGED fault
     \/ /\ fault' = TRUE
        /\ UNCHANGED <<board, deaf>>
  /\ pc' = "connect" /\ held' = "nobody"
  /\ UNCHANGED <<opts, todo, round, stale, matches, packets, gone, handBacks,
                 cycles, silent>>

HandedBack ==
  /\ pc = "hand back" /\ held = "recovery" /\ todo = <<>>
  /\ pc' = "connect" /\ held' = "nobody"
  /\ UNCHANGED <<opts, todo, round, device, matches, packets, history>>

\* A serial error in the middle of a recovery: its port is closed, and
\* whatever radio it had started is left as it was.
RecoveryFails ==
  /\ held = "recovery"
  /\ pc' = "failed" /\ held' = "nobody" /\ todo' = <<>>
  /\ fault' = TRUE /\ gone' = TRUE
  /\ UNCHANGED <<opts, round, device, matches, packets, handBacks, cycles,
                 silent>>

-----------------------------------------------------------------------------
(* _start: connect, ask for the version, configure *)

\* _await_return is part of it after a power cycle: the port opens, or not.
Connect ==
  /\ pc = "connect"
  /\ \/ /\ TakesPort("client")
        /\ pc' = "hello" /\ wire' = 0 /\ deferred' = Nothing
        /\ UNCHANGED todo
     \/ CannotOpen

\* GET_INFO is answered: by the version expected, which only a session minds.
Greeted ==
  /\ ~stale
  /\ matches \/ opts.client = "link"
  /\ Answered("GET_INFO")
  /\ pc' = "configure"
  /\ todo' = IF opts.client = "link" THEN <<>> ELSE Configuration(opts)
  /\ UNCHANGED <<round, history>>
TurnedAway ==
  /\ ~stale /\ ~matches /\ opts.client = "session"
  /\ Raise(board, FALSE, TRUE)

\* What a bridge kept of the last session eats the first reply, so a bridged
\* board that has not answered soon is asked again, with nothing left to eat it.
Hello ==
  /\ pc = "hello"
  /\ \/ Greeted
     \/ TurnedAway
     \/ /\ opts.bridged
        /\ pc' = "hello again" /\ stale' = FALSE
        /\ wire' = 0 /\ deferred' = Nothing
        /\ UNCHANGED <<opts, todo, round, held, board, deaf, matches, heard,
                       history>>
     \/ Fails("GET_INFO")

HelloAgain ==
  /\ pc = "hello again"
  /\ Greeted \/ TurnedAway \/ Fails("GET_INFO")

\* _start_counting: a new tracker, and nothing deferred.
Counts ==
  /\ pc = "configure" /\ todo # <<>> /\ Head(todo) = "COUNT"
  /\ deferred' = Nothing /\ todo' = Tail(todo)
  /\ UNCHANGED <<opts, pc, round, held, device, matches, wire, heard, history>>

Configures ==
  /\ pc = "configure" /\ todo # <<>> /\ Head(todo) # "COUNT"
  /\ \/ /\ Answered(Head(todo)) /\ todo' = Tail(todo)
        /\ UNCHANGED <<pc, round, history>>
     \/ Fails(Head(todo))

Configured ==
  /\ pc = "configure" /\ todo = <<>>
  /\ pc' = IF /\ opts.client = "session" /\ opts.recover
              /\ round # "none" /\ ShouldHearBeacons(opts)
           THEN "listen" ELSE "open"
  /\ UNCHANGED <<opts, todo, round, held, device, matches, packets, history>>

-----------------------------------------------------------------------------
(* A receiver that hears nothing *)

\* _hears_within: what arrives is kept for records().
Listens ==
  /\ pc = "listen"
  /\ \/ /\ wire + deferred.new > 0 /\ pc' = "open"
        /\ Reads
        /\ UNCHANGED <<opts, todo, round, held, device, matches, heard,
                       history>>
     \/ /\ deferred.new = 0 /\ pc' = "stop"
        /\ UNCHANGED <<opts, todo, round, held, device, matches, packets,
                       history>>
     \/ Raise(board, TRUE, TRUE)

StopToScan ==
  /\ pc = "stop"
  /\ \/ /\ Answered("STOP") /\ pc' = "band"
        /\ UNCHANGED <<todo, round, history>>
     \/ Fails("STOP")

\* _band_is_silent: a deaf receiver finds nothing anywhere; one that hears may
\* find nothing too.  In a band that is not silent the capture starts again.
\* mutant: one silent channel is taken for a silent band
BandJudgedByChannel ==
  /\ pc = "band"
  /\ \/ /\ Answered("WIFI_SCAN") /\ pc' = "deaf"
        /\ UNCHANGED <<todo, round, history>>
     \/ Fails("WIFI_SCAN")
Band ==
  /\ pc = "band"
  /\ \/ /\ deaf = "no" /\ Answered("WIFI_SCAN")
        /\ pc' = "configure" /\ todo' = Configuration(opts) /\ round' = "none"
        /\ UNCHANGED history
     \/ /\ Answered("WIFI_SCAN")
        /\ pc' = "deaf" /\ silent' = silent + 1
        /\ UNCHANGED <<todo, round, fault, gone, handBacks, cycles>>
     \/ Fails("WIFI_SCAN")

\* The hand-back first, then the power cycle, each around the port.
\* mutant: the recovery runs inside the open session
CureInside ==
  /\ pc = "deaf"
  /\ IF round = "first"
     THEN pc' = "hand back" /\ round' = "second" /\ handBacks' = handBacks + 1
          /\ UNCHANGED cycles
     ELSE pc' = "cycle" /\ round' = "none" /\ cycles' = cycles + 1
          /\ UNCHANGED handBacks
  /\ UNCHANGED <<opts, todo, held, device, matches, packets, fault, gone,
                 silent>>
Cure ==
  /\ pc = "deaf"
  /\ held' = "nobody" /\ board' = Stopped(board)
  /\ IF round = "first"
     THEN pc' = "hand back" /\ round' = "second" /\ handBacks' = handBacks + 1
          /\ UNCHANGED cycles
     ELSE pc' = "cycle" /\ round' = "none" /\ cycles' = cycles + 1
          /\ UNCHANGED handBacks
  /\ UNCHANGED <<opts, todo, deaf, stale, matches, packets, fault, gone,
                 silent>>

\* close(): STOP, which a port that is gone does not carry, and the port.
Close ==
  /\ pc = "open" /\ pc' = "closed" /\ held' = "nobody"
  /\ \/ /\ board' = IF opts.client = "session" THEN Stopped(board) ELSE board
        /\ UNCHANGED gone
     \/ /\ gone' = TRUE
        /\ UNCHANGED board
  /\ UNCHANGED <<opts, todo, round, deaf, stale, matches, packets, fault,
                 handBacks, cycles, silent>>

Done == pc \in {"failed", "closed"} /\ UNCHANGED vars

Client ==
  \/ Start \/ RecoveryOpens \/ AskDirty \/ HandingBack \/ HandedBack
  \/ PowerCycling \/ RecoveryFails \/ Connect \/ Hello \/ HelloAgain
  \/ Counts \/ Configures \/ Configured
  \/ Listens \/ StopToScan \/ Band \/ Cure \/ Close

Next == Client \/ Hear \/ Done

Spec == Init /\ [][Next]_vars /\ WF_vars(Client)

-----------------------------------------------------------------------------
TypeOK ==
  /\ opts \in Sessions
  /\ pc \in {"ready", "flag", "hand back", "cycle", "connect", "hello",
             "hello again", "configure", "listen", "stop", "band", "deaf",
             "open", "failed", "closed"}
  /\ round \in {"first", "second", "none"}
  /\ held \in {"nobody", "client", "recovery"}
  /\ board \in [radio : Radios, on : BOOLEAN, mine : SUBSET Settings,
                left : SUBSET Settings, force : SUBSET Settings]
  /\ deaf \in {"no", "left", "other"}
  /\ stale \in BOOLEAN /\ matches \in BOOLEAN
  /\ wire \in Nat /\ heard \in Nat
  /\ deferred \in [old : BOOLEAN, new : Nat]
  /\ fault \in BOOLEAN /\ gone \in BOOLEAN
  /\ handBacks \in Nat /\ cycles \in Nat /\ silent \in Nat

(* A session that opened is capturing, with every setting it asked for in  *)
(* force since its radio started and none of the board's own that an       *)
(* earlier session left: the order _configure sends them in, the lists     *)
(* sent even when empty, a restart that is a start and not a retune.       *)
CapturesAsAsked ==
  pc = "open" /\ opts.client = "session" =>
    /\ board.on /\ board.radio = opts.radio
    /\ Asked(opts) \subseteq board.force
    /\ (opts.radio = "ble") => (BleAlways \subseteq board.force)
    /\ (opts.radio = "ble") => (BleAlways \cap board.left = {})

(* From the moment its radio started, every packet heard is still to be    *)
(* delivered, and nothing from before it is: _start_counting clears what   *)
(* was there before the command that starts the radio, and the deafness    *)
(* check keeps what it reads.                                              *)
NothingDropped ==
  pc \in {"listen", "open"} /\ opts.client = "session" =>
    deferred = [old |-> FALSE, new |-> heard - wire]

(* open() fails only when something did: a bridge's stale data, a port the *)
(* recovery or the session itself still holds, a setting refused because   *)
(* it came too early would each fail a healthy board.                      *)
FailsOnlyOnFault == pc = "failed" => fault

(* However open() ends, a session that is not open holds no port, and      *)
(* unless the port itself went, leaves no radio running.                   *)
FailedIsClosed ==
  pc \in {"failed", "closed"} =>
    /\ held = "nobody"
    /\ opts.client = "session" /\ ~gone => ~board.on

(* The board is handed back and power-cycled at most once each, and for    *)
(* deafness only after as many scans of the whole band found nothing: one  *)
(* silent channel is not a deaf receiver.  A receiver still deaf in an     *)
(* open session is one that both were tried on, whatever the flag said.    *)
CuresFollowSilence ==
  /\ cycles <= handBacks /\ handBacks <= 1
  /\ handBacks + cycles <= silent
  /\ (/\ pc = "open" /\ opts.client = "session"
      /\ opts.recover /\ ShouldHearBeacons(opts) /\ deaf # "no")
       => handBacks = 1 /\ cycles = 1

=============================================================================
