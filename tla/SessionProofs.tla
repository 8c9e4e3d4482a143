---------------------------- MODULE SessionProofs ---------------------------
(***************************************************************************)
(* What Session promises, for any options, any number of packets and every *)
(* way a command, a reply or the port may fail.                            *)
(*                                                                         *)
(* The invariant says, besides the types: who has the port where (Ports);  *)
(* what the board is at (OnBoard); what the rounds of the deafness check   *)
(* have done (Rounds); and, while a session is configured, that what it    *)
(* has yet to send is the end of what _configure sends (Tuning).           *)
(***************************************************************************)
EXTENDS Session, TLAPS

Commands == Settings \cup {"SET_RADIO", "COUNT", "SET_CHANNEL", "START", "STOP"}

Types ==
  /\ TypeOK /\ todo \in Seq(Commands)
  /\ pc = "hand back" /\ held = "recovery"
       => todo \in Seq({"SET_RADIO", "SET_CHANNEL", "STOP"})

Connected == {"hello", "hello again", "configure", "listen", "stop", "band",
              "deaf", "open"}

Ports ==
  /\ pc \in {"ready", "connect", "failed", "closed"} => held = "nobody"
  /\ pc \in {"flag", "hand back", "cycle"} => held # "client"
  /\ pc \in Connected => held = "client"
  /\ pc \in {"failed", "closed"} /\ opts.client = "session" /\ ~gone
       => ~board.on
  /\ pc = "failed" => fault

OnBoard ==
  /\ board.radio \in {"802154", opts.radio}
  /\ board.mine \cap board.left = {}
  /\ opts.radio = "wifi" /\ held = "client" /\ board.on
       => board.radio = "wifi"

BothTried == handBacks = 1 /\ cycles = 1
Settled ==
  opts.client = "session" /\ opts.recover /\ ShouldHearBeacons(opts)
    => deaf = "no" \/ BothTried
Rounds ==
  /\ round = "first" => handBacks = 0 /\ cycles = 0
  /\ round = "second" => handBacks = 1 /\ cycles = 0
  /\ round = "none" => cycles <= handBacks /\ handBacks <= 1
  /\ round = "none" /\ opts.radio = "wifi" => deaf = "no" \/ BothTried
  /\ handBacks + cycles <= silent
  /\ pc = "deaf" => handBacks + cycles < silent
  /\ pc \in {"listen", "stop", "band", "deaf"} => round # "none"
  /\ opts.radio = "wifi" /\ wire + deferred.new > 0 => deaf = "no"
  /\ pc = "open" => Settled

\* What is left of a configuration: the radio first, the start last, and the
\* counting just before it.
StartOf(o) == IF o.radio = "ble" THEN "START" ELSE "SET_CHANNEL"
Shape(q, o) ==
  /\ q \in Seq(Settings \cup {"SET_RADIO", "COUNT", StartOf(o)})
  /\ \A i \in 1 .. Len(q) :
       /\ q[i] = "SET_RADIO" => i = 1
       /\ q[i] = "COUNT" <=> i = Len(q) - 1
       /\ q[i] = StartOf(o) <=> i = Len(q)
Needed(o) == Asked(o) \cup IF o.radio = "ble" THEN BleAlways ELSE {}
Contains(q, s) == \E i \in 1 .. Len(q) : q[i] = s

Capturing ==
  /\ board.on /\ board.radio = opts.radio /\ Needed(opts) \subseteq board.force
  /\ Needed(opts) \subseteq board.mine
  /\ deferred = [old |-> FALSE, new |-> heard - wire]
ToConfigure ==
  /\ Shape(todo, opts)
  /\ \A s \in Needed(opts) : s \in board.mine \/ Contains(todo, s)
  /\ todo[1] # "SET_RADIO" =>
       board.radio = opts.radio /\ ~board.on /\ wire = 0
  /\ todo[1] = StartOf(opts) => deferred = Nothing

Tuning ==
  IF opts.client = "session"
  THEN /\ pc = "configure" /\ todo # <<>> => ToConfigure
       /\ (pc = "configure" /\ todo = <<>>) \/ pc \in {"listen", "open"}
            => Capturing
  ELSE /\ pc = "configure" => todo = <<>>
       /\ pc \notin {"listen", "stop", "band", "deaf"}

SInv == Types /\ Ports /\ OnBoard /\ Rounds /\ Tuning

-----------------------------------------------------------------------------
(* The configuration *)

\* What is sent before the radio's own settings.
Tuned(q) ==
  /\ q \in Seq(Optional \cup {"SET_RADIO", "antenna"})
  /\ Len(q) > 0 /\ q[1] = "SET_RADIO"
  /\ \A i \in 2 .. Len(q) : q[i] \in Optional \cup {"antenna"}

LEMMA AskedNext ==
  ASSUME NEW q, Tuned(q), NEW o, NEW s \in Optional
  PROVE  /\ Tuned(q \o IfAsked(o, s))
         /\ s \in Asked(o) => Contains(q \o IfAsked(o, s), s)
         /\ \A r : Contains(q, r) => Contains(q \o IfAsked(o, s), r)
<1> DEFINE All == Optional \cup {"SET_RADIO", "antenna"}
<1>1. CASE s \in Asked(o)
  <2> DEFINE p == q \o <<s>>
  <2>1. IfAsked(o, s) = <<s>>
    BY <1>1 DEF IfAsked
  <2>2. p \in Seq(All) /\ Len(p) = Len(q) + 1
    BY DEF Tuned
  <2>3. \A i \in 1 .. Len(q) : p[i] = q[i]
    BY DEF Tuned
  <2>4. p[Len(q) + 1] = s
    BY DEF Tuned
  <2>5. Tuned(p)
    BY <2>2, <2>3, <2>4 DEF Tuned
  <2>6. Len(q) \in Nat
    BY DEF Tuned
  <2>7. Contains(p, s)
    BY <2>2, <2>4, <2>6 DEF Contains
  <2>8. \A r : Contains(q, r) => Contains(p, r)
    BY <2>2, <2>3, <2>6 DEF Contains
  <2>9. QED
    BY <2>1, <2>5, <2>7, <2>8
<1>2. CASE s \notin Asked(o)
  <2>1. IfAsked(o, s) = <<>>
    BY <1>2 DEF IfAsked
  <2>2. q \o <<>> = q
    BY DEF Tuned
  <2>3. QED
    BY <1>2, <2>1, <2>2
<1>3. QED
  BY <1>1, <1>2

LEMMA TuneIsTuned ==
  ASSUME NEW o
  PROVE  Tuned(Tune(o)) /\ \A s \in Asked(o) : Contains(Tune(o), s)
<1> DEFINE q0 == <<"SET_RADIO", "antenna">>
           q1 == q0 \o IfAsked(o, "snaplen")
           q2 == q1 \o IfAsked(o, "filter")
           q3 == q2 \o IfAsked(o, "ctrl")
           q4 == q3 \o IfAsked(o, "bandwidth")
           q5 == q4 \o IfAsked(o, "csi")
           q6 == q5 \o IfAsked(o, "phys")
           Keeps(p, q) == \A r : Contains(p, r) => Contains(q, r)
           Has(q, s) == s \in Asked(o) => Contains(q, s)
<1>0. Tuned(q0)
  BY DEF Tuned
<1> HIDE DEF q0
<1>1. Tuned(q1) /\ Has(q1, "snaplen") /\ Keeps(q0, q1)
  BY <1>0, AskedNext DEF Optional
<1> HIDE DEF q1
<1>2. Tuned(q2) /\ Has(q2, "filter") /\ Keeps(q1, q2)
  BY <1>1, AskedNext DEF Optional
<1> HIDE DEF q2
<1>3. Tuned(q3) /\ Has(q3, "ctrl") /\ Keeps(q2, q3)
  BY <1>2, AskedNext DEF Optional
<1> HIDE DEF q3
<1>4. Tuned(q4) /\ Has(q4, "bandwidth") /\ Keeps(q3, q4)
  BY <1>3, AskedNext DEF Optional
<1> HIDE DEF q4
<1>5. Tuned(q5) /\ Has(q5, "csi") /\ Keeps(q4, q5)
  BY <1>4, AskedNext DEF Optional
<1> HIDE DEF q5
<1>6. Tuned(q6) /\ Has(q6, "phys") /\ Keeps(q5, q6)
  BY <1>5, AskedNext DEF Optional
<1> HIDE DEF q6
<1>7. Asked(o) \subseteq
        {"snaplen", "filter", "ctrl", "bandwidth", "csi", "phys"}
  BY DEF Asked, Optional
<1>8. \A s \in Asked(o) : Contains(q6, s)
  BY <1>1, <1>2, <1>3, <1>4, <1>5, <1>6, <1>7
<1>9. Tune(o) = q6
  BY DEF Tune, q0, q1, q2, q3, q4, q5, q6
<1>10. QED
  BY <1>6, <1>8, <1>9

LEMMA ConfigurationIsShaped ==
  ASSUME NEW o
  PROVE  /\ Shape(Configuration(o), o)
         /\ \A s \in Needed(o) : Contains(Configuration(o), s)
         /\ Configuration(o) # <<>> /\ Configuration(o)[1] = "SET_RADIO"
<1> DEFINE q == Tune(o)
<1>0. Tuned(q) /\ \A s \in Asked(o) : Contains(q, s)
  BY TuneIsTuned
<1> DEFINE tail == IF o.radio = "ble"
                   THEN <<"periodic", "scan", "lists", "COUNT", "START">>
                   ELSE <<"COUNT", "SET_CHANNEL">>
           p == q \o tail
           All == Settings \cup {"SET_RADIO", "COUNT", StartOf(o)}
<1>1. Configuration(o) = p
  BY DEF Configuration
<1>2. q \in Seq(All) /\ Len(q) \in Nat \ {0}
  <2>1. Optional \cup {"SET_RADIO", "antenna"} \subseteq All
    BY DEF Settings
  <2>2. q \in Seq(Optional \cup {"SET_RADIO", "antenna"}) /\ Len(q) > 0
    BY <1>0 DEF Tuned
  <2> HIDE DEF q, All
  <2>3. QED
    BY <2>1, <2>2
<1> HIDE DEF q
<1>3. /\ q[1] = "SET_RADIO"
      /\ \A i \in 2 .. Len(q) : q[i] \in Optional \cup {"antenna"}
  BY <1>0 DEF Tuned
<1>4. \A i \in 1 .. Len(q) :
        /\ q[i] = "SET_RADIO" => i = 1
        /\ q[i] # "COUNT" /\ q[i] # StartOf(o)
  BY <1>2, <1>3 DEF Optional, StartOf
<1>5. CASE o.radio = "ble"
  <2>1. p = q \o <<"periodic", "scan", "lists", "COUNT", "START">>
    BY <1>5
  <2>2. /\ p \in Seq(All) /\ Len(p) = Len(q) + 5
        /\ \A i \in 1 .. Len(q) : p[i] = q[i]
        /\ p[Len(q) + 1] = "periodic" /\ p[Len(q) + 2] = "scan"
        /\ p[Len(q) + 3] = "lists" /\ p[Len(q) + 4] = "COUNT"
        /\ p[Len(q) + 5] = "START"
    BY <1>2, <1>5, <2>1 DEF StartOf, Settings, BleAlways
  <2> HIDE DEF p
  <2>3. Shape(p, o)
    BY <1>2, <1>4, <1>5, <2>2 DEF Shape, StartOf
  <2>4. \A s \in Needed(o) : Contains(p, s)
    <3>1. \A s \in Asked(o) : Contains(p, s)
      <4> SUFFICES ASSUME NEW s \in Asked(o) PROVE Contains(p, s)
        OBVIOUS
      <4>1. PICK i \in 1 .. Len(q) : q[i] = s
        BY <1>0 DEF Contains
      <4>2. i \in 1 .. Len(p) /\ p[i] = s
        BY <1>2, <2>2, <4>1
      <4>3. QED
        BY <4>2 DEF Contains
    <3>2. /\ Contains(p, "periodic") /\ Contains(p, "scan")
          /\ Contains(p, "lists") /\ Contains(p, "START")
      BY <1>2, <2>2 DEF Contains
    <3>3. QED
      BY <1>5, <3>1, <3>2 DEF Needed, BleAlways
  <2>5. QED
    BY <1>1, <1>2, <1>3, <2>2, <2>3, <2>4
<1>6. CASE o.radio # "ble"
  <2>1. p = q \o <<"COUNT", "SET_CHANNEL">>
    BY <1>6
  <2>2. /\ p \in Seq(All) /\ Len(p) = Len(q) + 2
        /\ \A i \in 1 .. Len(q) : p[i] = q[i]
        /\ p[Len(q) + 1] = "COUNT" /\ p[Len(q) + 2] = "SET_CHANNEL"
    BY <1>2, <1>6, <2>1 DEF StartOf
  <2> HIDE DEF p
  <2>3. Shape(p, o)
    BY <1>2, <1>4, <1>6, <2>2 DEF Shape, StartOf
  <2>4. \A s \in Needed(o) : Contains(p, s)
    BY <1>0, <1>2, <1>6, <2>2 DEF Needed, Contains
  <2>5. QED
    BY <1>1, <1>2, <1>3, <2>2, <2>3, <2>4
<1>7. QED
  BY <1>5, <1>6

-----------------------------------------------------------------------------
(* The steps *)

LEMMA TailIsShaped ==
  ASSUME NEW o, NEW q, Shape(q, o), q # <<>>
  PROVE  /\ Shape(Tail(q), o) /\ Head(q) = q[1]
         /\ q[1] \in Settings \cup {"SET_RADIO", "COUNT", StartOf(o)}
         /\ \A s : Contains(q, s) => s = q[1] \/ Contains(Tail(q), s)
         /\ q[1] = StartOf(o) <=> Tail(q) = <<>>
         /\ Tail(q) # <<>> => Tail(q)[1] # "SET_RADIO"
         /\ Tail(q) # <<>> /\ Tail(q)[1] = StartOf(o) => q[1] = "COUNT"
<1> DEFINE t == Tail(q)
           All == Settings \cup {"SET_RADIO", "COUNT", StartOf(o)}
<1>1. q \in Seq(All) /\ Len(q) \in Nat \ {0}
  <2>1. q \in Seq(All)
    BY DEF Shape
  <2> HIDE DEF All
  <2>2. QED
    BY <2>1
<1>2. Head(q) = q[1] /\ q[1] \in All
  BY <1>1
<1>3. /\ t \in Seq(All) /\ Len(t) = Len(q) - 1
      /\ \A i \in 1 .. Len(t) : t[i] = q[i + 1]
  <2> HIDE DEF All
  <2>1. QED
    BY <1>1
<1> HIDE DEF t
<1>4. Shape(t, o)
  BY <1>1, <1>3 DEF Shape
<1>5. ASSUME NEW s, Contains(q, s) PROVE s = q[1] \/ Contains(t, s)
  <2>1. PICK i \in 1 .. Len(q) : q[i] = s
    BY <1>5 DEF Contains
  <2>2. CASE i # 1
    <3>1. i - 1 \in 1 .. Len(t) /\ t[i - 1] = s
      BY <1>1, <1>3, <2>1, <2>2
    <3>2. QED
      BY <3>1 DEF Contains
  <2>3. QED
    BY <2>1, <2>2
<1>6. t = <<>> <=> Len(q) = 1
  BY <1>1, <1>3
<1>7. q[1] = StartOf(o) <=> t = <<>>
  <2>1. 1 \in 1 .. Len(q)
    BY <1>1
  <2>2. QED
    BY <1>6, <2>1 DEF Shape
<1>8. t # <<>> => t[1] = q[2] /\ 2 \in 1 .. Len(q)
  BY <1>1, <1>3, <1>6
<1>9. t # <<>> => t[1] # "SET_RADIO"
  BY <1>8 DEF Shape
<1>10. t # <<>> /\ t[1] = StartOf(o) => q[1] = "COUNT"
  BY <1>1, <1>8 DEF Shape
<1>11. QED
  BY <1>2, <1>4, <1>5, <1>7, <1>9, <1>10 DEF t

Boards == [radio : Radios, on : BOOLEAN, mine : SUBSET Settings,
           left : SUBSET Settings, force : SUBSET Settings]
\* What no command changes about a board.
Ours(b) ==
  b \in Boards /\ b.radio \in {"802154", opts.radio} /\ b.mine \cap b.left = {}

LEMMA OursIs == Types /\ OnBoard => Ours(board) /\ opts.radio \in Radios
  BY SessionsAreKnown DEF Types, TypeOK, OnBoard, Ours, Boards, Radios

LEMMA AfterIsOurs ==
  ASSUME NEW b, Ours(b), NEW r \in {"802154", opts.radio}, r \in Radios,
         NEW c \in (Commands \cup {"GET_INFO", "RADIO_DIRTY", "WIFI_SCAN"})
                     \ {"COUNT"}
  PROVE  Ours(After(b, c, r))
<1>1. CASE c = "SET_RADIO"
  <2>1. After(b, c, r) = [b EXCEPT !.radio = r, !.on = FALSE]
    BY <1>1 DEF After, Starts
  <2>2. QED
    BY <2>1 DEF Ours, Boards
<1>2. CASE c \in {"STOP", "WIFI_SCAN"}
  <2>1. After(b, c, r) = [b EXCEPT !.on = FALSE]
    BY <1>2 DEF After, Starts, Stopped
  <2>2. QED
    BY <2>1 DEF Ours, Boards
<1>3. CASE Starts(c)
  <2>1. \/ After(b, c, r) = b
        \/ After(b, c, r) = [b EXCEPT !.on = TRUE, !.force = b.mine]
    BY <1>3 DEF After, Starts
  <2>2. QED
    BY <2>1 DEF Ours, Boards
<1>4. CASE c \in {"GET_INFO", "RADIO_DIRTY"}
  <2>1. After(b, c, r) = b
    BY <1>4 DEF After, Starts
  <2>2. QED
    BY <2>1
<1>5. CASE c \in Settings
  <2>1. c \notin {"SET_RADIO", "STOP", "WIFI_SCAN", "SET_CHANNEL", "START",
                  "GET_INFO", "RADIO_DIRTY"}
    BY <1>5 DEF Settings, Optional, BleAlways
  <2>2. After(b, c, r) = [b EXCEPT !.mine = b.mine \cup {c},
                                   !.left = b.left \ {c}]
    BY <2>1 DEF After, Starts
  <2>3. /\ b.mine \cup {c} \in SUBSET Settings
        /\ b.left \ {c} \in SUBSET Settings
        /\ (b.mine \cup {c}) \cap (b.left \ {c}) = {}
    BY <1>5 DEF Ours, Boards
  <2>4. /\ After(b, c, r) \in Boards
        /\ After(b, c, r).radio = b.radio
        /\ After(b, c, r).mine = b.mine \cup {c}
        /\ After(b, c, r).left = b.left \ {c}
    BY <2>2, <2>3 DEF Ours, Boards
  <2>5. QED
    BY <2>3, <2>4 DEF Ours
<1>6. QED
  BY <1>1, <1>2, <1>3, <1>4, <1>5 DEF Commands, Starts

LEMMA StoppedIsOurs ==
  ASSUME NEW b, Ours(b)
  PROVE  Ours(Stopped(b)) /\ ~Stopped(b).on
         /\ Stopped(b).radio = b.radio
BY DEF Ours, Boards, Stopped

LEMMA OpenedIsOurs ==
  ASSUME Types, NEW b, Ours(b)
  PROVE  Ours(Opened(b)) /\ (opts.radio = "wifi" => ~Opened(b).on)
<1>1. CASE opts.bridged
  BY <1>1, WifiIsNotBridged DEF Opened, Types, TypeOK
<1>2. CASE ~opts.bridged
  BY <1>2 DEF Opened, Ours, Boards, Radios
<1>3. QED
  BY <1>1, <1>2

\* Out of the deafness check a step that leaves what it counts leaves it true.
LEMMA RoundsKept ==
  ASSUME Rounds,
         UNCHANGED <<opts, round, handBacks, cycles, silent>>,
         deaf = "no" => deaf' = "no",
         opts.radio = "wifi" /\ wire' + deferred'.new > 0 => deaf' = "no",
         pc' \in {"listen", "stop", "band"} => round # "none",
         pc' = "deaf" => pc = "deaf",
         pc' = "open" => Settled'
  PROVE  Rounds'
<1>1. opts' = opts /\ round' = round /\ handBacks' = handBacks
      /\ cycles' = cycles /\ silent' = silent
  OBVIOUS
<1>2. pc' = "deaf" => handBacks + cycles < silent /\ round # "none"
  BY DEF Rounds
<1>3. round = "none" /\ opts.radio = "wifi" => deaf' = "no" \/ BothTried
  BY DEF Rounds
<1>4. QED
  BY <1>1, <1>2, <1>3 DEF Rounds, BothTried

LEMMA InitSession == Init => SInv
<1> SUFFICES ASSUME Init PROVE SInv
  OBVIOUS
<1>1. Types
  <2>1. opts.bridged \in BOOLEAN
    BY SessionsAreKnown DEF Init
  <2>2. stale \in BOOLEAN /\ deaf \in {"no", "left", "other"}
    BY <2>1 DEF Init
  <2>3. board \in Boards
    BY <2>1 DEF Init, Boards, Radios, Settings, BleAlways
  <2>4. deferred \in [old : BOOLEAN, new : Nat]
    BY DEF Init, Nothing
  <2>5. todo \in Seq(Commands)
    BY DEF Init
  <2>6. QED
    BY <2>2, <2>3, <2>4, <2>5 DEF Init, Types, TypeOK, Boards
<1>2. Ports /\ Tuning
  BY DEF Init, Ports, Tuning, Connected
<1>3. OnBoard
  BY DEF Init, OnBoard
<1>4. Rounds
  <2>1. wire + deferred.new = 0 /\ handBacks + cycles = 0
    BY DEF Init, Nothing
  <2>2. QED
    BY <2>1 DEF Init, Rounds
<1>5. QED
  BY <1>1, <1>2, <1>3, <1>4 DEF SInv

LEMMA RaiseKeeps ==
  ASSUME SInv, NEW b, Ours(b), NEW dead \in BOOLEAN, Raise(b, dead, TRUE)
  PROVE  SInv'
<1>1. Ours(board') /\ opts' = opts
  BY StoppedIsOurs DEF Raise
<1>2. Types'
  <2>1. fault' \in BOOLEAN /\ gone' \in BOOLEAN
    BY DEF Raise, SInv, Types, TypeOK
  <2>2. todo' = <<>> /\ todo' \in Seq(Commands)
    BY DEF Raise
  <2>3. TypeOK'
    BY <1>1, <2>1 DEF Raise, SInv, Types, TypeOK, Ours, Boards, packets
  <2>4. QED
    BY <2>2, <2>3 DEF Types
<1>3. Ports'
  <2>1. opts.client = "session" /\ ~gone' => ~board'.on
    BY StoppedIsOurs, Zenon DEF Raise
  <2>2. QED
    BY <2>1 DEF Raise, Ports, Connected
<1>4. OnBoard'
  BY <1>1 DEF Raise, OnBoard, Ours
<1>5. Rounds'
  <2>1. opts.radio = "wifi" /\ wire' + deferred'.new > 0 => deaf' = "no"
    BY DEF Raise, SInv, Rounds, packets
  <2>2. QED
    BY <2>1, RoundsKept DEF Raise, SInv, packets
<1>6. Tuning'
  BY DEF Raise, Tuning
<1>7. QED
  BY <1>2, <1>3, <1>4, <1>5, <1>6 DEF SInv

LEMMA FailsKeeps ==
  ASSUME SInv, NEW c \in (Commands \cup {"GET_INFO", "WIFI_SCAN"}) \ {"COUNT"},
         Accepts(board, c, opts.radio), Fails(c)
  PROVE  SInv'
<1>1. Ours(board) /\ opts.radio \in Radios
  BY OursIs DEF SInv
<1>2. Ours(After(board, c, opts.radio))
  BY <1>1, AfterIsOurs
<1>3. \/ Raise(board, FALSE, TRUE)
      \/ Raise(board, TRUE, TRUE)
      \/ Raise(After(board, c, opts.radio), FALSE, TRUE)
  <2>1. Accepts(board, c, opts.radio) = TRUE
    BY DEF Accepts
  <2>2. QED
    BY <2>1 DEF Fails
<1>4. QED
  BY <1>1, <1>2, <1>3, RaiseKeeps

LEMMA CannotOpenKeeps ==
  ASSUME SInv, held = "nobody", CannotOpen
  PROVE  SInv'
<1>1. Types'
  <2>1. fault' \in BOOLEAN /\ gone' \in BOOLEAN
    BY DEF CannotOpen, SInv, Types, TypeOK
  <2>2. todo' = <<>> /\ todo' \in Seq(Commands)
    BY DEF CannotOpen
  <2>3. TypeOK'
    BY <2>1 DEF CannotOpen, SInv, Types, TypeOK, device, packets
  <2>4. QED
    BY <2>2, <2>3 DEF Types
<1>2. Ports'
  BY DEF CannotOpen, SInv, Types, TypeOK, Ports, Connected
<1>3. OnBoard'
  BY DEF CannotOpen, SInv, OnBoard, device
<1>4. Rounds'
  <2>1. opts.radio = "wifi" /\ wire' + deferred'.new > 0 => deaf' = "no"
    BY DEF CannotOpen, SInv, Rounds, packets, device
  <2>2. QED
    BY <2>1, RoundsKept DEF CannotOpen, SInv, packets, device
<1>5. Tuning'
  BY DEF CannotOpen, Tuning
<1>6. QED
  BY <1>1, <1>2, <1>3, <1>4, <1>5 DEF SInv

\* What an answer leaves, whoever's radio it is for.
LEMMA AnswersLeave ==
  ASSUME SInv, NEW c \in (Commands \cup {"GET_INFO", "WIFI_SCAN"}) \ {"COUNT"},
         Answered(c)
  PROVE  /\ board' = After(board, c, opts.radio) /\ Ours(board')
         /\ UNCHANGED <<opts, held, stale, matches>>
         /\ wire' \in Nat /\ heard' \in Nat
         /\ deferred' \in [old : BOOLEAN, new : Nat]
         /\ deaf' \in {"no", "left", "other"} /\ (deaf = "no" => deaf' = "no")
         /\ opts.radio = "wifi" /\ wire' + deferred'.new > 0 => deaf' = "no"
         /\ opts.radio = "wifi" /\ held = "client" /\ board'.on
              => board'.radio = "wifi"
<1>1. /\ Ours(board) /\ opts.radio \in Radios
      /\ board' = After(board, c, opts.radio)
  BY OursIs DEF SInv, Answered
<1>2. Ours(board')
  BY <1>1, AfterIsOurs
<1>3. UNCHANGED <<opts, held, stale, matches>>
  BY DEF Answered
<1>4. deaf' \in {"no", "left", "other"} /\ (deaf = "no" => deaf' = "no")
  BY DEF Answered, MayCure, SInv, Types, TypeOK
<1>5. /\ wire' \in Nat /\ heard' \in Nat
      /\ deferred' \in [old : BOOLEAN, new : Nat]
      /\ opts.radio = "wifi" /\ wire' + deferred'.new > 0 => deaf' = "no"
  <2>1. /\ wire \in Nat /\ heard \in Nat /\ MaxHeard \in Nat
        /\ deferred \in [old : BOOLEAN, new : Nat]
    BY MaxHeardIsNat DEF SInv, Types, TypeOK
  <2>2. CASE Starts(c) /\ ~board.on
    <3>1. PICK n \in IF opts.radio = "wifi" /\ deaf # "no" THEN {0}
                     ELSE 0 .. MaxHeard :
            /\ heard' = n /\ wire' = 0
            /\ deferred' = [old |-> deferred.old \/ deferred.new + wire > 0,
                            new |-> n]
      BY <2>2 DEF Answered
    <3>2. n \in Nat /\ (opts.radio = "wifi" /\ n > 0 => deaf = "no")
      BY <2>1
    <3>3. (deferred.old \/ deferred.new + wire > 0) \in BOOLEAN
      OBVIOUS
    <3>4. deferred' \in [old : BOOLEAN, new : Nat] /\ deferred'.new = n
      BY <3>1, <3>2, <3>3
    <3>5. QED
      BY <1>4, <3>1, <3>2, <3>4
  <2>3. CASE ~(Starts(c) /\ ~board.on)
    <3>1. /\ heard' = heard /\ wire' = 0
          /\ deferred' = [deferred EXCEPT !.new = deferred.new + wire]
      BY <2>3 DEF Answered, Reads
    <3>2. /\ deferred' \in [old : BOOLEAN, new : Nat]
          /\ wire' + deferred'.new = wire + deferred.new
      BY <2>1, <3>1
    <3>3. QED
      BY <1>4, <2>1, <3>1, <3>2 DEF SInv, Rounds
  <2>4. QED
    BY <2>2, <2>3
<1>6. ASSUME opts.radio = "wifi", held = "client", board'.on
      PROVE  board'.radio = "wifi"
  <2>1. board \in Boards /\ board.radio \in {"802154", "wifi"}
        /\ (board.on => board.radio = "wifi")
    BY <1>1, <1>6 DEF Ours, SInv, OnBoard
  <2>2. CASE c = "SET_RADIO" \/ c = "STOP" \/ c = "WIFI_SCAN"
    BY <1>1, <1>6, <2>1, <2>2 DEF After, Starts, Stopped, Boards
  <2>3. CASE Starts(c)
    <3>1. c = "SET_CHANNEL" /\ board.radio = "wifi"
      BY <1>6, <2>1, <2>3 DEF Starts, Answered, Accepts
    <3>2. \/ board' = board
          \/ board' = [board EXCEPT !.on = TRUE, !.force = board.mine]
      BY <1>1, <3>1 DEF After, Starts
    <3>3. QED
      BY <2>1, <3>1, <3>2 DEF Boards
  <2>4. CASE c = "GET_INFO"
    BY <1>1, <1>6, <2>1, <2>4 DEF After, Starts
  <2>5. CASE c \in Settings
    <3>1. c \notin {"SET_RADIO", "STOP", "WIFI_SCAN", "SET_CHANNEL", "START",
                    "GET_INFO", "RADIO_DIRTY"}
      BY <2>5 DEF Settings, Optional, BleAlways
    <3>2. board' = [board EXCEPT !.mine = board.mine \cup {c},
                                 !.left = board.left \ {c}]
      BY <1>1, <3>1 DEF After, Starts
    <3>3. QED
      BY <1>6, <2>1, <3>2 DEF Boards
  <2>6. QED
    BY <2>2, <2>3, <2>4, <2>5 DEF Commands, Starts
<1>7. QED
  BY <1>1, <1>2, <1>3, <1>4, <1>5, <1>6

-----------------------------------------------------------------------------
(* The recovery *)

\* A step of the recovery, or to it, keeps what a session counts.
LEMMA RecoveryKeeps ==
  ASSUME SInv, Ours(board'), UNCHANGED <<opts, round, matches, packets>>,
         UNCHANGED <<handBacks, cycles, silent>>,
         pc' \in {"flag", "hand back", "cycle", "connect", "failed"},
         held' \in {"nobody", "recovery"},
         pc' \in {"connect", "failed"} => held' = "nobody",
         deaf' \in {"no", "left", "other"}, deaf = "no" => deaf' = "no",
         stale' \in BOOLEAN, fault' \in BOOLEAN, gone' \in BOOLEAN,
         todo' \in Seq(Commands),
         pc' = "hand back" /\ held' = "recovery" =>
           todo' \in Seq({"SET_RADIO", "SET_CHANNEL", "STOP"}),
         pc' = "failed" => fault' /\ gone'
  PROVE  SInv'
<1>1. Types'
  BY DEF SInv, Types, TypeOK, Ours, Boards, packets
<1>2. Ports'
  BY DEF Ports, Connected
<1>3. OnBoard'
  BY DEF OnBoard, Ours
<1>4. Rounds'
  <2>1. opts.radio = "wifi" /\ wire' + deferred'.new > 0 => deaf' = "no"
    BY DEF SInv, Rounds, packets
  <2>2. QED
    BY <2>1, RoundsKept DEF SInv
<1>5. Tuning'
  BY DEF Tuning
<1>6. QED
  BY <1>1, <1>2, <1>3, <1>4, <1>5 DEF SInv

LEMMA HandBackIsTyped ==
  /\ HandBack \in Seq({"SET_RADIO", "SET_CHANNEL", "STOP"})
  /\ \A q \in Seq({"SET_RADIO", "SET_CHANNEL", "STOP"}) : q \in Seq(Commands)
  /\ <<>> \in Seq(Commands)
  /\ <<>> \in Seq({"SET_RADIO", "SET_CHANNEL", "STOP"})
<1>1. {"SET_RADIO", "SET_CHANNEL", "STOP"} \subseteq Commands
  BY DEF Commands
<1>2. \A q \in Seq({"SET_RADIO", "SET_CHANNEL", "STOP"}) : q \in Seq(Commands)
  BY <1>1
<1>3. QED
  BY <1>2 DEF HandBack

LEMMA StartKeeps == ASSUME SInv, Start PROVE SInv'
<1>1. Ours(board)
  BY OursIs DEF SInv
<1>2. held = "nobody" /\ pc' \in {"flag", "connect"}
  BY DEF SInv, Ports, Start
<1>3. QED
  BY <1>1, <1>2, RecoveryKeeps DEF Start, SInv, Types, TypeOK, device, history

LEMMA RecoveryOpensKeeps == ASSUME SInv, RecoveryOpens PROVE SInv'
<1>1. held = "nobody"
  BY DEF SInv, Types, TypeOK, Ports, RecoveryOpens
<1>2. CASE CannotOpen
  BY <1>1, <1>2, CannotOpenKeeps
<1>3. CASE ~CannotOpen
  <2>1. /\ TakesPort("recovery") /\ UNCHANGED <<pc, wire, deferred>>
        /\ todo' = IF pc = "hand back" THEN HandBack ELSE <<>>
    BY <1>3 DEF RecoveryOpens
  <2>2. Ours(board')
    BY <2>1, OursIs, OpenedIsOurs DEF SInv, TakesPort
  <2>3. /\ todo' \in Seq(Commands)
        /\ pc' = "hand back" =>
             todo' \in Seq({"SET_RADIO", "SET_CHANNEL", "STOP"})
    BY <2>1, HandBackIsTyped
  <2>4. QED
    BY <2>1, <2>2, <2>3, RecoveryKeeps DEF RecoveryOpens, TakesPort, SInv,
       Types, TypeOK, packets, history
<1>4. QED
  BY <1>2, <1>3

LEMMA AskDirtyKeeps == ASSUME SInv, AskDirty PROVE SInv'
<1>1. Ours(board)
  BY OursIs DEF SInv
<1>2. QED
  BY <1>1, HandBackIsTyped, RecoveryKeeps DEF AskDirty, SInv, Types, TypeOK,
     device, history

LEMMA HandingBackKeeps == ASSUME SInv, HandingBack PROVE SInv'
<1> DEFINE Three == {"SET_RADIO", "SET_CHANNEL", "STOP"}
           c == Head(todo)
<1>1. todo \in Seq(Three) /\ todo # <<>>
  BY DEF SInv, Types, HandingBack
<1>2. c \in Three /\ Tail(todo) \in Seq(Three)
  BY <1>1
<1>3. Ours(board) /\ "802154" \in Radios
  BY OursIs DEF SInv, Radios
<1>4. Ours(board')
  BY <1>2, <1>3, AfterIsOurs DEF HandingBack, Commands
<1>5. deaf' \in {"no", "left", "other"} /\ (deaf = "no" => deaf' = "no")
  BY DEF HandingBack, MayCure, SInv, Types, TypeOK
<1>6. QED
  BY <1>2, <1>4, <1>5, HandBackIsTyped, RecoveryKeeps DEF HandingBack, SInv,
     Types, TypeOK

LEMMA PowerCyclingKeeps == ASSUME SInv, PowerCycling PROVE SInv'
<1>1. Ours(board) /\ Ours(Opened(board))
  BY OursIs, OpenedIsOurs DEF SInv
<1>2. Ours(board')
  BY <1>1 DEF PowerCycling
<1>3. QED
  BY <1>2, RecoveryKeeps DEF PowerCycling, SInv, Types, TypeOK

LEMMA HandedBackKeeps == ASSUME SInv, HandedBack PROVE SInv'
<1>1. Ours(board)
  BY OursIs DEF SInv
<1>2. QED
  BY <1>1, RecoveryKeeps DEF HandedBack, SInv, Types, TypeOK, device, history

LEMMA RecoveryFailsKeeps == ASSUME SInv, RecoveryFails PROVE SInv'
<1>1. Ours(board)
  BY OursIs DEF SInv
<1>2. QED
  BY <1>1, HandBackIsTyped, RecoveryKeeps DEF RecoveryFails, SInv, Types,
     TypeOK, device

-----------------------------------------------------------------------------
(* The client *)

LEMMA ConnectKeeps == ASSUME SInv, Connect PROVE SInv'
<1>1. held = "nobody"
  BY DEF SInv, Ports, Connect
<1>2. CASE CannotOpen
  BY <1>1, <1>2, CannotOpenKeeps
<1>3. CASE ~CannotOpen
  <2>1. /\ TakesPort("client") /\ pc' = "hello" /\ wire' = 0
        /\ deferred' = Nothing /\ UNCHANGED todo
    BY <1>3 DEF Connect
  <2>2. Ours(board') /\ (opts.radio = "wifi" => ~board'.on)
    BY <2>1, OursIs, OpenedIsOurs DEF SInv, TakesPort
  <2>3. /\ deferred' \in [old : BOOLEAN, new : Nat]
        /\ wire' + deferred'.new = 0
    BY <2>1 DEF Nothing
  <2>4. Types'
    BY <2>1, <2>2, <2>3 DEF TakesPort, SInv, Types, TypeOK, Ours, Boards,
       history
  <2>5. Ports' /\ OnBoard' /\ Tuning'
    BY <2>1, <2>2 DEF TakesPort, Ports, Connected, OnBoard, Ours, Tuning
  <2>6. Rounds'
    BY <2>1, <2>3, RoundsKept DEF TakesPort, SInv, history
  <2>7. QED
    BY <2>4, <2>5, <2>6 DEF SInv
<1>4. QED
  BY <1>2, <1>3

\* A step of a client that has the port, as the types and the port go.
LEMMA ClientKeeps ==
  ASSUME SInv, held = "client", Ours(board'),
         UNCHANGED <<opts, matches, fault, gone, handBacks, cycles>>,
         held' = "client", pc' \in Connected, stale' \in BOOLEAN,
         deaf' \in {"no", "left", "other"},
         round' \in {"first", "second", "none"},
         silent' \in Nat, wire' \in Nat, heard' \in Nat,
         deferred' \in [old : BOOLEAN, new : Nat], todo' \in Seq(Commands),
         opts.radio = "wifi" /\ board'.on => board'.radio = "wifi"
  PROVE  Types' /\ Ports' /\ OnBoard'
<1>1. Types'
  BY DEF SInv, Types, TypeOK, Ours, Boards, Connected
<1>2. Ports' /\ OnBoard'
  BY DEF Ports, Connected, OnBoard, Ours
<1>3. QED
  BY <1>1, <1>2

\* The client is answered, and goes on.
LEMMA AnsweredKeeps ==
  ASSUME SInv, held = "client", pc' \in Connected,
         NEW c \in (Commands \cup {"GET_INFO", "WIFI_SCAN"}) \ {"COUNT"},
         Answered(c), UNCHANGED <<fault, gone, handBacks, cycles>>,
         round' \in {"first", "second", "none"}, silent' \in Nat,
         todo' \in Seq(Commands)
  PROVE  Types' /\ Ports' /\ OnBoard'
<1>1. /\ Ours(board') /\ UNCHANGED <<opts, held, stale, matches>>
      /\ wire' \in Nat /\ heard' \in Nat
      /\ deferred' \in [old : BOOLEAN, new : Nat]
      /\ deaf' \in {"no", "left", "other"}
      /\ opts.radio = "wifi" /\ held = "client" /\ board'.on
           => board'.radio = "wifi"
  BY AnswersLeave
<1>2. stale' \in BOOLEAN
  BY <1>1 DEF SInv, Types, TypeOK
<1>3. QED
  BY <1>1, <1>2, ClientKeeps

\* A configuration begins.
LEMMA ToConfigureBegins ==
  ASSUME NEW o \in Sessions
  PROVE  /\ Configuration(o) \in Seq(Commands)
         /\ UNCHANGED opts /\ opts = o /\ pc' = "configure"
            /\ opts.client = "session" /\ todo' = Configuration(o)
              => Tuning'
<1>1. /\ Shape(Configuration(o), o) /\ Configuration(o) # <<>>
      /\ \A s \in Needed(o) : Contains(Configuration(o), s)
      /\ Configuration(o)[1] = "SET_RADIO"
  BY ConfigurationIsShaped
<1>2. Configuration(o) \in Seq(Commands)
  <2>1. Settings \cup {"SET_RADIO", "COUNT", StartOf(o)} \subseteq Commands
    BY DEF Commands, StartOf
  <2>2. Configuration(o)
          \in Seq(Settings \cup {"SET_RADIO", "COUNT", StartOf(o)})
    BY <1>1 DEF Shape
  <2> HIDE DEF Commands, Settings
  <2>3. QED
    BY <2>1, <2>2
<1>3. ASSUME UNCHANGED opts, opts = o, pc' = "configure",
             todo' = Configuration(o), opts.client = "session"
      PROVE  Tuning'
  <2>1. StartOf(o) # "SET_RADIO"
    BY DEF StartOf
  <2>2. ToConfigure'
    BY <1>1, <1>3, <2>1 DEF ToConfigure
  <2>3. QED
    BY <1>1, <1>3, <2>2 DEF Tuning
<1>4. QED
  BY <1>2, <1>3

LEMMA GreetedKeeps ==
  ASSUME SInv, pc \in {"hello", "hello again"}, Greeted
  PROVE  SInv'
<1>1. /\ Answered("GET_INFO") /\ pc' = "configure"
      /\ UNCHANGED <<round, history>>
      /\ todo' = IF opts.client = "link" THEN <<>> ELSE Configuration(opts)
  BY DEF Greeted
<1>2. held = "client" /\ opts \in Sessions
  BY DEF SInv, Types, TypeOK, Ports, Connected
<1>3. todo' \in Seq(Commands)
  BY <1>1, <1>2, HandBackIsTyped, ToConfigureBegins
<1>4. Types' /\ Ports' /\ OnBoard'
  BY <1>1, <1>2, <1>3, AnsweredKeeps DEF Connected, SInv, Types, TypeOK,
     history
<1>5. Rounds'
  BY <1>1, AnswersLeave, RoundsKept DEF SInv, history
<1>6. opts' = opts
  BY <1>1 DEF Answered
<1>7. Tuning'
  <2>1. CASE opts.client = "session"
    BY <1>1, <1>2, <1>6, <2>1, ToConfigureBegins
  <2>2. CASE opts.client # "session"
    <3>1. opts.client = "link"
      BY <1>2, <2>2, SessionsAreKnown
    <3>2. QED
      BY <1>1, <1>6, <2>2, <3>1 DEF Tuning
  <2>3. QED
    BY <2>1, <2>2
<1>8. QED
  BY <1>4, <1>5, <1>7 DEF SInv

LEMMA TurnedAwayKeeps == ASSUME SInv, TurnedAway PROVE SInv'
  BY OursIs, RaiseKeeps DEF SInv, TurnedAway

LEMMA HelloKeeps == ASSUME SInv, Hello \/ HelloAgain PROVE SInv'
<1>1. pc \in {"hello", "hello again"} /\ held = "client"
  BY DEF SInv, Ports, Connected, Hello, HelloAgain
<1>2. CASE Greeted
  BY <1>1, <1>2, GreetedKeeps
<1>3. CASE TurnedAway
  BY <1>3, TurnedAwayKeeps
<1>4. CASE Fails("GET_INFO")
  <2>1. Accepts(board, "GET_INFO", opts.radio)
    BY DEF Accepts
  <2>2. "GET_INFO" \in (Commands \cup {"GET_INFO", "WIFI_SCAN"}) \ {"COUNT"}
    OBVIOUS
  <2>3. QED
    BY <1>4, <2>1, <2>2, FailsKeeps
<1>5. ASSUME /\ pc' = "hello again" /\ stale' = FALSE
             /\ wire' = 0 /\ deferred' = Nothing
             /\ UNCHANGED <<opts, todo, round, held, board, deaf, matches,
                            heard, history>>
      PROVE  SInv'
  <2>1. Ours(board)
    BY OursIs DEF SInv
  <2>2. /\ deferred' \in [old : BOOLEAN, new : Nat]
        /\ wire' + deferred'.new = 0
    <3>1. wire' = 0 /\ deferred' = [old |-> FALSE, new |-> 0]
      BY <1>5 DEF Nothing
    <3>2. deferred'.new = 0
      BY <3>1
    <3>3. QED
      BY <3>1, <3>2
  <2>3. Types' /\ Ports' /\ OnBoard'
    <3>1. opts.radio = "wifi" /\ board'.on => board'.radio = "wifi"
      BY <1>1, <1>5 DEF SInv, OnBoard
    <3>2. QED
      BY <1>1, <1>5, <2>1, <2>2, <3>1, ClientKeeps DEF SInv, Types, TypeOK,
         Connected, history
  <2>4. Rounds'
    <3>1. /\ UNCHANGED <<opts, round, handBacks, cycles, silent>>
          /\ deaf' = deaf /\ pc' = "hello again"
      BY <1>5 DEF history
    <3>2. ~(wire' + deferred'.new > 0)
      BY <2>2
    <3>3. QED
      BY <3>1, <3>2, RoundsKept DEF SInv
  <2>5. Tuning'
    BY <1>5 DEF Tuning
  <2>6. QED
    BY <2>3, <2>4, <2>5 DEF SInv
<1>6. QED
  BY <1>2, <1>3, <1>4, <1>5 DEF Hello, HelloAgain

\* Where a configuration has come to.
LEMMA Configuring ==
  ASSUME SInv, pc = "configure", todo # <<>>
  PROVE  /\ opts.client = "session" /\ ToConfigure /\ held = "client"
         /\ Head(todo) = todo[1] /\ Tail(todo) \in Seq(Commands)
         /\ todo[1] \in Settings \cup {"SET_RADIO", "COUNT", StartOf(opts)}
<1>1. opts.client = "session" /\ ToConfigure
  BY DEF SInv, Tuning
<1>2. held = "client"
  BY DEF SInv, Ports, Connected
<1>3. Shape(todo, opts)
  BY <1>1 DEF ToConfigure
<1>4. Tail(todo) \in Seq(Commands)
  <2>1. todo \in Seq(Commands)
    BY DEF SInv, Types
  <2>2. QED
    BY <2>1
<1>5. QED
  BY <1>1, <1>2, <1>3, <1>4, TailIsShaped

LEMMA CountsKeeps == ASSUME SInv, Counts PROVE SInv'
<1>1. /\ opts.client = "session" /\ ToConfigure /\ held = "client"
      /\ todo[1] = "COUNT" /\ Tail(todo) \in Seq(Commands)
  BY Configuring DEF Counts
<1>2. deferred' \in [old : BOOLEAN, new : Nat] /\ deferred'.new = 0
  BY DEF Counts, Nothing
<1>3. Ours(board)
  BY OursIs DEF SInv
<1>4. Types' /\ Ports' /\ OnBoard'
  <2>1. opts.radio = "wifi" /\ board'.on => board'.radio = "wifi"
    BY <1>1 DEF SInv, OnBoard, Counts, device
  <2>2. QED
    BY <1>1, <1>2, <1>3, <2>1, ClientKeeps DEF Counts, SInv, Types, TypeOK,
       Connected, device, history
<1>5. Rounds'
  <2>1. opts.radio = "wifi" /\ wire' + deferred'.new > 0 => deaf' = "no"
    BY <1>2 DEF Counts, SInv, Types, TypeOK, Rounds, device
  <2>2. QED
    BY <2>1, RoundsKept DEF Counts, SInv, device, history
<1>6. Tuning'
  <2>1. /\ Shape(Tail(todo), opts) /\ Tail(todo) # <<>>
        /\ \A s : Contains(todo, s) => s = todo[1] \/ Contains(Tail(todo), s)
    <3>1. "COUNT" # StartOf(opts) /\ Shape(todo, opts) /\ todo # <<>>
      BY <1>1 DEF StartOf, ToConfigure, Counts
    <3>2. QED
      BY <1>1, <3>1, TailIsShaped
  <2>2. "COUNT" \notin Needed(opts)
    BY DEF Needed, Asked, Optional, BleAlways
  <2>3. todo' = Tail(todo) /\ opts' = opts /\ board' = board /\ wire' = wire
        /\ deferred' = Nothing /\ pc' = "configure"
    BY DEF Counts, device
  <2>4. board.radio = opts.radio /\ ~board.on /\ wire = 0
    BY <1>1 DEF ToConfigure
  <2>5. ToConfigure'
    BY <1>1, <2>1, <2>2, <2>3, <2>4 DEF ToConfigure, Needed, Asked
  <2>6. QED
    BY <1>1, <2>1, <2>3, <2>5 DEF Tuning
<1>7. QED
  BY <1>4, <1>5, <1>6 DEF SInv

\* A setting, the radio and the start, as each leaves the board.
LEMMA SettingIsMade ==
  ASSUME SInv, pc = "configure", todo # <<>>, todo[1] \in Settings,
         Answered(todo[1])
  PROVE  /\ board' = [board EXCEPT !.mine = board.mine \cup {todo[1]},
                                   !.left = board.left \ {todo[1]}]
         /\ wire' = 0
<1>1. todo[1] \notin {"SET_RADIO", "STOP", "WIFI_SCAN", "SET_CHANNEL", "START",
                      "GET_INFO", "RADIO_DIRTY"}
  BY DEF Settings, Optional, BleAlways
<1>2. QED
  BY <1>1 DEF Answered, After, Starts, Reads

LEMMA RadioIsSet ==
  ASSUME SInv, Answered("SET_RADIO")
  PROVE  /\ board' = [board EXCEPT !.radio = opts.radio, !.on = FALSE]
         /\ wire' = 0
  BY DEF Answered, After, Starts, Reads

LEMMA RadioStarts ==
  ASSUME SInv, ~board.on, wire = 0, deferred = Nothing,
         Answered(StartOf(opts))
  PROVE  /\ board' = [board EXCEPT !.on = TRUE, !.force = board.mine]
         /\ deferred' = [old |-> FALSE, new |-> heard' - wire']
<1>1. Starts(StartOf(opts))
  BY DEF Starts, StartOf
<1>2. board' = [board EXCEPT !.on = TRUE, !.force = board.mine]
  BY <1>1 DEF Answered, After, Starts
<1>3. PICK n \in Nat :
        /\ heard' = n /\ wire' = 0
        /\ deferred' = [old |-> deferred.old \/ deferred.new + wire > 0,
                        new |-> n]
  <2>1. 0 .. MaxHeard \subseteq Nat
    BY MaxHeardIsNat
  <2>2. QED
    BY <1>1, <2>1 DEF Answered
<1>4. (deferred.old \/ deferred.new + wire > 0) = FALSE
  <2>1. deferred.old = FALSE
    BY DEF Nothing
  <2>2. ~(deferred.new + wire > 0)
    BY DEF Nothing
  <2>3. QED
    BY <2>1, <2>2, Zenon
<1>5. heard' - wire' = heard'
  BY <1>3
<1>6. deferred' = [old |-> FALSE, new |-> heard' - wire']
  BY <1>3, <1>4, <1>5
<1>7. QED
  BY <1>2, <1>6

LEMMA ConfigureSends ==
  ASSUME SInv, pc = "configure", todo # <<>>, todo[1] # "COUNT",
         Answered(todo[1]), todo' = Tail(todo),
         UNCHANGED <<pc, round, history>>
  PROVE  SInv'
<1> DEFINE c == todo[1]
<1>1. /\ opts.client = "session" /\ ToConfigure /\ held = "client"
      /\ Tail(todo) \in Seq(Commands)
      /\ c \in Settings \cup {"SET_RADIO", StartOf(opts)}
  BY Configuring
<1>2. c \in (Commands \cup {"GET_INFO", "WIFI_SCAN"}) \ {"COUNT"}
  BY <1>1 DEF Commands, StartOf
<1>3. Types' /\ Ports' /\ OnBoard'
  BY <1>1, <1>2, AnsweredKeeps DEF Connected, SInv, Types, TypeOK, history
<1>4. Rounds'
  BY <1>2, AnswersLeave, RoundsKept DEF SInv, history
<1>5. /\ opts' = opts /\ pc' = "configure" /\ board \in Boards
      /\ board'.mine \cap board'.left = {}
  BY <1>3, OursIs DEF Answered, SInv, Ours, OnBoard
<1>6. /\ Shape(Tail(todo), opts)
      /\ \A s : Contains(todo, s) => s = c \/ Contains(Tail(todo), s)
      /\ c = StartOf(opts) <=> Tail(todo) = <<>>
      /\ Tail(todo) # <<>> => Tail(todo)[1] # "SET_RADIO"
                              /\ Tail(todo)[1] # StartOf(opts)
  BY <1>1, TailIsShaped DEF ToConfigure
<1>7. CASE c = StartOf(opts)
  <2>1. c \notin Settings /\ c # "SET_RADIO"
    BY <1>7 DEF StartOf, Settings, Optional, BleAlways
  <2>2. /\ board.radio = opts.radio /\ ~board.on /\ wire = 0
        /\ deferred = Nothing
    BY <1>1, <1>7, <2>1 DEF ToConfigure
  <2>3. /\ board' = [board EXCEPT !.on = TRUE, !.force = board.mine]
        /\ deferred' = [old |-> FALSE, new |-> heard' - wire']
    BY <1>7, <2>2, RadioStarts
  <2>4. Needed(opts) \subseteq board.mine
    <3>1. ASSUME NEW s \in Needed(opts) PROVE s \in board.mine
      <4>1. s \in Settings
        BY DEF Needed, Asked, Settings
      <4>2. ~Contains(<<>>, s)
        BY DEF Contains
      <4>3. QED
        BY <1>1, <1>6, <1>7, <2>1, <4>1, <4>2 DEF ToConfigure
    <3>2. QED
      BY <3>1
  <2>5. /\ board'.on /\ board'.radio = opts.radio /\ board'.force = board.mine
        /\ board'.mine = board.mine
    BY <1>5, <2>2, <2>3 DEF Boards
  <2>6. Capturing'
    BY <1>5, <2>3, <2>4, <2>5 DEF Capturing, Needed, Asked
  <2>7. QED
    BY <1>1, <1>3, <1>4, <1>5, <1>6, <1>7, <2>6 DEF SInv, Tuning
<1>8. CASE c = "SET_RADIO"
  <2>1. /\ board' = [board EXCEPT !.radio = opts.radio, !.on = FALSE]
        /\ wire' = 0
    BY <1>8, RadioIsSet
  <2>2. /\ board'.radio = opts.radio /\ ~board'.on
        /\ board'.mine = board.mine
    BY <1>5, <2>1 DEF Boards
  <2>3. Tail(todo) # <<>>
    BY <1>6, <1>8 DEF StartOf
  <2>4. \A s \in Needed(opts) : s # c
    BY <1>8 DEF Needed, Asked, Optional, BleAlways
  <2>5. ToConfigure'
    BY <1>1, <1>5, <1>6, <2>1, <2>2, <2>3, <2>4 DEF ToConfigure, Needed, Asked
  <2>6. QED
    BY <1>1, <1>3, <1>4, <1>5, <2>3, <2>5 DEF SInv, Tuning
<1>9. CASE c \in Settings
  <2>1. c # StartOf(opts) /\ c # "SET_RADIO"
    BY <1>9 DEF StartOf, Settings, Optional, BleAlways
  <2>2. /\ board' = [board EXCEPT !.mine = board.mine \cup {c},
                                  !.left = board.left \ {c}]
        /\ wire' = 0
    BY <1>9, SettingIsMade
  <2>3. /\ board'.radio = opts.radio /\ ~board'.on
        /\ board'.mine = board.mine \cup {c}
    BY <1>1, <1>5, <2>1, <2>2 DEF Boards, ToConfigure
  <2>4. Tail(todo) # <<>>
    BY <1>6, <2>1
  <2>5. ToConfigure'
    BY <1>1, <1>5, <1>6, <2>2, <2>3, <2>4 DEF ToConfigure, Needed, Asked
  <2>6. QED
    BY <1>1, <1>3, <1>4, <1>5, <2>4, <2>5 DEF SInv, Tuning
<1>10. QED
  BY <1>1, <1>7, <1>8, <1>9

\* No command comes before the board can take it.
LEMMA ConfigureAccepted ==
  ASSUME SInv, pc = "configure", todo # <<>>
  PROVE  Accepts(board, todo[1], opts.radio)
<1>1. /\ ToConfigure
      /\ todo[1] \in Settings \cup {"SET_RADIO", "COUNT", StartOf(opts)}
  BY Configuring
<1>2. CASE todo[1] = StartOf(opts)
  <2>1. board.radio = opts.radio
    BY <1>1, <1>2 DEF ToConfigure, StartOf
  <2>2. QED
    BY <1>2, <2>1 DEF Accepts, StartOf
<1>3. CASE todo[1] # StartOf(opts)
  <2>1. todo[1] # "SET_CHANNEL" /\ todo[1] # "START"
    BY <1>1, <1>3 DEF Settings, Optional, BleAlways, StartOf
  <2>2. QED
    BY <2>1 DEF Accepts
<1>4. QED
  BY <1>2, <1>3

LEMMA ConfiguresKeeps == ASSUME SInv, Configures PROVE SInv'
<1>1. /\ pc = "configure" /\ todo # <<>> /\ todo[1] # "COUNT"
      /\ Head(todo) = todo[1]
      /\ todo[1] \in (Commands \cup {"GET_INFO", "WIFI_SCAN"}) \ {"COUNT"}
  BY Configuring DEF Configures, Commands, StartOf
<1>2. CASE Fails(Head(todo))
  BY <1>1, <1>2, ConfigureAccepted, FailsKeeps
<1>3. CASE ~Fails(Head(todo))
  BY <1>1, <1>3, ConfigureSends DEF Configures
<1>4. QED
  BY <1>2, <1>3

\* A step that leaves the board and what was read alone.
LEMMA ClientMoves ==
  ASSUME SInv, held = "client", pc' \in Connected \ {"deaf"},
         UNCHANGED <<opts, todo, round, held, device, matches, packets,
                     history>>
  PROVE  Types' /\ Ports' /\ OnBoard'
<1>1. Ours(board) /\ (opts.radio = "wifi" /\ board.on => board.radio = "wifi")
  BY OursIs DEF SInv, OnBoard
<1>2. QED
  BY <1>1, ClientKeeps DEF SInv, Types, TypeOK, device, packets, history

LEMMA ConfiguredKeeps == ASSUME SInv, Configured PROVE SInv'
<1>1. held = "client" /\ pc' \in {"listen", "open"}
  BY DEF SInv, Ports, Connected, Configured
<1>2. Types' /\ Ports' /\ OnBoard'
  BY <1>1, ClientMoves DEF Configured, Connected
<1>3. Rounds'
  <2>1. opts.radio = "wifi" /\ wire' + deferred'.new > 0 => deaf' = "no"
    BY DEF Configured, SInv, Rounds, device, packets
  <2>2. pc' = "listen" => round # "none"
    BY DEF Configured
  <2>3. pc' = "open" => Settled'
    <3>1. opts' = opts /\ deaf' = deaf /\ handBacks' = handBacks
          /\ cycles' = cycles
      BY DEF Configured, device, history
    <3>2. ASSUME pc' = "open", opts.client = "session", opts.recover,
                 ShouldHearBeacons(opts)
          PROVE  deaf = "no" \/ BothTried
      <4>1. round = "none" /\ opts.radio = "wifi"
        BY <3>2 DEF Configured, ShouldHearBeacons
      <4>2. QED
        BY <4>1 DEF SInv, Rounds
    <3>3. QED
      BY <3>1, <3>2 DEF Settled, BothTried, ShouldHearBeacons
  <2>4. QED
    BY <1>1, <2>1, <2>2, <2>3, RoundsKept DEF Configured, SInv, device, history
<1>4. Tuning'
  <2>1. CASE opts.client = "session"
    <3>1. Capturing
      BY <2>1 DEF Configured, SInv, Tuning
    <3>2. Capturing'
      BY <3>1 DEF Configured, Capturing, Needed, Asked, device, packets
    <3>3. QED
      BY <1>1, <2>1, <3>2 DEF Configured, Tuning
  <2>2. CASE opts.client # "session"
    BY <1>1, <2>2 DEF Configured, Tuning
  <2>3. QED
    BY <2>1, <2>2
<1>5. QED
  BY <1>2, <1>3, <1>4 DEF SInv

LEMMA ListensKeeps == ASSUME SInv, Listens PROVE SInv'
<1>0. held = "client" /\ Ours(board) /\ opts \in Sessions
  BY OursIs DEF SInv, Types, TypeOK, Ports, Connected, Listens
<1>1. ASSUME wire + deferred.new > 0, pc' = "open", Reads,
             UNCHANGED <<opts, todo, round, held, device, matches, heard,
                         history>>
      PROVE  SInv'
  <2>1. /\ wire \in Nat /\ heard \in Nat
        /\ deferred \in [old : BOOLEAN, new : Nat]
    BY DEF SInv, Types, TypeOK
  <2>2. /\ wire' = 0
        /\ deferred' = [deferred EXCEPT !.new = deferred.new + wire]
    BY <1>1 DEF Reads
  <2>3. /\ wire' \in Nat /\ deferred' \in [old : BOOLEAN, new : Nat]
        /\ wire' + deferred'.new = wire + deferred.new
    BY <2>1, <2>2
  <2>4. Types' /\ Ports' /\ OnBoard'
    <3>1. opts.radio = "wifi" /\ board'.on => board'.radio = "wifi"
      BY <1>0, <1>1 DEF SInv, OnBoard, device
    <3>2. QED
      BY <1>0, <1>1, <2>3, <3>1, ClientKeeps DEF SInv, Types, TypeOK,
         Connected, device, history
  <2>5. Rounds'
    <3>1. opts.radio = "wifi" => deaf = "no"
      BY <1>1 DEF SInv, Rounds
    <3>2. Settled'
      BY <1>1, <3>1 DEF Settled, ShouldHearBeacons, device
    <3>3. QED
      BY <1>1, <2>3, <3>1, <3>2, RoundsKept DEF SInv, device, history
  <2>6. Tuning'
    <3>1. CASE opts.client = "session"
      <4>1. Capturing
        BY <3>1 DEF Listens, SInv, Tuning
      <4>2. deferred' = [old |-> FALSE, new |-> heard' - wire']
        <5>1. deferred = [old |-> FALSE, new |-> heard - wire]
          BY <4>1 DEF Capturing
        <5>2. deferred' = [old |-> FALSE, new |-> (heard - wire) + wire]
          BY <2>2, <5>1
        <5>3. (heard - wire) + wire = heard - 0
          BY <2>1
        <5>4. QED
          BY <1>1, <2>2, <5>2, <5>3
      <4>3. Capturing'
        BY <1>1, <4>1, <4>2 DEF Capturing, Needed, Asked, device
      <4>4. QED
        BY <1>1, <3>1, <4>3 DEF Tuning
    <3>2. CASE opts.client # "session"
      BY <1>1, <3>2 DEF Tuning
    <3>3. QED
      BY <3>1, <3>2
  <2>7. QED
    BY <2>4, <2>5, <2>6 DEF SInv
<1>2. ASSUME pc' = "stop",
             UNCHANGED <<opts, todo, round, held, device, matches, packets,
                         history>>
      PROVE  SInv'
  <2>1. Types' /\ Ports' /\ OnBoard'
    BY <1>0, <1>2, ClientMoves DEF Connected
  <2>2. Rounds'
    <3>1. opts.radio = "wifi" /\ wire' + deferred'.new > 0 => deaf' = "no"
      BY <1>2 DEF SInv, Rounds, device, packets
    <3>2. round # "none"
      BY DEF Listens, SInv, Rounds
    <3>3. QED
      BY <1>2, <3>1, <3>2, RoundsKept DEF SInv, device, history
  <2>3. Tuning'
    BY <1>2 DEF Listens, SInv, Tuning
  <2>4. QED
    BY <2>1, <2>2, <2>3 DEF SInv
<1>3. CASE Raise(board, TRUE, TRUE)
  BY <1>0, <1>3, RaiseKeeps
<1>4. QED
  BY <1>1, <1>2, <1>3 DEF Listens

LEMMA StopToScanKeeps == ASSUME SInv, StopToScan PROVE SInv'
<1>1. "STOP" \in (Commands \cup {"GET_INFO", "WIFI_SCAN"}) \ {"COUNT"}
      /\ Accepts(board, "STOP", opts.radio)
  BY DEF Commands, Accepts
<1>2. CASE Fails("STOP")
  BY <1>1, <1>2, FailsKeeps
<1>3. CASE ~Fails("STOP")
  <2>1. Answered("STOP") /\ pc' = "band" /\ UNCHANGED <<todo, round, history>>
    BY <1>3 DEF StopToScan
  <2>2. held = "client" /\ round # "none"
    BY DEF SInv, Ports, Rounds, Connected, StopToScan
  <2>3. Types' /\ Ports' /\ OnBoard'
    BY <1>1, <2>1, <2>2, AnsweredKeeps DEF Connected, SInv, Types, TypeOK,
       history
  <2>4. Rounds'
    BY <1>1, <2>1, <2>2, AnswersLeave, RoundsKept DEF SInv, history
  <2>5. Tuning'
    BY <2>1 DEF StopToScan, SInv, Answered, Tuning
  <2>6. QED
    BY <2>3, <2>4, <2>5 DEF SInv
<1>4. QED
  BY <1>2, <1>3

LEMMA BandKeeps == ASSUME SInv, Band PROVE SInv'
<1>1. "WIFI_SCAN" \in (Commands \cup {"GET_INFO", "WIFI_SCAN"}) \ {"COUNT"}
      /\ Accepts(board, "WIFI_SCAN", opts.radio)
  BY DEF Commands, Settings, Optional, BleAlways, Accepts
<1>2. held = "client" /\ round # "none" /\ opts \in Sessions
  BY DEF SInv, Types, TypeOK, Ports, Rounds, Connected, Band
<1>3. ASSUME deaf = "no", Answered("WIFI_SCAN"), pc' = "configure",
             todo' = Configuration(opts), round' = "none", UNCHANGED history
      PROVE  SInv'
  <2>1. todo' \in Seq(Commands)
    BY <1>2, <1>3, ToConfigureBegins
  <2>2. Types' /\ Ports' /\ OnBoard'
    BY <1>1, <1>2, <1>3, <2>1, AnsweredKeeps DEF Connected, SInv, Types,
       TypeOK, history
  <2>3. deaf' = "no" /\ opts' = opts
    BY <1>1, <1>3, AnswersLeave
  <2>4. Rounds'
    <3>1. cycles <= handBacks /\ handBacks <= 1 /\ handBacks + cycles <= silent
      <4>1. handBacks \in {0, 1} /\ cycles = 0 /\ handBacks + cycles <= silent
        BY <1>2 DEF SInv, Types, TypeOK, Rounds
      <4>2. QED
        BY <4>1
    <3>2. UNCHANGED <<handBacks, cycles, silent>>
      BY <1>3 DEF history
    <3>3. QED
      BY <1>3, <2>3, <3>1, <3>2 DEF Rounds
  <2>5. Tuning'
    <3>1. CASE opts.client = "session"
      BY <1>2, <1>3, <2>3, <3>1, ToConfigureBegins
    <3>2. CASE opts.client # "session"
      BY <1>2, <1>3, <2>3, <3>2 DEF Band, SInv, Tuning
    <3>3. QED
      BY <3>1, <3>2
  <2>6. QED
    BY <2>2, <2>4, <2>5 DEF SInv
<1>4. ASSUME Answered("WIFI_SCAN"), pc' = "deaf", silent' = silent + 1,
             UNCHANGED <<todo, round, fault, gone, handBacks, cycles>>
      PROVE  SInv'
  <2>1. Types' /\ Ports' /\ OnBoard'
    <3>1. /\ silent' \in Nat /\ round' \in {"first", "second", "none"}
          /\ todo' \in Seq(Commands) /\ pc' \in Connected
      <4>1. silent \in Nat
        BY DEF SInv, Types, TypeOK
      <4>2. silent' \in Nat
        BY <1>4, <4>1
      <4>3. QED
        BY <1>4, <4>2 DEF Connected, SInv, Types, TypeOK
    <3>2. QED
      BY <1>1, <1>2, <1>4, <3>1, AnsweredKeeps
  <2>2. Rounds'
    <3>1. handBacks \in Nat /\ cycles \in Nat /\ silent \in Nat
      BY DEF SInv, Types, TypeOK
    <3>2. handBacks + cycles <= silent
      BY DEF SInv, Rounds
    <3>3. handBacks' + cycles' <= silent' /\ handBacks' + cycles' < silent'
      BY <1>4, <3>1, <3>2
    <3>4. opts.radio = "wifi" /\ wire' + deferred'.new > 0 => deaf' = "no"
      BY <1>1, <1>4, AnswersLeave
    <3>5. opts' = opts
      BY <1>4 DEF Answered
    <3>6. QED
      BY <1>2, <1>4, <3>3, <3>4, <3>5 DEF SInv, Rounds
  <2>3. Tuning'
    BY <1>4 DEF Band, SInv, Answered, Tuning
  <2>4. QED
    BY <2>1, <2>2, <2>3 DEF SInv
<1>5. CASE Fails("WIFI_SCAN")
  BY <1>1, <1>5, FailsKeeps
<1>6. QED
  BY <1>3, <1>4, <1>5 DEF Band

LEMMA CureKeeps == ASSUME SInv, Cure PROVE SInv'
<1>1. /\ handBacks \in Nat /\ cycles \in Nat /\ silent \in Nat
      /\ round \in {"first", "second", "none"} /\ round # "none"
      /\ handBacks + cycles < silent
  BY DEF Cure, SInv, Types, TypeOK, Rounds
<1>2. Ours(board')
  BY OursIs, StoppedIsOurs DEF Cure, SInv
<1>3. Types'
  <2>1. \/ handBacks' = handBacks + 1 /\ cycles' = cycles
        \/ handBacks' = handBacks /\ cycles' = cycles + 1
    BY Zenon DEF Cure
  <2>2. handBacks' \in Nat /\ cycles' \in Nat
    BY <1>1, <2>1
  <2>3. QED
    BY <1>1, <1>2, <2>2 DEF Cure, SInv, Types, TypeOK, Ours, Boards, packets
<1>4. Ports' /\ OnBoard' /\ Tuning'
  BY <1>2 DEF Cure, Ports, Connected, OnBoard, Ours, Tuning
<1>5. Rounds'
  <2>1. opts.radio = "wifi" /\ wire' + deferred'.new > 0 => deaf' = "no"
    BY DEF Cure, SInv, Rounds, packets
  <2>2. CASE round = "first"
    <3>1. handBacks = 0 /\ cycles = 0
      BY <2>2 DEF SInv, Rounds
    <3>2. handBacks' = 1 /\ cycles' = 0 /\ round' = "second"
      <4>1. /\ handBacks' = handBacks + 1 /\ cycles' = cycles
            /\ round' = "second"
        BY <2>2, Zenon DEF Cure
      <4>2. QED
        BY <3>1, <4>1
    <3>3. handBacks' + cycles' <= silent
      BY <1>1, <3>1, <3>2
    <3>4. QED
      BY <2>1, <3>2, <3>3 DEF Cure, Rounds
  <2>3. CASE round = "second"
    <3>1. handBacks = 1 /\ cycles = 0
      BY <2>3 DEF SInv, Rounds
    <3>2. handBacks' = 1 /\ cycles' = 1
      BY <2>3, <3>1 DEF Cure
    <3>3. QED
      BY <1>1, <2>1, <2>3, <3>1, <3>2 DEF Cure, Rounds, BothTried
  <2>4. QED
    BY <1>1, <2>2, <2>3
<1>6. QED
  BY <1>3, <1>4, <1>5 DEF SInv

LEMMA CloseKeeps == ASSUME SInv, Close PROVE SInv'
<1>1. Ours(board) /\ opts \in Sessions
  BY OursIs DEF SInv, Types, TypeOK
<1>2. Ours(board')
  BY <1>1, StoppedIsOurs DEF Close
<1>3. Types'
  BY <1>2 DEF Close, SInv, Types, TypeOK, Ours, Boards, packets
<1>4. Ports' /\ OnBoard' /\ Tuning'
  <2>1. opts.client = "session" /\ ~gone' => ~board'.on
    BY <1>1, StoppedIsOurs DEF Close
  <2>2. QED
    BY <1>2, <2>1 DEF Close, Ports, Connected, OnBoard, Ours, Tuning
<1>5. Rounds'
  <2>1. opts.radio = "wifi" /\ wire' + deferred'.new > 0 => deaf' = "no"
    BY DEF Close, SInv, Rounds, packets
  <2>2. QED
    BY <2>1, RoundsKept DEF Close, SInv
<1>6. QED
  BY <1>3, <1>4, <1>5 DEF SInv

\* What a step that only counts packets leaves of the types.
LEMMA TypesKept ==
  ASSUME TypeOK, wire' \in Nat, heard' \in Nat,
         UNCHANGED <<opts, pc, round, held, board, deaf, stale, matches>>,
         UNCHANGED <<deferred, fault, gone, handBacks, cycles, silent>>
  PROVE  TypeOK'
<1>1. /\ UNCHANGED opts /\ UNCHANGED pc /\ UNCHANGED round /\ UNCHANGED held
      /\ UNCHANGED board /\ UNCHANGED deaf
      /\ UNCHANGED stale /\ UNCHANGED matches
  OBVIOUS
<1>2. /\ UNCHANGED deferred /\ UNCHANGED fault /\ UNCHANGED gone
      /\ UNCHANGED handBacks /\ UNCHANGED cycles /\ UNCHANGED silent
  OBVIOUS
<1>3. /\ opts' \in Sessions
      /\ pc' \in {"ready", "flag", "hand back", "cycle", "connect", "hello",
                  "hello again", "configure", "listen", "stop", "band",
                  "deaf", "open", "failed", "closed"}
      /\ round' \in {"first", "second", "none"}
      /\ held' \in {"nobody", "client", "recovery"}
  BY <1>1 DEF TypeOK
<1>4. /\ board' \in [radio : Radios, on : BOOLEAN, mine : SUBSET Settings,
                     left : SUBSET Settings, force : SUBSET Settings]
      /\ deaf' \in {"no", "left", "other"}
  BY <1>1 DEF TypeOK
<1>5. stale' \in BOOLEAN /\ matches' \in BOOLEAN
  BY <1>1 DEF TypeOK
<1>6. /\ deferred' \in [old : BOOLEAN, new : Nat]
      /\ fault' \in BOOLEAN /\ gone' \in BOOLEAN
  BY <1>2 DEF TypeOK
<1>7. handBacks' \in Nat /\ cycles' \in Nat /\ silent' \in Nat
  BY <1>2 DEF TypeOK
<1>8. QED
  BY <1>3, <1>4, <1>5, <1>6, <1>7 DEF TypeOK

LEMMA HearKeeps == ASSUME SInv, Hear PROVE SInv'
<1>1. /\ wire \in Nat /\ heard \in Nat
      /\ deferred \in [old : BOOLEAN, new : Nat]
  BY DEF SInv, Types, TypeOK
<1>2. /\ board.on /\ held = "client" /\ wire' = wire + 1
      /\ heard' = heard + 1 /\ deferred' = deferred
      /\ (opts.radio = "wifi" => deaf = "no")
  BY DEF Hear, SInv, OnBoard
<1>3. Types' /\ Ports' /\ OnBoard'
  <2>1. wire' \in Nat /\ heard' \in Nat
    BY <1>1, <1>2
  <2>2. Ours(board) /\ opts \in Sessions
    BY OursIs DEF SInv, Types, TypeOK
  <2>3. Types'
    <3>1. UNCHANGED <<opts, pc, todo, round, held, board, deaf, stale,
                      matches, deferred, fault, gone, handBacks, cycles,
                      silent>>
      BY DEF Hear, device, history
    <3>2. TypeOK /\ todo \in Seq(Commands)
      BY DEF SInv, Types
    <3>3. TypeOK'
      BY <2>1, <3>1, <3>2, TypesKept
    <3>4. QED
      BY <3>1, <3>2, <3>3 DEF SInv, Types
  <2>4. Ports'
    BY DEF Hear, SInv, Ports, device, history
  <2>5. OnBoard'
    BY DEF Hear, SInv, OnBoard, device
  <2>6. QED
    BY <2>3, <2>4, <2>5
<1>4. Rounds'
  <2>1. pc \in {"listen", "stop", "band"} => round # "none"
    BY DEF SInv, Rounds
  <2>2. pc = "open" => Settled
    BY DEF SInv, Rounds
  <2>3. pc' = "open" => Settled'
    BY <2>2 DEF Hear, Settled, BothTried, ShouldHearBeacons, device, history
  <2>4. QED
    BY <1>2, <2>1, <2>3, RoundsKept DEF Hear, SInv, device, history
<1>5. Tuning'
  <2>1. CASE opts.client = "session" /\ pc = "configure" /\ todo # <<>>
    <3>1. ToConfigure /\ todo[1] = "SET_RADIO"
      BY <1>2, <2>1 DEF SInv, Tuning, ToConfigure
    <3>2. todo[1] # StartOf(opts)
      BY <3>1 DEF StartOf
    <3>3. ToConfigure'
      BY <3>1, <3>2 DEF Hear, ToConfigure, Needed, Asked, device
    <3>4. QED
      BY <2>1, <3>3 DEF Hear, Tuning
  <2>2. CASE /\ opts.client = "session"
             /\ (pc = "configure" /\ todo = <<>>) \/ pc \in {"listen", "open"}
    <3>1. Capturing
      BY <2>2 DEF SInv, Tuning
    <3>2. heard' - wire' = heard - wire
      BY <1>1, <1>2
    <3>3. Capturing'
      BY <1>2, <3>1, <3>2 DEF Hear, Capturing, Needed, Asked, device
    <3>4. QED
      BY <2>2, <3>3 DEF Hear, Tuning
  <2>3. CASE opts.client # "session"
    BY <2>3 DEF Hear, SInv, Tuning
  <2>4. QED
    BY <2>1, <2>2, <2>3 DEF Hear, Tuning
<1>6. QED
  BY <1>3, <1>4, <1>5 DEF SInv

LEMMA StutterKeeps == ASSUME SInv, UNCHANGED vars PROVE SInv'
<1>1. Types' /\ Ports' /\ OnBoard'
  <2>1. Types'
    <3>1. TypeOK'
      <4>1. /\ opts' = opts /\ pc' = pc /\ round' = round /\ held' = held
            /\ board' = board /\ deaf' = deaf /\ stale' = stale
            /\ matches' = matches /\ wire' = wire /\ deferred' = deferred
            /\ heard' = heard /\ fault' = fault /\ gone' = gone
            /\ handBacks' = handBacks /\ cycles' = cycles
            /\ silent' = silent
        BY DEF vars, device, packets, history
      <4>2. TypeOK
        BY DEF SInv, Types
      <4>3. wire \in Nat /\ heard \in Nat
        BY <4>2 DEF TypeOK
      <4>4. QED
        BY <4>1, <4>2, <4>3, TypesKept
    <3>2. UNCHANGED <<pc, todo, held>>
      BY DEF vars
    <3>3. QED
      BY <3>1, <3>2 DEF SInv, Types
  <2>2. Ports'
    BY DEF vars, device, history, SInv, Ports
  <2>3. OnBoard'
    BY DEF vars, device, SInv, OnBoard
  <2>4. QED
    BY <2>1, <2>2, <2>3
<1>2. Rounds'
  BY DEF vars, device, packets, history, SInv, Rounds, Settled, BothTried,
     ShouldHearBeacons
<1>3. Tuning'
  BY DEF vars, device, packets, history, SInv, Tuning, ToConfigure, Capturing,
     Needed, Asked
<1>4. QED
  BY <1>1, <1>2, <1>3 DEF SInv

LEMMA NextSession == SInv /\ [Next]_vars => SInv'
<1> SUFFICES ASSUME SInv, [Next]_vars PROVE SInv'
  OBVIOUS
<1>1. CASE Start \/ RecoveryOpens \/ AskDirty \/ HandingBack \/ HandedBack
  BY <1>1, StartKeeps, RecoveryOpensKeeps, AskDirtyKeeps, HandingBackKeeps,
     HandedBackKeeps
<1>2. CASE PowerCycling \/ RecoveryFails \/ Connect \/ Hello \/ HelloAgain
  BY <1>2, PowerCyclingKeeps, RecoveryFailsKeeps, ConnectKeeps, HelloKeeps
<1>3. CASE Counts \/ Configures \/ Configured \/ Listens
  BY <1>3, CountsKeeps, ConfiguresKeeps, ConfiguredKeeps, ListensKeeps
<1>4. CASE StopToScan \/ Band \/ Cure \/ Close \/ Hear
  BY <1>4, StopToScanKeeps, BandKeeps, CureKeeps, CloseKeeps, HearKeeps
<1>5. CASE Done \/ UNCHANGED vars
  BY <1>5, StutterKeeps DEF Done
<1>6. QED
  BY <1>1, <1>2, <1>3, <1>4, <1>5 DEF Next, Client

LEMMA SessionInvariant == Spec => []SInv
  BY InitSession, NextSession, PTL DEF Spec

-----------------------------------------------------------------------------
(* The types of the variables, over every way of opening a board: the      *)
(* commands sent are commands there are, and the counts are numbers.       *)
THEOREM SessionTyped == Spec => []TypeOK
<1>1. SInv => TypeOK
  BY DEF SInv, Types
<1>2. QED
  BY <1>1, SessionInvariant, PTL

(* A session that opened captures with what it asked for and nothing left  *)
(* by another: _configure, for any options.                                *)
THEOREM AsAsked == Spec => []CapturesAsAsked
<1>1. SInv => CapturesAsAsked
  <2> SUFFICES ASSUME SInv, pc = "open", opts.client = "session"
               PROVE  /\ board.on /\ board.radio = opts.radio
                      /\ Asked(opts) \subseteq board.force
                      /\ opts.radio = "ble" =>
                           /\ BleAlways \subseteq board.force
                           /\ BleAlways \cap board.left = {}
    BY DEF CapturesAsAsked
  <2>1. Capturing /\ board.mine \cap board.left = {}
    BY DEF SInv, Tuning, OnBoard
  <2>2. QED
    BY <2>1 DEF Capturing, Needed
<1>2. QED
  BY <1>1, SessionInvariant, PTL

(* Every packet heard since the radio started is still to be delivered:    *)
(* _start_counting and _hears_within, for any number of packets.           *)
THEOREM AllDelivered == Spec => []NothingDropped
<1>1. SInv => NothingDropped
  BY DEF SInv, Tuning, Capturing, NothingDropped
<1>2. QED
  BY <1>1, SessionInvariant, PTL

(* open() raises only when something failed: no order of its commands, and *)
(* no port of its own, makes it fail.                                      *)
THEOREM OnlyOnFault == Spec => []FailsOnlyOnFault
<1>1. SInv => FailsOnlyOnFault
  BY DEF SInv, Ports, FailsOnlyOnFault
<1>2. QED
  BY <1>1, SessionInvariant, PTL

(* Whatever ended open(), the port is closed and the radio stopped: close  *)
(* and _disconnect.                                                        *)
THEOREM AlwaysClosed == Spec => []FailedIsClosed
<1>1. SInv => FailedIsClosed
  BY DEF SInv, Ports, FailedIsClosed
<1>2. QED
  BY <1>1, SessionInvariant, PTL

(* A cure follows a silent band and each is tried once: open, with         *)
(* _band_is_silent, hand_back and power_cycle.                             *)
THEOREM CuredOnlyIfSilent == Spec => []CuresFollowSilence
<1>1. SInv => CuresFollowSilence
  <2> SUFFICES ASSUME SInv PROVE CuresFollowSilence
    OBVIOUS
  <2>1. /\ handBacks \in Nat /\ cycles \in Nat
        /\ round \in {"first", "second", "none"}
    BY DEF SInv, Types, TypeOK
  <2>2. cycles <= handBacks /\ handBacks <= 1 /\ handBacks + cycles <= silent
    BY <2>1 DEF SInv, Rounds
  <2>3. pc = "open" => Settled
    BY DEF SInv, Rounds
  <2>4. QED
    BY <2>2, <2>3 DEF CuresFollowSilence, Settled, BothTried
<1>2. QED
  BY <1>1, SessionInvariant, PTL

=============================================================================
