---------------------------- MODULE ExtcapProofs ----------------------------
(***************************************************************************)
(* The toolbar's pipe and its channels, for any setups, notes and number   *)
(* of lines: only the thread that has control_lock is between two raw      *)
(* writes, what is picked is what is tuned to, the exit code tells how the *)
(* capture ended, and what the session has to say is said once.            *)
(***************************************************************************)
EXTENDS Extcap, FiniteSetTheorems, TLAPS

\* A thread that has raw writes left of a message holds the lock.
WritesLocked ==
  /\ left \in [Threads -> 0 .. 4]
  /\ \A t \in Threads : left[t] > 0 => lock = t

LEMMA InitLocked == Init => WritesLocked
  BY DEF Init, WritesLocked, Threads

LEMMA TakeLocked ==
  ASSUME WritesLocked, NEW t \in Threads, TakeLock(t)
  PROVE  WritesLocked'
<1>1. PICK n \in {2, 4} : left' = [left EXCEPT ![t] = n]
  BY DEF TakeLock
<1>2. left' \in [Threads -> 0 .. 4]
  BY <1>1 DEF WritesLocked
<1>3. \A u \in Threads : left[u] = 0
  BY DEF TakeLock, WritesLocked, Threads
<1>4. \A u \in Threads : left'[u] > 0 => lock' = u
  BY <1>1, <1>3 DEF TakeLock, WritesLocked
<1>5. QED
  BY <1>2, <1>4 DEF WritesLocked

LEMMA WriteLocked ==
  ASSUME WritesLocked, NEW t \in Threads, ControlWrite(t)
  PROVE  WritesLocked'
<1>1. left' = [left EXCEPT ![t] = left[t] - 1] /\ left[t] > 0 /\ lock = t
  BY DEF ControlWrite, WritesLocked
<1>2. left' \in [Threads -> 0 .. 4]
  BY <1>1 DEF WritesLocked
<1>3. \A u \in Threads \ {t} : left'[u] = 0
  BY <1>1 DEF WritesLocked
<1>4. left[t] # 1 => lock' = t
  BY <1>1 DEF ControlWrite
<1>5. left[t] = 1 => left'[t] = 0
  BY <1>1 DEF WritesLocked
<1>6. \A u \in Threads : left'[u] > 0 => lock' = u
  BY <1>3, <1>4, <1>5
<1>7. QED
  BY <1>2, <1>6 DEF WritesLocked

\* The process ends, or the pipe and its lock are left alone.
LEMMA RestLocked ==
  ASSUME WritesLocked,
         \/ UNCHANGED <<left, lock>>
         \/ left' = [t \in Threads |-> 0]
  PROVE  WritesLocked'
BY DEF WritesLocked

LEMMA NextLocked == WritesLocked /\ [Next]_vars => WritesLocked'
<1> SUFFICES ASSUME WritesLocked, [Next]_vars PROVE WritesLocked'
  OBVIOUS
<1>1. CASE Writes
  BY <1>1, TakeLocked, WriteLocked DEF Writes
<1>2. CASE Starts
  BY <1>2, RestLocked DEF Starts, Refuses, Pipes, OpenCapturePipe,
     OpenControls, PipeIsUnmet, Blocks, WriteHeader, PipeBroken,
     SessionOpens, SayWhenReady, StartThreads, Exits, control
<1>3. CASE OpenFails \/ Finally
  BY <1>3, RestLocked DEF OpenFails, Finally, Exits
<1>4. CASE Record \/ RecordsEnd \/ BoardFails
  BY <1>4, RestLocked DEF Record, RecordsEnd, BoardFails, control
<1>5. CASE Reader
  BY <1>5, RestLocked DEF Reader, ReaderEnds, ReadsInitialized, ReadsSet,
     control
<1>6. CASE Heart \/ Hopper
  BY <1>6, RestLocked DEF Heart, HeartBeats, HeartStops, Hopper, Hops,
     HopStops, control
<1>7. CASE Host
  BY <1>7, RestLocked DEF Host, HostInitializes, HostSets, HostGoes, control
<1>8. CASE Done \/ UNCHANGED vars
  BY <1>8, RestLocked DEF Done, vars, control
<1>9. QED
  BY <1>1, <1>2, <1>3, <1>4, <1>5, <1>6, <1>7, <1>8 DEF Next

LEMMA LockedIsWhole == WritesLocked => MessagesWhole
<1> SUFFICES ASSUME WritesLocked PROVE MessagesWhole
  OBVIOUS
<1> DEFINE Cut == {t \in Threads : left[t] % 2 = 1}
<1>1. Cut \subseteq {lock}
  BY DEF WritesLocked
<1>2. IsFiniteSet({lock}) /\ Cardinality({lock}) = 1
  BY FS_Singleton
<1>3. Cardinality(Cut) <= Cardinality({lock})
  BY <1>1, <1>2, FS_Subset
<1>4. Cardinality(Cut) <= 1
  BY <1>2, <1>3
<1>5. QED
  BY <1>4 DEF MessagesWhole

(* No message to the toolbar is cut by another thread's, whichever threads *)
(* write and however their raw writes interleave: control_lock, taken in   *)
(* control_write and kept for both writes.                                 *)
THEOREM NeverCut == Spec => []MessagesWhole
<1>1. QED
  BY InitLocked, NextLocked, LockedIsWhole, PTL DEF Spec

-----------------------------------------------------------------------------
\* What the toolbar sent of one kind is not of another.
LEMMA OneSet ==
  ASSUME NEW m, NEW n, <<m>> = <<n>>
  PROVE  m = n
<1>1. <<m>>[1] = <<n>>[1]
  OBVIOUS
<1>2. QED
  BY <1>1

LEMMA PickedAlone ==
  ASSUME NEW t \in Picked, inbox = <<[set |-> "channel", token |-> t]>>,
         ReadsSet
  PROVE  \/ wanted' = wanted
         \/ Frequency(RADIOS[Interface.radio].prefix, wanted')
              = Frequency(t.prefix, t.number)
<1> DEFINE channel == ParseToken(Interface, t) \cap Requestable(Interface)
<1>1. inbox[1].set = "channel" /\ inbox[1].token = t
  OBVIOUS
<1>2. wanted' = IF channel = {} THEN wanted ELSE CHOOSE c \in channel : TRUE
  BY <1>1 DEF ReadsSet
<1>3. CASE channel # {}
  <2>1. wanted' \in channel
    BY <1>2, <1>3
  <2>2. wanted' = t.number /\ t.prefix = RADIOS[Interface.radio].prefix
    BY <2>1 DEF ParseToken
  <2>3. QED
    BY <2>2
<1>4. QED
  BY <1>2, <1>3

(* A channel picked in the toolbar tunes the radio to the frequency shown, *)
(* or not at all, on every board and radio: parse_channel_token and        *)
(* request_channel, as the reader thread applies them.                     *)
THEOREM PickedIsTuned == Spec => TunesWhatWasPicked
<1> DEFINE Emptied(t) ==
      inbox = <<[set |-> "channel", token |-> t]>> /\ inbox' = <<>>
<1> DEFINE Tuned(t) ==
      \/ wanted' = wanted
      \/ Frequency(RADIOS[Interface.radio].prefix, wanted')
           = Frequency(t.prefix, t.number)
<1>1. ASSUME [Next]_vars, NEW t \in Picked, Emptied(t) PROVE Tuned(t)
  <2>1. inbox # <<>> /\ inbox' # inbox
    BY <1>1
  <2>2. CASE ReadsSet
    BY <1>1, <2>2, PickedAlone
  <2>3. ~(inbox = <<[set |-> "INITIALIZED"]>>)
    <3>1. [set |-> "INITIALIZED"] # [set |-> "channel", token |-> t]
      <4>1. [set |-> "INITIALIZED"].set # [set |-> "channel", token |-> t].set
        OBVIOUS
      <4>2. QED
        BY <4>1
    <3>2. QED
      BY <1>1, <3>1, OneSet
  <2>4. UNCHANGED inbox \/ inbox' # <<>> \/ ReadsSet \/ ReadsInitialized
    <3>1. CASE Writes \/ Starts \/ OpenFails \/ Finally
      BY <3>1 DEF Writes, TakeLock, ControlWrite, Starts, Refuses, Pipes,
         OpenCapturePipe, OpenControls, PipeIsUnmet, Blocks, WriteHeader,
         PipeBroken, SessionOpens, SayWhenReady, StartThreads, OpenFails,
         Finally, Exits, toolbar
    <3>2. CASE Record \/ RecordsEnd \/ BoardFails \/ Heart \/ Hopper
      BY <3>2 DEF Record, RecordsEnd, BoardFails, Heart, HeartBeats,
         HeartStops, Hopper, Hops, HopStops, toolbar
    <3>3. CASE Host
      BY <3>3 DEF Host, HostInitializes, HostSets, HostGoes, toolbar
    <3>4. CASE Reader
      BY <3>4 DEF Reader, ReaderEnds, toolbar
    <3>5. CASE Done \/ UNCHANGED vars
      BY <3>5 DEF Done, vars, toolbar
    <3>6. QED
      BY <1>1, <3>1, <3>2, <3>3, <3>4, <3>5 DEF Next
  <2>5. QED
    BY <1>1, <2>1, <2>2, <2>3, <2>4 DEF ReadsInitialized
<1>2. [Next]_vars => [\A t \in Picked : Emptied(t) => Tuned(t)]_vars
  BY <1>1
<1>3. QED
  BY <1>2, PTL DEF Spec, TunesWhatWasPicked

-----------------------------------------------------------------------------
(* The exit code *)

\* The hop sets of a radio are of its own channels, and BLE has none.
LEMMA HopsAreChannels ==
  ASSUME NEW i \in INTERFACES, NEW h \in DOMAIN HopSets(i), HopSets(i)[h] # <<>>
  PROVE  /\ i.radio # "ble" /\ 1 \in DOMAIN HopSets(i)[h]
         /\ \A k \in DOMAIN HopSets(i)[h] : HopSets(i)[h][k] \in RADIOS[i.radio].channels
<1>1. i.radio \in {"802154", "ble", "wifi"}
  BY DEF INTERFACES, RADIOS
<1>2. CASE i.radio = "ble"
  <2>1. HopSets(i) = [s \in {0} |-> <<>>]
    BY <1>2 DEF HopSets, HOP_SETS
  <2>2. QED
    BY <2>1
<1>3. CASE i.radio = "wifi"
  <2>1. HopSets(i) = [s \in 0 .. 2 |-> CASE s = 0 -> <<>> [] s = 1 -> <<1, 6, 11>>
                                        [] s = 2 -> [k \in 1 .. 13 |-> k]]
    BY <1>3 DEF HopSets, HOP_SETS
  <2>2. RADIOS[i.radio].channels = 1 .. 14
    BY <1>3 DEF RADIOS
  <2>3. HopSets(i)[h] \in {<<1, 6, 11>>, [k \in 1 .. 13 |-> k]}
    BY <2>1
  <2>4. CASE HopSets(i)[h] = <<1, 6, 11>>
    BY <1>3, <2>2, <2>4
  <2>5. CASE HopSets(i)[h] = [k \in 1 .. 13 |-> k]
    BY <1>3, <2>2, <2>5
  <2>6. QED
    BY <2>3, <2>4, <2>5
<1>4. CASE i.radio = "802154"
  <2>1. HopSets(i) = [s \in 0 .. 4 |-> CASE s = 0 -> <<>> [] s = 1 -> <<11, 15, 20, 25>>
                                        [] s = 2 -> [k \in 1 .. 16 |-> 10 + k]
                                        [] s = 3 -> [k \in 1 .. 8 |-> 10 + k]
                                        [] s = 4 -> [k \in 1 .. 8 |-> 18 + k]]
    BY <1>4 DEF HopSets, HOP_SETS
  <2>2. RADIOS[i.radio].channels = 11 .. 26
    BY <1>4 DEF RADIOS
  <2>3. HopSets(i)[h] \in {<<11, 15, 20, 25>>, [k \in 1 .. 16 |-> 10 + k],
                           [k \in 1 .. 8 |-> 10 + k], [k \in 1 .. 8 |-> 18 + k]}
    BY <2>1
  <2>4. CASE HopSets(i)[h] = <<11, 15, 20, 25>>
    BY <1>4, <2>2, <2>4
  <2>5. CASE HopSets(i)[h] = [k \in 1 .. 16 |-> 10 + k]
    <3>1. DOMAIN HopSets(i)[h] = 1 .. 16
      BY <2>5
    <3>2. \A k \in 1 .. 16 : HopSets(i)[h][k] \in 11 .. 26
      BY <2>5
    <3>3. QED
      BY <1>4, <2>2, <3>1, <3>2
  <2>6. CASE HopSets(i)[h] \in {[k \in 1 .. 8 |-> 10 + k], [k \in 1 .. 8 |-> 18 + k]}
    <3>1. CASE HopSets(i)[h] = [k \in 1 .. 8 |-> 10 + k]
      BY <1>4, <2>2, <3>1
    <3>2. CASE HopSets(i)[h] = [k \in 1 .. 8 |-> 18 + k]
      BY <1>4, <2>2, <3>2
    <3>3. QED
      BY <2>6, <3>1, <3>2
  <2>7. QED
    BY <2>3, <2>4, <2>5, <2>6
<1>5. QED
  BY <1>1, <1>2, <1>3, <1>4

\* What a dialog offers is accepted.
LEMMA OfferedIsAccepted ==
  ASSUME NEW attached, NEW i \in INTERFACES, NEW a \in Offered(attached, i)
  PROVE  Accepted(i, a)
<1>1. i.radio \in {"802154", "ble", "wifi"}
  BY DEF INTERFACES, RADIOS
<1>2. CASE i.radio = "802154"
  <2>1. /\ a.channel \in RADIOS[i.radio].channels /\ a.hop \in 0 .. 4
        /\ a.dwell \in {100, 2000, 10000} /\ a.snaplen = NotGiven /\ a.phys = NotGiven
    BY <1>2 DEF Offered, Options154
  <2>2. DOMAIN HopSets(i) = 0 .. 4
    BY <1>2 DEF HopSets, HOP_SETS
  <2>3. RADIOS[i.radio].channels = 11 .. 26
    BY <1>2 DEF RADIOS
  <2>4. /\ a.snaplen \in Snaplens /\ a.phys \in {0, 1, 4, 5, NotGiven}
        /\ a.dwell \in Dwells /\ a.hop \in DOMAIN HopSets(i)
    <3>1. a.snaplen \in Snaplens
      BY <2>1 DEF Snaplens
    <3>2. a.dwell \in Dwells
      <4>1. {100, 2000, 10000} \subseteq Dwells
        BY SMT DEF Dwells
      <4>2. QED
        BY <2>1, <4>1
    <3>3. QED
      BY <2>1, <2>2, <3>1, <3>2
  <2>5. RADIOS[i.radio].channels # {} /\ a.channel \in RADIOS[i.radio].channels
    BY <2>1
  <2>6. QED
    BY <2>4, <2>5 DEF Accepted
<1>3. CASE i.radio = "ble"
  <2>1. /\ a.channel = NotGiven /\ a.hop = 0 /\ a.dwell = 500
        /\ a.snaplen = NotGiven /\ a.phys \in {0, 1, 5}
    BY <1>3 DEF Offered, OptionsBle
  <2>2. DOMAIN HopSets(i) = {0}
    BY <1>3 DEF HopSets, HOP_SETS
  <2>3. RADIOS[i.radio].channels = {}
    BY <1>3 DEF RADIOS
  <2>4. /\ a.snaplen \in Snaplens /\ a.phys \in {0, 1, 4, 5, NotGiven}
        /\ a.dwell \in Dwells /\ a.hop \in DOMAIN HopSets(i)
    <3>1. a.snaplen \in Snaplens
      BY <2>1 DEF Snaplens
    <3>2. a.dwell \in Dwells
      BY <2>1 DEF Dwells
    <3>3. QED
      BY <2>1, <2>2, <3>1, <3>2
  <2>5. RADIOS[i.radio].channels = {} /\ a.channel = NotGiven
    BY <2>1, <2>3
  <2>6. QED
    BY <2>4, <2>5 DEF Accepted
<1>4. CASE i.radio = "wifi"
  <2>1. /\ a.channel \in RADIOS[i.radio].channels /\ a.hop \in 0 .. 2
        /\ a.dwell \in {100, 500, 10000} /\ a.snaplen \in {64, 256, 512} /\ a.phys = NotGiven
    BY <1>4 DEF Offered, OptionsWifi
  <2>2. DOMAIN HopSets(i) = 0 .. 2
    BY <1>4 DEF HopSets, HOP_SETS
  <2>3. RADIOS[i.radio].channels = 1 .. 14
    BY <1>4 DEF RADIOS
  <2>4. /\ a.snaplen \in Snaplens /\ a.phys \in {0, 1, 4, 5, NotGiven}
        /\ a.dwell \in Dwells /\ a.hop \in DOMAIN HopSets(i)
    <3>1. a.snaplen \in Snaplens
      BY <2>1 DEF Snaplens
    <3>2. a.dwell \in Dwells
      <4>1. {100, 500, 10000} \subseteq Dwells
        BY SMT DEF Dwells
      <4>2. QED
        BY <2>1, <4>1
    <3>3. QED
      BY <2>1, <2>2, <3>1, <3>2
  <2>5. RADIOS[i.radio].channels # {} /\ a.channel \in RADIOS[i.radio].channels
    BY <2>1
  <2>6. QED
    BY <2>4, <2>5 DEF Accepted
<1>5. QED
  BY <1>1, <1>2, <1>3, <1>4

\* A capture with options its dialog offers opens on a channel its radio has.
LEMMA OfferedHasChannel ==
  ASSUME NEW attached, NEW i \in INTERFACES, NEW a \in Offered(attached, i)
  PROVE  HasChannel(i, OpensOn(i, a, NotGiven))
<1> DEFINE c == ChannelOf(i, a, NotGiven)
           hops == HopSets(i)[a.hop]
<1>1. a.hop \in DOMAIN HopSets(i)
  <2>1. Accepted(i, a)
    BY OfferedIsAccepted
  <2>2. Accepted(i, a) => a.hop \in DOMAIN HopSets(i)
    BY DEF Accepted
  <2>3. QED
    BY <2>1, <2>2
<1>2. HasChannel(i, c)
  <2>1. i.radio \in {"802154", "ble", "wifi"}
    BY DEF INTERFACES, RADIOS
  <2>2. CASE i.radio = "ble"
    <3>1. a.channel = NotGiven
      BY <2>2 DEF Offered
    <3>2. c = 0
      BY <2>2, <3>1 DEF ChannelOf, RADIOS
    <3>3. QED
      BY <2>2, <3>2 DEF HasChannel
  <2>3. CASE i.radio # "ble"
    <3>1. a.channel \in RADIOS[i.radio].channels
      BY <2>3 DEF Offered
    <3>2. RADIOS[i.radio].channels \in {11 .. 26, 1 .. 14}
      BY <2>1, <2>3 DEF RADIOS
    <3>3. a.channel # NotGiven
      BY <3>1, <3>2 DEF NotGiven
    <3>4. c = a.channel
      BY <3>3 DEF ChannelOf
    <3>5. QED
      BY <2>3, <3>1, <3>4 DEF HasChannel
  <2>4. QED
    BY <2>2, <2>3
<1>3. OpensOn(i, a, NotGiven) = IF hops = <<>> THEN c ELSE hops[HopStart(c, hops)]
  BY DEF OpensOn
<1> HIDE DEF c, hops
<1>4. CASE hops = <<>>
  BY <1>2, <1>3, <1>4
<1>5. CASE hops # <<>>
  <2>1. /\ i.radio # "ble" /\ 1 \in DOMAIN hops
        /\ \A k \in DOMAIN hops : hops[k] \in RADIOS[i.radio].channels
    BY <1>1, <1>5, HopsAreChannels DEF hops
  <2>2. HopStart(c, hops) \in DOMAIN hops
    BY <2>1 DEF HopStart, Range
  <2>3. QED
    BY <1>3, <1>5, <2>1, <2>2 DEF HasChannel
<1>6. QED
  BY <1>4, <1>5

\* An interface that is advertised, with a port its dialog offers, opens a
\* port of its board, when there is any board at all.
LEMMA OfferedHolds ==
  ASSUME NEW attached, NEW chosen \in BoardInterfaces(attached),
         NEW args \in Offered(attached, chosen.interface),
         attached \in Seq([port : STRING \ {"default"}, board : STRING]),
         FindBoardPorts(attached) # {}
  PROVE  /\ chosen.interface \in INTERFACES
         /\ Holds(attached, OpensPort(attached, chosen, args), chosen.interface.board)
<1> DEFINE found == FindBoardPorts(attached)
           i == chosen.interface
<1>1. \A n \in found : /\ n \in DOMAIN attached /\ n \in Int
                        /\ attached[n].board \in DOMAIN BOARDS
                        /\ attached[n].port # "default"
  <2>1. /\ DOMAIN attached = 1 .. Len(attached) /\ Len(attached) \in Nat
        /\ \A n \in 1 .. Len(attached) :
             attached[n] \in [port : STRING \ {"default"}, board : STRING]
    <3> DEFINE Ports == [port : STRING \ {"default"}, board : STRING]
    <3> HIDE DEF Ports
    <3>1. attached \in Seq(Ports)
      BY DEF Ports
    <3>2. /\ DOMAIN attached = 1 .. Len(attached) /\ Len(attached) \in Nat
          /\ \A n \in 1 .. Len(attached) : attached[n] \in Ports
      BY <3>1
    <3>3. QED
      BY <3>2 DEF Ports
  <2>2. \A n \in DOMAIN attached : n \in Int /\ attached[n].port # "default"
    BY <2>1
  <2>3. QED
    BY <2>2 DEF FindBoardPorts
<1>2. CASE \A n, m \in found : n = m
  <2>1. PICK n : found = {n}
    BY <1>2
  <2>2. i \in INTERFACES /\ chosen.port = "default" /\ i.board = attached[n].board
    BY <1>2, <2>1 DEF BoardInterfaces
  <2>3. \A boards : attached[n].board \in boards => DefaultPort(attached, boards) = attached[n].port
    <3>1. \A boards : attached[n].board \in boards =>
            {m \in FindBoardPorts(attached) : attached[m].board \in boards} = {n}
      BY <2>1
    <3>2. Min({n}) = n
      BY <1>1, <2>1 DEF Min
    <3>3. QED
      BY <3>1, <3>2 DEF DefaultPort
  <2>4. args.port \in {DefaultPort(attached, {i.board}), "default"}
    BY DEF Offered
  <2>5. OpensPort(attached, chosen, args) = attached[n].port
    BY <1>1, <2>1, <2>2, <2>3, <2>4 DEF OpensPort
  <2>6. QED
    BY <1>1, <2>1, <2>2, <2>5 DEF Holds, Range
<1>3. CASE ~(\A n, m \in found : n = m)
  <2>1. /\ chosen \in [interface : INTERFACES, port : {attached[n].port : n \in found}]
        /\ \E n \in found : attached[n].port = chosen.port
                             /\ attached[n].board = chosen.interface.board
    BY <1>3 DEF BoardInterfaces
  <2>2. PICK n \in found : attached[n].port = chosen.port /\ attached[n].board = i.board
    BY <2>1
  <2>3. OpensPort(attached, chosen, args) = attached[n].port
    BY <1>1, <2>2 DEF OpensPort
  <2>4. QED
    BY <1>1, <2>1, <2>2, <2>3 DEF Holds, Range
<1>4. QED
  BY <1>2, <1>3

Stages == {"start", "header", "controls", "blocked", "opening", "notes",
           "loop", "finally", "exited"}

\* Where the capture is, and what has ended it so far.
EndInv ==
  /\ setup \in Setups /\ {failed, unmet} \subseteq BOOLEAN
  /\ host \in {"here", "gone"} /\ pc \in Stages
  /\ pc = "start" \/ ~setup.files => fifo = "unopened"
  /\ pc \in {"header", "controls", "opening", "notes", "loop", "finally"} =>
       fifo \in {"open", "gone"} /\ setup.files
  /\ pc # "exited" /\ (fifo = "gone" \/ ~running) => host = "gone"
  /\ stopped => host = "gone"
  /\ failed => pc \in {"finally", "exited"}
  /\ unmet => pc = "exited" /\ host = "gone"
  /\ pc = "finally" /\ ~failed => host = "gone"
  /\ reader \/ heart => pc # "exited"
  /\ ExitTellsWhy

LEMMA EndStarts == Init => EndInv
  BY DEF Init, EndInv, ExitTellsWhy, Stages

\* Nothing that was offered is refused.
LEMMA RefusedIsTold ==
  ASSUME EndInv, Refuses
  PROVE  EndInv'
<1>1. /\ pc = "start" /\ pc' = "exited" /\ exit' = 1
      /\ reader' = FALSE /\ heart' = FALSE /\ fifo' = fifo
      /\ UNCHANGED <<setup, host, stopped, failed, unmet>>
  BY DEF Refuses, Exits, EndInv
<1>2. ~Accepted(Interface, setup.args) \/ ~setup.files
  BY DEF Refuses
<1>3. ~setup.files \/ ~WasOffered
  <2>1. Interface \in INTERFACES
    BY SetupsAreKnown DEF EndInv, Interface
  <2>2. QED
    BY <1>2, <2>1, OfferedIsAccepted DEF WasOffered
<1>4. WasOffered' = WasOffered
  BY <1>1 DEF WasOffered, Interface
<1>5. QED
  BY <1>1, <1>3, <1>4 DEF EndInv, ExitTellsWhy, Stages

LEMMA FailureIsTold ==
  ASSUME EndInv, OpenFails
  PROVE  EndInv'
<1>1. /\ pc = "opening" /\ pc' = "exited" /\ exit' = 1
      /\ reader' = FALSE /\ heart' = FALSE
      /\ fifo' = IF fifo = "open" THEN "gone" ELSE fifo
      /\ UNCHANGED <<setup, host, stopped, unmet>>
  BY DEF OpenFails, Exits
<1>2. failed' = (/\ HasChannel(Interface, Opening)
                 /\ \/ FindBoardPorts(setup.attached) = {}
                    \/ Holds(setup.attached, Port, Interface.board))
  BY DEF OpenFails
<1>3. ASSUME WasOffered, setup.dataset = NotGiven PROVE failed'
  <2>1. Interface \in INTERFACES
    BY SetupsAreKnown DEF EndInv, Interface
  <2>2. HasChannel(Interface, Opening)
    BY <1>3, <2>1, OfferedHasChannel DEF WasOffered, Opening
  <2>3. CASE FindBoardPorts(setup.attached) # {}
    <3>1. Holds(setup.attached, Port, Interface.board)
      BY <1>3, <2>3, OfferedHolds, SetupsAreKnown DEF WasOffered, EndInv, Port, Interface
    <3>2. QED
      BY <1>2, <2>2, <3>1
  <2>4. QED
    BY <1>2, <2>2, <2>3
<1>4. WasOffered' = WasOffered
  BY <1>1 DEF WasOffered, Interface
<1>5. failed' \in BOOLEAN
  BY <1>2 DEF HasChannel, Holds
<1>6. QED
  BY <1>1, <1>3, <1>4, <1>5 DEF EndInv, ExitTellsWhy, Stages

\* A pipe that cannot be opened.
LEMMA UnmetIsTold ==
  ASSUME EndInv, PipeIsUnmet
  PROVE  EndInv'
<1>1. /\ pc \in {"start", "controls"} /\ setup.files /\ host = "gone"
      /\ unmet' = TRUE /\ pc' = "exited" /\ exit' = 1
      /\ reader' = FALSE /\ heart' = FALSE
      /\ fifo' = IF fifo = "open" THEN "gone" ELSE fifo
      /\ UNCHANGED <<setup, host, stopped, failed>>
  BY DEF PipeIsUnmet, HasNoPeer, Exits, EndInv
<1>2. QED
  BY <1>1 DEF EndInv, ExitTellsWhy, Stages

\* While the capture goes on there is nothing to tell yet, and when it has
\* ended nothing changes what there was.
LEMMA GoesOnUntold ==
  ASSUME EndInv, setup' = setup,
         \/ pc' # "exited"
         \/ pc = "exited" /\ pc' = pc /\ UNCHANGED <<outcome, stopped>>
              /\ (host' = host \/ host' = "gone") /\ fifo' = fifo
  PROVE  ExitTellsWhy'
<1>1. WasOffered' = WasOffered
  BY DEF WasOffered, Interface
<1>2. QED
  BY <1>1 DEF EndInv, ExitTellsWhy, outcome

LEMMA EndKept == EndInv /\ [Next]_vars => EndInv'
<1> SUFFICES ASSUME EndInv, [Next]_vars PROVE EndInv'
  OBVIOUS
<1> USE DEF EndInv, Stages
<1>1. CASE Writes
  <2>1. UNCHANGED <<setup, pc, outcome, fifo, host, threads, flags>>
    BY <1>1 DEF Writes, TakeLock, ControlWrite
  <2>2. QED
    BY <2>1, GoesOnUntold DEF outcome, threads, flags
<1>2. CASE Refuses \/ OpenFails \/ PipeIsUnmet
  BY <1>2, RefusedIsTold, FailureIsTold, UnmetIsTold
<1>3. CASE OpenCapturePipe \/ WriteHeader \/ OpenControls \/ Blocks
  <2>1. /\ \/ /\ pc = "start" /\ setup.files
              /\ pc' = "header" /\ fifo' = "open"
           \/ /\ pc \in {"start", "header", "controls"} /\ fifo' = fifo
              /\ \/ pc' = "blocked"
                 \/ pc # "start" /\ pc' \in {"controls", "opening"}
        /\ UNCHANGED <<setup, outcome, host, threads, flags>>
    BY <1>3 DEF OpenCapturePipe, WriteHeader, OpenControls, Blocks, HasNoPeer
  <2>2. QED
    BY <2>1, GoesOnUntold DEF outcome, threads, flags
<1>4. CASE SessionOpens \/ SayWhenReady \/ StartThreads
  <2>1. /\ pc \in {"opening", "notes"} /\ pc' \in {"notes", "loop"}
        /\ UNCHANGED <<setup, outcome, host, fifo, flags>>
    BY <1>4 DEF SessionOpens, SayWhenReady, StartThreads
  <2>2. QED
    BY <2>1, GoesOnUntold DEF outcome, flags
<1>5. CASE PipeBroken \/ Finally
  <2>1. /\ \/ pc = "header" /\ exit' = 0 /\ fifo = "gone"
           \/ pc = "finally" /\ exit' = IF failed THEN 1 ELSE 0
        /\ pc' = "exited" /\ reader' = FALSE /\ heart' = FALSE
        /\ fifo' = IF fifo = "open" THEN "gone" ELSE fifo
        /\ UNCHANGED <<setup, host, stopped, failed, unmet>>
    BY <1>5 DEF PipeBroken, Finally, Exits, ExitCode
  <2>2. WasOffered' = WasOffered
    BY <2>1 DEF WasOffered, Interface
  <2>3. QED
    BY <2>1, <2>2 DEF ExitTellsWhy
<1>6. CASE Record \/ RecordsEnd \/ BoardFails
  <2>1. /\ pc = "loop" /\ pc' \in {"loop", "finally"}
        /\ UNCHANGED <<setup, exit, unmet, fifo, host, threads, flags>>
        /\ \/ failed' = TRUE /\ pc' = "finally"
           \/ failed' = failed /\ (stopped \/ ~running \/ fifo # "open" \/ pc' = "loop")
    BY <1>6 DEF Record, RecordsEnd, BoardFails, outcome
  <2>2. ExitTellsWhy'
    BY <2>1, GoesOnUntold
  <2>3. UNCHANGED <<reader, heart, running, stopped>>
    BY <2>1 DEF threads, flags
  <2>4. pc' = "finally" /\ ~failed' => host' = "gone"
    BY <2>1, <2>3
  <2>5. failed' \in BOOLEAN /\ (failed' => pc' \in {"finally", "exited"})
    <3>1. CASE failed' = TRUE /\ pc' = "finally"
      BY <3>1
    <3>2. CASE failed' = failed
      <4>1. failed = FALSE
        BY <2>1
      <4>2. QED
        BY <3>2, <4>1
    <3>3. QED
      BY <2>1, <3>1, <3>2
  <2>6. QED
    BY <2>1, <2>2, <2>3, <2>4, <2>5
<1>7. CASE Reader
  <2>1. /\ UNCHANGED <<setup, pc, outcome, fifo, host, heart>> /\ reader
        /\ (reader' = FALSE \/ reader' = reader)
        /\ \/ UNCHANGED flags
           \/ host = "gone" /\ running' = FALSE /\ stopped' = TRUE
    BY <1>7 DEF Reader, ReaderEnds, ReadsInitialized, ReadsSet, threads
  <2>2. QED
    BY <2>1, GoesOnUntold DEF outcome, flags
<1>8. CASE Heart
  <2>1. /\ UNCHANGED <<setup, pc, outcome, fifo, host, reader>> /\ heart
        /\ (UNCHANGED flags \/ ~running \/ fifo = "gone")
    BY <1>8 DEF Heart, HeartBeats, HeartStops, threads
  <2>2. QED
    BY <2>1, GoesOnUntold DEF outcome, flags
<1>9. CASE Hopper
  <2>1. UNCHANGED <<setup, pc, outcome, fifo, host, reader, heart, flags>>
    BY <1>9 DEF Hopper, Hops, HopStops, threads
  <2>2. QED
    BY <2>1, GoesOnUntold DEF outcome, flags
<1>10. CASE Host
  <2>1. /\ UNCHANGED <<setup, pc, outcome, threads, flags>>
        /\ \/ UNCHANGED <<host, fifo>>
           \/ /\ pc # "exited" /\ host' = "gone"
              /\ fifo' = IF fifo = "open" THEN "gone" ELSE fifo
    BY <1>10 DEF Host, HostInitializes, HostSets, HostGoes
  <2>2. QED
    BY <2>1, GoesOnUntold DEF outcome, threads, flags
<1>11. CASE Done \/ UNCHANGED vars
  <2>1. UNCHANGED <<setup, pc, outcome, fifo, host, threads, flags>>
    BY <1>11 DEF Done, vars
  <2>2. QED
    BY <2>1, GoesOnUntold DEF outcome, threads, flags
<1>12. QED
  BY <1>1, <1>2, <1>3, <1>4, <1>5, <1>6, <1>7, <1>8, <1>9, <1>10, <1>11
     DEF Next, Starts, Pipes

(***************************************************************************)
(* How the capture ended is told by its exit code: main and do_capture     *)
(* end with 1 only where something went wrong (the board failed, an option *)
(* was not one of those offered, a file it names is not there, the dataset *)
(* is not one, or Wireshark had gone before a pipe was opened), with 0     *)
(* only where it went after, which ended the capture, and                  *)
(* the capture pipe is not opened before the files are found.  For any     *)
(* boards plugged in: whatever the dialog offers, main accepts and the     *)
(* session opens on.                                                       *)
(***************************************************************************)
THEOREM EndIsTold == Spec => []ExitTellsWhy
<1>1. EndInv => ExitTellsWhy
  BY DEF EndInv
<1>2. QED
  BY <1>1, EndStarts, EndKept, PTL DEF Spec

-----------------------------------------------------------------------------
(* The notes of the session *)

\* Text n is in one place of h, and there once.
OnceAt(h, n, q, k) ==
  /\ k \in DOMAIN h[q] /\ h[q][k] = n
  /\ \A r \in Places : \A j \in DOMAIN h[r] : h[r][j] = n => r = q /\ j = k
Once(h, n) == \E q \in Places : \E k \in DOMAIN h[q] : OnceAt(h, n, q, k)

\* What can be said, and what the places can hold of it.
Said == LogTexts \cup Range(Notes)
Texts == [Places -> Seq(Said)]

LEMMA IsOnce ==
  ASSUME NEW h, NEW n, NEW q \in Places, NEW k, OnceAt(h, n, q, k)
  PROVE  Once(h, n)
BY DEF Once, OnceAt

\* The first text of a is taken to the end of b.
LEMMA MovedOnce ==
  ASSUME NEW h \in Texts, NEW g \in Texts, NEW n, Once(h, n),
         NEW a \in Places, NEW b \in Places, a # b, h[a] # <<>>,
         g[a] = Tail(h[a]), g[b] = Append(h[b], Head(h[a])),
         \A q \in Places \ {a, b} : g[q] = h[q]
  PROVE  Once(g, n)
<1>1. PICK q, k :
        /\ q \in Places /\ k \in DOMAIN h[q] /\ h[q][k] = n
        /\ \A r \in Places : \A j \in DOMAIN h[r] : h[r][j] = n => r = q /\ j = k
  BY DEF Once, OnceAt
<1>2. /\ h[a] \in Seq(Said) /\ h[b] \in Seq(Said)
      /\ \A r \in Places : h[r] \in Seq(Said)
  BY DEF Texts
<1>3. /\ \A j \in DOMAIN g[a] : j + 1 \in DOMAIN h[a] /\ g[a][j] = h[a][j + 1]
      /\ \A j \in DOMAIN h[a] : j # 1 => j - 1 \in DOMAIN g[a] /\ g[a][j - 1] = h[a][j]
  BY <1>2
<1>4. /\ \A j \in DOMAIN g[b] : IF j = Len(h[b]) + 1 THEN g[b][j] = h[a][1]
                                ELSE j \in DOMAIN h[b] /\ g[b][j] = h[b][j]
      /\ \A j \in DOMAIN h[b] : j \in DOMAIN g[b] /\ g[b][j] = h[b][j] /\ j # Len(h[b]) + 1
      /\ Len(h[b]) + 1 \in DOMAIN g[b] /\ g[b][Len(h[b]) + 1] = h[a][1]
      /\ 1 \in DOMAIN h[a]
  BY <1>2
<1>5. CASE q = a /\ k = 1
  <2>1. g[b][Len(h[b]) + 1] = n /\ Len(h[b]) + 1 \in DOMAIN g[b]
    BY <1>1, <1>4, <1>5
  <2>2. \A j \in DOMAIN g[b] : g[b][j] = n => j = Len(h[b]) + 1
    BY <1>1, <1>4, <1>5
  <2>3. \A j \in DOMAIN g[a] : g[a][j] # n
    BY <1>1, <1>2, <1>3, <1>5
  <2>4. \A r \in Places \ {a, b} : \A j \in DOMAIN g[r] : g[r][j] # n
    BY <1>1, <1>5
  <2>5. PICK m : m = Len(h[b]) + 1
    OBVIOUS
  <2>6. m \in DOMAIN g[b] /\ g[b][m] = n
    BY <2>1, <2>5
  <2>7. \A r \in Places : \A j \in DOMAIN g[r] : g[r][j] = n => r = b /\ j = m
    BY <2>2, <2>3, <2>4, <2>5
  <2>8. OnceAt(g, n, b, m)
    BY <2>6, <2>7 DEF OnceAt
  <2>9. QED
    BY <1>1, <2>8, IsOnce
<1>6. CASE q = a /\ k # 1
  <2>1. k - 1 \in DOMAIN g[a] /\ g[a][k - 1] = n /\ k \in Int
    BY <1>1, <1>2, <1>3, <1>6
  <2>2. \A j \in DOMAIN g[a] : g[a][j] = n => j = k - 1
    BY <1>1, <1>3, <1>6, <2>1
  <2>3. \A j \in DOMAIN g[b] : g[b][j] # n
    BY <1>1, <1>4, <1>6
  <2>4. \A r \in Places \ {a, b} : \A j \in DOMAIN g[r] : g[r][j] # n
    BY <1>1, <1>6
  <2>5. PICK m : m = k - 1
    OBVIOUS
  <2>6. m \in DOMAIN g[a] /\ g[a][m] = n
    BY <2>1, <2>5
  <2>7. \A r \in Places : \A j \in DOMAIN g[r] : g[r][j] = n => r = a /\ j = m
    BY <2>2, <2>3, <2>4, <2>5
  <2>8. OnceAt(g, n, a, m)
    BY <2>6, <2>7 DEF OnceAt
  <2>9. QED
    BY <1>1, <2>8, IsOnce
<1>7. CASE q # a
  <2>1. k \in DOMAIN g[q] /\ g[q][k] = n
    BY <1>1, <1>4, <1>7
  <2>2. \A j \in DOMAIN g[a] : g[a][j] # n
    BY <1>1, <1>3, <1>7
  <2>3. \A j \in DOMAIN g[b] : g[b][j] = n => b = q /\ j = k
    BY <1>1, <1>4, <1>7
  <2>4. \A r \in Places \ {a, b} : \A j \in DOMAIN g[r] : g[r][j] = n => r = q /\ j = k
    BY <1>1
  <2>5. \A r \in Places : \A j \in DOMAIN g[r] : g[r][j] = n => r = q /\ j = k
    BY <2>2, <2>3, <2>4
  <2>6. OnceAt(g, n, q, k)
    BY <1>1, <2>1, <2>5 DEF OnceAt
  <2>7. QED
    BY <1>1, <2>6, IsOnce
<1>8. QED
  BY <1>5, <1>6, <1>7

\* The first text of a, another one, is taken away.
LEMMA OtherTaken ==
  ASSUME NEW h \in Texts, NEW g \in Texts, NEW n, Once(h, n),
         NEW a \in Places, h[a] # <<>>, g[a] = Tail(h[a]), Head(h[a]) # n,
         \A q \in Places \ {a} : g[q] = h[q]
  PROVE  Once(g, n)
<1>1. PICK q, k :
        /\ q \in Places /\ k \in DOMAIN h[q] /\ h[q][k] = n
        /\ \A r \in Places : \A j \in DOMAIN h[r] : h[r][j] = n => r = q /\ j = k
  BY DEF Once, OnceAt
<1>2. h[a] \in Seq(Said)
  BY DEF Texts
<1>3. /\ \A j \in DOMAIN g[a] : j + 1 \in DOMAIN h[a] /\ g[a][j] = h[a][j + 1]
      /\ \A j \in DOMAIN h[a] : j # 1 => j - 1 \in DOMAIN g[a] /\ g[a][j - 1] = h[a][j]
      /\ h[a][1] # n /\ \A j \in DOMAIN h[a] : j \in Nat
  BY <1>2
<1>4. CASE q = a
  <2>1. k - 1 \in DOMAIN g[a] /\ g[a][k - 1] = n /\ k \in Nat
    BY <1>1, <1>3, <1>4
  <2>2. \A j \in DOMAIN g[a] : g[a][j] = n => j = k - 1
    BY <1>1, <1>3, <1>4, <2>1
  <2>3. \A r \in Places \ {a} : \A j \in DOMAIN g[r] : g[r][j] # n
    BY <1>1, <1>4
  <2>4. PICK m : m = k - 1
    OBVIOUS
  <2>5. m \in DOMAIN g[a] /\ g[a][m] = n
    BY <2>1, <2>4
  <2>6. \A r \in Places : \A j \in DOMAIN g[r] : g[r][j] = n => r = a /\ j = m
    BY <2>2, <2>3, <2>4
  <2>7. OnceAt(g, n, a, m)
    BY <2>5, <2>6 DEF OnceAt
  <2>8. QED
    BY <1>1, <2>7, IsOnce
<1>5. CASE q # a
  <2>1. k \in DOMAIN g[q] /\ g[q][k] = n
    BY <1>1, <1>5
  <2>2. \A j \in DOMAIN g[a] : g[a][j] # n
    BY <1>1, <1>3, <1>5
  <2>3. \A r \in Places \ {a} : \A j \in DOMAIN g[r] : g[r][j] = n => r = q /\ j = k
    BY <1>1
  <2>4. \A r \in Places : \A j \in DOMAIN g[r] : g[r][j] = n => r = q /\ j = k
    BY <2>2, <2>3
  <2>5. OnceAt(g, n, q, k)
    BY <1>1, <2>1, <2>4 DEF OnceAt
  <2>6. QED
    BY <1>1, <2>5, IsOnce
<1>6. QED
  BY <1>4, <1>5

\* A thread with nothing to say is given other texts.
LEMMA OtherSaid ==
  ASSUME NEW h \in Texts, NEW g \in Texts, NEW n, Once(h, n),
         NEW a \in Places, h[a] = <<>>, \A j \in DOMAIN g[a] : g[a][j] # n,
         \A q \in Places \ {a} : g[q] = h[q]
  PROVE  Once(g, n)
<1>1. PICK q, k :
        /\ q \in Places /\ k \in DOMAIN h[q] /\ h[q][k] = n
        /\ \A r \in Places : \A j \in DOMAIN h[r] : h[r][j] = n => r = q /\ j = k
  BY DEF Once, OnceAt
<1>2. q # a
  BY <1>1
<1>3. k \in DOMAIN g[q] /\ g[q][k] = n
  BY <1>1, <1>2
<1>4. \A r \in Places : \A j \in DOMAIN g[r] : g[r][j] = n => r = q /\ j = k
  BY <1>1
<1>5. QED
  BY <1>3, <1>4 DEF Once, OnceAt

\* All the texts of b go, in order, behind another one, to a.
LEMMA AllMoved ==
  ASSUME NEW h \in Texts, NEW g \in Texts, NEW n, Once(h, n), NEW x \in Said, x # n,
         NEW a \in Places, NEW b \in Places, a # b, h[a] = <<>>,
         g[a] = <<x>> \o h[b], g[b] = <<>>,
         \A q \in Places \ {a, b} : g[q] = h[q]
  PROVE  Once(g, n)
<1>1. PICK q, k :
        /\ q \in Places /\ k \in DOMAIN h[q] /\ h[q][k] = n
        /\ \A r \in Places : \A j \in DOMAIN h[r] : h[r][j] = n => r = q /\ j = k
  BY DEF Once, OnceAt
<1>2. h[b] \in Seq(Said)
  BY DEF Texts
<1>3. /\ \A j \in DOMAIN g[a] : j \in Nat /\ (j # 1 => j - 1 \in DOMAIN h[b] /\ g[a][j] = h[b][j - 1])
      /\ g[a][1] = x
      /\ \A j \in DOMAIN h[b] : j \in Nat /\ j + 1 \in DOMAIN g[a] /\ g[a][j + 1] = h[b][j]
  BY <1>2
<1>4. q # a
  BY <1>1
<1>5. CASE q = b
  <2>1. k + 1 \in DOMAIN g[a] /\ g[a][k + 1] = n /\ k \in Nat
    BY <1>1, <1>3, <1>5
  <2>2. ASSUME NEW j \in DOMAIN g[a], g[a][j] = n PROVE j = k + 1
    <3>1. j # 1 /\ j \in Nat
      BY <1>3, <2>2
    <3>2. j - 1 \in DOMAIN h[b] /\ h[b][j - 1] = n
      BY <1>3, <2>2, <3>1
    <3>3. QED
      BY <1>1, <3>1, <3>2, <2>1
  <2>3. \A r \in Places \ {a} : \A j \in DOMAIN g[r] : g[r][j] # n
    BY <1>1, <1>5
  <2>4. PICK m : m = k + 1
    OBVIOUS
  <2>5. m \in DOMAIN g[a] /\ g[a][m] = n
    BY <2>1, <2>4
  <2>6. \A r \in Places : \A j \in DOMAIN g[r] : g[r][j] = n => r = a /\ j = m
    BY <2>2, <2>3, <2>4
  <2>7. OnceAt(g, n, a, m)
    BY <2>5, <2>6 DEF OnceAt
  <2>8. QED
    BY <1>1, <2>7, IsOnce
<1>6. CASE q # b
  <2>1. k \in DOMAIN g[q] /\ g[q][k] = n
    BY <1>1, <1>4, <1>6
  <2>2. ASSUME NEW j \in DOMAIN g[a], g[a][j] = n PROVE FALSE
    <3>1. j # 1 /\ j \in Nat
      BY <1>3, <2>2
    <3>2. j - 1 \in DOMAIN h[b] /\ h[b][j - 1] = n
      BY <1>3, <2>2, <3>1
    <3>3. QED
      BY <1>1, <1>6, <3>2
  <2>3. \A r \in Places \ {a} : \A j \in DOMAIN g[r] : g[r][j] = n => r = q /\ j = k
    BY <1>1
  <2>4. \A r \in Places : \A j \in DOMAIN g[r] : g[r][j] = n => r = q /\ j = k
    BY <2>2, <2>3
  <2>5. OnceAt(g, n, q, k)
    BY <1>1, <2>1, <2>4 DEF OnceAt
  <2>6. QED
    BY <1>1, <2>5, IsOnce
<1>7. QED
  BY <1>5, <1>6

\* A text that is in one place once is found once.
LEMMA OnceFound ==
  ASSUME NEW n, Once(Held, n)
  PROVE  Cardinality(Found(n)) = 1
<1>1. PICK q, k :
        /\ q \in Places /\ k \in DOMAIN Held[q] /\ Held[q][k] = n
        /\ \A r \in Places : \A j \in DOMAIN Held[r] : Held[r][j] = n => r = q /\ j = k
  BY DEF Once, OnceAt
<1>2. Found(n) = {<<q, k>>}
  BY <1>1 DEF Found
<1>3. QED
  BY <1>2, FS_Singleton

SaidLines == [text : Said, popup : BOOLEAN]
Named(lns) == lns \in Seq(SaidLines)

NotesTypes ==
  /\ shown \in Seq(Said)
  /\ early \in Seq(Range(Notes)) /\ toSay \in Seq(Range(Notes))
  /\ say \in [Threads -> Seq(SaidLines)]

\* Before the session has opened, none of its notes is kept back.
Unheld == Stages \ {"notes", "loop", "finally", "exited"}

\* Every note is in one place, in one copy: written, kept, yet to be said, or
\* a line of one of the threads.
NotesInv ==
  /\ pc \in Stages
  /\ NotesTypes
  /\ left \in [Threads -> 0 .. 4]
  /\ \A t \in Threads : left[t] > 0 => ~Quiet(t)
  /\ pc # "exited" => /\ \A n \in Range(Notes) : Once(Held, n)
                      /\ initialized => early = <<>>
  /\ pc \in Unheld => early = <<>>

HeldParts ==
  /\ Held["shown"] = shown /\ Held["early"] = early /\ Held["toSay"] = toSay
  /\ \A t \in Threads : Held[t] = [k \in DOMAIN say[t] |-> say[t][k].text]

LEMMA HeldIs == HeldParts
<1>1. \A t \in Threads : t \notin {"shown", "early", "toSay"}
  BY DEF Threads
<1>2. QED
  BY <1>1 DEF Held, Places, HeldParts

LEMMA HeldWillBe == HeldParts'
BY HeldIs, PTL

LEMMA LogsAreSaid ==
  /\ \A x \in Said : /\ Line(x) \in SaidLines /\ Line(x).text = x
                     /\ Popup(x) \in SaidLines /\ Popup(x).text = x
  /\ LogTexts \subseteq Said
  /\ {"started", "not applied", "retuning", "status", "done", "silent", "finding",
      "warning", "report"} \subseteq LogTexts
  BY DEF Said, SaidLines, Line, Popup, LogTexts

LEMMA NotesAreNoLines ==
  ASSUME NEW n \in Range(Notes)
  PROVE  n \notin LogTexts
<1>1. \A k \in DOMAIN Notes : Notes[k] \notin LogTexts
  BY NotesAreDistinct
<1>2. QED
  BY <1>1 DEF Range

LEMMA NotesAreASequence == Notes \in Seq(Range(Notes)) /\ Range(Notes) \subseteq Said
<1>1. /\ DOMAIN Notes = 1 .. Len(Notes) /\ Len(Notes) \in Nat
      /\ Notes = [k \in DOMAIN Notes |-> Notes[k]]
  BY NotesAreDistinct
<1>2. \A k \in DOMAIN Notes : Notes[k] \in Range(Notes)
  BY DEF Range
<1>3. QED
  BY <1>1, <1>2 DEF Said

LEMMA NotesSaid == ASSUME NEW s \in Seq(Range(Notes)) PROVE s \in Seq(Said)
<1>1. Range(Notes) \subseteq Said
  BY DEF Said
<1>2. QED
  BY <1>1

\* The texts of some lines.
LEMMA TextsOf ==
  ASSUME NEW lns, Named(lns), NEW texts, texts = [k \in DOMAIN lns |-> lns[k].text]
  PROVE  /\ texts \in Seq(Said) /\ Len(texts) = Len(lns)
         /\ lns = <<>> => texts = <<>>
         /\ lns # <<>> => /\ texts # <<>> /\ Head(texts) = Head(lns).text
                          /\ Tail(texts) = [k \in DOMAIN Tail(lns) |-> Tail(lns)[k].text]
<1>1. lns \in Seq(SaidLines)
  BY DEF Named
<1>2. \A k \in 1 .. Len(lns) : lns[k].text \in Said
  <2>1. \A k \in 1 .. Len(lns) : lns[k] \in SaidLines
    BY <1>1
  <2>2. QED
    BY <2>1 DEF SaidLines
<1>3. DOMAIN lns = 1 .. Len(lns) /\ Len(lns) \in Nat
  BY <1>1
<1>4. texts \in Seq(Said) /\ Len(texts) = Len(lns)
  BY <1>2, <1>3
<1>5. ASSUME lns = <<>> PROVE texts = <<>>
  BY <1>4, <1>5
<1>6. ASSUME lns # <<>>
      PROVE  /\ texts # <<>> /\ Head(texts) = Head(lns).text
             /\ Tail(texts) = [k \in DOMAIN Tail(lns) |-> Tail(lns)[k].text]
  <2>1. Len(lns) > 0
    BY <1>1, <1>6
  <2>2. texts # <<>> /\ Head(texts) = texts[1]
    BY <1>4, <2>1
  <2>3. Head(lns) = lns[1] /\ texts[1] = lns[1].text
    BY <1>1, <1>3, <2>1
  <2>4. /\ Tail(texts) \in Seq(Said) /\ Len(Tail(texts)) = Len(lns) - 1
        /\ \A k \in 1 .. Len(lns) - 1 : Tail(texts)[k] = texts[k + 1]
    BY <1>4, <2>1, <2>2
  <2>5. /\ Tail(lns) \in Seq(SaidLines) /\ DOMAIN Tail(lns) = 1 .. Len(lns) - 1
        /\ \A k \in 1 .. Len(lns) - 1 : Tail(lns)[k] = lns[k + 1]
    BY <1>1, <1>6, <2>1
  <2>6. \A k \in 1 .. Len(lns) - 1 : texts[k + 1] = lns[k + 1].text
    BY <1>3
  <2>7. \A k \in 1 .. Len(lns) - 1 : Tail(texts)[k] = Tail(lns)[k].text
    BY <2>4, <2>5, <2>6
  <2>8. DOMAIN Tail(texts) = 1 .. Len(lns) - 1
    BY <2>4, <1>3, <2>1
  <2>9. Tail(texts) = [k \in 1 .. Len(lns) - 1 |-> Tail(texts)[k]]
    BY <2>4, <2>8
  <2>10. QED
    BY <2>2, <2>3, <2>5, <2>7, <2>9
<1>7. QED
  BY <1>4, <1>5, <1>6

LEMMA HeldTyped == NotesTypes => Held \in Texts
<1> SUFFICES ASSUME NotesTypes PROVE Held \in Texts
  OBVIOUS
<1>1. \A t \in Threads : Held[t] \in Seq(Said)
  <2>1. ASSUME NEW t \in Threads PROVE Held[t] \in Seq(Said)
    <3>1. Named(say[t])
      BY DEF NotesTypes, Named
    <3>2. Held[t] = [k \in DOMAIN say[t] |-> say[t][k].text]
      BY HeldIs DEF HeldParts
    <3>3. QED
      BY <3>1, <3>2, TextsOf
  <2>2. QED
    BY <2>1
<1>2. \A q \in Places : Held[q] \in Seq(Said)
  <2>1. /\ Held["shown"] \in Seq(Said) /\ Held["early"] \in Seq(Said)
        /\ Held["toSay"] \in Seq(Said)
    BY HeldIs, NotesSaid DEF NotesTypes, HeldParts
  <2>2. QED
    BY <1>1, <2>1 DEF Places
<1>3. Held = [q \in Places |-> Held[q]]
  BY DEF Held
<1>4. QED
  BY <1>2, <1>3 DEF Texts

LEMMA HeldStaysTyped == NotesTypes' => (Held \in Texts)'
BY HeldTyped, PTL

LEMMA NotesStart == Init => NotesInv
<1> SUFFICES ASSUME Init PROVE NotesInv
  OBVIOUS
<1>1. NotesTypes
  BY NotesAreASequence DEF Init, NotesTypes
<1>2. ASSUME NEW n \in Range(Notes) PROVE Once(Held, n)
  <2>1. PICK k \in DOMAIN Notes : Notes[k] = n
    BY DEF Range
  <2>2. Held["toSay"] = Notes /\ \A q \in Places \ {"toSay"} : DOMAIN Held[q] = {}
    <3>1. Held["toSay"] = Notes /\ Held["shown"] = <<>> /\ Held["early"] = <<>>
      BY HeldIs DEF HeldParts, Init
    <3>2. \A t \in Threads : DOMAIN Held[t] = {}
      BY HeldIs DEF HeldParts, Init
    <3>3. QED
      BY <3>1, <3>2 DEF Places
  <2>3. \A j \in DOMAIN Notes : Notes[j] = n => j = k
    BY <2>1, NotesAreDistinct DEF IsInjective
  <2>4. OnceAt(Held, n, "toSay", k)
    BY <2>1, <2>2, <2>3 DEF OnceAt
  <2>5. QED
    BY <2>4, IsOnce DEF Places
<1>3. \A t \in Threads : left[t] = 0
  BY DEF Init
<1>4. QED
  BY <1>1, <1>2, <1>3 DEF Init, NotesInv, Stages

\* A step that says nothing and moves nothing.
LEMMA NothingMoved ==
  ASSUME NotesInv, UNCHANGED <<shown, early, toSay, say>>,
         pc' \in Stages,
         pc = "exited" => pc' = "exited",
         pc' \in Unheld => pc \in Unheld,
         UNCHANGED left \/ \E t \in Threads : TakeLock(t),
         initialized' = initialized \/ pc = "opening"
  PROVE  NotesInv'
<1>1. NotesTypes'
  BY DEF NotesInv, NotesTypes
<1>2. Held' = Held
  BY DEF Held
<1>3. /\ left' \in [Threads -> 0 .. 4]
      /\ \A t \in Threads : left'[t] > 0 => ~Quiet(t)'
  <2>1. CASE UNCHANGED left
    BY <2>1 DEF NotesInv, Quiet
  <2>2. ASSUME NEW t \in Threads, TakeLock(t)
        PROVE  /\ left' \in [Threads -> 0 .. 4]
               /\ \A u \in Threads : left'[u] > 0 => ~Quiet(u)'
    <3>1. PICK n \in {2, 4} : left' = [left EXCEPT ![t] = n] /\ ~Quiet(t)
      BY <2>2 DEF TakeLock
    <3>2. QED
      BY <3>1 DEF NotesInv, Quiet
  <2>3. QED
    BY <2>1, <2>2
<1>4. QED
  BY <1>1, <1>2, <1>3 DEF NotesInv, Unheld, Stages

\* A thread says lines that are not notes.
LEMMA OthersSaid ==
  ASSUME NotesInv, NEW t \in Threads, Quiet(t), NEW lns, Named(lns),
         \A k \in DOMAIN lns : lns[k].text \in LogTexts,
         say' = [say EXCEPT ![t] = lns],
         UNCHANGED <<shown, early, toSay, left, initialized>>,
         pc' = pc \/ (pc # "exited" /\ pc' \in {"loop", "finally"})
  PROVE  NotesInv'
<1>1. NotesTypes'
  BY DEF NotesInv, NotesTypes, Named
<1>2. Held \in Texts /\ Held' \in Texts
  BY <1>1, HeldTyped, HeldStaysTyped DEF NotesInv
<1>3. /\ \A q \in Places \ {t} : Held'[q] = Held[q]
      /\ Held[t] = <<>> /\ Held'[t] = [k \in DOMAIN lns |-> lns[k].text]
  <2>1. say'[t] = lns /\ \A u \in Threads \ {t} : say'[u] = say[u]
    BY DEF NotesInv, NotesTypes
  <2>2. Held'[t] = [k \in DOMAIN lns |-> lns[k].text]
    BY <2>1, HeldWillBe DEF HeldParts
  <2>3. ASSUME NEW u \in Threads \ {t} PROVE Held'[u] = Held[u]
    <3>1. /\ Held[u] = [k \in DOMAIN say[u] |-> say[u][k].text]
          /\ Held'[u] = [k \in DOMAIN say'[u] |-> say'[u][k].text]
      BY HeldIs, HeldWillBe DEF HeldParts
    <3>2. QED
      BY <2>1, <3>1
  <2>4. /\ Held'["shown"] = Held["shown"] /\ Held'["early"] = Held["early"]
        /\ Held'["toSay"] = Held["toSay"]
    BY HeldIs, HeldWillBe DEF HeldParts
  <2>5. Held[t] = <<>>
    <3>1. Named(say[t]) /\ say[t] = <<>>
      BY DEF NotesInv, NotesTypes, Named, Quiet
    <3>2. Held[t] = [k \in DOMAIN say[t] |-> say[t][k].text]
      BY HeldIs DEF HeldParts
    <3>3. QED
      BY <3>1, <3>2, TextsOf
  <2>6. QED
    BY <2>2, <2>3, <2>4, <2>5 DEF Places
<1>4. ASSUME NEW n \in Range(Notes), pc # "exited" PROVE Once(Held', n)
  <2>1. Once(Held, n) /\ n \notin LogTexts
    BY <1>4, NotesAreNoLines DEF NotesInv
  <2>2. \A k \in DOMAIN Held'[t] : Held'[t][k] # n
    BY <1>3, <2>1
  <2>3. t \in Places
    BY DEF Places
  <2>4. QED
    BY <1>2, <1>3, <2>1, <2>2, <2>3, OtherSaid
<1>5. \A u \in Threads : left'[u] > 0 => ~Quiet(u)'
  BY DEF NotesInv, NotesTypes, Quiet
<1>6. QED
  BY <1>1, <1>4, <1>5 DEF NotesInv, Unheld, Stages

\* say_when_ready: said by the main thread, or kept for the reader.
LEMMA NoteSaid ==
  ASSUME NotesInv, SayWhenReady
  PROVE  NotesInv'
<1> DEFINE x == Head(toSay)
           b == IF initialized THEN "main" ELSE "early"
<1>1. /\ pc = "notes" /\ pc' = pc /\ Quiet("main") /\ toSay # <<>>
      /\ toSay' = Tail(toSay) /\ UNCHANGED <<shown, left, initialized>>
      /\ IF initialized THEN say' = [say EXCEPT !["main"] = <<Line(x)>>] /\ early' = early
         ELSE early' = Append(early, x) /\ say' = say
  BY DEF SayWhenReady, toolbar
<1>2. x \in Range(Notes) /\ Tail(toSay) \in Seq(Range(Notes))
  BY <1>1 DEF NotesInv, NotesTypes
<1>3. Named(<<Line(x)>>)
  <2>1. Line(x) \in SaidLines
    BY <1>2, LogsAreSaid DEF Said
  <2>2. QED
    BY <2>1 DEF Named
<1>4. "main" \in Threads /\ "main" \in Places /\ "early" \in Places /\ "toSay" \in Places
  BY DEF Threads, Places
<1> HIDE DEF x
<1>5. NotesTypes'
  <2>1. toSay' \in Seq(Range(Notes)) /\ shown' \in Seq(Said)
    BY <1>1, <1>2 DEF NotesInv, NotesTypes
  <2>2. early' \in Seq(Range(Notes))
    <3>1. early' = early \/ early' = Append(early, x)
      BY <1>1
    <3>2. early \in Seq(Range(Notes))
      BY DEF NotesInv, NotesTypes
    <3> DEFINE S == Range(Notes)
    <3> HIDE DEF S
    <3>3. x \in S /\ early \in Seq(S)
      BY <1>2, <3>2 DEF S
    <3>4. early' \in Seq(S)
      BY <3>1, <3>3
    <3>5. QED
      BY <3>4 DEF S
  <2>3. say' \in [Threads -> Seq(SaidLines)]
    BY <1>1, <1>3 DEF NotesInv, NotesTypes, Named
  <2>4. QED
    BY <2>1, <2>2, <2>3 DEF NotesTypes
<1>6. Held \in Texts /\ Held' \in Texts
  BY <1>5, HeldTyped, HeldStaysTyped DEF NotesInv
<1>7. Held["toSay"] # <<>> /\ Held'["toSay"] = Tail(Held["toSay"]) /\ Head(Held["toSay"]) = x
  BY <1>1, HeldIs, HeldWillBe DEF HeldParts, x
<1>8. /\ Held'[b] = Append(Held[b], x)
      /\ \A q \in Places \ {"toSay", b} : Held'[q] = Held[q]
  <2>1. CASE initialized
    <3>1. say'["main"] = <<Line(x)>> /\ \A u \in Threads \ {"main"} : say'[u] = say[u]
      BY <1>1, <2>1, <1>4 DEF NotesInv, NotesTypes
    <3>2. /\ Held'["shown"] = Held["shown"] /\ Held'["early"] = Held["early"]
      BY <1>1, <2>1, HeldIs, HeldWillBe DEF HeldParts
    <3>3. ASSUME NEW u \in Threads \ {"main"} PROVE Held'[u] = Held[u]
      <4>1. /\ Held[u] = [k \in DOMAIN say[u] |-> say[u][k].text]
            /\ Held'[u] = [k \in DOMAIN say'[u] |-> say'[u][k].text]
        BY HeldIs, HeldWillBe DEF HeldParts
      <4>2. QED
        BY <3>1, <4>1
    <3>4. Held["main"] = <<>> /\ Held'["main"] = <<x>>
      <4>1. Named(say["main"]) /\ say["main"] = <<>>
        BY <1>1, <1>4 DEF NotesInv, NotesTypes, Named, Quiet
      <4>2. Held["main"] = [k \in DOMAIN say["main"] |-> say["main"][k].text]
        BY <1>4, HeldIs DEF HeldParts
      <4>3. Held'["main"] = [k \in DOMAIN <<Line(x)>> |-> <<Line(x)>>[k].text]
        BY <1>4, <3>1, HeldWillBe DEF HeldParts
      <4>4. [k \in DOMAIN <<Line(x)>> |-> <<Line(x)>>[k].text] = <<x>>
        BY DEF Line
      <4>5. QED
        BY <4>1, <4>2, <4>3, <4>4, TextsOf
    <3>5. b = "main"
      BY <2>1
    <3>6. \A q \in Places \ {"toSay", "main"} : Held'[q] = Held[q]
      BY <3>2, <3>3 DEF Places
    <3>7. Append(<<>>, x) = <<x>>
      OBVIOUS
    <3>8. QED
      BY <3>4, <3>5, <3>6, <3>7
  <2>2. CASE ~initialized
    <3>1. Held'["early"] = Append(Held["early"], x) /\ Held'["shown"] = Held["shown"]
      BY <1>1, <2>2, HeldIs, HeldWillBe DEF HeldParts
    <3>2. \A u \in Threads : Held'[u] = Held[u]
      BY <1>1, <2>2, HeldIs, HeldWillBe DEF HeldParts
    <3>3. QED
      BY <2>2, <3>1, <3>2 DEF Places
  <2>3. QED
    BY <2>1, <2>2
<1>9. ASSUME NEW n \in Range(Notes) PROVE Once(Held', n)
  <2>1. Once(Held, n) /\ b \in Places /\ b # "toSay"
    BY <1>1, <1>4 DEF NotesInv
  <2> HIDE DEF b
  <2>2. QED
    BY <1>4, <1>6, <1>7, <1>8, <2>1, MovedOnce
<1>10. /\ \A u \in Threads : left'[u] > 0 => ~Quiet(u)'
       /\ initialized' => early' = <<>>
  BY <1>1, <1>4 DEF NotesInv, NotesTypes, Quiet
<1>11. QED
  BY <1>1, <1>5, <1>9, <1>10 DEF NotesInv, Unheld, Stages

LEMMA OneThen ==
  ASSUME NEW S, NEW x \in S, NEW e \in Seq(S)
  PROVE  /\ <<x>> \o e \in Seq(S) /\ Len(<<x>> \o e) = Len(e) + 1
         /\ (<<x>> \o e)[1] = x
         /\ \A k \in 1 .. Len(e) + 1 : k # 1 => (<<x>> \o e)[k] = e[k - 1]
  OBVIOUS

LEMMA Joined ==
  ASSUME NEW u, NEW v
  PROVE  <<u>> \o <<v>> = <<u, v>> /\ <<>> \o <<v>> = <<v>>
<1>1. PICK s, r : s = <<u>> \o <<v>> /\ r = <<u, v>>
  OBVIOUS
<1>2. s \in Seq({u, v}) /\ Len(s) = 2 /\ s[1] = u /\ s[2] = v
  BY <1>1
<1>3. r \in Seq({u, v}) /\ Len(r) = 2 /\ r[1] = u /\ r[2] = v
  BY <1>1
<1>4. s = r
  BY <1>2, <1>3
<1>5. PICK p, q : p = <<>> \o <<v>> /\ q = <<v>>
  OBVIOUS
<1>6. p \in Seq({v}) /\ Len(p) = 1 /\ p[1] = v
  BY <1>5
<1>7. q \in Seq({v}) /\ Len(q) = 1 /\ q[1] = v
  BY <1>5
<1>8. p = q
  BY <1>6, <1>7
<1>9. QED
  BY <1>1, <1>4, <1>5, <1>8

LEMMA OneLong ==
  ASSUME NEW S, NEW x \in S
  PROVE  <<x>> \in Seq(S) /\ DOMAIN <<x>> = {1} /\ <<x>>[1] = x
<1>1. <<x>> \in Seq(S) /\ Len(<<x>>) = 1 /\ <<x>>[1] = x
  OBVIOUS
<1>2. DOMAIN <<x>> = 1 .. 1
  BY <1>1
<1>3. QED
  BY <1>1, <1>2

\* INITIALIZED: the reader says, in order, what was kept.
LEMMA KeptSaid ==
  ASSUME NotesInv, ReadsInitialized
  PROVE  NotesInv'
<1> DEFINE lns == [i \in DOMAIN early |-> Line(early[i])]
           all == <<Line("started")>> \o lns
<1>1. /\ Quiet("reader") /\ early' = <<>> /\ pc' = pc
      /\ say' = [say EXCEPT !["reader"] = all]
      /\ UNCHANGED <<shown, toSay, left>>
  BY DEF ReadsInitialized
<1>2. "reader" \in Threads /\ "reader" \in Places /\ "early" \in Places
  BY DEF Threads, Places
<1>3. /\ early \in Seq(Said) /\ DOMAIN early = 1 .. Len(early) /\ Len(early) \in Nat
      /\ \A i \in 1 .. Len(early) : early[i] \in Said
  <2>1. early \in Seq(Said)
    BY NotesSaid DEF NotesInv, NotesTypes
  <2>2. QED
    BY <2>1
<1>4. lns \in Seq(SaidLines) /\ Len(lns) = Len(early) /\ Line("started") \in SaidLines
  <2>1. \A i \in 1 .. Len(early) : Line(early[i]) \in SaidLines
    BY <1>3, LogsAreSaid
  <2>2. Line("started") \in SaidLines
    BY LogsAreSaid
  <2>3. lns = [i \in 1 .. Len(early) |-> Line(early[i])]
    BY <1>3
  <2>4. lns \in Seq(SaidLines) /\ Len(lns) = Len(early)
    <3> HIDE DEF lns
    <3>1. lns \in [1 .. Len(early) -> SaidLines]
      BY <2>1, <2>3
    <3>2. QED
      BY <1>3, <3>1
  <2>5. QED
    BY <2>2, <2>4
<1>5. /\ all \in Seq(SaidLines) /\ DOMAIN all = 1 .. Len(early) + 1
      /\ all[1] = Line("started")
      /\ \A k \in 1 .. Len(early) : all[k + 1] = lns[k]
  <2> HIDE DEF lns
  <2>1. all \in Seq(SaidLines) /\ Len(all) = Len(lns) + 1
    BY <1>4
  <2>2. QED
    BY <1>3, <1>4, <2>1
<1>6. NotesTypes'
  BY <1>1, <1>2, <1>5 DEF NotesInv, NotesTypes
<1>7. Held \in Texts /\ Held' \in Texts
  BY <1>6, HeldTyped, HeldStaysTyped DEF NotesInv
<1>8. /\ Held["reader"] = <<>> /\ Held["early"] = early /\ Held'["early"] = <<>>
      /\ Held'["reader"] = <<"started">> \o early
  <2>1. Held["reader"] = <<>>
    <3>1. Named(say["reader"]) /\ say["reader"] = <<>>
      BY <1>1, <1>2 DEF NotesInv, NotesTypes, Named, Quiet
    <3>2. Held["reader"] = [k \in DOMAIN say["reader"] |-> say["reader"][k].text]
      BY <1>2, HeldIs DEF HeldParts
    <3>3. QED
      BY <3>1, <3>2, TextsOf
  <2>2. Held["early"] = early /\ Held'["early"] = <<>>
    BY <1>1, HeldIs, HeldWillBe DEF HeldParts
  <2>3. Held'["reader"] = [k \in 1 .. Len(early) + 1 |-> all[k].text]
    <3>1. say'["reader"] = all
      BY <1>1, <1>2 DEF NotesInv, NotesTypes
    <3>2. Held'["reader"] = [k \in DOMAIN say'["reader"] |-> say'["reader"][k].text]
      BY <1>2, HeldWillBe DEF HeldParts
    <3> HIDE DEF all
    <3>3. QED
      BY <1>5, <3>1, <3>2
  <2>4. \A k \in 1 .. Len(early) + 1 :
          all[k].text = IF k = 1 THEN "started" ELSE early[k - 1]
    <3>1. all[1].text = "started"
      BY <1>5 DEF Line
    <3>2. \A k \in 1 .. Len(early) : lns[k].text = early[k]
      BY <1>3 DEF Line
    <3>3. ASSUME NEW k \in 1 .. Len(early) + 1, k # 1 PROVE all[k].text = early[k - 1]
      <4>1. k - 1 \in 1 .. Len(early) /\ (k - 1) + 1 = k
        BY <1>3, <3>3
      <4> HIDE DEF all, lns
      <4>2. all[k] = lns[k - 1]
        BY <1>5, <4>1
      <4>3. QED
        BY <3>2, <4>1, <4>2
    <3> HIDE DEF all
    <3>4. QED
      BY <3>1, <3>3
  <2>5. /\ <<"started">> \o early \in Seq(Said) /\ Len(<<"started">> \o early) = Len(early) + 1
        /\ (<<"started">> \o early)[1] = "started"
        /\ \A k \in 1 .. Len(early) + 1 : k # 1 => (<<"started">> \o early)[k] = early[k - 1]
    <3>1. "started" \in Said
      BY LogsAreSaid
    <3>2. QED
      BY <1>3, <3>1, OneThen
  <2> HIDE DEF all
  <2>6. <<"started">> \o early = [k \in 1 .. Len(early) + 1 |-> all[k].text]
    <3>1. PICK s : s = <<"started">> \o early
      OBVIOUS
    <3>2. /\ s \in Seq(Said) /\ Len(s) = Len(early) + 1
          /\ \A k \in 1 .. Len(early) + 1 : s[k] = all[k].text
      BY <1>3, <2>4, <2>5, <3>1
    <3>3. s = [k \in 1 .. Len(early) + 1 |-> all[k].text]
      BY <1>3, <3>2
    <3>4. QED
      BY <3>1, <3>3
  <2>7. QED
    BY <2>1, <2>2, <2>3, <2>6
<1>9. \A q \in Places \ {"reader", "early"} : Held'[q] = Held[q]
  <2>1. ASSUME NEW u \in Threads \ {"reader"} PROVE Held'[u] = Held[u]
    <3>1. /\ Held[u] = [k \in DOMAIN say[u] |-> say[u][k].text]
          /\ Held'[u] = [k \in DOMAIN say'[u] |-> say'[u][k].text]
      BY HeldIs, HeldWillBe DEF HeldParts
    <3>2. say'[u] = say[u]
      BY <1>1 DEF NotesInv, NotesTypes
    <3>3. QED
      BY <3>1, <3>2
  <2>2. Held'["shown"] = Held["shown"] /\ Held'["toSay"] = Held["toSay"]
    BY <1>1, HeldIs, HeldWillBe DEF HeldParts
  <2>3. QED
    BY <2>1, <2>2 DEF Places
<1>10. ASSUME NEW n \in Range(Notes), pc # "exited" PROVE Once(Held', n)
  <2>1. Once(Held, n) /\ n # "started"
    BY <1>10, NotesAreNoLines DEF NotesInv, LogTexts
  <2>2. PICK h, g : h = Held /\ g = Held'
    OBVIOUS
  <2>3. /\ h["reader"] = <<>> /\ g["early"] = <<>> /\ g["reader"] = <<"started">> \o h["early"]
        /\ \A q \in Places \ {"reader", "early"} : g[q] = h[q]
    BY <1>8, <1>9, <2>2
  <2>4. Once(g, n)
    <3>1. h \in Texts /\ g \in Texts /\ Once(h, n) /\ "started" \in Said
      BY <1>7, <2>1, <2>2, LogsAreSaid
    <3>2. "reader" # "early"
      OBVIOUS
    <3>3. QED
      BY <1>2, <2>1, <2>3, <3>1, <3>2, AllMoved
  <2>5. QED
    BY <2>2, <2>4
<1>11. \A u \in Threads : left'[u] > 0 => ~Quiet(u)'
  BY <1>1, <1>2 DEF NotesInv, NotesTypes, Quiet
<1>12. QED
  BY <1>1, <1>6, <1>10, <1>11 DEF NotesInv

\* The last raw write of a line: written whole, it is a note or another.
LEMMA LineWritten ==
  ASSUME NotesInv, NEW t \in Threads, ControlWrite(t)
  PROVE  NotesInv'
<1>1. /\ left[t] > 0 /\ left' = [left EXCEPT ![t] = left[t] - 1]
      /\ UNCHANGED <<pc, early, toSay, initialized>>
      /\ IF left[t] = 1
         THEN /\ say' = [say EXCEPT ![t] = Tail(say[t])]
              /\ shown' = IF Head(say[t]).text \in Range(Notes)
                          THEN Append(shown, Head(say[t]).text) ELSE shown
         ELSE UNCHANGED <<say, shown>>
  BY DEF ControlWrite, notes, toolbar, NotesInv
<1>2. /\ left' \in [Threads -> 0 .. 4] /\ say[t] # <<>> /\ left'[t] = left[t] - 1
      /\ \A u \in Threads \ {t} : left'[u] = left[u]
  BY <1>1 DEF NotesInv, Quiet
<1>3. CASE left[t] # 1
  <2>1. NotesTypes'
    BY <1>1, <1>3 DEF NotesInv, NotesTypes
  <2>2. Held' = Held
    BY <1>1, <1>3 DEF Held
  <2>3. \A u \in Threads : left'[u] > 0 => ~Quiet(u)'
    BY <1>1, <1>2, <1>3 DEF NotesInv, Quiet
  <2>4. QED
    BY <1>1, <1>2, <2>1, <2>2, <2>3 DEF NotesInv
<1>4. CASE left[t] = 1
  <2> DEFINE x == Head(say[t]).text
  <2>1. x \in Said /\ Tail(say[t]) \in Seq(SaidLines)
    <3>1. say[t] \in Seq(SaidLines)
      BY DEF NotesInv, NotesTypes
    <3>2. Head(say[t]) \in SaidLines /\ Tail(say[t]) \in Seq(SaidLines)
      <4>1. QED
        BY <1>2, <3>1
    <3>3. QED
      BY <3>2 DEF SaidLines
  <2>2. NotesTypes'
    <3>1. shown' = shown \/ shown' = Append(shown, x)
      BY <1>1, <1>4
    <3>2. shown' \in Seq(Said)
      <4> HIDE DEF x
      <4>1. shown \in Seq(Said)
        BY DEF NotesInv, NotesTypes
      <4>2. QED
        BY <2>1, <3>1, <4>1
    <3>3. say' \in [Threads -> Seq(SaidLines)]
      BY <1>1, <1>4, <2>1 DEF NotesInv, NotesTypes
    <3>4. QED
      BY <1>1, <3>2, <3>3 DEF NotesInv, NotesTypes
  <2>3. Held \in Texts /\ Held' \in Texts
    BY <2>2, HeldTyped, HeldStaysTyped DEF NotesInv
  <2>4. Held[t] # <<>> /\ Head(Held[t]) = x /\ Held'[t] = Tail(Held[t])
    <3>1. Named(say[t]) /\ say[t] # <<>>
      BY <1>2 DEF NotesInv, NotesTypes, Named
    <3>2. Held[t] = [k \in DOMAIN say[t] |-> say[t][k].text]
      BY HeldIs DEF HeldParts
    <3>3. Held'[t] = [k \in DOMAIN Tail(say[t]) |-> Tail(say[t])[k].text]
      <4>1. say'[t] = Tail(say[t])
        BY <1>1, <1>4 DEF NotesInv, NotesTypes
      <4>2. Held'[t] = [k \in DOMAIN say'[t] |-> say'[t][k].text]
        BY HeldWillBe DEF HeldParts
      <4>3. QED
        BY <4>1, <4>2
    <3>4. QED
      BY <3>1, <3>2, <3>3, TextsOf
  <2>5. /\ \A q \in Places \ {t, "shown"} : Held'[q] = Held[q]
        /\ Held["shown"] = shown /\ Held'["shown"] = shown'
    <3>1. ASSUME NEW u \in Threads \ {t} PROVE Held'[u] = Held[u]
      <4>1. /\ Held[u] = [k \in DOMAIN say[u] |-> say[u][k].text]
            /\ Held'[u] = [k \in DOMAIN say'[u] |-> say'[u][k].text]
        BY HeldIs, HeldWillBe DEF HeldParts
      <4>2. say'[u] = say[u]
        BY <1>1, <1>4 DEF NotesInv, NotesTypes
      <4>3. QED
        BY <4>1, <4>2
    <3>2. /\ Held'["early"] = Held["early"] /\ Held'["toSay"] = Held["toSay"]
          /\ Held["shown"] = shown /\ Held'["shown"] = shown'
      BY <1>1, HeldIs, HeldWillBe DEF HeldParts
    <3>3. QED
      BY <3>1, <3>2 DEF Places
  <2>6. t \in Places /\ "shown" \in Places /\ t # "shown"
    BY DEF Places, Threads
  <2> HIDE DEF x
  <2>7. ASSUME NEW n \in Range(Notes), pc # "exited" PROVE Once(Held', n)
    <3>1. Once(Held, n)
      BY <2>7 DEF NotesInv
    <3>2. CASE x \in Range(Notes)
      <4>1. Held'["shown"] = Append(Held["shown"], x)
        BY <1>1, <1>4, <2>5, <3>2 DEF x
      <4>2. QED
        BY <2>3, <2>4, <2>5, <2>6, <3>1, <4>1, MovedOnce
    <3>3. CASE x \notin Range(Notes)
      <4>1. Held'["shown"] = Held["shown"] /\ x # n
        BY <1>1, <1>4, <2>5, <3>3 DEF x
      <4>2. QED
        BY <2>3, <2>4, <2>5, <2>6, <3>1, <4>1, OtherTaken
    <3>4. QED
      BY <3>2, <3>3
  <2>8. \A u \in Threads : left'[u] > 0 => ~Quiet(u)'
    BY <1>1, <1>2, <1>4 DEF NotesInv, NotesTypes, Quiet
  <2>9. QED
    BY <1>1, <1>2, <2>2, <2>7, <2>8 DEF NotesInv
<1>5. QED
  BY <1>3, <1>4

\* The process ends, and nothing more is claimed of what was not written.
LEMMA NotesEnd ==
  ASSUME NotesInv, NEW code, Exits(code)
  PROVE  NotesInv'
<1>1. /\ pc' = "exited" /\ UNCHANGED <<shown, early, toSay>>
      /\ say' = [u \in Threads |-> <<>>] /\ left' = [u \in Threads |-> 0]
  BY DEF Exits, notes
<1>2. NotesTypes'
  BY <1>1 DEF NotesInv, NotesTypes
<1>3. QED
  BY <1>1, <1>2 DEF NotesInv, Unheld, Stages

\* What the threads log.
LEMMA LinesNamed ==
  ASSUME NEW lns \in {<<>>, <<Line("not applied")>>, <<Line("status")>>,
                      <<Line("retuning"), Line("status")>>,
                      <<Line("done")>>, <<Line("silent")>>, <<Popup("finding")>>,
                      <<Line("warning")>>, <<Line("report"), Line("warning")>>}
  PROVE  Named(lns) /\ \A k \in DOMAIN lns : lns[k].text \in LogTexts
<1>1. \A x \in LogTexts : /\ Line(x) \in SaidLines /\ Line(x).text \in LogTexts
                          /\ Popup(x) \in SaidLines /\ Popup(x).text \in LogTexts
  BY LogsAreSaid
<1>2. ASSUME NEW u, u \in SaidLines, u.text \in LogTexts, lns = <<u>>
      PROVE  lns \in Seq(SaidLines) /\ \A k \in DOMAIN lns : lns[k].text \in LogTexts
  <2>1. lns \in Seq(SaidLines) /\ DOMAIN lns = {1} /\ lns[1] = u
    BY <1>2, OneLong
  <2>2. QED
    BY <1>2, <2>1
<1>3. ASSUME NEW u, NEW v, u \in SaidLines, u.text \in LogTexts, v \in SaidLines,
             v.text \in LogTexts, lns = <<u, v>>
      PROVE  lns \in Seq(SaidLines) /\ \A k \in DOMAIN lns : lns[k].text \in LogTexts
  <2>1. lns \in Seq(SaidLines) /\ DOMAIN lns = {1, 2} /\ lns[1] = u /\ lns[2] = v
    BY <1>3
  <2>2. QED
    BY <1>3, <2>1
<1>4. CASE lns \in {<<Line("not applied")>>, <<Line("status")>>, <<Line("done")>>, <<Line("silent")>>,
                    <<Popup("finding")>>, <<Line("warning")>>}
  <2>1. PICK x \in LogTexts : lns = <<Line(x)>> \/ lns = <<Popup(x)>>
    BY <1>4, LogsAreSaid
  <2>2. QED
    BY <1>1, <1>2, <2>1 DEF Named
<1>5. CASE lns \in {<<Line("retuning"), Line("status")>>, <<Line("report"), Line("warning")>>}
  <2>1. PICK x \in LogTexts, y \in LogTexts : lns = <<Line(x), Line(y)>>
    BY <1>5, LogsAreSaid
  <2>2. QED
    BY <1>1, <1>3, <2>1 DEF Named
<1>6. CASE lns = <<>>
  BY <1>6 DEF Named
<1>7. QED
  BY <1>4, <1>5, <1>6

LEMMA NotesKept == NotesInv /\ [Next]_vars => NotesInv'
<1> SUFFICES ASSUME NotesInv, [Next]_vars PROVE NotesInv'
  OBVIOUS
<1>1. ASSUME NEW t \in Threads, TakeLock(t) \/ ControlWrite(t) PROVE NotesInv'
  <2>1. CASE TakeLock(t)
    <3>1. UNCHANGED <<shown, early, toSay, say, pc, initialized>>
      BY <2>1 DEF TakeLock, notes, toolbar
    <3>2. QED
      BY <2>1, <3>1, NothingMoved DEF NotesInv
  <2>2. CASE ControlWrite(t)
    BY <2>2, LineWritten
  <2>3. QED
    BY <1>1, <2>1, <2>2
<1>2. CASE Refuses \/ PipeIsUnmet \/ PipeBroken \/ OpenFails \/ Finally
  BY <1>2, NotesEnd DEF Refuses, PipeIsUnmet, PipeBroken, OpenFails, Finally
<1>10. CASE OpenCapturePipe \/ OpenControls \/ Blocks \/ WriteHeader
  <2>1. /\ UNCHANGED <<shown, early, toSay, say, left, initialized>>
        /\ {pc, pc'} \subseteq Unheld
    BY <1>10 DEF OpenCapturePipe, OpenControls, Blocks, HasNoPeer, WriteHeader,
       notes, control, toolbar, Unheld, Stages
  <2>2. QED
    BY <2>1, NothingMoved DEF Unheld, Stages
<1>3. CASE SessionOpens \/ StartThreads \/ RecordsEnd \/ BoardFails
  <2>1. /\ UNCHANGED <<shown, early, toSay, say, left>>
        /\ \/ pc = "opening" /\ pc' = "notes"
           \/ pc \in {"notes", "loop"} /\ pc' \in {"loop", "finally"} /\ UNCHANGED initialized
    BY <1>3 DEF SessionOpens, StartThreads, RecordsEnd, BoardFails,
       notes, control, toolbar
  <2>2. QED
    BY <2>1, NothingMoved DEF Unheld, Stages
<1>4. CASE Record
  <2>1. PICK lns \in {<<>>, Logged(initialized, <<Popup("finding")>>),
                      Logged(initialized, <<Line("report")>>) \o <<Line("warning")>>} :
          say' = [say EXCEPT !["main"] = lns]
    BY <1>4 DEF Record
  <2>2. Named(lns) /\ \A k \in DOMAIN lns : lns[k].text \in LogTexts
    <3>1. lns \in {<<>>, <<Popup("finding")>>, <<Line("warning")>>,
                   <<Line("report"), Line("warning")>>}
      <4>1. <<>> \o <<Line("warning")>> = <<Line("warning")>>
        BY Joined
      <4>2. <<Line("report")>> \o <<Line("warning")>> = <<Line("report"), Line("warning")>>
        BY Joined
      <4>3. QED
        BY <4>1, <4>2 DEF Logged
    <3>2. QED
      BY <3>1, LinesNamed
  <2>3. /\ Quiet("main") /\ UNCHANGED <<shown, early, toSay, left, initialized>>
        /\ pc = "loop" /\ pc' \in {"loop", "finally"}
    BY <1>4 DEF Record, notes, toolbar
  <2>4. QED
    BY <2>1, <2>2, <2>3, OthersSaid DEF Threads
<1>5. CASE ReadsSet
  <2>1. PICK lns \in {<<>>, <<Line("not applied")>>, <<Line("status")>>,
                      <<Line("retuning"), Line("status")>>, <<Line("done")>>} :
          say' = [say EXCEPT !["reader"] = lns]
    <3>1. /\ <<Line("retuning")>> \o <<Line("status")>>
               = <<Line("retuning"), Line("status")>>
          /\ <<>> \o <<Line("status")>> = <<Line("status")>>
      BY Joined
    <3>2. QED
      BY <1>5, <3>1 DEF ReadsSet, Logged
  <2>2. Named(lns) /\ \A k \in DOMAIN lns : lns[k].text \in LogTexts
    BY <2>1, LinesNamed
  <2>3. Quiet("reader") /\ UNCHANGED <<shown, early, toSay, left, initialized, pc>>
    BY <1>5 DEF ReadsSet, notes
  <2>4. QED
    BY <2>1, <2>2, <2>3, OthersSaid DEF Threads
<1>9. CASE HeartBeats
  <2>1. PICK lns \in {<<>>, <<Line("silent")>>} : say' = [say EXCEPT !["heart"] = lns]
    BY <1>9 DEF HeartBeats, Logged
  <2>2. Named(lns) /\ \A k \in DOMAIN lns : lns[k].text \in LogTexts
    BY <2>1, LinesNamed
  <2>3. Quiet("heart") /\ UNCHANGED <<shown, early, toSay, left, initialized, pc>>
    BY <1>9 DEF HeartBeats, notes, toolbar
  <2>4. QED
    BY <2>1, <2>2, <2>3, OthersSaid DEF Threads
<1>6. CASE SayWhenReady \/ ReadsInitialized
  BY <1>6, NoteSaid, KeptSaid
<1>7. CASE ReaderEnds \/ HeartStops \/ Hopper \/ Host \/ Done \/ UNCHANGED vars
  <2>1. UNCHANGED <<shown, early, toSay, say, left, pc, initialized>>
    BY <1>7 DEF ReaderEnds, HeartStops, Hopper, Hops, HopStops, Host, HostInitializes,
       HostSets, HostGoes, Done, vars, notes, control, toolbar
  <2>2. QED
    BY <2>1, NothingMoved DEF NotesInv
<1>8. QED
  BY <1>1, <1>2, <1>3, <1>4, <1>5, <1>6, <1>7, <1>9, <1>10
     DEF Next, Writes, Starts, Pipes, Reader, Heart

(***************************************************************************)
(* What say_when_ready is given is said once: for any notes that are not   *)
(* log lines, and whenever Wireshark's INITIALIZED comes between its look  *)
(* at the flag and the reader's, each note is in one place, in one copy,   *)
(* until the process ends; and nothing is kept back once it has come.      *)
(***************************************************************************)
THEOREM NotesAreSaidOnce == Spec => []NotesSaidOnce
<1>1. NotesInv => NotesSaidOnce
  BY OnceFound DEF NotesInv, NotesSaidOnce
<1>2. QED
  BY <1>1, NotesStart, NotesKept, PTL DEF Spec

=============================================================================
