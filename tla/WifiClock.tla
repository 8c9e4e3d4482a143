------------------------------ MODULE WifiClock ------------------------------
(***************************************************************************)
(* The times the firmware gives to what its Wi-Fi receiver hears: the      *)
(* radio's 32-bit counter, widened packet by packet, and the main loop's   *)
(* watch on a receiver that has gone quiet, which rebuilds the driver and  *)
(* so starts that counter again.                                           *)
(*                                                                         *)
(* Time is in seconds, and the counter wraps after Wrap of them.           *)
(***************************************************************************)
EXTENDS Integers

CONSTANTS Wrap,       \* the range of the radio's counter
          StallLimit, \* silence before the first rebuild, and after it at most
          StallMax,
          MaxSec      \* bound: how long a capture lasts

ASSUME WrapAssumption == Wrap \in Nat \ {0}

VARIABLES
  sec,       \* the time
  since,     \* when the radio's counter started
  last,      \* s_ts_last
  epoch,     \* s_ts_epoch
  running,   \* s_running
  called,    \* a callback since the last look at their count
  stalled,   \* stalled_seconds
  limit,     \* s_stall_limit
  packet,    \* history: the last packet's time, and the stamp it was given
  csi,       \* history: the last CSI record's
  rebuilt    \* history: a rebuild since the last packet

wvars == <<sec, since, last, epoch, running, called, stalled, limit, packet,
           csi, rebuilt>>

Unheard == [at |-> -1, stamp |-> -1]

\* A capture starts with the counter anywhere in its range.
ClockInit(phases) ==
  /\ sec = 0 /\ since \in {-p : p \in phases}
  /\ last = 0 /\ epoch = 0 /\ running = TRUE /\ called = FALSE
  /\ stalled = 0 /\ limit = StallLimit
  /\ packet = Unheard /\ csi = Unheard /\ rebuilt = FALSE

\* rx_ctrl.timestamp
Raw == (sec - since) % Wrap

\* A step back of more than half the range is a wrap; a smaller one is the
\* counter having started again.
Widened == IF last - Raw > Wrap \div 2 THEN epoch + Wrap ELSE epoch

\* promiscuous_cb: a packet, and a frame with nothing to carry, which counts
\* as a callback all the same.
PacketHeard ==
  /\ running
  /\ called' = TRUE
  /\ epoch' = Widened /\ last' = Raw
  /\ packet' = [at |-> sec, stamp |-> Widened + Raw] /\ rebuilt' = FALSE
  /\ UNCHANGED <<sec, since, running, stalled, limit, csi>>

MiscHeard ==
  /\ running
  /\ called' = TRUE
  /\ UNCHANGED <<sec, since, last, epoch, running, stalled, limit, packet,
                 csi, rebuilt>>

\* csi_cb: for any frame it can measure, in the filter or not, before or after
\* promiscuous_cb has seen one.
CsiHeard ==
  /\ running
  /\ csi' = [at |-> sec, stamp |-> epoch + Raw]
  /\ UNCHANGED <<sec, since, last, epoch, running, called, stalled, limit,
                 packet, rebuilt>>

\* What a rebuild carries forward of the time that has passed.
\* mutant: none
NoneCarried == epoch
Carried == epoch + last

\* sn_radio80211_service, once a second: idle, alive, quiet, or stalled.
Second ==
  /\ sec < MaxSec /\ sec' = sec + 1
  /\ called' = FALSE
  /\ \/ /\ ~running
        /\ stalled' = 0
        /\ UNCHANGED <<since, last, epoch, running, limit, rebuilt>>
     \/ /\ running /\ called
        /\ stalled' = 0 /\ limit' = StallLimit
        /\ UNCHANGED <<since, last, epoch, running, rebuilt>>
     \/ /\ running /\ ~called /\ stalled + 1 < limit
        /\ stalled' = stalled + 1
        /\ UNCHANGED <<since, last, epoch, running, limit, rebuilt>>
     \/ /\ running /\ ~called /\ stalled + 1 >= limit
        /\ stalled' = 0 /\ rebuilt' = TRUE
        /\ epoch' = Carried /\ last' = 0
        /\ running' \in BOOLEAN /\ since' = sec + 1
        /\ limit' = IF 2 * limit > StallMax THEN StallMax ELSE 2 * limit
  /\ UNCHANGED <<packet, csi>>

ClockNext == PacketHeard \/ MiscHeard \/ CsiHeard \/ Second

-----------------------------------------------------------------------------
(* The times of packets never go back and never run ahead: between two of  *)
(* them passes the time there was, or less when the driver was rebuilt in  *)
(* between, over any wrap and any number of rebuilds.  Half the range with *)
(* nothing but frames that carry no time is too long: the watch sees a     *)
(* receiver that is alive, and the wrap is missed.                         *)
ClockForward ==
  [][(packet # Unheard /\ packet' # packet) =>
       LET given == packet'.stamp - packet.stamp
           passed == packet'.at - packet.at
       IN  (rebuilt \/ passed < Wrap \div 2) =>
             /\ given \in 0 .. passed
             /\ rebuilt \/ given = passed]_wvars

(* The CSI of a frame has the time a packet heard at that moment would     *)
(* have: they are written beside the capture, sharing its timestamps.      *)
CsiSharesClock ==
  [][csi' # csi => csi'.stamp = Widened + Raw]_wvars

=============================================================================
