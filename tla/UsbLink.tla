------------------------------ MODULE UsbLink -------------------------------
(***************************************************************************)
(* The link from the board to the host, and the loss accounting that spans *)
(* it: the radio's receive queue, the sender tasks that share link_send's  *)
(* mutex and sequence counter, the byte ring, the transmit task that       *)
(* drains it or gives a wedged chunk up, the once-a-second statistics      *)
(* frame, and on the host the SequenceTracker and CaptureStats that decide *)
(* whether a capture was lossless.                                         *)
(*                                                                         *)
(* Frames stand for their bytes.  Lengths are left out, except that a      *)
(* frame of some size may not fit where a smaller one would, and a frame   *)
(* any byte of which is discarded is lost whole: the host's parser never   *)
(* passes on a damaged frame.                                              *)
(***************************************************************************)
EXTENDS Integers, Sequences, FiniteSets

CONSTANTS
  Rx,        \* the radio's rx_task, which sends packets
  Main,      \* the main loop, which sends statistics
  Others,    \* control replies, log lines, scan records
  Nobody,    \* the free mutex
  SeqMod,    \* how many sequence numbers there are: 65536 in the code
  QueueLen,  \* the radio's queue, 32 or 24 entries in the code
  RingCap,   \* how many of the smallest frames the ring holds
  ChunkCap,  \* how many frames one drain of the ring may take
  PipeCap,   \* how much the USB driver and the host's port buffer hold
  MaxDrops,  \* bound on packets refused by the radio's queue
  MaxNumber  \* bound on frames numbered

Senders == {Rx, Main} \cup Others

ASSUME SendersDiffer == Rx # Main /\ Nobody \notin Senders
ASSUME Sizes ==
  /\ SeqMod \in Nat \ {0}
  /\ {QueueLen, RingCap, ChunkCap, PipeCap, MaxDrops, MaxNumber} \subseteq Nat

VARIABLES
  counting,  \* the host has called _start_counting, and started the radio
  rxq,       \* packets in the radio's queue
  isrFull,   \* isr_queue_full
  rejected,  \* link_rejected
  lock,      \* the holder of s_send_lock
  pc,        \* where each sender is in link_send
  num,       \* the sequence number each sender holds, 0 if none
  snap,      \* the counters the main loop has copied for its frame
  next,      \* s_seq, not reduced to sixteen bits
  ringFull,  \* frames_dropped_ringfull
  ring, chunk, pipe,  \* frames queued, being drained, and sent but unread
  last, gaps,         \* SequenceTracker's _last, and stats.sequence_gaps
  host,               \* the counters of the newest statistics frame read
  newest, first, seen, refused, lost, statsAt, overrun  \* history only

board == <<rxq, isrFull, rejected, lock, pc, num, snap, next, ringFull>>
wire == <<ring, chunk, pipe>>
tracker == <<counting, last, gaps, host>>
history == <<newest, first, seen, refused, lost, statsAt, overrun>>
vars == <<board, wire, tracker, history>>

NoSeq == -1
Zeros == [isr |-> 0, rej |-> 0, full |-> 0]

Init ==
  /\ counting = FALSE
  /\ rxq = 0 /\ isrFull = 0 /\ rejected = 0
  /\ lock = Nobody
  /\ pc = [s \in Senders |-> "idle"]
  /\ num = [s \in Senders |-> 0]
  /\ snap = Zeros
  /\ next = 0 /\ ringFull = 0
  /\ ring = <<>> /\ chunk = <<>> /\ pipe = <<>>
  /\ last = NoSeq /\ gaps = 0 /\ host = Zeros
  /\ newest = NoSeq /\ first = NoSeq /\ statsAt = NoSeq
  /\ seen = {} /\ refused = {} /\ lost = {}
  /\ overrun = FALSE

-----------------------------------------------------------------------------
(* The senders.                                                            *)

\* Senders that will take a number but have not yet: with them, the bound on
\* numbers never leaves a sender stuck half way.
Unnumbered == {s \in Senders : pc[s] \in {"reading", "waiting", "locked"}}
Budget == next + Cardinality(Unnumbered) < MaxNumber

Goto(s, where) == pc' = [pc EXCEPT ![s] = where]

MutexIgnored == TRUE                \* mutant: the scratch buffer is unguarded
MutexFree == lock = Nobody

MutexKept == UNCHANGED lock         \* mutant: a missing xSemaphoreGive
GiveMutex == lock' = Nobody

NoNumberUsed == next                \* mutant: giving up leaves no gap
NumberUsedUp == next + 1

\* The receive interrupt queues a packet, or counts it refused.
RadioHears ==
  /\ counting
  /\ \/ /\ rxq < QueueLen
        /\ rxq' = rxq + 1
        /\ UNCHANGED isrFull
     \/ /\ rxq = QueueLen
        /\ isrFull < MaxDrops
        /\ isrFull' = isrFull + 1
        /\ UNCHANGED rxq
  /\ UNCHANGED <<rejected, lock, pc, num, snap, next, ringFull>>
  /\ UNCHANGED <<wire, tracker, history>>

\* rx_task takes a packet from the queue and calls sn_usb_link_send.
RxTake ==
  /\ pc[Rx] = "idle" /\ rxq > 0 /\ Budget
  /\ rxq' = rxq - 1
  /\ Goto(Rx, "waiting")
  /\ UNCHANGED <<isrFull, rejected, lock, num, snap, next, ringFull>>
  /\ UNCHANGED <<wire, tracker, history>>

\* The main loop copies the link's counters, then the radio's: two copies,
\* between which any other task may run.
CopyLinkStats ==
  /\ pc[Main] = "idle" /\ Budget
  /\ snap' = [isr |-> 0, rej |-> 0, full |-> ringFull]
  /\ Goto(Main, "reading")
  /\ UNCHANGED <<rxq, isrFull, rejected, lock, num, next, ringFull>>
  /\ UNCHANGED <<wire, tracker, history>>

CopyRadioStats ==
  /\ pc[Main] = "reading"
  /\ snap' = [isr |-> isrFull, rej |-> rejected, full |-> snap.full]
  /\ Goto(Main, "waiting")
  /\ UNCHANGED <<rxq, isrFull, rejected, lock, num, next, ringFull>>
  /\ UNCHANGED <<wire, tracker, history>>

OtherSends(s) ==
  /\ pc[s] = "idle" /\ Budget
  /\ Goto(s, "waiting")
  /\ UNCHANGED <<rxq, isrFull, rejected, lock, num, snap, next, ringFull>>
  /\ UNCHANGED <<wire, tracker, history>>

Lock(s) ==
  /\ pc[s] = "waiting" /\ MutexFree
  /\ lock' = s
  /\ Goto(s, "locked")
  /\ UNCHANGED <<rxq, isrFull, rejected, num, snap, next, ringFull>>
  /\ UNCHANGED <<wire, tracker, history>>

\* take_seq, under the mutex.
TakeSeq(s) ==
  /\ pc[s] = "locked"
  /\ num' = [num EXCEPT ![s] = next]
  /\ next' = next + 1
  /\ Goto(s, "numbered")
  /\ UNCHANGED <<rxq, isrFull, rejected, lock, snap, ringFull>>
  /\ UNCHANGED <<wire, tracker, history>>

\* The mutex was not free within the sender's wait: a number is used up by a
\* frame that will never be sent.
GiveUp(s) ==
  /\ pc[s] = "waiting" /\ lock # Nobody
  /\ next' = NumberUsedUp
  /\ refused' = refused \cup {next}
  /\ Goto(s, "refused")
  /\ UNCHANGED <<rxq, isrFull, rejected, lock, num, snap, ringFull>>
  /\ UNCHANGED <<wire, tracker, newest, first, seen, lost, statsAt, overrun>>

FrameOf(s) ==
  LET counters == IF s = Main THEN snap ELSE Zeros
  IN  [n |-> num[s], from |-> s,
       isr |-> counters.isr, rej |-> counters.rej, full |-> counters.full]

\* The frame fits: into the ring, and the mutex is given back.
Put(s) ==
  /\ pc[s] = "numbered"
  /\ Len(ring) + Len(chunk) < RingCap
  /\ ring' = Append(ring, FrameOf(s))
  /\ GiveMutex
  /\ num' = [num EXCEPT ![s] = 0]
  /\ snap' = IF s = Main THEN Zeros ELSE snap
  /\ Goto(s, "idle")
  /\ UNCHANGED <<rxq, isrFull, rejected, next, ringFull>>
  /\ UNCHANGED <<chunk, pipe, tracker, history>>

\* It does not.  An empty ring has room for any frame; a ring that holds
\* something may refuse a large one.
Refuse(s) ==
  /\ pc[s] = "numbered"
  /\ ring # <<>> \/ chunk # <<>>
  /\ refused' = refused \cup {num[s]}
  /\ GiveMutex
  /\ num' = [num EXCEPT ![s] = 0]
  /\ snap' = IF s = Main THEN Zeros ELSE snap
  /\ Goto(s, "refused")
  /\ UNCHANGED <<rxq, isrFull, rejected, next, ringFull>>
  /\ UNCHANGED <<wire, tracker, newest, first, seen, lost, statsAt, overrun>>

\* Counted after the mutex is given back, so other tasks may run first.
CountRefusal(s) ==
  /\ pc[s] = "refused"
  /\ ringFull' = ringFull + 1
  /\ Goto(s, IF s = Rx THEN "blamed" ELSE "idle")
  /\ UNCHANGED <<rxq, isrFull, rejected, lock, num, snap, next>>
  /\ UNCHANGED <<wire, tracker, history>>

\* rx_task counts the same packet again, as one its radio lost.
CountRejected ==
  /\ pc[Rx] = "blamed"
  /\ rejected' = rejected + 1
  /\ Goto(Rx, "idle")
  /\ UNCHANGED <<rxq, isrFull, lock, num, snap, next, ringFull>>
  /\ UNCHANGED <<wire, tracker, history>>

-----------------------------------------------------------------------------
(* tx_task.                                                                *)

TxTake ==
  /\ chunk = <<>>
  /\ \E k \in 1..Len(ring) :
       /\ k <= ChunkCap
       /\ chunk' = SubSeq(ring, 1, k)
       /\ ring' = SubSeq(ring, k + 1, Len(ring))
  /\ UNCHANGED <<board, pipe, tracker, history>>

WrittenTwice == chunk               \* mutant: the position never advances
AfterWrite == Tail(chunk)

TxWrite ==
  /\ chunk # <<>> /\ Len(pipe) < PipeCap
  /\ pipe' = Append(pipe, Head(chunk))
  /\ chunk' = AfterWrite
  /\ UNCHANGED <<board, ring, tracker, history>>

NeverGivesUp == chunk # <<>> /\ Len(pipe) < PipeCap   \* mutant: no limit
MayGiveUp == chunk # <<>>

\* STALL_LIMIT writes took nothing: what is left of the chunk is discarded.
\* The driver may wedge at any time, and always does with nobody reading.
TxWedge ==
  /\ MayGiveUp
  /\ lost' = lost \cup {chunk[i].n : i \in DOMAIN chunk}
  /\ chunk' = <<>>
  /\ UNCHANGED <<board, ring, pipe, tracker>>
  /\ UNCHANGED <<newest, first, seen, refused, statsAt, overrun>>

-----------------------------------------------------------------------------
(* The host.                                                               *)

\* Mutant: the counter never wraps.
ObserveUnwrapped(before, seq) == IF before = NoSeq THEN 0 ELSE seq - before - 1

\* Mutant: every step is counted as a gap.
ObserveOffByOne(before, seq) ==
  IF before = NoSeq THEN 0 ELSE (seq - before) % SeqMod

\* SequenceTracker.observe: how many numbers lie between two frames.
Observe(before, seq) ==
  IF before = NoSeq THEN 0 ELSE (seq - before - 1) % SeqMod

StartCounting ==
  /\ ~counting
  /\ counting' = TRUE
  /\ last' = NoSeq
  /\ gaps' = 0
  /\ UNCHANGED <<board, wire, host, history>>

\* Frames read while the session is being configured are never counted.
SkipFrame ==
  /\ ~counting /\ pipe # <<>>
  /\ newest' = Head(pipe).n
  /\ pipe' = Tail(pipe)
  /\ UNCHANGED <<board, ring, chunk, tracker>>
  /\ UNCHANGED <<first, seen, refused, lost, statsAt, overrun>>

\* _records_from: the tracker first, then what the frame is.
ReadFrame ==
  /\ counting /\ pipe # <<>>
  /\ LET f == Head(pipe) IN
       /\ gaps' = gaps + Observe(last, f.n % SeqMod)
       /\ last' = f.n % SeqMod
       /\ host' = IF f.from = Main
                  THEN [isr |-> f.isr, rej |-> f.rej, full |-> f.full]
                  ELSE host
       /\ newest' = f.n
       /\ first' = IF first = NoSeq THEN f.n ELSE first
       /\ seen' = seen \cup {f.n}
       /\ statsAt' = IF f.from = Main THEN f.n ELSE statsAt
       /\ overrun' = \/ overrun
                     \/ last # NoSeq /\ f.n - newest > SeqMod
  /\ pipe' = Tail(pipe)
  /\ UNCHANGED <<board, ring, chunk, counting, refused, lost>>

-----------------------------------------------------------------------------
SenderStep(s) ==
  \/ Lock(s) \/ TakeSeq(s) \/ GiveUp(s)
  \/ Put(s) \/ Refuse(s) \/ CountRefusal(s)

TxStep == TxTake \/ TxWrite \/ TxWedge

Next ==
  \/ RadioHears \/ RxTake
  \/ CopyLinkStats \/ CopyRadioStats
  \/ \E s \in Others : OtherSends(s)
  \/ \E s \in Senders : SenderStep(s)
  \/ CountRejected
  \/ TxStep
  \/ StartCounting \/ SkipFrame \/ ReadFrame

Spec == Init /\ [][Next]_vars

\* FreeRTOS runs every ready task in the end: the board's tasks are fair.
\* The radio, the host and the choice to send something need not be.
Fairness ==
  /\ \A s \in Senders : WF_vars(SenderStep(s))
  /\ WF_vars(CopyRadioStats) /\ WF_vars(CountRejected)
  /\ WF_vars(TxStep)

FairSpec == Spec /\ Fairness

-----------------------------------------------------------------------------
(* What is checked.                                                        *)

Held == {num[s] : s \in {t \in Senders : pc[t] = "numbered"}}
Numbers(frames) == {frames[i].n : i \in DOMAIN frames}
InFlight == Numbers(ring) \cup Numbers(chunk) \cup Numbers(pipe)

Frames == [n : Nat, from : Senders, isr : Nat, rej : Nat, full : Nat]
Counters == [isr : Nat, rej : Nat, full : Nat]

(* The types of the variables.                                             *)
TypeOK ==
  /\ counting \in BOOLEAN
  /\ rxq \in Nat /\ isrFull \in Nat /\ rejected \in Nat /\ ringFull \in Nat
  /\ lock \in Senders \cup {Nobody}
  /\ pc \in [Senders -> {"idle", "reading", "waiting", "locked", "numbered",
                         "refused", "blamed"}]
  /\ num \in [Senders -> Nat]
  /\ snap \in Counters /\ host \in Counters
  /\ next \in Nat
  /\ ring \in Seq(Frames) /\ chunk \in Seq(Frames) /\ pipe \in Seq(Frames)
  /\ last \in Int /\ gaps \in Nat
  /\ newest \in Int /\ first \in Int /\ statsAt \in Int
  /\ seen \in SUBSET Nat /\ refused \in SUBSET Nat /\ lost \in SUBSET Nat
  /\ overrun \in BOOLEAN

Ascending(frames) ==
  \A i, j \in DOMAIN frames : i < j => frames[i].n < frames[j].n

Below(older, newer) == \A m \in Numbers(older), n \in Numbers(newer) : m < n

(* take_seq's promise: numbers taken under the mutex go out in increasing  *)
(* order, whatever numbers senders that gave up took in between, so the    *)
(* host never sees a number go back.  A sender that took its number before *)
(* the mutex would break it.                                               *)
InOrder ==
  /\ Ascending(pipe) /\ Ascending(chunk) /\ Ascending(ring)
  /\ Below(pipe, chunk) /\ Below(pipe, ring) /\ Below(chunk, ring)
  /\ \A n \in InFlight, h \in Held : n < h
  /\ \A n \in InFlight \cup Held : newest < n

\* One task at a time between the mutex and the ring.
OneHolder ==
  \A s \in Senders : pc[s] \in {"locked", "numbered"} <=> lock = s

Missing == {n \in (first + 1)..(newest - 1) : n \notin seen}

(* The tracker's total is the number of frames missing between the first   *)
(* and the newest it has read, as long as fewer than a whole turn of the   *)
(* counter went missing at once: for any interleaving of senders, refusals *)
(* and wedges, over the wrap of the counter.                               *)
GapsAreMissing ==
  first # NoSeq /\ ~overrun => gaps = Cardinality(Missing)

\* CaptureStats.packets_dropped, for a board whose refusals leave gaps.
PacketsDropped ==
  LET unexplained == gaps - host.full
  IN  host.isr + host.rej + (IF unexplained > 0 THEN unexplained ELSE 0)

LosslessByBoard == host = Zeros     \* mutant: gaps are not looked at

\* CaptureStats.lossless.
Lossless == gaps = 0 /\ host = Zeros

Settled ==
  /\ \A s \in Senders : pc[s] = "idle"
  /\ ring = <<>> /\ chunk = <<>> /\ pipe = <<>>
  /\ newest = next - 1
  /\ host = [isr |-> isrFull, rej |-> rejected, full |-> ringFull]

LostOnTheWay == {n \in lost : first < n}

(* Each loss once: when the senders are idle and the newest frame of all,  *)
(* read, carries the final counters, packets_dropped is the packets the    *)
(* radio's queue refused, the packets the link refused, and the frames     *)
(* lost on the way, however the three were interleaved.  Refusals from     *)
(* before the first counted frame are left out here; see the note on       *)
(* CountedOnceFromBoot.                                                    *)
LossCountedOnce ==
  first # NoSeq /\ ~overrun /\ Settled /\ (\A n \in refused : first < n)
    => PacketsDropped = isrFull + rejected + Cardinality(LostOnTheWay)

(* packets_dropped's own words, "each counted once", with no such limit:   *)
(* but the board's refusals are counted from boot and the host's gaps from *)
(* _start_counting, so a refusal in between explains away a frame that was *)
(* really lost later.                                                      *)
CountedOnceFromBoot ==
  first # NoSeq /\ ~overrun /\ Settled
    => PacketsDropped = isrFull + rejected + Cardinality(LostOnTheWay)

(* A capture the host calls lossless on reading a statistics frame has     *)
(* every number up to that frame's.  The frame's counters may be older     *)
(* than its number: what was refused in between shows as a gap instead.    *)
LosslessIsTrue ==
  statsAt # NoSeq /\ newest = statsAt /\ Lossless /\ ~overrun
    => first..statsAt \subseteq seen

(* No sender stays in link_send for ever or leaves it with the mutex,      *)
(* even with nobody reading the port: the wait for the mutex ends, and the *)
(* ring refuses rather than blocks.                                        *)
SendersReturn ==
  \A s \in Senders : (pc[s] # "idle") ~> (pc[s] = "idle" /\ lock # s)

(* And the ring empties in the end even then, because a wedged chunk is    *)
(* given up.                                                               *)
RingDrains == []<>(ring = <<>> /\ chunk = <<>>)

(* The link keeps the promise of LossLedger: a number is pending from when *)
(* its sender takes it under the mutex until it is read, refused or        *)
(* discarded.                                                              *)
Ledger == INSTANCE LossLedger WITH
            issued <- next, pending <- Held \cup InFlight
LedgerSpec == Ledger!Spec
=============================================================================
