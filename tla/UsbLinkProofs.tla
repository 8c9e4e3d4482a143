---------------------------- MODULE UsbLinkProofs ----------------------------
(***************************************************************************)
(* Proofs about the link, for any number of senders, any ring, any bounds  *)
(* and any size of sequence number: the types, the order of the numbers on *)
(* the wire, and that the link implements LossLedger; then that the host's *)
(* account of loss is true: the tracker's gaps are the numbers missing, a  *)
(* capture called lossless has them all, and packets_dropped counts each   *)
(* loss once.                                                              *)
(***************************************************************************)
EXTENDS UsbLink, SequenceTheorems, FiniteSetTheorems, TLAPS

\* What Senders and the size constants are known to be.
LEMMA Known ==
  /\ Rx \in Senders /\ Main \in Senders /\ Rx # Main
  /\ Nobody \notin Senders
  /\ SeqMod \in Nat \ {0}
  /\ \A s \in Others : s \in Senders
  BY SendersDiffer, Sizes DEF Senders

\* A remainder of the sequence arithmetic is a natural number.
LEMMA ObserveInNat == \A before, seq \in Int : Observe(before, seq) \in Nat
  BY Known DEF Observe

-----------------------------------------------------------------------------
(* Types.                                                                  *)

\* The records, so that their sets stay unexpanded below.
LEMMA Records ==
  /\ Zeros \in Counters
  /\ \A i, r, f \in Nat : [isr |-> i, rej |-> r, full |-> f] \in Counters
  /\ \A c \in Counters : c.isr \in Nat /\ c.rej \in Nat /\ c.full \in Nat
  /\ \A f \in Frames : /\ f.n \in Nat /\ f.from \in Senders
                       /\ f.isr \in Nat /\ f.rej \in Nat /\ f.full \in Nat
<1>1. \A i, r, f \in Nat : [isr |-> i, rej |-> r, full |-> f] \in Counters
  BY DEF Counters
<1>2. \A c \in Counters : c.isr \in Nat /\ c.rej \in Nat /\ c.full \in Nat
  BY DEF Counters
<1>3. \A f \in Frames : /\ f.n \in Nat /\ f.from \in Senders
                        /\ f.isr \in Nat /\ f.rej \in Nat /\ f.full \in Nat
  BY DEF Frames
<1>4. QED
  BY <1>1, <1>2, <1>3 DEF Zeros

\* What the operations on sequences do to their type and length.
LEMMA Ends ==
  ASSUME NEW S, NEW q \in Seq(S)
  PROVE  /\ \A e \in S : Append(q, e) \in Seq(S)
         /\ q # <<>> => Head(q) \in S /\ Tail(q) \in Seq(S)
  OBVIOUS

LEMMA Parts ==
  ASSUME NEW S, NEW q \in Seq(S), NEW k \in 1..Len(q)
  PROVE  SubSeq(q, 1, k) \in Seq(S) /\ SubSeq(q, k + 1, Len(q)) \in Seq(S)
<1>1. SubSeq(q, 1, k) \in Seq(S)
  BY SubSeqProperties
<1>2. SubSeq(q, k + 1, Len(q)) \in Seq(S)
  BY SubSeqProperties
<1>3. QED
  BY <1>1, <1>2

LEMMA TypeStep == TypeOK /\ [Next]_vars => TypeOK'
<1> SUFFICES ASSUME TypeOK, [Next]_vars PROVE TypeOK'
  OBVIOUS
<1> USE Known DEF TypeOK
<1>1. CASE RadioHears
  <2>1. rxq' \in Nat /\ isrFull' \in Nat
    BY <1>1 DEF RadioHears
  <2>2. UNCHANGED <<rejected, lock, pc, num, snap, next, ringFull, ring, chunk,
                    pipe, counting, last, gaps, host, newest, first, seen,
                    refused, lost, statsAt, overrun>>
    BY <1>1 DEF RadioHears, wire, tracker, history
  <2>3. QED
    BY <2>1, <2>2
<1>2. CASE RxTake
  BY <1>2 DEF RxTake, Goto, wire, tracker, history
<1>3. CASE CopyLinkStats
  <2>1. snap' \in Counters
    BY <1>3, Records DEF CopyLinkStats
  <2>2. QED
    BY <1>3, <2>1 DEF CopyLinkStats, Goto, wire, tracker, history
<1>4. CASE CopyRadioStats
  <2>1. snap' \in Counters
    BY <1>4, Records DEF CopyRadioStats
  <2>2. QED
    BY <1>4, <2>1 DEF CopyRadioStats, Goto, wire, tracker, history
<1>5. ASSUME NEW s \in Others, OtherSends(s) PROVE TypeOK'
  BY <1>5 DEF OtherSends, Goto, wire, tracker, history
<1>6. ASSUME NEW s \in Senders, Lock(s) PROVE TypeOK'
  BY <1>6 DEF Lock, Goto, wire, tracker, history
<1>7. ASSUME NEW s \in Senders, TakeSeq(s) PROVE TypeOK'
  BY <1>7 DEF TakeSeq, Goto, wire, tracker, history
<1>8. ASSUME NEW s \in Senders, GiveUp(s) PROVE TypeOK'
  <2>1. refused' \in SUBSET Nat
    BY <1>8 DEF GiveUp
  <2>2. QED
    BY <1>8, <2>1 DEF GiveUp, NumberUsedUp, Goto, wire, tracker
<1>9. ASSUME NEW s \in Senders, Put(s) PROVE TypeOK'
  <2>1. FrameOf(s) \in Frames
    <3>1. (IF s = Main THEN snap ELSE Zeros) \in Counters
      BY Records
    <3>2. num[s] \in Nat
      OBVIOUS
    <3>3. QED
      BY <3>1, <3>2, Records DEF FrameOf, Frames
  <2>2. snap' \in Counters
    BY <1>9, Records DEF Put
  <2>3. ring' \in Seq(Frames)
    BY <1>9, <2>1, Ends DEF Put
  <2>4. QED
    BY <1>9, <2>2, <2>3 DEF Put, GiveMutex, Goto, tracker, history
<1>10. ASSUME NEW s \in Senders, Refuse(s) PROVE TypeOK'
  <2>1. snap' \in Counters
    BY <1>10, Records DEF Refuse
  <2>2. refused' \in SUBSET Nat
    BY <1>10 DEF Refuse
  <2>3. QED
    BY <1>10, <2>1, <2>2 DEF Refuse, GiveMutex, Goto, wire, tracker
<1>11. ASSUME NEW s \in Senders, CountRefusal(s) PROVE TypeOK'
  BY <1>11 DEF CountRefusal, Goto, wire, tracker, history
<1>12. CASE CountRejected
  BY <1>12 DEF CountRejected, Goto, wire, tracker, history
<1>13. CASE TxTake
  <2>1. chunk' \in Seq(Frames) /\ ring' \in Seq(Frames)
    BY <1>13, Parts DEF TxTake
  <2>2. QED
    BY <1>13, <2>1 DEF TxTake, board, tracker, history
<1>14. CASE TxWrite
  <2>1. chunk' \in Seq(Frames) /\ pipe' \in Seq(Frames)
    BY <1>14, Ends DEF TxWrite, AfterWrite
  <2>2. QED
    BY <1>14, <2>1 DEF TxWrite, board, tracker, history
<1>15. CASE TxWedge
  <2>1. \A i \in DOMAIN chunk : chunk[i] \in Frames
    OBVIOUS
  <2>2. {chunk[i].n : i \in DOMAIN chunk} \subseteq Nat
    BY <2>1, Records
  <2>3. lost' \in SUBSET Nat /\ chunk' \in Seq(Frames)
    <3> DEFINE discarded == {chunk[i].n : i \in DOMAIN chunk}
    <3>1. lost' = lost \cup discarded /\ chunk' = <<>>
      BY <1>15 DEF TxWedge
    <3>2. discarded \subseteq Nat
      BY <2>2
    <3> HIDE DEF discarded
    <3>3. QED
      BY <3>1, <3>2
  <2>4. QED
    BY <1>15, <2>3 DEF TxWedge, board, tracker
<1>16. CASE StartCounting
  BY <1>16 DEF StartCounting, NoSeq, board, wire, history
<1>17. CASE SkipFrame
  <2>1. pipe' \in Seq(Frames) /\ newest' \in Int
    BY <1>17, Ends, Records DEF SkipFrame
  <2>2. QED
    BY <1>17, <2>1 DEF SkipFrame, board, tracker
<1>18. CASE ReadFrame
  <2>1. Head(pipe) \in Frames /\ pipe' \in Seq(Frames)
    BY <1>18, Ends DEF ReadFrame
  <2>2. Head(pipe).n \in Nat
    BY <2>1, Records
  <2>3. Head(pipe).n % SeqMod \in Nat
    BY <2>2
  <2>4. Observe(last, Head(pipe).n % SeqMod) \in Nat
    <3> DEFINE seq == Head(pipe).n % SeqMod
    <3>1. seq \in Int /\ last \in Int
      BY <2>3
    <3> HIDE DEF seq
    <3>2. Observe(last, seq) \in Nat
      BY <3>1, ObserveInNat
    <3>3. QED
      BY <3>2 DEF seq
  <2>5. host' \in Counters
    <3>1. CASE Head(pipe).from = Main
      <4>1. host' = [isr |-> Head(pipe).isr, rej |-> Head(pipe).rej,
                     full |-> Head(pipe).full]
        BY <1>18, <3>1 DEF ReadFrame
      <4>2. QED
        BY <4>1, <2>1, Records
    <3>2. CASE Head(pipe).from # Main
      BY <1>18, <3>2 DEF ReadFrame
    <3>3. QED
      BY <3>1, <3>2
  <2>6. /\ gaps' \in Nat /\ last' \in Int /\ newest' \in Int
        /\ first' \in Int /\ statsAt' \in Int
    <3>1. gaps' = gaps + Observe(last, Head(pipe).n % SeqMod)
      BY <1>18 DEF ReadFrame
    <3>2. gaps' \in Nat
      BY <2>4, <3>1
    <3>3. /\ last' = Head(pipe).n % SeqMod /\ newest' = Head(pipe).n
          /\ first' \in {Head(pipe).n, first}
          /\ statsAt' \in {Head(pipe).n, statsAt}
      BY <1>18 DEF ReadFrame
    <3>4. QED
      BY <2>2, <2>3, <3>2, <3>3
  <2>7. seen' \in SUBSET Nat /\ overrun' \in BOOLEAN
    BY <1>18, <2>2 DEF ReadFrame
  <2>8. QED
    BY <1>18, <2>1, <2>5, <2>6, <2>7 DEF ReadFrame, board
<1>19. CASE UNCHANGED vars
  BY <1>19 DEF vars, board, wire, tracker, history
<1>20. QED
  BY <1>1, <1>2, <1>3, <1>4, <1>5, <1>6, <1>7, <1>8, <1>9, <1>10, <1>11,
     <1>12, <1>13, <1>14, <1>15, <1>16, <1>17, <1>18, <1>19
     DEF Next, SenderStep, TxStep

LEMMA TypeStart == Init => TypeOK
<1> SUFFICES ASSUME Init PROVE TypeOK
  OBVIOUS
<1>1. /\ ring \in Seq(Frames) /\ chunk \in Seq(Frames) /\ pipe \in Seq(Frames)
  BY DEF Init
<1>2. snap \in Counters /\ host \in Counters
  BY Records DEF Init
<1>3. /\ pc \in [Senders -> {"idle", "reading", "waiting", "locked",
                            "numbered", "refused", "blamed"}]
      /\ num \in [Senders -> Nat]
  BY DEF Init
<1>4. last \in Int /\ newest \in Int /\ first \in Int /\ statsAt \in Int
  BY DEF Init, NoSeq
<1>5. QED
  BY <1>1, <1>2, <1>3, <1>4 DEF Init, TypeOK

(* Every variable keeps its type, in every reachable state.                *)
THEOREM TypeCorrect == Spec => []TypeOK
<1>1. QED
  BY TypeStart, TypeStep, PTL DEF Spec

-----------------------------------------------------------------------------
(* Numbers on the wire.                                                    *)

\* A frame put at the end, above all that were there.
LEMMA AppendOrder ==
  ASSUME NEW q \in Seq(Frames), NEW f \in Frames
  PROVE  /\ Numbers(Append(q, f)) = Numbers(q) \cup {f.n}
         /\ Ascending(q) /\ (\A n \in Numbers(q) : n < f.n)
              => Ascending(Append(q, f))
<1>1. Numbers(Append(q, f)) = Numbers(q) \cup {f.n}
  BY AppendProperties DEF Numbers
<1>2. ASSUME Ascending(q), \A n \in Numbers(q) : n < f.n
      PROVE  Ascending(Append(q, f))
  <2> SUFFICES ASSUME NEW i \in DOMAIN Append(q, f),
                      NEW j \in DOMAIN Append(q, f), i < j
               PROVE  Append(q, f)[i].n < Append(q, f)[j].n
    BY DEF Ascending
  <2>1. i \in DOMAIN q /\ Append(q, f)[i] = q[i]
    BY AppendProperties
  <2>2. CASE j \in DOMAIN q
    BY <2>1, <2>2, <1>2, AppendProperties DEF Ascending
  <2>3. CASE j = Len(q) + 1
    BY <2>1, <2>3, <1>2, AppendProperties DEF Numbers
  <2>4. QED
    BY <2>2, <2>3, AppendProperties
<1>3. QED
  BY <1>1, <1>2

\* The oldest frame taken off the front.
LEMMA TailOrder ==
  ASSUME NEW q \in Seq(Frames), q # <<>>
  PROVE  /\ Numbers(q) = Numbers(Tail(q)) \cup {Head(q).n}
         /\ Ascending(q) => /\ Ascending(Tail(q))
                            /\ \A n \in Numbers(Tail(q)) : Head(q).n < n
<1>1. /\ Head(q) = q[1]
      /\ Len(q) \in Nat \ {0}
      /\ Tail(q) \in Seq(Frames)
      /\ Len(Tail(q)) = Len(q) - 1
      /\ \A i \in 1..Len(q) - 1 : Tail(q)[i] = q[i + 1]
  BY HeadTailProperties
<1>2. DOMAIN q = 1..Len(q) /\ DOMAIN Tail(q) = 1..(Len(q) - 1)
  BY <1>1
<1>3. Numbers(q) = Numbers(Tail(q)) \cup {Head(q).n}
  <2>1. ASSUME NEW i \in DOMAIN q
        PROVE  q[i].n \in Numbers(Tail(q)) \cup {Head(q).n}
    <3>1. CASE i = 1
      BY <3>1, <1>1
    <3>2. CASE i # 1
      <4>1. i - 1 \in DOMAIN Tail(q) /\ Tail(q)[i - 1] = q[i]
        BY <3>2, <1>1, <1>2
      <4>2. QED
        BY <4>1 DEF Numbers
    <3>3. QED
      BY <3>1, <3>2
  <2>2. ASSUME NEW i \in DOMAIN Tail(q)
        PROVE  Tail(q)[i].n \in Numbers(q)
    <3>1. i + 1 \in DOMAIN q /\ Tail(q)[i] = q[i + 1]
      BY <1>1, <1>2
    <3>2. QED
      BY <3>1 DEF Numbers
  <2>3. Head(q).n \in Numbers(q)
    BY <1>1, <1>2 DEF Numbers
  <2>4. QED
    BY <2>1, <2>2, <2>3 DEF Numbers
<1>4. ASSUME Ascending(q)
      PROVE  Ascending(Tail(q)) /\ \A n \in Numbers(Tail(q)) : Head(q).n < n
  <2>1. Ascending(Tail(q))
    BY <1>1, <1>2, <1>4 DEF Ascending
  <2>2. \A i \in DOMAIN Tail(q) : Head(q).n < Tail(q)[i].n
    BY <1>1, <1>2, <1>4 DEF Ascending
  <2>3. QED
    BY <2>1, <2>2 DEF Numbers
<1>5. QED
  BY <1>3, <1>4

\* A sequence cut in two.
LEMMA SplitOrder ==
  ASSUME NEW q \in Seq(Frames), NEW k \in 1..Len(q)
  PROVE  LET front == SubSeq(q, 1, k)
             rest == SubSeq(q, k + 1, Len(q))
         IN  /\ Numbers(q) = Numbers(front) \cup Numbers(rest)
             /\ Ascending(q) => /\ Ascending(front) /\ Ascending(rest)
                                /\ Below(front, rest)
<1> DEFINE front == SubSeq(q, 1, k)
           rest == SubSeq(q, k + 1, Len(q))
<1>1. /\ DOMAIN front = 1..k
      /\ \A i \in 1..k : front[i] = q[i]
  BY SubSeqProperties
<1>2. /\ DOMAIN rest = 1..(Len(q) - k)
      /\ \A i \in 1..(Len(q) - k) : rest[i] = q[k + i]
  <2>1. CASE k = Len(q)
    BY <2>1, SubSeqProperties
  <2>2. CASE k # Len(q)
    BY <2>2, SubSeqProperties
  <2>3. QED
    BY <2>1, <2>2
<1>3. DOMAIN q = 1..Len(q)
  OBVIOUS
<1> HIDE DEF front, rest
<1>4. Numbers(q) = Numbers(front) \cup Numbers(rest)
  <2>1. ASSUME NEW i \in DOMAIN q
        PROVE  q[i].n \in Numbers(front) \cup Numbers(rest)
    <3>1. CASE i <= k
      BY <3>1, <1>1, <1>3 DEF Numbers
    <3>2. CASE i > k
      <4>1. i - k \in DOMAIN rest /\ rest[i - k] = q[i]
        BY <3>2, <1>2, <1>3
      <4>2. QED
        BY <4>1 DEF Numbers
    <3>3. QED
      BY <3>1, <3>2, <1>3
  <2>2. \A i \in DOMAIN front : front[i].n \in Numbers(q)
    BY <1>1, <1>3 DEF Numbers
  <2>3. ASSUME NEW i \in DOMAIN rest PROVE rest[i].n \in Numbers(q)
    <3>1. k + i \in DOMAIN q /\ rest[i] = q[k + i]
      BY <1>2, <1>3
    <3>2. QED
      BY <3>1 DEF Numbers
  <2>4. QED
    BY <2>1, <2>2, <2>3 DEF Numbers
<1>5. ASSUME Ascending(q)
      PROVE  Ascending(front) /\ Ascending(rest) /\ Below(front, rest)
  <2>1. Ascending(front)
    BY <1>1, <1>3, <1>5 DEF Ascending
  <2>2. Ascending(rest)
    <3> SUFFICES ASSUME NEW i \in DOMAIN rest, NEW j \in DOMAIN rest, i < j
                 PROVE  rest[i].n < rest[j].n
      BY DEF Ascending
    <3>1. /\ k + i \in DOMAIN q /\ k + j \in DOMAIN q /\ k + i < k + j
          /\ rest[i] = q[k + i] /\ rest[j] = q[k + j]
      BY <1>2, <1>3
    <3>2. QED
      BY <3>1, <1>5 DEF Ascending
  <2>3. \A i \in DOMAIN front, j \in DOMAIN rest : front[i].n < rest[j].n
    <3> SUFFICES ASSUME NEW i \in DOMAIN front, NEW j \in DOMAIN rest
                 PROVE  front[i].n < rest[j].n
      OBVIOUS
    <3>1. /\ i \in DOMAIN q /\ k + j \in DOMAIN q /\ i < k + j
          /\ front[i] = q[i] /\ rest[j] = q[k + j]
      BY <1>1, <1>2, <1>3
    <3>2. QED
      BY <3>1, <1>5 DEF Ascending
  <2>4. QED
    BY <2>1, <2>2, <2>3 DEF Below, Numbers
<1>6. QED
  BY <1>4, <1>5 DEF front, rest

-----------------------------------------------------------------------------
(* Order.                                                                  *)

\* What has a number is below the next to be given out.
Fresh ==
  /\ newest < next
  /\ \A n \in InFlight \cup Held : n < next

\* InOrder alone is not inductive: a sender takes the number next, so
\* whatever is on its way must be below next, and only one sender may hold
\* a number.
IInv == TypeOK /\ OneHolder /\ InOrder /\ Fresh

\* At most one sender holds a number, and every one held is natural.
LEMMA HeldIs ==
  ASSUME IInv
  PROVE  /\ Held \subseteq Nat /\ InFlight \subseteq Nat
         /\ \A s \in Senders : pc[s] = "numbered" => Held = {num[s]}
<1> USE DEF IInv
<1>1. Held \subseteq Nat
  BY DEF TypeOK, Held
<1>2. ASSUME NEW q \in Seq(Frames) PROVE Numbers(q) \subseteq Nat
  <2>1. \A i \in DOMAIN q : q[i] \in Frames
    OBVIOUS
  <2>2. QED
    BY <2>1, Records DEF Numbers
<1>3. InFlight \subseteq Nat
  BY <1>2 DEF TypeOK, InFlight
<1>4. ASSUME NEW s \in Senders, pc[s] = "numbered" PROVE Held = {num[s]}
  BY <1>4 DEF OneHolder, Held
<1>5. QED
  BY <1>1, <1>3, <1>4

\* A step that moves no number: none taken, none given up, none sent on.
Quiet ==
  /\ UNCHANGED <<ring, chunk, pipe, newest, num>>
  /\ \A s \in Senders : pc'[s] = "numbered" <=> pc[s] = "numbered"

LEMMA QuietStep ==
  ASSUME IInv, Quiet
  PROVE  Held' = Held /\ InFlight' = InFlight
<1>1. Held' = Held
  BY DEF Quiet, Held
<1>2. InFlight' = InFlight
  BY DEF Quiet, InFlight, Numbers
<1>3. QED
  BY <1>1, <1>2

\* The steps that are quiet.
Silent ==
  \/ RadioHears \/ RxTake \/ CopyLinkStats \/ CopyRadioStats
  \/ \E s \in Others : OtherSends(s)
  \/ \E s \in Senders : Lock(s) \/ CountRefusal(s) \/ GiveUp(s)
  \/ CountRejected
  \/ StartCounting
  \/ UNCHANGED vars

LEMMA SilentIsQuiet ==
  ASSUME IInv, Silent
  PROVE  /\ Quiet
         /\ next' \in {next, next + 1}
<1> USE Known DEF IInv, TypeOK, Quiet, Goto
<1>1. CASE RadioHears
  BY <1>1 DEF RadioHears, wire, history
<1>2. CASE RxTake
  BY <1>2 DEF RxTake, wire, history
<1>3. CASE CopyLinkStats
  BY <1>3 DEF CopyLinkStats, wire, history
<1>4. CASE CopyRadioStats
  BY <1>4 DEF CopyRadioStats, wire, history
<1>5. ASSUME NEW s \in Others, OtherSends(s)
      PROVE  Quiet /\ next' \in {next, next + 1}
  BY <1>5 DEF OtherSends, wire, history
<1>6. ASSUME NEW s \in Senders, Lock(s)
      PROVE  Quiet /\ next' \in {next, next + 1}
  BY <1>6 DEF Lock, wire, history
<1>7. ASSUME NEW s \in Senders, CountRefusal(s)
      PROVE  Quiet /\ next' \in {next, next + 1}
  BY <1>7 DEF CountRefusal, wire, history
<1>8. ASSUME NEW s \in Senders, GiveUp(s)
      PROVE  Quiet /\ next' \in {next, next + 1}
  BY <1>8 DEF GiveUp, NumberUsedUp, wire
<1>9. CASE CountRejected
  BY <1>9 DEF CountRejected, wire, history
<1>10. CASE StartCounting
  BY <1>10 DEF StartCounting, board, wire, history
<1>11. CASE UNCHANGED vars
  BY <1>11 DEF vars, board, wire, history
<1>12. QED
  BY <1>1, <1>2, <1>3, <1>4, <1>5, <1>6, <1>7, <1>8, <1>9, <1>10, <1>11
     DEF Silent

\* The mutex admits one sender.
LEMMA HolderStep ==
  ASSUME TypeOK, OneHolder, [Next]_vars
  PROVE  OneHolder'
<1> USE Known DEF TypeOK, OneHolder, Goto
<1>1. CASE RadioHears
  BY <1>1 DEF RadioHears
<1>2. CASE RxTake
  BY <1>2 DEF RxTake
<1>3. CASE CopyLinkStats
  BY <1>3 DEF CopyLinkStats
<1>4. CASE CopyRadioStats
  BY <1>4 DEF CopyRadioStats
<1>5. ASSUME NEW s \in Others, OtherSends(s) PROVE OneHolder'
  BY <1>5 DEF OtherSends
<1>6. ASSUME NEW s \in Senders, Lock(s) PROVE OneHolder'
  BY <1>6 DEF Lock, MutexFree
<1>7. ASSUME NEW s \in Senders, TakeSeq(s) PROVE OneHolder'
  BY <1>7 DEF TakeSeq
<1>8. ASSUME NEW s \in Senders, GiveUp(s) PROVE OneHolder'
  BY <1>8 DEF GiveUp
<1>9. ASSUME NEW s \in Senders, Put(s) PROVE OneHolder'
  BY <1>9 DEF Put, GiveMutex
<1>10. ASSUME NEW s \in Senders, Refuse(s) PROVE OneHolder'
  BY <1>10 DEF Refuse, GiveMutex
<1>11. ASSUME NEW s \in Senders, CountRefusal(s) PROVE OneHolder'
  BY <1>11 DEF CountRefusal
<1>12. CASE CountRejected
  BY <1>12 DEF CountRejected
<1>13. CASE TxStep
  BY <1>13 DEF TxStep, TxTake, TxWrite, TxWedge, board
<1>14. CASE StartCounting \/ SkipFrame \/ ReadFrame
  BY <1>14 DEF StartCounting, SkipFrame, ReadFrame, board
<1>15. CASE UNCHANGED vars
  BY <1>15 DEF vars, board
<1>16. QED
  BY <1>1, <1>2, <1>3, <1>4, <1>5, <1>6, <1>7, <1>8, <1>9, <1>10, <1>11,
     <1>12, <1>13, <1>14, <1>15 DEF Next, SenderStep

-----------------------------------------------------------------------------
(* The steps that move numbers, and what they move.                        *)

\* Reading a frame, counted or not.
Reads ==
  /\ pipe # <<>>
  /\ pipe' = Tail(pipe) /\ newest' = Head(pipe).n
  /\ UNCHANGED <<ring, chunk, board>>

LEMMA ReadsStep == SkipFrame \/ ReadFrame => Reads
  BY DEF SkipFrame, ReadFrame, Reads, board

LEMMA TakeSeqMoves ==
  ASSUME IInv, NEW s \in Senders, TakeSeq(s)
  PROVE  /\ Held = {} /\ Held' = {next} /\ next' = next + 1
         /\ UNCHANGED <<ring, chunk, pipe, newest>>
<1> USE DEF IInv, TypeOK, OneHolder, TakeSeq, Goto
<1>1. \A t \in Senders : pc[t] # "numbered"
  OBVIOUS
<1>2. \A t \in Senders : pc'[t] = "numbered" <=> t = s
  BY <1>1
<1>3. num'[s] = next
  OBVIOUS
<1>4. QED
  BY <1>1, <1>2, <1>3 DEF Held, wire, history

LEMMA PutMoves ==
  ASSUME IInv, NEW s \in Senders, Put(s)
  PROVE  /\ Held = {num[s]} /\ Held' = {}
         /\ FrameOf(s) \in Frames /\ FrameOf(s).n = num[s]
         /\ ring' = Append(ring, FrameOf(s))
         /\ UNCHANGED <<chunk, pipe, newest, next>>
<1>1. Held = {num[s]}
  BY HeldIs DEF Put
<1>2. \A t \in Senders : pc'[t] # "numbered"
  BY DEF IInv, TypeOK, OneHolder, Put, Goto
<1>3. Held' = {}
  BY <1>2 DEF Held
<1>4. FrameOf(s) \in Frames
  <2>1. (IF s = Main THEN snap ELSE Zeros) \in Counters
    BY Records DEF IInv, TypeOK
  <2>2. num[s] \in Nat
    BY DEF IInv, TypeOK
  <2>3. QED
    BY <2>1, <2>2, Records DEF FrameOf, Frames
<1>5. FrameOf(s).n = num[s]
  BY DEF FrameOf
<1>6. QED
  BY <1>1, <1>3, <1>4, <1>5 DEF Put, history

LEMMA RefuseMoves ==
  ASSUME IInv, NEW s \in Senders, Refuse(s)
  PROVE  /\ Held' = {}
         /\ UNCHANGED <<ring, chunk, pipe, newest, next>>
<1>1. \A t \in Senders : pc'[t] # "numbered"
  BY DEF IInv, TypeOK, OneHolder, Refuse, Goto
<1>2. Held' = {}
  BY <1>1 DEF Held
<1>3. QED
  BY <1>2 DEF Refuse, wire

LEMMA BoardHolds ==
  ASSUME UNCHANGED board
  PROVE  Held' = Held /\ next' = next
  BY DEF board, Held

\* The chunk taken, and the frame written, stay in flight and in order.
LEMMA TxTakeMoves ==
  ASSUME IInv, TxTake
  PROVE  /\ InFlight' = InFlight
         /\ Numbers(chunk) = {}
         /\ Numbers(ring) = Numbers(chunk') \cup Numbers(ring')
         /\ Ascending(chunk') /\ Ascending(ring') /\ Below(chunk', ring')
         /\ UNCHANGED <<pipe, newest, board>>
<1>1. PICK k \in 1..Len(ring) : /\ chunk' = SubSeq(ring, 1, k)
                                /\ ring' = SubSeq(ring, k + 1, Len(ring))
  BY DEF TxTake
<1>2. /\ Numbers(ring) = Numbers(chunk') \cup Numbers(ring')
      /\ Ascending(chunk') /\ Ascending(ring') /\ Below(chunk', ring')
  BY <1>1, SplitOrder DEF IInv, TypeOK, InOrder
<1>3. Numbers(chunk) = {}
  BY DEF TxTake, Numbers
<1>4. UNCHANGED <<pipe, newest, board>>
  BY DEF TxTake, history
<1>5. InFlight' = InFlight
  BY <1>2, <1>3, <1>4 DEF InFlight, Numbers
<1>6. QED
  BY <1>2, <1>3, <1>4, <1>5

LEMMA TxWriteMoves ==
  ASSUME IInv, TxWrite
  PROVE  /\ InFlight' = InFlight
         /\ Numbers(chunk) = Numbers(chunk') \cup {Head(chunk).n}
         /\ Numbers(pipe') = Numbers(pipe) \cup {Head(chunk).n}
         /\ Ascending(chunk') /\ Ascending(pipe') /\ Below(pipe', chunk')
         /\ UNCHANGED <<ring, newest, board>>
<1>1. /\ chunk # <<>> /\ chunk' = Tail(chunk)
      /\ pipe' = Append(pipe, Head(chunk))
      /\ UNCHANGED <<ring, newest, board>>
  BY DEF TxWrite, AfterWrite, history
<1>2. /\ Numbers(chunk) = Numbers(chunk') \cup {Head(chunk).n}
      /\ Ascending(chunk')
      /\ \A n \in Numbers(chunk') : Head(chunk).n < n
  BY <1>1, TailOrder DEF IInv, TypeOK, InOrder
<1>3. Head(chunk) \in Frames
  BY <1>1, Ends DEF IInv, TypeOK
<1>4. \A n \in Numbers(pipe) : n < Head(chunk).n
  BY <1>2 DEF IInv, InOrder, Below
<1>5. /\ Numbers(pipe') = Numbers(pipe) \cup {Head(chunk).n}
      /\ Ascending(pipe')
  BY <1>1, <1>3, <1>4, AppendOrder DEF IInv, TypeOK, InOrder
<1>6. Below(pipe', chunk')
  BY <1>2, <1>5 DEF IInv, InOrder, Below
<1>7. InFlight' = InFlight
  BY <1>1, <1>2, <1>5 DEF InFlight, Numbers
<1>8. QED
  BY <1>1, <1>2, <1>5, <1>6, <1>7

LEMMA TxWedgeMoves ==
  ASSUME TxWedge
  PROVE  /\ Numbers(chunk') = {} /\ Ascending(chunk')
         /\ UNCHANGED <<ring, pipe, newest, board>>
  BY DEF TxWedge, Numbers, Ascending

LEMMA ReadsMoves ==
  ASSUME IInv, Reads
  PROVE  /\ newest' \in Numbers(pipe) /\ newest < newest'
         /\ Numbers(pipe) = Numbers(pipe') \cup {newest'}
         /\ Ascending(pipe')
         /\ \A n \in Numbers(pipe') \cup Numbers(chunk) \cup Numbers(ring)
                       \cup Held : newest' < n
         /\ UNCHANGED <<ring, chunk, board>>
<1>1. /\ Numbers(pipe) = Numbers(pipe') \cup {newest'}
      /\ Ascending(pipe')
      /\ \A n \in Numbers(pipe') : newest' < n
  BY TailOrder DEF Reads, IInv, TypeOK, InOrder
<1>2. newest' \in Numbers(pipe)
  BY <1>1
<1>3. newest < newest'
  BY <1>2 DEF IInv, InOrder, InFlight
<1>4. \A n \in Numbers(chunk) \cup Numbers(ring) : newest' < n
  BY <1>2 DEF IInv, InOrder, Below
<1>5. \A n \in Held : newest' < n
  BY <1>2 DEF IInv, InOrder, InFlight
<1>6. QED
  BY <1>1, <1>2, <1>3, <1>4, <1>5 DEF Reads

-----------------------------------------------------------------------------
(* The invariant.                                                          *)

LEMMA IInvStart == Init => IInv
<1> SUFFICES ASSUME Init PROVE IInv
  OBVIOUS
<1>1. TypeOK
  BY TypeStart
<1>2. OneHolder
  BY Known DEF Init, OneHolder
<1>3. Held = {} /\ InFlight = {}
  BY DEF Init, Held, InFlight, Numbers
<1>4. Fresh
  BY <1>3 DEF Init, NoSeq, Fresh
<1>5. InOrder
  BY <1>3 DEF Init, InOrder, Ascending, Below, Numbers
<1>6. QED
  BY <1>1, <1>2, <1>4, <1>5 DEF IInv

LEMMA IInvStep == IInv /\ [Next]_vars => IInv'
<1> SUFFICES ASSUME IInv, [Next]_vars PROVE IInv'
  OBVIOUS
<1>1. TypeOK' /\ OneHolder'
  BY TypeStep, HolderStep DEF IInv
<1>2. InOrder' /\ Fresh'
  <2>1. CASE Silent
    <3>1. Quiet /\ next' \in {next, next + 1}
      BY <2>1, SilentIsQuiet
    <3>2. Held' = Held /\ InFlight' = InFlight
      BY <3>1, QuietStep
    <3>3. InOrder'
      BY <3>1, <3>2 DEF Quiet, IInv, InOrder, Ascending, Below, Numbers
    <3>4. newest \in Int /\ next \in Nat
      BY DEF IInv, TypeOK
    <3>5. Fresh'
      BY <3>1, <3>2, <3>4, HeldIs DEF Quiet, IInv, Fresh
    <3>6. QED
      BY <3>3, <3>5
  <2>2. ASSUME NEW s \in Senders, TakeSeq(s) PROVE InOrder' /\ Fresh'
    <3>1. /\ Held' = {next} /\ next' = next + 1
          /\ UNCHANGED <<ring, chunk, pipe, newest>>
      BY <2>2, TakeSeqMoves
    <3>2. InFlight' = InFlight
      BY <3>1 DEF InFlight, Numbers
    <3>3. newest \in Int /\ next \in Nat
      BY DEF IInv, TypeOK
    <3>4. InOrder'
      BY <3>1, <3>2 DEF IInv, InOrder, Fresh, Ascending, Below, Numbers
    <3>5. Fresh'
      BY <3>1, <3>2, <3>3, HeldIs DEF IInv, Fresh
    <3>6. QED
      BY <3>4, <3>5
  <2>3. ASSUME NEW s \in Senders, Put(s) PROVE InOrder' /\ Fresh'
    <3> DEFINE f == FrameOf(s)
    <3>1. /\ Held = {num[s]} /\ Held' = {} /\ f \in Frames /\ f.n = num[s]
          /\ ring' = Append(ring, f)
          /\ UNCHANGED <<chunk, pipe, newest, next>>
      BY <2>3, PutMoves
    <3> HIDE DEF f
    <3>2. \A n \in InFlight : n < f.n
      BY <3>1 DEF IInv, InOrder
    <3>3. Numbers(ring') = Numbers(ring) \cup {f.n} /\ Ascending(ring')
      BY <3>1, <3>2, AppendOrder DEF IInv, TypeOK, InOrder, InFlight
    <3>4. Numbers(chunk') = Numbers(chunk) /\ Numbers(pipe') = Numbers(pipe)
      BY <3>1
    <3>5. InFlight' = InFlight \cup {f.n}
      BY <3>3, <3>4 DEF InFlight, Numbers
    <3>6. Below(pipe', ring') /\ Below(chunk', ring') /\ Below(pipe', chunk')
      BY <3>2, <3>3, <3>4 DEF IInv, InOrder, Below, InFlight
    <3>7. Ascending(pipe') /\ Ascending(chunk')
      BY <3>1 DEF IInv, InOrder
    <3>8. \A n \in InFlight' \cup Held' : newest' < n /\ n < next'
      BY <3>1, <3>5 DEF IInv, InOrder, Fresh
    <3>9. InOrder'
      BY <3>1, <3>3, <3>6, <3>7, <3>8 DEF InOrder, Below, Ascending, Numbers
    <3>10. Fresh'
      BY <3>1, <3>8 DEF IInv, Fresh
    <3>11. QED
      BY <3>9, <3>10
  <2>4. ASSUME NEW s \in Senders, Refuse(s) PROVE InOrder' /\ Fresh'
    <3>1. /\ Held' = {} /\ UNCHANGED <<ring, chunk, pipe, newest, next>>
      BY <2>4, RefuseMoves
    <3>2. InFlight' = InFlight
      BY <3>1 DEF InFlight, Numbers
    <3>3. QED
      BY <3>1, <3>2 DEF IInv, InOrder, Fresh, Ascending, Below, Numbers
  <2>5. CASE TxTake
    <3>1. /\ InFlight' = InFlight /\ Numbers(chunk) = {}
          /\ Numbers(ring) = Numbers(chunk') \cup Numbers(ring')
          /\ Ascending(chunk') /\ Ascending(ring') /\ Below(chunk', ring')
          /\ UNCHANGED <<pipe, newest, board>>
      BY <2>5, TxTakeMoves
    <3>2. Held' = Held /\ next' = next
      BY <3>1, BoardHolds
    <3>3. Below(pipe', chunk') /\ Below(pipe', ring')
      BY <3>1 DEF IInv, InOrder, Below
    <3>4. QED
      BY <3>1, <3>2, <3>3
         DEF IInv, InOrder, Fresh, Ascending, Below, Numbers
  <2>6. CASE TxWrite
    <3>1. /\ InFlight' = InFlight
          /\ Numbers(chunk) = Numbers(chunk') \cup {Head(chunk).n}
          /\ Numbers(pipe') = Numbers(pipe) \cup {Head(chunk).n}
          /\ Ascending(chunk') /\ Ascending(pipe') /\ Below(pipe', chunk')
          /\ UNCHANGED <<ring, newest, board>>
      BY <2>6, TxWriteMoves
    <3>2. Held' = Held /\ next' = next
      BY <3>1, BoardHolds
    <3>3. Below(chunk', ring') /\ Below(pipe', ring') /\ Ascending(ring')
      BY <3>1 DEF IInv, InOrder, Below
    <3>4. QED
      BY <3>1, <3>2, <3>3
         DEF IInv, InOrder, Fresh, Ascending, Below, Numbers
  <2>7. CASE TxWedge
    <3>1. /\ Numbers(chunk') = {} /\ Ascending(chunk')
          /\ UNCHANGED <<ring, pipe, newest, board>>
      BY <2>7, TxWedgeMoves
    <3>2. Held' = Held /\ next' = next
      BY <3>1, BoardHolds
    <3>3. InFlight' \subseteq InFlight
      BY <3>1 DEF InFlight, Numbers
    <3>4. Below(pipe', chunk') /\ Below(chunk', ring')
      BY <3>1 DEF Below, Numbers
    <3>5. QED
      BY <3>1, <3>2, <3>3, <3>4
         DEF IInv, InOrder, Fresh, Ascending, Below, Numbers
  <2>8. CASE Reads
    <3>1. /\ newest' \in Numbers(pipe)
          /\ Numbers(pipe) = Numbers(pipe') \cup {newest'}
          /\ Ascending(pipe')
          /\ \A n \in Numbers(pipe') \cup Numbers(chunk) \cup Numbers(ring)
                        \cup Held : newest' < n
          /\ UNCHANGED <<ring, chunk, board>>
      BY <2>8, ReadsMoves
    <3>2. Held' = Held /\ next' = next
      BY <3>1, BoardHolds
    <3>3. Numbers(ring') = Numbers(ring) /\ Numbers(chunk') = Numbers(chunk)
      BY <3>1
    <3>4. InFlight' = Numbers(pipe') \cup Numbers(chunk) \cup Numbers(ring)
      BY <3>3 DEF InFlight, Numbers
    <3>5. InFlight' \subseteq InFlight
      BY <3>1, <3>4 DEF InFlight
    <3>6. Below(pipe', chunk') /\ Below(pipe', ring') /\ Below(chunk', ring')
      BY <3>1, <3>3 DEF IInv, InOrder, Below
    <3>7. Ascending(chunk') /\ Ascending(ring')
      BY <3>1 DEF IInv, InOrder
    <3>8. \A n \in InFlight', h \in Held' : n < h
      BY <3>2, <3>5 DEF IInv, InOrder
    <3>9. \A n \in InFlight' \cup Held' : newest' < n
      BY <3>1, <3>2, <3>4
    <3>10. InOrder'
      BY <3>1, <3>6, <3>7, <3>8, <3>9 DEF InOrder, Ascending, Below, Numbers
    <3>11. newest' < next'
      BY <3>1, <3>2 DEF IInv, Fresh, InFlight
    <3>12. Fresh'
      BY <3>2, <3>5, <3>11 DEF IInv, Fresh
    <3>13. QED
      BY <3>10, <3>12
  <2>9. QED
    BY <2>1, <2>2, <2>3, <2>4, <2>5, <2>6, <2>7, <2>8, ReadsStep
       DEF Next, SenderStep, TxStep, Silent
<1>3. QED
  BY <1>1, <1>2 DEF IInv

LEMMA IInvAlways == Spec => []IInv
<1>1. QED
  BY IInvStart, IInvStep, PTL DEF Spec

(* Numbers leave the board, cross the wire and are read in the order they  *)
(* were given out, for any number of senders and any sizes.                *)
THEOREM OrderKept == Spec => []InOrder
<1>1. IInv => InOrder
  BY DEF IInv
<1>2. QED
  BY <1>1, IInvAlways, PTL

(* Every step of the link is a step of the ledger or leaves it alone: a    *)
(* frame is never duplicated, reordered or brought back after its loss.    *)
THEOREM ImplementsLedger == Spec => LedgerSpec
<1> DEFINE pending == Held \cup InFlight
<1>1. Init => Ledger!Init
  BY DEF Init, Ledger!Init, Held, InFlight, Numbers, NoSeq
<1>2. ASSUME IInv, [Next]_vars PROVE [Ledger!Next]_Ledger!ledger
  <2> USE DEF Ledger!Next, Ledger!ledger
  <2>1. CASE Silent
    <3>1. Quiet /\ next' \in {next, next + 1}
      BY <1>2, <2>1, SilentIsQuiet
    <3>2. Held' = Held /\ InFlight' = InFlight
      BY <1>2, <3>1, QuietStep
    <3>3. QED
      BY <3>1, <3>2 DEF Quiet, Ledger!IssueLost
  <2>2. ASSUME NEW s \in Senders, TakeSeq(s) PROVE Ledger!Issue
    <3>1. /\ Held = {} /\ Held' = {next} /\ next' = next + 1
          /\ UNCHANGED <<ring, chunk, pipe, newest>>
      BY <1>2, <2>2, TakeSeqMoves
    <3>2. InFlight' = InFlight
      BY <3>1 DEF InFlight, Numbers
    <3>3. QED
      BY <3>1, <3>2 DEF Ledger!Issue
  <2>3. ASSUME NEW s \in Senders, Put(s) PROVE UNCHANGED Ledger!ledger
    <3>1. /\ Held = {num[s]} /\ Held' = {}
          /\ FrameOf(s) \in Frames /\ FrameOf(s).n = num[s]
          /\ ring' = Append(ring, FrameOf(s))
          /\ UNCHANGED <<chunk, pipe, newest, next>>
      BY <1>2, <2>3, PutMoves
    <3>2. Numbers(ring') = Numbers(ring) \cup {num[s]}
      BY <1>2, <3>1, AppendOrder DEF IInv, TypeOK
    <3>3. InFlight' = InFlight \cup {num[s]}
      BY <3>1, <3>2 DEF InFlight, Numbers
    <3>4. QED
      BY <3>1, <3>3
  <2>4. ASSUME NEW s \in Senders, Refuse(s) PROVE Ledger!Lose
    <3>1. /\ Held' = {} /\ UNCHANGED <<ring, chunk, pipe, newest, next>>
      BY <1>2, <2>4, RefuseMoves
    <3>2. InFlight' = InFlight
      BY <3>1 DEF InFlight, Numbers
    <3>3. pending' = pending \ (pending \ pending')
      BY <3>1, <3>2
    <3>4. QED
      BY <3>1, <3>3 DEF Ledger!Lose
  <2>5. CASE TxTake
    <3>1. InFlight' = InFlight /\ UNCHANGED <<newest, board>>
      BY <1>2, <2>5, TxTakeMoves
    <3>2. QED
      BY <3>1, BoardHolds
  <2>6. CASE TxWrite
    <3>1. InFlight' = InFlight /\ UNCHANGED <<newest, board>>
      BY <1>2, <2>6, TxWriteMoves
    <3>2. QED
      BY <3>1, BoardHolds
  <2>7. CASE TxWedge
    <3>1. Numbers(chunk') = {} /\ UNCHANGED <<ring, pipe, newest, board>>
      BY <2>7, TxWedgeMoves
    <3>2. InFlight' \subseteq InFlight /\ Held' = Held /\ next' = next
      BY <3>1, BoardHolds DEF InFlight, Numbers
    <3>3. pending' = pending \ (pending \ pending')
      BY <3>2
    <3>4. QED
      BY <3>1, <3>2, <3>3 DEF Ledger!Lose
  <2>8. CASE Reads
    <3>1. /\ newest' \in Numbers(pipe) /\ newest < newest'
          /\ Numbers(pipe) = Numbers(pipe') \cup {newest'}
          /\ \A n \in Numbers(pipe') \cup Numbers(chunk) \cup Numbers(ring)
                        \cup Held : newest' < n
          /\ UNCHANGED <<ring, chunk, board>>
      BY <1>2, <2>8, ReadsMoves
    <3>2. Held' = Held /\ next' = next
      BY <3>1, BoardHolds
    <3>3. InFlight' = Numbers(pipe') \cup Numbers(chunk) \cup Numbers(ring)
      BY <3>1 DEF InFlight, Numbers
    <3>4. InFlight = InFlight' \cup {newest'}
      BY <3>1, <3>3 DEF InFlight
    <3>5. newest' \in Nat
      BY <1>2, <3>1, HeldIs DEF InFlight
    <3>6. newest' \notin InFlight' \cup Held'
      BY <3>1, <3>2, <3>3, <3>5
    <3>7. pending' = pending \ {newest'} /\ newest' \in pending
      BY <3>2, <3>4, <3>6
    <3>8. QED
      BY <3>1, <3>2, <3>7 DEF Ledger!Read
  <2>9. QED
    BY <1>2, <2>1, <2>2, <2>3, <2>4, <2>5, <2>6, <2>7, <2>8, ReadsStep
       DEF Next, SenderStep, TxStep, Silent
<1>3. QED
  BY <1>1, <1>2, IInvAlways, PTL DEF Spec, LedgerSpec, Ledger!Spec

-----------------------------------------------------------------------------
(* What SequenceTracker computes.                                          *)

\* No multiple of a positive number lies strictly between it and its
\* opposite, but zero.
LEMMA SmallMultiple ==
  ASSUME NEW m \in Nat \ {0}, NEW k \in Int, -m < k * m, k * m < m
  PROVE  k = 0
<1>1. ASSUME k >= 1 PROVE FALSE
  <2>1. k * m = (k - 1) * m + m
    OBVIOUS
  <2>2. (k - 1) * m >= 0
    BY <1>1
  <2>3. QED
    BY <2>1, <2>2
<1>2. ASSUME k <= -1 PROVE FALSE
  <2>1. k * m = (k + 1) * m - m
    OBVIOUS
  <2>2. (-k - 1) * m >= 0
    BY <1>2
  <2>3. (-k - 1) * m = -((k + 1) * m)
    OBVIOUS
  <2>4. QED
    BY <2>1, <2>2, <2>3
<1>3. QED
  BY <1>1, <1>2

\* A remainder differs from its number by a multiple.
LEMMA Divides ==
  ASSUME NEW m \in Nat \ {0}, NEW a \in Int
  PROVE  /\ a \div m \in Int /\ a % m \in 0..(m - 1)
         /\ a % m = a - m * (a \div m)
  OBVIOUS

\* Between two numbers at most a turn of the counter apart, the tracker,
\* which sees their remainders only, counts exactly those in between.
LEMMA ObserveCounts ==
  ASSUME NEW a \in Nat, NEW b \in Nat, a < b, b - a <= SeqMod
  PROVE  Observe(a % SeqMod, b % SeqMod) = b - a - 1
<1> DEFINE m == SeqMod
           r == a % m
           s == b % m
           i == a \div m
           j == b \div m
           d == b - a - 1
<1>1. m \in Nat \ {0}
  BY Known
<1> HIDE DEF m
<1>2. i \in Int /\ r \in 0..(m - 1) /\ r = a - m * i
  BY <1>1, Divides, a \in Int, Zenon
<1>3. j \in Int /\ s \in 0..(m - 1) /\ s = b - m * j
  BY <1>1, Divides, b \in Int, Zenon
<1> HIDE DEF i, j, r, s
<1> DEFINE e == s - r - 1
           t == e % m
           k == e \div m
<1>3a. e \in Int
  BY <1>1, <1>2, <1>3
<1> HIDE DEF e
<1>4. k \in Int /\ t \in 0..(m - 1) /\ t = e - m * k
  BY <1>1, <1>3a, Divides, Zenon
<1> HIDE DEF k, t
<1>5. d - t = (k + j - i) * m
  <2>1. m * k \in Int /\ m * j \in Int /\ m * i \in Int
    BY <1>1, <1>2, <1>3, <1>4
  <2>2. (k + j - i) * m = m * k + m * j - m * i
    BY <1>1, <1>2, <1>3, <1>4
  <2>3. a - r = m * i /\ b - s = m * j /\ e - t = m * k
    BY <1>3a, <1>1, <1>2, <1>3, <1>4, <2>1
  <2>4. d - t = (b - s) - (a - r) + (e - t)
    BY <1>3a, <1>1, <1>2, <1>3, <1>4 DEF e
  <2>5. QED
    BY <2>1, <2>2, <2>3, <2>4
<1>6. d \in 0..(m - 1)
  BY <1>1 DEF m
<1>7. -m < d - t /\ d - t < m
  BY <1>1, <1>4, <1>6
<1>8. k + j - i = 0
  BY <1>1, <1>2, <1>3, <1>4, <1>5, <1>7, SmallMultiple
<1>9. d = t
  BY <1>1, <1>4, <1>5, <1>6, <1>8
<1>10. r # NoSeq
  BY <1>1, <1>2 DEF NoSeq
<1>11. QED
  BY <1>9, <1>10 DEF Observe, t, e, r, s, m

-----------------------------------------------------------------------------
(* Where the numbers go.                                                   *)

Pending == InFlight \cup Held

\* What a step does with numbers: nothing, ...
Stays ==
  /\ Pending' = Pending /\ next' = next
  /\ UNCHANGED <<refused, lost, seen, first, newest>>

\* ... one is taken, ...
NumberTaken ==
  /\ Pending' = Pending \cup {next} /\ next' = next + 1
  /\ UNCHANGED <<refused, lost, seen, first, newest>>

\* ... or used up by a sender that gave up, ...
NumberGivenUp ==
  /\ Pending' = Pending /\ next' = next + 1
  /\ refused' = refused \cup {next}
  /\ UNCHANGED <<lost, seen, first, newest>>

\* ... one held is refused by the ring, ...
HeldRefused ==
  /\ \E n \in Pending : /\ Pending' = Pending \ {n}
                        /\ refused' = refused \cup {n}
  /\ next' = next
  /\ UNCHANGED <<lost, seen, first, newest>>

\* ... a chunk is lost, ...
ChunkLost ==
  /\ \E gone \in SUBSET Pending : /\ Pending' = Pending \ gone
                                  /\ lost' = lost \cup gone
  /\ next' = next
  /\ UNCHANGED <<refused, seen, first, newest>>

\* ... or one is read, counted or not.
OneRead ==
  /\ newest' \in Pending /\ Pending' = Pending \ {newest'}
  /\ newest < newest' /\ \A n \in Pending' : newest' < n
  /\ next' = next
  /\ UNCHANGED <<refused, lost>>

Flow ==
  \/ Stays /\ UNCHANGED <<last, gaps, statsAt, overrun>>
  \/ NumberTaken /\ UNCHANGED <<last, gaps, statsAt, overrun>>
  \/ NumberGivenUp /\ UNCHANGED <<last, gaps, statsAt, overrun>>
  \/ HeldRefused /\ UNCHANGED <<last, gaps, statsAt, overrun>>
  \/ ChunkLost /\ UNCHANGED <<last, gaps, statsAt, overrun>>

LEMMA StepFlows ==
  ASSUME IInv, [Next]_vars
  PROVE  \/ Flow /\ UNCHANGED counting
         \/ StartCounting /\ Stays
         \/ SkipFrame /\ OneRead /\ UNCHANGED <<first, seen>>
         \/ ReadFrame /\ OneRead
<1>1. CASE Silent
  <2>1. Quiet
    BY <1>1, SilentIsQuiet
  <2>2. Pending' = Pending /\ newest' = newest
    BY <2>1, QuietStep DEF Pending, Quiet
  <2>3. CASE \E s \in Senders : GiveUp(s)
    BY <2>2, <2>3 DEF GiveUp, NumberUsedUp, Flow, NumberGivenUp, tracker
  <2>4. CASE StartCounting
    BY <2>2, <2>4 DEF StartCounting, Stays, board, history
  <2>5. CASE \/ RadioHears \/ RxTake \/ CopyLinkStats \/ CopyRadioStats
             \/ CountRejected
    BY <2>2, <2>5 DEF RadioHears, RxTake, CopyLinkStats, CopyRadioStats,
       CountRejected, Flow, Stays, tracker, history
  <2>6. CASE \/ \E s \in Others : OtherSends(s)
             \/ \E s \in Senders : Lock(s) \/ CountRefusal(s)
    BY <2>2, <2>6 DEF OtherSends, Lock, CountRefusal, Flow, Stays, tracker,
       history
  <2>7. CASE UNCHANGED vars
    BY <2>2, <2>7 DEF vars, board, Flow, Stays, tracker, history
  <2>8. QED
    BY <1>1, <2>3, <2>4, <2>5, <2>6, <2>7 DEF Silent
<1>2. ASSUME NEW s \in Senders, TakeSeq(s) PROVE Flow /\ UNCHANGED counting
  <2>1. /\ Held = {} /\ Held' = {next} /\ next' = next + 1
        /\ UNCHANGED <<ring, chunk, pipe, newest>>
    BY <1>2, TakeSeqMoves
  <2>2. InFlight' = InFlight
    BY <2>1 DEF InFlight, Numbers
  <2>3. UNCHANGED <<tracker, history>>
    BY <1>2 DEF TakeSeq
  <2>4. QED
    BY <2>1, <2>2, <2>3 DEF Flow, NumberTaken, Pending, tracker, history
<1>3. ASSUME NEW s \in Senders, Put(s) PROVE Flow /\ UNCHANGED counting
  <2>1. /\ Held = {num[s]} /\ Held' = {}
        /\ FrameOf(s) \in Frames /\ FrameOf(s).n = num[s]
        /\ ring' = Append(ring, FrameOf(s))
        /\ UNCHANGED <<chunk, pipe, newest, next>>
    BY <1>3, PutMoves
  <2>2. Numbers(ring') = Numbers(ring) \cup {num[s]}
    BY <2>1, AppendOrder DEF IInv, TypeOK
  <2>3. InFlight' = InFlight \cup {num[s]}
    BY <2>1, <2>2 DEF InFlight, Numbers
  <2>4. UNCHANGED <<tracker, history>>
    BY <1>3 DEF Put
  <2>5. QED
    BY <2>1, <2>3, <2>4 DEF Flow, Stays, Pending, tracker, history
<1>4. ASSUME NEW s \in Senders, Refuse(s) PROVE Flow /\ UNCHANGED counting
  <2>1. /\ Held' = {} /\ UNCHANGED <<ring, chunk, pipe, newest, next>>
    BY <1>4, RefuseMoves
  <2>2. Held = {num[s]} /\ InFlight \subseteq Nat /\ num[s] \in Nat
    BY <1>4, HeldIs DEF Refuse
  <2>3. \A n \in InFlight : n < num[s]
    BY <2>2 DEF IInv, InOrder
  <2>4. InFlight' = InFlight
    BY <2>1 DEF InFlight, Numbers
  <2>5. Pending' = Pending \ {num[s]} /\ num[s] \in Pending
    BY <2>1, <2>2, <2>3, <2>4 DEF Pending
  <2>6. /\ refused' = refused \cup {num[s]}
        /\ UNCHANGED <<tracker, first, seen, lost, statsAt, overrun>>
    BY <1>4 DEF Refuse
  <2>7. QED
    BY <2>1, <2>5, <2>6 DEF Flow, HeldRefused, tracker
<1>5. CASE TxTake
  <2>1. InFlight' = InFlight /\ UNCHANGED <<newest, board>>
    BY <1>5, TxTakeMoves
  <2>2. QED
    BY <1>5, <2>1, BoardHolds
       DEF TxTake, Flow, Stays, Pending, tracker, history
<1>6. CASE TxWrite
  <2>1. InFlight' = InFlight /\ UNCHANGED <<newest, board>>
    BY <1>6, TxWriteMoves
  <2>2. QED
    BY <1>6, <2>1, BoardHolds
       DEF TxWrite, Flow, Stays, Pending, tracker, history
<1>7. CASE TxWedge
  <2>1. Numbers(chunk') = {} /\ UNCHANGED <<ring, pipe, newest, board>>
    BY <1>7, TxWedgeMoves
  <2>2. Held' = Held /\ next' = next
    BY <2>1, BoardHolds
  <2>3. InFlight' = Numbers(ring) \cup Numbers(pipe)
    BY <2>1 DEF InFlight, Numbers
  <2>4. \A n \in Numbers(chunk) : n \notin Numbers(ring) \cup Numbers(pipe)
                                           \cup Held
    BY HeldIs DEF IInv, InOrder, Below, InFlight
  <2>5. Pending' = Pending \ Numbers(chunk) /\ Numbers(chunk) \subseteq Pending
    BY <2>2, <2>3, <2>4 DEF Pending, InFlight
  <2>6. /\ lost' = lost \cup Numbers(chunk)
        /\ UNCHANGED <<tracker, first, seen, refused, statsAt, overrun>>
    BY <1>7 DEF TxWedge, Numbers
  <2>7. QED
    BY <2>1, <2>2, <2>5, <2>6 DEF Flow, ChunkLost, tracker
<1>8. CASE SkipFrame \/ ReadFrame
  <2>1. /\ newest' \in Numbers(pipe) /\ newest < newest'
        /\ Numbers(pipe) = Numbers(pipe') \cup {newest'}
        /\ \A n \in Numbers(pipe') \cup Numbers(chunk) \cup Numbers(ring)
                      \cup Held : newest' < n
        /\ UNCHANGED <<ring, chunk, board>>
    BY <1>8, ReadsStep, ReadsMoves
  <2>2. Held' = Held /\ next' = next
    BY <2>1, BoardHolds
  <2>3. InFlight' = Numbers(pipe') \cup Numbers(chunk) \cup Numbers(ring)
    BY <2>1 DEF InFlight, Numbers
  <2>4. newest' \in Nat /\ newest' \in InFlight
    BY <2>1, HeldIs DEF InFlight
  <2>5. \A n \in Pending' : newest' < n
    BY <2>1, <2>2, <2>3 DEF Pending
  <2>6. newest' \notin Pending'
    BY <2>4, <2>5
  <2>7. Pending = Pending' \cup {newest'}
    BY <2>1, <2>2, <2>3 DEF Pending, InFlight
  <2>8. UNCHANGED <<refused, lost>>
    BY <1>8 DEF SkipFrame, ReadFrame
  <2>9. OneRead
    BY <2>1, <2>2, <2>5, <2>6, <2>7, <2>8 DEF OneRead
  <2>10. QED
    BY <1>8, <2>9 DEF SkipFrame
<1>9. QED
  BY <1>1, <1>2, <1>3, <1>4, <1>5, <1>6, <1>7, <1>8
     DEF Next, SenderStep, TxStep, Silent

-----------------------------------------------------------------------------
(* The host's count.                                                       *)

\* What the tracker knows: nothing before the first counted frame, and then
\* the remainder of the newest, which is the newest of those seen.
Tracked ==
  /\ ~counting => first = NoSeq
  /\ first = NoSeq => /\ last = NoSeq /\ gaps = 0
                      /\ seen = {} /\ statsAt = NoSeq
  /\ first # NoSeq => /\ first \in Nat /\ first <= newest
                      /\ last = newest % SeqMod
                      /\ first \in seen /\ newest \in seen
                      /\ seen \subseteq first..newest

GapInv == IInv /\ Tracked /\ GapsAreMissing

LEMMA GapStart == Init => GapInv
  BY IInvStart DEF Init, GapInv, Tracked, GapsAreMissing

\* The first frame counted starts the account.
LEMMA FirstRead ==
  ASSUME GapInv, ReadFrame, OneRead, first = NoSeq
  PROVE  Tracked' /\ GapsAreMissing'
<1> DEFINE n == newest'
<1>1. n \in Nat /\ n < next
  BY HeldIs DEF OneRead, Pending, GapInv, IInv, Fresh
<1>2. last = NoSeq /\ gaps = 0
  BY DEF GapInv, Tracked
<1>3. /\ first' = n /\ last' = n % SeqMod /\ seen' = seen \cup {n}
      /\ counting' /\ gaps' = gaps + Observe(last, last')
  BY DEF ReadFrame
<1>4. seen = {}
  BY DEF GapInv, Tracked
<1>5. gaps' = 0
  BY <1>2, <1>3 DEF Observe
<1>6. Missing' = {}
  BY <1>1, <1>3 DEF Missing
<1>7. QED
  BY <1>1, <1>3, <1>4, <1>5, <1>6, FS_EmptySet
     DEF Tracked, GapsAreMissing, NoSeq

\* Each later one adds the numbers passed over.
LEMMA NextRead ==
  ASSUME GapInv, ReadFrame, OneRead, first # NoSeq
  PROVE  Tracked' /\ GapsAreMissing'
<1> DEFINE n == newest'
           passed == (newest + 1)..(n - 1)
<1>1. /\ n \in Nat /\ newest < n
      /\ first \in Nat /\ first <= newest /\ newest \in Nat
      /\ last = newest % SeqMod
      /\ first \in seen /\ newest \in seen /\ seen \subseteq first..newest
  <2>1. newest \in Int
    BY DEF GapInv, IInv, TypeOK
  <2>2. QED
    BY <2>1, HeldIs DEF OneRead, Pending, GapInv, Tracked
<1>2. /\ first' = first /\ last' = n % SeqMod /\ seen' = seen \cup {n}
      /\ counting' /\ gaps' = gaps + Observe(last, n % SeqMod)
      /\ overrun' = (overrun \/ (last # NoSeq /\ n - newest > SeqMod))
  BY DEF ReadFrame
<1> HIDE DEF n, passed
<1>3. SeqMod \in Nat \ {0} /\ last \in Nat
  <2>1. SeqMod \in Nat \ {0}
    BY Known
  <2>2. newest % SeqMod \in Nat
    BY <1>1, <2>1
  <2>3. QED
    BY <1>1, <2>1, <2>2
<1>4. Tracked'
  BY <1>1, <1>2 DEF Tracked, NoSeq, n
<1>5. GapsAreMissing'
  <2> SUFFICES ASSUME ~overrun' PROVE gaps' = Cardinality(Missing')
    BY DEF GapsAreMissing
  <2>1. ~overrun /\ n - newest <= SeqMod
    <3>1. ~overrun /\ ~(last # NoSeq /\ n - newest > SeqMod)
      BY <1>2
    <3>2. last # NoSeq
      BY <1>3 DEF NoSeq
    <3>3. QED
      BY <1>1, <1>3, <3>1, <3>2
  <2>2. Observe(last, n % SeqMod) = n - newest - 1
    BY <1>1, <2>1, ObserveCounts
  <2>3. gaps = Cardinality(Missing)
    BY <2>1 DEF GapInv, GapsAreMissing
  <2>4. Missing' = Missing \cup passed
    BY <1>1, <1>2 DEF Missing, n, passed
  <2>5. Missing \cap passed = {}
    BY <1>1 DEF Missing, passed
  <2>6. IsFiniteSet(Missing)
    <3>1. IsFiniteSet((first + 1)..(newest - 1))
      BY <1>1, FS_Interval
    <3>2. QED
      BY <3>1, FS_Subset DEF Missing
  <2>7. IsFiniteSet(passed) /\ Cardinality(passed) = n - newest - 1
    <3>1. newest + 1 \in Int /\ n - 1 \in Int
      BY <1>1
    <3>2. /\ IsFiniteSet(passed)
          /\ Cardinality(passed) = IF newest + 1 > n - 1 THEN 0
                                   ELSE (n - 1) - (newest + 1) + 1
      BY <3>1, FS_Interval DEF passed
    <3>3. QED
      BY <1>1, <3>2
  <2>8. Cardinality(Missing') = Cardinality(Missing) + Cardinality(passed)
    <3>1. Cardinality(Missing \cap passed) = 0
      BY <2>5, FS_EmptySet
    <3>2. Cardinality(Missing) \in Nat /\ Cardinality(passed) \in Nat
      BY <2>6, <2>7, FS_CardinalityType
    <3>3. Cardinality(Missing \cup passed) = Cardinality(Missing)
             + Cardinality(passed) - Cardinality(Missing \cap passed)
      BY <2>6, <2>7, FS_Union
    <3>4. QED
      BY <2>4, <3>1, <3>2, <3>3
  <2>9. QED
    BY <1>2, <2>2, <2>3, <2>7, <2>8
<1>6. QED
  BY <1>4, <1>5

LEMMA GapStep == GapInv /\ [Next]_vars => GapInv'
<1> SUFFICES ASSUME GapInv, [Next]_vars PROVE GapInv'
  OBVIOUS
<1>1. IInv /\ IInv'
  BY IInvStep DEF GapInv
<1>2. CASE Flow /\ UNCHANGED counting
  <2>1. UNCHANGED <<counting, seen, first, newest, last, gaps, statsAt,
                    overrun>>
    BY <1>2 DEF Flow, Stays, NumberTaken, NumberGivenUp, HeldRefused,
       ChunkLost
  <2>2. QED
    BY <1>1, <2>1 DEF GapInv, Tracked, GapsAreMissing, Missing
<1>3. CASE StartCounting /\ Stays
  BY <1>1, <1>3 DEF StartCounting, history, GapInv, Tracked, GapsAreMissing
<1>4. CASE SkipFrame /\ OneRead /\ UNCHANGED <<first, seen>>
  BY <1>1, <1>4 DEF SkipFrame, tracker, GapInv, Tracked, GapsAreMissing
<1>5. CASE ReadFrame /\ OneRead
  BY <1>1, <1>5, FirstRead, NextRead DEF GapInv
<1>6. QED
  BY <1>1, <1>2, <1>3, <1>4, <1>5, StepFlows

(* SequenceTracker's total is the number of frames missing between the     *)
(* first and the newest read, over any number of wraps of the counter, as  *)
(* long as fewer than a whole turn of it goes missing at once.             *)
THEOREM GapsAreTheMissing == Spec => []GapsAreMissing
<1>1. GapInv => GapsAreMissing
  BY DEF GapInv
<1>2. QED
  BY <1>1, GapStart, GapStep, PTL DEF Spec

LEMMA MissingIsFinite ==
  ASSUME first \in Int, newest \in Int
  PROVE  IsFiniteSet(Missing)
<1>1. IsFiniteSet((first + 1)..(newest - 1))
  BY FS_Interval
<1>2. QED
  BY <1>1, FS_Subset DEF Missing

(* A capture the host may call lossless on reading a statistics frame has  *)
(* every number from the first it counted to that frame's.                 *)
THEOREM LosslessIsKept == Spec => []LosslessIsTrue
<1>1. ASSUME GapInv PROVE LosslessIsTrue
  <2> SUFFICES ASSUME statsAt # NoSeq, newest = statsAt, Lossless, ~overrun
               PROVE  first..statsAt \subseteq seen
    BY DEF LosslessIsTrue
  <2>1. /\ first # NoSeq /\ first \in Nat /\ newest \in Int
        /\ first \in seen /\ newest \in seen
    BY <1>1 DEF GapInv, Tracked, IInv, TypeOK
  <2>2. Cardinality(Missing) = 0
    BY <1>1, <2>1 DEF GapInv, GapsAreMissing, Lossless
  <2>3. Missing = {}
    BY <2>1, <2>2, MissingIsFinite, FS_EmptySet
  <2>4. QED
    BY <2>1, <2>3 DEF Missing
<1>2. QED
  BY <1>1, GapStart, GapStep, PTL DEF Spec

-----------------------------------------------------------------------------
(* Each loss once.                                                         *)

Refusing == {s \in Senders : pc[s] = "refused"}

\* Every number given out since the first counted frame was read, refused
\* or lost, or is pending; and never two of these.
Accounted ==
  /\ \A n \in Nat : newest < n /\ n < next
                    => n \in refused \cup lost \cup Pending
  /\ first # NoSeq =>
       \A n \in Nat : first < n /\ n <= newest
                    => n \in seen \cup refused \cup lost
  /\ refused \cap lost = {}
  /\ (refused \cup lost) \cap (seen \cup Pending) = {}
  /\ \A n \in refused \cup lost \cup seen \cup Pending : n < next

\* Each refused number has been counted in ringFull, or its sender is about
\* to count it.
RefusalsCounted ==
  /\ IsFiniteSet(refused) /\ IsFiniteSet(Refusing)
  /\ Cardinality(refused) = ringFull + Cardinality(Refusing)

LossInv == GapInv /\ Accounted /\ RefusalsCounted

LEMMA LossStart == Init => LossInv
<1> SUFFICES ASSUME Init PROVE LossInv
  OBVIOUS
<1>1. GapInv
  BY GapStart
<1>2. Pending = {} /\ Refusing = {} /\ refused = {}
  BY DEF Init, Pending, Held, InFlight, Numbers, Refusing
<1>3. Accounted
  BY <1>2 DEF Init, Accounted, NoSeq
<1>4. RefusalsCounted
  BY <1>2, FS_EmptySet DEF Init, RefusalsCounted
<1>5. QED
  BY <1>1, <1>3, <1>4 DEF LossInv

\* What is pending has not been read.
LEMMA ReadBefore ==
  ASSUME GapInv
  PROVE  seen \cap Pending = {}
<1>1. \A n \in Pending : newest < n /\ n \in Nat
  BY HeldIs DEF GapInv, IInv, Pending, InOrder
<1>2. newest \in Int /\ first \in Int /\ seen \subseteq Nat
  BY DEF GapInv, IInv, TypeOK
<1>3. \A n \in seen : n <= newest
  BY <1>2 DEF GapInv, Tracked
<1>4. QED
  BY <1>1, <1>2, <1>3

LEMMA AccountedStep ==
  ASSUME GapInv, Accounted, [Next]_vars
  PROVE  Accounted'
<1>1. /\ next \in Nat /\ newest \in Int /\ first \in Int
      /\ refused \subseteq Nat /\ lost \subseteq Nat /\ seen \subseteq Nat
      /\ Pending \subseteq Nat
      /\ \A n \in Pending : newest < n
      /\ newest < next
  BY HeldIs DEF GapInv, IInv, TypeOK, Pending, InOrder, Fresh
<1>2. CASE Stays
  BY <1>2 DEF Stays, Accounted
<1>3. CASE NumberTaken
  BY <1>1, <1>3 DEF NumberTaken, Accounted
<1>4. CASE NumberGivenUp
  BY <1>1, <1>4 DEF NumberGivenUp, Accounted
<1>5. CASE HeldRefused
  <2>1. PICK n \in Pending : Pending' = Pending \ {n}
                             /\ refused' = refused \cup {n}
    BY <1>5 DEF HeldRefused
  <2>2. UNCHANGED <<next, lost, seen, first, newest>>
    BY <1>5 DEF HeldRefused
  <2>3. n \notin refused \cup lost \cup seen
    BY <1>1, ReadBefore DEF Accounted
  <2>4. QED
    BY <2>1, <2>2, <2>3 DEF Accounted
<1>6. CASE ChunkLost
  <2>1. PICK gone \in SUBSET Pending : Pending' = Pending \ gone
                                       /\ lost' = lost \cup gone
    BY <1>6 DEF ChunkLost
  <2>2. UNCHANGED <<next, refused, seen, first, newest>>
    BY <1>6 DEF ChunkLost
  <2>3. gone \cap (refused \cup lost \cup seen) = {}
    BY <1>1, <2>1, ReadBefore DEF Accounted
  <2>4. QED
    BY <2>1, <2>2, <2>3 DEF Accounted
<1>7. CASE SkipFrame /\ OneRead /\ UNCHANGED <<first, seen>>
  <2>1. first = NoSeq
    BY <1>7 DEF SkipFrame, GapInv, Tracked
  <2>2. QED
    BY <1>1, <1>7, <2>1 DEF OneRead, Accounted
<1>8. CASE ReadFrame /\ OneRead
  <2>1. /\ seen' = seen \cup {newest'}
        /\ first' = IF first = NoSeq THEN newest' ELSE first
    BY <1>8 DEF ReadFrame
  <2>2. newest' \in Nat
    BY <1>1, <1>8 DEF OneRead
  <2>3. QED
    BY <1>1, <1>8, <2>1, <2>2 DEF OneRead, Accounted
<1>9. QED
  BY <1>2, <1>3, <1>4, <1>5, <1>6, <1>7, <1>8, StepFlows DEF Flow, GapInv

\* The set of numbers refused and the senders that have yet to count theirs
\* change together.
LEMMA CountedStep ==
  ASSUME GapInv, Accounted, RefusalsCounted, [Next]_vars
  PROVE  RefusalsCounted'
<1> USE DEF GapInv, IInv, TypeOK
<1>1. ASSUME NEW s \in Senders, NEW n, n \notin refused,
             pc[s] # "refused", Goto(s, "refused"),
             refused' = refused \cup {n}, ringFull' = ringFull
      PROVE  RefusalsCounted'
  <2>1. Refusing' = Refusing \cup {s} /\ s \notin Refusing
    BY <1>1 DEF Refusing, Goto
  <2>2. /\ IsFiniteSet(Refusing') /\ IsFiniteSet(refused')
        /\ Cardinality(Refusing') = Cardinality(Refusing) + 1
        /\ Cardinality(refused') = Cardinality(refused) + 1
    BY <1>1, <2>1, FS_AddElement DEF RefusalsCounted
  <2>3. Cardinality(Refusing) \in Nat /\ ringFull \in Nat
    BY FS_CardinalityType DEF RefusalsCounted
  <2>4. QED
    BY <1>1, <2>2, <2>3 DEF RefusalsCounted
<1>2. ASSUME NEW s \in Senders, CountRefusal(s) PROVE RefusalsCounted'
  <2>1. Refusing' = Refusing \ {s} /\ s \in Refusing
    BY <1>2 DEF CountRefusal, Refusing, Goto
  <2>2. /\ IsFiniteSet(Refusing')
        /\ Cardinality(Refusing') = Cardinality(Refusing) - 1
    BY <2>1, FS_RemoveElement DEF RefusalsCounted
  <2>3. refused' = refused /\ ringFull' = ringFull + 1
    BY <1>2 DEF CountRefusal, history
  <2>4. Cardinality(Refusing) \in Nat /\ ringFull \in Nat
    BY FS_CardinalityType DEF RefusalsCounted
  <2>5. QED
    BY <2>2, <2>3, <2>4 DEF RefusalsCounted
<1>3. ASSUME NEW s \in Senders, GiveUp(s) PROVE RefusalsCounted'
  <2>1. next \notin refused
    BY DEF Accounted
  <2>2. QED
    BY <1>1, <1>3, <2>1 DEF GiveUp
<1>4. ASSUME NEW s \in Senders, Refuse(s) PROVE RefusalsCounted'
  <2>1. num[s] \in Pending
    BY <1>4, HeldIs DEF Refuse, Pending
  <2>2. num[s] \notin refused
    BY <2>1 DEF Accounted
  <2>3. QED
    BY <1>1, <1>4, <2>2 DEF Refuse
<1>5. ASSUME refused' = refused, ringFull' = ringFull, Refusing' = Refusing
      PROVE  RefusalsCounted'
  BY <1>5 DEF RefusalsCounted
<1>6. ASSUME NEW s \in Senders, NEW w, w # "refused",
             pc[s] # "refused", Goto(s, w)
      PROVE  Refusing' = Refusing
  BY <1>6 DEF Refusing, Goto
<1>7. CASE \/ RxTake \/ CopyLinkStats \/ CopyRadioStats \/ CountRejected
           \/ \E s \in Others : OtherSends(s)
           \/ \E s \in Senders : Lock(s) \/ TakeSeq(s) \/ Put(s)
  <2>1. refused' = refused /\ ringFull' = ringFull
    BY <1>7 DEF RxTake, CopyLinkStats, CopyRadioStats, CountRejected,
       OtherSends, Lock, TakeSeq, Put, history
  <2>2. \E s \in Senders : \E w \in {"idle", "reading", "waiting", "locked",
                                     "numbered"} :
          pc[s] # "refused" /\ Goto(s, w)
    BY <1>7, Known DEF RxTake, CopyLinkStats, CopyRadioStats, CountRejected,
       OtherSends, Lock, TakeSeq, Put
  <2>3. Refusing' = Refusing
    BY <1>6, <2>2
  <2>4. QED
    BY <1>5, <2>1, <2>3
<1>8. CASE \/ RadioHears \/ TxStep \/ StartCounting \/ SkipFrame \/ ReadFrame
           \/ UNCHANGED vars
  <2>1. pc' = pc /\ refused' = refused /\ ringFull' = ringFull
    BY <1>8 DEF RadioHears, TxStep, TxTake, TxWrite, TxWedge, StartCounting,
       SkipFrame, ReadFrame, vars, board, history
  <2>2. QED
    BY <1>5, <2>1 DEF Refusing
<1>9. QED
  BY <1>2, <1>3, <1>4, <1>7, <1>8 DEF Next, SenderStep

LEMMA LossStep == LossInv /\ [Next]_vars => LossInv'
  BY GapStep, AccountedStep, CountedStep DEF LossInv

\* Once all is settled, what is missing was refused or lost on the way.
LEMMA SettledAccount ==
  ASSUME LossInv, Settled, first # NoSeq, ~overrun,
         \A n \in refused : first < n
  PROVE  /\ IsFiniteSet(LostOnTheWay)
         /\ gaps = host.full + Cardinality(LostOnTheWay)
<1>1. /\ next \in Nat /\ newest = next - 1 /\ first \in Nat
      /\ refused \subseteq Nat /\ lost \subseteq Nat
      /\ first \in seen /\ newest \in seen
  BY DEF LossInv, GapInv, IInv, TypeOK, Tracked, Settled
<1>2. Pending = {} /\ Refusing = {}
  BY DEF Settled, Pending, Held, InFlight, Numbers, Refusing
<1>3. Cardinality(refused) = host.full /\ IsFiniteSet(refused)
  <2>1. Cardinality(refused) = ringFull + 0
    BY <1>2, FS_EmptySet DEF LossInv, RefusalsCounted
  <2>2. ringFull \in Nat /\ host.full = ringFull
    BY DEF LossInv, GapInv, IInv, TypeOK, Settled
  <2>3. QED
    BY <2>1, <2>2 DEF LossInv, RefusalsCounted
<1>4. Missing = refused \cup LostOnTheWay
  <2>1. \A n \in refused \cup lost : n < newest
    BY <1>1 DEF LossInv, Accounted
  <2>2. \A n \in refused \cup lost : n \notin seen
    BY DEF LossInv, Accounted
  <2>3. \A n \in Missing : n \in refused \cup lost
    BY <1>1 DEF Missing, LossInv, Accounted
  <2>4. \A n \in refused \cup LostOnTheWay : n \in Nat /\ first < n
    BY <1>1 DEF LostOnTheWay
  <2>5. ASSUME NEW n \in refused \cup LostOnTheWay PROVE n \in Missing
    <3>1. n \in refused \cup lost /\ n \in Nat /\ first < n
      BY <2>4 DEF LostOnTheWay
    <3>2. n < newest /\ n \notin seen
      BY <2>1, <2>2, <3>1
    <3>3. QED
      BY <1>1, <3>1, <3>2 DEF Missing
  <2>6. \A n \in Missing : first < n
    BY <1>1 DEF Missing
  <2>7. QED
    BY <2>3, <2>5, <2>6 DEF LostOnTheWay
<1>5. IsFiniteSet(LostOnTheWay)
  <2>1. IsFiniteSet(Missing)
    BY <1>1, MissingIsFinite
  <2>2. QED
    BY <1>4, <2>1, FS_Subset
<1>6. refused \cap LostOnTheWay = {}
  BY DEF LossInv, Accounted, LostOnTheWay
<1>7. Cardinality(Missing) = host.full + Cardinality(LostOnTheWay)
  <2>1. Cardinality(refused \cap LostOnTheWay) = 0
    BY <1>6, FS_EmptySet
  <2>2. Cardinality(refused) \in Nat /\ Cardinality(LostOnTheWay) \in Nat
    BY <1>3, <1>5, FS_CardinalityType
  <2>3. Cardinality(refused \cup LostOnTheWay) = Cardinality(refused)
           + Cardinality(LostOnTheWay) - Cardinality(refused \cap LostOnTheWay)
    BY <1>3, <1>5, FS_Union
  <2>4. QED
    BY <1>3, <1>4, <2>1, <2>2, <2>3
<1>8. QED
  BY <1>5, <1>7 DEF LossInv, GapInv, GapsAreMissing

(* When all is settled, packets_dropped is what the radio's queue refused, *)
(* what the link refused and what was lost on the way, each counted once,  *)
(* as long as nothing was refused before the first frame the host counted. *)
THEOREM EachLossOnce == Spec => []LossCountedOnce
<1>1. ASSUME LossInv PROVE LossCountedOnce
  <2> SUFFICES ASSUME first # NoSeq, ~overrun, Settled,
                      \A n \in refused : first < n
               PROVE  PacketsDropped
                        = isrFull + rejected + Cardinality(LostOnTheWay)
    BY DEF LossCountedOnce
  <2>1. /\ gaps = host.full + Cardinality(LostOnTheWay)
        /\ Cardinality(LostOnTheWay) \in Nat
    BY <1>1, SettledAccount, FS_CardinalityType
  <2>2. /\ host.isr = isrFull /\ host.rej = rejected /\ host.full = ringFull
        /\ isrFull \in Nat /\ rejected \in Nat /\ ringFull \in Nat
    BY <1>1 DEF Settled, LossInv, GapInv, IInv, TypeOK
  <2>3. QED
    BY <2>1, <2>2 DEF PacketsDropped
<1>2. QED
  BY <1>1, LossStart, LossStep, PTL DEF Spec
=============================================================================
