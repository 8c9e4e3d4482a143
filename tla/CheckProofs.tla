---------------------------- MODULE CheckProofs -----------------------------
(***************************************************************************)
(* Proofs about Check keys, for any bounds: that the session's lists are   *)
(* put back after a check, and that a packet is given to the side it was   *)
(* heard for.                                                              *)
(***************************************************************************)
EXTENDS CaptureLoopProofs

-----------------------------------------------------------------------------
(* The ends of the wire.                                                   *)

\* The board reads the first message.
LEMMA Shift ==
  ASSUME TypeOK, inbox # <<>>, inbox' = Tail(inbox)
  PROVE  /\ Len(inbox) \in Nat /\ Len(inbox) > 0
         /\ Head(inbox) = inbox[1]
         /\ Len(inbox') = Len(inbox) - 1
         /\ \A i \in 1..Len(inbox) - 1 : inbox'[i] = inbox[i + 1]
         /\ Len(inbox) = 1 => inbox' = <<>>
<1>1. inbox \in Seq(Sendable)
  BY DEF TypeOK
<1>2. /\ Len(inbox') = Len(inbox) - 1
      /\ \A i \in 1..Len(inbox) - 1 : inbox'[i] = inbox[i + 1]
      /\ inbox' \in Seq(Sendable)
  BY <1>1, HeadTailProperties
<1>3. Len(inbox) \in Nat /\ Len(inbox) > 0 /\ Head(inbox) = inbox[1]
  BY <1>1
<1>4. Len(inbox') = 0 => inbox' = <<>>
  BY <1>2
<1>5. QED
  BY <1>2, <1>3, <1>4

\* The host writes one message, or two.
LEMMA Grow ==
  ASSUME TypeOK
  PROVE  /\ Len(inbox) \in Nat
         /\ Len(inbox) = 0 <=> inbox = <<>>
         /\ \A m \in Sendable : Write(<<m>>) =>
              /\ Len(inbox') = Len(inbox) + 1
              /\ \A i \in 1..Len(inbox) : inbox'[i] = inbox[i]
              /\ inbox'[Len(inbox) + 1] = m
         /\ \A l \in Lists : StartWith(l) =>
              /\ Len(inbox') = Len(inbox) + 2
              /\ \A i \in 1..Len(inbox) : inbox'[i] = inbox[i]
              /\ inbox'[Len(inbox) + 1] = ListsAre(l)
              /\ inbox'[Len(inbox) + 2] = Message("start")
<1>1. inbox \in Seq(Sendable)
  BY DEF TypeOK
<1>2. Len(inbox) \in Nat /\ (Len(inbox) = 0 <=> inbox = <<>>)
  BY <1>1
<1>3. ASSUME NEW m \in Sendable, Write(<<m>>)
      PROVE  /\ Len(inbox') = Len(inbox) + 1
             /\ \A i \in 1..Len(inbox) : inbox'[i] = inbox[i]
             /\ inbox'[Len(inbox) + 1] = m
  <2>1. inbox' = inbox \o <<m>> /\ <<m>> \in Seq(Sendable)
    BY <1>3 DEF Write
  <2>2. Len(<<m>>) = 1 /\ <<m>>[1] = m
    OBVIOUS
  <2>3. QED
    BY <1>1, <1>2, <2>1, <2>2, ConcatProperties
<1>4. ASSUME NEW l \in Lists, StartWith(l)
      PROVE  /\ Len(inbox') = Len(inbox) + 2
             /\ \A i \in 1..Len(inbox) : inbox'[i] = inbox[i]
             /\ inbox'[Len(inbox) + 1] = ListsAre(l)
             /\ inbox'[Len(inbox) + 2] = Message("start")
  <2> DEFINE two == <<ListsAre(l), Message("start")>>
  <2>1. ListsAre(l) \in Sendable /\ Message("start") \in Sendable
    BY Things DEF Commands
  <2>2. two \in Seq(Sendable)
    BY <2>1
  <2>3. Len(two) = 2 /\ two[1] = ListsAre(l) /\ two[2] = Message("start")
    OBVIOUS
  <2>4. inbox' = inbox \o two
    BY <1>4 DEF Write, StartWith
  <2> HIDE DEF two
  <2>5. /\ Len(inbox') = Len(inbox) + 2
        /\ \A i \in 1..Len(inbox) + 2 :
             inbox'[i] = IF i <= Len(inbox) THEN inbox[i]
                                            ELSE two[i - Len(inbox)]
    <3>1. /\ Len(inbox \o two) = Len(inbox) + Len(two)
          /\ \A i \in 1..Len(inbox) + Len(two) :
               (inbox \o two)[i] = IF i <= Len(inbox) THEN inbox[i]
                                                     ELSE two[i - Len(inbox)]
      BY <1>1, <2>2, ConcatProperties, Zenon
    <3>2. QED
      BY <2>3, <2>4, <3>1
  <2>6. /\ Len(inbox) + 1 \in 1..Len(inbox) + 2
        /\ Len(inbox) + 2 \in 1..Len(inbox) + 2
        /\ Len(inbox) + 1 - Len(inbox) = 1 /\ Len(inbox) + 2 - Len(inbox) = 2
    BY <1>2
  <2>7. inbox'[Len(inbox) + 1] = two[1] /\ inbox'[Len(inbox) + 2] = two[2]
    BY <1>2, <2>5, <2>6
  <2>8. \A i \in 1..Len(inbox) : inbox'[i] = inbox[i]
    BY <1>2, <2>5
  <2>9. QED
    BY <2>3, <2>5, <2>7, <2>8
<1>5. QED
  BY <1>2, <1>3, <1>4

\* What is left after a read is the rest of it.
LEMMA Later ==
  ASSUME TypeOK, NEW k \in 0..Len(outbox), NEW i \in 1..Len(Unread(k))
  PROVE  /\ k + i \in 1..Len(outbox) /\ k + i > k
         /\ Unread(k)[i] = outbox[k + i]
<1>1. Len(outbox) \in Nat
  BY DEF TypeOK
<1>2. Len(Unread(k)) = Len(outbox) - k
  BY NoneAfter
<1>3. i \in 1..Len(outbox) - k
  BY <1>2
<1>4. Unread(k)[i] = outbox[k + i]
  BY <1>3, NoneAfter
<1>5. k + i \in 1..Len(outbox) /\ k + i > k
  BY <1>1, <1>3
<1>6. QED
  BY <1>4, <1>5

\* A frame of one kind goes to the end of what the host has yet to read, or
\* is refused.
Sends(of, ok, lists) ==
  \/ outbox' = outbox
  \/ /\ Len(outbox') = Len(outbox) + 1
     /\ \A i \in 1..Len(outbox) : outbox'[i] = outbox[i]
     /\ outbox'[Len(outbox) + 1].of = of
     /\ outbox'[Len(outbox) + 1].ok = ok
     /\ outbox'[Len(outbox) + 1].lists = lists

LEMMA Sending ==
  ASSUME TypeOK
  PROVE  /\ \A c \in Commands, b \in BOOLEAN :
              Emit(Reply(c, b)) => Sends(c, b, None)
         /\ Emit(Packet) => Sends("packet", TRUE, loaded)
<1>1. ASSUME NEW frame \in Frame, Emit(frame)
      PROVE  Sends(frame.of, frame.ok, frame.lists)
  <2>1. CASE outbox' = outbox
    BY <2>1 DEF Sends
  <2>2. CASE outbox' = Append(outbox, [frame EXCEPT !.n = sent + 1])
    <3> DEFINE f == [frame EXCEPT !.n = sent + 1]
    <3>0. sent + 1 \in Nat
      BY DEF TypeOK
    <3>1. f \in Frame
      BY <3>0, Things
    <3>2. f.of = frame.of /\ f.ok = frame.ok /\ f.lists = frame.lists
      BY DEF Frame
    <3>3. outbox \in Seq(Frame)
      BY DEF TypeOK
    <3>4. outbox' = Append(outbox, f)
      BY <2>2
    <3> HIDE DEF f
    <3>5. QED
      BY <3>1, <3>2, <3>3, <3>4, AppendProperties DEF Sends
  <2>3. QED
    BY <1>1, <2>1, <2>2 DEF Emit
<1>2. ASSUME NEW c \in Commands, NEW b \in BOOLEAN, Emit(Reply(c, b))
      PROVE  Sends(c, b, None)
  <2>1. Reply(c, b) \in Frame
    BY Things DEF Reply
  <2>2. Reply(c, b).of = c /\ Reply(c, b).ok = b /\ Reply(c, b).lists = None
    BY DEF Reply
  <2>3. QED
    BY <1>1, <1>2, <2>1, <2>2
<1>3. ASSUME Emit(Packet) PROVE Sends("packet", TRUE, loaded)
  <2>1. Packet \in Frame
    BY Things DEF Packet, TypeOK
  <2>2. /\ Packet.of = "packet" /\ Packet.ok = TRUE /\ Packet.lists = loaded
    BY DEF Packet
  <2>3. QED
    BY <1>1, <1>3, <2>1, <2>2
<1>4. QED
  BY <1>2, <1>3

-----------------------------------------------------------------------------
(* One command of a kind at a time.                                        *)

Awaits(c) == pc = "await" /\ awaited = c

\* A command is on its way, or its reply is, only while it is awaited: it is
\* the last thing written, and once it has been read nothing else is unread.
AtMostOne(c) ==
  /\ \A i \in 1..Len(inbox) : inbox[i].is = c => Awaits(c) /\ i = Len(inbox)
  /\ \A i \in 1..Len(outbox) : outbox[i].of = c =>
       /\ Awaits(c) /\ inbox = <<>>
       /\ \A j \in 1..Len(outbox) : outbox[j].of = c => j = i

\* So it is with a kind of which none has been given up, until the capture is
\* closed, when a STOP is sent that nobody waits for.
Away(c) == c \notin late /\ pc # "closed" => AtMostOne(c)

\* The board reads a message and may reply to it.
LEMMA AwayRead ==
  ASSUME TypeOK, NEW c \in {"stop", "start"}, AtMostOne(c), UNCHANGED <<pc, awaited>>,
         inbox # <<>>, inbox' = Tail(inbox), NEW d, NEW b, NEW l,
         outbox' = outbox \/ Sends(d, b, l), d = c => Head(inbox).is = c
  PROVE  AtMostOne(c)'
<1>1. /\ Len(inbox) \in Nat /\ Len(inbox) > 0 /\ Head(inbox) = inbox[1]
      /\ Len(inbox') = Len(inbox) - 1
      /\ \A i \in 1..Len(inbox) - 1 : inbox'[i] = inbox[i + 1]
      /\ Len(inbox) = 1 => inbox' = <<>>
  BY Shift
<1>2. Awaits(c)' <=> Awaits(c)
  BY DEF Awaits
<1>3. \A i \in 1..Len(outbox) : outbox[i].of # c
  BY DEF AtMostOne
<1>4. \A i \in 1..Len(inbox') :
        inbox'[i].is = c => Awaits(c)' /\ i = Len(inbox')
  <2> SUFFICES ASSUME NEW i \in 1..Len(inbox'), inbox'[i].is = c
               PROVE  Awaits(c)' /\ i = Len(inbox')
    OBVIOUS
  <2>1. i + 1 \in 1..Len(inbox) /\ inbox[i + 1].is = c
    BY <1>1
  <2>2. Awaits(c)
    BY <2>1 DEF AtMostOne
  <2>3. i + 1 = Len(inbox)
    BY <2>1 DEF AtMostOne
  <2>4. Len(inbox') = Len(inbox) - 1 /\ Len(inbox) \in Nat
    BY <1>1
  <2>5. i \in Int
    BY <2>4
  <2>6. i = Len(inbox')
    BY <2>3, <2>4, <2>5
  <2>7. Awaits(c)'
    BY <1>2, <2>2
  <2>8. QED
    BY <2>6, <2>7
<1>5. outbox \in Seq(Frame)
  BY DEF TypeOK
<1>6. CASE Head(inbox).is = c
  <2>1. 1 \in 1..Len(inbox) /\ inbox[1].is = c
    BY <1>1, <1>6
  <2>2. Awaits(c) /\ 1 = Len(inbox)
    BY <2>1 DEF AtMostOne
  <2>3. Awaits(c)' /\ inbox' = <<>>
    BY <1>1, <1>2, <2>2
  <2>4. \A i \in 1..Len(outbox') : outbox'[i].of = c => i = Len(outbox) + 1
    BY <1>3, <1>5 DEF Sends
  <2>5. QED
    BY <1>4, <2>3, <2>4 DEF AtMostOne
<1>7. CASE Head(inbox).is # c
  <2>1. \A i \in 1..Len(outbox') : outbox'[i].of # c
    BY <1>3, <1>5, <1>7 DEF Sends
  <2>2. QED
    BY <1>4, <2>1 DEF AtMostOne
<1>8. QED
  BY <1>6, <1>7

LEMMA AwayBoard ==
  ASSUME TypeOK, NEW c \in {"stop", "start"}, Away(c), Hear \/ Handle
  PROVE  Away(c)'
<1>1. UNCHANGED <<pc, awaited, late>>
  BY DEF Hear, Handle, HandleLists, HandleStart, HandleStop, HandleAntenna,
     Reads, host, loop, results
<1> SUFFICES ASSUME AtMostOne(c) PROVE AtMostOne(c)'
  BY <1>1 DEF Away
<1>2. c \in Commands
  BY DEF Commands
<1>3. CASE Hear
  <2>1. inbox' = inbox /\ Sends("packet", TRUE, loaded)
    BY <1>3, Sending DEF Hear
  <2>2. outbox \in Seq(Frame)
    BY DEF TypeOK
  <2>3. \A i \in 1..Len(outbox') :
          outbox'[i].of = c => i \in 1..Len(outbox) /\ outbox'[i] = outbox[i]
    BY <2>1, <2>2 DEF Sends
  <2>4. \A i \in 1..Len(outbox') : outbox'[i].of = c =>
          /\ Awaits(c) /\ inbox = <<>>
          /\ \A j \in 1..Len(outbox') : outbox'[j].of = c => j = i
    BY <2>3 DEF AtMostOne
  <2>5. QED
    BY <1>1, <2>1, <2>4 DEF AtMostOne, Awaits
<1>4. CASE HandleLists
  <2>1. /\ inbox # <<>> /\ Head(inbox).is = "lists" /\ inbox' = Tail(inbox)
        /\ outbox' = outbox
    BY <1>4 DEF HandleLists, Reads
  <2>2. QED
    BY <1>1, <2>1, AwayRead
<1>5. CASE HandleStart
  <2>1. /\ inbox # <<>> /\ Head(inbox).is = "start" /\ inbox' = Tail(inbox)
    BY <1>5 DEF HandleStart, Reads
  <2>2. Sends("start", TRUE, None) \/ Sends("start", FALSE, None)
    BY <1>5, Sending DEF HandleStart, Commands
  <2>3. QED
    BY <1>1, <2>1, <2>2, AwayRead
<1>6. CASE HandleStop
  <2>1. /\ inbox # <<>> /\ Head(inbox).is = "stop" /\ inbox' = Tail(inbox)
    BY <1>6 DEF HandleStop, Reads
  <2>2. Sends("stop", TRUE, None)
    BY <1>6, Sending DEF HandleStop, Commands
  <2>3. QED
    BY <1>1, <2>1, <2>2, AwayRead
<1>7. CASE HandleAntenna
  <2>1. /\ inbox # <<>> /\ Head(inbox).is = "antenna" /\ inbox' = Tail(inbox)
    BY <1>7 DEF HandleAntenna, Reads
  <2>2. Sends("antenna", TRUE, None) \/ Sends("antenna", FALSE, None)
    BY <1>7, Sending DEF HandleAntenna, Commands
  <2>3. QED
    BY <1>1, <2>1, <2>2, AwayRead
<1>8. QED
  BY <1>3, <1>4, <1>5, <1>6, <1>7 DEF Handle

\* Nothing of a kind that is not awaited is on its way.
LEMMA NoneAway ==
  ASSUME NEW c, AtMostOne(c), ~Awaits(c)
  PROVE  /\ \A i \in 1..Len(inbox) : inbox[i].is # c
         /\ \A i \in 1..Len(outbox) : outbox[i].of # c
  BY DEF AtMostOne

\* What the loop writes when it waits for nothing.
LEMMA AwayWrite ==
  ASSUME TypeOK, NEW c \in {"stop", "start"}, Away(c),
         \/ TakeCheck \/ EndCheck \/ TakeAntenna \/ Close
         \/ Listen \/ Restore \/ Abandon
  PROVE  Away(c)'
<1>1. /\ pc # "await" /\ pc # "closed" /\ late' = late /\ outbox' = outbox
  BY DEF TakeCheck, EndCheck, TakeAntenna, Close, Listen, Restore, Abandon,
     results, wire
<1> SUFFICES ASSUME AtMostOne(c), pc' # "closed" PROVE AtMostOne(c)'
  BY <1>1 DEF Away
<1>2. /\ \A i \in 1..Len(inbox) : inbox[i].is # c
      /\ \A i \in 1..Len(outbox) : outbox[i].of # c
  BY <1>1, NoneAway DEF Awaits
<1>3. Len(inbox) \in Nat
  BY Grow
<1>4. CASE TakeCheck \/ EndCheck
  <2>1. Write(<<Message("stop")>>) /\ Awaits("stop")'
    BY <1>4 DEF TakeCheck, EndCheck, Await, Awaits
  <2>2. Message("stop") \in Sendable /\ Message("stop").is = "stop"
    BY Things DEF Commands, Message
  <2>3. /\ Len(inbox') = Len(inbox) + 1
        /\ \A i \in 1..Len(inbox) : inbox'[i] = inbox[i]
        /\ inbox'[Len(inbox) + 1] = Message("stop")
    BY <2>1, <2>2, Grow
  <2>4. \A i \in 1..Len(inbox') :
          inbox'[i].is = c => c = "stop" /\ i = Len(inbox')
    BY <1>2, <1>3, <2>2, <2>3
  <2>5. QED
    BY <1>1, <1>2, <2>1, <2>4 DEF AtMostOne
<1>5. CASE TakeAntenna
  <2> DEFINE m == [is |-> "antenna", value |-> pendingAntenna, lists |-> None]
  <2>1. pendingAntenna \in Antennas
    BY <1>5 DEF TakeAntenna, TypeOK
  <2>2. m \in Sendable /\ m.is = "antenna" /\ Write(<<m>>)
    BY <1>5, <2>1, Things DEF TakeAntenna
  <2> HIDE DEF m
  <2>3. /\ Len(inbox') = Len(inbox) + 1
        /\ \A i \in 1..Len(inbox) : inbox'[i] = inbox[i]
        /\ inbox'[Len(inbox) + 1] = m
    BY <2>2, Grow
  <2>4. \A i \in 1..Len(inbox') : inbox'[i].is # c
    BY <1>2, <1>3, <2>2, <2>3
  <2>5. QED
    BY <1>1, <1>2, <2>4 DEF AtMostOne
<1>6. CASE Listen \/ Restore \/ Abandon
  <2>1. Awaits("start")' /\ \E l \in Lists : StartWith(l)
    BY <1>6, Known DEF Listen, Restore, Abandon, Restart, Await, Awaits
  <2>2. PICK l \in Lists : StartWith(l)
    BY <2>1
  <2>3. /\ Len(inbox') = Len(inbox) + 2
        /\ \A i \in 1..Len(inbox) : inbox'[i] = inbox[i]
        /\ inbox'[Len(inbox) + 1] = ListsAre(l)
        /\ inbox'[Len(inbox) + 2] = Message("start")
    BY <2>2, Grow
  <2>4. ListsAre(l).is = "lists" /\ Message("start").is = "start"
    BY DEF ListsAre, Message
  <2>5. \A i \in 1..Len(inbox') :
          inbox'[i].is = c => c = "start" /\ i = Len(inbox')
    BY <1>2, <1>3, <2>3, <2>4
  <2>6. QED
    BY <1>1, <1>2, <2>1, <2>5 DEF AtMostOne
<1>7. CASE Close
  BY <1>7 DEF Close, Goto
<1>8. QED
  BY <1>4, <1>5, <1>6, <1>7

\* What the loop reads of what has arrived.
LEMMA AwayTaken ==
  ASSUME TypeOK, NEW c \in {"stop", "start"}, Away(c),
         Read \/ LookInVain \/ Found
  PROVE  Away(c)'
<1>1. /\ pc # "closed" /\ late' = late /\ inbox' = inbox
  BY DEF Read, LookInVain, Found, results
<1> SUFFICES ASSUME AtMostOne(c) PROVE AtMostOne(c)'
  BY <1>1 DEF Away
<1>3. outbox \in Seq(Frame) /\ Len(outbox) \in Nat
  BY DEF TypeOK
<1>4. CASE ~Awaits(c)
  <2>1. /\ \A i \in 1..Len(inbox) : inbox[i].is # c
        /\ \A i \in 1..Len(outbox) : outbox[i].of # c
    BY <1>4, NoneAway
  <2>2. PICK k \in 0..Len(outbox) : outbox' = Unread(k)
    BY DEF Read, LookInVain, Found
  <2>3. ASSUME NEW i \in 1..Len(outbox') PROVE outbox'[i].of # c
    BY <2>1, <2>2, Later
  <2>4. QED
    BY <1>1, <2>1, <2>3 DEF AtMostOne
<1>5. CASE Awaits(c) /\ LookInVain
  <2>1. PICK k \in 0..Len(outbox) : outbox' = Unread(k)
    BY <1>5 DEF LookInVain
  <2>2. Awaits(c)'
    BY <1>5 DEF LookInVain, loop, Awaits
  <2>3. \A i \in 1..Len(outbox') :
          k + i \in 1..Len(outbox) /\ outbox'[i] = outbox[k + i]
    BY <2>1, Later
  <2>4. ASSUME NEW i \in 1..Len(outbox'), outbox'[i].of = c
        PROVE  /\ inbox = <<>>
               /\ \A j \in 1..Len(outbox') : outbox'[j].of = c => j = i
    <3>1. inbox = <<>>
      BY <2>3, <2>4 DEF AtMostOne
    <3>2. \A j \in 1..Len(outbox') : outbox'[j].of = c => k + j = k + i
      BY <2>3, <2>4 DEF AtMostOne
    <3>3. QED
      BY <3>1, <3>2
  <2>5. QED
    BY <1>1, <1>5, <2>2, <2>4 DEF AtMostOne
<1>6. CASE Awaits(c) /\ Found
  <2>1. PICK k \in 1..Len(outbox) : \E i \in Answers(k) : outbox' = Unread(k)
    BY <1>6 DEF Found
  <2>2. PICK i \in 1..k : outbox[i].of = c /\ outbox' = Unread(k)
    BY <1>6, <2>1 DEF Answers, IsReply, Awaits
  <2>3. i \in 1..Len(outbox) /\ inbox = <<>>
    BY <1>3, <2>2 DEF AtMostOne
  <2>4. \A j \in 1..Len(outbox) : outbox[j].of = c => j = i
    BY <2>2, <2>3 DEF AtMostOne
  <2>5. \A j \in 1..Len(outbox') :
          /\ k + j \in 1..Len(outbox) /\ k + j > k
          /\ outbox'[j] = outbox[k + j]
    BY <2>2, Later
  <2>6. ASSUME NEW j \in 1..Len(outbox') PROVE outbox'[j].of # c
    <3>1. k + j # i
      BY <2>2, <2>5
    <3>2. QED
      BY <2>4, <2>5, <3>1
  <2>7. QED
    BY <1>1, <2>3, <2>6 DEF AtMostOne
<1>7. QED
  BY <1>4, <1>5, <1>6 DEF Read, Awaits

LEMMA AwayStep ==
  ASSUME TypeOK, NEW c \in {"stop", "start"}, Away(c), [Next]_vars
  PROVE  Away(c)'
<1>1. CASE Hear \/ Handle
  BY <1>1, AwayBoard
<1>2. CASE \/ TakeCheck \/ EndCheck \/ TakeAntenna \/ Close
           \/ Listen \/ Restore \/ Abandon
  BY <1>2, AwayWrite
<1>3. CASE Read \/ LookInVain \/ Found
  BY <1>3, AwayTaken
<1>4. CASE TimedOut
  <2>1. CASE NothingComes
    <3>1. inbox' = <<>> /\ outbox' = <<>>
      BY <1>4, <2>1 DEF TimedOut, NothingComes, wire
    <3>2. QED
      BY <3>1 DEF Away, AtMostOne
  <2>2. CASE ~NothingComes
    <3>1. /\ pc = "await" /\ late' = late \cup {awaited}
          /\ UNCHANGED <<inbox, outbox>>
      BY <1>4, <2>2 DEF TimedOut, wire
    <3>2. c \notin late' => ~Awaits(c) /\ AtMostOne(c)
      BY <3>1 DEF Away, Awaits
    <3>3. QED
      BY <3>1, <3>2, NoneAway DEF Away, AtMostOne
  <2>3. QED
    BY <2>1, <2>2
<1>5. ASSUME UNCHANGED <<inbox, outbox, late>>, pc # "await" \/ UNCHANGED loop,
             pc = "closed" => pc' = "closed"
      PROVE  Away(c)'
  BY <1>5 DEF Away, AtMostOne, Awaits, loop
<1>6. CASE Boundary \/ Listening \/ Finished \/ Switched \/ Delivered \/ MoveOn
  BY <1>5, <1>6 DEF Boundary, Listening, Finished, Switched, Delivered, MoveOn,
     Over, wire, results
<1>7. CASE Record \/ Others \/ TimeUp
  BY <1>5, <1>7 DEF Record, Others, RequestCheck, RequestAntenna, RequestStop,
     TimeUp, loop, wire, results
<1>8. CASE UNCHANGED vars
  <2>1. UNCHANGED <<inbox, outbox, late>> /\ UNCHANGED loop
    BY <1>8 DEF vars, host, wire, results
  <2>2. QED
    BY <1>5, <2>1 DEF loop
<1>9. QED
  BY <1>1, <1>2, <1>3, <1>4, <1>6, <1>7, <1>8 DEF Next, HostStep

-----------------------------------------------------------------------------
(* The lists are put back.                                                 *)

Working == pc \in {"await", "answered", "unmet", "deliver"}

\* The last message on its way stops the board, or it has been stopped.
StopSent ==
  IF inbox = <<>> THEN ~scanning ELSE inbox[Len(inbox)].is = "stop"

\* So it is from the STOP that begins or ends a check to what follows it.
Stopping == Working /\ then \in {"listen", "finish"} => StopSent

\* What is awaited is what the purpose calls for.
Paired ==
  pc = "await" =>
    /\ then \in {"listen", "finish"} => awaited = "stop"
    /\ then \in {"listening", "restarted", "abandoned"} => awaited = "start"
    /\ then = "antenna" => awaited = "antenna"

\* A START whose reply says it failed left the board silent.
StartRefused ==
  Awaits("start") /\ "start" \notin late =>
    \A i \in 1..Len(outbox) :
      outbox[i].of = "start" /\ ~outbox[i].ok => ~scanning

\* The answers are known for what they are.
Trusted == ~startUnanswered /\ ~mistaken

\* The START that begins a check was refused.
NotBegun ==
  Trusted /\ then = "listening" /\ pc = "unmet" => inbox = <<>> /\ ~scanning

\* When the board has read message k, and then switched antennas, it applies
\* the session's lists or is silent.
Loads(k) ==
  /\ inbox[k].is = "start"
  /\ \A i \in 1..Len(inbox) : i > k => inbox[i].is = "antenna"
  /\ \/ k = 1 /\ ~scanning /\ stored = Session
     \/ k = 2 /\ ~scanning /\ inbox[1] = ListsAre(Session)
     \/ k > 2 /\ inbox[k - 1] = ListsAre(Session) /\ inbox[k - 2].is = "stop"

Applied ==
  /\ \A i \in 1..Len(inbox) : inbox[i].is = "antenna"
  /\ scanning => loaded = Session

Settles == Applied \/ \E k \in 1..Len(inbox) : Loads(k)

\* Outside a check, and the STOP that begins one, the board ends up with the
\* session's lists by what has been written to it.
Restored ==
  Trusted /\ ~check /\ ~(Working /\ then = "listen") /\ pc # "closed" => Settles

PutBackInv ==
  /\ Stopping /\ Paired /\ Away("start") /\ StartRefused /\ NotBegun /\ Restored

\* The board reads what would leave it with the session's lists.
LEMMA SettlesBoard ==
  ASSUME TypeOK, Settles, Hear \/ Handle
  PROVE  Settles'
<1>1. CASE Hear
  BY <1>1 DEF Hear, Settles, Applied, Loads
<1>2. CASE Handle
  <2>1. inbox # <<>> /\ inbox' = Tail(inbox)
    BY <1>2 DEF Handle, HandleLists, HandleStart, HandleStop, HandleAntenna,
       Reads
  <2>2. /\ Len(inbox) \in Nat /\ Len(inbox) > 0 /\ Head(inbox) = inbox[1]
        /\ Len(inbox') = Len(inbox) - 1
        /\ \A i \in 1..Len(inbox) - 1 : inbox'[i] = inbox[i + 1]
    BY <2>1, Shift
  <2>3. 1 \in 1..Len(inbox)
    BY <2>2
  <2>4. CASE Applied
    <3>1. inbox[1].is = "antenna"
      BY <2>3, <2>4 DEF Applied
    <3>2. HandleAntenna
      BY <1>2, <2>2, <3>1 DEF Handle, HandleLists, HandleStart, HandleStop,
         Reads
    <3>3. UNCHANGED <<scanning, loaded>>
      BY <3>2 DEF HandleAntenna
    <3>4. \A i \in 1..Len(inbox') : inbox'[i].is = "antenna"
      BY <2>2, <2>4 DEF Applied
    <3>5. QED
      BY <2>4, <3>3, <3>4 DEF Settles, Applied
  <2>5. ASSUME NEW k \in 1..Len(inbox), Loads(k)
        PROVE  Settles'
    <3>1. \A i \in 1..Len(inbox') : i > k - 1 => inbox'[i].is = "antenna"
      BY <2>2, <2>5 DEF Loads
    <3>2. inbox[k].is = "start"
      BY <2>5 DEF Loads
    <3>3. CASE k = 1
      <4>1. ~scanning /\ stored = Session
        BY <2>5, <3>3 DEF Loads
      <4>2. Head(inbox).is = "start"
        BY <2>2, <3>2, <3>3
      <4>3. HandleStart
        BY <1>2, <4>2 DEF Handle, HandleLists, HandleStop, HandleAntenna, Reads
      <4>4. scanning' => loaded' = Session
        BY <4>1, <4>3 DEF HandleStart
      <4>5. QED
        BY <2>2, <3>1, <3>3, <4>4 DEF Settles, Applied
    <3>4. CASE k > 1
      <4>1. /\ k - 1 \in 1..Len(inbox') /\ inbox'[k - 1] = inbox[k]
        BY <2>2, <3>4
      <4>2. SUFFICES Loads(k - 1)'
        BY <4>1 DEF Settles
      <4>3. CASE k = 2
        <5>1. ~scanning /\ inbox[1] = ListsAre(Session)
          BY <2>5, <4>3 DEF Loads
        <5>2. Head(inbox).is = "lists" /\ Head(inbox).lists = Session
          BY <2>2, <5>1 DEF ListsAre
        <5>3. HandleLists
          BY <1>2, <5>2 DEF Handle, HandleStart, HandleStop, HandleAntenna,
             Reads
        <5>4. ~scanning' /\ stored' = Session
          BY <5>1, <5>2, <5>3 DEF HandleLists
        <5>5. QED
          BY <3>1, <3>2, <4>1, <4>3, <5>4 DEF Loads
      <4>4. CASE k = 3
        <5>1. inbox[2] = ListsAre(Session) /\ inbox[1].is = "stop"
          BY <2>5, <4>4 DEF Loads
        <5>2. HandleStop
          BY <1>2, <2>2, <5>1 DEF Handle, HandleLists, HandleStart,
             HandleAntenna, Reads
        <5>3. ~scanning' /\ inbox'[1] = ListsAre(Session)
          BY <2>2, <4>4, <5>1, <5>2 DEF HandleStop
        <5>4. QED
          BY <3>1, <3>2, <4>1, <4>4, <5>3 DEF Loads
      <4>5. CASE k > 3
        <5>1. inbox[k - 1] = ListsAre(Session) /\ inbox[k - 2].is = "stop"
          BY <2>5, <4>5 DEF Loads
        <5>2. /\ inbox'[k - 2] = inbox[k - 1] /\ inbox'[k - 3] = inbox[k - 2]
          BY <2>2, <4>5
        <5>3. k - 1 > 2 /\ (k - 1) - 1 = k - 2 /\ (k - 1) - 2 = k - 3
          BY <4>5
        <5>4. QED
          BY <3>1, <3>2, <4>1, <5>1, <5>2, <5>3 DEF Loads
      <4>6. QED
        BY <3>4, <4>3, <4>4, <4>5
    <3>5. QED
      BY <3>3, <3>4
  <2>6. QED
    BY <2>4, <2>5 DEF Settles
<1>3. QED
  BY <1>1, <1>2

\* An antenna switch changes nothing of it.
LEMMA SettlesAntenna ==
  ASSUME TypeOK, Settles, TakeAntenna
  PROVE  Settles'
<1> DEFINE m == [is |-> "antenna", value |-> pendingAntenna, lists |-> None]
<1>1. pendingAntenna \in Antennas
  BY DEF TakeAntenna, TypeOK
<1>2. m \in Sendable /\ m.is = "antenna" /\ Write(<<m>>)
  BY <1>1, Things DEF TakeAntenna
<1> HIDE DEF m
<1>3. /\ Len(inbox) \in Nat /\ Len(inbox') = Len(inbox) + 1
      /\ \A i \in 1..Len(inbox) : inbox'[i] = inbox[i]
      /\ inbox'[Len(inbox) + 1] = m
  BY <1>2, Grow
<1>4. UNCHANGED <<scanning, stored, loaded>>
  BY DEF TakeAntenna, board
<1>5. CASE Applied
  <2>1. \A i \in 1..Len(inbox') : inbox'[i].is = "antenna"
    BY <1>2, <1>3, <1>5 DEF Applied
  <2>2. QED
    BY <1>4, <1>5, <2>1 DEF Settles, Applied
<1>6. ASSUME NEW k \in 1..Len(inbox), Loads(k)
      PROVE  Settles'
  <2>1. k \in 1..Len(inbox') /\ inbox'[k] = inbox[k]
    BY <1>3
  <2>2. \A i \in 1..Len(inbox') : i > k => inbox'[i].is = "antenna"
    BY <1>2, <1>3, <1>6 DEF Loads
  <2>3. /\ k > 1 => inbox'[k - 1] = inbox[k - 1]
        /\ k > 2 => inbox'[k - 2] = inbox[k - 2]
    BY <1>3
  <2>4. k = 2 => k - 1 = 1
    OBVIOUS
  <2>5. Loads(k)'
    BY <1>4, <1>6, <2>1, <2>2, <2>3, <2>4 DEF Loads
  <2>6. QED
    BY <2>1, <2>5 DEF Settles
<1>7. QED
  BY <1>5, <1>6 DEF Settles

\* The session's lists and a START, to a board that has been stopped.
LEMMA SettlesRestart ==
  ASSUME TypeOK, StopSent, Restart, UNCHANGED scanning
  PROVE  Settles'
<1>1. /\ Len(inbox) \in Nat /\ Len(inbox') = Len(inbox) + 2
      /\ (Len(inbox) = 0 <=> inbox = <<>>)
      /\ \A i \in 1..Len(inbox) : inbox'[i] = inbox[i]
      /\ inbox'[Len(inbox) + 1] = ListsAre(Session)
      /\ inbox'[Len(inbox) + 2] = Message("start")
  BY Grow, Known DEF Restart
<1>0. PICK k \in Nat : k = Len(inbox) + 2
  BY <1>1
<1>2. k \in 1..Len(inbox') /\ k - 1 = Len(inbox) + 1 /\ k - 2 = Len(inbox)
  BY <1>0, <1>1
<1>3. inbox'[k].is = "start" /\ \A i \in 1..Len(inbox') : ~(i > k)
  BY <1>0, <1>1 DEF Message
<1>4. CASE inbox = <<>>
  <2>1. k = 2 /\ ~scanning' /\ inbox'[1] = ListsAre(Session)
    BY <1>0, <1>1, <1>4 DEF StopSent
  <2>2. QED
    BY <1>2, <1>3, <2>1 DEF Settles, Loads
<1>5. CASE inbox # <<>>
  <2>1. k > 2 /\ inbox'[k - 1] = ListsAre(Session) /\ inbox'[k - 2].is = "stop"
    BY <1>0, <1>1, <1>2, <1>5 DEF StopSent
  <2>2. Loads(k)'
    BY <1>3, <2>1 DEF Loads
  <2>3. QED
    BY <1>2, <2>2 DEF Settles
<1>6. QED
  BY <1>4, <1>5

LEMMA PairedStep == Paired /\ [Next]_vars => Paired'
<1> SUFFICES ASSUME Paired, [Next]_vars PROVE Paired'
  OBVIOUS
<1> USE DEF Paired
<1>1. CASE TakeCheck \/ EndCheck \/ TakeAntenna \/ Listen \/ Restore \/ Abandon
  BY <1>1 DEF TakeCheck, EndCheck, TakeAntenna, Listen, Restore, Abandon, Await
<1>2. CASE \/ MoveOn \/ Read \/ Delivered \/ Boundary \/ Listening \/ Finished
           \/ Switched \/ Close
  BY <1>2 DEF MoveOn, Read, Delivered, Boundary, Listening, Finished, Switched,
     Close, Goto, Deliver
<1>3. CASE Record \/ LookInVain \/ Found \/ TimedOut
  BY <1>3 DEF Record, LookInVain, Found, TimedOut, loop
<1>4. CASE Others \/ TimeUp
  BY <1>4 DEF Others, RequestCheck, RequestAntenna, RequestStop, TimeUp, loop
<1>5. CASE Hear \/ Handle \/ UNCHANGED vars
  BY <1>5, BoardKeepsHost DEF vars, host, loop
<1>6. QED
  BY <1>1, <1>2, <1>3, <1>4, <1>5 DEF Next, HostStep

\* The board reads the last message when it is the only one.
LEMMA StopSentBoard ==
  ASSUME TypeOK, StopSent, Hear \/ Handle
  PROVE  StopSent'
<1>1. CASE Hear
  BY <1>1 DEF Hear, StopSent
<1>2. CASE Handle
  <2>1. inbox # <<>> /\ inbox' = Tail(inbox)
    BY <1>2 DEF Handle, HandleLists, HandleStart, HandleStop, HandleAntenna,
       Reads
  <2>2. /\ Len(inbox) \in Nat /\ Len(inbox) > 0 /\ Head(inbox) = inbox[1]
        /\ Len(inbox') = Len(inbox) - 1
        /\ \A i \in 1..Len(inbox) - 1 : inbox'[i] = inbox[i + 1]
        /\ Len(inbox) = 1 => inbox' = <<>>
    BY <2>1, Shift
  <2>3. inbox[Len(inbox)].is = "stop"
    BY <2>1 DEF StopSent
  <2>4. CASE Len(inbox) = 1
    <3>1. HandleStop
      BY <1>2, <2>2, <2>3, <2>4 DEF Handle, HandleLists, HandleStart,
         HandleAntenna, Reads
    <3>2. ~scanning'
      BY <3>1 DEF HandleStop
    <3>3. QED
      BY <2>2, <2>4, <3>2 DEF StopSent
  <2>5. CASE Len(inbox) > 1
    <3>1. inbox'[Len(inbox) - 1] = inbox[Len(inbox)]
      BY <2>2, <2>5
    <3>2. inbox' # <<>>
      BY <2>2, <2>5
    <3>3. QED
      BY <2>2, <2>3, <3>1, <3>2 DEF StopSent
  <2>6. QED
    BY <2>2, <2>4, <2>5
<1>3. QED
  BY <1>1, <1>2

LEMMA StoppingStep ==
  ASSUME TypeOK, Stopping, [Next]_vars
  PROVE  Stopping'
<1>1. CASE Hear \/ Handle
  <2>1. UNCHANGED <<pc, then>>
    BY <1>1, BoardKeepsHost DEF host, loop
  <2>2. QED
    BY <1>1, <2>1, StopSentBoard DEF Stopping, Working
<1>2. CASE TakeCheck \/ EndCheck
  <2>1. Write(<<Message("stop")>>)
    BY <1>2 DEF TakeCheck, EndCheck
  <2>2. Message("stop") \in Sendable /\ Message("stop").is = "stop"
    BY Things DEF Commands, Message
  <2>3. /\ Len(inbox) \in Nat /\ Len(inbox') = Len(inbox) + 1
        /\ inbox'[Len(inbox) + 1] = Message("stop")
    BY <2>1, <2>2, Grow
  <2>4. inbox' # <<>>
    BY <2>3
  <2>5. QED
    BY <2>2, <2>3, <2>4 DEF Stopping, StopSent
<1>3. CASE TakeAntenna \/ Listen \/ Restore \/ Abandon
  BY <1>3 DEF TakeAntenna, Listen, Restore, Abandon, Await, Stopping
<1>4. CASE MoveOn \/ Read \/ Delivered \/ Listening \/ Finished \/ Switched \/ Close
  BY <1>4 DEF MoveOn, Read, Delivered, Listening, Finished, Switched, Close,
     Goto, Deliver, Stopping, Working
<1>5. ASSUME UNCHANGED <<inbox, scanning, then>>, Working' => Working
      PROVE  Stopping'
  BY <1>5 DEF Stopping, StopSent
<1>6. CASE Boundary \/ Record \/ LookInVain \/ Found \/ TimedOut
  BY <1>5, <1>6 DEF Boundary, Over, Deliver, Record, LookInVain, Found,
     TimedOut, loop, wire, board, Working
<1>7. CASE Others \/ TimeUp
  BY <1>5, <1>7 DEF Others, RequestCheck, RequestAntenna, RequestStop, TimeUp,
     loop, wire, board, Working
<1>8. CASE UNCHANGED vars
  <2>1. UNCHANGED loop /\ UNCHANGED wire /\ UNCHANGED board
    BY <1>8 DEF vars, host
  <2>2. QED
    BY <1>5, <2>1 DEF loop, wire, board, Working
<1>9. QED
  BY <1>1, <1>2, <1>3, <1>4, <1>6, <1>7, <1>8 DEF Next, HostStep

LEMMA StartRefusedStep ==
  ASSUME TypeOK, StartRefused, Away("start"), [Next]_vars
  PROVE  StartRefused'
<1>1. CASE Hear \/ Handle
  <2>1. UNCHANGED <<pc, awaited, late>>
    BY <1>1 DEF Hear, Handle, HandleLists, HandleStart, HandleStop,
       HandleAntenna, Reads, host, loop, results
  <2>2. outbox \in Seq(Frame)
    BY DEF TypeOK
  <2> SUFFICES ASSUME Awaits("start"), "start" \notin late,
                      NEW i \in 1..Len(outbox'),
                      outbox'[i].of = "start", ~outbox'[i].ok
               PROVE  ~scanning'
    BY <2>1 DEF StartRefused, Awaits
  <2>3. AtMostOne("start")
    BY DEF Away, Awaits
  <2>4. CASE i \in 1..Len(outbox) /\ outbox'[i] = outbox[i]
    <3>1. ~scanning /\ inbox = <<>>
      BY <2>3, <2>4 DEF StartRefused, AtMostOne
    <3>2. Hear
      BY <1>1, <3>1 DEF Handle, HandleLists, HandleStart, HandleStop,
         HandleAntenna, Reads
    <3>3. QED
      BY <3>1, <3>2 DEF Hear
  <2>5. CASE ~(i \in 1..Len(outbox) /\ outbox'[i] = outbox[i])
    <3>1. ASSUME NEW of, NEW ok, Sends(of, ok, None) \/ Sends(of, ok, loaded)
          PROVE  of = "start" /\ ~ok
      BY <2>2, <2>5, <3>1 DEF Sends
    <3>2. ~Hear
      BY <3>1, Sending DEF Hear
    <3>3. ~HandleLists
      BY <2>5 DEF HandleLists
    <3>4. ~HandleStop /\ ~HandleAntenna
      BY <3>1, Sending DEF HandleStop, HandleAntenna, Commands
    <3>5. HandleStart
      BY <1>1, <3>2, <3>3, <3>4 DEF Handle
    <3>6. ~Emit(Reply("start", TRUE))
      BY <3>1, Sending DEF Commands
    <3>7. QED
      BY <3>5, <3>6 DEF HandleStart
  <2>6. QED
    BY <2>4, <2>5
<1>2. CASE Listen \/ Restore \/ Abandon
  <2>1. /\ pc # "await" /\ pc # "closed" /\ UNCHANGED <<outbox, late>>
    BY <1>2 DEF Listen, Restore, Abandon, results
  <2>2. "start" \notin late => \A i \in 1..Len(outbox) : outbox[i].of # "start"
    BY <2>1 DEF Away, AtMostOne, Awaits
  <2>3. QED
    BY <2>1, <2>2 DEF StartRefused
<1>3. CASE \/ TakeCheck \/ EndCheck \/ TakeAntenna \/ MoveOn \/ Read
           \/ Delivered \/ Boundary \/ Listening \/ Finished \/ Switched \/ Close
  BY <1>3 DEF TakeCheck, EndCheck, TakeAntenna, MoveOn, Read, Delivered,
     Boundary, Listening, Finished, Switched, Close, Await, Goto, Deliver,
     StartRefused, Awaits
<1>4. CASE LookInVain
  <2>1. PICK k \in 0..Len(outbox) : outbox' = Unread(k)
    BY <1>4 DEF LookInVain
  <2>2. UNCHANGED <<pc, awaited, late, scanning>>
    BY <1>4 DEF LookInVain, loop, results, board
  <2>3. ASSUME StartRefused, Awaits("start"), "start" \notin late,
               NEW i \in 1..Len(outbox'), outbox'[i].of = "start",
               ~outbox'[i].ok
        PROVE  ~scanning'
    BY <2>1, <2>2, <2>3, Later DEF StartRefused
  <2>4. QED
    BY <2>2, <2>3 DEF StartRefused, Awaits
<1>5. CASE Found \/ TimedOut
  BY <1>5 DEF Found, TimedOut, StartRefused, Awaits
<1>6. ASSUME UNCHANGED <<pc, awaited, outbox, scanning, late>>
      PROVE  StartRefused'
  BY <1>6 DEF StartRefused, Awaits
<1>7. CASE Record \/ Others \/ TimeUp
  BY <1>6, <1>7 DEF Record, Others, RequestCheck, RequestAntenna, RequestStop,
     TimeUp, loop, wire, board, results
<1>8. CASE UNCHANGED vars
  <2>1. UNCHANGED loop /\ UNCHANGED wire /\ UNCHANGED board /\ late' = late
    BY <1>8 DEF vars, host, results
  <2>2. QED
    BY <1>6, <2>1 DEF loop, wire, board
<1>9. QED
  BY <1>1, <1>2, <1>3, <1>4, <1>5, <1>7, <1>8 DEF Next, HostStep

\* What was not late, mistaken or unanswered before a step that leaves it so.
LEMMA Before ==
  ASSUME TypeOK, [Next]_vars
  PROVE  /\ late' = {} => late = {}
         /\ ~mistaken' => ~mistaken
         /\ ~startUnanswered' => ~startUnanswered
<1>1. CASE Found \/ TimedOut
  BY <1>1 DEF Found, TimedOut, TypeOK
<1>2. CASE \/ TakeCheck \/ EndCheck \/ TakeAntenna \/ MoveOn \/ Read \/ Record
           \/ Listen \/ Restore \/ Delivered \/ LookInVain
  BY <1>2 DEF TakeCheck, EndCheck, TakeAntenna, MoveOn, Read, Record, Listen,
     Restore, Delivered, LookInVain, results
<1>3. CASE Boundary \/ Listening \/ Abandon \/ Finished \/ Switched \/ Close
  BY <1>3 DEF Boundary, Listening, Abandon, Finished, Switched, Close, results
<1>4. CASE Others \/ TimeUp
  BY <1>4 DEF Others, RequestCheck, RequestAntenna, RequestStop, TimeUp,
     results
<1>5. CASE Hear \/ Handle \/ UNCHANGED vars
  <2>1. UNCHANGED results
    BY <1>5 DEF Hear, Handle, HandleLists, HandleStart, HandleStop,
       HandleAntenna, Reads, vars
  <2>2. QED
    BY <2>1 DEF results
<1>6. QED
  BY <1>1, <1>2, <1>3, <1>4, <1>5 DEF Next, HostStep

LEMMA NotBegunStep ==
  ASSUME TypeOK, NotBegun, Paired, Away("start"), StartRefused, [Next]_vars
  PROVE  NotBegun'
<1> SUFFICES ASSUME Trusted', then' = "listening", pc' = "unmet"
             PROVE  inbox' = <<>> /\ ~scanning'
  BY DEF NotBegun
<1>0. Trusted
  BY Before DEF Trusted
<1>1. CASE Hear \/ Handle
  <2>1. UNCHANGED <<pc, then>>
    BY <1>1, BoardKeepsHost DEF host, loop
  <2>2. inbox = <<>> /\ ~scanning
    BY <1>0, <2>1 DEF NotBegun
  <2>3. QED
    BY <1>1, <2>2 DEF Hear, Handle, HandleLists, HandleStart, HandleStop,
       HandleAntenna, Reads
<1>2. CASE TakeCheck \/ EndCheck \/ TakeAntenna \/ Listen \/ Restore \/ Abandon
  BY <1>2 DEF TakeCheck, EndCheck, TakeAntenna, Listen, Restore, Abandon, Await
<1>3. CASE \/ MoveOn \/ Read \/ Delivered \/ Boundary \/ Listening \/ Finished
           \/ Switched \/ Close
  BY <1>3 DEF MoveOn, Read, Delivered, Boundary, Listening, Finished, Switched,
     Close, Goto, Deliver
<1>4. CASE LookInVain
  BY <1>4 DEF LookInVain, loop
<1>5. CASE Found
  <2>1. pc = "await" /\ then = "listening" /\ ~mistaken'
    BY <1>5 DEF Found, Trusted
  <2>2. Awaits("start") /\ "start" \notin late /\ AtMostOne("start")
    BY <1>5, <2>1 DEF Found, Paired, Awaits, Away
  <2>3. PICK k \in 1..Len(outbox) : \E i \in Answers(k) :
          pc' = IF outbox[i].ok THEN "answered" ELSE "unmet"
    BY <1>5 DEF Found
  <2>4. PICK i \in Answers(k) : ~outbox[i].ok
    BY <2>3
  <2>5. i \in 1..Len(outbox) /\ outbox[i].of = "start"
    <3>1. Len(outbox) \in Nat
      BY DEF TypeOK
    <3>2. QED
      BY <2>2, <2>4, <3>1 DEF Answers, IsReply, Awaits
  <2>6. inbox = <<>> /\ ~scanning
    BY <2>2, <2>4, <2>5 DEF AtMostOne, StartRefused
  <2>7. QED
    BY <1>5, <2>6 DEF Found, board
<1>6. CASE TimedOut
  BY <1>6 DEF TimedOut, Trusted
<1>7. ASSUME UNCHANGED <<pc, then, inbox, scanning>>
      PROVE  inbox' = <<>> /\ ~scanning'
  BY <1>0, <1>7 DEF NotBegun
<1>8. CASE Record \/ Others \/ TimeUp
  BY <1>7, <1>8 DEF Record, Others, RequestCheck, RequestAntenna, RequestStop,
     TimeUp, loop, wire, board
<1>9. CASE UNCHANGED vars
  <2>1. UNCHANGED loop /\ UNCHANGED wire /\ UNCHANGED board
    BY <1>9 DEF vars, host
  <2>2. QED
    BY <1>7, <2>1 DEF loop, wire, board
<1>10. QED
  BY <1>1, <1>2, <1>3, <1>4, <1>5, <1>6, <1>8, <1>9 DEF Next, HostStep

LEMMA RestoredStep ==
  ASSUME TypeOK, Restored, Stopping, NotBegun, [Next]_vars
  PROVE  Restored'
<1> SUFFICES ASSUME Trusted', ~check', ~(Working' /\ then' = "listen"),
                    pc' # "closed"
             PROVE  Settles'
  BY DEF Restored
<1>0. Trusted
  BY Before DEF Trusted
<1>1. CASE Hear \/ Handle
  <2>1. UNCHANGED <<pc, then, check>>
    BY <1>1, BoardKeepsHost DEF host, loop, checking
  <2>2. Settles
    BY <1>0, <2>1 DEF Restored, Working
  <2>3. QED
    BY <1>1, <2>2, SettlesBoard
<1>2. CASE TakeCheck
  BY <1>2 DEF TakeCheck, Await, Working
<1>3. CASE EndCheck \/ Listen
  BY <1>3 DEF EndCheck, Listen, checking
<1>4. CASE TakeAntenna
  <2>1. Settles
    BY <1>0, <1>4 DEF TakeAntenna, checking, Restored, Working
  <2>2. QED
    BY <1>4, <2>1, SettlesAntenna
<1>5. CASE Restore \/ Abandon
  <2>1. StopSent
    BY <1>0, <1>5 DEF Restore, Abandon, Stopping, NotBegun, Working, StopSent
  <2>2. Restart /\ UNCHANGED scanning
    BY <1>5 DEF Restore, Abandon, board
  <2>3. QED
    BY <2>1, <2>2, SettlesRestart
<1>6. ASSUME UNCHANGED <<check, inbox, scanning, stored, loaded>>,
             Working /\ then = "listen" => Working' /\ then' = "listen",
             pc # "closed"
      PROVE  Settles'
  <2>1. Settles
    BY <1>0, <1>6 DEF Restored
  <2>2. QED
    BY <1>6, <2>1 DEF Settles, Applied, Loads
<1>7. CASE MoveOn \/ Read
  BY <1>6, <1>7 DEF MoveOn, Read, Goto, Deliver, checking, wire, board, Working
<1>8. CASE Boundary \/ Listening \/ Delivered \/ Switched
  BY <1>6, <1>8 DEF Boundary, Listening, Delivered, Switched, Goto, Deliver,
     Over, checking, wire, board, Working
<1>9. CASE Finished
  BY <1>6, <1>9 DEF Finished, Goto, Over, wire, board, Working
<1>10. CASE LookInVain \/ Found \/ TimedOut \/ Record
  BY <1>6, <1>10 DEF LookInVain, Found, TimedOut, Record, loop, checking, wire,
     board, Working
<1>11. CASE Others \/ TimeUp
  BY <1>6, <1>11 DEF Others, RequestCheck, RequestAntenna, RequestStop, TimeUp,
     loop, checking, wire, board, Working
<1>12. CASE Close
  BY <1>12 DEF Close, Goto
<1>13. CASE UNCHANGED vars
  <2>1. UNCHANGED loop /\ UNCHANGED checking /\ UNCHANGED wire /\ UNCHANGED board
    BY <1>13 DEF vars, host
  <2>2. QED
    BY <1>6, <2>1 DEF loop, checking, wire, board, Working
<1>14. QED
  BY <1>1, <1>2, <1>3, <1>4, <1>5, <1>7, <1>8, <1>9, <1>10, <1>11, <1>12,
     <1>13 DEF Next, HostStep

LEMMA PutBackStart == Init => PutBackInv
<1> SUFFICES ASSUME Init PROVE PutBackInv
  OBVIOUS
<1>1. inbox = <<>> /\ outbox = <<>> /\ pc = "top" /\ loaded = Session
  BY DEF Init
<1>2. Settles
  BY <1>1 DEF Settles, Applied
<1>3. Away("start")
  BY <1>1 DEF Away, AtMostOne
<1>4. QED
  BY <1>1, <1>2, <1>3 DEF PutBackInv, Stopping, Paired, StartRefused, NotBegun,
     Restored, Working, Awaits

LEMMA PutBackAlways == Spec => []PutBackInv
<1>1. TypeOK /\ PutBackInv /\ [Next]_vars => PutBackInv'
  BY StoppingStep, PairedStep, AwayStep, StartRefusedStep, NotBegunStep,
     RestoredStep DEF PutBackInv
<1>2. QED
  BY <1>1, PutBackStart, TypeCorrect, PTL DEF Spec

\* When a check is over, and the loop waits for nothing, a board that scans
\* applies the session's lists, whatever was refused, lost or late on the way,
\* unless the START that began it went unanswered or an answer was mistaken.
THEOREM ListsArePutBack == Spec => []PutBack
<1>1. ASSUME Claims, PutBackInv PROVE PutBack
  <2> SUFFICES ASSUME AtRest, scanning, Trusted PROVE loaded = Session
    BY DEF PutBack, Trusted
  <2>1. pc = "top" /\ ~check /\ inbox = <<>>
    BY <1>1 DEF AtRest, Claims
  <2>2. Settles
    BY <1>1, <2>1 DEF PutBackInv, Restored, Working
  <2>3. QED
    BY <2>1, <2>2 DEF Settles, Applied
<1>2. Tallied /\ TypeOK /\ [Next]_vars => Tallied'
  BY ClaimsStep, OneResultStep DEF Tallied
<1>3. Spec => []Tallied
  BY <1>2, ClaimsStart, TypeCorrect, PTL DEF Spec
<1>4. Tallied => Claims
  BY DEF Tallied
<1>5. QED
  BY <1>1, <1>3, <1>4, PutBackAlways, PTL

-----------------------------------------------------------------------------
(* A packet goes where it was heard for.                                   *)

\* Frames that are no packets, and those that are none heard otherwise.
Replies == {f \in Frame : f.of # "packet"}
Bearing(l) == {f \in Frame : f.of = "packet" => f.lists = l}

LEMMA Kinds ==
  ASSUME NEW l \in Lists
  PROVE  /\ Bearing(l) \subseteq Frame /\ Replies \subseteq Bearing(l)
         /\ Seq(Bearing(l)) \subseteq Seq(Frame)
         /\ Seq(Replies) \subseteq Seq(Bearing(l))
         /\ <<>> \in Seq(Replies) /\ <<>> \in Seq(Bearing(l))
<1>1. Bearing(l) \subseteq Frame /\ Replies \subseteq Bearing(l)
  BY DEF Bearing, Replies
<1>2. \A S, T : S \subseteq T => Seq(S) \subseteq Seq(T)
  OBVIOUS
<1>3. \A S : <<>> \in Seq(S)
  OBVIOUS
<1>4. QED
  BY <1>1, <1>2, <1>3

\* A START on its way is sent after lists l, or they are stored already.
StartsUnder(l) ==
  \A k \in 1..Len(inbox) : inbox[k].is = "start" =>
    \/ k = 1 /\ stored = l
    \/ k > 1 /\ inbox[k - 1] = ListsAre(l)

\* Whatever has been heard and not delivered, and will be, is under lists l.
HeardUnder(l) ==
  /\ batch \in Seq(Bearing(l)) /\ deferred \in Seq(Bearing(l))
  /\ outbox \in Seq(Bearing(l))
  /\ scanning => loaded = l
  /\ StartsUnder(l)

\* The board hears nothing, will not, and nothing it heard is unread.
Silent == ~scanning /\ inbox = <<>> /\ outbox \in Seq(Replies)

\* A frame of one of these kinds, sent.
LEMMA EmitOne ==
  ASSUME TypeOK, NEW S, outbox \in Seq(S), NEW frame \in Frame, Emit(frame),
         \A n \in Nat : [frame EXCEPT !.n = n] \in S
  PROVE  outbox' \in Seq(S)
<1>1. sent + 1 \in Nat
  BY DEF TypeOK
<1>2. Append(outbox, [frame EXCEPT !.n = sent + 1]) \in Seq(S)
  BY <1>1
<1>3. QED
  BY <1>2 DEF Emit

LEMMA EmitKinds ==
  ASSUME TypeOK
  PROVE  /\ \A c \in Commands, b \in BOOLEAN : Emit(Reply(c, b)) =>
              /\ outbox \in Seq(Replies) => outbox' \in Seq(Replies)
              /\ \A l \in Lists :
                   outbox \in Seq(Bearing(l)) => outbox' \in Seq(Bearing(l))
         /\ Emit(Packet) =>
              (outbox \in Seq(Bearing(loaded)) => outbox' \in Seq(Bearing(loaded)))
<1>1. ASSUME NEW c \in Commands, NEW b \in BOOLEAN, Emit(Reply(c, b))
      PROVE  /\ outbox \in Seq(Replies) => outbox' \in Seq(Replies)
             /\ \A l \in Lists :
                  outbox \in Seq(Bearing(l)) => outbox' \in Seq(Bearing(l))
  <2> DEFINE r == Reply(c, b)
  <2>1. r \in Frame /\ r.of # "packet"
    BY Things DEF Reply, Commands
  <2> HIDE DEF r
  <2>2. ASSUME NEW n \in Nat
        PROVE  [r EXCEPT !.n = n] \in Frame /\ [r EXCEPT !.n = n].of # "packet"
    BY <2>1 DEF Frame
  <2>3. \A n \in Nat : [r EXCEPT !.n = n] \in Replies
    BY <2>2 DEF Replies
  <2>4. \A l \in Lists, n \in Nat : [r EXCEPT !.n = n] \in Bearing(l)
    BY <2>3, Kinds
  <2>5. Emit(r)
    BY <1>1 DEF r
  <2>6. outbox \in Seq(Replies) => outbox' \in Seq(Replies)
    BY <2>1, <2>3, <2>5, EmitOne
  <2>7. ASSUME NEW l \in Lists, outbox \in Seq(Bearing(l))
        PROVE  outbox' \in Seq(Bearing(l))
    BY <2>1, <2>4, <2>5, <2>7, EmitOne
  <2>8. QED
    BY <2>6, <2>7
<1>2. ASSUME Emit(Packet), outbox \in Seq(Bearing(loaded))
      PROVE  outbox' \in Seq(Bearing(loaded))
  <2> DEFINE p == Packet
  <2>1. p \in Frame /\ p.lists = loaded
    BY Things DEF Packet, TypeOK
  <2> HIDE DEF p
  <2>2. ASSUME NEW n \in Nat
        PROVE  [p EXCEPT !.n = n] \in Frame /\ [p EXCEPT !.n = n].lists = loaded
    BY <2>1 DEF Frame
  <2>3. \A n \in Nat : [p EXCEPT !.n = n] \in Bearing(loaded)
    BY <2>2 DEF Bearing
  <2>4. QED
    BY <1>2, <2>1, <2>3, EmitOne DEF p
<1>3. QED
  BY <1>1, <1>2

LEMMA HeardBoard ==
  ASSUME TypeOK, NEW l \in Lists, HeardUnder(l), Hear \/ Handle
  PROVE  HeardUnder(l)'
<1>1. UNCHANGED <<batch, deferred>>
  BY BoardKeepsHost DEF host, frames
<1>2. CASE Hear
  <2>1. loaded = l /\ UNCHANGED <<inbox, scanning, stored, loaded>>
    BY <1>2 DEF Hear, HeardUnder
  <2>2. outbox' \in Seq(Bearing(l))
    BY <1>2, <2>1, EmitKinds DEF Hear, HeardUnder
  <2>3. QED
    BY <1>1, <2>1, <2>2 DEF HeardUnder, StartsUnder
<1>3. CASE Handle
  <2>1. inbox # <<>> /\ inbox' = Tail(inbox)
    BY <1>3 DEF Handle, HandleLists, HandleStart, HandleStop, HandleAntenna,
       Reads
  <2>2. /\ Len(inbox) \in Nat /\ Len(inbox) > 0 /\ Head(inbox) = inbox[1]
        /\ Len(inbox') = Len(inbox) - 1
        /\ \A i \in 1..Len(inbox) - 1 : inbox'[i] = inbox[i + 1]
    BY <2>1, Shift
  <2>3. outbox' \in Seq(Bearing(l))
    BY <1>3, EmitKinds DEF Handle, HandleLists, HandleStart, HandleStop,
       HandleAntenna, HeardUnder, Commands
  <2>4. StartsUnder(l)'
    <3> SUFFICES ASSUME NEW k \in 1..Len(inbox'), inbox'[k].is = "start"
                 PROVE  \/ k = 1 /\ stored' = l
                        \/ k > 1 /\ inbox'[k - 1] = ListsAre(l)
      BY DEF StartsUnder
    <3>1. k + 1 \in 1..Len(inbox) /\ inbox[k + 1].is = "start" /\ k + 1 > 1
      BY <2>2
    <3>2. inbox[k] = ListsAre(l)
      BY <3>1 DEF HeardUnder, StartsUnder
    <3>3. CASE k = 1
      <4>1. Head(inbox).is = "lists" /\ Head(inbox).lists = l
        BY <2>2, <3>2, <3>3 DEF ListsAre
      <4>2. HandleLists
        BY <1>3, <4>1 DEF Handle, HandleStart, HandleStop, HandleAntenna, Reads
      <4>3. QED
        BY <3>3, <4>1, <4>2 DEF HandleLists
    <3>4. CASE k > 1
      <4>1. inbox'[k - 1] = inbox[k]
        BY <2>2, <3>4
      <4>2. QED
        BY <3>2, <3>4, <4>1
    <3>5. QED
      BY <3>3, <3>4
  <2>5. scanning' => loaded' = l
    <3>1. CASE HandleStart
      <4>1. inbox[1].is = "start" /\ 1 \in 1..Len(inbox)
        BY <2>2, <3>1 DEF HandleStart, Reads
      <4>2. stored = l
        BY <4>1 DEF HeardUnder, StartsUnder
      <4>3. QED
        BY <3>1, <4>2 DEF HandleStart, HeardUnder
    <3>2. CASE HandleLists \/ HandleStop \/ HandleAntenna
      BY <3>2 DEF HandleLists, HandleStop, HandleAntenna, HeardUnder
    <3>3. QED
      BY <1>3, <3>1, <3>2 DEF Handle
  <2>6. QED
    BY <1>1, <2>3, <2>4, <2>5 DEF HeardUnder
<1>4. QED
  BY <1>2, <1>3

\* The loop only passes frames on.
LEMMA HeardTaken ==
  ASSUME TypeOK, NEW l \in Lists, HeardUnder(l),
         Read \/ LookInVain \/ Found \/ Boundary \/ Record
  PROVE  HeardUnder(l)'
<1>1. UNCHANGED <<inbox, scanning, stored, loaded>>
  BY DEF Read, LookInVain, Found, Boundary, Record, wire, board
<1> DEFINE S == Bearing(l)
<1>2. batch \in Seq(S) /\ deferred \in Seq(S) /\ outbox \in Seq(S)
  BY DEF HeardUnder
<1>3. <<>> \in Seq(S)
  BY Kinds
<1> HIDE DEF S
<1>4. \A k \in 0..Len(outbox) : Arrived(k) \in Seq(S) /\ Unread(k) \in Seq(S)
  BY <1>2, Splits DEF Arrived, Unread
<1>5. batch' \in Seq(S) /\ deferred' \in Seq(S) /\ outbox' \in Seq(S)
  <2>1. CASE Read
    <3>1. PICK k \in 0..Len(outbox) : /\ batch' = deferred \o Arrived(k)
                                      /\ outbox' = Unread(k)
      BY <2>1 DEF Read
    <3>2. deferred' = <<>>
      BY <2>1 DEF Read
    <3>3. Arrived(k) \in Seq(S) /\ Unread(k) \in Seq(S)
      BY <1>4
    <3>4. batch' \in Seq(S)
      BY <1>2, <3>1, <3>3, Joins
    <3>5. QED
      BY <1>3, <3>1, <3>2, <3>3, <3>4
  <2>2. CASE LookInVain \/ Found
    <3>1. PICK k \in 0..Len(outbox) : /\ deferred' = deferred \o Arrived(k)
                                      /\ outbox' = Unread(k)
      BY <2>2 DEF LookInVain, Found, All
    <3>2. batch' = batch
      BY <2>2 DEF LookInVain, Found
    <3>3. Arrived(k) \in Seq(S) /\ Unread(k) \in Seq(S)
      BY <1>4
    <3>4. deferred' \in Seq(S)
      BY <1>2, <3>1, <3>3, Joins
    <3>5. QED
      BY <1>2, <3>1, <3>2, <3>3, <3>4
  <2>3. CASE Boundary
    BY <1>2, <1>3, <2>3 DEF Boundary, DeliverDeferred, wire
  <2>4. CASE Record
    <3>1. batch' = Tail(batch) /\ batch # <<>> /\ UNCHANGED <<deferred, outbox>>
      BY <2>4 DEF Record, wire
    <3>2. QED
      BY <1>2, <3>1, Ends
  <2>5. QED
    BY <2>1, <2>2, <2>3, <2>4
<1>6. QED
  BY <1>1, <1>5 DEF HeardUnder, StartsUnder, S

\* The loop writes a command, or the lists and a START.
LEMMA HeardWrite ==
  ASSUME TypeOK, NEW l \in Lists, HeardUnder(l),
         UNCHANGED <<batch, deferred, outbox, scanning, stored, loaded>>,
         \/ StartWith(l)
         \/ \E m \in Sendable : m.is # "start" /\ Write(<<m>>)
  PROVE  HeardUnder(l)'
<1>1. Len(inbox) \in Nat
  BY Grow
<1>2. ASSUME NEW k \in 1..Len(inbox), inbox[k].is = "start",
             \A i \in 1..Len(inbox) : inbox'[i] = inbox[i]
      PROVE  \/ k = 1 /\ stored' = l
             \/ k > 1 /\ inbox'[k - 1] = ListsAre(l)
  <2>1. \/ k = 1 /\ stored = l
        \/ k > 1 /\ inbox[k - 1] = ListsAre(l)
    BY <1>2 DEF HeardUnder, StartsUnder
  <2>2. k > 1 => k - 1 \in 1..Len(inbox)
    BY <1>1
  <2>3. QED
    BY <1>2, <2>1, <2>2
<1>3. StartsUnder(l)'
  <2>1. CASE StartWith(l)
    <3>1. /\ Len(inbox') = Len(inbox) + 2
          /\ \A i \in 1..Len(inbox) : inbox'[i] = inbox[i]
          /\ inbox'[Len(inbox) + 1] = ListsAre(l)
      BY <2>1, Grow
    <3>2. inbox'[Len(inbox) + 1].is # "start"
      BY <3>1 DEF ListsAre
    <3> SUFFICES ASSUME NEW k \in 1..Len(inbox'), inbox'[k].is = "start"
                 PROVE  \/ k = 1 /\ stored' = l
                        \/ k > 1 /\ inbox'[k - 1] = ListsAre(l)
      BY DEF StartsUnder
    <3>3. CASE k \in 1..Len(inbox)
      BY <1>2, <3>1, <3>3
    <3>4. CASE k = Len(inbox) + 2
      <4>1. k > 1 /\ k - 1 = Len(inbox) + 1
        BY <1>1, <3>4
      <4>2. QED
        BY <3>1, <4>1
    <3>5. QED
      BY <1>1, <3>1, <3>2, <3>3, <3>4
  <2>2. CASE \E m \in Sendable : m.is # "start" /\ Write(<<m>>)
    <3>1. PICK m \in Sendable : m.is # "start" /\ Write(<<m>>)
      BY <2>2
    <3>2. /\ Len(inbox') = Len(inbox) + 1
          /\ \A i \in 1..Len(inbox) : inbox'[i] = inbox[i]
          /\ inbox'[Len(inbox) + 1] = m
      BY <3>1, Grow
    <3> SUFFICES ASSUME NEW k \in 1..Len(inbox'), inbox'[k].is = "start"
                 PROVE  \/ k = 1 /\ stored' = l
                        \/ k > 1 /\ inbox'[k - 1] = ListsAre(l)
      BY DEF StartsUnder
    <3>3. k \in 1..Len(inbox)
      BY <1>1, <3>1, <3>2
    <3>4. QED
      BY <1>2, <3>2, <3>3
  <2>3. QED
    BY <2>1, <2>2
<1>4. QED
  BY <1>3 DEF HeardUnder

\* A silent board with nothing left to deliver has heard nothing amiss.
LEMMA SilentUnder ==
  ASSUME NEW l \in Lists, Silent, batch = <<>>, deferred \in Seq(Replies)
  PROVE  HeardUnder(l)
<1>1. /\ outbox \in Seq(Bearing(l)) /\ deferred \in Seq(Bearing(l))
      /\ batch \in Seq(Bearing(l))
  BY Kinds DEF Silent
<1>2. StartsUnder(l)
  BY DEF Silent, StartsUnder
<1>3. QED
  BY <1>1, <1>2 DEF HeardUnder, Silent

\* The board stays silent until it is written to.
LEMMA SilentBoard ==
  ASSUME Silent
  PROVE  ~(Hear \/ Handle)
  BY DEF Silent, Hear, Handle, HandleLists, HandleStart, HandleStop,
     HandleAntenna, Reads

\* What comes after the answer to a STOP is no packet.
StopRead ==
  Awaits("stop") /\ "stop" \notin late =>
    \A i \in 1..Len(outbox) : outbox[i].of = "stop" =>
      /\ ~scanning
      /\ \A j \in 1..Len(outbox) : j > i => outbox[j].of # "packet"

\* From the answer to a STOP to the START that follows.
Quiet ==
  /\ then \in {"listen", "finish"} /\ pc \in {"answered", "unmet", "deliver"}
       /\ late = {} => Silent
  /\ then = "listen" /\ pc \in {"answered", "deliver"} /\ ~mistaken => Silent

\* Until the START that begins a check has been read, and after it failed.
BoardOff == ~scanning /\ deferred \in Seq(Replies) /\ outbox \in Seq(Replies)
Failing == \E i \in 1..Len(outbox) : outbox[i].of = "start" /\ ~outbox[i].ok

Beginning ==
  then = "listening" /\ late = {} =>
    /\ pc = "await" /\ (inbox # <<>> \/ Failing) => BoardOff
    /\ pc = "unmet" /\ ~startUnanswered => BoardOff /\ inbox = <<>>

\* The check does not begin before the START.
NotYet == Working /\ then = "listen" => ~check

Sided ==
  /\ check /\ ~mistaken => HeardUnder(None)
  /\ ~check /\ late = {} /\ ~startUnanswered => HeardUnder(Session)

HeardInv ==
  /\ BatchInv /\ NotYet /\ Away("stop") /\ StopRead /\ Quiet /\ Beginning
  /\ Sided /\ HeardAsMeant

LEMMA BatchStep == BatchInv /\ [Next]_vars => BatchInv'
<1> SUFFICES ASSUME BatchInv, [Next]_vars PROVE BatchInv'
  OBVIOUS
<1> USE DEF BatchInv
<1>1. CASE Read \/ Boundary
  BY <1>1 DEF Read, Boundary, DeliverDeferred, Deliver
<1>2. CASE LookInVain \/ Found \/ TimedOut
  BY <1>2 DEF LookInVain, Found, TimedOut, loop, frames
<1>3. CASE Record
  BY <1>3 DEF Record, loop
<1>4. CASE TakeCheck \/ EndCheck \/ TakeAntenna \/ MoveOn \/ Close
  BY <1>4 DEF TakeCheck, EndCheck, TakeAntenna, MoveOn, Close, Await, Goto,
     frames
<1>5. CASE Listen \/ Restore \/ Abandon \/ Delivered \/ Listening
  BY <1>5 DEF Listen, Restore, Abandon, Delivered, Listening, Await, Goto,
     frames
<1>6. CASE Finished \/ Switched
  BY <1>6 DEF Finished, Switched, Over, Goto, frames
<1>7. CASE Others \/ TimeUp
  BY <1>7 DEF Others, RequestCheck, RequestAntenna, RequestStop, TimeUp, loop,
     frames
<1>8. CASE Hear \/ Handle \/ UNCHANGED vars
  BY <1>8, BoardKeepsHost DEF vars, host, loop, frames
<1>9. QED
  BY <1>1, <1>2, <1>3, <1>4, <1>5, <1>6, <1>7, <1>8 DEF Next, HostStep

LEMMA NotYetStep == Claims /\ NotYet /\ [Next]_vars => NotYet'
<1> SUFFICES ASSUME Claims, NotYet, [Next]_vars PROVE NotYet'
  OBVIOUS
<1> USE DEF NotYet, Working
<1>1. CASE TakeCheck
  BY <1>1 DEF TakeCheck, Claims
<1>2. CASE EndCheck \/ TakeAntenna \/ Listen \/ Restore \/ Abandon
  BY <1>2 DEF EndCheck, TakeAntenna, Listen, Restore, Abandon, Await
<1>3. CASE MoveOn \/ Read \/ Delivered \/ Listening \/ Finished \/ Switched \/ Close
  BY <1>3 DEF MoveOn, Read, Delivered, Listening, Finished, Switched, Close,
     Goto, Deliver
<1>4. CASE Boundary \/ Record \/ LookInVain \/ Found \/ TimedOut
  BY <1>4 DEF Boundary, Over, Deliver, Record, LookInVain, Found, TimedOut,
     loop, checking
<1>5. CASE Others \/ TimeUp
  BY <1>5 DEF Others, RequestCheck, RequestAntenna, RequestStop, TimeUp, loop,
     checking
<1>6. CASE Hear \/ Handle \/ UNCHANGED vars
  BY <1>6, BoardKeepsHost DEF vars, host, loop, checking
<1>7. QED
  BY <1>1, <1>2, <1>3, <1>4, <1>5, <1>6 DEF Next, HostStep

LEMMA StopReadStep ==
  ASSUME TypeOK, StopRead, Away("stop"), [Next]_vars
  PROVE  StopRead'
<1>1. CASE Hear \/ Handle
  <2>1. UNCHANGED <<pc, awaited, late>>
    BY <1>1 DEF Hear, Handle, HandleLists, HandleStart, HandleStop,
       HandleAntenna, Reads, host, loop, results
  <2>2. outbox \in Seq(Frame)
    BY DEF TypeOK
  <2> SUFFICES ASSUME Awaits("stop"), "stop" \notin late,
                      NEW i \in 1..Len(outbox'), outbox'[i].of = "stop"
               PROVE  /\ ~scanning'
                      /\ \A j \in 1..Len(outbox') :
                           j > i => outbox'[j].of # "packet"
    BY <2>1 DEF StopRead, Awaits
  <2>3. AtMostOne("stop")
    BY DEF Away, Awaits
  <2>4. CASE i \in 1..Len(outbox) /\ outbox'[i] = outbox[i]
    <3>1. ~scanning /\ inbox = <<>>
      BY <2>3, <2>4 DEF StopRead, AtMostOne
    <3>2. QED
      BY <1>1, <3>1 DEF Hear, Handle, HandleLists, HandleStart, HandleStop,
         HandleAntenna, Reads
  <2>5. CASE ~(i \in 1..Len(outbox) /\ outbox'[i] = outbox[i])
    <3>1. ASSUME NEW of, NEW ok, Sends(of, ok, None) \/ Sends(of, ok, loaded)
          PROVE  of = "stop"
      BY <2>2, <2>5, <3>1 DEF Sends
    <3>0. ASSUME NEW of, NEW ok, Sends(of, ok, None)
          PROVE  i = Len(outbox')
      BY <2>2, <2>5, <3>0 DEF Sends
    <3>2. ~Hear
      BY <3>1, Sending DEF Hear
    <3>3. ~HandleLists
      BY <2>5 DEF HandleLists
    <3>4. ~HandleStart /\ ~HandleAntenna
      BY <3>1, Sending DEF HandleStart, HandleAntenna, Commands
    <3>5. HandleStop
      BY <1>1, <3>2, <3>3, <3>4 DEF Handle
    <3>6. i = Len(outbox')
      BY <3>0, <3>5, Sending DEF HandleStop, Commands
    <3>7. ~scanning'
      BY <3>5 DEF HandleStop
    <3>8. QED
      BY <3>6, <3>7
  <2>6. QED
    BY <2>4, <2>5
<1>2. CASE TakeCheck \/ EndCheck
  <2>1. /\ pc # "await" /\ pc # "closed" /\ UNCHANGED <<outbox, late>>
    BY <1>2 DEF TakeCheck, EndCheck, results
  <2>2. "stop" \notin late => \A i \in 1..Len(outbox) : outbox[i].of # "stop"
    BY <2>1 DEF Away, AtMostOne, Awaits
  <2>3. QED
    BY <2>1, <2>2 DEF StopRead
<1>3. CASE \/ Listen \/ Restore \/ Abandon \/ TakeAntenna \/ MoveOn \/ Read
           \/ Delivered \/ Boundary \/ Listening \/ Finished \/ Switched \/ Close
  BY <1>3 DEF Listen, Restore, Abandon, TakeAntenna, MoveOn, Read, Delivered,
     Boundary, Listening, Finished, Switched, Close, Await, Goto, Deliver,
     StopRead, Awaits
<1>4. CASE LookInVain
  <2>1. PICK k \in 0..Len(outbox) : outbox' = Unread(k)
    BY <1>4 DEF LookInVain
  <2>2. UNCHANGED <<pc, awaited, late, scanning>>
    BY <1>4 DEF LookInVain, loop, results, board
  <2>3. ASSUME StopRead, Awaits("stop"), "stop" \notin late,
               NEW i \in 1..Len(outbox'), outbox'[i].of = "stop"
        PROVE  /\ ~scanning'
               /\ \A j \in 1..Len(outbox') : j > i => outbox'[j].of # "packet"
    <3>1. k + i \in 1..Len(outbox) /\ outbox'[i] = outbox[k + i]
      BY <2>1, Later
    <3>2. /\ ~scanning
          /\ \A j \in 1..Len(outbox) : j > k + i => outbox[j].of # "packet"
      BY <2>3, <3>1 DEF StopRead
    <3>3. ASSUME NEW j \in 1..Len(outbox'), j > i
          PROVE  outbox'[j].of # "packet"
      <4>1. k + j \in 1..Len(outbox) /\ outbox'[j] = outbox[k + j]
        BY <2>1, Later
      <4>2. k + j > k + i
        BY <3>3
      <4>3. QED
        BY <3>2, <4>1, <4>2
    <3>4. QED
      BY <2>2, <3>2, <3>3
  <2>4. QED
    BY <2>2, <2>3 DEF StopRead, Awaits
<1>5. CASE Found \/ TimedOut
  BY <1>5 DEF Found, TimedOut, StopRead, Awaits
<1>6. ASSUME UNCHANGED <<pc, awaited, outbox, scanning, late>>
      PROVE  StopRead'
  BY <1>6 DEF StopRead, Awaits
<1>7. CASE Record \/ Others \/ TimeUp
  BY <1>6, <1>7 DEF Record, Others, RequestCheck, RequestAntenna, RequestStop,
     TimeUp, loop, wire, board, results
<1>8. CASE UNCHANGED vars
  <2>1. UNCHANGED loop /\ UNCHANGED wire /\ UNCHANGED board /\ late' = late
    BY <1>8 DEF vars, host, results
  <2>2. QED
    BY <1>6, <2>1 DEF loop, wire, board
<1>9. QED
  BY <1>1, <1>2, <1>3, <1>4, <1>5, <1>7, <1>8 DEF Next, HostStep

\* The answer to a STOP is found: nothing was heard after it.
LEMMA SilentFound ==
  ASSUME TypeOK, Found, Awaits("stop"), "stop" \notin late, Away("stop"),
         StopRead
  PROVE  Silent'
<1>1. PICK k \in 1..Len(outbox) : \E i \in Answers(k) : outbox' = Unread(k)
  BY DEF Found
<1>2. PICK i \in 1..k : outbox[i].of = "stop" /\ outbox' = Unread(k)
  BY <1>1 DEF Answers, IsReply, Awaits
<1>3. outbox \in Seq(Frame) /\ Len(outbox) \in Nat
  BY DEF TypeOK
<1>4. i \in 1..Len(outbox)
  BY <1>3
<1>5. inbox = <<>> /\ ~scanning
  BY <1>2, <1>4 DEF Away, Awaits, AtMostOne, StopRead
<1>6. ASSUME NEW j \in 1..Len(outbox')
      PROVE  outbox'[j] \in Replies
  <2>1. /\ k + j \in 1..Len(outbox) /\ k + j > k
        /\ outbox'[j] = outbox[k + j]
    BY <1>2, Later
  <2>2. k + j > i
    BY <2>1
  <2>3. outbox[k + j].of # "packet"
    BY <1>2, <1>4, <2>1, <2>2 DEF StopRead
  <2>4. outbox[k + j] \in Frame
    BY <1>3, <2>1
  <2>5. QED
    BY <2>1, <2>3, <2>4 DEF Replies
<1>7. outbox' \in Seq(Frame)
  BY <1>2, <1>3, Splits DEF Unread
<1>8. outbox' \in Seq(Replies)
  BY <1>6, <1>7
<1>9. QED
  BY <1>5, <1>8 DEF Found, Silent, board

LEMMA QuietStep ==
  ASSUME TypeOK, Quiet, Paired, Stopping, Away("stop"), StopRead, [Next]_vars
  PROVE  Quiet'
<1>0. (late' = {} => late = {}) /\ (~mistaken' => ~mistaken)
  BY Before
<1>1. CASE Hear \/ Handle
  <2>1. UNCHANGED <<pc, then, late, mistaken>>
    BY <1>1 DEF Hear, Handle, HandleLists, HandleStart, HandleStop,
       HandleAntenna, Reads, host, loop, results
  <2>2. ~Silent
    BY <1>1, SilentBoard
  <2>3. QED
    BY <2>1, <2>2 DEF Quiet
<1>2. CASE TakeCheck \/ EndCheck \/ TakeAntenna \/ Listen \/ Restore \/ Abandon
  BY <1>2 DEF TakeCheck, EndCheck, TakeAntenna, Listen, Restore, Abandon,
     Await, Quiet
<1>3. CASE MoveOn \/ Read \/ Delivered \/ Listening \/ Finished \/ Switched \/ Close
  BY <1>3 DEF MoveOn, Read, Delivered, Listening, Finished, Switched, Close,
     Goto, Deliver, Quiet
<1>4. CASE LookInVain
  BY <1>4 DEF LookInVain, loop, Quiet
<1>5. CASE Found
  <2>1. pc = "await" /\ then' = then /\ late' = late
    BY <1>5 DEF Found
  <2>2. then \in {"listen", "finish"} /\ "stop" \notin late => Silent'
    BY <1>5, <2>1, SilentFound DEF Paired, Awaits
  <2>3. ~mistaken' /\ then = "listen" => "stop" \notin late
    BY <1>5, <2>1 DEF Found, Paired
  <2>4. QED
    BY <2>1, <2>2, <2>3 DEF Quiet
<1>6. CASE TimedOut
  <2>1. pc = "await" /\ then' = then /\ pc' = "unmet"
    BY <1>6 DEF TimedOut
  <2>2. ASSUME then \in {"listen", "finish"}, late' = {}
        PROVE  Silent'
    <3>1. inbox = <<>> /\ outbox = <<>>
      BY <1>6, <2>2 DEF TimedOut, NothingComes
    <3>2. ~scanning
      BY <2>1, <2>2, <3>1 DEF Stopping, Working, StopSent
    <3>3. QED
      BY <1>6, <3>1, <3>2 DEF TimedOut, Silent, wire, board
  <2>3. QED
    BY <2>1, <2>2 DEF Quiet
<1>7. ASSUME UNCHANGED <<then, inbox, outbox, scanning>>,
             pc' = pc \/ Boundary
      PROVE  Quiet'
  <2>1. Silent => Silent'
    BY <1>7 DEF Silent
  <2>2. QED
    BY <1>0, <1>7, <2>1 DEF Quiet, Boundary, Over, Deliver
<1>8. CASE Boundary
  BY <1>7, <1>8 DEF Boundary, Deliver, wire, board
<1>9. CASE Record \/ Others \/ TimeUp
  BY <1>7, <1>9 DEF Record, Others, RequestCheck, RequestAntenna, RequestStop,
     TimeUp, loop, wire, board
<1>10. CASE UNCHANGED vars
  <2>1. UNCHANGED loop /\ UNCHANGED wire /\ UNCHANGED board
    BY <1>10 DEF vars, host
  <2>2. QED
    BY <1>7, <2>1 DEF loop, wire, board
<1>11. QED
  BY <1>1, <1>2, <1>3, <1>4, <1>5, <1>6, <1>8, <1>9, <1>10 DEF Next, HostStep

\* The board, until it has read the START that begins a check.
LEMMA BeginningBoard ==
  ASSUME TypeOK, Beginning, Away("start"), Hear \/ Handle,
         then = "listening", late = {}
  PROVE  /\ pc = "await" /\ awaited = "start" /\ (inbox' # <<>> \/ Failing')
              => BoardOff'
         /\ pc = "unmet" /\ ~startUnanswered => BoardOff' /\ inbox' = <<>>
<1>1. deferred' = deferred
  BY BoardKeepsHost DEF host, frames
<1>2. outbox \in Seq(Frame)
  BY DEF TypeOK
<1>3. ASSUME pc = "unmet", ~startUnanswered
      PROVE  BoardOff' /\ inbox' = <<>>
  <2>1. Silent
    BY <1>3 DEF Beginning, BoardOff, Silent
  <2>2. QED
    BY <2>1, SilentBoard
<1>4. ASSUME pc = "await", awaited = "start", inbox' # <<>> \/ Failing'
      PROVE  BoardOff'
  <2>1. AtMostOne("start")
    BY <1>4 DEF Away
  <2>2. CASE Hear
    <3>1. inbox' = inbox /\ Sends("packet", TRUE, loaded)
      BY <2>2, Sending DEF Hear
    <3>2. Failing' => Failing
      <4> SUFFICES ASSUME NEW i \in 1..Len(outbox'), outbox'[i].of = "start",
                          ~outbox'[i].ok
                   PROVE  Failing
        BY DEF Failing
      <4>1. i \in 1..Len(outbox) /\ outbox'[i] = outbox[i]
        BY <1>2, <3>1 DEF Sends
      <4>2. QED
        BY <4>1 DEF Failing
    <3>3. ~scanning
      BY <1>4, <3>1, <3>2 DEF Beginning, BoardOff
    <3>4. QED
      BY <2>2, <3>3 DEF Hear
  <2>3. CASE Handle
    <3>1. inbox # <<>> /\ inbox' = Tail(inbox)
      BY <2>3 DEF Handle, HandleLists, HandleStart, HandleStop, HandleAntenna,
         Reads
    <3>2. BoardOff
      BY <1>4, <3>1 DEF Beginning
    <3>3. outbox' \in Seq(Replies)
      BY <2>3, <3>2, EmitKinds DEF BoardOff, Handle, HandleLists, HandleStart,
         HandleStop, HandleAntenna, Commands
    <3>4. ~scanning'
      <4>1. CASE HandleLists \/ HandleStop \/ HandleAntenna
        BY <3>2, <4>1 DEF HandleLists, HandleStop, HandleAntenna, BoardOff
      <4>2. CASE HandleStart
        <5> SUFFICES ASSUME scanning' PROVE FALSE
          OBVIOUS
        <5>1. Emit(Reply("start", TRUE))
          BY <3>2, <4>2 DEF HandleStart, BoardOff
        <5>2. Sends("start", TRUE, None)
          BY <5>1, Sending DEF Commands
        <5>3. \A i \in 1..Len(outbox) : outbox[i].of # "start"
          BY <2>1, <3>1 DEF AtMostOne
        <5>4. ~Failing'
          BY <1>2, <5>2, <5>3 DEF Failing, Sends
        <5>5. inbox' = <<>>
          <6>1. /\ Len(inbox) \in Nat /\ Len(inbox) > 0
                /\ Head(inbox) = inbox[1] /\ (Len(inbox) = 1 => inbox' = <<>>)
            BY <3>1, Shift
          <6>2. inbox[1].is = "start" /\ 1 \in 1..Len(inbox)
            BY <4>2, <6>1 DEF HandleStart, Reads
          <6>3. Len(inbox) = 1
            BY <2>1, <6>2 DEF AtMostOne
          <6>4. QED
            BY <6>1, <6>3
        <5>6. QED
          BY <1>4, <5>4, <5>5
      <4>3. QED
        BY <2>3, <4>1, <4>2 DEF Handle
    <3>5. QED
      BY <1>1, <3>2, <3>3, <3>4 DEF BoardOff
  <2>4. QED
    BY <2>2, <2>3
<1>5. QED
  BY <1>3, <1>4

LEMMA BeginningStep ==
  ASSUME TypeOK, Beginning, Quiet, BatchInv, Paired, Away("start"),
         [Next]_vars
  PROVE  Beginning'
<1>0. (late' = {} => late = {}) /\ (~startUnanswered' => ~startUnanswered)
  BY Before
<1>1. CASE Hear \/ Handle
  <2>1. UNCHANGED <<pc, then, late, startUnanswered>>
    BY <1>1 DEF Hear, Handle, HandleLists, HandleStart, HandleStop,
       HandleAntenna, Reads, host, loop, results
  <2>2. then = "listening" /\ pc = "await" => awaited = "start"
    BY DEF Paired
  <2>3. QED
    BY <1>1, <2>1, <2>2, BeginningBoard DEF Beginning
<1>2. CASE Listen
  <2>1. /\ pc = "deliver" /\ then = "listen" /\ pc' = "await"
        /\ UNCHANGED <<deferred, outbox, scanning>>
    BY <1>2 DEF Listen, Await, frames, board
  <2>2. late = {} => Silent
    BY <2>1 DEF Quiet
  <2>3. deferred = <<>>
    BY <2>1 DEF BatchInv
  <2>4. <<>> \in Seq(Replies)
    OBVIOUS
  <2>5. late = {} => BoardOff'
    BY <2>1, <2>2, <2>3, <2>4 DEF Silent, BoardOff
  <2>6. QED
    BY <1>0, <2>1, <2>5 DEF Beginning
<1>3. CASE TakeCheck \/ EndCheck \/ TakeAntenna \/ Restore \/ Abandon
  BY <1>3 DEF TakeCheck, EndCheck, TakeAntenna, Restore, Abandon, Await,
     Beginning
<1>4. CASE \/ MoveOn \/ Read \/ Delivered \/ Boundary \/ Listening \/ Finished
           \/ Switched \/ Close
  BY <1>4 DEF MoveOn, Read, Delivered, Boundary, Listening, Finished, Switched,
     Close, Goto, Deliver, Beginning
<1>5. CASE LookInVain \/ Found
  <2>1. PICK k \in 0..Len(outbox) : /\ deferred' = deferred \o Arrived(k)
                                    /\ outbox' = Unread(k)
    BY <1>5 DEF LookInVain, Found, All
  <2>2. /\ UNCHANGED <<then, inbox, scanning, late>> /\ pc = "await"
    BY <1>5 DEF LookInVain, Found, loop, results, board
  <2>3. BoardOff => BoardOff'
    <3> SUFFICES ASSUME BoardOff PROVE BoardOff'
      OBVIOUS
    <3>1. outbox \in Seq(Replies) /\ deferred \in Seq(Replies)
      BY DEF BoardOff
    <3>2. Arrived(k) \in Seq(Replies) /\ Unread(k) \in Seq(Replies)
      BY <3>1, Splits DEF Arrived, Unread
    <3>3. deferred \o Arrived(k) \in Seq(Replies)
      BY <3>1, <3>2, Joins
    <3>4. QED
      BY <2>1, <2>2, <3>2, <3>3 DEF BoardOff
  <2>4. Failing' => Failing
    <3> SUFFICES ASSUME NEW i \in 1..Len(outbox'), outbox'[i].of = "start",
                        ~outbox'[i].ok
                 PROVE  Failing
      BY DEF Failing
    <3>1. k + i \in 1..Len(outbox) /\ outbox'[i] = outbox[k + i]
      BY <2>1, Later
    <3>2. QED
      BY <3>1 DEF Failing
  <2>5. CASE LookInVain
    <3>1. pc' = pc
      BY <2>5 DEF LookInVain, loop
    <3>2. QED
      BY <2>2, <2>3, <2>4, <3>1 DEF Beginning
  <2>6. CASE Found
    <3> SUFFICES ASSUME then = "listening", late = {}, pc' = "unmet"
                 PROVE  BoardOff' /\ inbox' = <<>>
      BY <2>2, <2>6 DEF Found, Beginning
    <3>1. Awaits("start") /\ AtMostOne("start")
      BY <2>2 DEF Paired, Awaits, Away
    <3>2. PICK j \in 1..Len(outbox) : \E i \in Answers(j) :
            pc' = IF outbox[i].ok THEN "answered" ELSE "unmet"
      BY <2>6 DEF Found
    <3>3. PICK i \in Answers(j) : ~outbox[i].ok
      BY <3>2
    <3>4. i \in 1..Len(outbox) /\ outbox[i].of = "start"
      <4>1. Len(outbox) \in Nat
        BY DEF TypeOK
      <4>2. QED
        BY <3>1, <3>3, <4>1 DEF Answers, IsReply, Awaits
    <3>5. Failing /\ inbox = <<>>
      BY <3>1, <3>3, <3>4 DEF Failing, AtMostOne
    <3>6. QED
      BY <2>2, <2>3, <3>5 DEF Beginning
  <2>7. QED
    BY <1>5, <2>5, <2>6
<1>6. CASE TimedOut
  BY <1>6 DEF TimedOut, Beginning
<1>7. ASSUME UNCHANGED <<pc, then, inbox, outbox, deferred, scanning>>
      PROVE  Beginning'
  <2>1. (BoardOff => BoardOff') /\ (Failing' => Failing)
    BY <1>7 DEF BoardOff, Failing
  <2>2. QED
    BY <1>0, <1>7, <2>1 DEF Beginning
<1>8. CASE Record \/ Others \/ TimeUp
  BY <1>7, <1>8 DEF Record, Others, RequestCheck, RequestAntenna, RequestStop,
     TimeUp, loop, frames, wire, board
<1>9. CASE UNCHANGED vars
  <2>1. /\ UNCHANGED loop /\ UNCHANGED frames /\ UNCHANGED wire
        /\ UNCHANGED board
    BY <1>9 DEF vars, host
  <2>2. QED
    BY <1>7, <2>1 DEF loop, frames, wire, board
<1>10. QED
  BY <1>1, <1>2, <1>3, <1>4, <1>5, <1>6, <1>8, <1>9 DEF Next, HostStep

LEMMA SidedStep ==
  ASSUME TypeOK, Sided, NotYet, Quiet, Beginning, BatchInv, [Next]_vars
  PROVE  Sided'
<1>0. /\ late' = {} => late = {}
      /\ ~mistaken' => ~mistaken
      /\ ~startUnanswered' => ~startUnanswered
  BY Before
<1>a. None \in Lists /\ Session \in Lists
  BY Known
<1>1. ASSUME check' = check, HeardUnder(None) => HeardUnder(None)',
             HeardUnder(Session) => HeardUnder(Session)'
      PROVE  Sided'
  BY <1>0, <1>1 DEF Sided
<1>2. CASE Hear \/ Handle
  <2>1. check' = check
    BY <1>2, BoardKeepsHost DEF host, checking
  <2>2. QED
    BY <1>1, <1>2, <1>a, <2>1, HeardBoard
<1>3. CASE Read \/ LookInVain \/ Found \/ Boundary \/ Record
  <2>1. check' = check
    BY <1>3 DEF Read, LookInVain, Found, Boundary, Record, checking
  <2>2. QED
    BY <1>1, <1>3, <1>a, <2>1, HeardTaken
<1>4. CASE TakeCheck \/ EndCheck \/ TakeAntenna \/ Close
  <2>1. /\ check' = check
        /\ UNCHANGED <<batch, deferred, outbox, scanning, stored, loaded>>
    BY <1>4 DEF TakeCheck, EndCheck, TakeAntenna, Close, checking, frames, board
  <2>2. \E m \in Sendable : m.is # "start" /\ Write(<<m>>)
    <3>1. CASE TakeAntenna
      <4>1. pendingAntenna \in Antennas
        BY <3>1 DEF TakeAntenna, TypeOK
      <4>2. [is |-> "antenna", value |-> pendingAntenna, lists |-> None]
              \in Sendable
        BY <4>1, Things
      <4>3. QED
        BY <3>1, <4>2 DEF TakeAntenna
    <3>2. CASE TakeCheck \/ EndCheck \/ Close
      <4>1. Message("stop") \in Sendable /\ Message("stop").is = "stop"
        BY Things DEF Commands, Message
      <4>2. QED
        BY <3>2, <4>1 DEF TakeCheck, EndCheck, Close
    <3>3. QED
      BY <1>4, <3>1, <3>2
  <2>3. \A l \in Lists : HeardUnder(l) => HeardUnder(l)'
    BY <2>1, <2>2, HeardWrite
  <2>4. QED
    BY <1>1, <1>a, <2>1, <2>3
<1>5. <<>> \in Seq(Replies)
  OBVIOUS
<1>6. CASE Listen
  <2>1. /\ pc = "deliver" /\ then = "listen" /\ batch = <<>> /\ check'
        /\ StartWith(None)
        /\ UNCHANGED <<batch, deferred, outbox, scanning, stored, loaded>>
    BY <1>6 DEF Listen, frames, board
  <2>2. ~mistaken => Silent
    BY <2>1 DEF Quiet
  <2>3. deferred = <<>>
    BY <2>1 DEF BatchInv
  <2>4. ~mistaken => HeardUnder(None)
    BY <1>5, <1>a, <2>1, <2>2, <2>3, SilentUnder
  <2>5. HeardUnder(None) => HeardUnder(None)'
    BY <1>a, <2>1, HeardWrite
  <2>6. QED
    BY <1>0, <2>1, <2>4, <2>5 DEF Sided
<1>7. CASE Restore \/ Abandon
  <2>1. /\ ~check' /\ StartWith(Session)
        /\ UNCHANGED <<batch, deferred, outbox, scanning, stored, loaded>>
    BY <1>7 DEF Restore, Abandon, Restart, frames, board
  <2>2. late = {} /\ ~startUnanswered => HeardUnder(Session)
    <3> SUFFICES ASSUME late = {}, ~startUnanswered
                 PROVE  HeardUnder(Session)
      OBVIOUS
    <3>1. CASE Restore
      <4>1. /\ pc = "deliver" /\ then = "finish" /\ batch = <<>>
        BY <3>1 DEF Restore
      <4>2. Silent /\ deferred = <<>>
        BY <4>1 DEF Quiet, BatchInv
      <4>3. QED
        BY <1>5, <1>a, <4>1, <4>2, SilentUnder
    <3>2. CASE Abandon /\ then = "listen"
      <4>1. ~check
        BY <3>2 DEF Abandon, NotYet, Working
      <4>2. QED
        BY <4>1 DEF Sided
    <3>3. CASE Abandon /\ then = "listening"
      <4>1. BoardOff /\ inbox = <<>> /\ batch = <<>>
        BY <3>3 DEF Abandon, Beginning, BatchInv
      <4>2. Silent /\ deferred \in Seq(Replies)
        BY <4>1 DEF BoardOff, Silent
      <4>3. QED
        BY <1>a, <4>1, <4>2, SilentUnder
    <3>4. QED
      BY <1>7, <3>1, <3>2, <3>3 DEF Abandon
  <2>3. HeardUnder(Session) => HeardUnder(Session)'
    BY <1>a, <2>1, HeardWrite
  <2>4. QED
    BY <1>0, <2>1, <2>2, <2>3 DEF Sided
<1>8. ASSUME check' = check,
             UNCHANGED <<batch, deferred, inbox, outbox, scanning, stored, loaded>>
      PROVE  Sided'
  BY <1>1, <1>8 DEF HeardUnder, StartsUnder
<1>9. CASE MoveOn \/ Delivered \/ Listening \/ Switched \/ Finished \/ TimedOut
  BY <1>8, <1>9 DEF MoveOn, Delivered, Listening, Switched, Finished, TimedOut,
     checking, frames, wire, board
<1>10. CASE Others \/ TimeUp
  BY <1>8, <1>10 DEF Others, RequestCheck, RequestAntenna, RequestStop, TimeUp,
     checking, frames, wire, board
<1>11. CASE UNCHANGED vars
  <2>1. /\ UNCHANGED checking /\ UNCHANGED frames /\ UNCHANGED wire
        /\ UNCHANGED board
    BY <1>11 DEF vars, host
  <2>2. QED
    BY <1>8, <2>1 DEF checking, frames, wire, board
<1>12. QED
  BY <1>2, <1>3, <1>4, <1>6, <1>7, <1>9, <1>10, <1>11 DEF Next, HostStep

LEMMA HeardAsMeantStep ==
  ASSUME TypeOK, Sided, HeardAsMeant, [Next]_vars
  PROVE  HeardAsMeant'
<1>0. /\ late' = {} => late = {}
      /\ ~mistaken' => ~mistaken
      /\ ~startUnanswered' => ~startUnanswered
  BY Before
<1>1. CASE UNCHANGED delivered
  BY <1>0, <1>1 DEF delivered, HeardAsMeant
<1>2. CASE Record
  <2> DEFINE f == Head(batch)
  <2>1. batch # <<>>
    BY <1>2 DEF Record
  <2>2. \A l \in Lists :
          HeardUnder(l) /\ f.of = "packet" => f.lists = l
    <3> SUFFICES ASSUME NEW l \in Lists, HeardUnder(l), f.of = "packet"
                 PROVE  f.lists = l
      OBVIOUS
    <3>1. batch \in Seq(Bearing(l))
      BY DEF HeardUnder
    <3>2. f \in Bearing(l)
      BY <2>1, <3>1, Ends
    <3>3. QED
      BY <3>2 DEF Bearing
  <2> HIDE DEF f
  <2>3. IF f.of # "packet" THEN UNCHANGED delivered
        ELSE IF check
        THEN toCheck' = toCheck \cup {f.lists} /\ UNCHANGED toCapture
        ELSE toCapture' = toCapture \cup {f.lists} /\ UNCHANGED toCheck
    BY <1>2 DEF Record, f
  <2>4. check /\ ~mistaken /\ f.of = "packet" => f.lists = None
    BY <2>2, Known DEF Sided
  <2>5. ~check /\ late = {} /\ ~startUnanswered /\ f.of = "packet"
          => f.lists = Session
    BY <2>2, Known DEF Sided
  <2>6. QED
    BY <1>0, <1>1, <2>3, <2>4, <2>5 DEF HeardAsMeant
<1>3. CASE \/ TakeCheck \/ EndCheck \/ TakeAntenna \/ MoveOn \/ Read
           \/ Listen \/ Restore \/ Delivered \/ LookInVain \/ Found \/ TimedOut
  BY <1>1, <1>3 DEF TakeCheck, EndCheck, TakeAntenna, MoveOn, Read, Listen,
     Restore, Delivered, LookInVain, Found, TimedOut
<1>4. CASE Boundary \/ Listening \/ Abandon \/ Finished \/ Switched \/ Close
  BY <1>1, <1>4 DEF Boundary, Listening, Abandon, Finished, Switched, Close
<1>5. CASE Others \/ TimeUp \/ Hear \/ Handle \/ UNCHANGED vars
  BY <1>1, <1>5 DEF Others, RequestCheck, RequestAntenna, RequestStop, TimeUp,
     Hear, Handle, HandleLists, HandleStart, HandleStop, HandleAntenna, Reads,
     vars
<1>6. QED
  BY <1>2, <1>3, <1>4, <1>5 DEF Next, HostStep

LEMMA HeardStart == Init => HeardInv
<1> SUFFICES ASSUME Init PROVE HeardInv
  OBVIOUS
<1>1. /\ inbox = <<>> /\ outbox = <<>> /\ batch = <<>> /\ deferred = <<>>
      /\ pc = "top" /\ then = "top" /\ ~check /\ loaded = Session
      /\ toCheck = {} /\ toCapture = {}
  BY DEF Init
<1>2. HeardUnder(Session)
  <2>1. <<>> \in Seq(Bearing(Session))
    BY Kinds, Known
  <2>2. QED
    BY <1>1, <2>1 DEF HeardUnder, StartsUnder
<1>3. Away("stop")
  BY <1>1 DEF Away, AtMostOne
<1>4. QED
  BY <1>1, <1>2, <1>3 DEF HeardInv, BatchInv, NotYet, StopRead, Quiet,
     Beginning, Sided, HeardAsMeant, Awaits, Working

\* A packet is given to the side it was heard for, the check or the capture,
\* whatever was refused or lost and however the reads fell, unless an answer
\* was late, mistaken or never came.
THEOREM PacketsAreHeardAsMeant == Spec => []HeardAsMeant
<1> DEFINE Inv == HeardInv /\ PutBackInv /\ Claims /\ OneResult
<1>1. TypeOK /\ Inv /\ [Next]_vars => Inv'
  <2> SUFFICES ASSUME TypeOK, Inv, [Next]_vars PROVE Inv'
    OBVIOUS
  <2>1. PutBackInv'
    BY StoppingStep, PairedStep, AwayStep, StartRefusedStep, NotBegunStep,
       RestoredStep DEF PutBackInv
  <2>2. Claims' /\ OneResult'
    BY ClaimsStep, OneResultStep
  <2>3. BatchInv' /\ NotYet' /\ Away("stop")' /\ StopRead'
    BY BatchStep, NotYetStep, AwayStep, StopReadStep DEF HeardInv
  <2>4. Quiet' /\ Beginning' /\ Sided' /\ HeardAsMeant'
    BY QuietStep, BeginningStep, SidedStep, HeardAsMeantStep
       DEF HeardInv, PutBackInv
  <2>5. QED
    BY <2>1, <2>2, <2>3, <2>4 DEF HeardInv
<1>2. Init => Inv
  BY HeardStart, PutBackStart, ClaimsStart DEF Tallied
<1>3. Inv => HeardAsMeant
  BY DEF HeardInv
<1> HIDE DEF Inv
<1>4. QED
  BY <1>1, <1>2, <1>3, TypeCorrect, PTL DEF Spec
=============================================================================
