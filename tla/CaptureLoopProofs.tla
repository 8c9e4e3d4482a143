------------------------- MODULE CaptureLoopProofs --------------------------
(***************************************************************************)
(* Proofs about the capture loop, for any bounds: the types of its         *)
(* variables, that a check has one result, that the antenna the host shows *)
(* is the one the board uses, and that gaps are what its ring refused.     *)
(***************************************************************************)
EXTENDS CaptureLoop, SequenceTheorems, FiniteSetTheorems, TLAPS

LEMMA Known ==
  /\ \A n \in {MaxFrames, LateFrames, MaxLost, MaxChecks, MaxAsks} : n \in Nat
  /\ Session \in Lists /\ None \in Lists
  BY Bounds DEF Session, None, Lists

-----------------------------------------------------------------------------
(* Types.                                                                  *)

\* What the board sends and is sent.
LEMMA Things ==
  /\ \A l \in Lists, n \in Nat :
       [n |-> n, of |-> "packet", ok |-> TRUE, lists |-> l] \in Frame
  /\ \A c \in Commands, b \in BOOLEAN, n \in Nat :
       [n |-> n, of |-> c, ok |-> b, lists |-> None] \in Frame
  /\ \A f \in Frame : /\ f.n \in Nat /\ f.ok \in BOOLEAN /\ f.lists \in Lists
                      /\ f.of \in Commands \cup {"packet"}
  /\ \A f \in Frame, n \in Nat : [f EXCEPT !.n = n] \in Frame
  /\ \A c \in Commands : Message(c) \in Sendable
  /\ \A l \in Lists : ListsAre(l) \in Sendable
  /\ \A a \in Antennas :
       [is |-> "antenna", value |-> a, lists |-> None] \in Sendable
  /\ \A m \in Sendable : /\ m.is \in Commands \cup {"lists"}
                         /\ m.value \in Antennas /\ m.lists \in Lists
<1> USE Known
<1>1. \A l \in Lists, n \in Nat :
        [n |-> n, of |-> "packet", ok |-> TRUE, lists |-> l] \in Frame
  BY DEF Frame
<1>2. \A c \in Commands, b \in BOOLEAN, n \in Nat :
        [n |-> n, of |-> c, ok |-> b, lists |-> None] \in Frame
  BY DEF Frame
<1>3. \A f \in Frame : /\ f.n \in Nat /\ f.ok \in BOOLEAN /\ f.lists \in Lists
                       /\ f.of \in Commands \cup {"packet"}
  BY DEF Frame
<1>4. \A f \in Frame, n \in Nat : [f EXCEPT !.n = n] \in Frame
  BY DEF Frame
<1>5. \A c \in Commands : Message(c) \in Sendable
  BY DEF Sendable, Message, Antennas
<1>6. \A l \in Lists : ListsAre(l) \in Sendable
  BY DEF Sendable, ListsAre, Antennas, Commands
<1>7. \A a \in Antennas :
        [is |-> "antenna", value |-> a, lists |-> None] \in Sendable
  BY DEF Sendable, Commands
<1>8. \A m \in Sendable : /\ m.is \in Commands \cup {"lists"}
                          /\ m.value \in Antennas /\ m.lists \in Lists
  BY DEF Sendable
<1>9. QED
  BY <1>1, <1>2, <1>3, <1>4, <1>5, <1>6, <1>7, <1>8

LEMMA Splits ==
  ASSUME NEW S, NEW q \in Seq(S), NEW k \in 0..Len(q)
  PROVE  SubSeq(q, 1, k) \in Seq(S) /\ SubSeq(q, k + 1, Len(q)) \in Seq(S)
<1>1. SubSeq(q, 1, k) \in Seq(S)
  BY SubSeqProperties
<1>2. SubSeq(q, k + 1, Len(q)) \in Seq(S)
  BY SubSeqProperties
<1>3. QED
  BY <1>1, <1>2

LEMMA Ends ==
  ASSUME NEW S, NEW q \in Seq(S), q # <<>>
  PROVE  Head(q) \in S /\ Tail(q) \in Seq(S)
  OBVIOUS

LEMMA Joins ==
  ASSUME NEW S, NEW p \in Seq(S), NEW q \in Seq(S)
  PROVE  p \o q \in Seq(S)
  BY ConcatProperties

\* A frame that is sent is a frame, and the ring and the counts keep types.
LEMMA EmitTypes ==
  ASSUME TypeOK, NEW frame \in Frame, Emit(frame)
  PROVE  outbox' \in Seq(Frame) /\ sent' \in Nat /\ lost' \in SUBSET Nat
<1>1. sent + 1 \in Nat
  BY DEF TypeOK
<1>2. [frame EXCEPT !.n = sent + 1] \in Frame
  BY <1>1, Things
<1>3. outbox \in Seq(Frame) /\ lost \in SUBSET Nat
  BY DEF TypeOK
<1>4. Append(outbox, [frame EXCEPT !.n = sent + 1]) \in Seq(Frame)
  BY <1>2, <1>3
<1>5. QED
  BY <1>1, <1>3, <1>4 DEF Emit

\* What is written to the port.
LEMMA WriteTypes ==
  ASSUME TypeOK
  PROVE  /\ \A m \in Sendable : Write(<<m>>) => inbox' \in Seq(Sendable)
         /\ \A l \in Lists : StartWith(l) => inbox' \in Seq(Sendable)
<1>1. inbox \in Seq(Sendable)
  BY DEF TypeOK
<1>2. \A m \in Sendable : <<m>> \in Seq(Sendable)
  OBVIOUS
<1>3. \A l \in Lists : <<ListsAre(l), Message("start")>> \in Seq(Sendable)
  BY Things DEF Commands
<1>4. QED
  BY <1>1, <1>2, <1>3, Joins DEF Write, StartWith

\* The antenna that is being switched to is one, and so is a command awaited.
AskedIsOne ==
  /\ then = "antenna" /\ pc \in {"await", "answered", "unmet"}
       => asked \in Antennas
  /\ pc = "await" => awaited \in Commands

LEMMA AskedStep == TypeOK /\ AskedIsOne /\ [Next]_vars => AskedIsOne'
<1> SUFFICES ASSUME TypeOK, AskedIsOne, [Next]_vars PROVE AskedIsOne'
  OBVIOUS
<1>1. CASE HostStep
  <2>1. CASE TakeAntenna
    BY <2>1 DEF TakeAntenna, Await, Commands, TypeOK, AskedIsOne
  <2>2. CASE \/ TakeCheck \/ EndCheck \/ MoveOn \/ Read \/ Record
             \/ Listen \/ Restore \/ Delivered
    BY <2>2 DEF TakeCheck, EndCheck, MoveOn, Read, Record, Listen, Restore,
       Delivered, Await, Goto, Deliver, Commands, AskedIsOne, switching, loop
  <2>3. CASE LookInVain \/ Found \/ TimedOut
    BY <2>3 DEF LookInVain, Found, TimedOut, AskedIsOne, switching, loop
  <2>4. CASE Boundary \/ Listening \/ Abandon \/ Finished \/ Switched \/ Close
    BY <2>4 DEF Boundary, Listening, Abandon, Finished, Switched, Close,
       Await, Goto, Deliver, Commands, AskedIsOne, switching
  <2>5. QED
    BY <1>1, <2>1, <2>2, <2>3, <2>4 DEF HostStep
<1>2. CASE Others \/ TimeUp
  BY <1>2 DEF Others, RequestCheck, RequestAntenna, RequestStop, TimeUp, loop,
     switching, AskedIsOne
<1>3. CASE Hear \/ Handle \/ UNCHANGED vars
  BY <1>3 DEF Hear, Handle, HandleLists, HandleStart, HandleStop,
     HandleAntenna, Reads, vars, host, loop, switching, AskedIsOne
<1>4. QED
  BY <1>1, <1>2, <1>3 DEF Next

\* TypeOK, a part for each group of variables that actions leave alone.
LoopTypes ==
  /\ pc \in {"top", "apply", "read", "deliver", "await", "answered", "unmet",
             "closing", "closed"}
  /\ then \in Purposes /\ awaited \in Commands \cup {"none"}
FrameTypes == deferred \in Seq(Frame) /\ batch \in Seq(Frame)
WireTypes == outbox \in Seq(Frame) /\ inbox \in Seq(Sendable)
CheckTypes ==
  /\ check \in BOOLEAN /\ due \in BOOLEAN /\ claimed \in BOOLEAN
  /\ pendingCheck \in BOOLEAN
SwitchTypes ==
  /\ pendingAntenna \in Antennas \cup {NoAntenna} /\ antenna \in Antennas
  /\ asked \in Antennas \cup {NoAntenna}
StatTypes == last \in Nat /\ gaps \in Nat /\ unanswered \in Nat /\ refused \in Nat
BoardTypes ==
  /\ scanning \in BOOLEAN /\ stored \in Lists /\ loaded \in Lists
  /\ sent \in Nat /\ lost \in SUBSET Nat /\ boardAntenna \in Antennas
DeliveredTypes == toCheck \in SUBSET Lists /\ toCapture \in SUBSET Lists
ResultTypes ==
  /\ accepted \in Nat /\ asks \in Nat /\ done \in Nat /\ failed \in Nat
  /\ startUnanswered \in BOOLEAN /\ mistaken \in BOOLEAN
  /\ late \subseteq Commands

Types ==
  /\ LoopTypes /\ FrameTypes /\ WireTypes /\ CheckTypes /\ SwitchTypes
  /\ StatTypes /\ BoardTypes /\ DeliveredTypes /\ ResultTypes
  /\ stop \in BOOLEAN

LEMMA TypeParts == TypeOK <=> Types
  BY DEF TypeOK, Types, LoopTypes, FrameTypes, WireTypes, CheckTypes,
     SwitchTypes, StatTypes, BoardTypes, DeliveredTypes, ResultTypes

LEMMA TypePartsNext == TypeOK' <=> Types'
  BY DEF TypeOK, Types, LoopTypes, FrameTypes, WireTypes, CheckTypes,
     SwitchTypes, StatTypes, BoardTypes, DeliveredTypes, ResultTypes

\* A group left alone keeps its types.
LEMMA LeftAlone ==
  ASSUME Types
  PROVE  /\ UNCHANGED loop => LoopTypes'
         /\ UNCHANGED frames => FrameTypes'
         /\ UNCHANGED wire => WireTypes'
         /\ UNCHANGED checking => CheckTypes'
         /\ UNCHANGED switching => SwitchTypes'
         /\ UNCHANGED stats => StatTypes'
         /\ UNCHANGED board => BoardTypes'
         /\ UNCHANGED delivered => DeliveredTypes'
         /\ UNCHANGED results => ResultTypes'
         /\ UNCHANGED stop => (stop \in BOOLEAN)'
         /\ UNCHANGED host => /\ LoopTypes' /\ FrameTypes' /\ CheckTypes'
                              /\ SwitchTypes' /\ StatTypes'
                              /\ (stop \in BOOLEAN)'
<1>1. UNCHANGED loop => LoopTypes'
  BY DEF Types, LoopTypes, loop
<1>2. UNCHANGED frames => FrameTypes'
  BY DEF Types, FrameTypes, frames
<1>3. UNCHANGED wire => WireTypes'
  BY DEF Types, WireTypes, wire
<1>4. UNCHANGED checking => CheckTypes'
  BY DEF Types, CheckTypes, checking
<1>5. UNCHANGED switching => SwitchTypes'
  BY DEF Types, SwitchTypes, switching
<1>6. UNCHANGED stats => StatTypes'
  BY DEF Types, StatTypes, stats
<1>7. UNCHANGED board => BoardTypes'
  BY DEF Types, BoardTypes, board
<1>8. UNCHANGED delivered => DeliveredTypes'
  BY DEF Types, DeliveredTypes, delivered
<1>9. UNCHANGED results => ResultTypes'
  BY DEF Types, ResultTypes, results
<1>10. UNCHANGED stop => (stop \in BOOLEAN)'
  BY DEF Types
<1>11. UNCHANGED host => /\ UNCHANGED loop /\ UNCHANGED frames
                         /\ UNCHANGED checking /\ UNCHANGED switching
                         /\ UNCHANGED stats /\ UNCHANGED stop
  BY DEF host
<1>12. QED
  BY <1>1, <1>2, <1>3, <1>4, <1>5, <1>6, <1>7, <1>8, <1>9, <1>10, <1>11

\* A step of the board: a command read, and at most one frame sent.
LEMMA BoardTypeStep ==
  ASSUME Types, Hear \/ Handle
  PROVE  WireTypes' /\ BoardTypes'
<1>1. TypeOK
  BY TypeParts
<1>2. \A c \in Commands, b \in BOOLEAN : Reply(c, b) \in Frame
  BY Things DEF Reply
<1>3. Packet \in Frame
  BY Things DEF Packet, Types, BoardTypes
<1>4. ASSUME \/ \E f \in Frame : Emit(f)
             \/ UNCHANGED <<outbox, sent, lost>>
      PROVE  outbox' \in Seq(Frame) /\ sent' \in Nat /\ lost' \in SUBSET Nat
  BY <1>1, <1>4, EmitTypes DEF Types, WireTypes, BoardTypes
<1>5. CASE Hear
  <2>1. outbox' \in Seq(Frame) /\ sent' \in Nat /\ lost' \in SUBSET Nat
    BY <1>3, <1>4, <1>5 DEF Hear
  <2>2. QED
    BY <1>5, <2>1 DEF Hear, Types, WireTypes, BoardTypes
<1>6. CASE Handle
  <2>1. inbox # <<>> /\ inbox' = Tail(inbox)
    BY <1>6 DEF Handle, HandleLists, HandleStart, HandleStop, HandleAntenna,
       Reads
  <2>2. inbox' \in Seq(Sendable) /\ Head(inbox) \in Sendable
    BY <2>1, Ends DEF Types, WireTypes
  <2>3. Head(inbox).lists \in Lists /\ Head(inbox).value \in Antennas
    BY <2>2, Things
  <2>4. [stored EXCEPT !.keys = FALSE] \in Lists
    BY DEF Types, BoardTypes, Lists
  <2>5. outbox' \in Seq(Frame) /\ sent' \in Nat /\ lost' \in SUBSET Nat
    BY <1>2, <1>4, <1>6 DEF Handle, HandleLists, HandleStart, HandleStop,
       HandleAntenna, Commands
  <2>6. CASE HandleLists
    BY <2>2, <2>3, <2>5, <2>6 DEF HandleLists, Types, WireTypes, BoardTypes
  <2>7. CASE HandleStart
    BY <2>2, <2>5, <2>7 DEF HandleStart, Types, WireTypes, BoardTypes
  <2>8. CASE HandleStop
    BY <2>2, <2>4, <2>5, <2>8 DEF HandleStop, Types, WireTypes, BoardTypes
  <2>9. CASE HandleAntenna
    BY <2>2, <2>3, <2>5, <2>9 DEF HandleAntenna, Types, WireTypes, BoardTypes
  <2>10. QED
    BY <1>6, <2>6, <2>7, <2>8, <2>9 DEF Handle
<1>7. QED
  BY <1>5, <1>6

\* What a command and its purpose leave.
LEMMA MovesTypes ==
  /\ \A c \in Commands, p \in Purposes : Await(c, p) => LoopTypes'
  /\ \A p \in Purposes : Deliver(p) => LoopTypes'
  /\ \A w \in {"top", "apply", "read", "closing", "closed"} :
       Types /\ Goto(w) => LoopTypes'
  BY DEF Await, Deliver, Goto, LoopTypes, Types

LEMMA TypeStep == TypeOK /\ AskedIsOne /\ [Next]_vars => TypeOK'
<1> SUFFICES ASSUME Types, AskedIsOne, [Next]_vars PROVE Types'
  BY TypeParts, TypePartsNext
<1>0. TypeOK
  BY TypeParts
<1> USE DEF Types
<1>1. CASE Hear \/ Handle
  <2>1. WireTypes' /\ BoardTypes'
    BY <1>1, BoardTypeStep
  <2>2. UNCHANGED host /\ UNCHANGED delivered /\ UNCHANGED results
    BY <1>1 DEF Hear, Handle, HandleLists, HandleStart, HandleStop,
       HandleAntenna, Reads
  <2>3. QED
    BY <2>1, <2>2, LeftAlone
<1>2. CASE RequestCheck
  <2>1. CheckTypes'
    BY <1>2 DEF RequestCheck, CheckTypes
  <2>2. ResultTypes'
    BY <1>2 DEF RequestCheck, ResultTypes
  <2>3. QED
    BY <1>2, <2>1, <2>2, LeftAlone DEF RequestCheck
<1>3. CASE RequestAntenna
  <2>1. SwitchTypes'
    BY <1>3 DEF RequestAntenna, SwitchTypes
  <2>2. ResultTypes'
    BY <1>3 DEF RequestAntenna, ResultTypes
  <2>3. UNCHANGED checking
    BY <1>3 DEF RequestAntenna
  <2>4. QED
    BY <1>3, <2>1, <2>2, <2>3, LeftAlone DEF RequestAntenna
<1>4. CASE RequestStop
  BY <1>4, LeftAlone DEF RequestStop
<1>5. CASE TimeUp
  <2>1. CheckTypes'
    BY <1>5 DEF TimeUp, CheckTypes
  <2>2. QED
    BY <1>5, <2>1, LeftAlone DEF TimeUp
<1>6. CASE TakeCheck \/ EndCheck
  <2>1. WireTypes'
    BY <1>0, <1>6, WriteTypes, Things DEF TakeCheck, EndCheck, Commands, WireTypes
  <2>2. CheckTypes'
    BY <1>6 DEF TakeCheck, EndCheck, CheckTypes, checking
  <2>3. LoopTypes'
    BY <1>6, MovesTypes DEF TakeCheck, EndCheck, Commands, Purposes
  <2>4. QED
    BY <1>6, <2>1, <2>2, <2>3, LeftAlone DEF TakeCheck, EndCheck
<1>7. CASE TakeAntenna
  <2>1. pendingAntenna \in Antennas
    BY <1>7 DEF TakeAntenna, SwitchTypes
  <2>2. WireTypes'
    BY <1>0, <1>7, <2>1, WriteTypes, Things DEF TakeAntenna, WireTypes
  <2>3. SwitchTypes'
    BY <1>7, <2>1 DEF TakeAntenna, SwitchTypes
  <2>4. LoopTypes'
    BY <1>7, MovesTypes DEF TakeAntenna, Commands, Purposes
  <2>5. QED
    BY <1>7, <2>2, <2>3, <2>4, LeftAlone DEF TakeAntenna
<1>8. CASE MoveOn
  <2>1. LoopTypes'
    BY <1>8, MovesTypes DEF MoveOn
  <2>2. QED
    BY <1>8, <2>1, LeftAlone DEF MoveOn
<1>9. CASE Delivered \/ Listening
  <2>1. LoopTypes'
    BY <1>9, MovesTypes DEF Delivered, Listening
  <2>2. QED
    BY <1>9, <2>1, LeftAlone DEF Delivered, Listening
<1>10. CASE Read
  <2>1. PICK k \in 0..Len(outbox) : /\ batch' = deferred \o Arrived(k)
                                    /\ outbox' = Unread(k)
    BY <1>10 DEF Read
  <2>2. Arrived(k) \in Seq(Frame) /\ Unread(k) \in Seq(Frame)
    BY Splits DEF WireTypes, Arrived, Unread
  <2>3. FrameTypes'
    BY <1>10, <2>1, <2>2, Joins DEF Read, FrameTypes
  <2>4. WireTypes'
    BY <1>10, <2>1, <2>2 DEF Read, WireTypes
  <2>5. LoopTypes'
    BY <1>10, MovesTypes DEF Read, Purposes
  <2>6. QED
    BY <1>10, <2>3, <2>4, <2>5, LeftAlone DEF Read
<1>11. CASE Record
  <2>1. Head(batch) \in Frame /\ batch' \in Seq(Frame)
    BY <1>11, Ends DEF Record, FrameTypes
  <2>2. Head(batch).n \in Nat /\ Head(batch).lists \in Lists
    BY <2>1, Things
  <2>3. (Head(batch).n - last - 1) % 65536 \in Nat
    BY <2>2 DEF StatTypes
  <2>4. StatTypes'
    BY <1>11, <2>2, <2>3 DEF Record, StatTypes
  <2>5. DeliveredTypes'
    BY <1>11, <2>2 DEF Record, DeliveredTypes, delivered
  <2>6. FrameTypes'
    BY <1>11, <2>1 DEF Record, FrameTypes
  <2>7. QED
    BY <1>11, <2>4, <2>5, <2>6, LeftAlone DEF Record
<1>12. CASE Listen \/ Restore \/ Abandon
  <2>1. WireTypes'
    BY <1>0, <1>12, WriteTypes, Known DEF Listen, Restore, Abandon, Restart,
       WireTypes
  <2>2. CheckTypes'
    BY <1>12 DEF Listen, Restore, Abandon, CheckTypes
  <2>3. LoopTypes'
    BY <1>12, MovesTypes DEF Listen, Restore, Abandon, Commands, Purposes
  <2>4. QED
    BY <1>12, <2>1, <2>2, <2>3, LeftAlone DEF Listen, Restore, Abandon
<1>13. CASE LookInVain
  <2>1. PICK k \in 1..Len(outbox) : /\ deferred' = deferred \o Arrived(k)
                                    /\ outbox' = Unread(k)
    BY <1>13 DEF LookInVain
  <2>2. Arrived(k) \in Seq(Frame) /\ Unread(k) \in Seq(Frame)
    BY Splits DEF WireTypes, Arrived, Unread
  <2>3. FrameTypes'
    BY <1>13, <2>1, <2>2, Joins DEF LookInVain, FrameTypes
  <2>4. WireTypes'
    BY <1>13, <2>1, <2>2 DEF LookInVain, WireTypes
  <2>5. QED
    BY <1>13, <2>3, <2>4, LeftAlone DEF LookInVain
<1>14. CASE Found
  <2>1. PICK k \in 1..Len(outbox) : \E i \in Answers(k) :
          /\ pc' = (IF outbox[i].ok THEN "answered" ELSE "unmet")
          /\ refused' = (IF outbox[i].ok THEN refused ELSE refused + 1)
          /\ deferred' = deferred \o Arrived(k)
          /\ outbox' = Unread(k)
    BY <1>14 DEF Found, All
  <2>2. Arrived(k) \in Seq(Frame) /\ Unread(k) \in Seq(Frame)
    BY Splits DEF WireTypes, Arrived, Unread
  <2>3. FrameTypes'
    BY <1>14, <2>1, <2>2, Joins DEF Found, FrameTypes
  <2>4. WireTypes'
    BY <1>14, <2>1, <2>2 DEF Found, WireTypes
  <2>5. StatTypes'
    BY <1>14, <2>1 DEF Found, StatTypes
  <2>6. LoopTypes'
    BY <1>14, <2>1 DEF Found, LoopTypes
  <2>7. ResultTypes'
    BY <1>14 DEF Found, ResultTypes
  <2>8. QED
    BY <1>14, <2>3, <2>4, <2>5, <2>6, <2>7, LeftAlone DEF Found
<1>15. CASE TimedOut
  <2>1. StatTypes'
    BY <1>15 DEF TimedOut, StatTypes
  <2>2. LoopTypes'
    BY <1>15 DEF TimedOut, LoopTypes
  <2>3. startUnanswered' \in BOOLEAN /\ late' \subseteq Commands
    BY <1>15 DEF TimedOut, AskedIsOne, ResultTypes
  <2>4. ResultTypes'
    BY <1>15, <2>3 DEF TimedOut, ResultTypes
  <2>5. QED
    BY <1>15, <2>1, <2>2, <2>4, LeftAlone DEF TimedOut
<1>16. CASE Boundary
  <2>1. LoopTypes'
    BY <1>16, MovesTypes DEF Boundary, LoopTypes
  <2>2. FrameTypes'
    BY <1>16 DEF Boundary, DeliverDeferred, FrameTypes
  <2>3. QED
    BY <1>16, <2>1, <2>2, LeftAlone DEF Boundary
<1>17. CASE Finished
  <2>1. CheckTypes'
    BY <1>17 DEF Finished, Release, CheckTypes
  <2>2. ResultTypes'
    BY <1>17 DEF Finished, ResultTypes
  <2>3. LoopTypes'
    BY <1>17, MovesTypes DEF Finished
  <2>4. QED
    BY <1>17, <2>1, <2>2, <2>3, LeftAlone DEF Finished
<1>18. CASE Switched
  <2>1. SwitchTypes'
    BY <1>18 DEF Switched, Switch, Over, AskedIsOne, SwitchTypes
  <2>2. LoopTypes'
    BY <1>18, MovesTypes DEF Switched
  <2>3. QED
    BY <1>18, <2>1, <2>2, LeftAlone DEF Switched
<1>19. CASE Close
  <2>1. WireTypes'
    BY <1>0, <1>19, WriteTypes, Things DEF Close, Commands, WireTypes
  <2>2. LoopTypes'
    BY <1>19, MovesTypes DEF Close
  <2>3. QED
    BY <1>19, <2>1, <2>2, LeftAlone DEF Close
<1>20. CASE UNCHANGED vars
  BY <1>20, LeftAlone DEF vars
<1>21. QED
  BY <1>1, <1>2, <1>3, <1>4, <1>5, <1>6, <1>7, <1>8, <1>9, <1>10, <1>11,
     <1>12, <1>13, <1>14, <1>15, <1>16, <1>17, <1>18, <1>19, <1>20
     DEF Next, HostStep, Others

LEMMA TypeStart == Init => TypeOK /\ AskedIsOne
<1> SUFFICES ASSUME Init PROVE TypeOK /\ AskedIsOne
  OBVIOUS
<1>1. AskedIsOne
  BY DEF Init, AskedIsOne
<1>2. LoopTypes /\ FrameTypes /\ WireTypes
  BY DEF Init, LoopTypes, FrameTypes, WireTypes, Purposes, Commands
<1>3. CheckTypes /\ stop \in BOOLEAN
  BY DEF Init, CheckTypes
<1>4. SwitchTypes /\ StatTypes
  BY DEF Init, SwitchTypes, StatTypes, Antennas, NoAntenna
<1>5. BoardTypes
  BY Known DEF Init, BoardTypes, Antennas
<1>6. DeliveredTypes /\ ResultTypes
  BY DEF Init, DeliveredTypes, ResultTypes
<1>7. QED
  BY <1>1, <1>2, <1>3, <1>4, <1>5, <1>6, TypeParts DEF Types

LEMMA TypesAlways == Spec => [](TypeOK /\ AskedIsOne)
<1>1. QED
  BY TypeStart, TypeStep, AskedStep, PTL DEF Spec

\* Every variable of the loop, the wire and the board keeps its type, for any
\* bounds.
THEOREM TypeCorrect == Spec => []TypeOK
<1>1. QED
  BY TypesAlways, PTL

-----------------------------------------------------------------------------
(* A check has one result.                                                 *)

\* The loop is in the middle of a check's STOP or START, or of the delivery
\* that follows it.
Checking == {"listen", "listening", "finish", "restarted", "abandoned"}
InCheck == pc \in {"await", "answered", "unmet", "deliver"} /\ then \in Checking

\* What is asked for, begun or under way is claimed; while one thing is true
\* of a check the others are not; and a check about to be reported is over.
Claims ==
  /\ pendingCheck \/ check \/ InCheck => claimed
  /\ pendingCheck => ~check /\ ~InCheck
  /\ InCheck /\ then \in {"restarted", "abandoned"} => ~check

Tallied == Claims /\ OneResult

LEMMA ClaimsStart == Init => Tallied
  BY DEF Init, Tallied, Claims, InCheck, OneResult

LEMMA ClaimsStep == TypeOK /\ Claims /\ [Next]_vars => Claims'
<1> SUFFICES ASSUME TypeOK, Claims, [Next]_vars PROVE Claims'
  OBVIOUS
<1> USE DEF Claims, InCheck, Checking
<1>1. CASE RequestCheck
  BY <1>1 DEF RequestCheck, loop
<1>2. CASE RequestAntenna \/ RequestStop \/ TimeUp
  BY <1>2 DEF RequestAntenna, RequestStop, TimeUp, loop, checking
<1>3. CASE TakeCheck \/ EndCheck \/ TakeAntenna
  BY <1>3 DEF TakeCheck, EndCheck, TakeAntenna, Await, checking
<1>4. CASE MoveOn \/ Read \/ Delivered \/ Boundary \/ Listening \/ Switched \/ Close
  BY <1>4 DEF MoveOn, Read, Delivered, Boundary, Listening, Switched, Close,
     Goto, Deliver, checking, Over
<1>5. CASE Record \/ LookInVain
  BY <1>5 DEF Record, LookInVain, loop, checking
<1>6. CASE Listen \/ Restore \/ Abandon
  BY <1>6 DEF Listen, Restore, Abandon, Await
<1>7. CASE Found \/ TimedOut
  BY <1>7 DEF Found, TimedOut, checking
<1>8. CASE Finished
  BY <1>8 DEF Finished, Release, Goto, Over
<1>9. CASE Hear \/ Handle \/ UNCHANGED vars
  <2>1. UNCHANGED host
    BY <1>9 DEF Hear, Handle, HandleLists, HandleStart, HandleStop,
       HandleAntenna, Reads, vars
  <2>2. UNCHANGED <<pc, then, check, claimed, pendingCheck>>
    BY <2>1 DEF host, loop, checking
  <2>3. QED
    BY <2>2
<1>10. QED
  BY <1>1, <1>2, <1>3, <1>4, <1>5, <1>6, <1>7, <1>8, <1>9
     DEF Next, HostStep, Others

\* Only two actions touch what the sum is made of.
LEMMA OneResultStep ==
  TypeOK /\ Claims /\ OneResult /\ [Next]_vars => OneResult'
<1> SUFFICES ASSUME TypeOK, Claims, OneResult, [Next]_vars PROVE OneResult'
  OBVIOUS
<1>1. CASE RequestCheck
  <2>1. ~claimed /\ claimed' /\ accepted' = accepted + 1
    BY <1>1 DEF RequestCheck
  <2>2. UNCHANGED <<done, failed>>
    BY <1>1 DEF RequestCheck
  <2>3. QED
    BY <2>1, <2>2 DEF OneResult, TypeOK
<1>2. CASE Finished
  <2>1. claimed /\ ~claimed'
    BY <1>2 DEF Finished, Release, Claims, InCheck, Checking, Over
  <2>2. accepted' = accepted
    BY <1>2 DEF Finished
  <2>3. \/ done' = done + 1 /\ failed' = failed
        \/ failed' = failed + 1 /\ done' = done
    BY <1>2 DEF Finished
  <2>4. QED
    BY <2>1, <2>2, <2>3 DEF OneResult, TypeOK
<1>3. CASE UNCHANGED <<claimed, accepted, done, failed>>
  BY <1>3 DEF OneResult
<1>4. ~RequestCheck /\ ~Finished => UNCHANGED <<claimed, accepted, done, failed>>
  <2>1. CASE RequestAntenna \/ RequestStop \/ TimeUp
    BY <2>1 DEF RequestAntenna, RequestStop, TimeUp, checking, results
  <2>2. CASE TakeCheck \/ EndCheck \/ TakeAntenna \/ MoveOn \/ Read \/ Record
    BY <2>2 DEF TakeCheck, EndCheck, TakeAntenna, MoveOn, Read, Record,
       checking, results
  <2>3. CASE Listen \/ Restore \/ Delivered \/ LookInVain \/ Found \/ TimedOut
    BY <2>3 DEF Listen, Restore, Delivered, LookInVain, Found, TimedOut,
       checking, results
  <2>4. CASE Boundary \/ Listening \/ Abandon \/ Switched \/ Close
    BY <2>4 DEF Boundary, Listening, Abandon, Switched, Close, checking,
       results
  <2>5. CASE Hear \/ Handle \/ UNCHANGED vars
    BY <2>5 DEF Hear, Handle, HandleLists, HandleStart, HandleStop,
       HandleAntenna, Reads, vars, host, checking, results
  <2>6. QED
    BY <2>1, <2>2, <2>3, <2>4, <2>5 DEF Next, HostStep, Others
<1>5. QED
  BY <1>1, <1>2, <1>3, <1>4

\* Every check a thread was told would be made has exactly one result or is
\* still claimed, whatever the board refuses, answers late or never answers.
THEOREM OneResultEach == Spec => []OneResult
<1>1. Tallied /\ TypeOK /\ [Next]_vars => Tallied'
  BY ClaimsStep, OneResultStep DEF Tallied
<1>2. Spec => []Tallied
  BY <1>1, ClaimsStart, TypeCorrect, PTL DEF Spec
<1>3. Tallied => OneResult
  BY DEF Tallied
<1>4. QED
  BY <1>2, <1>3, PTL

-----------------------------------------------------------------------------
(* The antenna shown is the antenna used.                                  *)

\* No command, or no reply, about the antenna is on its way.
NoneSent(q) == \A i \in 1..Len(q) : q[i].is # "antenna"
NoneSaid(q) == \A i \in 1..Len(q) : q[i].of # "antenna"

Switching == then = "antenna" /\ pc \in {"await", "answered", "unmet"}

\* The board has yet to read the command, which is the only one.
Asking ==
  /\ NoneSaid(outbox) /\ antenna = boardAntenna
  /\ \A i, j \in 1..Len(inbox) :
       inbox[i].is = "antenna" /\ inbox[j].is = "antenna"
         => i = j /\ inbox[i].value = asked

\* It has, and its reply, if there is one, tells what it did.
Answering ==
  /\ NoneSent(inbox)
  /\ \A i, j \in 1..Len(outbox) :
       outbox[i].of = "antenna" /\ outbox[j].of = "antenna"
         => /\ i = j
            /\ boardAntenna = IF outbox[i].ok THEN asked ELSE antenna

Settled == NoneSent(inbox) /\ NoneSaid(outbox)

InStep ==
  /\ ~Switching => Settled /\ antenna = boardAntenna
  /\ Switching /\ pc = "await" => awaited = "antenna" /\ (Asking \/ Answering)
  /\ Switching /\ pc = "answered" => Settled /\ boardAntenna = asked
  /\ Switching /\ pc = "unmet" => Settled /\ boardAntenna = antenna

\* As long as every command has been answered.
AntennaInv == unanswered = 0 => InStep

\* What is written or read elsewhere is not about the antenna.
LEMMA NoneAfter ==
  ASSUME TypeOK
  PROVE  /\ NoneSent(inbox) /\ inbox # <<>> => NoneSent(Tail(inbox))
         /\ \A k \in 0..Len(outbox) : NoneSaid(outbox) => NoneSaid(Unread(k))
         /\ \A k \in 0..Len(outbox) :
              /\ Len(Unread(k)) = Len(outbox) - k
              /\ \A i \in 1..Len(outbox) - k : Unread(k)[i] = outbox[k + i]
<1>1. inbox \in Seq(Sendable) /\ outbox \in Seq(Frame)
  BY DEF TypeOK
<1>2. NoneSent(inbox) /\ inbox # <<>> => NoneSent(Tail(inbox))
  <2> SUFFICES ASSUME NoneSent(inbox), inbox # <<>>,
                      NEW i \in 1..Len(Tail(inbox))
               PROVE  Tail(inbox)[i].is # "antenna"
    BY DEF NoneSent
  <2>1. Tail(inbox)[i] = inbox[i + 1] /\ i + 1 \in 1..Len(inbox)
    BY <1>1, HeadTailProperties
  <2>2. QED
    BY <2>1 DEF NoneSent
<1>3. \A k \in 0..Len(outbox) :
        /\ Len(Unread(k)) = Len(outbox) - k
        /\ \A i \in 1..Len(outbox) - k : Unread(k)[i] = outbox[k + i]
  <2> TAKE k \in 0..Len(outbox)
  <2>1. Len(Unread(k)) = Len(outbox) - k
    BY <1>1, SubSeqProperties DEF Unread
  <2>2. ASSUME NEW i \in 1..Len(outbox) - k
        PROVE  Unread(k)[i] = outbox[k + i]
    BY <1>1, SubSeqProperties DEF Unread
  <2>3. QED
    BY <2>1, <2>2
<1>4. ASSUME NEW k \in 0..Len(outbox), NoneSaid(outbox)
      PROVE  NoneSaid(Unread(k))
  <2> SUFFICES ASSUME NEW i \in 1..Len(Unread(k))
               PROVE  Unread(k)[i].of # "antenna"
    BY DEF NoneSaid
  <2>1. i \in 1..Len(outbox) - k
    BY <1>3
  <2>2. Unread(k)[i] = outbox[k + i]
    BY <1>3, <2>1
  <2>3. k + i \in 1..Len(outbox)
    BY <1>1, <2>1
  <2>4. QED
    BY <1>4, <2>2, <2>3 DEF NoneSaid
<1>5. QED
  BY <1>2, <1>3, <1>4

\* A frame that is not about the antenna leaves the others as they were.
LEMMA EmitOther ==
  ASSUME TypeOK, NEW frame \in Frame, Emit(frame)
  PROVE  \/ outbox' = outbox
         \/ /\ Len(outbox') = Len(outbox) + 1
            /\ \A i \in 1..Len(outbox) : outbox'[i] = outbox[i]
            /\ outbox'[Len(outbox) + 1].of = frame.of
            /\ outbox'[Len(outbox) + 1].ok = frame.ok
<1>1. CASE outbox' = outbox
  BY <1>1
<1>2. CASE outbox' = Append(outbox, [frame EXCEPT !.n = sent + 1])
  <2> DEFINE f == [frame EXCEPT !.n = sent + 1]
  <2>0. sent + 1 \in Nat
    BY DEF TypeOK
  <2>1. f \in Frame
    BY <2>0, Things
  <2>2. f.of = frame.of /\ f.ok = frame.ok
    BY DEF Frame
  <2>3. outbox \in Seq(Frame)
    BY DEF TypeOK
  <2>4. outbox' = Append(outbox, f)
    BY <1>2
  <2> HIDE DEF f
  <2>5. QED
    BY <2>1, <2>2, <2>3, <2>4, AppendProperties
<1>3. QED
  BY <1>1, <1>2 DEF Emit

LEMMA WriteOther ==
  ASSUME TypeOK, NEW messages \in Seq(Sendable), Write(messages),
         NoneSent(inbox), NoneSent(messages)
  PROVE  NoneSent(inbox')
<1>1. inbox \in Seq(Sendable)
  BY DEF TypeOK
<1>2. inbox' = inbox \o messages
  BY DEF Write
<1> SUFFICES ASSUME NEW i \in 1..Len(inbox')
             PROVE  inbox'[i].is # "antenna"
  BY DEF NoneSent
<1>3. CASE i \in 1..Len(inbox)
  <2>1. inbox'[i] = inbox[i]
    BY <1>1, <1>2, <1>3, ConcatProperties
  <2>2. QED
    BY <1>3, <2>1 DEF NoneSent
<1>4. CASE i \notin 1..Len(inbox)
  <2>1. i - Len(inbox) \in 1..Len(messages) /\ inbox'[i] = messages[i - Len(inbox)]
    BY <1>1, <1>2, <1>4, ConcatProperties
  <2>2. QED
    BY <2>1 DEF NoneSent
<1>5. QED
  BY <1>3, <1>4

\* The host's other commands.
LEMMA OtherMessages ==
  /\ <<Message("stop")>> \in Seq(Sendable)
  /\ NoneSent(<<Message("stop")>>)
  /\ \A l \in Lists : /\ <<ListsAre(l), Message("start")>> \in Seq(Sendable)
                      /\ NoneSent(<<ListsAre(l), Message("start")>>)
<1>1. /\ Message("stop").is # "antenna" /\ Message("start").is # "antenna"
      /\ \A l : ListsAre(l).is # "antenna"
  BY DEF Message, ListsAre
<1>2. Message("stop") \in Sendable /\ Message("start") \in Sendable
  BY Things DEF Commands
<1>3. NoneSent(<<Message("stop")>>)
  BY <1>1, <1>2 DEF NoneSent
<1>4. ASSUME NEW l \in Lists
      PROVE  /\ <<ListsAre(l), Message("start")>> \in Seq(Sendable)
             /\ NoneSent(<<ListsAre(l), Message("start")>>)
  BY <1>1, <1>2, Things DEF NoneSent
<1>5. QED
  BY <1>2, <1>3, <1>4

\* A step of the board.
LEMMA AntennaBoard ==
  ASSUME TypeOK, unanswered = 0, InStep, Hear \/ Handle
  PROVE  InStep'
<1>1. inbox \in Seq(Sendable) /\ outbox \in Seq(Frame)
  BY DEF TypeOK
<1>2. UNCHANGED host
  BY DEF Hear, Handle, HandleLists, HandleStart, HandleStop, HandleAntenna,
     Reads
<1>3. UNCHANGED <<pc, then, awaited, antenna, asked>>
  BY <1>2 DEF host, loop, switching
<1>4. \A c \in Commands, b \in BOOLEAN : Reply(c, b) \in Frame
  BY Things DEF Reply
<1>5. CASE Handle /\ Head(inbox).is = "antenna"
  <2>1. HandleAntenna
    BY <1>5 DEF Handle, HandleLists, HandleStart, HandleStop, Reads
  <2>2. inbox # <<>> /\ inbox' = Tail(inbox)
    BY <2>1 DEF HandleAntenna, Reads
  <2>3. 1 \in 1..Len(inbox) /\ inbox[1].is = "antenna"
    BY <1>1, <1>5, <2>2
  <2>4. ~NoneSent(inbox)
    BY <2>3 DEF NoneSent
  <2>5. Switching /\ pc = "await" /\ awaited = "antenna" /\ Asking
    BY <2>4 DEF InStep, Settled, Answering, Switching
  <2>6. inbox[1].value = asked
    BY <2>3, <2>5 DEF Asking
  <2>7. Head(inbox).value = asked
    BY <1>1, <2>2, <2>6
  <2>8. NoneSent(inbox')
    <3> SUFFICES ASSUME NEW i \in 1..Len(inbox')
                 PROVE  inbox'[i].is # "antenna"
      BY DEF NoneSent
    <3>1. inbox'[i] = inbox[i + 1] /\ i + 1 \in 1..Len(inbox) /\ i + 1 # 1
      BY <1>1, <2>2, HeadTailProperties
    <3>2. QED
      BY <2>3, <2>5, <3>1 DEF Asking
  <2>9. PICK b \in BOOLEAN : /\ Emit(Reply("antenna", b))
                             /\ boardAntenna' = IF b THEN asked ELSE antenna
    BY <2>1, <2>5, <2>7 DEF HandleAntenna, Asking
  <2>10. Reply("antenna", b) \in Frame
    BY <1>4 DEF Commands
  <2>11. \A i \in 1..Len(outbox') : outbox'[i].of = "antenna" =>
           /\ i = Len(outbox) + 1
           /\ outbox'[i].ok = b
    <3>1. Reply("antenna", b).ok = b
      BY DEF Reply
    <3>2. \A i \in 1..Len(outbox) : outbox[i].of # "antenna"
      BY <2>5 DEF Asking, NoneSaid
    <3>3. CASE outbox' = outbox
      BY <3>2, <3>3
    <3>4. CASE /\ Len(outbox') = Len(outbox) + 1
               /\ \A i \in 1..Len(outbox) : outbox'[i] = outbox[i]
               /\ outbox'[Len(outbox) + 1].ok = Reply("antenna", b).ok
      <4> SUFFICES ASSUME NEW i \in 1..Len(outbox'), outbox'[i].of = "antenna"
                   PROVE  i = Len(outbox) + 1 /\ outbox'[i].ok = b
        OBVIOUS
      <4>1. i \notin 1..Len(outbox)
        BY <3>2, <3>4
      <4>2. i = Len(outbox) + 1
        BY <1>1, <3>4, <4>1
      <4>3. QED
        BY <3>1, <3>4, <4>2
    <3>5. QED
      BY <2>9, <2>10, <3>3, <3>4, EmitOther
  <2>12. \A i, j \in 1..Len(outbox') :
           outbox'[i].of = "antenna" /\ outbox'[j].of = "antenna"
             => /\ i = j
                /\ boardAntenna' = IF outbox'[i].ok THEN asked' ELSE antenna'
    BY <1>3, <2>9, <2>11
  <2>13. Answering'
    BY <2>8, <2>12 DEF Answering
  <2>14. QED
    BY <1>3, <2>5, <2>13 DEF InStep, Switching
<1>6. CASE Hear \/ (Handle /\ Head(inbox).is # "antenna")
  <2>1. boardAntenna' = boardAntenna
    BY <1>6 DEF Hear, Handle, HandleLists, HandleStart, HandleStop,
       HandleAntenna, Reads
  <2>2. inbox' = inbox \/ (inbox # <<>> /\ inbox' = Tail(inbox))
    BY <1>6 DEF Hear, Handle, HandleLists, HandleStart, HandleStop,
       HandleAntenna, Reads
  <2>3. \/ outbox' = outbox
        \/ \E f \in Frame : Emit(f) /\ f.of # "antenna"
    <3>1. Packet \in Frame /\ Packet.of # "antenna"
      BY Things DEF Packet, TypeOK
    <3>2. \A b \in BOOLEAN : /\ Reply("start", b) \in Frame
                             /\ Reply("start", b).of # "antenna"
                             /\ Reply("stop", b) \in Frame
                             /\ Reply("stop", b).of # "antenna"
      BY <1>4 DEF Commands, Reply
    <3>3. CASE Hear
      BY <3>1, <3>3 DEF Hear
    <3>4. CASE HandleLists
      BY <3>4 DEF HandleLists
    <3>5. CASE HandleStart \/ HandleStop
      BY <3>2, <3>5 DEF HandleStart, HandleStop
    <3>6. ~HandleAntenna
      BY <1>6 DEF HandleAntenna, Reads, Hear, Emit
    <3>7. QED
      BY <1>6, <3>3, <3>4, <3>5, <3>6 DEF Handle
  <2>4. \A i \in 1..Len(outbox') : outbox'[i].of = "antenna" =>
          i \in 1..Len(outbox) /\ outbox'[i] = outbox[i]
    <3>1. CASE outbox' = outbox
      BY <3>1
    <3>2. CASE \E f \in Frame : Emit(f) /\ f.of # "antenna"
      BY <1>1, <3>2, EmitOther
    <3>3. QED
      BY <2>3, <3>1, <3>2
  <2>5. NoneSaid(outbox) => NoneSaid(outbox')
    BY <2>4 DEF NoneSaid
  <2>6. NoneSent(inbox) => NoneSent(inbox')
    BY <2>2, NoneAfter
  <2>7. Settled => Settled'
    BY <2>5, <2>6 DEF Settled
  <2>8. Answering => Answering'
    BY <1>3, <2>1, <2>4, <2>6 DEF Answering
  <2>9. Asking => Asking'
    <3> SUFFICES ASSUME Asking PROVE Asking'
      OBVIOUS
    <3>1. \A i \in 1..Len(inbox') : inbox'[i].is = "antenna" =>
            \E j \in {i, i + 1} : j \in 1..Len(inbox) /\ inbox'[i] = inbox[j]
      BY <1>1, <2>2, HeadTailProperties
    <3>2. \A i, j \in 1..Len(inbox') :
            inbox'[i].is = "antenna" /\ inbox'[j].is = "antenna"
              => i = j /\ inbox'[i].value = asked'
      <4>1. CASE inbox' = inbox
        BY <1>3, <4>1 DEF Asking
      <4>2. CASE inbox # <<>> /\ inbox' = Tail(inbox)
        <5> SUFFICES ASSUME NEW i \in 1..Len(inbox'), NEW j \in 1..Len(inbox'),
                            inbox'[i].is = "antenna", inbox'[j].is = "antenna"
                     PROVE  i = j /\ inbox'[i].value = asked'
          OBVIOUS
        <5>1. /\ inbox'[i] = inbox[i + 1] /\ i + 1 \in 1..Len(inbox)
              /\ inbox'[j] = inbox[j + 1] /\ j + 1 \in 1..Len(inbox)
          BY <1>1, <4>2, HeadTailProperties
        <5>2. i + 1 = j + 1 /\ inbox[i + 1].value = asked
          BY <5>1 DEF Asking
        <5>3. QED
          BY <1>3, <5>1, <5>2
      <4>3. QED
        BY <2>2, <4>1, <4>2
    <3>3. QED
      BY <1>3, <2>1, <2>5, <3>2 DEF Asking
  <2>10. QED
    BY <1>3, <2>1, <2>7, <2>8, <2>9 DEF InStep, Switching
<1>7. QED
  BY <1>5, <1>6

\* A read that is not the reply's leaves what is said about the antenna.
LEMMA AntennaUnread ==
  ASSUME TypeOK, NEW k \in 0..Len(outbox), outbox' = Unread(k), inbox' = inbox,
         UNCHANGED <<antenna, asked, boardAntenna>>
  PROVE  /\ Settled => Settled'
         /\ Asking => Asking'
         /\ Answering => Answering'
<1>1. NoneSaid(outbox) => NoneSaid(outbox')
  BY NoneAfter
<1>2. Settled => Settled'
  BY <1>1 DEF Settled
<1>3. Asking => Asking'
  BY <1>1 DEF Asking
<1>4. ASSUME Answering PROVE Answering'
  <2>1. NoneSent(inbox')
    BY <1>4 DEF Answering
  <2> SUFFICES ASSUME NEW i \in 1..Len(outbox'), NEW j \in 1..Len(outbox'),
                      outbox'[i].of = "antenna", outbox'[j].of = "antenna"
               PROVE  /\ i = j
                      /\ boardAntenna' = IF outbox'[i].ok THEN asked'
                                                          ELSE antenna'
    BY <2>1 DEF Answering
  <2>2. i \in 1..Len(outbox) - k /\ j \in 1..Len(outbox) - k
    BY NoneAfter
  <2>3. outbox'[i] = outbox[k + i] /\ outbox'[j] = outbox[k + j]
    BY <2>2, NoneAfter
  <2>4. outbox \in Seq(Frame)
    BY DEF TypeOK
  <2>5. k + i \in 1..Len(outbox) /\ k + j \in 1..Len(outbox)
    BY <2>2, <2>4
  <2>6. k + i = k + j /\ boardAntenna = IF outbox[k + i].ok THEN asked ELSE antenna
    BY <1>4, <2>3, <2>5 DEF Answering
  <2>7. i = j
    BY <2>6
  <2>8. QED
    BY <2>3, <2>6, <2>7
<1>5. QED
  BY <1>2, <1>3, <1>4

\* What the host does outside a switch: nothing it writes, and nothing left
\* to read, is about the antenna.
LEMMA AntennaApart ==
  ASSUME TypeOK, InStep, ~Switching, ~Switching',
         UNCHANGED <<antenna, boardAntenna>>,
         \/ inbox' = inbox
         \/ Write(<<Message("stop")>>)
         \/ \E l \in Lists : StartWith(l),
         \/ outbox' = outbox
         \/ \E k \in 0..Len(outbox) : outbox' = Unread(k)
  PROVE  InStep'
<1>1. NoneSent(inbox) /\ NoneSaid(outbox) /\ antenna = boardAntenna
  BY DEF InStep, Settled
<1>2. NoneSent(inbox')
  BY <1>1, WriteOther, OtherMessages DEF StartWith
<1>3. NoneSaid(outbox')
  BY <1>1, NoneAfter
<1>4. QED
  BY <1>1, <1>2, <1>3 DEF InStep, Settled, Switching

LEMMA AntennaHost ==
  ASSUME TypeOK, unanswered = 0, unanswered' = 0, InStep, HostStep
  PROVE  InStep'
<1> USE Known
<1>1. CASE TakeCheck \/ EndCheck
  <2>1. ~Switching /\ ~Switching'
    BY <1>1 DEF TakeCheck, EndCheck, Await, Switching
  <2>2. UNCHANGED <<antenna, boardAntenna, outbox>>
    BY <1>1 DEF TakeCheck, EndCheck, switching, board
  <2>3. Write(<<Message("stop")>>)
    BY <1>1 DEF TakeCheck, EndCheck
  <2>4. QED
    BY <2>1, <2>2, <2>3, AntennaApart
<1>2. CASE TakeAntenna
  <2>1. ~Switching
    BY <1>2 DEF TakeAntenna, Switching
  <2>2. Settled /\ antenna = boardAntenna
    BY <2>1 DEF InStep
  <2>3. /\ pc' = "await" /\ then' = "antenna" /\ awaited' = "antenna"
        /\ UNCHANGED <<antenna, boardAntenna, outbox>>
        /\ asked' = pendingAntenna /\ pendingAntenna \in Antennas
    BY <1>2 DEF TakeAntenna, Await, board, TypeOK
  <2> DEFINE m == [is |-> "antenna", value |-> pendingAntenna, lists |-> None]
  <2>4. m \in Sendable /\ m.value = pendingAntenna
    BY <2>3, Things
  <2>5. inbox' = inbox \o <<m>>
    BY <1>2 DEF TakeAntenna, Write
  <2> HIDE DEF m
  <2>6. inbox \in Seq(Sendable)
    BY DEF TypeOK
  <2>7. inbox' = Append(inbox, m)
    BY <2>4, <2>5, <2>6, AppendIsConcat
  <2>8. \A i \in 1..Len(inbox') : inbox'[i].is = "antenna" =>
          i = Len(inbox) + 1 /\ inbox'[i].value = asked'
    <3> SUFFICES ASSUME NEW i \in 1..Len(inbox'), inbox'[i].is = "antenna"
                 PROVE  i = Len(inbox) + 1 /\ inbox'[i].value = asked'
      OBVIOUS
    <3>1. \A j \in 1..Len(inbox) : inbox'[j] = inbox[j]
      BY <2>4, <2>6, <2>7, AppendProperties
    <3>2. Len(inbox') = Len(inbox) + 1 /\ inbox'[Len(inbox) + 1] = m
      BY <2>4, <2>6, <2>7, AppendProperties
    <3>3. i \notin 1..Len(inbox)
      BY <2>2, <3>1 DEF Settled, NoneSent
    <3>4. i = Len(inbox) + 1
      BY <2>6, <3>2, <3>3
    <3>5. QED
      BY <2>3, <2>4, <3>2, <3>4
  <2>9. Asking'
    BY <2>2, <2>3, <2>8 DEF Asking, Settled, NoneSaid
  <2>10. QED
    BY <2>3, <2>9 DEF InStep, Switching
<1>3. CASE MoveOn \/ Read \/ Delivered \/ Listening \/ Boundary
  <2>1. ~Switching /\ ~Switching'
    BY <1>3 DEF MoveOn, Read, Delivered, Listening, Boundary, Goto, Deliver,
       Over, Switching
  <2>2. UNCHANGED <<antenna, boardAntenna, inbox>>
    BY <1>3 DEF MoveOn, Read, Delivered, Listening, Boundary, switching,
       board, wire
  <2>3. outbox' = outbox \/ \E k \in 0..Len(outbox) : outbox' = Unread(k)
    BY <1>3 DEF MoveOn, Read, Delivered, Listening, Boundary, wire
  <2>4. QED
    BY <2>1, <2>2, <2>3, AntennaApart
<1>4. CASE Record
  <2>1. ~Switching /\ ~Switching'
    BY <1>4 DEF Record, Switching, loop
  <2>2. UNCHANGED <<antenna, boardAntenna, inbox, outbox>>
    BY <1>4 DEF Record, switching, board, wire
  <2>3. QED
    BY <2>1, <2>2, AntennaApart
<1>5. CASE Listen \/ Restore \/ Abandon
  <2>1. ~Switching /\ ~Switching'
    BY <1>5 DEF Listen, Restore, Abandon, Await, Switching
  <2>2. UNCHANGED <<antenna, boardAntenna, outbox>>
    BY <1>5 DEF Listen, Restore, Abandon, switching, board
  <2>3. \E l \in Lists : StartWith(l)
    BY <1>5 DEF Listen, Restore, Abandon, Restart
  <2>4. QED
    BY <2>1, <2>2, <2>3, AntennaApart
<1>6. CASE LookInVain
  <2>1. PICK k \in 0..Len(outbox) : outbox' = Unread(k)
    BY <1>6 DEF LookInVain
  <2>2. UNCHANGED <<pc, then, awaited, antenna, asked, boardAntenna, inbox>>
    BY <1>6 DEF LookInVain, loop, switching, board
  <2>3. pc = "await"
    BY <1>6 DEF LookInVain
  <2>4. CASE Switching
    <3>1. awaited = "antenna" /\ (Asking' \/ Answering')
      BY <2>1, <2>2, <2>3, <2>4, AntennaUnread DEF InStep
    <3>2. QED
      BY <2>2, <2>3, <2>4, <3>1 DEF InStep, Switching
  <2>5. CASE ~Switching
    BY <2>1, <2>2, <2>5, AntennaApart DEF Switching
  <2>6. QED
    BY <2>4, <2>5
<1>7. CASE Found
  <2>1. PICK k \in 1..Len(outbox) : \E i \in Answers(k) :
          /\ pc' = IF outbox[i].ok THEN "answered" ELSE "unmet"
          /\ outbox' = Unread(k)
    BY <1>7 DEF Found
  <2>2. PICK i \in Answers(k) :
          /\ pc' = IF outbox[i].ok THEN "answered" ELSE "unmet"
          /\ outbox' = Unread(k)
    BY <2>1
  <2>3. /\ pc = "await"
        /\ UNCHANGED <<then, awaited, antenna, asked, boardAntenna, inbox>>
    BY <1>7 DEF Found, switching, board
  <2>4. outbox \in Seq(Frame)
    BY DEF TypeOK
  <2>5. i \in 1..k /\ i \in 1..Len(outbox) /\ outbox[i].of = awaited
    BY <2>4 DEF Answers, IsReply
  <2>6. k \in 0..Len(outbox)
    BY <2>4
  <2>7. CASE Switching
    <3>1. outbox[i].of = "antenna"
      BY <2>3, <2>5, <2>7 DEF InStep
    <3>2. Answering
      BY <2>3, <2>5, <2>7, <3>1 DEF InStep, Asking, NoneSaid
    <3>3. boardAntenna = IF outbox[i].ok THEN asked ELSE antenna
      BY <2>5, <3>1, <3>2 DEF Answering
    <3>4. NoneSaid(outbox')
      <4> SUFFICES ASSUME NEW j \in 1..Len(outbox'), outbox'[j].of = "antenna"
                   PROVE  FALSE
        BY DEF NoneSaid
      <4>1. j \in 1..Len(outbox) - k
        BY <2>2, <2>6, NoneAfter
      <4>2. outbox'[j] = outbox[k + j]
        BY <2>2, <2>6, <4>1, NoneAfter
      <4>3. k + j \in 1..Len(outbox) /\ k + j # i
        BY <2>4, <2>5, <4>1
      <4>4. QED
        BY <2>5, <3>1, <3>2, <4>2, <4>3 DEF Answering
    <3>5. Settled'
      BY <2>3, <3>2, <3>4 DEF Settled, Answering
    <3>6. CASE outbox[i].ok
      BY <2>2, <2>3, <2>7, <3>3, <3>5, <3>6 DEF InStep, Switching
    <3>7. CASE ~outbox[i].ok
      BY <2>2, <2>3, <2>7, <3>3, <3>5, <3>7 DEF InStep, Switching
    <3>8. QED
      BY <3>6, <3>7
  <2>8. CASE ~Switching
    <3>1. ~Switching'
      BY <2>3, <2>8 DEF Switching
    <3>2. QED
      BY <2>2, <2>3, <2>6, <2>8, <3>1, AntennaApart
  <2>9. QED
    BY <2>7, <2>8
<1>8. CASE TimedOut
  BY <1>8 DEF TimedOut
<1>9. CASE Finished
  <2>1. ~Switching /\ ~Switching'
    BY <1>9 DEF Finished, Goto, Switching
  <2>2. UNCHANGED <<antenna, boardAntenna, inbox, outbox>>
    BY <1>9 DEF Finished, switching, board, wire
  <2>3. QED
    BY <2>1, <2>2, AntennaApart
<1>10. CASE Switched
  <2>1. Switching /\ ~Switching' /\ pc \in {"answered", "unmet"}
    BY <1>10 DEF Switched, Over, Goto, Switching
  <2>2. UNCHANGED <<boardAntenna, inbox, outbox>>
    BY <1>10 DEF Switched, board, wire
  <2>3. antenna' = IF pc = "answered" THEN asked ELSE antenna
    BY <1>10 DEF Switched, Switch
  <2>4. Settled /\ boardAntenna = antenna'
    BY <2>1, <2>3 DEF InStep
  <2>5. QED
    BY <2>1, <2>2, <2>4 DEF InStep, Settled
<1>11. CASE Close
  <2>1. ~Switching /\ ~Switching'
    BY <1>11 DEF Close, Goto, Switching
  <2>2. UNCHANGED <<antenna, boardAntenna, outbox>>
    BY <1>11 DEF Close, switching, board
  <2>3. Write(<<Message("stop")>>)
    BY <1>11 DEF Close
  <2>4. QED
    BY <2>1, <2>2, <2>3, AntennaApart
<1>12. QED
  BY <1>1, <1>2, <1>3, <1>4, <1>5, <1>6, <1>7, <1>8, <1>9, <1>10, <1>11
     DEF HostStep

\* A command that was not answered is never forgotten.
LEMMA NeverForgotten ==
  TypeOK /\ [Next]_vars /\ unanswered' = 0 => unanswered = 0
<1> SUFFICES ASSUME TypeOK, [Next]_vars, unanswered # 0 PROVE unanswered' # 0
  OBVIOUS
<1>1. CASE TimedOut
  BY <1>1 DEF TimedOut, TypeOK
<1>2. CASE Found \/ Record
  BY <1>2 DEF Found, Record
<1>3. CASE TakeCheck \/ EndCheck \/ TakeAntenna \/ MoveOn \/ Read
  BY <1>3 DEF TakeCheck, EndCheck, TakeAntenna, MoveOn, Read, stats
<1>4. CASE Listen \/ Restore \/ Delivered \/ LookInVain \/ Boundary
  BY <1>4 DEF Listen, Restore, Delivered, LookInVain, Boundary, stats
<1>5. CASE Listening \/ Abandon \/ Finished \/ Switched \/ Close
  BY <1>5 DEF Listening, Abandon, Finished, Switched, Close, stats
<1>6. CASE Others \/ TimeUp
  BY <1>6 DEF Others, RequestCheck, RequestAntenna, RequestStop, TimeUp, stats
<1>7. CASE Hear \/ Handle \/ UNCHANGED vars
  <2>1. UNCHANGED host
    BY <1>7 DEF Hear, Handle, HandleLists, HandleStart, HandleStop,
       HandleAntenna, Reads, vars
  <2>2. QED
    BY <2>1 DEF host, stats
<1>8. QED
  BY <1>1, <1>2, <1>3, <1>4, <1>5, <1>6, <1>7 DEF Next, HostStep

LEMMA AntennaStep == TypeOK /\ AntennaInv /\ [Next]_vars => AntennaInv'
<1> SUFFICES ASSUME TypeOK, AntennaInv, [Next]_vars, unanswered' = 0
             PROVE  InStep'
  BY DEF AntennaInv
<1>1. unanswered = 0 /\ InStep
  BY NeverForgotten DEF AntennaInv
<1>2. CASE HostStep
  BY <1>1, <1>2, AntennaHost
<1>3. CASE Hear \/ Handle
  BY <1>1, <1>3, AntennaBoard
<1>4. CASE Others \/ TimeUp \/ UNCHANGED vars
  <2>1. UNCHANGED <<loop, wire, board, antenna, asked>>
    BY <1>4 DEF Others, RequestCheck, RequestAntenna, RequestStop, TimeUp,
       vars, host, switching
  <2>2. UNCHANGED <<pc, then, awaited, inbox, outbox, boardAntenna, antenna,
                    asked>>
    BY <2>1 DEF loop, wire, board
  <2>3. QED
    BY <1>1, <2>2 DEF InStep, Switching, Settled, Asking, Answering, NoneSent,
       NoneSaid
<1>5. QED
  BY <1>2, <1>3, <1>4 DEF Next

LEMMA AntennaStart == Init => AntennaInv
  BY DEF Init, AntennaInv, InStep, Switching, Settled, NoneSent, NoneSaid

\* As long as every command has had an answer, the antenna the host shows is
\* the one the board uses, whatever is asked for meanwhile and whatever the
\* board refuses.
THEOREM AntennaIsKnown == Spec => []AntennaKnown
<1>1. Spec => []AntennaInv
  BY AntennaStart, AntennaStep, TypeCorrect, PTL DEF Spec
<1>2. AntennaInv => AntennaKnown
  BY DEF AntennaInv, InStep, Switching, AntennaKnown
<1>3. QED
  BY <1>1, <1>2, PTL

-----------------------------------------------------------------------------
(* The gaps are what the ring refused.                                     *)

\* The frames sent and not yet observed, in the order they will be.
Ahead == batch \o (deferred \o outbox)

\* They are in the order of their numbers, and a number that has been given
\* and is neither among them nor behind is one the ring refused.
InOrder ==
  /\ last <= sent /\ last \notin lost
  /\ \A i \in 1..Len(Ahead) :
       Ahead[i].n > last /\ Ahead[i].n <= sent /\ Ahead[i].n \notin lost
  /\ \A i, j \in 1..Len(Ahead) : i < j => Ahead[i].n < Ahead[j].n
  /\ \A n \in (last + 1)..sent :
       n \in lost \/ \E i \in 1..Len(Ahead) : Ahead[i].n = n

LostInv ==
  /\ IsFiniteSet(lost) /\ Cardinality(lost) <= MaxLost
  /\ \A n \in lost : n <= sent

\* A batch is empty when the loop is not delivering one, and nothing is
\* deferred while it is.
BatchInv ==
  /\ pc # "deliver" => batch = <<>>
  /\ pc = "deliver" => deferred = <<>>

GapInv == InOrder /\ LostInv /\ BatchInv /\ GapsAreLost

\* Two ways to lay out the same frames, and the sequence they are.
LEMMA AheadTypes ==
  ASSUME TypeOK
  PROVE  /\ batch \in Seq(Frame) /\ deferred \in Seq(Frame)
         /\ outbox \in Seq(Frame) /\ deferred \o outbox \in Seq(Frame)
         /\ Ahead \in Seq(Frame)
<1>1. batch \in Seq(Frame) /\ deferred \in Seq(Frame) /\ outbox \in Seq(Frame)
  BY DEF TypeOK
<1>2. deferred \o outbox \in Seq(Frame)
  BY <1>1, Joins
<1>3. QED
  BY <1>1, <1>2, Joins DEF Ahead

Rejoined(k) == (deferred \o Arrived(k)) \o Unread(k) = deferred \o outbox

LEMMA SplitAgain ==
  ASSUME TypeOK, NEW k \in 0..Len(outbox)
  PROVE  Rejoined(k)
<1>1. outbox \in Seq(Frame) /\ deferred \in Seq(Frame)
  BY DEF TypeOK
<1>2. Arrived(k) \in Seq(Frame) /\ Unread(k) \in Seq(Frame)
  BY <1>1, Splits DEF Arrived, Unread
<1>3. Arrived(k) \o Unread(k) = SubSeq(outbox, 1, Len(outbox))
  <2>1. /\ 1 \in 1..Len(outbox) + 1 /\ k \in (1 - 1)..Len(outbox)
        /\ Len(outbox) \in k..Len(outbox)
    BY <1>1
  <2>2. SubSeq(outbox, 1, k) \o SubSeq(outbox, k + 1, Len(outbox))
          = SubSeq(outbox, 1, Len(outbox))
    BY <1>1, <2>1, ConcatAdjacentSubSeq, ZenonT(30)
  <2>3. QED
    BY <2>2 DEF Arrived, Unread
<1>4. Arrived(k) \o Unread(k) = outbox
  BY <1>1, <1>3, SubSeqFull
<1>5. (deferred \o Arrived(k)) \o Unread(k)
        = deferred \o (Arrived(k) \o Unread(k))
  BY <1>1, <1>2, ConcatAssociative, SMT
<1>6. QED
  BY <1>4, <1>5 DEF Rejoined

\* A frame that is sent goes to the end.
LEMMA EmitInOrder ==
  ASSUME TypeOK, InOrder, LostInv, NEW frame \in Frame, Emit(frame),
         UNCHANGED <<batch, deferred, last>>
  PROVE  InOrder' /\ LostInv'
<1> DEFINE f == [frame EXCEPT !.n = sent + 1]
<1>1. sent \in Nat /\ last \in Nat /\ lost \in SUBSET Nat
  BY DEF TypeOK
<1>2. sent + 1 \in Nat /\ sent' = sent + 1 /\ sent + 1 \notin lost
  BY <1>1 DEF Emit, LostInv
<1>3. f \in Frame /\ f.n = sent + 1
  BY <1>2, Things DEF Frame
<1>4. /\ batch \in Seq(Frame) /\ deferred \in Seq(Frame)
      /\ outbox \in Seq(Frame) /\ Ahead \in Seq(Frame)
      /\ deferred \o outbox \in Seq(Frame)
  BY AheadTypes
<1>5. CASE outbox' = Append(outbox, f) /\ UNCHANGED lost
  <2>0. <<f>> \in Seq(Frame)
    BY <1>3
  <2>1. outbox' = outbox \o <<f>>
    BY <1>3, <1>4, <1>5, AppendIsConcat
  <2>2. deferred \o outbox' = (deferred \o outbox) \o <<f>>
    BY <1>4, <2>0, <2>1, ConcatAssociative
  <2>3. batch \o (deferred \o outbox') = Ahead \o <<f>>
    <3>1. batch \o ((deferred \o outbox) \o <<f>>)
            = (batch \o (deferred \o outbox)) \o <<f>>
      <4> DEFINE rest == deferred \o outbox
                 one == <<f>>
      <4>1. batch \in Seq(Frame) /\ rest \in Seq(Frame) /\ one \in Seq(Frame)
        BY <1>4, <2>0
      <4> HIDE DEF rest, one
      <4>2. batch \o (rest \o one) = (batch \o rest) \o one
        BY <4>1, ConcatAssociative, SMT
      <4>3. QED
        BY <4>2 DEF rest, one
    <3>2. QED
      BY <2>2, <3>1 DEF Ahead
  <2>4. Ahead' = Append(Ahead, f)
    BY <1>3, <1>4, <2>3, AppendIsConcat DEF Ahead
  <2> HIDE DEF f
  <2>5. /\ Len(Ahead') = Len(Ahead) + 1
        /\ \A i \in 1..Len(Ahead) : Ahead'[i] = Ahead[i]
        /\ Ahead'[Len(Ahead) + 1] = f
    BY <1>3, <1>4, <2>4, AppendProperties
  <2> DEFINE N == Len(Ahead)
  <2>6. N \in Nat
    BY <1>4
  <2>7. \A i \in 1..N : Ahead[i] \in Frame
    BY <1>4
  <2>8. \A i \in 1..N : Ahead[i].n \in Nat
    BY <2>7, Things
  <2>9. \A i \in 1..N + 1 :
          Ahead'[i].n > last /\ Ahead'[i].n <= sent + 1 /\ Ahead'[i].n \notin lost
    <3> SUFFICES ASSUME NEW i \in 1..N + 1
                 PROVE  /\ Ahead'[i].n > last /\ Ahead'[i].n <= sent + 1
                        /\ Ahead'[i].n \notin lost
      OBVIOUS
    <3>1. CASE i \in 1..N
      BY <1>1, <2>5, <2>8, <3>1 DEF InOrder
    <3>2. CASE i = N + 1
      BY <1>1, <1>2, <1>3, <2>5, <3>2 DEF InOrder
    <3>3. QED
      BY <2>6, <3>1, <3>2
  <2>10. \A i, j \in 1..N + 1 : i < j => Ahead'[i].n < Ahead'[j].n
    <3> SUFFICES ASSUME NEW i \in 1..N + 1, NEW j \in 1..N + 1, i < j
                 PROVE  Ahead'[i].n < Ahead'[j].n
      OBVIOUS
    <3>1. i \in 1..N /\ Ahead'[i] = Ahead[i]
      BY <2>5, <2>6
    <3>2. CASE j \in 1..N
      BY <2>5, <3>1, <3>2 DEF InOrder
    <3>3. CASE j = N + 1
      BY <1>1, <1>3, <2>5, <2>8, <3>1, <3>3 DEF InOrder
    <3>4. QED
      BY <2>6, <3>2, <3>3
  <2>11. \A n \in (last + 1)..(sent + 1) :
           n \in lost \/ \E i \in 1..N + 1 : Ahead'[i].n = n
    <3> SUFFICES ASSUME NEW n \in (last + 1)..(sent + 1), n \notin lost
                 PROVE  \E i \in 1..N + 1 : Ahead'[i].n = n
      OBVIOUS
    <3>1. CASE n = sent + 1
      <4>1. N + 1 \in 1..N + 1 /\ Ahead'[N + 1].n = n
        BY <1>3, <2>5, <2>6, <3>1
      <4>2. QED
        BY <4>1
    <3>2. CASE n # sent + 1
      <4>1. PICK i \in 1..N : Ahead[i].n = n
        BY <1>1, <3>2 DEF InOrder
      <4>2. i \in 1..N + 1 /\ Ahead'[i].n = n
        BY <2>5, <2>6, <4>1
      <4>3. QED
        BY <4>2
    <3>3. QED
      BY <3>1, <3>2
  <2>12. last' <= sent' /\ last' \notin lost'
    BY <1>1, <1>2, <1>5 DEF InOrder
  <2>13. InOrder'
    <3>1. Len(Ahead') = N + 1 /\ last' = last /\ lost' = lost
      BY <1>5, <2>5
    <3> HIDE DEF N
    <3>2. QED
      BY <1>2, <2>9, <2>10, <2>11, <2>12, <3>1 DEF InOrder
  <2>14. LostInv'
    BY <1>1, <1>2, <1>5 DEF LostInv
  <2>15. QED
    BY <2>13, <2>14
<1>6. CASE /\ Cardinality(lost) < MaxLost
           /\ lost' = lost \cup {sent + 1}
           /\ UNCHANGED outbox
  <2>1. Ahead' = Ahead
    BY <1>6 DEF Ahead
  <2>2. \A i \in 1..Len(Ahead) : Ahead[i] \in Frame
    BY <1>4
  <2>3. \A i \in 1..Len(Ahead) : Ahead[i].n \in Nat
    BY <2>2, Things
  <2>4. InOrder'
    <3>1. last' <= sent' /\ last' \notin lost'
      BY <1>1, <1>2, <1>6 DEF InOrder
    <3>2. \A i \in 1..Len(Ahead) :
            Ahead[i].n > last /\ Ahead[i].n <= sent' /\ Ahead[i].n \notin lost'
      BY <1>1, <1>2, <1>6, <2>3 DEF InOrder
    <3>3. \A n \in (last + 1)..sent' :
            n \in lost' \/ \E i \in 1..Len(Ahead) : Ahead[i].n = n
      BY <1>1, <1>2, <1>6 DEF InOrder
    <3>4. \A i, j \in 1..Len(Ahead) : i < j => Ahead[i].n < Ahead[j].n
      BY DEF InOrder
    <3>5. QED
      BY <2>1, <3>1, <3>2, <3>3, <3>4 DEF InOrder
  <2>5. LostInv'
    <3>1. IsFiniteSet(lost') /\ Cardinality(lost') = Cardinality(lost) + 1
      BY <1>2, <1>6, FS_AddElement DEF LostInv
    <3>2. Cardinality(lost) \in Nat
      BY FS_CardinalityType DEF LostInv
    <3>3. \A n \in lost' : n <= sent'
      BY <1>1, <1>2, <1>6 DEF LostInv
    <3>4. QED
      BY <1>6, <3>1, <3>2, <3>3, Known DEF LostInv
  <2>6. QED
    BY <2>4, <2>5
<1>7. QED
  BY <1>5, <1>6 DEF Emit

\* A difference the sequence number can tell.
LEMMA Small == \A d \in Nat : d < 65536 => d % 65536 = d
  OBVIOUS

LEMMA Between ==
  ASSUME NEW a \in Nat, NEW b \in Nat, a < b
  PROVE  /\ IsFiniteSet((a + 1)..(b - 1))
         /\ Cardinality((a + 1)..(b - 1)) = b - a - 1
<1> DEFINE lo == a + 1
           hi == b - 1
<1>1. lo \in Int /\ hi \in Int
  OBVIOUS
<1>2. (IF lo > hi THEN 0 ELSE hi - lo + 1) = b - a - 1
  OBVIOUS
<1> HIDE DEF lo, hi
<1>3. IsFiniteSet(lo..hi) /\ Cardinality(lo..hi) = IF lo > hi THEN 0 ELSE hi - lo + 1
  BY <1>1, FS_Interval
<1>4. IsFiniteSet(lo..hi) /\ Cardinality(lo..hi) = b - a - 1
  BY <1>2, <1>3
<1>5. QED
  BY <1>4 DEF lo, hi

LEMMA NothingShared ==
  ASSUME NEW A, NEW B, A \cap B = {}
  PROVE  Cardinality(A \cap B) = 0
  BY FS_EmptySet


LEMMA BoardKeepsHost == Hear \/ Handle => UNCHANGED host
<1>1. Hear => UNCHANGED host
  BY DEF Hear
<1>2. \A m : Reads(m) => UNCHANGED host
  BY DEF Reads
<1>3. QED
  BY <1>1, <1>2 DEF Handle, HandleLists, HandleStart, HandleStop, HandleAntenna

\* A step of the board sends one frame or none.
LEMMA BoardEmits ==
  ASSUME TypeOK, Hear \/ Handle
  PROVE  (\E f \in Frame : Emit(f)) \/ UNCHANGED <<outbox, sent, lost>>
<1>1. Packet \in Frame
  BY Things DEF Packet, TypeOK
<1>2. \A c \in Commands, b \in BOOLEAN : Reply(c, b) \in Frame
  BY Things DEF Reply
<1>3. CASE Hear
  BY <1>1, <1>3 DEF Hear
<1>4. CASE HandleLists
  BY <1>4 DEF HandleLists
<1>5. CASE HandleStart
  BY <1>2, <1>5 DEF HandleStart, Commands
<1>6. CASE HandleStop
  BY <1>2, <1>6 DEF HandleStop, Commands
<1>7. CASE HandleAntenna
  BY <1>2, <1>7 DEF HandleAntenna, Commands
<1>8. QED
  BY <1>3, <1>4, <1>5, <1>6, <1>7 DEF Handle

\* What is ahead is only laid out anew.
LEMMA SameAhead ==
  ASSUME GapInv, Ahead' = Ahead, BatchInv',
         UNCHANGED <<last, sent, lost, gaps>>
  PROVE  GapInv'
<1>1. InOrder'
  BY DEF GapInv, InOrder
<1>2. LostInv' /\ GapsAreLost'
  BY DEF GapInv, LostInv, GapsAreLost
<1>3. QED
  BY <1>1, <1>2 DEF GapInv

\* The first frame of the batch is observed: what lies between it and the
\* last one was refused, and is counted.
LEMMA RecordGaps ==
  ASSUME MaxLost < 65536, TypeOK, GapInv, Record
  PROVE  GapInv'
<1> DEFINE f == Head(batch)
           rest == deferred \o outbox
           N == Len(Ahead)
           Skipped == (last + 1)..(f.n - 1)
<1>1. /\ batch # <<>> /\ batch' = Tail(batch) /\ last' = f.n
      /\ gaps' = gaps + ((f.n - last - 1) % 65536)
      /\ UNCHANGED <<pc, deferred, outbox, sent, lost>>
  BY DEF Record, loop, wire, board
<1>2. /\ batch \in Seq(Frame) /\ rest \in Seq(Frame) /\ Ahead \in Seq(Frame)
      /\ Ahead = batch \o rest /\ Ahead' = Tail(batch) \o rest
  BY <1>1, AheadTypes DEF Ahead
<1>3. last \in Nat /\ sent \in Nat /\ lost \in SUBSET Nat /\ gaps \in Nat
  BY DEF TypeOK
<1>4. Tail(batch) \in Seq(Frame) /\ Len(Tail(batch)) = Len(batch) - 1
  BY <1>1, <1>2, HeadTailProperties
<1> HIDE DEF rest
<1>5. /\ Len(Ahead') = N - 1
      /\ \A i \in 1..N - 1 : Ahead'[i] = Ahead[i + 1]
  <2>1. N = Len(batch) + Len(rest)
    BY <1>2, ConcatProperties
  <2>2. Len(Ahead') = Len(batch) - 1 + Len(rest)
    BY <1>2, <1>4, ConcatProperties
  <2>3. Len(batch) \in Nat /\ Len(rest) \in Nat
    BY <1>2
  <2>4. ASSUME NEW i \in 1..N - 1
        PROVE  Ahead'[i] = Ahead[i + 1]
    <3>1. Ahead'[i] = IF i <= Len(batch) - 1 THEN Tail(batch)[i]
                                             ELSE rest[i - (Len(batch) - 1)]
      BY <1>2, <1>4, <2>1, <2>3, ConcatProperties
    <3>2. Ahead[i + 1] = IF i + 1 <= Len(batch) THEN batch[i + 1]
                                                ELSE rest[i + 1 - Len(batch)]
      BY <1>2, <2>1, <2>3, ConcatProperties
    <3>3. i <= Len(batch) - 1 => Tail(batch)[i] = batch[i + 1]
      BY <1>1, <1>2, <1>4, HeadTailProperties
    <3>4. QED
      BY <2>3, <3>1, <3>2, <3>3
  <2>5. QED
    BY <2>1, <2>2, <2>3, <2>4
<1>6. N \in Nat /\ 1 \in 1..N /\ Ahead[1] = f
  <2>1. N = Len(batch) + Len(rest) /\ Len(batch) \in Nat /\ Len(rest) \in Nat
    BY <1>2, ConcatProperties
  <2>2. Len(batch) >= 1
    BY <1>1, <1>2
  <2>3. Ahead[1] = batch[1]
    BY <1>2, <2>1, <2>2, ConcatProperties
  <2>4. batch[1] = f
    BY <1>1, <1>2
  <2>5. QED
    BY <2>1, <2>2, <2>3, <2>4
<1>7. \A i \in 1..N : Ahead[i].n \in Nat
  <2>1. \A i \in 1..N : Ahead[i] \in Frame
    BY <1>2
  <2>2. QED
    BY <2>1, Things
<1> HIDE DEF N
<1>8. f.n \in Nat /\ f.n > last /\ f.n <= sent /\ f.n \notin lost
  BY <1>6, <1>7 DEF GapInv, InOrder, N
<1>9. \A i \in 2..N : Ahead[i].n > f.n
  BY <1>6, <1>7 DEF GapInv, InOrder, N
<1> HIDE DEF f
<1>10. Skipped \subseteq lost
  <2> SUFFICES ASSUME NEW n \in Skipped PROVE n \in lost
    OBVIOUS
  <2>1. n \in (last + 1)..sent /\ n < f.n /\ n \in Nat
    BY <1>3, <1>8
  <2>2. \A i \in 1..N : Ahead[i].n # n
    BY <1>6, <1>7, <1>8, <1>9, <2>1
  <2>3. QED
    BY <2>1, <2>2 DEF GapInv, InOrder, N
<1>11. IsFiniteSet(Skipped) /\ Cardinality(Skipped) = f.n - last - 1
  <2>1. last < f.n
    BY <1>3, <1>8
  <2>2. QED
    BY <1>3, <1>8, <2>1, Between
<1>20. /\ \A n \in Skipped : n \in Nat /\ n > last /\ n < f.n
       /\ \A n \in Nat : n > last /\ n < f.n => n \in Skipped
  BY <1>3, <1>8
<1> HIDE DEF Skipped
<1>12. (f.n - last - 1) % 65536 = f.n - last - 1
  <2>1. Cardinality(Skipped) <= Cardinality(lost) /\ Cardinality(lost) <= MaxLost
    BY <1>10, FS_Subset DEF GapInv, LostInv
  <2>2. Cardinality(lost) \in Nat
    BY FS_CardinalityType DEF GapInv, LostInv
  <2>3. MaxLost \in Nat
    BY Known
  <2>4. f.n - last - 1 \in Nat /\ f.n - last - 1 < 65536
    BY <1>3, <1>8, <1>11, <2>1, <2>2, <2>3
  <2>5. QED
    BY <2>4, Small
<1>13. GapsAreLost'
  <2> DEFINE Before == {n \in lost : n < last}
             After == {n \in lost : n < f.n}
  <2>1. After = Before \cup Skipped
    <3>1. ASSUME NEW n \in After PROVE n \in Before \cup Skipped
      <4>1. n \in Nat /\ n # last /\ n < f.n /\ n \in lost
        BY <1>3, <3>1 DEF GapInv, InOrder
      <4>2. CASE n < last
        BY <4>1, <4>2
      <4>3. CASE n > last
        BY <1>20, <4>1, <4>3
      <4>4. QED
        BY <1>3, <4>1, <4>2, <4>3
    <3>2. ASSUME NEW n \in Before PROVE n \in After
      BY <1>3, <1>8
    <3>3. ASSUME NEW n \in Skipped PROVE n \in After
      BY <1>10, <1>20
    <3>4. QED
      BY <3>1, <3>2, <3>3
  <2>2. Before \cap Skipped = {}
    BY <1>3, <1>20
  <2>3. IsFiniteSet(Before)
    BY FS_Subset DEF GapInv, LostInv
  <2>4. Cardinality(Before \cap Skipped) = 0
    BY <2>2, NothingShared
  <2>5. Cardinality(Before) \in Nat
    BY <2>3, FS_CardinalityType
  <2> HIDE DEF Before, After, Skipped
  <2>6. Cardinality(After)
          = Cardinality(Before) + Cardinality(Skipped)
              - Cardinality(Before \cap Skipped)
    BY <1>11, <2>1, <2>3, FS_Union
  <2>7. Cardinality(After) = Cardinality(Before) + (f.n - last - 1)
    BY <1>3, <1>8, <1>11, <2>4, <2>5, <2>6
  <2>8. gaps = Cardinality(Before)
    BY DEF GapInv, GapsAreLost, Before
  <2>9. gaps' = Cardinality(After)
    BY <1>1, <1>12, <2>7, <2>8
  <2>10. QED
    BY <1>1, <2>9 DEF GapsAreLost, After
<1>14. InOrder'
  <2>1. last' <= sent' /\ last' \notin lost'
    BY <1>1, <1>8
  <2>2. \A i \in 1..N - 1 :
          Ahead'[i].n > f.n /\ Ahead'[i].n <= sent /\ Ahead'[i].n \notin lost
    <3> SUFFICES ASSUME NEW i \in 1..N - 1
                 PROVE  /\ Ahead'[i].n > f.n /\ Ahead'[i].n <= sent
                        /\ Ahead'[i].n \notin lost
      OBVIOUS
    <3>1. i + 1 \in 2..N /\ i + 1 \in 1..N /\ Ahead'[i] = Ahead[i + 1]
      BY <1>5, <1>6
    <3>2. QED
      BY <1>9, <3>1 DEF GapInv, InOrder, N
  <2>3. \A i, j \in 1..N - 1 : i < j => Ahead'[i].n < Ahead'[j].n
    <3> SUFFICES ASSUME NEW i \in 1..N - 1, NEW j \in 1..N - 1, i < j
                 PROVE  Ahead'[i].n < Ahead'[j].n
      OBVIOUS
    <3>1. /\ i + 1 \in 1..N /\ j + 1 \in 1..N /\ i + 1 < j + 1
          /\ Ahead'[i] = Ahead[i + 1] /\ Ahead'[j] = Ahead[j + 1]
      BY <1>5, <1>6
    <3>2. QED
      BY <3>1 DEF GapInv, InOrder, N
  <2>4. \A n \in (f.n + 1)..sent :
          n \in lost \/ \E i \in 1..N - 1 : Ahead'[i].n = n
    <3> SUFFICES ASSUME NEW n \in (f.n + 1)..sent, n \notin lost
                 PROVE  \E i \in 1..N - 1 : Ahead'[i].n = n
      OBVIOUS
    <3>1. n \in (last + 1)..sent
      BY <1>3, <1>8
    <3>2. PICK i \in 1..N : Ahead[i].n = n
      BY <3>1 DEF GapInv, InOrder, N
    <3>3. i # 1
      BY <1>6, <1>8, <3>2
    <3>4. i - 1 \in 1..N - 1
      BY <1>6, <3>3
    <3>5. Ahead'[i - 1] = Ahead[i]
      BY <1>5, <1>6, <3>4
    <3>6. QED
      BY <3>2, <3>4, <3>5
  <2>5. QED
    BY <1>1, <1>5, <2>1, <2>2, <2>3, <2>4 DEF InOrder
<1>15. LostInv'
  BY <1>1 DEF GapInv, LostInv
<1>16. BatchInv'
  BY <1>1 DEF GapInv, BatchInv, Record, loop
<1>17. QED
  BY <1>13, <1>14, <1>15, <1>16 DEF GapInv

LEMMA GapStep ==
  ASSUME MaxLost < 65536, TypeOK, GapInv, [Next]_vars
  PROVE  GapInv'
<1>1. CASE Record
  BY <1>1, RecordGaps
<1>2. CASE Hear \/ Handle
  <2>1. UNCHANGED host
    BY <1>2, BoardKeepsHost
  <2>2. UNCHANGED <<pc, batch, deferred, last, gaps>>
    BY <2>1 DEF host, loop, frames, stats
  <2>3. (\E f \in Frame : Emit(f)) \/ UNCHANGED <<outbox, sent, lost>>
    BY <1>2, BoardEmits
  <2>4. BatchInv'
    BY <2>2 DEF GapInv, BatchInv
  <2>5. CASE UNCHANGED <<outbox, sent, lost>>
    BY <2>2, <2>4, <2>5, SameAhead DEF Ahead
  <2>6. CASE \E f \in Frame : Emit(f)
    <3>1. InOrder' /\ LostInv'
      BY <2>2, <2>6, EmitInOrder DEF GapInv
    <3>2. PICK f \in Frame : Emit(f)
      BY <2>6
    <3>3. {n \in lost' : n < last} = {n \in lost : n < last}
      BY <3>2 DEF Emit, GapInv, InOrder, TypeOK
    <3>4. GapsAreLost'
      BY <2>2, <3>3 DEF GapInv, GapsAreLost
    <3>5. QED
      BY <2>4, <3>1, <3>4 DEF GapInv
  <2>7. QED
    BY <2>3, <2>5, <2>6
<1>3. CASE Read
  <2>1. PICK k \in 0..Len(outbox) : /\ batch' = deferred \o Arrived(k)
                                    /\ outbox' = Unread(k)
    BY <1>3 DEF Read
  <2>2. deferred' = <<>> /\ pc' = "deliver" /\ batch = <<>>
    BY <1>3 DEF Read, Deliver, GapInv, BatchInv
  <2>3. /\ deferred \in Seq(Frame) /\ outbox \in Seq(Frame)
        /\ Unread(k) \in Seq(Frame) /\ deferred \o outbox \in Seq(Frame)
    BY AheadTypes, Splits DEF Unread
  <2>4. <<>> \o Unread(k) = Unread(k)
    BY <2>3, ConcatEmptySeq
  <2>5. <<>> \o (deferred \o outbox) = deferred \o outbox
    BY <2>3, ConcatEmptySeq
  <2>6. Ahead' = (deferred \o Arrived(k)) \o Unread(k)
    BY <2>1, <2>2, <2>4 DEF Ahead
  <2>7. Ahead' = Ahead
    <3>1. Rejoined(k)
      BY SplitAgain
    <3>2. Ahead = deferred \o outbox
      BY <2>2, <2>5 DEF Ahead
    <3>3. QED
      BY <2>6, <3>1, <3>2 DEF Rejoined
  <2>8. UNCHANGED <<last, sent, lost, gaps>>
    BY <1>3 DEF Read, stats, board
  <2>9. BatchInv'
    BY <2>2 DEF BatchInv
  <2>10. QED
    BY <2>7, <2>8, <2>9, SameAhead
<1>4. CASE LookInVain \/ Found
  <2>1. PICK k \in 0..Len(outbox) : /\ deferred' = deferred \o Arrived(k)
                                    /\ outbox' = Unread(k)
    BY <1>4 DEF LookInVain, Found, All
  <2>2. /\ UNCHANGED <<batch, last, sent, lost, gaps>>
        /\ pc = "await" /\ pc' # "deliver"
    BY <1>4 DEF LookInVain, Found, stats, board, loop
  <2>3. Ahead' = Ahead
    <3>1. Rejoined(k)
      BY SplitAgain
    <3>2. deferred' \o outbox' = deferred \o outbox
      BY <2>1, <3>1 DEF Rejoined
    <3>3. QED
      BY <2>2, <3>2 DEF Ahead
  <2>4. BatchInv'
    BY <2>2 DEF GapInv, BatchInv
  <2>5. QED
    BY <2>2, <2>3, <2>4, SameAhead
<1>5. CASE Boundary
  <2>1. /\ batch' = deferred /\ deferred' = <<>> /\ batch = <<>>
        /\ pc' = "deliver"
        /\ UNCHANGED <<outbox, last, sent, lost, gaps>>
    BY <1>5 DEF Boundary, DeliverDeferred, Deliver, Over, stats, wire, board,
       GapInv, BatchInv
  <2>2. <<>> \o outbox = outbox /\ <<>> \o (deferred \o outbox) = deferred \o outbox
    BY AheadTypes, ConcatEmptySeq
  <2>3. Ahead' = Ahead
    BY <2>1, <2>2 DEF Ahead
  <2>4. BatchInv'
    BY <2>1 DEF BatchInv
  <2>5. QED
    BY <2>1, <2>3, <2>4, SameAhead
<1>6. ASSUME UNCHANGED <<batch, deferred, outbox, last, sent, lost, gaps>>,
             pc' = "deliver" => pc = "deliver",
             pc = "deliver" /\ pc' # "deliver" => batch = <<>>
      PROVE  GapInv'
  <2>1. Ahead' = Ahead
    BY <1>6 DEF Ahead
  <2>2. BatchInv'
    BY <1>6 DEF GapInv, BatchInv
  <2>3. QED
    BY <1>6, <2>1, <2>2, SameAhead
<1>7. CASE TakeCheck \/ EndCheck \/ TakeAntenna \/ MoveOn \/ Close
  BY <1>6, <1>7 DEF TakeCheck, EndCheck, TakeAntenna, MoveOn, Close, Await,
     Goto, frames, stats, wire, board
<1>8. CASE Listen \/ Restore \/ Abandon \/ Delivered \/ Listening
  BY <1>6, <1>8 DEF Listen, Restore, Abandon, Delivered, Listening, Await,
     Goto, frames, stats, wire, board
<1>9. CASE TimedOut \/ Finished \/ Switched
  BY <1>6, <1>9 DEF TimedOut, Finished, Switched, Over, Goto, frames, stats,
     wire, board
<1>10. CASE Others \/ TimeUp
  BY <1>6, <1>10 DEF Others, RequestCheck, RequestAntenna, RequestStop,
     TimeUp, loop, frames, stats, wire, board
<1>11. CASE UNCHANGED vars
  <2>1. UNCHANGED host /\ UNCHANGED wire /\ UNCHANGED board
    BY <1>11 DEF vars
  <2>2. UNCHANGED <<pc, batch, deferred, outbox, last, sent, lost, gaps>>
    BY <2>1 DEF host, loop, frames, stats, wire, board
  <2>3. QED
    BY <1>6, <2>2
<1>12. QED
  BY <1>1, <1>2, <1>3, <1>4, <1>5, <1>7, <1>8, <1>9, <1>10, <1>11
     DEF Next, HostStep

LEMMA GapStart == Init => GapInv
<1> SUFFICES ASSUME Init PROVE GapInv
  OBVIOUS
<1>1. Ahead = <<>>
  BY DEF Init, Ahead
<1>2. lost = {} /\ last = 0 /\ sent = 0 /\ gaps = 0
  BY DEF Init
<1>3. InOrder
  BY <1>1, <1>2 DEF InOrder
<1>4. LostInv
  BY <1>2, FS_EmptySet, Known DEF LostInv
<1>5. GapsAreLost
  <2>1. {n \in lost : n < last} = {}
    BY <1>2
  <2>2. QED
    BY <1>2, <2>1, FS_EmptySet DEF GapsAreLost
<1>6. BatchInv
  BY DEF Init, BatchInv
<1>7. QED
  BY <1>3, <1>4, <1>5, <1>6 DEF GapInv

\* The host's count of gaps is what the board's ring refused, for any number
\* of frames, as long as the ring refuses fewer than the numbers can tell.
THEOREM GapsAreCounted ==
  ASSUME MaxLost < 65536
  PROVE  Spec => []GapsAreLost
<1>1. TypeOK /\ GapInv /\ [Next]_vars => GapInv'
  BY GapStep
<1>2. Spec => []GapInv
  BY <1>1, GapStart, TypeCorrect, PTL DEF Spec
<1>3. GapInv => GapsAreLost
  BY DEF GapInv
<1>4. QED
  BY <1>2, <1>3, PTL
=============================================================================
