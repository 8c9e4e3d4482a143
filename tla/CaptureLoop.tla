---------------------------- MODULE CaptureLoop -----------------------------
(***************************************************************************)
(* The host's capture loop on BLE: records(), the commands it sends in the *)
(* middle of a capture, and Check keys, which for a while listens with no  *)
(* device keys and no filter.                                              *)
(*                                                                         *)
(* One thread runs the loop; others only leave requests for it.  The board *)
(* answers commands in order, but a reply, like any frame, may be refused  *)
(* by its ring: then its number is missing and the host waits in vain.     *)
(*                                                                         *)
(* A packet is known by the lists that were in force when it was heard.    *)
(* It is on the wire as soon as it is heard: the task that sends it runs   *)
(* before the control task, which would send a reply.                      *)
(***************************************************************************)
EXTENDS Integers, Sequences, FiniteSets

CONSTANTS
  MaxFrames,  \* bound on frames the board sends
  LateFrames, \* the same once a reply has been late
  MaxLost,    \* bound on frames its ring refuses
  MaxChecks,  \* bound on checks accepted
  MaxAsks     \* bound on antenna switches asked for

ASSUME Bounds ==
  {MaxFrames, LateFrames, MaxLost, MaxChecks, MaxAsks} \subseteq Nat

Antennas == {0, 1}
NoAntenna == -1

\* Which of the two lists are in force: the session's own, or none.
Lists == [keys : BOOLEAN, filter : BOOLEAN]
Session == [keys |-> TRUE, filter |-> TRUE]
None == [keys |-> FALSE, filter |-> FALSE]

VARIABLES
  pc,        \* where the loop is
  then,      \* what the command or the delivery under way is for
  awaited,   \* the command whose reply is awaited
  deferred,  \* _deferred
  batch,     \* frames _records_from has yet to deliver
  check,     \* _check: a listen is in progress
  due,       \* its time is up
  claimed,   \* _check_claimed
  pendingCheck, pendingAntenna,  \* requests left by other threads
  antenna, asked,    \* the antenna the host believes in, and the one it sent
  stop,      \* _stop
  last, gaps, unanswered, refused,  \* the tracker, and two statistics
  inbox,     \* what the board has yet to read
  outbox,    \* what the host has yet to read
  scanning, stored, loaded,  \* the board: s_running, the lists it was sent,
                             \* and those its controller applies
  boardAntenna,
  sent, lost,                \* frames numbered, and those refused
  toCheck, toCapture,        \* history: the lists of packets delivered
  accepted, asks, done, failed, startUnanswered,  \* history
  late,      \* history: commands given up whose replies may still come
  mistaken   \* history: one of theirs may have been taken for a later one's

loop == <<pc, then, awaited>>
frames == <<deferred, batch>>
checking == <<check, due, claimed, pendingCheck>>
switching == <<pendingAntenna, antenna, asked>>
stats == <<last, gaps, unanswered, refused>>
host == <<loop, frames, checking, switching, stop, stats>>
wire == <<inbox, outbox>>
board == <<scanning, stored, loaded, boardAntenna, sent, lost>>
delivered == <<toCheck, toCapture>>
results ==
  <<accepted, asks, done, failed, startUnanswered, late, mistaken>>
vars == <<host, wire, board, delivered, results>>

\* open() has returned: the board scans with the session's lists, and the
\* reply to START, number 0, has been observed.
Init ==
  /\ pc = "top" /\ then = "top" /\ awaited = "none"
  /\ deferred = <<>> /\ batch = <<>>
  /\ check = FALSE /\ due = FALSE /\ claimed = FALSE /\ pendingCheck = FALSE
  /\ pendingAntenna = NoAntenna /\ antenna = 0 /\ asked = NoAntenna
  /\ stop = FALSE
  /\ last = 0 /\ gaps = 0 /\ unanswered = 0 /\ refused = 0
  /\ inbox = <<>> /\ outbox = <<>>
  /\ scanning = TRUE /\ stored = Session /\ loaded = Session
  /\ boardAntenna = 0
  /\ sent = 0 /\ lost = {}
  /\ toCheck = {} /\ toCapture = {}
  /\ accepted = 0 /\ asks = 0 /\ done = 0 /\ failed = 0
  /\ startUnanswered = FALSE /\ late = {} /\ mistaken = FALSE

-----------------------------------------------------------------------------
(* The board.                                                              *)

\* A frame is numbered and put on the wire, or refused, its number used up.
Emit(frame) ==
  /\ sent' = sent + 1
  /\ \/ /\ outbox' = Append(outbox, [frame EXCEPT !.n = sent + 1])
        /\ UNCHANGED lost
     \/ /\ Cardinality(lost) < MaxLost
        /\ lost' = lost \cup {sent + 1}
        /\ UNCHANGED outbox

Packet == [n |-> 0, of |-> "packet", ok |-> TRUE, lists |-> loaded]
Reply(command, ok) == [n |-> 0, of |-> command, ok |-> ok, lists |-> None]

Hear ==
  /\ scanning /\ sent < (IF late = {} THEN MaxFrames ELSE LateFrames)
  /\ Emit(Packet)
  /\ UNCHANGED <<host, inbox, scanning, stored, loaded, boardAntenna>>
  /\ UNCHANGED <<delivered, results>>

Reads(message) ==
  /\ inbox # <<>> /\ Head(inbox).is = message
  /\ inbox' = Tail(inbox)
  /\ UNCHANGED <<host, delivered, results>>

\* The key and accept lists are only stored.
HandleLists ==
  /\ Reads("lists")
  /\ stored' = Head(inbox).lists
  /\ UNCHANGED <<outbox, scanning, loaded, boardAntenna, sent, lost>>

\* START loads the lists, unless the board is scanning already.
HandleStart ==
  /\ Reads("start")
  /\ \/ scanning /\ Emit(Reply("start", TRUE)) /\ UNCHANGED <<scanning, loaded>>
     \/ /\ ~scanning
        /\ scanning' = TRUE /\ loaded' = stored
        /\ Emit(Reply("start", TRUE))
     \/ /\ ~scanning
        /\ Emit(Reply("start", FALSE))
        /\ UNCHANGED <<scanning, loaded>>
  /\ UNCHANGED <<stored, boardAntenna>>

\* STOP forgets the keys, which are secrets, and not the filter.
HandleStop ==
  /\ Reads("stop")
  /\ scanning' = FALSE
  /\ stored' = [stored EXCEPT !.keys = FALSE]
  /\ Emit(Reply("stop", TRUE))
  /\ UNCHANGED <<loaded, boardAntenna>>

HandleAntenna ==
  /\ Reads("antenna")
  /\ \/ boardAntenna' = Head(inbox).value /\ Emit(Reply("antenna", TRUE))
     \/ UNCHANGED boardAntenna /\ Emit(Reply("antenna", FALSE))
  /\ UNCHANGED <<scanning, stored, loaded>>

Handle == HandleLists \/ HandleStart \/ HandleStop \/ HandleAntenna

-----------------------------------------------------------------------------
(* Other threads.                                                          *)

\* request_key_check; refused while one is claimed.
RequestCheck ==
  /\ ~claimed /\ accepted < MaxChecks
  /\ claimed' = TRUE /\ pendingCheck' = TRUE
  /\ accepted' = accepted + 1
  /\ UNCHANGED <<loop, frames, check, due, switching, stop, stats>>
  /\ UNCHANGED <<wire, board, delivered, asks, done, failed>>
  /\ UNCHANGED <<startUnanswered, late, mistaken>>

RequestAntenna ==
  /\ asks < MaxAsks /\ late = {}
  /\ asks' = asks + 1
  /\ pendingAntenna' \in Antennas
  /\ UNCHANGED <<loop, frames, checking, antenna, asked, stop, stats>>
  /\ UNCHANGED <<wire, board, delivered, accepted, done, failed>>
  /\ UNCHANGED <<startUnanswered, late, mistaken>>

RequestStop ==
  /\ ~stop
  /\ stop' = TRUE
  /\ UNCHANGED <<loop, frames, checking, switching, stats>>
  /\ UNCHANGED <<wire, board, delivered, results>>

\* The listen's seconds pass.
TimeUp ==
  /\ check /\ ~due
  /\ due' = TRUE
  /\ UNCHANGED <<loop, frames, check, claimed, pendingCheck, switching, stop>>
  /\ UNCHANGED <<stats, wire, board, delivered, results>>

-----------------------------------------------------------------------------
(* The loop.  Commands are written to the port and their replies awaited.  *)
(* The reply to a retune on another radio is awaited as the antenna's is.  *)

Message(command) == [is |-> command, value |-> 0, lists |-> None]
ListsAre(lists) == [is |-> "lists", value |-> 0, lists |-> lists]

Write(messages) == inbox' = inbox \o messages

\* _send_ble_lists, then START.
StartWith(lists) == Write(<<ListsAre(lists), Message("start")>>)

Await(command, purpose) ==
  pc' = "await" /\ awaited' = command /\ then' = purpose

Goto(where) == pc' = where /\ awaited' = "none" /\ UNCHANGED then

Deliver(purpose) == pc' = "deliver" /\ awaited' = "none" /\ then' = purpose

\* records() comes round: a check asked for, or one whose time is up.
TakeCheck ==
  /\ pc = "top" /\ ~stop /\ pendingCheck
  /\ pendingCheck' = FALSE
  /\ Write(<<Message("stop")>>)
  /\ Await("stop", "listen")
  /\ UNCHANGED <<frames, check, due, claimed, switching, stop, stats>>
  /\ UNCHANGED <<outbox, board, delivered, results>>

EndCheck ==
  /\ pc = "top" /\ ~stop /\ ~pendingCheck /\ check /\ due
  /\ Write(<<Message("stop")>>)
  /\ Await("stop", "finish")
  /\ UNCHANGED <<frames, checking, switching, stop, stats>>
  /\ UNCHANGED <<outbox, board, delivered, results>>

\* _apply_pending, with no check to start or to end.
TakeAntenna ==
  /\ pc = "apply" /\ pendingAntenna # NoAntenna
  /\ pendingAntenna' = NoAntenna /\ asked' = pendingAntenna
  /\ Write(<<[is |-> "antenna", value |-> pendingAntenna, lists |-> None]>>)
  /\ Await("antenna", "antenna")
  /\ UNCHANGED <<frames, checking, antenna, stop, stats>>
  /\ UNCHANGED <<outbox, board, delivered, results>>

MoveOn ==
  /\ \/ pc = "top" /\ ~stop /\ ~pendingCheck /\ ~(check /\ due) /\ Goto("apply")
     \/ pc = "apply" /\ pendingAntenna = NoAntenna /\ Goto("read")
     \/ pc = "top" /\ stop /\ Goto("closing")
  /\ UNCHANGED <<frames, checking, switching, stop, stats>>
  /\ UNCHANGED <<wire, board, delivered, results>>

\* A read takes what has arrived, or the first of it.
Arrived(k) == SubSeq(outbox, 1, k)
Unread(k) == SubSeq(outbox, k + 1, Len(outbox))

Read ==
  /\ pc = "read"
  /\ \E k \in 0..Len(outbox) :
       /\ batch' = deferred \o Arrived(k)
       /\ outbox' = Unread(k)
  /\ deferred' = <<>>
  /\ Deliver("top")
  /\ UNCHANGED <<checking, switching, stop, stats>>
  /\ UNCHANGED <<inbox, board, delivered, results>>

\* _records_from, one frame of it.
Record ==
  /\ pc = "deliver" /\ batch # <<>>
  /\ LET frame == Head(batch) IN
       /\ gaps' = gaps + ((frame.n - last - 1) % 65536)
       /\ last' = frame.n
       /\ IF frame.of # "packet" THEN UNCHANGED delivered
          ELSE IF check
          THEN toCheck' = toCheck \cup {frame.lists} /\ UNCHANGED toCapture
          ELSE toCapture' = toCapture \cup {frame.lists} /\ UNCHANGED toCheck
  /\ batch' = Tail(batch)
  /\ UNCHANGED <<loop, deferred, checking, switching, stop, unanswered>>
  /\ UNCHANGED <<refused, wire, board, results>>

\* What was heard before the STOP has been delivered: the listen begins.
Listen ==
  /\ pc = "deliver" /\ batch = <<>> /\ then = "listen"
  /\ check' = TRUE /\ due' = FALSE
  /\ StartWith(None)
  /\ Await("start", "listening")
  /\ UNCHANGED <<frames, claimed, pendingCheck, switching, stop, stats>>
  /\ UNCHANGED <<outbox, board, delivered, results>>

RestartOnly == Write(<<Message("start")>>)      \* mutant: the lists forgotten
Restart == StartWith(Session)

\* What was heard in the listen has been delivered: the lists go back.
Restore ==
  /\ pc = "deliver" /\ batch = <<>> /\ then = "finish"
  /\ check' = FALSE
  /\ Restart
  /\ Await("start", "restarted")
  /\ UNCHANGED <<frames, due, claimed, pendingCheck, switching, stop, stats>>
  /\ UNCHANGED <<outbox, board, delivered, results>>

Delivered ==
  /\ pc = "deliver" /\ batch = <<>> /\ then = "top"
  /\ Goto("top")
  /\ UNCHANGED <<frames, checking, switching, stop, stats>>
  /\ UNCHANGED <<wire, board, delivered, results>>

\* _await_reply: every frame of a read is deferred, and the first reply to
\* the command that is awaited is the answer, whichever of its kind it was to.
IsReply(frame) == frame.of = awaited
Answers(k) == {i \in 1..k : IsReply(outbox[i])}

LookInVain ==
  /\ pc = "await"
  /\ \E k \in 1..Len(outbox) :
       /\ Answers(k) = {}
       /\ deferred' = deferred \o Arrived(k)
       /\ outbox' = Unread(k)
  /\ UNCHANGED <<loop, batch, checking, switching, stop, stats>>
  /\ UNCHANGED <<inbox, board, delivered, results>>

\* Mutant: what was parsed after the reply is dropped.
UpToTheReply(k, i) == Arrived(i)
All(k, i) == Arrived(k)

Found ==
  /\ pc = "await"
  /\ \E k \in 1..Len(outbox) :
       \E i \in Answers(k) :
         /\ \A j \in Answers(k) : i <= j
         /\ pc' = IF outbox[i].ok THEN "answered" ELSE "unmet"
         /\ refused' = IF outbox[i].ok THEN refused ELSE refused + 1
         /\ deferred' = deferred \o All(k, i)
         /\ outbox' = Unread(k)
  /\ mistaken' = (mistaken \/ awaited \in late)
  /\ UNCHANGED <<then, awaited, batch, checking, switching, stop>>
  /\ UNCHANGED <<last, gaps, unanswered, inbox, board, delivered>>
  /\ UNCHANGED <<accepted, asks, done, failed, startUnanswered, late>>

WaitsForEver == FALSE                \* mutant: no deadline
NothingComes == inbox = <<>> /\ outbox = <<>>
WaitOver == NothingComes \/ (sent < LateFrames /\ asks = 0)

\* The host's wait is over: the reply was refused, or is late, and will be
\* taken for the answer to the next command of its kind.
TimedOut ==
  /\ pc = "await" /\ WaitOver
  /\ pc' = "unmet"
  /\ unanswered' = unanswered + 1
  /\ startUnanswered' = (startUnanswered \/ then = "listening")
  /\ late' = IF NothingComes THEN late ELSE late \cup {awaited}
  /\ UNCHANGED <<then, awaited, frames, checking, switching, stop>>
  /\ UNCHANGED <<last, gaps, refused, wire, board, delivered>>
  /\ UNCHANGED <<accepted, asks, done, failed, mistaken>>

Over == pc \in {"answered", "unmet"}

\* The STOP that begins a check is answered, or the one that ends it is over:
\* what came before it is delivered first, to whichever side it belongs.
NotDelivered == batch' = <<>> /\ UNCHANGED deferred   \* mutant: left for later
DeliverDeferred == batch' = deferred /\ deferred' = <<>>

Boundary ==
  /\ \/ pc = "answered" /\ then = "listen"
     \/ Over /\ then = "finish"
  /\ DeliverDeferred
  /\ Deliver(then)
  /\ UNCHANGED <<checking, switching, stop, stats>>
  /\ UNCHANGED <<wire, board, delivered, results>>

Listening ==
  /\ pc = "answered" /\ then = "listening"
  /\ Goto("apply")
  /\ UNCHANGED <<frames, checking, switching, stop, stats>>
  /\ UNCHANGED <<wire, board, delivered, results>>

\* _abandon_check: the STOP or the START that begins it was not answered.
Abandon ==
  /\ pc = "unmet" /\ then \in {"listen", "listening"}
  /\ check' = FALSE
  /\ Restart
  /\ Await("start", "abandoned")
  /\ UNCHANGED <<frames, due, claimed, pendingCheck, switching, stop, stats>>
  /\ UNCHANGED <<outbox, board, delivered, results>>

\* Mutant: a check that fails is never given up.
ReleaseIfDone == claimed' = (pc # "answered" \/ then # "restarted")
Release == claimed' = FALSE

\* The claim is given up and the result called.
Finished ==
  /\ Over /\ then \in {"restarted", "abandoned"}
  /\ Release
  /\ IF pc = "answered" /\ then = "restarted"
     THEN done' = done + 1 /\ UNCHANGED failed
     ELSE failed' = failed + 1 /\ UNCHANGED done
  /\ Goto("apply")
  /\ UNCHANGED <<frames, check, due, pendingCheck, switching, stop, stats>>
  /\ UNCHANGED <<wire, board, delivered, accepted, asks, startUnanswered,
                 late, mistaken>>

SwitchAnyway == asked                \* mutant: the answer is not looked at
Switch == IF pc = "answered" THEN asked ELSE antenna

Switched ==
  /\ Over /\ then = "antenna"
  /\ antenna' = Switch
  /\ Goto("read")
  /\ UNCHANGED <<frames, checking, pendingAntenna, asked, stop, stats>>
  /\ UNCHANGED <<wire, board, delivered, results>>

\* close(): a STOP whose reply nobody reads.
Close ==
  /\ pc = "closing"
  /\ Write(<<Message("stop")>>)
  /\ Goto("closed")
  /\ UNCHANGED <<frames, checking, switching, stop, stats>>
  /\ UNCHANGED <<outbox, board, delivered, results>>

-----------------------------------------------------------------------------
HostStep ==
  \/ TakeCheck \/ EndCheck \/ TakeAntenna \/ MoveOn \/ Read \/ Record
  \/ Listen \/ Restore \/ Delivered
  \/ LookInVain \/ Found \/ TimedOut
  \/ Boundary \/ Listening \/ Abandon \/ Finished \/ Switched \/ Close

Others == RequestCheck \/ RequestAntenna \/ RequestStop

Next == HostStep \/ Others \/ TimeUp \/ Hear \/ Handle

Spec == Init /\ [][Next]_vars

\* The loop runs, its clock goes on, and the control task reads its port.
FairSpec == Spec /\ WF_vars(HostStep) /\ WF_vars(TimeUp) /\ WF_vars(Handle)

-----------------------------------------------------------------------------
(* What is checked.                                                        *)

Commands == {"start", "stop", "antenna"}
Purposes == {"top", "listen", "listening", "finish", "restarted", "abandoned",
             "antenna"}
Frame == [n : Nat, of : Commands \cup {"packet"}, ok : BOOLEAN, lists : Lists]
Sendable == [is : Commands \cup {"lists"}, value : Antennas, lists : Lists]

(* The types of the variables.                                             *)
TypeOK ==
  /\ pc \in {"top", "apply", "read", "deliver", "await", "answered", "unmet",
             "closing", "closed"}
  /\ then \in Purposes /\ awaited \in Commands \cup {"none"}
  /\ deferred \in Seq(Frame) /\ batch \in Seq(Frame)
  /\ outbox \in Seq(Frame) /\ inbox \in Seq(Sendable)
  /\ check \in BOOLEAN /\ due \in BOOLEAN /\ claimed \in BOOLEAN
  /\ pendingCheck \in BOOLEAN /\ stop \in BOOLEAN
  /\ pendingAntenna \in Antennas \cup {NoAntenna} /\ antenna \in Antennas
  /\ asked \in Antennas \cup {NoAntenna} /\ boardAntenna \in Antennas
  /\ last \in Nat /\ gaps \in Nat /\ unanswered \in Nat /\ refused \in Nat
  /\ scanning \in BOOLEAN /\ stored \in Lists /\ loaded \in Lists
  /\ sent \in Nat /\ lost \in SUBSET Nat
  /\ toCheck \in SUBSET Lists /\ toCapture \in SUBSET Lists
  /\ accepted \in Nat /\ asks \in Nat /\ done \in Nat /\ failed \in Nat
  /\ startUnanswered \in BOOLEAN /\ mistaken \in BOOLEAN
  /\ late \subseteq Commands

(* The tracker's total is what the board's ring refused, no more and no    *)
(* less, whatever arrived while the host waited for replies and whatever   *)
(* was read past them: no frame is dropped, delivered twice or observed    *)
(* out of its order.                                                       *)
GapsAreLost == gaps = Cardinality({n \in lost : n < last})

(* A packet goes where it was heard for: the keys and the filter never     *)
(* apply to what a check is given, and one heard without them never        *)
(* reaches the capture, unless the START that began a check went           *)
(* unanswered or a reply was late.  Only an answer that may have been to   *)
(* an earlier check's command lets a check be given another's packets.     *)
HeardAsMeant ==
  /\ toCheck \subseteq {None} \/ mistaken
  /\ toCapture \subseteq {Session} \/ startUnanswered \/ late # {}

AtRest == pc = "top" /\ ~claimed /\ inbox = <<>>

(* After a check, done or failed, a board that scans applies the session's *)
(* lists, unless the START that began it went unanswered or a late answer  *)
(* was there to be taken for a later one: a late answer alone does no      *)
(* harm, nor does a lost one, to any other command.                        *)
PutBack ==
  AtRest /\ scanning => loaded = Session \/ startUnanswered \/ mistaken

(* request_key_check: "If the board does not answer a STOP or START along  *)
(* the way, the keys and filter are put back".  A board that did start,    *)
(* and whose reply was lost, ignores the START that should load them.      *)
AlwaysPutBack == AtRest /\ scanning => loaded = Session

(* Every check accepted has one result, on_done or on_failed, or is still  *)
(* claimed.                                                                *)
OneResult == accepted = done + failed + (IF claimed THEN 1 ELSE 0)

(* With every command answered, the antenna the host shows is the board's. *)
AntennaKnown ==
  unanswered = 0 /\ pc \in {"top", "read"} => antenna = boardAntenna

(* A check that is claimed ends, unless the capture does first.            *)
CheckEnds == claimed ~> ~claimed \/ pc = "closed"

(* request_stop ends the capture, whatever it was waiting for.             *)
StopEnds == stop ~> pc = "closed"
=============================================================================
