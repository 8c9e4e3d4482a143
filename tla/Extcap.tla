------------------------------- MODULE Extcap -------------------------------
(***************************************************************************)
(* The Wireshark plugin while it captures: do_capture and main.            *)
(*                                                                         *)
(* Four threads.  The main one reads what main was given, opens the pipes  *)
(* and the board, writes records, and cleans up.  The reader takes what    *)
(* the toolbar sends, the heartbeat writes a statistics block a second,    *)
(* the hopper asks for the next channel.  All but the hopper write to the  *)
(* toolbar's pipe, a message in two raw writes, under one lock.            *)
(*                                                                         *)
(* Wireshark may set a control, or say it is initialised, at any time      *)
(* after the plugin has opened its pipes, and may go at any time, which    *)
(* closes all of them.  To the plugin that is a broken pipe once it has    *)
(* one open; a pipe it has yet to open it cannot open, or (a POSIX FIFO)   *)
(* waits for, for ever, if Wireshark has gone.  A pcapng block is one      *)
(* write, so the capture pipe has no state but whether anybody reads it.   *)
(* What may be offered and is accepted is in Dialog.                       *)
(***************************************************************************)
EXTENDS Dialog

CONSTANTS
  Setups,    \* the ways main is called, and the ports there are: see below
  Picked,    \* the channels picked in the toolbar
  Notes,     \* what the session has to say as it starts, in order
  MaxLines   \* bound on lines logged for records, checks and silences

\* attached: the ports, in order.  chosen: the interface, by name.  args: the
\* options.  files: whether those they name can be read.  dataset: the
\* channel of a Thread dataset.  toolbar: whether it has one.
ASSUME SetupsAreKnown ==
  \A s \in Setups :
    /\ s.chosen.interface \in INTERFACES
    /\ s.args.hop \in Nat /\ s.dataset \in Nat
    /\ {s.files, s.toolbar} \subseteq BOOLEAN
    /\ s.attached \in Seq([port : STRING \ {"default"}, board : STRING])
ASSUME PickedAreTokens == Picked \subseteq Tokens
\* The lines that are not notes.
LogTexts == {"started", "not applied", "retuning", "status", "done", "silent",
             "finding", "report", "warning"}
ASSUME NotesAreDistinct ==
  Notes \in Seq(STRING \ LogTexts) /\ IsInjective(Notes)

Threads == {"main", "reader", "heart", "hop"}

VARIABLES
  setup,
  pc,           \* where the main thread is
  exit,         \* its exit code, when it has one
  failed,       \* the board, or its port, failed under the capture
  unmet,        \* history: a pipe could not be opened, Wireshark had gone
  fifo,         \* the capture pipe: unopened, open, gone
  host,         \* Wireshark: here, or gone
  inbox,        \* toolbar messages the reader has yet to read
  reader, heart, hop,  \* whether each thread runs
  running, stopped,    \* state["running"], and the session asked to stop
  initialized, early, toSay,  \* early_notes, and what is yet to be said
  say, left,    \* per thread: lines to write, raw writes left of the first
  lock,         \* who holds control_lock
  shown,        \* history: notes written whole
  lines,        \* lines logged so far for records, checks and silences
  at, wanted    \* the hopper's place, and the channel last asked for

control == <<say, left, lock, shown>>
toolbar == <<inbox, initialized>>
threads == <<reader, heart, hop>>
flags == <<running, stopped>>
notes == <<early, toSay>>
hopping == <<at, wanted>>
outcome == <<exit, failed, unmet>>
vars == <<setup, pc, outcome, fifo, host, toolbar, threads, flags, notes,
          control, lines, hopping>>

Interface == setup.chosen.interface
HopChannels == HopSets(Interface)[setup.args.hop]
Opening == OpensOn(Interface, setup.args, setup.dataset)
Port == OpensPort(setup.attached, setup.chosen, setup.args)

Line(text) == [text |-> text, popup |-> FALSE]
Popup(text) == [text |-> text, popup |-> TRUE]

Init ==
  /\ setup \in Setups
  /\ pc = "start" /\ exit = 2 /\ failed = FALSE /\ unmet = FALSE
  /\ fifo = "unopened" /\ host = "here" /\ inbox = <<>>
  /\ reader = FALSE /\ heart = FALSE /\ hop = FALSE
  /\ running = TRUE /\ stopped = FALSE
  /\ initialized = FALSE /\ early = <<>> /\ toSay = Notes
  /\ say = [t \in Threads |-> <<>>] /\ left = [t \in Threads |-> 0]
  /\ lock = "free" /\ shown = <<>> /\ lines = 0
  /\ at = 1 /\ wanted = 0

\* A thread goes on only when it has written what it had to say.
Quiet(t) == say[t] = <<>>

\* log(): before Wireshark is initialised a line is dropped.
Logged(ready, lns) == IF ready THEN lns ELSE <<>>

\* The capture pipe, the header and the secrets written, the toolbar's pipes.
PipesOpen == pc \notin {"start", "header", "controls", "blocked"}

-----------------------------------------------------------------------------
(* The toolbar's pipe *)

\* mutant: a message is written without taking the lock
TakeLockNever(t) ==
  /\ ~Quiet(t) /\ left[t] = 0
  /\ left' = [left EXCEPT ![t] = IF Head(say[t]).popup THEN 4 ELSE 2]
  /\ UNCHANGED <<setup, pc, outcome, fifo, host, toolbar, threads, flags,
                 notes, say, lock, shown, lines, hopping>>
TakeLock(t) ==
  /\ ~Quiet(t) /\ left[t] = 0 /\ lock = "free"
  /\ lock' = t
  /\ left' = [left EXCEPT ![t] = IF Head(say[t]).popup THEN 4 ELSE 2]
  /\ UNCHANGED <<setup, pc, outcome, fifo, host, toolbar, threads, flags,
                 notes, say, shown, lines, hopping>>

\* control_write: the header in one raw write, the payload in another.  A
\* line with a pop-up is two messages under one hold of the lock.  A pipe
\* that is gone, or closed, swallows both.
ControlWrite(t) ==
  /\ left[t] > 0
  /\ left' = [left EXCEPT ![t] = @ - 1]
  /\ IF left[t] = 1
     THEN /\ say' = [say EXCEPT ![t] = Tail(@)]
          /\ shown' = IF Head(say[t]).text \in Range(Notes)
                      THEN Append(shown, Head(say[t]).text) ELSE shown
          /\ lock' = "free"
     ELSE UNCHANGED <<say, shown, lock>>
  /\ UNCHANGED <<setup, pc, outcome, fifo, host, toolbar, threads, flags,
                 notes, lines, hopping>>

-----------------------------------------------------------------------------
(* Wireshark *)

\* INITIALIZED, once; and a channel or Check keys picked in the toolbar,
\* before it too, when what the user had changed is replayed.
HostInitializes ==
  /\ host = "here" /\ setup.toolbar /\ fifo = "open" /\ PipesOpen
  /\ ~initialized /\ inbox = <<>>
  /\ inbox' = <<[set |-> "INITIALIZED"]>>
  /\ UNCHANGED <<setup, pc, outcome, fifo, host, initialized, threads, flags,
                 notes, control, lines, hopping>>
HostSets ==
  /\ host = "here" /\ setup.toolbar /\ fifo = "open" /\ PipesOpen
  /\ inbox = <<>>
  /\ lines < MaxLines /\ lines' = lines + 1
  /\ \E m \in {[set |-> "keys or antenna"]}
               \cup {[set |-> "channel", token |-> t] : t \in Picked} :
       inbox' = <<m>>
  /\ UNCHANGED <<setup, pc, outcome, fifo, host, initialized, threads, flags,
                 notes, control, hopping>>

\* It goes: the capture pipe breaks, and the reader will find the end of its.
HostGoes ==
  /\ host = "here" /\ pc # "exited"
  /\ host' = "gone"
  /\ fifo' = IF fifo = "open" THEN "gone" ELSE fifo
  /\ UNCHANGED <<setup, pc, outcome, toolbar, threads, flags, notes, control,
                 lines, hopping>>

-----------------------------------------------------------------------------
(* The main thread, until the capture runs *)

\* The process ends, and its threads with it.
Exits(code) ==
  /\ pc' = "exited" /\ exit' = code
  /\ reader' = FALSE /\ heart' = FALSE /\ hop' = FALSE
  /\ say' = [t \in Threads |-> <<>>] /\ left' = [t \in Threads |-> 0]
  /\ lock' = "free"
  /\ fifo' = IF fifo = "open" THEN "gone" ELSE fifo
  /\ running' = FALSE
  /\ UNCHANGED <<setup, host, toolbar, stopped, notes, shown, lines, hopping>>

\* main: what an option may be, and do_capture: the files the options name,
\* are settled before the capture pipe is opened.
Refuses ==
  /\ pc = "start" /\ ~(Accepted(Interface, setup.args) /\ setup.files)
  /\ Exits(1) /\ UNCHANGED <<failed, unmet>>

\* open(): while Wireshark is there.  When it is not, an OSError that is no
\* HostGone, or a FIFO without a peer, which is waited for.
OpenCapturePipe ==
  /\ pc = "start" /\ Accepted(Interface, setup.args) /\ setup.files
  /\ host = "here"
  /\ fifo' = "open" /\ pc' = "header"
  /\ UNCHANGED <<setup, outcome, host, toolbar, threads, flags, notes,
                 control, lines, hopping>>
OpenControls ==
  /\ pc = "controls" /\ (setup.toolbar => host = "here")
  /\ pc' = "opening"
  /\ UNCHANGED <<setup, outcome, fifo, host, toolbar, threads, flags, notes,
                 control, lines, hopping>>
HasNoPeer ==
  /\ host = "gone"
  /\ \/ pc = "start" /\ Accepted(Interface, setup.args) /\ setup.files
     \/ pc = "controls" /\ setup.toolbar
PipeIsUnmet ==
  /\ HasNoPeer
  /\ unmet' = TRUE
  /\ Exits(1) /\ UNCHANGED failed
Blocks ==
  /\ HasNoPeer
  /\ pc' = "blocked"
  /\ UNCHANGED <<setup, outcome, fifo, host, toolbar, threads, flags, notes,
                 control, lines, hopping>>

\* A broken pipe is HostGone, whatever error the write met, and no failure.
\* mutant: it is an OSError like a serial fault's
AnyErrorIsTheBoards(f) == IF f \/ fifo = "gone" THEN 1 ELSE 0
ExitCode(f) == IF f THEN 1 ELSE 0

\* The header and the secrets, which a pipe already broken ends.
WriteHeader ==
  /\ pc = "header" /\ fifo = "open"
  /\ pc' = "controls"
  /\ UNCHANGED <<setup, outcome, fifo, host, toolbar, threads, flags, notes,
                 control, lines, hopping>>
PipeBroken ==
  /\ pc = "header" /\ fifo = "gone"
  /\ Exits(ExitCode(FALSE)) /\ UNCHANGED <<failed, unmet>>

\* CaptureSession refuses a channel outside the radio's range; the board does
\* not answer, or is not the one on that port.
OpenFails ==
  /\ pc = "opening"
  /\ failed' = (/\ HasChannel(Interface, Opening)
                /\ \/ FindBoardPorts(setup.attached) = {}
                   \/ Holds(setup.attached, Port, Interface.board))
  /\ Exits(1) /\ UNCHANGED unmet

SessionOpens ==
  /\ pc = "opening"
  /\ HasChannel(Interface, Opening)
  /\ Holds(setup.attached, Port, Interface.board)
  /\ pc' = "notes"
  /\ reader' = setup.toolbar
  /\ initialized' = ~setup.toolbar
  /\ wanted' = Opening
  /\ at' = HopStart(Opening, HopChannels)
  /\ UNCHANGED <<setup, outcome, fifo, host, inbox, heart, hop, flags, notes,
                 control, lines>>

\* mutant: log() alone, which drops the note when nobody is listening yet
SayOrDrop ==
  /\ pc = "notes" /\ Quiet("main") /\ toSay # <<>>
  /\ toSay' = Tail(toSay)
  /\ say' = [say EXCEPT !["main"] = Logged(initialized, <<Line(Head(toSay))>>)]
  /\ UNCHANGED <<setup, pc, outcome, fifo, host, toolbar, threads, flags,
                 early, left, lock, shown, lines, hopping>>
\* say_when_ready: kept, under its lock, until the toolbar is listening.
SayWhenReady ==
  /\ pc = "notes" /\ Quiet("main") /\ toSay # <<>>
  /\ toSay' = Tail(toSay)
  /\ IF initialized
     THEN /\ say' = [say EXCEPT !["main"] = <<Line(Head(toSay))>>]
          /\ UNCHANGED early
     ELSE /\ early' = Append(early, Head(toSay))
          /\ UNCHANGED say
  /\ UNCHANGED <<setup, pc, outcome, fifo, host, toolbar, threads, flags,
                 left, lock, shown, lines, hopping>>

StartThreads ==
  /\ pc = "notes" /\ Quiet("main") /\ toSay = <<>>
  /\ pc' = "loop" /\ heart' = TRUE /\ hop' = (HopChannels # <<>>)
  /\ UNCHANGED <<setup, outcome, fifo, host, toolbar, reader, flags, notes,
                 control, lines, hopping>>

-----------------------------------------------------------------------------
(* The main thread: records *)

\* A record: perhaps a finding (a handshake, a key written backwards) to log
\* and pop up; written under the write lock, and flushed; and once a second
\* a report, with a warning that does not wait for INITIALIZED.
Record ==
  /\ pc = "loop" /\ Quiet("main") /\ ~stopped
  /\ pc' = IF fifo = "open" /\ running THEN "loop" ELSE "finally"
  /\ \E lns \in {<<>>, Logged(initialized, <<Popup("finding")>>)} \cup
               IF fifo = "open" /\ running
               THEN {Logged(initialized, <<Line("report")>>) \o <<Line("warning")>>}
               ELSE {} :
       /\ lns # <<>> => lines < MaxLines
       /\ lines' = IF lns = <<>> THEN lines ELSE lines + 1
       /\ say' = [say EXCEPT !["main"] = lns]
  /\ UNCHANGED <<setup, outcome, fifo, host, toolbar, threads, flags, notes,
                 left, lock, shown, hopping>>

\* records() ends: asked to, between two reads, however quiet the channel.
RecordsEnd ==
  /\ pc = "loop" /\ Quiet("main") /\ stopped
  /\ pc' = "finally"
  /\ UNCHANGED <<setup, outcome, fifo, host, toolbar, threads, flags, notes,
                 control, lines, hopping>>

BoardFails ==
  /\ pc = "loop" /\ Quiet("main")
  /\ pc' = "finally" /\ failed' = TRUE
  /\ UNCHANGED <<setup, exit, unmet, fifo, host, toolbar, threads, flags, notes,
                 control, lines, hopping>>

\* The statistics once more, the toolbar's pipe closed, and then the
\* session and the capture pipe.  Only a failed board is reported.
Finally ==
  /\ pc = "finally" /\ Quiet("main")
  /\ Exits(ExitCode(failed))
  /\ UNCHANGED <<failed, unmet>>

-----------------------------------------------------------------------------
(* The other threads *)

\* reader: one message, or the end of the pipe, which ends the capture.
ReaderEnds ==
  /\ reader /\ Quiet("reader") /\ host = "gone" /\ inbox = <<>>
  /\ reader' = FALSE /\ running' = FALSE /\ stopped' = TRUE
  /\ UNCHANGED <<setup, pc, outcome, fifo, host, toolbar, heart, hop, notes,
                 control, lines, hopping>>

\* INITIALIZED: what was held back is said, once, after the first line.
ReadsInitialized ==
  /\ reader /\ Quiet("reader") /\ inbox = <<[set |-> "INITIALIZED"]>>
  /\ inbox' = <<>> /\ initialized' = TRUE /\ early' = <<>>
  /\ say' = [say EXCEPT !["reader"] =
               <<Line("started")>> \o [i \in DOMAIN early |-> Line(early[i])]]
  /\ UNCHANGED <<setup, pc, outcome, fifo, host, threads, flags, toSay,
                 left, lock, shown, lines, hopping>>

\* A channel of the other radio is refused; any other is asked for, and said
\* in the log and, whether Wireshark is initialised or not, the status bar.
ReadsSet ==
  /\ reader /\ Quiet("reader") /\ inbox # <<>>
  /\ \/ /\ inbox[1].set = "channel"
        /\ LET channel == ParseToken(Interface, inbox[1].token)
                           \cap Requestable(Interface) IN
           /\ wanted' = IF channel = {} THEN wanted
                        ELSE CHOOSE c \in channel : TRUE
           /\ say' = [say EXCEPT !["reader"] =
                        IF channel = {}
                        THEN Logged(initialized, <<Line("not applied")>>)
                        ELSE Logged(initialized, <<Line("retuning")>>)
                               \o <<Line("status")>>]
     \/ /\ inbox[1].set = "keys or antenna"
        /\ say' = [say EXCEPT !["reader"] =
                     Logged(initialized, <<Line("done")>>)]
        /\ UNCHANGED wanted
  /\ inbox' = <<>>
  /\ UNCHANGED <<setup, pc, outcome, fifo, host, initialized, threads, flags,
                 notes, left, lock, shown, lines, at>>

\* The heartbeat writes a block each second: a write to a broken pipe is how
\* it learns that Wireshark has gone, and it stops the session too.
HeartBeats ==
  /\ heart /\ Quiet("heart") /\ running /\ fifo = "open"
  /\ lines < MaxLines /\ lines' = lines + 1
  /\ say' = [say EXCEPT !["heart"] = Logged(initialized, <<Line("silent")>>)]
  /\ UNCHANGED <<setup, pc, outcome, fifo, host, toolbar, threads, flags,
                 notes, left, lock, shown, hopping>>
\* mutant: it only stops itself
HeartStopsAlone ==
  /\ heart /\ Quiet("heart")
  /\ ~running \/ fifo = "gone"
  /\ heart' = FALSE
  /\ UNCHANGED <<setup, pc, outcome, fifo, host, toolbar, reader, hop, flags,
                 notes, control, lines, hopping>>
HeartStops ==
  /\ heart /\ Quiet("heart")
  /\ ~running \/ fifo = "gone"
  /\ heart' = FALSE /\ running' = FALSE /\ stopped' = (stopped \/ running)
  /\ UNCHANGED <<setup, pc, outcome, fifo, host, toolbar, reader, hop, notes,
                 control, lines, hopping>>

Hops ==
  /\ hop /\ running
  /\ at' = (at % Len(HopChannels)) + 1
  /\ wanted' = IF HopChannels[at'] \in Requestable(Interface)
               THEN HopChannels[at'] ELSE wanted
  /\ UNCHANGED <<setup, pc, outcome, fifo, host, toolbar, threads, flags,
                 notes, control, lines>>
HopStops ==
  /\ hop /\ ~running
  /\ hop' = FALSE
  /\ UNCHANGED <<setup, pc, outcome, fifo, host, toolbar, reader, heart,
                 flags, notes, control, lines, hopping>>

-----------------------------------------------------------------------------
Writes == \E t \in Threads : TakeLock(t) \/ ControlWrite(t)
Pipes == OpenCapturePipe \/ OpenControls \/ PipeIsUnmet \/ Blocks
           \/ WriteHeader \/ PipeBroken
Starts == Refuses \/ Pipes \/ SessionOpens \/ SayWhenReady \/ StartThreads
Reader == ReaderEnds \/ ReadsInitialized \/ ReadsSet
Heart == HeartBeats \/ HeartStops
Hopper == Hops \/ HopStops
Host == HostInitializes \/ HostSets \/ HostGoes
Done == pc \in {"exited", "blocked"} /\ UNCHANGED vars

Next ==
  \/ Writes \/ Starts \/ OpenFails \/ Record \/ RecordsEnd \/ BoardFails
  \/ Finally \/ Reader \/ Heart \/ Hopper \/ Host \/ Done

\* Each thread runs when it can.  Records, failures and what Wireshark does
\* are not promised.
Fairness ==
  /\ \A t \in Threads : WF_vars(TakeLock(t) \/ ControlWrite(t))
  /\ WF_vars(Starts \/ OpenFails) /\ WF_vars(RecordsEnd) /\ WF_vars(Finally)
  /\ WF_vars(Reader) /\ WF_vars(HeartStops)

Spec == Init /\ [][Next]_vars /\ Fairness

-----------------------------------------------------------------------------
\* Where a note can be, and the texts there.
Places == {"shown", "early", "toSay"} \cup Threads
Held ==
  [q \in Places |->
     CASE q = "shown" -> shown [] q = "early" -> early [] q = "toSay" -> toSay
       [] OTHER -> [k \in DOMAIN say[q] |-> say[q][k].text]]
Found(n) ==
  {p \in UNION {{q} \X DOMAIN Held[q] : q \in Places} : Held[p[1]][p[2]] = n}

(* What the capture says as it starts reaches the toolbar once: not lost   *)
(* between say_when_ready's look at the flag and Wireshark's INITIALIZED,  *)
(* and not said by both threads.                                           *)
NotesSaidOnce ==
  pc # "exited" =>
    /\ \A n \in Range(Notes) : Cardinality(Found(n)) = 1
    /\ initialized => early = <<>>

(* No message to the toolbar is cut by another thread's: control_write is  *)
(* two raw writes.                                                         *)
MessagesWhole == Cardinality({t \in Threads : left[t] % 2 = 1}) <= 1

(* The exit code says what ended the capture: 1 for a board that failed,   *)
(* an option or file refused, or a pipe Wireshark had left before it was   *)
(* opened, and never for Wireshark going once it was; 0 only when it went. *)
(* Nothing that was offered is refused: an interface advertised for the    *)
(* boards there are, with options its dialog lists, opens the port of its  *)
(* own board, unless a file or a dataset is wrong.  And what an option or  *)
(* a file holds is refused while Wireshark can still show why, before the  *)
(* capture pipe is opened.                                                 *)
WasOffered ==
  /\ setup.chosen \in BoardInterfaces(setup.attached)
  /\ setup.args \in Offered(setup.attached, Interface)
ExitTellsWhy ==
  pc = "exited" =>
    /\ exit = 1 => \/ failed \/ ~WasOffered
                   \/ ~setup.files \/ setup.dataset # NotGiven
                   \/ unmet /\ host = "gone"
    /\ exit = 0 => host = "gone" /\ ~failed /\ ~unmet
    /\ ~setup.files => fifo = "unopened"

(* A channel picked in the toolbar, which lists every radio's and whose    *)
(* numbers mean different frequencies, tunes the radio to the frequency    *)
(* that was shown, or not at all.                                          *)
TunesWhatWasPicked ==
  [][\A t \in Picked :
       inbox = <<[set |-> "channel", token |-> t]>> /\ inbox' = <<>>
         => \/ wanted' = wanted
            \/ Frequency(RADIOS[Interface.radio].prefix, wanted')
                 = Frequency(t.prefix, t.number)]_vars

(* Wireshark going ends the plugin, on a channel where nothing is heard    *)
(* too: the reader or the heartbeat wakes the capture loop.  Only when it  *)
(* goes before its pipes are open may the plugin wait for it for ever.     *)
StopsWhenHostGoes ==
  /\ host = "gone" /\ PipesOpen ~> pc = "exited"
  /\ host = "gone" ~> pc \in {"exited", "blocked"}

=============================================================================
