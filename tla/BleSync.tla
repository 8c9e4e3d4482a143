------------------------------- MODULE BleSync -------------------------------
(***************************************************************************)
(* The firmware's plumbing to its BLE controller.  Two tasks of the same   *)
(* priority send it commands through one pending opcode and one semaphore: *)
(* the control task, to start and stop scanning, and the sync task, to     *)
(* follow the periodic trains the scan comes across.  The controller holds *)
(* one sync, which the firmware counts, up when Create Sync is accepted    *)
(* and down when the controller says that a sync failed or was lost.       *)
(*                                                                         *)
(* The commands of a start are two: the reset, which stands for all that   *)
(* configure the scan, and the one that enables it.                        *)
(***************************************************************************)
EXTENDS Naturals, Sequences

CONSTANT MaxQueued   \* sync requests that may be queued

SyncTasks == {"control", "sync"}

VARIABLES
  doing,     \* what the control task is at: "nothing", "start", "stop", "down"
  todo,      \* the commands it has yet to send for it
  at,        \* each task in send_command: "out", "sent"
  asks,      \* the sync task: "waits", "creates", "counts"
  pending,   \* s_pending_opcode
  accepted,  \* s_pending_status is 0
  done,      \* s_cmd_done
  up,        \* s_controller_up
  scanning,  \* s_running
  hci,       \* the command the controller has yet to answer
  scans,     \* the controller scans
  sync,      \* its sync: "none", "tried", "held"
  count,     \* s_sync_count
  queued,    \* requests in s_sync_queue
  crossed    \* history: the tasks crossed, or a late answer, or a sync's end
             \* or a stop and the counting of the sync

svars == <<doing, todo, at, asks, pending, accepted, done, up, scanning, hci,
           scans, sync, count, queued, crossed>>

SyncInit ==
  /\ doing = "nothing" /\ todo = <<>>
  /\ at = [t \in SyncTasks |-> "out"] /\ asks = "waits"
  /\ pending = "none" /\ accepted = FALSE /\ done = FALSE
  /\ up = FALSE /\ scanning = FALSE /\ hci = "none" /\ scans = FALSE
  /\ sync = "none" /\ count = 0 /\ queued = 0 /\ crossed = FALSE

-----------------------------------------------------------------------------
(* send_command *)

CommandOf(t) == IF t = "sync" THEN "CREATE_SYNC" ELSE Head(todo)
HasCommand(t) ==
  /\ at[t] = "out"
  /\ IF t = "sync" THEN asks = "creates" ELSE todo # <<>>

\* The controller takes one command at a time.  A completion left behind is
\* drained, whoever's it is.
SendsCommand(t) ==
  /\ HasCommand(t) /\ up /\ hci = "none"
  /\ at' = [at EXCEPT ![t] = "sent"]
  /\ pending' = CommandOf(t) /\ accepted' = FALSE /\ done' = FALSE
  /\ hci' = CommandOf(t)
  /\ crossed' = (crossed \/ \E u \in SyncTasks \ {t} : at[u] = "sent")
  /\ UNCHANGED <<doing, todo, asks, up, scanning, scans, sync, count, queued>>

\* What follows a command: a start goes on if it was accepted and is given up
\* if not, a stop goes on in any case, and a sync asked for is counted.
Follows(t, ok) ==
  IF t = "sync"
  THEN /\ asks' = IF ok THEN "counts" ELSE "waits"
       /\ UNCHANGED <<doing, todo, scanning>>
  ELSE /\ todo' = IF doing = "start" /\ ~ok THEN <<>> ELSE Tail(todo)
       /\ doing' = IF doing = "start" /\ (~ok \/ Len(todo) = 1)
                   THEN "nothing" ELSE doing
       /\ scanning' = CASE doing = "start" -> ok /\ Len(todo) = 1
                       [] doing = "stop" -> FALSE
       /\ UNCHANGED asks

\* Whichever task waits may have the semaphore.
TakesDone(t) ==
  /\ at[t] = "sent" /\ done
  /\ done' = FALSE /\ pending' = "none" /\ at' = [at EXCEPT ![t] = "out"]
  /\ Follows(t, accepted)
  /\ UNCHANGED <<accepted, up, hci, scans, sync, count, queued, crossed>>

\* Two seconds with nothing: the answer was taken or drained by the other
\* task, or came when its opcode was not the pending one, or comes too late.
CommandTimesOut(t) ==
  /\ at[t] = "sent" /\ ~done
  /\ pending' = "none" /\ at' = [at EXCEPT ![t] = "out"]
  /\ Follows(t, FALSE)
  /\ crossed' = (crossed \/ hci = CommandOf(t))
  /\ UNCHANGED <<accepted, done, up, hci, scans, sync, count, queued>>

\* A second with no controller, or with one that cannot take a command.
CannotSend(t) ==
  /\ HasCommand(t) /\ (up => hci # "none")
  /\ Follows(t, FALSE)
  /\ crossed' = (crossed \/ up)
  /\ UNCHANGED <<at, pending, accepted, done, up, hci, scans, sync, count,
                 queued>>

-----------------------------------------------------------------------------
(* The control task *)

\* sn_radio_ble_start: the controller comes up, if it is not.
StartsScan ==
  /\ doing = "nothing" /\ ~scanning
  /\ doing' = "start" /\ todo' = <<"RESET", "ENABLE">> /\ up' = TRUE
  /\ UNCHANGED <<at, asks, pending, accepted, done, scanning, hci, scans,
                 sync, count, queued, crossed>>

\* sn_radio_ble_stop: scanning is disabled, if it had been enabled, ...
StopsScan ==
  /\ doing = "nothing" /\ up
  /\ doing' = "stop" /\ todo' = IF scanning THEN <<"DISABLE">> ELSE <<>>
  /\ UNCHANGED <<at, asks, pending, accepted, done, up, scanning, hci, scans,
                 sync, count, queued, crossed>>

\* ... the count and the requests are forgotten, ...
ForgetsSyncs ==
  /\ doing = "stop" /\ todo = <<>> /\ at["control"] = "out"
  /\ doing' = "down" /\ count' = 0 /\ queued' = 0
  /\ crossed' = (crossed \/ asks # "waits")
  /\ UNCHANGED <<todo, at, asks, pending, accepted, done, up, scanning, hci,
                 scans, sync>>

\* ... and the controller goes, with its sync and what it had not answered.
ControllerGoes ==
  /\ doing = "down"
  /\ doing' = "nothing" /\ up' = FALSE
  /\ hci' = "none" /\ scans' = FALSE /\ sync' = "none"
  /\ UNCHANGED <<todo, at, asks, pending, accepted, done, scanning, count,
                 queued, crossed>>

-----------------------------------------------------------------------------
(* The sync task *)

\* A request is dropped when there is no sync to be had.
TakesRequest ==
  /\ asks = "waits" /\ queued > 0
  /\ queued' = queued - 1
  /\ asks' = IF count >= 1 THEN "waits" ELSE "creates"
  /\ UNCHANGED <<doing, todo, at, pending, accepted, done, up, scanning, hci,
                 scans, sync, count, crossed>>

CountsSync ==
  /\ asks = "counts"
  /\ asks' = "waits" /\ count' = count + 1
  /\ UNCHANGED <<doing, todo, at, pending, accepted, done, up, scanning, hci,
                 scans, sync, queued, crossed>>

-----------------------------------------------------------------------------
(* The controller, and vhci_receive in its task *)

\* What an accepted command does to it.
Obeys(c) ==
  CASE c = "RESET" -> scans' = FALSE /\ sync' = "none"
    [] c = "ENABLE" -> scans' = TRUE /\ UNCHANGED sync
    [] c = "DISABLE" -> scans' = FALSE /\ UNCHANGED sync
    [] c = "CREATE_SYNC" -> sync' = "tried" /\ UNCHANGED scans

\* Command Complete or Command Status: the answer to the pending command, or
\* to one that nobody waits for.  A second sync is refused.
AnswersCommand ==
  /\ hci # "none" /\ hci' = "none"
  /\ \E ok \in IF hci # "CREATE_SYNC" THEN {TRUE}
               ELSE {FALSE, sync = "none"} :
       /\ IF ok THEN Obeys(hci) ELSE UNCHANGED <<scans, sync>>
       /\ IF hci = pending THEN accepted' = ok /\ done' = TRUE
                           ELSE UNCHANGED <<accepted, done>>
  /\ UNCHANGED <<doing, todo, at, asks, pending, up, scanning, count, queued,
                 crossed>>

\* An advertisement that announces a train.
ReportsTrain ==
  /\ scans /\ queued < MaxQueued
  /\ queued' = queued + 1
  /\ UNCHANGED <<doing, todo, at, asks, pending, accepted, done, up, scanning,
                 hci, scans, sync, count, crossed>>

Establishes ==
  /\ sync = "tried" /\ sync' = "held"
  /\ UNCHANGED <<doing, todo, at, asks, pending, accepted, done, up, scanning,
                 hci, scans, count, queued, crossed>>

\* The slot a sync's end gives back.
\* mutant: only a sync that was lost gives one back
KeptUnlessLost == IF sync = "held" /\ count > 0 THEN count - 1 ELSE count
GivenBack == IF count > 0 THEN count - 1 ELSE count

\* A sync is not established after all, or is lost.
EndsSync ==
  /\ sync # "none" /\ sync' = "none"
  /\ count' = GivenBack
  /\ crossed' = (crossed \/ (count = 0 /\ doing # "down"))
  /\ UNCHANGED <<doing, todo, at, asks, pending, accepted, done, up, scanning,
                 hci, scans, queued>>

SyncNext ==
  \/ \E t \in SyncTasks :
       SendsCommand(t) \/ TakesDone(t) \/ CommandTimesOut(t) \/ CannotSend(t)
  \/ StartsScan \/ StopsScan \/ ForgetsSyncs \/ ControllerGoes
  \/ TakesRequest \/ CountsSync
  \/ AnswersCommand \/ ReportsTrain \/ Establishes \/ EndsSync

-----------------------------------------------------------------------------
(* The slot is taken exactly while the controller has a sync, or tries to, *)
(* so that it neither refuses what it is asked nor goes without: over any  *)
(* number of captures, scans that are refused and syncs that are, fail or  *)
(* are lost.  It is so until both tasks are in send_command at once, an    *)
(* answer comes after its two seconds, a stop comes between the sync       *)
(* task's look at the count and its counting, or a sync ends before it has *)
(* been counted.  From then on it may be wrong, and nothing notices.       *)
SlotsAreSyncs ==
  ~crossed =>
    /\ count = 1 => sync # "none"
    /\ sync # "none" =>
         \/ count = 1 \/ doing = "down"
         \/ at["sync"] = "sent" \/ asks = "counts"

=============================================================================
