----------------------------- MODULE PartsProofs -----------------------------
(***************************************************************************)
(* The proofs of four parts that stand alone: the sync slot's accounting,  *)
(* the Wi-Fi clock, the band scan's labels and the installed keys.  Each   *)
(* has a specification of its own, the variables of one part and its       *)
(* actions; they are kept in one module because none needs another.        *)
(***************************************************************************)
EXTENDS BleSync, WifiClock, BandScan, KeyTables,
        SequenceTheorems, FiniteSetTheorems, TLAPS

-----------------------------------------------------------------------------
(* The sync slot, for any number of requests that may queue.  Until        *)
(* something crosses, at most one task is in send_command, and what it     *)
(* waits for is on its way; the slot is free whenever a reset or a stop    *)
(* could find it taken.                                                    *)

SyncSpec == SyncInit /\ [][SyncNext]_svars

SyncTypeOK ==
  /\ doing \in {"nothing", "start", "stop", "down"}
  /\ todo \in {<<>>, <<"ENABLE">>, <<"RESET", "ENABLE">>, <<"DISABLE">>}
  /\ at \in [SyncTasks -> {"out", "sent"}]
  /\ asks \in {"waits", "creates", "counts"}
  /\ pending \in {"none", "RESET", "ENABLE", "DISABLE", "CREATE_SYNC"}
  /\ hci \in {"none", "RESET", "ENABLE", "DISABLE", "CREATE_SYNC"}
  /\ accepted \in BOOLEAN /\ done \in BOOLEAN /\ up \in BOOLEAN
  /\ scanning \in BOOLEAN /\ scans \in BOOLEAN
  /\ sync \in {"none", "tried", "held"}
  /\ count \in Nat /\ queued \in Nat

\* What the control task is at, and what it has yet to send for it.
Stages ==
  /\ doing = "nothing" => todo = <<>> /\ up = scanning
  /\ doing = "start" =>
       up /\ ~scanning /\ todo \in {<<"RESET", "ENABLE">>, <<"ENABLE">>}
  /\ doing = "stop" =>
       up /\ IF scanning THEN todo = <<"DISABLE">> ELSE todo = <<>>
  /\ doing = "down" => up /\ ~scanning /\ todo = <<>>

\* At most one task waits for the controller, which has yet to answer it or
\* has, and then has done what it was told.
Waiting ==
  /\ at["control"] = "sent" =>
       /\ todo # <<>> /\ pending = todo[1] /\ at["sync"] = "out"
       /\ done => accepted /\ scans = (todo[1] = "ENABLE")
  /\ at["sync"] = "sent" => asks = "creates" /\ pending = "CREATE_SYNC"
  /\ IF at["control"] = "out" /\ at["sync"] = "out"
     THEN hci = "none" /\ ~done
     ELSE up /\ IF done THEN hci = "none" ELSE hci = pending

\* From the end of a stop until scanning is enabled there is nothing to sync.
Still ==
  /\ ~up \/ doing = "down" \/ (doing = "start" /\ ~scans) =>
       asks = "waits" /\ queued = 0 /\ count = 0 /\ ~scans
  /\ ~up \/ (doing = "start" /\ ~scans) => sync = "none"
  /\ doing = "start" /\ scans =>
       at["control"] = "sent" /\ done /\ todo = <<"ENABLE">>
  /\ doing = "stop" /\ todo = <<>> => ~scans

\* The slot: taken, about to be, or free.
Made == at["sync"] = "sent" /\ done /\ accepted
Slot ==
  /\ count \in {0, 1}
  /\ count = 1 \/ Made \/ asks = "counts" => sync # "none"
  /\ sync # "none" => count = 1 \/ doing = "down" \/ Made \/ asks = "counts"
  /\ asks # "waits" => count = 0

SyncInv == ~crossed => SyncTypeOK /\ Stages /\ Waiting /\ Still /\ Slot

LEMMA InitSync == SyncInit => SyncInv
<1> SUFFICES ASSUME SyncInit PROVE SyncInv
  OBVIOUS
<1>1. SyncTypeOK
  BY DEF SyncInit, SyncTypeOK
<1>2. Stages /\ Waiting
  BY DEF SyncInit, Stages, Waiting, SyncTasks
<1>3. Still /\ Slot
  BY DEF SyncInit, Still, Slot, Made, SyncTasks
<1>4. QED
  BY <1>1, <1>2, <1>3 DEF SyncInv

\* The first command and the rest, for the lists there are.
LEMMA Ends ==
  /\ Head(<<"ENABLE">>) = "ENABLE" /\ Tail(<<"ENABLE">>) = <<>>
  /\ Head(<<"DISABLE">>) = "DISABLE" /\ Tail(<<"DISABLE">>) = <<>>
  /\ Head(<<"RESET", "ENABLE">>) = "RESET"
  /\ Tail(<<"RESET", "ENABLE">>) = <<"ENABLE">>
  /\ Len(<<"ENABLE">>) = 1 /\ Len(<<"DISABLE">>) = 1
  /\ Len(<<"RESET", "ENABLE">>) = 2
<1>1. Head(<<"ENABLE">>) = "ENABLE" /\ Tail(<<"ENABLE">>) = <<>>
  OBVIOUS
<1>2. Head(<<"DISABLE">>) = "DISABLE" /\ Tail(<<"DISABLE">>) = <<>>
  OBVIOUS
<1>3. Head(<<"RESET", "ENABLE">>) = "RESET"
  OBVIOUS
<1>4. Tail(<<"RESET", "ENABLE">>) = <<"ENABLE">>
  OBVIOUS
<1>5. Len(<<"ENABLE">>) = 1 /\ Len(<<"DISABLE">>) = 1
  OBVIOUS
<1>6. Len(<<"RESET", "ENABLE">>) = 2
  OBVIOUS
<1>7. QED
  BY <1>1, <1>2, <1>3, <1>4, <1>5, <1>6

LEMMA NextSync ==
  ASSUME SyncInv, [SyncNext]_svars
  PROVE  SyncInv'
<1> USE DEF SyncInv
<1>1. ASSUME NEW t \in SyncTasks, SendsCommand(t) PROVE SyncInv'
  <2> SUFFICES ASSUME ~crossed'
               PROVE  SyncTypeOK' /\ Stages' /\ Waiting' /\ Still' /\ Slot'
    OBVIOUS
  <2>1. SyncTypeOK /\ Stages /\ Waiting /\ Still /\ Slot
    BY <1>1 DEF SendsCommand
  <2>2. SyncTypeOK'
    BY <1>1, <2>1, Ends DEF Stages, Waiting, Still, Slot, Made, SyncTypeOK,
       SyncTasks, SendsCommand, HasCommand, CommandOf
  <2>3. Stages'
    BY <1>1, <2>1, Ends DEF Stages, Waiting, Still, Slot, Made, SyncTypeOK,
       SyncTasks, SendsCommand, HasCommand, CommandOf
  <2>4. Waiting'
    BY <1>1, <2>1, Ends DEF Stages, Waiting, Still, Slot, Made, SyncTypeOK,
       SyncTasks, SendsCommand, HasCommand, CommandOf
  <2>5. Still'
    BY <1>1, <2>1, Ends DEF Stages, Waiting, Still, Slot, Made, SyncTypeOK,
       SyncTasks, SendsCommand, HasCommand, CommandOf
  <2>6. Slot'
    BY <1>1, <2>1, Ends DEF Stages, Waiting, Still, Slot, Made, SyncTypeOK,
       SyncTasks, SendsCommand, HasCommand, CommandOf
  <2>7. QED
    BY <2>2, <2>3, <2>4, <2>5, <2>6
<1>2. ASSUME NEW t \in SyncTasks, TakesDone(t) PROVE SyncInv'
  <2> SUFFICES ASSUME ~crossed'
               PROVE  SyncTypeOK' /\ Stages' /\ Waiting' /\ Still' /\ Slot'
    OBVIOUS
  <2>1. SyncTypeOK /\ Stages /\ Waiting /\ Still /\ Slot
    BY <1>2 DEF TakesDone
  <2>2. CASE t = "sync"
    BY <1>2, <2>1, <2>2 DEF TakesDone, Follows, Stages, Waiting, Still, Slot,
       Made, SyncTypeOK, SyncTasks
  <2>3. CASE t = "control" /\ doing = "start" /\ todo = <<"RESET", "ENABLE">>
    <3>1. accepted /\ Follows(t, TRUE)
      BY <1>2, <2>1, <2>3 DEF TakesDone, Waiting
    <3>2. Tail(todo) = <<"ENABLE">> /\ Len(todo) = 2
      BY <2>3, Ends
    <3>3. todo' = <<"ENABLE">> /\ UNCHANGED asks
      BY <2>3, <3>1, <3>2, Zenon DEF Follows
    <3>4. doing' = "start"
      BY <2>3, <3>1, <3>2 DEF Follows
    <3>5. scanning' = (TRUE /\ Len(todo) = 1)
      BY <2>3, <3>1 DEF Follows
    <3>6. Len(todo) # 1
      BY <3>2
    <3>7. ~scanning'
      BY <3>5, <3>6, Zenon
    <3>8. QED
      BY <1>2, <2>1, <2>3, <3>3, <3>4, <3>7 DEF TakesDone, Follows, Stages,
         Waiting, Still, Slot, Made, SyncTypeOK, SyncTasks
  <2>4. CASE t = "control" /\ doing = "start" /\ todo = <<"ENABLE">>
    <3>1. todo' = <<>> /\ doing' = "nothing" /\ scanning'
      BY <1>2, <2>1, <2>4, Ends DEF TakesDone, Follows, Waiting
    <3>2. QED
      BY <1>2, <2>1, <2>4, <3>1 DEF TakesDone, Follows, Stages, Waiting, Still,
         Slot, Made, SyncTypeOK, SyncTasks
  <2>5. CASE t = "control" /\ doing = "stop"
    <3>1. todo = <<"DISABLE">>
      BY <1>2, <2>1, <2>5 DEF TakesDone, Stages, Waiting
    <3>2. todo' = <<>> /\ doing' = "stop" /\ scanning' = FALSE /\ ~scans
      BY <1>2, <2>1, <2>5, <3>1, Ends DEF TakesDone, Follows, Waiting
    <3>3. QED
      BY <1>2, <2>1, <2>5, <3>1, <3>2 DEF TakesDone, Follows, Stages, Waiting,
         Still, Slot, Made, SyncTypeOK, SyncTasks
  <2>6. QED
    BY <1>2, <2>1, <2>2, <2>3, <2>4, <2>5
       DEF TakesDone, Stages, Waiting, SyncTypeOK, SyncTasks
<1>3. ASSUME NEW t \in SyncTasks, CommandTimesOut(t) PROVE SyncInv'
  <2> SUFFICES ASSUME ~crossed'
               PROVE  SyncTypeOK' /\ Stages' /\ Waiting' /\ Still' /\ Slot'
    OBVIOUS
  <2>1. SyncTypeOK /\ Stages /\ Waiting /\ Still /\ Slot
    BY <1>3 DEF CommandTimesOut
  <2>2. SyncTypeOK'
    BY <1>3, <2>1, Ends DEF Stages, Waiting, Still, Slot, Made, SyncTypeOK,
       SyncTasks, CommandTimesOut, Follows, CommandOf
  <2>3. Stages'
    BY <1>3, <2>1, Ends DEF Stages, Waiting, Still, Slot, Made, SyncTypeOK,
       SyncTasks, CommandTimesOut, Follows, CommandOf
  <2>4. Waiting'
    BY <1>3, <2>1, Ends DEF Stages, Waiting, Still, Slot, Made, SyncTypeOK,
       SyncTasks, CommandTimesOut, Follows, CommandOf
  <2>5. Still'
    BY <1>3, <2>1, Ends DEF Stages, Waiting, Still, Slot, Made, SyncTypeOK,
       SyncTasks, CommandTimesOut, Follows, CommandOf
  <2>6. Slot'
    BY <1>3, <2>1, Ends DEF Stages, Waiting, Still, Slot, Made, SyncTypeOK,
       SyncTasks, CommandTimesOut, Follows, CommandOf
  <2>7. QED
    BY <2>2, <2>3, <2>4, <2>5, <2>6
<1>4. ASSUME NEW t \in SyncTasks, CannotSend(t) PROVE SyncInv'
  <2> SUFFICES ASSUME ~crossed'
               PROVE  SyncTypeOK' /\ Stages' /\ Waiting' /\ Still' /\ Slot'
    OBVIOUS
  <2>1. SyncTypeOK /\ Stages /\ Waiting /\ Still /\ Slot
    BY <1>4 DEF CannotSend
  <2>2. SyncTypeOK'
    BY <1>4, <2>1, Ends DEF Stages, Waiting, Still, Slot, Made, SyncTypeOK,
       SyncTasks, CannotSend, Follows, HasCommand
  <2>3. Stages'
    BY <1>4, <2>1, Ends DEF Stages, Waiting, Still, Slot, Made, SyncTypeOK,
       SyncTasks, CannotSend, Follows, HasCommand
  <2>4. Waiting'
    BY <1>4, <2>1, Ends DEF Stages, Waiting, Still, Slot, Made, SyncTypeOK,
       SyncTasks, CannotSend, Follows, HasCommand
  <2>5. Still'
    BY <1>4, <2>1, Ends DEF Stages, Waiting, Still, Slot, Made, SyncTypeOK,
       SyncTasks, CannotSend, Follows, HasCommand
  <2>6. Slot'
    BY <1>4, <2>1, Ends DEF Stages, Waiting, Still, Slot, Made, SyncTypeOK,
       SyncTasks, CannotSend, Follows, HasCommand
  <2>7. QED
    BY <2>2, <2>3, <2>4, <2>5, <2>6
<1>5. CASE StartsScan
  <2> SUFFICES ASSUME ~crossed'
               PROVE  SyncTypeOK' /\ Stages' /\ Waiting' /\ Still' /\ Slot'
    OBVIOUS
  <2>1. SyncTypeOK /\ Stages /\ Waiting /\ Still /\ Slot
    BY <1>5 DEF StartsScan
  <2>2. SyncTypeOK'
    BY <1>5, <2>1, Ends DEF Stages, Waiting, Still, Slot, Made, SyncTypeOK,
       SyncTasks, StartsScan
  <2>3. Stages'
    BY <1>5, <2>1, Ends DEF Stages, Waiting, Still, Slot, Made, SyncTypeOK,
       SyncTasks, StartsScan
  <2>4. Waiting'
    BY <1>5, <2>1, Ends DEF Stages, Waiting, Still, Slot, Made, SyncTypeOK,
       SyncTasks, StartsScan
  <2>5. Still'
    BY <1>5, <2>1, Ends DEF Stages, Waiting, Still, Slot, Made, SyncTypeOK,
       SyncTasks, StartsScan
  <2>6. Slot'
    BY <1>5, <2>1, Ends DEF Stages, Waiting, Still, Slot, Made, SyncTypeOK,
       SyncTasks, StartsScan
  <2>7. QED
    BY <2>2, <2>3, <2>4, <2>5, <2>6
<1>6. CASE StopsScan
  <2> SUFFICES ASSUME ~crossed'
               PROVE  SyncTypeOK' /\ Stages' /\ Waiting' /\ Still' /\ Slot'
    OBVIOUS
  <2>1. SyncTypeOK /\ Stages /\ Waiting /\ Still /\ Slot
    BY <1>6 DEF StopsScan
  <2>2. SyncTypeOK'
    BY <1>6, <2>1, Ends DEF Stages, Waiting, Still, Slot, Made, SyncTypeOK,
       SyncTasks, StopsScan
  <2>3. Stages'
    BY <1>6, <2>1, Ends DEF Stages, Waiting, Still, Slot, Made, SyncTypeOK,
       SyncTasks, StopsScan
  <2>4. Waiting'
    BY <1>6, <2>1, Ends DEF Stages, Waiting, Still, Slot, Made, SyncTypeOK,
       SyncTasks, StopsScan
  <2>5. Still'
    BY <1>6, <2>1, Ends DEF Stages, Waiting, Still, Slot, Made, SyncTypeOK,
       SyncTasks, StopsScan
  <2>6. Slot'
    BY <1>6, <2>1, Ends DEF Stages, Waiting, Still, Slot, Made, SyncTypeOK,
       SyncTasks, StopsScan
  <2>7. QED
    BY <2>2, <2>3, <2>4, <2>5, <2>6
<1>7. CASE ForgetsSyncs
  <2> SUFFICES ASSUME ~crossed'
               PROVE  SyncTypeOK' /\ Stages' /\ Waiting' /\ Still' /\ Slot'
    OBVIOUS
  <2>1. SyncTypeOK /\ Stages /\ Waiting /\ Still /\ Slot
    BY <1>7 DEF ForgetsSyncs
  <2>2. SyncTypeOK'
    BY <1>7, <2>1 DEF Stages, Waiting, Still, Slot, Made, SyncTypeOK,
       SyncTasks, ForgetsSyncs
  <2>3. Stages'
    BY <1>7, <2>1 DEF Stages, Waiting, Still, Slot, Made, SyncTypeOK,
       SyncTasks, ForgetsSyncs
  <2>4. Waiting'
    BY <1>7, <2>1 DEF Stages, Waiting, Still, Slot, Made, SyncTypeOK,
       SyncTasks, ForgetsSyncs
  <2>5. Still'
    BY <1>7, <2>1 DEF Stages, Waiting, Still, Slot, Made, SyncTypeOK,
       SyncTasks, ForgetsSyncs
  <2>6. Slot'
    BY <1>7, <2>1 DEF Stages, Waiting, Still, Slot, Made, SyncTypeOK,
       SyncTasks, ForgetsSyncs
  <2>7. QED
    BY <2>2, <2>3, <2>4, <2>5, <2>6
<1>8. CASE ControllerGoes
  <2> SUFFICES ASSUME ~crossed'
               PROVE  SyncTypeOK' /\ Stages' /\ Waiting' /\ Still' /\ Slot'
    OBVIOUS
  <2>1. SyncTypeOK /\ Stages /\ Waiting /\ Still /\ Slot
    BY <1>8 DEF ControllerGoes
  <2>2. SyncTypeOK'
    BY <1>8, <2>1 DEF Stages, Waiting, Still, Slot, Made, SyncTypeOK,
       SyncTasks, ControllerGoes
  <2>3. Stages'
    BY <1>8, <2>1 DEF Stages, Waiting, Still, Slot, Made, SyncTypeOK,
       SyncTasks, ControllerGoes
  <2>4. Waiting'
    BY <1>8, <2>1 DEF Stages, Waiting, Still, Slot, Made, SyncTypeOK,
       SyncTasks, ControllerGoes
  <2>5. Still'
    BY <1>8, <2>1 DEF Stages, Waiting, Still, Slot, Made, SyncTypeOK,
       SyncTasks, ControllerGoes
  <2>6. Slot'
    BY <1>8, <2>1 DEF Stages, Waiting, Still, Slot, Made, SyncTypeOK,
       SyncTasks, ControllerGoes
  <2>7. QED
    BY <2>2, <2>3, <2>4, <2>5, <2>6
<1>9. CASE TakesRequest
  <2> SUFFICES ASSUME ~crossed'
               PROVE  SyncTypeOK' /\ Stages' /\ Waiting' /\ Still' /\ Slot'
    OBVIOUS
  <2>1. SyncTypeOK /\ Stages /\ Waiting /\ Still /\ Slot
    BY <1>9 DEF TakesRequest
  <2>2. SyncTypeOK'
    BY <1>9, <2>1 DEF Stages, Waiting, Still, Slot, Made, SyncTypeOK,
       SyncTasks, TakesRequest
  <2>3. Stages'
    BY <1>9, <2>1 DEF Stages, Waiting, Still, Slot, Made, SyncTypeOK,
       SyncTasks, TakesRequest
  <2>4. Waiting'
    BY <1>9, <2>1 DEF Stages, Waiting, Still, Slot, Made, SyncTypeOK,
       SyncTasks, TakesRequest
  <2>5. Still'
    BY <1>9, <2>1 DEF Stages, Waiting, Still, Slot, Made, SyncTypeOK,
       SyncTasks, TakesRequest
  <2>6. Slot'
    BY <1>9, <2>1 DEF Stages, Waiting, Still, Slot, Made, SyncTypeOK,
       SyncTasks, TakesRequest
  <2>7. QED
    BY <2>2, <2>3, <2>4, <2>5, <2>6
<1>10. CASE CountsSync
  <2> SUFFICES ASSUME ~crossed'
               PROVE  SyncTypeOK' /\ Stages' /\ Waiting' /\ Still' /\ Slot'
    OBVIOUS
  <2>1. SyncTypeOK /\ Stages /\ Waiting /\ Still /\ Slot
    BY <1>10 DEF CountsSync
  <2>2. SyncTypeOK'
    BY <1>10, <2>1 DEF Stages, Waiting, Still, Slot, Made, SyncTypeOK,
       SyncTasks, CountsSync
  <2>3. Stages'
    BY <1>10, <2>1 DEF Stages, Waiting, Still, Slot, Made, SyncTypeOK,
       SyncTasks, CountsSync
  <2>4. Waiting'
    BY <1>10, <2>1 DEF Stages, Waiting, Still, Slot, Made, SyncTypeOK,
       SyncTasks, CountsSync
  <2>5. Still'
    BY <1>10, <2>1 DEF Stages, Waiting, Still, Slot, Made, SyncTypeOK,
       SyncTasks, CountsSync
  <2>6. Slot'
    BY <1>10, <2>1 DEF Stages, Waiting, Still, Slot, Made, SyncTypeOK,
       SyncTasks, CountsSync
  <2>7. QED
    BY <2>2, <2>3, <2>4, <2>5, <2>6
<1>11. CASE AnswersCommand
  <2> SUFFICES ASSUME ~crossed'
               PROVE  SyncTypeOK' /\ Stages' /\ Waiting' /\ Still' /\ Slot'
    OBVIOUS
  <2>1. SyncTypeOK /\ Stages /\ Waiting /\ Still /\ Slot
    BY <1>11 DEF AnswersCommand
  <2>2. hci = pending /\ hci # "none" /\ ~done /\ up
    BY <1>11, <2>1 DEF AnswersCommand, Waiting
  <2>3. PICK ok \in BOOLEAN :
          /\ hci # "CREATE_SYNC" => ok
          /\ hci = "CREATE_SYNC" /\ sync # "none" => ~ok
          /\ IF ok THEN Obeys(hci) ELSE UNCHANGED <<scans, sync>>
          /\ accepted' = ok /\ done' = TRUE /\ hci' = "none"
    BY <1>11, <2>2 DEF AnswersCommand
  <2>4. UNCHANGED <<doing, todo, at, asks, pending, up, scanning, count,
                    queued, crossed>>
    BY <1>11 DEF AnswersCommand
  <2>5. CASE at["sync"] = "sent"
    <3>1. hci = "CREATE_SYNC" /\ at["control"] = "out" /\ asks = "creates"
      BY <2>1, <2>2, <2>5 DEF Waiting, SyncTypeOK, SyncTasks
    <3>2. CASE ok
      <4>1. sync = "none" /\ sync' = "tried" /\ scans' = scans
        BY <2>3, <3>1, <3>2 DEF Obeys
      <4>2. QED
        BY <2>1, <2>2, <2>3, <2>4, <2>5, <3>1, <3>2, <4>1 DEF Stages, Waiting,
           Still, Slot, Made, SyncTypeOK, SyncTasks
    <3>3. CASE ~ok
      BY <2>1, <2>2, <2>3, <2>4, <2>5, <3>1, <3>3 DEF Stages, Waiting, Still,
         Slot, Made, SyncTypeOK, SyncTasks
    <3>4. QED
      BY <3>2, <3>3
  <2>6. CASE at["control"] = "sent"
    <3>1. /\ hci = todo[1] /\ todo # <<>> /\ at["sync"] = "out"
          /\ doing = "start" \/ doing = "stop"
      BY <2>1, <2>2, <2>6 DEF Waiting, Stages, SyncTypeOK
    <3>2. CASE todo = <<"RESET", "ENABLE">>
      <4>1. doing = "start" /\ hci = "RESET" /\ ok
        BY <2>1, <2>3, <3>1, <3>2 DEF Stages
      <4>2. sync' = "none" /\ scans' = FALSE
        BY <2>3, <4>1 DEF Obeys
      <4>3. QED
        BY <2>1, <2>2, <2>3, <2>4, <2>6, <3>1, <3>2, <4>1, <4>2 DEF Stages,
           Waiting, Still, Slot, Made, SyncTypeOK, SyncTasks
    <3>3. CASE todo = <<"ENABLE">>
      <4>1. doing = "start" /\ hci = "ENABLE" /\ ok
        BY <2>1, <2>3, <3>1, <3>3 DEF Stages
      <4>2. sync' = sync /\ scans' = TRUE
        BY <2>3, <4>1 DEF Obeys
      <4>3. QED
        BY <2>1, <2>2, <2>3, <2>4, <2>6, <3>1, <3>3, <4>1, <4>2 DEF Stages,
           Waiting, Still, Slot, Made, SyncTypeOK, SyncTasks
    <3>4. CASE todo = <<"DISABLE">>
      <4>1. doing = "stop" /\ hci = "DISABLE" /\ ok
        BY <2>1, <2>3, <3>1, <3>4 DEF Stages
      <4>2. sync' = sync /\ scans' = FALSE
        BY <2>3, <4>1 DEF Obeys
      <4>3. QED
        BY <2>1, <2>2, <2>3, <2>4, <2>6, <3>1, <3>4, <4>1, <4>2 DEF Stages,
           Waiting, Still, Slot, Made, SyncTypeOK, SyncTasks
    <3>5. QED
      BY <2>1, <3>1, <3>2, <3>3, <3>4 DEF SyncTypeOK
  <2>7. QED
    BY <2>1, <2>2, <2>5, <2>6 DEF Waiting, SyncTypeOK, SyncTasks
<1>12. CASE ReportsTrain
  <2> SUFFICES ASSUME ~crossed'
               PROVE  SyncTypeOK' /\ Stages' /\ Waiting' /\ Still' /\ Slot'
    OBVIOUS
  <2>1. SyncTypeOK /\ Stages /\ Waiting /\ Still /\ Slot
    BY <1>12 DEF ReportsTrain
  <2>2. SyncTypeOK'
    BY <1>12, <2>1 DEF Stages, Waiting, Still, Slot, Made, SyncTypeOK,
       SyncTasks, ReportsTrain
  <2>3. Stages'
    BY <1>12, <2>1 DEF Stages, Waiting, Still, Slot, Made, SyncTypeOK,
       SyncTasks, ReportsTrain
  <2>4. Waiting'
    BY <1>12, <2>1 DEF Stages, Waiting, Still, Slot, Made, SyncTypeOK,
       SyncTasks, ReportsTrain
  <2>5. Still'
    BY <1>12, <2>1 DEF Stages, Waiting, Still, Slot, Made, SyncTypeOK,
       SyncTasks, ReportsTrain
  <2>6. Slot'
    BY <1>12, <2>1 DEF Stages, Waiting, Still, Slot, Made, SyncTypeOK,
       SyncTasks, ReportsTrain
  <2>7. QED
    BY <2>2, <2>3, <2>4, <2>5, <2>6
<1>13. CASE Establishes
  <2> SUFFICES ASSUME ~crossed'
               PROVE  SyncTypeOK' /\ Stages' /\ Waiting' /\ Still' /\ Slot'
    OBVIOUS
  <2>1. SyncTypeOK /\ Stages /\ Waiting /\ Still /\ Slot
    BY <1>13 DEF Establishes
  <2>2. SyncTypeOK'
    BY <1>13, <2>1 DEF Stages, Waiting, Still, Slot, Made, SyncTypeOK,
       SyncTasks, Establishes
  <2>3. Stages'
    BY <1>13, <2>1 DEF Stages, Waiting, Still, Slot, Made, SyncTypeOK,
       SyncTasks, Establishes
  <2>4. Waiting'
    BY <1>13, <2>1 DEF Stages, Waiting, Still, Slot, Made, SyncTypeOK,
       SyncTasks, Establishes
  <2>5. Still'
    BY <1>13, <2>1 DEF Stages, Waiting, Still, Slot, Made, SyncTypeOK,
       SyncTasks, Establishes
  <2>6. Slot'
    BY <1>13, <2>1 DEF Stages, Waiting, Still, Slot, Made, SyncTypeOK,
       SyncTasks, Establishes
  <2>7. QED
    BY <2>2, <2>3, <2>4, <2>5, <2>6
<1>14. CASE EndsSync
  <2> SUFFICES ASSUME ~crossed'
               PROVE  SyncTypeOK' /\ Stages' /\ Waiting' /\ Still' /\ Slot'
    OBVIOUS
  <2>1. SyncTypeOK /\ Stages /\ Waiting /\ Still /\ Slot
    BY <1>14 DEF EndsSync
  <2>2. SyncTypeOK'
    BY <1>14, <2>1 DEF Stages, Waiting, Still, Slot, Made, SyncTypeOK,
       SyncTasks, EndsSync, GivenBack
  <2>3. Stages'
    BY <1>14, <2>1 DEF Stages, Waiting, Still, Slot, Made, SyncTypeOK,
       SyncTasks, EndsSync, GivenBack
  <2>4. Waiting'
    BY <1>14, <2>1 DEF Stages, Waiting, Still, Slot, Made, SyncTypeOK,
       SyncTasks, EndsSync, GivenBack
  <2>5. Still'
    BY <1>14, <2>1 DEF Stages, Waiting, Still, Slot, Made, SyncTypeOK,
       SyncTasks, EndsSync, GivenBack
  <2>6. Slot'
    BY <1>14, <2>1 DEF Stages, Waiting, Still, Slot, Made, SyncTypeOK,
       SyncTasks, EndsSync, GivenBack
  <2>7. QED
    BY <2>2, <2>3, <2>4, <2>5, <2>6
<1>15. CASE UNCHANGED svars
  BY <1>15 DEF svars, Stages, Waiting, Still, Slot, Made, SyncTypeOK
<1>16. QED
  BY <1>1, <1>2, <1>3, <1>4, <1>5, <1>6, <1>7, <1>8, <1>9, <1>10, <1>11,
     <1>12, <1>13, <1>14, <1>15 DEF SyncNext

(* The slot is taken exactly while the controller has a sync or tries to,  *)
(* until something crosses, however many trains are reported: send_command *)
(* and the two counts of s_sync_count, up in sync_task and down in         *)
(* vhci_receive.                                                           *)
THEOREM SlotsKept == SyncSpec => []SlotsAreSyncs
<1>1. SyncInv => SlotsAreSyncs
  BY DEF SyncInv, Slot, Made, SlotsAreSyncs
<1>2. QED
  BY InitSync, NextSync, <1>1, PTL DEF SyncSpec

-----------------------------------------------------------------------------
(* The Wi-Fi clock, for any range of the counter, any silence before a     *)
(* rebuild and any length of a capture.  The last packet was given the sum *)
(* of the epoch and the counter, and the epoch grows by the range each time*)
(* the counter comes round.                                                *)

LEMMA Remainder ==
  ASSUME NEW W \in Nat \ {0}, NEW a \in Int
  PROVE  a % W \in 0 .. W - 1 /\ a \div W \in Int /\ a % W = a - W * (a \div W)
<1>1. a % W \in 0 .. W - 1
  OBVIOUS
<1>2. a \div W \in Int
  OBVIOUS
<1>3. a % W = a - W * (a \div W)
  OBVIOUS
<1>4. QED
  BY <1>1, <1>2, <1>3

LEMMA Unique ==
  ASSUME NEW W \in Nat \ {0}, NEW a \in Int, NEW q \in Int,
         NEW r \in 0 .. W - 1, r = a - W * q
  PROVE  a % W = r
  OBVIOUS

LEMMA Onward ==
  ASSUME NEW W \in Nat \ {0}, NEW a \in Int, NEW d \in 0 .. W - 1
  PROVE  (a + d) % W = IF (a % W) + d < W THEN (a % W) + d ELSE (a % W) + d - W
<1>1. PICK q \in Int, r \in 0 .. W - 1 : r = a % W /\ r = a - W * q
  BY Remainder
<1>2. ASSUME r + d < W PROVE (a + d) % W = r + d
  <2>1. r + d \in 0 .. W - 1 /\ a + d \in Int
    BY <1>2
  <2>2. r + d = (a + d) - W * q
    BY <1>1
  <2>3. QED
    BY <2>1, <2>2, Unique
<1>3. ASSUME ~(r + d < W) PROVE (a + d) % W = r + d - W
  <2>1. r + d - W \in 0 .. W - 1 /\ a + d \in Int /\ q + 1 \in Int
    BY <1>3
  <2>2. W * (q + 1) = W * q + W
    OBVIOUS
  <2>3. r + d - W = (a + d) - W * (q + 1)
    BY <1>1, <2>2
  <2>4. QED
    BY <2>1, <2>3, Unique
<1>4. QED
  BY <1>1, <1>2, <1>3

ClockSpec == ClockInit(0 .. Wrap - 1) /\ [][ClockNext]_wvars

\* The radio's counter when it was at second t.
CounterAt(t) == (t - since) % Wrap

ClockTypes ==
  /\ sec \in Int /\ since \in Int /\ since <= sec
  /\ last \in 0 .. Wrap - 1 /\ epoch \in Int /\ rebuilt \in BOOLEAN
  /\ packet \in [at : Int, stamp : Int]

\* What the epoch and the last reading say of the last packet: its stamp, and
\* after a rebuild the least that the next one can have.
Carries ==
  packet # Unheard =>
    /\ packet.at \in 0 .. sec
    /\ IF rebuilt
       THEN epoch = packet.stamp /\ last = 0 /\ packet.at <= since
       ELSE epoch + last = packet.stamp /\ last = CounterAt(packet.at)

ClockInv == ClockTypes /\ Carries /\ sec >= 0

\* Between two readings of the counter less than half its range apart, the
\* widened clock goes on by what has passed.
LEMMA WidenedBy ==
  ASSUME ClockTypes, NEW t \in Int, last = CounterAt(t),
         t <= sec, sec - t < Wrap \div 2
  PROVE  Widened + Raw = epoch + last + (sec - t)
<1> DEFINE d == sec - t
           half == Wrap \div 2
<1>1. Wrap \in Nat \ {0} /\ half \in Nat /\ 2 * half <= Wrap /\ half < Wrap
  BY WrapAssumption
<1>2. d \in 0 .. Wrap - 1 /\ d < half
  BY <1>1 DEF ClockTypes
<1>3. last \in 0 .. Wrap - 1 /\ epoch \in Int
  BY DEF ClockTypes
<1>4. Raw = IF last + d < Wrap THEN last + d ELSE last + d - Wrap
  <2>1. t - since \in Int /\ (t - since) + d = sec - since
    BY DEF ClockTypes
  <2>2. last = (t - since) % Wrap
    BY DEF CounterAt
  <2> HIDE DEF d
  <2>3. ((t - since) + d) % Wrap =
          IF ((t - since) % Wrap) + d < Wrap THEN ((t - since) % Wrap) + d
          ELSE ((t - since) % Wrap) + d - Wrap
    BY ONLY <1>1, <1>2, <2>1, Onward
  <2>4. Raw = ((t - since) + d) % Wrap
    BY <2>1 DEF Raw
  <2>5. QED
    BY ONLY <2>2, <2>3, <2>4
<1> HIDE DEF d, half
<1>5. Widened = IF last - Raw > half THEN epoch + Wrap ELSE epoch
  BY DEF Widened, half
<1>6. CASE last + d < Wrap
  BY <1>1, <1>2, <1>3, <1>4, <1>5, <1>6 DEF d
<1>7. CASE ~(last + d < Wrap)
  BY <1>1, <1>2, <1>3, <1>4, <1>5, <1>7 DEF d
<1>8. QED
  BY <1>6, <1>7

\* A counter that has started again since is taken for no wrap.
LEMMA WidenedAfresh ==
  ASSUME ClockTypes, last = 0
  PROVE  Raw \in 0 .. sec - since /\ Widened = epoch
<1>1. Wrap \in Nat \ {0} /\ Wrap \div 2 \in Nat
      /\ sec - since \in Nat /\ sec - since \in Int
  BY WrapAssumption DEF ClockTypes
<1>2. Raw \in 0 .. Wrap - 1
  BY <1>1, Remainder DEF Raw
<1>3. Raw <= sec - since
  <2>1. CASE sec - since < Wrap
    <3>1. sec - since \in 0 .. Wrap - 1 /\ 0 \in Int
      BY <1>1, <2>1
    <3>2. sec - since = (sec - since) - Wrap * 0
      BY <1>1
    <3>3. QED
      BY <1>1, <3>1, <3>2, Unique DEF Raw
  <2>2. CASE ~(sec - since < Wrap)
    BY <1>1, <1>2, <2>2
  <2>3. QED
    BY <2>1, <2>2
<1>4. QED
  BY <1>1, <1>2, <1>3 DEF Widened

LEMMA ClockStarts == ClockInit(0 .. Wrap - 1) => ClockInv
<1> SUFFICES ASSUME ClockInit(0 .. Wrap - 1) PROVE ClockInv
  OBVIOUS
<1>1. Wrap \in Nat \ {0}
  BY WrapAssumption
<1>2. since \in Int /\ since <= 0
  BY <1>1 DEF ClockInit
<1>3. Unheard \in [at : Int, stamp : Int]
  BY DEF Unheard
<1>4. packet = Unheard /\ sec = 0 /\ last = 0 /\ epoch = 0 /\ rebuilt = FALSE
  BY DEF ClockInit
<1>5. ClockTypes
  <2>1. packet \in [at : Int, stamp : Int]
    BY <1>3, <1>4
  <2>2. sec \in Int /\ since <= sec /\ last \in 0 .. Wrap - 1 /\ epoch \in Int
    BY <1>1, <1>2, <1>4
  <2>3. QED
    BY <1>2, <1>4, <2>1, <2>2 DEF ClockTypes
<1>6. QED
  BY <1>4, <1>5 DEF ClockInv, Carries

\* The invariant, and what a packet is stamped.
LEMMA ClockStep ==
  ASSUME ClockInv, PacketHeard
  PROVE  /\ ClockInv'
         /\ packet # Unheard =>
              LET given == packet'.stamp - packet.stamp
                  passed == packet'.at - packet.at
              IN  (rebuilt \/ passed < Wrap \div 2) =>
                    /\ given \in 0 .. passed
                    /\ rebuilt \/ given = passed
<1> USE DEF ClockInv
<1>1. Wrap \in Nat \ {0} /\ Wrap \div 2 \in Nat
  BY WrapAssumption
<1>2. /\ Raw \in 0 .. Wrap - 1 /\ Widened \in Int
      /\ sec - since \in Int
  BY <1>1, Remainder DEF Raw, Widened, ClockTypes
<1>3. /\ packet' = [at |-> sec, stamp |-> Widened + Raw] /\ rebuilt' = FALSE
      /\ epoch' = Widened /\ last' = Raw
      /\ UNCHANGED <<sec, since>>
  BY DEF PacketHeard
<1>4. ClockTypes'
  <2>1. sec \in Int /\ since \in Int /\ since <= sec /\ Widened + Raw \in Int
    BY <1>1, <1>2 DEF ClockTypes
  <2>2. packet' \in [at : Int, stamp : Int]
    BY <1>3, <2>1
  <2>3. QED
    BY <1>2, <1>3, <2>1, <2>2 DEF ClockTypes
<1>5. Carries'
  <2>1. packet'.at = sec /\ packet'.stamp = epoch' + last' /\ last' = Raw
    BY <1>3
  <2>2. (packet'.at - since') % Wrap = Raw
    BY <1>3, <2>1 DEF Raw
  <2>3. packet'.at \in 0 .. sec'
    BY <1>3, <2>1 DEF ClockTypes
  <2>4. QED
    BY <1>3, <2>1, <2>2, <2>3 DEF Carries, CounterAt
<1>6. ASSUME packet # Unheard, rebuilt
      PROVE  packet'.stamp - packet.stamp \in 0 .. packet'.at - packet.at
  <2>1. /\ epoch = packet.stamp /\ last = 0 /\ packet.at <= since
        /\ packet.at \in Int /\ packet.stamp \in Int
    BY <1>6 DEF Carries, ClockTypes
  <2>2. Raw \in 0 .. sec - since /\ Widened = epoch
    BY <2>1, WidenedAfresh
  <2>3. packet'.at = sec /\ packet'.stamp = packet.stamp + Raw
    BY <1>3, <2>1, <2>2
  <2>4. QED
    BY <2>1, <2>2, <2>3 DEF ClockTypes
<1>7. ASSUME packet # Unheard, ~rebuilt, packet'.at - packet.at < Wrap \div 2
      PROVE  /\ packet'.stamp - packet.stamp = packet'.at - packet.at
             /\ packet'.at - packet.at \in Nat
  <2>1. /\ epoch + last = packet.stamp /\ last = CounterAt(packet.at)
        /\ packet.at \in Int /\ packet.at <= sec /\ packet.stamp \in Int
    BY <1>7 DEF Carries, ClockTypes
  <2>2. packet'.at = sec /\ packet'.stamp = Widened + Raw
    BY <1>3
  <2>3. Widened + Raw = packet.stamp + (sec - packet.at)
    BY <1>7, <2>1, <2>2, WidenedBy
  <2>4. QED
    BY <2>1, <2>2, <2>3 DEF ClockTypes
<1>8. rebuilt \in BOOLEAN
  BY DEF ClockTypes
<1>9. QED
  BY <1>4, <1>5, <1>6, <1>7, <1>8, <1>3

LEMMA SecondKeeps ==
  ASSUME ClockInv, Second
  PROVE  ClockInv' /\ packet' = packet
<1> USE DEF ClockInv
<1>1. Wrap \in Nat \ {0}
  BY WrapAssumption
<1>2. sec' = sec + 1 /\ packet' = packet
  BY DEF Second
<1>3. CASE UNCHANGED <<since, last, epoch, rebuilt>>
  <2>1. ClockTypes'
    BY <1>1, <1>2, <1>3 DEF ClockTypes
  <2>2. Carries'
    BY <1>1, <1>2, <1>3 DEF Carries, ClockTypes, CounterAt
  <2>3. QED
    BY <1>2, <2>1, <2>2 DEF ClockTypes
<1>4. CASE rebuilt' = TRUE /\ epoch' = epoch + last /\ last' = 0 /\ since' = sec + 1
  <2>1. ClockTypes'
    BY <1>1, <1>2, <1>4 DEF ClockTypes
  <2>2. Carries'
    BY <1>1, <1>2, <1>4 DEF Carries, ClockTypes
  <2>3. QED
    BY <1>2, <2>1, <2>2 DEF ClockTypes
<1>5. QED
  BY <1>2, <1>3, <1>4 DEF Second, Carried

LEMMA ClockKept ==
  ASSUME ClockInv, [ClockNext]_wvars
  PROVE  ClockInv'
<1>1. CASE PacketHeard
  BY <1>1, ClockStep
<1>2. CASE MiscHeard \/ CsiHeard \/ UNCHANGED wvars
  <2>1. UNCHANGED <<sec, since, last, epoch, packet, rebuilt>>
    BY <1>2 DEF MiscHeard, CsiHeard, wvars
  <2>2. QED
    BY <2>1 DEF ClockInv, ClockTypes, Carries, CounterAt
<1>3. CASE Second
  BY <1>3, SecondKeeps
<1>4. QED
  BY <1>1, <1>2, <1>3 DEF ClockNext

\* What ClockForward says of a step.
ClockOk ==
  (packet # Unheard /\ packet' # packet) =>
       LET given == packet'.stamp - packet.stamp
           passed == packet'.at - packet.at
       IN  (rebuilt \/ passed < Wrap \div 2) =>
             /\ given \in 0 .. passed
             /\ rebuilt \/ given = passed

LEMMA ClockSteps ==
  ASSUME ClockInv, [ClockNext]_wvars
  PROVE  ClockOk
<1>1. CASE PacketHeard
  BY <1>1, ClockStep DEF ClockOk
<1>2. CASE MiscHeard \/ CsiHeard \/ Second \/ UNCHANGED wvars
  <2>1. packet' = packet
    BY <1>2 DEF MiscHeard, CsiHeard, Second, wvars
  <2>2. QED
    BY <2>1 DEF ClockOk
<1>3. QED
  BY <1>1, <1>2 DEF ClockNext

(* The times of packets never go back and never run ahead, over any wrap of*)
(* the counter and any rebuild, as long as two packets with no rebuild     *)
(* between them are less than half its range apart: widen_timestamp_us, and*)
(* what sniffer_wifi_poll carries into the epoch.                          *)
THEOREM PacketsGoForward == ClockSpec => ClockForward
<1>1. ClockSpec => []ClockInv
  BY ClockStarts, ClockKept, PTL DEF ClockSpec
<1>2. ClockInv /\ [ClockNext]_wvars => [ClockOk]_wvars
  BY ClockSteps
<1>3. QED
  BY <1>1, <1>2, PTL DEF ClockSpec, ClockForward, ClockOk

-----------------------------------------------------------------------------
(* The band scan, for any band and any channels on offer: records are sent,*)
(* arrive and are gathered in the order of the access points, and the reply*)
(* comes after the last of them.                                           *)

ScanSpec == ScanInit(Bands) /\ [][ScanNext]_bvars

ScanReply(j) == link[j].is = "CONTROL_REPLY" /\ link[j].command = "WIFI_SCAN"

\* A frame of a scan of a band of n access points.
Frames(n) ==
  [is : {"AP_RECORD"}, ap : 1 .. n, reads : BOOLEAN]
    \cup [is : {"CONTROL_REPLY"}, command : {"SET_RADIO", "WIFI_SCAN"},
          ok : BOOLEAN, value : Nat]

ScanTypes ==
  /\ band \in Seq(Nat)
  /\ client \in {"ready", "settling", "scanning", "done"}
  /\ queue \in {<<>>, <<"SET_RADIO">>, <<"WIFI_SCAN">>, <<"SET_RADIO", "WIFI_SCAN">>}
  /\ sending \in 0 .. Len(band) + 1
  /\ link \in Seq(Frames(Len(band)))
  /\ found \in Seq(1 .. Len(band))
  /\ missed \in SUBSET (1 .. Len(band))

\* The scan is asked for once, when the radio was given time to settle.
Asked ==
  /\ client = "ready" => queue = <<>>
  /\ client \in {"ready", "settling"} =>
       queue \in {<<>>, <<"SET_RADIO">>} /\ sending = 0
  /\ sending # 0 => queue = <<"WIFI_SCAN">>

\* Until the board scans there is nothing of a scan.
Unbegun ==
  sending = 0 /\ (client \in {"ready", "settling"} \/ queue # <<>>) =>
    /\ found = <<>> /\ missed = {}
    /\ \A j \in 1 .. Len(link) :
         link[j].is = "CONTROL_REPLY" /\ link[j].command = "SET_RADIO"

\* Records are sent, and arrive, in the order of the access points.
Ordered ==
  /\ \A i \in 1 .. Len(found) :
       /\ \A j \in 1 .. i - 1 : found[j] < found[i]
       /\ found[i] \notin missed
       /\ sending > 0 => found[i] < sending
  /\ \A j \in 1 .. Len(link) : link[j].is = "AP_RECORD" =>
       /\ \A i \in 1 .. Len(found) : found[i] < link[j].ap
       /\ \A i \in 1 .. j - 1 : link[i].is = "AP_RECORD" => link[i].ap < link[j].ap
       /\ link[j].reads => link[j].ap \notin missed
       /\ sending > 0 => link[j].ap < sending
  /\ sending > 0 => \A a \in missed : a < sending

\* An access point's record was missed, has arrived or is among the first n
\* frames on the link.
Told(a, n) ==
  \/ a \in missed
  \/ \E i \in 1 .. Len(found) : found[i] = a
  \/ \E i \in 1 .. n : link[i] = Record(a, TRUE)

\* What has been sent is accounted for, and the reply comes after all of it.
Complete ==
  /\ \A a \in 1 .. sending - 1 : Told(a, Len(link))
  /\ \A j \in 1 .. Len(link) : ScanReply(j) =>
       /\ sending = 0 /\ queue = <<>>
       /\ link[j].ok =>
            link[j].value = Len(band) /\ \A a \in 1 .. Len(band) : Told(a, j)

\* How it ended.
Ended ==
  client = "done" /\ result # "failed" =>
    /\ sending = 0 /\ queue = <<>>
    /\ \A a \in 1 .. Len(band) : Told(a, 0)
    /\ result = IF Len(found) < Len(band) THEN "short" ELSE "whole"

ScanInv == ScanTypes /\ Asked /\ Unbegun /\ Ordered /\ Complete /\ Ended

LEMMA RecordsAre ==
  ASSUME NEW n \in Nat, NEW a \in 1 .. n
  PROVE  /\ Record(a, TRUE) \in Frames(n) /\ Record(a, FALSE) \in Frames(n)
         /\ Record(a, TRUE).is = "AP_RECORD" /\ Record(a, FALSE).is = "AP_RECORD"
         /\ Record(a, TRUE).ap = a /\ Record(a, FALSE).ap = a
         /\ Record(a, TRUE).reads /\ ~Record(a, FALSE).reads
  BY DEF Frames, Record

LEMMA FramesAre ==
  ASSUME NEW n, NEW f \in Frames(n)
  PROVE  /\ f.is \in {"AP_RECORD", "CONTROL_REPLY"}
         /\ f.is = "AP_RECORD" => f.ap \in 1 .. n /\ f.reads \in BOOLEAN
         /\ f.is = "AP_RECORD" /\ f.reads => f = Record(f.ap, TRUE)
         /\ f.is = "CONTROL_REPLY" => f.ok \in BOOLEAN
  BY DEF Frames, Record

\* The link when a frame has been taken by the board's ring, or refused.
LEMMA LinkGrows ==
  ASSUME NEW S, link \in Seq(S), NEW f \in S, Sends(f)
  PROVE  /\ link' \in Seq(S) /\ Len(link) \in Nat /\ Len(link') \in Nat
         /\ Len(link') >= Len(link)
         /\ \A i \in 1 .. Len(link) : link'[i] = link[i]
         /\ \A i \in 1 .. Len(link') :
              i \notin 1 .. Len(link) => i = Len(link) + 1 /\ link'[i] = f
<1>1. CASE link' = link
  BY <1>1
<1>2. CASE link' = Append(link, f)
  BY <1>2, AppendProperties
<1>3. QED
  BY <1>1, <1>2 DEF Sends

LEMMA LinkTakes ==
  ASSUME NEW S, link \in Seq(S), NEW f \in S, link' = Append(link, f)
  PROVE  /\ Sends(f) /\ Len(link') = Len(link) + 1 /\ link'[Len(link) + 1] = f
  BY AppendProperties DEF Sends

LEMMA LinkRead ==
  ASSUME NEW S, link \in Seq(S), link # <<>>, link' = Tail(link)
  PROVE  /\ link' \in Seq(S) /\ Len(link) \in Nat /\ Len(link) >= 1
         /\ Len(link') = Len(link) - 1
         /\ \A i \in 1 .. Len(link') : i + 1 \in 1 .. Len(link) /\ link'[i] = link[i + 1]
         /\ Head(link) = link[1] /\ link[1] \in S
         /\ \A i \in 2 .. Len(link) : i - 1 \in 1 .. Len(link')
  BY HeadTailProperties

LEMMA Appended ==
  ASSUME NEW S, NEW q \in Seq(S), NEW e \in S
  PROVE  /\ Append(q, e) \in Seq(S) /\ Len(Append(q, e)) = Len(q) + 1
         /\ \A i \in 1 .. Len(q) : Append(q, e)[i] = q[i]
         /\ Append(q, e)[Len(q) + 1] = e
  BY AppendProperties

LEMMA Two ==
  ASSUME NEW a, NEW e
  PROVE  Append(<<a>>, e) = <<a, e>>
<1> DEFINE S == {a, e}
           q == <<a>>
           t == <<a, e>>
<1>1. q \in Seq(S) /\ Len(q) = 1 /\ q[1] = a /\ e \in S
  OBVIOUS
<1>2. t \in Seq(S) /\ Len(t) = 2 /\ t[1] = a /\ t[2] = e
  OBVIOUS
<1> HIDE DEF S, q, t
<1>3. /\ Append(q, e) \in Seq(S) /\ Len(Append(q, e)) = Len(q) + 1
      /\ \A i \in 1 .. Len(q) : Append(q, e)[i] = q[i]
      /\ Append(q, e)[Len(q) + 1] = e
  BY <1>1, Appended
<1>4. \A i \in 1 .. Len(Append(q, e)) : Append(q, e)[i] = t[i]
  BY <1>1, <1>2, <1>3
<1>5. Append(q, e) = t
  BY <1>1, <1>2, <1>3, <1>4, SeqEqual
<1>6. QED
  BY <1>5 DEF t, q

LEMMA QueueIs ==
  ASSUME ScanTypes
  PROVE  /\ queue # <<>> /\ Head(queue) = "SET_RADIO" =>
              queue \in {<<"SET_RADIO">>, <<"SET_RADIO", "WIFI_SCAN">>}
              /\ Tail(queue) = IF queue = <<"SET_RADIO">> THEN <<>> ELSE <<"WIFI_SCAN">>
         /\ queue # <<>> /\ Head(queue) = "WIFI_SCAN" =>
              queue = <<"WIFI_SCAN">> /\ Tail(queue) = <<>>
         /\ queue = <<"SET_RADIO">> => Append(queue, "WIFI_SCAN") = <<"SET_RADIO", "WIFI_SCAN">>
         /\ queue = <<>> => Append(queue, "WIFI_SCAN") = <<"WIFI_SCAN">>
<1>1. CASE queue = <<>>
  <2>1. Append(queue, "WIFI_SCAN") = <<"WIFI_SCAN">>
    BY <1>1
  <2>2. queue # <<"SET_RADIO">>
    BY <1>1
  <2>3. QED
    BY <1>1, <2>1, <2>2
<1>2. CASE queue = <<"SET_RADIO">>
  <2>1. Head(queue) = "SET_RADIO" /\ Tail(queue) = <<>> /\ queue # <<>>
    BY <1>2
  <2>2. Append(queue, "WIFI_SCAN") = <<"SET_RADIO", "WIFI_SCAN">>
    BY <1>2, Two
  <2>3. QED
    BY <1>2, <2>1, <2>2
<1>3. CASE queue = <<"WIFI_SCAN">>
  BY <1>3
<1>4. CASE queue = <<"SET_RADIO", "WIFI_SCAN">>
  <2>1. Head(queue) = "SET_RADIO" /\ Tail(queue) = <<"WIFI_SCAN">>
    BY <1>4
  <2>2. queue # <<"SET_RADIO">> /\ queue # <<>>
    BY <1>4
  <2>3. QED
    BY <1>4, <2>1, <2>2
<1>5. QED
  BY <1>1, <1>2, <1>3, <1>4 DEF ScanTypes

\* What has been told of an access point stays told as the link grows.
LEMMA StaysTold ==
  ASSUME NEW n \in Nat, NEW a, Told(a, n), found' = found,
         missed \subseteq missed', \A i \in 1 .. n : link'[i] = link[i]
  PROVE  Told(a, n)'
  BY DEF Told, Record

LEMMA ScanStarts == ScanInit(Bands) => ScanInv
<1> SUFFICES ASSUME ScanInit(Bands) PROVE ScanInv
  OBVIOUS
<1>1. band \in Seq(Nat) /\ Len(band) \in Nat
  BY BandsAssumption DEF ScanInit
<1>2. ScanTypes
  BY <1>1 DEF ScanInit, ScanTypes
<1>3. Len(link) = 0 /\ Len(found) = 0 /\ sending = 0 /\ missed = {}
      /\ client = "ready" /\ queue = <<>>
  BY DEF ScanInit
<1>4. Asked /\ Unbegun
  BY <1>3 DEF Asked, Unbegun, ScanInit
<1>5. Ordered /\ Complete /\ Ended
  BY <1>3 DEF Ordered, Complete, Ended
<1>6. QED
  BY <1>2, <1>4, <1>5 DEF ScanInv

LEMMA KeepsSelects ==
  ASSUME ScanInv, Selects
  PROVE  ScanInv'
<1> USE DEF ScanInv
<1> DEFINE f == Reply("SET_RADIO", TRUE, 0)
<1>1. /\ Sends(f) /\ queue' = Tail(queue)
      /\ UNCHANGED <<band, client, sending, found, result, missed>>
      /\ queue # <<>> /\ Head(queue) = "SET_RADIO"
  BY DEF Selects
<1>2. band \in Seq(Nat) /\ Len(band) \in Nat
  BY DEF ScanTypes
<1>3. f \in Frames(Len(band)) /\ f.is = "CONTROL_REPLY" /\ f.command = "SET_RADIO"
  BY <1>2 DEF Reply, Frames
<1> HIDE DEF f
<1>4. /\ link' \in Seq(Frames(Len(band))) /\ Len(link) \in Nat /\ Len(link') \in Nat
      /\ Len(link') >= Len(link)
      /\ \A i \in 1 .. Len(link) : link'[i] = link[i]
      /\ \A i \in 1 .. Len(link') :
           i \notin 1 .. Len(link) => i = Len(link) + 1 /\ link'[i] = f
  BY <1>1, <1>2, <1>3, LinkGrows DEF ScanTypes
<1>5. /\ queue \in {<<"SET_RADIO">>, <<"SET_RADIO", "WIFI_SCAN">>}
      /\ queue' = IF queue = <<"SET_RADIO">> THEN <<>> ELSE <<"WIFI_SCAN">>
      /\ sending = 0 /\ sending' = 0
  BY <1>1, QueueIs DEF Asked
<1>6. ScanTypes'
  BY <1>1, <1>2, <1>4, <1>5 DEF ScanTypes
<1>7. Asked'
  BY <1>1, <1>5 DEF Asked
<1>8. /\ found' = <<>> /\ missed' = {} /\ Len(found') = 0
      /\ \A j \in 1 .. Len(link') :
           link'[j].is = "CONTROL_REPLY" /\ link'[j].command = "SET_RADIO"
  BY <1>1, <1>3, <1>4, <1>5 DEF Unbegun
<1>9. Unbegun' /\ Ordered'
  BY <1>5, <1>8 DEF Unbegun, Ordered
<1>10. Complete'
  BY <1>5, <1>8 DEF Complete, ScanReply
<1>11. Ended'
  BY <1>1, <1>5 DEF Ended
<1>12. QED
  BY <1>6, <1>7, <1>9, <1>10, <1>11

LEMMA KeepsRefused ==
  ASSUME ScanInv, queue # <<>>, Head(queue) = "WIFI_SCAN", sending = 0,
         queue' = Tail(queue), Sends(Reply("WIFI_SCAN", FALSE, 0)),
         UNCHANGED <<band, client, sending, found, result, missed>>
  PROVE  ScanInv'
<1> USE DEF ScanInv
<1> DEFINE f == Reply("WIFI_SCAN", FALSE, 0)
<1>2. band \in Seq(Nat) /\ Len(band) \in Nat
  BY DEF ScanTypes
<1>3. f \in Frames(Len(band)) /\ f.is = "CONTROL_REPLY" /\ f.command = "WIFI_SCAN" /\ ~f.ok
  BY <1>2 DEF Reply, Frames
<1> HIDE DEF f
<1>4. /\ link' \in Seq(Frames(Len(band))) /\ Len(link) \in Nat /\ Len(link') \in Nat
      /\ Len(link') >= Len(link)
      /\ \A i \in 1 .. Len(link) : link'[i] = link[i]
      /\ \A i \in 1 .. Len(link') :
           i \notin 1 .. Len(link) => i = Len(link) + 1 /\ link'[i] = f
  BY <1>2, <1>3, LinkGrows DEF ScanTypes, f
<1>5. queue = <<"WIFI_SCAN">> /\ queue' = <<>> /\ sending' = 0
  BY QueueIs
<1>6. ScanTypes'
  BY <1>2, <1>4, <1>5 DEF ScanTypes
<1>7. Asked' /\ client \notin {"ready", "settling"}
  BY <1>5 DEF Asked
<1>8. /\ found' = <<>> /\ missed' = {} /\ Len(found') = 0
      /\ \A j \in 1 .. Len(link') :
           link'[j].is = "CONTROL_REPLY" /\ (link'[j].command = "SET_RADIO" \/ ~link'[j].ok)
  BY <1>3, <1>4, <1>5 DEF Unbegun
<1>9. Unbegun' /\ Ordered'
  BY <1>5, <1>7, <1>8 DEF Unbegun, Ordered
<1>10. Complete'
  BY <1>5, <1>8 DEF Complete, ScanReply
<1>11. Ended'
  BY <1>5 DEF Ended
<1>12. QED
  BY <1>6, <1>7, <1>9, <1>10, <1>11

LEMMA KeepsSweeps ==
  ASSUME ScanInv, Sweeps
  PROVE  ScanInv'
<1> USE DEF ScanInv
<1>1. /\ queue # <<>> /\ Head(queue) = "WIFI_SCAN" /\ sending = 0
      /\ UNCHANGED <<band, client, found, result, missed>>
  BY DEF Sweeps
<1>2. CASE sending' = 1 /\ UNCHANGED <<queue, link>>
  <2>1. queue = <<"WIFI_SCAN">> /\ queue' = <<"WIFI_SCAN">>
    BY <1>1, <1>2, QueueIs
  <2>2. /\ found' = <<>> /\ missed' = {} /\ Len(found') = 0
        /\ \A j \in 1 .. Len(link') :
             link'[j].is = "CONTROL_REPLY" /\ link'[j].command = "SET_RADIO"
    BY <1>1, <1>2, <2>1 DEF Unbegun
  <2>3. ScanTypes'
    BY <1>1, <1>2 DEF ScanTypes
  <2>4. Asked' /\ Unbegun'
    BY <1>1, <1>2, <2>1 DEF Asked, Unbegun
  <2>5. Ordered' /\ Complete'
    BY <1>2, <2>2 DEF Ordered, Complete, ScanReply
  <2>6. Ended'
    BY <1>1, <1>2, <2>1 DEF Ended
  <2>7. QED
    BY <2>3, <2>4, <2>5, <2>6
<1>3. CASE /\ queue' = Tail(queue) /\ Sends(Reply("WIFI_SCAN", FALSE, 0))
           /\ UNCHANGED sending
  BY <1>1, <1>3, KeepsRefused
<1>4. QED
  BY <1>2, <1>3 DEF Sweeps

LEMMA KeepsRecord ==
  ASSUME ScanInv, SendsRecord
  PROVE  ScanInv'
<1> USE DEF ScanInv
<1>1. /\ sending \in 1 .. Len(band) /\ sending' = sending + 1
      /\ UNCHANGED <<band, client, queue, found, result>>
  BY DEF SendsRecord
<1>2. band \in Seq(Nat) /\ Len(band) \in Nat /\ sending \in Nat /\ sending > 0
      /\ queue = <<"WIFI_SCAN">> /\ link \in Seq(Frames(Len(band)))
  BY <1>1 DEF ScanTypes, Asked
<1>3. PICK f \in Frames(Len(band)) :
        /\ Sends(f) /\ f.is = "AP_RECORD" /\ f.ap = sending
        /\ missed' \in {missed, missed \cup {sending}}
        /\ f.reads => missed' = missed
        /\ sending \in missed'
             \/ (f = Record(sending, TRUE) /\ link' = Append(link, f))
  <2>1. CASE link' = Append(link, Record(sending, TRUE)) /\ UNCHANGED missed
    <3>1. Sends(Record(sending, TRUE))
      BY <2>1 DEF Sends
    <3>2. QED
      BY <1>1, <1>2, <2>1, <3>1, RecordsAre
  <2>2. CASE /\ link' \in {link, Append(link, Record(sending, FALSE))}
             /\ missed' = missed \cup {sending}
    <3>1. Sends(Record(sending, FALSE))
      BY <2>2 DEF Sends
    <3>2. sending \in missed'
      BY <2>2
    <3>3. /\ Record(sending, FALSE) \in Frames(Len(band))
          /\ Record(sending, FALSE).is = "AP_RECORD"
          /\ Record(sending, FALSE).ap = sending /\ ~Record(sending, FALSE).reads
      BY <1>1, <1>2, RecordsAre
    <3>4. QED
      BY <2>2, <3>1, <3>2, <3>3
  <2>3. QED
    BY <2>1, <2>2 DEF SendsRecord
<1>4. /\ link' \in Seq(Frames(Len(band))) /\ Len(link) \in Nat /\ Len(link') \in Nat
      /\ Len(link') >= Len(link)
      /\ \A i \in 1 .. Len(link) : link'[i] = link[i]
      /\ \A i \in 1 .. Len(link') :
           i \notin 1 .. Len(link) => i = Len(link) + 1 /\ link'[i] = f
  BY <1>2, <1>3, LinkGrows
<1>5. sending \in missed'
        \/ (Len(link') = Len(link) + 1 /\ link'[Len(link) + 1] = Record(sending, TRUE))
  <2>1. link' = Append(link, f) => Len(link') = Len(link) + 1 /\ link'[Len(link) + 1] = f
    BY <1>2, LinkTakes
  <2>2. CASE sending \in missed'
    BY <2>2
  <2>3. CASE f = Record(sending, TRUE) /\ link' = Append(link, f)
    BY <2>1, <2>3
  <2>4. QED
    BY <1>3, <2>2, <2>3
<1>6. \A a \in missed : a \in 1 .. Len(band) /\ a < sending
  BY <1>2 DEF ScanTypes, Ordered
<1>7. \A a : a # sending => (a \in missed' <=> a \in missed)
  BY <1>3
<1>8. f.reads => sending \notin missed'
  BY <1>2, <1>3, <1>6
<1>9. ScanTypes'
  <2>1. missed' \in SUBSET (1 .. Len(band))
    BY <1>1, <1>3, <1>6
  <2>2. sending' \in 0 .. Len(band) + 1
    BY <1>1, <1>2
  <2>3. QED
    BY <1>1, <1>4, <2>1, <2>2 DEF ScanTypes
<1>10. Asked' /\ Unbegun' /\ Ended'
  BY <1>1, <1>2 DEF Asked, Unbegun, Ended
<1>11. \A i \in 1 .. Len(found) : found[i] \in Int /\ found[i] < sending
  BY <1>2 DEF Ordered, ScanTypes
<1>12. \A j \in 1 .. Len(link) : link[j].is = "AP_RECORD" =>
         link[j].ap \in Int /\ link[j].ap < sending
  <2> SUFFICES ASSUME NEW j \in 1 .. Len(link), link[j].is = "AP_RECORD"
               PROVE  link[j].ap \in Int /\ link[j].ap < sending
    OBVIOUS
  <2>1. link[j] \in Frames(Len(band))
    BY <1>2
  <2>2. link[j].ap \in 1 .. Len(band)
    BY <2>1, FramesAre
  <2>3. QED
    BY <1>2, <2>2 DEF Ordered
<1>13. Ordered'
  <2>1. \A i \in 1 .. Len(found) :
          /\ \A j \in 1 .. i - 1 : found[j] < found[i]
          /\ found[i] \notin missed'
          /\ found[i] < sending'
    BY <1>1, <1>2, <1>7, <1>11 DEF Ordered
  <2>2. ASSUME NEW j \in 1 .. Len(link'), link'[j].is = "AP_RECORD"
        PROVE  /\ \A i \in 1 .. Len(found) : found[i] < link'[j].ap
               /\ \A i \in 1 .. j - 1 :
                    link'[i].is = "AP_RECORD" => link'[i].ap < link'[j].ap
               /\ link'[j].reads => link'[j].ap \notin missed'
               /\ link'[j].ap < sending'
    <3>1. CASE j \in 1 .. Len(link)
      <4>1. link'[j] = link[j] /\ \A i \in 1 .. j - 1 : link'[i] = link[i]
        BY <1>4, <3>1
      <4>2. link[j].ap \in Int /\ link[j].ap < sending
        BY <1>12, <2>2, <3>1, <4>1
      <4>3. QED
        <5>1. link[j].is = "AP_RECORD"
          BY <2>2, <4>1
        <5>2. /\ \A i \in 1 .. Len(found) : found[i] < link[j].ap
              /\ \A i \in 1 .. j - 1 :
                   link[i].is = "AP_RECORD" => link[i].ap < link[j].ap
              /\ link[j].reads => link[j].ap \notin missed
          BY <3>1, <5>1 DEF Ordered
        <5>3. link[j].reads => link[j].ap \notin missed'
          BY <1>7, <4>2, <5>2, <1>2
        <5>4. QED
          <6>1. /\ \A i \in 1 .. Len(found) : found[i] < link'[j].ap
                /\ \A i \in 1 .. j - 1 :
                     link'[i].is = "AP_RECORD" => link'[i].ap < link'[j].ap
            BY ONLY <4>1, <5>2
          <6>2. link'[j].ap < sending'
            BY <1>1, <1>2, <4>1, <4>2
          <6>3. QED
            BY <4>1, <5>3, <6>1, <6>2
    <3>2. CASE j \notin 1 .. Len(link)
      <4>1. link'[j] = f /\ j = Len(link) + 1
        BY <1>4, <3>2
      <4>2. \A i \in 1 .. j - 1 : i \in 1 .. Len(link) /\ link'[i] = link[i]
        BY <1>4, <4>1
      <4>3. link'[j].ap = sending /\ (link'[j].reads => sending \notin missed')
        BY <1>3, <1>8, <4>1
      <4>4. QED
        BY <1>1, <1>2, <1>11, <1>12, <4>2, <4>3
    <3>3. QED
      BY <3>1, <3>2
  <2>3. \A a \in missed' : a < sending'
    BY <1>1, <1>2, <1>6, <1>7
  <2>4. QED
    BY <1>1, <2>1, <2>2, <2>3 DEF Ordered
<1>14. Complete'
  <2>1. ASSUME NEW a \in 1 .. sending' - 1 PROVE Told(a, Len(link))'
    <3>1. CASE a \in 1 .. sending - 1
      <4>1. Told(a, Len(link))
        BY <3>1 DEF Complete
      <4>2. missed \subseteq missed'
        BY <1>3
      <4>3. \A i \in 1 .. Len(link) : i \in 1 .. Len(link') /\ link'[i] = link[i]
        BY <1>4
      <4>4. QED
        BY <1>1, <4>1, <4>2, <4>3 DEF Told, Record
    <3>2. CASE a = sending
      BY <1>1, <1>4, <1>5, <3>2 DEF Told, Record
    <3>3. QED
      BY <1>1, <1>2, <3>1, <3>2
  <2>2. ASSUME NEW j \in 1 .. Len(link') PROVE ~(ScanReply(j)')
    <3>1. \A i \in 1 .. Len(link) : ~ScanReply(i)
      BY <1>2 DEF Complete
    <3>2. QED
      BY <1>3, <1>4, <3>1 DEF ScanReply
  <2>3. QED
    BY <2>1, <2>2 DEF Complete
<1>15. QED
  BY <1>9, <1>10, <1>13, <1>14

LEMMA KeepsReply ==
  ASSUME ScanInv, SendsReply
  PROVE  ScanInv'
<1> USE DEF ScanInv
<1> DEFINE f == Reply("WIFI_SCAN", TRUE, Len(band))
<1>1. /\ sending = Len(band) + 1 /\ sending' = 0
      /\ queue' = Tail(queue) /\ Sends(f)
      /\ UNCHANGED <<band, client, found, result, missed>>
  BY DEF SendsReply
<1>2. /\ band \in Seq(Nat) /\ Len(band) \in Nat /\ sending > 0
      /\ queue = <<"WIFI_SCAN">> /\ link \in Seq(Frames(Len(band)))
  BY <1>1 DEF ScanTypes, Asked
<1>3. /\ f \in Frames(Len(band)) /\ f.is = "CONTROL_REPLY" /\ f.command = "WIFI_SCAN"
      /\ f.value = Len(band)
  BY <1>2 DEF Reply, Frames
<1> HIDE DEF f
<1>4. /\ link' \in Seq(Frames(Len(band))) /\ Len(link) \in Nat /\ Len(link') \in Nat
      /\ Len(link') >= Len(link)
      /\ \A i \in 1 .. Len(link) : link'[i] = link[i]
      /\ \A i \in 1 .. Len(link') :
           i \notin 1 .. Len(link) => i = Len(link) + 1 /\ link'[i] = f
  BY <1>1, <1>2, <1>3, LinkGrows
<1>5. queue' = <<>> /\ client \notin {"ready", "settling"}
  BY <1>1, <1>2, QueueIs DEF Asked
<1>6. ScanTypes'
  BY <1>1, <1>2, <1>4, <1>5 DEF ScanTypes
<1>7. Asked' /\ Unbegun'
  BY <1>1, <1>5 DEF Asked, Unbegun
<1>8. Ordered'
  <2>1. \A i \in 1 .. Len(found) :
          (\A j \in 1 .. i - 1 : found[j] < found[i]) /\ found[i] \notin missed
    BY DEF Ordered
  <2>2. ASSUME NEW j \in 1 .. Len(link'), link'[j].is = "AP_RECORD"
        PROVE  /\ \A i \in 1 .. Len(found) : found[i] < link'[j].ap
               /\ \A i \in 1 .. j - 1 :
                    link'[i].is = "AP_RECORD" => link'[i].ap < link'[j].ap
               /\ link'[j].reads => link'[j].ap \notin missed
    <3>1. j \in 1 .. Len(link)
      BY <1>3, <1>4, <2>2
    <3>2. link'[j] = link[j] /\ \A i \in 1 .. j - 1 : link'[i] = link[i]
      BY <1>4, <3>1
    <3>3. QED
      BY <2>2, <3>1, <3>2 DEF Ordered
  <2>3. QED
    BY <1>1, <2>1, <2>2 DEF Ordered
<1>9. Complete'
  <2>1. ASSUME NEW j \in 1 .. Len(link'), ScanReply(j)', (link[j].ok)'
        PROVE  /\ link'[j].value = Len(band)
               /\ \A a \in 1 .. Len(band) : Told(a, j)'
    <3>1. j \notin 1 .. Len(link)
      BY <1>2, <1>4, <2>1 DEF Complete, ScanReply
    <3>2. j = Len(link) + 1 /\ link'[j] = f
      BY <1>4, <3>1
    <3>3. ASSUME NEW a \in 1 .. Len(band) PROVE Told(a, j)'
      <4>1. Told(a, Len(link))
        BY <1>1, <1>2 DEF Complete
      <4>2. \A i \in 1 .. Len(link) : i \in 1 .. j /\ link'[i] = link[i]
        BY <1>4, <3>2
      <4>3. QED
        BY <1>1, <4>1, <4>2 DEF Told, Record
    <3>4. QED
      BY <1>3, <3>2, <3>3
  <2>2. QED
    BY <1>1, <1>2, <1>5, <2>1 DEF Complete
<1>10. Ended'
  BY <1>1, <1>2 DEF Ended
<1>11. QED
  BY <1>6, <1>7, <1>8, <1>9, <1>10

LEMMA KeepsOpens ==
  ASSUME ScanInv, Opens \/ Asks
  PROVE  ScanInv'
<1> USE DEF ScanInv
<1>1. /\ client \in {"ready", "settling"} /\ client' \in {"settling", "scanning"}
      /\ UNCHANGED <<band, sending, link, found, result, missed>>
      /\ queue \in {<<>>, <<"SET_RADIO">>} /\ sending = 0
  BY DEF Opens, Asks, Asked
<1>2. IF client' = "settling" THEN queue' = <<"SET_RADIO">>
      ELSE queue' \in {<<"WIFI_SCAN">>, <<"SET_RADIO", "WIFI_SCAN">>}
  BY <1>1, QueueIs DEF Opens, Asks
<1>3. ScanTypes'
  BY <1>1, <1>2 DEF ScanTypes
<1>4. Asked'
  BY <1>1, <1>2 DEF Asked
<1>5. Unbegun' /\ Ordered'
  BY <1>1 DEF Unbegun, Ordered
<1>6. Complete' /\ Ended'
  BY <1>1, <1>5 DEF Unbegun, Complete, Ended, ScanReply
<1>7. QED
  BY <1>3, <1>4, <1>5, <1>6

LEMMA KeepsSettles ==
  ASSUME ScanInv, Settles
  PROVE  ScanInv'
<1> USE DEF ScanInv
<1>1. /\ client = "settling" /\ link # <<>> /\ link' = Tail(link)
      /\ UNCHANGED <<band, client, queue, sending, found, result, missed>>
  BY DEF Settles
<1>2. /\ link \in Seq(Frames(Len(band))) /\ sending = 0
      /\ queue \in {<<>>, <<"SET_RADIO">>}
  BY <1>1 DEF ScanTypes, Asked
<1>3. /\ link' \in Seq(Frames(Len(band))) /\ Len(link') \in Nat
      /\ \A i \in 1 .. Len(link') : i + 1 \in 1 .. Len(link) /\ link'[i] = link[i + 1]
  BY <1>1, <1>2, LinkRead
<1>4. /\ found = <<>> /\ missed = {} /\ Len(found) = 0
      /\ \A j \in 1 .. Len(link) :
           link[j].is = "CONTROL_REPLY" /\ link[j].command = "SET_RADIO"
  BY <1>1, <1>2 DEF Unbegun
<1>5. \A j \in 1 .. Len(link') :
        link'[j].is = "CONTROL_REPLY" /\ link'[j].command = "SET_RADIO"
  BY <1>3, <1>4
<1>6. ScanTypes' /\ Asked'
  BY <1>1, <1>3 DEF ScanTypes, Asked
<1>7. Unbegun' /\ Ordered'
  BY <1>1, <1>2, <1>4, <1>5 DEF Unbegun, Ordered
<1>8. Complete' /\ Ended'
  BY <1>1, <1>2, <1>5 DEF Complete, Ended, ScanReply
<1>9. QED
  BY <1>6, <1>7, <1>8

LEMMA KeepsGivesUp ==
  ASSUME ScanInv, GivesUp
  PROVE  ScanInv'
<1> USE DEF ScanInv
<1>1. /\ client' = "done" /\ result' = "failed"
      /\ UNCHANGED <<band, queue, sending, link, found, missed>>
  BY DEF GivesUp
<1>2. ScanTypes' /\ Asked' /\ Ended'
  BY <1>1 DEF ScanTypes, Asked, Ended
<1>3. Unbegun'
  BY <1>1 DEF Unbegun
<1>4. Ordered'
  BY <1>1 DEF Ordered
<1>5. Complete'
  <2>1. \A a, n : Told(a, n)' = Told(a, n)
    BY <1>1 DEF Told
  <2>2. \A j : ScanReply(j)' = ScanReply(j)
    BY <1>1 DEF ScanReply
  <2>3. QED
    BY <1>1, <2>1, <2>2 DEF Complete
<1>6. QED
  BY <1>2, <1>3, <1>4, <1>5

\* scan_access_points reads a frame.
LEMMA KeepsGathers ==
  ASSUME ScanInv, Gathers
  PROVE  ScanInv'
<1> USE DEF ScanInv
<1> DEFINE f == link[1]
           n == Len(band)
<1>1. /\ client = "scanning" /\ link # <<>> /\ link' = Tail(link)
      /\ UNCHANGED <<band, queue, sending, missed>>
  BY DEF Gathers
<1>2. band \in Seq(Nat) /\ n \in Nat /\ link \in Seq(Frames(n)) /\ found \in Seq(1 .. n)
  BY DEF ScanTypes
<1>3. /\ link' \in Seq(Frames(n)) /\ Len(link) \in Nat /\ Len(link) >= 1
      /\ Len(link') = Len(link) - 1
      /\ \A i \in 1 .. Len(link') : i + 1 \in 1 .. Len(link) /\ link'[i] = link[i + 1]
      /\ Head(link) = f /\ f \in Frames(n)
      /\ \A i \in 2 .. Len(link) : i - 1 \in 1 .. Len(link')
  BY <1>1, <1>2, LinkRead
<1>4. 1 \in 1 .. Len(link) /\ Len(link') \in Nat /\ Len(found) \in Nat
  BY <1>2, <1>3
<1>5. /\ f.is \in {"AP_RECORD", "CONTROL_REPLY"}
      /\ f.is = "AP_RECORD" => f.ap \in 1 .. n /\ f.reads \in BOOLEAN
      /\ f.is = "AP_RECORD" /\ f.reads => f = Record(f.ap, TRUE)
      /\ f.is = "CONTROL_REPLY" => f.ok \in BOOLEAN
  BY <1>3, FramesAre
<1>6. \A j \in 1 .. Len(link') : link'[j].is = "AP_RECORD" =>
        /\ \A i \in 1 .. Len(found) : found[i] < link'[j].ap
        /\ \A i \in 1 .. j - 1 : link'[i].is = "AP_RECORD" => link'[i].ap < link'[j].ap
        /\ f.is = "AP_RECORD" => f.ap < link'[j].ap
        /\ link'[j].reads => link'[j].ap \notin missed
        /\ sending > 0 => link'[j].ap < sending
  <2> SUFFICES ASSUME NEW j \in 1 .. Len(link'), link'[j].is = "AP_RECORD"
               PROVE  /\ \A i \in 1 .. Len(found) : found[i] < link'[j].ap
                      /\ \A i \in 1 .. j - 1 :
                           link'[i].is = "AP_RECORD" => link'[i].ap < link'[j].ap
                      /\ f.is = "AP_RECORD" => f.ap < link'[j].ap
                      /\ link'[j].reads => link'[j].ap \notin missed
                      /\ sending > 0 => link'[j].ap < sending
    OBVIOUS
  <2>1. j + 1 \in 1 .. Len(link) /\ link'[j] = link[j + 1] /\ 1 \in 1 .. (j + 1) - 1
    BY <1>3, <1>4
  <2>2. ASSUME NEW i \in 1 .. j - 1
        PROVE  i + 1 \in 1 .. (j + 1) - 1 /\ link'[i] = link[i + 1]
    <3>1. i \in 1 .. Len(link')
      BY <1>4
    <3>2. QED
      BY <1>3, <3>1
  <2>3. LET g == link[j + 1] IN
        /\ \A i \in 1 .. Len(found) : found[i] < g.ap
        /\ \A i \in 1 .. (j + 1) - 1 : link[i].is = "AP_RECORD" => link[i].ap < g.ap
        /\ g.reads => g.ap \notin missed
        /\ sending > 0 => g.ap < sending
    BY <2>1 DEF Ordered
  <2>4. QED
    BY ONLY <2>1, <2>2, <2>3
<1>7. CASE f.is = "AP_RECORD" /\ f.reads
  <2>1. found' = Append(found, f.ap) /\ UNCHANGED <<client, result>>
    BY <1>1, <1>3, <1>7 DEF Gathers, IsScanReply
  <2>2. /\ found' \in Seq(1 .. n) /\ Len(found') = Len(found) + 1
        /\ \A i \in 1 .. Len(found) : found'[i] = found[i]
        /\ found'[Len(found) + 1] = f.ap
    <3>1. f.ap \in 1 .. n
      BY <1>5, <1>7
    <3>2. QED
      BY <1>2, <2>1, <3>1, AppendProperties
  <2>3. /\ \A i \in 1 .. Len(found) : found[i] < f.ap
        /\ f.ap \notin missed /\ (sending > 0 => f.ap < sending)
    BY <1>4, <1>7 DEF Ordered
  <2>4. \A i \in 1 .. Len(found') : i \in 1 .. Len(found) \/ i = Len(found) + 1
    BY <1>4, <2>2
  <2>5. \A i \in 1 .. Len(found') :
          /\ \A j \in 1 .. i - 1 : found'[j] < found'[i]
          /\ found'[i] \notin missed
          /\ sending > 0 => found'[i] < sending
    <3> SUFFICES ASSUME NEW i \in 1 .. Len(found')
                 PROVE  /\ \A j \in 1 .. i - 1 : found'[j] < found'[i]
                        /\ found'[i] \notin missed
                        /\ sending > 0 => found'[i] < sending
      OBVIOUS
    <3>1. \A j \in 1 .. i - 1 : j \in 1 .. Len(found)
      BY <1>4, <2>4
    <3>2. CASE i \in 1 .. Len(found)
      BY <2>2, <3>1, <3>2 DEF Ordered
    <3>3. CASE i = Len(found) + 1
      BY <2>2, <2>3, <3>1, <3>3
    <3>4. QED
      BY <2>4, <3>2, <3>3
  <2>6. \A j \in 1 .. Len(link') : link'[j].is = "AP_RECORD" =>
          \A i \in 1 .. Len(found') : found'[i] < link'[j].ap
    BY <1>6, <1>7, <2>2, <2>4
  <2>7. Ordered'
    <3>1. sending > 0 => \A a \in missed : a < sending
      BY DEF Ordered
    <3>2. QED
      BY <1>1, <1>6, <2>5, <2>6, <3>1 DEF Ordered
  <2>8. ASSUME NEW a, NEW k \in 1 .. Len(link), Told(a, k)
        PROVE  Told(a, k - 1)'
    <3>1. CASE a \in missed
      BY <1>1, <3>1 DEF Told
    <3>2. CASE \E i \in 1 .. Len(found) : found[i] = a
      <4>1. PICK i \in 1 .. Len(found) : found[i] = a
        BY <3>2
      <4>2. i \in 1 .. Len(found') /\ found'[i] = a
        BY <1>4, <2>2, <4>1
      <4>3. QED
        BY <4>2 DEF Told
    <3>3. CASE \E i \in 1 .. k : link[i] = Record(a, TRUE)
      <4>1. PICK i \in 1 .. k : link[i] = Record(a, TRUE)
        BY <3>3
      <4>2. CASE i = 1
        <5>1. f.ap = a
          BY <4>1, <4>2 DEF Record
        <5>2. Len(found) + 1 \in 1 .. Len(found')
          BY <1>4, <2>2
        <5>3. QED
          BY <2>2, <5>1, <5>2 DEF Told
      <4>3. CASE i # 1
        <5>1. i - 1 \in 1 .. k - 1 /\ i - 1 \in 1 .. Len(link') /\ link'[i - 1] = link[i]
          BY <1>3, <4>3
        <5>2. QED
          BY <4>1, <5>1 DEF Told, Record
      <4>4. QED
        BY <4>2, <4>3
    <3>4. QED
      BY <2>8, <3>1, <3>2, <3>3 DEF Told
  <2>9. Complete'
    <3>1. ASSUME NEW a \in 1 .. sending' - 1 PROVE Told(a, Len(link))'
      <4>1. PICK k \in 1 .. Len(link) : k = Len(link)
        BY <1>3, <1>4
      <4>2. Told(a, k)
        BY <1>1, <4>1 DEF Complete
      <4>3. Told(a, k - 1)'
        BY <4>2, <2>8
      <4>4. k - 1 = Len(link')
        BY <1>3, <4>1
      <4>5. QED
        BY <4>3, <4>4 DEF Told
    <3>2. ASSUME NEW j \in 1 .. Len(link'), ScanReply(j)'
          PROVE  /\ sending' = 0 /\ queue' = <<>>
                 /\ link'[j].ok =>
                      link'[j].value = n /\ \A a \in 1 .. n : Told(a, j)'
      <4>1. j + 1 \in 1 .. Len(link) /\ link'[j] = link[j + 1] /\ j \in Int
        BY <1>3, <1>4
      <4>2. ScanReply(j + 1)
        BY <3>2, <4>1 DEF ScanReply
      <4>3. /\ sending = 0 /\ queue = <<>>
            /\ link[j + 1].ok =>
                 link[j + 1].value = n /\ \A a \in 1 .. n : Told(a, j + 1)
        BY <4>1, <4>2 DEF Complete
      <4>4. \A a \in 1 .. n : Told(a, j + 1) => Told(a, (j + 1) - 1)'
        BY <4>1, <2>8
      <4>5. (j + 1) - 1 = j
        BY <4>1
      <4>6. QED
        BY <1>1, <4>1, <4>3, <4>4, <4>5
    <3>3. QED
      BY <1>1, <3>1, <3>2 DEF Complete
  <2>10. ScanTypes' /\ Asked' /\ Unbegun' /\ Ended'
    <3>1. ~(sending = 0 /\ (client' \in {"ready", "settling"} \/ queue # <<>>))
      BY <1>1, <1>4, <1>7, <2>1 DEF Unbegun
    <3>2. QED
      BY <1>1, <1>3, <2>1, <2>2, <3>1 DEF ScanTypes, Asked, Unbegun, Ended
  <2>11. QED
    BY <2>7, <2>9, <2>10
<1>8. CASE ~(f.is = "AP_RECORD" /\ f.reads)
  <2>1. found' = found
    BY <1>3, <1>8 DEF Gathers, IsScanReply
  <2>2. /\ ~(f.is = "CONTROL_REPLY" /\ f.command = "WIFI_SCAN") => UNCHANGED <<client, result>>
        /\ f.is = "CONTROL_REPLY" /\ f.command = "WIFI_SCAN" =>
             client' = "done" /\ result' = ScanResult(found, f)
    BY <1>3 DEF Gathers, IsScanReply
  <2>3. Ordered'
    <3>1. /\ sending > 0 => \A a \in missed : a < sending
          /\ \A i \in 1 .. Len(found) :
               /\ \A j \in 1 .. i - 1 : found[j] < found[i]
               /\ found[i] \notin missed
               /\ sending > 0 => found[i] < sending
      BY DEF Ordered
    <3>2. QED
      BY <1>1, <1>6, <2>1, <3>1 DEF Ordered
  <2>4. ASSUME NEW a, NEW k \in 1 .. Len(link), Told(a, k)
        PROVE  Told(a, k - 1)'
    <3>1. CASE a \in missed \/ \E i \in 1 .. Len(found) : found[i] = a
      BY <1>1, <2>1, <3>1 DEF Told
    <3>2. CASE \E i \in 1 .. k : link[i] = Record(a, TRUE)
      <4>1. PICK i \in 1 .. k : link[i] = Record(a, TRUE)
        BY <3>2
      <4>2. i # 1
        BY <1>8, <4>1 DEF Record
      <4>3. i - 1 \in 1 .. k - 1 /\ i - 1 \in 1 .. Len(link') /\ link'[i - 1] = link[i]
        BY <1>3, <4>2
      <4>4. QED
        BY <4>1, <4>3 DEF Told, Record
    <3>3. QED
      BY <2>4, <3>1, <3>2 DEF Told
  <2>5. Complete'
    <3>1. ASSUME NEW a \in 1 .. sending' - 1 PROVE Told(a, Len(link))'
      <4>1. PICK k \in 1 .. Len(link) : k = Len(link)
        BY <1>3, <1>4
      <4>2. Told(a, k)
        BY <1>1, <4>1 DEF Complete
      <4>3. Told(a, k - 1)'
        BY <4>2, <2>4
      <4>4. k - 1 = Len(link')
        BY <1>3, <4>1
      <4>5. QED
        BY <4>3, <4>4 DEF Told
    <3>2. ASSUME NEW j \in 1 .. Len(link'), ScanReply(j)'
          PROVE  /\ sending' = 0 /\ queue' = <<>>
                 /\ link'[j].ok =>
                      link'[j].value = n /\ \A a \in 1 .. n : Told(a, j)'
      <4>1. j + 1 \in 1 .. Len(link) /\ link'[j] = link[j + 1] /\ j \in Int
        BY <1>3, <1>4
      <4>2. ScanReply(j + 1)
        BY <3>2, <4>1 DEF ScanReply
      <4>3. /\ sending = 0 /\ queue = <<>>
            /\ link[j + 1].ok =>
                 link[j + 1].value = n /\ \A a \in 1 .. n : Told(a, j + 1)
        BY <4>1, <4>2 DEF Complete
      <4>4. \A a \in 1 .. n : Told(a, j + 1) => Told(a, (j + 1) - 1)'
        BY <4>1, <2>4
      <4>5. (j + 1) - 1 = j
        BY <4>1
      <4>6. QED
        BY <1>1, <4>1, <4>3, <4>4, <4>5
    <3>3. QED
      BY <1>1, <3>1, <3>2 DEF Complete
  <2>6. Ended'
    <3>1. CASE f.is = "CONTROL_REPLY" /\ f.command = "WIFI_SCAN"
      <4> SUFFICES ASSUME result' # "failed"
                   PROVE  /\ sending = 0 /\ queue = <<>>
                          /\ \A a \in 1 .. n : Told(a, 0)'
                          /\ result' = IF Len(found) < n THEN "short" ELSE "whole"
        BY <1>1, <2>1 DEF Ended
      <4>1. f.ok /\ result' = IF Len(found) < f.value THEN "short" ELSE "whole"
        <5>1. result' = ScanResult(found, f) /\ f.ok \in BOOLEAN
          BY <1>5, <2>2, <3>1
        <5>2. CASE f.ok
          BY <5>1, <5>2 DEF ScanResult
        <5>3. CASE ~f.ok
          BY <5>1, <5>3 DEF ScanResult
        <5>4. QED
          BY <5>2, <5>3
      <4>2. /\ sending = 0 /\ queue = <<>>
            /\ f.value = n /\ \A a \in 1 .. n : Told(a, 1)
        BY <1>4, <3>1, <4>1 DEF Complete, ScanReply
      <4>3. \A a \in 1 .. n : Told(a, 1 - 1)'
        BY <1>4, <2>4, <4>2
      <4>4. QED
        BY <4>1, <4>2, <4>3
    <3>2. CASE ~(f.is = "CONTROL_REPLY" /\ f.command = "WIFI_SCAN")
      BY <1>1, <2>2, <3>2 DEF Ended
    <3>3. QED
      BY <3>1, <3>2
  <2>7. ScanTypes' /\ Asked'
    BY <1>1, <1>3, <2>1, <2>2 DEF ScanTypes, Asked
  <2>8. Unbegun'
    <3>1. client' \notin {"ready", "settling"}
      BY <1>1, <2>2
    <3>2. CASE sending = 0 /\ queue # <<>>
      <4>1. /\ found = <<>> /\ missed = {}
            /\ \A j \in 1 .. Len(link) :
                 link[j].is = "CONTROL_REPLY" /\ link[j].command = "SET_RADIO"
        BY <3>2 DEF Unbegun
      <4>2. QED
        BY <1>1, <1>3, <2>1, <4>1 DEF Unbegun
    <3>3. QED
      BY <1>1, <3>1, <3>2 DEF Unbegun
  <2>9. QED
    BY <2>3, <2>5, <2>6, <2>7, <2>8
<1>9. QED
  BY <1>7, <1>8

LEMMA ScanKept ==
  ASSUME ScanInv, [ScanNext]_bvars
  PROVE  ScanInv'
<1>1. CASE UNCHANGED bvars
  <2>1. UNCHANGED <<band, client, queue, sending, link, found, result, missed>>
    BY <1>1 DEF bvars
  <2>2. ScanTypes' /\ Asked' /\ Unbegun'
    BY <2>1 DEF ScanInv, ScanTypes, Asked, Unbegun
  <2>3. Ordered'
    BY <2>1 DEF ScanInv, Ordered
  <2>4. \A a, n : Told(a, n)' = Told(a, n)
    BY <2>1 DEF Told
  <2>5. \A j : ScanReply(j)' = ScanReply(j)
    BY <2>1 DEF ScanReply
  <2>6. Complete' /\ Ended'
    BY <2>1, <2>4, <2>5 DEF ScanInv, Complete, Ended
  <2>7. QED
    BY <2>2, <2>3, <2>6 DEF ScanInv
<1>2. CASE ScanNext
  BY <1>2, KeepsSelects, KeepsSweeps, KeepsRecord, KeepsReply, KeepsOpens,
     KeepsSettles, KeepsGathers, KeepsGivesUp DEF ScanNext
<1>3. QED
  BY <1>1, <1>2

-----------------------------------------------------------------------------
\* The access points found on a channel, and all there are on it.
OnChannel(aps, c) == {i \in 1 .. Len(aps) : band[aps[i]] = c}

LEMMA BusiestIs ==
  ASSUME NEW aps, NEW c \in Channels
  PROVE  BusiestChannels(aps)[c] = Cardinality(OnChannel(aps, c))
  BY DEF BusiestChannels, OnChannel

LEMMA BandIs ==
  ASSUME ScanTypes
  PROVE  /\ Len(band) \in Nat /\ Len(Band) = Len(band)
         /\ \A a \in 1 .. Len(band) : Band[a] = a
<1>1. Len(band) \in Nat
  BY DEF ScanTypes
<1>2. QED
  BY <1>1 DEF Band

\* What is found is some of the band, each access point once.
LEMMA FoundOnce ==
  ASSUME ScanTypes, Ordered
  PROVE  /\ found \in Injection(1 .. Len(found), (1 .. Len(band)) \ missed)
         /\ Len(found) \in Nat
<1>1. /\ Len(found) \in Nat /\ found \in [1 .. Len(found) -> 1 .. Len(band)]
      /\ DOMAIN found = 1 .. Len(found)
  BY DEF ScanTypes
<1>2. \A i \in 1 .. Len(found) : found[i] \notin missed /\ found[i] \in Int
  BY <1>1 DEF Ordered
<1>3. found \in [1 .. Len(found) -> (1 .. Len(band)) \ missed]
  BY <1>1, <1>2
<1>4. ASSUME NEW i \in 1 .. Len(found), NEW j \in 1 .. Len(found), found[i] = found[j]
      PROVE  i = j
  <2>1. CASE i < j
    <3>1. i \in 1 .. j - 1
      BY <1>1, <2>1
    <3>2. found[i] < found[j]
      BY <3>1 DEF Ordered
    <3>3. QED
      BY <1>2, <1>4, <3>2
  <2>2. CASE j < i
    <3>1. j \in 1 .. i - 1
      BY <1>1, <2>2
    <3>2. found[j] < found[i]
      BY <3>1 DEF Ordered
    <3>3. QED
      BY <1>2, <1>4, <3>2
  <2>3. QED
    BY <1>1, <2>1, <2>2
<1>5. IsInjective(found)
  BY <1>1, <1>4 DEF IsInjective
<1>6. QED
  BY <1>1, <1>3, <1>5 DEF Injection

\* On no channel are there more than the band has.
LEMMA NoMore ==
  ASSUME ScanTypes, Ordered, NEW c
  PROVE  /\ IsFiniteSet(OnChannel(found, c)) /\ IsFiniteSet(OnChannel(Band, c))
         /\ Cardinality(OnChannel(found, c)) <= Cardinality(OnChannel(Band, c))
         /\ (\A a \in 1 .. Len(band) : \E i \in 1 .. Len(found) : found[i] = a) =>
              Cardinality(OnChannel(found, c)) = Cardinality(OnChannel(Band, c))
<1> DEFINE S == OnChannel(found, c)
           T == OnChannel(Band, c)
           g == [i \in S |-> found[i]]
<1>1. found \in Injection(1 .. Len(found), (1 .. Len(band)) \ missed) /\ Len(found) \in Nat
  BY FoundOnce
<1>2. S \subseteq 1 .. Len(found) /\ \A i \in S : band[found[i]] = c
  BY DEF OnChannel
<1>3. T = {a \in 1 .. Len(band) : band[a] = c}
  BY BandIs DEF OnChannel
<1>4. IsFiniteSet(1 .. Len(band)) /\ T \in SUBSET (1 .. Len(band))
  BY <1>3, BandIs, FS_Interval
<1>5. IsFiniteSet(T)
  BY <1>4, FS_Subset
<1>6. \A i \in 1 .. Len(found) : found[i] \in 1 .. Len(band)
  BY <1>1 DEF Injection
<1>7. \A i \in S : found[i] \in T
  BY <1>2, <1>3, <1>6
<1>8. \A i, j \in S : found[i] = found[j] => i = j
  BY <1>1, <1>2 DEF Injection, IsInjective
<1>9. \A t \in T : \A i \in 1 .. Len(found) : found[i] = t => i \in S
  BY <1>3 DEF OnChannel
<1> HIDE DEF S, T
<1>10. g \in [S -> T] /\ IsInjective(g)
  BY <1>7, <1>8 DEF IsInjective
<1> HIDE DEF g
<1>11. g \in Injection(S, T)
  BY <1>10 DEF Injection
<1>12. /\ IsFiniteSet(S) /\ Cardinality(S) <= Cardinality(T)
       /\ Cardinality(S) = Cardinality(T) <=> g \in Surjection(S, T)
  BY <1>5, <1>11, FS_Injection
<1>13. ASSUME \A a \in 1 .. Len(band) : \E i \in 1 .. Len(found) : found[i] = a
       PROVE  g \in Surjection(S, T)
  <2>1. \A t \in T : \E i \in S : found[i] = t
    BY <1>4, <1>9, <1>13
  <2>2. \A t \in T : \E i \in S : g[i] = t
    BY <2>1 DEF g
  <2>3. QED
    BY <1>10, <2>2 DEF Surjection
<1>14. QED
  BY <1>5, <1>12, <1>13 DEF S, T

\* The scan is short exactly when a record was missed.
LEMMA ShortIs ==
  ASSUME ScanTypes, Ordered, \A a \in 1 .. Len(band) : Told(a, 0)
  PROVE  /\ Len(found) < Len(band) <=> missed # {}
         /\ missed = {} => \A a \in 1 .. Len(band) : \E i \in 1 .. Len(found) : found[i] = a
<1> DEFINE S == 1 .. Len(found)
           T == (1 .. Len(band)) \ missed
<1>1. found \in Injection(S, T) /\ Len(found) \in Nat /\ Len(band) \in Nat
  BY FoundOnce, BandIs
<1>2. /\ IsFiniteSet(1 .. Len(band)) /\ Cardinality(1 .. Len(band)) = Len(band)
      /\ IsFiniteSet(S) /\ Cardinality(S) = Len(found)
  <2>1. ASSUME NEW n \in Nat
        PROVE  IsFiniteSet(1 .. n) /\ Cardinality(1 .. n) = n
    <3>1. 1 \in Int /\ n \in Int
      OBVIOUS
    <3>2. IsFiniteSet(1 .. n) /\ Cardinality(1 .. n) = IF 1 > n THEN 0 ELSE n - 1 + 1
      BY <3>1, FS_Interval
    <3>3. QED
      BY <3>2
  <2>2. QED
    BY <1>1, <2>1
<1>3. \A a \in T : \E i \in S : found[i] = a
  BY DEF Told
<1>4. missed \in SUBSET (1 .. Len(band))
  BY DEF ScanTypes
<1>5. IsFiniteSet(T)
  BY <1>2, FS_Subset
<1> HIDE DEF S
<1>6. found \in Surjection(S, T)
  BY <1>1, <1>3 DEF Injection, Surjection
<1>7. Cardinality(S) = Cardinality(T)
  BY <1>1, <1>5, <1>6, FS_Injection
<1>8. CASE missed = {}
  BY <1>1, <1>2, <1>3, <1>7, <1>8 DEF S
<1>9. CASE missed # {}
  <2>1. T # 1 .. Len(band) /\ T \in SUBSET (1 .. Len(band))
    BY <1>4, <1>9
  <2>2. Cardinality(T) <= Len(band) /\ Cardinality(T) # Len(band)
    BY <1>2, <2>1, FS_Subset
  <2>3. QED
    BY <1>1, <1>2, <1>7, <1>9, <2>2
<1>10. QED
  BY <1>8, <1>9

LEMMA InvLabels == ScanInv => LabelsTellTheBand
<1> SUFFICES ASSUME ScanInv, client = "done", result # "failed", NEW c \in Channels
             PROVE  LET label == ScannedChannelLabels[c] IN
                    label.failed \/
                      /\ label.networks <= BusiestChannels(Band)[c]
                      /\ label.more <=> missed # {}
                      /\ ~label.more => label.networks = BusiestChannels(Band)[c]
  <2>1. result = "failed" => \A c \in Channels : ScannedChannelLabels[c].failed
    BY DEF ScannedChannelLabels
  <2>2. QED
    BY <2>1 DEF LabelsTellTheBand
<1> USE DEF ScanInv
<1> DEFINE label == ScannedChannelLabels[c]
<1>1. label = [networks |-> BusiestChannels(found)[c], more |-> result = "short",
               failed |-> FALSE]
  BY DEF ScannedChannelLabels
<1>2. /\ label.networks = BusiestChannels(found)[c]
      /\ label.more <=> result = "short"
  <2> HIDE DEF label
  <2>1. QED
    BY <1>1
<1>3. /\ \A a \in 1 .. Len(band) : Told(a, 0)
      /\ result = IF Len(found) < Len(band) THEN "short" ELSE "whole"
  BY DEF Ended
<1>4. label.more <=> missed # {}
  BY <1>2, <1>3, ShortIs
<1>5. BusiestChannels(found)[c] <= BusiestChannels(Band)[c]
  BY BusiestIs, NoMore
<1>6. missed = {} => BusiestChannels(found)[c] = BusiestChannels(Band)[c]
  BY <1>3, BusiestIs, NoMore, ShortIs
<1> HIDE DEF label
<1>7. QED
  BY <1>2, <1>4, <1>5, <1>6 DEF label

(* A label never counts more networks than are on its channel, and says    *)
(* there may be more exactly when a record was missed: what scan_band      *)
(* gathers from the board's records and reply, and what the dialog makes   *)
(* of it.                                                                  *)
THEOREM LabelsAreTrue == ScanSpec => []LabelsTellTheBand
<1>1. ScanSpec => []ScanInv
  BY ScanStarts, ScanKept, PTL DEF ScanSpec
<1>2. QED
  BY <1>1, InvLabels, PTL

-----------------------------------------------------------------------------
(* The installed keys, for any commands, profiles and tables of the user's *)
(* own: what a command has been through is settled, and stays so.          *)

TablesSpec == TablesInit(Users) /\ [][TablesNext]_kvars

Tables == {"keys", "addresses", "zigbee"}
Dirs == {"root"} \cup Profiles

\* The table a command is at, and what it would have it be.
AtTable(c, j) == <<Installs(c)[j.part].table, j.todo[1]>>
Text(c, j) == j.found \cup Missing(Installs(c)[j.part], j.found)

\* A table somebody has emptied and is about to write.
Filling(c, j, t) == j.at = "fill" /\ AtTable(c, j) = t
Busy(jb, t) == \E x \in Commands : Filling(x, jb[x], t)

\* What a table has, has lost, or is about to have again.  It only grows.
Kept(tb, rc, jb) ==
  [t \in Tables \X Dirs |->
     tb[t] \cup rc[t]
       \cup UNION {Text(x, jb[x]) : x \in {y \in Commands : Filling(y, jb[y], t)}}]

\* No table has less.
NoLess(h, h2) == \A t \in Tables \X Dirs : h[t] \subseteq h2[t]

\* What tables had is still there, or lost, or about to be written by a command.
StillThere(tb, rc, tb2, rc2, c, j) ==
  \A t \in Tables \X Dirs : \A l \in tb[t] \cup rc[t] :
    \/ l \in tb2[t] \/ l \in rc2[t]
    \/ Filling(c, j, t) /\ l \in Text(c, j)

\* What a command was about to write is there, or lost.
TextStays(tb2, rc2, c, j) ==
  \A t \in Tables \X Dirs : Filling(c, j, t) => Text(c, j) \subseteq tb2[t] \cup rc2[t]

\* Nothing of an install is missing from a table.
Settled(h, part, d) == Missing(part, h[<<part.table, d>>]) = {}

\* A command, its state and the directories it went through.
Command(c, j, went) ==
  /\ j = [at |-> j.at, part |-> j.part, todo |-> j.todo, found |-> j.found]
  /\ j.at \in {"idle", "read", "again", "write", "fill", "done"}
  /\ j.part \in Nat /\ j.todo \in Seq(Dirs)
  /\ went \in Seq(SUBSET Dirs)

\* At work, it is at a table of a part whose directories it has looked up.
AtWork(c, j, went) ==
  /\ j.at # "idle" => j.part \in 1 .. Len(Installs(c)) /\ Len(went) = j.part
  /\ j.at \in {"read", "again", "write", "fill"} => j.todo # <<>>
  /\ j.at = "done" => j.part = Len(Installs(c))

\* All it has been through is settled, and what it has not is still to do.
Through(c, j, went, h) ==
  j.at # "idle" =>
    /\ \A i \in 1 .. j.part - 1 : \A d \in went[i] : Settled(h, Installs(c)[i], d)
    /\ \A d \in went[j.part] :
         \/ Settled(h, Installs(c)[j.part], d)
         \/ j.at # "done" /\ \E k \in 1 .. Len(j.todo) : j.todo[k] = d

\* What it is about to write has all of the user's own, unless it read the
\* table while another was writing it.
Careful(c, j, tn) ==
  j.at \in {"write", "fill"} /\ AtTable(c, j) \notin tn
    => mine[AtTable(c, j)] \subseteq j.found

\* A table nobody is writing, and nobody has torn, has all of the user's own.
Safe(tb, jb, tn) ==
  \A t \in Tables \X Dirs : t \in tn \/ Busy(jb, t) \/ mine[t] \subseteq tb[t]

KeyInv ==
  /\ DOMAIN tables = Tables \X Dirs /\ DOMAIN raced = Tables \X Dirs
  /\ DOMAIN job = Commands
  /\ paths \in [Commands -> Seq(SUBSET Dirs)]
  /\ profiles \in SUBSET Profiles
  /\ Safe(tables, job, torn)
  /\ \A c \in Commands :
       /\ Command(c, job[c], paths[c]) /\ AtWork(c, job[c], paths[c])
       /\ Through(c, job[c], paths[c], Kept(tables, raced, job))
       /\ Careful(c, job[c], torn)

\* What a part of a command may be.
Installable(p) ==
  p.table \in Tables /\ (p.table = "zigbee" => p.lines = {DefaultZigbeeKey})

\* One part, or none.
LEMMA One ==
  ASSUME NEW S, NEW p \in S
  PROVE  {<<>>, <<p>>} \subseteq Seq(S)
  OBVIOUS

LEMMA InstallsAre ==
  ASSUME NEW c \in Commands
  PROVE  /\ Len(Installs(c)) \in Nat
         /\ Installs(c) # <<>> => 1 \in 1 .. Len(Installs(c))
         /\ \A i \in 1 .. Len(Installs(c)) : Installable(Installs(c)[i])
<1>1. \E S : Installs(c) \in Seq(S) /\ \A r \in S : Installable(r)
  <2>1. CASE c.tool = "capture"
    <3>1. PICK l : Capture(c) = Into("keys", l)
      BY DEF Capture
    <3> DEFINE p == [table |-> "keys", lines |-> l]
               S == {p}
    <3>2. Into("keys", l) \in {<<>>, <<p>>}
      BY DEF Into
    <3>3. \A r \in S : Installable(r)
      BY DEF Installable, Tables
    <3>4. Installs(c) = Into("keys", l)
      BY <2>1, <3>1 DEF Installs
    <3>5. p \in S
      OBVIOUS
    <3> HIDE DEF S, p
    <3>6. Installs(c) \in Seq(S)
      BY <3>2, <3>4, <3>5, One
    <3>7. QED
      BY <3>3, <3>6
  <2>2. CASE c.tool = "thread_key"
    <3>1. PICK a, k : ThreadKey(c) \in {<<>>, Into("addresses", a) \o Into("keys", k)}
      BY DEF ThreadKey
    <3> DEFINE p == [table |-> "addresses", lines |-> a]
               q == [table |-> "keys", lines |-> k]
               S == {p, q}
               x == Into("addresses", a)
               y == Into("keys", k)
    <3>2. x \in {<<>>, <<p>>} /\ y \in {<<>>, <<q>>}
      BY DEF Into
    <3>3. \A r \in S : Installable(r)
      BY DEF Installable, Tables
    <3>4. Installs(c) \in {<<>>, Into("addresses", a) \o Into("keys", k)}
      BY <2>2, <3>1 DEF Installs
    <3>5. p \in S /\ q \in S
      OBVIOUS
    <3> HIDE DEF S, p, q, x, y
    <3>6. x \in Seq(S) /\ y \in Seq(S) /\ <<>> \in Seq(S)
      BY <3>2, <3>5, One
    <3>7. x \o y \in Seq(S)
      BY <3>6, ConcatProperties
    <3>8. Installs(c) \in {<<>>, x \o y}
      BY <3>4 DEF x, y
    <3>9. Installs(c) \in Seq(S)
      BY <3>6, <3>7, <3>8
    <3>10. QED
      BY <3>3, <3>9
  <2>3. CASE c.tool = "zigbee_key"
    <3>1. PICK l \in {{}, {DefaultZigbeeKey}} : ZigbeeKey(c) = Into("zigbee", l)
      BY DEF ZigbeeKey
    <3>2. CASE l = {}
      <4>1. Installs(c) = <<>>
        BY <2>3, <3>1, <3>2 DEF Installs, Into
      <4>2. Installs(c) \in Seq({}) /\ \A r \in {} : Installable(r)
        BY <4>1
      <4>3. QED
        BY <4>2
    <3>3. CASE l = {DefaultZigbeeKey}
      <4> DEFINE S == {[table |-> "zigbee", lines |-> l]}
      <4>1. Into("zigbee", l) \in Seq(S)
        BY DEF Into
      <4>2. \A r \in S : Installable(r)
        BY <3>3 DEF Installable, Tables
      <4>3. Installs(c) = Into("zigbee", l)
        BY <2>3, <3>1 DEF Installs
      <4> HIDE DEF S
      <4>4. QED
        BY <4>1, <4>2, <4>3
    <3>4. QED
      BY <3>1, <3>2, <3>3
  <2>4. QED
    BY <2>1, <2>2, <2>3, CommandsAssumption
<1>2. QED
  BY <1>1

\* Every directory there is is looked up.
LEMMA PathsAre ==
  ASSUME profiles \in SUBSET Profiles
  PROVE  /\ TablePaths \in Seq(Dirs) /\ TablePaths # <<>>
         /\ \A d \in {"root"} \cup profiles :
              \E k \in 1 .. Len(TablePaths) : TablePaths[k] = d
<1> DEFINE n == Cardinality(profiles)
           q == SetToSeq(profiles)
           r == <<"root">>
<1>1. IsFiniteSet(profiles)
  BY ProfilesAssumption, FS_Subset
<1>2. n \in Nat /\ ExistsBijection(1 .. n, profiles)
  BY <1>1, FS_CardinalityType
<1>3. \E f \in [1 .. n -> profiles] : IsInjective(f)
  BY <1>2 DEF ExistsBijection, Bijection, Injection
<1>4. q \in [1 .. n -> profiles] /\ IsInjective(q)
  BY <1>3 DEF SetToSeq
<1>5. IsFiniteSet(1 .. n) /\ Cardinality(1 .. n) = n
  <2>1. 1 \in Int /\ n \in Int
    BY <1>2
  <2>2. IsFiniteSet(1 .. n) /\ Cardinality(1 .. n) = IF 1 > n THEN 0 ELSE n - 1 + 1
    BY <2>1, FS_Interval
  <2> HIDE DEF n
  <2>3. QED
    BY <1>2, <2>2
<1> HIDE DEF q
<1>6. q \in Injection(1 .. n, profiles)
  BY <1>4 DEF Injection
<1>7. q \in Surjection(1 .. n, profiles)
  BY <1>1, <1>5, <1>6, FS_Injection
<1>8. \A d \in profiles : \E k \in 1 .. n : q[k] = d
  BY <1>7 DEF Surjection
<1> HIDE DEF n
<1>9. q \in Seq(Dirs) /\ Len(q) = n
  BY <1>2, <1>4 DEF Dirs
<1>10. r \in Seq(Dirs) /\ Len(r) = 1 /\ r[1] = "root"
  BY DEF Dirs
<1> HIDE DEF r
<1>11. /\ r \o q \in Seq(Dirs) /\ Len(r \o q) = 1 + n
       /\ \A i \in 1 .. 1 + n : (r \o q)[i] = IF i <= 1 THEN r[i] ELSE q[i - 1]
  <2>1. /\ r \o q \in Seq(Dirs) /\ Len(r \o q) = Len(r) + Len(q)
        /\ \A i \in 1 .. Len(r) + Len(q) :
             (r \o q)[i] = IF i <= Len(r) THEN r[i] ELSE q[i - Len(r)]
    BY <1>9, <1>10, ConcatProperties
  <2>2. QED
    BY <1>9, <1>10, <2>1
<1>12. TablePaths = r \o q
  BY DEF TablePaths, r, q
<1>13. ASSUME NEW d \in {"root"} \cup profiles
       PROVE  \E k \in 1 .. Len(TablePaths) : TablePaths[k] = d
  <2>1. CASE d = "root"
    <3>1. 1 \in 1 .. 1 + n /\ (r \o q)[1] = d
      BY <1>2, <1>10, <1>11, <2>1
    <3>2. QED
      BY <1>11, <1>12, <3>1
  <2>2. CASE d \in profiles
    <3>1. PICK k \in 1 .. n : q[k] = d
      BY <1>8, <2>2
    <3>2. k + 1 \in 1 .. 1 + n /\ (k + 1) - 1 = k /\ ~(k + 1 <= 1)
      BY <1>2
    <3>3. (r \o q)[k + 1] = d
      BY <1>11, <3>1, <3>2
    <3>4. QED
      BY <1>11, <1>12, <3>2, <3>3
  <2>3. QED
    BY <1>13, <2>1, <2>2
<1>14. r \o q # <<>>
  BY <1>2, <1>11
<1>15. QED
  BY <1>11, <1>12, <1>13, <1>14

\* After a table is written nothing of the install is missing from it.
LEMMA Written ==
  ASSUME NEW part, NEW old, NEW h, old \cup Missing(part, old) \subseteq h
  PROVE  Missing(part, h) = {}
  BY DEF Missing, Has

\* Where no table has less, nothing more is missing.
LEMMA MoreSettles ==
  ASSUME NEW h, NEW h2, NoLess(h, h2),
         NEW part, Installable(part), NEW d \in Dirs, Settled(h, part, d)
  PROVE  Settled(h2, part, d)
<1>1. PICK t \in Tables \X Dirs : t = <<part.table, d>>
  BY DEF Installable
<1>2. h[t] \subseteq h2[t] /\ Missing(part, h[t]) = {}
  BY <1>1 DEF Settled, NoLess
<1>3. Missing(part, h2[t]) = {}
  BY <1>2 DEF Missing, Has
<1>4. QED
  BY <1>1, <1>3 DEF Settled

LEMMA KeptIs ==
  ASSUME NEW tb, NEW rc, NEW jb, NEW t \in Tables \X Dirs, NEW l
  PROVE  l \in Kept(tb, rc, jb)[t]
           <=> \/ l \in tb[t] \/ l \in rc[t]
               \/ \E x \in Commands : Filling(x, jb[x], t) /\ l \in Text(x, jb[x])
  BY DEF Kept

\* One command's state replaced: no table has less when what it had is still
\* there, or lost, or about to be written by the command.
LEMMA KeptGrows ==
  ASSUME NEW tb, NEW rc, NEW jb, NEW tb2, NEW rc2, NEW jb2, NEW c \in Commands, NEW next,
         DOMAIN jb = Commands, jb2 = [jb EXCEPT ![c] = next],
         StillThere(tb, rc, tb2, rc2, c, next), TextStays(tb2, rc2, c, jb[c])
  PROVE  NoLess(Kept(tb, rc, jb), Kept(tb2, rc2, jb2))
<1>1. jb2[c] = next /\ \A x \in Commands : x # c => jb2[x] = jb[x]
  OBVIOUS
<1>2. ASSUME NEW t \in Tables \X Dirs, NEW l, l \in Kept(tb, rc, jb)[t]
      PROVE  l \in Kept(tb2, rc2, jb2)[t]
  <2>1. CASE l \in tb[t] \cup rc[t]
    <3>1. \/ l \in tb2[t] \/ l \in rc2[t]
          \/ Filling(c, jb2[c], t) /\ l \in Text(c, jb2[c])
      BY <1>1, <2>1 DEF StillThere
    <3>2. QED
      BY <3>1, KeptIs
  <2>2. ASSUME NEW x \in Commands, Filling(x, jb[x], t), l \in Text(x, jb[x])
        PROVE  l \in Kept(tb2, rc2, jb2)[t]
    <3>1. CASE x = c
      <4>1. l \in tb2[t] \cup rc2[t]
        BY <2>2, <3>1 DEF TextStays
      <4>2. QED
        BY <4>1, KeptIs
    <3>2. CASE x # c
      <4>1. Filling(x, jb2[x], t) /\ l \in Text(x, jb2[x])
        BY <1>1, <2>2, <3>2
      <4>2. QED
        BY <4>1, KeptIs
    <3>3. QED
      BY <3>1, <3>2
  <2>3. \/ l \in tb[t] \/ l \in rc[t]
        \/ \E x \in Commands : Filling(x, jb[x], t) /\ l \in Text(x, jb[x])
    BY <1>2, KeptIs
  <2>4. QED
    BY <2>1, <2>2, <2>3
<1>3. QED
  BY <1>2 DEF NoLess

\* Who is not the command that moves goes on writing.
LEMMA StaysBusy ==
  ASSUME NEW jb, NEW jb2, NEW c \in Commands, NEW next, NEW t,
         DOMAIN jb = Commands, jb2 = [jb EXCEPT ![c] = next],
         Busy(jb, t), ~Filling(c, jb[c], t)
  PROVE  Busy(jb2, t)
<1>1. PICK x \in Commands : Filling(x, jb[x], t)
  BY DEF Busy
<1>2. x # c
  BY <1>1
<1>3. jb2[x] = jb[x]
  BY <1>2
<1>4. QED
  BY <1>1, <1>3 DEF Busy

\* A command that was through a table still is, whatever settles more.
LEMMA StillThrough ==
  ASSUME NEW c \in Commands, NEW j, NEW went, NEW h, NEW h2,
         Command(c, j, went), AtWork(c, j, went), Through(c, j, went, h),
         NoLess(h, h2)
  PROVE  Through(c, j, went, h2)
<1> SUFFICES ASSUME j.at # "idle" PROVE Through(c, j, went, h2)
  BY DEF Through
<1> DEFINE parts == Installs(c)
<1>1. /\ j.part \in 1 .. Len(parts) /\ Len(went) = j.part /\ Len(parts) \in Nat
      /\ \A i \in 1 .. Len(parts) : Installable(parts[i])
  BY InstallsAre DEF AtWork
<1>2. \A i \in 1 .. j.part : i \in 1 .. Len(parts) /\ went[i] \in SUBSET Dirs
  BY <1>1 DEF Command
<1>3. \A i \in 1 .. j.part : \A d \in went[i] :
        Settled(h, parts[i], d) => Settled(h2, parts[i], d)
  BY <1>1, <1>2, MoreSettles
<1>4. j.part \in 1 .. j.part /\ \A i \in 1 .. j.part - 1 : i \in 1 .. j.part
  BY <1>1
<1> HIDE DEF parts
<1>5. /\ \A i \in 1 .. j.part - 1 : \A d \in went[i] : Settled(h, parts[i], d)
      /\ \A d \in went[j.part] :
           \/ Settled(h, parts[j.part], d)
           \/ j.at # "done" /\ \E k \in 1 .. Len(j.todo) : j.todo[k] = d
  BY DEF Through, parts
<1>6. /\ \A i \in 1 .. j.part - 1 : \A d \in went[i] : Settled(h2, parts[i], d)
      /\ \A d \in went[j.part] :
           \/ Settled(h2, parts[j.part], d)
           \/ j.at # "done" /\ \E k \in 1 .. Len(j.todo) : j.todo[k] = d
  BY <1>3, <1>4, <1>5
<1>7. QED
  BY <1>6 DEF Through, parts

\* A command goes on to its next table, to its next part, or is done.
LEMMA Advances ==
  ASSUME NEW c, NEW j, NEW went, Command(c, j, went),
         Len(Installs(c)) \in Nat, j.part \in 1 .. Len(Installs(c)), j.todo # <<>>
  PROVE  NextTable(c, j) =
           IF Len(j.todo) > 1
           THEN [at |-> "read", part |-> j.part, todo |-> Tail(j.todo), found |-> j.found]
           ELSE IF j.part < Len(Installs(c))
           THEN [at |-> "read", part |-> j.part + 1, todo |-> TablePaths, found |-> j.found]
           ELSE [at |-> "done", part |-> j.part, todo |-> <<>>, found |-> j.found]
<1> PICK stage, n, q, held : j = [at |-> stage, part |-> n, todo |-> q, found |-> held]
  BY DEF Command
<1>1. /\ j.part = n /\ j.todo = q /\ j.found = held
      /\ Len(q) \in Nat /\ Len(Installs(c)) \in Nat /\ n \in Nat
  BY DEF Command
<1>2. CASE Len(q) > 1
  <2>1. NextTable(c, j) = [j EXCEPT !.at = "read", !.todo = Tail(q)]
    BY <1>1, <1>2 DEF NextTable
  <2>2. QED
    BY <1>2, <2>1
<1>3. CASE Len(q) <= 1 /\ n < Len(Installs(c))
  <2>1. ~(Len(q) > 1)
    BY <1>1, <1>3
  <2>2. NextTable(c, j) = [j EXCEPT !.at = "read", !.part = n + 1, !.todo = TablePaths]
    BY <1>1, <1>3, <2>1 DEF NextTable
  <2>3. QED
    BY <1>3, <2>1, <2>2
<1>4. CASE Len(q) <= 1 /\ ~(n < Len(Installs(c)))
  <2>1. ~(Len(q) > 1)
    BY <1>1, <1>4
  <2>2. NextTable(c, j) = [j EXCEPT !.at = "done", !.todo = <<>>]
    BY <1>1, <1>4, <2>1 DEF NextTable
  <2>3. QED
    BY <1>4, <2>1, <2>2
<1>5. QED
  BY <1>1, <1>2, <1>3, <1>4

\* The directories a command that goes on has gone through.
Gone(c, j, went) ==
  IF NextTable(c, j).part = j.part THEN went ELSE Append(went, {"root"} \cup profiles)

\* What is settled so far, and a table that now is too: a command that goes on
\* from it is still through all it has been through.
LEMMA Moves ==
  ASSUME NEW c \in Commands, NEW j, NEW went, NEW h,
         profiles \in SUBSET Profiles,
         Command(c, j, went), AtWork(c, j, went), Through(c, j, went, h),
         j.at \in {"read", "fill"},
         Settled(h, Installs(c)[j.part], j.todo[1])
  PROVE  /\ Command(c, NextTable(c, j), Gone(c, j, went))
         /\ AtWork(c, NextTable(c, j), Gone(c, j, went))
         /\ Through(c, NextTable(c, j), Gone(c, j, went), h)
         /\ Careful(c, NextTable(c, j), torn')
<1>0. PICK next, gone : next = NextTable(c, j) /\ gone = Gone(c, j, went)
  OBVIOUS
<1> SUFFICES /\ Command(c, next, gone) /\ AtWork(c, next, gone)
             /\ Through(c, next, gone, h) /\ Careful(c, next, torn')
  BY <1>0
<1> DEFINE parts == Installs(c)
           fresh == {"root"} \cup profiles
<1>1. PICK stage, n, q, held : /\ j = [at |-> stage, part |-> n, todo |-> q, found |-> held]
                             /\ j.at = stage /\ j.part = n /\ j.todo = q /\ j.found = held
  BY DEF Command
<1>2. /\ n \in Nat /\ q \in Seq(Dirs) /\ went \in Seq(SUBSET Dirs)
      /\ stage \in {"read", "fill"} /\ stage # "idle" /\ stage # "done"
  BY <1>1 DEF Command
<1>3. n \in 1 .. Len(parts) /\ Len(went) = n /\ q # <<>> /\ Len(parts) \in Nat
     /\ Len(q) \in Nat /\ Len(q) >= 1
  BY <1>1, <1>2, InstallsAre DEF AtWork
<1>4. /\ next = IF Len(q) > 1
               THEN [at |-> "read", part |-> n, todo |-> Tail(q), found |-> held]
               ELSE IF n < Len(parts)
               THEN [at |-> "read", part |-> n + 1, todo |-> TablePaths, found |-> held]
               ELSE [at |-> "done", part |-> n, todo |-> <<>>, found |-> held]
      /\ gone = IF next.part = n THEN went ELSE Append(went, fresh)
  <2>1. NextTable(c, j) =
          IF Len(q) > 1
          THEN [at |-> "read", part |-> n, todo |-> Tail(q), found |-> held]
          ELSE IF n < Len(Installs(c))
          THEN [at |-> "read", part |-> n + 1, todo |-> TablePaths, found |-> held]
          ELSE [at |-> "done", part |-> n, todo |-> <<>>, found |-> held]
    <3>1. Len(Installs(c)) \in Nat /\ j.part \in 1 .. Len(Installs(c)) /\ j.todo # <<>>
      BY <1>1, <1>3
    <3>2. NextTable(c, j) =
            IF Len(j.todo) > 1
            THEN [at |-> "read", part |-> j.part, todo |-> Tail(j.todo), found |-> j.found]
            ELSE IF j.part < Len(Installs(c))
            THEN [at |-> "read", part |-> j.part + 1, todo |-> TablePaths, found |-> j.found]
            ELSE [at |-> "done", part |-> j.part, todo |-> <<>>, found |-> j.found]
      BY <3>1, Advances
    <3>3. QED
      BY <1>1, <3>2
  <2>2. QED
    BY <1>0, <1>1, <2>1 DEF Gone
<1>5. /\ TablePaths \in Seq(Dirs) /\ TablePaths # <<>>
      /\ \A d \in fresh : \E k \in 1 .. Len(TablePaths) : TablePaths[k] = d
  BY PathsAre
<1> HIDE DEF parts
<1>6. /\ \A i \in 1 .. n - 1 : \A d \in went[i] : Settled(h, parts[i], d)
      /\ \A d \in went[n] :
           \/ Settled(h, parts[n], d)
           \/ \E k \in 1 .. Len(q) : q[k] = d
  BY <1>1, <1>2 DEF Through, parts
<1>7. Settled(h, parts[n], q[1])
  BY <1>1 DEF parts
<1>8. fresh \in SUBSET Dirs
  BY DEF Dirs
<1> HIDE DEF fresh
<1>9. CASE Len(q) > 1
  <2>1. /\ next.at = "read" /\ next.part = n /\ next.todo = Tail(q) /\ gone = went
        /\ next = [at |-> "read", part |-> n, todo |-> Tail(q), found |-> held]
        /\ next.found = held
    BY <1>4, <1>9
  <2>2. Tail(q) \in Seq(Dirs) /\ Tail(q) # <<>> /\ Len(Tail(q)) = Len(q) - 1
        /\ \A k \in 1 .. Len(q) - 1 : Tail(q)[k] = q[k + 1]
    <3>1. /\ Tail(q) \in Seq(Dirs) /\ Len(Tail(q)) = Len(q) - 1
          /\ \A k \in 1 .. Len(Tail(q)) : Tail(q)[k] = q[k + 1]
      BY <1>2, <1>3, HeadTailProperties
    <3>2. Len(Tail(q)) # 0 /\ Len(<<>>) = 0
      BY <1>3, <1>9, <3>1
    <3>3. QED
      BY <3>1, <3>2
  <2>3. ASSUME NEW d \in went[n], ~Settled(h, parts[n], d)
        PROVE  \E k \in 1 .. Len(Tail(q)) : Tail(q)[k] = d
    <3>1. PICK k \in 1 .. Len(q) : q[k] = d
      BY <1>6, <2>3
    <3>2. k # 1
      BY <1>7, <2>3, <3>1
    <3>3. k - 1 \in 1 .. Len(q) - 1 /\ (k - 1) + 1 = k
      BY <1>2, <3>1, <3>2
    <3>4. QED
      BY <2>2, <3>1, <3>3
  <2>4. Command(c, next, gone) /\ AtWork(c, next, gone)
    BY <1>2, <1>3, <2>1, <2>2 DEF Command, AtWork, parts
  <2>5. Through(c, next, gone, h)
    BY <1>6, <2>1, <2>3 DEF Through, parts
  <2>6. QED
    BY <2>1, <2>4, <2>5 DEF Careful
<1>10. CASE ~(Len(q) > 1) /\ n < Len(parts)
  <2>1. /\ next.at = "read" /\ next.part = n + 1 /\ next.todo = TablePaths
        /\ next = [at |-> "read", part |-> n + 1, todo |-> TablePaths, found |-> held]
        /\ next.found = held
    BY <1>4, <1>10
  <2>2. gone = Append(went, fresh)
    BY <1>2, <1>4, <2>1
  <2>3. /\ gone \in Seq(SUBSET Dirs) /\ Len(gone) = n + 1 /\ gone[n + 1] = fresh
        /\ \A i \in 1 .. n : gone[i] = went[i]
    BY <1>2, <1>3, <1>8, <2>2, AppendProperties
  <2>4. \A d \in went[n] : Settled(h, parts[n], d)
    <3>1. \A k \in 1 .. Len(q) : k = 1
      BY <1>3, <1>10
    <3>2. QED
      BY <1>6, <1>7, <3>1
  <2>5. \A i \in 1 .. (n + 1) - 1 : \A d \in gone[i] : Settled(h, parts[i], d)
    <3>1. \A i \in 1 .. (n + 1) - 1 : i \in 1 .. n /\ (i \in 1 .. n - 1 \/ i = n)
      BY <1>2
    <3>2. QED
      BY <1>6, <2>3, <2>4, <3>1
  <2>6. n + 1 \in 1 .. Len(parts) /\ n + 1 \in Nat
    BY <1>2, <1>3, <1>10
  <2>7. Command(c, next, gone) /\ AtWork(c, next, gone)
    BY <1>5, <2>1, <2>3, <2>6 DEF Command, AtWork, parts
  <2>8. Through(c, next, gone, h)
    BY <1>5, <2>1, <2>3, <2>5 DEF Through, parts
  <2>9. QED
    BY <2>1, <2>7, <2>8 DEF Careful
<1>11. CASE ~(Len(q) > 1) /\ ~(n < Len(parts))
  <2>1. /\ next.at = "done" /\ next.part = n /\ next.todo = <<>>
        /\ next = [at |-> "done", part |-> n, todo |-> <<>>, found |-> held]
        /\ next.found = held /\ gone = went
    BY <1>4, <1>11
  <2>2. \A d \in went[n] : Settled(h, parts[n], d)
    <3>1. \A k \in 1 .. Len(q) : k = 1
      BY <1>3, <1>11
    <3>2. QED
      BY <1>6, <1>7, <3>1
  <2>3. <<>> \in Seq(Dirs) /\ n = Len(parts)
    BY <1>3, <1>11
  <2>4. Command(c, next, gone) /\ AtWork(c, next, gone)
    BY <1>2, <1>3, <2>1, <2>3 DEF Command, AtWork, parts
  <2>5. Through(c, next, gone, h)
    BY <1>6, <2>1, <2>2 DEF Through, parts
  <2>6. QED
    BY <2>1, <2>4, <2>5 DEF Careful
<1>12. QED
  BY <1>9, <1>10, <1>11

\* One command's state replaced, the tables settled no less: the invariant is
\* kept when it is of the command's new state.
LEMMA Replaced ==
  ASSUME KeyInv, NEW c \in Commands, NEW next, NEW gone,
         job' = [job EXCEPT ![c] = next], paths' = [paths EXCEPT ![c] = gone],
         UNCHANGED <<profiles, mine>>, torn \subseteq torn',
         DOMAIN tables' = DOMAIN tables, DOMAIN raced' = DOMAIN raced,
         Safe(tables', job', torn'),
         NoLess(Kept(tables, raced, job), Kept(tables', raced', job')),
         Command(c, next, gone), AtWork(c, next, gone),
         Through(c, next, gone, Kept(tables', raced', job')), Careful(c, next, torn')
  PROVE  KeyInv'
<1>1. /\ DOMAIN tables' = Tables \X Dirs /\ DOMAIN raced' = Tables \X Dirs
      /\ DOMAIN job' = Commands
      /\ paths' \in [Commands -> Seq(SUBSET Dirs)]
      /\ profiles' \in SUBSET Profiles
  <2>1. gone \in Seq(SUBSET Dirs)
    BY DEF Command
  <2>2. QED
    BY <2>1 DEF KeyInv
<1>2. /\ job'[c] = next /\ paths'[c] = gone
      /\ \A e \in Commands : e # c => job'[e] = job[e] /\ paths'[e] = paths[e]
  BY DEF KeyInv
<1>3. PICK h, h2 : h = Kept(tables, raced, job) /\ h2 = Kept(tables', raced', job')
  OBVIOUS
<1>4. ASSUME NEW e \in Commands
      PROVE  /\ Command(e, job'[e], paths'[e]) /\ AtWork(e, job'[e], paths'[e])
             /\ Through(e, job'[e], paths'[e], h2) /\ Careful(e, job'[e], torn')
  <2>1. CASE e = c
    BY <1>2, <1>3, <2>1
  <2>2. CASE e # c
    <3>1. job'[e] = job[e] /\ paths'[e] = paths[e]
      BY <1>2, <2>2
    <3>2. /\ Command(e, job[e], paths[e]) /\ AtWork(e, job[e], paths[e])
          /\ Through(e, job[e], paths[e], h) /\ Careful(e, job[e], torn)
      BY <1>3 DEF KeyInv
    <3>3. PICK j, went : j = job[e] /\ went = paths[e]
      OBVIOUS
    <3>4. Through(e, j, went, h2)
      BY <1>3, <3>2, <3>3, StillThrough
    <3>5. Careful(e, j, torn')
      BY <3>2, <3>3 DEF Careful
    <3>6. QED
      BY <3>1, <3>2, <3>3, <3>4, <3>5
  <2>3. QED
    BY <2>1, <2>2
<1>5. ASSUME NEW e \in Commands
      PROVE  (/\ Command(e, job[e], paths[e]) /\ AtWork(e, job[e], paths[e])
              /\ Through(e, job[e], paths[e], Kept(tables, raced, job))
              /\ Careful(e, job[e], torn))'
  <2>1. (/\ Command(e, job[e], paths[e]) /\ AtWork(e, job[e], paths[e])
         /\ Through(e, job[e], paths[e], Kept(tables, raced, job)))'
    BY <1>3, <1>4
  <2>2. Careful(e, job[e], torn)'
    BY <1>4 DEF Careful
  <2>3. QED
    BY <2>1, <2>2
<1>6. Safe(tables, job, torn)'
  BY DEF Safe
<1>7. QED
  BY <1>1, <1>5, <1>6 DEF KeyInv

LEMMA TablesStart == TablesInit(Users) => KeyInv
<1> SUFFICES ASSUME TablesInit(Users) PROVE KeyInv
  OBVIOUS
<1>1. PICK u \in Users :
        tables = [t \in {"keys", "addresses", "zigbee"} \X ({"root"} \cup Profiles) |->
                    IF t[2] = "root" THEN u[t[1]] ELSE {}]
  BY DEF TablesInit
<1>2. DOMAIN tables = Tables \X Dirs /\ mine = tables /\ DOMAIN raced = Tables \X Dirs
  BY <1>1 DEF Tables, Dirs, TablesInit
<1>3. /\ profiles \in SUBSET Profiles
      /\ job = [c \in Commands |-> [at |-> "idle", part |-> 1, todo |-> <<>>, found |-> {}]]
      /\ paths = [c \in Commands |-> <<>>]
  BY DEF TablesInit
<1>4. ASSUME NEW c \in Commands
      PROVE  /\ Command(c, job[c], paths[c]) /\ AtWork(c, job[c], paths[c])
             /\ Through(c, job[c], paths[c], Kept(tables, raced, job))
             /\ Careful(c, job[c], torn)
  <2>1. job[c] = [at |-> "idle", part |-> 1, todo |-> <<>>, found |-> {}] /\ paths[c] = <<>>
    BY <1>3
  <2>2. QED
    BY <2>1 DEF Command, AtWork, Through, Careful
<1>5. Safe(tables, job, torn)
  BY <1>2 DEF Safe
<1>6. paths \in [Commands -> Seq(SUBSET Dirs)]
  BY <1>3
<1>7. QED
  BY <1>2, <1>3, <1>4, <1>5, <1>6 DEF KeyInv

\* A command at a table, and the table.
LEMMA PlaceIs ==
  ASSUME KeyInv, NEW c \in Commands, job[c].at \in {"read", "again", "write", "fill"},
         NEW part, part = Part(c), NEW t, t = Target(c)
  PROVE  /\ job[c] = [at |-> job[c].at, part |-> job[c].part,
                      todo |-> job[c].todo, found |-> job[c].found]
         /\ t = AtTable(c, job[c]) /\ t = <<part.table, job[c].todo[1]>>
         /\ New(c) = Text(c, job[c]) /\ part = Installs(c)[job[c].part]
         /\ job[c].todo[1] \in Dirs /\ Installable(part) /\ t \in Tables \X Dirs
<1>1. /\ job[c].part \in 1 .. Len(Installs(c)) /\ job[c].todo # <<>>
      /\ job[c].todo \in Seq(Dirs)
  BY DEF KeyInv, Command, AtWork
<1>2. Installable(part)
  BY <1>1, InstallsAre DEF Part
<1>3. job[c].todo[1] \in Dirs
  BY <1>1
<1>4. /\ t = AtTable(c, job[c]) /\ t = <<part.table, job[c].todo[1]>>
      /\ New(c) = Text(c, job[c]) /\ part = Installs(c)[job[c].part]
  BY DEF Target, Part, AtTable, New, Text
<1>5. t \in Tables \X Dirs
  BY <1>2, <1>3, <1>4 DEF Installable
<1>6. job[c] = [at |-> job[c].at, part |-> job[c].part,
                todo |-> job[c].todo, found |-> job[c].found]
  BY DEF KeyInv, Command
<1>7. QED
  BY <1>2, <1>3, <1>4, <1>5, <1>6

\* A command goes on from a table in which all it installs there is settled.
LEMMA KeepsGoing ==
  ASSUME KeyInv, NEW c \in Commands, job[c].at \in {"read", "fill"},
         GoesOn(c, NextTable(c, job[c])), UNCHANGED <<profiles, mine>>,
         torn \subseteq torn', DOMAIN tables' = DOMAIN tables, DOMAIN raced' = DOMAIN raced,
         Safe(tables', job', torn'),
         NoLess(Kept(tables, raced, job), Kept(tables', raced', job')),
         Settled(Kept(tables', raced', job'), Installs(c)[job[c].part], job[c].todo[1])
  PROVE  KeyInv'
<1>1. PICK j, went, h, h2 : /\ j = job[c] /\ went = paths[c]
                            /\ h = Kept(tables, raced, job)
                            /\ h2 = Kept(tables', raced', job')
  OBVIOUS
<1>2. PICK next, gone : next = NextTable(c, j) /\ gone = Gone(c, j, went)
  OBVIOUS
<1>3. NextTable(c, job[c]) = next
  BY <1>1, <1>2
<1>4. /\ Command(c, j, went) /\ AtWork(c, j, went) /\ Through(c, j, went, h)
      /\ profiles \in SUBSET Profiles
      /\ paths \in [Commands -> Seq(SUBSET Dirs)]
  BY <1>1 DEF KeyInv
<1>5. NoLess(h, h2)
  BY <1>1
<1>6. Through(c, j, went, h2)
  BY <1>4, <1>5, StillThrough
<1>7. Settled(h2, Installs(c)[j.part], j.todo[1]) /\ j.at \in {"read", "fill"}
  BY <1>1
<1>8. /\ Command(c, next, gone) /\ AtWork(c, next, gone)
      /\ Through(c, next, gone, h2) /\ Careful(c, next, torn')
  <2>1. /\ Command(c, NextTable(c, j), Gone(c, j, went))
        /\ AtWork(c, NextTable(c, j), Gone(c, j, went))
        /\ Through(c, NextTable(c, j), Gone(c, j, went), h2)
        /\ Careful(c, NextTable(c, j), torn')
    BY <1>4, <1>6, <1>7, Moves
  <2>2. QED
    BY <1>2, <2>1
<1>9. GoesOn(c, next)
  BY <1>3
<1>10. job' = [job EXCEPT ![c] = next] /\ paths' = [paths EXCEPT ![c] = gone]
  BY <1>1, <1>2, <1>4, <1>9 DEF GoesOn, Gone
<1>11. Through(c, next, gone, Kept(tables', raced', job'))
  BY <1>1, <1>8
<1>12. QED
  BY <1>8, <1>10, <1>11, Replaced

\* A record of a command with another of what it is at.
LEMMA Restaged ==
  ASSUME NEW j, NEW stage, NEW held,
         j = [at |-> j.at, part |-> j.part, todo |-> j.todo, found |-> j.found]
  PROVE  [j EXCEPT !.at = stage, !.found = held]
           = [at |-> stage, part |-> j.part, todo |-> j.todo, found |-> held]
<1>1. PICK old, n, q, f : j = [at |-> old, part |-> n, todo |-> q, found |-> f]
  OBVIOUS
<1>2. PICK next : next = [j EXCEPT !.at = stage, !.found = held]
  OBVIOUS
<1>3. next = [at |-> stage, part |-> n, todo |-> q, found |-> held]
  BY <1>1, <1>2
<1>4. j.part = n /\ j.todo = q
  BY <1>1
<1>5. QED
  BY <1>2, <1>3, <1>4

LEMMA Restarted ==
  ASSUME NEW j, NEW stage,
         j = [at |-> j.at, part |-> j.part, todo |-> j.todo, found |-> j.found]
  PROVE  [j EXCEPT !.at = stage]
           = [at |-> stage, part |-> j.part, todo |-> j.todo, found |-> j.found]
<1>1. PICK old, n, q, f : j = [at |-> old, part |-> n, todo |-> q, found |-> f]
  OBVIOUS
<1>2. PICK next : next = [j EXCEPT !.at = stage]
  OBVIOUS
<1>3. next = [at |-> stage, part |-> n, todo |-> q, found |-> f]
  BY <1>1, <1>2
<1>4. j.part = n /\ j.todo = q /\ j.found = f
  BY <1>1
<1>5. QED
  BY <1>2, <1>3, <1>4

\* A command stays at its table, at another step of reading and writing it.
LEMMA KeepsAtIt ==
  ASSUME KeyInv, NEW c \in Commands, NEW stage, NEW held,
         job[c].at \in {"read", "again", "write"}, stage \in {"again", "write", "fill"},
         NEW next,
         next = [at |-> stage, part |-> job[c].part, todo |-> job[c].todo, found |-> held],
         GoesOn(c, next),
         UNCHANGED <<profiles, mine>>, torn \subseteq torn',
         DOMAIN tables' = DOMAIN tables, DOMAIN raced' = DOMAIN raced,
         Safe(tables', job', torn'),
         NoLess(Kept(tables, raced, job), Kept(tables', raced', job')),
         stage = "again" \/ AtTable(c, job[c]) \in torn'
           \/ mine[AtTable(c, job[c])] \subseteq held
  PROVE  KeyInv'
<1>1. PICK n, q, went : n = job[c].part /\ q = job[c].todo /\ went = paths[c]
  OBVIOUS
<1>2. next = [at |-> stage, part |-> n, todo |-> q, found |-> held]
  BY <1>1
<1>3. next.at = stage /\ next.part = n /\ next.todo = q /\ next.found = held
  BY <1>2
<1>4. /\ job' = [job EXCEPT ![c] = next]
      /\ paths' = [paths EXCEPT ![c] = went]
  BY <1>1, <1>3 DEF GoesOn, KeyInv
<1>5. /\ n \in Nat /\ q \in Seq(Dirs) /\ went \in Seq(SUBSET Dirs)
      /\ n \in 1 .. Len(Installs(c)) /\ Len(went) = n /\ q # <<>>
  BY <1>1 DEF KeyInv, Command, AtWork
<1>6. Command(c, next, went) /\ AtWork(c, next, went)
  BY <1>2, <1>3, <1>5 DEF Command, AtWork
<1>7. Through(c, next, went, Kept(tables', raced', job'))
  <2>1. PICK h, h2 : h = Kept(tables, raced, job) /\ h2 = Kept(tables', raced', job')
    OBVIOUS
  <2>2. Through(c, job[c], went, h) /\ job[c].at \in {"read", "again", "write"}
    BY <1>1, <2>1 DEF KeyInv
  <2>3. Through(c, next, went, h)
    BY <1>1, <1>3, <2>2 DEF Through
  <2>4. Through(c, next, went, h2)
    BY <1>6, <2>1, <2>3, StillThrough
  <2>5. QED
    BY <2>1, <2>4
<1>8. Careful(c, next, torn')
  <2>1. AtTable(c, next) = AtTable(c, job[c])
    BY <1>1, <1>3 DEF AtTable
  <2>2. QED
    BY <1>3, <2>1 DEF Careful
<1>9. QED
  BY <1>4, <1>6, <1>7, <1>8, Replaced

\* A command that is not writing, and touches no table, leaves who is alone.
LEMMA Leaves ==
  ASSUME KeyInv, NEW c \in Commands, NEW next, \A t : ~Filling(c, job[c], t),
         job' = [job EXCEPT ![c] = next], torn \subseteq torn',
         UNCHANGED <<tables, raced, mine>>
  PROVE  /\ Safe(tables', job', torn')
         /\ NoLess(Kept(tables, raced, job), Kept(tables', raced', job'))
<1>1. PICK jb2 : jb2 = job'
  OBVIOUS
<1>2. /\ DOMAIN job = Commands /\ jb2 = [job EXCEPT ![c] = next]
      /\ \A t : ~Filling(c, job[c], t)
  BY <1>1 DEF KeyInv
<1>3. \A t : Busy(job, t) => Busy(jb2, t)
  BY <1>2, StaysBusy
<1>4. Safe(tables, jb2, torn')
  BY <1>3 DEF KeyInv, Safe
<1>5. NoLess(Kept(tables, raced, job), Kept(tables, raced, jb2))
  <2>1. /\ StillThere(tables, raced, tables, raced, c, next)
        /\ TextStays(tables, raced, c, job[c])
    BY <1>2 DEF StillThere, TextStays
  <2>2. QED
    BY <1>2, <2>1, KeptGrows
<1>6. QED
  BY <1>1, <1>4, <1>5 DEF Safe

LEMMA KeepsTaking ==
  ASSUME KeyInv, NEW c \in Commands, job[c].at \in {"read", "again"}, TakesText(c),
         UNCHANGED <<tables, profiles, mine, raced>>
  PROVE  KeyInv'
<1>1. PICK t, held : t = Target(c) /\ held = tables[t]
  OBVIOUS
<1>2. /\ job[c] = [at |-> job[c].at, part |-> job[c].part,
                   todo |-> job[c].todo, found |-> job[c].found]
      /\ t = AtTable(c, job[c]) /\ t \in Tables \X Dirs
  BY <1>1, PlaceIs
<1>3. PICK next : next = [at |-> "write", part |-> job[c].part, todo |-> job[c].todo,
                          found |-> held]
  OBVIOUS
<1>4. /\ GoesOn(c, next)
      /\ torn' = torn \cup (IF Rewritten(t) THEN {t} ELSE {})
  <2>1. PICK j : j = job[c]
    OBVIOUS
  <2>2. [j EXCEPT !.at = "write", !.found = held]
          = [at |-> "write", part |-> j.part, todo |-> j.todo, found |-> held]
    <3>1. j = [at |-> j.at, part |-> j.part, todo |-> j.todo, found |-> j.found]
      BY <1>2, <2>1
    <3>2. PICK stage : stage = "write"
      OBVIOUS
    <3>3. [j EXCEPT !.at = stage, !.found = held]
            = [at |-> stage, part |-> j.part, todo |-> j.todo, found |-> held]
      BY <3>1, Restaged
    <3>4. QED
      BY <3>2, <3>3
  <2>3. QED
    BY <1>1, <1>3, <2>1, <2>2 DEF TakesText
<1>5. torn \subseteq torn' /\ job' = [job EXCEPT ![c] = next]
  BY <1>4 DEF GoesOn
<1>6. /\ Safe(tables', job', torn')
      /\ NoLess(Kept(tables, raced, job), Kept(tables', raced', job'))
  BY <1>5, Leaves DEF Filling
<1>7. t \in torn' \/ mine[t] \subseteq held
  <2>1. Rewritten(t) <=> Busy(job, t)
    BY DEF Rewritten, Busy, Filling, AtTable, Target, Part
  <2>2. t \in torn \/ Busy(job, t) \/ mine[t] \subseteq tables[t]
    BY <1>2 DEF KeyInv, Safe
  <2>3. QED
    BY <1>1, <1>4, <2>1, <2>2
<1>8. PICK stage : stage = "write"
  OBVIOUS
<1>9. /\ job[c].at \in {"read", "again", "write"}
      /\ stage \in {"again", "write", "fill"} /\ GoesOn(c, next)
      /\ next = [at |-> stage, part |-> job[c].part, todo |-> job[c].todo, found |-> held]
      /\ UNCHANGED <<profiles, mine>> /\ torn \subseteq torn'
      /\ DOMAIN tables' = DOMAIN tables /\ DOMAIN raced' = DOMAIN raced
      /\ stage = "again" \/ AtTable(c, job[c]) \in torn'
        \/ mine[AtTable(c, job[c])] \subseteq held
  BY <1>2, <1>3, <1>4, <1>5, <1>7, <1>8
<1>10. QED
  BY <1>6, <1>9, KeepsAtIt

LEMMA KeepsRead ==
  ASSUME KeyInv, NEW c \in Commands, ReadTable(c) \/ ReadAgain(c)
  PROVE  KeyInv'
<1>1. PICK part, t : part = Part(c) /\ t = Target(c)
  OBVIOUS
<1>2. job[c].at \in {"read", "again"} /\ UNCHANGED <<tables, profiles, mine, raced>>
  BY DEF ReadTable, ReadAgain
<1>3. /\ job[c] = [at |-> job[c].at, part |-> job[c].part,
                   todo |-> job[c].todo, found |-> job[c].found]
      /\ t = <<part.table, job[c].todo[1]>> /\ part = Installs(c)[job[c].part]
      /\ t \in Tables \X Dirs
  BY <1>1, <1>2, PlaceIs
<1>4. ASSUME job[c].at = "read", Missing(part, tables[t]) = {},
             GoesOn(c, NextTable(c, job[c])), UNCHANGED torn
      PROVE  KeyInv'
  <2>1. job' = [job EXCEPT ![c] = NextTable(c, job[c])]
    BY <1>4 DEF GoesOn
  <2>2. /\ Safe(tables', job', torn')
        /\ NoLess(Kept(tables, raced, job), Kept(tables', raced', job'))
    BY <1>2, <1>4, <2>1, Leaves DEF Filling
  <2>3. PICK h2 : h2 = Kept(tables', raced', job')
    OBVIOUS
  <2>4. tables[t] \subseteq h2[t]
    <3>1. PICK h : h = Kept(tables, raced, job)
      OBVIOUS
    <3>2. tables[t] \subseteq h[t]
      BY <1>3, <3>1, KeptIs
    <3>3. NoLess(h, h2)
      BY <2>2, <2>3, <3>1
    <3>4. QED
      BY <1>3, <3>2, <3>3 DEF NoLess
  <2>5. Settled(h2, part, job[c].todo[1])
    BY <1>3, <1>4, <2>4 DEF Settled, Missing, Has
  <2>6. QED
    BY <1>2, <1>3, <1>4, <2>2, <2>3, <2>5, KeepsGoing
<1>5. ASSUME job[c].at = "read", GoesOn(c, [job[c] EXCEPT !.at = "again"]), UNCHANGED torn
      PROVE  KeyInv'
  <2>1. PICK next, f : /\ f = job[c].found
                       /\ next = [at |-> "again", part |-> job[c].part,
                                  todo |-> job[c].todo, found |-> f]
    OBVIOUS
  <2>2. GoesOn(c, next)
    <3>1. PICK j : j = job[c]
      OBVIOUS
    <3>2. [j EXCEPT !.at = "again"]
            = [at |-> "again", part |-> j.part, todo |-> j.todo, found |-> j.found]
      BY <1>3, <3>1, Restarted
    <3>3. QED
      BY <1>5, <2>1, <3>1, <3>2
  <2>3. job' = [job EXCEPT ![c] = next]
    BY <2>2 DEF GoesOn
  <2>4. /\ Safe(tables', job', torn')
        /\ NoLess(Kept(tables, raced, job), Kept(tables', raced', job'))
    BY <1>2, <1>5, <2>3, Leaves DEF Filling
  <2>5. QED
    BY <1>2, <1>5, <2>1, <2>2, <2>4, KeepsAtIt
<1>6. ASSUME TakesText(c)
      PROVE  KeyInv'
  BY <1>2, <1>6, KeepsTaking
<1>7. QED
  BY <1>1, <1>4, <1>5, <1>6 DEF ReadTable, ReadAgain

LEMMA KeepsEmptying ==
  ASSUME KeyInv, NEW c \in Commands, EmptyTable(c)
  PROVE  KeyInv'
<1>1. PICK t, new, held : t = Target(c) /\ new = New(c) /\ held = job[c].found
  OBVIOUS
<1>2. /\ job[c].at = "write" /\ UNCHANGED <<profiles, mine, torn>>
      /\ tables' = [tables EXCEPT ![t] = {}]
      /\ raced' = [raced EXCEPT ![t] = raced[t] \cup (tables[t] \ new)]
  BY <1>1 DEF EmptyTable
<1>3. /\ job[c] = [at |-> job[c].at, part |-> job[c].part,
                   todo |-> job[c].todo, found |-> job[c].found]
      /\ t = AtTable(c, job[c]) /\ t \in Tables \X Dirs /\ new = Text(c, job[c])
  BY <1>1, <1>2, PlaceIs
<1>4. PICK next : next = [at |-> "fill", part |-> job[c].part, todo |-> job[c].todo,
                          found |-> held]
  OBVIOUS
<1>5. GoesOn(c, next)
  <2>1. PICK j : j = job[c]
    OBVIOUS
  <2>2. [j EXCEPT !.at = "fill"]
          = [at |-> "fill", part |-> j.part, todo |-> j.todo, found |-> j.found]
    BY <1>3, <2>1, Restarted
  <2>3. QED
    BY <1>1, <1>4, <2>1, <2>2 DEF EmptyTable
<1>6. PICK jb2, tb2, rc2 : jb2 = job' /\ tb2 = tables' /\ rc2 = raced'
  OBVIOUS
<1>7. DOMAIN job = Commands /\ jb2 = [job EXCEPT ![c] = next] /\ jb2[c] = next
  BY <1>5, <1>6 DEF GoesOn, KeyInv
<1>8. Filling(c, next, t) /\ Text(c, next) = new /\ \A u : ~Filling(c, job[c], u)
  BY <1>1, <1>2, <1>3, <1>4 DEF Filling, AtTable, Text
<1>9. /\ DOMAIN tb2 = DOMAIN tables /\ DOMAIN rc2 = DOMAIN raced
      /\ rc2[t] = raced[t] \cup (tables[t] \ new)
      /\ \A u \in Tables \X Dirs : u # t => tb2[u] = tables[u] /\ rc2[u] = raced[u]
  BY <1>2, <1>3, <1>6 DEF KeyInv
<1>10. Safe(tb2, jb2, torn)
  <2>1. Busy(jb2, t)
    BY <1>7, <1>8 DEF Busy
  <2>2. ASSUME NEW u \in Tables \X Dirs, u # t
        PROVE  u \in torn \/ Busy(jb2, u) \/ mine[u] \subseteq tb2[u]
    <3>1. u \in torn \/ Busy(job, u) \/ mine[u] \subseteq tables[u]
      BY DEF KeyInv, Safe
    <3>2. Busy(job, u) => Busy(jb2, u)
      BY <1>7, <1>8, StaysBusy
    <3>3. QED
      BY <1>9, <2>2, <3>1, <3>2
  <2>3. QED
    BY <2>1, <2>2 DEF Safe
<1>11. NoLess(Kept(tables, raced, job), Kept(tb2, rc2, jb2))
  <2>1. StillThere(tables, raced, tb2, rc2, c, next)
    BY <1>8, <1>9 DEF StillThere
  <2>2. TextStays(tb2, rc2, c, job[c])
    BY <1>8 DEF TextStays
  <2>3. QED
    BY <1>7, <2>1, <2>2, KeptGrows
<1>12. t \in torn \/ mine[t] \subseteq held
  BY <1>1, <1>2, <1>3 DEF KeyInv, Careful
<1>13. Safe(tables', job', torn')
  BY <1>2, <1>6, <1>10 DEF Safe
<1>14. PICK stage : stage = "fill"
  OBVIOUS
<1>15. /\ job[c].at \in {"read", "again", "write"}
       /\ stage \in {"again", "write", "fill"} /\ GoesOn(c, next)
       /\ next = [at |-> stage, part |-> job[c].part, todo |-> job[c].todo, found |-> held]
       /\ UNCHANGED <<profiles, mine>> /\ torn \subseteq torn'
       /\ DOMAIN tables' = DOMAIN tables /\ DOMAIN raced' = DOMAIN raced
       /\ stage = "again" \/ AtTable(c, job[c]) \in torn'
         \/ mine[AtTable(c, job[c])] \subseteq held
  BY <1>2, <1>3, <1>4, <1>5, <1>6, <1>9, <1>12, <1>14
<1>16. NoLess(Kept(tables, raced, job), Kept(tables', raced', job'))
  BY <1>6, <1>11
<1>17. QED
  BY <1>13, <1>15, <1>16, KeepsAtIt

LEMMA KeepsFilling ==
  ASSUME KeyInv, NEW c \in Commands, FillTable(c)
  PROVE  KeyInv'
<1>1. PICK t, new, part : t = Target(c) /\ new = New(c) /\ part = Part(c)
  OBVIOUS
<1>2. PICK now : /\ new \subseteq now
                 /\ tables' = [tables EXCEPT ![t] = now]
                 /\ raced' = [raced EXCEPT ![t] = (raced[t] \cup tables[t]) \ now]
  BY <1>1 DEF FillTable
<1>3. /\ job[c].at = "fill" /\ GoesOn(c, NextTable(c, job[c]))
      /\ UNCHANGED <<profiles, mine, torn>>
  BY DEF FillTable
<1>4. /\ t = AtTable(c, job[c]) /\ t = <<part.table, job[c].todo[1]>>
      /\ new = Text(c, job[c]) /\ part = Installs(c)[job[c].part] /\ t \in Tables \X Dirs
  BY <1>1, <1>3, PlaceIs
<1>5. PICK jb2, tb2, rc2, next :
        jb2 = job' /\ tb2 = tables' /\ rc2 = raced' /\ next = NextTable(c, job[c])
  OBVIOUS
<1>6. DOMAIN job = Commands /\ jb2 = [job EXCEPT ![c] = next]
  BY <1>3, <1>5 DEF GoesOn, KeyInv
<1>7. /\ DOMAIN tb2 = DOMAIN tables /\ DOMAIN rc2 = DOMAIN raced
      /\ tb2[t] = now /\ rc2[t] = (raced[t] \cup tables[t]) \ now
      /\ \A u \in Tables \X Dirs : u # t => tb2[u] = tables[u] /\ rc2[u] = raced[u]
  BY <1>2, <1>4, <1>5 DEF KeyInv
<1>8. \A u : Filling(c, job[c], u) => u = t
  BY <1>4 DEF Filling
<1>9. Safe(tb2, jb2, torn)
  <2>1. t \in torn \/ mine[t] \subseteq tb2[t]
    <3>1. t \in torn \/ mine[t] \subseteq job[c].found
      BY <1>3, <1>4 DEF KeyInv, Careful
    <3>2. job[c].found \subseteq new
      BY <1>4 DEF Text
    <3>3. QED
      BY <1>2, <1>7, <3>1, <3>2
  <2>2. ASSUME NEW u \in Tables \X Dirs, u # t
        PROVE  u \in torn \/ Busy(jb2, u) \/ mine[u] \subseteq tb2[u]
    <3>1. u \in torn \/ Busy(job, u) \/ mine[u] \subseteq tables[u]
      BY DEF KeyInv, Safe
    <3>2. Busy(job, u) => Busy(jb2, u)
      BY <1>6, <1>8, <2>2, StaysBusy
    <3>3. QED
      BY <1>7, <2>2, <3>1, <3>2
  <2>3. QED
    BY <2>1, <2>2 DEF Safe
<1>10. NoLess(Kept(tables, raced, job), Kept(tb2, rc2, jb2))
  <2>1. StillThere(tables, raced, tb2, rc2, c, next)
    BY <1>7 DEF StillThere
  <2>2. TextStays(tb2, rc2, c, job[c])
    BY <1>2, <1>4, <1>7, <1>8 DEF TextStays
  <2>3. QED
    BY <1>6, <2>1, <2>2, KeptGrows
<1>11. PICK h2 : h2 = Kept(tb2, rc2, jb2)
  OBVIOUS
<1>12. Settled(h2, part, job[c].todo[1])
  <2>1. now \subseteq h2[t]
    BY <1>4, <1>7, <1>11, KeptIs
  <2>2. job[c].found \cup Missing(part, job[c].found) \subseteq h2[t]
    BY <1>2, <1>4, <2>1 DEF Text
  <2>3. Missing(part, h2[t]) = {}
    BY <2>2, Written
  <2>4. QED
    BY <1>4, <2>3 DEF Settled
<1>13. Safe(tables', job', torn')
  BY <1>3, <1>5, <1>9 DEF Safe
<1>14. QED
  BY <1>3, <1>4, <1>5, <1>7, <1>10, <1>11, <1>12, <1>13, KeepsGoing

LEMMA KeepsStart ==
  ASSUME KeyInv, NEW c \in Commands, StartInstall(c)
  PROVE  KeyInv'
<1>1. PICK fresh : fresh = {"root"} \cup profiles
  OBVIOUS
<1>2. PICK q : q = TablePaths
  OBVIOUS
<1>3. PICK next : next = [at |-> "read", part |-> 1, todo |-> q, found |-> {}]
  OBVIOUS
<1>4. /\ Installs(c) # <<>> /\ job[c].at = "idle" /\ job' = [job EXCEPT ![c] = next]
      /\ paths' = [paths EXCEPT ![c] = <<fresh>>]
      /\ UNCHANGED <<tables, profiles, mine, raced, torn>>
  BY <1>1, <1>2, <1>3 DEF StartInstall
<1>5. profiles \in SUBSET Profiles
  BY DEF KeyInv
<1>6. q \in Seq(Dirs) /\ q # <<>> /\ \A d \in fresh : \E k \in 1 .. Len(q) : q[k] = d
  BY <1>1, <1>2, <1>5, PathsAre
<1>7. 1 \in 1 .. Len(Installs(c))
  BY <1>4, InstallsAre
<1>8. fresh \in SUBSET Dirs
  BY <1>1, <1>5 DEF Dirs
<1>9. <<fresh>> \in Seq(SUBSET Dirs) /\ Len(<<fresh>>) = 1 /\ <<fresh>>[1] = fresh
  BY <1>8
<1>10. next.at = "read" /\ next.part = 1 /\ next.todo = q /\ next.found = {}
  BY <1>3
<1>11. Command(c, next, <<fresh>>) /\ AtWork(c, next, <<fresh>>) /\ Careful(c, next, torn')
  BY <1>3, <1>6, <1>7, <1>9, <1>10 DEF Command, AtWork, Careful
<1>12. Through(c, next, <<fresh>>, Kept(tables', raced', job'))
  BY <1>6, <1>9, <1>10 DEF Through
<1>13. \A t : ~Filling(c, job[c], t)
  BY <1>4 DEF Filling
<1>14. /\ Safe(tables', job', torn')
       /\ NoLess(Kept(tables, raced, job), Kept(tables', raced', job'))
  BY <1>4, <1>13, Leaves
<1>15. QED
  BY <1>4, <1>11, <1>12, <1>14, Replaced

LEMMA KeepsEnd ==
  ASSUME KeyInv, NEW c \in Commands, EndInstall(c)
  PROVE  KeyInv'
<1>1. PICK next, went : /\ next = [at |-> "idle", part |-> 1, todo |-> <<>>, found |-> {}]
                        /\ went = paths[c]
  OBVIOUS
<1>2. /\ job' = [job EXCEPT ![c] = next] /\ paths' = [paths EXCEPT ![c] = went]
      /\ UNCHANGED <<tables, profiles, mine>>
  BY <1>1 DEF EndInstall, KeyInv
<1>3. next.at = "idle" /\ next.part = 1 /\ next.todo = <<>> /\ next.found = {}
  BY <1>1
<1>4. Command(c, next, went) /\ AtWork(c, next, went) /\ Careful(c, next, torn')
  <2>1. went \in Seq(SUBSET Dirs) /\ <<>> \in Seq(Dirs)
    BY <1>1 DEF KeyInv
  <2>2. QED
    BY <1>1, <1>3, <2>1 DEF Command, AtWork, Careful
<1>5. Through(c, next, went, Kept(tables', raced', job'))
  BY <1>3 DEF Through
<1>6. /\ torn \subseteq torn' /\ DOMAIN raced' = DOMAIN raced
      /\ Safe(tables', job', torn')
      /\ NoLess(Kept(tables, raced, job), Kept(tables', raced', job'))
  <2>1. CASE job[c].at # "fill"
    <3>1. UNCHANGED <<raced, torn>> /\ \A t : ~Filling(c, job[c], t)
      BY <2>1 DEF EndInstall, Filling
    <3>2. QED
      BY <1>2, <3>1, Leaves
  <2>2. CASE job[c].at = "fill"
    <3>1. PICK t, new, jb2, rc2, tn2 :
            /\ t = Target(c) /\ new = New(c)
            /\ jb2 = job' /\ rc2 = raced' /\ tn2 = torn'
      OBVIOUS
    <3>2. /\ tn2 = torn \cup {t}
          /\ rc2 = [raced EXCEPT ![t] = raced[t] \cup (new \ tables[t])]
      BY <2>2, <3>1 DEF EndInstall
    <3>3. t = AtTable(c, job[c]) /\ new = Text(c, job[c]) /\ t \in Tables \X Dirs
      BY <2>2, <3>1, PlaceIs
    <3>4. DOMAIN job = Commands /\ jb2 = [job EXCEPT ![c] = next]
      BY <1>2, <3>1 DEF KeyInv
    <3>5. /\ DOMAIN rc2 = DOMAIN raced /\ rc2[t] = raced[t] \cup (new \ tables[t])
          /\ \A u \in Tables \X Dirs : u # t => rc2[u] = raced[u]
      BY <3>2, <3>3 DEF KeyInv
    <3>6. \A u : Filling(c, job[c], u) => u = t
      BY <3>3 DEF Filling
    <3>7. Safe(tables, jb2, tn2)
      <4>1. ASSUME NEW u \in Tables \X Dirs, u # t
            PROVE  u \in tn2 \/ Busy(jb2, u) \/ mine[u] \subseteq tables[u]
        <5>1. u \in torn \/ Busy(job, u) \/ mine[u] \subseteq tables[u]
          BY DEF KeyInv, Safe
        <5>2. Busy(job, u) => Busy(jb2, u)
          BY <3>4, <3>6, <4>1, StaysBusy
        <5>3. QED
          BY <3>2, <5>1, <5>2
      <4>2. QED
        BY <3>2, <4>1 DEF Safe
    <3>8. NoLess(Kept(tables, raced, job), Kept(tables, rc2, jb2))
      <4>1. StillThere(tables, raced, tables, rc2, c, next)
        BY <3>5 DEF StillThere
      <4>2. TextStays(tables, rc2, c, job[c])
        BY <3>3, <3>5, <3>6 DEF TextStays
      <4>3. QED
        BY <3>4, <4>1, <4>2, KeptGrows
    <3>9. QED
      BY <1>2, <3>1, <3>2, <3>5, <3>7, <3>8 DEF Safe
  <2>3. QED
    BY <2>1, <2>2
<1>7. QED
  BY <1>2, <1>4, <1>5, <1>6, Replaced

LEMMA TablesKept ==
  ASSUME KeyInv, [TablesNext]_kvars
  PROVE  KeyInv'
<1>1. CASE AddProfile \/ UNCHANGED kvars
  <2>1. /\ UNCHANGED <<tables, mine, job, raced, torn, paths>>
        /\ profiles' \in SUBSET Profiles
    BY <1>1 DEF AddProfile, kvars, KeyInv
  <2>2. ASSUME NEW c \in Commands
        PROVE  (/\ Command(c, job[c], paths[c]) /\ AtWork(c, job[c], paths[c])
                /\ Through(c, job[c], paths[c], Kept(tables, raced, job))
                /\ Careful(c, job[c], torn))'
    <3>1. /\ Command(c, job'[c], paths'[c]) /\ AtWork(c, job'[c], paths'[c])
          /\ Through(c, job'[c], paths'[c], Kept(tables', raced', job'))
          /\ Careful(c, job'[c], torn')
      BY <2>1 DEF KeyInv
    <3>2. QED
      BY <2>1, <3>1 DEF Command, AtWork, Through, Careful, AtTable, Settled, Missing, Has,
         Kept, Filling, Text
  <2>3. Safe(tables, job, torn)'
    <3>1. Safe(tables, job, torn)
      BY DEF KeyInv
    <3>2. QED
      BY <2>1, <3>1 DEF Safe, Busy, Filling, AtTable
  <2>4. QED
    BY <2>1, <2>2, <2>3 DEF KeyInv
<1>2. ASSUME NEW c \in Commands,
             \/ StartInstall(c) \/ ReadTable(c) \/ ReadAgain(c)
             \/ EmptyTable(c) \/ FillTable(c) \/ EndInstall(c)
      PROVE  KeyInv'
  BY <1>2, KeepsStart, KeepsRead, KeepsEmptying, KeepsFilling, KeepsEnd
<1>3. QED
  BY <1>1, <1>2 DEF TablesNext

LEMMA InvEntries == KeyInv => EntriesAccumulate
<1> SUFFICES ASSUME KeyInv PROVE EntriesAccumulate
  OBVIOUS
<1>1. PICK h : h = Kept(tables, raced, job)
  OBVIOUS
<1>2. ASSUME NEW c \in Commands, job[c].at = "done", NEW i \in 1 .. Len(Installs(c)),
             NEW d \in paths[c][i]
      PROVE  Settled(h, Installs(c)[i], d)
  <2>1. job[c].part = Len(Installs(c)) /\ Len(Installs(c)) \in Nat
    BY <1>2, InstallsAre DEF KeyInv, AtWork
  <2>2. Through(c, job[c], paths[c], h)
    BY <1>1 DEF KeyInv
  <2>3. CASE i = Len(Installs(c))
    BY <1>2, <2>1, <2>2, <2>3 DEF Through
  <2>4. CASE i # Len(Installs(c))
    <3>1. i \in 1 .. job[c].part - 1
      BY <2>1, <2>4
    <3>2. QED
      BY <1>2, <2>2, <3>1 DEF Through
  <2>5. QED
    BY <2>3, <2>4
<1>3. ASSUME NEW t \in DOMAIN tables, ~Rewritten(t)
      PROVE  t \notin torn => mine[t] \subseteq tables[t]
  <2>1. ~Busy(job, t)
    BY <1>3 DEF Rewritten, Busy, Filling, AtTable, Target, Part
  <2>2. QED
    BY <2>1 DEF KeyInv, Safe
<1>4. ASSUME NEW t \in DOMAIN tables, ~Rewritten(t)
      PROVE  h[t] = tables[t] \cup raced[t]
  <2>1. \A x \in Commands : ~Filling(x, job[x], t)
    BY <1>4 DEF Rewritten, Filling, AtTable, Target, Part
  <2>2. t \in Tables \X Dirs
    BY DEF KeyInv
  <2>3. \A l : l \in h[t] <=> l \in tables[t] \/ l \in raced[t]
    BY <1>1, <2>1, <2>2, KeptIs
  <2>4. \A l : l \in h[t] <=> l \in tables[t] \cup raced[t]
    BY <2>3
  <2>5. PICK s, r : s = h[t] /\ r = tables[t] \cup raced[t]
    OBVIOUS
  <2>6. s = r
    BY <2>4, <2>5
  <2>7. QED
    BY <2>5, <2>6
<1>5. QED
  BY <1>2, <1>3, <1>4 DEF EntriesAccumulate, Settled

(* An install adds to the user's own entries and loses none, unless it     *)
(* read a table while another was writing it or one was killed writing it; *)
(* and when it is done all of it is in every table there was, save what    *)
(* another's write has since lost: install_key, install_addresses and      *)
(* install_default_key, with any number of commands at the same files, and *)
(* every write the two steps write_text makes it.                          *)
THEOREM EntriesAreKept == TablesSpec => []EntriesAccumulate
<1>1. TablesSpec => []KeyInv
  BY TablesStart, TablesKept, PTL DEF TablesSpec
<1>2. QED
  BY <1>1, InvEntries, PTL
=============================================================================
