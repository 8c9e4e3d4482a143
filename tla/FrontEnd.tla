------------------------------ MODULE FrontEnd ------------------------------
(***************************************************************************)
(* Who has the board's one 2.4 GHz front end.                              *)
(*                                                                         *)
(* The control task runs the host's commands and the main task boots the   *)
(* board, rebuilds a deaf Wi-Fi driver and power-cycles the radio; both    *)
(* start and stop radios, with no lock between them, and the chip may be   *)
(* reset at any moment, because opening its port resets it.  A flag in RTC *)
(* memory outlives the reset, and so does the front end's being held.      *)
(*                                                                         *)
(* A command or a job of the main task is a plan: the calls it makes, in   *)
(* order.  A call is one step, or several where a reset or the other task  *)
(* between them matters.                                                   *)
(***************************************************************************)
EXTENDS Sequences

CONSTANTS
  Commands,  \* what the host may send: see Plan
  Others     \* values SET_RADIO is sent that name no radio

Radios == {"ieee", "wifi", "ble"}
Calls == {"stop154", "start154", "energy", "stopWifi", "startWifi", "scan",
          "rebuild", "stopBle", "startBle", "powerCycle", "deepSleep"}

ASSUME CommandsKnown ==
  Commands \subseteq {"start", "stop", "scan", "energy", "powerCycle"}

Tasks == {"control", "main"}

VARIABLES
  selected,   \* s_radio
  running,    \* the radios whose s_running is set
  enabled,    \* esp_ieee802154_enable has been called, and not disable
  owned,      \* 802.15.4 has the front end and Wi-Fi would be deaf
  dirty,      \* s_dirty_flag, in RTC memory
  driver,     \* the Wi-Fi driver is initialised
  inited,     \* s_wifi_inited
  listening,  \* promiscuous mode is on
  controller, \* the BLE controller is initialised and enabled
  bleUp,      \* s_controller_up
  cycle,      \* s_power_cycle_requested
  booting,    \* app_main has not yet started the control task
  todo,       \* the calls left to each task
  step,       \* where each task is in the first of them
  unflagged, failed, overlapped  \* history only

ieee == <<enabled, owned, dirty>>
wifi == <<driver, inited, listening>>
ble == <<controller, bleUp>>
tasks == <<cycle, booting>>
history == <<unflagged, failed, overlapped>>
vars == <<selected, running, ieee, wifi, ble, tasks, todo, step, history>>

Ready == [t \in Tasks |-> "ready"]

HandBackAtBoot == <<"start154", "stop154">>

Init ==
  /\ selected = "ieee" /\ running = {}
  /\ enabled = FALSE /\ owned = FALSE /\ dirty = FALSE
  /\ driver = FALSE /\ inited = FALSE /\ listening = FALSE
  /\ controller = FALSE /\ bleUp = FALSE
  /\ cycle = FALSE /\ booting = TRUE
  /\ todo = [t \in Tasks |-> <<>>]
  /\ step = Ready
  /\ unflagged = FALSE /\ failed = FALSE /\ overlapped = FALSE

-----------------------------------------------------------------------------
(* Plans.                                                                  *)

StopsNoBle == <<"stop154", "stopWifi">>              \* mutant: BLE forgotten
StopAll == <<"stop154", "stopWifi", "stopBle">>

ScanOverCapture == <<"stop154", "scan">>             \* mutant: capture marked
Scan == <<"stop154", "stopWifi", "scan">>            \* running over a scan

NamesRadio(value) == value \in Radios

\* on_command.  A value of SET_RADIO that names a radio is the call that
\* selects it.
Plan(command) ==
  CASE command = "stop" -> StopAll
    [] command = "scan" -> Scan
    [] command = "energy" -> <<"energy">>
    [] command = "powerCycle" -> <<"powerCycle">>
    [] command = "start" /\ selected = "ble" ->
         <<"stop154", "stopWifi", "startBle">>
    [] command = "start" /\ selected = "wifi" -> <<"stop154", "startWifi">>
    [] OTHER -> <<"start154">>

Idle(t) == todo[t] = <<>>

\* A command arrives.  The host that asks for a power cycle sends nothing
\* more: it closes the port and waits for the board to come back.
Accept(plan) ==
  /\ ~booting /\ ~cycle /\ Idle("control")
  /\ todo' = [todo EXCEPT !["control"] = plan]
  /\ overlapped' = (overlapped \/ ~Idle("main"))
  /\ UNCHANGED <<selected, running, ieee, wifi, ble, tasks, step>>
  /\ UNCHANGED <<unflagged, failed>>

Command == \E command \in Commands : Accept(Plan(command))

SetRadio ==
  \E value \in Radios \cup Others :
    NamesRadio(value) /\ Accept(Append(StopAll, value))

\* The main task's loop, once a second: a power cycle asked for comes first.
WaitsForQuiet == cycle /\ running = {}   \* mutant: radios first
PowerCycleDue == cycle

MainLoop(plan) ==
  /\ ~booting /\ Idle("main")
  /\ todo' = [todo EXCEPT !["main"] = plan]
  /\ overlapped' = (overlapped \/ ~Idle("control"))
  /\ UNCHANGED <<selected, running, ieee, wifi, ble, tasks, step>>
  /\ UNCHANGED <<unflagged, failed>>

PowerCycle == PowerCycleDue /\ MainLoop(<<"stop154", "stopWifi", "deepSleep">>)

\* sn_radio80211_service finds its receiver deaf for long enough.
Service ==
  /\ ~cycle /\ selected = "wifi" /\ "wifi" \in running
  /\ MainLoop(<<"rebuild", "startWifi">>)

\* app_main has handed the front end back, and starts the control task.
BootDone ==
  /\ booting /\ Idle("main")
  /\ booting' = FALSE
  /\ UNCHANGED <<selected, running, ieee, wifi, ble, cycle, todo, step>>
  /\ UNCHANGED history

-----------------------------------------------------------------------------
(* Steps of calls.                                                         *)

At(t, call, where) ==
  /\ todo[t] # <<>> /\ Head(todo[t]) = call
  /\ step[t] = where

On(t, where) == /\ step' = [step EXCEPT ![t] = where]
                /\ UNCHANGED <<todo, failed>>

Return(t) == /\ todo' = [todo EXCEPT ![t] = Tail(todo[t])]
             /\ step' = [step EXCEPT ![t] = "ready"]
             /\ UNCHANGED failed

\* A call fails, and the plan with it.
Fail(t) == /\ todo' = [todo EXCEPT ![t] = <<>>]
           /\ step' = [step EXCEPT ![t] = "ready"]
           /\ failed' = TRUE

\* esp_ieee802154_sleep and disable: what gives the front end back.
DisableOnly == enabled' = FALSE /\ UNCHANGED <<owned, unflagged>>   \* mutant
SleepAndDisable ==
  /\ enabled' = FALSE /\ owned' = FALSE
  /\ unflagged' = FALSE

\* sn_radio154_stop.
Stop154(t) ==
  /\ \/ /\ At(t, "stop154", "ready") /\ "ieee" \notin running
        /\ Return(t)
        /\ UNCHANGED <<running, ieee, unflagged>>
     \/ /\ At(t, "stop154", "ready") /\ "ieee" \in running
        /\ SleepAndDisable
        /\ On(t, "clear")
        /\ UNCHANGED <<running, dirty>>
     \/ /\ At(t, "stop154", "clear")
        /\ dirty' = FALSE
        /\ running' = running \ {"ieee"}
        /\ Return(t)
        /\ UNCHANGED <<enabled, owned, unflagged>>
  /\ UNCHANGED <<selected, wifi, ble, tasks, overlapped>>

NeverMarks == "arm"                  \* mutant: the flag is forgotten
AfterEnable == "mark"

\* sn_radio154_start: a retune if it runs already.
Start154(t) ==
  /\ \/ /\ At(t, "start154", "ready") /\ "ieee" \in running
        /\ Return(t) \/ Fail(t)
        /\ UNCHANGED <<running, ieee, unflagged>>
     \/ /\ At(t, "start154", "ready") /\ "ieee" \notin running
        /\ \/ Fail(t) /\ UNCHANGED <<enabled, owned>>
           \/ enabled' = TRUE /\ owned' = TRUE /\ On(t, AfterEnable)
        /\ UNCHANGED <<running, dirty, unflagged>>
     \/ /\ At(t, "start154", "mark")
        /\ dirty' = TRUE
        /\ On(t, "arm")
        /\ UNCHANGED <<running, enabled, owned, unflagged>>
     \/ /\ At(t, "start154", "arm")
        /\ \/ Fail(t) /\ UNCHANGED running
           \/ Return(t) /\ running' = running \cup {"ieee"}
        /\ UNCHANGED <<ieee, unflagged>>
  /\ UNCHANGED <<selected, wifi, ble, tasks, overlapped>>

\* sn_radio154_energy_detect.  It enables the radio without the flag, leaves
\* it enabled if it cannot tune, and disables it without the sleep.
EnergyDetect(t) ==
  /\ \/ /\ At(t, "energy", "ready") /\ "ieee" \in running
        /\ Return(t) \/ Fail(t)
        /\ UNCHANGED <<enabled, owned, unflagged>>
     \/ /\ At(t, "energy", "ready") /\ "ieee" \notin running
        /\ \/ Fail(t) /\ UNCHANGED <<enabled, owned, unflagged>>
           \/ /\ enabled' = TRUE /\ owned' = TRUE
              /\ unflagged' = IF dirty THEN unflagged ELSE TRUE
              /\ On(t, "tune")
     \/ /\ At(t, "energy", "tune")
        /\ Fail(t) \/ On(t, "measure")
        /\ UNCHANGED <<enabled, owned, unflagged>>
     \/ /\ At(t, "energy", "measure")
        /\ enabled' = FALSE
        /\ Return(t) \/ Fail(t)
        /\ UNCHANGED <<owned, unflagged>>
  /\ UNCHANGED <<selected, running, dirty, wifi, ble, tasks, overlapped>>

\* sn_radio80211_stop: the driver stays up.
StopWifi(t) ==
  /\ At(t, "stopWifi", "ready")
  /\ listening' = (listening /\ "wifi" \notin running)
  /\ running' = running \ {"wifi"}
  /\ Return(t)
  /\ UNCHANGED <<selected, ieee, driver, inited, ble, tasks>>
  /\ UNCHANGED <<unflagged, overlapped>>

\* wifi_init_once.
InitWifi ==
  /\ driver' = (driver \/ ~inited)
  /\ inited' = TRUE

\* sn_radio80211_start: a retune if it runs already.  What it asks of a
\* driver that is not there aborts the board: see Abort.
StartWifi(t) ==
  /\ \/ /\ At(t, "startWifi", "ready") /\ "wifi" \in running
        /\ Return(t) \/ Fail(t)
        /\ UNCHANGED <<running, wifi>>
     \/ /\ At(t, "startWifi", "ready") /\ "wifi" \notin running
        /\ \/ Fail(t) /\ ~inited /\ UNCHANGED <<driver, inited>>
           \/ InitWifi /\ On(t, "armWifi")
        /\ UNCHANGED <<running, listening>>
     \/ /\ At(t, "startWifi", "armWifi") /\ driver
        /\ listening' = TRUE
        /\ running' = running \cup {"wifi"}
        /\ Return(t)
        /\ UNCHANGED <<driver, inited>>
  /\ UNCHANGED <<selected, ieee, ble, tasks, unflagged, overlapped>>

\* sn_radio80211_scan: the driver is brought up and stops listening.
ScanWifi(t) ==
  /\ At(t, "scan", "ready")
  /\ \/ Fail(t) /\ UNCHANGED wifi
     \/ InitWifi /\ listening' = FALSE /\ (Return(t) \/ Fail(t))
  /\ UNCHANGED <<selected, running, ieee, ble, tasks, unflagged, overlapped>>

\* The first half of a rebuild: the driver is taken down, then the flags.
Rebuild(t) ==
  /\ \/ /\ At(t, "rebuild", "ready")
        /\ driver' = FALSE /\ listening' = FALSE
        /\ On(t, "forget")
        /\ UNCHANGED <<running, inited>>
     \/ /\ At(t, "rebuild", "forget")
        /\ inited' = FALSE
        /\ running' = running \ {"wifi"}
        /\ Return(t)
        /\ UNCHANGED <<driver, listening>>
  /\ UNCHANGED <<selected, ieee, ble, tasks, unflagged, overlapped>>

\* sn_radio_ble_stop: the scan off, then the controller.
StopBle(t) ==
  /\ \/ /\ At(t, "stopBle", "ready") /\ ~bleUp
        /\ Return(t)
        /\ UNCHANGED <<running, ble>>
     \/ /\ At(t, "stopBle", "ready") /\ bleUp
        /\ running' = running \ {"ble"}
        /\ On(t, "release")
        /\ UNCHANGED ble
     \/ /\ At(t, "stopBle", "release")
        /\ controller' = FALSE /\ bleUp' = FALSE
        /\ Return(t)
        /\ UNCHANGED running
  /\ UNCHANGED <<selected, ieee, wifi, tasks, unflagged, overlapped>>

\* sn_radio_ble_start.  A controller that came up, but whose callbacks could
\* not be registered, is left enabled and cannot be initialised again.
StartBle(t) ==
  /\ \/ /\ At(t, "startBle", "ready") /\ "ble" \in running
        /\ Return(t)
        /\ UNCHANGED <<running, ble>>
     \/ /\ At(t, "startBle", "ready") /\ "ble" \notin running /\ ~bleUp
        /\ \/ Fail(t) /\ controller' \in {controller, TRUE} /\ UNCHANGED bleUp
           \/ /\ ~controller /\ controller' = TRUE
              /\ bleUp' = TRUE
              /\ On(t, "scanBle")
        /\ UNCHANGED running
     \/ /\ At(t, "startBle", "ready") /\ "ble" \notin running /\ bleUp
        /\ On(t, "scanBle")
        /\ UNCHANGED <<running, ble>>
     \/ /\ At(t, "startBle", "scanBle")
        /\ \/ Fail(t) /\ UNCHANGED running
           \/ Return(t) /\ running' = running \cup {"ble"}
        /\ UNCHANGED ble
  /\ UNCHANGED <<selected, ieee, wifi, tasks, unflagged, overlapped>>

\* SET_RADIO's last step.
Select(t) ==
  /\ todo[t] # <<>> /\ Head(todo[t]) \notin Calls /\ step[t] = "ready"
  /\ selected' = Head(todo[t])
  /\ Return(t)
  /\ UNCHANGED <<running, ieee, wifi, ble, tasks, unflagged, overlapped>>

RequestPowerCycle(t) ==
  /\ At(t, "powerCycle", "ready")
  /\ cycle' = TRUE
  /\ Return(t)
  /\ UNCHANGED <<selected, running, ieee, wifi, ble, booting>>
  /\ UNCHANGED <<unflagged, overlapped>>

Call(t) ==
  \/ Stop154(t) \/ Start154(t) \/ EnergyDetect(t)
  \/ StopWifi(t) \/ StartWifi(t) \/ ScanWifi(t) \/ Rebuild(t)
  \/ StopBle(t) \/ StartBle(t)
  \/ Select(t) \/ RequestPowerCycle(t)

-----------------------------------------------------------------------------
(* Resets.                                                                 *)

Marking == \E t \in Tasks : step[t] = "mark"

NoHandBack(flag) == <<>>      \* mutant: SN_154_NO_BOOT_HANDBACK
BootPlan(flag) == IF flag THEN HandBackAtBoot ELSE <<>>

\* Everything but the RTC flag starts again.
Restart ==
  /\ selected' = "ieee" /\ running' = {} /\ enabled' = FALSE
  /\ driver' = FALSE /\ inited' = FALSE /\ listening' = FALSE
  /\ controller' = FALSE /\ bleUp' = FALSE
  /\ cycle' = FALSE /\ booting' = TRUE
  /\ todo' = [t \in Tasks |-> IF t = "main" THEN BootPlan(dirty) ELSE <<>>]
  /\ step' = Ready
  /\ failed' = FALSE /\ overlapped' = FALSE
  /\ UNCHANGED dirty

\* The port is opened, or the board crashes.  The front end stays held.
Reset ==
  /\ Restart
  /\ unflagged' = (unflagged \/ (Marking /\ ~dirty))
  /\ UNCHANGED owned

\* ESP_ERROR_CHECK on a driver the other task has taken down.
Abort ==
  /\ \E t \in Tasks : At(t, "startWifi", "armWifi") /\ ~driver
  /\ Reset

\* Waking is a boot.  Losing power usually frees the front end.
DeepSleep ==
  /\ At("main", "deepSleep", "ready")
  /\ Restart
  /\ owned' \in {owned, FALSE}
  /\ unflagged' = (unflagged /\ owned')

-----------------------------------------------------------------------------
ControlStep == Call("control")
MainStep == Call("main") \/ PowerCycle \/ BootDone \/ DeepSleep \/ Abort

Next ==
  \/ Command \/ SetRadio \/ Service
  \/ ControlStep \/ MainStep
  \/ Reset

Spec == Init /\ [][Next]_vars

\* FreeRTOS runs both tasks in the end.
FairSpec == Spec /\ WF_vars(ControlStep) /\ WF_vars(MainStep)

-----------------------------------------------------------------------------
(* What is checked.                                                        *)

Steps == {"ready", "clear", "mark", "arm", "tune", "measure", "armWifi",
          "forget", "release", "scanBle"}

(* The types of the variables: only SET_RADIO's three values select.       *)
TypeOK ==
  /\ selected \in Radios /\ running \in SUBSET Radios
  /\ enabled \in BOOLEAN /\ owned \in BOOLEAN /\ dirty \in BOOLEAN
  /\ driver \in BOOLEAN /\ inited \in BOOLEAN /\ listening \in BOOLEAN
  /\ controller \in BOOLEAN /\ bleUp \in BOOLEAN
  /\ cycle \in BOOLEAN /\ booting \in BOOLEAN
  /\ todo \in [Tasks -> Seq(Calls \cup Radios)]
  /\ step \in [Tasks -> Steps]
  /\ unflagged \in BOOLEAN /\ failed \in BOOLEAN /\ overlapped \in BOOLEAN

(* The flag a boot looks at is up whenever 802.15.4 has the front end, but *)
(* for two ways the code leaves open: an energy measurement, and a reset   *)
(* between enabling the radio and raising the flag.  No interleaving of    *)
(* the two tasks and no failed call adds a third.                          *)
OwnedIsFlagged == owned => dirty \/ unflagged \/ Marking

(* With no such exception the flag's own comment, "True while this radio   *)
(* owns the shared 2.4 GHz front end": an energy measurement owns it       *)
(* without the flag, and leaves it owned.                                  *)
FlagMeansOwned == owned => dirty \/ Marking

AllIdle == ~booting /\ \A t \in Tasks : Idle(t)

(* Whenever the board is idle and is not capturing 802.15.4, that radio    *)
(* has given the front end back, whatever resets and power cycles came     *)
(* before, unless a driver call failed since the boot.                     *)
HandedBack ==
  AllIdle /\ "ieee" \notin running /\ ~failed /\ ~unflagged
    => ~owned /\ ~dirty

(* One radio at a time: selecting a radio stops the others.  It fails only *)
(* where a rebuild of the Wi-Fi driver and a command overlap.              *)
OneRadio == ~overlapped => \A r, q \in running : r = q

(* main.c: "One radio at a time, always."  A rebuild under way when the    *)
(* host stops Wi-Fi or selects another radio starts Wi-Fi all the same.    *)
AlwaysOneRadio == \A r, q \in running : r = q

(* A Wi-Fi capture marked running is in promiscuous mode whenever the      *)
(* board is idle: a retune would not put it back.                          *)
CaptureListens ==
  AllIdle /\ ~overlapped /\ "wifi" \in running => listening /\ driver

(* A boot in which every call succeeds ends with the front end free and    *)
(* the flag down.                                                          *)
BootCures ==
  [][booting /\ ~booting' /\ ~failed /\ ~unflagged => ~owned' /\ ~dirty']_vars

(* A power cycle that was asked for happens: the main task is never kept   *)
(* from it by a capture or a rebuild.                                      *)
PowerCycleHappens == cycle ~> booting
=============================================================================
