--------------------------- MODULE FrontEndProofs ---------------------------
(***************************************************************************)
(* Proofs about the front end, for any set of commands: the types, that    *)
(* nothing but the two gaps named in OwnedIsFlagged leaves the front end   *)
(* held with the flag down, that a board at rest has handed it back, that  *)
(* a boot without a failure cures it, that one radio runs at a time and    *)
(* that a Wi-Fi capture listens.                                           *)
(***************************************************************************)
EXTENDS FrontEnd, SequenceTheorems, TLAPS

\* The first call of a plan, and what is left of it.
LEMMA Ends ==
  ASSUME NEW S, NEW q \in Seq(S), q # <<>>
  PROVE  Head(q) \in S /\ Tail(q) \in Seq(S)
  OBVIOUS

LEMMA Shorter ==
  ASSUME NEW S, NEW q \in Seq(S), q # <<>>, NEW r \in {q, Tail(q), <<>>}
  PROVE  r \in Seq(S)
<1>1. <<>> \in Seq(S)
  OBVIOUS
<1>2. QED
  BY <1>1, Ends

CallsOrRadios == Calls \cup Radios

\* What on_command asks of the radios; a power cycle it asks for by itself.
CommandPlans == Seq(CallsOrRadios \ {"powerCycle"}) \cup {<<"powerCycle">>}

LEMMA CommandPlansType == CommandPlans \subseteq Seq(CallsOrRadios)
<1> SUFFICES ASSUME NEW q \in CommandPlans PROVE q \in Seq(CallsOrRadios)
  OBVIOUS
<1>1. CASE q \in Seq(CallsOrRadios \ {"powerCycle"})
  BY <1>1
<1>2. CASE q = <<"powerCycle">>
  BY <1>2 DEF CallsOrRadios, Calls
<1>3. QED
  BY <1>1, <1>2 DEF CommandPlans

LEMMA PlansAre ==
  ASSUME NEW c \in Commands
  PROVE  Plan(c) \in CommandPlans
<1> USE CommandsKnown DEF StopAll, Scan, Calls, CallsOrRadios, CommandPlans
<1>1. CASE c = "stop"
  BY <1>1 DEF Plan
<1>2. CASE c = "scan"
  BY <1>2 DEF Plan
<1>3. CASE c = "energy"
  BY <1>3 DEF Plan
<1>4. CASE c = "powerCycle"
  BY <1>4 DEF Plan
<1>5. CASE c = "start"
  <2>1. CASE selected = "ble"
    BY <1>5, <2>1 DEF Plan
  <2>2. CASE selected = "wifi"
    BY <1>5, <2>2 DEF Plan
  <2>3. CASE selected \notin {"ble", "wifi"}
    <3>1. Plan(c) = <<"start154">>
      BY <1>5, <2>3 DEF Plan
    <3>2. QED
      BY <3>1
  <2>4. QED
    BY <2>1, <2>2, <2>3
<1>6. QED
  BY <1>1, <1>2, <1>3, <1>4, <1>5

LEMMA SetRadioPlan ==
  ASSUME NEW r \in Radios
  PROVE  Append(StopAll, r) \in CommandPlans
<1>1. r # "powerCycle"
  BY DEF Radios
<1>2. QED
  BY <1>1 DEF StopAll, Calls, CallsOrRadios, CommandPlans

-----------------------------------------------------------------------------
(* Types.                                                                  *)

\* How a step of a call leaves the plans.
Moves(t) == Return(t) \/ Fail(t) \/ \E w \in Steps : On(t, w)

LEMMA MovesType ==
  ASSUME TypeOK, NEW t \in Tasks, todo[t] # <<>>, Moves(t)
  PROVE  /\ todo' \in [Tasks -> Seq(CallsOrRadios)]
         /\ step' \in [Tasks -> Steps]
         /\ failed' \in BOOLEAN
<1>1. Tail(todo[t]) \in Seq(CallsOrRadios)
  BY Ends DEF TypeOK, CallsOrRadios
<1>2. <<>> \in Seq(CallsOrRadios)
  OBVIOUS
<1>3. CASE Return(t)
  BY <1>1, <1>3 DEF Return, TypeOK, CallsOrRadios, Steps
<1>4. CASE Fail(t)
  BY <1>2, <1>4 DEF Fail, TypeOK, CallsOrRadios, Steps
<1>5. ASSUME NEW w \in Steps, On(t, w)
      PROVE  /\ todo' \in [Tasks -> Seq(CallsOrRadios)]
             /\ step' \in [Tasks -> Steps]
             /\ failed' \in BOOLEAN
  BY <1>5 DEF On, TypeOK, CallsOrRadios
<1>6. QED
  BY <1>3, <1>4, <1>5 DEF Moves

LEMMA RestartType ==
  ASSUME TypeOK, Restart
  PROVE  /\ selected' \in Radios /\ running' \in SUBSET Radios
         /\ enabled' \in BOOLEAN /\ dirty' \in BOOLEAN
         /\ driver' \in BOOLEAN /\ inited' \in BOOLEAN
         /\ listening' \in BOOLEAN
         /\ controller' \in BOOLEAN /\ bleUp' \in BOOLEAN
         /\ cycle' \in BOOLEAN /\ booting' \in BOOLEAN
         /\ todo' \in [Tasks -> Seq(CallsOrRadios)]
         /\ step' \in [Tasks -> Steps]
         /\ failed' \in BOOLEAN /\ overlapped' \in BOOLEAN
<1>1. BootPlan(dirty) \in Seq(CallsOrRadios)
  <2>1. HandBackAtBoot \in Seq(CallsOrRadios) /\ <<>> \in Seq(CallsOrRadios)
    BY DEF HandBackAtBoot, Calls, CallsOrRadios
  <2>2. QED
    BY <2>1, Zenon DEF BootPlan
<1>2. \A t \in Tasks :
        (IF t = "main" THEN BootPlan(dirty) ELSE <<>>) \in Seq(CallsOrRadios)
  BY <1>1
<1>3. todo' \in [Tasks -> Seq(CallsOrRadios)]
  <2> DEFINE plan(t) == IF t = "main" THEN BootPlan(dirty) ELSE <<>>
  <2>1. \A t \in Tasks : plan(t) \in Seq(CallsOrRadios)
    BY <1>2
  <2>2. todo' = [t \in Tasks |-> plan(t)]
    BY DEF Restart
  <2> HIDE DEF plan
  <2>3. QED
    BY <2>1, <2>2
<1>4. step' \in [Tasks -> Steps]
  BY DEF Restart, Ready, Steps
<1>5. selected' \in Radios /\ running' \in SUBSET Radios
  BY DEF Restart, Radios
<1>6. /\ enabled' \in BOOLEAN /\ dirty' \in BOOLEAN
      /\ driver' \in BOOLEAN /\ inited' \in BOOLEAN /\ listening' \in BOOLEAN
      /\ controller' \in BOOLEAN /\ bleUp' \in BOOLEAN
      /\ cycle' \in BOOLEAN /\ booting' \in BOOLEAN
      /\ failed' \in BOOLEAN /\ overlapped' \in BOOLEAN
  BY DEF Restart, TypeOK
<1>7. QED
  BY <1>3, <1>4, <1>5, <1>6

\* TypeOK but for the plans, a part for each group actions leave alone.
RadioTypes == selected \in Radios /\ running \in SUBSET Radios
IeeeTypes == enabled \in BOOLEAN /\ owned \in BOOLEAN /\ dirty \in BOOLEAN
WifiTypes == driver \in BOOLEAN /\ inited \in BOOLEAN /\ listening \in BOOLEAN
BleTypes == controller \in BOOLEAN /\ bleUp \in BOOLEAN
TaskTypes == cycle \in BOOLEAN /\ booting \in BOOLEAN
UnflaggedType == unflagged \in BOOLEAN
OverlappedType == overlapped \in BOOLEAN
FlagTypes ==
  /\ IeeeTypes /\ WifiTypes /\ BleTypes /\ TaskTypes
  /\ UnflaggedType /\ OverlappedType

PlanTypes ==
  /\ todo \in [Tasks -> Seq(CallsOrRadios)] /\ step \in [Tasks -> Steps]
  /\ failed \in BOOLEAN

LEMMA TypeParts == TypeOK <=> RadioTypes /\ FlagTypes /\ PlanTypes
  BY DEF TypeOK, RadioTypes, FlagTypes, IeeeTypes, WifiTypes, BleTypes,
     TaskTypes, UnflaggedType, OverlappedType, PlanTypes, CallsOrRadios

LEMMA TypePartsNext == TypeOK' <=> RadioTypes' /\ FlagTypes' /\ PlanTypes'
  BY DEF TypeOK, RadioTypes, FlagTypes, IeeeTypes, WifiTypes, BleTypes,
     TaskTypes, UnflaggedType, OverlappedType, PlanTypes, CallsOrRadios

\* A group left alone keeps its types.
LEMMA LeftAlone ==
  ASSUME FlagTypes
  PROVE  /\ UNCHANGED ieee => IeeeTypes'
         /\ UNCHANGED wifi => WifiTypes'
         /\ UNCHANGED ble => BleTypes'
         /\ UNCHANGED tasks => TaskTypes'
         /\ UNCHANGED unflagged => UnflaggedType'
         /\ UNCHANGED overlapped => OverlappedType'
<1>1. UNCHANGED ieee => IeeeTypes'
  BY DEF FlagTypes, IeeeTypes, ieee
<1>2. UNCHANGED wifi => WifiTypes'
  BY DEF FlagTypes, WifiTypes, wifi
<1>3. UNCHANGED ble => BleTypes'
  BY DEF FlagTypes, BleTypes, ble
<1>4. UNCHANGED tasks => TaskTypes'
  BY DEF FlagTypes, TaskTypes, tasks
<1>5. UNCHANGED unflagged => UnflaggedType'
  BY DEF FlagTypes, UnflaggedType
<1>6. UNCHANGED overlapped => OverlappedType'
  BY DEF FlagTypes, OverlappedType
<1>7. QED
  BY <1>1, <1>2, <1>3, <1>4, <1>5, <1>6

LEMMA CallType ==
  ASSUME TypeOK, NEW t \in Tasks, Call(t)
  PROVE  TypeOK'
<1>1. todo[t] # <<>>
  BY DEF Call, Stop154, Start154, EnergyDetect, StopWifi, StartWifi, ScanWifi,
         Rebuild, StopBle, StartBle, Select, RequestPowerCycle, At
<1>2. Moves(t)
  BY DEF Call, Stop154, Start154, EnergyDetect, StopWifi, StartWifi, ScanWifi,
         Rebuild, StopBle, StartBle, Select, RequestPowerCycle,
         AfterEnable, Moves, Steps
<1>3. /\ todo' \in [Tasks -> Seq(CallsOrRadios)]
      /\ step' \in [Tasks -> Steps]
      /\ failed' \in BOOLEAN
  BY <1>1, <1>2, MovesType
<1>4. RadioTypes'
  <2>1. CASE Select(t)
    <3>1. Head(todo[t]) \in CallsOrRadios
      BY <1>1, Ends DEF TypeOK, CallsOrRadios
    <3>2. QED
      BY <2>1, <3>1 DEF Select, CallsOrRadios, TypeOK, RadioTypes
  <2>2. CASE ~Select(t)
    <3>1. selected' = selected
      BY <2>2 DEF Call, Stop154, Start154, EnergyDetect, StopWifi, StartWifi,
             ScanWifi, Rebuild, StopBle, StartBle, RequestPowerCycle
    <3>2. running' \in {running} \cup {running \ {r} : r \in Radios}
                         \cup {running \cup {r} : r \in Radios}
      BY <2>2 DEF Call, Stop154, Start154, EnergyDetect, StopWifi, StartWifi,
             ScanWifi, Rebuild, StopBle, StartBle, RequestPowerCycle, Radios
    <3>3. QED
      BY <3>1, <3>2 DEF TypeOK, RadioTypes
  <2>3. QED
    BY <2>1, <2>2
<1>5. FlagTypes'
  <2> FlagTypes
    BY TypeParts
  <2>1. CASE Stop154(t)
    <3>1. IeeeTypes'
      BY <2>1 DEF Stop154, SleepAndDisable, FlagTypes, IeeeTypes, ieee
    <3>2. UnflaggedType'
      BY <2>1 DEF Stop154, SleepAndDisable, FlagTypes, UnflaggedType
    <3>3. QED
      BY <2>1, <3>1, <3>2, LeftAlone DEF Stop154, FlagTypes
  <2>2. CASE Start154(t)
    <3>1. IeeeTypes'
      BY <2>2 DEF Start154, FlagTypes, IeeeTypes, ieee
    <3>2. UNCHANGED unflagged
      BY <2>2 DEF Start154
    <3>3. QED
      BY <2>2, <3>1, <3>2, LeftAlone DEF Start154, FlagTypes
  <2>3. CASE EnergyDetect(t)
    <3>1. IeeeTypes'
      BY <2>3 DEF EnergyDetect, FlagTypes, IeeeTypes
    <3>2. UnflaggedType'
      BY <2>3 DEF EnergyDetect, FlagTypes, UnflaggedType
    <3>3. QED
      BY <2>3, <3>1, <3>2, LeftAlone DEF EnergyDetect, FlagTypes
  <2>4. CASE StopWifi(t) \/ StartWifi(t) \/ ScanWifi(t) \/ Rebuild(t)
    <3>1. ASSUME StopWifi(t) PROVE WifiTypes'
      BY <3>1 DEF StopWifi, FlagTypes, WifiTypes
    <3>2. ASSUME StartWifi(t) PROVE WifiTypes'
      BY <3>2 DEF StartWifi, InitWifi, FlagTypes, WifiTypes, wifi
    <3>3. ASSUME ScanWifi(t) PROVE WifiTypes'
      BY <3>3 DEF ScanWifi, InitWifi, FlagTypes, WifiTypes, wifi
    <3>4. ASSUME Rebuild(t) PROVE WifiTypes'
      BY <3>4 DEF Rebuild, FlagTypes, WifiTypes
    <3>5. WifiTypes'
      BY <2>4, <3>1, <3>2, <3>3, <3>4
    <3>6. UNCHANGED <<ieee, ble, tasks, unflagged, overlapped>>
      BY <2>4 DEF StopWifi, StartWifi, ScanWifi, Rebuild
    <3>7. QED
      BY <3>5, <3>6, LeftAlone DEF FlagTypes
  <2>5. CASE StopBle(t) \/ StartBle(t)
    <3>1. BleTypes'
      BY <2>5 DEF StopBle, StartBle, FlagTypes, BleTypes, ble
    <3>2. UNCHANGED <<ieee, wifi, tasks, unflagged, overlapped>>
      BY <2>5 DEF StopBle, StartBle
    <3>3. QED
      BY <3>1, <3>2, LeftAlone DEF FlagTypes
  <2>6. CASE Select(t)
    BY <2>6, LeftAlone DEF Select, FlagTypes
  <2>7. CASE RequestPowerCycle(t)
    <3>1. TaskTypes'
      BY <2>7 DEF RequestPowerCycle, FlagTypes, TaskTypes
    <3>2. QED
      BY <2>7, <3>1, LeftAlone DEF RequestPowerCycle, FlagTypes
  <2>8. QED
    BY <2>1, <2>2, <2>3, <2>4, <2>5, <2>6, <2>7 DEF Call
<1>6. QED
  BY <1>3, <1>4, <1>5, TypePartsNext DEF PlanTypes

\* A plan handed to a task.
LEMMA NewPlanType ==
  ASSUME TypeOK, NEW plan \in Seq(CallsOrRadios),
         Accept(plan) \/ MainLoop(plan)
  PROVE  TypeOK'
<1>1. todo' \in [Tasks -> Seq(CallsOrRadios)]
  BY DEF Accept, MainLoop, TypeOK, CallsOrRadios
<1>2. /\ UNCHANGED <<selected, running, step, failed>>
      /\ UNCHANGED <<ieee, wifi, ble, tasks, unflagged>>
  BY DEF Accept, MainLoop
<1>3. OverlappedType'
  BY DEF Accept, MainLoop, TypeOK, OverlappedType
<1>4. RadioTypes /\ FlagTypes /\ PlanTypes
  BY TypeParts
<1>5. FlagTypes'
  BY <1>2, <1>3, <1>4, LeftAlone DEF FlagTypes
<1>6. RadioTypes' /\ PlanTypes'
  BY <1>1, <1>2, <1>4 DEF RadioTypes, PlanTypes
<1>7. QED
  BY <1>5, <1>6, TypePartsNext

LEMMA TypeStart == Init => TypeOK
<1> SUFFICES ASSUME Init PROVE TypeOK
  OBVIOUS
<1>1. RadioTypes /\ FlagTypes /\ failed \in BOOLEAN
  BY DEF Init, RadioTypes, FlagTypes, IeeeTypes, WifiTypes, BleTypes,
     TaskTypes, UnflaggedType, OverlappedType, Radios
<1>2. todo \in [Tasks -> Seq(Calls \cup Radios)]
  BY DEF Init
<1>3. step \in [Tasks -> Steps]
  BY DEF Init, Ready, Steps
<1>4. QED
  BY <1>1, <1>2, <1>3, TypeParts DEF PlanTypes, CallsOrRadios

LEMMA TypeStep == TypeOK /\ [Next]_vars => TypeOK'
<1> SUFFICES ASSUME TypeOK, [Next]_vars PROVE TypeOK'
  OBVIOUS
<1>1. CASE Command
  BY <1>1, PlansAre, CommandPlansType, NewPlanType DEF Command
<1>2. CASE SetRadio
  BY <1>2, SetRadioPlan, CommandPlansType, NewPlanType
     DEF SetRadio, NamesRadio
<1>3. CASE Service
  <2>1. <<"rebuild", "startWifi">> \in Seq(CallsOrRadios)
    BY DEF CallsOrRadios, Calls
  <2>2. QED
    BY <1>3, <2>1, NewPlanType DEF Service
<1>4. CASE PowerCycle
  <2>1. <<"stop154", "stopWifi", "deepSleep">> \in Seq(CallsOrRadios)
    BY DEF CallsOrRadios, Calls
  <2>2. QED
    BY <1>4, <2>1, NewPlanType DEF PowerCycle
<1>5. ASSUME NEW t \in Tasks, Call(t) PROVE TypeOK'
  BY <1>5, CallType
<1>6. CASE BootDone
  <2>1. TaskTypes'
    BY <1>6 DEF BootDone, TypeOK, TaskTypes
  <2>2. UNCHANGED <<unflagged, overlapped, failed>>
    BY <1>6 DEF BootDone, history
  <2>3. RadioTypes' /\ PlanTypes'
    BY <1>6, <2>2, TypeParts DEF BootDone, RadioTypes, PlanTypes
  <2>4. FlagTypes'
    BY <1>6, <2>1, <2>2, TypeParts, LeftAlone DEF BootDone, FlagTypes
  <2>5. QED
    BY <2>3, <2>4, TypePartsNext
<1>7. CASE DeepSleep
  <2>1. owned' \in BOOLEAN /\ unflagged' \in BOOLEAN
    BY <1>7 DEF DeepSleep, TypeOK
  <2>2. Restart
    BY <1>7 DEF DeepSleep
  <2>3. QED
    BY <2>1, <2>2, RestartType DEF TypeOK, CallsOrRadios
<1>8. CASE Reset
  <2>1. owned' \in BOOLEAN /\ unflagged' \in BOOLEAN
    BY <1>8 DEF Reset, TypeOK
  <2>2. Restart
    BY <1>8 DEF Reset
  <2>3. QED
    BY <2>1, <2>2, RestartType DEF TypeOK, CallsOrRadios
<1>9. CASE UNCHANGED vars
  <2>1. RadioTypes' /\ PlanTypes' /\ UNCHANGED <<unflagged, overlapped>>
    BY <1>9, TypeParts DEF vars, history, RadioTypes, PlanTypes
  <2>2. FlagTypes'
    BY <1>9, <2>1, TypeParts, LeftAlone DEF vars, FlagTypes
  <2>3. QED
    BY <2>1, <2>2, TypePartsNext
<1>10. QED
  BY <1>1, <1>2, <1>3, <1>4, <1>5, <1>6, <1>7, <1>8, <1>9
     DEF Next, ControlStep, MainStep, Abort, Tasks

(* The variables keep their types; in particular only the three radios are *)
(* ever selected.                                                          *)
THEOREM TypeCorrect == Spec => []TypeOK
<1>1. QED
  BY TypeStart, TypeStep, PTL DEF Spec

-----------------------------------------------------------------------------
(* Which task may be where.                                                *)

\* The main task has 802.15.4 to itself.
Alone == booting \/ cycle

WifiCalls == {"rebuild", "startWifi"}

\* The control task has nothing to do then.
ControlQuiet == Alone => Idle("control") /\ step["control"] = "ready"

\* A power cycle is asked for by a command of its own.
PowerLast == todo["control"] \in CommandPlans

\* Otherwise the main task only rebuilds the Wi-Fi driver.
MainOnWifi ==
  ~Alone => /\ todo["main"] \in Seq(WifiCalls)
            /\ step["main"] \in {"ready", "forget", "armWifi"}

\* A boot starts and stops 802.15.4, or does nothing.
BootCalls ==
  booting => \/ /\ todo["main"] = HandBackAtBoot /\ "ieee" \notin running
                /\ step["main"] \in {"ready", "mark", "arm"}
             \/ /\ todo["main"] = <<"stop154">>
                /\ step["main"] \in {"ready", "clear"}
             \/ /\ Idle("main") /\ "ieee" \notin running
                /\ step["main"] = "ready"

StepsInCalls == \A t \in Tasks : Idle(t) => step[t] = "ready"

Plans ==
  ControlQuiet /\ PowerLast /\ MainOnWifi /\ BootCalls /\ StepsInCalls

\* A step that asks for a power cycle.
CycleAsked(t) ==
  /\ Head(todo[t]) = "powerCycle"
  /\ todo'[t] = Tail(todo[t]) /\ step'[t] = "ready"

\* What a step of a call does to the plan of its task.
LEMMA Moved ==
  ASSUME TypeOK, NEW t \in Tasks, Call(t)
  PROVE  /\ todo[t] # <<>>
         /\ todo'[t] \in {todo[t], Tail(todo[t]), <<>>}
         /\ todo'[t] = <<>> => step'[t] = "ready"
         /\ \A u \in Tasks \ {t} : todo'[u] = todo[u] /\ step'[u] = step[u]
         /\ booting' = booting
         /\ cycle => cycle'
         /\ cycle' => cycle \/ CycleAsked(t)
<1>1. todo[t] # <<>>
  BY DEF Call, Stop154, Start154, EnergyDetect, StopWifi, StartWifi, ScanWifi,
         Rebuild, StopBle, StartBle, Select, RequestPowerCycle, At
<1>2. Return(t) \/ Fail(t) \/ \E w \in Steps : On(t, w)
  BY DEF Call, Stop154, Start154, EnergyDetect, StopWifi, StartWifi, ScanWifi,
         Rebuild, StopBle, StartBle, Select, RequestPowerCycle,
         AfterEnable, Steps
<1>3. /\ todo'[t] \in {todo[t], Tail(todo[t]), <<>>}
      /\ todo'[t] = <<>> => step'[t] = "ready"
      /\ \A u \in Tasks \ {t} : todo'[u] = todo[u] /\ step'[u] = step[u]
  <2>1. CASE Return(t)
    BY <2>1 DEF Return, TypeOK
  <2>2. CASE Fail(t)
    BY <2>2 DEF Fail, TypeOK
  <2>3. ASSUME NEW w \in Steps, On(t, w) PROVE <1>3!1 /\ <1>3!2 /\ <1>3!3
    BY <1>1, <2>3 DEF On, TypeOK
  <2>4. QED
    BY <1>2, <2>1, <2>2, <2>3
<1>4. booting' = booting
  BY DEF Call, Stop154, Start154, EnergyDetect, StopWifi, StartWifi, ScanWifi,
         Rebuild, StopBle, StartBle, Select, RequestPowerCycle, tasks
<1>5. (cycle => cycle') /\ (cycle' => cycle \/ CycleAsked(t))
  <2>1. CASE RequestPowerCycle(t)
    <3>1. CycleAsked(t)
      BY <2>1 DEF RequestPowerCycle, At, Return, TypeOK, CycleAsked
    <3>2. cycle' = TRUE
      BY <2>1 DEF RequestPowerCycle
    <3>3. QED
      BY <3>1, <3>2
  <2>2. CASE ~RequestPowerCycle(t)
    <3>1. cycle' = cycle
      BY <2>2 DEF Call, Stop154, Start154, EnergyDetect, StopWifi, StartWifi,
             ScanWifi, Rebuild, StopBle, StartBle, Select, tasks
    <3>2. QED
      BY <3>1
  <2>3. QED
    BY <2>1, <2>2
<1>6. QED
  BY <1>1, <1>3, <1>4, <1>5

LEMMA ControlPlans ==
  ASSUME TypeOK, Plans, Call("control")
  PROVE  Plans'
<1> USE DEF Plans
<1>1. "control" \in Tasks /\ "main" \in Tasks \ {"control"}
  BY DEF Tasks
<1>2. /\ todo["control"] # <<>>
      /\ todo'["control"] \in {todo["control"], Tail(todo["control"]), <<>>}
      /\ todo'["control"] = <<>> => step'["control"] = "ready"
      /\ todo'["main"] = todo["main"] /\ step'["main"] = step["main"]
      /\ booting' = booting
      /\ cycle => cycle'
      /\ cycle' => cycle \/ CycleAsked("control")
  BY <1>1, Moved
<1>3. ~booting /\ ~cycle
  BY <1>2 DEF ControlQuiet, Alone, Idle
<1>4. PowerLast'
  <2>1. CASE todo["control"] \in Seq(CallsOrRadios \ {"powerCycle"})
    <3>1. todo'["control"] \in Seq(CallsOrRadios \ {"powerCycle"})
      BY <1>2, <2>1, Shorter, Zenon
    <3>2. QED
      BY <3>1 DEF PowerLast, CommandPlans
  <2>2. CASE todo["control"] = <<"powerCycle">>
    <3>1. Tail(todo["control"]) = <<>>
      BY <2>2
    <3>2. <<>> \in Seq(CallsOrRadios \ {"powerCycle"})
      OBVIOUS
    <3>3. QED
      BY <1>2, <2>2, <3>1, <3>2 DEF PowerLast, CommandPlans
  <2>3. QED
    BY <2>1, <2>2 DEF PowerLast, CommandPlans
<1>5. ControlQuiet'
  <2>1. CASE Head(todo["control"]) = "powerCycle"
    <3>1. todo["control"] = <<"powerCycle">>
      BY <1>2, <2>1, Ends DEF PowerLast, CommandPlans
    <3>2. Tail(todo["control"]) = <<>>
      BY <3>1
    <3>3. QED
      BY <1>2, <1>3, <3>2 DEF ControlQuiet, Alone, Idle, CycleAsked
  <2>2. CASE Head(todo["control"]) # "powerCycle"
    BY <1>2, <1>3, <2>2 DEF ControlQuiet, Alone, CycleAsked
  <2>3. QED
    BY <2>1, <2>2
<1>6. MainOnWifi'
  BY <1>2, <1>3 DEF MainOnWifi, Alone
<1>7. BootCalls'
  BY <1>2, <1>3 DEF BootCalls
<1>8. StepsInCalls'
  BY <1>1, <1>2 DEF StepsInCalls, Idle, Tasks
<1>9. QED
  BY <1>4, <1>5, <1>6, <1>7, <1>8

LEMMA MainPlans ==
  ASSUME TypeOK, Plans, Call("main")
  PROVE  Plans'
<1> USE DEF Plans
<1>1. "main" \in Tasks /\ "control" \in Tasks \ {"main"}
  BY DEF Tasks
<1>2. /\ todo["main"] # <<>>
      /\ todo'["main"] \in {todo["main"], Tail(todo["main"]), <<>>}
      /\ todo'["main"] = <<>> => step'["main"] = "ready"
      /\ todo'["control"] = todo["control"]
      /\ step'["control"] = step["control"]
      /\ booting' = booting
      /\ cycle => cycle'
      /\ cycle' => cycle \/ CycleAsked("main")
  BY <1>1, Moved
<1>3. PowerLast' /\ StepsInCalls'
  BY <1>1, <1>2 DEF PowerLast, StepsInCalls, Idle, Tasks
<1>4. CASE ~booting /\ ~cycle
  <2>1. todo["main"] \in Seq(WifiCalls)
    BY <1>4 DEF MainOnWifi, Alone
  <2>2. Head(todo["main"]) \in WifiCalls
    BY <1>2, <2>1, Ends
  <2>3. ~booting' /\ ~cycle'
    BY <1>2, <1>4, <2>2 DEF WifiCalls, CycleAsked
  <2>4. todo'["main"] \in Seq(WifiCalls)
    BY <1>2, <2>1, Shorter, Zenon
  <2>5. StartWifi("main") \/ Rebuild("main")
    BY <2>2 DEF Call, Stop154, Start154, EnergyDetect, StopWifi, ScanWifi,
           StopBle, StartBle, Select, RequestPowerCycle, At, WifiCalls, Calls
  <2>6. step'["main"] \in {"ready", "forget", "armWifi"}
    BY <2>5, <1>1 DEF StartWifi, Rebuild, On, Return, Fail, TypeOK
  <2>7. QED
    BY <1>3, <2>3, <2>4, <2>6
       DEF ControlQuiet, MainOnWifi, BootCalls, Alone
<1>5. CASE booting
  <2>1. Head(todo["main"]) \in {"start154", "stop154"}
    BY <1>2, <1>5 DEF BootCalls, HandBackAtBoot, Idle
  <2>2. Start154("main") \/ Stop154("main")
    BY <2>1 DEF Call, EnergyDetect, StopWifi, StartWifi, ScanWifi, Rebuild,
           StopBle, StartBle, Select, RequestPowerCycle, At, Calls
  <2>3. BootCalls'
    <3>1. CASE todo["main"] = HandBackAtBoot
      <4>1. /\ Head(todo["main"]) = "start154"
            /\ Tail(todo["main"]) = <<"stop154">>
        BY <3>1 DEF HandBackAtBoot
      <4>2. "ieee" \notin running
        BY <1>5, <3>1 DEF BootCalls, HandBackAtBoot, Idle
      <4>3. Start154("main")
        BY <2>2, <4>1 DEF Stop154, At
      <4>4. CASE At("main", "start154", "ready")
        BY <1>1, <3>1, <4>2, <4>3, <4>4
           DEF Start154, At, On, Fail, AfterEnable, TypeOK, BootCalls, Idle
      <4>5. CASE At("main", "start154", "mark")
        BY <1>1, <3>1, <4>2, <4>3, <4>5
           DEF Start154, At, On, TypeOK, BootCalls, Idle
      <4>6. CASE At("main", "start154", "arm")
        BY <1>1, <4>1, <4>2, <4>3, <4>6
           DEF Start154, At, Return, Fail, TypeOK, BootCalls, Idle
      <4>7. QED
        BY <4>3, <4>4, <4>5, <4>6 DEF Start154
    <3>2. CASE todo["main"] = <<"stop154">>
      <4>1. Head(todo["main"]) = "stop154" /\ Tail(todo["main"]) = <<>>
        BY <3>2
      <4>2. Stop154("main")
        BY <2>2, <4>1 DEF Start154, At
      <4>3. QED
        BY <1>1, <3>2, <4>1, <4>2
           DEF Stop154, At, On, Return, TypeOK, BootCalls, Idle
    <3>3. QED
      BY <1>2, <1>5, <3>1, <3>2 DEF BootCalls, Idle
  <2>4. QED
    BY <1>2, <1>3, <1>5, <2>3 DEF ControlQuiet, MainOnWifi, Alone, Idle
<1>6. CASE ~booting /\ cycle
  <2>1. ~booting' /\ cycle'
    BY <1>2, <1>6
  <2>2. QED
    BY <1>2, <1>3, <1>6, <2>1
       DEF ControlQuiet, MainOnWifi, BootCalls, Alone, Idle
<1>7. QED
  BY <1>4, <1>5, <1>6
LEMMA CommandPlan ==
  ASSUME TypeOK, Plans, NEW plan \in CommandPlans, Accept(plan)
  PROVE  Plans'
<1>1. todo'["control"] = plan /\ todo'["main"] = todo["main"]
  BY DEF Accept, TypeOK, Tasks
<1>2. step' = step /\ ~booting /\ ~cycle /\ booting' = booting /\ cycle' = cycle
  BY DEF Accept, tasks
<1>3. step["control"] = "ready"
  BY DEF Accept, Plans, StepsInCalls, Tasks
<1>4. PowerLast' /\ StepsInCalls'
  BY <1>1, <1>2, <1>3 DEF PowerLast, Plans, StepsInCalls, Idle, Tasks
<1>5. ControlQuiet' /\ MainOnWifi' /\ BootCalls'
  BY <1>1, <1>2 DEF Plans, ControlQuiet, MainOnWifi, BootCalls, Alone
<1>6. QED
  BY <1>4, <1>5 DEF Plans

\* A power cycle has the board to itself, and a rebuild is all that has not.
LEMMA MainPlan ==
  ASSUME TypeOK, Plans, NEW plan, MainLoop(plan),
         cycle \/ plan \in Seq(WifiCalls)
  PROVE  Plans'
<1>1. todo'["main"] = plan /\ todo'["control"] = todo["control"]
  BY DEF MainLoop, TypeOK, Tasks
<1>2. step' = step /\ ~booting /\ booting' = booting /\ cycle' = cycle
  BY DEF MainLoop, tasks
<1>3. step["main"] = "ready"
  BY DEF MainLoop, Plans, StepsInCalls, Tasks
<1>4. PowerLast' /\ StepsInCalls' /\ ControlQuiet'
  BY <1>1, <1>2, <1>3
     DEF PowerLast, Plans, StepsInCalls, ControlQuiet, Alone, Idle, Tasks
<1>5. MainOnWifi' /\ BootCalls'
  BY <1>1, <1>2, <1>3 DEF MainOnWifi, BootCalls, Alone
<1>6. QED
  BY <1>4, <1>5 DEF Plans

LEMMA PlansRestart == TypeOK /\ Restart => Plans'
<1> SUFFICES ASSUME TypeOK, Restart PROVE Plans'
  OBVIOUS
<1>1. booting' /\ "ieee" \notin running'
  BY DEF Restart
<1>2. \A t \in Tasks : step'[t] = "ready"
  BY DEF Restart, Ready
<1>3. "main" \in Tasks /\ "control" \in Tasks
  BY DEF Tasks
<1>4. todo'["control"] = <<>> /\ todo'["main"] = BootPlan(dirty)
  BY <1>3 DEF Restart
<1>5. BootPlan(dirty) \in {HandBackAtBoot, <<>>}
  BY Zenon DEF BootPlan
<1>6. ControlQuiet' /\ StepsInCalls'
  BY <1>2, <1>3, <1>4 DEF ControlQuiet, StepsInCalls, Idle
<1>7. PowerLast'
  BY <1>4 DEF PowerLast, CommandPlans
<1>8. MainOnWifi'
  BY <1>1 DEF MainOnWifi, Alone
<1>9. BootCalls'
  BY <1>1, <1>2, <1>3, <1>4, <1>5 DEF BootCalls, Idle
<1>10. QED
  BY <1>6, <1>7, <1>8, <1>9 DEF Plans

LEMMA PlansStart == Init => Plans
<1> SUFFICES ASSUME Init PROVE Plans
  OBVIOUS
<1>1. \A t \in Tasks : todo[t] = <<>> /\ step[t] = "ready"
  BY DEF Init, Ready
<1>2. booting /\ "ieee" \notin running
  BY DEF Init
<1>3. "main" \in Tasks /\ "control" \in Tasks
  BY DEF Tasks
<1>4. PowerLast
  <2>1. <<>> \in Seq(CallsOrRadios \ {"powerCycle"})
    OBVIOUS
  <2>2. QED
    BY <1>1, <1>3, <2>1, Zenon DEF PowerLast, CommandPlans
<1>5. QED
  BY <1>1, <1>2, <1>3, <1>4
     DEF Plans, ControlQuiet, MainOnWifi, BootCalls, StepsInCalls, Alone, Idle

LEMMA PlansStep == TypeOK /\ Plans /\ [Next]_vars => Plans'
<1> SUFFICES ASSUME TypeOK, Plans, [Next]_vars PROVE Plans'
  OBVIOUS
<1>1. CASE Command
  BY <1>1, PlansAre, CommandPlan DEF Command
<1>2. CASE SetRadio
  BY <1>2, SetRadioPlan, CommandPlan DEF SetRadio, NamesRadio
<1>3. CASE Service
  <2>1. <<"rebuild", "startWifi">> \in Seq(WifiCalls)
    BY DEF WifiCalls
  <2>2. QED
    BY <1>3, <2>1, MainPlan DEF Service
<1>4. CASE PowerCycle
  BY <1>4, MainPlan DEF PowerCycle, PowerCycleDue
<1>5. CASE Call("control")
  BY <1>5, ControlPlans
<1>6. CASE Call("main")
  BY <1>6, MainPlans
<1>7. CASE BootDone
  <2>1. /\ todo' = todo /\ step' = step /\ booting /\ ~booting'
        /\ cycle' = cycle /\ todo["main"] = <<>>
    BY <1>7 DEF BootDone, Idle
  <2>2. step["main"] = "ready"
    BY <2>1 DEF Plans, StepsInCalls, Idle, Tasks
  <2>3. <<>> \in Seq(WifiCalls)
    OBVIOUS
  <2>4. MainOnWifi'
    BY <2>1, <2>2, <2>3 DEF MainOnWifi
  <2>5. ControlQuiet' /\ BootCalls'
    BY <2>1 DEF Plans, ControlQuiet, BootCalls, Alone, Idle
  <2>6. PowerLast' /\ StepsInCalls'
    BY <2>1 DEF Plans, PowerLast, StepsInCalls, Idle
  <2>7. QED
    BY <2>4, <2>5, <2>6 DEF Plans
<1>8. CASE DeepSleep \/ Abort \/ Reset
  BY <1>8, PlansRestart DEF DeepSleep, Abort, Reset
<1>9. CASE UNCHANGED vars
  BY <1>9 DEF vars, tasks, Plans, ControlQuiet, PowerLast, MainOnWifi,
              BootCalls, StepsInCalls, Alone, Idle
<1>10. QED
  BY <1>1, <1>2, <1>3, <1>4, <1>5, <1>6, <1>7, <1>8, <1>9
     DEF Next, ControlStep, MainStep

-----------------------------------------------------------------------------
(* Who accounts for the front end's being held.                            *)

Cleared == \A t \in Tasks : step[t] = "clear" => ~owned

HandBackDue ==
  booting /\ todo["main"] = HandBackAtBoot /\ step["main"] = "ready"

\* With no failed call and no gap, a held front end or a flag that is up has
\* a capture, a start under way, or a boot about to hand it back.
Accounted ==
  ~failed /\ ~unflagged /\ (owned \/ dirty)
    => \/ "ieee" \in running
       \/ \E t \in Tasks : step[t] \in {"mark", "arm"}
       \/ HandBackDue

Physical == Cleared /\ OwnedIsFlagged /\ Accounted

Ieee154Calls == {"stop154", "start154", "energy", "deepSleep"}

\* The two tasks never deal with 802.15.4 at once.
LEMMA OneAt154 ==
  ASSUME TypeOK, Plans, NEW t \in Tasks, todo[t] # <<>>,
         Head(todo[t]) \in Ieee154Calls
  PROVE  /\ \A u \in Tasks \ {t} : step[u] \notin {"clear", "mark", "arm"}
         /\ t = "control" => ~booting
<1>1. CASE t = "control"
  <2>1. ~Alone
    BY <1>1 DEF Plans, ControlQuiet, Idle
  <2>2. step["main"] \in {"ready", "forget", "armWifi"}
    BY <2>1 DEF Plans, MainOnWifi
  <2>3. QED
    BY <1>1, <2>1, <2>2 DEF Alone, Tasks
<1>2. CASE t = "main"
  <2>1. Alone
    <3>1. SUFFICES ASSUME ~Alone PROVE FALSE
      OBVIOUS
    <3>2. todo["main"] \in Seq(WifiCalls)
      BY <3>1 DEF Plans, MainOnWifi
    <3>3. Head(todo["main"]) \in WifiCalls
      BY <1>2, <3>2, Ends
    <3>4. QED
      BY <1>2, <3>3 DEF WifiCalls, Ieee154Calls
  <2>2. step["control"] = "ready"
    BY <2>1 DEF Plans, ControlQuiet
  <2>3. QED
    BY <1>2, <2>2 DEF Tasks
<1>3. QED
  BY <1>1, <1>2 DEF Tasks

\* The calls to the other radios leave 802.15.4 alone.
LEMMA OtherCalls ==
  ASSUME TypeOK, NEW t \in Tasks, Call(t),
         ~Stop154(t), ~Start154(t), ~EnergyDetect(t)
  PROVE  /\ UNCHANGED <<owned, dirty, unflagged>>
         /\ "ieee" \in running' <=> "ieee" \in running
         /\ step[t] \notin {"clear", "mark", "arm"}
         /\ step'[t] \notin {"clear", "mark", "arm"}
         /\ Head(todo[t]) # "start154"
         /\ failed => failed'
<1>1. UNCHANGED <<owned, dirty, unflagged>>
  BY DEF Call, StopWifi, StartWifi, ScanWifi, Rebuild, StopBle, StartBle,
         Select, RequestPowerCycle, ieee
<1>2. "ieee" \in running' <=> "ieee" \in running
  BY DEF Call, StopWifi, StartWifi, ScanWifi, Rebuild, StopBle, StartBle,
         Select, RequestPowerCycle
<1>3. /\ step[t] \notin {"clear", "mark", "arm"}
      /\ Head(todo[t]) # "start154"
  BY DEF Call, StopWifi, StartWifi, ScanWifi, Rebuild, StopBle, StartBle,
         Select, RequestPowerCycle, At, Calls
<1>4. step'[t] \notin {"clear", "mark", "arm"}
  <2>1. \/ Return(t) \/ Fail(t)
        \/ \E w \in {"armWifi", "forget", "release", "scanBle"} : On(t, w)
    BY DEF Call, StopWifi, StartWifi, ScanWifi, Rebuild, StopBle, StartBle,
           Select, RequestPowerCycle
  <2>2. QED
    BY <2>1 DEF Return, Fail, On, TypeOK
<1>5. failed => failed'
  <2>1. Return(t) \/ Fail(t) \/ \E w \in Steps : On(t, w)
    BY DEF Call, StopWifi, StartWifi, ScanWifi, Rebuild, StopBle, StartBle,
           Select, RequestPowerCycle, Steps
  <2>2. QED
    BY <2>1 DEF Return, Fail, On
<1>6. QED
  BY <1>1, <1>2, <1>3, <1>4, <1>5

\* What the step of one task leaves of the other.
LEMMA Frame ==
  ASSUME TypeOK, NEW t \in Tasks, Call(t)
  PROVE  /\ todo[t] # <<>>
         /\ \A u \in Tasks \ {t} : step'[u] = step[u] /\ todo'[u] = todo[u]
         /\ booting' = booting
  BY Moved

LEMMA HandBackStays ==
  ASSUME TypeOK, NEW t \in Tasks, Call(t), HandBackDue,
         Head(todo[t]) # "start154"
  PROVE  HandBackDue'
<1>1. Head(HandBackAtBoot) = "start154"
  BY DEF HandBackAtBoot
<1>2. t # "main"
  BY <1>1 DEF HandBackDue
<1>3. "main" \in Tasks \ {t}
  BY <1>2 DEF Tasks
<1>4. QED
  BY <1>3, Frame DEF HandBackDue

LEMMA OtherCallsPhysical ==
  ASSUME TypeOK, Physical, NEW t \in Tasks, Call(t),
         ~Stop154(t), ~Start154(t), ~EnergyDetect(t)
  PROVE  Physical'
<1>1. /\ UNCHANGED <<owned, dirty, unflagged>>
      /\ "ieee" \in running' <=> "ieee" \in running
      /\ failed => failed'
  BY OtherCalls
<1>2. \A u \in Tasks : \A w \in {"clear", "mark", "arm"} :
        step'[u] = w <=> step[u] = w
  BY OtherCalls, Frame
<1>3. HandBackDue => HandBackDue'
  BY OtherCalls, HandBackStays
<1>4. Cleared'
  BY <1>1, <1>2 DEF Physical, Cleared
<1>5. OwnedIsFlagged'
  BY <1>1, <1>2 DEF Physical, OwnedIsFlagged, Marking
<1>6. Accounted'
  BY <1>1, <1>2, <1>3 DEF Physical, Accounted
<1>7. QED
  BY <1>4, <1>5, <1>6 DEF Physical

LEMMA Stop154Physical ==
  ASSUME TypeOK, Plans, Physical, NEW t \in Tasks, Stop154(t)
  PROVE  Physical'
<1>1. Call(t) /\ todo[t] # <<>> /\ Head(todo[t]) = "stop154"
  BY DEF Call, Stop154, At
<1>2. \A u \in Tasks \ {t} :
        step'[u] = step[u] /\ step[u] \notin {"clear", "mark", "arm"}
  BY <1>1, Frame, OneAt154 DEF Ieee154Calls
<1>3. CASE At(t, "stop154", "ready") /\ "ieee" \notin running
  <2>1. Return(t) /\ UNCHANGED <<running, owned, dirty, unflagged, failed>>
    BY <1>3 DEF Stop154, At, Return, ieee
  <2>2. step'[t] = "ready" /\ step[t] = "ready"
    BY <1>3, <2>1 DEF Return, At, TypeOK
  <2>3. \A u \in Tasks : step'[u] \notin {"clear", "mark", "arm"}
    BY <1>2, <2>2
  <2>4. HandBackDue => HandBackDue'
    BY <1>1, HandBackStays
  <2>5. \A u \in Tasks : step[u] \notin {"mark", "arm"}
    BY <1>2, <2>2
  <2>6. Cleared' /\ OwnedIsFlagged'
    BY <2>1, <2>3, <2>5 DEF Physical, Cleared, OwnedIsFlagged, Marking
  <2>7. Accounted'
    BY <1>3, <2>1, <2>4, <2>5 DEF Physical, Accounted
  <2>8. QED
    BY <2>6, <2>7 DEF Physical
<1>4. CASE At(t, "stop154", "ready") /\ "ieee" \in running
  <2>1. ~owned' /\ "ieee" \in running'
    BY <1>4 DEF Stop154, At, SleepAndDisable
  <2>2. QED
    BY <2>1 DEF Physical, Cleared, OwnedIsFlagged, Accounted
<1>5. CASE At(t, "stop154", "clear")
  <2>1. ~owned' /\ ~dirty'
    BY <1>5 DEF Stop154, At, Physical, Cleared
  <2>2. QED
    BY <2>1 DEF Physical, Cleared, OwnedIsFlagged, Accounted
<1>6. QED
  BY <1>3, <1>4, <1>5 DEF Stop154

LEMMA Start154Physical ==
  ASSUME TypeOK, Plans, Physical, NEW t \in Tasks, Start154(t)
  PROVE  Physical'
<1>1. Call(t) /\ todo[t] # <<>> /\ Head(todo[t]) = "start154"
  BY DEF Call, Start154, At
<1>2. \A u \in Tasks \ {t} :
        step'[u] = step[u] /\ step[u] \notin {"clear", "mark", "arm"}
  BY <1>1, Frame, OneAt154 DEF Ieee154Calls
<1>3. step'[t] # "clear"
  BY DEF Start154, Return, Fail, On, AfterEnable, TypeOK
<1>4. Cleared'
  BY <1>2, <1>3 DEF Cleared
<1>5. CASE At(t, "start154", "ready") /\ "ieee" \in running
  <2>1. UNCHANGED <<owned, dirty, unflagged>> /\ "ieee" \in running'
    BY <1>5 DEF Start154, At, ieee
  <2>2. \A u \in Tasks : step[u] # "mark"
    BY <1>2, <1>5 DEF At
  <2>3. OwnedIsFlagged'
    BY <2>1, <2>2 DEF Physical, OwnedIsFlagged, Marking
  <2>4. QED
    BY <1>4, <2>1, <2>3 DEF Physical, Accounted
<1>6. CASE At(t, "start154", "ready") /\ "ieee" \notin running
  <2>1. CASE Fail(t) /\ UNCHANGED <<enabled, owned>>
    <3>1. UNCHANGED <<owned, dirty, unflagged>> /\ failed'
      BY <1>6, <2>1 DEF Start154, At, Fail
    <3>2. \A u \in Tasks : step[u] # "mark"
      BY <1>2, <1>6 DEF At
    <3>3. OwnedIsFlagged'
      BY <3>1, <3>2 DEF Physical, OwnedIsFlagged, Marking
    <3>4. QED
      BY <1>4, <3>1, <3>3 DEF Physical, Accounted
  <2>2. CASE On(t, AfterEnable)
    <3>1. step'[t] = "mark"
      BY <2>2 DEF On, AfterEnable, TypeOK
    <3>2. QED
      BY <1>4, <3>1 DEF Physical, OwnedIsFlagged, Marking, Accounted
  <2>3. QED
    BY <1>6, <2>1, <2>2 DEF Start154, At
<1>7. CASE At(t, "start154", "mark")
  <2>1. dirty' /\ step'[t] = "arm"
    BY <1>7 DEF Start154, At, On, TypeOK
  <2>2. QED
    BY <1>4, <2>1 DEF Physical, OwnedIsFlagged, Accounted
<1>8. CASE At(t, "start154", "arm")
  <2>1. UNCHANGED <<owned, dirty, unflagged>>
    BY <1>8 DEF Start154, At, ieee
  <2>2. failed' \/ "ieee" \in running'
    BY <1>8 DEF Start154, At, Fail
  <2>3. \A u \in Tasks : step[u] # "mark"
    BY <1>2, <1>8 DEF At
  <2>4. OwnedIsFlagged'
    BY <2>1, <2>3 DEF Physical, OwnedIsFlagged, Marking
  <2>5. QED
    BY <1>4, <2>2, <2>4 DEF Physical, Accounted
<1>9. QED
  BY <1>5, <1>6, <1>7, <1>8 DEF Start154

LEMMA EnergyPhysical ==
  ASSUME TypeOK, Plans, Physical, NEW t \in Tasks, EnergyDetect(t)
  PROVE  Physical'
<1>1. Call(t) /\ todo[t] # <<>> /\ Head(todo[t]) = "energy"
  BY DEF Call, EnergyDetect, At
<1>2. \A u \in Tasks \ {t} :
        step'[u] = step[u] /\ step[u] \notin {"clear", "mark", "arm"}
  BY <1>1, Frame, OneAt154 DEF Ieee154Calls
<1>3. /\ step[t] \notin {"clear", "mark", "arm"}
      /\ dirty' = dirty /\ running' = running
  BY DEF EnergyDetect, At
<1>4. step'[t] \notin {"clear", "mark", "arm"}
  BY DEF EnergyDetect, Return, Fail, On, TypeOK
<1>5. failed => failed'
  BY DEF EnergyDetect, Return, Fail, On
<1>6. Cleared'
  BY <1>2, <1>4 DEF Cleared
<1>7. HandBackDue => HandBackDue'
  BY <1>1, HandBackStays
<1>8. \A u \in Tasks : step[u] \notin {"mark", "arm"}
  BY <1>2, <1>3
<1>9. CASE UNCHANGED <<owned, unflagged>>
  <2>1. OwnedIsFlagged'
    BY <1>3, <1>8, <1>9 DEF Physical, OwnedIsFlagged, Marking
  <2>2. Accounted'
    BY <1>3, <1>5, <1>7, <1>8, <1>9 DEF Physical, Accounted
  <2>3. QED
    BY <1>6, <2>1, <2>2 DEF Physical
<1>10. CASE At(t, "energy", "ready") /\ "ieee" \notin running
            /\ unflagged' = (IF dirty THEN unflagged ELSE TRUE)
  <2>1. CASE ~dirty
    <3>1. unflagged' = TRUE
      BY <1>10, <2>1
    <3>2. QED
      BY <1>6, <3>1 DEF Physical, OwnedIsFlagged, Accounted
  <2>2. CASE dirty
    <3>1. unflagged' = unflagged
      BY <1>10, <2>2
    <3>2. OwnedIsFlagged'
      BY <1>3, <2>2 DEF OwnedIsFlagged
    <3>3. Accounted'
      BY <1>3, <1>5, <1>7, <1>8, <1>10, <2>2, <3>1 DEF Physical, Accounted
    <3>4. QED
      BY <1>6, <3>2, <3>3 DEF Physical
  <2>3. QED
    BY <2>1, <2>2
<1>11. QED
  BY <1>9, <1>10 DEF EnergyDetect

LEMMA CallPhysical ==
  ASSUME TypeOK, Plans, Physical, NEW t \in Tasks, Call(t)
  PROVE  Physical'
<1>1. CASE Stop154(t)
  BY <1>1, Stop154Physical
<1>2. CASE Start154(t)
  BY <1>2, Start154Physical
<1>3. CASE EnergyDetect(t)
  BY <1>3, EnergyPhysical
<1>4. CASE ~Stop154(t) /\ ~Start154(t) /\ ~EnergyDetect(t)
  BY <1>4, OtherCallsPhysical
<1>5. QED
  BY <1>1, <1>2, <1>3, <1>4

LEMMA NewPlanPhysical ==
  ASSUME TypeOK, Plans, Physical, NEW plan, Accept(plan) \/ MainLoop(plan)
  PROVE  Physical'
<1>1. UNCHANGED <<running, owned, dirty, unflagged, failed, step>>
  BY DEF Accept, MainLoop, ieee
<1>2. ~booting
  BY DEF Accept, MainLoop
<1>3. QED
  BY <1>1, <1>2
     DEF Physical, Cleared, OwnedIsFlagged, Marking, Accounted, HandBackDue

\* A restart with the flag up is due to hand the front end back.
LEMMA RestartAccounted ==
  ASSUME TypeOK, Restart
  PROVE  /\ dirty' = dirty
         /\ \A t \in Tasks : step'[t] = "ready"
         /\ dirty => HandBackDue'
<1>1. \A t \in Tasks : step'[t] = "ready"
  BY DEF Restart, Ready
<1>2. todo'["main"] = BootPlan(dirty) /\ booting' /\ dirty' = dirty
  BY DEF Restart, Tasks
<1>3. dirty => BootPlan(dirty) = HandBackAtBoot
  BY DEF BootPlan
<1>4. "main" \in Tasks
  BY DEF Tasks
<1>5. QED
  BY <1>1, <1>2, <1>3, <1>4 DEF HandBackDue

LEMMA ResetPhysical ==
  ASSUME TypeOK, Plans, Physical, Reset
  PROVE  Physical'
<1>1. /\ dirty' = dirty /\ owned' = owned
      /\ \A t \in Tasks : step'[t] = "ready"
      /\ dirty => HandBackDue'
  BY RestartAccounted DEF Reset
<1>2. CASE unflagged \/ (Marking /\ ~dirty)
  <2>1. unflagged'
    BY <1>2 DEF Reset
  <2>2. QED
    BY <1>1, <2>1 DEF Physical, Cleared, OwnedIsFlagged, Accounted
<1>3. CASE ~(unflagged \/ (Marking /\ ~dirty))
  <2>1. owned => dirty
    BY <1>3 DEF Physical, OwnedIsFlagged
  <2>2. QED
    BY <1>1, <2>1 DEF Physical, Cleared, OwnedIsFlagged, Accounted
<1>4. QED
  BY <1>2, <1>3

LEMMA DeepSleepPhysical ==
  ASSUME TypeOK, Plans, Physical, DeepSleep
  PROVE  Physical'
<1>1. /\ dirty' = dirty
      /\ \A t \in Tasks : step'[t] = "ready"
      /\ dirty => HandBackDue'
  BY RestartAccounted DEF DeepSleep
<1>2. ~Marking
  <2>1. /\ todo["main"] # <<>> /\ Head(todo["main"]) \in Ieee154Calls
        /\ step["main"] = "ready"
    BY DEF DeepSleep, At, Ieee154Calls
  <2>2. \A u \in Tasks \ {"main"} : step[u] # "mark"
    BY <2>1, OneAt154 DEF Tasks
  <2>3. QED
    BY <2>1, <2>2 DEF Marking
<1>3. CASE ~owned'
  BY <1>1, <1>3 DEF Physical, Cleared, OwnedIsFlagged, Accounted
<1>4. CASE owned' /\ unflagged
  <2>1. unflagged'
    BY <1>4 DEF DeepSleep
  <2>2. QED
    BY <1>1, <2>1 DEF Physical, Cleared, OwnedIsFlagged, Accounted
<1>5. CASE owned' /\ ~unflagged
  <2>1. owned
    BY <1>5 DEF DeepSleep
  <2>2. dirty
    BY <1>2, <1>5, <2>1 DEF Physical, OwnedIsFlagged
  <2>3. QED
    BY <1>1, <2>2 DEF Physical, Cleared, OwnedIsFlagged, Accounted
<1>6. QED
  BY <1>3, <1>4, <1>5

LEMMA PhysicalStart == Init => Physical
  BY DEF Init, Ready, Physical, Cleared, OwnedIsFlagged, Accounted

LEMMA PhysicalStep == TypeOK /\ Plans /\ Physical /\ [Next]_vars => Physical'
<1> SUFFICES ASSUME TypeOK, Plans, Physical, [Next]_vars PROVE Physical'
  OBVIOUS
<1>1. CASE Command \/ SetRadio \/ Service \/ PowerCycle
  BY <1>1, NewPlanPhysical DEF Command, SetRadio, Service, PowerCycle
<1>2. ASSUME NEW t \in Tasks, Call(t) PROVE Physical'
  BY <1>2, CallPhysical
<1>3. CASE BootDone
  <2>1. UNCHANGED <<running, owned, dirty, unflagged, failed, step>>
    BY <1>3 DEF BootDone, ieee, history
  <2>2. ~HandBackDue
    BY <1>3 DEF BootDone, Idle, HandBackDue, HandBackAtBoot
  <2>3. QED
    BY <2>1, <2>2 DEF Physical, Cleared, OwnedIsFlagged, Marking, Accounted
<1>4. CASE DeepSleep
  BY <1>4, DeepSleepPhysical
<1>5. CASE Reset \/ Abort
  BY <1>5, ResetPhysical DEF Abort
<1>6. CASE UNCHANGED vars
  BY <1>6 DEF vars, ieee, tasks, history, Physical, Cleared, OwnedIsFlagged,
              Marking, Accounted, HandBackDue
<1>7. QED
  BY <1>1, <1>2, <1>3, <1>4, <1>5, <1>6
     DEF Next, ControlStep, MainStep, Tasks

-----------------------------------------------------------------------------
(* The theorems.                                                           *)

IInv == TypeOK /\ Plans /\ Physical

LEMMA Invariant == Spec => []IInv
<1>1. Init => IInv
  BY TypeStart, PlansStart, PhysicalStart DEF IInv
<1>2. IInv /\ [Next]_vars => IInv'
  BY TypeStep, PlansStep, PhysicalStep DEF IInv
<1>3. QED
  BY <1>1, <1>2, PTL DEF Spec

(* Whenever 802.15.4 has the front end, the flag a boot reads is up, but   *)
(* for an energy measurement and a reset between enable and mark.          *)
THEOREM HeldIsFlagged == Spec => []OwnedIsFlagged
<1>1. IInv => OwnedIsFlagged
  BY DEF IInv, Physical
<1>2. QED
  BY <1>1, Invariant, PTL

\* At rest, with no failure and no gap, only a capture accounts for it.
LEMMA RestIsAccounted ==
  ASSUME IInv, \A t \in Tasks : step[t] = "ready", Idle("main"),
         ~failed, ~unflagged, "ieee" \notin running
  PROVE  ~owned /\ ~dirty
<1>1. ~HandBackDue
  BY DEF HandBackDue, Idle, HandBackAtBoot
<1>2. QED
  BY <1>1 DEF IInv, Physical, Accounted

(* A board at rest that is not capturing 802.15.4 has given the front end  *)
(* back and taken the flag down, unless a driver call failed.              *)
THEOREM RestIsHandedBack == Spec => []HandedBack
<1>1. IInv => HandedBack
  <2> SUFFICES ASSUME IInv, AllIdle, "ieee" \notin running, ~failed, ~unflagged
               PROVE  ~owned /\ ~dirty
    BY DEF HandedBack
  <2>1. \A t \in Tasks : step[t] = "ready"
    BY DEF AllIdle, IInv, Plans, StepsInCalls
  <2>2. Idle("main")
    BY DEF AllIdle, Tasks
  <2>3. QED
    BY <2>1, <2>2, RestIsAccounted
<1>2. QED
  BY <1>1, Invariant, PTL

\* What BootCures says of one step.
CuredStep == booting /\ ~booting' /\ ~failed /\ ~unflagged => ~owned' /\ ~dirty'

(* A boot that no failure disturbs ends with the front end free.           *)
THEOREM BootsCure == Spec => BootCures
<1>1. IInv /\ [Next]_vars => [CuredStep]_vars
  <2> SUFFICES ASSUME IInv, [Next]_vars, booting, ~booting', ~failed,
                      ~unflagged
               PROVE  ~owned' /\ ~dirty'
    BY DEF CuredStep
  <2>1. BootDone
    <3>1. ~(Command \/ SetRadio \/ Service \/ PowerCycle)
      BY DEF Command, SetRadio, Service, PowerCycle, Accept, MainLoop
    <3>2. ~(Reset \/ Abort \/ DeepSleep)
      BY DEF Reset, Abort, DeepSleep, Restart
    <3>3. ~(Call("control") \/ Call("main"))
      BY Frame DEF IInv, Tasks
    <3>4. vars' # vars
      BY DEF vars, tasks
    <3>5. QED
      BY <3>1, <3>2, <3>3, <3>4 DEF Next, ControlStep, MainStep
  <2>2. UNCHANGED <<owned, dirty>> /\ Idle("main")
    BY <2>1 DEF BootDone, ieee
  <2>3. "ieee" \notin running
    BY <2>2 DEF IInv, Plans, BootCalls, Idle, HandBackAtBoot
  <2>4. \A t \in Tasks : step[t] = "ready"
    BY <2>2 DEF IInv, Plans, StepsInCalls, ControlQuiet, Alone, Tasks
  <2>5. QED
    BY <2>2, <2>3, <2>4, RestIsAccounted
<1>2. QED
  BY <1>1, Invariant, PTL DEF Spec, BootCures, CuredStep

-----------------------------------------------------------------------------
(***************************************************************************)
(* One radio runs at a time, and a Wi-Fi capture listens, as long as no    *)
(* command overlaps a job of the main task.                                *)
(*                                                                         *)
(* A plan fits the board when what it will start is what is selected, and  *)
(* when it stops every radio before it selects another.                    *)
(***************************************************************************)
StopOf(r) == IF r = "ieee" THEN "stop154"
             ELSE IF r = "wifi" THEN "stopWifi" ELSE "stopBle"
StartOf(r) == IF r = "ieee" THEN "start154"
              ELSE IF r = "wifi" THEN "startWifi" ELSE "startBle"

LEMMA Names ==
  /\ \A r \in Radios : r \in {"ieee", "wifi", "ble"}
  /\ \A r, q \in Radios : /\ StartOf(r) # q /\ StopOf(r) # q
                          /\ StartOf(r) # StopOf(q)
                          /\ StartOf(r) = StartOf(q) => r = q
                          /\ StopOf(r) = StopOf(q) => r = q
                          /\ StartOf(r) # "scan" /\ StopOf(r) # "scan"
  /\ StartOf("ieee") = "start154" /\ StartOf("wifi") = "startWifi"
  /\ StartOf("ble") = "startBle"
  /\ StopOf("ieee") = "stop154" /\ StopOf("wifi") = "stopWifi"
  /\ StopOf("ble") = "stopBle"
  BY DEF Radios, StartOf, StopOf

\* The parts of a plan, q, that depend on what is selected, s, and on what
\* runs, R.
Stopped(q, i, r) == \E j \in 1..i - 1 : q[j] = StopOf(r)

StartsSelected(q, s) ==
  \A i \in 1..Len(q) : \A r \in Radios : q[i] = StartOf(r) =>
    s = r /\ \A j \in i + 1..Len(q) : q[j] = "stop154"

StopsFirst(q, R) ==
  \A i \in 1..Len(q) :
    /\ q[i] \in Radios => i = Len(q) /\ \A r \in R : Stopped(q, i, r)
    /\ q[i] = "scan" /\ "wifi" \in R => Stopped(q, i, "wifi")

Fits(q, s, R) == StartsSelected(q, s) /\ StopsFirst(q, R)

\* What a task in the middle of a call goes by.
Within(t) ==
  /\ "ble" \in running => bleUp
  /\ step[t] = "scanBle" => bleUp
  /\ step[t] = "armWifi" => inited
  /\ step[t] = "release" => "ble" \notin running

\* But for the middle of a rebuild, the driver is what it is known to be.
WifiOk ==
  (\A t \in Tasks : step[t] # "forget")
    => /\ inited => driver
       /\ "wifi" \in running => listening /\ driver /\ inited

One ==
  /\ Idle("control") \/ Idle("main")
  /\ running \subseteq {selected}
  /\ \A t \in Tasks : Fits(todo[t], selected, running) /\ Within(t)
  /\ WifiOk

OneInv == ~overlapped => One

-----------------------------------------------------------------------------
(* How a plan goes on fitting.                                             *)

LEMMA EmptyFits == \A s, R : Fits(<<>>, s, R)
  BY DEF Fits, StartsSelected, StopsFirst

\* The first call returns: it started nothing, and what it stopped is stopped.
LEMMA TailFits ==
  ASSUME NEW S, NEW q \in Seq(S), q # <<>>, NEW s, NEW R \in SUBSET Radios,
         Fits(q, s, R), NEW T \in SUBSET R,
         \A r \in Radios : Head(q) = StopOf(r) => r \notin T
  PROVE  Fits(Tail(q), s, T)
<1> DEFINE p == Tail(q)
<1>1. p \in Seq(S) /\ Len(p) = Len(q) - 1 /\ Len(q) \in Nat
  BY HeadTailProperties
<1>2. \A i \in 1..Len(p) : p[i] = q[i + 1] /\ i + 1 \in 1..Len(q)
  BY <1>1, HeadTailProperties
<1>3. Head(q) = q[1]
  OBVIOUS
<1> HIDE DEF p
<1>4. StartsSelected(p, s)
  <2> SUFFICES ASSUME NEW i \in 1..Len(p), NEW r \in Radios, p[i] = StartOf(r)
               PROVE  /\ s = r
                      /\ \A j \in i + 1..Len(p) : p[j] = "stop154"
    BY DEF StartsSelected
  <2>1. i + 1 \in 1..Len(q) /\ q[i + 1] = StartOf(r)
    BY <1>2
  <2>2. s = r /\ \A j \in i + 2..Len(q) : q[j] = "stop154"
    <3>1. \A j \in (i + 1) + 1..Len(q) : q[j] = "stop154"
      BY <2>1 DEF Fits, StartsSelected
    <3>2. s = r
      BY <2>1 DEF Fits, StartsSelected
    <3>3. (i + 1) + 1 = i + 2
      OBVIOUS
    <3>4. QED
      BY <3>1, <3>2, <3>3
  <2>3. ASSUME NEW j \in i + 1..Len(p) PROVE p[j] = "stop154"
    <3>1. j \in 1..Len(p) /\ j + 1 \in i + 2..Len(q)
      BY <1>1
    <3>2. QED
      BY <1>2, <2>2, <3>1
  <2>4. QED
    BY <2>2, <2>3
<1>5. ASSUME NEW i \in 1..Len(p), NEW r \in T, Stopped(q, i + 1, r)
      PROVE  Stopped(p, i, r)
  <2>1. PICK j \in 1..(i + 1) - 1 : q[j] = StopOf(r)
    BY <1>5 DEF Stopped
  <2>2. j # 1
    BY <1>3, <2>1
  <2>3. j - 1 \in 1..i - 1 /\ j - 1 \in 1..Len(p)
    BY <1>1, <2>1, <2>2
  <2>4. p[j - 1] = q[j]
    BY <1>2, <2>3
  <2>5. QED
    BY <2>1, <2>3, <2>4 DEF Stopped
<1>6. StopsFirst(p, T)
  <2> SUFFICES ASSUME NEW i \in 1..Len(p)
               PROVE  /\ p[i] \in Radios =>
                           /\ i = Len(p)
                           /\ \A r \in T : Stopped(p, i, r)
                      /\ p[i] = "scan" /\ "wifi" \in T
                           => Stopped(p, i, "wifi")
    BY DEF StopsFirst
  <2>1. p[i] = q[i + 1] /\ i + 1 \in 1..Len(q)
    BY <1>2
  <2>2. CASE p[i] \in Radios
    <3>1. i + 1 = Len(q) /\ \A r \in R : Stopped(q, i + 1, r)
      BY <2>1, <2>2 DEF Fits, StopsFirst
    <3>2. p[i] # "scan"
      BY <2>2 DEF Radios
    <3>3. QED
      BY <1>1, <1>5, <3>1, <3>2
  <2>3. CASE p[i] \notin Radios
    <3>1. p[i] = "scan" /\ "wifi" \in T => Stopped(q, i + 1, "wifi")
      BY <2>1 DEF Fits, StopsFirst
    <3>2. QED
      BY <1>5, <2>3, <3>1
  <2>4. QED
    BY <2>2, <2>3
<1>7. QED
  BY <1>4, <1>6 DEF Fits, p

\* The first call started a radio: what is left only stops 802.15.4.
LEMMA AfterStart ==
  ASSUME NEW S, NEW q \in Seq(S), q # <<>>, NEW s, NEW R, Fits(q, s, R),
         NEW r \in Radios, Head(q) = StartOf(r), NEW T
  PROVE  s = r /\ Fits(Tail(q), s, T)
<1> DEFINE p == Tail(q)
<1>1. Len(p) = Len(q) - 1 /\ Len(q) \in Nat /\ Len(q) >= 1
  BY HeadTailProperties
<1>2. \A i \in 1..Len(p) : p[i] = q[i + 1] /\ i + 1 \in 1 + 1..Len(q)
  BY <1>1, HeadTailProperties
<1>3. 1 \in 1..Len(q) /\ q[1] = StartOf(r)
  BY <1>1
<1>4. \A j \in 1 + 1..Len(q) : q[j] = "stop154"
  BY <1>3 DEF Fits, StartsSelected
<1>5. \A i \in 1..Len(p) : p[i] = "stop154"
  BY <1>2, <1>4
<1> HIDE DEF p
<1>6. "stop154" \notin Radios /\ \A o \in Radios : StartOf(o) # "stop154"
  BY Names DEF Radios, StartOf
<1>7. Fits(p, s, T)
  BY <1>5, <1>6 DEF Fits, StartsSelected, StopsFirst
<1>8. s = r
  BY <1>3 DEF Fits, StartsSelected
<1>9. QED
  BY <1>7, <1>8 DEF p

\* A call goes on.
LEMMA SameFits ==
  ASSUME NEW q, NEW s, NEW R, Fits(q, s, R), NEW T \in SUBSET R
  PROVE  Fits(q, s, T)
  BY DEF Fits, StopsFirst

-----------------------------------------------------------------------------
(* A step of a call, while the other task has nothing to do.               *)

WifiAt(t) ==
  step[t] # "forget" => /\ inited => driver
                        /\ "wifi" \in running => listening /\ driver /\ inited

Own(t) ==
  /\ running \subseteq {selected}
  /\ Fits(todo[t], selected, running) /\ Within(t) /\ WifiAt(t)

LEMMA Going ==
  ASSUME TypeOK, NEW t \in Tasks
  PROVE  /\ Return(t) => todo'[t] = Tail(todo[t]) /\ step'[t] = "ready"
         /\ Fail(t) => todo'[t] = <<>> /\ step'[t] = "ready"
         /\ \A w : On(t, w) => todo'[t] = todo[t] /\ step'[t] = w
  BY DEF Return, Fail, On, TypeOK

\* A call that starts no radio and selects none.
LEMMA QuietFits ==
  ASSUME TypeOK, NEW t \in Tasks, todo[t] # <<>>,
         Fits(todo[t], selected, running),
         selected' = selected, running' \subseteq running,
         \/ Fail(t)
         \/ \E w : On(t, w)
         \/ /\ Return(t)
            /\ \A r \in Radios : Head(todo[t]) = StopOf(r) => r \notin running'
  PROVE  Fits(todo'[t], selected', running')
<1>1. todo[t] \in Seq(Calls \cup Radios) /\ running \in SUBSET Radios
  BY DEF TypeOK
<1>2. CASE Fail(t)
  BY <1>2, Going, EmptyFits
<1>3. CASE \E w : On(t, w)
  BY <1>3, Going, SameFits
<1>4. CASE /\ Return(t)
           /\ \A r \in Radios : Head(todo[t]) = StopOf(r) => r \notin running'
  BY <1>1, <1>4, Going, TailFits
<1>5. QED
  BY <1>2, <1>3, <1>4

\* One step each of the calls that touch neither BLE nor Wi-Fi.
LEMMA Own154 ==
  ASSUME TypeOK, NEW t \in Tasks, Own(t), Stop154(t) \/ Start154(t)
  PROVE  Own(t)'
<1>1. /\ todo[t] # <<>> /\ Head(todo[t]) \in {"stop154", "start154"}
      /\ UNCHANGED <<selected, driver, inited, listening, bleUp>>
  BY DEF Stop154, Start154, At, wifi, ble
<1>2. Fits(todo[t], selected, running) /\ running \subseteq {selected}
  BY DEF Own
<1>3. running' \subseteq running \cup {"ieee"}
      /\ step'[t] \in {"ready", "clear", "mark", "arm"}
  BY Going DEF Stop154, Start154, AfterEnable
<1>4. running' \subseteq {selected'} /\ Fits(todo'[t], selected', running')
  <2>1. CASE Stop154(t)
    <3>1. \/ \E w : On(t, w)
          \/ Return(t) /\ "ieee" \notin running'
      BY <2>1 DEF Stop154
    <3>2. running' \subseteq running /\ Head(todo[t]) = "stop154"
      BY <2>1 DEF Stop154, At
    <3>3. \A r \in Radios : Head(todo[t]) = StopOf(r) => r = "ieee"
      BY <3>2, Names
    <3>4. QED
      BY <1>1, <1>2, <3>1, <3>2, <3>3, QuietFits
  <2>2. CASE Start154(t) /\ running' \subseteq running
    <3>1. \/ Fail(t) \/ (\E w : On(t, w)) \/ Return(t)
      BY <2>2 DEF Start154
    <3>2. \A r \in Radios : Head(todo[t]) # StopOf(r)
      BY <2>2, Names DEF Start154, At
    <3>3. QED
      BY <1>1, <1>2, <2>2, <3>1, <3>2, QuietFits
  <2>3. CASE Start154(t) /\ ~(running' \subseteq running)
    <3>1. Return(t) /\ running' = running \cup {"ieee"}
      BY <2>3 DEF Start154
    <3>2. Head(todo[t]) = StartOf("ieee") /\ "ieee" \in Radios
      BY <2>3, Names DEF Start154, At, Radios
    <3>3. todo[t] \in Seq(Calls \cup Radios)
      BY DEF TypeOK
    <3>4. selected = "ieee" /\ Fits(Tail(todo[t]), selected, running')
      BY <1>1, <1>2, <3>2, <3>3, AfterStart
    <3>5. QED
      BY <1>1, <1>2, <3>1, <3>4, Going
  <2>4. QED
    BY <2>1, <2>2, <2>3
<1>5. Within(t)' /\ WifiAt(t)'
  <2>1. ("ble" \in running' => "ble" \in running)
        /\ ("wifi" \in running' => "wifi" \in running)
    BY <1>3
  <2>2. step[t] \in {"ready", "clear", "mark", "arm"}
    BY DEF Stop154, Start154, At
  <2>3. QED
    BY <1>1, <1>3, <2>1, <2>2 DEF Own, Within, WifiAt
<1>6. QED
  BY <1>4, <1>5 DEF Own

LEMMA OwnOthers ==
  ASSUME TypeOK, NEW t \in Tasks, Own(t),
         EnergyDetect(t) \/ RequestPowerCycle(t)
  PROVE  Own(t)'
<1>1. /\ todo[t] # <<>> /\ Head(todo[t]) \in {"energy", "powerCycle"}
      /\ UNCHANGED <<selected, running, driver, inited, listening, bleUp>>
      /\ step[t] \in {"ready", "tune", "measure"}
  BY DEF EnergyDetect, RequestPowerCycle, At, wifi, ble
<1>2. step'[t] \in {"ready", "tune", "measure"}
  BY Going DEF EnergyDetect, RequestPowerCycle
<1>3. Fail(t) \/ (\E w : On(t, w)) \/ Return(t)
  BY DEF EnergyDetect, RequestPowerCycle
<1>4. \A r \in Radios : Head(todo[t]) # StopOf(r)
  BY <1>1, Names
<1>5. Fits(todo'[t], selected', running')
  BY <1>1, <1>3, <1>4, QuietFits DEF Own
<1>6. Within(t)' /\ WifiAt(t)'
  BY <1>1, <1>2 DEF Own, Within, WifiAt
<1>7. QED
  BY <1>1, <1>5, <1>6 DEF Own

\* Wi-Fi's calls.  BLE is what it was.
LEMMA OwnStopWifi ==
  ASSUME TypeOK, NEW t \in Tasks, Own(t), StopWifi(t)
  PROVE  Own(t)'
<1>1. /\ todo[t] # <<>> /\ Head(todo[t]) = "stopWifi" /\ step[t] = "ready"
      /\ UNCHANGED <<selected, driver, inited, bleUp>>
      /\ running' = running \ {"wifi"} /\ Return(t) /\ step'[t] = "ready"
  BY Going DEF StopWifi, At, ble
<1>2. \A r \in Radios : Head(todo[t]) = StopOf(r) => r = "wifi"
  BY <1>1, Names
<1>3. Fits(todo'[t], selected', running') /\ running' \subseteq {selected'}
  BY <1>1, <1>2, QuietFits DEF Own
<1>4. Within(t)' /\ WifiAt(t)'
  BY <1>1 DEF Own, Within, WifiAt
<1>5. QED
  BY <1>3, <1>4 DEF Own

LEMMA OwnStartWifi ==
  ASSUME TypeOK, NEW t \in Tasks, Own(t), StartWifi(t)
  PROVE  Own(t)'
<1>1. /\ todo[t] # <<>> /\ Head(todo[t]) = "startWifi"
      /\ step[t] \in {"ready", "armWifi"}
      /\ UNCHANGED <<selected, bleUp>>
  BY DEF StartWifi, At, ble
<1>2. Head(todo[t]) = StartOf("wifi") /\ "wifi" \in Radios
  BY <1>1, Names DEF Radios
<1>3. \A r \in Radios : Head(todo[t]) # StopOf(r)
  BY <1>2, Names
<1>4. CASE step[t] = "ready" /\ "wifi" \in running
  <2>1. Return(t) \/ Fail(t)
    BY <1>4 DEF StartWifi, At
  <2>2. UNCHANGED <<running, driver, inited, listening>> /\ step'[t] = "ready"
    BY <1>4, Going DEF StartWifi, At, wifi
  <2>3. Fits(todo'[t], selected', running')
    BY <1>1, <1>3, <2>1, <2>2, QuietFits DEF Own
  <2>4. Within(t)' /\ WifiAt(t)'
    BY <1>1, <1>4, <2>2 DEF Own, Within, WifiAt
  <2>5. QED
    BY <1>1, <2>2, <2>3, <2>4 DEF Own
<1>5. CASE step[t] = "ready" /\ "wifi" \notin running
  <2>1. /\ \/ Fail(t) /\ UNCHANGED <<driver, inited>>
           \/ InitWifi /\ On(t, "armWifi")
        /\ UNCHANGED <<running, listening>>
    BY <1>5 DEF StartWifi, At
  <2>2. Fits(todo'[t], selected', running')
    BY <1>1, <1>3, <2>1, QuietFits DEF Own
  <2>3. step'[t] \in {"ready", "armWifi"}
    BY <2>1, Going
  <2>4. (inited' => driver') /\ (step'[t] = "armWifi" => inited')
    <3>1. CASE Fail(t) /\ UNCHANGED <<driver, inited>>
      BY <1>5, <3>1, Going DEF Own, WifiAt
    <3>2. CASE InitWifi
      BY <1>5, <3>2 DEF InitWifi, Own, WifiAt
    <3>3. QED
      BY <2>1, <3>1, <3>2
  <2>5. Within(t)' /\ WifiAt(t)'
    BY <1>1, <1>5, <2>1, <2>3, <2>4 DEF Own, Within, WifiAt
  <2>6. QED
    BY <1>1, <2>1, <2>2, <2>5 DEF Own
<1>6. CASE step[t] = "armWifi"
  <2>1. /\ driver /\ listening' /\ running' = running \cup {"wifi"}
        /\ Return(t) /\ UNCHANGED <<driver, inited>> /\ step'[t] = "ready"
    BY <1>6, Going DEF StartWifi, At
  <2>2. todo[t] \in Seq(Calls \cup Radios)
    BY DEF TypeOK
  <2>3. selected = "wifi" /\ Fits(Tail(todo[t]), selected, running')
    BY <1>1, <1>2, <2>2, AfterStart DEF Own
  <2>4. Fits(todo'[t], selected', running') /\ running' \subseteq {selected'}
    BY <1>1, <2>1, <2>3, Going DEF Own
  <2>5. inited
    BY <1>6 DEF Own, Within
  <2>6. Within(t)' /\ WifiAt(t)'
    BY <1>1, <1>6, <2>1, <2>5 DEF Own, Within, WifiAt
  <2>7. QED
    BY <2>4, <2>6 DEF Own
<1>7. QED
  BY <1>1, <1>4, <1>5, <1>6

LEMMA OwnScan ==
  ASSUME TypeOK, NEW t \in Tasks, Own(t), ScanWifi(t)
  PROVE  Own(t)'
<1>1. /\ todo[t] # <<>> /\ Head(todo[t]) = "scan" /\ step[t] = "ready"
      /\ UNCHANGED <<selected, running, bleUp>>
      /\ Fail(t) \/ Return(t)
      /\ step'[t] = "ready"
  BY Going DEF ScanWifi, At, ble
<1>2. todo[t] \in Seq(Calls \cup Radios)
  BY DEF TypeOK
<1>3. 1 \in 1..Len(todo[t]) /\ todo[t][1] = "scan"
  BY <1>1, <1>2
<1>4. "wifi" \notin running
  BY <1>3 DEF Own, Fits, StopsFirst, Stopped
<1>5. \A r \in Radios : Head(todo[t]) # StopOf(r)
  BY <1>1, Names
<1>6. Fits(todo'[t], selected', running')
  BY <1>1, <1>5, QuietFits DEF Own
<1>7. inited' => driver'
  <2>1. inited => driver
    BY <1>1 DEF Own, WifiAt
  <2>2. CASE UNCHANGED wifi
    BY <2>1, <2>2 DEF wifi
  <2>3. CASE InitWifi
    BY <2>1, <2>3 DEF InitWifi
  <2>4. QED
    BY <2>2, <2>3 DEF ScanWifi
<1>8. Within(t)' /\ WifiAt(t)'
  BY <1>1, <1>4, <1>7 DEF Own, Within, WifiAt
<1>9. QED
  BY <1>1, <1>6, <1>8 DEF Own

LEMMA OwnRebuild ==
  ASSUME TypeOK, NEW t \in Tasks, Own(t), Rebuild(t)
  PROVE  Own(t)'
<1>1. /\ todo[t] # <<>> /\ Head(todo[t]) = "rebuild"
      /\ UNCHANGED <<selected, bleUp>>
      /\ running' \subseteq running /\ (Return(t) \/ \E w : On(t, w))
  BY DEF Rebuild, At, ble
<1>2. \A r \in Radios : Head(todo[t]) # StopOf(r)
  BY <1>1, Names
<1>3. Fits(todo'[t], selected', running') /\ running' \subseteq {selected'}
  BY <1>1, <1>2, QuietFits DEF Own
<1>4. \/ step'[t] = "forget"
      \/ step'[t] = "ready" /\ ~inited' /\ "wifi" \notin running'
  BY Going DEF Rebuild
<1>5. Within(t)' /\ WifiAt(t)'
  BY <1>1, <1>4 DEF Own, Within, WifiAt
<1>6. QED
  BY <1>3, <1>5 DEF Own

LEMMA OwnStopBle ==
  ASSUME TypeOK, NEW t \in Tasks, Own(t), StopBle(t)
  PROVE  Own(t)'
<1>1. /\ todo[t] # <<>> /\ Head(todo[t]) = "stopBle"
      /\ UNCHANGED <<selected, driver, inited, listening>>
      /\ running' \subseteq running /\ (Return(t) \/ \E w : On(t, w))
      /\ step[t] \in {"ready", "release"} /\ step'[t] \in {"ready", "release"}
  BY Going DEF StopBle, At, wifi
<1>2. "ble" \notin running'
  BY DEF StopBle, At, Own, Within
<1>3. \A r \in Radios : Head(todo[t]) = StopOf(r) => r = "ble"
  BY <1>1, Names
<1>4. Fits(todo'[t], selected', running') /\ running' \subseteq {selected'}
  BY <1>1, <1>2, <1>3, QuietFits DEF Own
<1>5. Within(t)' /\ WifiAt(t)'
  BY <1>1, <1>2 DEF Own, Within, WifiAt
<1>6. QED
  BY <1>4, <1>5 DEF Own

LEMMA OwnStartBle ==
  ASSUME TypeOK, NEW t \in Tasks, Own(t), StartBle(t)
  PROVE  Own(t)'
<1>1. /\ todo[t] # <<>> /\ Head(todo[t]) = "startBle"
      /\ UNCHANGED <<selected, driver, inited, listening>>
      /\ step[t] \in {"ready", "scanBle"} /\ step'[t] \in {"ready", "scanBle"}
      /\ Fail(t) \/ Return(t) \/ \E w : On(t, w)
  BY Going DEF StartBle, At, wifi
<1>2. Head(todo[t]) = StartOf("ble") /\ "ble" \in Radios
  BY <1>1, Names DEF Radios
<1>3. \A r \in Radios : Head(todo[t]) # StopOf(r)
  BY <1>2, Names
<1>4. CASE running' = running
  <2>1. Fits(todo'[t], selected', running')
    BY <1>1, <1>3, <1>4, QuietFits DEF Own
  <2>2. /\ "ble" \in running' => bleUp'
        /\ step'[t] = "scanBle" => bleUp'
    BY <1>4, Going DEF StartBle, At, ble, Own, Within
  <2>3. Within(t)' /\ WifiAt(t)'
    BY <1>1, <1>4, <2>2 DEF Own, Within, WifiAt
  <2>4. QED
    BY <1>1, <1>4, <2>1, <2>3 DEF Own
<1>5. CASE running' # running
  <2>1. /\ step[t] = "scanBle" /\ running' = running \cup {"ble"}
        /\ Return(t) /\ bleUp' = bleUp /\ step'[t] = "ready"
    BY <1>5, Going DEF StartBle, At, ble
  <2>2. todo[t] \in Seq(Calls \cup Radios)
    BY DEF TypeOK
  <2>3. selected = "ble" /\ Fits(Tail(todo[t]), selected, running')
    BY <1>1, <1>2, <2>2, AfterStart DEF Own
  <2>4. Fits(todo'[t], selected', running') /\ running' \subseteq {selected'}
    BY <1>1, <2>1, <2>3, Going DEF Own
  <2>5. Within(t)' /\ WifiAt(t)'
    BY <1>1, <2>1 DEF Own, Within, WifiAt
  <2>6. QED
    BY <2>4, <2>5 DEF Own
<1>6. QED
  BY <1>4, <1>5

\* SET_RADIO selects when every radio has been stopped.
LEMMA OwnSelect ==
  ASSUME TypeOK, NEW t \in Tasks, Own(t), Select(t)
  PROVE  Own(t)'
<1>1. /\ todo[t] # <<>> /\ Head(todo[t]) \notin Calls /\ step[t] = "ready"
      /\ UNCHANGED <<running, driver, inited, listening, bleUp>>
      /\ Return(t) /\ step'[t] = "ready" /\ todo'[t] = Tail(todo[t])
  BY Going DEF Select, wifi, ble
<1>2. todo[t] \in Seq(Calls \cup Radios)
  BY DEF TypeOK
<1>3. 1 \in 1..Len(todo[t]) /\ todo[t][1] \in Radios
  BY <1>1, <1>2
<1>4. 1 = Len(todo[t]) /\ \A r \in running : Stopped(todo[t], 1, r)
  BY <1>3 DEF Own, Fits, StopsFirst
<1>5. running = {}
  BY <1>4 DEF Stopped
<1>6. todo'[t] = <<>>
  <2>1. Tail(todo[t]) \in Seq(Calls \cup Radios) /\ Len(Tail(todo[t])) = 0
    BY <1>1, <1>2, <1>4, HeadTailProperties
  <2>2. Tail(todo[t]) = <<>>
    BY <2>1, EmptySeq
  <2>3. QED
    BY <1>1, <2>2
<1>7. Fits(todo'[t], selected', running')
  BY <1>6, EmptyFits
<1>8. Within(t)' /\ WifiAt(t)'
  BY <1>1, <1>5 DEF Own, Within, WifiAt
<1>9. QED
  BY <1>1, <1>5, <1>7, <1>8 DEF Own

LEMMA OwnStep ==
  ASSUME TypeOK, NEW t \in Tasks, Own(t), Call(t)
  PROVE  Own(t)'
  BY Own154, OwnOthers, OwnStopWifi, OwnStartWifi, OwnScan, OwnRebuild,
     OwnStopBle, OwnStartBle, OwnSelect DEF Call

-----------------------------------------------------------------------------
(* The invariant.                                                          *)

\* A task's own part is the whole, the other having nothing to do.
LEMMA OwnIsOne ==
  ASSUME TypeOK, StepsInCalls, NEW t \in Tasks, NEW u \in Tasks, t # u, Idle(u)
  PROVE  One <=> Own(t)
<1>1. Tasks = {t, u} /\ {t, u} = {"control", "main"}
  BY DEF Tasks
<1>2. todo[u] = <<>> /\ step[u] = "ready"
  BY DEF StepsInCalls, Idle
<1>3. Idle("control") \/ Idle("main")
  BY <1>1
<1>4. Fits(todo[u], selected, running)
  BY <1>2, EmptyFits
<1>5. WifiOk <=> WifiAt(t)
  BY <1>1, <1>2 DEF WifiOk, WifiAt
<1>6. Within(t) => Within(u)
  BY <1>2 DEF Within
<1>7. QED
  BY <1>1, <1>3, <1>4, <1>5, <1>6 DEF One, Own

LEMMA OneIsOwnNext ==
  ASSUME StepsInCalls', NEW t \in Tasks, NEW u \in Tasks, t # u, Idle(u)',
         Own(t)'
  PROVE  One'
<1>1. Tasks = {t, u} /\ {t, u} = {"control", "main"}
  BY DEF Tasks
<1>2. todo'[u] = <<>> /\ step'[u] = "ready"
  BY DEF StepsInCalls, Idle
<1>3. Idle("control")' \/ Idle("main")'
  BY <1>1
<1>4. Fits(todo'[u], selected', running')
  BY <1>2, EmptyFits
<1>5. WifiOk'
  BY <1>1, <1>2 DEF WifiOk, WifiAt, Own
<1>6. Within(t)' /\ Within(u)'
  BY <1>2 DEF Within, Own
<1>7. QED
  BY <1>1, <1>3, <1>4, <1>5, <1>6 DEF One, Own

LEMMA OneCall ==
  ASSUME TypeOK, TypeOK', StepsInCalls, StepsInCalls', One,
         NEW t \in Tasks, Call(t)
  PROVE  One'
<1>1. PICK u \in Tasks : u # t /\ Tasks = {t, u}
  BY DEF Tasks
<1>2. todo[t] # <<>> /\ todo'[u] = todo[u]
  BY <1>1, Moved
<1>3. Idle(u)
  BY <1>1, <1>2 DEF One, Idle, Tasks
<1>4. Idle(u)'
  BY <1>2, <1>3 DEF Idle
<1>5. Own(t)'
  BY <1>1, <1>3, OwnIsOne, OwnStep
<1>6. QED
  BY <1>1, <1>4, <1>5, OneIsOwnNext

\* What a command asks for fits the board when it is asked.
LEMMA CommandFits ==
  ASSUME NEW c \in Commands, NEW R \in SUBSET Radios, selected \in Radios
  PROVE  Fits(Plan(c), selected, R)
<1> DEFINE q == Plan(c)
<1>1. c \in {"start", "stop", "scan", "energy", "powerCycle"}
  BY CommandsKnown
<1>2. CASE c = "stop"
  <2>1. q = <<"stop154", "stopWifi", "stopBle">>
    BY <1>2 DEF Plan, StopAll
  <2>2. QED
    BY <2>1 DEF Fits, StartsSelected, StopsFirst, StartOf, Radios
<1>3. CASE c = "scan"
  <2>1. q = <<"stop154", "stopWifi", "scan">>
    BY <1>3 DEF Plan, Scan
  <2>2. Stopped(q, 3, "wifi")
    BY <2>1 DEF Stopped, StopOf
  <2>3. QED
    BY <2>1, <2>2 DEF Fits, StartsSelected, StopsFirst, StartOf, Radios
<1>4. CASE c = "energy"
  <2>1. q = <<"energy">>
    BY <1>4 DEF Plan
  <2>2. QED
    BY <2>1 DEF Fits, StartsSelected, StopsFirst, StartOf, Radios
<1>5. CASE c = "powerCycle"
  <2>1. q = <<"powerCycle">>
    BY <1>5 DEF Plan
  <2>2. QED
    BY <2>1 DEF Fits, StartsSelected, StopsFirst, StartOf, Radios
<1>6. CASE c = "start" /\ selected = "ble"
  <2>1. q = <<"stop154", "stopWifi", "startBle">>
    BY <1>6 DEF Plan
  <2>2. QED
    BY <1>6, <2>1 DEF Fits, StartsSelected, StopsFirst, StartOf, Radios
<1>7. CASE c = "start" /\ selected = "wifi"
  <2>1. q = <<"stop154", "startWifi">>
    BY <1>7 DEF Plan
  <2>2. QED
    BY <1>7, <2>1 DEF Fits, StartsSelected, StopsFirst, StartOf, Radios
<1>8. CASE c = "start" /\ selected = "ieee"
  <2>1. q = <<"start154">>
    BY <1>8 DEF Plan
  <2>2. QED
    BY <1>8, <2>1 DEF Fits, StartsSelected, StopsFirst, StartOf, Radios
<1>9. QED
  BY <1>1, <1>2, <1>3, <1>4, <1>5, <1>6, <1>7, <1>8 DEF Radios

LEMMA Fourth ==
  ASSUME NEW S, NEW p \in Seq(S), NEW v \in S
  PROVE  Len(p) = 3 => (/\ Len(Append(p, v)) = 4 /\ Append(p, v)[4] = v
                        /\ \A i \in 1..3 : Append(p, v)[i] = p[i])
<1>1. Len(Append(p, v)) = Len(p) + 1
  BY AppendProperties
<1>2. \A i \in 1..Len(p) : Append(p, v)[i] = p[i]
  BY AppendProperties
<1>3. Append(p, v)[Len(p) + 1] = v
  BY AppendProperties
<1>4. QED
  BY <1>1, <1>2, <1>3

LEMMA SelectFits ==
  ASSUME NEW v \in Radios, NEW R \in SUBSET Radios, NEW s
  PROVE  Fits(Append(StopAll, v), s, R)
<1> DEFINE q == Append(StopAll, v)
<1>0. q = Append(StopAll, v)
  OBVIOUS
<1>1. StopAll \in Seq(CallsOrRadios) /\ Len(StopAll) = 3
  BY DEF StopAll, Calls, CallsOrRadios
<1> HIDE DEF q
<1>9. v \in CallsOrRadios
  BY DEF CallsOrRadios
<1>2. Len(q) = 4 /\ (\A i \in 1..3 : q[i] = StopAll[i]) /\ q[4] = v
  BY <1>0, <1>1, <1>9, Fourth
<1>3. q[1] = "stop154" /\ q[2] = "stopWifi" /\ q[3] = "stopBle"
  BY <1>2 DEF StopAll
<1>8. \A r \in Radios : Stopped(q, 4, r)
  BY <1>3 DEF Stopped, StopOf, Radios
<1>4. StartsSelected(q, s)
  BY <1>2, <1>3 DEF StartsSelected, StartOf, Radios
<1>5. StopsFirst(q, R)
  BY <1>2, <1>3, <1>8 DEF StopsFirst, Radios
<1>6. QED
  BY <1>4, <1>5 DEF Fits, q

\* The main task's jobs: a rebuild of the driver of a Wi-Fi capture, and the
\* boot's hand-back of 802.15.4.
LEMMA MainFits ==
  ASSUME NEW R
  PROVE  /\ Fits(<<"rebuild", "startWifi">>, "wifi", R)
         /\ \A s : Fits(<<"stop154", "stopWifi", "deepSleep">>, s, R)
         /\ Fits(HandBackAtBoot, "ieee", R)
<1>1. Fits(<<"rebuild", "startWifi">>, "wifi", R)
  BY DEF Fits, StartsSelected, StopsFirst, StartOf, Radios
<1>2. \A s : Fits(<<"stop154", "stopWifi", "deepSleep">>, s, R)
  BY DEF Fits, StartsSelected, StopsFirst, StartOf, Radios
<1>3. Fits(HandBackAtBoot, "ieee", R)
  BY DEF Fits, StartsSelected, StopsFirst, StartOf, Radios, HandBackAtBoot
<1>4. QED
  BY <1>1, <1>2, <1>3

\* A plan is begun while the other task has none.
LEMMA OneAccept ==
  ASSUME TypeOK, Plans, One, NEW plan, Fits(plan, selected, running),
         Accept(plan) \/ MainLoop(plan), ~overlapped'
  PROVE  One'
<1>1. PICK t \in Tasks : /\ todo' = [todo EXCEPT ![t] = plan]
                         /\ Idle(t) /\ \A u \in Tasks \ {t} : Idle(u)
  BY DEF Accept, MainLoop, Tasks
<1>2. UNCHANGED <<selected, running, wifi, ble, step>>
  BY DEF Accept, MainLoop
<1>3. PICK u \in Tasks : u # t /\ Tasks = {t, u}
  BY DEF Tasks
<1>4. todo'[t] = plan /\ todo'[u] = <<>>
  BY <1>1, <1>3 DEF TypeOK, Idle
<1>5. \A v \in Tasks : Within(v)'
  BY <1>2 DEF One, Within, ble, wifi
<1>6. WifiOk'
  BY <1>2 DEF One, WifiOk, wifi
<1>7. Fits(todo'[t], selected', running') /\ Fits(todo'[u], selected', running')
  BY <1>2, <1>4, EmptyFits
<1>8. Idle("control")' \/ Idle("main")'
  BY <1>3, <1>4 DEF Idle, Tasks
<1>9. QED
  BY <1>2, <1>3, <1>5, <1>6, <1>7, <1>8 DEF One

LEMMA OneRestart == Restart => One'
<1> SUFFICES ASSUME Restart PROVE One'
  OBVIOUS
<1>1. /\ selected' = "ieee" /\ running' = {} /\ ~inited'
      /\ \A t \in Tasks : step'[t] = "ready"
  BY DEF Restart, Ready
<1>2. todo'["control"] = <<>> /\ todo'["main"] \in {HandBackAtBoot, <<>>}
  <2>1. BootPlan(dirty) \in {HandBackAtBoot, <<>>}
    BY Zenon DEF BootPlan
  <2>2. QED
    BY <2>1 DEF Restart, Tasks
<1>3. \A t \in Tasks : Fits(todo'[t], selected', running')
  BY <1>1, <1>2, EmptyFits, MainFits DEF Tasks
<1>4. \A t \in Tasks : Within(t)'
  BY <1>1 DEF Within
<1>5. WifiOk'
  BY <1>1 DEF WifiOk
<1>6. QED
  BY <1>1, <1>2, <1>3, <1>4, <1>5 DEF One, Idle

LEMMA OneStart == Init => One
<1> SUFFICES ASSUME Init PROVE One
  OBVIOUS
<1>1. /\ selected = "ieee" /\ running = {} /\ ~inited
      /\ \A t \in Tasks : step[t] = "ready" /\ todo[t] = <<>>
  BY DEF Init, Ready
<1>2. QED
  BY <1>1, EmptyFits DEF One, Within, WifiOk, Idle, Tasks

LEMMA OneStep == IInv /\ IInv' /\ OneInv /\ [Next]_vars => OneInv'
<1> SUFFICES ASSUME IInv, IInv', OneInv, [Next]_vars, ~overlapped'
             PROVE  One'
  BY DEF OneInv
<1>1. TypeOK /\ TypeOK' /\ Plans /\ StepsInCalls /\ StepsInCalls'
  BY DEF IInv, Plans
<1>2. CASE DeepSleep \/ Abort \/ Reset
  BY <1>2, OneRestart DEF DeepSleep, Abort, Reset
<1>3. CASE Command
  <2>1. PICK c \in Commands : Accept(Plan(c))
    BY <1>3 DEF Command
  <2>2. One
    BY <2>1 DEF OneInv, Accept
  <2>3. Fits(Plan(c), selected, running)
    BY <1>1, CommandFits DEF TypeOK
  <2>4. QED
    BY <1>1, <2>1, <2>2, <2>3, OneAccept
<1>4. CASE SetRadio
  <2>1. PICK v \in Radios : Accept(Append(StopAll, v))
    BY <1>4 DEF SetRadio, NamesRadio
  <2>2. One
    BY <2>1 DEF OneInv, Accept
  <2>3. Fits(Append(StopAll, v), selected, running)
    BY <1>1, SelectFits DEF TypeOK
  <2>4. QED
    BY <1>1, <2>1, <2>2, <2>3, OneAccept
<1>5. CASE Service
  <2>1. MainLoop(<<"rebuild", "startWifi">>) /\ selected = "wifi"
    BY <1>5 DEF Service
  <2>2. One
    BY <2>1 DEF OneInv, MainLoop
  <2>3. QED
    BY <1>1, <2>1, <2>2, MainFits, OneAccept
<1>6. CASE PowerCycle
  <2>1. MainLoop(<<"stop154", "stopWifi", "deepSleep">>)
    BY <1>6 DEF PowerCycle
  <2>2. One
    BY <2>1 DEF OneInv, MainLoop
  <2>3. QED
    BY <1>1, <2>1, <2>2, MainFits, OneAccept
<1>7. CASE Call("control") \/ Call("main")
  <2>1. overlapped' = overlapped
    BY <1>7 DEF Call, Stop154, Start154, EnergyDetect, StopWifi, StartWifi,
       ScanWifi, Rebuild, StopBle, StartBle, Select, RequestPowerCycle
  <2>2. QED
    BY <1>1, <1>7, <2>1, OneCall DEF OneInv, Tasks
<1>8. CASE BootDone
  <2>1. UNCHANGED <<selected, running, wifi, ble, todo, step, overlapped>>
    BY <1>8 DEF BootDone, history
  <2>2. QED
    BY <2>1 DEF OneInv, One, Within, WifiOk, Idle, wifi, ble
<1>9. CASE UNCHANGED vars
  <2>1. UNCHANGED <<selected, running, wifi, ble, todo, step, overlapped>>
    BY <1>9 DEF vars, history
  <2>2. QED
    BY <2>1 DEF OneInv, One, Within, WifiOk, Idle, wifi, ble
<1>10. QED
  BY <1>2, <1>3, <1>4, <1>5, <1>6, <1>7, <1>8, <1>9
     DEF Next, ControlStep, MainStep

LEMMA OneAlways == Spec => [](IInv /\ OneInv)
<1>1. Init => OneInv
  BY OneStart DEF OneInv
<1>2. QED
  BY <1>1, OneStep, Invariant, PTL DEF Spec

\* No two radios run at once, whatever is asked for, fails, crashes or is
\* reset, as long as no command and no job of the main task overlap.
THEOREM OneAtATime == Spec => []OneRadio
<1>1. OneInv => OneRadio
  BY DEF OneInv, One, OneRadio
<1>2. QED
  BY <1>1, OneAlways, PTL

\* A Wi-Fi capture that is marked running is listening on a driver that is up
\* whenever nothing is under way, with the same exception.
THEOREM MarkedListens == Spec => []CaptureListens
<1>1. IInv /\ OneInv => CaptureListens
  BY DEF IInv, Plans, StepsInCalls, OneInv, One, WifiOk, CaptureListens, AllIdle
<1>2. QED
  BY <1>1, OneAlways, PTL
=============================================================================
